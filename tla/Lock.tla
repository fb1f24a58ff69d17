--------------------------------- MODULE Lock ----------------------------------
(***************************************************************************)
(* Class Lock (packages/utils/source/lock.ts): exclusive and non-exclusive *)
(* calls, as the consensus uses it for commits and message processing.     *)
(* What a callback does is left open: it runs from its start until it      *)
(* settles, by returning or by throwing, which the lock does not tell      *)
(* apart.                                                                  *)
(***************************************************************************)
CONSTANTS
  Exclusive,      \* calls of runExclusive
  NonExclusive    \* calls of runNonExclusive

Calls == Exclusive \cup NonExclusive

ASSUME CallsAssumption == Exclusive \cap NonExclusive = {}

VARIABLES
  pc,                     \* where a call is: "idle", "waiting", "woken", "draining",
                          \* "running" or "done"
  exclusivePromise,       \* {} or {the call behind #exclusivePromise}
  nonExclusivePromises,   \* the calls in #nonExclusivePromises
  awaited                 \* the ones the exclusive call still waits for

lockVars == <<pc, exclusivePromise, nonExclusivePromises, awaited>>

LockInit ==
  /\ pc = [c \in Calls |-> "idle"]
  /\ exclusivePromise = {}
  /\ nonExclusivePromises = {}
  /\ awaited = {}

\* The callback starts.
StartNonExclusive(c) ==
  /\ c \in NonExclusive
  /\ pc' = [pc EXCEPT ![c] = "running"]
  /\ nonExclusivePromises' = nonExclusivePromises \cup {c}
  /\ UNCHANGED <<exclusivePromise, awaited>>

\* Mutant: the running non-exclusive calls are not awaited.
StartExclusiveAtOnce(c) ==
  /\ c \in Exclusive
  /\ pc' = [pc EXCEPT ![c] = "draining"]
  /\ exclusivePromise' = {c}
  /\ awaited' = {}
  /\ UNCHANGED nonExclusivePromises

\* The lock is taken; the callback waits for the non-exclusive calls of this moment.
StartExclusive(c) ==
  /\ c \in Exclusive
  /\ pc' = [pc EXCEPT ![c] = "draining"]
  /\ exclusivePromise' = {c}
  /\ awaited' = nonExclusivePromises
  /\ UNCHANGED nonExclusivePromises

Wait(c) ==
  /\ exclusivePromise # {}
  /\ pc' = [pc EXCEPT ![c] = "waiting"]
  /\ UNCHANGED <<exclusivePromise, nonExclusivePromises, awaited>>

\* A call arrives, or its await of the exclusive promise is over: while (#exclusivePromise).
Acquire(c) ==
  /\ pc[c] \in {"idle", "woken"}
  /\ \/ Wait(c)
     \/ /\ exclusivePromise = {}
        /\ StartNonExclusive(c) \/ StartExclusive(c)

\* The awaited calls have settled: the callback of the exclusive call starts.
Drained(c) ==
  /\ pc[c] = "draining" /\ awaited = {}
  /\ pc' = [pc EXCEPT ![c] = "running"]
  /\ UNCHANGED <<exclusivePromise, nonExclusivePromises, awaited>>

\* Mutant: calls that wait for the exclusive promise are not resumed.
SettleSilently(c) ==
  /\ pc[c] = "running"
  /\ pc' = [pc EXCEPT ![c] = "done"]
  /\ exclusivePromise' = exclusivePromise \ {c}
  /\ nonExclusivePromises' = nonExclusivePromises \ {c}
  /\ awaited' = awaited \ {c}

\* The callback settles.  The caller of an exclusive one awaits the promise first, so it
\* has cleared the field when the waiting calls look again.
Settle(c) ==
  /\ pc[c] = "running"
  /\ IF c \in Exclusive
     THEN /\ pc' = [d \in Calls |-> IF d = c THEN "done"
                                    ELSE IF pc[d] = "waiting" THEN "woken" ELSE pc[d]]
          /\ exclusivePromise' = {}
          /\ UNCHANGED <<nonExclusivePromises, awaited>>
     ELSE /\ pc' = [pc EXCEPT ![c] = "done"]
          /\ nonExclusivePromises' = nonExclusivePromises \ {c}
          /\ awaited' = awaited \ {c}
          /\ UNCHANGED exclusivePromise

LockNext == \E c \in Calls : Acquire(c) \/ Drained(c) \/ Settle(c)

LockSpec == LockInit /\ [][LockNext]_lockVars

-------------------------------------------------------------------------------

\* While the callback of an exclusive call runs, no other callback runs (runExclusive).
Exclusion ==
  \A c \in Exclusive, d \in Calls :
    pc[c] = "running" /\ c # d => pc[d] # "running"

\* The fields of the lock agree with where the calls are: one exclusive call at a time has
\* taken it, calls wait only for such a call, and it waits for exactly the non-exclusive
\* callbacks that are running, because none starts meanwhile.
LockInv ==
  /\ pc \in [Calls -> {"idle", "waiting", "woken", "draining", "running", "done"}]
  /\ exclusivePromise \subseteq Exclusive
  /\ \A c \in Exclusive : c \in exclusivePromise <=> pc[c] \in {"draining", "running"}
  /\ \A c, d \in exclusivePromise : c = d
  /\ nonExclusivePromises = {c \in NonExclusive : pc[c] = "running"}
  /\ \A c \in NonExclusive : pc[c] # "draining"
  /\ \A c \in Calls : pc[c] = "waiting" => exclusivePromise # {}
  /\ exclusivePromise # {} => awaited = nonExclusivePromises
  /\ \A c \in Exclusive : pc[c] = "running" => nonExclusivePromises = {}

================================================================================
