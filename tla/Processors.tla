------------------------------- MODULE Processors ------------------------------
(***************************************************************************)
(* MessageProcessor and ProposalProcessor with the commit lock, against    *)
(* a consensus that moves through rounds and commits blocks.               *)
(*                                                                         *)
(* A call of process runs its callback under the non-exclusive lock: it    *)
(* checks the message, lets a worker verify the signature, checks again,   *)
(* adds the message to its round state and stores it.  Between these steps *)
(* other calls run.  Votes that are byte for byte the same share one       *)
(* verification.  A commit is a call of the exclusive lock.                *)
(***************************************************************************)
EXTENDS Lock, Integers

CONSTANTS
  msg,              \* msg[c]: the vote or proposal of a non-exclusive call
  MaxBlockNumber,   \* bound on block numbers
  MaxRound          \* bound on rounds

Types == {"prevote", "precommit", "proposal"}

\* slot: the validator of a vote, one value for proposals; copy tells contents of one slot
\* apart; eligible: #hasValidProposer, TRUE of votes; valid: the verdict on the signature.
isMessage(m) ==
  /\ m.type \in Types
  /\ m.blockNumber \in 1..MaxBlockNumber /\ m.round \in 0..MaxRound
  /\ m.eligible \in BOOLEAN /\ m.valid \in BOOLEAN
  /\ m.type # "proposal" => m.eligible

ASSUME MessagesAssumption ==
  /\ MaxBlockNumber \in Nat /\ MaxRound \in Nat
  /\ \A c \in NonExclusive : isMessage(msg[c])

Messages == {msg[c] : c \in NonExclusive}

VARIABLES
  blockNumber, round,   \* position of the consensus
  disposed,             \* #isDisposed of the consensus
  storeOpen,            \* the consensus store is not closed yet
  added,                \* messages in the round states of blockNumber
  stage,                \* stage[c]: "none", "verifying", "sharing", "verified", "saving",
                        \* "settled"
  result,               \* result[c]: what process returns, "failed" when it throws
  pendingMessages,      \* message |-> calls that share its verification, a partial function
  stored,               \* messages written to the consensus store
  timers,               \* proposals whose setTimeout callback is still to come
  handled               \* messages whose round state was handed to the rules

consensusVars == <<blockNumber, round, disposed, storeOpen>>
callVars == <<stage, result>>
vars == <<lockVars, consensusVars, added, callVars, pendingMessages, stored, timers, handled>>

Init ==
  /\ LockInit
  /\ blockNumber = 1 /\ round = 0
  /\ disposed = FALSE /\ storeOpen = TRUE
  /\ added = {} /\ stored = {} /\ timers = {} /\ handled = {}
  /\ stage = [c \in NonExclusive |-> "none"]
  /\ result = [c \in NonExclusive |-> "none"]
  /\ pendingMessages = [m \in {} |-> {}]

-------------------------------------------------------------------------------

\* The call is about to leave its callback with result r.
Returns(c, r) ==
  /\ stage' = [stage EXCEPT ![c] = "settled"]
  /\ result' = [result EXCEPT ![c] = r]

\* Mutant: only the same message is a duplicate.
isSameMessage(m) == \E n \in added : n = m

\* hasMessage, hasProposal: the round state has a message for this slot, equal or not.
isDuplicate(m) ==
  \E n \in added : n.type = m.type /\ n.round = m.round /\ n.slot = m.slot

hasValidBlockNumberAndRound(m) == m.blockNumber = blockNumber /\ m.round >= round

\* #signatureCheck up to its await.
SignatureCheck(c) ==
  LET m == msg[c] IN
  /\ UNCHANGED result
  /\ IF m.type = "proposal"
     THEN /\ stage' = [stage EXCEPT ![c] = "verifying"]
          /\ UNCHANGED pendingMessages
     ELSE IF m \in DOMAIN pendingMessages
     THEN /\ stage' = [stage EXCEPT ![c] = "sharing"]
          /\ pendingMessages' = [pendingMessages EXCEPT ![m] = @ \cup {c}]
     ELSE /\ stage' = [stage EXCEPT ![c] = "verifying"]
          /\ pendingMessages' = [n \in DOMAIN pendingMessages \cup {m} |->
                                   IF n = m THEN {} ELSE pendingMessages[n]]

\* The checks at the start of the callback, in their order; whether a round that is not
\* yet current is ahead of its time is up to the clock.
Check(c) ==
  LET m == msg[c]
      live == ~disposed /\ hasValidBlockNumberAndRound(m)
  IN
  \/ /\ ~live \/ m.round > round
     /\ Returns(c, "skipped") /\ UNCHANGED pendingMessages
  \/ /\ live /\ ~m.eligible
     /\ Returns(c, "invalid") /\ UNCHANGED pendingMessages
  \/ /\ live /\ m.eligible /\ isDuplicate(m)
     /\ Returns(c, "skipped") /\ UNCHANGED pendingMessages
  \/ /\ live /\ m.eligible /\ ~isDuplicate(m)
     /\ SignatureCheck(c)

\* process: wait for the lock, or run the callback up to its first await.
Process(c) ==
  /\ c \in NonExclusive
  /\ Acquire(c)
  /\ IF pc'[c] = "running" THEN Check(c) ELSE UNCHANGED <<callVars, pendingMessages>>
  /\ UNCHANGED <<consensusVars, added, stored, timers, handled>>

\* What the calls that shared a verification return.
Shared(v) == CASE v = "valid" -> "skipped" [] v = "invalid" -> "invalid" [] v = "error" -> "failed"

\* The verification ended with v for c and for the calls S that shared it.
Deliver(c, v, S) ==
  /\ stage' = [d \in NonExclusive |->
                 IF d = c THEN IF v = "valid" THEN "verified" ELSE "settled"
                 ELSE IF d \in S THEN "settled" ELSE stage[d]]
  /\ result' = [d \in NonExclusive |->
                  IF d = c THEN IF v = "valid" THEN result[d] ELSE Shared(v)
                  ELSE IF d \in S THEN Shared(v) ELSE result[d]]

\* #takePendingMessages: the calls that share c's verification; proposals share none.
sharing(c) == IF msg[c].type = "proposal" THEN {} ELSE pendingMessages[msg[c]]

withoutPending(c) ==
  [n \in IF msg[c].type = "proposal" THEN DOMAIN pendingMessages
         ELSE DOMAIN pendingMessages \ {msg[c]} |-> pendingMessages[n]]

Verdicts(c) == {IF msg[c].valid THEN "valid" ELSE "invalid", "error"}

\* The worker answers, or the call to it throws.
Answer(c) ==
  /\ stage[c] = "verifying"
  /\ \E v \in Verdicts(c) : Deliver(c, v, sharing(c))
  /\ pendingMessages' = withoutPending(c)
  /\ UNCHANGED <<lockVars, consensusVars, added, stored, timers, handled>>

\* The second check, addMessage or addProposal, and the start of the write.  These two throw
\* when the slot is taken, which they find out as hasMessage and hasProposal do; there is no
\* await after the check, so they never have to.
Add(c) ==
  /\ stage[c] = "verified"
  /\ IF isDuplicate(msg[c])
     THEN Returns(c, "skipped") /\ UNCHANGED added
     ELSE /\ added' = added \cup {msg[c]}
          /\ stage' = [stage EXCEPT ![c] = "saving"]
          /\ UNCHANGED result
  /\ UNCHANGED <<lockVars, consensusVars, pendingMessages, stored, timers, handled>>

\* The write ends: a vote's round state is handled, a proposal's in a timeout of 0 ms.
Save(c) ==
  /\ stage[c] = "saving" /\ storeOpen
  /\ stored' = stored \cup {msg[c]}
  /\ IF msg[c].type = "proposal"
     THEN timers' = timers \cup {msg[c]} /\ UNCHANGED handled
     ELSE handled' = handled \cup {msg[c]} /\ UNCHANGED timers
  /\ Returns(c, "accepted")
  /\ UNCHANGED <<lockVars, consensusVars, added, pendingMessages>>

\* The store was closed meanwhile and the write throws.
SaveFails(c) ==
  /\ stage[c] = "saving" /\ ~storeOpen
  /\ Returns(c, "failed")
  /\ UNCHANGED <<lockVars, consensusVars, added, pendingMessages, stored, timers, handled>>

HandleProposal(m) ==
  /\ m \in timers
  /\ timers' = timers \ {m}
  /\ handled' = handled \cup {m}
  /\ UNCHANGED <<lockVars, consensusVars, added, callVars, pendingMessages, stored>>

\* The callback settles and the lock lets go of the call.
Leave(c) ==
  /\ stage[c] = "settled" /\ c \in NonExclusive
  /\ Settle(c)
  /\ UNCHANGED <<consensusVars, added, callVars, pendingMessages, stored, timers, handled>>

-------------------------------------------------------------------------------
\* The consensus, as far as the processors see it.

messageVars == <<added, callVars, pendingMessages, stored, timers, handled>>

\* #handlerLock: one handler at a time, and a commit is part of a handler.
Committing == \E e \in Exclusive : pc[e] \notin {"idle", "done"}

StartRound ==
  /\ ~disposed /\ ~Committing
  /\ round < MaxRound
  /\ round' = round + 1
  /\ UNCHANGED <<lockVars, blockNumber, disposed, storeOpen, messageVars>>

\* onMajorityPrecommit asks for the lock, and waits until it is drained.
RequestCommit(e) ==
  /\ e \in Exclusive
  /\ ~disposed /\ ~Committing
  /\ blockNumber < MaxBlockNumber
  /\ Acquire(e)
  /\ UNCHANGED <<consensusVars, messageVars>>

DrainCommit(e) ==
  /\ e \in Exclusive
  /\ Drained(e)
  /\ UNCHANGED <<consensusVars, messageVars>>

\* The callback of the commit: clear the round states and start the next block number.
CommitBlock(e) ==
  /\ e \in Exclusive
  /\ Settle(e)
  /\ added' = {}
  /\ blockNumber' = blockNumber + 1 /\ round' = 0
  /\ UNCHANGED <<disposed, storeOpen, callVars, pendingMessages, stored, timers, handled>>

Dispose ==
  /\ ~disposed
  /\ disposed' = TRUE
  /\ UNCHANGED <<lockVars, blockNumber, round, storeOpen, messageVars>>

\* dispose has waited for the handler; then the service provider of the store closes it.
CloseStore ==
  /\ disposed /\ ~Committing /\ storeOpen
  /\ storeOpen' = FALSE
  /\ UNCHANGED <<lockVars, blockNumber, round, disposed, messageVars>>

CallStep(c) ==
  Process(c) \/ Answer(c) \/ Add(c) \/ Save(c) \/ SaveFails(c) \/ Leave(c)

Next ==
  \/ \E c \in NonExclusive : CallStep(c)
  \/ \E m \in Messages : HandleProposal(m)
  \/ \E e \in Exclusive : RequestCommit(e) \/ DrainCommit(e) \/ CommitBlock(e)
  \/ StartRound
  \/ Dispose
  \/ CloseStore

Spec == Init /\ [][Next]_vars

-------------------------------------------------------------------------------

Stages == {"none", "verifying", "sharing", "verified", "saving", "settled"}
Results == {"none", "accepted", "skipped", "invalid", "failed"}

TypeOK ==
  /\ blockNumber \in 1..MaxBlockNumber /\ round \in 0..MaxRound
  /\ disposed \in BOOLEAN /\ storeOpen \in BOOLEAN
  /\ stage \in [NonExclusive -> Stages] /\ result \in [NonExclusive -> Results]
  /\ added \subseteq Messages /\ stored \subseteq Messages
  /\ timers \subseteq Messages /\ handled \subseteq Messages
  /\ DOMAIN pendingMessages \subseteq Messages
  /\ \A m \in DOMAIN pendingMessages : pendingMessages[m] \subseteq NonExclusive

\* The round states hold at most one message of a slot, although calls with conflicting
\* messages verify at the same time (the second check of process).
OneMessagePerSlot ==
  \A m, n \in added :
    m.type = n.type /\ m.round = n.round /\ m.slot = n.slot => m = n

\* Calls whose callback has begun and not settled.
InCallback(c) == stage[c] \in {"verifying", "sharing", "verified", "saving"}

\* The round state that process looked up before its awaits is still the live one when the
\* message is added and saved: the commit that clears the repository waits for these calls.
\* So no message of another block number is ever in the round states.
RoundStatesAreLive ==
  /\ \A c \in NonExclusive : InCallback(c) => msg[c].blockNumber = blockNumber
  /\ \A m \in added : m.blockNumber = blockNumber

\* #pendingMessages has an entry exactly while one call verifies that vote, and the entry
\* lists exactly the calls that wait for its outcome ("it is always present").
SharedChecksHaveOwner ==
  /\ \A c \in NonExclusive :
       stage[c] \in {"verifying", "sharing"} /\ msg[c].type # "proposal"
         => msg[c] \in DOMAIN pendingMessages
  /\ \A m \in DOMAIN pendingMessages :
       /\ pendingMessages[m] = {c \in NonExclusive : stage[c] = "sharing" /\ msg[c] = m}
       /\ \E c \in NonExclusive : /\ stage[c] = "verifying" /\ msg[c] = m
                                  /\ \A d \in NonExclusive :
                                       stage[d] = "verifying" /\ msg[d] = m => d = c

\* The rules only ever act on a message that is stored, so a restart finds what the node
\* acted on, and only on verified ones.
HandledIsStored ==
  /\ handled \cup timers \subseteq stored
  /\ \A m \in added \cup stored : m.valid /\ m.eligible

\* No call is under way.
AtRest(c) == pc[c] \in {"idle", "done"}

================================================================================
