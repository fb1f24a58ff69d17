-------------------------------- MODULE MCLocks --------------------------------
(***************************************************************************)
(* What runs under a lock: the processors of messages under the commit     *)
(* lock, and the transactions on the LMDB file under the resize gate.      *)
(* They share no state, so that one of them moves in a behaviour.          *)
(*                                                                         *)
(* Processors: two copies of a prevote and a conflicting one, a proposal,  *)
(* a vote for the next block, and one commit.  Gate: the core process with *)
(* its committer and a reader, and another process (the pool worker or the *)
(* API) with two readers.                                                  *)
(***************************************************************************)
EXTENDS Processors, ResizeGate, TLC

CONSTANTS
  commit, copy1, copy2, conflict, proposal, later,
  core, other, w, a, b, c

MCExclusive == {commit}
MCNonExclusive == {copy1, copy2, conflict, proposal, later}

Message(type, number, r, copy) ==
  [type |-> type, blockNumber |-> number, round |-> r, slot |-> 0, copy |-> copy,
   eligible |-> TRUE, valid |-> TRUE]

MCmsg ==
  [x \in MCNonExclusive |->
     CASE x \in {copy1, copy2} -> Message("prevote", 1, 0, 1)
       [] x = conflict         -> Message("prevote", 1, 0, 2)
       [] x = proposal         -> Message("proposal", 1, 1, 1)
       [] x = later            -> Message("precommit", 2, 0, 1)]

MCProcesses == {core, other}
MCReaders == {a, b, c}
MCProcessOf == (w :> core) @@ (a :> core) @@ (b :> other) @@ (c :> other)

Symmetry == Permutations({b, c})

VARIABLE part   \* the component that moves

LocksInit ==
  /\ part \in {"processors", "gate"} /\ Init /\ GateInit
  /\ part = "processors" => disk = 0

LocksNext ==
  \/ part = "processors" /\ Next /\ UNCHANGED <<part, gateVars>>
  \/ part = "gate" /\ GateNext /\ UNCHANGED <<part, vars>>
  \* The processors may come to rest.
  \/ part = "processors" /\ UNCHANGED <<part, vars, gateVars>>

LocksSpec == LocksInit /\ [][LocksNext]_<<part, vars, gateVars>>

================================================================================
