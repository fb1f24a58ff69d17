-------------------------- MODULE ConsensusRefinement --------------------------
(***************************************************************************)
(* The node of module Consensus implements a correct node of module        *)
(* Tendermint, whatever the other validators do: it is the only node, all  *)
(* other validators are faulty.  The mapping looks at the first block      *)
(* number; committing its block is the decision.  While the process is     *)
(* down the fields keep their last values, so a restart is a stuttering    *)
(* step exactly when it restores the position, the lock and the locked     *)
(* block.                                                                  *)
(***************************************************************************)
EXTENDS Consensus

decided == chain # <<>>

isLocked == ~decided /\ lockedRound # None

\* What Tendermint sees of the node.
seenRound == IF decided THEN 0 ELSE round
seenStep == IF decided THEN "decided" ELSE step
seenLock == IF isLocked THEN lockedRound ELSE None
seenValue == IF isLocked THEN BlockOf(lockedRound) ELSE Nil
seenDecision == IF decided THEN chain[1] ELSE Nil
seenPrevotes == cast.prevote[1]
seenPrecommits == cast.precommit[1]

Abstract == INSTANCE Tendermint WITH
  Faulty <- Remote,
  Nodes <- {"node"},
  host <- [v \in Local |-> "node"],
  EarlyVotes <- {},
  round <- [n \in {"node"} |-> seenRound],
  step <- [n \in {"node"} |-> seenStep],
  lockedRound <- [n \in {"node"} |-> seenLock],
  lockedValue <- [n \in {"node"} |-> seenValue],
  decision <- [n \in {"node"} |-> seenDecision],
  prevotes <- seenPrevotes,
  precommits <- seenPrecommits

\* Every step of the node, crashes and restarts included, is a step that the abstract
\* consensus allows a correct node, or invisible to it: it votes once per round, respects
\* its lock, locks and decides on +2/3 votes only, and a restart changes nothing of this.
ImplementsTendermint == Abstract!Spec

================================================================================
