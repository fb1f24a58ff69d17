------------------------------ MODULE MCConsensus ------------------------------
(* One node with validator a; b, c and d vote alike.  Two scenarios:           *)
(* - restart: b proposes A in round 0, a proposes in round 1, and the node     *)
(*   crashes twice;                                                            *)
(* - proposer: the node proposes in both rounds, may forge two different       *)
(*   blocks, and crashes once.                                                 *)
EXTENDS Consensus, TLC

CONSTANTS a, b, c, d, A, B

MCValidators == {a, b, c, d}
MCLocal == {a}
MCBlocks == {A, B}
MCproposer == (0 :> b) @@ (1 :> a)

Together(votes) == {<<{b, c, d}, m[1], m[2], m[3]>> : m \in votes}

MCRemoteVotes == Together({<<"prevote", 0, A>>, <<"precommit", 0, Nil>>})

MCRemoteProposals == {[round |-> 0, block |-> A, validRound |-> None, proven |-> FALSE]}

NodeProposes == (0 :> a) @@ (1 :> a)
NoProposals == {}
OneCrash == 1

Proposer == INSTANCE Consensus WITH
  ForgedBlocks <- MCBlocks, proposer <- NodeProposes, RemoteProposals <- NoProposals,
  MaxCrashes <- OneCrash

VARIABLE scenario

NodeInit == scenario \in {"restart", "proposer"} /\ Init

NodeNext ==
  \/ scenario = "restart" /\ Next /\ UNCHANGED scenario
  \/ scenario = "proposer" /\ Proposer!Next /\ UNCHANGED scenario

NodeSpec == NodeInit /\ [][NodeNext]_<<vars, scenario>>

================================================================================
