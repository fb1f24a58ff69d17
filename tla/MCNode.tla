-------------------------------- MODULE MCNode ---------------------------------
(* One node with validator a; b, c and d vote alike.  Two scenarios:           *)
(* - blocks: two block numbers of one round each, a crash, and commits from    *)
(*   the block downloader, also of block B, which the processor rejects;       *)
(* - late: two block numbers of two rounds each, where the precommits of       *)
(*   round 0 may come together after the node has moved on.                    *)
EXTENDS Consensus, TLC

CONSTANTS a, b, c, d, A, B

MCValidators == {a, b, c, d}
MCLocal == {a}
MCBlocks == {A, B}
MCValidBlocks == {A}

OneRound == (0 :> b)
TwoRounds == (0 :> b) @@ (1 :> c)

Together(votes) == {<<{b, c, d}, m[1], m[2], m[3]>> : m \in votes}

MCRemoteVotes == Together({<<"precommit", 0, A>>, <<"precommit", 0, B>>})
LateVotes == Together({<<"precommit", 0, A>>, <<"precommit", 1, Nil>>})

MCRemoteProposals ==
  {[round |-> 0, block |-> x, validRound |-> None, proven |-> FALSE] : x \in MCBlocks}

LateProposals == {p \in MCRemoteProposals : p.block = A}

MCCommits == {<<0, A>>, <<0, B>>}
NoCommits == {}

SingleRound == INSTANCE Consensus WITH
  proposer <- OneRound, RemoteVotes <- MCRemoteVotes,
  RemoteProposals <- MCRemoteProposals, Commits <- MCCommits,
  MaxRound <- 0, MaxCrashes <- 1

VARIABLE scenario

NodeInit ==
  \/ scenario = "blocks" /\ SingleRound!Init
  \/ scenario = "late" /\ Init

NodeNext ==
  \/ scenario = "blocks" /\ SingleRound!Next /\ UNCHANGED scenario
  \/ scenario = "late" /\ Next /\ UNCHANGED scenario

NodeSpec == NodeInit /\ [][NodeNext]_<<vars, scenario>>

================================================================================
