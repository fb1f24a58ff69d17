----------------------------- MODULE MCRefinement ------------------------------
(* One node with validator a; b, c and d vote alike.  b proposes A in round 0, *)
(* and c proposes B in round 1.  Two scenarios:                                *)
(* - crash: B has no lock proof, and the node crashes;                         *)
(* - commit: B has a lock proof of round 0 and is committed, on precommits or  *)
(*   by the block downloader; the peers precommit in round 1 only.             *)
EXTENDS ConsensusRefinement, TLC

CONSTANTS a, b, c, d, A, B

MCValidators == {a, b, c, d}
MCLocal == {a}
MCBlocks == {A, B}
MCproposer == (0 :> b) @@ (1 :> c)

Together(votes) == {<<{b, c, d}, m[1], m[2], m[3]>> : m \in votes}

MCRemoteVotes ==
  Together({<<"prevote", 0, A>>, <<"precommit", 0, Nil>>, <<"precommit", 1, B>>})

Proposal(r, x, vr) == [round |-> r, block |-> x, validRound |-> vr, proven |-> vr # None]

MCRemoteProposals ==
  {Proposal(0, A, None), Proposal(1, B, None), Proposal(1, B, 0)}

MCCommits == {<<1, B>>}

VARIABLE scenario

\* What the surroundings do in a scenario.
Undecided ==
  <<b, 1, B>> \notin cast.precommit[1] /\ rounds[1].proposal # Proposal(1, B, 0)
Untroubled ==
  /\ crashes = 0 /\ rounds[1].proposal # Proposal(1, B, None)
  /\ <<b, 0, Nil>> \notin cast.precommit[1]

ScenarioInit == scenario \in {"crash", "commit"} /\ Init

ScenarioNext ==
  /\ Next
  /\ scenario = "crash" => Undecided'
  /\ scenario = "commit" => Untroubled'
  /\ UNCHANGED scenario

ScenarioSpec == ScenarioInit /\ [][ScenarioNext]_<<vars, scenario>>

================================================================================
