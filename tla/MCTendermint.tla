----------------------------- MODULE MCTendermint -----------------------------
(* Four validators, one of them faulty.  Node m runs two of the correct ones,  *)
(* node n the third.                                                           *)
EXTENDS Tendermint, TLC

CONSTANTS m, n, v1, v2, v3, v4, A, B

MCValidators == {v1, v2, v3, v4}
MCFaulty == {v4}
MCNodes == {m, n}
MChost == (v1 :> m) @@ (v2 :> m) @@ (v3 :> n)
MCBlocks == {A, B}
MCRounds == 0..1
MCEarlyVotes == MCFaulty \X MCRounds \X (MCBlocks \cup {Nil})

Symmetry == Permutations({v1, v2}) \cup Permutations(MCBlocks)

===============================================================================
