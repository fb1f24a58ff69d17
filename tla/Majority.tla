------------------------------- MODULE Majority -------------------------------
(***************************************************************************)
(* The two vote thresholds of the consensus (packages/blockchain-utils):   *)
(* "+2/3 of the round validators" and "f+1 of the round validators",       *)
(* computed without division.                                              *)
(***************************************************************************)
EXTENDS Integers

isMajority(size, roundValidators) == size * 3 > roundValidators * 2

isMinority(size, roundValidators) == size * 3 > roundValidators

===============================================================================
