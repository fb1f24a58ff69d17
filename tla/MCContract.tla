------------------------------- MODULE MCContract ------------------------------
(***************************************************************************)
(* ConsensusV1 with three accounts and three BLS keys.  Four scenarios:    *)
(* - votes: one candidate with two of the keys, imported validators, three *)
(*   voters, and transfers that change their balances;                     *)
(* - validators: three candidates, fees that change, one voter;            *)
(* - selection: three candidates, two voters, no fee;                      *)
(* - rounds: two rounds one after the other, three candidates and one      *)
(*   voter, no fee, no resignation before the first round.                 *)
(***************************************************************************)
EXTENDS ConsensusV1, TLC

CONSTANTS k1, k2, k3

Three == 1..3
Two == 1..2
One == {1}
LastOne == {3}
ZeroOnly == {0}
NoAccounts == {}
LastTwo == {2, 3}
ZeroOrOne == {0, 1}
ThreeKeys == {k1, k2, k3}
TwoUnits == [a \in Addresses |-> IF a = 1 THEN 0 ELSE 1]
OneUnitEach == [a \in Addresses |-> 1]

Symmetry == Permutations(ThreeKeys)

Candidacy == INSTANCE ConsensusV1 WITH
  Candidates <- Three, Imported <- NoAccounts, Voters <- Two, Payers <- NoAccounts,
  Refusing <- LastOne, Fees <- ZeroOrOne, Supply <- OneUnitEach, MaxN <- 2

Succession == INSTANCE ConsensusV1 WITH
  Candidates <- Three, Imported <- NoAccounts, Voters <- One, Payers <- NoAccounts,
  Refusing <- NoAccounts, Fees <- ZeroOnly, Supply <- OneUnitEach, MaxN <- 3, MaxRounds <- 2

VARIABLE scenario

ContractInit ==
  \/ scenario = "votes" /\ ConsensusV1Init
  \/ scenario \in {"validators", "selection"} /\ Candidacy!ConsensusV1Init
  \/ scenario = "rounds" /\ Succession!ConsensusV1Init

ContractNext ==
  \/ /\ scenario = "votes" /\ ConsensusV1Next
     /\ Cardinality(usedKeys') <= 2
     /\ UNCHANGED scenario
  \/ /\ scenario \in {"validators", "selection"} /\ Candidacy!ConsensusV1Next
     /\ scenario = "validators" => votes'.of[2].validator = Zero
     /\ scenario = "selection" => fee' = 0
     /\ UNCHANGED scenario
  \/ /\ scenario = "rounds" /\ Succession!ConsensusV1Next
     /\ rounds' = <<>> => resignedCount' = 0
     /\ UNCHANGED scenario

ContractSpec == ContractInit /\ [][ContractNext]_<<consensusV1Vars, scenario>>

================================================================================
