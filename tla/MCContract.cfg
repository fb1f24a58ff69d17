SPECIFICATION ContractSpec
CONSTANTS
  k1 = k1
  k2 = k2
  k3 = k3
  NoKey = NoKey
  Addresses <- Three
  Candidates <- One
  Imported <- Two
  Voters <- Three
  Payers <- LastTwo
  Refusing <- NoAccounts
  Keys <- ThreeKeys
  Fees = {0}
  Supply <- TwoUnits
  MaxN = 1
  MaxRounds = 1
SYMMETRY Symmetry
INVARIANTS
  VotesFormList
  VotesAddUp
  ActiveIsExact
  ResignationsAreSafe
PROPERTY RoundsAreTheTop
