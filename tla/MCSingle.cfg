SPECIFICATION SingleSpec
CONSTANTS
  a = a
  b = b
  A = A
  B = B
  Nil = Nil
  Validators <- MCValidators
  Local <- MCValidators
  Blocks <- MCBlocks
  ValidBlocks <- MCBlocks
  EarlyBlocks = {}
  ForgedBlocks = {A}
  proposer <- MCproposer
  RemoteVotes = {}
  RemoteProposals = {}
  Commits = {}
  MaxRound = 2
  MaxBlockNumber = 1
  MaxCrashes = 0
PROPERTY Decides
CHECK_DEADLOCK FALSE
