SPECIFICATION ScenarioSpec
CONSTANTS
  a = a
  b = b
  c = c
  d = d
  A = A
  B = B
  Nil = Nil
  Validators <- MCValidators
  Local <- MCLocal
  Blocks <- MCBlocks
  ValidBlocks <- MCBlocks
  EarlyBlocks = {B}
  ForgedBlocks = {B}
  proposer <- MCproposer
  RemoteVotes <- MCRemoteVotes
  RemoteProposals <- MCRemoteProposals
  Commits <- MCCommits
  MaxRound = 1
  MaxBlockNumber = 1
  MaxCrashes = 1
PROPERTY ImplementsTendermint
CHECK_DEADLOCK FALSE
