SPECIFICATION NodeSpec
CONSTANTS
  a = a
  b = b
  c = c
  d = d
  A = A
  B = B
  Nil = Nil
  Validators <- MCValidators
  Local <- MCLocal
  Blocks <- MCBlocks
  ValidBlocks <- MCValidBlocks
  EarlyBlocks = {}
  ForgedBlocks = {A}
  proposer <- TwoRounds
  RemoteVotes <- LateVotes
  RemoteProposals <- LateProposals
  Commits <- NoCommits
  MaxRound = 1
  MaxBlockNumber = 2
  MaxCrashes = 0
INVARIANTS
  CommitLockIsFree
  CommitsAreJustified
  OneBlockInStore
CHECK_DEADLOCK FALSE
