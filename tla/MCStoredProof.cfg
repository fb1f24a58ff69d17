SPECIFICATION NodeSpec
CONSTANTS
  a = a
  b = b
  c = c
  d = d
  A = A
  B = B
  Nil = Nil
  Validators <- MCValidators
  Local <- MCLocal
  Blocks <- MCBlocks
  ValidBlocks <- MCBlocks
  EarlyBlocks = {}
  ForgedBlocks = {B}
  proposer <- MCproposer
  RemoteVotes <- MCRemoteVotes
  RemoteProposals <- MCRemoteProposals
  Commits = {}
  MaxRound = 1
  MaxBlockNumber = 1
  MaxCrashes = 1
INVARIANT ProofIsStored
CHECK_DEADLOCK FALSE
