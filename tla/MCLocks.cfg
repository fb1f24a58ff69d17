SPECIFICATION LocksSpec
CONSTANTS
  commit = commit
  copy1 = copy1
  copy2 = copy2
  conflict = conflict
  proposal = proposal
  later = later
  core = core
  other = other
  w = w
  a = a
  b = b
  c = c
  Exclusive <- MCExclusive
  NonExclusive <- MCNonExclusive
  msg <- MCmsg
  MaxBlockNumber = 2
  MaxRound = 1
  Processes <- MCProcesses
  Core = core
  Committer = w
  Readers <- MCReaders
  ProcessOf <- MCProcessOf
  Unit = 2
  Retries = 2
  Growths = {1, 4, 7}
  MaxDisk = 9
INVARIANTS
  Exclusion
  OneMessagePerSlot
  RoundStatesAreLive
  NoTxnAcrossRemap
  CommitFits
SYMMETRY Symmetry
