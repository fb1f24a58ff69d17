SPECIFICATION Spec
CONSTANTS
  m = m
  n = n
  v1 = v1
  v2 = v2
  v3 = v3
  v4 = v4
  A = A
  B = B
  Nil = Nil
  Validators <- MCValidators
  Faulty <- MCFaulty
  Nodes <- MCNodes
  host <- MChost
  Blocks <- MCBlocks
  Rounds <- MCRounds
  EarlyVotes <- MCEarlyVotes
SYMMETRY Symmetry
INVARIANTS
  PrevotesRespectLocks
  Agreement
CHECK_DEADLOCK FALSE
