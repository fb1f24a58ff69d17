SPECIFICATION NetworkSpec
CONSTANTS
  h = h
  f = f
  v1 = v1
  v2 = v2
  p1 = p1
  p2 = p2
INVARIANTS
  BlocksComeInOrder
  RequestsAreTracked
  HonestPeersPass
  RepositoryFollowsBans
  WorkersAreAccountedFor
SYMMETRY Symmetry
