SPECIFICATION StorageSpec
CONSTANTS
  u = u
  w = w
  proxy = proxy
  v1 = v1
  v2 = v2
  a = a
  b = b
  none = none
INVARIANTS
  StoresAgree
  ApiTotalsAreExact
  WalletsFollowContracts
  HistoryIsExact
  MilestonesAreExact
SYMMETRY Symmetry
