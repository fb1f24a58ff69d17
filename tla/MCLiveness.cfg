SPECIFICATION LiveSpec
CONSTANTS
  r1 = r1
  r2 = r2
  r3 = r3
  e1 = e1
  e2 = e2
  e3 = e3
  n1 = n1
  n2 = n2
  n3 = n3
  commit = commit
  copy1 = copy1
  copy2 = copy2
  proposal = proposal
  later = later
  h = h
  slow = slow
  p1 = p1
  p2 = p2
  core = core
  other = other
  w = w
  a = a
  b = b
  Last = Last
  Requests <- ThreeRequests
INVARIANTS
  EarlyCallsFinish
PROPERTIES
  EveryoneGetsOn
  WhatIsAnnouncedArrives
CHECK_DEADLOCK FALSE
