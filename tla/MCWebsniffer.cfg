SPECIFICATION Spec
CONSTANTS
  Sockets = {s1}
  NPkts = 3
  NLines = 2
  Fragments = {2}
  MaxFaults = 1
INVARIANTS
  InOrderOnce
  MissedForAReason
PROPERTY
  ClosedEnds
CHECK_DEADLOCK FALSE
