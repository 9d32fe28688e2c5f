SPECIFICATION Spec
CONSTANTS
  MaxSockets = 2
  MaxReboots = 1
INVARIANTS
  RequestOfItsTask
  KeeperFitsSockets
  ClosedMeansCancelled
PROPERTY EndedMeansClosed
CHECK_DEADLOCK FALSE
