SPECIFICATION Spec
CONSTANTS
  FrameSize = 125
  MhrLen = 23
  IphcLen = 9
  MaxFragments = 18
  MinPayload = 8
  MaxPayload = 1232
  PayloadStep = 36
  Runs = 2
  IdMod = 2
  WindowSize = 1
INVARIANTS
  FragmentsTile
  StampFits
PROPERTIES
  Finishes
CHECK_DEADLOCK FALSE
