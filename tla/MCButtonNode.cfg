SPECIFICATION NodeSpec
CONSTANTS
  SendsDefault = 3
  UIntMax = 7
  MaxPresses = 2
  Addrs = {a1}
  Paths = {p1}
  Unspecified = none
  NoPath = nopath
  GcoapPort = 1
  OtherPort = 2
  ClockMod = 2
  Second = 1
INVARIANTS
  OneSendOutstanding
  NoStrandedPress
  SendsPerPress
  PointsAccounted
PROPERTIES
  ImplementsTally
  TornOnlyByRetarget
