SPECIFICATION NodeSpec
CONSTANTS
  SendsDefault = 2
  UIntMax = 7
  MaxPresses = 2
  Addrs = {a1}
  Paths = {p1}
  Unspecified = none
  NoPath = nopath
  GcoapPort = 1
  OtherPort = 2
  ClockMod = 4
  Second = 2
PROPERTIES
  SecondBetweenPosts
