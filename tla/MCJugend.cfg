SPECIFICATION Spec
CONSTANTS
  Addrs = {dino}
  Dino = dino
  Unspecified = none
  Ports = {5}
  Behind <- MCBehind
  GcoapPort = 5
  Paths <- MCPaths
  MovePath <- MCMovePath
  End = "0"
  PathLen = 2
  ClockMod = 3
  Second = 1
  MaxPresses = 2
  MaxCopies = 1
INVARIANTS
  PathAsGiven
  EachPressOnce
  LedShowsMotor
PROPERTIES
  ThrottleErrsAtWrapOnly
