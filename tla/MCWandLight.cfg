SPECIFICATION Spec
CONSTANTS
  HourMax = 3
  QuarterMax = 8
  Times <- MCTimes
  Permillages = {124, 125}
PROPERTIES
  KeepsLightAsItWas
