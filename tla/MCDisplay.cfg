SPECIFICATION Spec
CONSTANTS
  PointsMax = 4
  DropValue = 1
  DifficultyMax = 2
  DifficultyDefault = 2
  VictoryCond = 2
  ResetThreshold = 2
  VictoryMod = 3
  PointsMod = 16
  Posts <- MCPosts
  Difficulties = {0, 3}
INVARIANTS
  AsleepMeansSettled
  VictoryFromTheTop
PROPERTIES
  Settles
