SPECIFICATION Spec
CONSTANTS
  HVisible = 8
  HFront = 1
  HSync = 1
  HBack = 1
  VVisible = 7
  VFront = 1
  VSync = 1
  VBack = 1
  CounterRange = 16
  BoardX = 1
  BoardY = 1
  Squares = 2
  SquareSize = 3
  RadiusSquared = 1
  Path <- PathValue
  SleepPixels = 220
INVARIANTS
  EachShown
PROPERTIES
  CleanFrame
