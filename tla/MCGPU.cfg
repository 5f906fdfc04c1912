SPECIFICATION GpuSpec
CHECK_DEADLOCK FALSE
CONSTANTS
  Width = 3
  Height = 2
  Color <- Colors
  Alpha <- Alphas
  MaxDepth = 3
  Black = "black"
  Scripts <- MCScripts
INVARIANTS GpuTypeOK NearestShown LineTrue
PROPERTIES ScreenSteady LineThin TriangleCovers ScriptEnds
