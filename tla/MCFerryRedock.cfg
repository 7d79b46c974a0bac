SPECIFICATION Spec
CONSTANTS
  mining = mining
  escape = escape
  station = station
  outpost = outpost
  NoTag = NoTag
  Controllers <- SoloControllers
  Routes <- SoloRoutes
  Ferries <- SoloFerries
  Target <- SoloTarget
  LongJump <- NoFerries
  ResendTime = 2
  MaxJumps = 2
  MaxRedocks = 1
PROPERTIES LeavesUndocked
