SPECIFICATION Spec
CONSTANTS
  mining = mining
  escape = escape
  station = station
  outpost = outpost
  NoTag = NoTag
  Controllers <- OneBerthControllers
  Routes <- OneBerthRoutes
  Ferries <- SoloFerries
  Target <- OneBerthTarget
  LongJump <- SoloFerries
  ResendTime = 1
  MaxJumps = 2
  MaxRedocks = 2
INVARIANTS TypeOK NotStranded BerthsAgree
PROPERTIES ImplementsDocking
