SPECIFICATION FairSpec
CONSTANTS
  mining = mining
  escape = escape
  station = station
  outpost = outpost
  NoTag = NoTag
  Controllers <- MCControllers
  Routes <- MCRoutes
  Ferries <- MCFerries
  Target <- MCTarget
  LongJump <- EscapeOnly
  ResendTime = 1
  MaxJumps = 1
  MaxRedocks = 0
INVARIANTS OneJump Located
PROPERTIES LeavesUndocked Arrives Finishes LaunchLeaves
