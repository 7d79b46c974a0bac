SPECIFICATION Spec
CONSTANTS
  escape = escape
  dock = dock
  centcom = centcom
  pod = pod
  berth = berth
  NoTag = NoTag
  Escape = escape
  Heads = {h1}
  ReqAuthorizations = 1
  Controllers <- MCControllers
  Routes <- MCRoutes
  Ferries <- MCFerries
  Target <- MCTarget
  LongJump <- MCFerries
  ResendTime = 1
  MaxJumps = 1
  MaxRedocks = 1
INVARIANTS TypeOK ReturnedHome StillLeaves
PROPERTIES LeavesOnTime RecalledStays OneWay
