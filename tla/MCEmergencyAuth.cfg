SPECIFICATION Spec
CONSTANTS
  escape = escape
  dock = dock
  centcom = centcom
  pod = pod
  berth = berth
  NoTag = NoTag
  Escape = escape
  Heads = {h1, h2}
  ReqAuthorizations = 2
  Controllers <- SoloControllers
  Routes <- SoloRoutes
  Ferries <- SoloFerries
  Target <- SoloTarget
  LongJump <- SoloFerries
  ResendTime = 1
  MaxJumps = 1
  MaxRedocks = 0
PROPERTIES AuthorizationEnds
