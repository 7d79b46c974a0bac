SPECIFICATION FairSpec
CONSTANTS
  shuttle = shuttle
  berth = berth
  NoTag = NoTag
  Controllers <- MCControllers
  Routes <- MCRoutes
  ResendTime = 1
  MaxThreads = 2
PROPERTIES AnyUndockingEnds
