SPECIFICATION Spec
CONSTANTS
  shuttle = shuttle
  berth = berth
  NoTag = NoTag
  Controllers <- MCControllers
  Routes <- MCRoutes
  ResendTime = 1
  MaxThreads = 2
INVARIANTS TypeOK MemoryRight OneMover
