SPECIFICATION FairSpec
CONSTANTS
  ref1 = ref1
  ref2 = ref2
  NoRef = NoRef
  Refs <- MCRefs
  Templates = 1
  AutoUpdate = TRUE
  MaxContent = 1
  MaxFlight = 4
  MaxRequests = 1
INVARIANTS TypeOK NoOrphan
PROPERTIES NeverGoesBack NothingInTheRed CatchesUp
