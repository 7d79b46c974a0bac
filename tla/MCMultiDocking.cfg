SPECIFICATION FairSpec
CONSTANTS
  shuttleA = shuttleA
  shuttleB = shuttleB
  berth1 = berth1
  berth2 = berth2
  north = north
  south = south
  NoTag = NoTag
  Controllers <- MCControllers
  Routes <- MCRoutes
  Airlocks = {north, south}
  master_tag <- MCMaster
  ResendTime = 5
INVARIANTS MultiTypeOK StateTable PartnersAgree AirlocksHeld
PROPERTIES ImplementsLink OrderlyKeepsLink AllReported HandshakeEnds
