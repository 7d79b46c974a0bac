SPECIFICATION FairRoundSpec
CONSTANTS
  MaxLead = 1
  MaxExplosions = 2
  LobbyTime = 3
  VoteAt = 2
INVARIANTS NotLeftDark
PROPERTIES WorkingSpared VoteEnds RoundStarts BrokenRestarts
