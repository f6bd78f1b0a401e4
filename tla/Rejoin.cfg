SPECIFICATION FairSpec
CONSTANTS
  ReconnectInterval = 2
  Limits = {0, 4}
  BackoffCap = 10
  CountBound = 6
  MaxLines = 2
  Hold = 6
  MaxFaults = 5
  MaxUsers = 3
INVARIANTS TypeOK BackoffOfCount GivesUpAtLimit RecoversInTime
PROPERTIES ShutsDown Rejoins PortFreed
