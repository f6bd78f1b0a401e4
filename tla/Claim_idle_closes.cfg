SPECIFICATION FairSpec
CONSTANTS
  MaxChunks = 2
  Capacity = 1
  Modes <- LegacyIdleModes
PROPERTY IdleCloses
