SPECIFICATION FairSpec
CONSTANTS
  MaxChunks = 2
  Capacity = 1
  Modes <- AllModes
INVARIANTS TypeOK InOrder EofMeansAll
PROPERTIES ImplementsStreams EveryChunkArrives SessionFreed ClosedSessionFreed
