SPECIFICATION FairSpec
CONSTANTS
  s1 = s1
  s2 = s2
  s3 = s3
  Sessions = {s1, s2, s3}
  Sweeper = Sweeper
  None = None
  ConnectionTimeout = 1
  ReuseAge = 1
  MaxIdle = 2
  MaxPoolSize = 1
  CleanupInterval = 1
  BackendKeeps = 1
  MaxTime = 6
INVARIANTS TypeOK NeverReused PoolBounded WaitBounded NothingLingers
PROPERTIES NeverHandedStale EverySessionAnswered
