SPECIFICATION FairSpec
CONSTANTS
  Requests <- SomeRequests
  Responses <- SomeResponses
  FirstWait = 2
  Gap = 1
INVARIANTS TypeOK FramedWhole
PROPERTIES RequestArrives  
