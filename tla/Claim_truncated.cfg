SPECIFICATION Spec
CONSTANTS
  Requests <- OneGet
  Responses <- CloseDelimited
  FirstWait = 2
  Gap = 1
INVARIANT ReadsToTheEnd
