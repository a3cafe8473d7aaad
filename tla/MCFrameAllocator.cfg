CONSTANTS
  N = 12
  MemMap <- MCMemMap
  IntPages = 2
  Requests = {0, 1, 2, 3}
SPECIFICATION FairSpec
INVARIANTS ListExact NoDoubleOwner CountExact LossConfined
PROPERTIES RefinesPool CallsReturn
