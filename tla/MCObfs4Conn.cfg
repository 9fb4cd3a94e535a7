\* Both ends of a connection, up to two writes of each.
CONSTANTS
  MaxWrites = 2
  MaxPadding = 2
SPECIFICATION FairSpec
INVARIANTS PayloadConserved EndAfterAllData SeedBeforePayload
PROPERTY UpstreamArrives
CHECK_DEADLOCK FALSE
