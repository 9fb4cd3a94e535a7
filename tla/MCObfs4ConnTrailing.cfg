\* A server that writes right after its response, and a client that reads.
CONSTANTS
  MaxWrites = 2
  MaxPadding = 1
SPECIFICATION FairSpec
PROPERTY DownstreamArrives
CHECK_DEADLOCK FALSE
