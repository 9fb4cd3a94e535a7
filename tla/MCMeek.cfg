\* A connection two of whose four fronts are blocked, and one forms no URL.
CONSTANTS
  maxChanBacklog = 2
  maxPayloadLength = 2
  maxRetries = 4
  Fronts = 4
  Blocked = {0, 2}
  Malformed = {3}
  MaxChunk = 3
  MaxUp = 5
  MaxDown = 3
  MaxLosses = 2
SPECIFICATION FairReaderSpec
INVARIANTS UpstreamConserved DownstreamConserved WorkingFrontIsFound
PROPERTIES CallersUnblocked CloseTearsDown
CHECK_DEADLOCK FALSE
