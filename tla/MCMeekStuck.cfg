\* A user who stops reading and closes the connection.
CONSTANTS
  maxChanBacklog = 1
  maxPayloadLength = 1
  maxRetries = 2
  Fronts = 1
  Blocked = {}
  Malformed = {}
  MaxChunk = 1
  MaxUp = 1
  MaxDown = 2
  MaxLosses = 0
SPECIFICATION FairSpec
PROPERTY CloseTearsDown
CHECK_DEADLOCK FALSE
