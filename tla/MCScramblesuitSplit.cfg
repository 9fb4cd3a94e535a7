\* A response that arrives in two pieces.
CONSTANTS
  MaxPad = 2
  MaxPackets = 1
SPECIFICATION ScramblesuitSpec
INVARIANT HonestResponseAccepted
CHECK_DEADLOCK FALSE
