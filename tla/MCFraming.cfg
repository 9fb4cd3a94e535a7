\* A stream the network interferes with, twice at most, and a reader that
\* keeps reading.  The counters wrap after the second frame.
CONSTANTS
  CounterLimit = 3
  MaxFrameLength = 2
  MaxTamper = 2
SPECIFICATION FairSpec
INVARIANTS NonceUnique DeliveredInOrder
PROPERTIES StreamSpec EventuallyDelivered
CHECK_DEADLOCK FALSE
