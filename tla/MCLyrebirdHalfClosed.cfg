\* One relay, one end of which hangs up.
CONSTANTS
  Handlers = {h1}
  MaxSignals = 0
SPECIFICATION FairSpec
PROPERTY OneSideClosesOther
CHECK_DEADLOCK FALSE
