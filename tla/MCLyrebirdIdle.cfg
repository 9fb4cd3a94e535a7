\* A SIGINT that finds a process with no connections.
CONSTANTS
  Handlers = {h1}
  MaxSignals = 1
SPECIFICATION FairSpec
PROPERTY ExitsWhenIdle
CHECK_DEADLOCK FALSE
