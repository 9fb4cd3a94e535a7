\* Two connections, two signals, and a parent that may die.
CONSTANTS
  Handlers = {h1, h2}
  MaxSignals = 2
SPECIFICATION FairSpec
INVARIANTS CountIsHandlers
PROPERTIES HandlersAreHeard ExitsAfterParent ExitsAfterLastHandler
CHECK_DEADLOCK FALSE
