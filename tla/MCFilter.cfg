\* The filter under callers whose times come in any order.
CONSTANTS
  Digests = {d1, d2, d3, d4}
  Times <- MCTimes
  MaxFilterSize = 3
  TTL = 3
SPECIFICATION QuerySpec
SYMMETRY Symmetry
INVARIANTS MapMatchesList Bounded FrontIsFresh SortedWhileOrderly
PROPERTIES ForgetsOnlyWithCause GuardedWhileOrderly
