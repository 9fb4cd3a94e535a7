\* Concurrent connections; the clock may tick at any moment.
CONSTANTS
  Digests = {m1, m2}
  Conns = {c1, c2}
  Times <- MCTimes
  MaxFilterSize = 3
  TTL = 6
  HourLength = 2
  Skews <- MCSkews
  MaxTime = 8
  MaxDeliveries = 2
  NoMsg = NoMsg
SPECIFICATION Spec
SYMMETRY Symmetry
INVARIANTS AdmittedOnce AdmittedTwiceApart ReplayMeansSecondDelivery
