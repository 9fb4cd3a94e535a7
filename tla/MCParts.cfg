\* Every part on its own small instance, with the lengths of the code.
CONSTANTS
  Identities = {i1, i2, i3}
  NoIdentity = NoIdentity
  Tickets = {t1, t2}
  NoTicket = NoTicket
  Bridges = {b1, b2}
  Dials = {d1, d2}
  ProxyAddr = ProxyAddr
  MaxPadding = 2
  MaxSent = 2
  MaxPad = 2
  MaxPackets = 2
  SsLengths <- MCLengths
  MaximumSegmentLength = 1448
  headerLength = 21
  Values <- MCValues
  Lengths <- MCLengths
  MaxValues = 3
  MaxWeight = 4
  n1 = n1
  n2 = n2
  n3 = n3
  Names = {n1, n2, n3}
  Blank = Blank
  Working = {n3}
  Specs <- MCSpecs
  Dialers = {e1, e2}
  ArgLists <- MCArgLists
  MaxBytes = 3
  Near = 1
  Payloads = {0, 1, 9000}
SPECIFICATION PartsSpec
INVARIANTS
  RunsOnWhatIsWritten TicketUsedOnce LegacyConserves ScramblesuitConserves
  ScramblesuitPadding BurstEndsAsSampled OvershootIsWritten
  DrawsAsWeighted SocksRelaysCleanly LockstepNeverRefused ProxyConserves
  HonestHandshakeCompletes
PROPERTIES KeepsIdentity WorkingNameStays
CHECK_DEADLOCK FALSE
