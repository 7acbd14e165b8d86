\* One order, six deltas, three boosted bookings of a budget for two, an edge and two policies, two cases.
SPECIFICATION Spec
CONSTANTS
  m1 = m1
  b1 = b1
  b2 = b2
  b3 = b3
  e1 = e1
  e2 = e2
  Order = {m1}
  MaxAttempts = 3
  Stock = {0, 1}
  Timestamp = {0, 1, 2}
  MaxLateCalls = 2
  Booking = {b1, b2, b3}
  Ad = 2
  Budget = 5
  Edge = {e1}
  Renewal = 2
  Lease = 6
  MaxPost = 7
  Policy <- MCPolicy
  NoPolicy = NoPolicy
  MaxDoubts = 1
  MaxCases = 2
  Artifact = {art1, art2}
  MaxTtl = 2
  MaxClock = 3
  MaxGrants = 2
INVARIANTS TypeOK AheadOnlyByReplay CatalogueHonoursDeltas ChargedOnce OneLossIsSurvived PolicyHolds DisclosedIsGranted
CHECK_DEADLOCK FALSE
PROPERTY MirrorCatchesUp
