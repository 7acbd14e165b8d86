\* The answer to an order is lost and the offer event is repeated: a need is ordered twice.
SPECIFICATION Spec
CONSTANTS
  s1 = s1
  s2 = s2
  n1 = n1
  n2 = n2
  n3 = n3
  o1 = o1
  o2 = o2
  NoNeed = NoNeed
  NoMatch = NoMatch
  Subject = {s1}
  Need = {n1}
  Offer = {o1}
  Owner <- Owners
  Restated = {}
  AutoClose = {n1}
  Fits <- SomeFit
  Tracked = {}
  Faulty = TRUE
  LateKinds = {}
  MaxStated = 1
  MaxEnv = 2
  MaxConsent = 0
  MaxUses = 2
  MaxLate = 0
  MaxEvents = 1
  MaxCrash = 0
INVARIANTS OrderedOncePerStatement
CHECK_DEADLOCK FALSE
