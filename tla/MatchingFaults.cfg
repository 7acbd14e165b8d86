\* A need of each kind, two offers: calls fail or are abandoned, instructions and orders arrive late.
SPECIFICATION Spec
CONSTANTS
  s1 = s1
  s2 = s2
  n1 = n1
  n2 = n2
  n3 = n3
  o1 = o1
  o2 = o2
  NoNeed = NoNeed
  NoMatch = NoMatch
  Subject = {s1}
  Need = {n1, n3}
  Offer = {o1, o2}
  Owner <- Owners
  Restated = {n1}
  AutoClose = {n1}
  Fits <- SomeFit
  Tracked = {}
  Faulty = TRUE
  LateKinds = {"instruction", "order"}
  MaxStated = 1
  MaxEnv = 2
  MaxConsent = 1
  MaxUses = 2
  MaxLate = 1
  MaxEvents = 1
  MaxCrash = 1
INVARIANTS TypeOK EvidenceFirst UsesAreAllowed SettledIsConfirmed RecordedIsBacked
CHECK_DEADLOCK FALSE
