\* Two buyers, needs of both kinds, no failures, every request served.
SPECIFICATION FairSpec
CONSTANTS
  s1 = s1
  s2 = s2
  n1 = n1
  n2 = n2
  n3 = n3
  o1 = o1
  o2 = o2
  NoNeed = NoNeed
  NoMatch = NoMatch
  Subject = {s1, s2}
  Need = {n1, n2, n3}
  Offer = {o1, o2}
  Owner <- Owners
  Restated = {n1}
  AutoClose = {n1, n2}
  Fits <- SomeFit
  Tracked = {o2}
  Faulty = FALSE
  LateKinds = {}
  MaxStated = 1
  MaxEnv = 3
  MaxConsent = 1
  MaxUses = 2
  MaxLate = 0
  MaxEvents = 1
  MaxCrash = 0
INVARIANTS OrderedOncePerStatement NoneForgotten OneOrderPerShortlist
PROPERTY ServedInTheEnd
CHECK_DEADLOCK FALSE
