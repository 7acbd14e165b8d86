\* The mandate expires between the check and the use.
SPECIFICATION Spec
CONSTANTS
  n1 = n1
  cheap = cheap
  dear = dear
  other = other
  housewares = housewares
  dresses = dresses
  NoMandate = NoMandate
  NoCommit = NoCommit
  Pair = {d1}
  Need = {n1}
  Offer = {cheap, dear}
  Fits <- EveryFit
  Price <- Prices
  Category <- Categories
  Grant <- OneGrant
  FailKinds = {}
  LateKinds = {}
  MaxTime = 1
  MaxChanges = 2
  MaxUses = 2
  MaxEnv = 2
  MaxLate = 1
  MaxCrash = 0
INVARIANTS UsesAreValid
CHECK_DEADLOCK FALSE
