\* Every grant over every offer; calls fail or are abandoned, a second passes at any time, the coordinator restarts.
SPECIFICATION Spec
CONSTANTS
  n1 = n1
  cheap = cheap
  dear = dear
  other = other
  housewares = housewares
  dresses = dresses
  NoMandate = NoMandate
  NoCommit = NoCommit
  Pair = {d1}
  Need = {n1}
  Offer = {cheap, dear, other}
  Fits <- EveryFit
  Price <- Prices
  Category <- Categories
  Grant <- AllGrants
  FailKinds = {"change", "dispatch", "use", "instruction", "order"}
  LateKinds = {"change", "use", "instruction", "order"}
  MaxTime = 1
  MaxChanges = 2
  MaxUses = 2
  MaxEnv = 2
  MaxLate = 1
  MaxCrash = 1
INVARIANTS TypeOK CheckedUsesAreValid EvidenceFirst WithheldUntilApproved UnfinishedIsResumable AttributedOnce
CHECK_DEADLOCK FALSE
