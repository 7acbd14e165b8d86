\* Two processes at once: two matches, two support cases, two sets of terms, and a row on each of the other chains.
SPECIFICATION Spec
CONSTANTS
  Proc = {p1, p2}
  Match = {m1, m2}
  Case = {c1, c2}
  Terms = {t1, t2}
  NoTerms = NoTerms
  Consent = {grant}
  Attestation = {created}
  MaxAppends = 1
  MaxLate = 1
SYMMETRY Symmetry
INVARIANTS TypeOK ChainsVerify ServedIsCommitted SettledOnce RefundReplay
PROPERTY KeepsPromise
