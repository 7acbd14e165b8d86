\* One process, one match, a client that retries its confirmation.
SPECIFICATION FairSpec
CONSTANTS
  Proc = {p1}
  Match = {m1}
  Case = {c1}
  Terms = {t1}
  NoTerms = NoTerms
  Consent = {}
  Attestation = {}
  MaxAppends = 0
  MaxLate = 1
PROPERTY RetriedConfirmSettles
