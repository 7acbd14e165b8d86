\* A ledger of one process, an automatic and a booked match, a support case; one failed call or crash.
SPECIFICATION AuditSpec
CONSTANTS
  m1 = m1
  m2 = m2
  buyer = buyer
  case1 = case1
  Proc = {p1}
  Match = {m1, m2}
  Case = {case1}
  Terms = {terms}
  NoTerms = NoTerms
  Consent <- MCConsent
  Attestation <- MCAttestation
  MaxAppends = 0
  MaxLate = 1
  Automatic = {m1}
  Subject = {buyer}
  Owner <- MCOwner
  MaxEvents = 3
INVARIANTS AuditTypeOK CertifiedIsTrue NoFalseAlarm FlawsComeFromFailures TamperLocated
CHECK_DEADLOCK FALSE
