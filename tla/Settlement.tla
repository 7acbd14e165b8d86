----------------------------- MODULE Settlement -----------------------------
(***************************************************************************)
(* What the settlement ledger promises its clients, whatever crashes and   *)
(* retries happen underneath: a match is instructed once, settled at most  *)
(* once on the terms of its instruction, and refunded at most once, each   *)
(* refund spending the support case it answers.                            *)
(***************************************************************************)
CONSTANTS Match, Case, Terms, NoTerms

VARIABLES terms,      \* the terms a match was instructed with
          settled,    \* the matches whose splits are on the ledger
          refunds     \* the <<match, case>> pairs compensated

vars == <<terms, settled, refunds>>

Init ==
  /\ terms = [m \in Match |-> NoTerms]
  /\ settled = {}
  /\ refunds = {}

Instruct(m) ==
  /\ terms[m] = NoTerms
  /\ \E t \in Terms : terms' = [terms EXCEPT ![m] = t]
  /\ UNCHANGED <<settled, refunds>>

Settle(m) ==
  /\ terms[m] # NoTerms
  /\ m \notin settled
  /\ settled' = settled \cup {m}
  /\ UNCHANGED <<terms, refunds>>

Refund(m, c) ==
  /\ m \in settled
  /\ \A r \in refunds : r[1] # m /\ r[2] # c
  /\ refunds' = refunds \cup {<<m, c>>}
  /\ UNCHANGED <<terms, settled>>

Next ==
  \E m \in Match :
    \/ Instruct(m)
    \/ Settle(m)
    \/ \E c \in Case : Refund(m, c)

Spec == Init /\ [][Next]_vars
=============================================================================
