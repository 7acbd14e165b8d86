------------------------------ MODULE MCAudit ------------------------------
(***************************************************************************)
(* An instance of Audit for TLC: one buyer, one match closed in its        *)
(* environment and one that is booked, one support case.                   *)
(***************************************************************************)
EXTENDS Audit

CONSTANTS m1, m2, buyer, case1

MCOwner == [m \in Match |-> buyer]

MCAttestation == {Lifecycle(e, event) : e \in Match, event \in Event}

MCConsent ==
  {Change("participation", s, a) : s \in Subject, a \in {"grant", "revoke"}}
    \cup {Change("disclosure", c, "grant") : c \in Case}
    \cup {ParticipationUse(m) : m \in Match}
    \cup {DisclosureUse(c, inTime) : c \in Case, inTime \in BOOLEAN}
=============================================================================
