---------------------------- MODULE SupportDesk ----------------------------
(***************************************************************************)
(* The support desk of platform-svc and the disclosures of the             *)
(* coordinator. A buyer's grant is recorded on the consent chain, then     *)
(* delivered to the case it names, where the agent can read the artifact   *)
(* until the grant expires. Cases are kept in memory and numbered by their *)
(* count, so that a restart gives their numbers out again; a delivery that *)
(* the coordinator gave up on may come late.                               *)
(***************************************************************************)
EXTENDS Integers, Sequences, FiniteSets

CONSTANTS
  MaxCases,      \* bound: cases at a time
  Artifact,
  MaxTtl,        \* bound: the longest time to live of a grant
  MaxClock,      \* bound: seconds
  MaxGrants      \* bound: disclosures granted

ASSUME DeskAssumption ==
  MaxCases \in Nat /\ MaxTtl \in Nat /\ MaxClock \in Nat /\ MaxGrants \in Nat

VARIABLES
  clock,
  cases,       \* support: the cases by number
  grants,      \* disclosure grants on the consent chain
  delivery,    \* the grant the coordinator delivers
  deliveries   \* those it gave up on

deskVars == <<clock, cases, grants, delivery, deliveries>>

-----------------------------------------------------------------------------
NoDelivery == [case |-> 0]

Grant(c, a, expiry) == [case |-> c, artifact |-> a, expiry |-> expiry]

NewCase == [stage |-> "opened", artifact |-> {}, expiry |-> 0]

OpenCase ==
  /\ Len(cases) < MaxCases
  /\ cases' = Append(cases, NewCase)
  /\ UNCHANGED <<clock, grants, delivery, deliveries>>

\* The agent's request, and its resolution: neither withdraws an artifact.
RequestDisclosure(c) ==
  /\ cases' = [cases EXCEPT ![c].stage = "disclosure-requested"]
  /\ UNCHANGED <<clock, grants, delivery, deliveries>>

Resolve(c) ==
  /\ cases' = [cases EXCEPT ![c].stage = "resolved"]
  /\ UNCHANGED <<clock, grants, delivery, deliveries>>

\* POST /v1/disclosures up to its delivery. Nothing is delivered when the
\* ledger does not answer, though it may have recorded the grant.
GrantArtifact(c, a, ttl) ==
  /\ delivery = NoDelivery /\ clock + ttl <= MaxClock /\ Cardinality(grants) < MaxGrants
  /\ LET g == Grant(c, a, clock + ttl)
     IN  grants' = grants \cup {g} /\ delivery' \in {g, NoDelivery}
  /\ UNCHANGED <<clock, cases, deliveries>>

\* Faulty: the artifact is replaced, the later expiry is kept.
DiscloseLonger(g) ==
  cases' = IF g.case \in DOMAIN cases
             THEN [cases EXCEPT ![g.case] =
                     [stage |-> "disclosed", artifact |-> {g.artifact},
                      expiry |-> IF @.expiry > g.expiry THEN @.expiry ELSE g.expiry]]
             ELSE cases

\* POST /v1/support/cases/disclosure/grant
Disclose(g) ==
  cases' = IF g.case \in DOMAIN cases
             THEN [cases EXCEPT ![g.case] =
                     [stage |-> "disclosed", artifact |-> {g.artifact}, expiry |-> g.expiry]]
             ELSE cases

\* Delivered, given up on, or both.
DeliverGrant ==
  /\ delivery # NoDelivery
  /\ delivery' = NoDelivery
  /\ \/ Disclose(delivery) /\ UNCHANGED deliveries
     \/ deliveries' = deliveries \cup {delivery} /\ UNCHANGED cases
     \/ UNCHANGED <<cases, deliveries>>
  /\ UNCHANGED <<clock, grants>>

LateDelivery(g) ==
  /\ deliveries' = deliveries \ {g}
  /\ Disclose(g)
  /\ UNCHANGED <<clock, grants, delivery>>

DeskRestart ==
  /\ cases' = << >> /\ deliveries' = {}
  /\ UNCHANGED <<clock, grants, delivery>>

ClockTick ==
  /\ clock < MaxClock
  /\ clock' = clock + 1
  /\ UNCHANGED <<cases, grants, delivery, deliveries>>

DeskInit ==
  /\ clock = 0 /\ cases = << >> /\ grants = {}
  /\ delivery = NoDelivery /\ deliveries = {}

DeskNext ==
  \/ OpenCase \/ DeliverGrant \/ DeskRestart \/ ClockTick
  \/ \E c \in 1 .. MaxCases, a \in Artifact, ttl \in 1 .. MaxTtl : GrantArtifact(c, a, ttl)
  \/ \E c \in DOMAIN cases : RequestDisclosure(c) \/ Resolve(c)
  \/ \E g \in deliveries : LateDelivery(g)

DeskSpec == DeskInit /\ [][DeskNext]_deskVars

-----------------------------------------------------------------------------
GrantType == [case : 1 .. MaxCases, artifact : Artifact, expiry : 1 .. MaxClock]

DeskTypeOK ==
  /\ clock \in 0 .. MaxClock
  /\ cases \in Seq([stage : {"opened", "disclosure-requested", "disclosed", "resolved"},
                    artifact : SUBSET Artifact, expiry : 0 .. MaxClock])
  /\ grants \subseteq GrantType /\ deliveries \subseteq GrantType
  /\ delivery \in GrantType \cup {NoDelivery}

\* GET /v1/support/cases/{id}/disclosure
Readable(c) == IF clock < cases[c].expiry THEN cases[c].artifact ELSE {}

(* Whatever the agent can read by now, the consent chain holds a grant for:
   of this artifact, to the case of this number, and still running. Grants of
   one case delivered in any order, given up on, delivered late, and case
   numbers given out again are included. *)
DisclosedIsGranted ==
  \A c \in DOMAIN cases : \A a \in Readable(c) :
    \E g \in grants : g.case = c /\ g.artifact = a /\ clock < g.expiry
=============================================================================
