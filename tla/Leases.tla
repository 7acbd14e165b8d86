------------------------------- MODULE Leases -------------------------------
(***************************************************************************)
(* resource-svc answers where a jurisdiction is placed: on an edge whose   *)
(* lease has not lapsed, in a region its policy allows. An edge (the       *)
(* slice-runtime of one region) registers itself and renews by registering *)
(* again, in a loop that posts and then sleeps. Edges are kept in memory;  *)
(* a policy is written to PostgreSQL first and reloaded at the start.      *)
(*                                                                         *)
(* Time is counted in units; a sleep takes exactly Renewal of them, a POST *)
(* any time until it times out. There is one jurisdiction: policies of     *)
(* different ones do not meet.                                             *)
(***************************************************************************)
EXTENDS Integers, FiniteSets

CONSTANTS
  Edge,         \* an edge goes by its region
  Renewal,      \* LEASE_RENEWAL
  Lease,        \* LEASE_SECS
  MaxPost,      \* when a POST times out: connecting, once more, and the answer
  Policy,       \* sets of regions
  NoPolicy,
  MaxDoubts     \* bound: policy upserts in doubt at a time

ASSUME TimeAssumption ==
  Renewal \in Nat /\ Lease \in Nat \ {0} /\ MaxPost \in Nat

ASSUME PolicyAssumption == NoPolicy \notin Policy

VARIABLES
  phase,     \* of each edge: "down", "posting", "registered" or "sleeping"
  timer,     \* time since the POST, or the sleep, began
  age,       \* time since resource-svc registered the edge, at most Lease
  lost,      \* POSTs that failed since its loop registered it, at most 2 are told apart (history)
  waited,    \* time spent in POSTs since it was registered, at most Lease (history)
  enrolled,  \* edges this resource-svc process has heard from since they started (history)
  belated,   \* edges with a POST given up on that may still be handled
  resource,  \* "up" or "down"
  policy, stored,
  acked,     \* the policy that was last answered 201 (history)
  doubts,    \* upserts in doubt
  doubted    \* policies in doubt at the last 201 or since (history)

edgeVars == <<phase, timer, age, lost, waited, enrolled, belated>>
policyVars == <<policy, stored, acked, doubts, doubted>>
leaseVars == <<edgeVars, resource, policyVars>>

-----------------------------------------------------------------------------
\* place: any of the candidates with the most room.
Candidates(p) == {e \in Edge : age[e] < Lease /\ (p = NoPolicy \/ e \in p)}

Phase(e, to) ==
  /\ phase' = [phase EXCEPT ![e] = to]
  /\ timer' = [timer EXCEPT ![e] = 0]

\* renew_lease posts before it first sleeps.
EdgeStarts(e) ==
  /\ phase[e] = "down"
  /\ Phase(e, "posting")
  /\ UNCHANGED <<age, lost, waited, enrolled, belated, resource, policyVars>>

EdgeStops(e) ==
  /\ phase[e] # "down"
  /\ Phase(e, "down")
  /\ enrolled' = enrolled \ {e}
  /\ UNCHANGED <<age, lost, waited, belated, resource, policyVars>>

StartPost(e) ==
  /\ phase[e] = "sleeping" /\ timer[e] = Renewal
  /\ Phase(e, "posting")
  /\ UNCHANGED <<age, lost, waited, enrolled, belated, resource, policyVars>>

\* Faulty: an edge that is registered already keeps its registration.
RegisterNew(e) ==
  /\ phase[e] = "posting" /\ resource = "up"
  /\ phase' = [phase EXCEPT ![e] = "registered"]
  /\ age' = [age EXCEPT ![e] = IF age[e] < Lease THEN @ ELSE 0]
  /\ lost' = [lost EXCEPT ![e] = 0]
  /\ waited' = [waited EXCEPT ![e] = 0]
  /\ enrolled' = enrolled \cup {e}
  /\ UNCHANGED <<timer, belated, resource, policyVars>>

\* POST /v1/edges: the region's edge is replaced, with a new lease.
Register(e) ==
  /\ phase[e] = "posting" /\ resource = "up"
  /\ phase' = [phase EXCEPT ![e] = "registered"]
  /\ age' = [age EXCEPT ![e] = 0]
  /\ lost' = [lost EXCEPT ![e] = 0]
  /\ waited' = [waited EXCEPT ![e] = 0]
  /\ enrolled' = enrolled \cup {e}
  /\ UNCHANGED <<timer, belated, resource, policyVars>>

\* The POST's answer, or its failure after the registration.
EndPost(e) ==
  /\ phase[e] = "registered"
  /\ Phase(e, "sleeping")
  /\ UNCHANGED <<age, lost, waited, enrolled, belated, resource, policyVars>>

\* A failure only goes to stderr; the request may still be on its way.
FailPost(e) ==
  /\ phase[e] = "posting"
  /\ Phase(e, "sleeping")
  /\ lost' = [lost EXCEPT ![e] = IF @ < 2 THEN @ + 1 ELSE @]
  /\ belated' \in {belated, belated \cup {e}}
  /\ UNCHANGED <<age, waited, enrolled, resource, policyVars>>

BelatedPost(e) ==
  /\ belated' = belated \ {e}
  /\ resource = "up"
  /\ age' = [age EXCEPT ![e] = 0]
  /\ waited' = [waited EXCEPT ![e] = 0]
  /\ UNCHANGED <<phase, timer, lost, enrolled, resource, policyVars>>

InPost(e) == phase[e] \in {"posting", "registered"}

Awake(e) == phase[e] = "sleeping" /\ timer[e] = Renewal

TimedOut(e) == InPost(e) /\ timer[e] = MaxPost

Upto(n, limit) == IF n < limit THEN n ELSE limit

\* Time passes while no loop is due to go on.
Tick ==
  /\ \A e \in Edge : ~ Awake(e) /\ ~ TimedOut(e)
  /\ timer' = [e \in Edge |-> IF phase[e] = "down" THEN 0 ELSE timer[e] + 1]
  /\ age' = [e \in Edge |-> Upto(age[e] + 1, Lease)]
  /\ waited' = [e \in Edge |-> IF InPost(e) THEN Upto(waited[e] + 1, Lease) ELSE waited[e]]
  /\ UNCHANGED <<phase, lost, enrolled, belated, resource, policyVars>>

-----------------------------------------------------------------------------
\* Its edges go with the process, and every POST on its way to it.
ResourceExits ==
  /\ resource' = "down"
  /\ age' = [e \in Edge |-> Lease]
  /\ enrolled' = {} /\ belated' = {}
  /\ policy' = NoPolicy

\* Faulty: the policy is not written to the table.
SetPolicyInMemory(p) ==
  /\ resource = "up"
  /\ policy' = p /\ acked' = p /\ doubted' = doubts
  /\ UNCHANGED <<edgeVars, resource, stored, doubts>>

\* POST /v1/policies: the upsert, then memory.
SetPolicy(p) ==
  /\ resource = "up"
  /\ \/ /\ stored' = p /\ policy' = p /\ acked' = p
        /\ doubted' = doubts
        /\ UNCHANGED <<edgeVars, resource, doubts>>
     \/ /\ Cardinality(doubts) < MaxDoubts
        /\ doubts' = doubts \cup {p} /\ doubted' = doubted \cup {p}
        /\ ResourceExits
        /\ UNCHANGED <<phase, timer, lost, waited, stored, acked>>

LatePolicy(p) ==
  /\ doubts' = doubts \ {p}
  /\ stored' \in {stored, p}
  /\ UNCHANGED <<edgeVars, resource, policy, acked, doubted>>

ResourceCrashes ==
  /\ resource = "up"
  /\ ResourceExits
  /\ UNCHANGED <<phase, timer, lost, waited, stored, acked, doubts, doubted>>

\* load_policies
ResourceStarts ==
  /\ resource = "down"
  /\ resource' = "up" /\ policy' = stored
  /\ UNCHANGED <<edgeVars, stored, acked, doubts, doubted>>

LeaseInit ==
  /\ phase = [e \in Edge |-> "down"]
  /\ timer = [e \in Edge |-> 0]
  /\ age = [e \in Edge |-> Lease]
  /\ lost = [e \in Edge |-> 0]
  /\ waited = [e \in Edge |-> 0]
  /\ enrolled = {} /\ belated = {}
  /\ resource = "down"
  /\ policy = NoPolicy /\ stored = NoPolicy /\ acked = NoPolicy
  /\ doubts = {} /\ doubted = {}

EdgeStep(e) ==
  \/ EdgeStarts(e) \/ EdgeStops(e) \/ StartPost(e)
  \/ Register(e) \/ EndPost(e) \/ FailPost(e)

LeaseNext ==
  \/ \E e \in Edge : EdgeStep(e)
  \/ \E e \in belated : BelatedPost(e)
  \/ Tick
  \/ \E p \in Policy : SetPolicy(p)
  \/ \E p \in doubts : LatePolicy(p)
  \/ ResourceCrashes \/ ResourceStarts

LeaseSpec == LeaseInit /\ [][LeaseNext]_leaseVars

-----------------------------------------------------------------------------
LeaseTypeOK ==
  /\ phase \in [Edge -> {"down", "posting", "registered", "sleeping"}]
  /\ timer \in [Edge -> Nat] /\ age \in [Edge -> 0 .. Lease]
  /\ lost \in [Edge -> 0 .. 2] /\ waited \in [Edge -> 0 .. Lease]
  /\ enrolled \subseteq Edge /\ belated \subseteq Edge
  /\ resource \in {"up", "down"}
  /\ policy \in Policy \cup {NoPolicy} /\ stored \in Policy \cup {NoPolicy}
  /\ acked \in Policy \cup {NoPolicy}
  /\ doubts \subseteq Policy /\ doubted \subseteq Policy

(* An edge that keeps renewing stays a candidate although one of its POSTs is
   lost, wherever in the loop it is and however late the others are answered,
   unless its POSTs took up what the lease has beyond the sleeps, a renewal of
   the three ("the lease spans three renewals, so one lost POST keeps the edge
   placed", slice-runtime: a POST may hang for longer, and then it does not). *)
OneLossIsSurvived ==
  \A e \in enrolled :
    lost[e] <= 1 /\ waited[e] + (lost[e] + 1) * Renewal < Lease => e \in Candidates(NoPolicy)

(* A restart does not fail open: what a serving process places by is the
   policy last acknowledged, or one that was in doubt at that time or since
   ("a lost policy would fail open", resource-svc). *)
PolicyHolds ==
  resource = "up" /\ acked # NoPolicy => policy \in {acked} \cup doubted
=============================================================================
