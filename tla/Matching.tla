------------------------------ MODULE Matching ------------------------------
(***************************************************************************)
(* A buyer's own needs, from statement to settlement: fabric-coordinator,  *)
(* the sealed environment of slice-runtime, seller-svc's catalogue, orders *)
(* and offer events, and the parts of ledger-svc they write (Ledger).      *)
(*                                                                         *)
(* The coordinator runs one handler at a time, but a handler makes several *)
(* remote calls and everybody else moves between two of them; "handler"    *)
(* says which call comes next. A call is answered, refused, or abandoned:  *)
(* its caller gives up after 30 s while its callee may have acted, or may  *)
(* act later on ("late"). Requests that change nothing are stutters, and   *)
(* prices, slots and campaigns are left to BookingPrice.                   *)
(***************************************************************************)
EXTENDS Integers, Sequences, FiniteSets, SequencesExt

CONSTANTS
  Subject, Need, Offer,
  Owner,        \* whose need it is, for each need
  Restated,     \* the needs buyers state again while they are open
  AutoClose,    \* the needs that let the environment close the match
  Fits,         \* the offers that qualify, for each need
  Tracked,      \* the offers whose seller reports inventory
  Faulty,       \* calls may fail, processes crash and events get lost
  LateKinds,    \* which abandoned calls may take effect later
  NoNeed, NoMatch,
  MaxStated,    \* bound: times each need is stated anew
  MaxEnv,       \* bound: environments that execute
  MaxConsent,   \* bound: consents buyers record
  MaxUses,      \* bound: uses on the chain when a booking is attempted
  MaxLate,      \* bound: abandoned calls at a time
  MaxEvents,    \* bound: undelivered offer events
  MaxCrash      \* bound: restarts of the coordinator

ASSUME ParametersAssumption ==
  /\ Owner \in [Need -> Subject] /\ Restated \subseteq Need /\ AutoClose \subseteq Need
  /\ Fits \in [Need -> SUBSET Offer] /\ Tracked \subseteq Offer /\ Faulty \in BOOLEAN
  /\ LateKinds \subseteq {"consent", "use", "instruction", "order"}
  /\ NoNeed \notin Need
  /\ MaxEnv \in Nat /\ MaxEvents \in Nat

VARIABLES
  \* fabric-coordinator, in memory only
  handler,      \* the request being handled
  openNeeds,    \* open_needs, in order
  shortlists,   \* delivered shortlists, in order
  recorded,     \* the matches of its (handle, match_id) order list
  \* ledger-svc
  consent,      \* participation entries, in order
  instructions, confirmed,
  \* seller-svc
  published, outOfStock,
  orders,       \* the state of each order, by match
  events,       \* offer-published events not delivered yet
  \* the network, the environments and history
  late,         \* abandoned calls that may still take effect
  executed,     \* environments that executed so far
  stated,       \* times each need was stated anew, while it was not open
  everOut,      \* offers that have been out of stock
  crashes

coordinator == <<handler, openNeeds, shortlists, recorded>>
ledger == <<consent, instructions, confirmed>>
seller == <<published, outOfStock, orders, events>>
history == <<stated, everOut, crashes>>
vars == <<coordinator, ledger, seller, late, executed, history>>

\* environment ids are fresh and a match id is a function of its environment
\* and offer; the need is only known inside, and is kept for the properties
Match == [env : 1 .. MaxEnv, offer : Offer, need : Need]

ASSUME NoMatchAssumption == NoMatch \notin Match

Available == published \ outOfStock

-----------------------------------------------------------------------------
\* Consent.

Change(s, a) == [subject |-> s, action |-> a]
Use(m) == [subject |-> Owner[m.need], action |-> "use", match |-> m]

\* The newest grant or revoke wins: every revoke has a grant after it. A use
\* changes nothing, and no history at all reads as granted.
Granted(chain, s) ==
  \A i \in DOMAIN chain : chain[i] = Change(s, "revoke") =>
    \E j \in i + 1 .. Len(chain) : chain[j] = Change(s, "grant")

Used(m) == \E i \in DOMAIN consent : consent[i] = Use(m)

-----------------------------------------------------------------------------
\* Remote writes.

Receive(kind, x) ==
  CASE kind \in {"consent", "use"} ->
         /\ consent' = Append(consent, x)
         /\ UNCHANGED <<instructions, orders>>
    [] kind = "instruction" ->
         /\ instructions' = instructions \cup {x}
         /\ UNCHANGED <<consent, orders>>
    [] kind = "order" ->
         /\ orders' = IF x \in DOMAIN orders THEN orders
                      ELSE [m \in DOMAIN orders \cup {x} |->
                              IF m = x THEN "committed" ELSE orders[m]]
         /\ UNCHANGED <<consent, instructions>>

Answered(kind, x) == Receive(kind, x) /\ UNCHANGED late

\* Refused, or abandoned: done anyway, or done later or never.
Fails(kind, x) ==
  /\ Faulty
  /\ \/ UNCHANGED <<consent, instructions, orders, late>>
     \/ Receive(kind, x) /\ UNCHANGED late
     \/ /\ kind \in LateKinds
        /\ Cardinality(late) < MaxLate
        /\ late' = late \cup {[kind |-> kind, what |-> x]}
        /\ UNCHANGED <<consent, instructions, orders>>

LateArrives(call) ==
  /\ late' = late \ {call}
  /\ Receive(call.kind, call.what)
  /\ UNCHANGED <<coordinator, confirmed, published, outOfStock, events, executed, history>>

-----------------------------------------------------------------------------
\* The coordinator's handlers.

Idle == [pc |-> "idle", op |-> "none", index |-> 0, need |-> NoNeed,
         catalog |-> {}, match |-> NoMatch]

\* run_cycle at a position of the open needs.
CycleAt(needs, i) ==
  IF i > Len(needs) THEN Idle
  ELSE [Idle EXCEPT !.pc = "gate", !.op = "cycle", !.index = i, !.need = needs[i]]

\* Nothing came of the attempt: a cycle keeps the need and goes on.
Skip ==
  /\ handler' = IF handler.op = "cycle" THEN CycleAt(openNeeds, handler.index + 1) ELSE Idle
  /\ UNCHANGED <<openNeeds, shortlists>>

\* Faulty: an earlier registration of a need served on restatement stays; the
\* need that takes the served one's place in the cycle is passed over.
ServedInCycleOnly ==
  /\ openNeeds' = IF handler.op = "cycle" THEN RemoveAt(openNeeds, handler.index) ELSE openNeeds
  /\ handler' = IF handler.op = "cycle" THEN CycleAt(openNeeds', handler.index) ELSE Idle

ServedAndPassedOver ==
  /\ openNeeds' = IF handler.op = "cycle" THEN RemoveAt(openNeeds, handler.index)
                  ELSE RemoveFirst(openNeeds, handler.need)
  /\ handler' = IF handler.op = "cycle" THEN CycleAt(openNeeds', handler.index + 1) ELSE Idle

\* The need was served: it leaves the open needs, where it is at most once.
Served ==
  /\ openNeeds' = IF handler.op = "cycle" THEN RemoveAt(openNeeds, handler.index)
                  ELSE RemoveFirst(openNeeds, handler.need)
  /\ handler' = IF handler.op = "cycle" THEN CycleAt(openNeeds', handler.index) ELSE Idle

StateNeed(n) ==
  /\ handler = Idle
  /\ IF Contains(openNeeds, n) THEN n \in Restated /\ UNCHANGED stated
     ELSE stated[n] < MaxStated /\ stated' = [stated EXCEPT ![n] = @ + 1]
  /\ handler' = [Idle EXCEPT !.pc = "gate", !.op = "need", !.need = n]
  /\ UNCHANGED <<openNeeds, shortlists, recorded, ledger, seller, late, executed,
                 everOut, crashes>>

\* Faulty: a booked shortlist is booked again.
BookAgain(i, o) ==
  /\ handler = Idle
  /\ Cardinality({j \in DOMAIN consent : consent[j].action = "use"}) < MaxUses
  /\ o \in shortlists[i].entries
  /\ handler' = [Idle EXCEPT !.pc = "gate", !.op = "booking", !.index = i,
                   !.need = shortlists[i].need,
                   !.match = [env |-> shortlists[i].env, offer |-> o,
                              need |-> shortlists[i].need]]
  /\ UNCHANGED <<openNeeds, shortlists, recorded, ledger, seller, late, executed, history>>

\* POST /v1/bookings, up to the consent gate.
Book(i, o) ==
  /\ handler = Idle
  /\ Cardinality({j \in DOMAIN consent : consent[j].action = "use"}) < MaxUses
  /\ shortlists[i].booking = NoMatch
  /\ o \in shortlists[i].entries
  /\ handler' = [Idle EXCEPT !.pc = "gate", !.op = "booking", !.index = i,
                   !.need = shortlists[i].need,
                   !.match = [env |-> shortlists[i].env, offer |-> o,
                              need |-> shortlists[i].need]]
  /\ UNCHANGED <<openNeeds, shortlists, recorded, ledger, seller, late, executed, history>>

\* POST /v1/consents: a grant of participation runs a cycle.
SetConsent(s, a) ==
  /\ handler = Idle
  /\ Cardinality({i \in DOMAIN consent : consent[i].action # "use"}) < MaxConsent
  /\ \/ /\ Answered("consent", Change(s, a))
        /\ handler' = IF a = "grant" THEN CycleAt(openNeeds, 1) ELSE Idle
     \/ /\ Fails("consent", Change(s, a))
        /\ UNCHANGED handler
  /\ UNCHANGED <<openNeeds, shortlists, recorded, confirmed, published, outOfStock, events,
                 executed, history>>

\* Faulty: the event is taken without a cycle.
OfferPublishedUnheard ==
  /\ handler = Idle
  /\ events > 0
  /\ events' = events - 1
  /\ UNCHANGED <<coordinator, ledger, published, outOfStock, orders, late, executed, history>>

\* POST /v1/offers/published, sent again when its answer is lost.
OfferPublished ==
  /\ handler = Idle
  /\ events > 0
  /\ handler' = CycleAt(openNeeds, 1)
  /\ events' = events - 1 \/ (Faulty /\ events' = events)
  /\ UNCHANGED <<openNeeds, shortlists, recorded, ledger, published, outOfStock, orders,
                 late, executed, history>>

\* Faulty: consent is checked when a need is stated, not when it executes.
ConsentGateAtStatement ==
  /\ handler.pc = "gate"
  /\ \/ /\ handler.op = "need" => Granted(consent, Owner[handler.need])
        /\ handler' = [handler EXCEPT !.pc = IF handler.op = "booking" THEN "use" ELSE "fetch"]
        /\ UNCHANGED <<openNeeds, shortlists>>
     \/ Faulty /\ Skip
  /\ UNCHANGED <<recorded, ledger, seller, late, executed, history>>

\* consent_granted, at execution time.
ConsentGate ==
  /\ handler.pc = "gate"
  /\ \/ /\ Granted(consent, Owner[handler.need])
        /\ handler' = [handler EXCEPT !.pc = IF handler.op = "booking" THEN "use" ELSE "fetch"]
        /\ UNCHANGED <<openNeeds, shortlists>>
     \/ (Faulty \/ ~ Granted(consent, Owner[handler.need])) /\ Skip
  /\ UNCHANGED <<recorded, ledger, seller, late, executed, history>>

\* Placement, catalogue and campaigns.
FetchCatalog ==
  /\ handler.pc = "fetch"
  /\ \/ /\ handler' = [handler EXCEPT !.pc = "dispatch", !.catalog = Available]
        /\ UNCHANGED <<openNeeds, shortlists>>
     \/ Faulty /\ Skip
  /\ UNCHANGED <<recorded, ledger, seller, late, executed, history>>

Qualifying == Fits[handler.need] \cap handler.catalog

\* No environment executed: it is unreachable, or three in a row aborted.
DispatchFails ==
  /\ Faulty
  /\ handler.pc = "dispatch"
  /\ Skip
  /\ UNCHANGED <<recorded, ledger, seller, late, executed, history>>

\* 404 from the environment: the need stays open, or becomes so.
NoFittingOffer ==
  /\ handler.pc = "dispatch"
  /\ handler.need \in AutoClose /\ Qualifying = {}
  /\ openNeeds' = IF handler.op = "need" /\ ~ Contains(openNeeds, handler.need)
                    THEN Append(openNeeds, handler.need) ELSE openNeeds
  /\ handler' = IF handler.op = "cycle" THEN CycleAt(openNeeds, handler.index + 1) ELSE Idle
  /\ UNCHANGED <<shortlists, recorded, ledger, seller, late, executed, history>>

\* A manual need: a shortlist is delivered, however many offers qualify.
Shortlist ==
  /\ handler.pc = "dispatch"
  /\ handler.need \notin AutoClose
  /\ executed < MaxEnv
  /\ executed' = executed + 1
  /\ shortlists' = Append(shortlists, [env |-> executed', need |-> handler.need,
                                       entries |-> Qualifying, booking |-> NoMatch])
  /\ Served
  /\ UNCHANGED <<recorded, ledger, seller, late, history>>

\* Faulty: the environment goes by the id of the one before it.
CloseMatchAsLast(o) ==
  /\ handler.pc = "dispatch"
  /\ handler.need \in AutoClose /\ o \in Qualifying
  /\ executed < MaxEnv
  /\ executed' = executed + 1
  /\ LET m == [env |-> executed, offer |-> o, need |-> handler.need]
     IN  /\ Answered("instruction", m)
         /\ handler' = [handler EXCEPT !.pc = "use", !.match = m]
  /\ UNCHANGED <<openNeeds, shortlists, recorded, confirmed, published, outOfStock, events, history>>

\* The environment closes the match: it posts the instruction, whatever the
\* ledger answers, and returns the match record, which may not arrive.
CloseMatch(o) ==
  /\ handler.pc = "dispatch"
  /\ handler.need \in AutoClose /\ o \in Qualifying
  /\ executed < MaxEnv
  /\ executed' = executed + 1
  /\ LET m == [env |-> executed', offer |-> o, need |-> handler.need]
     IN  /\ Answered("instruction", m) \/ Fails("instruction", m)
         /\ \/ /\ handler' = [handler EXCEPT !.pc = "use", !.match = m]
               /\ UNCHANGED <<openNeeds, shortlists>>
            \/ Faulty /\ Skip
  /\ UNCHANGED <<recorded, confirmed, published, outOfStock, events, history>>

\* Faulty: the commitment goes on though its use was not recorded.
RecordUseBestEffort ==
  /\ handler.pc = "use"
  /\ Answered("use", Use(handler.match)) \/ Fails("use", Use(handler.match))
  /\ handler' = [handler EXCEPT !.pc = IF handler.op = "booking" THEN "instruct" ELSE "order"]
  /\ UNCHANGED <<openNeeds, shortlists, recorded, confirmed, published, outOfStock, events,
                 executed, history>>

\* record_participation_use: no evidence, no commitment.
RecordUse ==
  /\ handler.pc = "use"
  /\ \/ /\ Answered("use", Use(handler.match))
        /\ handler' = [handler EXCEPT !.pc = IF handler.op = "booking" THEN "instruct" ELSE "order"]
        /\ UNCHANGED <<openNeeds, shortlists>>
     \/ Fails("use", Use(handler.match)) /\ Skip
  /\ UNCHANGED <<recorded, confirmed, published, outOfStock, events, executed, history>>

\* Faulty: the order goes out though its instruction was not stored.
PostInstructionBestEffort ==
  /\ handler.pc = "instruct"
  /\ Answered("instruction", handler.match) \/ Fails("instruction", handler.match)
  /\ handler' = [handler EXCEPT !.pc = "order"]
  /\ UNCHANGED <<openNeeds, shortlists, recorded, confirmed, published, outOfStock, events,
                 executed, history>>

\* A booking's settlement instruction: no instruction, no order.
PostInstruction ==
  /\ handler.pc = "instruct"
  /\ \/ /\ Answered("instruction", handler.match)
        /\ handler' = [handler EXCEPT !.pc = "order"]
        /\ UNCHANGED <<openNeeds, shortlists>>
     \/ Fails("instruction", handler.match) /\ Skip
  /\ UNCHANGED <<recorded, confirmed, published, outOfStock, events, executed, history>>

\* The seller's order, and what the coordinator remembers of it.
CreateOrder ==
  /\ handler.pc = "order"
  /\ \/ /\ Answered("order", handler.match)
        /\ recorded' = recorded \cup {handler.match}
        /\ IF handler.op = "booking"
             THEN /\ shortlists' = [shortlists EXCEPT ![handler.index].booking = handler.match]
                  /\ handler' = Idle
                  /\ UNCHANGED openNeeds
             ELSE Served /\ UNCHANGED shortlists
     \/ Fails("order", handler.match) /\ Skip /\ UNCHANGED recorded
  /\ UNCHANGED <<confirmed, published, outOfStock, events, executed, history>>

CrashCoordinator ==
  /\ Faulty /\ crashes < MaxCrash
  /\ crashes' = crashes + 1
  /\ handler' = Idle /\ openNeeds' = << >> /\ shortlists' = << >> /\ recorded' = {}
  /\ UNCHANGED <<ledger, seller, late, executed, stated, everOut>>

-----------------------------------------------------------------------------
\* The seller.

\* A first publication or a repeated one.
Publish(o) ==
  /\ events < MaxEvents
  /\ published' = published \cup {o}
  /\ events' = events + 1
  /\ UNCHANGED <<coordinator, ledger, outOfStock, orders, late, executed, history>>

\* An event given up after five attempts.
DropEvent ==
  /\ Faulty /\ events > 0
  /\ events' = events - 1
  /\ UNCHANGED <<coordinator, ledger, published, outOfStock, orders, late, executed, history>>

SetStock(o, out) ==
  /\ o \in published \cap Tracked
  /\ outOfStock' = IF out THEN outOfStock \cup {o} ELSE outOfStock \ {o}
  /\ everOut' = everOut \cup outOfStock'
  /\ UNCHANGED <<coordinator, ledger, published, orders, events, late, executed, stated, crashes>>

Provision(m) ==
  /\ orders[m] = "committed"
  /\ orders' = [orders EXCEPT ![m] = "provisioning"]
  /\ UNCHANGED <<coordinator, ledger, published, outOfStock, events, late, executed, history>>

\* Faulty: an order is fulfilled from any state.
FulfilUnprovisioned(m) ==
  /\ orders[m] # "settled"
  /\ m \in instructions
  /\ confirmed' = confirmed \cup {m}
  /\ \/ orders' = [orders EXCEPT ![m] = "settled"]
     \/ Faulty /\ UNCHANGED orders
  /\ UNCHANGED <<coordinator, consent, instructions, published, outOfStock, events, late,
                 executed, history>>

\* Fulfilment confirms the settlement first; the order follows only when the
\* ledger says so, and the answer may be lost after the confirmation.
Fulfil(m) ==
  /\ orders[m] = "provisioning"
  /\ m \in instructions
  /\ confirmed' = confirmed \cup {m}
  /\ \/ orders' = [orders EXCEPT ![m] = "settled"]
     \/ Faulty /\ UNCHANGED orders
  /\ UNCHANGED <<coordinator, consent, instructions, published, outOfStock, events, late,
                 executed, history>>

-----------------------------------------------------------------------------
Init ==
  /\ handler = Idle /\ openNeeds = << >> /\ shortlists = << >> /\ recorded = {}
  /\ consent = << >> /\ instructions = {} /\ confirmed = {}
  /\ published = {} /\ outOfStock = {} /\ orders = << >> /\ events = 0
  /\ late = {} /\ executed = 0
  /\ stated = [n \in Need |-> 0] /\ everOut = {} /\ crashes = 0

Next ==
  \/ \E n \in Need : StateNeed(n)
  \/ \E i \in DOMAIN shortlists, o \in Offer : Book(i, o)
  \/ \E s \in Subject, a \in {"grant", "revoke"} : SetConsent(s, a)
  \/ OfferPublished
  \/ ConsentGate \/ FetchCatalog
  \/ DispatchFails \/ NoFittingOffer \/ Shortlist \/ \E o \in Offer : CloseMatch(o)
  \/ RecordUse \/ PostInstruction \/ CreateOrder
  \/ CrashCoordinator
  \/ \E o \in Offer : Publish(o) \/ \E out \in BOOLEAN : SetStock(o, out)
  \/ DropEvent
  \/ \E m \in DOMAIN orders : Provision(m) \/ Fulfil(m)
  \/ \E call \in late : LateArrives(call)

Spec == Init /\ [][Next]_vars

\* A handler goes on until it answers, since every call ends within its
\* timeout; an event is sent until it is answered, and its request is not
\* passed over for ever while others take the lock of the coordinator.
Continue ==
  \/ ConsentGate \/ FetchCatalog
  \/ DispatchFails \/ NoFittingOffer \/ Shortlist \/ \E o \in Offer : CloseMatch(o)
  \/ RecordUse \/ PostInstruction \/ CreateOrder

FairSpec == Spec /\ WF_vars(Continue) /\ SF_vars(OfferPublished)

-----------------------------------------------------------------------------
TypeOK ==
  /\ handler.pc \in {"idle", "gate", "fetch", "dispatch", "use", "instruct", "order"}
  /\ handler.op \in {"none", "need", "cycle", "booking"}
  /\ handler.pc # "idle" => handler.need \in Need
  /\ openNeeds \in Seq(AutoClose)
  /\ \A i \in DOMAIN shortlists :
       shortlists[i] \in [env : 1 .. executed, need : Need, entries : SUBSET Offer,
                          booking : Match \cup {NoMatch}]
  /\ recorded \subseteq Match /\ instructions \subseteq Match /\ confirmed \subseteq Match
  /\ \A i \in DOMAIN consent : consent[i] \in
       {Change(s, a) : s \in Subject, a \in {"grant", "revoke"}} \cup {Use(m) : m \in Match}
  /\ DOMAIN orders \subseteq Match
  /\ \A m \in DOMAIN orders : orders[m] \in {"committed", "provisioning", "settled"}
  /\ published \subseteq Offer /\ outOfStock \subseteq Offer /\ events \in 0 .. MaxEvents

(* The seller never sees an order, and money is never moved, for a match
   whose use of the participation consent is not on the consent chain: that
   is what lets the auditor account for every commitment, even when the
   order comes late, is retried, or its coordinator is gone. *)
EvidenceFirst ==
  \A m \in DOMAIN orders \cup confirmed \cup recorded : Used(m)

(* The auditor's rule: at its position on the chain, no use of a
   participation consent follows a revoke as the newest change. *)
UsesAreAllowed ==
  \A i \in DOMAIN consent :
    consent[i].action = "use" => Granted(SubSeq(consent, 1, i - 1), consent[i].subject)

(* What the coordinator tells the buyer is backed: a booked shortlist, or an
   order it answers for, has its order at the seller; a booking also has its
   instruction at the ledger, so that it can be settled. *)
RecordedIsBacked ==
  /\ recorded \subseteq DOMAIN orders
  /\ \A i \in DOMAIN shortlists : shortlists[i].booking # NoMatch =>
       shortlists[i].booking \in recorded
  /\ \A m \in DOMAIN orders : m.need \notin AutoClose => m \in instructions

(* An order is settled only after the ledger confirmed its settlement, and
   only an order that was provisioned has its settlement confirmed. *)
SettledIsConfirmed ==
  /\ \A m \in DOMAIN orders : orders[m] = "settled" => m \in confirmed
  /\ \A m \in confirmed : m \in DOMAIN orders /\ orders[m] # "committed"

(* A need is ordered at most once each time it is stated anew, however many
   restatements, cycles, repeated events and re-grants serve it while it is
   open ("a repeat cannot match or order a need twice"). *)
OrderedOncePerStatement ==
  \A n \in AutoClose : Cardinality({m \in DOMAIN orders : m.need = n}) <= stated[n]

(* One shortlist commits to one of its offers. *)
OneOrderPerShortlist ==
  \A m1, m2 \in DOMAIN orders : m1.env = m2.env => m1 = m2

(* No open need is forgotten: once the coordinator is at rest and every offer
   event has been delivered, an open need of a buyer who has not revoked
   participation fits nothing that was ever published, except offers that
   have been out of stock, whose return is not announced. *)
NoneForgotten ==
  handler = Idle /\ events = 0 =>
    \A i \in DOMAIN openNeeds :
      Granted(consent, Owner[openNeeds[i]]) => Fits[openNeeds[i]] \cap published \subseteq everOut

(* No open need is neglected for good: again and again it is served, its
   buyer has revoked participation, or nothing fits it but offers that have
   been out of stock. Every cycle ends, and every offer event leads to one. *)
ServedInTheEnd ==
  \A n \in AutoClose :
    []<>(Contains(openNeeds, n) /\ Granted(consent, Owner[n])
           => Fits[n] \cap published \subseteq everOut)
=============================================================================
