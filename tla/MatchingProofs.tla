--------------------------- MODULE MatchingProofs ---------------------------
(***************************************************************************)
(* Proofs about a buyer's own needs, for any subjects, needs, offers,      *)
(* bounds and failures.                                                    *)
(***************************************************************************)
EXTENDS Matching, FiniteSetTheorems, SequenceTheorems, TLAPS

Kinds == {"consent", "use", "instruction", "order"}

Changed == {Change(s, a) : s \in Subject, a \in {"grant", "revoke"}}

Entry == Changed \cup {Use(m) : m \in Match}

HandlerType ==
  [pc : {"idle", "gate", "fetch", "dispatch", "use", "instruct", "order"},
   op : {"none", "need", "cycle", "booking"}, index : Nat, need : Need \cup {NoNeed},
   catalog : SUBSET Offer, match : Match \cup {NoMatch}]

ShortlistType ==
  [env : 1 .. MaxEnv, need : Need \ AutoClose, entries : SUBSET Offer,
   booking : Match \cup {NoMatch}]

Committing == handler.pc \in {"use", "instruct", "order"}

-----------------------------------------------------------------------------
\* A call that may be done at any time: it has what must come before it.
Grounded(kind, x) ==
  /\ kind \in Kinds
  /\ kind = "consent" => x \in Changed
  /\ kind = "use" => x \in {Use(m) : m \in Match}
  /\ kind \in {"instruction", "order"} => x \in Match
  /\ kind = "order" => Used(x) /\ (x.need \notin AutoClose => x \in instructions)

RemoteInv ==
  /\ consent \in Seq(Entry) /\ instructions \subseteq Match /\ confirmed \subseteq DOMAIN orders
  /\ DOMAIN orders \subseteq Match
  /\ orders \in [DOMAIN orders -> {"committed", "provisioning", "settled"}]
  /\ \A m \in DOMAIN orders :
       /\ Used(m)
       /\ m.need \notin AutoClose => m \in instructions
       /\ orders[m] = "settled" => m \in confirmed
       /\ m \in confirmed => orders[m] # "committed"
  /\ published \subseteq Offer /\ outOfStock \subseteq Offer /\ events \in 0 .. MaxEvents
  /\ \A call \in late : Grounded(call.kind, call.what) /\ call.kind \in LateKinds

MemoryInv ==
  /\ openNeeds \in Seq(AutoClose) /\ IsInjective(openNeeds)
  /\ executed \in 0 .. MaxEnv
  /\ shortlists \in Seq(ShortlistType)
  /\ \A i \in DOMAIN shortlists :
       /\ shortlists[i].env <= executed
       /\ shortlists[i].booking # NoMatch => shortlists[i].booking \in recorded
  /\ recorded \subseteq DOMAIN orders

HandlerInv ==
  /\ handler \in HandlerType
  /\ handler.pc = "idle" => handler.op = "none"
  /\ handler.pc # "idle" => handler.need \in Need /\ handler.op # "none"
  /\ handler.op = "cycle" =>
       handler.index \in DOMAIN openNeeds /\ handler.need = openNeeds[handler.index]
  /\ handler.op = "booking" =>
       /\ handler.pc \in {"gate", "use", "instruct", "order"}
       /\ handler.index \in DOMAIN shortlists /\ shortlists[handler.index].booking = NoMatch
       /\ handler.need = shortlists[handler.index].need
       /\ handler.match \in Match /\ handler.match.need = handler.need
       /\ handler.match.env = shortlists[handler.index].env
  /\ Committing =>
       /\ handler.match \in Match /\ handler.match.need = handler.need
       /\ handler.match.env <= executed
       /\ handler.op # "booking" => handler.need \in AutoClose
  /\ handler.pc = "instruct" => handler.op = "booking"
  /\ handler.pc \in {"instruct", "order"} => Used(handler.match)
  /\ handler.pc = "order" /\ handler.op = "booking" => handler.match \in instructions

SafeInv == RemoteInv /\ MemoryInv /\ HandlerInv

-----------------------------------------------------------------------------
\* Between the gate and the use nobody but the coordinator writes consent.
PromptConsent == LateKinds \cap {"consent", "use"} = {}

AllowedInv ==
  /\ UsesAreAllowed
  /\ handler.pc \in {"fetch", "dispatch", "use"} => Granted(consent, Owner[handler.need])

-----------------------------------------------------------------------------
\* Without failures every environment has one match at most.
OnceInv ==
  /\ \A m \in DOMAIN orders : m.env <= executed
  /\ \A i, j \in DOMAIN shortlists : shortlists[i].env = shortlists[j].env => i = j
  /\ \A m \in DOMAIN orders, i \in DOMAIN shortlists :
       m.env = shortlists[i].env => shortlists[i].booking # NoMatch
  /\ Committing =>
       /\ \A m \in DOMAIN orders : m.env # handler.match.env
       /\ handler.op # "booking" =>
            \A i \in DOMAIN shortlists : shortlists[i].env # handler.match.env
  /\ OneOrderPerShortlist

\* A need is owed one more order while it is open or being handled.
OrdersOf(n) == {m \in DOMAIN orders : m.need = n}

Owed(n) == Contains(openNeeds, n) \/ (handler.op = "need" /\ handler.need = n)

CountInv ==
  /\ stated \in [Need -> Nat]
  /\ IsFiniteSet(DOMAIN orders)
  /\ \A n \in AutoClose :
       /\ Cardinality(OrdersOf(n)) <= stated[n]
       /\ Owed(n) => Cardinality(OrdersOf(n)) < stated[n]

\* An open need that something fits is ahead of a cycle, or of an event.
Missed(n) == Granted(consent, Owner[n]) /\ ~ (Fits[n] \cap published \subseteq everOut)

WakeInv ==
  /\ outOfStock \subseteq everOut
  /\ events = 0 =>
       /\ \A i \in DOMAIN openNeeds :
            Missed(openNeeds[i]) => handler.op = "cycle" /\ handler.index <= i
       /\ handler.pc = "dispatch" =>
            Fits[handler.need] \cap published \subseteq everOut \cup handler.catalog

-----------------------------------------------------------------------------
USE ParametersAssumption, NoMatchAssumption

\* Taking an element out of a sequence.
LEMMA RemoveAtIs ==
  ASSUME NEW S, NEW s \in Seq(S), NEW i \in 1 .. Len(s)
  PROVE  /\ RemoveAt(s, i) \in Seq(S)
         /\ Len(RemoveAt(s, i)) = Len(s) - 1
         /\ \A j \in 1 .. Len(s) - 1 : RemoveAt(s, i)[j] = IF j < i THEN s[j] ELSE s[j + 1]
<1> DEFINE left == SubSeq(s, 1, i - 1)
           right == SubSeq(s, i + 1, Len(s))
<1>1. Len(s) \in Nat /\ \A j \in 1 .. Len(s) : s[j] \in S
  OBVIOUS
<1>2. left \in Seq(S) /\ Len(left) = i - 1 /\ \A j \in 1 .. i - 1 : left[j] = s[j]
  <2>1. \A j \in 1 .. i - 1 : s[j] \in S
    BY <1>1
  <2> QED BY <1>1, <2>1, SubSeqProperties
<1>3. /\ right \in Seq(S) /\ Len(right) = Len(s) - i
      /\ \A j \in 1 .. Len(s) - i : right[j] = s[j + i]
  <2>1. \A j \in i + 1 .. Len(s) : s[j] \in S
    BY <1>1
  <2> QED BY <1>1, <2>1, SubSeqProperties
<1>4. RemoveAt(s, i) = left \o right
  BY DEF RemoveAt
<1> HIDE DEF left, right
<1>5. RemoveAt(s, i) \in Seq(S) /\ Len(RemoveAt(s, i)) = Len(s) - 1
  BY <1>1, <1>2, <1>3, <1>4, ConcatProperties
<1>6. ASSUME NEW j \in 1 .. Len(s) - 1
      PROVE  RemoveAt(s, i)[j] = IF j < i THEN s[j] ELSE s[j + 1]
  <2>1. RemoveAt(s, i)[j] = IF j <= Len(left) THEN left[j] ELSE right[j - Len(left)]
    BY <1>1, <1>2, <1>3, <1>4, ConcatProperties
  <2>2. CASE j < i
    BY <1>2, <2>1, <2>2
  <2>3. CASE ~ (j < i)
    <3>1. j - (i - 1) \in 1 .. Len(s) - i /\ (j - (i - 1)) + i = j + 1
      BY <1>1, <2>3
    <3>2. right[j - (i - 1)] = s[j + 1]
      BY <1>3, <3>1
    <3> QED BY <1>1, <1>2, <2>1, <2>3, <3>2
  <2> QED BY <2>2, <2>3
<1> QED BY <1>5, <1>6

LEMMA RemoveFirstAt ==
  ASSUME NEW S, NEW s \in Seq(S), IsInjective(s), NEW i \in 1 .. Len(s)
  PROVE  RemoveFirst(s, s[i]) = RemoveAt(s, i)
<1>1. {k \in 1 .. Len(s) : s[k] = s[i]} = {i}
  BY DEF IsInjective
<1>2. SelectInSeq(s, LAMBDA v : v = s[i]) = i
  BY <1>1 DEF SelectInSeq, Min
<1> QED BY <1>2 DEF RemoveFirst

LEMMA RemoveFirstIs ==
  ASSUME NEW S, NEW s \in Seq(S), IsInjective(s), NEW e
  PROVE  LET r == RemoveFirst(s, e)
         IN  /\ r \in Seq(S) /\ IsInjective(r)
             /\ \A j \in DOMAIN r : r[j] # e /\ \E i \in DOMAIN s : r[j] = s[i]
<1>1. CASE ~ \E i \in 1 .. Len(s) : s[i] = e
  BY <1>1 DEF RemoveFirst
<1>2. \A i \in 1 .. Len(s) : s[i] = e => RemoveFirst(s, e) = RemoveAt(s, i)
  BY RemoveFirstAt
<1>3. ASSUME NEW i \in 1 .. Len(s), s[i] = e
      PROVE  LET r == RemoveAt(s, i)
             IN  /\ r \in Seq(S) /\ IsInjective(r)
                 /\ \A j \in DOMAIN r : r[j] # e /\ \E k \in DOMAIN s : r[j] = s[k]
  <2> DEFINE r == RemoveAt(s, i)
             was(j) == IF j < i THEN j ELSE j + 1
  <2>1. /\ r \in Seq(S) /\ DOMAIN r = 1 .. Len(s) - 1
        /\ \A j \in 1 .. Len(s) - 1 : r[j] = s[was(j)] /\ was(j) \in 1 .. Len(s) \ {i}
    BY RemoveAtIs
  <2>2. \A j, k \in 1 .. Len(s) - 1 : was(j) = was(k) => j = k
    OBVIOUS
  <2> HIDE DEF r, was
  <2>3. IsInjective(r)
    BY <2>1, <2>2 DEF IsInjective
  <2>4. \A j \in DOMAIN r : r[j] # e /\ \E k \in DOMAIN s : r[j] = s[k]
    BY <1>3, <2>1 DEF IsInjective
  <2> QED BY <2>1, <2>3, <2>4 DEF r
<1> QED BY <1>1, <1>2, <1>3

-----------------------------------------------------------------------------
\* What a step does to the services: what one call does, or nothing.
Around == <<confirmed, published, outOfStock, events>>

Posted(kind, x) ==
  /\ late' \subseteq late \cup {[kind |-> kind, what |-> x]}
  /\ late' \subseteq late \/ kind \in LateKinds
  /\ Receive(kind, x) \/ UNCHANGED <<consent, instructions, orders>>
  /\ UNCHANGED Around

LEMMA CallsPost ==
  ASSUME NEW kind, NEW x, Answered(kind, x) \/ Fails(kind, x), UNCHANGED Around
  PROVE  Posted(kind, x)
BY DEF Answered, Fails, Posted

\* What was so stays so.
Lasting ==
  /\ \A m : Used(m) => Used(m)'
  /\ instructions \subseteq instructions' /\ DOMAIN orders \subseteq DOMAIN orders'

LEMMA SameLasts == UNCHANGED <<consent, instructions>> /\ DOMAIN orders \subseteq DOMAIN orders' => Lasting
BY DEF Lasting, Used

LEMMA UseType == \A m \in Match : Use(m) \in Entry
BY DEF Entry

LEMMA AppendLasts ==
  ASSUME consent \in Seq(Entry), NEW x \in Entry, consent' = Append(consent, x),
         UNCHANGED <<instructions, orders>>
  PROVE  consent' \in Seq(Entry) /\ Lasting
<1>1. /\ consent' \in Seq(Entry)
      /\ \A i \in DOMAIN consent : i \in DOMAIN consent' /\ consent'[i] = consent[i]
  BY AppendProperties
<1> QED BY <1>1 DEF Lasting, Used

\* The order of a match, new or already there.
LEMMA OrderReceived ==
  ASSUME RemoteInv, NEW x \in Match, Receive("order", x)
  PROVE  /\ DOMAIN orders' = DOMAIN orders \cup {x}
         /\ \A m \in DOMAIN orders : orders'[m] = orders[m]
         /\ x \notin DOMAIN orders => orders'[x] = "committed"
         /\ orders' \in [DOMAIN orders' -> {"committed", "provisioning", "settled"}]
         /\ UNCHANGED <<consent, instructions>>
<1>1. CASE x \in DOMAIN orders
  BY <1>1 DEF RemoteInv, Receive
<1>2. CASE x \notin DOMAIN orders
  BY <1>2 DEF RemoteInv, Receive
<1> QED BY <1>1, <1>2

LEMMA ReceiveKeepsRemote ==
  ASSUME RemoteInv, NEW kind, NEW x, Grounded(kind, x), UNCHANGED Around,
         Receive(kind, x) \/ UNCHANGED <<consent, instructions, orders>>
  PROVE  /\ Lasting /\ consent' \in Seq(Entry) /\ instructions' \subseteq Match
         /\ confirmed' \subseteq DOMAIN orders' /\ DOMAIN orders' \subseteq Match
         /\ orders' \in [DOMAIN orders' -> {"committed", "provisioning", "settled"}]
         /\ \A m \in DOMAIN orders' :
              /\ Used(m)'
              /\ m.need \notin AutoClose => m \in instructions'
              /\ orders'[m] = "settled" => m \in confirmed'
              /\ m \in confirmed' => orders'[m] # "committed"
<1>1. CASE UNCHANGED <<consent, instructions, orders>>
  BY <1>1, SameLasts DEF RemoteInv, Around, Lasting
<1>2. CASE kind \in {"consent", "use"} /\ Receive(kind, x)
  <2>1. x \in Entry /\ consent' = Append(consent, x) /\ UNCHANGED <<instructions, orders>>
    BY <1>2, UseType DEF Receive, Grounded, Entry
  <2>2. consent' \in Seq(Entry) /\ Lasting
    BY <2>1, AppendLasts DEF RemoteInv
  <2> QED BY <2>1, <2>2 DEF RemoteInv, Around, Lasting
<1>3. CASE kind = "instruction" /\ Receive(kind, x)
  <2>1. x \in Match /\ instructions' = instructions \cup {x} /\ UNCHANGED <<consent, orders>>
    BY <1>3 DEF Receive, Grounded
  <2>2. Lasting
    BY <2>1 DEF Lasting, Used
  <2> QED BY <2>1, <2>2 DEF RemoteInv, Around, Lasting
<1>4. CASE kind = "order" /\ Receive(kind, x)
  <2>1. x \in Match /\ Used(x) /\ (x.need \notin AutoClose => x \in instructions)
    BY <1>4 DEF Grounded
  <2>2. /\ DOMAIN orders' = DOMAIN orders \cup {x} /\ UNCHANGED <<consent, instructions>>
        /\ \A m \in DOMAIN orders : orders'[m] = orders[m]
        /\ x \notin DOMAIN orders => orders'[x] = "committed"
        /\ orders' \in [DOMAIN orders' -> {"committed", "provisioning", "settled"}]
    BY <1>4, <2>1, OrderReceived
  <2>3. Lasting
    BY <2>2, SameLasts
  <2> QED BY <2>1, <2>2, <2>3 DEF RemoteInv, Around, Lasting
<1>5. kind \in Kinds
  BY DEF Grounded
<1> QED BY <1>1, <1>2, <1>3, <1>4, <1>5 DEF Kinds

LEMMA GroundedLasts ==
  ASSUME Lasting, NEW kind, NEW x, Grounded(kind, x)
  PROVE  Grounded(kind, x)'
BY DEF Grounded, Lasting

LEMMA PostKeepsRemote ==
  ASSUME RemoteInv, NEW kind, NEW x, Grounded(kind, x), Posted(kind, x)
  PROVE  RemoteInv' /\ Lasting
<1>1. /\ Lasting /\ consent' \in Seq(Entry) /\ instructions' \subseteq Match
      /\ confirmed' \subseteq DOMAIN orders' /\ DOMAIN orders' \subseteq Match
      /\ orders' \in [DOMAIN orders' -> {"committed", "provisioning", "settled"}]
      /\ \A m \in DOMAIN orders' :
           /\ Used(m)'
           /\ m.need \notin AutoClose => m \in instructions'
           /\ orders'[m] = "settled" => m \in confirmed'
           /\ m \in confirmed' => orders'[m] # "committed"
  BY ReceiveKeepsRemote DEF Posted
<1>2. ASSUME NEW call \in late'
      PROVE  Grounded(call.kind, call.what)' /\ call.kind \in LateKinds
  <2>1. call \in late \/ (call = [kind |-> kind, what |-> x] /\ kind \in LateKinds)
    BY DEF Posted
  <2>2. Grounded(call.kind, call.what) /\ call.kind \in LateKinds
    BY <2>1 DEF RemoteInv
  <2> QED BY <1>1, <2>2, GroundedLasts
<1>3. published' \subseteq Offer /\ outOfStock' \subseteq Offer /\ events' \in 0 .. MaxEvents
  BY DEF Posted, Around, RemoteInv
<1> QED BY <1>1, <1>2, <1>3 DEF RemoteInv

\* The ledger and the orders are left alone.
LEMMA ShopKeepsRemote ==
  ASSUME RemoteInv, UNCHANGED <<ledger, orders, late>>,
         published' \subseteq Offer, outOfStock' \subseteq Offer, events' \in 0 .. MaxEvents
  PROVE  RemoteInv' /\ Lasting
<1>1. Lasting
  BY SameLasts DEF ledger
<1>2. \A call \in late' : Grounded(call.kind, call.what)'
  BY <1>1, GroundedLasts DEF RemoteInv
<1> QED BY <1>1, <1>2 DEF RemoteInv, ledger, Lasting

-----------------------------------------------------------------------------
\* Where a handler may go.
LEMMA IdleType ==
  Idle \in HandlerType /\ Idle.pc = "idle" /\ Idle.op = "none" /\ Idle.index = 0 /\ Idle.need = NoNeed
BY DEF Idle, HandlerType

LEMMA IdleIsSafe == ASSUME handler' = Idle PROVE HandlerInv'
BY IdleType DEF HandlerInv, Committing

LEMMA CycleType ==
  ASSUME NEW needs \in Seq(AutoClose), NEW i \in Nat \ {0}
  PROVE  /\ CycleAt(needs, i) \in HandlerType
         /\ \/ CycleAt(needs, i) = Idle /\ i > Len(needs)
            \/ /\ i \in DOMAIN needs
               /\ CycleAt(needs, i).pc = "gate" /\ CycleAt(needs, i).op = "cycle"
               /\ CycleAt(needs, i).index = i /\ CycleAt(needs, i).need = needs[i]
<1>1. CASE i > Len(needs)
  BY <1>1, IdleType DEF CycleAt
<1>2. CASE ~ (i > Len(needs))
  <2>1. i \in 1 .. Len(needs) /\ needs[i] \in Need
    BY <1>2
  <2>2. CycleAt(needs, i) = [pc |-> "gate", op |-> "cycle", index |-> i, need |-> needs[i],
                             catalog |-> {}, match |-> NoMatch]
    BY <1>2 DEF CycleAt, Idle
  <2> QED BY <2>1, <2>2 DEF HandlerType
<1> QED BY <1>1, <1>2

LEMMA CycleIsSafe ==
  ASSUME openNeeds' \in Seq(AutoClose), NEW i \in Nat \ {0}, handler' = CycleAt(openNeeds', i)
  PROVE  HandlerInv' /\ handler'.pc \in {"idle", "gate"}
<1>1. CASE handler' = Idle
  BY <1>1, IdleIsSafe, IdleType
<1>2. CASE /\ i \in DOMAIN openNeeds' /\ handler' \in HandlerType
           /\ handler'.pc = "gate" /\ handler'.op = "cycle"
           /\ handler'.index = i /\ handler'.need = openNeeds'[i]
  <2>1. openNeeds'[i] \in Need
    BY <1>2
  <2> QED BY <1>2, <2>1 DEF HandlerInv, Committing
<1> QED BY <1>1, <1>2, CycleType

LEMMA SkipIsSafe ==
  ASSUME MemoryInv, HandlerInv, Skip
  PROVE  HandlerInv' /\ handler'.pc \in {"idle", "gate"} /\ UNCHANGED <<openNeeds, shortlists>>
<1>1. handler.index + 1 \in Nat \ {0} /\ openNeeds' \in Seq(AutoClose) /\ openNeeds' = openNeeds
  BY DEF MemoryInv, HandlerInv, HandlerType, Skip
<1> QED BY <1>1, CycleIsSafe, IdleIsSafe, IdleType DEF Skip

\* A served need is no longer open, and the cycle goes on at its place.
LEMMA ServedIsSafe ==
  ASSUME MemoryInv, HandlerInv, Served, handler.op \in {"need", "cycle"}
  PROVE  /\ openNeeds' \in Seq(AutoClose) /\ IsInjective(openNeeds')
         /\ \A j \in DOMAIN openNeeds' :
              openNeeds'[j] # handler.need /\ \E i \in DOMAIN openNeeds : openNeeds'[j] = openNeeds[i]
         /\ HandlerInv' /\ handler'.pc \in {"idle", "gate"} /\ handler'.op # "need"
<1>1. openNeeds \in Seq(AutoClose) /\ IsInjective(openNeeds)
  BY DEF MemoryInv
<1>2. CASE handler.op = "cycle"
  <2>1. handler.index \in 1 .. Len(openNeeds) /\ openNeeds[handler.index] = handler.need
    BY <1>1, <1>2 DEF HandlerInv
  <2>2. openNeeds' = RemoveFirst(openNeeds, handler.need)
    BY <1>1, <1>2, <2>1, RemoveFirstAt DEF Served
  <2>3. /\ openNeeds' \in Seq(AutoClose) /\ IsInjective(openNeeds')
        /\ \A j \in DOMAIN openNeeds' :
             openNeeds'[j] # handler.need /\ \E i \in DOMAIN openNeeds : openNeeds'[j] = openNeeds[i]
    BY <1>1, <2>2, RemoveFirstIs
  <2>4. handler' = CycleAt(openNeeds', handler.index) /\ handler.index \in Nat \ {0}
    BY <1>2, <2>1 DEF Served
  <2> QED BY <2>3, <2>4, CycleIsSafe, CycleType, IdleType
<1>3. CASE handler.op = "need"
  <2>1. openNeeds' = RemoveFirst(openNeeds, handler.need) /\ handler' = Idle
    BY <1>3 DEF Served
  <2> QED BY <1>1, <2>1, RemoveFirstIs, IdleIsSafe, IdleType
<1> QED BY <1>2, <1>3

-----------------------------------------------------------------------------
\* What the coordinator remembers.
LEMMA MemoryLasts ==
  ASSUME MemoryInv, Lasting, UNCHANGED <<openNeeds, shortlists, recorded>>,
         executed' \in executed .. MaxEnv
  PROVE  MemoryInv'
<1>1. \A i \in DOMAIN shortlists : shortlists[i].env <= executed'
  <2> TAKE i \in DOMAIN shortlists
  <2>1. shortlists[i] \in ShortlistType
    BY DEF MemoryInv
  <2> QED BY <2>1 DEF MemoryInv, ShortlistType
<1> QED BY <1>1 DEF MemoryInv, Lasting

\* The facts about the handler last as long as the handler stands.
LEMMA HandlerLasts ==
  ASSUME MemoryInv, HandlerInv, Lasting, UNCHANGED <<handler, openNeeds, shortlists, executed>>
  PROVE  HandlerInv'
BY DEF HandlerInv, Lasting, Committing

LEMMA QuietKeepsRemote ==
  ASSUME RemoteInv, UNCHANGED <<ledger, seller, late>>
  PROVE  RemoteInv' /\ Lasting
BY ShopKeepsRemote DEF RemoteInv, seller

-----------------------------------------------------------------------------
LEMMA StateNeedKeepsSafe ==
  ASSUME SafeInv, NEW n \in Need, StateNeed(n)
  PROVE  SafeInv'
<1>1. RemoteInv' /\ Lasting
  BY QuietKeepsRemote DEF SafeInv, StateNeed
<1>2. MemoryInv'
  BY <1>1, MemoryLasts DEF SafeInv, MemoryInv, StateNeed
<1>3. handler' \in HandlerType /\ handler'.pc = "gate" /\ handler'.op = "need" /\ handler'.need = n
  BY DEF StateNeed, Idle, HandlerType
<1> QED BY <1>1, <1>2, <1>3 DEF SafeInv, HandlerInv, Committing

LEMMA BookKeepsSafe ==
  ASSUME SafeInv, NEW i \in DOMAIN shortlists, NEW o \in Offer, Book(i, o)
  PROVE  SafeInv'
<1>1. RemoteInv' /\ Lasting
  BY QuietKeepsRemote DEF SafeInv, Book
<1>2. MemoryInv' /\ UNCHANGED <<shortlists, executed>>
  BY <1>1, MemoryLasts DEF SafeInv, MemoryInv, Book
<1>3. shortlists[i] \in ShortlistType /\ i \in Nat
  BY DEF SafeInv, MemoryInv
<1> DEFINE m == [env |-> shortlists[i].env, offer |-> o, need |-> shortlists[i].need]
<1>4. m \in Match /\ m.need = shortlists[i].need /\ m.env = shortlists[i].env
  BY <1>3 DEF ShortlistType, Match
<1> HIDE DEF m
<1>5. /\ handler' \in HandlerType /\ handler'.pc = "gate" /\ handler'.op = "booking"
      /\ handler'.index = i /\ handler'.need = shortlists[i].need /\ handler'.match = m
  BY <1>3, <1>4 DEF Book, Idle, HandlerType, ShortlistType, m
<1>6. HandlerInv'
  BY <1>2, <1>3, <1>4, <1>5 DEF HandlerInv, Committing, Book, ShortlistType
<1> QED BY <1>1, <1>2, <1>6 DEF SafeInv

LEMMA SetConsentKeepsSafe ==
  ASSUME SafeInv, NEW s \in Subject, NEW a \in {"grant", "revoke"}, SetConsent(s, a)
  PROVE  SafeInv'
<1>1. Grounded("consent", Change(s, a)) /\ Posted("consent", Change(s, a))
  BY CallsPost DEF Grounded, Kinds, Changed, SetConsent, Around
<1>2. RemoteInv' /\ Lasting
  BY <1>1, PostKeepsRemote DEF SafeInv
<1>3. MemoryInv' /\ UNCHANGED <<openNeeds, shortlists, executed>>
  BY <1>2, MemoryLasts DEF SafeInv, MemoryInv, SetConsent
<1>4. handler' = handler \/ handler' = CycleAt(openNeeds', 1) \/ handler' = Idle
  BY <1>3 DEF SetConsent
<1>5. HandlerInv'
  BY <1>2, <1>3, <1>4, HandlerLasts, CycleIsSafe, IdleIsSafe DEF SafeInv, MemoryInv
<1> QED BY <1>2, <1>3, <1>5 DEF SafeInv

LEMMA OfferPublishedKeepsSafe == SafeInv /\ OfferPublished => SafeInv'
<1> SUFFICES ASSUME SafeInv, OfferPublished
             PROVE  SafeInv'
  OBVIOUS
<1>1. RemoteInv' /\ Lasting
  BY ShopKeepsRemote DEF SafeInv, RemoteInv, OfferPublished
<1>2. MemoryInv'
  BY <1>1, MemoryLasts DEF SafeInv, MemoryInv, OfferPublished
<1>3. HandlerInv'
  BY <1>2, CycleIsSafe DEF MemoryInv, OfferPublished
<1> QED BY <1>1, <1>2, <1>3 DEF SafeInv

\* The handler goes on to its next call.
LEMMA AdvanceIsSafe ==
  ASSUME SafeInv, Lasting, UNCHANGED <<openNeeds, shortlists, executed>>,
         NEW pc \in {"fetch", "dispatch", "use", "instruct", "order"},
         handler' \in HandlerType, handler'.pc = pc, handler'.op = handler.op,
         handler'.index = handler.index, handler'.need = handler.need,
         handler'.match = handler.match, handler.pc # "idle",
         handler.op = "booking" => pc \notin {"fetch", "dispatch"},
         pc \in {"use", "instruct", "order"} =>
           (handler.op # "booking" => handler.need \in AutoClose) /\ handler.match \in Match
              /\ handler.match.need = handler.need /\ handler.match.env <= executed,
         pc = "instruct" => handler.op = "booking",
         pc \in {"instruct", "order"} => Used(handler.match)',
         pc = "order" /\ handler.op = "booking" => handler.match \in instructions'
  PROVE  HandlerInv'
<1>1. handler.need \in Need /\ handler.op # "none"
  BY DEF SafeInv, HandlerInv
<1> QED BY <1>1 DEF SafeInv, HandlerInv, Committing

LEMMA ConsentGateKeepsSafe == SafeInv /\ ConsentGate => SafeInv'
<1> SUFFICES ASSUME SafeInv, ConsentGate
             PROVE  SafeInv'
  OBVIOUS
<1>1. RemoteInv' /\ Lasting
  BY QuietKeepsRemote DEF SafeInv, ConsentGate
<1>2. MemoryInv' /\ UNCHANGED <<openNeeds, shortlists, executed>>
  BY <1>1, MemoryLasts DEF SafeInv, MemoryInv, ConsentGate, Skip
<1> DEFINE pc == IF handler.op = "booking" THEN "use" ELSE "fetch"
<1>3. CASE handler' = [handler EXCEPT !.pc = pc]
  <2>1. /\ handler' \in HandlerType /\ handler'.pc = pc /\ handler'.op = handler.op
        /\ handler'.index = handler.index /\ handler'.need = handler.need
        /\ handler'.match = handler.match /\ handler.pc = "gate"
    BY <1>3 DEF SafeInv, HandlerInv, HandlerType, ConsentGate
  <2>2. handler.op = "booking" =>
          /\ handler.match \in Match /\ handler.match.need = handler.need
          /\ handler.match.env <= executed
    BY DEF SafeInv, HandlerInv, MemoryInv
  <2>3. HandlerInv'
    BY <1>1, <1>2, <2>1, <2>2, AdvanceIsSafe
  <2> QED BY <1>1, <1>2, <2>3 DEF SafeInv
<1>4. CASE Skip
  BY <1>1, <1>2, <1>4, SkipIsSafe DEF SafeInv
<1> QED BY <1>3, <1>4 DEF ConsentGate

LEMMA FetchCatalogKeepsSafe == SafeInv /\ FetchCatalog => SafeInv'
<1> SUFFICES ASSUME SafeInv, FetchCatalog
             PROVE  SafeInv'
  OBVIOUS
<1>1. RemoteInv' /\ Lasting
  BY QuietKeepsRemote DEF SafeInv, FetchCatalog
<1>2. MemoryInv' /\ UNCHANGED <<openNeeds, shortlists, executed>>
  BY <1>1, MemoryLasts DEF SafeInv, MemoryInv, FetchCatalog, Skip
<1>3. CASE handler' = [handler EXCEPT !.pc = "dispatch", !.catalog = Available]
  <2>1. Available \subseteq Offer
    BY DEF Available, SafeInv, RemoteInv
  <2>2. /\ handler' \in HandlerType /\ handler'.pc = "dispatch" /\ handler'.op = handler.op
        /\ handler'.index = handler.index /\ handler'.need = handler.need
        /\ handler'.match = handler.match /\ handler.pc = "fetch"
    BY <1>3, <2>1 DEF SafeInv, HandlerInv, HandlerType, FetchCatalog
  <2>3. handler.op # "booking"
    BY <2>2 DEF SafeInv, HandlerInv
  <2>4. HandlerInv'
    BY <1>1, <1>2, <2>2, <2>3, AdvanceIsSafe
  <2> QED BY <1>1, <1>2, <2>4 DEF SafeInv
<1>4. CASE Skip
  BY <1>1, <1>2, <1>4, SkipIsSafe DEF SafeInv
<1> QED BY <1>3, <1>4 DEF FetchCatalog

LEMMA DispatchFailsKeepsSafe == SafeInv /\ DispatchFails => SafeInv'
<1> SUFFICES ASSUME SafeInv, DispatchFails
             PROVE  SafeInv'
  OBVIOUS
<1>1. RemoteInv' /\ Lasting
  BY QuietKeepsRemote DEF SafeInv, DispatchFails
<1>2. MemoryInv'
  BY <1>1, MemoryLasts DEF SafeInv, MemoryInv, DispatchFails, Skip
<1> QED BY <1>1, <1>2, SkipIsSafe DEF SafeInv, DispatchFails

\* A need is registered once.
LEMMA NoFittingOfferKeepsSafe == SafeInv /\ NoFittingOffer => SafeInv'
<1> SUFFICES ASSUME SafeInv, NoFittingOffer
             PROVE  SafeInv'
  OBVIOUS
<1>1. RemoteInv' /\ Lasting
  BY QuietKeepsRemote DEF SafeInv, NoFittingOffer
<1>2. openNeeds \in Seq(AutoClose) /\ IsInjective(openNeeds) /\ handler.need \in AutoClose
  BY DEF SafeInv, MemoryInv, NoFittingOffer
<1>3. openNeeds' \in Seq(AutoClose) /\ IsInjective(openNeeds')
  <2>1. CASE openNeeds' = openNeeds
    BY <1>2, <2>1
  <2>2. CASE openNeeds' = Append(openNeeds, handler.need) /\ ~ Contains(openNeeds, handler.need)
    BY <1>2, <2>2, AppendProperties DEF IsInjective, Contains
  <2> QED BY <2>1, <2>2 DEF NoFittingOffer
<1>4. MemoryInv'
  BY <1>1, <1>3 DEF SafeInv, MemoryInv, NoFittingOffer, Lasting
<1>5. HandlerInv'
  <2>1. CASE handler.op = "cycle"
    <3>1. openNeeds' = openNeeds /\ handler' = CycleAt(openNeeds', handler.index + 1)
      BY <2>1 DEF NoFittingOffer
    <3>2. handler.index + 1 \in Nat \ {0}
      BY DEF SafeInv, HandlerInv, HandlerType
    <3> QED BY <1>3, <3>1, <3>2, CycleIsSafe
  <2>2. CASE handler.op # "cycle"
    BY <2>2, IdleIsSafe DEF NoFittingOffer
  <2> QED BY <2>1, <2>2
<1> QED BY <1>1, <1>4, <1>5 DEF SafeInv

LEMMA ShortlistKeepsSafe == SafeInv /\ Shortlist => SafeInv'
<1> SUFFICES ASSUME SafeInv, Shortlist
             PROVE  SafeInv'
  OBVIOUS
<1>1. RemoteInv' /\ Lasting
  BY QuietKeepsRemote DEF SafeInv, Shortlist
<1> DEFINE new == [env |-> executed', need |-> handler.need, entries |-> Qualifying,
                   booking |-> NoMatch]
<1>2. /\ new \in ShortlistType /\ new.env = executed' /\ new.booking = NoMatch
      /\ executed' = executed + 1 /\ executed' \in 0 .. MaxEnv /\ executed \in Nat
  BY DEF Shortlist, SafeInv, MemoryInv, HandlerInv, HandlerType, ShortlistType, Qualifying
<1>3. shortlists' = Append(shortlists, new)
  BY DEF Shortlist
<1> HIDE DEF new
<1>4. handler.op \in {"need", "cycle"}
  BY DEF Shortlist, SafeInv, HandlerInv, HandlerType
<1>5. openNeeds' \in Seq(AutoClose) /\ IsInjective(openNeeds') /\ HandlerInv'
  BY <1>4, ServedIsSafe DEF SafeInv, Shortlist
<1>6. /\ shortlists' \in Seq(ShortlistType)
      /\ \A i \in DOMAIN shortlists' : shortlists'[i] = new \/ \E j \in DOMAIN shortlists : shortlists'[i] = shortlists[j]
  BY <1>2, <1>3, AppendProperties DEF SafeInv, MemoryInv
<1>7. \A i \in DOMAIN shortlists' :
        /\ shortlists'[i].env <= executed'
        /\ shortlists'[i].booking # NoMatch => shortlists'[i].booking \in recorded'
  <2> TAKE i \in DOMAIN shortlists'
  <2>1. CASE shortlists'[i] = new
    BY <1>2, <2>1
  <2>2. ASSUME NEW j \in DOMAIN shortlists, shortlists'[i] = shortlists[j]
        PROVE  /\ shortlists'[i].env <= executed'
               /\ shortlists'[i].booking # NoMatch => shortlists'[i].booking \in recorded'
    <3>1. shortlists[j] \in ShortlistType
      BY DEF SafeInv, MemoryInv
    <3> QED BY <1>2, <2>2, <3>1 DEF SafeInv, MemoryInv, ShortlistType, Shortlist
  <2> QED BY <1>6, <2>1, <2>2
<1>8. MemoryInv'
  BY <1>1, <1>2, <1>5, <1>6, <1>7 DEF SafeInv, MemoryInv, Shortlist, Lasting
<1> QED BY <1>1, <1>5, <1>8 DEF SafeInv

\* A match of an environment's own, whatever becomes of its instruction.
LEMMA CloseMatchKeepsSafe ==
  ASSUME SafeInv, NEW o \in Offer, CloseMatch(o)
  PROVE  SafeInv'
<1> DEFINE m == [env |-> executed', offer |-> o, need |-> handler.need]
<1>1. /\ m \in Match /\ m.need = handler.need /\ m.env = executed'
      /\ executed' \in executed .. MaxEnv /\ handler.need \in AutoClose /\ handler.pc = "dispatch"
  BY DEF CloseMatch, SafeInv, MemoryInv, HandlerInv, Match
<1>2. Posted("instruction", m)
  BY CallsPost DEF CloseMatch, Around
<1>3. CASE handler' = [handler EXCEPT !.pc = "use", !.match = m] /\ UNCHANGED <<openNeeds, shortlists>>
  <2> HIDE DEF m
  <2>1. Grounded("instruction", m)
    BY <1>1 DEF Grounded, Kinds
  <2>2. RemoteInv' /\ Lasting
    BY <1>2, <2>1, PostKeepsRemote DEF SafeInv
  <2>3. MemoryInv'
    BY <1>1, <1>3, <2>2, MemoryLasts DEF SafeInv, CloseMatch
  <2>4. /\ handler' \in HandlerType /\ handler'.pc = "use" /\ handler'.op = handler.op
        /\ handler'.index = handler.index /\ handler'.need = handler.need /\ handler'.match = m
    BY <1>1, <1>3 DEF SafeInv, HandlerInv, HandlerType
  <2>5. handler.op # "booking"
    BY <1>1 DEF SafeInv, HandlerInv
  <2>6. HandlerInv'
    BY <1>1, <1>3, <2>4, <2>5 DEF SafeInv, HandlerInv, MemoryInv, Committing
  <2> QED BY <2>2, <2>3, <2>6 DEF SafeInv
<1>4. CASE Skip
  <2> HIDE DEF m
  <2>1. Grounded("instruction", m)
    BY <1>1 DEF Grounded, Kinds
  <2>2. RemoteInv' /\ Lasting
    BY <1>2, <2>1, PostKeepsRemote DEF SafeInv
  <2>3. MemoryInv'
    BY <1>1, <1>4, <2>2, MemoryLasts DEF SafeInv, CloseMatch, Skip
  <2> QED BY <1>4, <2>2, <2>3, SkipIsSafe DEF SafeInv
<1> QED BY <1>3, <1>4 DEF CloseMatch

LEMMA RecordUseKeepsSafe == SafeInv /\ RecordUse => SafeInv'
<1> SUFFICES ASSUME SafeInv, RecordUse
             PROVE  SafeInv'
  OBVIOUS
<1> DEFINE use == Use(handler.match)
           pc == IF handler.op = "booking" THEN "instruct" ELSE "order"
<1>1. /\ handler.match \in Match /\ handler.match.need = handler.need
      /\ handler.match.env <= executed
      /\ handler.op # "booking" => handler.need \in AutoClose
  BY DEF SafeInv, HandlerInv, Committing, RecordUse
<1>2. Grounded("use", use) /\ Posted("use", use)
  BY <1>1, CallsPost DEF Grounded, Kinds, RecordUse, Around
<1>3. RemoteInv' /\ Lasting
  BY <1>2, PostKeepsRemote DEF SafeInv
<1>4. MemoryInv' /\ UNCHANGED <<openNeeds, shortlists, executed>>
  BY <1>3, MemoryLasts DEF SafeInv, MemoryInv, RecordUse, Skip
<1>5. CASE Answered("use", use) /\ handler' = [handler EXCEPT !.pc = pc]
  <2>1. /\ handler' \in HandlerType /\ handler'.pc = pc /\ handler'.op = handler.op
        /\ handler'.index = handler.index /\ handler'.need = handler.need
        /\ handler'.match = handler.match /\ handler.pc = "use"
    BY <1>5 DEF SafeInv, HandlerInv, HandlerType, RecordUse
  <2>2. Used(handler.match)'
    <3>1. use \in Entry /\ consent \in Seq(Entry) /\ consent' = Append(consent, use)
      BY <1>1, <1>5, UseType DEF SafeInv, RemoteInv, Answered, Receive
    <3>2. Len(consent) + 1 \in DOMAIN consent' /\ consent'[Len(consent) + 1] = use
      BY <3>1, AppendProperties
    <3> QED BY <2>1, <3>2 DEF Used
  <2>3. CASE handler.op = "booking"
    BY <1>1, <1>3, <1>4, <2>1, <2>2, <2>3, AdvanceIsSafe DEF SafeInv
  <2>4. CASE handler.op # "booking"
    BY <1>1, <1>3, <1>4, <2>1, <2>2, <2>4, AdvanceIsSafe DEF SafeInv
  <2> QED BY <2>3, <2>4
<1>6. CASE Skip
  BY <1>3, <1>4, <1>6, SkipIsSafe DEF SafeInv
<1> QED BY <1>5, <1>6 DEF RecordUse

LEMMA PostInstructionKeepsSafe == SafeInv /\ PostInstruction => SafeInv'
<1> SUFFICES ASSUME SafeInv, PostInstruction
             PROVE  SafeInv'
  OBVIOUS
<1>1. /\ handler.match \in Match /\ handler.match.need = handler.need
      /\ handler.match.env <= executed /\ Used(handler.match) /\ handler.op = "booking"
  BY DEF SafeInv, HandlerInv, Committing, PostInstruction
<1>2. Grounded("instruction", handler.match) /\ Posted("instruction", handler.match)
  BY <1>1, CallsPost DEF Grounded, Kinds, PostInstruction, Around
<1>3. RemoteInv' /\ Lasting
  BY <1>2, PostKeepsRemote DEF SafeInv
<1>4. MemoryInv' /\ UNCHANGED <<openNeeds, shortlists, executed>>
  BY <1>3, MemoryLasts DEF SafeInv, MemoryInv, PostInstruction, Skip
<1>5. CASE Answered("instruction", handler.match) /\ handler' = [handler EXCEPT !.pc = "order"]
  <2>1. /\ handler' \in HandlerType /\ handler'.pc = "order" /\ handler'.op = handler.op
        /\ handler'.index = handler.index /\ handler'.need = handler.need
        /\ handler'.match = handler.match /\ handler.pc = "instruct"
    BY <1>5 DEF SafeInv, HandlerInv, HandlerType, PostInstruction
  <2>2. Used(handler.match)' /\ handler.match \in instructions'
    BY <1>1, <1>3, <1>5, <2>1 DEF Lasting, Answered, Receive
  <2>3. HandlerInv'
    BY <1>1, <1>3, <1>4, <2>1, <2>2, AdvanceIsSafe
  <2> QED BY <1>3, <1>4, <2>3 DEF SafeInv
<1>6. CASE Skip
  BY <1>3, <1>4, <1>6, SkipIsSafe DEF SafeInv
<1> QED BY <1>5, <1>6 DEF PostInstruction

\* A shortlist takes its booking.
LEMMA BookedType ==
  ASSUME NEW s \in Seq(ShortlistType), NEW k \in DOMAIN s, NEW m \in Match
  PROVE  LET t == [s EXCEPT ![k].booking = m]
         IN  /\ t \in Seq(ShortlistType) /\ DOMAIN t = DOMAIN s
             /\ \A i \in DOMAIN s :
                  /\ t[i].env = s[i].env
                  /\ t[i].booking = IF i = k THEN m ELSE s[i].booking
<1> DEFINE t == [s EXCEPT ![k].booking = m]
           b == [s[k] EXCEPT !.booking = m]
<1>1. s[k] \in ShortlistType
  OBVIOUS
<1>2. b \in ShortlistType /\ b.env = s[k].env /\ b.booking = m
  BY <1>1 DEF ShortlistType
<1>3. t = [s EXCEPT ![k] = b]
  OBVIOUS
<1> HIDE DEF b
<1>4. t \in Seq(ShortlistType) /\ DOMAIN t = DOMAIN s
      /\ \A i \in DOMAIN s : t[i] = IF i = k THEN b ELSE s[i]
  BY <1>2, <1>3, ExceptSeq
<1> QED BY <1>2, <1>4

LEMMA CreateOrderKeepsSafe == SafeInv /\ CreateOrder => SafeInv'
<1> SUFFICES ASSUME SafeInv, CreateOrder
             PROVE  SafeInv'
  OBVIOUS
<1>1. /\ handler.match \in Match /\ handler.match.need = handler.need /\ Used(handler.match)
      /\ handler.op = "booking" => handler.match \in instructions
      /\ handler.op # "booking" => handler.need \in AutoClose
      /\ handler.op \in {"need", "cycle", "booking"}
  BY DEF SafeInv, HandlerInv, HandlerType, Committing, CreateOrder
<1>2. Grounded("order", handler.match) /\ Posted("order", handler.match)
  BY <1>1, CallsPost DEF Grounded, Kinds, CreateOrder, Around
<1>3. RemoteInv' /\ Lasting
  BY <1>2, PostKeepsRemote DEF SafeInv
<1>4. CASE Skip /\ UNCHANGED recorded
  <2>1. MemoryInv'
    BY <1>3, <1>4, MemoryLasts DEF SafeInv, MemoryInv, CreateOrder, Skip
  <2> QED BY <1>3, <1>4, <2>1, SkipIsSafe DEF SafeInv
<1>5. CASE /\ Answered("order", handler.match) /\ recorded' = recorded \cup {handler.match}
           /\ \/ /\ handler.op = "booking" /\ handler' = Idle /\ UNCHANGED openNeeds
                 /\ shortlists' = [shortlists EXCEPT ![handler.index].booking = handler.match]
              \/ handler.op # "booking" /\ Served /\ UNCHANGED shortlists
  <2>1. recorded' \subseteq DOMAIN orders' /\ executed' = executed
    <3>1. DOMAIN orders' = DOMAIN orders \cup {handler.match}
      BY <1>1, <1>5, OrderReceived DEF SafeInv, Answered
    <3> QED BY <1>5, <3>1 DEF SafeInv, MemoryInv, CreateOrder
  <2>2. CASE /\ handler.op = "booking" /\ handler' = Idle /\ UNCHANGED openNeeds
             /\ shortlists' = [shortlists EXCEPT ![handler.index].booking = handler.match]
    <3>1. handler.index \in DOMAIN shortlists
      BY <2>2 DEF SafeInv, HandlerInv
    <3>2. /\ shortlists' \in Seq(ShortlistType) /\ DOMAIN shortlists' = DOMAIN shortlists
          /\ \A i \in DOMAIN shortlists :
               /\ shortlists'[i].env = shortlists[i].env
               /\ shortlists'[i].booking = IF i = handler.index THEN handler.match
                                           ELSE shortlists[i].booking
      BY <1>1, <2>2, <3>1, BookedType DEF SafeInv, MemoryInv
    <3>3. MemoryInv'
      BY <1>5, <2>1, <2>2, <3>2 DEF SafeInv, MemoryInv
    <3> QED BY <1>3, <2>2, <3>3, IdleIsSafe DEF SafeInv
  <2>3. CASE handler.op # "booking" /\ Served /\ UNCHANGED shortlists
    <3>1. openNeeds' \in Seq(AutoClose) /\ IsInjective(openNeeds') /\ HandlerInv'
      BY <1>1, <2>3, ServedIsSafe DEF SafeInv
    <3>2. MemoryInv'
      BY <1>5, <2>1, <2>3, <3>1 DEF SafeInv, MemoryInv
    <3> QED BY <1>3, <3>1, <3>2 DEF SafeInv
  <2> QED BY <1>5, <2>2, <2>3
<1> QED BY <1>4, <1>5 DEF CreateOrder

LEMMA CrashKeepsSafe == SafeInv /\ CrashCoordinator => SafeInv'
<1> SUFFICES ASSUME SafeInv, CrashCoordinator
             PROVE  SafeInv'
  OBVIOUS
<1>1. RemoteInv'
  BY QuietKeepsRemote DEF SafeInv, CrashCoordinator
<1>2. MemoryInv'
  BY DEF SafeInv, MemoryInv, CrashCoordinator, IsInjective
<1> QED BY <1>1, <1>2, IdleIsSafe DEF SafeInv, CrashCoordinator

\* What the coordinator does not notice.
LEMMA UnnoticedIsSafe ==
  ASSUME SafeInv, RemoteInv', Lasting, UNCHANGED <<coordinator, executed>>
  PROVE  SafeInv'
<1>1. MemoryInv'
  BY MemoryLasts DEF SafeInv, MemoryInv, coordinator
<1>2. HandlerInv'
  BY HandlerLasts DEF SafeInv, coordinator
<1> QED BY <1>1, <1>2 DEF SafeInv

LEMMA ShopKeepsSafe ==
  ASSUME SafeInv,
         \/ \E o \in Offer : Publish(o) \/ \E out \in BOOLEAN : SetStock(o, out)
         \/ DropEvent \/ UNCHANGED vars
  PROVE  SafeInv'
<1>1. /\ UNCHANGED <<coordinator, executed>> /\ UNCHANGED <<ledger, orders, late>>
      /\ published' \subseteq Offer /\ outOfStock' \subseteq Offer /\ events' \in 0 .. MaxEvents
  <2>1. CASE \E o \in Offer : Publish(o) \/ \E out \in BOOLEAN : SetStock(o, out)
    BY <2>1 DEF Publish, SetStock, SafeInv, RemoteInv
  <2>2. CASE DropEvent \/ UNCHANGED vars
    BY <2>2 DEF DropEvent, vars, seller, SafeInv, RemoteInv
  <2> QED BY <2>1, <2>2
<1>2. RemoteInv' /\ Lasting
  BY <1>1, ShopKeepsRemote DEF SafeInv
<1> QED BY <1>1, <1>2, UnnoticedIsSafe

\* An order moves on, and its settlement first.
LEMMA OrderMovesKeepSafe ==
  ASSUME SafeInv, NEW m \in DOMAIN orders, Provision(m) \/ Fulfil(m)
  PROVE  SafeInv'
<1>1. UNCHANGED <<coordinator, executed, consent, instructions, published, outOfStock, events, late>>
  BY DEF Provision, Fulfil, ledger
<1>2. /\ DOMAIN orders' = DOMAIN orders
      /\ orders' \in [DOMAIN orders -> {"committed", "provisioning", "settled"}]
  BY DEF Provision, Fulfil, SafeInv, RemoteInv
<1>3. Lasting
  BY <1>1, <1>2, SameLasts
<1>4. \A k \in DOMAIN orders : /\ orders'[k] = "settled" => k \in confirmed'
                               /\ k \in confirmed' => orders'[k] # "committed"
  BY DEF Provision, Fulfil, SafeInv, RemoteInv, ledger
<1>5. confirmed' \subseteq DOMAIN orders'
  BY <1>2 DEF Provision, Fulfil, SafeInv, RemoteInv, ledger
<1>6. \A call \in late' : Grounded(call.kind, call.what)'
  BY <1>1, <1>3, GroundedLasts DEF SafeInv, RemoteInv
<1>7. RemoteInv'
  BY <1>1, <1>2, <1>3, <1>4, <1>5, <1>6 DEF SafeInv, RemoteInv, Lasting
<1> QED BY <1>1, <1>3, <1>7, UnnoticedIsSafe

LEMMA LateKeepsSafe ==
  ASSUME SafeInv, NEW call \in late, LateArrives(call)
  PROVE  SafeInv'
<1>1. Grounded(call.kind, call.what) /\ Posted(call.kind, call.what)
  BY DEF SafeInv, RemoteInv, LateArrives, Posted, Around
<1>2. RemoteInv' /\ Lasting
  BY <1>1, PostKeepsRemote DEF SafeInv
<1> QED BY <1>2, UnnoticedIsSafe DEF LateArrives

LEMMA InitIsSafe == Init => SafeInv
BY IdleType DEF Init, SafeInv, RemoteInv, MemoryInv, HandlerInv, Committing, IsInjective

LEMMA NextKeepsSafe == SafeInv /\ [Next]_vars => SafeInv'
BY StateNeedKeepsSafe, BookKeepsSafe, SetConsentKeepsSafe, OfferPublishedKeepsSafe,
   ConsentGateKeepsSafe, FetchCatalogKeepsSafe, DispatchFailsKeepsSafe, NoFittingOfferKeepsSafe,
   ShortlistKeepsSafe, CloseMatchKeepsSafe, RecordUseKeepsSafe, PostInstructionKeepsSafe,
   CreateOrderKeepsSafe, CrashKeepsSafe, ShopKeepsSafe, OrderMovesKeepSafe, LateKeepsSafe
   DEF Next

LEMMA SafeInvHolds == Spec => []SafeInv
BY InitIsSafe, NextKeepsSafe, PTL DEF Spec

\* Types of all that the coordinator, the ledger and the seller keep.
THEOREM TypeCorrect == Spec => []TypeOK
<1>1. SafeInv => TypeOK
  <2> SUFFICES ASSUME SafeInv
               PROVE  TypeOK
    OBVIOUS
  <2>1. \A i \in DOMAIN shortlists :
          shortlists[i] \in [env : 1 .. executed, need : Need, entries : SUBSET Offer,
                             booking : Match \cup {NoMatch}]
    <3> TAKE i \in DOMAIN shortlists
    <3>1. shortlists[i] \in ShortlistType /\ shortlists[i].env <= executed /\ executed \in Nat
      BY DEF SafeInv, MemoryInv
    <3> QED BY <3>1 DEF ShortlistType
  <2>2. \A i \in DOMAIN consent : consent[i] \in Entry
    BY DEF SafeInv, RemoteInv
  <2>3. recorded \subseteq Match /\ confirmed \subseteq Match
    BY DEF SafeInv, RemoteInv, MemoryInv
  <2> QED BY <2>1, <2>2, <2>3
          DEF TypeOK, SafeInv, RemoteInv, MemoryInv, HandlerInv, HandlerType, Entry, Changed
<1> QED BY <1>1, SafeInvHolds, PTL

\* Evidence first, however calls fail, come late and are repeated.
THEOREM EvidenceComesFirst == Spec => []EvidenceFirst
<1>1. SafeInv => EvidenceFirst
  BY DEF SafeInv, RemoteInv, MemoryInv, EvidenceFirst
<1> QED BY <1>1, SafeInvHolds, PTL

\* Orders the buyer is told of are at the seller, bookings can be settled.
THEOREM WhatIsToldIsBacked == Spec => []RecordedIsBacked
<1>1. SafeInv => RecordedIsBacked
  BY DEF SafeInv, RemoteInv, MemoryInv, RecordedIsBacked
<1> QED BY <1>1, SafeInvHolds, PTL

\* The ledger confirms before the seller settles, and only what was provisioned.
THEOREM ConfirmedBeforeSettled == Spec => []SettledIsConfirmed
<1>1. SafeInv => SettledIsConfirmed
  BY DEF SafeInv, RemoteInv, SettledIsConfirmed
<1> QED BY <1>1, SafeInvHolds, PTL

-----------------------------------------------------------------------------
LEMMA PrefixOfAppend ==
  ASSUME NEW S, NEW s \in Seq(S), NEW x \in S, NEW k \in 0 .. Len(s)
  PROVE  SubSeq(Append(s, x), 1, k) = SubSeq(s, 1, k)
<1>1. /\ Append(s, x) \in Seq(S)
      /\ Len(Append(s, x)) = Len(s) + 1 /\ \A i \in 1 .. Len(s) : Append(s, x)[i] = s[i]
  BY AppendProperties
<1>2. \A i \in 1 .. k : Append(s, x)[i] \in S /\ s[i] \in S
  BY <1>1
<1> QED BY <1>1, <1>2, SubSeqProperties, SeqEqual

\* A chain stays allowed after an entry that is.
LEMMA AllowedAfter ==
  ASSUME consent \in Seq(Entry), UsesAreAllowed, NEW x \in Entry, consent' = Append(consent, x),
         x.action = "use" => Granted(consent, x.subject)
  PROVE  UsesAreAllowed'
<1>1. /\ DOMAIN consent = 1 .. Len(consent) /\ DOMAIN consent' = 1 .. Len(consent) + 1
      /\ Len(consent) \in Nat /\ consent'[Len(consent) + 1] = x
      /\ \A i \in 1 .. Len(consent) : consent'[i] = consent[i]
  BY AppendProperties
<1>2. ASSUME NEW i \in DOMAIN consent', consent'[i].action = "use"
      PROVE  Granted(SubSeq(consent', 1, i - 1), consent'[i].subject)
  <2>1. i \in 1 .. Len(consent) + 1 /\ i - 1 \in 0 .. Len(consent)
    BY <1>1
  <2>2. SubSeq(consent', 1, i - 1) = SubSeq(consent, 1, i - 1)
    BY <2>1, PrefixOfAppend
  <2>3. CASE i = Len(consent) + 1
    <3>1. SubSeq(consent, 1, i - 1) = consent
      BY <1>1, <2>3, SubSeqFull
    <3> QED BY <1>1, <1>2, <2>2, <2>3, <3>1
  <2>4. CASE i \in 1 .. Len(consent)
    BY <1>1, <1>2, <2>2, <2>4 DEF UsesAreAllowed
  <2> QED BY <2>1, <2>3, <2>4
<1> QED BY <1>2 DEF UsesAreAllowed

\* Nobody writes consent while a handler is past its gate.
LEMMA QuietKeepsAllowed ==
  ASSUME AllowedInv, UNCHANGED consent,
         \/ handler'.pc \in {"idle", "gate", "instruct", "order"}
         \/ handler.pc \in {"fetch", "dispatch", "use"} /\ handler'.need = handler.need
  PROVE  AllowedInv'
BY DEF AllowedInv, UsesAreAllowed

LEMMA SetConsentKeepsAllowed ==
  ASSUME PromptConsent, SafeInv, SafeInv', AllowedInv,
         NEW s \in Subject, NEW a \in {"grant", "revoke"}, SetConsent(s, a)
  PROVE  AllowedInv'
<1>1. Change(s, a) \in Entry /\ Change(s, a).action # "use"
  BY DEF Entry, Changed, Change
<1>2. handler'.pc \in {"idle", "gate"}
  <2>1. handler' = Idle \/ (handler' = CycleAt(openNeeds', 1) /\ openNeeds' \in Seq(AutoClose))
    BY DEF SetConsent, SafeInv, MemoryInv
  <2> QED BY <2>1, CycleType, IdleType
<1>3. consent' = consent \/ consent' = Append(consent, Change(s, a))
  BY DEF SetConsent, Answered, Fails, Receive
<1>4. CASE consent' = consent
  BY <1>2, <1>4, QuietKeepsAllowed
<1>5. CASE consent' = Append(consent, Change(s, a))
  BY <1>1, <1>2, <1>5, AllowedAfter DEF AllowedInv, SafeInv, RemoteInv
<1> QED BY <1>3, <1>4, <1>5

LEMMA RecordUseKeepsAllowed == SafeInv /\ AllowedInv /\ RecordUse => AllowedInv'
<1> SUFFICES ASSUME SafeInv, AllowedInv, RecordUse
             PROVE  AllowedInv'
  OBVIOUS
<1> DEFINE use == Use(handler.match)
<1>1. use \in Entry /\ use.subject = Owner[handler.need]
  BY UseType DEF SafeInv, HandlerInv, Committing, RecordUse, Use
<1>2. handler'.pc \in {"idle", "gate", "instruct", "order"}
  BY SkipIsSafe DEF SafeInv, HandlerInv, HandlerType, RecordUse
<1>3. consent' = consent \/ consent' = Append(consent, use)
  BY DEF RecordUse, Answered, Fails, Receive
<1>4. Granted(consent, Owner[handler.need])
  BY DEF AllowedInv, RecordUse
<1> HIDE DEF use
<1>5. CASE consent' = consent
  BY <1>2, <1>5, QuietKeepsAllowed
<1>6. CASE consent' = Append(consent, use)
  BY <1>1, <1>2, <1>4, <1>6, AllowedAfter DEF AllowedInv, SafeInv, RemoteInv
<1> QED BY <1>3, <1>5, <1>6

LEMMA HandlersKeepAllowed ==
  ASSUME SafeInv, AllowedInv,
         \/ \E n \in Need : StateNeed(n)
         \/ \E i \in DOMAIN shortlists, o \in Offer : Book(i, o)
         \/ OfferPublished \/ DispatchFails \/ NoFittingOffer \/ Shortlist
         \/ PostInstruction \/ CreateOrder \/ CrashCoordinator
  PROVE  AllowedInv'
<1>1. UNCHANGED consent
  BY DEF StateNeed, Book, OfferPublished, DispatchFails, NoFittingOffer, Shortlist, PostInstruction,
         CreateOrder, CrashCoordinator, ledger, Answered, Fails, Receive
<1>2. CASE \/ \E n \in Need : StateNeed(n)
           \/ \E i \in DOMAIN shortlists, o \in Offer : Book(i, o)
           \/ CrashCoordinator
  BY <1>1, <1>2, IdleType, QuietKeepsAllowed DEF StateNeed, Book, CrashCoordinator, Idle
<1>3. CASE OfferPublished
  <2>1. handler' = CycleAt(openNeeds, 1) /\ openNeeds \in Seq(AutoClose)
    BY <1>3 DEF OfferPublished, SafeInv, MemoryInv
  <2> QED BY <1>1, <2>1, CycleType, IdleType, QuietKeepsAllowed
<1>4. CASE DispatchFails
  BY <1>1, <1>4, SkipIsSafe, QuietKeepsAllowed DEF DispatchFails, SafeInv
<1>5. CASE NoFittingOffer
  <2>1. handler.index + 1 \in Nat \ {0} /\ openNeeds \in Seq(AutoClose)
    BY DEF SafeInv, HandlerInv, HandlerType, MemoryInv
  <2>2. handler' = Idle \/ handler' = CycleAt(openNeeds, handler.index + 1)
    BY <1>5 DEF NoFittingOffer
  <2> QED BY <1>1, <2>1, <2>2, CycleType, IdleType, QuietKeepsAllowed
<1>6. CASE Shortlist
  <2>1. handler.op \in {"need", "cycle"}
    BY <1>6 DEF SafeInv, HandlerInv, HandlerType, Shortlist
  <2> QED BY <1>1, <1>6, <2>1, ServedIsSafe, QuietKeepsAllowed DEF Shortlist, SafeInv
<1>7. CASE PostInstruction
  BY <1>1, <1>7, SkipIsSafe, QuietKeepsAllowed DEF PostInstruction, SafeInv, HandlerInv, HandlerType
<1>8. CASE CreateOrder
  <2>1. handler.op \in {"need", "cycle", "booking"}
    BY <1>8 DEF SafeInv, HandlerInv, HandlerType, CreateOrder
  <2>2. handler'.pc \in {"idle", "gate"}
    BY <1>8, <2>1, SkipIsSafe, ServedIsSafe, IdleType DEF CreateOrder, SafeInv
  <2> QED BY <1>1, <2>2, QuietKeepsAllowed
<1> QED BY <1>2, <1>3, <1>4, <1>5, <1>6, <1>7, <1>8

LEMMA GateKeepsAllowed ==
  ASSUME SafeInv, AllowedInv,
         ConsentGate \/ FetchCatalog \/ \E o \in Offer : CloseMatch(o)
  PROVE  AllowedInv'
<1>1. UNCHANGED consent
  BY DEF ConsentGate, FetchCatalog, CloseMatch, ledger, Answered, Fails, Receive
<1>2. CASE ConsentGate
  <2>1. CASE Skip
    BY <1>1, <2>1, SkipIsSafe, QuietKeepsAllowed DEF SafeInv
  <2>2. CASE Granted(consent, Owner[handler.need]) /\ handler'.need = handler.need
    BY <1>1, <2>2 DEF AllowedInv, UsesAreAllowed
  <2> QED BY <1>2, <2>1, <2>2 DEF ConsentGate, SafeInv, HandlerInv, HandlerType
<1>3. CASE FetchCatalog \/ \E o \in Offer : CloseMatch(o)
  <2>1. CASE Skip
    BY <1>1, <2>1, SkipIsSafe, QuietKeepsAllowed DEF SafeInv
  <2>2. CASE handler.pc \in {"fetch", "dispatch"} /\ handler'.need = handler.need
    BY <1>1, <2>2, QuietKeepsAllowed
  <2> QED BY <1>3, <2>1, <2>2 DEF FetchCatalog, CloseMatch, SafeInv, HandlerInv, HandlerType
<1> QED BY <1>2, <1>3

LEMMA OutsideKeepsAllowed ==
  ASSUME PromptConsent, SafeInv, AllowedInv,
         \/ \E o \in Offer : Publish(o) \/ \E out \in BOOLEAN : SetStock(o, out)
         \/ DropEvent \/ UNCHANGED vars
         \/ \E m \in DOMAIN orders : Provision(m) \/ Fulfil(m)
         \/ \E call \in late : LateArrives(call)
  PROVE  AllowedInv'
<1>1. UNCHANGED handler
  BY DEF Publish, SetStock, DropEvent, vars, Provision, Fulfil, LateArrives, coordinator
<1>2. UNCHANGED consent
  <2>1. CASE \E call \in late : LateArrives(call)
    <3>1. \A call \in late : call.kind \in Kinds \ {"consent", "use"}
      BY DEF PromptConsent, SafeInv, RemoteInv, Grounded
    <3> QED BY <2>1, <3>1 DEF LateArrives, Receive, Kinds
  <2> QED BY <2>1 DEF Publish, SetStock, DropEvent, vars, Provision, Fulfil, ledger
<1> QED BY <1>1, <1>2 DEF AllowedInv, UsesAreAllowed

\* The auditor finds no use after a revoke, unless a consent or a use is
\* written after its caller gave it up.
THEOREM PromptUsesAreAllowed == PromptConsent => (Spec => []UsesAreAllowed)
<1> SUFFICES ASSUME PromptConsent
             PROVE  Spec => []UsesAreAllowed
  OBVIOUS
<1>1. Init => AllowedInv
  BY IdleType DEF Init, AllowedInv, UsesAreAllowed
<1>2. SafeInv /\ SafeInv' /\ AllowedInv /\ [Next]_vars => AllowedInv'
  BY SetConsentKeepsAllowed, RecordUseKeepsAllowed, HandlersKeepAllowed, GateKeepsAllowed,
     OutsideKeepsAllowed
     DEF Next
<1>3. AllowedInv => UsesAreAllowed
  BY DEF AllowedInv
<1> QED BY <1>1, <1>2, <1>3, SafeInvHolds, PTL DEF Spec

-----------------------------------------------------------------------------
\* Without failures: nothing is abandoned, and only the gate turns back.
Calm == ~ Faulty /\ late = {}

OnceSafe == Calm /\ SafeInv /\ OnceInv

\* No order, no shortlist and no environment is new, and no match is in hand.
LEMMA QuietKeepsOnce ==
  ASSUME OnceInv, DOMAIN orders' = DOMAIN orders, UNCHANGED <<shortlists, executed>>,
         handler' = handler \/ handler'.pc \in {"idle", "gate", "fetch", "dispatch"}
  PROVE  OnceInv'
BY DEF OnceInv, OneOrderPerShortlist, Committing

\* The match in hand stays the same.
LEMMA SameMatchKeepsOnce ==
  ASSUME OnceInv, Committing, DOMAIN orders' = DOMAIN orders, UNCHANGED <<shortlists, executed>>,
         handler'.match = handler.match, handler'.op = handler.op
  PROVE  OnceInv'
BY DEF OnceInv, OneOrderPerShortlist, Committing

LEMMA CalmCalls ==
  ASSUME Calm, NEW kind, NEW x
  PROVE  ~ Fails(kind, x)
BY DEF Calm, Fails

\* Where the handler's steps lead while there are no orders.
LEMMA WaysBack ==
  ASSUME MemoryInv, HandlerInv
  PROVE  /\ Skip => handler'.pc \in {"idle", "gate"}
         /\ Served /\ handler.op \in {"need", "cycle"} => handler'.pc \in {"idle", "gate"}
         /\ \A i \in Nat \ {0} : CycleAt(openNeeds, i).pc \in {"idle", "gate"}
         /\ handler.index + 1 \in Nat \ {0}
<1>1. openNeeds \in Seq(AutoClose) /\ handler.index \in Nat
  BY DEF MemoryInv, HandlerInv, HandlerType
<1> QED BY <1>1, SkipIsSafe, ServedIsSafe, CycleType, IdleType

LEMMA RequestsKeepOnce ==
  ASSUME OnceSafe,
         \/ \E n \in Need : StateNeed(n)
         \/ \E i \in DOMAIN shortlists, o \in Offer : Book(i, o)
         \/ \E s \in Subject, a \in {"grant", "revoke"} : SetConsent(s, a)
         \/ OfferPublished \/ FetchCatalog \/ NoFittingOffer
  PROVE  OnceInv'
<1>1. DOMAIN orders' = DOMAIN orders /\ UNCHANGED <<shortlists, executed>>
  BY DEF StateNeed, Book, SetConsent, OfferPublished, FetchCatalog, NoFittingOffer, Skip, seller,
         Answered, Fails, Receive
<1>2. handler' = handler \/ handler'.pc \in {"idle", "gate", "fetch", "dispatch"}
  <2>1. CASE \/ \E n \in Need : StateNeed(n)
             \/ \E i \in DOMAIN shortlists, o \in Offer : Book(i, o)
    BY <2>1 DEF StateNeed, Book, Idle
  <2>2. CASE \/ \E s \in Subject, a \in {"grant", "revoke"} : SetConsent(s, a)
             \/ OfferPublished \/ NoFittingOffer
    <3>1. MemoryInv /\ HandlerInv
      BY DEF OnceSafe, SafeInv
    <3>2. \/ handler' = handler \/ handler' = Idle
          \/ handler' = CycleAt(openNeeds, 1) \/ handler' = CycleAt(openNeeds, handler.index + 1)
      BY <2>2 DEF SetConsent, OfferPublished, NoFittingOffer
    <3> QED BY <3>1, <3>2, WaysBack, IdleType
  <2>3. CASE FetchCatalog
    BY <2>3, WaysBack DEF FetchCatalog, OnceSafe, SafeInv, HandlerInv, HandlerType
  <2> QED BY <2>1, <2>2, <2>3
<1> QED BY <1>1, <1>2, QuietKeepsOnce DEF OnceSafe

\* A booking starts from a shortlist that has none, hence has no order.
LEMMA ConsentGateKeepsOnce == OnceSafe /\ ConsentGate => OnceInv'
<1> SUFFICES ASSUME OnceSafe, ConsentGate
             PROVE  OnceInv'
  OBVIOUS
<1>1. DOMAIN orders' = DOMAIN orders /\ UNCHANGED <<shortlists, executed>>
  BY DEF ConsentGate, Skip, seller
<1>2. CASE Skip
  BY <1>1, <1>2, WaysBack, QuietKeepsOnce DEF OnceSafe, SafeInv
<1>3. CASE handler.op # "booking" /\ handler' = [handler EXCEPT !.pc = "fetch"]
  BY <1>1, <1>3, QuietKeepsOnce DEF OnceSafe, SafeInv, HandlerInv, HandlerType
<1>4. CASE handler.op = "booking" /\ handler' = [handler EXCEPT !.pc = "use"]
  <2>1. handler'.match = handler.match /\ handler'.op = "booking"
    BY <1>4 DEF OnceSafe, SafeInv, HandlerInv, HandlerType
  <2>2. \A m \in DOMAIN orders : m.env # handler.match.env
    BY <1>4 DEF OnceSafe, SafeInv, HandlerInv, OnceInv
  <2> QED BY <1>1, <2>1, <2>2 DEF OnceSafe, OnceInv, OneOrderPerShortlist, Committing
<1> QED BY <1>2, <1>3, <1>4 DEF ConsentGate

LEMMA ShortlistKeepsOnce == OnceSafe /\ Shortlist => OnceInv'
<1> SUFFICES ASSUME OnceSafe, Shortlist
             PROVE  OnceInv'
  OBVIOUS
<1> DEFINE new == [env |-> executed', need |-> handler.need, entries |-> Qualifying,
                   booking |-> NoMatch]
<1>1. /\ new \in ShortlistType /\ new.env = executed' /\ executed' = executed + 1 /\ executed \in Nat
      /\ shortlists' = Append(shortlists, new) /\ shortlists \in Seq(ShortlistType)
      /\ UNCHANGED orders
  BY DEF Shortlist, OnceSafe, SafeInv, MemoryInv, HandlerInv, HandlerType, ShortlistType, Qualifying,
         seller
<1> HIDE DEF new
<1>2. handler'.pc \in {"idle", "gate"}
  BY WaysBack DEF Shortlist, OnceSafe, SafeInv, HandlerInv, HandlerType
<1>3. /\ DOMAIN shortlists = 1 .. Len(shortlists) /\ DOMAIN shortlists' = 1 .. Len(shortlists) + 1
      /\ Len(shortlists) \in Nat /\ shortlists'[Len(shortlists) + 1] = new
      /\ \A i \in 1 .. Len(shortlists) : shortlists'[i] = shortlists[i]
  BY <1>1, AppendProperties
<1>4. \A i \in DOMAIN shortlists : shortlists[i].env \in Nat /\ shortlists[i].env <= executed
  <2> TAKE i \in DOMAIN shortlists
  <2>1. shortlists[i] \in ShortlistType
    BY <1>1
  <2> QED BY <2>1 DEF OnceSafe, SafeInv, MemoryInv, ShortlistType
<1>5. \A m \in DOMAIN orders : m.env \in Nat /\ m.env <= executed
  BY DEF OnceSafe, OnceInv, SafeInv, RemoteInv, Match
<1>6. \A i, j \in DOMAIN shortlists' : shortlists'[i].env = shortlists'[j].env => i = j
  BY <1>1, <1>3, <1>4 DEF OnceSafe, OnceInv
<1>7. \A m \in DOMAIN orders', i \in DOMAIN shortlists' :
        m.env = shortlists'[i].env => shortlists'[i].booking # NoMatch
  BY <1>1, <1>3, <1>5 DEF OnceSafe, OnceInv
<1>8. \A m \in DOMAIN orders' : m.env <= executed'
  BY <1>1, <1>5
<1> QED BY <1>1, <1>2, <1>6, <1>7, <1>8 DEF OnceSafe, OnceInv, OneOrderPerShortlist, Committing

LEMMA CloseMatchKeepsOnce ==
  ASSUME OnceSafe, NEW o \in Offer, CloseMatch(o)
  PROVE  OnceInv'
<1> DEFINE m == [env |-> executed', offer |-> o, need |-> handler.need]
<1>1. /\ handler'.pc = "use" /\ handler'.match = m /\ m.env = executed'
      /\ executed' = executed + 1 /\ executed \in Nat /\ UNCHANGED <<orders, shortlists>>
  <2>1. handler' = [handler EXCEPT !.pc = "use", !.match = m] /\ handler \in HandlerType
        /\ UNCHANGED shortlists /\ executed' = executed + 1 /\ Answered("instruction", m)
    BY CalmCalls DEF CloseMatch, OnceSafe, Calm, SafeInv, HandlerInv
  <2>2. UNCHANGED orders /\ executed \in Nat
    BY <2>1 DEF Answered, Receive, OnceSafe, SafeInv, MemoryInv
  <2> QED BY <2>1, <2>2 DEF HandlerType
<1>2. \A k \in DOMAIN orders : k.env \in Nat /\ k.env <= executed
  BY DEF OnceSafe, OnceInv, SafeInv, RemoteInv, Match
<1>3. \A i \in DOMAIN shortlists : shortlists[i].env \in Nat /\ shortlists[i].env <= executed
  <2> TAKE i \in DOMAIN shortlists
  <2>1. shortlists[i] \in ShortlistType
    BY DEF OnceSafe, SafeInv, MemoryInv
  <2> QED BY <2>1 DEF OnceSafe, SafeInv, MemoryInv, ShortlistType
<1> HIDE DEF m
<1>4. /\ \A k \in DOMAIN orders : k.env # executed' /\ k.env <= executed'
      /\ \A i \in DOMAIN shortlists : shortlists[i].env # executed'
  BY <1>1, <1>2, <1>3
<1> QED BY <1>1, <1>4 DEF OnceSafe, OnceInv, OneOrderPerShortlist, Committing

LEMMA EvidenceKeepsOnce == OnceSafe /\ (RecordUse \/ PostInstruction) => OnceInv'
<1> SUFFICES ASSUME OnceSafe, RecordUse \/ PostInstruction
             PROVE  OnceInv'
  OBVIOUS
<1>1. UNCHANGED <<orders, shortlists, executed>> /\ Committing
      /\ handler'.match = handler.match /\ handler'.op = handler.op
  BY CalmCalls DEF RecordUse, PostInstruction, OnceSafe, SafeInv, HandlerInv, HandlerType, Answered,
                   Receive, Committing
<1> QED BY <1>1, SameMatchKeepsOnce DEF OnceSafe

\* The order is the first of its environment.
LEMMA CreateOrderKeepsOnce == OnceSafe /\ CreateOrder => OnceInv'
<1> SUFFICES ASSUME OnceSafe, CreateOrder
             PROVE  OnceInv'
  OBVIOUS
<1>1. /\ Committing /\ handler.match \in Match /\ handler.match.env <= executed
      /\ handler.op \in {"need", "cycle", "booking"} /\ executed' = executed
      /\ Answered("order", handler.match)
  BY CalmCalls DEF CreateOrder, Committing, OnceSafe, SafeInv, HandlerInv, HandlerType
<1>2. DOMAIN orders' = DOMAIN orders \cup {handler.match}
  BY <1>1, OrderReceived DEF Answered, OnceSafe, SafeInv
<1>3. OneOrderPerShortlist' /\ \A m \in DOMAIN orders' : m.env <= executed'
  BY <1>1, <1>2 DEF OnceSafe, OnceInv, OneOrderPerShortlist
<1>4. CASE /\ handler.op = "booking" /\ handler' = Idle
           /\ shortlists' = [shortlists EXCEPT ![handler.index].booking = handler.match]
  <2>1. /\ handler.index \in DOMAIN shortlists /\ shortlists \in Seq(ShortlistType)
        /\ handler.match.env = shortlists[handler.index].env
    BY <1>4 DEF OnceSafe, SafeInv, HandlerInv, MemoryInv
  <2>2. /\ DOMAIN shortlists' = DOMAIN shortlists
        /\ \A i \in DOMAIN shortlists :
             /\ shortlists'[i].env = shortlists[i].env
             /\ shortlists'[i].booking = IF i = handler.index THEN handler.match
                                         ELSE shortlists[i].booking
    BY <1>1, <1>4, <2>1, BookedType
  <2>3. ~ Committing'
    BY <1>4, IdleType DEF Committing
  <2>4. handler.match # NoMatch
    BY <1>1
  <2>5. \A m \in DOMAIN orders', i \in DOMAIN shortlists' :
          m.env = shortlists'[i].env => shortlists'[i].booking # NoMatch
    BY <1>2, <2>1, <2>2, <2>4 DEF OnceSafe, OnceInv
  <2> QED BY <1>3, <2>2, <2>3, <2>5 DEF OnceSafe, OnceInv
<1>5. CASE handler.op # "booking" /\ Served /\ UNCHANGED shortlists
  <2>1. ~ Committing'
    BY <1>1, <1>5, WaysBack DEF Committing, OnceSafe, SafeInv
  <2> QED BY <1>1, <1>2, <1>3, <1>5, <2>1 DEF OnceSafe, OnceInv
<1> QED BY <1>1, <1>4, <1>5, CalmCalls DEF CreateOrder, OnceSafe

LEMMA OutsideKeepsOnce ==
  ASSUME OnceSafe,
         \/ \E o \in Offer : Publish(o) \/ \E out \in BOOLEAN : SetStock(o, out)
         \/ DropEvent \/ UNCHANGED vars
         \/ \E m \in DOMAIN orders : Provision(m) \/ Fulfil(m)
  PROVE  OnceInv'
<1>1. UNCHANGED <<handler, shortlists, executed>> /\ DOMAIN orders' = DOMAIN orders
  BY DEF Publish, SetStock, DropEvent, vars, Provision, Fulfil, coordinator, seller
<1> QED BY <1>1, QuietKeepsOnce DEF OnceSafe

\* Nothing fails, so nothing is abandoned.
LEMMA CalmStays ==
  ASSUME Calm, [Next]_vars
  PROVE  /\ Calm' /\ ~ DispatchFails /\ ~ CrashCoordinator /\ ~ DropEvent
         /\ ~ \E call \in late : LateArrives(call)
<1>1. ~ DispatchFails /\ ~ CrashCoordinator /\ ~ DropEvent /\ ~ \E call \in late : LateArrives(call)
  BY DEF Calm, DispatchFails, CrashCoordinator, DropEvent
<1>2. UNCHANGED late
  BY <1>1, CalmCalls
     DEF Next, vars, StateNeed, Book, SetConsent, OfferPublished, ConsentGate, FetchCatalog,
         NoFittingOffer, Shortlist, CloseMatch, RecordUse, PostInstruction, CreateOrder, Publish,
         SetStock, Provision, Fulfil, Answered
<1> QED BY <1>1, <1>2 DEF Calm

LEMMA CalmHolds == ~ Faulty => (Spec => []Calm)
<1> SUFFICES ASSUME ~ Faulty
             PROVE  Spec => []Calm
  OBVIOUS
<1>1. Init => Calm
  BY DEF Init, Calm
<1>2. Calm /\ [Next]_vars => Calm'
  BY CalmStays
<1> QED BY <1>1, <1>2, PTL DEF Spec

LEMMA NextKeepsOnce == OnceSafe /\ [Next]_vars => OnceInv'
BY CalmStays, RequestsKeepOnce, ConsentGateKeepsOnce, ShortlistKeepsOnce, CloseMatchKeepsOnce,
   EvidenceKeepsOnce, CreateOrderKeepsOnce, OutsideKeepsOnce
   DEF Next, OnceSafe

\* Without failures, one shortlist commits to one of its offers.
THEOREM ShortlistOrderedOnce == ~ Faulty => (Spec => []OneOrderPerShortlist)
<1> SUFFICES ASSUME ~ Faulty
             PROVE  Spec => []OneOrderPerShortlist
  OBVIOUS
<1>1. Init => OnceInv
  BY IdleType DEF Init, OnceInv, OneOrderPerShortlist, Committing
<1>2. Calm /\ SafeInv /\ OnceInv /\ [Next]_vars => OnceInv'
  BY NextKeepsOnce DEF OnceSafe
<1>3. OnceInv => OneOrderPerShortlist
  BY DEF OnceInv
<1> QED BY <1>1, <1>2, <1>3, SafeInvHolds, CalmHolds, PTL DEF Spec

-----------------------------------------------------------------------------
CountSafe == Calm /\ SafeInv /\ CountInv

\* No order, no statement, and nothing more owed.
LEMMA QuietKeepsCount ==
  ASSUME CountInv, DOMAIN orders' = DOMAIN orders, stated' = stated,
         \A n \in AutoClose : Owed(n)' => Owed(n)
  PROVE  CountInv'
<1>1. \A n \in AutoClose : OrdersOf(n)' = OrdersOf(n)
  BY DEF OrdersOf
<1> QED BY <1>1 DEF CountInv

LEMMA OrdersAreFinite ==
  ASSUME CountInv, NEW n
  PROVE  IsFiniteSet(OrdersOf(n)) /\ Cardinality(OrdersOf(n)) \in Nat
<1>1. OrdersOf(n) \subseteq DOMAIN orders
  BY DEF OrdersOf
<1> QED BY <1>1, FS_Subset, FS_CardinalityType DEF CountInv

LEMMA FewerOwed ==
  ASSUME \A i \in DOMAIN openNeeds' : \E j \in DOMAIN openNeeds : openNeeds'[i] = openNeeds[j],
         openNeeds \in Seq(AutoClose), openNeeds' \in Seq(AutoClose),
         handler'.op # "need" \/ (handler'.op = handler.op /\ handler'.need = handler.need)
  PROVE  \A n \in AutoClose : Owed(n)' => Owed(n)
BY DEF Owed, Contains

\* A need that is stated anew is owed an order, and no other need is.
LEMMA StateNeedKeepsCount ==
  ASSUME CountSafe, NEW n \in Need, StateNeed(n)
  PROVE  CountInv'
<1>1. UNCHANGED <<orders, openNeeds>> /\ handler = Idle /\ handler'.op = "need" /\ handler'.need = n
  BY DEF StateNeed, Idle, seller
<1>2. \A k \in AutoClose : OrdersOf(k)' = OrdersOf(k)
  BY <1>1 DEF OrdersOf
<1>3. \A k \in AutoClose : Owed(k)' => Owed(k) \/ k = n
  BY <1>1 DEF Owed
<1>4. CASE Contains(openNeeds, n) /\ UNCHANGED stated
  <2>1. Owed(n)
    BY <1>4 DEF Owed
  <2> QED BY <1>1, <1>2, <1>3, <1>4, <2>1 DEF CountSafe, CountInv
<1>5. CASE stated' = [stated EXCEPT ![n] = @ + 1]
  <2>1. \A k \in AutoClose : Cardinality(OrdersOf(k)) \in Nat
    BY OrdersAreFinite DEF CountSafe
  <2> QED BY <1>1, <1>2, <1>3, <1>5, <2>1 DEF CountSafe, CountInv
<1> QED BY <1>4, <1>5 DEF StateNeed

LEMMA RequestsKeepCount ==
  ASSUME CountSafe,
         \/ \E i \in DOMAIN shortlists, o \in Offer : Book(i, o)
         \/ \E s \in Subject, a \in {"grant", "revoke"} : SetConsent(s, a)
         \/ OfferPublished \/ ConsentGate \/ FetchCatalog
  PROVE  CountInv'
<1>1. UNCHANGED <<orders, openNeeds, stated>>
  BY DEF Book, SetConsent, OfferPublished, ConsentGate, FetchCatalog, Skip, seller, history,
         Answered, Fails, Receive
<1>2. openNeeds \in Seq(AutoClose) /\ handler \in HandlerType
  BY DEF CountSafe, SafeInv, MemoryInv, HandlerInv
<1>3. handler'.op # "need" \/ (handler'.op = handler.op /\ handler'.need = handler.need)
  <2>1. CASE \E i \in DOMAIN shortlists, o \in Offer : Book(i, o)
    BY <2>1 DEF Book, Idle
  <2>2. CASE Skip \/ handler' = handler \/ handler' = Idle \/ handler' = CycleAt(openNeeds, 1)
    <3>1. handler.index + 1 \in Nat \ {0}
      BY <1>2 DEF HandlerType
    <3> QED BY <1>2, <2>2, <3>1, CycleType, IdleType DEF Skip
  <2>3. CASE ConsentGate \/ FetchCatalog
    BY <1>2, <2>2, <2>3 DEF ConsentGate, FetchCatalog, HandlerType
  <2> QED BY <2>1, <2>2, <2>3 DEF SetConsent, OfferPublished
<1>4. \A n \in AutoClose : Owed(n)' => Owed(n)
  BY <1>1, <1>2, <1>3, FewerOwed
<1> QED BY <1>1, <1>4, QuietKeepsCount DEF CountSafe

LEMMA NoFittingOfferKeepsCount == CountSafe /\ NoFittingOffer => CountInv'
<1> SUFFICES ASSUME CountSafe, NoFittingOffer
             PROVE  CountInv'
  OBVIOUS
<1>1. UNCHANGED <<orders, stated>> /\ openNeeds \in Seq(AutoClose) /\ handler.need \in AutoClose
      /\ handler.index + 1 \in Nat \ {0}
  BY DEF NoFittingOffer, seller, history, CountSafe, SafeInv, MemoryInv, HandlerInv, HandlerType
<1>2. handler'.op # "need"
  BY <1>1, CycleType, IdleType DEF NoFittingOffer
<1>3. CASE openNeeds' = openNeeds
  <2>1. \A n \in AutoClose : Owed(n)' => Owed(n)
    BY <1>2, <1>3 DEF Owed
  <2> QED BY <1>1, <2>1, QuietKeepsCount DEF CountSafe
<1>4. CASE handler.op = "need" /\ openNeeds' = Append(openNeeds, handler.need)
  <2>1. \A i \in DOMAIN openNeeds' :
          openNeeds'[i] = handler.need \/ \E j \in DOMAIN openNeeds : openNeeds'[i] = openNeeds[j]
    BY <1>1, <1>4, AppendProperties
  <2>2. \A n \in AutoClose : Owed(n)' => Owed(n)
    <3>1. openNeeds' \in Seq(AutoClose)
      BY <1>1, <1>4, AppendProperties
    <3> QED BY <1>1, <1>2, <1>4, <2>1, <3>1 DEF Owed, Contains
  <2> QED BY <1>1, <2>2, QuietKeepsCount DEF CountSafe
<1> QED BY <1>3, <1>4 DEF NoFittingOffer

LEMMA ShortlistKeepsCount == CountSafe /\ Shortlist => CountInv'
<1> SUFFICES ASSUME CountSafe, Shortlist
             PROVE  CountInv'
  OBVIOUS
<1>1. UNCHANGED <<orders, stated>> /\ openNeeds \in Seq(AutoClose) /\ Served
      /\ handler.op \in {"need", "cycle"} /\ MemoryInv /\ HandlerInv
  BY DEF Shortlist, seller, history, CountSafe, SafeInv, MemoryInv, HandlerInv, HandlerType
<1>2. \A n \in AutoClose : Owed(n)' => Owed(n)
  BY <1>1, ServedIsSafe, FewerOwed
<1> QED BY <1>1, <1>2, QuietKeepsCount DEF CountSafe

LEMMA StepsKeepCount ==
  ASSUME CountSafe, RecordUse \/ PostInstruction \/ \E o \in Offer : CloseMatch(o)
  PROVE  CountInv'
<1>1. UNCHANGED <<orders, openNeeds, stated>> /\ handler'.op = handler.op /\ handler'.need = handler.need
  BY CalmCalls DEF RecordUse, PostInstruction, CloseMatch, CountSafe, Calm, SafeInv, HandlerInv,
                   HandlerType, Answered, Receive, history
<1>2. \A n \in AutoClose : Owed(n)' => Owed(n)
  BY <1>1 DEF Owed
<1> QED BY <1>1, <1>2, QuietKeepsCount DEF CountSafe

\* An order settles what was owed for its need.
LEMMA CreateOrderKeepsCount == CountSafe /\ CreateOrder => CountInv'
<1> SUFFICES ASSUME CountSafe, CreateOrder
             PROVE  CountInv'
  OBVIOUS
<1>0. PICK m, need : m = handler.match /\ need = handler.need
  OBVIOUS
<1>1. /\ m \in Match /\ m.need = need /\ handler.op \in {"need", "cycle", "booking"}
      /\ Answered("order", m) /\ stated' = stated /\ need \in Need
      /\ openNeeds \in Seq(AutoClose) /\ MemoryInv /\ HandlerInv
  BY <1>0, CalmCalls DEF CreateOrder, Committing, CountSafe, SafeInv, HandlerInv, HandlerType, MemoryInv,
                   history
<1>2. DOMAIN orders' = DOMAIN orders \cup {m}
  BY <1>0, <1>1, OrderReceived DEF Answered, CountSafe, SafeInv
<1>3. IsFiniteSet(DOMAIN orders')
  BY <1>2, FS_AddElement DEF CountSafe, CountInv
<1>4. \A n \in AutoClose : n # need => OrdersOf(n)' = OrdersOf(n)
  BY <1>0, <1>1, <1>2 DEF OrdersOf
<1>5. CASE handler.op = "booking" /\ handler' = Idle /\ UNCHANGED openNeeds
  <2>1. need \notin AutoClose
    <3>1. shortlists[handler.index] \in ShortlistType
      BY <1>0, <1>1, <1>5 DEF HandlerInv, MemoryInv
    <3> QED BY <1>0, <1>1, <1>5, <3>1 DEF HandlerInv, ShortlistType
  <2>2. \A n \in AutoClose : Owed(n)' => Owed(n)
    BY <1>5, IdleType DEF Owed
  <2> QED BY <1>0, <1>1, <1>3, <1>4, <2>1, <2>2 DEF CountSafe, CountInv
<1>6. CASE handler.op # "booking" /\ Served
  <2>1. /\ \A j \in DOMAIN openNeeds' :
             openNeeds'[j] # need /\ \E i \in DOMAIN openNeeds : openNeeds'[j] = openNeeds[i]
        /\ handler'.op # "need" /\ openNeeds' \in Seq(AutoClose)
    BY <1>0, <1>1, <1>6, ServedIsSafe
  <2>2. \A n \in AutoClose : Owed(n)' => Owed(n)
    BY <1>0, <1>1, <2>1, FewerOwed
  <2>3. ~ Owed(need)'
    BY <2>1 DEF Owed, Contains
  <2>4. Owed(need)
    BY <1>0, <1>1, <1>6 DEF Owed, Contains, HandlerInv
  <2>5. ASSUME need \in AutoClose
        PROVE  Cardinality(OrdersOf(need)') <= stated[need]
    <3>1. OrdersOf(need)' = OrdersOf(need) \cup {m}
      BY <1>0, <1>1, <1>2 DEF OrdersOf
    <3>2. IsFiniteSet(OrdersOf(need)) /\ Cardinality(OrdersOf(need)) \in Nat
      BY <2>5, OrdersAreFinite DEF CountSafe
    <3>3. Cardinality(OrdersOf(need)') \in Nat
          /\ Cardinality(OrdersOf(need)') <= Cardinality(OrdersOf(need)) + 1
      <4> DEFINE before == OrdersOf(need)
                 after == OrdersOf(need)'
      <4>1. after = before \cup {m}
        BY <3>1
      <4>2. IsFiniteSet(before) /\ Cardinality(before) \in Nat
        BY <3>2
      <4> HIDE DEF before, after
      <4>3. Cardinality(before \cup {m}) = Cardinality(before)
            \/ Cardinality(before \cup {m}) = Cardinality(before) + 1
        BY <4>2, FS_AddElement
      <4>4. Cardinality(after) \in Nat /\ Cardinality(after) <= Cardinality(before) + 1
        BY <4>1, <4>2, <4>3
      <4> QED BY <4>4 DEF before, after
    <3>4. Cardinality(OrdersOf(need)) < stated[need] /\ stated[need] \in Nat
      BY <1>0, <1>1, <2>4, <2>5 DEF CountSafe, CountInv
    <3> QED BY <3>2, <3>3, <3>4
  <2>6. \A n \in AutoClose :
          /\ Cardinality(OrdersOf(n))' <= stated'[n]
          /\ Owed(n)' => Cardinality(OrdersOf(n))' < stated'[n]
    <3> TAKE n \in AutoClose
    <3>1. CASE n = need
      BY <1>0, <1>1, <2>3, <2>5, <3>1
    <3>2. CASE n # need
      BY <1>0, <1>1, <1>4, <2>2, <3>2 DEF CountSafe, CountInv
    <3> QED BY <3>1, <3>2
  <2> QED BY <1>0, <1>1, <1>3, <2>6 DEF CountSafe, CountInv
<1> QED BY <1>0, <1>1, <1>5, <1>6, CalmCalls DEF CreateOrder, CountSafe

LEMMA OutsideKeepsCount ==
  ASSUME CountSafe,
         \/ \E o \in Offer : Publish(o) \/ \E out \in BOOLEAN : SetStock(o, out)
         \/ DropEvent \/ UNCHANGED vars
         \/ \E m \in DOMAIN orders : Provision(m) \/ Fulfil(m)
  PROVE  CountInv'
<1>1. UNCHANGED <<handler, openNeeds, stated>> /\ DOMAIN orders' = DOMAIN orders
  BY DEF Publish, SetStock, DropEvent, vars, Provision, Fulfil, coordinator, seller, history
<1>2. \A n \in AutoClose : Owed(n)' => Owed(n)
  BY <1>1 DEF Owed
<1> QED BY <1>1, <1>2, QuietKeepsCount DEF CountSafe

\* Without failures a need is ordered at most once each time it is stated
\* anew, however often it is served while it is open.
THEOREM NeedOrderedOnce == ~ Faulty => (Spec => []OrderedOncePerStatement)
<1> SUFFICES ASSUME ~ Faulty
             PROVE  Spec => []OrderedOncePerStatement
  OBVIOUS
<1>1. Init => CountInv
  <2> SUFFICES ASSUME Init
               PROVE  CountInv
    OBVIOUS
  <2>1. DOMAIN orders = {} /\ stated = [n \in Need |-> 0]
    BY DEF Init
  <2>2. \A n \in AutoClose : Cardinality(OrdersOf(n)) = 0 /\ ~ Owed(n)
    BY <2>1, FS_EmptySet, IdleType DEF Init, OrdersOf, Owed, Contains
  <2> QED BY <2>1, <2>2, FS_EmptySet DEF CountInv
<1>2. Calm /\ SafeInv /\ CountInv /\ [Next]_vars => CountInv'
  BY CalmStays, StateNeedKeepsCount, RequestsKeepCount, NoFittingOfferKeepsCount,
     ShortlistKeepsCount, StepsKeepCount, CreateOrderKeepsCount, OutsideKeepsCount
     DEF Next, CountSafe
<1>3. CountInv => OrderedOncePerStatement
  BY DEF CountInv, OrderedOncePerStatement, OrdersOf
<1> QED BY <1>1, <1>2, <1>3, SafeInvHolds, CalmHolds, PTL DEF Spec

-----------------------------------------------------------------------------
WakeSafe == Calm /\ SafeInv /\ WakeInv

\* Only a grant takes a revocation back.
LEMMA GrantedBefore ==
  ASSUME NEW chain \in Seq(Entry), NEW x, NEW s, x # Change(s, "grant"),
         Granted(Append(chain, x), s)
  PROVE  Granted(chain, s)
<1> DEFINE after == Append(chain, x)
<1>1. /\ Len(chain) \in Nat /\ DOMAIN chain = 1 .. Len(chain)
      /\ DOMAIN after = 1 .. Len(chain) + 1 /\ Len(after) = Len(chain) + 1
      /\ after[Len(chain) + 1] = x /\ \A i \in 1 .. Len(chain) : after[i] = chain[i]
  OBVIOUS
<1> HIDE DEF after
<1>2. Granted(after, s)
  BY DEF after
<1> SUFFICES ASSUME NEW i \in 1 .. Len(chain), chain[i] = Change(s, "revoke")
             PROVE  \E j \in i + 1 .. Len(chain) : chain[j] = Change(s, "grant")
  BY <1>1 DEF Granted
<1>3. PICK j \in i + 1 .. Len(chain) + 1 : after[j] = Change(s, "grant")
  BY <1>1, <1>2 DEF Granted
<1>4. j \in i + 1 .. Len(chain)
  BY <1>1, <1>3
<1> QED BY <1>1, <1>3, <1>4

\* What makes an open need worth waking for: a grant, or a publication.
LEMMA NothingNewMissed ==
  ASSUME RemoteInv, published' = published, everOut \subseteq everOut',
         \/ consent' = consent
         \/ \E m \in Match : consent' = Append(consent, Use(m))
         \/ \E s \in Subject : consent' = Append(consent, Change(s, "revoke"))
  PROVE  \A n : Missed(n)' => Missed(n)
<1>1. \A s : Granted(consent', s) => Granted(consent, s)
  <2>1. CASE \E m \in Match : consent' = Append(consent, Use(m))
    <3>1. \A m, s : Use(m) # Change(s, "grant")
      BY DEF Use, Change
    <3> QED BY <2>1, <3>1, GrantedBefore DEF RemoteInv
  <2>2. CASE \E s \in Subject : consent' = Append(consent, Change(s, "revoke"))
    <3>1. \A r, s : Change(r, "revoke") # Change(s, "grant")
      BY DEF Change
    <3> QED BY <2>2, <3>1, GrantedBefore DEF RemoteInv
  <2> QED BY <2>1, <2>2
<1> QED BY <1>1 DEF Missed

\* A cycle that starts before all that is missed will come to it.
LEMMA CycleKeepsWake ==
  ASSUME NEW k \in Nat \ {0}, openNeeds' \in Seq(AutoClose), handler' = CycleAt(openNeeds', k),
         outOfStock' \subseteq everOut',
         \A i \in DOMAIN openNeeds' : (Missed(openNeeds[i]))' => k <= i
  PROVE  WakeInv'
<1>1. CASE handler' = Idle /\ k > Len(openNeeds')
  <2>1. \A i \in DOMAIN openNeeds' : ~ (Missed(openNeeds[i]))'
    BY <1>1
  <2> QED BY <1>1, <2>1, IdleType DEF WakeInv
<1>2. CASE handler'.pc = "gate" /\ handler'.op = "cycle" /\ handler'.index = k
  BY <1>2 DEF WakeInv
<1> QED BY <1>1, <1>2, CycleType

\* Outside a cycle nothing is missed, and nothing has to come to it.
LEMMA RestKeepsWake ==
  ASSUME WakeInv, handler.op # "cycle", handler'.pc # "dispatch", events' = events,
         outOfStock' \subseteq everOut', \A n : Missed(n)' => Missed(n),
         \A j \in DOMAIN openNeeds' : \E i \in DOMAIN openNeeds : openNeeds'[j] = openNeeds[i]
  PROVE  WakeInv'
<1>1. ASSUME events = 0
      PROVE  \A j \in DOMAIN openNeeds' : ~ (Missed(openNeeds[j]))'
  <2>1. \A i \in DOMAIN openNeeds : ~ Missed(openNeeds[i])
    BY <1>1 DEF WakeInv
  <2> QED BY <2>1
<1> QED BY <1>1 DEF WakeInv

\* A cycle may leave the need it is at when nothing more is missed by it.
LEMMA NextNeedKeepsWake ==
  ASSUME SafeInv, WakeInv, handler.op = "cycle", openNeeds' = openNeeds, events' = events,
         handler' = CycleAt(openNeeds, handler.index + 1), outOfStock' \subseteq everOut',
         \A n : Missed(n)' => Missed(n), events = 0 => ~ Missed(handler.need)
  PROVE  WakeInv'
<1>1. /\ openNeeds' \in Seq(AutoClose) /\ handler.index \in 1 .. Len(openNeeds)
      /\ handler.index + 1 \in Nat \ {0} /\ handler.need = openNeeds[handler.index]
  BY DEF SafeInv, MemoryInv, HandlerInv
<1>2. CASE events = 0
  <2>1. \A i \in DOMAIN openNeeds' : (Missed(openNeeds[i]))' => Missed(openNeeds[i])
    OBVIOUS
  <2>2. \A i \in DOMAIN openNeeds' : (Missed(openNeeds[i]))' => handler.index + 1 <= i
    <3> TAKE i \in DOMAIN openNeeds'
    <3> HAVE (Missed(openNeeds[i]))'
    <3>1. Missed(openNeeds[i]) /\ i \in 1 .. Len(openNeeds)
      BY <2>1
    <3>2. handler.index <= i /\ i # handler.index
      BY <1>1, <1>2, <3>1 DEF WakeInv
    <3> QED BY <1>1, <3>1, <3>2
  <2> QED BY <1>1, <2>2, CycleKeepsWake
<1>3. CASE events # 0
  BY <1>3 DEF WakeInv
<1> QED BY <1>2, <1>3

\* A served need is gone, and the cycle is at the one that took its place.
LEMMA ServedKeepsWake ==
  ASSUME SafeInv, WakeInv, Served, handler.op \in {"need", "cycle"}, events' = events,
         outOfStock' \subseteq everOut', \A n : Missed(n)' => Missed(n)
  PROVE  WakeInv'
<1>1. /\ openNeeds \in Seq(AutoClose) /\ openNeeds' \in Seq(AutoClose) /\ MemoryInv /\ HandlerInv
      /\ \A j \in DOMAIN openNeeds' : \E i \in DOMAIN openNeeds : openNeeds'[j] = openNeeds[i]
      /\ handler'.pc # "dispatch"
  BY ServedIsSafe DEF SafeInv, MemoryInv
<1>2. CASE handler.op = "need"
  BY <1>1, <1>2, RestKeepsWake
<1>3. CASE handler.op = "cycle" /\ events = 0
  <2>1. /\ handler.index \in 1 .. Len(openNeeds) /\ openNeeds' = RemoveAt(openNeeds, handler.index)
        /\ handler' = CycleAt(openNeeds', handler.index)
    BY <1>1, <1>3 DEF HandlerInv, Served
  <2>2. \A i \in DOMAIN openNeeds' : (Missed(openNeeds[i]))' => handler.index <= i
    <3> TAKE i \in DOMAIN openNeeds'
    <3> SUFFICES ASSUME i < handler.index
                 PROVE  ~ (Missed(openNeeds[i]))'
      BY <1>1, <2>1
    <3>1. i \in 1 .. Len(openNeeds) - 1 /\ openNeeds'[i] = openNeeds[i]
      <4> DEFINE rest == RemoveAt(openNeeds, handler.index)
      <4>1. /\ rest \in Seq(AutoClose) /\ Len(rest) = Len(openNeeds) - 1
            /\ \A j \in 1 .. Len(openNeeds) - 1 :
                 rest[j] = IF j < handler.index THEN openNeeds[j] ELSE openNeeds[j + 1]
        BY <1>1, <2>1, RemoveAtIs
      <4>2. openNeeds' = rest
        BY <2>1
      <4> HIDE DEF rest
      <4>3. i \in 1 .. Len(openNeeds) - 1
        BY <4>1, <4>2
      <4> QED BY <4>1, <4>2, <4>3
    <3>2. ~ Missed(openNeeds[i])
      BY <1>1, <1>3, <2>1, <3>1 DEF WakeInv
    <3> QED BY <3>1, <3>2
  <2> QED BY <1>1, <2>1, <2>2, CycleKeepsWake
<1>4. CASE events # 0
  BY <1>4 DEF WakeInv
<1> QED BY <1>2, <1>3, <1>4

\* The handler stays where it is in its cycle.
LEMMA PlaceKeepsWake ==
  ASSUME WakeInv, openNeeds' = openNeeds, handler'.op = handler.op, handler'.index = handler.index,
         handler'.pc # "dispatch" \/ (handler' = handler /\ published' = published),
         everOut \subseteq everOut', outOfStock' \subseteq everOut', events' = events,
         \A n : Missed(n)' => Missed(n)
  PROVE  WakeInv'
<1>1. \A i \in DOMAIN openNeeds' : (Missed(openNeeds[i]))' => Missed(openNeeds[i])
  OBVIOUS
<1> QED BY <1>1 DEF WakeInv

-----------------------------------------------------------------------------
\* Requests find no cycle under way, and start one where they must.
LEMMA RequestsKeepWake ==
  ASSUME WakeSafe,
         \/ \E n \in Need : StateNeed(n)
         \/ \E i \in DOMAIN shortlists, o \in Offer : Book(i, o)
         \/ \E s \in Subject, a \in {"grant", "revoke"} : SetConsent(s, a)
         \/ OfferPublished
  PROVE  WakeInv'
<1>1. /\ UNCHANGED <<openNeeds, published, outOfStock, everOut>> /\ handler = Idle
      /\ openNeeds' \in Seq(AutoClose) /\ outOfStock' \subseteq everOut' /\ RemoteInv
  BY DEF StateNeed, Book, SetConsent, OfferPublished, seller, history, WakeSafe, WakeInv, SafeInv,
         MemoryInv
<1>2. CASE handler' = CycleAt(openNeeds', 1)
  <2>1. \A i \in DOMAIN openNeeds' : 1 <= i
    BY <1>1
  <2> QED BY <1>1, <1>2, <2>1, CycleKeepsWake
<1>3. CASE /\ events' = events /\ handler'.pc # "dispatch"
           /\ \/ consent' = consent
              \/ \E s \in Subject : consent' = Append(consent, Change(s, "revoke"))
  <2>1. \A n : Missed(n)' => Missed(n)
    BY <1>1, <1>3, NothingNewMissed
  <2> QED BY <1>1, <1>3, <2>1, RestKeepsWake, IdleType DEF WakeSafe
<1>4. CASE \/ \E n \in Need : StateNeed(n)
           \/ \E i \in DOMAIN shortlists, o \in Offer : Book(i, o)
  <2>1. UNCHANGED <<events, consent>> /\ handler'.pc = "gate"
    BY <1>4 DEF StateNeed, Book, seller, ledger, Idle
  <2> QED BY <1>3, <2>1
<1>5. CASE \E s \in Subject, a \in {"grant", "revoke"} : SetConsent(s, a)
  <2>1. PICK s \in Subject, a \in {"grant", "revoke"} : SetConsent(s, a)
    BY <1>5
  <2>2. /\ consent' = Append(consent, Change(s, a)) /\ events' = events
        /\ handler' = IF a = "grant" THEN CycleAt(openNeeds, 1) ELSE Idle
    BY <2>1, CalmCalls DEF SetConsent, Answered, Receive, WakeSafe
  <2> QED BY <1>1, <1>2, <1>3, <2>2, IdleType
<1>6. CASE OfferPublished
  BY <1>1, <1>2, <1>6 DEF OfferPublished
<1> QED BY <1>4, <1>5, <1>6

\* Only a need whose buyer has revoked is turned away at the gate.
LEMMA ConsentGateKeepsWake == WakeSafe /\ ConsentGate => WakeInv'
<1> SUFFICES ASSUME WakeSafe, ConsentGate
             PROVE  WakeInv'
  OBVIOUS
<1>1. /\ UNCHANGED <<openNeeds, consent, published, outOfStock, everOut, events>>
      /\ outOfStock' \subseteq everOut' /\ RemoteInv /\ SafeInv /\ WakeInv
      /\ handler \in HandlerType
  BY DEF ConsentGate, Skip, ledger, seller, history, WakeSafe, WakeInv, SafeInv, HandlerInv
<1>2. \A n : Missed(n)' => Missed(n)
  BY <1>1, NothingNewMissed
<1>3. CASE handler' = [handler EXCEPT !.pc = IF handler.op = "booking" THEN "use" ELSE "fetch"]
  <2>1. handler'.op = handler.op /\ handler'.index = handler.index /\ handler'.pc # "dispatch"
    BY <1>1, <1>3 DEF HandlerType
  <2> QED BY <1>1, <1>2, <2>1, PlaceKeepsWake
<1>4. CASE ~ Granted(consent, Owner[handler.need]) /\ Skip
  <2>1. ~ Missed(handler.need)
    BY <1>4 DEF Missed
  <2>2. CASE handler.op = "cycle"
    BY <1>1, <1>2, <1>4, <2>1, <2>2, NextNeedKeepsWake DEF Skip
  <2>3. CASE handler.op # "cycle"
    BY <1>1, <1>2, <1>4, <2>3, RestKeepsWake, IdleType DEF Skip
  <2> QED BY <2>2, <2>3
<1> QED BY <1>3, <1>4 DEF ConsentGate, WakeSafe, Calm

\* The catalogue has every published offer but those that are out of stock.
LEMMA FetchCatalogKeepsWake == WakeSafe /\ FetchCatalog => WakeInv'
<1> SUFFICES ASSUME WakeSafe, FetchCatalog
             PROVE  WakeInv'
  OBVIOUS
<1>1. /\ UNCHANGED <<openNeeds, consent, published, outOfStock, everOut, events>>
      /\ handler' = [handler EXCEPT !.pc = "dispatch", !.catalog = Available]
      /\ handler \in HandlerType /\ WakeInv
  BY DEF FetchCatalog, ledger, seller, history, WakeSafe, SafeInv, HandlerInv, Calm
<1>2. handler'.op = handler.op /\ handler'.index = handler.index /\ handler'.need = handler.need
      /\ handler'.catalog = published \ outOfStock
  BY <1>1 DEF HandlerType, Available
<1>3. \A i \in DOMAIN openNeeds' : (Missed(openNeeds[i]))' <=> Missed(openNeeds[i])
  BY <1>1 DEF Missed
<1>4. Fits[handler'.need] \cap published' \subseteq everOut' \cup handler'.catalog
  BY <1>1, <1>2 DEF WakeInv
<1> QED BY <1>1, <1>2, <1>3, <1>4 DEF WakeInv

\* A need that nothing fitted when it was tried fits nothing published.
LEMMA NoFittingOfferKeepsWake == WakeSafe /\ NoFittingOffer => WakeInv'
<1> SUFFICES ASSUME WakeSafe, NoFittingOffer
             PROVE  WakeInv'
  OBVIOUS
<1>1. /\ UNCHANGED <<consent, published, outOfStock, everOut, events>>
      /\ outOfStock' \subseteq everOut' /\ RemoteInv /\ SafeInv /\ WakeInv
      /\ openNeeds \in Seq(AutoClose) /\ handler.need \in AutoClose
  BY DEF NoFittingOffer, ledger, seller, history, WakeSafe, WakeInv, SafeInv, MemoryInv
<1>2. \A n : Missed(n)' => Missed(n)
  BY <1>1, NothingNewMissed
<1>3. events = 0 => ~ Missed(handler.need)
  BY <1>1 DEF NoFittingOffer, Qualifying, WakeInv, Missed
<1>4. CASE handler.op = "cycle"
  BY <1>1, <1>2, <1>3, <1>4, NextNeedKeepsWake DEF NoFittingOffer
<1>5. CASE handler.op # "cycle" /\ openNeeds' = openNeeds
  BY <1>1, <1>2, <1>5, RestKeepsWake, IdleType DEF NoFittingOffer
<1>6. CASE handler.op # "cycle" /\ openNeeds' = Append(openNeeds, handler.need)
  <2>1. ASSUME events = 0
        PROVE  \A i \in DOMAIN openNeeds' : ~ (Missed(openNeeds[i]))'
    <3>1. \A i \in DOMAIN openNeeds : ~ Missed(openNeeds[i])
      BY <1>6, <2>1 DEF WakeSafe, WakeInv
    <3>2. \A i \in DOMAIN openNeeds' :
            openNeeds'[i] = handler.need \/ \E j \in DOMAIN openNeeds : openNeeds'[i] = openNeeds[j]
      BY <1>1, <1>6, AppendProperties
    <3>3. \A i \in DOMAIN openNeeds' : ~ Missed(openNeeds'[i])
      BY <1>3, <2>1, <3>1, <3>2
    <3> QED BY <1>2, <3>3
  <2>2. handler' = Idle
    BY <1>6 DEF NoFittingOffer
  <2> QED BY <1>1, <2>1, <2>2, IdleType DEF WakeInv
<1> QED BY <1>4, <1>5, <1>6 DEF NoFittingOffer

\* The steps of a match, up to its order.
LEMMA StepsKeepWake ==
  ASSUME WakeSafe, RecordUse \/ PostInstruction \/ \E o \in Offer : CloseMatch(o)
  PROVE  WakeInv'
<1>1. /\ UNCHANGED <<openNeeds, published, outOfStock, everOut, events>>
      /\ outOfStock' \subseteq everOut' /\ RemoteInv /\ WakeInv /\ HandlerInv
  BY DEF RecordUse, PostInstruction, CloseMatch, Skip, history, WakeSafe, WakeInv, SafeInv
<1>2. /\ consent' = consent \/ \E m \in Match : consent' = Append(consent, Use(m))
      /\ handler'.op = handler.op /\ handler'.index = handler.index /\ handler'.pc # "dispatch"
  <2>1. CASE RecordUse
    <3>1. handler.match \in Match /\ handler \in HandlerType
      BY <1>1, <2>1 DEF RecordUse, HandlerInv, Committing
    <3>2. Answered("use", Use(handler.match))
          /\ handler' = [handler EXCEPT !.pc = IF handler.op = "booking" THEN "instruct" ELSE "order"]
      BY <2>1, CalmCalls DEF RecordUse, WakeSafe
    <3>3. consent' = Append(consent, Use(handler.match))
      BY <3>2 DEF Answered, Receive
    <3> QED BY <3>1, <3>2, <3>3 DEF HandlerType
  <2>2. CASE PostInstruction
    <3>1. Answered("instruction", handler.match) /\ handler' = [handler EXCEPT !.pc = "order"]
      BY <2>2, CalmCalls DEF PostInstruction, WakeSafe
    <3> QED BY <1>1, <3>1 DEF Answered, Receive, HandlerInv, HandlerType
  <2>3. CASE \E o \in Offer : CloseMatch(o)
    <3>1. PICK o \in Offer : CloseMatch(o)
      BY <2>3
    <3> DEFINE m == [env |-> executed', offer |-> o, need |-> handler.need]
    <3>2. Answered("instruction", m) /\ handler' = [handler EXCEPT !.pc = "use", !.match = m]
      BY <3>1, CalmCalls DEF CloseMatch, WakeSafe, Calm
    <3> HIDE DEF m
    <3> QED BY <1>1, <3>2 DEF Answered, Receive, HandlerInv, HandlerType
  <2> QED BY <2>1, <2>2, <2>3
<1>3. \A n : Missed(n)' => Missed(n)
  BY <1>1, <1>2, NothingNewMissed
<1> QED BY <1>1, <1>2, <1>3, PlaceKeepsWake

LEMMA ServiceKeepsWake ==
  ASSUME WakeSafe, Shortlist \/ CreateOrder
  PROVE  WakeInv'
<1>1. /\ UNCHANGED <<consent, published, outOfStock, everOut, events>>
      /\ outOfStock' \subseteq everOut' /\ RemoteInv /\ WakeInv /\ SafeInv
      /\ openNeeds \in Seq(AutoClose)
  BY CalmCalls DEF Shortlist, CreateOrder, ledger, seller, history, WakeSafe, WakeInv, SafeInv,
                   Answered, Receive, MemoryInv
<1>2. \A n : Missed(n)' => Missed(n)
  BY <1>1, NothingNewMissed
<1>3. CASE Served /\ handler.op \in {"need", "cycle"}
  BY <1>1, <1>2, <1>3, ServedKeepsWake
<1>4. CASE handler.op = "booking" /\ handler' = Idle /\ UNCHANGED openNeeds
  BY <1>1, <1>2, <1>4, RestKeepsWake, IdleType
<1>5. handler.op \in {"need", "cycle", "booking"} /\ (Shortlist => handler.op # "booking")
  BY DEF Shortlist, CreateOrder, WakeSafe, SafeInv, HandlerInv, HandlerType
<1> QED BY <1>3, <1>4, <1>5, CalmCalls DEF Shortlist, CreateOrder, WakeSafe

\* The seller's shop; a publication raises an event, a stock change none.
LEMMA OutsideKeepsWake ==
  ASSUME WakeSafe,
         \/ \E o \in Offer : Publish(o) \/ \E out \in BOOLEAN : SetStock(o, out)
         \/ UNCHANGED vars
         \/ \E m \in DOMAIN orders : Provision(m) \/ Fulfil(m)
  PROVE  WakeInv'
<1>1. outOfStock' \subseteq everOut' /\ everOut \subseteq everOut' /\ RemoteInv /\ WakeInv
  BY DEF Publish, SetStock, vars, Provision, Fulfil, seller, history, WakeSafe, WakeInv, SafeInv
<1>2. CASE \E o \in Offer : Publish(o)
  <2>1. events' # 0
    BY <1>1, <1>2 DEF Publish, RemoteInv
  <2> QED BY <1>1, <2>1 DEF WakeInv
<1>3. CASE ~ \E o \in Offer : Publish(o)
  <2>1. UNCHANGED <<handler, openNeeds, consent, published, events>>
    BY <1>3 DEF SetStock, vars, Provision, Fulfil, coordinator, seller, ledger, history
  <2>2. \A n : Missed(n)' => Missed(n)
    BY <1>1, <2>1, NothingNewMissed
  <2> QED BY <1>1, <2>1, <2>2, PlaceKeepsWake
<1> QED BY <1>2, <1>3

\* Without failures, no open need is forgotten: whatever fits it and was
\* published is known to have been out of stock, once nobody is left to tell
\* the coordinator.
THEOREM OpenNeedsAreRemembered == ~ Faulty => (Spec => []NoneForgotten)
<1> SUFFICES ASSUME ~ Faulty
             PROVE  Spec => []NoneForgotten
  OBVIOUS
<1>1. Init => WakeInv
  BY IdleType DEF Init, WakeInv
<1>2. Calm /\ SafeInv /\ WakeInv /\ [Next]_vars => WakeInv'
  BY CalmStays, RequestsKeepWake, ConsentGateKeepsWake, FetchCatalogKeepsWake,
     NoFittingOfferKeepsWake, StepsKeepWake, ServiceKeepsWake, OutsideKeepsWake
     DEF Next, WakeSafe
<1>3. WakeInv => NoneForgotten
  BY IdleType DEF WakeInv, NoneForgotten, Missed
<1> QED BY <1>1, <1>2, <1>3, SafeInvHolds, CalmHolds, PTL DEF Spec

=============================================================================
