--------------------------- MODULE MandatesProofs ---------------------------
(***************************************************************************)
(* Proofs about delegated needs, for any pairs, offers, grants, bounds and *)
(* kinds of failure.                                                       *)
(***************************************************************************)
EXTENDS Mandates, SequenceTheorems, WellFoundedInduction, TLAPS

\* What a call may hold, and where it may be.
Via == {"delegate", "approval"}

UseType ==
  [action : {"use"}, pair : Pair, match : Match, category : {g.category : g \in Grant},
   price : Int, via : Via, ts : 0 .. MaxTime, checked : 0 .. MaxTime]

ChangeType == [action : {"grant"}, pair : Pair, grant : Grant] \cup [action : {"revoke"}, pair : Pair]

Entry == ChangeType \cup UseType

CallType ==
  [kind : {"change"}, what : ChangeType] \cup [kind : {"use"}, what : UseType]
    \cup [kind : {"instruction", "order"}, what : Match]

HandlerType ==
  [pc : {"idle", "dispatch", "use", "instruct", "order"}, via : Via,
   pair : Pair \cup {Idle.pair}, need : Need \cup {Idle.need},
   scope : Grant \cup {NoMandate}, commit : Commit \cup {NoCommit},
   checked : 0 .. MaxTime]

Committed == handler.pc \in {"use", "instruct", "order"}

-----------------------------------------------------------------------------
\* Facts that no step undoes: the chain grows, and so do the approvals.
OnChain(g) == \E i \in DOMAIN consent : consent[i].action = "grant" /\ consent[i].grant = g

Evidenced(m) == \E i \in Uses : consent[i].match = m

GrantedFor(o) ==
  \E i \in DOMAIN consent :
    /\ consent[i].action = "grant"
    /\ Price[o] <= consent[i].grant.cap
    /\ Category[o] = consent[i].grant.category

Allowed(m) == m \in approved \/ GrantedFor(m.offer)

\* A call that may be done at any time: it has what must come before it.
Grounded(kind, x) ==
  /\ [kind |-> kind, what |-> x] \in CallType
  /\ kind = "instruction" => Evidenced(x) /\ Allowed(x)
  /\ kind = "order" => x \in instructions

RemoteInv ==
  /\ consent \in Seq(Entry) /\ instructions \subseteq Match
  /\ orders \subseteq instructions
  /\ \A m \in instructions : Evidenced(m) /\ Allowed(m)
  /\ \A call \in late : call \in CallType /\ Grounded(call.kind, call.what)

HandlerInv ==
  /\ handler \in HandlerType
  /\ handler.pc = "dispatch" =>
       handler.pair \in Pair /\ handler.need \in Need
         /\ handler.scope \in Grant /\ OnChain(handler.scope)
  /\ Committed => handler.commit \in Commit /\ Allowed(MatchOf(handler.commit))
  /\ handler.pc \in {"instruct", "order"} => Evidenced(MatchOf(handler.commit))
  /\ handler.pc = "order" => MatchOf(handler.commit) \in instructions

MemoryInv ==
  /\ mandate \in [Pair -> Grant \cup {NoMandate}]
  /\ \A p \in Pair : mandate[p] # NoMandate => OnChain(mandate[p])
  /\ pending \subseteq Commit /\ held \subseteq Commit
  /\ \A c \in pending : Allowed(MatchOf(c))
  /\ activity \in Seq(Match)
  /\ \A i \in DOMAIN activity : activity[i] \in orders
  /\ executed \in 0 .. MaxEnv /\ now \in 0 .. MaxTime

SafeInv == RemoteInv /\ HandlerInv /\ MemoryInv

-----------------------------------------------------------------------------
\* Nothing is lost: money without goods belongs to a commit a retry finds.
Resumable(m) ==
  \/ m \in orders \cup dropped
  \/ \E c \in pending \cup held : MatchOf(c) = m
  \/ Committed /\ MatchOf(handler.commit) = m

\* Money instructed, or about to be by a call given up.
Wanted == instructions \cup {call.what : call \in {x \in late : x.kind = "instruction"}}

ResumeInv ==
  /\ \A m \in Wanted : Resumable(m)
  /\ Committed /\ handler.via = "approval" => handler.commit \in held

-----------------------------------------------------------------------------
\* Every commit has an environment of its own, and is in one place.
Running == IF Committed THEN {handler.commit} ELSE {}

Live == pending \cup held \cup Running

EnvInv ==
  /\ \A c \in Live : c.env <= executed
  /\ \A c, d \in Live : c.env = d.env => c = d
  /\ \A i \in DOMAIN activity :
       /\ activity[i].env <= executed
       /\ \A c \in Live : activity[i].env # c.env
  /\ IsInjective(activity)

PlaceInv ==
  /\ pending \cap held = {}
  /\ Committed /\ handler.via = "delegate" => handler.commit \notin pending \cup held
  /\ Committed /\ handler.via = "approval" => handler.commit \in held
  /\ \A c, d \in pending : c.pair = d.pair /\ c.need = d.need => c = d
  /\ handler.pc = "dispatch" =>
       \A c \in pending : c.pair # handler.pair \/ c.need # handler.need
  /\ Committed /\ handler.via = "delegate" =>
       \A c \in pending : c.pair # handler.commit.pair \/ c.need # handler.commit.need

OneInv == EnvInv /\ PlaceInv

-----------------------------------------------------------------------------
\* The coordinator acts on what the chain says, as far as it was answered.
WasValid(p) == mandate[p] # NoMandate /\ handler.checked < mandate[p].expiry

InStep ==
  /\ \A p \in Pair : p \notin unheard /\ mandate[p] # NoMandate => InForce(consent, p) = mandate[p]
  /\ handler.pc = "dispatch" =>
       handler.scope = mandate[handler.pair] /\ WasValid(handler.pair)
  /\ handler.pc = "use" =>
       LET c == handler.commit
       IN  /\ WasValid(c.pair) /\ mandate[c.pair].category = c.category
           /\ handler.via = "approval" \/ Price[c.offer] <= mandate[c.pair].cap

HistoryInv == unheard \subseteq Pair /\ excused \subseteq DOMAIN consent

ReplayInv == InStep /\ CheckedUsesAreValid

-----------------------------------------------------------------------------
USE MandateParameters, NoneAssumption

\* What a step does to the services is what one call does to them, if anything.
Posted(kind, x) ==
  /\ late' \subseteq late \cup {[kind |-> kind, what |-> x]}
  /\ Receive(kind, x) \/ UNCHANGED <<consent, instructions, orders>>

Quiet == late' \subseteq late /\ UNCHANGED <<consent, instructions, orders>>

LEMMA CallsPost ==
  ASSUME NEW kind, NEW x, Answered(kind, x) \/ Fails(kind, x)
  PROVE  Posted(kind, x)
BY DEF Answered, Fails, Posted, remote

LEMMA MatchOfCommit == \A c \in Commit : MatchOf(c) \in Match /\ MatchOf(c).offer = c.offer
                                           /\ MatchOf(c).env = c.env
BY DEF Commit, Match, MatchOf

\* What was received of a call in CallType.
LEMMA ReceiveGrows ==
  ASSUME consent \in Seq(Entry), NEW kind, NEW x, [kind |-> kind, what |-> x] \in CallType,
         Receive(kind, x) \/ UNCHANGED <<consent, instructions, orders>>
  PROVE  /\ consent' \in Seq(Entry)
         /\ Len(consent') \in {Len(consent), Len(consent) + 1}
         /\ \A i \in DOMAIN consent : i \in DOMAIN consent' /\ consent'[i] = consent[i]
         /\ consent' = consent \/ (consent' = Append(consent, x) /\ x \in Entry)
         /\ instructions' \in {instructions, instructions \cup {x}}
         /\ orders' \in {orders, orders \cup {x}}
         /\ instructions' # instructions => kind = "instruction"
         /\ orders' # orders => kind = "order"
<1>1. CASE UNCHANGED <<consent, instructions, orders>>
  BY <1>1
<1>2. CASE kind \in {"change", "use"} /\ Receive(kind, x)
  <2>1. x \in Entry /\ consent' = Append(consent, x) /\ UNCHANGED <<instructions, orders>>
    BY <1>2 DEF Receive, CallType, Entry
  <2> QED BY <2>1, AppendProperties
<1>3. CASE kind = "instruction" /\ Receive(kind, x)
  BY <1>3 DEF Receive
<1>4. CASE kind = "order" /\ Receive(kind, x)
  BY <1>4 DEF Receive
<1>5. kind \in {"change", "use", "instruction", "order"}
  BY DEF CallType
<1> QED BY <1>1, <1>2, <1>3, <1>4, <1>5

\* What was so stays so.
Lasting ==
  /\ \A g : OnChain(g) => OnChain(g)'
  /\ \A m : Evidenced(m) => Evidenced(m)'
  /\ \A m : Allowed(m) => Allowed(m)'
  /\ instructions \subseteq instructions' /\ orders \subseteq orders'

LEMMA GrowthLasts ==
  ASSUME \A i \in DOMAIN consent : i \in DOMAIN consent' /\ consent'[i] = consent[i],
         approved \subseteq approved', instructions \subseteq instructions', orders \subseteq orders'
  PROVE  Lasting
<1>1. \A g : OnChain(g) => OnChain(g)'
  BY DEF OnChain
<1>2. \A m : Evidenced(m) => Evidenced(m)'
  BY DEF Evidenced, Uses
<1>3. \A m : Allowed(m) => Allowed(m)'
  BY DEF Allowed, GrantedFor
<1> QED BY <1>1, <1>2, <1>3 DEF Lasting

LEMMA PostKeepsRemote ==
  ASSUME RemoteInv, NEW kind, NEW x, Grounded(kind, x), Posted(kind, x),
         approved \subseteq approved'
  PROVE  RemoteInv' /\ Lasting
<1>1. [kind |-> kind, what |-> x] \in CallType /\ consent \in Seq(Entry)
  BY DEF Grounded, RemoteInv
<1>2. /\ consent' \in Seq(Entry)
      /\ \A i \in DOMAIN consent : i \in DOMAIN consent' /\ consent'[i] = consent[i]
      /\ instructions' \in {instructions, instructions \cup {x}}
      /\ orders' \in {orders, orders \cup {x}}
      /\ instructions' # instructions => kind = "instruction"
      /\ orders' # orders => kind = "order"
  BY <1>1, ReceiveGrows DEF Posted
<1>3. Lasting
  BY <1>2, GrowthLasts
<1>4. kind = "instruction" => x \in Match
  BY <1>1 DEF CallType
<1>5. instructions' \subseteq Match /\ orders' \subseteq instructions'
  BY <1>2, <1>3, <1>4 DEF RemoteInv, Grounded, Lasting
<1>6. \A m \in instructions' : Evidenced(m)' /\ Allowed(m)'
  BY <1>2, <1>3 DEF RemoteInv, Grounded, Lasting
<1>7. ASSUME NEW call \in late'
      PROVE  call \in CallType /\ Grounded(call.kind, call.what)'
  <2>1. call \in CallType /\ Grounded(call.kind, call.what)
    BY DEF Posted, RemoteInv, Grounded
  <2> QED BY <2>1, <1>3 DEF Grounded, Lasting
<1> QED BY <1>2, <1>3, <1>5, <1>6, <1>7 DEF RemoteInv

LEMMA QuietKeepsRemote ==
  ASSUME RemoteInv, Quiet, approved \subseteq approved'
  PROVE  RemoteInv' /\ Lasting
<1>1. Lasting
  BY GrowthLasts DEF Quiet
<1> QED BY <1>1 DEF Quiet, RemoteInv, Grounded, Lasting

-----------------------------------------------------------------------------
\* The coordinator's side of a step, once its call is known to be grounded.
LEMMA GrantKeepsSafe ==
  ASSUME SafeInv, NEW p \in Pair, NEW g \in Grant, GrantMandate(p, g)
  PROVE  SafeInv'
<1>1. Grounded("change", GrantEntry(p, g)) /\ Posted("change", GrantEntry(p, g))
  BY CallsPost DEF Grounded, CallType, Entry, ChangeType, GrantEntry, GrantMandate
<1>2. RemoteInv' /\ Lasting
  BY <1>1, PostKeepsRemote DEF SafeInv, GrantMandate
<1>3. HandlerInv'
  BY <1>2 DEF SafeInv, HandlerInv, GrantMandate, Lasting, Committed, Idle
<1>4. \A q \in Pair : (mandate[q] # NoMandate => OnChain(mandate[q]))'
  <2>1. CASE UNCHANGED mandate
    BY <1>2, <2>1 DEF SafeInv, MemoryInv, Lasting
  <2>2. CASE Answered("change", GrantEntry(p, g)) /\ mandate' = [mandate EXCEPT ![p] = g]
    <3>1. consent' = Append(consent, GrantEntry(p, g)) /\ GrantEntry(p, g) \in Entry
      BY <2>2 DEF Answered, Receive, Entry, ChangeType, GrantEntry
    <3>2. OnChain(g)'
      BY <3>1, AppendProperties DEF OnChain, GrantEntry, SafeInv, RemoteInv
    <3> QED BY <1>2, <2>2, <3>2 DEF SafeInv, MemoryInv, Lasting
  <2> QED BY <2>1, <2>2 DEF GrantMandate
<1>5. MemoryInv'
  BY <1>2, <1>4 DEF SafeInv, MemoryInv, GrantMandate, Lasting
<1> QED BY <1>2, <1>3, <1>5 DEF SafeInv

LEMMA RevokeKeepsSafe ==
  ASSUME SafeInv, NEW p \in Pair, RevokeMandate(p)
  PROVE  SafeInv'
<1>1. Grounded("change", RevokeEntry(p)) /\ Posted("change", RevokeEntry(p))
  BY CallsPost DEF Grounded, CallType, Entry, ChangeType, RevokeEntry, RevokeMandate
<1>2. RemoteInv' /\ Lasting
  BY <1>1, PostKeepsRemote DEF SafeInv, RevokeMandate
<1>3. HandlerInv'
  BY <1>2 DEF SafeInv, HandlerInv, RevokeMandate, Lasting, Committed, Idle
<1>4. \A q \in Pair : (mandate[q] # NoMandate => OnChain(mandate[q]))'
  BY <1>2 DEF SafeInv, MemoryInv, Lasting, RevokeMandate
<1>5. MemoryInv'
  BY <1>2, <1>4 DEF SafeInv, MemoryInv, RevokeMandate, Lasting
<1> QED BY <1>2, <1>3, <1>5 DEF SafeInv

\* A commit on its way to the ledger.
LEMMA CommittingType ==
  ASSUME NEW c \in Commit, NEW via \in Via, NEW second \in 0 .. MaxTime
  PROVE  /\ Committing(c, via, second) \in HandlerType
         /\ Committing(c, via, second).pc = "use" /\ Committing(c, via, second).commit = c
         /\ Committing(c, via, second).via = via /\ Committing(c, via, second).checked = second
BY DEF Committing, Idle, HandlerType, Commit, Via

LEMMA SecondsType == SafeInv => now \in 0 .. MaxTime /\ handler.checked \in 0 .. MaxTime
BY DEF SafeInv, MemoryInv, HandlerInv, HandlerType

LEMMA IdleType == Idle \in HandlerType /\ Idle.pc = "idle" /\ Idle.via = "delegate"
                    /\ Idle.commit = NoCommit
BY DEF Idle, HandlerType, Via

LEMMA DelegateKeepsSafe ==
  ASSUME SafeInv, NEW p \in Pair, NEW n \in Need, DelegateNeed(p, n)
  PROVE  SafeInv'
<1>1. Quiet /\ approved' = approved /\ UNCHANGED <<mandate, held, activity, executed, now>>
  BY DEF DelegateNeed, Quiet, remote
<1>2. RemoteInv' /\ Lasting
  BY <1>1, QuietKeepsRemote DEF SafeInv
<1>3. pending' \subseteq pending
  BY DEF DelegateNeed
<1>4. MemoryInv'
  BY <1>1, <1>2, <1>3 DEF SafeInv, MemoryInv, Lasting
<1>5. mandate[p] \in Grant /\ OnChain(mandate[p])
  BY DEF DelegateNeed, Valid, SafeInv, MemoryInv
<1>6. CASE handler' = Dispatching(p, n)
  <2>1. handler' \in HandlerType /\ handler'.pc = "dispatch"
        /\ handler'.pair = p /\ handler'.need = n /\ handler'.scope = mandate[p]
    BY <1>5, <1>6, SecondsType DEF Dispatching, Idle, HandlerType, Via
  <2>2. OnChain(handler.scope)'
    BY <1>1, <1>2, <1>5, <2>1 DEF Quiet, OnChain
  <2> QED BY <1>2, <1>4, <1>5, <2>1, <2>2 DEF SafeInv, HandlerInv, Committed
<1>7. ASSUME NEW c \in pending, handler' = Committing(c, "delegate", now)
      PROVE  HandlerInv'
  <2>1. c \in Commit /\ Allowed(MatchOf(c))
    BY DEF SafeInv, MemoryInv
  <2>2. Allowed(MatchOf(handler.commit))'
    BY <1>2, <1>7, <2>1, CommittingType, SecondsType DEF Via, Lasting
  <2> QED BY <1>7, <2>1, <2>2, CommittingType, SecondsType DEF HandlerInv, Committed, Via
<1> QED BY <1>2, <1>4, <1>6, <1>7 DEF DelegateNeed, SafeInv

LEMMA ApproveKeepsSafe ==
  ASSUME SafeInv, NEW c \in held, Approve(c)
  PROVE  SafeInv'
<1>1. Quiet /\ approved \subseteq approved' /\ UNCHANGED <<memory, executed, now>>
  BY DEF Approve, Quiet, remote
<1>2. RemoteInv' /\ Lasting
  BY <1>1, QuietKeepsRemote DEF SafeInv
<1>3. \A q \in Pair : (mandate[q] # NoMandate => OnChain(mandate[q]))'
  BY <1>1, <1>2 DEF SafeInv, MemoryInv, Lasting, memory
<1>4. MemoryInv'
  BY <1>1, <1>2, <1>3 DEF SafeInv, MemoryInv, Lasting, memory
<1>5. CASE handler' = Committing(c, "approval", now)
  <2>1. c \in Commit /\ MatchOf(c) \in approved'
    BY DEF SafeInv, MemoryInv, Approve
  <2>2. Allowed(MatchOf(handler.commit))'
    BY <1>5, <2>1, CommittingType, SecondsType DEF Via, Allowed
  <2> QED BY <1>2, <1>4, <1>5, <2>1, <2>2, CommittingType, SecondsType DEF SafeInv, HandlerInv, Committed, Via
<1>6. CASE handler' = Idle
  BY <1>2, <1>4, <1>6, IdleType DEF SafeInv, HandlerInv, Committed
<1> QED BY <1>5, <1>6 DEF Approve

LEMMA ShortlistKeepsSafe ==
  ASSUME SafeInv, NEW catalog \in SUBSET Offer, Shortlist(catalog)
  PROVE  SafeInv'
<1>1. Quiet /\ approved' = approved /\ UNCHANGED <<mandate, pending, activity, now>>
      /\ executed' \in 1 .. MaxEnv
  BY DEF Shortlist, Quiet, remote, history, SafeInv, MemoryInv
<1>2. RemoteInv' /\ Lasting
  BY <1>1, QuietKeepsRemote DEF SafeInv
<1>3. \A q \in Pair : (mandate[q] # NoMandate => OnChain(mandate[q]))'
  BY <1>1, <1>2 DEF SafeInv, MemoryInv, Lasting
<1>4. handler.pair \in Pair /\ handler.need \in Need /\ handler.scope \in Grant
      /\ OnChain(handler.scope)
  BY DEF Shortlist, SafeInv, HandlerInv
<1>5. CASE handler' = Idle /\ UNCHANGED held
  <2>1. MemoryInv'
    BY <1>1, <1>2, <1>3, <1>5 DEF SafeInv, MemoryInv, Lasting
  <2> QED BY <1>2, <1>5, <2>1, IdleType DEF SafeInv, HandlerInv, Committed
<1> DEFINE c(o) == [pair |-> handler.pair, need |-> handler.need, env |-> executed',
                    offer |-> o, category |-> handler.scope.category]
<1>6. \A o \in Offer : c(o) \in Commit
  BY <1>1, <1>4 DEF Commit
<1>7. ASSUME NEW o \in Offer, handler' = Committing(c(o), "delegate", handler.checked), UNCHANGED held,
             Category[o] = handler.scope.category, Price[o] <= handler.scope.cap
      PROVE  SafeInv'
  <2>1. MemoryInv'
    BY <1>1, <1>2, <1>3, <1>7 DEF SafeInv, MemoryInv, Lasting
  <2>2. GrantedFor(o)
    BY <1>4, <1>7 DEF OnChain, GrantedFor
  <2>3. c(o) \in Commit
    BY <1>6
  <2>4. Allowed(MatchOf(c(o)))
    BY <2>2 DEF Allowed, MatchOf
  <2>5. Allowed(MatchOf(handler.commit))'
    <3>1. handler'.commit = c(o)
      BY <1>7, <2>3, CommittingType, SecondsType DEF Via
    <3> HIDE DEF c
    <3> QED BY <3>1, <1>2, <2>4 DEF Lasting
  <2> HIDE DEF c
  <2> QED BY <1>2, <1>7, <2>1, <2>3, <2>5, CommittingType, SecondsType DEF SafeInv, HandlerInv, Committed, Via
<1>8. ASSUME NEW o \in Offer, handler' = Idle, held' = held \cup {c(o)}
      PROVE  SafeInv'
  <2>1. MemoryInv'
    <3> HIDE DEF c
    <3> QED BY <1>1, <1>2, <1>3, <1>6, <1>8 DEF SafeInv, MemoryInv, Lasting
  <2> QED BY <1>2, <1>8, <2>1, IdleType DEF SafeInv, HandlerInv, Committed
<1>9. Fits[handler.need] \cap catalog \subseteq Offer
  OBVIOUS
<1> QED BY <1>5, <1>7, <1>8, <1>9 DEF Shortlist

\* A failed commit is kept with all that was true of it.
LEMMA RetryKeepsSafe ==
  ASSUME SafeInv, RemoteInv', Lasting, Committed, KeepForRetry, UNCHANGED <<mandate, held>>,
         UNCHANGED <<activity, executed, now>>
  PROVE  SafeInv'
<1>1. handler.commit \in Commit /\ Allowed(MatchOf(handler.commit))
  BY DEF SafeInv, HandlerInv
<1>2. pending' \subseteq pending \cup {handler.commit}
  BY DEF KeepForRetry
<1>3. \A c \in pending \cup {handler.commit} : Allowed(MatchOf(c))
  BY <1>1 DEF SafeInv, MemoryInv
<1>4. \A c \in pending' : Allowed(MatchOf(c))'
  BY <1>2, <1>3 DEF Lasting
<1>5. \A q \in Pair : (mandate[q] # NoMandate => OnChain(mandate[q]))'
  BY DEF SafeInv, MemoryInv, Lasting
<1>6. MemoryInv'
  BY <1>1, <1>2, <1>4, <1>5 DEF SafeInv, MemoryInv, Lasting
<1>7. handler' = Idle
  BY DEF KeepForRetry
<1> QED BY <1>6, <1>7, IdleType DEF SafeInv, HandlerInv, Committed

\* The next call of a commit.
LEMMA NextCallKeepsSafe ==
  ASSUME SafeInv, RemoteInv', Lasting, Committed, UNCHANGED <<memory, executed, now>>,
         NEW pc \in {"instruct", "order"}, handler' = [handler EXCEPT !.pc = pc],
         Evidenced(MatchOf(handler.commit))',
         pc = "order" => MatchOf(handler.commit) \in instructions'
  PROVE  SafeInv'
<1>1. /\ handler' \in HandlerType /\ handler'.pc = pc /\ handler'.commit = handler.commit
  BY DEF SafeInv, HandlerInv, HandlerType
<1>2. handler.commit \in Commit /\ Allowed(MatchOf(handler.commit))
  BY DEF SafeInv, HandlerInv
<1>3. Allowed(MatchOf(handler.commit))'
  BY <1>1, <1>2 DEF Lasting
<1>4. \A q \in Pair : (mandate[q] # NoMandate => OnChain(mandate[q]))'
  BY DEF SafeInv, MemoryInv, Lasting, memory
<1>5. MemoryInv'
  BY <1>4 DEF SafeInv, MemoryInv, Lasting, memory
<1> QED BY <1>1, <1>2, <1>3, <1>5 DEF SafeInv, HandlerInv, Committed

LEMMA UseType_ ==
  ASSUME SafeInv, handler.pc = "use"
  PROVE  UseEntry(handler.commit, handler.via) \in UseType
<1>1. /\ handler.commit \in Commit /\ handler.via \in Via
      /\ now \in 0 .. MaxTime /\ handler.checked \in 0 .. MaxTime
  BY DEF SafeInv, HandlerInv, MemoryInv, HandlerType, Committed
<1>2. /\ handler.commit.pair \in Pair /\ handler.commit.category \in {g.category : g \in Grant}
      /\ Price[handler.commit.offer] \in Int
  BY <1>1 DEF Commit
<1> QED BY <1>1, <1>2, MatchOfCommit DEF UseEntry, UseType

LEMMA RecordUseKeepsSafe == SafeInv /\ RecordUse => SafeInv'
<1> SUFFICES ASSUME SafeInv, RecordUse
             PROVE  SafeInv'
  OBVIOUS
<1> DEFINE use == UseEntry(handler.commit, handler.via)
<1>1. use \in UseType /\ use.match = MatchOf(handler.commit) /\ use.action = "use"
  BY UseType_ DEF RecordUse, UseEntry
<1> HIDE DEF use
<1>2. Grounded("use", use)
  BY <1>1 DEF Grounded, CallType, Entry, ChangeType
<1>3. Posted("use", use) /\ approved' = approved /\ Committed
      /\ UNCHANGED <<mandate, held, activity, executed, now>>
  BY CallsPost DEF RecordUse, use, Committed, history
<1>4. RemoteInv' /\ Lasting
  BY <1>2, <1>3, PostKeepsRemote DEF SafeInv
<1>5. CASE Answered("use", use) /\ handler' = [handler EXCEPT !.pc = "instruct"] /\ UNCHANGED pending
  <2>1. consent' = Append(consent, use) /\ use \in Entry /\ consent \in Seq(Entry)
    BY <1>1, <1>5 DEF Answered, Receive, Entry, ChangeType, SafeInv, RemoteInv
  <2>2. handler'.commit = handler.commit
    BY <1>5 DEF SafeInv, HandlerInv, HandlerType
  <2>3. Evidenced(MatchOf(handler.commit))'
    <3>1. Len(consent) + 1 \in DOMAIN consent' /\ consent'[Len(consent) + 1] = use
      BY <2>1, AppendProperties
    <3> QED BY <3>1, <1>1, <2>2 DEF Evidenced, Uses
  <2> QED BY <1>3, <1>4, <1>5, <2>3, NextCallKeepsSafe DEF memory
<1>6. CASE Fails("use", use) /\ KeepForRetry
  BY <1>3, <1>4, <1>6, RetryKeepsSafe
<1> QED BY <1>5, <1>6 DEF RecordUse, use

LEMMA PostInstructionKeepsSafe == SafeInv /\ PostInstruction => SafeInv'
<1> SUFFICES ASSUME SafeInv, PostInstruction
             PROVE  SafeInv'
  OBVIOUS
<1> DEFINE m == MatchOf(handler.commit)
<1>1. m \in Match /\ Evidenced(m) /\ Allowed(m) /\ Committed
  BY MatchOfCommit DEF PostInstruction, Committed, SafeInv, HandlerInv
<1>2. Grounded("instruction", m)
  BY <1>1 DEF Grounded, CallType
<1>3. Posted("instruction", m) /\ approved' = approved
      /\ UNCHANGED <<mandate, held, activity, executed, now>>
  BY CallsPost DEF PostInstruction, history
<1>4. RemoteInv' /\ Lasting
  BY <1>2, <1>3, PostKeepsRemote DEF SafeInv
<1>5. CASE Answered("instruction", m) /\ handler' = [handler EXCEPT !.pc = "order"] /\ UNCHANGED pending
  <2>1. m \in instructions'
    BY <1>5 DEF Answered, Receive
  <2>2. handler'.commit = handler.commit
    BY <1>5 DEF SafeInv, HandlerInv, HandlerType
  <2>3. Evidenced(MatchOf(handler.commit))'
    BY <1>1, <1>4, <2>2 DEF Lasting
  <2> QED BY <1>1, <1>3, <1>4, <1>5, <2>1, <2>3, NextCallKeepsSafe DEF memory
<1>6. CASE Fails("instruction", m) /\ KeepForRetry
  BY <1>1, <1>3, <1>4, <1>6, RetryKeepsSafe
<1> QED BY <1>5, <1>6 DEF PostInstruction

LEMMA CreateOrderKeepsSafe == SafeInv /\ CreateOrder => SafeInv'
<1> SUFFICES ASSUME SafeInv, CreateOrder
             PROVE  SafeInv'
  OBVIOUS
<1> DEFINE m == MatchOf(handler.commit)
<1>1. m \in Match /\ m \in instructions /\ Committed
  BY MatchOfCommit DEF CreateOrder, Committed, SafeInv, HandlerInv
<1>2. Grounded("order", m)
  BY <1>1 DEF Grounded, CallType
<1>3. Posted("order", m) /\ approved' = approved /\ UNCHANGED <<mandate, executed, now>>
  BY CallsPost DEF CreateOrder
<1>4. RemoteInv' /\ Lasting
  BY <1>2, <1>3, PostKeepsRemote DEF SafeInv
<1>5. CASE Answered("order", m) /\ activity' = Append(activity, m) /\ handler' = Idle
           /\ held' \subseteq held /\ UNCHANGED pending
  <2>1. m \in orders'
    BY <1>5 DEF Answered, Receive
  <2>2. \A q \in Pair : (mandate[q] # NoMandate => OnChain(mandate[q]))'
    BY <1>3, <1>4 DEF SafeInv, MemoryInv, Lasting
  <2>3. activity' \in Seq(Match) /\ \A i \in DOMAIN activity' : activity'[i] \in orders'
    <3> HIDE DEF m
    <3>1. activity \in Seq(Match) /\ \A i \in DOMAIN activity : activity[i] \in orders'
      BY <1>4 DEF SafeInv, MemoryInv, Lasting
    <3> QED BY <3>1, <1>1, <1>5, <2>1, AppendProperties
  <2>4. MemoryInv'
    BY <1>3, <1>4, <1>5, <2>2, <2>3 DEF SafeInv, MemoryInv, Lasting
  <2> QED BY <1>4, <1>5, <2>4, IdleType DEF SafeInv, HandlerInv, Committed
<1>6. CASE Fails("order", m) /\ KeepForRetry /\ UNCHANGED <<activity, held, dropped>>
  BY <1>1, <1>3, <1>4, <1>6, RetryKeepsSafe
<1> QED BY <1>5, <1>6 DEF CreateOrder

\* The steps that send nothing.
LEMMA OthersKeepSafe ==
  ASSUME SafeInv, DispatchFails \/ OrderRefused \/ CrashCoordinator \/ Tick \/ UNCHANGED vars
  PROVE  SafeInv'
<1>1. Quiet /\ approved' = approved /\ executed' = executed /\ now' \in 0 .. MaxTime
  BY DEF DispatchFails, OrderRefused, Refused, CrashCoordinator, Tick, vars, Quiet, remote,
         history, SafeInv, MemoryInv
<1>2. RemoteInv' /\ Lasting
  BY <1>1, QuietKeepsRemote DEF SafeInv
<1>3. handler' = Idle \/ handler' = handler
  BY DEF DispatchFails, OrderRefused, CrashCoordinator, Tick, vars
<1>4. HandlerInv'
  <2>1. CASE handler' = Idle
    BY <2>1, IdleType DEF HandlerInv, Committed
  <2>2. CASE handler' = handler
    BY <1>2, <2>2 DEF SafeInv, HandlerInv, Committed, Lasting
  <2> QED BY <1>3, <2>1, <2>2
<1>5. \/ UNCHANGED memory
      \/ mandate' = [p \in Pair |-> NoMandate] /\ pending' = {} /\ held' = {} /\ activity' = << >>
  BY DEF DispatchFails, OrderRefused, CrashCoordinator, Tick, vars
<1>6. \A q \in Pair : (mandate[q] # NoMandate => OnChain(mandate[q]))'
  BY <1>2, <1>5 DEF SafeInv, MemoryInv, Lasting, memory
<1>7. MemoryInv'
  <2>1. CASE UNCHANGED memory
    BY <1>1, <1>2, <1>6, <2>1 DEF SafeInv, MemoryInv, Lasting, memory
  <2>2. CASE /\ mandate' = [p \in Pair |-> NoMandate] /\ pending' = {} /\ held' = {}
             /\ activity' = << >>
    BY <1>1, <1>6, <2>2 DEF SafeInv, MemoryInv
  <2> QED BY <1>5, <2>1, <2>2
<1> QED BY <1>2, <1>4, <1>7 DEF SafeInv

LEMMA LateKeepsSafe ==
  ASSUME SafeInv, NEW call \in late, LateArrives(call)
  PROVE  SafeInv'
<1>1. Grounded(call.kind, call.what) /\ Posted(call.kind, call.what)
  BY DEF SafeInv, RemoteInv, LateArrives, Posted
<1>2. RemoteInv' /\ Lasting
  BY <1>1, PostKeepsRemote DEF SafeInv, LateArrives
<1>3. HandlerInv'
  BY <1>2 DEF SafeInv, HandlerInv, LateArrives, Lasting, Committed
<1>4. \A q \in Pair : (mandate[q] # NoMandate => OnChain(mandate[q]))'
  BY <1>2 DEF SafeInv, MemoryInv, Lasting, LateArrives, memory
<1>5. MemoryInv'
  BY <1>2, <1>4 DEF SafeInv, MemoryInv, LateArrives, Lasting, memory
<1> QED BY <1>2, <1>3, <1>5 DEF SafeInv

LEMMA SafeInvHolds == Spec => []SafeInv
<1>1. Init => SafeInv
  BY IdleType DEF Init, SafeInv, RemoteInv, HandlerInv, MemoryInv, Committed
<1>2. SafeInv /\ [Next]_vars => SafeInv'
  BY GrantKeepsSafe, RevokeKeepsSafe, DelegateKeepsSafe, ApproveKeepsSafe, ShortlistKeepsSafe,
     RecordUseKeepsSafe, PostInstructionKeepsSafe, CreateOrderKeepsSafe, OthersKeepSafe,
     LateKeepsSafe
     DEF Next
<1> QED BY <1>1, <1>2, PTL DEF Spec

-----------------------------------------------------------------------------
\* What is said of the pairs and of the chain names pairs and positions.
LEMMA PostGrowsChain ==
  ASSUME SafeInv, NEW kind, NEW x, Grounded(kind, x), Posted(kind, x)
  PROVE  /\ DOMAIN consent \subseteq DOMAIN consent'
         /\ Grown => Len(consent') \in DOMAIN consent'
         /\ Grown => consent' = Append(consent, x) /\ x \in Entry
<1>1. /\ consent \in Seq(Entry)
      /\ \A i \in DOMAIN consent : i \in DOMAIN consent'
      /\ consent' = consent \/ (consent' = Append(consent, x) /\ x \in Entry)
  BY ReceiveGrows DEF Grounded, Posted, SafeInv, RemoteInv
<1>2. x \in Entry => Len(Append(consent, x)) \in DOMAIN Append(consent, x)
  BY <1>1, AppendProperties
<1> QED BY <1>1, <1>2 DEF Grown

LEMMA ChangeKeepsHistory ==
  ASSUME SafeInv, HistoryInv, NEW p \in Pair,
         (\E g \in Grant : GrantMandate(p, g)) \/ RevokeMandate(p)
  PROVE  HistoryInv'
<1>1. unheard' \subseteq unheard \cup {p} /\ excused' = excused
  BY DEF GrantMandate, RevokeMandate
<1>2. CASE RevokeMandate(p)
  <2>1. Grounded("change", RevokeEntry(p)) /\ Posted("change", RevokeEntry(p))
    BY <1>2, CallsPost DEF Grounded, CallType, ChangeType, RevokeEntry, RevokeMandate
  <2> QED BY <1>1, <2>1, PostGrowsChain DEF HistoryInv
<1>3. ASSUME NEW g \in Grant, GrantMandate(p, g)
      PROVE  HistoryInv'
  <2>1. Grounded("change", GrantEntry(p, g)) /\ Posted("change", GrantEntry(p, g))
    BY <1>3, CallsPost DEF Grounded, CallType, ChangeType, GrantEntry, GrantMandate
  <2> QED BY <1>1, <2>1, PostGrowsChain DEF HistoryInv
<1> QED BY <1>2, <1>3

LEMMA RecordUseKeepsHistory == SafeInv /\ HistoryInv /\ RecordUse => HistoryInv'
<1> SUFFICES ASSUME SafeInv, HistoryInv, RecordUse
             PROVE  HistoryInv'
  OBVIOUS
<1> DEFINE use == UseEntry(handler.commit, handler.via)
<1>1. use \in UseType
  BY UseType_ DEF RecordUse
<1>2. Posted("use", use) /\ unheard' = unheard
  BY CallsPost DEF RecordUse
<1>3. excused' = IF Grown /\ use.pair \in unheard THEN excused \cup {Len(consent')} ELSE excused
  BY DEF RecordUse
<1> HIDE DEF use
<1>4. Grounded("use", use)
  BY <1>1 DEF Grounded, CallType
<1> QED BY <1>2, <1>3, <1>4, PostGrowsChain DEF HistoryInv

LEMMA LateKeepsHistory ==
  ASSUME SafeInv, HistoryInv, NEW call \in late, LateArrives(call)
  PROVE  HistoryInv'
<1>1. /\ Grounded(call.kind, call.what) /\ Posted(call.kind, call.what)
      /\ call \in CallType /\ consent \in Seq(Entry)
  BY DEF SafeInv, RemoteInv, LateArrives, Posted
<1>2. DOMAIN consent \subseteq DOMAIN consent'
  BY <1>1, PostGrowsChain
<1>3. CASE call.kind = "change"
  <2>1. call.what.pair \in Pair
    BY <1>1, <1>3 DEF CallType, ChangeType
  <2> QED BY <1>2, <1>3, <2>1 DEF HistoryInv, LateArrives
<1>4. CASE call.kind = "use"
  <2>1. consent' = Append(consent, call.what) /\ call.what \in Entry
    BY <1>1, <1>4 DEF LateArrives, Receive, CallType, Entry
  <2>2. Len(consent') \in DOMAIN consent'
    BY <1>1, <2>1, AppendProperties
  <2> QED BY <1>2, <1>4, <2>2 DEF HistoryInv, LateArrives
<1>5. CASE call.kind \notin {"change", "use"}
  BY <1>2, <1>5 DEF HistoryInv, LateArrives
<1> QED BY <1>3, <1>4, <1>5

LEMMA OthersKeepHistory ==
  ASSUME SafeInv, HistoryInv,
         \/ \E p \in Pair, n \in Need : DelegateNeed(p, n)
         \/ \E c \in held : Approve(c)
         \/ \E catalog \in SUBSET Offer : Shortlist(catalog)
         \/ PostInstruction \/ CreateOrder \/ DispatchFails \/ OrderRefused
         \/ CrashCoordinator \/ Tick \/ UNCHANGED vars
  PROVE  HistoryInv'
<1>1. UNCHANGED <<unheard, excused>>
  BY DEF DelegateNeed, Approve, Shortlist, PostInstruction, CreateOrder, DispatchFails, OrderRefused,
         CrashCoordinator, Tick, vars, history
<1>2. UNCHANGED consent
  BY DEF DelegateNeed, Approve, Shortlist, PostInstruction, CreateOrder, DispatchFails, OrderRefused,
         CrashCoordinator, Tick, vars, remote, Answered, Fails, Refused, Receive
<1> QED BY <1>1, <1>2 DEF HistoryInv

LEMMA HistoryInvHolds == Spec => []HistoryInv
<1>1. Init => HistoryInv
  BY DEF Init, HistoryInv
<1>2. SafeInv /\ HistoryInv /\ [Next]_vars => HistoryInv'
  BY ChangeKeepsHistory, RecordUseKeepsHistory, LateKeepsHistory, OthersKeepHistory DEF Next
<1> QED BY <1>1, <1>2, SafeInvHolds, PTL DEF Spec

\* Types of all that the coordinator, the ledger and the seller keep.
THEOREM TypeCorrect == Spec => []TypeOK
<1>1. SafeInv /\ HistoryInv => TypeOK
  <2> SUFFICES ASSUME SafeInv, HistoryInv
               PROVE  TypeOK
    OBVIOUS
  <2>1. ASSUME NEW i \in Uses
        PROVE  consent[i].match \in Match /\ consent[i].ts \in 0 .. MaxTime
    <3>1. consent[i] \in Entry /\ consent[i].action = "use"
      BY DEF Uses, SafeInv, RemoteInv
    <3> QED BY <3>1 DEF Entry, ChangeType, UseType
  <2> QED BY <2>1
          DEF SafeInv, RemoteInv, HandlerInv, MemoryInv, HandlerType, HistoryInv, Committed, TypeOK
<1> QED BY <1>1, SafeInvHolds, HistoryInvHolds, PTL

\* Evidence before money before goods, whatever fails and is resumed.
THEOREM EvidenceComesFirst == Spec => []EvidenceFirst
<1>1. SafeInv => EvidenceFirst
  BY DEF SafeInv, RemoteInv, MemoryInv, Evidenced, EvidenceFirst
<1> QED BY <1>1, SafeInvHolds, PTL

\* No money above every cap granted for its category without the principal.
THEOREM OverCapIsWithheld == Spec => []WithheldUntilApproved
<1>1. SafeInv => WithheldUntilApproved
  BY DEF SafeInv, RemoteInv, Allowed, GrantedFor, WithheldUntilApproved
<1> QED BY <1>1, SafeInvHolds, PTL

-----------------------------------------------------------------------------
LEMMA WantedOfPost ==
  ASSUME SafeInv, NEW kind, NEW x, Grounded(kind, x), Posted(kind, x)
  PROVE  /\ Wanted' \subseteq Wanted \cup {x}
         /\ kind # "instruction" => Wanted' \subseteq Wanted
         /\ orders \subseteq orders'
<1>1. /\ instructions' \in {instructions, instructions \cup {x}}
      /\ instructions' # instructions => kind = "instruction"
      /\ orders \subseteq orders'
  BY ReceiveGrows DEF Grounded, SafeInv, RemoteInv, Posted
<1>2. \A call \in late' : call \in late \/ (call.kind = kind /\ call.what = x)
  BY DEF Posted
<1> QED BY <1>1, <1>2 DEF Wanted

LEMMA WantedOfQuiet == Quiet => Wanted' \subseteq Wanted /\ orders' = orders
BY DEF Quiet, Wanted

\* A step that gives nothing up.
LEMMA KeptIsResumable ==
  ASSUME ResumeInv, Wanted' \subseteq Wanted, orders \subseteq orders', dropped \subseteq dropped',
         \A c \in pending \cup held \cup (IF Committed THEN {handler.commit} ELSE {}) :
           \/ c \in (pending \cup held)'
           \/ MatchOf(c) \in orders' \cup dropped'
           \/ Committed' /\ c = handler'.commit
  PROVE  \A m \in Wanted' : Resumable(m)'
BY DEF ResumeInv, Resumable

LEMMA ChangesKeepResume ==
  ASSUME SafeInv, ResumeInv, NEW p \in Pair,
         (\E g \in Grant : GrantMandate(p, g)) \/ RevokeMandate(p)
  PROVE  ResumeInv'
<1>1. \E x : Grounded("change", x) /\ Posted("change", x)
  <2>1. CASE RevokeMandate(p)
    BY <2>1, CallsPost DEF Grounded, CallType, Entry, ChangeType, RevokeEntry, RevokeMandate
  <2>2. ASSUME NEW g \in Grant, GrantMandate(p, g)
        PROVE  \E x : Grounded("change", x) /\ Posted("change", x)
    BY <2>2, CallsPost DEF Grounded, CallType, Entry, ChangeType, GrantEntry, GrantMandate
  <2> QED BY <2>1, <2>2
<1>2. Wanted' \subseteq Wanted /\ orders \subseteq orders'
  BY <1>1, WantedOfPost
<1>3. handler = Idle /\ handler' = Idle /\ dropped \subseteq dropped' /\ ~ Committed /\ ~ Committed'
  BY IdleType DEF GrantMandate, RevokeMandate, Committed
<1>4. \A c \in pending \cup held : c \in (pending \cup held)' \/ MatchOf(c) \in dropped'
  BY DEF GrantMandate, RevokeMandate
<1> QED BY <1>2, <1>3, <1>4, KeptIsResumable DEF ResumeInv

LEMMA StartsKeepResume ==
  ASSUME SafeInv, ResumeInv,
         \/ \E p \in Pair, n \in Need : DelegateNeed(p, n)
         \/ \E c \in held : Approve(c)
         \/ \E catalog \in SUBSET Offer : Shortlist(catalog)
  PROVE  ResumeInv'
<1>1. Wanted' \subseteq Wanted /\ orders' = orders /\ ~ Committed
  <2>1. Quiet
    BY DEF DelegateNeed, Approve, Shortlist, Quiet, remote
  <2> QED BY <2>1, WantedOfQuiet, IdleType DEF DelegateNeed, Approve, Shortlist, Committed
<1>2. pending \cup held \subseteq Commit
  BY DEF SafeInv, MemoryInv
<1>3. CASE \E p \in Pair, n \in Need : DelegateNeed(p, n)
  <2>1. PICK p \in Pair, n \in Need : DelegateNeed(p, n)
    BY <1>3
  <2>2. CASE handler' = Dispatching(p, n) /\ UNCHANGED <<pending, dropped>>
    <3>1. handler'.pc = "dispatch"
      BY <2>2 DEF Dispatching, Idle
    <3>2. held' = held
      BY <2>1 DEF DelegateNeed
    <3> QED BY <1>1, <2>2, <3>1, <3>2, KeptIsResumable DEF ResumeInv, Committed
  <2>3. ASSUME NEW c \in pending, pending' = pending \ {c},
               \/ handler' = Committing(c, "delegate", now) /\ UNCHANGED dropped
               \/ handler' = Dispatching(p, n) /\ dropped' = dropped \cup {MatchOf(c)}
        PROVE  ResumeInv'
    <3>1. held' = held
      BY <2>1 DEF DelegateNeed
    <3>2. CASE handler' = Committing(c, "delegate", now) /\ UNCHANGED dropped
      <4>1. Committed' /\ handler'.commit = c /\ handler'.via = "delegate"
        BY <1>2, <3>2, CommittingType, SecondsType DEF Committed, Via
      <4> QED BY <1>1, <2>3, <3>1, <3>2, <4>1, KeptIsResumable DEF ResumeInv
    <3>3. CASE handler' = Dispatching(p, n) /\ dropped' = dropped \cup {MatchOf(c)}
      <4>1. ~ Committed'
        BY <3>3 DEF Dispatching, Idle, Committed
      <4> QED BY <1>1, <2>3, <3>1, <3>3, <4>1, KeptIsResumable DEF ResumeInv
    <3> QED BY <2>3, <3>2, <3>3
  <2> QED BY <2>1, <2>2, <2>3 DEF DelegateNeed
<1>4. CASE \E c \in held : Approve(c)
  <2>1. PICK c \in held : Approve(c)
    BY <1>4
  <2>2. UNCHANGED <<pending, held, dropped>>
    BY <2>1 DEF Approve, memory
  <2>3. Committed' /\ handler'.via = "approval" => handler'.commit \in held'
    BY <1>2, <2>1, <2>2, CommittingType, SecondsType, IdleType DEF Approve, Committed, Via
  <2> QED BY <1>1, <2>2, <2>3, KeptIsResumable DEF ResumeInv
<1>5. CASE \E catalog \in SUBSET Offer : Shortlist(catalog)
  <2>1. pending' = pending /\ held \subseteq held' /\ dropped' = dropped
    BY <1>5 DEF Shortlist, history
  <2>2. handler'.via = "delegate"
    BY <1>5, IdleType DEF Shortlist, Committing, Idle
  <2> QED BY <1>1, <2>1, <2>2, KeptIsResumable DEF ResumeInv
<1> QED BY <1>3, <1>4, <1>5

\* A failed commit waits where a retry finds it.
LEMMA RetryKeepsResume ==
  ASSUME SafeInv, ResumeInv, Committed, KeepForRetry, UNCHANGED <<held, dropped>>,
         Wanted' \subseteq Wanted \cup {MatchOf(handler.commit)}, orders \subseteq orders'
  PROVE  ResumeInv'
<1>1. pending \subseteq pending' /\ handler.commit \in (pending \cup held)' /\ ~ Committed'
  <2>1. handler.via = "delegate" \/ handler.via = "approval"
    BY DEF SafeInv, HandlerInv, HandlerType, Via
  <2> QED BY <2>1, IdleType DEF KeepForRetry, ResumeInv, Committed
<1> QED BY <1>1 DEF ResumeInv, Resumable

LEMMA NextCallKeepsResume ==
  ASSUME SafeInv, ResumeInv, Committed, UNCHANGED <<pending, held, dropped>>,
         NEW pc \in {"instruct", "order"}, handler' = [handler EXCEPT !.pc = pc],
         Wanted' \subseteq Wanted \cup {MatchOf(handler.commit)}, orders \subseteq orders'
  PROVE  ResumeInv'
<1>1. Committed' /\ handler'.commit = handler.commit /\ handler'.via = handler.via
  BY DEF SafeInv, HandlerInv, HandlerType, Committed
<1> QED BY <1>1 DEF ResumeInv, Resumable

LEMMA CommitKeepsResume ==
  ASSUME SafeInv, ResumeInv, RecordUse \/ PostInstruction \/ CreateOrder
  PROVE  ResumeInv'
<1> DEFINE m == MatchOf(handler.commit)
           use == UseEntry(handler.commit, handler.via)
<1>1. Committed
  BY DEF RecordUse, PostInstruction, CreateOrder, Committed
<1>2. CASE RecordUse
  <2>1. Grounded("use", use) /\ Posted("use", use)
    BY <1>2, UseType_, CallsPost DEF RecordUse, Grounded, CallType, Entry, ChangeType
  <2>2. Wanted' \subseteq Wanted /\ orders \subseteq orders'
    BY <2>1, WantedOfPost
  <2> QED BY <1>1, <1>2, <2>2, RetryKeepsResume, NextCallKeepsResume DEF RecordUse, history
<1>3. CASE PostInstruction
  <2>1. Grounded("instruction", m) /\ Posted("instruction", m)
    BY <1>3, MatchOfCommit, CallsPost
       DEF PostInstruction, Grounded, CallType, SafeInv, HandlerInv, Committed
  <2>2. Wanted' \subseteq Wanted \cup {m} /\ orders \subseteq orders'
    BY <2>1, WantedOfPost
  <2> QED BY <1>1, <1>3, <2>2, RetryKeepsResume, NextCallKeepsResume DEF PostInstruction, history
<1>4. CASE CreateOrder
  <2>1. Grounded("order", m) /\ Posted("order", m)
    BY <1>4, MatchOfCommit, CallsPost
       DEF CreateOrder, Grounded, CallType, SafeInv, HandlerInv, Committed
  <2>2. Wanted' \subseteq Wanted /\ orders \subseteq orders'
    BY <2>1, WantedOfPost
  <2>3. CASE Answered("order", m) /\ handler' = Idle /\ UNCHANGED <<pending, dropped>>
             /\ held \subseteq held' \cup {handler.commit}
    <3>1. m \in orders' /\ ~ Committed'
      BY <2>3, IdleType DEF Answered, Receive, Committed
    <3> QED BY <2>2, <2>3, <3>1, KeptIsResumable DEF ResumeInv
  <2>4. CASE KeepForRetry /\ UNCHANGED <<held, dropped>>
    BY <1>1, <2>2, <2>4, RetryKeepsResume
  <2> QED BY <1>4, <2>3, <2>4 DEF CreateOrder
<1> QED BY <1>2, <1>3, <1>4

LEMMA OthersKeepResume ==
  ASSUME SafeInv, ResumeInv,
         \/ DispatchFails \/ OrderRefused \/ CrashCoordinator \/ Tick \/ UNCHANGED vars
         \/ \E call \in late : LateArrives(call)
  PROVE  ResumeInv'
<1>1. CASE \/ DispatchFails \/ Tick \/ UNCHANGED vars
  <2>1. Quiet /\ UNCHANGED <<pending, held, dropped>>
    BY <1>1 DEF DispatchFails, Tick, vars, Quiet, remote, memory, history
  <2>2. handler' = handler \/ (handler' = Idle /\ ~ Committed)
    BY <1>1 DEF DispatchFails, Tick, vars, Committed
  <2>3. Committed' => Committed /\ handler' = handler
    BY <2>2, IdleType DEF Committed
  <2>4. Committed => Committed' /\ handler' = handler
    BY <2>2 DEF Committed
  <2> QED BY <2>1, <2>3, <2>4, WantedOfQuiet, KeptIsResumable DEF ResumeInv
<1>2. CASE OrderRefused
  <2>1. Quiet /\ UNCHANGED <<pending, held>> /\ handler' = Idle /\ Committed /\ ~ Committed'
    BY <1>2, IdleType DEF OrderRefused, Refused, Quiet, remote, memory, Committed
  <2>2. dropped \subseteq dropped' /\ (MatchOf(handler.commit) \in dropped' \/ handler.commit \in held)
    BY <1>2, <2>1 DEF OrderRefused, ResumeInv, SafeInv, HandlerInv, HandlerType, Via
  <2> QED BY <2>1, <2>2, WantedOfQuiet, KeptIsResumable DEF ResumeInv
<1>3. CASE CrashCoordinator
  <2>1. Quiet /\ handler' = Idle /\ ~ Committed'
    BY <1>3, IdleType DEF CrashCoordinator, Quiet, remote, Committed
  <2>2. dropped \subseteq dropped'
        /\ \A c \in pending \cup held \cup (IF Committed THEN {handler.commit} ELSE {}) :
             MatchOf(c) \in dropped'
    BY <1>3 DEF CrashCoordinator, SafeInv, HandlerInv
  <2> QED BY <2>1, <2>2, WantedOfQuiet, KeptIsResumable DEF ResumeInv
<1>4. ASSUME NEW call \in late, LateArrives(call)
      PROVE  ResumeInv'
  <2>1. Grounded(call.kind, call.what) /\ Posted(call.kind, call.what)
    BY <1>4 DEF SafeInv, RemoteInv, LateArrives, Posted
  <2>2. Wanted' \subseteq Wanted /\ orders \subseteq orders'
    <3>1. CASE call.kind = "instruction"
      BY <2>1, <3>1, WantedOfPost DEF Wanted
    <3> QED BY <2>1, <3>1, WantedOfPost
  <2> QED BY <1>4, <2>2, KeptIsResumable DEF ResumeInv, LateArrives, memory, Committed
<1> QED BY <1>1, <1>2, <1>3, <1>4

\* A commit that failed part-way can be completed, or was given up knowingly.
THEOREM UnfinishedStaysResumable == Spec => []UnfinishedIsResumable
<1>1. Init => ResumeInv
  BY IdleType DEF Init, ResumeInv, Wanted, Committed
<1>2. SafeInv /\ ResumeInv /\ [Next]_vars => ResumeInv'
  BY ChangesKeepResume, StartsKeepResume, CommitKeepsResume, OthersKeepResume DEF Next
<1>3. ResumeInv => UnfinishedIsResumable
  BY IdleType DEF ResumeInv, Wanted, Resumable, Committed, UnfinishedIsResumable
<1> QED BY <1>1, <1>2, <1>3, SafeInvHolds, PTL DEF Spec

-----------------------------------------------------------------------------
LEMMA NothingNewKeepsEnv ==
  ASSUME EnvInv, Live' \subseteq Live, activity' \in {activity, << >>}, executed' = executed
  PROVE  EnvInv'
<1>1. CASE activity' = activity
  BY <1>1 DEF EnvInv
<1>2. CASE activity' = << >>
  BY <1>2 DEF EnvInv, IsInjective
<1> QED BY <1>1, <1>2

LEMMA LiveTypes == SafeInv => Live \subseteq Commit /\ \A c \in Live : c.env \in 1 .. MaxEnv
BY DEF SafeInv, MemoryInv, HandlerInv, Live, Running, Commit

LEMMA ChangesKeepOne ==
  ASSUME OneInv, NEW p \in Pair, (\E g \in Grant : GrantMandate(p, g)) \/ RevokeMandate(p)
  PROVE  OneInv'
<1>1. handler = Idle /\ UNCHANGED <<handler, activity, executed>>
      /\ pending' \subseteq pending /\ held' \subseteq held
  BY DEF GrantMandate, RevokeMandate
<1>2. Live' \subseteq Live
  BY <1>1 DEF Live, Running, Committed
<1> QED BY <1>1, <1>2, NothingNewKeepsEnv, IdleType DEF OneInv, PlaceInv, Committed

LEMMA DelegateKeepsOne ==
  ASSUME SafeInv, OneInv, NEW p \in Pair, NEW n \in Need, DelegateNeed(p, n)
  PROVE  OneInv'
<1>1. UNCHANGED <<held, activity, executed>> /\ pending \subseteq Commit
  BY DEF DelegateNeed, SafeInv, MemoryInv
<1>2. CASE /\ \A c \in pending : c.pair # p \/ c.need # n
           /\ handler' = Dispatching(p, n) /\ pending' = pending
  <2>1. handler'.pc = "dispatch" /\ handler'.pair = p /\ handler'.need = n
    BY <1>2 DEF Dispatching, Idle
  <2>2. Live' \subseteq Live
    BY <1>1, <1>2, <2>1 DEF Live, Running, Committed
  <2> QED BY <1>1, <1>2, <2>1, <2>2, NothingNewKeepsEnv DEF OneInv, PlaceInv, Committed
<1>3. ASSUME NEW c \in pending, c.pair = p, c.need = n, pending' = pending \ {c},
             handler' = Committing(c, "delegate", now) \/ handler' = Dispatching(p, n)
      PROVE  OneInv'
  <2>1. \A d \in pending' : d.pair # p \/ d.need # n
    BY <1>3 DEF OneInv, PlaceInv
  <2>2. CASE handler' = Committing(c, "delegate", now)
    <3>1. Committed' /\ handler'.commit = c /\ handler'.via = "delegate" /\ handler'.pc = "use"
      BY <1>1, <2>2, CommittingType, SecondsType DEF Committed, Via
    <3>2. Live' \subseteq Live
      BY <1>1, <1>3, <3>1 DEF Live, Running
    <3> QED BY <1>1, <1>3, <2>1, <3>1, <3>2, NothingNewKeepsEnv DEF OneInv, PlaceInv
  <2>3. CASE handler' = Dispatching(p, n)
    <3>1. handler'.pc = "dispatch" /\ handler'.pair = p /\ handler'.need = n
      BY <2>3 DEF Dispatching, Idle
    <3>2. Live' \subseteq Live
      BY <1>1, <1>3, <3>1 DEF Live, Running, Committed
    <3> QED
      BY <1>1, <1>3, <2>1, <3>1, <3>2, NothingNewKeepsEnv DEF OneInv, PlaceInv, Committed
  <2> QED BY <1>3, <2>2, <2>3
<1> QED BY <1>2, <1>3 DEF DelegateNeed

LEMMA ApproveKeepsOne ==
  ASSUME SafeInv, OneInv, NEW c \in held, Approve(c)
  PROVE  OneInv'
<1>1. UNCHANGED <<pending, held, activity, executed>> /\ held \subseteq Commit
  BY DEF Approve, memory, SafeInv, MemoryInv
<1>2. CASE handler' = Committing(c, "approval", now)
  <2>1. Committed' /\ handler'.commit = c /\ handler'.via = "approval" /\ handler'.pc = "use"
    BY <1>1, <1>2, CommittingType, SecondsType DEF Committed, Via
  <2>2. Live' \subseteq Live
    BY <1>1, <2>1 DEF Live, Running
  <2> QED BY <1>1, <2>1, <2>2, NothingNewKeepsEnv DEF OneInv, PlaceInv
<1>3. CASE handler' = Idle
  <2>1. ~ Committed' /\ Live' \subseteq Live /\ handler'.pc # "dispatch"
    BY <1>1, <1>3, IdleType DEF Live, Running, Committed
  <2> QED BY <1>1, <2>1, NothingNewKeepsEnv DEF OneInv, PlaceInv
<1> QED BY <1>2, <1>3 DEF Approve

\* A new environment, of which no commit can have been.
LEMMA ShortlistKeepsOne ==
  ASSUME SafeInv, OneInv, NEW catalog \in SUBSET Offer, Shortlist(catalog)
  PROVE  OneInv'
<1>1. /\ UNCHANGED <<pending, activity>> /\ executed' = executed + 1 /\ executed \in Nat
      /\ executed' \in 1 .. MaxEnv /\ handler.pc = "dispatch"
      /\ handler.pair \in Pair /\ handler.need \in Need /\ handler.scope \in Grant
  BY DEF Shortlist, SafeInv, MemoryInv, HandlerInv
<1>2. ~ Committed /\ Live \subseteq Commit /\ \A c \in Live : c.env \in 1 .. MaxEnv
  BY <1>1, LiveTypes DEF Committed
<1>3. \A i \in DOMAIN activity : activity[i].env \in 1 .. MaxEnv
  <2> TAKE i \in DOMAIN activity
  <2>1. activity[i] \in Match
    BY DEF SafeInv, MemoryInv
  <2> QED BY <2>1 DEF Match
<1>4. ASSUME NEW c \in Commit, c.env = executed', Live' \subseteq Live \cup {c}
      PROVE  EnvInv'
  BY <1>1, <1>2, <1>3, <1>4 DEF OneInv, EnvInv, IsInjective
<1>5. CASE handler' = Idle /\ UNCHANGED held
  <2>1. ~ Committed' /\ Live' \subseteq Live /\ handler'.pc # "dispatch"
    BY <1>1, <1>5, IdleType DEF Live, Running, Committed
  <2>2. EnvInv'
    BY <1>1, <1>2, <1>3, <2>1 DEF OneInv, EnvInv, IsInjective
  <2> QED BY <1>1, <1>5, <2>1, <2>2 DEF OneInv, PlaceInv
<1> DEFINE c(o) == [pair |-> handler.pair, need |-> handler.need, env |-> executed',
                    offer |-> o, category |-> handler.scope.category]
<1>6. ASSUME NEW o \in Offer
      PROVE  /\ c(o) \in Commit /\ c(o).env = executed' /\ c(o) \notin Live
             /\ c(o).pair = handler.pair /\ c(o).need = handler.need
  <2>1. c(o) \in Commit /\ c(o).env = executed' /\ c(o).pair = handler.pair /\ c(o).need = handler.need
    BY <1>1 DEF Commit
  <2> HIDE DEF c
  <2> QED BY <1>1, <1>2, <2>1 DEF OneInv, EnvInv
<1> HIDE DEF c
<1>7. ASSUME NEW o \in Offer, handler' = Committing(c(o), "delegate", handler.checked), UNCHANGED held
      PROVE  OneInv'
  <2>1. Committed' /\ handler'.commit = c(o) /\ handler'.via = "delegate" /\ handler'.pc = "use"
    BY <1>6, <1>7, CommittingType, SecondsType DEF Committed, Via
  <2>2. EnvInv'
    BY <1>1, <1>4, <1>6, <1>7, <2>1 DEF Live, Running
  <2>3. c(o) \notin pending \cup held
    BY <1>6 DEF Live
  <2>4. \A d \in pending : d.pair # c(o).pair \/ d.need # c(o).need
    BY <1>1, <1>6 DEF OneInv, PlaceInv
  <2> QED BY <1>1, <1>7, <2>1, <2>2, <2>3, <2>4 DEF OneInv, PlaceInv
<1>8. ASSUME NEW o \in Offer, handler' = Idle, held' = held \cup {c(o)}
      PROVE  OneInv'
  <2>1. ~ Committed' /\ handler'.pc # "dispatch"
    BY <1>8, IdleType DEF Committed
  <2>2. EnvInv'
    BY <1>1, <1>4, <1>6, <1>8, <2>1 DEF Live, Running
  <2>3. c(o) \notin pending
    BY <1>6 DEF Live
  <2> QED BY <1>1, <1>8, <2>1, <2>2, <2>3 DEF OneInv, PlaceInv
<1>9. Fits[handler.need] \cap catalog \subseteq Offer
  OBVIOUS
<1> QED BY <1>5, <1>7, <1>8, <1>9 DEF Shortlist, c

LEMMA RetryKeepsOne ==
  ASSUME SafeInv, OneInv, Committed, KeepForRetry, UNCHANGED <<held, activity, executed>>
  PROVE  OneInv'
<1>1. handler.via = "delegate" \/ handler.via = "approval"
  BY DEF SafeInv, HandlerInv, HandlerType, Via
<1>2. handler' = Idle /\ ~ Committed' /\ handler'.pc # "dispatch"
  BY IdleType DEF KeepForRetry, Committed
<1>3. Live' \subseteq Live
  BY <1>2 DEF Live, Running, KeepForRetry
<1>4. EnvInv'
  BY <1>3, NothingNewKeepsEnv DEF OneInv
<1>5. CASE handler.via = "delegate"
  BY <1>2, <1>4, <1>5 DEF OneInv, PlaceInv, KeepForRetry
<1>6. CASE handler.via = "approval"
  BY <1>2, <1>4, <1>6 DEF OneInv, PlaceInv, KeepForRetry
<1> QED BY <1>1, <1>5, <1>6

LEMMA NextCallKeepsOne ==
  ASSUME SafeInv, OneInv, Committed, UNCHANGED <<pending, held, activity, executed>>,
         NEW pc \in {"instruct", "order"}, handler' = [handler EXCEPT !.pc = pc]
  PROVE  OneInv'
<1>1. Committed' /\ handler'.commit = handler.commit /\ handler'.via = handler.via
      /\ handler'.pc # "dispatch"
  BY DEF SafeInv, HandlerInv, HandlerType, Committed
<1>2. Live' \subseteq Live
  BY <1>1 DEF Live, Running
<1> QED BY <1>1, <1>2, NothingNewKeepsEnv DEF OneInv, PlaceInv

\* The match attributed was of a commit that is nowhere any longer.
LEMMA CreateOrderKeepsOne == SafeInv /\ OneInv /\ CreateOrder => OneInv'
<1> SUFFICES ASSUME SafeInv, OneInv, CreateOrder
             PROVE  OneInv'
  OBVIOUS
<1> DEFINE m == MatchOf(handler.commit)
<1>1. Committed /\ executed' = executed /\ handler.commit \in Commit /\ m \in Match
      /\ m.env = handler.commit.env /\ activity \in Seq(Match)
  BY MatchOfCommit DEF CreateOrder, Committed, SafeInv, HandlerInv, MemoryInv
<1> HIDE DEF m
<1>2. CASE /\ activity' = Append(activity, m) /\ handler' = Idle /\ UNCHANGED pending
           /\ held' = IF handler.via = "approval" THEN held \ {handler.commit} ELSE held
  <2>1. handler.via = "delegate" \/ handler.via = "approval"
    BY DEF SafeInv, HandlerInv, HandlerType, Via
  <2>2. ~ Committed' /\ handler'.pc # "dispatch"
    BY <1>2, IdleType DEF Committed
  <2>3. Live' \subseteq Live \ {handler.commit}
    BY <1>1, <1>2, <2>1, <2>2 DEF OneInv, PlaceInv, Live, Running
  <2>4. handler.commit \in Live
    BY <1>1 DEF Live, Running
  <2>5. /\ Len(activity') = Len(activity) + 1
        /\ \A i \in 1 .. Len(activity) : activity'[i] = activity[i]
        /\ activity'[Len(activity) + 1] = m
        /\ DOMAIN activity' = 1 .. Len(activity) + 1 /\ DOMAIN activity = 1 .. Len(activity)
    BY <1>1, <1>2, AppendProperties
  <2>6. \A i \in 1 .. Len(activity) : activity[i].env # m.env
    BY <1>1, <2>4, <2>5 DEF OneInv, EnvInv
  <2>7. \A i \in DOMAIN activity' :
          /\ activity'[i].env <= executed
          /\ \A c \in Live' : activity'[i].env # c.env
    BY <1>1, <2>3, <2>4, <2>5 DEF OneInv, EnvInv
  <2>8. IsInjective(activity')
    BY <2>5, <2>6 DEF OneInv, EnvInv, IsInjective
  <2>9. EnvInv'
    BY <1>1, <2>3, <2>7, <2>8 DEF OneInv, EnvInv
  <2> QED BY <1>2, <2>2, <2>9 DEF OneInv, PlaceInv
<1>3. CASE KeepForRetry /\ UNCHANGED <<activity, held, dropped>>
  BY <1>1, <1>3, RetryKeepsOne
<1> QED BY <1>2, <1>3 DEF CreateOrder, m

LEMMA OthersKeepOne ==
  ASSUME SafeInv, OneInv,
         \/ RecordUse \/ PostInstruction
         \/ DispatchFails \/ OrderRefused \/ CrashCoordinator \/ Tick \/ UNCHANGED vars
         \/ \E call \in late : LateArrives(call)
  PROVE  OneInv'
<1>1. CASE RecordUse \/ PostInstruction
  <2>1. Committed /\ UNCHANGED <<held, activity, executed>>
    BY <1>1 DEF RecordUse, PostInstruction, Committed
  <2> QED BY <1>1, <2>1, RetryKeepsOne, NextCallKeepsOne DEF RecordUse, PostInstruction
<1>2. CASE DispatchFails \/ OrderRefused \/ CrashCoordinator
  <2>1. handler' = Idle /\ executed' = executed
        /\ \/ UNCHANGED <<pending, held, activity>>
           \/ pending' = {} /\ held' = {} /\ activity' = << >>
    BY <1>2 DEF DispatchFails, OrderRefused, CrashCoordinator, memory
  <2>2. ~ Committed' /\ handler'.pc # "dispatch"
    BY <2>1, IdleType DEF Committed
  <2>3. Live' \subseteq Live
    BY <2>1, <2>2 DEF Live, Running
  <2> QED BY <2>1, <2>2, <2>3, NothingNewKeepsEnv DEF OneInv, PlaceInv
<1>3. CASE Tick \/ UNCHANGED vars \/ \E call \in late : LateArrives(call)
  <2>1. UNCHANGED <<handler, pending, held, activity, executed>>
    BY <1>3 DEF Tick, vars, LateArrives, memory
  <2>2. Live' = Live
    BY <2>1 DEF Live, Running, Committed
  <2> QED BY <2>1, <2>2, NothingNewKeepsEnv DEF OneInv, PlaceInv, Committed
<1> QED BY <1>1, <1>2, <1>3

\* However often a commit is retried, it is attributed once, and no retry
\* has two commits to choose from.
THEOREM AttributedOnlyOnce == Spec => []AttributedOnce
<1>1. Init => OneInv
  BY IdleType DEF Init, OneInv, EnvInv, PlaceInv, Live, Running, Committed, IsInjective
<1>2. SafeInv /\ OneInv /\ [Next]_vars => OneInv'
  BY ChangesKeepOne, DelegateKeepsOne, ApproveKeepsOne, ShortlistKeepsOne, CreateOrderKeepsOne,
     OthersKeepOne
     DEF Next
<1>3. OneInv => AttributedOnce
  BY DEF OneInv, EnvInv, PlaceInv, AttributedOnce
<1> QED BY <1>1, <1>2, <1>3, SafeInvHolds, PTL DEF Spec

-----------------------------------------------------------------------------
\* The newest change: the natural numbers are well-ordered.
LEMMA NatMin ==
  ASSUME NEW T, T \subseteq Nat, T # {}
  PROVE  \E x \in T : \A y \in T : x <= y
<1> DEFINE R == {ss \in Nat \X Nat : ss[1] < ss[2]}
<1>1. IsWellFoundedOn(R, Nat)
  BY NatLessThanWellFounded DEF OpToRel
<1>2. PICK x \in T : \A y \in T : <<y, x>> \notin R
  <2> HIDE DEF R
  <2> QED BY <1>1, WFMin
<1>3. ASSUME NEW y \in T, y < x
      PROVE  FALSE
  <2>1. <<y, x>> \in R
    BY <1>3
  <2> QED BY <1>2, <2>1
<1> QED BY <1>3

LEMMA MaxIsLast ==
  ASSUME NEW n \in Nat, NEW S, S \subseteq 1 .. n, S # {}
  PROVE  Max(S) \in S /\ \A i \in S : i <= Max(S)
<1> DEFINE T == {k \in Nat : n - k \in S}
<1>1. T # {}
  <2>1. PICK i \in S : TRUE
    OBVIOUS
  <2>2. n - i \in T
    BY <2>1
  <2> QED BY <2>2
<1>2. PICK k \in T : \A j \in T : k <= j
  <2>1. T \subseteq Nat
    OBVIOUS
  <2> HIDE DEF T
  <2> QED BY <1>1, <2>1, NatMin
<1>3. \A i \in S : i <= n - k
  <2> TAKE i \in S
  <2>1. n - i \in T
    OBVIOUS
  <2>2. i \in Int /\ k \in Int
    OBVIOUS
  <2> HIDE DEF T
  <2> QED BY <1>2, <2>1, <2>2
<1> QED BY <1>3 DEF Max

LEMMA MaxIsUnique ==
  ASSUME NEW S, S \subseteq Nat, NEW m \in S, \A i \in S : i <= m
  PROVE  Max(S) = m
<1>1. \A x \in S : (\A i \in S : i <= x) => x = m
  OBVIOUS
<1> QED BY <1>1 DEF Max

LEMMA PrefixOfAppend ==
  ASSUME NEW S, NEW s \in Seq(S), NEW x \in S, NEW k \in 0 .. Len(s)
  PROVE  SubSeq(Append(s, x), 1, k) = SubSeq(s, 1, k)
<1>1. /\ Append(s, x) \in Seq(S)
      /\ Len(Append(s, x)) = Len(s) + 1 /\ \A i \in 1 .. Len(s) : Append(s, x)[i] = s[i]
  BY AppendProperties
<1>2. \A i \in 1 .. k : Append(s, x)[i] \in S /\ s[i] \in S
  BY <1>1
<1> QED BY <1>1, <1>2, SubSeqProperties, SeqEqual

\* What an entry does to the grant in force.
LEMMA InForceAfter ==
  ASSUME NEW chain \in Seq(Entry), NEW x \in Entry, NEW p
  PROVE  InForce(Append(chain, x), p) =
           IF x.pair = p /\ x.action = "grant" THEN x.grant
           ELSE IF x.pair = p /\ x.action = "revoke" THEN NoMandate
           ELSE InForce(chain, p)
<1> DEFINE longer == Append(chain, x)
           old == Changes(chain, p)
           last == Len(chain) + 1
<1>1. /\ DOMAIN chain = 1 .. Len(chain) /\ DOMAIN longer = 1 .. last
      /\ Len(chain) \in Nat /\ longer[last] = x
      /\ \A i \in 1 .. Len(chain) : longer[i] = chain[i]
  BY AppendProperties
<1>2. x.action \in {"grant", "revoke", "use"}
  BY DEF Entry, ChangeType, UseType
<1>3. old \subseteq 1 .. Len(chain)
  BY <1>1 DEF Changes
<1>4. CASE x.pair = p /\ x.action # "use"
  <2>1. Changes(longer, p) = old \cup {last}
    BY <1>1, <1>4 DEF Changes
  <2>2. Max(Changes(longer, p)) = last
    <3>1. old \cup {last} \subseteq Nat /\ \A i \in old \cup {last} : i <= last
      BY <1>1, <1>3
    <3> QED BY <2>1, <3>1, MaxIsUnique
  <2>3. Changes(longer, p) # {}
    BY <2>1
  <2> HIDE DEF longer, old, last
  <2>4. InForce(longer, p) = IF x.action = "revoke" THEN NoMandate ELSE x.grant
    BY <1>1, <2>2, <2>3 DEF InForce
  <2> QED BY <1>2, <1>4, <2>4 DEF longer
<1>5. CASE ~ (x.pair = p /\ x.action # "use")
  <2>1. Changes(longer, p) = old
    BY <1>1, <1>5 DEF Changes
  <2>2. old # {} => Max(old) \in 1 .. Len(chain)
    <3> HIDE DEF old
    <3> QED BY <1>1, <1>3, MaxIsLast
  <2>3. old # {} => longer[Max(old)] = chain[Max(old)]
    BY <1>1, <2>2
  <2>4. InForce(longer, p) = InForce(chain, p)
    BY <2>1, <2>3 DEF InForce
  <2> QED BY <1>2, <1>5, <2>4
<1> QED BY <1>4, <1>5

\* A chain whose uses are valid but for the excused ones stays so after an
\* entry that is not an invalid one.
LEMMA ValidAfter ==
  ASSUME consent \in Seq(Entry), CheckedUsesAreValid, NEW x \in Entry, consent' = Append(consent, x),
         excused \subseteq excused',
         x.action = "use" /\ Len(consent) + 1 \notin excused' =>
           Covers(InForce(consent, x.pair), [x EXCEPT !.ts = x.checked])
  PROVE  CheckedUsesAreValid'
<1>1. /\ DOMAIN consent = 1 .. Len(consent) /\ DOMAIN consent' = 1 .. Len(consent) + 1
      /\ Len(consent) \in Nat /\ consent'[Len(consent) + 1] = x
      /\ \A i \in 1 .. Len(consent) : consent'[i] = consent[i]
  BY AppendProperties
<1>2. ASSUME NEW i \in (Uses \ excused)'
      PROVE  Covers(InForce(SubSeq(consent', 1, i - 1), consent'[i].pair),
                    [consent'[i] EXCEPT !.ts = consent'[i].checked])
  <2>1. i \in 1 .. Len(consent) + 1 /\ i - 1 \in 0 .. Len(consent) /\ consent'[i].action = "use"
        /\ i \notin excused'
    BY <1>1 DEF Uses
  <2>2. SubSeq(consent', 1, i - 1) = SubSeq(consent, 1, i - 1)
    BY <2>1, PrefixOfAppend
  <2>3. CASE i = Len(consent) + 1
    <3>1. SubSeq(consent, 1, i - 1) = consent
      BY <1>1, <2>3, SubSeqFull
    <3> QED BY <1>1, <2>1, <2>2, <2>3, <3>1
  <2>4. CASE i \in 1 .. Len(consent)
    <3>1. i \in Uses \ excused /\ consent'[i] = consent[i]
      BY <1>1, <2>1, <2>4 DEF Uses
    <3> QED BY <2>2, <3>1 DEF CheckedUsesAreValid
  <2>5. i = Len(consent) + 1 \/ i \in 1 .. Len(consent)
    BY <1>1, <2>1
  <2> QED BY <2>3, <2>4, <2>5
<1> QED BY <1>2 DEF CheckedUsesAreValid

LEMMA SameChainIsValid ==
  CheckedUsesAreValid /\ UNCHANGED consent /\ excused \subseteq excused' => CheckedUsesAreValid'
BY DEF CheckedUsesAreValid, Uses

\* An entry makes the chain another one.
LEMMA AppendedIsGrown ==
  ASSUME consent \in Seq(Entry), NEW x \in Entry, consent' = Append(consent, x)
  PROVE  Grown /\ Len(consent') = Len(consent) + 1
<1>1. Len(consent') = Len(consent) + 1 /\ Len(consent) \in Nat
  BY AppendProperties
<1> QED BY <1>1 DEF Grown

\* Between requests the coordinator only has to know the grants in force.
LEMMA RestInStep ==
  ASSUME \A p \in Pair :
           (p \notin unheard /\ mandate[p] # NoMandate => InForce(consent, p) = mandate[p])',
         handler'.pc \notin {"dispatch", "use"}
  PROVE  InStep'
BY DEF InStep

LEMMA GrantKeepsReplay ==
  ASSUME SafeInv, ReplayInv, NEW p \in Pair, NEW g \in Grant, GrantMandate(p, g)
  PROVE  ReplayInv'
<1> DEFINE x == GrantEntry(p, g)
<1>1. handler' = Idle /\ excused' = excused
  BY DEF GrantMandate
<1>2. InStep /\ CheckedUsesAreValid /\ consent \in Seq(Entry)
      /\ mandate \in [Pair -> Grant \cup {NoMandate}]
  BY DEF ReplayInv, SafeInv, RemoteInv, MemoryInv
<1>3. x \in Entry /\ x.action = "grant" /\ x.pair = p /\ x.grant = g
  BY DEF GrantEntry, Entry, ChangeType
<1>4. \/ consent' = Append(consent, x) /\ mandate' = [mandate EXCEPT ![p] = g]
         /\ unheard' = unheard \ {p}
      \/ consent' = Append(consent, x) /\ mandate' = mandate
         /\ unheard' = IF Grown THEN unheard \cup {p} ELSE unheard
      \/ consent' = consent /\ mandate' = mandate
         /\ unheard' = IF Grown THEN unheard \cup {p} ELSE unheard
  BY DEF GrantMandate, Answered, Fails, Receive, remote
<1> HIDE DEF x
<1>5. CASE consent' = consent /\ mandate' = mandate
           /\ unheard' = IF Grown THEN unheard \cup {p} ELSE unheard
  BY <1>1, <1>2, <1>5, IdleType, RestInStep, SameChainIsValid DEF InStep, Grown, ReplayInv
<1>6. CASE consent' = Append(consent, x)
  <2>1. CheckedUsesAreValid'
    BY <1>1, <1>2, <1>3, <1>6, ValidAfter
  <2>2. \A q \in Pair :
          (q \notin unheard /\ mandate[q] # NoMandate => InForce(consent, q) = mandate[q])'
    BY <1>2, <1>3, <1>4, <1>6, InForceAfter, AppendedIsGrown DEF InStep
  <2> QED BY <1>1, <2>1, <2>2, IdleType, RestInStep DEF ReplayInv
<1> QED BY <1>4, <1>5, <1>6

LEMMA RevokeKeepsReplay ==
  ASSUME SafeInv, ReplayInv, NEW p \in Pair, RevokeMandate(p)
  PROVE  ReplayInv'
<1> DEFINE x == RevokeEntry(p)
<1>1. handler' = Idle /\ excused' = excused
  BY DEF RevokeMandate
<1>2. InStep /\ CheckedUsesAreValid /\ consent \in Seq(Entry)
      /\ mandate \in [Pair -> Grant \cup {NoMandate}]
  BY DEF ReplayInv, SafeInv, RemoteInv, MemoryInv
<1>3. x \in Entry /\ x.action = "revoke" /\ x.pair = p
  BY DEF RevokeEntry, Entry, ChangeType
<1>4. \/ consent' = Append(consent, x) /\ mandate' = [mandate EXCEPT ![p] = NoMandate]
         /\ unheard' = unheard \ {p}
      \/ consent' = Append(consent, x) /\ mandate' = mandate
         /\ unheard' = IF Grown THEN unheard \cup {p} ELSE unheard
      \/ consent' = consent /\ mandate' = mandate
         /\ unheard' = IF Grown THEN unheard \cup {p} ELSE unheard
  BY DEF RevokeMandate, Answered, Fails, Receive, remote
<1> HIDE DEF x
<1>5. CASE consent' = consent /\ mandate' = mandate
           /\ unheard' = IF Grown THEN unheard \cup {p} ELSE unheard
  BY <1>1, <1>2, <1>5, IdleType, RestInStep, SameChainIsValid DEF InStep, Grown, ReplayInv
<1>6. CASE consent' = Append(consent, x)
  <2>1. CheckedUsesAreValid'
    BY <1>1, <1>2, <1>3, <1>6, ValidAfter
  <2>2. \A q \in Pair :
          (q \notin unheard /\ mandate[q] # NoMandate => InForce(consent, q) = mandate[q])'
    BY <1>2, <1>3, <1>4, <1>6, InForceAfter, AppendedIsGrown DEF InStep
  <2> QED BY <1>1, <2>1, <2>2, IdleType, RestInStep DEF ReplayInv
<1> QED BY <1>4, <1>5, <1>6

\* A commit goes out under a mandate its handler has checked.
LEMMA CommittingInStep ==
  ASSUME InStep, CheckedUsesAreValid, UNCHANGED <<consent, mandate, unheard, excused>>,
         NEW c \in Commit, NEW via \in Via, NEW second \in 0 .. MaxTime,
         handler' = Committing(c, via, second),
         mandate[c.pair] # NoMandate, second < mandate[c.pair].expiry,
         mandate[c.pair].category = c.category,
         via = "approval" \/ Price[c.offer] <= mandate[c.pair].cap
  PROVE  ReplayInv'
<1>1. /\ handler'.pc = "use" /\ handler'.commit = c /\ handler'.via = via
      /\ handler'.checked = second
  BY CommittingType
<1>2. WasValid(c.pair)'
  BY <1>1 DEF WasValid
<1> QED BY <1>1, <1>2, SameChainIsValid DEF InStep, ReplayInv

LEMMA RestKeepsReplay ==
  ASSUME ReplayInv, UNCHANGED <<consent, mandate, unheard>>, excused \subseteq excused',
         handler'.pc \notin {"dispatch", "use"}
  PROVE  ReplayInv'
BY SameChainIsValid, RestInStep DEF ReplayInv, InStep

LEMMA DelegateKeepsReplay ==
  ASSUME SafeInv, ReplayInv, NEW p \in Pair, NEW n \in Need, DelegateNeed(p, n)
  PROVE  ReplayInv'
<1>1. UNCHANGED <<consent, mandate, unheard, excused>> /\ Valid(p) /\ now \in 0 .. MaxTime
  BY SecondsType DEF DelegateNeed, remote
<1>2. InStep /\ CheckedUsesAreValid
  BY DEF ReplayInv
<1>3. CASE handler' = Dispatching(p, n)
  <2>1. /\ handler'.pc = "dispatch" /\ handler'.pair = p /\ handler'.scope = mandate[p]
        /\ handler'.checked = now
    BY <1>3 DEF Dispatching, Idle
  <2>2. WasValid(p)'
    BY <1>1, <2>1 DEF Valid, WasValid
  <2> QED BY <1>1, <1>2, <2>1, <2>2, SameChainIsValid DEF InStep, ReplayInv
<1>4. ASSUME NEW c \in pending, c.pair = p, handler' = Committing(c, "delegate", now),
             Price[c.offer] <= mandate[p].cap, c.category = mandate[p].category
      PROVE  ReplayInv'
  BY <1>1, <1>2, <1>4, CommittingInStep DEF SafeInv, MemoryInv, Via, Valid
<1> QED BY <1>3, <1>4 DEF DelegateNeed

LEMMA ApproveKeepsReplay ==
  ASSUME SafeInv, ReplayInv, NEW c \in held, Approve(c)
  PROVE  ReplayInv'
<1>1. UNCHANGED <<consent, mandate, unheard, excused>> /\ now \in 0 .. MaxTime
  BY SecondsType DEF Approve, remote, memory
<1>2. InStep /\ CheckedUsesAreValid /\ c \in Commit
  BY DEF ReplayInv, SafeInv, MemoryInv
<1>3. CASE /\ Valid(c.pair) /\ mandate[c.pair].category = c.category
           /\ handler' = Committing(c, "approval", now)
  BY <1>1, <1>2, <1>3, CommittingInStep DEF Via, Valid
<1>4. CASE handler' = Idle
  BY <1>1, <1>4, IdleType, RestKeepsReplay
<1> QED BY <1>3, <1>4 DEF Approve

LEMMA ShortlistKeepsReplay ==
  ASSUME SafeInv, ReplayInv, NEW catalog \in SUBSET Offer, Shortlist(catalog)
  PROVE  ReplayInv'
<1>1. UNCHANGED <<consent, mandate, unheard, excused>> /\ executed' \in 1 .. MaxEnv
      /\ handler.checked \in 0 .. MaxTime
  BY SecondsType DEF Shortlist, remote, history, SafeInv, MemoryInv
<1>2. InStep /\ CheckedUsesAreValid
  BY DEF ReplayInv
<1>3. /\ handler.pair \in Pair /\ handler.need \in Need /\ handler.scope \in Grant
      /\ handler.scope = mandate[handler.pair] /\ WasValid(handler.pair)
  BY <1>2 DEF Shortlist, InStep, SafeInv, HandlerInv
<1>4. CASE handler' = Idle
  BY <1>1, <1>4, IdleType, RestKeepsReplay
<1> DEFINE c(o) == [pair |-> handler.pair, need |-> handler.need, env |-> executed',
                    offer |-> o, category |-> handler.scope.category]
<1>5. ASSUME NEW o \in Offer, handler' = Committing(c(o), "delegate", handler.checked),
             Price[o] <= handler.scope.cap
      PROVE  ReplayInv'
  <2>1. /\ c(o) \in Commit /\ c(o).pair = handler.pair /\ c(o).offer = o
        /\ c(o).category = handler.scope.category
    BY <1>1, <1>3 DEF Commit
  <2> HIDE DEF c
  <2> QED BY <1>1, <1>2, <1>3, <1>5, <2>1, CommittingInStep DEF Via, WasValid
<1>6. Fits[handler.need] \cap catalog \subseteq Offer
  OBVIOUS
<1> QED BY <1>4, <1>5, <1>6 DEF Shortlist

\* A use goes on the chain under the mandate in force there, or is excused.
LEMMA RecordUseKeepsReplay == SafeInv /\ ReplayInv /\ RecordUse => ReplayInv'
<1> SUFFICES ASSUME SafeInv, ReplayInv, RecordUse
             PROVE  ReplayInv'
  OBVIOUS
<1> DEFINE use == UseEntry(handler.commit, handler.via)
<1>1. UNCHANGED <<mandate, unheard>> /\ handler.pc = "use" /\ excused \subseteq excused'
  BY DEF RecordUse
<1>2. InStep /\ CheckedUsesAreValid /\ consent \in Seq(Entry) /\ handler.commit \in Commit
  BY <1>1 DEF ReplayInv, SafeInv, RemoteInv, HandlerInv, Committed
<1>3. /\ use \in Entry /\ use.pair = handler.commit.pair /\ use.action = "use"
      /\ use.category = handler.commit.category /\ use.price = Price[handler.commit.offer]
      /\ use.via = handler.via /\ use.checked = handler.checked
  BY <1>1, UseType_ DEF Entry, ChangeType, UseEntry
<1>4. use.pair \in Pair
  BY <1>2, <1>3 DEF Commit
<1>5. consent' = consent \/ consent' = Append(consent, use)
  BY DEF RecordUse, Answered, Fails, Receive, remote
<1>6. handler'.pc \in {"idle", "instruct"}
  BY IdleType DEF RecordUse, KeepForRetry, SafeInv, HandlerInv, HandlerType
<1>7. excused' = IF Grown /\ use.pair \in unheard THEN excused \cup {Len(consent')} ELSE excused
  BY DEF RecordUse
<1>8. use \in UseType
  BY <1>1, UseType_
<1> HIDE DEF use
<1>9. CASE consent' = consent
  BY <1>1, <1>6, <1>9, RestKeepsReplay
<1>10. CASE consent' = Append(consent, use)
  <2>1. \A q \in Pair :
          (q \notin unheard /\ mandate[q] # NoMandate => InForce(consent, q) = mandate[q])'
    BY <1>1, <1>2, <1>3, <1>10, InForceAfter DEF InStep
  <2>2. ASSUME Len(consent) + 1 \notin excused'
        PROVE  Covers(InForce(consent, use.pair), [use EXCEPT !.ts = use.checked])
    <3>1. use.pair \notin unheard
      BY <1>2, <1>3, <1>7, <1>10, <2>2, AppendedIsGrown
    <3>2. /\ WasValid(use.pair) /\ mandate[use.pair].category = use.category
          /\ use.via = "approval" \/ use.price <= mandate[use.pair].cap
          /\ InForce(consent, use.pair) = mandate[use.pair]
      BY <1>1, <1>2, <1>3, <1>4, <3>1 DEF InStep, WasValid
    <3> DEFINE stamped == [use EXCEPT !.ts = use.checked]
    <3>3. /\ stamped.ts = handler.checked /\ stamped.category = use.category
          /\ stamped.via = use.via /\ stamped.price = use.price
      BY <1>3, <1>8 DEF UseType
    <3> HIDE DEF stamped
    <3>4. Covers(InForce(consent, use.pair), stamped)
      BY <3>2, <3>3 DEF Covers, WasValid
    <3> QED BY <3>4 DEF stamped
  <2>3. CheckedUsesAreValid'
    BY <1>1, <1>2, <1>3, <1>10, <2>2, ValidAfter
  <2> QED BY <1>6, <2>1, <2>3, RestInStep DEF ReplayInv
<1> QED BY <1>5, <1>9, <1>10

\* A late change leaves its pair unheard, and a late use is excused.
LEMMA LateKeepsReplay ==
  ASSUME SafeInv, ReplayInv, NEW call \in late, LateArrives(call)
  PROVE  ReplayInv'
<1>1. /\ UNCHANGED <<handler, mandate>> /\ unheard \subseteq unheard' /\ excused \subseteq excused'
      /\ Receive(call.kind, call.what)
  BY DEF LateArrives, memory
<1>2. InStep /\ CheckedUsesAreValid /\ consent \in Seq(Entry) /\ call \in CallType
  BY DEF ReplayInv, SafeInv, RemoteInv
<1>3. \A p : WasValid(p) => WasValid(p)'
  BY <1>1 DEF WasValid
<1>4. CASE consent' = consent
  BY <1>1, <1>2, <1>3, <1>4, SameChainIsValid DEF ReplayInv, InStep
<1>5. CASE call.kind \in {"change", "use"} /\ consent' = Append(consent, call.what)
  <2>1. call.what \in Entry
    BY <1>2, <1>5 DEF CallType, Entry
  <2>2. Len(consent') = Len(consent) + 1
    BY <1>2, <1>5, <2>1, AppendedIsGrown
  <2>3. CASE call.kind = "use"
    <3>1. Len(consent) + 1 \in excused'
      BY <2>2, <2>3 DEF LateArrives
    <3>2. CheckedUsesAreValid'
      BY <1>1, <1>2, <1>5, <2>1, <3>1, ValidAfter
    <3>3. call.what.action = "use"
      BY <1>2, <2>3 DEF CallType, UseType
    <3>4. \A q \in Pair :
            (q \notin unheard /\ mandate[q] # NoMandate => InForce(consent, q) = mandate[q])'
      BY <1>1, <1>2, <1>5, <2>1, <3>3, InForceAfter DEF InStep
    <3> QED BY <1>1, <1>2, <1>3, <3>2, <3>4 DEF ReplayInv, InStep
  <2>4. CASE call.kind = "change"
    <3>1. call.what.action # "use"
      BY <1>2, <2>4 DEF CallType, ChangeType
    <3>2. CheckedUsesAreValid'
      BY <1>1, <1>2, <1>5, <2>1, <3>1, ValidAfter
    <3>3. call.what.pair \in unheard'
      BY <2>4 DEF LateArrives
    <3>4. \A q \in Pair :
            (q \notin unheard /\ mandate[q] # NoMandate => InForce(consent, q) = mandate[q])'
      BY <1>1, <1>2, <1>5, <2>1, <3>3, InForceAfter DEF InStep
    <3> QED BY <1>1, <1>2, <1>3, <3>2, <3>4 DEF ReplayInv, InStep
  <2> QED BY <1>5, <2>3, <2>4
<1> QED BY <1>1, <1>2, <1>4, <1>5 DEF Receive, CallType

\* The steps that leave the chain alone.
LEMMA OthersKeepReplay ==
  ASSUME SafeInv, ReplayInv,
         \/ PostInstruction \/ CreateOrder \/ DispatchFails \/ OrderRefused
         \/ CrashCoordinator \/ Tick \/ UNCHANGED vars
  PROVE  ReplayInv'
<1>1. CASE PostInstruction \/ CreateOrder \/ DispatchFails \/ OrderRefused
  <2>1. UNCHANGED <<consent, mandate, unheard, excused>>
    BY <1>1 DEF PostInstruction, CreateOrder, DispatchFails, OrderRefused, Refused, Answered, Fails,
                Receive, remote, memory, history
  <2>2. handler'.pc \in {"idle", "order"}
    BY <1>1, IdleType DEF PostInstruction, CreateOrder, DispatchFails, OrderRefused, KeepForRetry,
                          SafeInv, HandlerInv, HandlerType
  <2> QED BY <2>1, <2>2, RestKeepsReplay
<1>2. CASE CrashCoordinator
  <2>1. /\ UNCHANGED <<consent, unheard, excused>> /\ handler' = Idle
        /\ mandate' = [p \in Pair |-> NoMandate]
    BY <1>2 DEF CrashCoordinator, remote
  <2> QED BY <2>1, IdleType, SameChainIsValid, RestInStep DEF ReplayInv
<1>3. CASE Tick \/ UNCHANGED vars
  <2>1. UNCHANGED <<handler, mandate, consent, unheard, excused>>
    BY <1>3 DEF Tick, vars, remote, memory, history
  <2> QED BY <2>1, SameChainIsValid DEF ReplayInv, InStep, WasValid
<1> QED BY <1>1, <1>2, <1>3

\* Every use is valid when the auditor replays it by the second at which its
\* mandate was checked, unless it came late or a newer change was unheard of.
THEOREM UsesValidWhenChecked == Spec => []CheckedUsesAreValid
<1>1. Init => ReplayInv
  BY IdleType DEF Init, ReplayInv, InStep, CheckedUsesAreValid, Uses
<1>2. SafeInv /\ ReplayInv /\ [Next]_vars => ReplayInv'
  BY GrantKeepsReplay, RevokeKeepsReplay, DelegateKeepsReplay, ApproveKeepsReplay,
     ShortlistKeepsReplay, RecordUseKeepsReplay, LateKeepsReplay, OthersKeepReplay
     DEF Next
<1>3. ReplayInv => CheckedUsesAreValid
  BY DEF ReplayInv
<1> QED BY <1>1, <1>2, <1>3, SafeInvHolds, PTL DEF Spec

=============================================================================
