------------------------------ MODULE Mandates ------------------------------
(***************************************************************************)
(* Delegated needs in fabric-coordinator: a principal grants a delegate a  *)
(* mandate (category, per-item cap, expiry); the delegate's needs close    *)
(* under the cap on the delegate's authority, or are held for the          *)
(* principal's approval above it. Each commit records a mandate use on the *)
(* consent chain, posts the settlement instruction and creates the order,  *)
(* in that order; a commit that fails part-way is resumed.                 *)
(*                                                                         *)
(* The coordinator runs one handler at a time, but time passes, and calls  *)
(* fail or are abandoned, between two steps of a handler. The mandates it  *)
(* acts under live in its memory; the auditor replays the ledger's chain.  *)
(***************************************************************************)
EXTENDS Integers, Sequences, FiniteSets, SequencesExt

CONSTANTS
  Pair,         \* a principal and a delegate
  Need,         \* a sealed envelope and its jurisdiction
  Offer, Fits,  \* the offers that qualify, for each need
  Price, Category,      \* of each offer
  Grant,        \* scopes a principal may grant: [category, cap, expiry]
  NoMandate, NoCommit,
  FailKinds,    \* calls that may fail: "change", "dispatch", "use", "instruction", "order"
  LateKinds,    \* those that may take effect after they were given up
  MaxTime,      \* bound: the clock
  MaxChanges,   \* bound: grants and revokes
  MaxUses,      \* bound: uses on the chain when a commit is attempted
  MaxEnv,       \* bound: environments that execute
  MaxLate,      \* bound: abandoned calls at a time
  MaxCrash      \* bound: restarts of the coordinator

ASSUME MandateParameters ==
  /\ Fits \in [Need -> SUBSET Offer] /\ Price \in [Offer -> Int]
  /\ \A g \in Grant : g.cap > 0
  /\ LateKinds \subseteq FailKinds
  /\ MaxTime \in Nat /\ MaxEnv \in Nat

VARIABLES
  \* fabric-coordinator, in memory only
  handler,      \* the request being handled
  mandate,      \* the unrevoked mandate of each pair
  pending,      \* under-cap commits that failed part-way
  held,         \* over-cap matches awaiting approval
  activity,     \* delegated matches on the principals' trails
  \* ledger-svc and seller-svc
  consent,      \* mandate entries, in order
  instructions, orders,
  \* the network, the environments, the clock and history
  late, executed, now,
  changes,      \* grants and revokes asked for
  approved,     \* matches whose principal asked for their approval
  dropped,      \* matches the coordinator gave up resuming
  unheard,      \* pairs whose newest change on the chain was not answered to
                \* the coordinator
  excused,      \* positions of uses that came late, or under a mandate with a
                \* newer change unheard of
  crashes

memory == <<mandate, pending, held, activity>>
remote == <<consent, instructions, orders, late>>
history == <<changes, approved, dropped, unheard, excused, crashes>>
vars == <<handler, memory, remote, executed, now, history>>

\* A chosen offer, with the category of the mandate it was chosen under.
Commit == [pair : Pair, need : Need, env : 1 .. MaxEnv, offer : Offer,
           category : {g.category : g \in Grant}]

MatchOf(c) == [env |-> c.env, offer |-> c.offer]
Match == [env : 1 .. MaxEnv, offer : Offer]

ASSUME NoneAssumption == NoMandate \notin Grant /\ NoCommit \notin Commit

-----------------------------------------------------------------------------
\* The consent chain, and what the auditor's replay makes of it.

GrantEntry(p, g) == [action |-> "grant", pair |-> p, grant |-> g]
RevokeEntry(p) == [action |-> "revoke", pair |-> p]
UseEntry(c, via) ==
  [action |-> "use", pair |-> c.pair, match |-> MatchOf(c), category |-> c.category,
   price |-> Price[c.offer], via |-> via, ts |-> now,
   checked |-> handler.checked]  \* history

Changes(chain, p) == {i \in DOMAIN chain : chain[i].pair = p /\ chain[i].action # "use"}

\* The chain has grown by something its sender may not know of.
Grown == consent' # consent

\* The grant in force for a pair at the end of a chain: the newest change says.
InForce(chain, p) ==
  LET newest == chain[Max(Changes(chain, p))]
  IN  IF Changes(chain, p) = {} \/ newest.action = "revoke" THEN NoMandate ELSE newest.grant

Covers(g, use) ==
  /\ g # NoMandate
  /\ use.ts < g.expiry
  /\ use.category = g.category
  /\ use.via = "approval" \/ use.price <= g.cap

Uses == {i \in DOMAIN consent : consent[i].action = "use"}

-----------------------------------------------------------------------------
\* Remote calls.

Receive(kind, x) ==
  CASE kind \in {"change", "use"} ->
         consent' = Append(consent, x) /\ UNCHANGED <<instructions, orders>>
    [] kind = "instruction" ->
         instructions' = instructions \cup {x} /\ UNCHANGED <<consent, orders>>
    [] kind = "order" ->
         orders' = orders \cup {x} /\ UNCHANGED <<consent, instructions>>

Answered(kind, x) == Receive(kind, x) /\ UNCHANGED late

Refused(kind) == kind \in FailKinds /\ UNCHANGED remote

\* Given up: done, done later, or never done.
Fails(kind, x) ==
  /\ kind \in FailKinds
  /\ \/ UNCHANGED remote
     \/ Receive(kind, x) /\ UNCHANGED late
     \/ /\ kind \in LateKinds
        /\ Cardinality(late) < MaxLate
        /\ late' = late \cup {[kind |-> kind, what |-> x]}
        /\ UNCHANGED <<consent, instructions, orders>>

LateArrives(call) ==
  /\ late' = late \ {call}
  /\ Receive(call.kind, call.what)
  /\ unheard' = IF call.kind = "change" THEN unheard \cup {call.what.pair} ELSE unheard
  /\ excused' = IF call.kind = "use" THEN excused \cup {Len(consent')} ELSE excused
  /\ UNCHANGED <<handler, memory, executed, now, changes, approved, dropped, crashes>>

-----------------------------------------------------------------------------
Idle == [pc |-> "idle", via |-> "delegate", pair |-> CHOOSE p \in Pair : TRUE,
         need |-> CHOOSE n \in Need : TRUE, scope |-> NoMandate, commit |-> NoCommit, checked |-> 0]

\* commit_delegated, from the use to the order, in a handler that checked the
\* mandate at some second (history).
Committing(c, via, second) ==
  [Idle EXCEPT !.pc = "use", !.via = via, !.pair = c.pair, !.need = c.need, !.commit = c,
               !.checked = second]

\* valid_mandate.
Valid(p) == mandate[p] # NoMandate /\ now < mandate[p].expiry

\* POST /v1/mandates: the ledger first, then memory.
GrantMandate(p, g) ==
  /\ handler = Idle /\ changes < MaxChanges
  /\ changes' = changes + 1
  /\ \/ /\ Answered("change", GrantEntry(p, g))
        /\ mandate' = [mandate EXCEPT ![p] = g]
        /\ unheard' = unheard \ {p}
     \/ /\ Fails("change", GrantEntry(p, g))
        /\ unheard' = IF Grown THEN unheard \cup {p} ELSE unheard
        /\ UNCHANGED mandate
  /\ UNCHANGED <<handler, pending, held, activity, executed, now, approved, dropped, excused, crashes>>

\* POST /v1/mandates/revoke: pending and held work goes with the mandate.
RevokeMandate(p) ==
  /\ handler = Idle /\ changes < MaxChanges
  /\ changes' = changes + 1
  /\ \/ /\ Answered("change", RevokeEntry(p))
        /\ mandate' = [mandate EXCEPT ![p] = NoMandate]
        /\ pending' = {c \in pending : c.pair # p}
        /\ held' = {c \in held : c.pair # p}
        /\ dropped' = dropped \cup {MatchOf(c) : c \in {x \in pending \cup held : x.pair = p}}
        /\ unheard' = unheard \ {p}
     \/ /\ Fails("change", RevokeEntry(p))
        /\ unheard' = IF Grown THEN unheard \cup {p} ELSE unheard
        /\ UNCHANGED <<mandate, pending, held, dropped>>
  /\ UNCHANGED <<handler, activity, executed, now, approved, excused, crashes>>

CanAttempt == Cardinality(Uses) < MaxUses

Dispatching(p, n) ==
  [Idle EXCEPT !.pc = "dispatch", !.pair = p, !.need = n, !.scope = mandate[p], !.checked = now]

\* Faulty: a commit is resumed whatever the mandate has become.
DelegateNeedUnchecked(p, n) ==
  /\ handler = Idle /\ CanAttempt
  /\ Valid(p)
  /\ \/ /\ \A c \in pending : c.pair # p \/ c.need # n
        /\ handler' = Dispatching(p, n)
        /\ UNCHANGED pending
     \/ \E c \in pending :
          /\ c.pair = p /\ c.need = n
          /\ pending' = pending \ {c}
          /\ handler' = Committing(c, "delegate", now)
  /\ UNCHANGED <<mandate, held, activity, remote, executed, now, history>>

\* POST /v1/delegate/needs, declared inside a valid mandate's category: a
\* commit of the same need that failed part-way is resumed if the mandate
\* still covers it, and dropped if not.
DelegateNeed(p, n) ==
  /\ handler = Idle /\ CanAttempt
  /\ Valid(p)
  /\ \/ /\ \A c \in pending : c.pair # p \/ c.need # n
        /\ handler' = Dispatching(p, n)
        /\ UNCHANGED <<pending, dropped>>
     \/ \E c \in pending :
          /\ c.pair = p /\ c.need = n
          /\ pending' = pending \ {c}
          /\ \/ /\ Price[c.offer] <= mandate[p].cap /\ c.category = mandate[p].category
                /\ handler' = Committing(c, "delegate", now)
                /\ UNCHANGED dropped
             \/ /\ ~ (Price[c.offer] <= mandate[p].cap /\ c.category = mandate[p].category)
                /\ handler' = Dispatching(p, n)
                /\ dropped' = dropped \cup {MatchOf(c)}
  /\ UNCHANGED <<mandate, held, activity, remote, executed, now, changes, approved, unheard, excused, crashes>>

\* POST /v1/mandates/approve: the mandate must still cover the match, cap
\* aside.
Approve(c) ==
  /\ handler = Idle /\ CanAttempt
  /\ approved' = approved \cup {MatchOf(c)}
  /\ handler' = IF Valid(c.pair) /\ mandate[c.pair].category = c.category
                  THEN Committing(c, "approval", now) ELSE Idle
  /\ UNCHANGED <<memory, remote, executed, now, changes, dropped, unheard, excused, crashes>>

\* Faulty: the cap is not compared; the environment goes by the last one's id.
ShortlistOverCap(catalog) ==
  LET entries == Fits[handler.need] \cap catalog IN
  /\ handler.pc = "dispatch"
  /\ executed < MaxEnv
  /\ executed' = executed + 1
  /\ \E o \in entries :
       /\ Category[o] = handler.scope.category
       /\ handler' = Committing([pair |-> handler.pair, need |-> handler.need, env |-> executed',
                                 offer |-> o, category |-> handler.scope.category], "delegate",
                                handler.checked)
  /\ UNCHANGED <<memory, remote, now, history>>

ShortlistAsLast(catalog) ==
  LET entries == Fits[handler.need] \cap catalog IN
  /\ handler.pc = "dispatch"
  /\ executed < MaxEnv
  /\ executed' = executed + 1
  /\ \E o \in entries :
       /\ Category[o] = handler.scope.category
       /\ handler' = Committing([pair |-> handler.pair, need |-> handler.need, env |-> executed,
                                 offer |-> o, category |-> handler.scope.category], "delegate",
                                handler.checked)
  /\ UNCHANGED <<memory, remote, now, history>>

\* The manual dispatch: whatever the catalogue holds, the environment returns
\* the offers that fit, and the cheapest one is taken.
Shortlist(catalog) ==
  LET entries == Fits[handler.need] \cap catalog IN
  /\ handler.pc = "dispatch"
  /\ executed < MaxEnv
  /\ executed' = executed + 1
  /\ \/ /\ entries = {}
        /\ handler' = Idle /\ UNCHANGED held
     \/ \E o \in entries :
          LET c == [pair |-> handler.pair, need |-> handler.need, env |-> executed',
                    offer |-> o, category |-> handler.scope.category] IN
          /\ \A other \in entries : Price[o] <= Price[other]
          /\ \/ /\ Category[o] # handler.scope.category
                /\ handler' = Idle /\ UNCHANGED held
             \/ /\ Category[o] = handler.scope.category
                /\ Price[o] <= handler.scope.cap
                /\ handler' = Committing(c, "delegate", handler.checked) /\ UNCHANGED held
             \/ /\ Category[o] = handler.scope.category
                /\ Price[o] > handler.scope.cap
                /\ handler' = Idle /\ held' = held \cup {c}
  /\ UNCHANGED <<mandate, pending, activity, remote, now, history>>

DispatchFails ==
  /\ handler.pc = "dispatch"
  /\ "dispatch" \in FailKinds
  /\ handler' = Idle
  /\ UNCHANGED <<memory, remote, executed, now, history>>

\* Faulty: nothing is kept for a retry.
KeepNothing == handler' = Idle /\ UNCHANGED pending

\* A commit that failed part-way: an under-cap one stays pending, an approved
\* one is still held.
KeepForRetry ==
  /\ handler' = Idle
  /\ pending' = IF handler.via = "delegate" THEN pending \cup {handler.commit} ELSE pending

RecordUse ==
  LET use == UseEntry(handler.commit, handler.via) IN
  /\ handler.pc = "use"
  /\ \/ Answered("use", use) /\ handler' = [handler EXCEPT !.pc = "instruct"] /\ UNCHANGED pending
     \/ Fails("use", use) /\ KeepForRetry
  /\ excused' = IF Grown /\ use.pair \in unheard THEN excused \cup {Len(consent')} ELSE excused
  /\ UNCHANGED <<mandate, held, activity, executed, now, changes, approved, dropped, unheard, crashes>>

\* Faulty: the order goes out though its instruction was not stored.
PostInstructionBestEffort ==
  /\ handler.pc = "instruct"
  /\ \/ Answered("instruction", MatchOf(handler.commit))
     \/ Fails("instruction", MatchOf(handler.commit))
  /\ handler' = [handler EXCEPT !.pc = "order"]
  /\ UNCHANGED <<memory, executed, now, history>>

PostInstruction ==
  /\ handler.pc = "instruct"
  /\ \/ /\ Answered("instruction", MatchOf(handler.commit))
        /\ handler' = [handler EXCEPT !.pc = "order"] /\ UNCHANGED pending
     \/ Fails("instruction", MatchOf(handler.commit)) /\ KeepForRetry
  /\ UNCHANGED <<mandate, held, activity, executed, now, history>>

\* Faulty: an approved match stays on hold.
CreateOrderStillHeld ==
  /\ handler.pc = "order"
  /\ Answered("order", MatchOf(handler.commit))
  /\ handler' = Idle
  /\ activity' = Append(activity, MatchOf(handler.commit))
  /\ UNCHANGED <<mandate, pending, held, executed, now, history>>

CreateOrder ==
  /\ handler.pc = "order"
  /\ \/ /\ Answered("order", MatchOf(handler.commit))
        /\ handler' = Idle
        /\ activity' = Append(activity, MatchOf(handler.commit))
        /\ held' = IF handler.via = "approval" THEN held \ {handler.commit} ELSE held
        /\ UNCHANGED <<pending, dropped>>
     \/ /\ Fails("order", MatchOf(handler.commit)) /\ KeepForRetry
        /\ UNCHANGED <<activity, held, dropped>>
  /\ UNCHANGED <<mandate, executed, now, changes, approved, unheard, excused, crashes>>

\* The seller refuses the order outright: an under-cap commit is not kept.
OrderRefused ==
  /\ handler.pc = "order"
  /\ Refused("order")
  /\ handler' = Idle
  /\ dropped' = IF handler.via = "delegate" THEN dropped \cup {MatchOf(handler.commit)} ELSE dropped
  /\ UNCHANGED <<memory, executed, now, changes, approved, unheard, excused, crashes>>

CrashCoordinator ==
  /\ crashes < MaxCrash
  /\ crashes' = crashes + 1
  /\ handler' = Idle
  /\ mandate' = [p \in Pair |-> NoMandate]
  /\ pending' = {} /\ held' = {} /\ activity' = << >>
  /\ dropped' = dropped \cup {MatchOf(c) : c \in pending \cup held \cup ({handler.commit} \ {NoCommit})}
  /\ UNCHANGED <<remote, executed, now, changes, approved, unheard, excused>>

Tick ==
  /\ now < MaxTime
  /\ now' = now + 1
  /\ UNCHANGED <<handler, memory, remote, executed, history>>

Init ==
  /\ handler = Idle
  /\ mandate = [p \in Pair |-> NoMandate]
  /\ pending = {} /\ held = {} /\ activity = << >>
  /\ consent = << >> /\ instructions = {} /\ orders = {} /\ late = {}
  /\ executed = 0 /\ now = 0
  /\ changes = 0 /\ approved = {} /\ dropped = {} /\ crashes = 0
  /\ unheard = {} /\ excused = {}

Next ==
  \/ \E p \in Pair : \/ \E g \in Grant : GrantMandate(p, g)
                     \/ RevokeMandate(p)
                     \/ \E n \in Need : DelegateNeed(p, n)
  \/ \E c \in held : Approve(c)
  \/ \E catalog \in SUBSET Offer : Shortlist(catalog)
  \/ DispatchFails
  \/ RecordUse \/ PostInstruction \/ CreateOrder \/ OrderRefused
  \/ CrashCoordinator
  \/ Tick
  \/ \E call \in late : LateArrives(call)

Spec == Init /\ [][Next]_vars

-----------------------------------------------------------------------------
TypeOK ==
  /\ handler.pc \in {"idle", "dispatch", "use", "instruct", "order"}
  /\ handler.pc \in {"use", "instruct", "order"} => handler.commit \in Commit
  /\ mandate \in [Pair -> Grant \cup {NoMandate}]
  /\ pending \subseteq Commit /\ held \subseteq Commit
  /\ activity \in Seq(Match) /\ instructions \subseteq Match /\ orders \subseteq Match
  /\ \A i \in Uses : consent[i].match \in Match /\ consent[i].ts \in 0 .. MaxTime
  /\ unheard \subseteq Pair /\ excused \subseteq DOMAIN consent

(* The auditor's replay finds no invalid use: at its position on the chain,
   every mandate use is covered by the grant in force, which has not expired
   when the use is recorded, names its category and, unless the principal
   approved the match, has a cap that its price respects. *)
UsesAreValid ==
  \A i \in Uses : Covers(InForce(SubSeq(consent, 1, i - 1), consent[i].pair), consent[i])

(* Every use would be found valid had it been stamped at the second at which
   its handler checked the mandate: whatever was granted, revoked, granted anew,
   held, resumed or approved meanwhile, the grant in force where it stands had
   not expired then, names its category and has a cap that allows it. Excepted
   are uses that came late and those under a mandate with a newer grant or
   revoke whose answer the coordinator never got. *)
CheckedUsesAreValid ==
  \A i \in Uses \ excused :
    Covers(InForce(SubSeq(consent, 1, i - 1), consent[i].pair),
           [consent[i] EXCEPT !.ts = consent[i].checked])

(* Evidence before money before goods, through every failed, abandoned,
   resumed and repeated attempt: an instruction has its use on the chain, an
   order its instruction, and what the principal is shown as done its order. *)
EvidenceFirst ==
  /\ \A m \in instructions : \E i \in Uses : consent[i].match = m
  /\ orders \subseteq instructions
  /\ \A i \in DOMAIN activity : activity[i] \in orders

(* Closing an over-cap match is withheld for the principal: whatever money is
   instructed without approval is within a cap that was granted for the
   category of its offer. *)
WithheldUntilApproved ==
  \A m \in instructions \ approved :
    \E i \in DOMAIN consent :
      /\ consent[i].action = "grant"
      /\ Price[m.offer] <= consent[i].grant.cap
      /\ Category[m.offer] = consent[i].grant.category

(* A commit that fails part-way can always be completed: at rest, money
   instructed without its order belongs to a commit that a retry resumes,
   unless a revocation, a narrower mandate, a refusing seller or a restart
   made the coordinator give it up. *)
UnfinishedIsResumable ==
  handler = Idle =>
    \A m \in instructions \ orders :
      m \in dropped \/ \E c \in pending \cup held : MatchOf(c) = m

(* A delegated match is attributed once to its principal, and a retry finds
   at most one commit to resume. *)
AttributedOnce ==
  /\ IsInjective(activity)
  /\ \A c, d \in pending : c.pair = d.pair /\ c.need = d.need => c = d
=============================================================================
