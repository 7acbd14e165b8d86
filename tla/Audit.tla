------------------------------- MODULE Audit -------------------------------
(***************************************************************************)
(* audit-svc certifies what the others left on the ledger. Its run is four *)
(* requests to the ledger, one after the other, while the slice and the    *)
(* coordinator go on writing: an environment attests its lifecycle, a      *)
(* match closed in it is instructed there and its consent use is recorded  *)
(* after, a booking is used and instructed, a disclosure granted, delivered *)
(* and used, a settlement confirmed and refunded.                          *)
(*                                                                         *)
(* A match goes by the name of its environment. Residency is left out: it  *)
(* compares two fields of one row. Mandate uses and their rule are in      *)
(* Mandates.                                                               *)
(***************************************************************************)
EXTENDS Ledger

CONSTANTS
  Automatic,    \* matches closed in their environment; the others are booked
  Subject, Owner,
  MaxEvents     \* bound: needs, changes of participation, disclosures, refunds,
                \* failed calls and crashes of the ledger, in all

VARIABLES
  handler,      \* the coordinator's running handler and the call it is at
  inbox,        \* environments asked for and not begun
  slice,        \* the environment that runs, and what it posts next
  begun, shortlisted, ordered, disclosed,
  failures,
  overdue,      \* a disclosure was used after its grant had lapsed
  run           \* the auditor's run

services == <<handler, inbox, slice, begun, shortlisted, ordered, disclosed, overdue>>
auditVars == <<vars, services, failures, run>>

Idle == [pc |-> "idle"]

-----------------------------------------------------------------------------
\* What is written.

Event == {"created", "attested", "executed", "aborted", "destroyed"}

Lifecycle(e, event) == [env |-> e, event |-> event]

Change(kind, key, action) == [kind |-> kind, key |-> key, action |-> action]

ParticipationUse(m) ==
  [kind |-> "participation", key |-> Owner[m], action |-> "use", match |-> m]

DisclosureUse(c, inTime) ==
  [kind |-> "disclosure", key |-> c, action |-> "use", inTime |-> inTime]

ASSUME AuditParameters ==
  Automatic \subseteq Match /\ Owner \in [Match -> Subject] /\ MaxEvents \in Nat

ASSUME PayloadAssumption ==
  /\ Attestation = {Lifecycle(e, event) : e \in Match, event \in Event}
  /\ Consent = {Change("participation", s, a) : s \in Subject, a \in {"grant", "revoke"}}
                 \cup {Change("disclosure", c, "grant") : c \in Case}
                 \cup {ParticipationUse(m) : m \in Match}
                 \cup {DisclosureUse(c, inTime) : c \in Case, inTime \in BOOLEAN}

\* Bound: what has happened so far.
Events ==
  Cardinality(begun \cup inbox) + Cardinality(disclosed) + Cardinality(Refunds(db)) + failures
    + Cardinality({i \in DOMAIN db.chain["consent"] :
                     LET x == db.chain["consent"][i].payload
                     IN  x.kind = "participation" /\ x.action # "use"})

AppendTo(p, chain, payload) == AppendTx(mem[p], chain, payload)

\* A call to the ledger that is answered 201.
Posted(p, tx) == status[p] = "serving" /\ Store(p, tx) /\ UNCHANGED failures

\* One that fails for its caller: refused, done though the answer was lost,
\* or cut off by the end of the process.
PostFails(p, tx) ==
  /\ Events < MaxEvents
  /\ failures' = failures + 1
  /\ \/ UNCHANGED vars
     \/ status[p] = "serving" /\ (Store(p, tx) \/ Lose(p, tx))

-----------------------------------------------------------------------------
\* The auditor's rules.

\* A dump carries the hash stored with each row.
Dump(chain) ==
  [i \in DOMAIN chain |-> [prev |-> chain[i].prev, payload |-> chain[i].payload,
                           hash |-> Hash(chain[i].prev, chain[i].payload)]]

BreaksAt(entries, i) ==
  \/ entries[i].prev # IF i = 1 THEN Genesis ELSE entries[i - 1].hash
  \/ Hash(entries[i].prev, entries[i].payload) # entries[i].hash

\* Faulty: only the links between the rows are compared.
TamperedByLinks(entries) ==
  LET broken == {i \in DOMAIN entries :
                   entries[i].prev # IF i = 1 THEN Genesis ELSE entries[i - 1].hash}
  IN  IF broken = {} THEN 0 ELSE CHOOSE i \in broken : \A j \in broken : i <= j

\* POST /v1/certify/tamper: the first row that does not verify, or 0 for none.
TamperedIndex(entries) ==
  LET broken == {i \in DOMAIN entries : BreaksAt(entries, i)}
  IN  IF broken = {} THEN 0 ELSE CHOOSE i \in broken : \A j \in broken : i <= j

EnvironmentsOf(chain) == {chain[i].payload.env : i \in DOMAIN chain}

RowsOfEnv(chain, e) == {i \in DOMAIN chain : chain[i].payload.env = e}

\* Four rows of an environment, in the order of a lifecycle.
Complete(chain, i, j, k, l) ==
  /\ i < j /\ j < k /\ k < l
  /\ chain[i].payload.event = "created" /\ chain[j].payload.event = "attested"
  /\ chain[k].payload.event \in {"executed", "aborted"}
  /\ chain[l].payload.event = "destroyed"

\* lifecycle_violations: in-progress traces are among them.
Incomplete(chain) ==
  {e \in EnvironmentsOf(chain) :
     LET rows == RowsOfEnv(chain, e)
     IN  ~ \E i, j, k, l \in rows : rows = {i, j, k, l} /\ Complete(chain, i, j, k, l)}

\* consent_violations replays the chain with the newest change of each key.
Replayed == [granted |-> {}, revoked |-> {}, used |-> {}, invalid |-> 0]

Key(x) == <<x.kind, x.key>>

Granting(state, x) ==
  [state EXCEPT !.granted = @ \cup {Key(x)}, !.revoked = @ \ {Key(x)}]

Revoking(state, x) ==
  [state EXCEPT !.granted = @ \ {Key(x)}, !.revoked = @ \cup {Key(x)}]

\* Faulty: a participation nobody ever granted does not count as granted.
ReplayStrict(state, x) ==
  CASE x.action = "grant" -> Granting(state, x)
    [] x.action = "revoke" -> Revoking(state, x)
    [] x.action = "use" /\ x.kind = "participation" /\ Key(x) \in state.granted ->
         [state EXCEPT !.used = @ \cup {x.match}]
    [] x.action = "use" /\ x.kind = "disclosure" /\ Key(x) \in state.granted /\ x.inTime -> state
    [] OTHER -> [state EXCEPT !.invalid = @ + 1]

Replay(state, x) ==
  CASE x.action = "grant" -> Granting(state, x)
    [] x.action = "revoke" -> Revoking(state, x)
    [] x.action = "use" /\ x.kind = "participation" /\ Key(x) \notin state.revoked ->
         [state EXCEPT !.used = @ \cup {x.match}]
    [] x.action = "use" /\ x.kind = "disclosure" /\ Key(x) \in state.granted /\ x.inTime -> state
    [] OTHER -> [state EXCEPT !.invalid = @ + 1]

ReplayAll(chain) ==
  LET after[n \in 0 .. Len(chain)] ==
        IF n = 0 THEN Replayed ELSE Replay(after[n - 1], chain[n].payload)
  IN  after[Len(chain)]

Instructed(instr) == {m \in Match : instr[m] # NoTerms}

\* Faulty: a commitment needs no use of its own.
ConsentHoldsUnbacked(chain, instr) == ReplayAll(chain).invalid = 0

ConsentHolds(chain, instr) ==
  LET end == ReplayAll(chain)
  IN  end.invalid = 0 /\ Instructed(instr) \subseteq end.used

\* settlement_violations: the rows of a match against its instruction.
RowsOf(chain, m) == {i \in DOMAIN chain : chain[i].payload.match = m}

PaidAsInstructed(chain, m, t) ==
  LET rows == RowsOf(chain, m)
  IN  \E i \in rows :
        /\ chain[i].payload = Splits(m, t)
        /\ \/ rows = {i}
           \/ \E j \in rows, c \in Case :
                rows = {i, j} /\ i < j /\ chain[j].payload = Adjustment(m, t, c)

SettlementHolds(chain, instr, confirmed) ==
  /\ \A i \in DOMAIN chain : instr[chain[i].payload.match] # NoTerms
  /\ \A m \in Instructed(instr) :
       \/ m \notin confirmed /\ RowsOf(chain, m) = {}
       \/ m \in confirmed /\ PaidAsInstructed(chain, m, instr[m])
  /\ \A i, j \in DOMAIN chain :
       LET x == chain[i].payload
           y == chain[j].payload
       IN  x.kind = "adjustment" /\ y.kind = "adjustment" /\ x.case = y.case => x.match = y.match

\* total_violations = 0.
Certified(reads, instr, confirmed) ==
  /\ \A chain \in {reads.attestation, reads.settlement, reads.consent} :
       TamperedIndex(Dump(chain)) = 0
  /\ Incomplete(reads.attestation) = {}
  /\ ConsentHolds(reads.consent, instr)
  /\ SettlementHolds(reads.settlement, instr, confirmed)

-----------------------------------------------------------------------------
\* The coordinator.

ParticipationGranted(chain, s) == <<"participation", s>> \notin ReplayAll(chain).revoked

\* A need passes the consent gate and is dispatched to the slice.
Dispatch(p, m) ==
  /\ handler = Idle /\ Events < MaxEvents
  /\ status[p] = "serving" /\ m \notin begun \cup inbox
  /\ ParticipationGranted(mem[p].chain["consent"], Owner[m])
  /\ inbox' = inbox \cup {m}
  /\ handler' = [pc |-> "dispatch", about |-> m]
  /\ UNCHANGED <<vars, slice, begun, shortlisted, ordered, disclosed, overdue, failures, run>>

\* The coordinator waits no longer; the environment will run or runs on.
Abandon ==
  /\ handler.pc = "dispatch" /\ Events < MaxEvents
  /\ handler' = Idle
  /\ failures' = failures + 1
  /\ UNCHANGED <<vars, inbox, slice, begun, shortlisted, ordered, disclosed, overdue, run>>

\* POST /v1/bookings up to its first call that writes.
Book(p, m) ==
  /\ handler = Idle
  /\ status[p] = "serving" /\ m \in shortlisted \ ordered
  /\ ParticipationGranted(mem[p].chain["consent"], Owner[m])
  /\ handler' = [pc |-> "use", about |-> m]
  /\ UNCHANGED <<vars, inbox, slice, begun, shortlisted, ordered, disclosed, overdue, failures, run>>

\* record_participation_use: without it, no order and no booking.
RecordUse(p) ==
  /\ handler.pc = "use"
  /\ LET tx == AppendTo(p, "consent", ParticipationUse(handler.about))
     IN  \/ /\ Posted(p, tx)
            /\ handler' = [handler EXCEPT !.pc = IF handler.about \in Automatic THEN "order" ELSE "instruct"]
         \/ PostFails(p, tx) /\ handler' = Idle
  /\ UNCHANGED <<inbox, slice, begun, shortlisted, ordered, disclosed, overdue, run>>

\* A booking's instruction; one the ledger has already is answered 200.
InstructBooking(p, t) ==
  /\ handler.pc = "instruct" /\ status[p] = "serving"
  /\ \/ /\ \/ InstructAnswer(mem[p], handler.about, t) = 200 /\ UNCHANGED <<vars, failures>>
           \/ /\ InstructAnswer(mem[p], handler.about, t) = 201
              /\ Posted(p, InstructionTx(handler.about, t))
        /\ handler' = [handler EXCEPT !.pc = "order"]
     \/ /\ InstructAnswer(mem[p], handler.about, t) = 201
        /\ PostFails(p, InstructionTx(handler.about, t))
        /\ handler' = Idle
  /\ UNCHANGED <<inbox, slice, begun, shortlisted, ordered, disclosed, overdue, run>>

\* The seller takes the order, or the call fails.
CreateOrder ==
  /\ handler.pc = "order"
  /\ handler' = Idle
  /\ \/ ordered' = ordered \cup {handler.about} /\ UNCHANGED failures
     \/ Events < MaxEvents /\ failures' = failures + 1 /\ UNCHANGED ordered
  /\ UNCHANGED <<vars, inbox, slice, begun, shortlisted, disclosed, overdue, run>>

\* POST /v1/consents; the cycle a re-grant runs is the Dispatch steps after it.
SetParticipation(p, s, a) ==
  /\ handler = Idle /\ Events < MaxEvents
  /\ LET tx == AppendTo(p, "consent", Change("participation", s, a))
     IN  Posted(p, tx) \/ PostFails(p, tx)
  /\ UNCHANGED <<services, run>>

\* POST /v1/disclosures: the grant, the delivery to the case, the use.
GrantDisclosure(p, c) ==
  /\ handler = Idle /\ c \notin disclosed /\ Events < MaxEvents
  /\ disclosed' = disclosed \cup {c}
  /\ LET tx == AppendTo(p, "consent", Change("disclosure", c, "grant"))
     IN  \/ Posted(p, tx) /\ handler' = [pc |-> "deliver", about |-> c]
         \/ PostFails(p, tx) /\ handler' = Idle
  /\ UNCHANGED <<inbox, slice, begun, shortlisted, ordered, overdue, run>>

\* The use is stamped when the delivery has been answered, which may be after
\* the grant's expiry; it is not recorded when the delivery failed.
UseDisclosure(p, inTime) ==
  /\ handler.pc = "deliver"
  /\ handler' = Idle
  /\ LET tx == AppendTo(p, "consent", DisclosureUse(handler.about, inTime))
     IN  \/ (Posted(p, tx) \/ PostFails(p, tx)) /\ overdue' = (overdue \/ ~ inTime)
         \/ Events < MaxEvents /\ failures' = failures + 1 /\ UNCHANGED <<vars, overdue>>
  /\ UNCHANGED <<inbox, slice, begun, shortlisted, ordered, disclosed, run>>

-----------------------------------------------------------------------------
\* The slice runs one environment at a time, under its lock.

\* Faulty: an environment that has begun can be begun again.
BeginAgain(m) ==
  /\ slice = Idle /\ m \in inbox
  /\ begun' = begun \cup {m}
  /\ slice' = [pc |-> "created", env |-> m, aborted |-> FALSE, closed |-> FALSE]
  /\ UNCHANGED <<vars, handler, inbox, shortlisted, ordered, disclosed, overdue, failures, run>>

Begin(m) ==
  /\ slice = Idle /\ m \in inbox
  /\ inbox' = inbox \ {m} /\ begun' = begun \cup {m}
  /\ slice' = [pc |-> "created", env |-> m, aborted |-> FALSE, closed |-> FALSE]
  /\ UNCHANGED <<vars, handler, shortlisted, ordered, disclosed, overdue, failures, run>>

\* Faulty: an aborted environment does not attest its destruction.
AfterOmitting(event, m) ==
  CASE event = "created" -> {"attested"}
    [] event = "attested" -> {"aborted", "executed"} \cup IF m \in Automatic THEN {"instruct"} ELSE {}
    [] event = "executed" -> {"destroyed"}
    [] OTHER -> {}

\* What follows an event: an armed fault aborts; an automatic match is
\* instructed when an offer fits.
After(event, m) ==
  CASE event = "created" -> {"attested"}
    [] event = "attested" -> {"aborted", "executed"} \cup IF m \in Automatic THEN {"instruct"} ELSE {}
    [] event \in {"aborted", "executed"} -> {"destroyed"}
    [] OTHER -> {}

\* The environment's answer reaches the coordinator, if it still waits.
Finish(m, aborted, closed) ==
  /\ slice' = Idle
  /\ IF handler.pc = "dispatch" /\ handler.about = m /\ ~ aborted /\ (closed \/ m \notin Automatic)
       THEN /\ handler' = IF closed THEN [pc |-> "use", about |-> m] ELSE Idle
            /\ shortlisted' = IF closed THEN shortlisted ELSE shortlisted \cup {m}
       ELSE /\ handler' = IF handler.pc = "dispatch" /\ handler.about = m THEN Idle ELSE handler
            /\ UNCHANGED shortlisted

\* attest: whatever the ledger answers, the environment goes on.
Attests(p) ==
  /\ slice.pc \in Event
  /\ LET tx == AppendTo(p, "attestation", Lifecycle(slice.env, slice.pc))
     IN  Posted(p, tx) \/ PostFails(p, tx)
  /\ IF After(slice.pc, slice.env) = {}
       THEN Finish(slice.env, slice.aborted, slice.closed)
       ELSE /\ \E next \in After(slice.pc, slice.env) :
                 slice' = [slice EXCEPT !.pc = next, !.aborted = @ \/ next = "aborted"]
            /\ UNCHANGED <<handler, shortlisted>>
  /\ UNCHANGED <<inbox, begun, ordered, disclosed, overdue, run>>

\* The instruction of a match closed here; its answer is ignored too.
InstructMatch(p, t) ==
  /\ slice.pc = "instruct"
  /\ LET tx == InstructionTx(slice.env, t)
     IN  Posted(p, tx) \/ PostFails(p, tx)
  /\ slice' = [slice EXCEPT !.pc = "executed", !.closed = TRUE]
  /\ UNCHANGED <<handler, inbox, begun, shortlisted, ordered, disclosed, overdue, run>>

-----------------------------------------------------------------------------
\* The seller confirms, the support desk refunds, the ledger's process ends
\* and starts again, and PostgreSQL settles what was in doubt.

Fulfil(p, m) ==
  /\ m \in ordered /\ ConfirmAnswer(mem[p], m) = 201
  /\ LET tx == AppendTo(p, "settlement", Splits(m, mem[p].instr[m]))
     IN  Posted(p, tx) \/ PostFails(p, tx)
  /\ UNCHANGED <<services, run>>

Refund(p, m, c) ==
  /\ Events < MaxEvents
  /\ AdjustAnswer(mem[p], m, c) = 201
  /\ LET tx == AppendTo(p, "settlement", Adjustment(m, mem[p].instr[m], c))
     IN  Posted(p, tx) \/ PostFails(p, tx)
  /\ UNCHANGED <<services, run>>

LedgerCrash(p) ==
  /\ Events < MaxEvents
  /\ failures' = failures + 1
  /\ Crash(p)
  /\ UNCHANGED <<services, run>>

LedgerRuns ==
  /\ \/ \E p \in Proc : LoadChains(p) \/ LoadInstructions(p)
     \/ \E tx \in late : LateCommit(tx) \/ LateAbort(tx)
  /\ UNCHANGED <<services, failures, run>>

-----------------------------------------------------------------------------
\* POST /v1/certify. A read that fails ends the run without a certificate.

NoRun == [pc |-> "none"]

\* Whether process p serves all that is committed, and nothing was written
\* since the run began.
Still(p) == run.still /\ mem[p] = db /\ db = run.start

ReadAttestations(p) ==
  /\ run.pc = "none" /\ status[p] = "serving"
  /\ run' = [pc |-> "settlements", start |-> mem[p], still |-> mem[p] = db,
             attestation |-> mem[p].chain["attestation"]]
  /\ UNCHANGED <<vars, services, failures>>

ReadSettlements(p) ==
  /\ run.pc = "settlements" /\ status[p] = "serving"
  /\ run' = [pc |-> "consents", start |-> run.start, still |-> Still(p),
             attestation |-> run.attestation, settlement |-> mem[p].chain["settlement"]]
  /\ UNCHANGED <<vars, services, failures>>

ReadConsents(p) ==
  /\ run.pc = "consents" /\ status[p] = "serving"
  /\ run' = [pc |-> "instructions", start |-> run.start, still |-> Still(p),
             attestation |-> run.attestation, settlement |-> run.settlement,
             consent |-> mem[p].chain["consent"]]
  /\ UNCHANGED <<vars, services, failures>>

ReadInstructionsAndJudge(p) ==
  /\ run.pc = "instructions" /\ status[p] = "serving"
  /\ run' = [pc |-> "done", start |-> run.start, still |-> Still(p),
             certified |-> Certified(run, mem[p].instr, mem[p].confirmed)]
  /\ UNCHANGED <<vars, services, failures>>

-----------------------------------------------------------------------------
AuditInit ==
  /\ Init
  /\ handler = Idle /\ inbox = {} /\ slice = Idle
  /\ begun = {} /\ shortlisted = {} /\ ordered = {} /\ disclosed = {}
  /\ failures = 0 /\ overdue = FALSE /\ run = NoRun

Work ==
  \/ Abandon \/ CreateOrder \/ \E m \in Match : Begin(m)
  \/ \E p \in Proc :
       \/ \E m \in Match : \/ Dispatch(p, m) \/ Book(p, m) \/ Fulfil(p, m)
                           \/ \E c \in Case : Refund(p, m, c)
       \/ RecordUse(p) \/ \E t \in Terms : InstructBooking(p, t) \/ InstructMatch(p, t)
       \/ \E s \in Subject, a \in {"grant", "revoke"} : SetParticipation(p, s, a)
       \/ \E c \in Case : GrantDisclosure(p, c)
       \/ \E inTime \in BOOLEAN : UseDisclosure(p, inTime)
       \/ Attests(p)
       \/ LedgerCrash(p)
       \/ ReadAttestations(p) \/ ReadSettlements(p) \/ ReadConsents(p)
       \/ ReadInstructionsAndJudge(p)
  \/ LedgerRuns

\* The answer leaves; the auditor keeps nothing of the run.
Answer ==
  /\ run.pc = "done"
  /\ run' = NoRun
  /\ UNCHANGED <<vars, services, failures>>

AuditNext == Answer \/ Work

AuditSpec == AuditInit /\ [][AuditNext]_auditVars

-----------------------------------------------------------------------------
AuditTypeOK ==
  /\ StoreType(db)
  /\ handler.pc \in {"idle", "dispatch", "use", "instruct", "order", "deliver"}
  /\ slice.pc \in Event \cup {"idle", "instruct"}
  /\ inbox \in SUBSET Match /\ begun \in SUBSET Match /\ inbox \cap begun = {}
  /\ shortlisted \in SUBSET (begun \ Automatic) /\ ordered \in SUBSET begun
  /\ disclosed \in SUBSET Case
  /\ failures \in 0 .. MaxEvents /\ overdue \in BOOLEAN
  /\ run.pc \in {"none", "settlements", "consents", "instructions", "done"}

\* The truth a certificate is about, stated without a replay.
NewestChange(chain, i) ==
  LET x == chain[i].payload
      before == {j \in 1 .. i - 1 : chain[j].payload.kind = x.kind
                                      /\ chain[j].payload.key = x.key
                                      /\ chain[j].payload.action # "use"}
  IN  {chain[j].payload.action : j \in {k \in before : \A l \in before : l <= k}}

IsUse(chain, i) == chain[i].payload.action = "use"

AllowedUse(chain, i) ==
  IF chain[i].payload.kind = "participation"
    THEN "revoke" \notin NewestChange(chain, i)
    ELSE NewestChange(chain, i) = {"grant"} /\ chain[i].payload.inTime

Backed(chain, m) ==
  \E i \in DOMAIN chain :
    /\ chain[i].payload.kind = "participation" /\ IsUse(chain, i) /\ chain[i].payload.match = m
    /\ AllowedUse(chain, i)

\* What was wrong with a ledger, in the light of what the consent chain holds by now.
Flawed(store, consents) ==
  \/ Incomplete(store.chain["attestation"]) # {}
  \/ \E i \in DOMAIN store.chain["consent"] :
       IsUse(store.chain["consent"], i) /\ ~ AllowedUse(store.chain["consent"], i)
  \/ \E m \in Instructed(store.instr) : ~ Backed(consents, m)

(* Nothing is missed: when a run certifies, whatever was written between its
   four reads, every environment with a row on the chain before it is complete,
   every use recorded before it was allowed where it stands on the chain, and
   every match instructed before it has an allowed use of its own. *)
CertifiedIsTrue ==
  run.pc = "done" /\ run.certified => ~ Flawed(run.start, db.chain["consent"])

(* No false alarm at rest: a run during which nothing was written, of a ledger
   whose process holds all that is committed, fails only if something is
   wrong with the evidence, lost attestations and revoked uses included
   ("zero unexplained violations", plan/scenarios.md). *)
NoFalseAlarm ==
  run.pc = "done" /\ run.still /\ ~ run.certified => Flawed(run.start, run.start.chain["consent"])

(* The services leave evidence a certificate can be given for: as long as no
   call has failed and no disclosure outlived its grant, the ledger is flawless
   whenever neither the coordinator nor the slice is in the middle of anything. *)
FlawsComeFromFailures ==
  failures = 0 /\ ~ overdue /\ handler = Idle /\ slice = Idle =>
    ~ Flawed(db, db.chain["consent"])

(* A modified record of the attestation chain is found, and is the one named;
   an unmodified copy is not accused. *)
TamperLocated ==
  run.pc = "none" =>
  LET dump == Dump(db.chain["attestation"])
  IN  /\ TamperedIndex(dump) = 0
      /\ \A i \in DOMAIN dump, x \in Attestation :
           x # dump[i].payload => TamperedIndex([dump EXCEPT ![i].payload = x]) = i
=============================================================================
