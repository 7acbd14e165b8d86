----------------------------- MODULE AuditProofs -----------------------------
(***************************************************************************)
(* Proofs about the auditor and the evidence the services leave it, on top *)
(* of what LedgerProofs proves of ledger-svc.                              *)
(***************************************************************************)
EXTENDS Audit, LedgerProofs, FiniteSetTheorems, WellFoundedInduction

-----------------------------------------------------------------------------
\* The ledger under the services that write it.

\* What is written where.
Proper(tx) ==
  tx.op = "append" =>
    /\ tx.chain = "consent" => tx.payload \in Consent
    /\ tx.chain = "attestation" => tx.payload \in Attestation

ContentInv ==
  /\ \A i \in DOMAIN db.chain["consent"] : db.chain["consent"][i].payload \in Consent
  /\ \A i \in DOMAIN db.chain["attestation"] : db.chain["attestation"][i].payload \in Attestation
  /\ \A tx \in late : Proper(tx)

Offered(p, tx) ==
  /\ Sound(db, tx) /\ Proper(tx)
  /\ tx.op = "append" => tx.prev = ChainHead(mem[p].chain[tx.chain])

\* What a step of the services does to the ledger.
LedgerMoves ==
  \/ UNCHANGED vars
  \/ \E p \in Proc : \E tx : Offered(p, tx) /\ status[p] = "serving" /\ Persist(p, tx)
  \/ \E p \in Proc : Crash(p) \/ LoadChains(p) \/ LoadInstructions(p)
  \/ \E tx \in late : LateCommit(tx) \/ LateAbort(tx)

LEMMA ConsentOffered ==
  ASSUME Inv, NEW p \in Proc, NEW x \in Consent
  PROVE  Offered(p, AppendTo(p, "consent", x))
<1>1. "consent" \in ChainNames /\ "consent" # "settlement" /\ "consent" # "attestation"
      /\ x \in Payload
  BY DEF ChainNames, Payload
<1>2. AppendTo(p, "consent", x).payload = x
  BY DEF AppendTo, AppendTx
<1> QED BY <1>1, <1>2, AppendSound DEF Offered, Proper, AppendTo

LEMMA AttestationOffered ==
  ASSUME Inv, NEW p \in Proc, NEW x \in Attestation
  PROVE  Offered(p, AppendTo(p, "attestation", x))
<1>1. "attestation" \in ChainNames /\ "attestation" # "settlement" /\ "consent" # "attestation"
      /\ x \in Payload
  BY DEF ChainNames, Payload
<1>2. AppendTo(p, "attestation", x).payload = x
  BY DEF AppendTo, AppendTx
<1> QED BY <1>1, <1>2, AppendSound DEF Offered, Proper, AppendTo

LEMMA InstructionOffered ==
  ASSUME NEW p \in Proc, NEW m \in Match, NEW t \in Terms
  PROVE  Offered(p, InstructionTx(m, t))
<1>1. InstructionTx(m, t) \in InstructionTxs /\ InstructionTx(m, t).op = "instruction"
  BY DEF InstructionTxs, InstructionTx
<1> QED BY <1>1 DEF Offered, Proper, Sound, TxType, Justified

LEMMA SettlementOffered ==
  ASSUME Inv, NEW p \in Proc, NEW m \in Match, status[p] = "serving"
  PROVE  /\ ConfirmAnswer(mem[p], m) = 201 =>
              Offered(p, AppendTo(p, "settlement", Splits(m, mem[p].instr[m])))
         /\ \A c \in Case : AdjustAnswer(mem[p], m, c) = 201 =>
              Offered(p, AppendTo(p, "settlement", Adjustment(m, mem[p].instr[m], c)))
<1>1. ASSUME NEW x \in SettlementPayload,
             mem[p].chain["settlement"] = db.chain["settlement"] =>
               Justified(db, AppendTx(mem[p], "settlement", x))
      PROVE  Offered(p, AppendTo(p, "settlement", x))
  <2>1. "settlement" \in ChainNames /\ "settlement" \notin {"consent", "attestation"}
        /\ x \in Payload
    BY DEF ChainNames, Payload
  <2> QED BY <1>1, <2>1, AppendSound DEF Offered, Proper, AppendTo
<1>2. ASSUME ConfirmAnswer(mem[p], m) = 201
      PROVE  Offered(p, AppendTo(p, "settlement", Splits(m, mem[p].instr[m])))
  <2> DEFINE x == Splits(m, mem[p].instr[m])
  <2>1. /\ x \in SettlementPayload
        /\ mem[p].chain["settlement"] = db.chain["settlement"] =>
             Justified(db, AppendTx(mem[p], "settlement", x))
    BY <1>2, ConfirmSound
  <2> HIDE DEF x
  <2>2. Offered(p, AppendTo(p, "settlement", x))
    BY <1>1, <2>1
  <2> QED BY <2>2 DEF x
<1>3. ASSUME NEW c \in Case, AdjustAnswer(mem[p], m, c) = 201
      PROVE  Offered(p, AppendTo(p, "settlement", Adjustment(m, mem[p].instr[m], c)))
  <2> DEFINE x == Adjustment(m, mem[p].instr[m], c)
  <2>1. /\ x \in SettlementPayload
        /\ mem[p].chain["settlement"] = db.chain["settlement"] =>
             Justified(db, AppendTx(mem[p], "settlement", x))
    BY <1>3, AdjustSound
  <2> HIDE DEF x
  <2>2. Offered(p, AppendTo(p, "settlement", x))
    BY <1>1, <2>1
  <2> QED BY <2>2 DEF x
<1> QED BY <1>2, <1>3

LEMMA WriteMoves ==
  ASSUME NEW p \in Proc, NEW tx, status[p] = "serving" => Offered(p, tx),
         Posted(p, tx) \/ PostFails(p, tx)
  PROVE  LedgerMoves
BY DEF Posted, PostFails, LedgerMoves, Persist

\* The payloads the services write.
LEMMA PayloadsExist ==
  /\ \A e \in Match, event \in Event : Lifecycle(e, event) \in Attestation
  /\ \A s \in Subject, a \in {"grant", "revoke"} : Change("participation", s, a) \in Consent
  /\ \A c \in Case : Change("disclosure", c, "grant") \in Consent
  /\ \A m \in Match : ParticipationUse(m) \in Consent
  /\ \A c \in Case, inTime \in BOOLEAN : DisclosureUse(c, inTime) \in Consent
BY PayloadAssumption

-----------------------------------------------------------------------------
\* Where the coordinator and the slice are.
HandlerType ==
  {Idle} \cup [pc : {"dispatch", "use", "instruct", "order"}, about : Match]
         \cup [pc : {"deliver"}, about : Case]

SliceType ==
  {Idle} \cup [pc : Event \cup {"instruct"}, env : Match, aborted : BOOLEAN, closed : BOOLEAN]

WorkInv ==
  /\ handler \in HandlerType /\ slice \in SliceType
  /\ inbox \subseteq Match /\ begun \subseteq Match /\ inbox \cap begun = {}
  /\ IsFiniteSet(begun \cup inbox) /\ IsFiniteSet(disclosed)
  /\ handler.pc \in {"use", "instruct", "order"} => handler.about \in begun
  /\ slice # Idle => slice.env \in begun
  /\ shortlisted \subseteq begun \ Automatic /\ ordered \subseteq begun /\ disclosed \subseteq Case
  /\ failures \in 0 .. MaxEvents /\ overdue \in BOOLEAN
  /\ run.pc \in {"none", "settlements", "consents", "instructions", "done"}

\* What the steps say of the handler and the slice.
LEMMA HandlerShape ==
  ASSUME handler \in HandlerType
  PROVE  /\ handler.pc \in {"dispatch", "use", "instruct", "order"} <=>
              handler \in [pc : {"dispatch", "use", "instruct", "order"}, about : Match]
         /\ handler.pc = "deliver" => handler.about \in Case
         /\ handler.pc = "idle" <=> handler = Idle
         /\ handler.pc \in {"idle", "dispatch", "use", "instruct", "order", "deliver"}
BY DEF HandlerType, Idle

LEMMA SliceShape ==
  ASSUME slice \in SliceType
  PROVE  /\ slice.pc \in Event \cup {"instruct"} <=>
              slice \in [pc : Event \cup {"instruct"}, env : Match, aborted : BOOLEAN, closed : BOOLEAN]
         /\ slice.pc = "idle" <=> slice = Idle
         /\ slice.pc \in Event \cup {"idle", "instruct"}
BY DEF SliceType, Idle, Event

\* The services write what the ledger takes.
LEMMA ServicesMove ==
  ASSUME Inv, WorkInv, [AuditNext]_auditVars
  PROVE  LedgerMoves
<1> USE PayloadsExist
<1>1. ASSUME NEW p \in Proc, RecordUse(p)
      PROVE  LedgerMoves
  <2>1. ParticipationUse(handler.about) \in Consent
    BY <1>1, HandlerShape DEF WorkInv, RecordUse
  <2> QED BY <1>1, <2>1, ConsentOffered, WriteMoves DEF RecordUse
<1>2. ASSUME NEW p \in Proc, NEW t \in Terms, InstructBooking(p, t)
      PROVE  LedgerMoves
  <2>1. handler.about \in Match
    BY <1>2, HandlerShape DEF WorkInv, InstructBooking
  <2>2. UNCHANGED vars \/ Posted(p, InstructionTx(handler.about, t))
        \/ PostFails(p, InstructionTx(handler.about, t))
    BY <1>2 DEF InstructBooking
  <2>3. Offered(p, InstructionTx(handler.about, t))
    BY <2>1, InstructionOffered
  <2> QED BY <2>2, <2>3, WriteMoves DEF LedgerMoves
<1>3. ASSUME NEW p \in Proc, NEW t \in Terms, InstructMatch(p, t)
      PROVE  LedgerMoves
  <2>1. slice.env \in Match
    BY <1>3, SliceShape DEF WorkInv, InstructMatch
  <2> QED BY <1>3, <2>1, InstructionOffered, WriteMoves DEF InstructMatch
<1>4. ASSUME NEW p \in Proc, NEW s \in Subject, NEW a \in {"grant", "revoke"},
             SetParticipation(p, s, a)
      PROVE  LedgerMoves
  BY <1>4, ConsentOffered, WriteMoves DEF SetParticipation
<1>5. ASSUME NEW p \in Proc, NEW c \in Case, GrantDisclosure(p, c)
      PROVE  LedgerMoves
  BY <1>5, ConsentOffered, WriteMoves DEF GrantDisclosure
<1>6. ASSUME NEW p \in Proc, NEW inTime \in BOOLEAN, UseDisclosure(p, inTime)
      PROVE  LedgerMoves
  <2>1. DisclosureUse(handler.about, inTime) \in Consent
    BY <1>6, HandlerShape DEF WorkInv, UseDisclosure
  <2>2. \/ UNCHANGED vars
        \/ Posted(p, AppendTo(p, "consent", DisclosureUse(handler.about, inTime)))
        \/ PostFails(p, AppendTo(p, "consent", DisclosureUse(handler.about, inTime)))
    BY <1>6 DEF UseDisclosure
  <2>3. Offered(p, AppendTo(p, "consent", DisclosureUse(handler.about, inTime)))
    BY <2>1, ConsentOffered
  <2> QED BY <2>2, <2>3, WriteMoves DEF LedgerMoves
<1>7. ASSUME NEW p \in Proc, Attests(p)
      PROVE  LedgerMoves
  <2>1. Lifecycle(slice.env, slice.pc) \in Attestation
    BY <1>7, SliceShape DEF WorkInv, Attests
  <2> QED BY <1>7, <2>1, AttestationOffered, WriteMoves DEF Attests
<1>8. ASSUME NEW p \in Proc, NEW m \in Match, Fulfil(p, m)
      PROVE  LedgerMoves
  BY <1>8, SettlementOffered, WriteMoves DEF Fulfil
<1>9. ASSUME NEW p \in Proc, NEW m \in Match, NEW c \in Case, Refund(p, m, c)
      PROVE  LedgerMoves
  BY <1>9, SettlementOffered, WriteMoves DEF Refund
<1>10. CASE \/ Abandon \/ CreateOrder \/ \E m \in Match : Begin(m)
            \/ \E p \in Proc, m \in Match : Dispatch(p, m) \/ Book(p, m)
            \/ Answer \/ UNCHANGED auditVars
            \/ \E p \in Proc : \/ ReadAttestations(p) \/ ReadSettlements(p) \/ ReadConsents(p)
                               \/ ReadInstructionsAndJudge(p)
  BY <1>10 DEF LedgerMoves, Abandon, CreateOrder, Begin, Dispatch, Book, Answer, auditVars,
               ReadAttestations, ReadSettlements, ReadConsents, ReadInstructionsAndJudge
<1>11. CASE LedgerRuns \/ \E p \in Proc : LedgerCrash(p)
  BY <1>11 DEF LedgerMoves, LedgerRuns, LedgerCrash
<1> QED BY <1>1, <1>2, <1>3, <1>4, <1>5, <1>6, <1>7, <1>8, <1>9, <1>10, <1>11 DEF AuditNext, Work

-----------------------------------------------------------------------------
\* The ledger's invariant holds under the services.
LEMMA LedgerStep ==
  ASSUME Inv, LedgerMoves
  PROVE  Inv'
<1>1. CASE UNCHANGED vars
  BY <1>1 DEF vars, Inv, MemInv, SettlementRows, SettlementAt
<1>2. ASSUME NEW p \in Proc, NEW tx, Offered(p, tx), Persist(p, tx)
      PROVE  Inv'
  BY <1>2, PersistStep DEF Offered
<1>3. ASSUME NEW p \in Proc, Crash(p)
      PROVE  Inv'
  <2>1. \A q \in Proc : MemInv(q)'
    BY <1>3, ForgetKeepsMem DEF Crash
  <2> QED BY <1>3, <2>1 DEF Crash, Inv
<1> QED BY <1>1, <1>2, <1>3, StartStep, LateStep DEF LedgerMoves

\* Either nothing is committed, or one transaction that the schema admits.
Commits(tx) == Sound(db, tx) /\ Proper(tx) /\ Admissible(db, tx) /\ db' = Apply(db, tx)

LEMMA MovesCommit ==
  ASSUME Inv, ContentInv, LedgerMoves
  PROVE  db' = db \/ \E tx : Commits(tx)
<1>1. ASSUME NEW tx \in late, LateCommit(tx)
      PROVE  Commits(tx)
  BY <1>1 DEF LateCommit, Inv, ContentInv, Commits
<1>2. ASSUME NEW p \in Proc, NEW tx, Offered(p, tx), Persist(p, tx)
      PROVE  db' = db \/ Commits(tx)
  BY <1>2 DEF Offered, Persist, Store, Lose, Commits
<1> QED BY <1>1, <1>2 DEF LedgerMoves, vars, Crash, LoadChains, LoadInstructions, LateAbort

LEMMA AppendContent ==
  ASSUME NEW s \in Seq(Row), NEW row \in Row, NEW S,
         \A i \in DOMAIN s : s[i].payload \in S, row.payload \in S
  PROVE  \A i \in DOMAIN Append(s, row) : Append(s, row)[i].payload \in S
<1> SUFFICES ASSUME NEW i \in 1 .. Len(s) + 1
             PROVE  Append(s, row)[i].payload \in S
  OBVIOUS
<1>1. CASE i \in 1 .. Len(s)
  BY <1>1
<1>2. CASE i = Len(s) + 1
  BY <1>2
<1> QED BY <1>1, <1>2

LEMMA CommitContent ==
  ASSUME Inv, ContentInv, NEW tx, Commits(tx)
  PROVE  /\ \A i \in DOMAIN db'.chain["consent"] : db'.chain["consent"][i].payload \in Consent
         /\ \A i \in DOMAIN db'.chain["attestation"] :
              db'.chain["attestation"][i].payload \in Attestation
<1>1. StoreType(db) /\ TxType(tx)
  BY DEF Inv, StoreInv, Commits, Sound
<1>2. CASE tx \in InstructionTxs
  <2>1. db'.chain = db.chain
    BY <1>1, <1>2, AppliedInstruction DEF Commits
  <2> QED BY <2>1 DEF ContentInv
<1>3. CASE tx \in AppendTxs
  <2> DEFINE row == [prev |-> tx.prev, payload |-> tx.payload]
  <2>1. /\ tx.chain \in ChainNames /\ tx.op = "append" /\ row \in Row
        /\ db'.chain[tx.chain] = Append(db.chain[tx.chain], row)
        /\ \A c \in ChainNames \ {tx.chain} : db'.chain[c] = db.chain[c]
    BY <1>1, <1>3, AppliedAppend DEF AppendTxs, Commits
  <2>2. ASSUME NEW c \in ChainNames, NEW S,
               \A i \in DOMAIN db.chain[c] : db.chain[c][i].payload \in S,
               tx.chain = c => tx.payload \in S
        PROVE  \A i \in DOMAIN db'.chain[c] : db'.chain[c][i].payload \in S
    <3>1. CASE tx.chain # c
      BY <3>1, <2>1, <2>2
    <3>2. CASE tx.chain = c
      <4>1. db.chain[c] \in Seq(Row)
        BY <1>1 DEF StoreType
      <4>2. row.payload \in S
        BY <3>2, <2>2
      <4> HIDE DEF row
      <4> QED BY <2>1, <2>2, <3>2, <4>1, <4>2, AppendContent
    <3> QED BY <3>1, <3>2
  <2>3. /\ tx.chain = "consent" => tx.payload \in Consent
        /\ tx.chain = "attestation" => tx.payload \in Attestation
    BY <2>1 DEF Commits, Proper
  <2>4. "consent" \in ChainNames /\ "attestation" \in ChainNames
    BY DEF ChainNames
  <2> QED BY <2>2, <2>3, <2>4 DEF ContentInv
<1> QED BY <1>1, <1>2, <1>3 DEF TxType

LEMMA ContentStep ==
  ASSUME Inv, ContentInv, LedgerMoves
  PROVE  ContentInv'
<1>1. \A tx \in late' : Proper(tx)
  <2>1. ASSUME NEW p \in Proc, NEW tx, Offered(p, tx), Persist(p, tx)
        PROVE  \A other \in late' : Proper(other)
    BY <2>1 DEF Offered, Persist, Store, Lose, ContentInv
  <2>2. CASE UNCHANGED late
    BY <2>2 DEF ContentInv
  <2>3. ASSUME NEW tx \in late, LateCommit(tx) \/ LateAbort(tx)
        PROVE  \A other \in late' : Proper(other)
    BY <2>3 DEF LateCommit, LateAbort, ContentInv
  <2> QED BY <2>1, <2>2, <2>3 DEF LedgerMoves, vars, Crash, LoadChains, LoadInstructions
<1>2. CASE db' = db
  BY <1>1, <1>2 DEF ContentInv
<1>3. ASSUME NEW tx, Commits(tx)
      PROVE  ContentInv'
  BY <1>1, <1>3, CommitContent DEF ContentInv
<1> QED BY <1>2, <1>3, MovesCommit

\* The database only grows.
LEMMA DatabaseGrows ==
  ASSUME Inv, ContentInv, LedgerMoves
  PROVE  /\ \A c \in ChainNames : \A s \in Seq(Row) :
              IsPrefixOf(s, db.chain[c]) => IsPrefixOf(s, db'.chain[c])
         /\ \A m \in Match : db.instr[m] \in {NoTerms, db'.instr[m]}
         /\ db.confirmed \subseteq db'.confirmed
<1>1. ASSUME NEW tx, Commits(tx)
      PROVE  /\ \A c \in ChainNames : \A s \in Seq(Row) :
                  IsPrefixOf(s, db.chain[c]) => IsPrefixOf(s, db'.chain[c])
             /\ \A m \in Match : db.instr[m] \in {NoTerms, db'.instr[m]}
             /\ db.confirmed \subseteq db'.confirmed
  BY <1>1, ApplyGrows DEF Commits, Inv
<1> QED BY <1>1, MovesCommit

-----------------------------------------------------------------------------
\* The services' own state.

LEMMA EventsCounted ==
  ASSUME Inv, WorkInv
  PROVE  Events \in Nat /\ failures <= Events
<1> DEFINE changes == {i \in DOMAIN db.chain["consent"] :
                         LET x == db.chain["consent"][i].payload
                         IN  x.kind = "participation" /\ x.action # "use"}
<1>1. /\ db.chain["consent"] \in Seq(Row) /\ db.chain["settlement"] \in Seq(Row)
  BY DEF Inv, StoreInv, StoreType, ChainNames
<1>2. Cardinality(changes) \in Nat
  <2>1. IsFiniteSet(1 .. Len(db.chain["consent"]))
    BY <1>1, FS_Interval
  <2>2. changes \subseteq 1 .. Len(db.chain["consent"])
    BY <1>1
  <2> HIDE DEF changes
  <2> QED BY <2>1, <2>2, FS_Subset, FS_CardinalityType
<1>3. Cardinality(Refunds(db)) \in Nat
  <2> DEFINE Pair(i) == <<SettlementAt(db, i).match, SettlementAt(db, i).case>>
             pairs == {Pair(i) : i \in SettlementRows(db)}
  <2>1. IsFiniteSet(SettlementRows(db))
    <3>1. IsFiniteSet(1 .. Len(db.chain["settlement"]))
      BY <1>1, FS_Interval
    <3> QED BY <1>1, <3>1 DEF SettlementRows
  <2>2. IsFiniteSet(pairs)
    <3> DEFINE f == [i \in SettlementRows(db) |-> Pair(i)]
    <3>1. f \in Surjection(SettlementRows(db), pairs)
      BY DEF Surjection
    <3> QED BY <2>1, <3>1, FS_Surjection
  <2>3. Refunds(db) \subseteq pairs
    <3> SUFFICES ASSUME NEW x \in Refunds(db) PROVE x \in pairs
      OBVIOUS
    <3>1. x \in Match \X Case
      BY DEF Refunds
    <3>2. PICK i \in SettlementRows(db) :
            SettlementAt(db, i).match = x[1] /\ SettlementAt(db, i).case = x[2]
      BY DEF Refunds
    <3>3. x = Pair(i)
      BY <3>1, <3>2
    <3> QED BY <3>3
  <2> HIDE DEF pairs
  <2> QED BY <2>2, <2>3, FS_Subset, FS_CardinalityType
<1>4. Cardinality(begun \cup inbox) \in Nat /\ Cardinality(disclosed) \in Nat /\ failures \in Nat
  BY FS_CardinalityType DEF WorkInv
<1>5. Events = Cardinality(begun \cup inbox) + Cardinality(disclosed) + Cardinality(Refunds(db))
                 + failures + Cardinality(changes)
  BY DEF Events
<1> HIDE DEF changes
<1> QED BY <1>2, <1>3, <1>4, <1>5

LEMMA FailuresCounted ==
  ASSUME Inv, WorkInv,
         \/ UNCHANGED failures
         \/ Events < MaxEvents /\ failures' = failures + 1
         \/ \E p, tx : Posted(p, tx) \/ PostFails(p, tx)
  PROVE  failures' \in 0 .. MaxEvents
<1>1. UNCHANGED failures \/ (Events < MaxEvents /\ failures' = failures + 1)
  BY DEF Posted, PostFails
<1>2. failures \in 0 .. MaxEvents /\ MaxEvents \in Nat
  BY AuditParameters DEF WorkInv
<1> QED BY <1>1, <1>2, EventsCounted

\* The parts of WorkInv a step can disturb together.
HandlerInv ==
  /\ handler \in HandlerType /\ slice \in SliceType
  /\ handler.pc \in {"use", "instruct", "order"} => handler.about \in begun
  /\ slice # Idle => slice.env \in begun

EnvInv ==
  /\ inbox \subseteq Match /\ begun \subseteq Match /\ inbox \cap begun = {}
  /\ IsFiniteSet(begun \cup inbox) /\ IsFiniteSet(disclosed)
  /\ shortlisted \subseteq begun \ Automatic /\ ordered \subseteq begun /\ disclosed \subseteq Case

LEMMA HandlerStep ==
  ASSUME WorkInv, AuditNext
  PROVE  HandlerInv' /\ EnvInv'
<1>1. CASE \/ \E p \in Proc, m \in Match : Fulfil(p, m) \/ \E c \in Case : Refund(p, m, c)
           \/ \E p \in Proc, s \in Subject, a \in {"grant", "revoke"} : SetParticipation(p, s, a)
           \/ \E p \in Proc : \/ LedgerCrash(p) \/ ReadAttestations(p) \/ ReadSettlements(p)
                              \/ ReadConsents(p) \/ ReadInstructionsAndJudge(p)
           \/ LedgerRuns \/ Answer
  <2>1. UNCHANGED services
    BY <1>1 DEF Fulfil, Refund, SetParticipation, LedgerCrash, ReadAttestations, ReadSettlements,
                ReadConsents, ReadInstructionsAndJudge, LedgerRuns, Answer
  <2> QED BY <2>1 DEF services, WorkInv, HandlerInv, EnvInv
<1>2. CASE Abandon
  BY <1>2 DEF Abandon, WorkInv, HandlerInv, EnvInv, HandlerType, Idle
<1>3. CASE CreateOrder
  <2>1. handler.about \in begun /\ handler' = Idle /\ ordered' \subseteq ordered \cup {handler.about}
    BY <1>3 DEF CreateOrder, WorkInv
  <2> QED BY <1>3, <2>1 DEF CreateOrder, WorkInv, HandlerInv, EnvInv, HandlerType, Idle
<1>4. ASSUME NEW m \in Match, Begin(m)
      PROVE  HandlerInv' /\ EnvInv'
  <2>1. /\ slice' = [pc |-> "created", env |-> m, aborted |-> FALSE, closed |-> FALSE]
        /\ handler' = handler /\ begun' = begun \cup {m} /\ inbox' = inbox \ {m}
        /\ UNCHANGED <<shortlisted, ordered, disclosed>>
        /\ m \in inbox
    BY <1>4 DEF Begin
  <2>2. slice' \in SliceType
    BY <2>1 DEF SliceType, Event
  <2>3. begun' \cup inbox' = begun \cup inbox
    BY <2>1
  <2> QED BY <2>1, <2>2, <2>3 DEF WorkInv, HandlerInv, EnvInv
<1>5. ASSUME NEW p \in Proc, NEW m \in Match, Dispatch(p, m)
      PROVE  HandlerInv' /\ EnvInv'
  <2>1. /\ inbox' = inbox \cup {m} /\ handler' = [pc |-> "dispatch", about |-> m]
        /\ m \notin begun
        /\ UNCHANGED <<slice, begun, shortlisted, ordered, disclosed>>
    BY <1>5 DEF Dispatch
  <2>2. handler' \in HandlerType
    BY <2>1 DEF HandlerType
  <2>3. IsFiniteSet(begun' \cup inbox')
    <3>1. begun' \cup inbox' = (begun \cup inbox) \cup {m}
      BY <2>1
    <3> QED BY <3>1, FS_AddElement DEF WorkInv
  <2> QED BY <2>1, <2>2, <2>3 DEF WorkInv, HandlerInv, EnvInv
<1>6. ASSUME NEW p \in Proc, NEW m \in Match, Book(p, m)
      PROVE  HandlerInv' /\ EnvInv'
  <2>1. /\ handler' = [pc |-> "use", about |-> m] /\ m \in begun
        /\ UNCHANGED <<inbox, slice, begun, shortlisted, ordered, disclosed>>
    BY <1>6 DEF Book, WorkInv
  <2>2. handler' \in HandlerType
    BY <2>1 DEF HandlerType
  <2> QED BY <2>1, <2>2 DEF WorkInv, HandlerInv, EnvInv
<1>7. ASSUME NEW p \in Proc, RecordUse(p) \/ \E t \in Terms : InstructBooking(p, t)
      PROVE  HandlerInv' /\ EnvInv'
  <2>1. /\ handler.pc \in {"use", "instruct"}
        /\ \/ handler' = Idle
           \/ \E pc \in {"order", "instruct"} : handler' = [handler EXCEPT !.pc = pc]
        /\ UNCHANGED <<inbox, slice, begun, shortlisted, ordered, disclosed>>
    BY <1>7 DEF RecordUse, InstructBooking
  <2>2. handler \in [pc : {"dispatch", "use", "instruct", "order"}, about : Match]
        /\ handler.about \in begun
    BY <2>1, HandlerShape DEF WorkInv
  <2>3. handler' \in HandlerType /\ (handler' = Idle \/ handler'.about = handler.about)
    BY <2>1, <2>2 DEF HandlerType
  <2>4. handler' = Idle => handler'.pc = "idle"
    BY DEF Idle
  <2> QED BY <2>1, <2>2, <2>3, <2>4 DEF WorkInv, HandlerInv, EnvInv
<1>8. ASSUME NEW p \in Proc, NEW c \in Case, GrantDisclosure(p, c)
      PROVE  HandlerInv' /\ EnvInv'
  <2>1. /\ disclosed' = disclosed \cup {c}
        /\ handler' \in {Idle, [pc |-> "deliver", about |-> c]}
        /\ UNCHANGED <<inbox, slice, begun, shortlisted, ordered>>
    BY <1>8 DEF GrantDisclosure
  <2>2. handler' \in HandlerType /\ handler'.pc \in {"idle", "deliver"}
    BY <2>1 DEF HandlerType, Idle
  <2>3. IsFiniteSet(disclosed')
    BY <2>1, FS_AddElement DEF WorkInv
  <2> QED BY <2>1, <2>2, <2>3 DEF WorkInv, HandlerInv, EnvInv
<1>9. ASSUME NEW p \in Proc, NEW inTime \in BOOLEAN, UseDisclosure(p, inTime)
      PROVE  HandlerInv' /\ EnvInv'
  BY <1>9 DEF UseDisclosure, WorkInv, HandlerInv, EnvInv, HandlerType, Idle
<1>10. ASSUME NEW p \in Proc, Attests(p)
       PROVE  HandlerInv' /\ EnvInv'
  <2>1. /\ slice.pc \in Event /\ UNCHANGED <<inbox, begun, ordered, disclosed>>
    BY <1>10 DEF Attests
  <2>2. /\ slice \in [pc : Event \cup {"instruct"}, env : Match, aborted : BOOLEAN, closed : BOOLEAN]
        /\ slice # Idle /\ slice.env \in begun
    <3>1. slice.pc # "idle"
      BY <2>1 DEF Event
    <3> QED BY <2>1, <3>1, SliceShape DEF WorkInv
  <2>3. CASE After(slice.pc, slice.env) = {}
    <3>1. Finish(slice.env, slice.aborted, slice.closed)
      BY <1>10, <2>3 DEF Attests
    <3>2. /\ slice' = Idle
          /\ handler' \in {Idle, handler, [pc |-> "use", about |-> slice.env]}
          /\ shortlisted' \in {shortlisted, shortlisted \cup {slice.env}}
          /\ shortlisted' # shortlisted => slice.env \notin Automatic
      BY <3>1 DEF Finish
    <3>3. /\ handler' \in HandlerType /\ slice' \in SliceType
          /\ handler' = Idle => handler'.pc = "idle"
      BY <2>2, <3>2 DEF HandlerType, SliceType, WorkInv, Idle
    <3> QED BY <2>1, <2>2, <3>2, <3>3 DEF WorkInv, HandlerInv, EnvInv
  <2>4. CASE After(slice.pc, slice.env) # {}
    <3>1. /\ UNCHANGED <<handler, shortlisted>>
          /\ \E next \in After(slice.pc, slice.env) :
               slice' = [slice EXCEPT !.pc = next, !.aborted = @ \/ next = "aborted"]
      BY <1>10, <2>4 DEF Attests
    <3>2. PICK next \in After(slice.pc, slice.env) :
               slice' = [slice EXCEPT !.pc = next, !.aborted = @ \/ next = "aborted"]
      BY <3>1
    <3>3. next \in Event \cup {"instruct"}
      BY DEF After, Event
    <3>4. (slice.aborted \/ next = "aborted") \in BOOLEAN
      OBVIOUS
    <3>5. slice' \in SliceType /\ slice'.env = slice.env
      BY <2>2, <3>2, <3>3, <3>4 DEF SliceType
    <3> QED BY <2>1, <2>2, <3>1, <3>5 DEF WorkInv, HandlerInv, EnvInv
  <2> QED BY <2>3, <2>4
<1>11. ASSUME NEW p \in Proc, NEW t \in Terms, InstructMatch(p, t)
       PROVE  HandlerInv' /\ EnvInv'
  <2>1. /\ slice.pc = "instruct" /\ slice' = [slice EXCEPT !.pc = "executed", !.closed = TRUE]
        /\ UNCHANGED <<handler, inbox, begun, shortlisted, ordered, disclosed>>
    BY <1>11 DEF InstructMatch
  <2>2. /\ slice \in [pc : Event \cup {"instruct"}, env : Match, aborted : BOOLEAN, closed : BOOLEAN]
        /\ slice # Idle
    BY <2>1, SliceShape DEF WorkInv
  <2>3. slice' \in SliceType /\ slice'.env = slice.env
    BY <2>1, <2>2 DEF SliceType, Event
  <2> QED BY <2>1, <2>2, <2>3 DEF WorkInv, HandlerInv, EnvInv
<1> QED BY <1>1, <1>2, <1>3, <1>4, <1>5, <1>6, <1>7, <1>8, <1>9, <1>10, <1>11 DEF AuditNext, Work

LEMMA WorkStep ==
  ASSUME Inv, WorkInv, [AuditNext]_auditVars
  PROVE  WorkInv'
<1>1. CASE UNCHANGED auditVars
  BY <1>1 DEF auditVars, services, WorkInv
<1>2. CASE AuditNext
  <2> DEFINE Counts == \/ UNCHANGED failures
                       \/ Events < MaxEvents /\ failures' = failures + 1
                       \/ \E p, tx : Posted(p, tx) \/ PostFails(p, tx)
             Uses == UNCHANGED overdue \/ \E inTime \in BOOLEAN : overdue' = (overdue \/ ~ inTime)
             Reads == UNCHANGED run \/ run'.pc \in {"none", "settlements", "consents", "instructions", "done"}
  <2>1. ASSUME \/ Abandon \/ CreateOrder \/ \E m \in Match : Begin(m)
               \/ \E p \in Proc, m \in Match : Dispatch(p, m) \/ Book(p, m)
               \/ LedgerRuns \/ \E p \in Proc : LedgerCrash(p)
        PROVE  Counts /\ Uses /\ Reads
    BY <2>1 DEF Abandon, CreateOrder, Begin, Dispatch, Book, LedgerRuns, LedgerCrash, services
  <2>2. ASSUME \/ Answer
               \/ \E p \in Proc : \/ ReadAttestations(p) \/ ReadSettlements(p) \/ ReadConsents(p)
                                  \/ ReadInstructionsAndJudge(p)
        PROVE  Counts /\ Uses /\ Reads
    BY <2>2 DEF ReadAttestations, ReadSettlements, ReadConsents, ReadInstructionsAndJudge,
                Answer, NoRun, services
  <2>3. ASSUME \E p \in Proc : RecordUse(p) \/ Attests(p)
        PROVE  Counts /\ Uses /\ Reads
    BY <2>3 DEF RecordUse, Attests
  <2>4. ASSUME \E p \in Proc, t \in Terms : InstructMatch(p, t) \/ InstructBooking(p, t)
        PROVE  Counts /\ Uses /\ Reads
    BY <2>4 DEF InstructBooking, InstructMatch
  <2>5. ASSUME \/ \E p \in Proc, m \in Match : Fulfil(p, m) \/ \E c \in Case : Refund(p, m, c)
               \/ \E p \in Proc, s \in Subject, a \in {"grant", "revoke"} : SetParticipation(p, s, a)
               \/ \E p \in Proc, c \in Case : GrantDisclosure(p, c)
        PROVE  Counts /\ Uses /\ Reads
    BY <2>5 DEF Fulfil, Refund, SetParticipation, GrantDisclosure, services
  <2>6. ASSUME \E p \in Proc, inTime \in BOOLEAN : UseDisclosure(p, inTime)
        PROVE  Counts /\ Uses /\ Reads
    BY <2>6 DEF UseDisclosure
  <2>7. Counts /\ Uses /\ Reads
    BY <1>2, <2>1, <2>2, <2>3, <2>4, <2>5, <2>6 DEF AuditNext, Work
  <2>8. overdue' \in BOOLEAN
    <3>1. CASE overdue' = overdue
      BY <3>1 DEF WorkInv
    <3>2. ASSUME NEW inTime \in BOOLEAN, overdue' = (overdue \/ ~ inTime)
          PROVE  overdue' \in BOOLEAN
      BY <3>2, Zenon
    <3> QED BY <2>7, <3>1, <3>2
  <2> QED BY <1>2, <2>7, <2>8, HandlerStep, FailuresCounted
          DEF WorkInv, HandlerInv, EnvInv
<1> QED BY <1>1, <1>2

-----------------------------------------------------------------------------
AuditInv == Inv /\ ContentInv /\ WorkInv

LEMMA AuditInitial ==
  ASSUME AuditInit
  PROVE  AuditInv
<1>1. Inv
  BY InitialInv DEF AuditInit
<1>2. ContentInv
  <2>1. \A c \in ChainNames : db.chain[c] = << >>
    BY DEF AuditInit, Init, EmptyStore
  <2> QED BY <2>1 DEF AuditInit, Init, ContentInv, ChainNames
<1>3. WorkInv
  <2>1. /\ begun \cup inbox = {} /\ begun = {} /\ inbox = {} /\ disclosed = {}
        /\ shortlisted = {} /\ ordered = {}
    BY DEF AuditInit
  <2>2. IsFiniteSet(begun \cup inbox) /\ IsFiniteSet(disclosed)
    BY <2>1, FS_EmptySet
  <2>3. /\ handler \in HandlerType /\ handler.pc = "idle" /\ slice \in SliceType /\ slice = Idle
        /\ overdue \in BOOLEAN /\ run.pc = "none" /\ failures = 0
    BY DEF AuditInit, HandlerType, SliceType, Idle, NoRun
  <2> QED BY <2>1, <2>2, <2>3, AuditParameters DEF WorkInv
<1> QED BY <1>1, <1>2, <1>3 DEF AuditInv

LEMMA AuditInvHolds == AuditSpec => []AuditInv
<1>1. AuditInv /\ [AuditNext]_auditVars => AuditInv'
  BY ServicesMove, LedgerStep, ContentStep, WorkStep DEF AuditInv
<1> QED BY <1>1, AuditInitial, PTL DEF AuditSpec

(* The type invariant of the auditor, the coordinator, the slice and the ledger
   they write: an environment is never both waiting and begun, only begun ones
   are shortlisted or ordered, and only booked matches are shortlisted. *)
THEOREM AuditTypeCorrect == AuditSpec => []AuditTypeOK
<1>1. AuditInv => AuditTypeOK
  BY HandlerShape, SliceShape DEF AuditInv, Inv, StoreInv, WorkInv, AuditTypeOK
<1> QED BY <1>1, AuditInvHolds, PTL

(* What the ledger promises it keeps under these writers: nothing uncommitted
   is read by the auditor, and a match is settled and refunded at most once,
   whichever calls fail, lose their answers or race a restart. *)
THEOREM LedgerKeptByServices == AuditSpec => [](ServedIsCommitted /\ SettledOnce)
<1>1. AuditInv => ServedIsCommitted /\ SettledOnce
  BY DEF AuditInv, Inv, StoreInv, MemInv, ServedIsCommitted, SettledOnce
<1> QED BY <1>1, AuditInvHolds, PTL

-----------------------------------------------------------------------------
\* Tampering.

\* The rows of a dump whose chain verifies are linked.
LEMMA NothingBroken ==
  ASSUME NEW chain \in Seq(Row), Verifies(chain)
  PROVE  TamperedIndex(Dump(chain)) = 0
<1>1. ASSUME NEW i \in DOMAIN chain
      PROVE  ~ BreaksAt(Dump(chain), i)
  <2>1. \A j \in DOMAIN chain :
          /\ Dump(chain)[j].prev = chain[j].prev /\ Dump(chain)[j].payload = chain[j].payload
          /\ Dump(chain)[j].hash = Hash(chain[j].prev, chain[j].payload)
    BY DEF Dump
  <2>2. i = 1 \/ i - 1 \in DOMAIN chain
    BY <1>1
  <2> QED BY <1>1, <2>1, <2>2 DEF BreaksAt, Verifies
<1>2. DOMAIN Dump(chain) = DOMAIN chain
  BY DEF Dump
<1> QED BY <1>1, <1>2 DEF TamperedIndex

\* Hashes tell payloads apart.
LEMMA HashInjective ==
  ASSUME NEW prev \in Seq(Payload), NEW x \in Payload, NEW y \in Payload, x # y
  PROVE  Hash(prev, x) # Hash(prev, y)
<1>1. Append(prev, x)[Len(prev) + 1] = x /\ Append(prev, y)[Len(prev) + 1] = y
  OBVIOUS
<1> QED BY <1>1 DEF Hash

LEMMA ModifiedRowNamed ==
  ASSUME NEW chain \in Seq(Row), Verifies(chain), NEW i \in DOMAIN chain,
         NEW x \in Payload, x # chain[i].payload
  PROVE  TamperedIndex([Dump(chain) EXCEPT ![i].payload = x]) = i
<1> DEFINE dump == Dump(chain)
           forged == [dump EXCEPT ![i].payload = x]
<1>1. /\ DOMAIN forged = DOMAIN chain
      /\ \A j \in DOMAIN chain :
           /\ forged[j].prev = chain[j].prev
           /\ forged[j].hash = Hash(chain[j].prev, chain[j].payload)
           /\ forged[j].payload = IF j = i THEN x ELSE chain[j].payload
  BY DEF Dump
<1> HIDE DEF forged
<1>2. chain[i].prev \in Seq(Payload) /\ chain[i].payload \in Payload
  <2>1. chain[i] \in Row
    OBVIOUS
  <2> QED BY <2>1 DEF Row
<1>3. BreaksAt(forged, i)
  BY <1>1, <1>2, HashInjective DEF BreaksAt
<1>4. \A j \in DOMAIN chain : j # i => ~ BreaksAt(forged, j)
  BY <1>1 DEF BreaksAt, Verifies
<1>5. {j \in DOMAIN forged : BreaksAt(forged, j)} = {i}
  BY <1>1, <1>3, <1>4
<1>6. i \in Nat
  OBVIOUS
<1>7. TamperedIndex(forged) = CHOOSE k \in {i} : \A j \in {i} : k <= j
  BY <1>5 DEF TamperedIndex
<1>8. TamperedIndex(forged) = i
  BY <1>6, <1>7
<1> QED BY <1>8 DEF forged

(* The tamper check is exact on the attestation chain, however long it has
   grown: an unmodified copy is never accused, and a copy with one modified
   record is accused at that record and at no other. *)
THEOREM TamperingIsLocated == AuditSpec => []TamperLocated
<1>1. AuditInv => TamperLocated
  <2> SUFFICES ASSUME AuditInv PROVE TamperLocated
    OBVIOUS
  <2> DEFINE chain == db.chain["attestation"]
  <2>1. chain \in Seq(Row) /\ Verifies(chain)
    BY DEF AuditInv, Inv, StoreInv, StoreType, ChainNames
  <2>2. Attestation \subseteq Payload
    BY DEF Payload
  <2> HIDE DEF chain
  <2>3. /\ DOMAIN Dump(chain) = DOMAIN chain
        /\ \A i \in DOMAIN chain : Dump(chain)[i].payload = chain[i].payload
    BY DEF Dump
  <2>4. /\ TamperedIndex(Dump(chain)) = 0
        /\ \A i \in DOMAIN Dump(chain), x \in Attestation :
             x # Dump(chain)[i].payload =>
               TamperedIndex([Dump(chain) EXCEPT ![i].payload = x]) = i
    BY <2>1, <2>2, <2>3, NothingBroken, ModifiedRowNamed
  <2> QED BY <2>4 DEF TamperLocated, chain
<1> QED BY <1>1, AuditInvHolds, PTL

-----------------------------------------------------------------------------
\* The replay of the consent chain, row by row.

LEMMA NatMin ==
  ASSUME NEW T, T \subseteq Nat, T # {}
  PROVE  \E x \in T : \A y \in T : x <= y
<1> DEFINE R == {ss \in Nat \X Nat : ss[1] < ss[2]}
<1>1. IsWellFoundedOn(R, Nat)
  BY NatLessThanWellFounded DEF OpToRel
<1>2. PICK x \in T : \A y \in T : <<y, x>> \notin R
  <2> HIDE DEF R
  <2> QED BY <1>1, WFMin
<1>3. ASSUME NEW y \in T, y < x
      PROVE  FALSE
  <2>1. <<y, x>> \in R
    BY <1>3
  <2> QED BY <1>2, <2>1
<1> QED BY <1>3


IsReplay(chain, f, n) ==
  f = [k \in 0 .. n |-> IF k = 0 THEN Replayed ELSE Replay(f[k - 1], chain[k].payload)]

\* The recursion defines a function: otherwise there is a first length without one.
LEMMA ReplayExists ==
  ASSUME NEW chain \in Seq(Row)
  PROVE  \E f : IsReplay(chain, f, Len(chain))
<1> DEFINE T == {n \in 0 .. Len(chain) : ~ \E f : IsReplay(chain, f, n)}
<1>1. T \subseteq Nat /\ Len(chain) \in 0 .. Len(chain)
  OBVIOUS
<1>2. ASSUME T # {}
      PROVE  FALSE
  <2>1. PICK n \in T : \A k \in T : n <= k
    <3> HIDE DEF T
    <3> QED BY <1>1, <1>2, NatMin
  <2>2. n \in 0 .. Len(chain) /\ ~ \E f : IsReplay(chain, f, n)
    OBVIOUS
  <2>3. n # 0
    <3>1. IsReplay(chain, [k \in 0 .. 0 |-> Replayed], 0)
      BY DEF IsReplay
    <3> QED BY <2>2, <3>1
  <2>4. n - 1 \in 0 .. Len(chain) /\ n - 1 \notin T
    BY <2>1, <2>2, <2>3
  <2>5. PICK f : IsReplay(chain, f, n - 1)
    BY <2>4
  <2> DEFINE g == [k \in 0 .. n |-> IF k = n THEN Replay(f[n - 1], chain[n].payload) ELSE f[k]]
             h == [k \in 0 .. n |-> IF k = 0 THEN Replayed ELSE Replay(g[k - 1], chain[k].payload)]
  <2>6. ASSUME NEW k \in 0 .. n
        PROVE  g[k] = h[k]
    <3>1. CASE k = n
      <4>1. g[n - 1] = f[n - 1]
        BY <2>2, <2>3
      <4> QED BY <2>2, <2>3, <3>1, <4>1
    <3>2. CASE k # n
      <4>1. k \in 0 .. n - 1
        BY <2>2, <3>2
      <4>2. f[k] = IF k = 0 THEN Replayed ELSE Replay(f[k - 1], chain[k].payload)
        BY <2>5, <4>1 DEF IsReplay
      <4>3. k # 0 => k - 1 \in 0 .. n /\ g[k - 1] = f[k - 1]
        BY <2>2, <4>1
      <4> QED BY <3>2, <4>2, <4>3
    <3> QED BY <3>1, <3>2
  <2>7. g = h
    BY <2>6
  <2>8. IsReplay(chain, g, n)
    BY <2>7 DEF IsReplay
  <2> QED BY <2>2, <2>8
<1>3. T = {}
  BY <1>2
<1> QED BY <1>1, <1>3

LEMMA ReplayRuns ==
  ASSUME NEW chain \in Seq(Row)
  PROVE  \E f : /\ f[0] = Replayed
                /\ \A n \in 1 .. Len(chain) : f[n] = Replay(f[n - 1], chain[n].payload)
                /\ ReplayAll(chain) = f[Len(chain)]
<1> DEFINE f == CHOOSE f : IsReplay(chain, f, Len(chain))
<1>1. IsReplay(chain, f, Len(chain))
  BY ReplayExists
<1>2. ReplayAll(chain) = f[Len(chain)]
  BY DEF ReplayAll, IsReplay
<1> HIDE DEF f
<1>3. \A n \in 0 .. Len(chain) :
        f[n] = IF n = 0 THEN Replayed ELSE Replay(f[n - 1], chain[n].payload)
  BY <1>1 DEF IsReplay
<1> QED BY <1>2, <1>3

LEMMA ConsentShape ==
  ASSUME NEW x \in Consent
  PROVE  /\ x.action \in {"grant", "revoke", "use"}
         /\ x.kind \in {"participation", "disclosure"}
         /\ x.kind = "disclosure" => x.action # "revoke"
         /\ x.kind = "disclosure" /\ x.action = "use" => x.inTime \in BOOLEAN
BY PayloadAssumption DEF Change, ParticipationUse, DisclosureUse

\* The newest change of a key among the first n rows is at row i.
LastChange(chain, key, i, n) ==
  /\ i \in 1 .. n /\ Key(chain[i].payload) = key /\ chain[i].payload.action # "use"
  /\ \A j \in 1 .. n : j > i /\ Key(chain[j].payload) = key => chain[j].payload.action = "use"

LEMMA LastChangeUnique ==
  ASSUME NEW chain, NEW key, NEW n \in Nat, NEW i, NEW j,
         LastChange(chain, key, i, n), LastChange(chain, key, j, n)
  PROVE  i = j
BY DEF LastChange

\* One more row.
LEMMA LastChangeStep ==
  ASSUME NEW chain, NEW n \in Nat, n # 0, NEW key, NEW i
  PROVE  LastChange(chain, key, i, n) <=>
           IF chain[n].payload.action # "use" /\ Key(chain[n].payload) = key
             THEN i = n ELSE LastChange(chain, key, i, n - 1)
<1>1. \A j : j \in 1 .. n <=> j = n \/ j \in 1 .. n - 1
  OBVIOUS
<1>2. CASE chain[n].payload.action # "use" /\ Key(chain[n].payload) = key
  BY <1>1, <1>2 DEF LastChange
<1>3. CASE ~ (chain[n].payload.action # "use" /\ Key(chain[n].payload) = key)
  BY <1>1, <1>3 DEF LastChange
<1> QED BY <1>2, <1>3

\* The same, in the words of the truth a certificate is about.
LEMMA NewestIsLast ==
  ASSUME NEW chain \in Seq(Row), NEW i \in DOMAIN chain, NEW a
  PROVE  a \in NewestChange(chain, i) <=>
           \E j : /\ LastChange(chain, Key(chain[i].payload), j, i - 1)
                  /\ chain[j].payload.action = a
<1> DEFINE x == chain[i].payload
           before == {j \in 1 .. i - 1 : chain[j].payload.kind = x.kind
                                          /\ chain[j].payload.key = x.key
                                          /\ chain[j].payload.action # "use"}
           last == {k \in before : \A l \in before : l <= k}
<1>1. NewestChange(chain, i) = {chain[j].payload.action : j \in last}
  BY DEF NewestChange
<1>2. ASSUME NEW j
      PROVE  j \in last <=> LastChange(chain, Key(x), j, i - 1)
  <2>1. \A k : Key(chain[k].payload) = Key(x) <=>
               chain[k].payload.kind = x.kind /\ chain[k].payload.key = x.key
    BY DEF Key
  <2> QED BY <2>1 DEF LastChange
<1> HIDE DEF last
<1> QED BY <1>1, <1>2

\* A use is allowed by the change the replay has before it.
LEMMA AllowedByReplay ==
  ASSUME NEW chain \in Seq(Row), NEW i \in DOMAIN chain,
         \A j \in DOMAIN chain : chain[j].payload \in Consent,
         NEW granted, NEW revoked,
         \A key : key \in granted <=>
           \E j : LastChange(chain, key, j, i - 1) /\ chain[j].payload.action = "grant",
         \A key : key \in revoked <=>
           \E j : LastChange(chain, key, j, i - 1) /\ chain[j].payload.action = "revoke"
  PROVE  AllowedUse(chain, i) <=>
           IF chain[i].payload.kind = "participation"
             THEN Key(chain[i].payload) \notin revoked
             ELSE Key(chain[i].payload) \in granted /\ chain[i].payload.inTime
<1> DEFINE key == Key(chain[i].payload)
<1>1. "revoke" \in NewestChange(chain, i) <=> key \in revoked
  BY NewestIsLast
<1>2. NewestChange(chain, i) = {"grant"} <=> key \in granted
  <2>1. "grant" \in NewestChange(chain, i) <=> key \in granted
    BY NewestIsLast
  <2>2. ASSUME NEW a \in NewestChange(chain, i), NEW b \in NewestChange(chain, i)
        PROVE  a = b
    <3>1. PICK j : LastChange(chain, key, j, i - 1) /\ chain[j].payload.action = a
      BY NewestIsLast
    <3>2. PICK k : LastChange(chain, key, k, i - 1) /\ chain[k].payload.action = b
      BY NewestIsLast
    <3>3. i - 1 \in Nat
      OBVIOUS
    <3> QED BY <3>1, <3>2, <3>3, LastChangeUnique
  <2> QED BY <2>1, <2>2
<1> QED BY <1>1, <1>2, Zenon DEF AllowedUse

\* What the replay knows after n rows.
UseOf(chain, m, i) ==
  /\ chain[i].payload.kind = "participation" /\ IsUse(chain, i)
  /\ chain[i].payload.match = m /\ AllowedUse(chain, i)

Knows(chain, state, n) ==
  /\ state \in [granted : {state.granted}, revoked : {state.revoked}, used : {state.used},
                 invalid : Nat]
  /\ \A key : key \in state.granted <=>
       \E j : LastChange(chain, key, j, n) /\ chain[j].payload.action = "grant"
  /\ \A key : key \in state.revoked <=>
       \E j : LastChange(chain, key, j, n) /\ chain[j].payload.action = "revoke"
  /\ \A m : m \in state.used <=> \E i \in 1 .. n : UseOf(chain, m, i)
  /\ state.invalid = 0 <=> \A i \in 1 .. n : IsUse(chain, i) => AllowedUse(chain, i)

LEMMA ReplayStep ==
  ASSUME NEW chain \in Seq(Row), NEW n \in DOMAIN chain,
         \A j \in DOMAIN chain : chain[j].payload \in Consent,
         NEW state, Knows(chain, state, n - 1)
  PROVE  Knows(chain, Replay(state, chain[n].payload), n)
<1> DEFINE x == chain[n].payload
           after == Replay(state, x)
<1>1. /\ x \in Consent /\ n \in Nat /\ n # 0
      /\ \A i : i \in 1 .. n <=> i = n \/ i \in 1 .. n - 1
  OBVIOUS
<1>2. state = [granted |-> state.granted, revoked |-> state.revoked, used |-> state.used,
               invalid |-> state.invalid] /\ state.invalid \in Nat
  BY DEF Knows
<1>3. \A key, i : LastChange(chain, key, i, n) <=>
        IF x.action # "use" /\ Key(x) = key THEN i = n ELSE LastChange(chain, key, i, n - 1)
  BY <1>1, LastChangeStep
<1>4. CASE x.action # "use"
  <2>1. ASSUME x.action = "grant"
        PROVE  after = Granting(state, x)
    BY <2>1 DEF Replay
  <2>2. ASSUME x.action = "revoke"
        PROVE  after = Revoking(state, x)
    BY <2>2 DEF Replay
  <2>3. x.action = "grant" \/ x.action = "revoke"
    BY <1>1, <1>4, ConsentShape
  <2>4. /\ after = [granted |-> after.granted, revoked |-> after.revoked, used |-> state.used,
                    invalid |-> state.invalid]
        /\ after.granted = IF x.action = "grant" THEN state.granted \cup {Key(x)}
                                                 ELSE state.granted \ {Key(x)}
        /\ after.revoked = IF x.action = "revoke" THEN state.revoked \cup {Key(x)}
                                                  ELSE state.revoked \ {Key(x)}
    BY <1>2, <2>1, <2>2, <2>3 DEF Granting, Revoking
  <2> HIDE DEF after
  <2>5. ~ IsUse(chain, n)
    BY <1>4 DEF IsUse
  <2>6. \A m : m \in after.used <=> \E i \in 1 .. n : UseOf(chain, m, i)
    BY <1>1, <2>4, <2>5 DEF Knows, UseOf
  <2>7. after.invalid = 0 <=> \A i \in 1 .. n : IsUse(chain, i) => AllowedUse(chain, i)
    BY <1>1, <2>4, <2>5 DEF Knows
  <2>8. \A key : key \in after.granted <=>
          \E j : LastChange(chain, key, j, n) /\ chain[j].payload.action = "grant"
    BY <1>3, <1>4, <2>3, <2>4 DEF Knows
  <2>9. \A key : key \in after.revoked <=>
          \E j : LastChange(chain, key, j, n) /\ chain[j].payload.action = "revoke"
    BY <1>3, <1>4, <2>3, <2>4 DEF Knows
  <2> QED BY <1>2, <2>4, <2>6, <2>7, <2>8, <2>9 DEF Knows, after
<1>5. CASE x.action = "use"
  <2>1. /\ \A key : key \in state.granted <=>
             \E j : LastChange(chain, key, j, n) /\ chain[j].payload.action = "grant"
        /\ \A key : key \in state.revoked <=>
             \E j : LastChange(chain, key, j, n) /\ chain[j].payload.action = "revoke"
    BY <1>3, <1>5 DEF Knows
  <2>2. AllowedUse(chain, n) <=>
          IF x.kind = "participation" THEN Key(x) \notin state.revoked
                                      ELSE Key(x) \in state.granted /\ x.inTime
    BY AllowedByReplay DEF Knows
  <2>3. IsUse(chain, n)
    BY <1>5 DEF IsUse
  <2>4. CASE ~ AllowedUse(chain, n)
    <3>1. after = [state EXCEPT !.invalid = @ + 1]
      BY <1>5, <2>2, <2>4 DEF Replay
    <3>2. /\ after = [granted |-> state.granted, revoked |-> state.revoked, used |-> state.used,
                      invalid |-> state.invalid + 1]
          /\ state.invalid + 1 # 0
      BY <1>2, <3>1
    <3> HIDE DEF after
    <3>3. \A m : m \in after.used <=> \E i \in 1 .. n : UseOf(chain, m, i)
      BY <1>1, <2>4, <3>2 DEF Knows, UseOf
    <3>4. after.invalid # 0 /\ ~ \A i \in 1 .. n : IsUse(chain, i) => AllowedUse(chain, i)
      BY <1>1, <2>3, <2>4, <3>2
    <3> QED BY <1>2, <2>1, <3>2, <3>3, <3>4 DEF Knows, after
  <2>5. CASE AllowedUse(chain, n)
    <3>1. state.invalid = 0 <=> \A i \in 1 .. n : IsUse(chain, i) => AllowedUse(chain, i)
      BY <1>1, <2>5 DEF Knows
    <3>2. CASE x.kind = "participation"
      <4>1. after = [state EXCEPT !.used = @ \cup {x.match}]
        BY <1>5, <2>2, <2>5, <3>2 DEF Replay
      <4>2. after = [granted |-> state.granted, revoked |-> state.revoked,
                     used |-> state.used \cup {x.match}, invalid |-> state.invalid]
        BY <1>2, <4>1
      <4> HIDE DEF after
      <4>3. \A m : UseOf(chain, m, n) <=> m = x.match
        BY <2>3, <2>5, <3>2 DEF UseOf
      <4>4. \A m : m \in after.used <=> \E i \in 1 .. n : UseOf(chain, m, i)
        BY <1>1, <4>2, <4>3 DEF Knows
      <4> QED BY <1>2, <2>1, <3>1, <4>2, <4>4 DEF Knows, after
    <3>3. CASE x.kind # "participation"
      <4>1. x.kind = "disclosure"
        BY <1>1, <3>3, ConsentShape
      <4>2. after = state
        BY <1>5, <2>2, <2>5, <4>1 DEF Replay
      <4>3. \A m : m \in state.used <=> \E i \in 1 .. n : UseOf(chain, m, i)
        BY <1>1, <3>3 DEF Knows, UseOf
      <4> QED BY <1>2, <2>1, <3>1, <4>2, <4>3 DEF Knows
    <3> QED BY <3>2, <3>3
  <2> QED BY <2>4, <2>5
<1> QED BY <1>4, <1>5

\* The replay knows what the definitions of the truth say.
LEMMA ReplayKnows ==
  ASSUME NEW chain \in Seq(Row), \A j \in DOMAIN chain : chain[j].payload \in Consent
  PROVE  Knows(chain, ReplayAll(chain), Len(chain))
<1>1. PICK f : /\ f[0] = Replayed
               /\ \A n \in 1 .. Len(chain) : f[n] = Replay(f[n - 1], chain[n].payload)
               /\ ReplayAll(chain) = f[Len(chain)]
  BY ReplayRuns
<1> DEFINE T == {n \in 0 .. Len(chain) : ~ Knows(chain, f[n], n)}
<1>2. T \subseteq Nat /\ Len(chain) \in 0 .. Len(chain)
  OBVIOUS
<1>3. ASSUME T # {}
      PROVE  FALSE
  <2>1. PICK n \in T : \A k \in T : n <= k
    <3> HIDE DEF T
    <3> QED BY <1>2, <1>3, NatMin
  <2>2. n \in 0 .. Len(chain) /\ ~ Knows(chain, f[n], n)
    OBVIOUS
  <2>3. n # 0
    <3>1. Knows(chain, Replayed, 0)
      BY DEF Knows, Replayed, LastChange
    <3> QED BY <1>1, <2>2, <3>1
  <2>4. n \in DOMAIN chain /\ Knows(chain, f[n - 1], n - 1)
    BY <2>1, <2>2, <2>3
  <2> QED BY <1>1, <2>2, <2>4, ReplayStep
<1>4. T = {}
  BY <1>3
<1> QED BY <1>1, <1>2, <1>4

-----------------------------------------------------------------------------
\* The rules, on chains that grow.

LEMMA UsesGrow ==
  ASSUME NEW s \in Seq(Row), NEW t \in Seq(Row), IsPrefixOf(s, t)
  PROVE  /\ \A i \in DOMAIN s : i \in DOMAIN t /\ s[i] = t[i]
         /\ \A i \in DOMAIN s : IsUse(s, i) = IsUse(t, i) /\ AllowedUse(s, i) = AllowedUse(t, i)
         /\ \A m : Backed(s, m) => Backed(t, m)
<1>1. \A i \in DOMAIN s : i \in DOMAIN t /\ s[i] = t[i]
  BY DEF IsPrefixOf
<1>2. ASSUME NEW i \in DOMAIN s
      PROVE  NewestChange(s, i) = NewestChange(t, i)
  <2>1. \A j \in 1 .. i - 1 : s[j] = t[j]
    BY <1>1
  <2>2. \A a : a \in NewestChange(s, i) <=> a \in NewestChange(t, i)
    <3>1. \A key, j : LastChange(s, key, j, i - 1) <=> LastChange(t, key, j, i - 1)
      BY <2>1 DEF LastChange
    <3>2. \A key, j : LastChange(s, key, j, i - 1) => s[j] = t[j]
      BY <2>1 DEF LastChange
    <3> QED BY <1>1, <3>1, <3>2, NewestIsLast
  <2>3. NewestChange(s, i) \subseteq NewestChange(t, i)
        /\ NewestChange(t, i) \subseteq NewestChange(s, i)
    BY <2>2
  <2> QED BY <2>3
<1>3. \A i \in DOMAIN s : IsUse(s, i) = IsUse(t, i) /\ AllowedUse(s, i) = AllowedUse(t, i)
  BY <1>1, <1>2 DEF IsUse, AllowedUse
<1>4. ASSUME NEW m, Backed(s, m)
      PROVE  Backed(t, m)
  <2>1. PICK i \in DOMAIN s :
          /\ s[i].payload.kind = "participation" /\ IsUse(s, i) /\ s[i].payload.match = m
          /\ AllowedUse(s, i)
    BY <1>4 DEF Backed
  <2>2. i \in DOMAIN t /\ s[i] = t[i]
    BY <1>1
  <2>3. IsUse(t, i) /\ AllowedUse(t, i)
    BY <1>3, <2>1, Zenon
  <2> QED BY <2>1, <2>2, <2>3 DEF Backed
<1> QED BY <1>1, <1>3, <1>4, Zenon

\* What a passed consent check means.
LEMMA ConsentChecked ==
  ASSUME NEW chain \in Seq(Row), \A j \in DOMAIN chain : chain[j].payload \in Consent,
         NEW instr
  PROVE  ConsentHolds(chain, instr) <=>
           /\ \A i \in DOMAIN chain : IsUse(chain, i) => AllowedUse(chain, i)
           /\ \A m \in Instructed(instr) : Backed(chain, m)
<1>1. Knows(chain, ReplayAll(chain), Len(chain))
  BY ReplayKnows
<1>2. \A m : m \in ReplayAll(chain).used <=> Backed(chain, m)
  BY <1>1 DEF Knows, Backed, UseOf
<1>3. ReplayAll(chain).invalid = 0 <=>
        \A i \in DOMAIN chain : IsUse(chain, i) => AllowedUse(chain, i)
  BY <1>1 DEF Knows
<1> QED BY <1>2, <1>3 DEF ConsentHolds

\* Every row the auditor relies on is still where it was, whatever was
\* written after the run began.
LEMMA CheckedStaysTrue ==
  ASSUME NEW start, StoreType(start), NEW consents \in Seq(Row), NEW now \in Seq(Row),
         \A j \in DOMAIN now : now[j].payload \in Consent,
         IsPrefixOf(start.chain["consent"], consents), IsPrefixOf(consents, now),
         NEW instr, Instructed(start.instr) \subseteq Instructed(instr),
         Incomplete(start.chain["attestation"]) = {}, ConsentHolds(consents, instr)
  PROVE  ~ Flawed(start, now)
<1>1. start.chain["consent"] \in Seq(Row)
  BY DEF StoreType, ChainNames
<1>2. \A j \in DOMAIN consents : consents[j].payload \in Consent
  BY UsesGrow
<1>3. /\ \A i \in DOMAIN consents : IsUse(consents, i) => AllowedUse(consents, i)
      /\ \A m \in Instructed(instr) : Backed(consents, m)
  BY <1>2, ConsentChecked
<1>4. \A i \in DOMAIN start.chain["consent"] :
        IsUse(start.chain["consent"], i) => AllowedUse(start.chain["consent"], i)
  BY <1>1, <1>3, UsesGrow
<1>5. \A m \in Instructed(start.instr) : Backed(now, m)
  BY <1>3, UsesGrow
<1> QED BY <1>4, <1>5 DEF Flawed

LEMMA FlawedShrinks ==
  ASSUME NEW start, NEW s \in Seq(Row), NEW t \in Seq(Row), IsPrefixOf(s, t), ~ Flawed(start, s)
  PROVE  ~ Flawed(start, t)
BY UsesGrow DEF Flawed

\* The settlement rules hold of every store the ledger can hold.
LEMMA SettlementChecked ==
  ASSUME NEW store, StoreInv(store)
  PROVE  SettlementHolds(store.chain["settlement"], store.instr, store.confirmed)
<1> DEFINE chain == store.chain["settlement"]
<1>1. /\ StoreType(store) /\ SettlesOnce(store) /\ RefundsOnce(store)
      /\ chain \in Seq(Row)
  BY DEF StoreInv, StoreType, ChainNames
<1>2. ASSUME NEW i \in DOMAIN chain
      PROVE  /\ chain[i].payload \in SettlementPayload
             /\ chain[i].payload.terms = store.instr[chain[i].payload.match]
             /\ chain[i].payload.terms \in Terms
             /\ chain[i].payload.match \in Match
             /\ chain[i].payload.kind \in {"split", "adjustment"}
  BY <1>1, PayloadShape DEF StoreType, SettlesOnce, SettlementRows, SettlementAt
<1>3. \A i \in DOMAIN chain : store.instr[chain[i].payload.match] # NoTerms
  BY <1>2, NoTermsAssumption
<1>4. ASSUME NEW m \in Instructed(store.instr)
      PROVE  \/ m \notin store.confirmed /\ RowsOf(chain, m) = {}
             \/ m \in store.confirmed /\ PaidAsInstructed(chain, m, store.instr[m])
  <2>1. m \in Match
    BY DEF Instructed
  <2>2. \A i \in DOMAIN chain :
          chain[i].payload.match = m /\ chain[i].payload.kind = "split" <=>
            chain[i].payload = Splits(m, store.instr[m])
    BY <1>2, <2>1, PayloadShape DEF Splits
  <2>3. CASE m \notin store.confirmed
    <3>1. \A i \in DOMAIN chain : chain[i].payload # Splits(m, store.instr[m])
      BY <1>1, <2>1, <2>3 DEF SettlesOnce, SettlementRows, SettlementAt
    <3>2. \A i \in DOMAIN chain : chain[i].payload.match = m => chain[i].payload.kind = "adjustment"
      BY <1>2, <2>2, <3>1
    <3>3. \A i \in DOMAIN chain : chain[i].payload.match # m
      <4> SUFFICES ASSUME NEW i \in DOMAIN chain, chain[i].payload.match = m
                   PROVE  FALSE
        OBVIOUS
      <4>1. PICK j \in 1 .. i - 1 : chain[j].payload.kind = "split" /\ chain[j].payload.match = m
        BY <1>1, <3>2 DEF RefundsOnce, SettlementRows, SettlementAt
      <4>2. j \in DOMAIN chain
        BY <1>1
      <4> QED BY <2>2, <3>1, <4>1, <4>2
    <3> QED BY <2>3, <3>3 DEF RowsOf
  <2>4. CASE m \in store.confirmed
    <3>1. PICK i \in DOMAIN chain : chain[i].payload = Splits(m, store.instr[m])
      BY <1>1, <2>1, <2>4 DEF SettlesOnce, SettlementRows, SettlementAt
    <3>2. chain[i].payload.match = m /\ chain[i].payload.kind = "split"
      BY <2>2, <3>1
    <3>3. \A j \in DOMAIN chain : chain[j].payload.match = m /\ j # i =>
            chain[j].payload.kind = "adjustment"
      BY <1>1, <1>2, <3>2 DEF SettlesOnce, SettlementRows, SettlementAt
    <3>4. ASSUME NEW j \in DOMAIN chain, chain[j].payload.match = m, j # i
          PROVE  /\ i < j /\ chain[j].payload.case \in Case
                 /\ chain[j].payload = Adjustment(m, store.instr[m], chain[j].payload.case)
                 /\ RowsOf(chain, m) = {i, j}
      <4>1. chain[j].payload.kind = "adjustment"
        BY <3>3, <3>4
      <4>2. PICK k \in 1 .. j - 1 : chain[k].payload.kind = "split" /\ chain[k].payload.match = m
        BY <1>1, <3>4, <4>1 DEF RefundsOnce, SettlementRows, SettlementAt
      <4>3. k = i
        <5>1. k \in DOMAIN chain
          BY <1>1
        <5> QED BY <1>1, <3>2, <4>2, <5>1 DEF SettlesOnce, SettlementRows, SettlementAt
      <4>4. \A l \in DOMAIN chain : chain[l].payload.match = m => l = i \/ l = j
        BY <1>1, <3>3, <3>4, <4>1 DEF SettlesOnce, SettlementRows, SettlementAt
      <4>5. RowsOf(chain, m) = {i, j}
        BY <3>2, <3>4, <4>4 DEF RowsOf
      <4>6. chain[j].payload \in SettlementPayload /\ chain[j].payload.terms = store.instr[m]
        BY <1>2, <3>4
      <4>7. /\ chain[j].payload.case \in Case
            /\ chain[j].payload = Adjustment(m, store.instr[m], chain[j].payload.case)
        BY <3>4, <4>1, <4>6 DEF SettlementPayload, Splits, Adjustment
      <4>8. i < j
        BY <1>1, <4>2, <4>3
      <4> QED BY <4>5, <4>7, <4>8
    <3>5. i \in RowsOf(chain, m)
      BY <3>2 DEF RowsOf
    <3>6. CASE RowsOf(chain, m) = {i}
      BY <2>4, <3>1, <3>5, <3>6 DEF PaidAsInstructed
    <3>7. CASE RowsOf(chain, m) # {i}
      <4>1. PICK j \in RowsOf(chain, m) : j # i
        BY <3>5, <3>7
      <4>2. j \in DOMAIN chain /\ chain[j].payload.match = m
        BY DEF RowsOf
      <4> QED BY <2>4, <3>1, <3>4, <3>5, <4>1, <4>2 DEF PaidAsInstructed
    <3> QED BY <3>6, <3>7
  <2> QED BY <2>3, <2>4
<1>5. \A i, j \in DOMAIN chain :
        chain[i].payload.kind = "adjustment" /\ chain[j].payload.kind = "adjustment"
          /\ chain[i].payload.case = chain[j].payload.case =>
            chain[i].payload.match = chain[j].payload.match
  BY <1>1 DEF RefundsOnce, SettlementRows, SettlementAt
<1> HIDE DEF chain
<1>6. SettlementHolds(chain, store.instr, store.confirmed)
  BY <1>3, <1>4, <1>5 DEF SettlementHolds
<1> QED BY <1>6 DEF chain

-----------------------------------------------------------------------------
\* The run, while others write.

\* One process serves the ledger: the chart refuses any other number of
\* replicas. Two of them, one behind the other, could answer a later read
\* with less than an earlier one.
SingleLedger == \A p, q \in Proc : p = q

Reading == {"settlements", "consents", "instructions"}

\* Whatever was committed, or in memory, when the run began still is.
Follows(start) ==
  /\ IsPrefixOf(start.chain["consent"], db.chain["consent"])
  /\ Instructed(start.instr) \subseteq Instructed(db.instr)
  /\ \A p \in Proc :
       /\ status[p] # "down" => IsPrefixOf(start.chain["consent"], mem[p].chain["consent"])
       /\ status[p] = "serving" => Instructed(start.instr) \subseteq Instructed(mem[p].instr)

RunInv ==
  /\ run.pc \in Reading =>
       /\ StoreType(run.start) /\ Follows(run.start)
       /\ run.attestation = run.start.chain["attestation"]
  /\ run.pc = "instructions" =>
       /\ run.consent \in Seq(Row)
       /\ IsPrefixOf(run.start.chain["consent"], run.consent)
       /\ IsPrefixOf(run.consent, db.chain["consent"])
  /\ CertifiedIsTrue

\* A process forgets nothing it knew of what is committed but by stopping.
LEMMA MemoryGrows ==
  ASSUME Inv, LedgerMoves, NEW q \in Proc, NEW s \in Seq(Row), NEW I, I \subseteq Match,
         IsPrefixOf(s, db.chain["consent"]), I \subseteq Instructed(db.instr),
         status[q] # "down" => IsPrefixOf(s, mem[q].chain["consent"]),
         status[q] = "serving" => I \subseteq Instructed(mem[q].instr)
  PROVE  /\ status'[q] # "down" => IsPrefixOf(s, mem'[q].chain["consent"])
         /\ status'[q] = "serving" => I \subseteq Instructed(mem'[q].instr)
<1> DEFINE Goal == /\ status'[q] # "down" => IsPrefixOf(s, mem'[q].chain["consent"])
                   /\ status'[q] = "serving" => I \subseteq Instructed(mem'[q].instr)
<1>1. mem = [p \in Proc |-> mem[p]] /\ status \in [Proc -> {"down", "loading", "serving"}]
      /\ StoreType(mem[q]) /\ "consent" \in ChainNames /\ mem[q].chain["consent"] \in Seq(Row)
  BY DEF Inv, MemInv, StoreType, ChainNames
<1>2. CASE mem'[q] = mem[q] /\ status'[q] = status[q]
  BY <1>2
<1>3. ASSUME NEW p \in Proc, NEW tx, Offered(p, tx), status[p] = "serving", Store(p, tx)
      PROVE  Goal
  <2>1. /\ mem'[q] = IF q = p THEN Apply(mem[q], tx) ELSE mem[q]
        /\ status'[q] = status[q]
    BY <1>1, <1>3 DEF Store
  <2>2. CASE q # p
    BY <1>2, <2>1, <2>2
  <2>3. CASE q = p
    <3>1. TxType(tx) /\ mem'[q] = Apply(mem[q], tx)
      BY <1>3, <2>1, <2>3 DEF Offered, Sound
    <3>2. CASE tx \in InstructionTxs
      <4>1. /\ mem'[q].chain = mem[q].chain
            /\ mem'[q].instr = [mem[q].instr EXCEPT ![tx.match] = tx.terms]
            /\ tx.match \in Match /\ tx.terms \in Terms
        BY <1>1, <3>1, <3>2, AppliedInstruction
      <4>2. Instructed(mem[q].instr) \subseteq Instructed(mem'[q].instr)
        BY <1>1, <4>1, NoTermsAssumption DEF Instructed, StoreType
      <4> QED BY <2>1, <4>1, <4>2
    <3>3. CASE tx \in AppendTxs
      <4> DEFINE row == [prev |-> tx.prev, payload |-> tx.payload]
             store == mem[q]
      <4>1. /\ row \in Row /\ Apply(store, tx).instr = store.instr
            /\ Apply(store, tx).chain[tx.chain] = Append(store.chain[tx.chain], row)
            /\ \A c \in ChainNames \ {tx.chain} : Apply(store, tx).chain[c] = store.chain[c]
        <5>1. StoreType(store)
          BY <1>1
        <5> HIDE DEF store
        <5> QED BY <5>1, <3>1, <3>3, AppliedAppend
      <4>2. /\ row \in Row /\ mem'[q].instr = mem[q].instr
            /\ mem'[q].chain[tx.chain] = Append(mem[q].chain[tx.chain], row)
            /\ \A c \in ChainNames \ {tx.chain} : mem'[q].chain[c] = mem[q].chain[c]
        BY <3>1, <4>1
      <4> HIDE DEF row
      <4>3. IsPrefixOf(s, mem[q].chain["consent"]) => IsPrefixOf(s, mem'[q].chain["consent"])
        BY <1>1, <4>2, PrefixGrows
      <4> QED BY <2>1, <4>2, <4>3
    <3> QED BY <3>1, <3>2, <3>3 DEF TxType
  <2> QED BY <2>2, <2>3
<1>4. ASSUME NEW p \in Proc, \/ Crash(p) \/ \E tx : Lose(p, tx)
      PROVE  Goal
  <2>1. IF q = p THEN status'[q] = "down" ELSE mem'[q] = mem[q] /\ status'[q] = status[q]
    BY <1>1, <1>4 DEF Crash, Lose
  <2> QED BY <1>2, <2>1
<1>5. ASSUME NEW p \in Proc, LoadChains(p)
      PROVE  Goal
  <2>1. IF q = p THEN status'[q] = "loading" /\ mem'[q] = [mem[q] EXCEPT !.chain = db.chain]
                 ELSE mem'[q] = mem[q] /\ status'[q] = status[q]
    BY <1>1, <1>5 DEF LoadChains
  <2>2. q = p => mem'[q].chain = db.chain
    BY <1>1, <2>1 DEF StoreType
  <2> QED BY <1>2, <2>1, <2>2
<1>6. ASSUME NEW p \in Proc, LoadInstructions(p)
      PROVE  Goal
  <2>1. IF q = p THEN /\ status[q] = "loading"
                      /\ mem'[q] = [mem[q] EXCEPT !.instr = db.instr, !.confirmed = db.confirmed]
                 ELSE mem'[q] = mem[q] /\ status'[q] = status[q]
    BY <1>1, <1>6 DEF LoadInstructions
  <2>2. q = p => mem'[q].chain = mem[q].chain /\ mem'[q].instr = db.instr
    BY <1>1, <2>1 DEF StoreType
  <2> QED BY <1>2, <2>1, <2>2
<1>7. CASE UNCHANGED vars \/ \E tx \in late : LateCommit(tx) \/ LateAbort(tx)
  BY <1>2, <1>7 DEF vars, LateCommit, LateAbort
<1> QED BY <1>3, <1>4, <1>5, <1>6, <1>7 DEF LedgerMoves, Persist

LEMMA InstructedGrows ==
  ASSUME NEW instr, NEW later, \A m \in Match : instr[m] \in {NoTerms, later[m]}
  PROVE  Instructed(instr) \subseteq Instructed(later)
BY DEF Instructed

LEMMA FollowsStep ==
  ASSUME Inv, ContentInv, LedgerMoves, NEW start, StoreType(start), Follows(start)
  PROVE  /\ IsPrefixOf(start.chain["consent"], db'.chain["consent"])
         /\ Instructed(start.instr) \subseteq Instructed(db'.instr)
         /\ \A p \in Proc :
              /\ status'[p] # "down" => IsPrefixOf(start.chain["consent"], mem'[p].chain["consent"])
              /\ status'[p] = "serving" => Instructed(start.instr) \subseteq Instructed(mem'[p].instr)
<1>1. start.chain["consent"] \in Seq(Row) /\ Instructed(start.instr) \subseteq Match
      /\ "consent" \in ChainNames
  BY DEF StoreType, ChainNames, Instructed
<1>2. IsPrefixOf(start.chain["consent"], db'.chain["consent"])
      /\ Instructed(start.instr) \subseteq Instructed(db'.instr)
  BY <1>1, DatabaseGrows, InstructedGrows DEF Follows
<1>3. ASSUME NEW p \in Proc
      PROVE  /\ status'[p] # "down" => IsPrefixOf(start.chain["consent"], mem'[p].chain["consent"])
             /\ status'[p] = "serving" => Instructed(start.instr) \subseteq Instructed(mem'[p].instr)
  BY <1>1, MemoryGrows DEF Follows
<1> QED BY <1>2, <1>3

LEMMA RunMoves ==
  ASSUME AuditNext
  PROVE  \/ UNCHANGED run \/ Answer
         \/ \E p \in Proc : \/ ReadAttestations(p) \/ ReadSettlements(p) \/ ReadConsents(p)
                            \/ ReadInstructionsAndJudge(p)
<1>1. ASSUME \/ Abandon \/ CreateOrder \/ \E m \in Match : Begin(m)
             \/ \E p \in Proc, m \in Match : \/ Dispatch(p, m) \/ Book(p, m) \/ Fulfil(p, m)
                                            \/ \E c \in Case : Refund(p, m, c)
      PROVE  UNCHANGED run
  BY <1>1 DEF Abandon, CreateOrder, Begin, Dispatch, Book, Fulfil, Refund
<1>2. ASSUME NEW p \in Proc, RecordUse(p) \/ Attests(p)
      PROVE  UNCHANGED run
  BY <1>2 DEF RecordUse, Attests
<1>3. ASSUME NEW p \in Proc, NEW t \in Terms, InstructBooking(p, t) \/ InstructMatch(p, t)
      PROVE  UNCHANGED run
  BY <1>3 DEF InstructBooking, InstructMatch
<1>4. ASSUME NEW p \in Proc,
             \/ \E s \in Subject, a \in {"grant", "revoke"} : SetParticipation(p, s, a)
             \/ \E c \in Case : GrantDisclosure(p, c)
             \/ \E inTime \in BOOLEAN : UseDisclosure(p, inTime)
             \/ LedgerCrash(p)
      PROVE  UNCHANGED run
  BY <1>4 DEF SetParticipation, GrantDisclosure, UseDisclosure, LedgerCrash
<1>5. ASSUME LedgerRuns
      PROVE  UNCHANGED run
  BY <1>5 DEF LedgerRuns
<1> QED BY <1>1, <1>2, <1>3, <1>4, <1>5 DEF AuditNext, Work

LEMMA FollowsPrimed ==
  ASSUME NEW start, StoreType(start), run' = run, run.start = start,
         IsPrefixOf(start.chain["consent"], db'.chain["consent"]),
         Instructed(start.instr) \subseteq Instructed(db'.instr),
         \A p \in Proc :
              /\ status'[p] # "down" => IsPrefixOf(start.chain["consent"], mem'[p].chain["consent"])
              /\ status'[p] = "serving" => Instructed(start.instr) \subseteq Instructed(mem'[p].instr)
  PROVE  Follows(run.start)'
BY DEF Follows

LEMMA RunStep ==
  ASSUME SingleLedger, AuditInv, RunInv, [AuditNext]_auditVars
  PROVE  RunInv'
<1>1. LedgerMoves /\ StoreType(db) /\ \A q \in Proc : MemInv(q)
  BY ServicesMove DEF AuditInv, Inv, StoreInv
<1>2. /\ "consent" \in ChainNames
      /\ db.chain["consent"] \in Seq(Row) /\ db'.chain["consent"] \in Seq(Row)
      /\ \A j \in DOMAIN db.chain["consent"] : db.chain["consent"][j].payload \in Consent
  BY <1>1, LedgerStep DEF AuditInv, Inv, StoreInv, StoreType, ChainNames, ContentInv
<1>3. \A s \in Seq(Row) : IsPrefixOf(s, db.chain["consent"]) => IsPrefixOf(s, db'.chain["consent"])
  BY <1>1, <1>2, DatabaseGrows DEF AuditInv
<1>4. CASE UNCHANGED run
  <2>1. ASSUME run.pc \in Reading
        PROVE  Follows(run.start)'
    <3>1. StoreType(run.start) /\ Follows(run.start)
      BY <2>1 DEF RunInv
    <3> DEFINE start == run.start
    <3>2. StoreType(start) /\ Follows(start)
      BY <3>1
    <3>3. run.start = start
      OBVIOUS
    <3> HIDE DEF start
    <3> QED BY <1>1, <1>4, <3>2, <3>3, FollowsStep, FollowsPrimed DEF AuditInv
  <2>2. run.pc = "instructions" => IsPrefixOf(run.consent, db'.chain["consent"])
    BY <1>3 DEF RunInv
  <2>3. CertifiedIsTrue'
    <3>1. IsPrefixOf(db.chain["consent"], db'.chain["consent"])
      <4>1. IsPrefixOf(db.chain["consent"], db.chain["consent"])
        BY <1>2 DEF IsPrefixOf
      <4> QED BY <1>2, <1>3, <4>1
    <3>2. \A start : ~ Flawed(start, db.chain["consent"]) => ~ Flawed(start, db'.chain["consent"])
      BY <1>2, <3>1, FlawedShrinks
    <3> QED BY <1>4, <3>2 DEF RunInv, CertifiedIsTrue
  <2> QED BY <1>4, <2>1, <2>2, <2>3 DEF RunInv
<1>5. CASE Answer
  BY <1>5 DEF Answer, NoRun, RunInv, Reading, CertifiedIsTrue
<1>6. ASSUME NEW p \in Proc, ReadAttestations(p)
      PROVE  RunInv'
  <2>1. /\ run'.pc = "settlements" /\ run'.start = mem[p]
        /\ run'.attestation = mem[p].chain["attestation"]
        /\ UNCHANGED vars
    BY <1>6 DEF ReadAttestations
  <2>2. StoreType(mem[p]) /\ \A q \in Proc : mem[q] = mem[p]
    BY <1>1 DEF MemInv, SingleLedger
  <2>3. /\ IsPrefixOf(mem[p].chain["consent"], mem[p].chain["consent"])
        /\ IsPrefixOf(mem[p].chain["consent"], db.chain["consent"])
        /\ Instructed(mem[p].instr) \subseteq Instructed(db.instr)
    <3>1. mem[p].chain["consent"] \in Seq(Row)
      BY <1>2, <2>2 DEF StoreType
    <3>2. IsPrefixOf(mem[p].chain["consent"], mem[p].chain["consent"])
      BY <3>1 DEF IsPrefixOf
    <3>3. MemInv(p)
      BY <1>1
    <3>4. \A m \in Match : mem[p].instr[m] \in {NoTerms, db.instr[m]}
      BY <3>3 DEF MemInv
    <3>5. Instructed(mem[p].instr) \subseteq Instructed(db.instr)
      BY <3>4 DEF Instructed
    <3> QED BY <1>2, <3>2, <3>3, <3>5 DEF MemInv
  <2>4. Follows(run.start)'
    BY <2>1, <2>2, <2>3 DEF Follows, vars
  <2> QED BY <2>1, <2>2, <2>4 DEF RunInv, Reading, CertifiedIsTrue
<1>7. ASSUME NEW p \in Proc, ReadSettlements(p)
      PROVE  RunInv'
  <2>1. /\ run.pc = "settlements" /\ run'.pc = "consents" /\ run'.start = run.start
        /\ run'.attestation = run.attestation
        /\ UNCHANGED vars
    BY <1>7 DEF ReadSettlements
  <2>2. StoreType(run.start) /\ Follows(run.start)
    BY <2>1 DEF RunInv, Reading
  <2>3. Follows(run.start)'
    BY <2>1, <2>2 DEF Follows, vars
  <2> QED BY <2>1, <2>2, <2>3 DEF RunInv, Reading, CertifiedIsTrue
<1>8. ASSUME NEW p \in Proc, ReadConsents(p)
      PROVE  RunInv'
  <2>1. /\ run.pc = "consents" /\ run'.pc = "instructions" /\ run'.start = run.start
        /\ run'.attestation = run.attestation /\ run'.consent = mem[p].chain["consent"]
        /\ status[p] = "serving"
        /\ UNCHANGED vars
    BY <1>8 DEF ReadConsents
  <2>2. StoreType(run.start) /\ Follows(run.start)
    BY <2>1 DEF RunInv, Reading
  <2>3. Follows(run.start)'
    BY <2>1, <2>2 DEF Follows, vars
  <2>4. /\ mem[p].chain["consent"] \in Seq(Row)
        /\ IsPrefixOf(run.start.chain["consent"], mem[p].chain["consent"])
        /\ IsPrefixOf(mem[p].chain["consent"], db.chain["consent"])
    BY <1>1, <1>2, <2>1, <2>2 DEF MemInv, StoreType, Follows
  <2> QED BY <2>1, <2>2, <2>3, <2>4 DEF RunInv, Reading, CertifiedIsTrue, vars
<1>9. ASSUME NEW p \in Proc, ReadInstructionsAndJudge(p)
      PROVE  RunInv'
  <2>1. /\ run.pc = "instructions" /\ run'.pc = "done" /\ run'.start = run.start
        /\ run'.certified = Certified(run, mem[p].instr, mem[p].confirmed)
        /\ status[p] = "serving"
        /\ UNCHANGED vars
    BY <1>9 DEF ReadInstructionsAndJudge
  <2>2. /\ StoreType(run.start) /\ Follows(run.start) /\ run.consent \in Seq(Row)
        /\ run.attestation = run.start.chain["attestation"]
        /\ IsPrefixOf(run.start.chain["consent"], run.consent)
        /\ IsPrefixOf(run.consent, db.chain["consent"])
    BY <2>1 DEF RunInv, Reading
  <2>3. Instructed(run.start.instr) \subseteq Instructed(mem[p].instr)
    BY <2>1, <2>2 DEF Follows
  <2>4. ASSUME Certified(run, mem[p].instr, mem[p].confirmed)
        PROVE  ~ Flawed(run.start, db.chain["consent"])
    <3>1. Incomplete(run.start.chain["attestation"]) = {} /\ ConsentHolds(run.consent, mem[p].instr)
      BY <2>2, <2>4 DEF Certified
    <3> QED BY <1>2, <2>2, <2>3, <3>1, CheckedStaysTrue
  <2>5. CertifiedIsTrue'
    BY <2>1, <2>4 DEF CertifiedIsTrue, vars
  <2> QED BY <2>1, <2>5 DEF RunInv, Reading
<1>10. CASE UNCHANGED auditVars
  BY <1>4, <1>10 DEF auditVars
<1> QED BY <1>4, <1>5, <1>6, <1>7, <1>8, <1>9, <1>10, RunMoves

(* A certificate is never given to a ledger with an incomplete trace, a use
   that was not allowed or a match without a use of its own, whatever is
   written between the auditor's four reads and however often the ledger's
   process is restarted in between. *)
THEOREM CertificatesAreTrue == SingleLedger => (AuditSpec => []CertifiedIsTrue)
<1> SUFFICES ASSUME SingleLedger
             PROVE  AuditSpec => []CertifiedIsTrue
  OBVIOUS
<1>1. AuditInit => RunInv
  BY DEF AuditInit, NoRun, RunInv, Reading, CertifiedIsTrue
<1>2. AuditInv /\ RunInv /\ [AuditNext]_auditVars => RunInv'
  BY RunStep
<1>3. RunInv => CertifiedIsTrue
  BY DEF RunInv
<1> QED BY <1>1, <1>2, <1>3, AuditInvHolds, PTL DEF AuditSpec

-----------------------------------------------------------------------------
\* A run at rest reads one state of the ledger.

Consents(store) ==
  \A i \in DOMAIN store.chain["consent"] : store.chain["consent"][i].payload \in Consent

StillInv ==
  /\ run.pc # "none" /\ run.still => StoreInv(run.start) /\ Consents(run.start)
  /\ run.pc \in Reading => run.attestation = run.start.chain["attestation"]
  /\ run.pc \in {"consents", "instructions"} /\ run.still =>
       run.settlement = run.start.chain["settlement"]
  /\ run.pc = "instructions" /\ run.still => run.consent = run.start.chain["consent"]
  /\ NoFalseAlarm

\* Only the evidence can fail a run at rest: the chains verify, and the
\* settlements are what the ledger lets in.
LEMMA RestJudged ==
  ASSUME NEW start, StoreInv(start), Consents(start), NEW reads,
         reads.attestation = start.chain["attestation"],
         reads.settlement = start.chain["settlement"],
         reads.consent = start.chain["consent"],
         ~ Certified(reads, start.instr, start.confirmed)
  PROVE  Flawed(start, start.chain["consent"])
<1>1. \A c \in ChainNames : start.chain[c] \in Seq(Row) /\ Verifies(start.chain[c])
  BY DEF StoreInv, StoreType
<1>2. \A chain \in {reads.attestation, reads.settlement, reads.consent} :
        TamperedIndex(Dump(chain)) = 0
  BY <1>1, NothingBroken DEF ChainNames
<1>3. SettlementHolds(reads.settlement, start.instr, start.confirmed)
  BY SettlementChecked
<1>4. Incomplete(reads.attestation) # {} \/ ~ ConsentHolds(reads.consent, start.instr)
  BY <1>2, <1>3 DEF Certified
<1>5. start.chain["consent"] \in Seq(Row)
  BY <1>1 DEF ChainNames
<1>6. ConsentHolds(start.chain["consent"], start.instr) <=>
        /\ \A i \in DOMAIN start.chain["consent"] :
             IsUse(start.chain["consent"], i) => AllowedUse(start.chain["consent"], i)
        /\ \A m \in Instructed(start.instr) : Backed(start.chain["consent"], m)
  BY <1>5, ConsentChecked DEF Consents
<1> QED BY <1>4, <1>6 DEF Flawed

LEMMA StillStep ==
  ASSUME AuditInv, StillInv, [AuditNext]_auditVars
  PROVE  StillInv'
<1>1. StoreInv(db) /\ Consents(db)
  BY DEF AuditInv, Inv, ContentInv, Consents
<1>2. CASE UNCHANGED run
  BY <1>2 DEF StillInv, NoFalseAlarm
<1>3. CASE Answer
  BY <1>3 DEF Answer, NoRun, StillInv, Reading, NoFalseAlarm
<1>4. ASSUME NEW p \in Proc, ReadAttestations(p)
      PROVE  StillInv'
  <2>1. /\ run'.pc = "settlements" /\ run'.start = mem[p]
        /\ run'.attestation = mem[p].chain["attestation"]
        /\ run'.still => mem[p] = db
    BY <1>4 DEF ReadAttestations
  <2> QED BY <1>1, <2>1 DEF StillInv, Reading, NoFalseAlarm
<1>5. ASSUME NEW p \in Proc, ReadSettlements(p)
      PROVE  StillInv'
  <2>1. /\ run.pc = "settlements" /\ run'.pc = "consents" /\ run'.start = run.start
        /\ run'.attestation = run.attestation
        /\ run'.settlement = mem[p].chain["settlement"]
        /\ run'.still => run.still /\ mem[p] = db /\ db = run.start
    BY <1>5 DEF ReadSettlements, Still
  <2> QED BY <2>1 DEF StillInv, Reading, NoFalseAlarm
<1>6. ASSUME NEW p \in Proc, ReadConsents(p)
      PROVE  StillInv'
  <2>1. /\ run.pc = "consents" /\ run'.pc = "instructions" /\ run'.start = run.start
        /\ run'.attestation = run.attestation /\ run'.settlement = run.settlement
        /\ run'.consent = mem[p].chain["consent"]
        /\ run'.still => run.still /\ mem[p] = db /\ db = run.start
    BY <1>6 DEF ReadConsents, Still
  <2> QED BY <2>1 DEF StillInv, Reading, NoFalseAlarm
<1>7. ASSUME NEW p \in Proc, ReadInstructionsAndJudge(p)
      PROVE  StillInv'
  <2>1. /\ run.pc = "instructions" /\ run'.pc = "done" /\ run'.start = run.start
        /\ run'.certified = Certified(run, mem[p].instr, mem[p].confirmed)
        /\ run'.still => run.still /\ mem[p] = db /\ db = run.start
    BY <1>7 DEF ReadInstructionsAndJudge, Still
  <2>2. ASSUME run'.still, ~ run'.certified
        PROVE  Flawed(run.start, run.start.chain["consent"])
    <3>1. /\ StoreInv(run.start) /\ Consents(run.start)
          /\ run.attestation = run.start.chain["attestation"]
          /\ run.settlement = run.start.chain["settlement"]
          /\ run.consent = run.start.chain["consent"]
          /\ mem[p] = run.start
      BY <2>1, <2>2 DEF StillInv, Reading
    <3>2. ~ Certified(run, run.start.instr, run.start.confirmed)
      BY <2>1, <2>2, <3>1
    <3> DEFINE start == run.start
               reads == run
    <3> HIDE DEF start, reads
    <3>3. Flawed(start, start.chain["consent"])
      BY <3>1, <3>2, RestJudged DEF start, reads
    <3> QED BY <3>3 DEF start
  <2> QED BY <2>1, <2>2 DEF StillInv, Reading, NoFalseAlarm
<1>8. CASE UNCHANGED auditVars
  BY <1>2, <1>8 DEF auditVars
<1> QED BY <1>2, <1>3, <1>4, <1>5, <1>6, <1>7, <1>8, RunMoves

(* No false alarm at rest: when nothing was written during a run and its
   process holds all that is committed, a refused certificate means that the
   evidence is flawed; neither the tamper check nor the settlement rules ever
   fail what ledger-svc can have stored. *)
THEOREM AlarmsAreReal == AuditSpec => []NoFalseAlarm
<1>1. AuditInit => StillInv
  BY DEF AuditInit, NoRun, StillInv, Reading, NoFalseAlarm
<1>2. AuditInv /\ StillInv /\ [AuditNext]_auditVars => StillInv'
  BY StillStep
<1>3. StillInv => NoFalseAlarm
  BY DEF StillInv
<1> QED BY <1>1, <1>2, <1>3, AuditInvHolds, PTL DEF AuditSpec

-----------------------------------------------------------------------------
\* As long as no call has failed, the evidence is written in step with the work.

\* What a serving process holds is what is committed, and nothing is in doubt.
AtOnce ==
  /\ late = {}
  /\ \A p \in Proc : /\ status[p] # "down" => mem[p].chain = db.chain
                     /\ status[p] = "serving" => mem[p] = db

\* The coordinator waits for the one environment there is.
Waiting ==
  /\ inbox # {} => slice = Idle /\ handler.pc = "dispatch" /\ inbox = {handler.about}
  /\ slice # Idle => handler = [pc |-> "dispatch", about |-> slice.env]
  /\ slice # Idle /\ slice.closed => slice.pc \in {"executed", "destroyed"} /\ ~ slice.aborted
  /\ slice # Idle /\ slice.aborted => slice.pc \in {"aborted", "destroyed"}

\* The rows of the environment that runs, by what it posts next.
Progress(chain) ==
  LET rows == RowsOfEnv(chain, slice.env)
      Prepared(i, j) == i < j /\ chain[i].payload.event = "created"
                            /\ chain[j].payload.event = "attested"
  IN  /\ slice.pc = "created" => rows = {}
      /\ slice.pc = "attested" => \E i \in rows : rows = {i} /\ chain[i].payload.event = "created"
      /\ slice.pc \in {"instruct", "executed", "aborted"} =>
           \E i, j \in rows : rows = {i, j} /\ Prepared(i, j)
      /\ slice.pc = "destroyed" =>
           \E i, j, k \in rows : /\ rows = {i, j, k} /\ Prepared(i, j) /\ j < k
                                 /\ chain[k].payload.event \in {"executed", "aborted"}

Whole(chain, e) ==
  LET rows == RowsOfEnv(chain, e)
  IN  rows # {} => \E i, j, k, l \in rows : rows = {i, j, k, l} /\ Complete(chain, i, j, k, l)

Traces ==
  LET chain == db.chain["attestation"]
  IN  /\ \A e : e \notin begun => RowsOfEnv(chain, e) = {}
      /\ \A e \in begun : slice = Idle \/ slice.env # e => Whole(chain, e)
      /\ slice # Idle => Progress(chain)

\* What is instructed has a use of its own, or the coordinator will record it.
InHand(m) ==
  \/ slice # Idle /\ slice.closed /\ slice.env = m
  \/ handler.pc = "use" /\ handler.about = m

AllAllowed(chain) == \A i \in DOMAIN chain : IsUse(chain, i) => AllowedUse(chain, i)

Uses ==
  LET chain == db.chain["consent"]
  IN  /\ handler.pc \in {"dispatch", "use"} => ParticipationGranted(chain, Owner[handler.about])
      /\ handler.pc = "deliver" => <<"disclosure", handler.about>> \in ReplayAll(chain).granted
      /\ handler.pc = "instruct" => Backed(chain, handler.about)
      /\ ~ overdue => AllAllowed(chain)
      /\ \A m \in Instructed(db.instr) : Backed(chain, m) \/ InHand(m)

Orderly == AtOnce /\ Waiting /\ Traces /\ Uses

OrderlyInv == failures = 0 => Orderly

\* One row was appended to a chain of the database, and nothing else.
Appended(c, x) ==
  \E row \in Row :
    /\ row.payload = x
    /\ db'.chain[c] = Append(db.chain[c], row)
    /\ \A d \in ChainNames \ {c} : db'.chain[d] = db.chain[d]
    /\ db'.instr = db.instr

LEMMA PostedAppends ==
  ASSUME SingleLedger, AuditInv, AtOnce, NEW p \in Proc, NEW c \in ChainNames, NEW x,
         status[p] = "serving" => Offered(p, AppendTo(p, c, x)), Posted(p, AppendTo(p, c, x))
  PROVE  Appended(c, x) /\ AtOnce'
<1> DEFINE tx == AppendTo(p, c, x)
           row == [prev |-> tx.prev, payload |-> tx.payload]
<1>1. /\ tx.op = "append" /\ tx.chain = c /\ tx.payload = x
  BY DEF AppendTo, AppendTx
<1>2. /\ status[p] = "serving" /\ Store(p, tx) /\ TxType(tx)
  BY DEF Posted, Offered, Sound
<1>3. tx \in AppendTxs /\ StoreType(db)
  BY <1>1, <1>2 DEF TxType, InstructionTxs, InstructionTx, AuditInv, Inv, StoreInv
<1> HIDE DEF tx
<1>4. /\ row \in Row /\ Apply(db, tx).instr = db.instr
      /\ Apply(db, tx).chain[tx.chain] = Append(db.chain[tx.chain], row)
      /\ \A d \in ChainNames \ {tx.chain} : Apply(db, tx).chain[d] = db.chain[d]
  BY <1>2, <1>3, AppliedAppend
<1>5. db' = Apply(db, tx)
  BY <1>2 DEF Store
<1>6. row.payload = x
  BY <1>1
<1> HIDE DEF row
<1>7. Appended(c, x)
  BY <1>1, <1>4, <1>5, <1>6 DEF Appended
<1>8. AtOnce'
  <2>1. mem[p] = db /\ mem' = [mem EXCEPT ![p] = Apply(mem[p], tx)] /\ late' = late /\ status' = status
    BY <1>2 DEF Store, AtOnce
  <2>2. mem'[p] = db'
    BY <1>5, <2>1 DEF AuditInv, Inv
  <2>3. \A q \in Proc : mem'[q] = db'
    BY <2>2 DEF SingleLedger
  <2> QED BY <2>1, <2>3 DEF AtOnce
<1> QED BY <1>7, <1>8

LEMMA PostedInstructs ==
  ASSUME SingleLedger, AuditInv, AtOnce, NEW p \in Proc, NEW m \in Match, NEW t \in Terms,
         Posted(p, InstructionTx(m, t))
  PROVE  /\ db'.chain = db.chain /\ AtOnce'
         /\ Instructed(db'.instr) \subseteq Instructed(db.instr) \cup {m}
<1> DEFINE tx == InstructionTx(m, t)
<1>1. tx \in InstructionTxs /\ tx.match = m /\ StoreType(db)
  BY DEF InstructionTxs, InstructionTx, AuditInv, Inv, StoreInv
<1>2. status[p] = "serving" /\ Store(p, tx)
  BY DEF Posted
<1> HIDE DEF tx
<1>3. /\ Apply(db, tx).chain = db.chain
      /\ Apply(db, tx).instr = [db.instr EXCEPT ![tx.match] = tx.terms]
  BY <1>1, AppliedInstruction
<1>4. db' = Apply(db, tx)
  BY <1>2 DEF Store
<1>5. Instructed(db'.instr) \subseteq Instructed(db.instr) \cup {m}
  BY <1>1, <1>3, <1>4 DEF Instructed, StoreType
<1>6. AtOnce'
  <2>1. mem[p] = db /\ mem' = [mem EXCEPT ![p] = Apply(mem[p], tx)] /\ late' = late /\ status' = status
    BY <1>2 DEF Store, AtOnce
  <2>2. mem'[p] = db'
    BY <1>4, <2>1 DEF AuditInv, Inv
  <2>3. \A q \in Proc : mem'[q] = db'
    BY <2>2 DEF SingleLedger
  <2> QED BY <2>1, <2>3 DEF AtOnce
<1> QED BY <1>3, <1>4, <1>5, <1>6

LEMMA RunsAtOnce ==
  ASSUME SingleLedger, AuditInv, AtOnce, LedgerRuns
  PROVE  AtOnce' /\ db' = db
<1>1. PICK p \in Proc : LoadChains(p) \/ LoadInstructions(p)
  BY DEF LedgerRuns, AtOnce
<1>2. db' = db /\ late' = late
  BY <1>1 DEF LoadChains, LoadInstructions
<1>3. mem = [q \in Proc |-> mem[q]] /\ status \in [Proc -> {"down", "loading", "serving"}]
      /\ StoreType(mem[p]) /\ StoreType(db)
  BY DEF AuditInv, Inv, MemInv, StoreInv
<1>4. CASE LoadChains(p)
  <2>1. status'[p] = "loading" /\ mem'[p] = [mem[p] EXCEPT !.chain = db.chain]
    BY <1>3, <1>4 DEF LoadChains
  <2>2. mem'[p].chain = db.chain
    BY <1>3, <2>1 DEF StoreType
  <2> QED BY <1>2, <2>1, <2>2 DEF AtOnce, SingleLedger
<1>5. CASE LoadInstructions(p)
  <2>1. /\ status[p] = "loading" /\ status'[p] = "serving"
        /\ mem'[p] = [mem[p] EXCEPT !.instr = db.instr, !.confirmed = db.confirmed]
    BY <1>3, <1>5 DEF LoadInstructions
  <2>2. mem[p].chain = db.chain
    BY <2>1 DEF AtOnce
  <2>3. mem'[p] = db
    BY <1>3, <2>1, <2>2 DEF StoreType
  <2>4. \A q \in Proc : mem'[q] = db
    BY <2>3 DEF SingleLedger
  <2> QED BY <1>2, <2>4 DEF AtOnce
<1> QED BY <1>1, <1>2, <1>4, <1>5

\* One more row on the consent chain.
LEMMA ConsentAppended ==
  ASSUME NEW chain \in Seq(Row), \A j \in DOMAIN chain : chain[j].payload \in Consent,
         NEW row \in Row, row.payload \in Consent, NEW longer, longer = Append(chain, row)
  PROVE  /\ longer \in Seq(Row) /\ Len(longer) = Len(chain) + 1
         /\ IsPrefixOf(chain, longer) /\ longer[Len(longer)] = row
         /\ \A j \in DOMAIN longer : longer[j].payload \in Consent
<1>1. /\ longer \in Seq(Row) /\ Len(longer) = Len(chain) + 1 /\ longer[Len(longer)] = row
      /\ \A j \in DOMAIN chain : longer[j] = chain[j]
  OBVIOUS
<1>2. IsPrefixOf(chain, longer)
  BY <1>1 DEF IsPrefixOf
<1>3. \A j \in DOMAIN longer : longer[j].payload \in Consent
  BY AppendContent
<1> QED BY <1>1, <1>2, <1>3

\* The use that is appended is judged by what the replay knew before it.
LEMMA AppendedUse ==
  ASSUME NEW chain \in Seq(Row), \A j \in DOMAIN chain : chain[j].payload \in Consent,
         NEW row \in Row, row.payload \in Consent, NEW longer, longer = Append(chain, row)
  PROVE  AllowedUse(longer, Len(longer)) <=>
           IF row.payload.kind = "participation"
             THEN Key(row.payload) \notin ReplayAll(chain).revoked
             ELSE Key(row.payload) \in ReplayAll(chain).granted /\ row.payload.inTime
<1> DEFINE n == Len(longer)
<1>1. /\ longer \in Seq(Row) /\ n = Len(chain) + 1 /\ n \in DOMAIN longer
      /\ \A j \in 1 .. n - 1 : longer[j] = chain[j]
      /\ longer[n] = row
      /\ \A j \in DOMAIN longer : longer[j].payload \in Consent
  BY ConsentAppended DEF IsPrefixOf
<1>2. Knows(chain, ReplayAll(chain), n - 1)
  BY <1>1, ReplayKnows
<1>3. \A key, j : LastChange(longer, key, j, n - 1) <=> LastChange(chain, key, j, n - 1)
  BY <1>1 DEF LastChange
<1>4. \A key, j : LastChange(longer, key, j, n - 1) => longer[j] = chain[j]
  BY <1>1 DEF LastChange
<1>5. /\ \A key : key \in ReplayAll(chain).granted <=>
           \E j : LastChange(longer, key, j, n - 1) /\ longer[j].payload.action = "grant"
      /\ \A key : key \in ReplayAll(chain).revoked <=>
           \E j : LastChange(longer, key, j, n - 1) /\ longer[j].payload.action = "revoke"
  BY <1>2, <1>3, <1>4 DEF Knows
<1> DEFINE granted == ReplayAll(chain).granted
           revoked == ReplayAll(chain).revoked
<1> HIDE DEF n, granted, revoked
<1>6. /\ \A key : key \in granted <=>
           \E j : LastChange(longer, key, j, n - 1) /\ longer[j].payload.action = "grant"
      /\ \A key : key \in revoked <=>
           \E j : LastChange(longer, key, j, n - 1) /\ longer[j].payload.action = "revoke"
  BY <1>5 DEF granted, revoked
<1>7. AllowedUse(longer, n) <=>
           IF longer[n].payload.kind = "participation"
             THEN Key(longer[n].payload) \notin revoked
             ELSE Key(longer[n].payload) \in granted /\ longer[n].payload.inTime
  <2>1. /\ longer \in Seq(Row) /\ n \in DOMAIN longer
        /\ \A j \in DOMAIN longer : longer[j].payload \in Consent
    BY <1>1
  <2> QED BY <2>1, <1>6, AllowedByReplay
<1> QED BY <1>1, <1>7 DEF n, granted, revoked

LEMMA AppendedGrant ==
  ASSUME NEW chain \in Seq(Row), \A j \in DOMAIN chain : chain[j].payload \in Consent,
         NEW row \in Row, row.payload \in Consent, row.payload.action = "grant"
  PROVE  Key(row.payload) \in ReplayAll(Append(chain, row)).granted
<1> DEFINE longer == Append(chain, row)
           n == Len(longer)
<1>1. /\ longer \in Seq(Row) /\ n \in Nat /\ n # 0 /\ longer[n] = row
      /\ \A j \in DOMAIN longer : longer[j].payload \in Consent
  BY ConsentAppended
<1> HIDE DEF longer
<1>2. Knows(longer, ReplayAll(longer), n)
  BY <1>1, ReplayKnows
<1>3. LastChange(longer, Key(row.payload), n, n)
  BY <1>1, LastChangeStep
<1> QED BY <1>1, <1>2, <1>3 DEF Knows, longer

\* What was allowed and backed before a row stays so after it.
LEMMA ConsentGrows ==
  ASSUME NEW chain \in Seq(Row), \A j \in DOMAIN chain : chain[j].payload \in Consent,
         NEW row \in Row, row.payload \in Consent, NEW longer, longer = Append(chain, row)
  PROVE  /\ \A m : Backed(chain, m) => Backed(longer, m)
         /\ AllAllowed(chain) =>
              ((row.payload.action = "use" => AllowedUse(longer, Len(longer))) => AllAllowed(longer))
         /\ AllowedUse(longer, Len(longer)) =>
              (row.payload.kind = "participation" /\ row.payload.action = "use" =>
                 Backed(longer, row.payload.match))
<1>1. /\ longer \in Seq(Row) /\ Len(longer) = Len(chain) + 1
      /\ IsPrefixOf(chain, longer) /\ longer[Len(longer)] = row
  BY ConsentAppended
<1>2. \A m : Backed(chain, m) => Backed(longer, m)
  BY <1>1, UsesGrow
<1>3. ASSUME AllAllowed(chain), row.payload.action = "use" => AllowedUse(longer, Len(longer)),
             NEW i \in DOMAIN longer, IsUse(longer, i)
      PROVE  AllowedUse(longer, i)
  <2>1. CASE i \in DOMAIN chain
    <3>1. IsUse(chain, i) = IsUse(longer, i) /\ AllowedUse(chain, i) = AllowedUse(longer, i)
      BY <1>1, <2>1, UsesGrow
    <3> QED BY <1>3, <2>1, <3>1 DEF AllAllowed
  <2>2. CASE i = Len(longer)
    BY <1>1, <1>3, <2>2 DEF IsUse
  <2> QED BY <1>1, <2>1, <2>2
<1>4. ASSUME AllowedUse(longer, Len(longer)), row.payload.kind = "participation",
             row.payload.action = "use"
      PROVE  Backed(longer, row.payload.match)
  <2>1. Len(longer) \in DOMAIN longer
    BY <1>1
  <2> QED BY <1>1, <1>4, <2>1 DEF Backed, IsUse
<1> QED BY <1>2, <1>3, <1>4 DEF AllAllowed

\* Nothing an auditor looks at was written.
SameEvidence ==
  /\ db'.chain["attestation"] = db.chain["attestation"]
  /\ db'.chain["consent"] = db.chain["consent"]
  /\ db'.instr = db.instr

LEMMA UnseenStep ==
  ASSUME Waiting, Traces, Uses, SameEvidence, UNCHANGED services
  PROVE  Waiting' /\ Traces' /\ Uses'
BY DEF SameEvidence, services, Waiting, Traces, Uses, Progress, InHand

LEMMA ConsentType ==
  ASSUME AuditInv
  PROVE  /\ db.chain["consent"] \in Seq(Row) /\ db.chain["attestation"] \in Seq(Row)
         /\ \A j \in DOMAIN db.chain["consent"] : db.chain["consent"][j].payload \in Consent
         /\ \A j \in DOMAIN db.chain["attestation"] :
              db.chain["attestation"][j].payload \in Attestation
BY DEF AuditInv, Inv, StoreInv, StoreType, ChainNames, ContentInv

\* A gate that was passed is an answer about what is committed.
LEMMA GateKeepsOrder ==
  ASSUME AuditInv, Orderly, NEW p \in Proc, NEW m \in Match, Dispatch(p, m) \/ Book(p, m)
  PROVE  Orderly'
<1>1. /\ UNCHANGED <<vars, slice, begun, overdue>>
      /\ handler = Idle /\ status[p] = "serving"
      /\ ParticipationGranted(mem[p].chain["consent"], Owner[m])
      /\ \/ inbox' = inbox \cup {m} /\ handler' = [pc |-> "dispatch", about |-> m]
         \/ inbox' = inbox /\ handler' = [pc |-> "use", about |-> m]
  BY DEF Dispatch, Book
<1>2. mem[p] = db
  BY <1>1 DEF Orderly, AtOnce
<1>3. handler.pc = "idle" /\ inbox = {} /\ slice = Idle
  BY <1>1 DEF Orderly, Waiting, Idle
<1>4. AtOnce' /\ Traces'
  BY <1>1 DEF Orderly, AtOnce, Traces, Progress, vars
<1>5. Waiting'
  BY <1>1, <1>3 DEF Waiting
<1>6. Uses'
  <2>1. /\ handler'.pc \in {"dispatch", "use"} /\ handler'.about = m
        /\ ParticipationGranted(db.chain["consent"], Owner[m])
    BY <1>1, <1>2
  <2>2. \A k \in Instructed(db.instr) : Backed(db.chain["consent"], k)
    BY <1>3 DEF Orderly, Uses, InHand
  <2> QED BY <1>1, <2>1, <2>2 DEF Orderly, Uses, vars
<1> QED BY <1>4, <1>5, <1>6 DEF Orderly

\* The handler's use is allowed: nobody can revoke while it is under way.
LEMMA UseKeepsOrder ==
  ASSUME SingleLedger, AuditInv, Orderly, NEW p \in Proc, RecordUse(p), UNCHANGED failures
  PROVE  Orderly'
<1> DEFINE m == handler.about
           chain == db.chain["consent"]
           longer == db'.chain["consent"]
           x == ParticipationUse(m)
<1>1. /\ handler.pc = "use" /\ Posted(p, AppendTo(p, "consent", x))
      /\ \E pc \in {"order", "instruct"} : handler' = [handler EXCEPT !.pc = pc]
      /\ UNCHANGED <<inbox, slice, begun, overdue>>
  <2>1. failures \in Nat
    BY AuditParameters DEF AuditInv, WorkInv
  <2> QED BY <2>1 DEF RecordUse, PostFails
<1>2. /\ handler \in [pc : {"dispatch", "use", "instruct", "order"}, about : Match]
      /\ slice = Idle /\ inbox = {}
  BY <1>1, HandlerShape DEF AuditInv, WorkInv, Orderly, Waiting
<1>3. m \in Match /\ x \in Consent /\ "consent" \in ChainNames
  BY <1>2, PayloadsExist DEF ChainNames
<1>4. Appended("consent", x) /\ AtOnce'
  BY <1>1, <1>3, ConsentOffered, PostedAppends DEF AuditInv, Orderly
<1>5. PICK row \in Row : /\ row.payload = x /\ longer = Append(chain, row)
                         /\ db'.chain["attestation"] = db.chain["attestation"]
                         /\ db'.instr = db.instr
  BY <1>4 DEF Appended, ChainNames
<1>6. handler'.pc \in {"order", "instruct"} /\ handler'.about = m
  BY <1>1, <1>2
<1>7. Waiting' /\ Traces'
  BY <1>1, <1>2, <1>5 DEF Orderly, Waiting, Traces
<1>8. /\ x.kind = "participation" /\ x.action = "use" /\ x.match = m
      /\ Key(x) = <<"participation", Owner[m]>>
  BY DEF ParticipationUse, Key
<1>9. /\ chain \in Seq(Row) /\ \A j \in DOMAIN chain : chain[j].payload \in Consent
      /\ row.payload \in Consent
  BY <1>3, <1>5, ConsentType
<1> HIDE DEF x, longer, chain
<1>10. AllowedUse(longer, Len(longer))
  <2>1. Key(x) \notin ReplayAll(chain).revoked
    BY <1>1, <1>8 DEF Orderly, Uses, ParticipationGranted, chain
  <2> QED BY <1>5, <1>8, <1>9, <2>1, AppendedUse
<1>11. /\ \A k : Backed(chain, k) => Backed(longer, k)
       /\ AllAllowed(chain) => AllAllowed(longer)
       /\ Backed(longer, m)
  BY <1>5, <1>8, <1>9, <1>10, ConsentGrows
<1>12. \A k \in Instructed(db.instr) : Backed(longer, k)
  BY <1>2, <1>11 DEF Orderly, Uses, InHand, chain
<1>13. Uses'
  BY <1>1, <1>5, <1>6, <1>11, <1>12 DEF Orderly, Uses, longer, chain
<1> QED BY <1>4, <1>7, <1>13 DEF Orderly

\* A change of participation is made when no use is under way.
LEMMA ChangeKeepsOrder ==
  ASSUME SingleLedger, AuditInv, Orderly, NEW p \in Proc, NEW s \in Subject,
         NEW a \in {"grant", "revoke"}, SetParticipation(p, s, a), UNCHANGED failures
  PROVE  Orderly'
<1> DEFINE chain == db.chain["consent"]
           longer == db'.chain["consent"]
           x == Change("participation", s, a)
<1>1. /\ handler = Idle /\ Posted(p, AppendTo(p, "consent", x)) /\ UNCHANGED services
  <2>1. failures \in Nat
    BY AuditParameters DEF AuditInv, WorkInv
  <2> QED BY <2>1 DEF SetParticipation, PostFails
<1>2. handler.pc = "idle" /\ slice = Idle
  BY <1>1 DEF Orderly, Waiting, Idle
<1>3. x \in Consent /\ "consent" \in ChainNames /\ x.action # "use"
  BY PayloadsExist DEF ChainNames, Change
<1>4. Appended("consent", x) /\ AtOnce'
  BY <1>1, <1>3, ConsentOffered, PostedAppends DEF AuditInv, Orderly
<1>5. PICK row \in Row : /\ row.payload = x /\ longer = Append(chain, row)
                         /\ db'.chain["attestation"] = db.chain["attestation"]
                         /\ db'.instr = db.instr
  BY <1>4 DEF Appended, ChainNames
<1>6. Waiting' /\ Traces'
  BY <1>1, <1>5 DEF Orderly, Waiting, Traces, Progress, services
<1>7. /\ chain \in Seq(Row) /\ \A j \in DOMAIN chain : chain[j].payload \in Consent
      /\ row.payload \in Consent
  BY <1>3, <1>5, ConsentType
<1> HIDE DEF x, longer, chain
<1>8. /\ \A k : Backed(chain, k) => Backed(longer, k)
      /\ AllAllowed(chain) => AllAllowed(longer)
  BY <1>3, <1>5, <1>7, ConsentGrows
<1>9. \A k \in Instructed(db.instr) : Backed(longer, k)
  BY <1>2, <1>8 DEF Orderly, Uses, InHand, chain
<1>10. Uses'
  BY <1>1, <1>2, <1>5, <1>8, <1>9 DEF Orderly, Uses, longer, chain, services
<1> QED BY <1>4, <1>6, <1>10 DEF Orderly

\* The coordinator delivers what it has just granted.
LEMMA DisclosureKeepsOrder ==
  ASSUME SingleLedger, AuditInv, Orderly, NEW p \in Proc, NEW c \in Case,
         GrantDisclosure(p, c), UNCHANGED failures
  PROVE  Orderly'
<1> DEFINE chain == db.chain["consent"]
           longer == db'.chain["consent"]
           x == Change("disclosure", c, "grant")
<1>1. /\ handler = Idle /\ Posted(p, AppendTo(p, "consent", x))
      /\ handler' = [pc |-> "deliver", about |-> c]
      /\ UNCHANGED <<inbox, slice, begun, shortlisted, ordered, overdue>>
  <2>1. failures \in Nat
    BY AuditParameters DEF AuditInv, WorkInv
  <2> QED BY <2>1 DEF GrantDisclosure, PostFails
<1>2. handler.pc = "idle" /\ slice = Idle /\ inbox = {}
  BY <1>1 DEF Orderly, Waiting, Idle
<1>3. x \in Consent /\ "consent" \in ChainNames /\ x.action = "grant" /\ Key(x) = <<"disclosure", c>>
  BY PayloadsExist DEF ChainNames, Change, Key
<1>4. Appended("consent", x) /\ AtOnce'
  BY <1>1, <1>3, ConsentOffered, PostedAppends DEF AuditInv, Orderly
<1>5. PICK row \in Row : /\ row.payload = x /\ longer = Append(chain, row)
                         /\ db'.chain["attestation"] = db.chain["attestation"]
                         /\ db'.instr = db.instr
  BY <1>4 DEF Appended, ChainNames
<1>6. Waiting' /\ Traces'
  BY <1>1, <1>2, <1>5 DEF Orderly, Waiting, Traces
<1>7. /\ chain \in Seq(Row) /\ \A j \in DOMAIN chain : chain[j].payload \in Consent
      /\ row.payload \in Consent
  BY <1>3, <1>5, ConsentType
<1> HIDE DEF x, longer, chain
<1>8. /\ \A k : Backed(chain, k) => Backed(longer, k)
      /\ AllAllowed(chain) => AllAllowed(longer)
  BY <1>3, <1>5, <1>7, ConsentGrows
<1>9. <<"disclosure", c>> \in ReplayAll(longer).granted
  BY <1>3, <1>5, <1>7, AppendedGrant
<1>10. \A k \in Instructed(db.instr) : Backed(longer, k)
  BY <1>2, <1>8 DEF Orderly, Uses, InHand, chain
<1>11. Uses'
  BY <1>1, <1>2, <1>5, <1>8, <1>9, <1>10 DEF Orderly, Uses, longer, chain
<1> QED BY <1>4, <1>6, <1>11 DEF Orderly

LEMMA DeliveryKeepsOrder ==
  ASSUME SingleLedger, AuditInv, Orderly, NEW p \in Proc, NEW inTime \in BOOLEAN,
         UseDisclosure(p, inTime), UNCHANGED failures
  PROVE  Orderly'
<1> DEFINE c == handler.about
           chain == db.chain["consent"]
           longer == db'.chain["consent"]
           x == DisclosureUse(c, inTime)
<1>1. /\ handler.pc = "deliver" /\ Posted(p, AppendTo(p, "consent", x))
      /\ handler' = Idle /\ (~ overdue' => ~ overdue /\ inTime)
      /\ UNCHANGED <<inbox, slice, begun, shortlisted, ordered>>
  <2>1. failures \in Nat
    BY AuditParameters DEF AuditInv, WorkInv
  <2>2. /\ handler.pc = "deliver" /\ Posted(p, AppendTo(p, "consent", x))
        /\ handler' = Idle /\ overdue' = (overdue \/ ~ inTime)
        /\ UNCHANGED <<inbox, slice, begun, shortlisted, ordered>>
    BY <2>1 DEF UseDisclosure, PostFails
  <2>3. overdue' = (overdue \/ ~ inTime) => (~ overdue' => ~ overdue /\ inTime)
    BY Zenon
  <2> HIDE DEF x
  <2> QED BY <2>2, <2>3
<1>2. slice = Idle /\ inbox = {} /\ c \in Case
  BY <1>1, HandlerShape DEF Orderly, Waiting, AuditInv, WorkInv
<1>3. /\ x \in Consent /\ "consent" \in ChainNames /\ x.kind = "disclosure"
      /\ Key(x) = <<"disclosure", c>> /\ x.inTime = inTime
  BY <1>2, PayloadsExist DEF ChainNames, DisclosureUse, Key
<1>4. Appended("consent", x) /\ AtOnce'
  BY <1>1, <1>3, ConsentOffered, PostedAppends DEF AuditInv, Orderly
<1>5. PICK row \in Row : /\ row.payload = x /\ longer = Append(chain, row)
                         /\ db'.chain["attestation"] = db.chain["attestation"]
                         /\ db'.instr = db.instr
  BY <1>4 DEF Appended, ChainNames
<1>6. handler'.pc = "idle"
  BY <1>1 DEF Idle
<1>7. Waiting' /\ Traces'
  BY <1>1, <1>2, <1>5, <1>6 DEF Orderly, Waiting, Traces
<1>8. /\ chain \in Seq(Row) /\ \A j \in DOMAIN chain : chain[j].payload \in Consent
      /\ row.payload \in Consent
  BY <1>3, <1>5, ConsentType
<1>9. /\ <<"disclosure", c>> \in ReplayAll(chain).granted
      /\ ~ overdue => AllAllowed(chain)
      /\ \A k \in Instructed(db.instr) : Backed(chain, k)
  BY <1>1, <1>2 DEF Orderly, Uses, InHand
<1> HIDE DEF x, longer, chain, c
<1>10. inTime => AllowedUse(longer, Len(longer))
  BY <1>3, <1>5, <1>8, <1>9, AppendedUse
<1>11. /\ \A k : Backed(chain, k) => Backed(longer, k)
       /\ AllAllowed(chain) => ((row.payload.action = "use" => AllowedUse(longer, Len(longer)))
                                  => AllAllowed(longer))
  BY <1>8, <1>5, ConsentGrows
<1>12. ~ overdue' => AllAllowed(longer)
  BY <1>1, <1>9, <1>10, <1>11
<1>13. \A k \in Instructed(db.instr) : Backed(longer, k)
  BY <1>9, <1>11
<1>14. Uses'
  BY <1>5, <1>6, <1>12, <1>13 DEF Uses, longer
<1> QED BY <1>4, <1>7, <1>14 DEF Orderly

\* A booking is instructed after its use; the order comes last.
LEMMA BookingKeepsOrder ==
  ASSUME SingleLedger, AuditInv, Orderly, NEW p \in Proc, NEW t \in Terms,
         InstructBooking(p, t), UNCHANGED failures
  PROVE  Orderly'
<1> DEFINE m == handler.about
<1>1. /\ handler.pc = "instruct" /\ handler' = [handler EXCEPT !.pc = "order"]
      /\ UNCHANGED vars \/ Posted(p, InstructionTx(m, t))
      /\ UNCHANGED <<inbox, slice, begun, overdue>>
  <2>1. failures \in Nat
    BY AuditParameters DEF AuditInv, WorkInv
  <2> QED BY <2>1 DEF InstructBooking, PostFails
<1>2. /\ handler \in [pc : {"dispatch", "use", "instruct", "order"}, about : Match]
      /\ slice = Idle /\ inbox = {} /\ m \in Match
  BY <1>1, HandlerShape DEF AuditInv, WorkInv, Orderly, Waiting
<1>3. handler'.pc = "order"
  BY <1>1, <1>2
<1>4. /\ db'.chain = db.chain /\ AtOnce'
      /\ Instructed(db'.instr) \subseteq Instructed(db.instr) \cup {m}
  <2>1. CASE UNCHANGED vars
    BY <2>1 DEF vars, Orderly, AtOnce
  <2>2. CASE Posted(p, InstructionTx(m, t))
    BY <1>2, <2>2, PostedInstructs DEF Orderly
  <2> QED BY <1>1, <2>1, <2>2
<1>5. Waiting' /\ Traces'
  BY <1>1, <1>2, <1>3, <1>4 DEF Orderly, Waiting, Traces
<1>6. /\ \A k \in Instructed(db.instr) : Backed(db.chain["consent"], k)
      /\ Backed(db.chain["consent"], m)
  BY <1>1, <1>2 DEF Orderly, Uses, InHand
<1>7. Uses'
  BY <1>1, <1>3, <1>4, <1>6 DEF Orderly, Uses
<1> QED BY <1>4, <1>5, <1>7 DEF Orderly

LEMMA OrderKeepsOrder ==
  ASSUME AuditInv, Orderly, CreateOrder
  PROVE  Orderly'
<1>1. /\ handler.pc = "order" /\ handler' = Idle
      /\ UNCHANGED <<vars, inbox, slice, begun, overdue>>
  BY DEF CreateOrder
<1>2. handler'.pc = "idle" /\ slice = Idle /\ inbox = {}
  BY <1>1 DEF Orderly, Waiting, Idle
<1>3. AtOnce' /\ Waiting' /\ Traces'
  BY <1>1, <1>2 DEF Orderly, AtOnce, Waiting, Traces, vars
<1>4. Uses'
  BY <1>1, <1>2 DEF Orderly, Uses, InHand, vars
<1> QED BY <1>3, <1>4 DEF Orderly

-----------------------------------------------------------------------------
\* The slice, one environment after the other.

LEMMA BeginKeepsOrder ==
  ASSUME AuditInv, Orderly, NEW m \in Match, Begin(m)
  PROVE  Orderly'
<1> DEFINE chain == db.chain["attestation"]
<1>1. /\ slice = Idle /\ m \in inbox /\ inbox' = inbox \ {m} /\ begun' = begun \cup {m}
      /\ slice' = [pc |-> "created", env |-> m, aborted |-> FALSE, closed |-> FALSE]
      /\ UNCHANGED <<vars, handler, overdue>>
  BY DEF Begin
<1>2. /\ handler.pc = "dispatch" /\ inbox = {m} /\ handler.about = m
  BY <1>1 DEF Orderly, Waiting
<1>3. handler = [pc |-> "dispatch", about |-> m]
  <2>1. handler \in [pc : {"dispatch", "use", "instruct", "order"}, about : Match]
    BY <1>2, HandlerShape DEF AuditInv, WorkInv
  <2> QED BY <1>2, <2>1
<1>4. slice' # Idle /\ slice'.env = m /\ slice'.pc = "created" /\ slice'.closed = FALSE
  <2>1. slice'.pc # Idle.pc
    BY <1>1 DEF Idle
  <2> QED BY <1>1, <2>1
<1>5. AtOnce' /\ Waiting'
  BY <1>1, <1>2, <1>3, <1>4 DEF Orderly, AtOnce, Waiting, vars
<1>6. Traces'
  <2>1. m \notin begun
    BY <1>1 DEF AuditInv, WorkInv
  <2>2. RowsOfEnv(chain, m) = {}
    BY <2>1 DEF Orderly, Traces
  <2>3. Progress(chain)'
    BY <1>1, <1>4, <2>2 DEF Progress, vars
  <2>4. \A e : e \notin begun' => RowsOfEnv(chain, e) = {}
    BY <1>1 DEF Orderly, Traces
  <2>5. \A e \in begun' : e # m => Whole(chain, e)
    BY <1>1 DEF Orderly, Traces
  <2> QED BY <1>1, <1>4, <2>3, <2>4, <2>5 DEF Traces, vars
<1>7. Uses'
  <2>1. \A k \in Instructed(db.instr) : Backed(db.chain["consent"], k)
    BY <1>1, <1>2 DEF Orderly, Uses, InHand
  <2> QED BY <1>1, <2>1 DEF Orderly, Uses, vars
<1> QED BY <1>5, <1>6, <1>7 DEF Orderly

\* The rows of an environment after one more row.
OneMore(chain, row, longer) ==
  /\ longer[Len(longer)] = row
  /\ \A e : e # row.payload.env => RowsOfEnv(longer, e) = RowsOfEnv(chain, e)
  /\ RowsOfEnv(longer, row.payload.env)
       = RowsOfEnv(chain, row.payload.env) \cup {Len(longer)}
  /\ \A e, i : i \in RowsOfEnv(chain, e) => longer[i] = chain[i] /\ i < Len(longer)

LEMMA RowsGrow ==
  ASSUME NEW chain \in Seq(Row), NEW row \in Row, NEW longer, longer = Append(chain, row)
  PROVE  OneMore(chain, row, longer)
<1>1. /\ longer \in Seq(Row) /\ Len(longer) = Len(chain) + 1 /\ Len(longer) \in Nat
      /\ longer[Len(longer)] = row
      /\ \A i \in DOMAIN chain : longer[i] = chain[i] /\ i < Len(longer)
      /\ \A i : i \in DOMAIN longer <=> i \in DOMAIN chain \/ i = Len(longer)
  OBVIOUS
<1>2. \A e, i : i \in RowsOfEnv(chain, e) => longer[i] = chain[i] /\ i < Len(longer)
  BY <1>1 DEF RowsOfEnv
<1>3. \A e, i : i \in RowsOfEnv(longer, e) <=>
        i \in RowsOfEnv(chain, e) \/ (i = Len(longer) /\ e = row.payload.env)
  BY <1>1 DEF RowsOfEnv
<1>4. ASSUME NEW e, e # row.payload.env
      PROVE  RowsOfEnv(longer, e) = RowsOfEnv(chain, e)
  <2>1. \A i : i \in RowsOfEnv(longer, e) <=> i \in RowsOfEnv(chain, e)
    BY <1>3, <1>4
  <2>2. RowsOfEnv(longer, e) \subseteq RowsOfEnv(chain, e)
        /\ RowsOfEnv(chain, e) \subseteq RowsOfEnv(longer, e)
    BY <2>1
  <2> QED BY <2>2
<1>5. RowsOfEnv(longer, row.payload.env) = RowsOfEnv(chain, row.payload.env) \cup {Len(longer)}
  BY <1>3
<1> QED BY <1>1, <1>2, <1>4, <1>5 DEF OneMore

LEMMA WholeKept ==
  ASSUME NEW chain \in Seq(Row), NEW row \in Row, NEW longer, longer = Append(chain, row),
         NEW e, e # row.payload.env, Whole(chain, e)
  PROVE  Whole(longer, e)
<1>1. /\ RowsOfEnv(longer, e) = RowsOfEnv(chain, e)
      /\ \A i \in RowsOfEnv(chain, e) : longer[i] = chain[i]
  <2>1. OneMore(chain, row, longer)
    BY RowsGrow
  <2> QED BY <2>1 DEF OneMore
<1>2. CASE RowsOfEnv(chain, e) = {}
  BY <1>1, <1>2 DEF Whole
<1>3. CASE RowsOfEnv(chain, e) # {}
  <2>1. PICK i, j, k, l \in RowsOfEnv(chain, e) :
          RowsOfEnv(chain, e) = {i, j, k, l} /\ Complete(chain, i, j, k, l)
    BY <1>3 DEF Whole
  <2>2. Complete(longer, i, j, k, l)
    BY <1>1, <2>1 DEF Complete
  <2> QED BY <1>1, <2>1, <2>2 DEF Whole
<1> QED BY <1>2, <1>3

\* An attested event takes the environment on to the next.
LEMMA ProgressMade ==
  ASSUME NEW chain \in Seq(Row), NEW row \in Row, NEW longer, longer = Append(chain, row),
         slice.pc \in Event, row.payload = Lifecycle(slice.env, slice.pc), Progress(chain)
  PROVE  /\ slice.pc = "destroyed" => Whole(longer, slice.env)
         /\ \A next \in After(slice.pc, slice.env) :
              slice'.pc = next /\ slice'.env = slice.env => Progress(longer)'
<1> DEFINE e == slice.env
           n == Len(longer)
           rows == RowsOfEnv(chain, e)
<1>1. row.payload.env = e /\ row.payload.event = slice.pc
  BY DEF Lifecycle
<1>2. /\ RowsOfEnv(longer, e) = rows \cup {n} /\ longer[n] = row
      /\ \A i \in rows : longer[i] = chain[i] /\ i < n
  <2>1. OneMore(chain, row, longer)
    BY RowsGrow
  <2> QED BY <1>1, <2>1 DEF OneMore
<1> HIDE DEF n, rows
<1>3. CASE slice.pc = "created"
  <2>1. rows = {}
    BY <1>3 DEF Progress, rows
  <2>2. RowsOfEnv(longer, e) = {n} /\ longer[n].payload.event = "created"
    BY <1>1, <1>2, <1>3, <2>1
  <2>3. After(slice.pc, slice.env) = {"attested"}
    BY <1>3 DEF After
  <2> QED BY <1>3, <2>2, <2>3 DEF Progress
<1>4. CASE slice.pc = "attested"
  <2>1. PICK i \in rows : rows = {i} /\ chain[i].payload.event = "created"
    BY <1>4 DEF Progress, rows
  <2>2. /\ RowsOfEnv(longer, e) = {i, n} /\ i < n
        /\ longer[i].payload.event = "created" /\ longer[n].payload.event = "attested"
    BY <1>1, <1>2, <1>4, <2>1
  <2>3. After(slice.pc, slice.env) \subseteq {"aborted", "executed", "instruct"}
    BY <1>4 DEF After
  <2> QED BY <1>4, <2>2, <2>3 DEF Progress
<1>5. CASE slice.pc \in {"executed", "aborted"}
  <2>1. PICK i, j \in rows : /\ rows = {i, j} /\ i < j
                             /\ chain[i].payload.event = "created"
                             /\ chain[j].payload.event = "attested"
    BY <1>5 DEF Progress, rows
  <2>2. /\ RowsOfEnv(longer, e) = {i, j, n} /\ i < j /\ j < n
        /\ longer[i].payload.event = "created" /\ longer[j].payload.event = "attested"
        /\ longer[n].payload.event \in {"executed", "aborted"}
    BY <1>1, <1>2, <1>5, <2>1
  <2>3. After(slice.pc, slice.env) = {"destroyed"}
    BY <1>5 DEF After
  <2> QED BY <1>5, <2>2, <2>3 DEF Progress
<1>6. CASE slice.pc = "destroyed"
  <2>1. PICK i, j, k \in rows : /\ rows = {i, j, k} /\ i < j /\ j < k
                                /\ chain[i].payload.event = "created"
                                /\ chain[j].payload.event = "attested"
                                /\ chain[k].payload.event \in {"executed", "aborted"}
    BY <1>6 DEF Progress, rows
  <2>2. /\ RowsOfEnv(longer, e) = {i, j, k, n} /\ Complete(longer, i, j, k, n)
    BY <1>1, <1>2, <1>6, <2>1 DEF Complete
  <2>3. After(slice.pc, slice.env) = {}
    BY <1>6 DEF After
  <2> QED BY <2>2, <2>3 DEF Whole
<1> QED BY <1>3, <1>4, <1>5, <1>6 DEF Event

\* The others' rows stand as they stood.
LEMMA OthersKept ==
  ASSUME NEW chain \in Seq(Row), NEW row \in Row, NEW longer, longer = Append(chain, row),
         NEW e, e # row.payload.env
  PROVE  /\ Whole(chain, e) => Whole(longer, e)
         /\ RowsOfEnv(chain, e) = {} => RowsOfEnv(longer, e) = {}
<1>1. OneMore(chain, row, longer)
  BY RowsGrow
<1>2. RowsOfEnv(longer, e) = RowsOfEnv(chain, e)
  BY <1>1 DEF OneMore
<1>3. Whole(chain, e) => Whole(longer, e)
  BY WholeKept
<1> QED BY <1>2, <1>3

\* The environment goes on to its next event.
LEMMA NextKeepsWaiting ==
  ASSUME AuditInv, Waiting, slice.pc \in Event, NEW next \in After(slice.pc, slice.env),
         slice' = [slice EXCEPT !.pc = next, !.aborted = @ \/ next = "aborted"],
         UNCHANGED <<handler, inbox>>
  PROVE  /\ Waiting' /\ slice' # Idle
         /\ slice'.pc = next /\ slice'.env = slice.env
         /\ slice'.closed = slice.closed
<1>1. slice \in [pc : Event \cup {"instruct"}, env : Match, aborted : BOOLEAN, closed : BOOLEAN]
  BY SliceShape DEF AuditInv, WorkInv
<1>2. slice.pc # "idle" /\ next # "idle"
  BY DEF Event, After
<1>3. slice # Idle /\ slice' # Idle
  <2>1. slice.pc # Idle.pc /\ slice'.pc = next
    BY <1>1, <1>2 DEF Idle
  <2>2. slice'.pc # Idle.pc
    BY <1>2, <2>1 DEF Idle
  <2> QED BY <2>1, <2>2
<1>4. /\ slice'.pc = next /\ slice'.env = slice.env /\ slice'.closed = slice.closed
  BY <1>1
<1>5. slice'.aborted = (slice.aborted \/ next = "aborted")
  BY <1>1
<1>6. slice'.aborted => slice.aborted \/ next = "aborted"
  BY <1>5, Zenon
<1>7. /\ slice.closed => slice.pc \in {"executed", "destroyed"} /\ ~ slice.aborted
      /\ slice.aborted => slice.pc \in {"aborted", "destroyed"}
      /\ inbox = {} /\ handler = [pc |-> "dispatch", about |-> slice.env]
  BY <1>3 DEF Waiting
<1>8. slice.closed => next = "destroyed"
  BY <1>7 DEF After
<1>9. slice.aborted => next = "destroyed"
  BY <1>7 DEF After
<1>10. /\ slice'.closed => slice'.pc \in {"executed", "destroyed"} /\ ~ slice'.aborted
       /\ slice'.aborted => slice'.pc \in {"aborted", "destroyed"}
  BY <1>4, <1>6, <1>7, <1>8, <1>9
<1>11. Waiting'
  BY <1>4, <1>7, <1>10 DEF Waiting
<1> QED BY <1>3, <1>4, <1>11

\* attest: the row is written, and the environment goes on or its answer leaves.
LEMMA AttestKeepsOrder ==
  ASSUME SingleLedger, AuditInv, Orderly, NEW p \in Proc, Attests(p), UNCHANGED failures
  PROVE  Orderly'
<1> DEFINE e == slice.env
           chain == db.chain["attestation"]
           x == Lifecycle(e, slice.pc)
<1>1. /\ slice.pc \in Event /\ Posted(p, AppendTo(p, "attestation", x))
      /\ UNCHANGED <<inbox, begun, overdue>>
  <2>1. failures \in Nat
    BY AuditParameters DEF AuditInv, WorkInv
  <2>2. /\ slice.pc \in Event /\ UNCHANGED <<inbox, begun, overdue>>
        /\ \/ Posted(p, AppendTo(p, "attestation", x))
           \/ PostFails(p, AppendTo(p, "attestation", x))
    BY DEF Attests
  <2>3. ~ PostFails(p, AppendTo(p, "attestation", x))
    BY <2>1 DEF PostFails
  <2> QED BY <2>2, <2>3
<1>2. /\ slice # Idle /\ e \in Match /\ e \in begun
      /\ slice \in [pc : Event \cup {"instruct"}, env : Match, aborted : BOOLEAN, closed : BOOLEAN]
  <2>1. slice \in [pc : Event \cup {"instruct"}, env : Match, aborted : BOOLEAN, closed : BOOLEAN]
    BY <1>1, SliceShape DEF AuditInv, WorkInv
  <2>2. slice.pc # Idle.pc
    BY <1>1 DEF Event, Idle
  <2>3. slice # Idle
    BY <2>2
  <2> QED BY <2>1, <2>3 DEF AuditInv, WorkInv
<1>3. /\ handler = [pc |-> "dispatch", about |-> e] /\ inbox = {}
      /\ slice.closed => slice.pc \in {"executed", "destroyed"} /\ ~ slice.aborted
  BY <1>2 DEF Orderly, Waiting
<1>4. x \in Attestation /\ "attestation" \in ChainNames
  BY <1>1, <1>2, PayloadsExist DEF ChainNames
<1>5. Appended("attestation", x) /\ AtOnce'
  BY <1>1, <1>4, AttestationOffered, PostedAppends DEF AuditInv, Orderly
<1>6. PICK row \in Row, longer \in {db'.chain["attestation"]} :
        /\ row.payload = x /\ longer = Append(chain, row) /\ db'.chain["attestation"] = longer
        /\ db'.chain["consent"] = db.chain["consent"] /\ db'.instr = db.instr
  BY <1>5 DEF Appended, ChainNames
<1>7. /\ chain \in Seq(Row) /\ x.env = e
      /\ \A f : f \notin begun => RowsOfEnv(chain, f) = {}
      /\ \A f \in begun : f # e => Whole(chain, f)
      /\ Progress(chain)
  BY <1>2, ConsentType DEF Orderly, Traces, Lifecycle
<1>8. /\ \A f : f \notin begun => RowsOfEnv(longer, f) = {}
      /\ \A f \in begun : f # e => Whole(longer, f)
  <2> HIDE DEF chain, e, x
  <2>1. ASSUME NEW f, f # e
        PROVE  /\ Whole(chain, f) => Whole(longer, f)
               /\ RowsOfEnv(chain, f) = {} => RowsOfEnv(longer, f) = {}
    BY <1>6, <1>7, <2>1, OthersKept
  <2> QED BY <1>2, <1>7, <2>1
<1>9. /\ slice.pc = "destroyed" => Whole(longer, e)
      /\ \A next \in After(slice.pc, e) :
           slice'.pc = next /\ slice'.env = e => Progress(longer)'
  BY <1>1, <1>6, <1>7, ProgressMade
<1>10. CASE After(slice.pc, e) # {}
  <2>1. PICK next \in After(slice.pc, e) :
          slice' = [slice EXCEPT !.pc = next, !.aborted = @ \/ next = "aborted"]
    BY <1>10 DEF Attests
  <2>2. handler' = handler
    BY <1>10 DEF Attests
  <2>3. /\ Waiting' /\ slice' # Idle /\ slice'.pc = next /\ slice'.env = e
        /\ slice'.closed = slice.closed
    BY <1>1, <2>1, <2>2, NextKeepsWaiting DEF Orderly
  <2>4. Progress(longer)'
    BY <1>9, <2>3
  <2>5. Traces'
    BY <1>1, <1>6, <1>8, <2>3, <2>4 DEF Traces
  <2>6. Uses'
    BY <1>1, <1>2, <1>6, <2>2, <2>3 DEF Orderly, Uses, InHand
  <2> QED BY <1>5, <2>3, <2>5, <2>6 DEF Orderly
<1>11. CASE After(slice.pc, e) = {}
  <2>1. slice.pc = "destroyed"
    BY <1>1, <1>11 DEF After, Event
  <2>2. slice' = Idle /\ Finish(e, slice.aborted, slice.closed)
    BY <1>11 DEF Attests, Finish
  <2>3. handler' = IF slice.closed THEN [pc |-> "use", about |-> e] ELSE Idle
    BY <1>3, <2>2 DEF Finish
  <2>4. Waiting'
    BY <1>1, <1>3, <2>2 DEF Waiting
  <2>5. Traces'
    BY <1>1, <1>6, <1>8, <1>9, <2>1, <2>2 DEF Traces
  <2>6. Uses'
    <3>1. ParticipationGranted(db.chain["consent"], Owner[e])
      BY <1>3 DEF Orderly, Uses
    <3>2. CASE slice.closed
      <4>1. handler'.pc = "use" /\ handler'.about = e
        BY <2>3, <3>2
      <4> QED BY <1>1, <1>3, <1>6, <3>1, <4>1 DEF Orderly, Uses, InHand
    <3>3. CASE ~ slice.closed
      <4>1. handler'.pc = "idle"
        BY <2>3, <3>3 DEF Idle
      <4>2. \A m \in Instructed(db.instr) : Backed(db.chain["consent"], m)
        BY <1>3, <3>3 DEF Orderly, Uses, InHand
      <4> QED BY <1>1, <1>6, <4>1, <4>2 DEF Orderly, Uses
    <3> QED BY <3>2, <3>3
  <2> QED BY <1>5, <2>4, <2>5, <2>6 DEF Orderly
<1> QED BY <1>10, <1>11

\* A match closed in its environment waits for that environment's answer.
LEMMA InstructKeepsOrder ==
  ASSUME SingleLedger, AuditInv, Orderly, NEW p \in Proc, NEW t \in Terms,
         InstructMatch(p, t), UNCHANGED failures
  PROVE  Orderly'
<1> DEFINE e == slice.env
<1>1. /\ slice.pc = "instruct" /\ Posted(p, InstructionTx(e, t))
      /\ slice' = [slice EXCEPT !.pc = "executed", !.closed = TRUE]
      /\ UNCHANGED <<handler, inbox, begun, overdue>>
  <2>1. failures \in Nat
    BY AuditParameters DEF AuditInv, WorkInv
  <2> QED BY <2>1 DEF InstructMatch, PostFails
<1>2. slice \in [pc : Event \cup {"instruct"}, env : Match, aborted : BOOLEAN, closed : BOOLEAN]
  BY <1>1, SliceShape DEF AuditInv, WorkInv
<1>3. slice # Idle /\ e \in Match
  BY <1>1, <1>2 DEF Idle
<1>4. /\ slice'.pc = "executed" /\ slice'.env = e /\ slice'.closed
      /\ slice'.aborted = slice.aborted
  BY <1>1, <1>2
<1>5. slice' # Idle
  <2>1. slice'.pc # Idle.pc
    BY <1>4 DEF Idle
  <2> QED BY <2>1
<1>6. /\ db'.chain = db.chain /\ AtOnce'
      /\ Instructed(db'.instr) \subseteq Instructed(db.instr) \cup {e}
  BY <1>1, <1>3, PostedInstructs DEF Orderly
<1>7. Waiting'
  BY <1>1, <1>3, <1>4, <1>5 DEF Orderly, Waiting
<1>8. Traces'
  <2>1. Progress(db.chain["attestation"])'
    BY <1>1, <1>3, <1>4, <1>6 DEF Orderly, Traces, Progress
  <2> QED BY <1>1, <1>3, <1>4, <1>5, <1>6, <2>1 DEF Orderly, Traces
<1>9. Uses'
  <2>1. handler.pc = "dispatch"
    BY <1>3 DEF Orderly, Waiting
  <2> QED BY <1>1, <1>3, <1>4, <1>5, <1>6, <2>1 DEF Orderly, Uses, InHand
<1> QED BY <1>6, <1>7, <1>8, <1>9 DEF Orderly

\* A settlement or a refund is none of the evidence.
LEMMA SettlementKeepsOrder ==
  ASSUME SingleLedger, AuditInv, Orderly, NEW p \in Proc, NEW m \in Match,
         Fulfil(p, m) \/ \E c \in Case : Refund(p, m, c), UNCHANGED failures
  PROVE  Orderly'
<1>1. failures \in Nat
  BY AuditParameters DEF AuditInv, WorkInv
<1>2. PICK x : /\ Posted(p, AppendTo(p, "settlement", x))
               /\ status[p] = "serving" => Offered(p, AppendTo(p, "settlement", x))
  <2>1. CASE Fulfil(p, m)
    <3>1. /\ ConfirmAnswer(mem[p], m) = 201
          /\ Posted(p, AppendTo(p, "settlement", Splits(m, mem[p].instr[m])))
      BY <1>1, <2>1 DEF Fulfil, PostFails
    <3> QED BY <3>1, SettlementOffered DEF AuditInv
  <2>2. ASSUME NEW c \in Case, Refund(p, m, c)
        PROVE  \E x : /\ Posted(p, AppendTo(p, "settlement", x))
                      /\ status[p] = "serving" => Offered(p, AppendTo(p, "settlement", x))
    <3>1. /\ AdjustAnswer(mem[p], m, c) = 201
          /\ Posted(p, AppendTo(p, "settlement", Adjustment(m, mem[p].instr[m], c)))
      BY <1>1, <2>2 DEF Refund, PostFails
    <3> QED BY <3>1, SettlementOffered DEF AuditInv
  <2> QED BY <2>1, <2>2
<1>3. UNCHANGED services
  BY DEF Fulfil, Refund
<1>4. Appended("settlement", x) /\ AtOnce'
  BY <1>2, PostedAppends DEF ChainNames, Orderly
<1>5. SameEvidence
  BY <1>4 DEF Appended, SameEvidence, ChainNames
<1> QED BY <1>3, <1>4, <1>5, UnseenStep DEF Orderly

-----------------------------------------------------------------------------
\* No failed call yet: whatever step comes next, the work stays orderly.
LEMMA OrderlyStep ==
  ASSUME SingleLedger, AuditInv, OrderlyInv, [AuditNext]_auditVars
  PROVE  OrderlyInv'
<1> SUFFICES ASSUME failures' = 0
             PROVE  Orderly'
  BY DEF OrderlyInv
<1>1. failures \in Nat
  BY AuditParameters DEF AuditInv, WorkInv
<1>2. CASE UNCHANGED <<vars, services>> /\ UNCHANGED failures
  <2>1. Orderly
    BY <1>2 DEF OrderlyInv
  <2>2. AtOnce'
    BY <1>2, <2>1 DEF Orderly, AtOnce, vars
  <2>3. SameEvidence /\ UNCHANGED services
    BY <1>2 DEF SameEvidence, vars
  <2> QED BY <2>1, <2>2, <2>3, UnseenStep DEF Orderly
<1>3. CASE UNCHANGED auditVars
  BY <1>2, <1>3 DEF auditVars
<1>4. CASE Answer
  BY <1>2, <1>4 DEF Answer
<1>5. CASE Abandon
  BY <1>1, <1>5 DEF Abandon
<1>6. CASE CreateOrder
  <2>1. UNCHANGED failures
    BY <1>1, <1>6 DEF CreateOrder
  <2> QED BY <1>6, <2>1, OrderKeepsOrder DEF OrderlyInv
<1>7. ASSUME NEW m \in Match, Begin(m)
      PROVE  Orderly'
  <2>1. UNCHANGED failures
    BY <1>7 DEF Begin
  <2> QED BY <1>7, <2>1, BeginKeepsOrder DEF OrderlyInv
<1>8. ASSUME NEW p \in Proc, NEW m \in Match, Dispatch(p, m) \/ Book(p, m)
      PROVE  Orderly'
  <2>1. UNCHANGED failures
    BY <1>8 DEF Dispatch, Book
  <2> QED BY <1>8, <2>1, GateKeepsOrder DEF OrderlyInv
<1>9. ASSUME NEW p \in Proc, NEW m \in Match,
             Fulfil(p, m) \/ \E c \in Case : Refund(p, m, c)
      PROVE  Orderly'
  <2>1. UNCHANGED failures
    BY <1>1, <1>9 DEF Fulfil, Refund, Posted, PostFails
  <2> QED BY <1>9, <2>1, SettlementKeepsOrder DEF OrderlyInv
<1>10. ASSUME NEW p \in Proc, RecordUse(p)
       PROVE  Orderly'
  <2>1. UNCHANGED failures
    BY <1>1, <1>10 DEF RecordUse, Posted, PostFails
  <2> QED BY <1>10, <2>1, UseKeepsOrder DEF OrderlyInv
<1>11. ASSUME NEW p \in Proc, NEW t \in Terms, InstructBooking(p, t)
       PROVE  Orderly'
  <2>1. UNCHANGED failures
    BY <1>1, <1>11 DEF InstructBooking, Posted, PostFails
  <2> QED BY <1>11, <2>1, BookingKeepsOrder DEF OrderlyInv
<1>12. ASSUME NEW p \in Proc, NEW t \in Terms, InstructMatch(p, t)
       PROVE  Orderly'
  <2>1. UNCHANGED failures
    BY <1>1, <1>12 DEF InstructMatch, Posted, PostFails
  <2> QED BY <1>12, <2>1, InstructKeepsOrder DEF OrderlyInv
<1>13. ASSUME NEW p \in Proc, NEW s \in Subject, NEW a \in {"grant", "revoke"},
              SetParticipation(p, s, a)
       PROVE  Orderly'
  <2>1. UNCHANGED failures
    BY <1>1, <1>13 DEF SetParticipation, Posted, PostFails
  <2> QED BY <1>13, <2>1, ChangeKeepsOrder DEF OrderlyInv
<1>14. ASSUME NEW p \in Proc, NEW c \in Case, GrantDisclosure(p, c)
       PROVE  Orderly'
  <2>1. UNCHANGED failures
    BY <1>1, <1>14 DEF GrantDisclosure, Posted, PostFails
  <2> QED BY <1>14, <2>1, DisclosureKeepsOrder DEF OrderlyInv
<1>15. ASSUME NEW p \in Proc, NEW inTime \in BOOLEAN, UseDisclosure(p, inTime)
       PROVE  Orderly'
  <2>1. failures' \in {failures, failures + 1}
    BY <1>1, <1>15 DEF UseDisclosure, Posted, PostFails
  <2>2. UNCHANGED failures
    BY <1>1, <2>1
  <2> QED BY <1>15, <2>2, DeliveryKeepsOrder DEF OrderlyInv
<1>16. ASSUME NEW p \in Proc, Attests(p)
       PROVE  Orderly'
  <2>1. failures' \in {failures, failures + 1}
    <3>1. \E x : Posted(p, x) \/ PostFails(p, x)
      BY <1>16 DEF Attests
    <3> QED BY <3>1 DEF Posted, PostFails
  <2>2. UNCHANGED failures
    BY <1>1, <2>1
  <2> QED BY <1>16, <2>2, AttestKeepsOrder DEF OrderlyInv
<1>17. ASSUME NEW p \in Proc, LedgerCrash(p)
       PROVE  Orderly'
  BY <1>1, <1>17 DEF LedgerCrash
<1>18. ASSUME NEW p \in Proc,
              \/ ReadAttestations(p) \/ ReadSettlements(p) \/ ReadConsents(p)
              \/ ReadInstructionsAndJudge(p)
       PROVE  Orderly'
  BY <1>2, <1>18 DEF ReadAttestations, ReadSettlements, ReadConsents, ReadInstructionsAndJudge
<1>19. CASE LedgerRuns
  <2>1. Orderly /\ UNCHANGED services
    BY <1>19 DEF LedgerRuns, OrderlyInv
  <2>2. AtOnce' /\ SameEvidence
    BY <1>19, <2>1, RunsAtOnce DEF Orderly, SameEvidence
  <2> QED BY <2>1, <2>2, UnseenStep DEF Orderly
<1>20. CASE Work
  BY <1>5, <1>6, <1>7, <1>8, <1>9, <1>10, <1>11, <1>12, <1>13, <1>14, <1>15, <1>16, <1>17,
     <1>18, <1>19, <1>20 DEF Work
<1> QED BY <1>3, <1>4, <1>20 DEF AuditNext

LEMMA OrderlyInitial ==
  ASSUME AuditInit
  PROVE  OrderlyInv
<1>1. AuditInv
  BY AuditInitial
<1>2. /\ handler.pc = "idle" /\ slice = Idle /\ inbox = {} /\ begun = {} /\ late = {}
      /\ \A c \in ChainNames : db.chain[c] = << >>
      /\ Instructed(db.instr) = {}
      /\ \A p \in Proc : status[p] = "down"
  BY DEF AuditInit, Init, Idle, EmptyStore, Instructed
<1>3. AtOnce /\ Waiting
  BY <1>2 DEF AtOnce, Waiting
<1>4. Traces
  BY <1>2 DEF Traces, RowsOfEnv, ChainNames
<1>5. Uses
  BY <1>2 DEF Uses, AllAllowed, ChainNames
<1> QED BY <1>3, <1>4, <1>5 DEF OrderlyInv, Orderly

(* The services leave evidence a certificate can be given for: a ledger of one
   process is without a flaw whenever nothing is under way, however many needs
   were served, bookings instructed and participations revoked and granted
   again, as long as no call has failed and no disclosure outlived its grant. *)
THEOREM FlawsNeedFailures == SingleLedger => (AuditSpec => []FlawsComeFromFailures)
<1> SUFFICES ASSUME SingleLedger
             PROVE  AuditSpec => []FlawsComeFromFailures
  OBVIOUS
<1>1. AuditInit => OrderlyInv
  BY OrderlyInitial
<1>2. AuditInv /\ OrderlyInv /\ [AuditNext]_auditVars => OrderlyInv'
  BY OrderlyStep
<1>3. OrderlyInv => FlawsComeFromFailures
  <2> SUFFICES ASSUME Orderly, ~ overdue, handler = Idle, slice = Idle
               PROVE  ~ Flawed(db, db.chain["consent"])
    BY DEF OrderlyInv, FlawsComeFromFailures
  <2> DEFINE chain == db.chain["attestation"]
  <2>1. Incomplete(chain) = {}
    <3>1. ASSUME NEW e \in EnvironmentsOf(chain)
          PROVE  \E i, j, k, l \in RowsOfEnv(chain, e) :
                   RowsOfEnv(chain, e) = {i, j, k, l} /\ Complete(chain, i, j, k, l)
      <4>1. RowsOfEnv(chain, e) # {}
        BY DEF EnvironmentsOf, RowsOfEnv
      <4> QED BY <4>1 DEF Orderly, Traces, Whole
    <3> QED BY <3>1 DEF Incomplete
  <2>2. handler.pc = "idle"
    BY DEF Idle
  <2>3. \A m \in Instructed(db.instr) : Backed(db.chain["consent"], m)
    BY <2>2 DEF Orderly, Uses, InHand
  <2> QED BY <2>1, <2>3 DEF Flawed, Orderly, Uses, AllAllowed
<1> QED BY <1>1, <1>2, <1>3, AuditInvHolds, PTL DEF AuditSpec
=============================================================================
