------------------------------- MODULE Ledger -------------------------------
(***************************************************************************)
(* ledger-svc: three hash chains and the settlement instructions, kept in  *)
(* PostgreSQL and cached whole in the memory of the process that serves    *)
(* them. Every append is written to the database first and applied to      *)
(* memory second. A process that loses its connection exits without        *)
(* knowing whether its transaction committed; the supervisor starts a new  *)
(* one, which loads the tables one after the other.                        *)
(*                                                                         *)
(* One transaction writes all the rows of a confirmation or of a refund,   *)
(* so they are one row here. SHA-256 is modelled as injective: a hash is   *)
(* the sequence of payloads it commits to. Requests that change nothing    *)
(* (replays, refusals, reads, a 503) are stuttering steps.                 *)
(***************************************************************************)
EXTENDS Integers, Sequences, FiniteSets

CONSTANTS
  Proc,         \* its writers: the chart runs one, the schema is to hold with two
  Match, Case,  \* match ids and support case ids
  Terms,        \* a value and its splits, as instructed
  NoTerms,
  Consent,      \* consent payloads
  Attestation,  \* attestation payloads
  MaxAppends,   \* bound: rows on each of the consent and attestation chains
  MaxLate       \* bound: transactions in doubt at a time

ASSUME NoTermsAssumption == NoTerms \notin Terms
ASSUME BoundsAssumption == MaxAppends \in Nat /\ MaxLate \in Nat

VARIABLES
  db,      \* what is committed
  mem,     \* what each process holds in memory
  status,  \* "down", "loading" or "serving", for each process
  late     \* transactions sent by a process that died before their outcome

vars == <<db, mem, status, late>>

-----------------------------------------------------------------------------
\* Chains.

Genesis == << >>

Hash(prev, payload) == Append(prev, payload)

\* The prev of the next row.
ChainHead(chain) ==
  IF chain = << >> THEN Genesis
  ELSE Hash(chain[Len(chain)].prev, chain[Len(chain)].payload)

\* Chain::verify, GET /v1/verify and the auditor's chain replay.
Verifies(chain) ==
  \A i \in DOMAIN chain :
    chain[i].prev = IF i = 1 THEN Genesis
                    ELSE Hash(chain[i - 1].prev, chain[i - 1].payload)

ChainNames == {"attestation", "settlement", "consent"}

\* A settlement row: a confirmed split, or the compensation of a case.
Splits(m, t) == [kind |-> "split", match |-> m, terms |-> t]
Adjustment(m, t, c) == [kind |-> "adjustment", match |-> m, terms |-> t, case |-> c]

SettlementPayload ==
  {Splits(m, t) : m \in Match, t \in Terms}
    \cup {Adjustment(m, t, c) : m \in Match, t \in Terms, c \in Case}

Payload == Consent \cup Attestation \cup SettlementPayload

-----------------------------------------------------------------------------
\* The store, in the database and in memory alike.

EmptyStore ==
  [chain |-> [c \in ChainNames |-> << >>],
   instr |-> [m \in Match |-> NoTerms],
   confirmed |-> {}]

InstructionTx(m, t) == [op |-> "instruction", match |-> m, terms |-> t]

AppendTx(store, c, payload) ==
  [op |-> "append", chain |-> c, prev |-> ChainHead(store.chain[c]),
   payload |-> payload]

\* Faulty: no UNIQUE (prev_hash).
AdmissibleAnywhere(store, tx) ==
  tx.op = "instruction" => store.instr[tx.match] = NoTerms

\* PRIMARY KEY (match_id) and UNIQUE (prev_hash).
Admissible(store, tx) ==
  IF tx.op = "instruction"
    THEN store.instr[tx.match] = NoTerms
    ELSE \A i \in DOMAIN store.chain[tx.chain] : store.chain[tx.chain][i].prev # tx.prev

\* A split row sets its instruction's confirmed flag in the same transaction.
Apply(store, tx) ==
  IF tx.op = "instruction"
    THEN [store EXCEPT !.instr[tx.match] = tx.terms]
    ELSE [store EXCEPT
            !.chain[tx.chain] = Append(@, [prev |-> tx.prev, payload |-> tx.payload]),
            !.confirmed = IF tx.chain = "settlement" /\ tx.payload.kind = "split"
                            THEN @ \cup {tx.payload.match} ELSE @]

-----------------------------------------------------------------------------
\* What the handlers answer; only 201 writes anything.

InstructAnswer(store, m, t) ==
  IF store.instr[m] = NoTerms THEN 201 ELSE IF store.instr[m] = t THEN 200 ELSE 409

\* Faulty: a match is confirmed again; a match is confirmed uninstructed.
ConfirmAgain(store, m) == IF store.instr[m] = NoTerms THEN 404 ELSE 201

ConfirmUninstructed(store, m) == IF m \in store.confirmed THEN 200 ELSE 201

ConfirmAnswer(store, m) ==
  IF store.instr[m] = NoTerms THEN 404 ELSE IF m \in store.confirmed THEN 200 ELSE 201

\* Faulty: a support case may refund any number of matches.
PreviousOfMatch(store, m, c) ==
  {i \in DOMAIN store.chain["settlement"] :
     LET x == store.chain["settlement"][i].payload
     IN  x.kind = "adjustment" /\ x.match = m}

\* The adjustments already made for the match or for the case.
Previous(store, m, c) ==
  {i \in DOMAIN store.chain["settlement"] :
     LET x == store.chain["settlement"][i].payload
     IN  x.kind = "adjustment" /\ (x.match = m \/ x.case = c)}

\* Faulty: any earlier refund of the match or case answers for this one.
AdjustAnyReplay(store, m, c) ==
  IF store.instr[m] = NoTerms THEN 404
  ELSE IF m \notin store.confirmed THEN 409
  ELSE IF Previous(store, m, c) = {} THEN 201 ELSE 200

AdjustAnswer(store, m, c) ==
  IF store.instr[m] = NoTerms THEN 404
  ELSE IF m \notin store.confirmed THEN 409
  ELSE LET previous == Previous(store, m, c)
       IN  IF previous = {} THEN 201
           ELSE IF \E i \in previous :
                     /\ previous = {i}
                     /\ store.chain["settlement"][i].payload
                          = Adjustment(m, store.instr[m], c)
             THEN 200 ELSE 409

-----------------------------------------------------------------------------
Init ==
  /\ db = EmptyStore
  /\ mem = [p \in Proc |-> EmptyStore]
  /\ status = [p \in Proc |-> "down"]
  /\ late = {}

\* Faulty: memory is updated whether or not the insert was refused.
StoreRegardless(p, tx) ==
  /\ db' = IF Admissible(db, tx) THEN Apply(db, tx) ELSE db
  /\ mem' = [mem EXCEPT ![p] = Apply(@, tx)]
  /\ UNCHANGED <<status, late>>

\* The insert succeeded: memory follows, and the client is answered 201.
Store(p, tx) ==
  /\ Admissible(db, tx)
  /\ db' = Apply(db, tx)
  /\ mem' = [mem EXCEPT ![p] = Apply(@, tx)]
  /\ UNCHANGED <<status, late>>

\* The connection is lost with the transaction in flight: the process exits.
Lose(p, tx) ==
  /\ Cardinality(late) < MaxLate
  /\ late' = late \cup {tx}
  /\ mem' = [mem EXCEPT ![p] = EmptyStore]
  /\ status' = [status EXCEPT ![p] = "down"]
  /\ UNCHANGED db

\* What every POST handler ends with. An insert the database refuses is
\* answered 503 and changes nothing.
Persist(p, tx) == Store(p, tx) \/ Lose(p, tx)

Instruct(p, m, t) ==
  /\ status[p] = "serving"
  /\ InstructAnswer(mem[p], m, t) = 201
  /\ Persist(p, InstructionTx(m, t))

Confirm(p, m) ==
  /\ status[p] = "serving"
  /\ ConfirmAnswer(mem[p], m) = 201
  /\ Persist(p, AppendTx(mem[p], "settlement", Splits(m, mem[p].instr[m])))

Adjust(p, m, c) ==
  /\ status[p] = "serving"
  /\ AdjustAnswer(mem[p], m, c) = 201
  /\ Persist(p, AppendTx(mem[p], "settlement", Adjustment(m, mem[p].instr[m], c)))

RecordConsent(p, x) ==
  /\ status[p] = "serving"
  /\ Len(mem[p].chain["consent"]) < MaxAppends
  /\ Persist(p, AppendTx(mem[p], "consent", x))

Attest(p, x) ==
  /\ status[p] = "serving"
  /\ Len(mem[p].chain["attestation"]) < MaxAppends
  /\ Persist(p, AppendTx(mem[p], "attestation", x))

\* The process stops between two requests, or with one nothing came of.
Crash(p) ==
  /\ status[p] # "down"
  /\ mem' = [mem EXCEPT ![p] = EmptyStore]
  /\ status' = [status EXCEPT ![p] = "down"]
  /\ UNCHANGED <<db, late>>

\* Start: the chains are read first, the instructions with a later query.
LoadChains(p) ==
  /\ status[p] = "down"
  /\ mem' = [mem EXCEPT ![p].chain = db.chain]
  /\ status' = [status EXCEPT ![p] = "loading"]
  /\ UNCHANGED <<db, late>>

LoadInstructions(p) ==
  /\ status[p] = "loading"
  /\ mem' = [mem EXCEPT ![p].instr = db.instr, ![p].confirmed = db.confirmed]
  /\ status' = [status EXCEPT ![p] = "serving"]
  /\ UNCHANGED <<db, late>>

\* PostgreSQL settles a transaction whose client is gone.
LateCommit(tx) ==
  /\ Admissible(db, tx)
  /\ db' = Apply(db, tx)
  /\ late' = late \ {tx}
  /\ UNCHANGED <<mem, status>>

LateAbort(tx) ==
  /\ late' = late \ {tx}
  /\ UNCHANGED <<db, mem, status>>

Next ==
  \/ \E p \in Proc :
       \/ \E m \in Match : \/ \E t \in Terms : Instruct(p, m, t)
                           \/ Confirm(p, m)
                           \/ \E c \in Case : Adjust(p, m, c)
       \/ \E x \in Consent : RecordConsent(p, x)
       \/ \E x \in Attestation : Attest(p, x)
       \/ Crash(p)
       \/ LoadChains(p)
       \/ LoadInstructions(p)
  \/ \E tx \in late : LateCommit(tx) \/ LateAbort(tx)

Spec == Init /\ [][Next]_vars

\* A process is always started again, and a client keeps asking for the
\* confirmation it has not been answered for.
ConfirmStored(p, m) ==
  /\ status[p] = "serving"
  /\ ConfirmAnswer(mem[p], m) = 201
  /\ Store(p, AppendTx(mem[p], "settlement", Splits(m, mem[p].instr[m])))

Fairness ==
  \A p \in Proc :
    /\ WF_vars(LoadChains(p)) /\ SF_vars(LoadInstructions(p))
    /\ \A m \in Match : SF_vars(ConfirmStored(p, m))

FairSpec == Spec /\ Fairness

-----------------------------------------------------------------------------
Row == [prev : Seq(Payload), payload : Payload]

StoreType(store) ==
  /\ store \in [chain : [ChainNames -> Seq(Row)],
                instr : [Match -> Terms \cup {NoTerms}],
                confirmed : SUBSET Match]
  /\ \A i \in DOMAIN store.chain["settlement"] :
       store.chain["settlement"][i].payload \in SettlementPayload

InstructionTxs == {InstructionTx(m, t) : m \in Match, t \in Terms}

AppendTxs ==
  [op : {"append"}, chain : ChainNames, prev : Seq(Payload), payload : Payload]

TxType(tx) ==
  /\ tx \in InstructionTxs \cup AppendTxs
  /\ tx.op = "append" /\ tx.chain = "settlement" => tx.payload \in SettlementPayload

TypeOK ==
  /\ StoreType(db)
  /\ mem = [p \in Proc |-> mem[p]] /\ \A p \in Proc : StoreType(mem[p])
  /\ status \in [Proc -> {"down", "loading", "serving"}]
  /\ \A tx \in late : TxType(tx)

IsPrefixOf(s, t) == Len(s) <= Len(t) /\ \A i \in 1 .. Len(s) : s[i] = t[i]

(* No interleaving of processes, crashes and transactions in doubt forks a
   chain: what GET /v1/verify and the auditor recompute always holds, in the
   database and in the memory of every process. *)
ChainsVerify ==
  \A c \in ChainNames :
    /\ Verifies(db.chain[c])
    /\ \A p \in Proc : Verifies(mem[p].chain[c])

(* Nothing is served that a restart could take back: what a process answers
   from is committed, and its chains are the committed ones up to a row. *)
ServedIsCommitted ==
  \A p \in Proc :
    /\ \A c \in ChainNames : IsPrefixOf(mem[p].chain[c], db.chain[c])
    /\ \A m \in Match : mem[p].instr[m] \in {NoTerms, db.instr[m]}
    /\ mem[p].confirmed \subseteq db.confirmed

SettlementRows(store) == DOMAIN store.chain["settlement"]

SettlementAt(store, i) == store.chain["settlement"][i].payload

SettlesOnce(store) ==
  /\ \A i, j \in SettlementRows(store) :
       SettlementAt(store, i).kind = SettlementAt(store, j).kind /\ i # j =>
         SettlementAt(store, i).match # SettlementAt(store, j).match
  /\ \A i \in SettlementRows(store) :
       SettlementAt(store, i).terms = store.instr[SettlementAt(store, i).match]
  /\ \A m \in Match : m \in store.confirmed <=>
       \E i \in SettlementRows(store) : SettlementAt(store, i) = Splits(m, store.instr[m])

RefundsOnce(store) ==
  \A i \in SettlementRows(store) : SettlementAt(store, i).kind = "adjustment" =>
    /\ \E j \in 1 .. i - 1 :
         /\ SettlementAt(store, j).kind = "split"
         /\ SettlementAt(store, j).match = SettlementAt(store, i).match
    /\ \A j \in SettlementRows(store) : SettlementAt(store, j).kind = "adjustment" /\ i # j =>
         SettlementAt(store, i).case # SettlementAt(store, j).case

(* The money moves once: a match has at most one settlement, on the terms it
   was instructed with, exactly when its instruction is marked confirmed; a
   refund reverses a settlement that precedes it, and neither a match nor a
   support case is refunded twice. *)
SettledOnce == SettlesOnce(db) /\ RefundsOnce(db)

Refunds(store) ==
  {x \in Match \X Case : \E i \in SettlementRows(store) :
     /\ SettlementAt(store, i).kind = "adjustment"
     /\ SettlementAt(store, i).match = x[1]
     /\ SettlementAt(store, i).case = x[2]}

(* The answers support a retry: a 200 to a refund request, by whichever
   process, says that this very case has refunded this very match. *)
RefundReplay ==
  \A p \in Proc, m \in Match, c \in Case :
    status[p] = "serving" /\ AdjustAnswer(mem[p], m, c) = 200 => <<m, c>> \in Refunds(db)

\* The committed store is the abstract ledger.
Promise == INSTANCE Settlement WITH
  terms <- db.instr, settled <- db.confirmed, refunds <- Refunds(db)

(* Every step of the service is a step of the abstract ledger or leaves it
   alone: lost answers, retries and overlapping processes included. *)
KeepsPromise == Promise!Spec

(* A refused write can be retried: a confirmation that a serving process
   holds the instruction for, asked for again and again, is settled in the
   end ("SQL errors leave the process available for retry", database.rs). *)
RetriedConfirmSettles ==
  \A p \in Proc, m \in Match :
    mem[p].instr[m] # NoTerms ~> m \in mem[p].confirmed
=============================================================================
