---------------------------- MODULE LedgerProofs ----------------------------
(***************************************************************************)
(* Proofs about ledger-svc for any number of processes, matches, cases and *)
(* transactions in doubt.                                                  *)
(*                                                                         *)
(* The argument: every prev is the list of the payloads before its row     *)
(* (Committed), and every transaction was built on the first rows of the   *)
(* committed chain (Grounded). So a transaction that UNIQUE (prev_hash)    *)
(* lets in was built on the WHOLE committed chain, and what its handler    *)
(* checked in a possibly stale memory is true of the database (Justified). *)
(***************************************************************************)
EXTENDS Ledger, SequenceTheorems, TLAPS

Committed(chain) ==
  \A i \in DOMAIN chain :
    /\ Len(chain[i].prev) = i - 1
    /\ \A j \in 1 .. i - 1 : chain[i].prev[j] = chain[j].payload

Grounded(chain, prev) ==
  /\ Len(prev) <= Len(chain)
  /\ \A j \in 1 .. Len(prev) : prev[j] = chain[j].payload

\* What the handler that prepared tx made sure of.
Justified(store, tx) ==
  tx.op = "append" /\ tx.chain = "settlement" =>
    LET m == tx.payload.match
    IN  /\ store.instr[m] = tx.payload.terms
        /\ tx.payload.kind = "split" => m \notin store.confirmed
        /\ tx.payload.kind = "adjustment" =>
             /\ m \in store.confirmed
             /\ Previous(store, m, tx.payload.case) = {}

Sound(store, tx) ==
  /\ TxType(tx)
  /\ tx.op = "append" => Grounded(store.chain[tx.chain], tx.prev)
  /\ Admissible(store, tx) => Justified(store, tx)

StoreInv(store) ==
  /\ StoreType(store)
  /\ \A c \in ChainNames : Committed(store.chain[c]) /\ Verifies(store.chain[c])
  /\ SettlesOnce(store)
  /\ RefundsOnce(store)

MemInv(p) ==
  /\ StoreType(mem[p])
  /\ \A c \in ChainNames : IsPrefixOf(mem[p].chain[c], db.chain[c])
  /\ \A m \in Match : mem[p].instr[m] \in {NoTerms, db.instr[m]}
  /\ mem[p].confirmed \subseteq db.confirmed
  /\ status[p] = "serving" =>
       \A i \in SettlementRows(mem[p]) :
         SettlementAt(mem[p], i).kind = "split" =>
           SettlementAt(mem[p], i).match \in mem[p].confirmed

Inv ==
  /\ StoreInv(db)
  /\ mem = [p \in Proc |-> mem[p]]
  /\ status \in [Proc -> {"down", "loading", "serving"}]
  /\ \A p \in Proc : MemInv(p)
  /\ \A tx \in late : Sound(db, tx)

-----------------------------------------------------------------------------
\* Chains.

\* A row that no row of the chain shares its prev with extends the head.
LEMMA UniqueMeansHead ==
  ASSUME NEW chain \in Seq(Row), Committed(chain),
         NEW prev \in Seq(Payload), Grounded(chain, prev),
         \A i \in DOMAIN chain : chain[i].prev # prev
  PROVE  Len(prev) = Len(chain)
<1> SUFFICES ASSUME Len(prev) < Len(chain) PROVE FALSE
  BY DEF Grounded
<1> DEFINE i == Len(prev) + 1
<1>1. i \in 1 .. Len(chain) /\ i \in DOMAIN chain /\ i - 1 = Len(prev)
  OBVIOUS
<1>2. chain[i].prev \in Seq(Payload)
  <2>1. chain[i] \in Row
    BY <1>1, ElementOfSeq
  <2> QED BY <2>1 DEF Row
<1>3. Len(chain[i].prev) = Len(prev)
  BY <1>1 DEF Committed
<1>4. \A j \in 1 .. Len(prev) : chain[i].prev[j] = prev[j]
  BY <1>1 DEF Committed, Grounded
<1>5. chain[i].prev = prev
  <2> HIDE DEF i
  <2> QED BY <1>2, <1>3, <1>4, SeqEqual
<1> QED BY <1>1, <1>5

\* The head of a chain lists its payloads.
LEMMA HeadLists ==
  ASSUME NEW chain \in Seq(Row), Committed(chain)
  PROVE  /\ ChainHead(chain) \in Seq(Payload)
         /\ Len(ChainHead(chain)) = Len(chain)
         /\ \A j \in 1 .. Len(chain) : ChainHead(chain)[j] = chain[j].payload
<1>1. CASE chain = << >>
  BY <1>1 DEF ChainHead, Genesis
<1>2. CASE chain # << >>
  <2> DEFINE n == Len(chain)
             prev == chain[n].prev
             payload == chain[n].payload
  <2>1. n \in 1 .. Len(chain) /\ n \in DOMAIN chain
    BY <1>2
  <2>2. prev \in Seq(Payload) /\ payload \in Payload
    <3>1. chain[n] \in Row
      BY <2>1, ElementOfSeq
    <3> QED BY <3>1 DEF Row
  <2>3. Len(prev) = n - 1 /\ \A j \in 1 .. n - 1 : prev[j] = chain[j].payload
    BY <2>1 DEF Committed
  <2>4. ChainHead(chain) = Append(prev, payload)
    BY <1>2 DEF ChainHead, Hash
  <2> HIDE DEF prev
  <2>5. /\ Append(prev, payload) \in Seq(Payload)
        /\ Len(Append(prev, payload)) = n
        /\ \A j \in 1 .. n - 1 : Append(prev, payload)[j] = prev[j]
        /\ Append(prev, payload)[n] = payload
    BY <2>1, <2>2, <2>3
  <2> QED BY <2>1, <2>3, <2>4, <2>5
<1> QED BY <1>1, <1>2

\* Appending such a row keeps the chain committed and verifying.
LEMMA AppendKeepsChain ==
  ASSUME NEW chain \in Seq(Row), Committed(chain), Verifies(chain),
         NEW row \in Row, Grounded(chain, row.prev),
         \A i \in DOMAIN chain : chain[i].prev # row.prev
  PROVE  Committed(Append(chain, row)) /\ Verifies(Append(chain, row))
<1> DEFINE n == Len(chain)
           longer == Append(chain, row)
<1>1. row.prev \in Seq(Payload)
  BY DEF Row
<1>2. Len(row.prev) = n
  BY <1>1, UniqueMeansHead
<1>3. /\ Len(longer) = n + 1 /\ DOMAIN longer = 1 .. n + 1
      /\ \A i \in 1 .. n : longer[i] = chain[i]
      /\ longer[n + 1] = row
  OBVIOUS
<1>4. row.prev = ChainHead(chain)
  BY <1>1, <1>2, HeadLists, SeqEqual DEF Grounded
<1> HIDE DEF longer
<1>5. Committed(longer)
  <2> SUFFICES ASSUME NEW i \in 1 .. n + 1
               PROVE  /\ Len(longer[i].prev) = i - 1
                      /\ \A j \in 1 .. i - 1 : longer[i].prev[j] = longer[j].payload
    BY <1>3 DEF Committed
  <2>1. \A j \in 1 .. i - 1 : j \in 1 .. n /\ longer[j] = chain[j]
    BY <1>3
  <2>2. CASE i \in 1 .. n
    <3>1. i \in DOMAIN chain /\ longer[i] = chain[i]
      BY <2>2, <1>3
    <3> QED BY <3>1, <2>1 DEF Committed
  <2>3. CASE i = n + 1
    BY <2>1, <2>3, <1>2, <1>3 DEF Grounded
  <2> QED BY <2>2, <2>3
<1>6. Verifies(longer)
  <2> SUFFICES ASSUME NEW i \in 1 .. n + 1
               PROVE  longer[i].prev = IF i = 1 THEN Genesis
                                       ELSE Hash(longer[i - 1].prev, longer[i - 1].payload)
    BY <1>3 DEF Verifies
  <2>1. CASE i \in 1 .. n
    <3>1. i \in DOMAIN chain /\ longer[i] = chain[i]
      BY <2>1, <1>3
    <3>2. i # 1 => longer[i - 1] = chain[i - 1]
      BY <2>1, <1>3
    <3> QED BY <3>1, <3>2 DEF Verifies
  <2>2. CASE i = n + 1
    BY <2>2, <1>3, <1>4 DEF ChainHead
  <2> QED BY <2>1, <2>2
<1> QED BY <1>5, <1>6 DEF longer

\* Rows are only added, so what was built on the chain stays built on it.
LEMMA GroundedGrows ==
  ASSUME NEW chain \in Seq(Row), NEW prev \in Seq(Payload), NEW row \in Row,
         Grounded(chain, prev)
  PROVE  Grounded(Append(chain, row), prev)
BY DEF Grounded

LEMMA PrefixGrows ==
  ASSUME NEW s \in Seq(Row), NEW t \in Seq(Row), NEW row \in Row, IsPrefixOf(s, t)
  PROVE  IsPrefixOf(s, Append(t, row))
BY DEF IsPrefixOf

\* What a process appends in memory follows what it inserted.
LEMMA PrefixBoth ==
  ASSUME NEW s \in Seq(Row), NEW t \in Seq(Row), NEW row \in Row,
         IsPrefixOf(s, t), Len(s) = Len(t)
  PROVE  IsPrefixOf(Append(s, row), Append(t, row))
BY DEF IsPrefixOf

\* The head a process remembers was built on the committed chain.
LEMMA RememberedHeadGrounded ==
  ASSUME NEW s \in Seq(Row), NEW t \in Seq(Row), IsPrefixOf(s, t), Committed(t)
  PROVE  /\ Committed(s)
         /\ ChainHead(s) \in Seq(Payload)
         /\ Len(ChainHead(s)) = Len(s)
         /\ Grounded(t, ChainHead(s))
<1>1. \A i \in 1 .. Len(s) : s[i] = t[i] /\ i \in DOMAIN t
  BY DEF IsPrefixOf
<1>2. Committed(s)
  <2> SUFFICES ASSUME NEW i \in 1 .. Len(s)
               PROVE  /\ Len(s[i].prev) = i - 1
                      /\ \A j \in 1 .. i - 1 : s[i].prev[j] = s[j].payload
    BY DEF Committed
  <2>1. \A j \in 1 .. i - 1 : j \in 1 .. Len(s)
    OBVIOUS
  <2> QED BY <1>1, <2>1 DEF Committed
<1>3. \A j \in 1 .. Len(s) : ChainHead(s)[j] = s[j].payload
  BY <1>2, HeadLists
<1>4. Len(ChainHead(s)) = Len(s) /\ ChainHead(s) \in Seq(Payload)
  BY <1>2, HeadLists
<1> QED BY <1>1, <1>2, <1>3, <1>4 DEF Grounded, IsPrefixOf

-----------------------------------------------------------------------------
\* One committed transaction.

\* The fields of an applied append.
LEMMA AppliedAppend ==
  ASSUME NEW store, StoreType(store), NEW tx \in AppendTxs, TxType(tx)
  PROVE  /\ StoreType(Apply(store, tx))
         /\ [prev |-> tx.prev, payload |-> tx.payload] \in Row
         /\ Apply(store, tx).instr = store.instr
         /\ Apply(store, tx).chain[tx.chain]
              = Append(store.chain[tx.chain], [prev |-> tx.prev, payload |-> tx.payload])
         /\ \A c \in ChainNames \ {tx.chain} : Apply(store, tx).chain[c] = store.chain[c]
         /\ Apply(store, tx).confirmed =
              IF tx.chain = "settlement" /\ tx.payload.kind = "split"
                THEN store.confirmed \cup {tx.payload.match} ELSE store.confirmed
<1> DEFINE row == [prev |-> tx.prev, payload |-> tx.payload]
           after == Apply(store, tx)
           Stores == [chain : [ChainNames -> Seq(Row)],
                      instr : [Match -> Terms \cup {NoTerms}],
                      confirmed : SUBSET Match]
<1>1. /\ tx.op = "append" /\ tx.chain \in ChainNames /\ row \in Row
      /\ tx.op # "instruction"
  BY DEF AppendTxs, Row
<1>2. /\ store \in Stores
      /\ store.chain \in [ChainNames -> Seq(Row)]
      /\ store.chain[tx.chain] \in Seq(Row)
  BY <1>1 DEF StoreType
<1>3. after = [store EXCEPT
                 !.chain[tx.chain] = Append(@, row),
                 !.confirmed = IF tx.chain = "settlement" /\ tx.payload.kind = "split"
                                 THEN @ \cup {tx.payload.match} ELSE @]
  BY <1>1 DEF Apply
<1> HIDE DEF row, after
<1>4. /\ after.instr = store.instr
      /\ after.chain = [store.chain EXCEPT ![tx.chain] = Append(store.chain[tx.chain], row)]
      /\ after.confirmed = IF tx.chain = "settlement" /\ tx.payload.kind = "split"
                             THEN store.confirmed \cup {tx.payload.match} ELSE store.confirmed
      /\ after = [chain |-> after.chain, instr |-> after.instr, confirmed |-> after.confirmed]
  BY <1>2, <1>3
<1>5. /\ after.chain[tx.chain] = Append(store.chain[tx.chain], row)
      /\ \A c \in ChainNames \ {tx.chain} : after.chain[c] = store.chain[c]
      /\ after.chain \in [ChainNames -> Seq(Row)]
  BY <1>1, <1>2, <1>4
<1>6. after.confirmed \subseteq Match
  <2>1. tx.chain = "settlement" => tx.payload \in SettlementPayload
    BY <1>1 DEF TxType
  <2>2. tx.chain = "settlement" => tx.payload.match \in Match
    BY <2>1 DEF SettlementPayload, Splits, Adjustment
  <2> QED BY <1>2, <1>4, <2>2
<1>7. \A i \in DOMAIN after.chain["settlement"] :
        after.chain["settlement"][i].payload \in SettlementPayload
  <2>1. CASE tx.chain # "settlement"
    BY <2>1, <1>5 DEF StoreType, ChainNames
  <2>2. CASE tx.chain = "settlement"
    <3> SUFFICES ASSUME NEW i \in 1 .. Len(store.chain["settlement"]) + 1
                 PROVE  Append(store.chain["settlement"], row)[i].payload \in SettlementPayload
      BY <2>2, <1>2, <1>5
    <3>1. CASE i \in 1 .. Len(store.chain["settlement"])
      BY <3>1, <1>2, <2>2 DEF StoreType
    <3>2. CASE i = Len(store.chain["settlement"]) + 1
      BY <3>2, <1>1, <1>2, <2>2 DEF TxType, row
    <3> QED BY <3>1, <3>2
  <2> QED BY <2>1, <2>2
<1>8. StoreType(after)
  BY <1>2, <1>4, <1>5, <1>6, <1>7 DEF StoreType
<1> QED BY <1>1, <1>4, <1>5, <1>8 DEF row, after

LEMMA AppliedInstruction ==
  ASSUME NEW store, StoreType(store), NEW tx \in InstructionTxs
  PROVE  /\ StoreType(Apply(store, tx))
         /\ Apply(store, tx).chain = store.chain
         /\ Apply(store, tx).confirmed = store.confirmed
         /\ Apply(store, tx).instr = [store.instr EXCEPT ![tx.match] = tx.terms]
         /\ tx.match \in Match /\ tx.terms \in Terms /\ tx.op = "instruction"
<1>1. tx.op = "instruction" /\ tx.match \in Match /\ tx.terms \in Terms
  BY DEF InstructionTxs, InstructionTx
<1>2. Apply(store, tx) = [store EXCEPT !.instr[tx.match] = tx.terms]
  BY <1>1 DEF Apply
<1> QED BY <1>1, <1>2 DEF StoreType

LEMMA PayloadShape ==
  ASSUME NEW x \in SettlementPayload
  PROVE  /\ x.match \in Match /\ x.terms \in Terms
         /\ x.kind \in {"split", "adjustment"}
         /\ x.kind = "split" => x = Splits(x.match, x.terms)
         /\ x.kind = "adjustment" => x.case \in Case
BY DEF SettlementPayload, Splits, Adjustment

\* The settlement chain after a justified append.
LEMMA SettlementAppend ==
  ASSUME NEW store, StoreInv(store), NEW tx \in AppendTxs, TxType(tx),
         Justified(store, tx), tx.chain = "settlement"
  PROVE  SettlesOnce(Apply(store, tx)) /\ RefundsOnce(Apply(store, tx))
<1> DEFINE after == Apply(store, tx)
           rows == 1 .. Len(store.chain["settlement"])
           new == Len(store.chain["settlement"]) + 1
           m == tx.payload.match
<1>1. /\ StoreType(store) /\ StoreType(after)
      /\ after.instr = store.instr
      /\ after.confirmed = IF tx.payload.kind = "split"
                             THEN store.confirmed \cup {m} ELSE store.confirmed
      /\ after.chain["settlement"] = Append(store.chain["settlement"],
                                            [prev |-> tx.prev, payload |-> tx.payload])
  BY AppliedAppend DEF StoreInv
<1>2. store.chain["settlement"] \in Seq(Row) /\ new \in Nat /\ new \notin rows
  BY <1>1 DEF StoreType, ChainNames
<1>3. /\ SettlementRows(store) = rows
      /\ SettlementRows(after) = rows \cup {new}
      /\ \A i \in rows : SettlementAt(after, i) = SettlementAt(store, i)
      /\ SettlementAt(after, new) = tx.payload
  BY <1>1, <1>2 DEF SettlementRows, SettlementAt
<1>4. /\ tx.payload \in SettlementPayload
      /\ \A i \in rows : SettlementAt(store, i) \in SettlementPayload
  BY <1>1, <1>2 DEF TxType, AppendTxs, StoreType, SettlementAt
<1>5. /\ store.instr[m] = tx.payload.terms
      /\ tx.payload.kind = "split" => m \notin store.confirmed
      /\ tx.payload.kind = "adjustment" =>
           m \in store.confirmed /\ Previous(store, m, tx.payload.case) = {}
  BY DEF Justified, AppendTxs
<1>6. SettlesOnce(store) /\ RefundsOnce(store)
  BY DEF StoreInv
<1>7. \A i \in rows : SettlementAt(store, i).kind = tx.payload.kind =>
                        SettlementAt(store, i).match # m
  <2> SUFFICES ASSUME NEW i \in rows, SettlementAt(store, i).kind = tx.payload.kind,
                      SettlementAt(store, i).match = m
               PROVE  FALSE
    OBVIOUS
  <2>1. CASE tx.payload.kind = "split"
    <3>1. SettlementAt(store, i) = Splits(m, SettlementAt(store, i).terms)
      BY <2>1, <1>4, PayloadShape
    <3>2. SettlementAt(store, i).terms = store.instr[m]
      BY <1>3, <1>6 DEF SettlesOnce
    <3>3. m \in Match
      BY <1>4, PayloadShape
    <3>4. m \in store.confirmed
      BY <3>1, <3>2, <3>3, <1>3, <1>6 DEF SettlesOnce
    <3> QED BY <3>4, <2>1, <1>5
  <2>2. CASE tx.payload.kind = "adjustment"
    <3>1. i \in Previous(store, m, tx.payload.case)
      BY <2>2, <1>3 DEF Previous, SettlementAt, SettlementRows
    <3> QED BY <3>1, <2>2, <1>5
  <2> QED BY <2>1, <2>2, <1>4, PayloadShape
<1> HIDE DEF after, new, rows
<1>8. SettlesOnce(after)
  <2>1. ASSUME NEW i \in rows \cup {new}, NEW j \in rows \cup {new},
               SettlementAt(after, i).kind = SettlementAt(after, j).kind, i # j
        PROVE  SettlementAt(after, i).match # SettlementAt(after, j).match
    <3>1. CASE i \in rows /\ j \in rows
      BY <3>1, <2>1, <1>3, <1>6 DEF SettlesOnce
    <3>2. CASE i = new \/ j = new
      BY <3>2, <2>1, <1>3, <1>7
    <3> QED BY <3>1, <3>2
  <2>2. \A i \in rows \cup {new} :
          SettlementAt(after, i).terms = after.instr[SettlementAt(after, i).match]
    BY <1>1, <1>3, <1>5, <1>6 DEF SettlesOnce
  <2>3. ASSUME NEW x \in Match
        PROVE  x \in after.confirmed <=> \E i \in rows \cup {new} :
                 SettlementAt(after, i) = Splits(x, after.instr[x])
    <3>1. x \in store.confirmed <=> \E i \in rows :
            SettlementAt(after, i) = Splits(x, after.instr[x])
      BY <1>1, <1>3, <1>6 DEF SettlesOnce
    <3>2. CASE tx.payload.kind = "split"
      <4>1. tx.payload = Splits(m, after.instr[m])
        BY <3>2, <1>1, <1>4, <1>5, PayloadShape
      <4>2. tx.payload = Splits(x, after.instr[x]) <=> x = m
        BY <4>1 DEF Splits
      <4> QED BY <3>1, <3>2, <4>2, <1>1, <1>3
    <3>3. CASE tx.payload.kind = "adjustment"
      <4>1. tx.payload # Splits(x, after.instr[x])
        BY <3>3 DEF Splits
      <4> QED BY <3>1, <3>3, <4>1, <1>1, <1>3
    <3> QED BY <3>2, <3>3, <1>4, PayloadShape
  <2> QED BY <2>1, <2>2, <2>3, <1>3 DEF SettlesOnce
<1>9. RefundsOnce(after)
  <2> SUFFICES ASSUME NEW i \in rows \cup {new}, SettlementAt(after, i).kind = "adjustment"
               PROVE  /\ \E j \in 1 .. i - 1 :
                           /\ SettlementAt(after, j).kind = "split"
                           /\ SettlementAt(after, j).match = SettlementAt(after, i).match
                      /\ \A j \in rows \cup {new} :
                           SettlementAt(after, j).kind = "adjustment" /\ i # j =>
                             SettlementAt(after, i).case # SettlementAt(after, j).case
    BY <1>3 DEF RefundsOnce
  <2>1. tx.payload.kind = "adjustment" =>
          \A j \in rows : SettlementAt(store, j).kind = "adjustment" =>
            SettlementAt(store, j).case # tx.payload.case
    BY <1>3, <1>5 DEF Previous, SettlementAt, SettlementRows
  <2>2. CASE i \in rows
    <3>1. 1 .. i - 1 \subseteq rows
      BY <2>2, <1>2 DEF rows
    <3>2. PICK j \in 1 .. i - 1 :
            /\ SettlementAt(store, j).kind = "split"
            /\ SettlementAt(store, j).match = SettlementAt(store, i).match
      BY <2>2, <1>3, <1>6 DEF RefundsOnce
    <3>3. \A k \in rows : SettlementAt(store, k).kind = "adjustment" /\ i # k =>
            SettlementAt(store, i).case # SettlementAt(store, k).case
      BY <2>2, <1>3, <1>6 DEF RefundsOnce
    <3> QED BY <3>1, <3>2, <3>3, <2>1, <2>2, <1>3
  <2>3. CASE i = new
    <3>1. tx.payload.kind = "adjustment" /\ m \in store.confirmed /\ m \in Match
      BY <2>3, <1>3, <1>4, <1>5, PayloadShape
    <3>2. PICK j \in rows : SettlementAt(store, j) = Splits(m, store.instr[m])
      BY <3>1, <1>3, <1>6 DEF SettlesOnce
    <3>3. j \in 1 .. i - 1
      BY <2>3, <3>2, <1>2 DEF rows, new
    <3>4. SettlementAt(after, j).kind = "split" /\ SettlementAt(after, j).match = m
      BY <3>2, <1>3 DEF Splits
    <3> QED BY <3>1, <3>3, <3>4, <2>1, <2>3, <1>3
  <2> QED BY <2>2, <2>3
<1> QED BY <1>8, <1>9 DEF after

\* A committed transaction leaves the store sound.
LEMMA ApplyKeepsStore ==
  ASSUME NEW store, StoreInv(store), NEW tx, Sound(store, tx), Admissible(store, tx)
  PROVE  StoreInv(Apply(store, tx))
<1> DEFINE after == Apply(store, tx)
<1>1. StoreType(store) /\ TxType(tx) /\ Justified(store, tx)
  BY DEF StoreInv, Sound
<1>2. CASE tx \in InstructionTxs
  <2>1. /\ StoreType(after) /\ after.chain = store.chain
        /\ after.confirmed = store.confirmed
        /\ after.instr = [store.instr EXCEPT ![tx.match] = tx.terms]
        /\ tx.match \in Match /\ tx.terms \in Terms /\ tx.op = "instruction"
    BY <1>1, <1>2, AppliedInstruction
  <2>2. store.instr[tx.match] = NoTerms /\ DOMAIN store.instr = Match
    BY <1>1, <2>1 DEF Admissible, StoreType
  <2>3. \A i \in SettlementRows(store) : SettlementAt(store, i) \in SettlementPayload
    BY <1>1 DEF StoreType, SettlementRows, SettlementAt
  <2>4. SettlesOnce(store) /\ RefundsOnce(store)
    BY DEF StoreInv
  <2>5. \A i \in SettlementRows(store) : SettlementAt(store, i).match # tx.match
    <3>1. \A i \in SettlementRows(store) :
            SettlementAt(store, i).terms = store.instr[SettlementAt(store, i).match]
      BY <2>4 DEF SettlesOnce
    <3> QED BY <3>1, <2>2, <2>3, PayloadShape, NoTermsAssumption
  <2> HIDE DEF after
  <2>6. /\ SettlementRows(after) = SettlementRows(store)
        /\ \A i : SettlementAt(after, i) = SettlementAt(store, i)
    BY <2>1 DEF SettlementRows, SettlementAt
  <2>7. SettlesOnce(after)
    <3>1. \A i \in SettlementRows(store) :
            SettlementAt(after, i).terms = after.instr[SettlementAt(after, i).match]
      BY <2>1, <2>2, <2>3, <2>4, <2>5, <2>6, PayloadShape DEF SettlesOnce
    <3>2. ASSUME NEW m \in Match
          PROVE  m \in after.confirmed <=> \E i \in SettlementRows(store) :
                   SettlementAt(after, i) = Splits(m, after.instr[m])
      <4>1. CASE m = tx.match
        <5>1. \A i \in SettlementRows(store) :
                /\ SettlementAt(store, i) # Splits(m, after.instr[m])
                /\ SettlementAt(store, i) # Splits(m, store.instr[m])
          BY <4>1, <2>5 DEF Splits
        <5> QED BY <5>1, <2>1, <2>4, <2>6 DEF SettlesOnce
      <4>2. CASE m # tx.match
        BY <4>2, <2>1, <2>2, <2>4, <2>6 DEF SettlesOnce
      <4> QED BY <4>1, <4>2
    <3> QED BY <3>1, <3>2, <2>4, <2>6 DEF SettlesOnce
  <2>8. RefundsOnce(after)
    BY <2>4, <2>6 DEF RefundsOnce
  <2>9. \A c \in ChainNames : Committed(after.chain[c]) /\ Verifies(after.chain[c])
    BY <2>1 DEF StoreInv
  <2> QED BY <2>1, <2>7, <2>8, <2>9 DEF StoreInv, after
<1>3. CASE tx \in AppendTxs
  <2> DEFINE row == [prev |-> tx.prev, payload |-> tx.payload]
  <2>1. /\ StoreType(after) /\ row \in Row /\ after.instr = store.instr
        /\ after.chain[tx.chain] = Append(store.chain[tx.chain], row)
        /\ \A c \in ChainNames \ {tx.chain} : after.chain[c] = store.chain[c]
        /\ after.confirmed = IF tx.chain = "settlement" /\ tx.payload.kind = "split"
                               THEN store.confirmed \cup {tx.payload.match}
                               ELSE store.confirmed
    BY <1>1, <1>3, AppliedAppend
  <2>2. /\ tx.op = "append" /\ tx.op # "instruction" /\ tx.chain \in ChainNames
        /\ store.chain[tx.chain] \in Seq(Row)
    BY <1>1, <1>3 DEF AppendTxs, StoreType
  <2>3. \A c \in ChainNames : Committed(after.chain[c]) /\ Verifies(after.chain[c])
    <3>1. Grounded(store.chain[tx.chain], row.prev)
      BY <2>2 DEF Sound
    <3>2. \A i \in DOMAIN store.chain[tx.chain] : store.chain[tx.chain][i].prev # row.prev
      BY <2>2 DEF Admissible
    <3>3. Committed(store.chain[tx.chain]) /\ Verifies(store.chain[tx.chain])
      BY <2>2 DEF StoreInv
    <3> HIDE DEF row
    <3>4. Committed(after.chain[tx.chain]) /\ Verifies(after.chain[tx.chain])
      BY <2>1, <2>2, <3>1, <3>2, <3>3, AppendKeepsChain
    <3>5. \A c \in ChainNames \ {tx.chain} :
            Committed(after.chain[c]) /\ Verifies(after.chain[c])
      BY <2>1 DEF StoreInv
    <3> QED BY <3>4, <3>5
  <2>4. SettlesOnce(after) /\ RefundsOnce(after)
    <3>1. CASE tx.chain = "settlement"
      BY <3>1, <1>1, <1>3, SettlementAppend
    <3>2. CASE tx.chain # "settlement"
      <4>1. "settlement" \in ChainNames \ {tx.chain}
        BY <3>2 DEF ChainNames
      <4>2. /\ after.chain["settlement"] = store.chain["settlement"]
            /\ after.confirmed = store.confirmed /\ after.instr = store.instr
        BY <3>2, <4>1, <2>1
      <4>3. SettlesOnce(store) /\ RefundsOnce(store)
        BY DEF StoreInv
      <4> HIDE DEF after
      <4> QED BY <4>2, <4>3 DEF SettlesOnce, RefundsOnce, SettlementRows, SettlementAt
    <3> QED BY <3>1, <3>2
  <2> QED BY <2>1, <2>3, <2>4 DEF StoreInv
<1> QED BY <1>1, <1>2, <1>3 DEF TxType

\* A transaction in doubt stays sound when another one commits.
LEMMA ApplyKeepsSound ==
  ASSUME NEW store, StoreInv(store), NEW tx, Sound(store, tx), Admissible(store, tx),
         NEW other, Sound(store, other)
  PROVE  Sound(Apply(store, tx), other)
<1> DEFINE after == Apply(store, tx)
<1>1. StoreType(store) /\ TxType(tx) /\ TxType(other)
  BY DEF StoreInv, Sound
<1>2. CASE other \in InstructionTxs
  BY <1>1, <1>2 DEF Sound, InstructionTxs, InstructionTx, Justified
<1>3. CASE other \in AppendTxs
  <2>1. /\ other.op = "append" /\ other.op # "instruction" /\ other.chain \in ChainNames
        /\ other.prev \in Seq(Payload)
        /\ store.chain[other.chain] \in Seq(Row)
        /\ Grounded(store.chain[other.chain], other.prev)
        /\ Admissible(store, other) => Justified(store, other)
    BY <1>1, <1>3 DEF AppendTxs, StoreType, Sound
  <2>2. CASE tx \in InstructionTxs
    <3>1. /\ after.chain = store.chain /\ after.confirmed = store.confirmed
          /\ after.instr = [store.instr EXCEPT ![tx.match] = tx.terms]
          /\ tx.match \in Match /\ tx.op = "instruction"
      BY <1>1, <2>2, AppliedInstruction
    <3>2. store.instr[tx.match] = NoTerms
      BY <3>1 DEF Admissible
    <3> HIDE DEF after
    <3>3. Admissible(after, other) => Justified(store, other)
      BY <2>1, <3>1 DEF Admissible
    <3>4. Justified(store, other) => Justified(after, other)
      <4> SUFFICES ASSUME Justified(store, other), other.chain = "settlement"
                   PROVE  Justified(after, other)
        BY DEF Justified
      <4>1. other.payload.match \in Match /\ other.payload.terms \in Terms
        BY <1>1, <2>1, PayloadShape DEF TxType
      <4>2. store.instr[other.payload.match] = other.payload.terms
        BY <2>1 DEF Justified
      <4>3. after.instr[other.payload.match] = other.payload.terms
        BY <3>1, <3>2, <4>1, <4>2, <1>1, NoTermsAssumption DEF StoreType
      <4>4. Previous(after, other.payload.match, other.payload.case)
              = Previous(store, other.payload.match, other.payload.case)
        BY <3>1 DEF Previous
      <4> QED BY <3>1, <4>3, <4>4 DEF Justified
    <3> QED BY <1>1, <2>1, <3>1, <3>3, <3>4 DEF Sound, after
  <2>3. CASE tx \in AppendTxs
    <3> DEFINE row == [prev |-> tx.prev, payload |-> tx.payload]
    <3>1. /\ row \in Row /\ after.instr = store.instr
          /\ after.chain[tx.chain] = Append(store.chain[tx.chain], row)
          /\ \A c \in ChainNames \ {tx.chain} : after.chain[c] = store.chain[c]
          /\ after.confirmed = IF tx.chain = "settlement" /\ tx.payload.kind = "split"
                                 THEN store.confirmed \cup {tx.payload.match}
                                 ELSE store.confirmed
      BY <1>1, <2>3, AppliedAppend
    <3>2. tx.op = "append" /\ tx.op # "instruction" /\ tx.chain \in ChainNames
          /\ tx.prev \in Seq(Payload)
      BY <2>3 DEF AppendTxs
    <3>3. row.prev = tx.prev
      OBVIOUS
    <3> HIDE DEF after, row
    <3>4. CASE other.chain = tx.chain
      <4> DEFINE chain == store.chain[tx.chain]
      <4>1. Committed(chain) /\ chain \in Seq(Row)
        BY <2>1, <3>2, <3>4 DEF StoreInv
      <4>2. Grounded(after.chain[other.chain], other.prev)
        BY <2>1, <3>1, <3>4, GroundedGrows
      <4>3. /\ Grounded(chain, tx.prev) /\ Grounded(chain, other.prev)
            /\ \A i \in DOMAIN chain : chain[i].prev # tx.prev
        BY <2>1, <3>2, <3>4 DEF Sound, Admissible
      <4>4. ~ Admissible(after, other)
        <5> SUFFICES ASSUME Admissible(after, other) PROVE FALSE
          OBVIOUS
        <5>1. \A i \in DOMAIN Append(chain, row) : Append(chain, row)[i].prev # other.prev
          BY <2>1, <3>1, <3>4 DEF Admissible
        <5>2. \A i \in DOMAIN chain : chain[i].prev # other.prev
          BY <5>1, <4>1, <3>1
        <5>3. row.prev # other.prev
          BY <5>1, <4>1, <3>1
        <5> HIDE DEF chain
        <5>4. Len(tx.prev) = Len(chain) /\ Len(other.prev) = Len(chain)
          BY <4>1, <4>3, <5>2, <2>1, <3>2, UniqueMeansHead
        <5>5. \A j \in 1 .. Len(tx.prev) : tx.prev[j] = other.prev[j]
          BY <4>3, <5>4 DEF Grounded
        <5>6. tx.prev = other.prev
          BY <5>4, <5>5, <2>1, <3>2, SeqEqual
        <5> QED BY <5>3, <5>6, <3>3
      <4> QED BY <4>2, <4>4, <1>1, <2>1 DEF Sound, after
    <3>5. CASE other.chain # tx.chain
      <4>1. after.chain[other.chain] = store.chain[other.chain]
        BY <2>1, <3>1, <3>5
      <4>2. Admissible(after, other) => Justified(store, other)
        BY <4>1, <2>1 DEF Admissible
      <4>3. Justified(store, other) => Justified(after, other)
        BY <4>1, <3>1, <3>5 DEF Justified, Previous
      <4> QED BY <4>1, <4>2, <4>3, <1>1, <2>1 DEF Sound, after
    <3> QED BY <3>4, <3>5
  <2> QED BY <2>2, <2>3, <1>1 DEF TxType
<1> QED BY <1>1, <1>2, <1>3 DEF TxType

\* What was committed stays committed.
LEMMA ApplyGrows ==
  ASSUME NEW store, StoreInv(store), NEW tx, Sound(store, tx), Admissible(store, tx)
  PROVE  /\ \A c \in ChainNames : \A s \in Seq(Row) :
              IsPrefixOf(s, store.chain[c]) => IsPrefixOf(s, Apply(store, tx).chain[c])
         /\ \A m \in Match : store.instr[m] \in {NoTerms, Apply(store, tx).instr[m]}
         /\ store.confirmed \subseteq Apply(store, tx).confirmed
<1>1. StoreType(store) /\ TxType(tx)
  BY DEF StoreInv, Sound
<1>2. CASE tx \in InstructionTxs
  <2>1. /\ Apply(store, tx).chain = store.chain
        /\ Apply(store, tx).confirmed = store.confirmed
        /\ Apply(store, tx).instr = [store.instr EXCEPT ![tx.match] = tx.terms]
        /\ tx.op = "instruction"
    BY <1>1, <1>2, AppliedInstruction
  <2>2. store.instr[tx.match] = NoTerms /\ DOMAIN store.instr = Match
    BY <1>1, <2>1 DEF Admissible, StoreType
  <2> QED BY <2>1, <2>2
<1>3. CASE tx \in AppendTxs
  <2> DEFINE row == [prev |-> tx.prev, payload |-> tx.payload]
  <2>1. /\ row \in Row /\ tx.chain \in ChainNames
        /\ Apply(store, tx).instr = store.instr
        /\ Apply(store, tx).chain[tx.chain] = Append(store.chain[tx.chain], row)
        /\ \A c \in ChainNames \ {tx.chain} : Apply(store, tx).chain[c] = store.chain[c]
        /\ store.confirmed \subseteq Apply(store, tx).confirmed
    BY <1>1, <1>3, AppliedAppend DEF AppendTxs
  <2>2. store.chain[tx.chain] \in Seq(Row)
    BY <1>1, <2>1 DEF StoreType
  <2> HIDE DEF row
  <2>3. \A s \in Seq(Row) : IsPrefixOf(s, store.chain[tx.chain]) =>
          IsPrefixOf(s, Append(store.chain[tx.chain], row))
    BY <2>1, <2>2, PrefixGrows
  <2> QED BY <2>1, <2>3
<1> QED BY <1>1, <1>2, <1>3 DEF TxType

-----------------------------------------------------------------------------
\* What the handlers prepare.

\* An append prepared from memory is sound if it is justified whenever that
\* memory is up to date.
LEMMA AppendSound ==
  ASSUME Inv, NEW p \in Proc, NEW c \in ChainNames, NEW x \in Payload,
         c = "settlement" => /\ x \in SettlementPayload
                             /\ mem[p].chain[c] = db.chain[c] =>
                                  Justified(db, AppendTx(mem[p], c, x))
  PROVE  /\ Sound(db, AppendTx(mem[p], c, x))
         /\ AppendTx(mem[p], c, x) \in AppendTxs
         /\ AppendTx(mem[p], c, x).chain = c
         /\ AppendTx(mem[p], c, x).prev = ChainHead(mem[p].chain[c])
<1> DEFINE tx == AppendTx(mem[p], c, x)
           s == mem[p].chain[c]
           t == db.chain[c]
<1>1. s \in Seq(Row) /\ t \in Seq(Row) /\ IsPrefixOf(s, t) /\ Committed(t)
  BY DEF Inv, MemInv, StoreInv, StoreType
<1>2. /\ tx.op = "append" /\ tx.op # "instruction" /\ tx.chain = c
      /\ tx.prev = ChainHead(s) /\ tx.payload = x
  BY DEF AppendTx
<1>3. /\ ChainHead(s) \in Seq(Payload) /\ Len(ChainHead(s)) = Len(s)
      /\ Grounded(t, ChainHead(s))
  <2> HIDE DEF s, t
  <2> QED BY <1>1, RememberedHeadGrounded
<1>4. tx \in AppendTxs
  BY <1>3 DEF AppendTx, AppendTxs
<1>5. TxType(tx)
  BY <1>2, <1>4 DEF TxType
<1>6. Admissible(db, tx) => s = t
  <2> SUFFICES ASSUME Admissible(db, tx) PROVE s = t
    OBVIOUS
  <2>1. \A i \in DOMAIN t : t[i].prev # ChainHead(s)
    BY <1>2 DEF Admissible
  <2> HIDE DEF s, t
  <2>2. Len(s) = Len(t)
    BY <1>1, <1>3, <2>1, UniqueMeansHead
  <2> QED BY <1>1, <2>2, SeqEqual DEF IsPrefixOf
<1>7. Admissible(db, tx) => Justified(db, tx)
  <2>1. CASE c = "settlement"
    BY <1>6, <2>1
  <2>2. CASE c # "settlement"
    BY <1>2, <2>2 DEF Justified
  <2> QED BY <2>1, <2>2
<1> QED BY <1>2, <1>3, <1>4, <1>5, <1>7 DEF Sound

LEMMA ConfirmSound ==
  ASSUME Inv, NEW p \in Proc, NEW m \in Match, status[p] = "serving",
         ConfirmAnswer(mem[p], m) = 201
  PROVE  LET x == Splits(m, mem[p].instr[m])
         IN  /\ x \in SettlementPayload
             /\ mem[p].chain["settlement"] = db.chain["settlement"] =>
                  Justified(db, AppendTx(mem[p], "settlement", x))
<1> DEFINE x == Splits(m, mem[p].instr[m])
<1>1. mem[p].instr[m] # NoTerms /\ m \notin mem[p].confirmed
  BY DEF ConfirmAnswer
<1>2. mem[p].instr[m] \in Terms /\ db.instr[m] = mem[p].instr[m]
  BY <1>1 DEF Inv, MemInv, StoreType
<1>3. x \in SettlementPayload /\ x.kind = "split" /\ x.match = m /\ x.terms = db.instr[m]
  BY <1>2 DEF SettlementPayload, Splits
<1>4. ASSUME mem[p].chain["settlement"] = db.chain["settlement"]
      PROVE  m \notin db.confirmed
  <2> SUFFICES ASSUME m \in db.confirmed PROVE FALSE
    OBVIOUS
  <2>1. PICK i \in SettlementRows(db) : SettlementAt(db, i) = Splits(m, db.instr[m])
    BY DEF Inv, StoreInv, SettlesOnce
  <2>2. /\ i \in SettlementRows(mem[p])
        /\ SettlementAt(mem[p], i).kind = "split"
        /\ SettlementAt(mem[p], i).match = m
    BY <1>4, <2>1 DEF SettlementRows, SettlementAt, Splits
  <2>3. m \in mem[p].confirmed
    BY <2>2 DEF Inv, MemInv
  <2> QED BY <1>1, <2>3
<1> QED BY <1>3, <1>4 DEF Justified, AppendTx

LEMMA AdjustSound ==
  ASSUME Inv, NEW p \in Proc, NEW m \in Match, NEW c \in Case, status[p] = "serving",
         AdjustAnswer(mem[p], m, c) = 201
  PROVE  LET x == Adjustment(m, mem[p].instr[m], c)
         IN  /\ x \in SettlementPayload
             /\ mem[p].chain["settlement"] = db.chain["settlement"] =>
                  Justified(db, AppendTx(mem[p], "settlement", x))
<1> DEFINE x == Adjustment(m, mem[p].instr[m], c)
<1>1. /\ mem[p].instr[m] # NoTerms /\ m \in mem[p].confirmed
      /\ Previous(mem[p], m, c) = {}
  BY DEF AdjustAnswer
<1>2. /\ mem[p].instr[m] \in Terms /\ db.instr[m] = mem[p].instr[m]
      /\ m \in db.confirmed
  BY <1>1 DEF Inv, MemInv, StoreType
<1>3. /\ x \in SettlementPayload /\ x.kind = "adjustment" /\ x.match = m
      /\ x.terms = db.instr[m] /\ x.case = c
  BY <1>2 DEF SettlementPayload, Adjustment
<1>4. ASSUME mem[p].chain["settlement"] = db.chain["settlement"]
      PROVE  Previous(db, m, c) = {}
  BY <1>1, <1>4 DEF Previous
<1> QED BY <1>2, <1>3, <1>4 DEF Justified, AppendTx

-----------------------------------------------------------------------------
\* Steps.

LEMMA EmptyStoreSound == StoreInv(EmptyStore)
<1>1. /\ EmptyStore.chain = [c \in ChainNames |-> << >>]
      /\ EmptyStore.instr = [m \in Match |-> NoTerms]
      /\ EmptyStore.confirmed = {}
      /\ \A c \in ChainNames : EmptyStore.chain[c] = << >>
      /\ EmptyStore.chain["settlement"] = << >>
  BY DEF EmptyStore, ChainNames
<1>2. StoreType(EmptyStore)
  <2>1. EmptyStore.chain \in [ChainNames -> Seq(Row)]
    BY <1>1
  <2>2. EmptyStore.instr \in [Match -> Terms \cup {NoTerms}]
    BY <1>1
  <2>3. EmptyStore \in [chain : [ChainNames -> Seq(Row)],
                        instr : [Match -> Terms \cup {NoTerms}],
                        confirmed : SUBSET Match]
    BY <2>1, <2>2 DEF EmptyStore
  <2> QED BY <1>1, <2>3 DEF StoreType
<1>3. \A c \in ChainNames : Committed(EmptyStore.chain[c]) /\ Verifies(EmptyStore.chain[c])
  BY <1>1 DEF Committed, Verifies
<1>4. SettlesOnce(EmptyStore) /\ RefundsOnce(EmptyStore)
  BY <1>1 DEF SettlesOnce, RefundsOnce, SettlementRows
<1> QED BY <1>2, <1>3, <1>4 DEF StoreInv

\* A process that stopped remembers nothing, which is always right.
LEMMA ForgetKeepsMem ==
  ASSUME Inv, NEW p \in Proc, mem' = [mem EXCEPT ![p] = EmptyStore],
         db' = db, status' = [status EXCEPT ![p] = "down"], NEW q \in Proc
  PROVE  MemInv(q)'
<1>1. CASE q = p
  <2>1. mem'[q] = EmptyStore /\ status'[q] = "down"
    BY <1>1 DEF Inv
  <2>2. /\ StoreType(EmptyStore)
        /\ \A c \in ChainNames : EmptyStore.chain[c] = << >>
        /\ \A m \in Match : EmptyStore.instr[m] = NoTerms
        /\ EmptyStore.confirmed = {}
    BY EmptyStoreSound DEF EmptyStore, StoreInv
  <2>3. \A c \in ChainNames : IsPrefixOf(<< >>, db.chain[c])
    BY DEF IsPrefixOf, Inv, StoreInv, StoreType
  <2> QED BY <2>1, <2>2, <2>3 DEF MemInv
<1>2. CASE q # p
  BY <1>2 DEF Inv, MemInv, SettlementRows, SettlementAt
<1> QED BY <1>1, <1>2

\* The database moves on under a process that did not move it.
LEMMA CommitKeepsMem ==
  ASSUME Inv, NEW tx, Sound(db, tx), Admissible(db, tx), db' = Apply(db, tx),
         NEW q \in Proc, mem'[q] = mem[q], status'[q] = status[q]
  PROVE  MemInv(q)'
<1>1. /\ \A c \in ChainNames : \A s \in Seq(Row) :
           IsPrefixOf(s, db.chain[c]) => IsPrefixOf(s, db'.chain[c])
      /\ \A m \in Match : db.instr[m] \in {NoTerms, db'.instr[m]}
      /\ db.confirmed \subseteq db'.confirmed
  BY ApplyGrows DEF Inv
<1>2. MemInv(q) /\ \A c \in ChainNames : mem[q].chain[c] \in Seq(Row)
  BY DEF Inv, MemInv, StoreType
<1> QED BY <1>1, <1>2 DEF MemInv, SettlementRows, SettlementAt

LEMMA CommitKeepsDb ==
  ASSUME Inv, NEW tx, Sound(db, tx), Admissible(db, tx), db' = Apply(db, tx),
         late' \subseteq late
  PROVE  StoreInv(db') /\ \A other \in late' : Sound(db', other)
BY ApplyKeepsStore, ApplyKeepsSound DEF Inv

LEMMA StoreStep ==
  ASSUME Inv, NEW p \in Proc, NEW tx, Sound(db, tx),
         tx.op = "append" => tx.prev = ChainHead(mem[p].chain[tx.chain]),
         Store(p, tx)
  PROVE  Inv'
<1>1. /\ Admissible(db, tx) /\ db' = Apply(db, tx)
      /\ mem' = [mem EXCEPT ![p] = Apply(mem[p], tx)]
      /\ status' = status /\ late' = late
  BY DEF Store
<1>2. StoreInv(db') /\ \A other \in late' : Sound(db', other)
  BY <1>1, CommitKeepsDb
<1>3. /\ mem'[p] = Apply(mem[p], tx)
      /\ \A q \in Proc : q # p => mem'[q] = mem[q]
      /\ mem' = [q \in Proc |-> mem'[q]]
  BY <1>1 DEF Inv
<1>4. /\ MemInv(p) /\ StoreType(mem[p]) /\ StoreType(db) /\ StoreType(db') /\ TxType(tx)
  BY <1>2 DEF Inv, MemInv, StoreInv, Sound
<1>5. MemInv(p)'
  <2>1. CASE tx \in InstructionTxs
    <3>1. /\ StoreType(mem'[p])
          /\ mem'[p].chain = mem[p].chain /\ mem'[p].confirmed = mem[p].confirmed
          /\ mem'[p].instr = [mem[p].instr EXCEPT ![tx.match] = tx.terms]
          /\ db'.chain = db.chain /\ db'.confirmed = db.confirmed
          /\ db'.instr = [db.instr EXCEPT ![tx.match] = tx.terms]
          /\ tx.match \in Match
      BY <1>1, <1>3, <1>4, <2>1, AppliedInstruction
    <3>2. \A m \in Match : mem'[p].instr[m] \in {NoTerms, db'.instr[m]}
      BY <3>1, <1>4 DEF MemInv, StoreType
    <3> QED BY <3>1, <3>2, <1>1, <1>4 DEF MemInv, SettlementRows, SettlementAt
  <2>2. CASE tx \in AppendTxs
    <3> DEFINE row == [prev |-> tx.prev, payload |-> tx.payload]
    <3>1. /\ StoreType(mem'[p]) /\ row \in Row
          /\ mem'[p].instr = mem[p].instr
          /\ mem'[p].chain[tx.chain] = Append(mem[p].chain[tx.chain], row)
          /\ \A c \in ChainNames \ {tx.chain} : mem'[p].chain[c] = mem[p].chain[c]
          /\ mem'[p].confirmed = IF tx.chain = "settlement" /\ tx.payload.kind = "split"
                                   THEN mem[p].confirmed \cup {tx.payload.match}
                                   ELSE mem[p].confirmed
      <4> DEFINE after == Apply(mem[p], tx)
      <4>1. /\ StoreType(after) /\ row \in Row
            /\ after.instr = mem[p].instr
            /\ after.chain[tx.chain] = Append(mem[p].chain[tx.chain], row)
            /\ \A c \in ChainNames \ {tx.chain} : after.chain[c] = mem[p].chain[c]
            /\ after.confirmed = IF tx.chain = "settlement" /\ tx.payload.kind = "split"
                                   THEN mem[p].confirmed \cup {tx.payload.match}
                                   ELSE mem[p].confirmed
        BY <1>4, <2>2, AppliedAppend
      <4>2. mem'[p] = after
        BY <1>3
      <4> HIDE DEF after, row
      <4> QED BY <4>1, <4>2
    <3>2. /\ db'.instr = db.instr
          /\ db'.chain[tx.chain] = Append(db.chain[tx.chain], row)
          /\ \A c \in ChainNames \ {tx.chain} : db'.chain[c] = db.chain[c]
          /\ db'.confirmed = IF tx.chain = "settlement" /\ tx.payload.kind = "split"
                               THEN db.confirmed \cup {tx.payload.match}
                               ELSE db.confirmed
      BY <1>1, <1>4, <2>2, AppliedAppend
    <3>3. /\ tx.chain \in ChainNames /\ tx.op = "append" /\ tx.op # "instruction"
          /\ tx.prev \in Seq(Payload)
      BY <2>2 DEF AppendTxs
    <3> DEFINE s == mem[p].chain[tx.chain]
               t == db.chain[tx.chain]
    <3>4. /\ s \in Seq(Row) /\ t \in Seq(Row) /\ IsPrefixOf(s, t) /\ Committed(t)
          /\ Grounded(t, tx.prev) /\ tx.prev = ChainHead(s)
          /\ \A i \in DOMAIN t : t[i].prev # tx.prev
      BY <1>1, <1>4, <3>3 DEF MemInv, StoreType, Inv, StoreInv, Sound, Admissible
    <3>5. IsPrefixOf(Append(s, row), Append(t, row))
      <4> HIDE DEF s, t, row
      <4>1. Len(s) = Len(t)
        BY <3>3, <3>4, UniqueMeansHead, RememberedHeadGrounded
      <4> QED BY <3>1, <3>4, <4>1, PrefixBoth
    <3>6. \A c \in ChainNames : IsPrefixOf(mem'[p].chain[c], db'.chain[c])
      BY <3>1, <3>2, <3>3, <3>5, <1>4 DEF MemInv
    <3>7. ASSUME status[p] = "serving", NEW i \in SettlementRows(mem'[p]),
                 SettlementAt(mem'[p], i).kind = "split"
          PROVE  SettlementAt(mem'[p], i).match \in mem'[p].confirmed
      <4>1. CASE tx.chain = "settlement"
        <5>1. /\ mem'[p].chain["settlement"] = Append(s, row)
              /\ s = mem[p].chain["settlement"]
          BY <4>1, <3>1
        <5>2. CASE i \in SettlementRows(mem[p])
          <6>1. SettlementAt(mem'[p], i) = SettlementAt(mem[p], i)
            BY <5>1, <5>2, <3>4 DEF SettlementRows, SettlementAt
          <6> QED BY <6>1, <5>2, <3>1, <3>7, <1>4 DEF MemInv
        <5>3. CASE i \notin SettlementRows(mem[p])
          <6>1. SettlementAt(mem'[p], i) = tx.payload
            BY <5>1, <5>3, <3>4, <3>7 DEF SettlementRows, SettlementAt
          <6> QED BY <6>1, <4>1, <3>1, <3>7
        <5> QED BY <5>2, <5>3
      <4>2. CASE tx.chain # "settlement"
        <5>1. /\ mem'[p].chain["settlement"] = mem[p].chain["settlement"]
              /\ mem'[p].confirmed = mem[p].confirmed
          BY <4>2, <3>1 DEF ChainNames
        <5> QED BY <5>1, <3>7, <1>4 DEF MemInv, SettlementRows, SettlementAt
      <4> QED BY <4>1, <4>2
    <3> HIDE DEF row, s, t
    <3>8. /\ \A m \in Match : mem'[p].instr[m] \in {NoTerms, db'.instr[m]}
          /\ mem'[p].confirmed \subseteq db'.confirmed
      BY <3>1, <3>2, <1>4 DEF MemInv
    <3> QED BY <3>1, <3>6, <3>7, <3>8, <1>1 DEF MemInv
  <2> QED BY <2>1, <2>2, <1>4 DEF TxType
<1>6. \A q \in Proc : q # p => MemInv(q)'
  BY <1>1, <1>3, CommitKeepsMem
<1> QED BY <1>1, <1>2, <1>3, <1>5, <1>6 DEF Inv

LEMMA LoseStep ==
  ASSUME Inv, NEW p \in Proc, NEW tx, Sound(db, tx), Lose(p, tx)
  PROVE  Inv'
<1>1. /\ db' = db /\ late' = late \cup {tx}
      /\ mem' = [mem EXCEPT ![p] = EmptyStore]
      /\ status' = [status EXCEPT ![p] = "down"]
  BY DEF Lose
<1>2. \A q \in Proc : MemInv(q)'
  BY <1>1, ForgetKeepsMem
<1>3. StoreInv(db') /\ \A other \in late' : Sound(db', other)
  BY <1>1 DEF Inv
<1>4. /\ mem' = [q \in Proc |-> mem'[q]]
      /\ status' \in [Proc -> {"down", "loading", "serving"}]
  BY <1>1 DEF Inv
<1> QED BY <1>2, <1>3, <1>4 DEF Inv

LEMMA PersistStep ==
  ASSUME Inv, NEW p \in Proc, NEW tx, Sound(db, tx),
         tx.op = "append" => tx.prev = ChainHead(mem[p].chain[tx.chain]),
         Persist(p, tx)
  PROVE  Inv'
BY StoreStep, LoseStep DEF Persist

LEMMA StartStep ==
  ASSUME Inv, NEW p \in Proc, LoadChains(p) \/ LoadInstructions(p)
  PROVE  Inv'
<1>1. db' = db /\ late' = late
  BY DEF LoadChains, LoadInstructions
<1>2. StoreInv(db') /\ \A other \in late' : Sound(db', other)
  BY <1>1 DEF Inv
<1>3. /\ mem' = [q \in Proc |-> mem'[q]]
      /\ status' \in [Proc -> {"down", "loading", "serving"}]
      /\ \A q \in Proc : q # p => mem'[q] = mem[q] /\ status'[q] = status[q]
  BY DEF Inv, LoadChains, LoadInstructions
<1>4. \A q \in Proc : q # p => MemInv(q)'
  BY <1>1, <1>3 DEF Inv, MemInv, SettlementRows, SettlementAt
<1>5. StoreType(db) /\ StoreType(mem[p]) /\ MemInv(p)
  BY DEF Inv, StoreInv, MemInv
<1>6. CASE LoadChains(p)
  <2>1. /\ mem'[p] = [mem[p] EXCEPT !.chain = db.chain] /\ status'[p] = "loading"
    BY <1>6 DEF LoadChains, Inv
  <2>2. /\ mem'[p].chain = db.chain /\ mem'[p].instr = mem[p].instr
        /\ mem'[p].confirmed = mem[p].confirmed
        /\ mem'[p] = [chain |-> mem'[p].chain, instr |-> mem'[p].instr,
                      confirmed |-> mem'[p].confirmed]
    BY <2>1, <1>5 DEF StoreType
  <2>3. StoreType(mem'[p])
    BY <2>2, <1>5 DEF StoreType
  <2>4. \A c \in ChainNames : IsPrefixOf(mem'[p].chain[c], db.chain[c])
    <3>1. \A c \in ChainNames : db.chain[c] \in Seq(Row)
      BY <1>5 DEF StoreType
    <3> QED BY <3>1, <2>2 DEF IsPrefixOf
  <2>5. MemInv(p)'
    BY <1>1, <1>5, <2>1, <2>2, <2>3, <2>4 DEF MemInv
  <2> QED BY <1>2, <1>3, <1>4, <2>5 DEF Inv
<1>7. CASE LoadInstructions(p)
  <2>1. mem'[p] = [mem[p] EXCEPT !.instr = db.instr, !.confirmed = db.confirmed]
    BY <1>7 DEF LoadInstructions, Inv
  <2>2. /\ mem'[p].chain = mem[p].chain /\ mem'[p].instr = db.instr
        /\ mem'[p].confirmed = db.confirmed
        /\ mem'[p] = [chain |-> mem'[p].chain, instr |-> mem'[p].instr,
                      confirmed |-> mem'[p].confirmed]
    BY <2>1, <1>5 DEF StoreType
  <2>3. StoreType(mem'[p])
    BY <2>2, <1>5 DEF StoreType
  <2>4. ASSUME NEW i \in SettlementRows(mem[p]), SettlementAt(mem[p], i).kind = "split"
        PROVE  SettlementAt(mem[p], i).match \in db.confirmed
    <3>1. "settlement" \in ChainNames
      BY DEF ChainNames
    <3>2. /\ mem[p].chain["settlement"] \in Seq(Row)
          /\ db.chain["settlement"] \in Seq(Row)
          /\ IsPrefixOf(mem[p].chain["settlement"], db.chain["settlement"])
      BY <3>1, <1>5 DEF StoreType, MemInv
    <3>3. i \in SettlementRows(db) /\ SettlementAt(db, i) = SettlementAt(mem[p], i)
      <4> DEFINE s == mem[p].chain["settlement"]
                 t == db.chain["settlement"]
      <4>1. i \in DOMAIN s /\ s \in Seq(Row) /\ t \in Seq(Row) /\ IsPrefixOf(s, t)
        BY <3>2 DEF SettlementRows
      <4> HIDE DEF s, t
      <4>2. i \in DOMAIN t /\ t[i] = s[i]
        BY <4>1 DEF IsPrefixOf
      <4> QED BY <4>2 DEF SettlementRows, SettlementAt, s, t
    <3>4. SettlementAt(db, i) \in SettlementPayload
      BY <3>3, <1>5 DEF StoreType, SettlementRows, SettlementAt
    <3>5. SettlementAt(db, i) = Splits(SettlementAt(db, i).match,
                                       db.instr[SettlementAt(db, i).match])
      <4>1. SettlementAt(db, i) = Splits(SettlementAt(db, i).match,
                                         SettlementAt(db, i).terms)
        BY <2>4, <3>3, <3>4, PayloadShape
      <4>2. SettlementAt(db, i).terms = db.instr[SettlementAt(db, i).match]
        BY <3>3 DEF Inv, StoreInv, SettlesOnce
      <4> QED BY <4>1, <4>2
    <3> QED BY <3>3, <3>4, <3>5, PayloadShape DEF Inv, StoreInv, SettlesOnce
  <2>5. MemInv(p)'
    BY <1>1, <1>5, <2>2, <2>3, <2>4 DEF MemInv, SettlementRows, SettlementAt
  <2> QED BY <1>2, <1>3, <1>4, <2>5 DEF Inv
<1> QED BY <1>6, <1>7

LEMMA LateStep ==
  ASSUME Inv, NEW tx \in late, LateCommit(tx) \/ LateAbort(tx)
  PROVE  Inv'
<1>1. mem' = mem /\ status' = status /\ late' \subseteq late
  BY DEF LateCommit, LateAbort
<1>2. CASE LateCommit(tx)
  <2>1. Sound(db, tx) /\ Admissible(db, tx) /\ db' = Apply(db, tx)
    BY <1>2 DEF LateCommit, Inv
  <2>2. StoreInv(db') /\ \A other \in late' : Sound(db', other)
    BY <1>1, <2>1, CommitKeepsDb
  <2>3. \A q \in Proc : MemInv(q)'
    BY <1>1, <2>1, CommitKeepsMem
  <2> QED BY <1>1, <2>2, <2>3 DEF Inv
<1>3. CASE LateAbort(tx)
  BY <1>1, <1>3 DEF LateAbort, Inv, MemInv, SettlementRows, SettlementAt
<1> QED BY <1>2, <1>3

LEMMA InitialInv ==
  ASSUME Init
  PROVE  Inv
<1>1. StoreInv(EmptyStore)
  BY EmptyStoreSound
<1>2. ASSUME NEW p \in Proc PROVE MemInv(p)
  <2>1. mem[p] = EmptyStore /\ db = EmptyStore /\ status[p] = "down"
    BY DEF Init
  <2>2. /\ \A c \in ChainNames : EmptyStore.chain[c] = << >>
        /\ \A m \in Match : EmptyStore.instr[m] = NoTerms
    BY DEF EmptyStore
  <2>3. \A c \in ChainNames : IsPrefixOf(EmptyStore.chain[c], EmptyStore.chain[c])
    BY <2>2 DEF IsPrefixOf
  <2> QED BY <1>1, <2>1, <2>2, <2>3 DEF MemInv, StoreInv
<1> QED BY <1>1, <1>2 DEF Init, Inv

LEMMA InvHolds == Spec => []Inv
<1>1. Init => Inv
  BY InitialInv
<1>2. Inv /\ [Next]_vars => Inv'
  <2> SUFFICES ASSUME Inv, [Next]_vars PROVE Inv'
    OBVIOUS
  <2>1. ASSUME NEW p \in Proc, NEW m \in Match, NEW t \in Terms, Instruct(p, m, t)
        PROVE  Inv'
    <3> DEFINE tx == InstructionTx(m, t)
    <3>1. tx \in InstructionTxs /\ tx.op = "instruction"
      BY DEF InstructionTxs, InstructionTx
    <3>2. Sound(db, tx)
      BY <3>1 DEF Sound, TxType, Justified
    <3> QED BY <2>1, <3>1, <3>2, PersistStep DEF Instruct
  <2>2. ASSUME NEW p \in Proc, NEW m \in Match, Confirm(p, m)
        PROVE  Inv'
    <3> DEFINE x == Splits(m, mem[p].instr[m])
               tx == AppendTx(mem[p], "settlement", x)
    <3>1. status[p] = "serving" /\ ConfirmAnswer(mem[p], m) = 201 /\ Persist(p, tx)
      BY <2>2 DEF Confirm
    <3>2. /\ x \in SettlementPayload /\ x \in Payload /\ "settlement" \in ChainNames
          /\ mem[p].chain["settlement"] = db.chain["settlement"] => Justified(db, tx)
      BY <3>1, ConfirmSound DEF Payload, ChainNames
    <3> HIDE DEF x
    <3>3. /\ Sound(db, tx) /\ tx.chain = "settlement"
          /\ tx.prev = ChainHead(mem[p].chain["settlement"])
      BY <3>2, AppendSound
    <3> QED BY <3>1, <3>3, PersistStep
  <2>3. ASSUME NEW p \in Proc, NEW m \in Match, NEW c \in Case, Adjust(p, m, c)
        PROVE  Inv'
    <3> DEFINE x == Adjustment(m, mem[p].instr[m], c)
               tx == AppendTx(mem[p], "settlement", x)
    <3>1. status[p] = "serving" /\ AdjustAnswer(mem[p], m, c) = 201 /\ Persist(p, tx)
      BY <2>3 DEF Adjust
    <3>2. /\ x \in SettlementPayload /\ x \in Payload /\ "settlement" \in ChainNames
          /\ mem[p].chain["settlement"] = db.chain["settlement"] => Justified(db, tx)
      BY <3>1, AdjustSound DEF Payload, ChainNames
    <3> HIDE DEF x
    <3>3. /\ Sound(db, tx) /\ tx.chain = "settlement"
          /\ tx.prev = ChainHead(mem[p].chain["settlement"])
      BY <3>2, AppendSound
    <3> QED BY <3>1, <3>3, PersistStep
  <2>4. ASSUME NEW p \in Proc, NEW x \in Consent, RecordConsent(p, x)
        PROVE  Inv'
    <3>1. x \in Payload /\ "consent" \in ChainNames /\ "consent" # "settlement"
      BY DEF Payload, ChainNames
    <3>2. /\ Sound(db, AppendTx(mem[p], "consent", x))
          /\ AppendTx(mem[p], "consent", x).chain = "consent"
          /\ AppendTx(mem[p], "consent", x).prev = ChainHead(mem[p].chain["consent"])
      BY <3>1, AppendSound
    <3> QED BY <2>4, <3>2, PersistStep DEF RecordConsent
  <2>5. ASSUME NEW p \in Proc, NEW x \in Attestation, Attest(p, x)
        PROVE  Inv'
    <3>1. x \in Payload /\ "attestation" \in ChainNames /\ "attestation" # "settlement"
      BY DEF Payload, ChainNames
    <3>2. /\ Sound(db, AppendTx(mem[p], "attestation", x))
          /\ AppendTx(mem[p], "attestation", x).chain = "attestation"
          /\ AppendTx(mem[p], "attestation", x).prev
               = ChainHead(mem[p].chain["attestation"])
      BY <3>1, AppendSound
    <3> QED BY <2>5, <3>2, PersistStep DEF Attest
  <2>6. ASSUME NEW p \in Proc, Crash(p)
        PROVE  Inv'
    <3>1. \A q \in Proc : MemInv(q)'
      BY <2>6, ForgetKeepsMem DEF Crash
    <3> QED BY <2>6, <3>1 DEF Crash, Inv
  <2>7. CASE UNCHANGED vars
    BY <2>7 DEF vars, Inv, MemInv, SettlementRows, SettlementAt
  <2> QED BY <2>1, <2>2, <2>3, <2>4, <2>5, <2>6, <2>7, StartStep, LateStep DEF Next
<1> QED BY <1>1, <1>2, PTL DEF Spec

-----------------------------------------------------------------------------
(* The type invariant, for any number of processes and any data. *)
THEOREM TypeCorrect == Spec => []TypeOK
<1>1. Inv => TypeOK
  BY DEF Inv, StoreInv, MemInv, Sound, TypeOK
<1> QED BY <1>1, InvHolds, PTL

(* No chain forks: overlapping processes, crashes and transactions in doubt
   always leave chains that GET /v1/verify and the auditor accept. *)
THEOREM ChainsAlwaysVerify == Spec => []ChainsVerify
<1>1. Inv => ChainsVerify
  <2> SUFFICES ASSUME Inv, NEW c \in ChainNames
               PROVE  /\ Verifies(db.chain[c])
                      /\ \A p \in Proc : Verifies(mem[p].chain[c])
    BY DEF ChainsVerify
  <2>1. Verifies(db.chain[c]) /\ db.chain[c] \in Seq(Row)
    BY DEF Inv, StoreInv, StoreType
  <2>2. ASSUME NEW p \in Proc
        PROVE  Verifies(mem[p].chain[c])
    <3> DEFINE s == mem[p].chain[c]
               t == db.chain[c]
    <3>1. s \in Seq(Row) /\ IsPrefixOf(s, t)
      BY DEF Inv, MemInv, StoreType
    <3> HIDE DEF s, t
    <3>2. ASSUME NEW i \in DOMAIN s
          PROVE  /\ i \in DOMAIN t /\ s[i] = t[i]
                 /\ i # 1 => s[i - 1] = t[i - 1]
      BY <2>1, <3>1 DEF IsPrefixOf, t
    <3>3. Verifies(s)
      BY <2>1, <3>2 DEF Verifies, t
    <3> QED BY <3>3 DEF s
  <2> QED BY <2>1, <2>2
<1> QED BY <1>1, InvHolds, PTL

(* Nothing is served that a restart could take back. *)
THEOREM NothingUncommittedServed == Spec => []ServedIsCommitted
<1>1. Inv => ServedIsCommitted
  BY DEF Inv, MemInv, ServedIsCommitted
<1> QED BY <1>1, InvHolds, PTL

(* A match is settled at most once and refunded at most once, on the terms it
   was instructed with, whichever process the requests and retries reach. *)
THEOREM MoneyMovesOnce == Spec => []SettledOnce
<1>1. Inv => SettledOnce
  BY DEF Inv, StoreInv, SettledOnce
<1> QED BY <1>1, InvHolds, PTL

(* A 200 to a refund request, by whichever process and however stale its
   memory, is the answer of the refund that is on the committed chain. *)
THEOREM RefundsAreReplayed == Spec => []RefundReplay
<1>1. Inv => RefundReplay
  <2> SUFFICES ASSUME Inv, NEW p \in Proc, NEW m \in Match, NEW c \in Case,
                      AdjustAnswer(mem[p], m, c) = 200
               PROVE  <<m, c>> \in Refunds(db)
    BY DEF RefundReplay
  <2>1. PICK i \in Previous(mem[p], m, c) :
          mem[p].chain["settlement"][i].payload = Adjustment(m, mem[p].instr[m], c)
    BY DEF AdjustAnswer
  <2> DEFINE s == mem[p].chain["settlement"]
             t == db.chain["settlement"]
  <2>2. i \in DOMAIN s /\ s \in Seq(Row) /\ t \in Seq(Row) /\ IsPrefixOf(s, t)
    BY <2>1 DEF Previous, Inv, MemInv, StoreInv, StoreType, ChainNames
  <2> HIDE DEF s, t
  <2>3. i \in DOMAIN t /\ t[i] = s[i]
    BY <2>2 DEF IsPrefixOf
  <2>4. i \in SettlementRows(db) /\ SettlementAt(db, i) = Adjustment(m, mem[p].instr[m], c)
    BY <2>1, <2>3 DEF SettlementRows, SettlementAt, s, t
  <2> QED BY <2>4 DEF Refunds, Adjustment
<1> QED BY <1>1, InvHolds, PTL

-----------------------------------------------------------------------------
\* Refinement.

LEMMA CommitRefines ==
  ASSUME Inv, NEW tx, Sound(db, tx), Admissible(db, tx), db' = Apply(db, tx)
  PROVE  Promise!Next \/ UNCHANGED Promise!vars
<1>1. StoreType(db) /\ TxType(tx) /\ StoreInv(db)
  BY DEF Inv, StoreInv, Sound
<1>2. CASE tx \in InstructionTxs
  <2>1. /\ db'.chain = db.chain /\ db'.confirmed = db.confirmed
        /\ db'.instr = [db.instr EXCEPT ![tx.match] = tx.terms]
        /\ tx.match \in Match /\ tx.terms \in Terms /\ tx.op = "instruction"
    BY <1>1, <1>2, AppliedInstruction
  <2>2. db.instr[tx.match] = NoTerms
    BY <2>1 DEF Admissible
  <2>3. Refunds(db') = Refunds(db)
    BY <2>1 DEF Refunds, SettlementRows, SettlementAt
  <2>4. Promise!Instruct(tx.match)
    BY <2>1, <2>2, <2>3 DEF Promise!Instruct
  <2> QED BY <2>1, <2>4 DEF Promise!Next
<1>3. CASE tx \in AppendTxs /\ tx.chain # "settlement"
  <2>1. /\ db'.instr = db.instr /\ db'.confirmed = db.confirmed
        /\ db'.chain["settlement"] = db.chain["settlement"]
    BY <1>1, <1>3, AppliedAppend DEF ChainNames
  <2>2. Refunds(db') = Refunds(db)
    BY <2>1 DEF Refunds, SettlementRows, SettlementAt
  <2> QED BY <2>1, <2>2 DEF Promise!vars
<1>4. CASE tx \in AppendTxs /\ tx.chain = "settlement"
  <2> DEFINE chain == db.chain["settlement"]
             row == [prev |-> tx.prev, payload |-> tx.payload]
             n == Len(chain)
             m == tx.payload.match
  <2>1. /\ db'.instr = db.instr /\ row \in Row
        /\ db'.chain["settlement"] = Append(chain, row)
        /\ db'.confirmed = IF tx.payload.kind = "split"
                             THEN db.confirmed \cup {m} ELSE db.confirmed
    BY <1>1, <1>4, AppliedAppend
  <2>2. /\ tx.payload \in SettlementPayload /\ tx.op = "append"
        /\ Justified(db, tx)
    BY <1>1, <1>4 DEF TxType, AppendTxs, Sound
  <2>3. /\ m \in Match /\ tx.payload.terms \in Terms
        /\ tx.payload.kind \in {"split", "adjustment"}
        /\ tx.payload.kind = "adjustment" => tx.payload.case \in Case
    BY <2>2, PayloadShape
  <2>4. /\ db.instr[m] = tx.payload.terms
        /\ tx.payload.kind = "split" => m \notin db.confirmed
        /\ tx.payload.kind = "adjustment" =>
             m \in db.confirmed /\ Previous(db, m, tx.payload.case) = {}
    BY <1>4, <2>2 DEF Justified
  <2>5. chain \in Seq(Row)
    BY <1>1 DEF StoreType, ChainNames
  <2>6. /\ SettlementRows(db) = 1 .. n
        /\ SettlementRows(db') = SettlementRows(db) \cup {n + 1}
        /\ \A i \in SettlementRows(db) : SettlementAt(db', i) = SettlementAt(db, i)
        /\ SettlementAt(db', n + 1) = tx.payload
    BY <2>1, <2>5 DEF SettlementRows, SettlementAt
  <2>7. n \in Nat /\ n + 1 \notin SettlementRows(db)
    BY <2>5, <2>6
  <2> HIDE DEF n
  <2>8. Refunds(db') = Refunds(db) \cup
          {x \in Match \X Case : /\ tx.payload.kind = "adjustment"
                                 /\ x[1] = m /\ x[2] = tx.payload.case}
    BY <2>6 DEF Refunds
  <2>9. CASE tx.payload.kind = "split"
    <3>1. Refunds(db') = Refunds(db)
      BY <2>8, <2>9
    <3>2. Promise!Settle(m)
      BY <2>1, <2>3, <2>4, <2>9, <3>1, NoTermsAssumption DEF Promise!Settle
    <3> QED BY <2>3, <3>2 DEF Promise!Next
  <2>10. CASE tx.payload.kind = "adjustment"
    <3>1. Refunds(db') = Refunds(db) \cup {<<m, tx.payload.case>>}
      BY <2>3, <2>8, <2>10
    <3>2. \A r \in Refunds(db) : r[1] # m /\ r[2] # tx.payload.case
      BY <2>4, <2>10 DEF Refunds, Previous, SettlementRows, SettlementAt
    <3>3. Promise!Refund(m, tx.payload.case)
      BY <2>1, <2>4, <2>10, <3>1, <3>2 DEF Promise!Refund
    <3> QED BY <2>3, <2>10, <3>3 DEF Promise!Next
  <2> QED BY <2>3, <2>9, <2>10
<1> QED BY <1>1, <1>2, <1>3, <1>4 DEF TxType

LEMMA PersistRefines ==
  ASSUME Inv, NEW p \in Proc, NEW tx, Sound(db, tx), Persist(p, tx)
  PROVE  Promise!Next \/ UNCHANGED Promise!vars
<1>1. CASE Store(p, tx)
  BY <1>1, CommitRefines DEF Store
<1>2. CASE Lose(p, tx)
  BY <1>2 DEF Lose, Promise!vars, Refunds, SettlementRows, SettlementAt
<1> QED BY <1>1, <1>2 DEF Persist

(* The service, with all its crashes and retries, implements the abstract
   ledger: instructed once, settled once, refunded once. *)
THEOREM LedgerRefinesSettlement == Spec => KeepsPromise
<1>1. Init => Promise!Init
  BY DEF Init, EmptyStore, Promise!Init, Refunds, SettlementRows, ChainNames
<1>2. Inv /\ [Next]_vars => [Promise!Next]_(Promise!vars)
  <2> SUFFICES ASSUME Inv, [Next]_vars
               PROVE  Promise!Next \/ UNCHANGED Promise!vars
    OBVIOUS
  <2>1. ASSUME NEW p \in Proc, NEW m \in Match, NEW t \in Terms, Instruct(p, m, t)
        PROVE  Promise!Next \/ UNCHANGED Promise!vars
    <3>1. Sound(db, InstructionTx(m, t))
      BY DEF Sound, TxType, Justified, InstructionTxs, InstructionTx
    <3> QED BY <2>1, <3>1, PersistRefines DEF Instruct
  <2>2. ASSUME NEW p \in Proc, NEW m \in Match, Confirm(p, m)
        PROVE  Promise!Next \/ UNCHANGED Promise!vars
    <3> DEFINE x == Splits(m, mem[p].instr[m])
               tx == AppendTx(mem[p], "settlement", x)
    <3>1. status[p] = "serving" /\ ConfirmAnswer(mem[p], m) = 201 /\ Persist(p, tx)
      BY <2>2 DEF Confirm
    <3>2. /\ x \in SettlementPayload /\ x \in Payload /\ "settlement" \in ChainNames
          /\ mem[p].chain["settlement"] = db.chain["settlement"] => Justified(db, tx)
      BY <3>1, ConfirmSound DEF Payload, ChainNames
    <3> HIDE DEF x
    <3> QED BY <3>1, <3>2, AppendSound, PersistRefines
  <2>3. ASSUME NEW p \in Proc, NEW m \in Match, NEW c \in Case, Adjust(p, m, c)
        PROVE  Promise!Next \/ UNCHANGED Promise!vars
    <3> DEFINE x == Adjustment(m, mem[p].instr[m], c)
               tx == AppendTx(mem[p], "settlement", x)
    <3>1. status[p] = "serving" /\ AdjustAnswer(mem[p], m, c) = 201 /\ Persist(p, tx)
      BY <2>3 DEF Adjust
    <3>2. /\ x \in SettlementPayload /\ x \in Payload /\ "settlement" \in ChainNames
          /\ mem[p].chain["settlement"] = db.chain["settlement"] => Justified(db, tx)
      BY <3>1, AdjustSound DEF Payload, ChainNames
    <3> HIDE DEF x
    <3> QED BY <3>1, <3>2, AppendSound, PersistRefines
  <2>4. ASSUME NEW p \in Proc, NEW x \in Consent, RecordConsent(p, x)
        PROVE  Promise!Next \/ UNCHANGED Promise!vars
    <3>1. x \in Payload /\ "consent" \in ChainNames /\ "consent" # "settlement"
      BY DEF Payload, ChainNames
    <3> QED BY <2>4, <3>1, AppendSound, PersistRefines DEF RecordConsent
  <2>5. ASSUME NEW p \in Proc, NEW x \in Attestation, Attest(p, x)
        PROVE  Promise!Next \/ UNCHANGED Promise!vars
    <3>1. x \in Payload /\ "attestation" \in ChainNames /\ "attestation" # "settlement"
      BY DEF Payload, ChainNames
    <3> QED BY <2>5, <3>1, AppendSound, PersistRefines DEF Attest
  <2>6. ASSUME db' = db
        PROVE  UNCHANGED Promise!vars
    BY <2>6 DEF Promise!vars, Refunds, SettlementRows, SettlementAt
  <2>7. ASSUME NEW tx \in late, LateCommit(tx)
        PROVE  Promise!Next \/ UNCHANGED Promise!vars
    BY <2>7, CommitRefines DEF LateCommit, Inv
  <2> QED BY <2>1, <2>2, <2>3, <2>4, <2>5, <2>6, <2>7
          DEF Next, Crash, LoadChains, LoadInstructions, LateAbort, vars
<1> QED BY <1>1, <1>2, InvHolds, PTL DEF Spec, KeepsPromise, Promise!Spec
=============================================================================
