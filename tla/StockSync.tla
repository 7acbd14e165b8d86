----------------------------- MODULE StockSync -----------------------------
(***************************************************************************)
(* The stock of one offer: the partner's connector posts deltas to         *)
(* connect-svc, which passes each to seller-svc while it holds its own     *)
(* lock, and remembers the last one seller-svc took. seller-svc keeps the  *)
(* stock in PostgreSQL, where one upsert decides whether a delta is newer, *)
(* and in memory, which the catalogue is filtered by. A call that          *)
(* connect-svc gave up on may be handled later, and a write in doubt may   *)
(* be settled after the next process has loaded the table.                 *)
(***************************************************************************)
EXTENDS Integers, FiniteSets

CONSTANTS
  Stock,         \* 0 takes the offer off the catalogue
  Timestamp,     \* delta_ts, 0 when the partner sends none
  MaxLateCalls   \* bound: calls and writes in doubt at a time

ASSUME StockAssumption == Stock \subseteq Nat /\ Timestamp \subseteq Nat

VARIABLES
  access,     \* the partner's credential: "none", "granted", "revoked"
  sync,       \* the delta connect-svc is passing on
  recorded,   \* deltas: the last one seller-svc answered 200 for
  row,        \* seller.inventory
  shelf,      \* the stock in seller-svc's memory
  seller,     \* "up" or "down"
  calls,      \* calls given up on, not yet handled
  writes      \* upserts in doubt

stockVars == <<access, sync, recorded, row, shelf, seller, calls, writes>>

-----------------------------------------------------------------------------
Delta == [stock : Stock, ts : Timestamp]

Untracked == [stock |-> -1, ts |-> -1]

NoSync == [pc |-> "none"]

\* Faulty: the last write wins.
TakenAnyway(old, d) == TRUE

\* The upsert's WHERE, or no row yet.
Taken(old, d) == old.ts < d.ts \/ old = d

Room == Cardinality(calls) + Cardinality(writes) < MaxLateCalls

GrantAccess ==
  /\ access' = "granted"
  /\ UNCHANGED <<sync, recorded, row, shelf, seller, calls, writes>>

Revoke ==
  /\ access = "granted"
  /\ access' = "revoked"
  /\ UNCHANGED <<sync, recorded, row, shelf, seller, calls, writes>>

\* POST /v1/sync/inventory: authorize, then the call.
StartSync(d) ==
  /\ access = "granted" /\ sync = NoSync
  /\ sync' = [pc |-> "sent", delta |-> d]
  /\ UNCHANGED <<access, recorded, row, shelf, seller, calls, writes>>

\* POST /v1/offers/inventory: the upsert, then memory; 409 when it changed no
\* row. A process whose upsert is in doubt exits.
Upsert(d) == Taken(row, d) /\ row' = d /\ shelf' = d /\ UNCHANGED <<seller, writes>>

Refuse(d) == ~ Taken(row, d) /\ UNCHANGED <<row, shelf, seller, writes>>

\* The calls it had not handled end with the process.
SellerExits == seller' = "down" /\ shelf' = Untracked /\ calls' = {}

LoseUpsert(d) == Room /\ writes' = writes \cup {d} /\ SellerExits /\ UNCHANGED row

SellerHandles ==
  /\ seller = "up" /\ sync.pc = "sent"
  /\ \/ Upsert(sync.delta) /\ sync' = [sync EXCEPT !.pc = "taken"] /\ UNCHANGED calls
     \/ Refuse(sync.delta) /\ sync' = NoSync /\ UNCHANGED calls
     \/ LoseUpsert(sync.delta) /\ sync' = NoSync
  /\ UNCHANGED <<access, recorded>>

RecordDelta ==
  /\ sync.pc = "taken"
  /\ recorded' = sync.delta
  /\ sync' = NoSync
  /\ UNCHANGED <<access, row, shelf, seller, calls, writes>>

GiveUp == sync.pc = "sent" /\ seller = "up" /\ Room /\ calls' = calls \cup {sync.delta}

\* The call fails for connect-svc: not received, still to be handled, or
\* handled with its answer lost. The partner is answered 503.
AbandonSync ==
  /\ sync # NoSync
  /\ sync' = NoSync
  /\ \/ UNCHANGED calls
     \/ GiveUp
  /\ UNCHANGED <<access, recorded, row, shelf, seller, writes>>

LateCall(d) ==
  /\ seller = "up"
  /\ \/ (Upsert(d) \/ Refuse(d)) /\ calls' = calls \ {d}
     \/ LoseUpsert(d)
  /\ UNCHANGED <<access, sync, recorded>>

LateUpsert(d) ==
  /\ writes' = writes \ {d}
  /\ \/ Taken(row, d) /\ row' = d
     \/ UNCHANGED row
  /\ UNCHANGED <<access, sync, recorded, shelf, seller, calls>>

SellerCrashes ==
  /\ seller = "up"
  /\ SellerExits
  /\ UNCHANGED <<access, sync, recorded, row, writes>>

SellerLoads ==
  /\ seller = "down"
  /\ seller' = "up" /\ shelf' = row
  /\ UNCHANGED <<access, sync, recorded, row, calls, writes>>

\* connect-svc forgets its grants, its deltas and the call it was making.
GatewayRestart ==
  /\ access' = "none" /\ recorded' = Untracked /\ sync' = NoSync
  /\ \/ UNCHANGED calls
     \/ GiveUp
  /\ UNCHANGED <<row, shelf, seller, writes>>

StockInit ==
  /\ access = "none" /\ sync = NoSync /\ recorded = Untracked
  /\ row = Untracked /\ shelf = Untracked /\ seller = "up"
  /\ calls = {} /\ writes = {}

StockNext ==
  \/ GrantAccess \/ Revoke \/ \E d \in Delta : StartSync(d)
  \/ SellerHandles \/ RecordDelta \/ AbandonSync
  \/ \E d \in calls : LateCall(d)
  \/ \E d \in writes : LateUpsert(d)
  \/ SellerCrashes \/ SellerLoads \/ GatewayRestart

StockSpec == StockInit /\ [][StockNext]_stockVars

-----------------------------------------------------------------------------
StockTypeOK ==
  LET Kept == Delta \cup {Untracked}
  IN  /\ access \in {"none", "granted", "revoked"} /\ seller \in {"up", "down"}
      /\ sync \in [pc : {"sent", "taken"}, delta : Delta] \cup {NoSync}
      /\ recorded \in Kept /\ row \in Kept /\ shelf \in Kept
      /\ calls \subseteq Delta /\ writes \subseteq Delta

(* What a partner was told is taken, the catalogue is filtered by, or by
   something newer: an abandoned call that is handled late, an upsert that
   commits late and a restart of seller-svc never bring back stock that a
   recorded delta has replaced ("0 removes it from the matchable catalog",
   seller-svc). *)
CatalogueHonoursDeltas ==
  recorded # Untracked =>
    \A known \in {row} \cup IF seller = "up" THEN {shelf} ELSE {} :
      known.ts > recorded.ts \/ known = recorded
=============================================================================
