------------------------- MODULE SurroundingsProofs -------------------------
(***************************************************************************)
(* Proofs about the five pairs of services of Surroundings, for any        *)
(* orders, stocks, budgets, edges, cases and bounds, each pair by itself,  *)
(* and about their composition.                                            *)
(***************************************************************************)
EXTENDS Surroundings, FiniteSetTheorems, TLAPS

-----------------------------------------------------------------------------
\* Orders and their mirror: whatever seller-svc tells of an order is a state
\* its board has reached.
USE AttemptsAssumption

\* Every event under way is behind the board, and the mirror is but for replays.
BehindBoard ==
  /\ \A x \in senders : Rank(x.event.state) <= Rank(board[x.event.order])
  /\ \A e \in wire : Rank(e.state) <= Rank(board[e.order])
  /\ AheadOnlyByReplay

MirrorInv == MirrorTypeOK /\ BehindBoard

LEMMA RankType == \A s : Rank(s) \in Nat
  BY DEF Rank

\* next_state goes up in the ranks.
LEMMA NextStateRises ==
  ASSUME NEW s \in DOMAIN NextState
  PROVE  NextState[s] \in OrderState /\ Rank(s) <= Rank(NextState[s])
  BY DEF NextState, OrderState, Rank

LEMMA AppliedTypeOK ==
  ASSUME MirrorTypeOK, NEW m \in Order, NEW s \in OrderState, Applied(m, s)
  PROVE  /\ mirror' \in [Order -> OrderState \cup {"none"}]
         /\ delivered' \subseteq Order \X OrderState
  BY DEF MirrorTypeOK, Applied

\* An event that is behind the board, or accounted for as a replay ahead of
\* it, leaves the mirror as it must be.
LEMMA AppliedStaysBehind ==
  ASSUME MirrorInv, NEW m \in Order, NEW s \in OrderState, Applied(m, s),
         Rank(s) <= Rank(board[m]) \/ <<m, s>> \in foretold',
         foretold \subseteq foretold', UNCHANGED board
  PROVE  AheadOnlyByReplay'
<1> SUFFICES ASSUME NEW o \in Order
             PROVE  (Rank(mirror[o]) <= Rank(board[o]) \/ <<o, mirror[o]>> \in foretold)'
  BY DEF AheadOnlyByReplay
<1>1. mirror \in [Order -> OrderState \cup {"none"}]
      /\ (Rank(mirror[o]) <= Rank(board[o]) \/ <<o, mirror[o]>> \in foretold)
  BY DEF MirrorInv, MirrorTypeOK, BehindBoard, AheadOnlyByReplay
<1>2. CASE mirror'[o] = mirror[o]
  BY <1>1, <1>2
<1>3. CASE o = m /\ mirror'[o] = s
  BY <1>3
<1> QED BY <1>1, <1>2, <1>3 DEF Applied

\* A thread that resends keeps its event.
LEMMA ResendKeepsEvents ==
  ASSUME MirrorTypeOK, NEW x \in senders, Resend(x)
  PROVE  /\ senders' \subseteq [event : [order : Order, state : OrderState],
                                left : 1 .. MaxAttempts]
         /\ missed' \subseteq Order \X OrderState
         /\ \A y \in senders' : \E z \in senders : y.event = z.event
<1>1. /\ x.event.order \in Order /\ x.event.state \in OrderState
      /\ x.left \in 1 .. MaxAttempts
  BY DEF MirrorTypeOK
<1>2. CASE x.left > 1
  <2>1. [x EXCEPT !.left = @ - 1]
           \in [event : [order : Order, state : OrderState], left : 1 .. MaxAttempts]
    BY <1>1, <1>2 DEF MirrorTypeOK
  <2>2. [x EXCEPT !.left = @ - 1].event = x.event
    BY DEF MirrorTypeOK
  <2> QED BY <1>2, <2>1, <2>2 DEF Resend, MirrorTypeOK
<1>3. CASE ~ x.left > 1
  BY <1>1, <1>3 DEF Resend, MirrorTypeOK
<1> QED BY <1>2, <1>3

LEMMA AdvanceKeepsInv ==
  ASSUME MirrorInv, NEW m \in Order, Advance(m)
  PROVE  MirrorInv'
<1> DEFINE s == NextState[board[m]]
<1>1. s \in OrderState /\ Rank(board[m]) <= Rank(s)
  BY NextStateRises DEF Advance
<1>2. NewSender(m, s) \in [event : [order : Order, state : OrderState], left : 1 .. MaxAttempts]
  BY <1>1 DEF NewSender, Event
<1>3. /\ \A x \in senders : <<x.event.order, x.event.state>> \in Order \X OrderState
      /\ missed \subseteq Order \X OrderState
  BY DEF MirrorInv, MirrorTypeOK
<1>4. \/ board' = [board EXCEPT ![m] = s]
      \/ board' = board
  BY DEF Advance
<1>5. \A o \in Order : Rank(board[o]) <= Rank(board'[o])
  BY <1>1, <1>4, RankType DEF MirrorInv, MirrorTypeOK
<1>6. \/ senders' = {}
      \/ senders' = senders \cup {NewSender(m, s)} /\ board'[m] = s
  BY DEF Advance, SellerExit, MirrorInv, MirrorTypeOK
<1>7. missed' \subseteq Order \X OrderState
  BY <1>1, <1>3 DEF Advance, SellerExit
<1>8. MirrorTypeOK'
  BY <1>1, <1>2, <1>4, <1>6, <1>7 DEF Advance, MirrorInv, MirrorTypeOK
<1>9. BehindBoard'
  <2>1. \A x \in senders' : Rank(x.event.state) <= Rank(board'[x.event.order])
    BY <1>5, <1>6, RankType DEF MirrorInv, MirrorTypeOK, BehindBoard, NewSender, Event
  <2>2. \A e \in wire : Rank(e.state) <= Rank(board'[e.order])
    BY <1>5, RankType DEF MirrorInv, MirrorTypeOK, BehindBoard
  <2>3. \A o \in Order : Rank(mirror[o]) <= Rank(board'[o]) \/ <<o, mirror[o]>> \in foretold
    BY <1>5, RankType DEF MirrorInv, BehindBoard, AheadOnlyByReplay
  <2> QED BY <2>1, <2>2, <2>3 DEF Advance, BehindBoard, AheadOnlyByReplay
<1> QED BY <1>8, <1>9 DEF MirrorInv

LEMMA AttemptKeepsInv ==
  ASSUME MirrorInv, NEW x \in senders, Attempt(x)
  PROVE  MirrorInv'
<1>1. /\ x.event \in [order : Order, state : OrderState]
      /\ x.event.order \in Order /\ x.event.state \in OrderState
      /\ Rank(x.event.state) <= Rank(board[x.event.order])
      /\ UNCHANGED <<board, foretold>>
  BY DEF MirrorInv, MirrorTypeOK, BehindBoard, Attempt
<1>2. \/ senders' = senders \ {x} /\ missed' = missed
      \/ Resend(x)
  BY DEF Attempt
<1>3. /\ senders' \subseteq [event : [order : Order, state : OrderState],
                             left : 1 .. MaxAttempts]
      /\ missed' \subseteq Order \X OrderState
      /\ \A y \in senders' : \E z \in senders : y.event = z.event
  BY <1>2, ResendKeepsEvents DEF MirrorInv, MirrorTypeOK
<1>4. wire' \subseteq wire \cup {x.event}
  BY DEF Attempt
<1>5. \/ Applied(x.event.order, x.event.state)
      \/ UNCHANGED <<mirror, delivered>>
  BY DEF Attempt
<1>6. MirrorTypeOK'
  BY <1>1, <1>3, <1>4, <1>5, AppliedTypeOK DEF MirrorInv, MirrorTypeOK
<1>7. AheadOnlyByReplay'
  BY <1>1, <1>5, AppliedStaysBehind DEF MirrorInv, BehindBoard, AheadOnlyByReplay
<1>8. BehindBoard'
  BY <1>1, <1>3, <1>4, <1>7 DEF MirrorInv, BehindBoard
<1> QED BY <1>6, <1>8 DEF MirrorInv

LEMMA LateKeepsInv ==
  ASSUME MirrorInv, NEW e \in wire, Late(e)
  PROVE  MirrorInv'
<1>1. /\ e.order \in Order /\ e.state \in OrderState
      /\ Rank(e.state) <= Rank(board[e.order])
  BY DEF MirrorInv, MirrorTypeOK, BehindBoard
<1>2. MirrorTypeOK'
  BY <1>1, AppliedTypeOK DEF Late, MirrorInv, MirrorTypeOK
<1>3. AheadOnlyByReplay'
  BY <1>1, AppliedStaysBehind DEF Late
<1> QED BY <1>2, <1>3 DEF Late, MirrorInv, BehindBoard

LEMMA ReplayKeepsInv ==
  ASSUME MirrorInv, NEW m \in Order, NEW s \in OrderState, Replay(m, s)
  PROVE  MirrorInv'
<1>1. MirrorTypeOK'
  BY AppliedTypeOK DEF Replay, MirrorInv, MirrorTypeOK
<1>2. AheadOnlyByReplay'
  <2>1. Rank(s) <= Rank(board[m]) \/ <<m, s>> \in foretold'
    BY RankType DEF Replay
  <2> QED BY <2>1, AppliedStaysBehind DEF Replay
<1> QED BY <1>1, <1>2 DEF Replay, MirrorInv, BehindBoard

LEMMA RestartsKeepInv ==
  ASSUME MirrorInv, SellerCrash \/ ConnectRestart
  PROVE  MirrorInv'
<1>1. CASE SellerCrash
  BY <1>1 DEF SellerCrash, SellerExit, MirrorInv, MirrorTypeOK, BehindBoard, AheadOnlyByReplay
<1>2. CASE ConnectRestart
  <2>1. \A m \in Order : Rank(mirror'[m]) <= Rank(board[m])
    <3>1. Rank("none") = 0
      BY DEF Rank
    <3> QED BY <1>2, <3>1, RankType DEF ConnectRestart
  <2> QED
    BY <1>2, <2>1 DEF ConnectRestart, MirrorInv, MirrorTypeOK, BehindBoard, AheadOnlyByReplay
<1> QED BY <1>1, <1>2

LEMMA MirrorInvHolds == MirrorSpec => []MirrorInv
<1>1. MirrorInit => MirrorInv
  BY DEF MirrorInit, MirrorInv, MirrorTypeOK, BehindBoard, AheadOnlyByReplay, Rank
<1>2. MirrorInv /\ [MirrorNext]_mirrorVars => MirrorInv'
  <2> SUFFICES ASSUME MirrorInv, [MirrorNext]_mirrorVars
               PROVE  MirrorInv'
    OBVIOUS
  <2>1. CASE UNCHANGED mirrorVars
    BY <2>1 DEF mirrorVars, MirrorInv, MirrorTypeOK, BehindBoard, AheadOnlyByReplay
  <2>2. CASE MirrorNext
    BY <2>2, AdvanceKeepsInv, AttemptKeepsInv, LateKeepsInv, ReplayKeepsInv, RestartsKeepInv
       DEF MirrorNext
  <2> QED BY <2>1, <2>2
<1> QED BY <1>1, <1>2, PTL DEF MirrorSpec

\* The partner's mirror shows what the board has not stored only by a replay
\* that foretold it: the event of a change leaves after its write, and the
\* ranks keep older events out.
THEOREM MirrorAheadOnlyByReplay == MirrorSpec => []AheadOnlyByReplay
<1>1. MirrorInv => AheadOnlyByReplay
  BY DEF MirrorInv, BehindBoard
<1> QED BY <1>1, MirrorInvHolds, PTL


-----------------------------------------------------------------------------
\* Stock: a row is only ever replaced by a newer one, so that it stays at
\* least as new as what has been acknowledged.

AtLeast(known, d) == known.ts > d.ts \/ known = d

\* What seller-svc holds has caught up with delta d.
Honoured(d) == AtLeast(row, d) /\ (seller = "up" => AtLeast(shelf, d))

HonoursInv ==
  /\ recorded # Untracked => Honoured(recorded)
  /\ sync.pc = "taken" => Honoured(sync.delta)

StockInv == StockTypeOK /\ HonoursInv

LEMMA DeltaType ==
  ASSUME NEW d \in Delta \cup {Untracked}
  PROVE  d.ts \in Int
<1>1. CASE d \in Delta
  <2>1. d.ts \in Timestamp
    BY <1>1 DEF Delta
  <2>2. Timestamp \subseteq Int
    BY StockAssumption
  <2> QED BY <2>1, <2>2
<1>2. CASE d = Untracked
  <2>1. d.ts = -1
    BY <1>2 DEF Untracked
  <2> QED BY <2>1
<1> QED BY <1>1, <1>2

\* The upsert's condition only lets a newer delta, or the same, replace the row.
LEMMA TakenIsNewer ==
  ASSUME NEW old \in Delta \cup {Untracked}, NEW d \in Delta, NEW r \in Delta \cup {Untracked},
         Taken(old, d), AtLeast(old, r)
  PROVE  AtLeast(d, r)
  BY DeltaType DEF Taken, AtLeast

\* Whatever becomes of a call, what was honoured before stays so.
LEMMA HandlingHonours ==
  ASSUME StockTypeOK, NEW d \in Delta, NEW r \in Delta \cup {Untracked}, Honoured(r),
         Upsert(d) \/ Refuse(d) \/ LoseUpsert(d)
  PROVE  Honoured(r)'
<1>1. CASE Upsert(d)
  BY <1>1, TakenIsNewer DEF Upsert, Honoured, StockTypeOK, AtLeast
<1>2. CASE Refuse(d)
  BY <1>2 DEF Refuse, Honoured, AtLeast
<1>3. CASE LoseUpsert(d)
  BY <1>3 DEF LoseUpsert, SellerExits, Honoured, AtLeast
<1> QED BY <1>1, <1>2, <1>3

LEMMA HandlingTypeOK ==
  ASSUME StockTypeOK, NEW d \in Delta, Upsert(d) \/ Refuse(d) \/ LoseUpsert(d)
  PROVE  /\ row' \in Delta \cup {Untracked} /\ shelf' \in Delta \cup {Untracked}
         /\ seller' \in {"up", "down"} /\ writes' \subseteq Delta
  BY DEF StockTypeOK, Upsert, Refuse, LoseUpsert, SellerExits

LEMMA SellerHandlesKeepsInv == StockInv /\ SellerHandles => StockInv'
<1> SUFFICES ASSUME StockInv, SellerHandles
             PROVE  StockInv'
  OBVIOUS
<1>1. sync.delta \in Delta /\ recorded \in Delta \cup {Untracked}
  BY DEF StockInv, StockTypeOK, SellerHandles, NoSync
<1>2. Upsert(sync.delta) \/ Refuse(sync.delta) \/ LoseUpsert(sync.delta)
  BY DEF SellerHandles
<1>3. /\ sync' \in [pc : {"sent", "taken"}, delta : Delta] \cup {NoSync}
      /\ calls' \subseteq Delta
  BY <1>1 DEF SellerHandles, StockInv, StockTypeOK, LoseUpsert, SellerExits, NoSync
<1>4. StockTypeOK'
  BY <1>1, <1>2, <1>3, HandlingTypeOK DEF StockInv, StockTypeOK, SellerHandles
<1>5. recorded' # Untracked => Honoured(recorded)'
  BY <1>1, <1>2, HandlingHonours DEF StockInv, HonoursInv, SellerHandles, Honoured, AtLeast
<1>6. sync'.pc = "taken" => Honoured(sync.delta)'
  <2>1. sync \in [pc : {"sent", "taken"}, delta : Delta]
    BY DEF StockInv, StockTypeOK, SellerHandles, NoSync
  <2>2. CASE sync' = NoSync
    BY <2>2 DEF NoSync
  <2>3. CASE Upsert(sync.delta) /\ sync' = [sync EXCEPT !.pc = "taken"]
    <3>1. sync'.delta = sync.delta
      BY <2>1, <2>3
    <3> QED BY <2>3, <3>1 DEF Upsert, Honoured, AtLeast
  <2> QED BY <2>2, <2>3 DEF SellerHandles
<1> QED BY <1>4, <1>5, <1>6 DEF StockInv, HonoursInv

LEMMA LateCallKeepsInv == ASSUME StockInv, NEW d \in calls, LateCall(d) PROVE StockInv'
<1>1. d \in Delta /\ recorded \in Delta \cup {Untracked}
  BY DEF StockInv, StockTypeOK
<1>2. Upsert(d) \/ Refuse(d) \/ LoseUpsert(d)
  BY DEF LateCall
<1>3. calls' \subseteq Delta
  BY DEF LateCall, StockInv, StockTypeOK, LoseUpsert, SellerExits
<1>4. StockTypeOK'
  BY <1>1, <1>2, <1>3, HandlingTypeOK DEF StockInv, StockTypeOK, LateCall
<1>5. recorded' # Untracked => Honoured(recorded)'
  BY <1>1, <1>2, HandlingHonours DEF StockInv, HonoursInv, LateCall, Honoured, AtLeast
<1>6. sync'.pc = "taken" => Honoured(sync.delta)'
  BY <1>1, <1>2, HandlingHonours DEF StockInv, StockTypeOK, HonoursInv, LateCall, NoSync
<1> QED BY <1>4, <1>5, <1>6 DEF StockInv, HonoursInv, LateCall, Honoured, AtLeast

LEMMA LateUpsertKeepsInv == ASSUME StockInv, NEW d \in writes, LateUpsert(d) PROVE StockInv'
<1>1. d \in Delta /\ row \in Delta \cup {Untracked} /\ recorded \in Delta \cup {Untracked}
  BY DEF StockInv, StockTypeOK
<1>2. \/ row' = row
      \/ row' = d /\ Taken(row, d)
  BY DEF LateUpsert
<1>3. ASSUME NEW r \in Delta \cup {Untracked}, Honoured(r)
      PROVE  Honoured(r)'
  BY <1>1, <1>2, <1>3, TakenIsNewer DEF LateUpsert, Honoured, AtLeast
<1>4. StockTypeOK'
  BY <1>1, <1>2 DEF StockInv, StockTypeOK, LateUpsert
<1>5. sync.pc = "taken" => sync.delta \in Delta
  BY DEF StockInv, StockTypeOK, NoSync
<1>6. recorded # Untracked => Honoured(recorded)'
  BY <1>1, <1>3 DEF StockInv, HonoursInv, LateUpsert, Honoured, AtLeast
<1>7. sync.pc = "taken" => Honoured(sync.delta)'
  BY <1>3, <1>5 DEF StockInv, HonoursInv, LateUpsert, Honoured, AtLeast
<1> QED BY <1>4, <1>6, <1>7 DEF StockInv, HonoursInv, LateUpsert, Honoured, AtLeast

LEMMA OthersKeepInv ==
  ASSUME StockInv,
         \/ GrantAccess \/ Revoke \/ \E d \in Delta : StartSync(d)
         \/ RecordDelta \/ AbandonSync
         \/ SellerCrashes \/ SellerLoads \/ GatewayRestart
  PROVE  StockInv'
<1> USE DEF StockInv, StockTypeOK, HonoursInv, Honoured, AtLeast, NoSync
<1>1. CASE GrantAccess
  BY <1>1 DEF GrantAccess
<1>2. CASE Revoke
  BY <1>2 DEF Revoke
<1>3. CASE \E d \in Delta : StartSync(d)
  BY <1>3 DEF StartSync
<1>4. CASE RecordDelta
  BY <1>4 DEF RecordDelta
<1>5. CASE AbandonSync
  BY <1>5 DEF AbandonSync, GiveUp
<1>6. CASE SellerCrashes
  BY <1>6 DEF SellerCrashes, SellerExits
<1>7. CASE SellerLoads
  BY <1>7 DEF SellerLoads
<1>8. CASE GatewayRestart
  BY <1>8 DEF GatewayRestart, GiveUp
<1> QED BY <1>1, <1>2, <1>3, <1>4, <1>5, <1>6, <1>7, <1>8

LEMMA StockInvHolds == StockSpec => []StockInv
<1>1. StockInit => StockInv
  BY DEF StockInit, StockInv, StockTypeOK, HonoursInv, NoSync
<1>2. StockInv /\ [StockNext]_stockVars => StockInv'
  <2> SUFFICES ASSUME StockInv, [StockNext]_stockVars
               PROVE  StockInv'
    OBVIOUS
  <2>1. CASE UNCHANGED stockVars
    BY <2>1 DEF stockVars, StockInv, StockTypeOK, HonoursInv, Honoured, AtLeast
  <2>2. CASE StockNext
    BY <2>2, SellerHandlesKeepsInv, LateCallKeepsInv, LateUpsertKeepsInv, OthersKeepInv
       DEF StockNext
  <2> QED BY <2>1, <2>2
<1> QED BY <1>1, <1>2, PTL DEF StockSpec

\* No late call, late upsert or restart makes seller-svc go back behind a
\* delta that a partner was told is taken.
THEOREM CatalogueNeverGoesBack == StockSpec => []CatalogueHonoursDeltas
<1>1. StockInv => CatalogueHonoursDeltas
  BY DEF StockInv, HonoursInv, Honoured, AtLeast, CatalogueHonoursDeltas
<1> QED BY <1>1, StockInvHolds, PTL

-----------------------------------------------------------------------------
\* The budget: a match is charged at most once, after its credit was
\* instructed.
USE BudgetAssumption

Charged == {b \in Booking : attributions[b] = 1}

\* The booking under way is not closed; past its instruction it is credited.
BookingShape ==
  \/ booking = NoBooking
  \/ /\ booking \in [pc : {"instruct", "order", "attribute"}, match : Booking]
     /\ booking.match \in boosted \ closed
     /\ booking.pc # "instruct" => booking.match \in credited

\* A charge closes its booking for good, and is still owed to no attempt.
ChargesShape ==
  /\ attributions \in [Booking -> {0, 1}]
  /\ closed \subseteq boosted /\ boosted \subseteq Booking /\ credited \subseteq boosted
  /\ attempts \subseteq closed \cap credited
  /\ \A b \in attempts : attributions[b] = 0
  /\ \A b \in Booking : attributions[b] = 1 => b \in closed \cap credited

\* What is spent is counted, one price for each match charged.
SpentShape ==
  /\ spent \in Nat
  /\ IsFiniteSet(Charged)
  /\ spent = Ad * Cardinality(Charged)

AdInv == BookingShape /\ ChargesShape /\ SpentShape

\* Charging a match that is credited, closed and not yet charged.
LEMMA ChargeKeepsSpent ==
  ASSUME ChargesShape, SpentShape, NEW b \in Booking, attributions[b] = 0, Charge(b)
  PROVE  /\ attributions' \in [Booking -> {0, 1}]
         /\ \A d \in Booking : d # b => attributions'[d] = attributions[d]
         /\ SpentShape'
<1>1. CASE UNCHANGED <<spent, attributions>>
  BY <1>1 DEF ChargesShape, SpentShape, Charged
<1>2. CASE spent' = spent + Ad /\ attributions' = [attributions EXCEPT ![b] = @ + 1]
  <2>1. /\ attributions' \in [Booking -> {0, 1}] /\ attributions'[b] = 1
        /\ \A d \in Booking : d # b => attributions'[d] = attributions[d]
    BY <1>2 DEF ChargesShape
  <2>2. Charged' = Charged \cup {b} /\ b \notin Charged
    BY <2>1 DEF Charged
  <2>3. IsFiniteSet(Charged') /\ Cardinality(Charged') = Cardinality(Charged) + 1
    BY <2>2, FS_AddElement DEF SpentShape
  <2>4. Cardinality(Charged) \in Nat
    BY FS_CardinalityType DEF SpentShape
  <2>5. Ad * (Cardinality(Charged) + 1) = Ad * Cardinality(Charged) + Ad
    BY <2>4
  <2>6. spent' \in Nat /\ spent' = Ad * Cardinality(Charged')
    BY <1>2, <2>3, <2>5 DEF SpentShape
  <2> QED BY <2>1, <2>3, <2>6 DEF SpentShape
<1> QED BY <1>1, <1>2 DEF Charge

LEMMA AttributeKeepsInv == AdInv /\ Attribute => AdInv'
<1> SUFFICES ASSUME AdInv, Attribute
             PROVE  AdInv'
  OBVIOUS
<1> DEFINE m == booking.match
<1>1. m \in boosted \ closed /\ m \in credited /\ m \in Booking
  BY DEF AdInv, BookingShape, Attribute, NoBooking
<1>2. attributions[m] = 0 /\ m \notin attempts
  BY <1>1 DEF AdInv, ChargesShape
<1>3. booking' = NoBooking /\ closed' = closed \cup {m} /\ UNCHANGED <<boosted, credited>>
  BY DEF Attribute
<1>4. CASE Charge(m) /\ UNCHANGED attempts
  <2>1. /\ attributions' \in [Booking -> {0, 1}] /\ SpentShape'
        /\ \A d \in Booking : d # m => attributions'[d] = attributions[d]
    BY <1>1, <1>2, <1>4, ChargeKeepsSpent DEF AdInv
  <2> HIDE DEF m
  <2> QED BY <1>1, <1>2, <1>3, <1>4, <2>1 DEF AdInv, ChargesShape, BookingShape
<1>5. CASE attempts' \in {attempts, attempts \cup {m}} /\ UNCHANGED <<spent, attributions>>
  <2> HIDE DEF m
  <2>1. ChargesShape'
    BY <1>1, <1>2, <1>3, <1>5 DEF AdInv, ChargesShape
  <2> QED BY <1>3, <1>5, <2>1 DEF AdInv, BookingShape, SpentShape, Charged
<1> QED BY <1>4, <1>5 DEF Attribute

LEMMA LateAttributionKeepsInv ==
  ASSUME AdInv, NEW b \in attempts, LateAttribution(b)
  PROVE  AdInv'
<1>1. b \in Booking /\ attributions[b] = 0 /\ b \in closed \cap credited
  BY DEF AdInv, ChargesShape
<1>2. /\ attributions' \in [Booking -> {0, 1}] /\ SpentShape'
      /\ \A d \in Booking : d # b => attributions'[d] = attributions[d]
  BY <1>1, ChargeKeepsSpent DEF AdInv, LateAttribution
<1>3. attempts' = attempts \ {b} /\ UNCHANGED <<boosted, closed, booking, credited>>
  BY DEF LateAttribution
<1> QED BY <1>1, <1>2, <1>3 DEF AdInv, ChargesShape, BookingShape

\* The steps of a booking before its attribution, and those of a campaign.
LEMMA BookingKeepsInv ==
  ASSUME AdInv,
         \/ CreateCampaign \/ SubmitAsset \/ Activate
         \/ \E b \in Booking : Boost(b) \/ StartBooking(b)
         \/ InstructCredit \/ OrderBoosted \/ FailBooking
  PROVE  AdInv'
<1>1. UNCHANGED <<spent, attributions, closed, attempts>>
  BY DEF CreateCampaign, SubmitAsset, Activate, Boost, StartBooking, InstructCredit,
         OrderBoosted, FailBooking
<1>2. SpentShape'
  BY <1>1 DEF AdInv, SpentShape, Charged
<1>3. CASE CreateCampaign \/ SubmitAsset \/ Activate
  BY <1>1, <1>2, <1>3 DEF CreateCampaign, SubmitAsset, Activate, AdInv, ChargesShape, BookingShape
<1>4. CASE \E b \in Booking : Boost(b)
  BY <1>1, <1>2, <1>4 DEF Boost, AdInv, ChargesShape, BookingShape
<1>5. CASE \E b \in Booking : StartBooking(b)
  <2>1. PICK b \in Booking : StartBooking(b)
    BY <1>5
  <2>2. BookingShape'
    BY <1>1, <2>1 DEF StartBooking, BookingShape
  <2> QED BY <1>1, <1>2, <2>1, <2>2 DEF StartBooking, AdInv, ChargesShape
<1>6. CASE InstructCredit
  <2>1. booking.match \in boosted \ closed /\ booking.pc = "instruct" /\ booking # NoBooking
    BY <1>6 DEF InstructCredit, AdInv, BookingShape, NoBooking
  <2>2. booking' = NoBooking \/ booking' = [booking EXCEPT !.pc = "order"]
    BY <1>6 DEF InstructCredit
  <2>3. BookingShape'
    BY <1>1, <1>6, <2>1, <2>2 DEF InstructCredit, AdInv, BookingShape
  <2> QED BY <1>1, <1>2, <1>6, <2>1, <2>3 DEF InstructCredit, AdInv, ChargesShape
<1>7. CASE OrderBoosted
  <2>1. BookingShape'
    BY <1>1, <1>7 DEF OrderBoosted, AdInv, BookingShape, NoBooking
  <2> QED BY <1>1, <1>2, <1>7, <2>1 DEF OrderBoosted, AdInv, ChargesShape
<1>8. CASE FailBooking
  BY <1>1, <1>2, <1>8 DEF FailBooking, AdInv, ChargesShape, BookingShape
<1> QED BY <1>3, <1>4, <1>5, <1>6, <1>7, <1>8

LEMMA AdRestartsKeepInv ==
  ASSUME AdInv, AdsRestart \/ CoordinatorRestart
  PROVE  AdInv'
<1>1. CASE AdsRestart
  <2>1. Charged' = {} /\ attributions' \in [Booking -> {0, 1}]
    BY <1>1 DEF AdsRestart, Charged
  <2>2. SpentShape'
    BY <1>1, <2>1, FS_EmptySet DEF AdsRestart, SpentShape
  <2> QED BY <1>1, <2>1, <2>2 DEF AdsRestart, AdInv, ChargesShape, BookingShape
<1>2. CASE CoordinatorRestart
  <2>1. attempts' \subseteq boosted \cap credited /\ \A b \in attempts' : attributions[b] = 0
    BY <1>2 DEF CoordinatorRestart, AdInv, ChargesShape, BookingShape, NoBooking
  <2> QED BY <1>2, <2>1
          DEF CoordinatorRestart, AdInv, ChargesShape, BookingShape, SpentShape, Charged
<1> QED BY <1>1, <1>2

LEMMA AdInvHolds == AdSpec => []AdInv
<1>1. AdInit => AdInv
  <2> SUFFICES ASSUME AdInit
               PROVE  AdInv
    OBVIOUS
  <2>1. Charged = {} /\ attributions \in [Booking -> {0, 1}]
    BY DEF AdInit, Charged
  <2> QED BY <2>1, FS_EmptySet DEF AdInit, AdInv, ChargesShape, BookingShape, SpentShape
<1>2. AdInv /\ [AdNext]_adVars => AdInv'
  <2> SUFFICES ASSUME AdInv, [AdNext]_adVars
               PROVE  AdInv'
    OBVIOUS
  <2>1. CASE UNCHANGED adVars
    BY <2>1 DEF adVars, AdInv, ChargesShape, BookingShape, SpentShape, Charged
  <2>2. CASE AdNext
    BY <2>2, AttributeKeepsInv, LateAttributionKeepsInv, BookingKeepsInv, AdRestartsKeepInv DEF AdNext
  <2> QED BY <2>1, <2>2
<1> QED BY <1>1, <1>2, PTL DEF AdSpec

\* However bookings fail, are made again or are attributed late, and whichever
\* service restarts, the advertiser pays once for a match, and only for one
\* whose credit was instructed at the ledger.
THEOREM AdvertiserChargedOnce == AdSpec => []ChargedOnce
<1>1. AdInv => ChargedOnce
  BY DEF AdInv, ChargesShape, SpentShape, Charged, ChargedOnce
<1> QED BY <1>1, AdInvHolds, PTL

\* Every charge is checked against the budget it adds to.
THEOREM AdTypeCorrect == AdSpec => []AdTypeOK
<1> DEFINE Campaign ==
      campaign \in {"none", "draft", "active"} /\ asset \in BOOLEAN /\ spent \in 0 .. Budget
<1>1. AdInit => Campaign
  <2>1. AdInit => asset \in BOOLEAN
    BY Zenon DEF AdInit
  <2> QED BY <2>1 DEF AdInit
<1>2. AdInv /\ Campaign /\ [AdNext]_adVars => Campaign'
  <2> SUFFICES ASSUME AdInv, Campaign, [AdNext]_adVars
               PROVE  Campaign'
    OBVIOUS
  <2>1. \A b : Charge(b) => spent' \in 0 .. Budget
    BY DEF Charge
  <2>2. CASE UNCHANGED adVars
    BY <2>2 DEF adVars
  <2>3. CASE Attribute \/ \E b \in attempts : LateAttribution(b)
    BY <2>1, <2>3 DEF Attribute, LateAttribution
  <2>4. CASE InstructCredit \/ OrderBoosted \/ FailBooking \/ CoordinatorRestart
             \/ \E b \in Booking : Boost(b) \/ StartBooking(b)
    BY <2>4 DEF InstructCredit, OrderBoosted, FailBooking, CoordinatorRestart, Boost, StartBooking
  <2>5. CASE CreateCampaign \/ SubmitAsset \/ Activate \/ AdsRestart
    <3>1. asset' \in BOOLEAN
      BY <2>5, Zenon DEF CreateCampaign, SubmitAsset, Activate, AdsRestart
    <3> QED BY <2>5, <3>1 DEF CreateCampaign, SubmitAsset, Activate, AdsRestart
  <2> QED BY <2>2, <2>3, <2>4, <2>5 DEF AdNext
<1>3. AdInv /\ Campaign => AdTypeOK
  BY DEF AdInv, ChargesShape, BookingShape, NoBooking, AdTypeOK
<1> HIDE DEF Campaign
<1> QED BY <1>1, <1>2, <1>3, AdInvHolds, PTL DEF AdSpec


-----------------------------------------------------------------------------
\* Leases and policies.
USE TimeAssumption

\* How old a registration can be at each point of the loop that renews it: as
\* long as its POSTs and sleeps since have taken.
AgeBound(e) ==
  /\ phase[e] \in {"posting", "registered", "sleeping"}
  /\ phase[e] = "registered" => lost[e] = 0 /\ age[e] <= waited[e]
  /\ phase[e] = "sleeping" =>
       /\ lost[e] = 0 => age[e] <= waited[e] + timer[e]
       /\ lost[e] = 1 => age[e] <= waited[e] + Renewal + timer[e]
  /\ phase[e] = "posting" =>
       /\ lost[e] = 0 => age[e] <= waited[e] + Renewal
       /\ lost[e] = 1 => age[e] <= waited[e] + 2 * Renewal

AgesBounded == \A e \in enrolled : AgeBound(e)

\* No loop sleeps longer than it may.
SleepsBounded == \A e \in Edge : phase[e] = "sleeping" => timer[e] <= Renewal

LeaseInv == LeaseTypeOK /\ SleepsBounded /\ AgesBounded

\* What a serving process places by follows the table, and the table follows
\* the last acknowledgement up to what was in doubt.
PolicyInv ==
  /\ doubts \subseteq doubted
  /\ acked # NoPolicy => stored \in {acked} \cup doubted
  /\ PolicyHolds

LEMMA LeaseInitTypeOK == LeaseInit => LeaseTypeOK
  BY DEF LeaseInit, LeaseTypeOK

\* The edge's own steps.
LEMMA EdgeTypeOK ==
  ASSUME LeaseTypeOK, NEW e \in Edge, EdgeStep(e)
  PROVE  LeaseTypeOK'
<1>1. CASE EdgeStarts(e)
  BY <1>1 DEF LeaseTypeOK, EdgeStarts, Phase, policyVars
<1>2. CASE EdgeStops(e)
  BY <1>2 DEF LeaseTypeOK, EdgeStops, Phase, policyVars
<1>3. CASE StartPost(e)
  BY <1>3 DEF LeaseTypeOK, StartPost, Phase, policyVars
<1>4. CASE Register(e)
  BY <1>4 DEF LeaseTypeOK, Register, policyVars
<1>5. CASE EndPost(e)
  BY <1>5 DEF LeaseTypeOK, EndPost, Phase, policyVars
<1>6. CASE FailPost(e)
  BY <1>6 DEF LeaseTypeOK, FailPost, Phase, policyVars
<1> QED BY <1>1, <1>2, <1>3, <1>4, <1>5, <1>6 DEF EdgeStep

LEMMA LeaseNextTypeOK ==
  ASSUME LeaseTypeOK, [LeaseNext]_leaseVars
  PROVE  LeaseTypeOK'
<1>1. CASE \E e \in Edge : EdgeStep(e)
  BY <1>1, EdgeTypeOK
<1>2. CASE \E e \in belated : BelatedPost(e)
  BY <1>2 DEF LeaseTypeOK, BelatedPost, policyVars
<1>3. CASE Tick
  <2>1. \A e \in Edge : age'[e] \in 0 .. Lease /\ waited'[e] \in 0 .. Lease
    BY <1>3 DEF LeaseTypeOK, Tick, Upto
  <2> QED BY <1>3, <2>1 DEF LeaseTypeOK, Tick, policyVars
<1>4. CASE \E p \in Policy : SetPolicy(p)
  BY <1>4 DEF LeaseTypeOK, SetPolicy, ResourceExits, edgeVars
<1>5. CASE \E p \in doubts : LatePolicy(p)
  BY <1>5 DEF LeaseTypeOK, LatePolicy, edgeVars
<1>6. CASE ResourceCrashes
  BY <1>6 DEF LeaseTypeOK, ResourceCrashes, ResourceExits
<1>7. CASE ResourceStarts
  BY <1>7 DEF LeaseTypeOK, ResourceStarts, edgeVars
<1>8. CASE UNCHANGED leaseVars
  BY <1>8 DEF LeaseTypeOK, leaseVars, edgeVars, policyVars
<1> QED
  BY <1>1, <1>2, <1>3, <1>4, <1>5, <1>6, <1>7, <1>8 DEF LeaseNext

\* Type correctness of the loop that renews leases and of the policy store.
THEOREM LeaseTypeCorrect == LeaseSpec => []LeaseTypeOK
<1>1. LeaseTypeOK /\ [LeaseNext]_leaseVars => LeaseTypeOK'
  BY LeaseNextTypeOK
<1> QED BY LeaseInitTypeOK, <1>1, PTL DEF LeaseSpec

LEMMA NextKeepsSleeps ==
  ASSUME LeaseTypeOK, SleepsBounded, [LeaseNext]_leaseVars
  PROVE  SleepsBounded'
<1> USE DEF LeaseTypeOK, SleepsBounded
<1>1. CASE \E e \in Edge : EdgeStep(e)
  BY <1>1 DEF EdgeStep, EdgeStarts, EdgeStops, StartPost, Register, EndPost, FailPost, Phase
<1>2. CASE \E e \in belated : BelatedPost(e)
  BY <1>2 DEF BelatedPost
<1>3. CASE Tick
  BY <1>3 DEF Tick, Awake
<1>4. CASE \E p \in Policy : SetPolicy(p)
  BY <1>4 DEF SetPolicy, edgeVars
<1>5. CASE \E p \in doubts : LatePolicy(p)
  BY <1>5 DEF LatePolicy, edgeVars
<1>6. CASE ResourceCrashes
  BY <1>6 DEF ResourceCrashes
<1>7. CASE ResourceStarts
  BY <1>7 DEF ResourceStarts, edgeVars
<1>8. CASE UNCHANGED leaseVars
  BY <1>8 DEF leaseVars, edgeVars
<1> QED
  BY <1>1, <1>2, <1>3, <1>4, <1>5, <1>6, <1>7, <1>8 DEF LeaseNext

\* One step of one edge leaves the ages of the others alone.
LEMMA EdgeKeepsAges ==
  ASSUME LeaseInv, NEW e \in Edge, EdgeStep(e)
  PROVE  AgesBounded'
<1> SUFFICES ASSUME NEW f \in enrolled'
             PROVE  AgeBound(f)'
  BY DEF AgesBounded
<1> USE DEF LeaseInv, LeaseTypeOK, SleepsBounded
<1>1. CASE EdgeStarts(e)
  BY <1>1 DEF EdgeStarts, Phase, AgesBounded, AgeBound
<1>2. CASE EdgeStops(e)
  BY <1>2 DEF EdgeStops, Phase, AgesBounded, AgeBound
<1>3. CASE StartPost(e)
  BY <1>3 DEF StartPost, Phase, AgesBounded, AgeBound
<1>4. CASE Register(e)
  BY <1>4 DEF Register, AgesBounded, AgeBound
<1>5. CASE EndPost(e)
  BY <1>5 DEF EndPost, Phase, AgesBounded, AgeBound
<1>6. CASE FailPost(e)
  BY <1>6 DEF FailPost, Phase, AgesBounded, AgeBound
<1> QED BY <1>1, <1>2, <1>3, <1>4, <1>5, <1>6 DEF EdgeStep

\* Time passes only while no loop is due to move on.
LEMMA TickKeepsAges ==
  ASSUME LeaseInv, Tick
  PROVE  AgesBounded'
<1> SUFFICES ASSUME NEW f \in enrolled
             PROVE  AgeBound(f)'
  BY DEF AgesBounded, Tick
<1>1. f \in Edge /\ AgeBound(f)
  BY DEF LeaseInv, LeaseTypeOK, AgesBounded
<1>2. /\ phase[f] \in {"posting", "registered", "sleeping"}
      /\ timer[f] \in Nat /\ age[f] \in 0 .. Lease /\ lost[f] \in 0 .. 2
      /\ waited[f] \in 0 .. Lease
  BY <1>1 DEF LeaseInv, LeaseTypeOK, AgeBound
<1>3. /\ phase'[f] = phase[f] /\ lost'[f] = lost[f]
      /\ timer'[f] = timer[f] + 1 /\ age'[f] = Upto(age[f] + 1, Lease)
      /\ waited'[f] = IF InPost(f) THEN Upto(waited[f] + 1, Lease) ELSE waited[f]
  BY <1>1, <1>2 DEF Tick, LeaseInv, LeaseTypeOK
<1>4. CASE phase[f] = "registered"
  BY <1>1, <1>2, <1>3, <1>4 DEF AgeBound, InPost, Upto
<1>5. CASE phase[f] = "sleeping"
  BY <1>1, <1>2, <1>3, <1>5 DEF AgeBound, InPost, Upto
<1>6. CASE phase[f] = "posting"
  BY <1>1, <1>2, <1>3, <1>6 DEF AgeBound, InPost, Upto
<1> QED BY <1>2, <1>4, <1>5, <1>6

LEMMA NextKeepsAges ==
  ASSUME LeaseInv, [LeaseNext]_leaseVars
  PROVE  AgesBounded'
<1>1. CASE \E e \in Edge : EdgeStep(e)
  BY <1>1, EdgeKeepsAges
<1>2. CASE \E e \in belated : BelatedPost(e)
  BY <1>2 DEF LeaseInv, LeaseTypeOK, AgesBounded, AgeBound, BelatedPost
<1>3. CASE Tick
  BY <1>3, TickKeepsAges
<1>4. CASE \E p \in Policy : SetPolicy(p)
  BY <1>4 DEF LeaseInv, AgesBounded, AgeBound, SetPolicy, ResourceExits, edgeVars
<1>5. CASE \E p \in doubts : LatePolicy(p)
  BY <1>5 DEF LeaseInv, AgesBounded, AgeBound, LatePolicy, edgeVars
<1>6. CASE ResourceCrashes
  BY <1>6 DEF AgesBounded, ResourceCrashes, ResourceExits
<1>7. CASE ResourceStarts
  BY <1>7 DEF LeaseInv, AgesBounded, AgeBound, ResourceStarts, edgeVars
<1>8. CASE UNCHANGED leaseVars
  BY <1>8 DEF LeaseInv, AgesBounded, AgeBound, leaseVars, edgeVars
<1> QED
  BY <1>1, <1>2, <1>3, <1>4, <1>5, <1>6, <1>7, <1>8 DEF LeaseNext

LEMMA BoundedAgesSurvive == LeaseInv => OneLossIsSurvived
<1> SUFFICES ASSUME LeaseInv, NEW e \in enrolled, lost[e] <= 1,
                    waited[e] + (lost[e] + 1) * Renewal < Lease
             PROVE  e \in Candidates(NoPolicy)
  BY DEF OneLossIsSurvived
<1>1. /\ e \in Edge /\ AgeBound(e)
      /\ timer[e] \in Nat /\ age[e] \in Nat /\ lost[e] \in {0, 1} /\ waited[e] \in Nat
      /\ phase[e] = "sleeping" => timer[e] <= Renewal
  BY DEF LeaseInv, LeaseTypeOK, AgesBounded, SleepsBounded
<1>2. CASE lost[e] = 0
  BY <1>1, <1>2 DEF AgeBound, Candidates
<1>3. CASE lost[e] = 1
  BY <1>1, <1>3 DEF AgeBound, Candidates
<1> QED BY <1>1, <1>2, <1>3

\* However long POSTs take, one that is lost does not take an edge off the
\* candidates as long as its POSTs have not used up the lease beside the
\* sleeps: what is left of the claim of slice-runtime's comment.
THEOREM OneLossSurvived == LeaseSpec => []OneLossIsSurvived
<1>1. LeaseInit => LeaseInv
  BY LeaseInitTypeOK DEF LeaseInit, LeaseInv, AgesBounded, SleepsBounded
<1>2. LeaseInv /\ [LeaseNext]_leaseVars => LeaseInv'
  BY LeaseNextTypeOK, NextKeepsSleeps, NextKeepsAges DEF LeaseInv
<1> QED BY <1>1, <1>2, BoundedAgesSurvive, PTL DEF LeaseSpec

LEMMA NextKeepsPolicy ==
  ASSUME PolicyInv, [LeaseNext]_leaseVars
  PROVE  PolicyInv'
<1> USE DEF PolicyInv, PolicyHolds
<1>1. CASE \E e \in Edge : EdgeStep(e)
  BY <1>1 DEF EdgeStep, EdgeStarts, EdgeStops, StartPost, Register, EndPost, FailPost, policyVars
<1>2. CASE \E e \in belated : BelatedPost(e)
  BY <1>2 DEF BelatedPost, policyVars
<1>3. CASE Tick
  BY <1>3 DEF Tick, policyVars
<1>4. CASE \E p \in Policy : SetPolicy(p)
  BY <1>4 DEF SetPolicy, ResourceExits
<1>5. CASE \E p \in doubts : LatePolicy(p)
  BY <1>5 DEF LatePolicy
<1>6. CASE ResourceCrashes
  BY <1>6 DEF ResourceCrashes, ResourceExits
<1>7. CASE ResourceStarts
  BY <1>7 DEF ResourceStarts
<1>8. CASE UNCHANGED leaseVars
  BY <1>8 DEF leaseVars, policyVars
<1> QED
  BY <1>1, <1>2, <1>3, <1>4, <1>5, <1>6, <1>7, <1>8 DEF LeaseNext

\* No crash, restart or late upsert makes a jurisdiction fail open.
THEOREM PolicyNeverLost == LeaseSpec => []PolicyHolds
<1>1. LeaseInit => PolicyInv
  BY DEF LeaseInit, PolicyInv, PolicyHolds
<1>2. PolicyInv /\ [LeaseNext]_leaseVars => PolicyInv'
  BY NextKeepsPolicy
<1>3. PolicyInv => PolicyHolds
  BY DEF PolicyInv
<1> QED BY <1>1, <1>2, <1>3, PTL DEF LeaseSpec


-----------------------------------------------------------------------------
\* Disclosures: what is delivered, and what was delivered to a case, is a
\* grant the consent chain holds.
USE DeskAssumption

\* Grants precede their deliveries, and cases hold nothing else.
GrantsFirst ==
  /\ delivery = NoDelivery \/ delivery \in grants
  /\ deliveries \subseteq grants
  /\ \A c \in DOMAIN cases : \A a \in cases[c].artifact : Grant(c, a, cases[c].expiry) \in grants

DeskInv == DeskTypeOK /\ GrantsFirst

CaseType ==
  [stage : {"opened", "disclosure-requested", "disclosed", "resolved"},
   artifact : SUBSET Artifact, expiry : 0 .. MaxClock]

LEMMA DiscloseKeepsCases ==
  ASSUME DeskInv, NEW g \in grants, Disclose(g), UNCHANGED grants
  PROVE  /\ cases' \in Seq(CaseType)
         /\ \A c \in DOMAIN cases' : \A a \in cases'[c].artifact :
              Grant(c, a, cases'[c].expiry) \in grants
<1>1. g \in GrantType /\ cases \in Seq(CaseType)
  BY DEF DeskInv, DeskTypeOK, CaseType
<1>2. g = Grant(g.case, g.artifact, g.expiry)
  BY <1>1 DEF Grant, GrantType
<1>3. CASE g.case \notin DOMAIN cases
  BY <1>1, <1>3 DEF Disclose, DeskInv, GrantsFirst
<1>4. CASE g.case \in DOMAIN cases
  <2> DEFINE new == [stage |-> "disclosed", artifact |-> {g.artifact}, expiry |-> g.expiry]
  <2>1. cases' = [cases EXCEPT ![g.case] = new]
    BY <1>4 DEF Disclose
  <2>2. new \in CaseType
    BY <1>1 DEF CaseType, GrantType
  <2>3. cases' \in Seq(CaseType) /\ DOMAIN cases' = DOMAIN cases
    BY <1>1, <1>4, <2>1, <2>2
  <2>4. ASSUME NEW c \in DOMAIN cases', NEW a \in cases'[c].artifact
        PROVE  Grant(c, a, cases'[c].expiry) \in grants
    <3>1. CASE c = g.case
      <4>1. cases'[c] = new
        BY <1>4, <2>1, <3>1
      <4>2. a = g.artifact /\ cases'[c].expiry = g.expiry
        BY <2>4, <4>1
      <4> QED BY <1>2, <3>1, <4>2
    <3>2. CASE c # g.case
      BY <2>1, <2>3, <2>4, <3>2 DEF DeskInv, GrantsFirst
    <3> QED BY <3>1, <3>2
  <2> QED BY <2>3, <2>4
<1> QED BY <1>3, <1>4

LEMMA OpenCaseKeepsInv == DeskInv /\ OpenCase => DeskInv'
<1> SUFFICES ASSUME DeskInv, OpenCase
             PROVE  DeskInv'
  OBVIOUS
<1>1. cases \in Seq(CaseType) /\ NewCase \in CaseType
  BY DEF DeskInv, DeskTypeOK, NewCase, CaseType
<1>2. /\ cases' \in Seq(CaseType)
      /\ DOMAIN cases' = DOMAIN cases \cup {Len(cases) + 1}
      /\ \A c \in DOMAIN cases : cases'[c] = cases[c]
      /\ cases'[Len(cases) + 1] = NewCase
  BY <1>1 DEF OpenCase
<1>3. NewCase.artifact = {}
  BY DEF NewCase
<1>4. \A c \in DOMAIN cases' : \A a \in cases'[c].artifact :
        Grant(c, a, cases'[c].expiry) \in grants
  BY <1>2, <1>3 DEF DeskInv, GrantsFirst
<1> QED BY <1>2, <1>4 DEF OpenCase, DeskInv, DeskTypeOK, GrantsFirst, CaseType

\* A change of stage leaves the artifact and its expiry.
LEMMA StageKeepsInv ==
  ASSUME DeskInv, NEW c \in DOMAIN cases, RequestDisclosure(c) \/ Resolve(c)
  PROVE  DeskInv'
<1>1. cases \in Seq(CaseType)
  BY DEF DeskInv, DeskTypeOK, CaseType
<1>2. PICK st \in {"disclosure-requested", "resolved"} : cases' = [cases EXCEPT ![c].stage = st]
  BY DEF RequestDisclosure, Resolve
<1>3. cases[c] \in CaseType
  BY <1>1
<1> DEFINE new == [cases[c] EXCEPT !.stage = st]
<1>4. /\ new \in CaseType
      /\ new.artifact = cases[c].artifact /\ new.expiry = cases[c].expiry
  BY <1>3 DEF CaseType
<1>5. /\ cases' \in Seq(CaseType) /\ DOMAIN cases' = DOMAIN cases
      /\ \A d \in DOMAIN cases :
           cases'[d].artifact = cases[d].artifact /\ cases'[d].expiry = cases[d].expiry
  <2>1. cases' = [cases EXCEPT ![c] = new]
    BY <1>2
  <2> HIDE DEF new
  <2>2. cases' \in Seq(CaseType) /\ DOMAIN cases' = DOMAIN cases
    BY <1>1, <1>4, <2>1
  <2>3. ASSUME NEW d \in DOMAIN cases
        PROVE  cases'[d].artifact = cases[d].artifact /\ cases'[d].expiry = cases[d].expiry
    <3>1. CASE d = c
      <4>1. cases'[d] = new
        BY <2>1, <3>1, <1>1
      <4> QED BY <1>4, <3>1, <4>1
    <3>2. CASE d # c
      <4>1. cases'[d] = cases[d]
        BY <2>1, <3>2, <1>1
      <4> QED BY <4>1
    <3> QED BY <3>1, <3>2
  <2> QED BY <2>2, <2>3
<1>6. UNCHANGED <<clock, grants, delivery, deliveries>>
  BY DEF RequestDisclosure, Resolve
<1> QED BY <1>5, <1>6 DEF DeskInv, DeskTypeOK, GrantsFirst, CaseType

LEMMA GrantKeepsInv ==
  ASSUME DeskInv, NEW c \in 1 .. MaxCases, NEW a \in Artifact, NEW ttl \in 1 .. MaxTtl,
         GrantArtifact(c, a, ttl)
  PROVE  DeskInv'
<1>1. Grant(c, a, clock + ttl) \in GrantType
  BY DEF GrantArtifact, Grant, GrantType, DeskInv, DeskTypeOK
<1> QED BY <1>1 DEF GrantArtifact, DeskInv, DeskTypeOK, GrantsFirst

LEMMA DeliveriesKeepInv ==
  ASSUME DeskInv, DeliverGrant \/ \E g \in deliveries : LateDelivery(g)
  PROVE  DeskInv'
<1>1. CASE DeliverGrant
  <2>1. delivery \in grants /\ UNCHANGED <<clock, grants>> /\ delivery' = NoDelivery
    BY <1>1 DEF DeliverGrant, DeskInv, GrantsFirst
  <2>2. CASE Disclose(delivery) /\ UNCHANGED deliveries
    BY <2>1, <2>2, DiscloseKeepsCases DEF DeskInv, DeskTypeOK, GrantsFirst, CaseType
  <2>3. CASE UNCHANGED cases /\ deliveries' \subseteq deliveries \cup {delivery}
    BY <2>1, <2>3 DEF DeskInv, DeskTypeOK, GrantsFirst
  <2> QED BY <1>1, <2>2, <2>3 DEF DeliverGrant
<1>2. CASE \E g \in deliveries : LateDelivery(g)
  <2>1. PICK g \in deliveries : LateDelivery(g)
    BY <1>2
  <2>2. g \in grants /\ UNCHANGED <<clock, grants, delivery>> /\ deliveries' \subseteq deliveries
    BY <2>1 DEF LateDelivery, DeskInv, GrantsFirst
  <2> QED
    BY <2>1, <2>2, DiscloseKeepsCases DEF LateDelivery, DeskInv, DeskTypeOK, GrantsFirst, CaseType
<1> QED BY <1>1, <1>2

LEMMA DeskInvHolds == DeskSpec => []DeskInv
<1>1. DeskInit => DeskInv
  BY DEF DeskInit, DeskInv, DeskTypeOK, GrantsFirst
<1>2. DeskInv /\ [DeskNext]_deskVars => DeskInv'
  <2> SUFFICES ASSUME DeskInv, [DeskNext]_deskVars
               PROVE  DeskInv'
    OBVIOUS
  <2>1. CASE UNCHANGED deskVars
    BY <2>1 DEF deskVars, DeskInv, DeskTypeOK, GrantsFirst
  <2>2. CASE DeskRestart
    BY <2>2 DEF DeskRestart, DeskInv, DeskTypeOK, GrantsFirst
  <2>3. CASE ClockTick
    BY <2>3 DEF ClockTick, DeskInv, DeskTypeOK, GrantsFirst
  <2>4. CASE DeskNext
    BY <2>2, <2>3, <2>4, OpenCaseKeepsInv, StageKeepsInv, GrantKeepsInv, DeliveriesKeepInv
       DEF DeskNext
  <2> QED BY <2>1, <2>4
<1> QED BY <1>1, <1>2, PTL DEF DeskSpec

\* However its deliveries are delayed or reordered, the agent reads nothing
\* the consent chain holds no running grant for.
THEOREM OnlyGrantedIsRead == DeskSpec => []DisclosedIsGranted
<1>1. DeskInv => DisclosedIsGranted
  <2> SUFFICES ASSUME DeskInv, NEW c \in DOMAIN cases, NEW a \in Readable(c)
               PROVE  \E g \in grants : g.case = c /\ g.artifact = a /\ clock < g.expiry
    BY DEF DisclosedIsGranted
  <2>1. clock < cases[c].expiry /\ a \in cases[c].artifact
    BY DEF Readable
  <2>2. Grant(c, a, cases[c].expiry) \in grants
    BY <2>1 DEF DeskInv, GrantsFirst
  <2> QED BY <2>1, <2>2 DEF Grant
<1> QED BY <1>1, DeskInvHolds, PTL

-----------------------------------------------------------------------------
\* The composition: its every step is a step or a stutter of each pair.
LEMMA PairsStep ==
  ASSUME [Next]_<<focus, mirrorVars, stockVars, adVars, leaseVars, deskVars>>
  PROVE  /\ [MirrorNext]_mirrorVars /\ [StockNext]_stockVars /\ [AdNext]_adVars
         /\ [LeaseNext]_leaseVars /\ [DeskNext]_deskVars
BY DEF Next

\* Nothing a pair promises is lost by running it beside the others.
LEMMA PairsRun == Spec => MirrorSpec /\ StockSpec /\ AdSpec /\ LeaseSpec /\ DeskSpec
<1>1. Init => MirrorInit /\ StockInit /\ AdInit /\ LeaseInit /\ DeskInit
  BY DEF Init
<1> QED BY <1>1, PairsStep, PTL DEF Spec, MirrorSpec, StockSpec, AdSpec, LeaseSpec, DeskSpec

\* Types of everything the ten halves of the five pairs keep.
THEOREM SurroundingsTypeCorrect == Spec => []TypeOK
<1>1. MirrorInv /\ StockInv /\ AdTypeOK /\ LeaseTypeOK /\ DeskInv => TypeOK
  BY DEF TypeOK, MirrorInv, StockInv, DeskInv
<1> QED BY <1>1, PairsRun, MirrorInvHolds, StockInvHolds, AdTypeCorrect, LeaseTypeCorrect,
           DeskInvHolds, PTL

\* All that is proved of the pairs holds of the services together: no event,
\* delta, charge, renewal or disclosure of one pair can disturb another.
THEOREM SurroundingsKeepPromises ==
  Spec => /\ []AheadOnlyByReplay /\ []CatalogueHonoursDeltas /\ []ChargedOnce
          /\ []OneLossIsSurvived /\ []PolicyHolds /\ []DisclosedIsGranted
BY PairsRun, MirrorAheadOnlyByReplay, CatalogueNeverGoesBack, AdvertiserChargedOnce, OneLossSurvived,
   PolicyNeverLost, OnlyGrantedIsRead, PTL
=============================================================================
