---------------------------- MODULE OrderMirror ----------------------------
(***************************************************************************)
(* The order board of seller-svc and its mirror in connect-svc. Every      *)
(* change of an order is stored, then told to connect-svc by a thread of   *)
(* its own, which resends the event a few times and then drops it. The     *)
(* threads of one order race, an answer may be lost after the event was    *)
(* applied, and a send given up on may still be handled later. connect-svc *)
(* keeps the mirror in memory; seller-svc keeps the board in PostgreSQL    *)
(* and its threads in the process, which ends when a write is in doubt.    *)
(* Whoever replays a delivery at connect-svc may name any order and state. *)
(*                                                                         *)
(* A write in doubt is settled before the next process loads the board.    *)
(***************************************************************************)
EXTENDS Integers, FiniteSets

CONSTANTS
  Order,
  MaxAttempts   \* EVENT_RESEND_WAITS: one more attempt than there are waits

ASSUME AttemptsAssumption == MaxAttempts \in Nat \ {0}

VARIABLES
  board,      \* the state of each order, "none" before it exists
  senders,    \* the threads that deliver events
  wire,       \* events given up on by their sender, not yet handled
  mirror,     \* erp_orders
  delivered,  \* deliveries: the idempotency keys
  missed,     \* events no thread will ever deliver (history)
  foretold    \* states a replay told of before the order had reached them (history)

mirrorVars == <<board, senders, wire, mirror, delivered, missed, foretold>>

-----------------------------------------------------------------------------
OrderState == {"committed", "provisioning", "fulfilled", "settled"}

\* state_rank; a board shows "fulfilled" as "settled".
Rank(s) ==
  CASE s = "committed" -> 1 [] s = "provisioning" -> 2
    [] s = "fulfilled" -> 3 [] s = "settled" -> 4 [] OTHER -> 0

\* next_state, with the confirmation that makes a fulfilled order settled.
NextState == [none |-> "committed", committed |-> "provisioning", provisioning |-> "settled"]

Event(m, s) == [order |-> m, state |-> s]

\* Faulty: one key for all the events of an order.
AppliedOncePerOrder(m, s) ==
  IF \E t \in OrderState : <<m, t>> \in delivered
    THEN UNCHANGED <<mirror, delivered>>
    ELSE /\ delivered' = delivered \cup {<<m, s>>}
         /\ mirror' = [mirror EXCEPT ![m] = IF Rank(s) >= Rank(@) THEN s ELSE @]

\* apply_delivery
Applied(m, s) ==
  IF <<m, s>> \in delivered
    THEN UNCHANGED <<mirror, delivered>>
    ELSE /\ delivered' = delivered \cup {<<m, s>>}
         /\ mirror' = [mirror EXCEPT ![m] = IF Rank(s) >= Rank(@) THEN s ELSE @]

\* The process ends, and its threads with it.
SellerExit(lost) ==
  /\ senders' = {}
  /\ missed' = missed \cup lost \cup {<<x.event.order, x.event.state>> : x \in senders}

NewSender(m, s) == [event |-> Event(m, s), left |-> MaxAttempts]

\* Faulty: the event leaves before the write it tells of.
AdvanceUnstored(m) ==
  /\ board[m] \in DOMAIN NextState
  /\ LET s == NextState[board[m]]
     IN  /\ senders' = senders \cup {NewSender(m, s)}
         /\ \/ board' = [board EXCEPT ![m] = s]
            \/ UNCHANGED board
  /\ UNCHANGED <<wire, mirror, delivered, missed, foretold>>

\* POST /v1/orders, POST /v1/orders/advance: the write, then the event. A write
\* in doubt ends the process; a settlement that is not confirmed changes nothing.
Advance(m) ==
  /\ board[m] \in DOMAIN NextState
  /\ LET s == NextState[board[m]]
     IN  \/ /\ board' = [board EXCEPT ![m] = s]
            /\ senders' = senders \cup {NewSender(m, s)}
            /\ UNCHANGED missed
         \/ board' = [board EXCEPT ![m] = s] /\ SellerExit({<<m, s>>})
         \/ UNCHANGED board /\ SellerExit({})
  /\ UNCHANGED <<wire, mirror, delivered, foretold>>

SellerCrash == SellerExit({}) /\ UNCHANGED <<board, wire, mirror, delivered, foretold>>

\* Faulty: one attempt too many.
ResendOnceMore(x) ==
  IF x.left > 0
    THEN /\ senders' = (senders \ {x}) \cup {[x EXCEPT !.left = @ - 1]}
         /\ UNCHANGED missed
    ELSE /\ senders' = senders \ {x}
         /\ missed' = missed \cup {<<x.event.order, x.event.state>>}

\* deliver_event after a failed attempt: again, or never.
Resend(x) ==
  IF x.left > 1
    THEN /\ senders' = (senders \ {x}) \cup {[x EXCEPT !.left = @ - 1]}
         /\ UNCHANGED missed
    ELSE /\ senders' = senders \ {x}
         /\ missed' = missed \cup {<<x.event.order, x.event.state>>}

\* One attempt: taken, applied with its answer lost, not received, or left on
\* the wire by a timeout.
Attempt(x) ==
  /\ x \in senders
  /\ \/ /\ Applied(x.event.order, x.event.state)
        /\ senders' = senders \ {x}
        /\ UNCHANGED <<wire, missed>>
     \/ Applied(x.event.order, x.event.state) /\ Resend(x) /\ UNCHANGED wire
     \/ Resend(x) /\ UNCHANGED <<wire, mirror, delivered>>
     \/ Resend(x) /\ wire' = wire \cup {x.event} /\ UNCHANGED <<mirror, delivered>>
  /\ UNCHANGED <<board, foretold>>

Late(e) ==
  /\ wire' = wire \ {e}
  /\ Applied(e.order, e.state)
  /\ UNCHANGED <<board, senders, missed, foretold>>

\* POST /v1/webhooks/replay: no-op for a delivery that is known; any other is
\* applied like a first one, whether or not the order has been in that state.
Replay(m, s) ==
  /\ Applied(m, s)
  /\ foretold' = IF Rank(s) > Rank(board[m]) THEN foretold \cup {<<m, s>>} ELSE foretold
  /\ UNCHANGED <<board, senders, wire, missed>>

\* connect-svc starts again with an empty mirror; of what was delivered, only
\* what a thread still sends, or the board has yet to reach, is told again.
ConnectRestart ==
  /\ mirror' = [m \in Order |-> "none"]
  /\ wire' = {} /\ delivered' = {} /\ foretold' = {}
  /\ missed' = missed \cup {k \in delivered :
                              /\ Rank(k[2]) <= Rank(board[k[1]])
                              /\ \A x \in senders : x.event # Event(k[1], k[2])}
  /\ UNCHANGED <<board, senders>>

MirrorInit ==
  /\ board = [m \in Order |-> "none"]
  /\ mirror = [m \in Order |-> "none"]
  /\ senders = {} /\ wire = {} /\ delivered = {} /\ missed = {} /\ foretold = {}

MirrorNext ==
  \/ \E m \in Order : Advance(m) \/ \E s \in OrderState : Replay(m, s)
  \/ \E x \in senders : Attempt(x)
  \/ \E e \in wire : Late(e)
  \/ SellerCrash \/ ConnectRestart

\* A thread that has an event to deliver goes on with it.
DeliverEvent(m, s) == \E x \in senders : x.event = Event(m, s) /\ Attempt(x)

MirrorFairness == \A m \in Order, s \in OrderState : WF_mirrorVars(DeliverEvent(m, s))

MirrorSpec == MirrorInit /\ [][MirrorNext]_mirrorVars /\ MirrorFairness

-----------------------------------------------------------------------------
MirrorTypeOK ==
  LET Events == [order : Order, state : OrderState]
      States == OrderState \cup {"none"}
  IN  /\ board \in [Order -> States] /\ mirror \in [Order -> States]
      /\ senders \subseteq [event : Events, left : 1 .. MaxAttempts]
      /\ wire \subseteq Events
      /\ delivered \subseteq Order \X OrderState /\ missed \subseteq Order \X OrderState
      /\ foretold \subseteq Order \X OrderState

(* The partner's ERP shows an order further than the board has stored it only
   in a state that somebody replayed before the order reached it; no event of
   seller-svc puts it there, whichever of its writes, threads and processes
   comes to nothing. *)
AheadOnlyByReplay ==
  \A m \in Order : Rank(mirror[m]) <= Rank(board[m]) \/ <<m, mirror[m]>> \in foretold

(* Every state an order reaches is mirrored, and the mirror never falls behind
   it again, unless its event was missed: given up on after the last attempt,
   lost with a process of either service, or never sent because the write was
   in doubt ("the mirror advances monotonically", connect-svc). A replay ahead
   of its event does not keep the mirror from catching up. *)
MirrorCatchesUp ==
  \A m \in Order, s \in OrderState :
    board[m] = s ~>
      [](Rank(mirror[m]) >= Rank(s) \/ <<m, s>> \in missed)
=============================================================================
