---------------------------- MODULE ServiceLocks ----------------------------
(***************************************************************************)
(* Who waits for whom: every service takes connections on up to            *)
(* MaxConnections threads but runs one handler at a time under the lock of *)
(* its state, and a handler that calls another service holds that lock     *)
(* until it is answered or its read times out. The handlers and their      *)
(* calls are those of the source; what they read and write is left out.    *)
(***************************************************************************)
EXTENDS Integers, FiniteSets

CONSTANTS
  Entry,          \* the requests that come from outside or from a detached thread
  MaxConnections, \* connections a service reads and answers at once
  MaxCalls,       \* bound: calls under way
  MaxRequests,    \* bound: requests ever made
  MaxSteps        \* bound: calls made by one handler

VARIABLES calls,  \* the calls under way
          asked   \* requests made so far

vars == <<calls, asked>>

Id == 1 .. MaxCalls

-----------------------------------------------------------------------------
\* The call graph. A handler that calls nobody is named after its service.

Leaf == {"coordinator", "seller", "ads", "insights", "resource", "ledger", "identity",
         "platform", "connect", "audit"}

Op == Leaf \cup
      {"need", "published", "book", "disclose", "contributions", "environment",
       "publish", "advance", "outlook_view", "demand_view", "aggregate", "refund", "sync", "certify"}

\* Where a handler runs.
At(op) ==
  CASE op \in {"need", "published", "book", "disclose", "contributions"} -> "coordinator"
    [] op = "environment" -> "slice"
    [] op \in {"publish", "advance", "outlook_view"} -> "seller"
    [] op = "demand_view" -> "ads"
    [] op = "aggregate" -> "insights"
    [] op = "refund" -> "platform"
    [] op = "sync" -> "connect"
    [] op = "certify" -> "audit"
    [] OTHER -> op

\* Faulty: the seller tells the coordinator of an offer before it answers.
SellerTellsFirst(op) ==
  CASE op = "advance" -> {"ledger"}
    [] op = "publish" -> {"published"}
    [] OTHER -> {}

\* What the seller's handlers may call; offer events go out on a thread.
SellerCalls(op) ==
  CASE op = "advance" -> {"ledger"}
    [] op = "outlook_view" -> {"insights"}
    [] OTHER -> {}

\* What the coordinator's handlers may call.
CoordinatorCalls(op) ==
  CASE op = "need" -> {"identity", "ledger", "resource", "seller", "ads", "environment"}
    [] op = "published" -> {"ledger", "resource", "seller", "ads", "environment"}
    [] op = "book" -> {"identity", "ledger", "seller", "ads"}
    [] op = "disclose" -> {"identity", "ledger", "platform"}
    [] op = "contributions" -> {"ledger"}
    [] OTHER -> {}

\* What the one handler of each other service that calls out may call.
EnvironmentCalls == {"ledger", "resource"}
DemandViewCalls == {"insights"}
AggregateCalls == {"contributions"}
RefundCalls == {"identity", "ledger"}
SyncCalls == {"publish", "seller"}
CertifyCalls == {"ledger"}

\* What a handler may call, some of it more than once.
Calls(op) ==
  CASE op = "environment" -> EnvironmentCalls
    [] op = "demand_view" -> DemandViewCalls
    [] op = "aggregate" -> AggregateCalls
    [] op = "refund" -> RefundCalls
    [] op = "sync" -> SyncCalls
    [] op = "certify" -> CertifyCalls
    [] OTHER -> CoordinatorCalls(op) \cup SellerCalls(op)

\* The published outlook, read through the seller and the ads service.
OutlookViews == {"outlook_view", "demand_view"}

ASSUME LocksParameters ==
  /\ Entry \subseteq Op
  /\ MaxConnections \in Nat \ {0}
  /\ MaxCalls \in Nat /\ MaxRequests \in Nat /\ MaxSteps \in Nat

-----------------------------------------------------------------------------
\* A call is "free" (none), "new" (in the listen backlog), "waiting" (on a
\* thread, for the lock), "running" (with the lock) or "calling" (with the
\* lock, until its callee answers).
Phase == {"free", "new", "waiting", "running", "calling"}

Free == [op |-> "ledger", phase |-> "free", callee |-> 0, steps |-> 0]
New(op) == [op |-> op, phase |-> "new", callee |-> 0, steps |-> 0]

Where(i) == At(calls[i].op)
Active == {i \in Id : calls[i].phase # "free"}
Open(s) == {i \in Id : calls[i].phase \in {"waiting", "running", "calling"} /\ Where(i) = s}
Holders(s) == {i \in Id : calls[i].phase \in {"running", "calling"} /\ Where(i) = s}

\* The id the next call gets.
Next_(i) == calls[i].phase = "free" /\ \A j \in Id : j < i => calls[j].phase # "free"

Request(op) ==
  /\ asked < MaxRequests
  /\ asked' = asked + 1
  /\ \E i \in Id : Next_(i) /\ calls' = [calls EXCEPT ![i] = New(op)]

\* Faulty: one connection fewer than the gate has room for.
AcceptBelowLimit(i) ==
  /\ calls[i].phase = "new"
  /\ Cardinality(Open(Where(i))) < MaxConnections - 1
  /\ calls' = [calls EXCEPT ![i].phase = "waiting"]
  /\ UNCHANGED asked

\* A thread is started while the connection gate has room.
Accept(i) ==
  /\ calls[i].phase = "new"
  /\ Cardinality(Open(Where(i))) < MaxConnections
  /\ calls' = [calls EXCEPT ![i].phase = "waiting"]
  /\ UNCHANGED asked

Lock(i) ==
  /\ calls[i].phase = "waiting"
  /\ Holders(Where(i)) = {}
  /\ calls' = [calls EXCEPT ![i].phase = "running"]
  /\ UNCHANGED asked

\* Faulty: a handler that calls without end.
CallWithoutEnd(i, op) ==
  /\ calls[i].phase = "running"
  /\ op \in Calls(calls[i].op)
  /\ \E j \in Id :
       /\ Next_(j)
       /\ calls' = [calls EXCEPT ![i].phase = "calling", ![i].callee = j,
                                 ![i].steps = @ + 1, ![j] = New(op)]
  /\ UNCHANGED asked

Call(i, op) ==
  /\ calls[i].phase = "running"
  /\ calls[i].steps < MaxSteps
  /\ op \in Calls(calls[i].op)
  /\ \E j \in Id :
       /\ Next_(j)
       /\ calls' = [calls EXCEPT ![i].phase = "calling", ![i].callee = j,
                                 ![i].steps = @ + 1, ![j] = New(op)]
  /\ UNCHANGED asked

IsCalling(c, i) == c.phase = "calling" /\ c.callee = i

\* The handler returns, early perhaps: the lock is released, and its caller
\* goes on if it is still there.
Answer(i) ==
  /\ calls[i].phase = "running"
  /\ calls' = [j \in Id |->
       IF j = i THEN Free
       ELSE IF IsCalling(calls[j], i) THEN [calls[j] EXCEPT !.phase = "running", !.callee = 0]
       ELSE calls[j]]
  /\ UNCHANGED asked

\* The caller's read times out; its callee does not know.
Timeout(i) ==
  /\ calls[i].phase = "calling"
  /\ calls' = [calls EXCEPT ![i].phase = "running", ![i].callee = 0]
  /\ UNCHANGED asked

Init ==
  /\ calls = [i \in Id |-> Free]
  /\ asked = 0

Next ==
  \/ \E op \in Entry : Request(op)
  \/ \E i \in Id : \/ Accept(i) \/ Lock(i) \/ Answer(i) \/ Timeout(i)
                   \/ \E op \in Op : Call(i, op)

Spec == Init /\ [][Next]_vars

\* Threads are scheduled; whether a read ever times out is left open.
Scheduled == \A i \in Id : WF_vars(Accept(i)) /\ WF_vars(Lock(i)) /\ WF_vars(Answer(i))

FairSpec == Spec /\ Scheduled

-----------------------------------------------------------------------------
TypeOK ==
  /\ calls \in [Id -> [op : Op, phase : Phase, callee : 0 .. MaxCalls, steps : 0 .. MaxSteps]]
  /\ asked \in 0 .. MaxRequests

\* A call waits for its callee, for the lock of its service, or for room in
\* its connection gate.
WaitsFor(i, j) ==
  \/ IsCalling(calls[i], j)
  \/ calls[i].phase = "waiting" /\ j \in Holders(Where(i))
  \/ calls[i].phase = "new" /\ j \in Open(Where(i))

(* "A handler waiting on another service cannot deadlock" (serve_app): among
   any calls under way, one does not wait for any of them, so that no circle
   of handlers holds each other's lock until their reads time out. *)
CannotDeadlock ==
  \A D \in SUBSET Active : D # {} => \E i \in D : \A j \in D : ~ WaitsFor(i, j)

(* Every request accepted or waiting in a backlog is answered. *)
EveryRequestAnswered ==
  \A i \in Id : calls[i].phase # "free" ~> calls[i].phase = "free"
=============================================================================
