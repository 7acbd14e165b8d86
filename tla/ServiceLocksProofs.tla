------------------------- MODULE ServiceLocksProofs -------------------------
(***************************************************************************)
(* Without the two outlook views the services cannot deadlock, however     *)
(* many requests there are and however small the connection gates. Every   *)
(* handler calls services of a lower rank; a call waits for the lock only  *)
(* behind handlers of its own service, and for the gate only behind calls  *)
(* that passed it. So a measure falls along every wait, and a set of calls *)
(* has a member of least measure.                                          *)
(***************************************************************************)
EXTENDS ServiceLocks, TLAPS, WellFoundedInduction

Usable == Op \ OutlookViews

Rank(s) ==
  CASE s = "insights" -> 3
    [] s \in {"coordinator", "connect"} -> 2
    [] s \in {"slice", "seller", "platform", "audit"} -> 1
    [] OTHER -> 0

PhaseRank(ph) == CASE ph = "new" -> 2 [] ph = "waiting" -> 1 [] OTHER -> 0

Measure(i) == 3 * Rank(Where(i)) + PhaseRank(calls[i].phase)

\* Calls of usable handlers, and a caller whose callee is one it may call.
UsableCalls == \A i \in Id : calls[i].op \in Usable

CalleesAreCalled ==
  \A i, j \in Id : IsCalling(calls[i], j) =>
    calls[j].phase # "free" /\ calls[j].op \in Calls(calls[i].op)

CallType == [op : Op, phase : Phase, callee : 0 .. MaxCalls, steps : 0 .. MaxSteps]

Inv == TypeOK /\ UsableCalls /\ CalleesAreCalled

-----------------------------------------------------------------------------
\* The call graph without the outlook views goes down.
LEMMA CallsGoDown ==
  ASSUME NEW a \in Usable, NEW b \in Calls(a)
  PROVE  b \in Usable /\ Rank(At(b)) < Rank(At(a))
BY DEF Usable, Op, Leaf, OutlookViews, Calls, CoordinatorCalls, SellerCalls, EnvironmentCalls,
       DemandViewCalls, AggregateCalls, RefundCalls, SyncCalls, CertifyCalls, At, Rank

LEMMA RankType == \A s : Rank(s) \in Nat
BY DEF Rank

LEMMA MeasureType == \A i : Measure(i) \in Nat
<1>1. \A ph : PhaseRank(ph) \in Nat
  BY DEF PhaseRank
<1> QED BY <1>1, RankType DEF Measure

\* A set of calls with natural measures has a least one.
LEMMA LeastMeasure ==
  ASSUME NEW D, D # {}
  PROVE  \E i \in D : \A j \in D : Measure(i) <= Measure(j)
<1> DEFINE T == {Measure(i) : i \in D}
<1>1. T \subseteq Nat /\ T # {}
  BY MeasureType
<1>2. PICK x \in T : \A y \in T : ~ (<<y, x>> \in OpToRel(<, Nat))
  BY <1>1, NatLessThanWellFounded, WFMin
<1>3. \A y \in T : ~ (y < x)
  BY <1>1, <1>2 DEF OpToRel
<1>4. PICK i \in D : x = Measure(i)
  OBVIOUS
<1> QED BY <1>1, <1>3, <1>4, MeasureType

-----------------------------------------------------------------------------
LEMMA InitInv ==
  ASSUME Entry \cap OutlookViews = {}, Init
  PROVE  Inv
<1>1. "ledger" \in Usable
  BY DEF Usable, Op, Leaf, OutlookViews
<1>2. \A i \in Id : calls[i] = Free
  BY DEF Init
<1>3. Free \in CallType /\ Free.op = "ledger" /\ Free.phase = "free"
  BY <1>1, LocksParameters DEF Free, CallType, Phase, Usable
<1>4. TypeOK
  BY <1>3, LocksParameters DEF Init, TypeOK, CallType
<1>5. UsableCalls
  BY <1>1, <1>2, <1>3 DEF UsableCalls
<1>6. CalleesAreCalled
  BY <1>2, <1>3 DEF CalleesAreCalled, IsCalling
<1> QED BY <1>4, <1>5, <1>6 DEF Inv

\* A new call: its op is usable, its phase "new", and nothing calls it yet.
LEMMA NewCall ==
  ASSUME NEW a \in Usable
  PROVE  /\ New(a) \in CallType
         /\ New(a).op = a /\ New(a).phase = "new"
BY LocksParameters DEF New, CallType, Phase, Usable

\* A caller that goes on.
LEMMA ResumedCall ==
  ASSUME NEW c \in CallType
  PROVE  LET d == [c EXCEPT !.phase = "running", !.callee = 0]
         IN  d \in CallType /\ d.op = c.op /\ d.phase = "running"
<1>1. 0 \in 0 .. MaxCalls /\ "running" \in Phase
  BY LocksParameters DEF Phase
<1> QED BY <1>1 DEF CallType

LEMMA NextInv ==
  ASSUME Entry \cap OutlookViews = {}, Inv, [Next]_vars
  PROVE  Inv'
<1> USE DEF Inv, CallType
<1>1. CASE UNCHANGED vars
  BY <1>1 DEF vars, TypeOK, UsableCalls, CalleesAreCalled, IsCalling
<1>2. ASSUME NEW op \in Entry, Request(op)
      PROVE  Inv'
  <2>1. op \in Usable
    BY LocksParameters DEF Usable
  <2>2. PICK i \in Id : Next_(i) /\ calls' = [calls EXCEPT ![i] = New(op)]
    BY <1>2 DEF Request
  <2>3. TypeOK'
    <3>1. calls' \in [Id -> CallType]
      BY <2>1, <2>2, NewCall DEF TypeOK
    <3>2. asked' \in 0 .. MaxRequests
      BY <1>2, LocksParameters DEF TypeOK, Request
    <3> QED BY <3>1, <3>2 DEF TypeOK
  <2>4. UsableCalls'
    BY <2>1, <2>2, NewCall DEF TypeOK, UsableCalls
  <2>5. CalleesAreCalled'
    BY <2>1, <2>2, NewCall DEF TypeOK, CalleesAreCalled, IsCalling, Next_
  <2> QED BY <2>3, <2>4, <2>5
<1>3. ASSUME NEW i \in Id, Accept(i)
      PROVE  Inv'
  BY <1>3 DEF Accept, TypeOK, Phase, UsableCalls, CalleesAreCalled, IsCalling
<1>4. ASSUME NEW i \in Id, Lock(i)
      PROVE  Inv'
  BY <1>4 DEF Lock, TypeOK, Phase, UsableCalls, CalleesAreCalled, IsCalling
<1>5. ASSUME NEW i \in Id, Answer(i)
      PROVE  Inv'
  <2>1. Free \in CallType /\ Free.op \in Usable /\ Free.phase = "free"
    BY LocksParameters DEF Free, Phase, Usable, Op, Leaf, OutlookViews
  <2>2. ASSUME NEW j \in Id
        PROVE  /\ calls'[j] \in CallType
               /\ calls'[j].op \in Usable
               /\ calls'[j].phase = "calling" => calls'[j] = calls[j] /\ calls[j].callee # i
               /\ j # i => calls'[j].op = calls[j].op
               /\ j # i /\ calls[j].phase # "free" => calls'[j].phase # "free"
    <3>1. CASE j = i
      BY <3>1, <1>5, <2>1 DEF Answer
    <3>2. CASE j # i /\ IsCalling(calls[j], i)
      <4>1. calls'[j] = [calls[j] EXCEPT !.phase = "running", !.callee = 0]
        BY <3>2, <1>5 DEF Answer
      <4>2. calls[j] \in CallType /\ calls[j].op \in Usable
        BY DEF TypeOK, UsableCalls
      <4>3. /\ calls'[j] \in CallType
            /\ calls'[j].op = calls[j].op /\ calls'[j].phase = "running"
        BY <4>1, <4>2, ResumedCall
      <4> QED BY <3>2, <4>2, <4>3
    <3>3. CASE j # i /\ ~ IsCalling(calls[j], i)
      BY <3>3, <1>5 DEF Answer, TypeOK, UsableCalls, IsCalling
    <3> QED BY <3>1, <3>2, <3>3
  <2>3. TypeOK'
    BY <1>5, <2>2 DEF TypeOK, Answer
  <2>4. UsableCalls'
    BY <2>2 DEF UsableCalls
  <2>5. CalleesAreCalled'
    BY <2>2 DEF CalleesAreCalled, IsCalling
  <2> QED BY <2>3, <2>4, <2>5
<1>6. ASSUME NEW i \in Id, Timeout(i)
      PROVE  Inv'
  <2>1. /\ calls' \in [Id -> CallType]
        /\ calls'[i].op = calls[i].op /\ calls'[i].phase = "running"
        /\ \A k \in Id : k # i => calls'[k] = calls[k]
    <3>1. calls[i] \in CallType
      BY DEF TypeOK
    <3>2. calls' = [calls EXCEPT ![i] = [calls[i] EXCEPT !.phase = "running", !.callee = 0]]
      BY <1>6 DEF Timeout, TypeOK
    <3> QED BY <3>1, <3>2, ResumedCall DEF TypeOK
  <2>2. TypeOK'
    BY <1>6, <2>1 DEF TypeOK, Timeout
  <2>3. UsableCalls'
    BY <2>1 DEF UsableCalls
  <2>4. CalleesAreCalled'
    BY <1>6, <2>1 DEF Timeout, CalleesAreCalled, IsCalling
  <2> QED BY <2>2, <2>3, <2>4
<1>7. ASSUME NEW i \in Id, NEW op \in Op, Call(i, op)
      PROVE  Inv'
  <2>1. calls[i].op \in Usable /\ op \in Calls(calls[i].op)
    BY <1>7 DEF Call, UsableCalls
  <2>2. op \in Usable
    BY <2>1, CallsGoDown
  <2>3. PICK j \in Id : /\ Next_(j)
                        /\ calls' = [calls EXCEPT ![i].phase = "calling", ![i].callee = j,
                                                  ![i].steps = @ + 1, ![j] = New(op)]
    BY <1>7 DEF Call
  <2>4. i # j /\ calls[i].phase = "running" /\ calls[i].steps < MaxSteps
    BY <1>7, <2>3 DEF Call, Next_
  <2>5. /\ calls'[i].op = calls[i].op /\ calls'[i].phase = "calling" /\ calls'[i].callee = j
        /\ calls'[i] \in CallType
        /\ calls'[j] = New(op)
        /\ \A k \in Id : k # i /\ k # j => calls'[k] = calls[k]
    BY <2>3, <2>4, LocksParameters DEF TypeOK, Phase, Id
  <2>6. TypeOK'
    BY <1>7, <2>2, <2>3, <2>5, NewCall DEF TypeOK, Call
  <2>7. UsableCalls'
    BY <2>1, <2>2, <2>5, NewCall DEF UsableCalls
  <2>8. CalleesAreCalled'
    <3> SUFFICES ASSUME NEW k \in Id, NEW m \in Id, IsCalling(calls[k], m)'
                 PROVE  calls'[m].phase # "free" /\ calls'[m].op \in Calls(calls'[k].op)
      BY DEF CalleesAreCalled
    <3>1. calls'[k].phase = "calling" /\ calls'[k].callee = m
      BY DEF IsCalling
    <3>2. CASE k = i
      BY <3>1, <3>2, <2>1, <2>2, <2>5, NewCall
    <3>3. k # j
      BY <3>1, <2>2, <2>5, NewCall
    <3>4. CASE k # i
      <4>1. /\ calls'[k] = calls[k]
            /\ calls[m].phase # "free" /\ calls[m].op \in Calls(calls[k].op)
        BY <3>1, <3>3, <3>4, <2>5 DEF CalleesAreCalled, IsCalling
      <4>2. m # j
        BY <4>1, <2>3 DEF Next_
      <4> QED BY <4>1, <4>2, <2>5
    <3> QED BY <3>2, <3>4
  <2> QED BY <2>6, <2>7, <2>8
<1> QED BY <1>1, <1>2, <1>3, <1>4, <1>5, <1>6, <1>7 DEF Next

LEMMA InvHolds ==
  ASSUME Entry \cap OutlookViews = {}
  PROVE  Spec => []Inv
<1>1. Init => Inv
  BY InitInv
<1>2. Inv /\ [Next]_vars => Inv'
  BY NextInv
<1> QED BY <1>1, <1>2, PTL DEF Spec

-----------------------------------------------------------------------------
\* The measure falls along every wait.
LEMMA WaitsGoDown ==
  ASSUME Inv, NEW i \in Id, NEW j \in Id, WaitsFor(i, j)
  PROVE  Measure(j) < Measure(i)
<1>1. /\ PhaseRank("new") = 2 /\ PhaseRank("waiting") = 1
      /\ PhaseRank("calling") = 0 /\ PhaseRank("running") = 0
      /\ \A ph : PhaseRank(ph) \in 0 .. 2
  BY DEF PhaseRank
<1>2. CASE IsCalling(calls[i], j)
  <2>1. calls[i].op \in Usable /\ calls[j].op \in Calls(calls[i].op)
    BY <1>2 DEF Inv, UsableCalls, CalleesAreCalled
  <2>2. Rank(Where(j)) < Rank(Where(i))
    BY <2>1, CallsGoDown DEF Where
  <2>3. calls[i].phase = "calling"
    BY <1>2 DEF IsCalling
  <2> QED BY <1>1, <2>2, <2>3, RankType DEF Measure
<1>3. CASE calls[i].phase = "waiting" /\ j \in Holders(Where(i))
  <2>1. Where(j) = Where(i) /\ calls[j].phase \in {"running", "calling"}
    BY <1>3 DEF Holders
  <2> QED BY <1>1, <1>3, <2>1, RankType DEF Measure
<1>4. CASE calls[i].phase = "new" /\ j \in Open(Where(i))
  <2>1. Where(j) = Where(i) /\ calls[j].phase \in {"waiting", "running", "calling"}
    BY <1>4 DEF Open
  <2> QED BY <1>1, <1>4, <2>1, RankType DEF Measure
<1> QED BY <1>2, <1>3, <1>4 DEF WaitsFor

LEMMA InvCannotDeadlock == Inv => CannotDeadlock
<1> SUFFICES ASSUME Inv, NEW D \in SUBSET Active, D # {}
             PROVE  \E i \in D : \A j \in D : ~ WaitsFor(i, j)
  BY DEF CannotDeadlock
<1>1. D \subseteq Id
  BY DEF Active
<1>2. PICK i \in D : \A j \in D : Measure(i) <= Measure(j)
  BY LeastMeasure
<1>3. \A j \in D : ~ WaitsFor(i, j)
  BY <1>1, <1>2, WaitsGoDown, MeasureType
<1> QED BY <1>3

(* Requests that do not read the outlook through another service leave the
   call graph acyclic, and "a handler waiting on another service cannot
   deadlock" (serve_app) then holds for any number of requests at once. *)
THEOREM AcyclicCannotDeadlock ==
  Entry \cap OutlookViews = {} => (Spec => []CannotDeadlock)
<1> SUFFICES ASSUME Entry \cap OutlookViews = {}
             PROVE  Spec => []CannotDeadlock
  OBVIOUS
<1>1. Spec => []Inv
  BY InvHolds
<1> QED BY <1>1, InvCannotDeadlock, PTL

-----------------------------------------------------------------------------
\* Whatever its requests, the types hold: an id is given to one call at a time.
LEMMA NewCallType ==
  ASSUME NEW op \in Op
  PROVE  New(op) \in CallType
BY LocksParameters DEF New, CallType, Phase

THEOREM TypeCorrect == Spec => []TypeOK
<1> USE DEF CallType
<1>1. Init => TypeOK
  <2>1. Free \in CallType
    BY LocksParameters DEF Free, Phase, Op, Leaf
  <2> QED BY <2>1, LocksParameters DEF Init, TypeOK
<1>2. TypeOK /\ [Next]_vars => TypeOK'
  <2> SUFFICES ASSUME TypeOK, [Next]_vars
               PROVE  TypeOK'
    OBVIOUS
  <2>1. CASE UNCHANGED vars
    BY <2>1 DEF vars, TypeOK
  <2>2. ASSUME NEW op \in Entry, Request(op)
        PROVE  TypeOK'
    <3>1. New(op) \in CallType
      BY NewCallType, LocksParameters
    <3>2. PICK i \in Id : calls' = [calls EXCEPT ![i] = New(op)]
      BY <2>2 DEF Request
    <3>3. calls' \in [Id -> CallType]
      BY <3>1, <3>2 DEF TypeOK
    <3> QED BY <2>2, <3>3, LocksParameters DEF Request, TypeOK
  <2>3. ASSUME NEW i \in Id, Accept(i) \/ Lock(i)
        PROVE  TypeOK'
    BY <2>3 DEF Accept, Lock, TypeOK, Phase
  <2>4. ASSUME NEW i \in Id, Answer(i)
        PROVE  TypeOK'
    <3>1. Free \in CallType
      BY LocksParameters DEF Free, Phase, Op, Leaf
    <3>2. \A j \in Id : calls'[j] \in CallType
      BY <2>4, <3>1, ResumedCall DEF Answer, TypeOK
    <3> QED BY <2>4, <3>2 DEF Answer, TypeOK
  <2>5. ASSUME NEW i \in Id, Timeout(i)
        PROVE  TypeOK'
    <3>1. calls' = [calls EXCEPT ![i] = [calls[i] EXCEPT !.phase = "running", !.callee = 0]]
      BY <2>5 DEF Timeout, TypeOK
    <3>2. calls[i] \in CallType
      BY DEF TypeOK
    <3>3. [calls[i] EXCEPT !.phase = "running", !.callee = 0] \in CallType
      BY <3>2, ResumedCall
    <3> QED BY <2>5, <3>1, <3>3 DEF Timeout, TypeOK
  <2>6. ASSUME NEW i \in Id, NEW op \in Op, Call(i, op)
        PROVE  TypeOK'
    <3>1. PICK j \in Id : calls' = [calls EXCEPT ![i].phase = "calling", ![i].callee = j,
                                                 ![i].steps = @ + 1, ![j] = New(op)]
      BY <2>6 DEF Call
    <3> DEFINE calling == [calls[i] EXCEPT !.phase = "calling", !.callee = j, !.steps = @ + 1]
    <3>2. calls[i] \in CallType /\ New(op) \in CallType
      BY NewCallType DEF TypeOK
    <3>3. calls[i].steps < MaxSteps /\ j \in 0 .. MaxCalls
      BY <2>6, LocksParameters DEF Call, Id
    <3>4. calling \in CallType
      <4>1. calls[i].steps + 1 \in 0 .. MaxSteps /\ "calling" \in Phase
        BY <3>2, <3>3, LocksParameters DEF Phase
      <4> QED BY <3>2, <3>3, <4>1
    <3>5. \A k \in Id : calls'[k] \in {calls[k], New(op), calling}
      BY <3>1 DEF TypeOK
    <3>6. DOMAIN calls' = Id
      BY <3>1 DEF TypeOK
    <3>7. \A k \in Id : calls[k] \in CallType
      BY DEF TypeOK
    <3> HIDE DEF calling, CallType
    <3>8. \A k \in Id : calls'[k] \in CallType
      BY <3>2, <3>4, <3>5, <3>7
    <3>9. calls' = [k \in Id |-> calls'[k]]
      BY <3>1, <3>6 DEF TypeOK, CallType
    <3>10. calls' \in [Id -> CallType]
      BY <3>8, <3>9
    <3> QED BY <2>6, <3>10 DEF Call, TypeOK, CallType
  <2> QED BY <2>1, <2>2, <2>3, <2>4, <2>5, <2>6 DEF Next
<1> QED BY <1>1, <1>2, PTL DEF Spec
=============================================================================
