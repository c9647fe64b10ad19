-------------------------- MODULE HumanStepProofs --------------------------
(***************************************************************************)
(* Proofs about HumanStep for any users, any quorum, any bounds.  The      *)
(* argument: a response past its transaction (at "signal" or "rollback")   *)
(* owns the row it resolved, no other response can have committed on that  *)
(* row, and nobody was told of an answer to it yet; so a rollback reopens  *)
(* only what its own answer closed, never an acknowledged row, and leaves  *)
(* the run a row to be answered by.                                        *)
(***************************************************************************)
EXTENDS HumanStep, FiniteSetTheorems, TLAPS

LEMMA OneAnswer ==
  /\ Cardinality({}) <= 1
  /\ \A x : Cardinality({x}) <= 1
<1>1. Cardinality({}) = 0
  BY FS_EmptySet
<1>2. ASSUME NEW x PROVE Cardinality({x}) = 1
  BY FS_Singleton
<1>3. QED BY <1>1, <1>2

LEMMA ClosePendingType ==
  ASSUME TypeOK, NEW st \in {"TIMED_OUT", "CANCELLED"}, ClosePending(st)
  PROVE  rows' \in [Row -> [status : {"absent", "PENDING", "RESOLVED", "TIMED_OUT", "CANCELLED"},
                       visit : 0..MaxVisit, by : User \cup {NoUser}, act : Action \cup {"none"}]]
  BY DEF TypeOK, ClosePending

LEMMA InsertRowType ==
  ASSUME TypeOK, InsertRow
  PROVE  rows' \in [Row -> [status : {"absent", "PENDING", "RESOLVED", "TIMED_OUT", "CANCELLED"},
                       visit : 0..MaxVisit, by : User \cup {NoUser}, act : Action \cup {"none"}]]
<1>1. visit \in 0..MaxVisit
  BY BoundsAssumption DEF TypeOK
<1>2. CASE Pending # {}
  BY <1>1, <1>2 DEF InsertRow, TypeOK
<1>3. CASE Pending = {}
  <2>1. PICK r \in Row :
          rows' = [rows EXCEPT ![r] = [Absent EXCEPT !.status = "PENDING", !.visit = visit]]
    BY <1>3 DEF InsertRow
  <2>2. QED BY <1>1, <2>1 DEF TypeOK, Absent
<1>4. QED BY <1>2, <1>3

LEMMA RouteOnType ==
  ASSUME TypeOK, NEW e, RouteOn(e)
  PROVE  wf' \in Workflow /\ visit' \in 1..MaxVisit
  BY BoundsAssumption DEF TypeOK, RouteOn, Workflow

LEMMA TypeCorrect == TypeOK /\ [Next]_vars => TypeOK'
<1> SUFFICES ASSUME TypeOK, [Next]_vars PROVE TypeOK'
  OBVIOUS
<1>1. CASE Notify
  BY <1>1, InsertRowType DEF Notify, TypeOK, Workflow
<1>2. CASE NotifyFails
  BY <1>2 DEF NotifyFails, TypeOK, Workflow
<1>3. CASE ReceiveAnswer
  BY <1>3, RouteOnType, OneAnswer DEF ReceiveAnswer, TypeOK
<1>4. CASE TimeOut
  BY <1>4 DEF TimeOut, TypeOK, Workflow
<1>5. CASE MarkTimedOut
  BY <1>5, RouteOnType, ClosePendingType DEF MarkTimedOut, TypeOK
<1>6. CASE CancelRun
  BY <1>6 DEF CancelRun, TypeOK
<1>7. CASE RunStops
  BY <1>7 DEF RunStops, TypeOK, Workflow
<1>8. CASE SweepPending
  BY <1>8, ClosePendingType DEF SweepPending, TypeOK, Workflow
<1>9. CASE FinalizeRun
  BY <1>9 DEF FinalizeRun, TypeOK, Workflow
<1>10. ASSUME NEW u \in User, CheckStep(u) PROVE TypeOK'
  BY <1>10 DEF CheckStep, TypeOK, Pending
<1>11. ASSUME NEW u \in User, CommitAnswer(u) PROVE TypeOK'
  <2>1. resp[u] \in [pc : {"checked", "signal", "rollback"}, row : Row, act : Action]
    BY <1>11 DEF CommitAnswer, TypeOK, Idle
  <2>2. ApproversWith(u, resp[u]) \in SUBSET User
    BY <2>1 DEF ApproversWith, TypeOK
  <2>3. approvals' \in [Row -> SUBSET User] /\ stands' \in [Row -> SUBSET User]
    BY <1>11, <2>1, <2>2 DEF CommitAnswer, TypeOK, Standing
  <2>4. rows' \in [Row -> [status : {"absent", "PENDING", "RESOLVED", "TIMED_OUT", "CANCELLED"},
                       visit : 0..MaxVisit, by : User \cup {NoUser}, act : Action \cup {"none"}]]
    BY <1>11, <2>1 DEF CommitAnswer, TypeOK
  <2>5. resp' \in [User -> {Idle} \cup
                 [pc : {"checked", "signal", "rollback"}, row : Row, act : Action]]
    BY <1>11, <2>1 DEF CommitAnswer, TypeOK
  <2>6. QED BY <1>11, <2>3, <2>4, <2>5 DEF CommitAnswer, TypeOK
<1>12. ASSUME NEW u \in User, SignalDelivered(u) PROVE TypeOK'
  <2>1. AnswerOf(u) \in Answer
    BY <1>12 DEF SignalDelivered, TypeOK, Idle, AnswerOf, Answer
  <2>2. resp' \in [User -> {Idle} \cup
                 [pc : {"checked", "signal", "rollback"}, row : Row, act : Action]]
    BY <1>12 DEF SignalDelivered, TypeOK
  <2>3. slot' \in SUBSET Answer /\ Cardinality(slot') <= 1 /\ acked' \in SUBSET Answer
    BY <1>12, <2>1, OneAnswer DEF SignalDelivered, TypeOK
  <2>4. QED BY <1>12, <2>2, <2>3 DEF SignalDelivered, TypeOK
<1>13. ASSUME NEW u \in User, SignalTerminal(u) PROVE TypeOK'
  BY <1>13 DEF SignalTerminal, TypeOK
<1>14. ASSUME NEW u \in User, SignalTransient(u) PROVE TypeOK'
  <2>1. /\ AnswerOf(u) \in Answer
        /\ [resp[u] EXCEPT !.pc = "rollback"] \in
             [pc : {"checked", "signal", "rollback"}, row : Row, act : Action]
    BY <1>14 DEF SignalTransient, TypeOK, Idle, AnswerOf, Answer
  <2>2. resp' \in [User -> {Idle} \cup
                 [pc : {"checked", "signal", "rollback"}, row : Row, act : Action]]
    BY <1>14, <2>1 DEF SignalTransient, TypeOK
  <2>3. slot' \in SUBSET Answer /\ Cardinality(slot') <= 1
    BY <1>14, <2>1, OneAnswer DEF SignalTransient, TypeOK
  <2>4. QED BY <1>14, <2>2, <2>3 DEF SignalTransient, TypeOK
<1>15. ASSUME NEW u \in User, Rollback(u) PROVE TypeOK'
  <2>1. resp[u].row \in Row
    BY <1>15 DEF Rollback, TypeOK, Idle
  <2>2. /\ WithoutApproval(u) \in [Row -> SUBSET User]
        /\ Withdrawn(u) \in [Row -> SUBSET User]
    BY <2>1 DEF TypeOK, WithoutApproval, Withdrawn
  <2>3. rows' \in [Row -> [status : {"absent", "PENDING", "RESOLVED", "TIMED_OUT", "CANCELLED"},
                       visit : 0..MaxVisit, by : User \cup {NoUser}, act : Action \cup {"none"}]]
    <3>1. CASE rows' = rows
      BY <3>1 DEF TypeOK
    <3>2. CASE rows' = [rows EXCEPT ![resp[u].row].status = "PENDING",
                                    ![resp[u].row].by = NoUser, ![resp[u].row].act = "none"]
      BY <2>1, <3>2 DEF TypeOK
    <3>3. QED BY <1>15, <3>1, <3>2 DEF Rollback
  <2>4. resp' \in [User -> {Idle} \cup
                 [pc : {"checked", "signal", "rollback"}, row : Row, act : Action]]
    BY <1>15 DEF Rollback, TypeOK
  <2>5. QED BY <1>15, <2>2, <2>3, <2>4 DEF Rollback, TypeOK
<1>16. ASSUME NEW u \in User, RollbackFails(u) PROVE TypeOK'
  <2>1. resp[u].row \in Row
    BY <1>16 DEF RollbackFails, TypeOK, Idle
  <2>2. /\ WithoutApproval(u) \in [Row -> SUBSET User]
        /\ Withdrawn(u) \in [Row -> SUBSET User]
    BY <2>1 DEF TypeOK, WithoutApproval, Withdrawn
  <2>3. QED BY <1>16, <2>1, <2>2 DEF RollbackFails, TypeOK
<1>17. ASSUME NEW u \in User, GatewayCrash(u) PROVE TypeOK'
  <2>1. resp[u].row \in Row
    BY <1>17 DEF GatewayCrash, TypeOK, Idle
  <2>2. /\ WithoutApproval(u) \in [Row -> SUBSET User]
        /\ Withdrawn(u) \in [Row -> SUBSET User]
    BY <2>1 DEF TypeOK, WithoutApproval, Withdrawn
  <2>3. QED BY <1>17, <2>1, <2>2 DEF GatewayCrash, TypeOK
<1>18. CASE UNCHANGED vars
  BY <1>18 DEF vars, TypeOK
<1>19. QED
  BY <1>1, <1>2, <1>3, <1>4, <1>5, <1>6, <1>7, <1>8, <1>9, <1>10, <1>11, <1>12, <1>13,
     <1>14, <1>15, <1>16, <1>17, <1>18 DEF Next

LEMMA InitTypeOK == Init => TypeOK
<1> SUFFICES ASSUME Init PROVE TypeOK
  OBVIOUS
<1>1. rows \in [Row -> [status : {"absent", "PENDING", "RESOLVED", "TIMED_OUT", "CANCELLED"},
                       visit : 0..MaxVisit, by : User \cup {NoUser}, act : Action \cup {"none"}]]
  BY BoundsAssumption DEF Init, Absent
<1>2. slot \in SUBSET Answer /\ Cardinality(slot) <= 1
  BY OneAnswer DEF Init
<1>3. visit \in 1..MaxVisit
  BY BoundsAssumption DEF Init
<1>4. approvals \in [Row -> SUBSET User] /\ stands \in [Row -> SUBSET User] /\ resp \in [User -> {Idle}]
  BY DEF Init
<1>5. QED BY <1>1, <1>2, <1>3, <1>4 DEF Init, TypeOK, Workflow

\* Every state is well typed: in particular the slot never holds two answers.
THEOREM TypeInvariant == Spec => []TypeOK
  BY InitTypeOK, TypeCorrect, PTL DEF Spec

-----------------------------------------------------------------------------
(* What a response past its transaction may rely on.                       *)

Committed(u) == resp[u] # Idle /\ resp[u].pc \in {"signal", "rollback"}

\* It owns the row it resolved, and nobody was told of an answer to that row.
OwnsRow ==
  \A u \in User : Committed(u) =>
    /\ rows[resp[u].row].status = "RESOLVED"
    /\ rows[resp[u].row].by = u /\ rows[resp[u].row].act = resp[u].act
    /\ \A a \in acked : a.row # resp[u].row

IInv == TypeOK /\ OwnsRow /\ AcknowledgedIsRecorded

\* A step that leaves responses and acknowledgements alone and changes no
\* RESOLVED row.
LEMMA RowStep ==
  ASSUME IInv, TypeOK', UNCHANGED <<resp, acked>>,
         \A r \in Row : rows[r].status = "RESOLVED" => rows'[r] = rows[r]
  PROVE  IInv'
<1>1. \A a \in acked : a.row \in Row
  BY DEF IInv, TypeOK, Answer
<1>2. \A u \in User : Committed(u) => resp[u].row \in Row
  BY DEF IInv, TypeOK, Committed
<1>3. OwnsRow'
  BY <1>2 DEF IInv, OwnsRow, Committed
<1>4. AcknowledgedIsRecorded'
  BY <1>1 DEF IInv, AcknowledgedIsRecorded
<1>5. QED BY <1>3, <1>4 DEF IInv

LEMMA ClosePendingKeeps ==
  ASSUME NEW st, ClosePending(st), NEW r \in Row, rows[r].status = "RESOLVED"
  PROVE  rows'[r] = rows[r]
  BY DEF ClosePending, Pending

LEMMA InsertRowKeeps ==
  ASSUME TypeOK, InsertRow, NEW r \in Row, rows[r].status = "RESOLVED"
  PROVE  rows'[r] = rows[r]
<1>1. CASE Pending # {}
  BY <1>1 DEF InsertRow, Pending
<1>2. CASE Pending = {}
  <2>1. PICK q \in Row :
          /\ rows[q].status = "absent"
          /\ rows' = [rows EXCEPT ![q] = [Absent EXCEPT !.status = "PENDING", !.visit = visit]]
    BY <1>2 DEF InsertRow
  <2>2. QED BY <2>1 DEF TypeOK
<1>3. QED BY <1>1, <1>2

LEMMA WorkflowStep ==
  ASSUME IInv, TypeOK',
         Notify \/ NotifyFails \/ ReceiveAnswer \/ TimeOut \/ MarkTimedOut \/ CancelRun
           \/ RunStops \/ SweepPending \/ FinalizeRun \/ UNCHANGED vars
  PROVE  IInv'
<1>1. UNCHANGED <<resp, acked>>
  BY DEF Notify, NotifyFails, ReceiveAnswer, TimeOut, MarkTimedOut, CancelRun, RunStops,
         SweepPending, FinalizeRun, vars
<1>2. ASSUME NEW r \in Row, rows[r].status = "RESOLVED" PROVE rows'[r] = rows[r]
  BY <1>2, InsertRowKeeps, ClosePendingKeeps
  DEF IInv, Notify, NotifyFails, ReceiveAnswer, TimeOut, MarkTimedOut, CancelRun, RunStops,
      SweepPending, FinalizeRun, vars
<1>3. QED BY <1>1, <1>2, RowStep

\* A response that ends or has not committed yet, with no other change, keeps
\* the invariant.
LEMMA RespStep ==
  ASSUME IInv, TypeOK', NEW u \in User, UNCHANGED <<rows, acked>>,
         \A v \in User \ {u} : resp'[v] = resp[v],
         ~Committed(u)'
  PROVE  IInv'
<1>1. OwnsRow'
  BY DEF IInv, OwnsRow, Committed
<1>2. QED BY <1>1 DEF IInv, AcknowledgedIsRecorded

LEMMA CommitStep ==
  ASSUME IInv, TypeOK', NEW u \in User, CommitAnswer(u)
  PROVE  IInv'
<1> DEFINE r == resp[u].row
           by == ApproversWith(u, resp[u])
<1>1. r \in Row /\ resp[u].act \in Action
  BY DEF CommitAnswer, IInv, TypeOK, Idle
<1>2. CASE ~(rows[r].status = "PENDING" /\ Cardinality(by) >= Quorum(resp[u]))
  <2>1. rows' = rows /\ resp' = [resp EXCEPT ![u] = Idle]
    BY <1>2 DEF CommitAnswer
  <2>2. resp'[u] = Idle
    BY <2>1 DEF IInv, TypeOK
  <2>3. \A v \in User \ {u} : resp'[v] = resp[v]
    BY <2>1 DEF IInv, TypeOK
  <2>4. QED BY <2>1, <2>2, <2>3, RespStep DEF CommitAnswer, Committed
<1>3. CASE rows[r].status = "PENDING" /\ Cardinality(by) >= Quorum(resp[u])
  <2>1. /\ rows' = [rows EXCEPT ![r].status = "RESOLVED", ![r].by = u, ![r].act = resp[u].act]
        /\ resp' = [resp EXCEPT ![u] = [resp[u] EXCEPT !.pc = "signal"]]
        /\ acked' = acked
    BY <1>3 DEF CommitAnswer
  <2>2. /\ rows'[r].status = "RESOLVED" /\ rows'[r].by = u /\ rows'[r].act = resp[u].act
        /\ \A q \in Row \ {r} : rows'[q] = rows[q]
    BY <1>1, <2>1 DEF IInv, TypeOK
  <2>3. /\ resp'[u].row = r /\ resp'[u].act = resp[u].act
        /\ \A v \in User \ {u} : resp'[v] = resp[v]
    <3>1. resp[u] \in [pc : {"checked", "signal", "rollback"}, row : Row, act : Action]
      BY DEF CommitAnswer, IInv, TypeOK, Idle
    <3>2. QED BY <2>1, <3>1 DEF IInv, TypeOK
  <2>4. \A a \in acked : a.row # r /\ a.row \in Row
    BY <1>3 DEF IInv, AcknowledgedIsRecorded, TypeOK, Answer
  <2>5. \A v \in User : Committed(v) => resp[v].row # r /\ resp[v].row \in Row
    BY <1>3 DEF IInv, OwnsRow, TypeOK, Committed
  <2>6. OwnsRow'
    <3> SUFFICES ASSUME NEW v \in User, Committed(v)'
                 PROVE  /\ rows'[resp'[v].row].status = "RESOLVED"
                        /\ rows'[resp'[v].row].by = v
                        /\ rows'[resp'[v].row].act = resp'[v].act
                        /\ \A a \in acked' : a.row # resp'[v].row
      BY DEF OwnsRow
    <3>1. CASE v = u
      BY <3>1, <2>1, <2>2, <2>3, <2>4
    <3>2. CASE v # u
      <4>1. resp'[v] = resp[v] /\ Committed(v)
        BY <3>2, <2>3 DEF Committed
      <4>2. resp[v].row \in Row \ {r}
        BY <4>1, <2>5
      <4>3. rows'[resp[v].row] = rows[resp[v].row]
        BY <4>2, <2>2
      <4>4. acked' = acked
        BY <2>1
      <4>5. QED BY <4>1, <4>3, <4>4 DEF IInv, OwnsRow
    <3>3. QED BY <3>1, <3>2
  <2>7. AcknowledgedIsRecorded'
    BY <2>1, <2>2, <2>4 DEF IInv, AcknowledgedIsRecorded
  <2>8. QED BY <2>6, <2>7 DEF IInv
<1>4. QED BY <1>2, <1>3

LEMMA DeliverStep ==
  ASSUME IInv, TypeOK', NEW u \in User, SignalDelivered(u)
  PROVE  IInv'
<1>1. Committed(u) /\ resp[u].row \in Row
  BY DEF SignalDelivered, Committed, IInv, TypeOK, Idle
<1>2. /\ resp'[u] = Idle /\ \A v \in User \ {u} : resp'[v] = resp[v]
      /\ rows' = rows /\ acked' = acked \cup {AnswerOf(u)}
  BY DEF SignalDelivered, IInv, TypeOK
<1>3. /\ AnswerOf(u).row = resp[u].row /\ AnswerOf(u).user = u
      /\ AnswerOf(u).act = resp[u].act
  BY DEF AnswerOf
<1>4. \A v \in User \ {u} : Committed(v) => resp[v].row # resp[u].row
  BY <1>1 DEF IInv, OwnsRow
<1>5. OwnsRow'
  BY <1>2, <1>3, <1>4 DEF IInv, OwnsRow, Committed
<1>6. AcknowledgedIsRecorded'
  BY <1>1, <1>2, <1>3 DEF IInv, AcknowledgedIsRecorded, OwnsRow
<1>7. QED BY <1>5, <1>6 DEF IInv

LEMMA TransientStep ==
  ASSUME IInv, TypeOK', NEW u \in User, SignalTransient(u)
  PROVE  IInv'
<1>1. Committed(u)
  BY DEF SignalTransient, Committed, IInv, TypeOK, Idle
<1>2. resp[u] \in [pc : {"checked", "signal", "rollback"}, row : Row, act : Action]
  BY DEF SignalTransient, IInv, TypeOK, Idle
<1>3. /\ resp'[u].row = resp[u].row /\ resp'[u].act = resp[u].act
          /\ \A v \in User \ {u} : resp'[v] = resp[v]
      /\ rows' = rows /\ acked' = acked
  BY <1>2 DEF SignalTransient, IInv, TypeOK
<1>4. \A v \in User : Committed(v)' => Committed(v)
  BY <1>1, <1>3 DEF Committed
<1>5. OwnsRow'
  BY <1>3, <1>4 DEF IInv, OwnsRow
<1>6. QED BY <1>3, <1>5 DEF IInv, AcknowledgedIsRecorded

LEMMA RollbackStep ==
  ASSUME IInv, TypeOK', NEW u \in User, Rollback(u)
  PROVE  IInv'
<1> DEFINE r == resp[u].row
<1>1. Committed(u) /\ r \in Row
  BY DEF Rollback, Committed, IInv, TypeOK, Idle
<1>2. /\ resp'[u] = Idle /\ \A v \in User \ {u} : resp'[v] = resp[v]
      /\ acked' = acked
      /\ \A q \in Row \ {r} : rows'[q] = rows[q]
  BY <1>1 DEF Rollback, IInv, TypeOK
<1>3. \A v \in User \ {u} : Committed(v) => resp[v].row \in Row \ {r}
  BY <1>1 DEF IInv, OwnsRow, TypeOK, Committed
<1>4. \A a \in acked : a.row \in Row \ {r}
  BY <1>1 DEF IInv, OwnsRow, TypeOK, Answer
<1>5. \A v \in User : Committed(v)' => v # u /\ Committed(v)
  BY <1>2 DEF Committed
<1>6. OwnsRow'
  BY <1>2, <1>3, <1>5 DEF IInv, OwnsRow
<1>7. AcknowledgedIsRecorded'
  BY <1>2, <1>4 DEF IInv, AcknowledgedIsRecorded
<1>8. QED BY <1>6, <1>7 DEF IInv

\* A gateway step that only ends or starts a response.
LEMMA QuietStep ==
  ASSUME IInv, TypeOK', NEW u \in User,
         CheckStep(u) \/ SignalTerminal(u) \/ RollbackFails(u) \/ GatewayCrash(u)
  PROVE  IInv'
<1>1. UNCHANGED <<rows, acked>> /\ \A v \in User \ {u} : resp'[v] = resp[v]
  BY DEF CheckStep, SignalTerminal, RollbackFails, GatewayCrash, IInv, TypeOK
<1>2. ~Committed(u)'
  <2>1. CASE CheckStep(u)
    BY <2>1 DEF CheckStep, IInv, TypeOK, Committed
  <2>2. CASE SignalTerminal(u) \/ RollbackFails(u) \/ GatewayCrash(u)
    BY <2>2 DEF SignalTerminal, RollbackFails, GatewayCrash, IInv, TypeOK, Committed
  <2>3. QED BY <2>1, <2>2
<1>3. QED BY <1>1, <1>2, RespStep

LEMMA Inductive == IInv /\ [Next]_vars => IInv'
<1> SUFFICES ASSUME IInv, [Next]_vars PROVE IInv'
  OBVIOUS
<1>1. TypeOK'
  BY TypeCorrect DEF IInv
<1>2. QED
  BY <1>1, WorkflowStep, CommitStep, DeliverStep, TransientStep, RollbackStep, QuietStep DEF Next

\* The inductive invariant of the human step.
THEOREM Invariance == Spec => []IInv
<1>1. Init => IInv
  <2> SUFFICES ASSUME Init PROVE IInv
    OBVIOUS
  <2>1. TypeOK
    BY InitTypeOK
  <2>2. QED BY <2>1 DEF Init, IInv, OwnsRow, Committed, AcknowledgedIsRecorded
<1>2. QED BY <1>1, Inductive, PTL DEF Spec

\* An answer reported as sent stays the recorded outcome of its step.
THEOREM AcknowledgedIsRecordedHolds == Spec => []AcknowledgedIsRecorded
<1>1. IInv => AcknowledgedIsRecorded
  BY DEF IInv
<1>2. QED BY <1>1, Invariance, PTL

\* A closed step stays closed; an answered one is reopened only by the rollback
\* of the answer that resolved it.
THEOREM ClosedStaysClosedHolds == Spec => ClosedStaysClosed
<1> DEFINE Keeps(r) ==
      /\ rows[r].status \in {"TIMED_OUT", "CANCELLED"} => rows'[r] = rows[r]
      /\ rows[r].status = "RESOLVED" /\ rows'[r] # rows[r] =>
           /\ rows'[r].status = "PENDING"
           /\ resp[rows[r].by] # Idle /\ resp[rows[r].by].pc = "rollback"
           /\ resp[rows[r].by].row = r
<1>1. ASSUME IInv, [Next]_vars, NEW r \in Row PROVE Keeps(r)
  <2>1. CASE Notify
    <3>1. InsertRow
      BY <2>1 DEF Notify
    <3>2. CASE Pending # {}
      BY <3>1, <3>2 DEF InsertRow, Pending
    <3>3. CASE Pending = {}
      <4>1. PICK q \in Row :
              /\ rows[q].status = "absent"
              /\ rows' = [rows EXCEPT ![q] = [Absent EXCEPT !.status = "PENDING", !.visit = visit]]
        BY <3>1, <3>3 DEF InsertRow
      <4>2. QED BY <4>1, <1>1 DEF IInv, TypeOK
    <3>4. QED BY <3>2, <3>3
  <2>2. CASE MarkTimedOut \/ SweepPending
    BY <2>2, <1>1 DEF MarkTimedOut, SweepPending, ClosePending, Pending
  <2>3. CASE NotifyFails \/ ReceiveAnswer \/ TimeOut \/ CancelRun \/ RunStops \/ FinalizeRun
             \/ UNCHANGED vars
    BY <2>3 DEF NotifyFails, ReceiveAnswer, TimeOut, CancelRun, RunStops, FinalizeRun, vars
  <2>4. ASSUME NEW u \in User,
               CheckStep(u) \/ SignalDelivered(u) \/ SignalTerminal(u) \/ SignalTransient(u)
                 \/ RollbackFails(u) \/ GatewayCrash(u)
        PROVE  Keeps(r)
    BY <2>4 DEF CheckStep, SignalDelivered, SignalTerminal, SignalTransient, RollbackFails,
                GatewayCrash
  <2>5. ASSUME NEW u \in User, CommitAnswer(u) PROVE Keeps(r)
    <3>1. CASE rows[resp[u].row].status # "PENDING"
      BY <2>5, <3>1 DEF CommitAnswer
    <3>2. CASE rows[resp[u].row].status = "PENDING"
      <4>1. r # resp[u].row => rows'[r] = rows[r]
        BY <2>5, <1>1 DEF CommitAnswer, IInv, TypeOK
      <4>2. QED BY <3>2, <4>1
    <3>3. QED BY <3>1, <3>2
  <2>6. ASSUME NEW u \in User, Rollback(u) PROVE Keeps(r)
    <3>1. /\ resp[u] # Idle /\ resp[u].pc = "rollback" /\ Committed(u)
          /\ resp[u].row \in Row
      BY <2>6, <1>1 DEF Rollback, Committed, IInv, TypeOK, Idle
    <3>2. /\ rows[resp[u].row].status = "RESOLVED"
          /\ rows[resp[u].row].by = u
      BY <3>1, <1>1 DEF IInv, OwnsRow
    <3>3. CASE r # resp[u].row
      BY <2>6, <3>3, <1>1 DEF Rollback, IInv, TypeOK
    <3>4. CASE r = resp[u].row
      BY <2>6, <3>1, <3>2, <3>4, <1>1 DEF Rollback, IInv, TypeOK
    <3>5. QED BY <3>3, <3>4
  <2>7. QED BY <2>1, <2>2, <2>3, <2>4, <2>5, <2>6, <1>1 DEF Next
<1>2. IInv /\ [Next]_vars => [\A r \in Row : Keeps(r)]_vars
  BY <1>1
<1>3. QED BY <1>2, Invariance, PTL DEF Spec, ClosedStaysClosed

-----------------------------------------------------------------------------
(* Why an approval is backed.  An open row's approvals are those that      *)
(* stand, fewer than required; the response that resolved a row brought    *)
(* the quorum about, and its rollback gives the row back as it found it.   *)

OpenCount(counted, standing) == counted = standing /\ Cardinality(standing) < Required

Counts ==
  /\ \A r \in Row : IsFiniteSet(stands[r])
  /\ \A r \in Row : rows[r].status \in {"absent", "PENDING"} =>
                      OpenCount(approvals[r], stands[r])
  /\ \A u \in User : Committed(u) =>
       OpenCount(WithoutApproval(u)[resp[u].row], Withdrawn(u)[resp[u].row])

\* A response on its way that approves made its row's quorum.
HasQuorum ==
  \A u \in User : Committed(u) /\ resp[u].act = "approve" =>
    u \in stands[resp[u].row] /\ Cardinality(stands[resp[u].row]) >= Required

Backs(standing, a) ==
  a.act = "approve" => Cardinality(standing[a.row] \cup {a.user}) >= Required

\* No rollback that may still come takes the backing away.
StaysBacked == \A a \in slot : \A u \in User : Committed(u) => Backs(Withdrawn(u), a)

QInv == Counts /\ HasQuorum /\ StaysBacked /\ ApprovalIsBacked

\* More people behind an answer do not make it less backed.
LEMMA MoreBacks ==
  ASSUME NEW S, NEW T, NEW x, IsFiniteSet(T), S \subseteq T, Cardinality(S \cup {x}) >= Required
  PROVE  Cardinality(T \cup {x}) >= Required
<1>1. IsFiniteSet(T \cup {x})
  BY FS_AddElement
<1>2. S \cup {x} \in SUBSET (T \cup {x})
  OBVIOUS
<1>3. Cardinality(S \cup {x}) <= Cardinality(T \cup {x}) /\ IsFiniteSet(S \cup {x})
  BY <1>1, <1>2, FS_Subset
<1>4. Cardinality(S \cup {x}) \in Nat /\ Cardinality(T \cup {x}) \in Nat
  BY <1>1, <1>3, FS_CardinalityType
<1>5. QED BY <1>3, <1>4, BoundsAssumption

LEMMA CommittedType ==
  ASSUME TypeOK, NEW u \in User, Committed(u)
  PROVE  resp[u] \in [pc : {"checked", "signal", "rollback"}, row : Row, act : Action]
  BY DEF TypeOK, Committed

\* What u's rollback would take away: u, from the one row.
LEMMA WithdrawnAt ==
  ASSUME TypeOK, NEW u \in User, Committed(u), NEW q \in Row
  PROVE  /\ q # resp[u].row => Withdrawn(u)[q] = stands[q] /\ WithoutApproval(u)[q] = approvals[q]
         /\ stands[q] \ {u} \subseteq Withdrawn(u)[q] /\ Withdrawn(u)[q] \subseteq stands[q]
  BY CommittedType DEF Withdrawn, WithoutApproval, TypeOK

\* A step that records and withdraws no approval and opens no row.
LEMMA CountsKept ==
  ASSUME TypeOK, TypeOK', QInv, UNCHANGED <<approvals, stands>>,
         \A r \in Row : rows'[r].status \in {"absent", "PENDING"} =>
                          rows[r].status \in {"absent", "PENDING"},
         \A u \in User : Committed(u)' =>
           Committed(u) /\ resp'[u].row = resp[u].row /\ resp'[u].act = resp[u].act
  PROVE  /\ Counts' /\ HasQuorum'
         /\ \A u \in User : Committed(u)' => Withdrawn(u)' = Withdrawn(u)
<1>1. ASSUME NEW u \in User, Committed(u)'
      PROVE  /\ Withdrawn(u)' = Withdrawn(u) /\ WithoutApproval(u)' = WithoutApproval(u)
             /\ Committed(u) /\ resp'[u].row = resp[u].row
  BY <1>1 DEF Withdrawn, WithoutApproval, IsMulti
<1>2. Counts'
  BY <1>1 DEF QInv, Counts, OpenCount
<1>3. HasQuorum'
  BY DEF QInv, HasQuorum
<1>4. QED BY <1>1, <1>2, <1>3

LEMMA NothingTaken ==
  ASSUME TypeOK, TypeOK', QInv, UNCHANGED <<approvals, stands>>, slot' \subseteq slot,
         \A r \in Row : rows'[r].status \in {"absent", "PENDING"} =>
                          rows[r].status \in {"absent", "PENDING"},
         \A u \in User : Committed(u)' =>
           Committed(u) /\ resp'[u].row = resp[u].row /\ resp'[u].act = resp[u].act
  PROVE  QInv'
<1>1. Counts' /\ HasQuorum' /\ \A u \in User : Committed(u)' => Withdrawn(u)' = Withdrawn(u)
  BY CountsKept
<1>2. StaysBacked'
  BY <1>1 DEF QInv, StaysBacked, Backs
<1>3. ApprovalIsBacked'
  BY DEF QInv, ApprovalIsBacked
<1>4. QED BY <1>1, <1>2, <1>3 DEF QInv

LEMMA WorkflowTakesNothing ==
  ASSUME IInv, TypeOK', QInv,
         Notify \/ NotifyFails \/ ReceiveAnswer \/ TimeOut \/ MarkTimedOut \/ CancelRun
           \/ RunStops \/ SweepPending \/ FinalizeRun \/ UNCHANGED vars
  PROVE  QInv'
<1>1. UNCHANGED <<resp, approvals, stands>> /\ slot' \subseteq slot
  BY DEF Notify, NotifyFails, ReceiveAnswer, TimeOut, MarkTimedOut, CancelRun, RunStops,
         SweepPending, FinalizeRun, vars
<1>2. ASSUME NEW r \in Row, rows'[r].status \in {"absent", "PENDING"}
      PROVE  rows[r].status \in {"absent", "PENDING"}
  <2>1. CASE Notify
    <3>1. CASE Pending # {}
      BY <1>2, <2>1, <3>1 DEF Notify, InsertRow, Pending, IInv, TypeOK
    <3>2. CASE Pending = {}
      <4>1. PICK q \in Row :
              /\ rows[q].status = "absent"
              /\ rows' = [rows EXCEPT ![q] = [Absent EXCEPT !.status = "PENDING", !.visit = visit]]
        BY <2>1, <3>2 DEF Notify, InsertRow
      <4>2. QED BY <1>2, <4>1 DEF IInv, TypeOK
    <3>3. QED BY <3>1, <3>2
  <2>2. CASE MarkTimedOut \/ SweepPending
    BY <1>2, <2>2 DEF MarkTimedOut, SweepPending, ClosePending, Pending, IInv, TypeOK
  <2>3. CASE NotifyFails \/ ReceiveAnswer \/ TimeOut \/ CancelRun \/ RunStops \/ FinalizeRun
             \/ UNCHANGED vars
    BY <1>2, <2>3 DEF NotifyFails, ReceiveAnswer, TimeOut, CancelRun, RunStops, FinalizeRun, vars
  <2>4. QED BY <2>1, <2>2, <2>3
<1>3. \A u \in User : Committed(u)' =>
        Committed(u) /\ resp'[u].row = resp[u].row /\ resp'[u].act = resp[u].act
  BY <1>1 DEF Committed
<1>4. QED BY <1>1, <1>2, <1>3, NothingTaken DEF IInv

\* The response that resolved a row ends unanswered: its approval is taken back,
\* in the history, in the row it may be, and in both if the row is open again.
LEMMA TakenBack ==
  ASSUME IInv, TypeOK', QInv, NEW u \in User, Committed(u), slot' = slot,
         resp'[u] = Idle, \A v \in User \ {u} : resp'[v] = resp[v],
         stands' \in {stands, Withdrawn(u)}, approvals' \in {approvals, WithoutApproval(u)},
         \A q \in Row \ {resp[u].row} : rows'[q] = rows[q],
         rows'[resp[u].row].status \in {"absent", "PENDING"} =>
           stands' = Withdrawn(u) /\ approvals' = WithoutApproval(u)
  PROVE  QInv'
<1> DEFINE r == resp[u].row
<1>1. r \in Row
  BY CommittedType DEF IInv
<1>2. ASSUME NEW q \in Row \ {r} PROVE stands'[q] = stands[q] /\ approvals'[q] = approvals[q]
  BY <1>2, WithdrawnAt DEF IInv
<1>3. ASSUME NEW v \in User, Committed(v)'
      PROVE  /\ v # u /\ Committed(v) /\ resp'[v] = resp[v] /\ resp[v].row \in Row \ {r}
             /\ Withdrawn(v)'[resp[v].row] = Withdrawn(v)[resp[v].row]
             /\ WithoutApproval(v)'[resp[v].row] = WithoutApproval(v)[resp[v].row]
             /\ \A q \in Row : q # resp[v].row => Withdrawn(v)'[q] = stands'[q]
  <2>1. v # u /\ resp'[v] = resp[v] /\ Committed(v)
    BY <1>3 DEF Committed
  <2>2. resp[v].row # r
    BY <2>1 DEF IInv, OwnsRow
  <2>3. resp[v] \in [pc : {"checked", "signal", "rollback"}, row : Row, act : Action]
    BY <2>1, CommittedType DEF IInv
  <2>4. /\ stands'[resp[v].row] = stands[resp[v].row]
        /\ approvals'[resp[v].row] = approvals[resp[v].row]
    BY <1>2, <2>2, <2>3
  <2>5. QED BY <2>1, <2>2, <2>3, <2>4 DEF Withdrawn, WithoutApproval, IsMulti, IInv, TypeOK
<1>4. ASSUME NEW q \in Row PROVE IsFiniteSet(stands'[q])
  <2>1. Withdrawn(u)[q] \in SUBSET stands[q]
    BY WithdrawnAt DEF IInv
  <2>2. IsFiniteSet(stands[q])
    BY DEF QInv, Counts
  <2>3. QED BY <2>1, <2>2, FS_Subset
<1>5. Counts'
  <2>1. ASSUME NEW q \in Row, rows'[q].status \in {"absent", "PENDING"}
        PROVE  OpenCount(approvals'[q], stands'[q])
    <3>1. CASE q = r
      BY <2>1, <3>1 DEF QInv, Counts
    <3>2. CASE q # r
      BY <1>2, <2>1, <3>2 DEF QInv, Counts
    <3>3. QED BY <3>1, <3>2
  <2>2. ASSUME NEW v \in User, Committed(v)'
        PROVE  OpenCount(WithoutApproval(v)'[resp'[v].row], Withdrawn(v)'[resp'[v].row])
    BY <1>3, <2>2 DEF QInv, Counts
  <2>3. QED BY <1>4, <2>1, <2>2 DEF Counts, OpenCount
<1>6. HasQuorum'
  BY <1>2, <1>3 DEF QInv, HasQuorum
<1>7. ASSUME NEW a \in slot PROVE Backs(stands', a)
  BY DEF QInv, StaysBacked, ApprovalIsBacked, Backs
<1>8. ApprovalIsBacked'
  BY <1>7 DEF ApprovalIsBacked, Backs
<1>9. ASSUME NEW a \in slot, NEW v \in User, Committed(v)' PROVE Backs(Withdrawn(v)', a)
  <2>1. a.row \in Row
    BY DEF IInv, TypeOK, Answer
  <2>2. CASE a.row = resp[v].row
    BY <1>3, <1>9, <2>2 DEF QInv, StaysBacked, Backs
  <2>3. CASE a.row # resp[v].row
    BY <1>3, <1>7, <1>9, <2>1, <2>3 DEF Backs
  <2>4. QED BY <2>2, <2>3
<1>10. StaysBacked'
  BY <1>9 DEF StaysBacked, Backs
<1>11. QED BY <1>5, <1>6, <1>8, <1>10 DEF QInv
\* A fresh answer, taken back, would leave its row as it was.
LEMMA CommitTakesNothing ==
  ASSUME IInv, TypeOK', QInv, NEW u \in User, CommitAnswer(u)
  PROVE  QInv'
<1> DEFINE r == resp[u].row
           by == ApproversWith(u, resp[u])
           resolves == Cardinality(by) >= Quorum(resp[u])
<1>1. /\ resp[u] \in [pc : {"checked", "signal", "rollback"}, row : Row, act : Action]
      /\ r \in Row /\ resp[u].pc = "checked" /\ ~Committed(u) /\ slot' = slot
      /\ \A v \in User \ {u} : resp'[v] = resp[v]
  BY DEF CommitAnswer, Committed, IInv, TypeOK, Idle
<1>2. CASE rows[r].status # "PENDING"
  <2>1. UNCHANGED <<rows, approvals, stands>> /\ resp'[u] = Idle
    BY <1>2 DEF CommitAnswer, IInv, TypeOK
  <2>2. \A v \in User : Committed(v)' => Committed(v) /\ resp'[v] = resp[v]
    BY <1>1, <2>1 DEF Committed
  <2>3. QED BY <1>1, <2>1, <2>2, NothingTaken DEF IInv
<1>3. CASE rows[r].status = "PENDING"
  <2>1. /\ approvals[r] = stands[r] /\ IsFiniteSet(stands[r])
        /\ Cardinality(stands[r]) < Required /\ Cardinality(stands[r]) \in Nat
    BY <1>1, <1>3, FS_CardinalityType DEF QInv, Counts, OpenCount
  <2>2. /\ stands' = [stands EXCEPT ![r] = Standing(u, resp[u])]
        /\ approvals' = IF IsMulti(resp[u]) THEN [approvals EXCEPT ![r] = by] ELSE approvals
        /\ rows' = IF resolves
                   THEN [rows EXCEPT ![r].status = "RESOLVED", ![r].by = u, ![r].act = resp[u].act]
                   ELSE rows
        /\ resp' = [resp EXCEPT ![u] = IF resolves THEN [resp[u] EXCEPT !.pc = "signal"] ELSE Idle]
    BY <1>3 DEF CommitAnswer
  <2>3. /\ stands'[r] = Standing(u, resp[u])
        /\ approvals'[r] = IF IsMulti(resp[u]) THEN by ELSE approvals[r]
        /\ \A q \in Row \ {r} : stands'[q] = stands[q] /\ approvals'[q] = approvals[q]
                                 /\ rows'[q] = rows[q]
    BY <1>1, <2>2 DEF IInv, TypeOK
  <2>4. ASSUME NEW q \in Row PROVE stands[q] \subseteq stands'[q] /\ IsFiniteSet(stands'[q])
    <3>1. CASE q # r
      BY <2>3, <3>1 DEF QInv, Counts
    <3>2. CASE q = r
      <4>1. stands'[r] = stands[r] \cup {u} \/ stands'[r] = stands[r]
        BY <2>3 DEF Standing
      <4>2. IsFiniteSet(stands[r] \cup {u})
        BY <2>1, FS_AddElement
      <4>3. QED BY <2>1, <3>2, <4>1, <4>2
    <3>3. QED BY <3>1, <3>2
  <2>5. ASSUME NEW v \in User \ {u}, Committed(v)'
        PROVE  /\ Committed(v) /\ resp'[v] = resp[v] /\ resp[v].row \in Row \ {r}
               /\ Withdrawn(v)'[resp[v].row] = Withdrawn(v)[resp[v].row]
               /\ WithoutApproval(v)'[resp[v].row] = WithoutApproval(v)[resp[v].row]
               /\ \A q \in Row : Withdrawn(v)[q] \subseteq Withdrawn(v)'[q]
    <3>1. resp'[v] = resp[v] /\ Committed(v)
      BY <1>1, <2>5 DEF Committed
    <3>2. resp[v].row # r
      BY <1>3, <3>1 DEF IInv, OwnsRow
    <3>3. resp[v] \in [pc : {"checked", "signal", "rollback"}, row : Row, act : Action]
      BY <3>1, CommittedType DEF IInv
    <3>4. /\ stands'[resp[v].row] = stands[resp[v].row]
          /\ approvals'[resp[v].row] = approvals[resp[v].row]
      BY <2>3, <3>2, <3>3
    <3>5. QED BY <2>4, <3>1, <3>2, <3>3, <3>4 DEF Withdrawn, WithoutApproval, IsMulti, IInv, TypeOK
  <2>6. ASSUME NEW a \in slot, NEW S, NEW T, S = stands \/ \E v \in User : S = Withdrawn(v),
               Backs(S, a), S[a.row] \subseteq T[a.row], IsFiniteSet(T[a.row])
        PROVE  Backs(T, a)
    BY <2>6, MoreBacks DEF Backs
  <2>7. ASSUME NEW a \in slot PROVE a.row \in Row /\ Backs(stands, a) /\ Backs(stands', a)
    <3>1. a.row \in Row /\ Backs(stands, a)
      BY DEF IInv, TypeOK, Answer, QInv, ApprovalIsBacked, Backs
    <3>2. QED BY <2>4, <2>6, <3>1
  <2>8. ApprovalIsBacked'
    BY <1>1, <2>7 DEF ApprovalIsBacked, Backs
  <2>9. ASSUME NEW v \in User \ {u}, Committed(v)', NEW a \in slot PROVE Backs(Withdrawn(v)', a)
    <3>1. Committed(v) /\ a.row \in Row /\ Withdrawn(v)[a.row] \subseteq Withdrawn(v)'[a.row]
      BY <2>5, <2>7, <2>9
    <3>2. Backs(Withdrawn(v), a)
      BY <3>1 DEF QInv, StaysBacked
    <3>3. Withdrawn(v)'[a.row] \in SUBSET stands'[a.row]
      BY <2>5, <2>9, <3>1, CommittedType, WithdrawnAt DEF Withdrawn, IInv, TypeOK
    <3>4. IsFiniteSet(Withdrawn(v)'[a.row])
      BY <2>4, <3>1, <3>3, FS_Subset
    <3>5. QED BY <2>6, <3>1, <3>2, <3>4
  <2>10. CASE ~resolves
    <3>1. /\ rows' = rows /\ resp'[u] = Idle
      BY <2>2, <2>10 DEF IInv, TypeOK
    <3>2. IsMulti(resp[u])
      <4>1. ASSUME ~IsMulti(resp[u]) PROVE FALSE
        <5>1. by = {u} /\ Quorum(resp[u]) = 1
          BY <4>1 DEF ApproversWith, Quorum
        <5>2. Cardinality({u}) = 1
          BY FS_Singleton
        <5>3. QED BY <2>10, <5>1, <5>2
      <4>2. QED BY <4>1
    <3>3. /\ by = stands[r] \cup {u} /\ stands'[r] = by /\ approvals'[r] = by
          /\ IsFiniteSet(by) /\ Cardinality(by) < Required
      <4>1. by = stands[r] \cup {u} /\ stands'[r] = by /\ approvals'[r] = by
        BY <2>1, <2>3, <3>2 DEF ApproversWith, Standing, IsMulti
      <4>2. IsFiniteSet(by) /\ Cardinality(by) \in Nat
        BY <2>1, <4>1, FS_AddElement, FS_CardinalityType
      <4>3. QED BY <2>10, <3>2, <4>1, <4>2, BoundsAssumption DEF Quorum
    <3>4. \A v \in User : Committed(v)' => v \in User \ {u}
      BY <3>1 DEF Committed
    <3>5. ASSUME NEW q \in Row, rows'[q].status \in {"absent", "PENDING"}
          PROVE  OpenCount(approvals'[q], stands'[q])
      <4>1. CASE q = r
        BY <3>3, <4>1 DEF OpenCount
      <4>2. CASE q # r
        BY <2>3, <3>5, <4>2 DEF QInv, Counts
      <4>3. QED BY <4>1, <4>2
    <3>6. ASSUME NEW v \in User, Committed(v)'
          PROVE  OpenCount(WithoutApproval(v)'[resp'[v].row], Withdrawn(v)'[resp'[v].row])
      BY <2>5, <3>4, <3>6 DEF QInv, Counts
    <3>7. Counts'
      BY <2>4, <3>5, <3>6 DEF Counts, OpenCount
    <3>8. HasQuorum'
      BY <2>3, <2>5, <3>4 DEF QInv, HasQuorum
    <3>9. StaysBacked'
      BY <1>1, <2>9, <3>4 DEF StaysBacked, Backs
    <3>10. QED BY <2>8, <3>7, <3>8, <3>9 DEF QInv
  <2>11. CASE resolves
    <3>1. resp'[u] = [resp[u] EXCEPT !.pc = "signal"] /\ rows'[r].status = "RESOLVED"
      BY <1>1, <2>2, <2>11 DEF IInv, TypeOK
    <3>2. /\ resp'[u].row = r /\ resp'[u].act = resp[u].act
      BY <1>1, <3>1
    <3>3. resp[u].act = "approve" =>
            u \notin stands[r] /\ Cardinality(stands[r] \cup {u}) >= Required
      <4>1. SUFFICES ASSUME resp[u].act = "approve"
                     PROVE  u \notin stands[r] /\ Cardinality(stands[r] \cup {u}) >= Required
        OBVIOUS
      <4>2. CASE Required > 1
        <5>1. by = stands[r] \cup {u} /\ Cardinality(by) >= Required
          BY <2>1, <2>11, <4>1, <4>2 DEF ApproversWith, IsMulti, Quorum
        <5>2. u \notin stands[r]
          <6>1. u \in stands[r] => by = stands[r]
            BY <5>1
          <6>2. QED BY <2>1, <5>1, <6>1, BoundsAssumption
        <5>3. QED BY <5>1, <5>2
      <4>3. CASE ~(Required > 1)
        <5>1. Required = 1
          BY <4>3, BoundsAssumption
        <5>2. stands[r] = {}
          BY <2>1, <5>1, FS_EmptySet
        <5>3. stands[r] \cup {u} = {u}
          BY <5>2
        <5>4. QED BY <5>1, <5>2, <5>3, FS_Singleton
      <4>4. QED BY <4>2, <4>3
    <3>4. /\ \A q \in Row : Withdrawn(u)'[q] = stands[q]
          /\ WithoutApproval(u)'[r] = approvals[r]
      <4>1. ASSUME NEW q \in Row PROVE Withdrawn(u)'[q] = stands[q]
        <5>1. CASE resp[u].act = "approve"
          <6>1. stands'[r] \ {u} = stands[r]
            BY <2>3, <3>3, <5>1 DEF Standing
          <6>2. QED BY <1>1, <2>3, <3>2, <5>1, <6>1 DEF Withdrawn, TypeOK
        <5>2. CASE resp[u].act # "approve"
          BY <2>3, <3>2, <5>2 DEF Withdrawn, Standing
        <5>3. QED BY <5>1, <5>2
      <4>2. WithoutApproval(u)'[r] = approvals[r]
        <5>1. CASE IsMulti(resp[u])
          <6>1. approvals'[r] \ {u} = approvals[r]
            BY <2>1, <2>3, <3>3, <5>1 DEF ApproversWith, IsMulti
          <6>2. QED BY <1>1, <3>2, <5>1, <6>1 DEF WithoutApproval, IsMulti, TypeOK
        <5>2. CASE ~IsMulti(resp[u])
          BY <2>3, <3>2, <5>2 DEF WithoutApproval, IsMulti
        <5>3. QED BY <5>1, <5>2
      <4>3. QED BY <4>1, <4>2
    <3>5. ASSUME NEW q \in Row, rows'[q].status \in {"absent", "PENDING"}
          PROVE  OpenCount(approvals'[q], stands'[q])
      BY <2>3, <3>1, <3>5 DEF QInv, Counts
    <3>6. ASSUME NEW v \in User, Committed(v)'
          PROVE  OpenCount(WithoutApproval(v)'[resp'[v].row], Withdrawn(v)'[resp'[v].row])
      <4>1. CASE v = u
        BY <1>1, <2>1, <3>2, <3>4, <4>1 DEF OpenCount
      <4>2. CASE v # u
        BY <2>5, <3>6, <4>2 DEF QInv, Counts
      <4>3. QED BY <4>1, <4>2
    <3>7. Counts'
      BY <2>4, <3>5, <3>6 DEF Counts, OpenCount
    <3>8. HasQuorum'
      <4>1. ASSUME NEW v \in User, Committed(v)', resp'[v].act = "approve"
            PROVE  v \in stands'[resp'[v].row] /\ Cardinality(stands'[resp'[v].row]) >= Required
        <5>1. CASE v = u
          BY <2>3, <3>2, <3>3, <4>1, <5>1 DEF Standing
        <5>2. CASE v # u
          BY <2>3, <2>5, <4>1, <5>2 DEF QInv, HasQuorum
        <5>3. QED BY <5>1, <5>2
      <4>2. QED BY <4>1 DEF HasQuorum
    <3>9. StaysBacked'
      <4>1. ASSUME NEW a \in slot, NEW v \in User, Committed(v)' PROVE Backs(Withdrawn(v)', a)
        <5>1. CASE v = u
          BY <2>7, <3>4, <5>1 DEF Backs
        <5>2. CASE v # u
          BY <2>9, <4>1, <5>2
        <5>3. QED BY <5>1, <5>2
      <4>2. QED BY <1>1, <4>1 DEF StaysBacked, Backs
    <3>10. QED BY <2>8, <3>7, <3>8, <3>9 DEF QInv
  <2>12. QED BY <2>10, <2>11
<1>4. QED BY <1>2, <1>3

\* An answer that reaches the slot has its row's quorum, its sender's rollback
\* aside; every other response on its way is of another row.
LEMMA DeliveredIsBacked ==
  ASSUME IInv, QInv, NEW u \in User, Committed(u), NEW v \in User, Committed(v)
  PROVE  Backs(stands, AnswerOf(u)) /\ Backs(Withdrawn(v), AnswerOf(u))
<1>1. /\ AnswerOf(u).row = resp[u].row /\ AnswerOf(u).user = u /\ AnswerOf(u).act = resp[u].act
      /\ resp[u].row \in Row
  BY CommittedType DEF AnswerOf, IInv
<1>2. SUFFICES ASSUME resp[u].act = "approve"
               PROVE  /\ Cardinality(stands[resp[u].row] \cup {u}) >= Required
                      /\ Cardinality(Withdrawn(v)[resp[u].row] \cup {u}) >= Required
  BY <1>1 DEF Backs
<1>3. u \in stands[resp[u].row] /\ Cardinality(stands[resp[u].row]) >= Required
  BY <1>2 DEF QInv, HasQuorum
<1>4. stands[resp[u].row] \cup {u} = stands[resp[u].row]
  BY <1>3
<1>5. Withdrawn(v)[resp[u].row] \cup {u} = stands[resp[u].row]
  <2>1. CASE v = u
    BY <1>1, <1>3, <2>1, WithdrawnAt DEF IInv
  <2>2. CASE v # u
    <3>1. resp[v].row # resp[u].row
      BY <2>2 DEF IInv, OwnsRow
    <3>2. QED BY <1>1, <1>4, <3>1, WithdrawnAt DEF IInv
  <2>3. QED BY <2>1, <2>2
<1>6. QED BY <1>3, <1>4, <1>5

LEMMA SignalTakesNothing ==
  ASSUME IInv, TypeOK', QInv, NEW u \in User, SignalDelivered(u) \/ SignalTransient(u)
  PROVE  QInv'
<1>1. /\ Committed(u) /\ UNCHANGED <<rows, approvals, stands>>
      /\ slot' = slot \/ slot' = {AnswerOf(u)}
      /\ \A v \in User : Committed(v)' =>
           Committed(v) /\ resp'[v].row = resp[v].row /\ resp'[v].act = resp[v].act
  <2>1. resp[u] \in [pc : {"checked", "signal", "rollback"}, row : Row, act : Action]
    BY DEF SignalDelivered, SignalTransient, IInv, TypeOK, Idle
  <2>2. Committed(u)
    BY <2>1 DEF SignalDelivered, SignalTransient, Committed, Idle
  <2>3. \/ resp'[u] = Idle
        \/ resp'[u].row = resp[u].row /\ resp'[u].act = resp[u].act
    BY <2>1 DEF SignalDelivered, SignalTransient, IInv, TypeOK
  <2>4. \A v \in User \ {u} : resp'[v] = resp[v]
    BY DEF SignalDelivered, SignalTransient, IInv, TypeOK
  <2>5. QED BY <2>2, <2>3, <2>4 DEF SignalDelivered, SignalTransient, Committed
<1>2. Counts' /\ HasQuorum' /\ \A v \in User : Committed(v)' => Withdrawn(v)' = Withdrawn(v)
  BY <1>1, CountsKept DEF IInv
<1>3. ASSUME NEW a \in slot' PROVE Backs(stands', a)
  <2>1. CASE a \in slot
    BY <1>1, <2>1 DEF QInv, ApprovalIsBacked, Backs
  <2>2. CASE a = AnswerOf(u)
    BY <1>1, <2>2, DeliveredIsBacked
  <2>3. QED BY <1>1, <2>1, <2>2
<1>4. ASSUME NEW a \in slot', NEW v \in User, Committed(v)' PROVE Backs(Withdrawn(v)', a)
  <2>1. Committed(v) /\ Withdrawn(v)' = Withdrawn(v)
    BY <1>1, <1>2, <1>4
  <2>2. CASE a \in slot
    BY <2>1, <2>2 DEF QInv, StaysBacked
  <2>3. CASE a = AnswerOf(u)
    BY <1>1, <2>1, <2>3, DeliveredIsBacked
  <2>4. QED BY <1>1, <2>2, <2>3
<1>5. ApprovalIsBacked' /\ StaysBacked'
  BY <1>3, <1>4 DEF ApprovalIsBacked, StaysBacked, Backs
<1>6. QED BY <1>2, <1>5 DEF QInv

LEMMA EndTakesNothing ==
  ASSUME IInv, TypeOK', QInv, NEW u \in User,
         \/ CheckStep(u) \/ SignalTerminal(u)
         \/ Rollback(u) \/ RollbackFails(u) \/ GatewayCrash(u)
  PROVE  QInv'
<1>1. slot' = slot /\ \A v \in User \ {u} : resp'[v] = resp[v]
  BY DEF CheckStep, SignalTerminal, Rollback, RollbackFails, GatewayCrash, IInv, TypeOK
<1>2. CASE CheckStep(u) \/ SignalTerminal(u) \/ (GatewayCrash(u) /\ ~Committed(u))
  <2>1. UNCHANGED <<rows, approvals, stands>>
    BY <1>2 DEF CheckStep, SignalTerminal, GatewayCrash, Committed
  <2>2. ~Committed(u)'
    <3>1. CASE CheckStep(u)
      BY <3>1 DEF CheckStep, IInv, TypeOK, Committed
    <3>2. CASE SignalTerminal(u) \/ GatewayCrash(u)
      BY <3>2 DEF SignalTerminal, GatewayCrash, IInv, TypeOK, Committed
    <3>3. QED BY <1>2, <3>1, <3>2
  <2>3. \A v \in User : Committed(v)' => Committed(v) /\ resp'[v] = resp[v]
    BY <1>1, <2>2 DEF Committed
  <2>4. QED BY <1>1, <2>1, <2>3, NothingTaken DEF IInv
<1>3. CASE Rollback(u) \/ RollbackFails(u) \/ (GatewayCrash(u) /\ Committed(u))
  <2>1. Committed(u) /\ resp'[u] = Idle
    BY <1>3 DEF Rollback, RollbackFails, GatewayCrash, Committed, Idle, IInv, TypeOK
  <2>2. /\ stands' \in {stands, Withdrawn(u)} /\ approvals' \in {approvals, WithoutApproval(u)}
    BY <1>3 DEF Rollback, RollbackFails, GatewayCrash
  <2>3. resp[u].row \in Row /\ rows[resp[u].row].status = "RESOLVED"
    BY <2>1, CommittedType DEF IInv, OwnsRow
  <2>4. /\ \A q \in Row \ {resp[u].row} : rows'[q] = rows[q]
        /\ rows'[resp[u].row].status \in {"absent", "PENDING"} =>
             stands' = Withdrawn(u) /\ approvals' = WithoutApproval(u)
    BY <1>3, <2>3 DEF Rollback, RollbackFails, GatewayCrash, IInv, TypeOK
  <2>5. QED BY <1>1, <2>1, <2>2, <2>4, TakenBack
<1>4. QED BY <1>2, <1>3

\* An approval in the slot has the required number of people behind it whose
\* approvals stand: rollbackResolvedStep leaves no dead one for a later answer
\* to count.
THEOREM ApprovalIsBackedHolds == Spec => []ApprovalIsBacked
<1>1. Init => QInv
  <2> SUFFICES ASSUME Init PROVE QInv
    OBVIOUS
  <2>1. \A r \in Row : stands[r] = {} /\ approvals[r] = {}
    BY DEF Init
  <2>2. Counts
    BY <2>1, FS_EmptySet, BoundsAssumption DEF Init, Counts, OpenCount, Committed
  <2>3. QED BY <2>2 DEF Init, QInv, HasQuorum, StaysBacked, ApprovalIsBacked, Committed
<1>2. IInv /\ QInv /\ [Next]_vars => QInv'
  <2> SUFFICES ASSUME IInv, QInv, [Next]_vars PROVE QInv'
    OBVIOUS
  <2>1. TypeOK'
    BY TypeCorrect DEF IInv
  <2>2. QED BY <2>1, WorkflowTakesNothing, CommitTakesNothing, SignalTakesNothing,
               EndTakesNothing DEF Next
<1>3. QInv => ApprovalIsBacked
  BY DEF QInv
<1>4. QED BY <1>1, <1>2, <1>3, Invariance, PTL DEF Spec
-----------------------------------------------------------------------------
(* Why no run waits for nobody.  Only three steps can take away the last    *)
(* thing a waiting run could be answered by: a commit (which leaves its     *)
(* response to signal), a delivered signal (which fills the slot) and a     *)
(* rollback, whose row is still its own (OwnsRow) and is open afterwards    *)
(* unless another one is.                                                   *)

\* A step that may end no committed response and closes no row.
LEMMA StaysAnswerable ==
  ASSUME NeverStranded, wf' = wf, broken => broken',
         Pending # {} => Pending' # {}, slot # {} => slot' # {},
         \A u \in User : Committed(u) => Committed(u)'
  PROVE  NeverStranded'
  BY DEF NeverStranded, Committed

\* The workflow begins to wait only with an open row, or with a failure logged.
LEMMA WorkflowNeverStrands ==
  ASSUME TypeOK, NeverStranded,
         Notify \/ NotifyFails \/ ReceiveAnswer \/ TimeOut \/ MarkTimedOut \/ CancelRun
           \/ RunStops \/ SweepPending \/ FinalizeRun \/ UNCHANGED vars
  PROVE  NeverStranded'
<1>1. CASE Notify
  <2>1. Pending' # {}
    <3>1. CASE Pending # {}
      BY <1>1, <3>1 DEF Notify, InsertRow, Pending, TypeOK
    <3>2. CASE Pending = {}
      <4>1. PICK r \in Row :
              rows' = [rows EXCEPT ![r] = [Absent EXCEPT !.status = "PENDING", !.visit = visit]]
        BY <1>1, <3>2 DEF Notify, InsertRow
      <4>2. rows'[r].status = "PENDING"
        BY <4>1 DEF TypeOK, Absent
      <4>3. QED BY <4>2 DEF Pending
    <3>3. QED BY <3>1, <3>2
  <2>2. QED BY <2>1 DEF NeverStranded
<1>2. CASE NotifyFails
  BY <1>2 DEF NotifyFails, NeverStranded
<1>3. CASE ReceiveAnswer \/ TimeOut \/ MarkTimedOut \/ RunStops \/ SweepPending \/ FinalizeRun
  BY <1>3 DEF ReceiveAnswer, TimeOut, MarkTimedOut, RunStops, SweepPending, FinalizeRun, RouteOn,
              NeverStranded
<1>4. CASE CancelRun \/ UNCHANGED vars
  BY <1>4, StaysAnswerable DEF CancelRun, vars, Pending, Committed
<1>5. QED BY <1>1, <1>2, <1>3, <1>4

\* A gateway step hands over to another way of being answered.
LEMMA GatewayNeverStrands ==
  ASSUME IInv, NeverStranded, NEW u \in User,
         \/ CheckStep(u) \/ CommitAnswer(u) \/ SignalDelivered(u) \/ SignalTerminal(u)
         \/ SignalTransient(u) \/ Rollback(u) \/ RollbackFails(u) \/ GatewayCrash(u)
  PROVE  NeverStranded'
<1>0. \A v \in User \ {u} : resp'[v] = resp[v]
  BY DEF CheckStep, CommitAnswer, SignalDelivered, SignalTerminal, SignalTransient, Rollback,
         RollbackFails, GatewayCrash, IInv, TypeOK
<1>1. CASE CheckStep(u)
  <2>1. ~Committed(u)
    BY <1>1 DEF CheckStep, Committed
  <2>2. QED BY <1>0, <1>1, <2>1, StaysAnswerable DEF CheckStep, Pending, Committed
<1>2. CASE CommitAnswer(u)
  <2>1. resp[u] \in [pc : {"checked", "signal", "rollback"}, row : Row, act : Action]
    BY <1>2 DEF CommitAnswer, IInv, TypeOK, Idle
  <2>2. ~Committed(u)
    BY <1>2 DEF CommitAnswer, Committed
  <2>3. CASE rows' = rows
    BY <1>0, <1>2, <2>2, <2>3, StaysAnswerable DEF CommitAnswer, Pending, Committed
  <2>4. CASE rows' # rows
    <3>1. resp' = [resp EXCEPT ![u] = [resp[u] EXCEPT !.pc = "signal"]]
      BY <1>2, <2>4 DEF CommitAnswer
    <3>2. resp'[u].pc = "signal" /\ resp'[u] # Idle
      BY <2>1, <3>1 DEF IInv, TypeOK, Idle
    <3>3. QED BY <3>2 DEF NeverStranded
  <2>5. QED BY <2>3, <2>4
<1>3. CASE SignalDelivered(u)
  BY <1>3 DEF SignalDelivered, NeverStranded
<1>4. CASE SignalTerminal(u)
  BY <1>4 DEF SignalTerminal, NeverStranded
<1>5. CASE SignalTransient(u)
  <2>1. resp[u] \in [pc : {"checked", "signal", "rollback"}, row : Row, act : Action]
    BY <1>5 DEF SignalTransient, IInv, TypeOK, Idle
  <2>2. Committed(u)'
    BY <1>5, <2>1 DEF SignalTransient, Committed, Idle, IInv, TypeOK
  <2>3. UNCHANGED <<wf, broken, rows>> /\ (slot # {} => slot' # {})
    BY <1>5 DEF SignalTransient
  <2>4. \A v \in User : Committed(v) => Committed(v)'
    BY <1>0, <2>2 DEF Committed
  <2>5. QED BY <2>3, <2>4, StaysAnswerable DEF Pending
<1>6. CASE Rollback(u)
  <2>1. Committed(u) /\ resp[u].row \in Row
    BY <1>6 DEF Rollback, Committed, IInv, TypeOK, Idle
  <2>2. Mine(u)
    BY <2>1 DEF IInv, OwnsRow, Mine
  <2>3. Pending' # {}
    <3>1. CASE Pending = {}
      <4>1. rows'[resp[u].row].status = "PENDING"
        BY <1>6, <2>1, <2>2, <3>1 DEF Rollback, IInv, TypeOK
      <4>2. QED BY <2>1, <4>1 DEF Pending
    <3>2. CASE Pending # {}
      BY <1>6, <3>2 DEF Rollback, Pending
    <3>3. QED BY <3>1, <3>2
  <2>4. QED BY <2>3 DEF NeverStranded
<1>7. CASE RollbackFails(u)
  BY <1>7 DEF RollbackFails, NeverStranded
<1>8. CASE GatewayCrash(u)
  <2>1. CASE Committed(u)
    BY <1>8, <2>1 DEF GatewayCrash, Committed, NeverStranded
  <2>2. CASE ~Committed(u)
    BY <1>0, <1>8, <2>2, StaysAnswerable DEF GatewayCrash, Pending, Committed
  <2>3. QED BY <2>1, <2>2
<1>9. QED BY <1>1, <1>2, <1>3, <1>4, <1>5, <1>6, <1>7, <1>8

\* Unless a failure the code only logs happened, a waiting run can be answered:
\* the rollback of a failed signal gives the step back.
THEOREM NeverStrandedHolds == Spec => []NeverStranded
<1>1. Init => NeverStranded
  BY DEF Init, NeverStranded
<1>2. IInv /\ NeverStranded /\ [Next]_vars => NeverStranded'
  BY WorkflowNeverStrands, GatewayNeverStrands DEF IInv, Next
<1>3. QED BY <1>1, <1>2, Invariance, PTL DEF Spec
-----------------------------------------------------------------------------
(* When a visit is answered by its own step.                               *)

\* What the code cannot rule out and is ruled out here: a step row that was filed
\* without the attempt being acknowledged, and a failed signal that was delivered.
NothingAmbiguous ==
  /\ wf = "notify" /\ wf' = "notify" => rows' = rows
  /\ \A u \in User : resp[u].pc = "signal" /\ resp'[u].pc = "rollback" => slot' = slot

\* The visit is answered once: it has an open row, or an answer recorded of it on its
\* way, or an answer in the slot, and before it files its row nothing.
Unanswered == Pending = {} /\ slot = {} /\ \A u \in User : ~Committed(u)

OneAnswerAtATime ==
  /\ \A q, r \in Pending : q = r
  /\ \A u, v \in User : Committed(u) /\ Committed(v) => u = v
  /\ Pending # {} => slot = {} /\ \A u \in User : ~Committed(u)
  /\ slot # {} => \A u \in User : ~Committed(u)

OfThisVisit ==
  /\ \A r \in Pending : rows[r].visit = visit
  /\ \A a \in slot : rows[a.row].visit = visit
  /\ \A u \in User : Committed(u) => rows[resp[u].row].visit = visit

InStep == ~broken => /\ wf = "notify" => Unanswered
                     /\ wf = "waiting" => OneAnswerAtATime /\ OfThisVisit

LEMMA WorkflowStaysInStep ==
  ASSUME "onTimeout" \notin LoopEdge, IInv, InStep, NothingAmbiguous \/ UNCHANGED vars,
         \/ Notify \/ NotifyFails \/ ReceiveAnswer \/ TimeOut \/ MarkTimedOut
         \/ CancelRun \/ RunStops \/ SweepPending \/ FinalizeRun \/ UNCHANGED vars
  PROVE  InStep'
<1>1. CASE Notify
  <2>1. /\ wf = "notify" /\ InsertRow /\ UNCHANGED <<visit, slot, resp, broken>>
        /\ rows \in [Row -> [status : {"absent", "PENDING", "RESOLVED", "TIMED_OUT", "CANCELLED"},
                             visit : 0..MaxVisit, by : User \cup {NoUser},
                             act : Action \cup {"none"}]]
    BY <1>1 DEF Notify, IInv, TypeOK
  <2> SUFFICES ASSUME ~broken PROVE InStep'
    BY <2>1 DEF InStep
  <2>2. Unanswered
    BY <2>1 DEF InStep
  <2>3. PICK r \in Row :
          /\ rows[r].status = "absent"
          /\ rows' = [rows EXCEPT ![r] = [Absent EXCEPT !.status = "PENDING", !.visit = visit]]
    BY <2>1, <2>2 DEF InsertRow, Unanswered
  <2>4. /\ rows'[r].status = "PENDING" /\ rows'[r].visit = visit
        /\ \A x \in Row \ {r} : rows'[x] = rows[x]
    BY <2>1, <2>3 DEF Absent
  <2>5. Pending' = {r}
    BY <2>2, <2>4 DEF Pending, Unanswered
  <2>6. wf' = "waiting"
    <3>1. rows' # rows
      BY <2>3, <2>4
    <3>2. QED BY <1>1, <2>1, <3>1 DEF Notify, NothingAmbiguous, vars
  <2>7. \A u \in User : ~Committed(u)'
    BY <2>1, <2>2 DEF Unanswered, Committed
  <2>8. QED BY <2>1, <2>2, <2>4, <2>5, <2>6, <2>7
            DEF InStep, OneAnswerAtATime, OfThisVisit, Unanswered
<1>2. CASE NotifyFails
  BY <1>2 DEF NotifyFails, InStep
<1>3. CASE ReceiveAnswer
  <2>1. /\ wf = "waiting" /\ slot # {} /\ slot' = {} /\ UNCHANGED <<rows, resp, broken>>
        /\ wf' \in {"ending", "notify"}
    BY <1>3 DEF ReceiveAnswer, RouteOn
  <2>2. ~broken => Unanswered'
    BY <2>1 DEF InStep, OneAnswerAtATime, Unanswered, Pending, Committed
  <2>3. QED BY <2>1, <2>2 DEF InStep
<1>4. CASE MarkTimedOut
  BY <1>4 DEF MarkTimedOut, RouteOn, InStep
<1>5. CASE TimeOut \/ RunStops \/ SweepPending \/ FinalizeRun
  BY <1>5 DEF TimeOut, RunStops, SweepPending, FinalizeRun, InStep
<1>6. CASE CancelRun \/ UNCHANGED vars
  <2>1. UNCHANGED <<wf, visit, rows, slot, resp, broken>>
    BY <1>6 DEF CancelRun, vars
  <2>2. QED BY <2>1 DEF InStep, Unanswered, OneAnswerAtATime, OfThisVisit, Pending, Committed
<1>7. QED BY <1>1, <1>2, <1>3, <1>4, <1>5, <1>6

\* A gateway step that neither opens a row nor delivers an answer.
LEMMA NothingAdded ==
  ASSUME InStep, UNCHANGED <<wf, visit, rows>>, slot' = slot, broken => broken',
         \A u \in User : Committed(u)' => Committed(u) /\ resp'[u].row = resp[u].row
  PROVE  InStep'
<1>1. Pending' = Pending
  BY DEF Pending
<1>2. QED BY <1>1 DEF InStep, Unanswered, OneAnswerAtATime, OfThisVisit

LEMMA GatewayStaysInStep ==
  ASSUME IInv, InStep, NothingAmbiguous \/ UNCHANGED vars, NEW u \in User,
         \/ CheckStep(u) \/ CommitAnswer(u) \/ SignalDelivered(u) \/ SignalTerminal(u)
         \/ SignalTransient(u) \/ Rollback(u) \/ RollbackFails(u) \/ GatewayCrash(u)
  PROVE  InStep'
<1>0. /\ \A v \in User \ {u} : resp'[v] = resp[v]
      /\ UNCHANGED <<wf, visit>>
      /\ rows \in [Row -> [status : {"absent", "PENDING", "RESOLVED", "TIMED_OUT", "CANCELLED"},
                           visit : 0..MaxVisit, by : User \cup {NoUser},
                           act : Action \cup {"none"}]]
      /\ resp[u] \in {Idle} \cup [pc : {"checked", "signal", "rollback"}, row : Row, act : Action]
  BY DEF CheckStep, CommitAnswer, SignalDelivered, SignalTerminal, SignalTransient, Rollback,
         RollbackFails, GatewayCrash, IInv, TypeOK
<1>1. CASE CheckStep(u)
  <2>1. resp'[u].pc = "checked"
    BY <1>0, <1>1 DEF CheckStep, IInv, TypeOK
  <2>2. QED BY <1>0, <1>1, <2>1, NothingAdded DEF CheckStep, Committed
<1>2. CASE CommitAnswer(u)
  <2>1. /\ resp[u] # Idle /\ resp[u].row \in Row /\ ~Committed(u)
        /\ UNCHANGED <<slot, broken>>
    BY <1>0, <1>2 DEF CommitAnswer, Idle, Committed
  <2>2. CASE rows' = rows
    <3>1. resp'[u] = Idle
      <4>1. CASE rows[resp[u].row].status # "PENDING"
        BY <1>2, <4>1 DEF CommitAnswer, IInv, TypeOK
      <4>2. CASE rows[resp[u].row].status = "PENDING"
        <5>1. rows'[resp[u].row].status # "RESOLVED"
          BY <2>2, <4>2
        <5>2. ~(Cardinality(ApproversWith(u, resp[u])) >= Quorum(resp[u]))
          BY <1>0, <1>2, <2>1, <4>2, <5>1 DEF CommitAnswer
        <5>3. QED BY <1>2, <5>2 DEF CommitAnswer, IInv, TypeOK
      <4>3. QED BY <4>1, <4>2
    <3>2. QED BY <1>0, <2>1, <2>2, <3>1, NothingAdded DEF Committed
  <2>3. CASE rows' # rows
    <3>1. /\ rows[resp[u].row].status = "PENDING"
          /\ rows' = [rows EXCEPT ![resp[u].row].status = "RESOLVED", ![resp[u].row].by = u,
                                  ![resp[u].row].act = resp[u].act]
          /\ resp' = [resp EXCEPT ![u] = [resp[u] EXCEPT !.pc = "signal"]]
      BY <1>2, <2>3 DEF CommitAnswer
    <3>2. resp'[u].row = resp[u].row
      BY <1>0, <2>1, <3>1 DEF IInv, TypeOK
    <3>3. /\ \A r \in Row : rows'[r].visit = rows[r].visit
          /\ \A r \in Row : r # resp[u].row => rows'[r] = rows[r]
          /\ rows'[resp[u].row].status = "RESOLVED"
      BY <1>0, <2>1, <3>1
    <3>4. resp[u].row \in Pending /\ Pending' = Pending \ {resp[u].row}
      BY <2>1, <3>1, <3>3 DEF Pending
    <3>5. CASE wf = "waiting" /\ ~broken
      <4>1. /\ Pending' = {} /\ slot' = {} /\ rows'[resp[u].row].visit = visit
            /\ \A v \in User : ~Committed(v)
        BY <2>1, <3>3, <3>4, <3>5 DEF InStep, OneAnswerAtATime, OfThisVisit
      <4>2. \A v \in User : Committed(v)' => v = u
        BY <1>0, <4>1 DEF Committed
      <4>3. QED BY <1>0, <3>2, <3>5, <4>1, <4>2 DEF InStep, OneAnswerAtATime, OfThisVisit
    <3>6. CASE ~(wf = "waiting" /\ ~broken)
      BY <1>0, <2>1, <3>4, <3>6 DEF InStep, Unanswered
    <3>7. QED BY <3>5, <3>6
  <2>4. QED BY <2>2, <2>3
<1>3. CASE SignalDelivered(u)
  <2>1. /\ Committed(u) /\ resp'[u] = Idle /\ UNCHANGED <<rows, broken>>
        /\ slot' = {AnswerOf(u)} /\ AnswerOf(u).row = resp[u].row
    BY <1>0, <1>3 DEF SignalDelivered, Committed, AnswerOf, Idle, IInv, TypeOK
  <2>2. Pending' = Pending
    BY <2>1 DEF Pending
  <2>3. CASE wf = "waiting" /\ ~broken
    <3>1. Pending = {} /\ \A v \in User : ~Committed(v)'
      BY <1>0, <2>1, <2>3 DEF InStep, OneAnswerAtATime, Committed, Idle
    <3>2. \A a \in slot' : rows'[a.row].visit = visit
      BY <2>1, <2>3 DEF InStep, OfThisVisit
    <3>3. QED BY <1>0, <2>2, <2>3, <3>1, <3>2 DEF InStep, OneAnswerAtATime, OfThisVisit
  <2>4. CASE ~(wf = "waiting" /\ ~broken)
    BY <1>0, <2>1, <2>4 DEF InStep, Unanswered
  <2>5. QED BY <2>3, <2>4
<1>4. CASE SignalTerminal(u)
  BY <1>0, <1>4 DEF SignalTerminal, InStep
<1>5. CASE SignalTransient(u)
  <2>1. /\ Committed(u) /\ resp'[u].pc = "rollback" /\ resp'[u].row = resp[u].row
        /\ UNCHANGED <<rows, broken>> /\ resp[u].pc = "signal"
    BY <1>0, <1>5 DEF SignalTransient, Committed, Idle, IInv, TypeOK
  <2>2. slot' = slot
    BY <2>1 DEF NothingAmbiguous, vars
  <2>3. \A v \in User : Committed(v)' => Committed(v) /\ resp'[v].row = resp[v].row
    BY <1>0, <2>1 DEF Committed
  <2>4. QED BY <1>0, <2>1, <2>2, <2>3, NothingAdded
<1>6. CASE Rollback(u)
  <2>1. /\ Committed(u) /\ resp'[u] = Idle /\ UNCHANGED <<slot, broken>> /\ resp[u].row \in Row
    BY <1>0, <1>6 DEF Rollback, Committed, Idle, IInv, TypeOK
  <2>2. \A v \in User : Committed(v)' => Committed(v) /\ v # u /\ resp'[v].row = resp[v].row
    BY <1>0, <2>1 DEF Committed
  <2>3. CASE rows' = rows
    BY <1>0, <2>1, <2>2, <2>3, NothingAdded
  <2>4. CASE rows' # rows
    <3>1. rows' = [rows EXCEPT ![resp[u].row].status = "PENDING", ![resp[u].row].by = NoUser,
                               ![resp[u].row].act = "none"]
      BY <1>6, <2>4 DEF Rollback
    <3>2. /\ \A r \in Row : rows'[r].visit = rows[r].visit
          /\ \A r \in Row : r # resp[u].row => rows'[r] = rows[r]
      BY <1>0, <2>1, <3>1
    <3>3. Pending = {} /\ Pending' \subseteq {resp[u].row}
      BY <1>6, <2>4, <3>2 DEF Rollback, Pending
    <3>4. CASE wf = "waiting" /\ ~broken
      <4>1. slot' = {} /\ rows[resp[u].row].visit = visit /\ \A v \in User : Committed(v) => v = u
        BY <2>1, <3>4 DEF InStep, OneAnswerAtATime, OfThisVisit
      <4>2. \A v \in User : ~Committed(v)'
        BY <2>2, <4>1
      <4>3. QED BY <1>0, <2>1, <3>2, <3>3, <3>4, <4>1, <4>2
                DEF InStep, OneAnswerAtATime, OfThisVisit
    <3>5. CASE ~(wf = "waiting" /\ ~broken)
      BY <1>0, <2>1, <3>5 DEF InStep, Unanswered
    <3>6. QED BY <3>4, <3>5
  <2>5. QED BY <2>3, <2>4
<1>7. CASE RollbackFails(u)
  BY <1>7 DEF RollbackFails, InStep
<1>8. CASE GatewayCrash(u)
  <2>1. resp'[u] = Idle /\ UNCHANGED <<rows, slot>> /\ (broken => broken')
    BY <1>0, <1>8 DEF GatewayCrash, IInv, TypeOK
  <2>2. \A v \in User : Committed(v)' => Committed(v) /\ resp'[v].row = resp[v].row
    BY <1>0, <2>1 DEF Committed
  <2>3. QED BY <1>0, <2>1, <2>2, NothingAdded
<1>9. QED BY <1>1, <1>2, <1>3, <1>4, <1>5, <1>6, <1>7, <1>8

\* Where a visit is answered by a row of an earlier one, an acknowledgement of
\* createHumanStep or of the signal was lost, or the graph loops from the timeout's
\* edge: without these every answer taken is to the row its visit filed (the slot
\* keyed by node in signalSlots.ts, the retries of notifyHumanStep).
THEOREM VisitAnsweredUnlessAmbiguous ==
  ASSUME "onTimeout" \notin LoopEdge
  PROVE  Spec /\ [][NothingAmbiguous]_vars => []VisitAnsweredByItsOwnStep
<1>1. Init => InStep
  BY DEF Init, InStep, Unanswered, Pending, Absent, Committed
<1>2. IInv /\ InStep /\ [Next]_vars /\ [NothingAmbiguous]_vars => InStep'
  <2> SUFFICES ASSUME IInv, InStep, [Next]_vars, NothingAmbiguous \/ UNCHANGED vars PROVE InStep'
    OBVIOUS
  <2>1. QED BY WorkflowStaysInStep, GatewayStaysInStep DEF Next
<1>3. InStep => VisitAnsweredByItsOwnStep
  BY DEF InStep, OfThisVisit, VisitAnsweredByItsOwnStep
<1>4. QED BY <1>1, <1>2, <1>3, Invariance, PTL DEF Spec
=============================================================================
