----------------------------- MODULE HumanStep -----------------------------
(***************************************************************************)
(* One human-in-the-loop node of one run, across the three parties that    *)
(* share it:                                                               *)
(*  - the run's workflow, which visits the node (request_changes and graph *)
(*    loops visit it again), files a step row, waits for the node's signal *)
(*    or its timeout, and at the end closes what is left open              *)
(*    (shared interpreter.ts runHumanNode, worker runnable.ts and          *)
(*    activities/state.ts);                                                *)
(*  - the gateway, where users answer the row: a database transaction,     *)
(*    then a Temporal signal, then a rollback when the signal failed       *)
(*    (gateway/src/lib/hitlResolve.ts);                                    *)
(*  - the signal slot the workflow takes answers from (signalSlots.ts).    *)
(* Each database transaction, activity and Temporal call is one step.      *)
(***************************************************************************)
EXTENDS Naturals, FiniteSets

CONSTANTS User,         \* people who may answer
          Required,     \* requiredApprovers of the step
          Action,       \* the answers the step offers
          LoopEdge,     \* the node's edges from which the graph returns to it
          MaxVisit,     \* bound: visits of the node
          MaxRow        \* bound: step rows ever created

ASSUME OfferedAssumption == Action \subseteq {"approve", "reject", "request_changes"}

ASSUME BoundsAssumption == /\ Required \in Nat \ {0}
                           /\ MaxVisit \in Nat \ {0}
                           /\ MaxRow \in Nat \ {0}

VARIABLES wf,           \* where the workflow is
          visit,        \* which visit of the node this is
          run,          \* WorkflowRun.status
          rows,         \* WorkflowHumanStep rows of (run, node), by id
                        \* (visit, a history field: the last visit that
                        \* filed or adopted it)
          approvals,    \* HumanApproval rows of each step: who approved
          stands,       \* history: who approved each step, and neither had the
                        \* approval taken back nor was told that it failed
          slot,         \* SignalSlots: the answer not yet taken, if any
          resp,         \* the answer each user has under way
          broken,       \* a failure the code only logs has happened
          acked         \* answers reported to their user as sent

vars == <<wf, visit, run, rows, approvals, stands, slot, resp, broken, acked>>

Row    == 1..MaxRow
NoUser == "nobody"
Answer == [row : Row, user : User, act : Action]
Absent   == [status |-> "absent", visit |-> 0, by |-> NoUser, act |-> "none"]
Idle     == [pc |-> "idle"]
Workflow == {"notify", "waiting", "timedOut", "ending", "finalizing", "closed"}

TypeOK ==
  /\ wf \in Workflow
  /\ visit \in 1..MaxVisit
  /\ run \in {"RUNNING", "ended"}
  /\ rows \in [Row -> [status : {"absent", "PENDING", "RESOLVED", "TIMED_OUT", "CANCELLED"},
                       visit : 0..MaxVisit, by : User \cup {NoUser}, act : Action \cup {"none"}]]
  /\ approvals \in [Row -> SUBSET User]
  /\ stands \in [Row -> SUBSET User]
  /\ slot \in SUBSET Answer /\ Cardinality(slot) <= 1
  /\ resp \in [User -> {Idle} \cup
                 [pc : {"checked", "signal", "rollback"}, row : Row, act : Action]]
  /\ broken \in BOOLEAN
  /\ acked \in SUBSET Answer

Init ==
  /\ wf = "notify" /\ visit = 1 /\ run = "RUNNING"
  /\ rows = [r \in Row |-> Absent]
  /\ approvals = [r \in Row |-> {}]
  /\ stands = [r \in Row |-> {}]
  /\ slot = {}
  /\ resp = [u \in User |-> Idle]
  /\ broken = FALSE
  /\ acked = {}

Pending == {r \in Row : rows[r].status = "PENDING"}

\* Variant with a bug: the bulk update lost its status filter.
CloseEvery(st) ==
  rows' = [r \in Row |-> IF rows[r].status # "absent" THEN [rows[r] EXCEPT !.status = st]
                         ELSE rows[r]]

\* updateMany where status = PENDING: every open row of the node.
ClosePending(st) ==
  rows' = [r \in Row |-> IF r \in Pending THEN [rows[r] EXCEPT !.status = st] ELSE rows[r]]

-----------------------------------------------------------------------------
(* The workflow.                                                           *)

\* An attempt of createHumanStep: the partial unique index allows one PENDING
\* row per (run, node), and an attempt that hits it adopts the open row.
InsertRow ==
  IF Pending # {}
  THEN rows' = [r \in Row |-> IF r \in Pending THEN [rows[r] EXCEPT !.visit = visit] ELSE rows[r]]
  ELSE \E r \in Row :
         /\ rows[r].status = "absent" /\ \A x \in 1..(r - 1) : rows[x].status # "absent"
         /\ rows' = [rows EXCEPT ![r] = [Absent EXCEPT !.status = "PENDING", !.visit = visit]]

\* notifyHumanStep, at least once: the attempt is acknowledged, or its
\* acknowledgement is lost and Temporal runs it again.
Notify ==
  /\ wf = "notify"
  /\ InsertRow
  /\ wf' \in {"notify", "waiting"}
  /\ UNCHANGED <<visit, run, approvals, stands, slot, resp, broken, acked>>

\* Every attempt failed; safeDispatch swallows it and the node waits anyway.
NotifyFails ==
  /\ wf = "notify"
  /\ wf' = "waiting" /\ broken' = TRUE
  /\ UNCHANGED <<visit, run, rows, approvals, stands, slot, resp, acked>>

\* Where the graph goes from the node: on to the end of the run (a loop may
\* leave too), or around a loop back to the node.
RouteOn(edge) ==
  \/ wf' = "ending" /\ UNCHANGED visit
  \/ /\ edge \in LoopEdge /\ visit < MaxVisit
     /\ wf' = "notify" /\ visit' = visit + 1

Edge(act) == CASE act = "approve" -> "onApprove"
               [] act = "reject"  -> "onReject"
               [] act = "request_changes" -> "onRequestChanges"

\* waitSignal takes the answer out of the slot; take() empties it.
ReceiveAnswer ==
  /\ wf = "waiting"
  /\ \E a \in slot : RouteOn(Edge(a.act))
  /\ slot' = {}
  /\ UNCHANGED <<run, rows, approvals, stands, resp, broken, acked>>

\* The timer fires on an empty slot.
TimeOut ==
  /\ wf = "waiting" /\ slot = {}
  /\ wf' = "timedOut"
  /\ UNCHANGED <<visit, run, rows, approvals, stands, slot, resp, broken, acked>>

\* resolveHumanStep TIMED_OUT, best effort, then the onTimeout edge.
MarkTimedOut ==
  /\ wf = "timedOut"
  /\ \/ ClosePending("TIMED_OUT") /\ UNCHANGED broken
     \/ broken' = TRUE /\ UNCHANGED rows
  /\ RouteOn("onTimeout")
  /\ UNCHANGED <<run, approvals, stands, slot, resp, acked>>

\* The cancel route: the cancel request reaches Temporal, then the run's row
\* leaves RUNNING; the workflow may notice (RunStops) before or long after.
CancelRun ==
  /\ wf # "closed" /\ run = "RUNNING"
  /\ run' = "ended"
  /\ UNCHANGED <<wf, visit, rows, approvals, stands, slot, resp, broken, acked>>

\* A cancel of the run, or a failure elsewhere in it, ends the walk.
RunStops ==
  /\ wf \in {"notify", "waiting", "timedOut"}
  /\ wf' = "ending"
  /\ UNCHANGED <<visit, run, rows, approvals, stands, slot, resp, broken, acked>>

\* cancelPendingHumanSteps, best effort.
SweepPending ==
  /\ wf = "ending"
  /\ wf' = "finalizing"
  /\ \/ ClosePending("CANCELLED") /\ UNCHANGED broken
     \/ broken' = TRUE /\ UNCHANGED rows
  /\ UNCHANGED <<visit, run, approvals, stands, slot, resp, acked>>

\* finalizeWorkflowRun, and the workflow closes.
FinalizeRun ==
  /\ wf = "finalizing"
  /\ wf' = "closed"
  /\ run' = "ended"
  /\ UNCHANGED <<visit, rows, approvals, stands, slot, resp, broken, acked>>

-----------------------------------------------------------------------------
(* The gateway: resolveHitlStep for one user.                              *)

\* The optimistic reads: step PENDING, run RUNNING.
CheckStep(u) ==
  /\ resp[u] = Idle /\ run = "RUNNING"
  /\ \E r \in Pending, a \in Action :
       resp' = [resp EXCEPT ![u] = [pc |-> "checked", row |-> r, act |-> a]]
  /\ UNCHANGED <<wf, visit, run, rows, approvals, stands, slot, broken, acked>>

IsMulti(a) == Required > 1 /\ a.act = "approve"

\* Who a PENDING step's approvals name once u's is added; an answer that needs
\* no quorum is u's own.
ApproversWith(u, a) == IF IsMulti(a) THEN approvals[a.row] \cup {u} ELSE {u}

Quorum(a) == IF IsMulti(a) THEN Required ELSE 1

\* History: whose approvals stand once u's answer is recorded.
Standing(u, a) == IF a.act = "approve" THEN stands[a.row] \cup {u} ELSE stands[a.row]

\* Variant with a bug: the write is not guarded by PENDING.
CommitUnguarded(u) ==
  /\ resp[u].pc = "checked"
  /\ LET a == resp[u]
         by == ApproversWith(u, a)
         resolves == Cardinality(by) >= Quorum(a)
     IN  /\ approvals' = IF IsMulti(a) THEN [approvals EXCEPT ![a.row] = by] ELSE approvals
         /\ stands' = [stands EXCEPT ![a.row] = Standing(u, a)]
         /\ rows' = IF resolves
                    THEN [rows EXCEPT ![a.row].status = "RESOLVED", ![a.row].by = u,
                                      ![a.row].act = a.act]
                    ELSE rows
         /\ resp' = [resp EXCEPT ![u] = IF resolves THEN [a EXCEPT !.pc = "signal"] ELSE Idle]
  /\ UNCHANGED <<wf, visit, run, slot, broken, acked>>

\* The transaction, under the row lock or the PENDING guard: refused when the
\* step is no longer PENDING, recorded as a partial approval, or RESOLVED.
CommitAnswer(u) ==
  /\ resp[u].pc = "checked"
  /\ LET a == resp[u]
         by == ApproversWith(u, a)
         open == rows[a.row].status = "PENDING"
         resolves == open /\ Cardinality(by) >= Quorum(a)
     IN  /\ approvals' = IF open /\ IsMulti(a) THEN [approvals EXCEPT ![a.row] = by] ELSE approvals
         /\ stands' = IF open THEN [stands EXCEPT ![a.row] = Standing(u, a)] ELSE stands
         /\ rows' = IF resolves
                    THEN [rows EXCEPT ![a.row].status = "RESOLVED", ![a.row].by = u,
                                      ![a.row].act = a.act]
                    ELSE rows
         /\ resp' = [resp EXCEPT ![u] = IF resolves THEN [a EXCEPT !.pc = "signal"] ELSE Idle]
  /\ UNCHANGED <<wf, visit, run, slot, broken, acked>>

AnswerOf(u) == [row |-> resp[u].row, user |-> u, act |-> resp[u].act]

\* The signal lands: deliver() replaces whatever the slot still held.
SignalDelivered(u) ==
  /\ resp[u].pc = "signal" /\ wf # "closed"
  /\ slot' = {AnswerOf(u)}
  /\ acked' = acked \cup {AnswerOf(u)}
  /\ resp' = [resp EXCEPT ![u] = Idle]
  /\ UNCHANGED <<wf, visit, run, rows, approvals, stands, broken>>

\* The execution is gone: a terminal failure, and the resolution stands.
SignalTerminal(u) ==
  /\ resp[u].pc = "signal" /\ wf = "closed"
  /\ resp' = [resp EXCEPT ![u] = Idle]
  /\ UNCHANGED <<wf, visit, run, rows, approvals, stands, slot, broken, acked>>

\* Any other failure of the call: it may or may not have reached Temporal.
SignalTransient(u) ==
  /\ resp[u].pc = "signal"
  /\ resp' = [resp EXCEPT ![u].pc = "rollback"]
  /\ \/ UNCHANGED slot
     \/ wf # "closed" /\ slot' = {AnswerOf(u)}
  /\ UNCHANGED <<wf, visit, run, rows, approvals, stands, broken, acked>>

\* rollbackResolvedStep.  Reopening a row while another is PENDING violates
\* the unique index: the rollback fails after the approval was deleted.
WithoutApproval(u) ==
  IF IsMulti(resp[u])
  THEN [approvals EXCEPT ![resp[u].row] = @ \ {u}] ELSE approvals

\* History: u's approval does not stand any more.
Withdrawn(u) ==
  IF resp[u].act = "approve"
  THEN [stands EXCEPT ![resp[u].row] = @ \ {u}] ELSE stands

Mine(u) == /\ rows[resp[u].row].status = "RESOLVED"
           /\ rows[resp[u].row].by = u

\* Variant with a bug: only the approval is rolled back.
RollbackApprovalOnly(u) ==
  /\ resp[u].pc = "rollback"
  /\ approvals' = WithoutApproval(u) /\ stands' = Withdrawn(u)
  /\ resp' = [resp EXCEPT ![u] = Idle]
  /\ UNCHANGED <<wf, visit, run, rows, slot, broken, acked>>

\* Variant with a bug: the step is reopened and the approval row stays behind.
RollbackKeepsApproval(u) ==
  /\ resp[u].pc = "rollback"
  /\ approvals' = approvals /\ stands' = Withdrawn(u)
  /\ rows' = IF Mine(u) /\ Pending = {}
             THEN [rows EXCEPT ![resp[u].row].status = "PENDING", ![resp[u].row].by = NoUser,
                               ![resp[u].row].act = "none"]
             ELSE rows
  /\ resp' = [resp EXCEPT ![u] = Idle]
  /\ UNCHANGED <<wf, visit, run, slot, broken, acked>>

Rollback(u) ==
  /\ resp[u].pc = "rollback"
  /\ approvals' = WithoutApproval(u) /\ stands' = Withdrawn(u)
  /\ rows' = IF Mine(u) /\ Pending = {}
             THEN [rows EXCEPT ![resp[u].row].status = "PENDING", ![resp[u].row].by = NoUser,
                               ![resp[u].row].act = "none"]
             ELSE rows
  /\ resp' = [resp EXCEPT ![u] = Idle]
  /\ UNCHANGED <<wf, visit, run, slot, broken, acked>>

\* A rollback write fails: the step is stuck RESOLVED, which is only logged.
RollbackFails(u) ==
  /\ resp[u].pc = "rollback"
  /\ approvals' \in {approvals, WithoutApproval(u)} /\ stands' = Withdrawn(u)
  /\ resp' = [resp EXCEPT ![u] = Idle]
  /\ broken' = TRUE
  /\ UNCHANGED <<wf, visit, run, rows, slot, acked>>

\* The gateway process dies between two steps of a request, or between the
\* deletion of the approval and the reopening of the row, which no transaction
\* joins.
GatewayCrash(u) ==
  /\ resp[u] # Idle
  /\ resp' = [resp EXCEPT ![u] = Idle]
  /\ broken' = (broken \/ resp[u].pc # "checked")
  /\ \/ UNCHANGED <<approvals, stands>>
     \/ resp[u].pc = "rollback" /\ approvals' = WithoutApproval(u) /\ stands' = Withdrawn(u)
  /\ UNCHANGED <<wf, visit, run, rows, slot, acked>>

Next ==
  \/ Notify \/ NotifyFails \/ ReceiveAnswer \/ TimeOut \/ MarkTimedOut
  \/ CancelRun \/ RunStops \/ SweepPending \/ FinalizeRun
  \/ \E u \in User :
       \/ CheckStep(u) \/ CommitAnswer(u)
       \/ SignalDelivered(u) \/ SignalTerminal(u) \/ SignalTransient(u)
       \/ Rollback(u) \/ RollbackFails(u) \/ GatewayCrash(u)

Spec == Init /\ [][Next]_vars

-----------------------------------------------------------------------------
(* Properties.                                                             *)

\* An answer its user was told was sent is the step's recorded outcome, for
\* good: no timeout, sweep, rollback or second answer changes the row after
\* it.  In particular a step has at most one such answer (the PENDING guard
\* of every writer, against the rollback of a failed signal).
AcknowledgedIsRecorded ==
  \A a \in acked : /\ rows[a.row].status = "RESOLVED"
                    /\ rows[a.row].by = a.user /\ rows[a.row].act = a.act

\* An approval the workflow can take has as many distinct people behind it as
\* the step requires: the one who sent it and others whose approvals still
\* stand.  An approval that was rolled back, or whose sender was told that it
\* failed, makes up no quorum later, whoever else approves, repeats an approval
\* or is rolled back in turn (the transaction that counts HumanApproval rows,
\* rollbackResolvedStep).
ApprovalIsBacked ==
  \A a \in slot : a.act = "approve" => Cardinality(stands[a.row] \cup {a.user}) >= Required

\* Unless a failure the code only logs happened, a run never waits for an
\* answer nobody can give: there is a step to answer, an answer on its way, or
\* one in the slot (why a failed signal is rolled back).
NeverStranded ==
  wf = "waiting" /\ ~broken =>
    \/ Pending # {}
    \/ slot # {}
    \/ \E u \in User : resp[u] # Idle /\ resp[u].pc \in {"signal", "rollback"}

\* A closed step stays closed, and an answered one is reopened only by the
\* rollback of the very answer that resolved it.
ClosedStaysClosed ==
  [][\A r \in Row :
       /\ rows[r].status \in {"TIMED_OUT", "CANCELLED"} => rows'[r] = rows[r]
       /\ rows[r].status = "RESOLVED" /\ rows'[r] # rows[r] =>
            /\ rows'[r].status = "PENDING"
            /\ resp[rows[r].by] # Idle /\ resp[rows[r].by].pc = "rollback"
            /\ resp[rows[r].by].row = r]_vars

\* What the request-changes loop promises: the revision is presented again, so
\* a visit is answered only by the step that visit filed.
VisitAnsweredByItsOwnStep ==
  wf = "waiting" /\ ~broken => \A a \in slot : rows[a.row].visit = visit
=============================================================================
