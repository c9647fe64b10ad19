------------------------- MODULE RunFinalization -------------------------
(***************************************************************************)
(* How one workflow run ends: the attempts of the worker's own             *)
(* finalizeWorkflowRun activity, the sweeps of the run reaper and the      *)
(* dashboard's cancel requests race on its row (endRun.ts, templates.ts,   *)
(* reapStrandedRuns.ts, the gateway's cancel route), while activities the  *)
(* workflow no longer waits for still run.  A step of a process is one     *)
(* database statement or transaction, or one call to Temporal.             *)
(* The run's row, its ActiveWorkflow (ledger) row, the organization's      *)
(* monthly usage and the callback outbox are shared.  Channel turns, which *)
(* end through channelRun.ts, are not modelled here.                       *)
(***************************************************************************)
EXTENDS Naturals, Sequences, FiniteSets

CONSTANTS Worker,     \* attempts of finalizeWorkflowRun (RETRY_STATE)
          Sweep,      \* concurrent executions of the reaper
          Canceller,  \* cancel requests of the dashboard
          Outcome,    \* statuses runSpec may return
          MaxSpend    \* bound: LLM calls recorded for the run

RunStatus == {"SUCCESS", "FAILED", "TIMED_OUT", "SKIPPED", "CANCELLED"}

ASSUME CallAssumption == Worker \cap Sweep = {}
ASSUME OutcomeAssumption == Outcome \subseteq RunStatus \ {"CANCELLED"}
ASSUME SpendAssumption == MaxSpend \in Nat

VARIABLES phase,         \* what the execution is doing
          closeStatus,   \* what Temporal answers of a closed execution
          verdict,       \* the status the workflow reports
          cancelAsked,   \* Temporal recorded a cancel request
          activity,      \* activities still executing, awaited or abandoned
          runStatus, ended, runCost,       \* the WorkflowRun row
          ledgerStatus, spent,             \* the ActiveWorkflow row
          billed, completed,               \* what OrgMonthlyUsage received
          outbox,        \* run.completed deliveries
          counted,       \* workflow_runs_finalized_total
          notices,       \* Slack, in-thread and tracker notices
          call,          \* the calls of finalizeRun
          cancel         \* the cancel requests

execVars  == <<phase, closeStatus, verdict, cancelAsked>>
runVars   == <<runStatus, ended, runCost>>
billVars  == <<billed, completed, outbox>>
noteVars  == <<counted, notices>>
vars == <<execVars, activity, runVars, ledgerStatus, spent, billVars, noteVars, call, cancel>>

Call == Worker \cup Sweep
Terminal == {"COMPLETED", "FAILED", "TIMED_OUT", "CANCELLED"}
CloseStatus == {"COMPLETED", "FAILED", "CANCELLED", "TERMINATED", "TIMED_OUT", "NOT_FOUND"}
CallPc == {"idle", "ask", "read", "first", "second", "after", "done", "failed"}
CancelPc == {"idle", "checked", "asked", "ledger", "ok", "refused", "dead"}

TypeOK ==
  /\ phase \in {"setup", "running", "finalizing", "closed"}
  /\ closeStatus \in CloseStatus \cup {"none"}
  /\ verdict \in RunStatus \cup {"none"}
  /\ cancelAsked \in BOOLEAN
  /\ activity \subseteq {"llm", "domain"}
  /\ runStatus \in RunStatus \cup {"RUNNING"} /\ ended \in BOOLEAN
  /\ runCost \in 0..MaxSpend /\ spent \in 0..MaxSpend
  /\ ledgerStatus \in Terminal \cup {"active"}
  /\ billed \in 0..MaxSpend /\ completed \in 0..1 /\ counted \in 0..1
  /\ outbox \in Seq(RunStatus) /\ notices \in Seq(RunStatus)
  /\ call \in [Call -> [pc : CallPc, status : RunStatus \cup {"none"}, cost : 0..MaxSpend,
                        found : {"none", "ended", "cancelled"}]]
  /\ cancel \in [Canceller -> CancelPc]

NoCall == [pc |-> "idle", status |-> "none", cost |-> 0, found |-> "none"]

\* createWorkflowRun has written the row; Temporal has not recorded it yet.
Init ==
  /\ phase = "setup" /\ closeStatus = "none" /\ verdict = "none" /\ cancelAsked = FALSE
  /\ activity = {}
  /\ runStatus = "RUNNING" /\ ended = FALSE /\ runCost = 0
  /\ ledgerStatus = "active" /\ spent = 0
  /\ billed = 0 /\ completed = 0 /\ outbox = <<>> /\ counted = 0 /\ notices = <<>>
  /\ call = [c \in Call |-> NoCall]
  /\ cancel = [k \in Canceller |-> "idle"]

-----------------------------------------------------------------------------
(* The execution and the activities it leaves behind.                      *)

Close(s) == phase' = "closed" /\ closeStatus' = s

RowVars == <<runVars, billVars, noteVars, call, cancel>>

SetupDone ==
  /\ phase = "setup" /\ phase' = "running"
  /\ UNCHANGED <<closeStatus, verdict, cancelAsked, activity, ledgerStatus, spent, RowVars>>

\* A cancel, or a setup that failed after the row was written, ends the workflow
\* before it can finalize; a ledger row claimed as STARTING is retired.
SetupExits ==
  /\ phase = "setup"
  /\ \/ cancelAsked /\ Close("CANCELLED") /\ UNCHANGED ledgerStatus
     \/ /\ Close("FAILED")
        /\ ledgerStatus' \in {ledgerStatus, IF ledgerStatus = "active" THEN "FAILED" ELSE ledgerStatus}
  /\ UNCHANGED <<verdict, cancelAsked, activity, spent, RowVars>>

StartActivity ==
  /\ phase = "running"
  /\ \E a \in {"llm", "domain"} : activity' = activity \cup {a}
  /\ UNCHANGED <<execVars, ledgerStatus, spent, RowVars>>

\* recordLlmUsage: the ledger is debited whatever became of the run.
RecordUsage ==
  /\ "llm" \in activity /\ spent < MaxSpend
  /\ spent' = spent + 1
  /\ UNCHANGED <<execVars, activity, ledgerStatus, RowVars>>

\* updateDomainState: an unconditional upsert of a happy-path status.
DomainWrite ==
  /\ "domain" \in activity
  /\ ledgerStatus' \in {"active", "COMPLETED"} /\ activity' = activity \ {"domain"}
  /\ UNCHANGED <<execVars, spent, RowVars>>

ActivityEnds ==
  /\ activity # {}
  /\ \E a \in activity : activity' = activity \ {a}
  /\ UNCHANGED <<execVars, ledgerStatus, spent, RowVars>>

\* runSpec returned or threw; abandoned activities may outlive it.
SpecEnds ==
  /\ phase = "running" /\ phase' = "finalizing"
  /\ verdict' \in Outcome \cup {"FAILED"} \cup (IF cancelAsked THEN {"CANCELLED"} ELSE {})
  /\ UNCHANGED <<closeStatus, cancelAsked, activity, ledgerStatus, spent, RowVars>>

\* How the workflow closes after its finalize returned: a cancellation and a
\* failure are rethrown, a status the spec itself chose is a normal return.
ClosesAs(s) == CASE s = "CANCELLED" -> {"CANCELLED"}
                 [] s = "FAILED"    -> {"FAILED", "COMPLETED"}
                 [] OTHER           -> {"COMPLETED"}

WorkflowReturns ==
  /\ phase = "finalizing" /\ \E w \in Worker : call[w].pc = "done"
  /\ \E s \in ClosesAs(verdict) : Close(s)
  /\ UNCHANGED <<verdict, cancelAsked, activity, ledgerStatus, spent, RowVars>>

\* Every attempt failed or timed out: one that timed out may still be running.
FinalizeExhausted ==
  /\ phase = "finalizing" /\ \A w \in Worker : call[w].pc # "idle"
  /\ Close("FAILED")
  /\ UNCHANGED <<verdict, cancelAsked, activity, ledgerStatus, spent, RowVars>>

\* Terminated or timed out from outside.
Killed ==
  /\ phase # "closed"
  /\ \E s \in {"TERMINATED", "TIMED_OUT"} : Close(s)
  /\ UNCHANGED <<verdict, cancelAsked, activity, ledgerStatus, spent, RowVars>>

\* Temporal's retention drops the closed execution.
Forgotten ==
  /\ phase = "closed" /\ closeStatus # "NOT_FOUND" /\ closeStatus' = "NOT_FOUND"
  /\ UNCHANGED <<phase, verdict, cancelAsked, activity, ledgerStatus, spent, RowVars>>

-----------------------------------------------------------------------------
(* finalizeRun, by whichever caller.                                       *)

ShareVars == <<execVars, activity, spent, cancel>>

Goto(c, pc) == call' = [call EXCEPT ![c].pc = pc]

\* The call is over: a sweep starts afresh later, an attempt was made once.
Leave(c, pc) == call' = [call EXCEPT ![c] = IF c \in Worker THEN [@ EXCEPT !.pc = pc] ELSE NoCall]

Untouched == UNCHANGED <<ShareVars, runVars, ledgerStatus, billVars, noteVars>>

StartAttempt(w) ==
  /\ phase = "finalizing" /\ call[w].pc = "idle"
  /\ call' = [call EXCEPT ![w].pc = "read", ![w].status = verdict]
  /\ Untouched

\* Variant with a bug: stranded runs are looked for by status.
SweepListsRunning(s) ==
  /\ call[s].pc = "idle" /\ ~ended /\ runStatus = "RUNNING" /\ Goto(s, "ask") /\ Untouched

SweepLists(s) == call[s].pc = "idle" /\ ~ended /\ Goto(s, "ask") /\ Untouched

\* Variant with a bug: an execution that no longer exists is taken for a success.
ReapedAsLost(s) == CASE s = "NOT_FOUND" -> "SUCCESS"
                     [] s \in {"CANCELLED", "TERMINATED"} -> "CANCELLED"
                     [] OTHER -> "FAILED"

reapedStatusFor(s) == CASE s = "COMPLETED" -> "SUCCESS"
                        [] s = "TIMED_OUT" -> "TIMED_OUT"
                        [] s \in {"CANCELLED", "TERMINATED"} -> "CANCELLED"
                        [] OTHER -> "FAILED"

\* A live execution, and a lookup that fails, leave the run for another sweep.
SweepAsks(s) ==
  /\ call[s].pc = "ask"
  /\ IF phase = "closed"
     THEN call' = [call EXCEPT ![s].pc = "read", ![s].status = reapedStatusFor(closeStatus)]
     ELSE Leave(s, "done")
  /\ Untouched

\* Loads the run and the cost to bill; a run already ended is left alone.
FinalizeReads(c) ==
  /\ call[c].pc = "read"
  /\ IF ended THEN Leave(c, "done")
     ELSE call' = [call EXCEPT ![c].pc = "first", ![c].cost = spent]
  /\ Untouched

LedgerFor(s) == IF s \in {"SUCCESS", "SKIPPED"} THEN "COMPLETED" ELSE s

\* The terminal transaction, from a write of endWorkflowRun that hit the row.
Commit(c, how, s) ==
  /\ runStatus' = s /\ ended' = TRUE /\ runCost' = call[c].cost
  /\ ledgerStatus' = LedgerFor(s)
  /\ billed' = billed + call[c].cost
  /\ completed' = completed + (IF s = "SUCCESS" THEN 1 ELSE 0)
  /\ outbox' = Append(outbox, s)
  /\ call' = [call EXCEPT ![c].pc = "after", ![c].status = s, ![c].found = how]
  /\ UNCHANGED <<ShareVars, noteVars>>

\* Variant with a bug: the write goes by the row read before the transaction.
FirstWriteUnguarded(c) ==
  /\ call[c].pc = "first"
  /\ IF runStatus # "CANCELLED" THEN Commit(c, "ended", call[c].status)
     ELSE Goto(c, "second") /\ Untouched

\* Variant with a bug: a cancelled row is ended with the caller's status.
FirstWriteOverCancel(c) ==
  /\ call[c].pc = "first"
  /\ IF ~ended THEN Commit(c, "ended", call[c].status)
     ELSE Goto(c, "second") /\ Untouched

FirstWrite(c) ==
  /\ call[c].pc = "first"
  /\ IF ~ended /\ runStatus # "CANCELLED" THEN Commit(c, "ended", call[c].status)
     ELSE Goto(c, "second") /\ Untouched

\* Variant with a bug: the first write is the only one.
SecondWriteMissing(c) == call[c].pc = "second" /\ Leave(c, "done") /\ Untouched

SecondWrite(c) ==
  /\ call[c].pc = "second"
  /\ IF ~ended /\ runStatus = "CANCELLED" THEN Commit(c, "cancelled", "CANCELLED")
     ELSE Leave(c, "done") /\ Untouched

\* Variant with a bug: a run the dashboard cancelled is counted again.
ReportAll(c) ==
  /\ call[c].pc = "after" /\ counted' = counted + 1
  /\ notices' = Append(notices, call[c].status)
  /\ Leave(c, "done")
  /\ UNCHANGED <<ShareVars, runVars, ledgerStatus, billVars>>

\* The counter and the notices; the reaper is silent about a run long over.
Report(c) ==
  /\ call[c].pc = "after"
  /\ counted' = IF call[c].found = "ended" THEN counted + 1 ELSE counted
  /\ \/ notices' = Append(notices, call[c].status)
     \/ c \in Sweep /\ UNCHANGED notices
  /\ Leave(c, "done")
  /\ UNCHANGED <<ShareVars, runVars, ledgerStatus, billVars>>

\* The call's process stops, or its transaction fails and rolls back.
CallDies(c) ==
  /\ call[c].pc \notin {"idle", "done", "failed"}
  /\ Leave(c, "failed")
  /\ Untouched

-----------------------------------------------------------------------------
(* The cancel route.                                                       *)

RouteVars == <<phase, closeStatus, verdict, activity, ended, runCost, spent, billVars, notices, call>>

CancelGoto(k, pc) == cancel' = [cancel EXCEPT ![k] = pc]

CancelChecks(k) ==
  /\ cancel[k] = "idle"
  /\ CancelGoto(k, IF runStatus = "RUNNING" THEN "checked" ELSE "refused")
  /\ UNCHANGED <<RouteVars, cancelAsked, runStatus, ledgerStatus, counted>>

\* Variant with a bug: a cancel Temporal did not take is treated as taken.
CancelAsksAndHopes(k) ==
  /\ cancel[k] = "checked"
  /\ cancelAsked' \in {cancelAsked, cancelAsked \/ phase # "closed"}
  /\ CancelGoto(k, "asked")
  /\ UNCHANGED <<RouteVars, runStatus, ledgerStatus, counted>>

\* A closed or unknown execution has nothing left to cancel; another failure is
\* reported, although Temporal may have taken the request.
CancelAsks(k) ==
  /\ cancel[k] = "checked"
  /\ \/ cancelAsked' = (cancelAsked \/ phase # "closed") /\ CancelGoto(k, "asked")
     \/ /\ cancelAsked' \in {cancelAsked, cancelAsked \/ phase # "closed"}
        /\ CancelGoto(k, "refused")
  /\ UNCHANGED <<RouteVars, runStatus, ledgerStatus, counted>>

\* Variant with a bug: the row is not read again when the guarded write missed.
CancelWritesBlind(k) ==
  /\ cancel[k] = "asked" /\ CancelGoto(k, "ledger")
  /\ runStatus' = IF runStatus = "RUNNING" THEN "CANCELLED" ELSE runStatus
  /\ counted' = IF runStatus = "RUNNING" THEN counted + 1 ELSE counted
  /\ UNCHANGED <<RouteVars, cancelAsked, ledgerStatus>>

\* The guarded write of the row, and the count or the second look after it.
CancelWrites(k) ==
  /\ cancel[k] = "asked"
  /\ IF runStatus = "RUNNING"
     THEN runStatus' = "CANCELLED" /\ counted' = counted + 1 /\ CancelGoto(k, "ledger")
     ELSE /\ CancelGoto(k, IF runStatus = "CANCELLED" THEN "ledger" ELSE "refused")
          /\ UNCHANGED <<runStatus, counted>>
  /\ UNCHANGED <<RouteVars, cancelAsked, ledgerStatus>>

CancelLedger(k) ==
  /\ cancel[k] = "ledger" /\ ledgerStatus' = "CANCELLED" /\ CancelGoto(k, "ok")
  /\ UNCHANGED <<RouteVars, cancelAsked, runStatus, counted>>

CancelDies(k) ==
  /\ cancel[k] \in {"checked", "asked", "ledger"} /\ CancelGoto(k, "dead")
  /\ UNCHANGED <<RouteVars, cancelAsked, runStatus, ledgerStatus, counted>>

-----------------------------------------------------------------------------
(* A launch that asks what is in flight closes a ledger row left behind.   *)

closedLedgerStatusFor(s) == CASE s = "COMPLETED" -> "COMPLETED"
                              [] s = "TIMED_OUT" -> "TIMED_OUT"
                              [] s \in {"CANCELLED", "TERMINATED"} -> "CANCELLED"
                              [] OTHER -> "FAILED"

CloseRows ==
  /\ phase = "closed" /\ ledgerStatus = "active"
  /\ ledgerStatus' = closedLedgerStatusFor(closeStatus)
  /\ UNCHANGED <<execVars, activity, spent, RowVars>>

Execution == \/ SetupDone \/ SetupExits \/ SpecEnds \/ WorkflowReturns
             \/ FinalizeExhausted \/ Killed \/ Forgotten
Background == StartActivity \/ RecordUsage \/ DomainWrite \/ ActivityEnds
Finalize(c) == FinalizeReads(c) \/ FirstWrite(c) \/ SecondWrite(c) \/ Report(c) \/ CallDies(c)
Route(k) == \/ CancelChecks(k) \/ CancelAsks(k) \/ CancelWrites(k) \/ CancelLedger(k)
            \/ CancelDies(k)

Next ==
  \/ Execution \/ Background \/ CloseRows
  \/ \E w \in Worker : StartAttempt(w)
  \/ \E s \in Sweep : SweepLists(s) \/ SweepAsks(s)
  \/ \E c \in Call : Finalize(c)
  \/ \E k \in Canceller : Route(k)

Spec == Init /\ [][Next]_vars

\* The reaper runs on a schedule, and neither Temporal's lookup nor a database
\* write fails for ever: a sweep may die, but every step succeeds now and then.
SweepFairness ==
  \A s \in Sweep : /\ SF_vars(SweepLists(s)) /\ SF_vars(SweepAsks(s))
                   /\ SF_vars(FinalizeReads(s)) /\ SF_vars(FirstWrite(s))
                   /\ SF_vars(SecondWrite(s))

FairSpec == Spec /\ SweepFairness

-----------------------------------------------------------------------------
(* Properties.                                                             *)

\* Attempts, zombies of attempts, sweeps and cancels race, and the run is billed
\* and reported once: usage and outbox hold nothing before the run ended and
\* afterwards exactly its final cost and status.
BilledExactlyOnce ==
  /\ billed = IF ended THEN runCost ELSE 0
  /\ completed = IF ended /\ runStatus = "SUCCESS" THEN 1 ELSE 0
  /\ outbox = IF ended THEN <<runStatus>> ELSE <<>>

\* The metric and the notices happen at most once, after the fact and with the
\* status the run ended with, whether the route or a finalizer counts it.
ReportedAtMostOnce ==
  /\ counted <= 1 /\ (counted = 1 => runStatus # "RUNNING")
  /\ notices # <<>> => ended /\ notices = <<runStatus>>

\* No later write changes how a run ended: a status once terminal stays, and a
\* run once ended stays ended at its cost.
EndingIsFinal ==
  [][/\ runStatus # "RUNNING" => runStatus' = runStatus
     /\ ended => ended' /\ runCost' = runCost]_runVars

\* A finalize that returned to the workflow left the run ended: the two guarded
\* writes of endWorkflowRun leave no gap for a cancel between them.
ReturnedMeansEnded == \A w \in Worker : call[w].pc = "done" => ended

\* A run never shows CANCELLED over an execution nobody told to stop.
CancelledIsStopped == runStatus = "CANCELLED" => cancelAsked \/ phase = "closed"

\* A cancel request that was answered with success leaves the run cancelled,
\* whatever finalizer it raced.
AcceptedCancelSticks == (\E k \in Canceller : cancel[k] = "ok") => runStatus = "CANCELLED"

\* Only a workflow that reported success makes a successful run: the reaper
\* never turns an execution it merely found closed into one.
SuccessIsEarned == runStatus = "SUCCESS" => verdict = "SUCCESS"

\* An execution that is over does not keep its run in flight: whatever died on
\* the way, a sweep ends and bills it.
StrandedRunsEnd == phase = "closed" ~> ended

\* What the cancel route promises: once everything of a run that its workflow
\* ended as cancelled has stopped, all it spent while stopping is billed too.
StoppingSpendIsBilled ==
  ended /\ verdict = "CANCELLED" /\ activity = {} => billed = spent

=============================================================================
