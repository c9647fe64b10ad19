------------------------------ MODULE FanOut ------------------------------
(***************************************************************************)
(* One fanOut node of the workflow interpreter (shared interpreter.ts):    *)
(* the worker pool of runFanOut over N items, each branch a walk of the    *)
(* subgraph whose dispatch nodes run under runRetryable and whose waits    *)
(* run under waitCancellable, the signal slot the branches share           *)
(* (signalSlots.ts), and the cancellation bridge of runnable.ts.           *)
(* A step is a run of workflow code from one await to the next.  The       *)
(* subgraph is any graph: a walk chooses the kind of its next node freely. *)
(***************************************************************************)
EXTENDS Naturals, FiniteSets

CONSTANTS N,              \* items of `over`
          Concurrency,    \* size of the worker pool
          Nested,         \* whether the fanOut runs inside another's branch
          Policy,         \* onFail / onError policies the nodes may have
          Retries,        \* onFail.retry of the nodes that retry
          Cap             \* MAX_NODE_TRANSITIONS left to the branches

ASSUME SizeAssumption == N \in Nat /\ Concurrency \in Nat \ {0} /\ Retries \in Nat /\ Cap \in Nat
ASSUME ModeAssumption == /\ Nested \in BOOLEAN
                         /\ Policy \subseteq {"block", "warn", "retry", "continue"}

VARIABLES onBranchFail,     \* the node's mode, "block" or "continue"
          phase,            \* "running" or "joined"
          outcome,          \* how the fanOut node ended
          nextIndex,        \* items handed to workers so far
          branch,           \* where each item's branch is
          entry,            \* slots[i]: how the branch ended
          stop, firstError, runCancellation,
          parentAbort,      \* the enclosing branch was aborted
          runCancelled,     \* the workflow's root scope was cancelled
          count,            \* node transitions of all branches, shared
          slot,             \* a payload is pending on the signal's name
          orphans           \* branches whose abandoned wait is still pending

vars == <<onBranchFail, phase, outcome, nextIndex, branch, entry, stop, firstError,
          runCancellation, parentAbort, runCancelled, count, slot, orphans>>

Item == 1..N
Error == {"failed", "branchCancelled", "runCancelled"}

\* "head": about to look at its next node; "activity" and "waiting": inside
\* one, where a cancel reaches it.  The others await an activity no cancel of a
\* branch reaches: the record of a step, to walk on, retry or throw behind it,
\* or, at a human node, its PENDING record (then the step is filed and people
\* are notified), the filing itself (then the wait), and the SKIPPED record of
\* a wait that timed out (then the filed step is closed).
Pc == {"absent", "head", "activity", "waiting", "thenWalk", "thenRetry", "thenNotify",
       "thenWait", "thenClose", "thenThrow", "done"}

TypeOK ==
  /\ onBranchFail \in {"block", "continue"}
  /\ phase \in {"running", "joined"}
  /\ outcome \in {"none", "passed", "blocked", "aborted", "cancelled"}
  /\ nextIndex \in 0..N
  /\ branch \in [Item -> [pc : Pc, attempt : 0..(Retries + 1), policy : Policy \cup {"none"},
                          err : Error \cup {"none"}]]
  /\ entry \in [Item -> {"none", "SUCCESS"} \cup Error]
  /\ {stop, firstError, runCancellation, parentAbort, runCancelled, slot} \subseteq BOOLEAN
  /\ count \in 0..Cap
  /\ orphans \subseteq Item

Absent == [pc |-> "absent", attempt |-> 0, policy |-> "none", err |-> "none"]

Init ==
  /\ onBranchFail \in {"block", "continue"}
  /\ phase = "running" /\ outcome = "none" /\ nextIndex = 0
  /\ branch = [i \in Item |-> Absent]
  /\ entry = [i \in Item |-> "none"]
  /\ stop = FALSE /\ firstError = FALSE /\ runCancellation = FALSE
  /\ parentAbort = FALSE /\ runCancelled = FALSE
  /\ count = 0 /\ slot = FALSE /\ orphans = {}

Aborted   == stop \/ parentAbort
InFlight  == {i \in Item : branch[i].pc \notin {"absent", "done"}}
Cancellable(i) == branch[i].pc \in {"activity", "waiting"}

-----------------------------------------------------------------------------
(* The pool.                                                               *)

\* A free worker takes the next item.
StartBranch ==
  /\ phase = "running" /\ ~Aborted /\ nextIndex < N
  /\ Cardinality(InFlight) < Concurrency
  /\ nextIndex' = nextIndex + 1
  /\ branch' = [branch EXCEPT ![nextIndex + 1].pc = "head"]
  /\ UNCHANGED <<onBranchFail, phase, outcome, entry, stop, firstError, runCancellation,
                 parentAbort, runCancelled, count, slot, orphans>>

\* cancelAllExcept: the token of every other branch inside an activity or a
\* wait; it throws BranchCancelledError there and records a FAILED row.  Under
\* a cancelled run they are already throwing the run's own cancellation.
Reached(i) == IF runCancelled THEN {} ELSE {j \in Item \ {i} : Cancellable(j)}

CancelAllExcept(i, b) ==
  [j \in Item |-> IF j \in Reached(i)
                  THEN [b[j] EXCEPT !.pc = "thenThrow", !.err = "branchCancelled"] ELSE b[j]]

\* A wait that was interrupted stays pending in the runtime.
Abandoned(i) == {j \in Reached(i) : branch[j].pc = "waiting"}

\* A branch ended: the worker fills its slot and applies onBranchFail.
Settle(i, res) ==
  LET blocks == res # "SUCCESS" /\ onBranchFail = "block"
      done   == [branch EXCEPT ![i] = [Absent EXCEPT !.pc = "done"]]
  IN  /\ entry' = [entry EXCEPT ![i] = res]
      /\ firstError' = (firstError \/ res # "SUCCESS")
      /\ runCancellation' = (runCancellation \/ res = "runCancelled")
      /\ stop' = (stop \/ blocks \/ res = "runCancelled")
      /\ branch' = IF blocks THEN CancelAllExcept(i, done) ELSE done
      /\ orphans' = IF blocks THEN orphans \cup Abandoned(i) ELSE orphans
      /\ UNCHANGED <<onBranchFail, phase, outcome, nextIndex, parentAbort, runCancelled, slot>>

\* A step that only moves branch i.
MoveTo(i, b) ==
  /\ branch' = [branch EXCEPT ![i] = b]
  /\ UNCHANGED <<onBranchFail, phase, outcome, nextIndex, entry, stop, firstError,
                 runCancellation, parentAbort, runCancelled, orphans>>

\* Variant with a bug: a cancellation of the run is treated as a branch failure.
VerdictOnFailures ==
  IF parentAbort THEN "aborted"
  ELSE IF firstError /\ onBranchFail = "block" THEN "blocked"
  ELSE "passed"

\* All workers returned: aggregate, record and route, in the code's order.
Verdict ==
  IF runCancellation THEN "cancelled"
  ELSE IF parentAbort THEN "aborted"
  ELSE IF firstError /\ onBranchFail = "block" THEN "blocked"
  ELSE "passed"

\* Variant with a bug: a decided fan-out does not wait for its workers.
JoinOnStop ==
  /\ phase = "running" /\ (Aborted \/ (nextIndex = N /\ InFlight = {}))
  /\ phase' = "joined" /\ outcome' = Verdict
  /\ UNCHANGED <<onBranchFail, nextIndex, branch, entry, stop, firstError, runCancellation,
                 parentAbort, runCancelled, count, slot, orphans>>

Join ==
  /\ phase = "running" /\ InFlight = {} /\ (Aborted \/ nextIndex = N)
  /\ phase' = "joined" /\ outcome' = Verdict
  /\ UNCHANGED <<onBranchFail, nextIndex, branch, entry, stop, firstError, runCancellation,
                 parentAbort, runCancelled, count, slot, orphans>>

-----------------------------------------------------------------------------
(* The walk of one branch.                                                 *)

At(i, pc) == branch[i].pc = pc

WalkAborts(i) ==
  /\ At(i, "head") /\ Aborted
  /\ Settle(i, "branchCancelled") /\ UNCHANGED count

WalkOverCap(i) ==
  /\ At(i, "head") /\ ~Aborted /\ count = Cap
  /\ Settle(i, "failed") /\ UNCHANGED count

\* Variant with a bug: the cap is checked but nothing counts towards it.
VisitUncounted(i) == At(i, "head") /\ ~Aborted /\ count < Cap /\ count' = count

\* walk's checks before a node: not aborted, within the cap.
Visit(i) == At(i, "head") /\ ~Aborted /\ count < Cap /\ count' = count + 1

\* set and cond nodes never await.
WalkSet(i) == Visit(i) /\ MoveTo(i, branch[i]) /\ UNCHANGED slot

\* An expression, an input binding or a reserved path throws.
WalkThrows(i) ==
  /\ Visit(i)
  /\ MoveTo(i, [branch[i] EXCEPT !.pc = "thenThrow", !.err = "failed"])
  /\ UNCHANGED slot

WalkDispatch(i) ==
  /\ Visit(i)
  /\ \E p \in Policy :
       MoveTo(i, [branch[i] EXCEPT !.pc = "activity", !.attempt = 1, !.policy = p])
  /\ UNCHANGED slot

\* A signal node waits at once; a human node first records that it is pending.
WalkWait(i) ==
  /\ Visit(i)
  /\ \E pc \in {"waiting", "thenNotify"} : MoveTo(i, [branch[i] EXCEPT !.pc = pc])
  /\ UNCHANGED slot

WalkTerminate(i) == Visit(i) /\ \E res \in {"SUCCESS", "failed"} : Settle(i, res)

-----------------------------------------------------------------------------
(* runRetryable and waitCancellable.                                       *)

Throwing(i, e) == [branch[i] EXCEPT !.pc = "thenThrow", !.err = e]

ActivityPasses(i) ==
  /\ At(i, "activity") /\ ~runCancelled
  /\ MoveTo(i, [branch[i] EXCEPT !.pc = "thenWalk"])
  /\ UNCHANGED <<count, slot>>

\* What the node's policy makes of a failed attempt: a gate failure
\* ({passed: false}) is not an error, a permanent error is not retried.
AfterFailure(i, kind) ==
  LET policy == branch[i].policy
  IN  IF \/ policy = "continue" /\ kind # "gate"
         \/ policy = "warn"
      THEN [branch[i] EXCEPT !.pc = "thenWalk"]
      ELSE IF policy = "retry" /\ branch[i].attempt <= Retries /\ kind # "permanent"
      THEN [branch[i] EXCEPT !.pc = "thenRetry"]
      ELSE Throwing(i, "failed")

ActivityFails(i) ==
  /\ At(i, "activity") /\ ~runCancelled
  /\ \E kind \in {"gate", "error", "permanent"} : MoveTo(i, AfterFailure(i, kind))
  /\ UNCHANGED <<count, slot>>

\* Variant with a bug: the node's policy is applied to a cancellation too.
InterruptedByPolicy(i) ==
  /\ Cancellable(i) /\ runCancelled
  /\ MoveTo(i, IF branch[i].policy \in {"warn", "continue"}
               THEN [branch[i] EXCEPT !.pc = "thenWalk"] ELSE Throwing(i, "runCancelled"))
  /\ UNCHANGED <<count, slot>>

\* Under a cancelled root scope an activity or a wait throws the run's
\* cancellation, which no policy handles.
Interrupted(i) ==
  /\ Cancellable(i) /\ runCancelled
  /\ MoveTo(i, Throwing(i, "runCancelled"))
  /\ UNCHANGED <<count, slot>>

\* The record of a step is written, or given up on.
RecordThenWalk(i) ==
  /\ At(i, "thenWalk")
  /\ MoveTo(i, [Absent EXCEPT !.pc = "head"])
  /\ UNCHANGED <<count, slot>>

\* Variant with a bug: a retry does not look whether the branch was aborted.
RetryAnyway(i) ==
  /\ At(i, "thenRetry")
  /\ MoveTo(i, [branch[i] EXCEPT !.pc = "activity", !.attempt = @ + 1])
  /\ UNCHANGED <<count, slot>>

RecordThenRetry(i) ==
  /\ At(i, "thenRetry")
  /\ MoveTo(i, IF Aborted THEN Throwing(i, "branchCancelled")
               ELSE [branch[i] EXCEPT !.pc = "activity", !.attempt = @ + 1])
  /\ UNCHANGED <<count, slot>>

\* Behind the PENDING record runHumanNode resolves the approver count, which may
\* throw, and files the human step, without a look at the fan-out.  (Under a
\* cancelled run the filing itself throws, and safeDispatch drops that.)
RecordThenNotify(i) ==
  /\ At(i, "thenNotify")
  /\ \/ MoveTo(i, [branch[i] EXCEPT !.pc = "thenWait"])
     \/ MoveTo(i, Throwing(i, "failed"))
  /\ UNCHANGED <<count, slot>>

\* Variant with a bug: the abort that came before the wait is not honoured.
WaitAnyway(i) ==
  /\ At(i, "thenWait")
  /\ MoveTo(i, [branch[i] EXCEPT !.pc = "waiting"])
  /\ UNCHANGED <<count, slot>>

\* The step is filed, or was given up on; waitCancellable looks before it waits.
RecordThenWait(i) ==
  /\ At(i, "thenWait")
  /\ MoveTo(i, IF Aborted THEN Throwing(i, "branchCancelled")
               ELSE [branch[i] EXCEPT !.pc = "waiting"])
  /\ UNCHANGED <<count, slot>>

\* The SKIPPED record of a human wait is followed by the closing of its step.
RecordThenClose(i) ==
  /\ At(i, "thenClose")
  /\ MoveTo(i, [branch[i] EXCEPT !.pc = "thenWalk"])
  /\ UNCHANGED <<count, slot>>

RecordThenThrow(i) == At(i, "thenThrow") /\ Settle(i, branch[i].err) /\ UNCHANGED count

-----------------------------------------------------------------------------
(* The signal the branches wait for.                                       *)

ReceiveSignal(i) ==
  /\ At(i, "waiting") /\ slot /\ ~runCancelled
  /\ MoveTo(i, [branch[i] EXCEPT !.pc = "thenWalk"])
  /\ slot' = FALSE /\ UNCHANGED count

\* The timer fires on an empty slot; so does a waiter's whose delivery another
\* took, for what was left of its timeout.  A signal node's wait or a human's.
WaitTimesOut(i) ==
  /\ At(i, "waiting") /\ ~slot /\ ~runCancelled
  /\ \E pc \in {"thenWalk", "thenClose"} : MoveTo(i, [branch[i] EXCEPT !.pc = pc])
  /\ UNCHANGED <<count, slot>>

\* Variant with a bug: an abandoned wait takes the payload that wakes it.
OrphanTakes(i) ==
  /\ i \in orphans
  /\ orphans' = orphans \ {i} /\ slot' = FALSE
  /\ UNCHANGED <<onBranchFail, phase, outcome, nextIndex, branch, entry, stop, firstError,
                 runCancellation, parentAbort, runCancelled, count>>

\* An abandoned wait ends, by a delivery or its timer, and leaves the slot.
OrphanEnds(i) ==
  /\ i \in orphans
  /\ orphans' = orphans \ {i}
  /\ UNCHANGED <<onBranchFail, phase, outcome, nextIndex, branch, entry, stop, firstError,
                 runCancellation, parentAbort, runCancelled, count, slot>>

-----------------------------------------------------------------------------
(* The environment.                                                        *)

DeliverSignal ==
  /\ slot' = TRUE
  /\ UNCHANGED <<onBranchFail, phase, outcome, nextIndex, branch, entry, stop, firstError,
                 runCancellation, parentAbort, runCancelled, count, orphans>>

CancelRun ==
  /\ ~runCancelled /\ runCancelled' = TRUE
  /\ UNCHANGED <<onBranchFail, phase, outcome, nextIndex, branch, entry, stop, firstError,
                 runCancellation, parentAbort, count, slot, orphans>>

\* The enclosing fanOut was decided: by a block-mode cancel, whose token this
\* fanOut holds while it runs (not yet while its first record is written), or by
\* a run cancellation one of its branches saw.
ParentAborts ==
  /\ Nested /\ phase = "running" /\ ~parentAbort
  /\ parentAbort' = TRUE
  /\ \/ /\ stop' = TRUE
        /\ branch' = CancelAllExcept(0, branch)
        /\ orphans' = orphans \cup Abandoned(0)
     \/ (runCancelled \/ nextIndex = 0) /\ UNCHANGED <<stop, branch, orphans>>
  /\ UNCHANGED <<onBranchFail, phase, outcome, nextIndex, entry, firstError,
                 runCancellation, runCancelled, count, slot>>

Walk(i) == \/ WalkAborts(i) \/ WalkOverCap(i) \/ WalkSet(i) \/ WalkThrows(i)
           \/ WalkDispatch(i) \/ WalkWait(i) \/ WalkTerminate(i)
ActivityEnds(i) == ActivityPasses(i) \/ ActivityFails(i)
Recorded(i) == \/ RecordThenWalk(i) \/ RecordThenRetry(i) \/ RecordThenNotify(i)
               \/ RecordThenWait(i) \/ RecordThenClose(i) \/ RecordThenThrow(i)
WaitEnds(i) == ReceiveSignal(i) \/ WaitTimesOut(i)

Next ==
  \/ StartBranch \/ Join
  \/ \E i \in Item : \/ Walk(i) \/ ActivityEnds(i) \/ Interrupted(i) \/ Recorded(i)
                     \/ WaitEnds(i) \/ OrphanEnds(i)
  \/ DeliverSignal \/ CancelRun \/ ParentAborts

Spec == Init /\ [][Next]_vars

\* Workflow code runs when it can; activities end (they have timeouts), records
\* are written or given up on, and a wait ends by its delivery or its timer.
Fairness ==
  /\ WF_vars(StartBranch) /\ WF_vars(Join)
  /\ \A i \in Item : /\ WF_vars(Walk(i)) /\ WF_vars(ActivityEnds(i))
                     /\ WF_vars(Interrupted(i)) /\ WF_vars(Recorded(i))
                     /\ WF_vars(WaitEnds(i))

FairSpec == Spec /\ Fairness

-----------------------------------------------------------------------------
(* Properties.                                                             *)

\* Once a fan-out is decided no work of it starts: no branch is taken from the
\* items, no attempt of a node and no wait begins, not even a retry or a wait
\* behind a record that was being written, and no human node is entered.  The
\* exception the code makes, and the only one beside the records of what ended:
\* a human node already entered goes on from its PENDING record to file its
\* step and notify people (interpreter.ts:1077, 1088), and closes one that
\* timed out (1126, 1128); it never gets to wait for the answer.
NothingStartsOnceDecided ==
  [][Aborted => \A i \in Item :
       /\ At(i, "absent") => branch'[i].pc = "absent"
       /\ ~Cancellable(i) => branch'[i].pc \notin {"activity", "waiting"}
       /\ branch'[i].pc = "thenNotify" => At(i, "thenNotify")]_vars

\* Block mode leaves no sibling inside an activity or a wait: each is
\* interrupted where it is, or stops before it gets into one.  (Under a
\* cancelled run they are thrown out by the cancellation itself.)
StopInterruptsAll ==
  stop /\ ~runCancelled => \A i \in Item : ~Cancellable(i)

\* The join accounts for every item: a branch that started has its entry and is
\* over, and only the tail a decided fan-out never reached is skipped.
JoinIsComplete ==
  phase = "joined" => \A i \in Item :
    /\ At(i, "done") <=> entry[i] # "none"
    /\ At(i, "absent") <=> entry[i] = "none"
    /\ entry[i] = "none" => Aborted /\ i > nextIndex

\* What the node reports is what happened: it fails with its own error only if
\* a branch failed of itself (not merely because it was cancelled), a run
\* cancellation a branch saw always surfaces, and it goes on to the join node
\* only past branches its policy lets fail.
OutcomeIsHonest ==
  /\ outcome = "blocked" => \E i \in Item : entry[i] = "failed"
  /\ outcome # "none" => (outcome = "cancelled" <=> \E i \in Item : entry[i] = "runCancelled")
  /\ outcome = "passed" => /\ \A i \in Item : entry[i] \in {"SUCCESS", "failed"}
                           /\ onBranchFail = "block" => \A i \in Item : entry[i] = "SUCCESS"

\* A cancelled run is not turned into progress: what a branch was inside when
\* the run was cancelled throws, whatever the node's policy.
CancellationPassesPolicies ==
  [][\A i \in Item : runCancelled /\ Cancellable(i) /\ branch'[i] # branch[i] =>
       branch'[i].pc = "thenThrow" /\ branch'[i].err = "runCancelled"]_vars

\* A payload leaves the slot only into the hands of a live wait, one branch.
OneDeliveryOneLiveConsumer ==
  [][slot /\ ~slot' => \E i \in Item :
       /\ At(i, "waiting") /\ branch'[i].pc = "thenWalk"
       /\ \A j \in Item \ {i} : branch'[j] = branch[j]]_vars

\* The fan-out ends, whatever loops the subgraph has (the shared cap), whatever
\* fails and is cancelled.
FanOutEnds == <>(phase = "joined")
=============================================================================
