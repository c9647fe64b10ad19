# auto-swe: a verification development

auto-swe runs engineering workflows. A gateway accepts work (HTTP, Slack,
webhooks, schedules), starts Temporal workflows, and stores runs in Postgres; a
worker interprets each run's template, calls models and tools, opens pull
requests, waits for people, and reports the end of a run to a billing ledger and
to callbacks. What is hard in it is not any one handler: it is that a workflow,
its abandoned activities, several gateway requests and several scheduled sweeps
write the same rows, and each can stop, be retried or be overtaken between two
statements.

This directory holds TLA+ models of those protocols, the TLC configurations that
check them on small instances, and proofs, checked by TLAPS, of their safety
properties for instances of any size. Paths below are relative to `packages/`.

## 1. Inventory

| Component | State it keeps | Operations | Model |
|---|---|---|---|
| Epic orchestrator (`worker/src/workflows/epicOrchestrator.ts`) | graph, results, in-flight children, cancel flag, status row | plan, two schedulers, `runRepo`, skip rules, cancel signal, final write | `EpicOrchestrator` |
| Human steps (`shared/.../interpreter.ts` `runHumanNode`, `worker/.../runnable.ts`, `activities/state.ts`, `gateway/src/lib/hitlResolve.ts`, `shared/.../signalSlots.ts`) | step rows, approvals, signal slot | file, answer, quorum, signal, roll back, time out, sweep | `HumanStep` |
| Workflow interpreter (`shared/src/workflow/interpreter.ts`) | walk position, transition count, branch slots, abort flags | walk, retry, wait, fan out, join, cancel | `FanOut` (partly) |
| End of a run (`worker/src/activities/templates.ts`, `reapStrandedRuns.ts`, `lib/endRun.ts`, the cancel route in `gateway/src/routes/workflowRuns.ts`) | run row, ledger row, monthly usage, outbox | finalize, reap, cancel, late activity writes | `RunFinalization` |
| Callback outbox (`worker/src/activities/deliverCallbacks.ts`, `pruneCallbackDeliveries.ts`, `gateway/src/routes/callbackEndpoints.ts`) | delivery row with claim, lease, retry window | claim, load, send, record, redeliver, edit, prune | `CallbackDelivery` |
| External-write ledger and approval gate (`worker/src/lib/externalWrite.ts`, its callers `genericActions.ts`, `mcpCallTool.ts`, `publishOutcome.ts`) | one row per (run, node, connection, visit), the run's decisions | find, gate, claim, call, complete, release | `ExternalWrite` over `EffectOnce` |
| Review launches (`worker/src/activities/reviewLaunches.ts`, `shared/src/lib/reviewLaunch.ts`) | intents with a status, attempts and a lease | enqueue, list, claim, prepare, record, start, settle, sweep | `ReviewLaunch` |
| Automations (`gateway/src/lib/automations/engine.ts`, `lib/workflowLaunch.ts`, `shared/src/automation/decide.ts`) | decisions with their dedupe keys, ledger rows, the owner's lock | take again, decide, decide under the lock, commit, start, compensate, restore | `Automation` |
| Epic planning (`worker/src/activities/planEpic.ts`) | none | merge stored edges into a plan | not modelled: data |
| In-flight admission (`shared/src/lib/requestInFlight.ts`, `agentRunAdmission.ts`) | ledger rows, Temporal's answers | who may start, close stale rows | its row write is in `RunFinalization`, an automation's check in `Automation` |
| Context snapshots (`worker/src/workflows/runnableContext.ts`) | none | spill and substitute by path | not modelled: strings |
| Billing reads, channels, reports, rollups, PR evaluation, workspaces, evals, knowledge, proxies, HTTP API, web, CLI, SDK | see `PROJECT.json` | | not modelled, section 8 |

How they interact:

- A gateway request or a schedule starts `RunnableWorkflow` (or the epic, which
  starts one child per repository). The workflow drives the interpreter; each
  node is a Temporal activity or a wait.
- The interpreter and the gateway share human-step rows and, through a Temporal
  signal, the slot from which a waiting node takes its answer.
- A run ends through one of four writers: the workflow's `finalizeWorkflowRun`,
  an earlier attempt of it that timed out and still runs, the reaper, or the
  dashboard's cancel. The transaction that ends it writes usage and the outbox.
- A node that writes to a provider goes through the external-write ledger, whose
  gate reads the decisions that human steps and `publishOutcome` record.
- A run that succeeded leaves review intents, which its own last activity and the
  reaper dispatch as new runs.
- A webhook that matches an automation is decided against every earlier decision of
  its owner, and starts a run through `launchTrackedWorkflow`.
- The outbox is drained by scheduled sweeps, reopened by redeliver requests and
  emptied by retention.

What makes each of them correct, and what is hard about it, is the `hazards` list
of `PROJECT.json`: one entry per line of code where an order of steps, a crash, a
lost call or a stale read bites, with the properties that would notice.

## 2. How the models are written

Each component has one module: its state as variables, one action per handler,
activity, transaction or stretch of workflow code between two awaits, its
properties at the end. The granularity is the code's own: what runs between two
awaits of a Temporal workflow is one step because workflow code is single
threaded; a database transaction or statement is one step; a network call is one
step for each outcome the caller can see, including the ambiguous ones (the
effect happened, the answer was lost). A process that may die does so between
any two steps.

Properties are invariants, action properties (`[][A]_v`) and, for the
specifications with fairness, liveness properties. Definitions called *a variant
with a bug* stand beside the definition they vary: each replaces one rule of the
code by a plausible slip, and shows that some property notices it. They are not
part of any specification.

`MC*.tla` extends a module for TLC; the `.cfg` files give the constants. Every
run has `CHECK_DEADLOCK FALSE`, because every one of these protocols ends: the
run is over, the delivery is settled, and nothing more has to happen.

## 3. The modules and the code

### DependencyRun and EpicOrchestrator

`DependencyRun` is the abstract promise: a set of repositories with a graph, each
run at most once, only after everything it depends on succeeded, and passed over
only for a cause. `EpicOrchestrator` is `EpicOrchestratorWorkflow`: `results` is
`childResults`, `inFlight` is what the event loop races on (or the wave), `child`
is how far `runRepo` is for each repository (`resolving` = awaiting
`resolveTemplateForRepo`, `running` = awaiting the child), `domain` is the status
row. The patch markers `epic-event-driven-scheduling` and `epic-cancel-children`
are chosen in `Init`, so both schedulers and both cancel behaviours are live. One
`LoopTurn` is one activation of the loop with all settlements that arrived before
it, which is where the order of failures matters. Status writes may exhaust
their retries (`WriteFails`); the execution may time out at any point.
`ImplementsDependencyRun` is the refinement: a repository's abstract state is its
result, or `running` or `waiting` by its child.

### HumanStep

One human node of one run, visited again through `request_changes`, timeouts and graph
loops. `rows` are the `WorkflowHumanStep` rows, `approvals` the `HumanApproval` rows,
`slot` the entry of `SignalSlots`. An answer is `CheckStep` (the reads before the
transaction) then `CommitAnswer` (the transaction with its `PENDING` guard and quorum
count), then one of three outcomes of the signal, then a rollback which may itself fail.
The gateway may crash in between, within the two writes of a rollback too. `stands` is a
history variable: who approved a step and neither had the approval taken back nor was
told that it failed. `approvals` is what the quorum counts; a rollback that left the row
of an approval behind would make the two differ, and `ApprovalIsBacked` speaks of the
second. That a repeated approval (a unique violation) changes nothing is part of
`CommitAnswer`; the inductive invariant has fewer approvals than the quorum on every
open row, so such an answer could not have resolved the step anyway. The workflow files
a row, waits, times out, marks the row, and at its end sweeps what is open. `broken`
records a failure the code only logs (failed rollback, crash between commit and signal):
the properties about stranded runs exclude it, the ones about answers do not.

### FanOut

One `fanOut` node: the worker pool (`StartBranch`, `Join`), and for each branch the walk
over a subgraph whose next node is chosen freely: control nodes, dispatches under
`runRetryable` with any `onFail`/`onError` policy, waits under `waitCancellable`.
`stop`, `firstError`, `runCancellation` are the flags of `runFanOut`; `Settle` is the
branch's `finally`, with the cancel of the siblings' scopes. An await between a failed
attempt and what follows it (the record of the step) is a program counter of its own
(`thenWalk`, `thenRetry`, `thenThrow`), because an abort can arrive there. So is each
await around a wait: a human node records `PENDING` (`thenNotify`) and then starts the
activity that files the row and notifies people (`thenWait`), with no abort check before
the wait itself; after a time-out it closes the row (`thenClose`) before the record
(`thenWalk`). `parentAbort` is the enclosing fan-out aborting this one; `runCancelled`
the root scope. `onBranchFail` is chosen in `Init`, so block and continue are checked
together. `orphans` are waits that were abandoned by a cancel and are still pending in
the runtime.

### RunFinalization

One run and everyone who may end it. A call of `finalizeRun` (an attempt in
`Worker`, or a reaper's in `Sweep`) is: list and ask Temporal (sweeps only), read
the cost, the first guarded update of `endWorkflowRun` with the rest of its
transaction, the second guarded update (over a `CANCELLED` row), the counter and
the notices. It may die between any two. A cancel request is the route: check the
row, ask Temporal, write the row (or end the run itself when the execution is
gone), close the ledger row. The execution's own life is small but complete:
set-up, running, finalizing, the ways Temporal can close or forget it. Activities
abandoned by a cancel go on recording spend and status. `CloseRows` is the write
that an admission check elsewhere makes to the same ledger row.

### CallbackDelivery

One outbox row. A sweep claims it under a lease and token, loads it with its
endpoint, sends, and records the result only if the row still carries its token;
it may die or be overtaken anywhere. Endpoint managers edit, disable or delete the
endpoint, and redeliver a dead row by a compare-and-set on the status they read.
Retention deletes by the ids it read and a repeated status check. Time is two
Booleans: the next attempt is due, and the retry window is open.

### EffectOnce and ExternalWrite

`EffectOnce` is the abstract promise: each pass over a step has at most one effect
at the provider, and the workflow is told no other. `ExternalWrite` is one step that
writes to one connection, over the passes of a loop (a visit is part of the key) and
the attempts of each. An attempt is `findRecordedOutcome`, the two queries of
`assertApprovalSatisfied`, `claimOutcome` (one create under a unique key), the call of
the provider, and `CompleteOutcome` or `releaseOutcome`, each a step; it may throw at
any of them, and Temporal may give up on it while its code runs on (`TimesOut`). The
provider acts on a request at any time after it left, also when nobody waits. The
decisions of the run (a requirement published, a permissive decision, an approval, an
approval rolled back) change around the attempts. `held` is a history variable: the
attempt began while approval was owed, and it has been owed ever since.

### ReviewLaunch

One review intent and any number of dispatchers (the activity at the end of the run,
the reaper). A listing is remembered only as long as the row is unchanged (`current`),
which is the code's compare on `updatedAt`; every write moves `updatedAt`, starts the
lease anew and makes the other listings stale. After its claim a dispatcher prepares
(may refuse), records the launch, starts the review with `REJECT_DUPLICATE`, and
settles the intent *by id only*: so a dispatcher that outlived its lease may write its
outcome over another's, and the model does that too. The sweep closes intents whose
attempts are used up.

### Automation

Deliveries and manager's retries of several occurrences on one scope within a day. A
delivery finds an earlier decision that may be taken again and moves its dedupe key
aside (`FindEarlier`, `TakeEarlier`), writes a refusal of the unlocked guards or opens
the transaction (`Decide`), takes the owner's lock and judges cap, cooldown, subject
and in-flight runs (`decideUnderLock`), commits the decision with the ledger rows
(`Commit`), starts the workflow with its retries, and on failure compensates, marks the
decision and gives the earlier one back (`compensate`, `RecordFailedStart`,
`Restore`). A delivery may die, and its clean-up may fail, at every step; `mishap` and
`lost` are history variables of what nothing in the code repairs.

## 4. Runs

States are distinct states found by TLC.

| Run | Instance | States | Shows |
|---|---|---|---|
| `epic` | 3 ids, all graphs over them (cycles, self edges, unknown ids, empty epics), both schedulers, fairness | 211,288 | honest skips and result, nothing started after a cancel, refinement of `DependencyRun`; the epic ends when children do, a cancelled one even if they would not |
| `human_quorum` | 2 users, quorum 2, 2 visits, 2 rows, approve/request changes, loops on changes and on timeout; users symmetric | 1,238,205 | acknowledged answers stick, an approval a run can take is backed by approvals that stand, no run waits for nobody, closed stays closed |
| `human_stale` | 1 user, 2 visits | violation | finding 1 |
| `fanout` | 3 items, 2 workers, block and continue, nested, 1 retry, 5 transitions, fairness | 199,836 | one failure interrupts everything, no branch, node, attempt or wait begins afterwards (one filing apart, section 6), cancellations pass every policy, the join is complete, the verdict honest, one delivery one consumer; every fan-out ends |
| `run_race` | 1 worker attempt, 1 sweep, 2 cancels (symmetric), 1 LLM call | 2,051,577 | billed once, reported at most once, ends once, success is earned, a cancel that was accepted sticks |
| `run_stranded` | 1 attempt, 1 sweep, 1 cancel, fairness | 120,026 | a closed execution's run is ended by a sweep |
| `run_late_spend` | 1 of each | violation | finding 2 |
| `callback` | 2 sweeps, 2 redeliver requests, 1 pruner, fairness | 46,368 | the latest attempt decides, delivered is final, owed is never pruned, every delivery settles |
| `external_write` | 3 attempts (symmetric), 2 passes, 3 decisions | 1,119,300 | refinement of `EffectOnce`, owed approval holds a write back, a free key is safe to claim |
| `review_launch` | 3 dispatchers, 3 attempts, fairness | 26,450 | one review per intent, attempts are claimed and limited, started means started, every intent settles |
| `automation` | 3 deliveries, 2 occurrences, 2 subjects (all symmetric), cap 1, cooldown, 2 start attempts | 1,863,106 | the limits hold across concurrent decisions, no subject runs twice, a decision is taken by one, one decision stands |
| `automation_in_flight` | 2 deliveries of 2 subjects, cap 2, no cooldown | violation | finding 3 |

The longest run, `automation`, takes about two minutes on two cores. No run lists a
`TypeOK`: every one of them is proved (section 7).

Why these bounds are enough to be worth running:

- *Epic.* Three ids are the least with a transitive dependent that is also a
  dependent of a second failing repository, and with a cycle reached from a
  failure outside it. Graphs are not sampled: all are initial states.
- *Human step.* Two users are the least for a quorum with a racing second
  approver, two visits the least for an answer that survives into the next one,
  two rows the least for a row adopted or filed anew. `MaxVisit` and `MaxRow` stop
  the loop, not the protocol: every action fires within them.
- *Fan-out.* Three items on two workers leave one item unstarted when the first
  two are in flight, so the skipped tail exists. `Cap` is `MAX_NODE_TRANSITIONS`
  made small; it is a rule of the code, and `FanOutEnds` rests on it.
- *Run.* One attempt, one sweep and two cancels make three concurrent writers of
  different kinds. `MaxSpend` caps LLM calls. The instance reports `SUCCESS` or,
  through a cancel, `CANCELLED`; the proofs hold for every set of outcomes.
- *External write.* Three attempts over two passes are the least with an attempt of the
  first pass that runs on beside its retry *and* beside the next pass. Three decisions
  allow a requirement, its approval and a newer requirement. `MaxPass` and
  `MaxDecision` bound the loop and the log.
- *Review launch.* Three dispatchers are one that outlived its lease, one that took
  over and one that lists meanwhile; `MAX_ATTEMPTS` is 3 in the code too.
- *Automation.* Two deliveries of one occurrence and a third of the other; a cap of one
  makes every pair of starts a violation. `automation_in_flight` raises the cap and drops
  the cooldown, as an automation may.
- *Callback.* Two sweeps and two managers are the least with an overtaken claim
  and a stale redeliver.

## 5. Fairness, and what justifies it

- `EpicOrchestrator!FairSpec`: Temporal keeps running an open workflow
  (`WorkflowFair`); starting a child is bounded by its retry policy
  (`StartFair`); a child asked to cancel ends (`CancelledChildEnds`). That a child
  left alone ends is *not* assumed: it is the hypothesis of `EpicEnds`, and absent
  from `CancelEnds`.
- `FanOut!Fairness`: workflow code runs when it can, activities have timeouts, the
  record of a step is written or given up on, a wait ends by its signal or timer.
  No fairness on cancels or signals.
- `RunFinalization!SweepFairness`: the reaper runs on a schedule, and each of its
  steps succeeds infinitely often if it is tried infinitely often (strong
  fairness: a sweep may die anywhere, any number of times). Nothing is assumed of
  the worker, the cancel route or the execution.
- `CallbackDelivery!Fairness`: time passes; again and again *some* sweep gets
  through a step within its lease (a send is cut off after ten seconds, the lease
  is five minutes). Nothing is assumed of managers, pruners or the receiver.
- `ReviewLaunch!Fairness`: the source run is finalized, leases lapse, the reaper keeps
  listing and sweeping (weak fairness); among the claims that would go through, one does
  if they are possible again and again (strong fairness on `d \in current /\ Claim(d)`:
  a listing may go stale each time, but not for ever, since every claim uses up one of
  the attempts); a dispatcher that neither dies nor is overtaken takes its next step.
  Nothing is assumed of `reviewable`, which may flap.
- `EpicEnds` carries its hypothesis (`ChildEnds`) itself, so one `FairSpec` and one run
  serve `EpicEnds` and `CancelEnds`.

`ExternalWrite`, `Automation` and `HumanStep` are checked for safety only. For
`ExternalWrite` that is the honest choice: a write whose outcome is ambiguous is *meant*
to stay so until a person looks.

## 6. Findings

Where the code does not do what its own comments or documents say. Each is a run
whose single property states the quoted promise; `PROJECT.json` has the quotations.

1. `human_stale`: signal slots are keyed by node, not by visit. When a
   request-changes signal is delivered but its call fails ambiguously, the
   reopened row can be answered again while the fix runs, and that answer
   satisfies the next visit's wait before its step was looked at. The same comes of
   two other gaps: a `notifyHumanStep` attempt that filed the row but whose
   acknowledgement was lost (answered between the attempts, the retry files a second
   row for the visit), and a graph that loops from `onTimeout` while an answer to the
   step that timed out is on its way. Section 7 has the theorem that these three are all.
2. `run_late_spend`: the cost to bill is read before the terminal transaction; an
   activity that a cancel abandoned records spend after it, and nothing bills it.
3. `automation_in_flight`: a delivery that committed its decision but has not reached
   Temporal is unknown to Temporal, and therefore not in flight for the next delivery:
   both pass the check that the lock is there for, and both run on the scope. A start
   whose reply was lost is a second way into the same gap: its decision is taken back
   while its execution runs. Section 7 has the theorem that these two are all.

Other divergences met while modelling. The models have these behaviours; no run is kept
for them.

- A fan-out that is decided still files a human step. `runHumanNode` records the step as
  pending (`shared/src/workflow/interpreter.ts:1077`) and then notifies (`:1088`), and
  looks at the abort only in the wait that follows (`:1204`): when a sibling fails, or
  the run is cancelled, during the record, a row appears in the inbox and people are
  told of a step nobody will wait for, until the final sweep closes it
  (`RecordThenNotify` while `Aborted`). `NothingStartsOnceDecided` states this as its one
  exception: no human node is *entered* afterwards, and none is waited for.
- The rollback of a failed signal (`gateway/src/lib/hitlResolve.ts:406`) reopens a step
  without looking at the run, so a run that was swept and finished in between keeps a
  `PENDING` step, which `docs/hitl-workflows.md` says the sweep prevents
  (`Rollback` after `SweepPending` and `FinalizeRun`).
- `updateDomainState` (`worker/src/activities/state.ts:25`) writes the ledger status
  without looking at it, so an update still in flight makes the ledger row of a
  finished run active again, which the comment at `activities/templates.ts:1252` says
  must not happen (`DomainWrite` after `SecondWrite`).
- A dispatcher that outlived its lease writes `skipped` or `failed` over `started`
  (`worker/src/activities/reviewLaunches.ts:152`, `Settle`): the intent then hides a
  review that ran. `StartedRan` holds, its converse does not.
- A delivery that took an earlier decision again and then meets the unique workflow id
  of a ledger row that a failed clean-up left behind is answered *duplicate*: no error is
  thrown, so the earlier decision does not get its key back and no decision stands for
  the occurrence (`gateway/src/lib/automations/engine.ts:610`, `Commit`, third disjunct;
  the comment at line 311 says that whatever ends without a decision under the key
  gives it back). `DecisionStands` excludes it by `mishap`.

## 7. What is proved

`*Proofs.tla` hold hierarchical proofs, checked by `tlapm` to the last leaf, for
every value of the constants that satisfies the named assumptions (`ASSUME` in the
modules: bounds are naturals, calls of the two kinds are distinct, deliveries and dispatchers
are finitely many, offered actions are the known ones). Each has the same plan: an
inductive invariant `IInv` (or `Inv`), `Init => IInv`, one lemma per action or family of actions for
`IInv /\ [Next]_vars => IInv'`, and each property from it. Type correctness is a theorem
of each (`TypeCorrect`; `TypeInvariant` in `HumanStepProofs`), so no run spends a
property on it.

- `EpicOrchestratorProofs`: `IInv` adds to the type invariant that verdicts are sound
  against the graph (`Sound`), what the workflow's position implies about children
  (`Control`: nothing starts before the loop; what lives is waited for) and that a
  verdict, once decided, stays true (`VerdictHolds`). The last is what `ResultIsHonest`
  needs, since the status write comes steps later. The set of transitive dependents is
  characterised as the least set closed under the edges, and the lemmas about it carry
  the skip rules. Proved: its state properties (dependency order and the cause of a skip
  among them, which the runs check through the refinement), both action properties, the
  refinement of `DependencyRun` (safety part: it has no fairness), and the safety half
  of `EpicEnds`: while the loop goes on, some repository is in flight, each of them has
  a live child or a settled one to handle, and every live child is in flight
  (`LoopWaitsForSomething`), so on no graph, cyclic ones included, can the orchestrator
  wait for nothing.
- `HumanStepProofs`: a response past its commit owns the row it resolved and nobody was
  told of another answer to it (`OwnsRow`). Three kinds of step can take away what a
  waiting run could be answered by: a commit, which leaves its response to signal; a
  delivered signal, which fills the slot; a rollback, which by `OwnsRow` reopens its row
  unless another one is open. Hence `NeverStranded` (until a failure the code only logs,
  `broken`, which both it and finding 1 except). For the quorum: the approvals of an
  open row are those that stand, and fewer than required (`Counts`); a committed
  response that approved has a quorum with its sender, and taking it back gives its row
  the approvals it had (`HasQuorum`); a rollback under way takes no backing from an
  answer in the slot (`StaysBacked`). Hence an approval stays backed while it can be
  taken, whatever is rolled back meanwhile. Proved: types, `AcknowledgedIsRecorded`,
  `ClosedStaysClosed`, `ApprovalIsBacked`, `NeverStranded`.
- `FanOutProofs`: positions and slots agree (`Progress`), every branch cancel has a
  cause (`Cause`), the flags summarise the slots (`Flags`), the outcome is the verdict
  (`Joined`). `Cause` is what makes "a branch was cancelled" imply that some branch
  failed by itself. `StepKeeps` says what one step may do to one branch and carries the
  action properties; for `NothingStartsOnceDecided` it says which program counters a
  step may enter once the abort is up, the filing above being the one await a branch may
  still begin. Proved, for any number of items and workers: all six safety properties of
  `fanout`, in both modes.
- `RunFinalizationProofs`: what a call may rely on at each of its steps (`Calls`, the
  core of which is that at most one call is ever past its ending write), what is known
  of a run not yet ended (`Ends`), who may have written `CANCELLED` (`Stops`). Proved:
  the six safety invariants of `run_race`, and `EndingIsFinal` from `Ends`.
- `CallbackDeliveryProofs`: the token-holder's row is `PENDING` and an accepted send was
  received. Proved: `LatestAttemptDecides`, `DeliveredWasReceived`, `DeliveredIsFinal`,
  `OwedIsNeverPruned`.
- `ExternalWriteProofs`: every attempt whose request may be out, or is about to be, is
  the one named by the row of its pass (`ClaimIsOwned`); a done row and a result told
  are effects of the pass (`DoneHappened`, `ToldHappened`). Two owners of one pass would
  be named by one row, which is why there is one effect. For the gate (`Gate`): an
  attempt whose approval has been owed all along has read a requirement with no approval
  after it, and no later decision or withdrawal changes that. Proved:
  `OwedApprovalHolds`, `FreeKeyIsSafe`, and that `ExternalWrite` implements
  `EffectOnce`, for any number of attempts, passes and decisions.
- `ReviewLaunchProofs`: the review was started at most once and only after its record,
  and whoever is past the start has seen to it (`Launched`); the dispatchers at work are
  no more than the claims, and a listing that is still current has an attempt left
  (`Claimed`, which needs the cardinality of the set of working dispatchers to follow
  each step). Proved: `OneReviewPerIntent`, `AttemptsAreClaimed`, `StartedRan`.
- `AutomationProofs`: whoever has been accepted holds the owner's lock until the
  decision is written, so the room it found is still there (`Limits`); a delivery that
  took an earlier decision keeps it aside until its last step, so nobody else finds it
  (`Owners`). Where every reply of a start arrived, an execution is the only one of its
  occurrence and belongs to a decision to start that only its own delivery could have
  taken back, and did not (`Courses`): with one decision to start per subject from
  `Limits`, a subject runs once. For what an occurrence is left with: a decision moved
  aside is never one to start, and a key names one row (`Rows`); barring mishaps a
  decision to start whose start is settled has a run and only such a decision has a
  ledger row (`Books`), and an occurrence decided once has a row under its key or a
  delivery at work that holds the earlier row (`Settled`). Proved: `StartsWithinLimits`
  for any cap and subjects, `TakenOnce`, `SubjectRunsOnce`, `DecisionStands`.

Each finding has a theorem that says the causes named in section 6 are all of them. It
proves the violated promise, as stated by the run's property, from `Spec` and a condition
that rules the causes out; the condition is a hypothesis about behaviours, not a claim about
the code, which does not satisfy it.

| Theorem | Promise | What is ruled out |
|---|---|---|
| `VisitAnsweredUnlessAmbiguous` | `VisitAnsweredByItsOwnStep` | a row filed and not acknowledged, a delivered signal whose call failed (`NothingAmbiguous`); a loop from `onTimeout` |
| `StoppingSpendIsBilledIfAwaited` | `StoppingSpendIsBilled` | finalizing while an abandoned model call is out (`WaitsForSpending`) |
| `ScopeRunsOneAtATimeInOrder` | `ScopeRunsOneAtATime` while no reply was lost | deciding while another delivery's start is out (`NoStartUnderWay`); a lost reply |

TLC was used on the same instances before each of these proofs: the condition with its
inductive invariant holds there over many thousands of states (so behaviours that
satisfy it exist, and reach the interesting steps), and dropping any one part of a
condition brings the violation back. The inductive invariants of the other proofs were
checked in the same way on the bounds of section 4.

Only model-checked: liveness (`EpicEnds`, `CancelEnds`, `FanOutEnds`,
`StrandedRunsEnd`, `EveryDeliverySettles`, `EveryIntentSettles`), which is out of the
prover's reach here. Every safety property of a passing run, state invariant, action
property or refinement, is proved.

## 8. What is not modelled, and why

- Inside the modelled parts: the values nodes compute and pass on (contexts,
  bindings, exports), a fan-out as a node of a branch other than through the abort
  it passes in, the validation of an answer's value and its audit rows, the
  metadata a finished run carries, signing and address checks of callbacks.
- Inside the launches of reviews: `REVIEW_CONFLICT`
  (`shared/src/lib/reviewLaunch.ts:247-253`), a launch recorded for another request under
  the same review identity. The identity derives from the intent, so it takes two
  intents that share the eight hex digits `reviewWorkflowId` keeps
  (`codeReview.ts:124`); the model has one intent, and treats identities as distinct.
- Elsewhere: what makes a connector refuse before it calls, steps without a
  ledger key (outside a run there is no ledger), the limit of fifty intents a listing
  has, what an occurrence is and how Jira is polled, the other callers of
  `launchTrackedWorkflow`.
- Epic planning and context snapshots: pure functions over a model's output and over
  path strings. `EpicOrchestrator` accepts every graph a plan may return.
- In-flight admission as a queue: a rank computed by one query over the rows of many
  runs, judged by what Temporal answers; what could go wrong in it is the query. What
  it writes and what an automation asks of it are modelled.
- Channel turns and conversations: sequential best-effort scripts around Slack and
  a model. Their runs end through the same `endWorkflowRun`.
- Billing reads, rollups, reports: aggregation SQL; the write that feeds them is
  in `RunFinalization`.
- Model calls, evals, knowledge and memory, PR evaluation: data and prompts.
- Workspaces and proxies: state of the container substrate, HTTP forwarding.
- HTTP validation, authentication, CRUD, web, CLI, SDK.
- Temporal and Postgres appear through what the code can rely on: single-threaded
  workflow code, signals delivered in order to an open execution, activities that
  may outlive their abandonment, atomic transactions, guarded updates.

The models cover the protocols of the code, a small share of its lines: most of the
repository is HTTP handlers, user interface, prompts, provider adapters and SQL, which
hold no protocol of their own.

## 9. Plan

Done: `EpicOrchestrator` over `DependencyRun`, `HumanStep`, `FanOut`,
`RunFinalization`, `CallbackDelivery`, `ExternalWrite` over `EffectOnce`,
`ReviewLaunch`, `Automation`, each with its proofs. What would come next, were it
continued:

1. A composition of `RunFinalization` with `ReviewLaunch` and `CallbackDelivery`: the
   terminal transaction as the one source of both.
2. A fan-out as a node of a branch, once the interpreter's data is in the model.
