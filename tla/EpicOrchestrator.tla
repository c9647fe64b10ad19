------------------------- MODULE EpicOrchestrator -------------------------
(***************************************************************************)
(* EpicOrchestratorWorkflow (worker/src/workflows/epicOrchestrator.ts):    *)
(* fans an epic out into one child workflow per repository, in dependency  *)
(* order.  The event-driven scheduler and the wave scheduler it replaced   *)
(* are both live code, chosen by a Temporal patch marker.                  *)
(*                                                                         *)
(* One step of the module is one workflow activation: what the code does   *)
(* between two awaits.  The cancel signal, the children and the activities *)
(* interleave with it.                                                     *)
(***************************************************************************)
CONSTANT Repo           \* repository ids

VARIABLES
  phase,        \* where the workflow is
  repos,        \* request.repos: the ids of the entries
  deps,         \* dependsOn of each entry
  wantsPlan,    \* request.repoIds is present and not empty
  eventDriven,  \* patched('epic-event-driven-scheduling')
  cancelsScope, \* patched('epic-cancel-children')
  cancelled,    \* the flag the cancel signal sets
  child,        \* the child workflow of each repository, as runRepo sees it
  inFlight,     \* what the scheduler waits for: inFlight, or the wave
  results,      \* childResults[r].status, "none" when absent
  verdict,      \* EpicResult.status, once decided
  domain        \* ActiveWorkflow.currentStatus of the epic

request == <<repos, deps, wantsPlan, eventDriven, cancelsScope>>
vars == <<phase, request, cancelled, child, inFlight, results, verdict, domain>>

Phase  == {"new", "planning", "planned", "scheduling", "ending", "returned", "threw"}
Child  == {"idle", "resolving", "running", "settled"}
Result == {"none", "SUCCESS", "FAILED", "SKIPPED"}
Closed == {"returned", "threw"}

TypeOK ==
  /\ phase \in Phase
  /\ repos \in SUBSET Repo
  /\ deps \in [Repo -> SUBSET Repo]
  /\ wantsPlan \in BOOLEAN /\ eventDriven \in BOOLEAN /\ cancelsScope \in BOOLEAN
  /\ cancelled \in BOOLEAN
  /\ child \in [Repo -> Child]
  /\ inFlight \in SUBSET repos
  /\ results \in [Repo -> Result]
  /\ verdict \in {"none", "SUCCESS", "FAILED", "CANCELLED"}
  /\ domain \in {"none", "PLANNING", "FANNING_OUT", "COMPLETED", "FAILED", "CANCELLED"}

\* A request carries any graph: cycles, self edges and unknown ids included.
\* Entries that are not in repos have no dependsOn.
Graphs(S) == {g \in [Repo -> SUBSET Repo] : \A r \in Repo \ S : g[r] = {}}

Init ==
  /\ phase = "new"
  /\ repos \in SUBSET Repo
  /\ deps \in Graphs(repos)
  /\ wantsPlan \in BOOLEAN /\ eventDriven \in BOOLEAN /\ cancelsScope \in BOOLEAN
  /\ cancelled = FALSE
  /\ child = [r \in Repo |-> "idle"]
  /\ inFlight = {}
  /\ results = [r \in Repo |-> "none"]
  /\ verdict = "none"
  /\ domain = "none"

-----------------------------------------------------------------------------
(* Reading the results.                                                    *)

Succeeded(res) == {r \in Repo : res[r] = "SUCCESS"}
Finished(res)  == {r \in Repo : res[r] # "none"}
Live(r)        == child[r] \in {"resolving", "running"}

\* Variant with a bug: the flag alone is the whole cancel.
ScopeNotCancelled == FALSE

\* The scope the children run in was cancelled with the signal.
ScopeCancelled == cancelled /\ cancelsScope

\* The repositories that reach r along dependsOn, r itself excepted: the least
\* set the worklist of computeTransitiveDependents closes.
ClosedUnder(S, r) ==
  \A x \in repos \ {r} : (\E d \in deps[x] : d = r \/ d \in S) => x \in S
Dependents(r) ==
  {x \in repos : \A S \in SUBSET repos : ClosedUnder(S, r) => x \in S}

\* Variant with a bug: skipping does not look at finishedRepos.
SkipOverwrites(res, S) == [r \in Repo |-> IF r \in S THEN "SKIPPED" ELSE res[r]]

Skip(res, S) == [r \in Repo |-> IF r \in S /\ res[r] = "none" THEN "SKIPPED" ELSE res[r]]

SkipDependentsOf(res, D) ==
  Skip(res, UNION {Dependents(d) : d \in {x \in D : res[x] # "SUCCESS"}})

\* Variant with a bug: a dependency that merely finished unblocks its dependents.
ReadyOnFinished(res) == {r \in repos : /\ child[r] = "idle"
                                       /\ res[r] = "none"
                                       /\ deps[r] \subseteq Finished(res)}
Ready(res) == {r \in repos : /\ child[r] = "idle"
                             /\ res[r] = "none"
                             /\ deps[r] \subseteq Succeeded(res)}

\* Variant with a bug: `every` over an empty plan is true.
AllSuccessVacuous(res) == \A r \in repos : res[r] = "SUCCESS"

AllSuccess(res) == repos # {} /\ \A r \in repos : res[r] = "SUCCESS"

Outcome(res) == IF cancelled THEN "CANCELLED"
                ELSE IF AllSuccess(res) THEN "SUCCESS" ELSE "FAILED"

DomainStatus(v) == IF v = "SUCCESS" THEN "COMPLETED" ELSE v

\* One turn of either scheduling loop, from the results so far and what is
\* still in flight: start what is ready, or leave the loop, skip what nothing
\* will unblock and decide the epic's status.
Turn(res, flying) ==
  LET go == IF cancelled THEN {} ELSE Ready(res)
  IN  /\ inFlight' = flying \cup go
      /\ child' = [r \in Repo |-> IF r \in go THEN "resolving" ELSE child[r]]
      /\ IF flying \cup go # {}
         THEN /\ results' = res
              /\ phase' = "scheduling"
              /\ UNCHANGED verdict
         ELSE /\ results' = IF cancelled THEN res ELSE Skip(res, repos)
              /\ phase' = "ending"
              /\ verdict' = Outcome(results')

\* updateDomainState, retried by Temporal: it lands, or its attempts run out,
\* whether or not one of them reached the database, and the workflow throws.
WriteFails(st) == /\ phase' = "threw"
                  /\ domain' \in {domain, st}
                  /\ UNCHANGED <<request, cancelled, child, inFlight, results, verdict>>

-----------------------------------------------------------------------------
(* The workflow.                                                           *)

NeedsPlan == repos = {} /\ wantsPlan

StartPlanning ==
  /\ phase = "new" /\ NeedsPlan
  /\ \/ /\ domain' = "PLANNING"
        /\ phase' = "planning"
        /\ UNCHANGED <<request, cancelled, child, inFlight, results, verdict>>
     \/ WriteFails("PLANNING")

\* planEpic never returns an empty plan, a self edge or an unknown id; it can
\* return a cycle.  Its failure is the workflow's.
PlanEpic ==
  /\ phase = "planning"
  /\ \/ /\ repos' \in SUBSET Repo \ {{}}
        /\ deps' \in {g \in [Repo -> SUBSET repos'] :
                        \A r \in Repo : r \notin g[r] /\ (r \notin repos' => g[r] = {})}
        /\ phase' = "planned"
     \/ /\ phase' = "threw"
        /\ UNCHANGED <<repos, deps>>
  /\ UNCHANGED <<wantsPlan, eventDriven, cancelsScope, cancelled, child, inFlight,
                 results, verdict, domain>>

\* The loop starts in the activation that saw the status write complete.
FanOut ==
  /\ phase = "planned" \/ (phase = "new" /\ ~NeedsPlan)
  /\ \/ /\ domain' = "FANNING_OUT"
        /\ Turn(results, {})
        /\ UNCHANGED <<request, cancelled>>
     \/ WriteFails("FANNING_OUT")

\* Promise.race hands the event-driven loop one settled repository at a time;
\* the wave loop goes on when its whole wave has settled.
\* Variant with a bug: a handled repository stays in inFlight.
LoopTurnKeepsInFlight ==
  /\ phase = "scheduling"
  /\ \E D \in SUBSET inFlight :
       /\ D # {}
       /\ \A r \in D : child[r] = "settled"
       /\ Turn(SkipDependentsOf(results, D), inFlight)
  /\ UNCHANGED <<request, cancelled, domain>>

LoopTurn ==
  /\ phase = "scheduling"
  /\ \E D \in SUBSET inFlight :
       /\ D # {}
       /\ \A r \in D : child[r] = "settled"
       /\ IF eventDriven THEN \E r \in D : D = {r} ELSE D = inFlight
       /\ Turn(SkipDependentsOf(results, D), inFlight \ D)
  /\ UNCHANGED <<request, cancelled, domain>>

Finish ==
  /\ phase = "ending"
  /\ \/ /\ domain' = DomainStatus(verdict)
        /\ phase' = "returned"
        /\ UNCHANGED <<request, cancelled, child, inFlight, results, verdict>>
     \/ WriteFails(DomainStatus(verdict))

\* workflowExecutionTimeout: Temporal closes the execution wherever it is.
ExecutionTimeout ==
  /\ phase \notin Closed
  /\ phase' = "threw"
  /\ UNCHANGED <<request, cancelled, child, inFlight, results, verdict, domain>>

CancelSignal ==
  /\ phase \notin Closed /\ ~cancelled
  /\ cancelled' = TRUE
  /\ UNCHANGED <<phase, request, child, inFlight, results, verdict, domain>>

-----------------------------------------------------------------------------
(* runRepo, one per repository in flight.                                  *)

\* The template was resolved and the child started: neither can happen in a
\* cancelled scope.
\* Variant with a bug: runRepo runs outside the cancelled scope.
StartChildUnscoped(r) ==
  /\ phase = "scheduling" /\ child[r] = "resolving"
  /\ child' = [child EXCEPT ![r] = "running"]
  /\ UNCHANGED <<phase, request, cancelled, inFlight, results, verdict, domain>>

StartChild(r) ==
  /\ phase = "scheduling" /\ child[r] = "resolving" /\ ~ScopeCancelled
  /\ child' = [child EXCEPT ![r] = "running"]
  /\ UNCHANGED <<phase, request, cancelled, inFlight, results, verdict, domain>>

SettleAs(r, v) ==
  /\ child' = [child EXCEPT ![r] = "settled"]
  /\ results' = [results EXCEPT ![r] = v]
  /\ UNCHANGED <<phase, request, cancelled, inFlight, verdict, domain>>

\* The child returned; every status but SUCCESS blocks the dependents alike.
ChildReturns(r) ==
  /\ phase = "scheduling" /\ child[r] = "running"
  /\ \E v \in {"SUCCESS", "FAILED"} : SettleAs(r, v)

\* The activity, startChild or the child itself failed, or was cancelled.
RunRepoThrows(r) == phase = "scheduling" /\ Live(r) /\ SettleAs(r, "FAILED")

Next ==
  \/ StartPlanning \/ PlanEpic \/ FanOut \/ LoopTurn \/ Finish
  \/ ExecutionTimeout \/ CancelSignal
  \/ \E r \in Repo : StartChild(r) \/ ChildReturns(r) \/ RunRepoThrows(r)

Spec == Init /\ [][Next]_vars

\* Temporal keeps running an open workflow, and both schedulers' awaits are on
\* activities with timeouts, on timers or on children.
WorkflowFair == WF_vars(StartPlanning \/ PlanEpic \/ FanOut \/ LoopTurn \/ Finish)

\* resolveTemplateForRepo and startChild are bounded by their retry policies.
StartFair == \A r \in Repo :
  WF_vars(child[r] = "resolving" /\ (StartChild(r) \/ RunRepoThrows(r)))

\* A child that is asked to cancel ends.
CancelledChildEnds == \A r \in Repo :
  WF_vars(ScopeCancelled /\ (ChildReturns(r) \/ RunRepoThrows(r)))

\* A child ends: every wait of a run has a timeout or a person answers it.
ChildEnds == \A r \in Repo : WF_vars(ChildReturns(r) \/ RunRepoThrows(r))

FairSpec == Spec /\ WorkflowFair /\ StartFair /\ CancelledChildEnds

-----------------------------------------------------------------------------
(* Properties.                                                             *)

\* A repository that was ever picked up had, and still has, every dependency
\* inside the epic and succeeded: no verdict is taken back under a dependent
\* that already runs (the ready filter, in both schedulers).
StartedOnlyAfterDependencies ==
  \A r \in Repo : child[r] # "idle" => deps[r] \subseteq Succeeded(results)

\* SUCCESS and FAILED are verdicts of a child that ran; a repository whose
\* child was started is never reported SKIPPED, whatever order failures of its
\* upstreams are handled in (skipDependentsOf against runRepo).
RanIsNeverSkipped ==
  \A r \in Repo : /\ (results[r] \in {"SUCCESS", "FAILED"}) <=> (child[r] = "settled")
                  /\ results[r] = "SKIPPED" => child[r] = "idle"

\* A repository is passed over only for a cause one edge away: a dependency
\* outside the epic, or one that itself ended without success.
SkipHasCause ==
  \A r \in Repo : results[r] = "SKIPPED" =>
    \E d \in deps[r] : d \notin repos \/ results[d] \in {"FAILED", "SKIPPED"}

\* What the workflow returns is true of the epic: it leaves no child it still
\* waits for, SUCCESS means every repository succeeded, FAILED means every
\* repository has a verdict, and the status row agrees with the result.
ResultIsHonest ==
  phase = "returned" =>
    /\ \A r \in Repo : ~Live(r)
    /\ domain = DomainStatus(verdict)
    /\ verdict = "SUCCESS" => repos # {} /\ \A r \in repos : results[r] = "SUCCESS"
    /\ verdict = "FAILED" => /\ \A r \in repos : results[r] # "none"
                             /\ repos = {} \/ \E r \in repos : results[r] # "SUCCESS"
    /\ verdict = "CANCELLED" => cancelled

\* A verdict is never overwritten (a FAILED repository that a cycle reaches
\* from another failure must not turn into SKIPPED), and a repository that
\* settled is never picked up again.
VerdictsAreFinal ==
  [][\A r \in Repo : /\ results[r] # "none" => results'[r] = results[r]
                     /\ child[r] = "settled" => child'[r] = "settled"]_vars

\* Once the epic is cancelled no repository is picked up, and under
\* 'epic-cancel-children' none that was being started becomes a child.
NothingStartsAfterCancel ==
  [][cancelled => \A r \in Repo :
       /\ child[r] = "idle" => child'[r] = "idle"
       /\ cancelsScope /\ child[r] = "resolving" => child'[r] # "running"]_vars

\* If children end, so does the epic: no graph, cycles and unknown ids
\* included, leaves the loop waiting for nothing.
EpicEnds == ChildEnds => <>(phase \in Closed)

\* A cancelled epic ends although its children, left alone, would not.
CancelEnds == (cancelled /\ cancelsScope) ~> (phase \in Closed)

\* The epic is a dependency run.
Implementation == INSTANCE DependencyRun WITH
  state <- [r \in Repo |-> IF results[r] # "none" THEN results[r]
                           ELSE IF child[r] = "idle" THEN "waiting" ELSE "running"]
ImplementsDependencyRun == Implementation!Spec
=============================================================================
