--------------------------- MODULE ReviewLaunch ---------------------------
(***************************************************************************)
(* Automatic reviews (worker/src/activities/reviewLaunches.ts): a run that *)
(* succeeded leaves an intent to review it; dispatchers (the run's own     *)
(* last activity and the run reaper) claim the intent under a lease and    *)
(* start the review.  The life of one intent: intents share nothing.       *)
(* A dispatcher's step is one statement on the database or one call of     *)
(* Temporal; it may die between any two, and may outlive its lease.        *)
(***************************************************************************)
EXTENDS Naturals, FiniteSets

CONSTANTS Dispatcher,   \* dispatchers at work at one time
          MaxAttempts   \* MAX_ATTEMPTS

ASSUME DispatcherAssumption == IsFiniteSet(Dispatcher)
ASSUME AttemptsAssumption == MaxAttempts \in Nat \ {0}

VARIABLES
  status,     \* of the intent; "none": not enqueued
  attempts,   \* of the intent
  lapsed,     \* its updatedAt is older than the lease
  current,    \* dispatchers whose listing still shows the intent as it is
  reviewable, \* source, preset and budget allow the review
  recorded,   \* the review's launch is recorded
  review,     \* the review's workflow in Temporal
  starts,     \* history: executions Temporal started for the intent
  pc          \* where each dispatcher is with the intent

intent == <<status, attempts, lapsed, current>>
outside == <<reviewable, recorded, review, starts>>
vars == <<intent, outside, pc>>

TypeOK ==
  /\ status \in {"none", "pending", "started", "skipped", "failed"}
  /\ attempts \in Nat /\ starts \in Nat
  /\ lapsed \in BOOLEAN /\ reviewable \in BOOLEAN /\ recorded \in BOOLEAN
  /\ current \in SUBSET Dispatcher
  /\ review \in {"none", "running", "closed"}
  /\ pc \in [Dispatcher -> {"idle", "listed", "claimed", "prepared", "recorded", "launched",
                            "erred", "refused"}]

\* Dispatchers that claimed the intent and have not settled it.
Working == {d \in Dispatcher : pc[d] \notin {"idle", "listed"}}

Init == /\ status = "none" /\ attempts = 0 /\ lapsed = FALSE /\ current = {}
        /\ reviewable \in BOOLEAN /\ recorded = FALSE /\ review = "none" /\ starts = 0
        /\ pc = [d \in Dispatcher |-> "idle"]

\* Every write moves updatedAt: the lease runs anew and what was listed is stale.
Write(s) == status' = s /\ lapsed' = FALSE /\ current' = {}

Goto(d, step) == pc' = [pc EXCEPT ![d] = step]

-----------------------------------------------------------------------------
(* The surroundings.                                                       *)

\* The transaction that finalizes the source run.
enqueueReviewLaunchIntents ==
  /\ status = "none" /\ Write("pending") /\ UNCHANGED <<attempts, outside, pc>>

LeaseLapses ==
  /\ status # "none" /\ ~lapsed /\ lapsed' = TRUE
  /\ UNCHANGED <<status, attempts, current, outside, pc>>

\* A preset is edited, a pull request merged, a month's budget used up or raised.
ReviewableChanges ==
  /\ reviewable' = ~reviewable /\ UNCHANGED <<intent, recorded, review, starts, pc>>

ReviewEnds ==
  /\ review = "running" /\ review' = "closed"
  /\ UNCHANGED <<intent, reviewable, recorded, starts, pc>>

\* Variant with a bug: off by one, an exhausted intent is never closed.
SweepPastLimit ==
  /\ attempts > MaxAttempts /\ status = "pending" /\ lapsed
  /\ Write("failed") /\ UNCHANGED <<attempts, outside, pc>>

\* The reaper, on an intent whose last dispatcher never settled it.
sweepReviewLaunches ==
  /\ attempts >= MaxAttempts /\ status = "pending" /\ lapsed
  /\ Write("failed") /\ UNCHANGED <<attempts, outside, pc>>

-----------------------------------------------------------------------------
(* dispatch.                                                               *)

List(d) ==
  /\ pc[d] = "idle" /\ status \in {"pending", "failed"}
  /\ attempts < MaxAttempts /\ (attempts = 0 \/ lapsed)
  /\ current' = current \cup {d} /\ Goto(d, "listed")
  /\ UNCHANGED <<status, attempts, lapsed, outside>>

\* Variant with a bug: the claim looks at the status alone.
ClaimByStatus(d) ==
  /\ pc[d] = "listed"
  /\ IF status \in {"pending", "failed"}
     THEN attempts' = attempts + 1 /\ Write("pending") /\ Goto(d, "claimed")
     ELSE Goto(d, "idle") /\ UNCHANGED intent
  /\ UNCHANGED outside

\* The update goes through on the row that was listed, unchanged.
Claim(d) ==
  /\ pc[d] = "listed"
  /\ IF d \in current
     THEN attempts' = attempts + 1 /\ Write("pending") /\ Goto(d, "claimed")
     ELSE Goto(d, "idle") /\ UNCHANGED intent
  /\ UNCHANGED outside

\* A statement or a call that failed: the dispatcher goes on in its catch block.
Errs(d) == Goto(d, "erred") /\ UNCHANGED <<intent, reviewable>>

prepareReviewLaunch(d) ==
  /\ pc[d] = "claimed"
  /\ \/ Goto(d, IF reviewable THEN "prepared" ELSE "refused") /\ UNCHANGED <<intent, reviewable>>
     \/ Errs(d)
  /\ UNCHANGED <<recorded, review, starts>>

\* One transaction, which finds the rows of an earlier attempt; its reply may be lost.
recordReviewLaunch(d) ==
  /\ pc[d] = "prepared"
  /\ \/ recorded' = TRUE /\ Goto(d, "recorded") /\ UNCHANGED <<intent, reviewable>>
     \/ recorded' \in {recorded, TRUE} /\ Errs(d)
  /\ UNCHANGED <<review, starts>>

\* Temporal starts the review's workflow.
Starts == review' = "running" /\ starts' = starts + 1

\* Variant with a bug: a closed review's workflow id may be used again.
StartAllowingDuplicate(d) ==
  /\ pc[d] = "recorded"
  /\ \/ review # "running" /\ Starts /\ Goto(d, "launched") /\ UNCHANGED <<intent, reviewable>>
     \/ review # "running" /\ Starts /\ Errs(d)
     \/ /\ review = "running" /\ Goto(d, "launched")
        /\ UNCHANGED <<intent, reviewable, review, starts>>
     \/ Errs(d) /\ UNCHANGED <<review, starts>>
  /\ UNCHANGED recorded

\* Variant with a bug: every error of the start is taken for a duplicate.
StartAdoptingAnyError(d) ==
  /\ pc[d] = "recorded"
  /\ \/ review = "none" /\ Starts
     \/ UNCHANGED <<review, starts>>
  /\ Goto(d, "launched") /\ UNCHANGED <<intent, reviewable, recorded>>

\* REJECT_DUPLICATE: a review that ever started is adopted; a reply may be lost.
StartReview(d) ==
  /\ pc[d] = "recorded"
  /\ \/ review = "none" /\ Starts /\ Goto(d, "launched") /\ UNCHANGED <<intent, reviewable>>
     \/ review = "none" /\ Starts /\ Errs(d)
     \/ /\ review # "none" /\ Goto(d, "launched")
        /\ UNCHANGED <<intent, reviewable, review, starts>>
     \/ Errs(d) /\ UNCHANGED <<review, starts>>
  /\ UNCHANGED recorded

\* The outcome is written by the id of the intent alone, or the query before it fails.
Settle(d) ==
  /\ \/ pc[d] = "launched" /\ Write("started") /\ Goto(d, "idle") /\ UNCHANGED attempts
     \/ pc[d] = "launched" /\ Goto(d, "erred") /\ UNCHANGED intent
     \/ pc[d] = "erred" /\ Write("failed") /\ Goto(d, "idle") /\ UNCHANGED attempts
     \/ pc[d] = "refused" /\ Write("skipped") /\ Goto(d, "idle") /\ UNCHANGED attempts
  /\ UNCHANGED outside

\* The worker dies, or the write of the catch block fails.
Dies(d) == pc[d] # "idle" /\ Goto(d, "idle") /\ UNCHANGED <<intent, outside>>

\* The next statement of a dispatcher after its claim.
Step(d) == prepareReviewLaunch(d) \/ recordReviewLaunch(d) \/ StartReview(d) \/ Settle(d)

Next ==
  \/ enqueueReviewLaunchIntents \/ LeaseLapses \/ ReviewableChanges \/ ReviewEnds
  \/ sweepReviewLaunches
  \/ \E d \in Dispatcher : List(d) \/ Claim(d) \/ Step(d) \/ Dies(d)

Spec == Init /\ [][Next]_vars

\* The run is finalized, time passes, the reaper keeps sweeping and a sweep gets
\* through every so often; a dispatcher that does not die goes on.
Fairness ==
  /\ WF_vars(enqueueReviewLaunchIntents) /\ WF_vars(LeaseLapses) /\ WF_vars(sweepReviewLaunches)
  /\ WF_vars(\E d \in Dispatcher : List(d))
  /\ SF_vars(\E d \in Dispatcher : d \in current /\ Claim(d))
  /\ \A d \in Dispatcher : WF_vars(Step(d)) /\ WF_vars(Claim(d))

FairSpec == Spec /\ Fairness

-----------------------------------------------------------------------------
(* Properties.                                                             *)

\* Lost replies, crashes and dispatchers that outlive their lease start the review
\* of an intent once.
OneReviewPerIntent == starts <= 1

\* Dispatchers that listed the same row do not both work on it, and the intent is
\* tried no more than MAX_ATTEMPTS times.
AttemptsAreClaimed == attempts <= MaxAttempts /\ Cardinality(Working) <= attempts

\* An intent that is recorded as started has a recorded review that was started.
StartedRan == status = "started" => recorded /\ starts > 0

\* The intent ends up started, skipped, or failed with no attempt left.
EveryIntentSettles ==
  <>[](status \in {"started", "skipped"} \/ (status = "failed" /\ attempts = MaxAttempts))

=============================================================================
