---------------------------- MODULE Automation ----------------------------
(***************************************************************************)
(* How the gateway decides an occurrence (a failed CI run, a labelled      *)
(* issue, ...) for the automation it matched and starts the run:           *)
(* decideAndStart of lib/automations/engine.ts, decideUnderLock of the     *)
(* shared package and launchTrackedWorkflow.  Deliveries of a webhook and  *)
(* a manager's "Decide again" race on the decisions of one owner.  All     *)
(* occurrences are on one scope (a branch), within a day, and none is the  *)
(* platform's own output (whose refusal is like the others under the lock).*)
(* A delivery's step is one statement, one transaction part or one call.   *)
(***************************************************************************)
EXTENDS Naturals, FiniteSets

CONSTANTS Delivery,    \* webhook deliveries and retries, each of which may record a decision
          Occurrence, Subject,
          MaxRunsPerDay, HasCooldown, \* the automation's limits
          StartAttempts               \* START_ATTEMPTS

ASSUME DeliveryAssumption == IsFiniteSet(Delivery)
ASSUME CapAssumption == MaxRunsPerDay \in Nat
ASSUME StartAssumption == StartAttempts \in Nat \ {0}
ASSUME CooldownAssumption == HasCooldown \in BOOLEAN

VARIABLES
  subject,  \* what each occurrence is about
  outcome,  \* outcome[d]: of the AutomationFire row d created, if any
  aside,    \* rows whose dedupe key was moved aside
  cooling,  \* rows within the cooldown
  ledger,   \* deliveries whose run-input and active-workflow rows exist
  open,     \* those of them whose status is not terminal
  wf, runs, \* each occurrence's execution in Temporal, and how many there were
  occ, pc,  \* the occurrence a delivery decides, and where it is
  manual,   \* the delivery is a manager's retry
  earlier,  \* the row a delivery found, or took, to decide again
  lock,     \* the delivery that holds the owner's lock, if any
  tries,    \* starts a delivery has tried in vain
  lost,     \* history: subjects a start of which was not heard of
  mishap    \* history: occurrences a delivery of which died or could not clean up

fires == <<outcome, aside, cooling>>
temporal == <<wf, runs>>
request == <<subject, occ, manual>>
history == <<lost, mishap>>
vars == <<request, fires, ledger, open, temporal, pc, earlier, lock, tries, history>>

Idle == {"unborn", "over"}

TypeOK ==
  /\ subject \in [Occurrence -> Subject] /\ occ \in [Delivery -> Occurrence]
  /\ outcome \in [Delivery -> {"none", "STARTED", "FAILED_TO_START", "SUPPRESSED"}]
  /\ aside \in SUBSET Delivery /\ cooling \in SUBSET Delivery
  /\ ledger \in SUBSET Delivery /\ open \in SUBSET ledger
  /\ wf \in [Occurrence -> {"none", "running", "gone"}] /\ runs \in [Occurrence -> Nat]
  /\ pc \in [Delivery -> Idle \cup {"find", "take", "decide", "lock", "accepted", "refused",
                                    "start", "undo", "adopt", "fail", "restore"}]
  /\ manual \in SUBSET Delivery
  /\ earlier \in [Delivery -> SUBSET Delivery]
  /\ lock \in SUBSET Delivery
  /\ tries \in [Delivery -> 0..(StartAttempts - 1)]
  /\ lost \in SUBSET Subject /\ mishap \in SUBSET Occurrence

Init ==
  /\ subject \in [Occurrence -> Subject] /\ occ \in [Delivery -> Occurrence]
  /\ outcome = [d \in Delivery |-> "none"] /\ aside = {} /\ cooling = {}
  /\ ledger = {} /\ open = {}
  /\ wf = [o \in Occurrence |-> "none"] /\ runs = [o \in Occurrence |-> 0]
  /\ pc = [d \in Delivery |-> "unborn"] /\ manual = {}
  /\ earlier = [d \in Delivery |-> {}] /\ lock = {} /\ tries = [d \in Delivery |-> 0]
  /\ lost = {} /\ mishap = {}

\* The rows recorded under an occurrence's own dedupe key: the key is unique.
Keyed(o) == {r \in Delivery : occ[r] = o /\ outcome[r] # "none" /\ r \notin aside}
Started == {r \in Delivery : outcome[r] = "STARTED"}

Goto(d, step) == pc' = [pc EXCEPT ![d] = step]

-----------------------------------------------------------------------------
(* The surroundings.                                                       *)

\* A run ends: its finalizer closes the ledger row, unless it was terminated.
RunEnds(o) ==
  /\ wf[o] = "running" /\ wf' = [wf EXCEPT ![o] = "gone"]
  /\ open' \in {open, {d \in open : occ[d] # o}}
  /\ UNCHANGED <<request, fires, ledger, runs, pc, earlier, lock, tries, history>>

CooldownEnds ==
  /\ cooling # {} /\ \E d \in cooling : cooling' = cooling \ {d}
  /\ UNCHANGED <<request, outcome, aside, ledger, open, temporal, pc, earlier, lock, tries,
                 history>>

-----------------------------------------------------------------------------
(* releaseDecision.                                                        *)

\* What stays while a delivery looks for its earlier decision and takes it.
Releasing == UNCHANGED <<subject, occ, outcome, cooling, ledger, open, temporal, lock, tries,
                         history>>

\* A manager asks to decide row r again.
DecideAgain(d) ==
  /\ pc[d] = "unborn" /\ Goto(d, "find") /\ manual' = manual \cup {d}
  /\ \E r \in Delivery : /\ occ[r] = occ[d] /\ outcome[r] \notin {"none", "STARTED"}
                         /\ earlier' = [earlier EXCEPT ![d] = {r}]
  /\ Releasing /\ UNCHANGED aside

\* The earlier decisions a delivery may take again.
Takeable(d) == IF d \in manual
               THEN {r \in Keyed(occ[d]) : r \in earlier[d] /\ outcome[r] # "STARTED"}
               ELSE {r \in Keyed(occ[d]) : outcome[r] = "FAILED_TO_START"}

\* A webhook's delivery begins here.
FindEarlier(d) ==
  /\ pc[d] \in {"unborn", "find"}
  /\ \/ \E r \in Takeable(d) : earlier' = [earlier EXCEPT ![d] = {r}] /\ Goto(d, "take")
     \/ /\ Takeable(d) = {} /\ UNCHANGED earlier
        /\ Goto(d, IF d \in manual THEN "over" ELSE "decide")
  /\ Releasing /\ UNCHANGED <<manual, aside>>

\* Variant with a bug: the row is moved aside by its id alone.
TakeById(d) ==
  /\ pc[d] = "take" /\ aside' = aside \cup earlier[d] /\ Goto(d, "decide")
  /\ Releasing /\ UNCHANGED <<manual, earlier>>

\* The key is given up only if the row still holds it: one taker wins.
TakeEarlier(d) ==
  /\ pc[d] = "take"
  /\ IF earlier[d] \subseteq Takeable(d)
     THEN aside' = aside \cup earlier[d] /\ Goto(d, "decide") /\ UNCHANGED earlier
     ELSE earlier' = [earlier EXCEPT ![d] = {}] /\ Goto(d, "over") /\ UNCHANGED aside
  /\ Releasing /\ UNCHANGED manual

\* The earlier decision gets its key back, unless another holds it by now.
Restore(d) ==
  /\ pc[d] = "restore" /\ Goto(d, "over")
  /\ \/ /\ aside' = IF Keyed(occ[d]) = {} THEN aside \ earlier[d] ELSE aside
        /\ UNCHANGED mishap
     \/ mishap' = mishap \cup {occ[d]} /\ UNCHANGED aside    \* the update fails
  /\ UNCHANGED <<request, outcome, cooling, ledger, open, temporal, earlier, lock, tries, lost>>

-----------------------------------------------------------------------------
(* decide and the launch transaction.                                      *)

\* Insert the row of d, if the dedupe key is free; otherwise it is a duplicate.
Record(d, o) ==
  IF Keyed(occ[d]) = {}
  THEN /\ outcome' = [outcome EXCEPT ![d] = o]
       /\ cooling' = IF o = "STARTED" /\ HasCooldown THEN cooling \cup {d} ELSE cooling
  ELSE UNCHANGED <<outcome, cooling>>

\* Decisions that need no lock: ignored, refused for a precondition, the budget
\* or the template, or on to the launch.  A failed query leads to a restore, too.
Decide(d) ==
  /\ pc[d] = "decide"
  /\ \/ Goto(d, "restore") /\ UNCHANGED <<outcome, cooling>>
     \/ \E o \in {"SUPPRESSED", "FAILED_TO_START"} : Record(d, o) /\ Goto(d, "over")
     \/ Goto(d, "lock") /\ UNCHANGED <<outcome, cooling>>
  /\ UNCHANGED <<request, aside, ledger, open, temporal, earlier, lock, tries, history>>

\* An earlier run on the scope is in progress: its ledger row is open and Temporal
\* does not say it is gone; one that was never started is gone.
InFlight == \E r \in Started \cap open : wf[occ[r]] = "running"

Refused(o) ==
  \/ \E r \in Started : subject[occ[r]] = subject[o]
  \/ HasCooldown /\ Started \cap cooling # {}
  \/ InFlight
  \/ Cardinality(Started) >= MaxRunsPerDay

\* Variant with a bug: the decision takes no lock.
DecideWithoutLock(d) ==
  /\ pc[d] = "lock"
  /\ \/ Refused(occ[d]) /\ Goto(d, "refused")
     \/ Started \cap open # {} /\ Goto(d, "refused")
     \/ ~Refused(occ[d]) /\ Goto(d, "accepted")
  /\ UNCHANGED <<request, fires, ledger, open, temporal, earlier, lock, tries, history>>

\* The guard, under the owner's lock.  A Temporal that cannot answer counts an
\* open row as running.
decideUnderLock(d) ==
  /\ pc[d] = "lock" /\ lock = {} /\ lock' = {d}
  /\ \/ Refused(occ[d]) /\ Goto(d, "refused")
     \/ Started \cap open # {} /\ Goto(d, "refused")
     \/ ~Refused(occ[d]) /\ Goto(d, "accepted")
  /\ UNCHANGED <<request, fires, ledger, open, temporal, earlier, tries, history>>

\* The rest of the transaction: the decision and, for a start, the ledger rows,
\* whose workflow id is unique.  A duplicate, of either key, rolls all of it back.
Commit(d) ==
  /\ pc[d] \in {"accepted", "refused"} /\ lock' = lock \ {d}
  /\ \/ /\ pc[d] = "refused" /\ Record(d, "SUPPRESSED") /\ Goto(d, "over")
        /\ UNCHANGED <<ledger, open>>
     \/ /\ pc[d] = "accepted" /\ Keyed(occ[d]) = {} /\ \A e \in ledger : occ[e] # occ[d]
        /\ Record(d, "STARTED") /\ ledger' = ledger \cup {d} /\ open' = open \cup {d}
        /\ Goto(d, "start")
     \/ /\ pc[d] = "accepted" /\ (Keyed(occ[d]) # {} \/ \E e \in ledger : occ[e] = occ[d])
        /\ Goto(d, "over") /\ UNCHANGED <<outcome, cooling, ledger, open>>
     \/ Goto(d, "restore") /\ UNCHANGED <<outcome, cooling, ledger, open>>  \* the database fails
  /\ UNCHANGED <<request, aside, temporal, earlier, tries, history>>

-----------------------------------------------------------------------------
(* The start, and what is undone when it fails.                            *)

\* Temporal executes the start: an id whose execution is over may be used again.
Starts(o) == /\ wf[o] # "running" /\ wf' = [wf EXCEPT ![o] = "running"]
             /\ runs' = [runs EXCEPT ![o] = @ + 1]

\* The loop over the attempts is left.
Leave(d, step) == Goto(d, step) /\ tries' = [tries EXCEPT ![d] = 0]

\* An error: once more, unless this was the last attempt.
Again(d) == IF tries[d] + 1 = StartAttempts
            THEN Leave(d, "undo")
            ELSE tries' = [tries EXCEPT ![d] = @ + 1] /\ UNCHANGED pc

startRunnableWorkflow(d) ==
  /\ pc[d] = "start"
  /\ \/ Starts(occ[d]) /\ Leave(d, "over") /\ UNCHANGED lost
     \/ Starts(occ[d]) /\ Again(d) /\ lost' = lost \cup {subject[occ[d]]}   \* the reply is lost
     \/ /\ wf[occ[d]] = "running"                      \* WorkflowExecutionAlreadyStartedError
        /\ Leave(d, IF tries[d] > 0 THEN "over" ELSE "adopt")
        /\ UNCHANGED <<temporal, lost>>
     \/ Again(d) /\ UNCHANGED <<temporal, lost>>
  /\ UNCHANGED <<request, fires, ledger, open, earlier, lock, mishap>>

\* The ledger rows of a start that failed are deleted, as far as possible.
compensate(d) ==
  /\ pc[d] \in {"undo", "adopt"}
  /\ Goto(d, IF pc[d] = "undo" THEN "fail" ELSE "over")
  /\ \/ ledger' = ledger \ {d} /\ open' = open \ {d} /\ UNCHANGED mishap
     \/ mishap' = mishap \cup {occ[d]} /\ UNCHANGED <<ledger, open>>
  /\ UNCHANGED <<request, fires, temporal, earlier, lock, tries, lost>>

\* Variant with a bug: a failed start leaves the decision as it is.
KeepStarted(d) ==
  /\ pc[d] = "fail" /\ Goto(d, "restore")
  /\ UNCHANGED <<request, fires, ledger, open, temporal, earlier, lock, tries, history>>

\* The decision under the key becomes FAILED_TO_START; the error then reaches the
\* handler that restores.
RecordFailedStart(d) ==
  /\ pc[d] = "fail" /\ Goto(d, "restore")
  /\ \/ /\ outcome' = [r \in Delivery |-> IF r \in Keyed(occ[d]) \cap Started
                                          THEN "FAILED_TO_START" ELSE outcome[r]]
        /\ UNCHANGED mishap
     \/ mishap' = mishap \cup {occ[d]} /\ UNCHANGED outcome
  /\ UNCHANGED <<request, aside, cooling, ledger, open, temporal, earlier, lock, tries, lost>>

\* The gateway dies; its transaction is rolled back.
Dies(d) ==
  /\ pc[d] \notin Idle /\ Leave(d, "over") /\ lock' = lock \ {d}
  /\ mishap' = mishap \cup {occ[d]}
  /\ UNCHANGED <<request, fires, ledger, open, temporal, earlier, lost>>

Next ==
  \/ CooldownEnds \/ \E o \in Occurrence : RunEnds(o)
  \/ \E d \in Delivery :
       \/ DecideAgain(d) \/ FindEarlier(d) \/ TakeEarlier(d) \/ Restore(d)
       \/ Decide(d) \/ decideUnderLock(d) \/ Commit(d)
       \/ startRunnableWorkflow(d) \/ compensate(d) \/ RecordFailedStart(d) \/ Dies(d)

Spec == Init /\ [][Next]_vars

-----------------------------------------------------------------------------
(* Properties.                                                             *)

\* Decisions to start, of all deliveries together, stay within the limits: one per
\* subject, and the daily cap.
StartsWithinLimits ==
  /\ Cardinality(Started) <= MaxRunsPerDay
  /\ \A q, r \in Started : subject[occ[q]] = subject[occ[r]] => q = r

\* Redeliveries, retries, crashes and failed clean-ups start no second run for a
\* subject; only a start whose reply was lost can lead to one.
SubjectRunsOnce ==
  \A o, p \in Occurrence : subject[o] = subject[p] /\ subject[o] \notin lost =>
    runs[o] <= 1 /\ (runs[o] = 1 /\ runs[p] = 1 => o = p)

Deciding(d) == pc[d] \in {"decide", "lock", "accepted", "refused"}

\* A decision is taken again by one delivery at a time.
TakenOnce ==
  \A d, e \in Delivery :
    Deciding(d) /\ Deciding(e) /\ earlier[d] \cap earlier[e] # {} => d = e

\* Nobody is deciding the occurrence.
Quiet(o) == \A d \in Delivery : occ[d] = o => pc[d] \in Idle

\* Barring deaths and failed clean-ups, an occurrence that was ever decided has one
\* decision under its key when nobody decides it, and it says STARTED only if a run
\* was started.
DecisionStands ==
  \A o \in Occurrence \ mishap :
    Quiet(o) /\ (\E d \in Delivery : occ[d] = o /\ outcome[d] # "none") =>
      \E r \in Keyed(o) : Keyed(o) = {r} /\ (outcome[r] = "STARTED" => runs[o] > 0)

\* Two deliveries cannot both pass the in-flight check: one run on the scope at a time.
ScopeRunsOneAtATime ==
  \A o, p \in Occurrence : wf[o] = "running" /\ wf[p] = "running" => o = p
=============================================================================
