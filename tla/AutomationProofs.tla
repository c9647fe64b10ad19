-------------------------- MODULE AutomationProofs --------------------------
(***************************************************************************)
(* Proofs about Automation for any number of deliveries, occurrences and   *)
(* subjects, any daily cap and any number of start attempts.  Limits:      *)
(* whoever decided to start holds the owner's lock until the decision is   *)
(* written, and nobody adds a start meanwhile.  Owners: a delivery that    *)
(* took an earlier decision keeps it aside until it gives it back, its     *)
(* last step.  Courses: where every reply arrived, an execution belongs to *)
(* a decision to start that nobody takes back.  Rows, Books, Settled:      *)
(* where the decision of an occurrence is at every moment.  InOrder: what  *)
(* would hold if nobody decided while a start is under way.                *)
(***************************************************************************)
EXTENDS Automation, FiniteSetTheorems, TLAPS

Pc == Idle \cup {"find", "take", "decide", "lock", "accepted", "refused", "start", "undo",
                 "adopt", "fail", "restore"}

LEMMA InitType == Init => TypeOK
  BY StartAssumption DEF Init, TypeOK, Idle

LEMMA LedgerSteps ==
  ASSUME TypeOK, \/ CooldownEnds \/ \E o \in Occurrence : RunEnds(o)
                 \/ \E d \in Delivery : compensate(d)
  PROVE  TypeOK'
<1>1. CASE CooldownEnds
  BY <1>1 DEF CooldownEnds, TypeOK, request, temporal, history
<1>2. ASSUME NEW o \in Occurrence, RunEnds(o) PROVE TypeOK'
  BY <1>2 DEF RunEnds, TypeOK, request, fires, history
<1>3. ASSUME NEW d \in Delivery, compensate(d) PROVE TypeOK'
  <2>1. pc' \in [Delivery -> Pc]
    BY <1>3 DEF compensate, Goto, TypeOK, Pc, Idle
  <2>2. /\ ledger' \in SUBSET Delivery /\ open' \in SUBSET ledger'
        /\ mishap' \in SUBSET Occurrence
    BY <1>3 DEF compensate, TypeOK
  <2>3. UNCHANGED <<request, fires, temporal, earlier, lock, tries, lost>>
    BY <1>3 DEF compensate
  <2> QED BY <2>1, <2>2, <2>3 DEF TypeOK, Pc, request, fires, temporal
<1> QED BY <1>1, <1>2, <1>3

LEMMA ReleaseSteps ==
  ASSUME TypeOK, NEW d \in Delivery,
         DecideAgain(d) \/ FindEarlier(d) \/ TakeEarlier(d) \/ Restore(d)
  PROVE  TypeOK'
<1>1. CASE DecideAgain(d)
  BY <1>1 DEF DecideAgain, Releasing, Goto, TypeOK, Idle, temporal, history
<1>2. CASE FindEarlier(d)
  BY <1>2 DEF FindEarlier, Takeable, Keyed, Releasing, Goto, TypeOK, Idle, temporal, history
<1>3. CASE TakeEarlier(d)
  BY <1>3 DEF TakeEarlier, Releasing, Goto, TypeOK, Idle, temporal, history
<1>4. CASE Restore(d)
  BY <1>4 DEF Restore, Goto, TypeOK, Idle, request, temporal
<1> QED BY <1>1, <1>2, <1>3, <1>4

LEMMA RecordType ==
  ASSUME TypeOK, NEW d \in Delivery, NEW o \in {"STARTED", "FAILED_TO_START", "SUPPRESSED"},
         Record(d, o)
  PROVE  /\ outcome' \in [Delivery -> {"none", "STARTED", "FAILED_TO_START", "SUPPRESSED"}]
         /\ cooling' \in SUBSET Delivery
  BY DEF Record, TypeOK

LEMMA DecideSteps ==
  ASSUME TypeOK, NEW d \in Delivery, Decide(d) \/ decideUnderLock(d) \/ Commit(d)
  PROVE  TypeOK'
<1>1. CASE Decide(d)
  <2>1. /\ outcome' \in [Delivery -> {"none", "STARTED", "FAILED_TO_START", "SUPPRESSED"}]
        /\ cooling' \in SUBSET Delivery
    BY <1>1, RecordType DEF Decide, TypeOK
  <2>2. pc' \in [Delivery -> Pc]
    BY <1>1 DEF Decide, Goto, TypeOK, Pc, Idle
  <2> QED BY <1>1, <2>1, <2>2 DEF Decide, TypeOK, Pc, request, temporal, history
<1>2. CASE decideUnderLock(d)
  <2>1. pc' \in [Delivery -> Pc]
    BY <1>2 DEF decideUnderLock, Goto, TypeOK, Pc, Idle
  <2>2. /\ lock' = {d}
        /\ UNCHANGED <<request, fires, ledger, open, temporal, earlier, tries, history>>
    BY <1>2 DEF decideUnderLock
  <2> QED BY <2>1, <2>2 DEF TypeOK, Pc, request, fires, temporal, history
<1>3. CASE Commit(d)
  <2>1. /\ outcome' \in [Delivery -> {"none", "STARTED", "FAILED_TO_START", "SUPPRESSED"}]
        /\ cooling' \in SUBSET Delivery
    BY <1>3, RecordType DEF Commit, TypeOK
  <2>2. pc' \in [Delivery -> Pc]
    BY <1>3 DEF Commit, Goto, TypeOK, Pc, Idle
  <2>3. ledger' \in SUBSET Delivery /\ open' \in SUBSET ledger'
    BY <1>3 DEF Commit, TypeOK
  <2>4. lock' \in SUBSET Delivery /\ UNCHANGED <<request, aside, temporal, earlier, tries, history>>
    BY <1>3 DEF Commit, TypeOK
  <2> QED BY <2>1, <2>2, <2>3, <2>4 DEF TypeOK, Pc, request, temporal, history
<1> QED BY <1>1, <1>2, <1>3

LEMMA StartSteps ==
  ASSUME TypeOK, NEW d \in Delivery,
         startRunnableWorkflow(d) \/ RecordFailedStart(d) \/ Dies(d)
  PROVE  TypeOK'
<1>1. CASE startRunnableWorkflow(d)
  <2>1. pc' \in [Delivery -> Pc] /\ tries' \in [Delivery -> 0..(StartAttempts - 1)]
    BY <1>1, StartAssumption DEF startRunnableWorkflow, Again, Leave, Goto, TypeOK, Pc, Idle
  <2>2. /\ wf' \in [Occurrence -> {"none", "running", "gone"}]
        /\ runs' \in [Occurrence -> Nat] /\ lost' \in SUBSET Subject
    BY <1>1 DEF startRunnableWorkflow, Starts, temporal, TypeOK
  <2>3. UNCHANGED <<request, fires, ledger, open, earlier, lock, mishap>>
    BY <1>1 DEF startRunnableWorkflow
  <2> QED BY <2>1, <2>2, <2>3 DEF TypeOK, Pc, request, fires
<1>2. CASE RecordFailedStart(d)
  <2>1. pc' \in [Delivery -> Pc] /\ mishap' \in SUBSET Occurrence
    BY <1>2 DEF RecordFailedStart, Goto, TypeOK, Pc, Idle
  <2>2. outcome' \in [Delivery -> {"none", "STARTED", "FAILED_TO_START", "SUPPRESSED"}]
    BY <1>2 DEF RecordFailedStart, TypeOK
  <2>3. UNCHANGED <<request, aside, cooling, ledger, open, temporal, earlier, lock, tries, lost>>
    BY <1>2 DEF RecordFailedStart
  <2> QED BY <2>1, <2>2, <2>3 DEF TypeOK, Pc, request, temporal
<1>3. CASE Dies(d)
  <2>1. pc' \in [Delivery -> Pc] /\ tries' \in [Delivery -> 0..(StartAttempts - 1)]
    BY <1>3, StartAssumption DEF Dies, Leave, Goto, TypeOK, Pc, Idle
  <2>2. /\ lock' \in SUBSET Delivery /\ mishap' \in SUBSET Occurrence
        /\ UNCHANGED <<request, fires, ledger, open, temporal, earlier, lost>>
    BY <1>3 DEF Dies, TypeOK
  <2> QED BY <2>1, <2>2 DEF TypeOK, Pc, request, fires, temporal
<1> QED BY <1>1, <1>2, <1>3

LEMMA TypeStep == TypeOK /\ [Next]_vars => TypeOK'
<1>1. TypeOK /\ UNCHANGED vars => TypeOK'
  BY DEF vars, TypeOK, request, fires, temporal, history
<1> QED BY <1>1, LedgerSteps, ReleaseSteps, DecideSteps, StartSteps DEF Next

\* The state of the decisions, the ledger and Temporal keeps its types.
THEOREM TypeCorrect == Spec => []TypeOK
  BY InitType, TypeStep, PTL DEF Spec

-----------------------------------------------------------------------------
(* The limits.                                                             *)

\* A delivery that has not written its decision.
Unwritten(d) == pc[d] \in {"unborn", "find", "take", "decide", "lock", "accepted", "refused"}

Fresh == \A d \in Delivery : Unwritten(d) => outcome[d] = "none"

Held == \A d \in Delivery : pc[d] \in {"accepted", "refused"} => lock = {d}

\* Under the lock there is room for the start that was decided.
Room == \A d \in Delivery : pc[d] = "accepted" =>
          /\ Cardinality(Started) < MaxRunsPerDay
          /\ \A r \in Started : subject[occ[r]] # subject[occ[d]]

Limits == Fresh /\ Held /\ Room /\ StartsWithinLimits

LEMMA InitLimits == Init => Limits
<1> SUFFICES ASSUME Init PROVE Limits
  OBVIOUS
<1>1. Started = {} /\ Cardinality(Started) = 0
  BY FS_EmptySet DEF Init, Started
<1> QED BY <1>1, CapAssumption DEF Init, Limits, Fresh, Held, Room, StartsWithinLimits

\* A step that starts nothing new and decides nothing under the lock.
LEMMA QuietStep ==
  ASSUME TypeOK, Limits, NEW d \in Delivery,
         \A e \in Delivery : outcome'[e] = outcome[e] \/ outcome'[e] # "STARTED",
         \A e \in Delivery \ {d} : pc'[e] = pc[e] /\ outcome'[e] \in {outcome[e], "FAILED_TO_START"}
                                 /\ (outcome[e] = "none" => outcome'[e] = "none"),
         UNCHANGED <<subject, occ>>,
         pc'[d] \notin {"accepted", "refused"},
         Unwritten(d)' => outcome'[d] = "none",
         lock' = lock \/ lock' = lock \ {d}
  PROVE  Limits'
<1>1. Started' \subseteq Started
  BY DEF Started
<1>2. IsFiniteSet(Started) /\ Cardinality(Started') <= Cardinality(Started)
      /\ Cardinality(Started) \in Nat /\ Cardinality(Started') \in Nat
  BY <1>1, DeliveryAssumption, FS_Subset, FS_CardinalityType DEF Started
<1>3. Fresh'
  BY DEF Limits, Fresh, Unwritten
<1>4. Held'
  <2> SUFFICES ASSUME NEW e \in Delivery, pc'[e] \in {"accepted", "refused"} PROVE lock' = {e}
    BY DEF Held
  <2> QED BY DEF Limits, Held
<1>5. Room'
  BY <1>1, <1>2, CapAssumption DEF Limits, Room
<1>6. StartsWithinLimits'
  BY <1>1, <1>2, CapAssumption DEF Limits, StartsWithinLimits
<1> QED BY <1>3, <1>4, <1>5, <1>6 DEF Limits

LEMMA UnderLockStep ==
  ASSUME TypeOK, Limits, NEW d \in Delivery, decideUnderLock(d)
  PROVE  Limits'
<1>1. /\ lock = {} /\ lock' = {d}
      /\ \A e \in Delivery \ {d} : pc'[e] = pc[e]
      /\ pc'[d] \in {"accepted", "refused"} /\ pc[d] = "lock"
      /\ UNCHANGED <<subject, occ, outcome>>
  BY DEF decideUnderLock, Goto, TypeOK, request, fires
<1>2. Started' = Started
  BY <1>1 DEF Started
<1>3. Fresh' /\ StartsWithinLimits'
  BY <1>1, <1>2 DEF Limits, Fresh, Unwritten, StartsWithinLimits
<1>4. \A e \in Delivery \ {d} : pc'[e] \notin {"accepted", "refused"}
  BY <1>1 DEF Limits, Held
<1>5. Held'
  BY <1>1, <1>4 DEF Held
<1>6. pc'[d] = "accepted" => ~Refused(occ[d])
  BY DEF decideUnderLock, Goto, TypeOK
<1>7. Cardinality(Started) \in Nat
  BY DeliveryAssumption, FS_Subset, FS_CardinalityType DEF Started
<1>8. Room'
  BY <1>1, <1>2, <1>4, <1>6, <1>7, CapAssumption DEF Room, Refused
<1> QED BY <1>3, <1>5, <1>8 DEF Limits

LEMMA CommitStep ==
  ASSUME TypeOK, Limits, NEW d \in Delivery, Commit(d)
  PROVE  Limits'
<1>1. /\ lock' = lock \ {d} /\ pc[d] \in {"accepted", "refused"}
      /\ pc'[d] \in {"over", "start", "restore"}
      /\ \A e \in Delivery \ {d} : pc'[e] = pc[e] /\ outcome'[e] = outcome[e]
      /\ UNCHANGED <<subject, occ>>
  BY DEF Commit, Goto, Record, TypeOK, request
<1>2. CASE outcome'[d] # "STARTED"
  BY <1>1, <1>2, QuietStep DEF Unwritten
<1>3. CASE outcome'[d] = "STARTED"
  <2>1. outcome[d] = "none"
    BY <1>1 DEF Limits, Fresh, Unwritten
  <2>2. pc[d] = "accepted"
    BY <1>3, <2>1 DEF Commit, Record, TypeOK
  <2>3. Started' = Started \cup {d} /\ d \notin Started
    BY <1>1, <1>3, <2>1 DEF Started
  <2>4. IsFiniteSet(Started)
    BY DeliveryAssumption, FS_Subset DEF Started
  <2>5. Cardinality(Started') = Cardinality(Started) + 1 /\ Cardinality(Started) \in Nat
    BY <2>3, <2>4, FS_AddElement, FS_CardinalityType
  <2>6. StartsWithinLimits'
    <3>1. Cardinality(Started') <= MaxRunsPerDay
      BY <2>2, <2>5, CapAssumption DEF Limits, Room
    <3>2. ASSUME NEW q \in Started', NEW r \in Started',
                 subject'[occ'[q]] = subject'[occ'[r]]
          PROVE  q = r
      BY <1>1, <2>2, <2>3, <3>2 DEF Limits, Room, StartsWithinLimits
    <3> QED BY <3>1, <3>2 DEF StartsWithinLimits
  <2>7. \A e \in Delivery : pc'[e] \notin {"accepted", "refused"}
    <3>1. lock = {d}
      BY <1>1 DEF Limits, Held
    <3> QED BY <1>1, <3>1 DEF Limits, Held
  <2>8. Fresh' /\ Held' /\ Room'
    BY <1>1, <2>7 DEF Limits, Fresh, Unwritten, Held, Room
  <2> QED BY <2>6, <2>8 DEF Limits
<1> QED BY <1>2, <1>3

LEMMA LimitsStep == TypeOK /\ Limits /\ [Next]_vars => Limits'
<1> SUFFICES ASSUME TypeOK, Limits, [Next]_vars PROVE Limits'
  OBVIOUS
<1>1. ASSUME NEW d \in Delivery,
             DecideAgain(d) \/ FindEarlier(d) \/ TakeEarlier(d) \/ Restore(d)
      PROVE  Limits'
  <2>1. /\ UNCHANGED <<subject, occ, outcome, lock>>
        /\ \A e \in Delivery \ {d} : pc'[e] = pc[e]
        /\ pc'[d] \in {"find", "take", "decide", "over"}
        /\ Unwritten(d)' => Unwritten(d)
    BY <1>1 DEF DecideAgain, FindEarlier, TakeEarlier, Restore, Releasing, Goto, TypeOK,
                Unwritten, request
  <2>2. Unwritten(d)' => outcome'[d] = "none"
    BY <2>1 DEF Limits, Fresh
  <2> QED BY <2>1, <2>2, QuietStep
<1>2. ASSUME NEW d \in Delivery, Decide(d) PROVE Limits'
  <2>1. /\ UNCHANGED <<subject, occ, lock>> /\ pc[d] = "decide"
        /\ pc'[d] \in {"restore", "over", "lock"} /\ (pc'[d] = "lock" => UNCHANGED outcome)
        /\ outcome'[d] = outcome[d] \/ outcome'[d] # "STARTED"
        /\ \A e \in Delivery \ {d} : pc'[e] = pc[e] /\ outcome'[e] = outcome[e]
    BY <1>2 DEF Decide, Record, Goto, TypeOK, request
  <2>2. Unwritten(d)' => outcome'[d] = "none"
    BY <2>1 DEF Limits, Fresh, Unwritten
  <2> QED BY <2>1, <2>2, QuietStep
<1>3. ASSUME NEW d \in Delivery,
             startRunnableWorkflow(d) \/ compensate(d) \/ RecordFailedStart(d) \/ Dies(d)
      PROVE  Limits'
  <2>1. /\ UNCHANGED <<subject, occ>> /\ (lock' = lock \/ lock' = lock \ {d})
        /\ pc'[d] \in {"start", "over", "undo", "adopt", "fail", "restore"}
        /\ \A e \in Delivery \ {d} : pc'[e] = pc[e]
    BY <1>3 DEF startRunnableWorkflow, Again, Leave, compensate, RecordFailedStart, Dies, Goto,
                TypeOK, request, Idle
  <2>2. \A e \in Delivery : \/ outcome'[e] = outcome[e]
                            \/ outcome[e] = "STARTED" /\ outcome'[e] = "FAILED_TO_START"
    BY <1>3 DEF startRunnableWorkflow, compensate, RecordFailedStart, Dies, Started, TypeOK, fires
  <2> QED BY <2>1, <2>2, QuietStep DEF Unwritten
<1>4. CASE CooldownEnds \/ (\E o \in Occurrence : RunEnds(o)) \/ UNCHANGED vars
  <2>1. UNCHANGED <<subject, occ, outcome, pc, lock>>
    BY <1>4 DEF CooldownEnds, RunEnds, vars, request, fires
  <2> QED BY <2>1 DEF Limits, Fresh, Unwritten, Held, Room, StartsWithinLimits, Started
<1> QED BY <1>1, <1>2, <1>3, <1>4, UnderLockStep, CommitStep DEF Next

\* However many deliveries and retries race, the decisions to start stay within
\* the daily cap and there is one per subject (decideUnderLock and its lock).
THEOREM StartsWithinLimitsHolds == Spec => []StartsWithinLimits
<1>1. Limits => StartsWithinLimits
  BY DEF Limits
<1> QED BY <1>1, InitLimits, LimitsStep, TypeCorrect, PTL DEF Spec

-----------------------------------------------------------------------------
(* Who may decide an earlier decision again.                               *)

\* A delivery that took its earlier decision and may yet give it back.
Owning(d) == pc[d] \in {"decide", "lock", "accepted", "refused", "start", "undo", "fail",
                        "restore"}

\* Nothing is asked for before a delivery begins; "find" is a manager's.
Begins == \A d \in Delivery : /\ pc[d] = "unborn" => earlier[d] = {}
                              /\ pc[d] = "find" => d \in manual

Aside == \A d \in Delivery : Owning(d) => earlier[d] \subseteq aside

Apart == \A d, e \in Delivery :
           Owning(d) /\ Owning(e) /\ d # e => earlier[d] \cap earlier[e] = {}

Owners == Begins /\ Aside /\ Apart

LEMMA OwnersStep == TypeOK /\ Owners /\ [Next]_vars => Owners'
<1> SUFFICES ASSUME TypeOK, Owners, [Next]_vars PROVE Owners'
  OBVIOUS
<1>1. ASSUME NEW d \in Delivery, DecideAgain(d) PROVE Owners'
  BY <1>1 DEF DecideAgain, Releasing, Goto, TypeOK, Owners, Begins, Aside, Apart, Owning
<1>2. ASSUME NEW d \in Delivery, FindEarlier(d) PROVE Owners'
  <2>1. /\ UNCHANGED <<aside, manual>>
        /\ \A e \in Delivery \ {d} : pc'[e] = pc[e] /\ earlier'[e] = earlier[e]
        /\ pc'[d] \in {"take", "over", "decide"}
        /\ pc'[d] = "decide" => earlier'[d] = {}
    BY <1>2 DEF FindEarlier, Releasing, Goto, TypeOK, Owners, Begins
  <2> QED BY <2>1 DEF Owners, Begins, Aside, Apart, Owning
<1>3. ASSUME NEW d \in Delivery, TakeEarlier(d) PROVE Owners'
  <2>1. /\ \A e \in Delivery \ {d} : pc'[e] = pc[e] /\ earlier'[e] = earlier[e]
        /\ aside \subseteq aside' /\ UNCHANGED manual /\ pc'[d] \in {"over", "decide"}
    BY <1>3 DEF TakeEarlier, Releasing, Goto, TypeOK
  <2>2. CASE pc'[d] = "over"
    BY <2>1, <2>2 DEF Owners, Begins, Aside, Apart, Owning
  <2>3. CASE pc'[d] = "decide"
    <3>1. /\ earlier[d] \cap aside = {} /\ earlier'[d] = earlier[d]
          /\ earlier[d] \subseteq aside'
      BY <1>3, <2>3 DEF TakeEarlier, Takeable, Keyed, Goto, TypeOK
    <3> QED BY <2>1, <2>3, <3>1 DEF Owners, Begins, Aside, Apart, Owning
  <2> QED BY <2>1, <2>2, <2>3
<1>4. ASSUME NEW d \in Delivery, Restore(d) PROVE Owners'
  <2>1. /\ UNCHANGED <<manual, earlier>> /\ pc[d] = "restore" /\ pc'[d] = "over"
        /\ \A e \in Delivery \ {d} : pc'[e] = pc[e]
        /\ aside \ earlier[d] \subseteq aside'
    BY <1>4 DEF Restore, Goto, TypeOK, request
  <2> QED BY <2>1 DEF Owners, Begins, Aside, Apart, Owning
<1>5. ASSUME NEW d \in Delivery,
             \/ Decide(d) \/ decideUnderLock(d) \/ Commit(d) \/ startRunnableWorkflow(d)
             \/ compensate(d) \/ RecordFailedStart(d) \/ Dies(d)
      PROVE  Owners'
  <2>1. /\ UNCHANGED <<aside, manual, earlier>>
        /\ \A e \in Delivery \ {d} : pc'[e] = pc[e]
        /\ Owning(d)' => Owning(d)
        /\ pc'[d] \notin {"unborn", "find"}
    <3>1. CASE Decide(d) \/ decideUnderLock(d) \/ Commit(d)
      BY <3>1 DEF Decide, decideUnderLock, Commit, Goto, TypeOK, Owning, request, fires
    <3>2. CASE startRunnableWorkflow(d)
      BY <3>2 DEF startRunnableWorkflow, Again, Leave, Goto, TypeOK, Owning, request, fires
    <3>3. CASE compensate(d) \/ RecordFailedStart(d) \/ Dies(d)
      BY <3>3 DEF compensate, RecordFailedStart, Dies, Leave, Goto, TypeOK, Owning, Idle,
                  request, fires
    <3> QED BY <1>5, <3>1, <3>2, <3>3
  <2> QED BY <2>1 DEF Owners, Begins, Aside, Apart, Owning
<1>6. CASE CooldownEnds \/ (\E o \in Occurrence : RunEnds(o)) \/ UNCHANGED vars
  <2>1. UNCHANGED <<aside, manual, earlier, pc>>
    BY <1>6 DEF CooldownEnds, RunEnds, vars, request, fires
  <2> QED BY <2>1 DEF Owners, Begins, Aside, Apart, Owning
<1> QED BY <1>1, <1>2, <1>3, <1>4, <1>5, <1>6 DEF Next

\* A decision is taken again by one delivery at a time: giving up the key is a
\* guarded update, and only the delivery that did it gives it back
\* (releaseDecision).
THEOREM TakenOnceHolds == Spec => []TakenOnce
<1>1. Init => Owners
  BY DEF Init, Owners, Begins, Aside, Apart, Owning
<1>2. Owners => TakenOnce
  BY DEF Owners, Apart, Owning, TakenOnce, Deciding
<1> QED BY <1>1, <1>2, OwnersStep, TypeCorrect, PTL DEF Spec

-----------------------------------------------------------------------------
(* What becomes of a decision to start.                                    *)

\* The start of d is not settled yet.
Pending(d) == pc[d] \in {"start", "undo", "fail"}

\* Nobody but the delivery itself takes back its decision to start.
Pursued == \A d \in Delivery : Pending(d) \/ pc[d] = "adopt" => outcome[d] = "STARTED"

\* Where every reply arrived, an execution is the only one of its occurrence and
\* belongs to a decision that stands.
Ran == \A o \in Occurrence : subject[o] \notin lost =>
         /\ runs[o] <= 1
         /\ runs[o] > 0 => \E r \in Started : occ[r] = o /\ ~Pending(r)

Courses == Pursued /\ Ran

\* A delivery at "fail" withdraws its own start, and no other.
LEMMA OwnFailure ==
  ASSUME TypeOK, Limits, Pursued, NEW d \in Delivery, RecordFailedStart(d)
  PROVE  /\ \A e \in Delivery \ {d} : outcome'[e] = outcome[e]
         /\ outcome'[d] \in {"STARTED", "FAILED_TO_START"}
<1>1. d \in Started
  BY DEF RecordFailedStart, Pursued, Pending, Started
<1>2. \A e \in Keyed(occ[d]) \cap Started : e = d
  BY <1>1 DEF Limits, StartsWithinLimits, Keyed
<1> QED BY <1>1, <1>2 DEF RecordFailedStart, TypeOK, Started

\* A step that starts no execution and withdraws no start.
LEMMA CourseKept ==
  ASSUME TypeOK, Courses, NEW d \in Delivery,
         UNCHANGED <<subject, occ, runs>>, lost \subseteq lost',
         \A e \in Delivery \ {d} : pc'[e] = pc[e],
         \A e \in Started : outcome'[e] = "STARTED",
         Pending(d)' \/ pc'[d] = "adopt" => outcome'[d] = "STARTED",
         Pending(d)' => Pending(d) \/ d \notin Started
  PROVE  Courses'
<1>1. Pursued'
  BY DEF Courses, Pursued, Pending, Started
<1>2. \A r \in Started : r \in Started' /\ (~Pending(r) => ~Pending(r)')
  BY DEF Started, Pending
<1>3. Ran'
  BY <1>2 DEF Courses, Ran
<1> QED BY <1>1, <1>3 DEF Courses

LEMMA CourseStarts ==
  ASSUME TypeOK, Limits, Courses, NEW d \in Delivery, startRunnableWorkflow(d)
  PROVE  Courses'
<1>1. /\ pc[d] = "start" /\ outcome[d] = "STARTED" /\ d \in Started /\ Pending(d)
      /\ UNCHANGED <<subject, occ, outcome>> /\ Started' = Started
      /\ \A e \in Delivery \ {d} : pc'[e] = pc[e]
      /\ pc'[d] \in {"over", "adopt", "start", "undo"}
  BY DEF startRunnableWorkflow, Again, Leave, Goto, TypeOK, Courses, Pursued, Pending, Started,
         request, fires
<1>2. CASE UNCHANGED <<runs, lost>>
  BY <1>1, <1>2, CourseKept DEF Started
<1>3. CASE ~UNCHANGED <<runs, lost>>
  <2>1. Starts(occ[d]) /\ \/ pc'[d] = "over" /\ lost' = lost
                          \/ lost' = lost \cup {subject[occ[d]]}
    BY <1>3 DEF startRunnableWorkflow, Leave, Goto, TypeOK, temporal
  <2>2. \A p \in Occurrence : runs[p] \in Nat /\ (p # occ[d] => runs'[p] = runs[p])
    BY <2>1 DEF Starts, TypeOK
  <2>3. occ[d] \in Occurrence /\ runs'[occ[d]] = runs[occ[d]] + 1
    BY <2>1 DEF Starts, TypeOK
  <2>4. \A r \in Started : occ[r] = occ[d] => r = d
    BY <1>1 DEF Limits, StartsWithinLimits
  <2>5. Pursued'
    BY <1>1 DEF Courses, Pursued, Pending
  <2>6. ASSUME NEW p \in Occurrence, subject[p] \notin lost'
        PROVE  /\ runs'[p] <= 1
               /\ runs'[p] > 0 => \E r \in Started' : occ'[r] = p /\ ~Pending(r)'
    <3>1. subject[p] \notin lost
      BY <2>1, <2>6
    <3>2. CASE p = occ[d]
      <4>1. pc'[d] = "over"
        BY <2>1, <2>6, <3>2
      <4>2. ~(runs[p] > 0)
        BY <1>1, <2>4, <3>1, <3>2 DEF Courses, Ran
      <4> QED BY <1>1, <2>2, <2>3, <3>2, <4>1, <4>2 DEF Pending
    <3>3. CASE p # occ[d]
      <4>1. runs[p] > 0 => \E r \in Started \ {d} : occ[r] = p /\ ~Pending(r)
        BY <3>1, <3>3 DEF Courses, Ran
      <4>2. \A r \in Started \ {d} : ~Pending(r) => ~Pending(r)'
        BY <1>1 DEF Pending, Started
      <4>3. runs[p] <= 1
        BY <3>1 DEF Courses, Ran
      <4> QED BY <1>1, <2>2, <3>3, <4>1, <4>2, <4>3
    <3> QED BY <3>2, <3>3
  <2>7. Ran'
    BY <1>1, <2>6 DEF Ran
  <2> QED BY <2>5, <2>7 DEF Courses
<1> QED BY <1>2, <1>3

LEMMA CoursesStep == TypeOK /\ Limits /\ Courses /\ [Next]_vars => Courses'
<1> SUFFICES ASSUME TypeOK, Limits, Courses, [Next]_vars PROVE Courses'
  OBVIOUS
<1>1. ASSUME NEW d \in Delivery,
             DecideAgain(d) \/ FindEarlier(d) \/ TakeEarlier(d) \/ Restore(d)
      PROVE  Courses'
  <2>1. /\ UNCHANGED <<subject, occ, outcome, runs, lost>>
        /\ \A e \in Delivery \ {d} : pc'[e] = pc[e]
        /\ pc'[d] \in {"find", "take", "decide", "over"}
    BY <1>1 DEF DecideAgain, FindEarlier, TakeEarlier, Restore, Releasing, Goto, TypeOK,
                request, temporal, history
  <2> QED BY <2>1, CourseKept DEF Pending, Started
<1>2. ASSUME NEW d \in Delivery, Decide(d) \/ decideUnderLock(d) \/ Commit(d) PROVE Courses'
  <2>1. /\ UNCHANGED <<subject, occ, runs, lost>>
        /\ \A e \in Delivery \ {d} : pc'[e] = pc[e] /\ outcome'[e] = outcome[e]
    BY <1>2 DEF Decide, decideUnderLock, Commit, Record, Goto, TypeOK, request, fires, temporal,
                history
  <2>2. outcome[d] = "none"
    BY <1>2 DEF Decide, decideUnderLock, Commit, Limits, Fresh, Unwritten
  <2>3. /\ pc'[d] \in {"restore", "over", "lock", "accepted", "refused", "start"}
        /\ pc'[d] = "start" => outcome'[d] = "STARTED"
    BY <1>2 DEF Decide, decideUnderLock, Commit, Record, Goto, TypeOK
  <2> QED BY <2>1, <2>2, <2>3, CourseKept DEF Pending, Started
<1>3. ASSUME NEW d \in Delivery, compensate(d) \/ Dies(d) PROVE Courses'
  <2>1. /\ UNCHANGED <<subject, occ, outcome, runs, lost>>
        /\ \A e \in Delivery \ {d} : pc'[e] = pc[e]
        /\ pc'[d] = "over" \/ (pc[d] = "undo" /\ pc'[d] = "fail")
    <3>1. CASE compensate(d)
      BY <3>1 DEF compensate, Goto, TypeOK, request, fires, temporal
    <3>2. CASE Dies(d)
      BY <3>2 DEF Dies, Leave, Goto, TypeOK, request, fires, temporal
    <3> QED BY <1>3, <3>1, <3>2
  <2>2. pc[d] = "undo" => outcome[d] = "STARTED"
    BY DEF Courses, Pursued, Pending
  <2> QED BY <2>1, <2>2, CourseKept DEF Pending, Started
<1>4. ASSUME NEW d \in Delivery, RecordFailedStart(d) PROVE Courses'
  <2>1. /\ UNCHANGED <<subject, occ, runs, lost>> /\ pc[d] = "fail" /\ pc'[d] = "restore"
        /\ \A e \in Delivery \ {d} : pc'[e] = pc[e] /\ outcome'[e] = outcome[e]
    BY <1>4, OwnFailure DEF RecordFailedStart, Goto, TypeOK, Courses, request, temporal
  <2>2. Pursued'
    BY <2>1 DEF Courses, Pursued, Pending
  <2>3. \A r \in Started : ~Pending(r) => r \in Started' /\ ~Pending(r)'
    BY <2>1 DEF Started, Pending
  <2>4. Ran'
    BY <2>1, <2>3 DEF Courses, Ran
  <2> QED BY <2>2, <2>4 DEF Courses
<1>5. CASE CooldownEnds \/ (\E o \in Occurrence : RunEnds(o)) \/ UNCHANGED vars
  <2>1. UNCHANGED <<subject, occ, outcome, pc, runs, lost>>
    BY <1>5 DEF CooldownEnds, RunEnds, vars, request, fires, temporal, history
  <2> QED BY <2>1 DEF Courses, Pursued, Ran, Pending, Started
<1> QED BY <1>1, <1>2, <1>3, <1>4, <1>5, CourseStarts DEF Next

\* Redeliveries, retries, deaths and failed clean-ups start no second run for a
\* subject as long as the reply of every start arrives: a decision that stands
\* refuses the next one, and one that is withdrawn started nothing
\* (decideUnderLock, startRunnableWorkflow, recordFailedStart).
THEOREM SubjectRunsOnceHolds == Spec => []SubjectRunsOnce
<1>1. Init => Courses
  BY DEF Init, Courses, Pursued, Ran, Pending
<1>2. TypeOK /\ Limits /\ Courses => SubjectRunsOnce
  <2> SUFFICES ASSUME TypeOK, Limits, Courses, NEW o \in Occurrence, NEW p \in Occurrence,
                      subject[o] = subject[p], subject[o] \notin lost
               PROVE  runs[o] <= 1 /\ (runs[o] = 1 /\ runs[p] = 1 => o = p)
    BY DEF SubjectRunsOnce
  <2>1. \A q \in {o, p} : runs[q] <= 1 /\ (runs[q] = 1 => \E r \in Started : occ[r] = q)
    BY DEF Courses, Ran
  <2>2. \A q, r \in Started : subject[occ[q]] = subject[occ[r]] => q = r
    BY DEF Limits, StartsWithinLimits
  <2> QED BY <2>1, <2>2
<1> QED BY <1>1, <1>2, InitLimits, LimitsStep, CoursesStep, TypeCorrect, PTL DEF Spec
-----------------------------------------------------------------------------
(* What an occurrence that nobody decides any more is left with.           *)

\* The earlier decision of a delivery is one row of its own occurrence.
Kin == \A d \in Delivery : /\ \A r \in earlier[d] : occ[r] = occ[d] /\ outcome[r] # "none"
                           /\ \A q, r \in earlier[d] : q = r

\* No decision to start is moved aside.
Replaced == \A r \in aside : outcome[r] \notin {"none", "STARTED"}

\* The dedupe key is unique.
OneKeyed == \A o \in Occurrence : \A q, r \in Keyed(o) : q = r

Rows == Kin /\ Replaced /\ OneKeyed

\* A running execution was counted.
Counted == \A o \in Occurrence : wf[o] = "running" => runs[o] > 0

\* Barring mishaps, a decision to start whose start is settled has a run, and only
\* such a decision has a ledger row.
Earned == \A r \in Started : occ[r] \notin mishap => Pending(r) \/ runs[occ[r]] > 0
Ledgered == \A e \in ledger : occ[e] \notin mishap => e \in Started /\ pc[e] # "fail"

Books == Counted /\ Earned /\ Ledgered

\* Barring mishaps, whoever holds an occurrence's decision aside is still at work.
Covered(o) == Keyed(o) # {} \/ \E d \in Delivery : occ[d] = o /\ Owning(d) /\ earlier[d] # {}
Settled == \A o \in Occurrence \ mishap :
             (\E d \in Delivery : occ[d] = o /\ outcome[d] # "none") => Covered(o)

LEMMA RowsKept ==
  ASSUME TypeOK, Rows, UNCHANGED <<occ, aside, earlier>>,
         \A e \in Delivery : /\ outcome'[e] = "none" <=> outcome[e] = "none"
                             /\ outcome'[e] = "STARTED" => outcome[e] = "STARTED"
  PROVE  Rows'
<1>1. \A o \in Occurrence : Keyed(o)' = Keyed(o)
  BY DEF Keyed
<1>2. Kin' /\ Replaced'
  BY DEF Rows, Kin, Replaced, TypeOK
<1> QED BY <1>1, <1>2 DEF Rows, OneKeyed

\* A decision is written under a free key, or not at all.
LEMMA RecordRows ==
  ASSUME TypeOK, Rows, NEW d \in Delivery, outcome[d] = "none",
         NEW o \in {"STARTED", "FAILED_TO_START", "SUPPRESSED"}, Record(d, o),
         UNCHANGED <<occ, aside, earlier>>
  PROVE  /\ Rows' /\ Keyed(occ[d])' # {}
         /\ \A p \in Occurrence : Keyed(p) \subseteq Keyed(p)'
         /\ \A e \in Delivery \ {d} : outcome'[e] = outcome[e]
<1>1. \A e \in Delivery \ {d} : outcome'[e] = outcome[e]
  BY DEF Record, TypeOK
<1>2. d \notin aside /\ occ[d] \in Occurrence
  BY DEF Rows, Replaced, TypeOK
<1>3. CASE Keyed(occ[d]) # {}
  <2>1. UNCHANGED outcome /\ \A p \in Occurrence : Keyed(p)' = Keyed(p)
    BY <1>3 DEF Record, Keyed
  <2> QED BY <1>1, <1>2, <1>3, <2>1, RowsKept
<1>4. CASE Keyed(occ[d]) = {}
  <2>1. outcome'[d] = o
    BY <1>4 DEF Record, TypeOK
  <2>2. \A p \in Occurrence : Keyed(p)' = Keyed(p) \cup {e \in {d} : occ[d] = p}
    BY <1>1, <1>2, <2>1 DEF Keyed
  <2>3. OneKeyed'
    BY <1>4, <2>2 DEF Rows, OneKeyed
  <2>4. Kin'
    <3> SUFFICES ASSUME NEW e \in Delivery
                 PROVE  /\ \A r \in earlier[e] : occ[r] = occ[e] /\ outcome'[r] # "none"
                        /\ \A q, r \in earlier[e] : q = r
      BY DEF Kin
    <3>1. earlier[e] \subseteq Delivery
      BY DEF TypeOK
    <3> QED BY <1>1, <2>1, <3>1 DEF Rows, Kin
  <2>5. Replaced'
    BY <1>1, <1>2 DEF Rows, Replaced, TypeOK
  <2> QED BY <1>1, <1>2, <2>2, <2>3, <2>4, <2>5 DEF Rows
<1> QED BY <1>3, <1>4

LEMMA TakeRows ==
  ASSUME TypeOK, Rows, NEW d \in Delivery, TakeEarlier(d)
  PROVE  /\ Rows'
         /\ \A o \in Occurrence : o # occ[d] => Keyed(o)' = Keyed(o)
         /\ Keyed(occ[d])' = Keyed(occ[d]) \/ (pc'[d] = "decide" /\ earlier'[d] # {})
<1>1. UNCHANGED <<occ, outcome>> /\ earlier[d] \subseteq Delivery
  BY DEF TakeEarlier, Releasing, TypeOK
<1>2. CASE earlier[d] \subseteq Takeable(d)
  <2>1. aside' = aside \cup earlier[d] /\ UNCHANGED earlier /\ pc'[d] = "decide"
    BY <1>2 DEF TakeEarlier, Goto, TypeOK
  <2>2. \A r \in earlier[d] : outcome[r] \notin {"none", "STARTED"} /\ occ[r] = occ[d]
    BY <1>2 DEF Takeable, Keyed
  <2>3. \A o \in Occurrence : Keyed(o)' = Keyed(o) \ earlier[d]
    BY <1>1, <2>1 DEF Keyed
  <2>4. Rows'
    BY <1>1, <2>1, <2>2, <2>3 DEF Rows, Kin, Replaced, OneKeyed
  <2>5. \A o \in Occurrence : o # occ[d] => Keyed(o) \cap earlier[d] = {}
    BY <2>2 DEF Keyed
  <2>6. occ[d] \in Occurrence
    BY DEF TypeOK
  <2> QED BY <1>1, <2>1, <2>3, <2>4, <2>5, <2>6
<1>3. CASE ~(earlier[d] \subseteq Takeable(d))
  <2>1. UNCHANGED aside /\ earlier' = [earlier EXCEPT ![d] = {}]
    BY <1>3 DEF TakeEarlier
  <2>2. \A o \in Occurrence : Keyed(o)' = Keyed(o)
    BY <1>1, <2>1 DEF Keyed
  <2>3. Rows'
    BY <1>1, <2>1, <2>2 DEF Rows, Kin, Replaced, OneKeyed, TypeOK
  <2>4. occ[d] \in Occurrence
    BY DEF TypeOK
  <2> QED BY <1>1, <2>2, <2>3, <2>4
<1> QED BY <1>2, <1>3

LEMMA RestoreRows ==
  ASSUME TypeOK, Rows, NEW d \in Delivery, Restore(d)
  PROVE  /\ Rows'
         /\ \A o \in Occurrence : Keyed(o) \subseteq Keyed(o)'
         /\ earlier[d] # {} => Keyed(occ[d])' # {} \/ occ[d] \in mishap'
<1>1. UNCHANGED <<occ, outcome, earlier>> /\ earlier[d] \subseteq Delivery
      /\ occ[d] \in Occurrence
  BY DEF Restore, TypeOK, request
<1>2. \A r \in earlier[d] : occ[r] = occ[d] /\ outcome[r] # "none"
  BY DEF Rows, Kin
<1>3. CASE UNCHANGED aside
  <2>1. \A o \in Occurrence : Keyed(o)' = Keyed(o)
    BY <1>1, <1>3 DEF Keyed
  <2>2. Rows'
    BY <1>1, <1>3, RowsKept
  <2>3. ASSUME NEW r \in earlier[d] PROVE Keyed(occ[d])' # {} \/ occ[d] \in mishap'
    <3>1. CASE occ[d] \in mishap'
      BY <3>1
    <3>2. CASE Keyed(occ[d]) # {}
      BY <1>1, <2>1, <3>2
    <3>3. CASE occ[d] \notin mishap' /\ Keyed(occ[d]) = {}
      <4>1. aside = aside \ earlier[d]
        BY <1>3, <3>3 DEF Restore
      <4>2. r \in Keyed(occ[d])
        BY <1>1, <1>2, <4>1 DEF Keyed
      <4> QED BY <3>3, <4>2
    <3> QED BY <3>1, <3>2, <3>3
  <2> QED BY <2>1, <2>2, <2>3
<1>4. CASE Keyed(occ[d]) = {} /\ aside' = aside \ earlier[d]
  <2>1. \A o \in Occurrence : Keyed(o)' = Keyed(o) \cup {r \in earlier[d] : occ[d] = o}
    BY <1>1, <1>2, <1>4 DEF Keyed
  <2>2. \A q, r \in earlier[d] : q = r
    BY DEF Rows, Kin
  <2>3. OneKeyed'
    BY <1>4, <2>1, <2>2 DEF Rows, OneKeyed
  <2>4. Kin' /\ Replaced'
    BY <1>1, <1>4 DEF Rows, Kin, Replaced
  <2> QED BY <1>1, <2>1, <2>3, <2>4 DEF Rows
<1> QED BY <1>3, <1>4 DEF Restore

LEMMA RowsStep == TypeOK /\ Limits /\ Rows /\ [Next]_vars => Rows'
<1> SUFFICES ASSUME TypeOK, Limits, Rows, [Next]_vars PROVE Rows'
  OBVIOUS
<1>1. ASSUME NEW d \in Delivery, DecideAgain(d) \/ FindEarlier(d) PROVE Rows'
  <2>1. UNCHANGED <<occ, outcome, aside>>
    BY <1>1 DEF DecideAgain, FindEarlier, Releasing
  <2>2. \A o \in Occurrence : Keyed(o)' = Keyed(o)
    BY <2>1 DEF Keyed
  <2>3. \A e \in Delivery \ {d} : earlier'[e] = earlier[e]
    BY <1>1 DEF DecideAgain, FindEarlier, TypeOK
  <2>4. earlier'[d] = earlier[d] \/ \E r \in Delivery : /\ earlier'[d] = {r} /\ occ[r] = occ[d]
                                                       /\ outcome[r] # "none"
    BY <1>1 DEF DecideAgain, FindEarlier, Takeable, Keyed, TypeOK
  <2>5. Kin'
    BY <2>1, <2>3, <2>4 DEF Rows, Kin
  <2> QED BY <2>1, <2>2, <2>5 DEF Rows, Replaced, OneKeyed
<1>2. ASSUME NEW d \in Delivery, Decide(d) \/ Commit(d) PROVE Rows'
  <2>1. UNCHANGED <<occ, aside, earlier>>
    BY <1>2 DEF Decide, Commit, request
  <2>2. outcome[d] = "none"
    BY <1>2 DEF Decide, Commit, Limits, Fresh, Unwritten
  <2>3. \/ UNCHANGED outcome
        \/ \E o \in {"STARTED", "FAILED_TO_START", "SUPPRESSED"} : Record(d, o)
    BY <1>2 DEF Decide, Commit
  <2> QED BY <2>1, <2>2, <2>3, RowsKept, RecordRows
<1>3. ASSUME NEW d \in Delivery,
             decideUnderLock(d) \/ startRunnableWorkflow(d) \/ compensate(d) \/ Dies(d)
      PROVE  Rows'
  <2>1. UNCHANGED <<occ, outcome, aside, earlier>>
    BY <1>3 DEF decideUnderLock, startRunnableWorkflow, compensate, Dies, request, fires
  <2> QED BY <2>1, RowsKept
<1>4. ASSUME NEW d \in Delivery, RecordFailedStart(d) PROVE Rows'
  <2>1. UNCHANGED <<occ, aside, earlier>>
    BY <1>4 DEF RecordFailedStart, request
  <2>2. \A e \in Delivery : \/ outcome'[e] = outcome[e]
                            \/ outcome[e] = "STARTED" /\ outcome'[e] = "FAILED_TO_START"
    BY <1>4 DEF RecordFailedStart, Started, TypeOK
  <2> QED BY <2>1, <2>2, RowsKept
<1>5. CASE CooldownEnds \/ (\E o \in Occurrence : RunEnds(o)) \/ UNCHANGED vars
  <2>1. UNCHANGED <<occ, outcome, aside, earlier>>
    BY <1>5 DEF CooldownEnds, RunEnds, vars, request, fires
  <2> QED BY <2>1, RowsKept
<1> QED BY <1>1, <1>2, <1>3, <1>4, <1>5, TakeRows, RestoreRows DEF Next

\* A step that starts nothing, writes no ledger row and takes no start back.
LEMMA BooksKept ==
  ASSUME TypeOK, Books, NEW d \in Delivery, ~Pending(d), pc'[d] # "fail",
         UNCHANGED <<occ, outcome, ledger, temporal>>, mishap \subseteq mishap',
         \A e \in Delivery \ {d} : pc'[e] = pc[e]
  PROVE  Books'
<1>1. Started' = Started /\ \A r \in Started : Pending(r) => Pending(r)'
  BY DEF Started, Pending
<1>2. Counted' /\ Earned'
  BY <1>1 DEF Books, Counted, Earned, temporal
<1>3. Ledgered'
  BY <1>1 DEF Books, Ledgered, TypeOK
<1> QED BY <1>2, <1>3 DEF Books

LEMMA BooksStarts ==
  ASSUME TypeOK, Courses, Books, NEW d \in Delivery, startRunnableWorkflow(d)
  PROVE  Books'
<1>1. /\ Started' = Started /\ UNCHANGED <<occ, ledger, mishap>> /\ pc[d] = "start"
      /\ \A e \in Delivery \ {d} : pc'[e] = pc[e]
      /\ pc'[d] \in {"over", "adopt", "start", "undo"}
  BY DEF startRunnableWorkflow, Again, Leave, Goto, TypeOK, Started, request, fires
<1>2. occ[d] \in Occurrence /\ \A p \in Occurrence : runs[p] \in Nat
  BY DEF TypeOK
<1>3. CASE UNCHANGED temporal
  <2>1. Pending(d)' \/ wf[occ[d]] = "running"
    BY <1>3, <1>2 DEF startRunnableWorkflow, Again, Leave, Goto, TypeOK, Starts, Pending,
                      temporal
  <2>2. \A e \in Delivery \ {d} : Pending(e) => Pending(e)'
    BY <1>1 DEF Pending
  <2>3. wf[occ[d]] = "running" => runs[occ[d]] > 0
    BY <1>2 DEF Books, Counted
  <2>4. Earned'
    BY <1>1, <1>3, <2>1, <2>2, <2>3 DEF Books, Earned, temporal, Started
  <2>5. Counted' /\ Ledgered'
    BY <1>1, <1>3 DEF Books, Counted, Ledgered, temporal, TypeOK
  <2> QED BY <2>4, <2>5 DEF Books
<1>4. CASE ~UNCHANGED temporal
  <2>1. Starts(occ[d])
    BY <1>4 DEF startRunnableWorkflow
  <2>2. \A p \in Occurrence : /\ runs'[p] >= runs[p] /\ (p = occ[d] => runs'[p] > 0)
                              /\ p # occ[d] => wf'[p] = wf[p]
    BY <1>2, <2>1 DEF Starts, TypeOK
  <2>3. \A p \in Occurrence : runs'[p] \in Nat
    BY <1>2, <2>1 DEF Starts, TypeOK
  <2>4. Counted'
    BY <1>2, <2>2, <2>3 DEF Books, Counted
  <2>5. \A e \in Delivery \ {d} : Pending(e) => Pending(e)'
    BY <1>1 DEF Pending
  <2>6. \A r \in Started : occ[r] \in Occurrence
    BY DEF Started, TypeOK
  <2>7. Earned'
    BY <1>1, <1>2, <2>2, <2>3, <2>5, <2>6 DEF Books, Earned, Started
  <2>8. Ledgered'
    BY <1>1 DEF Books, Ledgered, TypeOK
  <2> QED BY <2>4, <2>7, <2>8 DEF Books
<1> QED BY <1>3, <1>4

LEMMA BooksCommit ==
  ASSUME TypeOK, Limits, Books, NEW d \in Delivery, Decide(d) \/ Commit(d)
  PROVE  Books'
<1>1. /\ UNCHANGED <<occ, temporal, mishap>> /\ outcome[d] = "none" /\ ~Pending(d)
      /\ \A e \in Delivery \ {d} : pc'[e] = pc[e] /\ outcome'[e] = outcome[e]
  <2>1. CASE Decide(d)
    BY <2>1 DEF Decide, Record, Goto, TypeOK, request, history, Limits, Fresh, Unwritten, Pending
  <2>2. CASE Commit(d)
    BY <2>2 DEF Commit, Record, Goto, TypeOK, request, history, Limits, Fresh, Unwritten, Pending
  <2> QED BY <2>1, <2>2
<1>2. /\ outcome'[d] = "STARTED" => pc'[d] = "start"
      /\ ledger' = ledger \/ (ledger' = ledger \cup {d} /\ outcome'[d] = "STARTED")
      /\ pc'[d] # "fail"
  BY <1>1 DEF Decide, Commit, Record, Goto, TypeOK
<1>3. Started \subseteq Started' /\ Started' \subseteq Started \cup {d}
  BY <1>1 DEF Started
<1>4. Counted'
  BY <1>1 DEF Books, Counted, temporal
<1>5. Earned'
  <2> SUFFICES ASSUME NEW r \in Started', occ[r] \notin mishap
               PROVE  Pending(r)' \/ runs[occ[r]] > 0
    BY <1>1 DEF Earned, temporal
  <2>1. CASE r = d
    BY <1>2, <2>1 DEF Started, Pending
  <2>2. CASE r # d
    BY <1>1, <1>3, <2>2 DEF Books, Earned, Pending, Started
  <2> QED BY <2>1, <2>2
<1>6. Ledgered'
  BY <1>1, <1>2, <1>3 DEF Books, Ledgered, Started, TypeOK
<1> QED BY <1>4, <1>5, <1>6 DEF Books

\* A start is withdrawn only when its ledger row is gone, and by its own delivery.
LEMMA BooksUndone ==
  ASSUME TypeOK, Limits, Courses, Rows, Books, NEW d \in Delivery,
         compensate(d) \/ RecordFailedStart(d) \/ Dies(d)
  PROVE  Books'
<1>1. CASE compensate(d)
  <2>1. /\ UNCHANGED <<occ, outcome, temporal>> /\ pc[d] \in {"undo", "adopt"}
        /\ mishap \subseteq mishap' /\ ledger' \subseteq ledger
        /\ d \notin ledger' \/ occ[d] \in mishap'
        /\ \A e \in Delivery \ {d} : pc'[e] = pc[e]
        /\ pc[d] = "undo" => pc'[d] = "fail"
    BY <1>1 DEF compensate, Goto, TypeOK, request, fires
  <2>2. Started' = Started /\ \A r \in Started : Pending(r) => Pending(r)'
    BY <2>1 DEF Started, Pending
  <2>3. Counted' /\ Earned'
    BY <2>1, <2>2 DEF Books, Counted, Earned, temporal
  <2>4. Ledgered'
    BY <2>1, <2>2 DEF Books, Ledgered, TypeOK
  <2> QED BY <2>3, <2>4 DEF Books
<1>2. CASE RecordFailedStart(d)
  <2>1. /\ UNCHANGED <<occ, ledger, temporal>> /\ pc[d] = "fail" /\ pc'[d] = "restore"
        /\ mishap \subseteq mishap'
        /\ \A e \in Delivery \ {d} : pc'[e] = pc[e]
    BY <1>2 DEF RecordFailedStart, Goto, TypeOK, request
  <2>2. /\ \A e \in Delivery \ {d} : outcome'[e] = outcome[e]
        /\ outcome'[d] \in {"STARTED", "FAILED_TO_START"}
    BY <1>2, OwnFailure DEF Courses
  <2>3. outcome'[d] # "STARTED" \/ occ[d] \in mishap'
    <3>1. d \in Keyed(occ[d]) \cap Started
      BY <2>1 DEF Courses, Pursued, Pending, Rows, Replaced, Keyed, Started
    <3> QED BY <1>2, <3>1 DEF RecordFailedStart, TypeOK
  <2>4. \A r \in Started' : r = d \/ (r \in Started /\ (Pending(r) => Pending(r)'))
    BY <2>1, <2>2 DEF Started, Pending
  <2>5. Counted' /\ Earned'
    BY <2>1, <2>3, <2>4 DEF Books, Counted, Earned, temporal, Started
  <2>6. Ledgered'
    BY <2>1, <2>2 DEF Books, Ledgered, Started, TypeOK
  <2> QED BY <2>5, <2>6 DEF Books
<1>3. CASE Dies(d)
  <2>1. /\ UNCHANGED <<occ, outcome, ledger, temporal>> /\ pc'[d] = "over"
        /\ mishap \subseteq mishap' /\ occ[d] \in mishap'
        /\ \A e \in Delivery \ {d} : pc'[e] = pc[e]
    BY <1>3 DEF Dies, Leave, Goto, TypeOK, request, fires
  <2>2. Started' = Started /\ \A r \in Started \ {d} : Pending(r) => Pending(r)'
    BY <2>1 DEF Started, Pending
  <2>3. Counted' /\ Earned'
    BY <2>1, <2>2 DEF Books, Counted, Earned, temporal
  <2>4. Ledgered'
    BY <2>1, <2>2 DEF Books, Ledgered, TypeOK
  <2> QED BY <2>3, <2>4 DEF Books
<1> QED BY <1>1, <1>2, <1>3

LEMMA BooksStep == TypeOK /\ Limits /\ Courses /\ Rows /\ Books /\ [Next]_vars => Books'
<1> SUFFICES ASSUME TypeOK, Limits, Courses, Rows, Books, [Next]_vars PROVE Books'
  OBVIOUS
<1>1. ASSUME NEW d \in Delivery,
             \/ DecideAgain(d) \/ FindEarlier(d) \/ TakeEarlier(d) \/ Restore(d)
             \/ decideUnderLock(d)
      PROVE  Books'
  <2>1. /\ UNCHANGED <<occ, outcome, ledger, temporal>> /\ mishap \subseteq mishap'
        /\ \A e \in Delivery \ {d} : pc'[e] = pc[e]
        /\ ~Pending(d) /\ pc'[d] # "fail"
    <3>1. CASE DecideAgain(d) \/ FindEarlier(d) \/ TakeEarlier(d)
      BY <3>1 DEF DecideAgain, FindEarlier, TakeEarlier, Releasing, Goto, TypeOK, Pending,
                  history
    <3>2. CASE Restore(d) \/ decideUnderLock(d)
      BY <3>2 DEF Restore, decideUnderLock, Goto, TypeOK, Pending, request, fires, history
    <3> QED BY <1>1, <3>1, <3>2
  <2> QED BY <2>1, BooksKept
<1>2. ASSUME NEW o \in Occurrence, RunEnds(o) PROVE Books'
  <2>1. /\ UNCHANGED <<occ, outcome, ledger, mishap, pc, runs>>
        /\ \A p \in Occurrence : wf'[p] = "running" => wf[p] = "running"
    BY <1>2 DEF RunEnds, TypeOK, request, fires, history
  <2> QED BY <2>1 DEF Books, Counted, Earned, Ledgered, Started, Pending
<1>3. CASE CooldownEnds \/ UNCHANGED vars
  <2>1. UNCHANGED <<occ, outcome, ledger, mishap, pc, wf, runs>>
    BY <1>3 DEF CooldownEnds, vars, request, fires, temporal, history
  <2> QED BY <2>1 DEF Books, Counted, Earned, Ledgered, Started, Pending
<1> QED BY <1>1, <1>2, <1>3, BooksStarts, BooksCommit, BooksUndone DEF Next

\* One delivery's step, seen from the keys: a decision goes only where its taker has
\* it, and the taker leaves only when the key is held.
LEMMA SettledKept ==
  ASSUME TypeOK, Settled, NEW d \in Delivery, UNCHANGED occ, mishap \subseteq mishap',
         \A e \in Delivery \ {d} : /\ pc'[e] = pc[e] /\ earlier'[e] = earlier[e]
                                   /\ outcome[e] = "none" => outcome'[e] = "none",
         \A o \in Occurrence : Keyed(o) # {} => Covered(o)',
         outcome[d] = "none" => outcome'[d] = "none" \/ Covered(occ[d])',
         Owning(d) /\ earlier[d] # {} => Covered(occ[d])' \/ occ[d] \in mishap'
  PROVE  Settled'
<1> SUFFICES ASSUME NEW o \in Occurrence, o \notin mishap',
                    NEW e \in Delivery, occ[e] = o, outcome'[e] # "none"
             PROVE  Covered(o)'
  BY DEF Settled
<1>1. CASE outcome[e] = "none"
  BY <1>1
<1>2. CASE outcome[e] # "none"
  <2>1. Covered(o)
    BY <1>2 DEF Settled
  <2>2. CASE Keyed(o) # {}
    BY <2>2
  <2>3. ASSUME NEW f \in Delivery, occ[f] = o, Owning(f), earlier[f] # {} PROVE Covered(o)'
    <3>1. CASE f = d
      BY <2>3, <3>1
    <3>2. CASE f # d
      BY <2>3, <3>2 DEF Covered, Owning
    <3> QED BY <3>1, <3>2
  <2> QED BY <2>1, <2>2, <2>3 DEF Covered
<1> QED BY <1>1, <1>2

\* The same, where the rows stay as they are.
LEMMA SettledFrame ==
  ASSUME TypeOK, Settled, NEW d \in Delivery, UNCHANGED <<occ, aside, earlier>>,
         mishap \subseteq mishap',
         \A e \in Delivery \ {d} : pc'[e] = pc[e],
         \A e \in Delivery : outcome'[e] = "none" <=> outcome[e] = "none",
         Owning(d) => Owning(d)' \/ Keyed(occ[d]) # {} \/ occ[d] \in mishap'
  PROVE  Settled'
<1>1. \A o \in Occurrence : Keyed(o)' = Keyed(o)
  BY DEF Keyed
<1>2. \A o \in Occurrence : Keyed(o) # {} => Covered(o)'
  BY <1>1 DEF Covered
<1>3. occ[d] \in Occurrence
  BY DEF TypeOK
<1>4. Owning(d) /\ earlier[d] # {} => Covered(occ[d])' \/ occ[d] \in mishap'
  BY <1>2, <1>3 DEF Covered
<1> QED BY <1>2, <1>4, SettledKept

LEMMA SettledStep ==
  TypeOK /\ Limits /\ Courses /\ Rows /\ Books /\ Settled /\ [Next]_vars => Settled'
<1> SUFFICES ASSUME TypeOK, Limits, Courses, Rows, Books, Settled, [Next]_vars PROVE Settled'
  OBVIOUS
<1>0. \A e \in Delivery : occ[e] \in Occurrence
  BY DEF TypeOK
<1>1. ASSUME NEW d \in Delivery, DecideAgain(d) \/ FindEarlier(d) PROVE Settled'
  <2>1. /\ UNCHANGED <<occ, outcome, aside, mishap>> /\ ~Owning(d)
        /\ \A e \in Delivery \ {d} : pc'[e] = pc[e] /\ earlier'[e] = earlier[e]
    BY <1>1 DEF DecideAgain, FindEarlier, Releasing, Goto, TypeOK, Owning, history
  <2>2. \A o \in Occurrence : Keyed(o)' = Keyed(o)
    BY <2>1 DEF Keyed
  <2> QED BY <2>1, <2>2, SettledKept DEF Covered
<1>2. ASSUME NEW d \in Delivery, TakeEarlier(d) PROVE Settled'
  <2>1. /\ UNCHANGED <<occ, outcome, mishap>> /\ ~Owning(d)
        /\ \A e \in Delivery \ {d} : pc'[e] = pc[e] /\ earlier'[e] = earlier[e]
    BY <1>2 DEF TakeEarlier, Releasing, Goto, TypeOK, Owning, history
  <2>2. \A o \in Occurrence : Keyed(o) # {} => Covered(o)'
    BY <1>2, <2>1, TakeRows DEF Covered, Owning
  <2> QED BY <2>1, <2>2, SettledKept
<1>3. ASSUME NEW d \in Delivery, Restore(d) PROVE Settled'
  <2>1. /\ UNCHANGED <<occ, outcome, earlier>> /\ mishap \subseteq mishap'
        /\ \A e \in Delivery \ {d} : pc'[e] = pc[e]
    BY <1>3 DEF Restore, Goto, TypeOK, request
  <2>2. \A o \in Occurrence : Keyed(o) # {} => Covered(o)'
    BY <1>3, RestoreRows DEF Covered
  <2>3. earlier[d] # {} => Covered(occ[d])' \/ occ[d] \in mishap'
    BY <1>3, <2>1, RestoreRows DEF Covered
  <2> QED BY <2>1, <2>2, <2>3, SettledKept
<1>4. ASSUME NEW d \in Delivery, Decide(d) \/ Commit(d) PROVE Settled'
  <2>1. /\ UNCHANGED <<occ, aside, earlier, mishap>> /\ outcome[d] = "none"
        /\ \A e \in Delivery \ {d} : pc'[e] = pc[e]
    <3>1. CASE Decide(d)
      BY <3>1 DEF Decide, Goto, TypeOK, request, history, Limits, Fresh, Unwritten
    <3>2. CASE Commit(d)
      BY <3>2 DEF Commit, Goto, TypeOK, request, history, Limits, Fresh, Unwritten
    <3> QED BY <1>4, <3>1, <3>2
  <2>2. CASE \E o \in {"STARTED", "FAILED_TO_START", "SUPPRESSED"} : Record(d, o)
    <3>1. /\ Keyed(occ[d])' # {} /\ \A p \in Occurrence : Keyed(p) \subseteq Keyed(p)'
          /\ \A e \in Delivery \ {d} : outcome'[e] = outcome[e]
      BY <2>1, <2>2, RecordRows
    <3>2. Covered(occ[d])' /\ \A p \in Occurrence : Keyed(p) # {} => Covered(p)'
      BY <2>1, <3>1 DEF Covered
    <3> QED BY <2>1, <3>1, <3>2, SettledKept
  <2>3. CASE ~(\E o \in {"STARTED", "FAILED_TO_START", "SUPPRESSED"} : Record(d, o))
    <3>1. UNCHANGED outcome /\ (pc'[d] \in {"restore", "lock"} \/ pc[d] = "accepted")
      BY <1>4, <2>3 DEF Decide, Commit, Goto, TypeOK
    <3>2. Owning(d)' \/ Keyed(occ[d]) # {} \/ occ[d] \in mishap'
      <4>1. CASE pc'[d] \in {"restore", "lock"}
        BY <4>1 DEF Owning
      <4>2. CASE pc[d] = "accepted" /\ pc'[d] \notin {"restore", "lock"}
        <5>1. Keyed(occ[d]) # {} \/ \E e \in ledger : occ[e] = occ[d]
          BY <1>4, <2>3, <4>2 DEF Decide, Commit, Goto, TypeOK
        <5>2. \A r \in Started : occ[r] # occ[d]
          BY <4>2 DEF Limits, Room
        <5>3. (\E e \in ledger : occ[e] = occ[d]) => occ[d] \in mishap
          BY <5>2 DEF Books, Ledgered
        <5> QED BY <2>1, <5>1, <5>3
      <4> QED BY <3>1, <4>1, <4>2
    <3> QED BY <2>1, <3>1, <3>2, SettledFrame
  <2> QED BY <2>2, <2>3
<1>5. ASSUME NEW d \in Delivery,
             \/ decideUnderLock(d) \/ startRunnableWorkflow(d) \/ compensate(d)
             \/ RecordFailedStart(d) \/ Dies(d)
      PROVE  Settled'
  <2>1. /\ UNCHANGED <<occ, aside, earlier>> /\ mishap \subseteq mishap'
        /\ \A e \in Delivery : outcome'[e] = "none" <=> outcome[e] = "none"
    <3>1. CASE RecordFailedStart(d)
      BY <3>1 DEF RecordFailedStart, Started, TypeOK, request
    <3>2. CASE decideUnderLock(d) \/ startRunnableWorkflow(d) \/ compensate(d) \/ Dies(d)
      BY <3>2 DEF decideUnderLock, startRunnableWorkflow, compensate, Dies, request, fires,
                  history
    <3> QED BY <1>5, <3>1, <3>2
  <2>2. \A e \in Delivery \ {d} : pc'[e] = pc[e]
    BY <1>5 DEF decideUnderLock, startRunnableWorkflow, Again, Leave, compensate,
                RecordFailedStart, Dies, Goto, TypeOK
  <2>3. Owning(d) => Owning(d)' \/ Keyed(occ[d]) # {} \/ occ[d] \in mishap'
    <3>1. CASE decideUnderLock(d)
      BY <3>1 DEF decideUnderLock, Goto, TypeOK, Owning
    <3>2. CASE startRunnableWorkflow(d)
      <4>1. d \in Started /\ d \notin aside
        BY <3>2 DEF startRunnableWorkflow, Courses, Pursued, Pending, Rows, Replaced, Started
      <4> QED BY <4>1 DEF Keyed, Started
    <3>3. CASE compensate(d)
      BY <3>3 DEF compensate, Goto, TypeOK, Owning
    <3>4. CASE RecordFailedStart(d)
      BY <3>4 DEF RecordFailedStart, Goto, TypeOK, Owning
    <3>5. CASE Dies(d)
      BY <3>5 DEF Dies
    <3> QED BY <1>5, <3>1, <3>2, <3>3, <3>4, <3>5
  <2> QED BY <2>1, <2>2, <2>3, SettledFrame
<1>6. CASE CooldownEnds \/ (\E o \in Occurrence : RunEnds(o)) \/ UNCHANGED vars
  <2>1. UNCHANGED <<occ, outcome, aside, earlier, pc, mishap>>
    BY <1>6 DEF CooldownEnds, RunEnds, vars, request, fires, history
  <2> QED BY <2>1 DEF Settled, Covered, Keyed, Owning
<1> QED BY <1>1, <1>2, <1>3, <1>4, <1>5, <1>6 DEF Next

\* However deliveries and retries interleave, an occurrence that was decided is left
\* with one decision under its key, which says STARTED only of a run that was
\* started, unless a delivery died or a clean-up failed: who takes the key away
\* leaves a decision or gives it back (decideAndStart, releaseDecision).
THEOREM DecisionStandsHolds == Spec => []DecisionStands
<1> DEFINE Inv == Courses /\ Rows /\ Books /\ Settled
<1>1. Init => Inv
  BY DEF Init, Courses, Pursued, Ran, Pending, Rows, Kin, Replaced, OneKeyed, Keyed, Books,
         Counted, Earned, Ledgered, Started, Settled
<1>2. TypeOK /\ Limits /\ Inv /\ [Next]_vars => Inv'
  BY CoursesStep, RowsStep, BooksStep, SettledStep
<1>3. TypeOK /\ Inv => DecisionStands
  <2> SUFFICES ASSUME TypeOK, Inv, NEW o \in Occurrence \ mishap, Quiet(o),
                      NEW d \in Delivery, occ[d] = o, outcome[d] # "none"
               PROVE  \E r \in Keyed(o) :
                        Keyed(o) = {r} /\ (outcome[r] = "STARTED" => runs[o] > 0)
    BY DEF DecisionStands
  <2>1. Covered(o)
    BY DEF Settled
  <2>2. \A e \in Delivery : occ[e] = o => ~Owning(e) /\ ~Pending(e)
    BY DEF Quiet, Idle, Owning, Pending
  <2>3. PICK r \in Keyed(o) : TRUE
    BY <2>1, <2>2 DEF Covered
  <2>4. Keyed(o) = {r}
    BY <2>3 DEF Rows, OneKeyed
  <2>5. r \in Delivery /\ occ[r] = o
    BY <2>3 DEF Keyed
  <2>6. outcome[r] = "STARTED" => runs[o] > 0
    BY <2>2, <2>5 DEF Books, Earned, Started
  <2> QED BY <2>3, <2>4, <2>6
<1> QED BY <1>1, <1>2, <1>3, InitLimits, LimitsStep, TypeCorrect, PTL DEF Spec
-----------------------------------------------------------------------------
(* The lock, and what the in-flight check is worth.                        *)

\* The owner's lock is held by a delivery that is in its transaction, and by no
\* other: commit, rollback and death release it (the advisory lock of
\* decideUnderLock), so the next delivery never waits for one that is gone.
LockIsReleased == \A d \in lock : pc[d] \in {"accepted", "refused"}

\* No delivery leaves the lock behind.
THEOREM LockIsReleasedHolds == Spec => []LockIsReleased
<1>1. Init => LockIsReleased
  BY DEF Init, LockIsReleased
<1>2. TypeOK /\ LockIsReleased /\ [Next]_vars => LockIsReleased'
  <2> SUFFICES ASSUME TypeOK, LockIsReleased, [Next]_vars PROVE LockIsReleased'
    OBVIOUS
  <2>1. ASSUME NEW d \in Delivery,
               DecideAgain(d) \/ FindEarlier(d) \/ TakeEarlier(d) \/ Restore(d) \/ Decide(d)
        PROVE  LockIsReleased'
    <3>1. /\ UNCHANGED lock /\ pc[d] \notin {"accepted", "refused"}
          /\ \A e \in Delivery \ {d} : pc'[e] = pc[e]
      BY <2>1 DEF DecideAgain, FindEarlier, TakeEarlier, Restore, Decide, Releasing, Goto, TypeOK
    <3> QED BY <3>1 DEF LockIsReleased, TypeOK
  <2>2. ASSUME NEW d \in Delivery,
               startRunnableWorkflow(d) \/ compensate(d) \/ RecordFailedStart(d)
        PROVE  LockIsReleased'
    <3>1. /\ UNCHANGED lock /\ pc[d] \notin {"accepted", "refused"}
          /\ \A e \in Delivery \ {d} : pc'[e] = pc[e]
      BY <2>2 DEF startRunnableWorkflow, Again, Leave, compensate, RecordFailedStart, Goto, TypeOK
    <3> QED BY <3>1 DEF LockIsReleased, TypeOK
  <2>3. ASSUME NEW d \in Delivery, decideUnderLock(d) PROVE LockIsReleased'
    BY <2>3 DEF decideUnderLock, Goto, TypeOK, LockIsReleased
  <2>4. ASSUME NEW d \in Delivery, Commit(d) \/ Dies(d) PROVE LockIsReleased'
    <3>1. lock' = lock \ {d} /\ \A e \in Delivery \ {d} : pc'[e] = pc[e]
      BY <2>4 DEF Commit, Dies, Leave, Goto, TypeOK
    <3> QED BY <3>1 DEF LockIsReleased, TypeOK
  <2>5. CASE CooldownEnds \/ (\E o \in Occurrence : RunEnds(o)) \/ UNCHANGED vars
    <3>1. UNCHANGED <<lock, pc>>
      BY <2>5 DEF CooldownEnds, RunEnds, vars
    <3> QED BY <3>1 DEF LockIsReleased
  <2> QED BY <2>1, <2>2, <2>3, <2>4, <2>5 DEF Next
<1> QED BY <1>1, <1>2, TypeCorrect, PTL DEF Spec

\* A step that would decide while a start is between its commit and Temporal: what
\* the code allows, and what is ruled out here.
NoStartUnderWay == lock = {} /\ lock' # {} => \A e \in Delivery : pc[e] # "start"

\* From its acceptance to its start a delivery is bound to add an execution.
Bound(d) == pc[d] \in {"accepted", "start"}

Alone == \A d, e \in Delivery : Bound(d) /\ Bound(e) => d = e

\* Nothing runs on the scope while a delivery is bound to start, whose ledger row is
\* open; and what runs is known from an open row of a decision that stands.
Clear == \A d \in Delivery : Bound(d) => \A o \in Occurrence : wf[o] # "running"
Kept  == \A d \in Delivery : pc[d] = "start" => d \in open
Known == \A o \in Occurrence : wf[o] = "running" =>
           \E r \in Started \cap open : occ[r] = o /\ pc[r] = "over"

InOrder == Alone /\ (lost = {} => Clear /\ Kept /\ Known /\ ScopeRunsOneAtATime)

LEMMA OrderKept ==
  ASSUME TypeOK, InOrder, NEW d \in Delivery, UNCHANGED <<occ, temporal, lost>>,
         pc[d] # "over", Bound(d)' => Bound(d), pc'[d] = "start" => d \in open',
         \A e \in Delivery \ {d} : pc'[e] = pc[e] /\ (e \in open => e \in open'),
         \A e \in Started \ {d} : e \in Started'
  PROVE  InOrder'
<1>1. \A e \in Delivery : Bound(e)' => Bound(e)
  BY DEF Bound
<1>2. Alone'
  BY <1>1 DEF InOrder, Alone
<1>3. ASSUME lost = {} PROVE Clear' /\ Kept' /\ Known' /\ ScopeRunsOneAtATime'
  <2>1. Clear'
    BY <1>1, <1>3 DEF InOrder, Clear, temporal
  <2>2. Kept'
    BY <1>3 DEF InOrder, Kept
  <2>3. \A r \in Started \cap open : pc[r] = "over" => r \in Started' \cap open' /\ pc'[r] = "over"
    BY DEF Started
  <2>4. Known'
    BY <1>3, <2>3 DEF InOrder, Known, temporal
  <2>5. ScopeRunsOneAtATime'
    BY <1>3 DEF InOrder, ScopeRunsOneAtATime, temporal
  <2> QED BY <2>1, <2>2, <2>4, <2>5
<1> QED BY <1>2, <1>3 DEF InOrder

LEMMA OrderDecided ==
  ASSUME TypeOK, Limits, InOrder, NEW d \in Delivery, decideUnderLock(d), NoStartUnderWay
  PROVE  InOrder'
<1>1. /\ UNCHANGED <<occ, outcome, open, temporal, lost>> /\ lock = {} /\ lock' = {d}
      /\ pc[d] = "lock" /\ pc'[d] \in {"accepted", "refused"}
      /\ \A e \in Delivery \ {d} : pc'[e] = pc[e]
  BY DEF decideUnderLock, Goto, TypeOK, request, fires, history
<1>2. \A e \in Delivery : ~Bound(e)
  BY <1>1 DEF NoStartUnderWay, Bound, Limits, Held
<1>3. Alone' /\ Kept'
  BY <1>1, <1>2 DEF Alone, Bound, Kept
<1>4. Started' = Started /\ \A r \in Started : pc[r] = "over" => pc'[r] = "over"
  BY <1>1 DEF Started
<1>5. ASSUME lost = {} PROVE Known' /\ Clear' /\ ScopeRunsOneAtATime'
  <2>1. Known' /\ ScopeRunsOneAtATime'
    BY <1>1, <1>4, <1>5 DEF InOrder, Known, ScopeRunsOneAtATime, temporal
  <2>2. CASE pc'[d] = "accepted"
    <3>1. ~InFlight
      BY <2>2 DEF decideUnderLock, Goto, TypeOK, Refused
    <3>2. \A o \in Occurrence : wf[o] # "running"
      BY <1>5, <3>1 DEF InOrder, Known, InFlight
    <3> QED BY <1>1, <2>1, <3>2 DEF Clear, temporal
  <2>3. CASE pc'[d] = "refused"
    BY <1>1, <1>2, <2>1, <2>3 DEF Clear, Bound
  <2> QED BY <1>1, <2>2, <2>3
<1> QED BY <1>1, <1>3, <1>5 DEF InOrder

LEMMA OrderStarts ==
  ASSUME TypeOK, Courses, InOrder, NEW d \in Delivery, startRunnableWorkflow(d)
  PROVE  InOrder'
<1>1. /\ UNCHANGED <<occ, outcome, open>> /\ pc[d] = "start" /\ Started' = Started
      /\ \A e \in Delivery \ {d} : pc'[e] = pc[e]
      /\ pc'[d] \in {"over", "adopt", "start", "undo"}
  BY DEF startRunnableWorkflow, Again, Leave, Goto, TypeOK, Started, request, fires
<1>2. Alone'
  BY <1>1 DEF InOrder, Alone, Bound
<1>3. ASSUME lost' = {} PROVE Clear' /\ Kept' /\ Known' /\ ScopeRunsOneAtATime'
  <2>1. lost = {} /\ occ[d] \in Occurrence /\ d \in Delivery
    BY <1>3 DEF startRunnableWorkflow, TypeOK
  <2>2. (\A o \in Occurrence : wf[o] # "running") /\ d \in open
    BY <1>1, <2>1 DEF InOrder, Clear, Kept, Bound
  <2>3. CASE UNCHANGED temporal
    <3>1. (\A o \in Occurrence : wf'[o] # "running")
      BY <2>2, <2>3 DEF temporal
    <3>2. Kept'
      BY <1>1, <2>1 DEF InOrder, Kept
    <3> QED BY <3>1, <3>2 DEF Clear, Known, ScopeRunsOneAtATime
  <2>4. CASE ~UNCHANGED temporal
    <3>1. Starts(occ[d]) /\ pc'[d] = "over"
      BY <1>3, <2>4 DEF startRunnableWorkflow, Leave, Goto, TypeOK
    <3>2. \A o \in Occurrence : wf'[o] = "running" => o = occ[d]
      BY <2>2, <3>1 DEF Starts, TypeOK
    <3>3. d \in Started' \cap open'
      BY <1>1, <2>2 DEF Courses, Pursued, Pending, Started
    <3>4. Known'
      BY <1>1, <3>1, <3>2, <3>3 DEF Known
    <3>5. \A e \in Delivery : ~Bound(e)'
      BY <1>1, <3>1 DEF InOrder, Alone, Bound
    <3> QED BY <3>2, <3>4, <3>5 DEF Clear, Kept, Bound, ScopeRunsOneAtATime
  <2> QED BY <2>3, <2>4
<1> QED BY <1>2, <1>3 DEF InOrder

LEMMA OrderStep ==
  TypeOK /\ Limits /\ Courses /\ InOrder /\ [Next]_vars /\ [NoStartUnderWay]_vars => InOrder'
<1> SUFFICES ASSUME TypeOK, Limits, Courses, InOrder, [Next]_vars, [NoStartUnderWay]_vars
             PROVE  InOrder'
  OBVIOUS
<1>1. ASSUME NEW d \in Delivery,
             DecideAgain(d) \/ FindEarlier(d) \/ TakeEarlier(d) \/ Restore(d)
      PROVE  InOrder'
  <2>1. /\ UNCHANGED <<occ, outcome, open, temporal, lost>> /\ pc[d] # "over"
        /\ pc'[d] \in {"find", "take", "decide", "over"}
        /\ \A e \in Delivery \ {d} : pc'[e] = pc[e]
    BY <1>1 DEF DecideAgain, FindEarlier, TakeEarlier, Restore, Releasing, Goto, TypeOK,
                request, history
  <2> QED BY <2>1, OrderKept DEF Bound, Started
<1>2. ASSUME NEW d \in Delivery, Decide(d) \/ Commit(d) PROVE InOrder'
  <2>1. /\ UNCHANGED <<occ, temporal, lost>> /\ pc[d] # "over" /\ outcome[d] = "none"
        /\ \A e \in Delivery \ {d} : pc'[e] = pc[e] /\ outcome'[e] = outcome[e]
    <3>1. CASE Decide(d)
      BY <3>1 DEF Decide, Record, Goto, TypeOK, request, history, Limits, Fresh, Unwritten
    <3>2. CASE Commit(d)
      BY <3>2 DEF Commit, Record, Goto, TypeOK, request, history, Limits, Fresh, Unwritten
    <3> QED BY <1>2, <3>1, <3>2
  <2>2. /\ open \subseteq open' /\ pc'[d] # "accepted"
        /\ pc'[d] = "start" => d \in open' /\ pc[d] = "accepted"
    BY <1>2 DEF Decide, Commit, Goto, TypeOK
  <2> QED BY <2>1, <2>2, OrderKept DEF Bound, Started
<1>3. ASSUME NEW d \in Delivery, compensate(d) \/ Dies(d) PROVE InOrder'
  <2>1. /\ UNCHANGED <<occ, outcome, temporal, lost>> /\ pc[d] # "over"
        /\ pc'[d] \in {"fail", "over"} /\ open \ {d} \subseteq open'
        /\ \A e \in Delivery \ {d} : pc'[e] = pc[e]
    <3>1. CASE compensate(d)
      BY <3>1 DEF compensate, Goto, TypeOK, request, fires
    <3>2. CASE Dies(d)
      BY <3>2 DEF Dies, Leave, Goto, TypeOK, Idle, request, fires
    <3> QED BY <1>3, <3>1, <3>2
  <2> QED BY <2>1, OrderKept DEF Bound, Started
<1>4. ASSUME NEW d \in Delivery, RecordFailedStart(d) PROVE InOrder'
  <2>1. /\ UNCHANGED <<occ, open, temporal, lost>> /\ pc[d] = "fail" /\ pc'[d] = "restore"
        /\ \A e \in Delivery \ {d} : pc'[e] = pc[e] /\ outcome'[e] = outcome[e]
    BY <1>4, OwnFailure DEF RecordFailedStart, Goto, TypeOK, Courses, request
  <2> QED BY <2>1, OrderKept DEF Bound, Started
<1>5. ASSUME NEW o \in Occurrence, RunEnds(o) PROVE InOrder'
  <2>1. /\ UNCHANGED <<occ, outcome, pc, lost>> /\ wf[o] = "running"
        /\ \A p \in Occurrence : wf'[p] = "running" => wf[p] = "running" /\ p # o
        /\ {e \in open : occ[e] # o} \subseteq open'
    BY <1>5 DEF RunEnds, TypeOK, request, fires, history
  <2>2. Alone' /\ Started' = Started
    BY <2>1 DEF InOrder, Alone, Bound, Started
  <2>3. ASSUME lost = {} PROVE Clear' /\ Kept' /\ Known' /\ ScopeRunsOneAtATime'
    <3>1. \A e \in Delivery : ~Bound(e)
      BY <2>1, <2>3 DEF InOrder, Clear
    <3>2. Clear' /\ Kept'
      BY <2>1, <3>1 DEF Clear, Kept, Bound
    <3>3. Known' /\ ScopeRunsOneAtATime'
      BY <2>1, <2>2, <2>3 DEF InOrder, Known, ScopeRunsOneAtATime
    <3> QED BY <3>2, <3>3
  <2> QED BY <2>1, <2>2, <2>3 DEF InOrder
<1>6. CASE CooldownEnds \/ UNCHANGED vars
  <2>1. UNCHANGED <<occ, outcome, open, wf, pc, lost>>
    BY <1>6 DEF CooldownEnds, vars, request, fires, temporal, history
  <2> QED BY <2>1 DEF InOrder, Alone, Bound, Clear, Kept, Known, ScopeRunsOneAtATime, Started
<1>7. ASSUME NEW d \in Delivery, decideUnderLock(d) PROVE InOrder'
  <2>1. lock' # lock
    BY <1>7 DEF decideUnderLock
  <2> QED BY <1>7, <2>1, OrderDecided DEF vars
<1> QED BY <1>1, <1>2, <1>3, <1>4, <1>5, <1>6, <1>7, OrderStarts DEF Next

\* The two gaps of the in-flight check are the only ones: were no decision taken
\* while another delivery's start is between its commit and Temporal, then, as long
\* as no reply of a start is lost, one run at a time would be on the scope
\* (activeRunOnScope under the lock of decideUnderLock).
THEOREM ScopeRunsOneAtATimeInOrder ==
  Spec /\ [][NoStartUnderWay]_vars => [](lost = {} => ScopeRunsOneAtATime)
<1>1. Init => Courses /\ InOrder
  BY DEF Init, Courses, Pursued, Ran, Pending, InOrder, Alone, Bound, Clear, Kept, Known,
         ScopeRunsOneAtATime
<1>2. InOrder => (lost = {} => ScopeRunsOneAtATime)
  BY DEF InOrder
<1> QED BY <1>1, <1>2, InitLimits, LimitsStep, CoursesStep, OrderStep, TypeCorrect, PTL DEF Spec
=============================================================================
