------------------------ MODULE ReviewLaunchProofs ------------------------
(***************************************************************************)
(* Proofs about automatic reviews, for any number of dispatchers and of    *)
(* attempts.                                                               *)
(***************************************************************************)
EXTENDS ReviewLaunch, FiniteSetTheorems, TLAPS

\* What is known of the review: it was started at most once, and only after its
\* record; a dispatcher past the record, or past the start, has seen to it.
Launched ==
  /\ starts = IF review = "none" THEN 0 ELSE 1
  /\ review # "none" => recorded
  /\ \A d \in Dispatcher : pc[d] = "recorded" => recorded
  /\ \A d \in Dispatcher : pc[d] = "launched" => review # "none"
  /\ status = "started" => review # "none"

\* A dispatcher that listed the row as it still is found it with an attempt left.
Claimed ==
  /\ attempts <= MaxAttempts
  /\ Cardinality(Working) <= attempts
  /\ \A d \in current : attempts < MaxAttempts

Inv == TypeOK /\ Launched /\ Claimed

-----------------------------------------------------------------------------
\* Nothing is enqueued and nobody works.
LEMMA InitInv == Init => Inv
<1> SUFFICES ASSUME Init PROVE Inv
  OBVIOUS
<1>1. TypeOK /\ Launched
  BY DEF Init, TypeOK, Launched
<1>2. Working = {}
  BY DEF Init, Working
<1>3. Claimed
  BY <1>2, FS_EmptySet, AttemptsAssumption DEF Init, Claimed
<1>4. QED
  BY <1>1, <1>3 DEF Inv

\* The set of working dispatchers is finite and its size a natural number.
LEMMA WorkingFinite == IsFiniteSet(Working) /\ Cardinality(Working) \in Nat
<1>1. Working \in SUBSET Dispatcher
  BY DEF Working
<1>2. IsFiniteSet(Working)
  BY <1>1, FS_Subset, DispatcherAssumption
<1>3. QED
  BY <1>2, FS_CardinalityType

\* Fewer dispatchers at work, and attempts as they are.
LEMMA FewerWorking ==
  ASSUME Claimed, attempts' = attempts, attempts \in Nat, current' \subseteq current,
         Working' \subseteq Working
  PROVE  Claimed'
<1>1. Cardinality(Working') <= Cardinality(Working) /\ Cardinality(Working') \in Nat
  BY WorkingFinite, FS_Subset, FS_CardinalityType
<1>2. Cardinality(Working') = Cardinality(Working)'
  OBVIOUS
<1>3. Cardinality(Working)' <= attempts'
  BY <1>1, <1>2, WorkingFinite DEF Claimed
<1>4. QED
  BY <1>3 DEF Claimed

\* What happens around the dispatchers.
LEMMA SurroundingsInv ==
  ASSUME Inv, \/ enqueueReviewLaunchIntents \/ LeaseLapses \/ ReviewableChanges \/ ReviewEnds
              \/ sweepReviewLaunches \/ UNCHANGED vars
  PROVE  Inv'
<1> USE DEF enqueueReviewLaunchIntents, LeaseLapses, ReviewableChanges, ReviewEnds,
            sweepReviewLaunches, vars, intent, outside, Write
<1>1. TypeOK'
  BY DEF Inv, TypeOK
<1>2. Launched'
  BY DEF Inv, TypeOK, Launched
<1>3. Claimed'
  <2>1. pc' = pc /\ attempts' = attempts /\ current' \subseteq current
    OBVIOUS
  <2>2. Working' \subseteq Working
    BY <2>1 DEF Working
  <2>3. QED
    BY <2>1, <2>2, FewerWorking DEF Inv, TypeOK
<1>4. QED
  BY <1>1, <1>2, <1>3 DEF Inv

\* A dispatcher lists the intent, finds its listing stale, or dies.
LEMMA IdleInv ==
  ASSUME Inv, NEW d \in Dispatcher, List(d) \/ Dies(d) \/ (Claim(d) /\ d \notin current)
  PROVE  Inv'
<1>1. CASE List(d)
  <2>1. /\ pc[d] = "idle" /\ attempts < MaxAttempts /\ pc' = [pc EXCEPT ![d] = "listed"]
        /\ current' = current \cup {d}
        /\ UNCHANGED <<status, attempts, lapsed, reviewable, recorded, review, starts>>
    BY <1>1 DEF List, Goto, outside
  <2>2. TypeOK' /\ Launched'
    BY <2>1 DEF Inv, TypeOK, Launched
  <2>3. Working' = Working
    BY <2>1 DEF Inv, TypeOK, Working
  <2>4. Claimed'
    BY <2>1, <2>3 DEF Inv, Claimed
  <2>5. QED
    BY <2>2, <2>4 DEF Inv
<1>2. CASE Dies(d) \/ (Claim(d) /\ d \notin current)
  <2>1. /\ pc' = [pc EXCEPT ![d] = "idle"]
        /\ UNCHANGED <<status, attempts, lapsed, current, reviewable, recorded, review, starts>>
    BY <1>2 DEF Dies, Claim, Goto, intent, outside
  <2>2. TypeOK' /\ Launched'
    BY <2>1 DEF Inv, TypeOK, Launched
  <2>3. Working' \subseteq Working
    BY <2>1 DEF Inv, TypeOK, Working
  <2>4. Claimed'
    BY <2>1, <2>3, FewerWorking DEF Inv, TypeOK
  <2>5. QED
    BY <2>2, <2>4 DEF Inv
<1>3. QED
  BY <1>1, <1>2

\* A claim that goes through takes one attempt and adds one dispatcher at work.
LEMMA ClaimInv ==
  ASSUME Inv, NEW d \in Dispatcher, Claim(d), d \in current
  PROVE  Inv'
<1>1. /\ pc[d] = "listed" /\ pc' = [pc EXCEPT ![d] = "claimed"] /\ attempts' = attempts + 1
      /\ status' = "pending" /\ lapsed' = FALSE /\ current' = {}
      /\ UNCHANGED <<reviewable, recorded, review, starts>>
  BY DEF Claim, Goto, Write, outside
<1>2. TypeOK'
  <2>1. attempts' \in Nat /\ current' \in SUBSET Dispatcher
    BY <1>1 DEF Inv, TypeOK
  <2>2. pc' \in [Dispatcher -> {"idle", "listed", "claimed", "prepared", "recorded", "launched",
                                "erred", "refused"}]
    BY <1>1 DEF Inv, TypeOK
  <2>3. QED
    BY <1>1, <2>1, <2>2 DEF Inv, TypeOK
<1>3. Launched'
  BY <1>1 DEF Inv, TypeOK, Launched
<1>4. Working' = Working \cup {d} /\ d \notin Working
  BY <1>1 DEF Inv, TypeOK, Working
<1>5. Cardinality(Working') = Cardinality(Working) + 1
  BY <1>4, WorkingFinite, FS_AddElement
<1>6. Cardinality(Working)' <= attempts'
  BY <1>1, <1>5, WorkingFinite DEF Inv, TypeOK, Claimed
<1>7. attempts' <= MaxAttempts
  BY <1>1, AttemptsAssumption DEF Inv, TypeOK, Claimed
<1>8. QED
  BY <1>1, <1>2, <1>3, <1>6, <1>7 DEF Inv, Claimed

\* The statements after the claim: a start needs the record and happens once.
LEMMA StepInv ==
  ASSUME Inv, NEW d \in Dispatcher, Step(d)
  PROVE  Inv'
<1> USE DEF Goto, Write, Errs, Starts, intent, outside
<1>1. d \in Working /\ attempts' = attempts /\ current' \subseteq current
      /\ \A b \in Dispatcher : b # d => pc'[b] = pc[b]
  BY DEF Step, prepareReviewLaunch, recordReviewLaunch, StartReview, Settle, Inv, TypeOK, Working
<1>2. Claimed'
  <2>1. Working' \subseteq Working
    BY <1>1 DEF Working
  <2>2. QED
    BY <1>1, <2>1, FewerWorking DEF Inv, TypeOK
<1>3. CASE prepareReviewLaunch(d)
  <2>1. TypeOK'
    BY <1>3 DEF Inv, TypeOK, prepareReviewLaunch
  <2>2. Launched'
    BY <1>3 DEF Inv, TypeOK, Launched, prepareReviewLaunch
  <2>3. QED
    BY <1>2, <2>1, <2>2 DEF Inv
<1>4. CASE recordReviewLaunch(d)
  <2>1. TypeOK'
    BY <1>4 DEF Inv, TypeOK, recordReviewLaunch
  <2>2. Launched'
    BY <1>4 DEF Inv, TypeOK, Launched, recordReviewLaunch
  <2>3. QED
    BY <1>2, <2>1, <2>2 DEF Inv
<1>5. CASE StartReview(d)
  <2>1. TypeOK'
    BY <1>5 DEF Inv, TypeOK, StartReview
  <2>2. Launched'
    BY <1>5 DEF Inv, TypeOK, Launched, StartReview
  <2>3. QED
    BY <1>2, <2>1, <2>2 DEF Inv
<1>6. CASE Settle(d)
  <2>1. TypeOK'
    BY <1>6 DEF Inv, TypeOK, Settle
  <2>2. Launched'
    BY <1>6 DEF Inv, TypeOK, Launched, Settle
  <2>3. QED
    BY <1>2, <2>1, <2>2 DEF Inv
<1>7. QED
  BY <1>3, <1>4, <1>5, <1>6 DEF Step

\* Every step keeps the invariant.
LEMMA NextInv == Inv /\ [Next]_vars => Inv'
BY SurroundingsInv, IdleInv, ClaimInv, StepInv DEF Next

\* The inductive invariant of the launch.
THEOREM Invariance == Spec => []Inv
<1>1. Init => Inv
  BY InitInv
<1>2. Inv /\ [Next]_vars => Inv'
  BY NextInv
<1>3. QED
  BY <1>1, <1>2, PTL DEF Spec

\* Every variable keeps its type.
THEOREM TypeCorrect == Spec => []TypeOK
<1>1. Inv => TypeOK
  BY DEF Inv
<1>2. QED
  BY <1>1, Invariance, PTL

\* An intent starts one review, whatever is lost, dies or outlives its lease.
THEOREM OneReview == Spec => []OneReviewPerIntent
<1>1. Inv => OneReviewPerIntent
  BY DEF Inv, Launched, OneReviewPerIntent
<1>2. QED
  BY <1>1, Invariance, PTL

\* Each attempt is one dispatcher's, and there are no more than allowed.
THEOREM AttemptsClaimed == Spec => []AttemptsAreClaimed
<1>1. Inv => AttemptsAreClaimed
  BY DEF Inv, Claimed, AttemptsAreClaimed
<1>2. QED
  BY <1>1, Invariance, PTL

\* What is recorded as started was recorded as a launch, and started.
THEOREM StartedMeansRan == Spec => []StartedRan
<1>1. Inv => StartedRan
  BY DEF Inv, Launched, StartedRan
<1>2. QED
  BY <1>1, Invariance, PTL
=============================================================================
