---------------------------- MODULE FanOutProofs ----------------------------
(***************************************************************************)
(* Proofs about FanOut for any number of items, pool size, mode, policies  *)
(* and cap.  The argument: items are handed out in order (Progress); what  *)
(* a branch is about to throw is an error (Throws); a fan-out is stopped   *)
(* only with a cause on record (Cause): its parent's abort, a cancellation *)
(* some branch saw, or, in block mode, a branch that failed of itself; and *)
(* the flags repeat what the entries say (Flags).                          *)
(***************************************************************************)
EXTENDS FanOut, TLAPS

\* The well-formedness the other parts rest on.
Shape ==
  /\ nextIndex \in 0..N
  /\ branch \in [Item -> [pc : Pc, attempt : 0..(Retries + 1), policy : Policy \cup {"none"},
                          err : Error \cup {"none"}]]
  /\ entry \in [Item -> {"none", "SUCCESS"} \cup Error]
  /\ stop \in BOOLEAN /\ firstError \in BOOLEAN /\ runCancellation \in BOOLEAN
  /\ parentAbort \in BOOLEAN /\ runCancelled \in BOOLEAN /\ slot \in BOOLEAN

Progress == \A i \in Item : /\ At(i, "absent") <=> i > nextIndex
                            /\ At(i, "done") <=> entry[i] # "none"

Throws == \A i \in Item :
            /\ At(i, "thenThrow") => branch[i].err \in Error
            /\ At(i, "thenThrow") /\ branch[i].err = "runCancelled" => runCancelled
            /\ At(i, "thenRetry") => branch[i].attempt <= Retries

OwnFailure == \E i \in Item : entry[i] = "failed"

HasCause == parentAbort \/ runCancellation \/ (onBranchFail = "block" /\ OwnFailure)

Cause == /\ stop => HasCause
         /\ \A i \in Item : entry[i] = "branchCancelled" => HasCause
         /\ \A i \in Item : At(i, "thenThrow") /\ branch[i].err = "branchCancelled" => HasCause

Flags == /\ runCancellation <=> \E i \in Item : entry[i] = "runCancelled"
         /\ firstError <=> \E i \in Item : entry[i] \in Error

Joined == /\ outcome # "none" => phase = "joined"
          /\ phase = "joined" => /\ InFlight = {} /\ (Aborted \/ nextIndex = N)
                                 /\ outcome = Verdict

IInv == Shape /\ Progress /\ Throws /\ Cause /\ Flags /\ StopInterruptsAll /\ Joined

Branches == [Item -> [pc : Pc, attempt : 0..(Retries + 1), policy : Policy \cup {"none"},
                      err : Error \cup {"none"}]]

LEMMA AbsentType ==
  Absent \in [pc : Pc, attempt : 0..(Retries + 1), policy : Policy \cup {"none"},
              err : Error \cup {"none"}]
  BY SizeAssumption DEF Absent, Pc

LEMMA InitIInv == Init => IInv
<1> SUFFICES ASSUME Init PROVE IInv
  OBVIOUS
<1>1. Shape
  <2>4. nextIndex \in 0..N
    BY SizeAssumption DEF Init
  <2>1. /\ stop \in BOOLEAN /\ firstError \in BOOLEAN /\ runCancellation \in BOOLEAN
        /\ parentAbort \in BOOLEAN /\ runCancelled \in BOOLEAN /\ slot \in BOOLEAN
    BY DEF Init
  <2>2. branch \in Branches /\ entry \in [Item -> {"none", "SUCCESS"} \cup Error]
    BY AbsentType DEF Init, Branches
  <2>3. QED BY <2>1, <2>2, <2>4 DEF Shape, Branches
<1>2. Progress
  BY SizeAssumption DEF Init, Progress, At, Absent, Item
<1>3. Throws /\ Cause /\ StopInterruptsAll
  BY DEF Init, Throws, Cause, StopInterruptsAll, At, Absent
<1>4. Flags /\ Joined
  BY DEF Init, Flags, Joined, Error
<1>5. QED BY <1>1, <1>2, <1>3, <1>4 DEF IInv

\* A branch ends.
LEMMA SettleStep ==
  ASSUME IInv, NEW i \in Item, NEW res \in {"SUCCESS"} \cup Error, Settle(i, res),
         branch[i].pc \notin {"absent", "done"},
         res = "branchCancelled" => HasCause,
         res = "runCancelled" => runCancelled
  PROVE  IInv'
<1> DEFINE blocks == res # "SUCCESS" /\ onBranchFail = "block"
<1>1. /\ entry' = [entry EXCEPT ![i] = res] /\ entry'[i] = res
      /\ \A j \in Item \ {i} : entry'[j] = entry[j]
      /\ firstError' = (firstError \/ res # "SUCCESS")
      /\ runCancellation' = (runCancellation \/ res = "runCancelled")
      /\ stop' = (stop \/ blocks \/ res = "runCancelled")
      /\ UNCHANGED <<onBranchFail, phase, outcome, nextIndex, parentAbort, runCancelled, slot>>
  BY DEF Settle, IInv, Shape
<1>2. /\ branch'[i].pc = "done"
      /\ \A j \in Item \ {i} :
           \/ branch'[j] = branch[j] /\ (blocks /\ ~runCancelled => ~Cancellable(j))
           \/ /\ blocks /\ ~runCancelled /\ Cancellable(j)
              /\ branch'[j].pc = "thenThrow" /\ branch'[j].err = "branchCancelled"
  BY DEF Settle, CancelAllExcept, Reached, Absent, IInv, Shape
<1>3. branch' \in Branches
  <2> DEFINE done == [branch EXCEPT ![i] = [Absent EXCEPT !.pc = "done"]]
  <2>1. [Absent EXCEPT !.pc = "done"] \in [pc : Pc, attempt : 0..(Retries + 1),
                                           policy : Policy \cup {"none"},
                                           err : Error \cup {"none"}]
    BY AbsentType DEF Pc
  <2>2. done \in Branches
    BY <2>1 DEF IInv, Shape, Branches
  <2> HIDE DEF done
  <2>3. \A j \in Item : [done[j] EXCEPT !.pc = "thenThrow", !.err = "branchCancelled"] \in
                          [pc : Pc, attempt : 0..(Retries + 1), policy : Policy \cup {"none"},
                           err : Error \cup {"none"}]
    BY <2>2 DEF Branches, Pc, Error
  <2>4. CancelAllExcept(i, done) \in Branches
    BY <2>2, <2>3 DEF CancelAllExcept, Branches
  <2>5. QED BY <2>2, <2>4 DEF Settle, done
<1>4. Shape'
  BY <1>1, <1>3 DEF IInv, Shape, Branches
<1>5. Progress'
  BY <1>1, <1>2 DEF IInv, Progress, At, Cancellable, Error
<1>6. Throws'
  BY <1>1, <1>2 DEF IInv, Throws, At, Error
<1>7. res = "failed" => OwnFailure'
  BY <1>1 DEF OwnFailure
<1>8. OwnFailure => OwnFailure'
  BY <1>1, <1>5 DEF OwnFailure, IInv, Progress, At
<1>9. HasCause => HasCause'
  BY <1>1, <1>8 DEF HasCause
<1>10. res # "SUCCESS" /\ blocks => HasCause'
  BY <1>1, <1>7, <1>9 DEF HasCause, Error
<1>11. Cause'
  <2>1. stop' => HasCause'
    BY <1>1, <1>9, <1>10 DEF IInv, Cause, HasCause
  <2>2. ASSUME NEW j \in Item, entry'[j] = "branchCancelled" PROVE HasCause'
    BY <1>1, <1>9, <2>2 DEF IInv, Cause
  <2>3. ASSUME NEW j \in Item, At(j, "thenThrow")', branch'[j].err = "branchCancelled"
        PROVE  HasCause'
    BY <1>2, <1>9, <1>10, <2>3 DEF IInv, Cause, At
  <2>4. QED BY <2>1, <2>2, <2>3 DEF Cause
<1>12. Flags'
  <2>1. \A j \in Item : entry[j] # "none" => entry'[j] = entry[j]
    BY <1>1 DEF IInv, Progress, At
  <2>2. QED BY <1>1, <2>1 DEF IInv, Flags, Error
<1>13. StopInterruptsAll'
  BY <1>1, <1>2 DEF IInv, StopInterruptsAll, Cancellable
<1>14. phase # "joined"
  BY DEF IInv, Joined, InFlight
<1>15. Joined'
  BY <1>1, <1>14 DEF IInv, Joined
<1>16. QED BY <1>4, <1>5, <1>6, <1>11, <1>12, <1>13, <1>15 DEF IInv

\* A branch moves inside its walk.
LEMMA MoveStep ==
  ASSUME IInv, NEW i \in Item, NEW b, MoveTo(i, b), slot' \in BOOLEAN,
         b \in [pc : Pc, attempt : 0..(Retries + 1), policy : Policy \cup {"none"},
                err : Error \cup {"none"}],
         branch[i].pc \notin {"absent", "done"}, b.pc \notin {"absent", "done"},
         b.pc = "thenThrow" => b.err \in Error /\ (b.err = "runCancelled" => runCancelled),
         b.pc = "thenRetry" => b.attempt <= Retries,
         b.pc = "thenThrow" /\ b.err = "branchCancelled" => HasCause,
         b.pc \in {"activity", "waiting"} => ~stop
  PROVE  IInv'
<1>1. /\ branch'[i] = b /\ \A j \in Item \ {i} : branch'[j] = branch[j]
      /\ branch' \in Branches
      /\ UNCHANGED <<onBranchFail, phase, outcome, nextIndex, entry, stop, firstError,
                     runCancellation, parentAbort, runCancelled>>
  BY DEF MoveTo, IInv, Shape, Branches
<1>2. Shape'
  BY <1>1 DEF IInv, Shape, Branches
<1>3. Progress' /\ Throws'
  BY <1>1 DEF IInv, Progress, Throws, At
<1>4. Cause'
  BY <1>1 DEF IInv, Cause, HasCause, OwnFailure, At
<1>5. Flags'
  BY <1>1 DEF IInv, Flags
<1>6. StopInterruptsAll'
  BY <1>1 DEF IInv, StopInterruptsAll, Cancellable
<1>7. phase # "joined"
  BY DEF IInv, Joined, InFlight
<1>8. Joined'
  BY <1>1, <1>7 DEF IInv, Joined
<1>9. QED BY <1>2, <1>3, <1>4, <1>5, <1>6, <1>8 DEF IInv

LEMMA AbortedHasCause == ASSUME IInv, Aborted PROVE HasCause
  BY DEF IInv, Cause, Aborted, HasCause

\* What a branch of the interpreter is, field by field.
LEMMA BranchType ==
  ASSUME IInv, NEW i \in Item
  PROVE  branch[i] \in [pc : Pc, attempt : 0..(Retries + 1), policy : Policy \cup {"none"},
                        err : Error \cup {"none"}]
  BY DEF IInv, Shape

LEMMA WalkStep ==
  ASSUME IInv, NEW i \in Item, Walk(i)
  PROVE  IInv'
<1>1. CASE WalkAborts(i)
  BY <1>1, SettleStep, AbortedHasCause DEF WalkAborts, At, Error
<1>2. CASE WalkOverCap(i)
  BY <1>2, SettleStep DEF WalkOverCap, At, Error
<1>3. CASE WalkTerminate(i)
  <2>1. PICK res \in {"SUCCESS", "failed"} : Settle(i, res)
    BY <1>3 DEF WalkTerminate
  <2>2. QED BY <1>3, <2>1, SettleStep DEF WalkTerminate, Visit, At, Error
<1>4. CASE WalkSet(i)
  BY <1>4, MoveStep, BranchType DEF WalkSet, Visit, At, IInv, Shape
<1>5. CASE WalkThrows(i)
  <2> DEFINE b == [branch[i] EXCEPT !.pc = "thenThrow", !.err = "failed"]
  <2>1. /\ b \in [pc : Pc, attempt : 0..(Retries + 1), policy : Policy \cup {"none"},
                  err : Error \cup {"none"}]
        /\ b.pc = "thenThrow" /\ b.err = "failed"
    BY BranchType DEF Pc, Error
  <2>2. MoveTo(i, b) /\ slot' = slot /\ branch[i].pc = "head"
    BY <1>5 DEF WalkThrows, Visit, At
  <2> HIDE DEF b
  <2>3. QED BY <2>1, <2>2, MoveStep DEF IInv, Shape, Error
<1>6. CASE WalkDispatch(i)
  <2>1. PICK p \in Policy :
          MoveTo(i, [branch[i] EXCEPT !.pc = "activity", !.attempt = 1, !.policy = p])
    BY <1>6 DEF WalkDispatch
  <2> DEFINE b == [branch[i] EXCEPT !.pc = "activity", !.attempt = 1, !.policy = p]
  <2>5. 1 \in 0..(Retries + 1)
    BY SizeAssumption
  <2>2. /\ b \in [pc : Pc, attempt : 0..(Retries + 1), policy : Policy \cup {"none"},
                  err : Error \cup {"none"}]
        /\ b.pc = "activity"
    BY <2>5, BranchType DEF Pc
  <2>3. MoveTo(i, b) /\ slot' = slot /\ branch[i].pc = "head" /\ ~stop
    BY <1>6, <2>1 DEF WalkDispatch, Visit, At, Aborted
  <2> HIDE DEF b
  <2>4. QED BY <2>2, <2>3, MoveStep DEF IInv, Shape
<1>7. CASE WalkWait(i)
  <2>1. PICK pc \in {"waiting", "thenNotify"} : MoveTo(i, [branch[i] EXCEPT !.pc = pc])
    BY <1>7 DEF WalkWait
  <2> DEFINE b == [branch[i] EXCEPT !.pc = pc]
  <2>2. /\ b \in [pc : Pc, attempt : 0..(Retries + 1), policy : Policy \cup {"none"},
                  err : Error \cup {"none"}]
        /\ b.pc = pc
    BY BranchType DEF Pc
  <2>3. MoveTo(i, b) /\ slot' = slot /\ branch[i].pc = "head" /\ ~stop
    BY <1>7, <2>1 DEF WalkWait, Visit, At, Aborted
  <2> HIDE DEF b
  <2>4. QED BY <2>2, <2>3, MoveStep DEF IInv, Shape
<1>8. QED BY <1>1, <1>2, <1>3, <1>4, <1>5, <1>6, <1>7 DEF Walk

\* Every way a branch moves after its activity, its wait or a record.
LEMMA MovesOn ==
  ASSUME IInv, NEW i \in Item, branch[i].pc \in Pc \ {"absent", "done"},
         NEW pc \in {"head", "thenWalk", "thenRetry", "thenWait", "thenClose"},
         MoveTo(i, [branch[i] EXCEPT !.pc = pc]), slot' \in BOOLEAN,
         pc = "thenRetry" => branch[i].attempt <= Retries
  PROVE  IInv'
<1> DEFINE b == [branch[i] EXCEPT !.pc = pc]
<1>1. /\ b \in [pc : Pc, attempt : 0..(Retries + 1), policy : Policy \cup {"none"},
                err : Error \cup {"none"}]
      /\ b.pc = pc /\ b.attempt = branch[i].attempt
  BY BranchType DEF Pc
<1> HIDE DEF b
<1>2. MoveTo(i, b)
  BY DEF b
<1>3. QED BY <1>1, <1>2, MoveStep

LEMMA ThrowsOn ==
  ASSUME IInv, NEW i \in Item, branch[i].pc \in Pc \ {"absent", "done"},
         NEW e \in Error, MoveTo(i, Throwing(i, e)), slot' \in BOOLEAN,
         e = "branchCancelled" => HasCause,
         e = "runCancelled" => runCancelled
  PROVE  IInv'
<1>1. /\ Throwing(i, e) \in [pc : Pc, attempt : 0..(Retries + 1), policy : Policy \cup {"none"},
                             err : Error \cup {"none"}]
      /\ Throwing(i, e).pc = "thenThrow" /\ Throwing(i, e).err = e
  BY BranchType DEF Throwing, Pc, Error
<1>2. QED BY <1>1, MoveStep

LEMMA RecordedStep ==
  ASSUME IInv, NEW i \in Item, Recorded(i)
  PROVE  IInv'
<1>1. slot \in BOOLEAN
  BY DEF IInv, Shape
<1>2. CASE RecordThenWalk(i)
  <2> DEFINE b == [Absent EXCEPT !.pc = "head"]
  <2>1. /\ b \in [pc : Pc, attempt : 0..(Retries + 1), policy : Policy \cup {"none"},
                  err : Error \cup {"none"}]
        /\ b.pc = "head"
    BY AbsentType DEF Pc
  <2>2. MoveTo(i, b) /\ slot' = slot /\ branch[i].pc = "thenWalk"
    BY <1>2 DEF RecordThenWalk, At
  <2> HIDE DEF b
  <2>3. QED BY <1>1, <2>1, <2>2, MoveStep
<1>3. CASE RecordThenRetry(i)
  <2>1. CASE Aborted
    BY <1>1, <1>3, <2>1, ThrowsOn, AbortedHasCause DEF RecordThenRetry, At, Pc, Error
  <2>2. CASE ~Aborted
    <3> DEFINE b == [branch[i] EXCEPT !.pc = "activity", !.attempt = @ + 1]
    <3>1. branch[i].attempt + 1 \in 0..(Retries + 1)
      BY <1>3, BranchType, SizeAssumption DEF RecordThenRetry, IInv, Throws, At
    <3>2. /\ b \in [pc : Pc, attempt : 0..(Retries + 1), policy : Policy \cup {"none"},
                    err : Error \cup {"none"}]
          /\ b.pc = "activity"
      BY <3>1, BranchType DEF Pc
    <3>3. MoveTo(i, b) /\ slot' = slot /\ branch[i].pc = "thenRetry" /\ ~stop
      BY <1>3, <2>2 DEF RecordThenRetry, At, Aborted
    <3> HIDE DEF b
    <3>4. QED BY <1>1, <3>2, <3>3, MoveStep
  <2>3. QED BY <2>1, <2>2
<1>4. CASE RecordThenWait(i)
  <2>1. CASE Aborted
    BY <1>1, <1>4, <2>1, ThrowsOn, AbortedHasCause DEF RecordThenWait, At, Pc, Error
  <2>2. CASE ~Aborted
    <3> DEFINE b == [branch[i] EXCEPT !.pc = "waiting"]
    <3>1. /\ b \in [pc : Pc, attempt : 0..(Retries + 1), policy : Policy \cup {"none"},
                    err : Error \cup {"none"}]
          /\ b.pc = "waiting"
      BY BranchType DEF Pc
    <3>2. MoveTo(i, b) /\ slot' = slot /\ branch[i].pc = "thenWait" /\ ~stop
      BY <1>4, <2>2 DEF RecordThenWait, At, Aborted
    <3> HIDE DEF b
    <3>3. QED BY <1>1, <3>1, <3>2, MoveStep
  <2>3. QED BY <2>1, <2>2
<1>5. CASE RecordThenThrow(i)
  <2>1. branch[i].pc = "thenThrow" /\ Settle(i, branch[i].err)
    BY <1>5 DEF RecordThenThrow, At
  <2>2. branch[i].err \in Error
    BY <2>1 DEF IInv, Throws, At
  <2>5. branch[i].err = "runCancelled" => runCancelled
    BY <2>1, Zenon DEF IInv, Throws, At
  <2>4. branch[i].err = "branchCancelled" => HasCause
    BY <2>1, Zenon DEF IInv, Cause, At
  <2>3. QED BY <2>1, <2>2, <2>4, <2>5, SettleStep
<1>6. CASE RecordThenNotify(i)
  <2>1. CASE MoveTo(i, [branch[i] EXCEPT !.pc = "thenWait"])
    BY <1>1, <1>6, <2>1, MovesOn DEF RecordThenNotify, At, Pc
  <2>2. CASE MoveTo(i, Throwing(i, "failed"))
    BY <1>1, <1>6, <2>2, ThrowsOn DEF RecordThenNotify, At, Pc, Error
  <2>3. QED BY <1>6, <2>1, <2>2 DEF RecordThenNotify
<1>7. CASE RecordThenClose(i)
  BY <1>1, <1>7, MovesOn DEF RecordThenClose, At, Pc
<1>8. QED BY <1>2, <1>3, <1>4, <1>5, <1>6, <1>7 DEF Recorded

LEMMA ActivityStep ==
  ASSUME IInv, NEW i \in Item, ActivityEnds(i)
  PROVE  IInv'
<1>1. slot' \in BOOLEAN /\ branch[i].pc = "activity"
  BY DEF ActivityEnds, ActivityPasses, ActivityFails, At, IInv, Shape
<1>2. CASE ActivityPasses(i)
  BY <1>1, <1>2, MovesOn DEF ActivityPasses, Pc
<1>3. CASE ActivityFails(i)
  <2>1. PICK kind : MoveTo(i, AfterFailure(i, kind))
    BY <1>3 DEF ActivityFails
  <2>2. \/ AfterFailure(i, kind) = [branch[i] EXCEPT !.pc = "thenWalk"]
        \/ /\ AfterFailure(i, kind) = [branch[i] EXCEPT !.pc = "thenRetry"]
           /\ branch[i].attempt <= Retries
        \/ AfterFailure(i, kind) = Throwing(i, "failed")
    BY DEF AfterFailure
  <2>3. CASE AfterFailure(i, kind) = Throwing(i, "failed")
    BY <1>1, <2>1, <2>3, ThrowsOn DEF Pc, Error
  <2>4. CASE AfterFailure(i, kind) = [branch[i] EXCEPT !.pc = "thenWalk"]
    BY <1>1, <2>1, <2>4, MovesOn DEF Pc
  <2>5. CASE /\ AfterFailure(i, kind) = [branch[i] EXCEPT !.pc = "thenRetry"]
             /\ branch[i].attempt <= Retries
    BY <1>1, <2>1, <2>5, MovesOn DEF Pc
  <2>6. QED BY <2>2, <2>3, <2>4, <2>5
<1>4. QED BY <1>2, <1>3 DEF ActivityEnds

LEMMA InterruptStep ==
  ASSUME IInv, NEW i \in Item, Interrupted(i) \/ WaitEnds(i)
  PROVE  IInv'
<1>1. CASE Interrupted(i)
  BY <1>1, ThrowsOn DEF Interrupted, Cancellable, Pc, Error, IInv, Shape
<1>2. CASE WaitEnds(i)
  <2>1. slot' \in BOOLEAN /\ branch[i].pc = "waiting"
    BY <1>2 DEF WaitEnds, ReceiveSignal, WaitTimesOut, At, IInv, Shape
  <2>2. PICK pc \in {"thenWalk", "thenClose"} : MoveTo(i, [branch[i] EXCEPT !.pc = pc])
    BY <1>2 DEF WaitEnds, ReceiveSignal, WaitTimesOut
  <2>3. QED BY <2>1, <2>2, MovesOn DEF Pc
<1>3. QED BY <1>1, <1>2

LEMMA StartStep ==
  ASSUME IInv, StartBranch
  PROVE  IInv'
<1> DEFINE i == nextIndex + 1
<1>1. i \in Item /\ nextIndex' = nextIndex + 1 /\ nextIndex' \in 0..N /\ ~stop
  BY SizeAssumption DEF StartBranch, IInv, Shape, Item, Aborted
<1>2. /\ branch' \in Branches /\ branch'[i].pc = "head"
      /\ \A j \in Item \ {i} : branch'[j] = branch[j]
      /\ UNCHANGED <<onBranchFail, phase, outcome, entry, stop, firstError, runCancellation, parentAbort,
                     runCancelled, slot>>
  <2>1. [branch[i] EXCEPT !.pc = "head"] \in
          [pc : Pc, attempt : 0..(Retries + 1), policy : Policy \cup {"none"},
           err : Error \cup {"none"}]
    BY <1>1, BranchType DEF Pc
  <2>2. branch' = [branch EXCEPT ![i] = [branch[i] EXCEPT !.pc = "head"]]
    BY DEF StartBranch
  <2>3. QED BY <1>1, <2>1, <2>2 DEF StartBranch, IInv, Shape, Branches
<1>3. Shape'
  BY <1>1, <1>2 DEF IInv, Shape, Branches
<1>4. Progress'
  <2>1. At(i, "absent")
    BY <1>1 DEF IInv, Progress, Shape
  <2>2. entry[i] = "none"
    BY <1>1, <2>1 DEF IInv, Progress, At
  <2>3. ASSUME NEW j \in Item
        PROVE  (At(j, "absent")' <=> j > nextIndex') /\ (At(j, "done")' <=> entry'[j] # "none")
    <3>1. CASE j = i
      BY <1>1, <1>2, <2>2, <3>1 DEF At, IInv, Shape
    <3>2. CASE j # i
      <4>1. j > nextIndex' <=> j > nextIndex
        BY <1>1, <3>2 DEF IInv, Shape, Item
      <4>2. QED BY <1>2, <3>2, <4>1 DEF IInv, Progress, At
    <3>3. QED BY <3>1, <3>2
  <2>4. QED BY <2>3 DEF Progress
<1>5. Throws' /\ Cause' /\ StopInterruptsAll'
  BY <1>1, <1>2 DEF IInv, Throws, Cause, HasCause, OwnFailure, StopInterruptsAll, Cancellable, At
<1>6. Flags' /\ Joined'
  BY <1>2 DEF StartBranch, IInv, Flags, Joined
<1>7. QED BY <1>3, <1>4, <1>5, <1>6 DEF IInv

LEMMA ParentStep ==
  ASSUME IInv, ParentAborts
  PROVE  IInv'
<1>1. /\ parentAbort' = TRUE /\ phase = "running"
      /\ UNCHANGED <<onBranchFail, phase, outcome, nextIndex, entry, firstError, runCancellation,
                     runCancelled, slot>>
  BY DEF ParentAborts
<1>2. CASE UNCHANGED <<stop, branch>>
  BY <1>1, <1>2 DEF IInv, Shape, Progress, Throws, Cause, HasCause, Flags, StopInterruptsAll,
                    Joined, At, Cancellable
<1>3. CASE stop' = TRUE /\ branch' = CancelAllExcept(0, branch)
  <2>1. \A j \in Item :
          \/ branch'[j] = branch[j] /\ (~runCancelled => ~Cancellable(j))
          \/ /\ ~runCancelled /\ Cancellable(j)
             /\ branch'[j].pc = "thenThrow" /\ branch'[j].err = "branchCancelled"
    <3>1. 0 \notin Item
      BY DEF Item
    <3>2. QED BY <1>3, <3>1 DEF CancelAllExcept, Reached, IInv, Shape, Branches
  <2>2. branch' \in Branches
    <3>1. \A j \in Item : [branch[j] EXCEPT !.pc = "thenThrow", !.err = "branchCancelled"] \in
                            [pc : Pc, attempt : 0..(Retries + 1), policy : Policy \cup {"none"},
                             err : Error \cup {"none"}]
      BY BranchType DEF Pc, Error
    <3>2. QED BY <1>3, <3>1 DEF CancelAllExcept, Branches, IInv, Shape
  <2>3. Shape'
    BY <1>1, <1>3, <2>2 DEF IInv, Shape, Branches
  <2>4. Progress' /\ Throws'
    BY <1>1, <2>1 DEF IInv, Progress, Throws, At, Cancellable, Error
  <2>5. Cause' /\ Flags' /\ Joined'
    BY <1>1 DEF IInv, Cause, HasCause, Flags, Joined
  <2>6. StopInterruptsAll'
    BY <1>1, <2>1 DEF StopInterruptsAll, Cancellable
  <2>7. QED BY <2>3, <2>4, <2>5, <2>6 DEF IInv
<1>4. QED BY <1>2, <1>3 DEF ParentAborts

LEMMA OtherStep ==
  ASSUME IInv, Join \/ DeliverSignal \/ CancelRun \/ (\E i \in Item : OrphanEnds(i))
                 \/ UNCHANGED vars
  PROVE  IInv'
<1>1. CASE Join
  <2>1. UNCHANGED <<onBranchFail, nextIndex, branch, entry, stop, firstError, runCancellation, parentAbort,
                    runCancelled, slot>>
    BY <1>1 DEF Join
  <2>2. Shape' /\ Progress' /\ Throws' /\ Cause' /\ Flags' /\ StopInterruptsAll'
    BY <2>1 DEF IInv, Shape, Progress, Throws, Cause, HasCause, OwnFailure, Flags,
                StopInterruptsAll, Cancellable, At
  <2>3. Joined'
    BY <1>1, <2>1 DEF Join, Joined, InFlight, Aborted, Verdict
  <2>4. QED BY <2>2, <2>3 DEF IInv
<1>2. CASE DeliverSignal \/ CancelRun \/ (\E i \in Item : OrphanEnds(i)) \/ UNCHANGED vars
  <2>1. /\ UNCHANGED <<onBranchFail, phase, outcome, nextIndex, branch, entry, stop, firstError,
                       runCancellation, parentAbort>>
        /\ slot' \in BOOLEAN /\ runCancelled' \in BOOLEAN /\ (runCancelled => runCancelled')
    BY <1>2 DEF DeliverSignal, CancelRun, OrphanEnds, vars, IInv, Shape
  <2>2. Shape' /\ Progress' /\ Throws' /\ Cause' /\ Flags' /\ StopInterruptsAll'
    BY <2>1 DEF IInv, Shape, Progress, Throws, Cause, HasCause, OwnFailure, Flags,
                StopInterruptsAll, Cancellable, At
  <2>3. Joined'
    BY <2>1 DEF IInv, Joined, InFlight, Aborted, Verdict
  <2>4. QED BY <2>2, <2>3 DEF IInv
<1>3. QED BY <1>1, <1>2

LEMMA Inductive == IInv /\ [Next]_vars => IInv'
  BY WalkStep, ActivityStep, InterruptStep, RecordedStep, StartStep, ParentStep, OtherStep DEF Next

\* The inductive invariant of the fan-out.
THEOREM Invariance == Spec => []IInv
  BY InitIInv, Inductive, PTL DEF Spec

\* What IInv does not bound: the node's mode and outcome, the shared count of
\* transitions, the waits left pending.
Rest == /\ onBranchFail \in {"block", "continue"}
        /\ phase \in {"running", "joined"}
        /\ outcome \in {"none", "passed", "blocked", "aborted", "cancelled"}
        /\ count \in 0..Cap
        /\ orphans \subseteq Item

LEMMA RestStep == Rest /\ [Next]_vars => Rest'
<1> SUFFICES ASSUME Rest, [Next]_vars PROVE Rest'
  OBVIOUS
<1>1. ASSUME NEW i \in Item, NEW res, Settle(i, res), count' \in 0..Cap PROVE Rest'
  BY <1>1 DEF Settle, Abandoned, Reached, Rest
<1>2. ASSUME NEW i \in Item, NEW b, MoveTo(i, b), count' \in 0..Cap PROVE Rest'
  BY <1>2 DEF MoveTo, Rest
<1>3. ASSUME NEW i \in Item, Visit(i) PROVE count' \in 0..Cap
  BY <1>3, SizeAssumption DEF Visit, Rest
<1>4. ASSUME NEW i \in Item, Walk(i) PROVE Rest'
  BY <1>1, <1>2, <1>3, <1>4 DEF Walk, WalkAborts, WalkOverCap, WalkSet, WalkThrows,
     WalkDispatch, WalkWait, WalkTerminate, Rest
<1>5. ASSUME NEW i \in Item, ActivityEnds(i) \/ Interrupted(i) \/ Recorded(i) \/ WaitEnds(i)
      PROVE  Rest'
  BY <1>1, <1>2, <1>5 DEF ActivityEnds, ActivityPasses, ActivityFails, Interrupted, Recorded,
     RecordThenWalk, RecordThenRetry, RecordThenNotify, RecordThenWait, RecordThenClose,
     RecordThenThrow, WaitEnds, ReceiveSignal, WaitTimesOut, Rest
<1>6. CASE StartBranch \/ DeliverSignal \/ CancelRun \/ (\E i \in Item : OrphanEnds(i))
           \/ UNCHANGED vars
  BY <1>6 DEF StartBranch, DeliverSignal, CancelRun, OrphanEnds, vars, Rest
<1>7. CASE Join
  BY <1>7 DEF Join, Verdict, Rest
<1>8. CASE ParentAborts
  BY <1>8 DEF ParentAborts, Abandoned, Reached, Rest
<1> QED BY <1>4, <1>5, <1>6, <1>7, <1>8 DEF Next

\* The state keeps its types; in particular the transitions of all branches
\* together never pass the cap they share (walk's counter).
THEOREM TypeCorrect == Spec => []TypeOK
<1>1. Init => Rest
  BY SizeAssumption DEF Init, Rest
<1>2. IInv /\ Rest => TypeOK
  BY DEF IInv, Shape, Rest, TypeOK
<1> QED BY <1>1, <1>2, RestStep, Invariance, PTL DEF Spec

\* Block mode leaves no sibling inside an activity or a wait.
THEOREM StopInterruptsAllHolds == Spec => []StopInterruptsAll
<1>1. IInv => StopInterruptsAll
  BY DEF IInv
<1>2. QED BY <1>1, Invariance, PTL

\* The join accounts for every item.
THEOREM JoinIsCompleteHolds == Spec => []JoinIsComplete
<1>1. ASSUME IInv PROVE JoinIsComplete
  <2> SUFFICES ASSUME phase = "joined", NEW i \in Item
               PROVE  /\ At(i, "done") <=> entry[i] # "none"
                      /\ At(i, "absent") <=> entry[i] = "none"
                      /\ entry[i] = "none" => Aborted /\ i > nextIndex
    BY DEF JoinIsComplete
  <2>1. branch[i].pc \in {"absent", "done"}
    BY <1>1 DEF IInv, Joined, InFlight
  <2>2. /\ At(i, "done") <=> entry[i] # "none"
        /\ At(i, "absent") <=> i > nextIndex
    BY <1>1 DEF IInv, Progress
  <2>3. nextIndex = N => ~(i > nextIndex)
    BY SizeAssumption DEF Item
  <2>4. QED BY <1>1, <2>1, <2>2, <2>3 DEF IInv, Joined, At
<1>2. QED BY <1>1, Invariance, PTL

\* What the fan-out reports is what happened in its branches.
THEOREM OutcomeIsHonestHolds == Spec => []OutcomeIsHonest
<1>1. ASSUME IInv PROVE OutcomeIsHonest
  <2>1. CASE outcome = "none"
    BY <2>1 DEF OutcomeIsHonest
  <2>2. CASE outcome # "none"
    <3>1. outcome = Verdict /\ (Aborted \/ nextIndex = N) /\ InFlight = {}
      BY <1>1, <2>2 DEF IInv, Joined
    <3>2. outcome = "cancelled" <=> \E i \in Item : entry[i] = "runCancelled"
      BY <1>1, <3>1 DEF IInv, Flags, Verdict
    <3>3. outcome = "blocked" => OwnFailure
      <4>1. SUFFICES ASSUME outcome = "blocked" PROVE OwnFailure
        OBVIOUS
      <4>2. ~runCancellation /\ ~parentAbort /\ firstError
        BY <3>1, <4>1 DEF Verdict
      <4>3. PICK i \in Item : entry[i] \in Error
        BY <1>1, <4>2 DEF IInv, Flags
      <4>4. entry[i] # "runCancelled"
        BY <1>1, <4>2 DEF IInv, Flags
      <4>5. QED BY <1>1, <4>2, <4>3, <4>4 DEF IInv, Cause, HasCause, OwnFailure, Error
    <3>4. ASSUME outcome = "passed"
          PROVE  /\ \A i \in Item : entry[i] \in {"SUCCESS", "failed"}
                 /\ onBranchFail = "block" => \A i \in Item : entry[i] = "SUCCESS"
      <4>1. ~runCancellation /\ ~parentAbort /\ ~(firstError /\ onBranchFail = "block")
        BY <3>1, <3>4 DEF Verdict
      <4>2. OwnFailure => firstError
        BY <1>1 DEF IInv, Flags, OwnFailure, Error
      <4>3. ~HasCause
        BY <4>1, <4>2 DEF HasCause
      <4>4. ~stop /\ \A i \in Item : entry[i] # "branchCancelled"
        BY <1>1, <4>3 DEF IInv, Cause
      <4>5. nextIndex = N
        BY <3>1, <4>1, <4>4 DEF Aborted
      <4>6. \A i \in Item : entry[i] # "none"
        BY <1>1, <3>1, <4>5, SizeAssumption DEF IInv, Progress, InFlight, At, Item
      <4>7. \A i \in Item : entry[i] # "runCancelled"
        BY <1>1, <4>1 DEF IInv, Flags
      <4>8. \A i \in Item : entry[i] \in {"SUCCESS", "failed"}
        BY <1>1, <4>4, <4>6, <4>7 DEF IInv, Shape, Error
      <4>9. onBranchFail = "block" => \A i \in Item : entry[i] = "SUCCESS"
        BY <1>1, <4>1, <4>8 DEF IInv, Flags, Error
      <4>10. QED BY <4>8, <4>9
    <3>5. QED BY <3>2, <3>3, <3>4 DEF OutcomeIsHonest, OwnFailure
  <2>3. QED BY <2>1, <2>2
<1>2. QED BY <1>1, Invariance, PTL

\* What a step may do to a branch: no branch, attempt, wait or human node starts
\* in a decided fan-out, and an activity or wait under a cancelled run leaves
\* only by its cancellation.
StepKeeps(j) ==
  /\ Aborted /\ At(j, "absent") => branch'[j].pc = "absent"
  /\ Aborted /\ ~Cancellable(j) => branch'[j].pc \notin {"activity", "waiting"}
  /\ Aborted /\ branch'[j].pc = "thenNotify" => At(j, "thenNotify")
  /\ runCancelled /\ Cancellable(j) /\ branch'[j] # branch[j] =>
       branch'[j].pc = "thenThrow" /\ branch'[j].err = "runCancelled"

LEMMA StandsStill ==
  ASSUME NEW j \in Item, branch'[j] = branch[j]
  PROVE  StepKeeps(j)
  BY DEF StepKeeps, At, Cancellable

\* A branch that moves alone keeps to the rules if its new state does.
LEMMA MoveKeeps ==
  ASSUME IInv, NEW i \in Item, NEW b, MoveTo(i, b), ~At(i, "absent"),
         b.pc \in {"activity", "waiting"} => Cancellable(i) \/ ~Aborted,
         b.pc = "thenNotify" => ~Aborted,
         runCancelled /\ Cancellable(i) => b.pc = "thenThrow" /\ b.err = "runCancelled",
         NEW j \in Item
  PROVE  StepKeeps(j)
<1>1. CASE j = i
  <2>1. branch'[i] = b
    BY DEF MoveTo, IInv, Shape
  <2> QED BY <1>1, <2>1 DEF StepKeeps
<1>2. CASE j # i
  <2>1. branch'[j] = branch[j]
    BY <1>2 DEF MoveTo, IInv, Shape
  <2> QED BY <2>1, StandsStill
<1> QED BY <1>1, <1>2

\* A branch that ends interrupts others only where no run cancellation does.
LEMMA CancelKeeps ==
  ASSUME IInv, NEW j \in Item,
         \/ branch'[j] = branch[j]
         \/ ~runCancelled /\ Cancellable(j) /\ branch'[j].pc = "thenThrow"
  PROVE  StepKeeps(j)
  BY StandsStill DEF StepKeeps, At, Cancellable

LEMMA SettleKeeps ==
  ASSUME IInv, NEW i \in Item, NEW res, Settle(i, res),
         ~At(i, "absent"), ~Cancellable(i), NEW j \in Item
  PROVE  StepKeeps(j)
<1> DEFINE d == [branch EXCEPT ![i] = [Absent EXCEPT !.pc = "done"]]
<1>1. branch' = CancelAllExcept(i, d) \/ branch' = d
  BY DEF Settle
<1>2. d[i].pc = "done" /\ \A k \in Item \ {i} : d[k] = branch[k] /\ d[k].pc = branch[k].pc
  BY DEF Absent, IInv, Shape
<1>3. CASE j = i
  <2>1. branch'[i] = d[i]
    BY <1>1 DEF CancelAllExcept, Reached
  <2> QED BY <1>2, <1>3, <2>1 DEF StepKeeps
<1>4. CASE j # i
  <2>1. \/ branch'[j] = d[j]
        \/ j \in Reached(i) /\ branch'[j] = [d[j] EXCEPT !.pc = "thenThrow", !.err = "branchCancelled"]
    BY <1>1 DEF CancelAllExcept
  <2>2. d[j] = branch[j]
    BY <1>2, <1>4
  <2>3. [d[j] EXCEPT !.pc = "thenThrow", !.err = "branchCancelled"].pc = "thenThrow"
    BY <2>2, BranchType
  <2>4. j \in Reached(i) => ~runCancelled /\ Cancellable(j)
    BY DEF Reached
  <2> QED BY <2>1, <2>2, <2>3, <2>4, CancelKeeps
<1> QED BY <1>3, <1>4

LEMMA WalkKeeps ==
  ASSUME IInv, NEW i \in Item, Walk(i), NEW j \in Item
  PROVE  StepKeeps(j)
<1>1. At(i, "head") /\ ~At(i, "absent") /\ ~Cancellable(i)
  BY DEF Walk, WalkAborts, WalkOverCap, WalkSet, WalkThrows, WalkDispatch, WalkWait,
         WalkTerminate, Visit, At, Cancellable
<1>2. CASE \E res : Settle(i, res)
  BY <1>1, <1>2, SettleKeeps
<1>3. CASE ~Aborted /\ \E b : MoveTo(i, b)
  BY <1>1, <1>3, MoveKeeps
<1> QED BY <1>2, <1>3 DEF Walk, WalkAborts, WalkOverCap, WalkSet, WalkThrows, WalkDispatch,
                          WalkWait, WalkTerminate, Visit

\* Only a run that is not cancelled lets an activity or a wait end by itself.
LEMMA EndKeeps ==
  ASSUME IInv, NEW i \in Item, ActivityEnds(i) \/ WaitEnds(i), NEW j \in Item
  PROVE  StepKeeps(j)
<1>1. Cancellable(i) /\ ~At(i, "absent") /\ ~runCancelled
  BY DEF ActivityEnds, ActivityPasses, ActivityFails, WaitEnds, ReceiveSignal, WaitTimesOut,
         At, Cancellable
<1>2. \A pc \in {"thenWalk", "thenClose", "thenRetry"} :
        [branch[i] EXCEPT !.pc = pc].pc # "thenNotify"
  BY BranchType
<1>3. Throwing(i, "failed").pc # "thenNotify"
  BY BranchType DEF Throwing
<1>4. \A kind : AfterFailure(i, kind).pc # "thenNotify"
  BY <1>2, <1>3 DEF AfterFailure
<1>5. PICK b : MoveTo(i, b) /\ b.pc # "thenNotify"
  BY <1>2, <1>4 DEF ActivityEnds, ActivityPasses, ActivityFails, WaitEnds, ReceiveSignal,
                    WaitTimesOut
<1> QED BY <1>1, <1>5, MoveKeeps

LEMMA InterruptKeeps ==
  ASSUME IInv, NEW i \in Item, Interrupted(i), NEW j \in Item
  PROVE  StepKeeps(j)
<1>1. /\ Throwing(i, "runCancelled").pc = "thenThrow"
      /\ Throwing(i, "runCancelled").err = "runCancelled"
  BY BranchType DEF Throwing
<1> QED BY <1>1, MoveKeeps DEF Interrupted, Cancellable, At

LEMMA RecordedKeeps ==
  ASSUME IInv, NEW i \in Item, Recorded(i), NEW j \in Item
  PROVE  StepKeeps(j)
<1>1. ~At(i, "absent") /\ ~Cancellable(i)
  BY DEF Recorded, RecordThenWalk, RecordThenRetry, RecordThenNotify, RecordThenWait,
         RecordThenClose, RecordThenThrow, At, Cancellable
<1>2. CASE RecordThenWalk(i)
  <2>1. [Absent EXCEPT !.pc = "head"].pc = "head"
    BY DEF Absent
  <2> QED BY <1>1, <1>2, <2>1, MoveKeeps DEF RecordThenWalk
<1>3. CASE RecordThenRetry(i) \/ RecordThenWait(i)
  <2>1. /\ Throwing(i, "branchCancelled").pc = "thenThrow"
        /\ [branch[i] EXCEPT !.pc = "activity", !.attempt = @ + 1].pc = "activity"
        /\ [branch[i] EXCEPT !.pc = "waiting"].pc = "waiting"
    BY BranchType DEF Throwing
  <2>2. PICK b : /\ MoveTo(i, b) /\ b.pc # "thenNotify"
                 /\ b.pc \in {"activity", "waiting"} => ~Aborted
    BY <1>3, <2>1 DEF RecordThenRetry, RecordThenWait
  <2> QED BY <1>1, <2>2, MoveKeeps
<1>4. CASE RecordThenThrow(i)
  BY <1>1, <1>4, SettleKeeps DEF RecordThenThrow
<1>5. CASE RecordThenNotify(i) \/ RecordThenClose(i)
  <2>1. /\ Throwing(i, "failed").pc = "thenThrow"
        /\ [branch[i] EXCEPT !.pc = "thenWait"].pc = "thenWait"
        /\ [branch[i] EXCEPT !.pc = "thenWalk"].pc = "thenWalk"
    BY BranchType DEF Throwing
  <2>2. PICK b : MoveTo(i, b) /\ b.pc \in {"thenThrow", "thenWait", "thenWalk"}
    BY <1>5, <2>1 DEF RecordThenNotify, RecordThenClose
  <2> QED BY <1>1, <2>2, MoveKeeps
<1> QED BY <1>2, <1>3, <1>4, <1>5 DEF Recorded

LEMMA PoolKeeps ==
  ASSUME IInv, StartBranch \/ ParentAborts, NEW j \in Item
  PROVE  StepKeeps(j)
<1>1. CASE StartBranch
  <2>1. ~Aborted /\ branch' = [branch EXCEPT ![nextIndex + 1].pc = "head"]
    BY <1>1 DEF StartBranch
  <2>2. At(nextIndex + 1, "absent")
    <3>1. nextIndex + 1 \in Item
      BY <1>1, SizeAssumption DEF StartBranch, Item, IInv, Shape
    <3> QED BY <3>1, SizeAssumption DEF IInv, Progress, Shape
  <2>3. branch'[j] = branch[j] \/ ~Cancellable(j)
    BY <2>1, <2>2 DEF IInv, Shape, At, Cancellable
  <2> QED BY <2>1, <2>3, StandsStill DEF StepKeeps
<1>2. CASE ParentAborts
  <2>1. 0 \notin Item
    BY DEF Item
  <2>2. CASE branch' = branch
    BY <2>2, StandsStill
  <2>3. CASE branch' = CancelAllExcept(0, branch)
    <3>1. [branch[j] EXCEPT !.pc = "thenThrow", !.err = "branchCancelled"].pc = "thenThrow"
      BY BranchType
    <3>2. \/ branch'[j] = branch[j]
          \/ /\ j \in Reached(0)
             /\ branch'[j] = [branch[j] EXCEPT !.pc = "thenThrow", !.err = "branchCancelled"]
      BY <2>3 DEF CancelAllExcept
    <3>3. j \in Reached(0) => ~runCancelled /\ Cancellable(j)
      BY DEF Reached
    <3> QED BY <3>1, <3>2, <3>3, CancelKeeps
  <2> QED BY <1>2, <2>2, <2>3 DEF ParentAborts
<1> QED BY <1>1, <1>2

LEMMA NextKeeps ==
  ASSUME IInv, [Next]_vars, NEW j \in Item
  PROVE  StepKeeps(j)
<1>1. CASE Join \/ DeliverSignal \/ CancelRun \/ (\E i \in Item : OrphanEnds(i)) \/ UNCHANGED vars
  <2>1. branch' = branch
    BY <1>1 DEF Join, DeliverSignal, CancelRun, OrphanEnds, vars
  <2> QED BY <2>1, StandsStill
<1> QED BY <1>1, WalkKeeps, EndKeeps, InterruptKeeps, RecordedKeeps, PoolKeeps DEF Next

\* The interpreter looks again whether the fan-out is decided before it starts a
\* branch, a node, an attempt or a wait (walk, runRetryable, waitCancellable):
\* whichever await it comes out of, only the filing or closing of a human step
\* that node was already at is still done.
THEOREM NothingStartsOnceDecidedHolds == Spec => NothingStartsOnceDecided
<1>1. IInv /\ [Next]_vars =>
        [Aborted => \A i \in Item :
           /\ At(i, "absent") => branch'[i].pc = "absent"
           /\ ~Cancellable(i) => branch'[i].pc \notin {"activity", "waiting"}
           /\ branch'[i].pc = "thenNotify" => At(i, "thenNotify")]_vars
  BY NextKeeps DEF StepKeeps
<1> QED BY <1>1, Invariance, PTL DEF Spec, NothingStartsOnceDecided

\* No onFail or onError policy swallows the run's cancellation (runRetryable).
THEOREM CancellationPassesPoliciesHolds == Spec => CancellationPassesPolicies
<1>1. IInv /\ [Next]_vars =>
        [\A i \in Item : runCancelled /\ Cancellable(i) /\ branch'[i] # branch[i] =>
           branch'[i].pc = "thenThrow" /\ branch'[i].err = "runCancelled"]_vars
  BY NextKeeps DEF StepKeeps
<1> QED BY <1>1, Invariance, PTL DEF Spec, CancellationPassesPolicies

\* A payload goes to one live wait: an abandoned one leaves the slot alone
\* (signalSlots, waitCancellable).
THEOREM OneDeliveryOneLiveConsumerHolds == Spec => OneDeliveryOneLiveConsumer
<1> DEFINE Consumed == \E i \in Item : /\ At(i, "waiting") /\ branch'[i].pc = "thenWalk"
                                       /\ \A j \in Item \ {i} : branch'[j] = branch[j]
<1>1. IInv /\ [Next]_vars => [slot /\ ~slot' => Consumed]_vars
  <2> SUFFICES ASSUME IInv, Next, slot, ~slot' PROVE Consumed
    OBVIOUS
  <2>1. PICK i \in Item : ReceiveSignal(i)
    <3>1. ~StartBranch /\ ~Join /\ ~DeliverSignal /\ ~CancelRun /\ ~ParentAborts
      BY DEF StartBranch, Join, DeliverSignal, CancelRun, ParentAborts
    <3>2. ASSUME NEW i \in Item, Walk(i) PROVE FALSE
      BY <3>2 DEF Walk, WalkAborts, WalkOverCap, WalkSet, WalkThrows, WalkDispatch, WalkWait,
                  WalkTerminate, Settle
    <3>3. ASSUME NEW i \in Item,
                 ActivityEnds(i) \/ Interrupted(i) \/ WaitTimesOut(i) \/ OrphanEnds(i)
          PROVE  FALSE
      BY <3>3 DEF ActivityEnds, ActivityPasses, ActivityFails, Interrupted, WaitTimesOut,
                  OrphanEnds
    <3>4. ASSUME NEW i \in Item, Recorded(i) PROVE FALSE
      BY <3>4 DEF Recorded, RecordThenWalk, RecordThenRetry, RecordThenNotify, RecordThenWait,
                  RecordThenClose, RecordThenThrow, Settle
    <3> QED BY <3>1, <3>2, <3>3, <3>4 DEF Next, WaitEnds
  <2>2. At(i, "waiting") /\ branch' = [branch EXCEPT ![i] = [branch[i] EXCEPT !.pc = "thenWalk"]]
    BY <2>1 DEF ReceiveSignal, MoveTo
  <2>3. [branch[i] EXCEPT !.pc = "thenWalk"].pc = "thenWalk"
    BY BranchType
  <2>4. branch'[i].pc = "thenWalk" /\ \A j \in Item \ {i} : branch'[j] = branch[j]
    BY <2>2, <2>3 DEF IInv, Shape
  <2> QED BY <2>2, <2>4
<1> QED BY <1>1, Invariance, PTL DEF Spec, OneDeliveryOneLiveConsumer
=============================================================================
