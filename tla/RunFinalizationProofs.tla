----------------------- MODULE RunFinalizationProofs -----------------------
(***************************************************************************)
(* What holds of RunFinalization for any number of attempts, sweeps and    *)
(* cancel requests.  The safety properties need each other: one bill       *)
(* because a call that is past its write leaves the run ended, one count   *)
(* because a row the route moved is only ever ended by the second write.   *)
(* IInv joins them with what every call and request knows at its step.     *)
(***************************************************************************)
EXTENDS RunFinalization, TLAPS

CallRecord == [pc : CallPc, status : RunStatus \cup {"none"}, cost : 0..MaxSpend,
               found : {"none", "ended", "cancelled"}]

\* The well-formedness the other parts rest on.
Shape ==
  /\ phase \in {"setup", "running", "finalizing", "closed"}
  /\ closeStatus \in CloseStatus \cup {"none"}
  /\ verdict \in RunStatus \cup {"none"}
  /\ cancelAsked \in BOOLEAN /\ ended \in BOOLEAN
  /\ activity \subseteq {"llm", "domain"}
  /\ runStatus \in RunStatus \cup {"RUNNING"}
  /\ runCost \in 0..MaxSpend /\ spent \in 0..MaxSpend
  /\ ledgerStatus \in Terminal \cup {"active"}
  /\ counted \in Nat
  /\ call \in [Call -> CallRecord]
  /\ cancel \in [Canceller -> CancelPc]

\* The row and the execution: what is not ended is in flight or cancelled, and
\* an execution that returned normally has ended its run.
Ends ==
  /\ ~ended => runStatus \in {"RUNNING", "CANCELLED"}
  /\ ended => runStatus # "RUNNING"
  /\ phase = "closed" <=> closeStatus # "none"
  /\ closeStatus = "COMPLETED" => ended
  /\ phase \in {"setup", "running"} => verdict = "none"
  /\ phase = "finalizing" => verdict # "none"

Writing(c) == call[c].pc \in {"read", "first", "second"}

\* What a call brings to its write, and what it may rely on after it.
Calls ==
  /\ \A c \in Call : Writing(c) => call[c].status \in RunStatus
  /\ \A c \in Worker : Writing(c) => call[c].status = verdict
  /\ \A c \in Sweep : Writing(c) => phase = "closed" /\ (call[c].status = "SUCCESS" => ended)
  /\ \A c \in Call : call[c].pc = "second" => ended \/ runStatus = "CANCELLED"
  /\ \A c \in Call : call[c].pc \in {"after", "done"} => ended
  /\ \A c \in Call : call[c].pc = "after" => call[c].status = runStatus /\ notices = <<>>
  /\ \A c \in Call : call[c].pc = "after" /\ call[c].found = "ended" => counted = 0
  /\ \A c, d \in Call : call[c].pc = "after" /\ call[d].pc = "after" => c = d

\* Who may have moved the row to CANCELLED.
Stops ==
  /\ CancelledIsStopped
  /\ verdict = "CANCELLED" => cancelAsked
  /\ \A k \in Canceller : cancel[k] = "asked" => cancelAsked \/ phase = "closed"
  /\ \A k \in Canceller : cancel[k] \in {"ledger", "ok"} => runStatus = "CANCELLED"

IInv == /\ Shape /\ Ends /\ Calls /\ Stops
        /\ BilledExactlyOnce /\ ReportedAtMostOnce /\ SuccessIsEarned

LEMMA InitIInv == Init => IInv
<1> SUFFICES ASSUME Init PROVE IInv
  OBVIOUS
<1>1. NoCall \in CallRecord
  BY SpendAssumption DEF NoCall, CallRecord, CallPc
<1>2. Shape
  <2>1. 0 \in 0..MaxSpend
    BY SpendAssumption
  <2>2. call \in [Call -> CallRecord] /\ cancel \in [Canceller -> CancelPc]
    BY <1>1 DEF Init, CancelPc
  <2>3. QED BY <2>1, <2>2 DEF Init, Shape
<1>3. Ends /\ Stops
  BY DEF Init, Ends, Stops, CancelledIsStopped
<1>6. Calls
  <2>1. \A c \in Call : call[c].pc = "idle"
    BY DEF Init, NoCall
  <2>2. QED BY <2>1 DEF Calls, Writing, Call
<1>4. BilledExactlyOnce /\ ReportedAtMostOnce /\ SuccessIsEarned
  BY DEF Init, BilledExactlyOnce, ReportedAtMostOnce, SuccessIsEarned
<1>5. QED BY <1>2, <1>3, <1>4, <1>6 DEF IInv

\* The execution moves on: nothing of the rows the calls write changes.
LEMMA ExecutionStep ==
  ASSUME IInv, Execution PROVE IInv'
<1> USE DEF RowVars, runVars, billVars, noteVars
<1>1. UNCHANGED <<runVars, billVars, noteVars, call, cancel, cancelAsked, spent, activity>>
  BY DEF Execution, SetupDone, SetupExits, SpecEnds, WorkflowReturns, FinalizeExhausted,
         Killed, Forgotten, Close
<1>2. Shape'
  <2>1. /\ phase' \in {"setup", "running", "finalizing", "closed"}
        /\ closeStatus' \in CloseStatus \cup {"none"}
    BY DEF IInv, Shape, Execution, SetupDone, SetupExits, SpecEnds, WorkflowReturns,
           FinalizeExhausted, Killed, Forgotten, Close, ClosesAs, CloseStatus
  <2>2. verdict' \in RunStatus \cup {"none"} /\ ledgerStatus' \in Terminal \cup {"active"}
    BY OutcomeAssumption
       DEF IInv, Shape, Execution, SetupDone, SetupExits, SpecEnds, WorkflowReturns,
           FinalizeExhausted, Killed, Forgotten, Close, RunStatus, Terminal
  <2>3. QED BY <1>1, <2>1, <2>2 DEF IInv, Shape
<1>3. IF phase = "running" /\ phase' = "finalizing"
      THEN verdict' # "none" /\ (verdict' = "CANCELLED" => cancelAsked)
      ELSE UNCHANGED verdict
  BY OutcomeAssumption
     DEF Execution, SetupDone, SetupExits, SpecEnds, WorkflowReturns, FinalizeExhausted,
         Killed, Forgotten, Close, RunStatus
<1>4. Ends'
  <2>1. ended \/ closeStatus' # "COMPLETED"
    BY CallAssumption
       DEF IInv, Ends, Calls, Call, Execution, SetupDone, SetupExits, SpecEnds, WorkflowReturns,
           FinalizeExhausted, Killed, Forgotten, Close
  <2>2. phase' = "closed" <=> closeStatus' # "none"
    <3>1. \A s \in ClosesAs(verdict) : s # "none"
      BY DEF ClosesAs
    <3>2. QED
      BY <3>1 DEF IInv, Ends, Execution, SetupDone, SetupExits, SpecEnds, WorkflowReturns,
                  FinalizeExhausted, Killed, Forgotten, Close
  <2>3. /\ phase' \in {"setup", "running"} => verdict' = "none"
        /\ phase' = "finalizing" => verdict' # "none"
    BY <1>3 DEF IInv, Ends, Execution, SetupDone, SetupExits, SpecEnds, WorkflowReturns,
                FinalizeExhausted, Killed, Forgotten, Close
  <2>4. QED BY <1>1, <2>1, <2>2, <2>3 DEF IInv, Ends
<1>5. phase = "closed" => phase' = "closed"
  BY DEF Execution, SetupDone, SetupExits, SpecEnds, WorkflowReturns, FinalizeExhausted,
         Killed, Forgotten, Close
<1>6. Calls'
  <2>1. \A c \in Worker : Writing(c) => verdict' = verdict
    BY <1>3 DEF IInv, Ends, Calls, Call, RunStatus
  <2>2. QED BY <1>1, <1>5, <2>1 DEF IInv, Calls, Writing
<1>7. Stops'
  BY <1>1, <1>3, <1>5 DEF IInv, Stops, CancelledIsStopped
<1>8. (BilledExactlyOnce /\ ReportedAtMostOnce)'
  BY <1>1 DEF IInv, BilledExactlyOnce, ReportedAtMostOnce
<1>9. SuccessIsEarned'
  BY <1>1, <1>3 DEF IInv, SuccessIsEarned, Ends
<1>10. QED BY <1>2, <1>4, <1>6, <1>7, <1>8, <1>9 DEF IInv

\* Activities, and a launch that closes a ledger row, touch the ledger only.
LEMMA BackgroundStep ==
  ASSUME IInv, Background \/ CloseRows PROVE IInv'
<1> USE DEF RowVars, runVars, billVars, noteVars, execVars
<1>1. UNCHANGED <<execVars, runVars, billVars, noteVars, call, cancel>>
  BY DEF Background, StartActivity, RecordUsage, DomainWrite, ActivityEnds, CloseRows
<1>2. /\ activity' \subseteq {"llm", "domain"}
      /\ ledgerStatus' \in Terminal \cup {"active"}
  BY DEF IInv, Shape, Background, StartActivity, RecordUsage, DomainWrite, ActivityEnds, CloseRows,
         closedLedgerStatusFor, Terminal
<1>3. spent' \in 0..MaxSpend
  BY SpendAssumption
     DEF IInv, Shape, Background, StartActivity, RecordUsage, DomainWrite, ActivityEnds, CloseRows
<1>4. Shape'
  BY <1>1, <1>2, <1>3 DEF IInv, Shape
<1>5. Ends' /\ Calls' /\ Stops'
  BY <1>1 DEF IInv, Ends, Calls, Stops, Writing, CancelledIsStopped
<1>6. (BilledExactlyOnce /\ ReportedAtMostOnce /\ SuccessIsEarned)'
  BY <1>1 DEF IInv, BilledExactlyOnce, ReportedAtMostOnce, SuccessIsEarned
<1>7. QED BY <1>4, <1>5, <1>6 DEF IInv

\* A call moves without touching a row: it starts, reads, misses, or is over.
LEMMA MoveStep ==
  ASSUME IInv, Untouched, NEW c \in Call, NEW r \in CallRecord,
         call' = [call EXCEPT ![c] = r],
         r.pc \in {"read", "first", "second"} =>
           /\ r.status \in RunStatus
           /\ c \in Worker => r.status = verdict
           /\ c \in Sweep => phase = "closed" /\ (r.status = "SUCCESS" => ended),
         r.pc = "second" => ended \/ runStatus = "CANCELLED",
         r.pc = "done" => ended,
         r.pc # "after"
  PROVE  IInv'
<1> USE DEF Untouched, ShareVars, execVars, runVars, billVars, noteVars
<1>1. Shape'
  BY DEF IInv, Shape
<1>2. call'[c] = r /\ \A d \in Call \ {c} : call'[d] = call[d]
  BY DEF IInv, Shape
<1>3. Calls'
  BY <1>2 DEF IInv, Calls, Writing, Call
<1>4. Ends' /\ Stops'
  BY DEF IInv, Ends, Stops, CancelledIsStopped
<1>5. (BilledExactlyOnce /\ ReportedAtMostOnce /\ SuccessIsEarned)'
  BY DEF IInv, BilledExactlyOnce, ReportedAtMostOnce, SuccessIsEarned
<1>6. QED BY <1>1, <1>3, <1>4, <1>5 DEF IInv

LEMMA RecordType == ASSUME IInv, NEW c \in Call PROVE call[c] \in CallRecord
  BY DEF IInv, Shape

\* A call leaves, having found the run ended or having stopped on the way.
LEMMA LeaveStep ==
  ASSUME IInv, Untouched, NEW c \in Call, NEW pc \in {"done", "failed"}, Leave(c, pc),
         pc = "done" /\ c \in Worker => ended
  PROVE  IInv'
<1> DEFINE r == IF c \in Worker THEN [call[c] EXCEPT !.pc = pc] ELSE NoCall
<1>1. call' = [call EXCEPT ![c] = r]
  BY DEF Leave
<1>2. NoCall \in CallRecord /\ NoCall.pc = "idle"
  <2>1. 0 \in 0..MaxSpend
    BY SpendAssumption
  <2>2. QED BY <2>1 DEF NoCall, CallRecord, CallPc
<1>3. r \in CallRecord /\ r.pc \in {"idle", "done", "failed"} /\ (r.pc = "done" => ended)
  <2>1. CASE c \in Worker
    BY <2>1, RecordType DEF CallRecord, CallPc
  <2>2. CASE c \notin Worker
    BY <2>2, <1>2
  <2>3. QED BY <2>1, <2>2
<1> HIDE DEF r
<1>4. QED BY <1>1, <1>3, MoveStep

LEMMA BeginStep ==
  ASSUME IInv, NEW w \in Worker, StartAttempt(w) PROVE IInv'
<1> DEFINE r == [call[w] EXCEPT !.pc = "read", !.status = verdict]
<1>1. w \in Call /\ w \notin Sweep
  BY CallAssumption DEF Call
<1>2. call' = [call EXCEPT ![w] = r] /\ Untouched
  BY <1>1 DEF StartAttempt, IInv, Shape
<1>3. verdict \in RunStatus
  BY DEF StartAttempt, IInv, Shape, Ends
<1>4. r \in CallRecord /\ r.pc = "read" /\ r.status = verdict
  BY <1>1, <1>3, RecordType DEF CallRecord, CallPc
<1> HIDE DEF r
<1>5. QED BY <1>1, <1>2, <1>3, <1>4, MoveStep

LEMMA SweepStep ==
  ASSUME IInv, NEW s \in Sweep, SweepLists(s) \/ SweepAsks(s) PROVE IInv'
<1>1. s \in Call /\ s \notin Worker
  BY CallAssumption DEF Call
<1>2. CASE SweepLists(s)
  <2> DEFINE r == [call[s] EXCEPT !.pc = "ask"]
  <2>1. call' = [call EXCEPT ![s] = r] /\ Untouched
    BY <1>2, <1>1 DEF SweepLists, Goto, IInv, Shape
  <2>2. r \in CallRecord /\ r.pc = "ask"
    BY <1>1, RecordType DEF CallRecord, CallPc
  <2> HIDE DEF r
  <2>3. QED BY <1>1, <2>1, <2>2, MoveStep
<1>3. CASE SweepAsks(s) /\ phase = "closed"
  <2> DEFINE r == [call[s] EXCEPT !.pc = "read", !.status = reapedStatusFor(closeStatus)]
  <2>1. call' = [call EXCEPT ![s] = r] /\ Untouched
    BY <1>3, <1>1 DEF SweepAsks, IInv, Shape
  <2>2. /\ reapedStatusFor(closeStatus) \in RunStatus
        /\ reapedStatusFor(closeStatus) = "SUCCESS" => closeStatus = "COMPLETED"
    BY DEF reapedStatusFor, RunStatus
  <2>3. r \in CallRecord /\ r.pc = "read" /\ r.status = reapedStatusFor(closeStatus)
    BY <1>1, <2>2, RecordType DEF CallRecord, CallPc
  <2>4. closeStatus = "COMPLETED" => ended
    BY DEF IInv, Ends
  <2> HIDE DEF r
  <2>5. QED BY <1>1, <1>3, <2>1, <2>2, <2>3, <2>4, MoveStep
<1>4. CASE SweepAsks(s) /\ phase # "closed"
  BY <1>1, <1>4, LeaveStep DEF SweepAsks
<1>5. QED BY <1>2, <1>3, <1>4

LEMMA ReadStep ==
  ASSUME IInv, NEW c \in Call, FinalizeReads(c) PROVE IInv'
<1>1. CASE ended
  BY <1>1, LeaveStep DEF FinalizeReads
<1>2. CASE ~ended
  <2> DEFINE r == [call[c] EXCEPT !.pc = "first", !.cost = spent]
  <2>1. call' = [call EXCEPT ![c] = r] /\ Untouched
    BY <1>2 DEF FinalizeReads, IInv, Shape
  <2>2. spent \in 0..MaxSpend
    BY DEF IInv, Shape
  <2>3. r \in CallRecord /\ r.pc = "first" /\ r.status = call[c].status
    BY <2>2, RecordType DEF CallRecord, CallPc
  <2>4. /\ call[c].status \in RunStatus
        /\ c \in Worker => call[c].status = verdict
        /\ c \in Sweep => phase = "closed" /\ (call[c].status = "SUCCESS" => ended)
    BY DEF FinalizeReads, IInv, Calls, Writing
  <2> HIDE DEF r
  <2>5. QED BY <2>1, <2>3, <2>4, MoveStep
<1>3. QED BY <1>1, <1>2

\* The terminal transaction: nothing was billed before, and s is what the call
\* was entitled to write.
LEMMA CommitStep ==
  ASSUME IInv, NEW c \in Call, NEW how \in {"ended", "cancelled"}, NEW s \in RunStatus,
         Commit(c, how, s), ~ended, call[c].pc \in {"first", "second"},
         s = "SUCCESS" => verdict = "SUCCESS",
         s = "CANCELLED" => cancelAsked \/ phase = "closed",
         runStatus = "CANCELLED" => s = "CANCELLED",
         how = "ended" => runStatus = "RUNNING"
  PROVE  IInv'
<1> USE DEF Commit, ShareVars, noteVars
<1> DEFINE r == [call[c] EXCEPT !.pc = "after", !.status = s, !.found = how]
<1>1. call' = [call EXCEPT ![c] = r]
  BY DEF IInv, Shape
<1>2. r \in CallRecord /\ r.pc = "after" /\ r.status = s /\ r.found = how
  BY RecordType DEF CallRecord, CallPc
<1> HIDE DEF r
<1>3. call' \in [Call -> CallRecord] /\ call'[c] = r /\ \A d \in Call \ {c} : call'[d] = call[d]
  <2> HIDE DEF Commit
  <2>1. call \in [Call -> CallRecord]
    BY DEF IInv, Shape
  <2>2. QED BY <1>1, <1>2, <2>1
<1>4. Shape'
  <2>1. call[c].cost \in 0..MaxSpend
    BY RecordType DEF CallRecord
  <2>2. ledgerStatus' \in Terminal
    BY DEF LedgerFor, RunStatus, Terminal
  <2>3. UNCHANGED <<phase, closeStatus, verdict, cancelAsked, activity, spent, counted, cancel>>
    BY DEF execVars
  <2>4. QED BY <1>3, <2>1, <2>2, <2>3 DEF IInv, Shape
<1>5. UNCHANGED <<execVars, cancel, counted, notices>> /\ ended' /\ runStatus' = s
  OBVIOUS
<1>6. Ends'
  BY <1>5 DEF IInv, Ends, execVars, RunStatus
<1>7. \A d \in Call : call[d].pc \notin {"after", "done"}
  BY DEF IInv, Calls
<1>8. notices = <<>> /\ (runStatus = "RUNNING" => counted = 0) /\ counted <= 1
  BY DEF IInv, ReportedAtMostOnce, Shape
<1>9. Calls'
  <2>1. \A d \in Call : Writing(d)' => d # c /\ Writing(d)
    BY <1>2, <1>3 DEF Writing
  <2>2. \A d \in Call : call'[d].pc \in {"after", "done"} => d = c
    BY <1>3, <1>7
  <2>3. QED BY <1>2, <1>3, <1>5, <1>8, <2>1, <2>2 DEF IInv, Calls, Call, execVars
<1>10. Stops'
  BY <1>5 DEF IInv, Stops, CancelledIsStopped, execVars
<1>11. BilledExactlyOnce'
  <2>1. billed = 0 /\ completed = 0 /\ outbox = <<>>
    BY DEF IInv, BilledExactlyOnce
  <2>2. call[c].cost \in Nat
    BY RecordType, SpendAssumption DEF CallRecord
  <2>3. Append(<<>>, s) = <<s>>
    OBVIOUS
  <2>4. QED BY <2>1, <2>2, <2>3 DEF BilledExactlyOnce
<1>12. ReportedAtMostOnce'
  BY <1>5, <1>8 DEF ReportedAtMostOnce, RunStatus
<1>13. SuccessIsEarned'
  BY <1>5 DEF SuccessIsEarned, execVars
<1>14. QED BY <1>4, <1>6, <1>9, <1>10, <1>11, <1>12, <1>13 DEF IInv

LEMMA WriteStep ==
  ASSUME IInv, NEW c \in Call, FirstWrite(c) \/ SecondWrite(c) PROVE IInv'
<1>1. Writing(c) => /\ call[c].status \in RunStatus
                    /\ ~ended /\ call[c].status = "SUCCESS" => verdict = "SUCCESS"
                    /\ ~ended /\ call[c].status = "CANCELLED" => cancelAsked \/ phase = "closed"
  BY DEF IInv, Calls, Stops, Call
<1>2. CASE FirstWrite(c) /\ ~ended /\ runStatus # "CANCELLED"
  <2>1. Commit(c, "ended", call[c].status) /\ call[c].pc = "first" /\ Writing(c)
    BY <1>2 DEF FirstWrite, Writing
  <2>2. runStatus = "RUNNING"
    BY <1>2 DEF IInv, Ends
  <2>3. QED BY <1>1, <1>2, <2>1, <2>2, CommitStep
<1>3. CASE FirstWrite(c) /\ ~(~ended /\ runStatus # "CANCELLED")
  <2> DEFINE r == [call[c] EXCEPT !.pc = "second"]
  <2>1. call' = [call EXCEPT ![c] = r] /\ Untouched /\ Writing(c)
    BY <1>3 DEF FirstWrite, Goto, Writing, IInv, Shape
  <2>2. r \in CallRecord /\ r.pc = "second" /\ r.status = call[c].status
    BY RecordType DEF CallRecord, CallPc
  <2>3. /\ c \in Worker => call[c].status = verdict
        /\ c \in Sweep => phase = "closed" /\ (call[c].status = "SUCCESS" => ended)
    BY <2>1 DEF IInv, Calls
  <2>4. ended \/ runStatus = "CANCELLED"
    BY <1>3 DEF IInv, Shape
  <2> HIDE DEF r
  <2>5. QED BY <1>1, <2>1, <2>2, <2>3, <2>4, MoveStep
<1>4. CASE SecondWrite(c) /\ ~ended /\ runStatus = "CANCELLED"
  <2>1. Commit(c, "cancelled", "CANCELLED") /\ call[c].pc = "second"
    BY <1>4 DEF SecondWrite
  <2>2. cancelAsked \/ phase = "closed"
    BY <1>4 DEF IInv, Stops, CancelledIsStopped
  <2>3. QED BY <1>4, <2>1, <2>2, CommitStep DEF RunStatus
<1>5. CASE SecondWrite(c) /\ ~(~ended /\ runStatus = "CANCELLED")
  <2>1. Leave(c, "done") /\ Untouched
    BY <1>5 DEF SecondWrite
  <2>2. ended
    BY <1>5 DEF SecondWrite, IInv, Calls, Shape
  <2>3. QED BY <2>1, <2>2, LeaveStep
<1>6. QED BY <1>2, <1>3, <1>4, <1>5

LEMMA ReportStep ==
  ASSUME IInv, NEW c \in Call, Report(c) PROVE IInv'
<1> USE DEF ShareVars, execVars, runVars, billVars
<1> DEFINE r == IF c \in Worker THEN [call[c] EXCEPT !.pc = "done"] ELSE NoCall
<1>1. call' = [call EXCEPT ![c] = r]
  BY DEF Report, Leave
<1>2. r \in CallRecord /\ r.pc \in {"idle", "done"}
  <2>1. 0 \in 0..MaxSpend
    BY SpendAssumption
  <2>2. NoCall \in CallRecord /\ NoCall.pc = "idle"
    BY <2>1 DEF NoCall, CallRecord, CallPc
  <2>3. QED BY <2>2, RecordType DEF CallRecord, CallPc
<1> HIDE DEF r
<1>3. call' \in [Call -> CallRecord] /\ call'[c] = r /\ \A d \in Call \ {c} : call'[d] = call[d]
  <2>1. call \in [Call -> CallRecord]
    BY DEF IInv, Shape
  <2>2. QED BY <1>1, <1>2, <2>1
<1>4. UNCHANGED <<execVars, activity, spent, cancel, runVars, ledgerStatus, billVars>>
  BY DEF Report
<1>5. /\ ended /\ notices = <<>> /\ call[c].status = runStatus
      /\ call[c].found = "ended" => counted = 0
      /\ \A d \in Call \ {c} : call[d].pc # "after"
  BY DEF Report, IInv, Calls
<1>6. counted' \in Nat /\ counted' <= 1 /\ runStatus # "RUNNING"
  BY <1>5 DEF Report, IInv, Shape, ReportedAtMostOnce, Ends
<1>7. notices' \in {<<>>, <<runStatus>>}
  BY <1>5 DEF Report
<1>8. Shape'
  BY <1>3, <1>4, <1>6 DEF IInv, Shape
<1>9. Calls'
  <2>1. \A d \in Call : Writing(d)' => d # c /\ Writing(d)
    BY <1>2, <1>3 DEF Writing
  <2>2. \A d \in Call : call'[d].pc # "after"
    BY <1>2, <1>3, <1>5
  <2>3. QED BY <1>2, <1>3, <1>4, <1>5, <2>1, <2>2 DEF IInv, Calls, Call
<1>10. Ends' /\ Stops'
  BY <1>4 DEF IInv, Ends, Stops, CancelledIsStopped
<1>11. BilledExactlyOnce' /\ SuccessIsEarned'
  BY <1>4 DEF IInv, BilledExactlyOnce, SuccessIsEarned
<1>12. ReportedAtMostOnce'
  BY <1>4, <1>5, <1>6, <1>7 DEF ReportedAtMostOnce
<1>13. QED BY <1>8, <1>9, <1>10, <1>11, <1>12 DEF IInv

\* The cancel route moves a row once, from RUNNING.
LEMMA RouteStep ==
  ASSUME IInv, NEW k \in Canceller, Route(k) PROVE IInv'
<1> USE DEF RouteVars, CancelGoto
<1>1. UNCHANGED RouteVars
  BY DEF Route, CancelChecks, CancelAsks, CancelWrites, CancelLedger, CancelDies
<1>2. /\ cancel' \in [Canceller -> CancelPc]
      /\ \A j \in Canceller \ {k} : cancel'[j] = cancel[j]
  BY DEF IInv, Shape, CancelPc, Route, CancelChecks, CancelAsks, CancelWrites, CancelLedger,
         CancelDies
<1>3. /\ cancelAsked' \in BOOLEAN
      /\ cancelAsked => cancelAsked'
      /\ cancel'[k] = "asked" => cancelAsked' \/ phase = "closed"
  BY DEF IInv, Shape, Route, CancelChecks, CancelAsks, CancelWrites, CancelLedger, CancelDies
<1>4. /\ \/ UNCHANGED <<runStatus, counted>>
         \/ /\ runStatus = "RUNNING" /\ runStatus' = "CANCELLED" /\ counted' = counted + 1
            /\ cancel[k] = "asked" /\ UNCHANGED cancelAsked
      /\ cancel'[k] \in {"ledger", "ok"} => runStatus' = "CANCELLED"
  BY DEF IInv, Shape, Stops, Route, CancelChecks, CancelAsks, CancelWrites, CancelLedger, CancelDies
<1>5. ledgerStatus' \in Terminal \cup {"active"}
  BY DEF IInv, Shape, Route, CancelChecks, CancelAsks, CancelWrites, CancelLedger, CancelDies,
         Terminal
<1>6. runStatus = "RUNNING" => counted = 0
  BY DEF IInv, Shape, ReportedAtMostOnce
<1>7. Shape'
  BY <1>1, <1>2, <1>3, <1>4, <1>5 DEF IInv, Shape, RunStatus
<1>8. runStatus = "RUNNING" => ~ended /\ \A c \in Call : call[c].pc # "after"
  BY DEF IInv, Ends, Calls
<1>9. Ends'
  BY <1>1, <1>4, <1>8 DEF IInv, Ends
<1>10. Calls'
  BY <1>1, <1>4, <1>8 DEF IInv, Calls, Writing
<1>11. Stops'
  BY <1>1, <1>2, <1>3, <1>4 DEF IInv, Stops, CancelledIsStopped
<1>12. BilledExactlyOnce'
  BY <1>1, <1>4, <1>8 DEF IInv, BilledExactlyOnce, billVars
<1>13. ReportedAtMostOnce'
  BY <1>1, <1>4, <1>6, <1>8 DEF IInv, ReportedAtMostOnce
<1>14. SuccessIsEarned'
  BY <1>1, <1>4 DEF IInv, SuccessIsEarned
<1>15. QED BY <1>7, <1>9, <1>10, <1>11, <1>12, <1>13, <1>14 DEF IInv

LEMMA DieStep ==
  ASSUME IInv, NEW c \in Call, CallDies(c) PROVE IInv'
  BY LeaveStep DEF CallDies

LEMMA Inductive == IInv /\ [Next]_vars => IInv'
<1> SUFFICES ASSUME IInv, [Next]_vars PROVE IInv'
  OBVIOUS
<1>1. CASE Execution
  BY <1>1, ExecutionStep
<1>2. CASE Background \/ CloseRows
  BY <1>2, BackgroundStep
<1>3. CASE \E w \in Worker : StartAttempt(w)
  BY <1>3, BeginStep
<1>4. CASE \E s \in Sweep : SweepLists(s) \/ SweepAsks(s)
  BY <1>4, SweepStep
<1>5. CASE \E c \in Call : Finalize(c)
  BY <1>5, ReadStep, WriteStep, ReportStep, DieStep DEF Finalize
<1>6. CASE \E k \in Canceller : Route(k)
  BY <1>6, RouteStep
<1>7. CASE UNCHANGED vars
  BY <1>7 DEF vars, execVars, runVars, billVars, noteVars, IInv, Shape, Ends, Calls, Writing, Stops,
              CancelledIsStopped, BilledExactlyOnce, ReportedAtMostOnce, SuccessIsEarned
<1>8. QED BY <1>1, <1>2, <1>3, <1>4, <1>5, <1>6, <1>7 DEF Next

\* The invariant holds in every reachable state.
THEOREM Invariance == Spec => []IInv
  BY InitIInv, Inductive, PTL DEF Spec

\* The state keeps its types: the money billed, the counters and the outbox are
\* what the run's end says they are.
THEOREM TypeCorrect == Spec => []TypeOK
<1>1. ASSUME IInv PROVE TypeOK
  <2>1. /\ billed \in 0..MaxSpend /\ completed \in 0..1 /\ counted \in 0..1
    BY <1>1, SpendAssumption DEF IInv, Shape, BilledExactlyOnce, ReportedAtMostOnce
  <2>2. ended => runStatus \in RunStatus
    BY <1>1 DEF IInv, Shape, Ends
  <2>3. <<>> \in Seq(RunStatus) /\ (ended => <<runStatus>> \in Seq(RunStatus))
    BY <2>2
  <2>4. outbox = <<>> \/ (ended /\ outbox = <<runStatus>>)
    BY <1>1 DEF IInv, BilledExactlyOnce
  <2>5. notices = <<>> \/ (ended /\ notices = <<runStatus>>)
    BY <1>1 DEF IInv, ReportedAtMostOnce
  <2>6. outbox \in Seq(RunStatus) /\ notices \in Seq(RunStatus)
    BY <2>3, <2>4, <2>5
  <2> QED BY <1>1, <2>1, <2>6 DEF IInv, Shape, CallRecord, TypeOK
<1> QED BY <1>1, Invariance, PTL

\* However many attempts, zombies and sweeps race with however many cancels, a
\* run is billed and its completion reported once.
THEOREM BilledExactlyOnceHolds == Spec => []BilledExactlyOnce
<1>1. IInv => BilledExactlyOnce
  BY DEF IInv
<1>2. QED BY <1>1, Invariance, PTL

\* The counter and the notices see each run at most once.
THEOREM ReportedAtMostOnceHolds == Spec => []ReportedAtMostOnce
<1>1. IInv => ReportedAtMostOnce
  BY DEF IInv
<1>2. QED BY <1>1, Invariance, PTL

\* endWorkflowRun needs no third write: an attempt that returned ended the run.
THEOREM ReturnedMeansEndedHolds == Spec => []ReturnedMeansEnded
<1>1. IInv => ReturnedMeansEnded
  BY DEF IInv, Calls, Call, ReturnedMeansEnded
<1>2. QED BY <1>1, Invariance, PTL

\* No run shows CANCELLED over an execution that was not told to stop.
THEOREM CancelledIsStoppedHolds == Spec => []CancelledIsStopped
<1>1. IInv => CancelledIsStopped
  BY DEF IInv, Stops
<1>2. QED BY <1>1, Invariance, PTL

\* A cancel answered with success is not undone by a finalizer.
THEOREM AcceptedCancelSticksHolds == Spec => []AcceptedCancelSticks
<1>1. IInv => AcceptedCancelSticks
  BY DEF IInv, Stops, AcceptedCancelSticks
<1>2. QED BY <1>1, Invariance, PTL

\* The reaper invents no successes.
THEOREM SuccessIsEarnedHolds == Spec => []SuccessIsEarned
<1>1. IInv => SuccessIsEarned
  BY DEF IInv
<1>2. QED BY <1>1, Invariance, PTL

\* No late attempt, sweep or cancel rewrites how a run ended (the guards of
\* endWorkflowRun's two writes and of the cancel route's).
THEOREM EndingIsFinalHolds == Spec => EndingIsFinal
<1> DEFINE Keeps == /\ runStatus # "RUNNING" => runStatus' = runStatus
                    /\ ended => ended' /\ runCost' = runCost
<1>1. IInv /\ [Next]_vars => [Keeps]_runVars
  <2> SUFFICES ASSUME IInv, Next PROVE Keeps \/ UNCHANGED runVars
    BY DEF vars, runVars
  <2>1. CASE Execution
    BY <2>1 DEF Execution, SetupDone, SetupExits, SpecEnds, WorkflowReturns,
                FinalizeExhausted, Killed, Forgotten, RowVars
  <2>2. CASE Background \/ CloseRows
    BY <2>2 DEF Background, StartActivity, RecordUsage, DomainWrite, ActivityEnds,
                CloseRows, RowVars
  <2>3. CASE \E w \in Worker : StartAttempt(w)
    BY <2>3 DEF StartAttempt, Untouched
  <2>4. CASE \E s \in Sweep : SweepLists(s) \/ SweepAsks(s)
    BY <2>4 DEF SweepLists, SweepAsks, Untouched
  <2>5. ASSUME NEW c \in Call, Finalize(c) PROVE Keeps \/ UNCHANGED runVars
    <3>1. CASE FinalizeReads(c) \/ CallDies(c)
      BY <3>1 DEF FinalizeReads, CallDies, Untouched
    <3>2. CASE Report(c)
      BY <3>2 DEF Report
    <3>3. CASE FirstWrite(c)
      <4>1. CASE ~ended /\ runStatus # "CANCELLED"
        <5>1. runStatus = "RUNNING"
          BY <4>1 DEF IInv, Ends
        <5> QED BY <5>1, <4>1
      <4>2. CASE ~(~ended /\ runStatus # "CANCELLED")
        BY <3>3, <4>2 DEF FirstWrite, Untouched
      <4> QED BY <4>1, <4>2
    <3>4. CASE SecondWrite(c)
      BY <3>4 DEF SecondWrite, Commit, Untouched
    <3> QED BY <2>5, <3>1, <3>2, <3>3, <3>4 DEF Finalize
  <2>6. ASSUME NEW k \in Canceller, Route(k) PROVE Keeps \/ UNCHANGED runVars
    BY <2>6 DEF Route, CancelChecks, CancelAsks, CancelWrites, CancelLedger, CancelDies,
                RouteVars, runVars
  <2> QED BY <2>1, <2>2, <2>3, <2>4, <2>5, <2>6 DEF Next
<1> QED BY <1>1, Invariance, PTL DEF Spec, EndingIsFinal
-----------------------------------------------------------------------------
(* When what a run spends while it stops is billed.                        *)

\* What the workflow does not do and is assumed here: before it finalizes, it waits
\* for the model calls it abandoned.
WaitsForSpending == phase = "running" /\ phase' = "finalizing" => "llm" \notin activity

\* Nobody finalizes before the workflow reported or closed; from its report on
\* nothing is spent, so what any call read, and what the run was ended with, is all.
AllSpent ==
  /\ phase \in {"setup", "running"} => ~ended
  /\ verdict # "none" =>
       /\ "llm" \notin activity
       /\ \A c \in Call : call[c].pc \in {"first", "second"} => call[c].cost = spent
       /\ ended => runCost = spent

\* A call that is about to write does so for a workflow that reported or closed.
LEMMA WritersAreLate ==
  ASSUME IInv, phase \in {"setup", "running"}, NEW c \in Call
  PROVE  ~Writing(c)
<1>1. CASE c \in Sweep
  BY <1>1 DEF IInv, Calls
<1>2. CASE c \in Worker
  BY <1>2 DEF IInv, Calls, Ends, RunStatus
<1>3. QED BY <1>1, <1>2 DEF Call

\* The steps that neither report, nor spend, nor end the run, nor bring a cost.
LEMMA SpendingKept ==
  ASSUME AllSpent, UNCHANGED <<verdict, spent, ended, runCost>>,
         phase' \in {"setup", "running"} => phase \in {"setup", "running"},
         activity' \subseteq activity \/ verdict = "none",
         \A c \in Call : call'[c].pc \in {"first", "second"} =>
           \/ call[c].pc \in {"first", "second"} /\ call'[c].cost = call[c].cost
           \/ call'[c].cost = spent
  PROVE  AllSpent'
BY DEF AllSpent

LEMMA SpendingStep == IInv /\ AllSpent /\ [Next]_vars /\ [WaitsForSpending]_vars => AllSpent'
<1> SUFFICES ASSUME IInv, AllSpent, [Next]_vars, WaitsForSpending \/ UNCHANGED vars
             PROVE  AllSpent'
  OBVIOUS
<1> USE DEF RowVars, runVars, execVars, ShareVars, RouteVars, Untouched
<1>1. CASE Execution
  <2>1. UNCHANGED <<activity, spent, ended, runCost, call>>
    BY <1>1 DEF Execution, SetupDone, SetupExits, SpecEnds, WorkflowReturns, FinalizeExhausted,
                Killed, Forgotten, Close
  <2>2. CASE SpecEnds
    <3>1. /\ phase = "running" /\ phase' = "finalizing" /\ "llm" \notin activity
      BY <2>2 DEF SpecEnds, WaitsForSpending, vars
    <3>2. ~ended /\ \A c \in Call : call[c].pc \notin {"first", "second"}
      BY <3>1, WritersAreLate DEF AllSpent, Writing
    <3>3. QED BY <2>1, <3>1, <3>2 DEF AllSpent
  <2>3. CASE ~SpecEnds
    <3>1. /\ UNCHANGED verdict
          /\ phase' \in {"setup", "running"} => phase \in {"setup", "running"}
      BY <1>1, <2>3 DEF Execution, SetupDone, SetupExits, WorkflowReturns, FinalizeExhausted,
                        Killed, Forgotten, Close
    <3>2. QED BY <2>1, <3>1, SpendingKept
  <2>4. QED BY <2>2, <2>3
<1>2. CASE Background \/ CloseRows
  <2>1. UNCHANGED <<phase, verdict, ended, runCost, call>>
    BY <1>2 DEF Background, StartActivity, RecordUsage, DomainWrite, ActivityEnds, CloseRows
  <2>2. CASE RecordUsage
    BY <2>1, <2>2 DEF RecordUsage, AllSpent
  <2>3. CASE ~RecordUsage
    <3>1. UNCHANGED spent /\ (activity' \subseteq activity \/ phase = "running")
      BY <1>2, <2>3 DEF Background, StartActivity, DomainWrite, ActivityEnds, CloseRows
    <3>2. phase = "running" => verdict = "none"
      BY DEF IInv, Ends
    <3>3. QED BY <2>1, <3>1, <3>2, SpendingKept
  <2>4. QED BY <2>2, <2>3
<1>3. ASSUME NEW c \in Call,
             \/ c \in Worker /\ StartAttempt(c)
             \/ c \in Sweep /\ (SweepLists(c) \/ SweepAsks(c))
             \/ FinalizeReads(c) \/ Report(c) \/ CallDies(c)
      PROVE  AllSpent'
  <2>1. UNCHANGED <<phase, verdict, activity, spent, ended, runCost>>
    BY <1>3 DEF StartAttempt, SweepLists, SweepAsks, FinalizeReads, Report, CallDies, Leave, Goto
  <2>2. call[c] \in CallRecord /\ NoCall.pc = "idle" /\ call \in [Call -> CallRecord]
    BY RecordType DEF NoCall, IInv, Shape
  <2>3. \A d \in Call \ {c} : call'[d] = call[d]
    BY <1>3, <2>2 DEF StartAttempt, SweepLists, SweepAsks, FinalizeReads, Report, CallDies,
                      Leave, Goto
  <2>4. call'[c].pc \in {"first", "second"} => call'[c].cost = spent
    BY <1>3, <2>2 DEF StartAttempt, SweepLists, SweepAsks, FinalizeReads, Report, CallDies,
                      Leave, Goto, CallRecord
  <2>5. QED BY <2>1, <2>3, <2>4, SpendingKept
<1>4. ASSUME NEW c \in Call, FirstWrite(c) \/ SecondWrite(c) PROVE AllSpent'
  <2>1. /\ UNCHANGED <<phase, verdict, activity, spent>> /\ Writing(c)
        /\ call[c].pc \in {"first", "second"}
    BY <1>4 DEF FirstWrite, SecondWrite, Commit, Leave, Goto, Writing
  <2>2. phase \notin {"setup", "running"}
    BY <2>1, WritersAreLate
  <2>3. call[c] \in CallRecord /\ NoCall.pc = "idle" /\ call \in [Call -> CallRecord]
    BY RecordType DEF NoCall, IInv, Shape
  <2>4. \A d \in Call \ {c} : call'[d] = call[d]
    BY <1>4, <2>3 DEF FirstWrite, SecondWrite, Commit, Leave, Goto
  <2>5. CASE UNCHANGED <<ended, runCost>>
    <3>1. /\ call'[c].cost = call[c].cost \/ call'[c].pc \notin {"first", "second"}
      BY <1>4, <2>3 DEF FirstWrite, SecondWrite, Commit, Leave, Goto, CallRecord
    <3>2. QED BY <2>1, <2>4, <2>5, <3>1, SpendingKept
  <2>6. CASE ~UNCHANGED <<ended, runCost>>
    <3>1. runCost' = call[c].cost /\ call'[c].pc = "after"
      BY <1>4, <2>3, <2>6 DEF FirstWrite, SecondWrite, Commit, Leave, Goto, CallRecord
    <3>2. QED BY <2>1, <2>2, <2>4, <3>1 DEF AllSpent
  <2>7. QED BY <2>5, <2>6
<1>5. ASSUME NEW k \in Canceller, Route(k) PROVE AllSpent'
  <2>1. UNCHANGED <<phase, verdict, activity, spent, ended, runCost, call>>
    BY <1>5 DEF Route, CancelChecks, CancelAsks, CancelWrites, CancelLedger, CancelDies
  <2>2. QED BY <2>1, SpendingKept
<1>6. CASE UNCHANGED vars
  BY <1>6, SpendingKept DEF vars
<1>7. QED
  BY <1>1, <1>2, <1>3, <1>4, <1>5, <1>6 DEF Next, Finalize, Call

\* Spend is left unbilled only because the workflow does not wait for what it
\* abandons: if it did before it finalized, a cancelled run would be billed all that
\* it spent, whoever ends it (the activities runnable.ts abandons, the cost that
\* finalizeRun reads before its transaction).
THEOREM StoppingSpendIsBilledIfAwaited ==
  Spec /\ [][WaitsForSpending]_vars => []StoppingSpendIsBilled
<1>1. Init => AllSpent
  BY DEF Init, AllSpent
<1>2. IInv /\ AllSpent => StoppingSpendIsBilled
  BY DEF IInv, AllSpent, BilledExactlyOnce, StoppingSpendIsBilled
<1>3. QED BY <1>1, <1>2, SpendingStep, Invariance, PTL DEF Spec
=============================================================================
