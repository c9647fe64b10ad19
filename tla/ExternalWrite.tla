-------------------------- MODULE ExternalWrite --------------------------
(***************************************************************************)
(* One step of a run that writes to one connection (writeOutcome, runTool  *)
(* or mcpCallTool): the ledger of lib/externalWrite.ts, the approval gate  *)
(* and the attempts that race on both.  The interpreter passes over the    *)
(* step several times in a loop; each pass has a ledger row of its own,    *)
(* and its attempts (Temporal's retries and onFail.retry) share it.  An    *)
(* attempt Temporal gave up on keeps running beside its successor, and the *)
(* provider may act on a request nobody waits for any longer.              *)
(* A step of an attempt is one statement or one call of the provider.      *)
(***************************************************************************)
EXTENDS Naturals, Sequences

CONSTANTS Attempt,     \* attempts of the step, over all passes
          MaxPass,     \* bound: passes over the step
          MaxDecision  \* bound: decisions recorded while the step is attempted

ASSUME PassAssumption == MaxPass \in Nat
ASSUME DecisionAssumption == MaxDecision \in Nat

Pass == 1..MaxPass

VARIABLES
  decisions, \* the run's autonomyDecision rows, oldest first
  row,       \* row[p]: the workflowOutcomeReference row of pass p
  pass,      \* the pass the interpreter is at
  awaited,   \* the attempt Temporal is waiting for, if any
  told,      \* told[p]: the effect the workflow was told pass p had
  pc, of,    \* where each attempt is, and the pass it belongs to
  seen,      \* the requirement an attempt's gate has read
  sent,      \* attempts whose request left for the provider
  acted,     \* attempts whose request the provider acted upon
  held       \* history: approval has been owed ever since the attempt began

ledgerVars == <<row, told>>
attemptVars == <<pc, of, seen>>
vars == <<decisions, ledgerVars, pass, awaited, attemptVars, sent, acted, held>>

NoRow == [state |-> "none", by |-> {}]
Over == {"unborn", "over"}

TypeOK ==
  /\ decisions \in Seq({"require", "auto", "approve", "withdrawn"})
  /\ row \in [Pass -> [state : {"none", "PENDING", "DONE"}, by : SUBSET Attempt]]
  /\ pass \in 0..MaxPass /\ awaited \in SUBSET Attempt
  /\ told \in [Pass -> SUBSET Attempt]
  /\ pc \in [Attempt -> Over \cup {"find", "gate", "approval", "claim", "dispatch", "sent",
                                   "answered", "refused"}]
  /\ of \in [Attempt -> 0..MaxPass] /\ seen \in [Attempt -> Nat]
  /\ sent \in SUBSET Attempt /\ acted \in SUBSET Attempt
  /\ held \in [Attempt -> BOOLEAN]

\* Approval is owed: the latest decision that required it has no approval after it.
Owed(log) == \E i \in 1..Len(log) :
               /\ log[i] = "require"
               /\ \A j \in i..Len(log) : log[j] # "approve"

Init ==
  /\ decisions \in {<<>>, <<"require">>}
  /\ row = [p \in Pass |-> NoRow] /\ told = [p \in Pass |-> {}]
  /\ pass = 0 /\ awaited = {}
  /\ pc = [a \in Attempt |-> "unborn"] /\ of = [a \in Attempt |-> 0]
  /\ seen = [a \in Attempt |-> 0] /\ sent = {} /\ acted = {}
  /\ held = [a \in Attempt |-> FALSE]

-----------------------------------------------------------------------------
(* Decisions: other steps publish, people answer.                          *)

Decide(log) ==
  /\ decisions' = log /\ held' = [a \in Attempt |-> held[a] /\ Owed(log)]
  /\ UNCHANGED <<ledgerVars, pass, awaited, attemptVars, sent, acted>>

publishOutcome == /\ Len(decisions) < MaxDecision
                  /\ \E d \in {"require", "auto"} : Decide(Append(decisions, d))

\* The answer of any human step of the run counts.
Approve == Len(decisions) < MaxDecision /\ Decide(Append(decisions, "approve"))

\* The signal of an answer could not be delivered: its audit row is deleted.
RollBackApproval ==
  \E i \in 1..Len(decisions) :
    decisions[i] = "approve" /\ Decide([decisions EXCEPT ![i] = "withdrawn"])

-----------------------------------------------------------------------------
(* Scheduling.                                                             *)

\* An activity task starts for pass p.
Start(a, p) ==
  /\ pc[a] = "unborn" /\ awaited = {}
  /\ awaited' = {a} /\ pass' = p
  /\ pc' = [pc EXCEPT ![a] = "find"] /\ of' = [of EXCEPT ![a] = p]
  /\ held' = [held EXCEPT ![a] = Owed(decisions)]
  /\ UNCHANGED <<decisions, ledgerVars, seen, sent, acted>>

\* The interpreter reaches the step: a pass with a key of its own, whatever
\* became of the pass before.
Dispatch(a) == pass < MaxPass /\ Start(a, pass + 1)

\* Temporal's retry of the activity and onFail.retry keep the visit they retry.
Retry(a) == pass \in Pass /\ told[pass] = {} /\ Start(a, pass)

\* Temporal gives up on the attempt, whose code runs on.
TimesOut ==
  /\ awaited # {} /\ awaited' = {}
  /\ UNCHANGED <<decisions, ledgerVars, pass, attemptVars, sent, acted, held>>

-----------------------------------------------------------------------------
(* An attempt.                                                             *)

StepVars == <<decisions, pass, of, held>>

Goto(a, step) == pc' = [pc EXCEPT ![a] = step]

\* The attempt returns the effect e, or throws (e = {}); nobody hears one that
\* was given up.
End(a, e) ==
  /\ Goto(a, "over") /\ awaited' = awaited \ {a}
  /\ told' = IF a \in awaited /\ e # {} THEN [told EXCEPT ![of[a]] = e] ELSE told

\* Death of the worker, a failed query, a refusal before the claim, an error of
\* the provider: whatever is in the ledger stays.
Throws(a) ==
  /\ pc[a] \notin Over /\ End(a, {})
  /\ UNCHANGED <<StepVars, row, seen, sent, acted>>

findRecordedOutcome(a) ==
  /\ pc[a] = "find"
  /\ CASE row[of[a]].state = "DONE"    -> End(a, row[of[a]].by)
       [] row[of[a]].state = "PENDING" -> End(a, {})   \* OUTCOME_AMBIGUOUS
       [] row[of[a]].state = "none"    -> Goto(a, "gate") /\ UNCHANGED <<awaited, told>>
  /\ UNCHANGED <<StepVars, row, seen, sent, acted>>

\* r is the latest decision that required approval.
LatestRequirement(r) ==
  decisions[r] = "require" /\ \A j \in 1..Len(decisions) : j > r => decisions[j] # "require"

NothingRequired == \A i \in 1..Len(decisions) : decisions[i] # "require"

\* Variant with a bug: a later publish of any kind stands in for the requirement.
LatestPublishRequires(r) ==
  /\ decisions[r] = "require"
  /\ \A j \in 1..Len(decisions) : j > r => decisions[j] \notin {"require", "auto"}

GateReadsLatestPublish(a) ==
  /\ pc[a] = "gate"
  /\ \/ /\ \A r \in 1..Len(decisions) : ~LatestPublishRequires(r)
        /\ Goto(a, "claim") /\ UNCHANGED seen
     \/ \E r \in 1..Len(decisions) :
          LatestPublishRequires(r) /\ Goto(a, "approval") /\ seen' = [seen EXCEPT ![a] = r]
  /\ UNCHANGED <<StepVars, ledgerVars, awaited, sent, acted>>

\* assertApprovalSatisfied, its first query.
GateReads(a) ==
  /\ pc[a] = "gate"
  /\ \/ NothingRequired /\ Goto(a, "claim") /\ UNCHANGED seen
     \/ \E r \in 1..Len(decisions) :
          LatestRequirement(r) /\ Goto(a, "approval") /\ seen' = [seen EXCEPT ![a] = r]
  /\ UNCHANGED <<StepVars, ledgerVars, awaited, sent, acted>>

\* Its second query: an approval since.
GateAsks(a) ==
  /\ pc[a] = "approval"
  /\ IF \E j \in seen[a]..Len(decisions) : decisions[j] = "approve"
     THEN Goto(a, "claim") /\ UNCHANGED <<awaited, told>>
     ELSE End(a, {})                                    \* APPROVAL_REQUIRED
  /\ UNCHANGED <<StepVars, row, seen, sent, acted>>

\* Variant with a bug: the claim is an upsert.
claimByUpsert(a) ==
  /\ pc[a] = "claim"
  /\ row' = [row EXCEPT ![of[a]] = [state |-> "PENDING", by |-> {a}]]
  /\ Goto(a, "dispatch")
  /\ UNCHANGED <<StepVars, awaited, told, seen, sent, acted>>

\* The unique key lets one create through; its answer may get lost (Throws).
claimOutcome(a) ==
  /\ pc[a] = "claim"
  /\ IF row[of[a]].state = "none"
     THEN /\ row' = [row EXCEPT ![of[a]] = [state |-> "PENDING", by |-> {a}]]
          /\ Goto(a, "dispatch") /\ UNCHANGED <<awaited, told>>
     ELSE End(a, {}) /\ UNCHANGED row                   \* OUTCOME_AMBIGUOUS
  /\ UNCHANGED <<StepVars, seen, sent, acted>>

\* The connector calls the provider, or refuses first (NOT_SENT).
CallProvider(a) ==
  /\ pc[a] = "dispatch"
  /\ \/ sent' = sent \cup {a} /\ Goto(a, "sent")
     \/ UNCHANGED sent /\ Goto(a, "refused")
  /\ UNCHANGED <<StepVars, ledgerVars, awaited, seen, acted>>

\* The provider acts on a request, now or long after.
ProviderActs(a) ==
  /\ a \in sent \ acted /\ acted' = acted \cup {a}
  /\ UNCHANGED <<StepVars, ledgerVars, awaited, pc, seen, sent>>

ProviderAnswers(a) ==
  /\ pc[a] = "sent" /\ a \in acted /\ Goto(a, "answered")
  /\ UNCHANGED <<StepVars, ledgerVars, awaited, seen, sent, acted>>

\* The result is written over the row of the key; that write may fail, before
\* or after it took effect.
CompleteOutcome(a) ==
  /\ pc[a] = "answered"
  /\ row' = [row EXCEPT ![of[a]] = IF @.state = "none" THEN @ ELSE [state |-> "DONE", by |-> {a}]]
  /\ End(a, {a}) \/ End(a, {})
  /\ UNCHANGED <<StepVars, seen, sent, acted>>

\* Variant with a bug: any error of the dispatch releases the claim.
releaseOnAnyError(a) ==
  /\ pc[a] \in {"refused", "sent"}
  /\ row' = [row EXCEPT ![of[a]] = IF @.state = "PENDING" THEN NoRow ELSE @]
  /\ End(a, {})
  /\ UNCHANGED <<StepVars, seen, sent, acted>>

\* Deletes the pending row of the key, whoever wrote it.
releaseOutcome(a) ==
  /\ pc[a] = "refused"
  /\ row' = [row EXCEPT ![of[a]] = IF @.state = "PENDING" THEN NoRow ELSE @]
  /\ End(a, {})
  /\ UNCHANGED <<StepVars, seen, sent, acted>>

Next ==
  \/ publishOutcome \/ Approve \/ RollBackApproval \/ TimesOut
  \/ \E a \in Attempt :
       \/ Dispatch(a) \/ Retry(a) \/ Throws(a)
       \/ findRecordedOutcome(a) \/ GateReads(a) \/ GateAsks(a)
       \/ claimOutcome(a) \/ CallProvider(a) \/ ProviderActs(a) \/ ProviderAnswers(a)
       \/ CompleteOutcome(a) \/ releaseOutcome(a)

Spec == Init /\ [][Next]_vars

-----------------------------------------------------------------------------
(* Properties.                                                             *)

Effects == [p \in Pass |-> {a \in acted : of[a] = p}]
Once == INSTANCE EffectOnce WITH Effect <- Attempt, happened <- Effects

\* Retries, timed-out attempts that run on, lost answers and crashes give a pass
\* over the step at most one effect, and the result the workflow carries on with
\* is the one of that effect and of that pass.
ImplementsEffectOnce == Once!Spec

\* A write that began while approval was owed, and of which it has been owed ever
\* since, never reaches the provider: neither a later permissive decision nor an
\* approval of something older lets it through.
OwedApprovalHolds == \A a \in sent : ~held[a]

\* A key that is free has nothing under way: no attempt of its pass has called
\* the provider or is about to, so the next one may act.
FreeKeyIsSafe ==
  \A p \in Pass : row[p].state = "none" =>
    \A a \in Attempt : of[a] = p => pc[a] # "dispatch" /\ a \notin sent
=============================================================================
