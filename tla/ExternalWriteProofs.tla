----------------------- MODULE ExternalWriteProofs -----------------------
(***************************************************************************)
(* Proofs about the external-write ledger, for any number of attempts,     *)
(* passes and decisions: the claim has one owner and every effect has a    *)
(* claim, so the ledger implements EffectOnce; and the approval gate.      *)
(***************************************************************************)
EXTENDS ExternalWrite, TLAPS

\* Attempts that hold the claim of their pass, for good or until they release it.
Owns(a) == a \in sent \/ pc[a] \in {"dispatch", "sent", "answered", "refused"}

\* What is behind the gate.
Through(a) == Owns(a) \/ pc[a] = "claim"

\* An owner is the one named by the row of its pass.
ClaimIsOwned == \A a \in Attempt : Owns(a) => /\ row[of[a]].state # "none"
                                             /\ row[of[a]].by = {a}

\* A completed row, and a result the workflow was told, is an effect of the pass.
DoneHappened == \A p \in Pass : row[p].state = "DONE" =>
                  \E a \in acted : row[p].by = {a} /\ of[a] = p
ToldHappened == \A p \in Pass : told[p] # {} => \E a \in acted : told[p] = {a} /\ of[a] = p

Claims == ClaimIsOwned /\ DoneHappened /\ ToldHappened

\* Where an attempt can be once its request is out, and before it began.
Control ==
  /\ acted \subseteq sent
  /\ \A a \in Attempt : a \in sent => pc[a] \in {"sent", "answered", "over"}
  /\ \A a \in Attempt : pc[a] = "answered" => a \in acted
  /\ \A a \in Attempt : pc[a] # "unborn" => of[a] \in Pass

\* An attempt whose approval has been owed all along read a requirement that
\* nothing has approved, and is not through the gate.
Gate ==
  \A a \in Attempt : held[a] =>
    /\ Owed(decisions) /\ ~Through(a)
    /\ pc[a] = "approval" =>
         /\ seen[a] \in 1..Len(decisions) /\ decisions[seen[a]] = "require"
         /\ \A j \in 1..Len(decisions) : j >= seen[a] => decisions[j] # "approve"

Inv == TypeOK /\ Control /\ Claims /\ Gate

-----------------------------------------------------------------------------
\* The three parts hold initially: nothing has begun.
LEMMA InitInv == Init => Inv
<1> SUFFICES ASSUME Init PROVE Inv
  OBVIOUS
<1>1. TypeOK
  <2>1. decisions \in Seq({"require", "auto", "approve", "withdrawn"})
    <3>1. decisions = <<>> \/ decisions = <<"require">>
      BY DEF Init
    <3>2. CASE decisions = <<>>
      BY <3>2
    <3>3. CASE decisions = <<"require">>
      BY <3>3
    <3>4. QED
      BY <3>1, <3>2, <3>3
  <2>2. QED
    BY <2>1, PassAssumption DEF Init, TypeOK, NoRow, Over, Pass
<1>2. Control /\ Claims /\ Gate
  BY PassAssumption DEF Init, Control, Claims, ClaimIsOwned, DoneHappened, ToldHappened, Gate, Owns,
                        NoRow, Pass
<1>3. QED
  BY <1>1, <1>2 DEF Inv

\* What the log of decisions may become.
NextLog(log) ==
  \/ \E d \in {"require", "auto", "approve"} : log = Append(decisions, d)
  \/ \E i \in 1..Len(decisions) : /\ decisions[i] = "approve"
                                  /\ log = [decisions EXCEPT ![i] = "withdrawn"]

\* A new decision keeps the gate: what has been owed all along still lacks an
\* approval after the requirement that was read.
LEMMA DecideInv ==
  ASSUME Inv, publishOutcome \/ Approve \/ RollBackApproval
  PROVE  Inv'
<1>a. PICK log : Decide(log) /\ NextLog(log)
  BY DEF publishOutcome, Approve, RollBackApproval, NextLog
<1>e. Decide(log)
  BY <1>a
<1>b. /\ held' = [a \in Attempt |-> held[a] /\ Owed(log)]
      /\ row' = row /\ told' = told /\ pass' = pass /\ awaited' = awaited
      /\ pc' = pc /\ of' = of /\ seen' = seen /\ sent' = sent /\ acted' = acted
  BY <1>e DEF Decide, ledgerVars, attemptVars
<1>d. decisions \in Seq({"require", "auto", "approve", "withdrawn"})
  BY DEF Inv, TypeOK
<1>f. log \in Seq({"require", "auto", "approve", "withdrawn"})
  BY <1>a, <1>d DEF NextLog
<1>1. decisions' = log /\ log \in Seq({"require", "auto", "approve", "withdrawn"})
  BY <1>e, <1>f DEF Decide
<1>2. TypeOK'
  BY <1>b, <1>1 DEF Inv, TypeOK
<1>3. Control' /\ Claims'
  BY <1>b DEF Inv, Control, Claims, ClaimIsOwned, DoneHappened, ToldHappened, Owns
<1>4. Gate'
  <2> SUFFICES ASSUME NEW a \in Attempt, held'[a]
               PROVE  /\ Owed(decisions)' /\ ~Through(a)'
                      /\ pc'[a] = "approval" =>
                           /\ seen'[a] \in 1..Len(decisions') /\ decisions'[seen'[a]] = "require"
                           /\ \A j \in 1..Len(decisions') : j >= seen'[a] => decisions'[j] # "approve"
    BY DEF Gate
  <2>1. held[a] /\ Owed(log)
    BY <1>b DEF Inv, TypeOK
  <2>2. Owed(decisions)' /\ ~Through(a)'
    BY <1>b, <1>1, <2>1 DEF Inv, Gate, Through, Owns, Owed
  <2>3. ASSUME pc'[a] = "approval"
        PROVE  /\ seen'[a] \in 1..Len(decisions') /\ decisions'[seen'[a]] = "require"
               /\ \A j \in 1..Len(decisions') : j >= seen'[a] => decisions'[j] # "approve"
    <3>1. pc[a] = "approval" /\ seen' = seen
      BY <1>b, <2>3
    <3>2. /\ seen[a] \in 1..Len(decisions) /\ decisions[seen[a]] = "require"
          /\ \A j \in 1..Len(decisions) : j >= seen[a] => decisions[j] # "approve"
      BY <2>1, <3>1 DEF Inv, Gate
    <3>3. CASE \E d \in {"require", "auto"} : log = Append(decisions, d)
      BY <1>1, <1>d, <3>1, <3>2, <3>3
    <3>4. CASE log = Append(decisions, "approve")
      <4>1. ~Owed(log)
        BY <1>d, <3>4 DEF Owed
      <4>2. QED
        BY <4>1, <2>1
    <3>5. CASE \E i \in 1..Len(decisions) : /\ decisions[i] = "approve"
                                            /\ log = [decisions EXCEPT ![i] = "withdrawn"]
      BY <1>1, <1>d, <3>1, <3>2, <3>5
    <3>6. QED
      BY <1>a, <3>3, <3>4, <3>5 DEF NextLog
  <2>4. QED
    BY <2>2, <2>3
<1>5. QED
  BY <1>2, <1>3, <1>4 DEF Inv

\* A step of the scheduler: only the attempt that starts is touched, and it owns
\* nothing yet.
LEMMA ScheduleInv ==
  ASSUME Inv, TimesOut \/ \E a \in Attempt : Dispatch(a) \/ Retry(a)
  PROVE  Inv'
<1>1. CASE TimesOut
  <2>1. awaited' = {} /\ UNCHANGED <<decisions, row, told, pass, pc, of, seen, sent, acted, held>>
    BY <1>1 DEF TimesOut, ledgerVars, attemptVars
  <2>2. TypeOK' /\ Control'
    BY <2>1 DEF Inv, TypeOK, Control
  <2>3. Claims' /\ Gate'
    BY <2>1 DEF Inv, Claims, ClaimIsOwned, DoneHappened, ToldHappened, Gate, Owns, Through, Owed
  <2>4. QED
    BY <2>2, <2>3 DEF Inv
<1>2. CASE \E a \in Attempt : Dispatch(a) \/ Retry(a)
  <2>1. PICK a \in Attempt, p \in Pass : Start(a, p)
    BY <1>2, PassAssumption DEF Dispatch, Retry, Pass, Inv, TypeOK
  <2>2. /\ pc[a] = "unborn" /\ a \notin sent /\ a \notin acted
        /\ UNCHANGED <<decisions, row, told, seen, sent, acted>>
        /\ pc' = [pc EXCEPT ![a] = "find"] /\ of' = [of EXCEPT ![a] = p]
        /\ held' = [held EXCEPT ![a] = Owed(decisions)]
        /\ awaited' = {a} /\ pass' = p
    BY <2>1 DEF Start, ledgerVars, Inv, Control
  <2>3. TypeOK'
    BY <2>2, PassAssumption DEF Inv, TypeOK, Pass, Owed
  <2>4. Control'
    BY <2>2 DEF Inv, TypeOK, Control
  <2>5. Claims'
    <3>1. \A b \in Attempt : Owns(b)' => Owns(b) /\ of'[b] = of[b]
      BY <2>2 DEF Inv, TypeOK, Owns
    <3>2. \A b \in acted : b \in Attempt /\ of'[b] = of[b]
      BY <2>2 DEF Inv, TypeOK
    <3>3. ClaimIsOwned'
      BY <2>2, <3>1 DEF Inv, Claims, ClaimIsOwned
    <3>4. DoneHappened' /\ ToldHappened'
      BY <2>2, <3>2 DEF Inv, Claims, DoneHappened, ToldHappened
    <3>5. QED
      BY <3>3, <3>4 DEF Claims
  <2>6. Gate'
    <3>2. /\ held'[a] = Owed(decisions) /\ pc'[a] = "find" /\ ~Through(a)'
          /\ Owed(decisions)' = Owed(decisions)
      BY <2>2 DEF Inv, TypeOK, Through, Owns, Owed
    <3>3. decisions' = decisions /\ seen' = seen
      BY <2>2
    <3> SUFFICES ASSUME NEW b \in Attempt, held'[b]
                 PROVE  /\ Owed(decisions)' /\ ~Through(b)'
                        /\ pc'[b] = "approval" =>
                             /\ seen'[b] \in 1..Len(decisions') /\ decisions'[seen'[b]] = "require"
                             /\ \A j \in 1..Len(decisions') : j >= seen'[b] => decisions'[j] # "approve"
      BY DEF Gate
    <3>4. CASE b = a
      BY <3>2, <3>4
    <3>5. CASE b # a
      <4>1. held[b] /\ pc'[b] = pc[b] /\ seen'[b] = seen[b]
        BY <2>2, <3>5 DEF Inv, TypeOK
      <4>2. Owed(decisions) /\ ~Through(b)
        BY <4>1 DEF Inv, Gate
      <4>3. Owed(decisions)'
        BY <3>2, <4>2
      <4>4. ~Through(b)'
        BY <2>2, <4>1, <4>2 DEF Through, Owns
      <4>5. QED
        BY <3>3, <4>1, <4>3, <4>4 DEF Inv, Gate
    <3>6. QED
      BY <3>4, <3>5
  <2>7. QED
    BY <2>3, <2>4, <2>5, <2>6 DEF Inv
<1>3. QED
  BY <1>1, <1>2

\* What an attempt's own step leaves alone: decisions, history, passes.
LEMMA StepFrame ==
  ASSUME Inv, NEW a \in Attempt, StepVars' = StepVars, NEW s, Goto(a, s)
  PROVE  /\ \A b \in Attempt \ {a} : pc'[b] = pc[b]
         /\ pc'[a] = s /\ of' = of /\ decisions' = decisions /\ held' = held /\ pass' = pass
BY DEF StepVars, Goto, Inv, TypeOK

\* An attempt that ends owns nothing new, and what it reports has happened.
LEMMA EndInv ==
  ASSUME Inv, NEW a \in Attempt, NEW e \in SUBSET Attempt, End(a, e), StepVars' = StepVars,
         pc[a] \notin Over, row' = row, seen' = seen, sent' = sent, acted' = acted,
         e = {} \/ \E b \in acted : e = {b} /\ of[b] = of[a]
  PROVE  Inv'
<1>1. of[a] \in Pass
  BY DEF Inv, Control, Over
<1>2. /\ pc' = [pc EXCEPT ![a] = "over"] /\ of' = of /\ decisions' = decisions
      /\ held' = held /\ pass' = pass /\ awaited' = awaited \ {a}
      /\ told' = told \/ (e # {} /\ told' = [told EXCEPT ![of[a]] = e])
  BY DEF End, Goto, StepVars
<1>3. TypeOK'
  BY <1>1, <1>2 DEF Inv, TypeOK, Over
<1>4. Control'
  BY <1>2 DEF Inv, TypeOK, Control
<1>5. Claims'
  <2>1. ClaimIsOwned'
    BY <1>2 DEF Inv, TypeOK, Claims, ClaimIsOwned, Owns
  <2>2. DoneHappened'
    BY <1>2 DEF Inv, Claims, DoneHappened
  <2>3. ToldHappened'
    <3> SUFFICES ASSUME NEW p \in Pass, told'[p] # {}
                 PROVE  \E b \in acted : told'[p] = {b} /\ of[b] = p
      BY <1>2 DEF ToldHappened
    <3>1. CASE told'[p] = told[p]
      BY <3>1 DEF Inv, Claims, ToldHappened
    <3>2. CASE told'[p] # told[p]
      <4>1. p = of[a] /\ e # {} /\ told'[p] = e
        BY <1>2, <3>2 DEF Inv, TypeOK
      <4>2. QED
        BY <4>1
    <3>3. QED
      BY <3>1, <3>2
  <2>4. QED
    BY <2>1, <2>2, <2>3 DEF Claims
<1>6. Gate'
  BY <1>2 DEF Inv, TypeOK, Gate, Through, Owns, Owed
<1>7. QED
  BY <1>3, <1>4, <1>5, <1>6 DEF Inv

-----------------------------------------------------------------------------
\* Steps of an attempt that writes nothing outside its own variables.
LEMMA ReadInv ==
  ASSUME Inv, NEW a \in Attempt,
         findRecordedOutcome(a) \/ GateReads(a) \/ GateAsks(a) \/ Throws(a)
  PROVE  Inv'
<1>1. CASE Throws(a)
  BY <1>1, EndInv DEF Throws
<1>2. CASE findRecordedOutcome(a)
  <2>0. of[a] \in Pass /\ pc[a] \notin Over
    BY <1>2 DEF findRecordedOutcome, Inv, Control, Over
  <2>1. CASE row[of[a]].state = "DONE"
    <3>1. End(a, row[of[a]].by) /\ UNCHANGED <<StepVars, row, seen, sent, acted>>
      BY <1>2, <2>1 DEF findRecordedOutcome
    <3>2. row[of[a]].by \in SUBSET Attempt /\ \E b \in acted : row[of[a]].by = {b} /\ of[b] = of[a]
      BY <2>0, <2>1 DEF Inv, TypeOK, Claims, DoneHappened
    <3>3. QED
      BY <2>0, <3>1, <3>2, EndInv
  <2>2. CASE row[of[a]].state = "PENDING"
    <3>1. End(a, {}) /\ UNCHANGED <<StepVars, row, seen, sent, acted>>
      BY <1>2, <2>2 DEF findRecordedOutcome
    <3>2. QED
      BY <2>0, <3>1, EndInv
  <2>3. CASE row[of[a]].state = "none"
    <3>1. /\ pc[a] = "find" /\ pc' = [pc EXCEPT ![a] = "gate"]
          /\ UNCHANGED <<decisions, row, told, pass, awaited, of, seen, sent, acted, held>>
      BY <1>2, <2>3 DEF findRecordedOutcome, Goto, StepVars
    <3>2. TypeOK' /\ Control'
      BY <3>1 DEF Inv, TypeOK, Control
    <3>3. Claims'
      BY <3>1 DEF Inv, TypeOK, Claims, ClaimIsOwned, DoneHappened, ToldHappened, Owns
    <3>4. Gate'
      BY <3>1 DEF Inv, TypeOK, Gate, Owns, Through, Owed
    <3>5. QED
      BY <3>2, <3>3, <3>4 DEF Inv
  <2>4. QED
    BY <2>0, <2>1, <2>2, <2>3 DEF Inv, TypeOK
<1>3. CASE GateReads(a)
  <2>1. PICK s \in {"claim", "approval"}, r \in Nat :
          /\ pc[a] = "gate" /\ pc' = [pc EXCEPT ![a] = s] /\ seen' = [seen EXCEPT ![a] = r]
          /\ s = "claim" => NothingRequired
          /\ s = "approval" => r \in 1..Len(decisions) /\ LatestRequirement(r)
          /\ UNCHANGED <<decisions, row, told, pass, awaited, of, sent, acted, held>>
    <3>1. pc[a] = "gate" /\ UNCHANGED <<decisions, row, told, pass, awaited, of, sent, acted, held>>
      BY <1>3 DEF GateReads, StepVars, ledgerVars
    <3>2. CASE NothingRequired /\ Goto(a, "claim") /\ UNCHANGED seen
      <4>1. seen' = [seen EXCEPT ![a] = seen[a]] /\ seen[a] \in Nat
        BY <3>2 DEF Inv, TypeOK
      <4>2. QED
        BY <3>1, <3>2, <4>1 DEF Goto
    <3>3. CASE \E r \in 1..Len(decisions) :
                 LatestRequirement(r) /\ Goto(a, "approval") /\ seen' = [seen EXCEPT ![a] = r]
      <4>1. PICK r \in 1..Len(decisions) :
              LatestRequirement(r) /\ Goto(a, "approval") /\ seen' = [seen EXCEPT ![a] = r]
        BY <3>3
      <4>2. r \in Nat /\ pc' = [pc EXCEPT ![a] = "approval"]
        BY <4>1 DEF Goto
      <4>3. QED
        BY <3>1, <4>1, <4>2
    <3>4. QED
      BY <1>3, <3>2, <3>3 DEF GateReads
  <2>2. TypeOK' /\ Control'
    BY <2>1 DEF Inv, TypeOK, Control
  <2>3. Claims'
    BY <2>1 DEF Inv, TypeOK, Claims, ClaimIsOwned, DoneHappened, ToldHappened, Owns
  <2>4. Gate'
    <3> SUFFICES ASSUME NEW b \in Attempt, held'[b]
                 PROVE  /\ Owed(decisions)' /\ ~Through(b)'
                        /\ pc'[b] = "approval" =>
                             /\ seen'[b] \in 1..Len(decisions') /\ decisions'[seen'[b]] = "require"
                             /\ \A j \in 1..Len(decisions') : j >= seen'[b] => decisions'[j] # "approve"
      BY DEF Gate
    <3>1. decisions' = decisions /\ held[b] /\ Owed(decisions) /\ ~Through(b)
      BY <2>1 DEF Inv, Gate
    <3>2. PICK i \in 1..Len(decisions) :
            decisions[i] = "require" /\ \A j \in i..Len(decisions) : decisions[j] # "approve"
      BY <3>1 DEF Owed
    <3>3. CASE b # a
      <4>1. pc'[b] = pc[b] /\ seen'[b] = seen[b] /\ ~Through(b)'
        BY <2>1, <3>1, <3>3 DEF Inv, TypeOK, Through, Owns
      <4>2. QED
        BY <2>1, <3>1, <4>1 DEF Inv, Gate, Owed
    <3>4. CASE b = a
      <4>1. s = "approval"
        BY <2>1, <3>2 DEF NothingRequired
      <4>2. r >= i /\ decisions[r] = "require" /\ r \in 1..Len(decisions)
        BY <2>1, <3>2, <4>1 DEF LatestRequirement
      <4>3. \A j \in 1..Len(decisions) : j >= r => decisions[j] # "approve"
        BY <3>2, <4>2
      <4>4. pc'[a] = "approval" /\ seen'[a] = r /\ ~Through(a)'
        BY <2>1, <3>1, <3>4, <4>1 DEF Inv, TypeOK, Through, Owns
      <4>5. QED
        BY <3>1, <3>4, <4>2, <4>3, <4>4 DEF Owed
    <3>5. QED
      BY <3>3, <3>4
  <2>5. QED
    BY <2>2, <2>3, <2>4 DEF Inv
<1>4. CASE GateAsks(a)
  <2>1. CASE \E j \in seen[a]..Len(decisions) : decisions[j] = "approve"
    <3>1. /\ pc[a] = "approval" /\ pc' = [pc EXCEPT ![a] = "claim"]
          /\ UNCHANGED <<decisions, row, told, pass, awaited, of, seen, sent, acted, held>>
      BY <1>4, <2>1 DEF GateAsks, Goto, StepVars
    <3>2. ~held[a]
      BY <2>1, <3>1 DEF Inv, TypeOK, Gate
    <3>3. TypeOK' /\ Control'
      BY <3>1 DEF Inv, TypeOK, Control
    <3>4. Claims'
      BY <3>1 DEF Inv, TypeOK, Claims, ClaimIsOwned, DoneHappened, ToldHappened, Owns
    <3>5. Gate'
      BY <3>1, <3>2 DEF Inv, TypeOK, Gate, Owns, Through, Owed
    <3>6. QED
      BY <3>3, <3>4, <3>5 DEF Inv
  <2>2. CASE ~\E j \in seen[a]..Len(decisions) : decisions[j] = "approve"
    <3>1. End(a, {}) /\ UNCHANGED <<StepVars, row, seen, sent, acted>> /\ pc[a] \notin Over
      BY <1>4, <2>2 DEF GateAsks, Over
    <3>2. QED
      BY <3>1, EndInv
  <2>3. QED
    BY <2>1, <2>2
<1>5. QED
  BY <1>1, <1>2, <1>3, <1>4

\* The claim: a create goes through only on a key without a row, so that no
\* other attempt of the pass can own one.
LEMMA ClaimInv ==
  ASSUME Inv, NEW a \in Attempt, claimOutcome(a)
  PROVE  Inv'
<1>0. pc[a] = "claim" /\ of[a] \in Pass /\ a \notin sent
  BY DEF claimOutcome, Inv, Control
<1>1. CASE row[of[a]].state # "none"
  <2>1. End(a, {}) /\ UNCHANGED <<StepVars, row, seen, sent, acted>> /\ pc[a] \notin Over
    BY <1>0, <1>1 DEF claimOutcome, Over
  <2>2. QED
    BY <2>1, EndInv
<1>2. CASE row[of[a]].state = "none"
  <2>1. /\ row' = [row EXCEPT ![of[a]] = [state |-> "PENDING", by |-> {a}]]
        /\ pc' = [pc EXCEPT ![a] = "dispatch"]
        /\ UNCHANGED <<decisions, told, pass, awaited, of, seen, sent, acted, held>>
    BY <1>2 DEF claimOutcome, Goto, StepVars
  <2>2. TypeOK' /\ Control'
    BY <1>0, <2>1 DEF Inv, TypeOK, Control
  <2>3. ClaimIsOwned'
    <3> SUFFICES ASSUME NEW b \in Attempt, Owns(b)'
                 PROVE  row'[of'[b]].state # "none" /\ row'[of'[b]].by = {b}
      BY DEF ClaimIsOwned
    <3>1. CASE b = a
      BY <1>0, <2>1, <3>1 DEF Inv, TypeOK
    <3>2. CASE b # a
      <4>1. Owns(b)
        BY <2>1, <3>2 DEF Inv, TypeOK, Owns
      <4>2. row[of[b]].state # "none" /\ row[of[b]].by = {b}
        BY <4>1 DEF Inv, Claims, ClaimIsOwned
      <4>3. of[b] # of[a] /\ of'[b] = of[b]
        BY <1>2, <2>1, <4>2
      <4>4. row'[of[b]] = row[of[b]]
        BY <2>1, <4>3 DEF Inv, TypeOK
      <4>5. QED
        BY <4>2, <4>3, <4>4
    <3>3. QED
      BY <3>1, <3>2
  <2>4. DoneHappened' /\ ToldHappened'
    BY <1>0, <2>1 DEF Inv, TypeOK, Claims, DoneHappened, ToldHappened
  <2>5. Gate'
    BY <1>0, <2>1 DEF Inv, TypeOK, Gate, Owns, Through, Owed
  <2>6. QED
    BY <2>2, <2>3, <2>4, <2>5 DEF Inv, Claims
<1>3. QED
  BY <1>1, <1>2

\* The exchange with the provider: whoever sends, owns the claim.
LEMMA ProviderInv ==
  ASSUME Inv, NEW a \in Attempt, CallProvider(a) \/ ProviderActs(a) \/ ProviderAnswers(a)
  PROVE  Inv'
<1>1. CASE CallProvider(a)
  <2>1. /\ pc[a] = "dispatch"
        /\ UNCHANGED <<decisions, row, told, pass, awaited, of, seen, acted, held>>
    BY <1>1 DEF CallProvider, StepVars, ledgerVars
  <2>2. CASE sent' = sent \cup {a} /\ Goto(a, "sent")
    <3>1. /\ pc' = [pc EXCEPT ![a] = "sent"] /\ sent' = sent \cup {a}
      BY <2>2 DEF Goto
    <3>2. TypeOK'
      BY <2>1, <3>1 DEF Inv, TypeOK
    <3>3. Control'
      BY <2>1, <3>1 DEF Inv, TypeOK, Control
    <3>4. ClaimIsOwned'
      BY <2>1, <3>1 DEF Inv, TypeOK, Claims, ClaimIsOwned, Owns
    <3>5. DoneHappened' /\ ToldHappened'
      BY <2>1 DEF Inv, Claims, DoneHappened, ToldHappened
    <3>6. Gate'
      BY <2>1, <3>1 DEF Inv, TypeOK, Gate, Owns, Through, Owed
    <3>7. QED
      BY <3>2, <3>3, <3>4, <3>5, <3>6 DEF Inv, Claims
  <2>3. CASE sent' = sent /\ Goto(a, "refused")
    <3>1. /\ pc' = [pc EXCEPT ![a] = "refused"] /\ sent' = sent
      BY <2>3 DEF Goto
    <3>2. TypeOK'
      BY <2>1, <3>1 DEF Inv, TypeOK
    <3>3. Control'
      BY <2>1, <3>1 DEF Inv, TypeOK, Control
    <3>4. ClaimIsOwned'
      BY <2>1, <3>1 DEF Inv, TypeOK, Claims, ClaimIsOwned, Owns
    <3>5. DoneHappened' /\ ToldHappened'
      BY <2>1 DEF Inv, Claims, DoneHappened, ToldHappened
    <3>6. Gate'
      BY <2>1, <3>1 DEF Inv, TypeOK, Gate, Owns, Through, Owed
    <3>7. QED
      BY <3>2, <3>3, <3>4, <3>5, <3>6 DEF Inv, Claims
  <2>4. QED
    BY <1>1, <2>2, <2>3 DEF CallProvider
<1>2. CASE ProviderActs(a)
  <2>1. /\ a \in sent /\ acted' = acted \cup {a}
        /\ UNCHANGED <<decisions, row, told, pass, awaited, pc, of, seen, sent, held>>
    BY <1>2 DEF ProviderActs, StepVars, ledgerVars
  <2>2. TypeOK' /\ Control' /\ Gate'
    BY <2>1 DEF Inv, TypeOK, Control, Gate, Owns, Through, Owed
  <2>3. Claims'
    BY <2>1 DEF Inv, Claims, ClaimIsOwned, DoneHappened, ToldHappened, Owns
  <2>4. QED
    BY <2>2, <2>3 DEF Inv
<1>3. CASE ProviderAnswers(a)
  <2>1. /\ pc[a] = "sent" /\ a \in acted /\ pc' = [pc EXCEPT ![a] = "answered"]
        /\ UNCHANGED <<decisions, row, told, pass, awaited, of, seen, sent, acted, held>>
    BY <1>3 DEF ProviderAnswers, Goto, StepVars, ledgerVars
  <2>2. TypeOK' /\ Control'
    BY <2>1 DEF Inv, TypeOK, Control
  <2>3. Claims'
    BY <2>1 DEF Inv, TypeOK, Claims, ClaimIsOwned, DoneHappened, ToldHappened, Owns
  <2>4. Gate'
    BY <2>1 DEF Inv, TypeOK, Gate, Owns, Through, Owed
  <2>5. QED
    BY <2>2, <2>3, <2>4 DEF Inv
<1>4. QED
  BY <1>1, <1>2, <1>3

\* Completion and release: the row written or deleted is the attempt's own.
LEMMA SettleInv ==
  ASSUME Inv, NEW a \in Attempt, CompleteOutcome(a) \/ releaseOutcome(a)
  PROVE  Inv'
<1>0. /\ pc[a] \in {"answered", "refused"} /\ of[a] \in Pass
      /\ row[of[a]].state # "none" /\ row[of[a]].by = {a}
      /\ pc[a] = "answered" => a \in acted /\ a \in sent
      /\ pc[a] = "refused" => a \notin sent
  BY DEF CompleteOutcome, releaseOutcome, Inv, Control, Claims, ClaimIsOwned, Owns
<1>1. \A b \in Attempt : Owns(b) /\ b # a => of[b] # of[a]
  BY <1>0 DEF Inv, Claims, ClaimIsOwned
<1>2. CASE CompleteOutcome(a)
  <2>1. /\ row' = [row EXCEPT ![of[a]] = [state |-> "DONE", by |-> {a}]]
        /\ pc' = [pc EXCEPT ![a] = "over"] /\ awaited' = awaited \ {a}
        /\ told' = told \/ told' = [told EXCEPT ![of[a]] = {a}]
        /\ UNCHANGED <<decisions, pass, of, seen, sent, acted, held>> /\ pc[a] = "answered"
    BY <1>0, <1>2 DEF CompleteOutcome, End, Goto, StepVars
  <2>2a. TypeOK'
    <3>1. row' \in [Pass -> [state : {"none", "PENDING", "DONE"}, by : SUBSET Attempt]]
      BY <1>0, <2>1 DEF Inv, TypeOK
    <3>2. told' \in [Pass -> SUBSET Attempt]
      BY <1>0, <2>1 DEF Inv, TypeOK
    <3>3. QED
      BY <2>1, <3>1, <3>2 DEF Inv, TypeOK, Over
  <2>2b. Control'
    BY <2>1 DEF Inv, TypeOK, Control
  <2>3. ClaimIsOwned'
    BY <1>0, <1>1, <2>1 DEF Inv, TypeOK, Claims, ClaimIsOwned, Owns
  <2>4. DoneHappened'
    BY <1>0, <2>1 DEF Inv, TypeOK, Claims, DoneHappened
  <2>5. ToldHappened'
    BY <1>0, <2>1 DEF Inv, TypeOK, Claims, ToldHappened
  <2>6. Gate'
    BY <2>1 DEF Inv, TypeOK, Gate, Owns, Through, Owed
  <2>7. QED
    BY <2>2a, <2>2b, <2>3, <2>4, <2>5, <2>6 DEF Inv, Claims
<1>3. CASE releaseOutcome(a)
  <2>1. /\ row' = row \/ row' = [row EXCEPT ![of[a]] = NoRow]
        /\ pc' = [pc EXCEPT ![a] = "over"] /\ awaited' = awaited \ {a} /\ told' = told
        /\ UNCHANGED <<decisions, pass, of, seen, sent, acted, held>> /\ pc[a] = "refused"
    <3>1. row' = [row EXCEPT ![of[a]] = IF @.state = "PENDING" THEN NoRow ELSE @]
      BY <1>3 DEF releaseOutcome
    <3>2. row' = row \/ row' = [row EXCEPT ![of[a]] = NoRow]
      BY <1>0, <3>1 DEF Inv, TypeOK
    <3>3. QED
      BY <1>3, <3>2 DEF releaseOutcome, End, Goto, StepVars
  <2>2a. TypeOK'
    <3>1. row' \in [Pass -> [state : {"none", "PENDING", "DONE"}, by : SUBSET Attempt]]
      <4>1. NoRow \in [state : {"none", "PENDING", "DONE"}, by : SUBSET Attempt]
        BY DEF NoRow
      <4>2. row \in [Pass -> [state : {"none", "PENDING", "DONE"}, by : SUBSET Attempt]]
        BY DEF Inv, TypeOK
      <4>3. QED
        BY <2>1, <4>1, <4>2
    <3>2. QED
      BY <2>1, <3>1 DEF Inv, TypeOK, Over
  <2>2b. Control'
    BY <2>1 DEF Inv, TypeOK, Control
  <2>2c. \A p \in Pass : row'[p] = row[p] \/ (p = of[a] /\ row'[p] = NoRow)
    BY <1>0, <2>1 DEF Inv, TypeOK
  <2>3. ClaimIsOwned'
    <3> SUFFICES ASSUME NEW b \in Attempt, Owns(b)'
                 PROVE  row'[of'[b]].state # "none" /\ row'[of'[b]].by = {b}
      BY DEF ClaimIsOwned
    <3>1. b # a
      BY <1>0, <2>1 DEF Inv, TypeOK, Owns
    <3>2. Owns(b) /\ of'[b] = of[b]
      BY <2>1, <3>1 DEF Inv, TypeOK, Owns
    <3>3. of[b] # of[a] /\ of[b] \in Pass
      BY <1>1, <3>1, <3>2 DEF Inv, Control, Owns
    <3>4. row'[of[b]] = row[of[b]]
      BY <2>2c, <3>3
    <3>5. QED
      BY <3>2, <3>4 DEF Inv, Claims, ClaimIsOwned
  <2>4. DoneHappened'
    <3> SUFFICES ASSUME NEW p \in Pass, row'[p].state = "DONE"
                 PROVE  \E b \in acted' : row'[p].by = {b} /\ of'[b] = p
      BY DEF DoneHappened
    <3>1. row'[p] = row[p]
      BY <2>2c DEF NoRow
    <3>2. QED
      BY <2>1, <3>1 DEF Inv, Claims, DoneHappened
  <2>5. ToldHappened'
    BY <2>1 DEF Inv, Claims, ToldHappened
  <2>6. Gate'
    BY <2>1 DEF Inv, TypeOK, Gate, Owns, Through, Owed
  <2>7. QED
    BY <2>2a, <2>2b, <2>3, <2>4, <2>5, <2>6 DEF Inv, Claims
<1>4. QED
  BY <1>2, <1>3

\* Nothing moves.
LEMMA StutterInv ==
  ASSUME Inv, UNCHANGED vars
  PROVE  Inv'
<1>1. UNCHANGED <<decisions, row, told, pass, awaited, pc, of, seen, sent, acted, held>>
  BY DEF vars, ledgerVars, attemptVars
<1>2. TypeOK' /\ Control'
  BY <1>1 DEF Inv, TypeOK, Control
<1>3. ClaimIsOwned' /\ DoneHappened' /\ ToldHappened'
  BY <1>1 DEF Inv, Claims, ClaimIsOwned, DoneHappened, ToldHappened, Owns
<1>4. Gate'
  BY <1>1 DEF Inv, Gate, Owns, Through, Owed
<1>5. QED
  BY <1>2, <1>3, <1>4 DEF Inv, Claims

\* Every step of the system keeps the invariant.
LEMMA NextInv == Inv /\ [Next]_vars => Inv'
BY DecideInv, ScheduleInv, ReadInv, ClaimInv, ProviderInv, SettleInv, StutterInv DEF Next

\* The inductive invariant of the ledger and the gate.
THEOREM Invariance == Spec => []Inv
<1>1. Init => Inv
  BY InitInv
<1>2. Inv /\ [Next]_vars => Inv'
  BY NextInv
<1>3. QED
  BY <1>1, <1>2, PTL DEF Spec

\* Every variable keeps its type.
THEOREM TypeCorrect == Spec => []TypeOK
<1>1. Inv => TypeOK
  BY DEF Inv
<1>2. QED
  BY <1>1, Invariance, PTL

\* A write that began while approval was owed, and of which it has been owed
\* since, never reaches the provider.
THEOREM OwedApprovalHoldsAlways == Spec => []OwedApprovalHolds
<1>1. Inv => OwedApprovalHolds
  BY DEF Inv, TypeOK, Gate, Through, Owns, OwedApprovalHolds
<1>2. QED
  BY <1>1, Invariance, PTL

\* While a key has no row nothing of its pass is at the provider or on its way.
THEOREM FreeKeyIsSafeAlways == Spec => []FreeKeyIsSafe
<1>1. Inv => FreeKeyIsSafe
  BY DEF Inv, Claims, ClaimIsOwned, Owns, FreeKeyIsSafe
<1>2. QED
  BY <1>1, Invariance, PTL

-----------------------------------------------------------------------------
\* A pass has no effect but one: whoever acted owns the row of the pass.
LEMMA OneEffect ==
  ASSUME Inv, NEW b \in acted
  PROVE  of[b] \in Pass /\ Effects[of[b]] = {b}
<1>1. \A d \in acted : d \in Attempt /\ of[d] \in Pass /\ row[of[d]].by = {d}
  BY DEF Inv, TypeOK, Control, Claims, ClaimIsOwned, Owns
<1>2. QED
  BY <1>1 DEF Effects

\* The workflow is told by an attempt that returns: an effect of its pass.
LEMMA ToldByEnd ==
  ASSUME Inv, [Next]_vars, told' # told
  PROVE  \E a \in Attempt, b \in acted :
           of[b] = of[a] /\ told' = [told EXCEPT ![of[a]] = {b}]
<1>1. PICK a \in Attempt : findRecordedOutcome(a) \/ CompleteOutcome(a)
  <2>1. ~(publishOutcome \/ Approve \/ RollBackApproval \/ TimesOut)
    BY DEF publishOutcome, Approve, RollBackApproval, Decide, TimesOut, ledgerVars
  <2>2. ASSUME NEW a \in Attempt
        PROVE  ~(Dispatch(a) \/ Retry(a) \/ ProviderActs(a) \/ GateReads(a) \/ CallProvider(a)
                 \/ ProviderAnswers(a))
    BY DEF Dispatch, Retry, Start, ProviderActs, GateReads, CallProvider, ProviderAnswers, ledgerVars
  <2>3. ASSUME NEW a \in Attempt
        PROVE  ~(Throws(a) \/ GateAsks(a) \/ claimOutcome(a) \/ releaseOutcome(a))
    BY DEF Throws, GateAsks, claimOutcome, releaseOutcome, End
  <2>4. ~UNCHANGED vars
    BY DEF vars, ledgerVars
  <2>5. QED
    BY <2>1, <2>2, <2>3, <2>4 DEF Next
<1>2. CASE findRecordedOutcome(a)
  <2>1. /\ row[of[a]].state = "DONE" /\ of[a] \in Pass
        /\ told' = [told EXCEPT ![of[a]] = row[of[a]].by]
    <3>1. of[a] \in Pass
      BY <1>2 DEF findRecordedOutcome, Inv, Control
    <3>2. row[of[a]].state \in {"none", "PENDING", "DONE"}
      BY <3>1 DEF Inv, TypeOK
    <3>3. QED
      BY <1>2, <3>1, <3>2 DEF findRecordedOutcome, End
  <2>2. QED
    BY <2>1 DEF Inv, Claims, DoneHappened
<1>3. CASE CompleteOutcome(a)
  <2>1. a \in acted /\ told' = [told EXCEPT ![of[a]] = {a}]
    BY <1>3 DEF CompleteOutcome, End, Inv, Control
  <2>2. QED
    BY <2>1
<1>4. QED
  BY <1>1, <1>2, <1>3

\* A step of the ledger is a step of EffectOnce, or nothing it can see.
LEMMA StepSimulation == Inv /\ [Next]_vars => [Once!Next]_Once!vars
<1> SUFFICES ASSUME Inv, [Next]_vars
             PROVE  Once!Next \/ UNCHANGED <<Effects, told>>
  BY DEF Once!vars
<1> USE DEF Once!Next, Once!Tell, Once!Happen
\* The provider acts: no other request of the pass was, or will be, acted upon.
<1>1. ASSUME NEW a \in Attempt, ProviderActs(a)
      PROVE  Once!Next
  <2>1. a \in sent \ acted /\ acted' = acted \cup {a} /\ of' = of /\ told' = told
    BY <1>1 DEF ProviderActs, StepVars, ledgerVars
  <2>2. pc[a] # "unborn" /\ of[a] \in Pass /\ row[of[a]].by = {a}
    BY <2>1 DEF Inv, Control, Claims, ClaimIsOwned, Owns
  <2>3. \A b \in acted : of[b] # of[a]
    <3> SUFFICES ASSUME NEW b \in acted, of[b] = of[a]
                 PROVE  FALSE
      OBVIOUS
    <3>1. b \in Attempt /\ b \in sent
      BY DEF Inv, TypeOK, Control
    <3>2. row[of[b]].by = {b}
      BY <3>1 DEF Inv, Claims, ClaimIsOwned, Owns
    <3>3. QED
      BY <2>1, <2>2, <3>2
  <2>4. Effects[of[a]] = {}
    BY <2>2, <2>3 DEF Effects
  <2>5. Effects' = [Effects EXCEPT ![of[a]] = {a}]
    <3>1. \A p \in Pass : {b \in acted' : of'[b] = p} = IF p = of[a] THEN {a} ELSE {b \in acted : of[b] = p}
      BY <2>1, <2>2, <2>3
    <3>2. QED
      BY <2>2, <3>1 DEF Effects
  <2>6. QED
    BY <2>1, <2>2, <2>4, <2>5
\* Every other step: the effects stay, and what is told is an effect of the pass.
<1>2. ASSUME ~\E a \in Attempt : ProviderActs(a)
      PROVE  acted' = acted /\ \A b \in acted : of'[b] = of[b]
  <2>1. CASE publishOutcome \/ Approve \/ RollBackApproval
    BY <2>1 DEF publishOutcome, Approve, RollBackApproval, Decide, attemptVars
  <2>2. CASE TimesOut
    BY <2>2 DEF TimesOut, attemptVars
  <2>3. ASSUME NEW a \in Attempt, Dispatch(a) \/ Retry(a)
        PROVE  acted' = acted /\ \A b \in acted : of'[b] = of[b]
    <3>1. PICK p : Start(a, p)
      BY <2>3 DEF Dispatch, Retry
    <3>2. a \notin acted /\ acted' = acted /\ of' = [of EXCEPT ![a] = p]
      BY <3>1 DEF Start, Inv, Control
    <3>3. QED
      BY <3>2 DEF Inv, TypeOK
  <2>4. ASSUME NEW a \in Attempt,
               \/ Throws(a) \/ findRecordedOutcome(a) \/ GateReads(a) \/ GateAsks(a)
               \/ claimOutcome(a) \/ CallProvider(a) \/ ProviderAnswers(a)
               \/ CompleteOutcome(a) \/ releaseOutcome(a)
        PROVE  acted' = acted /\ of' = of
    BY <2>4 DEF Throws, findRecordedOutcome, GateReads, GateAsks, claimOutcome, CallProvider,
                ProviderAnswers, CompleteOutcome, releaseOutcome, StepVars
  <2>5. CASE UNCHANGED vars
    BY <2>5 DEF vars, attemptVars
  <2>6. QED
    BY <1>2, <2>1, <2>2, <2>3, <2>4, <2>5 DEF Next
<1>3. ASSUME acted' = acted, \A b \in acted : of'[b] = of[b]
      PROVE  Effects' = Effects
  BY <1>3 DEF Effects
<1>4. ASSUME ~\E a \in Attempt : ProviderActs(a)
      PROVE  Once!Next \/ told' = told
  <2>1. CASE told' = told
    BY <2>1
  <2>2. CASE told' # told
    <3>1. PICK a \in Attempt, b \in acted :
            of[b] = of[a] /\ told' = [told EXCEPT ![of[a]] = {b}]
      BY <2>2, ToldByEnd
    <3>2. of[a] \in Pass /\ Effects[of[a]] = {b}
      BY <3>1, OneEffect
    <3>3. Effects' = Effects
      BY <1>2, <1>3, <1>4
    <3>4. QED
      BY <3>1, <3>2, <3>3
  <2>3. QED
    BY <2>1, <2>2
<1>5. QED
  BY <1>1, <1>2, <1>3, <1>4

\* The ledger implements its promise: one effect per pass, truthfully reported.
THEOREM Refinement == Spec => ImplementsEffectOnce
<1>1. Init => Once!Init
  BY DEF Init, Once!Init, Effects
<1>2. Inv /\ [Next]_vars => [Once!Next]_Once!vars
  BY StepSimulation
<1>3. QED
  BY <1>1, <1>2, Invariance, PTL DEF Spec, ImplementsEffectOnce, Once!Spec
=============================================================================
