---------------------- MODULE CallbackDeliveryProofs ----------------------
(***************************************************************************)
(* Proofs about one delivery of the callback outbox, for any number of     *)
(* sweeps, managers and pruners.  The invariant says of an attempt that is *)
(* under way with the row's token that the row is pending, and of an       *)
(* accepted answer, recorded or not, that the receiver accepted.           *)
(***************************************************************************)
EXTENDS CallbackDelivery, TLAPS

AcceptedWasReceived == \A s \in Sweep : sweep[s] = "accepted" => received

Inv == TypeOK /\ LatestAttemptDecides /\ DeliveredWasReceived /\ AcceptedWasReceived

LEMMA InitHolds == Init => Inv
BY DEF Init, Inv, TypeOK, LatestAttemptDecides, DeliveredWasReceived, AcceptedWasReceived,
       Status, Endpoint, Working

\* Every step of a sweep keeps the invariant.
LEMMA SweepStep ==
  ASSUME Inv, NEW s \in Sweep,
         Claim(s) \/ Load(s) \/ Send(s) \/ Record(s) \/ SweepStops(s)
  PROVE  Inv'
<1> USE DEF Inv, Goto, Others, rowVars
<1>1. CASE Claim(s)
  <2>1. TypeOK' BY <1>1 DEF Claim, TypeOK
  <2>2. LatestAttemptDecides' BY <1>1 DEF Claim, TypeOK, LatestAttemptDecides, Working
  <2>3. DeliveredWasReceived' BY <1>1 DEF Claim, DeliveredWasReceived
  <2>4. AcceptedWasReceived' BY <1>1 DEF Claim, TypeOK, AcceptedWasReceived
  <2> QED BY <2>1, <2>2, <2>3, <2>4
<1>2. CASE Load(s)
  <2>1. TypeOK' BY <1>2 DEF Load, TypeOK
  <2>2. LatestAttemptDecides' BY <1>2 DEF Load, TypeOK, LatestAttemptDecides, Working
  <2>3. DeliveredWasReceived' BY <1>2 DEF Load, DeliveredWasReceived
  <2>4. AcceptedWasReceived' BY <1>2 DEF Load, TypeOK, AcceptedWasReceived
  <2> QED BY <2>1, <2>2, <2>3, <2>4
<1>3. CASE Send(s)
  <2>1. TypeOK' BY <1>3 DEF Send, TypeOK
  <2>2. LatestAttemptDecides' BY <1>3 DEF Send, TypeOK, LatestAttemptDecides, Working
  <2>3. DeliveredWasReceived' BY <1>3 DEF Send, DeliveredWasReceived
  <2>4. AcceptedWasReceived' BY <1>3 DEF Send, TypeOK, AcceptedWasReceived
  <2> QED BY <2>1, <2>2, <2>3, <2>4
<1>4. CASE Record(s)
  <2>1. TypeOK' BY <1>4 DEF Record, Guard, TypeOK, Status
  <2>2. LatestAttemptDecides'
    <3>1. SUFFICES ASSUME NEW t \in Sweep, Working(t)', claimToken' = {t} PROVE status' = "PENDING"
      BY DEF LatestAttemptDecides
    <3>2. t # s /\ Working(t) BY <1>4, <3>1 DEF Record, TypeOK, Working
    <3>3. claimToken = {t} /\ ~Guard(s) BY <1>4, <3>1, <3>2 DEF Record, Guard
    <3>4. status = "PENDING" BY <3>2, <3>3 DEF LatestAttemptDecides
    <3>5. status' = status BY <1>4, <3>3 DEF Record
    <3> QED BY <3>4, <3>5
  <2>3. DeliveredWasReceived'
    BY <1>4 DEF Record, DeliveredWasReceived, AcceptedWasReceived
  <2>4. AcceptedWasReceived' BY <1>4 DEF Record, TypeOK, AcceptedWasReceived
  <2> QED BY <2>1, <2>2, <2>3, <2>4
<1>5. CASE SweepStops(s)
  <2>1. TypeOK' BY <1>5 DEF SweepStops, TypeOK
  <2>2. LatestAttemptDecides' BY <1>5 DEF SweepStops, TypeOK, LatestAttemptDecides, Working
  <2>3. DeliveredWasReceived' BY <1>5 DEF SweepStops, DeliveredWasReceived
  <2>4. AcceptedWasReceived' BY <1>5 DEF SweepStops, TypeOK, AcceptedWasReceived
  <2> QED BY <2>1, <2>2, <2>3, <2>4
<1> QED BY <1>1, <1>2, <1>3, <1>4, <1>5

\* A redeliver request keeps it: the reset takes the token off the row.
LEMMA ManagerStep ==
  ASSUME Inv, NEW m \in Manager, RedeliverLoads(m) \/ RedeliverFinds(m) \/ Redeliver(m)
  PROVE  Inv'
<1> USE DEF Inv, ManagerGoto, rowVars
<1>1. CASE RedeliverLoads(m)
  BY <1>1 DEF RedeliverLoads, TypeOK, LatestAttemptDecides, Working, DeliveredWasReceived,
              AcceptedWasReceived
<1>2. CASE RedeliverFinds(m)
  BY <1>2 DEF RedeliverFinds, TypeOK, LatestAttemptDecides, Working, DeliveredWasReceived,
              AcceptedWasReceived
<1>3. CASE Redeliver(m)
  <2>1. TypeOK' BY <1>3 DEF Redeliver, TypeOK, Status
  <2>2. LatestAttemptDecides' BY <1>3 DEF Redeliver, LatestAttemptDecides, Working
  <2>3. DeliveredWasReceived' BY <1>3 DEF Redeliver, DeliveredWasReceived
  <2>4. AcceptedWasReceived' BY <1>3 DEF Redeliver, AcceptedWasReceived
  <2> QED BY <2>1, <2>2, <2>3, <2>4
<1> QED BY <1>1, <1>2, <1>3

\* Retention keeps it: a settled row has no attempt under way that holds it.
LEMMA PrunerStep ==
  ASSUME Inv, NEW p \in Pruner, PruneReads(p) \/ PruneDeletes(p)
  PROVE  Inv'
<1> USE DEF Inv, rowVars
<1>1. CASE PruneReads(p)
  BY <1>1 DEF PruneReads, TypeOK, LatestAttemptDecides, Working, DeliveredWasReceived,
              AcceptedWasReceived
<1>2. CASE PruneDeletes(p)
  <2>1. TypeOK' BY <1>2 DEF PruneDeletes, TypeOK, Status
  <2>2. LatestAttemptDecides' BY <1>2 DEF PruneDeletes, LatestAttemptDecides, Working
  <2>3. DeliveredWasReceived' BY <1>2 DEF PruneDeletes, DeliveredWasReceived
  <2>4. AcceptedWasReceived' BY <1>2 DEF PruneDeletes, AcceptedWasReceived
  <2> QED BY <2>1, <2>2, <2>3, <2>4
<1> QED BY <1>1, <1>2

LEMMA NextStep == Inv /\ [Next]_vars => Inv'
<1> SUFFICES ASSUME Inv, [Next]_vars PROVE Inv' OBVIOUS
<1>1. CASE ComesDue
  BY <1>1 DEF ComesDue, Inv, TypeOK, LatestAttemptDecides, Working, DeliveredWasReceived,
              AcceptedWasReceived
<1>2. CASE WindowCloses
  BY <1>2 DEF WindowCloses, Inv, TypeOK, LatestAttemptDecides, Working, DeliveredWasReceived,
              AcceptedWasReceived
<1>3. CASE EditEndpoint
  BY <1>3 DEF EditEndpoint, rowVars, Inv, TypeOK, LatestAttemptDecides, Working,
              DeliveredWasReceived, AcceptedWasReceived
<1>4. CASE \E s \in Sweep : Claim(s) \/ Load(s) \/ Send(s) \/ Record(s) \/ SweepStops(s)
  BY <1>4, SweepStep
<1>5. CASE \E m \in Manager : RedeliverLoads(m) \/ RedeliverFinds(m) \/ Redeliver(m)
  BY <1>5, ManagerStep
<1>6. CASE \E p \in Pruner : PruneReads(p) \/ PruneDeletes(p)
  BY <1>6, PrunerStep
<1>7. CASE UNCHANGED vars
  BY <1>7 DEF vars, rowVars, Inv, TypeOK, LatestAttemptDecides, Working, DeliveredWasReceived,
              AcceptedWasReceived
<1> QED BY <1>1, <1>2, <1>3, <1>4, <1>5, <1>6, <1>7 DEF Next

\* The invariant, and with it the type invariant, holds of any number of sweeps,
\* redeliver requests and pruners (claimDueDeliveries, attemptDelivery).
THEOREM Invariance == Spec => []Inv
BY InitHolds, NextStep, PTL DEF Spec

\* The row, the sweeps, the requests and the pruners keep their types.
THEOREM TypeCorrect == Spec => []TypeOK
<1>1. Inv => TypeOK BY DEF Inv
<1> QED BY <1>1, Invariance, PTL

\* While the attempt that holds the row's token is under way, nobody else decides
\* the delivery (the guard of attemptDelivery's writes).
THEOREM LatestAttemptDecidesHolds == Spec => []LatestAttemptDecides
<1>1. Inv => LatestAttemptDecides BY DEF Inv
<1> QED BY <1>1, Invariance, PTL

\* DELIVERED is only said of what the receiver accepted (attemptDelivery).
THEOREM DeliveredWasReceivedHolds == Spec => []DeliveredWasReceived
<1>1. Inv => DeliveredWasReceived BY DEF Inv
<1> QED BY <1>1, Invariance, PTL

\* Neither a late result nor a redeliver request reopens a delivered row.
THEOREM DeliveredIsFinalHolds == Spec => DeliveredIsFinal
<1>1. [Next]_vars => [status = "DELIVERED" => status' \in {"DELIVERED", "gone"}]_vars
  <2> SUFFICES ASSUME Next, status = "DELIVERED" PROVE status' \in {"DELIVERED", "gone"} OBVIOUS
  <2> USE DEF rowVars
  <2>1. CASE ComesDue \/ WindowCloses \/ EditEndpoint
    BY <2>1 DEF ComesDue, WindowCloses, EditEndpoint
  <2>2. ASSUME NEW s \in Sweep, Claim(s) \/ Load(s) \/ Send(s) \/ Record(s) \/ SweepStops(s)
        PROVE  status' \in {"DELIVERED", "gone"}
    BY <2>2 DEF Claim, Load, Send, Record, Guard, SweepStops
  <2>3. ASSUME NEW m \in Manager, RedeliverLoads(m) \/ RedeliverFinds(m) \/ Redeliver(m)
        PROVE  status' \in {"DELIVERED", "gone"}
    BY <2>3 DEF RedeliverLoads, RedeliverFinds, Redeliver
  <2>4. ASSUME NEW p \in Pruner, PruneReads(p) \/ PruneDeletes(p)
        PROVE  status' \in {"DELIVERED", "gone"}
    BY <2>4 DEF PruneReads, PruneDeletes
  <2> QED BY <2>1, <2>2, <2>3, <2>4 DEF Next
<1> QED BY <1>1, PTL DEF Spec, DeliveredIsFinal

\* Retention deletes no row that a redelivery made owed again after its id was
\* read (the status guard of pruneCallbackDeliveries' delete).
THEOREM OwedIsNeverPrunedHolds == Spec => OwedIsNeverPruned
<1>1. [Next]_vars => [status' = "gone" => status # "PENDING"]_vars
  <2> SUFFICES ASSUME Next, status = "PENDING" PROVE status' # "gone" OBVIOUS
  <2> USE DEF rowVars
  <2>1. CASE ComesDue \/ WindowCloses \/ EditEndpoint
    BY <2>1 DEF ComesDue, WindowCloses, EditEndpoint
  <2>2. ASSUME NEW s \in Sweep, Claim(s) \/ Load(s) \/ Send(s) \/ Record(s) \/ SweepStops(s)
        PROVE  status' # "gone"
    BY <2>2 DEF Claim, Load, Send, Record, Guard, SweepStops
  <2>3. ASSUME NEW m \in Manager, RedeliverLoads(m) \/ RedeliverFinds(m) \/ Redeliver(m)
        PROVE  status' # "gone"
    BY <2>3 DEF RedeliverLoads, RedeliverFinds, Redeliver
  <2>4. ASSUME NEW p \in Pruner, PruneReads(p) \/ PruneDeletes(p)
        PROVE  status' # "gone"
    BY <2>4 DEF PruneReads, PruneDeletes
  <2> QED BY <2>1, <2>2, <2>3, <2>4 DEF Next
<1> QED BY <1>1, PTL DEF Spec, OwedIsNeverPruned
=============================================================================
