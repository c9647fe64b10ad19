------------------------- MODULE CallbackDelivery -------------------------
(***************************************************************************)
(* One row of the run-callback outbox: overlapping delivery sweeps claim,  *)
(* send and record it (deliverCallbacks.ts), endpoint managers edit its    *)
(* endpoint and redeliver it (the gateway's callback endpoint routes), and *)
(* retention sweeps prune it (pruneCallbackDeliveries.ts).  A step is one  *)
(* statement, one transaction or one HTTP exchange; a process may stop     *)
(* between two.  A claim's fresh token is modelled by the sweep that made  *)
(* it: a sweep has one claim at a time.                                    *)
(***************************************************************************)
CONSTANTS Sweep,     \* executions of deliverCallbacks that handle the row
          Manager,   \* redeliver requests
          Pruner     \* executions of pruneCallbackDeliveries

VARIABLES status,     \* of the row; "gone" once pruned
          due,        \* nextAttemptAt has passed
          windowOpen, \* the next retry still falls inside the retry window
          claimToken, \* the sweep whose claim the row carries, if any
          endpoint,   \* the row's endpoint and callback, as a send judges them
          received,   \* the receiver has accepted the delivery at least once
          sweep,      \* where each sweep is with its claim
          manager,    \* where each redeliver request is
          pruner      \* which pruners have the row among the ids they read

rowVars == <<status, due, windowOpen, claimToken>>
vars == <<rowVars, endpoint, received, sweep, manager, pruner>>

Status == {"PENDING", "DELIVERED", "DEAD", "gone"}
Endpoint == {"usable", "unusable", "disabled", "deleted"}

\* A claim that is still being worked on.
Working(s) == sweep[s] # "idle"

TypeOK ==
  /\ status \in Status /\ due \in BOOLEAN /\ windowOpen \in BOOLEAN
  /\ claimToken \in {{}} \cup {{s} : s \in Sweep}
  /\ endpoint \in Endpoint /\ received \in BOOLEAN
  /\ sweep \in [Sweep -> {"idle", "claimed", "sending", "accepted", "refused", "unsendable"}]
  /\ manager \in [Manager -> {"idle", "loaded", "found"}]
  /\ pruner \subseteq Pruner

\* The event's transaction has inserted the row.
Init ==
  /\ status = "PENDING" /\ due = TRUE /\ windowOpen = TRUE /\ claimToken = {}
  /\ endpoint \in {"usable", "disabled"} /\ received = FALSE
  /\ sweep = [s \in Sweep |-> "idle"] /\ manager = [m \in Manager |-> "idle"] /\ pruner = {}

-----------------------------------------------------------------------------
(* Time.                                                                   *)

\* A backoff, or the lease of a claim, lapses.
ComesDue == ~due /\ due' = TRUE
            /\ UNCHANGED <<status, windowOpen, claimToken, endpoint, received, sweep, manager, pruner>>

WindowCloses == windowOpen /\ windowOpen' = FALSE
                /\ UNCHANGED <<status, due, claimToken, endpoint, received, sweep, manager, pruner>>

-----------------------------------------------------------------------------
(* The delivery sweep.                                                     *)

Others == <<endpoint, manager, pruner>>
Goto(s, pc) == sweep' = [sweep EXCEPT ![s] = pc]

\* Variant with a bug: the claim takes the row out of the queue, without a lease.
ClaimForGood(s) ==
  /\ sweep[s] = "idle" /\ status = "PENDING" /\ due /\ claimToken = {}
  /\ due' = FALSE /\ claimToken' = {s} /\ Goto(s, "claimed")
  /\ UNCHANGED <<status, windowOpen, received, Others>>

\* One statement takes the row, its lease and a fresh token.
Claim(s) ==
  /\ sweep[s] = "idle" /\ status = "PENDING" /\ due
  /\ due' = FALSE /\ claimToken' = {s} /\ Goto(s, "claimed")
  /\ UNCHANGED <<status, windowOpen, received, Others>>

\* Loads the row: one that moved on is left alone, one whose endpoint cannot be
\* sent to is dead.
Load(s) ==
  /\ sweep[s] = "claimed"
  /\ Goto(s, IF status # "PENDING" THEN "idle"
             ELSE IF endpoint = "usable" THEN "sending" ELSE "unsendable")
  /\ UNCHANGED <<rowVars, received, Others>>

\* A receiver that accepts after the platform gave up waiting looks refused.
Send(s) ==
  /\ sweep[s] = "sending"
  /\ \/ received' = TRUE /\ Goto(s, "accepted")
     \/ received' \in {received, TRUE} /\ Goto(s, "refused")
  /\ UNCHANGED <<rowVars, Others>>

\* Variant with a bug: a result is written to whatever row is pending.
GuardByStatus(s) == status = "PENDING"

\* The row is still the attempt this sweep claimed.
Guard(s) == status = "PENDING" /\ claimToken = {s}

Record(s) ==
  /\ sweep[s] \in {"accepted", "refused", "unsendable"}
  /\ status' = IF ~Guard(s) THEN status
               ELSE CASE sweep[s] = "accepted"   -> "DELIVERED"
                      [] sweep[s] = "refused"    -> IF windowOpen THEN "PENDING" ELSE "DEAD"
                      [] sweep[s] = "unsendable" -> "DEAD"
  /\ due' = IF Guard(s) /\ status' = "PENDING" THEN FALSE ELSE due
  /\ Goto(s, "idle")
  /\ UNCHANGED <<windowOpen, claimToken, received, Others>>

\* The process dies, or a database error leaves the row claimed.
SweepStops(s) ==
  /\ Working(s) /\ Goto(s, "idle")
  /\ UNCHANGED <<rowVars, received, Others>>

-----------------------------------------------------------------------------
(* The gateway.                                                            *)

\* PATCH and DELETE of the endpoint; deleting the callback is like an edit.
EditEndpoint ==
  /\ endpoint # "deleted"
  /\ endpoint' \in Endpoint \ {endpoint}
  /\ UNCHANGED <<rowVars, received, sweep, manager, pruner>>

ManagerGoto(m, pc) == manager' = [manager EXCEPT ![m] = pc]

\* An unknown or disabled endpoint is answered with an error.
RedeliverLoads(m) ==
  /\ manager[m] = "idle" /\ endpoint \in {"usable", "unusable"} /\ ManagerGoto(m, "loaded")
  /\ UNCHANGED <<rowVars, endpoint, received, sweep, pruner>>

\* Only a dead delivery is redelivered; others are answered with an error.
RedeliverFinds(m) ==
  /\ manager[m] = "loaded"
  /\ ManagerGoto(m, IF status = "DEAD" /\ endpoint # "deleted" THEN "found" ELSE "idle")
  /\ UNCHANGED <<rowVars, endpoint, received, sweep, pruner>>

\* Variant with a bug: the reset trusts the status read before it.
RedeliverBlind(m) ==
  /\ manager[m] = "found" /\ ManagerGoto(m, "idle")
  /\ IF status # "gone" /\ endpoint # "deleted"
     THEN status' = "PENDING" /\ due' = TRUE /\ windowOpen' = TRUE /\ claimToken' = {}
     ELSE UNCHANGED rowVars
  /\ UNCHANGED <<endpoint, received, sweep, pruner>>

Redeliver(m) ==
  /\ manager[m] = "found" /\ ManagerGoto(m, "idle")
  /\ IF status = "DEAD" /\ endpoint # "deleted"
     THEN status' = "PENDING" /\ due' = TRUE /\ windowOpen' = TRUE /\ claimToken' = {}
     ELSE UNCHANGED rowVars
  /\ UNCHANGED <<endpoint, received, sweep, pruner>>

-----------------------------------------------------------------------------
(* Retention.                                                              *)

PruneReads(p) ==
  /\ p \notin pruner /\ status \in {"DELIVERED", "DEAD"} /\ pruner' = pruner \cup {p}
  /\ UNCHANGED <<rowVars, endpoint, received, sweep, manager>>

\* Variant with a bug: the ids are deleted without another look at the status.
PruneByIds(p) ==
  /\ p \in pruner /\ pruner' = pruner \ {p} /\ status' = "gone"
  /\ UNCHANGED <<due, windowOpen, claimToken, endpoint, received, sweep, manager>>

PruneDeletes(p) ==
  /\ p \in pruner /\ pruner' = pruner \ {p}
  /\ status' = IF status \in {"DELIVERED", "DEAD"} THEN "gone" ELSE status
  /\ UNCHANGED <<due, windowOpen, claimToken, endpoint, received, sweep, manager>>

Next ==
  \/ ComesDue \/ WindowCloses \/ EditEndpoint
  \/ \E s \in Sweep : Claim(s) \/ Load(s) \/ Send(s) \/ Record(s) \/ SweepStops(s)
  \/ \E m \in Manager : RedeliverLoads(m) \/ RedeliverFinds(m) \/ Redeliver(m)
  \/ \E p \in Pruner : PruneReads(p) \/ PruneDeletes(p)

Spec == Init /\ [][Next]_vars

\* The sweep is scheduled for ever and time passes; a sweep may die anywhere and be
\* overtaken anywhere, but again and again one gets on within its lease: a send is
\* cut off after ten seconds, the lease is five minutes.
Fairness ==
  /\ WF_vars(ComesDue) /\ WF_vars(WindowCloses)
  /\ SF_vars(\E s \in Sweep : Claim(s))
  /\ SF_vars(\E s \in Sweep : Guard(s) /\ Load(s))
  /\ SF_vars(\E s \in Sweep : Guard(s) /\ Send(s))
  /\ SF_vars(\E s \in Sweep : Guard(s) /\ Record(s))

FairSpec == Spec /\ Fairness

-----------------------------------------------------------------------------
(* Properties.                                                             *)

\* While the latest attempt is under way nobody else decides its delivery: no
\* late result of an earlier claim, no redelivery, no retention.  (The send is
\* outside any transaction, and a slow sweep outlives its lease.)
LatestAttemptDecides ==
  \A s \in Sweep : Working(s) /\ claimToken = {s} => status = "PENDING"

\* DELIVERED is only said of a delivery the receiver accepted.
DeliveredWasReceived == status = "DELIVERED" => received

\* What was delivered is not sent again by a redeliver request that read an
\* older status while another one's redelivery went through.
DeliveredIsFinal == [][status = "DELIVERED" => status' \in {"DELIVERED", "gone"}]_vars

\* Retention never drops a delivery that is still owed, although it may have
\* been redelivered after its id was read.
OwedIsNeverPruned == [][status' = "gone" => status # "PENDING"]_vars

\* Every delivery is settled: whatever sweeps die or are overtaken, a pending row
\* is claimed again until it is delivered or its retry window is over.
EveryDeliverySettles == status = "PENDING" ~> status \in {"DELIVERED", "DEAD"}
=============================================================================
