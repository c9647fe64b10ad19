---------------------------- MODULE EffectOnce ----------------------------
(***************************************************************************)
(* What the external-write ledger promises of a step that changes          *)
(* something outside the platform: each pass over the step has at most one *)
(* effect, and what the workflow is told the pass produced is that effect. *)
(***************************************************************************)
CONSTANTS Pass,      \* passes over the step
          Effect     \* effects that can happen

VARIABLES happened,  \* happened[p]: the effects pass p has had outside
          told       \* told[p]: the effects the workflow was told pass p had

vars == <<happened, told>>

Init == /\ happened = [p \in Pass |-> {}]
        /\ told = [p \in Pass |-> {}]

Happen(p, e) == /\ happened[p] = {}
                /\ happened' = [happened EXCEPT ![p] = {e}]
                /\ UNCHANGED told

Tell(p) == /\ happened[p] # {}
           /\ told' = [told EXCEPT ![p] = happened[p]]
           /\ UNCHANGED happened

Next == \E p \in Pass : Tell(p) \/ \E e \in Effect : Happen(p, e)

Spec == Init /\ [][Next]_vars
=============================================================================
