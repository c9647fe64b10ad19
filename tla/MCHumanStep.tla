---------------------------- MODULE MCHumanStep ----------------------------
(* HumanStep for TLC. *)
EXTENDS HumanStep, TLC

Symmetry == Permutations(User)
=============================================================================
