------------------------- MODULE MCRunFinalization -------------------------
(* RunFinalization for TLC. *)
EXTENDS RunFinalization, TLC

AttemptsAreAlike == Permutations(Canceller)
=============================================================================
