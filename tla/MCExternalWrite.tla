-------------------------- MODULE MCExternalWrite --------------------------
(* ExternalWrite for TLC. *)
EXTENDS ExternalWrite, TLC

AttemptsAreAlike == Permutations(Attempt)
=============================================================================
