----------------------------- MODULE MCFanOut -----------------------------
(* FanOut for TLC. *)
EXTENDS FanOut
=============================================================================
