---------------------------- MODULE MCAutomation ----------------------------
(* Automation for TLC. *)
EXTENDS Automation, TLC

Alike == Permutations(Delivery) \cup Permutations(Occurrence) \cup Permutations(Subject)
=============================================================================
