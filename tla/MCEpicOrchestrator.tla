------------------------ MODULE MCEpicOrchestrator ------------------------
(* EpicOrchestrator for TLC. *)
EXTENDS EpicOrchestrator, TLC
=============================================================================
