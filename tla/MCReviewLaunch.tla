--------------------------- MODULE MCReviewLaunch ---------------------------
(* ReviewLaunch for TLC. *)
EXTENDS ReviewLaunch
=============================================================================
