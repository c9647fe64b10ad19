------------------------ MODULE MCCallbackDelivery ------------------------
(* CallbackDelivery for TLC. *)
EXTENDS CallbackDelivery
=============================================================================
