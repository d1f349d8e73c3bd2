-------------------------- MODULE MCRelayDelivery ---------------------------
(* Instances of RelayDelivery for TLC. *)
EXTENDS RelayDelivery
=============================================================================
