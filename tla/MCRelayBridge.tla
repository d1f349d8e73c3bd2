--------------------------- MODULE MCRelayBridge ----------------------------
(* Instances of RelayBridge for TLC. *)
EXTENDS RelayBridge
=============================================================================
