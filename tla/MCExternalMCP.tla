---------------------------- MODULE MCExternalMCP ----------------------------
(* Instances of ExternalMCP for TLC. *)
EXTENDS ExternalMCP
=============================================================================
