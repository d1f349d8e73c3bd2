------------------------- MODULE MCProcessSessions --------------------------
(* Instances of ProcessSessions for TLC. *)
EXTENDS ProcessSessions
=============================================================================
