--------------------------- MODULE MCAgentManager ---------------------------
(* Instances of AgentManager for TLC. *)
EXTENDS AgentManager, TLC

RunSymmetry == Permutations(RunIds)
=============================================================================
