----------------------------- MODULE MCLightpanda ----------------------------
(* Instances of Lightpanda for TLC. *)
EXTENDS Lightpanda, TLC

LightpandaSymmetry == Permutations(Dashboards) \cup Permutations(ToolCalls)

\* The server and the native client share no state, and every property is about
\* one of them: TLC explores each while the other has not begun.  Every state of
\* one half that LightpandaSpec reaches is still reached, their products are not.
EachHalf ==
  \/ ServerStep /\ nativeVars = <<None, Nobody, [n \in Clients |-> "none"],
                                  [c \in ToolCalls |-> IdleCall], 0, FALSE, {},
                                  [c \in ToolCalls |-> "none"], [c \in ToolCalls |-> 0]>>
  \/ NativeStep /\ serverVars = <<None, FALSE, FALSE, FALSE, [p \in Servers |-> "none"],
                                  [d \in Dashboards |-> IdleRequest]>>

HalvesSpec == LightpandaInit /\ [][EachHalf]_browserVars
=============================================================================
