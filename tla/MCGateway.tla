------------------------------ MODULE MCGateway ------------------------------
(* Instances of Gateway for TLC. *)
EXTENDS Gateway, TLC

MCOrigins == 1 .. (MaxTunnels + 2)
CallerSymmetry == Permutations(Callers)

\* TLC explores the tunnel before any OAuth request, with all callers and a named
\* tunnel; and the whole gateway while one caller at a time starts and stops quick
\* tunnels.  Of the tunnel OAuthServer sees only the public URL, and that still
\* takes every value it can.
OAuthAtRest == oauthVars = <<{}, {}, NoPage, [n \in CodeIds |-> NoCode], {}, 1, {}, FALSE,
                             [n \in CodeIds |-> NoConsent], [n \in CodeIds |-> "none"]>>
QuickOnly ==
  /\ Cardinality({c \in Callers : callers[c] # Idle}) <= 1
  /\ \A c \in Callers : callers[c].mode = "quick" /\ callers[c].task # "dns"
  /\ \A p \in Processes : kind[p] = "quick"
  /\ ~cloud /\ ~overlapped

EachPart ==
  \/ (TunnelNext \/ TunnelRestart) /\ OAuthAtRest /\ UNCHANGED oauthVars
  \/ GatewayNext /\ QuickOnly /\ QuickOnly'

PartsSpec == GatewayInit /\ [][EachPart]_gatewayVars
=============================================================================
