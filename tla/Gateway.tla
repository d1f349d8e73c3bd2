------------------------------- MODULE Gateway -------------------------------
(***************************************************************************)
(* The public side of Tautline: the OAuth server (OAuthServer) behind the  *)
(* tunnel (Tunnel).  baseURL asks tunnelManager.status for the public URL, *)
(* so what a token is good for depends on the tunnel that runs when it is  *)
(* issued and when it is used.                                             *)
(***************************************************************************)
EXTENDS Tunnel, OAuthServer

gatewayVars == <<tunnelVars, oauthVars>>

\* Without a tunnel a request is addressed by its Host header, always the same
\* one here.
Local == Domain + 1

\* baseURL, when the environment sets no public URL and config.json has none but
\* a custom domain's.
BaseURL == IF StatusURL = NoURL THEN Local ELSE StatusURL

\* Origins has every URL a page can be served at: quick tunnels' URLs, the custom
\* domain and the Host header.
ASSUME GatewayAssumption == 1 .. Local \subseteq Origins

Restart == TunnelRestart /\ OAuthRestart

GatewayInit == TunnelInit /\ OAuthInit

GatewayNext ==
  \/ TunnelNext /\ UNCHANGED oauthVars
  \/ OAuthNext(BaseURL) /\ UNCHANGED tunnelVars
  \/ Restart

GatewaySpec == GatewayInit /\ [][GatewayNext]_gatewayVars

\* See AdmittedByConsent.
ConsentedAccessOnly == AdmittedByConsent(BaseURL)
=============================================================================
