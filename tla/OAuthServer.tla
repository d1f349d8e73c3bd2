----------------------------- MODULE OAuthServer -----------------------------
(***************************************************************************)
(* oauthServer of oauth.go: clients register, the owner approves a client  *)
(* on a page by typing the owner token, the client redeems the code for an *)
(* access and a refresh token, and requireBearer lets a request through    *)
(* whose token was issued for the URL it is served at.                     *)
(*                                                                         *)
(* Clients and codes are the only state; tokens are signed with the owner  *)
(* token and checked without any.  The public URL is no state of this      *)
(* module: every action that calls baseURL has it as a parameter.          *)
(* Redirect URIs, PKCE and scopes are right or wrong together; which       *)
(* redirect URIs may be registered is left out.                            *)
(***************************************************************************)
EXTENDS Integers, FiniteSets

CONSTANTS
  Registrable,     \* client ids register may hand out
  Legacy,          \* "chatgpt.com", known without a registration
  Omitted,         \* a token request without client_id
  Paths,           \* canonicalMCPPath and versionedMCPPath
  Origins,         \* the values of baseURL
  OwnerTokenSet,   \* TAUTLINE_OWNER_TOKEN is set: it outlives the process
  NoPage,
  MaxCodes,        \* bound of the model: approvals
  MaxLives         \* bound of the model: starts of the server

ASSUME OAuthAssumption ==
  /\ Legacy \notin Registrable /\ Omitted \notin Registrable \cup {Legacy}
  /\ OwnerTokenSet \in BOOLEAN
  /\ MaxCodes \in Nat /\ MaxLives \in Nat \ {0}

VARIABLES
  clients,    \* o.clients, without the legacy one
  registry,   \* the clients in oauth-clients.json
  page,       \* the approval page the owner has open
  codes,      \* o.codes
  tokens,     \* tokens handed out and not expired
  life,       \* starts of the server so far
  acked,      \* history: clients whose registration was answered 201
  torn,       \* history: the registry was removed and not replaced since
  consents,   \* history: what the owner approved, by code
  outcome     \* history: what the first presentation of a code led to

oauthVars == <<clients, registry, page, codes, tokens, life, acked, torn, consents, outcome>>

ClientIds == Registrable \cup {Legacy}
CodeIds   == 1 .. MaxCodes
Lives     == 1 .. MaxLives
Resource  == [origin : Origins, path : Paths]
Request   == [client : ClientIds, resource : Resource]

\* The key tokens are signed with: a generated owner token dies with its process.
Key == IF OwnerTokenSet THEN 1 ELSE life

Token == [kind : {"access", "refresh"}, client : ClientIds, resource : Resource,
          key : Lives, code : CodeIds]     \* code is history, no claim

Code == [state : {"open", "expired"}, client : ClientIds, resource : Resource]
NoCode == [state |-> "none"]

Approval == [key : Lives, client : ClientIds, resource : Resource]
NoConsent == [key |-> 0]

OAuthTypeOK ==
  /\ clients \subseteq Registrable /\ registry \subseteq Registrable /\ acked \subseteq Registrable
  /\ page \in Request \cup {NoPage}
  /\ codes \in [CodeIds -> Code \cup {NoCode}]
  /\ tokens \subseteq Token
  /\ life \in Lives /\ torn \in BOOLEAN
  /\ consents \in [CodeIds -> Approval \cup {NoConsent}]
  /\ outcome \in [CodeIds -> {"none", "tokens", "refused"}]

----------------------------------------------------------------------------
(* Registration.  o.mu is held until the registry was written or not. *)

\* Mutant of Register: the client is answered although it was not written.
RegisterUnsaved(c) ==
  /\ c \in Registrable \ (clients \cup acked)
  /\ clients' = clients \cup {c} /\ acked' = acked \cup {c}
  /\ UNCHANGED <<registry, page, codes, tokens, life, torn, consents, outcome>>

\* replaceOAuthStateFile renames over the old file; when that fails it removes
\* the old file first, and a second rename that fails leaves no file at all.
Register(c) ==
  /\ c \in Registrable \ (clients \cup acked)
  /\ \/ /\ clients' = clients \cup {c} /\ registry' = clients'
        /\ acked' = acked \cup {c} /\ torn' = ~(acked \subseteq clients)
     \/ /\ registry' = {} /\ torn' = TRUE
        /\ UNCHANGED <<clients, acked>>
  /\ UNCHANGED <<page, codes, tokens, life, consents, outcome>>

----------------------------------------------------------------------------
(* Approval *)

Known(c) == c \in clients \cup {Legacy}

\* GET /authorize: the page carries the resource of the URL it was served at.
Show(c, path, base) ==
  /\ Known(c)
  /\ page' = [client |-> c, resource |-> [origin |-> base, path |-> path]]
  /\ UNCHANGED <<clients, registry, codes, tokens, life, acked, torn, consents, outcome>>

\* The owner submits the page with the owner token.  By then the URL may have
\* changed, and the client may be gone with a restart.
Approve(n, base) ==
  /\ page # NoPage
  /\ Known(page.client)
  /\ page.resource.origin = base
  /\ consents[n] = NoConsent /\ \A m \in 1 .. (n - 1) : consents[m] # NoConsent
  /\ codes' = [codes EXCEPT ![n] =
       [state |-> "open", client |-> page.client, resource |-> page.resource]]
  /\ consents' = [consents EXCEPT ![n] =
       [key |-> Key, client |-> page.client, resource |-> page.resource]]
  /\ UNCHANGED <<clients, registry, page, tokens, life, acked, torn, outcome>>

\* Five minutes pass.  Nothing removes a code that is never presented.
CodeExpires(n) ==
  /\ codes[n].state = "open"
  /\ codes' = [codes EXCEPT ![n].state = "expired"]
  /\ UNCHANGED <<clients, registry, page, tokens, life, acked, torn, consents, outcome>>

----------------------------------------------------------------------------
(* Tokens *)

\* A request may leave client_id out for the legacy client only.
Names(id, client) == id = client \/ (id = Omitted /\ client = Legacy)

Pair(client, resource, n) ==
  {[kind |-> k, client |-> client, resource |-> resource, key |-> Key, code |-> n] :
     k \in {"access", "refresh"}}

\* Mutant of Exchange: the code is deleted once it has proved right.
ExchangeKeepsRefused(n, id, resource, proven) ==
  /\ codes[n].state # "none"
  /\ IF /\ codes[n].state = "open" /\ proven /\ Names(id, codes[n].client)
        /\ resource = codes[n].resource
     THEN /\ tokens' = tokens \cup Pair(codes[n].client, codes[n].resource, n)
          /\ outcome' = [outcome EXCEPT ![n] = "tokens"]
          /\ codes' = [codes EXCEPT ![n] = NoCode]
     ELSE /\ outcome' = [outcome EXCEPT ![n] = "refused"]
          /\ UNCHANGED <<tokens, codes>>
  /\ UNCHANGED <<clients, registry, page, life, acked, torn, consents>>

\* exchangeAuthorizationCode: the code is taken out before anything is checked.
\* proven: redirect URI and code verifier match; a resource left out is the code's.
Exchange(n, id, resource, proven) ==
  /\ codes[n].state # "none"
  /\ codes' = [codes EXCEPT ![n] = NoCode]
  /\ IF /\ codes[n].state = "open" /\ proven /\ Names(id, codes[n].client)
        /\ resource = codes[n].resource
     THEN /\ tokens' = tokens \cup Pair(codes[n].client, codes[n].resource, n)
          /\ outcome' = [outcome EXCEPT ![n] = "tokens"]
     ELSE /\ outcome' = [outcome EXCEPT ![n] = "refused"]
          /\ UNCHANGED tokens
  /\ UNCHANGED <<clients, registry, page, life, acked, torn, consents>>

\* validateSignedToken, but for the expiry that takes a token out of tokens.
Valid(t, kind) == t.kind = kind /\ t.key = Key

\* Mutant of Refresh: the new tokens are for the URL they are asked at.
RefreshHere(t, id, base) ==
  /\ t \in tokens /\ Valid(t, "refresh")
  /\ Names(id, t.client)
  /\ tokens' = tokens \cup Pair(t.client, [t.resource EXCEPT !.origin = base], t.code)
  /\ UNCHANGED <<clients, registry, page, codes, life, acked, torn, consents, outcome>>

\* exchangeRefreshToken: a refresh token is not used up, and keeps its resource.
Refresh(t, id, base) ==
  /\ t \in tokens /\ Valid(t, "refresh")
  /\ Names(id, t.client)
  /\ tokens' = tokens \cup Pair(t.client, t.resource, t.code)
  /\ UNCHANGED <<clients, registry, page, codes, life, acked, torn, consents, outcome>>

Expires(t) ==
  /\ t \in tokens
  /\ tokens' = tokens \ {t}
  /\ UNCHANGED <<clients, registry, page, codes, life, acked, torn, consents, outcome>>

\* requireBearer for a request at a path, which changes nothing.
Admits(t, path, base) ==
  /\ Valid(t, "access")
  /\ t.resource = [origin |-> base, path |-> path]

----------------------------------------------------------------------------

\* The server stops, perhaps between removing the registry and renaming the new
\* one over it, and starts again with what loadClients finds.
OAuthRestart ==
  /\ life < MaxLives
  /\ life' = life + 1
  /\ \/ registry' = registry /\ torn' = torn
     \/ registry' = {} /\ torn' = TRUE
  /\ clients' = registry'
  /\ codes' = [n \in CodeIds |-> NoCode]
  /\ UNCHANGED <<page, tokens, acked, consents, outcome>>

OAuthInit ==
  /\ clients = {} /\ registry = {} /\ acked = {} /\ torn = FALSE
  /\ page = NoPage
  /\ codes = [n \in CodeIds |-> NoCode]
  /\ tokens = {} /\ life = 1
  /\ consents = [n \in CodeIds |-> NoConsent]
  /\ outcome = [n \in CodeIds |-> "none"]

OAuthNext(base) ==
  \/ \E c \in Registrable : Register(c)
  \/ \E c \in ClientIds, path \in Paths : Show(c, path, base)
  \/ \E n \in CodeIds :
       \/ Approve(n, base) \/ CodeExpires(n)
       \/ \E id \in ClientIds \cup {Omitted}, resource \in Resource, proven \in BOOLEAN :
            Exchange(n, id, resource, proven)
  \/ \E t \in tokens : Expires(t) \/ \E id \in ClientIds \cup {Omitted} : Refresh(t, id, base)

----------------------------------------------------------------------------
(* Properties *)

\* Whatever requireBearer would let in now, at the URL Tautline now has, the
\* owner approved: that client, for this URL and path, with the owner token that
\* is still in force.  Codes, refreshes, restarts and changes of the tunnel lie
\* between the approval and the request.
AdmittedByConsent(base) ==
  \A t \in tokens, path \in Paths :
    Admits(t, path, base) =>
      consents[t.code] = [key |-> Key, client |-> t.client,
                          resource |-> [origin |-> base, path |-> path]]

\* The first presentation of a code settles it: a code that was refused, or that
\* gave tokens, never gives any again.
CodeSettledOnce ==
  [][\A n \in CodeIds : outcome[n] # "none" => outcome'[n] = outcome[n]]_oauthVars

\* Every client that was told it is registered is known, and is in the file a
\* restart reads, unless the file was removed and its replacement failed.
RegistrationDurable ==
  ~torn => acked \subseteq clients /\ registry = clients
=============================================================================
