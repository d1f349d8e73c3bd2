----------------------------- MODULE ExternalMCP -----------------------------
(***************************************************************************)
(* externalMCPManager of external_mcp.go: the external MCP servers whose   *)
(* tools Tautline republishes.  Dashboard requests add, toggle, replace    *)
(* and remove server configurations; tool calls connect on demand and      *)
(* retry once.  connectMu is held for a whole connect or disconnect; the   *)
(* configuration store and the connection map have locks of their own that *)
(* are held for one step only, so configuration and connection may change  *)
(* under a request between any two of its steps.                           *)
(*                                                                         *)
(* A configuration is "absent", "disabled" or "enabled"; a client is a     *)
(* number, new for each client opened; the tools of a server are published *)
(* and withdrawn together.  Transports, OAuth, tool schemas, names and     *)
(* validation of configurations are abstracted to: opening may fail, and a *)
(* tool name may already be taken.                                         *)
(***************************************************************************)
EXTENDS Integers, FiniteSets

CONSTANTS
  Servers,       \* configuration ids
  Admins,        \* concurrent dashboard requests
  Callers,       \* concurrent calls of republished tools
  NoServer, NoActor,
  Operations,    \* the dashboard operations made, a subset of AllOperations
  SavesFail,     \* whether writing config.json may fail
  MaxClients     \* bound of the model: clients opened

AllOperations == {"add", "connect", "disconnect", "update", "remove"}
Actors == Admins \cup Callers

ASSUME ExternalAssumption ==
  /\ NoServer \notin Servers /\ NoActor \notin Actors
  /\ Admins \cap Callers = {}
  /\ Operations \subseteq AllOperations
  /\ SavesFail \in BOOLEAN
  /\ MaxClients \in Nat

VARIABLES
  config,      \* store.value.MCPServers
  connection,  \* m.connections
  tools,       \* servers whose tools the MCP server publishes
  stray,       \* history: servers that a store of the configuration left up
  opened,      \* clients opened so far
  open,        \* clients not closed by us
  lost,        \* clients whose server went away
  connectMu,   \* who holds it
  actors       \* where each request or call stands

vars == <<config, connection, tools, stray, opened, open, lost, connectMu, actors>>

Configs  == [Servers -> {"absent", "disabled", "enabled"}]
Clients  == 1 .. MaxClients
NoClient == 0

Connection == [there : BOOLEAN,                    \* a key of the map
               client : Clients \cup {NoClient},   \* NoClient when lost
               tools : BOOLEAN]                    \* publicTools is not empty
Nothing == [there |-> FALSE, client |-> NoClient, tools |-> FALSE]

Positions == {"idle", "disconnecting", "storing", "connecting", "opening", "opened", "taken",
              "needing", "reread", "calling"}

Actor == [at : Positions,
          server : Servers \cup {NoServer},
          candidate : Configs,                     \* what updateConfig will store
          then : {"idle", "storing"},              \* what follows the disconnect
          client : Clients \cup {NoClient},
          retried : BOOLEAN]

Idle == [at |-> "idle", server |-> NoServer, candidate |-> [s \in Servers |-> "absent"],
         then |-> "idle", client |-> NoClient, retried |-> FALSE]

ExternalTypeOK ==
  /\ config \in Configs
  /\ connection \in [Servers -> Connection]
  /\ tools \subseteq Servers /\ stray \subseteq Servers
  /\ opened \in 0 .. MaxClients
  /\ open \subseteq Clients /\ lost \subseteq Clients
  /\ connectMu \in Actors \cup {NoActor}
  /\ actors \in [Actors -> Actor]

----------------------------------------------------------------------------
(* Helpers *)

At(a, at)    == actors[a].at = at
Server(a)    == actors[a].server
Goes(a, at)  == actors' = [actors EXCEPT ![a].at = at]
Returns(a)   == actors' = [actors EXCEPT ![a] = Idle]

\* A dashboard request is through when connect returns; a tool call looks the
\* client up again after a connect that worked.
Connected(a)  == IF a \in Callers THEN Goes(a, "reread") ELSE Returns(a)

\* Servers that `new` does not enable and that are connected, or about to be.
LeftUp(new) ==
  {s \in Servers : /\ new[s] # "enabled"
                   /\ connection[s].there \/ (connectMu # NoActor /\ Server(connectMu) = s)}

\* store.update assigns the new value before it writes the file: a failed
\* write is an error to the request, which returns, but the value stays.
Update(a, new, next) ==
  /\ config' = new
  /\ \/ actors' = [actors EXCEPT ![a] = next]
     \/ SavesFail /\ Returns(a)
  /\ stray' = IF actors'[a].at = "disconnecting" THEN stray ELSE stray \cup LeftUp(new)

----------------------------------------------------------------------------
(* Dashboard requests, up to their first lock or store access *)

Request(a, s, at) == [Idle EXCEPT !.at = at, !.server = s]

\* addConfig; normalizeExternalMCPConfigs refuses a duplicate id.
AddConfig(a, s, value) ==
  /\ "add" \in Operations /\ At(a, "idle")
  /\ config[s] = "absent"
  /\ Update(a, [config EXCEPT ![s] = value],
            IF value = "enabled" THEN Request(a, s, "connecting") ELSE Idle)
  /\ UNCHANGED <<connection, tools, opened, open, lost, connectMu>>

\* setEnabled, for the dashboard's connect and disconnect.
SetEnabled(a, s, operation) ==
  /\ operation \in Operations /\ At(a, "idle")
  /\ config[s] # "absent"
  /\ IF operation = "connect"
     THEN Update(a, [config EXCEPT ![s] = "enabled"], Request(a, s, "connecting"))
     ELSE Update(a, [config EXCEPT ![s] = "disabled"], Request(a, s, "disconnecting"))
  /\ UNCHANGED <<connection, tools, opened, open, lost, connectMu>>

\* updateConfig takes its candidate list, then disconnects, then stores it.
UpdateConfig(a, s, value) ==
  /\ "update" \in Operations /\ At(a, "idle")
  /\ config[s] # "absent"
  /\ actors' = [actors EXCEPT ![a] = [Request(a, s, "disconnecting") EXCEPT
                  !.candidate = [config EXCEPT ![s] = value], !.then = "storing"]]
  /\ UNCHANGED <<stray, config, connection, tools, opened, open, lost, connectMu>>

StoreCandidate(a) ==
  /\ At(a, "storing") /\ actors[a].candidate[Server(a)] # "absent"
  /\ Update(a, actors[a].candidate, Request(a, Server(a), "connecting"))
  /\ UNCHANGED <<connection, tools, opened, open, lost, connectMu>>

\* removeConfig disconnects, then filters the list the store has by then.
RemoveConfig(a, s) ==
  /\ "remove" \in Operations /\ At(a, "idle")
  /\ config[s] # "absent"
  /\ actors' = [actors EXCEPT ![a] = [Request(a, s, "disconnecting") EXCEPT !.then = "storing"]]
  /\ UNCHANGED <<stray, config, connection, tools, opened, open, lost, connectMu>>

StoreRemoval(a) ==
  /\ At(a, "storing") /\ actors[a].candidate[Server(a)] = "absent"
  /\ Update(a, [config EXCEPT ![Server(a)] = "absent"], Idle)
  /\ UNCHANGED <<connection, tools, opened, open, lost, connectMu>>

----------------------------------------------------------------------------
(* connect and disconnect *)

\* Mutant of DropConnection: the tools stay published.
DropConnectionOnly(s) ==
  /\ connection' = [connection EXCEPT ![s] = Nothing]
  /\ open' = open \ {connection[s].client}
  /\ UNCHANGED tools

\* takeConnection, DeleteTools and Close, under connectMu.
DropConnection(s) ==
  /\ connection' = [connection EXCEPT ![s] = Nothing]
  /\ tools' = IF connection[s].tools THEN tools \ {s} ELSE tools
  /\ open' = open \ {connection[s].client}

Disconnect(a) ==
  /\ At(a, "disconnecting") /\ connectMu = NoActor
  /\ DropConnection(Server(a))
  /\ stray' = stray \ {Server(a)}
  /\ Goes(a, actors[a].then)
  /\ UNCHANGED <<config, opened, lost, connectMu>>

\* Mutant of ConnectBegins: the configuration is not read again.
ConnectBeginsBlindly(a) ==
  /\ At(a, "connecting") /\ connectMu = NoActor
  /\ connectMu' = a
  /\ Goes(a, "opening")
  /\ UNCHANGED <<stray, config, connection, tools, opened, open, lost>>

\* connect reads the configuration once it has the lock.
ConnectBegins(a) ==
  /\ At(a, "connecting") /\ connectMu = NoActor
  /\ IF config[Server(a)] = "enabled"
     THEN connectMu' = a /\ Goes(a, "opening")
     ELSE connectMu' = NoActor /\ Returns(a)
  /\ UNCHANGED <<stray, config, connection, tools, opened, open, lost>>

\* Mutant of OpenFails: the lock is not released.
OpenFailsLocked(a) ==
  /\ At(a, "opening")
  /\ connection' = [connection EXCEPT ![Server(a)].there = TRUE]
  /\ Returns(a)
  /\ UNCHANGED <<stray, config, tools, opened, open, lost, connectMu>>

\* openClient, or buildExternalMCPTools on what it listed, fails.
OpenFails(a) ==
  /\ At(a, "opening")
  /\ connection' = [connection EXCEPT ![Server(a)].there = TRUE]
  /\ connectMu' = NoActor
  /\ Returns(a)
  /\ UNCHANGED <<stray, config, tools, opened, open, lost>>

OpenClient(a) ==
  /\ At(a, "opening") /\ opened < MaxClients
  /\ opened' = opened + 1
  /\ open' = open \cup {opened + 1}
  /\ actors' = [actors EXCEPT ![a] = [@ EXCEPT !.at = "opened", !.client = opened + 1]]
  /\ UNCHANGED <<stray, config, connection, tools, lost, connectMu>>

TakePrevious(a) ==
  /\ At(a, "opened")
  /\ DropConnection(Server(a))
  /\ Goes(a, "taken")
  /\ UNCHANGED <<stray, config, opened, lost, connectMu>>

Publish(a) ==
  /\ At(a, "taken")
  /\ connection' = [connection EXCEPT ![Server(a)] =
                      [there |-> TRUE, client |-> actors[a].client, tools |-> TRUE]]
  /\ tools' = tools \cup {Server(a)}
  /\ connectMu' = NoActor
  /\ Connected(a)
  /\ UNCHANGED <<stray, config, opened, open, lost>>

\* Mutant of Refuse: the new client is not closed.
RefuseLeavesOpen(a) ==
  /\ At(a, "taken")
  /\ connection' = [connection EXCEPT ![Server(a)].there = TRUE]
  /\ connectMu' = NoActor
  /\ Returns(a)
  /\ UNCHANGED <<stray, config, tools, opened, open, lost>>

\* One of the names is already registered: the new client is closed.
Refuse(a) ==
  /\ At(a, "taken")
  /\ connection' = [connection EXCEPT ![Server(a)].there = TRUE]
  /\ open' = open \ {actors[a].client}
  /\ connectMu' = NoActor
  /\ Returns(a)
  /\ UNCHANGED <<stray, config, tools, opened, lost>>

----------------------------------------------------------------------------
(* The remote ends *)

ServerDies(k) ==
  /\ k \in open \ lost
  /\ lost' = lost \cup {k}
  /\ UNCHANGED <<stray, config, connection, tools, opened, open, connectMu, actors>>

\* markConnectionLost, when the map still has this client.
MarkConnectionLost(s, k) ==
  IF k # NoClient /\ connection[s].client = k
  THEN /\ connection' = [connection EXCEPT ![s].client = NoClient]
       /\ open' = open \ {k}
  ELSE UNCHANGED <<connection, open>>

\* OnConnectionLost: it may be missed when the client was not yet stored.
ConnectionLost(s) ==
  /\ connection[s].client \in lost
  /\ MarkConnectionLost(s, connection[s].client)
  /\ UNCHANGED <<stray, config, tools, opened, lost, connectMu, actors>>

----------------------------------------------------------------------------
(* Tool calls *)

CallTool(c, s) ==
  /\ At(c, "idle")
  /\ s \in tools
  /\ actors' = [actors EXCEPT ![c] = Request(c, s, "needing")]
  /\ UNCHANGED <<stray, config, connection, tools, opened, open, lost, connectMu>>

\* clientForCall: the client of the map, or connect and look again.
Uses(c, k) == actors' = [actors EXCEPT ![c] = [@ EXCEPT !.at = "calling", !.client = k]]

ClientForCall(c) ==
  LET k == connection[Server(c)].client
  IN  /\ At(c, "needing")
      /\ IF k # NoClient THEN Uses(c, k) ELSE Goes(c, "connecting")
      /\ UNCHANGED <<stray, config, connection, tools, opened, open, lost, connectMu>>

ClientAfterConnect(c) ==
  LET k == connection[Server(c)].client
  IN  /\ At(c, "reread")
      /\ IF k # NoClient THEN Uses(c, k) ELSE Returns(c)
      /\ UNCHANGED <<stray, config, connection, tools, opened, open, lost, connectMu>>

CallSucceeds(c) ==
  /\ At(c, "calling") /\ actors[c].client \in open \ lost
  /\ Returns(c)
  /\ UNCHANGED <<stray, config, connection, tools, opened, open, lost, connectMu>>

\* An error or a closed client: the connection is marked lost and the call
\* made a second time, once.
CallFails(c) ==
  /\ At(c, "calling")
  /\ MarkConnectionLost(Server(c), actors[c].client)
  /\ IF actors[c].retried
     THEN Returns(c)
     ELSE actors' = [actors EXCEPT ![c] = [Request(c, Server(c), "needing") EXCEPT !.retried = TRUE]]
  /\ UNCHANGED <<stray, config, tools, opened, lost, connectMu>>

----------------------------------------------------------------------------
\* The process starts with the configurations of config.json; startConfigured
\* connects the enabled ones as a dashboard's connect would.
ExternalInit ==
  /\ config \in Configs
  /\ connection = [s \in Servers |-> Nothing]
  /\ tools = {} /\ stray = {} /\ opened = 0 /\ open = {} /\ lost = {}
  /\ connectMu = NoActor
  /\ actors = [a \in Actors |-> Idle]

AdminStep(a) ==
  \/ \E s \in Servers, value \in {"disabled", "enabled"} : AddConfig(a, s, value) \/ UpdateConfig(a, s, value)
  \/ \E s \in Servers, operation \in {"connect", "disconnect"} : SetEnabled(a, s, operation)
  \/ \E s \in Servers : RemoveConfig(a, s)
  \/ StoreCandidate(a) \/ StoreRemoval(a)

Connecting(a) ==
  \/ Disconnect(a) \/ ConnectBegins(a)
  \/ OpenFails(a) \/ OpenClient(a) \/ TakePrevious(a) \/ Publish(a) \/ Refuse(a)

CallStep(c) ==
  ClientForCall(c) \/ ClientAfterConnect(c) \/ CallSucceeds(c) \/ CallFails(c)

ExternalNext ==
  \/ \E a \in Admins : AdminStep(a)
  \/ \E a \in Actors : Connecting(a)
  \/ \E c \in Callers : CallStep(c) \/ \E s \in Servers : CallTool(c, s)
  \/ \E k \in Clients : ServerDies(k)
  \/ \E s \in Servers : ConnectionLost(s)

ExternalSpec == ExternalInit /\ [][ExternalNext]_vars

(***************************************************************************)
(* Whoever holds connectMu goes on: opening a client ends by its timeout.  *)
(***************************************************************************)
ExternalFairness ==
  \A a \in Actors : WF_vars(OpenFails(a) \/ OpenClient(a) \/ TakePrevious(a) \/ Publish(a) \/ Refuse(a))

FairExternalSpec == ExternalSpec /\ ExternalFairness

----------------------------------------------------------------------------
(* Properties *)

Busy(s) == \E a \in Actors : connectMu = a /\ Server(a) = s

\* A tool is published exactly when the connection record that would withdraw
\* it again says so: whatever requests, failed opens, lost connections and
\* refused names come together, no tool is left that nothing will withdraw and
\* none is withdrawn that the record still counts.
ToolsMatchConnections ==
  \A s \in Servers : ~Busy(s) => (s \in tools <=> connection[s].tools)

\* Every client process or session that is open belongs to one connection, or
\* to the connect that is about to store it; no connection has a closed one.
ClientsOwned ==
  LET stored  == {connection[s].client : s \in Servers} \ {NoClient}
      pending == {actors[a].client : a \in {b \in Actors : At(b, "opened") \/ At(b, "taken")}}
  IN  /\ open = stored \cup pending
      /\ stored \cap pending = {}
      /\ \A s, t \in Servers :
           connection[s].client = connection[t].client /\ s # t => connection[s].client = NoClient

\* A server that is disabled or removed stays down: once the request is
\* through, no late connect, retry or concurrent request brings its tools back.
\* The only servers left up are those in `stray`: the write of config.json
\* failed, and the request with it; a tool call reconnected the server between
\* the disconnect and the store of updateConfig or removeConfig; or
\* updateConfig stored a list copied before another server was enabled.
DisabledStaysDown ==
  \A s \in Servers \ stray :
    config[s] # "enabled" /\ (\A a \in Actors : Server(a) # s)
      => s \notin tools /\ connection[s].client = NoClient

\* Nobody holds connectMu for ever, whichever way a connect ends; every other
\* connect and disconnect of every server waits for it.
LockReleased == \A a \in Actors : connectMu = a ~> connectMu # a

=============================================================================
