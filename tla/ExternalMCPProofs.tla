-------------------------- MODULE ExternalMCPProofs --------------------------
(***************************************************************************)
(* Proofs about ExternalMCP, for any number of servers, dashboard requests *)
(* and tool calls: the published tools and the open clients are those of   *)
(* the connections, and a disabled server stays down.                      *)
(***************************************************************************)
EXTENDS ExternalMCP, TLAPS

Typed == /\ ExternalTypeOK
         /\ \A a \in Actors : actors[a].at # "idle" => Server(a) \in Servers

\* Where an actor holds connectMu, and where it has a client that it alone knows.
Holds(a) == actors[a].at \in {"opening", "opened", "taken"}
Has(a)   == actors[a].at \in {"opened", "taken"}

Locked ==
  /\ \A a \in Actors : Holds(a) <=> connectMu = a
  /\ \A a \in Actors : Has(a) => actors[a].client # NoClient
  /\ \A a \in Actors : At(a, "taken") => connection[Server(a)].client = NoClient

Owned ==
  /\ \A k \in open : k <= opened
  /\ \A k \in Clients : k \in open <=> \/ \E s \in Servers : connection[s].client = k
                                       \/ \E a \in Actors : Has(a) /\ actors[a].client = k
  /\ \A s \in Servers, a \in Actors :
       Has(a) /\ connection[s].client # NoClient => connection[s].client # actors[a].client
  /\ \A s, t \in Servers :
       connection[s].client = connection[t].client /\ s # t => connection[s].client = NoClient

\* What the record of a connection says of its tools is so.
Recorded ==
  \A s \in Servers :
    /\ s \in tools <=> connection[s].tools
    /\ ~connection[s].there => ~connection[s].tools /\ connection[s].client = NoClient

\* A server has a connection, or somebody is about to give it one.
Up(s) == connection[s].there \/ (connectMu # NoActor /\ Server(connectMu) = s)

\* A server that should be down and is not will be disconnected.
GoesDown ==
  \A s \in Servers \ stray : config[s] # "enabled" /\ Up(s) =>
    \E a \in Actors : At(a, "disconnecting") /\ Server(a) = s

XInv == Typed /\ Locked /\ Owned /\ Recorded /\ GoesDown

----------------------------------------------------------------------------
(* The helpers *)

Locking == {"opening", "opened", "taken"}

LEMMA IdleFits ==
  /\ Idle \in Actor /\ Idle.at = "idle" /\ Idle.server = NoServer /\ Idle.client = NoClient
  BY DEF Idle, Actor, Positions, Configs

LEMMA RequestFits ==
  ASSUME NEW a, NEW s \in Servers, NEW at \in Positions
  PROVE  /\ Request(a, s, at) \in Actor
         /\ Request(a, s, at).at = at /\ Request(a, s, at).server = s
  BY IdleFits DEF Request, Actor

\* The actor that takes a step, and the others.
LEMMA OneActor ==
  ASSUME Typed, NEW a \in Actors, NEW new \in Actor, actors' = [actors EXCEPT ![a] = new]
  PROVE  /\ actors' \in [Actors -> Actor]
         /\ actors'[a] = new /\ \A b \in Actors : b # a => actors'[b] = actors[b]
  BY DEF Typed, ExternalTypeOK

LEMMA ActorGoes ==
  ASSUME Typed, NEW a \in Actors, NEW at \in Positions, Goes(a, at)
  PROVE  \E new \in Actor : /\ actors' = [actors EXCEPT ![a] = new]
                            /\ new.at = at /\ new.server = Server(a) /\ new.client = actors[a].client
<1>1. actors[a] \in Actor
  BY DEF Typed, ExternalTypeOK
<1>2. PICK new \in Actor : new = [actors[a] EXCEPT !.at = at]
  BY <1>1 DEF Actor
<1>3. actors' = [actors EXCEPT ![a] = new]
  BY <1>2 DEF Goes
<1>4. new.at = at /\ new.server = Server(a) /\ new.client = actors[a].client
  BY <1>1, <1>2 DEF Actor, Server
<1> QED
  BY <1>3, <1>4

\* An actor that has given up connectMu has returned, or will look its client up again.
LEMMA ActorConnected ==
  ASSUME Typed, NEW a \in Actors, Connected(a), Server(a) \in Servers
  PROVE  \E new \in Actor : /\ actors' = [actors EXCEPT ![a] = new]
                            /\ new.at \in {"idle", "reread"}
                            /\ new.at # "idle" => new.server = Server(a)
<1>1. CASE a \in Callers
  BY <1>1, ActorGoes DEF Connected, Positions
<1>2. CASE a \notin Callers
  BY <1>2, IdleFits DEF Connected, Returns
<1> QED
  BY <1>1, <1>2

LEMMA NoActorHolds ==
  ASSUME Typed, Locked, connectMu = NoActor
  PROVE  \A a \in Actors : ~Holds(a) /\ ~Has(a)
  BY ExternalAssumption DEF Locked, Holds, Has

----------------------------------------------------------------------------
(* Steps outside connectMu *)

\* Whoever holds connectMu is where it was.
HoldersStay == \A a \in Actors : /\ actors'[a].at \in Locking <=> Holds(a)
                                 /\ Holds(a) => actors'[a] = actors[a]

LEMMA OutsideStep ==
  ASSUME Typed, NEW a \in Actors, NEW new \in Actor, actors' = [actors EXCEPT ![a] = new],
         ~Holds(a), new.at \notin Locking
  PROVE  HoldersStay
  BY OneActor DEF HoldersStay, Holds, Locking

\* Marking a connection lost, and nothing else, keeps what the lock protects.
LEMMA LostKeeps ==
  ASSUME Typed, Typed', Locked, Owned, Recorded, HoldersStay,
         NEW s, NEW k \in Clients \cup {NoClient}, k # NoClient => s \in Servers,
         MarkConnectionLost(s, k), UNCHANGED <<tools, opened, connectMu>>
  PROVE  /\ Locked' /\ Owned' /\ Recorded'
         /\ \A t \in Servers : connection'[t].there = connection[t].there
<1>1. \A t \in Servers :
        /\ connection'[t].there = connection[t].there
        /\ connection'[t].tools = connection[t].tools
        /\ connection'[t].client = IF t = s /\ k # NoClient /\ connection[s].client = k
                                   THEN NoClient ELSE connection[t].client
  BY DEF MarkConnectionLost, Typed, ExternalTypeOK, Connection
<1>2. open' = IF k # NoClient /\ connection[s].client = k THEN open \ {k} ELSE open
  BY DEF MarkConnectionLost
<1>3. \A a \in Actors : /\ Holds(a)' <=> Holds(a)
                        /\ Has(a)' <=> Has(a)
                        /\ Holds(a) => actors'[a] = actors[a]
                        /\ At(a, "taken")' <=> At(a, "taken")
                        /\ Has(a) => Holds(a)
                        /\ At(a, "taken") => Has(a)
  BY DEF HoldersStay, Holds, Has, At, Locking
<1>4. Locked'
  <2>1. \A a \in Actors : At(a, "taken") => Server(a) \in Servers
    BY DEF Typed, At
  <2> QED
    BY <1>1, <1>3, <2>1 DEF Locked, Server
<1>5. Recorded'
  BY <1>1 DEF Recorded
<1>6. Owned'
  <2>1. \A n \in open' : n <= opened'
    BY <1>2 DEF Owned
  <2>2. \A t, u \in Servers : connection'[t].client = connection'[u].client /\ t # u
                               => connection'[t].client = NoClient
    BY <1>1 DEF Owned
  <2>3. \A t \in Servers, a \in Actors : Has(a)' /\ connection'[t].client # NoClient
                               => connection'[t].client # actors'[a].client
    BY <1>1, <1>3 DEF Owned
  <2>4. ASSUME NEW n \in Clients
        PROVE  n \in open' <=> \/ \E t \in Servers : connection'[t].client = n
                               \/ \E a \in Actors : Has(a)' /\ actors'[a].client = n
    <3>0. n # NoClient
      BY DEF Clients, NoClient
    <3>1. n \in open <=> \/ \E t \in Servers : connection[t].client = n
                         \/ \E a \in Actors : Has(a) /\ actors[a].client = n
      BY DEF Owned
    <3>2. (\E a \in Actors : Has(a)' /\ actors'[a].client = n)
          <=> (\E a \in Actors : Has(a) /\ actors[a].client = n)
      BY <1>3
    <3>3. CASE k # NoClient /\ connection[s].client = k /\ n = k
      <4>1. s \in Servers
        BY <3>3
      <4>2. ~\E t \in Servers : connection'[t].client = n
        BY <1>1, <3>0, <3>3, <4>1 DEF Owned
      <4>3. ~\E a \in Actors : Has(a) /\ actors[a].client = n
        BY <3>3, <4>1 DEF Owned
      <4> QED
        BY <1>2, <3>2, <3>3, <4>2, <4>3
    <3>4. CASE ~(k # NoClient /\ connection[s].client = k /\ n = k)
      <4>1. (\E t \in Servers : connection'[t].client = n)
            <=> (\E t \in Servers : connection[t].client = n)
        BY <1>1, <3>0, <3>4
      <4>2. n \in open' <=> n \in open
        BY <1>2, <3>4
      <4> QED
        BY <3>1, <3>2, <4>1, <4>2
    <3> QED
      BY <3>3, <3>4
  <2> QED
    BY <2>1, <2>2, <2>3, <2>4 DEF Owned
<1> QED
  BY <1>1, <1>4, <1>5, <1>6

\* Nobody comes up, and whoever was to disconnect still is.
LEMMA DownStays ==
  ASSUME GoesDown, UNCHANGED config, stray \subseteq stray',
         \A s \in Servers \ stray' : config[s] # "enabled" /\ Up(s)' => Up(s),
         \A a \in Actors : At(a, "disconnecting") => actors'[a] = actors[a]
  PROVE  GoesDown'
<1>1. SUFFICES ASSUME NEW s \in Servers \ stray', config'[s] # "enabled", Up(s)'
               PROVE  \E a \in Actors : At(a, "disconnecting")' /\ Server(a)' = s
  BY DEF GoesDown
<1>2. PICK a \in Actors : At(a, "disconnecting") /\ Server(a) = s
  BY <1>1 DEF GoesDown
<1> QED
  BY <1>2 DEF At, Server

LEMMA SameUp ==
  ASSUME Typed, Locked, HoldersStay, UNCHANGED connectMu,
         \A s \in Servers : connection'[s].there = connection[s].there
  PROVE  \A s \in Servers : Up(s)' <=> Up(s)
  BY DEF Up, HoldersStay, Locked, Typed, ExternalTypeOK, Server

\* A step of one actor that neither holds connectMu nor disconnects.
LEMMA Outside ==
  ASSUME XInv, NEW a \in Actors, NEW new \in Actor, actors' = [actors EXCEPT ![a] = new],
         ~Holds(a), ~At(a, "disconnecting"),
         new.at \notin Locking, new.at # "idle" => new.server \in Servers,
         NEW s, NEW k \in Clients \cup {NoClient}, k # NoClient => s \in Servers,
         MarkConnectionLost(s, k),
         UNCHANGED <<stray, config, tools, opened, lost, connectMu>>
  PROVE  XInv'
<1>1. HoldersStay
  BY OutsideStep DEF XInv
<1>2. Typed'
  <2>1. connection' \in [Servers -> Connection] /\ open' \subseteq Clients
    BY DEF XInv, Typed, ExternalTypeOK, MarkConnectionLost, Connection
  <2>2. \A b \in Actors : actors'[b].at # "idle" => actors'[b].server \in Servers
    BY OneActor DEF XInv, Typed, Server
  <2> QED
    BY <2>1, <2>2, OneActor DEF XInv, Typed, ExternalTypeOK, Server
<1>3. Locked' /\ Owned' /\ Recorded' /\ \A t \in Servers : connection'[t].there = connection[t].there
  BY <1>1, <1>2, LostKeeps DEF XInv
<1>4. \A t \in Servers : Up(t)' <=> Up(t)
  BY <1>1, <1>3, SameUp DEF XInv
<1>5. \A b \in Actors : At(b, "disconnecting") => actors'[b] = actors[b]
  BY OneActor DEF XInv, At
<1>6. GoesDown'
  BY <1>4, <1>5, DownStays DEF XInv
<1> QED
  BY <1>2, <1>3, <1>6 DEF XInv

LEMMA OutsideQuiet ==
  ASSUME XInv, NEW a \in Actors, NEW new \in Actor, actors' = [actors EXCEPT ![a] = new],
         ~Holds(a), ~At(a, "disconnecting"),
         new.at \notin Locking, new.at # "idle" => new.server \in Servers,
         UNCHANGED <<stray, config, connection, tools, opened, open, lost, connectMu>>
  PROVE  XInv'
<1>1. MarkConnectionLost(NoServer, NoClient)
  BY DEF MarkConnectionLost
<1> QED
  BY <1>1, Outside

\* Storing a configuration: what it leaves up is in stray, unless the request
\* that stored it is about to disconnect the one server that it changed.
LEMMA Stored ==
  ASSUME XInv, NEW a \in Actors, NEW new \in Configs, NEW next \in Actor, Update(a, new, next),
         ~Holds(a), ~At(a, "disconnecting"),
         next.at \notin Locking, next.at # "idle" => next.server \in Servers,
         next.at = "disconnecting" =>
           \A s \in Servers : s # next.server => new[s] = config[s],
         UNCHANGED <<connection, tools, opened, open, lost, connectMu>>
  PROVE  XInv'
<1>1. PICK me \in Actor : /\ actors' = [actors EXCEPT ![a] = me]
                          /\ me = next \/ me = Idle
  BY IdleFits DEF Update, Returns
<1>2. me.at \notin Locking /\ (me.at # "idle" => me.server \in Servers)
      /\ (me.at = "disconnecting" => me = next)
  BY <1>1, IdleFits DEF Locking
<1>3. actors' \in [Actors -> Actor] /\ actors'[a] = me /\ \A b \in Actors : b # a => actors'[b] = actors[b]
  BY <1>1, OneActor DEF XInv
<1>4. HoldersStay
  BY <1>1, <1>2, OutsideStep DEF XInv
<1>5. config' = new /\ stray' = IF me.at = "disconnecting" THEN stray ELSE stray \cup LeftUp(new)
  BY <1>3 DEF Update
<1>6. Typed'
  <2>1. stray' \subseteq Servers
    BY <1>5 DEF XInv, Typed, ExternalTypeOK, LeftUp
  <2>2. \A b \in Actors : actors'[b].at # "idle" => actors'[b].server \in Servers
    BY <1>2, <1>3 DEF XInv, Typed, Server
  <2> QED
    BY <1>3, <1>5, <2>1, <2>2 DEF XInv, Typed, ExternalTypeOK, Server
<1>7. Locked' /\ Owned' /\ Recorded' /\ \A t \in Servers : connection'[t].there = connection[t].there
  <2>1. MarkConnectionLost(NoServer, NoClient)
    BY DEF MarkConnectionLost
  <2> QED
    BY <1>4, <1>6, <2>1, LostKeeps DEF XInv
<1>8. \A t \in Servers : Up(t)' <=> Up(t)
  BY <1>4, <1>7, SameUp DEF XInv
<1>9. GoesDown'
  <2>1. SUFFICES ASSUME NEW s \in Servers \ stray', new[s] # "enabled", Up(s)
                 PROVE  \E b \in Actors : actors'[b].at = "disconnecting" /\ actors'[b].server = s
    BY <1>5, <1>8 DEF GoesDown, At, Server
  <2>2. CASE me.at # "disconnecting"
    BY <1>5, <2>1, <2>2 DEF LeftUp, Up
  <2>3. CASE me.at = "disconnecting" /\ s = next.server
    BY <1>2, <1>3, <2>3
  <2>4. CASE me.at = "disconnecting" /\ s # next.server
    <3>1. config[s] # "enabled" /\ s \notin stray
      BY <1>2, <1>5, <2>1, <2>4
    <3>2. PICK b \in Actors : At(b, "disconnecting") /\ Server(b) = s
      BY <2>1, <3>1 DEF XInv, GoesDown
    <3> QED
      BY <1>3, <3>2 DEF At, Server
  <2> QED
    BY <2>2, <2>3, <2>4
<1> QED
  BY <1>6, <1>7, <1>9 DEF XInv

----------------------------------------------------------------------------
(* Dashboard requests and tool calls *)

LEMMA AdminKeeps ==
  ASSUME XInv, NEW a \in Admins, AdminStep(a) PROVE XInv'
<1>0. a \in Actors /\ config \in Configs /\ actors[a] \in Actor
  BY DEF Actors, XInv, Typed, ExternalTypeOK
<1>1. ASSUME NEW s \in Servers, NEW value \in {"disabled", "enabled"}, AddConfig(a, s, value)
      PROVE  XInv'
  <2>1. PICK new \in Configs : new = [config EXCEPT ![s] = value]
    BY <1>0 DEF Configs
  <2>2. PICK next \in Actor : next = IF value = "enabled" THEN Request(a, s, "connecting") ELSE Idle
    BY IdleFits, RequestFits DEF Positions
  <2>3. next.at \in {"idle", "connecting"} /\ (next.at # "idle" => next.server = s)
    BY <2>2, IdleFits, RequestFits DEF Positions
  <2> QED
    BY <1>0, <1>1, <2>1, <2>2, <2>3, Stored DEF AddConfig, At, Holds, Locking
<1>2. ASSUME NEW s \in Servers, NEW value \in {"disabled", "enabled"}, UpdateConfig(a, s, value)
      PROVE  XInv'
  <2>1. PICK new \in Configs : new = [config EXCEPT ![s] = value]
    BY <1>0 DEF Configs
  <2>2. PICK r \in Actor : r = Request(a, s, "disconnecting") /\ r.at = "disconnecting" /\ r.server = s
    BY RequestFits DEF Positions
  <2>3. PICK next \in Actor : next = [r EXCEPT !.candidate = new, !.then = "storing"]
    BY DEF Actor
  <2>4. next.at = "disconnecting" /\ next.server = s
    BY <2>2, <2>3 DEF Actor
  <2>5. actors' = [actors EXCEPT ![a] = next]
    BY <1>2, <2>1, <2>2, <2>3 DEF UpdateConfig
  <2> QED
    BY <1>0, <1>2, <2>4, <2>5, OutsideQuiet DEF UpdateConfig, At, Holds, Locking
<1>3. ASSUME NEW s \in Servers, NEW operation \in {"connect", "disconnect"}, SetEnabled(a, s, operation)
      PROVE  XInv'
  <2>1. PICK new \in Configs :
          new = [config EXCEPT ![s] = IF operation = "connect" THEN "enabled" ELSE "disabled"]
    BY <1>0 DEF Configs
  <2>2. PICK next \in Actor :
          next = Request(a, s, IF operation = "connect" THEN "connecting" ELSE "disconnecting")
    BY RequestFits DEF Positions
  <2>3. next.at \in {"connecting", "disconnecting"} /\ next.server = s
    BY <2>2, RequestFits DEF Positions
  <2>4. \A t \in Servers : t # s => new[t] = config[t]
    BY <1>0, <2>1 DEF Configs
  <2>5. Update(a, new, next)
    BY <1>3, <2>1, <2>2 DEF SetEnabled
  <2> QED
    BY <1>0, <1>3, <2>3, <2>4, <2>5, Stored DEF SetEnabled, At, Holds, Locking
<1>4. ASSUME NEW s \in Servers, RemoveConfig(a, s)
      PROVE  XInv'
  <2>1. PICK r \in Actor : r = Request(a, s, "disconnecting") /\ r.at = "disconnecting" /\ r.server = s
    BY RequestFits DEF Positions
  <2>2. PICK next \in Actor : next = [r EXCEPT !.then = "storing"]
    BY DEF Actor
  <2>3. next.at = "disconnecting" /\ next.server = s
    BY <2>1, <2>2 DEF Actor
  <2>4. actors' = [actors EXCEPT ![a] = next]
    BY <1>4, <2>1, <2>2 DEF RemoveConfig
  <2> QED
    BY <1>0, <1>4, <2>3, <2>4, OutsideQuiet DEF RemoveConfig, At, Holds, Locking
<1>5. CASE StoreCandidate(a)
  <2>1. Server(a) \in Servers /\ actors[a].candidate \in Configs
    BY <1>0, <1>5 DEF StoreCandidate, At, XInv, Typed, Actor
  <2>2. PICK next \in Actor : /\ next = Request(a, Server(a), "connecting")
                              /\ next.at = "connecting" /\ next.server = Server(a)
    BY <2>1, RequestFits DEF Positions
  <2> QED
    BY <1>0, <1>5, <2>1, <2>2, Stored DEF StoreCandidate, At, Holds, Locking
<1>6. CASE StoreRemoval(a)
  <2>1. PICK new \in Configs : new = [config EXCEPT ![Server(a)] = "absent"]
    BY <1>0 DEF Configs
  <2> QED
    BY <1>0, <1>6, <2>1, IdleFits, Stored DEF StoreRemoval, At, Holds, Locking
<1> QED
  BY <1>1, <1>2, <1>3, <1>4, <1>5, <1>6 DEF AdminStep

LEMMA CallKeeps ==
  ASSUME XInv, NEW c \in Callers, CallStep(c) \/ \E s \in Servers : CallTool(c, s)
  PROVE  XInv'
<1>0. /\ c \in Actors /\ actors[c] \in Actor
      /\ \A s \in Servers : connection[s].client \in Clients \cup {NoClient}
      /\ actors[c].client \in Clients \cup {NoClient}
      /\ ~At(c, "idle") => Server(c) \in Servers
  BY DEF Actors, XInv, Typed, ExternalTypeOK, Connection, Actor, At
<1>1. ASSUME NEW s \in Servers, CallTool(c, s) PROVE XInv'
  <2>1. PICK next \in Actor : next = Request(c, s, "needing") /\ next.at = "needing" /\ next.server = s
    BY RequestFits DEF Positions
  <2> QED
    BY <1>0, <1>1, <2>1, OutsideQuiet DEF CallTool, At, Holds, Locking
<1>2. ASSUME NEW k \in Clients \cup {NoClient}, Uses(c, k), ~At(c, "idle")
      PROVE  \E new \in Actor : /\ actors' = [actors EXCEPT ![c] = new]
                                /\ new.at = "calling" /\ new.server = Server(c)
  <2>1. PICK new \in Actor : new = [actors[c] EXCEPT !.at = "calling", !.client = k]
    BY <1>0 DEF Actor, Positions
  <2>2. new.at = "calling" /\ new.server = Server(c)
    BY <1>0, <2>1 DEF Actor, Server
  <2> QED
    BY <1>2, <2>1, <2>2 DEF Uses
<1>3. CASE ClientForCall(c)
  <2>1. PICK new \in Actor : /\ actors' = [actors EXCEPT ![c] = new]
                             /\ new.at \in {"calling", "connecting"} /\ new.server = Server(c)
    BY <1>0, <1>2, <1>3, ActorGoes DEF ClientForCall, At, Positions, XInv
  <2> QED
    BY <1>0, <1>3, <2>1, OutsideQuiet DEF ClientForCall, At, Holds, Locking
<1>4. CASE ClientAfterConnect(c)
  <2>1. PICK new \in Actor : /\ actors' = [actors EXCEPT ![c] = new]
                             /\ new.at \in {"calling", "idle"}
                             /\ new.at # "idle" => new.server = Server(c)
    BY <1>0, <1>2, <1>4, IdleFits DEF ClientAfterConnect, At, Returns
  <2> QED
    BY <1>0, <1>4, <2>1, OutsideQuiet DEF ClientAfterConnect, At, Holds, Locking
<1>5. CASE CallSucceeds(c)
  BY <1>0, <1>5, IdleFits, OutsideQuiet DEF CallSucceeds, Returns, At, Holds, Locking
<1>6. CASE CallFails(c)
  <2>1. PICK new \in Actor : /\ actors' = [actors EXCEPT ![c] = new]
                             /\ new.at \in {"needing", "idle"}
                             /\ new.at # "idle" => new.server = Server(c)
    <3>1. CASE actors[c].retried
      BY <1>6, <3>1, IdleFits DEF CallFails, Returns
    <3>2. CASE ~actors[c].retried
      <4>1. PICK r \in Actor : /\ r = Request(c, Server(c), "needing")
                               /\ r.at = "needing" /\ r.server = Server(c)
        BY <1>0, <1>6, RequestFits DEF CallFails, At, Positions
      <4>2. PICK new \in Actor : new = [r EXCEPT !.retried = TRUE]
        BY DEF Actor
      <4>3. new.at = "needing" /\ new.server = Server(c)
        BY <4>1, <4>2 DEF Actor
      <4> QED
        BY <1>6, <3>2, <4>1, <4>2, <4>3 DEF CallFails
    <3> QED
      BY <3>1, <3>2
  <2>2. Server(c) \in Servers /\ ~Holds(c) /\ ~At(c, "disconnecting")
    BY <1>0, <1>6 DEF CallFails, At, Holds
  <2>3. MarkConnectionLost(Server(c), actors[c].client)
        /\ UNCHANGED <<stray, config, tools, opened, lost, connectMu>>
    BY <1>6 DEF CallFails
  <2>4. new.at \notin Locking /\ (new.at # "idle" => new.server \in Servers)
    BY <2>1, <2>2 DEF Locking
  <2>5. PICK s \in Servers : s = Server(c)
    BY <2>2
  <2>6. PICK k \in Clients \cup {NoClient} : k = actors[c].client
    BY <1>0
  <2> QED
    BY <1>0, <2>1, <2>2, <2>3, <2>4, <2>5, <2>6, Outside
<1> QED
  BY <1>1, <1>3, <1>4, <1>5, <1>6 DEF CallStep

----------------------------------------------------------------------------
(* Steps under connectMu *)

\* The connect that holds connectMu is the only one that has a client of its own.
LEMMA OneHolder ==
  ASSUME Typed, Locked, NEW a \in Actors, Holds(a)
  PROVE  /\ connectMu = a /\ Server(a) \in Servers
         /\ \A b \in Actors : b # a => ~Holds(b) /\ ~Has(b)
         /\ \A s \in Servers : Up(s) <=> connection[s].there \/ s = Server(a)
  BY ExternalAssumption DEF Typed, Locked, Holds, Has, Up

\* DropConnection removes one record, its client and its tools.
LEMMA Dropped ==
  ASSUME Typed, Owned, Recorded, NEW s \in Servers, DropConnection(s)
  PROVE  /\ connection' \in [Servers -> Connection] /\ connection'[s] = Nothing
         /\ ~Nothing.there /\ Nothing.client = NoClient /\ ~Nothing.tools
         /\ \A t \in Servers : t # s => connection'[t] = connection[t]
         /\ tools' = tools \ {s} /\ open' = open \ {connection[s].client}
         /\ Recorded'
<1>1. Nothing \in Connection /\ ~Nothing.there /\ Nothing.client = NoClient /\ ~Nothing.tools
  BY DEF Nothing, Connection
<1>2. /\ connection' \in [Servers -> Connection] /\ connection'[s] = Nothing
      /\ \A t \in Servers : t # s => connection'[t] = connection[t]
  BY <1>1 DEF DropConnection, Typed, ExternalTypeOK
<1>3. tools' = tools \ {s} /\ open' = open \ {connection[s].client}
  BY DEF DropConnection, Recorded
<1>4. Recorded'
  BY <1>1, <1>2, <1>3 DEF Recorded
<1> QED
  BY <1>1, <1>2, <1>3, <1>4

\* It leaves the other connections, and whoever has a client, with theirs.
LEMMA DropOwned ==
  ASSUME Typed, Owned, Recorded, NEW s \in Servers, DropConnection(s), UNCHANGED opened,
         \A b \in Actors : Has(b)' <=> Has(b),
         \A b \in Actors : Has(b) => actors'[b].client = actors[b].client
  PROVE  Owned'
<1>1. /\ connection'[s].client = NoClient
      /\ \A t \in Servers : t # s => connection'[t] = connection[t]
      /\ open' = open \ {connection[s].client}
  BY Dropped
<1>2. \A n \in open' : n <= opened'
  BY <1>1 DEF Owned
<1>3. \A t, u \in Servers : connection'[t].client = connection'[u].client /\ t # u
                             => connection'[t].client = NoClient
  BY <1>1 DEF Owned
<1>4. \A t \in Servers, b \in Actors : Has(b)' /\ connection'[t].client # NoClient
                             => connection'[t].client # actors'[b].client
  BY <1>1 DEF Owned
<1>5. ASSUME NEW n \in Clients
      PROVE  n \in open' <=> \/ \E t \in Servers : connection'[t].client = n
                             \/ \E b \in Actors : Has(b)' /\ actors'[b].client = n
  <2>0. n # NoClient
    BY DEF Clients, NoClient
  <2>1. n \in open <=> \/ \E t \in Servers : connection[t].client = n
                       \/ \E b \in Actors : Has(b) /\ actors[b].client = n
    BY DEF Owned
  <2>2. (\E b \in Actors : Has(b)' /\ actors'[b].client = n)
        <=> (\E b \in Actors : Has(b) /\ actors[b].client = n)
    OBVIOUS
  <2>3. CASE connection[s].client = n
    BY <1>1, <2>0, <2>2, <2>3 DEF Owned
  <2>4. CASE connection[s].client # n
    <3>1. (\E t \in Servers : connection'[t].client = n)
          <=> (\E t \in Servers : connection[t].client = n)
      BY <1>1, <2>0, <2>4
    <3> QED
      BY <1>1, <2>1, <2>2, <2>4, <3>1
  <2> QED
    BY <2>3, <2>4
<1> QED
  BY <1>2, <1>3, <1>4, <1>5 DEF Owned

LEMMA DisconnectKeeps ==
  ASSUME XInv, NEW a \in Actors, Disconnect(a) PROVE XInv'
<1>1. Server(a) \in Servers /\ actors[a] \in Actor /\ connectMu = NoActor /\ connectMu' = NoActor
  BY DEF XInv, Typed, ExternalTypeOK, Disconnect, At
<1>2. PICK s \in Servers : s = Server(a)
  BY <1>1
<1>3. DropConnection(s) /\ stray' = stray \ {s} /\ UNCHANGED <<config, opened, lost>>
  BY <1>2 DEF Disconnect
<1>4. PICK new \in Actor : /\ actors' = [actors EXCEPT ![a] = new]
                           /\ new.at \in {"idle", "storing"} /\ new.server = s
  <2>1. actors[a].then \in {"idle", "storing"} /\ Goes(a, actors[a].then)
    BY <1>1 DEF Disconnect, Actor
  <2>2. actors[a].then \in Positions
    BY <2>1 DEF Positions
  <2> QED
    BY <1>2, <2>1, <2>2, ActorGoes DEF XInv
<1>5. actors' \in [Actors -> Actor] /\ actors'[a] = new /\ \A b \in Actors : b # a => actors'[b] = actors[b]
  BY <1>4, OneActor DEF XInv
<1>6. \A b \in Actors : ~Holds(b) /\ ~Has(b) /\ ~Holds(b)' /\ ~Has(b)' /\ ~At(b, "taken")'
  BY <1>1, <1>4, <1>5, NoActorHolds DEF XInv, Holds, Has, At
<1>7. /\ connection' \in [Servers -> Connection] /\ ~connection'[s].there
      /\ \A t \in Servers : t # s => connection'[t] = connection[t]
      /\ tools' = tools \ {s} /\ open' = open \ {connection[s].client}
      /\ Recorded'
  BY <1>3, Dropped DEF XInv
<1>8. Typed'
  <2>1. \A b \in Actors : actors'[b].at # "idle" => actors'[b].server \in Servers
    BY <1>4, <1>5 DEF XInv, Typed, Server
  <2> QED
    BY <1>1, <1>3, <1>5, <1>7, <2>1 DEF XInv, Typed, ExternalTypeOK, Server
<1>9. Locked'
  BY <1>1, <1>6, ExternalAssumption DEF Locked
<1>10. Owned'
  BY <1>3, <1>6, DropOwned DEF XInv
<1>11. GoesDown'
  <2>1. SUFFICES ASSUME NEW t \in Servers \ stray', config[t] # "enabled", connection'[t].there
                 PROVE  \E b \in Actors : actors'[b].at = "disconnecting" /\ actors'[b].server = t
    BY <1>1, <1>3 DEF GoesDown, Up, At, Server
  <2>2. t # s /\ t \notin stray /\ connection[t].there
    BY <1>3, <1>7, <2>1
  <2>3. PICK b \in Actors : At(b, "disconnecting") /\ Server(b) = t
    BY <2>1, <2>2 DEF XInv, GoesDown, Up
  <2> QED
    BY <1>2, <1>5, <2>2, <2>3 DEF At, Server
<1> QED
  BY <1>7, <1>8, <1>9, <1>10, <1>11 DEF XInv

LEMMA ConnectBeginsKeeps ==
  ASSUME XInv, NEW a \in Actors, ConnectBegins(a) PROVE XInv'
<1>0. ~Holds(a) /\ ~At(a, "disconnecting") /\ connectMu = NoActor
      /\ Server(a) \in Servers /\ \A b \in Actors : ~Holds(b)
  BY NoActorHolds DEF ConnectBegins, At, Holds, XInv, Typed
<1>1. CASE config[Server(a)] # "enabled"
  BY <1>0, <1>1, IdleFits, OutsideQuiet DEF ConnectBegins, Returns, Locking
<1>2. CASE config[Server(a)] = "enabled"
  <2>1. PICK new \in Actor : /\ actors' = [actors EXCEPT ![a] = new]
                             /\ new.at = "opening" /\ new.server = Server(a)
    BY <1>2, ActorGoes DEF ConnectBegins, XInv, Positions
  <2>2. actors' \in [Actors -> Actor] /\ actors'[a] = new /\ \A b \in Actors : b # a => actors'[b] = actors[b]
    BY <2>1, OneActor DEF XInv
  <2>3. connectMu' = a /\ UNCHANGED <<stray, config, connection, tools, opened, open, lost>>
    BY <1>2 DEF ConnectBegins
  <2>4. Typed'
    <3>1. \A b \in Actors : actors'[b].at # "idle" => actors'[b].server \in Servers
      BY <1>0, <2>1, <2>2 DEF XInv, Typed, Server
    <3> QED
      BY <2>2, <2>3, <3>1 DEF XInv, Typed, ExternalTypeOK, Server
  <2>5. \A b \in Actors : /\ Holds(b)' <=> b = a
                          /\ ~Has(b) /\ ~Has(b)' /\ ~At(b, "taken")'
    BY <1>0, <2>1, <2>2 DEF Holds, Has, At
  <2>6. Locked'
    BY <2>3, <2>5 DEF Locked
  <2>7. Owned'
    BY <2>3, <2>5 DEF XInv, Owned
  <2>8. Recorded'
    BY <2>3 DEF XInv, Recorded
  <2>9. GoesDown'
    <3>1. \A s \in Servers \ stray' : config[s] # "enabled" /\ Up(s)' => Up(s)
      BY <1>2, <2>1, <2>2, <2>3 DEF Up, Server
    <3>2. \A b \in Actors : At(b, "disconnecting") => actors'[b] = actors[b]
      BY <1>0, <2>2
    <3> QED
      BY <2>3, <3>1, <3>2, DownStays DEF XInv
  <2> QED
    BY <2>4, <2>6, <2>7, <2>8, <2>9 DEF XInv
<1> QED
  BY <1>1, <1>2

\* What holds of the record that a connect that gave up leaves.
LEMMA Entered ==
  ASSUME Typed, Recorded, NEW s \in Servers, connection' = [connection EXCEPT ![s].there = TRUE],
         UNCHANGED tools
  PROVE  /\ connection' \in [Servers -> Connection] /\ Recorded'
         /\ \A t \in Servers : /\ connection'[t].client = connection[t].client
                               /\ connection'[t].there <=> connection[t].there \/ t = s
<1>1. PICK new \in Connection : new = [connection[s] EXCEPT !.there = TRUE]
  BY DEF Typed, ExternalTypeOK, Connection
<1>2. connection' = [connection EXCEPT ![s] = new]
  BY <1>1
<1>3. new.there /\ new.client = connection[s].client /\ new.tools = connection[s].tools
  BY <1>1 DEF Typed, ExternalTypeOK, Connection
<1>4. connection' \in [Servers -> Connection] /\ connection'[s] = new
      /\ \A t \in Servers : t # s => connection'[t] = connection[t]
  BY <1>2 DEF Typed, ExternalTypeOK
<1>5. Recorded'
  BY <1>3, <1>4 DEF Recorded
<1> QED
  BY <1>3, <1>4, <1>5

\* A connect that gives up releases connectMu and leaves the record.
LEMMA GaveUp ==
  ASSUME XInv, NEW a \in Actors, Holds(a), NEW new \in Actor, actors' = [actors EXCEPT ![a] = new],
         new.at \notin Locking, new.at # "disconnecting", new.at # "idle" => new.server \in Servers,
         connectMu' = NoActor, UNCHANGED <<stray, config, opened, lost>>,
         connection' \in [Servers -> Connection],
         \A t \in Servers : connection'[t].there <=> connection[t].there \/ t = Server(a),
         tools' \subseteq Servers, open' \subseteq Clients
  PROVE  /\ Typed' /\ Locked' /\ GoesDown'
         /\ \A b \in Actors : ~Has(b)'
<1>1. actors' \in [Actors -> Actor] /\ actors'[a] = new /\ \A b \in Actors : b # a => actors'[b] = actors[b]
  BY OneActor DEF XInv
<1>2. Typed'
  <2>1. \A b \in Actors : actors'[b].at # "idle" => actors'[b].server \in Servers
    BY <1>1 DEF XInv, Typed, Server
  <2> QED
    BY <1>1, <2>1 DEF XInv, Typed, ExternalTypeOK, Server
<1>3. \A b \in Actors : ~Holds(b)' /\ ~Has(b)' /\ ~At(b, "taken")'
  BY <1>1, OneHolder DEF XInv, Holds, Has, At, Locking
<1>4. Locked'
  BY <1>3, ExternalAssumption DEF Locked
<1>5. GoesDown'
  <2>1. \A s \in Servers \ stray' : config[s] # "enabled" /\ Up(s)' => Up(s)
    BY OneHolder DEF XInv, Up
  <2>2. \A b \in Actors : At(b, "disconnecting") => actors'[b] = actors[b]
    BY <1>1 DEF Holds, At
  <2> QED
    BY <2>1, <2>2, DownStays DEF XInv
<1> QED
  BY <1>2, <1>3, <1>4, <1>5

LEMMA OpenFailsKeeps ==
  ASSUME XInv, NEW a \in Actors, OpenFails(a) PROVE XInv'
<1>1. Holds(a) /\ ~Has(a)
  BY DEF OpenFails, At, Holds, Has
<1>2. Server(a) \in Servers /\ \A b \in Actors : ~Has(b)
  BY <1>1, OneHolder DEF XInv
<1>3. PICK s \in Servers : s = Server(a)
  BY <1>2
<1>4. /\ connection' \in [Servers -> Connection] /\ Recorded'
      /\ \A t \in Servers : /\ connection'[t].client = connection[t].client
                            /\ connection'[t].there <=> connection[t].there \/ t = s
  BY <1>3, Entered DEF OpenFails, XInv
<1>5. Typed' /\ Locked' /\ GoesDown' /\ \A b \in Actors : ~Has(b)'
  <2>1. tools' \subseteq Servers /\ open' \subseteq Clients /\ connectMu' = NoActor
        /\ UNCHANGED <<stray, config, opened, lost>> /\ actors' = [actors EXCEPT ![a] = Idle]
    BY DEF OpenFails, Returns, XInv, Typed, ExternalTypeOK
  <2> QED
    BY <1>1, <1>3, <1>4, <2>1, IdleFits, GaveUp DEF Locking
<1>6. Owned'
  BY <1>2, <1>4, <1>5 DEF OpenFails, XInv, Owned
<1> QED
  BY <1>4, <1>5, <1>6 DEF XInv

LEMMA RefuseKeeps ==
  ASSUME XInv, NEW a \in Actors, Refuse(a) PROVE XInv'
<1>1. Holds(a) /\ Has(a)
  BY DEF Refuse, At, Holds, Has
<1>2. Server(a) \in Servers /\ \A b \in Actors : b # a => ~Has(b)
  BY <1>1, OneHolder DEF XInv
<1>3. PICK s \in Servers : s = Server(a)
  BY <1>2
<1>4. /\ connection' \in [Servers -> Connection] /\ Recorded'
      /\ \A t \in Servers : /\ connection'[t].client = connection[t].client
                            /\ connection'[t].there <=> connection[t].there \/ t = s
  BY <1>3, Entered DEF Refuse, XInv
<1>5. Typed' /\ Locked' /\ GoesDown' /\ \A b \in Actors : ~Has(b)'
  <2>1. tools' \subseteq Servers /\ open' \subseteq Clients /\ connectMu' = NoActor
        /\ UNCHANGED <<stray, config, opened, lost>> /\ actors' = [actors EXCEPT ![a] = Idle]
    BY DEF Refuse, Returns, XInv, Typed, ExternalTypeOK
  <2> QED
    BY <1>1, <1>3, <1>4, <2>1, IdleFits, GaveUp DEF Locking
<1>6. Owned'
  <2>1. open' = open \ {actors[a].client} /\ UNCHANGED opened
    BY DEF Refuse
  <2>2. \A t \in Servers : connection[t].client # actors[a].client
    BY <1>1 DEF XInv, Locked, Owned
  <2>3. ASSUME NEW n \in Clients
        PROVE  n \in open' <=> \E t \in Servers : connection'[t].client = n
    <3>1. n \in open <=> \/ \E t \in Servers : connection[t].client = n
                         \/ \E b \in Actors : Has(b) /\ actors[b].client = n
      BY DEF XInv, Owned
    <3>2. (\E b \in Actors : Has(b) /\ actors[b].client = n) <=> actors[a].client = n
      BY <1>1, <1>2
    <3>3. (\E t \in Servers : connection'[t].client = n) <=> (\E t \in Servers : connection[t].client = n)
      BY <1>4
    <3> QED
      BY <2>1, <2>2, <3>1, <3>2, <3>3
  <2>4. \A n \in open' : n <= opened'
    BY <2>1 DEF XInv, Owned
  <2> QED
    BY <1>4, <1>5, <2>3, <2>4 DEF XInv, Owned
<1> QED
  BY <1>4, <1>5, <1>6 DEF XInv

LEMMA PublishKeeps ==
  ASSUME XInv, NEW a \in Actors, Publish(a) PROVE XInv'
<1>1. Holds(a) /\ Has(a) /\ At(a, "taken")
  BY DEF Publish, At, Holds, Has
<1>2. Server(a) \in Servers /\ \A b \in Actors : b # a => ~Has(b)
  BY <1>1, OneHolder DEF XInv
<1>3. PICK s \in Servers : s = Server(a)
  BY <1>2
<1>4. PICK k \in Clients : k = actors[a].client /\ connection[s].client = NoClient
  BY <1>1, <1>3 DEF XInv, Locked, Typed, ExternalTypeOK, Actor
<1>5. PICK record \in Connection : record = [there |-> TRUE, client |-> k, tools |-> TRUE]
  BY DEF Connection
<1>6. record.there /\ record.client = k /\ record.tools
  BY <1>5
<1>7. /\ connection' \in [Servers -> Connection] /\ connection'[s] = record
      /\ \A t \in Servers : t # s => connection'[t] = connection[t]
  BY <1>3, <1>4, <1>5 DEF Publish, XInv, Typed, ExternalTypeOK
<1>8. /\ tools' = tools \cup {s} /\ connectMu' = NoActor
      /\ UNCHANGED <<stray, config, opened, open, lost>>
  BY <1>3 DEF Publish
<1>9. Typed' /\ Locked' /\ GoesDown' /\ \A b \in Actors : ~Has(b)'
  <2>1. PICK new \in Actor : /\ actors' = [actors EXCEPT ![a] = new]
                             /\ new.at \in {"idle", "reread"}
                             /\ new.at # "idle" => new.server = s
    BY <1>3, ActorConnected DEF Publish, XInv
  <2>2. \A t \in Servers : connection'[t].there <=> connection[t].there \/ t = Server(a)
    BY <1>3, <1>6, <1>7 DEF XInv, Typed, ExternalTypeOK, Connection
  <2>3. tools' \subseteq Servers /\ open' \subseteq Clients
    BY <1>8 DEF XInv, Typed, ExternalTypeOK
  <2>4. new.at \notin Locking /\ new.at # "disconnecting" /\ (new.at # "idle" => new.server \in Servers)
    BY <2>1 DEF Locking
  <2> QED
    BY <1>1, <1>7, <1>8, <2>1, <2>2, <2>3, <2>4, GaveUp
<1>10. Recorded'
  BY <1>6, <1>7, <1>8 DEF XInv, Recorded
<1>11. Owned'
  <2>0. k # NoClient
    BY DEF Clients, NoClient
  <2>1. \A t \in Servers : connection[t].client # k
    BY <1>1, <1>4, <2>0 DEF XInv, Owned
  <2>2. ASSUME NEW n \in Clients
        PROVE  n \in open' <=> \E t \in Servers : connection'[t].client = n
    <3>0. n # NoClient
      BY DEF Clients, NoClient
    <3>1. n \in open <=> \/ \E t \in Servers : connection[t].client = n
                         \/ \E b \in Actors : Has(b) /\ actors[b].client = n
      BY DEF XInv, Owned
    <3>2. (\E b \in Actors : Has(b) /\ actors[b].client = n) <=> k = n
      BY <1>1, <1>2, <1>4
    <3>3. (\E t \in Servers : connection'[t].client = n)
          <=> k = n \/ \E t \in Servers : connection[t].client = n
      BY <1>4, <1>6, <1>7, <3>0
    <3> QED
      BY <1>8, <3>1, <3>2, <3>3
  <2>3. \A t, u \in Servers : connection'[t].client = connection'[u].client /\ t # u
                               => connection'[t].client = NoClient
    BY <1>6, <1>7, <2>1 DEF XInv, Owned
  <2>4. \A n \in open' : n <= opened'
    BY <1>8 DEF XInv, Owned
  <2> QED
    BY <1>9, <2>2, <2>3, <2>4 DEF Owned
<1> QED
  BY <1>9, <1>10, <1>11 DEF XInv

LEMMA OpenClientKeeps ==
  ASSUME XInv, NEW a \in Actors, OpenClient(a) PROVE XInv'
<1>1. Holds(a) /\ ~Has(a) /\ actors[a] \in Actor /\ opened \in 0 .. MaxClients
  BY DEF OpenClient, At, Holds, Has, XInv, Typed, ExternalTypeOK
<1>2. connectMu = a /\ Server(a) \in Servers /\ \A b \in Actors : ~Has(b) /\ (b # a => ~Holds(b))
  BY <1>1, OneHolder DEF XInv
<1>3. PICK k \in Clients : k = opened + 1
  BY <1>1, ExternalAssumption DEF OpenClient, Clients
<1>4. PICK new \in Actor : new = [actors[a] EXCEPT !.at = "opened", !.client = k]
  BY <1>1 DEF Actor, Positions
<1>5. new.at = "opened" /\ new.client = k /\ new.server = Server(a)
  BY <1>1, <1>4 DEF Actor, Server
<1>6. /\ actors' = [actors EXCEPT ![a] = new]
      /\ opened' = k /\ open' = open \cup {k}
      /\ UNCHANGED <<stray, config, connection, tools, lost, connectMu>>
  BY <1>3, <1>4 DEF OpenClient
<1>7. actors' \in [Actors -> Actor] /\ actors'[a] = new /\ \A b \in Actors : b # a => actors'[b] = actors[b]
  BY <1>6, OneActor DEF XInv
<1>8. Typed'
  <2>1. \A b \in Actors : actors'[b].at # "idle" => actors'[b].server \in Servers
    BY <1>2, <1>5, <1>7 DEF XInv, Typed, Server
  <2>2. opened' \in 0 .. MaxClients
    BY <1>6, ExternalAssumption DEF Clients
  <2> QED
    BY <1>6, <1>7, <2>1, <2>2 DEF XInv, Typed, ExternalTypeOK, Server
<1>9. \A b \in Actors : /\ Holds(b)' <=> b = a
                        /\ Has(b)' <=> b = a
                        /\ ~At(b, "taken")'
  BY <1>2, <1>5, <1>7 DEF Holds, Has, At
<1>10. k # NoClient /\ k \notin open /\ \A s \in Servers : connection[s].client # k
  <2>1. k # NoClient /\ ~(k <= opened)
    BY <1>1, <1>3 DEF Clients, NoClient
  <2> QED
    BY <2>1 DEF XInv, Owned
<1>11. Locked'
  BY <1>2, <1>5, <1>6, <1>7, <1>9, <1>10 DEF Locked
<1>12. Recorded'
  BY <1>6 DEF XInv, Recorded
<1>13. GoesDown'
  <2>1. \A s \in Servers \ stray' : config[s] # "enabled" /\ Up(s)' => Up(s)
    BY <1>2, <1>5, <1>6, <1>7 DEF Up, Server
  <2>2. \A b \in Actors : At(b, "disconnecting") => actors'[b] = actors[b]
    BY <1>1, <1>7 DEF Holds, OpenClient, At
  <2> QED
    BY <1>6, <2>1, <2>2, DownStays DEF XInv
<1>14. Owned'
  <2>1. \A n \in open' : n <= opened'
    <3>1. ASSUME NEW n \in open PROVE n <= k
      <4>1. n <= opened /\ n \in Int
        BY <3>1 DEF XInv, Owned, Typed, ExternalTypeOK, Clients
      <4> QED
        BY <1>1, <1>3, <4>1
    <3> QED
      BY <1>6, <3>1 DEF Clients
  <2>2. ASSUME NEW n \in Clients
        PROVE  n \in open' <=> \/ \E s \in Servers : connection'[s].client = n
                               \/ \E b \in Actors : Has(b)' /\ actors'[b].client = n
    <3>1. n \in open <=> \E s \in Servers : connection[s].client = n
      BY <1>2 DEF XInv, Owned
    <3>2. (\E b \in Actors : Has(b)' /\ actors'[b].client = n) <=> n = k
      BY <1>5, <1>7, <1>9
    <3> QED
      BY <1>6, <3>1, <3>2
  <2>3. \A s \in Servers, b \in Actors : Has(b)' /\ connection'[s].client # NoClient
                               => connection'[s].client # actors'[b].client
    BY <1>5, <1>6, <1>7, <1>9, <1>10
  <2>4. \A s, t \in Servers : connection'[s].client = connection'[t].client /\ s # t
                               => connection'[s].client = NoClient
    BY <1>6 DEF XInv, Owned
  <2> QED
    BY <2>1, <2>2, <2>3, <2>4 DEF Owned
<1> QED
  BY <1>8, <1>11, <1>12, <1>13, <1>14 DEF XInv

LEMMA TakePreviousKeeps ==
  ASSUME XInv, NEW a \in Actors, TakePrevious(a) PROVE XInv'
<1>1. Holds(a) /\ Has(a)
  BY DEF TakePrevious, At, Holds, Has
<1>2. connectMu = a /\ Server(a) \in Servers /\ \A b \in Actors : b # a => ~Holds(b) /\ ~Has(b)
  BY <1>1, OneHolder DEF XInv
<1>3. PICK s \in Servers : s = Server(a)
  BY <1>2
<1>4. DropConnection(s) /\ UNCHANGED <<stray, config, opened, lost, connectMu>>
  BY <1>3 DEF TakePrevious
<1>5. PICK new \in Actor : /\ actors' = [actors EXCEPT ![a] = new]
                           /\ new.at = "taken" /\ new.server = s /\ new.client = actors[a].client
  BY <1>3, ActorGoes DEF TakePrevious, XInv, Positions
<1>6. actors' \in [Actors -> Actor] /\ actors'[a] = new /\ \A b \in Actors : b # a => actors'[b] = actors[b]
  BY <1>5, OneActor DEF XInv
<1>7. \A b \in Actors : /\ Holds(b)' <=> b = a
                        /\ Has(b)' <=> b = a
                        /\ At(b, "taken")' => b = a
  BY <1>2, <1>5, <1>6 DEF Holds, Has, At
<1>8. /\ connection' \in [Servers -> Connection] /\ connection'[s].client = NoClient
      /\ ~connection'[s].there
      /\ \A t \in Servers : t # s => connection'[t] = connection[t]
      /\ tools' = tools \ {s} /\ open' = open \ {connection[s].client}
      /\ Recorded'
  BY <1>4, Dropped DEF XInv
<1>9. Typed'
  <2>1. \A b \in Actors : actors'[b].at # "idle" => actors'[b].server \in Servers
    BY <1>5, <1>6 DEF XInv, Typed, Server
  <2> QED
    BY <1>4, <1>6, <1>8, <2>1 DEF XInv, Typed, ExternalTypeOK, Server
<1>10. Locked'
  <2>1. actors[a].client # NoClient
    BY <1>1 DEF XInv, Locked
  <2> QED
    BY <1>2, <1>4, <1>5, <1>6, <1>7, <1>8, <2>1 DEF Locked, Server
<1>11. Owned'
  <2>1. \A b \in Actors : Has(b) => actors'[b].client = actors[b].client
    BY <1>2, <1>5, <1>6
  <2>2. \A b \in Actors : Has(b)' <=> Has(b)
    BY <1>1, <1>2, <1>7
  <2> QED
    BY <1>4, <2>1, <2>2, DropOwned DEF XInv
<1>12. GoesDown'
  <2>1. \A t \in Servers \ stray' : config[t] # "enabled" /\ Up(t)' => Up(t)
    BY <1>2, <1>3, <1>4, <1>5, <1>6, <1>8 DEF Up, Server
  <2>2. \A b \in Actors : At(b, "disconnecting") => actors'[b] = actors[b]
    BY <1>6 DEF TakePrevious, At
  <2> QED
    BY <1>4, <2>1, <2>2, DownStays DEF XInv
<1> QED
  BY <1>8, <1>9, <1>10, <1>11, <1>12 DEF XInv

----------------------------------------------------------------------------
(* The remote ends *)

LEMMA RemoteKeeps ==
  ASSUME XInv, (\E k \in Clients : ServerDies(k)) \/ (\E s \in Servers : ConnectionLost(s))
  PROVE  XInv'
<1>1. ASSUME NEW k \in Clients, ServerDies(k) PROVE XInv'
  <2>1. lost' \subseteq Clients /\ UNCHANGED <<stray, config, connection, tools, opened, open, connectMu, actors>>
    BY <1>1 DEF ServerDies, XInv, Typed, ExternalTypeOK
  <2> QED
    BY <2>1 DEF XInv, Typed, ExternalTypeOK, Locked, Owned, Recorded, GoesDown, Up, Holds, Has, At, Server
<1>2. ASSUME NEW s \in Servers, ConnectionLost(s) PROVE XInv'
  <2>1. PICK k \in Clients \cup {NoClient} : k = connection[s].client
    BY DEF XInv, Typed, ExternalTypeOK, Connection
  <2>2. MarkConnectionLost(s, k) /\ UNCHANGED <<stray, config, tools, opened, lost, connectMu, actors>>
    BY <1>2, <2>1 DEF ConnectionLost
  <2>3. HoldersStay
    BY <2>2 DEF HoldersStay, Holds, Locking
  <2>4. Typed'
    <3>1. connection' \in [Servers -> Connection] /\ open' \subseteq Clients
      BY <2>2 DEF XInv, Typed, ExternalTypeOK, MarkConnectionLost, Connection
    <3> QED
      BY <2>2, <3>1 DEF XInv, Typed, ExternalTypeOK, Server
  <2>5. Locked' /\ Owned' /\ Recorded' /\ \A t \in Servers : connection'[t].there = connection[t].there
    BY <2>2, <2>3, <2>4, LostKeeps DEF XInv
  <2>6. \A t \in Servers : Up(t)' <=> Up(t)
    BY <2>2, <2>3, <2>5, SameUp DEF XInv
  <2>7. GoesDown'
    BY <2>2, <2>6, DownStays DEF XInv
  <2> QED
    BY <2>4, <2>5, <2>7 DEF XInv
<1> QED
  BY <1>1, <1>2

----------------------------------------------------------------------------
(* The theorems *)

LEMMA InitHolds == ExternalInit => XInv
<1> SUFFICES ASSUME ExternalInit PROVE XInv
  OBVIOUS
<1>1. Nothing \in Connection /\ ~Nothing.there /\ Nothing.client = NoClient /\ ~Nothing.tools
  BY DEF Nothing, Connection
<1>2. \A s \in Servers : connection[s] = Nothing
  BY DEF ExternalInit
<1>3. \A a \in Actors : actors[a] = Idle
  BY DEF ExternalInit
<1>4. \A a \in Actors : ~Holds(a) /\ ~Has(a) /\ At(a, "idle")
  BY <1>3, IdleFits DEF Holds, Has, At
<1>5. Typed
  BY <1>1, <1>4, IdleFits, ExternalAssumption DEF ExternalInit, Typed, ExternalTypeOK, At
<1>6. Locked
  BY <1>4, ExternalAssumption DEF ExternalInit, Locked, At
<1>7. Owned
  BY <1>1, <1>2, <1>4 DEF ExternalInit, Owned, Clients, NoClient
<1>8. Recorded
  BY <1>1, <1>2 DEF ExternalInit, Recorded
<1>9. GoesDown
  BY <1>1, <1>2 DEF ExternalInit, GoesDown, Up
<1> QED
  BY <1>5, <1>6, <1>7, <1>8, <1>9 DEF XInv

LEMMA NextKeeps == XInv /\ [ExternalNext]_vars => XInv'
<1> SUFFICES ASSUME XInv, [ExternalNext]_vars PROVE XInv'
  OBVIOUS
<1>1. ASSUME NEW a \in Actors, Connecting(a) PROVE XInv'
  BY <1>1, DisconnectKeeps, ConnectBeginsKeeps, OpenFailsKeeps, OpenClientKeeps,
     TakePreviousKeeps, PublishKeeps, RefuseKeeps DEF Connecting
<1>2. CASE UNCHANGED vars
  BY <1>2 DEF vars, XInv, Typed, ExternalTypeOK, Locked, Owned, Recorded, GoesDown,
              Up, Holds, Has, At, Server
<1> QED
  BY <1>1, <1>2, AdminKeeps, CallKeeps, RemoteKeeps DEF ExternalNext

\* The invariant of the external MCP manager: connectMu has at most one holder,
\* a client that is open has exactly one owner, the record of a connection
\* tells which tools are published, and a disabled server that is up is about
\* to be disconnected.
THEOREM ExternalInvariant == ExternalSpec => []XInv
  BY InitHolds, NextKeeps, PTL DEF ExternalSpec

\* The published tools are those that the connection records count, whatever
\* requests, failed opens, lost connections and refused names come together.
THEOREM ToolsMatch == ExternalSpec => []ToolsMatchConnections
<1>1. XInv => ToolsMatchConnections
  BY DEF XInv, Recorded, ToolsMatchConnections
<1> QED
  BY <1>1, ExternalInvariant, PTL

\* Every open client belongs to one connection or to the connect about to
\* store it, and no connection has a closed one: no client process leaks.
THEOREM ClientsHaveOwners == ExternalSpec => []ClientsOwned
<1>1. ASSUME XInv PROVE ClientsOwned
  <2> DEFINE stored  == {connection[s].client : s \in Servers} \ {NoClient}
             pending == {actors[a].client : a \in {b \in Actors : At(b, "opened") \/ At(b, "taken")}}
  <2>1. stored \subseteq Clients /\ pending \subseteq Clients /\ open \subseteq Clients
    <3>1. \A a \in Actors : Has(a) => actors[a].client \in Clients
      BY <1>1 DEF XInv, Locked, Typed, ExternalTypeOK, Actor
    <3> QED
      BY <1>1, <3>1 DEF XInv, Typed, ExternalTypeOK, Connection, Has, At
  <2>2. \A n \in Clients : n \in open <=> n \in stored \cup pending
    <3>1. \A n \in Clients : n # NoClient
      BY DEF Clients, NoClient
    <3> QED
      BY <1>1, <3>1 DEF XInv, Owned, Has, At
  <2>3. stored \cap pending = {}
    BY <1>1 DEF XInv, Owned, Has, At
  <2>4. \A s, t \in Servers :
          connection[s].client = connection[t].client /\ s # t => connection[s].client = NoClient
    BY <1>1 DEF XInv, Owned
  <2>5. open = stored \cup pending
    BY <2>1, <2>2
  <2> QED
    BY <2>3, <2>4, <2>5 DEF ClientsOwned
<1> QED
  BY <1>1, ExternalInvariant, PTL

\* A server that is disabled or removed stays down once no request or call is
\* about it: no late connect, retry or concurrent request brings it back.
THEOREM DisabledIsDown == ExternalSpec => []DisabledStaysDown
<1>1. ASSUME XInv PROVE DisabledStaysDown
  <2>1. SUFFICES ASSUME NEW s \in Servers \ stray, config[s] # "enabled",
                        \A a \in Actors : Server(a) # s
                 PROVE  s \notin tools /\ connection[s].client = NoClient
    BY DEF DisabledStaysDown
  <2>2. ~connection[s].there
    BY <1>1, <2>1 DEF XInv, GoesDown, Up
  <2> QED
    BY <1>1, <2>2 DEF XInv, Recorded
<1> QED
  BY <1>1, ExternalInvariant, PTL
=============================================================================
