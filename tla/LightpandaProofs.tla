--------------------------- MODULE LightpandaProofs ---------------------------
(***************************************************************************)
(* Proofs about Lightpanda, for any number of dashboard requests, calls,   *)
(* servers, clients and errors: one server, every browser owned, a healthy *)
(* client kept, and calls that fail only after one fault or two.           *)
(***************************************************************************)
EXTENDS Lightpanda, TLAPS

Starting == {"dial", "commit", "poll"}

\* The server: one start at a time, and until it has stored its process the
\* command that was there before has ended.
ServerInv ==
  /\ \A d \in Dashboards : requests[d].at \in Starting => starting
  /\ \A d, e \in Dashboards : requests[d].at \in Starting /\ requests[e].at \in Starting => d = e
  /\ \A d \in Dashboards : requests[d].at = "commit" =>
       /\ requests[d].server \in Servers /\ requests[d].server # command
       /\ servers[requests[d].server] \in {"running", "exited"}
  /\ \A d \in Dashboards : requests[d].at \in {"dial", "commit"} => MayLookDead
  /\ \A p \in Servers : servers[p] = "running" =>
       command = p \/ \E d \in Dashboards : requests[d].at = "commit" /\ requests[d].server = p
  /\ command # None => servers[command] \in {"running", "exited"}

Opens(c)   == calls[c].at \in {"opening", "storing"}
Uses(c)    == calls[c].at \in {"calling", "discard"}
Current(n) == nativeClient = n \/ (nativeInitMu # Nobody /\ calls[nativeInitMu].client = n)
Bad(n)     == natives[n] # "up" \/ \E c \in ToolCalls : calls[c].at = "discard" /\ calls[c].client = n

\* Who has which client.
ClientInv ==
  /\ \A c \in ToolCalls : Opens(c) <=> nativeInitMu = c
  /\ nativeInitMu # Nobody => nativeClient = None
  /\ \A c \in ToolCalls : Opens(c) \/ Uses(c) => calls[c].client \in Clients
  /\ \A c \in ToolCalls : Opens(c) => natives[calls[c].client] \in {"up", "lost", "missed"}
  /\ nativeClient # None => natives[nativeClient] \in {"up", "lost", "missed"}
  /\ \A c, d \in ToolCalls : Opens(c) /\ Uses(d) => calls[c].client # calls[d].client
  /\ \A c \in ToolCalls : Uses(c) => natives[calls[c].client] # "none"
  /\ NativeClientOwned

\* What is no longer up was at fault, or the server shuts down.
FaultyInv ==
  /\ \A n \in Clients : natives[n] \in {"lost", "missed"} => n \in faulty
  /\ \A n \in Clients : natives[n] = "closed" => n \in faulty \/ down
  /\ \A c \in ToolCalls : calls[c].at = "discard" => calls[c].client \in faulty \/ down

\* The faults that a call has met, f: one for each client it could use that is bad.
Meets(call, f) ==
  /\ call.try = 2 => f >= 1
  /\ call.at \notin {"idle", "calling", "discard"} =>
       \A n \in Clients : Current(n) /\ Bad(n) => f >= call.try
  /\ call.at \in {"calling", "discard"} =>
       /\ call.try \in {1, 2}
       /\ \A n \in Clients : Current(n) /\ Bad(n) /\ n # call.client => f = 2
       /\ call.at = "discard" \/ Bad(call.client) => f >= call.try
  /\ call.at \in {"look", "reread"} => call.try \in {1, 2}
  /\ call.at = "reread" /\ nativeClient = None => f >= call.try

\* The faults that a reply takes.
Excused(answer, f) == (answer = "failed" => f = 2) /\ (answer = "unopened" => f >= 1)

Counted(c) == Meets(calls[c], faults[c])
AllExcused == \A c \in ToolCalls : Excused(reply[c], faults[c])

CountInv == AllExcused /\ \A c \in ToolCalls : Counted(c)
NativeInv == ClientInv /\ FaultyInv /\ CountInv

LInv == LightpandaTypeOK /\ ServerInv /\ NativeInv

----------------------------------------------------------------------------
(* Types, by half *)

Request == [at : {"idle", "dial", "commit", "poll", "stopping"}, server : Servers \cup {None}]
Call    == [at : {"idle", "look", "prepare", "opening", "storing", "reread", "calling", "discard"},
            try : 0 .. 2, client : Clients \cup {None}]

ServerTyped ==
  /\ command \in Servers \cup {None}
  /\ starting \in BOOLEAN /\ detecting \in BOOLEAN /\ detected \in BOOLEAN
  /\ servers \in [Servers -> {"none", "running", "exited", "done"}]
  /\ requests \in [Dashboards -> Request]

NativeTyped ==
  /\ nativeClient \in Clients \cup {None}
  /\ nativeInitMu \in ToolCalls \cup {Nobody}
  /\ natives \in [Clients -> {"none", "up", "lost", "missed", "closed"}]
  /\ calls \in [ToolCalls -> Call]
  /\ errors \in 0 .. MaxErrors /\ down \in BOOLEAN
  /\ faulty \subseteq Clients
  /\ reply \in [ToolCalls -> {"none", "result", "unopened", "failed"}]
  /\ faults \in [ToolCalls -> 0 .. 2]

LEMMA TypesByHalf == LightpandaTypeOK <=> ServerTyped /\ NativeTyped
  BY DEF LightpandaTypeOK, ServerTyped, NativeTyped, Request, Call

LEMMA NoneApart == None \notin Servers /\ None \notin Clients
  BY DEF None, Servers, Clients

----------------------------------------------------------------------------
(* The server *)

\* The request that takes a step, and the others.
LEMMA OneRequest ==
  ASSUME ServerTyped, NEW d \in Dashboards, NEW new \in Request,
         requests' = [requests EXCEPT ![d] = new]
  PROVE  /\ requests' \in [Dashboards -> Request]
         /\ requests'[d] = new /\ \A e \in Dashboards : e # d => requests'[e] = requests[e]
  BY DEF ServerTyped

LEMMA RequestMoves ==
  ASSUME ServerTyped, NEW d \in Dashboards,
         NEW at \in {"dial", "commit", "poll", "stopping"}, MoveRequest(d, at)
  PROVE  \E new \in Request : /\ requests' = [requests EXCEPT ![d] = new]
                              /\ new.at = at /\ new.server = requests[d].server
<1>1. requests[d] \in Request
  BY DEF ServerTyped
<1>2. PICK new \in Request : new = [requests[d] EXCEPT !.at = at]
  BY <1>1 DEF Request
<1>3. new.at = at /\ new.server = requests[d].server
  BY <1>1, <1>2 DEF Request
<1> QED
  BY <1>2, <1>3 DEF MoveRequest

LEMMA RequestEnds ==
  ASSUME NEW d \in Dashboards, EndRequest(d)
  PROVE  \E new \in Request : requests' = [requests EXCEPT ![d] = new] /\ new.at = "idle"
<1>1. IdleRequest \in Request /\ IdleRequest.at = "idle"
  BY DEF Request, IdleRequest
<1> QED
  BY <1>1 DEF EndRequest

LEMMA ServerIsOne == ServerTyped /\ ServerInv => OneServer
<1> SUFFICES ASSUME ServerTyped, ServerInv PROVE OneServer
  OBVIOUS
<1>1. ASSUME NEW d \in Dashboards, NEW p \in Servers, requests[d].at = "commit", requests[d].server = p
      PROVE  requests[d] = [at |-> "commit", server |-> p]
  <2>1. requests[d] \in Request
    BY DEF ServerTyped
  <2> QED
    BY <1>1, <2>1 DEF Request
<1> QED
  BY <1>1 DEF OneServer, ServerInv, Starting

LEMMA ServerKeeps ==
  ASSUME ServerTyped, ServerInv, ServerStep PROVE ServerTyped' /\ ServerInv'
<1>1. ASSUME NEW d \in Dashboards, ServeStart(d) PROVE ServerTyped' /\ ServerInv'
  <2>1. PICK new \in Request : /\ requests' = [requests EXCEPT ![d] = new] /\ new.at = "dial"
    BY <1>1, RequestMoves DEF ServeStart
  <2>2. requests' \in [Dashboards -> Request] /\ requests'[d] = new
        /\ \A e \in Dashboards : e # d => requests'[e] = requests[e]
    BY <2>1, OneRequest
  <2>3. ServerTyped'
    BY <1>1, <2>2 DEF ServeStart, ServerTyped
  <2> QED
    BY <1>1, <2>1, <2>2, <2>3 DEF ServeStart, MayLookDead, ServerInv, Starting
<1>2. ASSUME NEW d \in Dashboards, Dial(d) PROVE ServerTyped' /\ ServerInv'
  <2>1. CASE starting' = FALSE /\ EndRequest(d) /\ UNCHANGED servers
    <3>1. PICK new \in Request : requests' = [requests EXCEPT ![d] = new] /\ new.at = "idle"
      BY <2>1, RequestEnds
    <3>2. requests' \in [Dashboards -> Request] /\ requests'[d] = new
          /\ \A e \in Dashboards : e # d => requests'[e] = requests[e]
      BY <3>1, OneRequest
    <3>3. ServerTyped'
      BY <1>2, <2>1, <3>2 DEF Dial, ServerTyped
    <3> QED
      BY <1>2, <2>1, <3>1, <3>2, <3>3 DEF Dial, ServerInv, Starting, MayLookDead
  <2>2. ASSUME NEW p \in Servers, servers[p] = "none", servers' = [servers EXCEPT ![p] = "running"],
               requests' = [requests EXCEPT ![d] = [at |-> "commit", server |-> p]],
               detected' = TRUE, UNCHANGED <<starting, command, detecting>>, requests[d].at = "dial"
        PROVE  ServerTyped' /\ ServerInv'
    <3>1. PICK new \in Request : new = [at |-> "commit", server |-> p]
      BY DEF Request
    <3>2. new.at = "commit" /\ new.server = p
      BY <3>1
    <3>3. requests' \in [Dashboards -> Request] /\ requests'[d] = new
          /\ \A e \in Dashboards : e # d => requests'[e] = requests[e]
      BY <2>2, <3>1, OneRequest
    <3>4. servers' \in [Servers -> {"none", "running", "exited", "done"}]
          /\ servers'[p] = "running" /\ \A q \in Servers : q # p => servers'[q] = servers[q]
      BY <2>2 DEF ServerTyped
    <3>5. ServerTyped'
      BY <2>2, <3>3, <3>4 DEF ServerTyped
    <3>6. \A e \in Dashboards : e # d => requests[e].at \notin Starting
      BY <2>2 DEF ServerInv, Starting
    <3>7. p # command /\ (command # None => command \in Servers /\ servers[command] = "exited")
      BY <2>2, NoneApart DEF ServerInv, MayLookDead, ServerTyped
    <3>8. starting' /\ command' = command
      BY <2>2 DEF ServerInv, Starting
    <3>a. \A e \in Dashboards : requests[e].at # "commit"
      BY <2>2, <3>6 DEF Starting
    <3>b. \A q \in Servers : servers[q] = "running" => command = q
      BY <3>a DEF ServerInv
    <3>9. \A q \in Servers : servers'[q] = "running" => q = p
      BY <3>4, <3>7, <3>b, NoneApart
    <3>10. command' # None => servers'[command'] = "exited"
      BY <3>4, <3>7, <3>8
    <3> QED
      BY <3>2, <3>3, <3>4, <3>5, <3>6, <3>7, <3>8, <3>9, <3>10, <3>a DEF ServerInv, Starting, MayLookDead
  <2> QED
    BY <1>2, <2>1, <2>2 DEF Dial
<1>3. ASSUME NEW d \in Dashboards, ServeCommit(d) PROVE ServerTyped' /\ ServerInv'
  <2>1. PICK new \in Request : new = [at |-> "poll", server |-> None]
    BY DEF Request
  <2>2. new.at = "poll"
    BY <2>1
  <2>3. requests' \in [Dashboards -> Request] /\ requests'[d] = new
        /\ \A e \in Dashboards : e # d => requests'[e] = requests[e]
    BY <1>3, <2>1, OneRequest DEF ServeCommit
  <2>4. command' = requests[d].server /\ command' \in Servers /\ UNCHANGED <<starting, detecting, detected, servers>>
    BY <1>3 DEF ServeCommit, ServerInv
  <2>5. ServerTyped'
    BY <2>3, <2>4 DEF ServerTyped
  <2> QED
    BY <1>3, <2>2, <2>3, <2>4, <2>5, NoneApart DEF ServeCommit, ServerTyped, ServerInv, Starting, MayLookDead
<1>4. ASSUME NEW d \in Dashboards, FinishStart(d) PROVE ServerTyped' /\ ServerInv'
  <2>1. PICK new \in Request : requests' = [requests EXCEPT ![d] = new] /\ new.at = "idle"
    BY <1>4, RequestEnds DEF FinishStart
  <2>2. requests' \in [Dashboards -> Request] /\ requests'[d] = new
        /\ \A e \in Dashboards : e # d => requests'[e] = requests[e]
    BY <2>1, OneRequest
  <2>3. ServerTyped'
    BY <1>4, <2>2 DEF FinishStart, ServerTyped
  <2> QED
    BY <1>4, <2>1, <2>2, <2>3 DEF FinishStart, ServerInv, Starting, MayLookDead
<1>5. ASSUME NEW d \in Dashboards, ServeStop(d) PROVE ServerTyped' /\ ServerInv'
  <2>1. PICK new \in Request : new = [at |-> "stopping", server |-> command]
    BY DEF Request, ServerTyped
  <2>2. new.at = "stopping"
    BY <2>1
  <2>3. requests' \in [Dashboards -> Request] /\ requests'[d] = new
        /\ \A e \in Dashboards : e # d => requests'[e] = requests[e]
    BY <1>5, <2>1, OneRequest DEF ServeStop
  <2>4. command \in Servers
    BY <1>5 DEF ServeStop, ServerTyped
  <2>5. /\ servers' \in [Servers -> {"none", "running", "exited", "done"}]
        /\ servers'[command] = "exited" /\ \A q \in Servers : q # command => servers'[q] = servers[q]
    BY <1>5, <2>4, NoneApart DEF ServeStop, ServerTyped, ServerInv
  <2>6. ServerTyped'
    BY <1>5, <2>3, <2>5 DEF ServeStop, ServerTyped
  <2> QED
    BY <1>5, <2>2, <2>3, <2>4, <2>5, <2>6 DEF ServeStop, ServerInv, Starting, MayLookDead
<1>6. ASSUME NEW d \in Dashboards, ServeStopEnd(d) PROVE ServerTyped' /\ ServerInv'
  <2>1. PICK new \in Request : requests' = [requests EXCEPT ![d] = new] /\ new.at = "idle"
    BY <1>6, RequestEnds DEF ServeStopEnd
  <2>2. requests' \in [Dashboards -> Request] /\ requests'[d] = new
        /\ \A e \in Dashboards : e # d => requests'[e] = requests[e]
    BY <2>1, OneRequest
  <2>3. ServerTyped'
    BY <1>6, <2>2 DEF ServeStopEnd, ServerTyped
  <2> QED
    BY <1>6, <2>1, <2>2, <2>3 DEF ServeStopEnd, ServerInv, Starting, MayLookDead
<1>7. ASSUME NEW p \in Servers, ServeExit(p) PROVE ServerTyped' /\ ServerInv'
  <2>1. /\ servers' \in [Servers -> {"none", "running", "exited", "done"}]
        /\ servers'[p] = "exited" /\ \A q \in Servers : q # p => servers'[q] = servers[q]
    BY <1>7 DEF ServeExit, ServerTyped
  <2>2. ServerTyped'
    BY <1>7, <2>1 DEF ServeExit, ServerTyped
  <2> QED
    BY <1>7, <2>1, <2>2 DEF ServeExit, ServerTyped, ServerInv, Starting, MayLookDead
<1>8. ASSUME NEW p \in Servers, ServeReap(p) PROVE ServerTyped' /\ ServerInv'
  <2>1. /\ servers' \in [Servers -> {"none", "running", "exited", "done"}]
        /\ servers'[p] = "done" /\ \A q \in Servers : q # p => servers'[q] = servers[q]
    BY <1>8 DEF ServeReap, ServerTyped
  <2>2. command' = (IF command = p THEN None ELSE command)
        /\ UNCHANGED <<starting, detecting, detected, requests>>
    BY <1>8 DEF ServeReap
  <2>3. ServerTyped'
    BY <2>1, <2>2 DEF ServerTyped
  <2>4. \A d \in Dashboards : requests[d].server # p \/ requests[d].at # "commit"
    BY <1>8 DEF ServeReap
  <2> QED
    BY <1>8, <2>1, <2>2, <2>3, <2>4, NoneApart DEF ServeReap, ServerTyped, ServerInv, Starting, MayLookDead
<1>9. CASE ProbeBegin \/ ProbeEnd
  <2>1. ServerTyped' /\ UNCHANGED <<command, starting, servers, requests>>
    BY <1>9 DEF ProbeBegin, ProbeEnd, ServerTyped
  <2> QED
    BY <2>1 DEF ServerInv, Starting, MayLookDead
<1> QED
  BY <1>1, <1>2, <1>3, <1>4, <1>5, <1>6, <1>7, <1>8, <1>9 DEF ServerStep

----------------------------------------------------------------------------
(* The native client: helpers *)

LEMMA IdleCallFits ==
  /\ IdleCall \in Call /\ IdleCall.at = "idle" /\ IdleCall.try = 0 /\ IdleCall.client = None
  BY DEF IdleCall, Call

LEMMA CallFits ==
  ASSUME NEW at \in {"look", "prepare"}, NEW try \in 0 .. 2
  PROVE  \E new \in Call : /\ new = [at |-> at, try |-> try, client |-> None]
                           /\ new.at = at /\ new.try = try /\ new.client = None
<1>1. [at |-> at, try |-> try, client |-> None] \in Call
  BY DEF Call
<1> QED
  BY <1>1

\* The call that takes a step, and the others.
LEMMA OneCall ==
  ASSUME NativeTyped, NEW c \in ToolCalls, NEW new \in Call, calls' = [calls EXCEPT ![c] = new]
  PROVE  /\ calls' \in [ToolCalls -> Call]
         /\ calls'[c] = new /\ \A d \in ToolCalls : d # c => calls'[d] = calls[d]
  BY DEF NativeTyped

LEMMA CallMoves ==
  ASSUME NativeTyped, NEW c \in ToolCalls, NEW at \in {"reread", "storing", "discard"}, MoveCall(c, at)
  PROVE  \E new \in Call : /\ calls' = [calls EXCEPT ![c] = new]
                           /\ new.at = at /\ new.try = calls[c].try /\ new.client = calls[c].client
<1>1. calls[c] \in Call
  BY DEF NativeTyped
<1>2. PICK new \in Call : new = [calls[c] EXCEPT !.at = at]
  BY <1>1 DEF Call
<1>3. new.at = at /\ new.try = calls[c].try /\ new.client = calls[c].client
  BY <1>1, <1>2 DEF Call
<1> QED
  BY <1>2, <1>3 DEF MoveCall

LEMMA OneCurrent ==
  ASSUME NativeTyped, ClientInv, NEW m \in Clients, NEW n \in Clients, Current(m), Current(n)
  PROVE  m = n
  BY NoneApart DEF NativeTyped, ClientInv, Current

\* What a call uses and is not current is no longer up.
LEMMA OthersBad ==
  ASSUME NativeTyped, ClientInv, NEW c \in ToolCalls, Uses(c),
         NEW n \in Clients, Current(n), n # calls[c].client
  PROVE  natives[calls[c].client] # "up" /\ Bad(calls[c].client)
<1>1. calls[c].client \in Clients
  BY DEF ClientInv
<1>2. ~Current(calls[c].client)
  BY <1>1, OneCurrent
<1> QED
  BY <1>1, <1>2 DEF ClientInv, NativeClientOwned, Current, Bad

\* A call that nothing new happens to, while a client goes only if it is bad.
LEMMA CountOthers ==
  ASSUME NEW d \in ToolCalls, Counted(d), calls'[d] = calls[d], faults'[d] = faults[d],
         \A n \in Clients : Current(n)' /\ Bad(n)' => Current(n) /\ Bad(n),
         nativeClient' = None => nativeClient = None \/ \E n \in Clients : Current(n) /\ Bad(n),
         Uses(d) => (Bad(calls[d].client)' => Bad(calls[d].client))
  PROVE  Counted(d)'
<1>1. Uses(d)' <=> Uses(d)
  BY DEF Uses
<1> QED
  BY <1>1 DEF Counted, Meets, Uses

\* A step by which one call neither takes nor releases nativeInitMu, and the
\* clients stay what they are.
LEMMA QuietCall ==
  ASSUME NativeTyped, NativeTyped', ClientInv, FaultyInv, NEW c \in ToolCalls, NEW new \in Call,
         calls' = [calls EXCEPT ![c] = new], ~Opens(c), new.at \notin {"opening", "storing"},
         UNCHANGED <<nativeClient, nativeInitMu, natives, down>>, faulty \subseteq faulty',
         new.at \in {"calling", "discard"} =>
           \/ new.client = nativeClient /\ nativeClient # None
           \/ new.client = calls[c].client /\ Uses(c),
         new.at = "discard" => new.client \in faulty' \/ down
  PROVE  /\ ClientInv' /\ FaultyInv'
         /\ \A n \in Clients : Current(n)' <=> Current(n)
<1>1. calls'[c] = new /\ \A d \in ToolCalls : d # c => calls'[d] = calls[d]
  BY OneCall
<1>2. \A d \in ToolCalls : Opens(d)' <=> Opens(d)
  BY <1>1 DEF Opens
<1>3. \A d \in ToolCalls : d # c => (Uses(d)' <=> Uses(d))
  BY <1>1 DEF Uses
<1>4. nativeInitMu # c
  BY DEF ClientInv
<1>5. \A n \in Clients : Current(n)' <=> Current(n)
  BY <1>1, <1>4 DEF Current, NativeTyped
<1>6. Uses(c)' => /\ new.client \in Clients /\ natives[new.client] # "none"
                  /\ \A d \in ToolCalls : Opens(d) => calls[d].client # new.client
  <2>1. SUFFICES ASSUME Uses(c)' PROVE /\ new.client \in Clients /\ natives[new.client] # "none"
                                       /\ \A d \in ToolCalls : Opens(d) => calls[d].client # new.client
    OBVIOUS
  <2>2. new.at \in {"calling", "discard"}
    BY <1>1, <2>1 DEF Uses
  <2>3. CASE new.client = nativeClient /\ nativeClient # None
    <3>1. \A d \in ToolCalls : ~Opens(d)
      BY <2>3, LightpandaAssumption DEF ClientInv
    <3> QED
      BY <2>3, <3>1 DEF ClientInv, NativeTyped
  <2>4. CASE new.client = calls[c].client /\ Uses(c)
    BY <2>4 DEF ClientInv
  <2> QED
    BY <2>2, <2>3, <2>4
<1>7. ClientInv'
  <2>1. \A d, e \in ToolCalls : Opens(d)' /\ Uses(e)' => calls'[d].client # calls'[e].client
    BY <1>1, <1>2, <1>3, <1>6 DEF ClientInv
  <2>2. \A d \in ToolCalls : Uses(d)' => /\ calls'[d].client \in Clients
                                         /\ natives'[calls'[d].client] # "none"
    BY <1>1, <1>3, <1>6 DEF ClientInv
  <2>3. \A d \in ToolCalls : Opens(d)' => /\ calls'[d].client \in Clients
                                          /\ natives'[calls'[d].client] \in {"up", "lost", "missed"}
    BY <1>1, <1>2 DEF ClientInv
  <2>4. NativeClientOwned'
    BY <1>5 DEF ClientInv, NativeClientOwned, Current
  <2> QED
    BY <1>2, <2>1, <2>2, <2>3, <2>4 DEF ClientInv
<1>8. FaultyInv'
  BY <1>1 DEF FaultyInv
<1> QED
  BY <1>5, <1>7, <1>8

\* No client that a call could use becomes bad, and only one call moves.
LEMMA QuietCount ==
  ASSUME CountInv, NEW c \in ToolCalls,
         \A d \in ToolCalls : d # c => calls'[d] = calls[d] /\ faults'[d] = faults[d] /\ reply'[d] = reply[d],
         \A n \in Clients : Current(n)' /\ Bad(n)' => Current(n) /\ Bad(n),
         nativeClient' = None => nativeClient = None \/ \E n \in Clients : Current(n) /\ Bad(n),
         \A d \in ToolCalls : d # c /\ Uses(d) => (Bad(calls[d].client)' => Bad(calls[d].client)),
         Excused(reply'[c], faults'[c]),
         Counted(c)'
  PROVE  CountInv'
<1>1. \A d \in ToolCalls : d # c => Counted(d)'
  BY CountOthers DEF CountInv
<1>2. AllExcused'
  BY DEF CountInv, AllExcused
<1> QED
  BY <1>1, <1>2 DEF CountInv

\* Every call under way feels a fault: none is then one short.
LEMMA FeltCounts ==
  ASSUME NativeTyped, ClientInv, NEW d \in ToolCalls, Counted(d), calls'[d] = calls[d], faults' = Felt,
         \A n \in Clients : Current(n)' => Current(n)
  PROVE  Counted(d)'
<1>1. faults'[d] = IF calls[d].at = "idle" \/ faults[d] = 2 THEN faults[d] ELSE faults[d] + 1
  BY DEF Felt, Worse
<1>2. faults[d] \in 0 .. 2 /\ calls[d].try \in 0 .. 2
  BY DEF NativeTyped, Call
<1>3. calls[d].at # "idle" => faults'[d] >= calls[d].try
  BY <1>1, <1>2 DEF Counted, Meets
<1>4. Uses(d)' <=> Uses(d)
  BY DEF Uses
<1>5. ASSUME Uses(d), NEW n \in Clients, Current(n), n # calls[d].client
      PROVE  faults'[d] = 2
  <2>1. Bad(calls[d].client)
    BY <1>5, OthersBad
  <2>2. faults[d] >= 1 /\ calls[d].at # "idle"
    BY <1>2, <1>5, <2>1 DEF Counted, Meets, Uses
  <2> QED
    BY <1>1, <1>2, <2>2
<1>6. calls[d].try = 2 => faults'[d] >= 1
  BY <1>1, <1>2 DEF Counted, Meets
<1>7. Uses(d) => calls[d].try \in {1, 2}
  BY DEF Counted, Meets, Uses
<1>8. calls[d].at \in {"look", "reread"} => calls[d].try \in {1, 2}
  BY DEF Counted, Meets
<1> QED
  BY <1>3, <1>4, <1>5, <1>6, <1>7, <1>8 DEF Counted, Meets, Uses

\* One more fault for one call.
LEMMA WorseFits ==
  ASSUME NativeTyped, NEW c \in ToolCalls,
         UNCHANGED faults \/ faults' = [faults EXCEPT ![c] = Worse(@)]
  PROVE  /\ faults' \in [ToolCalls -> 0 .. 2] /\ faults'[c] \in {faults[c], Worse(faults[c])}
         /\ \A d \in ToolCalls : d # c => faults'[d] = faults[d]
<1>1. faults \in [ToolCalls -> 0 .. 2] /\ Worse(faults[c]) \in 0 .. 2
  BY DEF NativeTyped, Worse
<1> QED
  BY <1>1

\* A step of one call by which no other call meets a fault, no client comes or goes
\* and nativeInitMu is left alone.
LEMMA CallKeeps ==
  ASSUME NativeTyped, NativeInv, NEW c \in ToolCalls, NEW new \in Call,
         calls' = [calls EXCEPT ![c] = new], ~Opens(c), new.at \notin {"opening", "storing"},
         UNCHANGED <<nativeClient, nativeInitMu, natives, errors, down, faulty>>,
         UNCHANGED faults \/ faults' = [faults EXCEPT ![c] = Worse(@)],
         \/ UNCHANGED reply
         \/ \E r \in {"result", "unopened", "failed"} :
              reply' = [reply EXCEPT ![c] = r] /\ Excused(r, faults'[c]),
         new.at = "calling" => new.client = nativeClient /\ nativeClient # None,
         new.at = "discard" => new.client = calls[c].client /\ Uses(c) /\ natives[new.client] # "up",
         Meets(new, faults'[c])
  PROVE  NativeTyped' /\ NativeInv'
<1>1. calls' \in [ToolCalls -> Call] /\ calls'[c] = new /\ \A d \in ToolCalls : d # c => calls'[d] = calls[d]
  BY OneCall
<1>b. /\ faults' \in [ToolCalls -> 0 .. 2] /\ faults'[c] \in {faults[c], Worse(faults[c])}
      /\ \A d \in ToolCalls : d # c => faults'[d] = faults[d]
  BY WorseFits
<1>2. /\ reply' \in [ToolCalls -> {"none", "result", "unopened", "failed"}]
      /\ Excused(reply'[c], faults'[c])
      /\ \A d \in ToolCalls : d # c => reply'[d] = reply[d]
  <2>1. CASE UNCHANGED reply
    <3>1. Excused(reply[c], faults[c]) /\ faults[c] \in 0 .. 2
      BY DEF NativeTyped, NativeInv, CountInv, AllExcused
    <3>2. Excused(reply[c], faults'[c])
      BY <1>b, <3>1 DEF Excused, Worse
    <3> QED
      BY <2>1, <3>2 DEF NativeTyped
  <2>2. ASSUME NEW r \in {"result", "unopened", "failed"}, reply' = [reply EXCEPT ![c] = r],
               Excused(r, faults'[c])
        PROVE  /\ reply' \in [ToolCalls -> {"none", "result", "unopened", "failed"}]
               /\ Excused(reply'[c], faults'[c])
               /\ \A d \in ToolCalls : d # c => reply'[d] = reply[d]
    BY <2>2 DEF NativeTyped
  <2> QED
    BY <2>1, <2>2
<1>3. NativeTyped'
  BY <1>1, <1>b, <1>2 DEF NativeTyped
<1>4. new.at = "discard" => new.client \in faulty \/ down
  BY DEF NativeInv, ClientInv, FaultyInv, NativeTyped
<1>a. /\ faulty \subseteq faulty' /\ (new.at = "discard" => new.client \in faulty' \/ down)
      /\ new.at \in {"calling", "discard"} =>
           \/ new.client = nativeClient /\ nativeClient # None
           \/ new.client = calls[c].client /\ Uses(c)
  BY <1>4
<1>5. ClientInv' /\ FaultyInv' /\ \A n \in Clients : Current(n)' <=> Current(n)
  BY <1>3, <1>a, QuietCall DEF NativeInv
<1>6. \A n \in Clients : Bad(n)' => Bad(n)
  BY <1>1 DEF Bad
<1>7. Counted(c)'
  <2>1. new.at \in {"calling", "discard"} => new.client \in Clients
    BY DEF NativeInv, ClientInv, NativeTyped
  <2>2. new.at \in {"calling", "discard"} => (Bad(calls[c].client)' => Bad(new.client))
    BY <1>1, <1>6, <2>1 DEF Bad
  <2>3. \A n \in Clients : Current(n)' /\ Bad(n)' => Current(n) /\ Bad(n)
    BY <1>5, <1>6
  <2> QED
    BY <1>1, <2>2, <2>3 DEF Counted, Meets
<1>8. CountInv'
  <2>1. \A d \in ToolCalls : d # c /\ Uses(d) => (Bad(calls[d].client)' => Bad(calls[d].client))
    BY <1>1, <1>6 DEF Bad, NativeInv, ClientInv
  <2> QED
    BY <1>1, <1>b, <1>2, <1>5, <1>6, <1>7, <2>1, QuietCount DEF NativeInv
<1> QED
  BY <1>3, <1>5, <1>8 DEF NativeInv

----------------------------------------------------------------------------
(* The native client: calls that leave the lock alone *)

LEMMA BeginKeeps ==
  ASSUME NativeTyped, NativeInv, NEW c \in ToolCalls, Begin(c) PROVE NativeTyped' /\ NativeInv'
<1>1. PICK new \in Call : /\ new = [at |-> "look", try |-> 1, client |-> None]
                          /\ new.at = "look" /\ new.try = 1 /\ new.client = None
  BY CallFits
<1>2. calls' = [calls EXCEPT ![c] = new]
  BY <1>1 DEF Begin
<1>3. calls' \in [ToolCalls -> Call] /\ calls'[c] = new /\ \A d \in ToolCalls : d # c => calls'[d] = calls[d]
  BY <1>2, OneCall
<1>4. /\ faults' \in [ToolCalls -> 0 .. 2] /\ faults'[c] = IF Doomed THEN 1 ELSE 0
      /\ \A d \in ToolCalls : d # c => faults'[d] = faults[d]
  BY DEF Begin, NativeTyped
<1>5. /\ reply' \in [ToolCalls -> {"none", "result", "unopened", "failed"}] /\ reply'[c] = "none"
      /\ \A d \in ToolCalls : d # c => reply'[d] = reply[d]
  BY DEF Begin, NativeTyped
<1>6. NativeTyped'
  BY <1>3, <1>4, <1>5 DEF Begin, NativeTyped
<1>7. ~Opens(c) /\ calls[c].at = "idle"
  BY DEF Begin, Opens
<1>8. ClientInv' /\ FaultyInv' /\ \A n \in Clients : Current(n)' <=> Current(n)
  BY <1>1, <1>2, <1>6, <1>7, QuietCall DEF Begin, NativeInv
<1>9. \A n \in Clients : Bad(n)' <=> Bad(n)
  BY <1>1, <1>3, <1>7 DEF Bad, Begin
<1>10. Counted(c)'
  <2>1. \A n \in Clients : Current(n) /\ Bad(n) => Doomed
    BY DEF Doomed, Current, Bad
  <2>2. \A n \in Clients : Current(n)' /\ Bad(n)' => faults'[c] >= 1
    BY <1>4, <1>8, <1>9, <2>1
  <2> QED
    BY <1>1, <1>3, <2>2 DEF Counted, Meets, Uses
<1>11. \A d \in ToolCalls : Uses(d) => calls[d].client \in Clients
  BY DEF NativeInv, ClientInv
<1>12. CountInv'
  <2>1. \A d \in ToolCalls : d # c /\ Uses(d) => (Bad(calls[d].client)' => Bad(calls[d].client))
    BY <1>3, <1>9, <1>11 DEF Bad
  <2> QED
    BY <1>3, <1>4, <1>5, <1>8, <1>9, <1>10, <2>1, QuietCount DEF NativeInv, Excused, Begin
<1> QED
  BY <1>6, <1>8, <1>12 DEF NativeInv

LEMMA PrelaunchKeeps ==
  ASSUME NativeTyped, NativeInv, NEW c \in ToolCalls, Prelaunch(c) PROVE NativeTyped' /\ NativeInv'
<1>1. PICK new \in Call : new = [at |-> "prepare", try |-> 0, client |-> None]
                            /\ new.at = "prepare" /\ new.try = 0 /\ new.client = None
  BY CallFits
<1>2. new.at = "prepare" /\ new.try = 0 /\ new.client = None
  BY <1>1
<1>3. calls' = [calls EXCEPT ![c] = new]
  BY <1>1 DEF Prelaunch
<1>4. calls' \in [ToolCalls -> Call] /\ calls'[c] = new /\ \A d \in ToolCalls : d # c => calls'[d] = calls[d]
  BY <1>3, OneCall
<1>5. NativeTyped'
  BY <1>4 DEF Prelaunch, NativeTyped
<1>6. ~Opens(c) /\ calls[c].at = "idle"
  BY DEF Prelaunch, Opens
<1>7. ClientInv' /\ FaultyInv' /\ \A n \in Clients : Current(n)' <=> Current(n)
  BY <1>2, <1>3, <1>5, <1>6, QuietCall DEF Prelaunch, NativeInv
<1>8. \A n \in Clients : Bad(n)' <=> Bad(n)
  BY <1>2, <1>4, <1>6 DEF Bad, Prelaunch
<1>9. Counted(c)'
  BY <1>2, <1>4, <1>5 DEF Counted, Meets, Uses, NativeTyped
<1>10. CountInv'
  <2>1. \A d \in ToolCalls : d # c /\ Uses(d) => (Bad(calls[d].client)' => Bad(calls[d].client))
    BY <1>4, <1>8 DEF Bad, NativeInv, ClientInv
  <2> QED
    BY <1>4, <1>7, <1>8, <1>9, <2>1, QuietCount DEF NativeInv, CountInv, AllExcused, Prelaunch
<1> QED
  BY <1>5, <1>7, <1>10 DEF NativeInv

LEMMA LookKeeps ==
  ASSUME NativeTyped, NativeInv, NEW c \in ToolCalls, Look(c) PROVE NativeTyped' /\ NativeInv'
<1>1. ~Opens(c) /\ Counted(c)
  BY DEF Look, Opens, NativeInv, CountInv
<1>2. PICK new \in Call : /\ calls' = [calls EXCEPT ![c] = new]
                          /\ new.at = IF nativeClient # None THEN "calling" ELSE "prepare"
                          /\ new.try = calls[c].try /\ new.client = nativeClient
  <2>1. PICK new \in Call : new = [calls[c] EXCEPT
                                     !.at = IF nativeClient # None THEN "calling" ELSE "prepare",
                                     !.client = nativeClient]
    BY DEF NativeTyped, Call
  <2>2. calls' = [calls EXCEPT ![c] = new]
    BY <2>1 DEF Look, NativeTyped
  <2>3. /\ new.at = IF nativeClient # None THEN "calling" ELSE "prepare"
        /\ new.try = calls[c].try /\ new.client = nativeClient
    BY <2>1 DEF NativeTyped, Call
  <2> QED
    BY <2>2, <2>3
<1>3. Meets(new, faults[c])
  <2>1. \A n \in Clients : Current(n) /\ Bad(n) => faults[c] >= new.try
    BY <1>1, <1>2 DEF Counted, Meets, Look
  <2>2. new.try \in {1, 2} /\ (new.try = 2 => faults[c] >= 1)
    BY <1>1, <1>2 DEF Counted, Meets, Look
  <2>3. CASE nativeClient # None
    <3>1. new.client \in Clients /\ Current(new.client)
      BY <1>2, <2>3 DEF NativeTyped, Current
    <3>2. \A n \in Clients : Current(n) => n = new.client
      BY <3>1, OneCurrent DEF NativeInv
    <3> QED
      BY <1>2, <2>1, <2>2, <2>3, <3>1, <3>2 DEF Meets
  <2>4. CASE nativeClient = None
    BY <1>2, <2>1, <2>2, <2>4 DEF Meets
  <2> QED
    BY <2>3, <2>4
<1> QED
  BY <1>1, <1>2, <1>3, CallKeeps DEF Look

\* A call that is not served ends with the reply its try gives.
LEMMA UnservedEnds ==
  ASSUME NativeTyped, NEW c \in ToolCalls, Unserved(c)
  PROVE  /\ calls' = [calls EXCEPT ![c] = IdleCall]
         /\ calls[c].try = 0 => UNCHANGED reply
         /\ calls[c].try = 1 => reply' = [reply EXCEPT ![c] = "unopened"]
         /\ calls[c].try = 2 => reply' = [reply EXCEPT ![c] = "failed"]
<1>1. CASE calls[c].try = 0
  BY <1>1 DEF Unserved
<1>2. CASE calls[c].try = 1
  BY <1>2 DEF Unserved
<1>3. CASE calls[c].try = 2
  BY <1>3 DEF Unserved
<1>4. CASE calls[c].try \notin {0, 1, 2}
  BY <1>4 DEF Unserved
<1> QED
  BY <1>1, <1>2, <1>3, <1>4

LEMMA RereadKeeps ==
  ASSUME NativeTyped, NativeInv, NEW c \in ToolCalls, Reread(c) PROVE NativeTyped' /\ NativeInv'
<1>1. ~Opens(c) /\ Counted(c)
  BY DEF Reread, Opens, NativeInv, CountInv
<1>2. CASE nativeClient = None
  <2>1. Meets(IdleCall, faults'[c])
    BY IdleCallFits DEF Meets
  <2>2. calls[c].try \in {1, 2} /\ faults[c] \in 0 .. 2 /\ faults[c] >= calls[c].try
    BY <1>1, <1>2 DEF Reread, Counted, Meets, NativeTyped
  <2>3. \E r \in {"result", "unopened", "failed"} :
          reply' = [reply EXCEPT ![c] = r] /\ Excused(r, faults'[c])
    BY <1>2, <2>2, UnservedEnds DEF Reread, Excused
  <2>4. /\ calls' = [calls EXCEPT ![c] = IdleCall]
        /\ UNCHANGED <<nativeClient, nativeInitMu, natives, errors, down, faulty, faults>>
    BY <1>2, UnservedEnds DEF Reread
  <2> QED
    BY <1>1, <2>1, <2>3, <2>4, IdleCallFits, CallKeeps
<1>3. CASE nativeClient # None
  <2>1. PICK new \in Call : /\ calls' = [calls EXCEPT ![c] = new]
                            /\ new.at = "calling"
                            /\ new.try = calls[c].try /\ new.client = nativeClient
    <3>1. PICK new \in Call : new = [calls[c] EXCEPT !.at = "calling", !.client = nativeClient]
      BY DEF NativeTyped, Call
    <3>2. calls' = [calls EXCEPT ![c] = new]
      BY <1>3, <3>1 DEF Reread, NativeTyped
    <3>3. new.at = "calling" /\ new.try = calls[c].try /\ new.client = nativeClient
      BY <3>1 DEF NativeTyped, Call
    <3> QED
      BY <3>2, <3>3
  <2>2. new.client \in Clients /\ Current(new.client)
    BY <1>3, <2>1 DEF NativeTyped, Current
  <2>3. \A n \in Clients : Current(n) => n = new.client
    BY <2>2, OneCurrent DEF NativeInv
  <2>4. /\ \A n \in Clients : Current(n) /\ Bad(n) => faults[c] >= new.try
        /\ new.try \in {1, 2} /\ (new.try = 2 => faults[c] >= 1)
    BY <1>1, <2>1 DEF Counted, Meets, Reread
  <2>5. Meets(new, faults[c])
    BY <2>1, <2>2, <2>3, <2>4 DEF Meets
  <2> QED
    BY <1>1, <1>3, <2>1, <2>5, CallKeeps DEF Reread
<1> QED
  BY <1>2, <1>3

LEMMA AnsweredKeeps ==
  ASSUME NativeTyped, NativeInv, NEW c \in ToolCalls, CallAnswered(c) PROVE NativeTyped' /\ NativeInv'
<1>1. ~Opens(c) /\ Meets(IdleCall, faults[c])
  BY IdleCallFits DEF CallAnswered, Opens, Meets
<1> QED
  BY <1>1, IdleCallFits, CallKeeps DEF CallAnswered, End, Excused

\* prepareNativeMCP when there is a client by now, or none can be opened.
LEMMA PrepareNothingKeeps ==
  ASSUME NativeTyped, NativeInv, NEW c \in ToolCalls, Prepare(c), UNCHANGED natives
  PROVE  NativeTyped' /\ NativeInv'
<1>1. ~Opens(c) /\ Counted(c) /\ Meets(IdleCall, faults'[c])
  BY IdleCallFits DEF Prepare, Opens, NativeInv, CountInv, Meets
<1>2. CASE nativeClient # None /\ calls[c].try # 0
  <2>1. PICK new \in Call : /\ calls' = [calls EXCEPT ![c] = new] /\ new.at = "reread"
                            /\ new.try = calls[c].try /\ new.client = calls[c].client
    BY <1>2, CallMoves DEF Prepare
  <2>2. calls[c].try \in {1, 2}
    BY <1>2 DEF NativeTyped, Call
  <2>3. Meets(new, faults[c])
    BY <1>1, <1>2, <2>1, <2>2 DEF Counted, Meets, Prepare
  <2> QED
    BY <1>1, <1>2, <2>1, <2>3, CallKeeps DEF Prepare
<1>3. CASE nativeClient # None /\ calls[c].try = 0
  BY <1>1, <1>3, IdleCallFits, CallKeeps DEF Prepare
<1>4. CASE /\ nativeClient = None /\ Unserved(c) /\ UNCHANGED nativeInitMu
           /\ faults' = [faults EXCEPT ![c] = Worse(@)]
  <2>1. calls[c].try \in 0 .. 2 /\ faults[c] \in 0 .. 2 /\ (calls[c].try = 2 => faults[c] >= 1)
    BY <1>1 DEF NativeTyped, Call, Counted, Meets
  <2>2. faults'[c] >= 1 /\ (calls[c].try = 2 => faults'[c] = 2)
    BY <1>4, <2>1 DEF Worse, NativeTyped
  <2>3. \/ UNCHANGED reply
        \/ \E r \in {"result", "unopened", "failed"} :
             reply' = [reply EXCEPT ![c] = r] /\ Excused(r, faults'[c])
    BY <1>4, <2>1, <2>2, UnservedEnds DEF Excused
  <2>4. calls' = [calls EXCEPT ![c] = IdleCall]
    BY <1>4, UnservedEnds
  <2>5. UNCHANGED <<nativeClient, nativeInitMu, natives, errors, down, faulty>>
    BY <1>4 DEF Prepare
  <2> QED
    BY <1>1, <1>4, <2>3, <2>4, <2>5, IdleCallFits, CallKeeps
<1>5. ASSUME NEW n \in Clients, natives[n] = "none", natives' = [natives EXCEPT ![n] = "up"] PROVE FALSE
  BY <1>5 DEF NativeTyped
<1>6. CASE nativeClient = None
  <2>1. \/ /\ Unserved(c) /\ UNCHANGED nativeInitMu
           /\ faults' = [faults EXCEPT ![c] = Worse(@)]
        \/ \E n \in Clients : natives[n] = "none" /\ natives' = [natives EXCEPT ![n] = "up"]
    BY <1>6 DEF Prepare
  <2> QED
    BY <1>4, <1>5, <1>6, <2>1
<1> QED
  BY <1>2, <1>3, <1>6

\* A call on a client that is gone.
LEMMA CallOnDeadKeeps ==
  ASSUME NativeTyped, NativeInv, NEW c \in ToolCalls, CallFails(c), natives[calls[c].client] # "up"
  PROVE  NativeTyped' /\ NativeInv'
<1>1. ~Opens(c) /\ Uses(c) /\ Counted(c) /\ calls[c].client \in Clients /\ Bad(calls[c].client)
  BY DEF CallFails, Opens, Uses, NativeInv, CountInv, ClientInv, Bad
<1>2. PICK new \in Call : /\ calls' = [calls EXCEPT ![c] = new] /\ new.at = "discard"
                          /\ new.try = calls[c].try /\ new.client = calls[c].client
  BY CallMoves DEF CallFails
<1>3. Meets(new, faults[c])
  BY <1>1, <1>2 DEF Counted, Meets, CallFails
<1> QED
  BY <1>1, <1>2, <1>3, CallKeeps DEF CallFails

\* discardNativeClient when another client is current by now.
LEMMA DiscardOtherKeeps ==
  ASSUME NativeTyped, NativeInv, NEW c \in ToolCalls, Discard(c), nativeClient # calls[c].client
  PROVE  NativeTyped' /\ NativeInv'
<1>1. ~Opens(c) /\ Uses(c) /\ Counted(c) /\ calls[c].client \in Clients
  BY DEF Discard, Opens, Uses, NativeInv, CountInv, ClientInv
<1>2. \A n \in Clients : Current(n) => n # calls[c].client
  BY DEF Current, Discard
<1>3. faults[c] \in 0 .. 2 /\ calls[c].try \in {1, 2} /\ faults[c] >= calls[c].try
  BY <1>1 DEF Counted, Meets, Discard, NativeTyped
<1>4. CASE calls[c].try = 2
  <2>1. faults[c] = 2 /\ Meets(IdleCall, faults[c])
    BY <1>3, <1>4, IdleCallFits DEF Meets
  <2> QED
    BY <1>1, <1>4, <2>1, IdleCallFits, CallKeeps DEF Discard, Again, End, Excused
<1>5. CASE calls[c].try # 2
  <2>1. PICK new \in Call : /\ new = [at |-> "look", try |-> 2, client |-> None]
                            /\ new.at = "look" /\ new.try = 2 /\ new.client = None
    BY CallFits
  <2>2. Meets(new, faults[c])
    BY <1>1, <1>2, <1>3, <2>1 DEF Counted, Meets, Discard
  <2> QED
    BY <1>1, <1>5, <2>1, <2>2, CallKeeps DEF Discard, Again
<1> QED
  BY <1>4, <1>5

----------------------------------------------------------------------------
(* The native client: faults *)

LEMMA FeltFits ==
  ASSUME NativeTyped, CountInv, faults' = Felt
  PROVE  /\ faults' \in [ToolCalls -> 0 .. 2]
         /\ \A d \in ToolCalls : faults'[d] = IF calls[d].at = "idle" \/ faults[d] = 2
                                              THEN faults[d] ELSE faults[d] + 1
         /\ UNCHANGED reply => AllExcused'
<1>1. \A d \in ToolCalls : faults'[d] = IF calls[d].at = "idle" \/ faults[d] = 2
                                        THEN faults[d] ELSE faults[d] + 1
  BY DEF Felt, Worse
<1>2. \A d \in ToolCalls : faults'[d] \in 0 .. 2
  BY <1>1 DEF NativeTyped
<1>3. faults' \in [ToolCalls -> 0 .. 2]
  BY <1>2 DEF Felt
<1>4. UNCHANGED reply => AllExcused'
  BY <1>1 DEF NativeTyped, CountInv, AllExcused, Excused
<1> QED
  BY <1>1, <1>3, <1>4

\* A call of a client that is up fails.
LEMMA CallFaultKeeps ==
  ASSUME NativeTyped, NativeInv, NEW c \in ToolCalls, CallFails(c), natives[calls[c].client] = "up"
  PROVE  NativeTyped' /\ NativeInv'
<1>1. ~Opens(c) /\ Uses(c) /\ Counted(c) /\ calls[c].client \in Clients
  BY DEF CallFails, Opens, Uses, NativeInv, CountInv, ClientInv
<1>2. PICK new \in Call : /\ calls' = [calls EXCEPT ![c] = new] /\ new.at = "discard"
                          /\ new.try = calls[c].try /\ new.client = calls[c].client
  BY CallMoves DEF CallFails
<1>3. calls' \in [ToolCalls -> Call] /\ calls'[c] = new /\ \A d \in ToolCalls : d # c => calls'[d] = calls[d]
  BY <1>2, OneCall
<1>4. /\ faults' = Felt /\ errors' = errors + 1 /\ errors < MaxErrors
      /\ faulty' = faulty \cup {calls[c].client}
      /\ UNCHANGED <<nativeClient, nativeInitMu, natives, down, reply>>
  BY DEF CallFails
<1>5. /\ faults' \in [ToolCalls -> 0 .. 2] /\ AllExcused'
      /\ faults'[c] = IF calls[c].at = "idle" \/ faults[c] = 2 THEN faults[c] ELSE faults[c] + 1
  BY <1>4, FeltFits DEF NativeInv
<1>6. NativeTyped'
  BY <1>1, <1>3, <1>4, <1>5, LightpandaAssumption DEF NativeTyped
<1>7. ClientInv' /\ FaultyInv' /\ \A n \in Clients : Current(n)' <=> Current(n)
  BY <1>1, <1>2, <1>4, <1>6, QuietCall DEF NativeInv
<1>8. \A d \in ToolCalls : d # c => Counted(d)'
  BY <1>3, <1>4, <1>7, FeltCounts DEF NativeInv, CountInv
<1>9. Counted(c)'
  <2>1. \A n \in Clients : Current(n)' => n = calls[c].client
    BY <1>1, <1>7, OthersBad DEF NativeInv
  <2>2. calls[c].try \in {1, 2} /\ (calls[c].try = 2 => faults[c] >= 1) /\ calls[c].at = "calling"
    BY <1>1 DEF Counted, Meets, CallFails
  <2>3. faults'[c] >= calls[c].try
    BY <1>5, <2>2 DEF NativeTyped
  <2>4. calls'[c].at = "discard" /\ calls'[c].try = calls[c].try /\ calls'[c].client = calls[c].client
    BY <1>2, <1>3
  <2>5. \A n \in Clients : Current(n)' /\ Bad(n)' /\ n # calls'[c].client => faults'[c] = 2
    BY <2>1, <2>4
  <2>6. calls'[c].try \in {1, 2} /\ faults'[c] >= calls'[c].try /\ (calls'[c].try = 2 => faults'[c] >= 1)
    BY <1>5, <2>2, <2>3, <2>4
  <2> QED
    BY <2>4, <2>5, <2>6 DEF Counted, Meets
<1> QED
  BY <1>5, <1>6, <1>7, <1>8, <1>9 DEF NativeInv, CountInv

LEMMA LoseKeeps ==
  ASSUME NativeTyped, NativeInv, NEW n \in Clients, Lose(n) PROVE NativeTyped' /\ NativeInv'
<1>1. /\ natives[n] = "up" /\ faulty' = faulty \cup {n} /\ faults' = Felt
      /\ UNCHANGED <<nativeClient, nativeInitMu, calls, errors, down, reply>>
  BY DEF Lose
<1>2. /\ natives' \in [Clients -> {"none", "up", "lost", "missed", "closed"}]
      /\ natives'[n] \in {"lost", "missed"} /\ \A m \in Clients : m # n => natives'[m] = natives[m]
  BY DEF Lose, NativeTyped
<1>3. faults' \in [ToolCalls -> 0 .. 2] /\ AllExcused'
  BY <1>1, FeltFits DEF NativeInv
<1>4. NativeTyped'
  BY <1>1, <1>2, <1>3 DEF NativeTyped
<1>5. ClientInv'
  <2>1. NativeClientOwned'
    BY <1>1, <1>2 DEF NativeInv, ClientInv, NativeClientOwned
  <2>2. nativeClient' # None => natives'[nativeClient'] \in {"up", "lost", "missed"}
    BY <1>1, <1>2 DEF NativeInv, ClientInv, NativeTyped
  <2>3. \A c \in ToolCalls : Opens(c) => natives'[calls[c].client] \in {"up", "lost", "missed"}
    BY <1>2 DEF NativeInv, ClientInv
  <2>4. \A c \in ToolCalls : Uses(c) => natives'[calls[c].client] # "none"
    BY <1>2 DEF NativeInv, ClientInv
  <2> QED
    BY <1>1, <2>1, <2>2, <2>3, <2>4 DEF NativeInv, ClientInv, Opens, Uses
<1>6. FaultyInv'
  BY <1>1, <1>2 DEF NativeInv, FaultyInv
<1>7. \A d \in ToolCalls : Counted(d)'
  BY <1>1, FeltCounts DEF NativeInv, CountInv, Current
<1> QED
  BY <1>3, <1>4, <1>5, <1>6, <1>7 DEF NativeInv, CountInv

LEMMA ConnectionLostKeeps ==
  ASSUME NativeTyped, NativeInv, NEW n \in Clients, ConnectionLost(n) PROVE NativeTyped' /\ NativeInv'
<1>1. /\ natives[n] = "lost" /\ nativeClient' = (IF nativeClient = n THEN None ELSE nativeClient)
      /\ UNCHANGED <<nativeInitMu, calls, errors, down, faulty, reply, faults>>
  BY DEF ConnectionLost
<1>2. /\ natives' \in [Clients -> {"none", "up", "lost", "missed", "closed"}]
      /\ natives'[n] = "missed" /\ \A m \in Clients : m # n => natives'[m] = natives[m]
  BY DEF ConnectionLost, NativeTyped
<1>3. NativeTyped'
  BY <1>1, <1>2 DEF NativeTyped
<1>4. ClientInv'
  <2>1. NativeClientOwned'
    BY <1>1, <1>2 DEF NativeInv, ClientInv, NativeClientOwned
  <2>2. nativeClient' # None => natives'[nativeClient'] \in {"up", "lost", "missed"}
    BY <1>1, <1>2 DEF NativeInv, ClientInv, NativeTyped
  <2>3. \A c \in ToolCalls : Opens(c) => natives'[calls[c].client] \in {"up", "lost", "missed"}
    BY <1>2 DEF NativeInv, ClientInv
  <2>4. \A c \in ToolCalls : Uses(c) => natives'[calls[c].client] # "none"
    BY <1>2 DEF NativeInv, ClientInv
  <2> QED
    BY <1>1, <2>1, <2>2, <2>3, <2>4 DEF NativeInv, ClientInv, Opens, Uses
<1>5. FaultyInv'
  BY <1>1, <1>2 DEF NativeInv, FaultyInv
<1>6. \A m \in Clients : Current(m)' => Current(m)
  BY <1>1, NoneApart DEF Current
<1>7. \A m \in Clients : Bad(m)' => Bad(m)
  BY <1>1, <1>2 DEF Bad
<1>8. ASSUME NEW d \in ToolCalls PROVE Counted(d)'
  <2>1. Uses(d) => (Bad(calls[d].client)' => Bad(calls[d].client))
    BY <1>1, <1>7 DEF NativeInv, ClientInv
  <2>2. nativeClient' = None => nativeClient = None \/ (Current(n) /\ Bad(n))
    BY <1>1 DEF Current, Bad
  <2> QED
    BY <1>1, <1>6, <1>7, <2>1, <2>2, CountOthers DEF NativeInv, CountInv
<1>9. AllExcused'
  BY <1>1 DEF NativeInv, CountInv, AllExcused
<1> QED
  BY <1>3, <1>4, <1>5, <1>8, <1>9 DEF NativeInv, CountInv

LEMMA CloseNativeKeeps ==
  ASSUME NativeTyped, NativeInv, CloseNative PROVE NativeTyped' /\ NativeInv'
<1>1. /\ nativeInitMu = Nobody /\ down' = TRUE /\ nativeClient' = None /\ faults' = Felt
      /\ UNCHANGED <<nativeInitMu, calls, errors, faulty, reply>>
  BY DEF CloseNative
<1>2. /\ natives' \in [Clients -> {"none", "up", "lost", "missed", "closed"}]
      /\ \A m \in Clients : natives'[m] = IF m = nativeClient THEN "closed" ELSE natives[m]
  BY DEF CloseNative, NativeTyped
<1>3. faults' \in [ToolCalls -> 0 .. 2] /\ AllExcused'
  BY <1>1, FeltFits DEF NativeInv
<1>4. NativeTyped'
  BY <1>1, <1>2, <1>3 DEF NativeTyped
<1>5. \A c \in ToolCalls : ~Opens(c)
  BY <1>1, LightpandaAssumption DEF NativeInv, ClientInv
<1>6. ClientInv'
  <2>1. NativeClientOwned'
    BY <1>1, <1>2 DEF NativeInv, ClientInv, NativeClientOwned
  <2>2. \A c \in ToolCalls : ~Opens(c)' /\ (Uses(c)' <=> Uses(c))
    BY <1>1, <1>5 DEF Opens, Uses
  <2>3. \A c \in ToolCalls : Uses(c) => natives'[calls[c].client] # "none"
    BY <1>2 DEF NativeInv, ClientInv
  <2> QED
    BY <1>1, <2>1, <2>2, <2>3, LightpandaAssumption DEF NativeInv, ClientInv
<1>7. FaultyInv'
  BY <1>1, <1>2 DEF NativeInv, FaultyInv
<1>8. \A n \in Clients : Current(n)' => Current(n)
  BY <1>1, NoneApart DEF Current
<1>9. \A d \in ToolCalls : Counted(d)'
  BY <1>1, <1>8, FeltCounts DEF NativeInv, CountInv
<1> QED
  BY <1>3, <1>4, <1>6, <1>7, <1>9 DEF NativeInv, CountInv

----------------------------------------------------------------------------
(* The native client: opening and discarding, under nativeInitMu *)

LEMMA LockFree ==
  ASSUME NativeTyped, ClientInv, nativeInitMu = Nobody
  PROVE  \A d \in ToolCalls : ~Opens(d)
  BY LightpandaAssumption DEF ClientInv

\* prepareNativeMCP when a browser can be started.
LEMMA PrepareOpensKeeps ==
  ASSUME NativeTyped, NativeInv, NEW c \in ToolCalls, NEW n \in Clients,
         calls[c].at = "prepare", nativeInitMu = Nobody, nativeClient = None, natives[n] = "none",
         nativeInitMu' = c, natives' = [natives EXCEPT ![n] = "up"],
         calls' = [calls EXCEPT ![c].at = "opening", ![c].client = n],
         UNCHANGED <<nativeClient, errors, down, faulty, reply, faults>>
  PROVE  NativeTyped' /\ NativeInv'
<1>1. PICK new \in Call : /\ calls' = [calls EXCEPT ![c] = new] /\ new.at = "opening"
                          /\ new.try = calls[c].try /\ new.client = n
  <2>1. PICK new \in Call : new = [calls[c] EXCEPT !.at = "opening", !.client = n]
    BY DEF NativeTyped, Call
  <2>2. calls' = [calls EXCEPT ![c] = new]
    BY <2>1 DEF NativeTyped
  <2>3. new.at = "opening" /\ new.try = calls[c].try /\ new.client = n
    BY <2>1 DEF NativeTyped, Call
  <2> QED
    BY <2>2, <2>3
<1>2. calls' \in [ToolCalls -> Call] /\ calls'[c] = new /\ \A d \in ToolCalls : d # c => calls'[d] = calls[d]
  BY <1>1, OneCall
<1>3. /\ natives' \in [Clients -> {"none", "up", "lost", "missed", "closed"}]
      /\ natives'[n] = "up" /\ \A m \in Clients : m # n => natives'[m] = natives[m]
  BY DEF NativeTyped
<1>4. NativeTyped'
  BY <1>2, <1>3 DEF NativeTyped
<1>5. \A d \in ToolCalls : (Opens(d)' <=> d = c) /\ (Uses(d)' <=> Uses(d)) /\ (Uses(d) => d # c)
  BY <1>1, <1>2, LockFree DEF NativeInv, Opens, Uses
<1>6. \A d \in ToolCalls : Uses(d) => /\ calls[d].client \in Clients /\ calls[d].client # n
                                      /\ calls'[d] = calls[d]
  BY <1>2, <1>5 DEF NativeInv, ClientInv
<1>7. \A m \in Clients : natives[m] # "up"
  BY NoneApart DEF NativeInv, ClientInv, NativeClientOwned
<1>8. c # Nobody
  BY LightpandaAssumption
<1>9. ClientInv'
  <2>1. NativeClientOwned'
    BY <1>1, <1>2, <1>3, <1>7, <1>8 DEF NativeClientOwned
  <2>2. \A d \in ToolCalls : Opens(d)' => /\ calls'[d].client = n /\ natives'[calls'[d].client] = "up"
    BY <1>1, <1>2, <1>3, <1>5
  <2>3. \A d \in ToolCalls : Uses(d)' => /\ calls'[d].client \in Clients /\ calls'[d].client # n
                                         /\ natives'[calls'[d].client] # "none"
    BY <1>3, <1>5, <1>6 DEF NativeInv, ClientInv
  <2> QED
    BY <1>5, <2>1, <2>2, <2>3 DEF ClientInv
<1>10. FaultyInv'
  <2>1. \A d \in ToolCalls : calls'[d].at = "discard" => calls'[d] = calls[d]
    BY <1>1, <1>2
  <2>2. \A m \in Clients : natives'[m] \in {"lost", "missed"} => natives[m] \in {"lost", "missed"}
    BY <1>3
  <2>3. \A m \in Clients : natives'[m] = "closed" => natives[m] = "closed"
    BY <1>3
  <2>4. FaultyInv /\ faulty' = faulty /\ (down => down')
    BY DEF NativeInv
  <2>5. \A m \in Clients : natives'[m] \in {"lost", "missed"} => m \in faulty'
    BY <2>2, <2>4 DEF FaultyInv
  <2>6. \A m \in Clients : natives'[m] = "closed" => m \in faulty' \/ down'
    BY <2>3, <2>4, Zenon DEF FaultyInv
  <2>7. \A d \in ToolCalls : calls'[d].at = "discard" => calls'[d].client \in faulty' \/ down'
    <3>1. \A d \in ToolCalls : calls[d].at = "discard" => calls[d].client \in faulty' \/ down'
      BY <2>4, Zenon DEF FaultyInv
    <3> QED
      BY <2>1, <3>1
  <2> QED
    BY <2>5, <2>6, <2>7 DEF FaultyInv
<1>11. \A m \in Clients : ~(Current(m)' /\ Bad(m)')
  <2>1. \A m \in Clients : Current(m)' => m = n
    BY <1>1, <1>2, NoneApart DEF Current
  <2>2. ~Bad(n)'
    <3>1. \A d \in ToolCalls : calls'[d].at = "discard" => Uses(d) /\ calls'[d].client # n
      BY <1>5, <1>6 DEF Uses
    <3> QED
      BY <1>3, <3>1 DEF Bad
  <2> QED
    BY <2>1, <2>2
<1>12. \A d \in ToolCalls : d # c /\ Uses(d) => (Bad(calls[d].client)' => Bad(calls[d].client))
  <2>1. SUFFICES ASSUME NEW d \in ToolCalls, d # c, Uses(d), Bad(calls[d].client)'
                 PROVE  Bad(calls[d].client)
    OBVIOUS
  <2>2. calls'[d] = calls[d] /\ natives'[calls[d].client] = natives[calls[d].client]
    BY <1>3, <1>6, <2>1
  <2>3. \A e \in ToolCalls : calls'[e].at = "discard" => calls'[e] = calls[e]
    BY <1>1, <1>2
  <2> QED
    BY <2>1, <2>2, <2>3 DEF Bad
<1>13. Counted(c)'
  <2>1. calls[c].try = 2 => faults[c] >= 1
    BY DEF NativeInv, CountInv, Counted, Meets
  <2> QED
    BY <1>1, <1>2, <1>11, <2>1 DEF Counted, Meets
<1>14. CountInv'
  BY <1>2, <1>11, <1>12, <1>13, QuietCount DEF NativeInv, CountInv, AllExcused
<1> QED
  BY <1>4, <1>9, <1>10, <1>14 DEF NativeInv

LEMMA OpenFailsKeeps ==
  ASSUME NativeTyped, NativeInv, NEW c \in ToolCalls, OpenFails(c) PROVE NativeTyped' /\ NativeInv'
<1> DEFINE k == calls[c].client
<1>1. /\ Opens(c) /\ nativeInitMu = c /\ nativeClient = None /\ k \in Clients
  <2>1. Opens(c)
    BY DEF OpenFails, Opens
  <2> QED
    BY <2>1, LightpandaAssumption DEF NativeInv, ClientInv
<1>2. calls' \in [ToolCalls -> Call] /\ calls'[c] = IdleCall /\ \A d \in ToolCalls : d # c => calls'[d] = calls[d]
  BY IdleCallFits, OneCall, UnservedEnds DEF OpenFails
<1>3. /\ natives' \in [Clients -> {"none", "up", "lost", "missed", "closed"}]
      /\ natives'[k] = "closed" /\ \A m \in Clients : m # k => natives'[m] = natives[m]
  BY <1>1 DEF OpenFails, NativeTyped
<1>a. /\ faults' \in [ToolCalls -> 0 .. 2]
      /\ faults'[c] = IF natives[k] = "up" THEN Worse(faults[c]) ELSE faults[c]
      /\ \A d \in ToolCalls : d # c => faults'[d] = faults[d]
  <2>1. UNCHANGED faults \/ faults' = [faults EXCEPT ![c] = Worse(@)]
    BY DEF OpenFails
  <2> QED
    BY <2>1, WorseFits DEF OpenFails, NativeTyped
<1>b. calls[c].try \in 0 .. 2 /\ (calls[c].try # 0 => faults'[c] >= calls[c].try) /\ faults'[c] \in 0 .. 2
  <2>1. Counted(c) /\ faults[c] \in 0 .. 2 /\ calls[c].try \in 0 .. 2 /\ calls[c].at = "opening"
    BY DEF NativeInv, CountInv, NativeTyped, Call, OpenFails
  <2>2. natives[k] # "up" => faults[c] >= calls[c].try
    BY <1>1, <2>1, LightpandaAssumption DEF Counted, Meets, Current, Bad
  <2>3. calls[c].try = 2 => faults[c] >= 1
    BY <2>1 DEF Counted, Meets
  <2> QED
    BY <1>a, <2>1, <2>2, <2>3 DEF Worse
<1>4. /\ reply' \in [ToolCalls -> {"none", "result", "unopened", "failed"}]
      /\ Excused(reply'[c], faults'[c]) /\ \A d \in ToolCalls : d # c => reply'[d] = reply[d]
  <2>1. Unserved(c)
    BY DEF OpenFails
  <2>2. CASE calls[c].try = 0
    <3>1. UNCHANGED reply /\ Excused(reply[c], faults[c])
      BY <2>1, <2>2, UnservedEnds DEF NativeInv, CountInv, AllExcused
    <3>2. Excused(reply[c], faults'[c])
      BY <1>a, <3>1 DEF Excused, Worse, NativeTyped
    <3> QED
      BY <3>1, <3>2 DEF NativeTyped
  <2>3. CASE calls[c].try = 1
    BY <1>b, <2>1, <2>3, UnservedEnds DEF Excused, NativeTyped
  <2>4. CASE calls[c].try = 2
    BY <1>b, <2>1, <2>4, UnservedEnds DEF Excused, NativeTyped
  <2> QED
    BY <1>b, <2>2, <2>3, <2>4
<1>5. /\ nativeInitMu' = Nobody /\ faulty' = faulty \cup {k}
      /\ UNCHANGED <<nativeClient, errors, down>>
  BY DEF OpenFails
<1>6. NativeTyped'
  BY <1>1, <1>2, <1>3, <1>4, <1>5, <1>a DEF NativeTyped
<1>7. \A d \in ToolCalls : ~Opens(d)' /\ (Uses(d)' => d # c /\ Uses(d))
  BY <1>1, <1>2, IdleCallFits DEF NativeInv, ClientInv, Opens, Uses
<1>8. \A d \in ToolCalls : Uses(d) => calls[d].client \in Clients /\ calls[d].client # k
  BY <1>1 DEF NativeInv, ClientInv
<1>9. ClientInv'
  <2>1. NativeClientOwned'
    BY <1>1, <1>3, NoneApart DEF NativeInv, ClientInv, NativeClientOwned
  <2>2. \A d \in ToolCalls : Uses(d)' => calls'[d].client \in Clients /\ natives'[calls'[d].client] # "none"
    BY <1>2, <1>3, <1>7, <1>8 DEF NativeInv, ClientInv
  <2> QED
    BY <1>1, <1>5, <1>7, <2>1, <2>2, LightpandaAssumption DEF ClientInv
<1>10. FaultyInv'
  <2>1. \A d \in ToolCalls : calls'[d].at = "discard" => d # c /\ calls'[d] = calls[d]
    BY <1>2, IdleCallFits
  <2> QED
    BY <1>1, <1>3, <1>5, <2>1 DEF NativeInv, FaultyInv
<1>11. \A m \in Clients : ~Current(m)'
  BY <1>1, <1>5, NoneApart DEF Current
<1>12. \A d \in ToolCalls : d # c /\ Uses(d) => (Bad(calls[d].client)' => Bad(calls[d].client))
  <2>1. SUFFICES ASSUME NEW d \in ToolCalls, d # c, Uses(d), Bad(calls[d].client)'
                 PROVE  Bad(calls[d].client)
    OBVIOUS
  <2>2. calls'[d] = calls[d] /\ natives'[calls[d].client] = natives[calls[d].client]
    BY <1>2, <1>3, <1>8, <2>1
  <2>3. \A e \in ToolCalls : calls'[e].at = "discard" => calls'[e] = calls[e]
    BY <1>2, IdleCallFits
  <2> QED
    BY <2>1, <2>2, <2>3 DEF Bad
<1>13. Counted(c)'
  BY <1>2, IdleCallFits DEF Counted, Meets
<1>14. CountInv'
  BY <1>1, <1>2, <1>4, <1>5, <1>a, <1>11, <1>12, <1>13, QuietCount DEF NativeInv
<1> QED
  BY <1>6, <1>9, <1>10, <1>14 DEF NativeInv

LEMMA OpenedKeeps ==
  ASSUME NativeTyped, NativeInv, NEW c \in ToolCalls, Opened(c) PROVE NativeTyped' /\ NativeInv'
<1>1. PICK new \in Call : /\ calls' = [calls EXCEPT ![c] = new] /\ new.at = "storing"
                          /\ new.try = calls[c].try /\ new.client = calls[c].client
  BY CallMoves DEF Opened
<1>2. calls' \in [ToolCalls -> Call] /\ calls'[c] = new /\ \A d \in ToolCalls : d # c => calls'[d] = calls[d]
  BY <1>1, OneCall
<1>3. /\ calls[c].at = "opening"
      /\ UNCHANGED <<nativeClient, nativeInitMu, natives, errors, down, faulty, reply, faults>>
  BY DEF Opened
<1>4. NativeTyped'
  BY <1>2, <1>3 DEF NativeTyped
<1>5. \A d \in ToolCalls : /\ Opens(d)' <=> Opens(d)
                           /\ Uses(d)' <=> Uses(d)
                           /\ calls'[d].client = calls[d].client
                           /\ calls'[d].at = "discard" <=> calls[d].at = "discard"
  BY <1>1, <1>2, <1>3 DEF Opens, Uses
<1>6. \A n \in Clients : (Current(n)' <=> Current(n)) /\ (Bad(n)' <=> Bad(n))
  BY <1>3, <1>5 DEF Current, Bad, NativeTyped
<1>7. ClientInv'
  <2>1. NativeClientOwned'
    BY <1>3, <1>6 DEF NativeInv, ClientInv, NativeClientOwned, Current
  <2> QED
    BY <1>3, <1>5, <2>1 DEF NativeInv, ClientInv
<1>8. FaultyInv'
  BY <1>3, <1>5 DEF NativeInv, FaultyInv
<1>9. Counted(c)'
  <2>1. Counted(c)
    BY DEF NativeInv, CountInv
  <2> QED
    BY <1>1, <1>2, <1>3, <1>6, <2>1 DEF Counted, Meets
<1>10. CountInv'
  <2>1. \A d \in ToolCalls : d # c /\ Uses(d) => (Bad(calls[d].client)' => Bad(calls[d].client))
    BY <1>2, <1>6 DEF Bad, NativeInv, ClientInv
  <2> QED
    BY <1>2, <1>3, <1>6, <1>9, <2>1, QuietCount DEF NativeInv, CountInv, AllExcused
<1> QED
  BY <1>4, <1>7, <1>8, <1>10 DEF NativeInv

LEMMA StoreKeeps ==
  ASSUME NativeTyped, NativeInv, NEW c \in ToolCalls, Store(c) PROVE NativeTyped' /\ NativeInv'
<1> DEFINE k == calls[c].client
<1>1. /\ Opens(c) /\ nativeInitMu = c /\ nativeClient = None /\ k \in Clients /\ c # Nobody
  <2>1. Opens(c)
    BY DEF Store, Opens
  <2> QED
    BY <2>1, LightpandaAssumption DEF NativeInv, ClientInv
<1>2. PICK new \in Call : /\ calls' = [calls EXCEPT ![c] = new]
                          /\ \/ new.at = "idle" /\ new.try = 0
                             \/ new.at = "reread" /\ new.try = calls[c].try /\ new.try # 0
  <2>1. CASE calls[c].try = 0
    BY <2>1, IdleCallFits DEF Store
  <2>2. CASE calls[c].try # 0
    <3>1. PICK new \in Call : new = [calls[c] EXCEPT !.at = "reread", !.client = None]
      BY DEF NativeTyped, Call
    <3>2. calls' = [calls EXCEPT ![c] = new]
      BY <2>2, <3>1 DEF Store, NativeTyped
    <3>3. new.at = "reread" /\ new.try = calls[c].try
      BY <3>1 DEF NativeTyped, Call
    <3> QED
      BY <2>2, <3>2, <3>3
  <2> QED
    BY <2>1, <2>2
<1>3. calls' \in [ToolCalls -> Call] /\ calls'[c] = new /\ \A d \in ToolCalls : d # c => calls'[d] = calls[d]
  BY <1>2, OneCall
<1>4. /\ calls[c].at = "storing" /\ nativeClient' = k /\ nativeInitMu' = Nobody
      /\ UNCHANGED <<natives, errors, down, faulty, reply, faults>>
  BY DEF Store
<1>5. NativeTyped'
  BY <1>1, <1>3, <1>4 DEF NativeTyped
<1>6. \A d \in ToolCalls : ~Opens(d)' /\ (Uses(d)' <=> Uses(d)) /\ (Uses(d) => d # c)
  BY <1>1, <1>2, <1>3, <1>4 DEF NativeInv, ClientInv, Opens, Uses
<1>7. \A n \in Clients : (Current(n)' <=> n = k) /\ (Current(n) <=> n = k)
  BY <1>1, <1>4, NoneApart DEF Current
<1>8. \A n \in Clients : Bad(n)' => Bad(n)
  BY <1>2, <1>3, <1>4 DEF Bad
<1>9. ClientInv'
  <2>1. NativeClientOwned'
    BY <1>4, <1>7 DEF NativeInv, ClientInv, NativeClientOwned, Current
  <2>2. natives'[nativeClient'] \in {"up", "lost", "missed"}
    BY <1>1, <1>4 DEF NativeInv, ClientInv
  <2>3. \A d \in ToolCalls : Uses(d)' => calls'[d].client \in Clients /\ natives'[calls'[d].client] # "none"
    BY <1>3, <1>4, <1>6 DEF NativeInv, ClientInv
  <2> QED
    BY <1>4, <1>6, <2>1, <2>2, <2>3, LightpandaAssumption DEF ClientInv
<1>10. FaultyInv'
  <2>1. \A d \in ToolCalls : calls'[d].at = "discard" => calls'[d] = calls[d]
    BY <1>2, <1>3
  <2> QED
    BY <1>4, <2>1 DEF NativeInv, FaultyInv
<1>11. Counted(c)'
  <2>1. Counted(c) /\ calls[c].try \in 0 .. 2
    BY DEF NativeInv, CountInv, NativeTyped, Call
  <2>2. CASE new.at = "idle"
    BY <1>2, <1>3, <2>2 DEF Counted, Meets
  <2>3. CASE new.at = "reread"
    <3>1. calls'[c].at = "reread" /\ calls'[c].try = calls[c].try /\ calls'[c].try \in {1, 2}
      BY <1>2, <1>3, <2>1, <2>3
    <3>2. \A n \in Clients : Current(n)' /\ Bad(n)' => faults[c] >= calls[c].try
      BY <1>4, <1>7, <1>8, <2>1 DEF Counted, Meets
    <3> QED
      BY <1>1, <1>4, <2>1, <3>1, <3>2, NoneApart DEF Counted, Meets
  <2> QED
    BY <1>2, <2>2, <2>3
<1>12. CountInv'
  <2>1. \A d \in ToolCalls : d # c /\ Uses(d) => (Bad(calls[d].client)' => Bad(calls[d].client))
    BY <1>3, <1>8 DEF Bad, NativeInv, ClientInv
  <2> QED
    BY <1>1, <1>3, <1>4, <1>7, <1>8, <1>11, <2>1, NoneApart, QuietCount DEF NativeInv, CountInv, AllExcused
<1> QED
  BY <1>5, <1>9, <1>10, <1>12 DEF NativeInv

\* discardNativeClient when the client is still the current one.
LEMMA DiscardCurrentKeeps ==
  ASSUME NativeTyped, NativeInv, NEW c \in ToolCalls, Discard(c), nativeClient = calls[c].client
  PROVE  NativeTyped' /\ NativeInv'
<1> DEFINE k == calls[c].client
<1>1. /\ Uses(c) /\ Counted(c) /\ k \in Clients /\ calls[c].at = "discard"
      /\ (k \in faulty \/ down) /\ Bad(k)
  BY DEF Discard, Uses, NativeInv, CountInv, ClientInv, FaultyInv, Bad
<1>2. faults[c] \in 0 .. 2 /\ calls[c].try \in {1, 2} /\ faults[c] >= calls[c].try
  BY <1>1 DEF Counted, Meets, NativeTyped
<1>3. PICK new \in Call :
        /\ calls' = [calls EXCEPT ![c] = new]
        /\ \/ /\ new.at = "idle" /\ new.try = 0 /\ faults[c] = 2
              /\ reply' = [reply EXCEPT ![c] = "failed"]
           \/ new.at = "look" /\ new.try = 2 /\ faults[c] >= 1 /\ UNCHANGED reply
  <2>1. CASE calls[c].try = 2
    BY <1>2, <2>1, IdleCallFits DEF Discard, Again, End
  <2>2. CASE calls[c].try # 2
    <3>1. PICK new \in Call : /\ new = [at |-> "look", try |-> 2, client |-> None]
                              /\ new.at = "look" /\ new.try = 2 /\ new.client = None
      BY CallFits
    <3> QED
      BY <1>2, <2>2, <3>1 DEF Discard, Again
  <2> QED
    BY <2>1, <2>2
<1>4. calls' \in [ToolCalls -> Call] /\ calls'[c] = new /\ \A d \in ToolCalls : d # c => calls'[d] = calls[d]
  BY <1>3, OneCall
<1>5. /\ natives' \in [Clients -> {"none", "up", "lost", "missed", "closed"}]
      /\ natives'[k] = "closed" /\ \A m \in Clients : m # k => natives'[m] = natives[m]
  BY <1>1 DEF Discard, NativeTyped
<1>6. /\ reply' \in [ToolCalls -> {"none", "result", "unopened", "failed"}]
      /\ Excused(reply'[c], faults[c])
      /\ \A d \in ToolCalls : d # c => reply'[d] = reply[d]
  <2>1. Excused(reply[c], faults[c]) /\ (faults[c] = 2 => Excused("failed", faults[c]))
    BY DEF NativeInv, CountInv, AllExcused, Excused
  <2> QED
    BY <1>3, <2>1 DEF NativeTyped
<1>7. /\ nativeInitMu = Nobody /\ nativeClient' = None
      /\ UNCHANGED <<nativeInitMu, errors, down, faulty, faults>>
  BY DEF Discard
<1>8. NativeTyped'
  BY <1>4, <1>5, <1>6, <1>7 DEF NativeTyped
<1>9. \A d \in ToolCalls : ~Opens(d)' /\ (Uses(d)' => d # c /\ Uses(d))
  BY <1>3, <1>4, <1>7, LockFree DEF NativeInv, Opens, Uses
<1>10. \A d \in ToolCalls : calls'[d].at = "discard" => d # c /\ calls'[d] = calls[d]
  BY <1>3, <1>4
<1>11. ClientInv'
  <2>1. NativeClientOwned'
    BY <1>5, <1>7 DEF NativeInv, ClientInv, NativeClientOwned
  <2>2. \A d \in ToolCalls : Uses(d)' => calls'[d].client \in Clients /\ natives'[calls'[d].client] # "none"
    BY <1>4, <1>5, <1>9 DEF NativeInv, ClientInv
  <2> QED
    BY <1>7, <1>9, <2>1, <2>2, LightpandaAssumption DEF ClientInv
<1>12. FaultyInv'
  <2>1. \A m \in Clients : natives'[m] \in {"lost", "missed"} => m \in faulty'
    BY <1>5, <1>7 DEF NativeInv, FaultyInv
  <2>2. \A m \in Clients : natives'[m] = "closed" => m \in faulty' \/ down'
    BY <1>1, <1>5, <1>7 DEF NativeInv, FaultyInv
  <2>3. \A d \in ToolCalls : calls'[d].at = "discard" => calls'[d].client \in faulty' \/ down'
    BY <1>7, <1>10 DEF NativeInv, FaultyInv
  <2> QED
    BY <2>1, <2>2, <2>3 DEF FaultyInv
<1>13. \A n \in Clients : ~Current(n)'
  BY <1>7, NoneApart DEF Current
<1>14. \A n \in Clients : Bad(n)' => Bad(n)
  <2>1. \A n \in Clients : n # k => (Bad(n)' => Bad(n))
    BY <1>5, <1>10 DEF Bad
  <2> QED
    BY <1>1, <2>1
<1>15. Counted(c)'
  BY <1>3, <1>4, <1>7, <1>13 DEF Counted, Meets
<1>16. CountInv'
  <2>1. \A d \in ToolCalls : d # c /\ Uses(d) => (Bad(calls[d].client)' => Bad(calls[d].client))
    <3>1. SUFFICES ASSUME NEW d \in ToolCalls, d # c, Uses(d), Bad(calls[d].client)'
                   PROVE  Bad(calls[d].client)
      OBVIOUS
    <3>2. calls[d].client \in Clients /\ calls'[d] = calls[d]
      BY <1>4, <3>1 DEF NativeInv, ClientInv
    <3>3. PICK n \in Clients : n = calls[d].client
      BY <3>2
    <3>4. Bad(n)'
      BY <3>1, <3>2, <3>3 DEF Bad
    <3> QED
      BY <1>14, <3>3, <3>4
  <2>2. \E n \in Clients : Current(n) /\ Bad(n)
    BY <1>1 DEF Current
  <2> QED
    BY <1>1, <1>4, <1>6, <1>7, <1>13, <1>15, <2>1, <2>2, QuietCount DEF NativeInv
<1> QED
  BY <1>8, <1>11, <1>12, <1>16 DEF NativeInv

----------------------------------------------------------------------------
(* The specification *)

LEMMA NativeKeeps ==
  ASSUME NativeTyped, NativeInv, NativeStep PROVE NativeTyped' /\ NativeInv'
<1>1. ASSUME NEW c \in ToolCalls, Prepare(c) PROVE NativeTyped' /\ NativeInv'
  <2>1. CASE UNCHANGED natives
    BY <1>1, <2>1, PrepareNothingKeeps
  <2>2. ASSUME NEW n \in Clients, nativeClient = None, natives[n] = "none", nativeInitMu' = c,
               natives' = [natives EXCEPT ![n] = "up"],
               calls' = [calls EXCEPT ![c].at = "opening", ![c].client = n],
               UNCHANGED <<reply, faults>>
        PROVE  NativeTyped' /\ NativeInv'
    <3>1. calls[c].at = "prepare" /\ nativeInitMu = Nobody
          /\ UNCHANGED <<nativeClient, errors, down, faulty>>
      BY <1>1 DEF Prepare
    <3>2. UNCHANGED <<nativeClient, errors, down, faulty, reply, faults>>
      BY <2>2, <3>1
    <3> QED
      BY <2>2, <3>1, <3>2, PrepareOpensKeeps
  <2> QED
    BY <1>1, <2>1, <2>2 DEF Prepare
<1>2. ASSUME NEW c \in ToolCalls, CallFails(c) PROVE NativeTyped' /\ NativeInv'
  BY <1>2, CallOnDeadKeeps, CallFaultKeeps
<1>3. ASSUME NEW c \in ToolCalls, Discard(c) PROVE NativeTyped' /\ NativeInv'
  BY <1>3, DiscardOtherKeeps, DiscardCurrentKeeps
<1>4. ASSUME NEW c \in ToolCalls, CallStep(c) PROVE NativeTyped' /\ NativeInv'
  BY <1>1, <1>2, <1>3, <1>4, LookKeeps, OpenFailsKeeps, OpenedKeeps, StoreKeeps, RereadKeeps,
     AnsweredKeeps DEF CallStep
<1> QED
  BY <1>4, BeginKeeps, PrelaunchKeeps, LoseKeeps, ConnectionLostKeeps, CloseNativeKeeps DEF NativeStep

LEMMA ServerApart == ServerStep => UNCHANGED nativeVars
  BY DEF ServerStep, ServeStart, Dial, ServeCommit, FinishStart, ServeStop, ServeStopEnd, ServeExit,
         ServeReap, ProbeBegin, ProbeEnd

LEMMA NativeApart == NativeStep => UNCHANGED serverVars
  BY DEF NativeStep, CallStep, Begin, Prelaunch, Look, Prepare, OpenFails, Opened, Store, Reread,
         CallAnswered, CallFails, Discard, Lose, ConnectionLost, CloseNative

LEMMA ServerStays == ServerTyped /\ ServerInv /\ UNCHANGED serverVars => ServerTyped' /\ ServerInv'
  BY DEF serverVars, ServerTyped, ServerInv, MayLookDead

LEMMA NativeStays == NativeTyped /\ NativeInv /\ UNCHANGED nativeVars => NativeTyped' /\ NativeInv'
<1> SUFFICES ASSUME NativeTyped, NativeInv, UNCHANGED nativeVars PROVE NativeTyped' /\ NativeInv'
  OBVIOUS
<1>1. UNCHANGED <<nativeClient, nativeInitMu, natives, calls, errors, down, faulty, reply, faults>>
  BY DEF nativeVars
<1>2. NativeTyped' /\ ClientInv' /\ FaultyInv' /\ AllExcused'
  BY <1>1 DEF NativeTyped, NativeInv, ClientInv, FaultyInv, CountInv, AllExcused, NativeClientOwned,
              Opens, Uses
<1>3. \A c \in ToolCalls : Counted(c)'
  BY <1>1 DEF NativeInv, CountInv, Counted, Meets, Current, Bad
<1> QED
  BY <1>2, <1>3 DEF NativeInv, CountInv

LEMMA InitHolds == LightpandaInit => LInv
<1> SUFFICES ASSUME LightpandaInit PROVE LInv
  OBVIOUS
<1>1. IdleRequest \in Request /\ IdleRequest.at = "idle"
  BY DEF Request, IdleRequest
<1>2. \A d \in Dashboards : requests[d] = IdleRequest
  BY DEF LightpandaInit
<1>3. \A c \in ToolCalls : calls[c] = IdleCall /\ calls[c].at = "idle" /\ calls[c].try = 0
  BY IdleCallFits DEF LightpandaInit
<1>4. ServerTyped /\ ServerInv
  BY <1>1, <1>2 DEF LightpandaInit, ServerTyped, ServerInv, Starting, MayLookDead
<1>5. NativeTyped
  <2>1. 0 \in 0 .. MaxErrors
    BY LightpandaAssumption
  <2>2. /\ calls \in [ToolCalls -> Call]
        /\ faults \in [ToolCalls -> 0 .. 2]
        /\ reply \in [ToolCalls -> {"none", "result", "unopened", "failed"}]
    BY IdleCallFits DEF LightpandaInit
  <2> QED
    BY <2>1, <2>2 DEF LightpandaInit, NativeTyped
<1>6. ClientInv /\ FaultyInv
  BY <1>3, LightpandaAssumption
     DEF LightpandaInit, ClientInv, FaultyInv, NativeClientOwned, Opens, Uses
<1>7. CountInv
  BY <1>3 DEF LightpandaInit, CountInv, AllExcused, Excused, Counted, Meets
<1> QED
  BY <1>4, <1>5, <1>6, <1>7, TypesByHalf DEF LInv, NativeInv

LEMMA NextKeeps == LInv /\ [ServerStep \/ NativeStep]_browserVars => LInv'
<1> SUFFICES ASSUME LInv, [ServerStep \/ NativeStep]_browserVars PROVE LInv'
  OBVIOUS
<1>1. ServerTyped /\ ServerInv /\ NativeTyped /\ NativeInv
  BY TypesByHalf DEF LInv
<1>2. ServerTyped' /\ ServerInv' /\ NativeTyped' /\ NativeInv'
  <2>1. CASE ServerStep
    BY <1>1, <2>1, ServerKeeps, ServerApart, NativeStays
  <2>2. CASE NativeStep
    BY <1>1, <2>2, NativeKeeps, NativeApart, ServerStays
  <2>3. CASE UNCHANGED browserVars
    BY <1>1, <2>3, ServerStays, NativeStays DEF browserVars
  <2> QED
    BY <2>1, <2>2, <2>3
<1>3. LightpandaTypeOK'
  BY <1>2 DEF LightpandaTypeOK, ServerTyped, NativeTyped, Request, Call
<1> QED
  BY <1>2, <1>3 DEF LInv

\* Whatever requests, calls, losses and failures come in any order, the manager's
\* fields agree with the processes there are, and the faults are counted.
THEOREM LightpandaInvariant == LightpandaSpec => []LInv
  BY InitHolds, NextKeeps, PTL DEF LightpandaSpec

\* start, stop and wait never leave two browser servers running, or one that
\* stop does not reach.
THEOREM ServerAlone == LightpandaSpec => []OneServer
<1>1. LInv => OneServer
  BY ServerIsOne, TypesByHalf DEF LInv
<1> QED
  BY <1>1, LightpandaInvariant, PTL

\* No path of prepareNativeMCP, discardNativeClient or OnConnectionLost drops a
\* client whose browser is up.
THEOREM BrowsersOwned == LightpandaSpec => []NativeClientOwned
<1>1. LInv => NativeClientOwned
  BY DEF LInv, NativeInv, ClientInv
<1> QED
  BY <1>1, LightpandaInvariant, PTL

\* discardNativeClient closes only a client that was lost or on which a call failed.
THEOREM OnlyFaultyClosed == LightpandaSpec => []HealthyClientKept
<1>1. LInv => HealthyClientKept
  BY DEF LInv, NativeInv, FaultyInv, HealthyClientKept
<1> QED
  BY <1>1, LightpandaInvariant, PTL

\* callNativeRequest fails a call that was sent only after two faults, by its retry
\* or by the reconnect before it, and one that was not sent only after one.
THEOREM RetrySuffices == LightpandaSpec => []FailsOnlyAfterFaults
<1>1. LInv => FailsOnlyAfterFaults
  BY DEF LInv, NativeInv, CountInv, AllExcused, Excused, FailsOnlyAfterFaults
<1> QED
  BY <1>1, LightpandaInvariant, PTL
=============================================================================
