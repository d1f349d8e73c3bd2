----------------------------- MODULE Lightpanda ------------------------------
(***************************************************************************)
(* lightpandaManager of lightpanda.go and lightpanda_mcp.go: the browser   *)
(* process that serves CDP, which dashboard requests and the autostart     *)
(* start and stop, and the second browser process whose MCP tools are      *)
(* called through Tautline, opened on demand and replaced when it fails.   *)
(*                                                                         *)
(* The server: m.mu is held for one step only, m.starting spans a start.   *)
(* The native client: nativeInitMu is held while a client is opened or     *)
(* discarded; nativeMu guards the fields and is held for one step.  What   *)
(* runs the browser (binary, docker, WSL), its arguments, errors and the   *)
(* tools' names and schemas are left out; so is fetch, which keeps nothing.*)
(***************************************************************************)
EXTENDS Integers, FiniteSets

CONSTANTS
  Dashboards,    \* concurrent starts and stops of the server
  ToolCalls,     \* concurrent calls of native tools, and the startup's prepare
  Nobody,
  MaxServers,    \* bounds of the model: processes started, ...
  MaxClients,    \* ... native clients opened, ...
  MaxErrors      \* ... and calls that fail although their client is up

ASSUME LightpandaAssumption ==
  /\ Nobody \notin ToolCalls
  /\ {MaxServers, MaxClients, MaxErrors} \subseteq Nat

VARIABLES
  command, starting,     \* m.command, m.starting
  detecting, detected,   \* m.detecting, whether m.detectedRunner is set
  servers,               \* the processes start started
  requests,              \* where each dashboard request stands
  nativeClient,          \* m.nativeClient
  nativeInitMu,          \* who holds it
  natives,               \* the native clients and their processes
  calls,                 \* where each call stands
  errors,                \* calls that failed of themselves so far
  down,                  \* closeNativeMCP has run: shutdown is under way
  faulty,                \* history: clients lost, or a call on which failed
  reply,                 \* history: how each caller's last call ended ...
  faults                 \* history: ... and the faults since it began, up to two

serverVars == <<command, starting, detecting, detected, servers, requests>>
nativeVars == <<nativeClient, nativeInitMu, natives, calls, errors, down, faulty, reply, faults>>
browserVars == <<serverVars, nativeVars>>

None    == 0
Servers == 1 .. MaxServers
Clients == 1 .. MaxClients

IdleRequest == [at |-> "idle", server |-> None]
IdleCall    == [at |-> "idle", try |-> 0, client |-> None]

LightpandaTypeOK ==
  /\ command \in Servers \cup {None}
  /\ {starting, detecting, detected, down} \subseteq BOOLEAN
  /\ servers \in [Servers -> {"none", "running", "exited", "done"}]
  /\ requests \in [Dashboards -> [at : {"idle", "dial", "commit", "poll", "stopping"},
                                  server : Servers \cup {None}]]
  /\ nativeClient \in Clients \cup {None}
  /\ nativeInitMu \in ToolCalls \cup {Nobody}
  /\ natives \in [Clients -> {"none", "up", "lost", "missed", "closed"}]
  /\ calls \in [ToolCalls -> [at : {"idle", "look", "prepare", "opening", "storing", "reread",
                                    "calling", "discard"},
                              try : 0 .. 2, client : Clients \cup {None}]]
  /\ errors \in 0 .. MaxErrors
  /\ faulty \subseteq Clients
  /\ reply \in [ToolCalls -> {"none", "result", "unopened", "failed"}]
  /\ faults \in [ToolCalls -> 0 .. 2]

----------------------------------------------------------------------------
(* The server process *)

MoveRequest(d, at) == requests' = [requests EXCEPT ![d].at = at]
EndRequest(d)      == requests' = [requests EXCEPT ![d] = IdleRequest]

\* ProcessState is set by Wait outside m.mu: see Tunnel.
MayLookDead == command # None => servers[command] = "exited"

\* Mutant of ServeStart: a start in progress is no reason to return.
ServeStartTwice(d) ==
  /\ requests[d].at = "idle"
  /\ MayLookDead
  /\ starting' = TRUE
  /\ MoveRequest(d, "dial")
  /\ UNCHANGED <<command, detecting, detected, servers, nativeVars>>

ServeStart(d) ==
  /\ requests[d].at = "idle"
  /\ MayLookDead /\ ~starting
  /\ starting' = TRUE
  /\ MoveRequest(d, "dial")
  /\ UNCHANGED <<command, detecting, detected, servers, nativeVars>>

\* Something may answer at the port already; the runner may be missing, or the
\* process may not start.
Dial(d) ==
  /\ requests[d].at = "dial"
  /\ \/ /\ starting' = FALSE /\ EndRequest(d)
        /\ detected' \in {detected, TRUE}
        /\ UNCHANGED servers
     \/ \E p \in Servers :
          /\ servers[p] = "none" /\ \A q \in 1 .. (p - 1) : servers[q] # "none"
          /\ servers' = [servers EXCEPT ![p] = "running"]
          /\ requests' = [requests EXCEPT ![d] = [at |-> "commit", server |-> p]]
          /\ detected' = TRUE
          /\ UNCHANGED starting
  /\ UNCHANGED <<command, detecting, nativeVars>>

ServeCommit(d) ==
  /\ requests[d].at = "commit"
  /\ command' = requests[d].server
  /\ requests' = [requests EXCEPT ![d] = [at |-> "poll", server |-> None]]
  /\ UNCHANGED <<starting, detecting, detected, servers, nativeVars>>

\* The port answers, the process is over, or the deadline has passed; in the
\* last case the process goes on.
FinishStart(d) ==
  /\ requests[d].at = "poll"
  /\ starting' = FALSE
  /\ EndRequest(d)
  /\ UNCHANGED <<command, detecting, detected, servers, nativeVars>>

ServeExit(p) ==
  /\ servers[p] = "running"
  /\ servers' = [servers EXCEPT ![p] = "exited"]
  /\ UNCHANGED <<command, starting, detecting, detected, requests, nativeVars>>

\* The goroutine of wait, which start starts after the commit.
ServeReap(p) ==
  /\ servers[p] = "exited"
  /\ \A d \in Dashboards : requests[d].server # p \/ requests[d].at # "commit"
  /\ servers' = [servers EXCEPT ![p] = "done"]
  /\ command' = IF command = p THEN None ELSE command
  /\ UNCHANGED <<starting, detecting, detected, requests, nativeVars>>

ServeStop(d) ==
  /\ requests[d].at = "idle"
  /\ command # None
  /\ servers' = [servers EXCEPT ![command] = IF @ = "running" THEN "exited" ELSE @]
  /\ requests' = [requests EXCEPT ![d] = [at |-> "stopping", server |-> command]]
  /\ UNCHANGED <<command, starting, detecting, detected, nativeVars>>

\* wait has cleared m.command, or five seconds are over.
ServeStopEnd(d) ==
  /\ requests[d].at = "stopping"
  /\ EndRequest(d)
  /\ UNCHANGED <<command, starting, detecting, detected, servers, nativeVars>>

\* probeRunner, every minute.
ProbeBegin ==
  /\ ~detecting /\ ~starting
  /\ detecting' = TRUE
  /\ UNCHANGED <<command, starting, detected, servers, requests, nativeVars>>

ProbeEnd ==
  /\ detecting
  /\ detecting' = FALSE
  /\ detected' \in BOOLEAN
  /\ UNCHANGED <<command, starting, servers, requests, nativeVars>>

----------------------------------------------------------------------------
(* The native client *)

MoveCall(c, at) == calls' = [calls EXCEPT ![c].at = at]

End(c, result) ==
  /\ calls' = [calls EXCEPT ![c] = IdleCall]
  /\ reply' = [reply EXCEPT ![c] = result]

Worse(count) == IF count = 2 THEN 2 ELSE count + 1

\* A fault may reach every call under way.
Felt == [c \in ToolCalls |-> IF calls[c].at = "idle" THEN faults[c] ELSE Worse(faults[c])]

\* There is no client for the call: a first try was never sent, a second one comes
\* after a failed one ("failed and reconnect failed"), prepare answers nobody.
Unserved(c) ==
  /\ calls' = [calls EXCEPT ![c] = IdleCall]
  /\ reply' = IF calls[c].try = 0 THEN reply
              ELSE [reply EXCEPT ![c] = IF calls[c].try = 1 THEN "unopened" ELSE "failed"]

\* The client a call may find is already lost, or about to be discarded.
Doomed ==
  \E n \in Clients :
    /\ nativeClient = n \/ (nativeInitMu # Nobody /\ calls[nativeInitMu].client = n)
    /\ natives[n] # "up" \/ \E c \in ToolCalls : calls[c].at = "discard" /\ calls[c].client = n

Begin(c) ==
  /\ calls[c].at = "idle"
  /\ calls' = [calls EXCEPT ![c] = [at |-> "look", try |-> 1, client |-> None]]
  /\ faults' = [faults EXCEPT ![c] = IF Doomed THEN 1 ELSE 0]
  /\ reply' = [reply EXCEPT ![c] = "none"]
  /\ UNCHANGED <<nativeClient, nativeInitMu, natives, errors, down, faulty, serverVars>>

\* doStart prepares the client once to learn its tools.
Prelaunch(c) ==
  /\ calls[c].at = "idle"
  /\ nativeClient = None
  /\ calls' = [calls EXCEPT ![c] = [at |-> "prepare", try |-> 0, client |-> None]]
  /\ UNCHANGED <<nativeClient, nativeInitMu, natives, errors, down, faulty, reply, faults, serverVars>>

\* nativeClientForCall
Look(c) ==
  /\ calls[c].at = "look"
  /\ calls' = [calls EXCEPT ![c].at = IF nativeClient # None THEN "calling" ELSE "prepare",
                            ![c].client = nativeClient]
  /\ UNCHANGED <<nativeClient, nativeInitMu, natives, errors, down, faulty, reply, faults, serverVars>>

\* prepareNativeMCP under nativeInitMu.  No runner or no process: no client, which
\* is a fault this call meets.
Prepare(c) ==
  /\ calls[c].at = "prepare" /\ nativeInitMu = Nobody
  /\ IF nativeClient # None
     THEN /\ IF calls[c].try = 0 THEN calls' = [calls EXCEPT ![c] = IdleCall]
                                 ELSE MoveCall(c, "reread")
          /\ UNCHANGED <<nativeInitMu, natives, reply, faults>>
     ELSE \/ /\ Unserved(c)
             /\ faults' = [faults EXCEPT ![c] = Worse(@)]
             /\ UNCHANGED <<nativeInitMu, natives>>
          \/ \E n \in Clients :
               /\ natives[n] = "none" /\ \A m \in 1 .. (n - 1) : natives[m] # "none"
               /\ nativeInitMu' = c
               /\ natives' = [natives EXCEPT ![n] = "up"]
               /\ calls' = [calls EXCEPT ![c].at = "opening", ![c].client = n]
               /\ UNCHANGED <<reply, faults>>
  /\ UNCHANGED <<nativeClient, errors, down, faulty, serverVars>>

\* initialize or tools/list fails, which is a fault unless the browser was lost
\* already: the new client is closed.
OpenFails(c) ==
  /\ calls[c].at = "opening"
  /\ natives' = [natives EXCEPT ![calls[c].client] = "closed"]
  /\ faulty' = faulty \cup {calls[c].client}
  /\ nativeInitMu' = Nobody
  /\ Unserved(c)
  /\ faults' = IF natives[calls[c].client] = "up" THEN [faults EXCEPT ![c] = Worse(@)] ELSE faults
  /\ UNCHANGED <<nativeClient, errors, down, serverVars>>

\* Both succeeded, and OnConnectionLost is registered.
Opened(c) ==
  /\ calls[c].at = "opening"
  /\ MoveCall(c, "storing")
  /\ UNCHANGED <<nativeClient, nativeInitMu, natives, errors, down, faulty, reply, faults, serverVars>>

\* The client is stored, whatever has become of it meanwhile.
Store(c) ==
  /\ calls[c].at = "storing"
  /\ nativeClient' = calls[c].client
  /\ nativeInitMu' = Nobody
  /\ IF calls[c].try = 0 THEN calls' = [calls EXCEPT ![c] = IdleCall]
                         ELSE calls' = [calls EXCEPT ![c].at = "reread", ![c].client = None]
  /\ UNCHANGED <<natives, errors, down, faulty, reply, faults, serverVars>>

\* The client just opened may be gone again: "was not created".
Reread(c) ==
  /\ calls[c].at = "reread"
  /\ IF nativeClient = None THEN Unserved(c)
     ELSE /\ calls' = [calls EXCEPT ![c].at = "calling", ![c].client = nativeClient]
          /\ UNCHANGED reply
  /\ UNCHANGED <<nativeClient, nativeInitMu, natives, errors, down, faulty, faults, serverVars>>

CallAnswered(c) ==
  /\ calls[c].at = "calling"
  /\ natives[calls[c].client] = "up"
  /\ End(c, "result")
  /\ UNCHANGED <<nativeClient, nativeInitMu, natives, errors, down, faulty, faults, serverVars>>

\* The client is gone, or the call itself fails or is cancelled by its caller.
CallFails(c) ==
  /\ calls[c].at = "calling"
  /\ IF natives[calls[c].client] # "up" THEN UNCHANGED <<errors, faulty, faults>>
     ELSE /\ errors < MaxErrors
          /\ errors' = errors + 1
          /\ faulty' = faulty \cup {calls[c].client}
          /\ faults' = Felt
  /\ MoveCall(c, "discard")
  /\ UNCHANGED <<nativeClient, nativeInitMu, natives, down, reply, serverVars>>

Again(c) ==
  IF calls[c].try = 2 THEN End(c, "failed")
  ELSE /\ calls' = [calls EXCEPT ![c] = [at |-> "look", try |-> 2, client |-> None]]
       /\ UNCHANGED reply

\* Mutant of Discard: whatever client is current is discarded.
DiscardCurrent(c) ==
  /\ calls[c].at = "discard" /\ nativeInitMu = Nobody
  /\ nativeClient' = None
  /\ natives' = [n \in Clients |-> IF n = nativeClient THEN "closed" ELSE natives[n]]
  /\ Again(c)
  /\ UNCHANGED <<nativeInitMu, errors, down, faulty, faults, serverVars>>

\* Mutant of Discard: the discarded client is not closed.
DiscardUnclosed(c) ==
  /\ calls[c].at = "discard" /\ nativeInitMu = Nobody
  /\ nativeClient' = IF nativeClient = calls[c].client THEN None ELSE nativeClient
  /\ UNCHANGED natives
  /\ Again(c)
  /\ UNCHANGED <<nativeInitMu, errors, down, faulty, faults, serverVars>>

\* Mutant of Discard: a first failure is final.
DiscardFinally(c) ==
  /\ calls[c].at = "discard" /\ nativeInitMu = Nobody
  /\ IF nativeClient = calls[c].client
     THEN /\ nativeClient' = None
          /\ natives' = [natives EXCEPT ![nativeClient] = "closed"]
     ELSE UNCHANGED <<nativeClient, natives>>
  /\ End(c, "failed")
  /\ UNCHANGED <<nativeInitMu, errors, down, faulty, faults, serverVars>>

\* discardNativeClient, and callNativeRequest's one retry.
Discard(c) ==
  /\ calls[c].at = "discard" /\ nativeInitMu = Nobody
  /\ IF nativeClient = calls[c].client
     THEN /\ nativeClient' = None
          /\ natives' = [natives EXCEPT ![nativeClient] = "closed"]
     ELSE UNCHANGED <<nativeClient, natives>>
  /\ Again(c)
  /\ UNCHANGED <<nativeInitMu, errors, down, faulty, faults, serverVars>>

\* The browser ends.  OnConnectionLost hears of it once it is registered.
Lose(n) ==
  /\ natives[n] = "up"
  /\ natives' = [natives EXCEPT ![n] =
       IF \E c \in ToolCalls : calls[c].at = "opening" /\ calls[c].client = n
       THEN "missed" ELSE "lost"]
  /\ faulty' = faulty \cup {n}
  /\ faults' = Felt
  /\ UNCHANGED <<nativeClient, nativeInitMu, calls, errors, down, reply, serverVars>>

\* The handler, which finds nothing when the client is not stored yet.
ConnectionLost(n) ==
  /\ natives[n] = "lost"
  /\ natives' = [natives EXCEPT ![n] = "missed"]
  /\ nativeClient' = IF nativeClient = n THEN None ELSE nativeClient
  /\ UNCHANGED <<nativeInitMu, calls, errors, down, faulty, reply, faults, serverVars>>

\* closeNativeMCP at shutdown; calls are still served.
CloseNative ==
  /\ ~down /\ nativeInitMu = Nobody
  /\ down' = TRUE
  /\ nativeClient' = None
  /\ natives' = [n \in Clients |-> IF n = nativeClient THEN "closed" ELSE natives[n]]
  /\ faults' = Felt
  /\ UNCHANGED <<nativeInitMu, calls, errors, faulty, reply, serverVars>>

----------------------------------------------------------------------------

LightpandaInit ==
  /\ command = None /\ starting = FALSE /\ detecting = FALSE /\ detected = FALSE
  /\ servers = [p \in Servers |-> "none"]
  /\ requests = [d \in Dashboards |-> IdleRequest]
  /\ nativeClient = None /\ nativeInitMu = Nobody
  /\ natives = [n \in Clients |-> "none"]
  /\ calls = [c \in ToolCalls |-> IdleCall]
  /\ errors = 0 /\ down = FALSE /\ faulty = {}
  /\ reply = [c \in ToolCalls |-> "none"]
  /\ faults = [c \in ToolCalls |-> 0]

ServerStep ==
  \/ \E d \in Dashboards : \/ ServeStart(d) \/ Dial(d) \/ ServeCommit(d) \/ FinishStart(d)
                           \/ ServeStop(d) \/ ServeStopEnd(d)
  \/ \E p \in Servers : ServeExit(p) \/ ServeReap(p)
  \/ ProbeBegin \/ ProbeEnd

CallStep(c) ==
  \/ Look(c) \/ Prepare(c) \/ OpenFails(c) \/ Opened(c) \/ Store(c) \/ Reread(c)
  \/ CallAnswered(c) \/ CallFails(c) \/ Discard(c)

NativeStep ==
  \/ \E c \in ToolCalls : Begin(c) \/ Prelaunch(c) \/ CallStep(c)
  \/ \E n \in Clients : Lose(n) \/ ConnectionLost(n)
  \/ CloseNative

LightpandaSpec == LightpandaInit /\ [][ServerStep \/ NativeStep]_browserVars

----------------------------------------------------------------------------
(* Properties *)

\* The manager never runs two browser servers: one that runs is m.command, which
\* stop reaches, or is about to become it, under m.starting.
OneServer ==
  /\ \A p \in Servers : servers[p] = "running" =>
       \/ command = p
       \/ starting /\ \E d \in Dashboards : requests[d] = [at |-> "commit", server |-> p]
  /\ command # None => servers[command] \in {"running", "exited"}

\* No browser is left behind by a call that failed, raced another or lost its
\* client: one that is up is the current client, or the one somebody is opening.
NativeClientOwned ==
  \A n \in Clients : natives[n] = "up" =>
    nativeClient = n \/ (nativeInitMu # Nobody /\ calls[nativeInitMu].client = n)

\* A late failure of an old client never takes the browser away that replaced it.
HealthyClientKept ==
  ~down => \A n \in Clients : natives[n] = "closed" => n \in faulty

\* A call that was sent fails only after two faults, whichever way its second try
\* ends: losses, failed calls, a shutdown (its own or another call's), or that no
\* browser can be opened for the retry.  One that was never sent met at least one,
\* also when the client it was about to use is gone again.
FailsOnlyAfterFaults ==
  \A c \in ToolCalls : /\ reply[c] = "failed" => faults[c] = 2
                       /\ reply[c] = "unopened" => faults[c] >= 1
=============================================================================
