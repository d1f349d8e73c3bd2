------------------------------- MODULE Tunnel -------------------------------
(***************************************************************************)
(* tunnelManager of tunnel_v2.go: the cloudflared process that publishes   *)
(* Tautline.  Dashboard requests and the autostart of main.go start and    *)
(* stop it and route a custom domain to it; m.mu is held for one step      *)
(* only, never across a command, a process start or a wait.                *)
(*                                                                         *)
(* A cloudflared we start is a number; Connector is one somebody else      *)
(* runs.  The quick URL of process p is p.  The tunnel's UUID, log file,   *)
(* origin and error text are left out: they are only shown.  So is the     *)
(* ready channel: it ends a start's wait early, which its timer may do as  *)
(* well, and the start's reply is not modelled.                            *)
(***************************************************************************)
EXTENDS Integers, FiniteSets

CONSTANTS
  Callers,       \* requests and the autostart goroutine
  NamedTunnel,   \* whether config.json names a tunnel
  MaxTunnels     \* bound of the model: processes started

ASSUME TunnelAssumption ==
  /\ NamedTunnel \in BOOLEAN
  /\ MaxTunnels \in Nat

VARIABLES
  command,     \* m.command, NoProcess when nil
  adopted,     \* m.externalPID with m.externalAdopted
  publicURL,   \* m.publicURL
  procs,       \* the processes
  kind,        \* how each was started
  capture,     \* the capture goroutines: a quick URL read and not yet stored
  callers,     \* where each start, stop or routeDNS stands
  cloud,       \* the named tunnel exists at Cloudflare
  domain,      \* config.json has a custom domain
  overlapped   \* history: two starts were under way at once in this life

tunnelVars ==
  <<command, adopted, publicURL, procs, kind, capture, callers, cloud, domain, overlapped>>

NoProcess == 0
Ours      == 1 .. MaxTunnels
Connector == MaxTunnels + 1
Processes == Ours \cup {Connector}

NoURL  == 0
Domain == MaxTunnels + 1
URLs   == NoURL .. Domain       \* nothing, a quick URL, the custom domain

Starting == {"list", "create", "detect", "adopt", "launch", "commit"}
Caller == [at : Starting \cup {"idle", "stopping", "route", "publish"},
           task : {"none", "start", "dns", "stop"},
           mode : {"quick", "named"},
           domain : BOOLEAN,                  \* as start's config snapshot had it
           pid : Processes \cup {NoProcess}]

Idle == [at |-> "idle", task |-> "none", mode |-> "quick", domain |-> FALSE, pid |-> NoProcess]

TunnelTypeOK ==
  /\ command \in Ours \cup {NoProcess}
  /\ adopted \in Processes \cup {NoProcess}
  /\ publicURL \in URLs
  /\ procs \in [Processes -> {"none", "running", "left", "exited", "done"}]
  /\ kind \in [Processes -> {"quick", "named", "elsewhere"}]
  /\ capture \in [Ours -> {"silent", "holding", "over"}]
  /\ callers \in [Callers -> Caller]
  /\ {cloud, domain, overlapped} \subseteq BOOLEAN

----------------------------------------------------------------------------
(* Processes *)

\* The goroutines of a process exist from the commit of its start on.
Committed(p) == ~\E c \in Callers : callers[c].at = "commit" /\ callers[c].pid = p

Alive(p) == procs[p] \in {"running", "left"}

\* processExists: a process we started is there until it was waited for; which
\* of "exited" and waited for holds is the operating system's choice.
Gone(p) == procs[p] \in {"none", "exited", "done"}

Kill(p) == [procs EXCEPT ![p] = IF p = Connector \/ @ = "left" THEN "done"
                                ELSE IF @ = "running" THEN "exited" ELSE @]

\* A dead process prints nothing more; a line already read is still handled.
Silenced(p) == [q \in Ours |-> IF q = p /\ capture[q] = "silent" THEN "over" ELSE capture[q]]

\* start's guard reads ProcessState, which Wait sets outside m.mu: between the
\* end of the process and wait's lock either answer is possible.
MayLookDead == command # NoProcess => procs[command] = "exited"

\* A connector named as configured shows in the process list, ours included.
Detectable == {p \in Processes : Alive(p) /\ kind[p] # "quick"}

\* status().PublicURL
StatusURL == IF publicURL = NoURL /\ domain THEN Domain ELSE publicURL

Exit(p) ==
  /\ Alive(p)
  /\ procs' = [procs EXCEPT ![p] = IF @ = "running" /\ p \in Ours THEN "exited" ELSE "done"]
  /\ capture' = Silenced(p)
  /\ UNCHANGED <<command, adopted, publicURL, kind, callers, cloud, domain, overlapped>>

\* Mutant of Reap: m.command stays when an adopted connector is there.
ReapKeepsCommand(p) ==
  /\ procs[p] = "exited" /\ Committed(p)
  /\ procs' = [procs EXCEPT ![p] = "done"]
  /\ command' = IF command = p /\ adopted = NoProcess THEN NoProcess ELSE command
  /\ UNCHANGED <<adopted, publicURL, kind, capture, callers, cloud, domain, overlapped>>

\* The goroutine of wait: m.command is cleared if it is still this one.  The
\* public URL stays.
Reap(p) ==
  /\ procs[p] = "exited" /\ Committed(p)
  /\ procs' = [procs EXCEPT ![p] = "done"]
  /\ command' = IF command = p THEN NoProcess ELSE command
  /\ UNCHANGED <<adopted, publicURL, kind, capture, callers, cloud, domain, overlapped>>

\* A quick tunnel prints its URL; captureTunnelOutput has read the line ...
Announce(p) ==
  /\ procs[p] = "running" /\ kind[p] = "quick" /\ Committed(p)
  /\ capture[p] = "silent"
  /\ capture' = [capture EXCEPT ![p] = "holding"]
  /\ UNCHANGED <<command, adopted, publicURL, procs, kind, callers, cloud, domain, overlapped>>

\* ... and stores it, whichever tunnel is current by then.
Capture(p) ==
  /\ capture[p] = "holding"
  /\ capture' = [capture EXCEPT ![p] = "over"]
  /\ publicURL' = p
  /\ UNCHANGED <<command, adopted, procs, kind, callers, cloud, domain, overlapped>>

\* Somebody else connects the named tunnel, to our port or to another.
ConnectorStarts ==
  /\ NamedTunnel /\ cloud
  /\ procs[Connector] = "none"
  /\ procs' = [procs EXCEPT ![Connector] = "running"]
  /\ \E k \in {"named", "elsewhere"} : kind' = [kind EXCEPT ![Connector] = k]
  /\ UNCHANGED <<command, adopted, publicURL, capture, callers, cloud, domain, overlapped>>

----------------------------------------------------------------------------
(* start *)

MoveTo(c, at) == callers' = [callers EXCEPT ![c].at = at]
Leave(c)      == callers' = [callers EXCEPT ![c] = Idle]

InFlight(c) == callers[c].task = "start" /\ callers[c].at \in Starting

\* Mutant of Start: a running tunnel is no reason to return.
StartAnyway(c, mode) ==
  /\ callers[c].at = "idle"
  /\ mode = "named" => NamedTunnel
  /\ callers' = [callers EXCEPT ![c] =
       [at |-> IF mode = "named" THEN "list" ELSE "launch", task |-> "start",
        mode |-> mode, domain |-> mode = "named" /\ domain, pid |-> NoProcess]]
  /\ overlapped' = (overlapped \/ \E d \in Callers : InFlight(d))
  /\ UNCHANGED <<command, adopted, publicURL, procs, kind, capture, cloud, domain>>

Start(c, mode) ==
  /\ callers[c].at = "idle"
  /\ MayLookDead
  /\ mode = "named" => NamedTunnel
  /\ callers' = [callers EXCEPT ![c] =
       [at |-> IF mode = "named" THEN "list" ELSE "launch", task |-> "start",
        mode |-> mode, domain |-> mode = "named" /\ domain, pid |-> NoProcess]]
  /\ overlapped' = (overlapped \/ \E d \in Callers : InFlight(d))
  /\ UNCHANGED <<command, adopted, publicURL, procs, kind, capture, cloud, domain>>

\* ensureNamedTunnel asks for the list, which may fail, ...
List(c) ==
  /\ callers[c].at = "list"
  /\ \/ cloud /\ MoveTo(c, IF callers[c].task = "dns" THEN "route" ELSE "detect")
     \/ MoveTo(c, "create")
     \/ Leave(c)
  /\ UNCHANGED <<command, adopted, publicURL, procs, kind, capture, cloud, domain, overlapped>>

\* ... and creates a tunnel the list did not have.  A name is taken only once.
Create(c) ==
  /\ callers[c].at = "create"
  /\ \/ /\ ~cloud
        /\ cloud' = TRUE
        /\ \/ MoveTo(c, IF callers[c].task = "dns" THEN "route" ELSE "detect")
           \/ Leave(c)                          \* its UUID could not be resolved
     \/ cloud' = cloud /\ Leave(c)
  /\ UNCHANGED <<command, adopted, publicURL, procs, kind, capture, domain, overlapped>>

\* detectLocalTunnelConnector: the first match decides; a failed listing finds
\* nothing.  A connector of another origin is an error.
Detect(c) ==
  /\ callers[c].at = "detect"
  /\ \/ \E p \in Detectable :
          IF kind[p] = "elsewhere" THEN Leave(c)
          ELSE callers' = [callers EXCEPT ![c].at = "adopt", ![c].pid = p]
     \/ MoveTo(c, "launch")
  /\ UNCHANGED <<command, adopted, publicURL, procs, kind, capture, cloud, domain, overlapped>>

Adopt(c) ==
  /\ callers[c].at = "adopt"
  /\ adopted' = callers[c].pid
  /\ publicURL' = IF callers[c].domain THEN Domain ELSE publicURL
  /\ Leave(c)
  /\ UNCHANGED <<command, procs, kind, capture, cloud, domain, overlapped>>

Launch(c) ==
  /\ callers[c].at = "launch"
  /\ \/ Leave(c) /\ UNCHANGED <<procs, kind>>   \* no executable, log file or process
     \/ \E p \in Ours :
          /\ procs[p] = "none" /\ \A q \in 1 .. (p - 1) : procs[q] # "none"
          /\ procs' = [procs EXCEPT ![p] = "running"]
          /\ kind' = [kind EXCEPT ![p] = callers[c].mode]
          /\ callers' = [callers EXCEPT ![c].at = "commit", ![c].pid = p]
  /\ UNCHANGED <<command, adopted, publicURL, capture, cloud, domain, overlapped>>

\* The call then waits for the ready channel or its timer and validates what it
\* sees; neither changes the manager.
Commit(c) ==
  /\ callers[c].at = "commit"
  /\ command' = callers[c].pid
  /\ adopted' = NoProcess
  /\ publicURL' = IF callers[c].mode = "named" /\ callers[c].domain THEN Domain ELSE NoURL
  /\ Leave(c)
  /\ UNCHANGED <<procs, kind, capture, cloud, domain, overlapped>>

----------------------------------------------------------------------------
(* stop and routeDNS *)

\* A command that is there hides an adopted connector.
Target == IF command # NoProcess THEN command ELSE adopted

Stop(c) ==
  /\ callers[c].at = "idle"
  /\ Target # NoProcess
  /\ procs' = Kill(Target)
  /\ capture' = Silenced(Target)
  /\ callers' = [callers EXCEPT ![c].at = "stopping", ![c].task = "stop", ![c].pid = Target]
  /\ UNCHANGED <<command, adopted, publicURL, kind, cloud, domain, overlapped>>

\* The process is gone, or five seconds are over.
StopEnd(c) ==
  /\ callers[c].at = "stopping"
  /\ adopted' = IF Gone(callers[c].pid) /\ adopted = callers[c].pid THEN NoProcess ELSE adopted
  /\ Leave(c)
  /\ UNCHANGED <<command, publicURL, procs, kind, capture, cloud, domain, overlapped>>

RouteDNS(c) ==
  /\ callers[c].at = "idle"
  /\ NamedTunnel
  /\ callers' = [callers EXCEPT ![c].at = "list", ![c].task = "dns"]
  /\ UNCHANGED <<command, adopted, publicURL, procs, kind, capture, cloud, domain, overlapped>>

\* cloudflared routes the name, the store takes it, and its save may fail, which
\* leaves the new value in memory.
RouteStore(c) ==
  /\ callers[c].at = "route"
  /\ \/ domain' = domain /\ Leave(c)
     \/ domain' = TRUE /\ (Leave(c) \/ MoveTo(c, "publish"))
  /\ UNCHANGED <<command, adopted, publicURL, procs, kind, capture, cloud, overlapped>>

RoutePublish(c) ==
  /\ callers[c].at = "publish"
  /\ publicURL' = Domain
  /\ Leave(c)
  /\ UNCHANGED <<command, adopted, procs, kind, capture, cloud, domain, overlapped>>

----------------------------------------------------------------------------

\* Tautline ends, after a stop or not, and starts again: what it left running
\* goes on, and nobody waits for it.
TunnelRestart ==
  /\ command' = NoProcess /\ adopted' = NoProcess /\ publicURL' = NoURL
  /\ procs' = [p \in Processes |->
       IF p \in Ours /\ procs[p] = "running" THEN "left"
       ELSE IF procs[p] = "exited" THEN "done" ELSE procs[p]]
  /\ capture' = [p \in Ours |-> IF procs[p] = "none" THEN "silent" ELSE "over"]
  /\ callers' = [c \in Callers |-> Idle]
  /\ overlapped' = FALSE
  /\ UNCHANGED <<kind, cloud, domain>>

TunnelInit ==
  /\ command = NoProcess /\ adopted = NoProcess /\ publicURL = NoURL
  /\ procs = [p \in Processes |-> "none"]
  /\ kind = [p \in Processes |-> "quick"]
  /\ capture = [p \in Ours |-> "silent"]
  /\ callers = [c \in Callers |-> Idle]
  /\ cloud \in BOOLEAN /\ domain \in BOOLEAN
  /\ overlapped = FALSE

TunnelCall(c) ==
  \/ List(c) \/ Create(c) \/ Detect(c) \/ Adopt(c) \/ Launch(c) \/ Commit(c) \/ StopEnd(c)
  \/ RouteStore(c) \/ RoutePublish(c)

\* Not TunnelRestart: the whole server restarts.
TunnelNext ==
  \/ \E c \in Callers : \/ \E mode \in {"quick", "named"} : Start(c, mode)
                        \/ Stop(c) \/ RouteDNS(c) \/ TunnelCall(c)
  \/ \E p \in Processes : Exit(p)
  \/ \E p \in Ours : Reap(p) \/ Announce(p) \/ Capture(p)
  \/ ConnectorStarts

TunnelSpec == TunnelInit /\ [][TunnelNext \/ TunnelRestart]_tunnelVars

----------------------------------------------------------------------------
(* Properties *)

\* A running process of ours that stop would not reach.
Strays == {p \in Ours : procs[p] = "running" /\ Committed(p) /\ command # p}

\* A tunnel stays published behind the manager's back (a process of ours that is
\* not m.command, or a connector hidden by a command, which stop does not kill)
\* only when two starts were under way together: start unlocks after its check.
OnlyOverlapLosesTunnels ==
  ~overlapped =>
    /\ Strays = {}
    /\ command # NoProcess /\ adopted # NoProcess => procs[command] # "running"

\* m.command always has a wait goroutine to come that will clear it: a start is
\* never answered with "already running" for a tunnel nobody will forget.
CommandWillBeCleared ==
  command # NoProcess => procs[command] \in {"running", "exited"}
=============================================================================
