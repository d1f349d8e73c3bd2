---------------------------- MODULE GatewayProofs ----------------------------
(***************************************************************************)
(* Proofs about Tunnel, OAuthServer and Gateway, for every set of callers, *)
(* clients and URLs and every bound.                                       *)
(*                                                                         *)
(* The tunnel: its type invariant, that the current command has a wait     *)
(* goroutine to come, and that a tunnel is lost only when two starts were  *)
(* under way together.  The last one needs what a lone start may rely on:  *)
(* it found no command, or one that had ended, and as long as no other     *)
(* start comes nobody puts another one there (Alone).                      *)
(*                                                                         *)
(* The OAuth server: what requireBearer admits was approved by the owner   *)
(* for the URL Tautline has now, a code is settled by its first            *)
(* presentation, and registrations are durable.  These invariants hold     *)
(* whatever baseURL answers, so each of them is shown to be kept by        *)
(* OAuthNext(base) for an arbitrary base; the tunnel leaves the OAuth      *)
(* variables alone, and the other way round.                               *)
(***************************************************************************)
EXTENDS Gateway, TLAPS

----------------------------------------------------------------------------
(* The tunnel *)

\* Only a start gets past the tunnel's creation.
OnlyStartsRun == \A c \in Callers :
  /\ callers[c].at \in {"list", "create"} => callers[c].task \in {"start", "dns"}
  /\ callers[c].at \in {"detect", "adopt", "launch", "commit"} => callers[c].task = "start"

\* A process that start has not stored yet was not waited for.
LaunchedThere ==
  \A c \in Callers : callers[c].at = "commit" =>
    callers[c].pid \in Ours /\ procs[callers[c].pid] \in {"running", "exited"}

Lone == \A c, d \in Callers : InFlight(c) /\ InFlight(d) => c = d

Alone ==
  ~overlapped =>
    /\ Lone
    /\ (\E c \in Callers : InFlight(c)) => MayLookDead
    /\ Strays = {}
    /\ command # NoProcess /\ adopted # NoProcess => procs[command] # "running"

TInv == TunnelTypeOK /\ OnlyStartsRun /\ LaunchedThere /\ CommandWillBeCleared /\ Alone

----------------------------------------------------------------------------
(* Numbers and processes *)

LEMMA Numbers ==
  /\ NoProcess \notin Processes /\ Connector \notin Ours /\ Ours \subseteq Processes
  /\ Connector \in Processes
  /\ NoURL \in URLs /\ Domain \in URLs /\ Ours \subseteq URLs
  BY TunnelAssumption DEF NoProcess, Ours, Connector, Processes, NoURL, Domain, URLs

LEMMA IdleTyped == Idle \in Caller /\ Idle.at = "idle" /\ ~(Idle.at \in Starting)
  BY DEF Idle, Caller, Starting, NoProcess

\* What a kill changes of the processes.
LEMMA KillOnly ==
  ASSUME TunnelTypeOK, NEW p \in Processes
  PROVE  /\ Kill(p) \in [Processes -> {"none", "running", "left", "exited", "done"}]
         /\ \A q \in Processes : q # p => Kill(p)[q] = procs[q]
         /\ p \in Ours => Kill(p)[p] = (IF procs[p] = "left" THEN "done"
                                        ELSE IF procs[p] = "running" THEN "exited"
                                        ELSE procs[p])
  BY Numbers DEF Kill, TunnelTypeOK

LEMMA TInvInit == TunnelInit => TInv
<1> SUFFICES ASSUME TunnelInit PROVE TInv
  OBVIOUS
<1>1. TunnelTypeOK
  BY Numbers, IdleTyped DEF TunnelInit, TunnelTypeOK
<1>2. \A c \in Callers : callers[c] = Idle
  BY DEF TunnelInit
<1>3. Strays = {}
  BY Numbers DEF TunnelInit, Strays
<1> QED
  BY <1>1, <1>2, <1>3, IdleTyped DEF TunnelInit, TInv, OnlyStartsRun, LaunchedThere,
     CommandWillBeCleared, Alone, Lone, InFlight

----------------------------------------------------------------------------
(* Steps of the processes: no caller moves *)

LEMMA ProcessesKeep ==
  ASSUME TInv, UNCHANGED <<callers, overlapped>>, TunnelTypeOK',
         UNCHANGED adopted, command' \in {command, NoProcess},
         command' = NoProcess => command = NoProcess \/ procs'[command] # "running",
         command' # NoProcess => (procs[command] = "exited" => procs'[command] = "exited"),
         \A p \in Ours : procs'[p] = "running" => procs[p] = "running",
         \A p \in Ours : procs[p] \in {"running", "exited"} =>
           procs'[p] \in {"running", "exited"} \/ (Committed(p) /\ command' # p)
  PROVE  TInv'
<1>1. OnlyStartsRun' /\ Lone' = Lone /\ \A c \in Callers : InFlight(c)' = InFlight(c)
  BY DEF TInv, OnlyStartsRun, Lone, InFlight
<1>2. LaunchedThere'
  BY DEF TInv, LaunchedThere, Committed
<1>3. CommandWillBeCleared'
  BY DEF TInv, TunnelTypeOK, CommandWillBeCleared
<1>4. Strays = {} => Strays' = {}
  BY DEF TInv, Strays, Committed
<1>5. Alone'
  BY <1>1, <1>4, Numbers DEF TInv, TunnelTypeOK, Alone, MayLookDead
<1> QED
  BY <1>1, <1>2, <1>3, <1>5 DEF TInv

LEMMA ExitKeeps ==
  ASSUME TInv, NEW p \in Processes, Exit(p) PROVE TInv'
<1>1. TunnelTypeOK'
  BY DEF TInv, TunnelTypeOK, Exit, Silenced
<1>2. \A q \in Ours : procs'[q] = (IF q # p THEN procs[q]
                                   ELSE IF procs[q] = "running" THEN "exited" ELSE "done")
  BY Numbers DEF TInv, TunnelTypeOK, Exit
<1>3. procs[p] \in {"running", "left"}
  BY DEF Exit, Alive
<1> QED
  BY <1>1, <1>2, <1>3, ProcessesKeep DEF TInv, TunnelTypeOK, Exit

LEMMA ReapKeeps ==
  ASSUME TInv, NEW p \in Ours, Reap(p) PROVE TInv'
<1>1. TunnelTypeOK'
  BY Numbers DEF TInv, TunnelTypeOK, Reap
<1>2. procs[p] = "exited" /\ Committed(p) /\ \A q \in Ours : procs'[q] = IF q = p THEN "done" ELSE procs[q]
  BY Numbers DEF TInv, TunnelTypeOK, Reap
<1>3. command' = IF command = p THEN NoProcess ELSE command
  BY DEF Reap
<1> QED
  BY <1>1, <1>2, <1>3, Numbers, ProcessesKeep DEF TInv, TunnelTypeOK, Reap

LEMMA OutputKeeps ==
  ASSUME TInv, NEW p \in Ours, Announce(p) \/ Capture(p) PROVE TInv'
<1>1. TunnelTypeOK'
  BY Numbers DEF TInv, TunnelTypeOK, Announce, Capture
<1> QED
  BY <1>1, ProcessesKeep DEF TInv, TunnelTypeOK, CommandWillBeCleared, Announce, Capture

LEMMA ConnectorKeeps ==
  ASSUME TInv, ConnectorStarts PROVE TInv'
<1>1. TunnelTypeOK'
  BY Numbers DEF TInv, TunnelTypeOK, ConnectorStarts
<1>2. \A q \in Ours : procs'[q] = procs[q]
  BY Numbers DEF TInv, TunnelTypeOK, ConnectorStarts
<1> QED
  BY <1>1, <1>2, ProcessesKeep DEF TInv, TunnelTypeOK, ConnectorStarts

----------------------------------------------------------------------------
(* Steps of a caller *)

LEMMA MoveToDoes ==
  ASSUME TunnelTypeOK, NEW c \in Callers,
         NEW at \in Starting \cup {"idle", "stopping", "route", "publish"}, MoveTo(c, at)
  PROVE  /\ callers' \in [Callers -> Caller]
         /\ \A d \in Callers : d # c => callers'[d] = callers[d]
         /\ callers'[c].at = at /\ callers'[c].task = callers[c].task
         /\ callers'[c].pid = callers[c].pid
<1>1. [callers[c] EXCEPT !.at = at] \in Caller
  BY DEF TunnelTypeOK, Caller
<1> QED
  BY <1>1 DEF MoveTo, TunnelTypeOK, Caller

LEMMA LeaveDoes ==
  ASSUME TunnelTypeOK, NEW c \in Callers, Leave(c)
  PROVE  /\ callers' \in [Callers -> Caller]
         /\ \A d \in Callers : d # c => callers'[d] = callers[d]
         /\ callers'[c] = Idle
  BY IdleTyped DEF Leave, TunnelTypeOK

\* A caller moves within its call, or gives up, without having a process.
LEMMA CallerKeeps ==
  ASSUME TInv, NEW c \in Callers, TunnelTypeOK',
         UNCHANGED <<command, procs, overlapped>>, adopted' \in {adopted, NoProcess},
         \A d \in Callers : d # c => callers'[d] = callers[d],
         callers[c].at # "commit", callers'[c].at # "commit",
         callers'[c].at \in {"list", "create"} => callers'[c].task \in {"start", "dns"},
         callers'[c].at \in {"detect", "adopt", "launch"} => callers'[c].task = "start",
         InFlight(c)' => InFlight(c)
  PROVE  TInv'
<1>1. OnlyStartsRun' /\ LaunchedThere' /\ CommandWillBeCleared'
  BY DEF TInv, OnlyStartsRun, LaunchedThere, CommandWillBeCleared
<1>2. \A d \in Callers : InFlight(d)' => InFlight(d)
  BY DEF InFlight
<1>3. Strays' = Strays
  BY DEF Strays, Committed
<1>4. Alone'
  BY <1>2, <1>3 DEF TInv, Alone, Lone, MayLookDead
<1> QED
  BY <1>1, <1>4 DEF TInv

LEMMA StartKeeps ==
  ASSUME TInv, NEW c \in Callers, NEW mode \in {"quick", "named"}, Start(c, mode)
  PROVE  TInv'
<1>1. /\ \A d \in Callers : d # c => callers'[d] = callers[d]
      /\ callers[c].at = "idle" /\ callers'[c].at \in {"list", "launch"}
      /\ callers'[c].task = "start"
  BY DEF TInv, TunnelTypeOK, Start
<1>2. TunnelTypeOK'
  <2>1. [at |-> IF mode = "named" THEN "list" ELSE "launch", task |-> "start",
         mode |-> mode, domain |-> mode = "named" /\ domain, pid |-> NoProcess] \in Caller
    BY DEF TInv, TunnelTypeOK, Caller, Starting
  <2> QED
    BY <2>1 DEF TInv, TunnelTypeOK, Start, InFlight
<1>3. OnlyStartsRun' /\ LaunchedThere' /\ CommandWillBeCleared'
  BY <1>1 DEF TInv, OnlyStartsRun, LaunchedThere, CommandWillBeCleared, Start
<1>4. Strays' = Strays
  BY <1>1 DEF Strays, Committed, Start
<1>5. ~overlapped' => ~overlapped /\ \A d \in Callers : d # c => ~InFlight(d)'
  BY <1>1 DEF Start, InFlight
<1>6. Alone'
  BY <1>4, <1>5 DEF TInv, Alone, Lone, MayLookDead, Start
<1> QED
  BY <1>2, <1>3, <1>6 DEF TInv

LEMMA CreationKeeps ==
  ASSUME TInv, NEW c \in Callers, List(c) \/ Create(c) \/ Detect(c) PROVE TInv'
<1>1. UNCHANGED <<command, adopted, procs, overlapped>>
  BY DEF List, Create, Detect
<1>2. callers[c].at \in {"list", "create", "detect"}
  BY DEF List, Create, Detect
<1>3. \/ Leave(c)
      \/ MoveTo(c, "create") /\ callers[c].at = "list"
      \/ MoveTo(c, "detect") /\ callers[c].at \in {"list", "create"} /\ callers[c].task # "dns"
      \/ MoveTo(c, "route")
      \/ MoveTo(c, "launch") /\ callers[c].at = "detect"
      \/ \E p \in Processes : callers[c].at = "detect"
            /\ callers' = [callers EXCEPT ![c].at = "adopt", ![c].pid = p]
  BY DEF List, Create, Detect, Detectable
<1>4. /\ callers' \in [Callers -> Caller]
      /\ \A d \in Callers : d # c => callers'[d] = callers[d]
      /\ \/ callers'[c] = Idle
         \/ /\ callers'[c].task = callers[c].task
            /\ \/ callers'[c].at = "create" /\ callers[c].at = "list"
               \/ /\ callers'[c].at = "detect" /\ callers[c].at \in {"list", "create"}
                  /\ callers[c].task # "dns"
               \/ callers'[c].at = "route"
               \/ callers'[c].at \in {"adopt", "launch"} /\ callers[c].at = "detect"
  <2>1. CASE Leave(c)
    BY <2>1, LeaveDoes DEF TInv
  <2>2. ASSUME NEW at \in {"create", "detect", "route", "launch"}, MoveTo(c, at)
        PROVE  /\ callers' \in [Callers -> Caller]
               /\ \A d \in Callers : d # c => callers'[d] = callers[d]
               /\ callers'[c].at = at /\ callers'[c].task = callers[c].task
    BY <2>2, MoveToDoes DEF TInv, Starting
  <2>3. ASSUME NEW p \in Processes, callers' = [callers EXCEPT ![c].at = "adopt", ![c].pid = p]
        PROVE  /\ callers' \in [Callers -> Caller]
               /\ \A d \in Callers : d # c => callers'[d] = callers[d]
               /\ callers'[c].at = "adopt" /\ callers'[c].task = callers[c].task
    <3>1. [callers[c] EXCEPT !.at = "adopt", !.pid = p] \in Caller
      BY DEF TInv, TunnelTypeOK, Caller, Starting
    <3> QED
      BY <2>3, <3>1 DEF TInv, TunnelTypeOK, Caller
  <2> QED
    BY <1>3, <2>1, <2>2, <2>3
<1>5. TunnelTypeOK'
  BY <1>4 DEF TInv, TunnelTypeOK, List, Create, Detect
<1>6. InFlight(c)' => InFlight(c)
  BY <1>2, <1>4, IdleTyped DEF InFlight, Starting
<1>7. callers'[c].at \in {"detect", "adopt", "launch"} => callers'[c].task = "start"
  BY <1>2, <1>4, IdleTyped DEF TInv, OnlyStartsRun
<1>8. callers'[c].at # "commit"
  BY <1>4, IdleTyped
<1>9. callers'[c].at \in {"list", "create"} => callers'[c].task \in {"start", "dns"}
  BY <1>4, IdleTyped DEF TInv, OnlyStartsRun
<1> QED
  BY <1>1, <1>2, <1>4, <1>5, <1>6, <1>7, <1>8, <1>9, CallerKeeps

\* Adopting a connector: the start was alone, so what command there is has ended.
LEMMA AdoptKeeps ==
  ASSUME TInv, NEW c \in Callers, Adopt(c) PROVE TInv'
<1>1. callers' \in [Callers -> Caller] /\ callers'[c] = Idle
      /\ \A d \in Callers : d # c => callers'[d] = callers[d]
  BY LeaveDoes DEF TInv, Adopt
<1>2. InFlight(c) /\ \A d \in Callers : InFlight(d)' => InFlight(d)
  BY <1>1, IdleTyped DEF TInv, OnlyStartsRun, Adopt, InFlight, Starting
<1>3. TunnelTypeOK'
  BY <1>1, Numbers DEF TInv, TunnelTypeOK, Adopt, Caller
<1>4. OnlyStartsRun' /\ LaunchedThere' /\ CommandWillBeCleared'
  BY <1>1, IdleTyped DEF TInv, OnlyStartsRun, LaunchedThere, CommandWillBeCleared, Adopt
<1>5. Strays' = Strays
  BY <1>1, IdleTyped DEF Strays, Committed, Adopt
<1>6. Alone'
  BY <1>2, <1>5 DEF TInv, Alone, Lone, MayLookDead, Adopt
<1> QED
  BY <1>3, <1>4, <1>6 DEF TInv

LEMMA LaunchKeeps ==
  ASSUME TInv, NEW c \in Callers, Launch(c) PROVE TInv'
<1>1. CASE Leave(c) /\ UNCHANGED <<procs, kind>>
  <2>1. callers' \in [Callers -> Caller] /\ callers'[c] = Idle
        /\ \A d \in Callers : d # c => callers'[d] = callers[d]
    BY <1>1, LeaveDoes DEF TInv
  <2>2. TunnelTypeOK'
    BY <1>1, <2>1 DEF TInv, TunnelTypeOK, Launch
  <2> QED
    BY <1>1, <2>1, <2>2, IdleTyped, CallerKeeps DEF Launch, InFlight
<1>2. ASSUME NEW p \in Ours, procs[p] = "none",
             procs' = [procs EXCEPT ![p] = "running"],
             kind' = [kind EXCEPT ![p] = callers[c].mode],
             callers' = [callers EXCEPT ![c].at = "commit", ![c].pid = p]
      PROVE  TInv'
  <2>1. [callers[c] EXCEPT !.at = "commit", !.pid = p] \in Caller
    BY Numbers DEF TInv, TunnelTypeOK, Caller, Starting
  <2>2. /\ callers' \in [Callers -> Caller]
        /\ \A d \in Callers : d # c => callers'[d] = callers[d]
        /\ callers'[c].at = "commit" /\ callers'[c].pid = p
        /\ callers'[c].task = callers[c].task /\ callers[c].mode \in {"quick", "named"}
    BY <1>2, <2>1 DEF TInv, TunnelTypeOK, Caller
  <2>3. procs'[p] = "running" /\ \A q \in Processes : q # p => procs'[q] = procs[q]
    BY <1>2, Numbers DEF TInv, TunnelTypeOK
  <2>4. TunnelTypeOK'
    BY <1>2, <2>2, Numbers DEF TInv, TunnelTypeOK, Launch
  <2>5. callers[c].at = "launch" /\ UNCHANGED <<command, adopted, overlapped>>
    BY DEF Launch
  <2>6. OnlyStartsRun' /\ LaunchedThere'
    BY <1>2, <2>2, <2>3, <2>5, Numbers DEF TInv, OnlyStartsRun, LaunchedThere
  <2>7. command # p /\ CommandWillBeCleared'
    BY <1>2, <2>3, <2>5, Numbers DEF TInv, TunnelTypeOK, CommandWillBeCleared
  <2>8. \A d \in Callers : InFlight(d)' => InFlight(d)
    BY <2>2, <2>5 DEF InFlight, Starting
  <2>9. Strays' \subseteq Strays
    BY <2>2, <2>3, <2>5, Numbers DEF Strays, Committed
  <2>10. Alone'
    BY <2>3, <2>5, <2>7, <2>8, <2>9, Numbers DEF TInv, TunnelTypeOK, Alone, Lone, MayLookDead
  <2> QED
    BY <2>4, <2>6, <2>7, <2>10 DEF TInv
<1> QED
  BY <1>1, <1>2 DEF Launch

\* The start that stores its process was alone: what it replaces has ended.
LEMMA CommitKeeps ==
  ASSUME TInv, NEW c \in Callers, Commit(c) PROVE TInv'
<1>1. callers' \in [Callers -> Caller] /\ callers'[c] = Idle
      /\ \A d \in Callers : d # c => callers'[d] = callers[d]
  BY LeaveDoes DEF TInv, Commit
<1>2. InFlight(c) /\ \A d \in Callers : InFlight(d)' => InFlight(d) /\ d # c
  BY <1>1, IdleTyped DEF TInv, OnlyStartsRun, Commit, InFlight, Starting
<1>3. command' \in Ours /\ procs[command'] \in {"running", "exited"} /\ command' = callers[c].pid
  BY DEF TInv, LaunchedThere, Commit
<1>4. TunnelTypeOK'
  BY <1>1, <1>3, Numbers DEF TInv, TunnelTypeOK, Commit
<1>5. OnlyStartsRun' /\ LaunchedThere' /\ CommandWillBeCleared'
  BY <1>1, <1>3, IdleTyped DEF TInv, OnlyStartsRun, LaunchedThere, CommandWillBeCleared, Commit
<1>6. ASSUME ~overlapped PROVE Strays' = {}
  <2>1. Strays = {} /\ MayLookDead
    BY <1>2, <1>6 DEF TInv, Alone
  <2>2. ASSUME NEW p \in Strays' PROVE p \in Strays
    BY <1>1, <1>3, <2>1, <2>2, IdleTyped, Numbers DEF Strays, Committed, Commit, MayLookDead
  <2> QED
    BY <2>1, <2>2
<1>7. Alone'
  BY <1>2, <1>6 DEF TInv, Alone, Lone, Commit
<1> QED
  BY <1>4, <1>5, <1>7 DEF TInv

\* stop kills the command or the adopted connector, neither of them a process
\* that a start has yet to store.
LEMMA StopKeeps ==
  ASSUME TInv, NEW c \in Callers, Stop(c) PROVE TInv'
<1>1. Target \in Processes /\ procs' = Kill(Target)
  BY Numbers DEF TInv, TunnelTypeOK, Stop, Target
<1>2. [callers[c] EXCEPT !.at = "stopping", !.task = "stop", !.pid = Target] \in Caller
  BY <1>1 DEF TInv, TunnelTypeOK, Caller
<1>3. /\ callers' \in [Callers -> Caller]
      /\ \A d \in Callers : d # c => callers'[d] = callers[d]
      /\ callers'[c].at = "stopping" /\ callers[c].at = "idle"
  BY <1>2 DEF TInv, TunnelTypeOK, Stop, Caller
<1>4. /\ procs' \in [Processes -> {"none", "running", "left", "exited", "done"}]
      /\ \A q \in Processes : q # Target => procs'[q] = procs[q]
      /\ Target \in Ours => procs'[Target] = (IF procs[Target] = "left" THEN "done"
                                             ELSE IF procs[Target] = "running" THEN "exited"
                                             ELSE procs[Target])
  BY <1>1, KillOnly DEF TInv
<1>5. TunnelTypeOK'
  BY <1>3, <1>4 DEF TInv, TunnelTypeOK, Stop, Silenced
<1>6. OnlyStartsRun' /\ LaunchedThere' /\ CommandWillBeCleared'
  BY <1>3, <1>4, Numbers DEF TInv, TunnelTypeOK, OnlyStartsRun, LaunchedThere,
     CommandWillBeCleared, Stop
<1>7. \A d \in Callers : InFlight(d)' => InFlight(d)
  BY <1>3 DEF InFlight, Starting
<1>8. Strays' \subseteq Strays
  BY <1>3, <1>4, Numbers DEF Strays, Committed, Stop
<1>9. UNCHANGED <<command, adopted, overlapped>>
  BY DEF Stop
<1>10. Alone'
  BY <1>4, <1>7, <1>8, <1>9, Numbers DEF TInv, TunnelTypeOK, Alone, Lone, MayLookDead
<1> QED
  BY <1>5, <1>6, <1>10 DEF TInv

LEMMA StopEndKeeps ==
  ASSUME TInv, NEW c \in Callers, StopEnd(c) PROVE TInv'
<1>1. callers' \in [Callers -> Caller] /\ callers'[c] = Idle
      /\ \A d \in Callers : d # c => callers'[d] = callers[d]
  BY LeaveDoes DEF TInv, StopEnd
<1>2. TunnelTypeOK'
  BY <1>1 DEF TInv, TunnelTypeOK, StopEnd
<1> QED
  BY <1>1, <1>2, IdleTyped, CallerKeeps DEF StopEnd, InFlight

LEMMA DNSKeeps ==
  ASSUME TInv, NEW c \in Callers, RouteDNS(c) \/ RouteStore(c) \/ RoutePublish(c)
  PROVE  TInv'
<1>1. CASE RouteDNS(c)
  <2>1. [callers[c] EXCEPT !.at = "list", !.task = "dns"] \in Caller
    BY DEF TInv, TunnelTypeOK, Caller, Starting
  <2>2. /\ callers' \in [Callers -> Caller]
        /\ \A d \in Callers : d # c => callers'[d] = callers[d]
        /\ callers'[c].at = "list" /\ callers'[c].task = "dns" /\ callers[c].at = "idle"
    BY <1>1, <2>1 DEF TInv, TunnelTypeOK, RouteDNS, Caller
  <2>3. TunnelTypeOK'
    BY <1>1, <2>2 DEF TInv, TunnelTypeOK, RouteDNS
  <2> QED
    BY <1>1, <2>2, <2>3, CallerKeeps DEF RouteDNS, InFlight
<1>2. CASE RouteStore(c)
  <2>1. Leave(c) \/ MoveTo(c, "publish")
    BY <1>2 DEF RouteStore
  <2>2. /\ callers' \in [Callers -> Caller]
        /\ \A d \in Callers : d # c => callers'[d] = callers[d]
        /\ callers'[c] = Idle \/ callers'[c].at = "publish"
    BY <2>1, LeaveDoes, MoveToDoes DEF TInv
  <2>3. TunnelTypeOK'
    BY <1>2, <2>2 DEF TInv, TunnelTypeOK, RouteStore
  <2>4. ~InFlight(c)' /\ callers'[c].at \notin Starting
    BY <2>2, IdleTyped DEF InFlight, Starting
  <2>5. callers[c].at # "commit" /\ UNCHANGED <<command, adopted, procs, overlapped>>
    BY <1>2 DEF RouteStore
  <2> QED
    BY <2>2, <2>3, <2>4, <2>5, CallerKeeps DEF Starting
<1>3. CASE RoutePublish(c)
  <2>1. callers' \in [Callers -> Caller] /\ callers'[c] = Idle
        /\ \A d \in Callers : d # c => callers'[d] = callers[d]
    BY <1>3, LeaveDoes DEF TInv, RoutePublish
  <2>2. TunnelTypeOK'
    BY <1>3, <2>1, Numbers DEF TInv, TunnelTypeOK, RoutePublish
  <2> QED
    BY <1>3, <2>1, <2>2, IdleTyped, CallerKeeps DEF RoutePublish, InFlight
<1> QED
  BY <1>1, <1>2, <1>3

----------------------------------------------------------------------------

\* After a restart nothing of what was running is ours to stop or wait for.
LEMMA TunnelRestartKeeps ==
  ASSUME TInv, TunnelRestart PROVE TInv'
<1>1. TunnelTypeOK'
  BY Numbers, IdleTyped DEF TInv, TunnelTypeOK, TunnelRestart
<1>2. \A c \in Callers : callers'[c] = Idle
  BY DEF TunnelRestart
<1>3. \A p \in Ours : procs'[p] # "running"
  BY Numbers DEF TInv, TunnelTypeOK, TunnelRestart
<1> QED
  BY <1>1, <1>2, <1>3, IdleTyped DEF TunnelRestart, TInv, OnlyStartsRun, LaunchedThere,
     CommandWillBeCleared, Alone, Lone, InFlight, Strays

LEMMA TInvStutter ==
  ASSUME TInv, UNCHANGED tunnelVars PROVE TInv'
<1>1. TunnelTypeOK' /\ OnlyStartsRun' /\ LaunchedThere' /\ CommandWillBeCleared'
  BY DEF tunnelVars, TInv, TunnelTypeOK, OnlyStartsRun, LaunchedThere, CommandWillBeCleared
<1>2. Alone'
  BY DEF tunnelVars, TInv, Alone, Lone, InFlight, MayLookDead, Strays, Committed
<1> QED
  BY <1>1, <1>2 DEF TInv

LEMMA TInvNext ==
  ASSUME TInv, TunnelNext PROVE TInv'
  BY StartKeeps, StopKeeps, DNSKeeps, CreationKeeps, AdoptKeeps, LaunchKeeps, CommitKeeps,
     StopEndKeeps, ExitKeeps, ReapKeeps, OutputKeeps, ConnectorKeeps DEF TunnelNext, TunnelCall

THEOREM TunnelInvariant == TunnelSpec => []TInv
<1>1. TInv /\ [TunnelNext \/ TunnelRestart]_tunnelVars => TInv'
  BY TInvNext, TunnelRestartKeeps, TInvStutter
<1> QED
  BY <1>1, TInvInit, PTL DEF TunnelSpec

\* tunnelManager's command has a wait goroutine to come that will clear it.
THEOREM CommandCleared == TunnelSpec => []CommandWillBeCleared
<1>1. TInv => CommandWillBeCleared
  BY DEF TInv
<1> QED
  BY <1>1, TunnelInvariant, PTL

\* No tunnel stays published behind the manager's back unless two starts were
\* under way together.
THEOREM TunnelsKept == TunnelSpec => []OnlyOverlapLosesTunnels
<1>1. TInv => OnlyOverlapLosesTunnels
  BY DEF TInv, Alone, OnlyOverlapLosesTunnels
<1> QED
  BY <1>1, TunnelInvariant, PTL

----------------------------------------------------------------------------
(* The OAuth server: its invariant *)

Consent(record, key) ==
  [key |-> key, client |-> record.client, resource |-> record.resource]

\* A code that can still be presented, and every token, stands for what the owner
\* approved under that number; a code was never presented before it is there.
CodesConsented ==
  \A n \in CodeIds : codes[n].state # "none" =>
    consents[n] = Consent(codes[n], Key) /\ outcome[n] = "none"

TokensConsented ==
  \A t \in tokens : t.code \in CodeIds /\ t.key \in Lives
                    /\ consents[t.code] = Consent(t, t.key)

\* What was presented was approved: its number is not given to another approval.
OutcomesConsented ==
  \A n \in CodeIds : outcome[n] # "none" => consents[n] # NoConsent

OAuthShape ==
  /\ life \in Lives
  /\ DOMAIN codes = CodeIds /\ DOMAIN consents = CodeIds /\ DOMAIN outcome = CodeIds

OInv == OAuthShape /\ CodesConsented /\ TokensConsented /\ OutcomesConsented

----------------------------------------------------------------------------
(* The OAuth server: its steps *)

LEMMA KeyIsALife ==
  ASSUME life \in Lives PROVE Key \in Lives
  BY OAuthAssumption DEF Key, Lives

\* An approval is never mistaken for a number that is still free.
LEMMA ConsentIsOne ==
  ASSUME NEW record, NEW key \in Lives PROVE Consent(record, key) # NoConsent
  BY DEF Consent, NoConsent, Lives

LEMMA OInvInit == OAuthInit => OInv
  BY OAuthAssumption DEF OAuthInit, OInv, OAuthShape, CodesConsented, TokensConsented,
     OutcomesConsented, NoCode, Lives

\* The tokens of a code or of a refresh token carry the consent they come from.
LEMMA PairConsented ==
  ASSUME NEW client, NEW resource, NEW n, NEW t \in Pair(client, resource, n)
  PROVE  /\ t.client = client /\ t.resource = resource /\ t.code = n /\ t.key = Key
         /\ t.kind \in {"access", "refresh"}
  BY DEF Pair

LEMMA ApproveKeeps ==
  ASSUME OInv, NEW n \in CodeIds, NEW base, Approve(n, base)
  PROVE  OInv'
<1> USE DEF OInv, OAuthShape
<1>1. Key' = Key /\ Key \in Lives
  BY KeyIsALife DEF Approve, Key
<1>2. \A m \in CodeIds : m # n =>
        codes'[m] = codes[m] /\ consents'[m] = consents[m]
  BY DEF Approve
<1>3. codes'[n] = [state |-> "open", client |-> page.client, resource |-> page.resource]
      /\ consents'[n] = Consent(codes'[n], Key)
  BY DEF Approve, Consent
<1>4. OAuthShape' /\ outcome' = outcome /\ tokens' = tokens
  BY DEF Approve
<1>5. outcome[n] = "none"
  BY DEF Approve, OutcomesConsented
<1>6. CodesConsented'
  BY <1>1, <1>2, <1>3, <1>4, <1>5 DEF CodesConsented, Consent
<1>7. TokensConsented'
  <2> SUFFICES ASSUME NEW t \in tokens
               PROVE  t.code # n
    BY <1>2, <1>4 DEF TokensConsented
  <2> QED
    BY ConsentIsOne DEF TokensConsented, Approve
<1>8. OutcomesConsented'
  BY <1>2, <1>4, <1>5 DEF OutcomesConsented
<1> QED
  BY <1>4, <1>6, <1>7, <1>8

LEMMA ExchangeKeeps ==
  ASSUME OInv, NEW n \in CodeIds, NEW id, NEW resource, NEW proven,
         Exchange(n, id, resource, proven)
  PROVE  OInv'
<1> USE DEF OInv, OAuthShape
<1>1. Key' = Key /\ Key \in Lives /\ consents' = consents
  BY KeyIsALife DEF Exchange, Key
<1>2. codes'[n] = NoCode /\ \A m \in CodeIds : m # n => codes'[m] = codes[m]
  BY DEF Exchange
<1>3. consents[n] = Consent(codes[n], Key) /\ consents[n] # NoConsent
  BY <1>1, ConsentIsOne DEF Exchange, CodesConsented
<1>4. OAuthShape'
  BY DEF Exchange
<1>5. \A m \in CodeIds : m # n => outcome'[m] = outcome[m]
  BY DEF Exchange
<1>6. CodesConsented'
  BY <1>1, <1>2, <1>5 DEF CodesConsented, NoCode, Consent
<1>7. TokensConsented'
  <2> SUFFICES ASSUME NEW t \in tokens', t \notin tokens
               PROVE  t.code \in CodeIds /\ t.key \in Lives
                      /\ consents[t.code] = Consent(t, t.key)
    BY <1>1 DEF TokensConsented
  <2>1. t \in Pair(codes[n].client, codes[n].resource, n)
    BY DEF Exchange
  <2> QED
    BY <1>1, <1>3, <2>1, PairConsented DEF Consent
<1>8. OutcomesConsented'
  BY <1>1, <1>3, <1>5 DEF OutcomesConsented
<1> QED
  BY <1>4, <1>6, <1>7, <1>8

LEMMA RefreshKeeps ==
  ASSUME OInv, NEW t \in tokens, NEW id, NEW base, Refresh(t, id, base)
  PROVE  OInv'
<1> USE DEF OInv, OAuthShape
<1>1. Key' = Key /\ Key \in Lives /\ t.key = Key
  BY KeyIsALife DEF Refresh, Key, Valid
<1>2. UNCHANGED <<codes, consents, outcome, life>>
  BY DEF Refresh
<1>3. TokensConsented'
  <2> SUFFICES ASSUME NEW u \in tokens', u \notin tokens
               PROVE  u.code \in CodeIds /\ u.key \in Lives
                      /\ consents[u.code] = Consent(u, u.key)
    BY <1>2 DEF TokensConsented
  <2>1. u \in Pair(t.client, t.resource, t.code)
    BY DEF Refresh
  <2> QED
    BY <1>1, <2>1, PairConsented DEF Consent, TokensConsented
<1> QED
  BY <1>1, <1>2, <1>3 DEF CodesConsented, OutcomesConsented

\* A restart forgets the codes; tokens keep the key they were signed with.
LEMMA OAuthRestartKeeps ==
  ASSUME OInv, OAuthRestart PROVE OInv'
<1>1. OAuthShape'
  BY OAuthAssumption DEF OInv, OAuthShape, OAuthRestart, Lives
<1>2. CodesConsented'
  BY DEF OAuthRestart, CodesConsented, NoCode
<1>3. TokensConsented' /\ OutcomesConsented'
  BY DEF OInv, OAuthRestart, TokensConsented, OutcomesConsented, Consent
<1> QED
  BY <1>1, <1>2, <1>3 DEF OInv

LEMMA OInvNext ==
  ASSUME OInv, NEW base, OAuthNext(base) PROVE OInv'
<1>1. ASSUME NEW c \in Registrable, Register(c) PROVE OInv'
  BY <1>1 DEF Register, OInv, OAuthShape, CodesConsented, TokensConsented, OutcomesConsented, Key
<1>2. ASSUME NEW c, NEW path, Show(c, path, base) PROVE OInv'
  BY <1>2 DEF Show, OInv, OAuthShape, CodesConsented, TokensConsented, OutcomesConsented, Key
<1>3. ASSUME NEW n \in CodeIds, CodeExpires(n) PROVE OInv'
  BY <1>3 DEF CodeExpires, OInv, OAuthShape, CodesConsented, TokensConsented,
     OutcomesConsented, Key, Consent
<1>4. ASSUME NEW t \in tokens, Expires(t) PROVE OInv'
  BY <1>4 DEF Expires, OInv, OAuthShape, CodesConsented, TokensConsented, OutcomesConsented, Key
<1> QED
  BY <1>1, <1>2, <1>3, <1>4, ApproveKeeps, ExchangeKeeps, RefreshKeeps DEF OAuthNext

LEMMA OInvStutter ==
  ASSUME OInv, UNCHANGED oauthVars PROVE OInv'
  BY DEF oauthVars, OInv, OAuthShape, CodesConsented, TokensConsented, OutcomesConsented, Key

THEOREM OAuthInvariant == GatewaySpec => []OInv
<1>1. GatewayInit => OInv
  BY OInvInit DEF GatewayInit
<1>2. OInv /\ [GatewayNext]_gatewayVars => OInv'
  BY OInvNext, OInvStutter, OAuthRestartKeeps DEF GatewayNext, Restart, gatewayVars
<1> QED
  BY <1>1, <1>2, PTL DEF GatewaySpec

\* Whatever requireBearer would let in, at the URL baseURL now gives, the owner
\* approved for that client, URL and path, with the owner token in force.
THEOREM AccessWasConsented == GatewaySpec => []ConsentedAccessOnly
<1>1. OInv => ConsentedAccessOnly
  BY DEF OInv, TokensConsented, ConsentedAccessOnly, AdmittedByConsent, Admits, Valid, Consent
<1> QED
  BY <1>1, OAuthInvariant, PTL

\* exchangeAuthorizationCode settles a code the first time it is presented.
THEOREM CodesSettled == GatewaySpec => CodeSettledOnce
<1>1. ASSUME OInv, NEW base, OAuthNext(base), NEW n \in CodeIds, outcome[n] # "none"
      PROVE  outcome'[n] = outcome[n]
  <2>1. \A m \in CodeIds : \A id, resource, proven : Exchange(m, id, resource, proven) => m # n
    BY <1>1 DEF OInv, CodesConsented, Exchange
  <2> QED
    BY <1>1, <2>1 DEF OAuthNext, Register, Show, Approve, CodeExpires, Exchange, Refresh,
       Expires, OInv, OAuthShape
<1>2. OInv /\ [GatewayNext]_gatewayVars =>
        [\A n \in CodeIds : outcome[n] # "none" => outcome'[n] = outcome[n]]_oauthVars
  BY <1>1 DEF GatewayNext, Restart, OAuthRestart, gatewayVars, oauthVars
<1> QED
  BY <1>2, OAuthInvariant, PTL DEF GatewaySpec, CodeSettledOnce

\* A client that was told it is registered is in memory and in the file, unless
\* the file was removed and its replacement failed.
THEOREM RegistrationsDurable == GatewaySpec => []RegistrationDurable
<1>1. GatewayInit => RegistrationDurable
  BY DEF GatewayInit, OAuthInit, RegistrationDurable
<1>2. ASSUME RegistrationDurable, NEW base, OAuthNext(base) PROVE RegistrationDurable'
  BY <1>2 DEF RegistrationDurable, OAuthNext, Register, Show, Approve, CodeExpires, Exchange,
     Refresh, Expires
<1>3. ASSUME RegistrationDurable, OAuthRestart PROVE RegistrationDurable'
  BY <1>3 DEF RegistrationDurable, OAuthRestart
<1>4. ASSUME RegistrationDurable, UNCHANGED oauthVars PROVE RegistrationDurable'
  BY <1>4 DEF RegistrationDurable, oauthVars
<1>5. RegistrationDurable /\ [GatewayNext]_gatewayVars => RegistrationDurable'
  BY <1>2, <1>3, <1>4 DEF GatewayNext, Restart, gatewayVars
<1> QED
  BY <1>1, <1>5, PTL DEF GatewaySpec

----------------------------------------------------------------------------
(* The tunnel behind Tautline *)

\* Whatever the OAuth server does, what happens to the tunnel is a tunnel's
\* behaviour.
THEOREM GatewayRunsTunnel == GatewaySpec => TunnelSpec
<1>1. [GatewayNext]_gatewayVars => [TunnelNext \/ TunnelRestart]_tunnelVars
  BY DEF GatewayNext, Restart, gatewayVars
<1> QED
  BY <1>1, PTL DEF GatewaySpec, GatewayInit, TunnelSpec

\* With the OAuth server beside it, tunnelManager's command has a wait goroutine
\* to come, and only overlapping starts lose a tunnel.
COROLLARY GatewayTunnelSafe ==
  GatewaySpec => [](CommandWillBeCleared /\ OnlyOverlapLosesTunnels)
  BY GatewayRunsTunnel, CommandCleared, TunnelsKept, PTL

----------------------------------------------------------------------------
(* The OAuth server: its types *)

LEMMA BaseURLTyped ==
  ASSUME TunnelTypeOK PROVE BaseURL \in Origins
<1>1. publicURL \in Nat /\ publicURL <= Domain /\ Domain \in Nat /\ Domain >= 1
  BY TunnelAssumption DEF TunnelTypeOK, URLs, NoURL, Domain
<1>2. BaseURL \in 1 .. Local
  BY <1>1 DEF BaseURL, StatusURL, NoURL, Local
<1> QED
  BY <1>2, GatewayAssumption

\* A code that can be presented is a whole record.
LEMMA OpenCode ==
  ASSUME OAuthTypeOK, NEW n \in CodeIds, codes[n].state # "none"
  PROVE  codes[n] \in Code
  BY DEF OAuthTypeOK, NoCode

LEMMA PairTyped ==
  ASSUME life \in Lives, NEW client \in ClientIds, NEW resource \in Resource, NEW n \in CodeIds
  PROVE  Pair(client, resource, n) \subseteq Token
  BY KeyIsALife DEF Pair, Token

LEMMA OAuthTypeKept ==
  ASSUME OAuthTypeOK, NEW base \in Origins, OAuthNext(base)
  PROVE  OAuthTypeOK'
<1> USE DEF OAuthTypeOK
<1>1. ASSUME NEW c \in Registrable, Register(c) PROVE OAuthTypeOK'
  BY <1>1 DEF Register
<1>2. ASSUME NEW c \in ClientIds, NEW path \in Paths, Show(c, path, base) PROVE OAuthTypeOK'
  <2>1. [client |-> c, resource |-> [origin |-> base, path |-> path]] \in Request
    BY DEF Request, Resource
  <2> QED
    BY <1>2, <2>1 DEF Show
<1>3. ASSUME NEW n \in CodeIds, Approve(n, base) PROVE OAuthTypeOK'
  <2>1. page.client \in ClientIds /\ page.resource \in Resource
    BY <1>3 DEF Approve, Request
  <2>2. /\ [state |-> "open", client |-> page.client, resource |-> page.resource] \in Code
        /\ [key |-> Key, client |-> page.client, resource |-> page.resource] \in Approval
    BY <2>1, KeyIsALife DEF Code, Approval
  <2> QED
    BY <1>3, <2>2 DEF Approve
<1>4. ASSUME NEW n \in CodeIds, CodeExpires(n) PROVE OAuthTypeOK'
  <2>1. codes[n] \in Code
    BY <1>4, OpenCode DEF CodeExpires
  <2>2. [codes[n] EXCEPT !.state = "expired"] \in Code
    BY <2>1 DEF Code
  <2> QED
    BY <1>4, <2>2 DEF CodeExpires
<1>5. ASSUME NEW n \in CodeIds, NEW id, NEW resource, NEW proven,
             Exchange(n, id, resource, proven)
      PROVE  OAuthTypeOK'
  <2>1. codes[n] \in Code
    BY <1>5, OpenCode DEF Exchange
  <2>2. Pair(codes[n].client, codes[n].resource, n) \subseteq Token
    BY <2>1, PairTyped DEF Code
  <2> QED
    BY <1>5, <2>2 DEF Exchange
<1>6. ASSUME NEW t \in tokens, NEW id, Refresh(t, id, base) PROVE OAuthTypeOK'
  <2>1. Pair(t.client, t.resource, t.code) \subseteq Token
    BY PairTyped DEF Token
  <2> QED
    BY <1>6, <2>1 DEF Refresh
<1>7. ASSUME NEW t \in tokens, Expires(t) PROVE OAuthTypeOK'
  BY <1>7 DEF Expires
<1> QED
  BY <1>1, <1>2, <1>3, <1>4, <1>5, <1>6, <1>7 DEF OAuthNext

\* Clients, codes, tokens and approvals have their types, whatever the tunnel does
\* to the URL.
THEOREM OAuthTyped == GatewaySpec => []OAuthTypeOK
<1>1. GatewayInit => OAuthTypeOK
  <2> SUFFICES ASSUME OAuthInit PROVE OAuthTypeOK
    BY DEF GatewayInit
  <2>1. codes \in [CodeIds -> Code \cup {NoCode}] /\ consents \in [CodeIds -> Approval \cup {NoConsent}]
    BY DEF OAuthInit
  <2>2. life \in Lives /\ outcome \in [CodeIds -> {"none", "tokens", "refused"}]
    BY OAuthAssumption DEF OAuthInit, Lives
  <2>3. torn \in BOOLEAN
    BY Zenon DEF OAuthInit
  <2> QED
    BY <2>1, <2>2, <2>3 DEF OAuthInit, OAuthTypeOK
<1>2. ASSUME OAuthTypeOK, OAuthRestart PROVE OAuthTypeOK'
  <2>1. life' \in Lives
    BY <1>2, OAuthAssumption DEF OAuthTypeOK, OAuthRestart, Lives
  <2>2. codes' \in [CodeIds -> Code \cup {NoCode}]
    BY <1>2 DEF OAuthRestart
  <2>3. torn' \in BOOLEAN
    BY <1>2, Zenon DEF OAuthTypeOK, OAuthRestart
  <2>4. registry' \subseteq Registrable /\ clients' = registry'
    BY <1>2 DEF OAuthTypeOK, OAuthRestart
  <2> QED
    BY <1>2, <2>1, <2>2, <2>3, <2>4 DEF OAuthTypeOK, OAuthRestart
<1>3. ASSUME OAuthTypeOK, UNCHANGED oauthVars PROVE OAuthTypeOK'
  BY <1>3 DEF OAuthTypeOK, oauthVars
<1>4. OAuthTypeOK /\ TunnelTypeOK /\ [GatewayNext]_gatewayVars => OAuthTypeOK'
  <2> SUFFICES ASSUME OAuthTypeOK, TunnelTypeOK, [GatewayNext]_gatewayVars PROVE OAuthTypeOK'
    OBVIOUS
  <2>1. CASE TunnelNext /\ UNCHANGED oauthVars
    BY <1>3, <2>1
  <2>2. CASE OAuthNext(BaseURL)
    BY <2>2, BaseURLTyped, OAuthTypeKept
  <2>3. CASE Restart
    BY <1>2, <2>3 DEF Restart
  <2>4. CASE UNCHANGED gatewayVars
    BY <1>3, <2>4 DEF gatewayVars
  <2> QED
    BY <2>1, <2>2, <2>3, <2>4 DEF GatewayNext
<1>5. TInv => TunnelTypeOK
  BY Zenon DEF TInv
<1> QED
  BY <1>1, <1>4, <1>5, GatewayRunsTunnel, TunnelInvariant, PTL DEF GatewaySpec
=============================================================================
