-------------------------- MODULE ActivityMonitors ---------------------------
(***************************************************************************)
(* activityStore of activity.go: one monitor per prompt, the newest of     *)
(* which is active, and the bounded list of the calls each one shows.  An  *)
(* event is its sequence number and its workspace; titles, statistics and  *)
(* payloads are left out.  store.mu is held for each operator once.        *)
(***************************************************************************)
EXTENDS Naturals, Sequences

CONSTANTS
  Workspaces,            \* workspace IDs
  NoWorkspace,
  ActivityLimit,         \* activityLimit: events a monitor keeps
  ActivityMonitorLimit   \* activityMonitorLimit: monitors kept

ASSUME ActivityAssumption ==
  /\ NoWorkspace \notin Workspaces
  /\ {ActivityLimit, ActivityMonitorLimit} \subseteq Nat \ {0}

VARIABLES
  sequence,          \* store.sequence
  activeMonitorID,   \* store.activeMonitorID
  monitorOrder,      \* store.monitorOrder
  monitors,          \* store.monitors
  started            \* monitors started by this process: the next ID

activityVars == <<sequence, activeMonitorID, monitorOrder, monitors, started>>

NoMonitor == 0
MonitorRecord == [workspace : Workspaces \cup {NoWorkspace},
                  events : Seq([sequence : Nat, workspace : Workspaces \cup {NoWorkspace}])]

ActivityTypeOK ==
  /\ sequence \in Nat /\ started \in Nat
  /\ activeMonitorID \in 0 .. started
  /\ monitorOrder \in Seq(1 .. started)
  /\ DOMAIN monitors \subseteq 1 .. started
  /\ \A m \in DOMAIN monitors :
       monitors[m] \in MonitorRecord /\ Len(monitors[m].events) <= ActivityLimit

ActivityInit ==
  /\ sequence = 0 /\ activeMonitorID = NoMonitor
  /\ monitorOrder = <<>> /\ monitors = <<>> /\ started = 0

\* The last n elements of a sequence.
Newest(s, n) == IF Len(s) <= n THEN s ELSE SubSeq(s, Len(s) - n + 1, Len(s))

\* startMonitorLocked: the oldest monitors beyond the limit are dropped.
StartMonitor(workspace) ==
  LET id == started + 1
      order == Newest(Append(monitorOrder, id), ActivityMonitorLimit)
  IN /\ started' = id
     /\ activeMonitorID' = id
     /\ monitorOrder' = order
     /\ monitors' = [m \in {order[i] : i \in DOMAIN order} |->
                       IF m = id THEN [workspace |-> workspace, events |-> <<>>]
                       ELSE monitors[m]]
     /\ UNCHANGED sequence

\* activeMonitorLocked: captureActiveMonitorID's result is activeMonitorID'.
CaptureActive ==
  IF activeMonitorID \in DOMAIN monitors THEN UNCHANGED activityVars
  ELSE StartMonitor(NoWorkspace)

\* bindWorkspace: whichever monitor is active now.
BindWorkspace(workspace) ==
  IF activeMonitorID \in DOMAIN monitors
  THEN /\ monitors' = [monitors EXCEPT ![activeMonitorID].workspace = workspace]
       /\ UNCHANGED <<sequence, activeMonitorID, monitorOrder, started>>
  ELSE StartMonitor(workspace)

\* The append and the trim of recordForMonitor.
Recorded(monitor, workspace) ==
  LET ws == IF workspace = NoWorkspace THEN monitor.workspace ELSE workspace
  IN [workspace |-> ws,
      events    |-> Newest(Append(monitor.events, [sequence |-> sequence + 1, workspace |-> ws]),
                           ActivityLimit)]

\* Mutant of RecordForMonitor: a monitor of an earlier prompt is still written to.
RecordForAny(id, workspace) ==
  IF id \in DOMAIN monitors
  THEN /\ sequence' = sequence + 1
       /\ monitors' = [monitors EXCEPT ![id] = Recorded(@, workspace)]
       /\ UNCHANGED <<activeMonitorID, monitorOrder, started>>
  ELSE UNCHANGED activityVars

\* recordForMonitor: only the active monitor is written to.
RecordForMonitor(id, workspace) ==
  IF id \in DOMAIN monitors /\ id = activeMonitorID
  THEN /\ sequence' = sequence + 1
       /\ monitors' = [monitors EXCEPT ![id] = Recorded(@, workspace)]
       /\ UNCHANGED <<activeMonitorID, monitorOrder, started>>
  ELSE UNCHANGED activityVars
=============================================================================
