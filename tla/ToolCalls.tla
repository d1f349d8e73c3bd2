------------------------------ MODULE ToolCalls ------------------------------
(***************************************************************************)
(* Concurrent MCP tool calls on the workspace registry and the activity    *)
(* monitors: open_workspace and workspace_lookup (tools.go), the calls     *)
(* that start a prompt's monitor, and any other tool, which reads the      *)
(* registry once; each but the internal ones inside activityMiddleware.    *)
(* Between two steps of a call other calls, a deletion of a directory and  *)
(* a crash of the process may come.                                        *)
(***************************************************************************)
EXTENDS WorkspaceRegistry, ActivityMonitors

CONSTANTS
  Callers,
  MaxMonitors, MaxEvents    \* bounds of the model, per process

ASSUME ToolCallsAssumption ==
  /\ Workspaces = Roots /\ NoWorkspace = NoRoot
  /\ {MaxMonitors, MaxEvents} \subseteq Nat

VARIABLES
  calls,       \* where each call stands, and what it has read
  disturbed,   \* history: workspaces.json may be old: a write of it failed, or
               \* two calls changed the registry at once, and none has since alone
  left         \* history: worktrees a crash or a failed removal left behind

callVars == <<calls, disturbed, left>>
toolVars == <<registryVars, activityVars, callVars>>

Idle == [at |-> "idle", tool |-> "none", root |-> NoRoot, monitor |-> NoMonitor,
         copy |-> Nothing, then |-> "idle"]
Tools == {"open", "lookup", "skills_search", "activity"}
Places == {"idle", "start", "handler", "register", "copy", "write", "tree", "remove",
           "activate", "bind", "record"}

ToolCallsTypeOK ==
  /\ RegistryTypeOK /\ ActivityTypeOK
  /\ calls \in [Callers -> [at : Places, tool : Tools \cup {"none"}, root : Roots \cup {NoRoot},
                            monitor : 0 .. MaxMonitors, copy : Copies, then : Places]]
  /\ disturbed \in BOOLEAN
  /\ left \subseteq Worktrees

MoveTo(c, at) == calls' = [calls EXCEPT ![c].at = at]
End(c) == calls' = [calls EXCEPT ![c] = Idle]
Refuse(c) == calls' = [calls EXCEPT ![c].at = "record", ![c].tool = "none", ![c].root = NoRoot]

Changing(c) == calls[c].at \in {"copy", "write"}
Alone(c) == \A d \in Callers \ {c} : ~Changing(d)

\* The registry has just changed: it is copied and written, then the call goes on.
Persist(c, then) ==
  /\ calls' = [calls EXCEPT ![c].at = "copy", ![c].then = then]
  /\ disturbed' = (disturbed \/ ~Alone(c))

----------------------------------------------------------------------------
(* activityMiddleware, and the prompt's own tools *)

\* Bound of the model: a monitor that is not there yet may still be started.
MayStart == activeMonitorID \notin DOMAIN monitors => started < MaxMonitors

\* open_workspace, or a call that keeps nothing else: its event takes the
\* workspace_id of its arguments, known or not, unless the result has its own.
BeginTool(c) ==
  /\ calls[c].at = "idle"
  /\ MayStart
  /\ CaptureActive
  /\ \/ calls' = [calls EXCEPT ![c] = [Idle EXCEPT !.at = "handler", !.tool = "open",
                                                     !.monitor = activeMonitorID']]
     \/ \E root \in registered \cup created \cup {NoRoot} :
          calls' = [calls EXCEPT ![c] = [Idle EXCEPT !.at = "record", !.root = root,
                                                     !.monitor = activeMonitorID']]
  /\ UNCHANGED <<registryVars, disturbed, left>>

BeginLookup(c) ==
  /\ calls[c].at = "idle"
  /\ calls' = [calls EXCEPT ![c] = [Idle EXCEPT !.at = "handler", !.tool = "lookup"]]
  /\ UNCHANGED <<registryVars, activityVars, disturbed, left>>

\* startPromptMonitor reads the default workspace, then starts the monitor.
BeginPrompt(c) ==
  /\ calls[c].at = "idle"
  /\ \E tool \in {"skills_search", "activity"} :
       calls' = [calls EXCEPT ![c] = [Idle EXCEPT !.at = "start", !.tool = tool,
                                                  !.root = DefaultWorkspace]]
  /\ UNCHANGED <<registryVars, activityVars, disturbed, left>>

StartPrompt(c) ==
  /\ calls[c].at = "start"
  /\ started < MaxMonitors
  /\ StartMonitor(calls[c].root)
  /\ IF calls[c].tool = "activity" THEN End(c)
     ELSE calls' = [calls EXCEPT ![c] = [Idle EXCEPT !.at = "record", !.monitor = started']]
  /\ UNCHANGED <<registryVars, disturbed, left>>

\* The handler has returned, open_workspace having read the tree: the call's event.
Record(c) ==
  /\ calls[c].at \in {"record", "tree"}
  /\ sequence < MaxEvents
  /\ RecordForMonitor(calls[c].monitor, calls[c].root)
  /\ End(c)
  /\ UNCHANGED <<registryVars, disturbed, left>>

----------------------------------------------------------------------------
(* open_workspace *)

\* A checkout already open is refused.
OpenCheckout(c) ==
  /\ calls[c].at = "handler" /\ calls[c].tool = "open"
  /\ \E root \in Checkouts \cap dirs :
       IF root \in registered THEN Refuse(c)
       ELSE calls' = [calls EXCEPT ![c].at = "register", ![c].tool = "none", ![c].root = root]
  /\ UNCHANGED <<registryVars, activityVars, disturbed, left>>

OpenWorktree(c) ==
  /\ calls[c].at = "handler" /\ calls[c].tool = "open"
  /\ \E root \in Worktrees :
       /\ CreateWorktree(root)
       /\ calls' = [calls EXCEPT ![c].at = "register", ![c].tool = "none", ![c].root = root]
  /\ UNCHANGED <<activityVars, disturbed, left>>

\* No such path, a wrong mode, or no worktree could be created.
OpenRefused(c) ==
  /\ calls[c].at = "handler" /\ calls[c].tool = "open"
  /\ Refuse(c)
  /\ UNCHANGED <<registryVars, activityVars, disturbed, left>>

\* registerWorkspaceMetadata: another call may have registered the root by now.
RegisterWorkspace(c) ==
  /\ calls[c].at = "register"
  /\ IF calls[c].root \in registered
     THEN MoveTo(c, "tree") /\ UNCHANGED <<registryVars, disturbed>>
     ELSE Register(calls[c].root) /\ Persist(c, "tree")
  /\ UNCHANGED <<activityVars, left>>

\* Mutant of TreeFails: a failed worktree is unregistered, and left.
TreeFailsLeaving(c) ==
  /\ calls[c].at = "tree"
  /\ IF calls[c].root \in Worktrees \cap registered
     THEN Unregister(calls[c].root) /\ Persist(c, "record")
     ELSE Refuse(c) /\ UNCHANGED <<registryVars, disturbed>>
  /\ UNCHANGED <<activityVars, left>>

\* A worktree that cannot be listed is unregistered and removed, a checkout
\* stays open.
TreeFails(c) ==
  /\ calls[c].at = "tree"
  /\ IF calls[c].root \in Worktrees \cap registered
     THEN Unregister(calls[c].root) /\ Persist(c, "remove")
     ELSE Refuse(c) /\ UNCHANGED <<registryVars, disturbed>>
  /\ UNCHANGED <<activityVars, left>>

Remove(c) ==
  /\ calls[c].at = "remove"
  /\ Refuse(c)
  /\ \/ RemoveWorktree(calls[c].root) /\ UNCHANGED left
     \/ UNCHANGED registryVars /\ left' = left \cup {calls[c].root}
  /\ UNCHANGED <<activityVars, disturbed>>

----------------------------------------------------------------------------
(* workspace_lookup *)

LookUp(c) ==
  /\ calls[c].at = "handler" /\ calls[c].tool = "lookup"
  /\ \/ End(c)
     \/ \E root \in registered :
          calls' = [calls EXCEPT ![c].at = "activate", ![c].root = root]
  /\ UNCHANGED <<registryVars, activityVars, disturbed, left>>

ActivateWorkspace(c) ==
  /\ calls[c].at = "activate"
  /\ IF calls[c].root \in registered
     THEN Activate(calls[c].root) /\ Persist(c, "bind")
     ELSE MoveTo(c, "bind") /\ UNCHANGED <<registryVars, disturbed>>
  /\ UNCHANGED <<activityVars, left>>

Bind(c) ==
  /\ calls[c].at = "bind"
  /\ MayStart
  /\ BindWorkspace(calls[c].root)
  /\ End(c)
  /\ UNCHANGED <<registryVars, disturbed, left>>

----------------------------------------------------------------------------
(* persistWorkspaceRegistry, a restart, and the user *)

\* Mutant of CopyRegistry: the active workspace is not copied.
CopyRootsOnly(c) ==
  /\ calls[c].at = "copy"
  /\ calls' = [calls EXCEPT ![c].at = "write", ![c].copy = [RegistryCopy EXCEPT !.active = NoRoot]]
  /\ disturbed' = (disturbed /\ ~Alone(c))
  /\ UNCHANGED <<registryVars, activityVars, left>>

CopyRegistry(c) ==
  /\ calls[c].at = "copy"
  /\ calls' = [calls EXCEPT ![c].at = "write", ![c].copy = RegistryCopy]
  /\ disturbed' = (disturbed /\ ~Alone(c))
  /\ UNCHANGED <<registryVars, activityVars, left>>

\* Its errors are ignored.
WriteCopy(c) ==
  /\ calls[c].at = "write"
  /\ \/ WriteRegistry(calls[c].copy) /\ UNCHANGED disturbed
     \/ WriteFails /\ disturbed' = TRUE
  /\ calls' = [calls EXCEPT ![c].at = calls[c].then, ![c].copy = Nothing, ![c].then = "idle"]
  /\ UNCHANGED <<activityVars, left>>

\* A crash, or an exit, and the start of a new process.
Restart ==
  /\ Restore \/ RestoreNothing
  /\ calls' = [c \in Callers |-> Idle]
  /\ disturbed' = FALSE
  /\ left' = left \cup ((Worktrees \cap dirs) \ registered')
  /\ sequence' = 0 /\ activeMonitorID' = NoMonitor /\ monitorOrder' = <<>> /\ monitors' = <<>>
  /\ started' = 0

UserDeletes ==
  /\ \E root \in registered \cap dirs : DeleteDirectory(root)
  /\ UNCHANGED <<activityVars, callVars>>

----------------------------------------------------------------------------

ToolCallsInit ==
  /\ RegistryInit /\ ActivityInit
  /\ calls = [c \in Callers |-> Idle]
  /\ disturbed = FALSE /\ left = {}

ToolCallsNext ==
  \/ \E c \in Callers :
       \/ BeginTool(c) \/ BeginLookup(c) \/ BeginPrompt(c) \/ StartPrompt(c) \/ Record(c)
       \/ OpenCheckout(c) \/ OpenWorktree(c) \/ OpenRefused(c)
       \/ RegisterWorkspace(c) \/ TreeFails(c) \/ Remove(c)
       \/ LookUp(c) \/ ActivateWorkspace(c) \/ Bind(c) \/ CopyRegistry(c) \/ WriteCopy(c)
  \/ Restart \/ UserDeletes

ToolCallsSpec == ToolCallsInit /\ [][ToolCallsNext]_toolVars

----------------------------------------------------------------------------
(* Properties *)

\* What a restart would read is the registry, once every call that changed it has
\* written it: only calls that overlap, or a write that fails, lose a workspace.
RegistryDurable ==
  ~disturbed /\ (\A c \in Callers : ~Changing(c)) => workspacesFile = RegistryCopy

\* Outside a crash and a removal that fails, no worktree is left on disk that
\* nobody can reach: it is open, or a call is about to open or remove it.
WorktreesOwned ==
  \A w \in (Worktrees \cap dirs) \ (registered \cup left) :
    \E c \in Callers : /\ calls[c].root = w
                       /\ calls[c].at = "register" \/ calls[c].then = "remove"
                          \/ calls[c].at = "remove"

\* "Only the newest prompt monitor receives new events": whichever calls are still
\* under way when a prompt begins, no monitor before it changes or is active again.
PromptsKeptApart ==
  [][\A m \in DOMAIN monitors : started' >= started /\ m # activeMonitorID =>
       /\ activeMonitorID' # m
       /\ m \in DOMAIN monitors' => monitors'[m] = monitors[m]]_toolVars
=============================================================================
