-------------------------- MODULE WorkspaceRegistry --------------------------
(***************************************************************************)
(* workspaceStore of workspaces.go: the open workspaces, the active one,   *)
(* and their file, with the directories of managed worktrees.  The ID of a *)
(* workspace is a hash of its root, so a root stands for both, byID and    *)
(* byRoot are one set, and the order of the paths is the order of numbers. *)
(*                                                                         *)
(* The operators are the steps that hold workspaceStore.mu once, or touch  *)
(* the disk once; ToolCalls puts them in the order the handlers run them.  *)
(* persistWorkspaceRegistry is two of them: it copies the registry under   *)
(* the read lock and writes the copy without it.                           *)
(***************************************************************************)
EXTENDS Naturals, FiniteSetsExt

CONSTANTS
  Checkouts,     \* directories a user opens
  Worktrees      \* destinations of managed worktrees, each created once

ASSUME WorkspaceAssumption ==
  /\ Checkouts \cup Worktrees \subseteq Nat \ {0}
  /\ Checkouts \cap Worktrees = {}

VARIABLES
  registered,    \* workspaceStore.byID, byRoot
  activeID,      \* workspaceStore.activeID
  workspacesFile,  \* workspaces.json
  dirs,          \* the directories that exist
  created        \* history: the worktrees created so far

registryVars == <<registered, activeID, workspacesFile, dirs, created>>

NoRoot == 0
Roots  == Checkouts \cup Worktrees
Copies == [workspaces : SUBSET Roots, active : Roots \cup {NoRoot}]

RegistryTypeOK ==
  /\ registered \subseteq Roots
  /\ activeID \in registered \cup {NoRoot}
  /\ workspacesFile \in Copies
  /\ dirs \subseteq Roots
  /\ created \subseteq Worktrees

\* Also restorePersistedWorkspace's reading of an absent file.
Nothing == [workspaces |-> {}, active |-> NoRoot]

RegistryInit ==
  /\ registered = {} /\ activeID = NoRoot /\ workspacesFile = Nothing
  /\ dirs = Checkouts /\ created = {}

RegistryCopy == [workspaces |-> registered, active |-> activeID]

DefaultOf(copy) ==
  IF copy.active \in copy.workspaces THEN copy.active
  ELSE IF copy.workspaces = {} THEN NoRoot ELSE Min(copy.workspaces)

\* defaultWorkspace
DefaultWorkspace == DefaultOf(RegistryCopy)

\* registerWorkspaceLocked, for a root that is not registered.
Register(root) ==
  /\ registered' = registered \cup {root}
  /\ activeID' = root
  /\ UNCHANGED <<workspacesFile, dirs, created>>

\* unregisterWorkspace, of a workspace that is registered.
Unregister(root) ==
  /\ registered' = registered \ {root}
  /\ activeID' = IF activeID = root THEN NoRoot ELSE activeID
  /\ UNCHANGED <<workspacesFile, dirs, created>>

\* activateWorkspace, of a workspace that is registered.
Activate(root) ==
  /\ activeID' = root
  /\ UNCHANGED <<registered, workspacesFile, dirs, created>>

\* replaceWorkspaceStateFile replaces the file whole.
WriteRegistry(copy) ==
  /\ workspacesFile' = copy
  /\ UNCHANGED <<registered, activeID, dirs, created>>

\* It fails: the old file stays, or was removed because the rename over it failed.
WriteFails ==
  /\ workspacesFile' \in {workspacesFile, Nothing}
  /\ UNCHANGED <<registered, activeID, dirs, created>>

\* createManagedWorktree, when it succeeds; when not it leaves nothing.
CreateWorktree(root) ==
  /\ root \in Worktrees \ created
  /\ created' = created \cup {root}
  /\ dirs' = dirs \cup {root}
  /\ UNCHANGED <<registered, activeID, workspacesFile>>

\* removeManagedWorktree, whose errors its caller ignores.
RemoveWorktree(root) ==
  /\ dirs' = dirs \ {root}
  /\ UNCHANGED <<registered, activeID, workspacesFile, created>>

\* What restorePersistedWorkspace lets through, the file's entries taken in the
\* order of their roots: each registration makes its workspace the active one,
\* and the active workspace of the file comes last.
Restored ==
  LET kept == workspacesFile.workspaces \cap dirs
  IN [workspaces |-> kept,
      active     |-> IF workspacesFile.active \in kept THEN workspacesFile.active
                     ELSE IF kept = {} THEN NoRoot ELSE Max(kept)]

\* configureWorkspacePersistence of a new process.
Restore ==
  /\ registered' = Restored.workspaces
  /\ activeID' = Restored.active
  /\ workspacesFile' = Restored
  /\ UNCHANGED <<dirs, created>>

\* The last write, an earlier start's perhaps, removed the file and did not get to
\* put the new one there.
RestoreNothing ==
  /\ registered' = {} /\ activeID' = NoRoot /\ workspacesFile' = Nothing
  /\ UNCHANGED <<dirs, created>>

\* The user deletes a directory; a workspace open there stays registered.
DeleteDirectory(root) ==
  /\ root \in dirs
  /\ dirs' = dirs \ {root}
  /\ UNCHANGED <<registered, activeID, workspacesFile, created>>
=============================================================================
