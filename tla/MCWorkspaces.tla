---------------------------- MODULE MCWorkspaces -----------------------------
(* Instances of ToolCalls and WorkspaceFiles for TLC. *)
EXTENDS ToolCalls, WorkspaceFiles, TLC

MCLineCount == [content \in Contents |-> content]

\* The tool calls are the writers too.
CallerSymmetry == Permutations(Callers)

\* The registry with its calls and the file with its readers and writers share no
\* state, and every property is about one of them: TLC explores each while the
\* other is as it was at the start.  The file starts with any content, the calls
\* only while there is none.
EachPart ==
  \/ file = Absent /\ FilesInit /\ ToolCallsNext /\ UNCHANGED fileVars
  \/ ToolCallsInit /\ FilesNext /\ UNCHANGED toolVars

workspacesVars == <<toolVars, fileVars>>

WorkspacesInit == ToolCallsInit /\ FilesInit

WorkspacesSpec == WorkspacesInit /\ [][EachPart]_workspacesVars
=============================================================================
