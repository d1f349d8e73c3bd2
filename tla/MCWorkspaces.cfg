CONSTANTS
  Checkouts = {2}
  Worktrees = {1}
  Workspaces = {1, 2}
  NoWorkspace = 0
  ActivityLimit = 1
  ActivityMonitorLimit = 2
  Callers = {c1, c2}
  MaxMonitors = 3
  MaxEvents = 1
  Contents = {2, 3}
  LineCount <- MCLineCount
  Writers = {c1, c2}
  Readers = {r1}
  PageLines = 2
SPECIFICATION WorkspacesSpec
SYMMETRY CallerSymmetry
INVARIANTS
  RegistryDurable
  WorktreesOwned
  NextReviewComplete
  PagesOfOneVersion
PROPERTIES
  PromptsKeptApart
CHECK_DEADLOCK FALSE
