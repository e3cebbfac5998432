CONSTANTS
  Callers = {c1, c2}
  None = "none"
  OneAtATime = TRUE
  Assets <- MCAssets
  Tasks <- MCTasks
  Pipelines <- MCPipelines
  Requests <- MCRequests
  Fold <- MCFold
SPECIFICATION TasksSpec
INVARIANTS
  HeldAsAsked
  ReloadGivesTheSame
