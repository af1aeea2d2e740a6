\* Hardware input while the model is still planning the task.
CONSTANTS
  Plan <- MCPlan
  MaxActions = 3
  MaxRetries = 0
  HookRequired = TRUE
  MaxRuns = 1
  MaxDeaths = 0
SPECIFICATION DSpec
CHECK_DEADLOCK FALSE
INVARIANT OverrideHalts
