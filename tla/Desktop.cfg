\* Two desktop tasks; the Python process may end once, hang, or answer late.
\* The model stops when both are done.
CONSTANTS
  Plan <- MCPlan
  MaxActions = 3
  MaxRetries = 1
  HookRequired = TRUE
  MaxRuns = 2
  MaxDeaths = 1
SPECIFICATION DFairSpec
CHECK_DEADLOCK FALSE
INVARIANTS DTypeOK QueueMatchesCaller StopBound
PROPERTIES SuccessMeansDone RunEnds
