\* One daemon, two tasks: crashes, restarts, lost writes, approvals, reviews.
SPECIFICATION FairSpec
CONSTANTS
  t1 = t1  t2 = t2  d1 = d1  d2 = d2  a1 = a1  q1 = q1
  None = None
  TaskId <- TwoTasks
  Daemon <- OneDaemon
  Agent <- Agents
  Payload <- OnePayload
  Priority <- JustZero
  MaxRetries <- ZeroOne
  Gated <- OneTask
  Reviewed <- JustT2
  StaleTimeout = 1
  HeartbeatEvery = 1
  OnTime = FALSE
  MaxBoots = 2
  MaxFaults = 1
INVARIANTS OTypeOK RecoveryListIsStale StopFileHonoured CompletionNeedsGrant
PROPERTIES ImplementsLifecycle EveryTaskEnds NoRowStuckInProgress
