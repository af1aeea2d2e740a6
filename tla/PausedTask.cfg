\* One daemon, one task that needs an approval.
SPECIFICATION Spec
CONSTANTS
  t1 = t1  t2 = t2  d1 = d1  d2 = d2  a1 = a1  q1 = q1
  None = None
  TaskId <- OneTask
  Daemon <- OneDaemon
  Agent <- Agents
  Payload <- OnePayload
  Priority <- JustZero
  MaxRetries <- JustOne
  Gated <- OneTask
  Reviewed <- NoTask
  StaleTimeout = 1
  HeartbeatEvery = 1
  OnTime = TRUE
  MaxBoots = 1
  MaxFaults = 0
PROPERTY PausedTaskWaits
