\* Two daemons on one database, heartbeats on time, no reviewer, no third start.
SPECIFICATION Spec
CONSTANTS
  t1 = t1  t2 = t2  d1 = d1  d2 = d2  a1 = a1  q1 = q1
  None = None
  TaskId <- TwoTasks
  Daemon <- TwoDaemons
  Agent <- Agents
  Payload <- OnePayload
  Priority <- ZeroOne
  MaxRetries <- JustOne
  Gated <- OneTask
  Reviewed <- NoTask
  StaleTimeout = 1
  HeartbeatEvery = 1
  OnTime = TRUE
  MaxBoots = 2
  MaxFaults = 0
INVARIANTS OneRunnerPerTask RunHoldsItsRow
PROPERTIES EndedStaysEnded ImplementsQueue
