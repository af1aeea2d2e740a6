\* One daemon that meets the stop signal; the operator deletes it.
SPECIFICATION FairSpec
CONSTANTS
  t1 = t1  t2 = t2  d1 = d1  d2 = d2  a1 = a1  q1 = q1
  None = None
  TaskId <- OneTask
  Daemon <- OneDaemon
  Agent <- Agents
  Payload <- OnePayload
  Priority <- JustZero
  MaxRetries <- JustOne
  Gated <- NoTask
  Reviewed <- NoTask
  StaleTimeout = 1
  HeartbeatEvery = 1
  OnTime = TRUE
  MaxBoots = 1
  MaxFaults = 0
PROPERTY DeletingSignalResumes
