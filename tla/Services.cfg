CONSTANTS
  Entry = {1, 2, 3}
  MProc = {"daemon", "web"}
  Home <- MCHome
  MemoryMax = 1
  MaxCuts = 1
  Vector <- MCVector
  Norm = 3
  MaxRows = 4
  TopK = 2
  Call = {"c1", "c2"}
  Payload = {"q", "v"}
  Asks <- MCAsks
  FromVoice = {"v"}
  HighFriction = {"q"}
  Limit = 1
  MaxFaults = 1
  Schedule = {"s"}
  Daemon = {"d1", "d2"}
  Cap = 2
  Horizon = 3
  MaxTrouble = 1
  Workspace = {"w1", "w2"}
  WTask = {"t1"}
  Nowhere = "none"
  BTask = {"t1", "t2"}
  Sweep = {"c1"}
  MaxBrowsers = 3
  MaxErrors = 1
  MaxTurns = 3
  MaxProcs = 4
  MaxReplies = 1
SPECIFICATION ServicesSpec
\* Entries, calls, tasks and turns are bounded and come to an end.
CHECK_DEADLOCK FALSE
INVARIANTS
  ServicesTypeOK
  FindableUnlessCut
  WithinLimit
  IndexIsExact
  AuditExplainsDisk
  SearchesBounded
  NothingPassedOver
  OnceUnlessDisturbed
  DanglingOnlyByRace
  NoBrowserLost
PROPERTIES
  RepliesAreWanted
  EveryDueRunHappens
  NeverDeaf
