\* One task, no crash and no statement that throws.
CONSTANTS
  t1 = t1
  NoTask = NoTask
  Task = {t1}
  RetryLimit = 1
  MaxCrashes = 0
  MaxFaults = 0
SPECIFICATION RSpec
CHECK_DEADLOCK FALSE
INVARIANT LateReviewIsCaught
