\* One retry per task, one crash, one statement that throws.  A state where
\* every task has ended is final.
CONSTANTS
  t1 = t1  t2 = t2
  NoTask = NoTask
  Task = {t1, t2}
  RetryLimit = 1
  MaxCrashes = 1
  MaxFaults = 1
SPECIFICATION RFairSpec
CHECK_DEADLOCK FALSE
INVARIANTS RTypeOK BoardFollowsQueue CardsOnlyLostAtFirst OneRetryPerRun
PROPERTIES RejectionHeeded EveryRunEnds ReviewsKeepLifecycle
