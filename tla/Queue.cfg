\* The table under every statement of TaskQueue, issued in any order.
SPECIFICATION QueueSpec
CONSTANTS
  t1 = t1  t2 = t2  t3 = t3  a1 = a1
  None = None
  TaskId <- Tasks3
  Agent <- Agents
  Priority <- OneLevel
  MaxRetries <- OnceOrNever
  StaleTimeout = 1
  MaxFailures = 2
SYMMETRY TaskSymmetry
CONSTRAINT FewFailures
INVARIANTS TypeOK RowCoherent DependencyOrder BlockingReachesAll
