---------------------------- MODULE TaskQueueProofs ----------------------------
(***************************************************************************)
(* The invariants of the tasks table, for every set of tasks and agents    *)
(* and any interleaving of statements.                                     *)
(***************************************************************************)
EXTENDS TaskQueue, NatRecursion, FiniteSetTheorems, TLAPS

\* The statements that end a run write a row of the table's shape.
LEMMA RowStatements ==
  ASSUME NEW r \in Row
  PROVE  Completed(r) \in Row /\ Requeued(r) \in Row /\ Failed(r) \in Row
<1>1. Released(r) \in Row
  BY DEF Row, Released
<1>2. /\ Released(r).retries = r.retries
      /\ r.retries + 1 \in Nat
  BY DEF Row, Released
<1>3. Completed(r) \in Row
  BY <1>1 DEF Row, Status, Completed
<1>4. Requeued(r) \in Row
  BY <1>1 DEF Row, Status, Requeued
<1>5. Failed(r) \in Row
  BY <1>1, <1>2 DEF Row, Status, Failed
<1> QED
  BY <1>3, <1>4, <1>5

\* Claiming a row names its holder and starts its heartbeat.
LEMMA ClaimedIsRow == ASSUME NEW r \in Row, NEW a \in Agent PROVE Claimed(r, a) \in Row
  BY DEF Row, Status, Claimed

\* The table keeps the shape of its schema under every statement of TaskQueue.
LEMMA TypeStep == TypeOK /\ QueueNext => TypeOK'
<1> SUFFICES ASSUME TypeOK, QueueNext PROVE TypeOK'
  OBVIOUS
<1> USE DEF TypeOK
<1>1. CASE \E t \in TaskId, p \in Priority, d \in TaskId \cup {None}, m \in MaxRetries :
             Enqueue(t, p, d, m)
  <2>1. PICK t \in TaskId, p \in Priority, d \in TaskId \cup {None}, m \in MaxRetries :
               Enqueue(t, p, d, m)
    BY <1>1
  <2>2. PICK n \in {1} \cup {row[u].sequence_id + 1 : u \in Tasks} :
               row' = [row EXCEPT ![t] = [NoRow EXCEPT !.status = "pending",
                         !.priority = p, !.depends_on = d, !.max_retries = m,
                         !.sequence_id = n]]
    BY <2>1 DEF Enqueue
  <2>3. n \in Nat
    BY DEF Tasks, Row
  <2> QED
    BY <2>2, <2>3, QueueConstantsAssumption DEF Row, Status, NoRow
<1>2. CASE ResolveBlockedDependencies
  BY <1>2 DEF ResolveBlockedDependencies, Row, Status
<1>3. CASE \E t \in TaskId, a \in Agent : DependencyMet(t) /\ Claim(t, a)
  BY <1>3, ClaimedIsRow DEF Claim
<1>4. CASE \E t \in TaskId : Heartbeat(t)
  BY <1>4 DEF Heartbeat, Row
<1>5. CASE \E t \in TaskId : Complete(t)
  BY <1>5, RowStatements DEF Complete
<1>6. CASE \E t \in TaskId : Requeue(t)
  BY <1>6, RowStatements DEF Requeue
<1>7. CASE \E t \in TaskId : Fail(t)
  BY <1>7, RowStatements DEF Fail
<1>8. CASE Age
  BY <1>8, QueueConstantsAssumption DEF Age, Row
<1> QED
  BY <1>1, <1>2, <1>3, <1>4, <1>5, <1>6, <1>7, <1>8 DEF QueueNext

\* TypeOK holds of the table whatever statements the processes issue.
THEOREM TypeCorrect == QueueSpec => []TypeOK
<1>1. Init => TypeOK
  BY DEF Init, TypeOK, Row, NoRow, Status
<1>2. TypeOK /\ UNCHANGED row => TypeOK'
  BY DEF TypeOK
<1> QED
  BY <1>1, <1>2, TypeStep, PTL DEF QueueSpec
-----------------------------------------------------------------------------
\* RowCoherent, said of one row.
Coherent(r) ==
  /\ r.status = "in-progress" <=> r.locked_by # None
  /\ r.locked_by = None <=> r.heartbeat = None
  /\ r.status = "failed" => r.retries > r.max_retries
  /\ r.status = "absent" => r = NoRow

\* RowCoherent says of every row what Coherent says of one.
LEMMA CoherentRows == RowCoherent <=> \A t \in TaskId : Coherent(row[t])
  BY DEF RowCoherent, Coherent, Exists

\* Each statement leaves its row coherent, whatever the row was.
LEMMA StatementsCohere ==
  ASSUME NEW r \in Row
  PROVE  /\ Coherent(Completed(r)) /\ Coherent(Requeued(r)) /\ Coherent(Failed(r))
         /\ \A a \in Agent : Coherent(Claimed(r, a))
<1>1. /\ Released(r) \in Row
      /\ Released(r).locked_by = None /\ Released(r).heartbeat = None
      /\ Released(r).retries = r.retries /\ Released(r).max_retries = r.max_retries
  BY DEF Row, Released
<1>2. Coherent(Completed(r))
  BY <1>1 DEF Coherent, Completed, Row
<1>3. Coherent(Requeued(r))
  BY <1>1 DEF Coherent, Requeued, Row
<1>4. Coherent(Failed(r))
  BY <1>1 DEF Coherent, Failed, Row
<1>5. ASSUME NEW a \in Agent PROVE Coherent(Claimed(r, a))
  BY NoneAssumption DEF Coherent, Claimed, Row
<1> QED
  BY <1>2, <1>3, <1>4, <1>5

\* No statement breaks the agreement of status, lock and heartbeat.
LEMMA CoherenceStep == TypeOK /\ RowCoherent /\ QueueNext => RowCoherent'
<1> SUFFICES ASSUME TypeOK, RowCoherent, QueueNext,
                    NEW t \in TaskId
             PROVE  Coherent(row'[t])
  BY CoherentRows DEF RowCoherent, Coherent, Exists
<1>1. row[t] \in Row /\ Coherent(row[t]) /\ row = [u \in TaskId |-> row[u]]
  BY CoherentRows DEF TypeOK
<1>2. CASE \E u \in TaskId, p \in Priority, d \in TaskId \cup {None}, m \in MaxRetries :
             Enqueue(u, p, d, m)
  <2>1. PICK u \in TaskId, p \in Priority, d \in TaskId \cup {None}, m \in MaxRetries,
             n \in {1} \cup {row[v].sequence_id + 1 : v \in Tasks} :
               row' = [row EXCEPT ![u] = [NoRow EXCEPT !.status = "pending",
                         !.priority = p, !.depends_on = d, !.max_retries = m,
                         !.sequence_id = n]]
    BY <1>2 DEF Enqueue
  <2> QED
    BY <1>1, <2>1 DEF Coherent, NoRow
<1>3. CASE ResolveBlockedDependencies
  <2>1. CASE t \in Doomed
    <3>1. row[t].status = "pending" /\ row'[t] = [row[t] EXCEPT !.status = "blocked"]
      BY <1>3, <2>1 DEF ResolveBlockedDependencies, Doomed, Pending
    <3> QED
      BY <1>1, <3>1 DEF Coherent, Row
  <2>2. CASE t \notin Doomed
    BY <1>1, <1>3, <2>2 DEF ResolveBlockedDependencies
  <2> QED
    BY <2>1, <2>2
<1>4. CASE \E u \in TaskId, a \in Agent : DependencyMet(u) /\ Claim(u, a)
  BY <1>1, <1>4, StatementsCohere DEF Claim
<1>5. CASE \E u \in TaskId : Heartbeat(u)
  <2>1. PICK u \in TaskId : Heartbeat(u)
    BY <1>5
  <2>2. CASE u = t
    <3>1. row[t].status = "in-progress" /\ row'[t] = [row[t] EXCEPT !.heartbeat = 0]
      BY <1>1, <2>1, <2>2 DEF Heartbeat
    <3> QED
      BY <1>1, <3>1, NoneAssumption DEF Coherent, Row
  <2> QED
    BY <1>1, <2>1, <2>2 DEF Heartbeat
<1>6. CASE \E u \in TaskId : Complete(u)
  BY <1>1, <1>6, StatementsCohere DEF Complete
<1>7. CASE \E u \in TaskId : Requeue(u)
  BY <1>1, <1>7, StatementsCohere DEF Requeue
<1>8. CASE \E u \in TaskId : Fail(u)
  BY <1>1, <1>8, StatementsCohere DEF Fail
<1>9. CASE Age
  <2>1. row'[t] = [row[t] EXCEPT !.heartbeat =
                     IF @ = None \/ @ > StaleTimeout THEN @ ELSE @ + 1]
    BY <1>9 DEF Age
  <2>2. row[t].heartbeat # None => row'[t].heartbeat # None
    BY <1>1, <2>1, NoneAssumption DEF Row
  <2>3. row[t].status = "absent" => row'[t] = row[t]
    BY <1>1, <2>1 DEF Coherent, NoRow
  <2> QED
    BY <1>1, <2>1, <2>2, <2>3 DEF Coherent, Row
<1> QED
  BY <1>2, <1>3, <1>4, <1>5, <1>6, <1>7, <1>8, <1>9 DEF QueueNext

\* RowCoherent holds of the table whatever statements the processes issue: a
\* daemon that finds a row in progress finds its holder and its heartbeat with it.
THEOREM RowsCoherent == QueueSpec => []RowCoherent
<1>1. Init => RowCoherent
  BY DEF Init, RowCoherent, NoRow, Exists
<1>2. RowCoherent /\ UNCHANGED row => RowCoherent'
  BY DEF RowCoherent, Exists
<1> QED
  BY <1>1, <1>2, CoherenceStep, TypeCorrect, PTL DEF QueueSpec
-----------------------------------------------------------------------------
\* r and q are the same task as it was submitted.
SameTask(r, q) ==
  /\ r.depends_on = q.depends_on
  /\ r.sequence_id = q.sequence_id
  /\ r.status = "absent" <=> q.status = "absent"

\* No statement on a row that exists changes what the task was submitted with.
LEMMA StatementsKeepTask ==
  ASSUME NEW r \in Row, r.status # "absent"
  PROVE  /\ SameTask(Completed(r), r) /\ SameTask(Requeued(r), r) /\ SameTask(Failed(r), r)
         /\ \A a \in Agent : SameTask(Claimed(r, a), r)
<1>1. /\ Released(r) \in Row
      /\ Released(r).depends_on = r.depends_on
      /\ Released(r).sequence_id = r.sequence_id
  BY DEF Row, Released
<1>2. SameTask(Completed(r), r)
  BY <1>1 DEF SameTask, Completed, Row
<1>3. SameTask(Requeued(r), r)
  BY <1>1 DEF SameTask, Requeued, Row
<1>4. SameTask(Failed(r), r)
  BY <1>1 DEF SameTask, Failed, Row
<1>5. ASSUME NEW a \in Agent PROVE SameTask(Claimed(r, a), r)
  BY DEF SameTask, Claimed, Row
<1> QED
  BY <1>2, <1>3, <1>4, <1>5

\* Only enqueue adds a task, and nothing removes one.
LEMMA OnlyEnqueueAdds ==
  ASSUME TypeOK, QueueNext,
         ~ \E t \in TaskId, p \in Priority, d \in TaskId \cup {None}, m \in MaxRetries :
             Enqueue(t, p, d, m)
  PROVE  \A t \in TaskId : SameTask(row'[t], row[t])
<1> SUFFICES ASSUME NEW t \in TaskId PROVE SameTask(row'[t], row[t])
  OBVIOUS
<1>1. row[t] \in Row /\ row = [u \in TaskId |-> row[u]] /\ SameTask(row[t], row[t])
  BY DEF TypeOK, SameTask
<1>2. CASE ResolveBlockedDependencies
  <2>1. CASE t \in Doomed
    <3>1. row[t].status = "pending" /\ row'[t] = [row[t] EXCEPT !.status = "blocked"]
      BY <1>2, <2>1 DEF ResolveBlockedDependencies, Doomed, Pending
    <3> QED
      BY <1>1, <3>1 DEF SameTask, Row
  <2> QED
    BY <1>1, <1>2, <2>1 DEF ResolveBlockedDependencies
<1>3. CASE \E u \in TaskId, a \in Agent : DependencyMet(u) /\ Claim(u, a)
  BY <1>1, <1>3, StatementsKeepTask DEF Claim
<1>4. CASE \E u \in TaskId : Heartbeat(u)
  <2>1. PICK u \in TaskId : row' = [row EXCEPT ![u].heartbeat = 0]
    BY <1>4 DEF Heartbeat
  <2>2. CASE u = t
    <3>1. row'[t] = [row[t] EXCEPT !.heartbeat = 0]
      BY <1>1, <2>1, <2>2
    <3> QED
      BY <1>1, <3>1 DEF SameTask, Row
  <2> QED
    BY <1>1, <2>1, <2>2
<1>5. CASE \E u \in TaskId : Complete(u)
  BY <1>1, <1>5, StatementsKeepTask DEF Complete, Exists
<1>6. CASE \E u \in TaskId : Requeue(u)
  BY <1>1, <1>6, StatementsKeepTask DEF Requeue, Exists
<1>7. CASE \E u \in TaskId : Fail(u)
  BY <1>1, <1>7, StatementsKeepTask DEF Fail, Exists
<1>8. CASE Age
  <2>1. row'[t] = [row[t] EXCEPT !.heartbeat =
                     IF @ = None \/ @ > StaleTimeout THEN @ ELSE @ + 1]
    BY <1>8 DEF Age
  <2> QED
    BY <1>1, <2>1 DEF SameTask, Row
<1> QED
  BY <1>2, <1>3, <1>4, <1>5, <1>6, <1>7, <1>8 DEF QueueNext

\* A new task gets a sequence number above every other, and its dependency is there.
LEMMA DependencyStep == TypeOK /\ DependencyOrder /\ QueueNext => DependencyOrder'
<1> SUFFICES ASSUME TypeOK, DependencyOrder, QueueNext PROVE DependencyOrder'
  OBVIOUS
<1>1. CASE \E t \in TaskId, p \in Priority, d \in TaskId \cup {None}, m \in MaxRetries :
             Enqueue(t, p, d, m)
  <2>1. PICK t \in TaskId, p \in Priority, d \in TaskId \cup {None}, m \in MaxRetries :
               Enqueue(t, p, d, m)
    BY <1>1
  <2>0. \A u \in TaskId : row[u].sequence_id \in Nat
    BY DEF TypeOK, Row
  <2>2. PICK n \in {1} \cup {row[u].sequence_id + 1 : u \in Tasks} :
               /\ IsNextSequenceId(n)
               /\ row' = [row EXCEPT ![t] = [NoRow EXCEPT !.status = "pending",
                            !.priority = p, !.depends_on = d, !.max_retries = m,
                            !.sequence_id = n]]
    BY <2>1 DEF Enqueue
  <2>3. /\ row'[t].status = "pending"
        /\ row'[t].depends_on = d
        /\ row'[t].sequence_id = n
        /\ \A u \in TaskId \ {t} : row'[u] = row[u]
    BY <2>2 DEF TypeOK, NoRow
  <2>4. /\ \A u \in Tasks : row[u].sequence_id < n
        /\ n \in Nat
    BY <2>0, <2>2 DEF IsNextSequenceId, Tasks
  <2>5. t \notin Tasks /\ (d # None => d \in Tasks)
    BY <2>1 DEF Enqueue, Tasks, Exists
  <2>6. Tasks' = Tasks \cup {t}
    BY <2>3 DEF Tasks, Exists
  <2>7. ASSUME NEW u \in Tasks', row'[u].depends_on # None
        PROVE  /\ row'[row'[u].depends_on].status # "absent"
               /\ row'[row'[u].depends_on].sequence_id < row'[u].sequence_id
    <3>1. CASE u = t
      <4>1. d \in Tasks /\ d # t
        BY <2>3, <2>5, <2>7, <3>1
      <4> QED
        BY <2>3, <2>4, <2>6, <3>1, <4>1 DEF Tasks, Exists
    <3>2. CASE u # t
      <4>1. u \in Tasks /\ row'[u] = row[u]
        BY <2>3, <2>6, <3>2 DEF Tasks
      <4>2. /\ Exists(row[u].depends_on)
            /\ row[row[u].depends_on].sequence_id < row[u].sequence_id
        BY <2>7, <4>1 DEF DependencyOrder
      <4>3. row[u].depends_on \in TaskId
        BY <2>7, <4>1 DEF TypeOK, Row, Tasks
      <4>4. row[u].depends_on # t
        BY <2>5, <4>2, <4>3 DEF Tasks
      <4> QED
        BY <2>3, <4>1, <4>2, <4>3, <4>4 DEF Exists
    <3> QED
      BY <3>1, <3>2
  <2>8. \A u, v \in Tasks' : u # v => row'[u].sequence_id # row'[v].sequence_id
    <3>1. \A u \in Tasks : u \in TaskId /\ row'[u].sequence_id < n
      BY <2>3, <2>4, <2>5 DEF Tasks
    <3>2. \A u \in Tasks : row'[u].sequence_id = row[u].sequence_id
      BY <2>3, <2>5 DEF Tasks
    <3>3. \A u \in Tasks : row'[u].sequence_id \in Nat /\ row'[u].sequence_id # n
      BY <2>0, <2>4, <3>1, <3>2
    <3> QED
      BY <2>3, <2>6, <3>2, <3>3 DEF DependencyOrder
  <2> QED
    BY <2>7, <2>8 DEF DependencyOrder, Exists
<1>2. CASE ~ \E t \in TaskId, p \in Priority, d \in TaskId \cup {None}, m \in MaxRetries :
               Enqueue(t, p, d, m)
  <2>1. \A t \in TaskId : SameTask(row'[t], row[t])
    BY <1>2, OnlyEnqueueAdds
  <2>2. Tasks' = Tasks
    BY <2>1 DEF Tasks, Exists, SameTask
  <2>3. \A t \in TaskId : row[t].depends_on \in TaskId \cup {None}
    BY DEF TypeOK, Row
  <2> QED
    BY <2>1, <2>2, <2>3 DEF DependencyOrder, Tasks, Exists, SameTask
<1> QED
  BY <1>1, <1>2

\* DependencyOrder holds whatever processes submit tasks at the same time: the
\* dependency check and the sequence number keep the dependencies acyclic.
THEOREM DependenciesAcyclic == QueueSpec => []DependencyOrder
<1>1. Init => DependencyOrder
  BY DEF Init, DependencyOrder, Tasks, Exists, NoRow
<1>2. DependencyOrder /\ UNCHANGED row => DependencyOrder'
  BY DEF DependencyOrder, Tasks, Exists
<1> QED
  BY <1>1, <1>2, DependencyStep, TypeCorrect, PTL DEF QueueSpec
-----------------------------------------------------------------------------
(* The blocking loop.                                                      *)

\* The rounds of the loop, one after the other.
LEMMA RoundByRound ==
  /\ LoopRounds \in [Nat -> SUBSET TaskId]
  /\ LoopRounds[0] = {t \in TaskId : row[t].status \in {"failed", "blocked"}}
  /\ \A n \in Nat : LoopRounds[n + 1] =
       LoopRounds[n] \cup {t \in Pending : row[t].depends_on \in LoopRounds[n]}
<1> DEFINE Over    == {t \in TaskId : row[t].status \in {"failed", "blocked"}}
           Next(b) == b \cup {t \in Pending : row[t].depends_on \in b}
           F       == [x \in Nat \X SUBSET TaskId |-> Next(x[2])]
<1>1. Over \in SUBSET TaskId /\ F \in [Nat \X SUBSET TaskId -> SUBSET TaskId]
  BY DEF Pending
<1>2. PICK g \in [Nat -> SUBSET TaskId] :
             g[0] = Over /\ \A n \in Nat : g[n + 1] = F[<<n, g[n]>>]
  <2> DEFINE S == SUBSET TaskId
  <2>1. Over \in S /\ F \in [Nat \X S -> S]
    BY <1>1
  <2> HIDE DEF Over, F, S
  <2>2. \E g : Recurs(g, S, Over, F)
    BY <2>1, Recursion
  <2> QED
    BY <2>2 DEF S, Recurs
<1>3. \A n \in Nat : g[n + 1] = Next(g[n])
  BY <1>2
<1>4. g = [n \in Nat |-> IF n = 0 THEN Over ELSE Next(g[n - 1])]
  <2>1. ASSUME NEW n \in Nat PROVE g[n] = IF n = 0 THEN Over ELSE Next(g[n - 1])
    <3>1. CASE n = 0
      BY <1>2, <3>1
    <3>2. CASE n # 0
      <4>1. n - 1 \in Nat /\ (n - 1) + 1 = n
        BY <3>2
      <4> HIDE DEF Next
      <4> QED BY <1>3, <3>2, <4>1
    <3> QED
      BY <3>1, <3>2
  <2> HIDE DEF Next, Over
  <2> QED BY <1>2, <2>1
<1>5. LoopRounds = [n \in Nat |-> IF n = 0 THEN Over ELSE Next(LoopRounds[n - 1])]
  BY <1>4 DEF LoopRounds
<1> HIDE DEF Over
<1>6. LoopRounds[0] = Over
  BY <1>5
<1>7. ASSUME NEW n \in Nat PROVE LoopRounds[n + 1] = Next(LoopRounds[n])
  <2>1. n + 1 \in Nat /\ n + 1 # 0 /\ (n + 1) - 1 = n
    OBVIOUS
  <2> HIDE DEF Next
  <2> QED BY <1>5, <2>1
<1>8. LoopRounds \in [Nat -> SUBSET TaskId]
  <2> DEFINE Sound == {n \in Nat : LoopRounds[n] \in SUBSET TaskId}
  <2>1. 0 \in Sound
    BY <1>1, <1>6
  <2>2. \A n \in Nat : n \in Sound => n + 1 \in Sound
    BY <1>7 DEF Pending
  <2>3. Nat \subseteq Sound
    <3> HIDE DEF Sound
    <3> QED BY <2>1, <2>2, NatSets
  <2> HIDE DEF Next
  <2> QED BY <1>5, <2>3
<1> QED
  BY <1>6, <1>7, <1>8 DEF Over

\* After as many rounds as there are tasks, another changes nothing: each round
\* before that added a task.
LEMMA RoundsEnd ==
  ASSUME IsFiniteSet(TaskId)
  PROVE  LET N == Cardinality(TaskId) IN N \in Nat /\ LoopRounds[N + 1] = LoopRounds[N]
<1> DEFINE N == Cardinality(TaskId)
           B == LoopRounds
           Full == {n \in Nat : B[n + 1] = B[n] \/ Cardinality(B[n]) >= n}
<1>1. \A n \in Nat : /\ B[n] \in SUBSET TaskId /\ IsFiniteSet(B[n])
                     /\ Cardinality(B[n]) \in Nat /\ B[n] \subseteq B[n + 1]
  BY RoundByRound, FS_Subset, FS_CardinalityType
<1>2. 0 \in Full
  BY <1>1
<1>3. ASSUME NEW n \in Nat, n \in Full PROVE n + 1 \in Full
  <2>1. CASE B[n + 1] = B[n]
    <3>1. B[(n + 1) + 1] = B[n + 1]
      BY <2>1, RoundByRound
    <3> QED
      BY <3>1
  <2>2. CASE B[n + 1] # B[n]
    <3>1. Cardinality(B[n]) >= n
      BY <1>3, <2>2
    <3>2. /\ B[n] \in SUBSET B[n + 1] /\ IsFiniteSet(B[n + 1])
          /\ Cardinality(B[n + 1]) \in Nat /\ Cardinality(B[n]) \in Nat
      BY <1>1
    <3>3. /\ Cardinality(B[n]) <= Cardinality(B[n + 1])
          /\ Cardinality(B[n + 1]) = Cardinality(B[n]) => B[n + 1] = B[n]
      <4> HIDE DEF B
      <4> QED BY <3>2, FS_Subset
    <3>4. Cardinality(B[n + 1]) >= n + 1
      <4> HIDE DEF B
      <4> QED BY <2>2, <3>1, <3>2, <3>3
    <3> QED
      BY <3>4
  <2> QED
    BY <2>1, <2>2
<1>4. N \in Full
  <2>1. Nat \subseteq Full
    <3> HIDE DEF Full
    <3> QED BY <1>2, <1>3, NatSets
  <2> QED
    BY <2>1, FS_CardinalityType
<1>5. N \in Nat /\ N + 1 \in Nat
  BY FS_CardinalityType
<1>6. CASE Cardinality(B[N]) >= N
  <2>1. B[N] \in SUBSET TaskId /\ B[N + 1] \in SUBSET TaskId /\ B[N] \subseteq B[N + 1]
    BY <1>1, <1>5
  <2>2. Cardinality(B[N]) <= N /\ (N = Cardinality(B[N]) => TaskId = B[N])
    <3> HIDE DEF B
    <3> QED BY <2>1, FS_Subset
  <2>3. B[N] = TaskId
    <3> HIDE DEF B
    <3>1. Cardinality(B[N]) \in Nat
      BY <1>1, <1>5
    <3>2. N = Cardinality(B[N])
      <4> HIDE DEF N
      <4> QED BY <1>5, <1>6, <2>2, <3>1
    <3> QED
      BY <2>2, <3>2
  <2> QED
    BY <1>5, <2>1, <2>3
<1> QED
  BY <1>4, <1>5, <1>6

\* The set closed under blocking that the loop reaches is the least one.
LEMMA LoopReachesDoomed ==
  ASSUME IsFiniteSet(TaskId), TypeOK
  PROVE  BlockingReachesAll
<1> DEFINE N == Cardinality(TaskId)
           B == LoopRounds
           Over == {t \in TaskId : row[t].status \in {"failed", "blocked"}}
<1>1. /\ N \in Nat
      /\ \A n \in Nat : B[n] \in SUBSET TaskId
      /\ B[0] = Over
      /\ \A n \in Nat : B[n + 1] = B[n] \cup {t \in Pending : row[t].depends_on \in B[n]}
      /\ B[N + 1] = B[N]
  BY RoundByRound, RoundsEnd
<1>2. \A t \in TaskId : row[t].depends_on \in TaskId \cup {None}
  BY DEF TypeOK, Row
<1> HIDE DEF B, N
<1>3. B[0] \subseteq B[N]
  <2> DEFINE Grown == {n \in Nat : B[0] \subseteq B[n]}
  <2>1. 0 \in Grown /\ \A n \in Nat : n \in Grown => n + 1 \in Grown
    BY <1>1
  <2>2. Nat \subseteq Grown
    <3> HIDE DEF Grown
    <3> QED BY <2>1, NatSets
  <2> QED
    BY <1>1, <2>2
<1>4. ASSUME NEW t \in Doomed PROVE t \in B[N] \cap Pending
  <2>1. ClosedUnderBlocking(B[N] \cap Pending)
    <3> SUFFICES ASSUME NEW u \in Pending, row[u].depends_on # None,
                        \/ row[row[u].depends_on].status \in {"failed", "blocked"}
                        \/ row[u].depends_on \in B[N] \cap Pending
                 PROVE  u \in B[N] \cap Pending
      BY DEF ClosedUnderBlocking
    <3>1. row[u].depends_on \in B[N]
      BY <1>1, <1>2, <1>3 DEF Pending
    <3> QED
      BY <1>1, <3>1
  <2> QED
    BY <2>1 DEF Doomed
<1>5. ASSUME NEW t \in B[N] \cap Pending PROVE t \in Doomed
  <2> SUFFICES ASSUME NEW S \in SUBSET Pending, ClosedUnderBlocking(S) PROVE t \in S
    BY DEF Doomed
  <2> DEFINE Held == {n \in Nat : B[n] \subseteq Over \cup S}
  <2>1. 0 \in Held
    BY <1>1
  <2>2. ASSUME NEW n \in Nat, n \in Held PROVE n + 1 \in Held
    <3>1. ASSUME NEW u \in Pending, row[u].depends_on \in B[n] PROVE u \in S
      <4>1. row[u].depends_on # None /\ row[u].depends_on \in Over \cup S
        BY <1>1, <2>2, <3>1, NoneAssumption
      <4> QED
        BY <4>1 DEF ClosedUnderBlocking
    <3> QED
      BY <1>1, <2>2, <3>1
  <2>3. Nat \subseteq Held
    <3> HIDE DEF Held
    <3> QED BY <2>1, <2>2, NatSets
  <2>4. t \notin Over
    BY DEF Pending
  <2> QED
    BY <1>1, <2>3, <2>4
<1> QED
  BY <1>4, <1>5 DEF BlockingReachesAll, B, N

\* BlockingReachesAll holds for any finite number of tasks: one call of
\* resolveBlockedDependencies, which loops until a round changes nothing, blocks
\* every task that can no longer start, and no other.
THEOREM BlockingLoopReachesAll ==
  ASSUME IsFiniteSet(TaskId)
  PROVE  QueueSpec => []BlockingReachesAll
<1>1. TypeOK => BlockingReachesAll
  BY LoopReachesDoomed
<1> QED
  BY <1>1, TypeCorrect, PTL
=============================================================================
