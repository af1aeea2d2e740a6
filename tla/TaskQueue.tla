------------------------------ MODULE TaskQueue ------------------------------
(***************************************************************************)
(* The `tasks` table of the SQLite database and the statements by which    *)
(* TaskQueue (core/src/queue/index.ts) changes it.                         *)
(*                                                                         *)
(* The table is shared by every process that opens the database: the       *)
(* daemon, the CLI, the web server.  This module says what one statement   *)
(* does to the rows and lets any process issue any statement at any time;  *)
(* who issues which, and when, is the business of module Orchestrator.     *)
(*                                                                         *)
(* Time appears only as the age of a heartbeat, counted in ticks and kept  *)
(* at StaleTimeout + 1 once the heartbeat is stale: nothing in the queue   *)
(* tells two stale ages apart.                                             *)
(***************************************************************************)
EXTENDS Integers, FiniteSets

CONSTANTS
  TaskId,        \* the ids a task can have (UUIDs, or the CLI's --id)
  Agent,         \* names of the registered agents, written to locked_by
  None,          \* SQL NULL
  Priority,      \* the priorities tasks are submitted with
  MaxRetries,    \* the values of --max-retries that are used
  StaleTimeout   \* JARVIS_STALE_TASK_TIMEOUT_MS, in ticks

ASSUME NoneAssumption == /\ None \notin TaskId
                         /\ None \notin Agent
                         /\ None \notin Nat

ASSUME QueueConstantsAssumption == /\ Priority \subseteq Int
                                   /\ MaxRetries \subseteq Int
                                   /\ StaleTimeout \in Nat

VARIABLE row     \* row[t]: the row of task t, absent until t is enqueued

Status == {"absent", "pending", "in-progress", "completed", "failed", "blocked"}

Row == [status       : Status,
        priority     : Int,
        depends_on   : TaskId \cup {None},
        retries      : Nat,
        max_retries  : Int,
        locked_by    : Agent \cup {None},
        heartbeat    : Nat \cup {None},      \* age of heartbeat_at, in ticks
        sequence_id  : Nat]

NoRow == [status |-> "absent", priority |-> 0, depends_on |-> None,
          retries |-> 0, max_retries |-> 0, locked_by |-> None,
          heartbeat |-> None, sequence_id |-> 0]

Init == row = [t \in TaskId |-> NoRow]

-----------------------------------------------------------------------------
(* What the queries select.                                                *)

Exists(t)  == row[t].status # "absent"
Tasks      == {t \in TaskId : Exists(t)}
Pending    == {t \in TaskId : row[t].status = "pending"}
InProgress == {t \in TaskId : row[t].status = "in-progress"}

\* ORDER BY priority DESC, sequence_id ASC.
Before(t, u) ==
  \/ row[t].priority > row[u].priority
  \/ /\ row[t].priority = row[u].priority
     /\ row[t].sequence_id < row[u].sequence_id

IsFirst(t, S) == t \in S /\ \A u \in S \ {t} : Before(t, u)

DependencyMet(t) ==
  row[t].depends_on # None => row[row[t].depends_on].status = "completed"

\* The comparison with the timeout off by one.
IsStaleEarly(t) == row[t].heartbeat = None \/ row[t].heartbeat >= StaleTimeout

IsStale(t) == row[t].heartbeat = None \/ row[t].heartbeat > StaleTimeout

\* S takes in every pending task whose dependency failed, is blocked, or is in S.
ClosedUnderBlocking(S) ==
  \A t \in Pending :
    /\ row[t].depends_on # None
    /\ \/ row[row[t].depends_on].status \in {"failed", "blocked"}
       \/ row[t].depends_on \in S
    => t \in S

\* The tasks one round of the loop reaches.
DoomedDirectly ==
  {t \in Pending : /\ row[t].depends_on # None
                   /\ row[row[t].depends_on].status \in {"failed", "blocked"}}

\* The tasks the `while (changed)` loop of resolveBlockedDependencies reaches:
\* the least set closed under blocking.
Doomed ==
  {t \in Pending : \A S \in SUBSET Pending : ClosedUnderBlocking(S) => t \in S}

\* SELECT COALESCE(MAX(sequence_id), 0) + 1 FROM tasks.
IsNextSequenceId(n) ==
  /\ \A u \in Tasks : row[u].sequence_id < n
  /\ n = 1 \/ \E u \in Tasks : n = row[u].sequence_id + 1

-----------------------------------------------------------------------------
(* What one statement does to one row.                                     *)

Released(r) == [r EXCEPT !.heartbeat = None, !.locked_by = None]

Claimed(r, a) == [r EXCEPT !.status = "in-progress", !.locked_by = a, !.heartbeat = 0]

\* The lock and the heartbeat left on a completed row.
KeepsLock(r) == [r EXCEPT !.status = "completed"]

\* The name of the Kanban column written for the status.
CompletedAsDone(r) == [Released(r) EXCEPT !.status = "done"]

Completed(r) == [Released(r) EXCEPT !.status = "completed"]

Requeued(r) == [Released(r) EXCEPT !.status = "pending"]

\* The retry check made on the old counter: one retry too many.
RetriesOneMore(r) ==
  [Released(r) EXCEPT !.retries = @ + 1,
                      !.status = IF r.retries <= r.max_retries THEN "pending" ELSE "failed"]

Failed(r) ==
  [Released(r) EXCEPT !.retries = @ + 1,
                      !.status = IF r.retries + 1 <= r.max_retries
                                   THEN "pending" ELSE "failed"]

-----------------------------------------------------------------------------
(* The operations.                                                         *)

\* The dependency check of enqueue dropped.
EnqueueUnchecked(t, p, d, m) ==
  /\ ~Exists(t)
  /\ \E n \in {1} \cup {row[u].sequence_id + 1 : u \in Tasks} :
       /\ IsNextSequenceId(n)
       /\ row' = [row EXCEPT ![t] = [NoRow EXCEPT !.status = "pending",
                    !.priority = p, !.depends_on = d, !.max_retries = m,
                    !.sequence_id = n]]

\* enqueue of an id the table does not hold, depending on a task it does hold.
\* A duplicate id returns the existing row and a missing dependency throws:
\* neither changes the table.
Enqueue(t, p, d, m) ==
  /\ ~Exists(t)
  /\ d # None => Exists(d)
  /\ \E n \in {1} \cup {row[u].sequence_id + 1 : u \in Tasks} :
       /\ IsNextSequenceId(n)
       /\ row' = [row EXCEPT ![t] = [NoRow EXCEPT !.status = "pending",
                    !.priority = p, !.depends_on = d, !.max_retries = m,
                    !.sequence_id = n]]

\* The whole loop as one step.  Its UPDATE does not look at the status, but what it
\* writes was decided for good when it read the row: a failed or blocked dependency
\* stays so, and no claim takes a task whose dependency did not complete.
ResolveBlockedDependencies ==
  row' = [t \in TaskId |->
            IF t \in Doomed THEN [row[t] EXCEPT !.status = "blocked"] ELSE row[t]]

\* The claiming UPDATE without AND status = 'pending'.
ClaimUnguarded(t, a) ==
  /\ Exists(t)
  /\ row' = [row EXCEPT ![t] = Claimed(@, a)]

\* The claiming UPDATE ... WHERE id = ? AND status = 'pending' that changes one row.
Claim(t, a) ==
  /\ row[t].status = "pending"
  /\ row' = [row EXCEPT ![t] = Claimed(@, a)]

Heartbeat(t) ==
  /\ row[t].status = "in-progress"
  /\ row' = [row EXCEPT ![t].heartbeat = 0]

\* complete, requeue and fail name the row by its id alone: its status and its
\* holder are not looked at.
Complete(t) == /\ Exists(t)
               /\ row' = [row EXCEPT ![t] = Completed(@)]

Requeue(t) == /\ Exists(t)
              /\ row' = [row EXCEPT ![t] = Requeued(@)]

Fail(t) == /\ Exists(t)
           /\ row' = [row EXCEPT ![t] = Failed(@)]

\* Time passes: every heartbeat gets older.
Age == row' = [t \in TaskId |->
                 [row[t] EXCEPT !.heartbeat =
                    IF @ = None \/ @ > StaleTimeout THEN @ ELSE @ + 1]]

QueueNext ==
  \/ \E t \in TaskId, p \in Priority, d \in TaskId \cup {None}, m \in MaxRetries :
       Enqueue(t, p, d, m)
  \/ ResolveBlockedDependencies
  \/ \E t \in TaskId, a \in Agent : DependencyMet(t) /\ Claim(t, a)
  \/ \E t \in TaskId : Heartbeat(t)
  \/ \E t \in TaskId : Complete(t)
  \/ \E t \in TaskId : Requeue(t)
  \/ \E t \in TaskId : Fail(t)
  \/ Age

QueueSpec == Init /\ [][QueueNext]_row
-----------------------------------------------------------------------------
(* Properties: they hold whatever statements the processes issue, in any   *)
(* order, as long as a claim comes with its dependency check.              *)

\* The table has the shape of its schema (CREATE TABLE tasks).
TypeOK == row \in [TaskId -> Row]

\* What the status says and what the lock columns say agree in every row: no
\* row is in progress without a holder and a heartbeat, none keeps them once the
\* run ended, and a failed row has used up its retries.  The statements that
\* write these columns never look at the row they write.
RowCoherent ==
  \A t \in TaskId :
    /\ row[t].status = "in-progress" <=> row[t].locked_by # None
    /\ row[t].locked_by = None <=> row[t].heartbeat = None
    /\ row[t].status = "failed" => row[t].retries > row[t].max_retries
    /\ ~Exists(t) => row[t] = NoRow

\* A task depends only on a task submitted before it, and no two tasks share a
\* sequence number: dependencies have no cycles, so the blocking loop ends and
\* claimNext's order is total.
DependencyOrder ==
  /\ \A t \in Tasks : row[t].depends_on # None =>
       /\ Exists(row[t].depends_on)
       /\ row[row[t].depends_on].sequence_id < row[t].sequence_id
  /\ \A t, u \in Tasks : t # u => row[t].sequence_id # row[u].sequence_id

\* blocked[n]: the tasks that are failed or blocked after n rounds of the
\* `while (changed)` loop of resolveBlockedDependencies.
LoopRounds ==
  LET blocked[n \in Nat] ==
        IF n = 0 THEN {t \in TaskId : row[t].status \in {"failed", "blocked"}}
        ELSE blocked[n - 1] \cup {t \in Pending : row[t].depends_on \in blocked[n - 1]}
  IN  blocked

\* The least closed set the model blocks is the set the loop reaches: every task
\* that can no longer start is blocked in one call, and no other.
BlockingReachesAll ==
  Doomed = LoopRounds[Cardinality(TaskId)] \cap Pending
=============================================================================
