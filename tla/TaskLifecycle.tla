---------------------------- MODULE TaskLifecycle ----------------------------
(***************************************************************************)
(* What the queue and its daemon promise about a task, with no table, lock *)
(* or heartbeat: a task waits, runs, and ends once and for all; it runs    *)
(* only after the task it depends on completed; a failed run is repeated   *)
(* as often as the task's limit allows and no more.  A run counts once; it *)
(* may count twice only where the process that recorded its loss did not   *)
(* hear that it had.                                                       *)
(***************************************************************************)
EXTENDS Integers

CONSTANTS TaskId, None, Limits

VARIABLE task   \* task[t]: its state, the runs it has lost, and how it was submitted

State == {"absent", "waiting", "running", "charged", "orphaned",
          "completed", "failed", "blocked"}

Unknown == [state |-> "absent", lost |-> 0, limit |-> 0, needs |-> None]

Init == task = [t \in TaskId |-> Unknown]

In(t, s) == task[t].state = s

Move(t, to) == task' = [task EXCEPT ![t].state = to]

\* A task is submitted after the task it needs.
Submit(t, needs, limit) ==
  /\ In(t, "absent")
  /\ needs # None => ~In(needs, "absent")
  /\ task' = [task EXCEPT ![t] = [state |-> "waiting", lost |-> 0,
                                  limit |-> limit, needs |-> needs]]

\* Tasks that need no other, submitted in one pass over the schedules.
SubmitAll(S, limit) ==
  /\ \A t \in S : In(t, "absent")
  /\ task' = [t \in TaskId |->
                IF t \in S THEN [state |-> "waiting", lost |-> 0,
                                 limit |-> limit, needs |-> None]
                ELSE task[t]]

Ready(t) ==
  /\ In(t, "waiting")
  /\ task[t].needs # None => In(task[t].needs, "completed")

Start(t) == Ready(t) /\ Move(t, "running")

\* The process could not read what it claimed: nobody runs the task.
Strand(t) == Ready(t) /\ Move(t, "orphaned")

Finish(t) == In(t, "running") /\ Move(t, "completed")

\* The run waits for an approval, or is rejected and lost with its process.
Suspend(t) == In(t, "running") /\ Move(t, "waiting")

\* The process is gone or could not record the result: nobody runs the task.
Orphan(t) == In(t, "running") /\ Move(t, "orphaned")

\* A failed or orphaned run counts against the limit, and once more if its loss
\* was recorded without the process knowing.
Lose(t) ==
  /\ In(t, "running") \/ In(t, "orphaned") \/ In(t, "charged")
  /\ task' = [task EXCEPT
       ![t].lost = @ + 1,
       ![t].state = IF task[t].lost < task[t].limit THEN "waiting" ELSE "failed"]

\* The loss of the run is recorded, and the process could not read that it is.
Charge(t) ==
  /\ In(t, "running")
  /\ task' = [task EXCEPT ![t].lost = @ + 1, ![t].state = "charged"]

\* It is not recorded again.
Settle(t) ==
  /\ In(t, "charged")
  /\ Move(t, IF task[t].lost <= task[t].limit THEN "waiting" ELSE "failed")

\* Waiting tasks that will never be able to start.
Block(S) ==
  /\ \A t \in S : /\ In(t, "waiting") /\ task[t].needs # None
                  /\ \/ In(task[t].needs, "failed") \/ In(task[t].needs, "blocked")
                     \/ task[t].needs \in S
  /\ task' = [t \in TaskId |->
                IF t \in S THEN [task[t] EXCEPT !.state = "blocked"] ELSE task[t]]

Next ==
  \/ \E t \in TaskId, needs \in TaskId \cup {None}, limit \in Limits :
       Submit(t, needs, limit)
  \/ \E t \in TaskId : \/ Start(t) \/ Strand(t) \/ Finish(t) \/ Suspend(t)
                        \/ Orphan(t) \/ Lose(t) \/ Charge(t) \/ Settle(t)
  \/ \E S \in SUBSET TaskId : Block(S) \/ \E limit \in Limits : SubmitAll(S, limit)

Spec == Init /\ [][Next]_task
=============================================================================
