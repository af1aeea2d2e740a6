----------------------------- MODULE Orchestrator -----------------------------
(***************************************************************************)
(* The daemon's poll loop (core/src/orchestrator.ts) over the shared task  *)
(* table, with what surrounds it: the agent run it awaits, the gatekeeper's *)
(* unattended approvals, the operator at the CLI or the dashboard, the stop *)
(* signal file, shutdown, crashes and restarts.                            *)
(*                                                                         *)
(* JavaScript runs one callback at a time, so inside one daemon nothing    *)
(* interleaves with a poll until it awaits the agent.  Other processes do  *)
(* interleave, between any two statements on the database: a poll is cut   *)
(* where it keeps a query's result and acts on it later.                   *)
(***************************************************************************)
EXTENDS TaskQueue

CONSTANTS
  Daemon,          \* the daemon processes that open this database
  Payload,         \* the guarded requests an agent run can make
  Gated,           \* tasks whose agent needs an unattended approval
  Reviewed,        \* tasks whose output the code reviewer can reject
  HeartbeatEvery,  \* heartbeat interval, in ticks
  OnTime,          \* whether the heartbeat timer always fires in time
  MaxBoots,        \* bound: starts of a daemon process
  MaxFaults        \* bound: crashes and statements that throw (SQLITE_BUSY)

ASSUME OrchestratorConstantsAssumption ==
  /\ Gated \subseteq TaskId
  /\ Reviewed \subseteq TaskId
  /\ HeartbeatEvery \in Nat
  /\ OnTime \in BOOLEAN
  /\ MaxBoots \in Nat
  /\ MaxFaults \in Nat
  /\ None \notin Daemon

VARIABLES
  phase,        \* where daemon d's poll is
  stopped,      \* Orchestrator.stopped
  exiting,      \* bootstrap's shutdownInProgress
  timer,        \* Orchestrator.timer is armed
  job,          \* the claimed task the poll is working on
  work,         \* result of the poll's last SELECT, still to be acted on
  decision,     \* what authorize() answered in the current agent run
  approval,     \* pending_approvals: status of a task's request
  stopFile,     \* the EMERGENCY_STOP file exists
  lateClaims,   \* history: claims made by d since the stop file was written
  boots, faults \* bounds of the model

daemonVars == <<phase, stopped, exiting, timer, job, work, decision>>
envVars    == <<approval, stopFile, boots, faults>>
vars       == <<row, daemonVars, envVars, lateClaims>>

Phase    == {"off", "idle", "schedule", "recover", "claim", "run", "settle"}
Decision == {"none", "granted", "denied", "pending"}

OTypeOK ==
  /\ row \in [TaskId -> Row]
  /\ phase \in [Daemon -> Phase]
  /\ stopped \in [Daemon -> BOOLEAN]
  /\ exiting \in [Daemon -> BOOLEAN]
  /\ timer \in [Daemon -> BOOLEAN]
  /\ job \in [Daemon -> TaskId \cup {None}]
  /\ work \in [Daemon -> SUBSET TaskId]
  /\ decision \in [Daemon -> Decision \cup {"rejected"}]
  /\ approval \in [TaskId -> [Payload -> Decision]]
  /\ stopFile \in BOOLEAN
  /\ lateClaims \in [Daemon -> Nat]
  /\ boots \in 0..MaxBoots
  /\ faults \in 0..MaxFaults

OInit ==
  /\ Init
  /\ phase = [d \in Daemon |-> "off"]
  /\ stopped = [d \in Daemon |-> FALSE]
  /\ exiting = [d \in Daemon |-> FALSE]
  /\ timer = [d \in Daemon |-> FALSE]
  /\ job = [d \in Daemon |-> None]
  /\ work = [d \in Daemon |-> {}]
  /\ decision = [d \in Daemon |-> "none"]
  /\ approval = [t \in TaskId |-> [q \in Payload |-> "none"]]
  /\ stopFile = FALSE
  /\ lateClaims = [d \in Daemon |-> 0]
  /\ boots = 0
  /\ faults = 0

-----------------------------------------------------------------------------
(* Starting and leaving a poll.                                            *)

Enter(d, from, to) == /\ phase[d] = from
                      /\ phase' = [phase EXCEPT ![d] = to]

\* The finally block with its scheduleNext left out.
LeavesPollUnscheduled(d) ==
  /\ phase' = [phase EXCEPT ![d] = "idle"]
  /\ timer' = timer
  /\ job' = [job EXCEPT ![d] = None]
  /\ work' = [work EXCEPT ![d] = {}]
  /\ decision' = [decision EXCEPT ![d] = "none"]
  /\ UNCHANGED <<stopped, exiting>>

\* The finally block: inFlight is cleared and scheduleNext arms the timer,
\* which it refuses to do once the daemon is stopped.
LeavePoll(d) ==
  /\ phase' = [phase EXCEPT ![d] = "idle"]
  /\ timer' = [timer EXCEPT ![d] = ~stopped[d]]
  /\ job' = [job EXCEPT ![d] = None]
  /\ work' = [work EXCEPT ![d] = {}]
  /\ decision' = [decision EXCEPT ![d] = "none"]
  /\ UNCHANGED <<stopped, exiting>>

\* Everything the process held in memory is gone.
Vanish(d) ==
  /\ phase' = [phase EXCEPT ![d] = "off"]
  /\ stopped' = [stopped EXCEPT ![d] = FALSE]
  /\ exiting' = [exiting EXCEPT ![d] = FALSE]
  /\ timer' = [timer EXCEPT ![d] = FALSE]
  /\ job' = [job EXCEPT ![d] = None]
  /\ work' = [work EXCEPT ![d] = {}]
  /\ decision' = [decision EXCEPT ![d] = "none"]

Stop(d) ==
  /\ stopped' = [stopped EXCEPT ![d] = TRUE]
  /\ timer' = [timer EXCEPT ![d] = FALSE]

Fault == faults < MaxFaults /\ faults' = faults + 1

-----------------------------------------------------------------------------
(* The poll.                                                               *)

\* A poll that does not look for the stop signal.
PollIgnoresStopFile(d) ==
  /\ timer[d] /\ ~stopped[d]
  /\ Enter(d, "idle", "schedule")
  /\ timer' = [timer EXCEPT ![d] = FALSE]
  /\ UNCHANGED <<row, stopped, exiting, job, work, decision, envVars, lateClaims>>

\* The timer fires and no stop signal is on disk.
PollBegin(d) ==
  /\ timer[d] /\ ~stopped[d] /\ ~stopFile
  /\ Enter(d, "idle", "schedule")
  /\ timer' = [timer EXCEPT ![d] = FALSE]
  /\ UNCHANGED <<row, stopped, exiting, job, work, decision, envVars, lateClaims>>

\* The timer fires and the stop signal is there: the poll stops the daemon.
PollStops(d) ==
  /\ phase[d] = "idle" /\ timer[d] /\ ~stopped[d] /\ stopFile
  /\ Stop(d)
  /\ UNCHANGED <<row, phase, exiting, job, work, decision, envVars, lateClaims>>

\* evaluateScheduledTasks enqueues one due run of a recurring task: a new
\* task with no dependency.
ScheduledEnqueue(d) ==
  /\ phase[d] = "schedule"
  /\ \E t \in TaskId, p \in Priority, m \in MaxRetries : Enqueue(t, p, None, m)
  /\ UNCHANGED <<daemonVars, envVars, lateClaims>>

\* recoverStaleTasks takes every row in progress, stale or not.
RecoverSelectsAll(d) ==
  /\ Enter(d, "schedule", "recover")
  /\ work' = [work EXCEPT ![d] = InProgress]
  /\ UNCHANGED <<row, stopped, exiting, timer, job, decision, envVars, lateClaims>>

\* recoverStaleTasks selects the rows in progress with a stale heartbeat ...
RecoverSelect(d) ==
  /\ Enter(d, "schedule", "recover")
  /\ work' = [work EXCEPT ![d] = {t \in InProgress : IsStale(t)}]
  /\ UNCHANGED <<row, stopped, exiting, timer, job, decision, envVars, lateClaims>>

\* ... and fails them one by one.
RecoverOne(d) ==
  /\ phase[d] = "recover"
  /\ \E t \in work[d] : /\ Fail(t)
                        /\ work' = [work EXCEPT ![d] = @ \ {t}]
  /\ UNCHANGED <<phase, stopped, exiting, timer, job, decision, envVars, lateClaims>>

\* claimNext without resolveBlockedDependencies.
ClaimSelectsOnly(d) ==
  /\ work[d] = {}
  /\ Enter(d, "recover", "claim")
  /\ work' = [work EXCEPT ![d] = Pending]
  /\ UNCHANGED <<row, stopped, exiting, timer, job, decision, envVars, lateClaims>>

\* claimNext blocks the doomed tasks, then selects the pending ones.
ClaimSelect(d) ==
  /\ work[d] = {}
  /\ Enter(d, "recover", "claim")
  /\ ResolveBlockedDependencies
  /\ work' = [work EXCEPT ![d] = Pending \ Doomed]
  /\ UNCHANGED <<stopped, exiting, timer, job, decision, envVars, lateClaims>>

\* The candidates of d's SELECT that its loop could claim now.
Claimable(d) == {t \in work[d] : row[t].status = "pending" /\ DependencyMet(t)}

CountLateClaim(d) ==
  lateClaims' = IF stopFile THEN [lateClaims EXCEPT ![d] = @ + 1] ELSE lateClaims

\* The claim loop with a claiming UPDATE that does not look at the status.
ClaimTakesAny(d) ==
  /\ Enter(d, "claim", "run")
  /\ \E t \in work[d], a \in Agent :
       /\ IsFirst(t, {u \in work[d] : DependencyMet(u)})
       /\ ClaimUnguarded(t, a)
       /\ job' = [job EXCEPT ![d] = t]
  /\ work' = [work EXCEPT ![d] = {}]
  /\ CountLateClaim(d)
  /\ UNCHANGED <<stopped, exiting, timer, decision, envVars>>

\* The claim loop without the depends_on check.
ClaimIgnoresDependencies(d) ==
  /\ Enter(d, "claim", "run")
  /\ \E t \in work[d], a \in Agent :
       /\ IsFirst(t, {u \in work[d] : row[u].status = "pending"})
       /\ Claim(t, a)
       /\ job' = [job EXCEPT ![d] = t]
  /\ work' = [work EXCEPT ![d] = {}]
  /\ CountLateClaim(d)
  /\ UNCHANGED <<stopped, exiting, timer, decision, envVars>>

\* The loop takes the first candidate that is still claimable.
ClaimOne(d) ==
  /\ Enter(d, "claim", "run")
  /\ \E t \in Claimable(d), a \in Agent :
       /\ IsFirst(t, Claimable(d))
       /\ Claim(t, a)
       /\ job' = [job EXCEPT ![d] = t]
  /\ work' = [work EXCEPT ![d] = {}]
  /\ CountLateClaim(d)
  /\ UNCHANGED <<stopped, exiting, timer, decision, envVars>>

\* claimNext returns null: nothing to do until the next poll.
ClaimNone(d) ==
  /\ phase[d] = "claim" /\ Claimable(d) = {}
  /\ LeavePoll(d)
  /\ UNCHANGED <<row, envVars, lateClaims>>

\* A statement throws before the claim: the cycle error is logged.
PollThrows(d) ==
  /\ phase[d] \in {"schedule", "recover", "claim"}
  /\ Fault
  /\ LeavePoll(d)
  /\ UNCHANGED <<row, approval, stopFile, boots, lateClaims>>
-----------------------------------------------------------------------------
(* The agent run.                                                          *)

\* The heartbeat interval fires while agent.process is awaited.
HeartbeatFires(d) ==
  /\ phase[d] = "run"
  /\ Heartbeat(job[d])
  /\ UNCHANGED <<daemonVars, envVars, lateClaims>>

\* A pending request taken for a granted one.
AuthorizePresumesGrant(d) ==
  /\ phase[d] = "run" /\ job[d] \in Gated /\ decision[d] = "none"
  /\ \E q \in Payload :
       LET known == approval[job[d]][q]
       IN  IF known = "none"
             THEN /\ approval' = [approval EXCEPT ![job[d]][q] = "pending"]
                  /\ decision' = [decision EXCEPT ![d] = "pending"]
             ELSE /\ decision' = [decision EXCEPT ![d] =
                        IF known = "pending" THEN "granted" ELSE known]
                  /\ UNCHANGED approval
  /\ UNCHANGED <<row, phase, stopped, exiting, timer, job, work, stopFile, boots, faults, lateClaims>>

\* The agent asks the gatekeeper before its guarded action.  The answer is that
\* of the row for exactly this request, or "pending" after inserting it; the
\* request holds what the run produced, so two runs may differ in it.
Authorize(d) ==
  /\ phase[d] = "run" /\ job[d] \in Gated /\ decision[d] = "none"
  /\ \E q \in Payload :
       LET known == approval[job[d]][q]
       IN  IF known = "none"
             THEN /\ approval' = [approval EXCEPT ![job[d]][q] = "pending"]
                  /\ decision' = [decision EXCEPT ![d] = "pending"]
             ELSE /\ decision' = [decision EXCEPT ![d] = known]
                  /\ UNCHANGED approval
  /\ UNCHANGED <<row, phase, stopped, exiting, timer, job, work, stopFile, boots, faults, lateClaims>>

\* The run got past its guarded action, if it has one.
Cleared(d) == decision[d] = IF job[d] \in Gated THEN "granted" ELSE "none"

\* The reviewer rejects the output while the agent awaits its reply: the project
\* manager puts the task back in the queue, under the feet of the run.
ReviewRejects(d) ==
  /\ phase[d] = "run" /\ job[d] \in Reviewed /\ Cleared(d)
  /\ Requeue(job[d])
  /\ decision' = [decision EXCEPT ![d] = "rejected"]
  /\ UNCHANGED <<phase, stopped, exiting, timer, job, work, envVars, lateClaims>>

\* A statement throws after the task was put back, so the verdict does not reach
\* the agent: it takes the review for one that failed, and completes the task.
RejectionLost(d) ==
  /\ phase[d] = "run" /\ decision[d] = "rejected"
  /\ Fault
  /\ Complete(job[d])
  /\ LeavePoll(d)
  /\ UNCHANGED <<approval, stopFile, boots, lateClaims>>

\* The poll's answer to the agent's result.  Exceptions count as failures.
AgentCompletes(d) ==
  /\ phase[d] = "run" /\ Cleared(d)
  /\ Complete(job[d])
  /\ LeavePoll(d)
  /\ UNCHANGED <<envVars, lateClaims>>

AgentPauses(d) ==
  /\ phase[d] = "run" /\ decision[d] = "pending"
  /\ Requeue(job[d])
  /\ LeavePoll(d)
  /\ UNCHANGED <<envVars, lateClaims>>

AgentFails(d) ==
  /\ phase[d] = "run"
  /\ Fail(job[d])
  /\ LeavePoll(d)
  /\ UNCHANGED <<envVars, lateClaims>>

\* The write of the result throws, and so does the fail() that answers it: the
\* row stays as it is.
SettleThrows(d) ==
  /\ phase[d] = "run"
  /\ Fault
  /\ LeavePoll(d)
  /\ UNCHANGED <<row, approval, stopFile, boots, lateClaims>>

\* fail() has updated the row when its read-back throws.  The call stands in the
\* very try whose catch calls fail(): the poll is not done with the row, which
\* other processes may see, and claim, meanwhile.
FailUnread(d) ==
  /\ Enter(d, "run", "settle")
  /\ Fault
  /\ Fail(job[d])
  /\ decision' = [decision EXCEPT ![d] = "none"]
  /\ UNCHANGED <<stopped, exiting, timer, job, work, approval, stopFile, boots, lateClaims>>

\* The catch charges the run a second time, whatever its row has become ...
FailAgain(d) ==
  /\ phase[d] = "settle"
  /\ Fail(job[d])
  /\ LeavePoll(d)
  /\ UNCHANGED <<envVars, lateClaims>>

\* ... or throws before it does (or there was no second call, because the first
\* one was the catch's own): the cycle error is logged.
FailAgainThrows(d) ==
  /\ phase[d] = "settle"
  /\ LeavePoll(d)
  /\ UNCHANGED <<row, envVars, lateClaims>>

-----------------------------------------------------------------------------
(* The process.                                                            *)

Boot(d) ==
  /\ boots < MaxBoots /\ boots' = boots + 1
  /\ Enter(d, "off", "idle")
  /\ timer' = [timer EXCEPT ![d] = TRUE]
  /\ UNCHANGED <<row, stopped, exiting, job, work, decision, approval, stopFile, faults, lateClaims>>

\* SIGINT or SIGTERM: stop(), if the daemon is not stopped already, then the
\* shutdown, during which a run may still settle.
Shutdown(d) ==
  /\ phase[d] \in {"idle", "run"} /\ ~exiting[d]
  /\ Stop(d)
  /\ exiting' = [exiting EXCEPT ![d] = TRUE]
  /\ UNCHANGED <<row, phase, job, work, decision, envVars, lateClaims>>

\* The shutdown ends in process.exit(0), whatever the run was doing.
Exit(d) ==
  /\ phase[d] \in {"idle", "run"} /\ exiting[d]
  /\ Vanish(d)
  /\ UNCHANGED <<row, envVars, lateClaims>>

Crash(d) ==
  /\ phase[d] # "off"
  /\ Fault
  /\ Vanish(d)
  /\ UNCHANGED <<row, approval, stopFile, boots, lateClaims>>

-----------------------------------------------------------------------------
(* The operator and the clock.                                             *)

Submit ==
  /\ \E t \in TaskId, p \in Priority, u \in TaskId \cup {None}, m \in MaxRetries :
       Enqueue(t, p, u, m)
  /\ UNCHANGED <<daemonVars, envVars, lateClaims>>

\* `jarvis approve`, or the dashboard: every pending request of the task is
\* decided at once.
OperatorDecides(t, answer) ==
  /\ \E q \in Payload : approval[t][q] = "pending"
  /\ approval' = [approval EXCEPT ![t] =
                    [q \in Payload |-> IF @[q] = "pending" THEN answer ELSE @[q]]]
  /\ UNCHANGED <<row, daemonVars, stopFile, boots, faults, lateClaims>>

\* `jarvis stop` writes the signal file; the operator deletes it to resume.
WriteStopFile ==
  /\ ~stopFile /\ stopFile' = TRUE
  /\ UNCHANGED <<row, daemonVars, approval, boots, faults, lateClaims>>

DeleteStopFile ==
  /\ stopFile /\ stopFile' = FALSE
  /\ lateClaims' = [d \in Daemon |-> 0]
  /\ UNCHANGED <<row, daemonVars, approval, boots, faults>>

\* With OnTime no heartbeat of a live run gets older than the timer's interval.
Tick ==
  /\ OnTime => \A d \in Daemon :
       phase[d] = "run" /\ row[job[d]].status = "in-progress"
         => row[job[d]].heartbeat < HeartbeatEvery
  /\ Age
  /\ UNCHANGED <<daemonVars, envVars, lateClaims>>

-----------------------------------------------------------------------------
PollStep(d) == \/ PollBegin(d) \/ PollStops(d)
               \/ RecoverSelect(d) \/ RecoverOne(d)
               \/ ClaimSelect(d) \/ ClaimOne(d) \/ ClaimNone(d)

RunStep(d) == \/ Authorize(d)
              \/ AgentCompletes(d) \/ AgentPauses(d) \/ AgentFails(d)
              \/ FailAgain(d)

DaemonNext(d) == \/ PollStep(d) \/ RunStep(d)
                 \/ ScheduledEnqueue(d) \/ PollThrows(d)
                 \/ HeartbeatFires(d) \/ ReviewRejects(d)
                 \/ RejectionLost(d) \/ SettleThrows(d)
                 \/ FailUnread(d) \/ FailAgainThrows(d)
                 \/ Boot(d) \/ Shutdown(d) \/ Exit(d) \/ Crash(d)

ONext == \/ \E d \in Daemon : DaemonNext(d)
         \/ Submit
         \/ \E t \in TaskId, a \in {"granted", "denied"} : OperatorDecides(t, a)
         \/ WriteStopFile \/ DeleteStopFile
         \/ Tick

Spec == OInit /\ [][ONext]_vars

\* Node's event loop fires an armed timer and runs a poll to its next await; an
\* agent run ends (model calls, prompts and commands have timeouts); a shutdown
\* once begun ends the process; time passes.
Fairness == /\ \A d \in Daemon : /\ WF_vars(PollStep(d)) /\ WF_vars(RunStep(d))
                                 /\ WF_vars(Exit(d))
            /\ WF_vars(Tick)

FairSpec == Spec /\ Fairness
-----------------------------------------------------------------------------
(* Properties.                                                             *)

\* The tasks a poll is about to recover are in progress with a stale heartbeat:
\* nobody is working on them (recoverStaleTasks acts on an earlier SELECT).
RecoveryListIsStale ==
  \A d \in Daemon : phase[d] = "recover" =>
    \A t \in work[d] : row[t].status = "in-progress" /\ IsStale(t)

\* queue/index.ts:331 of recoverStaleTasks: "Recovers crashed tasks that haven't
\* updated their heartbeats within the timeout period."
RecoversOnlyCrashed ==
  [][\A d \in Daemon : phase[d] = "recover" /\ phase'[d] = "recover" =>
       \A t \in work[d] \ work'[d] : row[t].status = "in-progress" /\ IsStale(t)]_vars

\* After `jarvis stop` a daemon claims at most the one task its poll was already
\* past the signal check for.
StopFileHonoured == \A d \in Daemon : lateClaims[d] <= 1

\* No two daemons run agents on the same task (the claiming UPDATE, the
\* heartbeats and the stale recovery together).
OneRunnerPerTask ==
  \A d, e \in Daemon : d # e /\ phase[d] = "run" /\ phase[e] = "run" => job[d] # job[e]

\* A row is held by the run working on it until the run gives it up: no recovery
\* and no other poll takes it from a live run.
RunHoldsItsRow ==
  \A d \in Daemon : phase[d] = "run" =>
    row[job[d]].status = IF decision[d] = "rejected" THEN "pending" ELSE "in-progress"

\* A task that ended stays ended: complete, fail and requeue name a row by its id
\* only, so nothing but the daemons' discipline keeps them off such rows.
EndedStaysEnded ==
  [][\A t \in TaskId : row[t].status \in {"completed", "failed", "blocked"}
                         => row'[t].status = row[t].status]_vars

\* An agent with a guarded action completes its task only after the operator
\* granted a request of that task.
CompletionNeedsGrant ==
  \A t \in Gated : row[t].status = "completed"
    => \E q \in Payload : approval[t][q] = "granted"

\* No daemon polls: stopped by the operator, or crashed.
Halted == stopFile \/ \A d \in Daemon : phase[d] = "off" \/ stopped[d]

AwaitsOperator == \E t \in TaskId, q \in Payload : approval[t][q] = "pending"

\* If a daemon is up in the end and the operator answers every request, every
\* submitted task completes, fails or is blocked, whatever crashes, lost writes,
\* rejections and refused approvals it meets: retries are bounded, a pause costs
\* no retry but ends with the answer, and blocked tasks are found.
EveryTaskEnds ==
  (<>[]~Halted /\ []<>~AwaitsOperator) =>
     \A t \in TaskId :
       row[t].status = "pending" ~> row[t].status \in {"completed", "failed", "blocked"}

\* If a daemon is up in the end, no row stays in progress for ever: its run
\* settles it or, once that run is gone, the stale recovery does.
NoRowStuckInProgress ==
  <>[]~Halted =>
     \A t \in TaskId : row[t].status = "in-progress" ~> row[t].status # "in-progress"

\* README.md:364 of a task that waits for an approval: "The task halts and waits
\* until an operator manually runs `jarvis approve <taskId>`".
PausedTaskWaits ==
  [][\A t \in TaskId, d \in Daemon :
       job'[d] = t /\ job[d] # t => \A q \in Payload : approval[t][q] # "pending"]_vars

\* cli/index.ts:257 on the stop signal: "To resume processing, please delete the
\* signal file at the path above."
DeletingSignalResumes ==
  \A t \in TaskId :
    (row[t].status = "pending" /\ DependencyMet(t) /\ ~stopFile)
      ~> \/ row[t].status # "pending" \/ stopFile
         \/ \A d \in Daemon : phase[d] = "off"

\* The refinement mapping: a task a live daemon works on is running, whatever its
\* row says; it is charged between a fail() that threw and the one that answers
\* it; a row in progress that no daemon works on is orphaned.
LifeState(t) ==
  IF \E d \in Daemon : phase[d] = "run" /\ job[d] = t THEN "running"
  ELSE IF \E d \in Daemon : phase[d] = "settle" /\ job[d] = t THEN "charged"
  ELSE CASE row[t].status = "pending"     -> "waiting"
         [] row[t].status = "in-progress" -> "orphaned"
         [] OTHER                         -> row[t].status

LifeOf == [t \in TaskId |-> [state |-> LifeState(t), lost  |-> row[t].retries,
                             limit |-> row[t].max_retries, needs |-> row[t].depends_on]]

Life == INSTANCE TaskLifecycle WITH Limits <- MaxRetries, task <- LifeOf

\* The poll loop over the shared table keeps the promises of TaskLifecycle: above
\* all, a lost run counts once, through crashes, throws and recoveries, and twice
\* only when the read-back of its fail() threw.
ImplementsLifecycle == Life!Spec

\* Every step of the system is, on the table, one statement of TaskQueue.
ImplementsQueue == QueueSpec
=============================================================================
