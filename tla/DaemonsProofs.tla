------------------------------ MODULE DaemonsProofs -----------------------------
(***************************************************************************)
(* The poll loop on the shared table.  First for every number of daemons,  *)
(* tasks and agents, and whatever the operator does.  Then what depends on *)
(* how many daemon processes open the database, which the queue does not   *)
(* limit: with one, its recovery and its runs never meet, because          *)
(* JavaScript runs a poll to its await, and every step of the system maps  *)
(* to a step of a task's life (TaskLifecycle), or to none.  With several,  *)
(* the rows stay with their runs as long as the heartbeats are on time and *)
(* no row in progress is left behind beside two of them.  Where it is,     *)
(* they do not (run recovery_race).                                        *)
(***************************************************************************)
EXTENDS Orchestrator, TaskQueueProofs

-----------------------------------------------------------------------------
(* Whatever the daemons and the operator do.                               *)

\* The types of the daemons' variables, without the table's.
DaemonsTyped ==
  /\ phase \in [Daemon -> Phase]
  /\ stopped \in [Daemon -> BOOLEAN]
  /\ exiting \in [Daemon -> BOOLEAN]
  /\ timer \in [Daemon -> BOOLEAN]
  /\ job \in [Daemon -> TaskId \cup {None}]
  /\ work \in [Daemon -> SUBSET TaskId]
  /\ decision \in [Daemon -> Decision \cup {"rejected"}]

\* The types of the rest: the operator's files and answers, and the counters.
SurroundingsTyped ==
  /\ approval \in [TaskId -> [Payload -> Decision]]
  /\ stopFile \in BOOLEAN
  /\ lateClaims \in [Daemon -> Nat]
  /\ boots \in 0..MaxBoots
  /\ faults \in 0..MaxFaults

\* The type invariant is the conjunction of its three parts.
LEMMA TypeParts == OTypeOK <=> TypeOK /\ DaemonsTyped /\ SurroundingsTyped
  BY DEF OTypeOK, TypeOK, DaemonsTyped, SurroundingsTyped

\* A poll that awaits an agent, or answers its result, has claimed a task.
RunHasJob == \A d \in Daemon : phase[d] \in {"run", "settle"} => job[d] \in TaskId

\* What the proofs need to know of every reachable state.
OInv == OTypeOK /\ RunHasJob

\* Every step of the system is one statement on the table, or leaves it alone.
LEMMA StepOnTable == OInv /\ [ONext]_vars => [QueueNext]_row
<1> SUFFICES ASSUME OInv, [ONext]_vars PROVE [QueueNext]_row
  OBVIOUS
<1>1. \A d \in Daemon : phase[d] \in {"run", "settle"} => job[d] \in TaskId
  BY DEF OInv, RunHasJob
<1>2. \A d \in Daemon : work[d] \subseteq TaskId
  BY DEF OInv, OTypeOK
<1>3. ASSUME NEW d \in Daemon, DaemonNext(d) PROVE [QueueNext]_row
  <2>1. CASE PollStep(d)
    BY <1>2, <2>1 DEF PollStep, PollBegin, PollStops, RecoverSelect, RecoverOne, ClaimSelect,
                      ClaimOne, ClaimNone, Claimable, QueueNext
  <2>2. CASE RunStep(d)
    BY <1>1, <2>2 DEF RunStep, Authorize, AgentCompletes, AgentPauses, AgentFails, FailAgain,
                      QueueNext
  <2>3. CASE ScheduledEnqueue(d)
    BY <2>3 DEF ScheduledEnqueue, QueueNext
  <2>4. CASE HeartbeatFires(d) \/ ReviewRejects(d)
    BY <1>1, <2>4 DEF HeartbeatFires, ReviewRejects, QueueNext
  <2>5. CASE PollThrows(d) \/ SettleThrows(d) \/ FailAgainThrows(d) \/ Boot(d) \/ Shutdown(d)
             \/ Exit(d) \/ Crash(d)
    BY <2>5 DEF PollThrows, SettleThrows, FailAgainThrows, Boot, Shutdown, Exit, Crash
  <2>6. CASE RejectionLost(d) \/ FailUnread(d)
    BY <1>1, <2>6 DEF RejectionLost, FailUnread, Enter, QueueNext
  <2> QED
    BY <1>3, <2>1, <2>2, <2>3, <2>4, <2>5, <2>6 DEF DaemonNext
<1>4. CASE Submit
  BY <1>4 DEF Submit, QueueNext
<1>5. CASE \/ \E t \in TaskId, a \in {"granted", "denied"} : OperatorDecides(t, a)
           \/ WriteStopFile \/ DeleteStopFile
  BY <1>5 DEF OperatorDecides, WriteStopFile, DeleteStopFile
<1>6. CASE Tick
  BY <1>6 DEF Tick, QueueNext
<1> QED
  BY <1>3, <1>4, <1>5, <1>6 DEF ONext, vars
-----------------------------------------------------------------------------
\* The actions that do not touch the operator's files, the answers and the bounds.
LEMMA SurroundingsStep == SurroundingsTyped /\ [ONext]_vars => SurroundingsTyped'
<1> SUFFICES ASSUME SurroundingsTyped, [ONext]_vars PROVE SurroundingsTyped'
  OBVIOUS
<1> USE OrchestratorConstantsAssumption DEF SurroundingsTyped, envVars
<1>1. ASSUME NEW d \in Daemon, DaemonNext(d) PROVE SurroundingsTyped'
  <2>1. CASE PollStep(d)
    BY <2>1 DEF PollStep, PollBegin, PollStops, RecoverSelect, RecoverOne, ClaimSelect,
                ClaimOne, ClaimNone, CountLateClaim
  <2>2. CASE Authorize(d)
    BY <2>2 DEF Authorize, Decision
  <2>3. CASE AgentCompletes(d) \/ AgentPauses(d) \/ AgentFails(d) \/ FailAgain(d)
    BY <2>3 DEF AgentCompletes, AgentPauses, AgentFails, FailAgain
  <2>4. CASE ScheduledEnqueue(d) \/ HeartbeatFires(d) \/ ReviewRejects(d) \/ FailAgainThrows(d)
    BY <2>4 DEF ScheduledEnqueue, HeartbeatFires, ReviewRejects, FailAgainThrows
  <2>5. CASE PollThrows(d) \/ SettleThrows(d) \/ RejectionLost(d) \/ FailUnread(d) \/ Crash(d)
    BY <2>5 DEF PollThrows, SettleThrows, RejectionLost, FailUnread, Crash, Fault
  <2>6. CASE Boot(d)
    BY <2>6 DEF Boot
  <2>7. CASE Shutdown(d) \/ Exit(d)
    BY <2>7 DEF Shutdown, Exit
  <2> QED
    BY <1>1, <2>1, <2>2, <2>3, <2>4, <2>5, <2>6, <2>7 DEF DaemonNext, RunStep
<1>2. CASE Submit \/ Tick
  BY <1>2 DEF Submit, Tick
<1>3. CASE \E t \in TaskId, a \in {"granted", "denied"} : OperatorDecides(t, a)
  BY <1>3 DEF OperatorDecides, Decision
<1>4. CASE WriteStopFile \/ DeleteStopFile
  <2>1. stopFile' \in BOOLEAN
    BY <1>4, Zenon DEF WriteStopFile, DeleteStopFile
  <2>2. lateClaims' \in [Daemon -> Nat] /\ UNCHANGED <<approval, boots, faults>>
    BY <1>4 DEF WriteStopFile, DeleteStopFile
  <2> QED
    BY <2>1, <2>2
<1> QED
  BY <1>1, <1>2, <1>3, <1>4 DEF ONext, vars

\* Leaving a poll, or losing the process, keeps the types and leaves no run behind.
LEMMA LeavingTyped ==
  ASSUME DaemonsTyped, RunHasJob, NEW d \in Daemon, LeavePoll(d) \/ Vanish(d)
  PROVE  DaemonsTyped' /\ RunHasJob'
<1>1. timer' \in [Daemon -> BOOLEAN] /\ stopped' \in [Daemon -> BOOLEAN]
  BY Zenon DEF DaemonsTyped, LeavePoll, Vanish
<1>2. exiting' \in [Daemon -> BOOLEAN]
  BY Zenon DEF DaemonsTyped, LeavePoll, Vanish
<1>3. /\ phase' \in [Daemon -> Phase] /\ job' \in [Daemon -> TaskId \cup {None}]
      /\ work' \in [Daemon -> SUBSET TaskId]
      /\ decision' \in [Daemon -> Decision \cup {"rejected"}]
      /\ phase'[d] \notin {"run", "settle"}
      /\ \A e \in Daemon \ {d} : phase'[e] = phase[e] /\ job'[e] = job[e]
  BY DEF DaemonsTyped, LeavePoll, Vanish, Phase, Decision
<1> QED
  BY <1>1, <1>2, <1>3 DEF DaemonsTyped, RunHasJob

\* Every action of a daemon keeps its variables in their types, and a poll enters
\* the agent run only with a task.
LEMMA DaemonStep ==
  DaemonsTyped /\ RunHasJob /\ SurroundingsTyped /\ [ONext]_vars => DaemonsTyped' /\ RunHasJob'
<1> SUFFICES ASSUME DaemonsTyped, RunHasJob, SurroundingsTyped, [ONext]_vars
             PROVE  DaemonsTyped' /\ RunHasJob'
  OBVIOUS
<1> USE DEF DaemonsTyped, RunHasJob, Phase, daemonVars
<1>1. ASSUME NEW d \in Daemon, DaemonNext(d) PROVE DaemonsTyped' /\ RunHasJob'
  <2>1. CASE PollBegin(d)
    BY <2>1 DEF PollBegin, Enter
  <2>2. CASE PollStops(d)
    BY <2>2 DEF PollStops, Stop
  <2>3. CASE RecoverSelect(d)
    BY <2>3 DEF RecoverSelect, Enter, InProgress
  <2>4. CASE RecoverOne(d)
    BY <2>4 DEF RecoverOne
  <2>5. CASE ClaimSelect(d)
    BY <2>5 DEF ClaimSelect, Enter, Pending
  <2>6. CASE ClaimOne(d)
    BY <2>6 DEF ClaimOne, Enter, Claimable
  <2>7. CASE ClaimNone(d) \/ PollThrows(d) \/ SettleThrows(d) \/ RejectionLost(d)
             \/ FailAgainThrows(d)
    BY <2>7, LeavingTyped DEF ClaimNone, PollThrows, SettleThrows, RejectionLost, FailAgainThrows
  <2>8. CASE AgentCompletes(d) \/ AgentPauses(d) \/ AgentFails(d) \/ FailAgain(d)
    BY <2>8, LeavingTyped DEF AgentCompletes, AgentPauses, AgentFails, FailAgain
  <2>9. CASE Authorize(d)
    BY <2>9 DEF Authorize, Decision, SurroundingsTyped
  <2>10. CASE HeartbeatFires(d) \/ ScheduledEnqueue(d)
    BY <2>10 DEF HeartbeatFires, ScheduledEnqueue
  <2>11. CASE ReviewRejects(d)
    BY <2>11 DEF ReviewRejects
  <2>12. CASE Boot(d)
    BY <2>12 DEF Boot, Enter
  <2>13. CASE Shutdown(d)
    BY <2>13 DEF Shutdown, Stop
  <2>14. CASE Exit(d) \/ Crash(d)
    BY <2>14, LeavingTyped DEF Exit, Crash
  <2>15. CASE FailUnread(d)
    BY <2>15 DEF FailUnread, Enter, Decision
  <2> QED
    BY <1>1, <2>1, <2>2, <2>3, <2>4, <2>5, <2>6, <2>7, <2>8, <2>9, <2>10, <2>11, <2>12,
       <2>13, <2>14, <2>15 DEF DaemonNext, PollStep, RunStep
<1>2. CASE Submit \/ Tick
  BY <1>2 DEF Submit, Tick
<1>3. CASE \/ \E t \in TaskId, a \in {"granted", "denied"} : OperatorDecides(t, a)
           \/ WriteStopFile \/ DeleteStopFile
  BY <1>3 DEF OperatorDecides, WriteStopFile, DeleteStopFile
<1> QED
  BY <1>1, <1>2, <1>3 DEF ONext, vars

\* OInv is inductive: a step keeps the types and leaves no run without its task.
LEMMA OInvStep == OInv /\ [ONext]_vars => OInv'
<1> SUFFICES ASSUME OInv, [ONext]_vars PROVE OInv'
  OBVIOUS
<1>1. TypeOK'
  <2>1. TypeOK /\ UNCHANGED row => TypeOK'
    BY DEF TypeOK
  <2> QED
    BY <2>1, StepOnTable, TypeStep, TypeParts DEF OInv
<1>2. DaemonsTyped' /\ RunHasJob' /\ SurroundingsTyped'
  BY SurroundingsStep, DaemonStep, TypeParts DEF OInv
<1> QED
  BY <1>1, <1>2 DEF OInv, OTypeOK, TypeOK, DaemonsTyped, SurroundingsTyped

\* Before the first start every variable has its type and no agent runs.
LEMMA OInvInit == OInit => OInv
<1> SUFFICES ASSUME OInit PROVE OInv
  OBVIOUS
<1>1. TypeOK
  BY DEF OInit, Init, TypeOK, Row, NoRow, Status
<1>2. DaemonsTyped
  BY Zenon DEF OInit, DaemonsTyped, Phase, Decision
<1>3. SurroundingsTyped
  <2>1. stopFile \in BOOLEAN /\ approval \in [TaskId -> [Payload -> Decision]]
    BY Zenon DEF OInit, Decision
  <2> QED
    BY <2>1, OrchestratorConstantsAssumption DEF OInit, SurroundingsTyped
<1>4. RunHasJob
  BY DEF OInit, RunHasJob
<1> QED
  BY <1>1, <1>2, <1>3, <1>4, TypeParts DEF OInv

\* OInv holds throughout, for any number of daemons.
LEMMA OInvHolds == Spec => []OInv
  BY OInvInit, OInvStep, PTL DEF Spec

\* The variables of the daemons and of what surrounds them keep their types.
THEOREM OTypeCorrect == Spec => []OTypeOK
  BY OInvHolds, PTL DEF OInv

\* Every behaviour of the daemons is, on the table, a behaviour of TaskQueue's
\* contract: the poll loop issues no claim without its dependency check and no
\* statement on a row it does not know.
THEOREM OrchestratorImplementsQueue == Spec => ImplementsQueue
<1>1. OInit => Init
  BY DEF OInit
<1> QED
  BY <1>1, OInvHolds, StepOnTable, PTL DEF Spec, ImplementsQueue, QueueSpec

\* So the table's invariants hold under any number of daemons and crashes.
THEOREM TableUnderDaemons == Spec => [](RowCoherent /\ DependencyOrder)
  BY OrchestratorImplementsQueue, RowsCoherent, DependenciesAcyclic, PTL DEF ImplementsQueue
-----------------------------------------------------------------------------
(* Completion needs the operator's grant.                                  *)

\* A grant the gatekeeper reported to a run is on record, also after a review
\* rejected what the run wrote, and no grant outlives the run it was reported to.
GrantsOnRecord ==
  \A d \in Daemon :
    /\ phase[d] # "run" => decision[d] = "none"
    /\ decision[d] = "granted" => \E q \in Payload : approval[job[d]][q] = "granted"
    /\ decision[d] = "rejected" /\ job[d] \in Gated =>
         \E q \in Payload : approval[job[d]][q] = "granted"

GInv == OInv /\ GrantsOnRecord /\ CompletionNeedsGrant

\* No action takes a grant back.
LEMMA GrantsStay ==
  ASSUME OInv, [ONext]_vars, NEW t \in TaskId, NEW q \in Payload, approval[t][q] = "granted"
  PROVE  approval'[t][q] = "granted"
<1>0. approval \in [TaskId -> [Payload -> Decision]]
  BY DEF OInv, OTypeOK
<1>1. CASE \E d \in Daemon : Authorize(d)
  BY <1>0, <1>1 DEF Authorize
<1>2. CASE \E u \in TaskId, a \in {"granted", "denied"} : OperatorDecides(u, a)
  BY <1>0, <1>2 DEF OperatorDecides
<1>3. CASE UNCHANGED approval
  BY <1>3
<1>4. \/ \E d \in Daemon : Authorize(d)
      \/ \E u \in TaskId, a \in {"granted", "denied"} : OperatorDecides(u, a)
      \/ UNCHANGED approval
  BY DEF ONext, vars, envVars, DaemonNext, PollStep, RunStep, PollBegin, PollStops,
         RecoverSelect, RecoverOne, ClaimSelect, ClaimOne, ClaimNone, AgentCompletes,
         AgentPauses, AgentFails, FailAgain, ScheduledEnqueue, PollThrows, HeartbeatFires,
         ReviewRejects, RejectionLost, SettleThrows, FailUnread, FailAgainThrows, Boot,
         Shutdown, Exit, Crash, Submit, WriteStopFile, DeleteStopFile, Tick
<1> QED
  BY <1>1, <1>2, <1>3, <1>4

\* A row that is not completed becomes so by a run that completes, and no other way.
LEMMA OnlyRunsComplete ==
  ASSUME OInv, [ONext]_vars, NEW t \in TaskId,
         row[t].status # "completed", row'[t].status = "completed"
  PROVE  \E d \in Daemon : (AgentCompletes(d) \/ RejectionLost(d)) /\ job[d] = t
<1>1. row[t] \in Row /\ row \in [TaskId -> Row]
  BY DEF OInv, OTypeOK
<1>2. ASSUME NEW u \in TaskId, NEW p, NEW e, NEW m, Enqueue(u, p, e, m) PROVE FALSE
  BY <1>1, <1>2 DEF Enqueue, NoRow
<1>3. ASSUME NEW u \in TaskId, Fail(u) \/ Requeue(u) PROVE FALSE
  <2>1. \A r \in Row : Failed(r).status # "completed" /\ Requeued(r).status # "completed"
    <3> SUFFICES ASSUME NEW r \in Row
                 PROVE  Failed(r).status # "completed" /\ Requeued(r).status # "completed"
      OBVIOUS
    <3>1. Released(r) \in Row
      BY DEF Row, Released
    <3> QED
      BY <3>1 DEF Failed, Requeued, Row
  <2> QED
    BY <1>1, <1>3, <2>1 DEF Fail, Requeue
<1>4. ASSUME NEW u \in TaskId, NEW a, Heartbeat(u) \/ Claim(u, a) PROVE FALSE
  <2>1. CASE Heartbeat(u)
    BY <1>1, <2>1 DEF Heartbeat, Row
  <2>2. CASE Claim(u, a)
    BY <1>1, <2>2 DEF Claim, Claimed, Row
  <2> QED
    BY <1>4, <2>1, <2>2
<1>5. ASSUME ResolveBlockedDependencies \/ Age PROVE FALSE
  BY <1>1, <1>5 DEF ResolveBlockedDependencies, Age, Row
<1>6. ASSUME NEW d \in Daemon, DaemonNext(d)
      PROVE  (AgentCompletes(d) \/ RejectionLost(d)) /\ job[d] = t
  <2>1. phase[d] \in {"run", "settle"} => job[d] \in TaskId
    BY DEF OInv, RunHasJob
  <2>2. work[d] \subseteq TaskId
    BY DEF OInv, OTypeOK
  <2>3. ~ PollStep(d)
    BY <1>3, <1>4, <1>5, <2>2
       DEF PollStep, PollBegin, PollStops, RecoverSelect, RecoverOne, ClaimSelect, ClaimOne,
           ClaimNone, Claimable
  <2>4. ~ (ScheduledEnqueue(d) \/ HeartbeatFires(d) \/ ReviewRejects(d) \/ AgentPauses(d)
           \/ AgentFails(d) \/ FailUnread(d) \/ FailAgain(d))
    BY <1>2, <1>3, <1>4, <2>1
       DEF ScheduledEnqueue, HeartbeatFires, ReviewRejects, AgentPauses, AgentFails,
           FailUnread, FailAgain, Enter
  <2>5. ~ (Authorize(d) \/ PollThrows(d) \/ SettleThrows(d) \/ FailAgainThrows(d) \/ Boot(d)
           \/ Shutdown(d) \/ Exit(d) \/ Crash(d))
    BY DEF Authorize, PollThrows, SettleThrows, FailAgainThrows, Boot, Shutdown, Exit, Crash
  <2>6. AgentCompletes(d) \/ RejectionLost(d)
    BY <1>6, <2>3, <2>4, <2>5 DEF DaemonNext, RunStep
  <2> QED
    BY <1>1, <2>1, <2>6 DEF AgentCompletes, RejectionLost, Complete
<1>7. ~ (Submit \/ Tick)
  BY <1>2, <1>5 DEF Submit, Tick
<1>8. ~ (\/ \E u \in TaskId, a \in {"granted", "denied"} : OperatorDecides(u, a)
         \/ WriteStopFile \/ DeleteStopFile)
  BY DEF OperatorDecides, WriteStopFile, DeleteStopFile
<1> QED
  BY <1>6, <1>7, <1>8 DEF ONext, vars

\* A run that goes on with a grant has it in pending_approvals, after every step.
LEMMA GrantsOnRecordStep == GInv /\ [ONext]_vars => GrantsOnRecord'
<1> SUFFICES ASSUME GInv, [ONext]_vars, NEW d \in Daemon
             PROVE  /\ phase'[d] # "run" => decision'[d] = "none"
                    /\ decision'[d] = "granted" =>
                         \E q \in Payload : approval'[job'[d]][q] = "granted"
                    /\ decision'[d] = "rejected" /\ job'[d] \in Gated =>
                         \E q \in Payload : approval'[job'[d]][q] = "granted"
  BY DEF GrantsOnRecord
<1>0. OInv /\ OTypeOK /\ GrantsOnRecord /\ RunHasJob
  BY DEF GInv, OInv
<1>1. phase[d] = "run" => job[d] \in TaskId
  BY <1>0 DEF RunHasJob
<1>2. decision[d] = "granted" \/ (decision[d] = "rejected" /\ job[d] \in Gated) =>
        \E q \in Payload : approval'[job[d]][q] = "granted"
  BY <1>0, <1>1, GrantsStay DEF GrantsOnRecord
<1>3. CASE decision'[d] = decision[d] /\ job'[d] = job[d] /\ phase'[d] = phase[d]
  BY <1>0, <1>2, <1>3 DEF GrantsOnRecord
<1>4. CASE decision'[d] = "none"
  BY <1>4
<1>5. CASE Authorize(d)
  BY <1>0, <1>1, <1>5 DEF Authorize, OTypeOK, Decision
<1>6. CASE ReviewRejects(d)
  BY <1>0, <1>2, <1>6 DEF ReviewRejects, Cleared, OTypeOK
<1>7. ASSUME NEW e \in Daemon, DaemonNext(e)
      PROVE  \/ decision'[d] = decision[d] /\ job'[d] = job[d] /\ phase'[d] = phase[d]
             \/ decision'[d] = "none"
             \/ Authorize(d)
             \/ ReviewRejects(d)
  <2>0. /\ phase \in [Daemon -> Phase] /\ job \in [Daemon -> TaskId \cup {None}]
        /\ decision \in [Daemon -> Decision \cup {"rejected"}]
        /\ phase[e] # "run" => decision[e] = "none"
    BY <1>0 DEF OTypeOK, GrantsOnRecord
  <2>1. CASE PollStep(e)
    BY <2>0, <2>1 DEF PollStep, PollBegin, PollStops, RecoverSelect, RecoverOne, ClaimSelect,
                      ClaimOne, ClaimNone, Enter, LeavePoll
  <2>2. CASE RunStep(e)
    BY <2>0, <2>2 DEF RunStep, Authorize, AgentCompletes, AgentPauses, AgentFails, FailAgain,
                      LeavePoll
  <2>3. CASE PollThrows(e) \/ SettleThrows(e) \/ RejectionLost(e) \/ FailUnread(e)
             \/ FailAgainThrows(e) \/ Exit(e) \/ Crash(e)
    BY <2>0, <2>3 DEF PollThrows, SettleThrows, RejectionLost, FailUnread, FailAgainThrows,
                      Exit, Crash, Enter, LeavePoll, Vanish
  <2>4. CASE ScheduledEnqueue(e) \/ HeartbeatFires(e) \/ Shutdown(e)
    BY <2>4 DEF ScheduledEnqueue, HeartbeatFires, Shutdown, daemonVars
  <2>5. CASE ReviewRejects(e)
    BY <2>0, <2>5 DEF ReviewRejects
  <2>6. CASE Boot(e)
    BY <2>0, <2>6 DEF Boot, Enter
  <2> QED
    BY <1>7, <2>1, <2>2, <2>3, <2>4, <2>5, <2>6 DEF DaemonNext
<1>8. CASE ~ \E e \in Daemon : DaemonNext(e)
  <2>1. UNCHANGED daemonVars
    BY <1>8 DEF ONext, vars, Submit, Tick, OperatorDecides, WriteStopFile, DeleteStopFile
  <2> QED
    BY <1>3, <2>1 DEF daemonVars
<1> QED
  BY <1>3, <1>4, <1>5, <1>6, <1>7, <1>8

\* A task that completes has its grant on record.
LEMMA CompletionStep == GInv /\ [ONext]_vars => CompletionNeedsGrant'
<1> SUFFICES ASSUME GInv, [ONext]_vars, NEW t \in Gated, row'[t].status = "completed"
             PROVE  \E q \in Payload : approval'[t][q] = "granted"
  BY DEF CompletionNeedsGrant
<1>0. OInv /\ t \in TaskId
  BY OrchestratorConstantsAssumption DEF GInv
<1>1. \E q \in Payload : approval[t][q] = "granted"
  <2>1. CASE row[t].status = "completed"
    BY <2>1 DEF GInv, CompletionNeedsGrant
  <2>2. CASE row[t].status # "completed"
    <3>1. PICK d \in Daemon : (AgentCompletes(d) \/ RejectionLost(d)) /\ job[d] = t
      BY <1>0, <2>2, OnlyRunsComplete
    <3> QED
      BY <3>1 DEF AgentCompletes, RejectionLost, Cleared, GInv, GrantsOnRecord
  <2> QED
    BY <2>1, <2>2
<1> QED
  BY <1>0, <1>1, GrantsStay

\* GInv is inductive.
LEMMA GInvStep == GInv /\ [ONext]_vars => GInv'
  BY OInvStep, GrantsOnRecordStep, CompletionStep DEF GInv

\* GInv holds before the first start.
LEMMA GInvInit == OInit => GInv
<1> SUFFICES ASSUME OInit PROVE GInv
  OBVIOUS
<1>1. GrantsOnRecord
  BY DEF OInit, GrantsOnRecord
<1>2. CompletionNeedsGrant
  BY OrchestratorConstantsAssumption DEF OInit, Init, NoRow, CompletionNeedsGrant
<1> QED
  BY <1>1, <1>2, OInvInit DEF GInv

\* An agent with a guarded action completes its task only with a grant of the
\* operator on record, whatever the daemons, crashes, re-runs and answers.
THEOREM CompletionIsGranted == Spec => []CompletionNeedsGrant
  BY GInvInit, GInvStep, PTL DEF GInv, Spec

-----------------------------------------------------------------------------
(* The stop signal.                                                        *)

\* The phases between the signal check and the claim.
PastCheck == {"schedule", "recover", "claim"}

\* Since the signal was written a daemon claimed nothing, or it claimed one task
\* and is not past the check again.
LateClaimsBounded ==
  \A d \in Daemon :
    lateClaims[d] = 0 \/ (lateClaims[d] = 1 /\ stopFile /\ phase[d] \notin PastCheck)

\* A daemon that claimed after the signal was written does not get past the check
\* again while the signal is there.
LEMMA LateClaimsStep == OInv /\ LateClaimsBounded /\ [ONext]_vars => LateClaimsBounded'
<1> SUFFICES ASSUME OInv, LateClaimsBounded, [ONext]_vars, NEW d \in Daemon
             PROVE  lateClaims'[d] = 0 \/ (lateClaims'[d] = 1 /\ stopFile' /\ phase'[d] \notin PastCheck)
  BY DEF LateClaimsBounded
<1>0. /\ phase \in [Daemon -> Phase] /\ lateClaims \in [Daemon -> Nat]
      /\ lateClaims[d] = 0 \/ (lateClaims[d] = 1 /\ stopFile /\ phase[d] \notin PastCheck)
  BY DEF OInv, OTypeOK, LateClaimsBounded
<1>1. ASSUME NEW e \in Daemon, DaemonNext(e)
      PROVE  lateClaims'[d] = 0 \/ (lateClaims'[d] = 1 /\ stopFile' /\ phase'[d] \notin PastCheck)
  <2>1. CASE ClaimOne(e)
    <3>1. phase[e] = "claim" /\ phase' = [phase EXCEPT ![e] = "run"] /\ UNCHANGED stopFile
      BY <2>1 DEF ClaimOne, Enter, envVars
    <3>2. lateClaims' = IF stopFile THEN [lateClaims EXCEPT ![e] = @ + 1] ELSE lateClaims
      BY <2>1 DEF ClaimOne, CountLateClaim
    <3>3. CASE e = d
      BY <1>0, <3>1, <3>2, <3>3 DEF PastCheck
    <3>4. CASE e # d
      BY <1>0, <3>1, <3>2, <3>4 DEF PastCheck
    <3> QED
      BY <3>3, <3>4
  <2>2. CASE PollBegin(e)
    BY <1>0, <2>2 DEF PollBegin, Enter, envVars, PastCheck
  <2>3. CASE ~ ClaimOne(e) /\ ~ PollBegin(e)
    <3>1. UNCHANGED <<lateClaims, stopFile>>
      BY <1>1, <2>3 DEF DaemonNext, PollStep, RunStep, envVars, PollStops, RecoverSelect,
           RecoverOne, ClaimSelect, ClaimNone, Authorize, AgentCompletes, AgentPauses,
           AgentFails, FailAgain, ScheduledEnqueue, PollThrows, HeartbeatFires, ReviewRejects,
           RejectionLost, SettleThrows, FailUnread, FailAgainThrows, Boot, Shutdown, Exit, Crash
    <3>2. phase[d] \notin PastCheck => phase'[d] \notin PastCheck
      BY <1>0, <1>1, <2>3 DEF DaemonNext, PollStep, RunStep, PollStops, RecoverSelect,
           RecoverOne, ClaimSelect, ClaimNone, Authorize, AgentCompletes, AgentPauses,
           AgentFails, FailAgain, ScheduledEnqueue, PollThrows, HeartbeatFires, ReviewRejects,
           RejectionLost, SettleThrows, FailUnread, FailAgainThrows, Boot, Shutdown, Exit,
           Crash, Enter, LeavePoll, Vanish, daemonVars, PastCheck
    <3> QED
      BY <1>0, <3>1, <3>2
  <2> QED
    BY <2>1, <2>2, <2>3
<1>2. CASE Submit \/ Tick \/ UNCHANGED vars
  BY <1>0, <1>2 DEF Submit, Tick, vars, daemonVars, envVars
<1>3. CASE \E u \in TaskId, a \in {"granted", "denied"} : OperatorDecides(u, a)
  BY <1>0, <1>3 DEF OperatorDecides, daemonVars
<1>4. CASE WriteStopFile
  BY <1>0, <1>4 DEF WriteStopFile, daemonVars
<1>5. CASE DeleteStopFile
  BY <1>5 DEF DeleteStopFile
<1> QED
  BY <1>1, <1>2, <1>3, <1>4, <1>5 DEF ONext

\* While the stop signal is on disk no daemon, restarted or not, claims more than
\* the one task its poll was already past the check for.
THEOREM StopSignalHonoured == Spec => []StopFileHonoured
<1>1. OInit => LateClaimsBounded
  BY DEF OInit, LateClaimsBounded
<1>2. LateClaimsBounded /\ OInv => StopFileHonoured
  BY DEF LateClaimsBounded, StopFileHonoured
<1> QED
  BY <1>1, <1>2, OInvHolds, LateClaimsStep, PTL DEF Spec

-----------------------------------------------------------------------------
(* One daemon, and several.                                                *)

SingleDaemon == \A d, e \in Daemon : d = e

\* What a fail() leaves: the row is pending as long as its retries last.
AfterFail(r) == r.status = IF r.retries <= r.max_retries THEN "pending" ELSE "failed"

\* The row of a fail() that threw is not touched until the catch has answered it.
FailStands == \A d \in Daemon : phase[d] = "settle" => AfterFail(row[job[d]])

\* The invariant: the poll's list of stale rows stays true until it is acted on,
\* and a run's row is the run's until the poll is done with it.
SInv == GInv /\ RecoveryListIsStale /\ RunHoldsItsRow /\ FailStands

\* The statements other processes issue touch no row that is in use.
LEMMA EnqueueElsewhere ==
  ASSUME TypeOK, NEW u \in TaskId, NEW p, NEW c, NEW m, Enqueue(u, p, c, m)
  PROVE  /\ row[u].status = "absent" /\ row'[u].status = "pending"
         /\ \A t \in TaskId \ {u} : row'[t] = row[t]
  BY DEF Enqueue, Exists, TypeOK, NoRow

\* A tick changes no status and no counter, and a stale heartbeat stays stale.
LEMMA AgeKeepsStatus ==
  ASSUME TypeOK, Age, NEW t \in TaskId
  PROVE  /\ row'[t].status = row[t].status /\ (AfterFail(row[t]) => AfterFail(row'[t]))
         /\ IsStale(t) => IsStale(t)'
<1>1. row[t] \in Row /\ StaleTimeout \in Nat
  BY QueueConstantsAssumption DEF TypeOK
<1>2. row'[t] = [row[t] EXCEPT !.heartbeat =
                   IF @ = None \/ @ > StaleTimeout THEN @ ELSE @ + 1]
  BY DEF Age
<1> QED
  BY <1>1, <1>2 DEF IsStale, AfterFail, Row

\* What a row's status is after each statement on it.
LEMMA StatusAfter ==
  ASSUME NEW r \in Row
  PROVE  /\ Completed(r).status = "completed"
         /\ Requeued(r).status = "pending"
         /\ Failed(r).status \in {"pending", "failed"} /\ AfterFail(Failed(r))
         /\ \A a \in Agent : Claimed(r, a).status = "in-progress"
<1>1. Released(r) \in Row /\ Released(r).retries = r.retries
      /\ Released(r).max_retries = r.max_retries
  BY DEF Row, Released
<1> QED
  BY <1>1 DEF Row, Completed, Requeued, Failed, AfterFail, Claimed

\* A row that failed fails again.
LEMMA FailedForGood ==
  ASSUME NEW r \in Row, AfterFail(r), r.status = "failed"
  PROVE  Failed(r).status = "failed"
<1>1. ASSUME NEW n \in Nat, NEW m \in Int, ~(n <= m) PROVE ~(n + 1 <= m)
  BY <1>1
<1>2. ~(r.retries + 1 <= r.max_retries)
  BY <1>1 DEF AfterFail, Row
<1>3. Released(r) \in Row
  BY DEF Row, Released
<1> QED
  BY <1>2, <1>3 DEF Failed, Row

\* What a daemon relies on between its steps: the list it recovers from, the row
\* it runs and the row it failed.
Relies(d) ==
  /\ phase[d] = "recover" => \A t \in work[d] : row[t].status = "in-progress" /\ IsStale(t)
  /\ phase[d] = "run" =>
       row[job[d]].status = IF decision[d] = "rejected" THEN "pending" ELSE "in-progress"
  /\ phase[d] = "settle" => AfterFail(row[job[d]])

\* A daemon's own steps keep that.
LEMMA OwnStepsKeep ==
  ASSUME GInv, NEW d \in Daemon, Relies(d), DaemonNext(d)
  PROVE  Relies(d)'
<1>0. /\ OInv /\ GrantsOnRecord /\ TypeOK /\ DaemonsTyped
      /\ phase[d] = "run" => job[d] \in TaskId
      /\ phase[d] = "recover" => \A t \in work[d] : row[t].status = "in-progress" /\ IsStale(t)
      /\ phase[d] = "run" => row[job[d]].status =
                               IF decision[d] = "rejected" THEN "pending" ELSE "in-progress"
      /\ row \in [TaskId -> Row]
  BY TypeParts DEF GInv, OInv, RunHasJob, Relies, TypeOK
<1> SUFFICES /\ phase'[d] = "recover" =>
                  \A t \in work'[d] : row'[t].status = "in-progress" /\ IsStale(t)'
             /\ phase'[d] = "run" =>
                  row'[job'[d]].status = IF decision'[d] = "rejected"
                                           THEN "pending" ELSE "in-progress"
             /\ phase'[d] = "settle" => AfterFail(row'[job'[d]])
  BY DEF Relies
<1>1. CASE PollBegin(d) \/ PollStops(d) \/ ClaimSelect(d) \/ Boot(d) \/ ScheduledEnqueue(d)
  <2>1. phase'[d] \in {"idle", "schedule", "claim"}
    BY <1>0, <1>1 DEF PollBegin, PollStops, ClaimSelect, Boot, ScheduledEnqueue, Enter,
                      daemonVars, DaemonsTyped
  <2> QED
    BY <2>1
<1>2. CASE RecoverSelect(d)
  BY <1>0, <1>2 DEF RecoverSelect, Enter, InProgress, IsStale, DaemonsTyped
<1>3. CASE RecoverOne(d)
  <2>1. PICK t \in work[d] : /\ row' = [row EXCEPT ![t] = Failed(@)]
                             /\ work' = [work EXCEPT ![d] = @ \ {t}]
    BY <1>3 DEF RecoverOne, Fail
  <2>2. phase[d] = "recover" /\ phase'[d] = "recover"
    BY <1>3 DEF RecoverOne
  <2> QED
    BY <1>0, <2>1, <2>2 DEF DaemonsTyped, IsStale
<1>4. CASE ClaimOne(d)
  <2>1. PICK t \in TaskId, a \in Agent :
               row' = [row EXCEPT ![t] = Claimed(@, a)] /\ job' = [job EXCEPT ![d] = t]
    BY <1>0, <1>4 DEF ClaimOne, Claimable, Claim, DaemonsTyped
  <2>2. phase'[d] = "run" /\ decision'[d] = decision[d] /\ phase[d] = "claim"
    BY <1>0, <1>4 DEF ClaimOne, Enter, DaemonsTyped
  <2>3. decision[d] # "rejected"
    BY <1>0, <2>2 DEF GrantsOnRecord
  <2> QED
    BY <1>0, <2>1, <2>2, <2>3, StatusAfter DEF DaemonsTyped
<1>5. CASE \/ ClaimNone(d) \/ PollThrows(d) \/ SettleThrows(d) \/ AgentCompletes(d)
           \/ RejectionLost(d) \/ AgentPauses(d) \/ AgentFails(d) \/ FailAgain(d)
           \/ FailAgainThrows(d) \/ Exit(d) \/ Crash(d)
  <2>1. phase'[d] \in {"idle", "off"}
    BY <1>0, <1>5 DEF ClaimNone, PollThrows, SettleThrows, AgentCompletes, RejectionLost,
                      AgentPauses, AgentFails, FailAgain, FailAgainThrows, Exit, Crash,
                      LeavePoll, Vanish, DaemonsTyped
  <2> QED
    BY <2>1
<1>6. CASE HeartbeatFires(d)
  BY <1>0, <1>6 DEF HeartbeatFires, Heartbeat, Row, daemonVars
<1>7. CASE Authorize(d)
  BY <1>0, <1>7 DEF Authorize, DaemonsTyped, Decision, OInv, OTypeOK
<1>8. CASE ReviewRejects(d)
  BY <1>0, <1>8, StatusAfter DEF ReviewRejects, Requeue, DaemonsTyped
<1>9. CASE Shutdown(d)
  BY <1>0, <1>9 DEF Shutdown, IsStale
<1>10. CASE FailUnread(d)
  <2>1. phase'[d] = "settle" /\ job' = job /\ job[d] \in TaskId
        /\ row' = [row EXCEPT ![job[d]] = Failed(@)]
    BY <1>0, <1>10 DEF FailUnread, Enter, Fail, DaemonsTyped
  <2> QED
    BY <1>0, <2>1, StatusAfter
<1> QED
  BY <1>1, <1>2, <1>3, <1>4, <1>5, <1>6, <1>7, <1>8, <1>9, <1>10
     DEF DaemonNext, PollStep, RunStep

\* The operator, the clock and the processes that submit tasks keep it for everybody.
LEMMA OthersKeep ==
  ASSUME GInv, NEW d \in Daemon, Relies(d),
         \/ Submit \/ Tick
         \/ \E t \in TaskId, a \in {"granted", "denied"} : OperatorDecides(t, a)
         \/ WriteStopFile \/ DeleteStopFile \/ UNCHANGED vars
  PROVE  Relies(d)'
<1>0. /\ TypeOK /\ DaemonsTyped
      /\ phase[d] \in {"run", "settle"} => job[d] \in TaskId
      /\ phase[d] = "recover" => \A t \in work[d] : row[t].status = "in-progress" /\ IsStale(t)
      /\ phase[d] = "run" => row[job[d]].status =
                               IF decision[d] = "rejected" THEN "pending" ELSE "in-progress"
      /\ phase[d] = "settle" => AfterFail(row[job[d]])
      /\ row \in [TaskId -> Row]
  BY TypeParts DEF GInv, OInv, RunHasJob, Relies, TypeOK
<1> SUFFICES /\ phase'[d] = "recover" =>
                  \A t \in work'[d] : row'[t].status = "in-progress" /\ IsStale(t)'
             /\ phase'[d] = "run" =>
                  row'[job'[d]].status = IF decision'[d] = "rejected"
                                           THEN "pending" ELSE "in-progress"
             /\ phase'[d] = "settle" => AfterFail(row'[job'[d]])
  BY DEF Relies
<1>2. CASE Submit
  <2>1. PICK u \in TaskId : /\ row[u].status = "absent"
                            /\ \A t \in TaskId \ {u} : row'[t] = row[t]
    BY <1>0, <1>2, EnqueueElsewhere DEF Submit
  <2>2. phase[d] = "settle" => row[job[d]].status # "absent"
    BY <1>0 DEF AfterFail
  <2> QED
    BY <1>0, <1>2, <2>1, <2>2 DEF Submit, daemonVars, IsStale, DaemonsTyped
<1>3. CASE Tick
  BY <1>0, <1>3, AgeKeepsStatus DEF Tick, daemonVars, DaemonsTyped
<1>4. CASE \/ \E t \in TaskId, a \in {"granted", "denied"} : OperatorDecides(t, a)
           \/ WriteStopFile \/ DeleteStopFile \/ UNCHANGED vars
  BY <1>0, <1>4 DEF OperatorDecides, WriteStopFile, DeleteStopFile, vars, daemonVars, IsStale
<1> QED
  BY <1>2, <1>3, <1>4

\* SInv is inductive: with one daemon, nothing comes between a SELECT of the
\* recovery and its last fail() that touches a row in progress.
LEMMA SInvStep == SingleDaemon /\ SInv /\ [ONext]_vars => SInv'
<1> SUFFICES ASSUME SingleDaemon, SInv, [ONext]_vars, NEW d \in Daemon
             PROVE  Relies(d)'
  BY GInvStep DEF SInv, RecoveryListIsStale, RunHoldsItsRow, FailStands, Relies
<1>1. GInv /\ Relies(d)
  BY DEF SInv, RecoveryListIsStale, RunHoldsItsRow, FailStands, Relies
<1>2. CASE DaemonNext(d)
  BY <1>1, <1>2, OwnStepsKeep
<1>3. CASE ~DaemonNext(d)
  BY <1>1, <1>3, OthersKeep DEF ONext, SingleDaemon
<1> QED
  BY <1>2, <1>3

\* SInv holds throughout with one daemon.
LEMMA SInvHolds == ASSUME SingleDaemon PROVE Spec => []SInv
<1>1. OInit => SInv
  <2> SUFFICES ASSUME OInit PROVE SInv
    OBVIOUS
  <2>1. \A d \in Daemon : phase[d] = "off"
    BY DEF OInit
  <2> QED
    BY <2>1, GInvInit DEF SInv, RecoveryListIsStale, RunHoldsItsRow, FailStands
<1>2. SInv /\ [ONext]_vars => SInv'
  BY SInvStep
<1> QED
  BY <1>1, <1>2, PTL DEF Spec

\* One daemon never fails a task that is not in progress with a stale heartbeat.
THEOREM RecoveryIsSound == ASSUME SingleDaemon PROVE Spec => []RecoveryListIsStale
  BY SInvHolds, PTL DEF SInv

\* One daemon's recovery never takes a row from its own run, however late the
\* heartbeats are.
THEOREM RunsHoldTheirRows == ASSUME SingleDaemon PROVE Spec => []RunHoldsItsRow
  BY SInvHolds, PTL DEF SInv

\* As long as the lists are stale and the runs hold their rows, no statement
\* puts an ended task back.
LEMMA EndsAreKept ==
  SInv /\ [ONext]_vars =>
    [\A t \in TaskId : row[t].status \in {"completed", "failed", "blocked"}
                        => row'[t].status = row[t].status]_vars
<1> SUFFICES ASSUME SInv, ONext, NEW t \in TaskId,
                    row[t].status \in {"completed", "failed", "blocked"}
             PROVE  row'[t].status = row[t].status
  OBVIOUS
<1>0. /\ TypeOK /\ row \in [TaskId -> Row]
      /\ \A d \in Daemon : work[d] \subseteq TaskId
      /\ \A d \in Daemon : phase[d] = "run" =>
           /\ job[d] \in TaskId
           /\ row[job[d]].status = IF decision[d] = "rejected" THEN "pending" ELSE "in-progress"
      /\ \A d \in Daemon : phase[d] = "recover" =>
           \A u \in work[d] : row[u].status = "in-progress"
      /\ \A d \in Daemon : phase[d] = "settle" => job[d] \in TaskId /\ AfterFail(row[job[d]])
  BY TypeParts DEF SInv, GInv, OInv, RunHasJob, RunHoldsItsRow, RecoveryListIsStale, FailStands,
                   TypeOK, DaemonsTyped
<1>1. ASSUME NEW d \in Daemon, DaemonNext(d) PROVE row'[t].status = row[t].status
  <2>1. CASE ScheduledEnqueue(d)
    BY <1>0, <2>1, EnqueueElsewhere DEF ScheduledEnqueue
  <2>2. CASE RecoverOne(d)
    BY <1>0, <2>2 DEF RecoverOne, Fail
  <2>3. CASE ClaimSelect(d)
    <3>1. t \notin Doomed
      BY DEF Doomed, Pending
    <3> QED
      BY <2>3, <3>1 DEF ClaimSelect, ResolveBlockedDependencies
  <2>4. CASE ClaimOne(d)
    BY <1>0, <2>4 DEF ClaimOne, Claim, Claimable
  <2>5. CASE AgentCompletes(d) \/ AgentPauses(d) \/ AgentFails(d) \/ ReviewRejects(d)
             \/ RejectionLost(d) \/ FailUnread(d) \/ HeartbeatFires(d)
    BY <1>0, <2>5 DEF AgentCompletes, AgentPauses, AgentFails, ReviewRejects, RejectionLost,
                      FailUnread, HeartbeatFires, Enter, Complete, Requeue, Fail, Heartbeat
  <2>6. CASE FailAgain(d)
    <3>1. row' = [row EXCEPT ![job[d]] = Failed(@)] /\ job[d] \in TaskId /\ AfterFail(row[job[d]])
      BY <1>0, <2>6 DEF FailAgain, Fail
    <3>2. CASE job[d] = t
      <4>1. row[t].status = "failed" /\ AfterFail(row[t]) /\ row'[t] = Failed(row[t])
        BY <1>0, <3>1, <3>2 DEF AfterFail
      <4> QED
        BY <1>0, <4>1, FailedForGood
    <3>3. CASE job[d] # t
      BY <1>0, <3>1, <3>3
    <3> QED
      BY <3>2, <3>3
  <2>7. CASE UNCHANGED row
    BY <2>7
  <2> QED
    BY <1>1, <2>1, <2>2, <2>3, <2>4, <2>5, <2>6, <2>7
       DEF DaemonNext, PollStep, RunStep, PollBegin, PollStops, RecoverSelect, ClaimNone,
           Authorize, PollThrows, SettleThrows, FailAgainThrows, Boot, Shutdown, Exit, Crash
<1>2. CASE Submit
  BY <1>0, <1>2, EnqueueElsewhere DEF Submit
<1>3. CASE Tick
  BY <1>0, <1>3, AgeKeepsStatus DEF Tick
<1> QED
  BY <1>1, <1>2, <1>3 DEF ONext, OperatorDecides, WriteStopFile, DeleteStopFile

\* An ended task is never put back by one daemon.
THEOREM OneDaemonKeepsEnds == ASSUME SingleDaemon PROVE Spec => EndedStaysEnded
  BY EndsAreKept, SInvHolds, PTL DEF Spec, EndedStaysEnded

-----------------------------------------------------------------------------
(* Several daemons.                                                        *)

Up(d) == phase[d] # "off"

Orphaned(t) ==
  /\ row[t].status = "in-progress"
  /\ \A d \in Daemon : ~(phase[d] = "run" /\ job[d] = t)

\* When a crash, an exit or a lost write left a row in progress behind, no more
\* than one daemon is up until it is recovered; and while the catch has a fail()
\* that threw to answer, no other daemon is up.
LossesMeetOneDaemon ==
  /\ \A t \in TaskId : Orphaned(t) => \A d, e \in Daemon : Up(d) /\ Up(e) => d = e
  /\ \A d, e \in Daemon : phase[d] = "settle" /\ Up(e) => d = e

\* Heartbeats are on time, and the project manager takes no task from its run.
Timely == OnTime /\ HeartbeatEvery <= StaleTimeout /\ Reviewed = {}

LiveHeartbeats ==
  \A d \in Daemon : phase[d] = "run" => row[job[d]].heartbeat \in 0..HeartbeatEvery

NeverRejected == \A d \in Daemon : decision[d] # "rejected"

\* The invariant of several daemons: no live run looks stale, so a recovery
\* finds orphans only, and two recoveries never have one in common.
JInv == SInv /\ OneRunnerPerTask /\ LiveHeartbeats /\ NeverRejected

LEMMA JParts ==
  ASSUME JInv
  PROVE  /\ GInv /\ OInv /\ TypeOK /\ DaemonsTyped /\ row \in [TaskId -> Row]
         /\ \A d \in Daemon : Relies(d) /\ decision[d] # "rejected"
         /\ \A d \in Daemon : phase[d] = "run" =>
              /\ job[d] \in TaskId /\ row[job[d]].status = "in-progress"
              /\ row[job[d]].heartbeat \in 0..HeartbeatEvery
         /\ \A d \in Daemon : phase[d] = "recover" =>
              \A t \in work[d] : /\ t \in TaskId /\ row[t].status = "in-progress"
                                 /\ IsStale(t)
<1>1. /\ GInv /\ OInv /\ TypeOK /\ DaemonsTyped /\ row \in [TaskId -> Row]
      /\ \A d \in Daemon : Relies(d) /\ decision[d] # "rejected"
  BY TypeParts DEF JInv, SInv, GInv, OInv, TypeOK, RecoveryListIsStale, RunHoldsItsRow,
                   FailStands, Relies, NeverRejected
<1> QED
  BY <1>1 DEF JInv, OInv, RunHasJob, Relies, LiveHeartbeats, DaemonsTyped

\* A daemon's step changes no other daemon.
LEMMA OthersUnmoved ==
  ASSUME DaemonsTyped, NEW d \in Daemon, NEW e \in Daemon, e # d, DaemonNext(d)
  PROVE  phase'[e] = phase[e] /\ job'[e] = job[e] /\ work'[e] = work[e]
         /\ decision'[e] = decision[e]
<1>1. CASE PollStep(d)
  BY <1>1 DEF PollStep, PollBegin, PollStops, RecoverSelect, RecoverOne, ClaimSelect,
              ClaimOne, ClaimNone, LeavePoll, Enter, DaemonsTyped
<1>2. CASE RunStep(d)
  BY <1>2 DEF RunStep, Authorize, AgentCompletes, AgentPauses, AgentFails, FailAgain,
              LeavePoll, DaemonsTyped
<1>3. CASE ScheduledEnqueue(d) \/ HeartbeatFires(d) \/ ReviewRejects(d) \/ Boot(d)
           \/ Shutdown(d)
  BY <1>3 DEF ScheduledEnqueue, HeartbeatFires, ReviewRejects, Boot, Shutdown, Enter,
              daemonVars, DaemonsTyped
<1>4. CASE PollThrows(d) \/ RejectionLost(d) \/ SettleThrows(d) \/ FailUnread(d)
           \/ FailAgainThrows(d) \/ Exit(d) \/ Crash(d)
  BY <1>4 DEF PollThrows, RejectionLost, SettleThrows, FailUnread, FailAgainThrows, Exit,
              Crash, Enter, LeavePoll, Vanish, DaemonsTyped
<1> QED
  BY <1>1, <1>2, <1>3, <1>4 DEF DaemonNext

\* A daemon that is down does nothing but start.
LEMMA DownOnlyStarts ==
  ASSUME NEW d \in Daemon, DaemonNext(d), ~Up(d)
  PROVE  Boot(d)
BY DEF Up, DaemonNext, PollStep, PollBegin, PollStops, RecoverSelect, RecoverOne, ClaimSelect,
       ClaimOne, ClaimNone, RunStep, Authorize, AgentCompletes, AgentPauses, AgentFails,
       FailAgain, ScheduledEnqueue, HeartbeatFires, ReviewRejects, Shutdown, PollThrows,
       RejectionLost, SettleThrows, FailUnread, FailAgainThrows, Exit, Crash, Enter

\* A row in progress is changed by the daemon that runs, failed or recovers it.
LEMMA RowsTouched ==
  ASSUME OInv, NEW d \in Daemon, DaemonNext(d), NEW t \in TaskId,
         row[t].status = "in-progress",
         ~(phase[d] \in {"run", "settle"} /\ job[d] = t),
         ~(phase[d] = "recover" /\ t \in work[d])
  PROVE  row'[t] = row[t]
<1>0. row \in [TaskId -> Row] /\ TypeOK
  BY TypeParts DEF OInv, OTypeOK
<1>1. CASE RecoverOne(d)
  BY <1>0, <1>1 DEF RecoverOne, Fail
<1>2. CASE ClaimSelect(d)
  BY <1>0, <1>2 DEF ClaimSelect, ResolveBlockedDependencies, Doomed, Pending
<1>3. CASE ClaimOne(d)
  BY <1>0, <1>3 DEF ClaimOne, Claim, Claimable
<1>4. CASE ScheduledEnqueue(d)
  BY <1>0, <1>4, EnqueueElsewhere DEF ScheduledEnqueue
<1>5. CASE \/ AgentCompletes(d) \/ AgentPauses(d) \/ AgentFails(d) \/ ReviewRejects(d)
           \/ RejectionLost(d) \/ FailUnread(d) \/ FailAgain(d) \/ HeartbeatFires(d)
  BY <1>0, <1>5
  DEF AgentCompletes, AgentPauses, AgentFails, ReviewRejects, RejectionLost, FailUnread,
      FailAgain, HeartbeatFires, Enter, Complete, Requeue, Fail, Heartbeat
<1>6. CASE UNCHANGED row
  BY <1>6
<1> QED
  BY <1>1, <1>2, <1>3, <1>4, <1>5, <1>6
  DEF DaemonNext, PollStep, RunStep, PollBegin, PollStops, RecoverSelect, ClaimNone,
      Authorize, PollThrows, SettleThrows, FailAgainThrows, Boot, Shutdown, Exit, Crash

\* Nobody else's list or run holds what a daemon runs or recovers.
LEMMA NothingInCommon ==
  ASSUME JInv, Timely, LossesMeetOneDaemon, NEW d \in Daemon, NEW e \in Daemon, e # d,
         NEW t \in TaskId,
         (phase[d] = "run" /\ job[d] = t) \/ (phase[d] = "recover" /\ t \in work[d])
  PROVE  /\ ~(phase[e] = "run" /\ job[e] = t)
         /\ ~(phase[e] = "recover" /\ t \in work[e])
<1>1. HeartbeatEvery \in Nat /\ StaleTimeout \in Nat /\ HeartbeatEvery <= StaleTimeout
      /\ \A n \in 0..HeartbeatEvery : n # None
  BY NoneAssumption, OrchestratorConstantsAssumption, QueueConstantsAssumption DEF Timely
<1>2. ASSUME NEW c \in Daemon, phase[c] = "run" PROVE ~IsStale(job[c])
  <2>1. row[job[c]].heartbeat \in 0..HeartbeatEvery
    BY <1>2, JParts
  <2> QED
    BY <1>1, <2>1 DEF IsStale
<1>3. ASSUME NEW c \in Daemon, phase[c] = "recover", t \in work[c]
      PROVE  Orphaned(t) /\ Up(c)
  <2>1. row[t].status = "in-progress" /\ IsStale(t)
    BY <1>3, JParts
  <2> QED
    BY <1>2, <1>3, <2>1 DEF Orphaned, Up
<1>4. CASE phase[d] = "run" /\ job[d] = t
  <2>1. ~Orphaned(t)
    BY <1>4 DEF Orphaned
  <2> QED
    BY <1>3, <1>4, <2>1 DEF JInv, OneRunnerPerTask
<1>5. CASE phase[d] = "recover" /\ t \in work[d]
  <2>1. ~(phase[e] = "run" /\ job[e] = t)
    BY <1>3, <1>5 DEF Orphaned
  <2>2. ASSUME phase[e] = "recover", t \in work[e] PROVE FALSE
    BY <1>3, <1>5, <2>2 DEF LossesMeetOneDaemon
  <2> QED
    BY <2>1, <2>2
<1> QED
  BY <1>4, <1>5

\* What a daemon's step does to the others: nothing they rely on.
LEMMA OthersSpared ==
  ASSUME JInv, Timely, LossesMeetOneDaemon, NEW d \in Daemon, NEW e \in Daemon, e # d,
         DaemonNext(d)
  PROVE  /\ phase'[e] = phase[e] /\ job'[e] = job[e] /\ work'[e] = work[e]
         /\ decision'[e] = decision[e]
         /\ phase[e] \in {"run", "settle"} => row'[job[e]] = row[job[e]]
         /\ phase[e] = "recover" => \A t \in work[e] : row'[t] = row[t]
<1>1. ASSUME NEW t \in TaskId, row[t].status = "in-progress",
             (phase[e] = "run" /\ job[e] = t) \/ (phase[e] = "recover" /\ t \in work[e])
      PROVE  row'[t] = row[t]
  <2>1. ~(phase[d] = "run" /\ job[d] = t) /\ ~(phase[d] = "recover" /\ t \in work[d])
    BY <1>1, NothingInCommon
  <2>2. phase[d] # "settle"
    BY <1>1 DEF LossesMeetOneDaemon, Up
  <2> QED
    BY <1>1, <2>1, <2>2, RowsTouched, JParts
<1>2. phase[e] = "settle" => row' = row
  BY DownOnlyStarts DEF LossesMeetOneDaemon, Boot
<1> QED
  BY <1>1, <1>2, OthersUnmoved, JParts

\* A run begins with a claim of a pending task and a fresh heartbeat, and no
\* step of its own makes the heartbeat older.
LEMMA OwnRun ==
  ASSUME JInv, Timely, NEW d \in Daemon, DaemonNext(d)
  PROVE  /\ decision'[d] # "rejected"
         /\ phase'[d] = "run" =>
              /\ row'[job'[d]].heartbeat \in 0..HeartbeatEvery
              /\ \/ phase[d] = "run" /\ job'[d] = job[d]
                 \/ job'[d] \in TaskId /\ row[job'[d]].status = "pending"
<1>0. /\ DaemonsTyped /\ row \in [TaskId -> Row] /\ HeartbeatEvery \in Nat
      /\ phase[d] = "run" => /\ job[d] \in TaskId
                             /\ row[job[d]].heartbeat \in 0..HeartbeatEvery
      /\ decision[d] # "rejected" /\ TypeOK
      /\ phase[d] # "run" => decision[d] = "none"
  BY JParts, OrchestratorConstantsAssumption DEF GInv, GrantsOnRecord
<1>1. CASE PollBegin(d) \/ PollStops(d) \/ ClaimSelect(d) \/ Boot(d) \/ ScheduledEnqueue(d)
           \/ RecoverSelect(d) \/ RecoverOne(d)
  <2>1. phase'[d] # "run" /\ decision'[d] = decision[d]
    BY <1>0, <1>1 DEF PollBegin, PollStops, ClaimSelect, Boot, ScheduledEnqueue,
                      RecoverSelect, RecoverOne, Enter, daemonVars, DaemonsTyped
  <2> QED
    BY <1>0, <2>1
<1>2. CASE ClaimNone(d) \/ PollThrows(d) \/ SettleThrows(d) \/ AgentCompletes(d)
           \/ RejectionLost(d) \/ AgentPauses(d) \/ AgentFails(d) \/ FailUnread(d)
           \/ FailAgain(d) \/ FailAgainThrows(d) \/ Exit(d) \/ Crash(d)
  <2>1. phase'[d] # "run" /\ decision'[d] = "none"
    BY <1>0, <1>2 DEF ClaimNone, PollThrows, SettleThrows, AgentCompletes, RejectionLost,
                      AgentPauses, AgentFails, FailUnread, FailAgain, FailAgainThrows, Exit,
                      Crash, Enter, LeavePoll, Vanish, DaemonsTyped
  <2> QED
    BY <2>1
<1>3. CASE ClaimOne(d)
  <2>1. PICK t \in TaskId, a \in Agent :
          /\ row' = [row EXCEPT ![t] = Claimed(@, a)] /\ job' = [job EXCEPT ![d] = t]
          /\ row[t].status = "pending" /\ decision' = decision
    BY <1>0, <1>3 DEF ClaimOne, Claimable, Claim, DaemonsTyped
  <2>2. Claimed(row[t], a).heartbeat = 0
    BY <1>0 DEF Claimed, Row
  <2> QED
    BY <1>0, <2>1, <2>2 DEF DaemonsTyped
<1>4. CASE HeartbeatFires(d)
  BY <1>0, <1>4 DEF HeartbeatFires, Heartbeat, Row, daemonVars
<1>5. CASE Authorize(d)
  <2>1. UNCHANGED <<row, phase, job>>
    BY <1>5 DEF Authorize
  <2>2. decision'[d] # "rejected"
    BY <1>0, <1>5, JParts DEF Authorize, DaemonsTyped, Decision, OInv, OTypeOK
  <2> QED
    BY <1>0, <2>1, <2>2
<1>6. ~ReviewRejects(d)
  BY DEF ReviewRejects, Timely
<1>7. CASE Shutdown(d)
  BY <1>0, <1>7 DEF Shutdown
<1> QED
  BY <1>1, <1>2, <1>3, <1>4, <1>5, <1>6, <1>7 DEF DaemonNext, PollStep, RunStep

\* A daemon's step.
LEMMA JDaemonStep ==
  ASSUME JInv, Timely, LossesMeetOneDaemon, NEW d \in Daemon, DaemonNext(d)
  PROVE  JInv'
<1>0. GInv' /\ row \in [TaskId -> Row]
  BY GInvStep, JParts DEF ONext
<1>1. ASSUME NEW e \in Daemon PROVE Relies(e)'
  <2>1. CASE e = d
    BY <2>1, OwnStepsKeep, JParts
  <2>2. CASE e # d
    <3>1. Relies(e)
      BY JParts
    <3> QED
      BY <2>2, <3>1, OthersSpared DEF Relies, IsStale
  <2> QED
    BY <2>1, <2>2
<1>2. SInv'
  BY <1>0, <1>1 DEF SInv, RecoveryListIsStale, RunHoldsItsRow, FailStands, Relies
<1>3. ASSUME NEW e \in Daemon
      PROVE  /\ decision'[e] # "rejected"
             /\ phase'[e] = "run" => row'[job'[e]].heartbeat \in 0..HeartbeatEvery
  BY OwnRun, OthersSpared, JParts
<1>4. ASSUME NEW e \in Daemon, NEW f \in Daemon, e # f, phase'[e] = "run", phase'[f] = "run",
             e = d, job'[e] = job'[f]
      PROVE  FALSE
  <2>1. phase[f] = "run" /\ job'[f] = job[f] /\ row[job[f]].status = "in-progress"
    BY <1>4, OthersSpared, JParts
  <2>2. phase[d] = "run" /\ job'[d] = job[d]
    BY <1>4, <2>1, OwnRun
  <2> QED
    BY <1>4, <2>1, <2>2 DEF JInv, OneRunnerPerTask
<1>5. OneRunnerPerTask'
  <2> SUFFICES ASSUME NEW e \in Daemon, NEW f \in Daemon, e # f, phase'[e] = "run",
                      phase'[f] = "run", job'[e] = job'[f]
               PROVE  FALSE
    BY DEF OneRunnerPerTask
  <2>1. e # d /\ f # d
    BY <1>4
  <2> QED
    BY <2>1, OthersSpared DEF JInv, OneRunnerPerTask
<1> QED
  BY <1>2, <1>3, <1>5 DEF JInv, LiveHeartbeats, NeverRejected

\* Everything else: no heartbeat of a live run gets older than the interval.
LEMMA JOtherStep ==
  ASSUME JInv, Timely, [ONext]_vars, ~(\E d \in Daemon : DaemonNext(d))
  PROVE  JInv'
<1>0. /\ GInv' /\ row \in [TaskId -> Row] /\ TypeOK /\ HeartbeatEvery \in Nat
  BY GInvStep, JParts, OrchestratorConstantsAssumption
<1>1. ASSUME NEW e \in Daemon PROVE Relies(e)'
  BY OthersKeep, JParts DEF ONext
<1>2. SInv'
  BY <1>0, <1>1 DEF SInv, RecoveryListIsStale, RunHoldsItsRow, FailStands, Relies
<1>3. UNCHANGED <<phase, job, decision>>
  BY DEF ONext, vars, daemonVars, Submit, OperatorDecides, WriteStopFile, DeleteStopFile,
         Tick
<1>4. ASSUME NEW e \in Daemon, phase[e] = "run"
      PROVE  row'[job[e]].heartbeat \in 0..HeartbeatEvery
  <2>0. /\ job[e] \in TaskId /\ row[job[e]].status = "in-progress"
        /\ row[job[e]].heartbeat \in 0..HeartbeatEvery
    BY <1>4, JParts
  <2>1. CASE Submit
    BY <1>0, <2>0, <2>1, EnqueueElsewhere DEF Submit
  <2>2. CASE Tick
    <3>1. row[job[e]].heartbeat < HeartbeatEvery
      BY <1>4, <2>0, <2>2 DEF Tick, Timely
    <3>2. row'[job[e]] = [row[job[e]] EXCEPT !.heartbeat =
                            IF @ = None \/ @ > StaleTimeout THEN @ ELSE @ + 1]
      BY <2>0, <2>2 DEF Tick, Age
    <3>3. row[job[e]] \in Row
      BY <1>0, <2>0
    <3>4. row'[job[e]].heartbeat \in {row[job[e]].heartbeat, row[job[e]].heartbeat + 1}
      BY <3>2, <3>3 DEF Row
    <3> QED
      BY <1>0, <2>0, <3>1, <3>4
  <2>3. CASE UNCHANGED row
    BY <2>0, <2>3
  <2> QED
    BY <2>1, <2>2, <2>3 DEF ONext, vars, OperatorDecides, WriteStopFile, DeleteStopFile
<1>5. OneRunnerPerTask' /\ LiveHeartbeats' /\ NeverRejected'
  BY <1>3, <1>4 DEF JInv, OneRunnerPerTask, LiveHeartbeats, NeverRejected
<1> QED
  BY <1>2, <1>5 DEF JInv

LEMMA JStart == OInit => JInv
<1> SUFFICES ASSUME OInit PROVE JInv
  OBVIOUS
<1>1. \A d \in Daemon : phase[d] = "off" /\ decision[d] = "none"
  BY DEF OInit
<1> QED
  BY <1>1, GInvInit
  DEF JInv, SInv, RecoveryListIsStale, RunHoldsItsRow, FailStands, OneRunnerPerTask,
      LiveHeartbeats, NeverRejected

LEMMA JHolds == ASSUME Timely PROVE Spec /\ []LossesMeetOneDaemon => []JInv
<1>1. JInv /\ LossesMeetOneDaemon /\ [ONext]_vars => JInv'
  BY JDaemonStep, JOtherStep
<1> QED
  BY <1>1, JStart, PTL DEF Spec

\* Any number of daemons, restarted and crashing as they may, never run the same
\* task, never take a row from a live run and never put an ended task back, when
\* heartbeats are on time, and two of them are never up beside a row in progress
\* left behind or a fail() the poll has still to answer (the claiming UPDATE,
\* recoverStaleTasks and the heartbeat timer).
THEOREM DaemonsKeepApart ==
  ASSUME Timely
  PROVE  Spec /\ []LossesMeetOneDaemon =>
           [](OneRunnerPerTask /\ RunHoldsItsRow) /\ EndedStaysEnded
<1>1. JInv => SInv /\ OneRunnerPerTask /\ RunHoldsItsRow
  BY DEF JInv, SInv
<1> QED
  BY <1>1, JHolds, EndsAreKept, PTL DEF Spec, EndedStaysEnded

\* No more than two starts, of which an exit may end one in the middle of a run,
\* and no fail() that throws.
Starts ==
  /\ boots = 0 => (\A d \in Daemon : ~Up(d)) /\ \A t \in TaskId : ~Orphaned(t)
  /\ boots = 1 => /\ \A d, e \in Daemon : Up(d) /\ Up(e) => d = e
                  /\ \A t \in TaskId : Orphaned(t) => \A d \in Daemon : ~Up(d)
  /\ \A d, e, f \in Daemon : Up(d) /\ Up(e) /\ Up(f) => d = e \/ d = f \/ e = f
  /\ \A d \in Daemon : phase[d] # "settle"
  /\ LossesMeetOneDaemon

\* Daemons come up one by one, each start counted.
LEMMA ComingUp ==
  ASSUME OInv, [ONext]_vars
  PROVE  \/ /\ boots' = boots
            /\ \A d \in Daemon : Up(d)' => Up(d)
         \/ \E b \in Daemon :
              /\ boots' = boots + 1 /\ boots' <= MaxBoots /\ row' = row /\ ~Up(b)
              /\ \A d \in Daemon : d # b => phase'[d] = phase[d]
              /\ job' = job /\ phase'[b] # "run"
<1>0. DaemonsTyped
  BY TypeParts DEF OInv
<1>1. ASSUME NEW d \in Daemon, Boot(d)
      PROVE  /\ boots' = boots + 1 /\ boots' <= MaxBoots /\ row' = row /\ ~Up(d)
             /\ \A e \in Daemon : e # d => phase'[e] = phase[e]
             /\ job' = job /\ phase'[d] # "run"
  <2>1. boots \in Nat /\ MaxBoots \in Nat
    BY OrchestratorConstantsAssumption DEF OInv, OTypeOK
  <2> QED
    BY <1>0, <1>1, <2>1 DEF Boot, Enter, Up, DaemonsTyped
<1>2. ASSUME NEW d \in Daemon, DaemonNext(d), ~Boot(d)
      PROVE  boots' = boots /\ \A e \in Daemon : Up(e)' => Up(e)
  <2>1. boots' = boots
    BY <1>2 DEF DaemonNext, PollStep, PollBegin, PollStops, RecoverSelect, RecoverOne,
                ClaimSelect, ClaimOne, ClaimNone, RunStep, Authorize, AgentCompletes,
                AgentPauses, AgentFails, FailAgain, ScheduledEnqueue, HeartbeatFires,
                ReviewRejects, Shutdown, PollThrows, RejectionLost, SettleThrows, FailUnread,
                FailAgainThrows, Exit, Crash, envVars
  <2>2. Up(d)
    BY <1>2, DownOnlyStarts
  <2> QED
    BY <1>0, <1>2, <2>1, <2>2, OthersUnmoved DEF Up
<1>3. CASE \/ Submit \/ Tick \/ WriteStopFile \/ DeleteStopFile \/ UNCHANGED vars
           \/ \E t \in TaskId, a \in {"granted", "denied"} : OperatorDecides(t, a)
  BY <1>3 DEF Submit, Tick, OperatorDecides, WriteStopFile, DeleteStopFile, vars,
              daemonVars, envVars, Up
<1>4. CASE \E d \in Daemon : DaemonNext(d)
  BY <1>1, <1>2, <1>4
<1> QED
  BY <1>3, <1>4 DEF ONext

\* Without faults a row in progress is left behind by a daemon that exits.
LEMMA ExitsOrphan ==
  ASSUME JInv, Timely, MaxFaults = 0, \A d \in Daemon : phase[d] # "settle", [ONext]_vars, NEW t \in TaskId,
         Orphaned(t)', ~Orphaned(t)
  PROVE  \E d \in Daemon : Up(d) /\ ~Up(d)' /\ boots' = boots
<1>0. /\ DaemonsTyped /\ row \in [TaskId -> Row] /\ OInv /\ TypeOK
      /\ \A d \in Daemon : phase[d] = "run" =>
           job[d] \in TaskId /\ row[job[d]].status = "in-progress"
  BY JParts
<1>1. ~(faults < MaxFaults) /\ \A d \in Daemon : phase[d] # "settle"
  BY DEF OInv, OTypeOK, JInv, SInv, GInv
<1>2. ASSUME NEW d \in Daemon, DaemonNext(d)
      PROVE  \E c \in Daemon : Up(c) /\ ~Up(c)' /\ boots' = boots
  <2>1. CASE Exit(d)
    BY <1>0, <2>1 DEF Exit, Vanish, Up, envVars, DaemonsTyped
  <2>2. ~(PollThrows(d) \/ RejectionLost(d) \/ SettleThrows(d) \/ FailUnread(d)
          \/ FailAgain(d) \/ FailAgainThrows(d) \/ Crash(d))
    BY <1>1 DEF PollThrows, RejectionLost, SettleThrows, FailUnread, FailAgain,
                FailAgainThrows, Crash, Fault
  <2>3. ASSUME phase[d] = "run", job[d] = t PROVE Exit(d)
    <3>1. CASE AgentCompletes(d) \/ AgentPauses(d) \/ AgentFails(d)
      <4>1. row'[t].status # "in-progress"
        BY <1>0, <2>3, <3>1, StatusAfter
        DEF AgentCompletes, AgentPauses, AgentFails, Complete, Requeue, Fail
      <4> QED
        BY <4>1 DEF Orphaned
    <3>2. CASE Authorize(d) \/ HeartbeatFires(d) \/ ReviewRejects(d) \/ Shutdown(d)
      <4>1. phase'[d] = "run" /\ job'[d] = t
        BY <2>3, <3>2 DEF Authorize, HeartbeatFires, ReviewRejects, Shutdown, daemonVars
      <4> QED
        BY <4>1 DEF Orphaned
    <3>3. ~(PollStep(d) \/ ScheduledEnqueue(d) \/ Boot(d))
      BY <2>3 DEF PollStep, PollBegin, PollStops, RecoverSelect, RecoverOne, ClaimSelect,
                  ClaimOne, ClaimNone, ScheduledEnqueue, Boot, Enter
    <3> QED
      BY <1>2, <2>2, <3>1, <3>2, <3>3 DEF DaemonNext, RunStep
  <2>4. ASSUME NEW e \in Daemon, e # d, phase[e] = "run", job[e] = t PROVE FALSE
    <3>1. phase'[e] = "run" /\ job'[e] = t
      BY <1>0, <1>2, <2>4, OthersUnmoved
    <3> QED
      BY <3>1 DEF Orphaned
  <2>5. ASSUME row[t].status # "in-progress" PROVE FALSE
    <3>1. CASE ClaimOne(d)
      <4>1. PICK u \in TaskId, a \in Agent :
              /\ row' = [row EXCEPT ![u] = Claimed(@, a)]
              /\ job' = [job EXCEPT ![d] = u] /\ phase'[d] = "run"
        BY <1>0, <3>1 DEF ClaimOne, Claimable, Claim, Enter, DaemonsTyped
      <4>2. u = t
        BY <1>0, <2>5, <4>1 DEF Orphaned
      <4> QED
        BY <1>0, <4>1, <4>2 DEF Orphaned, DaemonsTyped
    <3>2. CASE ~ClaimOne(d)
      <4>1. row'[t].status # "in-progress"
        <5>1. CASE RecoverOne(d)
          BY <1>0, <2>5, <5>1, StatusAfter DEF RecoverOne, Fail, DaemonsTyped
        <5>2. CASE ClaimSelect(d)
          BY <1>0, <2>5, <5>2 DEF ClaimSelect, ResolveBlockedDependencies, Row
        <5>3. CASE ScheduledEnqueue(d)
          BY <1>0, <2>5, <5>3, EnqueueElsewhere DEF ScheduledEnqueue
        <5>4. CASE AgentCompletes(d) \/ AgentPauses(d) \/ AgentFails(d) \/ ReviewRejects(d)
                   \/ HeartbeatFires(d)
          BY <1>0, <2>5, <5>4, StatusAfter
          DEF AgentCompletes, AgentPauses, AgentFails, ReviewRejects, HeartbeatFires,
              Complete, Requeue, Fail, Heartbeat
        <5>5. CASE UNCHANGED row
          BY <2>5, <5>5
        <5> QED
          BY <1>2, <2>2, <3>2, <5>1, <5>2, <5>3, <5>4, <5>5
          DEF DaemonNext, PollStep, RunStep, PollBegin, PollStops, RecoverSelect,
              ClaimNone, Authorize, Boot, Shutdown, Exit
      <4> QED
        BY <4>1 DEF Orphaned
    <3> QED
      BY <3>1, <3>2
  <2> QED
    BY <2>1, <2>3, <2>4, <2>5 DEF Orphaned
<1>3. ~(Submit \/ Tick)
  <2>1. ASSUME Submit PROVE FALSE
    BY <1>0, <2>1, EnqueueElsewhere DEF Submit, daemonVars, Orphaned
  <2>2. ASSUME Tick PROVE FALSE
    BY <1>0, <2>2, AgeKeepsStatus DEF Tick, daemonVars, Orphaned
  <2> QED
    BY <2>1, <2>2
<1>4. ~(\/ WriteStopFile \/ DeleteStopFile \/ UNCHANGED vars
        \/ \E u \in TaskId, a \in {"granted", "denied"} : OperatorDecides(u, a))
  BY DEF WriteStopFile, DeleteStopFile, OperatorDecides, vars, daemonVars, Orphaned
<1> QED
  BY <1>2, <1>3, <1>4 DEF ONext

\* Without faults no fail() throws.
LEMMA OnlyThrowsSettle ==
  ASSUME OInv, MaxFaults = 0, [ONext]_vars, NEW d \in Daemon, phase[d] # "settle"
  PROVE  phase'[d] # "settle"
<1>0. DaemonsTyped /\ ~(faults < MaxFaults)
  BY TypeParts DEF OInv, OTypeOK
<1>1. CASE DaemonNext(d)
  BY <1>0, <1>1
  DEF DaemonNext, PollStep, PollBegin, PollStops, RecoverSelect, RecoverOne, ClaimSelect,
      ClaimOne, ClaimNone, RunStep, Authorize, AgentCompletes, AgentPauses, AgentFails,
      FailAgain, ScheduledEnqueue, HeartbeatFires, ReviewRejects, Boot, Shutdown, PollThrows,
      RejectionLost, SettleThrows, FailUnread, FailAgainThrows, Exit, Crash, Enter, LeavePoll,
      Vanish, Fault, DaemonsTyped, daemonVars
<1>2. CASE \E e \in Daemon \ {d} : DaemonNext(e)
  BY <1>0, <1>2, OthersUnmoved
<1>3. CASE ~ \E e \in Daemon : DaemonNext(e)
  BY <1>3 DEF ONext, vars, daemonVars, Submit, Tick, OperatorDecides, WriteStopFile,
              DeleteStopFile
<1> QED
  BY <1>1, <1>2, <1>3

LEMMA StartsStep ==
  ASSUME Timely, MaxFaults = 0, MaxBoots <= 2, JInv, Starts, [ONext]_vars
  PROVE  Starts'
<1>0. OInv /\ boots \in Nat /\ (\A d \in Daemon : phase[d] # "settle")
  BY JParts DEF OInv, OTypeOK, Starts
<1>3. ASSUME NEW d \in Daemon PROVE phase'[d] # "settle"
  BY <1>0, OnlyThrowsSettle
<1>1. CASE boots' = boots /\ \A d \in Daemon : Up(d)' => Up(d)
  <2>1. ASSUME NEW t \in TaskId, Orphaned(t)'
        PROVE  \/ Orphaned(t)
               \/ \E d \in Daemon : Up(d) /\ ~Up(d)'
    BY <1>0, <2>1, ExitsOrphan
  <2>2. boots' = 0 => (\A d \in Daemon : ~Up(d)') /\ \A t \in TaskId : ~Orphaned(t)'
    BY <1>1, <2>1 DEF Starts
  <2>3. boots' = 1 => /\ \A d, e \in Daemon : Up(d)' /\ Up(e)' => d = e
                      /\ \A t \in TaskId : Orphaned(t)' => \A d \in Daemon : ~Up(d)'
    BY <1>1, <2>1 DEF Starts
  <2>4. \A d, e, f \in Daemon : Up(d)' /\ Up(e)' /\ Up(f)' => d = e \/ d = f \/ e = f
    BY <1>1 DEF Starts
  <2>5. ASSUME NEW t \in TaskId, Orphaned(t)', NEW d \in Daemon, NEW e \in Daemon,
               Up(d)', Up(e)'
        PROVE  d = e
    <3>1. CASE Orphaned(t)
      BY <1>1, <2>5, <3>1 DEF Starts, LossesMeetOneDaemon
    <3>2. CASE \E f \in Daemon : Up(f) /\ ~Up(f)'
      <4>1. PICK f \in Daemon : Up(f) /\ ~Up(f)'
        BY <3>2
      <4>2. f # d /\ f # e /\ Up(d) /\ Up(e)
        BY <1>1, <2>5, <4>1
      <4> QED
        BY <4>1, <4>2 DEF Starts
    <3> QED
      BY <2>1, <2>5, <3>1, <3>2
  <2> QED
    BY <1>3, <2>2, <2>3, <2>4, <2>5 DEF Starts, LossesMeetOneDaemon
<1>2. CASE \E b \in Daemon :
             /\ boots' = boots + 1 /\ boots' <= MaxBoots /\ row' = row /\ ~Up(b)
             /\ \A d \in Daemon : d # b => phase'[d] = phase[d]
             /\ job' = job /\ phase'[b] # "run"
  <2>1. PICK b \in Daemon :
          /\ boots' = boots + 1 /\ boots' <= MaxBoots /\ row' = row /\ ~Up(b)
          /\ \A d \in Daemon : d # b => phase'[d] = phase[d]
          /\ job' = job /\ phase'[b] # "run"
    BY <1>2
  <2>2. (boots = 0 /\ boots' = 1) \/ (boots = 1 /\ boots' = 2)
    <3>1. boots + 1 <= 2
      BY <1>0, <2>1, OrchestratorConstantsAssumption
    <3> QED
      BY <1>0, <2>1, <3>1
  <2>3. \A d \in Daemon : d # b => (Up(d)' <=> Up(d))
    BY <2>1 DEF Up
  <2>4. \A t \in TaskId : Orphaned(t)' => Orphaned(t)
    BY <2>1 DEF Orphaned, Up
  <2>5. boots' # 0 /\ (boots' = 1 => boots = 0) /\ (boots = 0 \/ boots = 1)
    BY <2>2
  <2>6. boots' = 1 => /\ \A d, e \in Daemon : Up(d)' /\ Up(e)' => d = e
                      /\ \A t \in TaskId : ~Orphaned(t)'
    BY <2>3, <2>4, <2>5 DEF Starts
  <2>7. \A d, e, f \in Daemon : Up(d)' /\ Up(e)' /\ Up(f)' => d = e \/ d = f \/ e = f
    BY <2>3, <2>5 DEF Starts
  <2>8. ASSUME NEW t \in TaskId, Orphaned(t)', NEW d \in Daemon, NEW e \in Daemon,
               Up(d)', Up(e)'
        PROVE  d = e
    <3>1. \A c \in Daemon : ~Up(c)
      BY <2>4, <2>5, <2>8 DEF Starts
    <3> QED
      BY <2>3, <2>8, <3>1
  <2> QED
    BY <1>3, <2>5, <2>6, <2>7, <2>8 DEF Starts, LossesMeetOneDaemon
<1> QED
  BY <1>0, <1>1, <1>2, ComingUp

\* Two starts without a fault leave no row in progress beside two daemons.
LEMMA TwoStarts ==
  ASSUME Timely, MaxFaults = 0, MaxBoots <= 2 PROVE Spec => []LossesMeetOneDaemon
<1>1. OInit => JInv /\ Starts
  <2> SUFFICES ASSUME OInit PROVE Starts
    BY JStart
  <2>1. /\ boots = 0 /\ \A d \in Daemon : ~Up(d) /\ phase[d] # "settle"
        /\ \A t \in TaskId : row[t].status = "absent"
    BY DEF OInit, Init, NoRow, Up
  <2> QED
    BY <2>1 DEF Starts, LossesMeetOneDaemon, Orphaned
<1>2. JInv /\ Starts /\ [ONext]_vars => JInv' /\ Starts'
  BY StartsStep, JDaemonStep, JOtherStep DEF Starts
<1>3. Starts => LossesMeetOneDaemon
  BY DEF Starts
<1> QED
  BY <1>1, <1>2, <1>3, PTL DEF Spec

\* Two daemons, each started once and neither crashing, never run the same
\* task, never take a row from a live run and never put an ended task back,
\* whatever their number of tasks, agents and ticks.
THEOREM TwoDaemonsKeepApart ==
  ASSUME Timely, MaxFaults = 0, MaxBoots <= 2
  PROVE  Spec => [](OneRunnerPerTask /\ RunHoldsItsRow) /\ EndedStaysEnded
  BY TwoStarts, DaemonsKeepApart, PTL

-----------------------------------------------------------------------------
(* Every step maps to a step of a task's life.                             *)

Running(t)  == \E d \in Daemon : phase[d] = "run" /\ job[d] = t
Settling(t) == \E d \in Daemon : phase[d] = "settle" /\ job[d] = t

\* The step changes nothing of who works on the task.
Stays(t) == (Running(t)' <=> Running(t)) /\ (Settling(t)' <=> Settling(t))

\* What the mapping reads of a row.
Shows(r, status, retries, limit, needs) ==
  /\ r.status = status /\ r.retries = retries
  /\ r.max_retries = limit /\ r.depends_on = needs

Alike(r, q) == Shows(r, q.status, q.retries, q.max_retries, q.depends_on)

\* The mapping of a row nobody works on.
Idle(s) == IF s = "pending" THEN "waiting" ELSE IF s = "in-progress" THEN "orphaned" ELSE s

\* What the refinement mapping shows of a task.
LEMMA LifeStates ==
  ASSUME NEW t \in TaskId
  PROVE  /\ Running(t) => LifeOf[t].state = "running"
         /\ ~Running(t) /\ Settling(t) => LifeOf[t].state = "charged"
         /\ ~Running(t) /\ ~Settling(t) => LifeOf[t].state = Idle(row[t].status)
         /\ LifeOf[t].lost = row[t].retries
         /\ LifeOf[t].limit = row[t].max_retries
         /\ LifeOf[t].needs = row[t].depends_on
  BY DEF LifeOf, LifeState, Running, Settling, Idle

\* A task whose row and whose run do not change keeps its place in life.
LEMMA Unmoved ==
  ASSUME NEW t \in TaskId, Alike(row'[t], row[t]), Stays(t)
  PROVE  LifeOf'[t] = LifeOf[t]
  BY DEF LifeOf, LifeState, Running, Settling, Stays, Alike, Shows

\* If no task's life changes, the mapped state does not.
LEMMA MoveNone ==
  ASSUME \A u \in TaskId : Alike(row'[u], row[u]) /\ Stays(u)
  PROVE  UNCHANGED LifeOf
<1>1. \A u \in TaskId : LifeOf'[u] = LifeOf[u]
  BY Unmoved
<1> QED
  BY <1>1 DEF LifeOf

\* If one task's life changes, the mapped state is updated at that task.
LEMMA MoveOne ==
  ASSUME NEW t \in TaskId, NEW x, LifeOf'[t] = x,
         \A u \in TaskId \ {t} : Alike(row'[u], row[u]) /\ Stays(u)
  PROVE  LifeOf' = [LifeOf EXCEPT ![t] = x]
<1>1. \A u \in TaskId \ {t} : LifeOf'[u] = LifeOf[u]
  BY Unmoved
<1> QED
  BY <1>1 DEF LifeOf

\* A counted loss of a task changes its counter and its state, and no other task.
LEMMA LossCounts ==
  ASSUME row \in [TaskId -> Row], NEW t \in TaskId, NEW s,
         LifeOf'[t] = [state |-> s, lost |-> row[t].retries + 1,
                       limit |-> row[t].max_retries, needs |-> row[t].depends_on],
         \A u \in TaskId \ {t} : Alike(row'[u], row[u]) /\ Stays(u)
  PROVE  LifeOf' = [LifeOf EXCEPT ![t].lost = @ + 1, ![t].state = s]
<1>1. LifeOf[t] = [state |-> LifeOf[t].state, lost |-> row[t].retries,
                   limit |-> row[t].max_retries, needs |-> row[t].depends_on]
  BY DEF LifeOf
<1>2. LifeOf'[t] = [LifeOf[t] EXCEPT !.lost = @ + 1, !.state = s]
  <2> DEFINE q == [LifeOf[t] EXCEPT !.lost = LifeOf[t].lost + 1]
  <2>1. PICK was : LifeOf[t] = [state |-> was, lost |-> row[t].retries,
                                limit |-> row[t].max_retries, needs |-> row[t].depends_on]
    BY <1>1
  <2>2. row[t].retries \in Nat
    BY DEF Row
  <2>3. q = [state |-> was, lost |-> row[t].retries + 1,
             limit |-> row[t].max_retries, needs |-> row[t].depends_on]
    BY <2>1, <2>2
  <2> HIDE DEF q
  <2>4. [q EXCEPT !.state = s] = LifeOf'[t]
    BY <2>3
  <2> QED
    BY <2>4 DEF q
<1>3. LifeOf' = [LifeOf EXCEPT ![t] = [LifeOf[t] EXCEPT !.lost = @ + 1, !.state = s]]
  BY <1>2, MoveOne
<1> QED
  BY <1>3 DEF LifeOf

\* The fields a statement leaves in the row it is given.
LEMMA FieldsAfter ==
  ASSUME NEW r \in Row
  PROVE  /\ Shows(Completed(r), "completed", r.retries, r.max_retries, r.depends_on)
         /\ Shows(Requeued(r), "pending", r.retries, r.max_retries, r.depends_on)
         /\ Shows(Failed(r), IF r.retries < r.max_retries THEN "pending" ELSE "failed",
                               r.retries + 1, r.max_retries, r.depends_on)
         /\ \A a \in Agent : Shows(Claimed(r, a), "in-progress", r.retries, r.max_retries, r.depends_on)
<1>1. /\ Released(r) \in Row
      /\ Released(r).retries = r.retries /\ Released(r).max_retries = r.max_retries
      /\ Released(r).depends_on = r.depends_on
  BY DEF Row, Released
<1>2. r.retries + 1 <= r.max_retries <=> r.retries < r.max_retries
  BY DEF Row
<1>3. Shows(Completed(r), "completed", r.retries, r.max_retries, r.depends_on)
  BY <1>1 DEF Shows, Completed, Row
<1>4. Shows(Requeued(r), "pending", r.retries, r.max_retries, r.depends_on)
  BY <1>1 DEF Shows, Requeued, Row
<1>5. Shows(Failed(r), IF r.retries < r.max_retries THEN "pending" ELSE "failed",
                          r.retries + 1, r.max_retries, r.depends_on)
  BY <1>1, <1>2 DEF Shows, Failed, Row
<1>6. ASSUME NEW a \in Agent
      PROVE  Shows(Claimed(r, a), "in-progress", r.retries, r.max_retries, r.depends_on)
  BY DEF Shows, Claimed, Row
<1> QED
  BY <1>3, <1>4, <1>5, <1>6

\* A submitted task starts its life waiting, behind a task that exists.
LEMMA EnqueueSubmits ==
  ASSUME SInv, NEW t \in TaskId, NEW p \in Priority, NEW c \in TaskId \cup {None},
         NEW m \in MaxRetries, Enqueue(t, p, c, m), UNCHANGED <<phase, job>>
  PROVE  Life!Submit(t, c, m)
<1>0. row \in [TaskId -> Row]
  BY DEF SInv, GInv, OInv, OTypeOK
<1>1. /\ row[t].status = "absent"
      /\ Shows(row'[t], "pending", 0, m, c)
      /\ \A u \in TaskId \ {t} : row'[u] = row[u]
  BY <1>0 DEF Enqueue, Exists, NoRow, Shows
<1>2. \A u \in TaskId : Running(u) \/ Settling(u) => row[u].status # "absent"
  BY DEF Running, Settling, SInv, RunHoldsItsRow, FailStands, AfterFail
<1>3. \A u \in TaskId : Stays(u)
  BY DEF Running, Settling, Stays
<1>4. ~Running(t) /\ ~Running(t)' /\ ~Settling(t) /\ ~Settling(t)'
  BY <1>1, <1>2, <1>3 DEF Stays
<1>5. LifeOf[t].state = "absent"
  BY <1>1, <1>4, LifeStates DEF Idle
<1>6. c # None => LifeOf[c].state # "absent"
  <2> SUFFICES ASSUME c # None PROVE LifeOf[c].state # "absent"
    OBVIOUS
  <2>1. c \in TaskId /\ row[c].status # "absent"
    BY DEF Enqueue, Exists
  <2> QED
    BY <2>1, LifeStates DEF Idle
<1>7. LifeOf'[t] = [state |-> "waiting", lost |-> 0, limit |-> m, needs |-> c]
  BY <1>1, <1>4 DEF LifeOf, LifeState, Running, Settling, Alike, Shows
<1>8. LifeOf' = [LifeOf EXCEPT ![t] =
                   [state |-> "waiting", lost |-> 0, limit |-> m, needs |-> c]]
  BY <1>1, <1>3, <1>7, MoveOne DEF Alike, Shows
<1> QED
  BY <1>5, <1>6, <1>8 DEF Life!Submit, Life!In

\* A run, charged or not, or an orphan that the queue fails is lost.
LEMMA FailLoses ==
  ASSUME row \in [TaskId -> Row], NEW t \in TaskId,
         LifeOf[t].state \in {"running", "orphaned", "charged"},
         row' = [row EXCEPT ![t] = Failed(@)], ~Running(t)', ~Settling(t)',
         \A u \in TaskId \ {t} : Stays(u)
  PROVE  Life!Lose(t)
<1> DEFINE then == IF row[t].retries < row[t].max_retries THEN "waiting" ELSE "failed"
<1>1. Shows(row'[t], IF row[t].retries < row[t].max_retries THEN "pending" ELSE "failed",
            row[t].retries + 1, row[t].max_retries, row[t].depends_on)
  BY FieldsAfter
<1>2. LifeOf'[t] = [state |-> then, lost |-> row[t].retries + 1,
                    limit |-> row[t].max_retries, needs |-> row[t].depends_on]
  BY <1>1 DEF LifeOf, LifeState, Running, Settling, Shows
<1>3. (IF LifeOf[t].lost < LifeOf[t].limit THEN "waiting" ELSE "failed") = then
  BY DEF LifeOf
<1> HIDE DEF then
<1>4. LifeOf' = [LifeOf EXCEPT ![t].lost = @ + 1, ![t].state = then]
  BY <1>2, LossCounts DEF Alike, Shows
<1> QED
  BY <1>3, <1>4 DEF Life!Lose, Life!In

\* A doomed task has its reason: its dependency failed, is blocked, or is doomed.
LEMMA DoomedForAReason ==
  ASSUME NEW t \in Doomed
  PROVE  /\ row[t].depends_on # None
         /\ \/ row[row[t].depends_on].status \in {"failed", "blocked"}
            \/ row[t].depends_on \in Doomed
<1>1. ClosedUnderBlocking(Doomed)
  <2> SUFFICES ASSUME NEW u \in Pending, row[u].depends_on # None,
                      \/ row[row[u].depends_on].status \in {"failed", "blocked"}
                      \/ row[u].depends_on \in Doomed,
                      NEW S \in SUBSET Pending, ClosedUnderBlocking(S)
               PROVE  u \in S
    BY DEF ClosedUnderBlocking, Doomed
  <2>1. row[u].depends_on \in Doomed => row[u].depends_on \in S
    BY DEF Doomed
  <2> QED
    BY <2>1 DEF ClosedUnderBlocking
<1> SUFFICES ASSUME ~ (/\ row[t].depends_on # None
                       /\ \/ row[row[t].depends_on].status \in {"failed", "blocked"}
                          \/ row[t].depends_on \in Doomed)
             PROVE  FALSE
  OBVIOUS
<1> DEFINE S == Doomed \ {t}
<1>2. S \in SUBSET Pending
  BY DEF Doomed
<1>3. ClosedUnderBlocking(S)
  BY <1>1 DEF ClosedUnderBlocking
<1> QED
  BY <1>2, <1>3 DEF Doomed

\* What the mapping relies on between daemons: a task has one run at most, no
\* poll is about to recover the task of a run, none that may block or claim tasks
\* meets one that was put back under its run, and none is there while the catch
\* of another has a fail() to answer.
Apart ==
  /\ OneRunnerPerTask
  /\ \A d, e \in Daemon : phase[d] \in {"recover", "claim"} /\ phase[e] = "run" =>
       /\ job[e] \notin work[d] \/ phase[d] = "claim"
       /\ row[job[e]].status = "in-progress"
  /\ \A d, e \in Daemon : phase[e] = "settle" /\ Up(d) => d = e

\* One daemon is apart from itself; several are, on the premises of JInv.
LEMMA AloneIsApart == SingleDaemon => Apart
  BY DEF SingleDaemon, Apart, OneRunnerPerTask

LEMMA TimelyAreApart == ASSUME Timely, LossesMeetOneDaemon, JInv PROVE Apart
<1>1. HeartbeatEvery \in Nat /\ StaleTimeout \in Nat /\ HeartbeatEvery <= StaleTimeout
      /\ \A n \in 0..HeartbeatEvery : n # None
  BY NoneAssumption, OrchestratorConstantsAssumption, QueueConstantsAssumption DEF Timely
<1>2. ASSUME NEW e \in Daemon, phase[e] = "run"
      PROVE  ~IsStale(job[e]) /\ row[job[e]].status = "in-progress"
  <2>1. row[job[e]].heartbeat \in 0..HeartbeatEvery /\ row[job[e]].status = "in-progress"
    BY <1>2, JParts
  <2> QED
    BY <1>1, <2>1 DEF IsStale
<1> QED
  BY <1>2, JParts DEF Apart, JInv, LossesMeetOneDaemon

\* Another daemon's run of the task.
RunElsewhere(d, t) == \E e \in Daemon \ {d} : phase[e] = "run" /\ job[e] = t

\* Who is running, before and after a step of d: the other daemons' runs stay.
LEMMA WhoRuns ==
  ASSUME Apart, DaemonsTyped, NEW d \in Daemon, DaemonNext(d)
  PROVE  /\ \A u \in TaskId :
              /\ Running(u) <=> (phase[d] = "run" /\ job[d] = u) \/ RunElsewhere(d, u)
              /\ Running(u)' <=> (phase'[d] = "run" /\ job'[d] = u) \/ RunElsewhere(d, u)
         /\ phase[d] = "run" => ~RunElsewhere(d, job[d])
<1>1. \A e \in Daemon \ {d} : phase'[e] = phase[e] /\ job'[e] = job[e]
  BY OthersUnmoved
<1>2. phase[d] = "run" => ~RunElsewhere(d, job[d])
  BY DEF Apart, OneRunnerPerTask, RunElsewhere
<1> QED
  BY <1>1, <1>2 DEF Running, RunElsewhere

\* Who is settling: the daemon itself, or, while it is down, another.
LEMMA WhoSettles ==
  ASSUME Apart, DaemonsTyped, NEW d \in Daemon, DaemonNext(d)
  PROVE  /\ Up(d) => \A u \in TaskId :
              /\ Settling(u) <=> (phase[d] = "settle" /\ job[d] = u)
              /\ Settling(u)' <=> (phase'[d] = "settle" /\ job'[d] = u)
         /\ ~Up(d) => \A u \in TaskId : Settling(u)' <=> Settling(u)
<1>1. \A e \in Daemon \ {d} : phase'[e] = phase[e] /\ job'[e] = job[e]
  BY OthersUnmoved
<1>2. Up(d) => \A e \in Daemon \ {d} : phase[e] # "settle"
  BY DEF Apart
<1>3. ~Up(d) => phase[d] # "settle" /\ phase'[d] # "settle"
  BY DownOnlyStarts DEF Up, Boot, Enter, DaemonsTyped
<1> QED
  BY <1>1, <1>2, <1>3 DEF Settling

\* While a daemon settles, no task runs.
LEMMA SettlesAlone ==
  ASSUME Apart, NEW d \in Daemon, phase[d] = "settle", NEW u \in TaskId
  PROVE  ~Running(u)
  BY DEF Apart, Running, Up

\* A poll that recovers, blocks or claims meets runs that hold their rows.
LEMMA RunsInProgress ==
  ASSUME Apart, NEW d \in Daemon, phase[d] \in {"recover", "claim"}, NEW u \in TaskId,
         Running(u)
  PROVE  /\ row[u].status = "in-progress"
         /\ phase[d] = "recover" => u \notin work[d]
  BY DEF Apart, Running

\* The poll's own steps.
LEMMA PollMaps ==
  ASSUME Apart, SInv, NEW d \in Daemon, PollStep(d)
  PROVE  Life!Next \/ UNCHANGED LifeOf
<1>0. /\ row \in [TaskId -> Row] /\ DaemonsTyped
      /\ phase[d] = "recover" => \A t \in work[d] : row[t].status = "in-progress"
      /\ work[d] \subseteq TaskId
  BY TypeParts DEF SInv, GInv, OInv, TypeOK, RecoveryListIsStale, DaemonsTyped
<1> DaemonNext(d)
  BY DEF DaemonNext
<1>5. \A u \in TaskId : ~Settling(u) /\ ~Settling(u)'
  <2>1. Up(d) /\ phase[d] # "settle" /\ phase'[d] # "settle"
    BY <1>0 DEF PollStep, PollBegin, PollStops, RecoverSelect, RecoverOne, ClaimSelect,
                ClaimOne, ClaimNone, Enter, LeavePoll, Up, DaemonsTyped
  <2> QED
    BY <1>0, <2>1, WhoSettles
<1>1. CASE PollBegin(d) \/ PollStops(d) \/ RecoverSelect(d) \/ ClaimNone(d)
  <2>1. phase[d] # "run" /\ phase'[d] # "run" /\ UNCHANGED row
    BY <1>0, <1>1 DEF PollBegin, PollStops, RecoverSelect, ClaimNone, Enter, LeavePoll,
                      DaemonsTyped
  <2>2. \A u \in TaskId : Stays(u)
    BY <1>0, <1>5, <2>1, WhoRuns DEF Stays
  <2> QED
    BY <2>1, <2>2, MoveNone DEF Alike, Shows
<1>2. CASE RecoverOne(d)
  <2>1. PICK t \in work[d] : row' = [row EXCEPT ![t] = Failed(@)]
    BY <1>2 DEF RecoverOne, Fail
  <2>2. /\ t \in TaskId /\ row[t].status = "in-progress"
        /\ phase[d] = "recover" /\ phase'[d] # "run"
    BY <1>0, <1>2 DEF RecoverOne
  <2>3. ~Running(t) /\ ~Running(t)' /\ \A u \in TaskId : Stays(u)
    BY <1>0, <1>5, <2>2, WhoRuns, RunsInProgress DEF Stays
  <2>4. LifeOf[t].state = "orphaned"
    BY <1>5, <2>2, <2>3, LifeStates DEF Idle
  <2>5. Life!Lose(t)
    BY <1>0, <1>5, <2>1, <2>2, <2>3, <2>4, FailLoses
  <2> QED
    BY <2>2, <2>5 DEF Life!Next
<1>3. CASE ClaimSelect(d)
  <2>1. /\ phase[d] = "recover" /\ phase'[d] # "run"
        /\ row' = [t \in TaskId |-> IF t \in Doomed THEN [row[t] EXCEPT !.status = "blocked"]
                                    ELSE row[t]]
    BY <1>0, <1>3 DEF ClaimSelect, Enter, ResolveBlockedDependencies, DaemonsTyped
  <2>0. \A u \in TaskId : Stays(u)
    BY <1>0, <1>5, <2>1, WhoRuns DEF Stays
  <2>2. ASSUME NEW u \in TaskId, row[u].status # "in-progress"
        PROVE  ~Running(u) /\ ~Running(u)' /\ ~Settling(u) /\ ~Settling(u)'
    BY <1>5, <2>0, <2>1, <2>2, RunsInProgress DEF Stays
  <2>3. ASSUME NEW t \in Doomed
        PROVE  /\ t \in TaskId /\ LifeOf[t].state = "waiting" /\ LifeOf[t].needs # None
               /\ \/ LifeOf[LifeOf[t].needs].state \in {"failed", "blocked"}
                  \/ LifeOf[t].needs \in Doomed
    <3>1. t \in TaskId /\ row[t].status = "pending" /\ row[t].depends_on \in TaskId \cup {None}
      BY <1>0 DEF Doomed, Pending, Row
    <3>2. LifeOf[t].state = "waiting" /\ LifeOf[t].needs = row[t].depends_on
      BY <2>2, <3>1, LifeStates DEF Idle
    <3>3. CASE row[t].depends_on \in Doomed
      BY <3>1, <3>2, <3>3, DoomedForAReason
    <3>4. CASE row[t].depends_on \notin Doomed
      <4>1. /\ row[t].depends_on \in TaskId
            /\ row[row[t].depends_on].status \in {"failed", "blocked"}
        BY <3>1, <3>4, DoomedForAReason
      <4>2. LifeOf[row[t].depends_on].state \in {"failed", "blocked"}
        BY <2>2, <4>1, LifeStates DEF Idle
      <4> QED
        BY <3>1, <3>2, <4>2, DoomedForAReason
    <3> QED
      BY <3>3, <3>4
  <2>4. LifeOf' = [t \in TaskId |-> IF t \in Doomed
                                      THEN [LifeOf[t] EXCEPT !.state = "blocked"] ELSE LifeOf[t]]
    <3>1. ASSUME NEW t \in TaskId, t \in Doomed
          PROVE  LifeOf'[t] = [LifeOf[t] EXCEPT !.state = "blocked"]
      <4>1. row'[t] = [row[t] EXCEPT !.status = "blocked"] /\ row[t] \in Row
        BY <1>0, <2>1, <3>1
      <4>2. Shows(row'[t], "blocked", row[t].retries, row[t].max_retries, row[t].depends_on)
        BY <4>1 DEF Shows, Row
      <4>3. /\ ~Running(t) /\ ~Running(t)' /\ row[t].status = "pending"
            /\ ~Settling(t) /\ ~Settling(t)'
        BY <2>2, <3>1 DEF Doomed, Pending
      <4>4. LifeOf[t] = [state |-> "waiting", lost |-> row[t].retries,
                         limit |-> row[t].max_retries, needs |-> row[t].depends_on]
        BY <4>3 DEF LifeOf, LifeState, Running, Settling
      <4>5. LifeOf'[t] = [state |-> "blocked", lost |-> row[t].retries,
                          limit |-> row[t].max_retries, needs |-> row[t].depends_on]
        BY <4>2, <4>3 DEF LifeOf, LifeState, Running, Settling, Shows
      <4> QED
        BY <4>4, <4>5
    <3>2. ASSUME NEW t \in TaskId, t \notin Doomed PROVE LifeOf'[t] = LifeOf[t]
      BY <2>0, <2>1, <3>2, Unmoved DEF Alike, Shows
    <3> QED
      BY <3>1, <3>2 DEF LifeOf
  <2>5. Doomed \in SUBSET TaskId
    BY DEF Doomed, Pending
  <2>6. Life!Block(Doomed)
    BY <2>3, <2>4 DEF Life!Block, Life!In
  <2> QED
    BY <2>5, <2>6 DEF Life!Next
<1>4. CASE ClaimOne(d)
  <2>1. PICK t \in Claimable(d), a \in Agent :
               Claim(t, a) /\ job' = [job EXCEPT ![d] = t]
    BY <1>4 DEF ClaimOne
  <2>2. /\ t \in TaskId /\ row[t].status = "pending" /\ DependencyMet(t)
        /\ phase[d] = "claim" /\ phase'[d] = "run" /\ job'[d] = t
    BY <1>0, <1>4, <2>1 DEF ClaimOne, Claimable, Enter, DaemonsTyped
  <2>3. /\ ~Running(t) /\ Running(t)'
        /\ \A u \in TaskId : Running(u) => row[u].status = "in-progress"
        /\ \A u \in TaskId \ {t} : Stays(u)
    BY <1>0, <1>5, <2>2, WhoRuns, RunsInProgress DEF Stays
  <2>4. LifeOf[t].state = "waiting"
    BY <1>5, <2>2, <2>3, LifeStates DEF Idle
  <2>5. LifeOf[t].needs # None => LifeOf[LifeOf[t].needs].state = "completed"
    <3> SUFFICES ASSUME row[t].depends_on # None
                 PROVE  LifeOf[row[t].depends_on].state = "completed"
      BY <2>2, LifeStates
    <3>1. row[t].depends_on \in TaskId /\ row[row[t].depends_on].status = "completed"
      BY <1>0, <2>2 DEF DependencyMet, Row
    <3> QED
      BY <1>5, <2>3, <3>1, LifeStates DEF Idle
  <2>6. row' = [row EXCEPT ![t] = Claimed(@, a)]
    BY <2>1 DEF Claim
  <2>7. Shows(row'[t], "in-progress", row[t].retries, row[t].max_retries, row[t].depends_on)
    BY <1>0, <2>2, <2>6, FieldsAfter
  <2>8. LifeOf'[t] = [LifeOf[t] EXCEPT !.state = "running"]
    <3>1. LifeOf[t] = [state |-> "waiting", lost |-> row[t].retries,
                       limit |-> row[t].max_retries, needs |-> row[t].depends_on]
      BY <1>5, <2>2, <2>3 DEF LifeOf, LifeState, Running, Settling
    <3>2. LifeOf'[t] = [state |-> "running", lost |-> row[t].retries,
                        limit |-> row[t].max_retries, needs |-> row[t].depends_on]
      BY <2>2, <2>3, <2>7 DEF LifeOf, LifeState, Running, Shows
    <3> QED
      BY <3>1, <3>2
  <2>9. LifeOf' = [LifeOf EXCEPT ![t] = [LifeOf[t] EXCEPT !.state = "running"]]
    BY <1>0, <2>2, <2>3, <2>6, <2>8, MoveOne DEF Alike, Shows
  <2>10. Life!Start(t)
    BY <2>2, <2>4, <2>5, <2>9 DEF Life!Start, Life!Ready, Life!In, Life!Move, LifeOf
  <2> QED
    BY <2>2, <2>10 DEF Life!Next
<1> QED
  BY <1>1, <1>2, <1>3, <1>4 DEF PollStep

\* A run that ends otherwise than by failing: its task's state becomes what its
\* row says, and nothing else of the task changes.
LEMMA RunEnds ==
  ASSUME Apart, DaemonsTyped, NEW d \in Daemon, DaemonNext(d),
         phase[d] = "run", phase'[d] \notin {"run", "settle"},
         NEW t \in TaskId, t = job[d], NEW s,
         Shows(row'[t], s, row[t].retries, row[t].max_retries, row[t].depends_on),
         \A u \in TaskId \ {t} : row'[u] = row[u]
  PROVE  Life!In(t, "running") /\ LifeOf' = [LifeOf EXCEPT ![t].state = Idle(s)]
<1>1. /\ Running(t) /\ ~Running(t)' /\ ~Settling(t)'
      /\ \A u \in TaskId \ {t} : Stays(u)
  BY WhoRuns, WhoSettles DEF Stays, Up
<1>2. LifeOf[t] = [state |-> "running", lost |-> row[t].retries,
                   limit |-> row[t].max_retries, needs |-> row[t].depends_on]
  BY <1>1 DEF LifeOf, LifeState, Running
<1>3. LifeOf'[t] = [state |-> Idle(s), lost |-> row[t].retries,
                    limit |-> row[t].max_retries, needs |-> row[t].depends_on]
  BY <1>1 DEF LifeOf, LifeState, Running, Settling, Shows, Idle
<1>4. LifeOf'[t] = [LifeOf[t] EXCEPT !.state = Idle(s)]
  BY <1>2, <1>3
<1>5. LifeOf' = [LifeOf EXCEPT ![t] = [LifeOf[t] EXCEPT !.state = Idle(s)]]
  BY <1>1, <1>4, MoveOne DEF Alike, Shows
<1> QED
  BY <1>2, <1>5 DEF Life!In, LifeOf

\* The steps of an agent run.
LEMMA RunMaps ==
  ASSUME Apart, SInv, NEW d \in Daemon,
         \/ RunStep(d) /\ ~FailAgain(d)
         \/ HeartbeatFires(d) \/ ReviewRejects(d) \/ RejectionLost(d) \/ FailUnread(d)
  PROVE  Life!Next \/ UNCHANGED LifeOf
<1>0. /\ row \in [TaskId -> Row] /\ DaemonsTyped
      /\ phase[d] = "run" /\ job[d] \in TaskId
      /\ row[job[d]].status = IF decision[d] = "rejected" THEN "pending" ELSE "in-progress"
  BY TypeParts DEF SInv, GInv, OInv, TypeOK, RunHasJob, RunHoldsItsRow, RunStep, Authorize,
       AgentCompletes, AgentPauses, AgentFails, HeartbeatFires, ReviewRejects,
       RejectionLost, FailUnread, Enter
<1> DaemonNext(d)
  BY DEF DaemonNext
<1>8. Running(job[d]) /\ \A u \in TaskId : ~Settling(u)
  BY <1>0, WhoSettles DEF Running, Up
<1>1. CASE Authorize(d)
  <2>1. UNCHANGED <<row, phase, job>>
    BY <1>1 DEF Authorize
  <2> QED
    BY <2>1, MoveNone DEF Stays, Running, Settling, Alike, Shows
<1>2. CASE AgentCompletes(d) \/ RejectionLost(d)
  <2>1. row' = [row EXCEPT ![job[d]] = Completed(@)] /\ phase'[d] = "idle"
    BY <1>0, <1>2 DEF AgentCompletes, RejectionLost, Complete, LeavePoll, DaemonsTyped
  <2>2. Life!In(job[d], "running") /\ LifeOf' = [LifeOf EXCEPT ![job[d]].state = Idle("completed")]
    BY <1>0, <2>1, FieldsAfter, RunEnds
  <2>3. Life!Finish(job[d])
    BY <2>2 DEF Life!Finish, Life!Move, Idle
  <2> QED
    BY <1>0, <2>3 DEF Life!Next
<1>3. CASE AgentPauses(d)
  <2>1. row' = [row EXCEPT ![job[d]] = Requeued(@)] /\ phase'[d] = "idle"
    BY <1>0, <1>3 DEF AgentPauses, Requeue, LeavePoll, DaemonsTyped
  <2>2. Life!In(job[d], "running") /\ LifeOf' = [LifeOf EXCEPT ![job[d]].state = Idle("pending")]
    BY <1>0, <2>1, FieldsAfter, RunEnds
  <2>3. Life!Suspend(job[d])
    BY <2>2 DEF Life!Suspend, Life!Move, Idle
  <2> QED
    BY <1>0, <2>3 DEF Life!Next
<1>4. CASE AgentFails(d)
  <2>1. row' = [row EXCEPT ![job[d]] = Failed(@)] /\ phase'[d] = "idle"
    BY <1>0, <1>4 DEF AgentFails, Fail, LeavePoll, DaemonsTyped
  <2> PICK t \in TaskId : t = job[d]
    BY <1>0
  <2>2. /\ Running(t) /\ ~Running(t)' /\ ~Settling(t)'
        /\ \A u \in TaskId \ {t} : Stays(u)
    BY <1>0, <2>1, WhoRuns, WhoSettles DEF Stays, Up
  <2>3. LifeOf[t].state = "running"
    BY <1>0, <2>2, LifeStates
  <2>4. row' = [row EXCEPT ![t] = Failed(@)]
    BY <2>1
  <2>5. Life!Lose(t)
    BY <1>0, <2>2, <2>3, <2>4, FailLoses
  <2> QED
    BY <2>2, <2>5 DEF Life!Next
<1>5. CASE HeartbeatFires(d)
  <2>1. row' = [row EXCEPT ![job[d]].heartbeat = 0] /\ UNCHANGED <<phase, job>>
    BY <1>5 DEF HeartbeatFires, Heartbeat, daemonVars
  <2>2. \A u \in TaskId : Alike(row'[u], row[u])
    BY <1>0, <2>1 DEF Alike, Shows, Row
  <2>3. \A u \in TaskId : Stays(u)
    BY <2>1 DEF Stays, Running, Settling
  <2> QED
    BY <2>2, <2>3, MoveNone
<1>6. CASE ReviewRejects(d)
  <2>1. row' = [row EXCEPT ![job[d]] = Requeued(@)] /\ UNCHANGED <<phase, job>>
    BY <1>6 DEF ReviewRejects, Requeue
  <2>2. Running(job[d]) /\ \A u \in TaskId : Stays(u)
    BY <1>0, <2>1 DEF Stays, Running, Settling
  <2>3. Shows(row'[job[d]], "pending", row[job[d]].retries, row[job[d]].max_retries,
              row[job[d]].depends_on)
    BY <1>0, <2>1, FieldsAfter
  <2>4. LifeOf'[job[d]] = LifeOf[job[d]]
    BY <1>0, <2>2, <2>3 DEF LifeOf, LifeState, Stays, Running, Shows
  <2>5. LifeOf' = [LifeOf EXCEPT ![job[d]] = LifeOf[job[d]]]
    BY <1>0, <2>1, <2>2, <2>4, MoveOne DEF Alike, Shows
  <2> QED
    BY <2>5 DEF LifeOf
<1>7. CASE FailUnread(d)
  <2>1. /\ row' = [row EXCEPT ![job[d]] = Failed(@)]
        /\ phase'[d] = "settle" /\ job'[d] = job[d]
    BY <1>0, <1>7 DEF FailUnread, Fail, Enter, DaemonsTyped
  <2> PICK t \in TaskId : t = job[d]
    BY <1>0
  <2>2. /\ Running(t) /\ ~Running(t)' /\ Settling(t)'
        /\ \A u \in TaskId \ {t} : Stays(u)
    BY <1>0, <2>1, WhoRuns, WhoSettles DEF Stays, Up
  <2>3. row'[t].retries = row[t].retries + 1 /\ row'[t].max_retries = row[t].max_retries
        /\ row'[t].depends_on = row[t].depends_on
    BY <1>0, <2>1, FieldsAfter DEF Shows
  <2>4. LifeOf'[t] = [state |-> "charged", lost |-> row[t].retries + 1,
                      limit |-> row[t].max_retries, needs |-> row[t].depends_on]
    BY <2>2, <2>3 DEF LifeOf, LifeState, Running, Settling
  <2>5. LifeOf' = [LifeOf EXCEPT ![t].lost = @ + 1, ![t].state = "charged"]
    BY <1>0, <2>1, <2>2, <2>4, LossCounts DEF Alike, Shows
  <2>6. Life!Charge(t)
    BY <2>2, <2>5, LifeStates DEF Life!Charge, Life!In
  <2> QED
    BY <2>6 DEF Life!Next
<1> QED
  BY <1>1, <1>2, <1>3, <1>4, <1>5, <1>6, <1>7 DEF RunStep

\* The catch charges a charged run again.
LEMMA AgainMaps ==
  ASSUME Apart, SInv, NEW d \in Daemon, FailAgain(d)
  PROVE  Life!Next
<1>0. /\ row \in [TaskId -> Row] /\ DaemonsTyped
      /\ phase[d] = "settle" /\ job[d] \in TaskId
  BY TypeParts DEF SInv, GInv, OInv, TypeOK, RunHasJob, FailAgain
<1> DaemonNext(d)
  BY DEF DaemonNext, RunStep
<1> PICK t \in TaskId : t = job[d]
  BY <1>0
<1>1. row' = [row EXCEPT ![t] = Failed(@)] /\ phase'[d] = "idle"
  BY <1>0 DEF FailAgain, Fail, LeavePoll, DaemonsTyped
<1>2. /\ Settling(t) /\ ~Running(t)' /\ ~Settling(t)'
      /\ \A u \in TaskId : ~Running(u) /\ (u # t => Stays(u))
  BY <1>0, <1>1, WhoRuns, WhoSettles, SettlesAlone DEF Stays, Up
<1>3. LifeOf[t].state = "charged"
  BY <1>2, LifeStates
<1>4. Life!Lose(t)
  BY <1>0, <1>1, <1>2, <1>3, FailLoses
<1> QED
  BY <1>4 DEF Life!Next

\* A process that ends, or cannot record its run's result, leaves an orphan, or a
\* task that was already put back or charged.
LEMMA LossMaps ==
  ASSUME Apart, SInv, NEW d \in Daemon,
         PollThrows(d) \/ SettleThrows(d) \/ FailAgainThrows(d) \/ Exit(d) \/ Crash(d)
  PROVE  Life!Next \/ UNCHANGED LifeOf
<1>0. /\ row \in [TaskId -> Row] /\ DaemonsTyped
      /\ UNCHANGED row /\ Up(d) /\ phase'[d] \notin {"run", "settle"}
  BY TypeParts DEF SInv, GInv, OInv, TypeOK, DaemonsTyped, PollThrows, SettleThrows,
       FailAgainThrows, Exit, Crash, LeavePoll, Vanish, Up
<1> DaemonNext(d)
  BY DEF DaemonNext
<1>1. CASE phase[d] \notin {"run", "settle"}
  <2>1. \A u \in TaskId : Stays(u)
    BY <1>0, <1>1, WhoRuns, WhoSettles DEF Stays
  <2> QED
    BY <1>0, <2>1, MoveNone DEF Alike, Shows
<1>2. CASE phase[d] = "run"
  <2>1. job[d] \in TaskId /\ row[job[d]].status \in {"pending", "in-progress"}
    BY <1>2 DEF SInv, GInv, OInv, RunHasJob, RunHoldsItsRow
  <2>2. Shows(row'[job[d]], row[job[d]].status, row[job[d]].retries, row[job[d]].max_retries,
              row[job[d]].depends_on)
    BY <1>0 DEF Shows
  <2>3. /\ Life!In(job[d], "running")
        /\ LifeOf' = [LifeOf EXCEPT ![job[d]].state = Idle(row[job[d]].status)]
    BY <1>0, <1>2, <2>1, <2>2, RunEnds
  <2>4. Idle(row[job[d]].status) \in {"waiting", "orphaned"}
    BY <2>1 DEF Idle
  <2>5. Life!Suspend(job[d]) \/ Life!Orphan(job[d])
    BY <2>3, <2>4 DEF Life!Suspend, Life!Orphan, Life!Move
  <2> QED
    BY <2>1, <2>5 DEF Life!Next
<1>3. CASE phase[d] = "settle"
  <2> PICK t \in TaskId : t = job[d]
    BY <1>3 DEF SInv, GInv, OInv, RunHasJob
  <2>1. AfterFail(row[t])
    BY <1>3 DEF SInv, FailStands
  <2>2. /\ Settling(t) /\ ~Running(t) /\ ~Running(t)' /\ ~Settling(t)'
        /\ \A u \in TaskId \ {t} : Stays(u)
    BY <1>0, <1>3, WhoRuns, WhoSettles, SettlesAlone DEF Stays
  <2> DEFINE then == IF row[t].retries <= row[t].max_retries THEN "waiting" ELSE "failed"
  <2>3. LifeOf[t] = [state |-> "charged", lost |-> row[t].retries,
                     limit |-> row[t].max_retries, needs |-> row[t].depends_on]
    BY <2>2 DEF LifeOf, LifeState, Running, Settling
  <2>4. LifeOf'[t] = [state |-> then, lost |-> row[t].retries,
                      limit |-> row[t].max_retries, needs |-> row[t].depends_on]
    BY <1>0, <2>1, <2>2 DEF LifeOf, LifeState, Running, Settling, AfterFail
  <2>5. then = IF LifeOf[t].lost <= LifeOf[t].limit THEN "waiting" ELSE "failed"
    BY <2>3
  <2> HIDE DEF then
  <2>6. LifeOf'[t] = [LifeOf[t] EXCEPT !.state = then]
    BY <2>3, <2>4
  <2>7. LifeOf' = [LifeOf EXCEPT ![t] = [LifeOf[t] EXCEPT !.state = then]]
    BY <1>0, <2>2, <2>6, MoveOne DEF Alike, Shows
  <2>8. Life!Settle(t)
    BY <2>3, <2>5, <2>7 DEF Life!Settle, Life!In, Life!Move, LifeOf
  <2> QED
    BY <2>8 DEF Life!Next
<1> QED
  BY <1>1, <1>2, <1>3

\* Every step of the system is a step of TaskLifecycle, or none.
LEMMA LifeStep == Apart /\ SInv /\ [ONext]_vars => [Life!Next]_LifeOf
<1> SUFFICES ASSUME Apart, SInv, [ONext]_vars PROVE Life!Next \/ UNCHANGED LifeOf
  OBVIOUS
<1>1. ASSUME NEW d \in Daemon, DaemonNext(d) PROVE Life!Next \/ UNCHANGED LifeOf
  <2>1. CASE PollStep(d)
    BY <2>1, PollMaps
  <2>2. CASE \/ RunStep(d) \/ HeartbeatFires(d) \/ ReviewRejects(d) \/ RejectionLost(d)
             \/ FailUnread(d)
    BY <2>2, RunMaps, AgainMaps
  <2>3. CASE PollThrows(d) \/ SettleThrows(d) \/ FailAgainThrows(d) \/ Exit(d) \/ Crash(d)
    BY <2>3, LossMaps
  <2>4. CASE ScheduledEnqueue(d)
    <3>1. PICK t \in TaskId, p \in Priority, m \in MaxRetries : Enqueue(t, p, None, m)
      BY <2>4 DEF ScheduledEnqueue
    <3>2. UNCHANGED <<phase, job>>
      BY <2>4 DEF ScheduledEnqueue, daemonVars
    <3>3. Life!Submit(t, None, m)
      BY <3>1, <3>2, EnqueueSubmits
    <3> QED
      BY <3>3 DEF Life!Next
  <2>5. CASE Boot(d) \/ Shutdown(d)
    <3>1. /\ phase[d] = "run" <=> phase'[d] = "run"
          /\ phase[d] # "settle" /\ phase'[d] # "settle"
          /\ UNCHANGED <<job, row>>
      BY <2>5 DEF Boot, Shutdown, Enter, SInv, GInv, OInv, OTypeOK
    <3>2. \A u \in TaskId : Stays(u)
      BY <1>1, <3>1, TypeParts, WhoRuns, WhoSettles DEF Stays, SInv, GInv, OInv
    <3> QED
      BY <3>1, <3>2, MoveNone DEF Alike, Shows
  <2> QED
    BY <1>1, <2>1, <2>2, <2>3, <2>4, <2>5 DEF DaemonNext
<1>2. CASE Submit
  <2>1. PICK t \in TaskId, p \in Priority, u \in TaskId \cup {None}, m \in MaxRetries :
               Enqueue(t, p, u, m)
    BY <1>2 DEF Submit
  <2>2. UNCHANGED <<phase, job>>
    BY <1>2 DEF Submit, daemonVars
  <2>3. Life!Submit(t, u, m)
    BY <2>1, <2>2, EnqueueSubmits
  <2> QED
    BY <2>3 DEF Life!Next
<1>3. CASE Tick
  <2>1. row \in [TaskId -> Row] /\ Age /\ UNCHANGED <<phase, job>>
    BY <1>3 DEF Tick, daemonVars, SInv, GInv, OInv, OTypeOK
  <2>2. \A u \in TaskId : Alike(row'[u], row[u])
    <3> SUFFICES ASSUME NEW u \in TaskId PROVE Alike(row'[u], row[u])
      OBVIOUS
    <3>1. row'[u] = [row[u] EXCEPT !.heartbeat =
                       IF @ = None \/ @ > StaleTimeout THEN @ ELSE @ + 1]
      BY <2>1 DEF Age
    <3> QED
      BY <2>1, <3>1 DEF Alike, Shows, Row
  <2>3. \A u \in TaskId : Stays(u)
    BY <2>1 DEF Stays, Running, Settling
  <2> QED
    BY <2>2, <2>3, MoveNone
<1>4. CASE \/ \E t \in TaskId, a \in {"granted", "denied"} : OperatorDecides(t, a)
           \/ WriteStopFile \/ DeleteStopFile \/ UNCHANGED vars
  <2>1. UNCHANGED <<row, phase, job>>
    BY <1>4 DEF OperatorDecides, WriteStopFile, DeleteStopFile, vars, daemonVars
  <2>2. \A u \in TaskId : Stays(u)
    BY <2>1 DEF Stays, Running, Settling
  <2> QED
    BY <2>1, <2>2, MoveNone DEF Alike, Shows
<1> QED
  BY <1>1, <1>2, <1>3, <1>4 DEF ONext

LEMMA LifeStart == OInit => Life!Init
<1> SUFFICES ASSUME OInit PROVE Life!Init
  OBVIOUS
<1>1. ASSUME NEW t \in TaskId PROVE LifeOf[t] = Life!Unknown
  <2>1. ~Running(t) /\ ~Settling(t)
    BY DEF OInit, Running, Settling
  <2>2. row[t] = NoRow
    BY DEF OInit, Init
  <2> QED
    BY <2>1, <2>2 DEF LifeOf, LifeState, Running, Settling, NoRow, Life!Unknown
<1> QED
  BY <1>1 DEF LifeOf, Life!Init

\* With one daemon the poll loop, through crashes, restarts, throws before and after
\* a write, reviews and approvals, gives every task the life TaskLifecycle promises:
\* it runs only after what it needs, is repeated no more than its limit, and ends
\* once; a lost run counts once, or twice where the read-back of its fail() threw.
THEOREM OneDaemonImplementsLifecycle ==
  ASSUME SingleDaemon PROVE Spec => ImplementsLifecycle
  BY LifeStart, SInvHolds, AloneIsApart, LifeStep, PTL
  DEF Spec, ImplementsLifecycle, Life!Spec

\* Any number of daemons on one table, with crashes, restarts, lost writes and
\* approvals, give every task that life as one daemon does, on the premises of
\* DaemonsKeepApart: whichever of them runs it, a lost run counts once, or twice
\* where the read-back of its fail() threw.
THEOREM DaemonsImplementLifecycle ==
  ASSUME Timely
  PROVE  Spec /\ []LossesMeetOneDaemon => ImplementsLifecycle
<1>1. JInv /\ LossesMeetOneDaemon => SInv /\ Apart
  BY TimelyAreApart DEF JInv
<1> QED
  BY <1>1, LifeStart, JHolds, LifeStep, PTL DEF Spec, ImplementsLifecycle, Life!Spec

\* Two daemons, each started once and neither crashing, do so unconditionally.
THEOREM TwoDaemonsImplementLifecycle ==
  ASSUME Timely, MaxFaults = 0, MaxBoots <= 2 PROVE Spec => ImplementsLifecycle
  BY TwoStarts, DaemonsImplementLifecycle, PTL
=============================================================================
