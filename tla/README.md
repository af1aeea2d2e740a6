# Helios (Jarvis) in TLA+

TLA+ modules, TLC configurations and TLAPS proofs for the TypeScript program in
`src/`: a local assistant whose *daemon* takes tasks from a SQLite table and
hands them to agents, which use guarded connectors (file system, terminal,
browser, desktop) under the control of a permission gatekeeper.

Contents: 1 the system, 2 the modules, 3 the runs, 4 fairness, 5 the proofs,
6 disagreements found, 7 what is not modelled, 8 the plan.

## 1. The system

| component | state it keeps | operations | what makes it correct |
|---|---|---|---|
| task queue (`core/src/queue`) | tables `tasks`, `scheduled_tasks` in a file every process opens | enqueue, claimNext, heartbeat, complete, requeue, fail, recoverStaleTasks, resolveBlockedDependencies, scheduleTask, evaluateScheduledTasks | a task runs after its dependency, in one process, at most `max_retries + 1` failed times; ended tasks stay ended; tasks that can no longer start are found; a due run is not passed over, and enqueued once unless two daemons or a fault disturb it |
| orchestrator (`core/src/orchestrator.ts`) | `stopped`, `inFlight`, `timer`; the signal file on disk | start, poll, stop | every way out of a poll arms the timer; the stop signal bounds what is still claimed; a lost run is recovered |
| gatekeeper and approvals (`core/src/permissions`) | `pending_approvals`, `audit_log`, policies | authorize (role, policy, autonomous, interactive, unattended), decide | a guarded action happens only after a grant for that request, and the rows on record agree with what happened |
| agents (`agents/*`) | none across runs | process: plan, authorise, act, ask for a review | an outcome is reported for what really happened; a rejected task is run again, at the price of one retry |
| message router (`core/src/router/messageRouter.ts`) | pending replies, audit | send, sendAndReceive | a reply meets its request or its time-out, never both; every wait ends |
| Kanban board (`connectors/kanban`) | `kanban_boards`, `kanban_cards` | initDefaultBoard, createCard, moveCard | a card follows its task's status |
| memory manager and vector store (`core/src/memory`) | a SQLite table, a table of vectors, a KD-tree per process | store, query, retention | the two stores hold the same ids; a query through the tree finds what a scan finds |
| filesystem, git and search connectors | the disk, the remote; the ration of searches | authorise, prepare, act, record | nothing is touched without a grant; what was done is called so; the ration holds for all processes together |
| workspace manager | `workspaces`, `active_workspace` | create, switch, remove | nothing that is to be run refers to a workspace that is gone |
| desktop control (`connectors/desktop`, a Python process) | a queue of awaited replies, action counter, stop flag | runAction, executeScript, emergencyStop, resetActionCount | a reply goes to the command it answers; no sequence of actions after a stop; every run ends |
| browser connector | a Map of sessions by task | ensureBrowser, close | every browser that runs can still be closed |
| duplex audio server (`core/src/voice`) | `isProcessing`, `isSpeaking`, the audio accumulator | chunk, barge-in, turn, disconnect | a reply nobody wants any more is not sent |
| voice chat (`core/src/voice`) | references to three kinds of child processes, the command mode | wake word, transcription, speak, reminder | the loop never stays deaf |
| terminal, periodic capture, health monitor, agent router, model router, web pages, installer, configuration | small or none | | see section 7 |

How they interact. Everything durable is one SQLite file. The daemon, the CLI
(`submit`, `approve`, `stop`), the dashboard and the web server open it, so
*statements of different processes interleave*, while inside one process
JavaScript runs a callback to its next `await`. The poll calls the queue
synchronously, then awaits one agent. The agent awaits the gatekeeper, a model,
a connector and, through the message router, another agent; the project manager,
called that way, writes to the queue under the feet of the run that called it.
The event bus calls its listeners inside `emit`; they start promises of their own
(Kanban moves, browser close) that nobody awaits.

What is hard: statements of two processes between a SELECT and the UPDATE it
decided; a crash between claim and result; the age of heartbeats against a
time-out; approvals that outlive the run that asked for them; a stop that races a
poll; callbacks after an `await` that act on what they read before it; time-outs
that race answers. `PROJECT.json` lists each such hazard at its line under
`hazards`, with the properties that cover it or the reason why none does.

## 2. The modules

| module | models | role |
|---|---|---|
| `TaskQueue` | `core/src/queue/index.ts`, the `tasks` table | one action per statement on the table; any process may issue any statement |
| `Orchestrator` | `core/src/orchestrator.ts`, and what it meets: agent outcome, unattended approvals, project manager's requeue, CLI, signal file, shutdown, crash | extends `TaskQueue`; who issues which statement, when |
| `TaskLifecycle` | the promise of both about one task | abstract specification, no table, lock or heartbeat |
| `ReviewLoop` | the agents of a coding or research task, the messages between them, the Kanban board | one daemon; its rows are those of `TaskQueue`, reduced to status and retries |
| `DesktopControl` | desktop operator agent, desktop connector, the Python process behind two pipes, override hook | one task at a time against its callbacks |
| `MemoryStore`, `VectorIndex` | memory manager and vector store: the two databases; the KD-tree | statements of several processes; an algorithm against its reference |
| `GuardedCalls` | filesystem, git and search connectors, gatekeeper, approval queue, audit log | calls of several processes |
| `Schedules` | recurring tasks in the queue | daemons that evaluate the same schedules |
| `Workspaces` | workspace manager, CLI and enqueue | statements of several processes |
| `BrowserSessions` | browser connector, its callers in agent and bootstrap | launches and closes that are awaited |
| `DuplexAudio`, `VoiceLoop` | one connection of the duplex server; the voice chat | callbacks over shared flags and child processes |
| `MCTaskQueue`, `MCOrchestrator`, `MCReview`, `MCDesktop`, `MCServices` | | finite instances for TLC; `MCServices` composes the last eight modules |
| `TaskQueueProofs`, `DaemonsProofs` | | theorems about the queue and its daemons, one or several |
| `ReviewLoopProofs`, `DesktopProofs` | | theorems about one module each |
| `StoresProofs` | | theorems about `Workspaces`, `BrowserSessions` and `MemoryStore` |
| `NatRecursion`, `IndexProofs` | | induction and recursion over the numbers in set form; theorems about `VectorIndex` |
| `ServicesProofs` | | theorems about `GuardedCalls`, `Schedules`, `DuplexAudio` and `VoiceLoop`, and about `MCServices` |

### TaskQueue

`row[t]` is the row of task `t`, with the columns the control depends on: status,
priority, `depends_on`, `retry_count` (`retries`), `max_retries`, `locked_by`,
`heartbeat_at`, `sequence_id`. A row that does not exist has status `"absent"`.
`heartbeat_at` is modelled by its age in ticks, kept at `StaleTimeout + 1` once it
is stale: no query tells two stale ages apart.

* `Enqueue` is the SELECT of the dependency and the INSERT. It is one action
  although it is several statements, because rows are never deleted: what the
  checks saw stays true, and the sequence number is computed inside the INSERT.
* `ResolveBlockedDependencies` is the whole `while (changed)` loop as one action. What a round
  decides cannot be undone by another process (a failed or blocked dependency stays so and its
  dependants cannot be claimed), so the rounds commute with everything else. (The UPDATE of a
  round, queue/index.ts:382, does not look at the status again. Only a `fail` or `requeue` by the
  id, from a run that another daemon had taken the task from, comes between it and its SELECT;
  that window is not modelled.) `Doomed` gives the result as the least set closed under "my
  dependency failed, is blocked or is doomed"; `BlockingReachesAll` compares it with the rounds
  the code makes.
* `Claim` is the UPDATE with `AND status = 'pending'`; the SELECT of candidates
  and the order of the loop belong to the daemon, which keeps the list.
* `Complete`, `Requeue` and `Fail` name the row by its id alone, as the code does:
  no guard on the status. That callers use them well is a property of
  `Orchestrator`, not a guard.
* `Heartbeat` is guarded by `status = 'in-progress'`, as in the code.

### Orchestrator

A poll is cut where another process can come in between a query and its use:

| phase | next action | code |
|---|---|---|
| `idle` | `PollBegin`, `PollStops`: timer fires, signal file is or is not there | orchestrator.ts, `poll` up to the guard |
| `schedule` | `ScheduledEnqueue`\*, then `RecoverSelect` | `evaluateScheduledTasks`; SELECT of `recoverStaleTasks` |
| `recover` | `RecoverOne`\*, then `ClaimSelect` | one `fail` per stale row; `resolveBlockedDependencies` and the SELECT of `claimNext` |
| `claim` | `ClaimOne` or `ClaimNone` | the claim loop: the first candidate, in priority order, whose dependency is completed and whose UPDATE changes a row |
| `run` | `Authorize`, `ReviewRejects`, `HeartbeatFires`, then one of `AgentCompletes`, `AgentPauses`, `AgentFails`, `SettleThrows`, `RejectionLost`, `FailUnread` | the awaited agent, and the answer to its result |
| `settle` | `FailAgain` or `FailAgainThrows` | the `catch`, after a `fail` that threw with its UPDATE done |

The answer to a failed result, `fail` and its event, stands inside the `try` whose `catch`
calls `fail` again. `SettleThrows` is the case in which neither call writes, `AgentFails` that in
which one does (and a claim whose read-back throws is a `ClaimOne` with `SettleThrows` at once);
after `FailUnread` the row is written, its read-back threw, and the `catch`
charges the same run once more (`FailAgain`), or throws itself (`FailAgainThrows`). Between the two
calls other processes see the row, and may claim it. The emit that follows `fail` throws nothing: the
listeners of bootstrap.ts start promises and catch what those reject. `ClaimOne` joins the
dependency check of a candidate and its UPDATE: a completed dependency stays completed as
long as `EndedStaysEnded` does.

`LeavePoll` is the `finally` block. `work[d]` holds the ids of the last SELECT,
`job[d]` the claimed task, `decision[d]` what the gatekeeper said (or that the
reviewer rejected). Around the poll: `Boot`, `Shutdown` (SIGINT/SIGTERM:
`stop()` and the shutdown sequence, during which a run may still settle), `Exit`
(`process.exit(0)`), `Crash`, `PollThrows`; the operator's `Submit`,
`OperatorDecides`, `WriteStopFile`, `DeleteStopFile`; and `Tick`.

*The agent run* is modelled by what the queue sees of it: its outcome, one guarded
action (`Gated` tasks) and one review (`Reviewed` tasks). The unattended branch of
the gatekeeper looks an answer up by the exact request, inserts a pending one
if there is none, and answers with the stored decision otherwise. A `Payload` is a
possible request: the size of the generated text is part of it, so two runs of a
task may ask for different things. A rejected review makes the project manager
requeue the task while the run goes on; the run then fails the task
(`AgentFails`), or, when a statement throws after the requeue, takes the review for
one that could not be had and completes it (`RejectionLost`).

Abstractions: the period and default priority of scheduled runs (any run may be
due at any poll); text, results, errors and events without a listener that writes
to the table; `inFlight`, which `poll` cannot find set because the only timer is
armed when a poll ends.

### TaskLifecycle

Waiting, running, orphaned, and three ends. `Start` needs the dependency completed, `Lose` counts
a lost run against the limit, `Block` takes waiting tasks that cannot start. The refinement
mapping (`LifeOf` in `Orchestrator`) calls a task *running* while a live daemon works on it
**whatever its row says**, *charged* between the two calls of `fail` for one run, and *orphaned*
if its row is in progress and nobody works on it: a crash is `Orphan`, recovery is `Lose`, a claim
that cannot be read back is `Strand`. A run whose loss is recorded unheard is `Charge`d; then it
counts a second time (`Lose` again) or not (`Settle`). Two is the most a run can cost. The requeue
under a live run is invisible until the run settles. `ReviewLoop` implements the same promise by a
mapping of its own, with no dependencies and one limit; `SubmitAll` is for the tasks that one pass
over its schedules creates at once.

### ReviewLoop

`st` and `retries` are the row, `card` the status the project manager wrote on the task's card
(its column follows from it), `board` whether the default board exists. `pc` walks through a poll
and its run. `poll` is the one tick from the timer to the claim: `PollBegin` creates the tasks
that are due (the only ones this process creates; `SubmitCli` is a row that the command line or
the web server inserts, without an event), `Recover` fails the lost rows, and `Claim`,
`ClaimUnread` or `PollEnds` ends it. No continuation of a promise runs in between (`InTick`), so a
task may be claimed while the handler that will create its card is pending: `handleTaskStarted`
finds no card, and the card stays in `Todo` for the whole run (`early`). Then `recall`, `think`,
`authorise` (the file), `review` (the message to the reviewer), `notify` (the reviewer's message
to the project manager), `reply`, `remember`, and `settle`, between the two calls of `fail`
(`FailUnread`, `FailAgain`, `FailAgainThrows`; `recharged` are the tasks whose last run was
charged by both). `CompleteThrows` and `SettleThrows` are the other statements that throw there.
`handlers` are the started continuations of the project manager: an event or a verdict adds one
(`Announce`), `CreateBoard`, `CreateCard` and `MoveCard` run it on, `HandlerThrows` cuts it short.
They await only promises that are settled already, so Node drains them before the next I/O
callback: what starts from I/O is guarded by `Drained`. `MoveCard` with the label of a rejection
also requeues the task, as `handleReviewResult` does, under the run that asked. `timer` is the
reply time-out: it is armed before the message is sent and what it rejects is awaited only
afterwards, so `ReplyTimeout` ends the process, as Node does on an unhandled rejection.

### DesktopControl

Three sequential parts and what comes between them. `pc`, `plan`, `attempt` are
`DesktopOperatorAgent.process` with its visual click (aim, move, look where the cursor hovers,
click, verify, again); `call` is the connector's `runAction` that the agent awaits (`check`,
`auth`, `before`, `start`, `reply`, `after`) and `cont` who awaits it; an action of the plan is
one command, a visual click, or two commands of which the second depends on the first
(`SecondFollows`: a new tab, a URL, a browser). `HookRequired` is the platform, whose safety check
asks for the override hook on Windows only. `proc`, `inPipe`, `outPipe` are the Python process and
its pipes. `pending` is `pendingQueue`; a reply goes to its head, for lines carry no identity.
Callbacks and timers are `HandleLine`, `CommandTimeout`, `ReadyTimeout`, `SpawnError`,
`DaemonClosed`, `EmergencyStop`, `Override`. What a model sees on the screen is a choice; an
observation is there or not, and young enough or not.

### MemoryStore and VectorIndex

A `store()` is a sequence of statements over two databases that no transaction joins:
`StoreVector`, `InsertRow`, `WriteOutcome`, `CountRows`, `PickOldest`, then `EvictVector`
and `EvictRow` for each row too many. Within a process only the await between vector and
row lets another `store()` in (`Turn`); other processes run between any two statements.
`StoreThrows` is the catch that deletes the vector again, `EvictionThrows` the one that
logs and goes on, `MCrash` an end of the process, whose index is rebuilt at the restart.

`VectorIndex` has the tree as a function: a node is found by its turns, the sequence of `"left"`
and `"right"` that leads to it from the root, and holds a row of the table. On it are the code's
four functions (`BuildKdTree`, `InsertKdNode`, `SearchKdTree`, `AddQueryResult`); the linear scan
the code falls back to is the reference. The recursion of the code is one over the turns: `Part`
is the records that a call of `buildKdTree` is given, sorted, and their median its node;
`InsertKdNode` puts the row at the free place its vector leads to, which the recursion reaches one
turn at a time; `Visit` is one call of `searchKdTree`, with the calls it makes looked up in the
function it defines. Scores are compared instead of ids, since ties may come in either order.
Vectors are integer points at one distance `Norm` from the origin, which stands for the provider's
normalisation; the cosine and the distance bound are scaled by `Norm^2` and stay exact.

### GuardedCalls

A call goes through `requested`, (`prompted`,) `decided`, (`counted`,) (`staged`,)
`acted`, `ended`; each arrow is a row or a deed. `verdict` and `outcome` are the rows
of the audit log, `effect` what was done: a part of it (a directory made, files staged)
or all. The policy table is a choice between refusing, granting, asking at a prompt and
consulting `pending_approvals`, whose row is found by the exact request (`Asks`). The
operator answers by `jarvis approve` or at the dashboard, which leaves voice requests to
the terminal and asks twice before a grant of high friction. `recent` are the request
rows of searches within the window of the ration. `FailsAfterwards`, `CountThrows` and
`GCrash` are the faults.

### Schedules, Workspaces, BrowserSessions

`Schedules`: `SelectDue` is the SELECT of an evaluation, `InitialiseNext` the first
sight of a schedule, `Begin` the list of missed runs under its policy, `EnqueueRun` and
`MoveNext` the statements that follow, `EvaluationThrows` and `DaemonEnds` the faults. A
daemon works with `next_run_at` as it was selected (`seen`), and another may have moved
it since. A cron expression is a clock whose every tick is due.

`Workspaces`: `removeAt` is the next statement of `jarvis workspace remove` (check, orphan, read
the active workspace, clear it, delete), `held` the workspace an enqueue has read and not yet
written.

`BrowserSessions`: the Map in insertion order. `Launch` and `OpenSession` are the two sides of an
awaited launch, which an operation makes also in the middle of a run whose session is gone;
`RunEnds` is a run whose event closes the browser, `RunPauses` one without an event; `BeginClose`
and `CloseEnds` of `close(task)`, and `BeginSweep`, `SweepNext` the iteration of `close()` without
a task, which awaits every browser, comes to sessions added meanwhile, and clears the Map.

### DuplexAudio and VoiceLoop

`DuplexAudio` is a connection's message handler and its turns over the same two flags.
`FindsNoTurn` is a turn that comes back from an await and finds `isProcessing` cleared;
`EndTurn` is its `finally`, which clears the flag whoever set it.

`VoiceLoop` has `child`, the processes that exist, apart from the engine's references to them
(`wakeWordProcess`, `ttsProcess`), for the close of an older process clears the reference to a
newer one. `StartListening` does nothing while there is a reference. `SpeakEnds` is the `finally`
of `speak()`, where an ear opens again after speech; `Remind` is the minute of silence.

## 3. The runs

| run | instance | what it shows |
|---|---|---|
| `queue` | 3 tasks, 1 agent, one priority, `max_retries` 0 or 1, `StaleTimeout` 1, at most 2 failures a row, tasks symmetric | under every order of statements: rows are coherent (`RowCoherent`), dependencies are acyclic and sequence numbers unique (`DependencyOrder`), one call of the blocking loop finds every doomed task (`BlockingReachesAll`) |
| `daemon` | 1 daemon, 2 tasks (t1 gated, t2 reviewed), `max_retries` 0 or 1, heartbeats not on time, 2 boots, 1 fault | the recovery never acts on a stale list (`RecoveryListIsStale`), the stop signal lets through at most one claim (`StopFileHonoured`), completion needs a grant (`CompletionNeedsGrant`), the loop implements `TaskLifecycle` (`ImplementsLifecycle`), and every task ends (`EveryTaskEnds`, `NoRowStuckInProgress`) |
| `two_daemons` | 2 daemons, 2 tasks (t1 gated), priorities 0 and 1, `max_retries` 1, heartbeats on time, 2 boots, no fault | two daemons on one database never run the same task (`OneRunnerPerTask`), never take a row from a live run (`RunHoldsItsRow`), never reopen an ended task (`EndedStaysEnded`), and issue only statements `TaskQueue` allows, a claim with its dependency check included (`ImplementsQueue`) |
| `review` | 2 tasks, one retry, 1 crash, 1 statement that throws, fair | the card tells what became of the task once its handlers ran (`BoardFollowsQueue`), a card is lost only in the batch that makes the board (`CardsOnlyLostAtFirst`), a task claimed by the poll that created it stays in `Todo` while it runs; a run costs one retry however it ends, two where `fail` threw with its UPDATE done (`OneRetryPerRun`), a rejected task is not completed by that run (`RejectionHeeded`), the rows keep the promise of `TaskLifecycle` (`ReviewsKeepLifecycle`), every run ends although the reviewer may never answer (`EveryRunEnds`) |
| `desktop` | 2 tasks out of five plans (one or two actions, up to a click with its verification), `HookRequired`, 3 actions a sequence, 1 retry of a visual click, 1 death of the Python process, fair | callers and awaited replies match (`QueueMatchesCaller`), after a stop at most one more command is begun (`StopBound`), success means done until a command has timed out (`SuccessMeansDone`), every run ends but in the state `StartLost` (`RunEnds`) |
| `services` | eight components, one at a time, see below | `FindableUnlessCut`, `WithinLimit`, `IndexIsExact`, `AuditExplainsDisk`, `SearchesBounded`, `NothingPassedOver`, `OnceUnlessDisturbed`, `EveryDueRunHappens`, `DanglingOnlyByRace`, `NoBrowserLost`, `RepliesAreWanted`, `NeverDeaf` |
| `recovery_race` | 2 daemons, 1 task, 3 boots | violation, see 6 |
| `paused_task` | 1 daemon, 1 gated task | violation, see 6 |
| `stop_signal` | 1 daemon, 1 task, fair | violation, see 6 |
| `override_hook` | 1 desktop task, no death | violation, see 6 |
| `slow_review` | 1 task, no fault | violation, see 6 |
| `board_done` | 1 task, no fault | violation, see 6 |

*The run `services`.* Its components share no variable and call each other only through
what each of them leaves open (a fault, a choice), so interleaving them would multiply
their states and show nothing. A behaviour of `ServicesSpec` is a behaviour of one of them,
chosen by `component` at the start; the state space is the sum of theirs, and a
property of one holds in the behaviours of the others because it holds where that one
begins. The exceptions each property names (`cut`, `disturbed`, `raced`, `crossed`,
`marred`, `interrupted`, `failed`) are history variables, kept as narrow as the code
allows: dropping one of them makes TLC find the behaviour it stands for.

Bounds, and why they are enough.

* Three tasks give a chain of dependencies of length two, the shortest on which one
  round of blocking is not enough. Two failures exceed `max_retries` 0 and 1.
* Two tasks give a dependency, and a task to claim while another is stale. Two
  boots give a restart after a crash or a shutdown; one fault gives a crash, a
  failed write of a result, or a throw in a poll, in every place. A second fault
  adds a second lost run, which the retry counter already sees through `AgentFails`.
* `StaleTimeout` 1 and `HeartbeatEvery` 1 are the smallest for which fresh, old and
  stale differ and the boundary is met. `OnTime` restricts `Tick` so that no live
  run's heartbeat gets older than the timer's interval; the daemon run does without.
* One request per gated task (`OnePayload`). That a re-run may ask for something
  else is left to the theorem `CompletionIsGranted`, which holds for every `Payload`.
* `review`: two tasks are the smallest batch that meets an absent board at once; one
  retry gives a failure that is retried and one that is final; one crash and one throw
  come at every place.
* `desktop`: two commands are the least for which a late reply is credited to the next
  command, two tasks the least for which it crosses into the next run; the death of the
  Python process comes at every place, once. `HookRequired` is TRUE, as on Windows: without it
  nothing but the emergency stop itself keeps a command back, and the theorems hold for both.
* `services`: *memory*, 3 entries of 2 processes with a limit of 1 (an eviction by each, and of
  the same row), 1 cut; *index*, 5 vectors, tables of up to 4 rows, top 1 and top 2, every order
  of insertions, deletions and rebuilds: a tree of three levels with ties in every coordinate,
  where the wrong bound loses a hit; *calls*, 2 calls of every pair of a method and a search, a
  ration of 1, 1 fault; *schedules*, 1 schedule, 2 daemons, at most 2 runs an evaluation of up to
  4 due (the code's 100 scaled down), 1 fault; *workspaces*, 2 workspaces, 1 task; *browsers*, 2
  tasks, 1 sweep, 3 launches (a task's second browser beside another task's), 1 rejection;
  *duplex*, 3 turns (one interrupted, one in flight, one that finds the flag cleared); *voice*, 4
  child processes at a time, 1 awaited reply.
* `Daemon.cfg` and the others of the queue check deadlock: `Tick` and the operator keep the system
  able to move, so this asks little; progress is what the liveness properties are for.
  The other runs switch it off: their tasks, calls, entries and turns are used up.

What `two_daemons` does *not* claim: a third boot beside two live daemons brings the
recovery race, and a reviewed task that is requeued under a live run can be claimed
by the other daemon. Both break `OneRunnerPerTask`; the first is the run
`recovery_race`, the second has no run (section 7). `OnTime` matters too: a heartbeat
later than the time-out lets the other daemon recover a live run's row.

Each property has a mutant in `PROJECT.json`: a plausible bug in a mapped definition
(dropped `AND status = 'pending'`, off-by-one in the retry or time-out comparison,
a `finally` that does not arm the timer, a claim loop without its dependency check, a
pruning bound taken from the best hit, a barge-in that only stops the playback) that
makes TLC find the property violated.

## 4. Fairness

`FairSpec` assumes, and the code justifies:

* `WF(PollStep(d))`: Node fires an armed timer, and a poll is synchronous to its
  await. `PollThrows` and `ScheduledEnqueue` are not in it: no progress relies on them.
* `WF(RunStep(d))`: an agent run ends. Model calls, prompts and commands have
  time-outs. Which outcome it has is not assumed. `ReviewRejects` and heartbeats are
  not fair: neither has to happen.
* `WF(Exit(d))`: `shutdown` ends in `process.exit`.
* `WF(Tick)`: time passes.

The second of these has one exception that the desktop model shows: a Python process that
ends before its READY line leaves the run waiting for ever (`StartLost`, hazard at
DesktopConnector.ts:255). `EveryTaskEnds` holds for runs that do not meet it.

The other specifications with fairness, all of them weak and per handler:

* `RFairSpec`: the started handlers run (`Handle`), the run's own steps are taken (`Work`), a
  `catch` that was entered goes on (`FailAgain`), the reply timer fires. The reviewer's model call
  (`ReviewDone`) is not fair: the timer bounds the wait.
* `DFairSpec`: the agent's and the connector's callbacks and timers run. Nothing is
  assumed of the Python process but that its end is noticed (`DaemonClosed`).
* `SFairness`: each daemon goes on with its evaluation and starts the next one, also after
  `DaemonEnds`: it assumes that a daemon that ended is started again, because a due run
  happens only if somebody polls. Time is not fair.
* `VFairness`: killed children close, transcriptions and syntheses end (recordings are of
  fixed length, syntheses end with their text), the model answers or times out, the
  reminder's timer ticks. Wake words, failures and the operator are not fair.
* `ServicesFairness` states the last two for the behaviours of those components.

But for `SFairness`, nothing is assumed of restarts, and nothing of the operator. The liveness
properties state their premise instead: in the end a daemon is up and not stopped (`<>[]~Halted`)
and, for `EveryTaskEnds`, requests get answered again and again (`[]<>~AwaitsOperator`).

## 5. The proofs

Assumptions: `NoneAssumption` (NULL is not an id, an agent or a number),
`QueueConstantsAssumption`, `OrchestratorConstantsAssumption` (types of the constants) for the
queue and its daemons, `ReviewConstantsAssumption`, `DesktopConstantsAssumption`,
`CallAssumption`, `WorkspaceAssumption`, `BrowserAssumption`, `ScheduleAssumption`,
`DuplexAssumption` and `VoiceAssumption` for the others (types again, and bounds that are not
zero). `MemoryAssumption` says besides that the memories ever stored are finitely many, because
the limit is about their number; nothing else is assumed finite, but by `BlockingLoopReachesAll`,
which takes a finite number of tasks as a hypothesis of its own. `VectorAssumption` says what the
embedding provider promises, vectors of one length and one norm, and `IndexConstantsAssumption`
gives types. The number of tasks, daemons, agents, requests, calls, plans, boots and faults is
arbitrary.

* **`TaskQueueProofs`**, any number of processes, from `QueueSpec`: `TypeCorrect`,
  `RowsCoherent`, `DependenciesAcyclic`. `RowCoherent` and `DependencyOrder` are
  inductive together with `TypeOK`; the lemmas say what each statement does to a row.
  `BlockingLoopReachesAll` is about the loop of `resolveBlockedDependencies`: every round adds
  a task or is the last (`RoundsEnd`), what the last one leaves is closed, and each task a round
  adds is in every closed set, so with finitely many tasks the loop blocks exactly `Doomed`.
* **`DaemonsProofs`, whatever happens**, any number of daemons. `OInv` is `OTypeOK` and
  `RunHasJob` (a poll that awaits an agent has a task; without it the rows the run's
  actions write are not rows). From it `OTypeCorrect` and
  `OrchestratorImplementsQueue`: every step is one statement of `TaskQueue`, and so
  `TableUnderDaemons`, which carries the table's invariants to the running system with
  no second proof.
  `CompletionIsGranted` needs `GInv`, which adds `GrantsOnRecord`: a run that was
  granted, or that is gated and was rejected after its action, has a granted request
  on record, and no action takes a grant back (`GrantsStay`).
  `StopSignalHonoured` needs `LateClaimsBounded`: a daemon that claimed after the
  signal was written is not past the check again.
* **`DaemonsProofs`, one daemon** (`SingleDaemon`). `SInv` is `GInv`, `RecoveryListIsStale` and
  `RunHoldsItsRow`, and `FailStands` (between the two calls of `fail` the row is as the first left
  it): the daemon's list is true until it is used because the other processes only submit, and a
  heartbeat ages. Hence `RecoveryIsSound`, `RunsHoldTheirRows`, `OneDaemonKeepsEnds`, for
  heartbeats however late; and `OneDaemonImplementsLifecycle`, by `SInv` and one lemma per group
  of actions that maps a step to a step of `TaskLifecycle` or to a stutter.
* **`DaemonsProofs`, several daemons**, under `Timely`: heartbeats are on time, no further apart
  than the time-out, and no task is reviewed (section 7 says why). `JInv` adds to `SInv` that no
  task has two runs (one between its two calls of `fail` counts), that the heartbeat of a live run
  is young (`LiveHeartbeats`) and that no run was rejected. A live run therefore never looks
  stale, so a recovery finds orphans only, and two recoveries share no row as long as nothing is
  lost while two daemons are up: no row in progress that nobody runs, and no run between two calls
  of `fail`, whose row the other daemon could claim meanwhile (`LossesMeetOneDaemon`, a premise
  about the behaviour, which stays next to `Spec` in `DaemonsKeepApart`). `recovery_race` is what
  happens without it. `TwoDaemonsKeepApart` does without it for at most two boots and no fault,
  which is what run `two_daemons` assumes: by `Starts` the first boot brings up one daemon, a row
  is left in progress only when it has gone, and the second boot meets that row alone.
  `DaemonsImplementLifecycle` is the refinement of `TaskLifecycle` for them: the same step lemmas
  as for one daemon, which rest on `Apart` alone: a task has one run at most, and no poll
  recovers, blocks or claims the task of a run. One daemon is apart from itself (`AloneIsApart`),
  several are by `JInv` (`TimelyAreApart`). `TwoDaemonsImplementLifecycle` again does without the
  premise. Run `two_daemons` does not check the refinement, which takes TLC longer than a run may;
  it was checked once.
* **`ReviewLoopProofs`**, any number of tasks. `RInv` is `RTypeOK` with three parts. `RowInv`: a
  run has cost its task one retry at most, or two (`OneRetryPerRun`), what can be claimed has a
  retry left, and a row left in progress is not charged yet. `RunInv`: a run has a task, is in a
  place that fits its verdict and status, and has charged nothing before it settles, or one retry
  in `settle` (`NotYetCharged`). `HandlerInv`: a rejection requeues the task of the run that
  awaits it (`RequeuesOwnTask`), and inside a tick only handlers that it started itself are
  pending (`TickIsFresh`). From it `ReviewTypes`, `RunsCostOneRetry`, `RejectionsAreHeeded`.
  `BoardIsTrue` needs `BoardInv` as well. `BoardFollowsQueue` speaks of the moments at which the
  handlers are drained; in between, the card is to agree with the task once the handler under way
  has moved it, and to say `Todo` if the poll that created the task claimed it (`CardsComeRight`),
  which holds because a task never has two handlers (`OneHandlerEach`). `CardsOnlyLost` is
  `CardsOnTheWay`: who is owed a card has it or a handler that gets to it, also without a board if
  it is the only one that is about to insert it. `ReviewImplementsLifecycle` maps each step to one
  in the life of a task, or to none: the ends of a run by `FinishIsLife`, those cut short by a
  throw by `CutShortIsLife`, the first of two calls of `fail` by `UnreadIsCharge`, the end of the
  process by `VanishIsLife`, and what the project manager writes under a live run to a stutter,
  because it writes to that run's row alone (`RequeuesOwnTask`).
* **`DesktopProofs`**, plans and retries of any length. `AgentOK` relates the agent to the
  call it awaits; `ConnectorOK` says that a call past the check was checked after the
  last reset and before the stop, and only a call in `start` awaits READY: hence
  `QueueIsTheCaller` and `StopIsBounded`. `RepliesKnown` follows a command through both
  pipes: while none has timed out, at most one command or reply is under way, that of the
  caller. It gives `SuccessIsEarned`, and dropping its premise `~late` gives the late
  reply that is credited to the next command.
* **`ServicesProofs`, guarded calls**, any number of calls. `CInv` ties the stage of a call to its rows
  and deeds (`StageTells`) and its searches to the window (`SearchesAreCounted`), from which
  `AuditIsTrue` and `RationHolds`; the latter counts with the theorems on finite sets, since the
  window is a sequence of any length.
* **`StoresProofs`, workspaces**, any number of tasks and workspaces: `ReferencesHold`. A removal
  clears what it sees; `ReadersAreRaced` and `ReadsAreValid` say that what it does not see is
  exactly what was read before, `RemovalIsClear` that after the check and `--force` no
  other task is left.
* **`StoresProofs`, browsers**, any number of tasks, launches and sweeps: `NoBrowserIsLost`. A
  browser that runs is in the Map or with the run that launches it (`SessionsAreKept`), because
  who closes one still finds its session there (`ClosersFindIt`): both for as long as no close and
  no sweep met.
* **`StoresProofs`, memories**, any number of processes and any limit. `MemoriesFindable` is `Together`
  and `Indexed`: vector and row are there or gone together but for those that a store is at or an
  eviction is half way through, which has the vector behind it and the row before it (`VectorGone`).
  `MemoriesWithinLimit` is harder: an eviction deletes rows that another one may have deleted,
  and one that throws is passed over. `EnoughGoing` says that whichever evicting stores come to
  nothing, and with the rows they wrote left out, few rows stand or one of the other evicting
  stores leaves few; it counts with
  the theorems on finite sets.
* **`ServicesProofs`, recurring tasks**: `NoTimePassedOver` by `WatermarksCovered` (every
  watermark, stored, read or being moved, has its runs behind it) and `RunsHappenOnce` by
  `InOneHand` (a schedule nobody disturbed is in one daemon's hands at most), for any number of
  daemons, schedules and runs that are due.
* **`ServicesProofs`, voice**: `WantedReplies` follows the flag through interrupted turns
  (`FlagTakenByInterrupted`); `VoiceTypes` holds because a child that is killed is a
  detector or a synthesis (`OnlyEarsAndVoicesDie`).

* **`IndexProofs`**, tables, dimensions, vectors and numbers of hits of any size, in two halves.
  *The tree is right*: `IndexInv` is `KTypeOK`, `OneNodePerRow` (the nodes hold every row once)
  and `Ordered` (a node is reached from each node above it by the side its coordinate asks for: no
  greater on the left, no less on the right). A rebuild establishes it, because `Sorted` is a
  permutation in order (`SortedIs`), the halves beside a median are on its sides (`HalfIs`,
  `PartFacts`), and a record stays in the parts it is handed down to until it is a median
  (`NodeForRow`, `RowOfOneNode`); an insertion keeps it (`InsertKeeps`). `InsertFindsPlace` says
  the descent ends (a way that met no free place would pass a node on every level, and the rows
  are finitely many). *The search is right*: `AddQueryResult` keeps the k best of what it was
  given (`RankedAdd`); what lies behind a split that is `TooFar` has no better score than the
  worst hit, by the projection of two vectors of one norm on a coordinate (`Projection`,
  `PrunesNothing`); so by induction over the height of a subtree a call leaves the k best of what
  it found and of the subtree (`SearchFinds`), and at the root these are the scores of the scan
  (`RankedIsScan`). Together `TreeSearchIsExact`.
* **`ServicesProofs`, the services together**: `ServicesTyped` and `ServicesAreSafe` carry every
  invariant of run `services` to the specification that run checks, for all values of the
  constants. Each service runs by its own specification there (`EachOnItsOwn`).

The library's induction theorems take an operator as a parameter, which no installed
prover can instantiate. `NatRecursion` states what is needed of them with sets instead
(a set of numbers that holds 0 and with every number the next holds all), derived from the
theorem on the minimal elements of well-founded relations (`WFMin`), and that a recursive function on an
interval obeys its equation.

Only model-checked:

* `EveryTaskEnds`, `NoRowStuckInProgress`, `EveryRunEnds`, `RunEnds`, `EveryDueRunHappens` and
  `NeverDeaf`: liveness under fairness is out of the prover's reach. Every other property of a
  passing run is stated by a theorem.
* Several daemons with a reviewed task, late heartbeats, or a row left in progress beside two
  of them: there the properties are false, and what is proved above is what is left.

## 6. Disagreements found

1. `recovery_race` (code): `recoverStaleTasks` reads the rows in progress, decides by
   the heartbeat it read, and fails each by id; `fail` looks neither at status nor at
   heartbeat. Two daemons recover the same row and charge two retries for one crash; if
   one has claimed the row again by then, its live run loses it. The comment says it
   "Recovers crashed tasks". A guard on the status and heartbeat that were read
   closes it. One daemon is safe (`RecoveryIsSound`).
2. `paused_task` (documentation): README.md:364 says a task halts until the operator
   answers; it is requeued as plain `pending` and claimed again at the next poll.
3. `stop_signal` (documentation): `jarvis stop` prints that deleting the signal file
   resumes processing; the poll that met it has stopped the daemon for good.

4. `override_hook` (documentation): README.md:437 says the hook is there "to instantly
   halt automated sequences". `resetActionCount` also clears the emergency stop, and the
   agent calls it after it has planned and after its second screenshot: input seen before
   is forgotten and the whole plan carried out.
5. `slow_review` (code): the reply timer of `sendAndReceive` rejects a promise that is
   awaited only after the whole review; a slow reviewer therefore ends the daemon by an
   unhandled rejection instead of reaching the engineer's catch.
6. `board_done` (documentation): README.md:310 gives the order of the columns up to `Done`; in the
   daemon the approval comes inside the run, and the run's completion moves the card back
   to `Review`, where it stays.

Seen while modelling, without a run of their own:

* `jarvis workspace switch` prints "New tasks will use this workspace" (cli/index.ts:543). The
  tasks carry it, but a running daemon keeps the root of the workspace that was active when it
  booted (bootstrap.ts:230).
* With the policy `skip`, more than 100 missed runs enqueue one run per evaluation until
  the schedule has caught up, where the comment (queue/index.ts:486) speaks of the latest run alone.
* `fail` and the event after it stand in the `try` whose `catch` calls `fail` again
  (orchestrator.ts:173, 184): when the read-back of the first (queue/index.ts:320) throws, one
  run costs two retries. With two daemons the other one may claim the requeued row between the two
  calls, and the second then takes it away (`LossesMeetOneDaemon` excludes it).
* A task that a poll creates from a schedule and claims at once keeps its card in `Todo` while
  it runs (`early`).
* After an emergency stop a command that had timed out before may still be carried out: the
  time-out (DesktopConnector.ts:314) takes nothing out of the pipe.
* A retry that starts while the browser of the last run is being closed is given that
  browser's page. A browser whose context or page cannot be made is never closed
  (`abandoned`).
* When the statement after a deed throws (`rev-parse`, the outcome row), the handler
  reports an error for what was done.
* The reply of an interrupted turn of the duplex server is sent when a later turn has set
  the flag again, and that one's reply is dropped in turn.

## 7. Not modelled

Components with status `not_modelled` in `PROJECT.json` carry the reason there. In short:

* *Terminal connector.* A command is authorised, spawned and recorded; `killAll` reaches
  what is running, not what still awaits its authorisation, and a killed command has two
  outcome rows. It keeps nothing between commands.
* *Periodic capture*, `DesktopConnector.stop`, `switchEngine`, `scheduleTask`: only the tests call
  them. A schedule is modelled from the row on, wherever it came from.
* *Message router*: the only chain of messages in the repository is engineer, reviewer,
  project manager; the hop limit is out of its reach, and nothing sends
  `write-file-request`.
* *Two daemons with a reviewed task.* The project manager requeues the row under the live
  run, and the other daemon may claim it: two runs of a task. `Orchestrator` has the
  actions; `two_daemons` has no reviewed task, because `OneRunnerPerTask` is false of it.
* *Index of another process*: what one process stores, the KD-tree of another does not
  hold until it is rebuilt. `FindableUnlessCut` speaks of the process that stored.
* *Duplex server*: `synthesize` has no listener for the error of its child process; where
  Python is missing the exception ends the daemon. `DuplexAudio` has the syntheses that end. `stop()`
  is a `Disconnect` of each connection at once; that a socket is closing for a while before its
  handler hears of it is left out, in the last moments of the daemon.
* *Voice*: continuous listening (`jarvis listen` ends at the first wake word), the mock
  engine; speech engines are external.
* *Desktop*: the arithmetic of coordinates, `analyzeScreen`, the test mode of the hook.
* Agent and model router (pure selection), health monitor (counters no decision reads),
  providers, configuration, logging and redaction (pure functions and I/O), installer and
  tray (operating system), the pages of dashboard and web server (read-only). Git status,
  log and diff ask nobody and change nothing.

## 8. Plan

What is left, in this order:

| what | how |
|---|---|
| late heartbeats of several daemons | which of `DaemonsKeepApart` is left when a heartbeat may be late |
| terminal connector | kill against an authorisation under way, the two outcomes of a killed command |
| two daemons with a reviewed task | the window between `requeue` and the end of the run |
