------------------------------ MODULE ReviewLoop ------------------------------
(***************************************************************************)
(* One daemon running coding and research tasks: the agent run, the code   *)
(* review it asks for through the message router, the project manager who  *)
(* hears the verdict, and the Kanban board, which the project manager      *)
(* moves on bus events and on verdicts.                                    *)
(*                                                                         *)
(* The handlers of bus events await nothing but promises that are already  *)
(* settled (kanban-write needs no approval), so Node drains them before it *)
(* turns to the next I/O callback or timer: a step that starts from there  *)
(* is guarded by Drained.  Inside one tick they do not run at all: a poll  *)
(* creates the due tasks, recovers and claims in a single tick, so the     *)
(* handlers of a task it creates may still be pending when it claims that  *)
(* task.  The rows are those of TaskQueue, reduced to status and retries;  *)
(* two daemons on one table are Orchestrator's subject.                    *)
(***************************************************************************)
EXTENDS Naturals

CONSTANTS
  Task,
  NoTask,
  RetryLimit,   \* max_retries of every task
  MaxCrashes,   \* bound: ends of the process other than by a late reply
  MaxFaults     \* bound: statements that throw

ASSUME ReviewConstantsAssumption ==
  /\ NoTask \notin Task
  /\ RetryLimit \in Nat
  /\ MaxCrashes \in Nat
  /\ MaxFaults \in Nat

VARIABLES
  st,         \* tasks.status; "new" before the row exists
  retries,    \* tasks.retries
  board,      \* the default board and its columns exist
  card,       \* kanban_cards.status of the task's card, which fixes its column
  handlers,   \* started continuations of the project manager
  pc, job,    \* where the agent run is, and its task
  verdict,    \* what the reviewer made of this run's output
  timer,      \* the reply time-out of sendAndReceive is armed
  up,         \* the daemon process runs
  owed,       \* history: tasks whose creation should give them a card
  disturbed,  \* history: tasks whose handler or run was cut short
  early,      \* history: tasks last claimed by the poll that created them
  recharged,  \* history: tasks whose last run was charged by two calls of fail()
  before,     \* history: retries when the task was last claimed
  crashes, faults

taskVars  == <<st, retries, before>>
boardVars == <<board, card, handlers>>
runVars   == <<pc, job, verdict, timer>>
pastVars  == <<owed, disturbed, early, recharged, crashes, faults>>
vars      == <<taskVars, boardVars, runVars, up, pastVars>>

Status  == {"new", "pending", "in-progress", "completed", "failed"}
Verdict == {"approved", "request-changes"}

\* The statuses the project manager writes on a card.
Label == {"Todo", "In Progress", "Review", "Completed", "Changes Requested",
          "Failed (Will Retry)", "Failed (Permanent)"}

Handler == [task : Task, to : Label, at : {"board", "card", "move"}]

RTypeOK ==
  /\ st \in [Task -> Status]
  /\ retries \in [Task -> 0..RetryLimit + 2]
  /\ board \in BOOLEAN
  /\ card \in [Task -> Label \cup {"none"}]
  /\ handlers \subseteq Handler
  /\ pc \in {"idle", "poll", "recall", "think", "conclude", "authorise", "review",
             "notify", "reply", "remember", "settle"}
  /\ job \in Task \cup {NoTask}
  /\ verdict \in Verdict \cup {"none"}
  /\ timer \in BOOLEAN
  /\ up \in BOOLEAN
  /\ owed \subseteq Task
  /\ disturbed \subseteq Task
  /\ early \subseteq Task
  /\ recharged \subseteq Task
  /\ before \in [Task -> 0..RetryLimit]
  /\ crashes \in 0..MaxCrashes
  /\ faults \in 0..MaxFaults

RInit ==
  /\ st = [t \in Task |-> "new"]
  /\ retries = [t \in Task |-> 0]
  /\ board = FALSE
  /\ card = [t \in Task |-> "none"]
  /\ handlers = {}
  /\ pc = "idle" /\ job = NoTask /\ verdict = "none" /\ timer = FALSE
  /\ up = TRUE
  /\ owed = {} /\ disturbed = {} /\ early = {} /\ recharged = {}
  /\ before = [t \in Task |-> 0]
  /\ crashes = 0 /\ faults = 0

\* The daemon is in the middle of a tick: in a poll before its claim, or between
\* the two calls of fail() that answer one run.
InTick == pc \in {"poll", "settle"}

Drained == up /\ handlers = {} /\ ~InTick

Fault == faults < MaxFaults /\ faults' = faults + 1

-----------------------------------------------------------------------------
(* Creating tasks; the board.                                              *)

\* A board inserted without looking for it.
CreateUnchecked(S) ==
  /\ Drained
  /\ \A t \in S : st[t] = "new"
  /\ st' = [t \in Task |-> IF t \in S THEN "pending" ELSE st[t]]
  /\ handlers' = [task : S, to : {"Todo"}, at : {"board"}]
  /\ owed' = IF board \/ (\E t \in S : S = {t}) THEN owed \cup S ELSE owed

\* The pass over the schedules inserts the rows of S, the only ones the daemon
\* inserts itself.  Each event starts handleTaskCreated, which looks for the
\* board before it awaits.
Create(S) ==
  /\ Drained
  /\ \A t \in S : st[t] = "new"
  /\ st' = [t \in Task |-> IF t \in S THEN "pending" ELSE st[t]]
  /\ handlers' = [task : S, to : {"Todo"},
                  at : {IF board THEN "card" ELSE "board"}]
  /\ owed' = IF board \/ (\E t \in S : S = {t}) THEN owed \cup S ELSE owed

\* The command line and the web server insert the row in a process that has
\* no event bus.
SubmitCli(t) ==
  /\ st[t] = "new"
  /\ st' = [st EXCEPT ![t] = "pending"]
  /\ UNCHANGED <<retries, before, boardVars, runVars, up, pastVars>>

\* initDefaultBoard after its authorisation: the second of two INSERTs
\* fails on the key, and its handler never gets to the card.
CreateBoard(h) ==
  /\ h \in handlers /\ h.at = "board"
  /\ board' = TRUE
  /\ handlers' = (handlers \ {h}) \cup
                   (IF board THEN {} ELSE {[h EXCEPT !.at = "card"]})
  /\ UNCHANGED <<taskVars, card, runVars, up, pastVars>>

CreateCard(h) ==
  /\ h \in handlers /\ h.at = "card"
  /\ card' = [card EXCEPT ![h.task] = h.to]
  /\ handlers' = handlers \ {h}
  /\ UNCHANGED <<taskVars, board, runVars, up, pastVars>>

\* A rejected task that is failed instead of requeued.
MoveCardAndFail(h) ==
  /\ h \in handlers /\ h.at = "move"
  /\ card' = [card EXCEPT ![h.task] = h.to]
  /\ handlers' = handlers \ {h}
  /\ IF h.to = "Changes Requested"
     THEN /\ st' = [st EXCEPT ![h.task] = "pending"]
          /\ retries' = [retries EXCEPT ![h.task] = @ + 1]
     ELSE UNCHANGED <<st, retries>>
  /\ UNCHANGED <<before, board, runVars, up, pastVars>>

\* moveCard; after a rejection the project manager then requeues the task,
\* whatever its row says.
MoveCard(h) ==
  /\ h \in handlers /\ h.at = "move"
  /\ card' = [card EXCEPT ![h.task] = h.to]
  /\ handlers' = handlers \ {h}
  /\ st' = IF h.to = "Changes Requested"
           THEN [st EXCEPT ![h.task] = "pending"] ELSE st
  /\ UNCHANGED <<retries, before, board, runVars, up, pastVars>>

\* A statement of a handler throws: it is logged and nothing else is done.
HandlerThrows(h) ==
  /\ h \in handlers
  /\ Fault
  /\ handlers' = handlers \ {h}
  /\ disturbed' = disturbed \cup {h.task}
  /\ UNCHANGED <<taskVars, board, card, runVars, up, owed, early, recharged, crashes>>

\* An event or a verdict for a task moves its card, if it has one.
Announce(t, label) ==
  handlers' = IF card[t] = "none" THEN handlers
              ELSE handlers \cup {[task |-> t, to |-> label, at |-> "move"]}

-----------------------------------------------------------------------------
(* The poll, up to its claim: one tick.                                    *)

\* The timer fires, and the tasks that are due, if any, are created.
PollBegin(S) ==
  /\ pc = "idle" /\ pc' = "poll"
  /\ Create(S)
  /\ UNCHANGED <<retries, before, board, card, job, verdict, timer, up, disturbed,
                 early, recharged, crashes, faults>>

\* The limit compared with the retries before this one.
FailOnceMore(t) ==
  /\ retries' = [retries EXCEPT ![t] = @ + 1]
  /\ st' = [st EXCEPT ![t] =
              IF retries[t] <= RetryLimit THEN "pending" ELSE "failed"]

\* The UPDATE of fail() names the row by its id alone.
Fail(t) ==
  /\ retries' = [retries EXCEPT ![t] = @ + 1]
  /\ st' = [st EXCEPT ![t] =
              IF retries[t] + 1 <= RetryLimit THEN "pending" ELSE "failed"]

\* A lost run that is not charged.
RecoverUncharged(t) ==
  /\ pc = "poll" /\ st[t] = "in-progress"
  /\ st' = [st EXCEPT ![t] = "pending"]
  /\ disturbed' = disturbed \cup {t}
  /\ UNCHANGED <<retries, before, boardVars, runVars, up, owed, early, recharged,
                 crashes, faults>>

\* recoverStaleTasks fails the row and emits nothing.
Recover(t) ==
  /\ pc = "poll" /\ st[t] = "in-progress"
  /\ Fail(t)
  /\ disturbed' = disturbed \cup {t}
  /\ UNCHANGED <<before, boardVars, runVars, up, owed, early, recharged, crashes,
                 faults>>

\* A claimed row, before its run has cost it anything.
Take(t) ==
  /\ pc = "poll" /\ st[t] = "pending"
  /\ st' = [st EXCEPT ![t] = "in-progress"]
  /\ before' = [before EXCEPT ![t] = retries[t]]
  /\ recharged' = recharged \ {t}

\* The claim, and task:started.  handleTaskStarted looks for the card at once:
\* there is none if this very poll created the task.
Claim(t) ==
  /\ Take(t)
  /\ job' = t /\ pc' = "recall" /\ verdict' = "none"
  /\ Announce(t, "In Progress")
  /\ early' = IF \E h \in handlers : h.task = t THEN early \cup {t} ELSE early \ {t}
  /\ UNCHANGED <<retries, board, card, timer, up, owed, disturbed, crashes, faults>>

\* The read-back of the claim throws: the row stays in progress with no run.
ClaimUnread(t) ==
  /\ Take(t)
  /\ Fault
  /\ pc' = "idle"
  /\ disturbed' = disturbed \cup {t}
  /\ UNCHANGED <<retries, boardVars, job, verdict, timer, up, owed, early, crashes>>

\* There is nothing to claim, or a statement throws before the claim.
PollEnds ==
  /\ pc = "poll" /\ pc' = "idle"
  /\ \/ (\A t \in Task : st[t] # "pending") /\ faults' = faults
     \/ Fault
  /\ UNCHANGED <<taskVars, boardVars, job, verdict, timer, up, owed, disturbed,
                 early, recharged, crashes>>

-----------------------------------------------------------------------------
(* The orchestrator around the agent.                                      *)

LeaveRun == pc' = "idle" /\ job' = NoTask /\ verdict' = "none"

FinishCompleted ==
  /\ st' = [st EXCEPT ![job] = "completed"]
  /\ Announce(job, "Review")
  /\ LeaveRun
  /\ UNCHANGED retries

\* An event that says the wrong thing about what comes next.
FinishFailedMislabelled ==
  /\ Fail(job)
  /\ Announce(job, IF retries[job] < RetryLimit + 1
                   THEN "Failed (Will Retry)" ELSE "Failed (Permanent)")
  /\ LeaveRun

\* fail() counts the retry and says whether there is another.
FinishFailed ==
  /\ Fail(job)
  /\ Announce(job, IF retries[job] + 1 <= RetryLimit
                   THEN "Failed (Will Retry)" ELSE "Failed (Permanent)")
  /\ LeaveRun

FinishPaused ==
  /\ st' = [st EXCEPT ![job] = "pending"]
  /\ LeaveRun
  /\ UNCHANGED <<retries, handlers>>

\* A step of the run that leaves the table and the board alone.
Advance(from, to) ==
  /\ Drained /\ pc = from
  /\ pc' = to
  /\ UNCHANGED <<taskVars, boardVars, job, up, pastVars>>

-----------------------------------------------------------------------------
(* The agent.                                                              *)

\* The software engineer's memories; whatever fails here is swallowed.
Recall == Advance("recall", "think") /\ UNCHANGED <<verdict, timer>>

\* The researcher instead reads files, memories, the screen and the web:
\* what fails becomes a caveat of the answer.
Research == Advance("recall", "conclude") /\ UNCHANGED <<verdict, timer>>

\* The researcher's model answers, or its exception reaches the orchestrator.
Conclude ==
  \/ Advance("conclude", "remember") /\ UNCHANGED <<verdict, timer>>
  \/ /\ Drained /\ pc = "conclude"
     /\ FinishFailed
     /\ UNCHANGED <<before, board, card, timer, up, pastVars>>

\* The model answers and there is a file to write; or there is none; or the
\* router gives up, and the exception reaches the orchestrator.
Think ==
  \/ \E next \in {"authorise", "remember"} :
       Advance("think", next) /\ UNCHANGED <<verdict, timer>>
  \/ /\ Drained /\ pc = "think"
     /\ FinishFailed
     /\ UNCHANGED <<before, board, card, timer, up, pastVars>>

NotWritten ==
  /\ Drained /\ pc = "authorise"
  /\ \/ FinishFailed
     \/ FinishPaused
  /\ UNCHANGED <<before, board, card, timer, up, pastVars>>

\* A request without a time-out.
SendReviewUntimed ==
  Advance("authorise", "review") /\ UNCHANGED <<verdict, timer>>

\* The file is written and the review asked for: sendAndReceive arms its
\* timer before it sends.
SendReview ==
  /\ Advance("authorise", "review")
  /\ timer' = TRUE
  /\ UNCHANGED verdict

\* performReview: the model's verdict, or approval when it gave none.
ReviewDone ==
  /\ Advance("review", "notify")
  /\ verdict' \in Verdict
  /\ UNCHANGED timer

\* The project manager receives review-result.
Notify ==
  /\ Drained /\ pc = "notify"
  /\ pc' = "reply"
  /\ Announce(job, IF verdict = "approved" THEN "Completed"
                   ELSE "Changes Requested")
  /\ UNCHANGED <<taskVars, board, card, job, verdict, timer, up, pastVars>>

\* A reply that carries no correlation id reaches nobody.
ReplyUnmatched ==
  /\ Advance("reply", "remember")
  /\ UNCHANGED <<verdict, timer>>

\* The reviewer's reply: the timer is cleared.
Reply ==
  /\ Drained /\ pc = "reply"
  /\ timer' = FALSE
  /\ \/ /\ verdict = "approved"
        /\ pc' = "remember"
        /\ UNCHANGED <<st, retries, handlers, job, verdict>>
     \/ /\ verdict = "request-changes"
        /\ FinishFailed
  /\ UNCHANGED <<before, board, card, up, pastVars>>

\* An audit row of a message, to the reviewer or to the project manager,
\* cannot be written: send throws, the software engineer takes it for no
\* review, and the timer stays armed.
SendThrows ==
  /\ Drained /\ pc \in {"review", "notify", "reply"}
  /\ Fault
  /\ pc' = "remember"
  /\ UNCHANGED <<taskVars, boardVars, job, verdict, timer, up, owed,
                 disturbed, early, recharged, crashes>>

\* The memory of the work is stored, or not; the task is completed.
Remember ==
  /\ Drained /\ pc = "remember"
  /\ FinishCompleted
  /\ UNCHANGED <<before, board, card, timer, up, pastVars>>

-----------------------------------------------------------------------------
(* Statements that throw when the run settles.                             *)

\* The agent's result is a failure: fail() is called inside the try.
FailedResult == pc = "authorise" \/ (pc = "reply" /\ verdict = "request-changes")

\* The agent has a result, or threw.
Over == pc \in {"conclude", "think", "remember"} \/ FailedResult

\* complete() throws, and the catch fails the task.
CompleteThrows ==
  /\ Drained /\ pc = "remember"
  /\ Fault
  /\ FinishFailed
  /\ UNCHANGED <<before, board, card, timer, up, owed, disturbed, early, recharged,
                 crashes>>

\* The poll loop does not get through the catch: the row is written or not, and
\* there is no event.
SettleThrows ==
  /\ Drained /\ Over
  /\ Fault
  /\ Fail(job) \/ UNCHANGED <<st, retries>>
  /\ timer' = (timer /\ pc # "reply")
  /\ disturbed' = disturbed \cup {job}
  /\ LeaveRun
  /\ UNCHANGED <<before, boardVars, up, owed, early, recharged, crashes>>

\* fail() has updated the row when its read-back throws, inside the try ...
FailUnread ==
  /\ Drained /\ FailedResult
  /\ Fault
  /\ Fail(job)
  /\ timer' = (timer /\ pc # "reply")
  /\ pc' = "settle"
  /\ UNCHANGED <<before, boardVars, job, verdict, up, owed, disturbed, early,
                 recharged, crashes>>

\* ... so the catch fails the task again, and tells of that ...
FailAgain ==
  /\ pc = "settle"
  /\ FinishFailed
  /\ recharged' = recharged \cup {job}
  /\ UNCHANGED <<before, board, card, timer, up, owed, disturbed, early, crashes,
                 faults>>

\* ... unless that throws too, before or after its UPDATE.
FailAgainThrows ==
  /\ pc = "settle"
  /\ \/ Fail(job) /\ recharged' = recharged \cup {job}
     \/ UNCHANGED <<st, retries, recharged>>
  /\ disturbed' = disturbed \cup {job}
  /\ LeaveRun
  /\ UNCHANGED <<before, boardVars, timer, up, owed, early, crashes, faults>>

-----------------------------------------------------------------------------
(* The end of the process.                                                 *)

Vanish ==
  /\ up' = FALSE
  /\ handlers' = {}
  /\ pc' = "idle" /\ job' = NoTask /\ verdict' = "none" /\ timer' = FALSE
  /\ disturbed' = disturbed \cup {h.task : h \in handlers}
                    \cup (IF job = NoTask THEN {} ELSE {job})
  /\ UNCHANGED <<taskVars, board, card, owed, early, recharged, faults>>

\* The reply time-out rejects a promise that sendAndReceive has not yet
\* awaited, or never will: an unhandled rejection, which ends the process.
ReplyTimeout ==
  /\ Drained /\ timer
  /\ Vanish
  /\ UNCHANGED crashes

Crash ==
  /\ up
  /\ crashes < MaxCrashes
  /\ crashes' = crashes + 1
  /\ Vanish

Boot ==
  /\ ~up
  /\ up' = TRUE
  /\ UNCHANGED <<taskVars, boardVars, runVars, pastVars>>

-----------------------------------------------------------------------------
Handle == /\ ~InTick
          /\ \E h \in handlers :
               CreateBoard(h) \/ CreateCard(h) \/ MoveCard(h) \/ HandlerThrows(h)

Work == Recall \/ Research \/ Conclude \/ Think \/ NotWritten \/ SendReview
          \/ Notify \/ Reply \/ SendThrows \/ Remember

Settle == CompleteThrows \/ SettleThrows \/ FailUnread \/ FailAgain \/ FailAgainThrows

Poll == \/ \E S \in SUBSET Task : PollBegin(S)
        \/ \E t \in Task : Recover(t) \/ Claim(t) \/ ClaimUnread(t)
        \/ PollEnds

Outside == \/ \E t \in Task : SubmitCli(t)
           \/ Crash

RNext == Outside \/ Poll \/ Handle \/ Work \/ Settle \/ ReviewDone \/ ReplyTimeout
           \/ Boot

RSpec == RInit /\ [][RNext]_vars

\* Node runs its callbacks and timers, and a catch once it is entered.  The
\* reviewer's model call is not assumed to end: the reply time-out bounds the wait.
RFairSpec == /\ RSpec
             /\ WF_vars(Handle)
             /\ WF_vars(Work)
             /\ WF_vars(FailAgain)
             /\ WF_vars(ReplyTimeout)

-----------------------------------------------------------------------------
(* Properties.                                                             *)

\* Once the handlers have run, the card of a task tells what became of it:
\* the events of orchestrator.ts and the verdicts of the reviewer reach the
\* board in the order they happened, unless a statement threw or the
\* process ended in between (the board is not repaired after that).  Only a
\* task claimed by the poll that created it waits in Todo while it runs:
\* task:started found no card, and the card that came later says "Todo".
BoardFollowsQueue ==
  Drained => \A t \in Task \ disturbed :
    card[t] # "none" =>
      LET started == IF t \in early THEN "Todo" ELSE "In Progress"
      IN card[t] \in
        CASE job = t /\ verdict = "none"  -> {started}
          [] job = t /\ verdict # "none" -> {started, "Completed", "Changes Requested"}
          [] job # t /\ st[t] = "pending" ->
               {"Todo", "In Progress", "Failed (Will Retry)"}
          [] st[t] = "completed" -> {"Review"}
          [] st[t] = "failed"    -> {"Failed (Permanent)"}

\* A task created in the daemon has a card, unless it was created with
\* others in the very batch that found no board: initDefaultBoard looks
\* before it awaits, and only the first handler gets past the INSERT.
CardsOnlyLostAtFirst ==
  Drained => \A t \in owed \ disturbed : card[t] # "none"

\* Whatever way a run ends - rejected, requeued by the project manager and
\* then failed by the orchestrator, lost and recovered, its result not
\* written - it costs the task one retry at most; two, and no more, if the
\* orchestrator failed it twice because the first fail() threw when its
\* UPDATE was done.
OneRetryPerRun ==
  \A t \in Task : retries[t] <= before[t] + IF t \in recharged THEN 2 ELSE 1

\* A task whose review asked for changes is not completed by that run,
\* unless a statement threw on the way back.
RejectionHeeded ==
  [][(verdict = "request-changes" /\ faults = 0 /\ pc' = "idle")
        => st'[job] # "completed"]_vars

\* A task in the terms of TaskLifecycle: it runs as long as the agent is at it,
\* whatever its row says, is charged between the two calls of fail(), and is
\* orphaned if only its row says so.
LifeState(t) ==
  CASE job = t /\ pc # "settle"              -> "running"
    [] job = t /\ pc = "settle"              -> "charged"
    [] job # t /\ st[t] = "new"              -> "absent"
    [] job # t /\ st[t] = "pending"          -> "waiting"
    [] job # t /\ st[t] = "in-progress"      -> "orphaned"
    [] OTHER                                 -> st[t]

LimitOf(t) == IF st[t] = "new" THEN 0 ELSE RetryLimit

LifeOf == [t \in Task |-> [state |-> LifeState(t), lost |-> retries[t],
                           limit |-> LimitOf(t), needs |-> NoTask]]

Life == INSTANCE TaskLifecycle
          WITH TaskId <- Task, None <- NoTask, Limits <- {RetryLimit}, task <- LifeOf

\* Reviews, requeues under a live run, lost replies and crashes, and a project
\* manager who writes to the rows of others, keep the promise of TaskLifecycle:
\* ended tasks stay ended, and every lost run is charged once, or a second time
\* where fail() threw with its UPDATE done.
ReviewsKeepLifecycle == Life!Spec

\* Every run of an agent leaves the poll loop free again, even when the
\* reviewer never answers.
EveryRunEnds == (job # NoTask) ~> (job = NoTask)

\* "Code review timed out or failed." is an error the software engineer
\* catches and logs: a late review does not end the daemon.
LateReviewIsCaught == up

\* The columns follow the progress of a task: a card the reviewer's approval
\* moved to Done stays there.
ApprovedIsDone ==
  [][\A t \in Task : card[t] = "Completed" => card'[t] = "Completed"]_vars
=============================================================================
