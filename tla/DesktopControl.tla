---------------------------- MODULE DesktopControl ----------------------------
(***************************************************************************)
(* Desktop automation: the desktop operator agent, which turns a task into *)
(* a list of actions and performs them one by one; the desktop connector,  *)
(* which checks each one and hands it to a persistent Python process; that *)
(* process, reached through two pipes; and the hardware override hook.     *)
(*                                                                         *)
(* The orchestrator runs one agent at a time, so the connector has one     *)
(* caller at a time.  What interleaves with that caller are callbacks:     *)
(* lines and the end of the Python process, timers, the emergency stop.    *)
(***************************************************************************)
EXTENDS Naturals, Sequences, SequencesExt

CONSTANTS
  Plan,         \* the action lists a model answer can parse to
  MaxActions,   \* desktopMaxActionsPerSequence
  MaxRetries,   \* maxRetries of a visual click
  HookRequired, \* the platform is one where the override hook must be active
  MaxRuns,      \* bound: desktop tasks
  MaxDeaths     \* bound: ends of the Python process

\* "mouse": coordinates the plan names; "keys": keyboard or focus;
\* "pause": wait; "visual": a click aimed by looking at the screen; and three
\* that take two commands: open_tab, navigate and open_browser.
Kind == {"mouse", "keys", "pause", "visual", "tab", "navigate", "browser"}

ASSUME DesktopConstantsAssumption ==
  /\ Plan \subseteq Seq(Kind)
  /\ MaxActions \in Nat \ {0}
  /\ MaxRetries \in Nat
  /\ HookRequired \in BOOLEAN
  /\ MaxRuns \in Nat
  /\ MaxDeaths \in Nat

VARIABLES
  pc,         \* where DesktopOperatorAgent.process is
  plan,       \* actions still to perform
  attempt,    \* attempt of the visual click under way
  cont,       \* which call of the agent awaits the connector
  call,       \* where that runAction is
  stopped,    \* DesktopConnector.emergencyStopped
  count,      \* DesktopConnector.actionCount
  pending,    \* pendingQueue: the commands whose reply is awaited
  starting,   \* daemonStarting: the READY line is awaited
  obs,        \* lastObservation exists
  hook,       \* OverrideHookConnector.status
  proc,       \* the Python process
  inPipe,     \* commands written to it and not yet read
  outPipe,    \* lines it printed and the connector has not yet handled
  outcome,    \* status the last run reported
  cmd,        \* history: commands written so far, which names them
  done,       \* history: the last command written had its effect
  late,       \* history: a command of this Python process timed out
  sent,       \* history: commands begun since stopped was last set
  override,   \* history: hardware input was seen during this run
  defied,     \* history: commands begun since then
  runs, deaths

agentVars == <<pc, plan, attempt, cont, call, outcome>>
connVars  == <<stopped, count, pending, starting, cmd, sent, defied>>
procVars  == <<proc, inPipe, outPipe, done, late>>
envVars   == <<obs, hook, override, runs, deaths>>
vars      == <<agentVars, connVars, procVars, envVars>>

Ready == 0      \* the line that says READY; commands are numbered from 1

DTypeOK ==
  /\ pc \in {"idle", "look", "think", "relook", "act", "aim", "hover",
             "verify", "call", "store", "exited"}
  /\ plan \in Seq(Kind)
  /\ attempt \in 0..MaxRetries
  /\ cont \in {"none", "plain", "first", "move", "nudge", "click"}
  /\ call \in {"none", "check", "auth", "before", "start", "reply", "after"}
  /\ stopped \in BOOLEAN
  /\ count \in 0..MaxActions
  /\ pending \in Seq(1..cmd)
  /\ starting \in BOOLEAN
  /\ obs \in BOOLEAN
  /\ hook \in {"installing", "active", "inactive", "failed"}
  /\ proc \in {"none", "loading", "up", "dead"}
  /\ inPipe \in Seq(1..cmd)
  /\ outPipe \in Seq([of : Ready..cmd, ok : BOOLEAN])
  /\ outcome \in {"none", "completed", "failed", "pending-approval"}
  /\ cmd \in Nat
  /\ done \in BOOLEAN
  /\ late \in BOOLEAN
  /\ sent \in Nat
  /\ override \in BOOLEAN
  /\ defied \in Nat
  /\ runs \in 0..MaxRuns
  /\ deaths \in 0..MaxDeaths

DInit ==
  /\ pc = "idle" /\ plan = <<>> /\ attempt = 0 /\ cont = "none"
  /\ call = "none" /\ outcome = "none"
  /\ stopped = FALSE /\ count = 0 /\ pending = <<>> /\ starting = FALSE
  /\ cmd = 0 /\ sent = 0 /\ defied = 0
  /\ proc = "none" /\ inPipe = <<>> /\ outPipe = <<>> /\ done = FALSE
  /\ late = FALSE
  /\ obs = FALSE /\ hook = "installing" /\ override = FALSE
  /\ runs = 0 /\ deaths = 0

-----------------------------------------------------------------------------
(* The agent.                                                              *)

EndRun(status) ==
  /\ pc' = "idle"
  /\ outcome' = status
  /\ plan' = <<>>
  /\ attempt' = 0
  /\ cont' = "none"
  /\ call' = "none"

\* Runs whose plan goes on with pc' = next.
Goto(next) ==
  /\ pc' = next
  /\ cont' = "none"
  /\ call' = "none"
  /\ UNCHANGED <<plan, outcome, attempt>>

\* An action of the plan is done: on to the next.
NextAction ==
  /\ pc' = "act"
  /\ plan' = Tail(plan)
  /\ attempt' = 0
  /\ cont' = "none"
  /\ call' = "none"
  /\ UNCHANGED outcome

Call(by) ==
  /\ pc' = "call"
  /\ cont' = by
  /\ call' = "check"
  /\ UNCHANGED <<plan, outcome, attempt>>

\* After the first command of two: nobody looks at the result of the one that
\* focuses a window for a new tab, the URL is typed before it is entered, and
\* the start menu opened if there is no browser window to focus.
SecondFollows(status) ==
  \/ Head(plan) = "tab"
  \/ Head(plan) = "navigate" /\ status = "SUCCESS"
  \/ Head(plan) = "browser" /\ status # "SUCCESS"

\* The connector's promise settles.  A failed command ends the run, except
\* the correction of a hovering cursor, whose result nobody looks at.
Return(status) ==
  IF cont = "nudge" THEN Call("click")
  ELSE IF cont = "first" /\ SecondFollows(status) THEN Call("plain")
  ELSE IF status = "SUCCESS"
       THEN CASE cont \in {"plain", "first"} -> NextAction
              [] cont = "move"  -> Goto("hover")
              [] cont = "click" -> Goto("verify")
       ELSE EndRun(IF status = "CONFIRMATION_REQUIRED"
                   THEN "pending-approval" ELSE "failed")

StartRun ==
  /\ pc = "idle"
  /\ runs < MaxRuns
  /\ runs' = runs + 1
  /\ pc' = "look"
  /\ override' = FALSE /\ defied' = 0
  /\ UNCHANGED <<plan, attempt, cont, call, outcome, stopped, count, pending,
                 starting, cmd, sent, procVars, obs, hook, deaths>>

\* captureScreen: a screenshot, or a refusal or error its callers swallow.
Capture == obs' \in {obs, TRUE}

Look ==
  /\ pc = "look"
  /\ Goto("think")
  /\ Capture
  /\ UNCHANGED <<connVars, procVars, hook, override, runs, deaths>>

\* resetActionCount also clears the emergency stop.
ResetActionCount ==
  /\ count' = 0
  /\ stopped' = FALSE
  /\ sent' = 0

\* The model's answer: no list, or one of the plans; then the first reset.
Think ==
  /\ pc = "think"
  /\ \/ /\ EndRun("failed")
        /\ UNCHANGED <<stopped, count, sent>>
     \/ /\ \E p \in Plan : plan' = p
        /\ pc' = "relook"
        /\ UNCHANGED <<attempt, cont, call, outcome>>
        /\ ResetActionCount
  /\ UNCHANGED <<pending, starting, cmd, defied, procVars, envVars>>

\* The second capture and the second reset, right before the actions.
Relook ==
  /\ pc = "relook"
  /\ Capture
  /\ Goto("act")
  /\ ResetActionCount
  /\ UNCHANGED <<pending, starting, cmd, defied, procVars, hook,
                 override, runs, deaths>>

\* The loop over the actions; when none is left the result is remembered.
\* An action that is not known, or whose coordinates do not resolve, throws.
Act ==
  /\ pc = "act"
  /\ IF plan = <<>> THEN Goto("store")
     ELSE \/ EndRun("failed")
          \/ CASE Head(plan) = "pause"           -> NextAction
               [] Head(plan) = "visual"          -> Goto("aim")
               [] Head(plan) \in {"mouse", "keys"} -> Call("plain")
              [] Head(plan) \in {"tab", "navigate", "browser"} -> Call("first")
  /\ UNCHANGED <<connVars, procVars, envVars>>

Store ==
  /\ pc = "store"
  /\ \E status \in {"completed", "failed"} : EndRun(status)
  /\ UNCHANGED <<connVars, procVars, envVars>>

\* resolveVisualCoordinates: a capture that is not permitted throws; with no
\* answer of the model the target is guessed from the layout.
ResolveVisualCoordinates ==
  \/ /\ EndRun("failed")
     /\ UNCHANGED obs
  \/ /\ Capture
     /\ Call("move")

\* executeVisualClickWithVerification, from here to Verify.
Aim ==
  /\ pc = "aim"
  /\ ResolveVisualCoordinates
  /\ UNCHANGED <<connVars, procVars, hook, override, runs, deaths>>

\* confirmVisualTargetHover: the model looks where the cursor hovers and may
\* ask for a correction; on any error the click goes ahead.
HoverVerdict == {"nudge", "click"}

Hover ==
  /\ pc = "hover"
  /\ Capture
  /\ \E by \in HoverVerdict : Call(by)
  /\ UNCHANGED <<connVars, procVars, hook, override, runs, deaths>>

\* verifyVideoPlayerTransition: what the model makes of the screen after the
\* click; an error counts as a transition.
TransitionVerdict == BOOLEAN

Verify ==
  /\ pc = "verify"
  /\ Capture
  /\ \E transitioned \in TransitionVerdict :
       IF transitioned THEN NextAction
       ELSE IF attempt < MaxRetries
       THEN /\ attempt' = attempt + 1
            /\ pc' = "aim"
            /\ UNCHANGED <<plan, cont, call, outcome>>
       ELSE EndRun("failed")
  /\ UNCHANGED <<connVars, procVars, hook, override, runs, deaths>>

-----------------------------------------------------------------------------
(* The connector: runAction and executeScript.                             *)

NeedsObservation == cont \notin {"plain", "first"} \/ Head(plan) = "mouse"

\* validateSafety without its first check and without the action limit.
SafeForEver(young) ==
  /\ HookRequired => hook = "active"
  /\ NeedsObservation => obs /\ young

\* validateSafety without its first check.  The observation a coordinate
\* needs may be older than desktopObservationMaxAgeMs by now.
SafeButForStop(young) ==
  /\ HookRequired => hook = "active"
  /\ count < MaxActions
  /\ NeedsObservation => obs /\ young

\* validateSafety, up to the authorisation it awaits.
Safe(young) == ~stopped /\ SafeButForStop(young)

Check ==
  /\ call = "check"
  /\ \E young \in BOOLEAN :
       IF Safe(young)
       THEN /\ call' = "auth"
            /\ UNCHANGED <<pc, plan, attempt, cont, outcome>>
       ELSE Return("DENIED")
  /\ UNCHANGED <<connVars, procVars, envVars>>

Authorise ==
  /\ call = "auth"
  /\ \/ /\ call' = "before"
        /\ count' = count + 1
        /\ UNCHANGED <<pc, plan, attempt, cont, outcome>>
     \/ /\ \E status \in {"DENIED", "CONFIRMATION_REQUIRED"} : Return(status)
        /\ UNCHANGED count
  /\ UNCHANGED <<stopped, pending, starting, cmd, sent, defied,
                 procVars, envVars>>

\* The promise of executeScript is queued and the command is written.  A
\* process that has just ended breaks the pipe: the write is lost, or its
\* unhandled error event ends the whole program.
WriteCommand ==
  /\ cmd' = cmd + 1
  /\ pending' = Append(pending, cmd + 1)
  /\ done' = FALSE
  /\ sent' = IF stopped THEN sent + 1 ELSE 0
  /\ defied' = IF override THEN defied + 1 ELSE 0
  /\ \/ /\ call' = "reply"
        /\ UNCHANGED pc
     \/ /\ proc = "dead"
        /\ call' = "none"
        /\ pc' = "exited"
  /\ inPipe' = IF proc = "dead" THEN inPipe ELSE Append(inPipe, cmd + 1)
  /\ UNCHANGED <<plan, attempt, cont, outcome>>

\* The screenshot before the action, then ensureDaemon: a process object
\* counts as running, READY or not.
Begin ==
  /\ call = "before"
  /\ Capture
  /\ IF proc # "none"
     THEN /\ WriteCommand
          /\ UNCHANGED <<starting, proc, late>>
     ELSE /\ proc' = "loading"
          /\ starting' = TRUE
          /\ late' = FALSE
          /\ call' = "start"
          /\ UNCHANGED <<pc, plan, attempt, cont, outcome, pending,
                         cmd, sent, defied, inPipe, done>>
  /\ UNCHANGED <<stopped, count, outPipe, hook, override, runs, deaths>>

ReadyTimeout ==
  /\ starting
  /\ starting' = FALSE
  /\ Return("FAILED")
  /\ UNCHANGED <<stopped, count, pending, cmd, sent, defied,
                 procVars, envVars>>

SpawnError ==
  /\ proc = "loading" /\ starting
  /\ proc' = "none"
  /\ starting' = FALSE
  /\ Return("FAILED")
  /\ UNCHANGED <<stopped, count, pending, cmd, sent, defied, inPipe,
                 outPipe, done, late, envVars>>

\* A time-out that leaves the entry where it is.
CommandTimeoutKeepsEntry ==
  /\ call = "reply"
  /\ late' = TRUE
  /\ Return("FAILED")
  /\ UNCHANGED <<stopped, count, pending, starting, cmd, sent,
                 defied, proc, inPipe, outPipe, done, envVars>>

\* A time-out that removes the entry and forgets to reject.
CommandTimeoutForgetsCaller ==
  /\ call = "reply"
  /\ \E i \in DOMAIN pending : pending[i] = cmd /\ pending' = RemoveAt(pending, i)
  /\ late' = TRUE
  /\ UNCHANGED <<agentVars, stopped, count, starting, cmd, sent, defied, proc,
                 inPipe, outPipe, done, envVars>>

\* The timer of a command: its entry leaves the queue, its caller is told.
CommandTimeout ==
  /\ call = "reply"
  /\ \E i \in DOMAIN pending : pending[i] = cmd /\ pending' = RemoveAt(pending, i)
  /\ late' = TRUE
  /\ Return("FAILED")
  /\ UNCHANGED <<stopped, count, starting, cmd, sent, defied, proc,
                 inPipe, outPipe, done, envVars>>

\* One line of the process.  A reply is given to whoever is first in the
\* queue; with nobody there it is dropped.
HandleLine ==
  /\ outPipe # <<>>
  /\ outPipe' = Tail(outPipe)
  /\ LET line == Head(outPipe) IN
     IF line.of = Ready
     THEN /\ starting' = FALSE
          /\ IF starting THEN WriteCommand
             ELSE UNCHANGED <<agentVars, pending, cmd, sent, defied, inPipe,
                              done>>
     ELSE /\ IF pending = <<>>
             THEN UNCHANGED <<agentVars, pending>>
             ELSE /\ pending' = Tail(pending)
                  /\ IF line.ok
                     THEN /\ call' = "after"
                          /\ UNCHANGED <<pc, plan, attempt, cont, outcome>>
                     ELSE Return("FAILED")
          /\ UNCHANGED <<starting, cmd, sent, defied, inPipe, done>>
  /\ UNCHANGED <<stopped, count, proc, late, envVars>>

\* The screenshot after the action.
Finish ==
  /\ call = "after"
  /\ Capture
  /\ Return("SUCCESS")
  /\ UNCHANGED <<connVars, procVars, hook, override, runs, deaths>>

\* The close event: whoever awaits a reply is told.  Whoever awaits READY is
\* not: cleanup cancels the only timer that would have rejected its promise.
DaemonClosed ==
  /\ proc = "dead" /\ outPipe = <<>>
  /\ proc' = "none"
  /\ starting' = FALSE
  /\ pending' = <<>>
  /\ inPipe' = <<>>
  /\ IF pending # <<>> THEN Return("FAILED")
     ELSE UNCHANGED <<pc, plan, attempt, cont, call, outcome>>
  /\ UNCHANGED <<stopped, count, cmd, sent, defied, outPipe, done,
                 late, envVars>>

-----------------------------------------------------------------------------
(* tools/desktop_control.py, run_daemon.                                   *)

DaemonReady ==
  /\ proc = "loading"
  /\ proc' = "up"
  /\ outPipe' = Append(outPipe, [of |-> Ready, ok |-> TRUE])
  /\ UNCHANGED <<agentVars, connVars, inPipe, done, late, envVars>>

\* execute_payload: the effect on the mouse, the keyboard or a window.
ExecutePayload(c, ok) == done' = (done \/ (ok /\ c = cmd))

\* An exception caught and answered as if the command had worked.
ExecuteHidesException ==
  /\ proc = "up" /\ inPipe # <<>>
  /\ inPipe' = Tail(inPipe)
  /\ \E ok \in BOOLEAN :
       /\ outPipe' = Append(outPipe, [of |-> Head(inPipe), ok |-> TRUE])
       /\ ExecutePayload(Head(inPipe), ok)
  /\ UNCHANGED <<agentVars, connVars, proc, late, envVars>>

\* One command, in the order they came; an exception is answered FAILED.
Execute ==
  /\ proc = "up" /\ inPipe # <<>>
  /\ inPipe' = Tail(inPipe)
  /\ \E ok \in BOOLEAN :
       /\ outPipe' = Append(outPipe, [of |-> Head(inPipe), ok |-> ok])
       /\ ExecutePayload(Head(inPipe), ok)
  /\ UNCHANGED <<agentVars, connVars, proc, late, envVars>>

DaemonDies ==
  /\ proc \in {"loading", "up"}
  /\ deaths < MaxDeaths
  /\ proc' = "dead"
  /\ deaths' = deaths + 1
  /\ UNCHANGED <<agentVars, connVars, inPipe, outPipe, done, late, obs, hook,
                 override, runs>>

-----------------------------------------------------------------------------
(* The override hook and the emergency stop.                              *)

HookAnswers ==
  /\ hook = "installing"
  /\ hook' \in {"active", "failed"}
  /\ UNCHANGED <<agentVars, connVars, procVars, obs, override, runs, deaths>>

HookCloses ==
  /\ hook = "active"
  /\ hook' = "inactive"
  /\ UNCHANGED <<agentVars, connVars, procVars, obs, override, runs, deaths>>

\* queue:emergency-stop: from the tray, voice or the stop file ...
EmergencyStop ==
  /\ ~stopped
  /\ stopped' = TRUE
  /\ UNCHANGED <<agentVars, count, pending, starting, cmd, sent, defied,
                 procVars, envVars>>

\* ... or because the hook saw input that no program injected.
Override ==
  /\ hook = "active"
  /\ pc \notin {"idle", "exited"}
  /\ stopped' = TRUE
  /\ override' = TRUE
  /\ UNCHANGED <<agentVars, count, pending, starting, cmd, sent, defied,
                 procVars, obs, hook, runs, deaths>>

-----------------------------------------------------------------------------
Agent == StartRun \/ Look \/ Think \/ Relook \/ Act \/ Store \/ Aim \/ Hover
           \/ Verify

Connector == Check \/ Authorise \/ Begin \/ ReadyTimeout \/ SpawnError
               \/ CommandTimeout \/ HandleLine \/ Finish \/ DaemonClosed

Environment == DaemonReady \/ Execute \/ DaemonDies \/ HookAnswers
                 \/ HookCloses \/ EmergencyStop \/ Override

DNext == pc # "exited" /\ (Agent \/ Connector \/ Environment)

DSpec == DInit /\ [][DNext]_vars

\* Node runs every callback and every timer; the model provider and the
\* screenshot have time-outs of their own, so the agent's awaits settle.
\* Nothing is assumed of the Python process but that its end is noticed.
DFairSpec ==
  /\ DSpec
  /\ WF_vars(Look \/ Think \/ Relook \/ Act \/ Store \/ Aim \/ Hover \/ Verify)
  /\ WF_vars(Check \/ Authorise \/ Begin \/ Finish)
  /\ WF_vars(ReadyTimeout)
  /\ WF_vars(CommandTimeout)
  /\ WF_vars(HandleLine)
  /\ WF_vars(DaemonClosed)

-----------------------------------------------------------------------------
(* Properties.                                                             *)

\* The queue of awaited replies holds exactly the command whose caller
\* waits: no time-out, end of the process or late reply leaves an entry
\* without a caller (DesktopConnector.ts, pendingQueue) nor a caller without
\* an entry.
QueueMatchesCaller ==
  pc # "exited" => pending = IF call = "reply" THEN <<cmd>> ELSE <<>>

\* A command whose caller is told of success was performed - as long as no
\* command of the same Python process timed out before: replies carry no
\* identity, so from then on each one may be credited to a later command
\* (DesktopConnector.ts, pendingQueue.shift).
SuccessMeansDone ==
  [][call = "reply" /\ call' = "after" /\ ~late => done]_vars

\* After an emergency stop at most one more command is begun, that of the
\* action which had passed the check already (validateSafety is followed by
\* two awaits), whatever the agent has left to do.  What was begun before may
\* still be carried out: a command that timed out stays in the pipe.
StopBound == sent <= 1

\* Hardware input during a task halts it: at most one more command is begun,
\* that of the action under way.  (README.md: "to instantly halt automated sequences
\* if physical hardware input is detected during task execution".)
OverrideHalts == defied <= 1

\* The caller of ensureDaemon whose Python process ended before it said
\* READY: nothing will settle its promise.
StartLost == call = "start" /\ ~starting

\* Every run of the agent ends, whatever the Python process does and with
\* no answer from it - except when that process ends between its start and
\* its READY line, where the run waits for ever.
RunEnds == (pc # "idle") ~> (pc \in {"idle", "exited"} \/ StartLost)
=============================================================================
