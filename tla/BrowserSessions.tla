---------------------------- MODULE BrowserSessions ---------------------------
(***************************************************************************)
(* The browsers of BrowserConnector: one per task, launched by its first   *)
(* operation and kept in a Map until the task's completed or failed event, *)
(* an emergency stop or the shutdown closes it.  Launching and closing are *)
(* awaited, so a retry of the task and the other closers run meanwhile.    *)
(***************************************************************************)
EXTENDS Naturals, FiniteSets, Sequences, SequencesExt

CONSTANTS
  BTask,        \* tasks that browse
  Sweep,        \* calls of close() without a task: emergency stops, shutdown
  MaxBrowsers,  \* bound: browsers launched
  MaxErrors     \* bound: launches and closes that are rejected

ASSUME BrowserAssumption == MaxBrowsers \in Nat \ {0} /\ MaxErrors \in Nat

VARIABLES
  run,        \* where the current run of a task is
  opening,    \* the browser it launches
  sessions,   \* the Map in insertion order: [key, browser]
  alive,      \* browsers that run
  launched,   \* how many there were
  closing,    \* close(task) that await a browser's end: <<task, browser>>
              \* (two of them for one browser resolve together)
  sweepAt,    \* close(): the browser it awaits
  swept,      \* and those its iteration has been at
  abandoned,  \* history: browsers whose launch was rejected half way
  crossed,    \* history: tasks one of whose browsers a close and a sweep closed
  errors

bvars == <<run, opening, sessions, alive, launched, closing, sweepAt, swept,
           abandoned, crossed, errors>>

Browsers == 1..MaxBrowsers
NoBrowser == 0

Session == [key : BTask, browser : Browsers]

BTypeOK ==
  /\ run \in [BTask -> {"idle", "launching", "browsing"}]
  /\ opening \in [BTask -> Browsers \cup {NoBrowser}]
  /\ sessions \in Seq(Session)
  /\ \A i, j \in DOMAIN sessions : sessions[i].key = sessions[j].key => i = j
  /\ alive \subseteq 1..launched /\ launched \in 0..MaxBrowsers
  /\ closing \subseteq BTask \X Browsers
  /\ sweepAt \in [Sweep -> Browsers \cup {NoBrowser}]
  /\ swept \in [Sweep -> SUBSET Browsers]
  /\ abandoned \subseteq Browsers
  /\ crossed \subseteq BTask
  /\ errors \in 0..MaxErrors

BInit ==
  /\ run = [t \in BTask |-> "idle"]
  /\ opening = [t \in BTask |-> NoBrowser]
  /\ sessions = <<>> /\ alive = {} /\ launched = 0
  /\ closing = {}
  /\ sweepAt = [c \in Sweep |-> NoBrowser]
  /\ swept = [c \in Sweep |-> {}]
  /\ abandoned = {} /\ crossed = {} /\ errors = 0

SessionsOf(t) == {i \in DOMAIN sessions : sessions[i].key = t}

\* Map.delete
Without(t) ==
  IF SessionsOf(t) = {} THEN sessions
  ELSE RemoveAt(sessions, CHOOSE i \in SessionsOf(t) : TRUE)

Fails == errors < MaxErrors /\ errors' = errors + 1

-----------------------------------------------------------------------------
(* The operations of a run: each begins with ensureBrowser.                *)

ReuseSession(t) ==
  /\ run[t] = "idle" /\ SessionsOf(t) # {}
  /\ run' = [run EXCEPT ![t] = "browsing"]
  /\ UNCHANGED <<opening, sessions, alive, launched, closing, sweepAt, swept,
                 abandoned, crossed, errors>>

\* Also in the middle of a run, whose session a close of the last run's took away.
Launch(t) ==
  /\ run[t] # "launching" /\ SessionsOf(t) = {}
  /\ launched < MaxBrowsers
  /\ launched' = launched + 1
  /\ alive' = alive \cup {launched'}
  /\ opening' = [opening EXCEPT ![t] = launched']
  /\ run' = [run EXCEPT ![t] = "launching"]
  /\ UNCHANGED <<sessions, closing, sweepAt, swept, abandoned,
                 crossed, errors>>

\* Map.set
OpenSession(t) ==
  /\ run[t] = "launching"
  /\ sessions' = Append(sessions, [key |-> t, browser |-> opening[t]])
  /\ opening' = [opening EXCEPT ![t] = NoBrowser]
  /\ run' = [run EXCEPT ![t] = "browsing"]
  /\ UNCHANGED <<alive, launched, closing, sweepAt, swept, abandoned,
                 crossed, errors>>

\* close(task), from the event of the run's end.
BeginClose(t) ==
  LET mine == {sessions[i].browser : i \in SessionsOf(t)} IN
  /\ closing' = closing \cup {<<t, b>> : b \in mine}
  /\ crossed' = IF \E c \in Sweep : mine \cap swept[c] # {}
                THEN crossed \cup {t} ELSE crossed

\* The context or the page cannot be made: nobody closes the browser.
OpenFails(t) ==
  /\ run[t] = "launching"
  /\ Fails
  /\ abandoned' = abandoned \cup {opening[t]}
  /\ opening' = [opening EXCEPT ![t] = NoBrowser]
  /\ run' = [run EXCEPT ![t] = "idle"]
  /\ BeginClose(t)
  /\ UNCHANGED <<sessions, alive, launched, sweepAt, swept>>

\* The run is over; the task may be retried.
RunEnds(t) ==
  /\ run[t] = "browsing"
  /\ run' = [run EXCEPT ![t] = "idle"]
  /\ BeginClose(t)
  /\ UNCHANGED <<opening, sessions, alive, launched, sweepAt, swept, abandoned,
                 errors>>

\* A run that pauses, or whose result cannot be written, emits no event.
RunPauses(t) ==
  /\ run[t] = "browsing"
  /\ run' = [run EXCEPT ![t] = "idle"]
  /\ UNCHANGED <<opening, sessions, alive, launched, closing, sweepAt, swept,
                 abandoned, crossed, errors>>

-----------------------------------------------------------------------------
(* Closing.                                                                *)

\* The session is forgotten whether or not it is still the one closed.
CloseEnds(t, b) ==
  /\ <<t, b>> \in closing
  /\ alive' = alive \ {b}
  /\ closing' = closing \ {<<t, b>>}
  /\ sessions' = Without(t)
  /\ UNCHANGED <<run, opening, launched, sweepAt, swept, abandoned,
                 crossed, errors>>

\* The session is forgotten all the same.
CloseFailsAndForgets(t, b) ==
  /\ <<t, b>> \in closing
  /\ Fails
  /\ closing' = closing \ {<<t, b>>}
  /\ sessions' = Without(t)
  /\ UNCHANGED <<run, opening, alive, launched, sweepAt, swept, abandoned,
                 crossed>>

\* The session stays; a later close finds it.
CloseFails(t, b) ==
  /\ <<t, b>> \in closing
  /\ Fails
  /\ closing' = closing \ {<<t, b>>}
  /\ UNCHANGED <<run, opening, sessions, alive, launched, sweepAt, swept,
                 abandoned, crossed>>

\* The iteration of the Map comes to what was added while it awaited; when it
\* is through, the Map is cleared.
SweepOn(c, done) ==
  LET left == {i \in DOMAIN sessions : sessions[i].browser \notin done} IN
  \/ \E i \in left :
       LET b == sessions[i].browser IN
       /\ \A j \in left : i <= j
       /\ sweepAt' = [sweepAt EXCEPT ![c] = b]
       /\ swept' = [swept EXCEPT ![c] = done \cup {b}]
       /\ crossed' = crossed \cup {t \in BTask : <<t, b>> \in closing}
       /\ UNCHANGED sessions
  \/ /\ left = {}
     /\ sweepAt' = [sweepAt EXCEPT ![c] = NoBrowser]
     /\ swept' = [swept EXCEPT ![c] = {}]
     /\ sessions' = <<>>
     /\ UNCHANGED crossed

BeginSweep(c) ==
  /\ sweepAt[c] = NoBrowser /\ sessions # <<>>
  /\ SweepOn(c, {})
  /\ UNCHANGED <<run, opening, alive, launched, closing, abandoned,
                 errors>>

SweepNext(c) ==
  /\ sweepAt[c] # NoBrowser
  /\ alive' = alive \ {sweepAt[c]}
  /\ SweepOn(c, swept[c])
  /\ UNCHANGED <<run, opening, launched, closing, abandoned,
                 errors>>

\* One close that is rejected ends the sweep: the sessions stay.
SweepFails(c) ==
  /\ sweepAt[c] # NoBrowser
  /\ Fails
  /\ sweepAt' = [sweepAt EXCEPT ![c] = NoBrowser]
  /\ swept' = [swept EXCEPT ![c] = {}]
  /\ UNCHANGED <<run, opening, sessions, alive, launched, closing, abandoned,
                 crossed>>

BNext ==
  \/ \E t \in BTask :
       \/ ReuseSession(t) \/ Launch(t) \/ OpenSession(t) \/ OpenFails(t)
       \/ RunEnds(t) \/ RunPauses(t)
       \/ \E b \in Browsers : CloseEnds(t, b) \/ CloseFails(t, b)
  \/ \E c \in Sweep : BeginSweep(c) \/ SweepNext(c) \/ SweepFails(c)

BSpec == BInit /\ [][BNext]_bvars

-----------------------------------------------------------------------------
\* Every browser that runs can be closed: it is being launched, or the Map
\* knows it, or somebody is closing it, whatever is launched and closed in
\* between.  The exceptions are a launch that was rejected half way, and a task
\* whose browser its own close and a sweep both closed: the later of the two
\* forgets what the task has launched since.
NoBrowserLost ==
  crossed = {} => \A b \in alive \ abandoned :
    \/ \E t \in BTask : opening[t] = b \/ <<t, b>> \in closing
    \/ \E i \in DOMAIN sessions : sessions[i].browser = b
    \/ \E c \in Sweep : sweepAt[c] = b
=============================================================================
