------------------------------ MODULE Schedules -------------------------------
(***************************************************************************)
(* Recurring tasks: what evaluateScheduledTasks does at the start of every *)
(* poll of every daemon.  It reads the due schedules, and for each of them *)
(* enqueues its runs and then moves next_run_at; nothing claims a          *)
(* schedule, and no transaction joins the statements.  A schedule is due   *)
(* at every tick of the model's clock.                                     *)
(***************************************************************************)
EXTENDS Integers, FiniteSets

CONSTANTS
  Schedule,    \* rows of scheduled_tasks
  Daemon,      \* processes that poll
  Cap,         \* how many runs one evaluation collects
  Horizon,     \* bound: the clock
  MaxTrouble   \* bound: statements that throw, daemons that end

ASSUME ScheduleAssumption ==
  /\ Cap \in Nat \ {0} /\ Horizon \in Nat /\ MaxTrouble \in Nat

VARIABLES
  clock,
  catchUp,   \* schedules with missed_run_policy 'catch-up', the others 'skip'
  nextRun,   \* next_run_at, Never for NULL
  first,     \* history: the latest time it was initialised to
  due,       \* the rows a daemon selected and has not come to yet
  seen,      \* their next_run_at as it was selected
  since,     \* `now` of its evaluation
  doing,     \* the schedule a daemon is at, and the next run to enqueue
  started,   \* history: the daemons' runs of a schedule for a time, to two
  disturbed, \* history: schedules evaluated twice at once, or hit by a fault
  trouble

svars == <<clock, catchUp, nextRun, first, due, seen, since, doing, started,
           disturbed, trouble>>

Never == -1
Time == 0..Horizon
Idle == [on |-> FALSE]
Busy(s, run) == [on |-> TRUE, schedule |-> s, run |-> run]

STypeOK ==
  /\ clock \in Time
  /\ catchUp \subseteq Schedule
  /\ nextRun \in [Schedule -> {Never} \cup 0..(Horizon + 1)]
  /\ first \in [Schedule -> {Never} \cup 0..(Horizon + 1)]
  /\ due \in [Daemon -> SUBSET Schedule]
  /\ seen \in [Daemon -> [Schedule -> {Never} \cup 0..(Horizon + 1)]]
  /\ since \in [Daemon -> Time]
  /\ doing \in [Daemon -> {Idle} \cup
                {Busy(s, m) : s \in Schedule, m \in 0..(Horizon + 1)}]
  /\ started \in [Schedule -> [Time -> 0..2]]
  /\ disturbed \subseteq Schedule
  /\ trouble \in 0..MaxTrouble

SInit ==
  /\ clock = 0
  /\ catchUp \in SUBSET Schedule
  /\ nextRun = [s \in Schedule |-> Never]
  /\ first = nextRun
  /\ due = [d \in Daemon |-> {}]
  /\ seen = [d \in Daemon |-> nextRun]
  /\ since = [d \in Daemon |-> 0]
  /\ doing = [d \in Daemon |-> Idle]
  /\ started = [s \in Schedule |-> [m \in Time |-> 0]]
  /\ disturbed = {} /\ trouble = 0

-----------------------------------------------------------------------------
\* The schedules a daemon has read and not finished with.
InHand(d) == due[d] \cup (IF doing[d].on THEN {doing[d].schedule} ELSE {})

\* SELECT * FROM scheduled_tasks WHERE next_run_at IS NULL OR next_run_at <= ?
SelectDue(d) ==
  LET rows == {s \in Schedule : nextRun[s] <= clock} IN
  /\ InHand(d) = {} /\ rows # {}
  /\ due' = [due EXCEPT ![d] = rows]
  /\ seen' = [seen EXCEPT ![d] = nextRun]
  /\ since' = [since EXCEPT ![d] = clock]
  /\ disturbed' = disturbed \cup
       UNION {rows \cap InHand(e) : e \in Daemon \ {d}}
  /\ UNCHANGED <<clock, catchUp, nextRun, first, doing, started, trouble>>

\* The first time next_run_at is only set: nothing is run.
InitialiseNext(d, s) ==
  /\ s \in due[d] /\ ~doing[d].on /\ seen[d][s] = Never
  /\ nextRun' = [nextRun EXCEPT ![s] = since[d] + 1]
  /\ first' = [first EXCEPT ![s] =
                 IF @ > since[d] + 1 THEN @ ELSE since[d] + 1]
  /\ due' = [due EXCEPT ![d] = @ \ {s}]
  /\ UNCHANGED <<clock, catchUp, seen, since, doing, started, disturbed, trouble>>

\* The runs one evaluation collects: up to `now`, and no more than Cap.
LastRun(d, s) ==
  IF since[d] < seen[d][s] + Cap THEN since[d] ELSE seen[d][s] + Cap - 1

\* 'skip' starts with the last of them, which it enqueues alone.
Begin(d, s) ==
  /\ s \in due[d] /\ ~doing[d].on /\ seen[d][s] # Never
  /\ due' = [due EXCEPT ![d] = @ \ {s}]
  /\ doing' = [doing EXCEPT ![d] =
       Busy(s, IF s \in catchUp THEN seen[d][s] ELSE LastRun(d, s))]
  /\ UNCHANGED <<clock, catchUp, nextRun, first, seen, since, started,
                 disturbed, trouble>>

EnqueueRun(d) ==
  LET s == doing[d].schedule  m == doing[d].run IN
  /\ doing[d].on /\ m <= LastRun(d, s)
  /\ started' = [started EXCEPT ![s][m] = IF @ < 2 THEN @ + 1 ELSE @]
  /\ doing' = [doing EXCEPT ![d] = Busy(s, m + 1)]
  /\ UNCHANGED <<clock, catchUp, nextRun, first, due, seen, since, disturbed,
                 trouble>>

\* next_run_at is moved although runs are still to be enqueued.
MoveNextEarly(d) ==
  /\ doing[d].on
  /\ nextRun' = [nextRun EXCEPT ![doing[d].schedule] =
                   LastRun(d, doing[d].schedule) + 1]
  /\ doing' = [doing EXCEPT ![d] = Idle]
  /\ UNCHANGED <<clock, catchUp, first, due, seen, since, started, disturbed,
                 trouble>>

\* The run that was enqueued last is due once more.
MoveNextToLast(d) ==
  /\ doing[d].on /\ doing[d].run > LastRun(d, doing[d].schedule)
  /\ nextRun' = [nextRun EXCEPT ![doing[d].schedule] =
                   LastRun(d, doing[d].schedule)]
  /\ doing' = [doing EXCEPT ![d] = Idle]
  /\ UNCHANGED <<clock, catchUp, first, due, seen, since, started, disturbed,
                 trouble>>

\* The loop over the due schedules does not go on.
MoveNextAndHang(d) ==
  /\ doing[d].on /\ doing[d].run > LastRun(d, doing[d].schedule)
  /\ nextRun' = [nextRun EXCEPT ![doing[d].schedule] =
                   LastRun(d, doing[d].schedule) + 1]
  /\ UNCHANGED <<clock, catchUp, first, due, seen, since, doing, started,
                 disturbed, trouble>>

\* next_run_at becomes the run after the last one collected.
MoveNext(d) ==
  /\ doing[d].on /\ doing[d].run > LastRun(d, doing[d].schedule)
  /\ nextRun' = [nextRun EXCEPT ![doing[d].schedule] =
                   LastRun(d, doing[d].schedule) + 1]
  /\ doing' = [doing EXCEPT ![d] = Idle]
  /\ UNCHANGED <<clock, catchUp, first, due, seen, since, started, disturbed,
                 trouble>>

Trouble(hit) ==
  /\ trouble < MaxTrouble
  /\ trouble' = trouble + 1
  /\ disturbed' = disturbed \cup hit

\* An exception is logged, and the next schedule is looked at: the first time
\* of the schedule is not set, or what was being done for it is cut short.
EvaluationThrows(d) ==
  /\ \/ /\ ~doing[d].on
        /\ \E s \in due[d] : due' = [due EXCEPT ![d] = @ \ {s}]
        /\ Trouble({})
        /\ doing' = doing
     \/ /\ doing[d].on
        /\ Trouble({doing[d].schedule})
        /\ doing' = [doing EXCEPT ![d] = Idle]
        /\ due' = due
  /\ UNCHANGED <<clock, catchUp, nextRun, first, seen, since, started>>

DaemonEnds(d) ==
  /\ InHand(d) # {}
  /\ Trouble(InHand(d))
  /\ doing' = [doing EXCEPT ![d] = Idle]
  /\ due' = [due EXCEPT ![d] = {}]
  /\ UNCHANGED <<clock, catchUp, nextRun, first, seen, since, started>>

TimePasses ==
  /\ clock < Horizon
  /\ clock' = clock + 1
  /\ UNCHANGED <<catchUp, nextRun, first, due, seen, since, doing, started,
                 disturbed, trouble>>

Evaluate(d) ==
  \/ SelectDue(d) \/ EnqueueRun(d) \/ MoveNext(d)
  \/ \E s \in Schedule : InitialiseNext(d, s) \/ Begin(d, s)

SNext ==
  \/ \E d \in Daemon : Evaluate(d) \/ EvaluationThrows(d) \/ DaemonEnds(d)
  \/ TimePasses

\* A poll evaluates the schedules, and there is a next poll.
SFairness == \A d \in Daemon : WF_svars(Evaluate(d))

SSpec == SInit /\ [][SNext]_svars /\ SFairness

-----------------------------------------------------------------------------
\* No time is passed over: what lies before next_run_at of a 'catch-up'
\* schedule was enqueued, also after crashes, exceptions, stale updates of
\* another daemon, and more missed runs than one evaluation collects.
NothingPassedOver ==
  \A s \in catchUp : \A m \in Time :
    nextRun[s] # Never /\ first[s] <= m /\ m < nextRun[s] => started[s][m] > 0

\* A time is enqueued twice only if two daemons had the schedule in hand at
\* once, or a fault came between its runs and its next_run_at.
OnceUnlessDisturbed ==
  \A s \in Schedule \ disturbed, m \in Time : started[s][m] < 2

\* Every time that comes due is run, however many were missed, unless a stale
\* daemon initialises the schedule once more to a later one.
EveryDueRunHappens ==
  \A s \in Schedule, m \in Time :
    (s \in catchUp /\ nextRun[s] # Never /\ first[s] <= m /\ m <= clock)
      ~> (started[s][m] > 0 \/ m < first[s])
=============================================================================
