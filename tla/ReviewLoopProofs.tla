---------------------------- MODULE ReviewLoopProofs ---------------------------
(***************************************************************************)
(* What a run costs a task, that a rejection is heeded, and what the board *)
(* shows of it all, for any number of tasks, retries, crashes and faults.  *)
(***************************************************************************)
EXTENDS ReviewLoop, TLAPS

\* A run has a task; between runs nothing is left of the last verdict.
RunHasTask ==
  /\ pc \in {"idle", "poll"} <=> job = NoTask
  /\ job = NoTask => verdict = "none"

\* The task of a run was claimed, and may have been requeued under it; after an
\* unheard fail() it is where that left it.
RunIsOpen ==
  job # NoTask =>
    IF pc = "settle"
    THEN st[job] = IF retries[job] <= RetryLimit THEN "pending" ELSE "failed"
    ELSE st[job] \in {"in-progress", "pending"}

\* A run has been charged for by an unheard fail() and by nothing else.
NotYetCharged ==
  job # NoTask => retries[job] = IF pc = "settle" THEN before[job] + 1 ELSE before[job]

\* Nor was a run that was lost.
LostIsUncharged == \A t \in Task : st[t] = "in-progress" => retries[t] = before[t]

\* What may be claimed has a retry left.
ClaimableHasRetry ==
  \A t \in Task : st[t] \in {"new", "pending"} => retries[t] <= RetryLimit

\* The project manager requeues the task of the run that awaits its reply.
RequeuesOwnTask ==
  \A h \in handlers : h.to = "Changes Requested" => pc = "reply" /\ job = h.task

\* A rejection is on its way to the engineer, or was lost by a fault.
RejectionUnderWay ==
  verdict = "request-changes" /\ faults = 0 => pc \in {"notify", "reply"}

\* In the middle of a tick the only handlers are those the tick has started.
TickIsFresh ==
  /\ pc = "settle" => handlers = {}
  /\ pc = "poll" => \A h \in handlers : h.at # "move"

RowInv == OneRetryPerRun /\ ClaimableHasRetry /\ LostIsUncharged

RunInv == RunHasTask /\ RunIsOpen /\ NotYetCharged /\ RejectionUnderWay

HandlerInv == RequeuesOwnTask /\ TickIsFresh

RInv == RTypeOK /\ RowInv /\ RunInv /\ HandlerInv

-----------------------------------------------------------------------------
LEMMA ReviewStart == RInit => RInv
<1> SUFFICES ASSUME RInit PROVE RInv
  OBVIOUS
<1> USE ReviewConstantsAssumption DEF RInit
<1>0. /\ 0 \in 0..RetryLimit /\ 0 \in 0..RetryLimit + 2
      /\ 0 \in 0..MaxCrashes /\ 0 \in 0..MaxFaults
  OBVIOUS
<1>1. RTypeOK
  BY <1>0 DEF RTypeOK, Status, Label, Verdict
<1>2. RowInv
  BY DEF RowInv, OneRetryPerRun, ClaimableHasRetry, LostIsUncharged
<1>3. RunInv /\ HandlerInv
  BY DEF RunInv, RunHasTask, RunIsOpen, NotYetCharged, RejectionUnderWay,
     HandlerInv, RequeuesOwnTask, TickIsFresh
<1> QED
  BY <1>1, <1>2, <1>3 DEF RInv

\* The counters of a task are numbers.
LEMMA CountersTyped ==
  ASSUME RTypeOK
  PROVE  \A t \in Task : /\ retries[t] \in 0..RetryLimit + 2
                         /\ before[t] \in 0..RetryLimit
                         /\ retries[t] \in Nat /\ before[t] \in Nat
  BY ReviewConstantsAssumption DEF RTypeOK

LEMMA FaultCounts ==
  ASSUME RTypeOK, Fault
  PROVE  faults' \in 0..MaxFaults /\ faults' # 0
  BY ReviewConstantsAssumption DEF RTypeOK, Fault

\* An event adds a handler that moves a card, and nothing else.
LEMMA AnnounceAdds ==
  ASSUME handlers \subseteq Handler, NEW t \in Task, NEW label \in Label,
         Announce(t, label)
  PROVE  /\ handlers' \subseteq Handler
         /\ \A h \in handlers' : h \in handlers \/ (h.to = label /\ h.task = t)
  BY DEF Announce, Handler

\* The rows stay right when nobody writes to them.
LEMMA RowsStay ==
  ASSUME RowInv, UNCHANGED <<st, retries, before, recharged>>
  PROVE  RowInv'
  BY DEF RowInv, OneRetryPerRun, ClaimableHasRetry, LostIsUncharged

\* A fail() for which the run has a retry to spare: one, or two with a recharge.
LEMMA FailKeeps ==
  ASSUME RTypeOK, RowInv, NEW t \in Task, Fail(t), UNCHANGED before,
         recharged \subseteq recharged',
         retries[t] = before[t] \/ (retries[t] = before[t] + 1 /\ t \in recharged')
  PROVE  /\ st' \in [Task -> Status]
         /\ retries' \in [Task -> 0..RetryLimit + 2]
         /\ RowInv'
         /\ retries'[t] = retries[t] + 1
         /\ st'[t] = IF retries'[t] <= RetryLimit THEN "pending" ELSE "failed"
<1>0. /\ retries[t] \in Nat /\ before[t] \in 0..RetryLimit /\ RetryLimit \in Nat
      /\ st \in [Task -> Status] /\ retries \in [Task -> 0..RetryLimit + 2]
  BY CountersTyped, ReviewConstantsAssumption DEF RTypeOK
<1>1. PICK r \in Nat : r = retries[t] + 1
  BY <1>0
<1>2. r \in 0..RetryLimit + 2 /\ (r = before[t] + 1 \/ (r = before[t] + 2 /\ t \in recharged'))
  BY <1>0, <1>1
<1>3. /\ retries' = [retries EXCEPT ![t] = r]
      /\ st' = [st EXCEPT ![t] = IF r <= RetryLimit THEN "pending" ELSE "failed"]
  BY <1>1 DEF Fail
<1>4. /\ st' \in [Task -> Status] /\ retries' \in [Task -> 0..RetryLimit + 2]
      /\ retries'[t] = r /\ st'[t] = IF r <= RetryLimit THEN "pending" ELSE "failed"
      /\ \A u \in Task \ {t} : st'[u] = st[u] /\ retries'[u] = retries[u]
  BY <1>0, <1>2, <1>3 DEF Status
<1>5. OneRetryPerRun'
  <2>1. retries'[t] <= before'[t] + IF t \in recharged' THEN 2 ELSE 1
    BY <1>0, <1>2, <1>4
  <2>2. ASSUME NEW u \in Task \ {t}
        PROVE  retries'[u] <= before'[u] + IF u \in recharged' THEN 2 ELSE 1
    <3>1. retries[u] <= before[u] + IF u \in recharged THEN 2 ELSE 1
      BY DEF RowInv, OneRetryPerRun
    <3>2. retries[u] \in Nat /\ before[u] \in Nat /\ retries'[u] = retries[u]
      BY <1>4, CountersTyped
    <3> QED
      BY <3>1, <3>2
  <2> QED
    BY <2>1, <2>2 DEF OneRetryPerRun
<1>6. ClaimableHasRetry' /\ LostIsUncharged'
  BY <1>4 DEF RowInv, ClaimableHasRetry, LostIsUncharged
<1> QED
  BY <1>1, <1>4, <1>5, <1>6 DEF RowInv

\* With no run under way only the rows and the types matter.
LEMMA FreeKeeps ==
  ASSUME RTypeOK', RowInv', LeaveRun, \A h \in handlers' : h.to # "Changes Requested"
  PROVE  RInv'
  BY ReviewConstantsAssumption
  DEF LeaveRun, RInv, RunInv, RunHasTask, RunIsOpen, NotYetCharged, RejectionUnderWay,
      HandlerInv, RequeuesOwnTask, TickIsFresh

\* The ends of a run, whatever it threw on the way.
LEMMA FinishKeeps ==
  ASSUME RInv, job # NoTask, handlers = {},
         \/ /\ FinishCompleted \/ FinishFailed \/ FinishPaused
            /\ pc # "settle" /\ recharged' = recharged
         \/ FinishFailed /\ recharged' = recharged \cup {job},
         UNCHANGED <<before, board, card, up, owed, disturbed, early, crashes>>,
         timer' \in BOOLEAN, faults' \in 0..MaxFaults
  PROVE  RInv'
<1>1. RTypeOK /\ RowInv /\ RunInv /\ job \in Task
  BY DEF RInv, RTypeOK
<1>2. handlers' \subseteq Handler
      /\ \A h \in handlers' : h.to # "Changes Requested"
  BY <1>1, AnnounceAdds DEF FinishCompleted, FinishFailed, FinishPaused, Label
<1>3. LeaveRun /\ recharged' \subseteq Task
  BY <1>1 DEF FinishCompleted, FinishFailed, FinishPaused, RTypeOK
<1>4. ASSUME st' \in [Task -> Status], retries' \in [Task -> 0..RetryLimit + 2], RowInv'
      PROVE  RInv'
  <2>1. RTypeOK'
    BY <1>1, <1>2, <1>3, <1>4 DEF RTypeOK, LeaveRun
  <2> QED
    BY <1>2, <1>3, <1>4, <2>1, FreeKeeps
<1>5. CASE FinishCompleted /\ recharged' = recharged
  <2>1. st' = [st EXCEPT ![job] = "completed"] /\ UNCHANGED retries
    BY <1>5 DEF FinishCompleted
  <2>2. RowInv'
    BY <1>1, <1>5, <2>1
    DEF RowInv, OneRetryPerRun, ClaimableHasRetry, LostIsUncharged, RTypeOK
  <2> QED
    BY <1>1, <1>4, <2>1, <2>2 DEF RTypeOK, Status
<1>6. CASE FinishPaused /\ pc # "settle" /\ recharged' = recharged
  <2>1. st' = [st EXCEPT ![job] = "pending"] /\ UNCHANGED retries
    BY <1>6 DEF FinishPaused
  <2>2. retries[job] <= RetryLimit
    BY <1>1, <1>6, CountersTyped DEF RunInv, NotYetCharged
  <2>3. RowInv'
    BY <1>1, <1>6, <2>1, <2>2
    DEF RowInv, OneRetryPerRun, ClaimableHasRetry, LostIsUncharged, RTypeOK
  <2> QED
    BY <1>1, <1>4, <2>1, <2>3 DEF RTypeOK, Status
<1>7. CASE FinishFailed
  <2>1. retries[job] = before[job] \/ (retries[job] = before[job] + 1 /\ job \in recharged')
    BY <1>1, <1>7 DEF RunInv, NotYetCharged
  <2> QED
    BY <1>1, <1>4, <1>7, <2>1, FailKeeps DEF FinishFailed
<1> QED
  BY <1>5, <1>6, <1>7

\* A step of the run that touches neither row nor card.
LEMMA AdvanceKeeps ==
  ASSUME RInv, NEW from, NEW to \in {"recall", "think", "conclude", "authorise",
           "review", "notify", "reply", "remember"}, Advance(from, to),
         from \notin {"idle", "poll", "settle"},
         timer' \in BOOLEAN, verdict' \in Verdict \cup {"none"},
         verdict' = "request-changes" /\ faults = 0 => to \in {"notify", "reply"}
  PROVE  RInv'
<1>1. /\ RTypeOK /\ RowInv /\ RunInv
      /\ UNCHANGED <<st, retries, before, board, card, handlers, job, up, owed,
                     disturbed, early, recharged, crashes, faults>>
      /\ handlers = {} /\ pc = from /\ pc' = to
  BY DEF Advance, Drained, RInv, taskVars, boardVars, pastVars
<1>2. RTypeOK' /\ HandlerInv'
  BY <1>1 DEF RTypeOK, HandlerInv, RequeuesOwnTask, TickIsFresh
<1>3. RunInv'
  BY <1>1 DEF RunInv, RunHasTask, RunIsOpen, NotYetCharged, RejectionUnderWay
<1> QED
  BY <1>1, <1>2, <1>3, RowsStay DEF RInv

\* The end of the process leaves the rows as they are.
LEMMA VanishKeeps ==
  ASSUME RInv, Vanish, crashes' \in 0..MaxCrashes
  PROVE  RInv'
<1>1. /\ UNCHANGED <<st, retries, before, board, card, owed, early, recharged, faults>>
      /\ up' = FALSE /\ handlers' = {} /\ LeaveRun /\ timer' = FALSE
  BY DEF Vanish, taskVars, LeaveRun
<1>2. disturbed' \subseteq Task
  BY DEF Vanish, RInv, RTypeOK, Handler
<1>3. RTypeOK'
  BY <1>1, <1>2 DEF RInv, RTypeOK, LeaveRun
<1> QED
  BY <1>1, <1>3, RowsStay, FreeKeeps DEF RInv

-----------------------------------------------------------------------------
\* Creating tasks, and the handlers of the project manager.
LEMMA CreateKeeps ==
  ASSUME RInv, NEW S \in SUBSET Task, Create(S), pc = "idle", pc' = "poll",
         UNCHANGED <<retries, before, board, card, job, verdict, timer, up, disturbed,
                     early, recharged, crashes, faults>>
  PROVE  RInv'
<1>1. /\ RTypeOK /\ RowInv /\ RunInv /\ pc # "settle"
      /\ \A t \in S : st[t] = "new"
      /\ st' = [t \in Task |-> IF t \in S THEN "pending" ELSE st[t]]
  BY DEF RInv, Create, Drained, InTick
<1>2. /\ handlers' \subseteq Handler
      /\ \A h \in handlers' : h.to = "Todo" /\ h.at # "move"
  BY DEF Create, Handler, Label
<1>3. RTypeOK'
  <2>1. pc' \in {"idle", "poll", "recall", "think", "conclude", "authorise", "review",
             "notify", "reply", "remember", "settle"} /\ owed' \subseteq Task
    BY <1>1 DEF Create, RTypeOK
  <2>2. st' \in [Task -> Status]
    BY <1>1 DEF RTypeOK, Status
  <2> QED
    BY <1>1, <1>2, <2>1, <2>2 DEF RTypeOK
<1>4. RowInv'
  BY <1>1 DEF RowInv, OneRetryPerRun, ClaimableHasRetry, LostIsUncharged, RTypeOK
<1>5. RunInv'
  BY <1>1 DEF RTypeOK, RunInv, RunHasTask, RunIsOpen, NotYetCharged, RejectionUnderWay
<1>6. HandlerInv'
  BY <1>1, <1>2 DEF HandlerInv, RequeuesOwnTask, TickIsFresh
<1> QED
  BY <1>3, <1>4, <1>5, <1>6 DEF RInv

LEMMA OutsideKeeps == ASSUME RInv, Outside PROVE RInv'
<1>2. ASSUME NEW t \in Task, SubmitCli(t) PROVE RInv'
  <2>0. RTypeOK /\ RowInv /\ RunInv /\ HandlerInv
    BY DEF RInv
  <2>1. /\ st[t] = "new" /\ st' = [st EXCEPT ![t] = "pending"]
        /\ UNCHANGED <<retries, before, board, card, handlers, pc, job, verdict, timer, up,
                       owed, disturbed, early, recharged, crashes, faults>>
    BY <1>2 DEF SubmitCli, boardVars, runVars, pastVars
  <2>2. job # t
    BY <2>0, <2>1, ReviewConstantsAssumption DEF RunInv, RunIsOpen
  <2>3. RTypeOK'
    BY <2>0, <2>1 DEF RTypeOK, Status
  <2>4. RowInv'
    BY <2>0, <2>1 DEF RowInv, OneRetryPerRun, ClaimableHasRetry, LostIsUncharged, RTypeOK
  <2>5. RunInv'
    BY <2>0, <2>1, <2>2
    DEF RunInv, RunHasTask, RunIsOpen, NotYetCharged, RejectionUnderWay, RTypeOK
  <2>6. HandlerInv'
    BY <2>0, <2>1 DEF HandlerInv, RequeuesOwnTask, TickIsFresh
  <2> QED
    BY <2>3, <2>4, <2>5, <2>6 DEF RInv
<1>3. CASE Crash
  <2>1. crashes' \in 0..MaxCrashes
    BY <1>3, ReviewConstantsAssumption DEF Crash, RInv, RTypeOK
  <2> QED
    BY <1>3, <2>1, VanishKeeps DEF Crash
<1> QED
  BY <1>2, <1>3 DEF Outside

LEMMA HandleKeeps == ASSUME RInv, Handle PROVE RInv'
<1>0. /\ RTypeOK /\ RowInv /\ RunInv /\ HandlerInv /\ pc \notin {"poll", "settle"}
  BY DEF RInv, Handle, InTick
<1>1. PICK h \in handlers :
        CreateBoard(h) \/ CreateCard(h) \/ MoveCard(h) \/ HandlerThrows(h)
  BY DEF Handle
<1>2. h.task \in Task /\ h.to \in Label /\ h \in Handler
  BY <1>0 DEF Handler, RTypeOK
<1>3. [h EXCEPT !.at = "card"] \in Handler /\ [h EXCEPT !.at = "card"].to = h.to
      /\ [h EXCEPT !.at = "card"].task = h.task
  BY <1>2 DEF Handler
<1>4. /\ UNCHANGED <<retries, before, pc, job, verdict, timer, up, owed, early,
                     recharged, crashes>>
      /\ st' = IF MoveCard(h) /\ h.to = "Changes Requested"
               THEN [st EXCEPT ![h.task] = "pending"] ELSE st
  BY <1>1 DEF CreateBoard, CreateCard, MoveCard, HandlerThrows, taskVars, runVars, pastVars
<1>5. /\ faults' \in 0..MaxFaults /\ (faults' = 0 => faults = 0)
      /\ board' \in BOOLEAN /\ disturbed' \subseteq Task
  BY <1>0, <1>1, <1>2, FaultCounts
  DEF CreateBoard, CreateCard, MoveCard, HandlerThrows, pastVars, RTypeOK
<1>6. card' \in [Task -> Label \cup {"none"}]
  BY <1>0, <1>1, <1>2 DEF CreateBoard, CreateCard, MoveCard, HandlerThrows, RTypeOK
<1>7. \A g \in handlers' : g \in Handler /\ \E k \in handlers : g.to = k.to /\ g.task = k.task
  BY <1>0, <1>1, <1>3
  DEF CreateBoard, CreateCard, MoveCard, HandlerThrows, RTypeOK
<1>8. HandlerInv'
  BY <1>0, <1>4, <1>7 DEF HandlerInv, RequeuesOwnTask, TickIsFresh
\* After a rejection the row is that of the run under way.
<1>9. ASSUME MoveCard(h), h.to = "Changes Requested" PROVE RowInv' /\ RunIsOpen'
  <2>1. job = h.task /\ pc = "reply" /\ job # NoTask /\ st' = [st EXCEPT ![job] = "pending"]
    BY <1>0, <1>2, <1>4, <1>9, ReviewConstantsAssumption DEF HandlerInv, RequeuesOwnTask
  <2>2. retries[job] <= RetryLimit /\ st \in [Task -> Status]
    BY <1>0, <1>2, <2>1, CountersTyped DEF RunInv, NotYetCharged, RTypeOK
  <2>3. RowInv'
    BY <1>0, <1>4, <2>1, <2>2 DEF RowInv, OneRetryPerRun, ClaimableHasRetry, LostIsUncharged
  <2> QED
    BY <1>2, <1>4, <2>1, <2>2, <2>3 DEF RunIsOpen
<1>10. ASSUME UNCHANGED st PROVE RowInv' /\ RunIsOpen'
  BY <1>0, <1>4, <1>10, RowsStay DEF RunInv, RunIsOpen
<1>11. RowInv' /\ RunIsOpen'
  BY <1>4, <1>9, <1>10
<1>12. RunInv'
  BY <1>0, <1>4, <1>5, <1>11 DEF RunInv, RunHasTask, NotYetCharged, RejectionUnderWay
<1>13. RTypeOK'
  <2>1. st' \in [Task -> Status]
    BY <1>0, <1>2, <1>4 DEF RTypeOK, Status
  <2> QED
    BY <1>0, <1>4, <1>5, <1>6, <1>7, <2>1 DEF RTypeOK
<1> QED
  BY <1>8, <1>11, <1>12, <1>13 DEF RInv

LEMMA WorkKeeps == ASSUME RInv, Work PROVE RInv'
<1> USE DEF Drained, Verdict, InTick
<1>0. RTypeOK /\ RunInv
  BY DEF RInv
<1>1. pc \notin {"idle", "poll", "settle"} => job # NoTask
  BY <1>0 DEF RunInv, RunHasTask
<1>2. CASE Recall \/ Research
  BY <1>0, <1>2, AdvanceKeeps DEF Recall, Research, RTypeOK, RunInv, RejectionUnderWay, Advance
<1>3. ASSUME job # NoTask, handlers = {}, pc # "settle",
             FinishCompleted \/ FinishFailed \/ FinishPaused,
             UNCHANGED <<before, board, card, up, pastVars>>, timer' \in BOOLEAN
      PROVE  RInv'
  BY <1>0, <1>3, FinishKeeps DEF pastVars, RTypeOK
<1>4. CASE Conclude
  BY <1>0, <1>1, <1>3, <1>4, AdvanceKeeps
  DEF Conclude, RTypeOK, RunInv, RejectionUnderWay, Advance
<1>5. CASE Think
  BY <1>0, <1>1, <1>3, <1>5, AdvanceKeeps
  DEF Think, RTypeOK, RunInv, RejectionUnderWay, Advance
<1>6. CASE NotWritten
  BY <1>0, <1>1, <1>3, <1>6 DEF NotWritten, RTypeOK
<1>7. CASE SendReview
  BY <1>0, <1>7, AdvanceKeeps DEF SendReview, RTypeOK, RunInv, RejectionUnderWay, Advance
<1>8. CASE Notify
  <2>1. /\ UNCHANGED <<st, retries, before, board, card, job, verdict, timer, up, owed,
                       disturbed, early, recharged, crashes, faults>>
        /\ pc = "notify" /\ pc' = "reply" /\ handlers = {} /\ job \in Task
    BY <1>0, <1>1, <1>8 DEF Notify, RTypeOK, taskVars, pastVars
  <2>2. handlers' \subseteq Handler /\ \A h \in handlers' : h.task = job
    <3>1. PICK label \in {"Completed", "Changes Requested"} : Announce(job, label)
      BY <1>8 DEF Notify
    <3>2. handlers \subseteq Handler /\ label \in Label
      BY <1>0 DEF RTypeOK, Label
    <3> QED
      BY <2>1, <3>1, <3>2, AnnounceAdds
  <2>3. RTypeOK' /\ HandlerInv'
    BY <1>0, <2>1, <2>2 DEF RTypeOK, HandlerInv, RequeuesOwnTask, TickIsFresh
  <2>4. RunInv'
    BY <1>0, <2>1 DEF RunInv, RunHasTask, RunIsOpen, NotYetCharged, RejectionUnderWay
  <2> QED
    BY <2>1, <2>3, <2>4, RowsStay DEF RInv
<1>9. CASE Reply
  <2>1. CASE verdict = "approved"
    <3>1. /\ UNCHANGED <<st, retries, before, board, card, handlers, job, verdict, up, owed,
                         disturbed, early, recharged, crashes, faults>>
          /\ pc = "reply" /\ pc' = "remember" /\ timer' = FALSE /\ handlers = {}
      BY <1>9, <2>1 DEF Reply, pastVars
    <3>2. RTypeOK' /\ HandlerInv'
      BY <1>0, <3>1 DEF RTypeOK, HandlerInv, RequeuesOwnTask, TickIsFresh
    <3>3. RunInv'
      BY <1>0, <2>1, <3>1 DEF RunInv, RunHasTask, RunIsOpen, NotYetCharged, RejectionUnderWay
    <3> QED
      BY <3>1, <3>2, <3>3, RowsStay DEF RInv
  <2>2. CASE FinishFailed
    BY <1>1, <1>3, <1>9, <2>2 DEF Reply
  <2> QED
    BY <1>9, <2>1, <2>2 DEF Reply
<1>10. CASE SendThrows
  <2>1. /\ UNCHANGED <<st, retries, before, board, card, handlers, job, verdict, timer, up,
                       owed, disturbed, early, recharged, crashes>>
        /\ pc \in {"review", "notify", "reply"} /\ pc' = "remember" /\ handlers = {}
        /\ faults' \in 0..MaxFaults /\ faults' # 0
    BY <1>0, <1>10, FaultCounts DEF SendThrows, taskVars, boardVars
  <2>2. RTypeOK' /\ HandlerInv'
    BY <1>0, <2>1 DEF RTypeOK, HandlerInv, RequeuesOwnTask, TickIsFresh
  <2>3. RunInv'
    BY <1>0, <2>1 DEF RunInv, RunHasTask, RunIsOpen, NotYetCharged, RejectionUnderWay
  <2> QED
    BY <2>1, <2>2, <2>3, RowsStay DEF RInv
<1>11. CASE Remember
  BY <1>0, <1>1, <1>3, <1>11 DEF Remember, RTypeOK
<1> QED
  BY <1>2, <1>4, <1>5, <1>6, <1>7, <1>8, <1>9, <1>10, <1>11 DEF Work

-----------------------------------------------------------------------------
\* What a claim does to the rows.
LEMMA TakeKeeps ==
  ASSUME RTypeOK, RowInv, NEW t \in Task, Take(t), UNCHANGED retries
  PROVE  /\ st' \in [Task -> Status] /\ before' \in [Task -> 0..RetryLimit]
         /\ recharged' \subseteq Task
         /\ RowInv' /\ before'[t] = retries[t] /\ st'[t] = "in-progress"
<1>1. retries[t] \in 0..RetryLimit
  <2>1. retries[t] \in Nat /\ retries[t] <= RetryLimit
    BY CountersTyped DEF Take, RowInv, ClaimableHasRetry
  <2> QED
    BY <2>1, ReviewConstantsAssumption
<1>2. /\ st' = [st EXCEPT ![t] = "in-progress"] /\ before' = [before EXCEPT ![t] = retries[t]]
      /\ recharged' = recharged \ {t}
  BY DEF Take
<1>3. /\ st' \in [Task -> Status] /\ before' \in [Task -> 0..RetryLimit]
      /\ before'[t] = retries[t] /\ st'[t] = "in-progress"
      /\ \A u \in Task \ {t} : st'[u] = st[u] /\ before'[u] = before[u]
  BY <1>1, <1>2 DEF RTypeOK, Status
<1>4. OneRetryPerRun'
  <2>1. retries[t] <= before'[t] + 1
    BY <1>1, <1>3
  <2> QED
    BY <1>1, <1>2, <1>3, <2>1 DEF RowInv, OneRetryPerRun
<1>5. ClaimableHasRetry' /\ LostIsUncharged'
  BY <1>3 DEF RowInv, ClaimableHasRetry, LostIsUncharged
<1> QED
  BY <1>2, <1>3, <1>4, <1>5 DEF RowInv, RTypeOK

LEMMA PollKeeps == ASSUME RInv, Poll PROVE RInv'
<1>0. RTypeOK /\ RowInv /\ RunInv /\ HandlerInv
  BY DEF RInv
<1>1. pc = "poll" => /\ job = NoTask /\ verdict = "none"
                     /\ \A h \in handlers : h.to # "Changes Requested"
  BY <1>0 DEF RunInv, RunHasTask, HandlerInv, RequeuesOwnTask
<1>2. ASSUME NEW S \in SUBSET Task, PollBegin(S) PROVE RInv'
  BY <1>2, CreateKeeps DEF PollBegin
<1>3. ASSUME NEW t \in Task, Recover(t) PROVE RInv'
  <2>1. /\ UNCHANGED <<before, board, card, handlers, pc, job, verdict, timer, up, owed,
                       early, recharged, crashes, faults>>
        /\ disturbed' = disturbed \cup {t} /\ pc = "poll" /\ Fail(t)
    BY <1>3 DEF Recover, boardVars, runVars
  <2>2. retries[t] = before[t]
    BY <1>0, <1>3 DEF Recover, RowInv, LostIsUncharged
  <2>3. RowInv' /\ RTypeOK'
    BY <1>0, <2>1, <2>2, FailKeeps DEF RTypeOK
  <2>4. RunInv' /\ HandlerInv'
    BY <1>0, <1>1, <2>1 DEF RunInv, RunHasTask, RunIsOpen, NotYetCharged, RejectionUnderWay,
       HandlerInv, RequeuesOwnTask, TickIsFresh
  <2> QED
    BY <2>3, <2>4 DEF RInv
<1>4. ASSUME NEW t \in Task, Claim(t) PROVE RInv'
  <2>1. /\ UNCHANGED <<retries, board, card, timer, up, owed, disturbed, crashes, faults>>
        /\ Take(t) /\ job' = t /\ pc' = "recall" /\ verdict' = "none" /\ pc = "poll"
        /\ early' \subseteq Task
    BY <1>0, <1>4 DEF Claim, Take, RTypeOK
  <2>2. /\ handlers' \subseteq Handler
        /\ \A h \in handlers' : h.to # "Changes Requested"
    <3>1. handlers \subseteq Handler /\ "In Progress" \in Label /\ Announce(t, "In Progress")
      BY <1>0, <1>4 DEF Claim, RTypeOK, Label
    <3>2. /\ handlers' \subseteq Handler
          /\ \A h \in handlers' : h \in handlers \/ h.to = "In Progress"
      BY <3>1, AnnounceAdds
    <3> QED
      BY <1>1, <2>1, <3>2
  <2>3. RowInv' /\ RTypeOK'
    BY <1>0, <2>1, <2>2, TakeKeeps DEF RTypeOK
  <2>4. RunInv' /\ HandlerInv'
    BY <1>0, <2>1, <2>2, TakeKeeps, ReviewConstantsAssumption
    DEF RunInv, RunHasTask, RunIsOpen, NotYetCharged, RejectionUnderWay,
       HandlerInv, RequeuesOwnTask, TickIsFresh
  <2> QED
    BY <2>3, <2>4 DEF RInv
<1>5. ASSUME NEW t \in Task, ClaimUnread(t) PROVE RInv'
  <2>1. /\ UNCHANGED <<retries, board, card, handlers, timer, up, owed, early, crashes>>
        /\ Take(t) /\ LeaveRun /\ pc = "poll"
        /\ disturbed' = disturbed \cup {t} /\ faults' \in 0..MaxFaults
    BY <1>0, <1>1, <1>5, FaultCounts DEF ClaimUnread, Take, LeaveRun, boardVars
  <2>2. RowInv' /\ RTypeOK'
    BY <1>0, <2>1, TakeKeeps DEF RTypeOK, LeaveRun
  <2> QED
    BY <1>1, <2>1, <2>2, FreeKeeps
<1>6. CASE PollEnds
  <2>1. /\ UNCHANGED <<st, retries, before, board, card, handlers, timer, up, owed, disturbed,
                       early, recharged, crashes>>
        /\ LeaveRun /\ pc = "poll" /\ faults' \in 0..MaxFaults
    BY <1>0, <1>1, <1>6, FaultCounts DEF PollEnds, LeaveRun, taskVars, boardVars, RTypeOK
  <2>2. RowInv' /\ RTypeOK'
    BY <1>0, <2>1, RowsStay DEF RTypeOK, LeaveRun
  <2> QED
    BY <1>1, <2>1, <2>2, FreeKeeps
<1> QED
  BY <1>2, <1>3, <1>4, <1>5, <1>6 DEF Poll

\* The statements that throw at the end of a run, and what the catch does then.
LEMMA SettleKeeps == ASSUME RInv, Settle PROVE RInv'
<1>0. RTypeOK /\ RowInv /\ RunInv /\ HandlerInv
  BY DEF RInv
<1>1. Over \/ pc = "settle" => job # NoTask /\ job \in Task
  BY <1>0 DEF Over, FailedResult, RunInv, RunHasTask, RTypeOK
<1>2. CASE CompleteThrows
  <2>1. /\ pc = "remember" /\ handlers = {} /\ FinishFailed
        /\ UNCHANGED <<before, board, card, timer, up, owed, disturbed, early, recharged,
                       crashes>>
        /\ faults' \in 0..MaxFaults
    BY <1>0, <1>2, FaultCounts DEF CompleteThrows, Drained
  <2> QED
    BY <1>0, <1>1, <2>1, FinishKeeps DEF Over, RTypeOK
<1>3. CASE SettleThrows
  <2>1. /\ Over /\ pc # "settle" /\ handlers = {} /\ LeaveRun /\ faults' \in 0..MaxFaults
        /\ UNCHANGED <<before, board, card, handlers, up, owed, early, recharged, crashes>>
        /\ timer' \in BOOLEAN /\ disturbed' = disturbed \cup {job}
    BY <1>0, <1>3, FaultCounts DEF SettleThrows, Drained, InTick, boardVars
  <2>2. retries[job] = before[job]
    BY <1>0, <1>1, <2>1 DEF RunInv, NotYetCharged
  <2>3. RowInv' /\ st' \in [Task -> Status] /\ retries' \in [Task -> 0..RetryLimit + 2]
    BY <1>0, <1>1, <1>3, <2>1, <2>2, FailKeeps, RowsStay DEF SettleThrows, RTypeOK
  <2>4. RTypeOK'
    BY <1>0, <1>1, <2>1, <2>3 DEF RTypeOK, LeaveRun
  <2> QED
    BY <2>1, <2>3, <2>4, FreeKeeps
<1>4. CASE FailUnread
  <2>1. /\ Over /\ pc # "settle" /\ pc' = "settle" /\ handlers = {} /\ Fail(job)
        /\ faults' \in 0..MaxFaults /\ faults' # 0 /\ timer' \in BOOLEAN
        /\ UNCHANGED <<before, board, card, handlers, job, verdict, up, owed, disturbed,
                       early, recharged, crashes>>
    BY <1>0, <1>4, FaultCounts DEF FailUnread, Drained, InTick, boardVars, Over
  <2>2. retries[job] = before[job]
    BY <1>0, <1>1, <2>1 DEF RunInv, NotYetCharged
  <2>3. /\ RowInv' /\ st' \in [Task -> Status] /\ retries' \in [Task -> 0..RetryLimit + 2]
        /\ retries'[job] = before[job] + 1
        /\ st'[job] = IF retries'[job] <= RetryLimit THEN "pending" ELSE "failed"
    BY <1>0, <1>1, <2>1, <2>2, FailKeeps
  <2>4. RTypeOK' /\ HandlerInv'
    BY <1>0, <2>1, <2>3 DEF RTypeOK, HandlerInv, RequeuesOwnTask, TickIsFresh
  <2>5. RunInv'
    BY <1>0, <1>1, <2>1, <2>3
    DEF RunInv, RunHasTask, RunIsOpen, NotYetCharged, RejectionUnderWay
  <2> QED
    BY <2>3, <2>4, <2>5 DEF RInv
<1>5. CASE FailAgain
  <2>1. /\ pc = "settle" /\ handlers = {} /\ FinishFailed /\ recharged' = recharged \cup {job}
        /\ UNCHANGED <<before, board, card, timer, up, owed, disturbed, early, crashes, faults>>
    BY <1>0, <1>5 DEF FailAgain, HandlerInv, TickIsFresh
  <2> QED
    BY <1>0, <1>1, <2>1, FinishKeeps DEF RTypeOK
<1>6. CASE FailAgainThrows
  <2>1. /\ pc = "settle" /\ handlers = {} /\ LeaveRun
        /\ UNCHANGED <<before, board, card, handlers, timer, up, owed, early, crashes, faults>>
        /\ disturbed' = disturbed \cup {job}
    BY <1>0, <1>6 DEF FailAgainThrows, HandlerInv, TickIsFresh, boardVars
  <2>2. retries[job] = before[job] + 1
    BY <1>0, <1>1, <2>1 DEF RunInv, NotYetCharged
  <2>3. /\ RowInv' /\ st' \in [Task -> Status] /\ retries' \in [Task -> 0..RetryLimit + 2]
        /\ recharged' \subseteq Task
    BY <1>0, <1>1, <1>6, <2>1, <2>2, FailKeeps, RowsStay DEF FailAgainThrows, RTypeOK
  <2>4. RTypeOK'
    BY <1>0, <1>1, <2>1, <2>3 DEF RTypeOK, LeaveRun
  <2> QED
    BY <2>1, <2>3, <2>4, FreeKeeps
<1> QED
  BY <1>2, <1>3, <1>4, <1>5, <1>6 DEF Settle

-----------------------------------------------------------------------------
\* A step that changes no more than whether the process runs.
LEMMA StillKeeps ==
  ASSUME RInv, up' \in BOOLEAN,
         UNCHANGED <<st, retries, before, board, card, handlers, pc, job, verdict, timer,
                     owed, disturbed, early, recharged, crashes, faults>>
  PROVE  RInv'
<1>1. RTypeOK'
  BY DEF RInv, RTypeOK
<1>2. RunInv' /\ HandlerInv'
  BY DEF RInv, RunInv, RunHasTask, RunIsOpen, NotYetCharged, RejectionUnderWay,
     HandlerInv, RequeuesOwnTask, TickIsFresh
<1> QED
  BY <1>1, <1>2, RowsStay DEF RInv

LEMMA ReviewStep == RInv /\ [RNext]_vars => RInv'
<1> SUFFICES ASSUME RInv, [RNext]_vars PROVE RInv'
  OBVIOUS
<1>1. CASE ReviewDone
  BY <1>1, AdvanceKeeps DEF ReviewDone, RInv, RTypeOK, Verdict
<1>2. CASE ReplyTimeout
  BY <1>2, VanishKeeps DEF ReplyTimeout, RInv, RTypeOK
<1>3. CASE Boot
  BY <1>3, StillKeeps DEF Boot, taskVars, boardVars, runVars, pastVars
<1>4. CASE UNCHANGED vars
  BY <1>4, StillKeeps DEF vars, taskVars, boardVars, runVars, pastVars, RInv, RTypeOK
<1> QED
  BY <1>1, <1>2, <1>3, <1>4, OutsideKeeps, PollKeeps, HandleKeeps, WorkKeeps, SettleKeeps
  DEF RNext

\* A step that ends a run whose work was rejected, no statement having thrown.
LEMMA RejectionStep ==
  ASSUME RInv, [RNext]_vars, verdict = "request-changes", faults = 0, pc' = "idle"
  PROVE  st'[job] # "completed"
<1>1. /\ pc \in {"notify", "reply"} /\ job \in Task
      /\ st[job] \in {"in-progress", "pending"} /\ st \in [Task -> Status]
  BY DEF RInv, RunInv, RTypeOK, RejectionUnderWay, RunHasTask, RunIsOpen
<1>2. CASE Reply
  BY <1>1, <1>2 DEF Reply, FinishFailed, Fail
<1>3. CASE Vanish
  BY <1>1, <1>3 DEF Vanish, taskVars
<1>4. CASE UNCHANGED pc
  BY <1>1, <1>4
<1>5. CASE Settle
  BY <1>1, <1>5
  DEF Settle, CompleteThrows, SettleThrows, FailUnread, FailAgain, FailAgainThrows, Fail
<1>6. ~Poll
  BY <1>1 DEF Poll, PollBegin, Recover, Claim, ClaimUnread, Take, PollEnds
\* Every other step goes on with the run, or begins outside of one.
<1> QED
  BY <1>1, <1>2, <1>3, <1>4, <1>5, <1>6
  DEF RNext, Outside, SubmitCli, Crash, Handle, CreateBoard, CreateCard,
      MoveCard, HandlerThrows, Work, Recall, Research, Conclude, Think, NotWritten,
      SendReview, Notify, SendThrows, Remember, Advance, ReviewDone, ReplyTimeout,
      Boot, vars, runVars

-----------------------------------------------------------------------------
(* The board.                                                              *)

\* What a card says of a task that was claimed.
Started(t) == IF t \in early THEN "Todo" ELSE "In Progress"

\* What a card may say of a task, as in BoardFollowsQueue.
Agrees(t, label) ==
  /\ job = t /\ verdict = "none" => label = Started(t)
  /\ job = t /\ verdict # "none" =>
       label \in {Started(t), "Completed", "Changes Requested"}
  /\ job # t /\ st[t] = "pending" =>
       label \in {"Todo", "In Progress", "Failed (Will Retry)"}
  /\ job # t /\ st[t] = "completed" => label = "Review"
  /\ job # t /\ st[t] = "failed" => label = "Failed (Permanent)"

\* At most one handler at a time is about a task.
OneHandlerEach == \A h, g \in handlers : h.task = g.task => h = g

\* A handler makes the card of a task that has none, or moves one.
HandlersKnowTheirTask ==
  \A h \in handlers :
    IF h.at = "move" THEN card[h.task] # "none"
    ELSE h.to = "Todo" /\ card[h.task] = "none" /\ st[h.task] # "new"

\* Before it is created a task has no card; a run that was lost is on record.
TasksAreKnown ==
  \A t \in Task :
    /\ st[t] = "new" => card[t] = "none"
    /\ st[t] = "in-progress" /\ job # t => t \in disturbed

\* The verdict is there after the review and not before.
VerdictInTime ==
  /\ pc \in {"recall", "think", "conclude", "authorise", "review"} =>
       verdict = "none"
  /\ pc \in {"notify", "reply"} => verdict # "none"

\* The card agrees with the task, or is about to: its handler moves it there.
CardsComeRight ==
  \A t \in Task \ disturbed :
    /\ \A h \in handlers : h.task = t => Agrees(t, h.to)
    /\ card[t] # "none" /\ (\A h \in handlers : h.task # t) =>
         Agrees(t, card[t])

BoardInv ==
  /\ OneHandlerEach
  /\ HandlersKnowTheirTask
  /\ TasksAreKnown
  /\ VerdictInTime
  /\ CardsComeRight

LEMMA BoardStart == RInit => BoardInv
  BY ReviewConstantsAssumption
  DEF RInit, BoardInv, OneHandlerEach, HandlersKnowTheirTask, TasksAreKnown,
      VerdictInTime, CardsComeRight

\* An event of a task that had no handler: if it has a card, the handler is on
\* its way to what the card is to say.
LEMMA AnnouncedComesRight ==
  ASSUME handlers = {}, NEW t, NEW label, Announce(t, label)
  PROVE  /\ \A h \in handlers' :
              h.task = t /\ h.to = label /\ h.at = "move" /\ card[t] # "none"
         /\ card[t] # "none" => \E h \in handlers' : h.task = t
         /\ OneHandlerEach'
<1>1. CASE card[t] = "none"
  BY <1>1 DEF Announce, OneHandlerEach
<1>2. CASE card[t] # "none"
  <2>1. PICK h : h = [task |-> t, to |-> label, at |-> "move"]
    OBVIOUS
  <2>2. h.task = t /\ h.to = label /\ h.at = "move"
    BY <2>1
  <2>3. handlers' = {h}
    BY <1>2, <2>1 DEF Announce
  <2>4. OneHandlerEach'
    BY <2>3 DEF OneHandlerEach
  <2> QED
    BY <1>2, <2>2, <2>3, <2>4
<1> QED
  BY <1>1, <1>2

\* The tasks a step is not about agree with what they agreed with.
LEMMA OthersAgree ==
  ASSUME handlers = {}, BoardInv, NEW t, NEW label, UNCHANGED <<card, disturbed, early>>,
         \A h \in handlers' : h.task = t /\ h.to = label,
         card[t] # "none" => \E h \in handlers' : h.task = t,
         Agrees(t, label)',
         \A u \in Task \ {t} : UNCHANGED st[u] /\ job # u /\ job' # u
  PROVE  CardsComeRight'
<1>1. ASSUME NEW u \in Task \ {t}, NEW l PROVE Agrees(u, l) => Agrees(u, l)'
  BY DEF Agrees, Started
<1> QED
  BY <1>1 DEF BoardInv, CardsComeRight

\* The end of a run: what the event says is what became of the task.
LEMMA FinishComesRight ==
  ASSUME RTypeOK, BoardInv, NEW t \in Task, job = t, handlers = {},
         \/ FinishCompleted \/ FinishFailed
         \/ FinishPaused /\ verdict = "none",
         UNCHANGED <<card, disturbed, early>>
  PROVE  BoardInv'
<1>0. /\ st \in [Task -> Status] /\ NoTask \notin Task
      /\ pc' = "idle" /\ job' = NoTask
  BY ReviewConstantsAssumption
  DEF FinishCompleted, FinishFailed, FinishPaused, RTypeOK, LeaveRun
<1>1. VerdictInTime'
  BY <1>0 DEF VerdictInTime
<1>2. ASSUME NEW to \in {"pending", "completed", "failed"}, NEW label,
             st' = [st EXCEPT ![t] = to], Announce(t, label),
             to = "pending" => label = "Failed (Will Retry)",
             to = "completed" => label = "Review",
             to = "failed" => label = "Failed (Permanent)"
      PROVE  BoardInv'
  <2>1. /\ \A h \in handlers' : h.task = t /\ h.to = label /\ h.at = "move"
                                /\ card[t] # "none"
        /\ card[t] # "none" => \E h \in handlers' : h.task = t
        /\ OneHandlerEach'
    BY <1>2, AnnouncedComesRight
  <2>2. st'[t] = to /\ \A u \in Task \ {t} : st'[u] = st[u]
    BY <1>0, <1>2
  <2>3. Agrees(t, label)'
    BY <1>0, <1>2, <2>2 DEF Agrees
  <2>4. CardsComeRight'
    BY <1>0, <2>1, <2>2, <2>3, OthersAgree
  <2>5. HandlersKnowTheirTask'
    BY <2>1 DEF HandlersKnowTheirTask
  <2>6. TasksAreKnown'
    BY <1>0, <1>2, <2>2 DEF BoardInv, TasksAreKnown
  <2> QED
    BY <1>1, <2>1, <2>4, <2>5, <2>6 DEF BoardInv
<1>3. CASE FinishCompleted
  BY <1>2, <1>3 DEF FinishCompleted
<1>4. CASE FinishFailed
  <2>1. PICK again \in BOOLEAN :
          /\ st' = [st EXCEPT ![t] = IF again THEN "pending" ELSE "failed"]
          /\ Announce(t, IF again THEN "Failed (Will Retry)"
                                    ELSE "Failed (Permanent)")
    BY <1>4 DEF FinishFailed, Fail
  <2> QED
    BY <1>2, <2>1
<1>5. CASE FinishPaused /\ verdict = "none"
  <2>1. /\ st'[t] = "pending" /\ \A u \in Task \ {t} : st'[u] = st[u]
        /\ handlers' = {}
    BY <1>0, <1>5 DEF FinishPaused
  <2>2. OneHandlerEach' /\ HandlersKnowTheirTask' /\ TasksAreKnown'
    BY <1>0, <2>1
    DEF BoardInv, OneHandlerEach, HandlersKnowTheirTask, TasksAreKnown
  <2>3. \A u \in Task : \A l : Agrees(u, l) => Agrees(u, l)'
    BY <1>0, <1>5, <2>1 DEF Agrees, Started
  <2>4. \A u \in Task \ disturbed' : card[u] # "none" => Agrees(u, card[u])
    BY DEF BoardInv, CardsComeRight
  <2>5. CardsComeRight'
    <3> SUFFICES ASSUME NEW u \in Task \ disturbed', card[u] # "none"
                 PROVE  Agrees(u, card[u])'
      BY <2>1 DEF CardsComeRight
    <3>1. PICK l : l = card[u] /\ l = card'[u]
      OBVIOUS
    <3>2. Agrees(u, l)'
      BY <2>3, <2>4, <3>1
    <3> QED
      BY <3>1, <3>2 DEF Agrees, Started
  <2> QED
    BY <1>1, <2>2, <2>5 DEF BoardInv
<1> QED
  BY <1>3, <1>4, <1>5

\* A run that is cut short: its task is on record, and nothing else changes.
LEMMA CutShortComesRight ==
  ASSUME RTypeOK, BoardInv, job # NoTask, LeaveRun, UNCHANGED <<card, handlers, early>>,
         handlers = {}, disturbed' = disturbed \cup {job},
         Fail(job) \/ UNCHANGED <<st, retries>>
  PROVE  BoardInv'
<1>0. /\ job \in Task /\ NoTask \notin Task /\ st \in [Task -> Status]
      /\ pc' = "idle" /\ job' = NoTask
  BY ReviewConstantsAssumption DEF RTypeOK, LeaveRun
<1>1. /\ \A t \in Task \ {job} : st'[t] = st[t]
      /\ st'[job] = "new" => st[job] = "new"
  BY <1>0 DEF Fail
<1>2. OneHandlerEach' /\ HandlersKnowTheirTask' /\ VerdictInTime' /\ TasksAreKnown'
  BY <1>0, <1>1
  DEF BoardInv, OneHandlerEach, HandlersKnowTheirTask, VerdictInTime, TasksAreKnown
<1>3. CardsComeRight'
  BY <1>0, <1>1 DEF BoardInv, CardsComeRight, Agrees
<1> QED
  BY <1>2, <1>3 DEF BoardInv

\* A step that leaves tasks, cards and handlers alone; a verdict may come in.
LEMMA QuietComesRight ==
  ASSUME RTypeOK, BoardInv, UNCHANGED <<st, card, handlers, job, disturbed, early>>,
         VerdictInTime', verdict' = verdict \/ verdict = "none"
  PROVE  BoardInv'
<1>1. ASSUME NEW t, NEW label PROVE Agrees(t, label) => Agrees(t, label)'
  BY DEF Agrees, Started
<1>2. OneHandlerEach' /\ HandlersKnowTheirTask' /\ TasksAreKnown'
  BY DEF BoardInv, OneHandlerEach, HandlersKnowTheirTask, TasksAreKnown
<1>3. CardsComeRight'
  BY <1>1 DEF BoardInv, CardsComeRight
<1> QED
  BY <1>2, <1>3 DEF BoardInv

\* A step after which nothing undisturbed is left to be said.
LEMMA VanishComesRight ==
  ASSUME RInv, BoardInv, Vanish
  PROVE  BoardInv'
<1>1. \A t \in Task \ disturbed' :
        t \notin disturbed /\ job # t /\ \A h \in handlers : h.task # t
  BY ReviewConstantsAssumption DEF Vanish, RInv, RTypeOK
<1>2. handlers' = {} /\ pc' = "idle" /\ job' = NoTask /\ verdict' = "none"
      /\ UNCHANGED <<st, card>> /\ disturbed \subseteq disturbed'
  BY DEF Vanish, taskVars
<1>3. OneHandlerEach' /\ HandlersKnowTheirTask' /\ VerdictInTime'
  BY <1>2 DEF OneHandlerEach, HandlersKnowTheirTask, VerdictInTime
<1>4. TasksAreKnown'
  BY <1>1, <1>2 DEF BoardInv, TasksAreKnown
<1>5. CardsComeRight'
  BY <1>1, <1>2, ReviewConstantsAssumption DEF BoardInv, CardsComeRight, Agrees
<1> QED
  BY <1>3, <1>4, <1>5 DEF BoardInv

\* A step between runs about the tasks C: they have no card, or are disturbed.
LEMMA CardlessComeRight ==
  ASSUME CardsComeRight, UNCHANGED <<card, job, verdict, early>>, NEW C,
         disturbed \subseteq disturbed',
         \A t \in Task \ C : st'[t] = st[t],
         \A h \in handlers \cup handlers' :
           h.task \notin C => h \in handlers /\ h \in handlers',
         \A t \in C : \/ t \in disturbed'
                     \/ /\ card[t] = "none"
                        /\ \A h \in handlers' : h.task = t => Agrees(t, h.to)'
  PROVE  CardsComeRight'
<1>1. ASSUME NEW t \in Task \ C, NEW l PROVE Agrees(t, l) => Agrees(t, l)'
  BY DEF Agrees, Started
<1>2. ASSUME NEW t \in Task \ disturbed', t \in C
      PROVE  card'[t] = "none" /\ \A h \in handlers' : h.task = t => Agrees(t, h.to)'
  BY <1>2
<1>3. ASSUME NEW t \in Task \ disturbed', t \notin C
      PROVE  /\ \A h \in handlers' : h.task = t => Agrees(t, h.to)'
             /\ card'[t] # "none" /\ (\A h \in handlers' : h.task # t) =>
                  Agrees(t, card[t])'
  <2>1. t \in Task \ disturbed
    BY <1>3
  <2>2. \A h \in handlers' : h.task = t => h \in handlers
    BY <1>3
  <2>3. (\A h \in handlers' : h.task # t) => \A h \in handlers : h.task # t
    BY <1>3
  <2> QED
    <3>1. \A l : Agrees(t, l) => Agrees(t, l)'
      BY <1>1, <1>3
    <3>2. \A h \in handlers' : h.task = t => Agrees(t, h.to)'
      BY <2>1, <2>2, <3>1 DEF CardsComeRight
    <3>3. ASSUME card[t] # "none", \A h \in handlers' : h.task # t
          PROVE  Agrees(t, card[t])'
      <4>1. Agrees(t, card[t])
        BY <2>1, <2>3, <3>3 DEF CardsComeRight
      <4>2. PICK l : l = card[t] /\ l = card'[t]
        OBVIOUS
      <4>3. Agrees(t, l)'
        BY <3>1, <4>1, <4>2
      <4> QED
        BY <4>2, <4>3 DEF Agrees, Started
    <3> QED
      BY <3>2, <3>3
<1> QED
  BY <1>2, <1>3 DEF CardsComeRight

LEMMA SubmitComesRight ==
  ASSUME RInv, BoardInv, NEW S \in SUBSET Task, Create(S), pc' = "poll",
         UNCHANGED <<card, job, verdict, disturbed, early>>
  PROVE  BoardInv'
<1>0. /\ pc # "settle" /\ handlers = {} /\ \A t \in S : st[t] = "new"
      /\ st' = [t \in Task |-> IF t \in S THEN "pending" ELSE st[t]]
  BY DEF Create, Drained, InTick
<1>1. /\ \A t \in S : st[t] = "new" /\ card[t] = "none" /\ job # t
      /\ \A t \in Task \ S : st'[t] = st[t]
      /\ \A t \in S : st'[t] = "pending"
  BY <1>0, ReviewConstantsAssumption DEF RInv, RunInv, RunIsOpen, BoardInv, TasksAreKnown
<1>2. \A h \in handlers' : h.task \in S /\ h.to = "Todo" /\ h.at # "move"
  BY DEF Create
<1>3. OneHandlerEach'
  BY DEF Create, OneHandlerEach
<1>4. HandlersKnowTheirTask' /\ TasksAreKnown' /\ VerdictInTime'
  BY <1>0, <1>1, <1>2 DEF BoardInv, HandlersKnowTheirTask, TasksAreKnown, VerdictInTime
<1>5. CardsComeRight'
  <2>1. \A t \in S : Agrees(t, "Todo")'
    BY <1>1 DEF Agrees
  <2> QED
    BY <1>0, <1>1, <1>2, <2>1, CardlessComeRight DEF BoardInv
<1> QED
  BY <1>3, <1>4, <1>5 DEF BoardInv

LEMMA HandleComesRight ==
  ASSUME RInv, BoardInv, Handle
  PROVE  BoardInv'
<1> USE DEF BoardInv, OneHandlerEach, TasksAreKnown, VerdictInTime
<1>1. PICK h \in handlers :
        CreateBoard(h) \/ CreateCard(h) \/ MoveCard(h) \/ HandlerThrows(h)
  BY DEF Handle
<1>2. h \in Handler /\ h.task \in Task /\ card \in [Task -> Label \cup {"none"}]
      /\ st \in [Task -> Status] /\ h.to # "none"
  BY DEF RInv, RTypeOK, Handler, Label
<1>3. CASE CreateBoard(h)
  <2>1. UNCHANGED <<st, card, job, pc, verdict, disturbed, early>>
    BY <1>3 DEF CreateBoard, taskVars, runVars, pastVars
  <2>2. \A g \in handlers' :
          g \in handlers \/ (g = [h EXCEPT !.at = "card"] /\ g.task = h.task
                             /\ g.to = h.to /\ g.at = "card")
    BY <1>2, <1>3 DEF CreateBoard, Handler
  <2>3. h \notin handlers' /\ h.at = "board"
    BY <1>2, <1>3 DEF CreateBoard, Handler
  <2>4. OneHandlerEach' /\ HandlersKnowTheirTask'
    BY <2>1, <2>2, <2>3 DEF HandlersKnowTheirTask
  <2>5. CardsComeRight'
    <3>1. ASSUME NEW t, NEW l PROVE Agrees(t, l)' <=> Agrees(t, l)
      BY <2>1 DEF Agrees, Started
    <3>2. \A g \in handlers \ {h} : g \in handlers'
      BY <1>3 DEF CreateBoard
    <3>3. card[h.task] = "none"
      BY <2>3 DEF HandlersKnowTheirTask
    <3> QED
      BY <1>2, <2>1, <2>2, <2>3, <3>1, <3>2, <3>3 DEF CardsComeRight
  <2> QED
    BY <2>1, <2>4, <2>5
<1>4. CASE CreateCard(h)
  <2>1. /\ UNCHANGED <<st, job, pc, verdict, disturbed, early>>
        /\ card' = [card EXCEPT ![h.task] = h.to]
        /\ handlers' = handlers \ {h}
    BY <1>4 DEF CreateCard, taskVars, runVars, pastVars
  <2>2. \A g \in handlers' : g \in handlers /\ g.task # h.task
    BY <2>1
  <2>3. HandlersKnowTheirTask'
    BY <1>2, <2>1, <2>2 DEF HandlersKnowTheirTask, RInv, RTypeOK, Handler
  <2>4. TasksAreKnown'
    BY <1>2, <1>4, <2>1 DEF HandlersKnowTheirTask, CreateCard
  <2>5. CardsComeRight'
    <3>1. ASSUME NEW t, NEW l PROVE Agrees(t, l)' <=> Agrees(t, l)
      BY <2>1 DEF Agrees, Started
    <3>2. h.task \notin disturbed => Agrees(h.task, h.to)
      BY <1>2 DEF CardsComeRight
    <3>3. ASSUME NEW t \in Task \ {h.task}
          PROVE  /\ card'[t] = card[t]
                 /\ (\A g \in handlers' : g.task # t) => \A g \in handlers : g.task # t
      BY <1>2, <2>1
    <3>4. card'[h.task] = h.to
      BY <1>2, <2>1
    <3> QED
      BY <1>2, <2>1, <2>2, <3>1, <3>2, <3>3, <3>4 DEF CardsComeRight
  <2> QED
    BY <2>1, <2>2, <2>3, <2>4, <2>5
\* After a rejection the row changes under its run, which the card ignores.
<1>5. CASE MoveCard(h)
  <2>1. /\ UNCHANGED <<job, pc, verdict, disturbed, early>>
        /\ card' = [card EXCEPT ![h.task] = h.to]
        /\ handlers' = handlers \ {h}
        /\ st' = st \/ (job = h.task /\ st' = [st EXCEPT ![job] = "pending"])
    BY <1>5 DEF MoveCard, runVars, pastVars, RInv, HandlerInv, RequeuesOwnTask
  <2>2. \A g \in handlers' : g \in handlers /\ g.task # h.task
    BY <2>1
  <2>3. HandlersKnowTheirTask'
    BY <1>2, <2>1, <2>2 DEF HandlersKnowTheirTask, RInv, RTypeOK, Handler
  <2>4. TasksAreKnown'
    BY <1>2, <1>5, <2>1 DEF HandlersKnowTheirTask, MoveCard
  <2>5. CardsComeRight'
    <3>1. ASSUME NEW t \in Task, NEW l PROVE Agrees(t, l) => Agrees(t, l)'
      <4>1. st'[t] = st[t] \/ job = t
        BY <1>2, <2>1
      <4> QED
        BY <2>1, <4>1 DEF Agrees, Started
    <3>2. h.task \notin disturbed => Agrees(h.task, h.to)
      BY <1>2 DEF CardsComeRight
    <3>3. ASSUME NEW t \in Task \ {h.task}
          PROVE  /\ card'[t] = card[t]
                 /\ (\A g \in handlers' : g.task # t) => \A g \in handlers : g.task # t
      BY <1>2, <2>1
    <3>4. card'[h.task] = h.to
      BY <1>2, <2>1
    <3> QED
      BY <1>2, <2>1, <2>2, <3>1, <3>2, <3>3, <3>4 DEF CardsComeRight
  <2> QED
    BY <2>1, <2>2, <2>3, <2>4, <2>5
<1>6. CASE HandlerThrows(h)
  <2>1. /\ UNCHANGED <<st, card, job, pc, verdict, early>>
        /\ handlers' = handlers \ {h} /\ disturbed' = disturbed \cup {h.task}
    BY <1>6 DEF HandlerThrows, taskVars, runVars
  <2>2. HandlersKnowTheirTask'
    BY <1>2, <2>1 DEF HandlersKnowTheirTask
  <2>3. CardsComeRight'
    <3>1. ASSUME NEW t, NEW l PROVE Agrees(t, l)' <=> Agrees(t, l)
      BY <2>1 DEF Agrees, Started
    <3> QED
      BY <1>2, <2>1, <3>1 DEF CardsComeRight
  <2> QED
    BY <2>1, <2>2, <2>3
<1> QED
  BY <1>1, <1>3, <1>4, <1>5, <1>6

LEMMA WorkComesRight ==
  ASSUME RInv, BoardInv, Work \/ ReviewDone
  PROVE  BoardInv'
<1>0. RTypeOK /\ VerdictInTime
  BY DEF RInv, BoardInv
<1> USE DEF taskVars, boardVars, pastVars, Drained, InTick
<1>1. ASSUME NEW from, NEW to, Advance(from, to), VerdictInTime',
             verdict' = verdict \/ verdict = "none"
      PROVE  BoardInv'
  BY <1>0, <1>1, QuietComesRight DEF Advance
<1>2. ASSUME job # NoTask, handlers = {}, UNCHANGED <<card, disturbed, early>>,
             \/ FinishCompleted \/ FinishFailed
             \/ FinishPaused /\ verdict = "none"
      PROVE  BoardInv'
  BY <1>0, <1>2, FinishComesRight DEF RTypeOK
<1>3. pc \notin {"idle", "poll"} => job # NoTask
  BY DEF RInv, RunInv, RunHasTask
<1>4. CASE Recall \/ Research \/ SendReview
  BY <1>0, <1>1, <1>4 DEF Recall, Research, SendReview, Advance, VerdictInTime
<1>5. CASE Conclude
  BY <1>0, <1>1, <1>2, <1>3, <1>5 DEF Conclude, Advance, VerdictInTime
<1>6. CASE Think
  BY <1>0, <1>1, <1>2, <1>3, <1>6 DEF Think, Advance, VerdictInTime
<1>7. CASE NotWritten
  BY <1>0, <1>2, <1>3, <1>7 DEF NotWritten, VerdictInTime
<1>8. CASE Remember
  BY <1>2, <1>3, <1>8 DEF Remember
<1>9. CASE ReviewDone
  <2>1. Advance("review", "notify") /\ verdict = "none"
    BY <1>0, <1>9 DEF ReviewDone, Advance, VerdictInTime
  <2>2. VerdictInTime'
    BY <1>9, <2>1 DEF ReviewDone, Verdict, Advance, VerdictInTime
  <2> QED
    BY <1>1, <2>1, <2>2
<1>10. CASE Notify
  <2>1. /\ UNCHANGED <<st, card, job, verdict, disturbed, early>>
        /\ pc = "notify" /\ pc' = "reply" /\ handlers = {} /\ job \in Task
        /\ verdict # "none" => verdict \in {"approved", "request-changes"}
    BY <1>0, <1>3, <1>10 DEF Notify, RTypeOK, Verdict
  <2>2. PICK label \in {"Completed", "Changes Requested"} : Announce(job, label)
    BY <1>10 DEF Notify
  <2>3. /\ \A h \in handlers' : h.task = job /\ h.to = label /\ h.at = "move"
                                /\ card[job] # "none"
        /\ card[job] # "none" => \E h \in handlers' : h.task = job
        /\ OneHandlerEach'
    BY <2>1, <2>2, AnnouncedComesRight
  <2>4. verdict # "none" /\ VerdictInTime'
    BY <1>0, <2>1 DEF VerdictInTime
  <2>5. Agrees(job, label)'
    BY <2>1, <2>4 DEF Agrees, Started
  <2>6. CardsComeRight'
    BY <2>1, <2>3, <2>5, OthersAgree
  <2>7. HandlersKnowTheirTask' /\ TasksAreKnown'
    BY <2>1, <2>3 DEF BoardInv, HandlersKnowTheirTask, TasksAreKnown
  <2> QED
    BY <2>3, <2>4, <2>6, <2>7 DEF BoardInv
<1>11. CASE Reply
  <2>1. CASE verdict = "approved"
    BY <1>0, <1>11, <2>1, QuietComesRight DEF Reply, VerdictInTime
  <2>2. CASE FinishFailed
    BY <1>2, <1>3, <1>11, <2>2 DEF Reply
  <2> QED
    BY <1>11, <2>1, <2>2 DEF Reply
<1>12. CASE SendThrows
  BY <1>0, <1>12, QuietComesRight DEF SendThrows, VerdictInTime
<1> QED
  BY <1>4, <1>5, <1>6, <1>7, <1>8, <1>9, <1>10, <1>11, <1>12 DEF Work

\* The claim: a card that exists is moved to "In Progress"; one that is still
\* to be made will say "Todo".
LEMMA ClaimComesRight ==
  ASSUME RInv, BoardInv, NEW t \in Task, Claim(t)
  PROVE  BoardInv'
<1>0. /\ RTypeOK /\ pc = "poll" /\ job = NoTask /\ t # NoTask
      /\ \A h \in handlers : h.at # "move"
  BY ReviewConstantsAssumption
  DEF Claim, Take, RInv, RunInv, RunHasTask, HandlerInv, TickIsFresh
<1>1. /\ job' = t /\ pc' = "recall" /\ verdict' = "none" /\ UNCHANGED <<card, disturbed>>
      /\ st[t] = "pending" /\ st'[t] = "in-progress"
      /\ \A u \in Task \ {t} : st'[u] = st[u] /\ (u \in early' <=> u \in early)
      /\ t \in early' <=> \E h \in handlers : h.task = t
  BY <1>0 DEF Claim, Take, RTypeOK
<1>2. TasksAreKnown' /\ VerdictInTime'
  BY <1>0, <1>1, ReviewConstantsAssumption
  DEF BoardInv, TasksAreKnown, VerdictInTime
<1>3. \A u \in Task \ {t} : \A l : Agrees(u, l) => Agrees(u, l)'
  <2>1. \A u \in Task \ {t} : job # u /\ job' # u /\ st'[u] = st[u]
    BY <1>0, <1>1, ReviewConstantsAssumption
  <2> QED
    BY <2>1 DEF Agrees
<1>4. \A h \in handlers : h.to = "Todo" /\ card[h.task] = "none" /\ st[h.task] # "new"
                          /\ h.task \in Task
  BY <1>0 DEF BoardInv, HandlersKnowTheirTask, RTypeOK, Handler
<1>5. \A h \in handlers : st'[h.task] # "new"
  BY <1>1, <1>4
<1>6. CASE handlers' = handlers /\ (card[t] # "none" => FALSE)
  <2>1. OneHandlerEach' /\ HandlersKnowTheirTask'
    BY <1>0, <1>1, <1>4, <1>5, <1>6 DEF BoardInv, OneHandlerEach, HandlersKnowTheirTask
  <2>2. (\E h \in handlers : h.task = t) => Agrees(t, "Todo")'
    BY <1>1 DEF Agrees, Started
  <2>3. CardsComeRight'
    BY <1>1, <1>3, <1>4, <1>6, <2>2 DEF BoardInv, CardsComeRight
  <2> QED
    BY <1>2, <2>1, <2>3 DEF BoardInv
<1>7. CASE card[t] # "none"
  <2>1. PICK m : m = [task |-> t, to |-> "In Progress", at |-> "move"]
    OBVIOUS
  <2>2. m.task = t /\ m.to = "In Progress" /\ m.at = "move"
    BY <2>1
  <2>3. handlers' = handlers \cup {m}
    BY <1>7, <2>1 DEF Claim, Announce
  <2>4. \A h \in handlers : h.task # t
    BY <1>4, <1>7
  <2>5. OneHandlerEach'
    BY <2>2, <2>3, <2>4 DEF BoardInv, OneHandlerEach
  <2>6. HandlersKnowTheirTask'
    BY <1>0, <1>1, <1>4, <1>5, <1>7, <2>2, <2>3 DEF HandlersKnowTheirTask
  <2>7. Agrees(t, "In Progress")'
    BY <1>1, <2>4 DEF Agrees, Started
  <2>8. CardsComeRight'
    <3>1. ASSUME NEW u \in Task \ disturbed', u # t
          PROVE  /\ \A h \in handlers' : h.task = u => Agrees(u, h.to)'
                 /\ card'[u] # "none" /\ (\A h \in handlers' : h.task # u) =>
                      Agrees(u, card[u])'
      <4>1. \A h \in handlers' : h.task = u => h \in handlers
        BY <2>2, <2>3, <3>1
      <4>2. \A h \in handlers : h \in handlers'
        BY <2>3
      <4>3. /\ \A h \in handlers : h.task = u => Agrees(u, h.to)
            /\ card[u] # "none" /\ (\A h \in handlers : h.task # u) => Agrees(u, card[u])
        BY <1>1, <3>1 DEF BoardInv, CardsComeRight
      <4>4. PICK l : l = card[u] /\ l = card'[u]
        BY <1>1
      <4>5. Agrees(u, l) => Agrees(u, l)'
        BY <1>3, <3>1
      <4>6. ASSUME card'[u] # "none", \A h \in handlers' : h.task # u
            PROVE  Agrees(u, card[u])'
        <5>1. Agrees(u, l)'
          BY <1>1, <4>2, <4>3, <4>4, <4>5, <4>6
        <5> QED
          BY <4>4, <5>1 DEF Agrees, Started
      <4>7. \A h \in handlers' : h.task = u => Agrees(u, h.to)'
        BY <1>3, <3>1, <4>1, <4>3
      <4> QED
        BY <4>6, <4>7
    <3>2. /\ \A h \in handlers' : h.task = t => h.to = "In Progress"
          /\ \E h \in handlers' : h.task = t
      BY <2>2, <2>3, <2>4
    <3>3. \A h \in handlers' : h.task = t => Agrees(t, h.to)'
      BY <2>7, <3>2
    <3>4. ASSUME NEW u \in Task \ disturbed'
          PROVE  /\ \A h \in handlers' : h.task = u => Agrees(u, h.to)'
                 /\ card'[u] # "none" /\ (\A h \in handlers' : h.task # u) =>
                      Agrees(u, card[u])'
      BY <3>1, <3>2, <3>3
    <3> QED
      BY <1>1, <3>4 DEF CardsComeRight
  <2> QED
    BY <1>2, <2>5, <2>6, <2>8 DEF BoardInv
<1>8. card[t] = "none" => handlers' = handlers
  BY DEF Claim, Announce
<1> QED
  BY <1>6, <1>7, <1>8

LEMMA PollComesRight ==
  ASSUME RInv, BoardInv, Poll
  PROVE  BoardInv'
<1>0. RTypeOK /\ VerdictInTime
  BY DEF RInv, BoardInv
<1>1. ASSUME NEW S \in SUBSET Task, PollBegin(S) PROVE BoardInv'
  BY <1>1, SubmitComesRight DEF PollBegin
\* A row that is written to without an event: its task is on record.
<1>2. ASSUME NEW t \in Task, st[t] # "new", NEW s \in Status \ {"new"},
             st' = [st EXCEPT ![t] = s], UNCHANGED <<card, handlers, job, verdict, early>>,
             disturbed' = disturbed \cup {t}, pc' \in {"idle", "poll"}
      PROVE  BoardInv'
  <2>1. \A u \in Task \ {t} : st'[u] = st[u]
    BY <1>0, <1>2 DEF RTypeOK
  <2>2. st'[t] # "new"
    BY <1>0, <1>2 DEF RTypeOK
  <2>3. CardsComeRight'
    BY <1>2, <2>1, CardlessComeRight DEF BoardInv
  <2>4. \A h \in handlers : h.task \in Task
    BY <1>0 DEF RTypeOK, Handler
  <2>5. OneHandlerEach' /\ HandlersKnowTheirTask' /\ VerdictInTime' /\ TasksAreKnown'
    BY <1>2, <2>1, <2>2, <2>4
    DEF BoardInv, OneHandlerEach, HandlersKnowTheirTask, VerdictInTime, TasksAreKnown
  <2> QED
    BY <2>3, <2>5 DEF BoardInv
<1>3. ASSUME NEW t \in Task, Recover(t) PROVE BoardInv'
  <2>1. PICK s \in {"pending", "failed"} : st' = [st EXCEPT ![t] = s]
    BY <1>3 DEF Recover, Fail
  <2> QED
    BY <1>2, <1>3, <2>1 DEF Recover, Status, boardVars, runVars
<1>4. ASSUME NEW t \in Task, ClaimUnread(t) PROVE BoardInv'
  BY <1>2, <1>4 DEF ClaimUnread, Take, Status, boardVars
<1>5. CASE PollEnds
  BY <1>0, <1>5, QuietComesRight DEF PollEnds, VerdictInTime, taskVars, boardVars
<1> QED
  BY <1>1, <1>3, <1>4, <1>5, ClaimComesRight DEF Poll

LEMMA SettleComesRight ==
  ASSUME RInv, BoardInv, Settle
  PROVE  BoardInv'
<1>0. RTypeOK /\ RunHasTask /\ TickIsFresh
  BY DEF RInv, RunInv, HandlerInv
<1>1. Over \/ pc = "settle" => job # NoTask /\ job \in Task
  BY <1>0 DEF Over, FailedResult, RunHasTask, RTypeOK
<1>2. CASE CompleteThrows
  BY <1>0, <1>1, <1>2, FinishComesRight DEF CompleteThrows, Drained, Over
<1>3. CASE SettleThrows
  BY <1>0, <1>1, <1>3, CutShortComesRight DEF SettleThrows, Drained, boardVars
\* The row is not that of a card until the run is left.
<1>4. CASE FailUnread
  <2>1. /\ UNCHANGED <<card, handlers, job, verdict, disturbed, early>> /\ handlers = {}
        /\ pc' = "settle" /\ job \in Task
        /\ \A t \in Task \ {job} : st'[t] = st[t]
        /\ st'[job] = "new" => st[job] = "new"
    BY <1>0, <1>1, <1>4 DEF FailUnread, Drained, Over, boardVars, Fail, RTypeOK
  <2>2. ASSUME NEW t \in Task, NEW l, Agrees(t, l) PROVE Agrees(t, l)'
    <3>1. CASE t = job
      BY <2>1, <2>2, <3>1 DEF Agrees, Started
    <3>2. CASE t # job
      BY <2>1, <2>2, <3>2 DEF Agrees
    <3> QED
      BY <3>1, <3>2
  <2>3. CardsComeRight'
    BY <2>1, <2>2 DEF BoardInv, CardsComeRight
  <2> QED
    BY <2>1, <2>3
    DEF BoardInv, OneHandlerEach, HandlersKnowTheirTask, VerdictInTime, TasksAreKnown
<1>5. CASE FailAgain
  BY <1>0, <1>1, <1>5, FinishComesRight DEF FailAgain, TickIsFresh
<1>6. CASE FailAgainThrows
  BY <1>0, <1>1, <1>6, CutShortComesRight DEF FailAgainThrows, TickIsFresh, boardVars
<1> QED
  BY <1>2, <1>3, <1>4, <1>5, <1>6 DEF Settle

LEMMA BoardStep == RInv /\ BoardInv /\ [RNext]_vars => BoardInv'
<1> SUFFICES ASSUME RInv, BoardInv, [RNext]_vars PROVE BoardInv'
  OBVIOUS
<1>0. RTypeOK /\ VerdictInTime
  BY DEF RInv, BoardInv
<1>1. ASSUME NEW S \in SUBSET Task, Create(S), pc' = "poll",
             UNCHANGED <<card, job, verdict, disturbed, early>>
      PROVE  BoardInv'
  BY <1>1, SubmitComesRight
<1>2. ASSUME NEW t \in Task, SubmitCli(t) PROVE BoardInv'
  <2>1. /\ st[t] = "new" /\ card[t] = "none"
        /\ st' = [st EXCEPT ![t] = "pending"]
        /\ UNCHANGED <<card, handlers, job, pc, verdict, disturbed, early>>
    BY <1>2 DEF SubmitCli, BoardInv, TasksAreKnown, boardVars, runVars, pastVars
  <2>2. \A h \in handlers : h.task # t
    BY <2>1 DEF BoardInv, HandlersKnowTheirTask
  <2>3. st \in [Task -> Status]
    BY <1>0 DEF RTypeOK
  <2>4. OneHandlerEach' /\ HandlersKnowTheirTask' /\ TasksAreKnown' /\ VerdictInTime'
    BY <2>1, <2>2, <2>3
    DEF BoardInv, OneHandlerEach, HandlersKnowTheirTask, TasksAreKnown, VerdictInTime
  <2>5. CardsComeRight'
    <3>1. \A u \in Task \ {t} : st'[u] = st[u]
      BY <2>1, <2>3
    <3>2. card[t] = "none" /\ \A h \in handlers' : h.task # t
      BY <2>1, <2>2
    <3>3. \A u \in {t} : card[u] = "none" /\ \A h \in handlers' : h.task # u
      BY <3>2
    <3>4. \A u \in {t} : card[u] = "none" /\ \A h \in handlers' : h.task = u => Agrees(u, h.to)'
      BY <3>3
    <3>5. \A h \in handlers \cup handlers' :
            h.task \notin {t} => h \in handlers /\ h \in handlers'
      BY <2>1
    <3>6. CardsComeRight /\ disturbed \subseteq disturbed' /\ UNCHANGED <<card, job, verdict, early>>
      BY <2>1 DEF BoardInv
    <3> QED
      BY <3>1, <3>4, <3>5, <3>6, CardlessComeRight
  <2> QED
    BY <2>4, <2>5 DEF BoardInv
<1>3. CASE Crash \/ ReplyTimeout
  BY <1>3, VanishComesRight DEF Crash, ReplyTimeout
<1>4. CASE Handle
  BY <1>4, HandleComesRight
<1>5. CASE Work \/ ReviewDone
  BY <1>5, WorkComesRight
<1>6. CASE Boot
  BY <1>0, <1>6, QuietComesRight
  DEF Boot, taskVars, boardVars, runVars, pastVars, VerdictInTime
<1>7. CASE Poll
  BY <1>1, <1>7, PollComesRight
<1>8. CASE Settle
  BY <1>8, SettleComesRight
<1>9. CASE UNCHANGED vars
  BY <1>0, <1>9, QuietComesRight
  DEF vars, taskVars, boardVars, runVars, pastVars, VerdictInTime
<1> QED
  BY <1>2, <1>3, <1>4, <1>5, <1>6, <1>7, <1>8, <1>9 DEF RNext, Outside

-----------------------------------------------------------------------------
(* Cards that are never made.                                              *)

\* A handler that gets to the card: it has passed the board, or it is the
\* only one that is about to insert it.
GetsThere(h) ==
  \/ h.at = "card"
  \/ h.at = "board" /\ ~board /\ \A g \in handlers : g.at = "board" => g = h

\* Who is owed a card has it, or a handler that gets to it.
CardsOnTheWay ==
  \A t \in owed \ disturbed :
    card[t] # "none" \/ \E h \in handlers : h.task = t /\ GetsThere(h)

\* The handlers that make cards.
Makers(H) == {h \in H : h.at # "move"}

\* An event adds a handler that moves a card.
LEMMA AnnounceMakesNone ==
  ASSUME NEW t, NEW label, Announce(t, label)
  PROVE  Makers(handlers') = Makers(handlers)
<1>1. PICK m : m = [task |-> t, to |-> label, at |-> "move"]
  OBVIOUS
<1>2. m.at = "move" /\ (handlers' = handlers \/ handlers' = handlers \cup {m})
  BY <1>1 DEF Announce
<1> QED
  BY <1>2 DEF Makers

\* Handlers that move cards change nothing about those that make them.
LEMMA OnTheWayStays ==
  ASSUME CardsOnTheWay, UNCHANGED <<card, board, owed>>,
         disturbed \subseteq disturbed',
         handlers = {} \/ handlers' = handlers \/ Makers(handlers') = Makers(handlers)
  PROVE  CardsOnTheWay'
<1>1. CASE handlers = {}
  BY <1>1 DEF CardsOnTheWay
<1>2. CASE Makers(handlers') = Makers(handlers)
  <2>1. ASSUME NEW h \in handlers, GetsThere(h) PROVE h \in handlers' /\ GetsThere(h)'
    <3>1. h \in Makers(handlers')
      BY <1>2, <2>1 DEF GetsThere, Makers
    <3>2. \A g \in handlers' : g.at = "board" => g \in handlers
      BY <1>2 DEF Makers
    <3> QED
      BY <2>1, <3>1, <3>2 DEF GetsThere, Makers
  <2> QED
    BY <2>1 DEF CardsOnTheWay
<1>3. handlers' = handlers => Makers(handlers') = Makers(handlers)
  OBVIOUS
<1> QED
  BY <1>1, <1>2, <1>3

LEMMA VanishedAreDisturbed ==
  ASSUME CardsOnTheWay, Vanish
  PROVE  CardsOnTheWay'
<1>1. /\ UNCHANGED <<card, owed>> /\ disturbed \subseteq disturbed'
      /\ \A h \in handlers : h.task \in disturbed'
  BY DEF Vanish
<1> QED
  BY <1>1 DEF CardsOnTheWay

LEMMA SubmittedOnTheWay ==
  ASSUME CardsOnTheWay, NEW S \in SUBSET Task, Create(S),
         UNCHANGED <<card, board, disturbed>>
  PROVE  CardsOnTheWay'
<1>1. /\ handlers = {}
      /\ \A t \in owed \ disturbed : card[t] # "none"
  BY DEF Create, Drained, CardsOnTheWay
<1>2. ASSUME NEW t \in S, board PROVE \E h \in handlers' : h.task = t /\ GetsThere(h)'
  <2>1. [task |-> t, to |-> "Todo", at |-> "card"] \in handlers'
    BY <1>2 DEF Create
  <2> QED
    BY <2>1 DEF GetsThere
<1>3. ASSUME NEW t, S = {t}, ~board
      PROVE  \E h \in handlers' : h.task = t /\ GetsThere(h)'
  <2>1. [task |-> t, to |-> "Todo", at |-> "board"] \in handlers'
        /\ \A g, h \in handlers' : g = h
    BY <1>3 DEF Create
  <2> QED
    BY <1>1, <1>3, <2>1 DEF GetsThere
<1> QED
  BY <1>1, <1>2, <1>3 DEF Create, CardsOnTheWay

LEMMA HandledOnTheWay ==
  ASSUME RTypeOK, CardsOnTheWay, Handle
  PROVE  CardsOnTheWay'
<1>1. PICK h \in handlers :
        CreateBoard(h) \/ CreateCard(h) \/ MoveCard(h) \/ HandlerThrows(h)
  BY DEF Handle
<1>2. h \in Handler /\ h.task \in Task /\ card \in [Task -> Label \cup {"none"}]
      /\ h.to # "none" /\ owed \subseteq Task
  BY DEF RTypeOK, Handler, Label
<1>3. CASE CreateBoard(h)
  <2>1. /\ UNCHANGED <<card, owed, disturbed>> /\ h.at = "board"
        /\ \A g \in handlers : g # h => g \in handlers'
    BY <1>3 DEF CreateBoard, pastVars
  <2>2. ASSUME ~board
        PROVE  \E g \in handlers' : g.task = h.task /\ g.at = "card"
    <3>1. [h EXCEPT !.at = "card"] \in handlers'
      BY <1>3, <2>2 DEF CreateBoard
    <3>2. [h EXCEPT !.at = "card"].task = h.task /\ [h EXCEPT !.at = "card"].at = "card"
      BY <1>2 DEF Handler
    <3> QED
      BY <3>1, <3>2
  <2>3. ASSUME NEW g \in handlers, GetsThere(g)
        PROVE  \E k \in handlers' : k.task = g.task /\ GetsThere(k)'
    <3>1. CASE g.at = "card"
      BY <2>1, <3>1 DEF GetsThere
    <3>2. CASE g = h /\ ~board
      BY <2>2, <3>2 DEF GetsThere
    <3> QED
      BY <2>1, <2>3, <3>1, <3>2 DEF GetsThere
  <2> QED
    BY <2>1, <2>3 DEF CardsOnTheWay
\* A handler at a card leaves the others where they are, and the board.
<1>4. ASSUME UNCHANGED <<board, owed>>, handlers' = handlers \ {h},
             \/ disturbed' = disturbed \cup {h.task} /\ card' = card
             \/ disturbed' = disturbed /\ card' = [card EXCEPT ![h.task] = h.to]
      PROVE  CardsOnTheWay'
  <2>1. ASSUME NEW t \in owed \ disturbed', card'[t] = "none"
        PROVE  \E g \in handlers' : g.task = t /\ GetsThere(g)'
    <3>1. t \notin disturbed /\ t # h.task /\ card[t] = "none"
      BY <1>2, <1>4, <2>1
    <3>2. PICK g \in handlers : g.task = t /\ GetsThere(g)
      BY <2>1, <3>1 DEF CardsOnTheWay
    <3>3. g \in handlers' /\ GetsThere(g)'
      BY <1>4, <3>1, <3>2 DEF GetsThere
    <3> QED
      BY <3>2, <3>3
  <2> QED
    BY <1>4, <2>1 DEF CardsOnTheWay
<1>5. CASE CreateCard(h) \/ MoveCard(h)
  BY <1>4, <1>5 DEF CreateCard, MoveCard, pastVars
<1>6. CASE HandlerThrows(h)
  <2>1. /\ UNCHANGED <<board, card, owed>> /\ handlers' = handlers \ {h}
        /\ disturbed' = disturbed \cup {h.task}
    BY <1>6 DEF HandlerThrows
  <2> QED
    BY <1>4, <2>1
<1> QED
  BY <1>1, <1>3, <1>5, <1>6

LEMMA OnTheWayStep == RTypeOK /\ CardsOnTheWay /\ [RNext]_vars => CardsOnTheWay'
<1> SUFFICES ASSUME RTypeOK, CardsOnTheWay, [RNext]_vars PROVE CardsOnTheWay'
  OBVIOUS
<1> USE DEF pastVars, boardVars
<1>1. ASSUME NEW S \in SUBSET Task, Create(S), UNCHANGED <<card, board, disturbed>>
      PROVE  CardsOnTheWay'
  BY <1>1, SubmittedOnTheWay
<1>2. CASE Handle
  BY <1>2, HandledOnTheWay
<1>3. CASE Crash \/ ReplyTimeout
  BY <1>3, VanishedAreDisturbed DEF Crash, ReplyTimeout
<1>4. CASE Work \/ ReviewDone
  BY <1>4, OnTheWayStays
  DEF Work, Recall, Research, Conclude, Think, NotWritten, SendReview, Notify,
      Reply, SendThrows, Remember, ReviewDone, Advance, Drained
<1>5. ASSUME NEW t \in Task,
             SubmitCli(t) \/ Recover(t) \/ Claim(t) \/ ClaimUnread(t)
      PROVE  CardsOnTheWay'
  BY <1>1, <1>5, OnTheWayStays, AnnounceMakesNone
  DEF SubmitCli, Recover, Claim, ClaimUnread
<1>6. CASE Poll
  BY <1>1, <1>5, <1>6, OnTheWayStays DEF Poll, PollBegin, PollEnds
<1>7. CASE Settle
  BY <1>7, OnTheWayStays, AnnounceMakesNone
  DEF Settle, CompleteThrows, SettleThrows, FailUnread, FailAgain, FailAgainThrows,
      FinishFailed
<1>8. CASE Boot \/ UNCHANGED vars
  BY <1>8, OnTheWayStays DEF Boot, vars
<1> QED
  BY <1>2, <1>3, <1>4, <1>5, <1>6, <1>7, <1>8 DEF RNext, Outside

-----------------------------------------------------------------------------
\* The variables of the review loop have their types, for every number of
\* tasks, retries, crashes and faults.
THEOREM ReviewTypes == RSpec => []RTypeOK
<1>1. RInv => RTypeOK
  BY DEF RInv
<1> QED
  BY <1>1, ReviewStart, ReviewStep, PTL DEF RSpec

\* A run costs its task one retry at most, however it ends: rejected and
\* requeued by the project manager, failed by the orchestrator, its result not
\* written, or lost and recovered.  Only where fail() threw after its UPDATE
\* and the catch failed the task again does it cost two, and never three.
THEOREM RunsCostOneRetry == RSpec => []OneRetryPerRun
<1>1. RInv => OneRetryPerRun
  BY DEF RInv, RowInv
<1> QED
  BY <1>1, ReviewStart, ReviewStep, PTL DEF RSpec

\* Once the handlers have run, the card of every task whose handlers and runs
\* were not cut short tells what became of it, for any number of tasks; a task
\* claimed by the poll that created it is shown in Todo while it runs.
THEOREM BoardIsTrue == RSpec => []BoardFollowsQueue
<1>1. RInv /\ BoardInv => BoardFollowsQueue
  <2> SUFFICES ASSUME RInv, BoardInv, Drained,
                      NEW t \in Task \ disturbed, card[t] # "none"
               PROVE  card[t] \in
                        CASE job = t /\ verdict = "none"  -> {Started(t)}
                          [] job = t /\ verdict # "none" ->
                               {Started(t), "Completed", "Changes Requested"}
                          [] job # t /\ st[t] = "pending" ->
                               {"Todo", "In Progress", "Failed (Will Retry)"}
                          [] st[t] = "completed" -> {"Review"}
                          [] st[t] = "failed"    -> {"Failed (Permanent)"}
    BY DEF BoardFollowsQueue, Started
  <2>1. Agrees(t, card[t])
    BY DEF BoardInv, CardsComeRight, Drained
  <2>2. job # t => st[t] \in {"pending", "completed", "failed"}
    BY DEF RInv, RTypeOK, Status, BoardInv, TasksAreKnown
  <2>3. job = t => st[t] \in {"pending", "in-progress"}
    BY ReviewConstantsAssumption DEF RInv, RunInv, RunIsOpen, Drained, InTick
  <2> QED
    BY <2>1, <2>2, <2>3 DEF Agrees
<1>2. RInit => RInv /\ BoardInv
  BY ReviewStart, BoardStart
<1>3. RInv /\ BoardInv /\ [RNext]_vars => (RInv /\ BoardInv)'
  BY ReviewStep, BoardStep
<1> QED
  BY <1>1, <1>2, <1>3, PTL DEF RSpec

\* Without a statement that throws, no run completes a task whose review
\* asked for changes.
THEOREM RejectionsAreHeeded == RSpec => RejectionHeeded
<1>1. RInv /\ [RNext]_vars =>
        [(verdict = "request-changes" /\ faults = 0 /\ pc' = "idle")
           => st'[job] # "completed"]_vars
  BY RejectionStep
<1> QED
  BY <1>1, ReviewStart, ReviewStep, PTL DEF RSpec, RejectionHeeded

\* A task created in the daemon gets its card, whatever crashes and faults hit
\* other tasks, unless it came with others in the batch that found no board:
\* for any number of tasks in a batch.
THEOREM CardsOnlyLost == RSpec => []CardsOnlyLostAtFirst
<1>1. RInit => CardsOnTheWay
  BY DEF RInit, CardsOnTheWay
<1>2. CardsOnTheWay => CardsOnlyLostAtFirst
  BY DEF CardsOnTheWay, CardsOnlyLostAtFirst, Drained
<1> QED
  BY <1>1, <1>2, ReviewTypes, OnTheWayStep, PTL DEF RSpec

-----------------------------------------------------------------------------
(* The life of a task.                                                     *)

\* A task whose row and whose run do not change keeps its place in life.
SameLife(t) ==
  /\ st'[t] = st[t] /\ retries'[t] = retries[t] /\ (job' = t <=> job = t)
  /\ job = t => (pc' = "settle" <=> pc = "settle")

\* What the mapping shows of a task nobody runs.
Idle(s) == IF s = "new" THEN "absent" ELSE IF s = "pending" THEN "waiting"
           ELSE IF s = "in-progress" THEN "orphaned" ELSE s

Life4(state, lost, limit) ==
  [state |-> state, lost |-> lost, limit |-> limit, needs |-> NoTask]

\* What the mapping shows of a task.
LEMMA LifeShows ==
  ASSUME NEW t \in Task
  PROVE  /\ LifeOf[t] = Life4(LifeState(t), retries[t], LimitOf(t))
         /\ job = t /\ pc # "settle" => LifeState(t) = "running"
         /\ job = t /\ pc = "settle" => LifeState(t) = "charged"
         /\ job # t => LifeState(t) = Idle(st[t])
         /\ st[t] # "new" => LimitOf(t) = RetryLimit
         /\ st[t] = "new" => LimitOf(t) = 0
<1>1. LifeOf[t] = Life4(LifeState(t), retries[t], LimitOf(t))
  BY DEF LifeOf, Life4
<1> QED
  BY <1>1 DEF LifeState, LimitOf, Idle

LEMMA LifeThenShows ==
  ASSUME NEW t \in Task
  PROVE  /\ LifeOf'[t] = Life4(LifeState(t)', retries'[t], LimitOf(t)')
         /\ job' = t /\ pc' # "settle" => LifeState(t)' = "running"
         /\ job' = t /\ pc' = "settle" => LifeState(t)' = "charged"
         /\ job' # t => LifeState(t)' = Idle(st'[t])
         /\ st'[t] # "new" => LimitOf(t)' = RetryLimit
<1>1. LifeOf'[t] = Life4(LifeState(t)', retries'[t], LimitOf(t)')
  BY DEF LifeOf, Life4
<1> QED
  BY <1>1 DEF LifeState, LimitOf, Idle

LEMMA SameLifeStays ==
  ASSUME NEW t \in Task, SameLife(t)
  PROVE  LifeOf'[t] = LifeOf[t]
  BY DEF LifeOf, LifeState, LimitOf, SameLife

LEMMA LifeIsFunction ==
  /\ LifeOf = [t \in Task |-> LifeOf[t]]
  /\ LifeOf' = [t \in Task |-> LifeOf'[t]]
  BY DEF LifeOf

LEMMA LifeStays ==
  ASSUME \A t \in Task : SameLife(t)
  PROVE  UNCHANGED LifeOf
<1>1. \A t \in Task : LifeOf'[t] = LifeOf[t]
  BY SameLifeStays
<1> QED
  BY <1>1, LifeIsFunction

\* If one task's life changes, the mapped state is updated at that task.
LEMMA LifeMoves ==
  ASSUME NEW t \in Task, NEW x, LifeOf'[t] = x, \A u \in Task \ {t} : SameLife(u)
  PROVE  LifeOf' = [LifeOf EXCEPT ![t] = x]
<1>1. \A u \in Task \ {t} : LifeOf'[u] = LifeOf[u]
  BY SameLifeStays
<1> QED
  BY <1>1, LifeIsFunction

LEMMA LifeBegins == RInit => Life!Init
<1> SUFFICES ASSUME RInit PROVE Life!Init
  OBVIOUS
<1>1. ASSUME NEW t \in Task PROVE LifeOf[t] = Life!Unknown
  <2>1. job # t /\ st[t] = "new" /\ retries[t] = 0
    BY ReviewConstantsAssumption DEF RInit
  <2> QED
    BY <2>1, LifeShows DEF Idle, Life4, Life!Unknown
<1> QED
  BY <1>1, LifeIsFunction DEF Life!Init

\* Nothing was charged to a task that does not exist.
NewIsUncharged == \A t \in Task : st[t] = "new" => retries[t] = 0

\* Submitted tasks wait: the batch of a pass over the schedules, or one.
LEMMA SubmitsToWait ==
  ASSUME RInv, NewIsUncharged, NEW S \in SUBSET Task, \A t \in S : st[t] = "new",
         UNCHANGED <<retries, job>>, pc' = pc \/ pc = "idle",
         st' = [t \in Task |-> IF t \in S THEN "pending" ELSE st[t]]
  PROVE  Life!SubmitAll(S, RetryLimit)
<1>0. pc = "idle" => job = NoTask
  BY DEF RInv, RunInv, RunHasTask
<1>1. \A t \in S : job # t
  BY ReviewConstantsAssumption DEF RInv, RunInv, RunIsOpen
<1>2. ASSUME NEW t \in S
      PROVE  LifeOf[t].state = "absent" /\ LifeOf'[t] = Life4("waiting", 0, RetryLimit)
  <2>1. /\ job # t /\ st[t] = "new" /\ retries[t] = 0 /\ t \in Task
        /\ job' # t /\ st'[t] = "pending" /\ retries'[t] = 0
    BY <1>1 DEF NewIsUncharged
  <2>2. LifeOf[t] = Life4("absent", 0, 0)
    BY <2>1, LifeShows DEF Idle
  <2>3. LifeOf'[t] = Life4("waiting", 0, RetryLimit)
    BY <2>1, LifeThenShows DEF Idle
  <2> QED
    BY <2>2, <2>3 DEF Life4
<1>3. ASSUME NEW t \in Task \ S PROVE LifeOf'[t] = LifeOf[t]
  BY <1>0, SameLifeStays, ReviewConstantsAssumption DEF SameLife
<1>4. LifeOf' = [t \in Task |-> IF t \in S THEN Life4("waiting", 0, RetryLimit) ELSE LifeOf[t]]
  BY <1>2, <1>3, LifeIsFunction
<1> QED
  BY <1>2, <1>4 DEF Life!SubmitAll, Life!In, Life4

\* A run or an orphan whose row is failed is lost, and charged; a second time if
\* the first was not heard of.
LEMMA FailIsLoss ==
  ASSUME RInv, NEW t \in Task, LifeState(t) \in {"running", "orphaned", "charged"},
         st[t] # "new", Fail(t), job \in {t, NoTask}, job' = NoTask
  PROVE  Life!Lose(t)
<1> DEFINE then == IF retries[t] < RetryLimit THEN "waiting" ELSE "failed"
<1>0. RTypeOK /\ retries[t] \in Nat /\ RetryLimit \in Nat /\ NoTask \notin Task
  BY CountersTyped, ReviewConstantsAssumption DEF RInv
<1>1. \A u \in Task \ {t} : SameLife(u)
  BY <1>0 DEF SameLife, RTypeOK, Fail
<1>2. /\ retries'[t] = retries[t] + 1 /\ job' # t
      /\ st'[t] = IF retries[t] < RetryLimit THEN "pending" ELSE "failed"
  BY <1>0 DEF RTypeOK, Fail
<1>3. LifeOf'[t] = Life4(then, retries[t] + 1, RetryLimit)
  BY <1>2, LifeThenShows DEF Idle
<1>4. LifeOf[t] = Life4(LifeState(t), retries[t], RetryLimit)
  BY LifeShows
<1>5. /\ (IF LifeOf[t].lost < LifeOf[t].limit THEN "waiting" ELSE "failed") = then
      /\ LifeOf[t].state \in {"running", "orphaned", "charged"}
  BY <1>0, <1>4 DEF Life4
<1> HIDE DEF then
<1>6. LifeOf'[t] = [LifeOf[t] EXCEPT !.lost = @ + 1, !.state = then]
  <2> DEFINE q == [LifeOf[t] EXCEPT !.lost = LifeOf[t].lost + 1]
  <2>1. q = Life4(LifeState(t), retries[t] + 1, RetryLimit)
    BY <1>0, <1>4 DEF Life4
  <2> HIDE DEF q
  <2>2. [q EXCEPT !.state = then] = LifeOf'[t]
    BY <1>3, <2>1 DEF Life4
  <2> QED
    BY <2>2 DEF q
<1>7. LifeOf' = [LifeOf EXCEPT ![t] = [LifeOf[t] EXCEPT !.lost = @ + 1, !.state = then]]
  BY <1>1, <1>6, LifeMoves
<1>8. LifeOf' = [LifeOf EXCEPT ![t].lost = @ + 1, ![t].state = then]
  BY <1>7, LifeIsFunction
<1> QED
  BY <1>5, <1>8 DEF Life!Lose, Life!In

\* The run's fail() is not heard of: it is charged, and not over.
LEMMA UnreadIsCharge ==
  ASSUME RInv, job # NoTask, pc # "settle", Fail(job), job' = job, pc' = "settle"
  PROVE  Life!Charge(job)
<1>0. /\ RTypeOK /\ job \in Task /\ NoTask \notin Task /\ st[job] # "new"
      /\ retries[job] \in Nat
  BY CountersTyped, ReviewConstantsAssumption DEF RInv, RTypeOK, RunInv, RunIsOpen
<1>1. \A u \in Task \ {job} : SameLife(u)
  BY <1>0 DEF SameLife, RTypeOK, Fail
<1>2. retries'[job] = retries[job] + 1 /\ st'[job] # "new"
  BY <1>0 DEF RTypeOK, Fail
<1>3. LifeOf[job] = Life4("running", retries[job], RetryLimit)
  BY <1>0, LifeShows
<1>4. LifeOf'[job] = Life4("charged", retries[job] + 1, RetryLimit)
  BY <1>0, <1>2, LifeThenShows
<1>5. LifeOf'[job] = [LifeOf[job] EXCEPT !.lost = @ + 1, !.state = "charged"]
  <2> DEFINE q == [LifeOf[job] EXCEPT !.lost = LifeOf[job].lost + 1]
  <2>1. q = Life4("running", retries[job] + 1, RetryLimit)
    BY <1>0, <1>3 DEF Life4
  <2> HIDE DEF q
  <2>2. [q EXCEPT !.state = "charged"] = LifeOf'[job]
    BY <1>4, <2>1 DEF Life4
  <2> QED
    BY <2>2 DEF q
<1>6. LifeOf' = [LifeOf EXCEPT ![job] =
                   [LifeOf[job] EXCEPT !.lost = @ + 1, !.state = "charged"]]
  BY <1>0, <1>1, <1>5, LifeMoves
<1>7. LifeOf' = [LifeOf EXCEPT ![job].lost = @ + 1, ![job].state = "charged"]
  BY <1>6, LifeIsFunction
<1> QED
  BY <1>3, <1>7 DEF Life!Charge, Life!In, Life4

\* A run that ends without a charge is over where its row says.
LEMMA RunMoves ==
  ASSUME RInv, job # NoTask, job' = NoTask, UNCHANGED retries, NEW s \in Status \ {"new"},
         st' = [st EXCEPT ![job] = s]
  PROVE  /\ LifeOf[job] = Life4(LifeState(job), retries[job], RetryLimit)
         /\ Life!In(job, LifeState(job))
         /\ LifeOf' = [LifeOf EXCEPT ![job].state = Idle(s)]
<1>0. /\ RTypeOK /\ job \in Task /\ NoTask \notin Task /\ st[job] # "new"
      /\ retries[job] \in Nat
  BY CountersTyped, ReviewConstantsAssumption DEF RInv, RTypeOK, RunInv, RunIsOpen
<1>1. \A u \in Task \ {job} : SameLife(u)
  BY <1>0 DEF SameLife, RTypeOK
<1>2. LifeOf[job] = Life4(LifeState(job), retries[job], RetryLimit)
  BY <1>0, LifeShows
<1>3. st'[job] = s /\ job' # job
  BY <1>0 DEF RTypeOK
<1>4. LifeOf'[job] = Life4(Idle(s), retries[job], RetryLimit)
  BY <1>0, <1>3, LifeThenShows
<1>5. LifeOf'[job] = [LifeOf[job] EXCEPT !.state = Idle(s)]
  BY <1>2, <1>4 DEF Life4
<1>6. LifeOf' = [LifeOf EXCEPT ![job] = [LifeOf[job] EXCEPT !.state = Idle(s)]]
  BY <1>0, <1>1, <1>5, LifeMoves
<1>7. LifeOf' = [LifeOf EXCEPT ![job].state = Idle(s)]
  BY <1>6, LifeIsFunction
<1> QED
  BY <1>2, <1>7 DEF Life!In, Life4

\* The ends of a run whose charge, if there was one, was heard of.
LEMMA FinishIsLife ==
  ASSUME RInv, job # NoTask,
         FinishFailed \/ (pc # "settle" /\ (FinishCompleted \/ FinishPaused))
  PROVE  Life!Next
<1>0. job \in Task /\ st[job] # "new" /\ LifeState(job) \in {"running", "charged"}
      /\ (pc # "settle" => LifeState(job) = "running")
  BY LifeShows DEF RInv, RTypeOK, RunInv, RunIsOpen
<1>1. CASE pc # "settle" /\ FinishCompleted
  <2>1. Life!Finish(job)
    BY <1>0, <1>1, RunMoves
    DEF FinishCompleted, LeaveRun, Status, Life!Finish, Life!Move, Idle
  <2> QED
    BY <1>0, <2>1 DEF Life!Next
<1>2. CASE FinishFailed
  <2>1. Life!Lose(job)
    BY <1>0, <1>2, FailIsLoss DEF FinishFailed, LeaveRun
  <2> QED
    BY <1>0, <2>1 DEF Life!Next
<1>3. CASE pc # "settle" /\ FinishPaused
  <2>1. Life!Suspend(job)
    BY <1>0, <1>3, RunMoves
    DEF FinishPaused, LeaveRun, Status, Life!Suspend, Life!Move, Idle
  <2> QED
    BY <1>0, <2>1 DEF Life!Next
<1> QED
  BY <1>1, <1>2, <1>3

\* A run cut short leaves its task an orphan, or waiting if the project manager
\* had put it back, or where an unheard fail() has put it.
LEMMA CutShortIsLife ==
  ASSUME RInv, job # NoTask, job' = NoTask, UNCHANGED <<st, retries>>
  PROVE  Life!Next
<1>0. /\ job \in Task /\ st[job] \in Status \ {"new"} /\ st' = [st EXCEPT ![job] = st[job]]
      /\ RunIsOpen
  BY DEF RInv, RTypeOK, RunInv, RunIsOpen
<1>1. /\ LifeOf[job] = Life4(LifeState(job), retries[job], RetryLimit)
      /\ Life!In(job, LifeState(job))
      /\ LifeOf' = [LifeOf EXCEPT ![job].state = Idle(st[job])]
  BY <1>0, RunMoves
<1>2. CASE pc = "settle"
  <2>1. LifeState(job) = "charged"
    BY <1>0, <1>2, LifeShows
  <2>2. LifeOf[job].lost = retries[job] /\ LifeOf[job].limit = RetryLimit
    BY <1>1 DEF Life4
  <2>3. Idle(st[job]) = IF retries[job] <= RetryLimit THEN "waiting" ELSE "failed"
    BY <1>0, <1>2 DEF RunIsOpen, Idle
  <2>4. Life!Settle(job)
    BY <1>1, <2>1, <2>2, <2>3 DEF Life!Settle, Life!Move
  <2> QED
    BY <1>0, <2>4 DEF Life!Next
<1>3. CASE pc # "settle"
  <2>1. LifeState(job) = "running" /\ st[job] \in {"in-progress", "pending"}
    BY <1>0, <1>3, LifeShows DEF RunIsOpen
  <2>2. Life!Suspend(job) \/ Life!Orphan(job)
    BY <1>1, <2>1 DEF Life!Suspend, Life!Orphan, Life!Move, Idle
  <2> QED
    BY <1>0, <2>2 DEF Life!Next
<1> QED
  BY <1>2, <1>3

\* Steps that write to no row and neither begin nor end a run.
LEMMA NothingIsLife ==
  ASSUME UNCHANGED <<st, retries, job>>,
         \/ job = NoTask \/ pc' = pc \/ (pc # "settle" /\ pc' # "settle")
  PROVE  UNCHANGED LifeOf
<1>1. \A t \in Task : SameLife(t)
  BY ReviewConstantsAssumption DEF SameLife
<1> QED
  BY <1>1, LifeStays

LEMMA VanishIsLife == ASSUME RInv, Vanish PROVE Life!Next \/ UNCHANGED LifeOf
<1>1. UNCHANGED <<st, retries>> /\ job' = NoTask
  BY DEF Vanish, taskVars
<1> QED
  BY <1>1, CutShortIsLife, NothingIsLife

\* A handler writes to no row but that of the run it answers.
LEMMA HandleIsLife == ASSUME RInv, Handle PROVE UNCHANGED LifeOf
<1>1. PICK h \in handlers :
        CreateBoard(h) \/ CreateCard(h) \/ MoveCard(h) \/ HandlerThrows(h)
  BY DEF Handle
<1>2. UNCHANGED <<retries, job, pc>> /\ pc # "settle"
  BY <1>1 DEF CreateBoard, CreateCard, MoveCard, HandlerThrows, taskVars, runVars,
     Handle, InTick
<1>3. CASE UNCHANGED st
  BY <1>2, <1>3, NothingIsLife
<1>4. CASE MoveCard(h) /\ h.to = "Changes Requested"
  <2>1. job = h.task /\ h.task \in Task /\ st' = [st EXCEPT ![job] = "pending"]
    BY <1>4 DEF MoveCard, RInv, HandlerInv, RequeuesOwnTask, RTypeOK, Handler
  <2>2. \A u \in Task \ {job} : SameLife(u)
    BY <1>2, <2>1 DEF SameLife, RInv, RTypeOK
  <2>3. st[job] # "new" /\ st'[job] # "new" /\ job' = job
    BY <1>2, <2>1, ReviewConstantsAssumption DEF RInv, RTypeOK, RunInv, RunIsOpen
  <2>4. LifeOf[job] = Life4("running", retries[job], RetryLimit)
    BY <1>2, <2>1, <2>3, LifeShows
  <2>5. LifeOf'[job] = Life4("running", retries[job], RetryLimit)
    BY <1>2, <2>1, <2>3, LifeThenShows
  <2>6. \A u \in Task : LifeOf'[u] = LifeOf[u]
    BY <2>1, <2>2, <2>4, <2>5, SameLifeStays
  <2> QED
    BY <2>6, LifeIsFunction
<1>5. UNCHANGED st \/ (MoveCard(h) /\ h.to = "Changes Requested")
  BY <1>1 DEF CreateBoard, CreateCard, MoveCard, HandlerThrows, taskVars
<1> QED
  BY <1>3, <1>4, <1>5

\* A step of the run either touches no row or ends the run.
LEMMA WorkIsLife == ASSUME RInv, Work PROVE Life!Next \/ UNCHANGED LifeOf
<1>0. RunHasTask
  BY DEF RInv, RunInv
<1>1. pc # "settle"
  BY DEF Work, Recall, Research, Conclude, Think, NotWritten, SendReview, Notify,
     Reply, SendThrows, Remember, Advance
<1>2. \/ UNCHANGED <<st, retries, job>> /\ pc' # "settle"
      \/ job # NoTask /\ (FinishCompleted \/ FinishFailed \/ FinishPaused)
  BY <1>0 DEF Work, Recall, Research, Conclude, Think, NotWritten, SendReview, Notify,
     Reply, SendThrows, Remember, Advance, RunHasTask, taskVars
<1> QED
  BY <1>1, <1>2, FinishIsLife, NothingIsLife

\* A claim that nobody can read strands its task.
LEMMA TakeIsLife ==
  ASSUME RInv, NEW t \in Task, Take(t), UNCHANGED retries,
         \/ job' = t /\ pc' # "settle"
         \/ job' = job
  PROVE  Life!Next
<1> DEFINE to == IF job' = t THEN "running" ELSE "orphaned"
<1>0. RTypeOK /\ job = NoTask /\ \A u \in Task : job # u
  BY ReviewConstantsAssumption DEF RInv, RunInv, RunHasTask, Take
<1>1. st[t] = "pending" /\ st'[t] = "in-progress"
  BY <1>0 DEF Take, RTypeOK
<1>2. \A u \in Task \ {t} : SameLife(u)
  BY <1>0, <1>1 DEF SameLife, Take, RTypeOK
<1>3. LifeOf[t] = Life4("waiting", retries[t], RetryLimit)
  BY <1>0, <1>1, LifeShows DEF Idle
<1>4. LifeOf'[t] = Life4(to, retries[t], RetryLimit)
  BY <1>0, <1>1, LifeThenShows DEF Idle
<1> HIDE DEF to
<1>5. LifeOf'[t] = [LifeOf[t] EXCEPT !.state = to]
  BY <1>3, <1>4 DEF Life4
<1>6. LifeOf' = [LifeOf EXCEPT ![t] = [LifeOf[t] EXCEPT !.state = to]]
  BY <1>2, <1>5, LifeMoves
<1>7. LifeOf' = [LifeOf EXCEPT ![t].state = to]
  BY <1>6, LifeIsFunction
<1>8. LifeOf[t].state = "waiting" /\ LifeOf[t].needs = NoTask
  BY <1>3 DEF Life4
<1>9. Life!Ready(t)
  BY <1>8 DEF Life!Ready, Life!In
<1>10. Life!Start(t) \/ Life!Strand(t)
  BY <1>7, <1>9 DEF Life!Start, Life!Strand, Life!Move, to
<1> QED
  BY <1>10 DEF Life!Next

LEMMA PollIsLife ==
  ASSUME RInv, NewIsUncharged, Poll
  PROVE  Life!Next \/ UNCHANGED LifeOf
<1>1. ASSUME NEW S \in SUBSET Task, PollBegin(S) PROVE Life!Next
  <2>1. Life!SubmitAll(S, RetryLimit)
    BY <1>1, SubmitsToWait DEF PollBegin, Create
  <2> QED
    BY <2>1 DEF Life!Next
<1>2. ASSUME NEW t \in Task, Recover(t) PROVE Life!Next
  <2>1. job = NoTask /\ job # t /\ job' = NoTask /\ st[t] = "in-progress" /\ Fail(t)
    BY <1>2, ReviewConstantsAssumption DEF Recover, RInv, RunInv, RunHasTask, runVars
  <2>2. LifeState(t) = "orphaned"
    BY <2>1, LifeShows DEF Idle
  <2>3. Life!Lose(t)
    BY <2>1, <2>2, FailIsLoss
  <2> QED
    BY <2>3 DEF Life!Next
<1>3. ASSUME NEW t \in Task, Claim(t) \/ ClaimUnread(t) PROVE Life!Next
  BY <1>3, TakeIsLife DEF Claim, ClaimUnread
<1>4. CASE PollEnds
  BY <1>4, NothingIsLife DEF PollEnds, taskVars
<1> QED
  BY <1>1, <1>2, <1>3, <1>4 DEF Poll

LEMMA SettleIsLife == ASSUME RInv, Settle PROVE Life!Next
<1>1. Over \/ pc = "settle" => job # NoTask /\ job \in Task
  BY DEF Over, FailedResult, RInv, RunInv, RunHasTask, RTypeOK
<1>2. job # NoTask => st[job] # "new"
  BY DEF RInv, RunInv, RunIsOpen
<1>3. ASSUME job # NoTask, job \in Task, Fail(job), job' = NoTask PROVE Life!Next
  <2>1. LifeState(job) \in {"running", "charged"}
    BY <1>3, LifeShows
  <2>2. Life!Lose(job)
    BY <1>2, <1>3, <2>1, FailIsLoss
  <2> QED
    BY <1>3, <2>2 DEF Life!Next
<1>4. CASE CompleteThrows \/ FailAgain
  BY <1>1, <1>3, <1>4 DEF CompleteThrows, FailAgain, FinishFailed, LeaveRun, Over
<1>5. CASE SettleThrows \/ FailAgainThrows
  BY <1>1, <1>3, <1>5, CutShortIsLife DEF SettleThrows, FailAgainThrows, LeaveRun
<1>6. CASE FailUnread
  <2>1. Life!Charge(job) /\ job \in Task
    BY <1>1, <1>6, UnreadIsCharge DEF FailUnread, Drained, InTick, Over
  <2> QED
    BY <2>1 DEF Life!Next
<1> QED
  BY <1>4, <1>5, <1>6 DEF Settle

\* Every step of the daemon, the operator and the handlers is a step in the
\* life of tasks, or none.
LEMMA LifeGoesOn == RInv /\ NewIsUncharged /\ [RNext]_vars => [Life!Next]_LifeOf
<1> SUFFICES ASSUME RInv, NewIsUncharged, [RNext]_vars PROVE Life!Next \/ UNCHANGED LifeOf
  OBVIOUS
<1>1. ASSUME NEW S \in SUBSET Task, Life!SubmitAll(S, RetryLimit) PROVE Life!Next
  BY <1>1 DEF Life!Next
<1>3. ASSUME NEW t \in Task, SubmitCli(t) PROVE Life!Next
  <2>1. {t} \in SUBSET Task /\ \A u \in {t} : st[u] = "new"
    BY <1>3 DEF SubmitCli
  <2>2. st' = [u \in Task |-> IF u \in {t} THEN "pending" ELSE st[u]]
    BY <1>3 DEF SubmitCli, RInv, RTypeOK
  <2>3. UNCHANGED <<retries, job, pc>>
    BY <1>3 DEF SubmitCli, runVars
  <2> QED
    BY <1>1, <2>1, <2>2, <2>3, SubmitsToWait
<1>4. CASE Crash \/ ReplyTimeout
  BY <1>4, VanishIsLife DEF Crash, ReplyTimeout
<1>5. CASE Boot \/ ReviewDone \/ UNCHANGED vars
  BY <1>5, NothingIsLife DEF Boot, ReviewDone, Advance, vars, taskVars, runVars
<1> QED
  BY <1>3, <1>4, <1>5, PollIsLife, HandleIsLife, WorkIsLife, SettleIsLife
  DEF RNext, Outside

LEMMA UnchargedStep == RInv /\ NewIsUncharged /\ [RNext]_vars => NewIsUncharged'
<1> SUFFICES ASSUME RInv, NewIsUncharged, [RNext]_vars, NEW t \in Task, st'[t] = "new"
             PROVE  retries'[t] = 0
  BY DEF NewIsUncharged
<1> USE DEF NewIsUncharged
<1>0. /\ RTypeOK /\ RunHasTask
      /\ job # NoTask => job \in Task /\ st[job] # "new"
  BY DEF RInv, RTypeOK, RunInv, RunIsOpen
<1>1. CASE UNCHANGED <<st, retries>>
  BY <1>1
<1>2. ASSUME NEW S \in SUBSET Task, Create(S), UNCHANGED retries PROVE retries'[t] = 0
  BY <1>0, <1>2 DEF Create
<1>3. ASSUME NEW u \in Task, st[u] # "new",
             Fail(u) \/ (UNCHANGED retries /\ \E s \in Status \ {"new"} : st' = [st EXCEPT ![u] = s])
      PROVE  retries'[t] = 0
  BY <1>0, <1>3 DEF Fail, RTypeOK
<1>4. CASE Outside
  BY <1>0, <1>2, <1>4
  DEF Outside, SubmitCli, Crash, Vanish, taskVars, RTypeOK
<1>5. CASE Handle
  BY <1>0, <1>5 DEF Handle, CreateBoard, CreateCard, MoveCard, HandlerThrows, taskVars, RTypeOK
<1>6. CASE job # NoTask /\ (FinishCompleted \/ FinishFailed \/ FinishPaused)
  BY <1>0, <1>3, <1>6 DEF FinishCompleted, FinishFailed, FinishPaused, Status
<1>7. CASE Work
  <2>1. \/ UNCHANGED <<st, retries>>
        \/ job # NoTask /\ (FinishCompleted \/ FinishFailed \/ FinishPaused)
    BY <1>0, <1>7 DEF Work, Recall, Research, Conclude, Think, NotWritten, SendReview, Notify,
       Reply, SendThrows, Remember, Advance, RunHasTask, taskVars
  <2> QED
    BY <1>1, <1>6, <2>1
<1>8. CASE Poll
  BY <1>0, <1>1, <1>2, <1>3, <1>8
  DEF Poll, PollBegin, Recover, Claim, ClaimUnread, Take, PollEnds, taskVars, Status
<1>9. CASE Settle
  <2>1. Over \/ pc = "settle" => job # NoTask
    BY <1>0 DEF Over, FailedResult, RunHasTask
  <2>2. job # NoTask /\ (Fail(job) \/ UNCHANGED <<st, retries>>)
    BY <1>9, <2>1
    DEF Settle, CompleteThrows, SettleThrows, FailUnread, FailAgain, FailAgainThrows,
        FinishFailed, Over
  <2> QED
    BY <1>0, <1>1, <1>3, <2>2
<1> QED
  BY <1>1, <1>4, <1>5, <1>7, <1>8, <1>9
  DEF RNext, ReviewDone, Advance, ReplyTimeout, Vanish, Boot, vars, taskVars

\* Whatever the reviewer, the project manager and the handlers do, for any
\* number of tasks, retries, crashes and faults: the rows keep the promise of
\* TaskLifecycle, so ended tasks stay ended and a lost run is charged once, or
\* twice where the first fail() threw after its UPDATE.
THEOREM ReviewImplementsLifecycle == RSpec => ReviewsKeepLifecycle
<1>1. RInit => NewIsUncharged
  BY DEF RInit, NewIsUncharged
<1> QED
  BY <1>1, ReviewStart, ReviewStep, UnchargedStep, LifeBegins, LifeGoesOn, PTL
  DEF RSpec, ReviewsKeepLifecycle, Life!Spec
=============================================================================
