----------------------------- MODULE ServicesProofs ----------------------------
(***************************************************************************)
(* The services beside the task loop: the guarded calls of the connectors, *)
(* recurring tasks, the turns of the voice server and the voice loop, each *)
(* on its own; and the services together, with the memory, the index, the  *)
(* workspaces and the browsers that StoresProofs and IndexProofs treat.    *)
(***************************************************************************)
EXTENDS MCServices, StoresProofs, IndexProofs, FiniteSetTheorems, TLAPS

-----------------------------------------------------------------------------
(* The audit log against the deeds, and the ration of searches.            *)

\* The elements of a sequence are finitely many, and no more than its length.
LEMMA ElementsBounded ==
  ASSUME NEW S, NEW s \in Seq(S)
  PROVE  IsFiniteSet(ToSet(s)) /\ Cardinality(ToSet(s)) <= Len(s)
<1>1. s \in Surjection(1..Len(s), ToSet(s))
  BY DEF Surjection, ToSet
<1>2. Len(s) \in Nat /\ 1 \in Int /\ Len(s) \in Int
  OBVIOUS
<1>3. /\ IsFiniteSet(1..Len(s))
      /\ Cardinality(1..Len(s)) = IF 1 > Len(s) THEN 0 ELSE Len(s) - 1 + 1
  BY <1>2, FS_Interval
<1>4. Cardinality(1..Len(s)) = Len(s)
  BY <1>2, <1>3
<1> QED
  BY <1>1, <1>3, <1>4, FS_Surjection

\* A new element at the end.
LEMMA AppendNew ==
  ASSUME NEW S, NEW s \in Seq(S), NEW x \in S, IsInjective(s), x \notin ToSet(s)
  PROVE  /\ Append(s, x) \in Seq(S)
         /\ IsInjective(Append(s, x))
         /\ ToSet(Append(s, x)) = ToSet(s) \cup {x}
<1>1. /\ Append(s, x) \in Seq(S)
      /\ DOMAIN Append(s, x) = 1..(Len(s) + 1)
      /\ \A i \in 1..Len(s) : Append(s, x)[i] = s[i]
      /\ Append(s, x)[Len(s) + 1] = x
  OBVIOUS
<1>2. DOMAIN s = 1..Len(s) /\ Len(s) \in Nat
  OBVIOUS
<1> QED
  BY <1>1, <1>2 DEF IsInjective, ToSet

\* The first element goes.
LEMMA TailOfInjective ==
  ASSUME NEW S, NEW s \in Seq(S), s # <<>>, IsInjective(s)
  PROVE  /\ Tail(s) \in Seq(S)
         /\ IsInjective(Tail(s))
         /\ ToSet(Tail(s)) \subseteq ToSet(s)
<1>1. /\ Tail(s) \in Seq(S)
      /\ DOMAIN Tail(s) = 1..(Len(s) - 1)
      /\ \A i \in 1..(Len(s) - 1) : Tail(s)[i] = s[i + 1]
  OBVIOUS
<1>2. DOMAIN s = 1..Len(s) /\ Len(s) \in Nat
  OBVIOUS
<1> QED
  BY <1>1, <1>2 DEF IsInjective, ToSet

-----------------------------------------------------------------------------
\* How far a call is says what its rows and its deed are.
StageTells ==
  \A c \in Call :
    /\ stage[c] \in {"new", "requested", "prompted", "decided", "counted"} =>
         effect[c] = "none"
    /\ stage[c] = "staged" => effect[c] = "part"
    /\ stage[c] = "acted" => effect[c] = "done"
    /\ stage[c] \in {"counted", "staged", "acted"} => verdict[c] = "granted"
    /\ stage[c] # "ended" => outcome[c] = "none"

\* What counts as a search is one, and only a search waits to be counted.
SearchesAreCounted ==
  \A c \in Call :
    /\ c \in ToSet(recent) => method[c] = "search" /\ stage[c] # "new"
    /\ stage[c] = "staged" => method[c] # "search"

CInv ==
  /\ GTypeOK
  /\ StageTells
  /\ SearchesAreCounted
  /\ AuditExplainsDisk

\* The searches that got past the ration.
Passed == {c \in ToSet(recent) \ marred : PastRation(c)}

LEMMA CallsStart == GInit => CInv /\ SearchesBounded
<1> SUFFICES ASSUME GInit PROVE CInv /\ SearchesBounded
  OBVIOUS
<1>1. ToSet(recent) = {} /\ IsInjective(recent) /\ recent \in Seq(Call)
  BY DEF GInit, ToSet, IsInjective
<1>2. CInv
  BY <1>1, CallAssumption DEF GInit, CInv, GTypeOK, StageTells,
     SearchesAreCounted, AuditExplainsDisk
<1>3. SearchesBounded
  BY <1>1, FS_EmptySet, CallAssumption DEF SearchesBounded
<1> QED
  BY <1>2, <1>3

-----------------------------------------------------------------------------
\* The steps of one call, apart from its request row.
CallStep(c) ==
  \/ RoleRefuses(c) \/ PolicyGrants(c)
  \/ ConsultQueue(c) \/ Prompt(c) \/ PromptEnds(c)
  \/ EndsDenied(c) \/ CountSearches(c)
  \/ ListDir(c) \/ ReadFile(c) \/ WriteFile(c) \/ DeleteFile(c)
  \/ Commit(c) \/ Push(c) \/ ForcePush(c) \/ ResetHard(c) \/ Search(c)
  \/ ActFails(c) \/ EndsWell(c)
  \/ FailsAfterwards(c) \/ CountThrows(c) \/ GCrash(c)

Answers(q) ==
  \/ CliApproves(q)
  \/ \E answer \in {"granted", "denied"}, confirmed \in BOOLEAN :
       DashboardAnswers(q, answer, confirmed)

\* A deed, whichever method it is of.
LEMMA Deeds ==
  ASSUME NEW c \in Call,
         \/ ListDir(c) \/ ReadFile(c) \/ WriteFile(c) \/ DeleteFile(c)
         \/ Commit(c) \/ Push(c) \/ ForcePush(c) \/ ResetHard(c) \/ Search(c)
  PROVE  \/ (stage[c] = "staged" \/ MayAct(c)) /\ Does(c, "done", "acted")
         \/ MayAct(c) /\ method[c] # "search" /\ Does(c, "part", "staged")
  BY DEF ListDir, ReadFile, WriteFile, DeleteFile, Commit, Push, ForcePush,
     ResetHard, Search, Acts, Prepares

\* What a step of a call leaves behind keeps the invariant.
LEMMA CallKeeps ==
  ASSUME CInv, NEW c \in Call, CallStep(c), UNCHANGED method
  PROVE  CInv' /\ UNCHANGED recent
<1> USE CallAssumption DEF CInv, GTypeOK, StageTells, SearchesAreCounted,
    AuditExplainsDisk
<1>1. CASE RoleRefuses(c)
  BY <1>1 DEF RoleRefuses, Decide
<1>2. CASE PolicyGrants(c)
  BY <1>2 DEF PolicyGrants, Decide
<1>3. CASE ConsultQueue(c)
  BY <1>3 DEF ConsultQueue, Decide
<1>4. CASE Prompt(c)
  BY <1>4 DEF Prompt
<1>5. CASE PromptEnds(c)
  BY <1>5 DEF PromptEnds, Decide
<1>6. CASE EndsDenied(c)
  BY <1>6 DEF EndsDenied, RecordOutcome
<1>7. CASE CountSearches(c)
  <2>1. PICK o \in {"none", "rationed"}, g \in {"counted", "ended"} :
          /\ stage' = [stage EXCEPT ![c] = g]
          /\ o = "none" => outcome' = outcome
          /\ o = "rationed" => outcome' = [outcome EXCEPT ![c] = o]
          /\ g = "counted" <=> o = "none"
    BY <1>7 DEF CountSearches, RecordOutcome
  <2>2. /\ stage[c] = "decided" /\ verdict[c] = "granted" /\ method[c] = "search"
        /\ UNCHANGED <<verdict, effect, recent, queue, marred, faults>>
    BY <1>7 DEF CountSearches
  <2>3. effect[c] = "none" /\ outcome[c] = "none"
    BY <2>2
  <2>4. CASE o = "none"
    BY <2>1, <2>2, <2>3, <2>4
  <2>5. CASE o = "rationed"
    <3>1. /\ stage' = [stage EXCEPT ![c] = "ended"]
          /\ outcome' = [outcome EXCEPT ![c] = "rationed"]
      BY <2>1, <2>5
    <3>2. GTypeOK' /\ StageTells' /\ SearchesAreCounted'
      BY <2>2, <2>3, <3>1
    <3>3. AuditExplainsDisk'
      BY <2>2, <2>3, <3>1
    <3> QED
      BY <2>2, <3>2, <3>3
  <2> QED
    BY <2>1, <2>4, <2>5
<1>8. CASE (stage[c] = "staged" \/ MayAct(c)) /\ Does(c, "done", "acted")
  BY <1>8 DEF Does, MayAct
<1>9. CASE MayAct(c) /\ method[c] # "search" /\ Does(c, "part", "staged")
  BY <1>9 DEF Does, MayAct
<1>10. CASE ActFails(c)
  BY <1>10 DEF ActFails, MayAct, RecordOutcome
<1>11. CASE EndsWell(c)
  BY <1>11 DEF EndsWell, RecordOutcome
<1>12. CASE FailsAfterwards(c)
  BY <1>12 DEF FailsAfterwards, Fault, RecordOutcome
<1>13. CASE CountThrows(c)
  BY <1>13 DEF CountThrows, Fault
<1>14. CASE GCrash(c)
  BY <1>14 DEF GCrash, Fault
<1> QED
  BY <1>1, <1>2, <1>3, <1>4, <1>5, <1>6, <1>7, <1>8, <1>9, <1>10, <1>11,
     <1>12, <1>13, <1>14, Deeds DEF CallStep

LEMMA RequestKeeps ==
  ASSUME CInv, NEW c \in Call, RecordRequest(c), UNCHANGED method
  PROVE  CInv' /\ recent' \in {recent, Append(recent, c)}
<1> USE DEF CInv, GTypeOK, StageTells, SearchesAreCounted, AuditExplainsDisk
<1>1. c \notin ToSet(recent) /\ recent \in Seq(Call) /\ IsInjective(recent)
  BY DEF RecordRequest
<1>2. /\ Append(recent, c) \in Seq(Call)
      /\ IsInjective(Append(recent, c))
      /\ ToSet(Append(recent, c)) = ToSet(recent) \cup {c}
  BY <1>1, AppendNew
<1> QED
  BY <1>1, <1>2 DEF RecordRequest

LEMMA AnswersKeep ==
  ASSUME CInv, NEW q \in Payload, Answers(q), UNCHANGED method
  PROVE  CInv' /\ UNCHANGED <<stage, outcome, effect, recent, marred>>
  BY DEF CInv, GTypeOK, StageTells, SearchesAreCounted, AuditExplainsDisk,
     Answers, CliApproves, DashboardAnswers

LEMMA WindowKeeps ==
  ASSUME CInv, WindowMoves, UNCHANGED method
  PROVE  /\ CInv'
         /\ UNCHANGED <<stage, outcome, effect, marred>>
         /\ ToSet(recent') \subseteq ToSet(recent)
<1>1. /\ Tail(recent) \in Seq(Call)
      /\ IsInjective(Tail(recent))
      /\ ToSet(Tail(recent)) \subseteq ToSet(recent)
  BY TailOfInjective DEF WindowMoves, CInv, GTypeOK
<1> QED
  BY <1>1 DEF WindowMoves, CInv, GTypeOK, StageTells, SearchesAreCounted,
     AuditExplainsDisk

LEMMA CallsStep == CInv /\ [GNext]_gvars => CInv'
<1> SUFFICES ASSUME CInv, [GNext]_gvars PROVE CInv'
  OBVIOUS
<1>1. CASE GNext
  <2>1. UNCHANGED method
    BY <1>1 DEF GNext
  <2>2. ASSUME NEW c \in Call, CallStep(c) PROVE CInv'
    BY <2>1, <2>2, CallKeeps
  <2>3. ASSUME NEW c \in Call, RecordRequest(c) PROVE CInv'
    BY <2>1, <2>3, RequestKeeps
  <2>4. ASSUME NEW q \in Payload, Answers(q) PROVE CInv'
    BY <2>1, <2>4, AnswersKeep
  <2>5. CASE WindowMoves
    BY <2>1, <2>5, WindowKeeps
  <2> QED
    BY <1>1, <2>2, <2>3, <2>4, <2>5 DEF GNext, GStep, CallStep, Answers
<1>2. CASE UNCHANGED gvars
  BY <1>2 DEF gvars, CInv, GTypeOK, StageTells, SearchesAreCounted,
     AuditExplainsDisk
<1> QED
  BY <1>1, <1>2

-----------------------------------------------------------------------------
\* Nobody gets past the ration but by counting, and whoever counts finds at
\* most Limit requests in the window.
LEMMA PassedGrowsByCounting ==
  ASSUME CInv, GNext
  PROVE  Passed' \subseteq Passed \/ (Len(recent) <= Limit /\ UNCHANGED recent)
<1> USE DEF CInv, StageTells, SearchesAreCounted, Passed, PastRation
<1>1. UNCHANGED method /\ GTypeOK
  BY DEF GNext
<1>2. ASSUME NEW c \in Call, CallStep(c)
      PROVE  \/ Passed' \subseteq Passed
             \/ Len(recent) <= Limit /\ UNCHANGED recent
  <2> USE DEF GTypeOK
  <2>1. UNCHANGED recent
    BY <1>1, <1>2, CallKeeps
  <2>2. CASE CountSearches(c)
    <3>1. CASE Rationed
      <4>1. /\ stage'[c] = "ended" /\ effect[c] = "none" /\ outcome'[c] = "rationed"
            /\ UNCHANGED <<effect, marred>>
            /\ \A d \in Call \ {c} : stage'[d] = stage[d] /\ outcome'[d] = outcome[d]
        BY <2>2, <3>1, <1>1 DEF CountSearches, RecordOutcome
      <4>2. \A d \in ToSet(recent) : d \in Call
        BY <1>1 DEF ToSet
      <4> QED
        BY <2>1, <4>1, <4>2
    <3>2. CASE ~Rationed
      BY <2>1, <3>2, <1>1, CallAssumption DEF Rationed
    <3> QED
      BY <3>1, <3>2
  <2>3. CASE (stage[c] = "staged" \/ MayAct(c)) /\ Does(c, "done", "acted")
    BY <2>1, <2>3, <1>1 DEF Does, MayAct
  <2>4. CASE MayAct(c) /\ method[c] # "search" /\ Does(c, "part", "staged")
    BY <2>1, <2>4, <1>1 DEF Does, MayAct
  \* The decided call has not done anything yet.
  <2>5. CASE RoleRefuses(c) \/ PolicyGrants(c) \/ ConsultQueue(c)
             \/ PromptEnds(c)
    <3>1. /\ stage'[c] = "decided" /\ effect[c] = "none" /\ outcome[c] = "none"
          /\ UNCHANGED <<outcome, effect, marred>>
          /\ \A d \in Call \ {c} : stage'[d] = stage[d]
      BY <2>5, <1>1 DEF RoleRefuses, PolicyGrants, ConsultQueue, PromptEnds,
         Decide
    <3>2. \A d \in ToSet(recent) : d \in Call
      BY <1>1 DEF ToSet
    <3> QED
      BY <2>1, <3>1, <3>2
  <2>6. CASE Prompt(c)
    BY <2>1, <2>6, <1>1 DEF Prompt
  <2>7. CASE EndsDenied(c)
    BY <2>1, <2>7, <1>1 DEF EndsDenied, RecordOutcome
  \* A search that fails had got past the ration before.
  <2>8. CASE ActFails(c)
    <3>1. c \in ToSet(recent) => stage[c] = "counted"
      BY <2>8 DEF ActFails, MayAct
    <3>2. /\ UNCHANGED <<effect, marred>>
          /\ \A d \in Call \ {c} : stage'[d] = stage[d] /\ outcome'[d] = outcome[d]
      BY <2>8, <1>1 DEF ActFails, RecordOutcome
    <3>3. \A d \in ToSet(recent) : d \in Call
      BY <1>1 DEF ToSet
    <3> QED
      BY <2>1, <3>1, <3>2, <3>3
  <2>9. CASE EndsWell(c)
    BY <2>1, <2>9, <1>1 DEF EndsWell, RecordOutcome
  <2>10. CASE FailsAfterwards(c)
    BY <2>1, <2>10, <1>1 DEF FailsAfterwards, Fault, RecordOutcome
  \* The search that was not counted is marred.
  <2>11. CASE CountThrows(c)
    BY <2>1, <2>11, <1>1 DEF CountThrows, Fault
  <2>12. CASE GCrash(c)
    BY <2>1, <2>12, <1>1 DEF GCrash, Fault
  <2> QED
    BY <1>2, <2>2, <2>3, <2>4, <2>5, <2>6, <2>7, <2>8, <2>9, <2>10, <2>11,
       <2>12, Deeds DEF CallStep
<1>3. ASSUME NEW c \in Call, RecordRequest(c) PROVE Passed' \subseteq Passed
  <2>1. /\ recent' \in {recent, Append(recent, c)}
        /\ c \notin ToSet(recent) /\ recent \in Seq(Call) /\ IsInjective(recent)
    BY <1>1, <1>3, RequestKeeps DEF RecordRequest, GTypeOK
  <2>2. ToSet(recent') \subseteq ToSet(recent) \cup {c}
    <3>1. ToSet(Append(recent, c)) = ToSet(recent) \cup {c}
      BY <2>1, AppendNew
    <3>2. CASE recent' = recent
      BY <3>2
    <3>3. CASE recent' = Append(recent, c)
      BY <3>1, <3>3
    <3> QED
      BY <2>1, <3>2, <3>3
  <2>3. stage'[c] = "requested" /\ effect[c] = "none" /\ outcome[c] = "none"
    BY <1>1, <1>3 DEF RecordRequest, GTypeOK
  <2> QED
    BY <1>1, <1>3, <2>2, <2>3 DEF RecordRequest, GTypeOK
<1>4. ASSUME NEW q \in Payload, Answers(q) PROVE Passed' \subseteq Passed
  BY <1>1, <1>4, AnswersKeep
<1>5. CASE WindowMoves
  BY <1>1, <1>5, WindowKeeps
<1> QED
  BY <1>2, <1>3, <1>4, <1>5 DEF GNext, GStep, CallStep, Answers

LEMMA RationStep == CInv /\ SearchesBounded /\ [GNext]_gvars => SearchesBounded'
<1> SUFFICES ASSUME CInv, SearchesBounded, [GNext]_gvars PROVE SearchesBounded'
  OBVIOUS
<1> USE DEF SearchesBounded, Passed, PastRation
<1>1. recent \in Seq(Call) /\ Limit \in Nat
  BY CallAssumption DEF CInv, GTypeOK
<1>2. IsFiniteSet(ToSet(recent)) /\ Cardinality(ToSet(recent)) <= Len(recent)
  BY <1>1, ElementsBounded
<1>3. Cardinality(ToSet(recent)) \in Nat /\ Len(recent) \in Nat
  BY <1>1, <1>2, FS_CardinalityType
<1>4. IsFiniteSet(Passed) /\ Cardinality(Passed) \in Nat
  BY <1>2, FS_Subset, FS_CardinalityType
<1>5. CASE GNext
  <2>1. CASE Passed' \subseteq Passed
    <3>1. IsFiniteSet(Passed') /\ Cardinality(Passed') <= Cardinality(Passed)
      BY <1>4, <2>1, FS_Subset
    <3>2. Cardinality(Passed') \in Nat
      BY <3>1, FS_CardinalityType
    <3> QED
      BY <1>1, <1>4, <3>1, <3>2
  <2>2. CASE Len(recent) <= Limit /\ UNCHANGED recent
    <3>1. Passed' \subseteq ToSet(recent)
      BY <2>2
    <3>2. IsFiniteSet(Passed')
          /\ Cardinality(Passed') <= Cardinality(ToSet(recent))
      BY <1>2, <3>1, FS_Subset
    <3>3. Cardinality(Passed') \in Nat
      BY <3>2, FS_CardinalityType
    <3> QED
      BY <1>1, <1>2, <1>3, <2>2, <3>2, <3>3
  <2> QED
    BY <1>5, <2>1, <2>2, PassedGrowsByCounting
<1>6. CASE UNCHANGED gvars
  BY <1>6 DEF gvars
<1> QED
  BY <1>5, <1>6

-----------------------------------------------------------------------------
\* The variables of the calls keep their types, the window of searches among
\* them, for any number of calls (the connectors and the approval queue).
THEOREM CallTypes == GSpec => []GTypeOK
<1>1. CInv => GTypeOK
  BY DEF CInv
<1>2. GInit => CInv
  BY CallsStart
<1> QED
  BY <1>1, <1>2, CallsStep, PTL DEF GSpec

\* The audit log and the deeds of the connectors agree, for any number of
\* calls, requests and faults (GitConnector, FilesystemConnector,
\* SearchConnector and the gatekeeper they ask).
THEOREM AuditIsTrue == GSpec => []AuditExplainsDisk
<1>1. CInv => AuditExplainsDisk
  BY DEF CInv
<1>2. GInit => CInv
  BY CallsStart
<1> QED
  BY <1>1, <1>2, CallsStep, PTL DEF GSpec

\* No more searches of one window than the ration get past it, whatever the
\* ration and however many processes search (SearchConnector).
THEOREM RationHolds == GSpec => []SearchesBounded
<1>1. GInit => CInv /\ SearchesBounded
  BY CallsStart
<1>2. CInv /\ SearchesBounded /\ [GNext]_gvars => (CInv /\ SearchesBounded)'
  BY CallsStep, RationStep
<1> QED
  BY <1>1, <1>2, PTL DEF GSpec

-----------------------------------------------------------------------------
(* Recurring tasks.                                                        *)

\* Everything before n was run, from the time the schedule was initialised to.
Covered(s, n) ==
  \A m \in Time : first[s] <= m /\ m < n => started[s][m] > 0

\* What a daemon has in hand was due when it read it, and what it is at left
\* its list and has a next run no further than the first it leaves out.
HandInOrder(d) ==
  /\ \A s \in InHand(d) : seen[d][s] <= since[d]
  /\ doing[d].on =>
       /\ doing[d].schedule \notin due[d]
       /\ seen[d][doing[d].schedule] # Never
       /\ seen[d][doing[d].schedule] <= doing[d].run
       /\ doing[d].run <= LastRun(d, doing[d].schedule) + 1

\* Every watermark of a 'catch-up' schedule - the stored one, the ones read
\* and not yet replaced, the one a daemon is moving - has its runs behind it.
WatermarksCovered(s) ==
  /\ Covered(s, nextRun[s])
  /\ \A d \in Daemon :
       /\ Covered(s, seen[d][s])
       /\ doing[d].on /\ doing[d].schedule = s => Covered(s, doing[d].run)

SInv ==
  /\ STypeOK
  /\ \A d \in Daemon : HandInOrder(d)
  /\ \A s \in catchUp : WatermarksCovered(s)

LEMMA ScheduleStart == SInit => SInv
<1> SUFFICES ASSUME SInit PROVE SInv
  OBVIOUS
<1> USE ScheduleAssumption DEF SInit, Never, Time
<1>1. STypeOK
  <2>1. 0 \in Time /\ 0 \in 0..MaxTrouble /\ Idle.on = FALSE
    BY DEF Idle
  <2>2. started \in [Schedule -> [Time -> 0..2]]
    OBVIOUS
  <2> QED
    BY <2>1, <2>2 DEF STypeOK
<1>2. \A d \in Daemon : HandInOrder(d)
  BY DEF HandInOrder, InHand, Idle
<1>3. \A s \in catchUp : WatermarksCovered(s)
  BY DEF WatermarksCovered, Covered, Idle
<1> QED
  BY <1>1, <1>2, <1>3 DEF SInv

\* The last run of an evaluation lies between what was due and now.
LEMMA LastRunBounds ==
  ASSUME STypeOK, NEW d \in Daemon, HandInOrder(d),
         NEW s \in InHand(d), seen[d][s] # Never
  PROVE  /\ s \in Schedule /\ seen[d][s] \in Nat /\ since[d] \in Time
         /\ LastRun(d, s) \in Time /\ seen[d][s] <= LastRun(d, s)
         /\ LastRun(d, s) + 1 \in 0..(Horizon + 1)
<1>1. s \in Schedule /\ seen[d][s] \in 0..(Horizon + 1) /\ since[d] \in Time
      /\ seen[d][s] <= since[d]
  BY DEF HandInOrder, STypeOK, InHand, Busy, Idle
<1> QED
  BY <1>1, ScheduleAssumption DEF LastRun, Time

\* A watermark stays covered when runs are added and the schedule is
\* initialised to a later time.
LEMMA CoveredStays ==
  ASSUME NEW s, NEW n, Covered(s, n), first[s] \in Int,
         first'[s] \in Int, n \in Int, first[s] <= first'[s],
         \A m \in Time : started[s][m] > 0 => started'[s][m] > 0
  PROVE  Covered(s, n)'
  BY ScheduleAssumption DEF Covered, Time

\* A step that leaves a daemon alone leaves what it has in hand in order.
LEMMA HandStays ==
  ASSUME NEW d \in Daemon, HandInOrder(d),
         UNCHANGED <<seen[d], since[d], doing[d], due[d]>>
  PROVE  HandInOrder(d)'
  BY DEF HandInOrder, InHand, LastRun

\* The end of an evaluation, by an exception or with the daemon.
LEMMA HandDropped ==
  ASSUME NEW d \in Daemon, HandInOrder(d), UNCHANGED <<seen[d], since[d]>>,
         doing'[d] = Idle, due'[d] \subseteq due[d]
  PROVE  HandInOrder(d)'
  BY DEF HandInOrder, InHand, Idle

\* The first time of a schedule could not be set.
LEMMA HandPassed ==
  ASSUME NEW d \in Daemon, HandInOrder(d), UNCHANGED <<seen[d], since[d], doing[d]>>,
         due'[d] \subseteq due[d]
  PROVE  HandInOrder(d)'
  BY DEF HandInOrder, InHand, LastRun

LEMMA ScheduleTypeStep ==
  ASSUME STypeOK, \A d \in Daemon : HandInOrder(d), [SNext]_svars
  PROVE  STypeOK'
<1> USE ScheduleAssumption DEF STypeOK
<1>1. ASSUME NEW d \in Daemon, SelectDue(d) PROVE STypeOK'
  BY <1>1 DEF SelectDue
<1>2. ASSUME NEW d \in Daemon, NEW s \in Schedule, InitialiseNext(d, s)
      PROVE  STypeOK'
  <2>1. since[d] + 1 \in 0..(Horizon + 1)
    BY DEF Time
  <2> QED
    BY <1>2, <2>1 DEF InitialiseNext
<1>3. ASSUME NEW d \in Daemon, NEW s \in Schedule, Begin(d, s) PROVE STypeOK'
  <2>1. seen[d][s] \in 0..(Horizon + 1) /\ LastRun(d, s) \in 0..(Horizon + 1)
    BY <1>3, LastRunBounds DEF Begin, InHand, Time
  <2>2. \E m \in 0..(Horizon + 1) : doing' = [doing EXCEPT ![d] = Busy(s, m)]
    BY <1>3, <2>1 DEF Begin
  <2>3. doing' \in [Daemon -> {Idle} \cup
                {Busy(x, m) : x \in Schedule, m \in 0..(Horizon + 1)}]
    BY <2>2
  <2> QED
    BY <1>3, <2>3 DEF Begin
<1>4. ASSUME NEW d \in Daemon, EnqueueRun(d) PROVE STypeOK'
  <2> DEFINE s == doing[d].schedule  m == doing[d].run
  <2>1. s \in Schedule /\ m \in 0..(Horizon + 1) /\ s \in InHand(d)
        /\ seen[d][s] # Never
    BY <1>4 DEF EnqueueRun, Idle, Busy, InHand, HandInOrder
  <2>2. m \in Time /\ m + 1 \in 0..(Horizon + 1)
    <3>1. m <= LastRun(d, s) /\ LastRun(d, s) \in Time
      BY <1>4, <2>1, LastRunBounds DEF EnqueueRun
    <3> QED
      BY <2>1, <3>1 DEF Time
  <2>3. started' \in [Schedule -> [Time -> 0..2]]
    <3>1. started[s][m] \in 0..2
      BY <2>1, <2>2
    <3>2. (IF started[s][m] < 2 THEN started[s][m] + 1 ELSE started[s][m]) \in 0..2
      BY <3>1
    <3> QED
      BY <1>4, <2>1, <2>2, <3>2 DEF EnqueueRun
  <2>4. doing' = [doing EXCEPT ![d] = Busy(s, m + 1)]
    BY <1>4 DEF EnqueueRun
  <2> HIDE DEF s, m
  <2>5. doing' \in [Daemon -> {Idle} \cup
                {Busy(x, n) : x \in Schedule, n \in 0..(Horizon + 1)}]
    BY <2>1, <2>2, <2>4
  <2> QED
    BY <1>4, <2>3, <2>5 DEF EnqueueRun
<1>5. ASSUME NEW d \in Daemon, MoveNext(d) PROVE STypeOK'
  <2> DEFINE s == doing[d].schedule
  <2>1. s \in Schedule /\ s \in InHand(d) /\ seen[d][s] # Never
    BY <1>5 DEF MoveNext, Idle, Busy, InHand, HandInOrder
  <2>2. LastRun(d, s) + 1 \in 0..(Horizon + 1)
    BY <2>1, LastRunBounds
  <2> QED
    BY <1>5, <2>1, <2>2 DEF MoveNext
<1>6. ASSUME NEW d \in Daemon, EvaluationThrows(d) PROVE STypeOK'
  <2>1. CASE ~doing[d].on
    <3>1. PICK s \in due[d] : due' = [due EXCEPT ![d] = @ \ {s}]
      BY <1>6, <2>1 DEF EvaluationThrows
    <3>2. /\ UNCHANGED <<clock, catchUp, nextRun, first, doing, seen, since, started>>
          /\ trouble < MaxTrouble /\ trouble' = trouble + 1
          /\ disturbed' = disturbed \cup {}
      BY <1>6, <2>1 DEF EvaluationThrows, Trouble
    <3> QED
      BY <3>1, <3>2
  <2>2. CASE doing[d].on
    <3>1. doing[d].schedule \in Schedule
      BY <2>2 DEF Idle, Busy
    <3>2. /\ UNCHANGED <<clock, catchUp, nextRun, first, due, seen, since, started>>
          /\ trouble < MaxTrouble /\ trouble' = trouble + 1
          /\ disturbed' = disturbed \cup {doing[d].schedule}
          /\ doing' = [doing EXCEPT ![d] = Idle]
      BY <1>6, <2>2 DEF EvaluationThrows, Trouble
    <3> QED
      BY <3>1, <3>2
  <2> QED
    BY <2>1, <2>2
<1>7. ASSUME NEW d \in Daemon, DaemonEnds(d) PROVE STypeOK'
  <2>1. InHand(d) \subseteq Schedule
    BY DEF InHand, Idle, Busy
  <2> QED
    BY <1>7, <2>1 DEF DaemonEnds, Trouble
<1>8. CASE TimePasses
  BY <1>8 DEF TimePasses, Time
<1>9. CASE UNCHANGED svars
  BY <1>9 DEF svars
<1> QED
  BY <1>1, <1>2, <1>3, <1>4, <1>5, <1>6, <1>7, <1>8, <1>9 DEF SNext, Evaluate

LEMMA HandStep ==
  ASSUME STypeOK, \A d \in Daemon : HandInOrder(d), [SNext]_svars,
         NEW e \in Daemon
  PROVE  HandInOrder(e)'
<1> USE DEF STypeOK
<1>1. ASSUME NEW d \in Daemon, SelectDue(d) PROVE HandInOrder(e)'
  <2>1. CASE e # d
    BY <1>1, <2>1, HandStays DEF SelectDue
  <2>2. CASE e = d
    <3>1. doing'[e].on = FALSE \/ ~doing'[e].on
      BY <1>1, <2>2 DEF SelectDue, InHand
    <3>2. \A s \in InHand(e)' : s \in Schedule /\ nextRun[s] <= clock
      BY <1>1, <2>2 DEF SelectDue, InHand
    <3>3. ~doing'[e].on
      BY <1>1, <2>2 DEF SelectDue, InHand
    <3> QED
      BY <1>1, <2>2, <3>2, <3>3 DEF SelectDue, HandInOrder
  <2> QED
    BY <2>1, <2>2
<1>2. ASSUME NEW d \in Daemon, NEW s \in Schedule, InitialiseNext(d, s)
      PROVE  HandInOrder(e)'
  BY <1>2, HandStays DEF InitialiseNext, HandInOrder, InHand
<1>3. ASSUME NEW d \in Daemon, NEW s \in Schedule, Begin(d, s)
      PROVE  HandInOrder(e)'
  <2>1. CASE e # d
    BY <1>3, <2>1, HandStays DEF Begin
  <2>2. CASE e = d
    <3>1. /\ UNCHANGED <<seen, since>> /\ s \in due[e] /\ seen[e][s] # Never
          /\ due'[e] = due[e] \ {s}
          /\ \E m \in {seen[e][s], LastRun(e, s)} : doing'[e] = Busy(s, m)
      BY <1>3, <2>2 DEF Begin
    <3>2. seen[e][s] \in Nat /\ LastRun(e, s) \in Nat /\ seen[e][s] <= LastRun(e, s)
      BY <3>1, LastRunBounds DEF InHand, Time
    <3>3. LastRun(e, s)' = LastRun(e, s)
      BY <3>1 DEF LastRun
    <3>4. doing'[e].on /\ doing'[e].schedule = s
          /\ doing'[e].run \in {seen[e][s], LastRun(e, s)}
      BY <3>1 DEF Busy
    <3>5. InHand(e)' \subseteq InHand(e)
      BY <3>1, <3>4 DEF InHand
    <3> QED
      BY <3>1, <3>2, <3>3, <3>4, <3>5 DEF HandInOrder
  <2> QED
    BY <2>1, <2>2
<1>4. ASSUME NEW d \in Daemon, EnqueueRun(d) PROVE HandInOrder(e)'
  <2>1. CASE e # d
    BY <1>4, <2>1, HandStays DEF EnqueueRun
  <2>2. CASE e = d
    <3> DEFINE s == doing[e].schedule  m == doing[e].run
    <3>1. /\ UNCHANGED <<seen, since, due>> /\ m <= LastRun(e, s)
          /\ doing[e].on /\ doing'[e] = Busy(s, m + 1)
      BY <1>4, <2>2 DEF EnqueueRun
    <3>2. s \in InHand(e) /\ m \in Nat /\ seen[e][s] # Never
      BY <3>1, ScheduleAssumption DEF InHand, Busy, Idle, HandInOrder
    <3>3. LastRun(e, s) \in Nat /\ seen[e][s] \in Nat
      BY <3>2, LastRunBounds DEF Time
    <3>4. doing'[e].on /\ doing'[e].schedule = s /\ doing'[e].run = m + 1
      BY <3>1 DEF Busy
    <3>5. seen[e][s] <= m + 1 /\ m + 1 <= LastRun(e, s) + 1
      BY <3>1, <3>2, <3>3 DEF HandInOrder
    <3>6. LastRun(e, s)' = LastRun(e, s) /\ InHand(e)' = InHand(e)
      BY <3>1, <3>4 DEF LastRun, InHand
    <3>7. s \notin due[e] /\ \A x \in InHand(e) : seen[e][x] <= since[e]
      BY <3>1 DEF HandInOrder
    <3> HIDE DEF s, m
    <3> QED
      BY <3>1, <3>2, <3>4, <3>5, <3>6, <3>7 DEF HandInOrder, LastRun
  <2> QED
    BY <2>1, <2>2
<1>5. ASSUME NEW d \in Daemon,
             MoveNext(d) \/ EvaluationThrows(d) \/ DaemonEnds(d)
      PROVE  HandInOrder(e)'
  <2>1. CASE ~doing[d].on /\ EvaluationThrows(d)
    BY <2>1, HandStays, HandPassed DEF EvaluationThrows
  <2>2. CASE doing[d].on /\ EvaluationThrows(d)
    BY <2>2, HandStays, HandDropped DEF EvaluationThrows
  <2>3. CASE MoveNext(d) \/ DaemonEnds(d)
    BY <2>3, HandStays, HandDropped DEF MoveNext, DaemonEnds
  <2> QED
    BY <1>5, <2>1, <2>2, <2>3
<1>6. CASE TimePasses
  BY <1>6, HandStays DEF TimePasses
<1>7. CASE UNCHANGED svars
  BY <1>7, HandStays DEF svars
<1> QED
  BY <1>1, <1>2, <1>3, <1>4, <1>5, <1>6, <1>7 DEF SNext, Evaluate

\* A step that moves no watermark of a schedule, or only those of a daemon to
\* one that is covered.
LEMMA WatermarkStays ==
  ASSUME STypeOK, STypeOK', NEW s \in Schedule, WatermarksCovered(s),
         first[s] <= first'[s],
         \A m \in Time : started[s][m] > 0 => started'[s][m] > 0,
         UNCHANGED nextRun[s] \/ Covered(s, nextRun[s])',
         \A d \in Daemon :
           /\ seen'[d][s] \in {seen[d][s], nextRun[s]}
           /\ doing'[d].on /\ doing'[d].schedule = s =>
                UNCHANGED doing[d] \/ Covered(s, doing[d].run)'
  PROVE  WatermarksCovered(s)'
<1>1. first[s] \in Int /\ first'[s] \in Int
  BY ScheduleAssumption DEF STypeOK, Never
<1>2. \A n \in Int : Covered(s, n) => \A m \in Time :
        first'[s] <= m /\ m < n => started'[s][m] > 0
  BY <1>1 DEF Covered, Time
<1>3. nextRun[s] \in Int /\ \A d \in Daemon : seen[d][s] \in Int
  BY ScheduleAssumption DEF STypeOK, Never
<1>4. Covered(s, nextRun[s])'
  BY <1>2, <1>3 DEF WatermarksCovered, Covered, Time
<1>5. ASSUME NEW d \in Daemon PROVE Covered(s, seen[d][s])'
  BY <1>2, <1>3, <1>5 DEF WatermarksCovered, Covered, Time
<1>6. ASSUME NEW d \in Daemon, doing'[d].on, doing'[d].schedule = s
      PROVE  Covered(s, doing[d].run)'
  <2>1. CASE UNCHANGED doing[d]
    <3>1. doing[d].run \in Int
      BY <1>6, <2>1, ScheduleAssumption DEF STypeOK, Busy, Idle
    <3> QED
      BY <1>2, <1>6, <2>1, <3>1 DEF WatermarksCovered, Covered, Time
  <2> QED
    BY <1>6, <2>1
<1> QED
  BY <1>4, <1>5, <1>6 DEF WatermarksCovered

LEMMA WatermarkStep ==
  ASSUME SInv, STypeOK', [SNext]_svars, NEW s \in catchUp
  PROVE  WatermarksCovered(s)'
<1>0. STypeOK /\ s \in Schedule /\ WatermarksCovered(s)
      /\ first[s] \in Int /\ \A d \in Daemon : HandInOrder(d)
  BY ScheduleAssumption DEF SInv, STypeOK, Never
<1>a. ASSUME UNCHANGED <<first, started>>,
             UNCHANGED nextRun[s] \/ Covered(s, nextRun[s])',
             \A d \in Daemon :
               /\ seen'[d][s] \in {seen[d][s], nextRun[s]}
               /\ doing'[d].on /\ doing'[d].schedule = s =>
                    UNCHANGED doing[d] \/ Covered(s, doing[d].run)'
      PROVE  WatermarksCovered(s)'
  BY <1>0, <1>a, WatermarkStays
<1>1. ASSUME NEW d \in Daemon, SelectDue(d) PROVE WatermarksCovered(s)'
  BY <1>0, <1>1, <1>a DEF SelectDue, STypeOK
<1>2. ASSUME NEW d \in Daemon, NEW x \in Schedule, InitialiseNext(d, x)
      PROVE  WatermarksCovered(s)'
  <2>1. /\ UNCHANGED <<seen, doing, started>> /\ since[d] \in Int
        /\ nextRun[s] \in Int
        /\ nextRun'[s] = IF s = x THEN since[d] + 1 ELSE nextRun[s]
        /\ first'[s] = IF s = x
                       THEN IF first[s] > since[d] + 1 THEN first[s] ELSE since[d] + 1
                       ELSE first[s]
    BY <1>0, <1>2, ScheduleAssumption DEF InitialiseNext, STypeOK, Time, Never
  <2>2. first[s] <= first'[s] /\ (s = x => nextRun'[s] <= first'[s])
        /\ first'[s] \in Int /\ nextRun'[s] \in Int
    BY <1>0, <2>1
  <2>3. s = x => Covered(s, nextRun[s])'
    BY <2>2 DEF Covered, Time
  <2> QED
    BY <1>0, <2>1, <2>2, <2>3, WatermarkStays
<1>3. ASSUME NEW d \in Daemon, NEW x \in Schedule, Begin(d, x)
      PROVE  WatermarksCovered(s)'
  <2>0. PICK m : /\ doing' = [doing EXCEPT ![d] = Busy(x, m)]
                 /\ s = x => m = seen[d][s]
    BY <1>3 DEF Begin
  <2>1. /\ UNCHANGED <<seen, nextRun, first, started>>
        /\ \A e \in Daemon : e # d => doing'[e] = doing[e]
        /\ doing'[d] = Busy(x, m)
    BY <1>0, <1>3, <2>0 DEF Begin, STypeOK
  <2>2. doing'[d].schedule = x /\ (s = x => Covered(s, doing[d].run)')
    <3>1. doing'[d].schedule = x /\ doing'[d].run = m
      BY <2>1 DEF Busy
    <3> QED
      BY <1>0, <2>0, <2>1, <3>1 DEF WatermarksCovered, Covered
  <2> QED
    BY <1>0, <1>a, <2>1, <2>2
<1>4. ASSUME NEW d \in Daemon, EnqueueRun(d) PROVE WatermarksCovered(s)'
  <2> DEFINE x == doing[d].schedule  m == doing[d].run
  <2>1. /\ UNCHANGED <<seen, nextRun, first>> /\ doing[d].on
        /\ \A e \in Daemon : e # d => doing'[e] = doing[e]
        /\ doing'[d] = Busy(x, m + 1) /\ m <= LastRun(d, x)
        /\ started' = [started EXCEPT ![x][m] = IF @ < 2 THEN @ + 1 ELSE @]
    BY <1>0, <1>4 DEF EnqueueRun, STypeOK
  <2>2. x \in InHand(d) /\ m \in Nat /\ seen[d][x] # Never /\ x \in Schedule
    BY <1>0, <2>1 DEF InHand, HandInOrder, STypeOK, Idle, Busy
  <2>3. m \in Time
    <3>1. LastRun(d, x) \in Time
      BY <1>0, <2>2, LastRunBounds
    <3> QED
      BY <2>1, <2>2, <3>1, ScheduleAssumption DEF Time
  <2>4. (\A n \in Time : started[s][n] > 0 => started'[s][n] > 0)
        /\ (s = x => started'[s][m] > 0)
    <3>1. PICK k : /\ k = IF started[x][m] < 2 THEN started[x][m] + 1 ELSE started[x][m]
                   /\ started' = [started EXCEPT ![x][m] = k]
      BY <2>1
    <3>2. started[x][m] \in 0..2 /\ started \in [Schedule -> [Time -> 0..2]]
      BY <1>0, <2>2, <2>3 DEF STypeOK
    <3>3. k > 0
      BY <3>1, <3>2
    <3>4. \A n \in Time : started'[s][n] = IF s = x /\ n = m THEN k ELSE started[s][n]
      BY <1>0, <2>2, <2>3, <3>1, <3>2
    <3> HIDE DEF x, m
    <3> QED
      BY <2>3, <3>3, <3>4
  <2>6. /\ doing'[d].schedule = x /\ doing'[d].run = m + 1
        /\ s = x => Covered(s, m)
    BY <1>0, <2>1 DEF Busy, WatermarksCovered
  <2> HIDE DEF x, m
  <2>7. s = x => Covered(s, doing[d].run)'
    BY <2>1, <2>2, <2>4, <2>6 DEF Covered, Time
  <2> QED
    BY <1>0, <2>1, <2>4, <2>6, <2>7, WatermarkStays
<1>5. ASSUME NEW d \in Daemon, MoveNext(d) PROVE WatermarksCovered(s)'
  <2> DEFINE x == doing[d].schedule
  <2>1. /\ UNCHANGED <<seen, first, started>> /\ doing[d].on
        /\ \A e \in Daemon : e # d => doing'[e] = doing[e]
        /\ ~doing'[d].on /\ doing[d].run > LastRun(d, x)
        /\ nextRun' = [nextRun EXCEPT ![x] = LastRun(d, x) + 1]
    BY <1>0, <1>5 DEF MoveNext, STypeOK, Idle
  <2>2. x \in InHand(d) /\ doing[d].run \in Nat /\ seen[d][x] # Never
        /\ x \in Schedule
    BY <1>0, <2>1 DEF InHand, HandInOrder, STypeOK, Idle, Busy
  <2>3. LastRun(d, x) \in Nat
    BY <1>0, <2>2, LastRunBounds DEF Time
  <2>4. s = x => Covered(s, nextRun[s])'
    <3>1. s = x => Covered(s, doing[d].run) /\ nextRun'[s] = LastRun(d, x) + 1
      BY <1>0, <2>1, <2>2 DEF WatermarksCovered, STypeOK
    <3> HIDE DEF x
    <3> QED
      BY <2>1, <2>2, <2>3, <3>1 DEF Covered, Time
  <2>5. s # x => nextRun'[s] = nextRun[s]
    BY <1>0, <2>1 DEF STypeOK
  <2> QED
    BY <1>a, <2>1, <2>4, <2>5
<1>6. ASSUME NEW d \in Daemon, EvaluationThrows(d) \/ DaemonEnds(d)
      PROVE  WatermarksCovered(s)'
  BY <1>0, <1>6, <1>a DEF EvaluationThrows, DaemonEnds, STypeOK, Idle
<1>7. CASE TimePasses
  BY <1>7, <1>a DEF TimePasses
<1>8. CASE UNCHANGED svars
  BY <1>8, <1>a DEF svars
<1> QED
  BY <1>1, <1>2, <1>3, <1>4, <1>5, <1>6, <1>7, <1>8 DEF SNext, Evaluate

LEMMA ScheduleStep == SInv /\ [SNext]_svars => SInv'
<1> SUFFICES ASSUME SInv, [SNext]_svars PROVE SInv'
  OBVIOUS
<1>1. STypeOK' /\ \A d \in Daemon : HandInOrder(d)'
  BY ScheduleTypeStep, HandStep DEF SInv
<1>2. catchUp' = catchUp
  BY DEF SNext, Evaluate, SelectDue, InitialiseNext, Begin, EnqueueRun, MoveNext,
     EvaluationThrows, DaemonEnds, TimePasses, svars
<1> QED
  BY <1>1, <1>2, WatermarkStep DEF SInv

\* The next run of a schedule nobody disturbed, as far as it is enqueued: the
\* daemon that is at it knows, else its row says.
RunsEndAt(s, n) == \A m \in Time : n <= m => started[s][m] = 0

\* An undisturbed schedule is in one daemon's hands at most, which read what
\* its row still says, and nothing is enqueued from its next run on.
InOneHand(s) ==
  /\ \A m \in Time : started[s][m] < 2
  /\ \A d, e \in Daemon : s \in InHand(d) /\ s \in InHand(e) => d = e
  /\ \A d \in Daemon : s \in InHand(d) => seen[d][s] = nextRun[s]
  /\ \A d \in Daemon :
       doing[d].on /\ doing[d].schedule = s => RunsEndAt(s, doing[d].run)
  /\ (\A d \in Daemon : ~(doing[d].on /\ doing[d].schedule = s)) =>
       RunsEndAt(s, nextRun[s])

OnceInv == SInv /\ \A s \in Schedule \ disturbed : InOneHand(s)

LEMMA OnceStart == SInit => OnceInv
<1> SUFFICES ASSUME SInit PROVE OnceInv
  OBVIOUS
<1>1. SInv
  BY ScheduleStart
<1>2. ASSUME NEW s \in Schedule PROVE InOneHand(s)
  BY DEF SInit, InOneHand, InHand, RunsEndAt, Idle
<1> QED
  BY <1>1, <1>2 DEF OnceInv

\* A step about another schedule; one that leaves hands and runs alone.
LEMMA OneHandStays ==
  ASSUME NEW s, InOneHand(s), UNCHANGED <<nextRun[s], started[s]>>,
         \A d \in Daemon :
           /\ s \in InHand(d)' => s \in InHand(d) /\ seen'[d][s] = seen[d][s]
           /\ doing'[d].on /\ doing'[d].schedule = s =>
                doing[d].on /\ doing'[d] = doing[d]
           /\ doing[d].on /\ doing[d].schedule = s => doing'[d] = doing[d]
  PROVE  InOneHand(s)'
  BY DEF InOneHand, RunsEndAt

LEMMA OneHandStep ==
  ASSUME SInv, [SNext]_svars, NEW s \in Schedule \ disturbed', InOneHand(s)
  PROVE  InOneHand(s)'
<1>0. STypeOK /\ s \in Schedule /\ \A d \in Daemon : HandInOrder(d)
  BY DEF SInv
<1>1. ASSUME NEW d \in Daemon, SelectDue(d) PROVE InOneHand(s)'
  <2>1. /\ UNCHANGED <<nextRun, started, doing>> /\ ~doing[d].on
        /\ \A e \in Daemon : e # d => InHand(e)' = InHand(e) /\ seen'[e] = seen[e]
        /\ seen'[d] = nextRun
    <3>1. ~doing[d].on
      BY <1>1 DEF SelectDue, InHand
    <3> QED
      BY <1>0, <1>1, <3>1 DEF SelectDue, STypeOK, InHand
  <2>2. ASSUME NEW e \in Daemon, e # d, s \in InHand(d)' PROVE s \notin InHand(e)
    <3>1. InHand(d)' = {x \in Schedule : nextRun[x] <= clock}
      BY <1>0, <1>1, <2>1 DEF SelectDue, STypeOK, InHand
    <3> QED
      BY <1>1, <2>2, <3>1 DEF SelectDue
  <2> QED
    BY <2>1, <2>2 DEF InOneHand, RunsEndAt
<1>2. ASSUME NEW d \in Daemon, NEW x \in Schedule, InitialiseNext(d, x)
      PROVE  InOneHand(s)'
  <2>1. /\ UNCHANGED <<seen, doing, started>> /\ x \in InHand(d) /\ ~doing[d].on
        /\ \A e \in Daemon : e # d => due'[e] = due[e]
        /\ due'[d] = due[d] \ {x} /\ seen[d][x] = Never
        /\ s # x => nextRun'[s] = nextRun[s]
    BY <1>0, <1>2 DEF InitialiseNext, InHand, STypeOK
  <2>2. \A e \in Daemon : s \in InHand(e)' => s \in InHand(e)
    BY <2>1 DEF InHand
  <2>3. CASE s # x
    BY <2>1, <2>2, <2>3, OneHandStays
  <2>4. CASE s = x
    <3>1. \A e \in Daemon : ~(s \in InHand(e)')
      BY <2>1, <2>2, <2>4 DEF InOneHand, InHand
    <3>2. \A e \in Daemon : ~(doing[e].on /\ doing[e].schedule = s)
      BY <2>1, <3>1 DEF InHand
    <3>3. nextRun[s] = -1 /\ RunsEndAt(s, -1)
      BY <2>1, <2>4, <3>2 DEF InOneHand, Never
    <3>4. RunsEndAt(s, nextRun[s])'
      BY <2>1, <3>3, ScheduleAssumption DEF RunsEndAt, Time
    <3> QED
      BY <2>1, <3>1, <3>2, <3>4 DEF InOneHand, RunsEndAt
  <2> QED
    BY <2>3, <2>4
<1>3. ASSUME NEW d \in Daemon, NEW x \in Schedule, Begin(d, x)
      PROVE  InOneHand(s)'
  <2>1. /\ UNCHANGED <<seen, nextRun, started>> /\ ~doing[d].on
        /\ x \in due[d] /\ seen[d][x] # Never
        /\ \A e \in Daemon : e # d => due'[e] = due[e] /\ doing'[e] = doing[e]
        /\ due'[d] = due[d] \ {x}
    BY <1>0, <1>3 DEF Begin, STypeOK
  <2>2. PICK m : doing' = [doing EXCEPT ![d] = Busy(x, m)]
                 /\ m \in {seen[d][x], LastRun(d, x)}
    BY <1>3 DEF Begin
  <2>3. doing'[d].on /\ doing'[d].schedule = x /\ doing'[d].run = m
    BY <1>0, <2>2 DEF STypeOK, Busy
  <2>4. InHand(d)' = InHand(d) /\ \A e \in Daemon : InHand(e)' = InHand(e)
    BY <2>1, <2>3 DEF InHand
  <2>5. CASE s # x
    BY <2>1, <2>3, <2>4, <2>5, OneHandStays
  <2>6. CASE s = x
    <3>1. s \in InHand(d) /\ \A e \in Daemon : s \in InHand(e) => e = d
      BY <2>1, <2>6 DEF InHand, InOneHand
    <3>2. \A e \in Daemon : ~(doing[e].on /\ doing[e].schedule = s)
      BY <2>1, <3>1 DEF InHand
    <3>3. RunsEndAt(s, nextRun[s]) /\ seen[d][s] = nextRun[s]
      BY <3>1, <3>2 DEF InOneHand
    <3>4. seen[d][s] \in Nat /\ m \in Nat /\ seen[d][s] <= m
      BY <1>0, <2>1, <2>2, <2>6, <3>1, LastRunBounds DEF Time
    <3>5. RunsEndAt(s, m)
      BY <3>3, <3>4 DEF RunsEndAt, Time
    <3>6. RunsEndAt(s, doing[d].run)'
      BY <2>1, <2>3, <3>5 DEF RunsEndAt
    <3>7. \A e \in Daemon : doing'[e].on /\ doing'[e].schedule = s => e = d
      BY <2>1, <3>2
    <3> QED
      BY <2>1, <2>3, <2>4, <2>6, <3>6, <3>7 DEF InOneHand
  <2> QED
    BY <2>5, <2>6
<1>4. ASSUME NEW d \in Daemon, EnqueueRun(d) PROVE InOneHand(s)'
  <2> DEFINE x == doing[d].schedule  m == doing[d].run
  <2>1. /\ UNCHANGED <<seen, nextRun, due>> /\ doing[d].on /\ m <= LastRun(d, x)
        /\ \A e \in Daemon : e # d => doing'[e] = doing[e]
        /\ doing'[d] = Busy(x, m + 1)
        /\ started' = [started EXCEPT ![x][m] = IF @ < 2 THEN @ + 1 ELSE @]
    BY <1>0, <1>4 DEF EnqueueRun, STypeOK
  <2>2. x \in InHand(d) /\ m \in Nat /\ seen[d][x] # Never /\ x \in Schedule
    BY <1>0, <2>1 DEF InHand, HandInOrder, STypeOK, Idle, Busy
  <2>3. m \in Time
    <3>1. LastRun(d, x) \in Time
      BY <1>0, <2>2, LastRunBounds
    <3> QED
      BY <2>1, <2>2, <3>1, ScheduleAssumption DEF Time
  <2>4. doing'[d].on /\ doing'[d].schedule = x /\ doing'[d].run = m + 1
    BY <2>1 DEF Busy
  <2>5. \A e \in Daemon : InHand(e)' = InHand(e)
    BY <2>1, <2>4 DEF InHand
  <2>6. CASE s # x
    <3>1. started'[s] = started[s]
      BY <1>0, <2>1, <2>6 DEF STypeOK
    <3> QED
      BY <2>1, <2>4, <2>5, <2>6, <3>1, OneHandStays
  <2>7. CASE s = x
    <3>1. RunsEndAt(s, m)
      BY <2>1, <2>7 DEF InOneHand
    <3>2. started[s][m] = 0 /\ started \in [Schedule -> [Time -> 0..2]]
      BY <1>0, <2>2, <2>3, <3>1 DEF RunsEndAt, STypeOK
    <3>3. started' = [started EXCEPT ![s][m] = 1]
      BY <2>1, <2>7, <3>2
    <3>4. \A n \in Time : started'[s][n] = IF n = m THEN 1 ELSE started[s][n]
      BY <1>0, <2>3, <3>2, <3>3
    <3>5. \A e \in Daemon : doing'[e].on /\ doing'[e].schedule = s => e = d
      BY <2>1, <2>2, <2>7 DEF InOneHand, InHand
    <3> HIDE DEF x, m
    <3>6. \A n \in Time : m + 1 <= n => started'[s][n] = 0
      BY <2>2, <3>1, <3>4 DEF RunsEndAt, Time
    <3>7. \A n \in Time : started'[s][n] < 2
      BY <3>4 DEF InOneHand
    <3>8. RunsEndAt(s, doing[d].run)'
      BY <2>4, <3>6 DEF RunsEndAt
    <3> QED
      BY <2>1, <2>4, <2>5, <2>7, <3>5, <3>7, <3>8 DEF InOneHand
  <2> QED
    BY <2>6, <2>7
<1>5. ASSUME NEW d \in Daemon, MoveNext(d) PROVE InOneHand(s)'
  <2> DEFINE x == doing[d].schedule  m == doing[d].run
  <2>1. /\ UNCHANGED <<seen, started, due>> /\ doing[d].on
        /\ \A e \in Daemon : e # d => doing'[e] = doing[e]
        /\ ~doing'[d].on /\ m > LastRun(d, x)
        /\ nextRun' = [nextRun EXCEPT ![x] = LastRun(d, x) + 1]
    BY <1>0, <1>5 DEF MoveNext, STypeOK, Idle
  <2>2. x \in InHand(d) /\ m \in Nat /\ seen[d][x] # Never /\ x \in Schedule
        /\ x \notin due[d] /\ m <= LastRun(d, x) + 1
    BY <1>0, <2>1 DEF InHand, HandInOrder, STypeOK, Idle, Busy
  <2>3. LastRun(d, x) \in Nat
    BY <1>0, <2>2, LastRunBounds DEF Time
  <2>4. m = LastRun(d, x) + 1
    BY <2>1, <2>2, <2>3
  <2>5. \A e \in Daemon : e # d => InHand(e)' = InHand(e)
    BY <2>1 DEF InHand
  <2>6. InHand(d)' = due[d] /\ due[d] \subseteq InHand(d)
    BY <2>1 DEF InHand
  <2>7. CASE s # x
    <3>1. nextRun'[s] = nextRun[s]
      BY <1>0, <2>1, <2>7 DEF STypeOK
    <3> QED
      BY <2>1, <2>5, <2>6, <2>7, <3>1, OneHandStays
  <2>8. CASE s = x
    <3>1. \A e \in Daemon : s \notin InHand(e)'
      BY <2>2, <2>5, <2>6, <2>8 DEF InOneHand
    <3>2. RunsEndAt(s, m) /\ nextRun'[s] = m
      BY <1>0, <2>1, <2>4, <2>8 DEF InOneHand, STypeOK
    <3>3. RunsEndAt(s, nextRun[s])'
      BY <2>1, <3>2 DEF RunsEndAt
    <3>4. \A e \in Daemon : ~(doing'[e].on /\ doing'[e].schedule = s)
      BY <3>1 DEF InHand
    <3> QED
      BY <2>1, <3>1, <3>3, <3>4 DEF InOneHand
  <2> QED
    BY <2>7, <2>8
<1>6. ASSUME NEW d \in Daemon, EvaluationThrows(d) \/ DaemonEnds(d)
      PROVE  InOneHand(s)'
  <2>1. /\ UNCHANGED <<nextRun, started, seen>>
        /\ \A e \in Daemon : e # d => doing'[e] = doing[e] /\ due'[e] = due[e]
        /\ ~doing'[d].on /\ due'[d] \subseteq due[d]
        /\ ~(doing[d].on /\ doing[d].schedule = s)
    BY <1>0, <1>6
    DEF EvaluationThrows, DaemonEnds, Trouble, InHand, STypeOK, Idle
  <2>2. \A e \in Daemon : s \in InHand(e)' => s \in InHand(e)
    BY <2>1 DEF InHand
  <2> QED
    BY <2>1, <2>2, OneHandStays
<1>7. CASE TimePasses \/ UNCHANGED svars
  BY <1>7, OneHandStays DEF TimePasses, svars, InHand
<1> QED
  BY <1>1, <1>2, <1>3, <1>4, <1>5, <1>6, <1>7 DEF SNext, Evaluate

LEMMA OnceStep == OnceInv /\ [SNext]_svars => OnceInv'
<1> SUFFICES ASSUME OnceInv, [SNext]_svars PROVE OnceInv'
  OBVIOUS
<1>1. SInv'
  BY ScheduleStep DEF OnceInv
<1>2. disturbed \subseteq disturbed'
  BY DEF SNext, Evaluate, SelectDue, InitialiseNext, Begin, EnqueueRun, MoveNext,
     EvaluationThrows, DaemonEnds, Trouble, TimePasses, svars
<1> QED
  BY <1>1, <1>2, OneHandStep DEF OnceInv

\* The schedules' variables have their types, for any number of daemons.
THEOREM ScheduleTypes == SSpec => []STypeOK
<1>1. SInv => STypeOK
  BY DEF SInv
<1> QED
  BY <1>1, ScheduleStart, ScheduleStep, PTL DEF SSpec

\* Every time before next_run_at of a 'catch-up' schedule was enqueued: for any
\* number of daemons on one table, any cap and any number of faults.
THEOREM NoTimePassedOver == SSpec => []NothingPassedOver
<1>1. SInv => NothingPassedOver
  BY DEF SInv, WatermarksCovered, Covered, NothingPassedOver
<1> QED
  BY <1>1, ScheduleStart, ScheduleStep, PTL DEF SSpec

\* A time is enqueued once, for any number of daemons and schedules, as long as
\* no two daemons had the schedule in hand and no fault cut one short.
THEOREM RunsHappenOnce == SSpec => []OnceUnlessDisturbed
<1>1. OnceInv => OnceUnlessDisturbed
  BY DEF OnceInv, InOneHand, OnceUnlessDisturbed
<1> QED
  BY <1>1, OnceStart, OnceStep, PTL DEF SSpec

-----------------------------------------------------------------------------
(* The turns of a voice connection.                                        *)

Unused(n) == turn[n] = "unused"
Flying(n) == turn[n] \in InFlight
Ended(n)  == turn[n] \in {"sent", "dropped"}

\* Turns begin one after the other; only one that began can be interrupted.
TurnsInOrder ==
  /\ \A n, m \in Turns : Unused(n) /\ n < m => Unused(m)
  /\ \A n \in interrupted : ~Unused(n)

\* The flag is set for the turn that began last, on an open connection.
FlagIsLatest ==
  isProcessing =>
    /\ connected
    /\ \E n \in Turns \ interrupted :
         Flying(n) /\ \A m \in Turns : n < m => Unused(m)

\* A barge-in hits every turn in flight: what it did not hit is later.
InterruptedAreEarlier ==
  \A n \in Turns \ interrupted, m \in interrupted : Flying(n) => m < n

\* An earlier turn that was interrupted has ended since, and took the flag.
FlagWasTaken(n) == \E m \in interrupted : m < n /\ Ended(m)

\* A turn in flight that was not interrupted has the flag to itself, or an
\* interrupted one has taken it.
FlagTakenByInterrupted ==
  \A n \in Turns \ interrupted :
    Flying(n) /\ (~isProcessing \/ \E m \in Turns : n < m /\ ~Unused(m)) =>
      FlagWasTaken(n)

DInv ==
  /\ DTypeOK
  /\ TurnsInOrder
  /\ FlagIsLatest
  /\ InterruptedAreEarlier
  /\ FlagTakenByInterrupted

LEMMA DuplexStart == DInit => DInv
  BY DEF DInit, DInv, DTypeOK, InFlight, TurnsInOrder, FlagIsLatest,
     InterruptedAreEarlier, FlagTakenByInterrupted, Unused, Flying

LEMMA DuplexTypeStep == DTypeOK /\ [DNext]_dvars => DTypeOK'
<1> SUFFICES ASSUME DTypeOK, [DNext]_dvars PROVE DTypeOK'
  OBVIOUS
<1> USE DEF DTypeOK, InFlight
<1>1. CASE \E loud \in BOOLEAN : HearSpeech(loud)
  BY <1>1 DEF HearSpeech
<1>2. CASE BargeIn \/ ForgetSpeech \/ StopResponse \/ Disconnect
  BY <1>2 DEF BargeIn, ForgetSpeech, StopResponse, Disconnect, Interrupts
<1>3. ASSUME NEW n \in Turns,
             BeginTurn(n) \/ Transcribed(n) \/ ReplyComes(n) \/ Synthesized(n)
             \/ FindsNoTurn(n) \/ TurnFails(n)
      PROVE  DTypeOK'
  BY <1>3 DEF BeginTurn, Transcribed, ReplyComes, Synthesized, FindsNoTurn,
     TurnFails, Continue, EndTurn
<1>4. CASE UNCHANGED dvars
  BY <1>4 DEF dvars
<1> QED
  BY <1>1, <1>2, <1>3, <1>4 DEF DNext

\* A step of the handler that interrupts nothing, or of a turn that goes on.
LEMMA TurnsStay ==
  ASSUME DInv, UNCHANGED <<connected, isProcessing, interrupted>>,
         \A n \in Turns : turn'[n] = turn[n] \/ (Flying(n) /\ turn'[n] \in InFlight)
  PROVE  TurnsInOrder' /\ FlagIsLatest' /\ InterruptedAreEarlier'
         /\ FlagTakenByInterrupted'
<1>1. \A n \in Turns : /\ Unused(n)' <=> Unused(n)
                       /\ Flying(n)' <=> Flying(n)
                       /\ Ended(n)' <=> Ended(n)
  BY DEF Unused, Flying, Ended, InFlight
<1>2. interrupted \subseteq Turns
  BY DEF DInv, DTypeOK
<1> QED
  BY <1>1, <1>2
  DEF DInv, TurnsInOrder, FlagIsLatest, InterruptedAreEarlier,
      FlagTakenByInterrupted, FlagWasTaken

\* A barge-in, or the end of the connection.
LEMMA InterruptKeeps ==
  ASSUME DInv, UNCHANGED turn, Interrupts, ~isProcessing'
  PROVE  TurnsInOrder' /\ FlagIsLatest' /\ InterruptedAreEarlier'
         /\ FlagTakenByInterrupted'
<1>1. \A n \in Turns \ interrupted' : ~(Flying(n)')
  BY DEF Interrupts, Flying
<1>2. TurnsInOrder'
  BY DEF DInv, TurnsInOrder, Interrupts, Unused, InFlight
<1> QED
  BY <1>1, <1>2 DEF FlagIsLatest, InterruptedAreEarlier, FlagTakenByInterrupted

LEMMA BeginTurnKeeps ==
  ASSUME DInv, NEW n \in Turns, BeginTurn(n)
  PROVE  TurnsInOrder' /\ FlagIsLatest' /\ InterruptedAreEarlier'
         /\ FlagTakenByInterrupted'
<1> USE DuplexAssumption DEF Turns
<1>1. /\ UNCHANGED <<connected, interrupted>> /\ connected /\ isProcessing'
      /\ ~isProcessing /\ Unused(n) /\ \A m \in Turns : m < n => ~Unused(m)
      /\ interrupted \subseteq Turns
  BY DEF BeginTurn, DInv, DTypeOK, Unused
<1>2. /\ Flying(n)' /\ ~Unused(n)'
      /\ \A m \in Turns : m # n => /\ Unused(m)' <=> Unused(m)
                                   /\ Flying(m)' <=> Flying(m)
                                   /\ Ended(m)' <=> Ended(m)
  BY DEF BeginTurn, DInv, DTypeOK, Unused, Flying, Ended, InFlight
<1>3. ~Flying(n) /\ ~Ended(n)
  BY <1>1 DEF Unused, Flying, Ended, InFlight
<1>4. \A m \in Turns : n < m => Unused(m)
  BY <1>1 DEF DInv, TurnsInOrder
<1>5. \A m \in interrupted : m < n /\ m # n
  BY <1>1, <1>4 DEF DInv, TurnsInOrder
<1>6. TurnsInOrder'
  BY <1>1, <1>2, <1>4, <1>5 DEF DInv, TurnsInOrder
<1>7. FlagIsLatest'
  BY <1>1, <1>2, <1>4, <1>5 DEF FlagIsLatest
<1>8. InterruptedAreEarlier'
  BY <1>1, <1>2, <1>5 DEF DInv, InterruptedAreEarlier
<1>9. FlagTakenByInterrupted'
  <2>1. ASSUME NEW m \in Turns \ interrupted, m # n, Flying(m)
        PROVE  FlagWasTaken(m)'
    BY <1>1, <1>2, <1>5, <2>1 DEF DInv, FlagTakenByInterrupted, FlagWasTaken
  <2>2. \A m \in Turns : n < m => Unused(m)'
    BY <1>2, <1>4
  <2> QED
    BY <1>1, <1>2, <2>1, <2>2 DEF FlagTakenByInterrupted
<1> QED
  BY <1>6, <1>7, <1>8, <1>9

LEMMA EndTurnKeeps ==
  ASSUME DInv, NEW n \in Turns, Flying(n), NEW how \in {"sent", "dropped"},
         EndTurn(n, how)
  PROVE  TurnsInOrder' /\ FlagIsLatest' /\ InterruptedAreEarlier'
         /\ FlagTakenByInterrupted'
<1> USE DuplexAssumption DEF Turns
<1>1. UNCHANGED <<connected, interrupted>> /\ ~isProcessing'
      /\ interrupted \subseteq Turns
  BY DEF EndTurn, DInv, DTypeOK
<1>2. /\ Ended(n)' /\ ~Unused(n)' /\ ~Flying(n)'
      /\ \A m \in Turns : m # n => /\ Unused(m)' <=> Unused(m)
                                   /\ Flying(m)' <=> Flying(m)
                                   /\ Ended(m)' <=> Ended(m)
  BY DEF EndTurn, DInv, DTypeOK, Unused, Flying, Ended, InFlight
<1>3. ~Unused(n) /\ ~Ended(n)
  BY DEF Unused, Flying, Ended, InFlight
<1>4. TurnsInOrder'
  BY <1>1, <1>2, <1>3 DEF DInv, TurnsInOrder
<1>5. InterruptedAreEarlier'
  BY <1>1, <1>2 DEF DInv, InterruptedAreEarlier
<1>6. ASSUME NEW m \in Turns \ interrupted, m # n, Flying(m)
      PROVE  FlagWasTaken(m)'
  <2>0. ~Unused(m)
    BY <1>6 DEF Unused, Flying, InFlight
  <2>1. CASE n \in interrupted
    <3>1. n < m
      BY <1>6, <2>1 DEF DInv, InterruptedAreEarlier
    <3> QED
      BY <1>1, <1>2, <2>1, <3>1 DEF FlagWasTaken
  <2>2. CASE n \notin interrupted
    <3>1. CASE m < n
      <4>1. FlagWasTaken(m)
        BY <1>3, <1>6, <3>1 DEF DInv, FlagTakenByInterrupted
      <4> QED
        BY <1>1, <1>2, <1>3, <2>2, <4>1 DEF FlagWasTaken
    <3>2. CASE n < m
      <4>1. FlagWasTaken(n)
        BY <2>0, <2>2, <3>2 DEF DInv, FlagTakenByInterrupted
      <4>2. PICK k \in interrupted : k < n /\ Ended(k)
        BY <4>1 DEF FlagWasTaken
      <4>3. k < m /\ k # n /\ k \in Turns
        BY <1>1, <2>2, <3>2, <4>2
      <4> QED
        BY <1>1, <1>2, <4>2, <4>3 DEF FlagWasTaken
    <3> QED
      BY <1>6, <3>1, <3>2
  <2> QED
    BY <2>1, <2>2
<1>7. FlagTakenByInterrupted'
  BY <1>1, <1>2, <1>6 DEF FlagTakenByInterrupted
<1> QED
  BY <1>1, <1>4, <1>5, <1>7 DEF FlagIsLatest

LEMMA DuplexStep == DInv /\ [DNext]_dvars => DInv'
<1> SUFFICES ASSUME DInv, [DNext]_dvars PROVE DInv'
  OBVIOUS
<1>0. DTypeOK' /\ DTypeOK
  BY DuplexTypeStep DEF DInv
<1> SUFFICES TurnsInOrder' /\ FlagIsLatest' /\ InterruptedAreEarlier'
             /\ FlagTakenByInterrupted'
  BY <1>0 DEF DInv
<1>1. CASE (\E loud \in BOOLEAN : HearSpeech(loud)) \/ ForgetSpeech
           \/ StopResponse \/ UNCHANGED dvars
  BY <1>1, TurnsStay DEF HearSpeech, ForgetSpeech, StopResponse, dvars
<1>2. CASE BargeIn \/ Disconnect
  BY <1>2, InterruptKeeps DEF BargeIn, Disconnect
<1>3. ASSUME NEW n \in Turns, BeginTurn(n)
      PROVE  TurnsInOrder' /\ FlagIsLatest' /\ InterruptedAreEarlier'
             /\ FlagTakenByInterrupted'
  BY <1>3, BeginTurnKeeps
<1>4. ASSUME NEW n \in Turns, Transcribed(n) \/ ReplyComes(n)
      PROVE  TurnsInOrder' /\ FlagIsLatest' /\ InterruptedAreEarlier'
             /\ FlagTakenByInterrupted'
  <2>1. \A m \in Turns : turn'[m] = turn[m] \/ (Flying(m) /\ turn'[m] \in InFlight)
    BY <1>0, <1>4
    DEF Transcribed, ReplyComes, Continue, Flying, InFlight, DTypeOK
  <2> QED
    BY <1>4, <2>1, TurnsStay DEF Transcribed, ReplyComes, Continue
<1>5. ASSUME NEW n \in Turns, Synthesized(n) \/ FindsNoTurn(n) \/ TurnFails(n)
      PROVE  TurnsInOrder' /\ FlagIsLatest' /\ InterruptedAreEarlier'
             /\ FlagTakenByInterrupted'
  BY <1>5, EndTurnKeeps DEF Synthesized, FindsNoTurn, TurnFails, Flying, InFlight
<1> QED
  BY <1>1, <1>2, <1>3, <1>4, <1>5 DEF DNext

\* The turn whose reply is sent, and the turn that finds the flag cleared.
LEMMA ReplyStep ==
  ASSUME DInv, [DNext]_dvars, NEW n \in Turns
  PROVE  /\ turn[n] # "sent" /\ turn'[n] = "sent" =>
              /\ connected
              /\ n \in interrupted => \E m \in Turns : m > n /\ turn[m] \in InFlight
         /\ FindsNoTurn(n) /\ n \notin interrupted =>
              \E m \in interrupted : m < n /\ turn[m] \in {"sent", "dropped"}
<1> USE DuplexAssumption DEF Turns
<1>1. ASSUME turn[n] # "sent", turn'[n] = "sent"
      PROVE  Flying(n) /\ isProcessing
  BY <1>1
  DEF DInv, DTypeOK, DNext, HearSpeech, BargeIn, ForgetSpeech, StopResponse,
      Disconnect, BeginTurn, Transcribed, ReplyComes, Synthesized, FindsNoTurn,
      TurnFails, Continue, EndTurn, Flying, InFlight, dvars
<1>2. ASSUME Flying(n), isProcessing
      PROVE  connected /\ (n \in interrupted =>
               \E m \in Turns : m > n /\ turn[m] \in InFlight)
  <2>1. connected
    BY <1>2 DEF DInv, FlagIsLatest
  <2>2. PICK m \in Turns \ interrupted :
          Flying(m) /\ \A k \in Turns : m < k => Unused(k)
    BY <1>2 DEF DInv, FlagIsLatest
  <2>3. ~(m < n)
    BY <1>2, <2>2 DEF Flying, Unused, InFlight
  <2>4. n \in interrupted => m > n
    BY <2>2, <2>3
  <2> QED
    BY <2>1, <2>2, <2>4 DEF Flying
<1>3. ASSUME FindsNoTurn(n), n \notin interrupted
      PROVE  \E m \in interrupted : m < n /\ turn[m] \in {"sent", "dropped"}
  BY <1>3 DEF FindsNoTurn, DInv, FlagTakenByInterrupted, FlagWasTaken, Flying,
     Ended, InFlight
<1> QED
  BY <1>1, <1>2, <1>3

\* The voice connection's variables have their types, for any number of turns.
THEOREM DuplexTypes == DSpec => []DTypeOK
<1>1. DInv => DTypeOK
  BY DEF DInv
<1> QED
  BY <1>1, DuplexStart, DuplexStep, PTL DEF DSpec

\* A reply goes to an open connection and, if its turn was interrupted, only
\* under the flag of a later one; a turn loses its own flag only to an earlier
\* one that was interrupted: for any number of turns and interruptions.
THEOREM WantedReplies == DSpec => RepliesAreWanted
<1>1. DInv /\ [DNext]_dvars =>
        [\A n \in Turns :
           /\ turn[n] # "sent" /\ turn'[n] = "sent" =>
                /\ connected
                /\ n \in interrupted => \E m \in Turns : m > n /\ turn[m] \in InFlight
           /\ FindsNoTurn(n) /\ n \notin interrupted =>
                \E m \in interrupted : m < n /\ turn[m] \in {"sent", "dropped"}]_dvars
  BY ReplyStep
<1> QED
  BY <1>1, DuplexStart, DuplexStep, PTL DEF DSpec, RepliesAreWanted

-----------------------------------------------------------------------------
(* The voice loop.                                                         *)

\* A process is referred to and killed as a detector or a synthesis: no close of
\* a transcription finds its slot among the killed.
OnlyEarsAndVoicesDie == dying \cap Children("stt") = {}

VInv == VTypeOK /\ OnlyEarsAndVoicesDie

LEMMA VoiceStart == VInit => VInv
<1> SUFFICES ASSUME VInit PROVE VInv
  OBVIOUS
<1>1. 1 \in Procs /\ 0 \in 0..MaxReplies
  BY VoiceAssumption DEF Procs
<1>2. child \in [Procs -> {"none", "wake", "stt", "tts"}] /\ child[1] = "wake"
  BY <1>1 DEF VInit
<1>3. wakeWordProcess \in Children("wake") \cup {NoProc}
  BY <1>1, <1>2 DEF VInit, Children
<1> QED
  BY <1>1, <1>2, <1>3 DEF VInit, VInv, VTypeOK, OnlyEarsAndVoicesDie

\* A slot is not a child that is referred to or killed.
LEMMA RefsAreChildren ==
  ASSUME VInv
  PROVE  /\ NoProc \notin Procs
         /\ wakeWordProcess # NoProc =>
              wakeWordProcess \in Procs /\ child[wakeWordProcess] = "wake"
         /\ ttsProcess # NoProc =>
              ttsProcess \in Procs /\ child[ttsProcess] = "tts"
         /\ \A q \in dying : q \in Procs /\ child[q] \in {"wake", "tts"}
  BY DEF VInv, VTypeOK, OnlyEarsAndVoicesDie, Children, Procs, NoProc

\* A step at one slot p: the kinds of the others stay.
LEMMA SlotKeepsType ==
  ASSUME VInv, NEW p \in Procs, NEW kind \in {"none", "wake", "stt", "tts"},
         child' = [child EXCEPT ![p] = kind],
         \/ wakeWordProcess' = NoProc
         \/ wakeWordProcess' = wakeWordProcess /\ (wakeWordProcess = p => kind = "wake")
         \/ wakeWordProcess' = p /\ kind = "wake",
         \/ ttsProcess' = NoProc
         \/ ttsProcess' = ttsProcess /\ (ttsProcess = p => kind = "tts")
         \/ ttsProcess' = p /\ kind = "tts",
         dying' \subseteq dying \cup ({wakeWordProcess, ttsProcess} \ {NoProc}),
         kind \in {"none", "stt"} => p \notin dying',
         activeEngine' \in {"configured", "openwakeword"},
         isListeningForCommand' \in BOOLEAN, replies' \in 0..MaxReplies,
         failed' \in BOOLEAN, stopped' \in BOOLEAN
  PROVE  VInv'
<1>1. \A q \in Procs : child'[q] = IF q = p THEN kind ELSE child[q]
  BY DEF VInv, VTypeOK
<1>2. child' \in [Procs -> {"none", "wake", "stt", "tts"}]
  BY DEF VInv, VTypeOK
<1>3. wakeWordProcess' \in Children("wake")' \cup {NoProc}
  BY <1>1, RefsAreChildren DEF Children
<1>4. ttsProcess' \in Children("tts")' \cup {NoProc}
  BY <1>1, RefsAreChildren DEF Children
<1>5. \A q \in dying' : q \in Procs /\ child'[q] \in {"wake", "tts"}
  BY <1>1, RefsAreChildren
<1>6. dying' \subseteq Procs \ Children("none")' /\ OnlyEarsAndVoicesDie'
  BY <1>5 DEF Children, OnlyEarsAndVoicesDie
<1> QED
  BY <1>2, <1>3, <1>4, <1>6 DEF VInv, VTypeOK

LEMMA VoiceStep == VInv /\ [VNext]_vvars => VInv'
<1> SUFFICES ASSUME VInv, [VNext]_vvars PROVE VInv'
  OBVIOUS
<1>0. /\ \A q \in Procs : q # NoProc
      /\ wakeWordProcess # NoProc => child[wakeWordProcess] = "wake"
      /\ ttsProcess # NoProc => child[ttsProcess] = "tts"
      /\ \A q \in dying : child[q] \in {"wake", "tts"}
      /\ activeEngine \in {"configured", "openwakeword"}
      /\ isListeningForCommand \in BOOLEAN /\ replies \in 0..MaxReplies
      /\ failed \in BOOLEAN /\ stopped \in BOOLEAN
  BY RefsAreChildren DEF VInv, VTypeOK
<1>1. ASSUME NEW p \in Procs, WakeWordDetected(p) PROVE VInv'
  <2>1. PICK q \in Procs : child[q] = "none" /\ Spawn(q, "stt")
    BY <1>1 DEF WakeWordDetected, Slot
  <2> QED
    BY <1>0, <1>1, <2>1, SlotKeepsType DEF WakeWordDetected, Spawn
<1>2. ASSUME NEW p \in Procs, WakeCloses(p) PROVE VInv'
  <2>1. p # ttsProcess
    BY <1>0, <1>2 DEF WakeCloses
  <2> QED
    BY <1>0, <1>2, <2>1, SlotKeepsType DEF WakeCloses, Spawn, Gone
<1>3. ASSUME NEW p \in Procs, WakeFails(p) PROVE VInv'
  <2>1. p # ttsProcess
    BY <1>0, <1>3 DEF WakeFails
  <2> QED
    BY <1>0, <1>3, <2>1, SlotKeepsType DEF WakeFails, Spawn
<1>4. ASSUME NEW p \in Procs, SttEnds(p) PROVE VInv'
  <2>1. child[p] = "stt"
    BY <1>4 DEF SttEnds, HearsStop, HearsNothing, HearsUnclearly, HearsCommand,
       HeardInVain, Heard
  <2>2. p # wakeWordProcess /\ p # ttsProcess /\ p \notin dying /\ p # NoProc
    BY <1>0, <2>1
  <2>3. CASE HearsStop(p)
    BY <1>0, <2>2, <2>3, SlotKeepsType DEF HearsStop, StartListening, Kill, Spawn
  <2>4. CASE HearsNothing(p) \/ HeardInVain(p)
    BY <1>0, <2>2, <2>4, SlotKeepsType DEF HearsNothing, HeardInVain, Spawn
  <2>5. CASE HearsUnclearly(p)
    BY <1>0, <2>2, <2>5, SlotKeepsType DEF HearsUnclearly, Kill, Speak, Spawn
  <2>6. CASE HearsCommand(p)
    <3>1. replies' \in 0..MaxReplies
      BY <1>0, <2>6, VoiceAssumption DEF HearsCommand
    <3> QED
      BY <1>0, <2>2, <2>6, <3>1, SlotKeepsType DEF HearsCommand, Spawn
  <2> QED
    BY <1>4, <2>3, <2>4, <2>5, <2>6 DEF SttEnds
<1>5. ASSUME NEW p \in Procs, SpeakEnds(p) PROVE VInv'
  <2>1. p # wakeWordProcess /\ p # NoProc /\ p \notin dying'
        /\ dying' \subseteq dying /\ ttsProcess' = NoProc
    BY <1>0, <1>5 DEF SpeakEnds, Gone
  <2>2. CASE isListeningForCommand
    BY <1>0, <1>5, <2>1, <2>2, SlotKeepsType DEF SpeakEnds, Spawn
  <2>3. CASE ~isListeningForCommand
    BY <1>0, <1>5, <2>1, <2>3, SlotKeepsType DEF SpeakEnds, StartListening, Spawn
  <2> QED
    BY <2>2, <2>3
<1>6. CASE Respond \/ Remind
  <2>1. PICK p \in Procs : child[p] = "none" /\ Speak(p)
    BY <1>6 DEF Respond, Remind, Slot
  <2>2. p # wakeWordProcess /\ p # NoProc
    BY <1>0, <2>1
  <2>3. replies' \in 0..MaxReplies
    BY <1>0, <1>6, VoiceAssumption DEF Respond, Remind
  <2> QED
    BY <1>0, <1>6, <2>1, <2>2, <2>3, SlotKeepsType
    DEF Respond, Remind, Kill, Speak, Spawn
<1>7. CASE StopProgram
  <2>1. child' \in [Procs -> {"none", "wake", "stt", "tts"}]
    BY <1>7 DEF StopProgram
  <2>2. 0 \in 0..MaxReplies
    BY VoiceAssumption
  <2> QED
    BY <1>0, <1>7, <2>1, <2>2 DEF StopProgram, VInv, VTypeOK, OnlyEarsAndVoicesDie
<1>8. CASE UNCHANGED vvars
  BY <1>8 DEF vvars, VInv, VTypeOK, OnlyEarsAndVoicesDie, Children
<1> QED
  BY <1>1, <1>2, <1>3, <1>4, <1>5, <1>6, <1>7, <1>8 DEF VNext

\* The engine's references are to running children of their kind, and what was
\* killed is a detector or a synthesis: for any number of child processes.
THEOREM VoiceTypes == VSpec => []VTypeOK
<1>1. VInv => VTypeOK
  BY DEF VInv
<1> QED
  BY <1>1, VoiceStart, VoiceStep, PTL DEF VSpec

-----------------------------------------------------------------------------
(* The services together.                                                  *)

\* A service that is not the one chosen stands still.
LEMMA ServicesStart ==
  ServicesInit => /\ MInit /\ KInit /\ GInit /\ SInit
                  /\ WInit /\ BInit /\ DInit /\ VInit
  BY DEF ServicesInit

LEMMA ServicesStep ==
  [ServicesNext]_allvars =>
    /\ [MNext]_mvars /\ [KNext]_kvars /\ [GNext]_gvars /\ [SNext]_svars
    /\ [WNext]_wvars /\ [BNext]_bvars /\ [DNext]_dvars /\ [VNext]_vvars
<1> SUFFICES ASSUME [ServicesNext]_allvars
             PROVE  /\ [MNext]_mvars /\ [KNext]_kvars /\ [GNext]_gvars /\ [SNext]_svars
                    /\ [WNext]_wvars /\ [BNext]_bvars /\ [DNext]_dvars /\ [VNext]_vvars
  OBVIOUS
<1>1. CASE UNCHANGED allvars
  BY <1>1 DEF allvars
<1>2. CASE ServicesNext
  BY <1>2 DEF ServicesNext
<1> QED
  BY <1>1, <1>2

\* Whichever service runs, it runs by its own specification, and the others
\* take no step of theirs: what each of them promises it promises here.
THEOREM EachOnItsOwn ==
  ServicesSpec =>
    /\ MSpec /\ KSpec /\ GSpec /\ WSpec /\ BSpec /\ DSpec
    /\ SInit /\ [][SNext]_svars
    /\ VInit /\ [][VNext]_vvars
  BY ServicesStart, ServicesStep, PTL
  DEF ServicesSpec, MSpec, KSpec, GSpec, WSpec, BSpec, DSpec

\* The variables of all the services keep their types, for every value of the
\* constants: any number of entries, calls, schedules, daemons, workspaces,
\* tasks, browsers and turns.
THEOREM ServicesTyped == ServicesSpec => []ServicesTypeOK
<1>1. SInit /\ [][SNext]_svars => []STypeOK
  <2>1. SInv => STypeOK
    BY DEF SInv
  <2> QED
    BY <2>1, ScheduleStart, ScheduleStep, PTL
<1>2. VInit /\ [][VNext]_vvars => []VTypeOK
  <2>1. VInv => VTypeOK
    BY DEF VInv
  <2> QED
    BY <2>1, VoiceStart, VoiceStep, PTL
<1>3. MTypeOK /\ KTypeOK /\ GTypeOK /\ STypeOK /\ WTypeOK /\ BTypeOK /\ DTypeOK
        /\ VTypeOK => ServicesTypeOK
  BY DEF ServicesTypeOK
<1> QED
  BY <1>1, <1>2, <1>3, EachOnItsOwn, MemoryTypes, IndexTypes, CallTypes,
     TablesTyped, BrowserTypes, DuplexTypes, PTL

\* What the run of the services checks together: memories are found and within
\* their limit, the tree answers as the scan does, the audit log tells what
\* happened, searches are rationed, no due run is passed over or happens twice
\* undisturbed, tasks refer to workspaces that exist and browsers can be closed.
THEOREM ServicesAreSafe ==
  ServicesSpec =>
    [](/\ FindableUnlessCut /\ WithinLimit /\ IndexIsExact
       /\ AuditExplainsDisk /\ SearchesBounded
       /\ NothingPassedOver /\ OnceUnlessDisturbed
       /\ DanglingOnlyByRace /\ NoBrowserLost)
<1>1. SInit /\ [][SNext]_svars => []NothingPassedOver /\ []OnceUnlessDisturbed
  <2>1. OnceInv => NothingPassedOver /\ OnceUnlessDisturbed
    BY DEF OnceInv, SInv, WatermarksCovered, Covered, NothingPassedOver,
           OnceUnlessDisturbed, InOneHand
  <2> QED
    BY <2>1, OnceStart, OnceStep, PTL
<1> QED
  BY <1>1, EachOnItsOwn, MemoriesFindable, MemoriesWithinLimit, TreeSearchIsExact,
     AuditIsTrue, RationHolds, ReferencesHold, NoBrowserIsLost, PTL
=============================================================================
