------------------------------ MODULE StoresProofs ----------------------------
(***************************************************************************)
(* What several handlers or processes share and change between each        *)
(* other's statements: the references between tasks and workspaces, the    *)
(* Map of browser sessions, and the vectors and rows of the memories.      *)
(***************************************************************************)
EXTENDS Workspaces, BrowserSessions, MemoryStore, TLAPS, SequenceTheorems,
        FiniteSetTheorems

-----------------------------------------------------------------------------
(* Tasks and workspaces.                                                   *)

Live(t)    == task[t] = "live"
Reading(t) == task[t] = "reading"

\* A removal under way has a workspace.
RemovalHasWorkspace == removeAt # "idle" => removing \in Workspace

\* An enqueue that has read and not yet written while a removal goes on.
ReadersAreRaced ==
  removeAt # "idle" => \A t \in WTask : Reading(t) => t \in raced

\* What an undisturbed enqueue has read still exists.
ReadsAreValid ==
  \A t \in WTask :
    Reading(t) /\ t \notin raced => held[t] \in registered \cup {Nowhere}

\* A removal that is past its check, and past --force, has no task left.
RemovalIsClear ==
  removeAt \in {"clear", "unset", "delete"} =>
    \A t \in WTask : Live(t) /\ tag[t] = removing => t \in raced

WInv ==
  /\ WTypeOK
  /\ DanglingOnlyByRace
  /\ RemovalHasWorkspace
  /\ ReadersAreRaced
  /\ ReadsAreValid
  /\ RemovalIsClear

-----------------------------------------------------------------------------
LEMMA WorkspaceTypes == WInit => WTypeOK
  BY DEF WInit, WTypeOK, Maybe

LEMMA WorkspaceStart == WInit => WInv
  <1> SUFFICES ASSUME WInit PROVE WInv
    OBVIOUS
  <1>1. WTypeOK
    BY WorkspaceTypes
  <1> QED
    BY <1>1 DEF WInit, WInv, DanglingOnlyByRace, RemovalHasWorkspace,
       ReadersAreRaced, ReadsAreValid, RemovalIsClear, Live, Reading

LEMMA WorkspaceTypeStep == WTypeOK /\ [WNext]_wvars => WTypeOK'
  <1> SUFFICES ASSUME WTypeOK, [WNext]_wvars PROVE WTypeOK'
    OBVIOUS
  <1> USE DEF WTypeOK, Maybe
  <1>1. ASSUME NEW w \in Workspace, CreateWorkspace(w) PROVE WTypeOK'
    BY <1>1 DEF CreateWorkspace
  <1>2. ASSUME NEW w \in Workspace, BeginSwitch(w) PROVE WTypeOK'
    BY <1>2 DEF BeginSwitch
  <1>3. ASSUME NEW w \in Workspace, NEW f \in BOOLEAN, BeginRemove(w, f)
        PROVE WTypeOK'
    BY <1>3 DEF BeginRemove
  <1>4. CASE EndSwitch
    BY <1>4 DEF EndSwitch
  <1>5. CASE CheckTasks
    BY <1>5 DEF CheckTasks, Abandon
  <1>6. CASE OrphanTasks
    BY <1>6 DEF OrphanTasks
  <1>7. CASE CheckActive \/ ClearActive
    BY <1>7 DEF CheckActive, ClearActive
  <1>8. CASE DeleteWorkspace
    BY <1>8 DEF DeleteWorkspace, Abandon
  <1>9. CASE RemoveEnds
    BY <1>9 DEF RemoveEnds, Abandon
  <1>10. ASSUME NEW t \in WTask, EnqueueReads(t) PROVE WTypeOK'
    BY <1>10 DEF EnqueueReads
  <1>11. ASSUME NEW t \in WTask, EnqueueInserts(t) PROVE WTypeOK'
    BY <1>11 DEF EnqueueInserts
  <1>12. ASSUME NEW t \in WTask, TaskEnds(t) PROVE WTypeOK'
    BY <1>12 DEF TaskEnds
  <1>13. CASE UNCHANGED wvars
    BY <1>13 DEF wvars
  <1> QED
    BY <1>1, <1>2, <1>3, <1>4, <1>5, <1>6, <1>7, <1>8, <1>9, <1>10, <1>11,
       <1>12, <1>13 DEF WNext

LEMMA WorkspaceStep == WInv /\ [WNext]_wvars => WInv'
  <1> SUFFICES ASSUME WInv, [WNext]_wvars PROVE WInv'
    OBVIOUS
  <1>0. WTypeOK'
    BY WorkspaceTypeStep DEF WInv
  <1> DEFINE Rest == /\ DanglingOnlyByRace /\ RemovalHasWorkspace
                     /\ ReadersAreRaced /\ ReadsAreValid /\ RemovalIsClear
  <1> USE WorkspaceAssumption, <1>0 DEF WInv, WTypeOK, Maybe,
      DanglingOnlyByRace, RemovalHasWorkspace, ReadersAreRaced, ReadsAreValid,
      RemovalIsClear, Live, Reading
  <1>1. ASSUME NEW w \in Workspace, CreateWorkspace(w) PROVE Rest'
    BY <1>1 DEF CreateWorkspace
  <1>2. ASSUME NEW w \in Workspace, BeginSwitch(w) PROVE Rest'
    BY <1>2 DEF BeginSwitch
  <1>3. ASSUME NEW w \in Workspace, NEW f \in BOOLEAN, BeginRemove(w, f)
        PROVE Rest'
    BY <1>3 DEF BeginRemove
  <1>4. CASE EndSwitch
    BY <1>4 DEF EndSwitch
  \* Without --force the check has found no live task of the workspace.
  <1>5. CASE CheckTasks
    BY <1>5 DEF CheckTasks, Abandon
  \* With it, the tasks it would have found now belong to nobody.
  <1>6. CASE OrphanTasks
    BY <1>6 DEF OrphanTasks
  <1>7. CASE CheckActive \/ ClearActive
    BY <1>7 DEF CheckActive, ClearActive
  \* Whoever loses the workspace here was enqueued during the removal.
  <1>8. CASE DeleteWorkspace
    BY <1>8 DEF DeleteWorkspace, Abandon
  <1>9. CASE RemoveEnds
    BY <1>9 DEF RemoveEnds, Abandon
  <1>10. ASSUME NEW t \in WTask, EnqueueReads(t) PROVE Rest'
    BY <1>10 DEF EnqueueReads
  <1>11. ASSUME NEW t \in WTask, EnqueueInserts(t) PROVE Rest'
    BY <1>11 DEF EnqueueInserts
  <1>12. ASSUME NEW t \in WTask, TaskEnds(t) PROVE Rest'
    BY <1>12 DEF TaskEnds
  <1>13. CASE UNCHANGED wvars
    BY <1>13 DEF wvars
  <1> QED
    BY <1>1, <1>2, <1>3, <1>4, <1>5, <1>6, <1>7, <1>8, <1>9, <1>10, <1>11,
       <1>12, <1>13 DEF WNext

-----------------------------------------------------------------------------
\* A task that is to be run refers to a workspace that exists, however many
\* there are, unless its enqueue overlapped a removal (WorkspaceManager.remove
\* against enqueue); the active workspace always exists.
THEOREM ReferencesHold == WSpec => []DanglingOnlyByRace
  <1>1. WInv => DanglingOnlyByRace
    BY DEF WInv
  <1> QED
    BY WorkspaceStart, WorkspaceStep, <1>1, PTL DEF WSpec

\* The tables of tasks and workspaces keep their types, for any number of each
\* (WorkspaceManager's and the queue's statements).
THEOREM TablesTyped == WSpec => []WTypeOK
  <1>1. WInv => WTypeOK
    BY DEF WInv
  <1> QED
    BY WorkspaceStart, WorkspaceStep, <1>1, PTL DEF WSpec

-----------------------------------------------------------------------------
(* Sequences.                                                              *)

\* What is left when one element is taken out.
LEMMA RemoveAtProperties ==
  ASSUME NEW S, NEW s \in Seq(S), NEW i \in 1..Len(s)
  PROVE  /\ RemoveAt(s, i) \in Seq(S)
         /\ Len(RemoveAt(s, i)) = Len(s) - 1
         /\ \A j \in 1..Len(s) - 1 :
              RemoveAt(s, i)[j] = IF j < i THEN s[j] ELSE s[j + 1]
<1>0. Len(s) \in Nat /\ i \in Nat /\ \A j \in 1..Len(s) : s[j] \in S
  BY ElementOfSeq, LenProperties
<1>1. /\ SubSeq(s, 1, i - 1) \in Seq(S) /\ Len(SubSeq(s, 1, i - 1)) = i - 1
      /\ \A j \in 1..i - 1 : SubSeq(s, 1, i - 1)[j] = s[j]
  BY <1>0, SubSeqProperties
<1>2. /\ SubSeq(s, i + 1, Len(s)) \in Seq(S)
      /\ Len(SubSeq(s, i + 1, Len(s))) = Len(s) - i
      /\ \A j \in 1..Len(s) - i : SubSeq(s, i + 1, Len(s))[j] = s[i + j]
  BY <1>0, SubSeqProperties
<1>3. PICK a \in Seq(S), b \in Seq(S) :
        a = SubSeq(s, 1, i - 1) /\ b = SubSeq(s, i + 1, Len(s))
  BY <1>1, <1>2
<1>4. /\ RemoveAt(s, i) = a \o b
      /\ Len(a) = i - 1 /\ Len(b) = Len(s) - i
      /\ \A j \in 1..i - 1 : a[j] = s[j]
      /\ \A j \in 1..Len(s) - i : b[j] = s[i + j]
  BY <1>1, <1>2, <1>3 DEF RemoveAt
<1>5. /\ a \o b \in Seq(S) /\ Len(a \o b) = Len(a) + Len(b)
      /\ \A j \in 1..Len(a) + Len(b) :
           (a \o b)[j] = IF j <= Len(a) THEN a[j] ELSE b[j - Len(a)]
  BY ConcatProperties
<1>6. Len(a) + Len(b) = Len(s) - 1
  BY <1>0, <1>4
<1>7. ASSUME NEW j \in 1..Len(s) - 1
      PROVE  (a \o b)[j] = IF j < i THEN s[j] ELSE s[j + 1]
  <2>1. CASE j < i
    <3>1. j \in 1..i - 1 /\ j <= Len(a)
      BY <1>0, <1>4, <2>1
    <3> QED
      BY <1>4, <1>5, <1>6, <2>1, <3>1
  <2>2. CASE ~(j < i)
    <3>1. /\ ~(j <= Len(a)) /\ j - Len(a) \in 1..Len(s) - i
          /\ i + (j - Len(a)) = j + 1
      BY <1>0, <1>4, <2>2
    <3>2. b[j - Len(a)] = s[j + 1]
      BY <1>4, <3>1
    <3> QED
      BY <1>5, <1>6, <2>2, <3>1, <3>2
  <2> QED
    BY <2>1, <2>2
<1> QED
  BY <1>4, <1>5, <1>6, <1>7

\* Elements keep their place or move up by one, and none is gained.
LEMMA RemoveAtKeeps ==
  ASSUME NEW S, NEW s \in Seq(S), NEW i \in 1..Len(s)
  PROVE  LET r == RemoveAt(s, i) IN
         /\ r \in Seq(S) /\ Len(r) = Len(s) - 1
         /\ \A j \in 1..Len(r) : \E k \in 1..Len(s) :
              r[j] = s[k] /\ k # i /\ j <= k
         /\ \A j \in 1..Len(s) : j # i => \E k \in 1..Len(r) : r[k] = s[j]
         /\ (\A j, k \in 1..Len(s) : s[j] = s[k] => j = k) =>
              \A j, k \in 1..Len(r) : r[j] = r[k] => j = k
<1> DEFINE r == RemoveAt(s, i)
<1>0. /\ r \in Seq(S) /\ Len(r) = Len(s) - 1 /\ Len(s) \in Nat
      /\ \A j \in 1..Len(s) - 1 : r[j] = IF j < i THEN s[j] ELSE s[j + 1]
  BY RemoveAtProperties, LenProperties
<1> HIDE DEF r
<1>1. ASSUME NEW j \in 1..Len(r)
      PROVE  \E k \in 1..Len(s) : r[j] = s[k] /\ k # i /\ j <= k
  <2>1. CASE j < i
    BY <1>0, <2>1
  <2>2. CASE ~(j < i)
    <3>1. j + 1 \in 1..Len(s) /\ j + 1 # i /\ j <= j + 1 /\ r[j] = s[j + 1]
      BY <1>0, <2>2
    <3> QED
      BY <3>1
  <2> QED
    BY <2>1, <2>2
<1>2. ASSUME NEW j \in 1..Len(s), j # i PROVE \E k \in 1..Len(r) : r[k] = s[j]
  <2>1. CASE j < i
    BY <1>0, <2>1
  <2>2. CASE j > i
    <3>1. j - 1 \in 1..Len(r) /\ ~(j - 1 < i) /\ (j - 1) + 1 = j
      BY <1>0, <2>2
    <3>2. r[j - 1] = s[j]
      BY <1>0, <3>1
    <3> QED
      BY <3>1, <3>2
  <2> QED
    BY <1>0, <1>2, <2>1, <2>2
<1>3. ASSUME \A j, k \in 1..Len(s) : s[j] = s[k] => j = k,
             NEW j \in 1..Len(r), NEW k \in 1..Len(r), r[j] = r[k]
      PROVE  j = k
  BY <1>0, <1>3
<1> QED
  BY <1>0, <1>1, <1>2, <1>3 DEF r

-----------------------------------------------------------------------------
(* Browser sessions.                                                       *)

Keyed(s) == \A i, j \in DOMAIN s : s[i].key = s[j].key => i = j

Known(b) == \E i \in DOMAIN sessions : sessions[i].browser = b

\* A task opens one browser at a time, and has no session meanwhile.
OpensOne ==
  \A t \in BTask :
    /\ run[t] = "launching" => opening[t] # NoBrowser /\ SessionsOf(t) = {}
    /\ run[t] # "launching" => opening[t] = NoBrowser

\* What is referred to was launched.
WasLaunched ==
  /\ \A t \in BTask : opening[t] <= launched
  /\ \A i \in DOMAIN sessions : sessions[i].browser <= launched
  /\ \A c \in Sweep : \A b \in swept[c] : b <= launched

\* The browsers a sweep has been at are closed, but for the one it awaits.
SweptAreClosed ==
  \A c \in Sweep : \A b \in swept[c] : b \notin alive \/ sweepAt[c] = b

\* While no close and no sweep met at a browser, who closes one finds its
\* session, and no sweep has been there.
ClosersFindIt ==
  \A t \in BTask, b \in Browsers : <<t, b>> \in closing =>
    /\ \E i \in SessionsOf(t) : sessions[i].browser = b
    /\ \A c \in Sweep : b \notin swept[c]

\* Then no session is lost before its browser ends.
SessionsAreKept ==
  \A b \in alive \ abandoned : Known(b) \/ \E t \in BTask : opening[t] = b

BInv ==
  /\ BTypeOK
  /\ OpensOne
  /\ WasLaunched
  /\ SweptAreClosed
  /\ crossed = {} => ClosersFindIt /\ SessionsAreKept

LEMMA BrowserStart == BInit => BInv
<1> SUFFICES ASSUME BInit PROVE BInv
  OBVIOUS
<1>1. <<>> \in Seq(Session) /\ DOMAIN <<>> = {}
  OBVIOUS
<1>2. BTypeOK
  BY <1>1, BrowserAssumption DEF BInit, BTypeOK
<1> QED
  BY <1>1, <1>2
  DEF BInit, BInv, OpensOne, WasLaunched, SweptAreClosed, ClosersFindIt,
      SessionsAreKept, NoBrowser

\* A session is a task and a browser.
LEMMA SessionTyped ==
  ASSUME BTypeOK
  PROVE  /\ DOMAIN sessions = 1..Len(sessions) /\ Len(sessions) \in Nat
         /\ \A i \in DOMAIN sessions : /\ sessions[i] \in Session
                                       /\ sessions[i].key \in BTask
                                       /\ sessions[i].browser \in Browsers
         /\ Keyed(sessions)
<1>1. /\ sessions \in Seq(Session) /\ DOMAIN sessions = 1..Len(sessions)
      /\ Len(sessions) \in Nat /\ Keyed(sessions)
  BY LenProperties DEF BTypeOK, Keyed
<1>2. \A i \in DOMAIN sessions : sessions[i] \in Session
  BY <1>1, ElementOfSeq
<1> QED
  BY <1>1, <1>2 DEF Session

\* Map.delete takes out the session of the task and no other.
LEMMA WithoutKeeps ==
  ASSUME BTypeOK, NEW t
  PROVE  LET w == Without(t) IN
         /\ w \in Seq(Session) /\ Keyed(w)
         /\ \A j \in DOMAIN w : \E k \in DOMAIN sessions : w[j] = sessions[k]
         /\ \A k \in DOMAIN sessions :
              sessions[k].key # t => \E j \in DOMAIN w : w[j] = sessions[k]
<1>0. sessions \in Seq(Session) /\ DOMAIN sessions = 1..Len(sessions)
      /\ Keyed(sessions)
  BY SessionTyped DEF BTypeOK
<1>1. CASE SessionsOf(t) = {}
  BY <1>0, <1>1 DEF Without
<1>2. CASE SessionsOf(t) # {}
  <2>1. PICK i \in SessionsOf(t) : Without(t) = RemoveAt(sessions, i)
    BY <1>2 DEF Without
  <2>2. PICK w : w = RemoveAt(sessions, i)
    OBVIOUS
  <2>3. i \in 1..Len(sessions) /\ sessions[i].key = t
    BY <1>0 DEF SessionsOf
  <2>4. /\ w \in Seq(Session)
        /\ \A j \in 1..Len(w) : \E k \in 1..Len(sessions) :
             w[j] = sessions[k] /\ k # i /\ j <= k
        /\ \A j \in 1..Len(sessions) : j # i => \E k \in 1..Len(w) : w[k] = sessions[j]
    <3>1. /\ RemoveAt(sessions, i) \in Seq(Session)
          /\ \A j \in 1..Len(RemoveAt(sessions, i)) : \E k \in 1..Len(sessions) :
               RemoveAt(sessions, i)[j] = sessions[k] /\ k # i /\ j <= k
          /\ \A j \in 1..Len(sessions) : j # i =>
               \E k \in 1..Len(RemoveAt(sessions, i)) :
                 RemoveAt(sessions, i)[k] = sessions[j]
      BY <1>0, <2>3, RemoveAtKeeps
    <3> QED
      BY <2>2, <3>1
  <2>5. Len(w) = Len(sessions) - 1 /\ Len(sessions) \in Nat
        /\ \A j \in 1..Len(sessions) - 1 :
             w[j] = IF j < i THEN sessions[j] ELSE sessions[j + 1]
    BY <1>0, <2>2, <2>3, RemoveAtProperties, LenProperties
  <2>6. DOMAIN w = 1..Len(w)
    BY <2>4, LenProperties
  <2>7. Keyed(w)
    <3> SUFFICES ASSUME NEW j \in 1..Len(w), NEW k \in 1..Len(w), w[j].key = w[k].key
                 PROVE  j = k
      BY <2>6 DEF Keyed
    <3>1. PICK a \in 1..Len(sessions) :
            w[j] = sessions[a] /\ a = IF j < i THEN j ELSE j + 1
      BY <2>3, <2>5
    <3>2. PICK b \in 1..Len(sessions) :
            w[k] = sessions[b] /\ b = IF k < i THEN k ELSE k + 1
      BY <2>3, <2>5
    <3>3. a = b
      BY <1>0, <3>1, <3>2 DEF Keyed
    <3> QED
      BY <2>3, <3>1, <3>2, <3>3
  <2>8. \A k \in DOMAIN sessions :
          sessions[k].key # t => \E j \in DOMAIN w : w[j] = sessions[k]
    BY <1>0, <2>3, <2>4, <2>6
  <2>9. \A j \in DOMAIN w : \E k \in DOMAIN sessions : w[j] = sessions[k]
    BY <1>0, <2>4, <2>6
  <2>10. w \in Seq(Session) /\ Without(t) = w
    BY <2>1, <2>2, <2>4
  <2> QED
    BY <2>7, <2>8, <2>9, <2>10, Zenon
<1> QED
  BY <1>1, <1>2

\* A step that leaves the Map, the browsers and the closers alone.
LEMMA MapStays ==
  ASSUME BInv, UNCHANGED <<sessions, alive, launched, closing, sweepAt, swept,
                           abandoned, opening>>,
         BTypeOK', OpensOne', crossed \subseteq crossed'
  PROVE  BInv'
<1>1. WasLaunched' /\ SweptAreClosed'
  BY DEF BInv, WasLaunched, SweptAreClosed
<1>2. ASSUME crossed' = {} PROVE ClosersFindIt' /\ SessionsAreKept'
  BY <1>2 DEF BInv, ClosersFindIt, SessionsAreKept, Known, SessionsOf
<1> QED
  BY <1>1, <1>2 DEF BInv

LEMMA LaunchKeeps ==
  ASSUME BInv, NEW t \in BTask, Launch(t)
  PROVE  BInv'
<1> USE BrowserAssumption DEF Browsers, NoBrowser
<1>0. /\ BTypeOK /\ OpensOne /\ launched \in Nat /\ alive \subseteq 1..launched
      /\ \A c \in Sweep : swept[c] \subseteq Browsers
  BY DEF BInv, BTypeOK
<1>1. PICK b : b = launched + 1
  OBVIOUS
<1>2. /\ launched' = b /\ alive' = alive \cup {b} /\ b \in Browsers
      /\ opening' = [opening EXCEPT ![t] = b]
      /\ run' = [run EXCEPT ![t] = "launching"]
      /\ run[t] # "launching" /\ SessionsOf(t) = {}
      /\ UNCHANGED <<sessions, closing, sweepAt, swept, abandoned, crossed, errors>>
  BY <1>0, <1>1 DEF Launch, BTypeOK
<1>3. BTypeOK'
  BY <1>0, <1>1, <1>2 DEF BTypeOK
<1>4. OpensOne'
  BY <1>0, <1>1, <1>2 DEF BTypeOK, OpensOne, SessionsOf
<1>5. WasLaunched'
  <2>1. \A u \in BTask : opening[u] \in Int /\ opening[u] <= launched
    BY DEF BInv, BTypeOK, WasLaunched
  <2>2. \A i \in DOMAIN sessions :
          sessions[i].browser \in Int /\ sessions[i].browser <= launched
    BY SessionTyped DEF BInv, WasLaunched
  <2>3. \A c \in Sweep : \A x \in swept[c] : x \in Int /\ x <= launched
    BY <1>0 DEF BInv, WasLaunched
  <2>4. \A x \in Int : x <= launched => x <= b
    BY <1>0, <1>1
  <2>5. \A u \in BTask : opening'[u] <= b
    BY <1>0, <1>1, <1>2, <2>1, <2>4 DEF BTypeOK
  <2> QED
    BY <1>2, <2>2, <2>3, <2>4, <2>5 DEF WasLaunched
<1>6. SweptAreClosed'
  <2>1. \A c \in Sweep : b \notin swept[c]
    BY <1>0, <1>1 DEF BInv, WasLaunched
  <2> QED
    BY <1>2, <2>1 DEF BInv, SweptAreClosed
<1>7. ASSUME crossed' = {} PROVE ClosersFindIt' /\ SessionsAreKept'
  <2>1. opening[t] = 0 /\ opening'[t] = b /\ \A u \in BTask : u # t => opening'[u] = opening[u]
    BY <1>0, <1>2 DEF BTypeOK, OpensOne
  <2>2. \A x \in alive : x # 0
    BY <1>0
  <2>3. SessionsAreKept'
    BY <1>2, <1>7, <2>1, <2>2 DEF BInv, SessionsAreKept, Known
  <2> QED
    BY <1>2, <1>7, <2>3 DEF BInv, ClosersFindIt, SessionsOf
<1> QED
  BY <1>3, <1>4, <1>5, <1>6, <1>7 DEF BInv

LEMMA OpenSessionKeeps ==
  ASSUME BInv, NEW t \in BTask, OpenSession(t)
  PROVE  BInv'
<1>0. /\ BTypeOK /\ OpensOne /\ WasLaunched
      /\ DOMAIN sessions = 1..Len(sessions) /\ Len(sessions) \in Nat
  BY SessionTyped DEF BInv
<1>1. PICK s : s = [key |-> t, browser |-> opening[t]]
  OBVIOUS
<1>2. /\ sessions' = Append(sessions, s)
      /\ opening' = [opening EXCEPT ![t] = NoBrowser]
      /\ run' = [run EXCEPT ![t] = "browsing"] /\ run[t] = "launching"
      /\ UNCHANGED <<alive, launched, closing, sweepAt, swept, abandoned, crossed,
                     errors>>
  BY <1>1 DEF OpenSession
<1>3. s \in Session /\ s.key = t /\ s.browser = opening[t]
  BY <1>0, <1>1, <1>2 DEF BTypeOK, OpensOne, Session
<1>4. /\ sessions' \in Seq(Session) /\ DOMAIN sessions' = 1..Len(sessions) + 1
      /\ \A i \in 1..Len(sessions) : sessions'[i] = sessions[i]
      /\ sessions'[Len(sessions) + 1] = s
  <2>1. sessions \in Seq(Session)
    BY <1>0 DEF BTypeOK
  <2>2. /\ Append(sessions, s) \in Seq(Session)
        /\ Len(Append(sessions, s)) = Len(sessions) + 1
        /\ \A i \in 1..Len(sessions) : Append(sessions, s)[i] = sessions[i]
        /\ Append(sessions, s)[Len(sessions) + 1] = s
    BY <1>3, <2>1, AppendProperties
  <2>3. DOMAIN Append(sessions, s) = 1..Len(Append(sessions, s))
    BY <2>2, LenProperties
  <2> QED
    BY <1>2, <2>2, <2>3
<1>5. \A i \in DOMAIN sessions : sessions[i].key # t
  BY <1>0, <1>2 DEF OpensOne, SessionsOf
<1>6. \A i, j \in DOMAIN sessions' : sessions'[i].key = sessions'[j].key => i = j
  BY <1>0, <1>3, <1>4, <1>5 DEF BTypeOK
<1>7. BTypeOK'
  BY <1>0, <1>2, <1>4, <1>6 DEF BTypeOK
<1>8. OpensOne'
  <2>1. ASSUME NEW u \in BTask, u # t, SessionsOf(u) = {} PROVE SessionsOf(u)' = {}
    BY <1>0, <1>3, <1>4, <2>1 DEF SessionsOf
  <2> QED
    BY <1>0, <1>2, <2>1 DEF OpensOne, BTypeOK
<1>9. WasLaunched'
  <2>1. \A i \in DOMAIN sessions' : sessions'[i].browser <= launched
    BY <1>0, <1>3, <1>4 DEF WasLaunched
  <2>2. 0 <= launched /\ \A u \in BTask : opening'[u] \in {0, opening[u]}
    BY <1>0, <1>2 DEF BTypeOK, NoBrowser
  <2> QED
    BY <1>0, <1>2, <2>1, <2>2 DEF WasLaunched
<1>10. SweptAreClosed'
  BY <1>2 DEF BInv, SweptAreClosed
<1>11. ASSUME crossed' = {} PROVE ClosersFindIt' /\ SessionsAreKept'
  <2>1. \A i \in DOMAIN sessions : i \in DOMAIN sessions' /\ sessions'[i] = sessions[i]
    BY <1>0, <1>4
  <2>2. \E i \in DOMAIN sessions' : sessions'[i].browser = opening[t]
    BY <1>0, <1>3, <1>4
  <2>3. ClosersFindIt'
    BY <1>2, <1>11, <2>1 DEF BInv, ClosersFindIt, SessionsOf
  <2>4. \A u \in BTask : u # t => opening'[u] = opening[u]
    BY <1>0, <1>2 DEF BTypeOK
  <2>5. SessionsAreKept'
    BY <1>2, <1>11, <2>1, <2>2, <2>4 DEF BInv, SessionsAreKept, Known
  <2> QED
    BY <2>3, <2>5
<1> QED
  BY <1>7, <1>8, <1>9, <1>10, <1>11 DEF BInv

\* close(task), begun after a run or a launch that failed.
LEMMA BeginCloseKeeps ==
  ASSUME BInv, NEW t \in BTask, BeginClose(t),
         UNCHANGED <<sessions, alive, launched, sweepAt, swept>>,
         OpensOne', BTypeOK', WasLaunched', abandoned \subseteq abandoned',
         \A u \in BTask : UNCHANGED opening[u] \/ opening[u] \in abandoned' \cup {NoBrowser}
  PROVE  BInv'
<1>1. SweptAreClosed'
  BY DEF BInv, SweptAreClosed
<1>2. ASSUME crossed' = {} PROVE ClosersFindIt' /\ SessionsAreKept'
  <2>0. crossed = {} /\ NoBrowser \notin alive
    BY <1>2 DEF BeginClose, BInv, BTypeOK, NoBrowser
  <2>1. \A c \in Sweep : \A i \in SessionsOf(t) : sessions[i].browser \notin swept[c]
    BY <1>2 DEF BeginClose
  <2>2. ASSUME NEW u \in BTask, NEW b \in Browsers, <<u, b>> \in closing'
        PROVE  <<u, b>> \in closing
               \/ (u = t /\ \E i \in SessionsOf(t) : sessions[i].browser = b)
    <3>1. CASE <<u, b>> \in closing
      BY <3>1
    <3>2. CASE <<u, b>> \notin closing
      <4>1. PICK i \in SessionsOf(t) : <<u, b>> = <<t, sessions[i].browser>>
        BY <2>2, <3>2 DEF BeginClose
      <4> QED
        BY <4>1
    <3> QED
      BY <3>1, <3>2
  <2>3. ClosersFindIt'
    <3> SUFFICES ASSUME NEW u \in BTask, NEW b \in Browsers, <<u, b>> \in closing'
                 PROVE  /\ \E i \in SessionsOf(u) : sessions[i].browser = b
                        /\ \A c \in Sweep : b \notin swept[c]
      BY DEF ClosersFindIt, SessionsOf
    <3>1. CASE <<u, b>> \in closing
      BY <2>0, <3>1 DEF BInv, ClosersFindIt
    <3>2. CASE u = t /\ \E i \in SessionsOf(t) : sessions[i].browser = b
      BY <2>1, <3>2
    <3> QED
      BY <2>2, <3>1, <3>2
  <2>4. SessionsAreKept'
    BY <2>0 DEF BInv, SessionsAreKept, Known
  <2> QED
    BY <2>3, <2>4
<1> QED
  BY <1>1, <1>2 DEF BInv
\* A browser ends, and the session of the task that closed it is forgotten.
LEMMA CloseEndsKeeps ==
  ASSUME BInv, NEW t \in BTask, NEW b \in Browsers, CloseEnds(t, b)
  PROVE  BInv'
<1>0. /\ BTypeOK /\ OpensOne /\ WasLaunched /\ Keyed(sessions)
      /\ <<t, b>> \in closing /\ alive' = alive \ {b}
      /\ closing' = closing \ {<<t, b>>} /\ sessions' = Without(t)
      /\ UNCHANGED <<run, opening, launched, sweepAt, swept, abandoned, crossed,
                     errors>>
  BY SessionTyped DEF BInv, CloseEnds
<1>1. /\ sessions' \in Seq(Session) /\ Keyed(sessions')
      /\ \A j \in DOMAIN sessions' : \E k \in DOMAIN sessions :
           sessions'[j] = sessions[k]
      /\ \A k \in DOMAIN sessions : sessions[k].key # t =>
           \E j \in DOMAIN sessions' : sessions'[j] = sessions[k]
  BY <1>0, WithoutKeeps
<1>2. BTypeOK'
  BY <1>0, <1>1 DEF BTypeOK, Keyed
<1>3. OpensOne'
  <2>1. ASSUME NEW u \in BTask, SessionsOf(u) = {} PROVE SessionsOf(u)' = {}
    BY <1>1, <2>1 DEF SessionsOf
  <2> QED
    BY <1>0, <2>1 DEF OpensOne
<1>4. WasLaunched'
  BY <1>0, <1>1 DEF WasLaunched
<1>5. SweptAreClosed'
  BY <1>0 DEF BInv, SweptAreClosed
<1>6. ASSUME crossed' = {} PROVE ClosersFindIt' /\ SessionsAreKept'
  <2>0. ClosersFindIt /\ SessionsAreKept
    BY <1>0, <1>6 DEF BInv
  <2>1. \A k \in DOMAIN sessions : sessions[k].key = t => sessions[k].browser = b
    BY <1>0, <2>0 DEF ClosersFindIt, SessionsOf, Keyed
  <2>2. ASSUME NEW u \in BTask, NEW x \in Browsers, <<u, x>> \in closing'
        PROVE  (\E i \in SessionsOf(u)' : sessions'[i].browser = x)
               /\ \A c \in Sweep : x \notin swept'[c]
    <3>1. <<u, x>> \in closing /\ (u # t \/ x # b)
      BY <1>0, <2>2
    <3>2. /\ \A c \in Sweep : x \notin swept[c]
          /\ \E i \in DOMAIN sessions : sessions[i].key = u /\ sessions[i].browser = x
      BY <2>0, <3>1 DEF ClosersFindIt, SessionsOf
    <3>3. u # t
      BY <2>1, <3>1, <3>2
    <3> QED
      BY <1>0, <1>1, <3>2, <3>3 DEF SessionsOf
  <2>3. ASSUME NEW x \in alive' \ abandoned'
        PROVE  Known(x)' \/ \E u \in BTask : opening'[u] = x
    <3>1. x \in alive \ abandoned /\ x # b
      BY <1>0
    <3>2. CASE Known(x)
      BY <1>1, <2>1, <3>1, <3>2 DEF Known
    <3> QED
      BY <1>0, <2>0, <3>1, <3>2 DEF SessionsAreKept
  <2> QED
    BY <2>2, <2>3 DEF ClosersFindIt, SessionsAreKept
<1> QED
  BY <1>2, <1>3, <1>4, <1>5, <1>6 DEF BInv

\* A sweep comes to the next browser, or clears the Map.
LEMMA SweepOnKeeps ==
  ASSUME BInv, NEW c \in Sweep, NEW done \in SUBSET swept[c], SweepOn(c, done),
         alive' \subseteq alive, \A x \in done : x \notin alive',
         UNCHANGED <<run, opening, launched, closing, abandoned, errors>>
  PROVE  BInv'
<1>0. /\ BTypeOK /\ OpensOne /\ WasLaunched /\ SweptAreClosed
      /\ \A i \in DOMAIN sessions : sessions[i].browser \in Browsers
      /\ done \subseteq Browsers
  BY SessionTyped DEF BInv, BTypeOK
<1>1. CASE \E i \in DOMAIN sessions :
             LET b == sessions[i].browser IN
             /\ sweepAt' = [sweepAt EXCEPT ![c] = b]
             /\ swept' = [swept EXCEPT ![c] = done \cup {b}]
             /\ crossed' = crossed \cup {t \in BTask : <<t, b>> \in closing}
             /\ UNCHANGED sessions
  <2>1. PICK b \in Browsers :
          /\ b <= launched
          /\ sweepAt' = [sweepAt EXCEPT ![c] = b]
          /\ swept' = [swept EXCEPT ![c] = done \cup {b}]
          /\ crossed' = crossed \cup {t \in BTask : <<t, b>> \in closing}
          /\ UNCHANGED sessions
    BY <1>0, <1>1 DEF WasLaunched
  <2>2. /\ sweepAt'[c] = b /\ swept'[c] = done \cup {b}
        /\ \A d \in Sweep : d # c => sweepAt'[d] = sweepAt[d] /\ swept'[d] = swept[d]
    BY <1>0, <2>1 DEF BTypeOK
  <2>3. BTypeOK'
    BY <1>0, <2>1 DEF BTypeOK
  <2>4. OpensOne' /\ WasLaunched' /\ SweptAreClosed'
    BY <1>0, <2>1, <2>2 DEF OpensOne, WasLaunched, SweptAreClosed, SessionsOf
  <2>5. ASSUME crossed' = {} PROVE ClosersFindIt' /\ SessionsAreKept'
    <3>1. crossed = {} /\ \A t \in BTask : <<t, b>> \notin closing
      BY <2>1, <2>5
    <3>2. ClosersFindIt'
      BY <2>1, <2>2, <3>1 DEF BInv, ClosersFindIt, SessionsOf
    <3>3. SessionsAreKept'
      BY <2>1, <3>1 DEF BInv, SessionsAreKept, Known
    <3> QED
      BY <3>2, <3>3
  <2> QED
    BY <2>3, <2>4, <2>5 DEF BInv
<1>2. CASE /\ \A i \in DOMAIN sessions : sessions[i].browser \in done
           /\ sweepAt' = [sweepAt EXCEPT ![c] = NoBrowser]
           /\ swept' = [swept EXCEPT ![c] = {}]
           /\ sessions' = <<>>
           /\ UNCHANGED crossed
  <2>1. <<>> \in Seq(Session) /\ DOMAIN sessions' = {}
    BY <1>2
  <2>2. /\ swept'[c] = {}
        /\ \A d \in Sweep : d # c => sweepAt'[d] = sweepAt[d] /\ swept'[d] = swept[d]
    BY <1>0, <1>2 DEF BTypeOK
  <2>3. BTypeOK'
    BY <1>0, <1>2, <2>1 DEF BTypeOK
  <2>4. OpensOne' /\ WasLaunched' /\ SweptAreClosed'
    BY <1>0, <1>2, <2>1, <2>2 DEF OpensOne, WasLaunched, SweptAreClosed, SessionsOf
  <2>5. ASSUME crossed' = {} PROVE ClosersFindIt' /\ SessionsAreKept'
    <3>1. crossed = {} /\ ClosersFindIt /\ SessionsAreKept
      BY <1>2, <2>5 DEF BInv
    <3>2. ASSUME NEW t \in BTask, NEW b \in Browsers PROVE <<t, b>> \notin closing
      BY <1>2, <3>1 DEF ClosersFindIt, SessionsOf
    <3>3. SessionsAreKept'
      BY <1>2, <3>1 DEF SessionsAreKept, Known
    <3> QED
      BY <3>2, <3>3 DEF ClosersFindIt
  <2> QED
    BY <2>3, <2>4, <2>5 DEF BInv
<1>3. \/ \E i \in DOMAIN sessions :
           LET b == sessions[i].browser IN
           /\ sweepAt' = [sweepAt EXCEPT ![c] = b]
           /\ swept' = [swept EXCEPT ![c] = done \cup {b}]
           /\ crossed' = crossed \cup {t \in BTask : <<t, b>> \in closing}
           /\ UNCHANGED sessions
      \/ /\ \A i \in DOMAIN sessions : sessions[i].browser \in done
         /\ sweepAt' = [sweepAt EXCEPT ![c] = NoBrowser]
         /\ swept' = [swept EXCEPT ![c] = {}]
         /\ sessions' = <<>>
         /\ UNCHANGED crossed
  BY DEF SweepOn
<1> QED
  BY <1>1, <1>2, <1>3

LEMMA BrowserStep == BInv /\ [BNext]_bvars => BInv'
<1> SUFFICES ASSUME BInv, [BNext]_bvars PROVE BInv'
  OBVIOUS
<1>0. BTypeOK /\ OpensOne /\ WasLaunched /\ SweptAreClosed
  BY DEF BInv
<1>1. ASSUME NEW t \in BTask, ReuseSession(t) \/ RunPauses(t) PROVE BInv'
  <2>1. /\ run[t] # "launching" /\ \E r \in {"idle", "browsing"} : run' = [run EXCEPT ![t] = r]
        /\ UNCHANGED <<opening, sessions, alive, launched, closing, sweepAt, swept,
                       abandoned, crossed, errors>>
    BY <1>1 DEF ReuseSession, RunPauses
  <2>2. BTypeOK'
    BY <1>0, <2>1 DEF BTypeOK
  <2>3. OpensOne'
    BY <1>0, <2>1 DEF BTypeOK, OpensOne, SessionsOf
  <2> QED
    BY <2>1, <2>2, <2>3, MapStays
<1>2. ASSUME NEW t \in BTask, OpenFails(t) PROVE BInv'
  <2>1. /\ opening[t] \in Browsers /\ opening' = [opening EXCEPT ![t] = NoBrowser]
        /\ run' = [run EXCEPT ![t] = "idle"]
        /\ abandoned' = abandoned \cup {opening[t]}
        /\ errors' \in 0..MaxErrors /\ BeginClose(t)
        /\ UNCHANGED <<sessions, alive, launched, sweepAt, swept>>
    BY <1>0, <1>2, BrowserAssumption DEF OpenFails, Fails, OpensOne, BTypeOK
  <2>2. closing' \subseteq BTask \X Browsers /\ crossed' \subseteq BTask
    BY <1>0, <2>1, SessionTyped DEF BeginClose, SessionsOf, BTypeOK
  <2>3. BTypeOK'
    BY <1>0, <2>1, <2>2 DEF BTypeOK
  <2>4. OpensOne'
    BY <1>0, <2>1 DEF OpensOne, SessionsOf, BTypeOK
  <2>5. WasLaunched'
    <3>1. 0 <= launched /\ \A u \in BTask : opening'[u] \in {0, opening[u]}
      BY <1>0, <2>1 DEF BTypeOK, NoBrowser
    <3> QED
      BY <1>0, <2>1, <3>1 DEF WasLaunched
  <2>6. \A u \in BTask : UNCHANGED opening[u] \/ opening[u] \in abandoned' \cup {NoBrowser}
    BY <1>0, <2>1 DEF BTypeOK
  <2> QED
    BY <2>1, <2>3, <2>4, <2>5, <2>6, BeginCloseKeeps
<1>3. ASSUME NEW t \in BTask, RunEnds(t) PROVE BInv'
  <2>1. /\ run' = [run EXCEPT ![t] = "idle"] /\ run[t] = "browsing" /\ BeginClose(t)
        /\ UNCHANGED <<opening, sessions, alive, launched, sweepAt, swept, abandoned,
                       errors>>
    BY <1>3 DEF RunEnds
  <2>2. closing' \subseteq BTask \X Browsers /\ crossed' \subseteq BTask
    BY <1>0, <2>1, SessionTyped DEF BeginClose, SessionsOf, BTypeOK
  <2>3. BTypeOK' /\ OpensOne' /\ WasLaunched'
    BY <1>0, <2>1, <2>2 DEF BTypeOK, OpensOne, WasLaunched, SessionsOf
  <2> QED
    BY <2>1, <2>3, BeginCloseKeeps
<1>4. ASSUME NEW t \in BTask, NEW b \in Browsers, CloseFails(t, b) PROVE BInv'
  <2>1. /\ closing' = closing \ {<<t, b>>} /\ errors' \in 0..MaxErrors
        /\ UNCHANGED <<run, opening, sessions, alive, launched, sweepAt, swept,
                       abandoned, crossed>>
    BY <1>0, <1>4, BrowserAssumption DEF CloseFails, Fails, BTypeOK
  <2>2. BTypeOK' /\ OpensOne' /\ WasLaunched' /\ SweptAreClosed'
    BY <1>0, <2>1 DEF BTypeOK, OpensOne, WasLaunched, SweptAreClosed, SessionsOf
  <2>3. crossed' = {} => ClosersFindIt' /\ SessionsAreKept'
    BY <2>1 DEF BInv, ClosersFindIt, SessionsAreKept, Known, SessionsOf
  <2> QED
    BY <2>2, <2>3 DEF BInv
<1>5. ASSUME NEW c \in Sweep, SweepFails(c) PROVE BInv'
  <2>1. /\ sweepAt' = [sweepAt EXCEPT ![c] = NoBrowser]
        /\ swept' = [swept EXCEPT ![c] = {}] /\ errors' \in 0..MaxErrors
        /\ UNCHANGED <<run, opening, sessions, alive, launched, closing, abandoned,
                       crossed>>
    BY <1>0, <1>5, BrowserAssumption DEF SweepFails, Fails, BTypeOK
  <2>2. \A d \in Sweep : swept'[d] = {}
                         \/ (swept'[d] = swept[d] /\ sweepAt'[d] = sweepAt[d])
    BY <1>0, <2>1 DEF BTypeOK
  <2>3. BTypeOK' /\ OpensOne'
    BY <1>0, <2>1 DEF BTypeOK, OpensOne, SessionsOf, NoBrowser
  <2>4. WasLaunched' /\ SweptAreClosed'
    BY <1>0, <2>1, <2>2 DEF WasLaunched, SweptAreClosed
  <2>5. crossed' = {} => ClosersFindIt' /\ SessionsAreKept'
    BY <2>1, <2>2 DEF BInv, ClosersFindIt, SessionsAreKept, Known, SessionsOf
  <2> QED
    BY <2>3, <2>4, <2>5 DEF BInv
<1>6. ASSUME NEW c \in Sweep, BeginSweep(c) PROVE BInv'
  <2>1. {} \in SUBSET swept[c] /\ \A x \in {} : x \notin alive'
    OBVIOUS
  <2> QED
    BY <1>6, <2>1, SweepOnKeeps DEF BeginSweep
<1>7. ASSUME NEW c \in Sweep, SweepNext(c) PROVE BInv'
  <2>1. alive' = alive \ {sweepAt[c]} /\ \A x \in swept[c] : x \notin alive'
    BY <1>0, <1>7 DEF SweepNext, SweptAreClosed
  <2>2. swept[c] \in SUBSET swept[c] /\ alive' \subseteq alive
    BY <2>1
  <2> QED
    BY <1>7, <2>1, <2>2, SweepOnKeeps DEF SweepNext
<1>8. CASE UNCHANGED bvars
  <2>1. BTypeOK' /\ OpensOne'
    BY <1>0, <1>8 DEF bvars, BTypeOK, OpensOne, SessionsOf
  <2> QED
    BY <1>8, <2>1, MapStays DEF bvars
<1> QED
  BY <1>1, <1>2, <1>3, <1>4, <1>5, <1>6, <1>7, <1>8, LaunchKeeps, OpenSessionKeeps,
     CloseEndsKeeps DEF BNext

\* The Map has one browser for a task at a time, whoever launches, closes and
\* sweeps (BrowserConnector.ensureBrowser and close).
THEOREM BrowserTypes == BSpec => []BTypeOK
  <1>1. BInv => BTypeOK
    BY DEF BInv
  <1> QED
    BY BrowserStart, BrowserStep, <1>1, PTL DEF BSpec

\* A browser that runs is always somebody's to close, for any number of tasks
\* and sweeps, unless its launch was rejected half way or a close and a sweep
\* met at a browser of the task (BrowserConnector.close).
THEOREM NoBrowserIsLost == BSpec => []NoBrowserLost
  <1>1. BInv => NoBrowserLost
    BY DEF BInv, SessionsAreKept, Known, NoBrowserLost
  <1> QED
    BY BrowserStart, BrowserStep, <1>1, PTL DEF BSpec
-----------------------------------------------------------------------------
(* Sequences and the sets of their elements.                               *)

\* The elements at the first k places.
First(s, k) == {s[i] : i \in {j \in DOMAIN s : j <= k}}

LEMMA HeadAndTail ==
  ASSUME NEW S, NEW s \in Seq(S), s # <<>>
  PROVE  /\ Head(s) \in ToSet(s) /\ Head(s) \in S
         /\ Tail(s) \in Seq(S)
         /\ ToSet(s) = {Head(s)} \cup ToSet(Tail(s))
         /\ Len(s) # 1 => Tail(s) # <<>>
         /\ Len(s) = 1 => ToSet(Tail(s)) = {}
<1>0. Len(s) \in Nat \ {0} /\ DOMAIN s = 1..Len(s)
  BY LenProperties, EmptySeq
<1>1. /\ Tail(s) \in Seq(S) /\ Len(Tail(s)) = Len(s) - 1
      /\ \A i \in 1..Len(Tail(s)) : Tail(s)[i] = s[i + 1]
      /\ Head(s) \in S
  BY HeadTailProperties
<1>2. Head(s) = s[1]
  OBVIOUS
<1>3. DOMAIN Tail(s) = 1..Len(s) - 1
  BY <1>1, LenProperties
<1>4. ASSUME NEW i \in 1..Len(s) PROVE s[i] \in {Head(s)} \cup ToSet(Tail(s))
  <2>1. CASE i = 1
    BY <1>2, <2>1
  <2>2. CASE i # 1
    <3>1. i - 1 \in 1..Len(s) - 1 /\ (i - 1) + 1 = i
      BY <1>0, <2>2
    <3> QED
      BY <1>1, <1>3, <3>1 DEF ToSet
  <2> QED
    BY <2>1, <2>2
<1>5. ASSUME NEW i \in 1..Len(s) - 1 PROVE Tail(s)[i] \in ToSet(s)
  <2>1. i + 1 \in 1..Len(s)
    BY <1>0
  <2> QED
    BY <1>0, <1>1, <2>1 DEF ToSet
<1>6. Head(s) \in ToSet(s)
  BY <1>0, <1>2 DEF ToSet
<1>7. ToSet(s) = {Head(s)} \cup ToSet(Tail(s))
  BY <1>0, <1>3, <1>4, <1>5, <1>6 DEF ToSet
<1>8. Len(s) # 1 => Tail(s) # <<>>
  <2>1. ASSUME NEW t, t = <<>> PROVE Len(t) = 0
    BY <2>1
  <2>2. \A n, m \in Nat : m = n - 1 /\ m = 0 => n = 1
    OBVIOUS
  <2> QED
    BY <1>0, <1>1, <2>1, <2>2, Zenon
<1>9. Len(s) = 1 => ToSet(Tail(s)) = {}
  <2>1. 1..1 - 1 = {}
    OBVIOUS
  <2> QED
    BY <1>3, <2>1 DEF ToSet
<1> QED
  BY <1>1, <1>6, <1>7, <1>8, <1>9

LEMMA AppendElements ==
  ASSUME NEW S, NEW s \in Seq(S), NEW x \in S
  PROVE  /\ Append(s, x) \in Seq(S)
         /\ ToSet(Append(s, x)) = ToSet(s) \cup {x}
         /\ \A k \in Nat : First(s, k) \subseteq First(Append(s, x), k)
         /\ IsInjective(s) /\ x \notin ToSet(s) => IsInjective(Append(s, x))
<1>0. Len(s) \in Nat /\ DOMAIN s = 1..Len(s)
  BY LenProperties
<1>1. PICK a : a = Append(s, x)
  OBVIOUS
<1>2. /\ a \in Seq(S) /\ Len(a) = Len(s) + 1
      /\ \A i \in 1..Len(s) : a[i] = s[i]
      /\ a[Len(s) + 1] = x
  BY <1>1, AppendProperties
<1>3. DOMAIN a = 1..Len(s) + 1
  BY <1>2, LenProperties
<1>4. ToSet(a) = ToSet(s) \cup {x}
  <2>1. \A i \in DOMAIN a : i \in DOMAIN s \/ i = Len(s) + 1
    BY <1>0, <1>3
  <2>2. Len(s) + 1 \in DOMAIN a /\ \A i \in DOMAIN s : i \in DOMAIN a
    BY <1>0, <1>3
  <2> QED
    BY <1>0, <1>2, <2>1, <2>2 DEF ToSet
<1>5. \A k \in Nat : First(s, k) \subseteq First(a, k)
  BY <1>0, <1>2, <1>3 DEF First
<1>6. ASSUME IsInjective(s), x \notin ToSet(s) PROVE IsInjective(a)
  <2> SUFFICES ASSUME NEW i \in DOMAIN a, NEW j \in DOMAIN a, a[i] = a[j] PROVE i = j
    BY DEF IsInjective
  <2>1. \A m \in DOMAIN s : s[m] # x
    BY <1>6 DEF ToSet
  <2>2. CASE i \in DOMAIN s /\ j \in DOMAIN s
    BY <1>0, <1>2, <1>6, <2>2 DEF IsInjective
  <2>3. CASE i \notin DOMAIN s \/ j \notin DOMAIN s
    BY <1>0, <1>2, <1>3, <2>1, <2>3
  <2> QED
    BY <2>2, <2>3
<1> QED
  BY <1>1, <1>2, <1>4, <1>5, <1>6

\* The oldest rows, as a sequence and as a set.
LEMMA Prefix ==
  ASSUME NEW S, NEW s \in Seq(S), NEW k \in Nat
  PROVE  LET p == SubSeq(s, 1, IF k < Len(s) THEN k ELSE Len(s)) IN
         /\ p \in Seq(S) /\ ToSet(p) = First(s, k)
         /\ k # 0 /\ s # <<>> => p # <<>>
<1>0. /\ Len(s) \in Nat /\ DOMAIN s = 1..Len(s) /\ \A i \in 1..Len(s) : s[i] \in S
      /\ s # <<>> => Len(s) # 0
  BY LenProperties, ElementOfSeq, EmptySeq
<1>1. PICK n \in Nat : /\ n = IF k < Len(s) THEN k ELSE Len(s)
                       /\ n <= Len(s) /\ n <= k
                       /\ \A i \in 1..Len(s) : i \in 1..n <=> i <= k
                       /\ \A i \in 1..n : i \in 1..Len(s)
  <2>1. Len(s) \in Nat
    BY <1>0
  <2>2. CASE k < Len(s)
    BY <2>1, <2>2
  <2>3. CASE ~(k < Len(s))
    BY <2>1, <2>3
  <2> QED
    BY <2>2, <2>3
<1>2. PICK p : p = SubSeq(s, 1, n)
  OBVIOUS
<1>3. /\ p \in Seq(S) /\ Len(p) = n /\ \A i \in 1..n : p[i] = s[i]
  <2>1. \A i \in 1..n : s[i] \in S
    BY <1>0, <1>1
  <2>2. /\ SubSeq(s, 1, n) \in Seq(S)
        /\ Len(SubSeq(s, 1, n)) = (IF 1 <= n THEN n - 1 + 1 ELSE 0)
        /\ \A i \in 1..n - 1 + 1 : SubSeq(s, 1, n)[i] = s[1 + i - 1]
    BY <2>1, SubSeqProperties
  <2>3. n - 1 + 1 = n /\ (IF 1 <= n THEN n - 1 + 1 ELSE 0) = n
        /\ \A i \in 1..n : 1 + i - 1 = i
    BY <1>1
  <2> QED
    BY <1>2, <2>2, <2>3
<1>4. DOMAIN p = 1..n
  BY <1>3, LenProperties
<1>5. ToSet(p) = First(s, k)
  <2>1. \A j : (j \in DOMAIN s /\ j <= k) <=> j \in 1..n
    BY <1>0, <1>1
  <2>2. {j \in DOMAIN s : j <= k} = 1..n
    BY <2>1, Zenon
  <2> QED
    BY <1>3, <1>4, <2>2 DEF ToSet, First
<1>6. k # 0 /\ s # <<>> => p # <<>>
  <2>1. p = <<>> => n = 0
    BY <1>3
  <2> QED
    BY <1>0, <1>1, <2>1
<1> QED
  BY <1>1, <1>2, <1>3, <1>5, <1>6

\* What is not among the first k of n elements is n - k at most.
LEMMA LateElements ==
  ASSUME NEW S, NEW s \in Seq(S), NEW n \in Nat, n <= Len(s)
  PROVE  LET late == ToSet(s) \ First(s, Len(s) - n) IN
         \E T : late \subseteq T /\ IsFiniteSet(T) /\ Cardinality(T) <= n
<1>0. Len(s) \in Nat /\ DOMAIN s = 1..Len(s)
  BY LenProperties
<1>1. PICK k \in Nat : k = Len(s) - n
  <2>1. \A a, b \in Nat : b <= a => a - b \in Nat
    OBVIOUS
  <2> QED
    BY <1>0, <2>1
<1> DEFINE f == [i \in 1..n |-> s[k + i]]
<1> DEFINE T == {f[i] : i \in 1..n}
<1>2. f \in Surjection(1..n, T)
  BY DEF Surjection
<1>3. IsFiniteSet(1..n) /\ Cardinality(1..n) = n
  BY FS_Interval
<1>4. IsFiniteSet(T) /\ Cardinality(T) <= n
  BY <1>2, <1>3, FS_Surjection
<1>5. ToSet(s) \ First(s, k) \subseteq T
  <2> SUFFICES ASSUME NEW j \in 1..Len(s), s[j] \notin First(s, k)
               PROVE  s[j] \in T
    BY <1>0 DEF ToSet
  <2>1. ~(j <= k)
    BY <1>0 DEF First
  <2>2. j - k \in 1..n /\ k + (j - k) = j
    BY <1>0, <1>1, <2>1
  <2> QED
    BY <2>2
<1> QED
  BY <1>1, <1>4, <1>5

\* A sequence without repetitions is as long as the set of its elements.
LEMMA LengthOfSet ==
  ASSUME NEW S, IsFiniteSet(S), NEW s \in Seq(S), IsInjective(s)
  PROVE  /\ ToSet(s) \subseteq S /\ IsFiniteSet(ToSet(s))
         /\ Len(s) <= Cardinality(ToSet(s)) /\ Len(s) <= Cardinality(S)
         /\ Cardinality(S) \in Nat
<1>0. Len(s) \in Nat /\ DOMAIN s = 1..Len(s) /\ s \in [1..Len(s) -> S]
  BY LenProperties
<1>1. ToSet(s) \subseteq S
  BY <1>0 DEF ToSet
<1>2. /\ IsFiniteSet(ToSet(s)) /\ Cardinality(ToSet(s)) <= Cardinality(S)
      /\ Cardinality(ToSet(s)) \in Nat /\ Cardinality(S) \in Nat
  BY <1>1, FS_Subset, FS_CardinalityType
<1>3. s \in Injection(1..Len(s), ToSet(s))
  BY <1>0 DEF Injection, IsInjective, ToSet
<1>4. Cardinality(1..Len(s)) = Len(s)
  BY <1>0, FS_Interval
<1>5. Cardinality(1..Len(s)) <= Cardinality(ToSet(s))
  BY <1>2, <1>3, FS_Injection
<1> QED
  BY <1>0, <1>1, <1>2, <1>4, <1>5
-----------------------------------------------------------------------------
(* The memories: who has a vector and a row.                               *)

\* Nobody has a row, or is to be evicted, before its own store() wrote it; the
\* vector is there before.
Started ==
  \A e \in Entry :
    /\ at[e] \in {"new", "row"} =>
         e \notin ToSet(rows) /\ \A d \in Entry : e \notin ToSet(doomed[d])
    /\ at[e] = "new" => e \notin vectors
    /\ at[e] = "row" => e \in vectors

\* Who evicts has something to evict.
EvictsSomething ==
  \A e \in Entry :
    /\ at[e] = "pick" => excess[e] # 0
    /\ at[e] \in {"evict", "evictRow"} => doomed[e] # <<>>

\* Between its two deletions an eviction has deleted the vector.
VectorGone ==
  \A d \in Entry : at[d] = "evictRow" => Head(doomed[d]) \notin vectors

Together ==
  \A e \in Entry \ cut : ~InFlux(e) => (e \in vectors <=> e \in ToSet(rows))

\* A vector is in the index of the process that stored it, whatever was cut.
Indexed == \A e \in vectors : e \in index[Home[e]]

MInv ==
  /\ MTypeOK
  /\ Started
  /\ EvictsSomething
  /\ VectorGone
  /\ Together
  /\ Indexed

LEMMA MemoryStart == MInit => MInv
<1> SUFFICES ASSUME MInit PROVE MInv
  OBVIOUS
<1>1. /\ <<>> \in Seq(Entry) /\ DOMAIN <<>> = {}
      /\ 0 \in 0..Cardinality(Entry) /\ 0 \in 0..MaxCuts
  BY MemoryAssumption, FS_CardinalityType
<1>2. ToSet(<<>>) = {} /\ IsInjective(<<>>)
  BY <1>1 DEF ToSet, IsInjective
<1>3. MTypeOK
  BY <1>1, <1>2 DEF MInit, MTypeOK
<1> QED
  BY <1>2, <1>3
  DEF MInit, MInv, Started, EvictsSomething, VectorGone, Together, Indexed

\* One row goes; what is not among the oldest k was not before.
LEMMA RowsWithoutKeeps ==
  ASSUME MTypeOK, NEW d
  PROVE  /\ RowsWithout(d) \in Seq(Entry) /\ IsInjective(RowsWithout(d))
         /\ ToSet(RowsWithout(d)) = ToSet(rows) \ {d}
         /\ \A k \in Nat : ToSet(RowsWithout(d)) \ First(RowsWithout(d), k)
                             \subseteq ToSet(rows) \ First(rows, k)
<1>0. /\ rows \in Seq(Entry) /\ IsInjective(rows)
      /\ DOMAIN rows = 1..Len(rows) /\ Len(rows) \in Nat
  BY LenProperties DEF MTypeOK
<1>1. CASE d \notin ToSet(rows)
  BY <1>0, <1>1 DEF RowsWithout
<1>2. CASE d \in ToSet(rows)
  <2>1. PICK i \in DOMAIN rows : RowsWithout(d) = RemoveAt(rows, i) /\ rows[i] = d
    BY <1>2 DEF RowsWithout, ToSet
  <2>2. PICK r : r = RemoveAt(rows, i)
    OBVIOUS
  <2>3. /\ r \in Seq(Entry)
        /\ \A j \in 1..Len(r) : \E k \in 1..Len(rows) :
             r[j] = rows[k] /\ k # i /\ j <= k
        /\ \A j \in 1..Len(rows) : j # i => \E k \in 1..Len(r) : r[k] = rows[j]
        /\ \A j, k \in 1..Len(r) : r[j] = r[k] => j = k
    <3>1. /\ RemoveAt(rows, i) \in Seq(Entry)
          /\ \A j \in 1..Len(RemoveAt(rows, i)) : \E k \in 1..Len(rows) :
               RemoveAt(rows, i)[j] = rows[k] /\ k # i /\ j <= k
          /\ \A j \in 1..Len(rows) : j # i =>
               \E k \in 1..Len(RemoveAt(rows, i)) : RemoveAt(rows, i)[k] = rows[j]
          /\ (\A j, k \in 1..Len(rows) : rows[j] = rows[k] => j = k) =>
               \A j, k \in 1..Len(RemoveAt(rows, i)) :
                 RemoveAt(rows, i)[j] = RemoveAt(rows, i)[k] => j = k
      BY <1>0, RemoveAtKeeps
    <3>2. \A j, k \in 1..Len(rows) : rows[j] = rows[k] => j = k
      BY <1>0 DEF IsInjective
    <3> QED
      BY <2>2, <3>1, <3>2
  <2>4. DOMAIN r = 1..Len(r) /\ Len(r) \in Nat
    BY <2>3, LenProperties
  <2>5. IsInjective(r)
    BY <2>3, <2>4 DEF IsInjective
  <2>6. ToSet(r) = ToSet(rows) \ {d}
    <3>1. ASSUME NEW j \in DOMAIN r PROVE r[j] \in ToSet(rows) \ {d}
      <4>1. PICK k \in DOMAIN rows : r[j] = rows[k] /\ k # i
        BY <1>0, <2>3, <2>4
      <4>2. rows[k] # rows[i]
        BY <1>0, <4>1 DEF IsInjective
      <4> QED
        BY <2>1, <4>1, <4>2 DEF ToSet
    <3>2. ASSUME NEW j \in DOMAIN rows, rows[j] # d PROVE rows[j] \in ToSet(r)
      BY <1>0, <2>1, <2>3, <2>4, <3>2 DEF ToSet
    <3> QED
      BY <3>1, <3>2 DEF ToSet
  <2>7. ASSUME NEW k \in Nat, NEW x \in ToSet(r), x \notin First(r, k)
        PROVE  x \in ToSet(rows) /\ x \notin First(rows, k)
    <3>1. PICK j \in 1..Len(r) : r[j] = x
      BY <2>4 DEF ToSet
    <3>2. ~(j <= k)
      BY <2>4, <2>7, <3>1 DEF First
    <3>3. PICK m \in 1..Len(rows) : rows[m] = x /\ j <= m
      BY <2>3, <3>1
    <3>4. ~(m <= k)
      BY <3>2, <3>3
    <3>5. ASSUME NEW n \in DOMAIN rows, n <= k PROVE rows[n] # x
      BY <1>0, <3>3, <3>4, <3>5 DEF IsInjective
    <3> QED
      BY <1>0, <3>3, <3>5 DEF First, ToSet
  <2> QED
    BY <2>1, <2>2, <2>3, <2>5, <2>6, <2>7
<1> QED
  BY <1>1, <1>2

\* One doomed row is dealt with.
LEMMA NextDoomedKeeps ==
  ASSUME MTypeOK, EvictsSomething, NEW e \in Entry, at[e] \in {"evict", "evictRow"},
         NextDoomed(e)
  PROVE  /\ doomed' \in [Entry -> Seq(Entry)]
         /\ at' \in [Entry -> Sync \cup {"new", "row", "stored", "failed", "lost"}]
         /\ Head(doomed[e]) \in ToSet(doomed[e]) /\ Head(doomed[e]) \in Entry
         /\ ToSet(doomed[e]) = {Head(doomed[e])} \cup ToSet(doomed'[e])
         /\ at'[e] \in {"stored", "evict"}
         /\ at'[e] = "stored" => ToSet(doomed'[e]) = {}
         /\ at'[e] = "evict" => doomed'[e] # <<>>
         /\ \A d \in Entry : d # e => at'[d] = at[d] /\ doomed'[d] = doomed[d]
<1>0. /\ doomed \in [Entry -> Seq(Entry)] /\ doomed[e] \in Seq(Entry)
      /\ doomed[e] # <<>>
      /\ at \in [Entry -> Sync \cup {"new", "row", "stored", "failed", "lost"}]
  BY DEF MTypeOK, EvictsSomething
<1>1. PICK s, r : s = doomed[e] /\ r = Tail(s)
  OBVIOUS
<1>2. /\ Head(s) \in ToSet(s) /\ Head(s) \in Entry /\ r \in Seq(Entry)
      /\ ToSet(s) = {Head(s)} \cup ToSet(r)
      /\ Len(s) # 1 => r # <<>>
      /\ Len(s) = 1 => ToSet(r) = {}
  BY <1>0, <1>1, HeadAndTail
<1>3. /\ doomed' = [doomed EXCEPT ![e] = r]
      /\ at' = [at EXCEPT ![e] = IF Len(s) = 1 THEN "stored" ELSE "evict"]
  BY <1>1 DEF NextDoomed, Goto
<1>4. /\ doomed' \in [Entry -> Seq(Entry)] /\ doomed'[e] = r
      /\ at' \in [Entry -> Sync \cup {"new", "row", "stored", "failed", "lost"}]
      /\ at'[e] = IF Len(s) = 1 THEN "stored" ELSE "evict"
      /\ \A d \in Entry : d # e => at'[d] = at[d] /\ doomed'[d] = doomed[d]
  BY <1>0, <1>2, <1>3 DEF Sync
<1> QED
  BY <1>1, <1>2, <1>4
\* The types, the order in which a store() writes, and the rows it dooms.
MBase == MTypeOK /\ Started /\ EvictsSomething

LEMMA BaseWrites ==
  ASSUME MBase, NEW e \in Entry, StoreVector(e) \/ InsertRow(e) \/ WriteOutcome(e)
  PROVE  MBase'
<1>0. MTypeOK /\ Started /\ EvictsSomething
  BY DEF MBase
<1>1. CASE StoreVector(e)
  <2>1. MTypeOK'
    BY <1>0, <1>1 DEF StoreVector, At, Goto, MTypeOK, Sync
  <2> QED
    BY <1>0, <1>1, <2>1
    DEF StoreVector, At, Goto, MTypeOK, Started, EvictsSomething, MBase
<1>2. CASE InsertRow(e)
  <2>1. /\ at[e] = "row" /\ rows' = Append(rows, e)
        /\ at' = [at EXCEPT ![e] = "outcome"]
        /\ UNCHANGED <<vectors, index, doomed, excess, cut, cuts>>
    BY <1>2 DEF InsertRow, At, Goto
  <2>2. /\ rows' \in Seq(Entry) /\ IsInjective(rows')
        /\ ToSet(rows') = ToSet(rows) \cup {e}
    <3>1. rows \in Seq(Entry) /\ IsInjective(rows) /\ e \notin ToSet(rows)
      BY <1>0, <2>1 DEF MTypeOK, Started
    <3>2. /\ Append(rows, e) \in Seq(Entry) /\ IsInjective(Append(rows, e))
          /\ ToSet(Append(rows, e)) = ToSet(rows) \cup {e}
      BY <3>1, AppendElements
    <3> QED
      BY <2>1, <3>2
  <2>3. MTypeOK'
    BY <1>0, <2>1, <2>2 DEF MTypeOK, Sync
  <2> QED
    BY <1>0, <2>1, <2>2, <2>3 DEF MTypeOK, Started, EvictsSomething, MBase
<1>3. CASE WriteOutcome(e)
  <2>1. MTypeOK'
    BY <1>0, <1>3 DEF WriteOutcome, At, Goto, MTypeOK, Sync
  <2> QED
    BY <1>0, <1>3, <2>1
    DEF WriteOutcome, At, Goto, MTypeOK, Started, EvictsSomething, MBase
<1> QED
  BY <1>1, <1>2, <1>3

\* The rows do not repeat themselves: too many are never more than all.
LEMMA ExcessCounted ==
  ASSUME MTypeOK, ~(Len(rows) <= MemoryMax)
  PROVE  /\ Len(rows) - MemoryMax \in 0..Cardinality(Entry)
         /\ Len(rows) - MemoryMax \in Nat \ {0}
         /\ Len(rows) \in Nat /\ MemoryMax \in Nat
<1>1. /\ Len(rows) <= Cardinality(Entry) /\ Cardinality(Entry) \in Nat
      /\ Len(rows) \in Nat /\ MemoryMax \in Nat
  BY MemoryAssumption, LengthOfSet, LenProperties DEF MTypeOK
<1> QED
  BY <1>1

LEMMA BaseEvictions ==
  ASSUME MBase, NEW e \in Entry,
         CountRows(e) \/ PickOldest(e) \/ EvictVector(e) \/ EvictRow(e)
  PROVE  MBase'
<1>0. MTypeOK /\ Started /\ EvictsSomething
  BY DEF MBase
<1>1. CASE CountRows(e)
  <2>1. PICK n \in 0..Cardinality(Entry) :
          /\ excess' = [excess EXCEPT ![e] = n]
          /\ \/ (n = 0 /\ at' = [at EXCEPT ![e] = "stored"])
             \/ (n # 0 /\ at' = [at EXCEPT ![e] = "pick"])
    <3>1. CASE Len(rows) <= MemoryMax
      <4>1. 0 \in 0..Cardinality(Entry)
        BY MemoryAssumption, FS_CardinalityType
      <4> QED
        BY <1>1, <3>1, <4>1 DEF CountRows, Goto
    <3>2. CASE ~(Len(rows) <= MemoryMax)
      <4>1. PICK n \in 0..Cardinality(Entry) : n = Len(rows) - MemoryMax /\ n # 0
        BY <1>0, <3>2, ExcessCounted
      <4> QED
        BY <1>1, <3>2, <4>1 DEF CountRows, Goto
    <3> QED
      BY <3>1, <3>2
  <2>2. /\ at[e] = "count"
        /\ UNCHANGED <<vectors, rows, index, doomed, cut, cuts>>
    BY <1>1 DEF CountRows, At
  <2>3. MTypeOK'
    BY <1>0, <2>1, <2>2 DEF MTypeOK, Sync
  <2>4. \A d \in Entry : \/ (at'[d] = at[d] /\ excess'[d] = excess[d])
                         \/ (d = e /\ at'[e] = "stored")
                         \/ (d = e /\ at'[e] = "pick" /\ excess'[e] # 0)
    BY <1>0, <2>1 DEF MTypeOK
  <2> QED
    BY <1>0, <2>2, <2>3, <2>4 DEF Started, EvictsSomething, MBase
<1>2. CASE PickOldest(e)
  <2>0. rows \in Seq(Entry) /\ excess[e] \in Nat /\ at[e] = "pick" /\ excess[e] # 0
    BY <1>0, <1>2 DEF MTypeOK, PickOldest, At, EvictsSomething
  <2>1. PICK p \in Seq(Entry) :
          /\ doomed' = [doomed EXCEPT ![e] = p]
          /\ ToSet(p) \subseteq ToSet(rows)
          /\ rows # <<>> => p # <<>>
    <3>1. LET p == SubSeq(rows, 1, IF excess[e] < Len(rows)
                                   THEN excess[e] ELSE Len(rows)) IN
          /\ p \in Seq(Entry) /\ ToSet(p) = First(rows, excess[e])
          /\ excess[e] # 0 /\ rows # <<>> => p # <<>>
      BY <2>0, Prefix
    <3>2. First(rows, excess[e]) \subseteq ToSet(rows)
      BY DEF First, ToSet
    <3> QED
      BY <1>2, <2>0, <3>1, <3>2 DEF PickOldest
  <2>2. /\ at' = [at EXCEPT ![e] = IF rows = <<>> THEN "stored" ELSE "evict"]
        /\ UNCHANGED <<vectors, rows, index, excess, cut, cuts>>
    BY <1>2 DEF PickOldest, Goto
  <2>3. MTypeOK'
    BY <1>0, <2>1, <2>2 DEF MTypeOK, Sync
  <2>4. \A d \in Entry : \/ (at'[d] = at[d] /\ doomed'[d] = doomed[d])
                         \/ /\ d = e /\ ToSet(doomed'[d]) \subseteq ToSet(rows)
                            /\ at'[d] = "stored"
                               \/ (at'[d] = "evict" /\ doomed'[d] # <<>>)
    BY <1>0, <2>1, <2>2 DEF MTypeOK
  <2> QED
    BY <1>0, <2>0, <2>2, <2>3, <2>4 DEF Started, EvictsSomething, MBase
<1>3. CASE EvictVector(e)
  <2>1. /\ at[e] = "evict" /\ at' = [at EXCEPT ![e] = "evictRow"]
        /\ DeleteVector(Head(doomed[e]), Home[e])
        /\ UNCHANGED <<rows, doomed, excess, cut, cuts>>
    BY <1>3 DEF EvictVector, At, Goto
  <2>2. /\ Head(doomed[e]) \in ToSet(doomed[e]) /\ Head(doomed[e]) \in Entry
    BY <1>0, <2>1, HeadAndTail DEF MTypeOK, EvictsSomething
  <2>3. PICK h \in Entry : h = Head(doomed[e]) /\ h \in ToSet(doomed[e])
    BY <2>2
  <2>4. /\ vectors' = vectors \ {h}
        /\ index' \in [MProc -> SUBSET Entry]
    BY <1>0, <2>1, <2>3 DEF DeleteVector, MTypeOK
  <2>5. MTypeOK'
    BY <1>0, <2>1, <2>4 DEF MTypeOK, Sync
  <2>6. at[h] # "row"
    BY <1>0, <2>3 DEF Started
  <2> QED
    BY <1>0, <2>1, <2>4, <2>5, <2>6 DEF MTypeOK, Started, EvictsSomething, MBase
<1>4. CASE EvictRow(e)
  <2>1. /\ at[e] = "evictRow" /\ NextDoomed(e)
        /\ rows' = RowsWithout(Head(doomed[e]))
        /\ UNCHANGED <<vectors, index, excess, cut, cuts>>
    BY <1>4 DEF EvictRow, At
  <2>2. /\ doomed' \in [Entry -> Seq(Entry)]
        /\ at' \in [Entry -> Sync \cup {"new", "row", "stored", "failed", "lost"}]
        /\ \A d \in Entry : ToSet(doomed'[d]) \subseteq ToSet(doomed[d])
        /\ at'[e] \in {"stored", "evict"}
        /\ at'[e] = "evict" => doomed'[e] # <<>>
        /\ \A d \in Entry : d # e => at'[d] = at[d] /\ doomed'[d] = doomed[d]
    BY <1>0, <2>1, NextDoomedKeeps
  <2>3. /\ rows' \in Seq(Entry) /\ IsInjective(rows')
        /\ ToSet(rows') \subseteq ToSet(rows)
    BY <1>0, <2>1, RowsWithoutKeeps
  <2>4. MTypeOK'
    BY <1>0, <2>1, <2>2, <2>3 DEF MTypeOK
  <2>5. Started'
    BY <1>0, <2>1, <2>2, <2>3 DEF Started
  <2>6. EvictsSomething'
    BY <1>0, <2>1, <2>2 DEF EvictsSomething
  <2> QED
    BY <2>4, <2>5, <2>6 DEF MBase
<1> QED
  BY <1>1, <1>2, <1>3, <1>4

LEMMA BaseCuts ==
  ASSUME MBase,
         (\E e \in Entry : EvictionThrows(e) \/ StoreThrows(e))
         \/ (\E p \in MProc : MCrash(p))
  PROVE  MBase'
<1>0. MTypeOK /\ Started /\ EvictsSomething
  BY DEF MBase
<1>1. ASSUME NEW e \in Entry, EvictionThrows(e) PROVE MBase'
  <2>1. /\ at[e] \in {"evict", "evictRow"} /\ NextDoomed(e)
        /\ cuts < MaxCuts /\ cuts' = cuts + 1 /\ cut' = cut \cup {Head(doomed[e])}
        /\ UNCHANGED <<vectors, index, rows, excess>>
    BY <1>1 DEF EvictionThrows, Throws, At
  <2>2. /\ doomed' \in [Entry -> Seq(Entry)]
        /\ at' \in [Entry -> Sync \cup {"new", "row", "stored", "failed", "lost"}]
        /\ \A d \in Entry : ToSet(doomed'[d]) \subseteq ToSet(doomed[d])
        /\ at'[e] \in {"stored", "evict"}
        /\ at'[e] = "evict" => doomed'[e] # <<>>
        /\ \A d \in Entry : d # e => at'[d] = at[d] /\ doomed'[d] = doomed[d]
        /\ Head(doomed[e]) \in Entry
    BY <1>0, <2>1, NextDoomedKeeps
  <2>3. cuts' \in 0..MaxCuts
    BY <1>0, <2>1, MemoryAssumption DEF MTypeOK
  <2>4. MTypeOK'
    BY <1>0, <2>1, <2>2, <2>3 DEF MTypeOK
  <2>5. Started'
    BY <1>0, <2>1, <2>2 DEF Started
  <2>6. EvictsSomething'
    BY <1>0, <2>1, <2>2 DEF EvictsSomething
  <2> QED
    BY <2>4, <2>5, <2>6 DEF MBase
<1>2. ASSUME NEW e \in Entry, StoreThrows(e) PROVE MBase'
  <2>1. /\ at' = [at EXCEPT ![e] = "failed"]
        /\ cuts < MaxCuts /\ cuts' = cuts + 1 /\ cut' = cut \cup {e}
        /\ UNCHANGED <<rows, doomed, excess>>
        /\ at[e] \notin {"new"}
    BY <1>2 DEF StoreThrows, Throws, At, Goto
  <2>2. /\ vectors' \subseteq vectors /\ vectors \subseteq vectors' \cup {e}
        /\ index' \in [MProc -> SUBSET Entry]
    BY <1>0, <1>2 DEF StoreThrows, DeleteVector, MTypeOK
  <2>3. cuts' \in 0..MaxCuts
    BY <1>0, <2>1, MemoryAssumption DEF MTypeOK
  <2>4. MTypeOK'
    BY <1>0, <2>1, <2>2, <2>3 DEF MTypeOK, Sync
  <2>5. Started' /\ EvictsSomething'
    BY <1>0, <2>1, <2>2 DEF MTypeOK, Started, EvictsSomething
  <2> QED
    BY <2>4, <2>5 DEF MBase
<1>3. ASSUME NEW p \in MProc, MCrash(p) PROVE MBase'
  <2>1. PICK mine \in SUBSET Entry :
          /\ cuts < MaxCuts /\ cuts' = cuts + 1
          /\ cut' = cut \cup mine \cup UNION {ToSet(doomed[e]) : e \in mine}
          /\ at' = [e \in Entry |-> IF e \in mine THEN "lost" ELSE at[e]]
          /\ doomed' = [e \in Entry |-> IF e \in mine THEN <<>> ELSE doomed[e]]
          /\ index' = [index EXCEPT ![p] = vectors]
          /\ UNCHANGED <<vectors, rows, excess>>
    BY <1>3 DEF MCrash
  <2>2. cuts' \in 0..MaxCuts
    BY <1>0, <2>1, MemoryAssumption DEF MTypeOK
  <2>3. /\ \A e \in Entry : ToSet(doomed[e]) \subseteq Entry
        /\ ToSet(<<>>) = {} /\ <<>> \in Seq(Entry)
    <3>1. ASSUME NEW e \in Entry PROVE ToSet(doomed[e]) \subseteq Entry
      BY <1>0, LenProperties DEF MTypeOK, ToSet
    <3>2. DOMAIN <<>> = {} /\ <<>> \in Seq(Entry)
      OBVIOUS
    <3> QED
      BY <3>1, <3>2 DEF ToSet
  <2>4. cut' \subseteq Entry
    BY <1>0, <2>1, <2>3 DEF MTypeOK
  <2>5. MTypeOK'
    BY <1>0, <2>1, <2>2, <2>3, <2>4 DEF MTypeOK, Sync
  <2>6. \A d \in Entry : \/ (at'[d] = at[d] /\ doomed'[d] = doomed[d])
                         \/ (at'[d] = "lost" /\ ToSet(doomed'[d]) = {})
    BY <2>1, <2>3
  <2> QED
    BY <1>0, <2>1, <2>5, <2>6 DEF Started, EvictsSomething, MBase
<1> QED
  BY <1>1, <1>2, <1>3
\* The row that an eviction deals with was written before.
LEMMA DoomedWasStored ==
  ASSUME MBase, NEW d \in Entry, at[d] \in {"evict", "evictRow"}
  PROVE  /\ Head(doomed[d]) \in ToSet(doomed[d]) /\ Head(doomed[d]) \in Entry
         /\ at[Head(doomed[d])] \notin {"new", "row"}
<1>1. Head(doomed[d]) \in ToSet(doomed[d]) /\ Head(doomed[d]) \in Entry
  BY HeadAndTail DEF MBase, MTypeOK, EvictsSomething
<1> QED
  BY <1>1 DEF MBase, Started

LEMMA MemoryWrites ==
  ASSUME MInv, NEW e \in Entry,
         \/ StoreVector(e) \/ InsertRow(e) \/ WriteOutcome(e)
         \/ CountRows(e) \/ PickOldest(e)
  PROVE  (VectorGone /\ Together /\ Indexed)'
<1>0. /\ MTypeOK /\ Started /\ EvictsSomething /\ VectorGone /\ Together /\ Indexed
      /\ MBase /\ Home[e] \in MProc
  BY MemoryAssumption DEF MInv, MBase
<1>1. CASE StoreVector(e)
  <2>1. /\ at[e] = "new" /\ vectors' = vectors \cup {e}
        /\ index' = [index EXCEPT ![Home[e]] = @ \cup {e}]
        /\ at' = [at EXCEPT ![e] = "row"]
        /\ UNCHANGED <<rows, doomed, excess, cut, cuts>>
    BY <1>1 DEF StoreVector, At, Goto
  <2>2. /\ at'[e] = "row" /\ \A d \in Entry : d # e => at'[d] = at[d]
    BY <1>0, <2>1 DEF MTypeOK
  <2>3. \A d \in Entry : at'[d] = "evictRow" =>
          at[d] = "evictRow" /\ Head(doomed[d]) # e
    BY <1>0, <2>1, <2>2, DoomedWasStored
  <2>4. VectorGone'
    BY <1>0, <2>1, <2>3 DEF VectorGone
  <2>5. Together'
    <3>1. ASSUME NEW x \in Entry, x # e, ~InFlux(x)' PROVE ~InFlux(x)
      BY <2>1, <2>2, <3>1 DEF InFlux
    <3>2. InFlux(e)'
      BY <2>2 DEF InFlux
    <3> QED
      BY <1>0, <2>1, <3>1, <3>2 DEF Together
  <2>6. \A x \in vectors' : x \in index'[Home[x]]
    BY <1>0, <2>1, MemoryAssumption DEF Indexed, MTypeOK
  <2> QED
    BY <2>4, <2>5, <2>6 DEF Indexed
<1>2. CASE InsertRow(e)
  <2>1. /\ at[e] = "row" /\ rows' = Append(rows, e)
        /\ at' = [at EXCEPT ![e] = "outcome"]
        /\ UNCHANGED <<vectors, index, doomed, excess, cut, cuts>>
    BY <1>2 DEF InsertRow, At, Goto
  <2>2. /\ at'[e] = "outcome" /\ \A d \in Entry : d # e => at'[d] = at[d]
    BY <1>0, <2>1 DEF MTypeOK
  <2>3. ToSet(rows') = ToSet(rows) \cup {e} /\ e \in vectors
    BY <1>0, <2>1, AppendElements DEF MTypeOK, Started
  <2>4. VectorGone' /\ Indexed'
    BY <1>0, <2>1, <2>2 DEF VectorGone, Indexed
  <2>5. Together'
    <3>1. ASSUME NEW x \in Entry, x # e, ~InFlux(x)' PROVE ~InFlux(x)
      BY <2>1, <2>2, <3>1 DEF InFlux
    <3> QED
      BY <1>0, <2>1, <2>3, <3>1 DEF Together
  <2> QED
    BY <2>4, <2>5
<1>3. CASE WriteOutcome(e) \/ CountRows(e) \/ PickOldest(e)
  <2>1. /\ at[e] \notin {"row", "evictRow"} /\ at'[e] \notin {"row", "evictRow"}
        /\ \A d \in Entry : d # e => at'[d] = at[d] /\ doomed'[d] = doomed[d]
        /\ UNCHANGED <<vectors, rows, index, cut>>
    <3>1. CASE WriteOutcome(e)
      BY <1>0, <3>1 DEF WriteOutcome, At, Goto, MTypeOK
    <3>2. CASE CountRows(e)
      BY <1>0, <3>2 DEF CountRows, At, Goto, MTypeOK
    <3>3. CASE PickOldest(e)
      BY <1>0, <3>3 DEF PickOldest, At, Goto, MTypeOK
    <3> QED
      BY <1>3, <3>1, <3>2, <3>3
  <2>2. VectorGone' /\ Indexed'
    BY <1>0, <2>1 DEF VectorGone, Indexed
  <2>3. ASSUME NEW x \in Entry, ~InFlux(x)' PROVE ~InFlux(x)
    BY <2>1, <2>3 DEF InFlux
  <2>4. Together'
    BY <1>0, <2>1, <2>3 DEF Together
  <2> QED
    BY <2>2, <2>4
<1> QED
  BY <1>1, <1>2, <1>3

LEMMA DeleteVectorIndexed ==
  ASSUME MTypeOK, Indexed, NEW e, NEW p \in MProc, DeleteVector(e, p)
  PROVE  Indexed'
<1>1. /\ vectors' = vectors \ {e}
      /\ \A q \in MProc : index'[q] = index[q] \/ index'[q] = vectors \ {e}
  BY DEF DeleteVector, MTypeOK
<1>2. \A x \in vectors : Home[x] \in MProc
  BY MemoryAssumption DEF MTypeOK
<1> QED
  BY <1>1, <1>2 DEF Indexed

LEMMA MemoryEvictions ==
  ASSUME MInv, NEW e \in Entry,
         EvictVector(e) \/ EvictRow(e) \/ EvictionThrows(e)
  PROVE  (VectorGone /\ Together /\ Indexed)'
<1>0. /\ MTypeOK /\ Started /\ EvictsSomething /\ VectorGone /\ Together /\ Indexed
      /\ MBase /\ Home[e] \in MProc
  BY MemoryAssumption DEF MInv, MBase
<1>1. PICK h : h = Head(doomed[e])
  OBVIOUS
<1>2. CASE EvictVector(e)
  <2>1. /\ at[e] = "evict" /\ at' = [at EXCEPT ![e] = "evictRow"]
        /\ DeleteVector(h, Home[e]) /\ vectors' = vectors \ {h}
        /\ UNCHANGED <<rows, doomed, excess, cut, cuts>>
    BY <1>1, <1>2 DEF EvictVector, At, Goto, DeleteVector
  <2>2. /\ at'[e] = "evictRow" /\ \A d \in Entry : d # e => at'[d] = at[d]
    BY <1>0, <2>1 DEF MTypeOK
  <2>3. VectorGone'
    BY <1>0, <1>1, <2>1, <2>2 DEF VectorGone
  <2>4. InFlux(h)' /\ \A x \in Entry : InFlux(x) => InFlux(x)'
    BY <1>1, <2>1, <2>2 DEF InFlux
  <2>5. Together'
    BY <1>0, <2>1, <2>4 DEF Together
  <2>6. Indexed'
    BY <1>0, <2>1, DeleteVectorIndexed
  <2> QED
    BY <2>3, <2>5, <2>6
<1>3. CASE EvictRow(e) \/ EvictionThrows(e)
  <2>1. /\ at[e] \in {"evict", "evictRow"} /\ NextDoomed(e)
        /\ UNCHANGED <<vectors, index, excess>>
    BY <1>3 DEF EvictRow, EvictionThrows, At
  <2>2. /\ at'[e] \in {"stored", "evict"}
        /\ \A d \in Entry : d # e => at'[d] = at[d] /\ doomed'[d] = doomed[d]
    BY <1>0, <2>1, NextDoomedKeeps
  <2>3. VectorGone' /\ Indexed'
    BY <1>0, <2>1, <2>2 DEF VectorGone, Indexed
  <2>4. ASSUME NEW x \in Entry, x # h, InFlux(x) PROVE InFlux(x)'
    <3>1. CASE at[x] = "row"
      BY <2>1, <2>2, <3>1 DEF InFlux
    <3>2. CASE \E d \in Entry : at[d] = "evictRow" /\ Head(doomed[d]) = x
      <4>1. PICK d \in Entry : at[d] = "evictRow" /\ Head(doomed[d]) = x /\ d # e
        BY <1>1, <2>4, <3>2
      <4> QED
        BY <2>2, <4>1 DEF InFlux
    <3> QED
      BY <2>4, <3>1, <3>2 DEF InFlux
  <2>5. \/ h \in cut' /\ ToSet(rows') = ToSet(rows) /\ cut \subseteq cut'
        \/ h \notin vectors' /\ ToSet(rows') = ToSet(rows) \ {h} /\ cut' = cut
    <3>1. CASE EvictRow(e)
      BY <1>0, <1>1, <3>1, RowsWithoutKeeps DEF EvictRow, At, VectorGone
    <3>2. CASE EvictionThrows(e)
      BY <1>1, <3>2 DEF EvictionThrows, Throws
    <3> QED
      BY <1>3, <3>1, <3>2
  <2>6. Together'
    <3> SUFFICES ASSUME NEW x \in Entry, x \notin cut', ~InFlux(x)'
                 PROVE  x \in vectors' <=> x \in ToSet(rows')
      BY DEF Together
    <3>1. CASE x = h
      BY <2>5, <3>1
    <3>2. CASE x # h
      BY <1>0, <2>1, <2>4, <2>5, <3>2 DEF Together
    <3> QED
      BY <3>1, <3>2
  <2> QED
    BY <2>3, <2>6
<1> QED
  BY <1>2, <1>3

LEMMA MemoryCuts ==
  ASSUME MInv,
         (\E e \in Entry : StoreThrows(e)) \/ (\E p \in MProc : MCrash(p))
  PROVE  (VectorGone /\ Together /\ Indexed)'
<1>0. /\ MTypeOK /\ Started /\ EvictsSomething /\ VectorGone /\ Together /\ Indexed
      /\ MBase /\ \A e \in Entry : Home[e] \in MProc
  BY MemoryAssumption DEF MInv, MBase
<1>1. ASSUME NEW e \in Entry, StoreThrows(e) PROVE (VectorGone /\ Together /\ Indexed)'
  <2>1. /\ at' = [at EXCEPT ![e] = "failed"] /\ cut' = cut \cup {e}
        /\ at[e] # "evictRow"
        /\ UNCHANGED <<rows, doomed, excess>>
        /\ DeleteVector(e, Home[e]) \/ UNCHANGED <<vectors, index>>
    BY <1>1 DEF StoreThrows, Throws, At, Goto
  <2>2. /\ at'[e] = "failed" /\ \A d \in Entry : d # e => at'[d] = at[d]
    BY <1>0, <2>1 DEF MTypeOK
  <2>3. vectors' \subseteq vectors /\ vectors \subseteq vectors' \cup {e}
    BY <2>1 DEF DeleteVector
  <2>4. VectorGone'
    BY <1>0, <2>1, <2>2, <2>3 DEF VectorGone
  <2>5. \A x \in Entry : x # e /\ InFlux(x) => InFlux(x)'
    BY <2>1, <2>2 DEF InFlux
  <2>6. Together'
    BY <1>0, <2>1, <2>3, <2>5 DEF Together
  <2>7. Indexed'
    <3>1. CASE DeleteVector(e, Home[e])
      BY <1>0, <3>1, DeleteVectorIndexed
    <3>2. CASE UNCHANGED <<vectors, index>>
      BY <1>0, <3>2 DEF Indexed
    <3> QED
      BY <2>1, <3>1, <3>2
  <2> QED
    BY <2>4, <2>6, <2>7
<1>2. ASSUME NEW p \in MProc, MCrash(p) PROVE (VectorGone /\ Together /\ Indexed)'
  <2>1. PICK mine \in SUBSET Entry :
          /\ cut' = cut \cup mine \cup UNION {ToSet(doomed[e]) : e \in mine}
          /\ at' = [e \in Entry |-> IF e \in mine THEN "lost" ELSE at[e]]
          /\ doomed' = [e \in Entry |-> IF e \in mine THEN <<>> ELSE doomed[e]]
          /\ index' = [index EXCEPT ![p] = vectors]
          /\ UNCHANGED <<vectors, rows, excess>>
    BY <1>2 DEF MCrash
  <2>2. \A d \in Entry : \/ (d \in mine /\ at'[d] = "lost")
                         \/ (d \notin mine /\ at'[d] = at[d] /\ doomed'[d] = doomed[d])
    BY <2>1
  <2>3. VectorGone'
    BY <1>0, <2>1, <2>2 DEF VectorGone
  <2>4. ASSUME NEW x \in Entry, x \notin cut', InFlux(x) PROVE InFlux(x)'
    <3>1. CASE at[x] = "row"
      BY <2>1, <2>2, <2>4, <3>1 DEF InFlux
    <3>2. CASE \E d \in Entry : at[d] = "evictRow" /\ Head(doomed[d]) = x
      <4>1. PICK d \in Entry : at[d] = "evictRow" /\ Head(doomed[d]) = x
        BY <3>2
      <4>2. x \in ToSet(doomed[d])
        BY <1>0, <4>1, DoomedWasStored
      <4>3. d \notin mine
        BY <2>1, <2>4, <4>2
      <4> QED
        BY <2>2, <4>1, <4>3 DEF InFlux
    <3> QED
      BY <2>4, <3>1, <3>2 DEF InFlux
  <2>5. Together'
    BY <1>0, <2>1, <2>4 DEF Together
  <2>6. \A q \in MProc : index'[q] = index[q] \/ index'[q] = vectors
    BY <1>0, <2>1 DEF MTypeOK
  <2>7. Indexed'
    BY <1>0, <2>1, <2>6 DEF Indexed, MTypeOK
  <2> QED
    BY <2>3, <2>5, <2>7
<1> QED
  BY <1>1, <1>2

LEMMA MemoryStep == MInv /\ [MNext]_mvars => MInv'
<1> SUFFICES ASSUME MInv, [MNext]_mvars PROVE MInv'
  OBVIOUS
<1>0. MBase
  BY DEF MInv, MBase
<1>1. CASE MNext
  <2>1. MBase'
    BY <1>0, <1>1, BaseWrites, BaseEvictions, BaseCuts DEF MNext
  <2>2. (VectorGone /\ Together /\ Indexed)'
    BY <1>1, MemoryWrites, MemoryEvictions, MemoryCuts DEF MNext
  <2> QED
    BY <2>1, <2>2 DEF MInv, MBase
<1>2. CASE UNCHANGED mvars
  BY <1>2
  DEF mvars, MInv, MTypeOK, Started, EvictsSomething, VectorGone, Together, InFlux,
      Indexed
<1> QED
  BY <1>1, <1>2

\* No memory has two rows, whatever the processes store and evict between each
\* other's statements (MemoryManager.store and enforceRetentionLimit).
THEOREM MemoryTypes == MSpec => []MTypeOK
  <1>1. MInv => MTypeOK
    BY DEF MInv
  <1> QED
    BY MemoryStart, MemoryStep, <1>1, PTL DEF MSpec

\* A memory that no crash and no exception touched has its vector exactly when
\* it has its row, and the process that stored it finds it, for any number of
\* processes that store and evict (MemoryManager.store, VectorStore.delete).
THEOREM MemoriesFindable == MSpec => []FindableUnlessCut
  <1>1. MInv => FindableUnlessCut
    BY DEF MInv, Together, Indexed, FindableUnlessCut
  <1> QED
    BY MemoryStart, MemoryStep, <1>1, PTL DEF MSpec
-----------------------------------------------------------------------------
(* The memories: how many there may be.                                    *)

\* The store()s that will still count the rows, and those that found too many.
Uncounted == {e \in Entry : at[e] \in {"outcome", "count"}}
Counted   == {e \in Entry : at[e] \in {"pick", "evict", "evictRow"}}

\* The rows that a store() is going to evict.
Going(e) ==
  IF at[e] = "pick" THEN First(rows, excess[e]) ELSE ToSet(doomed[e])

\* The rows that nothing cut short and that are counted already.
Standing == (ToSet(rows) \ cut) \ Uncounted

Few(S) == Cardinality(S) <= MemoryMax

\* Whichever of the evicting store()s come to nothing, and with the rows they
\* wrote left out, there are few rows, or one of the other evicting store()s
\* is going to leave few.  (A store() that counts sees every row, and answers
\* for all that were counted before.)
EnoughGoing ==
  \A T \in SUBSET Counted :
    \/ Few(Standing \ T)
    \/ \E e \in Counted \ T : Few((Standing \ T) \ Going(e))

LEMMA FewerAreFew ==
  ASSUME NEW R \in SUBSET Entry, NEW S \in SUBSET R, Few(R)
  PROVE  Few(S)
<1>1. IsFiniteSet(R) /\ Cardinality(R) \in Nat
  BY MemoryAssumption, FS_Subset, FS_CardinalityType
<1>2. Cardinality(S) <= Cardinality(R) /\ Cardinality(S) \in Nat
  BY <1>1, FS_Subset, FS_CardinalityType
<1> QED
  BY <1>1, <1>2, MemoryAssumption DEF Few

\* Rows leave, or are cut, with the evicting store()s of G (none or one), and
\* nobody is going to evict less of those that stand.
LEMMA EnoughLeft ==
  ASSUME MTypeOK, EnoughGoing, NEW G \in SUBSET Counted,
         Counted' \subseteq Counted, Counted \subseteq Counted' \cup G,
         Standing' \subseteq Standing \ G,
         \A e \in Counted' : Standing' \ Going(e)' \subseteq Standing \ Going(e)
  PROVE  EnoughGoing'
<1>1. Standing \subseteq Entry
  BY LenProperties DEF Standing, ToSet, MTypeOK
<1> SUFFICES ASSUME NEW T \in SUBSET Counted'
             PROVE  \/ Few(Standing' \ T)
                    \/ \E e \in Counted' \ T : Few((Standing' \ T) \ Going(e)')
  BY DEF EnoughGoing, Few
<1>2. PICK U \in SUBSET Counted : U = T \cup G
  OBVIOUS
<1>3. CASE Few(Standing \ U)
  <2>1. Standing' \ T \in SUBSET (Standing \ U) /\ Standing \ U \in SUBSET Entry
    BY <1>1, <1>2
  <2> QED
    BY <1>3, <2>1, FewerAreFew
<1>4. CASE \E e \in Counted \ U : Few((Standing \ U) \ Going(e))
  <2>1. PICK e \in Counted \ U : Few((Standing \ U) \ Going(e))
    BY <1>4
  <2>2. e \in Counted' \ T
    BY <1>2, <2>1
  <2>3. /\ (Standing' \ T) \ Going(e)' \in SUBSET ((Standing \ U) \ Going(e))
        /\ (Standing \ U) \ Going(e) \in SUBSET Entry
    BY <1>1, <1>2, <2>2
  <2>4. Few((Standing' \ T) \ Going(e)')
    BY <2>1, <2>3, FewerAreFew
  <2> QED
    BY <2>2, <2>4
<1> QED
  BY <1>3, <1>4 DEF EnoughGoing
\* An eviction goes on, or ends with nothing left to evict.
LEMMA EnoughEvicted ==
  ASSUME MTypeOK, EnoughGoing, NEW e \in Counted,
         Counted' \subseteq Counted, Counted \subseteq Counted' \cup {e},
         Standing' \subseteq Standing,
         \A d \in Counted' : Standing' \ Going(d)' \subseteq Standing \ Going(d),
         e \notin Counted' => Standing' \cap Going(e) = {}
  PROVE  EnoughGoing'
<1>1. CASE e \in Counted'
  <2>1. {} \in SUBSET Counted /\ Counted \subseteq Counted' \cup {}
        /\ Standing' \subseteq Standing \ {}
    BY <1>1
  <2> QED
    BY <2>1, EnoughLeft
<1>2. CASE e \notin Counted'
  <2>1. Standing \subseteq Entry
    BY LenProperties DEF Standing, ToSet, MTypeOK
  <2> SUFFICES ASSUME NEW T \in SUBSET Counted'
               PROVE  \/ Few(Standing' \ T)
                      \/ \E d \in Counted' \ T : Few((Standing' \ T) \ Going(d)')
    BY DEF EnoughGoing, Few
  <2>2. CASE Few(Standing \ T)
    <3>1. Standing' \ T \in SUBSET (Standing \ T) /\ Standing \ T \in SUBSET Entry
      BY <2>1
    <3> QED
      BY <2>2, <3>1, FewerAreFew
  <2>3. ASSUME NEW d \in Counted \ T, Few((Standing \ T) \ Going(d))
        PROVE  \/ Few(Standing' \ T)
               \/ \E c \in Counted' \ T : Few((Standing' \ T) \ Going(c)')
    <3>0. (Standing \ T) \ Going(d) \in SUBSET Entry
      BY <2>1
    <3>1. CASE d = e
      <4>1. Standing' \ T \in SUBSET ((Standing \ T) \ Going(d))
        BY <1>2, <3>1
      <4> QED
        BY <2>3, <3>0, <4>1, FewerAreFew
    <3>2. CASE d # e
      <4>1. d \in Counted' \ T
        BY <3>2
      <4>2. (Standing' \ T) \ Going(d)' \in SUBSET ((Standing \ T) \ Going(d))
        BY <4>1
      <4>3. Few((Standing' \ T) \ Going(d)')
        BY <2>3, <3>0, <4>2, FewerAreFew
      <4> QED
        BY <4>1, <4>3
    <3> QED
      BY <3>1, <3>2
  <2> QED
    BY <2>2, <2>3 DEF EnoughGoing
<1> QED
  BY <1>1, <1>2

LEMMA EnoughAfterWrites ==
  ASSUME MBase, EnoughGoing, NEW e \in Entry,
         \/ StoreVector(e) \/ InsertRow(e) \/ WriteOutcome(e) \/ EvictVector(e)
  PROVE  EnoughGoing'
<1>0. MTypeOK /\ Started
  BY DEF MBase
<1>1. /\ UNCHANGED <<doomed, excess, cut>>
      /\ rows' = rows \/ (rows' = Append(rows, e) /\ at'[e] = "outcome")
      /\ e \in Uncounted' => e \in Uncounted \/ rows' = Append(rows, e)
      /\ e \in Uncounted => e \in Uncounted'
      /\ e \in Counted <=> e \in Counted'
      /\ at'[e] # "pick" /\ at[e] # "pick"
      /\ \A d \in Entry : d # e => at'[d] = at[d]
  <2>1. CASE StoreVector(e)
    BY <1>0, <2>1 DEF StoreVector, At, Goto, MTypeOK, Uncounted, Counted
  <2>2. CASE InsertRow(e)
    BY <1>0, <2>2 DEF InsertRow, At, Goto, MTypeOK, Uncounted, Counted
  <2>3. CASE WriteOutcome(e)
    BY <1>0, <2>3 DEF WriteOutcome, At, Goto, MTypeOK, Uncounted, Counted
  <2>4. CASE EvictVector(e)
    BY <1>0, <2>4 DEF EvictVector, At, Goto, MTypeOK, Uncounted, Counted
  <2> QED
    BY <2>1, <2>2, <2>3, <2>4
<1>2. /\ ToSet(rows') \subseteq ToSet(rows) \cup {e}
      /\ rows' = rows \/ e \in Uncounted'
      /\ \A k \in Nat : First(rows, k) \subseteq First(rows', k)
  <2>1. rows \in Seq(Entry)
    BY <1>0 DEF MTypeOK
  <2>2. /\ ToSet(Append(rows, e)) = ToSet(rows) \cup {e}
        /\ \A k \in Nat : First(rows, k) \subseteq First(Append(rows, e), k)
    BY <2>1, AppendElements
  <2>3. at'[e] = "outcome" => e \in Uncounted'
    BY DEF Uncounted
  <2>4. CASE rows' = rows
    BY <2>4
  <2>5. CASE rows' = Append(rows, e) /\ at'[e] = "outcome"
    BY <2>2, <2>3, <2>5
  <2> QED
    BY <1>1, <2>4, <2>5
<1>3. Counted' = Counted /\ \A d \in Entry : d # e => (d \in Uncounted' <=> d \in Uncounted)
  BY <1>1 DEF Counted, Uncounted
<1>4. Standing' \subseteq Standing
  <2> SUFFICES ASSUME NEW x \in ToSet(rows'), x \notin cut, x \notin Uncounted'
               PROVE  x \in ToSet(rows) /\ x \notin Uncounted
    BY <1>1 DEF Standing
  <2>1. x \in ToSet(rows)
    BY <1>2
  <2>2. x \in Entry
    BY <1>0, <2>1, LenProperties DEF MTypeOK, ToSet
  <2> QED
    BY <1>1, <1>3, <2>1, <2>2
<1>5. \A d \in Counted : Going(d) \subseteq Going(d)'
  <2>1. \A d \in Counted : excess[d] \in Nat /\ d \in Entry
    BY <1>0 DEF MTypeOK, Counted
  <2> QED
    BY <1>1, <1>2, <2>1 DEF Going
<1>6. {} \in SUBSET Counted /\ Counted' \subseteq Counted
      /\ Counted \subseteq Counted' \cup {} /\ Standing' \subseteq Standing \ {}
      /\ \A d \in Counted' : Standing' \ Going(d)' \subseteq Standing \ Going(d)
  BY <1>3, <1>4, <1>5
<1> QED
  BY <1>0, <1>6, EnoughLeft

\* Who counts sees every row: the limit holds, or its own eviction restores it.
LEMMA EnoughAfterCount ==
  ASSUME MBase, EnoughGoing, NEW e \in Entry, CountRows(e)
  PROVE  EnoughGoing'
<1>0. /\ MTypeOK /\ rows \in Seq(Entry) /\ IsInjective(rows) /\ Len(rows) \in Nat
      /\ MemoryMax \in Nat /\ ToSet(rows) \subseteq Entry
  BY MemoryAssumption, LenProperties DEF MBase, MTypeOK, ToSet
<1>1. /\ at[e] = "count" /\ \A d \in Entry : d # e => at'[d] = at[d]
      /\ \A d \in Entry : d # e => excess'[d] = excess[d]
      /\ UNCHANGED <<rows, doomed, cut>>
  BY <1>0 DEF CountRows, At, Goto, MTypeOK
<1>2. Standing' \subseteq ToSet(rows)
  BY <1>1 DEF Standing
<1>3. CASE Len(rows) <= MemoryMax
  <2>1. Few(ToSet(rows))
    <3>1. 0 \in Nat /\ ToSet(rows) = ToSet(rows) \ First(rows, Len(rows) - Len(rows))
      BY <1>0, LenProperties DEF First
    <3>2. PICK T : /\ ToSet(rows) \ First(rows, Len(rows) - Len(rows)) \subseteq T
                   /\ IsFiniteSet(T) /\ Cardinality(T) <= Len(rows)
      BY <1>0, LateElements
    <3>3. Cardinality(ToSet(rows)) <= Cardinality(T) /\ Cardinality(T) \in Nat
          /\ Cardinality(ToSet(rows)) \in Nat
      BY <3>1, <3>2, FS_Subset, FS_CardinalityType
    <3>4. Cardinality(ToSet(rows)) <= MemoryMax
      BY <1>0, <1>3, <3>2, <3>3
    <3> QED
      BY <3>4 DEF Few
  <2>2. ASSUME NEW T PROVE Few(Standing' \ T)
    <3>1. Standing' \ T \in SUBSET ToSet(rows) /\ ToSet(rows) \in SUBSET Entry
      BY <1>0, <1>2
    <3> QED
      BY <2>1, <3>1, FewerAreFew
  <2> QED
    BY <2>2 DEF EnoughGoing, Few
<1>4. CASE ~(Len(rows) <= MemoryMax)
  <2>1. at'[e] = "pick" /\ excess'[e] = Len(rows) - MemoryMax
    BY <1>0, <1>4 DEF CountRows, Goto, MTypeOK
  <2>2. /\ e \notin Counted /\ e \in Uncounted /\ e \notin Standing
        /\ Counted' = Counted \cup {e} /\ Uncounted' = Uncounted \ {e}
    BY <1>1, <2>1 DEF Counted, Uncounted, Standing
  <2>3. Standing' \subseteq Standing \cup {e}
    BY <1>1, <2>2 DEF Standing
  <2>4. \A d \in Counted : Going(d)' = Going(d)
    BY <1>1, <2>2 DEF Going, Counted
  <2>5. Standing \subseteq Entry
    BY <1>0 DEF Standing
  <2> SUFFICES ASSUME NEW T \in SUBSET Counted'
               PROVE  \/ Few(Standing' \ T)
                      \/ \E d \in Counted' \ T : Few((Standing' \ T) \ Going(d)')
    BY DEF EnoughGoing, Few
  <2>6. CASE e \in T
    <3>1. PICK U \in SUBSET Counted : U = T \ {e}
      BY <2>2
    <3>2. Standing' \ T \in SUBSET (Standing \ U) /\ Standing \ U \in SUBSET Entry
      BY <2>3, <2>5, <2>6, <3>1
    <3>3. CASE Few(Standing \ U)
      BY <3>2, <3>3, FewerAreFew
    <3>4. CASE \E d \in Counted \ U : Few((Standing \ U) \ Going(d))
      <4>1. PICK d \in Counted \ U : Few((Standing \ U) \ Going(d))
        BY <3>4
      <4>2. d \in Counted' \ T
        BY <2>2, <3>1, <4>1
      <4>3. /\ (Standing' \ T) \ Going(d)' \in SUBSET ((Standing \ U) \ Going(d))
            /\ (Standing \ U) \ Going(d) \in SUBSET Entry
        BY <2>4, <2>5, <3>2, <4>1
      <4>4. Few((Standing' \ T) \ Going(d)')
        BY <4>1, <4>3, FewerAreFew
      <4> QED
        BY <4>2, <4>4
    <3> QED
      BY <3>1, <3>3, <3>4 DEF EnoughGoing
  <2>7. CASE e \notin T
    <3>1. PICK R : /\ ToSet(rows) \ First(rows, Len(rows) - MemoryMax) \subseteq R
                   /\ IsFiniteSet(R) /\ Cardinality(R) <= MemoryMax
      <4>1. MemoryMax <= Len(rows)
        BY <1>0, <1>4
      <4> QED
        BY <1>0, <4>1, LateElements
    <3>2. Going(e)' = First(rows, Len(rows) - MemoryMax)
      BY <1>1, <2>1 DEF Going
    <3>3. PICK S : S = (Standing' \ T) \ Going(e)'
      OBVIOUS
    <3>4. S \in SUBSET R
      BY <1>2, <3>1, <3>2, <3>3
    <3>5. Cardinality(S) <= Cardinality(R) /\ Cardinality(S) \in Nat
          /\ Cardinality(R) \in Nat
      BY <3>1, <3>4, FS_Subset, FS_CardinalityType
    <3>6. Cardinality(S) <= MemoryMax
      BY <1>0, <3>1, <3>5
    <3>7. Few((Standing' \ T) \ Going(e)')
      BY <3>3, <3>6 DEF Few
    <3> QED
      BY <2>2, <2>7, <3>7
  <2> QED
    BY <2>6, <2>7
<1> QED
  BY <1>3, <1>4

LEMMA EnoughAfterPick ==
  ASSUME MBase, EnoughGoing, NEW e \in Entry, PickOldest(e)
  PROVE  EnoughGoing'
<1>0. /\ MTypeOK /\ rows \in Seq(Entry) /\ excess[e] \in Nat
  BY DEF MBase, MTypeOK
<1>1. /\ at[e] = "pick" /\ at'[e] = IF rows = <<>> THEN "stored" ELSE "evict"
      /\ \A d \in Entry : d # e => at'[d] = at[d] /\ doomed'[d] = doomed[d]
      /\ doomed'[e] = SubSeq(rows, 1, IF excess[e] < Len(rows)
                                      THEN excess[e] ELSE Len(rows))
      /\ UNCHANGED <<rows, excess, cut>>
  BY <1>0 DEF PickOldest, At, Goto, MTypeOK
<1>2. ToSet(doomed'[e]) = First(rows, excess[e])
  BY <1>0, <1>1, Prefix
<1>3. /\ Standing' = Standing /\ e \in Counted
      /\ Counted' \subseteq Counted /\ Counted \subseteq Counted' \cup {e}
  BY <1>1 DEF Standing, Uncounted, Counted
<1>4. \A d \in Counted' : Going(d)' = Going(d)
  BY <1>1, <1>2 DEF Going, Counted
<1>5. e \notin Counted' => Standing' \cap Going(e) = {}
  <2>1. e \notin Counted' => rows = <<>>
    BY <1>1 DEF Counted
  <2>2. rows = <<>> => ToSet(rows) = {}
    <3>1. DOMAIN <<>> = {}
      OBVIOUS
    <3> QED
      BY <3>1 DEF ToSet
  <2> QED
    BY <1>3, <2>1, <2>2 DEF Standing
<1> QED
  BY <1>0, <1>3, <1>4, <1>5, EnoughEvicted

LEMMA EnoughAfterEviction ==
  ASSUME MBase, EnoughGoing, NEW e \in Entry, EvictRow(e) \/ EvictionThrows(e)
  PROVE  EnoughGoing'
<1>0. MTypeOK /\ EvictsSomething /\ \A d \in Entry : excess[d] \in Nat
  BY DEF MBase, MTypeOK
<1>1. /\ at[e] \in {"evict", "evictRow"} /\ NextDoomed(e) /\ UNCHANGED excess
  BY DEF EvictRow, EvictionThrows, At
<1>2. PICK h : h = Head(doomed[e])
  OBVIOUS
<1>3. /\ ToSet(doomed[e]) = {h} \cup ToSet(doomed'[e])
      /\ at'[e] \in {"stored", "evict"}
      /\ at'[e] = "stored" => ToSet(doomed'[e]) = {}
      /\ \A d \in Entry : d # e => at'[d] = at[d] /\ doomed'[d] = doomed[d]
  BY <1>0, <1>1, <1>2, NextDoomedKeeps
<1>4. /\ ToSet(rows') \ cut' \subseteq (ToSet(rows) \ cut) \ {h}
      /\ \A k \in Nat : ToSet(rows') \ First(rows', k) \subseteq ToSet(rows) \ First(rows, k)
  <2>1. CASE EvictRow(e)
    BY <1>0, <1>2, <2>1, RowsWithoutKeeps DEF EvictRow
  <2>2. CASE EvictionThrows(e)
    BY <1>2, <2>2 DEF EvictionThrows, Throws
  <2> QED
    BY <2>1, <2>2
<1>5. /\ e \in Counted /\ Uncounted' = Uncounted
      /\ Counted' \subseteq Counted /\ Counted \subseteq Counted' \cup {e}
      /\ e \notin Counted' => at'[e] = "stored"
  BY <1>1, <1>3 DEF Counted, Uncounted
<1>6. Standing' \subseteq Standing \ {h}
  BY <1>4, <1>5 DEF Standing
<1>7. ASSUME NEW d \in Counted'
      PROVE  Standing' \ Going(d)' \subseteq Standing \ Going(d)
  <2>1. d \in Entry
    BY DEF Counted
  <2>2. CASE d = e
    <3>1. at'[e] # "pick" /\ at[e] # "pick"
      BY <1>1, <1>3
    <3> QED
      BY <1>3, <1>6, <2>2, <3>1 DEF Going
  <2>3. CASE d # e /\ at[d] # "pick"
    BY <1>3, <1>6, <2>1, <2>3 DEF Going
  <2>4. CASE d # e /\ at[d] = "pick"
    <3>1. Going(d)' = First(rows', excess[d]) /\ Going(d) = First(rows, excess[d])
      BY <1>1, <1>3, <2>1, <2>4 DEF Going
    <3>2. Standing' \subseteq ToSet(rows')
      BY DEF Standing
    <3> QED
      BY <1>0, <1>4, <1>6, <2>1, <3>1, <3>2
  <2> QED
    BY <2>2, <2>3, <2>4
<1>8. e \notin Counted' => Standing' \cap Going(e) = {}
  <2>1. Going(e) = ToSet(doomed[e])
    BY <1>1 DEF Going
  <2> QED
    BY <1>3, <1>5, <1>6, <2>1
<1> QED
  BY <1>0, <1>5, <1>6, <1>7, <1>8, EnoughEvicted

LEMMA EnoughAfterCuts ==
  ASSUME MBase, EnoughGoing,
         (\E e \in Entry : StoreThrows(e)) \/ (\E p \in MProc : MCrash(p))
  PROVE  EnoughGoing'
<1>0. MTypeOK
  BY DEF MBase
<1>1. PICK mine \in SUBSET Entry :
        /\ \A d \in mine : at'[d] \in {"failed", "lost"}
        /\ \A d \in Entry \ mine : at'[d] = at[d] /\ doomed'[d] = doomed[d]
        /\ cut \cup mine \subseteq cut' /\ UNCHANGED <<rows, excess>>
  <2>1. ASSUME NEW e \in Entry, StoreThrows(e)
        PROVE  /\ \A d \in {e} : at'[d] \in {"failed", "lost"}
               /\ \A d \in Entry \ {e} : at'[d] = at[d] /\ doomed'[d] = doomed[d]
               /\ cut \cup {e} \subseteq cut' /\ UNCHANGED <<rows, excess>>
    BY <1>0, <2>1 DEF StoreThrows, Throws, Goto, MTypeOK
  <2>2. ASSUME NEW p \in MProc, MCrash(p)
        PROVE  \E m \in SUBSET Entry :
                 /\ \A d \in m : at'[d] \in {"failed", "lost"}
                 /\ \A d \in Entry \ m : at'[d] = at[d] /\ doomed'[d] = doomed[d]
                 /\ cut \cup m \subseteq cut' /\ UNCHANGED <<rows, excess>>
    <3>1. PICK m \in SUBSET Entry :
            /\ cut' = cut \cup m \cup UNION {ToSet(doomed[e]) : e \in m}
            /\ at' = [e \in Entry |-> IF e \in m THEN "lost" ELSE at[e]]
            /\ doomed' = [e \in Entry |-> IF e \in m THEN <<>> ELSE doomed[e]]
            /\ UNCHANGED <<rows, excess>>
      BY <2>2 DEF MCrash
    <3> QED
      BY <3>1
  <2>3. CASE \E e \in Entry : StoreThrows(e)
    <3>1. PICK e \in Entry : StoreThrows(e)
      BY <2>3
    <3>2. {e} \in SUBSET Entry
      OBVIOUS
    <3> QED
      BY <2>1, <3>1, <3>2
  <2>4. CASE \E p \in MProc : MCrash(p)
    BY <2>2, <2>4
  <2> QED
    BY <2>3, <2>4
<1>2. PICK G \in SUBSET Counted : G = mine \cap Counted
  OBVIOUS
<1>3. /\ Counted' = Counted \ mine /\ Uncounted' = Uncounted \ mine
  BY <1>1 DEF Counted, Uncounted
<1>4. Standing' \subseteq Standing \ mine
  BY <1>1, <1>3 DEF Standing
<1>5. \A d \in Counted' : Going(d)' = Going(d)
  BY <1>1, <1>3 DEF Going, Counted
<1>6. /\ Counted' \subseteq Counted /\ Counted \subseteq Counted' \cup G
      /\ Standing' \subseteq Standing \ G
      /\ \A d \in Counted' : Standing' \ Going(d)' \subseteq Standing \ Going(d)
  BY <1>2, <1>3, <1>4, <1>5
<1> QED
  BY <1>0, <1>6, EnoughLeft

LEMMA EnoughStart == MInit => EnoughGoing
<1> SUFFICES ASSUME MInit PROVE EnoughGoing
  OBVIOUS
<1>1. ToSet(<<>>) = {}
  <2>1. DOMAIN <<>> = {}
    OBVIOUS
  <2> QED
    BY <2>1 DEF ToSet
<1>2. Standing = {}
  BY <1>1 DEF MInit, Standing
<1>3. \A T : Few(Standing \ T)
  <2>1. Cardinality({}) = 0 /\ 0 <= MemoryMax
    BY FS_EmptySet, MemoryAssumption
  <2>2. \A T : Standing \ T = {}
    BY <1>2
  <2> QED
    BY <2>1, <2>2 DEF Few
<1> QED
  BY <1>3 DEF EnoughGoing

LEMMA EnoughStep == MInv /\ EnoughGoing /\ [MNext]_mvars => EnoughGoing'
<1> SUFFICES ASSUME MInv, EnoughGoing, [MNext]_mvars PROVE EnoughGoing'
  OBVIOUS
<1>0. MBase
  BY DEF MInv, MBase
<1>1. CASE MNext
  BY <1>0, <1>1, EnoughAfterWrites, EnoughAfterCount, EnoughAfterPick,
     EnoughAfterEviction, EnoughAfterCuts DEF MNext
<1>2. CASE UNCHANGED mvars
  <2>1. Standing' = Standing /\ Counted' = Counted
    BY <1>2 DEF mvars, Standing, Counted, Uncounted
  <2>2. \A d \in Counted : Going(d)' = Going(d)
    BY <1>2 DEF mvars, Going
  <2>3. {} \in SUBSET Counted /\ Counted \subseteq Counted' \cup {}
        /\ Standing' \subseteq Standing \ {} /\ Counted' \subseteq Counted
        /\ \A d \in Counted' : Standing' \ Going(d)' \subseteq Standing \ Going(d)
    BY <2>1, <2>2
  <2> QED
    BY <1>0, <2>3, EnoughLeft DEF MBase
<1> QED
  BY <1>1, <1>2

\* The limit of memories holds when nobody stores, for every limit and any
\* number of processes that store and evict between each other's statements,
\* up to the entries that a crash or an exception touched
\* (MemoryManager.enforceRetentionLimit).
THEOREM MemoriesWithinLimit == MSpec => []WithinLimit
<1>1. MInv /\ EnoughGoing => WithinLimit
  <2> SUFFICES ASSUME MInv, EnoughGoing, \A e \in Entry : at[e] \notin Sync
               PROVE  Len(rows) <= MemoryMax + Cardinality(cut)
    BY DEF WithinLimit
  <2>1. MTypeOK /\ rows \in Seq(Entry) /\ IsInjective(rows) /\ Len(rows) \in Nat
        /\ cut \subseteq Entry
    BY LenProperties DEF MInv, MTypeOK
  <2>2. Counted = {} /\ Uncounted = {}
    BY DEF Counted, Uncounted, Sync
  <2>3. Few(ToSet(rows) \ cut)
    <3>1. {} \in SUBSET Counted
      OBVIOUS
    <3>2. Few(Standing \ {})
      BY <2>2, <3>1 DEF EnoughGoing
    <3>3. Standing \ {} = ToSet(rows) \ cut
      BY <2>2 DEF Standing
    <3> QED
      BY <3>2, <3>3
  <2>4. PICK A, B : A = ToSet(rows) \ cut /\ B = cut
    OBVIOUS
  <2>5. /\ IsFiniteSet(A) /\ IsFiniteSet(B) /\ ToSet(rows) \in SUBSET (A \cup B)
        /\ Len(rows) <= Cardinality(ToSet(rows))
    <3>1. ToSet(rows) \subseteq Entry /\ Len(rows) <= Cardinality(ToSet(rows))
      BY <2>1, MemoryAssumption, LengthOfSet
    <3>2. A \in SUBSET Entry /\ B \in SUBSET Entry
      BY <2>1, <2>4, <3>1
    <3> QED
      BY <2>4, <3>1, <3>2, MemoryAssumption, FS_Subset
  <2>6. /\ IsFiniteSet(A \cup B)
        /\ Cardinality(A \cup B) =
             Cardinality(A) + Cardinality(B) - Cardinality(A \cap B)
        /\ IsFiniteSet(A \cap B)
    BY <2>5, FS_Union, FS_Intersection
  <2>7. Cardinality(ToSet(rows)) <= Cardinality(A \cup B)
        /\ Cardinality(ToSet(rows)) \in Nat
    BY <2>5, <2>6, FS_Subset, FS_CardinalityType
  <2>8. /\ Cardinality(A) \in Nat /\ Cardinality(B) \in Nat
        /\ Cardinality(A \cap B) \in Nat /\ MemoryMax \in Nat
        /\ Cardinality(A \cup B) \in Nat /\ Cardinality(A) <= MemoryMax
    BY <2>3, <2>4, <2>5, <2>6, FS_CardinalityType, MemoryAssumption DEF Few
  <2>9. Len(rows) <= MemoryMax + Cardinality(B)
    BY <2>1, <2>5, <2>6, <2>7, <2>8
  <2> QED
    BY <2>4, <2>9
<1> QED
  BY MemoryStart, MemoryStep, EnoughStart, EnoughStep, <1>1, PTL DEF MSpec
=============================================================================
