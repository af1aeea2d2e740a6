----------------------------- MODULE GuardedCalls -----------------------------
(***************************************************************************)
(* A call of the filesystem, git or search connector: it asks the          *)
(* gatekeeper, acts when that grants, and accounts for every step in       *)
(* audit_log, which is also what the searches are rationed by.  Each call  *)
(* runs in a process of its own over the shared database, so that the      *)
(* statements of two calls interleave; any of them may throw and any       *)
(* process may end.                                                        *)
(***************************************************************************)
EXTENDS Naturals, FiniteSets, Sequences, SequencesExt

CONSTANTS
  Call,        \* calls of the connectors
  Payload,     \* requests of tasks, as the approval queue tells them apart
  Asks,        \* the payload of a call
  FromVoice,   \* payloads of tasks that came by voice
  HighFriction,\* payloads whose action needs more than a click
  Limit,       \* config.searchRateLimitCount
  MaxFaults    \* bound: statements that throw, processes that end

ASSUME CallAssumption ==
  /\ Asks \in [Call -> Payload]
  /\ FromVoice \subseteq Payload /\ HighFriction \subseteq Payload
  /\ Limit \in Nat /\ MaxFaults \in Nat

VARIABLES
  method,    \* what is called
  stage,     \* how far a call is
  verdict,   \* its decision row
  outcome,   \* its outcome row
  effect,    \* what it did to the disk, the remote or the search engine
  recent,    \* request rows of searches within the window, oldest first
  queue,     \* pending_approvals: the status of the row for a payload
  marred,    \* history: calls that a fault hit
  faults

gvars == <<method, stage, verdict, outcome, effect, recent, queue, marred, faults>>

Methods == {"listDir", "readFile", "writeFile", "deleteFile", "commit", "push",
            "forcePush", "resetHard", "search"}

GTypeOK ==
  /\ method \in [Call -> Methods]
  /\ stage \in [Call -> {"new", "requested", "prompted", "decided", "counted",
                         "staged", "acted", "ended", "lost"}]
  /\ verdict \in [Call -> {"none", "granted", "denied", "pending"}]
  /\ outcome \in [Call -> {"none", "success", "denied", "error", "rationed"}]
  /\ effect \in [Call -> {"none", "part", "done"}]
  /\ recent \in Seq(Call) /\ IsInjective(recent)
  /\ queue \in [Payload -> {"none", "pending", "granted", "denied"}]
  /\ marred \subseteq Call
  /\ faults \in 0..MaxFaults

GInit ==
  /\ method \in [Call -> Methods]
  /\ stage = [c \in Call |-> "new"]
  /\ verdict = [c \in Call |-> "none"]
  /\ outcome = [c \in Call |-> "none"]
  /\ effect = [c \in Call |-> "none"]
  /\ recent = <<>>
  /\ queue = [q \in Payload |-> "none"]
  /\ marred = {} /\ faults = 0

-----------------------------------------------------------------------------
(* PermissionGatekeeper.authorize                                          *)

\* The request row comes first.
RecordRequest(c) ==
  /\ stage[c] = "new"
  /\ stage' = [stage EXCEPT ![c] = "requested"]
  /\ recent' = IF method[c] = "search" THEN Append(recent, c) ELSE recent
  /\ UNCHANGED <<verdict, outcome, effect, queue, marred, faults>>

Decide(c, v) ==
  /\ verdict' = [verdict EXCEPT ![c] = v]
  /\ stage' = [stage EXCEPT ![c] = "decided"]

\* The role may not do this.
RoleRefuses(c) ==
  /\ stage[c] = "requested"
  /\ Decide(c, "denied")
  /\ UNCHANGED <<outcome, effect, recent, queue, marred, faults>>

\* autoApproveActions, autonomous mode or the allowlist.
PolicyGrants(c) ==
  /\ stage[c] = "requested"
  /\ Decide(c, "granted")
  /\ UNCHANGED <<outcome, effect, recent, queue, marred, faults>>

\* Unattended, or a task that came by voice: the answer is the row's, which is
\* inserted when there is none.
ConsultQueue(c) ==
  LET q == Asks[c] IN
  /\ stage[c] = "requested"
  /\ Decide(c, IF queue[q] = "none" THEN "pending" ELSE queue[q])
  /\ queue' = [queue EXCEPT ![q] = IF @ = "none" THEN "pending" ELSE @]
  /\ UNCHANGED <<outcome, effect, recent, marred, faults>>

Prompt(c) ==
  /\ stage[c] = "requested" /\ Asks[c] \notin FromVoice
  /\ stage' = [stage EXCEPT ![c] = "prompted"]
  /\ UNCHANGED <<verdict, outcome, effect, recent, queue, marred, faults>>

\* The answer, or the time-out, or no terminal.
PromptEnds(c) ==
  /\ stage[c] = "prompted"
  /\ \E v \in {"granted", "denied"} : Decide(c, v)
  /\ UNCHANGED <<outcome, effect, recent, queue, marred, faults>>

-----------------------------------------------------------------------------
(* The operator.                                                           *)

\* `jarvis approve`
CliApproves(q) ==
  /\ queue[q] = "pending"
  /\ queue' = [queue EXCEPT ![q] = "granted"]
  /\ UNCHANGED <<stage, verdict, outcome, effect, recent, marred, faults>>

\* The dashboard leaves voice to the terminal, and asks again before a grant
\* of high friction.
DashboardAnswers(q, answer, confirmed) ==
  /\ queue[q] = "pending"
  /\ q \notin FromVoice
  /\ answer = "granted" /\ q \in HighFriction => confirmed
  /\ queue' = [queue EXCEPT ![q] = answer]
  /\ UNCHANGED <<stage, verdict, outcome, effect, recent, marred, faults>>

-----------------------------------------------------------------------------
(* The connectors.                                                         *)

RecordOutcome(c, text) ==
  /\ outcome' = [outcome EXCEPT ![c] = text]
  /\ stage' = [stage EXCEPT ![c] = "ended"]

\* Every connector acts, whatever the decision was.
ActsUnasked(c) == stage[c] \in {"decided", "counted"}

\* A connector goes on; a search counts the requests first.
MayAct(c) ==
  \/ stage[c] = "decided" /\ verdict[c] = "granted" /\ method[c] # "search"
  \/ stage[c] = "counted"

EndsDenied(c) ==
  /\ stage[c] = "decided" /\ verdict[c] # "granted"
  /\ RecordOutcome(c, "denied")
  /\ UNCHANGED <<verdict, effect, recent, queue, marred, faults>>

\* The ration one too large, for the row of this call is counted with it.
RationedLoosely == Len(recent) > Limit + 1
Rationed == Len(recent) > Limit

CountSearches(c) ==
  /\ stage[c] = "decided" /\ verdict[c] = "granted" /\ method[c] = "search"
  /\ IF Rationed
     THEN RecordOutcome(c, "rationed")
     ELSE stage' = [stage EXCEPT ![c] = "counted"] /\ UNCHANGED outcome
  /\ UNCHANGED <<verdict, effect, recent, queue, marred, faults>>

Does(c, how, where) ==
  /\ effect' = [effect EXCEPT ![c] = how]
  /\ stage' = [stage EXCEPT ![c] = where]
  /\ UNCHANGED <<verdict, outcome, recent, queue, marred, faults>>

Acts(c, name) ==
  /\ method[c] = name
  /\ stage[c] = "staged" \/ MayAct(c)
  /\ Does(c, "done", "acted")

\* What comes before the deed proper and stays when that fails.
Prepares(c, name) ==
  /\ method[c] = name /\ MayAct(c)
  /\ Does(c, "part", "staged")

ListDir(c) == Acts(c, "listDir")
ReadFile(c) == Acts(c, "readFile")

\* mkdir, when there is no such directory.
WriteFile(c) == Prepares(c, "writeFile") \/ Acts(c, "writeFile")
DeleteFile(c) == Acts(c, "deleteFile")

\* add -A
Commit(c) == Prepares(c, "commit") \/ Acts(c, "commit")
Push(c) == Acts(c, "push")
ForcePush(c) == Acts(c, "forcePush")
ResetHard(c) == Acts(c, "resetHard")
Search(c) == Acts(c, "search")

\* The file is missing, nothing to commit, the push is rejected, the engine
\* answers with an error.
ActFails(c) ==
  /\ stage[c] = "staged" \/ MayAct(c)
  /\ RecordOutcome(c, "error")
  /\ UNCHANGED <<verdict, effect, recent, queue, marred, faults>>

EndsWell(c) ==
  /\ stage[c] = "acted"
  /\ RecordOutcome(c, "success")
  /\ UNCHANGED <<verdict, effect, recent, queue, marred, faults>>

-----------------------------------------------------------------------------
(* Faults.                                                                 *)

Fault(c) ==
  /\ faults < MaxFaults
  /\ faults' = faults + 1
  /\ marred' = marred \cup {c}

\* rev-parse fails after the commit, the remote's answer to a push is lost, or
\* the outcome row of a success cannot be written: the handler answers with an
\* error what was done.
FailsAfterwards(c) ==
  /\ stage[c] = "acted" /\ method[c] \notin {"listDir", "readFile"}
  /\ Fault(c)
  /\ RecordOutcome(c, "error")
  /\ UNCHANGED <<verdict, effect, recent, queue>>

\* The lookup of the ration throws: the search goes on.
CountThrows(c) ==
  /\ stage[c] = "decided" /\ verdict[c] = "granted" /\ method[c] = "search"
  /\ Fault(c)
  /\ stage' = [stage EXCEPT ![c] = "counted"]
  /\ UNCHANGED <<verdict, outcome, effect, recent, queue>>

\* The process ends, or an exception nobody catches leaves the rows as they are.
GCrash(c) ==
  /\ stage[c] \notin {"new", "ended", "lost"}
  /\ Fault(c)
  /\ stage' = [stage EXCEPT ![c] = "lost"]
  /\ UNCHANGED <<verdict, outcome, effect, recent, queue>>

\* The oldest request leaves the window.
WindowMoves ==
  /\ recent # <<>>
  /\ recent' = Tail(recent)
  /\ UNCHANGED <<stage, verdict, outcome, effect, queue, marred, faults>>

GStep ==
  \/ \E c \in Call :
       \/ RecordRequest(c) \/ RoleRefuses(c) \/ PolicyGrants(c)
       \/ ConsultQueue(c) \/ Prompt(c) \/ PromptEnds(c)
       \/ EndsDenied(c) \/ CountSearches(c)
       \/ ListDir(c) \/ ReadFile(c) \/ WriteFile(c) \/ DeleteFile(c)
       \/ Commit(c) \/ Push(c) \/ ForcePush(c) \/ ResetHard(c) \/ Search(c)
       \/ ActFails(c) \/ EndsWell(c)
       \/ FailsAfterwards(c) \/ CountThrows(c) \/ GCrash(c)
  \/ \E q \in Payload :
       \/ CliApproves(q)
       \/ \E answer \in {"granted", "denied"}, confirmed \in BOOLEAN :
            DashboardAnswers(q, answer, confirmed)
  \/ WindowMoves

GNext == GStep /\ UNCHANGED method

GSpec == GInit /\ [][GNext]_gvars

-----------------------------------------------------------------------------
\* What the audit log says of a call and what the call did agree: nothing is
\* touched without a grant or after a refusal, a success was one, and what was
\* done is called so unless a fault came between the deed and its row.
AuditExplainsDisk ==
  \A c \in Call :
    /\ effect[c] # "none" => verdict[c] = "granted" /\ outcome[c] # "denied"
    /\ outcome[c] = "success" => effect[c] = "done"
    /\ stage[c] = "ended" /\ effect[c] = "done" /\ c \notin marred =>
         outcome[c] = "success"

\* The search was let through by the ration, whether it found anything or not.
PastRation(c) == stage[c] = "counted" \/ effect[c] = "done" \/ outcome[c] = "error"

\* However the searches of several processes interleave, no more than the
\* limit of those whose requests lie in one window get past the ration, for
\* each is counted before it counts.
SearchesBounded == Cardinality({c \in ToSet(recent) \ marred : PastRation(c)}) <= Limit
=============================================================================
