------------------------------ MODULE Workspaces ------------------------------
(***************************************************************************)
(* The registry of workspaces, which one is active, and the tasks that     *)
(* refer to them.  `jarvis workspace remove` is a sequence of statements   *)
(* without a transaction, and so is an enqueue, which reads the active     *)
(* workspace before it inserts; the processes interleave.  tasks has no    *)
(* foreign key on its workspace, active_workspace has one.                 *)
(***************************************************************************)
EXTENDS FiniteSets

CONSTANTS Workspace, WTask, Nowhere

ASSUME WorkspaceAssumption == Nowhere \notin Workspace

VARIABLES
  registered,  \* rows of workspaces
  active,      \* active_workspace.workspace_id
  switching,   \* the workspace a switch has looked up
  removing,    \* the workspace a removal has looked up
  forced,      \* its --force
  removeAt,    \* the statement of the removal that comes next
  held,        \* the workspace an enqueue has read
  task,        \* "absent", "reading", "live" or "over"
  tag,         \* tasks.workspace_id
  raced        \* history: tasks enqueued while a removal was going on

wvars == <<registered, active, switching, removing, forced, removeAt, held,
           task, tag, raced>>

Maybe == Workspace \cup {Nowhere}

WTypeOK ==
  /\ registered \subseteq Workspace
  /\ active \in Maybe /\ switching \in Maybe /\ removing \in Maybe
  /\ forced \in BOOLEAN
  /\ removeAt \in {"idle", "check", "orphan", "clear", "unset", "delete"}
  /\ held \in [WTask -> Maybe]
  /\ task \in [WTask -> {"absent", "reading", "live", "over"}]
  /\ tag \in [WTask -> Maybe]
  /\ raced \subseteq WTask

WInit ==
  /\ registered = {} /\ active = Nowhere
  /\ switching = Nowhere /\ removing = Nowhere
  /\ forced = FALSE /\ removeAt = "idle"
  /\ held = [t \in WTask |-> Nowhere]
  /\ task = [t \in WTask |-> "absent"]
  /\ tag = [t \in WTask |-> Nowhere]
  /\ raced = {}

-----------------------------------------------------------------------------
\* A name may be registered again only as another row.
CreateWorkspace(w) ==
  /\ w \notin registered /\ removing # w /\ switching # w
  /\ active # w /\ \A t \in WTask : held[t] # w /\ tag[t] # w
  /\ registered' = registered \cup {w}
  /\ UNCHANGED <<active, switching, removing, forced, removeAt, held, task, tag,
                 raced>>

\* The row is found and its directory exists.
BeginSwitch(w) ==
  /\ switching = Nowhere /\ w \in registered
  /\ switching' = w
  /\ UNCHANGED <<registered, active, removing, forced, removeAt, held, task, tag,
                 raced>>

\* The foreign key refuses a workspace that is gone by now.
EndSwitch ==
  /\ switching # Nowhere
  /\ active' = IF switching \in registered THEN switching ELSE active
  /\ switching' = Nowhere
  /\ UNCHANGED <<registered, removing, forced, removeAt, held, task, tag, raced>>

BeginRemove(w, force) ==
  /\ removeAt = "idle" /\ w \in registered
  /\ removing' = w /\ forced' = force /\ removeAt' = "check"
  /\ raced' = raced \cup {t \in WTask : task[t] = "reading"}
  /\ UNCHANGED <<registered, active, switching, held, task, tag>>

Abandon == removing' = Nowhere /\ forced' = FALSE /\ removeAt' = "idle"

\* No task is looked at.
CheckNothing ==
  /\ removeAt = "check"
  /\ removeAt' = IF forced THEN "orphan" ELSE "clear"
  /\ UNCHANGED <<registered, active, switching, removing, forced, held, task,
                 tag, raced>>

\* Pending, in-progress or blocked tasks of the workspace stand in the way.
CheckTasks ==
  LET stuck == \E t \in WTask : task[t] = "live" /\ tag[t] = removing IN
  /\ removeAt = "check"
  /\ IF stuck /\ ~forced THEN Abandon
     ELSE /\ removeAt' = IF forced THEN "orphan" ELSE "clear"
          /\ UNCHANGED <<removing, forced>>
  /\ UNCHANGED <<registered, active, switching, held, task, tag, raced>>

OrphanTasks ==
  /\ removeAt = "orphan"
  /\ tag' = [t \in WTask |-> IF tag[t] = removing THEN Nowhere ELSE tag[t]]
  /\ removeAt' = "clear"
  /\ UNCHANGED <<registered, active, switching, removing, forced, held, task,
                 raced>>

\* Whether the workspace is the active one is read first.
CheckActive ==
  /\ removeAt = "clear"
  /\ removeAt' = IF active = removing THEN "unset" ELSE "delete"
  /\ UNCHANGED <<registered, active, switching, removing, forced, held, task,
                 tag, raced>>

\* What is active by now is cleared, be it another.
ClearActive ==
  /\ removeAt = "unset"
  /\ active' = Nowhere
  /\ removeAt' = "delete"
  /\ UNCHANGED <<registered, switching, removing, forced, held, task, tag, raced>>

\* The memories and boards of the workspace become nobody's, and ON DELETE SET
\* NULL clears what was made active since.
DeleteWorkspace ==
  /\ removeAt = "delete"
  /\ registered' = registered \ {removing}
  /\ active' = IF active = removing THEN Nowhere ELSE active
  /\ Abandon
  /\ UNCHANGED <<switching, held, task, tag, raced>>

\* The command ends between two of its statements.
RemoveEnds ==
  /\ removeAt # "idle"
  /\ Abandon
  /\ UNCHANGED <<registered, active, switching, held, task, tag, raced>>

EnqueueReads(t) ==
  /\ task[t] = "absent"
  /\ held' = [held EXCEPT ![t] = active]
  /\ task' = [task EXCEPT ![t] = "reading"]
  /\ raced' = IF removeAt = "idle" THEN raced ELSE raced \cup {t}
  /\ UNCHANGED <<registered, active, switching, removing, forced, removeAt, tag>>

EnqueueInserts(t) ==
  /\ task[t] = "reading"
  /\ tag' = [tag EXCEPT ![t] = held[t]]
  /\ held' = [held EXCEPT ![t] = Nowhere]
  /\ task' = [task EXCEPT ![t] = "live"]
  /\ UNCHANGED <<registered, active, switching, removing, forced, removeAt,
                 raced>>

\* Completed or failed.
TaskEnds(t) ==
  /\ task[t] = "live"
  /\ task' = [task EXCEPT ![t] = "over"]
  /\ UNCHANGED <<registered, active, switching, removing, forced, removeAt, held,
                 tag, raced>>

WNext ==
  \/ \E w \in Workspace :
       \/ CreateWorkspace(w) \/ BeginSwitch(w)
       \/ \E force \in BOOLEAN : BeginRemove(w, force)
  \/ EndSwitch \/ CheckTasks \/ OrphanTasks \/ CheckActive \/ ClearActive
  \/ DeleteWorkspace \/ RemoveEnds
  \/ \E t \in WTask : EnqueueReads(t) \/ EnqueueInserts(t) \/ TaskEnds(t)

WSpec == WInit /\ [][WNext]_wvars

-----------------------------------------------------------------------------
\* A task that is to be run refers to a workspace that exists, with or without
\* --force and wherever a removal was cut short: only a task whose enqueue
\* overlapped a removal may not.  The active workspace always exists.
DanglingOnlyByRace ==
  /\ \A t \in WTask :
       task[t] = "live" /\ tag[t] \notin registered \cup {Nowhere} => t \in raced
  /\ active \in registered \cup {Nowhere}
=============================================================================
