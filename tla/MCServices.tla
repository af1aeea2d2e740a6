------------------------------ MODULE MCServices ------------------------------
(***************************************************************************)
(* The services around the daemon for TLC.  They share no state, so that   *)
(* interleaving them would only multiply their states: a behaviour is one  *)
(* of one component, chosen at the start, and the others stay where they   *)
(* begin.  Every invariant and property is checked in all of them.         *)
(***************************************************************************)
EXTENDS MemoryStore, VectorIndex, GuardedCalls, Schedules, Workspaces,
        BrowserSessions, DuplexAudio, VoiceLoop

VARIABLE component

\* Two of the three entries are stored by the daemon, one by the web chat.
MCHome == [e \in Entry |-> IF e = 3 THEN "web" ELSE "daemon"]

\* Points at a distance of 3 from the origin, two of them on an axis.
MCVector == {<<3, 0, 0>>, <<0, 3, 0>>, <<2, 2, 1>>, <<1, 2, 2>>, <<2, 1, 2>>}

\* The task of one of the two calls came by voice.
MCAsks == [c \in Call |-> IF c = "c2" THEN "v" ELSE "q"]

Components == {"memory", "index", "calls", "schedules", "workspaces",
               "browsers", "duplex", "voice"}

ServicesInit ==
  /\ component \in Components
  /\ MInit /\ KInit /\ GInit /\ SInit /\ WInit /\ BInit /\ DInit /\ VInit
  /\ method["c2"] = "search"
  /\ component # "calls" => method["c1"] = "search"
  /\ component # "schedules" => catchUp = {}
  /\ component # "voice" => activeEngine = "openwakeword"

Only(name) == component = name /\ UNCHANGED component

ServicesNext ==
  \/ Only("memory") /\ MNext
     /\ UNCHANGED <<kvars, gvars, svars, wvars, bvars, dvars, vvars>>
  \/ Only("index") /\ KNext
     /\ UNCHANGED <<mvars, gvars, svars, wvars, bvars, dvars, vvars>>
  \/ Only("calls") /\ GNext
     /\ UNCHANGED <<mvars, kvars, svars, wvars, bvars, dvars, vvars>>
  \/ Only("schedules") /\ SNext
     /\ UNCHANGED <<mvars, kvars, gvars, wvars, bvars, dvars, vvars>>
  \/ Only("workspaces") /\ WNext
     /\ UNCHANGED <<mvars, kvars, gvars, svars, bvars, dvars, vvars>>
  \/ Only("browsers") /\ BNext
     /\ UNCHANGED <<mvars, kvars, gvars, svars, wvars, dvars, vvars>>
  \/ Only("duplex") /\ DNext
     /\ UNCHANGED <<mvars, kvars, gvars, svars, wvars, bvars, vvars>>
  \/ Only("voice") /\ VNext
     /\ UNCHANGED <<mvars, kvars, gvars, svars, wvars, bvars, dvars>>

allvars == <<component, mvars, kvars, gvars, svars, wvars, bvars, dvars, vvars>>

\* The fairness of Schedules and of VoiceLoop, in their behaviours.
ServicesFairness ==
  /\ \A d \in Daemon : WF_svars(Only("schedules") /\ Evaluate(d))
  /\ \A p \in Procs :
       /\ WF_vvars(Only("voice") /\ WakeCloses(p))
       /\ WF_vvars(Only("voice") /\ SttEnds(p))
       /\ WF_vvars(Only("voice") /\ SpeakEnds(p))
  /\ WF_vvars(Only("voice") /\ Respond)
  /\ WF_vvars(Only("voice") /\ Remind)

ServicesSpec ==
  ServicesInit /\ [][ServicesNext]_allvars /\ ServicesFairness

\* The variables of every service have their types.
ServicesTypeOK ==
  /\ MTypeOK /\ KTypeOK /\ GTypeOK /\ STypeOK /\ WTypeOK /\ BTypeOK
  /\ DTypeOK /\ VTypeOK
=============================================================================
