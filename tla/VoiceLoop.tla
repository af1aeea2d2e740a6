------------------------------- MODULE VoiceLoop -------------------------------
(***************************************************************************)
(* The voice chat: VoiceManager over LocalAudioEngine.  The wake detector, *)
(* the transcription and the synthesis are child processes; the engine     *)
(* holds one reference to each kind, which every close event of that kind  *)
(* clears, also the close of an older process.  Nothing restarts an ear by *)
(* itself: the end of a synthesis, a transcription and the reminder of one *)
(* minute of silence do.                                                   *)
(***************************************************************************)
EXTENDS Naturals, FiniteSets

CONSTANTS
  MaxProcs,    \* bound: child processes at a time
  MaxReplies   \* bound: commands that await the model at a time

ASSUME VoiceAssumption == MaxProcs \in Nat \ {0} /\ MaxReplies \in Nat

VARIABLES
  child,       \* the kind of each child process
  dying,       \* killed, its close is to come
  wakeWordProcess,
  ttsProcess,
  activeEngine,
  isListeningForCommand,
  replies,     \* respond() that await the model
  failed,      \* the detector failed and none was spawned since
  stopped      \* the program was ended

vvars == <<child, dying, wakeWordProcess, ttsProcess, activeEngine,
           isListeningForCommand, replies, failed, stopped>>

Procs == 1..MaxProcs
NoProc == 0
Children(kind) == {p \in Procs : child[p] = kind}

VTypeOK ==
  /\ child \in [Procs -> {"none", "wake", "stt", "tts"}]
  /\ dying \subseteq Procs \ Children("none")
  /\ wakeWordProcess \in Children("wake") \cup {NoProc}
  /\ ttsProcess \in Children("tts") \cup {NoProc}
  /\ activeEngine \in {"configured", "openwakeword"}
  /\ isListeningForCommand \in BOOLEAN
  /\ replies \in 0..MaxReplies
  /\ failed \in BOOLEAN /\ stopped \in BOOLEAN

\* After init(): the detector was spawned.
VInit ==
  /\ child = [p \in Procs |-> IF p = 1 THEN "wake" ELSE "none"]
  /\ dying = {}
  /\ wakeWordProcess = 1 /\ ttsProcess = NoProc
  /\ activeEngine \in {"configured", "openwakeword"}
  /\ isListeningForCommand = FALSE
  /\ replies = 0
  /\ failed = FALSE /\ stopped = FALSE

-----------------------------------------------------------------------------
(* The engine.                                                             *)

\* A slot for a new child; one that has closed may be used at once.
Slot(p) == child[p] = "none" /\ \A q \in Procs : child[q] = "none" => p <= q

Spawn(p, kind) == child' = [child EXCEPT ![p] = kind]

Kill(ref) == dying' = dying \cup ({ref} \ {NoProc})

\* The child in slot p has closed.
Gone(p) == dying' = dying \ {p}

\* startListening() in slot p: it does nothing when there is a detector.
StartListening(p) ==
  IF wakeWordProcess = NoProc
  THEN Spawn(p, "wake") /\ wakeWordProcess' = p /\ failed' = FALSE
  ELSE Spawn(p, "none") /\ UNCHANGED <<wakeWordProcess, failed>>

\* speak(): the synthesis before it is killed.
Speak(p) ==
  /\ Spawn(p, "tts")
  /\ ttsProcess' = p

\* The detector reports the word, or an older one does once more: the detector
\* referred to is killed, a transcription begins, and who speaks is stopped.
WakeWordDetected(p) ==
  /\ child[p] = "wake"
  /\ \E s \in Procs : Slot(s) /\ Spawn(s, "stt")
  /\ dying' = dying \cup ({wakeWordProcess, ttsProcess} \ {NoProc})
  /\ wakeWordProcess' = NoProc /\ ttsProcess' = NoProc
  /\ isListeningForCommand' = TRUE
  /\ UNCHANGED <<activeEngine, replies, failed, stopped>>

\* The close of a killed detector clears the reference to a newer one.
WakeCloses(p) ==
  /\ child[p] = "wake" /\ p \in dying
  /\ Spawn(p, "none") /\ Gone(p)
  /\ wakeWordProcess' = NoProc
  /\ UNCHANGED <<ttsProcess, activeEngine, isListeningForCommand, replies,
                 failed, stopped>>

\* The reference to it stays.
WakeFailsUnnoticed(p) ==
  /\ child[p] = "wake" /\ p \notin dying
  /\ Spawn(p, "none") /\ failed' = TRUE
  /\ UNCHANGED <<dying, wakeWordProcess, ttsProcess, activeEngine,
                 isListeningForCommand, replies, stopped>>

\* A detector exits with an error: openwakeword is tried instead, once.
WakeFails(p) ==
  /\ child[p] = "wake" /\ p \notin dying
  /\ activeEngine' = "openwakeword"
  /\ IF activeEngine = "configured"
     THEN Spawn(p, "wake") /\ wakeWordProcess' = p /\ failed' = FALSE
     ELSE Spawn(p, "none") /\ wakeWordProcess' = NoProc /\ failed' = TRUE
  /\ UNCHANGED <<dying, ttsProcess, isListeningForCommand, replies, stopped>>

-----------------------------------------------------------------------------
(* handleTranscription: what the transcription in slot p has heard.        *)

Heard(p) == child[p] = "stt" /\ isListeningForCommand

HearsStop(p) ==
  /\ Heard(p)
  /\ Kill(ttsProcess) /\ ttsProcess' = NoProc
  /\ isListeningForCommand' = FALSE
  /\ StartListening(p)
  /\ UNCHANGED <<activeEngine, replies, stopped>>

\* One transcription after the other; the slot is the same.
HearsNothing(p) ==
  /\ Heard(p)
  /\ Spawn(p, "stt")
  /\ UNCHANGED <<dying, wakeWordProcess, ttsProcess, activeEngine,
                 isListeningForCommand, replies, failed, stopped>>

\* It asks to repeat.
HearsUnclearly(p) ==
  /\ Heard(p)
  /\ Kill(ttsProcess) /\ Speak(p)
  /\ UNCHANGED <<wakeWordProcess, activeEngine, isListeningForCommand, replies,
                 failed, stopped>>

HearsCommand(p) ==
  /\ Heard(p) /\ replies < MaxReplies
  /\ Spawn(p, "none")
  /\ isListeningForCommand' = FALSE
  /\ replies' = replies + 1
  /\ UNCHANGED <<dying, wakeWordProcess, ttsProcess, activeEngine, failed,
                 stopped>>

\* It fails, which is only logged, or nobody waits for a command any more.
HeardInVain(p) ==
  /\ child[p] = "stt"
  /\ Spawn(p, "none")
  /\ UNCHANGED <<dying, wakeWordProcess, ttsProcess, activeEngine,
                 isListeningForCommand, replies, failed, stopped>>

SttEnds(p) == HearsStop(p) \/ HearsNothing(p) \/ HearsUnclearly(p)
              \/ HearsCommand(p) \/ HeardInVain(p)

-----------------------------------------------------------------------------
(* Speaking.                                                               *)

\* The model has answered, or failed: either is spoken.
Respond ==
  /\ replies > 0
  /\ replies' = replies - 1
  /\ \E p \in Procs : Slot(p) /\ Speak(p)
  /\ Kill(ttsProcess)
  /\ UNCHANGED <<wakeWordProcess, activeEngine, isListeningForCommand, failed,
                 stopped>>

\* Every minute without a word in command mode.
Remind ==
  /\ isListeningForCommand
  /\ \E p \in Procs : Slot(p) /\ Speak(p)
  /\ Kill(ttsProcess)
  /\ UNCHANGED <<wakeWordProcess, activeEngine, isListeningForCommand, replies,
                 failed, stopped>>

\* Only a command is listened for again.
SpeakEndsInCommandMode(p) ==
  /\ child[p] = "tts"
  /\ Gone(p) /\ ttsProcess' = NoProc
  /\ IF isListeningForCommand THEN Spawn(p, "stt") ELSE Spawn(p, "none")
  /\ UNCHANGED <<wakeWordProcess, failed>>
  /\ UNCHANGED <<activeEngine, isListeningForCommand, replies, stopped>>

\* Spoken, failed or killed, an ear opens: that is the finally of speak().
SpeakEnds(p) ==
  /\ child[p] = "tts"
  /\ Gone(p) /\ ttsProcess' = NoProc
  /\ IF isListeningForCommand
     THEN Spawn(p, "stt") /\ UNCHANGED <<wakeWordProcess, failed>>
     ELSE StartListening(p)
  /\ UNCHANGED <<activeEngine, isListeningForCommand, replies, stopped>>

\* Ctrl+C, or the file the dashboard's stop button writes.
StopProgram ==
  /\ stopped' = TRUE
  /\ child' = [p \in Procs |-> "none"] /\ dying' = {}
  /\ wakeWordProcess' = NoProc /\ ttsProcess' = NoProc
  /\ isListeningForCommand' = FALSE /\ replies' = 0 /\ failed' = FALSE
  /\ UNCHANGED activeEngine

VNext ==
  \/ \E p \in Procs :
       \/ WakeWordDetected(p) \/ WakeCloses(p) \/ WakeFails(p)
       \/ SttEnds(p) \/ SpeakEnds(p)
  \/ Respond \/ Remind \/ StopProgram

\* Killed processes close, recordings and syntheses end, the model answers or
\* times out, and the timer ticks.
VFairness ==
  /\ \A p \in Procs :
       WF_vvars(WakeCloses(p)) /\ WF_vvars(SttEnds(p)) /\ WF_vvars(SpeakEnds(p))
  /\ WF_vvars(Respond) /\ WF_vvars(Remind)

VSpec == VInit /\ [][VNext]_vvars /\ VFairness

-----------------------------------------------------------------------------
Deaf == Children("stt") = {} /\ Children("wake") \subseteq dying

\* The loop never stays deaf: whatever fails, is killed or is spoken over,
\* there is again a detector or a transcription, unless the detector of last
\* resort has failed or the program was ended.
NeverDeaf == Deaf ~> (~Deaf \/ failed \/ stopped)
=============================================================================
