------------------------------ MODULE DuplexAudio ------------------------------
(***************************************************************************)
(* One connection of DuplexAudioServer: what its message handler does with *)
(* chunks of audio, and the turns it starts.  A turn awaits transcription, *)
(* model and synthesis while the handler keeps running, all of them over   *)
(* the same two flags; a barge-in clears them, and a later turn sets them  *)
(* again under the eyes of the one that was interrupted.  A chunk stands   *)
(* for as many as its effect needs: silence is 1.2 s or 2 s of it.         *)
(***************************************************************************)
EXTENDS Naturals

CONSTANT MaxTurns  \* bound: turns of the connection

ASSUME DuplexAssumption == MaxTurns \in Nat \ {0}

VARIABLES
  connected,
  isProcessing,
  isSpeaking,
  buffered,     \* pcmAccumulator holds speech
  turn,         \* where each turn is
  interrupted   \* history: turns in flight as a barge-in or the end hit them

dvars == <<connected, isProcessing, isSpeaking, buffered, turn, interrupted>>

Turns == 1..MaxTurns
InFlight == {"transcribing", "replying", "synthesizing"}

DTypeOK ==
  /\ connected \in BOOLEAN /\ isProcessing \in BOOLEAN
  /\ isSpeaking \in BOOLEAN /\ buffered \in BOOLEAN
  /\ turn \in [Turns -> InFlight \cup {"unused", "sent", "dropped"}]
  /\ interrupted \subseteq Turns

DInit ==
  /\ connected = TRUE
  /\ isProcessing = FALSE /\ isSpeaking = FALSE /\ buffered = FALSE
  /\ turn = [n \in Turns |-> "unused"]
  /\ interrupted = {}

Interrupts ==
  interrupted' = interrupted \cup {n \in Turns : turn[n] \in InFlight}

-----------------------------------------------------------------------------
(* The message handler.                                                    *)

\* Speech goes to the accumulator, unless it is loud and there is something to
\* interrupt.
HearSpeech(loud) ==
  /\ connected
  /\ ~(loud /\ (isProcessing \/ isSpeaking))
  /\ buffered' = TRUE
  /\ UNCHANGED <<connected, isProcessing, isSpeaking, turn, interrupted>>

\* The playback ends, the turn goes on.
BargeInOnPlayback ==
  /\ connected /\ (isProcessing \/ isSpeaking)
  /\ isSpeaking' = FALSE /\ buffered' = FALSE
  /\ Interrupts
  /\ UNCHANGED <<connected, isProcessing, turn>>

BargeIn ==
  /\ connected /\ (isProcessing \/ isSpeaking)
  /\ isProcessing' = FALSE /\ isSpeaking' = FALSE /\ buffered' = FALSE
  /\ Interrupts
  /\ UNCHANGED <<connected, turn>>

\* The end of an utterance; turns are numbered in the order they begin.
BeginTurn(n) ==
  /\ connected /\ buffered /\ ~isProcessing /\ ~isSpeaking
  /\ turn[n] = "unused" /\ \A m \in 1..(n - 1) : turn[m] # "unused"
  /\ isProcessing' = TRUE /\ buffered' = FALSE
  /\ turn' = [turn EXCEPT ![n] = "transcribing"]
  /\ UNCHANGED <<connected, isSpeaking, interrupted>>

\* What was said meanwhile is thrown away by a longer silence.
ForgetSpeech ==
  /\ connected /\ buffered /\ (isProcessing \/ isSpeaking)
  /\ buffered' = FALSE
  /\ UNCHANGED <<connected, isProcessing, isSpeaking, turn, interrupted>>

\* The client has played the reply, or says so.
StopResponse ==
  /\ connected /\ isSpeaking
  /\ isSpeaking' = FALSE
  /\ UNCHANGED <<connected, isProcessing, buffered, turn, interrupted>>

Disconnect ==
  /\ connected
  /\ connected' = FALSE
  /\ isProcessing' = FALSE /\ isSpeaking' = FALSE /\ buffered' = FALSE
  /\ Interrupts
  /\ UNCHANGED turn

-----------------------------------------------------------------------------
(* A turn.                                                                 *)

Continue(n, where) ==
  /\ turn' = [turn EXCEPT ![n] = where]
  /\ UNCHANGED <<connected, isProcessing, isSpeaking, buffered, interrupted>>

\* The finally, whoever set the flag.
EndTurn(n, how) ==
  /\ turn' = [turn EXCEPT ![n] = how]
  /\ isProcessing' = FALSE
  /\ UNCHANGED <<connected, buffered, interrupted>>

Transcribed(n) == turn[n] = "transcribing" /\ Continue(n, "replying")

ReplyComes(n) ==
  turn[n] = "replying" /\ isProcessing /\ Continue(n, "synthesizing")

Synthesized(n) ==
  /\ turn[n] = "synthesizing" /\ isProcessing
  /\ isSpeaking' = TRUE
  /\ EndTurn(n, "sent")

\* The reply came, or was spoken, when the flag was no longer set.
FindsNoTurn(n) ==
  /\ turn[n] \in {"replying", "synthesizing"} /\ ~isProcessing
  /\ EndTurn(n, "dropped")
  /\ UNCHANGED isSpeaking

\* Nothing transcribed, no reply, the model or the synthesis fails.
TurnFails(n) ==
  /\ turn[n] \in InFlight
  /\ EndTurn(n, "dropped")
  /\ UNCHANGED isSpeaking

DNext ==
  \/ \E loud \in BOOLEAN : HearSpeech(loud)
  \/ BargeIn \/ ForgetSpeech \/ StopResponse \/ Disconnect
  \/ \E n \in Turns :
       \/ BeginTurn(n) \/ Transcribed(n) \/ ReplyComes(n) \/ Synthesized(n)
       \/ FindsNoTurn(n) \/ TurnFails(n)

DSpec == DInit /\ [][DNext]_dvars

-----------------------------------------------------------------------------
\* A reply is sent to a connection that is open, and if its turn was
\* interrupted then only while a later turn is in flight, whose flag it takes
\* for its own; a turn that was not interrupted finds the flag cleared only
\* when an earlier one that was has ended meanwhile.
RepliesAreWanted ==
  [][\A n \in Turns :
       /\ turn[n] # "sent" /\ turn'[n] = "sent" =>
            /\ connected
            /\ n \in interrupted => \E m \in Turns : m > n /\ turn[m] \in InFlight
       /\ FindsNoTurn(n) /\ n \notin interrupted =>
            \E m \in interrupted : m < n /\ turn[m] \in {"sent", "dropped"}]_dvars
=============================================================================
