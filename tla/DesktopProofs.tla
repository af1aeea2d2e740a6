----------------------------- MODULE DesktopProofs -----------------------------
(***************************************************************************)
(* The queue of awaited replies, the emergency stop and the credit of a    *)
(* success, for plans and retries of any length and any number of runs and *)
(* of ends of the Python process.                                          *)
(***************************************************************************)
EXTENDS DesktopControl, SequenceTheorems, TLAPS

Outcome == {"none", "completed", "failed", "pending-approval"}

\* The agent: what it awaits, and the plan an action belongs to.
AgentOK ==
  /\ pc \in {"idle", "look", "think", "relook", "act", "aim", "hover",
             "verify", "call", "store", "exited"}
  /\ plan \in Seq(Kind)
  /\ attempt \in 0..MaxRetries
  /\ cont \in {"none", "plain", "first", "move", "nudge", "click"}
  /\ call \in {"none", "check", "auth", "before", "start", "reply", "after"}
  /\ outcome \in Outcome
  /\ pc = "call" <=> call # "none"
  /\ call # "none" => cont # "none"
  /\ pc \in {"aim", "hover", "verify", "call"} => plan # <<>>

\* The connector.  A call that has passed the check was checked after the
\* last reset and before the stop.
ConnectorOK ==
  /\ stopped \in BOOLEAN
  /\ count \in 0..MaxActions
  /\ starting \in BOOLEAN
  /\ cmd \in Nat
  /\ defied \in Nat
  /\ sent \in {0, 1}
  /\ pending = <<>> \/ (pending = <<cmd>> /\ cmd # 0)
  /\ pc # "exited" =>
       /\ pending = IF call = "reply" THEN <<cmd>> ELSE <<>>
       /\ call = "auth" => count < MaxActions
       /\ starting => call = "start"
       /\ ~stopped \/ call \in {"auth", "before", "start"} => sent = 0

IsReply(line) == line.of # Ready

\* Unless a command timed out, at most one command or reply is under way, that
\* of the caller who waits.
RepliesKnown ==
  ~late =>
    /\ inPipe = <<>> \/ (inPipe = <<cmd>> /\ call = "reply")
    /\ \A i \in 1..Len(outPipe) : IsReply(outPipe[i]) =>
         /\ outPipe[i].of = cmd /\ call = "reply" /\ inPipe = <<>>
         /\ outPipe[i].ok => done
         /\ \A j \in 1..Len(outPipe) : IsReply(outPipe[j]) => i = j

\* The Python process and its pipes.
PipesOK ==
  /\ proc \in {"none", "loading", "up", "dead"}
  /\ done \in BOOLEAN
  /\ late \in BOOLEAN
  /\ inPipe \in Seq(1..cmd)
  /\ outPipe \in Seq([of : Ready..cmd, ok : BOOLEAN])
  /\ proc = "none" => inPipe = <<>> /\ outPipe = <<>>
  /\ proc = "loading" => outPipe = <<>>
  /\ starting => inPipe = <<>>
WorldOK ==
  /\ obs \in BOOLEAN
  /\ hook \in {"installing", "active", "inactive", "failed"}
  /\ override \in BOOLEAN
  /\ runs \in 0..MaxRuns
  /\ deaths \in 0..MaxDeaths

DInv == AgentOK /\ ConnectorOK /\ PipesOK /\ RepliesKnown /\ WorldOK

-----------------------------------------------------------------------------
LEMMA DesktopStart == DInit => DInv
<1> SUFFICES ASSUME DInit PROVE DInv
  OBVIOUS
<1>0. /\ 0 \in 0..MaxActions /\ 0 \in 0..MaxRetries
      /\ 0 \in 0..MaxRuns /\ 0 \in 0..MaxDeaths /\ 0 \in Nat
  BY DesktopConstantsAssumption
<1>1. AgentOK
  BY <1>0 DEF DInit, AgentOK, Outcome
<1>2. ConnectorOK
  BY <1>0, Zenon DEF DInit, ConnectorOK
<1>3. PipesOK /\ RepliesKnown
  <2>1. inPipe \in Seq(1..cmd) /\ outPipe \in Seq([of : Ready..cmd, ok : BOOLEAN])
        /\ Len(outPipe) = 0
    BY EmptySeq DEF DInit
  <2> QED
    BY <2>1, 1..0 = {}, Zenon DEF DInit, PipesOK, RepliesKnown
<1>4. WorldOK
  BY <1>0, Zenon DEF DInit, WorldOK
<1> QED
  BY <1>1, <1>2, <1>3, <1>4 DEF DInv

(* The agent.                                                              *)

LEMMA EndRunOK ==
  ASSUME NEW status \in Outcome, EndRun(status)
  PROVE  AgentOK' /\ call' = "none" /\ pc' = "idle"
  BY DesktopConstantsAssumption DEF EndRun, AgentOK, Outcome

LEMMA GotoOK ==
  ASSUME AgentOK, NEW next \in {"think", "act", "aim", "hover", "verify", "store"},
         Goto(next), next \in {"aim", "hover", "verify"} => plan # <<>>
  PROVE  AgentOK' /\ call' = "none" /\ pc' = next
  BY DEF Goto, AgentOK

LEMMA NextActionOK ==
  ASSUME AgentOK, plan # <<>>, NextAction
  PROVE  AgentOK' /\ call' = "none" /\ pc' = "act"
<1>1. Tail(plan) \in Seq(Kind)
  BY HeadTailProperties DEF AgentOK
<1> QED
  BY <1>1, DesktopConstantsAssumption DEF NextAction, AgentOK

LEMMA CallOK ==
  ASSUME AgentOK, plan # <<>>, NEW by \in {"plain", "first", "move", "nudge", "click"},
         Call(by)
  PROVE  AgentOK' /\ call' = "check" /\ pc' = "call"
  BY DEF Call, AgentOK

\* Whatever the connector reports, the agent ends or asks for a new check.
LEMMA ReturnOK ==
  ASSUME AgentOK, call # "none", NEW status, Return(status)
  PROVE  AgentOK' /\ call' \in {"none", "check"} /\ pc' # "exited"
<1>0. plan # <<>> /\ cont \in {"plain", "first", "move", "nudge", "click"}
  BY DEF AgentOK
<1>1. CASE cont = "nudge" \/ (cont = "first" /\ SecondFollows(status))
  BY <1>0, <1>1, CallOK DEF Return
<1> DEFINE More == cont = "nudge" \/ (cont = "first" /\ SecondFollows(status))
<1>2. CASE ~More /\ status = "SUCCESS"
  <2>1. NextAction \/ Goto("hover") \/ Goto("verify")
    BY <1>0, <1>2 DEF Return
  <2> QED
    BY <1>0, <2>1, NextActionOK, GotoOK
<1>3. CASE ~More /\ status # "SUCCESS"
  <2>1. EndRun("pending-approval") \/ EndRun("failed")
    BY <1>3 DEF Return
  <2> QED
    BY <2>1, EndRunOK DEF Outcome
<1> QED
  BY <1>1, <1>2, <1>3

\* A step of the agent outside of a call leaves the connector waiting for
\* nobody.
LEMMA OutsideCallOK ==
  ASSUME DInv, AgentOK', WorldOK', call = "none", pc # "exited",
         call' \in {"none", "check"}, pc' # "exited",
         UNCHANGED <<pending, starting, cmd, procVars>>,
         \/ UNCHANGED <<stopped, count, sent>>
         \/ ResetActionCount,
         defied' \in {defied, 0}
  PROVE  DInv'
<1>0. ConnectorOK /\ starting = FALSE /\ pending = <<>> /\ 0 \in 0..MaxActions
  BY DesktopConstantsAssumption DEF DInv, ConnectorOK
<1>1. ConnectorOK'
  <2>1. CASE UNCHANGED <<stopped, count, sent>>
    BY <1>0, <2>1 DEF ConnectorOK
  <2>2. CASE ResetActionCount
    <3>1. stopped' \in BOOLEAN /\ count' \in 0..MaxActions /\ sent' = 0
      BY <1>0, <2>2, Zenon DEF ResetActionCount
    <3>2. /\ pending' = <<>> /\ starting' = FALSE
          /\ call' # "reply" /\ call' # "auth" /\ cmd' \in Nat /\ defied' \in Nat
      BY <1>0 DEF ConnectorOK
    <3> QED
      BY <3>1, <3>2, Zenon DEF ConnectorOK
  <2> QED
    BY <2>1, <2>2
<1>2. PipesOK' /\ RepliesKnown'
  BY DEF DInv, PipesOK, RepliesKnown, procVars, IsReply
<1> QED
  BY <1>1, <1>2 DEF DInv

LEMMA AgentStep ==
  ASSUME DInv, Agent, pc # "exited"
  PROVE  DInv'
<1>0. AgentOK /\ WorldOK /\ defied \in Nat
  BY DEF DInv, ConnectorOK
<1> USE DEF Capture, connVars, envVars
<1>1. CASE StartRun
  <2>1. AgentOK' /\ call = "none" /\ call' = "none" /\ pc' = "look"
    BY <1>0, <1>1 DEF StartRun, AgentOK
  <2>2. WorldOK'
    <3>1. runs \in Nat /\ runs < MaxRuns /\ runs' = runs + 1 /\ MaxRuns \in Nat
      BY <1>0, <1>1, DesktopConstantsAssumption DEF StartRun, WorldOK
    <3>2. runs' \in 0..MaxRuns
      BY <3>1
    <3> QED
      BY <1>0, <1>1, <3>2 DEF StartRun, WorldOK
  <2> QED
    BY <1>1, <2>1, <2>2, OutsideCallOK DEF StartRun
<1>2. CASE Look
  <2>1. AgentOK' /\ call = "none" /\ call' = "none" /\ pc' = "think"
    BY <1>0, <1>2, GotoOK DEF Look, AgentOK
  <2>2. WorldOK'
    BY <1>0, <1>2 DEF Look, WorldOK
  <2> QED
    BY <1>2, <2>1, <2>2, OutsideCallOK DEF Look
<1>3. CASE Think
  <2>0. call = "none"
    BY <1>0, <1>3 DEF Think, AgentOK
  <2>1. CASE EndRun("failed") /\ UNCHANGED <<stopped, count, sent>>
    <3>1. AgentOK' /\ call' = "none" /\ pc' = "idle"
      BY <2>1, EndRunOK DEF Outcome
    <3>2. WorldOK'
      BY <1>0, <1>3 DEF Think, WorldOK
    <3> QED
      BY <1>3, <2>0, <2>1, <3>1, <3>2, OutsideCallOK DEF Think
  <2>2. ASSUME NEW p \in Plan, plan' = p, pc' = "relook",
               UNCHANGED <<attempt, cont, call, outcome>>, ResetActionCount
        PROVE  DInv'
    <3>1. AgentOK' /\ call' = "none" /\ pc' = "relook"
      BY <1>0, <2>0, <2>2, DesktopConstantsAssumption DEF AgentOK
    <3>2. WorldOK'
      BY <1>0, <1>3 DEF Think, WorldOK
    <3> QED
      BY <1>3, <2>0, <2>2, <3>1, <3>2, OutsideCallOK DEF Think
  <2> QED
    BY <1>3, <2>1, <2>2 DEF Think
<1>4. CASE Relook
  <2>1. AgentOK' /\ call = "none" /\ call' = "none" /\ pc' = "act"
    BY <1>0, <1>4, GotoOK DEF Relook, AgentOK
  <2>2. WorldOK'
    BY <1>0, <1>4 DEF Relook, WorldOK
  <2> QED
    BY <1>4, <2>1, <2>2, OutsideCallOK DEF Relook
<1>5. CASE Act
  <2>0. call = "none"
    BY <1>0, <1>5 DEF Act, AgentOK
  <2>1. \/ Goto("store") \/ EndRun("failed")
        \/ plan # <<>> /\ (NextAction \/ Goto("aim") \/ Call("plain") \/ Call("first"))
    <3>1. plan # <<>> => Head(plan) \in Kind
      BY <1>0, HeadTailProperties DEF AgentOK
    <3> QED
      BY <1>5, <3>1 DEF Act, Kind
  <2>2. AgentOK' /\ call' \in {"none", "check"} /\ pc' # "exited"
    BY <1>0, <2>1, GotoOK, EndRunOK, NextActionOK, CallOK DEF Outcome
  <2>3. WorldOK'
    BY <1>0, <1>5 DEF Act, WorldOK
  <2> QED
    BY <1>5, <2>0, <2>2, <2>3, OutsideCallOK DEF Act
<1>6. CASE Store
  <2>1. call = "none" /\ AgentOK' /\ call' = "none" /\ pc' = "idle"
    BY <1>0, <1>6, EndRunOK DEF Store, AgentOK, Outcome
  <2>2. WorldOK'
    BY <1>0, <1>6 DEF Store, WorldOK
  <2> QED
    BY <1>6, <2>1, <2>2, OutsideCallOK DEF Store
<1>7. CASE Aim
  <2>0. call = "none" /\ plan # <<>>
    BY <1>0, <1>7 DEF Aim, AgentOK
  <2>1. EndRun("failed") \/ Call("move")
    BY <1>7 DEF Aim, ResolveVisualCoordinates
  <2>2. AgentOK' /\ call' \in {"none", "check"} /\ pc' # "exited"
    BY <1>0, <2>0, <2>1, EndRunOK, CallOK DEF Outcome
  <2>3. WorldOK'
    BY <1>0, <1>7 DEF Aim, ResolveVisualCoordinates, WorldOK
  <2> QED
    BY <1>7, <2>0, <2>2, <2>3, OutsideCallOK DEF Aim
<1>8. CASE Hover
  <2>0. call = "none" /\ plan # <<>>
    BY <1>0, <1>8 DEF Hover, AgentOK
  <2>1. Call("nudge") \/ Call("click")
    BY <1>8 DEF Hover, HoverVerdict
  <2>2. AgentOK' /\ call' = "check" /\ pc' = "call"
    BY <1>0, <2>0, <2>1, CallOK
  <2>3. WorldOK'
    BY <1>0, <1>8 DEF Hover, WorldOK
  <2> QED
    BY <1>8, <2>0, <2>2, <2>3, OutsideCallOK DEF Hover
<1>9. CASE Verify
  <2>0. call = "none" /\ plan # <<>>
    BY <1>0, <1>9 DEF Verify, AgentOK
  <2>1. \/ NextAction \/ EndRun("failed")
        \/ /\ attempt < MaxRetries /\ attempt' = attempt + 1 /\ pc' = "aim"
           /\ UNCHANGED <<plan, cont, call, outcome>>
    BY <1>9 DEF Verify, TransitionVerdict
  <2>2. AgentOK' /\ call' = "none" /\ pc' # "exited"
    <3>1. CASE NextAction \/ EndRun("failed")
      BY <1>0, <2>0, <3>1, NextActionOK, EndRunOK DEF Outcome
    <3>2. CASE /\ attempt < MaxRetries /\ attempt' = attempt + 1 /\ pc' = "aim"
               /\ UNCHANGED <<plan, cont, call, outcome>>
      BY <1>0, <2>0, <3>2, DesktopConstantsAssumption DEF AgentOK
    <3> QED
      BY <2>1, <3>1, <3>2
  <2>3. WorldOK'
    BY <1>0, <1>9 DEF Verify, WorldOK
  <2> QED
    BY <1>9, <2>0, <2>2, <2>3, OutsideCallOK DEF Verify
<1> QED
  BY <1>1, <1>2, <1>3, <1>4, <1>5, <1>6, <1>7, <1>8, <1>9 DEF Agent

-----------------------------------------------------------------------------
(* The connector.                                                          *)

\* A settled call leaves nobody in the queue.
LEMMA SettledOK ==
  ASSUME DInv, call # "none", NEW status, Return(status),
         pending' = <<>>, starting' = FALSE,
         UNCHANGED <<stopped, count, cmd, sent, defied>>
  PROVE  AgentOK' /\ ConnectorOK'
<1>1. AgentOK' /\ call' \in {"none", "check"} /\ pc # "exited"
  BY ReturnOK DEF DInv, AgentOK
<1>2. call' \notin {"reply", "auth", "before", "start"}
  BY <1>1
<1> QED
  BY <1>1, <1>2 DEF DInv, ConnectorOK

LEMMA WriteOK ==
  ASSUME DInv, pc # "exited", call \in {"before", "start"}, WriteCommand,
         starting' = FALSE, UNCHANGED <<stopped, count>>
  PROVE  AgentOK' /\ ConnectorOK'
<1>1. /\ AgentOK /\ ConnectorOK /\ cmd \in Nat /\ sent = 0 /\ pending = <<>>
      /\ pc = "call"
  BY DEF DInv, ConnectorOK, AgentOK
<1>2. pending' = <<cmd'>> /\ cmd' \in Nat \ {0} /\ sent' \in {0, 1} /\ (stopped \/ sent' = 0)
  BY <1>1 DEF WriteCommand
<1>3. defied' \in Nat
  BY <1>1 DEF WriteCommand, ConnectorOK
<1>4. (call' = "reply" /\ pc' = "call") \/ (call' = "none" /\ pc' = "exited")
  BY <1>1 DEF WriteCommand
<1>5. AgentOK'
  BY <1>1, <1>4 DEF WriteCommand, AgentOK
<1>6. ConnectorOK'
  BY <1>1, <1>2, <1>3, <1>4 DEF ConnectorOK
<1> QED
  BY <1>5, <1>6

\* A written command is the only one under way.
LEMMA WritePipesOK ==
  ASSUME DInv, pc # "exited", call \in {"before", "start"}, WriteCommand,
         proc # "none", starting' = FALSE, UNCHANGED <<proc, late>>,
         outPipe' = outPipe \/ (outPipe # <<>> /\ outPipe' = Tail(outPipe))
  PROVE  PipesOK' /\ RepliesKnown'
<1> DEFINE Line == [of : Ready..cmd, ok : BOOLEAN]
<1>1. /\ cmd \in Nat /\ cmd' = cmd + 1 /\ done' = FALSE
      /\ inPipe \in Seq(1..cmd) /\ outPipe \in Seq(Line)
      /\ proc \in {"loading", "up", "dead"} /\ late \in BOOLEAN
      /\ proc = "loading" => outPipe = <<>>
  BY DEF DInv, ConnectorOK, PipesOK, WriteCommand
<1>2. /\ outPipe' \in Seq(Line)
      /\ \A i \in 1..Len(outPipe') :
           \E j \in 1..Len(outPipe) : outPipe'[i] = outPipe[j]
      /\ outPipe = <<>> => outPipe' = <<>>
  <2>1. CASE outPipe' = outPipe
    BY <1>1, <2>1
  <2>2. CASE outPipe # <<>> /\ outPipe' = Tail(outPipe)
    <3> HIDE DEF Line
    <3>1. /\ Tail(outPipe) \in Seq(Line) /\ Len(Tail(outPipe)) = Len(outPipe) - 1
          /\ \A i \in 1..Len(Tail(outPipe)) : Tail(outPipe)[i] = outPipe[i + 1]
          /\ Len(outPipe) \in Nat
      BY <1>1, <2>2, HeadTailProperties, LenProperties
    <3>2. \A i \in 1..Len(Tail(outPipe)) : i + 1 \in 1..Len(outPipe)
      BY <3>1
    <3> QED
      BY <2>2, <3>1, <3>2
  <2> QED
    BY <2>1, <2>2
<1>3. Line \subseteq [of : Ready..cmd', ok : BOOLEAN] /\ 1..cmd \subseteq 1..cmd'
  BY <1>1 DEF Ready
<1>4. outPipe' \in Seq([of : Ready..cmd', ok : BOOLEAN]) /\ inPipe \in Seq(1..cmd')
  <2> DEFINE NewLine == [of : Ready..cmd', ok : BOOLEAN]
  <2>1. outPipe' \in Seq(Line) /\ Line \subseteq NewLine
    BY <1>2, <1>3
  <2>2. inPipe \in Seq(1..cmd) /\ 1..cmd \subseteq 1..cmd'
    BY <1>1, <1>3
  <2> HIDE DEF Line, NewLine
  <2>3. outPipe' \in Seq(NewLine)
    BY <2>1, SeqMonotonic, Zenon
  <2>4. inPipe \in Seq(1..cmd')
    BY <2>2, SeqMonotonic, Zenon
  <2> QED
    BY <2>3, <2>4 DEF NewLine
<1>5. inPipe' \in Seq(1..cmd')
  <2>1. cmd' \in 1..cmd' /\ inPipe' \in {inPipe, Append(inPipe, cmd')}
    BY <1>1 DEF WriteCommand
  <2>2. Append(inPipe, cmd') \in Seq(1..cmd')
    BY <1>4, <2>1, AppendProperties, Zenon
  <2> QED
    BY <1>4, <2>1, <2>2
<1>6. PipesOK'
  BY <1>1, <1>2, <1>4, <1>5 DEF PipesOK
<1>7. ASSUME ~late PROVE /\ inPipe' = <<>> \/ (inPipe' = <<cmd'>> /\ call' = "reply")
                         /\ \A i \in 1..Len(outPipe') : ~IsReply(outPipe'[i])
  <2>1. inPipe = <<>> /\ \A i \in 1..Len(outPipe) : ~IsReply(outPipe[i])
    BY <1>7 DEF DInv, RepliesKnown
  <2>2. \A i \in 1..Len(outPipe') : ~IsReply(outPipe'[i])
    BY <1>2, <2>1 DEF IsReply
  <2> QED
    BY <1>1, <2>1, <2>2 DEF WriteCommand
<1>8. RepliesKnown'
  BY <1>7 DEF RepliesKnown, IsReply
<1> QED
  BY <1>6, <1>8

LEMMA CheckStep == ASSUME DInv, pc # "exited", Check PROVE DInv'
<1>0. call = "check" /\ UNCHANGED <<connVars, procVars, envVars>>
  BY DEF Check
<1>1. PipesOK' /\ RepliesKnown' /\ WorldOK'
  BY <1>0 DEF DInv, PipesOK, RepliesKnown, IsReply, WorldOK, connVars, procVars, envVars
<1>2. CASE /\ ~stopped /\ count < MaxActions /\ call' = "auth"
           /\ UNCHANGED <<pc, plan, attempt, cont, outcome>>
  BY <1>0, <1>1, <1>2 DEF DInv, AgentOK, ConnectorOK, connVars
<1>3. CASE Return("DENIED")
  <2>1. starting = FALSE /\ pending = <<>>
    BY <1>0 DEF DInv, ConnectorOK
  <2> QED
    BY <1>0, <1>1, <1>3, <2>1, SettledOK DEF DInv, connVars
<1> QED
  BY <1>2, <1>3 DEF Check, Safe, SafeButForStop

LEMMA AuthoriseStep == ASSUME DInv, pc # "exited", Authorise PROVE DInv'
<1>0. call = "auth" /\ UNCHANGED <<stopped, pending, starting, cmd, sent, defied,
                                   procVars, envVars>>
  BY DEF Authorise
<1>1. starting = FALSE /\ pending = <<>>
  BY <1>0 DEF DInv, ConnectorOK
<1>2. PipesOK' /\ WorldOK'
  BY <1>0 DEF DInv, PipesOK, WorldOK, procVars, envVars
<1>3. RepliesKnown'
  BY <1>0 DEF DInv, RepliesKnown, IsReply, procVars
<1>4. CASE /\ call' = "before" /\ count' = count + 1
           /\ UNCHANGED <<pc, plan, attempt, cont, outcome>>
  <2>1. count' \in 0..MaxActions
    <3>1. count \in Nat /\ count < MaxActions
      BY <1>0, DesktopConstantsAssumption DEF DInv, ConnectorOK
    <3> QED
      BY <1>4, <3>1, DesktopConstantsAssumption
  <2>2. ConnectorOK'
    BY <1>0, <1>1, <1>4, <2>1 DEF DInv, ConnectorOK
  <2>3. AgentOK'
    BY <1>0, <1>4 DEF DInv, AgentOK
  <2> QED
    BY <1>2, <1>3, <2>2, <2>3 DEF DInv
<1>5. CASE UNCHANGED count /\ \E status \in {"DENIED", "CONFIRMATION_REQUIRED"} :
                                 Return(status)
  BY <1>0, <1>1, <1>2, <1>3, <1>5, SettledOK DEF DInv
<1> QED
  BY <1>4, <1>5 DEF Authorise

LEMMA BeginStep == ASSUME DInv, pc # "exited", Begin PROVE DInv'
<1>0. call = "before" /\ starting = FALSE /\ pending = <<>> /\ sent = 0
  BY DEF Begin, DInv, ConnectorOK
<1>1. WorldOK'
  BY DEF Begin, Capture, DInv, WorldOK
<1>2. CASE proc # "none"
  <2>1. /\ WriteCommand /\ starting' = FALSE
        /\ UNCHANGED <<proc, late, outPipe, stopped, count>>
    BY <1>0, <1>2 DEF Begin
  <2> QED
    BY <1>0, <1>1, <1>2, <2>1, WriteOK, WritePipesOK DEF DInv
<1>3. CASE proc = "none"
  <2>1. /\ proc' = "loading" /\ starting' = TRUE /\ late' = FALSE /\ call' = "start"
        /\ UNCHANGED <<pc, plan, attempt, cont, outcome, pending, cmd, sent, defied,
                       inPipe, done, stopped, count, outPipe>>
    BY <1>3 DEF Begin
  <2>2. inPipe = <<>> /\ outPipe = <<>>
    BY <1>3 DEF DInv, PipesOK
  <2>3. AgentOK'
    BY <1>0, <2>1 DEF DInv, AgentOK
  <2>4. ConnectorOK'
    BY <1>0, <2>1 DEF DInv, ConnectorOK
  <2>5. PipesOK'
    BY <2>1, <2>2 DEF DInv, PipesOK
  <2>6. RepliesKnown'
    BY <2>1, <2>2 DEF RepliesKnown
  <2> QED
    BY <1>1, <2>3, <2>4, <2>5, <2>6 DEF DInv
<1> QED
  BY <1>2, <1>3

LEMMA GiveUpStep ==
  ASSUME DInv, pc # "exited", ReadyTimeout \/ SpawnError
  PROVE  DInv'
<1>1. /\ starting /\ call = "start" /\ pending = <<>> /\ inPipe = <<>>
      /\ late \in BOOLEAN
  BY DEF ReadyTimeout, SpawnError, DInv, ConnectorOK, PipesOK
<1>2. /\ Return("FAILED") /\ starting' = FALSE
      /\ UNCHANGED <<stopped, count, pending, cmd, sent, defied, inPipe, outPipe,
                     done, late, envVars>>
      /\ proc' = proc \/ (proc = "loading" /\ proc' = "none")
  BY DEF ReadyTimeout, SpawnError, procVars
<1>3. AgentOK' /\ ConnectorOK'
  BY <1>1, <1>2, SettledOK
<1>4. PipesOK' /\ WorldOK'
  BY <1>1, <1>2 DEF DInv, PipesOK, WorldOK, envVars
<1>5. RepliesKnown'
  BY <1>1, <1>2 DEF DInv, RepliesKnown, IsReply
<1> QED
  BY <1>3, <1>4, <1>5 DEF DInv

LEMMA CommandTimeoutStep ==
  ASSUME DInv, pc # "exited", CommandTimeout
  PROVE  DInv'
<1>1. call = "reply" /\ pending = <<cmd>> /\ cmd \in Nat /\ starting = FALSE
  BY DEF CommandTimeout, DInv, ConnectorOK
<1>2. pending' = <<>>
  <2>1. pending' = SubSeq(<<cmd>>, 1, 0) \o SubSeq(<<cmd>>, 2, 1)
    <3>1. PICK i \in DOMAIN pending : pending' = RemoveAt(pending, i)
      BY DEF CommandTimeout
    <3>2. i = 1 /\ Len(pending) = 1
      BY <1>1
    <3> QED
      BY <1>1, <3>1, <3>2 DEF RemoveAt
  <2>2. SubSeq(<<cmd>>, 1, 0) = <<>> /\ SubSeq(<<cmd>>, 2, 1) = <<>>
    BY SubSeqEmpty
  <2>3. <<>> \in Seq(Nat) /\ <<>> \o <<>> = <<>>
    BY EmptySeq, ConcatEmptySeq
  <2> QED
    BY <2>1, <2>2, <2>3
<1>3. /\ Return("FAILED") /\ late' = TRUE
      /\ UNCHANGED <<stopped, count, starting, cmd, sent, defied, proc, inPipe, outPipe,
                     done, envVars>>
  BY DEF CommandTimeout
<1>4. AgentOK' /\ ConnectorOK'
  BY <1>1, <1>2, <1>3, SettledOK
<1>5. PipesOK' /\ RepliesKnown' /\ WorldOK'
  BY <1>3 DEF DInv, PipesOK, RepliesKnown, WorldOK, envVars
<1> QED
  BY <1>4, <1>5 DEF DInv

LEMMA FinishStep == ASSUME DInv, pc # "exited", Finish PROVE DInv'
<1>1. /\ call = "after" /\ starting = FALSE /\ pending = <<>> /\ Return("SUCCESS")
      /\ UNCHANGED <<connVars, procVars, hook, override, runs, deaths>>
      /\ obs' \in BOOLEAN
  BY DEF Finish, Capture, DInv, ConnectorOK, WorldOK
<1>2. AgentOK' /\ ConnectorOK'
  BY <1>1, SettledOK DEF connVars
<1>3. PipesOK' /\ WorldOK'
  BY <1>1 DEF DInv, PipesOK, WorldOK, connVars, procVars
<1>4. RepliesKnown'
  BY <1>1 DEF DInv, RepliesKnown, IsReply, connVars, procVars
<1> QED
  BY <1>2, <1>3, <1>4 DEF DInv

LEMMA DaemonClosedStep == ASSUME DInv, pc # "exited", DaemonClosed PROVE DInv'
<1>1. /\ outPipe = <<>> /\ outPipe' = <<>> /\ inPipe' = <<>> /\ proc' = "none"
      /\ starting' = FALSE /\ pending' = <<>>
      /\ UNCHANGED <<stopped, count, cmd, sent, defied, done, late, envVars>>
  BY DEF DaemonClosed
<1>2. AgentOK' /\ ConnectorOK'
  <2>1. CASE pending # <<>>
    <3>1. call = "reply" /\ Return("FAILED")
      BY <2>1 DEF DaemonClosed, DInv, ConnectorOK
    <3> QED
      BY <1>1, <3>1, SettledOK
  <2>2. CASE pending = <<>>
    <3>1. UNCHANGED <<pc, plan, attempt, cont, call, outcome>> /\ call # "reply"
      BY <2>2 DEF DaemonClosed, DInv, ConnectorOK
    <3> QED
      BY <1>1, <3>1 DEF DInv, AgentOK, ConnectorOK
  <2> QED
    BY <2>1, <2>2
<1>3. PipesOK' /\ WorldOK'
  BY <1>1, EmptySeq DEF DInv, PipesOK, WorldOK, envVars
<1>4. RepliesKnown'
  BY <1>1, EmptySeq DEF RepliesKnown
<1> QED
  BY <1>2, <1>3, <1>4 DEF DInv

\* Once a line is read the others are one place nearer, and of a process none
\* of whose commands timed out no second reply is on its way.
LEMMA LinesLeft ==
  ASSUME DInv, outPipe # <<>>
  PROVE  /\ Tail(outPipe) \in Seq([of : Ready..cmd, ok : BOOLEAN])
         /\ Head(outPipe) \in [of : Ready..cmd, ok : BOOLEAN]
         /\ Head(outPipe) = outPipe[1] /\ 1 \in 1..Len(outPipe)
         /\ \A i \in 1..Len(Tail(outPipe)) :
              i + 1 \in 1..Len(outPipe) /\ Tail(outPipe)[i] = outPipe[i + 1]
         /\ ~late /\ IsReply(Head(outPipe)) =>
              \A i \in 1..Len(Tail(outPipe)) : ~IsReply(Tail(outPipe)[i])
<1> DEFINE Line == [of : Ready..cmd, ok : BOOLEAN]
<1>1. outPipe \in Seq(Line)
  BY DEF DInv, PipesOK
<1> HIDE DEF Line
<1>2. /\ Tail(outPipe) \in Seq(Line) /\ Len(Tail(outPipe)) = Len(outPipe) - 1
      /\ \A i \in 1..Len(Tail(outPipe)) : Tail(outPipe)[i] = outPipe[i + 1]
      /\ Len(outPipe) \in Nat \ {0} /\ Head(outPipe) \in Line
  BY <1>1, HeadTailProperties, EmptySeq
<1>3. Head(outPipe) = outPipe[1] /\ 1 \in 1..Len(outPipe)
  BY <1>1, <1>2
<1>4. \A i \in 1..Len(Tail(outPipe)) : i + 1 \in 1..Len(outPipe) /\ i + 1 # 1
  BY <1>2
<1>5. ASSUME ~late, IsReply(Head(outPipe)), NEW i \in 1..Len(Tail(outPipe))
      PROVE  ~IsReply(Tail(outPipe)[i])
  <2>1. \A k, j \in 1..Len(outPipe) : IsReply(outPipe[k]) /\ IsReply(outPipe[j]) => k = j
    BY <1>5 DEF DInv, RepliesKnown
  <2>2. i + 1 \in 1..Len(outPipe) /\ i + 1 # 1 /\ Tail(outPipe)[i] = outPipe[i + 1]
    BY <1>2, <1>4
  <2> QED
    BY <1>3, <1>5, <2>1, <2>2
<1> QED
  BY <1>2, <1>3, <1>4, <1>5 DEF Line

\* A line that starts no command.
LEMMA LineReadOK ==
  ASSUME DInv, outPipe # <<>>, outPipe' = Tail(outPipe), starting' = FALSE \/ starting' = starting,
         UNCHANGED <<cmd, inPipe, done, proc, late>>,
         UNCHANGED call \/ IsReply(Head(outPipe)),
         IsReply(Head(outPipe)) /\ ~late => inPipe = <<>>
  PROVE  PipesOK' /\ RepliesKnown'
<1>1. PipesOK'
  <2>1. outPipe' \in Seq([of : Ready..cmd, ok : BOOLEAN])
    BY LinesLeft
  <2>2. proc \notin {"none", "loading"}
    BY DEF DInv, PipesOK
  <2> QED
    BY <2>1, <2>2 DEF DInv, PipesOK
<1>2. ASSUME ~late PROVE RepliesKnown'
  <2>1. CASE IsReply(Head(outPipe))
    BY <1>2, <2>1, LinesLeft DEF RepliesKnown, IsReply
  <2>2. CASE UNCHANGED call
    <3>1. \A i \in 1..Len(outPipe') :
            i + 1 \in 1..Len(outPipe) /\ outPipe'[i] = outPipe[i + 1] /\ i \in Int
      BY LinesLeft
    <3>2. inPipe' = <<>> \/ (inPipe' = <<cmd'>> /\ call' = "reply")
      BY <1>2, <2>2 DEF DInv, RepliesKnown
    <3>3. ASSUME NEW i \in 1..Len(outPipe'), IsReply(outPipe'[i])
          PROVE  /\ outPipe'[i].of = cmd' /\ call' = "reply" /\ inPipe' = <<>>
                 /\ outPipe'[i].ok => done'
                 /\ \A j \in 1..Len(outPipe') : IsReply(outPipe'[j]) => i = j
      <4>1. /\ outPipe[i + 1].of = cmd /\ call = "reply" /\ inPipe = <<>>
            /\ outPipe[i + 1].ok => done
            /\ \A j \in 1..Len(outPipe) : IsReply(outPipe[j]) => i + 1 = j
        BY <1>2, <3>1, <3>3 DEF DInv, RepliesKnown
      <4>2. ASSUME NEW j \in 1..Len(outPipe'), IsReply(outPipe'[j]) PROVE i = j
        <5>1. i + 1 = j + 1 /\ i \in Int /\ j \in Int
          BY <3>1, <4>1, <4>2
        <5> QED
          BY <5>1
      <4> QED
        BY <2>2, <3>1, <4>1, <4>2
    <3> QED
      BY <3>2, <3>3 DEF RepliesKnown, IsReply
  <2> QED
    BY <2>1, <2>2
<1>3. CASE late
  <2>1. late' = TRUE
    BY <1>3 DEF DInv, PipesOK
  <2> QED
    BY <1>1, <2>1 DEF DInv, PipesOK, RepliesKnown, IsReply
<1> QED
  BY <1>1, <1>2, <1>3

LEMMA HandleLineStep == ASSUME DInv, pc # "exited", HandleLine PROVE DInv'
<1>0. /\ outPipe # <<>> /\ outPipe' = Tail(outPipe)
      /\ UNCHANGED <<stopped, count, proc, late, envVars>>
      /\ proc # "none"
  BY DEF HandleLine, DInv, PipesOK
<1>1. WorldOK'
  BY <1>0 DEF DInv, WorldOK, envVars
<1>2. CASE ~IsReply(Head(outPipe)) /\ starting
  <2>1. WriteCommand /\ starting' = FALSE /\ call = "start"
    BY <1>2 DEF HandleLine, IsReply, DInv, ConnectorOK
  <2> QED
    BY <1>0, <1>1, <2>1, WriteOK, WritePipesOK DEF DInv
<1>3. CASE ~IsReply(Head(outPipe)) /\ ~starting
  <2>1. /\ starting' = FALSE
        /\ UNCHANGED <<agentVars, pending, cmd, sent, defied, inPipe, done>>
    BY <1>3 DEF HandleLine, IsReply
  <2>2. AgentOK'
    BY <2>1 DEF DInv, AgentOK, agentVars
  <2>3. ConnectorOK'
    BY <1>0, <2>1 DEF DInv, ConnectorOK, agentVars
  <2>4. PipesOK' /\ RepliesKnown'
    BY <1>0, <1>3, <2>1, LineReadOK DEF agentVars
  <2> QED
    BY <1>1, <2>2, <2>3, <2>4 DEF DInv
<1>4. CASE IsReply(Head(outPipe))
  <2>1. UNCHANGED <<starting, cmd, sent, defied, inPipe, done>>
    BY <1>4 DEF HandleLine, IsReply
  <2>2. ~late => inPipe = <<>> /\ call = "reply"
    BY <1>0, <1>4, LinesLeft DEF DInv, RepliesKnown
  <2>3. PipesOK' /\ RepliesKnown'
    BY <1>0, <1>4, <2>1, <2>2, LineReadOK
  <2>4. CASE pending = <<>>
    <3>1. UNCHANGED <<agentVars, pending>>
      BY <1>4, <2>4 DEF HandleLine, IsReply
    <3>2. AgentOK' /\ ConnectorOK'
      BY <1>0, <2>1, <3>1 DEF DInv, AgentOK, ConnectorOK, agentVars
    <3> QED
      BY <1>1, <2>3, <3>2 DEF DInv
  <2>5. CASE pending # <<>>
    <3>1. call = "reply" /\ pending = <<cmd>> /\ cmd \in Nat /\ starting = FALSE
      BY <2>5 DEF DInv, ConnectorOK
    <3>2. pending' = <<>>
      BY <1>4, <2>5, <3>1 DEF HandleLine, IsReply
    <3>3. CASE call' = "after" /\ UNCHANGED <<pc, plan, attempt, cont, outcome>>
      <4>1. AgentOK' /\ ConnectorOK'
        BY <1>0, <2>1, <3>1, <3>2, <3>3 DEF DInv, AgentOK, ConnectorOK
      <4> QED
        BY <1>1, <2>3, <4>1 DEF DInv
    <3>4. CASE Return("FAILED")
      <4>1. AgentOK' /\ ConnectorOK'
        BY <1>0, <2>1, <3>1, <3>2, <3>4, SettledOK
      <4> QED
        BY <1>1, <2>3, <4>1 DEF DInv
    <3> QED
      BY <1>4, <2>5, <3>3, <3>4 DEF HandleLine, IsReply
  <2> QED
    BY <2>4, <2>5
<1> QED
  BY <1>2, <1>3, <1>4

-----------------------------------------------------------------------------
(* The Python process, the hook and the stop.                              *)

LEMMA DaemonReadyStep == ASSUME DInv, pc # "exited", DaemonReady PROVE DInv'
<1>1. /\ outPipe = <<>> /\ proc' = "up" /\ UNCHANGED <<agentVars, connVars, envVars>>
      /\ UNCHANGED <<inPipe, done, late>>
      /\ outPipe' = <<[of |-> Ready, ok |-> TRUE]>>
  <2>1. outPipe = <<>>
    BY DEF DaemonReady, DInv, PipesOK
  <2>2. \A e : Append(<<>>, e) = <<e>>
    OBVIOUS
  <2> QED
    BY <2>1, <2>2 DEF DaemonReady
<1>2. AgentOK' /\ ConnectorOK' /\ WorldOK'
  BY <1>1 DEF DInv, AgentOK, ConnectorOK, WorldOK, agentVars, connVars, envVars
<1>3. PipesOK'
  <2>1. [of |-> Ready, ok |-> TRUE] \in [of : Ready..cmd, ok : BOOLEAN]
    BY DEF DInv, ConnectorOK, Ready
  <2>2. outPipe' \in Seq([of : Ready..cmd, ok : BOOLEAN])
    BY <1>1, <2>1
  <2> QED
    BY <1>1, <2>2 DEF DInv, PipesOK, connVars
<1>4. \A i \in 1..Len(outPipe') : ~IsReply(outPipe'[i])
  BY <1>1 DEF IsReply
<1>5. RepliesKnown'
  <2>1. late \in BOOLEAN
    BY DEF DInv, PipesOK
  <2> QED
    BY <1>1, <1>4, <2>1 DEF DInv, RepliesKnown, IsReply, agentVars, connVars
<1> QED
  BY <1>2, <1>3, <1>5 DEF DInv

\* The answer to the one command under way is the one reply under way.
LEMMA ExecuteStep == ASSUME DInv, pc # "exited", Execute PROVE DInv'
<1> DEFINE Line == [of : Ready..cmd, ok : BOOLEAN]
<1>1. PICK ok \in BOOLEAN :
        /\ outPipe' = Append(outPipe, [of |-> Head(inPipe), ok |-> ok])
        /\ done' = (done \/ (ok /\ Head(inPipe) = cmd))
  BY DEF Execute, ExecutePayload
<1>2. /\ inPipe # <<>> /\ inPipe' = Tail(inPipe) /\ proc = "up" /\ starting = FALSE
      /\ UNCHANGED <<agentVars, connVars, proc, late, envVars>>
      /\ late \in BOOLEAN /\ done \in BOOLEAN /\ cmd \in Nat
  BY DEF Execute, DInv, PipesOK, ConnectorOK
<1>3. AgentOK' /\ ConnectorOK' /\ WorldOK'
  BY <1>2 DEF DInv, AgentOK, ConnectorOK, WorldOK, agentVars, connVars, envVars
<1>4. inPipe' \in Seq(1..cmd) /\ Head(inPipe) \in 1..cmd
  <2>1. inPipe \in Seq(1..cmd)
    BY DEF DInv, PipesOK
  <2> QED
    BY <1>2, <2>1, HeadTailProperties, Zenon
<1>5. [of |-> Head(inPipe), ok |-> ok] \in Line /\ outPipe \in Seq(Line)
  BY <1>2, <1>4 DEF DInv, PipesOK, Ready
<1>6. /\ outPipe' \in Seq(Line)
      /\ Len(outPipe) \in Nat /\ Len(outPipe') = Len(outPipe) + 1
      /\ \A i \in 1..Len(outPipe) : outPipe'[i] = outPipe[i]
      /\ outPipe'[Len(outPipe) + 1] = [of |-> Head(inPipe), ok |-> ok]
  <2> HIDE DEF Line
  <2> QED
    BY <1>1, <1>5, AppendProperties, LenProperties
<1>7. PipesOK'
  <2>1. done' \in BOOLEAN
    BY <1>1
  <2> QED
    BY <1>2, <1>4, <1>6, <2>1 DEF DInv, PipesOK, connVars
<1>8. ASSUME ~late PROVE RepliesKnown'
  <2>1. inPipe = <<cmd>> /\ call = "reply" /\ \A i \in 1..Len(outPipe) : ~IsReply(outPipe[i])
    BY <1>2, <1>8 DEF DInv, RepliesKnown
  <2>2. inPipe' = <<>> /\ Head(inPipe) = cmd /\ cmd' = cmd /\ call' = "reply"
    BY <1>2, <2>1 DEF agentVars, connVars
  <2>3. ASSUME NEW i \in 1..Len(outPipe'), IsReply(outPipe'[i])
        PROVE  i = Len(outPipe) + 1
    <3>1. i \notin 1..Len(outPipe)
      BY <1>6, <2>1, <2>3 DEF IsReply
    <3> QED
      BY <1>6, <3>1
  <2>4. ASSUME NEW i \in 1..Len(outPipe'), IsReply(outPipe'[i])
        PROVE  /\ outPipe'[i].of = cmd'
               /\ outPipe'[i].ok => done'
    <3>1. outPipe'[i] = [of |-> cmd, ok |-> ok] /\ done' = (done \/ ok)
      BY <1>1, <1>6, <2>2, <2>3, <2>4
    <3>2. outPipe'[i].of = cmd /\ outPipe'[i].ok = ok
      BY <3>1
    <3> QED
      BY <2>2, <3>1, <3>2
  <2> QED
    BY <2>2, <2>3, <2>4 DEF RepliesKnown, IsReply
<1>9. CASE late
  <2>1. late' = TRUE
    BY <1>2, <1>9
  <2> QED
    BY <1>3, <1>7, <2>1 DEF DInv, RepliesKnown
<1> QED
  BY <1>3, <1>7, <1>8, <1>9 DEF DInv

LEMMA DaemonDiesStep == ASSUME DInv, pc # "exited", DaemonDies PROVE DInv'
<1>1. AgentOK' /\ ConnectorOK'
  BY DEF DaemonDies, DInv, AgentOK, ConnectorOK, agentVars, connVars
<1>2. PipesOK'
  BY DEF DaemonDies, DInv, PipesOK, connVars
<1>3. RepliesKnown'
  BY DEF DaemonDies, DInv, RepliesKnown, IsReply, agentVars, connVars
<1>4. WorldOK'
  <2>1. deaths \in Nat /\ deaths < MaxDeaths /\ deaths' = deaths + 1
    BY DesktopConstantsAssumption DEF DaemonDies, DInv, WorldOK
  <2>2. deaths' \in 0..MaxDeaths
    BY <2>1, DesktopConstantsAssumption
  <2> QED
    BY <2>2 DEF DaemonDies, DInv, WorldOK
<1> QED
  BY <1>1, <1>2, <1>3, <1>4 DEF DInv

LEMMA StopStep ==
  ASSUME DInv, pc # "exited",
         HookAnswers \/ HookCloses \/ EmergencyStop \/ Override
  PROVE  DInv'
<1>1. /\ UNCHANGED <<agentVars, count, pending, starting, cmd, sent, defied, procVars,
                     obs, runs, deaths>>
      /\ stopped' = stopped \/ stopped' = TRUE
      /\ hook' \in {hook, "active", "failed", "inactive"}
      /\ override' = override \/ override' = TRUE
  BY DEF HookAnswers, HookCloses, EmergencyStop, Override, connVars, envVars
<1>2. AgentOK' /\ WorldOK'
  <2>1. AgentOK'
    BY <1>1 DEF DInv, AgentOK, agentVars
  <2>2. override' \in BOOLEAN
    BY <1>1 DEF DInv, WorldOK
  <2> QED
    BY <1>1, <2>1, <2>2 DEF DInv, WorldOK
<1>3. ConnectorOK'
  <2>1. CASE stopped' = stopped
    BY <1>1, <2>1 DEF DInv, ConnectorOK, agentVars
  <2>2. CASE stopped' = TRUE
    BY <1>1, <2>2 DEF DInv, ConnectorOK, agentVars
  <2> QED
    BY <1>1, <2>1, <2>2
<1>4. PipesOK' /\ RepliesKnown'
  BY <1>1 DEF DInv, PipesOK, RepliesKnown, IsReply, procVars, agentVars
<1> QED
  BY <1>2, <1>3, <1>4 DEF DInv

LEMMA DesktopStep == DInv /\ [DNext]_vars => DInv'
<1> SUFFICES ASSUME DInv, [DNext]_vars PROVE DInv'
  OBVIOUS
<1>1. CASE DNext
  BY <1>1, AgentStep, CheckStep, AuthoriseStep, BeginStep, GiveUpStep,
     CommandTimeoutStep, HandleLineStep, FinishStep, DaemonClosedStep,
     DaemonReadyStep, ExecuteStep, DaemonDiesStep, StopStep
  DEF DNext, Connector, Environment
<1>2. CASE UNCHANGED vars
  BY <1>2
  DEF DInv, AgentOK, ConnectorOK, PipesOK, RepliesKnown, IsReply, WorldOK, vars,
      agentVars, connVars, procVars, envVars
<1> QED
  BY <1>1, <1>2

-----------------------------------------------------------------------------
(* The theorems.                                                           *)

\* The variables of desktop control have their types.
THEOREM DesktopTypes == DSpec => []DTypeOK
<1>1. DInv => DTypeOK
  <2> SUFFICES ASSUME DInv PROVE DTypeOK
    OBVIOUS
  <2>1. cmd \in Nat /\ sent \in Nat
    BY DEF DInv, ConnectorOK
  <2>2. pending \in Seq(1..cmd)
    <3>1. CASE pending = <<>>
      BY <3>1, EmptySeq
    <3>2. CASE pending = <<cmd>> /\ cmd # 0
      <4>1. cmd \in 1..cmd
        BY <2>1, <3>2
      <4> QED
        BY <3>2, <4>1
    <3> QED
      BY <3>1, <3>2 DEF DInv, ConnectorOK
  <2> QED
    BY <2>1, <2>2 DEF DInv, AgentOK, ConnectorOK, PipesOK, WorldOK, DTypeOK, Outcome
<1> QED
  BY <1>1, DesktopStart, DesktopStep, PTL DEF DSpec

\* Whoever waits for a reply of the Python process is the one and only entry of
\* pendingQueue, whatever is late, lost or dropped.
THEOREM QueueIsTheCaller == DSpec => []QueueMatchesCaller
<1>1. DInv => QueueMatchesCaller
  BY DEF DInv, ConnectorOK, QueueMatchesCaller
<1> QED
  BY <1>1, DesktopStart, DesktopStep, PTL DEF DSpec

\* However long the plan and however many retries a click has left, at most one
\* action is begun after an emergency stop.
THEOREM StopIsBounded == DSpec => []StopBound
<1>1. DInv => StopBound
  BY DEF DInv, ConnectorOK, StopBound
<1> QED
  BY <1>1, DesktopStart, DesktopStep, PTL DEF DSpec

\* Until a command of a process times out, success is never credited to a
\* command that was not performed.
THEOREM SuccessIsEarned == DSpec => SuccessMeansDone
<1>1. DInv /\ [DNext]_vars =>
        [call = "reply" /\ call' = "after" /\ ~late => done]_vars
  <2> SUFFICES ASSUME DInv, [DNext]_vars, call = "reply", call' = "after", ~late
               PROVE  done
    OBVIOUS
  <2>1. AgentOK /\ pc = "call" /\ call' \notin {"none", "check"}
    BY DEF DInv, AgentOK
  <2>2. ~Agent /\ ~Check /\ ~Authorise /\ ~Begin /\ ~Finish
    BY <2>1 DEF Agent, StartRun, Look, Think, Relook, Act, Store, Aim, Hover, Verify,
                Check, Authorise, Begin, Finish
  <2>3. ~ReadyTimeout /\ ~SpawnError /\ ~CommandTimeout
    BY <2>1, ReturnOK DEF ReadyTimeout, SpawnError, CommandTimeout
  <2>4. ~DaemonClosed
    BY <2>1, ReturnOK DEF DaemonClosed
  <2>5. ~Environment /\ call' # call
    BY <2>1
    DEF Environment, DaemonReady, Execute, DaemonDies, HookAnswers, HookCloses,
        EmergencyStop, Override, agentVars
  <2>6. HandleLine
    BY <2>2, <2>3, <2>4, <2>5 DEF DNext, Connector, vars, agentVars
  <2>7. outPipe # <<>> /\ IsReply(Head(outPipe)) /\ Head(outPipe).ok
    <3>1. CASE ~IsReply(Head(outPipe))
      <4>1. UNCHANGED agentVars \/ WriteCommand
        BY <2>6, <3>1 DEF HandleLine, IsReply
      <4> QED
        BY <2>1, <4>1 DEF WriteCommand, agentVars
    <3>2. CASE IsReply(Head(outPipe)) /\ ~Head(outPipe).ok
      <4>1. UNCHANGED agentVars \/ Return("FAILED")
        BY <2>6, <3>2 DEF HandleLine, IsReply
      <4> QED
        BY <2>1, <4>1, ReturnOK DEF agentVars
    <3> QED
      BY <2>6, <3>1, <3>2 DEF HandleLine
  <2> QED
    BY <2>7, LinesLeft DEF DInv, RepliesKnown
<1> QED
  BY <1>1, DesktopStart, DesktopStep, PTL DEF DSpec, SuccessMeansDone
=============================================================================
