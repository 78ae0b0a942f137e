-------------------------- MODULE BuildScript_proofs --------------------------
(***************************************************************************)
(* Theorems about BuildScript for every number of recorder restarts and    *)
(* signals: the safety properties of one supervised build, from IInv,      *)
(* which follows the signal from the relay to the decision (SignalPath),   *)
(* the script (ScriptPath), the recorder (RecorderPath) and the order of   *)
(* the deferred calls (Order).                                             *)
(***************************************************************************)
EXTENDS BuildScript, TLAPS

\* Who cancelled the context has passed the signal on before, and nobody
\* takes it before the drain.
SignalPath ==
  /\ relay = "gone" => main = "returned"
  /\ ctx = "canceled" => relay = "later" \/ main = "returned"
  /\ relay \in {"cancelling", "later"} /\ main \in {"select", "terminate", "stop", "drain"}
       /\ verdict = "none" => interrupted
  /\ branch = "ctx" \/ verdict = "context" => ctx # "live"
  /\ branch = "ctx" /\ ctx = "canceled" /\ main = "decide" => sig

\* The script is gone once it was waited for or terminated, and its children
\* are gone once the context's end made RunBuildScript terminate the group.
ScriptPath ==
  /\ main = "select" <=> branch = "none"
  /\ verdict = "none" <=> main \in {"select", "stop", "drain", "decide"}
                         \/ (main = "terminate" /\ branch = "ctx")
  /\ done # "none" => script # "running"
  /\ branch = "done" => done = "taken"
  /\ branch = "ctx" /\ main # "terminate" => script # "running" /\ ~children
  /\ verdict = "context" /\ main # "terminate" => ~children

\* Where vncsnapshot and ffmpeg may run, and where a stop request leads.
RecorderPath ==
  /\ vnc = "running" => rec \in {"capture", "feed", "stopping"}
  /\ ffmpeg \in {"running", "stalled"} => rec \notin {"setup", "delay", "start", "closed"}
  /\ stop = "delivered" => rec \in {"stopping", "last", "finish", "closed"}

\* The deferred calls come last, the artifacts first of them.
Order ==
  /\ settled <=> main \in {"restore", "stopped", "returned"}
  /\ main \in {"cleanup", "restore", "stopped", "returned"} /\ verdict # "context"
       => rec = "closed"

IInv ==
  /\ TypeOK /\ SignalPath /\ ScriptPath /\ RecorderPath /\ Order
  /\ InterruptIsNamed

LEMMA InitInv == Init => IInv
<1> SUFFICES ASSUME Init PROVE IInv
  OBVIOUS
<1>1. {sig, settled, sigs, interrupted, children} \subseteq BOOLEAN
  BY Zenon DEF Init
<1>2. signals \in 0..MaxSignals /\ attempt \in 0..Retries
  BY ScriptAssumption DEF Init
<1>3. TypeOK
  BY <1>1, <1>2 DEF Init, TypeOK
<1> QED
  BY <1>3 DEF Init, IInv, SignalPath, ScriptPath, RecorderPath, Order, InterruptIsNamed

\* Each step of the context, the relay, the script, RunBuildScript and the
\* recorder keeps IInv.
LEMMA StepInv == IInv /\ [Next]_vars => IInv'
<1> SUFFICES ASSUME IInv, [Next]_vars PROVE IInv'
  OBVIOUS
<1> USE ScriptAssumption
    DEF IInv, TypeOK, SignalPath, ScriptPath, RecorderPath, Order, InterruptIsNamed,
        Listening, mainVars, signalVars, scriptVars, recVars, outside
<1>1. CASE Deadline
  BY <1>1 DEF Deadline
<1>2. CASE Signal
  BY <1>2 DEF Signal
<1>3. CASE RelayFirst
  <2>1. ({sig, settled, sigs, interrupted, children} \subseteq BOOLEAN)'
    BY <1>3, Zenon DEF RelayFirst
  <2>2. TypeOK'
    BY <1>3, <2>1 DEF RelayFirst
  <2> QED
    BY <1>3, <2>2 DEF RelayFirst
<1>4. CASE RelayCancel
  BY <1>4 DEF RelayCancel
<1>5. CASE RelayLater
  <2>1. ({sig, settled, sigs, interrupted, children} \subseteq BOOLEAN)'
    BY <1>5, Zenon DEF RelayLater
  <2>2. TypeOK'
    BY <1>5, <2>1 DEF RelayLater
  <2> QED
    BY <1>5, <2>2 DEF RelayLater
<1>6. CASE ScriptEnds \/ ChildrenChange
  <2>1. CASE ScriptEnds
    BY <2>1 DEF ScriptEnds
  <2>2. CASE ChildrenChange
    <3>1. ({sig, settled, sigs, interrupted, children} \subseteq BOOLEAN)'
      BY <2>2, Zenon DEF ChildrenChange
    <3>2. TypeOK'
      BY <2>2, <3>1 DEF ChildrenChange
    <3> QED
      BY <2>2, <3>2 DEF ChildrenChange
  <2> QED
    BY <1>6, <2>1, <2>2
<1>7. CASE Wait
  BY <1>7 DEF Wait
<1>8. CASE Main
  <2>1. CASE SelectDone
    BY <2>1 DEF SelectDone
  <2>2. CASE SelectContext
    BY <2>2 DEF SelectContext
  <2>3. CASE Terminate
    <3>1. ({sig, settled, sigs, interrupted, children} \subseteq BOOLEAN)'
      BY <2>3, Zenon DEF Terminate
    <3>2. TypeOK'
      BY <2>3, <3>1 DEF Terminate, AfterTerminate
    <3> QED
      BY <2>3, <3>2 DEF Terminate, AfterTerminate
  <2>4. CASE DeliverStop
    BY <2>4 DEF DeliverStop
  <2>5. CASE SkipStop
    BY <2>5 DEF SkipStop
  <2>6. CASE Drain
    <3>1. ({sig, settled, sigs, interrupted, children} \subseteq BOOLEAN)'
      BY <2>6, Zenon DEF Drain
    <3>2. TypeOK'
      BY <2>6, <3>1 DEF Drain
    <3> QED
      BY <2>6, <3>2 DEF Drain
  <2>7. CASE Decide
    BY <2>7 DEF Decide, Verdict
  <2>8. CASE Await
    BY <2>8 DEF Await
  <2>9. CASE Cleanup
    BY <2>9 DEF Cleanup
  <2>10. CASE Return
    BY <2>10 DEF Return
  <2> QED
    BY <1>8, <2>1, <2>2, <2>3, <2>4, <2>5, <2>6, <2>7, <2>8, <2>9, <2>10 DEF Main
<1>9. CASE JobControlStop
  BY <1>9 DEF JobControlStop
<1>10. CASE Recorder \/ Tick \/ Capture
  <2>1. CASE Prepare
    BY <2>1 DEF Prepare
  <2>2. CASE DelayEnds
    BY <2>2 DEF DelayEnds
  <2>3. CASE StartFfmpeg
    BY <2>3 DEF StartFfmpeg
  <2>4. CASE StartVnc
    BY <2>4 DEF StartVnc
  <2>5. CASE Feed
    BY <2>5 DEF Feed, KillVnc
  <2>6. CASE Flushed
    BY <2>6 DEF Flushed
  <2>7. CASE RetryWaitEnds
    BY <2>7 DEF RetryWaitEnds
  <2>8. CASE StopReceived
    BY <2>8 DEF StopReceived, KillVnc
  <2>9. CASE Finish
    BY <2>9 DEF Finish
  <2>10. CASE Tick
    BY <2>10 DEF Tick
  <2>11. CASE CaptureCancelled
    BY <2>11 DEF CaptureCancelled, KillVnc
  <2>12. CASE FfmpegDone
    BY <2>12 DEF FfmpegDone, KillVnc
  <2>13. CASE VncDone
    BY <2>13 DEF VncDone
  <2>14. CASE Flush
    BY <2>14 DEF Flush
  <2>15. CASE FlushLast
    BY <2>15 DEF FlushLast
  <2> QED
    BY <1>10, <2>1, <2>2, <2>3, <2>4, <2>5, <2>6, <2>7, <2>8, <2>9, <2>10, <2>11, <2>12,
       <2>13, <2>14, <2>15 DEF Recorder, Capture
<1>11. CASE VncExits
  BY <1>11 DEF VncExits
<1>12. CASE FfmpegExits \/ FfmpegStalls
  BY <1>12 DEF FfmpegExits, FfmpegStalls
<1>13. CASE UNCHANGED vars
  BY <1>13 DEF vars
<1> QED
  BY <1>1, <1>2, <1>3, <1>4, <1>5, <1>6, <1>7, <1>8, <1>9, <1>10, <1>11, <1>12, <1>13
  DEF Next, Over

\* IInv holds in every reachable state.
THEOREM Invariant == Spec => []IInv
  BY InitInv, StepInv, PTL DEF Spec

\* Every variable keeps its type; the restarts stay within Retries.
THEOREM TypeCorrect == Spec => []TypeOK
<1>1. IInv => TypeOK
  BY DEF IInv
<1> QED
  BY <1>1, Invariant, PTL

\* A build whose context was cancelled by a signal is reported as interrupted,
\* never as timed out.
THEOREM InterruptNamed == Spec => []InterruptIsNamed
<1>1. IInv => InterruptIsNamed
  BY DEF IInv
<1> QED
  BY <1>1, Invariant, PTL

\* The artifacts are settled when the script is gone, and the whole of its
\* process group if the context stopped the build.
THEOREM GroupGone == Spec => []StoppedGroupIsGone
<1>1. IInv => StoppedGroupIsGone
  BY DEF IInv, TypeOK, ScriptPath, Order, StoppedGroupIsGone
<1> QED
  BY <1>1, Invariant, PTL

\* A recorder that is done has left neither vncsnapshot nor ffmpeg.
THEOREM NothingLeft == Spec => []RecorderLeavesNothing
<1>1. IInv => RecorderLeavesNothing
  BY DEF IInv, RecorderPath, RecorderLeavesNothing
<1> QED
  BY <1>1, Invariant, PTL

\* The function returns after the recording, unless it timed out.
THEOREM VideoComplete == Spec => []VideoBeforeReturn
<1>1. IInv => VideoBeforeReturn
  BY DEF IInv, Order, VideoBeforeReturn
<1> QED
  BY <1>1, Invariant, PTL

\* The terminal is restored, which may stop the process, after the artifacts.
THEOREM ArtifactsFirst == Spec => []SettledBeforeStop
<1>1. IInv => SettledBeforeStop
  BY DEF IInv, Order, SettledBeforeStop
<1> QED
  BY <1>1, Invariant, PTL

\* After the stop request no vncsnapshot is started.
THEOREM StopFinal == Spec => StopIsFinal
<1> DEFINE A == stop = "delivered" /\ vnc' = "running" => vnc = "running"
<1>1. IInv /\ [Next]_vars => [A]_vars
  <2> SUFFICES ASSUME IInv, [Next]_vars, stop = "delivered", vnc' = "running",
                      vnc # "running"
               PROVE  FALSE
    OBVIOUS
  <2>1. StartVnc
    BY DEF Next, Over, vars, Main, Recorder, Capture, Deadline, Signal, RelayFirst, RelayCancel,
           RelayLater, ScriptEnds, ChildrenChange, Wait, SelectDone, SelectContext, Terminate, DeliverStop,
           SkipStop, Drain, Decide, Await, Cleanup, Return, JobControlStop, Prepare, DelayEnds,
           StartFfmpeg, Feed, Flush, FlushLast, Flushed, RetryWaitEnds, StopReceived,
           Finish, Tick, CaptureCancelled, FfmpegDone, VncDone, VncExits, FfmpegExits,
           FfmpegStalls, KillVnc,
           mainVars, signalVars, scriptVars, recVars, outside
  <2> QED
    BY <2>1 DEF StartVnc, IInv, RecorderPath
<1> QED
  BY <1>1, Invariant, PTL DEF Spec, StopIsFinal
===============================================================================
