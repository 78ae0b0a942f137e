------------------------------ MODULE BuildScript ------------------------------
(***************************************************************************)
(* RunBuildScript (pkg/build/generic_build.go) from the start of the build *)
(* script to the return of the function, on a host that records the VNC    *)
(* display (every host but Windows): the select between the script's end   *)
(* and the context, the goroutine that relays signals, the goroutine that  *)
(* waits for the script, the recorder goroutine that feeds vncsnapshot's   *)
(* frames to ffmpeg (pkg/build/vnc_recording.go), and the deferred calls.  *)
(* The script leads a process group; what it starts may outlive it.        *)
(*                                                                         *)
(* Frames, terminals and log lines are left out.  What happens to the      *)
(* artifacts in cleanupBuildArtifacts is the subject of BuildArtifacts.    *)
(***************************************************************************)
EXTENDS Naturals

CONSTANTS
  Retries,            \* restarts of vncsnapshot the recorder may make (30)
  MaxSignals          \* bound on the signals the user sends

ASSUME ScriptAssumption == Retries \in Nat /\ MaxSignals \in Nat

VARIABLES
  main,               \* where RunBuildScript stands
  branch,             \* the case its select took: "none", "done" or "ctx"
  sig,                \* drainInterruptedSignal found a signal
  verdict,            \* "none", "success", or the error it returns
  settled,            \* cleanupBuildArtifacts has run
  ctx,                \* the build's context: "live", "canceled" or "deadline"
  sigs,               \* a signal is buffered in sigs
  relay,              \* the relay goroutine: "first", "cancelling", "later", "gone"
  interrupted,        \* a signal is buffered in interruptedSignal
  signals,            \* signals sent so far
  script,             \* leader of the script's process group
  children,           \* some other process of that group is running
  done,               \* the done channel: "none", "ok", "err" or "taken"
  stop,               \* the stop request to the recorder: "unsent", "delivered", "skipped"
  rec,                \* where the recorder goroutine stands
  vnc,                \* vncsnapshot: "none", "running", "failed" or "ended"
  ffmpeg,             \* ffmpeg: "none", "running", "stalled" (alive, but it no longer
                      \* reads its input) or "exited"
  attempt             \* restarts of vncsnapshot so far

mainVars   == <<main, branch, sig, verdict, settled>>
signalVars == <<sigs, relay, interrupted, signals>>
scriptVars == <<script, children, done>>
recVars    == <<stop, rec, vnc, ffmpeg, attempt>>
vars       == <<mainVars, ctx, signalVars, scriptVars, recVars>>

\* Where the recorder is parked on InterruptRetryChan.
Listening == {"delay", "capture", "retry"}

Init ==
  /\ main = "select" /\ branch = "none" /\ sig = FALSE
  /\ verdict = "none" /\ settled = FALSE
  /\ ctx = "live"
  /\ sigs = FALSE /\ relay = "first" /\ interrupted = FALSE /\ signals = 0
  /\ script = "running" /\ children = FALSE /\ done = "none"
  /\ stop = "unsent" /\ rec = "setup" /\ vnc = "none" /\ ffmpeg = "none"
  /\ attempt = 0

-------------------------------------------------------------------------------
(* The context and the signals.  The definitions named Bug... are slips    *)
(* for the mutation runs; no other definition uses them.                   *)

\* The five-hour timeout.
Deadline ==
  /\ ctx = "live"
  /\ ctx' = "deadline"
  /\ UNCHANGED <<mainVars, signalVars, scriptVars, recVars>>

\* SIGINT, SIGTERM, SIGHUP or SIGQUIT reaches sigs (capacity 1).
Signal ==
  /\ main # "returned"
  /\ signals < MaxSignals
  /\ signals' = signals + 1
  /\ sigs' = TRUE
  /\ UNCHANGED <<mainVars, ctx, relay, interrupted, scriptVars, recVars>>

BugRelayFirst ==
  /\ relay = "first" /\ sigs
  /\ sigs' = FALSE
  /\ interrupted' = FALSE
  /\ relay' = "cancelling"
  /\ UNCHANGED <<mainVars, ctx, signals, scriptVars, recVars>>

\* The first signal: it is passed on before the context is cancelled.
RelayFirst ==
  /\ relay = "first" /\ sigs
  /\ sigs' = FALSE
  /\ interrupted' = TRUE
  /\ relay' = "cancelling"
  /\ UNCHANGED <<mainVars, ctx, signals, scriptVars, recVars>>

RelayCancel ==
  /\ relay = "cancelling"
  /\ ctx' = IF ctx = "live" THEN "canceled" ELSE ctx
  /\ relay' = "later"
  /\ UNCHANGED <<mainVars, sigs, interrupted, signals, scriptVars, recVars>>

\* A later signal goes to hardInterruptSignal.  Nobody reads it before the
\* recorder is done, and with a streamed video nothing is left to abort then.
RelayLater ==
  /\ relay = "later" /\ sigs
  /\ sigs' = FALSE
  /\ UNCHANGED <<mainVars, ctx, relay, interrupted, signals, scriptVars, recVars>>

-------------------------------------------------------------------------------
(* The script.                                                             *)

\* The script ends on its own, or os/exec kills it because the context is
\* done: the leader alone, in both cases.
ScriptEnds ==
  /\ script = "running"
  /\ \/ script' \in {"ok", "err"}
     \/ ctx # "live" /\ script' = "err"
  /\ UNCHANGED <<mainVars, ctx, signalVars, children, done, recVars>>

\* The script starts a tool, or the last one it started ends.
ChildrenChange ==
  /\ \/ script = "running" /\ children' = TRUE
     \/ children' = FALSE
  /\ UNCHANGED <<mainVars, ctx, signalVars, script, done, recVars>>

\* The goroutine around cmd.Wait, which waits for the leader: its output goes
\* through pipes that Wait closes and does not drain.
Wait ==
  /\ script # "running" /\ done = "none"
  /\ done' = script
  /\ UNCHANGED <<mainVars, ctx, signalVars, script, children, recVars>>

-------------------------------------------------------------------------------
(* RunBuildScript.                                                         *)

SelectDone ==
  /\ main = "select" /\ done \in {"ok", "err"}
  /\ main' = "stop" /\ branch' = "done" /\ done' = "taken"
  /\ UNCHANGED <<sig, verdict, settled, ctx, signalVars, script, children, recVars>>

SelectContext ==
  /\ main = "select" /\ ctx # "live"
  /\ main' = "terminate" /\ branch' = "ctx"
  /\ UNCHANGED <<sig, verdict, settled, ctx, signalVars, scriptVars, recVars>>

AfterTerminate ==
  main' = IF branch = "ctx" THEN "stop"
          ELSE IF verdict = "context" THEN "cleanup" ELSE "await"

BugTerminate ==
  /\ main = "terminate"
  /\ IF branch = "ctx"
     THEN children' = FALSE /\ script' = IF script = "running" THEN "err" ELSE script
     ELSE UNCHANGED <<script, children>>
  /\ AfterTerminate
  /\ UNCHANGED <<branch, sig, verdict, settled, ctx, signalVars, done, recVars>>

\* terminateProcessGroup ends the leader and its children.  The select's ctx
\* case calls it at once, the done case after an error and only if the
\* context is done by then.
Terminate ==
  /\ main = "terminate"
  /\ IF branch = "ctx" \/ ctx # "live"
     THEN children' = FALSE /\ script' = IF script = "running" THEN "err" ELSE script
     ELSE UNCHANGED <<script, children>>
  /\ AfterTerminate
  /\ UNCHANGED <<branch, sig, verdict, settled, ctx, signalVars, done, recVars>>

\* stopVncScreenCaptureOnSupportedHost finds the recorder parked; between two
\* attempts the request sends it straight to its last step.
DeliverStop ==
  /\ main = "stop" /\ rec \in Listening
  /\ stop' = "delivered"
  /\ rec' = IF rec = "retry" THEN "finish" ELSE "stopping"
  /\ main' = "drain"
  /\ UNCHANGED <<branch, sig, verdict, settled, ctx, signalVars, scriptVars,
                 vnc, ffmpeg, attempt>>

\* The recorder is busy or gone: the send is not retried.
SkipStop ==
  /\ main = "stop" /\ rec \notin Listening
  /\ stop' = "skipped"
  /\ main' = "drain"
  /\ UNCHANGED <<branch, sig, verdict, settled, ctx, signalVars, scriptVars,
                 rec, vnc, ffmpeg, attempt>>

Drain ==
  /\ main = "drain"
  /\ sig' = interrupted /\ interrupted' = FALSE
  /\ main' = "decide"
  /\ UNCHANGED <<branch, verdict, settled, ctx, sigs, relay, signals, scriptVars, recVars>>

BugVerdict ==
  IF ctx # "live" THEN "context"
  ELSE IF sig THEN "signal"
  ELSE IF script # "ok" THEN "failure"
  ELSE "success"

\* determineBuildCompletionDecision; in the ctx case the context is done.
\* script is the error that cmd.Wait returned.
Verdict ==
  IF sig THEN "signal"
  ELSE IF ctx # "live" THEN "context"
  ELSE IF script # "ok" THEN "failure"
  ELSE "success"

Decide ==
  /\ main = "decide"
  /\ verdict' = Verdict
  /\ main' = IF branch = "ctx"
             THEN IF Verdict = "signal" THEN "await" ELSE "cleanup"
             ELSE IF Verdict = "success" THEN "await" ELSE "terminate"
  /\ UNCHANGED <<branch, sig, settled, ctx, signalVars, scriptVars, recVars>>

BugAwait ==
  /\ main = "await"
  /\ rec = "closed" \/ verdict = "signal"
  /\ main' = "cleanup"
  /\ UNCHANGED <<branch, sig, verdict, settled, ctx, signalVars, scriptVars, recVars>>

\* runFfmpegOnSupportedHost waits for vnc_snapshot_done; the streamed video
\* needs no further processing.
Await ==
  /\ main = "await"
  /\ rec = "closed"
  /\ main' = "cleanup"
  /\ UNCHANGED <<branch, sig, verdict, settled, ctx, signalVars, scriptVars, recVars>>

\* The deferred calls, last registered first: the artifacts ...
Cleanup ==
  /\ main = "cleanup"
  /\ settled' = TRUE
  /\ main' = "restore"
  /\ UNCHANGED <<branch, sig, verdict, ctx, signalVars, scriptVars, recVars>>

BugJobControlStop ==
  /\ main \in {"cleanup", "restore"}
  /\ main' = "stopped"
  /\ UNCHANGED <<branch, sig, verdict, settled, ctx, signalVars, scriptVars, recVars>>

\* ... the terminal, which may stop the whole process (SIGTTOU) ...
JobControlStop ==
  /\ main = "restore"
  /\ main' = "stopped"
  /\ UNCHANGED <<branch, sig, verdict, settled, ctx, signalVars, scriptVars, recVars>>

\* ... the relay, the signal channel and the context.
Return ==
  /\ main = "restore"
  /\ main' = "returned"
  /\ relay' = "gone"
  /\ ctx' = IF ctx = "live" THEN "canceled" ELSE ctx
  /\ UNCHANGED <<branch, sig, verdict, settled, sigs, interrupted, signals, scriptVars, recVars>>

-------------------------------------------------------------------------------
(* The recorder: RunVncSnapshotProcess and streamVncSnapshotsToFfmpeg.     *)

outside == <<mainVars, ctx, signalVars, scriptVars, stop>>

\* The snapshot directory and the password file are made; a failure is
\* log.Fatalf, which ends the process whatever RunBuildScript is doing.
Prepare ==
  /\ rec = "setup"
  /\ rec' \in {"delay", "fatal"}
  /\ UNCHANGED <<outside, vnc, ffmpeg, attempt>>

\* waitForVncRecordingInterval before the start.
DelayEnds ==
  /\ rec = "delay"
  /\ \/ rec' = "start"
     \/ ctx # "live" /\ rec' = "closed"
  /\ UNCHANGED <<outside, vnc, ffmpeg, attempt>>

StartFfmpeg ==
  /\ rec = "start"
  /\ \/ ffmpeg' = "running" /\ rec' = "spawn"
     \/ ffmpeg' = ffmpeg /\ rec' = "closed"
  /\ UNCHANGED <<outside, vnc, attempt>>

\* startVncSnapshotCapture; os/exec starts nothing once the context is done.
StartVnc ==
  /\ rec = "spawn"
  /\ \/ ctx = "live" /\ vnc' = "running" /\ rec' = "capture"
     \/ vnc' = vnc /\ rec' = "finish"
  /\ UNCHANGED <<outside, ffmpeg, attempt>>

\* terminateProcessGroup(vncProcessGroupID, ...).
KillVnc == vnc' = IF vnc = "running" THEN "failed" ELSE vnc

\* The select's ticker case: the recorder is busy feeding frames.
Tick ==
  /\ rec = "capture"
  /\ rec' = "feed"
  /\ UNCHANGED <<outside, vnc, ffmpeg, attempt>>

\* Frames go into ffmpeg's stdin through a copy that has no deadline and no
\* context: it waits until ffmpeg reads, or is gone.
FramesTaken == ffmpeg # "stalled"

BugFeed ==
  /\ rec = "feed" /\ FramesTaken
  /\ \/ rec' = "capture" /\ vnc' = vnc
     \/ rec' = "finish" /\ vnc' = vnc
  /\ UNCHANGED <<outside, ffmpeg, attempt>>

\* The frames are written, or writing fails.
Feed ==
  /\ rec = "feed" /\ FramesTaken
  /\ \/ rec' = "capture" /\ vnc' = vnc
     \/ rec' = "finish" /\ KillVnc
  /\ UNCHANGED <<outside, ffmpeg, attempt>>

CaptureCancelled ==
  /\ rec = "capture" /\ ctx # "live"
  /\ rec' = "last" /\ KillVnc
  /\ UNCHANGED <<outside, ffmpeg, attempt>>

FfmpegDone ==
  /\ rec = "capture" /\ ffmpeg = "exited"
  /\ rec' = "closed" /\ KillVnc
  /\ UNCHANGED <<outside, ffmpeg, attempt>>

VncDone ==
  /\ rec = "capture" /\ vnc \in {"failed", "ended"}
  /\ rec' = "flush"
  /\ UNCHANGED <<outside, vnc, ffmpeg, attempt>>

\* The last frames of a vncsnapshot that exited, with or without an error.
Flush ==
  /\ rec = "flush" /\ FramesTaken
  /\ rec' \in {"flushed", "finish"}
  /\ UNCHANGED <<outside, vnc, ffmpeg, attempt>>

\* The last frames after a stop request or a cancel; an error is only logged.
FlushLast ==
  /\ rec = "last" /\ FramesTaken
  /\ rec' = "finish"
  /\ UNCHANGED <<outside, vnc, ffmpeg, attempt>>

BugFlushed ==
  /\ rec = "flushed"
  /\ IF vnc = "failed" /\ ctx = "live"
     THEN rec' = "retry" /\ attempt' = attempt + 1
     ELSE rec' = "finish" /\ attempt' = attempt
  /\ UNCHANGED <<outside, vnc, ffmpeg>>

\* After an error vncsnapshot is started again, so often and no more.
Flushed ==
  /\ rec = "flushed"
  /\ IF vnc = "failed" /\ ctx = "live" /\ attempt < Retries
     THEN rec' = "retry" /\ attempt' = attempt + 1
     ELSE rec' = "finish" /\ attempt' = attempt
  /\ UNCHANGED <<outside, vnc, ffmpeg>>

\* waitForVncRecordingInterval between two attempts.
RetryWaitEnds ==
  /\ rec = "retry"
  /\ \/ rec' = "spawn"
     \/ ctx # "live" /\ rec' = "finish"
  /\ UNCHANGED <<outside, vnc, ffmpeg, attempt>>

BugStopReceived ==
  /\ rec = "stopping"
  /\ KillVnc
  /\ rec' = IF ffmpeg = "none" THEN "closed"
            ELSE IF vnc = "failed" THEN "spawn" ELSE "last"
  /\ UNCHANGED <<outside, ffmpeg, attempt>>

\* The stop request, before the start or during the capture.
StopReceived ==
  /\ rec = "stopping"
  /\ KillVnc
  /\ rec' = IF ffmpeg = "none" THEN "closed" ELSE "last"
  /\ UNCHANGED <<outside, ffmpeg, attempt>>

BugFinish ==
  /\ rec = "finish"
  /\ ffmpeg \in {"none", "exited"} /\ ffmpeg' = ffmpeg /\ rec' = "closed"
  /\ UNCHANGED <<outside, vnc, attempt>>

\* finishFfmpegVncRecording: ffmpeg ends at end of input or, ten seconds
\* later, is killed.
Finish ==
  /\ rec = "finish"
  /\ ffmpeg' = "exited" /\ rec' = "closed"
  /\ UNCHANGED <<outside, vnc, attempt>>

\* vncsnapshot loses its connection, is killed with the context, or stops.
VncExits ==
  /\ vnc = "running"
  /\ vnc' \in {"failed", "ended"}
  /\ UNCHANGED <<outside, rec, ffmpeg, attempt>>

FfmpegExits ==
  /\ ffmpeg \in {"running", "stalled"}
  /\ ffmpeg' = "exited"
  /\ UNCHANGED <<outside, rec, vnc, attempt>>

\* ffmpeg stops reading: stopped by hand, or waiting for a disk that is gone.
FfmpegStalls ==
  /\ ffmpeg = "running"
  /\ ffmpeg' = "stalled"
  /\ UNCHANGED <<outside, rec, vnc, attempt>>

Recorder ==
  \/ Prepare \/ DelayEnds \/ StartFfmpeg \/ StartVnc \/ Feed \/ Flush \/ Flushed
  \/ RetryWaitEnds \/ StopReceived \/ FlushLast \/ Finish

Capture == CaptureCancelled \/ FfmpegDone \/ VncDone

-------------------------------------------------------------------------------
Main ==
  \/ SelectDone \/ SelectContext \/ Terminate \/ DeliverStop \/ SkipStop
  \/ Drain \/ Decide \/ Await \/ Cleanup \/ Return

\* The process can take steps: it is neither stopped nor ended by log.Fatalf.
Alive == main # "stopped" /\ rec # "fatal"

\* After the return only the recorder may have some steps left.
Over ==
  /\ ~Alive \/ (main = "returned" /\ rec = "closed")
  /\ UNCHANGED vars

Next ==
  \/ /\ Alive
     /\ \/ Deadline \/ Signal \/ RelayFirst \/ RelayCancel \/ RelayLater
        \/ ScriptEnds \/ ChildrenChange \/ Wait
        \/ Main \/ JobControlStop
        \/ Recorder \/ Tick \/ Capture
        \/ VncExits \/ FfmpegExits \/ FfmpegStalls
  \/ Over

\* Goroutines that can run do; the timeout fires; the script's VM takes the
\* VNC connection with it.  Go's select chooses among its ready cases at
\* random, so one that is ready again and again is taken: strong fairness.
\* Nothing makes ffmpeg read its input, or a stalled ffmpeg exit.
Fairness ==
  /\ WF_vars(Alive /\ Deadline)
  /\ WF_vars(Alive /\ RelayFirst) /\ WF_vars(Alive /\ RelayCancel)
  /\ WF_vars(Alive /\ Wait)
  /\ WF_vars(Alive /\ Main)
  /\ WF_vars(Alive /\ Recorder) /\ SF_vars(Alive /\ Capture)
  /\ WF_vars(Alive /\ script # "running" /\ VncExits)

Spec == Init /\ [][Next]_vars /\ Fairness

-------------------------------------------------------------------------------
(* Properties.                                                             *)

TypeOK ==
  /\ main \in {"select", "terminate", "stop", "drain", "decide", "await", "cleanup",
               "restore", "stopped", "returned"}
  /\ branch \in {"none", "done", "ctx"}
  /\ verdict \in {"none", "success", "failure", "signal", "context"}
  /\ {sig, settled, sigs, interrupted, children} \subseteq BOOLEAN
  /\ ctx \in {"live", "canceled", "deadline"}
  /\ relay \in {"first", "cancelling", "later", "gone"}
  /\ signals \in 0..MaxSignals
  /\ script \in {"running", "ok", "err"}
  /\ done \in {"none", "ok", "err", "taken"}
  /\ stop \in {"unsent", "delivered", "skipped"}
  /\ rec \in {"setup", "start", "spawn", "feed", "flush", "flushed", "stopping", "last",
              "finish", "closed", "fatal"} \cup Listening
  /\ vnc \in {"none", "running", "failed", "ended"}
  /\ ffmpeg \in {"none", "running", "stalled", "exited"}
  /\ attempt \in 0..Retries

\* A build that its context stopped is reported as timed out only if it was:
\* a user's interrupt always arrives with its signal, because the relay
\* passes the signal on before it cancels.
InterruptIsNamed ==
  branch = "ctx" /\ verdict = "context" => ctx = "deadline"

\* The artifacts are settled when the script is gone, and when its context
\* stopped the build everything the script had started is gone too: also when
\* os/exec has killed the leader and the select takes the done case.  A script
\* that ended by itself may leave processes that still write; so may one that
\* ends while the relay is between passing a signal on and cancelling.
StoppedGroupIsGone ==
  settled => /\ script # "running"
             /\ branch = "ctx" \/ verdict = "context" => ~children

\* However the recording ends (stopped, cancelled, failed, out of retries),
\* it leaves neither vncsnapshot nor ffmpeg behind.
RecorderLeavesNothing ==
  rec = "closed" => vnc # "running" /\ ffmpeg \notin {"running", "stalled"}

\* Except after a timeout, the artifacts are settled and the function returns
\* only when the recording is complete.
VideoBeforeReturn ==
  settled /\ verdict # "context" => rec = "closed"

\* generic_build.go:79-81: if restoring the terminal stops the process, the
\* artifacts have been settled.
SettledBeforeStop == main = "stopped" => settled

\* A recorder that got the stop request starts no other vncsnapshot.
StopIsFinal ==
  [][stop = "delivered" /\ vnc' = "running" => vnc = "running"]_vars

\* Unless ffmpeg stalls for good, RunBuildScript comes to its end, even when
\* the stop request got lost, and so does the recorder, even when nobody waited
\* for it.  The one place where RunBuildScript can hang, in spite of the
\* build's timeout, is its wait for a recorder that a stalled ffmpeg holds up.
EverythingEnds ==
  /\ \/ <>(~Alive \/ (main = "returned" /\ rec = "closed"))
     \/ <>[](ffmpeg = "stalled")
  /\ \/ <>(~Alive \/ main = "returned")
     \/ <>[](main = "await" /\ ffmpeg = "stalled")
===============================================================================
