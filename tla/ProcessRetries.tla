----------------------------- MODULE ProcessRetries -----------------------------
(***************************************************************************)
(* RunExternalProcessWithRetries and the RunExternalProcess it calls       *)
(* (pkg/build/external_process_handler.go): an attempt waits, starts the   *)
(* process in a process group of its own and watches the process, the      *)
(* retry interrupt channel, its context and its signals; the loop around   *)
(* it sleeps between the attempts and looks for signals and interrupts.    *)
(*                                                                         *)
(* Every caller passes FailOnError = false.                                *)
(***************************************************************************)
EXTENDS Naturals

CONSTANTS
  Retries,            \* attempts after the first
  MaxSignals          \* bound on the signals the user sends

ASSUME RetriesAssumption == Retries \in Nat /\ MaxSignals \in Nat

VARIABLES
  loop,               \* where the goroutine stands
  attempt,            \* the loop variable
  why,                \* how the current attempt ended
  ret,                \* Err() of the context that comes back to the loop or the caller
  ctx,                \* the attempt's context: "live", "canceled" or "deadline"
  parent,             \* config.Context, likewise
  elapsed,            \* config.Timeout has passed since the loop began
  outer, inner,       \* a signal is buffered in the loop's, the attempt's channel
  signals,            \* signals sent since the loop began
  chan,               \* InterruptRetryChan is not nil (and has a buffer of one)
  delayed,            \* DelayBeforeStart > 0
  request,            \* the retry interrupt: "unsent", "buffered" or "received"
  proc,               \* leader of the attempt's process group
  group               \* "none", "alive", or "gone"

config  == <<chan, delayed>>
outside == <<parent, elapsed, signals, outer>>
process == <<proc, group>>
vars    == <<loop, attempt, why, ret, ctx, parent, elapsed, outer, inner, signals,
             chan, delayed, request, proc, group>>

\* Inside RunExternalProcess, with its signal channel registered.
InAttempt == {"delay", "start", "running", "terminate"}
Over      == {"returned", "aborted"}

Init ==
  /\ loop = "head" /\ attempt = 0 /\ why = "none" /\ ret = "none"
  /\ ctx = "live" /\ parent = "live" /\ elapsed = FALSE
  /\ outer = FALSE /\ inner = FALSE /\ signals = 0
  /\ chan \in BOOLEAN /\ delayed \in BOOLEAN
  /\ request = "unsent"
  /\ proc = "none" /\ group = "none"

-------------------------------------------------------------------------------
(* The world around the loop.  The definitions named Bug... are slips for  *)
(* the mutation runs; no other definition uses them.                       *)

Signal ==
  /\ loop \notin Over /\ signals < MaxSignals
  /\ signals' = signals + 1
  /\ outer' = TRUE
  /\ inner' = (inner \/ loop \in InAttempt)
  /\ UNCHANGED <<loop, attempt, why, ret, ctx, parent, elapsed, config, request, process>>

\* The caller sends on InterruptRetryChan, once.  The buffer of one is the
\* test's channel.  The callers in the program pass nil, and the one channel
\* of that name that RunBuildScript makes has no buffer and goes elsewhere.
Request ==
  /\ chan /\ request = "unsent"
  /\ request' = "buffered"
  /\ UNCHANGED <<loop, attempt, why, ret, ctx, outside, inner, config, process>>

\* The caller's context ends and takes the attempt's with it.
ParentEnds ==
  /\ parent = "live"
  /\ parent' \in {"canceled", "deadline"}
  /\ ctx' = IF ctx = "live" /\ loop \in InAttempt THEN parent' ELSE ctx
  /\ UNCHANGED <<loop, attempt, why, ret, elapsed, outer, inner, signals, config,
                 request, process>>

Elapse ==
  /\ ~elapsed
  /\ elapsed' = TRUE
  /\ UNCHANGED <<loop, attempt, why, ret, ctx, parent, outer, inner, signals, config,
                 request, process>>

BugAttemptTimeout ==
  /\ loop \in {"delay", "start"} /\ elapsed /\ ctx = "live"
  /\ ctx' = "deadline"
  /\ UNCHANGED <<loop, attempt, why, ret, outside, inner, config, request, process>>

\* The attempt's own timeout; it began no earlier than the loop's.
AttemptTimeout ==
  /\ loop \in InAttempt /\ elapsed /\ ctx = "live"
  /\ ctx' = "deadline"
  /\ UNCHANGED <<loop, attempt, why, ret, outside, inner, config, request, process>>

\* The process exits, or is killed with its context; what it started in its
\* group may stay.
ProcessExits ==
  /\ proc = "running"
  /\ proc' \in IF ctx = "live" THEN {"ok", "err"} ELSE {"err"}
  /\ group' \in {"alive", "gone"}
  /\ UNCHANGED <<loop, attempt, why, ret, ctx, outside, inner, config, request>>

-------------------------------------------------------------------------------
(* The loop.                                                               *)

ReturnWith(err) == loop' = "returned" /\ ret' = err

\* A receive from InterruptRetryChan.
TakeRequest == request = "buffered" /\ request' = "received"

BugHead ==
  /\ loop = "head"
  /\ IF attempt <= Retries + 1 /\ ~elapsed
     THEN loop' = (IF attempt > 0 THEN "sleep" ELSE "check") /\ UNCHANGED ret
     ELSE ReturnWith("canceled")
  /\ UNCHANGED <<attempt, why, ctx, outside, inner, config, request, process>>

\* The loop's condition.
Head ==
  /\ loop = "head"
  /\ IF attempt <= Retries /\ ~elapsed
     THEN loop' = (IF attempt > 0 THEN "sleep" ELSE "check") /\ UNCHANGED ret
     ELSE ReturnWith("canceled")
  /\ UNCHANGED <<attempt, why, ctx, outside, inner, config, request, process>>

\* The retry interval.
Sleep ==
  /\ loop = "sleep"
  /\ \/ outer /\ ReturnWith("canceled") /\ UNCHANGED request
     \/ TakeRequest /\ ReturnWith("canceled")
     \/ loop' = "check" /\ UNCHANGED <<ret, request>>
  /\ UNCHANGED <<attempt, why, ctx, outside, inner, config, process>>

BugCheckSignal ==
  /\ loop = "check"
  /\ IF outer /\ attempt = 0 THEN ReturnWith("canceled")
     ELSE loop' = "checkRequest" /\ UNCHANGED ret
  /\ UNCHANGED <<attempt, why, ctx, outside, inner, config, request, process>>

CheckSignal ==
  /\ loop = "check"
  /\ IF outer THEN ReturnWith("canceled") ELSE loop' = "checkRequest" /\ UNCHANGED ret
  /\ UNCHANGED <<attempt, why, ctx, outside, inner, config, request, process>>

CheckRequest ==
  /\ loop = "checkRequest"
  /\ \/ TakeRequest /\ ReturnWith("canceled")
     \/ request # "buffered" /\ loop' = "enter" /\ UNCHANGED <<ret, request>>
  /\ UNCHANGED <<attempt, why, ctx, outside, inner, config, process>>

\* What RunExternalProcess returned: a success, or a context that the deferred
\* cancel has ended, if nothing had ended it before.
Judge ==
  /\ loop = "judge"
  /\ IF why = "ok" \/ ret = "canceled" THEN loop' = "returned" ELSE loop' = "afterRequest"
  /\ UNCHANGED <<attempt, why, ret, ctx, outside, inner, config, request, process>>

AfterRequest ==
  /\ loop = "afterRequest"
  /\ \/ TakeRequest /\ loop' = "returned"
     \/ request # "buffered" /\ loop' = "afterSignal" /\ UNCHANGED request
  /\ UNCHANGED <<attempt, why, ret, ctx, outside, inner, config, process>>

AfterSignal ==
  /\ loop = "afterSignal"
  /\ IF outer THEN ReturnWith("canceled") /\ UNCHANGED attempt
     ELSE loop' = "head" /\ attempt' = attempt + 1 /\ UNCHANGED ret
  /\ UNCHANGED <<why, ctx, outside, inner, config, request, process>>

-------------------------------------------------------------------------------
(* RunExternalProcess.                                                     *)

\* Its context is derived from config.Context and its signal channel is new.
Enter ==
  /\ loop = "enter"
  /\ loop' = IF delayed THEN "delay" ELSE "start"
  /\ ctx' = parent /\ inner' = FALSE /\ why' = "none"
  /\ proc' = "none" /\ group' = "none"
  /\ UNCHANGED <<attempt, ret, outside, config, request>>

\* The attempt is over for reason w; its context comes back through cancel().
Leave(w) ==
  /\ why' = w
  /\ ret' = IF w = "request" \/ ctx = "live" THEN "canceled" ELSE ctx
  /\ loop' = "judge"

Delay ==
  /\ loop = "delay"
  /\ \/ loop' = "start" /\ UNCHANGED <<why, ret, request>>
     \/ TakeRequest /\ Leave("request")
     \/ inner /\ Leave("signal") /\ UNCHANGED request
     \/ ctx # "live" /\ Leave("context") /\ UNCHANGED request
  /\ UNCHANGED <<attempt, ctx, outside, inner, config, process>>

\* os/exec starts nothing once the context is done, and a process that does
\* not start is a log.Fatalf.
Start ==
  /\ loop = "start"
  /\ \/ ctx = "live" /\ loop' = "running" /\ proc' = "running" /\ group' = "alive"
     \/ loop' = "aborted" /\ UNCHANGED process
  /\ UNCHANGED <<attempt, why, ret, ctx, outside, inner, config, request>>

BugWatch ==
  /\ loop = "running"
  /\ \/ proc \in {"ok", "err"} /\ Leave(IF proc = "ok" THEN "ok" ELSE "exit") /\ UNCHANGED request
     \/ TakeRequest /\ why' = "request" /\ loop' = "terminate" /\ UNCHANGED ret
     \/ ctx # "live" /\ why' = "context" /\ loop' = "terminate" /\ UNCHANGED <<ret, request>>
     \/ inner /\ why' = "signal" /\ loop' = "terminate" /\ UNCHANGED <<ret, request>>
  /\ UNCHANGED <<attempt, ctx, outside, inner, config, process>>

\* The select on the process, the retry interrupt, the context and the signals.
Watch ==
  /\ loop = "running"
  /\ \/ proc = "ok" /\ Leave("ok") /\ UNCHANGED request
     \/ proc = "err" /\ why' = "exit" /\ loop' = "terminate" /\ UNCHANGED <<ret, request>>
     \/ TakeRequest /\ why' = "request" /\ loop' = "terminate" /\ UNCHANGED ret
     \/ ctx # "live" /\ why' = "context" /\ loop' = "terminate" /\ UNCHANGED <<ret, request>>
     \/ inner /\ why' = "signal" /\ loop' = "terminate" /\ UNCHANGED <<ret, request>>
  /\ UNCHANGED <<attempt, ctx, outside, inner, config, process>>

\* terminateProcessGroup: SIGTERM, a grace period, SIGKILL.
Terminate ==
  /\ loop = "terminate"
  /\ group' = "gone" /\ proc' = IF proc = "running" THEN "err" ELSE proc
  /\ Leave(why)
  /\ UNCHANGED <<attempt, ctx, outside, inner, config, request>>

-------------------------------------------------------------------------------
Step ==
  \/ Head \/ Sleep \/ CheckSignal \/ CheckRequest \/ Enter \/ Delay \/ Start
  \/ Watch \/ Terminate \/ Judge \/ AfterRequest \/ AfterSignal

Ended == loop \in Over /\ proc # "running" /\ UNCHANGED vars

Next ==
  \/ Step
  \/ Signal \/ Request \/ ParentEnds \/ Elapse \/ AttemptTimeout \/ ProcessExits
  \/ Ended

\* The goroutine is scheduled, and time passes.  A process need not exit, and
\* nobody has to send anything.
Fairness == WF_vars(Step) /\ WF_vars(Elapse) /\ WF_vars(AttemptTimeout)

Spec == Init /\ [][Next]_vars /\ Fairness

-------------------------------------------------------------------------------
(* Properties.                                                             *)

TypeOK ==
  /\ loop \in {"head", "sleep", "check", "checkRequest", "enter", "judge",
               "afterRequest", "afterSignal"} \cup InAttempt \cup Over
  /\ attempt \in 0..(Retries + 1)
  /\ why \in {"none", "ok", "exit", "request", "context", "signal"}
  /\ ret \in {"none", "canceled", "deadline"}
  /\ {ctx, parent} \subseteq {"live", "canceled", "deadline"}
  /\ {elapsed, outer, inner, chan, delayed} \subseteq BOOLEAN
  /\ signals \in 0..MaxSignals
  /\ request \in {"unsent", "buffered", "received"}
  /\ proc \in {"none", "running", "ok", "err"}
  /\ group \in {"none", "alive", "gone"}

\* Unless the process succeeded, nothing of its group runs any more when the
\* loop goes on or comes back, whichever of the four events ended the attempt.
FailedGroupIsGone ==
  loop \notin InAttempt \cup {"aborted"} /\ why # "ok" => group # "alive"

\* Nobody who asked the loop to stop, by a signal or through the channel, sees
\* it begin another attempt, wherever in the loop the request fell.  (Between
\* the checks and signal.Notify it is too late for the attempt at hand.)
StopsAreHeard ==
  [][ /\ signals > 0 => ~(loop = "check" /\ loop' = "checkRequest")
      /\ request # "unsent" => ~(loop = "checkRequest" /\ loop' = "enter") ]_vars

\* The loop comes to its end, whatever the process does: even if it ignores
\* everything and even if a signal is missed by the attempt's channel.
LoopEnds == <>(loop \in Over)

\* external_process_handler.go:176-177 and :185: a process that failed is
\* retried after the interval, unless somebody stopped it or time ran out.
FailedIsRetried ==
  /\ loop = "returned" /\ why = "exit"
  /\ signals = 0 /\ request = "unsent" /\ parent = "live" /\ ~elapsed
  => attempt >= Retries
===============================================================================
