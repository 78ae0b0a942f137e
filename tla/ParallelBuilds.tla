---------------------------- MODULE ParallelBuilds ----------------------------
(***************************************************************************)
(* `alchemy build all`: the scheduling loop runParallelBuilds, the         *)
(* goroutine it starts for each VM, the runner that buildCmd passes in,    *)
(* and the goroutine that turns the first SIGINT/SIGTERM into a cancelled  *)
(* context (cmd/cmd/build.go).                                             *)
(*                                                                         *)
(* One build (runBuild) is seen from outside: it prepares (artifacts and   *)
(* dependencies), then listens for signals while its script runs, then     *)
(* returns.  runBuild takes no context, so a cancelled context does not    *)
(* reach a build that has passed the runner's only check.  Inside a build  *)
(* several failures (a download, the script that does not start) call      *)
(* log.Fatalf, which ends the whole process.                               *)
(***************************************************************************)
EXTENDS Integers, FiniteSets, Sequences

CONSTANTS
  N,                  \* number of VMs selected for the run
  Parallelism,        \* the --parallel flag: capacity of the semaphore channel
  MaxSignals          \* bound on the interrupts the user sends

ASSUME ParallelAssumption ==
  /\ N \in Nat
  /\ Parallelism \in Nat
  /\ MaxSignals \in Nat

VMs == 1..N

VARIABLES
  next,               \* index of the VM the scheduling loop handles next
  main,               \* the caller of runParallelBuilds: "running", "returned", or
                      \* "aborted" when the process ended under it
  go,                 \* go[v]: where the goroutine of VM v stands
  res,                \* res[v]: what its runner returned
  sem,                \* tokens in the semaphore channel
  wg,                 \* the WaitGroup's counter
  errs,               \* the collected errors, by VM
  cancelled,          \* the run's context is done
  pending,            \* a signal is buffered in the handler's channel
  handler,            \* the signal goroutine: "waiting" or "gone"
  heard,              \* builds whose own signal channel got the interrupt
  signals,            \* interrupts sent so far (bounded by MaxSignals)
  afterCancel         \* for the properties: the VMs that have been inside runBuild
                      \* at some time since the context was cancelled

loopVars   == <<next, main>>
workerVars == <<go, res, sem, wg>>
signalVars == <<cancelled, pending, handler, heard, signals, afterCancel>>
vars       == <<loopVars, workerVars, errs, signalVars>>

\* "checked" is between the runner's look at the context and its call of
\* runBuild; "preparing" and "listening" are inside runBuild: before and
\* after the build's own signal.Notify.
Building  == {"preparing", "listening"}
HoldsSlot == {"launched", "checked"} \cup Building \cup {"recording", "releasing"}
Counted   == HoldsSlot \cup {"leaving"}
GoStates  == {"unlaunched", "skipped", "exited"} \cup Counted

\* The VMs collected in errs.
Reported == {errs[i] : i \in 1..Len(errs)}

Init ==
  /\ next = 1
  /\ main = "running"
  /\ go = [v \in VMs |-> "unlaunched"]
  /\ res = [v \in VMs |-> "none"]
  /\ sem = 0
  /\ wg = 0
  /\ errs = <<>>
  /\ cancelled = FALSE
  /\ pending = FALSE
  /\ handler = "waiting"
  /\ heard = {}
  /\ signals = 0
  /\ afterCancel = {}

-------------------------------------------------------------------------------
(* The scheduling loop.                                                    *)
(* A definition named Bug... is a plausible slip in the definition after   *)
(* it; no other definition uses it.  The mutation runs substitute it to    *)
(* show that a property notices.                                           *)

BugSlotOffByOne == sem <= Parallelism

\* The semaphore channel has room for one more token.
SlotFree == sem < Parallelism

BugLaunchForgetsAdd ==
  /\ main = "running"
  /\ next \in VMs
  /\ SlotFree
  /\ sem' = sem + 1
  /\ go' = [go EXCEPT ![next] = "launched"]
  /\ next' = next + 1
  /\ UNCHANGED <<main, res, wg, errs, signalVars>>

\* The select takes a free slot.  When the context is done as well, Go picks
\* either ready case: cancelled is no guard here.
Launch ==
  /\ main = "running"
  /\ next \in VMs
  /\ SlotFree
  /\ sem' = sem + 1
  /\ wg' = wg + 1
  /\ go' = [go EXCEPT ![next] = "launched"]
  /\ next' = next + 1
  /\ UNCHANGED <<main, res, errs, signalVars>>

BugSkipReleases ==
  /\ main = "running"
  /\ next \in VMs
  /\ cancelled
  /\ errs' = Append(errs, next)
  /\ res' = [res EXCEPT ![next] = "cancelled"]
  /\ go' = [go EXCEPT ![next] = "skipped"]
  /\ next' = next + 1
  /\ sem' = sem - 1
  /\ UNCHANGED <<main, wg, signalVars>>

BugSkipBreaks ==
  /\ main = "running"
  /\ next \in VMs
  /\ cancelled
  /\ errs' = Append(errs, next)
  /\ res' = [res EXCEPT ![next] = "cancelled"]
  /\ go' = [go EXCEPT ![next] = "skipped"]
  /\ next' = N + 1
  /\ UNCHANGED <<main, sem, wg, signalVars>>

\* The select takes ctx.Done(): the VM is recorded as cancelled, never started.
SkipCancelled ==
  /\ main = "running"
  /\ next \in VMs
  /\ cancelled
  /\ errs' = Append(errs, next)
  /\ res' = [res EXCEPT ![next] = "cancelled"]
  /\ go' = [go EXCEPT ![next] = "skipped"]
  /\ next' = next + 1
  /\ UNCHANGED <<main, sem, wg, signalVars>>

\* wg.Wait() returns and runParallelBuilds hands errs to its caller.
Return ==
  /\ main = "running"
  /\ next = N + 1
  /\ wg = 0
  /\ main' = "returned"
  /\ UNCHANGED <<next, workerVars, errs, signalVars>>

-------------------------------------------------------------------------------
(* The goroutine of VM v.                                                  *)

BugRunnerSkipsCheck == TRUE

\* What the runner's select looks at.
ContextAlive == ~cancelled

\* The runner's select finds the context alive and takes its default.
PassCheck(v) ==
  /\ go[v] = "launched"
  /\ ContextAlive
  /\ go' = [go EXCEPT ![v] = "checked"]
  /\ UNCHANGED <<loopVars, res, sem, wg, errs, signalVars>>

\* The runner calls runBuild, whatever became of the context since its look.
StartBuild(v) ==
  /\ go[v] = "checked"
  /\ go' = [go EXCEPT ![v] = "preparing"]
  /\ afterCancel' = IF cancelled THEN afterCancel \cup {v} ELSE afterCancel
  /\ UNCHANGED <<loopVars, res, sem, wg, errs, cancelled, pending, handler, heard, signals>>

\* The runner finds the context done and returns its error.
RefuseBuild(v) ==
  /\ go[v] = "launched"
  /\ cancelled
  /\ res' = [res EXCEPT ![v] = "cancelled"]
  /\ go' = [go EXCEPT ![v] = "recording"]
  /\ UNCHANGED <<loopVars, sem, wg, errs, signalVars>>

\* The build registers its own signal channel.
Listen(v) ==
  /\ go[v] = "preparing"
  /\ go' = [go EXCEPT ![v] = "listening"]
  /\ UNCHANGED <<loopVars, res, sem, wg, errs, signalVars>>

\* runBuild returns: the artifacts were there already, preparation failed,
\* or the script came to its end.
EndBuild(v) ==
  /\ go[v] \in Building
  /\ \E r \in {"ok", "failed"} :
       /\ res' = [res EXCEPT ![v] = r]
       /\ go' = [go EXCEPT ![v] = IF r = "ok" THEN "releasing" ELSE "recording"]
  /\ UNCHANGED <<loopVars, sem, wg, errs, signalVars>>

\* A build hits log.Fatalf: os.Exit, and no goroutine takes another step.
Abort(v) ==
  /\ go[v] \in Building
  /\ main' = "aborted"
  /\ UNCHANGED <<next, workerVars, errs, signalVars>>

BugRecordLosesError(v) ==
  /\ go[v] = "recording"
  /\ go' = [go EXCEPT ![v] = "releasing"]
  /\ UNCHANGED <<loopVars, res, sem, wg, errs, signalVars>>

\* The error is appended under mu.
Record(v) ==
  /\ go[v] = "recording"
  /\ errs' = Append(errs, v)
  /\ go' = [go EXCEPT ![v] = "releasing"]
  /\ UNCHANGED <<loopVars, res, sem, wg, signalVars>>

BugReleaseOnlyOnSuccess(v) ==
  /\ go[v] = "releasing"
  /\ sem' = IF res[v] = "ok" THEN sem - 1 ELSE sem
  /\ go' = [go EXCEPT ![v] = "leaving"]
  /\ UNCHANGED <<loopVars, res, wg, errs, signalVars>>

\* First deferred call: give the slot back.
Release(v) ==
  /\ go[v] = "releasing"
  /\ sem' = sem - 1
  /\ go' = [go EXCEPT ![v] = "leaving"]
  /\ UNCHANGED <<loopVars, res, wg, errs, signalVars>>

\* Second deferred call: wg.Done().
Exit(v) ==
  /\ go[v] = "leaving"
  /\ wg' = wg - 1
  /\ go' = [go EXCEPT ![v] = "exited"]
  /\ UNCHANGED <<loopVars, res, sem, errs, signalVars>>

Worker(v) ==
  /\ main # "aborted"
  /\ \/ PassCheck(v) \/ RefuseBuild(v) \/ StartBuild(v)
     \/ Listen(v) \/ EndBuild(v) \/ Abort(v)
     \/ Record(v) \/ Release(v) \/ Exit(v)

-------------------------------------------------------------------------------
(* Signals.                                                                *)

\* SIGINT or SIGTERM reaches the process: the runtime puts it into every
\* registered channel that has room, the handler's and each listening build's.
Interrupt ==
  /\ main = "running"
  /\ signals < MaxSignals
  /\ signals' = signals + 1
  /\ pending' = TRUE
  /\ heard' = heard \cup {v \in VMs : go[v] = "listening"}
  /\ UNCHANGED <<loopVars, workerVars, errs, cancelled, handler, afterCancel>>

\* The signal goroutine receives once, cancels the context and ends.
HandleSignal ==
  /\ main = "running"
  /\ handler = "waiting"
  /\ pending
  /\ pending' = FALSE
  /\ handler' = "gone"
  /\ cancelled' = TRUE
  /\ afterCancel' = {v \in VMs : go[v] \in Building}
  /\ UNCHANGED <<loopVars, workerVars, errs, heard, signals>>

-------------------------------------------------------------------------------
Over == main # "running" /\ UNCHANGED vars

Next ==
  \/ Launch \/ SkipCancelled \/ Return
  \/ \E v \in VMs : Worker(v)
  \/ Interrupt \/ HandleSignal
  \/ Over

\* The Go scheduler runs every ready goroutine, and every build returns in
\* the end: its script has a five-hour deadline.  Nobody has to interrupt.
Fairness ==
  /\ WF_vars(Launch \/ SkipCancelled)
  /\ WF_vars(Return)
  /\ \A v \in VMs : WF_vars(Worker(v))
  /\ WF_vars(HandleSignal)

Spec == Init /\ [][Next]_vars /\ Fairness

-------------------------------------------------------------------------------
(* Properties.                                                             *)

TypeOK ==
  /\ next \in 1..(N + 1)
  /\ main \in {"running", "returned", "aborted"}
  /\ go \in [VMs -> GoStates]
  /\ res \in [VMs -> {"none", "ok", "failed", "cancelled"}]
  /\ sem \in Nat
  /\ wg \in Nat
  /\ errs \in Seq(VMs)
  /\ cancelled \in BOOLEAN
  /\ pending \in BOOLEAN
  /\ handler \in {"waiting", "gone"}
  /\ heard \subseteq VMs
  /\ signals \in 0..MaxSignals
  /\ afterCancel \subseteq VMs

\* Never more than Parallelism builds run at once, however builds end, fail
\* and are cancelled: the semaphore of runParallelBuilds is neither leaked
\* nor given back twice.
BoundedParallelism ==
  Cardinality({v \in VMs : go[v] \in Building}) <= Parallelism

\* runParallelBuilds returns only when no goroutine it started is left: no
\* build outlives the command that reports on it, and no error is appended
\* to the slice after it was returned.
NothingOutlivesReturn ==
  main = "returned" => \A v \in VMs : go[v] \in {"skipped", "exited"}

\* The returned slice names every VM that was not built, and each only once,
\* so that the number printed as "build(s) failed" is the number of VMs.
ReportIsExact ==
  main = "returned" =>
    /\ Reported = {v \in VMs : res[v] # "ok"}
    /\ Len(errs) = Cardinality({v \in VMs : res[v] # "ok"})

\* Once the context is cancelled the user waits for at most Parallelism more
\* builds, the ones under way and the ones whose runner had looked at the
\* context already: a slot that one of them gives back may still launch a
\* goroutine, and the runner of that one refuses.
FewBuildsAfterCancel == Cardinality(afterCancel) <= Parallelism

\* An interrupt, wherever it falls, never leaves the loop waiting for a slot
\* or the command waiting for a goroutine that is gone: the run comes to an
\* end.
EveryRunReturns == <>(main # "running")

\* Every selected VM reaches one outcome that never changes and the report
\* names exactly the VMs that were not built: BuildOutcomes, seen through
\* the state of each goroutine.
Outcome(v) ==
  IF go[v] = "unlaunched" THEN "pending"
  ELSE IF go[v] \in {"launched", "checked", "recording"} \cup Building THEN "running"
  ELSE res[v]

Outcomes == INSTANCE BuildOutcomes WITH
  outcome  <- [v \in VMs |-> Outcome(v)],
  finished <- main = "returned",
  report   <- IF main = "returned" THEN Reported ELSE {}

ImplementsOutcomes == Outcomes!Spec

\* cmd/cmd/build.go:149: a failing build does not stop the remaining ones, so
\* that without an interrupt every VM has its own outcome when the command is
\* over.  A failure reported through log.Fatalf takes the others with it.
FailureStopsNothing ==
  main # "running" /\ signals = 0 => \A v \in VMs : res[v] # "none"

-------------------------------------------------------------------------------
(* The inductive invariant behind the safety properties.                   *)

\* Types (the counters may still be any integer), how far the loop is, and
\* what a goroutine's place says about its result.
Shape ==
  /\ next \in 1..(N + 1)
  /\ main \in {"running", "returned", "aborted"}
  /\ go \in [VMs -> GoStates]
  /\ res \in [VMs -> {"none", "ok", "failed", "cancelled"}]
  /\ sem \in Int /\ wg \in Int
  /\ errs \in Seq(VMs)
  /\ cancelled \in BOOLEAN /\ pending \in BOOLEAN
  /\ handler \in {"waiting", "gone"}
  /\ heard \subseteq VMs
  /\ signals \in 0..MaxSignals
  /\ afterCancel \subseteq VMs
  /\ \A v \in VMs : go[v] = "unlaunched" <=> v >= next
  /\ \A v \in VMs : res[v] = "none" <=> go[v] \in {"unlaunched", "launched", "checked"} \cup Building
  /\ \A v \in VMs : go[v] \in {"skipped", "recording"} => res[v] # "ok"

Holding  == {v \in VMs : go[v] \in HoldsSlot}
Counting == {v \in VMs : go[v] \in Counted}

\* The semaphore holds one token for each goroutine between its launch and
\* its first deferred call, the WaitGroup counts each until its second, and
\* runParallelBuilds returned only with that count at zero.
Accounting ==
  /\ sem = Cardinality(Holding) /\ sem <= Parallelism
  /\ wg = Cardinality(Counting)
  /\ main = "returned" => next = N + 1 /\ Counting = {}

\* errs has each VM whose error has been recorded, once.
ErrorsMatch ==
  /\ Reported = {v \in VMs : res[v] \in {"failed", "cancelled"} /\ go[v] # "recording"}
  /\ \A i, j \in 1..Len(errs) : errs[i] = errs[j] => i = j

\* The builds that are, or will be, inside runBuild although the context may
\* be cancelled: each had a slot when it was.
Committed == {v \in VMs : go[v] \in {"checked"} \cup Building}

Cancelling ==
  /\ ~cancelled => afterCancel = {}
  /\ Cardinality(afterCancel \cup Committed) <= Parallelism

IInv == Shape /\ Accounting /\ ErrorsMatch /\ Cancelling
===============================================================================
