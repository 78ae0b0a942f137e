# A formal model of Dev Alchemy

Dev Alchemy (`alchemy`) builds virtual machine images with Packer, QEMU,
Hyper-V, VirtualBox, UTM and Tart, moves the images through OCI registries,
creates, starts, stops and destroys VMs from them, and provisions the VMs with
Ansible.  It is a Go command-line program that supervises long-running external
processes and swaps large files in place.  What is hard about it is not
computation but order: signals, timeouts, process exits, file renames and
overlapping invocations may interleave in ways that no test reproduces.

This directory holds TLA+ modules that model those parts, TLC configurations
that check them on small instances, and TLAPS proofs for every value of the
constants.  Line numbers refer to the source beside which this directory lives
(`src/` below is the root of the repository).

To check: `tlc -config ParallelBuilds.cfg MCParallelBuilds` (and likewise for
the others, see *Runs*), `tlapm ParallelBuilds_proofs.tla`.

## Contents

| Module | What it is |
| --- | --- |
| `ParallelBuilds` | `alchemy build all`: loop, semaphore, goroutines, cancellation |
| `BuildOutcomes` | the abstract promise that `ParallelBuilds` implements |
| `BuildScript` | one build: script, context, signal relay, recorder, deferred calls |
| `BuildArtifacts` | the artifact of one VM on disk under overlapping builds and crashes |
| `ProcessRetries` | running an external process with retries |
| `OciPull` | pulling an artifact: validation, confirmation, download, promotion, rollback |
| `VmHost` | what the engines share: machines, commands, how an external program ends |
| `LibvirtVm`, `HypervVm`, `UtmVm`, `TartVm` | create, start, stop and destroy on one engine |
| `VmLifecycle` | the four commands over the four engines, the host and its guests |
| `VmPromise` | the abstract promise that `VmLifecycle` implements |
| `ProvisionRun` | the course of one `alchemy provision`: plans, stages, temporary files |
| `RoleSources` | git checkouts of roles and playbooks, shared by runs |
| `WindowsSession` | local Windows provisioning: elevated scripts, state file, cleanup |
| `Provision` | the runs of several processes, composed of the three before |
| `MC...` | the instances that TLC checks |
| `..._proofs` | theorems about the module of that name; `ProvisionAlone_proofs` is about `Provision` too |

## 1. Inventory

For each component: its state, its operations, how it interacts, what is hard,
and what makes it correct.

**Parallel builds** (`cmd/cmd/build.go`).  State: the semaphore channel, the
WaitGroup, the error slice under its mutex, the run's context, the signal
channel.  Operations: launch or skip a VM, run a build, record its error, give
the slot back, return; cancel on the first SIGINT/SIGTERM.  Calls
`pkg/build`'s runners, which take no context and have signal channels of their
own.  Hard: cancellation racing the launch, slots on every path, what is
appended after the return.  Correct if the bound holds, the report is exact,
hardly anything starts after the cancellation, and the command always ends.
A runner that has looked at the context calls its build even if the context is
cancelled in between (`cmd/cmd/build.go:349-353`); the number of those is
bounded by the slots.

**Build script supervision** (`pkg/build/generic_build.go`, `RunBuildScript`).
State: the script's process group, its context (five hours), the signal relay
with two channels, the `done` channel, the recorder's two channels, the named
result, `buildSucceeded`, a stack of deferred calls.  Hard: script end, timeout
and signals in any order, a stop request that is sent only once, deferred calls
whose order matters because the last may stop the process.  Correct if the
artifacts are settled after the script is gone and before the terminal is
restored, an interrupt is reported as one, no process of a build that was
stopped is left, and it ends.

**VNC recorder** (`pkg/build/vnc_recording.go`).  State: vncsnapshot, ffmpeg,
the restart count, frames on disk.  Runs in a goroutine of `RunBuildScript`
that closes `vnc_snapshot_done`.  Hard: nine ways to end.

**Build artifacts** (`pkg/build/generic_build.go`).  State on disk: the final
path, one staged path per no-cache build, backups.  Operations: check, stage,
back up, promote, remove, restore.  Nothing is locked.  Hard: overlapping
builds, deaths between renames, failing file operations.  Correct if no reader
sees a no-cache build's unfinished file and the previous artifact is never lost.

**External process runner** (`pkg/build/external_process_handler.go`).  State:
two layers of signal channels, a context per attempt, the retry interrupt
channel, the process group.  Used by the dependency and viewer code.  Hard: a
stop request may fall anywhere; correct if it is heard, failed groups are
killed, failures are retried, and the loop ends.

**OCI pull and push** (`pkg/oci`, `cmd/cmd/oci.go`).  State: the registry's tag,
the staging directory, final paths and backups.  Hard: the tag moves, the pull
fails or dies at any of several files, pulls overlap.  Correct if only a
validated (and, if foreign, confirmed) artifact is promoted, all or nothing.

**VM lifecycle** (`pkg/deploy`, `cmd/cmd/{create,start,stop,destroy}.go`).
State outside the program: the domain or VM in libvirt, Hyper-V, UTM or Tart,
its disk, bundle or Vagrant box, its run state.  Operations: create, start,
stop (gracefully, then by force), destroy, each a sequence of commands with
polling, on one machine or on "all".  Hard: failures between disk and domain,
overlapping invocations, guests that go off by themselves, retrying after a
partial failure.  Correct if destroy after any failure gives a clean slate,
stop ends with a machine that does not run or with an error, and create never
takes a half-copied disk for a machine (docs/adr/0001).

**Provisioning runs** (`pkg/provision/provision.go`).  State: the stage of the
run, the target's address, temporary files with passwords, ansible.  Ten kinds
of targets, each a fixed sequence of stages with its own ways to find an
address.  Hard: every error path has to pass the cleanup of what was made
before it.  Correct if no file with a secret outlives a run that returns.

**Local Windows session** (`provision_windows_local_*.go`,
`scripts/windows/local-windows-provision-*.ps1`).  State: accounts, keys,
sshd, WinRM, firewall rules of the host itself, which elevated scripts change
and restore; the state file that says what was there.  Hard: a script may stop
at any step, a launcher may be killed while its script goes on.  Correct if the
host is as it was before, or a state file says what it was.

**Role and playbook sources** (`pkg/provision/role_sources.go`).  State: git
checkouts in two caches, shared by all runs and locked by none.  Operations:
clone, fetch, checkout, pull, discard.  Hard: origin changes, a clone dies, the
configuration changes under the same name.  Correct if ansible finds a whole
checkout at the configured ref, as new as asked for.

**Dependencies** (`pkg/build/dependencies.go`).  State: downloaded files, the
Python venv.  Operations: check, download with fallbacks and checksum, remove.
Hard: parallel builds share the files.  Correct if no build uses a file that is
incomplete or that another one removes.

**Hyper-V build retries** (`pkg/build/windows-build.go`), **VM catalogue and
selection** (`pkg/build/virtual-machine.go`, `cmd/cmd/vm_listing.go`),
**directories and embedded assets**, **engine wrappers**, **logging helpers**,
**Packer/Ansible/Terraform content**: see `PROJECT.json`, which lists every
component with its status and, under `hazards`, every place where the code is
exposed to something a test would hardly reach.

## 2. Plan

The modules were written in the order of how much of the program depends on
them: the build path (`ParallelBuilds`, `BuildScript`, `BuildArtifacts`,
`ProcessRetries`), `OciPull`, then the VM lifecycle and provisioning.  An
operation that several components share is in the module they extend:

    VmHost  <- LibvirtVm, HypervVm, UtmVm, TartVm <- VmLifecycle => VmPromise
    ProvisionRun <- RoleSources, WindowsSession   <- Provision
    ParallelBuilds => BuildOutcomes

(`<-` is EXTENDS, `=>` is refinement).  What could follow, in this order:

1. `Dependencies`: downloads shared by parallel builds
   (`pkg/build/dependencies.go:904`).
2. One `alchemy build all` over several `BuildArtifacts`, one signal reaching
   the builds of `ParallelBuilds` and `BuildScript` together; `create` reading
   an artifact that a build replaces.
3. Pure functions: VM selection by OS, type, architecture and engine, OCI
   reference parsing, against reference definitions over bounded inputs.

## 3. The modules

Conventions.  One action is one handler or one step between two points at which
another process, goroutine or the file system can intervene.  A definition
whose name begins with `Bug` is a plausible slip in the definition that follows
it; no other definition uses it, and it exists so that each property can be
shown to notice something.  `Over`/`Ended` is the stuttering of a finished
system, so that TLC's deadlock check stays on.  It is off in `Provision.cfg` and
`ProvisionWinrm.cfg` only: a scene has so many runs, and when the last is over
and its guest is off nothing is left to happen.

### ParallelBuilds and BuildOutcomes

| State | Code |
| --- | --- |
| `next`, `main` | the `for` loop and `wg.Wait` of `runParallelBuilds`; "aborted" is `os.Exit` |
| `go[v]`, `res[v]` | where VM `v`'s goroutine stands, what the runner returned |
| `sem`, `wg`, `errs` | the variables of that name |
| `cancelled`, `pending`, `handler` | the run's context, the handler's channel, its goroutine |
| `heard`, `signals` | builds whose own channel got a signal; how many were sent |
| `afterCancel` | no variable of the code: the builds inside `runBuild` since the cancel |

`Launch` and `SkipCancelled` are the two cases of the select, both enabled when
both are ready, as in Go.  The runner's look at the context (`PassCheck`) and
its call of `runBuild` (`StartBuild`) are two steps.  The two deferred calls are separate steps (`Release`,
`Exit`).  `Abort` is any `log.Fatalf` inside a build.  `BuildOutcomes` knows
only an outcome per VM, the end of the command and the report.

### BuildScript

The state of `RunBuildScript` from the start of the script: the select's branch,
the drained signal, the verdict, the deferred calls as steps (`Cleanup`, then
`JobControlStop` or `Return`), the relay goroutine, the goroutine around
`cmd.Wait`, and the recorder.  `rec` is where the recorder stands; it hears a
stop request only in `Listening` (waiting to begin, in the select, waiting to
retry), so `DeliverStop` and `SkipStop` are the two cases of the
non-blocking send.  `Feed` is separate from `Tick` because the recorder is deaf
in between.  Context and signals are separate steps of the relay
(`RelayFirst`, `RelayCancel`), which is what `InterruptIsNamed` is about.
`script` is the leader of the script's process group, `children` says whether
any other process of the group runs: the leader may end without them, os/exec
kills the leader alone, and only `terminateProcessGroup` ends them all, which
RunBuildScript calls when the context is done and not after an ordinary failure.
ffmpeg may stop reading its input (`FfmpegStalls`); the recorder, which copies
frames into it, then stands still.  "fatal" is a `log.Fatalf` of the recorder.
Left out: frames, logging, the macOS viewer, `hardInterruptSignal` (it has no
effect once the video is streamed).  Windows hosts do not record and are not
modelled.

### BuildArtifacts

What a path holds is `Absent`, `Old`, `Part(p)` or `Whole(p)`: who wrote it and
whether it is complete.  Each file operation is a step, may fail, and the
process may die between two (`Die`), leaving its script's process group
behind (`OrphanCompletes`).  `--no-cache` is a choice per process.
Assumptions: a VM has one artifact (true of the whole catalogue); a script that
exits with 0 has written it; a script removes its target and creates it anew
(`build/packer/linux/ubuntu/linux-ubuntu-qemu.sh:335`); unique suffixes do not
collide.

### ProcessRetries

`loop` walks through the body of `RunExternalProcessWithRetries` and, inside
it, of `RunExternalProcess`.  `outer` and `inner` are the two signal channels;
`Signal` reaches the inner one only while the attempt has it registered.
`request` is the retry interrupt with a buffer of one, as in the test; no caller
in the program passes a channel.  `Leave` is the return
through the deferred `cancel()`, which is where the finding of this module comes
from.  Every caller has `FailOnError` false, so that branch is left out.

### OciPull

A manifest is a record (artifact type, annotations, target, layers) and
validation is the code's, check by check (`Validation`, `Foreign`,
`LayersValid`).  `Push` moves the tag.  Promotion and rollback go file by file
and operation by operation with `k` as the loop's index, and any may fail.
`failed` and `stuck` record that a file operation, or one of the rollback or
cleanup, failed, and are read by properties only; `before` likewise.

### VmHost, LibvirtVm, HypervVm, UtmVm, TartVm, VmLifecycle and VmPromise

| State | Code |
| --- | --- |
| `engine`, `crossArch` | the catalogue (`pkg/build/virtual-machine.go`) for one host: libvirt on Linux, Hyper-V on Windows, UTM and Tart on macOS |
| `vm[v].disk` | `DefaultLibvirtVMDiskPath`'s file; the UTM bundle; "partial" while `qemu-img convert`, or `rsync` in the UTM script, runs |
| `vm[v].known`, `.power` | what `virsh`, `Get-VM`, `tart list` answer |
| `vm[v].box`, `.lease` | the Vagrant box; an address `tart ip` finds |
| `at[p]`, `job[p]` | where the command of process `p` stands; the command, its machine, the machines an "all" command has left |

Each function of `pkg/deploy` is a path through the labels of `at`; a step is
one external program (`RunCommand`) or one query (`Query`).  A program that
reports failure, or is killed at its timeout, may have done nothing, all, or
part of its work.  "next" is a return without an error, "idle" one with an
error or the end.  `job[p].alone` says that no other command has run since this
one began; `alone` and `crossArch` are read by guards only where the code looks
(`crossArch` by "all", which leaves emulated machines out of create and start).
`Die` is the death of the process at any point.  Nothing ties the program it
waits for to it (no process group, no signal: command-runner.go:35, :106), so
that the program may go on (`job[p].dead`), to its own end and no further;
until then nobody else is alone.  A timeout kills the program at once and not
what the program has started, which is taken to end with it.
`HypervInspect` is the look at a Hyper-V machine: `Get-VM` with
`SilentlyContinue` (windows-hyperv-deploy.go:412) says "missing" whatever it
fails of, and `job[p].misread` records that it did.  `GuestGoesOff` and
`GuestHasAddress` are the guest's own steps.

`VmPromise` knows for each machine only "absent", "remains", "stopped" or
"running", and for each command the changes it may make while it is alone.

What the model shows and the properties leave out, because the code does it:
after a misread inspection of Hyper-V a destroy leaves the machine, and a stop
leaves it running, with success; Hyper-V's stop succeeds on a guest that still
shuts down; UTM's forced stop succeeds without a look at the VM, and destroy removes the
bundle of a VM that runs; Tart's start succeeds on the lease of an earlier run;
libvirt's stop fails when the guest goes off between the wait and the forced
`virsh destroy`; creates that overlap truncate or discard each other's disk;
a `virsh define` that took effect but reported an error leaves a domain whose
disk is removed; `create list` calls a machine ready whose leftover disk makes
create refuse.  A killed vagrant is assumed not to lose track of the VM it
made.

### ProvisionRun, RoleSources, WindowsSession and Provision

| State | Code |
| --- | --- |
| `at[p]`, `job[p].plan` | the stage of `runProvision...` and the stages after it; one plan for each function that provisions a kind of target |
| `files[p]` | the extra-vars file, the private key, the elevated script, the state file |
| `job[p].kept` | files whose removal failed |
| `cache[c]` | the checkout of the configured entry below the cache directory of roles, of playbooks |
| `origin`, `conf` | the branches at origin; the entry of `ansible-role-sources.yml` |
| `host`, `saved[p]` | the settings the PowerShell scripts change; the state file's content |
| `script[p]` | the steps left of the elevated bootstrap and cleanup script |
| `guest`, `changes` | the virtual machine; a bound |

The stage "ansible" resolves the playbook and the roles (`RoleSources`), starts
ansible, and waits for it with a timeout; "args" writes the secrets, "vars"
removes them.  A local Windows run has a session around it: "key", "state",
"bootstrap" before and "cleanup" after, whatever failed between.  The elevated
scripts run step by step beside the run, and may throw at any step; a timeout
kills only their launcher (`Timeout`), after which a script that is not its
child goes on while the cleanup runs.  `Die` ends a process anywhere: there is
no signal handling in `provision`, so an interrupt leaves the secret files and
the state file where they are.

`Found` is what the bootstrap over WinRM can see of the host.  The drive WSMan:
belongs to the service and is external: the model takes it to show nothing
while the service is stopped (the scripts run with -NonInteractive, so the
provider cannot ask to start it).  Of a WinRM that is off the state file says
that it has no listeners and no setting of its authentication; the cleanup
(`Restore`) then removes the listeners and leaves the authentication as it is,
which the bootstrap has turned on.  Values of settings are "absent", "own" or
"temp"; owners and access lists of files are left out, so the model has not
that the bootstrap over SSH may take ownership of a file in order to read it
before any state is saved (`local-windows-provision-ssh-bootstrap.ps1:206-213`).

What the model shows and the properties leave out, because the code does it:
a failed concurrent clone removes the directory another run has cloned
(role_sources.go:442); a directory with `.git` in it passes for a checkout
(:472); a branch that origin dropped is used as it was (:519), and a
`rev-parse` that fails counts as such a branch (:532); an entry without a ref
stays on what was checked out before, and a detached head makes its pull fail
for ever; roles and playbooks of one entry may be at different revisions; the
state file goes even when the cleanup failed (provision_windows_local_ssh.go:303);
the certificate of a listener is lost when the bootstrap fails between making
and saving it; an OpenSSH that a run has installed stays, disabled; an sshd that
was there without its capability is left running; what is said above of a WinRM
that was off; the output of ansible is read to its end, however long a
grandchild holds it (pkg/provision/command-runner.go:92).  Outside the model: an entry whose URL
changes under the same name keeps the old repository; `--proto` in upper case
passes by the checks for conflicting flags (cmd/cmd/provision.go:199-207); the
password of an account that existed is not restored (documented).

## 4. Runs

| Run | Module, cfg | Instance | Shows |
| --- | --- | --- | --- |
| `parallel_builds` | `MCParallelBuilds`, `ParallelBuilds.cfg` | 3 VMs, 2 slots, 2 interrupts | bound, exact report, few builds after a cancel, end, refinement |
| `build_script` | `MCBuildScript`, `BuildScript.cfg` | 2 restarts, 2 signals | order of settling, no process left of a stopped build, interrupt named, end |
| `build_artifacts` | `MCBuildArtifacts`, `BuildArtifacts.cfg` | 3 processes, symmetric | atomic no-cache builds, a copy survives |
| `process_retries` | `MCProcessRetries`, `ProcessRetries.cfg` | 2 retries, 2 signals | stops heard, groups killed, end |
| `oci_pull` | `MCOciPull`, `OciPull.cfg` | 2 processes, up to 2 files, 8 manifests, 1 push | only acceptable artifacts, all or nothing |
| `vm_lifecycle` | `MCVmLifecycle`, `VmLifecycle.cfg` | 2 processes on one machine, or one with "all" on two; each engine | whole creates, clean destroys, verified stops, refinement |
| `provisioning` | `MCProvision`, `Provision.cfg` | 7 scenes, up to 3 processes | no secret left, host restored or recoverable, sources current |
| `fatal_stops_others` | `ParallelBuildsFatal.cfg` | 2 VMs | *violated*: a failing build stops the others |
| `skip_partial` | `BuildArtifactsSkip.cfg` | 2 processes | *violated*: a skipped build has its artifact |
| `gives_up_at_once` | `ProcessRetriesGiveUp.cfg` | 1 retry | *violated*: a failed process is retried |
| `tag_moves` | `OciPullTag.cfg` | 1 file, 1 push | *violated*: a foreign artifact was confirmed |
| `winrm_state` | `ProvisionWinrm.cfg` | 1 session over WinRM, 5 hosts | *violated*: the prior state of WinRM is restored |

The last five check a statement of the repository's documentation, comments or
tests that the code does not keep; `PROJECT.json` quotes each under
`findings`.

*Bounds.*  Three VMs on two slots are the least that make a VM wait while two
others run and fail; a second interrupt is the first that the handler no longer
takes, further ones are like it.  Two restarts let the recorder both try again
and give up; two retries likewise.  Three builds of the same VM let one
interfere with the interference of two others.  Two files are the least for
which a promotion can fail half-way; one push suffices to move the tag between
any two steps of a pull.  Each module names its bound (`MaxSignals`,
`MaxPushes`) in the guard that uses it.
`MaxWork` lets two processes work on one machine or one process on two: an
"all" command touches its machines one after the other, so that two of them are
enough for it to fail between two, and commands that overlap disturb each other
on a single machine.  Everything a machine can hold is reached on each engine
(176,347 states).  A scene of `Provision` fixes the host and what may happen:
one local SSH session and one local WinRM session on Windows, from each of five
states of the host (`Hosts`: nothing there, everything there and running,
installed but disabled, an sshd without its capability, a capability without its
sshd; the theorems have every state); Hyper-V machines; all
plans of macOS; two Linux runs at once while the guest goes off; two runs with
git sources one after the other, with every configuration and two changes of
origin or configuration in between; three runs at once on one checkout
(813,262 states).  Two revisions of a branch (`MaxRev`) tell new from old.
Sessions on Windows do not overlap with other runs in these scenes: what the
properties say of them is restricted to runs that are alone anyway.

*Symmetry* is used for processes only, and only in runs without liveness.

*Fairness.*
`ParallelBuilds`: weak fairness of each goroutine's next step and of the loop,
because the Go scheduler runs ready goroutines; a build ends because its script
has a five-hour deadline.  Nobody has to interrupt.
`BuildScript`: weak fairness of the goroutines' steps, of the deadline and of
vncsnapshot's end once the VM is gone; strong fairness of the recorder's select,
because Go chooses at random among ready cases while the ticker keeps firing.
The script need not end, ffmpeg need not read its input or exit, and no signal
has to come.  What the recorder hands to ffmpeg it hands over only while ffmpeg
reads: the copy has no deadline (vnc_recording.go:353), and `EverythingEnds`
says that a stalled ffmpeg is the one thing that can keep RunBuildScript from
its end.  A vncsnapshot that is told to end, or has lost its VM, is assumed to.
`ProcessRetries`: weak fairness of the loop and of time; the process need not
exit.
`BuildArtifacts`, `OciPull` and `VmLifecycle` claim no liveness and state no
fairness: their processes may die, and a command of `VmLifecycle` may wait for
ever for the output of a program it has killed (command-runner.go:91).
`Provision` claims none: a run that waits for ansible's output may wait for
ever, and the model has that.

*Restrictions in properties.*  `SuccessLeavesArtifact`, `NoPartialRemains`,
`SuccessLeavesFile` and `AllOrNothing` exclude histories in which a file
operation of the recovery itself failed (and some, overlapping processes),
because the code then reports an error and promises no more;
`ACopySurvives`, `NoCacheIsAtomic` and, for pulls that do not overlap, `PreviousSurvives`
hold through all of them.  `PromotedIsAcceptable` excludes a tag that moved; the
run `tag_moves` shows why.  `CreatedIsWhole`, `CleanSlate` and `VmPromise`
speak of commands that are alone, `StoppedRunsNot` of all, but not of UTM;
`CleanSlate` and `StoppedRunsNot` leave out a machine of Hyper-V that was there
when an inspection said "missing".  `StoppedRunsNot` says what the inspection
would say, for which a guest that shuts down does not run.
`StoppedGroupIsGone` says of a build that its context did not stop only that its
script has ended: the script's children are left alone after an ordinary
failure (generic_build.go:142-144), and when a signal's relay cancels the context
a moment after the script has ended by itself.
`HostRestored` and `HostIsRecoverable` speak of runs that nobody disturbed and
whose scripts did not survive their launcher; `Restored` and `SourcesCurrent`
list their exceptions, among them the listeners and the authentication of a
WinRM that was off: these are the subject of the run `winrm_state`.
`NoSecretsLeft` is about runs that return, with whatever errors; its exception
is a file the system refuses to remove.  A run that dies or is interrupted
leaves its files, in the code and in the model.

## 5. Proofs

TLAPS proves the following for every value of the constants; TLC agrees on the
instances above.  `PROJECT.json` lists the theorems, each with the property it
states.  The only assumptions are those that the modules state of their
parameters: `ParallelAssumption`, `ScriptAssumption` and `RetriesAssumption`
(the bounds and counts are naturals; `Parallelism` may be zero),
`PullAssumption` (an artifact has at least one file, a manifest is a sequence of
layers), and for `Provision` `ProcsAssumption` (the processes are numbered,
because they begin in that order), `MaxRevAssumption` (there is at least one
revision), `HostsAssumption` (the host is in a state of the type `HostStates`,
in any of them) and `ScenesAssumption` (a scene allows only entries that can be
configured, and a number of changes).  `BuildArtifacts` and `VmLifecycle` assume nothing:
there may be any number of processes and machines, even infinitely many.

Few of the properties are inductive.  Each proof module defines the invariant
that makes them so, proves that the initial states have it and that each action
keeps it, one step per action, and derives the properties.

**`ParallelBuilds_proofs`.**  That at
most `Parallelism` builds run says nothing about the counter that ensures it.
`IInv` strengthens the safety properties by four parts.  `Shape` says how a goroutine's place
relates to the loop's index and to its result.  `Accounting` says that `sem`
equals the number of goroutines between launch and first deferred call, `wg` the
number up to the second, and that `main = "returned"` implies that the latter set
is empty: this is the argument why the semaphore cannot leak and why nothing
outlives the return.  `ErrorsMatch` says that `errs` has exactly the VMs whose
error is recorded, without repetition.  `TypeOK`, `BoundedParallelism`,
`NothingOutlivesReturn` and `ReportIsExact` follow, the counting ones with facts
about cardinalities.  `Cancelling` says that the builds a cancel has let through,
with those whose runner is between its look at the context and its call, are
never more than the slots: at the cancel each of them has one, and later none is
added.  `FewBuildsAfterCancel` follows.  `Refinement` shows that every step of `ParallelBuilds` is a step of
`BuildOutcomes` or a stutter under the mapping.

**`BuildScript_proofs`.**  `IInv` follows the signal from the relay to the
decision (`SignalPath`: who cancelled the context has passed the signal on
before, and nobody takes it before the drain), the script (`ScriptPath`: its
leader is gone once it was waited for, and nothing of its group is left, or can
come back, once the group was terminated), the recorder (`RecorderPath`: where
vncsnapshot and ffmpeg may run) and the deferred calls (`Order`).  All safety
properties of the module follow.

**`ProcessRetries_proofs`.**  `IInv` says where in the loop a process may run
and a group may live (`ProcessWatched`), that who received the request is on
the way out (`RequestLeaves`), and that a signal stays in the channel
(`SignalKept`).

**`BuildArtifacts_proofs`.**  `NoCacheIsAtomic` rests on `StagedInv` (what is
about to be promoted is whole and was written by a no-cache build) and
`PublishedInv` (neither the final path nor any backup holds a no-cache build's
unfinished file).  `ACopySurvives` is the delicate one: two promotions may move
aside each other's artifact.  `DropInv` is the key: while some no-cache build is
about to drop its backup, a whole copy is at the final path or in the backup of a
process that is *not* about to drop; `BackupInv` says that a process holds a
backup only after it has moved one aside.  `SuccessLeavesArtifact` follows from
`Smooth` (without trouble a backup is held only between the two renames, and
what was promoted stays whole), `NoPartialRemains` from `Serial` (of builds that
do not overlap one works at a time, and the final path is unfinished only while
its author works).

**`OciPull_proofs`.**  `Shape` has the types and how far each process is with
its files.  `AllValidated` carries the result of the validation of the manifest
to the promotion; `ValidationIsSound` says what the validation establishes:
every file of the machine has exactly one layer with a media type that the file
may have.  `Alone` is the argument for the rollback: while one pull has the final
paths to itself, `Undoable` says at every point of the promotion and of its
rollback how the files as they were can be told from the files as they are and
the backups.  `AllOrNothing` follows.  `PreviousSurvives` needs two more:
`AloneKeeps` for pulls that do not overlap, killed or not, and `OneFile` for
overlapping pulls of an artifact of one file.

**`VmLifecycle_proofs`.**  A command changes only its own machine, but which
steps it makes differs on four engines.  `Knows` says what a command that is the
only one knows of its machine at each of its steps (`create` on libvirt that
defines the machine has a whole disk; `destroy` that removes the box has no
machine, or has misread an inspection).  `Good` says when one step of one engine is in order: it keeps what
is known, changes what the user finds only as the command's name allows, and ends
the command only when its success means what it should.  One lemma per engine
and command shows that its steps are good; the lemmas do not speak of other
processes.  `Inv` adds that a command that has been alone still is
(`AloneKnows`), also when it has died and its program goes on; its preservation
needs only `Good`.  `CreatedIsWhole`, `CleanSlate`, `StoppedRunsNot` and the
refinement of `VmPromise` follow.

**`Provision_proofs`.**  A run goes through a plan, and a failure cuts the plan
short, so that a removal late in the plan might be lost.  `Sound` states what
the ten plans and every rest of them have in common (behind "args" come
"ansible" and the only "vars"; where a key, a state file or a script is made,
"cleanup" is last).  `Safe` says for each secret file of a run, by where the run
is, that a stage that removes it is still ahead, or that a removal failed.
`NextStageIsSafe` is the lemma that carries it from one stage to the next.
`NoSecretsLeft` is `Safe` at the return of a run.  `TypeOK` needs `TypeInv`: that
a run which is not on Windows has no stage of a session left (`RunsOk`), so that
no script is left either (`ScriptsOk`), and that a resolution updates or checks
out a ref only where one is configured (`RefsOk`), across changes of the
configuration.

**`ProvisionAlone_proofs`.**  What a run that nobody disturbs can rely on.
`HostInv` adds to the invariant above that a run that is alone still is
(`Undisturbed`), so that only the process that makes a step has to be looked at
(`OwnStep`), and `Course`: what the place of a run says of the host, of the
state it has saved and of the steps its scripts have left.  The bootstrap
captures the state before it changes anything, the stages before it leave the
host as it was, and "cleanup" comes last (`Ordered`), so the state file is
there until the host may have been restored.  What it has is `Found` of the host
at the beginning, and `FoundTells` is the lemma that says how much that tells:
all, but for the listeners and the authentication of a WinRM that was off.
`HostIsRecoverable` follows.
`SourcesInv` does the same for the role sources: `SourcesOf` says which of them
are current at each place of a run and `Resolved` what git has already done
with the one in work.  It needs two facts about all processes.  A checkout that
is not whole was cut off, or the process that clones it still does (`Whole`);
each step and each death keeps that, so a run that is alone and finds a
directory knows that no clone is under way.  And a branch at origin is gone or
as new as when the run began (`Recent`).  Each step of a resolution is one
instance of `Turns`, whose two lemmas carry the invariant.
`SourcesAreCurrent` follows; nothing is assumed of the entry the user has
configured, of the number of revisions or of the interval between the runs.

The restoration of the host needs more than that the state is saved: every
change of the bootstrap must have its counterpart in the cleanup.  `Owes` says,
of a run, its host and its state file, what still differs from what is to be
left there, and that each difference is the business of one of the steps `R` to
come: a setting differs only if its step is in `R`, the sshd may have been
installed only if the state file says so or it is not running, a certificate is
there only if the state file says so or the bootstrap has failed.  `Trail`
follows it through the run: `R` is the whole cleanup until its script begins,
what that script has left (`Remaining`) while it runs, and nothing after it, but
only if the script has not failed.  A bootstrap step adds to the differences
only what the cleanup covers (one lemma `...Boots` per step); a step of the
cleanup takes itself off `R` (`RestoreOwes`, `ReloadOwes`, `SshdOwesNothing`,
`WinrmOwesNothing`), where the order matters: sshd is reloaded after its
configuration is restored (`Orderly`).  `Booting` is the delicate part: between
the installation of sshd, or the making of the certificate, and its record in
the state file the script can only stop, never go on.  `HostRestored` is an
action property; it follows from `Trail` after the step, and from `Course`
before it, because no step that ends a run changes its saved state.  The
theorem speaks of every state a host may be in, not of the five TLC tries.

## 6. What is only model-checked, and what is not modelled

*Only model-checked.*  Liveness (`EveryRunReturns`, `EverythingEnds`,
`LoopEnds`): the prover does not reason about fairness and
`ENABLED`.  Every other property of a passing run is a theorem.

*Assumed of the world.*  That a killed program of a VM command takes what it has
started with it.  That WSMan: shows nothing of a stopped WinRM.  That Vagrant's
record agrees with Hyper-V's list.  That vncsnapshot ends when its VM is gone or
it is told to.

*Not modelled.*

- A program of a VM command that never ends, or whose descendants hold its
  output open (`pkg/deploy/command-runner.go:91`): no property says that
  commands end.
- Owners and access lists of files on a Windows host.
- Build dependencies: downloads that parallel builds share
  (`pkg/build/dependencies.go`), the first item of the plan.
- The retries of Hyper-V builds (`pkg/build/windows-build.go`), and the engine
  wrappers that only choose a script and its arguments.
- The OCI registry client and `push`: no local state but a temporary directory.
- The VM catalogue, listing, filters and selection: pure functions without state.
- Paths, directories and the embedded project; log sanitising.
- Windows's variant of process groups.
- The content of Packer templates, Ansible roles and Terraform files, which is
  not part of the program.
