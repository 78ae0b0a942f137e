------------------------------ MODULE VmLifecycle ------------------------------
(***************************************************************************)
(* The commands create, start, stop and destroy (cmd/cmd) and the dispatch *)
(* of pkg/deploy over the four engines.  A process carries out one command *)
(* after another, on one machine or on "all"; two processes may work on    *)
(* the same machine; a process may die anywhere, and the program it has    *)
(* started may outlive it; guests boot and go off by themselves.           *)
(***************************************************************************)
EXTENDS LibvirtVm, HypervVm, UtmVm, TartVm

CONSTANT MaxWork      \* bound: busy processes times machines of the host

\* The engines of one host.
Hosts == {{"libvirt"}, {"hyperv"}, {"utm", "tart"}}

Catalogue == {v \in Vms : engine[v] # "none"}

\* Hyper-V and Tart have machines of the host's architecture only.
Emulated(e) == IF e \in {"libvirt", "utm"} THEN BOOLEAN ELSE {FALSE}

Init ==
  /\ \E h \in Hosts : engine \in [Vms -> h \cup {"none"}]
  /\ \E v \in Vms : engine[v] # "none"
  /\ crossArch \in [Vms -> BOOLEAN] /\ \A v \in Vms : crossArch[v] \in Emulated(engine[v])
  /\ vm = [v \in Vms |-> Nothing]
  /\ at = [p \in Procs |-> "idle"]
  /\ job = [p \in Procs |-> NoJob]

-------------------------------------------------------------------------------
(* The state of a machine as the commands see it.                          *)

Exists(e, v) ==
  \/ e = "libvirt" /\ LibvirtExists(v)
  \/ e = "hyperv"  /\ HypervExists(v)
  \/ e = "utm"     /\ UtmExists(v)
  \/ e = "tart"    /\ TartExists(v)

Running(e, v) ==
  \/ e = "libvirt" /\ LibvirtRunning(v)
  \/ e = "hyperv"  /\ HypervRunning(v)
  \/ e = "utm"     /\ UtmRunning(v)
  \/ e = "tart"    /\ TartRunning(v)

\* What destroy has to remove: more than a machine, a disk or a box.
DestroyTargetExists(e, v) ==
  \/ Exists(e, v)
  \/ e = "libvirt" /\ v.disk # "none"
  \/ e = "hyperv" /\ v.box

-------------------------------------------------------------------------------
(* The commands.                                                           *)

\* isVirtualMachineTargetUnstable; no engine of the catalogue is unstable.
Stable == {v \in Catalogue : ~crossArch[v]}

One == {{v} : v \in Catalogue}

Room(p) ==
  Cardinality(Catalogue) * (1 + Cardinality({q \in Procs \ {p} : at[q] # "idle"})) <= MaxWork

\* The process p begins the command c on the machines of vs, in any order.
Begin(p, c, vs, l) ==
  /\ at[p] = "idle" /\ Room(p)
  /\ \E v \in vs :
       job' = [q \in Procs |->
                 IF q = p THEN [what |-> c, vm |-> v, rest |-> vs \ {v}, alone |-> OthersIdle(p),
                                misread |-> FALSE, dead |-> FALSE]
                 ELSE IF job[q] = NoJob THEN NoJob ELSE [job[q] EXCEPT !.alone = FALSE]]
  /\ at' = [at EXCEPT ![p] = l]
  /\ UNCHANGED <<catalogue, vm>>

BugCreateCommand(p) == \E vs \in One \cup {Catalogue} : Begin(p, "create", vs, "look")

CreateCommand(p) == \E vs \in One \cup {Stable} : Begin(p, "create", vs, "look")
StartCommand(p) == \E vs \in One \cup {Stable} : Begin(p, "start", vs, "begin")
StopCommand(p) == \E vs \in One \cup {Catalogue} : Begin(p, "stop", vs, "begin")
DestroyCommand(p) == \E vs \in One \cup {Catalogue} : Begin(p, "destroy", vs, "begin")

\* An "all" command goes on with a machine only when the one before succeeded.
NextMachine(p) ==
  /\ at[p] = "next" /\ UNCHANGED <<catalogue, vm>>
  /\ \/ \E v \in job[p].rest :
          /\ at' = [at EXCEPT ![p] = IF job[p].what = "create" THEN "look" ELSE "begin"]
          /\ job' = [job EXCEPT ![p].vm = v, ![p].rest = @ \ {v}, ![p].misread = FALSE]
     \/ /\ job[p].rest = {}
        /\ at' = [at EXCEPT ![p] = "idle"]
        /\ job' = [job EXCEPT ![p] = NoJob]

\* runDeploy refuses a machine that exists.
LookFirst(p) ==
  /\ at[p] = "look"
  /\ IF engine[job[p].vm] = "hyperv"
     THEN HypervInspect(p, {"begin"}, {}, {}, "idle")
     ELSE Query(p, IF Exists(engine[job[p].vm], It(p)) THEN {} ELSE {"begin"}, "idle")

Work(p) ==
  \/ NextMachine(p)
  \/ LookFirst(p)
  \/ LibvirtStep(p)
  \/ HypervStep(p)
  \/ UtmStep(p)
  \/ TartStep(p)

-------------------------------------------------------------------------------
(* The world around the commands.                                          *)

\* The steps at which the command waits for a program that changes its machine.
Waits(p) ==
  \/ at[p] \in {"copy", "convert", "define", "virsh", "shutdown", "force", "undefine",
               "undefineAgain", "up", "halt", "machine", "removeBox", "fill", "request",
               "clone", "run", "delete"}
  \/ at[p] = "stop" /\ engine[job[p].vm] = "tart"
  \/ At(p, "hyperv", "create", "begin") \/ At(p, "utm", "create", "begin")

\* The process is killed.  No group and no signal ties the program it waits
\* for to it: the program may end with it, or go on to its own end.
Die(p) ==
  /\ at[p] # "idle" /\ ~job[p].dead
  /\ \/ Fail(p)
     \/ Waits(p) /\ job' = [job EXCEPT ![p].dead = TRUE] /\ UNCHANGED <<at, catalogue>>
  /\ UNCHANGED vm

GuestGoesOff(v) ==
  /\ \/ vm[v].power = "on" /\ \E s \in IF engine[v] = "tart" THEN {"off"} ELSE {"between", "off"} :
          vm' = [vm EXCEPT ![v].power = s]
     \/ vm[v].power = "between" /\ vm' = [vm EXCEPT ![v].power = "off"]
  /\ UNCHANGED <<catalogue, at, job>>

GuestHasAddress(v) ==
  /\ engine[v] = "tart" /\ TartRunning(vm[v]) /\ ~vm[v].lease
  /\ vm' = [vm EXCEPT ![v].lease = TRUE]
  /\ UNCHANGED <<catalogue, at, job>>

Next ==
  \/ \E p \in Procs :
       \/ CreateCommand(p)
       \/ StartCommand(p)
       \/ StopCommand(p)
       \/ DestroyCommand(p)
       \/ Work(p)
       \/ Die(p)
  \/ \E v \in Vms : GuestGoesOff(v) \/ GuestHasAddress(v)

Spec == Init /\ [][Next]_vars

-------------------------------------------------------------------------------
(* Properties.                                                             *)

Labels ==
  {"idle", "next", "look", "begin", "network", "copy", "convert", "xml", "define", "virsh", "stop", "shutdown",
   "settle", "force", "verify", "undefine", "undefineAgain", "remove", "up", "halt",
   "machine", "box", "removeBox", "fill", "request", "clone", "probe", "probeRunning",
   "run", "reach", "delete"}

\* The machines that the command c takes when it is told "all".
AllOf(c) == IF c \in {"create", "start"} THEN Stable ELSE Catalogue

\* Every variable keeps its type; a process has a job exactly while it is not
\* idle; and an "all" command is on its way to no other machines than it is
\* meant for: a create or start never comes to an unstable one.
TypeOK ==
  /\ engine \in [Vms -> Engines \cup {"none"}]
  /\ crossArch \in [Vms -> BOOLEAN]
  /\ vm \in [Vms -> VmRecords]
  /\ at \in [Procs -> Labels]
  /\ job \in [Procs -> Jobs \cup {NoJob}]
  /\ \A p \in Procs : at[p] = "idle" <=> job[p] = NoJob
  /\ \A p \in Procs : at[p] # "idle" => job[p].rest \subseteq AllOf(job[p].what)

\* The command c of p has just succeeded on its machine.
Succeeds(p, c) ==
  /\ at[p] \notin {"idle", "next"} /\ at'[p] = "next"
  /\ job[p].what = c

\* A create that was the only command leaves a whole machine: a disk or a
\* bundle that a create which failed, or died, left half copied is never
\* taken for one.
CreatedIsWhole ==
  [][\A p \in Procs : Succeeds(p, "create") /\ job[p].alone =>
       LET e == engine[job[p].vm] IN
       /\ Exists(e, It(p)')
       /\ e \in {"libvirt", "utm"} => It(p)'.disk = "whole"]_vars

\* A destroy that was the only command, with no program of a dead one still at
\* work, leaves nothing, whatever commands that failed, died or got in each
\* other's way had left before: neither a machine nor a disk or box of it.
\* The exception is a Hyper-V machine that an inspection took for missing.
CleanSlate ==
  [][\A p \in Procs : Succeeds(p, "destroy") /\ job[p].alone /\ ~job'[p].misread =>
       ~DestroyTargetExists(engine[job[p].vm], It(p)')]_vars

\* At the moment a stop succeeds the machine does not run, whoever else, dead
\* commands' programs included, worked on it.  "Does not run" is what the
\* engine's inspection says: a Hyper-V guest that shuts down does not run.
\* The exceptions are UTM, whose forced stop is not verified, and a Hyper-V
\* machine that an inspection took for missing.
StoppedRunsNot ==
  [][\A p \in Procs :
       Succeeds(p, "stop") /\ engine[job[p].vm] # "utm" /\ ~job'[p].misread =>
         ~Running(engine[job[p].vm], It(p)')]_vars

\* What the user finds of a machine v of the engine e.
StateOf(e, v) ==
  LET off == IF v.power = "off" THEN "stopped" ELSE "running" IN
  CASE e = "libvirt" -> IF v.known /\ v.disk = "whole" THEN off
                        ELSE IF DestroyTargetExists(e, v) THEN "remains" ELSE "absent"
    [] e = "hyperv"  -> IF v.known THEN off ELSE IF v.box THEN "remains" ELSE "absent"
    [] e = "utm"     -> IF v.disk = "whole" THEN off
                        ELSE IF v.disk = "partial" THEN "remains" ELSE "absent"
    [] e = "tart"    -> IF v.known THEN off ELSE "absent"
    [] OTHER         -> "absent"

stateOfVms  == [v \in Vms |-> StateOf(engine[v], vm[v])]
doingOfJobs == [p \in Procs |-> IF job[p] = NoJob THEN NoJob
                                ELSE [what |-> job[p].what, vm |-> job[p].vm,
                                      alone |-> job[p].alone]]

Promise == INSTANCE VmPromise WITH state <- stateOfVms, doing <- doingOfJobs

\* On every engine a command that is the only one, and a program that has
\* outlived it, changes a machine only as VmPromise says, with misread
\* inspections too: a create that fails never removes a machine, a start never
\* makes or destroys one, a stop never removes one.
KeepsPromise == Promise!Spec
================================================================================
