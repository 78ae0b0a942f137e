--------------------------------- MODULE VmHost ---------------------------------
(***************************************************************************)
(* What the engines of pkg/deploy share: the virtual machines of one host, *)
(* the alchemy processes that work on them, and the way a command runs an  *)
(* external program (pkg/deploy/command-runner.go).  LibvirtVm, HypervVm,  *)
(* UtmVm and TartVm extend this module with the operations of one engine;  *)
(* VmLifecycle composes them.                                              *)
(***************************************************************************)
EXTENDS Naturals, FiniteSets

CONSTANTS
  Procs,              \* alchemy processes
  Vms                 \* virtual machines of the catalogue for this host

VARIABLES
  engine,             \* engine[v]: the virtualization engine of v
  crossArch,          \* crossArch[v]: v has an architecture the host emulates
  vm,                 \* vm[v]: what there is of v on the host
  at,                 \* at[p]: where the process p stands, "idle" when there is
                      \* neither p nor a program that has outlived it
  job                 \* job[p]: the command p carries out

catalogue == <<engine, crossArch>>
vars      == <<engine, crossArch, vm, at, job>>

Engines  == {"libvirt", "hyperv", "utm", "tart"}
Commands == {"create", "start", "stop", "destroy"}

(* disk:  the libvirt disk or the UTM bundle; "partial" while it is copied *)
(* known: libvirt, Hyper-V or Tart lists the machine                       *)
(* power: "between" is a guest that shuts down                             *)
(* box:   the Vagrant box is installed                                     *)
(* lease: `tart ip` finds an address, of this run or of an earlier one     *)
VmRecords ==
  [disk: {"none", "partial", "whole"}, known: BOOLEAN,
   power: {"off", "between", "on"}, box: BOOLEAN, lease: BOOLEAN]

Nothing == [disk |-> "none", known |-> FALSE, power |-> "off", box |-> FALSE, lease |-> FALSE]

(* what:    the command; vm: the machine it works on now                   *)
(* rest:    the machines an "all" command has not come to                  *)
(* alone:   nothing of another command has run since this one began        *)
(* misread: an inspection has taken vm for missing although it was there   *)
(* dead:    the process has died, the program it had started lives on      *)
Jobs  == [what: Commands, vm: Vms, rest: SUBSET Vms, alone: BOOLEAN,
          misread: BOOLEAN, dead: BOOLEAN]
NoJob == [what |-> "none"]

It(p) == vm[job[p].vm]

\* The process p works for the command c on a machine of engine e; at l.
Does(p, e, c) ==
  at[p] \notin {"idle", "next"} /\ job[p].what = c /\ engine[job[p].vm] = e

At(p, e, c, l) == at[p] = l /\ Does(p, e, c)

\* Two commands of the same process never overlap; two processes may.
OthersIdle(p) == \A q \in Procs \ {p} : at[q] = "idle"

-------------------------------------------------------------------------------
(* Steps of a command.  A return with an error goes to "idle": the whole   *)
(* command has failed.  A return without one goes to "next": an "all"      *)
(* command takes its next machine there, another one has succeeded.        *)
(* When the process has died nothing follows the end of its program.       *)

Goto(p, l) ==
  LET m == IF job[p].dead THEN "idle" ELSE l IN
  /\ at' = [at EXCEPT ![p] = m]
  /\ job' = IF m = "idle" THEN [job EXCEPT ![p] = NoJob] ELSE job
  /\ UNCHANGED catalogue

\* A program goes on to the next of its own steps, with or without its parent.
ProgramGoesOn(p, l) ==
  /\ at' = [at EXCEPT ![p] = l]
  /\ UNCHANGED <<job, catalogue>>

Succeed(p) == Goto(p, "next")
Fail(p)    == Goto(p, "idle")

Becomes(p, w) == vm' = [vm EXCEPT ![job[p].vm] = w]

(* An external program runs to its end or its timeout.  When it reports    *)
(* success the machine has become one of "done"; when it reports failure,  *)
(* or is killed at its timeout, it may have done nothing, everything, or   *)
(* one of "partly".                                                        *)
RunCommand(p, done, partly, onSuccess, onError) ==
  \/ \E w \in done : Becomes(p, w) /\ Goto(p, onSuccess)
  \/ \E w \in {It(p)} \cup done \cup partly : Becomes(p, w) /\ Goto(p, onError)

\* A query whose answer is the set of labels it may send the command to; it
\* can always fail.
Query(p, answers, onError) ==
  /\ \E l \in answers \cup {onError} : Goto(p, l)
  /\ UNCHANGED vm
================================================================================
