----------------------------- MODULE ProvisionRun -----------------------------
(***************************************************************************)
(* The course of one `alchemy provision` (pkg/provision/provision.go and   *)
(* provision_windows_local_runner.go).  Each kind of target has a plan, a  *)
(* sequence of stages; an error ends the run, after the stages that clean  *)
(* up.  RoleSources and WindowsSession extend this module with the stages  *)
(* that work on the git checkouts and on the Windows host; Provision       *)
(* composes them.                                                          *)
(***************************************************************************)
EXTENDS Naturals, Sequences, FiniteSets

CONSTANT Procs        \* alchemy processes

ASSUME ProcsAssumption == Procs \subseteq Nat \ {0}

VARIABLES
  at,                 \* at[p]: the stage of the run of p, or a step of it; "idle" before it and "over" after it
  job,                \* job[p]: the run of p, NoJob without one
  files               \* files[p]: the temporary files of the run of p in the project directory

run == <<at, job, files>>

-------------------------------------------------------------------------------
(* The plans, one for each function that provisions a kind of target.      *)

LinkedAnsible == <<"args", "ansible", "vars">>

HypervWindows11    == <<"running", "settings", "askWinrm", "config">> \o LinkedAnsible
UtmWindows11       == <<"running", "arp", "config">> \o LinkedAnsible
LinuxQemuWindows11 == <<"running", "domifaddr", "config">> \o LinkedAnsible
HypervUbuntu       == <<"running", "settings", "askSsh", "config", "sshpass">> \o LinkedAnsible
UtmUbuntu          == <<"running", "arp", "config", "sshpass">> \o LinkedAnsible
LinuxQemuUbuntu    == <<"running", "domifaddr", "config", "sshpass">> \o LinkedAnsible
TartMacOS          == <<"running", "tartIp", "sshPort", "config", "sshpass">> \o LinkedAnsible
LocalUnix          == <<"args", "ansible">>
LocalWinRM         == <<"state", "bootstrap">> \o LinkedAnsible \o <<"cleanup">>
LocalSSH           == <<"port", "key", "state", "bootstrap", "reach", "preflight">>
                        \o LinkedAnsible \o <<"cleanup">>

\* What RunProvisionWithOptions dispatches to on each host.
Plans(os) ==
  IF os = "windows" THEN {HypervWindows11, HypervUbuntu, LocalWinRM, LocalSSH}
  ELSE IF os = "darwin" THEN {UtmWindows11, UtmUbuntu, TartMacOS, LocalUnix}
  ELSE {LinuxQemuWindows11, LinuxQemuUbuntu, LocalUnix}

-------------------------------------------------------------------------------
(* A run.                                                                  *)
(* plan:   the stages left, after the one it is in                         *)
(* ok:     no error so far                                                 *)
(* kept:   the files it could not remove                                   *)
(* alone:  no other run, nor a script of one, since it began               *)
(* use:    whether it works on the sources of playbooks or of roles        *)
(* used:   the caches with the checkouts it has resolved                   *)
(* seen:   origin's branches when it began                                 *)
(* missed: git failed to find a branch that is there                       *)
(* vm:     it provisions a virtual machine                                 *)
(* ssh, force: a local Windows run uses SSH, is to uninstall it at the end *)
(* threw:  the elevated script it waits for has failed                     *)
(* booted, clean: the bootstrap, the cleanup script has succeeded          *)
(* astray: a script of the run went on after its launcher was killed       *)
(* was:    the Windows host when the run began                             *)

NoJob == [plan |-> <<"none">>]

\* What is in a temporary file lets its reader into the target.
Secrets == {"vars", "key", "script"}
Files   == Secrets \cup {"state"}

Goto(p, l) ==
  /\ at' = [at EXCEPT ![p] = l]
  /\ UNCHANGED job

\* The run p goes on to its next stage; err says whether this one failed.
Continue(p, j, err) ==
  /\ at' = [at EXCEPT ![p] = IF j.plan = <<>> THEN "done" ELSE Head(j.plan)]
  /\ job' = [job EXCEPT ![p] = [j EXCEPT !.plan = IF @ = <<>> THEN <<>> ELSE Tail(@),
                                         !.ok = @ /\ ~err]]

Succeed(p) == Continue(p, job[p], FALSE)

InPlan(stage, plan) == \E i \in DOMAIN plan : plan[i] = stage

\* A run whose session has been set up cleans up whatever failed.
FailWith(p, j) ==
  Continue(p, [j EXCEPT !.plan =
                 IF at[p] \notin {"port", "key", "state"} /\ InPlan("cleanup", @)
                 THEN <<"cleanup">> ELSE <<>>], TRUE)

Fail(p) == FailWith(p, job[p])

\* A stage that leaves no trace: it succeeds when "possible", and it can fail.
Check(p, possible) ==
  /\ \/ possible /\ Succeed(p)
     \/ Fail(p)
  /\ UNCHANGED files

Create(p, f) == files' = [files EXCEPT ![p] = @ \cup {f}]

Remove(p, fs) == files' = [files EXCEPT ![p] = @ \ fs]

Keeps(j, fs) == [j EXCEPT !.kept = @ \cup fs]

\* The stage "vars" removes the extra-vars file, whatever became of ansible;
\* the result of the run tells of a removal that failed.
RemoveVars(p) ==
  /\ at[p] = "vars"
  /\ \/ Remove(p, {"vars"}) /\ Succeed(p)
     \/ UNCHANGED files /\ Continue(p, Keeps(job[p], {"vars"}), TRUE)
===============================================================================
