------------------------------- MODULE Provision -------------------------------
(***************************************************************************)
(* `alchemy provision` on one host: the runs of several processes, the     *)
(* guest they provision, the checkouts of role sources, and a Windows host *)
(* that is provisioned itself.  A process may die at any point; a guest    *)
(* may go off at any point.                                                *)
(***************************************************************************)
EXTENDS RoleSources, WindowsSession

CONSTANT
  Scenes              \* bound: the settings of the runs, records as below

ASSUME ScenesAssumption == \A s \in Scenes : s.confs \subseteq Confs /\ s.changes \in Nat

VARIABLES
  scene,              \* os: the operating system of the host; the rest are bounds: confs: the
                      \* entry at first; runs: how many there are; together: whether at a time;
                      \* plans: what they provision; changes: those of the guest and the sources
  guest,              \* the virtual machine: "off" or "on"
  changes             \* how often the guest and the sources have changed

vars == <<run, sources, session, scene, guest, changes>>

world == <<sources, session, scene, guest, changes>>

Init ==
  /\ scene \in Scenes
  /\ conf \in scene.confs
  /\ origin = [b \in Branches |-> 1]
  /\ cache = [c \in Caches |-> NoCheckout]
  /\ elevated \in IF scene.os = "windows" THEN BOOLEAN ELSE {FALSE}
  /\ host \in IF scene.os = "windows" THEN Hosts ELSE {Empty.was}
  /\ saved = [p \in Procs |-> Empty]
  /\ script = [p \in Procs |-> NoScript]
  /\ guest = "on" /\ changes = 0
  /\ at = [p \in Procs |-> "idle"]
  /\ job = [p \in Procs |-> NoJob]
  /\ files = [p \in Procs |-> {}]

-------------------------------------------------------------------------------
(* The course of a run.                                                    *)

Working(q) == at[q] \notin {"idle", "over"}

ScriptsOver(q) == script[q].bootstrap = <<>> /\ script[q].cleanup = <<>>

\* RunProvisionWithOptions, once in a process; processes are numbered as they
\* begin.
Begin(p) ==
  /\ at[p] = "idle" /\ \A q \in Procs : q < p => at[q] # "idle"
  /\ scene.together \/ \A q \in Procs : ~Working(q)
  /\ Cardinality({q \in Procs : at[q] # "idle"}) < scene.runs
  /\ \E plan \in Plans(scene.os) \cap scene.plans, force \in BOOLEAN :
       /\ force => InPlan("cleanup", plan)
       /\ at' = [at EXCEPT ![p] = Head(plan)]
       /\ job' = [q \in Procs |->
            IF q = p
            THEN [plan |-> Tail(plan), ok |-> TRUE, kept |-> {},
                  alone |-> \A r \in Procs \ {p} : ~Working(r) /\ ScriptsOver(r),
                  use |-> "playbooks", used |-> {}, seen |-> origin, missed |-> FALSE,
                  vm |-> InPlan("running", plan), ssh |-> InPlan("key", plan), force |-> force, threw |-> FALSE,
                  booted |-> FALSE, clean |-> FALSE, astray |-> FALSE, was |-> host]
            ELSE IF Working(q) THEN [job[q] EXCEPT !.alone = FALSE] ELSE job[q]]
  /\ UNCHANGED <<files, world>>

Finish(p) ==
  /\ at[p] = "done"
  /\ at' = [at EXCEPT ![p] = "over"] /\ job' = [job EXCEPT ![p] = NoJob]
  /\ UNCHANGED <<files, world>>

\* ensureProvisionTargetRunning.
EnsureRunning(p) == at[p] = "running" /\ Check(p, guest = "on") /\ UNCHANGED world

ResolveSettings(p) == at[p] = "settings" /\ Check(p, TRUE) /\ UNCHANGED world

\* Vagrant asks the guest for its address; once, with a deadline.
AskWinrm(p) == at[p] = "askWinrm" /\ Check(p, guest = "on") /\ UNCHANGED world

AskSsh(p) == at[p] = "askSsh" /\ Check(p, guest = "on") /\ UNCHANGED world

\* libvirt, ARP and Tart may know the address of a guest that is off; each is
\* asked again for a time, Tart once.
AskLibvirt(p) == at[p] = "domifaddr" /\ Check(p, TRUE) /\ UNCHANGED world

AskArp(p) == at[p] = "arp" /\ Check(p, TRUE) /\ UNCHANGED world

AskTart(p) == at[p] = "tartIp" /\ Check(p, TRUE) /\ UNCHANGED world

\* waitForSSHPort gives up at its deadline.
WaitForSSH(p) == at[p] = "sshPort" /\ Check(p, guest = "on") /\ UNCHANGED world

\* Windows guests need a user and a password in the environment or in .env.
LoadConfig(p) == at[p] = "config" /\ Check(p, TRUE) /\ UNCHANGED world

FindSshpass(p) == at[p] = "sshpass" /\ Check(p, TRUE) /\ UNCHANGED world

\* The arguments of ansible: what opens the target goes into a file of its own
\* before the playbook is looked for.  One that could not be written is removed,
\* if it can be.
BuildArgs(p) ==
  /\ at[p] = "args" /\ UNCHANGED world
  /\ \/ /\ IF InPlan("vars", job[p].plan) THEN Create(p, "vars") ELSE UNCHANGED files
        /\ at' = [at EXCEPT ![p] = "playbook"]
        /\ job' = [job EXCEPT ![p].use = "playbooks"]
     \/ UNCHANGED files /\ Fail(p)
     \/ /\ InPlan("vars", job[p].plan)
        /\ Create(p, "vars") /\ FailWith(p, Keeps(job[p], {"vars"}))

Resolution == {"resolved", "unresolved"}

\* A slip for the mutation runs; nothing else uses it: the error leaves the
\* file behind.
BugArgsBuilt(p) ==
  /\ at[p] \in Resolution /\ job[p].use = "playbooks" /\ UNCHANGED <<files, world>>
  /\ \/ at[p] = "resolved" /\ Succeed(p)
     \/ at[p] = "unresolved" /\ Fail(p)

\* Without a playbook the file goes again; nobody looks whether it could be
\* removed.
ArgsBuilt(p) ==
  /\ at[p] \in Resolution /\ job[p].use = "playbooks" /\ UNCHANGED world
  /\ \/ at[p] = "resolved" /\ UNCHANGED files /\ Succeed(p)
     \/ at[p] = "unresolved" /\ Remove(p, {"vars"}) /\ Fail(p)
     \/ at[p] = "unresolved" /\ UNCHANGED files /\ FailWith(p, Keeps(job[p], {"vars"}))

PrepareAnsible(p) ==
  /\ at[p] = "ansible"
  /\ at' = [at EXCEPT ![p] = "roles"]
  /\ job' = [job EXCEPT ![p].use = "roles"]
  /\ UNCHANGED <<files, world>>

\* The stage "ansible" ends; what follows it removes the files.
AnsibleOver(p, err) == Continue(p, job[p], err) /\ UNCHANGED <<files, world>>

RolesResolved(p) ==
  /\ at[p] \in Resolution /\ job[p].use = "roles"
  /\ \/ at[p] = "resolved" /\ Goto(p, "start") /\ UNCHANGED <<files, world>>
     \/ at[p] = "unresolved" /\ AnsibleOver(p, TRUE)

\* On Windows ansible runs in Cygwin, whose bash has to be found.
StartAnsible(p) ==
  /\ at[p] = "start"
  /\ \/ Goto(p, "play") /\ UNCHANGED <<files, world>>
     \/ AnsibleOver(p, TRUE)

AnsibleEnds(p) == at[p] = "play" /\ \E err \in BOOLEAN : AnsibleOver(p, err)

\* After 90 minutes ansible itself is killed, and its output is read to the end.
AnsibleTimesOut(p) == at[p] = "play" /\ Goto(p, "drain") /\ UNCHANGED <<files, world>>

\* The output ends when no descendant of ansible holds it.
OutputEnds(p) == at[p] = "drain" /\ AnsibleOver(p, TRUE)

Work(p) ==
  \/ Finish(p)
  \/ EnsureRunning(p)
  \/ ResolveSettings(p)
  \/ AskWinrm(p)
  \/ AskSsh(p)
  \/ AskLibvirt(p)
  \/ AskArp(p)
  \/ AskTart(p)
  \/ WaitForSSH(p)
  \/ LoadConfig(p)
  \/ FindSshpass(p)
  \/ BuildArgs(p)
  \/ ArgsBuilt(p)
  \/ PrepareAnsible(p)
  \/ RolesResolved(p)
  \/ StartAnsible(p)
  \/ AnsibleEnds(p)
  \/ AnsibleTimesOut(p)
  \/ RemoveVars(p) /\ UNCHANGED world
  \/ ResolveStep(p) /\ UNCHANGED <<session, scene, guest, changes>>
  \/ SessionStep(p) /\ UNCHANGED <<sources, scene, guest, changes>>

RunScript(p) == ScriptStep(p) /\ UNCHANGED <<sources, scene, guest, changes>>

-------------------------------------------------------------------------------
(* The world around the runs.                                              *)

Die(p) ==
  /\ Working(p) /\ at[p] # "done"
  /\ at' = [at EXCEPT ![p] = "over"] /\ job' = [job EXCEPT ![p] = NoJob]
  /\ LeaveClone(p)
  /\ UNCHANGED <<files, origin, conf, session, scene, guest, changes>>

GuestChanges ==
  /\ changes < scene.changes /\ changes' = changes + 1
  /\ \E p \in Procs : Working(p) /\ job[p].vm
  /\ guest' \in {"off", "on"} \ {guest}
  /\ UNCHANGED <<run, sources, session, scene>>

SourcesChange ==
  /\ conf.git /\ changes < scene.changes /\ changes' = changes + 1
  /\ (\E b \in Branches : Push(b)) \/ DeleteBranch \/ Reconfigure
  /\ UNCHANGED <<session, scene, guest>>

Next ==
  \/ \E p \in Procs : Begin(p) \/ Work(p) \/ OutputEnds(p) \/ RunScript(p) \/ Die(p)
  \/ GuestChanges
  \/ SourcesChange

Spec == Init /\ [][Next]_vars

-------------------------------------------------------------------------------
(* Properties.                                                             *)

Systems == {"windows", "darwin", "linux"}

Stages == UNION {{plan[i] : i \in DOMAIN plan} : plan \in UNION {Plans(o) : o \in Systems}}

StepsOfStages ==
  {"idle", "over", "done", "playbook", "roles", "look", "clone", "cloning", "discard", "fetch",
   "updateRef", "pullRef", "pull", "checkout", "subdirectory", "resolved", "unresolved",
   "start", "play", "drain", "bootstrapping", "restoring", "tidy"}

States == [taken: BOOLEAN, managed: BOOLEAN, created: BOOLEAN, was: HostStates]

\* A state file says that the run has installed OpenSSH only where there was
\* none: the cleanup would disable the user's own.
Managed(sv) == sv.managed => sv.was.capability = "missing" /\ sv.was.sshd = "absent"

\* The types of the variables.  A process has a run exactly when it works,
\* works on files of its own, and runs a script only where it provisions a
\* Windows host; its state file never claims an OpenSSH that was there.
TypeOK ==
  /\ at \in [Procs -> Stages \cup StepsOfStages]
  /\ \A p \in Procs : (job[p] = NoJob) = ~Working(p)
  /\ files \in [Procs -> SUBSET Files]
  /\ origin \in [Branches -> 0..MaxRev] /\ conf \in Confs
  /\ cache \in [Caches -> Checkouts]
  /\ elevated \in BOOLEAN /\ host \in HostStates /\ saved \in [Procs -> States]
  /\ \A p \in Procs : Managed(saved[p])
  /\ \A p \in Procs : ~ScriptsOver(p) => scene.os = "windows"
  /\ scene \in Scenes /\ guest \in {"off", "on"}
  /\ changes \in 0..scene.changes

\* A run that returns, at whatever stage it failed, has removed every temporary
\* file that opens the target: the extra-vars file with the password, the
\* private key, the elevated script.  Only a removal the system refused leaves
\* one.  A process that dies or is interrupted before, leaves them.
NoSecretsLeft == \A p \in Procs : at[p] = "done" => files[p] \cap Secrets \subseteq job[p].kept

\* A local Windows run that nobody disturbed, whose bootstrap may have failed
\* at any step and whose cleanup has succeeded, leaves the host as it found
\* it, with the exceptions Restored names.
HostRestored ==
  [][\A p \in Procs :
       at[p] # "done" /\ at'[p] = "done" /\ job'[p].clean /\ job'[p].alone
         /\ ~job'[p].astray /\ saved[p].taken
       => Restored(job'[p], host')]_vars

\* Ansible starts with checkouts that are whole, at the configured ref, and
\* not behind what origin had when the run began, whatever earlier runs and
\* their deaths have left in the caches.
SourcesAreCurrent ==
  \A p \in Procs : at[p] \in {"start", "play"} /\ job[p].alone => SourcesCurrent(p)

\* Whatever stops a local Windows run that nobody disturbed before its files
\* are removed, at any step of the elevated scripts: where the host differs
\* from what it was, a state file tells what it was, but for what WinRM keeps
\* to itself where it was off.
HostIsRecoverable ==
  \A p \in Procs :
    Working(p) /\ at[p] # "done" /\ job[p].alone /\ ~job[p].astray /\ host # job[p].was
      /\ (at[p] \in {"restoring", "tidy"} => saved[p].taken)
    => saved[p].taken /\ Tells(saved[p].was, job[p].was) /\ "state" \in files[p]

\* What docs/windows-ansible-access.md:28-32 says of a local run over WinRM: it
\* "restores the prior WinRM state during cleanup".  Of a run that nobody
\* disturbed and whose every step succeeded, without a forced uninstall.
WinrmStateRestored ==
  \A p \in Procs :
    at[p] = "done" /\ job[p].ok /\ job[p].booted /\ job[p].clean
      /\ job[p].alone /\ ~job[p].astray /\ ~job[p].ssh /\ ~job[p].force
    => host.winrm = job[p].was.winrm /\ \A s \in WinRM : host.set[s] = job[p].was.set[s]
================================================================================
