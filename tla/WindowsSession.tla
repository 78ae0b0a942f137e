----------------------------- MODULE WindowsSession -----------------------------
(***************************************************************************)
(* A local Windows session (pkg/provision/provision_windows_local_*.go and *)
(* scripts/windows/local-windows-provision-*.ps1): an elevated script      *)
(* saves the state of the host and opens it for ansible, another restores  *)
(* it.  A launcher that is killed at its timeout leaves its elevated       *)
(* script running.                                                         *)
(***************************************************************************)
EXTENDS ProvisionRun

CONSTANT Hosts        \* bound: the states the Windows host may be in at first

VARIABLES
  elevated,           \* alchemy itself runs elevated: a script is its child's child
  host,               \* what the sessions change on the Windows host
  saved,              \* saved[p]: the content of the state file of p's run
  script              \* script[p]: the steps left of its two elevated scripts

session == <<elevated, host, saved, script>>

\* user: the account devalchemy_ansible; keys: the authorized_keys files;
\* builtin, loopback, rule: firewall rules; auth: Basic authentication and
\* AllowUnencrypted of WinRM; policy: the token filter policy.  The owners of
\* files and who may read them are left out.
Settings ==
  {"user", "keys", "shell", "config", "builtin", "loopback",
   "auth", "policy", "listener", "certificate", "rule"}
Values == {"absent", "own", "temp"}

(* loaded: the sshd_config the running sshd has read                       *)
HostStates ==
  [set: [Settings -> Values], capability: {"missing", "installed", "other"},
   sshd: {"absent", "disabled", "off", "on"}, loaded: Values,
   winrm: {"disabled", "off", "on"}]

(* A host with everything of its own, or with nothing.                     *)
HostWith(v, capability, sshd, winrm) ==
  [set |-> [s \in Settings |-> IF s = "certificate" THEN "absent" ELSE v],
   capability |-> capability, sshd |-> sshd,
   loaded |-> IF sshd = "on" THEN v ELSE "absent", winrm |-> winrm]

ASSUME HostsAssumption == Hosts \subseteq HostStates

\* The state file is created empty; taken: the bootstrap has saved in it what
\* it found; managed: it has installed sshd; created: it has made the listener.
Empty == [taken |-> FALSE, managed |-> FALSE, created |-> FALSE,
          was |-> HostWith("absent", "missing", "absent", "off")]

\* A slip for the mutation runs; nothing else uses it: the state is saved late.
BugSshBootstrap ==
  <<"install", "enable", "capture", "loopback", "shell", "config", "user", "keys", "restart">>

SshBootstrap ==
  <<"capture", "install", "enable", "loopback", "shell", "config", "user", "keys", "restart">>
SshCleanup ==
  <<"load", "user", "keys", "shell", "config", "loopback", "builtin", "reload", "sshd">>
WinrmBootstrap == <<"capture", "winrm", "auth", "policy", "listener", "rule", "user">>
WinrmCleanup   ==
  <<"load", "user", "listener", "auth", "policy", "rule", "certificate", "winrm">>

Kinds == {"bootstrap", "cleanup"}

Waits == [bootstrap |-> "bootstrapping", cleanup |-> "restoring"]

NoScript == [bootstrap |-> <<>>, cleanup |-> <<>>, force |-> FALSE]

Steps(p, k) ==
  IF job[p].ssh THEN IF k = "bootstrap" THEN SshBootstrap ELSE SshCleanup
  ELSE IF k = "bootstrap" THEN WinrmBootstrap ELSE WinrmCleanup

-------------------------------------------------------------------------------
(* The elevated scripts.                                                   *)

\* The script of kind k of p is at step s.
Doing(p, k, s) == script[p][k] # <<>> /\ Head(script[p][k]) = s

Onward(p, k) == script' = [script EXCEPT ![p][k] = Tail(@)]

\* Something stops the script at any step; ErrorActionPreference is Stop.
Throw(p, k) ==
  /\ script[p][k] # <<>>
  /\ script' = [script EXCEPT ![p][k] = <<>>]
  /\ job' = IF at[p] = Waits[k] THEN [job EXCEPT ![p].threw = TRUE] ELSE job
  /\ UNCHANGED <<at, files, elevated, host, saved>>

Sets(p, k, h) ==
  /\ host' = h
  /\ Onward(p, k)
  /\ UNCHANGED <<run, elevated, saved>>

\* What WinRM keeps to itself (the drive WSMan:) shows only while it runs.
Wsman == {"auth", "listener"}

\* What the bootstrap can see of the host h: of a WinRM that is off, that it has
\* no listeners and nothing to say about its authentication.
Found(h) ==
  IF h.winrm = "on" THEN h
  ELSE [h EXCEPT !.set = [s \in Settings |-> IF s \in Wsman THEN "absent" ELSE h.set[s]]]

\* The bootstrap saves what it finds before it changes anything, and before it
\* turns WinRM on.
Capture(p) ==
  /\ Doing(p, "bootstrap", "capture")
  /\ saved' = [saved EXCEPT ![p] = [Empty EXCEPT !.taken = TRUE, !.was = Found(host)]]
  /\ files' = [files EXCEPT ![p] = @ \cup {"state"}]
  /\ Onward(p, "bootstrap")
  /\ UNCHANGED <<at, job, elevated, host>>

\* A slip for the mutation runs; nothing else uses it: an OpenSSH that was there
\* counts as installed by the run.
BugInstall(p) ==
  /\ Doing(p, "bootstrap", "install")
  /\ saved' = [saved EXCEPT ![p].managed = TRUE] /\ Onward(p, "bootstrap")
  /\ UNCHANGED <<run, elevated, host>>

\* OpenSSH is installed only where neither the capability nor sshd is there;
\* it comes with a firewall rule of its own.  A pending change without an
\* sshd is a reason to stop.
Install(p) ==
  /\ Doing(p, "bootstrap", "install")
  /\ IF saved[p].was.capability # "installed" /\ saved[p].was.sshd = "absent"
     THEN /\ saved[p].was.capability = "missing"
          /\ host' = [host EXCEPT !.capability = "installed", !.sshd = "off", !.set["builtin"] = "temp"]
          /\ \/ saved' = [saved EXCEPT ![p].managed = TRUE] /\ Onward(p, "bootstrap")
             \/ saved' = saved /\ script' = [script EXCEPT ![p]["bootstrap"] = <<"stop">>]
     ELSE Onward(p, "bootstrap") /\ UNCHANGED <<host, saved>>
  /\ UNCHANGED <<run, elevated>>

\* Without an sshd, installed or not, the script stops.
Enable(p) ==
  /\ Doing(p, "bootstrap", "enable") /\ host.sshd # "absent"
  /\ Sets(p, "bootstrap", [host EXCEPT !.sshd = IF saved[p].was.sshd = "disabled" THEN "off" ELSE @])

\* A setting takes the value provisioning needs; one of WinRM's own has to show
\* by now, or the script stops.
Configure(p, s) ==
  /\ s \in Settings \ {"listener"} /\ Doing(p, "bootstrap", s)
  /\ s \in Wsman => host.winrm = "on"
  /\ Sets(p, "bootstrap", [host EXCEPT !.set[s] = "temp"])

Restart(p) ==
  /\ Doing(p, "bootstrap", "restart") /\ host.sshd \notin {"absent", "disabled"}
  /\ Sets(p, "bootstrap", [host EXCEPT !.sshd = "on", !.loaded = host.set["config"]])

EnableWinRM(p) ==
  /\ Doing(p, "bootstrap", "winrm")
  /\ Sets(p, "bootstrap", [host EXCEPT !.winrm = "on"])

\* The certificate is saved only after the listener that uses it.
CreateListener(p) ==
  /\ Doing(p, "bootstrap", "listener") /\ host.winrm = "on"
  /\ IF host.set["listener"] # "absent" THEN Onward(p, "bootstrap") /\ UNCHANGED <<host, saved>>
     ELSE \/ /\ host' = [host EXCEPT !.set["listener"] = "temp", !.set["certificate"] = "temp"]
             /\ saved' = [saved EXCEPT ![p].created = TRUE] /\ Onward(p, "bootstrap")
          \/ /\ \E l \in {"absent", "temp"} :
                  host' = [host EXCEPT !.set["listener"] = l, !.set["certificate"] = "temp"]
             /\ script' = [script EXCEPT ![p]["bootstrap"] = <<"stop">>]
             /\ UNCHANGED saved
  /\ UNCHANGED <<run, elevated>>

\* The cleanup has nothing to do without a state file.  What an empty one
\* means is up to PowerShell: it stops the script, or says that nothing was
\* there.
Load(p) ==
  /\ Doing(p, "cleanup", "load")
  /\ \/ "state" \in files[p] /\ Onward(p, "cleanup")
     \/ "state" \notin files[p] /\ script' = [script EXCEPT ![p]["cleanup"] = <<>>]
  /\ UNCHANGED <<run, elevated, host, saved>>

Before(p, s) == saved[p].was.set[s]

\* Forced: the transport is taken down, whatever was there before.
Forced(p, s) == script[p].force /\ s \in {"loopback", "builtin", "auth", "listener", "rule"}

\* A setting is restored, or removed when there was none; WinRM's own only while
\* they show, and its authentication only if the bootstrap could see it.  An
\* empty state names no account and no certificate; a rule that is gone stays
\* away.
Restore(p, s) ==
  /\ s \in Settings /\ Doing(p, "cleanup", s)
  /\ LET kept == \/ s = "user" /\ (~saved[p].taken \/ host.set[s] = "absent")
                 \/ s = "certificate" /\ ~saved[p].created
                 \/ s = "auth" /\ saved[p].was.winrm # "on"
                 \/ s \in {"builtin", "rule", "listener"} /\ host.set[s] = "absent"
         hidden == s \in Wsman /\ host.winrm # "on"
     IN Sets(p, "cleanup",
             [host EXCEPT !.set[s] = IF hidden THEN @ ELSE IF Forced(p, s) THEN "absent"
                                     ELSE IF kept THEN @ ELSE Before(p, s)])

\* A slip for the mutation runs; nothing else uses it: sshd is not reloaded.
BugReload(p) == Doing(p, "cleanup", "reload") /\ Sets(p, "cleanup", host)

\* sshd reads the restored sshd_config.
Reload(p) ==
  /\ Doing(p, "cleanup", "reload")
  /\ Sets(p, "cleanup", IF host.sshd = "on" /\ ~script[p].force
                        THEN [host EXCEPT !.loaded = host.set["config"]] ELSE host)

Disable(h) == IF h.sshd = "absent" THEN h ELSE [h EXCEPT !.sshd = "disabled", !.loaded = "absent"]

\* An sshd that was there without its capability is left as it is.
RestoreSshd(p) ==
  /\ Doing(p, "cleanup", "sshd")
  /\ LET w == saved[p].was IN
     Sets(p, "cleanup",
          IF script[p].force \/ saved[p].managed THEN Disable(host)
          ELSE IF w.capability # "installed" \/ host.sshd = "absent" \/ w.sshd = "absent" THEN host
          ELSE [host EXCEPT !.sshd = w.sshd,
                            !.loaded = IF w.sshd # "on" THEN "absent"
                                       ELSE IF host.sshd = "on" THEN @ ELSE host.set["config"]])

RestoreWinRM(p) ==
  /\ Doing(p, "cleanup", "winrm")
  /\ Sets(p, "cleanup",
          [host EXCEPT !.winrm = IF script[p].force THEN "disabled"
                                 ELSE IF saved[p].taken THEN saved[p].was.winrm
                                 ELSE IF @ = "on" THEN "off" ELSE @])

ScriptStep(p) ==
  \/ \E k \in Kinds : Throw(p, k)
  \/ Capture(p)
  \/ Install(p)
  \/ Enable(p)
  \/ \E s \in Settings : Configure(p, s) \/ Restore(p, s)
  \/ Restart(p)
  \/ EnableWinRM(p)
  \/ CreateListener(p)
  \/ Load(p)
  \/ Reload(p)
  \/ RestoreSshd(p)
  \/ RestoreWinRM(p)

-------------------------------------------------------------------------------
(* The run.                                                                *)

SelectPort(p) == at[p] = "port" /\ Check(p, TRUE) /\ UNCHANGED session

\* A key file that could not be written is removed, if it can be.
CreateKey(p) ==
  /\ at[p] = "key" /\ UNCHANGED session
  /\ \/ Create(p, "key") /\ Succeed(p)
     \/ UNCHANGED files /\ Fail(p)
     \/ Create(p, "key") /\ FailWith(p, Keeps(job[p], {"key"}))

\* Without a state file the private key goes again, if it can be removed.
CreateState(p) ==
  /\ at[p] = "state"
  /\ saved' = [saved EXCEPT ![p] = Empty] /\ UNCHANGED <<elevated, host, script>>
  /\ \/ Create(p, "state") /\ Succeed(p)
     \/ Remove(p, {"key"}) /\ Fail(p)
     \/ UNCHANGED files /\ FailWith(p, Keeps(job[p], {"key"}))

\* The elevated script is written to a file, with the password in it, and
\* launched; the user may refuse the elevation.
Launch(p, k) ==
  /\ at[p] = k /\ UNCHANGED <<elevated, host, saved>>
  /\ Create(p, "script")
  /\ at' = [at EXCEPT ![p] = Waits[k]]
  /\ \E steps \in {Steps(p, k), <<>>} :
       /\ script' = [script EXCEPT ![p][k] = steps, ![p].force = job[p].force]
       /\ job' = [job EXCEPT ![p].threw = steps = <<>>]

\* A bootstrap that fails is followed by the cleanup; the cleanup by the
\* removal of the other files.
Result(p, k, j, good) ==
  IF k = "cleanup"
  THEN /\ at' = [at EXCEPT ![p] = "tidy"]
       /\ job' = [job EXCEPT ![p] = [j EXCEPT !.clean = good]]
  ELSE IF good THEN Continue(p, [j EXCEPT !.booted = TRUE], FALSE) ELSE FailWith(p, j)

\* Nobody looks whether the script's file could be removed.
ScriptOver(p, k) ==
  /\ at[p] = Waits[k] /\ script[p][k] = <<>> /\ UNCHANGED session
  /\ \/ Remove(p, {"script"}) /\ Result(p, k, job[p], ~job[p].threw)
     \/ UNCHANGED files /\ Result(p, k, Keeps(job[p], {"script"}), ~job[p].threw)

\* The launcher is killed, its elevated script is not.  Where alchemy itself is
\* elevated the script holds the output pipe, and the run waits for its end.
Timeout(p, k) ==
  /\ at[p] = Waits[k] /\ script[p][k] # <<>> /\ ~job[p].threw /\ UNCHANGED session
  /\ IF elevated THEN job' = [job EXCEPT ![p].threw = TRUE] /\ UNCHANGED <<at, files>>
     ELSE LET j == [job[p] EXCEPT !.astray = TRUE] IN
          \/ Remove(p, {"script"}) /\ Result(p, k, j, FALSE)
          \/ UNCHANGED files /\ Result(p, k, Keeps(j, {"script"}), FALSE)

\* The key and the state file go even when the host could not be restored.
Tidy(p) ==
  /\ at[p] = "tidy" /\ UNCHANGED session
  /\ \E kept \in SUBSET (files[p] \cap {"key", "state"}) :
       /\ Remove(p, {"key", "state"} \ kept)
       /\ Continue(p, Keeps(job[p], kept), kept # {} \/ ~job[p].clean)

\* waitForSSHPortOnPort gives up at its deadline.
Reach(p) == at[p] = "reach" /\ Check(p, host.sshd = "on") /\ UNCHANGED session

\* The port is sshd's alone, and the temporary key opens it.
Preflight(p) ==
  /\ at[p] = "preflight"
  /\ Check(p, host.sshd = "on" /\ host.set["user"] = "temp" /\ host.set["keys"] = "temp")
  /\ UNCHANGED session

SessionStep(p) ==
  \/ SelectPort(p)
  \/ CreateKey(p)
  \/ CreateState(p)
  \/ \E k \in Kinds : Launch(p, k) \/ ScriptOver(p, k) \/ Timeout(p, k)
  \/ Tidy(p)
  \/ Reach(p)
  \/ Preflight(p)

-------------------------------------------------------------------------------
(* What a run is to leave.                                                 *)

\* The run j has not seen what WinRM keeps to itself ...
Unseen(j) == ~j.ssh /\ j.was.winrm # "on"

\* ... and leaves one of these instead of what was there.
Left(j, s) == {j.was.set[s], IF s = "auth" /\ ~j.force THEN "temp" ELSE "absent"}

(* A state file that says w tells what the host h was, but for what WinRM  *)
(* keeps to itself where it was off.                                       *)
Tells(w, h) ==
  /\ [w EXCEPT !.set = h.set] = h
  /\ \A s \in Settings : w.set[s] = h.set[s] \/ (s \in Wsman /\ h.winrm # "on")

Sshd == {"loopback", "builtin"}
WinRM == {"auth", "listener", "rule"}

(* The host is as it was when the run j began; a session over SSH leaves   *)
(* WinRM alone, and one over WinRM the sshd; after SSH, an sshd that runs  *)
(* has the configuration that is there.  Exceptions: what a forced         *)
(* uninstall takes down; the certificate of a bootstrap that failed before *)
(* it saved it; where WinRM was off, its own listeners may be gone and     *)
(* Basic authentication may stay on; an OpenSSH the run has installed      *)
(* stays, without running; an sshd that was there without its capability   *)
(* may be left running.                                                    *)
Restored(j, h) ==
  LET w == j.was
      down == IF ~j.force THEN {} ELSE IF j.ssh THEN Sshd ELSE WinRM IN
  /\ \A s \in Settings :
       \/ h.set[s] = IF s \in down THEN "absent" ELSE w.set[s]
       \/ s = "certificate" /\ ~j.booted
       \/ s \in Wsman /\ Unseen(j) /\ h.set[s] \in Left(j, s)
  /\ j.ssh =>
       /\ h.winrm = w.winrm
       /\ h.sshd = "on" => h.loaded = h.set["config"]
       /\ h.capability = w.capability \/ (w.capability = "missing" /\ w.sshd = "absent")
       /\ w.capability = "installed" /\ ~j.force => h.sshd = w.sshd
       /\ j.force \/ w.sshd = "absent" => h.sshd # "on"
  /\ ~j.ssh =>
       /\ h.winrm = IF j.force THEN "disabled" ELSE w.winrm
       /\ h.capability = w.capability /\ h.sshd = w.sshd /\ h.loaded = w.loaded
================================================================================
