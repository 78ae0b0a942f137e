------------------------------ MODULE MCProvision ------------------------------
(* Instance of Provision for TLC: one local session on Windows; two runs   *)
(* for virtual machines at once; two runs that use git sources.            *)
EXTENDS Provision

Scene(o, cs, n, tog, ch, ps) ==
  [os |-> o, confs |-> cs, runs |-> n, together |-> tog, changes |-> ch, plans |-> ps]

NoEntry == [git |-> FALSE, playbooks |-> FALSE, ref |-> "none", update |-> TRUE]
Entry == [git |-> TRUE, playbooks |-> FALSE, ref |-> "none", update |-> TRUE]

MCScenes ==
  {Scene("windows", {NoEntry}, 1, FALSE, 0, {LocalSSH}),
   Scene("windows", {NoEntry}, 1, FALSE, 0, {LocalWinRM}),
   Scene("windows", {NoEntry}, 1, FALSE, 2, {HypervWindows11, HypervUbuntu}),
   Scene("darwin", {NoEntry}, 1, FALSE, 2, Plans("darwin")),
   Scene("linux", {NoEntry}, 2, TRUE, 2, {LinuxQemuWindows11, LinuxQemuUbuntu}),
   Scene("linux", {k \in Confs : k.git}, 2, FALSE, 2, {LocalUnix}),
   Scene("linux", {Entry}, 3, TRUE, 0, {LocalUnix})}

\* For the run about WinRM.
MCWinrmScenes == {Scene("windows", {NoEntry}, 1, FALSE, 0, {LocalWinRM})}

MCHosts ==
  {HostWith("absent", "missing", "absent", "off"),
   HostWith("own", "installed", "on", "on"),
   HostWith("absent", "installed", "disabled", "disabled"),
   HostWith("own", "other", "on", "off"),
   HostWith("own", "installed", "absent", "on")}
================================================================================
