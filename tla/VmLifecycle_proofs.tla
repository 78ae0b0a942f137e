-------------------------- MODULE VmLifecycle_proofs --------------------------
(***************************************************************************)
(* Theorems about VmLifecycle for every set of processes and machines:     *)
(* what the success of create, stop and destroy means on the four engines, *)
(* and that they keep VmPromise.  A command changes only its own machine;  *)
(* Knows says what a command that is the only one knows of it at each of   *)
(* its steps, and Good what a step may do: it suffices to look at one step *)
(* of one engine at a time.                                                *)
(***************************************************************************)
EXTENDS VmLifecycle, TLAPS

\* What the command c, alone with a machine v of engine e, knows of it at l; r
\* tells that it has misread an inspection.
Knows(e, c, l, r, v) ==
  /\ e = "libvirt" /\ c = "create" =>
       /\ l \in {"begin", "network", "copy", "convert", "xml", "define"} => ~v.known /\ v.power = "off"
       /\ l = "convert" => v.disk # "none"
       /\ l \in {"xml", "define"} => v.disk = "whole"
  /\ e = "libvirt" /\ c = "destroy" =>
       /\ l \in {"undefine", "undefineAgain", "remove"} => v.power = "off"
       /\ l = "remove" => ~v.known
  /\ e = "hyperv" /\ c = "start" => (l = "up" => v.known)
  /\ e = "hyperv" /\ c = "destroy" => (l \in {"box", "removeBox"} /\ ~r => ~v.known)
  /\ e = "tart" /\ c = "create" => (l \in {"probe", "probeRunning", "run", "reach"} => v.known)

\* What success of c means, for a command that is alone (a) and for any.
Means(e, c, a, r, w) ==
  /\ a /\ c = "create"  => Exists(e, w) /\ (e \in {"libvirt", "utm"} => w.disk = "whole")
  /\ a /\ c = "destroy" /\ ~r => ~DestroyTargetExists(e, w)
  /\ c = "stop" /\ e # "utm" /\ ~r => ~Running(e, w)

\* A change of what the user finds that the command c may make.
Allowed(e, c, v, w) ==
  StateOf(e, v) = StateOf(e, w) \/ <<StateOf(e, v), StateOf(e, w)>> \in Promise!May[c]

\* A step from l to m, which makes the machine v into w, is in order; r and s
\* tell of a misread inspection before and after it.
Good(e, c, a, l, r, v, m, s, w) ==
  LET known == a /\ Knows(e, c, l, r, v) IN
  /\ known => Knows(e, c, m, s, w)
  /\ known => Allowed(e, c, v, w)
  /\ m = "next" => Means(e, c, known, s, w)

\* The same command goes on; what it has misread it does not put right.
SameCommand(i, j) ==
  /\ j \in Jobs
  /\ j.what = i.what /\ j.vm = i.vm /\ j.rest = i.rest /\ j.alone = i.alone
  /\ i.misread => j.misread

\* The process p takes a step of its command, and nothing but its own place
\* and its own machine changes.
Moves(p) ==
  /\ at'[p] \in Labels
  /\ at' = [at EXCEPT ![p] = at'[p]]
  /\ job' = IF at'[p] = "idle" THEN [job EXCEPT ![p] = NoJob] ELSE [job EXCEPT ![p] = job'[p]]
  /\ at'[p] # "idle" => SameCommand(job[p], job'[p])
  /\ vm'[job[p].vm] \in VmRecords
  /\ vm' = [vm EXCEPT ![job[p].vm] = vm'[job[p].vm]]
  /\ UNCHANGED catalogue

GoodMove(p) ==
  LET v == job[p].vm IN
  /\ Moves(p)
  /\ Good(engine[v], job[p].what, job[p].alone, at[p], job[p].misread, vm[v],
          at'[p], job'[p].misread, vm'[v])

-------------------------------------------------------------------------------
(* The ways a step is written.                                             *)

LEMMA JobOf ==
  ASSUME TypeOK, NEW p \in Procs, at[p] # "idle"
  PROVE  job[p] \in Jobs /\ job[p].vm \in Vms /\ It(p) \in VmRecords
BY DEF TypeOK, Jobs, It

LEMMA NothingIsRecord == Nothing \in VmRecords
BY DEF Nothing, VmRecords

LEMMA NoJobIsNone == NoJob \notin Jobs
BY DEF NoJob, Jobs, Commands

LEMMA GotoLeads ==
  ASSUME TypeOK, NEW p \in Procs, at[p] # "idle", NEW l \in Labels, Goto(p, l)
  PROVE  /\ at'[p] \in {l, "idle"} /\ at' = [at EXCEPT ![p] = at'[p]]
         /\ job' = IF at'[p] = "idle" THEN [job EXCEPT ![p] = NoJob] ELSE [job EXCEPT ![p] = job'[p]]
         /\ at'[p] # "idle" => SameCommand(job[p], job'[p])
         /\ UNCHANGED catalogue
<1>1. PICK m \in {l, "idle"} :
        /\ at' = [at EXCEPT ![p] = m]
        /\ job' = IF m = "idle" THEN [job EXCEPT ![p] = NoJob] ELSE job
        /\ UNCHANGED catalogue
  BY DEF Goto
<1>2. at'[p] = m
  BY <1>1 DEF TypeOK
<1>3. job = [job EXCEPT ![p] = job[p]]
  BY DEF TypeOK
<1>4. m # "idle" => job' = job
  BY <1>1
<1> QED
  BY <1>1, <1>2, <1>3, <1>4, JobOf DEF SameCommand

LEMMA BecomesMoves ==
  ASSUME TypeOK, NEW p \in Procs, at[p] # "idle", NEW w \in VmRecords, NEW l \in Labels,
         Becomes(p, w), Goto(p, l)
  PROVE  Moves(p) /\ at'[p] \in {l, "idle"} /\ vm'[job[p].vm] = w
<1>1. "idle" \in Labels
  BY DEF Labels
<1>2. vm' = [vm EXCEPT ![job[p].vm] = w] /\ vm'[job[p].vm] = w
  BY JobOf DEF TypeOK, Becomes
<1> QED
  BY <1>1, <1>2, GotoLeads DEF Moves

LEMMA ProgramMoves ==
  ASSUME TypeOK, NEW p \in Procs, at[p] # "idle", NEW w \in VmRecords, NEW l \in Labels \ {"idle"},
         Becomes(p, w), ProgramGoesOn(p, l)
  PROVE  Moves(p) /\ at'[p] = l /\ vm'[job[p].vm] = w
<1>1. at'[p] = l /\ at' = [at EXCEPT ![p] = l] /\ job' = job /\ UNCHANGED catalogue
  BY DEF ProgramGoesOn, TypeOK
<1>2. vm' = [vm EXCEPT ![job[p].vm] = w] /\ vm'[job[p].vm] = w
  BY JobOf DEF TypeOK, Becomes
<1>3. job = [job EXCEPT ![p] = job[p]]
  BY DEF TypeOK
<1> QED
  BY <1>1, <1>2, <1>3, JobOf DEF Moves, SameCommand

LEMMA StaysMoves ==
  ASSUME TypeOK, NEW p \in Procs, at[p] # "idle", NEW l \in Labels,
         UNCHANGED vm, Goto(p, l)
  PROVE  Moves(p) /\ at'[p] \in {l, "idle"} /\ vm'[job[p].vm] = It(p)
<1>1. "idle" \in Labels
  BY DEF Labels
<1>2. vm' = [vm EXCEPT ![job[p].vm] = It(p)] /\ vm'[job[p].vm] = It(p) /\ It(p) \in VmRecords
  BY JobOf DEF TypeOK, It
<1> QED
  BY <1>1, <1>2, GotoLeads DEF Moves

LEMMA QueryMoves ==
  ASSUME TypeOK, NEW p \in Procs, at[p] # "idle",
         NEW answers \in SUBSET Labels, NEW onError \in Labels, Query(p, answers, onError)
  PROVE  Moves(p) /\ at'[p] \in answers \cup {onError, "idle"} /\ vm'[job[p].vm] = It(p)
<1>1. PICK l \in answers \cup {onError} : Goto(p, l)
  BY DEF Query
<1> QED
  BY <1>1, StaysMoves DEF Query

LEMMA QueryMovesWithin ==
  ASSUME TypeOK, NEW p \in Procs, at[p] # "idle", NEW S \in SUBSET Labels, "idle" \in S,
         \E answers \in SUBSET S, onError \in S : Query(p, answers, onError)
  PROVE  Moves(p) /\ at'[p] \in S /\ vm'[job[p].vm] = It(p)
BY QueryMoves

LEMMA RunMoves ==
  ASSUME TypeOK, NEW p \in Procs, at[p] # "idle",
         NEW done \in SUBSET VmRecords, NEW partly \in SUBSET VmRecords,
         NEW onSuccess \in Labels, NEW onError \in Labels,
         RunCommand(p, done, partly, onSuccess, onError)
  PROVE  /\ Moves(p)
         /\ \/ at'[p] = onSuccess /\ vm'[job[p].vm] \in done
            \/ (at'[p] = onError \/ at'[p] = "idle") /\ vm'[job[p].vm] \in {It(p)} \cup done \cup partly
<1>1. CASE \E w \in done : Becomes(p, w) /\ Goto(p, onSuccess)
  BY <1>1, BecomesMoves
<1>2. CASE \E w \in {It(p)} \cup done \cup partly : Becomes(p, w) /\ Goto(p, onError)
  BY <1>2, BecomesMoves, JobOf
<1> QED
  BY <1>1, <1>2 DEF RunCommand

LEMMA RunMovesSimply ==
  ASSUME TypeOK, NEW p \in Procs, at[p] # "idle", NEW done \in SUBSET VmRecords,
         NEW onSuccess \in Labels, NEW onError \in Labels,
         RunCommand(p, done, {}, onSuccess, onError)
  PROVE  /\ Moves(p)
         /\ \/ at'[p] = onSuccess /\ vm'[job[p].vm] \in done
            \/ (at'[p] = onError \/ at'[p] = "idle") /\ vm'[job[p].vm] \in {It(p)} \cup done
<1>1. CASE \E w \in done : Becomes(p, w) /\ Goto(p, onSuccess)
  BY <1>1, BecomesMoves
<1>2. CASE \E w \in {It(p)} \cup done : Becomes(p, w) /\ Goto(p, onError)
  BY <1>2, BecomesMoves, JobOf
<1> QED
  BY <1>1, <1>2 DEF RunCommand

LEMMA RunOrFails ==
  ASSUME TypeOK, NEW p \in Procs, at[p] # "idle",
         NEW done \in SUBSET VmRecords, NEW partly \in SUBSET VmRecords, NEW onSuccess \in Labels,
         RunCommand(p, done, partly, onSuccess, "idle")
  PROVE  /\ Moves(p)
         /\ \/ at'[p] = onSuccess /\ vm'[job[p].vm] \in done
            \/ at'[p] = "idle" /\ vm'[job[p].vm] \in {It(p)} \cup done \cup partly
<1>1. "idle" \in Labels
  BY DEF Labels
<1> QED
  BY <1>1, RunMoves

\* An inspection of a Hyper-V machine leads on as if it were missing only when
\* it is, or when this has been misread.
LEMMA InspectMoves ==
  ASSUME TypeOK, NEW p \in Procs, at[p] # "idle",
         NEW missing \in SUBSET (Labels \ {"idle"}), NEW stopped \in SUBSET Labels,
         NEW running \in SUBSET Labels, NEW onError \in Labels,
         HypervInspect(p, missing, stopped, running, onError)
  PROVE  /\ Moves(p) /\ vm'[job[p].vm] = It(p)
         /\ \/ at'[p] \in {onError, "idle"}
            \/ at'[p] \in missing /\ (~HypervExists(It(p)) \/ job'[p].misread)
            \/ at'[p] \in stopped /\ HypervExists(It(p)) /\ ~HypervRunning(It(p))
            \/ at'[p] \in running /\ HypervExists(It(p)) /\ HypervRunning(It(p))
<1>1. CASE Query(p, IF ~HypervExists(It(p)) THEN missing
                    ELSE IF HypervRunning(It(p)) THEN running ELSE stopped, onError)
  <2>1. CASE ~HypervExists(It(p))
    <3>1. Query(p, missing, onError)
      BY <1>1, <2>1
    <3> QED
      BY <2>1, <3>1, QueryMoves
  <2>2. CASE HypervExists(It(p)) /\ HypervRunning(It(p))
    <3>1. Query(p, running, onError)
      BY <1>1, <2>2
    <3> QED
      BY <2>2, <3>1, QueryMoves
  <2>3. CASE HypervExists(It(p)) /\ ~HypervRunning(It(p))
    <3>1. Query(p, stopped, onError)
      BY <1>1, <2>3
    <3> QED
      BY <2>3, <3>1, QueryMoves
  <2> QED
    BY <2>1, <2>2, <2>3
<1>2. ASSUME NEW l \in missing, at' = [at EXCEPT ![p] = l], job' = [job EXCEPT ![p].misread = TRUE],
             UNCHANGED <<vm, catalogue>>
      PROVE  Moves(p) /\ vm'[job[p].vm] = It(p) /\ at'[p] \in missing /\ job'[p].misread
  <2> DEFINE j == [job[p] EXCEPT !.misread = TRUE]
  <2>1. j \in Jobs /\ SameCommand(job[p], j) /\ j.misread
    BY JobOf DEF Jobs, SameCommand
  <2>2. at'[p] = l /\ l # "idle" /\ job'[p] = j /\ job' = [job EXCEPT ![p] = j]
    BY <1>2 DEF TypeOK
  <2>3. vm' = [vm EXCEPT ![job[p].vm] = It(p)] /\ vm'[job[p].vm] = It(p) /\ It(p) \in VmRecords
    BY <1>2, JobOf DEF TypeOK, It
  <2> HIDE DEF j
  <2> QED
    BY <1>2, <2>1, <2>2, <2>3 DEF Moves
<1> QED
  BY <1>1, <1>2 DEF HypervInspect

-------------------------------------------------------------------------------
(* libvirt.                                                                *)

LEMMA LibvirtCreateGood ==
  ASSUME TypeOK, NEW p \in Procs, Does(p, "libvirt", "create"), LibvirtStep(p)
  PROVE  GoodMove(p)
<1> DEFINE v == It(p)
           w == vm'[job[p].vm]
<1>0. at[p] # "idle" /\ v \in VmRecords /\ engine[job[p].vm] = "libvirt" /\ job[p].what = "create"
  BY JobOf DEF Does
<1> USE DEF GoodMove, Good, Knows, It
<1>1. CASE LibvirtPrepare(p)
  <2>1. Moves(p) /\ at'[p] \in {"network", "idle"} /\ w = v
    BY <1>0, <1>1, QueryMoves DEF LibvirtPrepare, Labels
  <2> QED
    BY <1>0, <1>1, <2>1 DEF LibvirtPrepare, At, Allowed
<1>2. CASE LibvirtNetworkReady(p)
  <2>1. at[p] = "network" /\ Query(p, {"copy"}, "idle")
    BY <1>0, <1>2 DEF LibvirtNetworkReady, At, Does
  <2>2. Moves(p) /\ at'[p] \in {"copy", "idle"} /\ w = v
    BY <1>0, <2>1, QueryMoves DEF Labels
  <2> QED
    BY <1>0, <2>1, <2>2 DEF Allowed
<1>3. CASE LibvirtCopy(p)
  <2>1. CASE Fail(p) /\ UNCHANGED vm
    <3>1. Moves(p) /\ at'[p] = "idle" /\ w = v
      BY <1>0, <2>1, StaysMoves DEF Fail, Labels
    <3> QED
      BY <1>0, <3>1 DEF Allowed
  <2>2. CASE ~DiskLocked(p) /\ Becomes(p, [v EXCEPT !.disk = "partial"]) /\ ProgramGoesOn(p, "convert")
    <3>1. [v EXCEPT !.disk = "partial"] \in VmRecords
      BY <1>0 DEF VmRecords
    <3>2. Moves(p) /\ at'[p] = "convert" /\ w = [v EXCEPT !.disk = "partial"]
      BY <1>0, <2>2, <3>1, ProgramMoves DEF Labels
    <3> QED
      BY <1>0, <1>3, <2>2, <3>2 DEF LibvirtCopy, At, DiskLocked, Allowed, StateOf, DestroyTargetExists,
         Exists, LibvirtExists, VmRecords, Promise!May
  <2> QED
    BY <1>3, <2>1, <2>2 DEF LibvirtCopy
<1>4. CASE LibvirtConvert(p)
  <2>1. CASE UNCHANGED vm /\ Fail(p)
    <3>1. Moves(p) /\ at'[p] = "idle" /\ w = v
      BY <1>0, <2>1, StaysMoves DEF Fail, Labels
    <3> QED
      BY <1>0, <3>1 DEF Allowed
  <2>2. ASSUME NEW d \in IF v.disk = "none" THEN {"none"}
                         ELSE IF job[p].alone THEN {"whole"} ELSE {v.disk, "whole"},
               Becomes(p, [v EXCEPT !.disk = d]), Goto(p, "xml")
        PROVE  GoodMove(p)
    <3>1. [v EXCEPT !.disk = d] \in VmRecords
      BY <1>0 DEF VmRecords
    <3>2. Moves(p) /\ at'[p] \in {"xml", "idle"} /\ w = [v EXCEPT !.disk = d]
      BY <1>0, <2>2, <3>1, BecomesMoves DEF Labels
    <3> QED
      BY <1>0, <1>4, <2>2, <3>2 DEF LibvirtConvert, At, Allowed, StateOf, DestroyTargetExists,
         Exists, LibvirtExists, VmRecords, Promise!May
  <2> QED
    BY <1>4, <2>1, <2>2 DEF LibvirtConvert
<1>5. CASE LibvirtXml(p)
  <2>1. CASE UNCHANGED vm /\ Goto(p, "define")
    <3>1. Moves(p) /\ at'[p] \in {"define", "idle"} /\ w = v
      BY <1>0, <2>1, StaysMoves DEF Labels
    <3> QED
      BY <1>0, <1>5, <3>1 DEF LibvirtXml, At, Allowed
  <2>2. ASSUME NEW x \in LibvirtDiscard(p, v), Becomes(p, x), Fail(p)
        PROVE  GoodMove(p)
    <3>1. x \in VmRecords
      BY <1>0 DEF LibvirtDiscard, VmRecords
    <3>2. Moves(p) /\ at'[p] = "idle" /\ w = x
      BY <1>0, <2>2, <3>1, BecomesMoves DEF Fail, Labels
    <3> QED
      BY <1>0, <1>5, <2>2, <3>2 DEF LibvirtXml, At, LibvirtDiscard, Allowed, StateOf, DestroyTargetExists,
         Exists, LibvirtExists, VmRecords, Promise!May
  <2> QED
    BY <1>5, <2>1, <2>2 DEF LibvirtXml
<1>6. CASE LibvirtDefine(p)
  <2>1. ASSUME NEW x \in VirshDefine(v), Becomes(p, x), Succeed(p)
        PROVE  GoodMove(p)
    <3>1. x \in VmRecords
      BY <1>0 DEF VirshDefine, VmRecords
    <3>2. Moves(p) /\ at'[p] \in {"next", "idle"} /\ w = x
      BY <1>0, <2>1, <3>1, BecomesMoves DEF Succeed, Labels
    <3> QED
      BY <1>0, <1>6, <2>1, <3>2 DEF LibvirtDefine, At, VirshDefine, Means, Allowed, StateOf,
         DestroyTargetExists, Exists, LibvirtExists, VmRecords, Promise!May
  <2>2. ASSUME NEW y \in {v} \cup VirshDefine(v), NEW x \in LibvirtDiscard(p, y), Becomes(p, x), Fail(p)
        PROVE  GoodMove(p)
    <3>a. y \in VmRecords
      BY <1>0 DEF VirshDefine, VmRecords
    <3>1. x \in VmRecords
      BY <3>a DEF LibvirtDiscard, VmRecords
    <3>2. Moves(p) /\ at'[p] = "idle" /\ w = x
      BY <1>0, <2>2, <3>1, BecomesMoves DEF Fail, Labels
    <3> QED
      BY <1>0, <1>6, <2>2, <3>2 DEF LibvirtDefine, At, LibvirtDiscard, VirshDefine, Allowed, StateOf,
         DestroyTargetExists, Exists, LibvirtExists, VmRecords, Promise!May
  <2> QED
    BY <1>6, <2>1, <2>2 DEF LibvirtDefine
<1> QED
  BY <1>0, <1>1, <1>2, <1>3, <1>4, <1>5, <1>6 DEF LibvirtStep, LibvirtStart, LibvirtVirshStart,
     LibvirtStopCommand, LibvirtDestroy, LibvirtDestroyStop, LibvirtUndefine, LibvirtRemoveDisk, At, Does

LEMMA LibvirtStartGood ==
  ASSUME TypeOK, NEW p \in Procs, Does(p, "libvirt", "start"), LibvirtStep(p)
  PROVE  GoodMove(p)
<1> DEFINE v == It(p)
           w == vm'[job[p].vm]
<1>0. at[p] # "idle" /\ v \in VmRecords /\ engine[job[p].vm] = "libvirt" /\ job[p].what = "start"
  BY JobOf DEF Does
<1> USE DEF GoodMove, Good, Knows, It
<1>1. CASE LibvirtNetworkReady(p)
  <2>1. at[p] = "network" /\ Query(p, {"virsh"}, "idle")
    BY <1>0, <1>1 DEF LibvirtNetworkReady, At, Does
  <2>2. Moves(p) /\ at'[p] \in {"virsh", "idle"} /\ w = v
    BY <1>0, <2>1, QueryMoves DEF Labels
  <2> QED
    BY <1>0, <2>1, <2>2 DEF Allowed
<1>2. CASE LibvirtStart(p)
  <2>1. Moves(p) /\ at'[p] \in {"next", "network", "idle"} /\ w = v
    BY <1>0, <1>2, QueryMoves DEF LibvirtStart, Labels
  <2> QED
    BY <1>0, <2>1 DEF Allowed, Means
<1>3. CASE LibvirtVirshStart(p)
  <2>1. VirshStart(v) \in SUBSET VmRecords
    BY <1>0 DEF VirshStart, VmRecords
  <2>2. RunCommand(p, VirshStart(v), {}, "next", "idle")
    BY <1>3 DEF LibvirtVirshStart
  <2>3. "next" \in Labels /\ "idle" \in Labels
    BY DEF Labels
  <2>4. Moves(p) /\ at'[p] \in {"next", "idle"} /\ w \in {v} \cup VirshStart(v)
    BY <1>0, <2>1, <2>2, <2>3, RunMovesSimply
  <2> QED
    BY <1>0, <2>4 DEF VirshStart, Means, Allowed, StateOf, DestroyTargetExists, Exists, LibvirtExists,
       VmRecords, Promise!May
<1> QED
  BY <1>0, <1>1, <1>2, <1>3 DEF LibvirtStep, LibvirtPrepare, LibvirtCopy, LibvirtConvert, LibvirtXml,
     LibvirtDefine, LibvirtStopCommand, LibvirtDestroy, LibvirtDestroyStop, LibvirtUndefine,
     LibvirtRemoveDisk, At, Does

\* Stopping leads on only from a machine that is off, and only stops it.
LEMMA LibvirtStopMoves ==
  ASSUME TypeOK, NEW p \in Procs, at[p] # "idle", NEW onStopped \in {"next", "undefine"},
         LibvirtStop(p, onStopped)
  PROVE  /\ Moves(p)
         /\ at'[p] \in {"shutdown", "settle", "force", "verify", "idle", onStopped}
         /\ at'[p] = onStopped => It(p).power = "off" /\ vm'[job[p].vm] = It(p)
         /\ \/ vm'[job[p].vm] = It(p)
            \/ /\ It(p).power # "off"
               /\ \E s \in {"between", "off"} : vm'[job[p].vm] = [It(p) EXCEPT !.power = s]
<1>0. It(p) \in VmRecords
  BY JobOf
<1>1. CASE at[p] \in {"stop", "settle", "verify"}
  <2>1. \E answers \in SUBSET {"shutdown", onStopped}, onError \in {"idle", "force"} :
          /\ Query(p, answers, onError)
          /\ onStopped \in answers => It(p).power = "off"
    BY <1>1 DEF LibvirtStop, LibvirtExists, LibvirtRunning
  <2> QED
    BY <2>1, QueryMoves DEF Labels
<1>2. CASE at[p] \in {"shutdown", "force"}
  <2>1. /\ VirshShutdown(It(p)) \in SUBSET VmRecords
        /\ VirshDestroy(It(p)) \in SUBSET VmRecords
    BY <1>0 DEF VirshShutdown, VirshDestroy, VmRecords
  <2>2. \/ RunCommand(p, VirshShutdown(It(p)), {}, "settle", "force")
        \/ RunCommand(p, VirshDestroy(It(p)), {}, "verify", "idle")
    BY <1>2 DEF LibvirtStop
  <2>3. {"settle", "force", "verify", "idle"} \subseteq Labels
    BY DEF Labels
  <2>4. /\ Moves(p) /\ at'[p] \in {"settle", "force", "verify", "idle"}
        /\ vm'[job[p].vm] \in {It(p)} \cup VirshShutdown(It(p)) \cup VirshDestroy(It(p))
    BY <2>1, <2>2, <2>3, RunMovesSimply
  <2> QED
    BY <2>4 DEF VirshShutdown, VirshDestroy
<1> QED
  BY <1>1, <1>2 DEF LibvirtStop

LEMMA LibvirtStopGood ==
  ASSUME TypeOK, NEW p \in Procs, Does(p, "libvirt", "stop"), LibvirtStep(p)
  PROVE  GoodMove(p)
<1> DEFINE v == It(p)
           w == vm'[job[p].vm]
<1>0. at[p] # "idle" /\ v \in VmRecords /\ engine[job[p].vm] = "libvirt" /\ job[p].what = "stop"
  BY JobOf DEF Does
<1>1. LibvirtStopCommand(p)
  BY <1>0 DEF LibvirtStep, LibvirtPrepare, LibvirtNetworkReady, LibvirtCopy, LibvirtConvert, LibvirtXml,
     LibvirtDefine, LibvirtStart, LibvirtVirshStart, LibvirtDestroy, LibvirtDestroyStop, LibvirtUndefine,
     LibvirtRemoveDisk, At, Does
<1> USE DEF GoodMove, Good, Knows, It
<1>2. CASE UNCHANGED vm /\ Goto(p, "stop")
  <2>1. Moves(p) /\ at'[p] \in {"stop", "idle"} /\ w = v
    BY <1>0, <1>2, StaysMoves DEF Labels
  <2> QED
    BY <1>0, <2>1 DEF Allowed
<1>3. CASE LibvirtStop(p, "next")
  <2>1. /\ Moves(p) /\ at'[p] \in {"shutdown", "settle", "force", "verify", "idle", "next"}
        /\ at'[p] = "next" => v.power = "off" /\ w = v
        /\ w = v \/ (v.power # "off" /\ \E s \in {"between", "off"} : w = [v EXCEPT !.power = s])
    BY <1>0, <1>3, LibvirtStopMoves
  <2> QED
    BY <1>0, <2>1 DEF Means, Running, LibvirtRunning, HypervRunning, UtmRunning,
     TartRunning, Allowed, StateOf, DestroyTargetExists, Exists, LibvirtExists, VmRecords, Promise!May
<1> QED
  BY <1>1, <1>2, <1>3 DEF LibvirtStopCommand

LEMMA LibvirtDestroyGood ==
  ASSUME TypeOK, NEW p \in Procs, Does(p, "libvirt", "destroy"), LibvirtStep(p)
  PROVE  GoodMove(p)
<1> DEFINE v == It(p)
           w == vm'[job[p].vm]
<1>0. at[p] # "idle" /\ v \in VmRecords /\ engine[job[p].vm] = "libvirt" /\ job[p].what = "destroy"
  BY JobOf DEF Does
<1> USE DEF GoodMove, Good, Knows, It
<1>1. CASE LibvirtDestroy(p)
  <2>1. Moves(p) /\ at'[p] \in {"remove", "stop", "undefine", "idle"} /\ w = v
    BY <1>0, <1>1, QueryMoves DEF LibvirtDestroy, Labels
  <2>2. /\ at'[p] = "remove" => ~LibvirtExists(v)
        /\ at'[p] = "undefine" => ~LibvirtRunning(v)
    BY <1>0, <1>1, <2>1, QueryMoves DEF LibvirtDestroy, Labels
  <2> QED
    BY <1>0, <2>1, <2>2 DEF LibvirtExists, LibvirtRunning, Allowed
<1>2. CASE LibvirtDestroyStop(p)
  <2>1. LibvirtStop(p, "undefine")
    BY <1>2 DEF LibvirtDestroyStop
  <2>2. /\ Moves(p) /\ at'[p] \in {"shutdown", "settle", "force", "verify", "idle", "undefine"}
        /\ at'[p] = "undefine" => v.power = "off" /\ w = v
        /\ w = v \/ (v.power # "off" /\ \E s \in {"between", "off"} : w = [v EXCEPT !.power = s])
    BY <1>0, <2>1, LibvirtStopMoves
  <2> QED
    BY <1>0, <2>2 DEF Allowed, StateOf, DestroyTargetExists, Exists, LibvirtExists,
       VmRecords, Promise!May, Promise!States
<1>3. CASE LibvirtUndefine(p)
  <2>1. VirshUndefine(v) \in SUBSET VmRecords
    BY <1>0 DEF VirshUndefine, VmRecords
  <2>2. at[p] \in {"undefine", "undefineAgain"}
    BY <1>3 DEF LibvirtUndefine, At
  <2>3. \E onError \in {"undefineAgain", "idle"} : RunCommand(p, VirshUndefine(v), {}, "remove", onError)
    BY <1>3 DEF LibvirtUndefine
  <2>4. {"remove", "undefineAgain", "idle"} \subseteq Labels
    BY DEF Labels
  <2>5. /\ Moves(p) /\ at'[p] \in {"remove", "undefineAgain", "idle"}
        /\ w \in {v} \cup VirshUndefine(v)
        /\ at'[p] = "remove" => w \in VirshUndefine(v)
    <3>1. PICK onError \in {"undefineAgain", "idle"} :
            RunCommand(p, VirshUndefine(v), {}, "remove", onError)
      BY <2>3
    <3> HIDE DEF v
    <3>2. /\ Moves(p)
          /\ \/ at'[p] = "remove" /\ w \in VirshUndefine(v)
             \/ (at'[p] = onError \/ at'[p] = "idle") /\ w \in {v} \cup VirshUndefine(v)
      BY <1>0, <2>1, <2>4, <3>1, RunMovesSimply DEF v
    <3> QED
      BY <3>2
  <2> QED
    BY <1>0, <2>2, <2>5 DEF VirshUndefine, Allowed, StateOf, DestroyTargetExists, Exists, LibvirtExists,
       VmRecords, Promise!May, Promise!States
<1>4. CASE LibvirtRemoveDisk(p)
  <2>1. CASE UNCHANGED vm /\ Fail(p)
    <3>1. Moves(p) /\ at'[p] = "idle" /\ w = v
      BY <1>0, <2>1, StaysMoves DEF Fail, Labels
    <3> QED
      BY <1>0, <3>1 DEF Allowed
  <2>2. CASE Becomes(p, [v EXCEPT !.disk = "none"]) /\ Succeed(p)
    <3>1. [v EXCEPT !.disk = "none"] \in VmRecords
      BY <1>0 DEF VmRecords
    <3>2. Moves(p) /\ at'[p] \in {"next", "idle"} /\ w = [v EXCEPT !.disk = "none"]
      BY <1>0, <2>2, <3>1, BecomesMoves DEF Succeed, Labels
    <3> QED
      BY <1>0, <1>4, <3>2 DEF LibvirtRemoveDisk, At, Means, Allowed, StateOf, DestroyTargetExists, Exists,
         LibvirtExists, VmRecords, Promise!May, Promise!States
  <2> QED
    BY <1>4, <2>1, <2>2 DEF LibvirtRemoveDisk
<1> QED
  BY <1>0, <1>1, <1>2, <1>3, <1>4 DEF LibvirtStep, LibvirtPrepare, LibvirtNetworkReady, LibvirtCopy,
     LibvirtConvert, LibvirtXml, LibvirtDefine, LibvirtStart, LibvirtVirshStart, LibvirtStopCommand, At, Does

-------------------------------------------------------------------------------
(* Hyper-V.                                                                *)

LEMMA VagrantUpMakes ==
  ASSUME NEW v \in VmRecords
  PROVE  /\ VagrantUp(v) \in SUBSET VmRecords /\ VagrantUpFailed(v) \in SUBSET VmRecords
         /\ \A w \in VagrantUp(v) \cup VagrantUpFailed(v) : w.known /\ (v.known => w.power = "on")
         /\ \A w \in VagrantUp(v) : w.known
BY DEF VagrantUp, VagrantUpFailed, VmRecords

LEMMA VagrantUpAllowed ==
  ASSUME NEW v \in VmRecords, NEW w \in VmRecords, w.known, v.known => w.power = "on"
  PROVE  Allowed("hyperv", "create", v, w) /\ (v.known => Allowed("hyperv", "start", v, w))
BY DEF Allowed, StateOf, VmRecords, Promise!May

LEMMA HypervDestroyAllowed ==
  ASSUME NEW v \in VmRecords, NEW w \in VmRecords, w = [v EXCEPT !.power = "off"] \/ ~w.known
  PROVE  Allowed("hyperv", "destroy", v, w)
BY DEF Allowed, StateOf, VmRecords, Promise!May, Promise!States

LEMMA HypervCreateGood ==
  ASSUME TypeOK, NEW p \in Procs, Does(p, "hyperv", "create"), HypervStep(p)
  PROVE  GoodMove(p)
<1> DEFINE v == It(p)
           w == vm'[job[p].vm]
<1>0. at[p] # "idle" /\ v \in VmRecords /\ engine[job[p].vm] = "hyperv" /\ job[p].what = "create"
  BY JobOf DEF Does
<1> USE DEF GoodMove, Good, Knows, It
<1>1. CASE HypervBoxAdd(p)
  <2>1. VagrantBoxAdd(v) \in SUBSET VmRecords
    BY <1>0 DEF VagrantBoxAdd, VmRecords
  <2>2. RunCommand(p, VagrantBoxAdd(v), {}, "up", "idle")
    BY <1>1 DEF HypervBoxAdd
  <2>l. "idle" \in Labels /\ "up" \in Labels
    BY DEF Labels
  <2>3. Moves(p) /\ at'[p] \in {"up", "idle"} /\ w \in {v} \cup VagrantBoxAdd(v)
    BY <1>0, <2>1, <2>2, <2>l, RunMovesSimply
  <2> QED
    BY <1>0, <2>3 DEF VagrantBoxAdd, Allowed, StateOf, DestroyTargetExists, Exists, HypervExists, VmRecords,
       Promise!May
<1>2. CASE HypervUp(p)
  <2>1. VagrantUp(v) \in SUBSET VmRecords /\ VagrantUpFailed(v) \in SUBSET VmRecords
    BY <1>0, VagrantUpMakes
  <2>2. RunCommand(p, VagrantUp(v), VagrantUpFailed(v), "next", "idle")
    BY <1>2 DEF HypervUp
  <2>l. "idle" \in Labels /\ "next" \in Labels
    BY DEF Labels
  <2>3. /\ Moves(p)
        /\ \/ at'[p] = "next" /\ w \in VagrantUp(v)
           \/ at'[p] = "idle" /\ w \in {v} \cup VagrantUp(v) \cup VagrantUpFailed(v)
    BY <1>0, <2>1, <2>2, <2>l, RunOrFails
  <2>4. w = v \/ (w \in VmRecords /\ w.known /\ (v.known => w.power = "on"))
    BY <1>0, <2>1, <2>3, VagrantUpMakes
  <2>5. at'[p] = "next" => w.known
    BY <1>0, <2>3, VagrantUpMakes
  <2>6. Allowed("hyperv", "create", v, w)
    BY <1>0, <2>4, VagrantUpAllowed DEF Allowed
  <2> QED
    BY <1>0, <2>3, <2>5, <2>6 DEF Means, Exists, HypervExists
<1> QED
  BY <1>0, <1>1, <1>2 DEF HypervStep, HypervStart, HypervStop, HypervDestroyMachine, HypervRemoveBox, At, Does

LEMMA HypervStartGood ==
  ASSUME TypeOK, NEW p \in Procs, Does(p, "hyperv", "start"), HypervStep(p)
  PROVE  GoodMove(p)
<1> DEFINE v == It(p)
           w == vm'[job[p].vm]
<1>0. at[p] # "idle" /\ v \in VmRecords /\ engine[job[p].vm] = "hyperv" /\ job[p].what = "start"
  BY JobOf DEF Does
<1>1. HypervStart(p)
  BY <1>0 DEF HypervStep, HypervBoxAdd, HypervUp, HypervStop, HypervDestroyMachine, HypervRemoveBox, At, Does
<1> USE DEF GoodMove, Good, Knows, It
<1>2. CASE at[p] = "begin"
  <2>1. HypervInspect(p, {}, {"up"}, {"next"}, "idle")
    BY <1>1, <1>2 DEF HypervStart, At
  <2>l. {} \in SUBSET (Labels \ {"idle"}) /\ {"up"} \in SUBSET Labels /\ {"next"} \in SUBSET Labels
        /\ "idle" \in Labels
    BY DEF Labels
  <2>2. Moves(p) /\ at'[p] \in {"next", "up", "idle"} /\ w = v /\ (at'[p] = "up" => HypervExists(v))
    <3>1. /\ Moves(p) /\ vm'[job[p].vm] = It(p)
          /\ \/ at'[p] \in {"idle", "idle"}
             \/ at'[p] \in {} /\ (~HypervExists(v) \/ job'[p].misread)
             \/ at'[p] \in {"up"} /\ HypervExists(It(p)) /\ ~HypervRunning(It(p))
             \/ at'[p] \in {"next"} /\ HypervExists(It(p)) /\ HypervRunning(It(p))
      <4> HIDE DEF v, w
      <4> QED
        BY <1>0, <2>1, <2>l, InspectMoves, Zenon
    <3> QED
      BY <3>1
  <2> QED
    BY <1>0, <2>2 DEF HypervExists, Means, Allowed
<1>3. CASE at[p] = "up"
  <2>1. VagrantUp(v) \in SUBSET VmRecords /\ VagrantUpFailed(v) \in SUBSET VmRecords
    BY <1>0, VagrantUpMakes
  <2>2. RunCommand(p, VagrantUp(v), VagrantUpFailed(v), "next", "idle")
    BY <1>1, <1>3 DEF HypervStart, At
  <2>l. "idle" \in Labels /\ "next" \in Labels
    BY DEF Labels
  <2>3. /\ Moves(p)
        /\ \/ at'[p] = "next" /\ w \in VagrantUp(v)
           \/ at'[p] = "idle" /\ w \in {v} \cup VagrantUp(v) \cup VagrantUpFailed(v)
    BY <1>0, <2>1, <2>2, <2>l, RunOrFails
  <2>4. w = v \/ (w \in VmRecords /\ w.known /\ (v.known => w.power = "on"))
    BY <1>0, <2>1, <2>3, VagrantUpMakes
  <2>5. v.known => Allowed("hyperv", "start", v, w)
    BY <1>0, <2>4, VagrantUpAllowed DEF Allowed
  <2> QED
    BY <1>0, <1>3, <2>3, <2>5 DEF Means
<1> QED
  BY <1>1, <1>2, <1>3 DEF HypervStart, At

LEMMA HypervStopGood ==
  ASSUME TypeOK, NEW p \in Procs, Does(p, "hyperv", "stop"), HypervStep(p)
  PROVE  GoodMove(p)
<1> DEFINE v == It(p)
           w == vm'[job[p].vm]
<1>0. at[p] # "idle" /\ v \in VmRecords /\ engine[job[p].vm] = "hyperv" /\ job[p].what = "stop"
  BY JobOf DEF Does
<1>1. HypervStop(p)
  BY <1>0 DEF HypervStep, HypervBoxAdd, HypervUp, HypervStart, HypervDestroyMachine, HypervRemoveBox, At, Does
<1> USE DEF GoodMove, Good, Knows, It
<1>2. CASE at[p] \in {"begin", "settle", "verify"}
  <2>1. \E running \in SUBSET {"halt"}, onError \in {"idle", "force"} :
          HypervInspect(p, {"next"}, {"next"}, running, onError)
    BY <1>1, <1>2 DEF HypervStop, At
  <2>2. /\ Moves(p) /\ at'[p] \in {"halt", "next", "idle", "force"} /\ w = v
        /\ at'[p] = "next" => ~HypervRunning(v) \/ job'[p].misread
    <3>1. PICK running \in SUBSET {"halt"}, onError \in {"idle", "force"} :
            HypervInspect(p, {"next"}, {"next"}, running, onError)
      BY <2>1
    <3>2. {"next"} \in SUBSET (Labels \ {"idle"}) /\ running \in SUBSET Labels /\ onError \in Labels
      BY DEF Labels
    <3>3. /\ Moves(p) /\ w = v
          /\ \/ at'[p] \in {onError, "idle"}
             \/ at'[p] \in {"next"} /\ (~HypervExists(v) \/ job'[p].misread)
             \/ at'[p] \in {"next"} /\ HypervExists(v) /\ ~HypervRunning(v)
             \/ at'[p] \in running /\ HypervExists(v) /\ HypervRunning(v)
      BY <1>0, <3>1, <3>2, InspectMoves
    <3> QED
      BY <3>3 DEF HypervExists, HypervRunning
  <2> QED
    BY <1>0, <2>2 DEF Means, Running, Allowed
<1>3. CASE at[p] = "halt"
  <2>1. GracefulStop(v) \in SUBSET VmRecords
    BY <1>0 DEF GracefulStop, VmRecords
  <2>2. RunCommand(p, GracefulStop(v), {}, "settle", "settle")
    BY <1>1, <1>3 DEF HypervStop, At
  <2>l. "settle" \in Labels
    BY DEF Labels
  <2>3. Moves(p) /\ at'[p] \in {"settle", "idle"} /\ w \in {v} \cup GracefulStop(v)
    BY <1>0, <2>1, <2>2, <2>l, RunMovesSimply
  <2> QED
    BY <1>0, <2>3 DEF GracefulStop, Allowed, StateOf, VmRecords, Promise!May
<1>4. CASE at[p] = "force"
  <2>1. VagrantHaltForce(v) \in SUBSET VmRecords
    BY <1>0 DEF VagrantHaltForce, VmRecords
  <2>2. RunCommand(p, VagrantHaltForce(v), {}, "verify", "idle")
    BY <1>1, <1>4 DEF HypervStop, At
  <2>l. "idle" \in Labels /\ "verify" \in Labels
    BY DEF Labels
  <2>3. Moves(p) /\ at'[p] \in {"verify", "idle"} /\ w \in {v} \cup VagrantHaltForce(v)
    BY <1>0, <2>1, <2>2, <2>l, RunMovesSimply
  <2> QED
    BY <1>0, <2>3 DEF VagrantHaltForce, Allowed, StateOf, VmRecords, Promise!May
<1> QED
  BY <1>1, <1>2, <1>3, <1>4 DEF HypervStop, At

LEMMA HypervDestroyGood ==
  ASSUME TypeOK, NEW p \in Procs, Does(p, "hyperv", "destroy"), HypervStep(p)
  PROVE  GoodMove(p)
<1> DEFINE v == It(p)
           w == vm'[job[p].vm]
<1>0. at[p] # "idle" /\ v \in VmRecords /\ engine[job[p].vm] = "hyperv" /\ job[p].what = "destroy"
  BY JobOf DEF Does
<1>1. HypervDestroyMachine(p) \/ HypervRemoveBox(p)
  BY <1>0 DEF HypervStep, HypervBoxAdd, HypervUp, HypervStart, HypervStop, At, Does
<1> USE DEF GoodMove, Good, Knows, It
<1>2. CASE at[p] = "begin"
  <2>1. HypervInspect(p, {"box"}, {"machine"}, {"machine"}, "idle")
    BY <1>1, <1>2 DEF HypervDestroyMachine, HypervRemoveBox, At
  <2>l. {"box"} \in SUBSET (Labels \ {"idle"}) /\ {"machine"} \in SUBSET Labels /\ "idle" \in Labels
    BY DEF Labels
  <2>2. /\ Moves(p) /\ at'[p] \in {"machine", "box", "idle"} /\ w = v
        /\ at'[p] = "box" => ~HypervExists(v) \/ job'[p].misread
    BY <1>0, <2>1, <2>l, InspectMoves
  <2> QED
    BY <1>0, <2>2 DEF HypervExists, Allowed
<1>3. CASE at[p] = "machine"
  <2> DEFINE partly == {[v EXCEPT !.power = "off"]}
  <2>1. /\ VagrantDestroy(v) \in SUBSET VmRecords
        /\ partly \in SUBSET VmRecords
    BY <1>0 DEF VagrantDestroy, VmRecords
  <2>2. RunCommand(p, VagrantDestroy(v), partly, "box", "idle")
    BY <1>1, <1>3 DEF HypervDestroyMachine, HypervRemoveBox, At
  <2> HIDE DEF partly
  <2>l. "box" \in Labels /\ "idle" \in Labels
    BY DEF Labels
  <2>3. /\ Moves(p)
        /\ \/ at'[p] = "box" /\ w \in VagrantDestroy(v)
           \/ at'[p] = "idle" /\ w \in {v} \cup VagrantDestroy(v) \cup partly
    BY <1>0, <2>1, <2>2, <2>l, RunOrFails
  <2>4. Allowed("hyperv", "destroy", v, w)
    <3>1. w = v \/ (w \in VmRecords /\ (w = [v EXCEPT !.power = "off"] \/ ~w.known))
      BY <1>0, <2>1, <2>3 DEF partly, VagrantDestroy, VmRecords
    <3> QED
      BY <1>0, <3>1, HypervDestroyAllowed DEF Allowed
  <2>5. at'[p] = "box" => ~w.known
    BY <1>0, <2>3 DEF VagrantDestroy, VmRecords
  <2> QED
    BY <1>0, <2>3, <2>4, <2>5
<1>4. CASE at[p] = "box"
  <2>1. Query(p, IF v.box THEN {"removeBox"} ELSE {"next"}, "idle")
    BY <1>1, <1>4 DEF HypervDestroyMachine, HypervRemoveBox, At
  <2>2. Moves(p) /\ at'[p] \in {"removeBox", "next", "idle"} /\ w = v /\ (at'[p] = "next" => ~v.box)
    BY <1>0, <2>1, QueryMoves DEF Labels
  <2>3. at'[p] # "idle" => (job[p].misread => job'[p].misread)
    BY <2>2 DEF Moves, SameCommand
  <2> QED
    BY <1>0, <1>4, <2>2, <2>3 DEF Means, DestroyTargetExists, Exists, HypervExists, Allowed
<1>5. CASE at[p] = "removeBox"
  <2>1. VagrantBoxRemove(v) \in SUBSET VmRecords
    BY <1>0 DEF VagrantBoxRemove, VmRecords
  <2>2. RunCommand(p, VagrantBoxRemove(v), {}, "next", "idle")
    BY <1>1, <1>5 DEF HypervDestroyMachine, HypervRemoveBox, At
  <2>l. "idle" \in Labels /\ "next" \in Labels
    BY DEF Labels
  <2>3. /\ Moves(p)
        /\ \/ at'[p] = "next" /\ w \in VagrantBoxRemove(v)
           \/ at'[p] = "idle" /\ w \in {v} \cup VagrantBoxRemove(v)
    BY <1>0, <2>1, <2>2, <2>l, RunMovesSimply
  <2>4. at'[p] # "idle" => (job[p].misread => job'[p].misread)
    BY <2>3 DEF Moves, SameCommand
  <2> QED
    BY <1>0, <1>5, <2>3, <2>4 DEF VagrantBoxRemove, Means, DestroyTargetExists, Exists, HypervExists, Allowed,
       StateOf, VmRecords, Promise!May, Promise!States
<1> QED
  BY <1>1, <1>2, <1>3, <1>4, <1>5 DEF HypervDestroyMachine, HypervRemoveBox, At

-------------------------------------------------------------------------------
(* UTM.                                                                    *)

LEMMA UtmGood ==
  ASSUME TypeOK, NEW p \in Procs, NEW c \in Commands, Does(p, "utm", c), UtmStep(p)
  PROVE  GoodMove(p)
<1> DEFINE v == It(p)
           w == vm'[job[p].vm]
<1>0. at[p] # "idle" /\ v \in VmRecords /\ engine[job[p].vm] = "utm" /\ job[p].what = c
  BY JobOf DEF Does
<1> USE DEF GoodMove, Good, Knows, It
<1>1. CASE UtmCreateBundle(p)
  <2>0. c = "create"
    BY <1>0, <1>1 DEF UtmCreateBundle, At, Does
  <2>1. CASE UNCHANGED vm /\ Fail(p)
    <3>1. Moves(p) /\ at'[p] = "idle" /\ w = v
      BY <1>0, <2>1, StaysMoves DEF Fail, Labels
    <3> QED
      BY <1>0, <3>1 DEF Allowed
  <2>2. CASE Becomes(p, [v EXCEPT !.disk = IF @ = "none" THEN "partial" ELSE @]) /\ ProgramGoesOn(p, "fill")
    <3>1. [v EXCEPT !.disk = IF @ = "none" THEN "partial" ELSE @] \in VmRecords
      BY <1>0 DEF VmRecords
    <3>2. Moves(p) /\ at'[p] = "fill" /\ w = [v EXCEPT !.disk = IF @ = "none" THEN "partial" ELSE @]
      BY <1>0, <2>2, <3>1, ProgramMoves DEF Labels
    <3>3. Allowed("utm", "create", v, w)
      BY <1>0, <3>2 DEF Allowed, StateOf, VmRecords, Promise!May
    <3> QED
      BY <1>0, <2>0, <3>2, <3>3
  <2> QED
    BY <1>1, <2>1, <2>2 DEF UtmCreateBundle
<1>2. CASE UtmFillBundle(p)
  <2>0. c = "create"
    BY <1>0, <1>2 DEF UtmFillBundle, At, Does
  <2>1. CASE UNCHANGED vm /\ Fail(p)
    <3>1. Moves(p) /\ at'[p] = "idle" /\ w = v
      BY <1>0, <2>1, StaysMoves DEF Fail, Labels
    <3> QED
      BY <1>0, <3>1 DEF Allowed
  <2>2. CASE v.disk # "none" /\ Becomes(p, [v EXCEPT !.disk = "whole"]) /\ Succeed(p)
    <3>1. [v EXCEPT !.disk = "whole"] \in VmRecords
      BY <1>0 DEF VmRecords
    <3>2. Moves(p) /\ at'[p] \in {"next", "idle"} /\ w = [v EXCEPT !.disk = "whole"]
      BY <1>0, <2>2, <3>1, BecomesMoves DEF Succeed, Labels
    <3>3. Allowed("utm", "create", v, w)
      BY <1>0, <2>2, <3>2 DEF Allowed, StateOf, VmRecords, Promise!May
    <3>4. Exists("utm", w) /\ w.disk = "whole"
      BY <1>0, <3>2 DEF Exists, UtmExists, VmRecords
    <3> QED
      BY <1>0, <2>0, <3>2, <3>3, <3>4 DEF Means
  <2> QED
    BY <1>2, <2>1, <2>2 DEF UtmFillBundle
<1>3. CASE UtmStart(p)
  <2>0. c = "start"
    BY <1>0, <1>3 DEF UtmStart, At, Does
  <2>1. CASE at[p] = "begin"
    <3>1. \E answers \in SUBSET {"next", "request"} : Query(p, answers, "idle")
      BY <1>3, <2>1 DEF UtmStart, At
    <3>2. Moves(p) /\ at'[p] \in {"next", "request", "idle"} /\ w = v
      BY <1>0, <3>1, QueryMoves DEF Labels
    <3> QED
      BY <1>0, <2>0, <3>2 DEF Allowed, Means
  <2>2. CASE at[p] = "request"
    <3>1. UtmStartVm(v) \in SUBSET VmRecords
      BY <1>0 DEF UtmStartVm, VmRecords
    <3>2. RunCommand(p, UtmStartVm(v), {}, "next", "idle")
      BY <1>3, <2>2 DEF UtmStart, At
    <3>l. "next" \in Labels /\ "idle" \in Labels
      BY DEF Labels
    <3>3. Moves(p) /\ at'[p] \in {"next", "idle"} /\ w \in {v} \cup UtmStartVm(v)
      BY <1>0, <3>1, <3>2, <3>l, RunMovesSimply
    <3>4. Allowed("utm", "start", v, w)
      BY <1>0, <3>3 DEF UtmStartVm, Allowed, StateOf, VmRecords, Promise!May
    <3> QED
      BY <1>0, <2>0, <3>3, <3>4 DEF Means
  <2> QED
    BY <1>3, <2>1, <2>2 DEF UtmStart, At
<1>4. CASE UtmStop(p)
  <2>0. c = "stop"
    BY <1>0, <1>4 DEF UtmStop, At, Does
  <2>1. CASE at[p] \in {"begin", "settle"}
    <3>1. \E answers \in SUBSET {"next", "request"}, onError \in {"idle", "force"} : Query(p, answers, onError)
      BY <1>4, <2>1 DEF UtmStop, At
    <3> DEFINE S == {"next", "request", "idle", "force"}
    <3>l. S \in SUBSET Labels /\ "idle" \in S
      BY DEF Labels
    <3>2. Moves(p) /\ at'[p] \in S /\ w = v
      <4>1. \E answers \in SUBSET S, onError \in S : Query(p, answers, onError)
        BY <3>1
      <4> HIDE DEF S
      <4> QED
        BY <1>0, <4>1, <3>l, QueryMovesWithin
    <3> QED
      BY <1>0, <2>0, <3>2 DEF Allowed, Means
  <2>2. CASE at[p] \in {"request", "force"}
    <3>1. UtmStopByRequest(v) \in SUBSET VmRecords /\ UtmStopByForce(v) \in SUBSET VmRecords
      BY <1>0 DEF UtmStopByRequest, UtmStopByForce, UtmRunning, VmRecords
    <3>2. \/ RunCommand(p, UtmStopByRequest(v), {}, "settle", "idle")
          \/ RunCommand(p, UtmStopByForce(v), {}, "next", "idle")
      BY <1>4, <2>2 DEF UtmStop, At
    <3>l. "next" \in Labels /\ "idle" \in Labels /\ "settle" \in Labels
      BY DEF Labels
    <3>3. /\ Moves(p) /\ at'[p] \in {"settle", "next", "idle"}
          /\ w \in {v} \cup UtmStopByRequest(v) \cup UtmStopByForce(v)
      <4>1. CASE RunCommand(p, UtmStopByRequest(v), {}, "settle", "idle")
        <5>1. /\ Moves(p)
              /\ \/ at'[p] = "settle" /\ w \in UtmStopByRequest(v)
                 \/ at'[p] = "idle" /\ w \in {v} \cup UtmStopByRequest(v)
          BY <1>0, <3>1, <4>1, <3>l, RunMovesSimply
        <5> QED
          BY <5>1
      <4>2. CASE RunCommand(p, UtmStopByForce(v), {}, "next", "idle")
        <5>1. /\ Moves(p)
              /\ \/ at'[p] = "next" /\ w \in UtmStopByForce(v)
                 \/ at'[p] = "idle" /\ w \in {v} \cup UtmStopByForce(v)
          BY <1>0, <3>1, <4>2, <3>l, RunMovesSimply
        <5> QED
          BY <5>1
      <4> QED
        BY <3>2, <4>1, <4>2
    <3>4. Allowed("utm", "stop", v, w)
      BY <1>0, <3>3 DEF UtmStopByRequest, UtmStopByForce, UtmRunning, UtmExists, Allowed, StateOf, VmRecords,
         Promise!May
    <3> QED
      BY <1>0, <2>0, <3>3, <3>4 DEF Means
  <2> QED
    BY <1>4, <2>1, <2>2 DEF UtmStop, At
<1>5. CASE UtmDestroy(p)
  <2>0. c = "destroy"
    BY <1>0, <1>5 DEF UtmDestroy, At, Does
  <2>1. PICK d \in {v.disk, "partial", "none"} :
          /\ Becomes(p, [v EXCEPT !.disk = d])
          /\ Goto(p, IF d = "none" THEN "next" ELSE "idle") \/ Fail(p)
    BY <1>5 DEF UtmDestroy, Succeed
  <2>2. [v EXCEPT !.disk = d] \in VmRecords
    BY <1>0 DEF VmRecords
  <2>3. Moves(p) /\ at'[p] \in {"next", "idle"} /\ w = [v EXCEPT !.disk = d] /\ (at'[p] = "next" => d = "none")
    BY <1>0, <2>1, <2>2, BecomesMoves DEF Fail, Labels
  <2>4. Allowed("utm", "destroy", v, w)
    BY <1>0, <1>5, <2>3 DEF UtmDestroy, Allowed, StateOf, VmRecords, Promise!May, Promise!States
  <2>5. at'[p] = "next" => ~DestroyTargetExists("utm", w)
    BY <1>0, <2>3 DEF DestroyTargetExists, Exists, UtmExists, VmRecords
  <2> QED
    BY <1>0, <2>0, <2>3, <2>4, <2>5 DEF Means
<1> QED
  BY <1>1, <1>2, <1>3, <1>4, <1>5 DEF UtmStep

-------------------------------------------------------------------------------
(* Tart.                                                                   *)

LEMMA TartGood ==
  ASSUME TypeOK, NEW p \in Procs, NEW c \in Commands, Does(p, "tart", c), TartStep(p)
  PROVE  GoodMove(p)
<1> DEFINE v == It(p)
           w == vm'[job[p].vm]
<1>0. at[p] # "idle" /\ v \in VmRecords /\ engine[job[p].vm] = "tart" /\ job[p].what = c
  BY JobOf DEF Does
<1> USE DEF GoodMove, Good, Knows, It
<1>1. CASE TartCreate(p)
  <2>0. c = "create"
    BY <1>0, <1>1 DEF TartCreate, At, Does
  <2>1. Query(p, IF TartRunning(v) THEN {"probeRunning"}
                 ELSE IF TartExists(v) THEN {"probe"} ELSE {"clone"}, "idle")
    BY <1>1 DEF TartCreate
  <2>2. /\ Moves(p) /\ at'[p] \in {"probeRunning", "probe", "clone", "idle"} /\ w = v
        /\ at'[p] \in {"probeRunning", "probe"} => TartRunning(v) \/ TartExists(v)
    BY <1>0, <2>1, QueryMoves DEF Labels
  <2> QED
    BY <1>0, <2>0, <2>2 DEF TartRunning, TartExists, Allowed
<1>2. CASE TartCloneUnlessThere(p)
  <2>0. c = "create"
    BY <1>0, <1>2 DEF TartCloneUnlessThere, At, Does
  <2>1. CASE UNCHANGED vm /\ (Fail(p) \/ (TartExists(v) /\ Goto(p, "probe")))
    <3>1. Moves(p) /\ at'[p] \in {"idle", "probe"} /\ w = v /\ (at'[p] = "probe" => v.known)
      BY <1>0, <2>1, StaysMoves DEF Fail, TartExists, Labels
    <3> QED
      BY <1>0, <2>0, <3>1 DEF Allowed
  <2>2. CASE ~TartExists(v) /\ RunCommand(p, TartClone(v), {}, "probe", "idle")
    <3>1. TartClone(v) \in SUBSET VmRecords
      BY <1>0 DEF TartClone, VmRecords
    <3>l. "probe" \in Labels /\ "idle" \in Labels
      BY DEF Labels
    <3>2. /\ Moves(p)
          /\ \/ at'[p] = "probe" /\ w \in TartClone(v)
             \/ at'[p] = "idle" /\ w \in {v} \cup TartClone(v)
      BY <1>0, <2>2, <3>1, <3>l, RunMovesSimply
    <3>3. Allowed("tart", "create", v, w)
      BY <1>0, <2>2, <3>2 DEF TartClone, TartExists, Allowed, StateOf, VmRecords, Promise!May
    <3>4. at'[p] = "probe" => w.known
      BY <1>0, <3>2 DEF TartClone, VmRecords
    <3> QED
      BY <1>0, <2>0, <3>2, <3>3, <3>4
  <2> QED
    BY <1>2, <2>1, <2>2 DEF TartCloneUnlessThere
<1>3. CASE TartProbe(p)
  <2>0. c = "create" /\ at[p] \in {"probe", "probeRunning"}
    BY <1>0, <1>3 DEF TartProbe, At, Does
  <2>1. \E answers \in SUBSET {"next"}, onError \in {"run", "idle"} : Query(p, answers, onError)
    BY <1>3 DEF TartProbe
  <2> DEFINE S == {"next", "run", "idle"}
  <2>l. S \in SUBSET Labels /\ "idle" \in S
    BY DEF Labels
  <2>2. Moves(p) /\ at'[p] \in S /\ w = v
    <3>1. \E answers \in SUBSET S, onError \in S : Query(p, answers, onError)
      BY <2>1
    <3> HIDE DEF S
    <3> QED
      BY <1>0, <3>1, <2>l, QueryMovesWithin
  <2> QED
    BY <1>0, <2>0, <2>2 DEF Allowed, Means, Exists, TartExists
<1>4. CASE TartStart(p)
  <2>0. c = "start"
    BY <1>0, <1>4 DEF TartStart, At, Does
  <2>1. \E answers \in SUBSET {"next", "run"} : Query(p, answers, "idle")
    BY <1>4 DEF TartStart
  <2>2. Moves(p) /\ at'[p] \in {"next", "run", "idle"} /\ w = v
    BY <1>0, <2>1, QueryMoves DEF Labels
  <2> QED
    BY <1>0, <2>0, <2>2 DEF Allowed, Means
<1>5. CASE TartRunDetached(p)
  <2>0. c \in {"create", "start"} /\ at[p] = "run"
    BY <1>0, <1>5 DEF TartRunDetached, Does
  <2>1. TartRun(v) \in SUBSET VmRecords
    BY <1>0 DEF TartRun, VmRecords
  <2>2. RunCommand(p, TartRun(v), {}, "reach", "idle")
    BY <1>5 DEF TartRunDetached
  <2>l. "reach" \in Labels /\ "idle" \in Labels
    BY DEF Labels
  <2>3. /\ Moves(p)
        /\ \/ at'[p] = "reach" /\ w \in TartRun(v)
           \/ at'[p] = "idle" /\ w \in {v} \cup TartRun(v)
    BY <1>0, <2>1, <2>2, <2>l, RunMovesSimply
  <2>4. Allowed("tart", "create", v, w) /\ Allowed("tart", "start", v, w)
    BY <1>0, <2>3 DEF TartRun, Allowed, StateOf, VmRecords, Promise!May
  <2>5. w.known = v.known
    BY <1>0, <2>3 DEF TartRun, VmRecords
  <2> QED
    BY <1>0, <2>0, <2>3, <2>4, <2>5
<1>6. CASE TartReach(p)
  <2>0. c \in {"create", "start"} /\ at[p] = "reach"
    BY <1>0, <1>6 DEF TartReach, Does
  <2>1. \E answers \in SUBSET {"next"} : Query(p, answers, "idle")
    BY <1>6 DEF TartReach
  <2>2. Moves(p) /\ at'[p] \in {"next", "idle"} /\ w = v
    BY <1>0, <2>1, QueryMoves DEF Labels
  <2> QED
    BY <1>0, <2>0, <2>2 DEF Allowed, Means, Exists, TartExists
<1>7. CASE TartStopCommand(p)
  <2>0. c = "stop"
    BY <1>0, <1>7 DEF TartStopCommand, At, Does
  <2>1. CASE at[p] = "begin"
    <3>1. Query(p, IF TartRunning(v) THEN {"stop"} ELSE {"next"}, "idle")
      BY <1>7, <2>1 DEF TartStopCommand, At
    <3>2. Moves(p) /\ at'[p] \in {"stop", "next", "idle"} /\ w = v /\ (at'[p] = "next" => ~TartRunning(v))
      BY <1>0, <3>1, QueryMoves DEF Labels
    <3> QED
      BY <1>0, <2>0, <3>2 DEF Allowed, Means, Running
  <2>2. CASE at[p] = "stop"
    <3>1. TartStop(v) \in SUBSET VmRecords
      BY <1>0 DEF TartStop, VmRecords
    <3>2. \/ RunCommand(p, TartStop(v), {}, "next", "idle")
          \/ v.power = "off" /\ Goto(p, "next") /\ UNCHANGED vm
      BY <1>7, <2>2 DEF TartStopCommand, TartCommandAllowingMissing, At
    <3>l. "next" \in Labels /\ "idle" \in Labels
      BY DEF Labels
    <3>3. /\ Moves(p)
          /\ \/ at'[p] = "next" /\ (w \in TartStop(v) \/ (v.power = "off" /\ w = v))
             \/ at'[p] = "idle" /\ w \in {v} \cup TartStop(v)
      BY <1>0, <3>1, <3>2, <3>l, RunMovesSimply, StaysMoves
    <3>4. Allowed("tart", "stop", v, w)
      BY <1>0, <3>3 DEF TartStop, Allowed, StateOf, VmRecords, Promise!May
    <3>5. at'[p] = "next" => w.power = "off"
      BY <1>0, <3>3 DEF TartStop, VmRecords
    <3> QED
      BY <1>0, <2>0, <3>3, <3>4, <3>5 DEF Means, Running, TartRunning
  <2> QED
    BY <1>7, <2>1, <2>2 DEF TartStopCommand, At
<1>8. CASE TartDestroy(p)
  <2>0. c = "destroy"
    BY <1>0, <1>8 DEF TartDestroy, At, Does
  <2>1. CASE at[p] = "begin"
    <3>1. Query(p, IF ~TartExists(v) THEN {"next"}
                   ELSE IF TartRunning(v) THEN {"stop"} ELSE {"delete"}, "idle")
      BY <1>8, <2>1 DEF TartDestroy, At
    <3>2. Moves(p) /\ at'[p] \in {"stop", "next", "delete", "idle"} /\ w = v /\ (at'[p] = "next" => ~TartExists(v))
      BY <1>0, <3>1, QueryMoves DEF Labels
    <3> QED
      BY <1>0, <2>0, <3>2 DEF Allowed, Means, DestroyTargetExists, Exists
  <2>2. CASE at[p] = "stop"
    <3>1. TartStop(v) \in SUBSET VmRecords
      BY <1>0 DEF TartStop, VmRecords
    <3>2. \/ RunCommand(p, TartStop(v), {}, "delete", "idle")
          \/ Goto(p, "delete") /\ UNCHANGED vm
      BY <1>8, <2>2 DEF TartDestroy, TartCommandAllowingMissing, At
    <3>l. "delete" \in Labels /\ "idle" \in Labels
      BY DEF Labels
    <3>3. Moves(p) /\ at'[p] \in {"delete", "idle"} /\ w \in {v} \cup TartStop(v)
      <4>1. CASE RunCommand(p, TartStop(v), {}, "delete", "idle")
        <5>1. /\ Moves(p)
              /\ \/ at'[p] = "delete" /\ w \in TartStop(v)
                 \/ at'[p] = "idle" /\ w \in {v} \cup TartStop(v)
          BY <1>0, <3>1, <4>1, <3>l, RunMovesSimply
        <5> QED
          BY <5>1
      <4>2. CASE Goto(p, "delete") /\ UNCHANGED vm
        BY <1>0, <4>2, <3>l, StaysMoves
      <4> QED
        BY <3>2, <4>1, <4>2
    <3>4. Allowed("tart", "destroy", v, w)
      BY <1>0, <3>3 DEF TartStop, Allowed, StateOf, VmRecords, Promise!May, Promise!States
    <3> QED
      BY <1>0, <2>0, <3>3, <3>4
  <2>3. CASE at[p] = "delete"
    <3>1. TartDelete(v) \in SUBSET VmRecords
      BY <1>0 DEF TartDelete, VmRecords
    <3>2. \/ RunCommand(p, TartDelete(v), {}, "next", "idle")
          \/ ~v.known /\ Goto(p, "next") /\ UNCHANGED vm
      BY <1>8, <2>3 DEF TartDestroy, TartCommandAllowingMissing, At
    <3>l. "next" \in Labels /\ "idle" \in Labels
      BY DEF Labels
    <3>3. /\ Moves(p)
          /\ \/ at'[p] = "next" /\ (w \in TartDelete(v) \/ (~v.known /\ w = v))
             \/ at'[p] = "idle" /\ w \in {v} \cup TartDelete(v)
      <4>1. CASE RunCommand(p, TartDelete(v), {}, "next", "idle")
        <5>1. /\ Moves(p)
              /\ \/ at'[p] = "next" /\ w \in TartDelete(v)
                 \/ at'[p] = "idle" /\ w \in {v} \cup TartDelete(v)
          BY <1>0, <3>1, <4>1, <3>l, RunMovesSimply
        <5> QED
          BY <5>1
      <4>2. CASE ~v.known /\ Goto(p, "next") /\ UNCHANGED vm
        BY <1>0, <4>2, <3>l, StaysMoves
      <4> QED
        BY <3>2, <4>1, <4>2
    <3>4. Allowed("tart", "destroy", v, w)
      <4>1. w = v \/ (w \in VmRecords /\ ~w.known)
        BY <1>0, <3>3 DEF TartDelete, VmRecords
      <4> QED
        BY <1>0, <4>1 DEF Allowed, StateOf, VmRecords, Promise!May, Promise!States
    <3>5. at'[p] = "next" => ~w.known
      BY <1>0, <3>3 DEF TartDelete, VmRecords
    <3> QED
      BY <1>0, <2>0, <3>3, <3>4, <3>5 DEF Means, DestroyTargetExists, Exists, TartExists
  <2> QED
    BY <1>8, <2>1, <2>2, <2>3 DEF TartDestroy, At
<1> QED
  BY <1>1, <1>2, <1>3, <1>4, <1>5, <1>6, <1>7, <1>8 DEF TartStep

-------------------------------------------------------------------------------
(* The steps of the processes and of the world.                            *)

LEMMA EngineGood ==
  ASSUME TypeOK, NEW p \in Procs,
         LibvirtStep(p) \/ HypervStep(p) \/ UtmStep(p) \/ TartStep(p)
  PROVE  GoodMove(p) /\ at[p] \notin {"idle", "next"}
<1>1. CASE LibvirtStep(p)
  <2>1. \E c \in Commands : Does(p, "libvirt", c)
    BY <1>1 DEF LibvirtStep, LibvirtPrepare, LibvirtNetworkReady, LibvirtCopy, LibvirtConvert, LibvirtXml,
       LibvirtDefine, LibvirtStart, LibvirtVirshStart, LibvirtStopCommand, LibvirtDestroy,
       LibvirtDestroyStop, LibvirtUndefine, LibvirtRemoveDisk, At, Commands
  <2> QED
    BY <1>1, <2>1, LibvirtCreateGood, LibvirtStartGood, LibvirtStopGood, LibvirtDestroyGood DEF Commands, Does
<1>2. CASE HypervStep(p)
  <2>1. \E c \in Commands : Does(p, "hyperv", c)
    BY <1>2 DEF HypervStep, HypervBoxAdd, HypervUp, HypervStart, HypervStop, HypervDestroyMachine,
       HypervRemoveBox, At, Commands
  <2> QED
    BY <1>2, <2>1, HypervCreateGood, HypervStartGood, HypervStopGood, HypervDestroyGood DEF Commands, Does
<1>3. CASE UtmStep(p)
  <2>1. \E c \in Commands : Does(p, "utm", c)
    BY <1>3 DEF UtmStep, UtmCreateBundle, UtmFillBundle, UtmStart, UtmStop, UtmDestroy, At, Commands
  <2> QED
    BY <1>3, <2>1, UtmGood DEF Does
<1>4. CASE TartStep(p)
  <2>1. \E c \in Commands : Does(p, "tart", c)
    BY <1>4 DEF TartStep, TartCreate, TartCloneUnlessThere, TartProbe, TartStart, TartRunDetached, TartReach,
       TartStopCommand, TartDestroy, At, Commands
  <2> QED
    BY <1>4, <2>1, TartGood DEF Does
<1> QED
  BY <1>1, <1>2, <1>3, <1>4

LEMMA LookGood ==
  ASSUME TypeOK, NEW p \in Procs, LookFirst(p)
  PROVE  GoodMove(p) /\ at[p] = "look"
<1> DEFINE v == It(p)
<1>0. at[p] = "look" /\ v \in VmRecords
  BY JobOf DEF LookFirst
<1>1. CASE engine[job[p].vm] = "hyperv"
  <2>1. HypervInspect(p, {"begin"}, {}, {}, "idle")
    BY <1>1 DEF LookFirst
  <2> DEFINE none  == {}
             begin == {"begin"}
  <2>2. /\ begin \in SUBSET (Labels \ {"idle"}) /\ none \in SUBSET Labels /\ "idle" \in Labels
        /\ HypervInspect(p, begin, none, none, "idle") /\ at[p] # "idle"
    BY <1>0, <2>1 DEF Labels
  <2>3. Moves(p) /\ vm'[job[p].vm] = v /\ at'[p] \in {"begin", "idle"}
    <3> HIDE DEF none, begin, v
    <3>1. /\ Moves(p) /\ vm'[job[p].vm] = It(p)
          /\ \/ at'[p] \in {"idle", "idle"}
             \/ at'[p] \in begin /\ (~HypervExists(It(p)) \/ job'[p].misread)
             \/ at'[p] \in none /\ HypervExists(It(p)) /\ ~HypervRunning(It(p))
             \/ at'[p] \in none /\ HypervExists(It(p)) /\ HypervRunning(It(p))
      BY <2>2, InspectMoves
    <3> QED
      BY <3>1 DEF none, begin, v
  <2> QED
    BY <1>0, <1>1, <2>3 DEF GoodMove, Good, Knows, Allowed, It
<1>2. CASE engine[job[p].vm] # "hyperv"
  <2>1. Query(p, IF Exists(engine[job[p].vm], v) THEN {} ELSE {"begin"}, "idle")
    BY <1>2 DEF LookFirst
  <2>2. /\ Moves(p) /\ at'[p] \in {"begin", "idle"} /\ vm'[job[p].vm] = v
        /\ at'[p] = "begin" => ~Exists(engine[job[p].vm], v)
    BY <1>0, <2>1, QueryMoves DEF Labels
  <2> QED
    BY <1>0, <1>2, <2>2 DEF GoodMove, Good, Knows, Allowed, Exists, LibvirtExists, It
<1> QED
  BY <1>1, <1>2

LEMMA DieGood ==
  ASSUME TypeOK, NEW p \in Procs, Die(p)
  PROVE  GoodMove(p) /\ at[p] # "idle" /\ (at[p] = "next" => at'[p] = "idle")
<1>0. at[p] # "idle" /\ It(p) \in VmRecords
  BY JobOf DEF Die
<1>1. CASE Fail(p)
  <2>1. Moves(p) /\ at'[p] = "idle" /\ vm'[job[p].vm] = It(p)
    BY <1>0, <1>1, StaysMoves DEF Die, Fail, Labels
  <2> QED
    BY <1>0, <2>1 DEF GoodMove, Good, Knows, Allowed, It
<1>2. CASE Waits(p) /\ job' = [job EXCEPT ![p].dead = TRUE] /\ UNCHANGED <<at, catalogue>>
  <2> DEFINE j == [job[p] EXCEPT !.dead = TRUE]
  <2>1. j \in Jobs /\ SameCommand(job[p], j) /\ j.misread = job[p].misread
    BY <1>0, JobOf DEF Jobs, SameCommand
  <2>2. job'[p] = j /\ job' = [job EXCEPT ![p] = j] /\ at'[p] = at[p] /\ at[p] \in Labels
    BY <1>2 DEF TypeOK
  <2>3. at' = [at EXCEPT ![p] = at'[p]]
    BY <1>2, <2>2 DEF TypeOK
  <2>4. vm' = [vm EXCEPT ![job[p].vm] = It(p)] /\ vm'[job[p].vm] = It(p)
    BY JobOf, <1>0 DEF Die, TypeOK, It
  <2>5. at[p] # "next"
    BY <1>2 DEF Waits, At, Does
  <2> HIDE DEF j
  <2>6. Moves(p)
    BY <1>0, <1>2, <2>1, <2>2, <2>3, <2>4 DEF Moves
  <2> QED
    BY <1>0, <2>1, <2>2, <2>4, <2>5, <2>6 DEF GoodMove, Good, Allowed, It
<1> QED
  BY <1>1, <1>2 DEF Die

Begins(p) == \E c \in Commands, vs \in SUBSET Vms, l \in {"look", "begin"} :
               /\ l = "look" <=> c = "create"
               /\ vs \in One \/ vs = AllOf(c)
               /\ Begin(p, c, vs, l)

LEMMA NextIsOneOf ==
  ASSUME TypeOK, [Next]_vars
  PROVE  \/ UNCHANGED vars
         \/ \E p \in Procs : at[p] # "idle" /\ GoodMove(p) /\ (at[p] = "next" => at'[p] = "idle")
         \/ \E p \in Procs : NextMachine(p)
         \/ \E p \in Procs : Begins(p)
         \/ \E v \in Vms : GuestGoesOff(v) \/ GuestHasAddress(v)
<1>1. ASSUME NEW p \in Procs, CreateCommand(p) \/ StartCommand(p) \/ StopCommand(p) \/ DestroyCommand(p)
      PROVE  Begins(p)
  <2>1. One \subseteq SUBSET Vms /\ Stable \subseteq Vms /\ Catalogue \subseteq Vms
    BY DEF One, Stable, Catalogue
  <2>2. /\ "create" \in Commands /\ "start" \in Commands /\ "stop" \in Commands /\ "destroy" \in Commands
    BY DEF Commands
  <2> QED
    BY <1>1, <2>1, <2>2 DEF CreateCommand, StartCommand, StopCommand, DestroyCommand, Begins, AllOf
<1>2. ASSUME NEW p \in Procs, Work(p)
      PROVE  NextMachine(p) \/ (at[p] \notin {"idle", "next"} /\ GoodMove(p))
  BY <1>2, EngineGood, LookGood DEF Work
<1> QED
  BY <1>1, <1>2, DieGood DEF Next

-------------------------------------------------------------------------------
(* The invariant.                                                          *)

\* A command that has been the only one still is, and knows its machine.
AloneKnows(p) ==
  at[p] # "idle" /\ job[p].alone =>
    OthersIdle(p) /\ Knows(engine[job[p].vm], job[p].what, at[p], job[p].misread, It(p))

Inv == TypeOK /\ \A p \in Procs : AloneKnows(p)

LEMMA InitInv == Init => Inv
<1> SUFFICES ASSUME Init PROVE Inv
  OBVIOUS
<1>1. engine \in [Vms -> Engines \cup {"none"}]
  BY DEF Init, Hosts, Engines
<1>2. vm \in [Vms -> VmRecords]
  BY NothingIsRecord DEF Init
<1> QED
  BY <1>1, <1>2 DEF Init, Inv, TypeOK, Labels, AloneKnows

LEMMA MoveKeepsInv ==
  ASSUME Inv, NEW p \in Procs, at[p] # "idle", GoodMove(p)
  PROVE  Inv'
<1>0. TypeOK /\ Moves(p) /\ job[p] \in Jobs /\ job[p].vm \in Vms
  BY JobOf DEF Inv, GoodMove
<1>1. TypeOK'
  <2>1. (engine \in [Vms -> Engines \cup {"none"}] /\ crossArch \in [Vms -> BOOLEAN])'
    BY <1>0 DEF TypeOK, Moves, catalogue
  <2>2. (vm \in [Vms -> VmRecords] /\ at \in [Procs -> Labels] /\ job \in [Procs -> Jobs \cup {NoJob}])'
    <3>1. vm' \in [Vms -> VmRecords] /\ at' \in [Procs -> Labels]
      BY <1>0 DEF TypeOK, Moves
    <3>2. \E j \in Jobs \cup {NoJob} : job' = [job EXCEPT ![p] = j]
      BY <1>0 DEF Moves, SameCommand
    <3> QED
      BY <1>0, <3>1, <3>2 DEF TypeOK
  <2>3. (\A q \in Procs : at[q] = "idle" <=> job[q] = NoJob)'
    <3>1. \A q \in Procs \ {p} : at'[q] = at[q] /\ job'[q] = job[q]
      BY <1>0 DEF TypeOK, Moves
    <3>2. at'[p] = "idle" <=> job'[p] = NoJob
      BY <1>0, NoJobIsNone DEF TypeOK, Moves, SameCommand
    <3> QED
      BY <1>0, <3>1, <3>2 DEF TypeOK
  <2>4. (\A q \in Procs : at[q] # "idle" => job[q].rest \subseteq AllOf(job[q].what))'
    <3>1. \A c : AllOf(c)' = AllOf(c)
      BY <1>0 DEF Moves, catalogue, AllOf, Stable, Catalogue
    <3>2. ASSUME NEW q \in Procs, at'[q] # "idle"
          PROVE  job'[q].rest \subseteq AllOf(job'[q].what)
      <4>1. at[q] # "idle" /\ job'[q].rest = job[q].rest /\ job'[q].what = job[q].what
        BY <1>0, <3>2 DEF TypeOK, Moves, SameCommand
      <4> QED
        BY <1>0, <4>1 DEF TypeOK
    <3> QED
      BY <3>1, <3>2
  <2> QED
    BY <2>1, <2>2, <2>3, <2>4 DEF TypeOK
<1>2. ASSUME NEW q \in Procs, (at[q] # "idle" /\ job[q].alone)'
      PROVE  (OthersIdle(q) /\ Knows(engine[job[q].vm], job[q].what, at[q], job[q].misread, It(q)))'
  <2>1. q = p
    <3>1. SUFFICES ASSUME q # p PROVE FALSE
      OBVIOUS
    <3>2. at'[q] = at[q] /\ job'[q] = job[q]
      BY <1>0, <3>1 DEF TypeOK, Moves
    <3> QED
      BY <1>2, <3>1, <3>2 DEF Inv, AloneKnows, OthersIdle
  <2>2. /\ engine' = engine /\ at'[p] # "idle" /\ job[p].alone
        /\ job'[p].vm = job[p].vm /\ job'[p].what = job[p].what
    BY <1>0, <1>2, <2>1 DEF Moves, catalogue, SameCommand
  <2>3. OthersIdle(p) /\ Knows(engine[job[p].vm], job[p].what, at[p], job[p].misread, It(p))
    BY <1>0, <2>2 DEF Inv, AloneKnows
  <2>4. OthersIdle(p)'
    BY <1>0, <2>3 DEF OthersIdle, Moves, TypeOK
  <2>5. Knows(engine[job[p].vm], job[p].what, at'[p], job'[p].misread, vm'[job[p].vm])
    BY <2>2, <2>3 DEF GoodMove, Good, It
  <2> QED
    BY <2>1, <2>2, <2>4, <2>5 DEF It
<1> QED
  BY <1>1, <1>2 DEF Inv, AloneKnows

\* An "all" command takes its next machine, or ends.
LEMMA GoesOn ==
  ASSUME TypeOK, NEW p \in Procs, NextMachine(p)
  PROVE  \E l \in {"look", "begin", "idle"}, j \in Jobs \cup {NoJob} :
           /\ at' = [at EXCEPT ![p] = l] /\ job' = [job EXCEPT ![p] = j]
           /\ l = "idle" <=> j = NoJob
           /\ l # "idle" => j.alone = job[p].alone /\ j.what = job[p].what /\ j.rest \subseteq job[p].rest
           /\ l = "begin" => job[p].what # "create"
<1>0. TypeOK /\ at[p] = "next" /\ job[p] \in Jobs
  BY JobOf DEF NextMachine
<1>1. CASE job[p].rest = {} /\ at' = [at EXCEPT ![p] = "idle"] /\ job' = [job EXCEPT ![p] = NoJob]
  BY <1>1
<1>2. ASSUME NEW v \in job[p].rest,
             at' = [at EXCEPT ![p] = IF job[p].what = "create" THEN "look" ELSE "begin"],
             job' = [job EXCEPT ![p].vm = v, ![p].rest = @ \ {v}, ![p].misread = FALSE]
      PROVE  \E l \in {"look", "begin", "idle"}, j \in Jobs \cup {NoJob} :
               /\ at' = [at EXCEPT ![p] = l] /\ job' = [job EXCEPT ![p] = j]
               /\ l = "idle" <=> j = NoJob
               /\ l # "idle" => j.alone = job[p].alone /\ j.what = job[p].what /\ j.rest \subseteq job[p].rest
               /\ l = "begin" => job[p].what # "create"
  <2> DEFINE j == [job[p] EXCEPT !.vm = v, !.rest = @ \ {v}, !.misread = FALSE]
  <2>1. j \in Jobs /\ j.alone = job[p].alone /\ j.what = job[p].what /\ j.rest \subseteq job[p].rest
    BY <1>0 DEF Jobs
  <2>2. job' = [job EXCEPT ![p] = j]
    BY <1>2, <1>0 DEF TypeOK
  <2>3. j # NoJob
    BY <2>1, NoJobIsNone
  <2> HIDE DEF j
  <2> QED
    BY <1>2, <2>1, <2>2, <2>3
<1> QED
  BY <1>1, <1>2 DEF NextMachine

LEMMA NextMachineKeepsInv ==
  ASSUME Inv, NEW p \in Procs, NextMachine(p)
  PROVE  Inv'
<1>0. TypeOK /\ at[p] = "next" /\ UNCHANGED <<catalogue, vm>> /\ job[p] \in Jobs
  BY JobOf DEF Inv, NextMachine
<1>1. PICK l \in {"look", "begin", "idle"}, j \in Jobs \cup {NoJob} :
        /\ at' = [at EXCEPT ![p] = l] /\ job' = [job EXCEPT ![p] = j]
        /\ l = "idle" <=> j = NoJob
        /\ l # "idle" => j.alone = job[p].alone /\ j.what = job[p].what /\ j.rest \subseteq job[p].rest
        /\ l = "begin" => job[p].what # "create"
  BY <1>0, GoesOn
<1>2. TypeOK'
  <2>1. (engine \in [Vms -> Engines \cup {"none"}] /\ crossArch \in [Vms -> BOOLEAN] /\ vm \in [Vms -> VmRecords])'
    BY <1>0 DEF TypeOK, catalogue
  <2>2. (at \in [Procs -> Labels] /\ job \in [Procs -> Jobs \cup {NoJob}])'
    BY <1>0, <1>1 DEF TypeOK, Labels
  <2>3. (\A q \in Procs : at[q] = "idle" <=> job[q] = NoJob)'
    BY <1>0, <1>1, NoJobIsNone DEF TypeOK
  <2>4. (\A q \in Procs : at[q] # "idle" => job[q].rest \subseteq AllOf(job[q].what))'
    <3>1. \A c : AllOf(c)' = AllOf(c)
      BY <1>0 DEF catalogue, AllOf, Stable, Catalogue
    <3>2. ASSUME NEW q \in Procs, at'[q] # "idle"
          PROVE  job'[q].rest \subseteq AllOf(job'[q].what)
      <4>1. at[q] # "idle" /\ job'[q].rest \subseteq job[q].rest /\ job'[q].what = job[q].what
        BY <1>0, <1>1, <3>2 DEF TypeOK
      <4> QED
        BY <1>0, <4>1 DEF TypeOK
    <3> QED
      BY <3>1, <3>2
  <2> QED
    BY <2>1, <2>2, <2>3, <2>4 DEF TypeOK
<1>3. ASSUME NEW q \in Procs, (at[q] # "idle" /\ job[q].alone)'
      PROVE  (OthersIdle(q) /\ Knows(engine[job[q].vm], job[q].what, at[q], job[q].misread, It(q)))'
  <2>1. q = p
    <3>1. SUFFICES ASSUME q # p PROVE FALSE
      OBVIOUS
    <3>2. at'[q] = at[q] /\ job'[q] = job[q]
      BY <1>0, <1>1, <3>1 DEF TypeOK
    <3> QED
      BY <1>0, <1>3, <3>1, <3>2 DEF Inv, AloneKnows, OthersIdle
  <2>2. at'[p] = l /\ job'[p] = j /\ l # "idle" /\ job[p].alone
    BY <1>0, <1>1, <1>3, <2>1 DEF TypeOK
  <2>3. OthersIdle(p)'
    BY <1>0, <1>1, <2>2 DEF Inv, AloneKnows, OthersIdle, TypeOK
  <2>4. Knows(engine'[j.vm], j.what, l, j.misread, vm'[j.vm])
    BY <1>1, <2>2 DEF Knows
  <2> QED
    BY <2>1, <2>2, <2>3, <2>4 DEF It
<1> QED
  BY <1>2, <1>3 DEF Inv, AloneKnows

LEMMA BeginKeepsInv ==
  ASSUME Inv, NEW p \in Procs, Begins(p)
  PROVE  Inv'
<1>0. TypeOK
  BY DEF Inv
<1>1. PICK c \in Commands, vs \in SUBSET Vms, l \in {"look", "begin"} :
        (l = "look" <=> c = "create") /\ (vs \in One \/ vs = AllOf(c)) /\ Begin(p, c, vs, l)
  BY DEF Begins
<1>2. PICK v \in vs :
        job' = [q \in Procs |->
                  IF q = p THEN [what |-> c, vm |-> v, rest |-> vs \ {v}, alone |-> OthersIdle(p),
                                 misread |-> FALSE, dead |-> FALSE]
                  ELSE IF job[q] = NoJob THEN NoJob ELSE [job[q] EXCEPT !.alone = FALSE]]
  BY <1>1 DEF Begin
<1>3. at[p] = "idle" /\ at' = [at EXCEPT ![p] = l] /\ UNCHANGED <<catalogue, vm>>
  BY <1>1 DEF Begin
<1>4. /\ job'[p] \in Jobs /\ (job'[p].alone <=> OthersIdle(p)) /\ job'[p].what = c
      /\ job'[p].rest = vs \ {v}
  <2>1. OthersIdle(p) \in BOOLEAN
    BY DEF OthersIdle
  <2> QED
    BY <1>2, <2>1 DEF Jobs
<1>5. ASSUME NEW q \in Procs \ {p}
      PROVE  \/ job[q] = NoJob /\ job'[q] = NoJob
             \/ /\ job[q] # NoJob /\ job'[q] \in Jobs /\ ~job'[q].alone
                /\ job'[q].rest = job[q].rest /\ job'[q].what = job[q].what
  <2>1. CASE job[q] = NoJob
    BY <1>2, <2>1
  <2>2. CASE job[q] # NoJob
    <3>1. job[q] \in Jobs
      BY <1>0, <2>2 DEF TypeOK
    <3>2. job'[q] = [job[q] EXCEPT !.alone = FALSE]
      BY <1>2, <2>2
    <3> QED
      BY <2>2, <3>1, <3>2 DEF Jobs
  <2> QED
    BY <2>1, <2>2
<1>6. TypeOK'
  <2>1. (engine \in [Vms -> Engines \cup {"none"}] /\ crossArch \in [Vms -> BOOLEAN] /\ vm \in [Vms -> VmRecords])'
    BY <1>0, <1>3 DEF TypeOK, catalogue
  <2>2. (at \in [Procs -> Labels])'
    BY <1>0, <1>3 DEF TypeOK, Labels
  <2>3. (job \in [Procs -> Jobs \cup {NoJob}])'
    <3>1. \A q \in Procs : job'[q] \in Jobs \cup {NoJob}
      BY <1>4, <1>5
    <3>2. job' = [q \in Procs |-> job'[q]]
      BY <1>2
    <3> QED
      BY <3>1, <3>2
  <2>4. (\A q \in Procs : at[q] = "idle" <=> job[q] = NoJob)'
    BY <1>0, <1>3, <1>4, <1>5, NoJobIsNone DEF TypeOK
  <2>5. (\A q \in Procs : at[q] # "idle" => job[q].rest \subseteq AllOf(job[q].what))'
    <3>1. \A d : AllOf(d)' = AllOf(d)
      BY <1>3 DEF catalogue, AllOf, Stable, Catalogue
    <3>2. job'[p].rest \subseteq AllOf(job'[p].what)
      BY <1>1, <1>4 DEF One
    <3>3. ASSUME NEW q \in Procs \ {p}, at'[q] # "idle"
          PROVE  job'[q].rest \subseteq AllOf(job'[q].what)
      <4>1. at[q] # "idle" /\ job'[q].rest = job[q].rest /\ job'[q].what = job[q].what
        BY <1>0, <1>3, <1>5, <3>3 DEF TypeOK
      <4> QED
        BY <1>0, <4>1 DEF TypeOK
    <3> QED
      BY <3>1, <3>2, <3>3
  <2> QED
    BY <2>1, <2>2, <2>3, <2>4, <2>5 DEF TypeOK
<1>7. ASSUME NEW q \in Procs, (at[q] # "idle" /\ job[q].alone)'
      PROVE  (OthersIdle(q) /\ Knows(engine[job[q].vm], job[q].what, at[q], job[q].misread, It(q)))'
  <2>1. q = p
    BY <1>0, <1>3, <1>5, <1>7 DEF TypeOK
  <2>2. OthersIdle(p)'
    BY <1>0, <1>3, <1>4, <1>7, <2>1 DEF OthersIdle, TypeOK
  <2>3. at'[p] = l
    BY <1>0, <1>3 DEF TypeOK
  <2>4. Knows(engine'[job'[p].vm], c, l, job'[p].misread, vm'[job'[p].vm])
    BY <1>1 DEF Knows
  <2> QED
    BY <1>4, <2>1, <2>2, <2>3, <2>4 DEF It
<1> QED
  BY <1>6, <1>7 DEF Inv, AloneKnows

\* A guest that goes off, or gets an address, takes nothing away from what a
\* command knows.
LEMMA GuestChange ==
  ASSUME TypeOK, NEW v \in Vms, GuestGoesOff(v) \/ GuestHasAddress(v)
  PROVE  /\ UNCHANGED <<catalogue, at, job>>
         /\ vm'[v] \in VmRecords /\ vm' = [vm EXCEPT ![v] = vm'[v]]
         /\ \/ vm[v].power # "off" /\ \E s \in {"between", "off"} : vm'[v] = [vm[v] EXCEPT !.power = s]
            \/ vm'[v] = [vm[v] EXCEPT !.lease = TRUE]
         /\ engine[v] = "tart" => vm'[v].power # "between" \/ vm[v].power = "between"
<1>0. vm[v] \in VmRecords
  BY DEF TypeOK
<1>1. CASE GuestGoesOff(v)
  <2>1. PICK s \in {"between", "off"} :
          /\ vm' = [vm EXCEPT ![v].power = s] /\ vm[v].power # "off"
          /\ engine[v] = "tart" => s # "between"
    BY <1>1 DEF GuestGoesOff
  <2>2. vm'[v] = [vm[v] EXCEPT !.power = s]
    BY <2>1 DEF TypeOK
  <2> QED
    BY <1>0, <1>1, <2>1, <2>2 DEF GuestGoesOff, TypeOK, VmRecords
<1>2. CASE GuestHasAddress(v)
  <2>1. vm' = [vm EXCEPT ![v].lease = TRUE]
    BY <1>2 DEF GuestHasAddress
  <2>2. vm'[v] = [vm[v] EXCEPT !.lease = TRUE]
    BY <2>1 DEF TypeOK
  <2> QED
    BY <1>0, <1>2, <2>1, <2>2 DEF GuestHasAddress, TypeOK, VmRecords
<1> QED
  BY <1>1, <1>2

LEMMA GuestKeepsInv ==
  ASSUME Inv, NEW v \in Vms, GuestGoesOff(v) \/ GuestHasAddress(v)
  PROVE  Inv'
<1>0. TypeOK /\ vm[v] \in VmRecords
  BY DEF Inv, TypeOK
<1>1. /\ UNCHANGED <<catalogue, at, job>>
      /\ vm'[v] \in VmRecords /\ vm' = [vm EXCEPT ![v] = vm'[v]]
      /\ \/ vm[v].power # "off" /\ \E s \in {"between", "off"} : vm'[v] = [vm[v] EXCEPT !.power = s]
         \/ vm'[v] = [vm[v] EXCEPT !.lease = TRUE]
  BY <1>0, GuestChange
<1>2. TypeOK'
  BY <1>0, <1>1 DEF TypeOK, catalogue, AllOf, Stable, Catalogue
<1>3. ASSUME NEW q \in Procs, (at[q] # "idle" /\ job[q].alone)'
      PROVE  (OthersIdle(q) /\ Knows(engine[job[q].vm], job[q].what, at[q], job[q].misread, It(q)))'
  <2>1. /\ OthersIdle(q) /\ Knows(engine[job[q].vm], job[q].what, at[q], job[q].misread, It(q))
        /\ job[q].vm \in Vms
    BY <1>0, <1>1, <1>3, JobOf DEF Inv, AloneKnows
  <2>2. OthersIdle(q)'
    BY <1>1, <2>1 DEF OthersIdle
  <2>3. vm'[job[q].vm] = vm[job[q].vm] \/ job[q].vm = v
    BY <1>0, <1>1, <2>1 DEF TypeOK
  <2>4. Knows(engine[job[q].vm], job[q].what, at[q], job[q].misread, vm'[job[q].vm])
    BY <1>0, <1>1, <2>1, <2>3 DEF Knows, It, VmRecords
  <2> QED
    BY <1>1, <2>2, <2>4 DEF It, catalogue
<1> QED
  BY <1>2, <1>3 DEF Inv, AloneKnows

LEMMA StepInv == Inv /\ [Next]_vars => Inv'
<1> SUFFICES ASSUME Inv, [Next]_vars PROVE Inv'
  OBVIOUS
<1>0. TypeOK
  BY DEF Inv
<1>1. CASE UNCHANGED vars
  BY <1>1 DEF Inv, TypeOK, AllOf, Stable, Catalogue, AloneKnows, OthersIdle, It, vars, catalogue
<1> QED
  BY <1>0, <1>1, NextIsOneOf, MoveKeepsInv, NextMachineKeepsInv, BeginKeepsInv, GuestKeepsInv

THEOREM Invariant == Spec => []Inv
<1>1. Init => Inv
  BY InitInv
<1>2. Inv /\ [Next]_vars => Inv'
  BY StepInv
<1> QED
  BY <1>1, <1>2, PTL DEF Spec

\* Every variable keeps its type, a process has a job exactly while it is not
\* idle, and what an `all` command has before it is part of its catalogue.
THEOREM TypeCorrect == Spec => []TypeOK
<1>1. Inv => TypeOK
  BY DEF Inv
<1> QED
  BY <1>1, Invariant, PTL

-------------------------------------------------------------------------------
(* What success means.                                                     *)

LEMMA SuccessIsGood ==
  ASSUME Inv, [Next]_vars, NEW p \in Procs, at[p] \notin {"idle", "next"}, at'[p] = "next"
  PROVE  /\ Means(engine[job[p].vm], job[p].what, job[p].alone, job'[p].misread, It(p)')
         /\ It(p) \in VmRecords /\ It(p)' \in VmRecords
<1>0. TypeOK
  BY DEF Inv
<1>1. GoodMove(p)
  <2>1. CASE UNCHANGED vars
    BY <2>1 DEF vars
  <2>2. ASSUME NEW q \in Procs, at[q] # "idle", GoodMove(q)
        PROVE  GoodMove(p)
    BY <1>0, <2>2 DEF GoodMove, Moves, TypeOK
  <2>3. ASSUME NEW q \in Procs, NextMachine(q)
        PROVE  FALSE
    BY <1>0, <2>3 DEF NextMachine, TypeOK
  <2>4. ASSUME NEW q \in Procs, Begins(q)
        PROVE  FALSE
    BY <1>0, <2>4 DEF Begins, Begin, TypeOK
  <2>5. ASSUME NEW v \in Vms, GuestGoesOff(v) \/ GuestHasAddress(v)
        PROVE  FALSE
    BY <2>5 DEF GuestGoesOff, GuestHasAddress
  <2> QED
    BY <1>0, <2>1, <2>2, <2>3, <2>4, <2>5, NextIsOneOf
<1>2. job[p].alone => Knows(engine[job[p].vm], job[p].what, at[p], job[p].misread, It(p))
  BY DEF Inv, AloneKnows
<1>3. It(p)' = vm'[job[p].vm] /\ It(p)' \in VmRecords
  BY <1>1 DEF GoodMove, Moves, SameCommand, It
<1>4. It(p) \in VmRecords
  BY <1>0, JobOf
<1> QED
  BY <1>1, <1>2, <1>3, <1>4 DEF GoodMove, Good, Means, It

\* A create that was the only command has left a whole machine.
THEOREM Whole == Spec => CreatedIsWhole
<1> DEFINE A == \A p \in Procs : Succeeds(p, "create") /\ job[p].alone =>
                 LET e == engine[job[p].vm] IN
                 /\ Exists(e, It(p)')
                 /\ e \in {"libvirt", "utm"} => It(p)'.disk = "whole"
<1>1. Inv /\ [Next]_vars => [A]_vars
  BY SuccessIsGood DEF Succeeds, Means
<1> QED
  BY <1>1, Invariant, PTL DEF Spec, CreatedIsWhole

\* A destroy that was the only command, and has misread no inspection, has left
\* nothing of the machine.
THEOREM Clean == Spec => CleanSlate
<1> DEFINE A == \A p \in Procs : Succeeds(p, "destroy") /\ job[p].alone /\ ~job'[p].misread =>
                 ~DestroyTargetExists(engine[job[p].vm], It(p)')
<1>1. Inv /\ [Next]_vars => [A]_vars
  BY SuccessIsGood DEF Succeeds, Means
<1> QED
  BY <1>1, Invariant, PTL DEF Spec, CleanSlate

\* When a stop that has misread no inspection succeeds the machine does not run,
\* on every engine but UTM and whoever else works on the machine.
THEOREM StoppedOff == Spec => StoppedRunsNot
<1> DEFINE A == \A p \in Procs :
                   Succeeds(p, "stop") /\ engine[job[p].vm] # "utm" /\ ~job'[p].misread =>
                     ~Running(engine[job[p].vm], It(p)')
<1>1. Inv /\ [Next]_vars => [A]_vars
  BY SuccessIsGood DEF Succeeds, Means
<1> QED
  BY <1>1, Invariant, PTL DEF Spec, StoppedRunsNot

-------------------------------------------------------------------------------
(* The refinement: what the user finds changes as VmPromise says.          *)

\* The command of p as VmPromise sees it.
LEMMA DoingOf ==
  ASSUME TypeOK, NEW p \in Procs
  PROVE  /\ doingOfJobs[p] = Promise!Idle <=> job[p] = NoJob
         /\ job[p] # NoJob => /\ doingOfJobs[p].what = job[p].what
                              /\ doingOfJobs[p].vm = job[p].vm
                              /\ doingOfJobs[p].alone = job[p].alone
                              /\ job[p] \in Jobs
<1>1. job[p] # NoJob => job[p] \in Jobs /\ job[p].what # "none"
  BY DEF TypeOK, Jobs, Commands
<1> QED
  BY <1>1 DEF doingOfJobs, Promise!Idle, NoJob

LEMMA StatesAre ==
  ASSUME NEW e, NEW v
  PROVE  StateOf(e, v) \in Promise!States
BY DEF StateOf, Promise!States

LEMMA InitKeepsPromise == Init => Promise!Init
<1> SUFFICES ASSUME Init PROVE Promise!Init
  OBVIOUS
<1>1. \A v \in Vms : StateOf(engine[v], vm[v]) = "absent"
  BY DEF Init, StateOf, Nothing, DestroyTargetExists, Exists, LibvirtExists
<1>2. stateOfVms = [v \in Vms |-> "absent"]
  BY <1>1 DEF stateOfVms
<1>3. doingOfJobs = [p \in Procs |-> Promise!Idle]
  BY DEF Init, doingOfJobs, NoJob, Promise!Idle
<1> QED
  BY <1>2, <1>3 DEF Promise!Init

LEMMA MoveKeepsPromise ==
  ASSUME Inv, NEW p \in Procs, at[p] # "idle", GoodMove(p)
  PROVE  Promise!Work(p)
<1> DEFINE v == job[p].vm
           t == StateOf(engine[v], vm'[v])
<1>0. TypeOK /\ Moves(p) /\ job[p] \in Jobs /\ v \in Vms /\ job[p] # NoJob
  BY JobOf, NoJobIsNone DEF Inv, GoodMove
<1>1. doingOfJobs[p] # Promise!Idle /\ doingOfJobs[p].vm = v
      /\ doingOfJobs[p].what = job[p].what /\ doingOfJobs[p].alone = job[p].alone
  BY <1>0, DoingOf
<1>2. t \in Promise!States
  BY StatesAre
<1>3. stateOfVms[v] = StateOf(engine[v], vm[v])
  BY <1>0 DEF stateOfVms
<1>4. job[p].alone => Allowed(engine[v], job[p].what, vm[v], vm'[v])
  BY DEF Inv, AloneKnows, GoodMove, Good, It
<1>5. t # stateOfVms[v] /\ doingOfJobs[p].alone => <<stateOfVms[v], t>> \in Promise!May[doingOfJobs[p].what]
  BY <1>1, <1>3, <1>4 DEF Allowed
<1>6. stateOfVms' = [stateOfVms EXCEPT ![v] = t]
  <2>1. engine' = engine /\ \A u \in Vms : u # v => vm'[u] = vm[u]
    BY <1>0 DEF Moves, TypeOK, catalogue
  <2> QED
    BY <1>0, <2>1 DEF stateOfVms
<1>7. doingOfJobs' \in {doingOfJobs, [doingOfJobs EXCEPT ![p] = Promise!Idle]}
  <2>1. CASE at'[p] # "idle"
    <3>1. job' = [job EXCEPT ![p] = job'[p]] /\ job'[p] # NoJob
          /\ job'[p].what = job[p].what /\ job'[p].vm = job[p].vm /\ job'[p].alone = job[p].alone
      BY <1>0, <2>1, NoJobIsNone DEF Moves, SameCommand
    <3> QED
      BY <1>0, <3>1 DEF doingOfJobs, TypeOK
  <2>2. CASE job' = [job EXCEPT ![p] = NoJob]
    BY <1>0, <2>2 DEF doingOfJobs, TypeOK, NoJob, Promise!Idle
  <2> QED
    BY <1>0, <2>1, <2>2 DEF Moves
<1> HIDE DEF t
<1> QED
  BY <1>1, <1>2, <1>5, <1>6, <1>7 DEF Promise!Work

LEMMA NextMachineKeepsPromise ==
  ASSUME Inv, NEW p \in Procs, NextMachine(p)
  PROVE  Promise!GoOn(p) \/ Promise!Work(p)
<1>0. TypeOK /\ at[p] = "next" /\ UNCHANGED <<engine, vm>> /\ job[p] \in Jobs /\ job[p] # NoJob
  BY JobOf, NoJobIsNone DEF Inv, NextMachine, catalogue
<1>1. doingOfJobs[p] # Promise!Idle /\ doingOfJobs[p].vm \in Vms
  BY <1>0, DoingOf DEF Jobs
<1>2. stateOfVms' = stateOfVms
  BY <1>0 DEF stateOfVms
<1>3. CASE job' = [job EXCEPT ![p] = NoJob]
  <2>1. doingOfJobs' = [doingOfJobs EXCEPT ![p] = Promise!Idle]
    BY <1>0, <1>3 DEF doingOfJobs, TypeOK, NoJob, Promise!Idle
  <2>2. stateOfVms[doingOfJobs[p].vm] \in Promise!States
    BY <1>1, StatesAre DEF stateOfVms
  <2>3. stateOfVms' = [stateOfVms EXCEPT ![doingOfJobs[p].vm] = stateOfVms[doingOfJobs[p].vm]]
    BY <1>1, <1>2 DEF stateOfVms
  <2> QED
    BY <1>1, <2>1, <2>2, <2>3 DEF Promise!Work
<1>4. ASSUME NEW j \in Jobs, job' = [job EXCEPT ![p] = j],
             j.alone = job[p].alone, j.what = job[p].what
      PROVE  Promise!GoOn(p)
  <2>1. j.vm \in Vms /\ j # NoJob
    BY NoJobIsNone DEF Jobs
  <2>2. doingOfJobs' = [doingOfJobs EXCEPT ![p].vm = j.vm]
    BY <1>0, <1>4, <2>1 DEF doingOfJobs, TypeOK
  <2> QED
    BY <1>1, <1>2, <2>1, <2>2 DEF Promise!GoOn
<1> QED
  BY <1>0, <1>3, <1>4, GoesOn, NoJobIsNone

LEMMA NotAlone ==
  ASSUME NEW W, NEW V, NEW i \in [what: W, vm: V, alone: BOOLEAN],
         NEW o \in [what: W, vm: V, alone: BOOLEAN],
         o.what = i.what, o.vm = i.vm, ~o.alone
  PROVE  o = [i EXCEPT !.alone = FALSE]
OBVIOUS

LEMMA BeginKeepsPromise ==
  ASSUME Inv, NEW p \in Procs, Begins(p)
  PROVE  Promise!Begin(p)
<1>0. TypeOK
  BY DEF Inv
<1>1. PICK c \in Commands, vs \in SUBSET Vms, l \in {"look", "begin"} : Begin(p, c, vs, l)
  BY DEF Begins
<1>2. PICK v \in vs :
        job' = [q \in Procs |->
                  IF q = p THEN [what |-> c, vm |-> v, rest |-> vs \ {v}, alone |-> OthersIdle(p),
                                 misread |-> FALSE, dead |-> FALSE]
                  ELSE IF job[q] = NoJob THEN NoJob ELSE [job[q] EXCEPT !.alone = FALSE]]
  BY <1>1 DEF Begin
<1>3. doingOfJobs[p] = Promise!Idle /\ stateOfVms' = stateOfVms
  BY <1>0, <1>1, DoingOf DEF Begin, TypeOK, stateOfVms, catalogue
<1>4. c \in DOMAIN Promise!May /\ v \in Vms
  BY DEF Promise!May, Commands
<1>5. OthersIdle(p) = (\A r \in Procs \ {p} : doingOfJobs[r] = Promise!Idle)
  BY <1>0, DoingOf DEF OthersIdle, TypeOK
<1>6. doingOfJobs' = [q \in Procs |->
         IF q = p THEN [what |-> c, vm |-> v, alone |-> OthersIdle(p)]
         ELSE IF doingOfJobs[q] = Promise!Idle THEN Promise!Idle
         ELSE [doingOfJobs[q] EXCEPT !.alone = FALSE]]
  <2> DEFINE d(q) == IF q = p THEN [what |-> c, vm |-> v, alone |-> OthersIdle(p)]
                     ELSE IF doingOfJobs[q] = Promise!Idle THEN Promise!Idle
                     ELSE [doingOfJobs[q] EXCEPT !.alone = FALSE]
  <2>1. ASSUME NEW q \in Procs
        PROVE  (IF job'[q] = NoJob THEN NoJob
                ELSE [what |-> job'[q].what, vm |-> job'[q].vm, alone |-> job'[q].alone]) = d(q)
    <3>1. CASE q = p
      BY <1>2, <3>1 DEF NoJob
    <3>2. CASE q # p /\ job[q] = NoJob
      BY <1>0, <1>2, <3>2, DoingOf DEF NoJob, Promise!Idle
    <3>3. CASE q # p /\ job[q] # NoJob
      <4>1. job[q] \in Jobs /\ doingOfJobs[q] # Promise!Idle
        BY <1>0, <3>3, DoingOf
      <4>2. job'[q] = [job[q] EXCEPT !.alone = FALSE]
        BY <1>2, <3>3
      <4>3. job'[q] \in Jobs /\ job'[q] # NoJob
        BY <4>1, <4>2, NoJobIsNone DEF Jobs
      <4>4. doingOfJobs[q] = [what |-> job[q].what, vm |-> job[q].vm, alone |-> job[q].alone]
        BY <3>3 DEF doingOfJobs
      <4> DEFINE o == [what |-> job'[q].what, vm |-> job'[q].vm, alone |-> job'[q].alone]
                 R == [what: Commands, vm: Vms, alone: BOOLEAN]
      <4>5. o \in R /\ o.what = job[q].what /\ o.vm = job[q].vm
        BY <4>1, <4>2, <4>3 DEF Jobs
      <4>6. ~o.alone
        BY <4>1, <4>2 DEF Jobs
      <4>7. doingOfJobs[q] \in R
        BY <4>1, <4>4 DEF Jobs
      <4>8. doingOfJobs[q].what = job[q].what /\ doingOfJobs[q].vm = job[q].vm
        BY <4>4
      <4> HIDE DEF o
      <4>9. o = [doingOfJobs[q] EXCEPT !.alone = FALSE]
        BY <4>5, <4>6, <4>7, <4>8, NotAlone
      <4> QED
        BY <3>3, <4>1, <4>3, <4>9 DEF o
    <3> QED
      BY <3>1, <3>2, <3>3
  <2> HIDE DEF d
  <2>2. doingOfJobs' = [q \in Procs |-> d(q)]
    BY <2>1 DEF doingOfJobs
  <2> QED
    BY <2>2 DEF d
<1> QED
  BY <1>3, <1>4, <1>5, <1>6 DEF Promise!Begin

LEMMA GuestKeepsPromise ==
  ASSUME Inv, NEW v \in Vms, GuestGoesOff(v) \/ GuestHasAddress(v)
  PROVE  Promise!GuestStops(v) \/ UNCHANGED <<stateOfVms, doingOfJobs>>
<1> DEFINE w == vm'[v]
           t == StateOf(engine[v], w)
<1>0. TypeOK
  BY DEF Inv
<1>1. /\ UNCHANGED <<catalogue, at, job>>
      /\ w \in VmRecords /\ vm[v] \in VmRecords /\ vm' = [vm EXCEPT ![v] = w]
      /\ \/ vm[v].power # "off" /\ \E s \in {"between", "off"} : w = [vm[v] EXCEPT !.power = s]
         \/ w = [vm[v] EXCEPT !.lease = TRUE]
  BY <1>0, GuestChange DEF TypeOK
<1>2. stateOfVms' = [stateOfVms EXCEPT ![v] = t] /\ UNCHANGED doingOfJobs
  <2>1. \A u \in Vms : u # v => vm'[u] = vm[u]
    BY <1>0, <1>1 DEF TypeOK
  <2> QED
    BY <1>1, <2>1 DEF stateOfVms, doingOfJobs, catalogue
<1>3. t = StateOf(engine[v], vm[v]) \/ <<StateOf(engine[v], vm[v]), t>> \in Promise!Guest
  BY <1>1 DEF VmRecords, StateOf, DestroyTargetExists, Exists, LibvirtExists, Promise!Guest
<1>4. t \in Promise!States /\ stateOfVms[v] = StateOf(engine[v], vm[v])
  BY StatesAre DEF stateOfVms
<1> HIDE DEF t
<1>5. CASE t = stateOfVms[v]
  BY <1>2, <1>5 DEF stateOfVms
<1>6. CASE <<stateOfVms[v], t>> \in Promise!Guest
  BY <1>2, <1>4, <1>6 DEF Promise!GuestStops
<1> QED
  BY <1>3, <1>4, <1>5, <1>6

\* Every engine keeps VmPromise: a command that is the only one changes what
\* the user finds of a machine only as its name allows.
THEOREM Refines == Spec => KeepsPromise
<1>1. Inv /\ [Next]_vars => [Promise!Next]_<<stateOfVms, doingOfJobs>>
  <2> SUFFICES ASSUME Inv, [Next]_vars
               PROVE  Promise!Next \/ UNCHANGED <<stateOfVms, doingOfJobs>>
    OBVIOUS
  <2>1. TypeOK
    BY DEF Inv
  <2>2. CASE UNCHANGED vars
    BY <2>2 DEF vars, stateOfVms, doingOfJobs
  <2>3. ASSUME NEW p \in Procs, at[p] # "idle", GoodMove(p)
        PROVE  Promise!Next
    BY <2>3, MoveKeepsPromise DEF Promise!Next
  <2>4. ASSUME NEW p \in Procs, NextMachine(p)
        PROVE  Promise!Next
    BY <2>4, NextMachineKeepsPromise DEF Promise!Next
  <2>5. ASSUME NEW p \in Procs, Begins(p)
        PROVE  Promise!Next
    BY <2>5, BeginKeepsPromise DEF Promise!Next
  <2>6. ASSUME NEW v \in Vms, GuestGoesOff(v) \/ GuestHasAddress(v)
        PROVE  Promise!Next \/ UNCHANGED <<stateOfVms, doingOfJobs>>
    BY <2>6, GuestKeepsPromise DEF Promise!Next
  <2> QED
    BY <2>1, <2>2, <2>3, <2>4, <2>5, <2>6, NextIsOneOf
<1> QED
  BY <1>1, InitKeepsPromise, Invariant, PTL DEF Spec, KeepsPromise, Promise!Spec

================================================================================
