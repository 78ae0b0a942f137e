------------------------- MODULE ProvisionAlone_proofs -------------------------
(***************************************************************************)
(* What a run of `alchemy provision` that nobody disturbs can rely on, for *)
(* every set of processes and every scene.                                 *)
(*                                                                         *)
(* First the host: whatever stops a local Windows run, at any step of its  *)
(* elevated scripts, where the host differs from what it was a state file  *)
(* tells what it was, as far as the bootstrap could see it.  Course        *)
(* follows the run: what its place says of the host, of the state it has   *)
(* saved and of the steps its scripts have left.                           *)
(*                                                                         *)
(* Then the sources: ansible starts with checkouts that are current.       *)
(* SourcesOf says which sources are current at each place of a run, and    *)
(* Resolved what git has already done with the one it works on; Whole is   *)
(* about every checkout, whoever has cloned it or died doing so.           *)
(*                                                                         *)
(* At last the host again: a run whose cleanup has succeeded leaves it as  *)
(* it was.  Owes says what the steps of the cleanup that are still to come *)
(* have to see to; Trail follows that through the run.                     *)
(***************************************************************************)
EXTENDS Provision_proofs, SequenceTheorems

-------------------------------------------------------------------------------
(* The order of the plans.                                                 *)

\* The stages before anything is changed on the host.
Setup == {"port", "key", "state"}
Early == Setup \cup {"bootstrap"}

\* What holds of every plan, and of what is left of it: the early stages come
\* first, and "cleanup" last.
Ordered(s) ==
  \A i \in 1..Len(s) :
    /\ s[i] = "cleanup" => i = Len(s)
    /\ s[i] \in Early => \A k \in 1..Len(s) : k < i => s[k] \in Setup

NoneEarly(s) == \A i \in 1..Len(s) : s[i] \notin Early

LEMMA PlansAreOrdered ==
  ASSUME NEW os, NEW plan \in Plans(os)
  PROVE  Ordered(plan)
<1>1. Ordered(HypervWindows11)
  BY DEF Ordered, Early, Setup, LinkedAnsible, HypervWindows11
<1>2. Ordered(UtmWindows11)
  BY DEF Ordered, Early, Setup, LinkedAnsible, UtmWindows11
<1>3. Ordered(LinuxQemuWindows11)
  BY DEF Ordered, Early, Setup, LinkedAnsible, LinuxQemuWindows11
<1>4. Ordered(HypervUbuntu)
  BY DEF Ordered, Early, Setup, LinkedAnsible, HypervUbuntu
<1>5. Ordered(UtmUbuntu)
  BY DEF Ordered, Early, Setup, LinkedAnsible, UtmUbuntu
<1>6. Ordered(LinuxQemuUbuntu)
  BY DEF Ordered, Early, Setup, LinkedAnsible, LinuxQemuUbuntu
<1>7. Ordered(TartMacOS)
  BY DEF Ordered, Early, Setup, LinkedAnsible, TartMacOS
<1>8. Ordered(LocalUnix)
  BY DEF Ordered, Early, Setup, LinkedAnsible, LocalUnix
<1>9. Ordered(LocalWinRM)
  BY DEF Ordered, Early, Setup, LinkedAnsible, LocalWinRM
<1>10. Ordered(LocalSSH)
  BY DEF Ordered, Early, Setup, LinkedAnsible, LocalSSH
<1> QED
  BY <1>1, <1>2, <1>3, <1>4, <1>5, <1>6, <1>7, <1>8, <1>9, <1>10 DEF Plans

\* What a place of a run says of the plan that is left.
Placed2(l, s) ==
  /\ Ordered(s)
  /\ l \notin Setup => NoneEarly(s)
  /\ l \in {"cleanup", "restoring", "tidy"} => s = <<>>

LEMMA TailIs ==
  ASSUME NEW S, NEW s \in Seq(S), s # <<>>
  PROVE  /\ Tail(s) \in Seq(S) /\ Len(s) \in Nat /\ Len(s) = Len(Tail(s)) + 1
         /\ Len(Tail(s)) \in Nat
         /\ \A i \in 1..Len(Tail(s)) : i + 1 \in 1..Len(s) /\ Tail(s)[i] = s[i + 1]
         /\ Head(s) = s[1] /\ 1 \in 1..Len(s)
OBVIOUS

LEMMA NextStageIsPlaced ==
  ASSUME NEW s \in Seq(Names), s # <<>>, Ordered(s)
  PROVE  Placed2(Head(s), Tail(s))
<1> DEFINE t == Tail(s)
<1>1. /\ t \in Seq(Names) /\ Len(s) \in Nat /\ Len(s) = Len(t) + 1 /\ Len(t) \in Nat
      /\ \A i \in 1..Len(t) : i + 1 \in 1..Len(s) /\ t[i] = s[i + 1]
      /\ Head(s) = s[1] /\ 1 \in 1..Len(s)
  BY TailIs
<1> HIDE DEF t
<1>2. Ordered(t)
  <2> SUFFICES ASSUME NEW i \in 1..Len(t)
               PROVE  /\ t[i] = "cleanup" => i = Len(t)
                      /\ t[i] \in Early => \A k \in 1..Len(t) : k < i => t[k] \in Setup
    BY DEF Ordered
  <2>1. i + 1 \in 1..Len(s) /\ t[i] = s[i + 1]
    BY <1>1
  <2>2. t[i] = "cleanup" => i = Len(t)
    BY <1>1, <2>1 DEF Ordered
  <2>3. ASSUME t[i] \in Early, NEW k \in 1..Len(t), k < i
        PROVE  t[k] \in Setup
    <3>1. k + 1 \in 1..Len(s) /\ t[k] = s[k + 1] /\ k + 1 < i + 1
      BY <1>1, <2>3
    <3> QED
      BY <2>1, <2>3, <3>1 DEF Ordered
  <2> QED
    BY <2>2, <2>3
<1>3. s[1] \notin Setup => NoneEarly(t)
  <2> SUFFICES ASSUME s[1] \notin Setup, NEW i \in 1..Len(t)
               PROVE  t[i] \notin Early
    BY DEF NoneEarly
  <2>1. i + 1 \in 1..Len(s) /\ t[i] = s[i + 1] /\ 1 < i + 1
    BY <1>1
  <2> QED
    BY <1>1, <2>1 DEF Ordered
<1>4. s[1] = "cleanup" => t = <<>>
  <2>1. s[1] = "cleanup" => Len(t) = 0
    BY <1>1 DEF Ordered
  <2>2. t \in Seq(Names) /\ Len(t) = 0 => t = <<>>
    BY EmptySeq
  <2> QED
    BY <1>1, <2>1, <2>2
<1>5. s[1] \notin {"restoring", "tidy"}
  BY <1>1 DEF Names
<1> QED
  BY <1>1, <1>2, <1>3, <1>4, <1>5 DEF Placed2, t

LEMMA EndIsPlaced ==
  /\ Ordered(<<>>) /\ NoneEarly(<<>>)
  /\ Ordered(<<"cleanup">>) /\ NoneEarly(<<"cleanup">>)
  /\ \A l : Placed2(l, <<>>)
BY DEF Ordered, NoneEarly, Early, Setup, Placed2

-------------------------------------------------------------------------------
(* The course of one run.                                                  *)

JobFields == {"plan", "kept", "use", "alone", "astray", "was", "ssh", "threw"}

\* Of a script sc, the state sv and a run that is at l with the job j and the
\* files fs, on a host h: the state is saved before anything else is done, and
\* it is there until the host may have been restored.
Course(l, j, h, sv, sc, fs) ==
  /\ sc.bootstrap # <<>> => l = "bootstrapping"
  /\ sc.cleanup # <<>> => l = "restoring"
  /\ l # "done" /\ sv.taken => sv.was = Found(j.was) /\ j.was \in HostStates /\ "state" \in fs
  /\ l \in Early => h = j.was /\ ~sv.taken
  /\ l \notin {"restoring", "tidy", "done"} => h = j.was \/ sv.taken
  /\ sc.bootstrap # <<>> => sc.bootstrap[1] = "capture" \/ sv.taken
  /\ \A i \in 1..Len(sc.bootstrap) : sc.bootstrap[i] = "capture" => i = 1 /\ h = j.was

StepNames ==
  Settings \cup {"capture", "install", "enable", "restart", "winrm", "load", "reload", "sshd", "stop"}

ScriptFormed(sc) ==
  /\ {"bootstrap", "cleanup", "force"} \subseteq DOMAIN sc
  /\ sc.bootstrap \in Seq(StepNames) /\ sc.cleanup \in Seq(StepNames)

StateFormed(sv) == {"taken", "was"} \subseteq DOMAIN sv

JobFormed(l, j) == JobFields \subseteq DOMAIN j /\ Placed2(l, j.plan)

\* What holds of each process by itself.
Own(p) ==
  /\ ScriptFormed(script[p]) /\ StateFormed(saved[p])
  /\ at[p] = "idle" => ~saved[p].taken /\ ScriptsOver(p)
  /\ Working(p) => JobFormed(at[p], job[p])
  /\ Working(p) /\ job[p].alone /\ ~job[p].astray =>
       Course(at[p], job[p], host, saved[p], script[p], files[p])

\* What is promised to a run that is alone.
Undisturbed(p) ==
  Working(p) /\ job[p].alone => \A q \in Procs \ {p} : ~Working(q) /\ ScriptsOver(q)

Tables ==
  /\ saved = [q \in Procs |-> saved[q]]
  /\ script = [q \in Procs |-> script[q]]

HostInv == Inv /\ SessionTypes /\ Tables /\ \A p \in Procs : Own(p) /\ Undisturbed(p)

\* It is enough to look at the process that steps: one that works, or whose
\* script does, is not there for a run that is alone.
LEMMA OwnStep ==
  ASSUME HostInv, NEW p \in Procs, Inv', SessionTypes',
         Working(p) \/ ~ScriptsOver(p),
         at' = [at EXCEPT ![p] = at'[p]], job' = [job EXCEPT ![p] = job'[p]],
         files' = [files EXCEPT ![p] = files'[p]],
         saved' = [saved EXCEPT ![p] = saved'[p]], script' = [script EXCEPT ![p] = script'[p]],
         Own(p)', Working(p)' => Working(p) /\ (job'[p].alone => job[p].alone)
  PROVE  HostInv'
<1>1. Tables'
  BY DEF HostInv, Tables
<1>2. ASSUME NEW q \in Procs, q # p
      PROVE  /\ at'[q] = at[q] /\ job'[q] = job[q] /\ files'[q] = files[q]
             /\ saved'[q] = saved[q] /\ script'[q] = script[q]
             /\ ~(Working(q) /\ job[q].alone)
  <2>1. ~(Working(q) /\ job[q].alone)
    BY <1>2 DEF HostInv, Undisturbed
  <2> QED
    BY <1>2, <2>1 DEF HostInv, Inv, Types, Tables
<1>3. ASSUME NEW q \in Procs
      PROVE  Own(q)'
  <2>1. CASE q = p
    BY <2>1
  <2>2. CASE q # p
    BY <1>2, <2>2 DEF HostInv, Own, Working, ScriptsOver
  <2> QED
    BY <2>1, <2>2
<1>4. ASSUME NEW q \in Procs
      PROVE  Undisturbed(q)'
  <2>1. CASE q = p
    <3>1. ASSUME Working(p)', job'[p].alone, NEW r \in Procs \ {p}
          PROVE  ~Working(r)' /\ ScriptsOver(r)'
      <4>1. Working(p) /\ job[p].alone
        BY <3>1
      <4>2. ~Working(r) /\ ScriptsOver(r)
        BY <4>1 DEF HostInv, Undisturbed
      <4> QED
        BY <1>2, <4>2 DEF Working, ScriptsOver
    <3> QED
      BY <2>1, <3>1 DEF Undisturbed
  <2>2. CASE q # p
    BY <1>2, <2>2 DEF Undisturbed, Working
  <2> QED
    BY <2>1, <2>2
<1> QED
  BY <1>1, <1>3, <1>4 DEF HostInv

-------------------------------------------------------------------------------
(* The stages that leave the host and its scripts alone.                   *)

Waiting == {"bootstrapping", "restoring", "tidy"}

SameRun(i, j) ==
  /\ JobFields \subseteq DOMAIN i
  /\ i.was = j.was /\ i.alone = j.alone /\ i.astray = j.astray

\* The run p goes on with the job i but for its plan, without waiting for a
\* script.
GoesAs(p, i) ==
  /\ at'[p] \notin {"idle", "over"} \cup Waiting
  /\ at'[p] \in Early => at[p] \in Setup
  /\ JobFormed(at'[p], job'[p]) /\ SameRun(job'[p], i)

GoesOn(p) == GoesAs(p, job[p])

\* What holds of a process that is at work.
AtWork(p) ==
  /\ HostInv /\ Working(p) /\ Run(job[p]) /\ Sound(job[p].plan)
  /\ Own(p) /\ JobFormed(at[p], job[p])

LEMMA AtWorkIs ==
  ASSUME HostInv, NEW p \in Procs, Working(p)
  PROVE  AtWork(p) /\ Here(p) /\ Types /\ Tables
BY DEF HostInv, Inv, Safe, AtWork, Own, Working, Here, Run

LEMMA ContinueGoesAs ==
  ASSUME NEW p \in Procs, AtWork(p), NEW i, NEW j, NEW err, Continue(p, j, err),
         SameRun(j, i), Ordered(j.plan), Sound(j.plan), at[p] \notin Setup => NoneEarly(j.plan)
  PROVE  GoesAs(p, i)
<1> DEFINE s == j.plan
           n == IF s = <<>> THEN <<>> ELSE Tail(s)
           l == IF s = <<>> THEN "done" ELSE Head(s)
           k == [j EXCEPT !.plan = IF @ = <<>> THEN <<>> ELSE Tail(@), !.ok = @ /\ ~err]
<1>1. at' = [at EXCEPT ![p] = l] /\ job' = [job EXCEPT ![p] = k]
  BY DEF Continue
<1>2. at'[p] = l /\ job'[p] = k
  BY <1>1 DEF AtWork, HostInv, Inv, Types
<1>3. SameRun(k, i) /\ k.plan = n
  BY DEF SameRun, JobFields
<1>4. s \in Seq(Names)
  BY DEF Sound
<1> HIDE DEF k
<1>5. CASE s = <<>>
  BY <1>2, <1>3, <1>5, EndIsPlaced DEF GoesAs, JobFormed, SameRun, Early, Setup, Waiting
<1>6. CASE s # <<>>
  <2>1. Head(s) \in Names /\ Head(s) = s[1] /\ 1 \in 1..Len(s)
    BY <1>4, <1>6, TailIs
  <2>2. Head(s) \notin {"idle", "over"} \cup Waiting
    BY <2>1 DEF Names, Waiting
  <2>3. Head(s) \in Early => at[p] \in Setup
    BY <2>1 DEF NoneEarly
  <2>4. Placed2(Head(s), Tail(s))
    BY <1>4, <1>6, NextStageIsPlaced
  <2> QED
    BY <1>2, <1>3, <1>6, <2>2, <2>3, <2>4 DEF GoesAs, JobFormed, SameRun
<1> QED
  BY <1>5, <1>6

LEMMA FailGoesAs ==
  ASSUME NEW p \in Procs, AtWork(p), NEW i, NEW j, FailWith(p, j), SameRun(j, i)
  PROVE  GoesAs(p, i)
<1> DEFINE s == IF at[p] \notin {"port", "key", "state"} /\ InPlan("cleanup", j.plan)
                THEN <<"cleanup">> ELSE <<>>
           k == [j EXCEPT !.plan = s]
<1>1. Continue(p, k, TRUE)
  BY DEF FailWith
<1>2. SameRun(k, i) /\ k.plan = s
  BY DEF SameRun, JobFields
<1> HIDE DEF k
<1>3. Ordered(s) /\ NoneEarly(s) /\ Sound(s)
  BY EndIsPlaced, EndIsSound
<1> QED
  BY <1>1, <1>2, <1>3, ContinueGoesAs

LEMMA ContinueGoesOn ==
  ASSUME NEW p \in Procs, AtWork(p), NEW j, NEW err, Continue(p, j, err),
         SameRun(j, job[p]), Ordered(j.plan), Sound(j.plan), at[p] \notin Setup => NoneEarly(j.plan)
  PROVE  GoesOn(p)
BY ContinueGoesAs DEF GoesOn

LEMMA FailGoesOn ==
  ASSUME NEW p \in Procs, AtWork(p), NEW j, FailWith(p, j), SameRun(j, job[p])
  PROVE  GoesOn(p)
BY FailGoesAs DEF GoesOn

LEMMA SameRunIs ==
  ASSUME NEW p, AtWork(p)
  PROVE  /\ SameRun(job[p], job[p])
         /\ \A fs : SameRun(Keeps(job[p], fs), job[p]) /\ Keeps(job[p], fs).plan = job[p].plan
<1>1. JobFields \subseteq DOMAIN job[p]
  BY DEF AtWork, JobFormed
<1>2. ASSUME NEW fs
      PROVE  SameRun(Keeps(job[p], fs), job[p]) /\ Keeps(job[p], fs).plan = job[p].plan
  BY <1>1 DEF SameRun, JobFields, Keeps
<1> QED
  BY <1>1, <1>2 DEF SameRun

LEMMA PlanIsPlaced ==
  ASSUME NEW p, AtWork(p)
  PROVE  /\ Ordered(job[p].plan) /\ Sound(job[p].plan)
         /\ at[p] \notin Setup => NoneEarly(job[p].plan)
BY DEF AtWork, JobFormed, Placed2

LEMMA SucceedGoesOn ==
  ASSUME NEW p \in Procs, AtWork(p), Succeed(p)
  PROVE  GoesOn(p)
BY SameRunIs, PlanIsPlaced, ContinueGoesOn DEF Succeed

LEMMA CheckGoesOn ==
  ASSUME NEW p \in Procs, AtWork(p), NEW possible, Check(p, possible)
  PROVE  GoesOn(p)
<1>1. SameRun(job[p], job[p])
  BY SameRunIs
<1>2. CASE Fail(p)
  BY <1>1, <1>2, FailGoesOn DEF Fail
<1>3. CASE Succeed(p)
  BY <1>3, SucceedGoesOn
<1> QED
  BY <1>2, <1>3 DEF Check

\* A step within a stage, where nothing of the job changes that matters here.
LEMMA WithinGoesOn ==
  ASSUME NEW p \in Procs, AtWork(p), at[p] \notin Early \cup {"cleanup"} \cup Waiting,
         NEW l, l \notin {"idle", "over"} \cup Waiting \cup Early \cup {"cleanup"},
         at'[p] = l, SameRun(job'[p], job[p]), job'[p].plan = job[p].plan
  PROVE  GoesOn(p)
BY DEF AtWork, GoesOn, GoesAs, JobFormed, Placed2, SameRun, Waiting, Early

\* The state file of p stays where it is.
StateStays(p) == "state" \in files[p] => "state" \in files'[p]

LEMMA StateStaysIf ==
  ASSUME NEW p \in Procs, Types,
         UNCHANGED files \/ (\E f : Create(p, f)) \/ Remove(p, {"vars"}) \/ Remove(p, {"key"})
           \/ Remove(p, {"script"})
  PROVE  StateStays(p)
BY DEF Types, StateStays, Create, Remove

\* The step keeps what holds of p, and a run that is alone was so before.
Fine(p) == Own(p)' /\ (Working(p)' => Working(p) /\ (job'[p].alone => job[p].alone))

LEMMA GoesOnIsFine ==
  ASSUME NEW p \in Procs, AtWork(p), GoesOn(p), StateStays(p), UNCHANGED session,
         at[p] \notin Waiting \cup {"done"}
  PROVE  Fine(p)
<1>1. Working(p)' /\ at'[p] # "idle"
  BY DEF GoesOn, GoesAs, Working
<1>2. ScriptFormed(script'[p]) /\ StateFormed(saved'[p]) /\ JobFormed(at'[p], job'[p])
  BY DEF AtWork, Own, GoesOn, GoesAs, session
<1>3. ASSUME job'[p].alone, ~job'[p].astray
      PROVE  Course(at'[p], job'[p], host', saved'[p], script'[p], files'[p])
  <2>1. Course(at[p], job[p], host, saved[p], script[p], files[p])
    BY <1>3 DEF AtWork, Own, GoesOn, GoesAs, SameRun
  <2>2. job'[p].was = job[p].was /\ UNCHANGED <<host, saved, script>>
    BY DEF GoesOn, GoesAs, SameRun, session
  <2>3. at'[p] \notin Waiting /\ (at'[p] \in Early => at[p] \in Setup)
    BY DEF GoesOn, GoesAs
  <2> QED
    BY <2>1, <2>2, <2>3 DEF Course, Waiting, Early, StateStays
<1>4. job'[p].alone = job[p].alone
  BY DEF GoesOn, GoesAs, SameRun
<1> QED
  BY <1>1, <1>2, <1>3, <1>4 DEF Own, Fine, AtWork

\* The steps of stages that leave the session alone.
QuietStage(p) ==
  /\ UNCHANGED session
  /\ \/ EnsureRunning(p) \/ ResolveSettings(p) \/ AskWinrm(p) \/ AskSsh(p) \/ AskLibvirt(p)
     \/ AskArp(p) \/ AskTart(p) \/ WaitForSSH(p) \/ LoadConfig(p) \/ FindSshpass(p)
     \/ SelectPort(p) \/ Reach(p) \/ Preflight(p)
     \/ BuildArgs(p) \/ ArgsBuilt(p) \/ RemoveVars(p) \/ AnsibleStep(p) \/ ResolveStep(p)
     \/ CreateKey(p)

LEMMA ResolveGoesOn ==
  ASSUME NEW p \in Procs, AtWork(p), Here(p), ResolveStep(p)
  PROVE  GoesOn(p) /\ StateStays(p) /\ at[p] \notin Waiting \cup {"done"}
<1>1. at[p] \in {"playbook", "roles"} \cup Resolving /\ UNCHANGED files
  BY ResolveStays DEF Here
<1>2. PICK l \in Resolving, c \in Caches :
        /\ at' = [at EXCEPT ![p] = l]
        /\ job' \in {job, [job EXCEPT ![p].used = @ \cup {c}], [job EXCEPT ![p].missed = TRUE]}
  BY ResolveStays DEF Here
<1>3. at'[p] = l
  BY <1>2 DEF Here, Types
<1>4. SameRun(job'[p], job[p]) /\ job'[p].plan = job[p].plan
  <2>1. \/ job'[p] = job[p] \/ job'[p] = [job[p] EXCEPT !.used = @ \cup {c}]
        \/ job'[p] = [job[p] EXCEPT !.missed = TRUE]
    BY <1>2 DEF Here, Types
  <2>2. JobFields \subseteq DOMAIN job[p]
    BY DEF AtWork, JobFormed
  <2> QED
    BY <2>1, <2>2 DEF SameRun, JobFields
<1>5. /\ Resolving \cap ({"idle", "over"} \cup Waiting \cup Early \cup {"cleanup", "done"}) = {}
      /\ {"playbook", "roles"} \cap (Waiting \cup Early \cup {"cleanup", "done"}) = {}
  BY DEF Resolving, Waiting, Early, Setup
<1> QED
  BY <1>1, <1>3, <1>4, <1>5, WithinGoesOn DEF StateStays

LEMMA ArgsGoOn ==
  ASSUME NEW p \in Procs, AtWork(p), Types, BuildArgs(p) \/ ArgsBuilt(p) \/ RemoveVars(p)
  PROVE  GoesOn(p) /\ StateStays(p) /\ at[p] \notin Waiting \cup {"done"}
<1>1. StateStays(p)
  BY StateStaysIf DEF BuildArgs, ArgsBuilt, RemoveVars
<1>2. at[p] \in {"args", "resolved", "unresolved", "vars"}
  BY DEF BuildArgs, ArgsBuilt, RemoveVars, Resolution
<1>3. SameRun(job[p], job[p]) /\ SameRun(Keeps(job[p], {"vars"}), job[p])
      /\ Keeps(job[p], {"vars"}).plan = job[p].plan
  BY SameRunIs
<1>4. ASSUME Fail(p) \/ FailWith(p, Keeps(job[p], {"vars"}))
      PROVE  GoesOn(p)
  BY <1>3, <1>4, FailGoesOn DEF Fail
<1>5. ASSUME Succeed(p)
      PROVE  GoesOn(p)
  BY <1>5, SucceedGoesOn
<1>6. ASSUME Continue(p, Keeps(job[p], {"vars"}), TRUE)
      PROVE  GoesOn(p)
  BY <1>3, <1>6, PlanIsPlaced, ContinueGoesOn
<1>7. ASSUME at[p] = "args" /\ at' = [at EXCEPT ![p] = "playbook"] /\ job' = [job EXCEPT ![p].use = "playbooks"]
      PROVE  GoesOn(p)
  <2>1. at'[p] = "playbook" /\ job'[p] = [job[p] EXCEPT !.use = "playbooks"]
    BY <1>7 DEF Types
  <2>2. SameRun(job'[p], job[p]) /\ job'[p].plan = job[p].plan
    BY <1>3, <2>1 DEF SameRun, JobFields
  <2> QED
    BY <1>7, <2>1, <2>2, WithinGoesOn DEF Waiting, Early, Setup
<1>8. GoesOn(p)
  BY <1>4, <1>5, <1>6, <1>7 DEF BuildArgs, ArgsBuilt, RemoveVars
<1> QED
  BY <1>1, <1>2, <1>8 DEF Waiting

LEMMA AnsibleGoesOn ==
  ASSUME NEW p \in Procs, AtWork(p), Types, AnsibleStep(p)
  PROVE  GoesOn(p) /\ StateStays(p) /\ at[p] \notin Waiting \cup {"done"}
<1>1. StateStays(p)
  BY DEF AnsibleStep, PrepareAnsible, RolesResolved, StartAnsible, AnsibleEnds, AnsibleTimesOut,
         OutputEnds, AnsibleOver, StateStays
<1>2. at[p] \in {"ansible", "resolved", "unresolved", "start", "play", "drain"}
  BY DEF AnsibleStep, PrepareAnsible, RolesResolved, StartAnsible, AnsibleEnds, AnsibleTimesOut,
         OutputEnds, Resolution
<1>3. SameRun(job[p], job[p])
  BY SameRunIs
<1>4. ASSUME NEW err, AnsibleOver(p, err)
      PROVE  GoesOn(p)
  BY <1>3, <1>4, PlanIsPlaced, ContinueGoesOn DEF AnsibleOver
<1>5. ASSUME NEW l \in {"start", "play", "drain"}, Goto(p, l)
      PROVE  GoesOn(p)
  <2>1. at'[p] = l /\ job'[p] = job[p]
    BY <1>5 DEF Goto, Types
  <2> QED
    BY <1>2, <1>3, <2>1, WithinGoesOn DEF Waiting, Early, Setup
<1>6. ASSUME PrepareAnsible(p)
      PROVE  GoesOn(p)
  <2>1. at'[p] = "roles" /\ job'[p] = [job[p] EXCEPT !.use = "roles"]
    BY <1>6 DEF PrepareAnsible, Types
  <2>2. SameRun(job'[p], job[p]) /\ job'[p].plan = job[p].plan
    BY <1>3, <2>1 DEF SameRun, JobFields
  <2> QED
    BY <1>2, <2>1, <2>2, WithinGoesOn DEF Waiting, Early, Setup
<1>7. GoesOn(p)
  BY <1>4, <1>5, <1>6 DEF AnsibleStep, RolesResolved, StartAnsible, AnsibleEnds, AnsibleTimesOut, OutputEnds
<1> QED
  BY <1>1, <1>2, <1>7 DEF Waiting

LEMMA KeyGoesOn ==
  ASSUME NEW p \in Procs, AtWork(p), Types, CreateKey(p)
  PROVE  GoesOn(p) /\ StateStays(p) /\ at[p] \notin Waiting \cup {"done"}
<1>1. StateStays(p)
  BY StateStaysIf DEF CreateKey
<1>2. at[p] = "key"
  BY DEF CreateKey
<1>3. SameRun(job[p], job[p]) /\ SameRun(Keeps(job[p], {"key"}), job[p])
  BY SameRunIs
<1>4. ASSUME Fail(p) \/ FailWith(p, Keeps(job[p], {"key"}))
      PROVE  GoesOn(p)
  BY <1>3, <1>4, FailGoesOn DEF Fail
<1>5. ASSUME Succeed(p)
      PROVE  GoesOn(p)
  BY <1>5, SucceedGoesOn
<1> QED
  BY <1>1, <1>2, <1>4, <1>5 DEF CreateKey, Waiting

LEMMA QuietStageGoesOn ==
  ASSUME NEW p \in Procs, AtWork(p), Here(p), Types, QuietStage(p)
  PROVE  GoesOn(p) /\ StateStays(p) /\ at[p] \notin Waiting \cup {"done"}
<1>1. ASSUME NEW possible, Check(p, possible), at[p] \notin Waiting \cup {"done"}
      PROVE  GoesOn(p) /\ StateStays(p) /\ at[p] \notin Waiting \cup {"done"}
  <2>1. StateStays(p)
    BY <1>1 DEF Check, StateStays
  <2> QED
    BY <1>1, <2>1, CheckGoesOn
<1>2. CASE \/ EnsureRunning(p) \/ ResolveSettings(p) \/ AskWinrm(p) \/ AskSsh(p) \/ AskLibvirt(p)
           \/ AskArp(p) \/ AskTart(p) \/ WaitForSSH(p) \/ LoadConfig(p) \/ FindSshpass(p)
           \/ SelectPort(p) \/ Reach(p) \/ Preflight(p)
  BY <1>1, <1>2
  DEF EnsureRunning, ResolveSettings, AskWinrm, AskSsh, AskLibvirt, AskArp, AskTart, WaitForSSH,
      LoadConfig, FindSshpass, SelectPort, Reach, Preflight, Waiting
<1>3. CASE BuildArgs(p) \/ ArgsBuilt(p) \/ RemoveVars(p) \/ AnsibleStep(p) \/ ResolveStep(p) \/ CreateKey(p)
  BY <1>3, ArgsGoOn, AnsibleGoesOn, ResolveGoesOn, KeyGoesOn
<1> QED
  BY <1>2, <1>3 DEF QuietStage

LEMMA QuietStageIsFine ==
  ASSUME NEW p \in Procs, AtWork(p), Here(p), Types, QuietStage(p)
  PROVE  Fine(p)
BY QuietStageGoesOn, GoesOnIsFine DEF QuietStage

-------------------------------------------------------------------------------
(* The stages of the session.                                              *)

LEMMA EmptyIs == StateFormed(Empty) /\ ~Empty.taken
BY DEF Empty, StateFormed

LEMMA StateGoesOn ==
  ASSUME NEW p \in Procs, AtWork(p), CreateState(p)
  PROVE  GoesOn(p)
<1>1. SameRun(job[p], job[p]) /\ SameRun(Keeps(job[p], {"key"}), job[p])
  BY SameRunIs
<1>2. CASE Succeed(p)
  BY <1>2, SucceedGoesOn
<1>3. CASE Fail(p) \/ FailWith(p, Keeps(job[p], {"key"}))
  BY <1>1, <1>3, FailGoesOn DEF Fail
<1> QED
  BY <1>2, <1>3 DEF CreateState

LEMMA StateIsFine ==
  ASSUME NEW p \in Procs, AtWork(p), Types, Tables, CreateState(p)
  PROVE  Fine(p)
<1>1. at[p] = "state" /\ saved'[p] = Empty /\ UNCHANGED <<host, script>>
  BY DEF CreateState, Tables
<1>2. GoesOn(p)
  BY StateGoesOn
<1>3. /\ Working(p)' /\ at'[p] # "idle" /\ JobFormed(at'[p], job'[p])
      /\ job'[p].was = job[p].was /\ job'[p].alone = job[p].alone /\ job'[p].astray = job[p].astray
      /\ at'[p] \notin Waiting
  BY <1>2 DEF GoesOn, GoesAs, SameRun, Working
<1>4. ScriptFormed(script'[p]) /\ StateFormed(saved'[p]) /\ ~saved'[p].taken
  BY <1>1, EmptyIs DEF AtWork, Own
<1>5. ASSUME job'[p].alone, ~job'[p].astray
      PROVE  Course(at'[p], job'[p], host', saved'[p], script'[p], files'[p])
  <2>1. Course(at[p], job[p], host, saved[p], script[p], files[p])
    BY <1>3, <1>5 DEF AtWork, Own
  <2>2. script[p].bootstrap = <<>> /\ script[p].cleanup = <<>> /\ host = job[p].was
    BY <1>1, <2>1 DEF Course, Early, Setup
  <2> QED
    BY <1>1, <1>3, <1>4, <2>2 DEF Course
<1> QED
  BY <1>3, <1>4, <1>5 DEF Own, Fine, AtWork

LEMMA StepsAre ==
  ASSUME NEW p, NEW k \in Kinds
  PROVE  /\ Steps(p, k) \in Seq(StepNames)
         /\ k = "bootstrap" => /\ Steps(p, k)[1] = "capture"
                               /\ \A i \in 1..Len(Steps(p, k)) : Steps(p, k)[i] = "capture" => i = 1
<1>1. /\ SshBootstrap \in Seq(StepNames) /\ SshBootstrap[1] = "capture"
      /\ \A i \in 1..Len(SshBootstrap) : SshBootstrap[i] = "capture" => i = 1
  BY DEF SshBootstrap, StepNames, Settings
<1>2. /\ WinrmBootstrap \in Seq(StepNames) /\ WinrmBootstrap[1] = "capture"
      /\ \A i \in 1..Len(WinrmBootstrap) : WinrmBootstrap[i] = "capture" => i = 1
  BY DEF WinrmBootstrap, StepNames, Settings
<1>3. SshCleanup \in Seq(StepNames) /\ WinrmCleanup \in Seq(StepNames)
  BY DEF SshCleanup, WinrmCleanup, StepNames, Settings
<1> QED
  BY <1>1, <1>2, <1>3 DEF Steps, Kinds

LEMMA LaunchIsFine ==
  ASSUME NEW p \in Procs, AtWork(p), Types, Tables, NEW k \in Kinds, Launch(p, k)
  PROVE  Fine(p)
<1>1. PICK steps \in {Steps(p, k), <<>>} :
        /\ script' = [script EXCEPT ![p][k] = steps, ![p].force = job[p].force]
        /\ job' = [job EXCEPT ![p].threw = steps = <<>>]
  BY DEF Launch
<1>2. /\ at[p] = k /\ at'[p] = Waits[k] /\ UNCHANGED <<host, saved>>
      /\ files'[p] = files[p] \cup {"script"}
  BY DEF Launch, Types, Create
<1> DEFINE b == steps = <<>>
<1>3. job'[p] = [job[p] EXCEPT !.threw = b]
  BY <1>1 DEF Types
<1> HIDE DEF b
<1>4. /\ JobFields \subseteq DOMAIN job'[p] /\ job'[p].plan = job[p].plan
      /\ job'[p].was = job[p].was /\ job'[p].alone = job[p].alone /\ job'[p].astray = job[p].astray
  BY <1>3 DEF AtWork, JobFormed, JobFields
<1>5. script'[p] = [script[p] EXCEPT ![k] = steps, !["force"] = job[p].force]
  BY <1>1 DEF Tables
<1>6. ScriptFormed(script[p]) /\ StateFormed(saved[p])
  BY DEF AtWork, Own
<1>7. /\ {"bootstrap", "cleanup", "force"} \subseteq DOMAIN script'[p]
      /\ script'[p][k] = steps
      /\ \A i \in Kinds \ {k} : script'[p][i] = script[p][i]
  BY <1>5, <1>6 DEF ScriptFormed, Kinds
<1>8. steps \in Seq(StepNames)
  BY StepsAre, EmptySeq
<1>9. CASE k = "bootstrap"
  <2>1. at[p] = "bootstrap" /\ at'[p] = "bootstrapping"
    BY <1>2, <1>9, WaitsAre
  <2>2. ScriptFormed(script'[p]) /\ script'[p].bootstrap = steps /\ script'[p].cleanup = script[p].cleanup
    BY <1>6, <1>7, <1>8, <1>9 DEF ScriptFormed, Kinds
  <2>3. JobFormed(at'[p], job'[p])
    BY <1>4, <2>1 DEF AtWork, JobFormed, Placed2, Setup
  <2>4. ASSUME job'[p].alone, ~job'[p].astray
        PROVE  Course(at'[p], job'[p], host', saved'[p], script'[p], files'[p])
    <3>1. Course(at[p], job[p], host, saved[p], script[p], files[p])
      BY <1>4, <2>4 DEF AtWork, Own
    <3>2. script[p].cleanup = <<>> /\ host = job[p].was /\ ~saved[p].taken
      BY <2>1, <3>1 DEF Course, Early, Setup
    <3>3. /\ steps # <<>> => steps[1] = "capture"
          /\ \A i \in 1..Len(steps) : steps[i] = "capture" => i = 1
      BY <1>9, StepsAre
    <3> QED
      BY <1>2, <1>4, <2>1, <2>2, <3>2, <3>3 DEF Course, Early, Setup
  <2> QED
    BY <1>2, <1>4, <1>6, <2>1, <2>2, <2>3, <2>4 DEF Own, Fine, AtWork, Working
<1>10. CASE k = "cleanup"
  <2>1. at[p] = "cleanup" /\ at'[p] = "restoring"
    BY <1>2, <1>10, WaitsAre
  <2>2. ScriptFormed(script'[p]) /\ script'[p].cleanup = steps /\ script'[p].bootstrap = script[p].bootstrap
    BY <1>6, <1>7, <1>8, <1>10 DEF ScriptFormed, Kinds
  <2>3. JobFormed(at'[p], job'[p])
    BY <1>4, <2>1, EndIsPlaced DEF AtWork, JobFormed, Placed2
  <2>4. ASSUME job'[p].alone, ~job'[p].astray
        PROVE  Course(at'[p], job'[p], host', saved'[p], script'[p], files'[p])
    <3>1. Course(at[p], job[p], host, saved[p], script[p], files[p])
      BY <1>4, <2>4 DEF AtWork, Own
    <3> QED
      BY <1>2, <1>4, <2>1, <2>2, <3>1 DEF Course, Early, Setup
  <2> QED
    BY <1>2, <1>4, <1>6, <2>1, <2>2, <2>3, <2>4 DEF Own, Fine, AtWork, Working
<1> QED
  BY <1>9, <1>10 DEF Kinds

\* The end of an elevated script, with a job j that is i but for its plan.
LEMMA ResultIs ==
  ASSUME NEW p \in Procs, AtWork(p), Types, NEW k \in Kinds, at[p] = Waits[k],
         NEW j, NEW good, Result(p, k, j, good), SameRun(j, j), j.plan = job[p].plan
  PROVE  /\ JobFormed(at'[p], job'[p]) /\ SameRun(job'[p], j)
         /\ at'[p] \notin {"idle", "over", "bootstrapping", "restoring"} \cup Early
         /\ k = "bootstrap" => at'[p] # "tidy"
<1>0. Ordered(j.plan) /\ Sound(j.plan) /\ (at[p] \notin Setup => NoneEarly(j.plan))
  BY PlanIsPlaced
<1>1. CASE k = "cleanup"
  <2>1. at[p] = "restoring"
    BY <1>1, WaitsAre
  <2>2. at'[p] = "tidy" /\ job'[p] = [j EXCEPT !.clean = good]
    BY <1>1 DEF Result, Types
  <2>3. SameRun(job'[p], j) /\ job'[p].plan = j.plan
    BY <2>2 DEF SameRun, JobFields
  <2>4. JobFormed(at'[p], job'[p])
    BY <2>1, <2>2, <2>3, EndIsPlaced DEF AtWork, JobFormed, Placed2, SameRun
  <2> QED
    BY <1>1, <2>2, <2>3, <2>4 DEF Early, Setup
<1>2. CASE k = "bootstrap"
  <2>1. at[p] = "bootstrapping"
    BY <1>2, WaitsAre
  <2>2. GoesAs(p, j)
    <3>1. CASE good
      <4> DEFINE i == [j EXCEPT !.booted = TRUE]
      <4>1. Continue(p, i, FALSE)
        BY <1>2, <3>1 DEF Result
      <4>2. SameRun(i, j) /\ i.plan = j.plan
        BY DEF SameRun, JobFields
      <4> HIDE DEF i
      <4> QED
        BY <1>0, <4>1, <4>2, ContinueGoesAs
    <3>2. CASE ~good
      BY <1>2, <3>2, FailGoesAs DEF Result
    <3> QED
      BY <3>1, <3>2
  <2> QED
    BY <1>2, <2>1, <2>2 DEF GoesAs, Waiting, Setup
<1> QED
  BY <1>1, <1>2 DEF Kinds

\* A run whose script is over goes on, and leaves the state file.
LEMMA ScriptOverIsFine ==
  ASSUME NEW p \in Procs, AtWork(p), Types, NEW k \in Kinds, ScriptOver(p, k)
  PROVE  Fine(p)
<1>1. at[p] = Waits[k] /\ script[p][k] = <<>> /\ UNCHANGED session
  BY DEF ScriptOver
<1>2. StateStays(p)
  BY StateStaysIf DEF ScriptOver
<1>3. PICK j : /\ Result(p, k, j, ~job[p].threw)
               /\ SameRun(j, job[p]) /\ SameRun(j, j) /\ j.plan = job[p].plan
  <2>1. /\ SameRun(job[p], job[p])
        /\ SameRun(Keeps(job[p], {"script"}), job[p]) /\ Keeps(job[p], {"script"}).plan = job[p].plan
    BY SameRunIs
  <2>2. SameRun(Keeps(job[p], {"script"}), Keeps(job[p], {"script"}))
    BY <2>1 DEF SameRun
  <2>3. Result(p, k, job[p], ~job[p].threw) \/ Result(p, k, Keeps(job[p], {"script"}), ~job[p].threw)
    BY DEF ScriptOver
  <2> QED
    BY <2>1, <2>2, <2>3
<1>4. /\ JobFormed(at'[p], job'[p]) /\ SameRun(job'[p], j)
      /\ at'[p] \notin {"idle", "over", "bootstrapping", "restoring"} \cup Early
      /\ k = "bootstrap" => at'[p] # "tidy"
  BY <1>1, <1>3, ResultIs
<1>5. job'[p].was = job[p].was /\ job'[p].alone = job[p].alone /\ job'[p].astray = job[p].astray
  BY <1>3, <1>4 DEF SameRun
<1>6. ASSUME job'[p].alone, ~job'[p].astray
      PROVE  Course(at'[p], job'[p], host', saved'[p], script'[p], files'[p])
  <2>1. Course(at[p], job[p], host, saved[p], script[p], files[p])
    BY <1>5, <1>6 DEF AtWork, Own
  <2>2. \/ k = "bootstrap" /\ at[p] = "bootstrapping" /\ script[p].bootstrap = <<>>
        \/ k = "cleanup" /\ at[p] = "restoring" /\ script[p].cleanup = <<>>
    BY <1>1, WaitsAre
  <2>3. script[p].bootstrap = <<>> /\ script[p].cleanup = <<>>
    BY <2>1, <2>2 DEF Course
  <2>4. UNCHANGED <<host, saved, script>>
    BY <1>1 DEF session
  <2>5. k = "cleanup" => at'[p] = "tidy"
    BY <1>3 DEF Result, Types
  <2> QED
    BY <1>2, <1>4, <1>5, <2>1, <2>2, <2>3, <2>4, <2>5 DEF Course, StateStays
<1>7. Own(p)'
  BY <1>1, <1>4, <1>6 DEF Own, AtWork, session
<1> QED
  BY <1>5, <1>7 DEF Fine, AtWork

\* A script that is left behind leads the run astray; where alchemy waits for
\* it, the run stays where it is.
LEMMA TimeoutIsFine ==
  ASSUME NEW p \in Procs, AtWork(p), Types, NEW k \in Kinds, Timeout(p, k)
  PROVE  Fine(p)
<1>1. at[p] = Waits[k] /\ UNCHANGED session
  BY DEF Timeout
<1>2. JobFields \subseteq DOMAIN job[p]
  BY DEF AtWork, JobFormed
<1>3. CASE job' = [job EXCEPT ![p].threw = TRUE] /\ UNCHANGED <<at, files>>
  <2>1. job'[p] = [job[p] EXCEPT !.threw = TRUE]
    BY <1>3 DEF Types
  <2>2. JobFormed(at[p], job'[p]) /\ SameRun(job'[p], job[p])
    BY <1>2, <2>1 DEF AtWork, JobFormed, JobFields, SameRun
  <2> QED
    BY <1>1, <1>3, <2>2 DEF Own, Fine, AtWork, session, SameRun, Course, Working, ScriptsOver
<1> DEFINE that == [job[p] EXCEPT !.astray = TRUE]
<1>4. ASSUME NEW j \in {that, Keeps(that, {"script"})}, Result(p, k, j, FALSE)
      PROVE  Fine(p)
  <2>1. SameRun(j, j) /\ j.plan = job[p].plan /\ j.alone = job[p].alone /\ j.astray
    BY <1>2, <1>4 DEF SameRun, JobFields, Keeps
  <2>2. Result(p, k, j, FALSE)
    BY <1>4
  <2>3. /\ JobFormed(at'[p], job'[p]) /\ SameRun(job'[p], j)
        /\ at'[p] \notin {"idle", "over"}
    BY <1>1, <2>1, <2>2, ResultIs
  <2>4. job'[p].astray /\ job'[p].alone = job[p].alone
    BY <2>1, <2>3 DEF SameRun
  <2> QED
    BY <1>1, <2>3, <2>4 DEF Own, Fine, AtWork, session
<1> QED
  BY <1>3, <1>4 DEF Timeout

\* Tidying up is the end.
LEMMA TidyIsFine ==
  ASSUME NEW p \in Procs, AtWork(p), Types, Tidy(p)
  PROVE  Fine(p)
<1>1. PICK kept : Continue(p, Keeps(job[p], kept), kept # {} \/ ~job[p].clean)
  BY DEF Tidy
<1>2. at[p] = "tidy" /\ job[p].plan = <<>> /\ UNCHANGED session
  BY DEF Tidy, AtWork, JobFormed, Placed2
<1>3. SameRun(Keeps(job[p], kept), job[p]) /\ Keeps(job[p], kept).plan = job[p].plan
  BY SameRunIs
<1>4. at'[p] = "done"
  BY <1>1, <1>2, <1>3 DEF Continue, Types
<1>5. GoesOn(p)
  BY <1>1, <1>3, PlanIsPlaced, ContinueGoesOn
<1>6. JobFormed(at'[p], job'[p]) /\ job'[p].alone = job[p].alone /\ job'[p].astray = job[p].astray
  BY <1>5 DEF GoesOn, GoesAs, SameRun
<1>7. ASSUME job'[p].alone, ~job'[p].astray
      PROVE  Course(at'[p], job'[p], host', saved'[p], script'[p], files'[p])
  <2>1. Course(at[p], job[p], host, saved[p], script[p], files[p])
    BY <1>6, <1>7 DEF AtWork, Own
  <2>2. script[p].bootstrap = <<>> /\ script[p].cleanup = <<>>
    BY <1>2, <2>1 DEF Course
  <2>3. UNCHANGED <<host, saved, script>>
    BY <1>2 DEF session
  <2> QED
    BY <1>4, <2>2, <2>3 DEF Course, Early, Setup
<1> QED
  BY <1>2, <1>4, <1>6, <1>7 DEF Own, Fine, AtWork, session

\* The steps of a run, by what they do to the session.
LEMMA WorkIs ==
  ASSUME NEW p \in Procs, Work(p) \/ OutputEnds(p)
  PROVE  \/ Finish(p) \/ QuietStage(p) \/ CreateState(p) \/ Tidy(p)
         \/ \E k \in Kinds : Launch(p, k) \/ ScriptOver(p, k) \/ Timeout(p, k)
<1>1. ASSUME \/ EnsureRunning(p) \/ ResolveSettings(p) \/ AskWinrm(p) \/ AskSsh(p) \/ AskLibvirt(p)
             \/ AskArp(p) \/ AskTart(p) \/ WaitForSSH(p) \/ LoadConfig(p) \/ FindSshpass(p)
             \/ BuildArgs(p) \/ ArgsBuilt(p) \/ (RemoveVars(p) /\ UNCHANGED world)
             \/ (ResolveStep(p) /\ UNCHANGED <<session, scene, guest, changes>>)
             \/ AnsibleStep(p)
             \/ SelectPort(p) \/ Reach(p) \/ Preflight(p) \/ CreateKey(p)
      PROVE  QuietStage(p)
  <2>1. UNCHANGED session
    BY <1>1
    DEF EnsureRunning, ResolveSettings, AskWinrm, AskSsh, AskLibvirt, AskArp, AskTart, WaitForSSH,
        LoadConfig, FindSshpass, BuildArgs, ArgsBuilt, AnsibleStep, PrepareAnsible, RolesResolved,
        StartAnsible, AnsibleEnds, AnsibleTimesOut, OutputEnds, AnsibleOver,
        SelectPort, Reach, Preflight, CreateKey, world
  <2> QED
    BY <1>1, <2>1 DEF QuietStage
<1> QED
  BY <1>1 DEF Work, SessionStep, AnsibleStep

LEMMA WorkIsFine ==
  ASSUME HostInv, NEW p \in Procs, Work(p) \/ OutputEnds(p)
  PROVE  Working(p) /\ UNCHANGED host /\ Fine(p)
<1>1. Working(p)
  BY ResolveStays, WaitsAre
  DEF HostInv, Inv, Work, OutputEnds, Finish, EnsureRunning, ResolveSettings, AskWinrm, AskSsh, AskLibvirt,
      AskArp, AskTart, WaitForSSH, LoadConfig, FindSshpass, BuildArgs, ArgsBuilt, PrepareAnsible,
      RolesResolved, StartAnsible, AnsibleEnds, AnsibleTimesOut, RemoveVars, SessionStep,
      SelectPort, CreateKey, CreateState, Launch, ScriptOver, Timeout, Tidy, Reach, Preflight,
      Resolution, Resolving, Kinds, Working
<1>2. AtWork(p) /\ Here(p) /\ Types /\ Tables
  BY <1>1, AtWorkIs
<1>3. CASE Finish(p)
  <2>1. ~Working(p)' /\ at'[p] # "idle" /\ UNCHANGED session
    BY <1>2, <1>3 DEF Finish, world, Working, Types
  <2> QED
    BY <1>1, <1>2, <2>1 DEF Fine, Own, AtWork, session
<1>4. CASE QuietStage(p)
  BY <1>1, <1>2, <1>4, QuietStageIsFine DEF QuietStage, session
<1>5. CASE CreateState(p)
  BY <1>1, <1>2, <1>5, StateIsFine DEF CreateState
<1>6. ASSUME NEW k \in Kinds, Launch(p, k) \/ ScriptOver(p, k) \/ Timeout(p, k)
      PROVE  Working(p) /\ UNCHANGED host /\ Fine(p)
  BY <1>1, <1>2, <1>6, LaunchIsFine, ScriptOverIsFine, TimeoutIsFine
  DEF Launch, ScriptOver, Timeout, session
<1>7. CASE Tidy(p)
  BY <1>1, <1>2, <1>7, TidyIsFine DEF Tidy, session
<1> QED
  BY <1>3, <1>4, <1>5, <1>6, <1>7, WorkIs

\* Only the session of p changes.
LEMMA WorkTables ==
  ASSUME HostInv, NEW p \in Procs, Work(p) \/ OutputEnds(p)
  PROVE  saved' = [saved EXCEPT ![p] = saved'[p]] /\ script' = [script EXCEPT ![p] = script'[p]]
<1>1. saved = [q \in Procs |-> saved[q]] /\ script = [q \in Procs |-> script[q]]
  BY DEF HostInv, Tables
<1>2. CASE UNCHANGED session
  BY <1>1, <1>2 DEF session
<1>3. CASE CreateState(p)
  BY <1>1, <1>3 DEF CreateState
<1>4. ASSUME NEW k \in Kinds, Launch(p, k)
      PROVE  saved' = [saved EXCEPT ![p] = saved'[p]] /\ script' = [script EXCEPT ![p] = script'[p]]
  BY <1>1, <1>4 DEF Launch
<1> QED
  BY <1>2, <1>3, <1>4
  DEF Work, OutputEnds, Finish, EnsureRunning, ResolveSettings, AskWinrm, AskSsh, AskLibvirt,
      AskArp, AskTart, WaitForSSH, LoadConfig, FindSshpass, BuildArgs, ArgsBuilt, PrepareAnsible,
      RolesResolved, StartAnsible, AnsibleEnds, AnsibleTimesOut, AnsibleOver, SessionStep,
      SelectPort, CreateKey, ScriptOver, Timeout, Tidy, Reach, Preflight, world

LEMMA WorkKeepsHostInv ==
  ASSUME HostInv, NEW p \in Procs, Work(p) \/ OutputEnds(p)
  PROVE  HostInv'
<1>1. Inv /\ Moves(p)
  BY WorkMoves DEF HostInv
<1>2. Inv' /\ SessionTypes'
  BY <1>1, MovesKeepInv, WorkTypes DEF HostInv
<1> QED
  BY <1>1, <1>2, WorkIsFine, WorkTables, OwnStep DEF Moves, Fine

-------------------------------------------------------------------------------
(* The elevated scripts.                                                   *)

\* A script of p goes on, or stops.
Steps1(p, k) ==
  {[script[p] EXCEPT ![k] = s] : s \in {Tail(script[p][k]), <<>>, <<"stop">>}}

States1(p) == {saved[p], [saved[p] EXCEPT !.managed = TRUE], [saved[p] EXCEPT !.created = TRUE]}

Changes(p) ==
  /\ saved' = [saved EXCEPT ![p] = saved'[p]] /\ script' = [script EXCEPT ![p] = script'[p]]

\* A step of the bootstrap, after it has saved the state.
BootStep(p) ==
  /\ UNCHANGED run /\ Changes(p)
  /\ script[p].bootstrap # <<>> /\ Head(script[p].bootstrap) # "capture"
  /\ script'[p] \in Steps1(p, "bootstrap") /\ saved'[p] \in States1(p)

\* A step of the cleanup.
CleanStep(p) ==
  /\ UNCHANGED run /\ Changes(p)
  /\ script[p].cleanup # <<>>
  /\ script'[p] \in Steps1(p, "cleanup") /\ saved'[p] = saved[p]

LEMMA SettingsAre == "capture" \notin Settings
BY DEF Settings

LEMMA SetsIs ==
  ASSUME Tables, NEW p \in Procs, NEW k, NEW h, Sets(p, k, h)
  PROVE  /\ UNCHANGED run /\ Changes(p) /\ saved'[p] = saved[p]
         /\ script'[p] = [script[p] EXCEPT ![k] = Tail(script[p][k])]
BY DEF Tables, Sets, Onward, Changes

LEMMA BootStepIs ==
  ASSUME Tables, NEW p \in Procs,
         \/ Install(p) \/ Enable(p) \/ Restart(p) \/ EnableWinRM(p) \/ CreateListener(p)
         \/ \E s \in Settings : Configure(p, s)
  PROVE  BootStep(p)
<1> USE DEF BootStep, Steps1, States1
<1>1. ASSUME NEW s, s # "capture", Doing(p, "bootstrap", s), NEW h, Sets(p, "bootstrap", h)
      PROVE  BootStep(p)
  BY <1>1, SetsIs DEF Doing
<1>2. CASE Enable(p) \/ Restart(p) \/ EnableWinRM(p)
  BY <1>1, <1>2 DEF Enable, Restart, EnableWinRM
<1>3. ASSUME NEW s \in Settings, Configure(p, s)
      PROVE  BootStep(p)
  BY <1>1, <1>3, SettingsAre DEF Configure
<1>4. ASSUME Onward(p, "bootstrap") \/ script' = [script EXCEPT ![p]["bootstrap"] = <<"stop">>],
             \/ saved' = saved \/ saved' = [saved EXCEPT ![p].managed = TRUE]
             \/ saved' = [saved EXCEPT ![p].created = TRUE]
      PROVE  /\ Changes(p) /\ script'[p] \in Steps1(p, "bootstrap") /\ saved'[p] \in States1(p)
  <2>1. script' = [script EXCEPT ![p] = script'[p]] /\ script'[p] \in Steps1(p, "bootstrap")
    BY <1>4 DEF Tables, Onward
  <2>2. saved' = [saved EXCEPT ![p] = saved'[p]] /\ saved'[p] \in States1(p)
    BY <1>4 DEF Tables
  <2> QED
    BY <2>1, <2>2 DEF Changes
<1>5. CASE Install(p)
  BY <1>4, <1>5 DEF Install, Doing
<1>6. CASE CreateListener(p)
  BY <1>4, <1>6 DEF CreateListener, Doing
<1> QED
  BY <1>2, <1>3, <1>5, <1>6

LEMMA CleanStepIs ==
  ASSUME Tables, NEW p \in Procs,
         \/ Load(p) \/ Reload(p) \/ RestoreSshd(p) \/ RestoreWinRM(p)
         \/ \E s \in Settings : Restore(p, s)
  PROVE  CleanStep(p)
<1> USE DEF CleanStep, Steps1
<1>1. ASSUME NEW s, Doing(p, "cleanup", s), NEW h, Sets(p, "cleanup", h)
      PROVE  CleanStep(p)
  BY <1>1, SetsIs DEF Doing
<1>2. CASE Reload(p) \/ RestoreSshd(p) \/ RestoreWinRM(p)
  BY <1>1, <1>2 DEF Reload, RestoreSshd, RestoreWinRM
<1>3. ASSUME NEW s \in Settings, Restore(p, s)
      PROVE  CleanStep(p)
  BY <1>1, <1>3 DEF Restore
<1>4. CASE Load(p)
  BY <1>4 DEF Load, Doing, Onward, Tables, Changes
<1> QED
  BY <1>2, <1>3, <1>4

LEMMA TailHasNoCapture ==
  ASSUME NEW s \in Seq(StepNames), s # <<>>, NEW h, NEW w,
         \A i \in 1..Len(s) : s[i] = "capture" => i = 1 /\ h = w
  PROVE  /\ Tail(s) \in Seq(StepNames)
         /\ \A i \in 1..Len(Tail(s)) : Tail(s)[i] # "capture"
<1>1. /\ Tail(s) \in Seq(StepNames) /\ Len(Tail(s)) \in Nat
      /\ \A i \in 1..Len(Tail(s)) : i + 1 \in 1..Len(s) /\ Tail(s)[i] = s[i + 1]
  BY TailIs
<1>2. ASSUME NEW i \in 1..Len(Tail(s))
      PROVE  Tail(s)[i] # "capture"
  <2>1. i + 1 # 1
    BY <1>1
  <2> QED
    BY <1>1, <2>1
<1> QED
  BY <1>1, <1>2

LEMMA StopIs ==
  /\ <<>> \in Seq(StepNames) /\ <<"stop">> \in Seq(StepNames)
  /\ \A i \in 1..Len(<<>>) : <<>>[i] # "capture"
  /\ \A i \in 1..Len(<<"stop">>) : <<"stop">>[i] # "capture"
BY DEF StepNames

\* A script that goes on is formed, and has saved the state already.
LEMMA ScriptGoesOn ==
  ASSUME NEW p \in Procs, ScriptFormed(script[p]), NEW k \in Kinds, script[p][k] # <<>>,
         script'[p] \in Steps1(p, k)
  PROVE  /\ ScriptFormed(script'[p])
         /\ \A i \in Kinds \ {k} : script'[p][i] = script[p][i]
<1>1. PICK s \in {Tail(script[p][k]), <<>>, <<"stop">>} : script'[p] = [script[p] EXCEPT ![k] = s]
  BY DEF Steps1
<1>2. script[p][k] \in Seq(StepNames)
  BY DEF ScriptFormed, Kinds
<1>3. s \in Seq(StepNames)
  BY <1>2, StopIs, TailIs
<1> QED
  BY <1>1, <1>3 DEF ScriptFormed, Kinds

LEMMA BootStepIsFine ==
  ASSUME HostInv, NEW p \in Procs, BootStep(p)
  PROVE  Fine(p)
<1> DEFINE b == script[p].bootstrap
<1>1. Own(p) /\ UNCHANGED run /\ b # <<>> /\ ScriptFormed(script[p]) /\ "bootstrap" \in Kinds
  BY DEF HostInv, BootStep, Own, Kinds
<1>2. /\ ScriptFormed(script'[p]) /\ script'[p].cleanup = script[p].cleanup
      /\ at[p] # "idle"
  BY <1>1, ScriptGoesOn DEF BootStep, Kinds, Own, ScriptsOver
<1>3. StateFormed(saved'[p]) /\ saved'[p].taken = saved[p].taken /\ saved'[p].was = saved[p].was
  BY <1>1 DEF BootStep, States1, StateFormed, Own
<1>4. ASSUME Working(p), job[p].alone, ~job[p].astray
      PROVE  Course(at[p], job[p], host', saved'[p], script'[p], files[p])
  <2>1. Course(at[p], job[p], host, saved[p], script[p], files[p])
    BY <1>1, <1>4 DEF Own
  <2>2. b \in Seq(StepNames) /\ Head(b) = b[1] /\ b[1] # "capture"
    BY <1>1, TailIs DEF ScriptFormed, BootStep
  <2>3. saved[p].taken /\ at[p] = "bootstrapping"
    BY <1>1, <2>1, <2>2 DEF Course
  <2>4. \A i \in 1..Len(b) : b[i] = "capture" => i = 1 /\ host = job[p].was
    BY <2>1 DEF Course
  <2>5. script'[p].bootstrap \in {Tail(b), <<>>, <<"stop">>}
    BY <1>1 DEF BootStep, Steps1, ScriptFormed
  <2>6. \A i \in 1..Len(script'[p].bootstrap) : script'[p].bootstrap[i] # "capture"
    BY <1>1, <2>2, <2>4, <2>5, StopIs, TailHasNoCapture
  <2>7. saved'[p].taken
    BY <1>3, <2>3
  <2> QED
    BY <1>2, <1>3, <2>1, <2>3, <2>6, <2>7 DEF Course, Early, Setup
<1> QED
  BY <1>1, <1>2, <1>3, <1>4 DEF Own, Fine, run, Working

LEMMA CleanStepIsFine ==
  ASSUME HostInv, NEW p \in Procs, CleanStep(p)
  PROVE  Fine(p)
<1>1. Own(p) /\ UNCHANGED run /\ script[p].cleanup # <<>> /\ ScriptFormed(script[p]) /\ "cleanup" \in Kinds
  BY DEF HostInv, CleanStep, Own, Kinds
<1>2. /\ ScriptFormed(script'[p]) /\ script'[p].bootstrap = script[p].bootstrap
      /\ at[p] # "idle" /\ saved'[p] = saved[p]
  BY <1>1, ScriptGoesOn DEF CleanStep, Kinds, Own, ScriptsOver
<1>3. ASSUME Working(p), job[p].alone, ~job[p].astray
      PROVE  Course(at[p], job[p], host', saved'[p], script'[p], files[p])
  <2>1. Course(at[p], job[p], host, saved[p], script[p], files[p])
    BY <1>1, <1>3 DEF Own
  <2>2. at[p] = "restoring" /\ script[p].bootstrap = <<>>
    BY <1>1, <2>1 DEF Course
  <2> QED
    BY <1>2, <2>1, <2>2 DEF Course, Early, Setup
<1> QED
  BY <1>1, <1>2, <1>3 DEF Own, Fine, run, Working

LEMMA CaptureIsFine ==
  ASSUME HostInv, NEW p \in Procs, Capture(p)
  PROVE  Fine(p) /\ Changes(p)
<1> DEFINE b == script[p].bootstrap
<1>1. /\ Own(p) /\ Tables /\ UNCHANGED <<at, job, host>> /\ b # <<>> /\ ScriptFormed(script[p])
      /\ Head(b) = "capture"
  BY DEF HostInv, Capture, Own, Doing
<1>2. /\ script'[p] = [script[p] EXCEPT !["bootstrap"] = Tail(b)]
      /\ saved'[p] = [Empty EXCEPT !.taken = TRUE, !.was = Found(host)] /\ Changes(p)
  BY <1>1 DEF Capture, Onward, Tables, Changes
<1>3. /\ ScriptFormed(script'[p]) /\ script'[p].cleanup = script[p].cleanup
      /\ script'[p].bootstrap = Tail(b) /\ at[p] # "idle"
  <2>1. Tail(b) \in Seq(StepNames)
    BY <1>1, TailIs DEF ScriptFormed
  <2> HIDE DEF b
  <2>2. at[p] # "idle"
    BY <1>1 DEF Own, ScriptsOver, b
  <2> QED
    BY <1>1, <1>2, <2>1, <2>2 DEF ScriptFormed
<1>4. /\ StateFormed(saved'[p]) /\ saved'[p].taken /\ saved'[p].was = Found(host)
      /\ host \in HostStates
  BY <1>2 DEF Empty, StateFormed, HostInv, SessionTypes
<1>5. "state" \in files'[p]
  BY DEF HostInv, Inv, Types, Capture
<1>6. ASSUME Working(p), job[p].alone, ~job[p].astray
      PROVE  Course(at[p], job[p], host, saved'[p], script'[p], files'[p])
  <2>1. Course(at[p], job[p], host, saved[p], script[p], files[p])
    BY <1>1, <1>6 DEF Own
  <2>2. b \in Seq(StepNames) /\ b[1] = "capture" /\ 1 \in 1..Len(b)
    BY <1>1, TailIs DEF ScriptFormed
  <2>3. host = job[p].was /\ at[p] = "bootstrapping"
    BY <1>1, <2>1, <2>2 DEF Course
  <2>4. \A i \in 1..Len(b) : b[i] = "capture" => i = 1 /\ host = job[p].was
    BY <2>1 DEF Course
  <2>5. \A i \in 1..Len(Tail(b)) : Tail(b)[i] # "capture"
    BY <1>1, <2>2, <2>4, TailHasNoCapture
  <2> QED
    BY <1>3, <1>4, <1>5, <2>1, <2>3, <2>5 DEF Course, Early, Setup
<1> QED
  BY <1>1, <1>2, <1>3, <1>4, <1>6 DEF Own, Fine, Working

LEMMA ThrowIsFine ==
  ASSUME HostInv, NEW p \in Procs, NEW k \in Kinds, Throw(p, k)
  PROVE  Fine(p) /\ Changes(p)
<1>1. /\ Own(p) /\ Tables /\ Types /\ UNCHANGED <<at, files, host, saved>> /\ script[p][k] # <<>>
      /\ ScriptFormed(script[p])
  BY DEF HostInv, Inv, Throw, Own
<1>2. script'[p] = [script[p] EXCEPT ![k] = <<>>] /\ Changes(p)
  BY <1>1 DEF Throw, Tables, Changes
<1>3. /\ ScriptFormed(script'[p]) /\ script'[p][k] = <<>>
      /\ \A i \in Kinds \ {k} : script'[p][i] = script[p][i]
  BY <1>1, <1>2, StopIs DEF ScriptFormed, Kinds
<1>4. at[p] # "idle"
  BY <1>1 DEF Own, ScriptsOver, Kinds
<1>5. Working(p) => JobFormed(at[p], job'[p]) /\ SameRun(job'[p], job[p])
  <2>1. job'[p] = job[p] \/ job'[p] = [job[p] EXCEPT !.threw = TRUE]
    BY <1>1 DEF Throw, Types
  <2> QED
    BY <1>1, <2>1 DEF Own, JobFormed, SameRun, JobFields
<1>6. ASSUME Working(p), job'[p].alone, ~job'[p].astray
      PROVE  Course(at[p], job'[p], host, saved[p], script'[p], files[p])
  <2>1. /\ Course(at[p], job[p], host, saved[p], script[p], files[p])
        /\ job'[p].was = job[p].was
    BY <1>1, <1>5, <1>6 DEF Own, SameRun
  <2>2. /\ script'[p].bootstrap \in {<<>>, script[p].bootstrap}
        /\ script'[p].cleanup \in {<<>>, script[p].cleanup}
    BY <1>3 DEF Kinds
  <2>3. \A i \in 1..Len(script'[p].bootstrap) :
          script'[p].bootstrap[i] = "capture" => i = 1 /\ host = job[p].was
    BY <2>1, <2>2, StopIs DEF Course
  <2> QED
    BY <2>1, <2>2, <2>3 DEF Course
<1> QED
  BY <1>1, <1>2, <1>3, <1>4, <1>5, <1>6 DEF Own, Fine, Working, SameRun

LEMMA ScriptKeepsHostInv ==
  ASSUME HostInv, NEW p \in Procs, RunScript(p)
  PROVE  HostInv'
<1>1. Inv /\ Tables /\ ScriptStep(p)
  BY DEF HostInv, RunScript
<1>2. Moves(p)
  BY <1>1, ScriptMoves DEF Inv
<1>3. Inv' /\ SessionTypes'
  BY <1>1, <1>2, MovesKeepInv, ScriptTypes DEF HostInv
<1>4. CASE Capture(p)
  BY <1>2, <1>3, <1>4, CaptureIsFine, OwnStep DEF Moves, Fine, Changes, Capture, Doing, ScriptsOver
<1>5. ASSUME NEW k \in Kinds, Throw(p, k)
      PROVE  HostInv'
  <2>1. ~ScriptsOver(p)
    BY <1>5 DEF Throw, Kinds, ScriptsOver
  <2> QED
    BY <1>2, <1>3, <1>5, <2>1, ThrowIsFine, OwnStep DEF Moves, Fine, Changes
<1>6. CASE BootStep(p)
  BY <1>2, <1>3, <1>6, BootStepIsFine, OwnStep DEF Moves, Fine, Changes, BootStep, ScriptsOver
<1>7. CASE CleanStep(p)
  BY <1>2, <1>3, <1>7, CleanStepIsFine, OwnStep DEF Moves, Fine, Changes, CleanStep, ScriptsOver
<1> QED
  BY <1>1, <1>4, <1>5, <1>6, <1>7, BootStepIs, CleanStepIs DEF ScriptStep

-------------------------------------------------------------------------------
(* The other steps, and the theorem.                                       *)

\* A run begins with the host as it is.
LEMMA BeginKeepsHostInv ==
  ASSUME HostInv, NEW p \in Procs, Begin(p)
  PROVE  HostInv'
<1> DEFINE alone == \A q \in Procs \ {p} : ~Working(q) /\ ScriptsOver(q)
           made(plan, force) ==
        [plan |-> Tail(plan), ok |-> TRUE, kept |-> {}, alone |-> alone,
         use |-> "playbooks", used |-> {}, seen |-> origin, missed |-> FALSE,
         vm |-> InPlan("running", plan), ssh |-> InPlan("key", plan), force |-> force, threw |-> FALSE,
         booted |-> FALSE, clean |-> FALSE, astray |-> FALSE, was |-> host]
<1>1. PICK plan \in Plans(scene.os), force \in BOOLEAN :
        /\ at' = [at EXCEPT ![p] = Head(plan)]
        /\ job' = [q \in Procs |->
             IF q = p THEN made(plan, force)
             ELSE IF Working(q) THEN [job[q] EXCEPT !.alone = FALSE] ELSE job[q]]
  BY Zenon DEF Begin
<1>2. /\ JobFields \subseteq DOMAIN made(plan, force)
      /\ made(plan, force).plan = Tail(plan) /\ made(plan, force).was = host
      /\ made(plan, force).alone => alone
  BY DEF JobFields
<1> HIDE DEF made
<1>3. /\ Inv' /\ SessionTypes' /\ Tables /\ Types /\ at[p] = "idle"
      /\ UNCHANGED <<files, host, saved, script>>
  BY BeginKeepsInv DEF HostInv, SessionTypes, Inv, Begin, world, session
<1>4. /\ plan \in Seq(Names) /\ plan # <<>> /\ Head(plan) \in Names
      /\ Placed2(Head(plan), Tail(plan))
  <2>1. Sound(plan) /\ plan # <<>> /\ Ordered(plan)
    BY PlansAreSound, PlansAreOrdered
  <2>2. plan \in Seq(Names)
    BY <2>1 DEF Sound
  <2> QED
    BY <2>1, <2>2, RestIsSound, NextStageIsPlaced
<1>5. /\ at'[p] = Head(plan) /\ job'[p] = made(plan, force) /\ Working(p)'
      /\ at'[p] \notin {"idle", "restoring", "tidy", "bootstrapping"}
  BY <1>1, <1>3, <1>4 DEF Types, Names, Working
<1>6. ASSUME NEW q \in Procs, q # p
      PROVE  /\ at'[q] = at[q]
             /\ job'[q] = IF Working(q) THEN [job[q] EXCEPT !.alone = FALSE] ELSE job[q]
  BY <1>1, <1>3, <1>6 DEF Types
<1>7. Own(p)'
  <2>1. ScriptFormed(script[p]) /\ StateFormed(saved[p]) /\ ~saved[p].taken /\ ScriptsOver(p)
    BY <1>3 DEF HostInv, Own
  <2>2. JobFormed(at'[p], job'[p])
    BY <1>2, <1>4, <1>5 DEF JobFormed
  <2>3. Course(at'[p], job'[p], host, saved[p], script[p], files[p])
    BY <1>2, <1>5, <2>1 DEF Course, ScriptsOver
  <2> QED
    BY <1>3, <1>5, <2>1, <2>2, <2>3 DEF Own
<1>8. ASSUME NEW q \in Procs, q # p
      PROVE  Own(q)'
  <2>1. CASE Working(q)
    <3>1. job'[q] = [job[q] EXCEPT !.alone = FALSE] /\ JobFormed(at[q], job[q])
      BY <1>6, <1>8, <2>1 DEF HostInv, Own
    <3>2. JobFormed(at[q], job'[q]) /\ ~job'[q].alone
      BY <3>1 DEF JobFormed, JobFields
    <3> QED
      BY <1>3, <1>6, <1>8, <3>2 DEF HostInv, Own, ScriptsOver
  <2>2. CASE ~Working(q)
    BY <1>3, <1>6, <1>8, <2>2 DEF HostInv, Own, Working, ScriptsOver
  <2> QED
    BY <2>1, <2>2
<1>9. Undisturbed(p)'
  BY <1>2, <1>3, <1>5, <1>6 DEF Undisturbed, Working, ScriptsOver
<1>10. ASSUME NEW q \in Procs, q # p
       PROVE  Undisturbed(q)'
  <2>1. CASE Working(q)
    <3>1. job'[q] = [job[q] EXCEPT !.alone = FALSE] /\ JobFormed(at[q], job[q])
      BY <1>6, <1>10, <2>1 DEF HostInv, Own
    <3>2. ~job'[q].alone
      BY <3>1 DEF JobFormed, JobFields
    <3> QED
      BY <3>2 DEF Undisturbed
  <2>2. CASE ~Working(q)
    BY <1>6, <1>10, <2>2 DEF Undisturbed, Working
  <2> QED
    BY <2>1, <2>2
<1> QED
  BY <1>3, <1>7, <1>8, <1>9, <1>10 DEF HostInv, Tables

LEMMA DieKeepsHostInv ==
  ASSUME HostInv, NEW p \in Procs, Die(p)
  PROVE  HostInv'
<1>1. Working(p) /\ UNCHANGED session /\ at' = [at EXCEPT ![p] = "over"] /\ Tables /\ Inv
  BY DEF HostInv, Die
<1>2. "over" \in Labels
  BY DEF Labels, StepsOfStages
<1>3. Moves(p)
  BY <1>1, <1>2, GotoMoves DEF Inv, Die, Safe
<1>4. Inv' /\ SessionTypes'
  BY <1>1, <1>3, MovesKeepInv DEF HostInv, SessionTypes, session
<1>5. at'[p] = "over"
  BY <1>1 DEF Inv, Types
<1>6. Fine(p)
  BY <1>1, <1>5 DEF HostInv, Own, Fine, Working, session
<1>7. saved' = [saved EXCEPT ![p] = saved'[p]] /\ script' = [script EXCEPT ![p] = script'[p]]
  BY <1>1 DEF Tables, session
<1> QED
  BY <1>1, <1>3, <1>4, <1>6, <1>7, OwnStep DEF Moves, Fine

LEMMA StepHostInv == HostInv /\ [Next]_vars => HostInv'
<1> SUFFICES ASSUME HostInv, [Next]_vars PROVE HostInv'
  OBVIOUS
<1>1. Inv'
  BY StepInv DEF HostInv
<1>2. CASE UNCHANGED <<run, session>>
  BY <1>1, <1>2 DEF run, session, HostInv, SessionTypes, Tables, Own, Undisturbed, Working, ScriptsOver
<1>3. ASSUME GuestChanges \/ SourcesChange
      PROVE  UNCHANGED <<run, session>>
  BY <1>3 DEF GuestChanges, SourcesChange, Push, DeleteBranch, Reconfigure
<1> QED
  BY <1>2, <1>3, BeginKeepsHostInv, WorkKeepsHostInv, ScriptKeepsHostInv, DieKeepsHostInv DEF Next, vars

LEMMA CourseBegins == Init => HostInv
<1> SUFFICES ASSUME Init PROVE HostInv
  OBVIOUS
<1>1. "idle" \in Labels
  BY DEF Labels, StepsOfStages
<1>2. Inv
  BY <1>1 DEF Init, Inv, Types, Safe
<1>3. Tables /\ SessionTypes
  BY HostsAssumption, EmptyIsState DEF Init, Tables, SessionTypes
<1>4. ASSUME NEW p \in Procs
      PROVE  Own(p) /\ Undisturbed(p)
  BY EmptyIs, StopIs DEF Init, Own, Undisturbed, Working, ScriptsOver, ScriptFormed, NoScript
<1> QED
  BY <1>2, <1>3, <1>4 DEF HostInv

\* At each step of a run that is alone, the host is as it was, or a state file
\* tells how it was, or the cleanup is on its way.
THEOREM CourseInvariant == Spec => []HostInv
BY CourseBegins, StepHostInv, PTL DEF Spec

LEMMA FoundTells ==
  ASSUME NEW h \in HostStates
  PROVE  Tells(Found(h), h)
<1>1. Found(h) = h \/ \E f : Found(h) = [h EXCEPT !.set = f]
  BY DEF Found
<1>2. [Found(h) EXCEPT !.set = h.set] = h
  BY <1>1 DEF HostStates
<1> QED
  BY <1>2, FoundIs DEF Tells

\* A local Windows run that nobody disturbed can be stopped anywhere before it
\* removes its files: where the host differs from what it was, a state file
\* tells what it was, but for the listeners and the authentication of a WinRM
\* that was off.
THEOREM Recoverable == Spec => []HostIsRecoverable
<1>1. HostInv => HostIsRecoverable
  <2> SUFFICES ASSUME HostInv, NEW p \in Procs,
                      Working(p), at[p] # "done", job[p].alone, ~job[p].astray, host # job[p].was,
                      at[p] \in {"restoring", "tidy"} => saved[p].taken
               PROVE  saved[p].taken /\ Tells(saved[p].was, job[p].was) /\ "state" \in files[p]
    BY DEF HostIsRecoverable
  <2>1. Course(at[p], job[p], host, saved[p], script[p], files[p])
    BY DEF HostInv, Own
  <2>2. saved[p].taken
    BY <2>1 DEF Course
  <2> QED
    BY <2>1, <2>2, FoundTells DEF Course
<1> QED
  BY <1>1, CourseInvariant, PTL

-------------------------------------------------------------------------------
(* The plans and the sources.                                              *)

\* Ansible runs once in a run, after its arguments have been built.
Once(s) == \A i, k \in 1..Len(s) : s[i] = "ansible" /\ s[k] = "ansible" => i = k

NoAnsible(s) == \A i \in 1..Len(s) : s[i] # "ansible"

LEMMA PlansRunAnsibleOnce ==
  ASSUME NEW os, NEW plan \in Plans(os)
  PROVE  Once(plan)
<1> USE DEF Once, LinkedAnsible
<1>1. Once(HypervWindows11) /\ Once(UtmWindows11) /\ Once(LinuxQemuWindows11)
  BY DEF HypervWindows11, UtmWindows11, LinuxQemuWindows11
<1>2. Once(HypervUbuntu) /\ Once(UtmUbuntu) /\ Once(LinuxQemuUbuntu)
  BY DEF HypervUbuntu, UtmUbuntu, LinuxQemuUbuntu
<1>3. Once(TartMacOS) /\ Once(LocalUnix)
  BY DEF TartMacOS, LocalUnix
<1>4. Once(LocalWinRM) /\ Once(LocalSSH)
  BY DEF LocalWinRM, LocalSSH
<1> HIDE DEF Once
<1> QED
  BY <1>1, <1>2, <1>3, <1>4 DEF Plans

\* Where a run is when it looks for its playbook, and for the roles.
ForPlaybook(l, j) == l \in {"args", "playbook"} \/ (l \in Resolving /\ j.use = "playbooks")
ForAnsible(l, j)  == l \in {"ansible", "roles", "start", "play", "drain"} \/ (l \in Resolving /\ j.use = "roles")

\* What the place of a run says of ansible's stage and of the sources in use.
Placed3(l, j) ==
  /\ Once(j.plan)
  /\ ForPlaybook(l, j) => j.plan # <<>> /\ j.plan[1] = "ansible"
  /\ ForAnsible(l, j) => NoAnsible(j.plan)
  /\ l \notin {"playbook"} \cup Resolving => NoAnsible(j.plan) \/ j.used = {}

LEMMA NextStageIsOnce ==
  ASSUME NEW s \in Seq(Names), s # <<>>, Once(s), Sound(s)
  PROVE  /\ Once(Tail(s))
         /\ s[1] = "ansible" => NoAnsible(Tail(s))
         /\ s[1] = "args" => Tail(s) # <<>> /\ Tail(s)[1] = "ansible"
         /\ NoAnsible(s) => NoAnsible(Tail(s)) /\ Head(s) # "ansible" /\ Head(s) # "args"
<1> DEFINE t == Tail(s)
<1>1. /\ t \in Seq(Names) /\ Len(s) \in Nat /\ Len(s) = Len(t) + 1 /\ Len(t) \in Nat
      /\ \A i \in 1..Len(t) : i + 1 \in 1..Len(s) /\ t[i] = s[i + 1]
      /\ Head(s) = s[1] /\ 1 \in 1..Len(s)
  BY TailIs
<1> HIDE DEF t
<1>2. Once(t)
  <2> SUFFICES ASSUME NEW i \in 1..Len(t), NEW k \in 1..Len(t), t[i] = "ansible", t[k] = "ansible"
               PROVE  i = k
    BY DEF Once
  <2>1. i + 1 = k + 1
    BY <1>1 DEF Once
  <2> QED
    BY <2>1
<1>3. ASSUME s[1] = "ansible", NEW i \in 1..Len(t)
      PROVE  t[i] # "ansible"
  <2>1. i + 1 # 1
    BY <1>1
  <2> QED
    BY <1>1, <1>3, <2>1 DEF Once
<1>4. ASSUME s[1] = "args"
      PROVE  t # <<>> /\ t[1] = "ansible"
  <2>1. 1 < Len(s) /\ s[2] = "ansible"
    BY <1>1, <1>4 DEF Sound
  <2>2. 1 \in 1..Len(t)
    BY <1>1, <2>1
  <2> QED
    BY <1>1, <2>1, <2>2
<1>5. ASSUME NoAnsible(s)
      PROVE  NoAnsible(t) /\ s[1] # "ansible" /\ s[1] # "args"
  <2>1. s[1] # "args"
    BY <1>1, <1>5 DEF Sound, NoAnsible
  <2> QED
    BY <1>1, <1>5, <2>1 DEF NoAnsible
<1> QED
  BY <1>1, <1>2, <1>3, <1>4, <1>5 DEF NoAnsible, t

LEMMA EndIsOnce == Once(<<>>) /\ NoAnsible(<<>>) /\ Once(<<"cleanup">>) /\ NoAnsible(<<"cleanup">>)
BY DEF Once, NoAnsible

-------------------------------------------------------------------------------
(* The sources of one run.                                                 *)

SrcFields == {"plan", "kept", "use", "used", "seen", "missed", "alone"}

SameSources(i, j) ==
  /\ SrcFields \subseteq DOMAIN i
  /\ i.use = j.use /\ i.used = j.used /\ i.seen = j.seen /\ i.missed = j.missed /\ i.alone = j.alone

Fields1 == {"dir", "head", "local", "remote", "whole", "by", "cut"}

Checkout(k) ==
  /\ Fields1 \subseteq DOMAIN k
  /\ k.local \in [Branches -> Nat] /\ k.remote \in [Branches -> Nat]

\* The checkout is what the run j may use; it follows origin.
Follows(k, j) ==
  conf.update /\ ~j.missed /\ k.head \in Branches /\ k.remote[k.head] # 0
    => k.local[k.head] >= j.seen[k.head]

AtRef(k) == conf.ref # "none" => k.head = conf.ref /\ k.whole

Current(k, j) == (k.whole \/ k.cut) /\ AtRef(k) /\ Follows(k, j)

Recent(rev, seen) == rev = 0 \/ rev >= seen

\* What git has done with the checkout k when the run j is at l.
Resolved(l, k, j) ==
  /\ l = "pull" => conf.ref = "none"
  /\ l = "updateRef" => conf.ref # "none"
  /\ l = "pullRef" => conf.ref # "none" /\ AtRef(k)
  /\ l = "checkout" =>
       /\ conf.ref # "none"
       /\ conf.update /\ ~j.missed /\ conf.ref \in Branches /\ k.remote[conf.ref] # 0 =>
            Recent(k.local[conf.ref], j.seen[conf.ref]) /\ Recent(k.remote[conf.ref], j.seen[conf.ref])
  /\ l = "subdirectory" => AtRef(k) /\ Follows(k, j)

\* Where a run is sure of all its sources, and where it works on one.
Sure == {"playbook", "resolved", "ansible", "roles", "start", "play"}
Busy == Resolving \ {"resolved", "unresolved"}

SourcesOf(l, j) ==
  /\ l \in Sure => \A c \in j.used : Current(cache[c], j)
  /\ l \in Busy => /\ \A c \in j.used \ {j.use} : Current(cache[c], j)
                   /\ Resolved(l, cache[j.use], j)

OwnSources(p) ==
  Working(p) =>
    /\ SrcFields \subseteq DOMAIN job[p]
    /\ job[p].use \in Caches /\ job[p].used \subseteq Caches
    /\ Placed3(at[p], job[p])
    /\ job[p].seen \in [Branches -> Nat]
    /\ \A b \in Branches : Recent(origin[b], job[p].seen[b])
    /\ job[p].alone => SourcesOf(at[p], job[p])

\* A checkout that is not whole was cut off, or its clone is under way.
Cloning(q, c) == at[q] \in {"cloning", "discard"} /\ job[q].use = c

Settled(k) == k.whole \/ k.cut \/ k.dir = "none"

Whole(c) ==
  \/ Settled(cache[c])
  \/ cache[c].by \in Procs /\ Cloning(cache[c].by, c)

SourcesInv ==
  /\ HostInv
  /\ origin \in [Branches -> Nat]
  /\ cache = [c \in Caches |-> cache[c]]
  /\ \A c \in Caches : Checkout(cache[c]) /\ Whole(c)
  /\ \A p \in Procs : OwnSources(p)

\* What is needed of a process that is at work.
AtSources(p) ==
  /\ AtWork(p) /\ Types /\ OwnSources(p)
  /\ SrcFields \subseteq DOMAIN job[p] /\ Placed3(at[p], job[p])

LEMMA AtSourcesIs ==
  ASSUME SourcesInv, NEW p \in Procs, Working(p)
  PROVE  AtSources(p) /\ Here(p)
BY AtWorkIs DEF SourcesInv, AtSources, OwnSources

LEMMA SameSourcesIs ==
  ASSUME NEW p, AtSources(p)
  PROVE  /\ SameSources(job[p], job[p])
         /\ \A fs : SameSources(Keeps(job[p], fs), job[p]) /\ Keeps(job[p], fs).plan = job[p].plan
<1>1. SrcFields \subseteq DOMAIN job[p]
  BY DEF AtSources
<1>2. ASSUME NEW fs
      PROVE  SameSources(Keeps(job[p], fs), job[p]) /\ Keeps(job[p], fs).plan = job[p].plan
  BY <1>1 DEF SameSources, SrcFields, Keeps
<1> QED
  BY <1>1, <1>2 DEF SameSources

-------------------------------------------------------------------------------
(* The steps that leave the sources alone.                                 *)

\* Ansible is not to run again, nothing has been resolved, or what has been is
\* current.
Fit(j) ==
  \/ NoAnsible(j.plan)
  \/ j.used = {}
  \/ j.plan # <<>> /\ j.plan[1] = "ansible" /\ (j.alone => \A c \in j.used : Current(cache[c], j))

LEMMA NextKeepsSources ==
  ASSUME NEW p \in Procs, AtSources(p), UNCHANGED sources, NEW j, NEW err, Continue(p, j, err),
         SameSources(j, job[p]), Sound(j.plan), Once(j.plan), Fit(j)
  PROVE  OwnSources(p)'
<1> DEFINE s == j.plan
           n == IF s = <<>> THEN <<>> ELSE Tail(s)
           l == IF s = <<>> THEN "done" ELSE Head(s)
           k == [j EXCEPT !.plan = IF @ = <<>> THEN <<>> ELSE Tail(@), !.ok = @ /\ ~err]
<1>1. at' = [at EXCEPT ![p] = l] /\ job' = [job EXCEPT ![p] = k]
  BY DEF Continue
<1>2. at'[p] = l /\ job'[p] = k
  BY <1>1 DEF AtSources, Types
<1>3. SameSources(k, j) /\ k.plan = n
  BY DEF SameSources, SrcFields
<1>4. s \in Seq(Names)
  BY DEF Sound
<1> HIDE DEF k
<1>5. /\ Once(n)
      /\ l = "args" => n # <<>> /\ n[1] = "ansible"
      /\ l = "ansible" => NoAnsible(n) /\ ~NoAnsible(s)
      /\ NoAnsible(s) => NoAnsible(n)
      /\ s # <<>> /\ s[1] = "ansible" => NoAnsible(n)
      /\ l \in Names \cup {"done"}
  <2>1. CASE s = <<>>
    BY <2>1, EndIsOnce
  <2>2. CASE s # <<>>
    <3>1. Head(s) \in Names /\ Head(s) = s[1] /\ 1 \in 1..Len(s)
      BY <1>4, <2>2, TailIs
    <3> QED
      BY <1>4, <2>2, <3>1, NextStageIsOnce
  <2> QED
    BY <2>1, <2>2
<1>6. l \notin Resolving \cup Busy /\ (l \in Sure => l = "ansible")
      /\ l \notin {"playbook", "roles", "start", "play", "drain"}
  BY <1>5 DEF Names, Resolving, Busy, Sure
<1> HIDE DEF l, n, s
<1>7. Placed3(l, k)
  BY <1>3, <1>5, <1>6 DEF Placed3, ForPlaybook, ForAnsible, SameSources, Fit, s
<1>8. ASSUME k.alone, l = "ansible", NEW c \in k.used
      PROVE  Current(cache[c], k)'
  <2>1. Current(cache[c], j)
    BY <1>3, <1>5, <1>8 DEF Fit, SameSources, s
  <2> QED
    BY <1>3, <2>1 DEF Current, AtRef, Follows, SameSources, sources
<1> QED
  BY <1>2, <1>3, <1>6, <1>7, <1>8 DEF AtSources, AtWork, OwnSources, SourcesOf, SameSources, sources

LEMMA FailKeepsSources ==
  ASSUME NEW p \in Procs, AtSources(p), UNCHANGED sources, NEW j, FailWith(p, j), SameSources(j, job[p])
  PROVE  OwnSources(p)'
<1> DEFINE s == IF at[p] \notin {"port", "key", "state"} /\ InPlan("cleanup", j.plan)
                THEN <<"cleanup">> ELSE <<>>
           k == [j EXCEPT !.plan = s]
<1>1. Continue(p, k, TRUE)
  BY DEF FailWith
<1>2. SameSources(k, job[p]) /\ k.plan = s
  BY DEF SameSources, SrcFields
<1> HIDE DEF k
<1>3. Once(s) /\ NoAnsible(s) /\ Sound(s)
  BY EndIsOnce, EndIsSound
<1> QED
  BY <1>1, <1>2, <1>3, NextKeepsSources DEF Fit

\* A stage that works on no source is over.
LEMMA OnKeepsSources ==
  ASSUME NEW p \in Procs, AtSources(p), UNCHANGED sources, NEW j, NEW err, Continue(p, j, err),
         SameSources(j, job[p]), j.plan = job[p].plan, at[p] \notin {"playbook"} \cup Resolving
  PROVE  OwnSources(p)'
<1>1. Sound(j.plan) /\ Once(j.plan)
  BY DEF AtSources, AtWork, Placed3
<1>2. Fit(j)
  BY DEF AtSources, Placed3, Fit, SameSources
<1> QED
  BY <1>1, <1>2, NextKeepsSources

LEMMA CheckKeepsSources ==
  ASSUME NEW p \in Procs, AtSources(p), UNCHANGED sources, NEW possible, Check(p, possible),
         at[p] \notin {"playbook"} \cup Resolving
  PROVE  OwnSources(p)'
BY SameSourcesIs, OnKeepsSources, FailKeepsSources DEF Check, Succeed, Fail

\* A step within a stage.
LEMMA StayKeepsSources ==
  ASSUME NEW p \in Procs, AtSources(p), UNCHANGED sources,
         NEW l, at'[p] = l, NEW k, job'[p] = k, SameSources(k, job[p]), k.plan = job[p].plan,
         l \notin {"idle", "over", "args", "playbook"} \cup Resolving,
         ForAnsible(l, job[p]) => ForAnsible(at[p], job[p]),
         l \in Sure => at[p] \in Sure,
         at[p] \in {"playbook"} \cup Resolving => ForAnsible(at[p], job[p])
  PROVE  OwnSources(p)'
<1>1. Placed3(l, k)
  BY DEF AtSources, Placed3, ForPlaybook, ForAnsible, SameSources
<1>2. l \notin Busy
  BY DEF Busy, Resolving
<1>3. ASSUME k.alone, l \in Sure, NEW c \in k.used
      PROVE  Current(cache[c], k)'
  <2>1. Current(cache[c], job[p])
    BY <1>3 DEF AtSources, AtWork, OwnSources, SourcesOf, SameSources
  <2> QED
    BY <2>1 DEF Current, AtRef, Follows, SameSources, sources
<1> QED
  BY <1>1, <1>2, <1>3 DEF AtSources, AtWork, OwnSources, SourcesOf, SameSources, sources

LEMMA ArgsKeepSources ==
  ASSUME NEW p \in Procs, AtSources(p), UNCHANGED sources, BuildArgs(p) \/ ArgsBuilt(p) \/ RemoveVars(p)
  PROVE  OwnSources(p)'
<1>1. /\ SameSources(job[p], job[p]) /\ SameSources(Keeps(job[p], {"vars"}), job[p])
      /\ Keeps(job[p], {"vars"}).plan = job[p].plan
  BY SameSourcesIs
<1>2. ASSUME Fail(p) \/ FailWith(p, Keeps(job[p], {"vars"}))
      PROVE  OwnSources(p)'
  BY <1>1, <1>2, FailKeepsSources DEF Fail
<1>3. CASE RemoveVars(p)
  <2>1. at[p] \notin {"playbook"} \cup Resolving
    BY <1>3 DEF RemoveVars, Resolving
  <2> QED
    BY <1>1, <1>3, <2>1, OnKeepsSources DEF RemoveVars, Succeed
<1>4. ASSUME at[p] = "resolved", job[p].use = "playbooks", Succeed(p)
      PROVE  OwnSources(p)'
  <2>1. /\ Sound(job[p].plan) /\ Once(job[p].plan)
        /\ job[p].plan # <<>> /\ job[p].plan[1] = "ansible"
    BY <1>4 DEF AtSources, AtWork, Placed3, ForPlaybook, Resolving
  <2>2. Fit(job[p])
    BY <1>4, <2>1 DEF AtSources, AtWork, OwnSources, SourcesOf, Sure, Fit
  <2> QED
    BY <1>1, <1>4, <2>1, <2>2, NextKeepsSources DEF Succeed
<1>5. ASSUME at[p] = "args", at' = [at EXCEPT ![p] = "playbook"], job' = [job EXCEPT ![p].use = "playbooks"]
      PROVE  OwnSources(p)'
  <2>1. at'[p] = "playbook" /\ job'[p] = [job[p] EXCEPT !.use = "playbooks"]
    BY <1>5 DEF AtSources, Types
  <2>2. /\ SrcFields \subseteq DOMAIN job'[p] /\ job'[p].use = "playbooks"
        /\ job'[p].plan = job[p].plan /\ job'[p].used = job[p].used /\ job'[p].seen = job[p].seen
        /\ job'[p].alone = job[p].alone
    BY <2>1 DEF AtSources, SrcFields
  <2>3. /\ Once(job[p].plan) /\ job[p].plan # <<>> /\ job[p].plan[1] = "ansible" /\ job[p].used = {}
    <3>1. 1 \in 1..Len(job[p].plan)
      BY <1>5 DEF AtSources, AtWork, Sound, Placed3, ForPlaybook
    <3> QED
      BY <1>5, <3>1 DEF AtSources, Placed3, ForPlaybook, NoAnsible, Resolving
  <2>4. Placed3("playbook", job'[p])
    BY <2>2, <2>3 DEF Placed3, ForPlaybook, ForAnsible, Resolving
  <2>5. "playbooks" \in Caches /\ "playbook" \notin Busy
    BY DEF Caches, Busy, Resolving
  <2> QED
    BY <2>1, <2>2, <2>3, <2>4, <2>5 DEF AtSources, AtWork, OwnSources, SourcesOf, sources
<1> QED
  BY <1>2, <1>3, <1>4, <1>5 DEF BuildArgs, ArgsBuilt, Resolution

LEMMA AnsibleKeepsSources ==
  ASSUME NEW p \in Procs, AtSources(p), UNCHANGED sources, AnsibleStep(p)
  PROVE  OwnSources(p)'
<1>1. SameSources(job[p], job[p])
  BY SameSourcesIs
<1>2. ASSUME NEW err, AnsibleOver(p, err),
             \/ at[p] \in {"start", "play", "drain"}
             \/ at[p] = "unresolved" /\ job[p].use = "roles"
      PROVE  OwnSources(p)'
  <2>1. Sound(job[p].plan) /\ Once(job[p].plan) /\ NoAnsible(job[p].plan)
    BY <1>2 DEF AtSources, AtWork, Placed3, ForAnsible, Resolving
  <2> QED
    BY <1>1, <1>2, <2>1, NextKeepsSources DEF AnsibleOver, Fit
<1>3. ASSUME NEW l \in {"start", "play", "drain"}, Goto(p, l),
             \/ at[p] = "resolved" /\ job[p].use = "roles"
             \/ at[p] = "start"
             \/ at[p] = "play"
      PROVE  OwnSources(p)'
  <2>1. at'[p] = l /\ job'[p] = job[p]
    BY <1>3 DEF Goto, AtSources, Types
  <2>2. ForAnsible(at[p], job[p]) /\ at[p] \in Sure
    BY <1>3 DEF ForAnsible, Resolving, Sure
  <2>3. l \notin {"idle", "over", "args", "playbook"} \cup Resolving
    BY DEF Resolving
  <2> QED
    BY <1>1, <2>1, <2>2, <2>3, StayKeepsSources
<1>4. ASSUME PrepareAnsible(p)
      PROVE  OwnSources(p)'
  <2>1. at[p] = "ansible" /\ at'[p] = "roles" /\ job'[p] = [job[p] EXCEPT !.use = "roles"]
    BY <1>4 DEF PrepareAnsible, AtSources, Types
  <2>2. /\ SrcFields \subseteq DOMAIN job'[p] /\ job'[p].use = "roles"
        /\ job'[p].plan = job[p].plan /\ job'[p].used = job[p].used /\ job'[p].seen = job[p].seen
        /\ job'[p].alone = job[p].alone /\ job'[p].missed = job[p].missed
    BY <2>1 DEF AtSources, SrcFields
  <2>3. Placed3("roles", job'[p])
    BY <2>1, <2>2 DEF AtSources, Placed3, ForPlaybook, ForAnsible, Resolving
  <2>4. "roles" \in Caches /\ "roles" \notin Busy
    BY DEF Caches, Busy, Resolving
  <2>5. ASSUME job'[p].alone, NEW c \in job'[p].used
        PROVE  Current(cache[c], job[p])
    BY <2>1, <2>2, <2>5 DEF AtSources, AtWork, OwnSources, SourcesOf, Sure
  <2>6. ASSUME job'[p].alone, NEW c \in job'[p].used
        PROVE  Current(cache[c], job[p])' 
    BY <2>2, <2>5, <2>6 DEF Current, AtRef, Follows, sources
  <2> QED
    BY <2>1, <2>2, <2>3, <2>4, <2>6 DEF AtSources, AtWork, OwnSources, SourcesOf, sources
<1> QED
  BY <1>2, <1>3, <1>4
  DEF AnsibleStep, RolesResolved, StartAnsible, AnsibleEnds, AnsibleTimesOut, OutputEnds, Resolution

LEMMA LaunchKeepsSources ==
  ASSUME NEW p \in Procs, AtSources(p), UNCHANGED sources, NEW k \in Kinds, Launch(p, k)
  PROVE  OwnSources(p)'
<1>1. PICK b : job' = [job EXCEPT ![p].threw = b]
  BY DEF Launch
<1>2. job'[p] = [job[p] EXCEPT !.threw = b]
  BY <1>1 DEF AtSources, Types
<1>3. SameSources(job'[p], job[p]) /\ job'[p].plan = job[p].plan
  BY <1>2 DEF AtSources, SameSources, SrcFields
<1>4. /\ at[p] \in {"bootstrap", "cleanup"}
      /\ at'[p] \in {"bootstrapping", "restoring"}
  BY WaitsAre DEF Launch, AtSources, Types
<1>5. /\ at'[p] \notin {"idle", "over", "args", "playbook"} \cup Resolving
      /\ at'[p] \notin Sure /\ ~ForAnsible(at'[p], job[p])
      /\ at[p] \notin {"playbook"} \cup Resolving
  BY <1>4 DEF Resolving, Sure, ForAnsible
<1> QED
  BY <1>3, <1>5, StayKeepsSources

LEMMA ResultKeepsSources ==
  ASSUME NEW p \in Procs, AtSources(p), UNCHANGED sources, NEW k \in Kinds, at[p] = Waits[k],
         NEW j, NEW good, Result(p, k, j, good), SameSources(j, job[p]), j.plan = job[p].plan
  PROVE  OwnSources(p)'
<1>1. at[p] \in {"bootstrapping", "restoring"}
  BY WaitsAre
<1>2. at[p] \notin {"playbook"} \cup Resolving
  BY <1>1 DEF Resolving
<1>3. CASE k = "cleanup"
  <2>1. at'[p] = "tidy" /\ job'[p] = [j EXCEPT !.clean = good]
    BY <1>3 DEF Result, AtSources, Types
  <2>2. SameSources(job'[p], job[p]) /\ job'[p].plan = job[p].plan
    BY <2>1 DEF SameSources, SrcFields
  <2>3. /\ "tidy" \notin {"idle", "over", "args", "playbook"} \cup Resolving
        /\ "tidy" \notin Sure /\ ~ForAnsible("tidy", job[p])
    BY DEF Resolving, Sure, ForAnsible
  <2> QED
    BY <1>2, <2>1, <2>2, <2>3, StayKeepsSources
<1>4. CASE k = "bootstrap" /\ good
  <2> DEFINE i == [j EXCEPT !.booted = TRUE]
  <2>1. Continue(p, i, FALSE)
    BY <1>4 DEF Result
  <2>2. SameSources(i, job[p]) /\ i.plan = job[p].plan
    BY DEF SameSources, SrcFields
  <2> HIDE DEF i
  <2> QED
    BY <1>2, <2>1, <2>2, OnKeepsSources
<1>5. CASE k = "bootstrap" /\ ~good
  BY <1>5, FailKeepsSources DEF Result
<1> QED
  BY <1>3, <1>4, <1>5 DEF Kinds

LEMMA WaitKeepsSources ==
  ASSUME NEW p \in Procs, AtSources(p), UNCHANGED sources, NEW k \in Kinds, ScriptOver(p, k) \/ Timeout(p, k)
  PROVE  OwnSources(p)'
<1>1. at[p] = Waits[k]
  BY DEF ScriptOver, Timeout
<1>2. /\ SameSources(job[p], job[p])
      /\ SameSources(Keeps(job[p], {"script"}), job[p]) /\ Keeps(job[p], {"script"}).plan = job[p].plan
  BY SameSourcesIs
<1>3. CASE ScriptOver(p, k)
  BY <1>1, <1>2, <1>3, ResultKeepsSources DEF ScriptOver
<1> DEFINE that == [job[p] EXCEPT !.astray = TRUE]
<1>4. ASSUME NEW j \in {that, Keeps(that, {"script"})}, Result(p, k, j, FALSE)
      PROVE  OwnSources(p)'
  <2>1. SameSources(j, job[p]) /\ j.plan = job[p].plan
    BY <1>4 DEF AtSources, SameSources, SrcFields, Keeps
  <2>2. Result(p, k, j, FALSE)
    BY <1>4
  <2> QED
    BY <1>1, <2>1, <2>2, ResultKeepsSources
<1>5. CASE job' = [job EXCEPT ![p].threw = TRUE] /\ UNCHANGED <<at, files>>
  <2>1. at'[p] = at[p] /\ job'[p] = [job[p] EXCEPT !.threw = TRUE]
    BY <1>5 DEF AtSources, Types
  <2>2. SameSources(job'[p], job[p]) /\ job'[p].plan = job[p].plan
    BY <2>1 DEF AtSources, SameSources, SrcFields
  <2>3. at[p] \in {"bootstrapping", "restoring"}
    BY <1>1, WaitsAre
  <2>4. at[p] \notin {"idle", "over", "args", "playbook"} \cup Resolving
    BY <2>3 DEF Resolving
  <2> QED
    BY <2>1, <2>2, <2>4, StayKeepsSources
<1> QED
  BY <1>3, <1>4, <1>5 DEF Timeout

LEMMA SessionKeepsSources ==
  ASSUME NEW p \in Procs, AtSources(p), UNCHANGED sources, SessionStep(p)
  PROVE  OwnSources(p)'
<1>1. CASE SelectPort(p) \/ Reach(p) \/ Preflight(p)
  BY <1>1, CheckKeepsSources DEF SelectPort, Reach, Preflight, Resolving
<1>2. CASE CreateKey(p) \/ CreateState(p)
  <2>1. SameSources(job[p], job[p]) /\ SameSources(Keeps(job[p], {"key"}), job[p])
    BY SameSourcesIs
  <2>2. at[p] \notin {"playbook"} \cup Resolving
    BY <1>2 DEF CreateKey, CreateState, Resolving
  <2>3. \/ Succeed(p)
        \/ Fail(p)
        \/ FailWith(p, Keeps(job[p], {"key"}))
    BY <1>2 DEF CreateKey, CreateState
  <2> QED
    BY <2>1, <2>2, <2>3, OnKeepsSources, FailKeepsSources DEF Succeed, Fail
<1>3. CASE Tidy(p)
  <2>1. PICK kept : Continue(p, Keeps(job[p], kept), kept # {} \/ ~job[p].clean)
    BY <1>3 DEF Tidy
  <2>2. at[p] \notin {"playbook"} \cup Resolving
    BY <1>3 DEF Tidy, Resolving
  <2> QED
    BY <2>1, <2>2, SameSourcesIs, OnKeepsSources
<1> QED
  BY <1>1, <1>2, <1>3, LaunchKeepsSources, WaitKeepsSources DEF SessionStep

\* The stages that leave the sources alone.
LEMMA StagesKeepSources ==
  ASSUME NEW p \in Procs, AtSources(p), Work(p) \/ OutputEnds(p), ~ResolveStep(p)
  PROVE  UNCHANGED sources /\ OwnSources(p)' /\ at[p] \notin {"cloning", "discard"}
<1>0. at[p] \notin {"cloning", "discard"}
  BY WaitsAre
  DEF Work, OutputEnds, Finish, EnsureRunning, ResolveSettings, AskWinrm, AskSsh, AskLibvirt,
      AskArp, AskTart, WaitForSSH, LoadConfig, FindSshpass, BuildArgs, ArgsBuilt, PrepareAnsible,
      RolesResolved, StartAnsible, AnsibleEnds, AnsibleTimesOut, RemoveVars, SessionStep,
      SelectPort, CreateKey, CreateState, Launch, ScriptOver, Timeout, Tidy, Reach, Preflight,
      Resolution, Kinds
<1>1. UNCHANGED sources
  BY DEF Work, OutputEnds, Finish, EnsureRunning, ResolveSettings, AskWinrm, AskSsh, AskLibvirt,
      AskArp, AskTart, WaitForSSH, LoadConfig, FindSshpass, BuildArgs, ArgsBuilt, PrepareAnsible,
      RolesResolved, StartAnsible, AnsibleEnds, AnsibleTimesOut, AnsibleOver, world, sources
<1>2. CASE Finish(p)
  <2>1. at'[p] = "over"
    BY <1>2 DEF Finish, AtSources, Types
  <2> QED
    BY <1>0, <1>1, <2>1 DEF OwnSources, Working
<1>3. CASE EnsureRunning(p) \/ ResolveSettings(p) \/ AskWinrm(p) \/ AskSsh(p) \/ AskLibvirt(p)
           \/ AskArp(p) \/ AskTart(p) \/ WaitForSSH(p) \/ LoadConfig(p) \/ FindSshpass(p)
  BY <1>0, <1>1, <1>3, CheckKeepsSources
  DEF EnsureRunning, ResolveSettings, AskWinrm, AskSsh, AskLibvirt, AskArp, AskTart, WaitForSSH,
      LoadConfig, FindSshpass, Resolving
<1> QED
  BY <1>0, <1>1, <1>2, <1>3, ArgsKeepSources, AnsibleKeepsSources, SessionKeepsSources DEF Work, AnsibleStep

-------------------------------------------------------------------------------
(* git.                                                                    *)

LEMMA NoCheckoutIs == Checkout(NoCheckout) /\ Settled(NoCheckout)
BY DEF NoCheckout, NoBranch, Checkout, Fields1, Settled

LEMMA ClonedIs ==
  ASSUME NEW k, Checkout(k), origin \in [Branches -> Nat]
  PROVE  /\ Checkout(Cloned(k)) /\ Settled(Cloned(k))
         /\ Cloned(k).whole /\ Cloned(k).head = "main" /\ Cloned(k).remote = origin
         /\ Cloned(k).local["main"] = origin["main"] /\ Cloned(k).local["dev"] = 0
<1> DEFINE m == [NoBranch EXCEPT !["main"] = origin["main"]]
<1>1. m \in [Branches -> Nat] /\ m["main"] = origin["main"] /\ m["dev"] = 0
  BY DEF NoBranch, Branches
<1> HIDE DEF m
<1>2. Cloned(k) = [k EXCEPT !.dir = "repo", !.head = "main", !.local = m,
                            !.remote = origin, !.whole = TRUE, !.by = 0, !.cut = FALSE]
  BY DEF Cloned, m
<1> QED
  BY <1>1, <1>2 DEF Checkout, Fields1, Settled

LEMMA FetchedIs ==
  ASSUME NEW k, Checkout(k), origin \in [Branches -> Nat]
  PROVE  /\ Checkout(Fetched(k)) /\ Fetched(k).by = k.by
         /\ Settled(k) => Settled(Fetched(k))
BY DEF Fetched, Checkout, Fields1, Settled

LEMMA ResetIs ==
  ASSUME NEW k, Checkout(k), NEW r
  PROVE  /\ Checkout(Reset(k, r)) /\ Reset(k, r).whole /\ Reset(k, r).head = r
         /\ Reset(k, r).remote = k.remote
         /\ r \in Branches => Reset(k, r).local[r] = k.remote[r]
<1> DEFINE m == [k.local EXCEPT ![r] = k.remote[r]]
<1>1. m \in [Branches -> Nat] /\ (r \in Branches => m[r] = k.remote[r])
  BY DEF Checkout
<1> HIDE DEF m
<1>2. Reset(k, r) = [k EXCEPT !.head = r, !.whole = TRUE, !.dir = "repo", !.local = m]
  BY DEF Reset, Checkout, Fields1, m
<1> QED
  BY <1>1, <1>2 DEF Checkout, Fields1

LEMMA CheckedOutIs ==
  ASSUME NEW k, Checkout(k), NEW r, NEW m \in CheckedOut(k, r)
  PROVE  /\ Checkout(m) /\ m.whole /\ m.head = r /\ m.remote = k.remote
         /\ r \in Branches => \/ m.local[r] = k.local[r] /\ k.local[r] # 0
                              \/ m.local[r] = k.remote[r] /\ k.remote[r] # 0
<1>1. CASE r = "v1"
  <2>1. m = [k EXCEPT !.head = "v1", !.whole = TRUE, !.dir = "repo"]
    BY <1>1 DEF CheckedOut
  <2> QED
    BY <1>1, <2>1 DEF Checkout, Fields1, Branches
<1>2. CASE r # "v1"
  <2>1. \/ m = [k EXCEPT !.head = r, !.whole = TRUE, !.dir = "repo"] /\ k.local[r] # 0
        \/ m = Reset(k, r) /\ k.remote[r] # 0
    BY <1>2 DEF CheckedOut
  <2>2. CASE m = Reset(k, r) /\ k.remote[r] # 0
    BY <2>2, ResetIs
  <2>3. CASE m = [k EXCEPT !.head = r, !.whole = TRUE, !.dir = "repo"] /\ k.local[r] # 0
    BY <2>3 DEF Checkout, Fields1
  <2> QED
    BY <2>1, <2>2, <2>3
<1> QED
  BY <1>1, <1>2

LEMMA PulledIs ==
  ASSUME NEW k, Checkout(k), origin \in [Branches -> Nat], NEW b, NEW m \in Pulled(k, b)
  PROVE  /\ Checkout(m) /\ m.head = k.head /\ m.whole = k.whole /\ m.by = k.by
         /\ Settled(k) => Settled(m)
         /\ b \in Branches => m.local[b] = origin[b] /\ origin[b] # 0
<1> DEFINE o == [k.local EXCEPT ![b] = origin[b]]
           r == [k.remote EXCEPT ![b] = origin[b]]
<1>1. /\ m = [k EXCEPT !.local[b] = origin[b], !.remote[b] = origin[b]]
      /\ origin[b] # 0
  BY DEF Pulled
<1>2. /\ o \in [Branches -> Nat] /\ r \in [Branches -> Nat]
      /\ b \in Branches => o[b] = origin[b]
  BY DEF Checkout
<1>3. m = [k EXCEPT !.local = o, !.remote = r]
  BY <1>1 DEF Checkout, Fields1
<1> HIDE DEF o, r
<1> QED
  BY <1>1, <1>2, <1>3 DEF Checkout, Fields1, Settled

-------------------------------------------------------------------------------
(* The steps of a resolution.                                              *)

\* The checkout p works on becomes k, settled if it has been, and p goes on at
\* l with the job j.
Stands(p, l, k) ==
  \/ Settled(k)
  \/ k.by = p /\ l = "cloning"
  \/ /\ k.by = It(p).by /\ (Settled(It(p)) => Settled(k))
     /\ at[p] \in {"cloning", "discard"} => l \in {"cloning", "discard"}

Turns(p, l, k, j) ==
  /\ l \in Resolving /\ j \in {job[p], [job[p] EXCEPT !.missed = TRUE]}
  /\ at' = [at EXCEPT ![p] = l] /\ job' = [job EXCEPT ![p] = j]
  /\ cache' = [cache EXCEPT ![job[p].use] = k] /\ UNCHANGED <<origin, conf>>
  /\ Checkout(k) /\ Stands(p, l, k)
  /\ job[p].alone => Resolved(l, k, j) /\ (l = "resolved" => Current(k, j))

\* What holds of a process that works on a source.
AtSource(p) ==
  /\ AtSources(p) /\ at[p] \in Busy /\ job[p].use \in Caches
  /\ cache = [c \in Caches |-> cache[c]] /\ Checkout(It(p)) /\ origin \in [Branches -> Nat]
  /\ job[p].seen \in [Branches -> Nat] /\ \A b \in Branches : Recent(origin[b], job[p].seen[b])
  /\ job[p].alone => Resolved(at[p], It(p), job[p])

LEMMA AtSourceIs ==
  ASSUME SourcesInv, NEW p \in Procs, at[p] \in Busy
  PROVE  AtSource(p)
<1>1. Working(p)
  BY DEF Busy, Resolving, Working
<1>2. AtSources(p)
  BY <1>1, AtSourcesIs
<1> QED
  BY <1>1, <1>2 DEF SourcesInv, AtSource, OwnSources, SourcesOf, It

LEMMA MissedIs ==
  ASSUME NEW p, AtSources(p), NEW j \in {job[p], [job[p] EXCEPT !.missed = TRUE]}
  PROVE  /\ SrcFields \subseteq DOMAIN j /\ j.plan = job[p].plan /\ j.use = job[p].use
         /\ j.used = job[p].used /\ j.seen = job[p].seen /\ j.alone = job[p].alone
         /\ job[p].missed => j.missed
BY DEF AtSources, SrcFields

LEMMA TurnKeepsOwn ==
  ASSUME NEW p \in Procs, AtSource(p), NEW l, NEW k, NEW j, Turns(p, l, k, j)
  PROVE  OwnSources(p)'
<1>1. /\ SrcFields \subseteq DOMAIN j /\ j.plan = job[p].plan /\ j.use = job[p].use
      /\ j.used = job[p].used /\ j.seen = job[p].seen /\ j.alone = job[p].alone
      /\ job[p].missed => j.missed
  BY MissedIs DEF AtSource, Turns
<1>2. /\ at'[p] = l /\ job'[p] = j /\ UNCHANGED <<origin, conf>>
      /\ cache'[j.use] = k /\ \A c \in Caches \ {j.use} : cache'[c] = cache[c]
  BY <1>1 DEF Turns, AtSource, AtSources, Types
<1>3. /\ at[p] \in Resolving /\ l \in Resolving
      /\ l \notin {"args", "playbook", "ansible", "roles", "start", "play", "drain"}
  BY DEF AtSource, Busy, Turns, Resolving
<1>4. Placed3(l, j)
  <2>1. /\ ForPlaybook(l, j) => ForPlaybook(at[p], job[p])
        /\ ForAnsible(l, j) => ForAnsible(at[p], job[p])
    BY <1>1, <1>3 DEF ForPlaybook, ForAnsible
  <2> QED
    BY <1>1, <1>3, <2>1 DEF AtSource, AtSources, Placed3
<1>5. ASSUME j.alone
      PROVE  SourcesOf(l, j)'
  <2>1. l # "resolved" => l \notin Sure
    BY <1>3 DEF Sure, Resolving
  <2>2. ASSUME NEW c \in j.used \ {j.use}
        PROVE  Current(cache[c], j)'
    <3>1. Current(cache[c], job[p]) /\ c \in Caches \ {j.use}
      BY <1>1, <1>5, <2>2 DEF AtSource, AtSources, AtWork, OwnSources, SourcesOf
    <3> QED
      BY <1>1, <1>2, <3>1 DEF Current, AtRef, Follows
  <2>3. l = "resolved" => Current(cache[j.use], j)'
    BY <1>1, <1>2, <1>5 DEF Turns, Current, AtRef, Follows
  <2>4. Resolved(l, cache[j.use], j)'
    BY <1>1, <1>2, <1>5 DEF Turns, Resolved, AtRef, Follows
  <2> QED
    BY <2>1, <2>2, <2>3, <2>4 DEF SourcesOf
<1> QED
  BY <1>1, <1>2, <1>4, <1>5 DEF OwnSources, AtSource, AtSources, AtWork

LEMMA TurnKeepsCaches ==
  ASSUME SourcesInv, NEW p \in Procs, AtSource(p), NEW l, NEW k, NEW j, Turns(p, l, k, j)
  PROVE  /\ cache' = [c \in Caches |-> cache'[c]]
         /\ \A c \in Caches : Checkout(cache'[c]) /\ Whole(c)'
<1>1. j.use = job[p].use
  BY MissedIs DEF AtSource, Turns
<1>2. /\ at' = [at EXCEPT ![p] = l] /\ job' = [job EXCEPT ![p] = j]
      /\ at'[p] = l /\ job'[p] = j
      /\ cache' = [c \in Caches |-> cache'[c]]
      /\ cache'[j.use] = k /\ \A c \in Caches \ {j.use} : cache'[c] = cache[c]
  BY <1>1 DEF Turns, AtSource, AtSources, Types
<1>3. ASSUME NEW q \in Procs, q # p
      PROVE  at'[q] = at[q] /\ job'[q] = job[q]
  BY <1>3 DEF Turns, AtSource, AtSources, Types
<1>4. ASSUME NEW c \in Caches
      PROVE  Checkout(cache'[c])
  BY <1>2, <1>4 DEF SourcesInv, Turns
<1>5. ASSUME NEW c \in Caches, c # j.use
      PROVE  Whole(c)'
  <2>1. Whole(c) /\ cache'[c] = cache[c]
    BY <1>2, <1>5 DEF SourcesInv
  <2> QED
    BY <1>1, <1>3, <1>5, <2>1 DEF Whole, Cloning
<1>6. Whole(j.use)'
  <2>1. Whole(j.use) /\ It(p) = cache[j.use] /\ cache'[j.use] = k
    BY <1>1, <1>2 DEF SourcesInv, AtSource, It
  <2>2. CASE Settled(k)
    BY <2>1, <2>2 DEF Whole
  <2>3. CASE k.by = p /\ l = "cloning"
    BY <1>2, <2>1, <2>3 DEF Whole, Cloning
  <2>4. CASE /\ k.by = It(p).by /\ (Settled(It(p)) => Settled(k))
             /\ at[p] \in {"cloning", "discard"} => l \in {"cloning", "discard"}
    BY <1>1, <1>2, <1>3, <2>1, <2>4 DEF Whole, Cloning
  <2> QED
    BY <2>2, <2>3, <2>4 DEF Turns, Stands
<1> QED
  BY <1>2, <1>4, <1>5, <1>6

\* A step that leaves the checkout alone.
LEMMA StepTurns ==
  ASSUME NEW p \in Procs, AtSource(p), NEW l \in Resolving, Step(p, l),
         at[p] \in {"cloning", "discard"} => l \in {"cloning", "discard"},
         job[p].alone => Resolved(l, It(p), job[p]) /\ (l = "resolved" => Current(It(p), job[p]))
  PROVE  Turns(p, l, It(p), job[p])
<1>1. /\ at' = [at EXCEPT ![p] = l] /\ UNCHANGED <<job, cache, origin, conf>>
  BY DEF Step, Goto, sources
<1>2. job' = [job EXCEPT ![p] = job[p]] /\ cache' = [cache EXCEPT ![job[p].use] = It(p)]
  BY <1>1 DEF AtSource, AtSources, Types, It
<1> QED
  BY <1>1, <1>2 DEF Turns, AtSource, Stands

\* A step that changes the checkout.
LEMMA BecomesTurns ==
  ASSUME NEW p \in Procs, AtSource(p), NEW l \in Resolving, NEW k, Becomes(p, k, l),
         Checkout(k), Stands(p, l, k), l # "resolved",
         job[p].alone => Resolved(l, k, job[p])
  PROVE  Turns(p, l, k, job[p])
<1>1. /\ at' = [at EXCEPT ![p] = l] /\ UNCHANGED <<job, origin, conf>>
      /\ cache' = [cache EXCEPT ![job[p].use] = k]
  BY DEF Becomes, Goto
<1>2. job' = [job EXCEPT ![p] = job[p]]
  BY <1>1 DEF AtSource, AtSources, Types
<1> QED
  BY <1>1, <1>2 DEF Turns

Turning(p) == \E l, k, j : Turns(p, l, k, j)

LEMMA UnresolvedTurns ==
  ASSUME NEW p \in Procs, AtSource(p), at[p] \notin {"cloning", "discard"}, Step(p, "unresolved")
  PROVE  Turning(p)
<1>1. "unresolved" \in Resolving /\ Resolved("unresolved", It(p), job[p])
  BY DEF Resolving, Resolved
<1> QED
  BY <1>1, StepTurns DEF Turning

LEMMA LookTurns ==
  ASSUME NEW p \in Procs, AtSource(p), LookAtCheckout(p)
  PROVE  Turning(p)
<1>1. at[p] = "look"
  BY DEF LookAtCheckout
<1>2. CASE Step(p, "clone")
  <2>1. "clone" \in Resolving /\ Resolved("clone", It(p), job[p])
    BY DEF Resolving, Resolved
  <2> QED
    BY <1>1, <1>2, <2>1, StepTurns DEF Turning
<1>3. CASE Step(p, UpdateOrNot)
  <2>1. UpdateOrNot \in Resolving /\ UpdateOrNot # "resolved"
    BY DEF UpdateOrNot, Resolving
  <2>2. Resolved(UpdateOrNot, It(p), job[p])
    <3>1. CASE conf.update
      BY <3>1 DEF UpdateOrNot, Resolved
    <3>2. CASE ~conf.update /\ conf.ref # "none"
      BY <3>2 DEF UpdateOrNot, Resolved
    <3>3. CASE ~conf.update /\ conf.ref = "none"
      BY <3>3 DEF UpdateOrNot, Resolved, AtRef, Follows
    <3> QED
      BY <3>1, <3>2, <3>3
  <2> QED
    BY <1>1, <1>3, <2>1, <2>2, StepTurns DEF Turning
<1> QED
  BY <1>1, <1>2, <1>3, UnresolvedTurns DEF LookAtCheckout

LEMMA CloneTurns ==
  ASSUME NEW p \in Procs, AtSource(p), Clone(p)
  PROVE  Turning(p)
<1>1. at[p] = "clone"
  BY DEF Clone
<1>2. CASE Step(p, "discard")
  <2>1. "discard" \in Resolving /\ Resolved("discard", It(p), job[p])
    BY DEF Resolving, Resolved
  <2> QED
    BY <1>1, <1>2, <2>1, StepTurns DEF Turning
<1>3. CASE Becomes(p, [NoCheckout EXCEPT !.dir = "partial", !.by = p], "cloning")
  <2> DEFINE k == [NoCheckout EXCEPT !.dir = "partial", !.by = p]
  <2>1. Checkout(k) /\ k.by = p
    BY DEF NoCheckout, NoBranch, Checkout, Fields1
  <2>2. Becomes(p, k, "cloning")
    BY <1>3
  <2> HIDE DEF k
  <2>3. "cloning" \in Resolving /\ Resolved("cloning", k, job[p]) /\ Stands(p, "cloning", k)
    BY <2>1 DEF Resolving, Resolved, Stands
  <2> QED
    BY <2>1, <2>2, <2>3, BecomesTurns DEF Turning
<1> QED
  BY <1>2, <1>3 DEF Clone

LEMMA CloneEndsTurns ==
  ASSUME NEW p \in Procs, AtSource(p), CloneEnds(p)
  PROVE  Turning(p)
<1>1. at[p] = "cloning"
  BY DEF CloneEnds
<1>2. CASE Step(p, "discard")
  <2>1. "discard" \in Resolving /\ Resolved("discard", It(p), job[p])
    BY DEF Resolving, Resolved
  <2> QED
    BY <1>1, <1>2, <2>1, StepTurns DEF Turning
<1>3. CASE Becomes(p, Cloned(It(p)), IF conf.ref = "none" THEN "subdirectory" ELSE "checkout")
  <2> DEFINE k == Cloned(It(p))
             l == IF conf.ref = "none" THEN "subdirectory" ELSE "checkout"
  <2>1. /\ Checkout(k) /\ Settled(k) /\ k.whole /\ k.head = "main" /\ k.remote = origin
        /\ k.local["main"] = origin["main"] /\ k.local["dev"] = 0
    BY ClonedIs DEF AtSource
  <2>2. Becomes(p, k, l)
    BY <1>3
  <2> HIDE DEF k
  <2>3. /\ job[p].seen \in [Branches -> Nat] /\ origin \in [Branches -> Nat]
        /\ \A b \in Branches : origin[b] = 0 \/ origin[b] >= job[p].seen[b]
    BY DEF AtSource, Recent
  <2>4. CASE conf.ref = "none"
    <3>1. Resolved("subdirectory", k, job[p])
      BY <2>1, <2>3, <2>4 DEF Resolved, AtRef, Follows, Branches
    <3>2. "subdirectory" \in Resolving /\ Stands(p, "subdirectory", k)
      BY <2>1 DEF Resolving, Stands
    <3> QED
      BY <2>1, <2>2, <2>4, <3>1, <3>2, BecomesTurns DEF Turning
  <2>5. CASE conf.ref # "none"
    <3>1. Resolved("checkout", k, job[p])
      BY <2>1, <2>3, <2>5 DEF Resolved, Recent, Branches
    <3>2. "checkout" \in Resolving /\ Stands(p, "checkout", k)
      BY <2>1 DEF Resolving, Stands
    <3> QED
      BY <2>1, <2>2, <2>5, <3>1, <3>2, BecomesTurns DEF Turning
  <2> QED
    BY <2>4, <2>5
<1> QED
  BY <1>2, <1>3 DEF CloneEnds

LEMMA DiscardTurns ==
  ASSUME NEW p \in Procs, AtSource(p), DiscardClone(p)
  PROVE  Turning(p)
<1>1. ASSUME NEW k, Checkout(k), Settled(k), Becomes(p, k, "unresolved")
      PROVE  Turning(p)
  <2>1. "unresolved" \in Resolving /\ Resolved("unresolved", k, job[p]) /\ Stands(p, "unresolved", k)
    BY <1>1 DEF Resolving, Resolved, Stands
  <2> QED
    BY <1>1, <2>1, BecomesTurns DEF Turning
<1>2. CASE Becomes(p, NoCheckout, "unresolved")
  BY <1>1, <1>2, NoCheckoutIs
<1>3. CASE Becomes(p, [It(p) EXCEPT !.cut = It(p).dir # "none", !.by = 0], "unresolved")
  <2> DEFINE b == It(p).dir # "none"
             k == [It(p) EXCEPT !.cut = b, !.by = 0]
  <2>1. Checkout(k) /\ k.cut = b /\ k.dir = It(p).dir
    BY DEF AtSource, Checkout, Fields1
  <2>2. Becomes(p, k, "unresolved")
    BY <1>3
  <2> HIDE DEF k
  <2>3. Settled(k)
    BY <2>1 DEF Settled
  <2> QED
    BY <1>1, <2>1, <2>2, <2>3
<1> QED
  BY <1>2, <1>3 DEF DiscardClone

LEMMA FetchTurns ==
  ASSUME NEW p \in Procs, AtSource(p), Fetch(p)
  PROVE  Turning(p)
<1> DEFINE k == Fetched(It(p))
           l == IF conf.ref = "none" THEN "pull" ELSE "updateRef"
<1>1. at[p] = "fetch" /\ (Becomes(p, k, l) \/ Step(p, "unresolved"))
  BY DEF Fetch, Git
<1>2. Checkout(k) /\ k.by = It(p).by /\ (Settled(It(p)) => Settled(k))
  BY FetchedIs DEF AtSource
<1> HIDE DEF k
<1>3. l \in Resolving /\ l # "resolved" /\ Resolved(l, k, job[p]) /\ Stands(p, l, k)
  BY <1>1, <1>2 DEF Resolving, Resolved, Stands
<1> HIDE DEF l
<1> QED
  BY <1>1, <1>2, <1>3, BecomesTurns, UnresolvedTurns DEF Turning

LEMMA UpdateRefTurns ==
  ASSUME NEW p \in Procs, AtSource(p), UpdateRef(p)
  PROVE  Turning(p)
<1>1. at[p] = "updateRef"
  BY DEF UpdateRef
<1>2. job[p].alone => conf.ref # "none"
  BY <1>1 DEF AtSource, Resolved
<1>3. ASSUME NEW k, Becomes(p, k, "pullRef"), k \in CheckedOut(It(p), conf.ref) \cup {Reset(It(p), conf.ref)}
      PROVE  Turning(p)
  <2>1. Checkout(k) /\ k.whole /\ k.head = conf.ref
    BY <1>3, CheckedOutIs, ResetIs DEF AtSource
  <2>2. "pullRef" \in Resolving /\ Stands(p, "pullRef", k)
    BY <2>1 DEF Resolving, Stands, Settled
  <2>3. job[p].alone => Resolved("pullRef", k, job[p])
    BY <1>2, <2>1 DEF Resolved, AtRef
  <2> QED
    BY <1>3, <2>1, <2>2, <2>3, BecomesTurns DEF Turning
<1>4. CASE /\ at' = [at EXCEPT ![p] = "checkout"] /\ job' = [job EXCEPT ![p].missed = TRUE]
           /\ UNCHANGED <<files, sources>>
  <2> DEFINE j == [job[p] EXCEPT !.missed = TRUE]
  <2>1. /\ job' = [job EXCEPT ![p] = j] /\ cache' = [cache EXCEPT ![job[p].use] = It(p)]
        /\ UNCHANGED <<origin, conf>>
    BY <1>4 DEF AtSource, AtSources, Types, It, sources
  <2>2. j \in {job[p], [job[p] EXCEPT !.missed = TRUE]} /\ j.missed
    BY DEF AtSource, AtSources, SrcFields
  <2> HIDE DEF j
  <2>3. job[p].alone => Resolved("checkout", It(p), j)
    BY <1>2, <2>2 DEF Resolved
  <2>4. "checkout" \in Resolving /\ Stands(p, "checkout", It(p)) /\ Checkout(It(p))
    BY <1>1 DEF Resolving, Stands, AtSource
  <2>5. Turns(p, "checkout", It(p), j)
    BY <1>4, <2>1, <2>2, <2>3, <2>4 DEF Turns
  <2> QED
    BY <2>5 DEF Turning
<1>5. CASE Step(p, "checkout") /\ ~(conf.ref \in Branches /\ It(p).remote[conf.ref] # 0)
  <2>1. job[p].alone => Resolved("checkout", It(p), job[p])
    BY <1>2, <1>5 DEF Resolved
  <2>2. "checkout" \in Resolving
    BY DEF Resolving
  <2> QED
    BY <1>1, <1>5, <2>1, <2>2, StepTurns DEF Turning
<1>6. CASE Step(p, "unresolved")
  BY <1>1, <1>6, UnresolvedTurns
<1> QED
  BY <1>3, <1>4, <1>5, <1>6 DEF UpdateRef, Git

\* After a pull of its branch a checkout is as new as origin.
LEMMA PullTurns ==
  ASSUME NEW p \in Procs, AtSource(p), NEW b, Git(p, Pulled(It(p), b), "subdirectory"),
         \/ at[p] = "pull" /\ b = It(p).head
         \/ at[p] = "pullRef" /\ b = conf.ref
  PROVE  Turning(p)
<1>1. ASSUME NEW k, Becomes(p, k, "subdirectory"), k \in Pulled(It(p), b)
      PROVE  Turning(p)
  <2>1. /\ Checkout(k) /\ k.head = It(p).head /\ k.whole = It(p).whole /\ k.by = It(p).by
        /\ Settled(It(p)) => Settled(k)
        /\ b \in Branches => k.local[b] = origin[b] /\ origin[b] # 0
    BY <1>1, PulledIs DEF AtSource
  <2>2. "subdirectory" \in Resolving /\ Stands(p, "subdirectory", k)
    BY <2>1 DEF Resolving, Stands
  <2>3. ASSUME job[p].alone
        PROVE  Resolved("subdirectory", k, job[p])
    <3>1. \/ at[p] = "pull" /\ conf.ref = "none" /\ b = k.head
          \/ at[p] = "pullRef" /\ conf.ref # "none" /\ k.head = conf.ref /\ k.whole /\ b = k.head
      BY <2>1, <2>3 DEF AtSource, Resolved, AtRef
    <3>2. \A c \in Branches : origin[c] = 0 \/ origin[c] >= job[p].seen[c]
      BY DEF AtSource, Recent
    <3> QED
      BY <2>1, <3>1, <3>2 DEF Resolved, AtRef, Follows
  <2> QED
    BY <1>1, <2>1, <2>2, <2>3, BecomesTurns DEF Turning
<1> QED
  BY <1>1, UnresolvedTurns DEF Git

LEMMA CheckoutTurns ==
  ASSUME NEW p \in Procs, AtSource(p), CheckoutRef(p)
  PROVE  Turning(p)
<1>1. at[p] = "checkout" /\ Git(p, CheckedOut(It(p), conf.ref), "subdirectory")
  BY DEF CheckoutRef
<1>2. ASSUME NEW k, Becomes(p, k, "subdirectory"), k \in CheckedOut(It(p), conf.ref)
      PROVE  Turning(p)
  <2>1. /\ Checkout(k) /\ k.whole /\ k.head = conf.ref /\ k.remote = It(p).remote
        /\ conf.ref \in Branches =>
             \/ k.local[conf.ref] = It(p).local[conf.ref] /\ It(p).local[conf.ref] # 0
             \/ k.local[conf.ref] = It(p).remote[conf.ref] /\ It(p).remote[conf.ref] # 0
    BY <1>2, CheckedOutIs DEF AtSource
  <2>2. "subdirectory" \in Resolving /\ Stands(p, "subdirectory", k)
    BY <2>1 DEF Resolving, Stands, Settled
  <2>3. ASSUME job[p].alone
        PROVE  Resolved("subdirectory", k, job[p])
    <3>1. Resolved("checkout", It(p), job[p])
      BY <1>1, <2>3 DEF AtSource
    <3> QED
      BY <2>1, <3>1 DEF Resolved, AtRef, Follows, Recent
  <2> QED
    BY <1>2, <2>1, <2>2, <2>3, BecomesTurns DEF Turning
<1> QED
  BY <1>1, <1>2, UnresolvedTurns DEF Git

\* A checkout of a run that is alone is settled when the run is done with it.
LEMMA FindTurns ==
  ASSUME SourcesInv, NEW p \in Procs, AtSource(p), FindSubdirectory(p)
  PROVE  Turning(p)
<1>1. at[p] = "subdirectory"
  BY DEF FindSubdirectory
<1>2. CASE It(p).dir # "none" /\ Step(p, "resolved")
  <2>1. ASSUME job[p].alone
        PROVE  Current(It(p), job[p])
    <3>1. AtRef(It(p)) /\ Follows(It(p), job[p])
      BY <1>1, <2>1 DEF AtSource, Resolved
    <3>2. Whole(job[p].use) /\ Undisturbed(p) /\ Working(p)
      BY DEF SourcesInv, HostInv, AtSource, AtSources, AtWork
    <3>3. It(p).whole \/ It(p).cut
      BY <1>1, <1>2, <2>1, <3>2 DEF Whole, Settled, Cloning, Undisturbed, Working, It
    <3> QED
      BY <3>1, <3>3 DEF Current
  <2>2. "resolved" \in Resolving /\ Resolved("resolved", It(p), job[p])
    BY DEF Resolving, Resolved
  <2> QED
    BY <1>1, <1>2, <2>1, <2>2, StepTurns DEF Turning
<1> QED
  BY <1>1, <1>2, UnresolvedTurns DEF FindSubdirectory

LEMMA ResolveTurns ==
  ASSUME SourcesInv, NEW p \in Procs, ResolveStep(p), ~ResolvePlaybook(p), ~ResolveRoles(p)
  PROVE  AtSource(p) /\ Turning(p)
<1>1. at[p] \in Busy
  BY DEF ResolveStep, LookAtCheckout, Clone, CloneEnds, DiscardClone, Fetch, UpdateRef, PullRef, Pull,
         CheckoutRef, FindSubdirectory, Busy, Resolving
<1>2. AtSource(p)
  BY <1>1, AtSourceIs
<1>3. CASE PullRef(p) \/ Pull(p)
  BY <1>2, <1>3, PullTurns DEF PullRef, Pull
<1> QED
  BY <1>2, <1>3, LookTurns, CloneTurns, CloneEndsTurns, DiscardTurns, FetchTurns, UpdateRefTurns,
     CheckoutTurns, FindTurns DEF ResolveStep

\* A resolution begins with sources that are current.
LEMMA ResolutionBegins ==
  ASSUME SourcesInv, NEW p \in Procs, ResolvePlaybook(p) \/ ResolveRoles(p)
  PROVE  AtSources(p) /\ UNCHANGED sources /\ OwnSources(p)'
<1>1. PICK c \in Caches : \/ at[p] = "playbook" /\ c = "playbooks" /\ ResolvePlaybook(p)
                          \/ at[p] = "roles" /\ c = "roles" /\ ResolveRoles(p)
  BY DEF ResolvePlaybook, ResolveRoles, Caches
<1>2. Working(p)
  BY <1>1 DEF Working
<1>3. AtSources(p) /\ Here(p) /\ OwnSources(p)
  BY <1>2, AtSourcesIs DEF SourcesInv
<1>4. job[p].use = c
  BY <1>1, <1>3 DEF Here, Safe, Placed
<1>5. UNCHANGED sources
  BY <1>1 DEF ResolvePlaybook, ResolveRoles
<1>6. PICK l \in {"resolved", "unresolved", "look"}, u \in {job[p].used, job[p].used \cup {c}} :
        /\ at'[p] = l /\ (l # "look" => u = job[p].used)
        /\ (job'[p] = job[p] /\ u = job[p].used) \/ job'[p] = [job[p] EXCEPT !.used = u]
  BY <1>1, <1>3 DEF ResolvePlaybook, ResolveRoles, Goto, AtSources, Types
<1>7. PICK j : job'[p] = j
  OBVIOUS
<1>8. /\ SrcFields \subseteq DOMAIN j /\ j.plan = job[p].plan /\ j.use = c
      /\ j.used = u /\ j.seen = job[p].seen /\ j.missed = job[p].missed
      /\ j.alone = job[p].alone
  BY <1>3, <1>4, <1>6, <1>7 DEF AtSources, SrcFields
<1>9. Placed3(l, j)
  <2>1. /\ ForPlaybook(l, j) => ForPlaybook(at[p], job[p])
        /\ ForAnsible(l, j) => ForAnsible(at[p], job[p])
        /\ l \in Resolving
    BY <1>1, <1>6, <1>8 DEF ForPlaybook, ForAnsible, Resolving
  <2> QED
    BY <1>3, <1>8, <2>1 DEF AtSources, Placed3
<1>10. ASSUME j.alone
       PROVE  SourcesOf(l, j)'
  <2>1. ASSUME NEW d \in job[p].used
        PROVE  Current(cache[d], j)'
    <3>1. Current(cache[d], job[p])
      BY <1>1, <1>2, <1>3, <1>8, <1>10, <2>1 DEF OwnSources, SourcesOf, Sure
    <3> QED
      BY <1>5, <1>8, <3>1 DEF Current, AtRef, Follows, sources
  <2> QED
    BY <1>6, <1>8, <2>1 DEF SourcesOf, Sure, Busy, Resolved
<1> QED
  BY <1>2, <1>3, <1>5, <1>6, <1>7, <1>8, <1>9, <1>10 DEF OwnSources, sources

-------------------------------------------------------------------------------
(* The invariant of the sources.                                           *)

\* What another process does to the checkouts is nothing to a run that is
\* alone: there is no other process at work.
LEMMA OthersKeepSources ==
  ASSUME SourcesInv, NEW p \in Procs, Working(p), UNCHANGED <<origin, conf>>,
         at' = [at EXCEPT ![p] = at'[p]], job' = [job EXCEPT ![p] = job'[p]],
         NEW q \in Procs, q # p
  PROVE  OwnSources(q)'
<1>1. at'[q] = at[q] /\ job'[q] = job[q] /\ OwnSources(q) /\ Undisturbed(q)
  BY DEF SourcesInv, HostInv, Inv, Types
<1>2. Working(q) => ~job[q].alone
  BY <1>1 DEF Undisturbed
<1> QED
  BY <1>1, <1>2 DEF OwnSources, Working

LEMMA WorkKeepsSourcesInv ==
  ASSUME SourcesInv, NEW p \in Procs, Work(p) \/ OutputEnds(p)
  PROVE  SourcesInv'
<1>1. HostInv' /\ Moves(p) /\ Working(p)
  BY WorkKeepsHostInv, WorkMoves, WorkIsFine DEF SourcesInv, HostInv
<1>2. ASSUME UNCHANGED <<origin, conf>>, OwnSources(p)', NEW q \in Procs
      PROVE  OwnSources(q)'
  BY <1>1, <1>2, OthersKeepSources DEF Moves
<1>3. ASSUME UNCHANGED sources, OwnSources(p)', at[p] \notin {"cloning", "discard"}
      PROVE  SourcesInv'
  <2>1. \A q \in Procs : OwnSources(q)'
    BY <1>2, <1>3 DEF sources
  <2>2. ASSUME NEW c \in Caches
        PROVE  Whole(c)'
    <3>1. \A q \in Procs \ {p} : at'[q] = at[q] /\ job'[q] = job[q]
      BY <1>1 DEF Moves, SourcesInv, HostInv, Inv, Types
    <3> QED
      BY <1>3, <3>1 DEF SourcesInv, Whole, Cloning, sources
  <2> QED
    BY <1>1, <1>3, <2>1, <2>2 DEF SourcesInv, sources
<1>4. CASE ResolvePlaybook(p) \/ ResolveRoles(p)
  BY <1>3, <1>4, ResolutionBegins DEF ResolvePlaybook, ResolveRoles
<1>5. CASE ResolveStep(p) /\ ~ResolvePlaybook(p) /\ ~ResolveRoles(p)
  <2>1. AtSource(p) /\ Turning(p)
    BY <1>5, ResolveTurns
  <2>2. PICK l, k, j : Turns(p, l, k, j)
    BY <2>1 DEF Turning
  <2>3. UNCHANGED <<origin, conf>>
    BY <2>2 DEF Turns
  <2>4. /\ cache' = [c \in Caches |-> cache'[c]]
        /\ \A c \in Caches : Checkout(cache'[c]) /\ Whole(c)'
    BY <2>1, <2>2, TurnKeepsCaches
  <2>5. OwnSources(p)'
    BY <2>1, <2>2, TurnKeepsOwn
  <2> QED
    BY <1>1, <1>2, <2>3, <2>4, <2>5 DEF SourcesInv
<1>6. CASE ~ResolveStep(p)
  BY <1>1, <1>3, <1>6, AtSourcesIs, StagesKeepSources
<1> QED
  BY <1>4, <1>5, <1>6

\* Nothing is lost where a run stays where it is, and the sources as they are.
LEMMA SourcesStay ==
  ASSUME UNCHANGED <<conf, cache>>, NEW l, NEW i, NEW j, SourcesOf(l, i),
         j.use = i.use, j.used = i.used, j.seen = i.seen, j.missed = i.missed
  PROVE  SourcesOf(l, j)'
<1>1. ASSUME NEW c, Current(cache[c], i)
      PROVE  Current(cache[c], j)'
  BY <1>1 DEF Current, AtRef, Follows
<1>2. Resolved(l, cache[i.use], i) => Resolved(l, cache[j.use], j)'
  BY DEF Resolved, AtRef, Follows
<1> QED
  BY <1>1, <1>2 DEF SourcesOf

LEMMA OwnStays ==
  ASSUME NEW q, OwnSources(q), at'[q] = at[q], job'[q] = job[q], UNCHANGED sources
  PROVE  OwnSources(q)'
<1>1. PICK l, j : l = at[q] /\ j = job[q]
  OBVIOUS
<1>2. SourcesOf(l, j) => SourcesOf(l, j)'
  BY SourcesStay DEF sources
<1> QED
  BY <1>1, <1>2 DEF OwnSources, Working, sources

\* An elevated script works on no source.
LEMMA ScriptKeepsSourcesInv ==
  ASSUME SourcesInv, NEW p \in Procs, RunScript(p)
  PROVE  SourcesInv'
<1>1. HostInv' /\ UNCHANGED sources /\ Types
  BY ScriptKeepsHostInv DEF SourcesInv, HostInv, Inv, RunScript
<1>2. UNCHANGED at
  BY DEF RunScript, ScriptStep, Throw, Capture, Install, Enable, Configure, Restore, Restart, EnableWinRM,
         CreateListener, Load, Reload, RestoreSshd, RestoreWinRM, Sets, run
<1>3. UNCHANGED job \/ (Working(p) /\ job' = [job EXCEPT ![p].threw = TRUE])
  BY WaitsAre
  DEF RunScript, ScriptStep, Throw, Capture, Install, Enable, Configure, Restore, Restart, EnableWinRM,
      CreateListener, Load, Reload, RestoreSshd, RestoreWinRM, Sets, run, Working
<1>4. CASE UNCHANGED job
  <2>1. \A q \in Procs : OwnSources(q)'
    BY <1>1, <1>2, <1>4, OwnStays DEF SourcesInv
  <2> QED
    BY <1>1, <1>2, <1>4, <2>1 DEF SourcesInv, Whole, Cloning, sources
<1>5. CASE Working(p) /\ job' = [job EXCEPT ![p].threw = TRUE]
  <2>1. AtSources(p)
    BY <1>5, AtSourcesIs
  <2>2. PICK j : j = job'[p]
    OBVIOUS
  <2>3. j = [job[p] EXCEPT !.threw = TRUE]
    BY <1>1, <1>5, <2>2 DEF Types
  <2>4. SameSources(j, job[p]) /\ j.plan = job[p].plan
    BY <2>1, <2>3 DEF AtSources, SameSources, SrcFields
  <2>5. \A q \in Procs \ {p} : job'[q] = job[q]
    BY <1>1, <1>5 DEF Types
  <2>6. OwnSources(p)'
    <3> PICK l : l = at[p]
      OBVIOUS
    <3>1. Placed3(l, j)
      BY <2>1, <2>4 DEF AtSources, Placed3, ForPlaybook, ForAnsible, SameSources
    <3>2. ASSUME j.alone
          PROVE  SourcesOf(l, j)'
      <4>1. SourcesOf(l, job[p])
        BY <1>5, <2>1, <2>4, <3>2 DEF AtSources, OwnSources, SameSources
      <4> QED
        BY <1>1, <2>4, <4>1, SourcesStay DEF SameSources, sources
    <3> QED
      BY <1>1, <1>2, <1>5, <2>1, <2>2, <2>4, <3>1, <3>2 DEF AtSources, OwnSources, SameSources, sources
  <2>7. ASSUME NEW q \in Procs, q # p
        PROVE  OwnSources(q)'
    BY <1>1, <1>2, <2>5, <2>7, OwnStays DEF SourcesInv
  <2>8. ASSUME NEW c \in Caches
        PROVE  Whole(c)'
    <3>1. \A q \in Procs : job'[q].use = job[q].use
      BY <2>2, <2>4, <2>5 DEF SameSources
    <3> QED
      BY <1>1, <1>2, <3>1 DEF SourcesInv, Whole, Cloning, sources
  <2> QED
    BY <1>1, <2>6, <2>7, <2>8 DEF SourcesInv, sources
<1> QED
  BY <1>3, <1>4, <1>5

\* A run begins without sources, with what origin has.
LEMMA BeginKeepsSourcesInv ==
  ASSUME SourcesInv, NEW p \in Procs, Begin(p)
  PROVE  SourcesInv'
<1> DEFINE alone == \A q \in Procs \ {p} : ~Working(q) /\ ScriptsOver(q)
           made(plan, force) ==
        [plan |-> Tail(plan), ok |-> TRUE, kept |-> {}, alone |-> alone,
         use |-> "playbooks", used |-> {}, seen |-> origin, missed |-> FALSE,
         vm |-> InPlan("running", plan), ssh |-> InPlan("key", plan), force |-> force, threw |-> FALSE,
         booted |-> FALSE, clean |-> FALSE, astray |-> FALSE, was |-> host]
<1>1. PICK plan \in Plans(scene.os), force \in BOOLEAN :
        /\ at' = [at EXCEPT ![p] = Head(plan)]
        /\ job' = [q \in Procs |->
             IF q = p THEN made(plan, force)
             ELSE IF Working(q) THEN [job[q] EXCEPT !.alone = FALSE] ELSE job[q]]
  BY Zenon DEF Begin
<1>2. PICK j : j = made(plan, force)
  OBVIOUS
<1>12. SrcFields \subseteq DOMAIN j /\ j.plan = Tail(plan) /\ j.use = "playbooks" /\ j.used = {} /\ j.seen = origin
  BY <1>2 DEF SrcFields
<1> HIDE DEF made
<1>3. HostInv' /\ Types /\ at[p] = "idle" /\ UNCHANGED sources
  BY BeginKeepsHostInv DEF SourcesInv, HostInv, Inv, Begin, world
<1>4. PICK l : l = Head(plan)
  OBVIOUS
<1>5. at'[p] = l /\ job'[p] = j
  BY <1>1, <1>2, <1>3, <1>4 DEF Types
<1>6. ASSUME NEW q \in Procs, q # p
      PROVE  /\ at'[q] = at[q]
             /\ job'[q] = IF Working(q) THEN [job[q] EXCEPT !.alone = FALSE] ELSE job[q]
  BY <1>1, <1>3, <1>6 DEF Types
<1>7. Placed3(l, j) /\ l \in Names
  <2>1. Sound(plan) /\ plan # <<>> /\ Once(plan) /\ plan \in Seq(Names)
    BY PlansAreSound, PlansRunAnsibleOnce DEF Sound
  <2>2. Head(plan) = plan[1] /\ Head(plan) \in Names
    BY <2>1, TailIs
  <2>3. /\ Once(Tail(plan))
        /\ l = "ansible" => NoAnsible(Tail(plan))
        /\ l = "args" => Tail(plan) # <<>> /\ Tail(plan)[1] = "ansible"
    BY <1>4, <2>1, <2>2, NextStageIsOnce
  <2>4. l \notin {"playbook", "roles", "start", "play", "drain"} \cup Resolving
    BY <1>4, <2>2 DEF Names, Resolving
  <2> QED
    BY <1>12, <1>4, <2>2, <2>3, <2>4 DEF Placed3, ForPlaybook, ForAnsible
<1>8. OwnSources(p)'
  <2>1. l \notin Busy /\ "playbooks" \in Caches
    BY <1>7 DEF Names, Busy, Resolving, Caches
  <2>2. \A b \in Branches : Recent(origin[b], j.seen[b])
    BY <1>12 DEF SourcesInv, Recent
  <2>3. SourcesOf(l, j)'
    BY <1>12, <2>1 DEF SourcesOf
  <2> QED
    BY <1>12, <1>3, <1>5, <1>7, <2>1, <2>2, <2>3 DEF OwnSources, SourcesInv, sources
<1>9. ASSUME NEW q \in Procs, q # p, Working(q)
      PROVE  OwnSources(q)' /\ job'[q].use = job[q].use
  <2>1. AtSources(q) /\ OwnSources(q)
    BY <1>9, AtSourcesIs DEF SourcesInv
  <2>2. PICK i, m : i = job'[q] /\ m = at[q]
    OBVIOUS
  <2>3. i = [job[q] EXCEPT !.alone = FALSE]
    BY <1>6, <1>9, <2>2
  <2>4. /\ SrcFields \subseteq DOMAIN i /\ i.plan = job[q].plan /\ i.use = job[q].use
        /\ i.used = job[q].used /\ i.seen = job[q].seen /\ ~i.alone
    BY <2>1, <2>3 DEF AtSources, SrcFields
  <2>5. Placed3(m, i)
    BY <2>1, <2>2, <2>4 DEF AtSources, Placed3, ForPlaybook, ForAnsible
  <2> QED
    BY <1>3, <1>6, <1>9, <2>1, <2>2, <2>4, <2>5 DEF OwnSources, sources
<1>10. ASSUME NEW q \in Procs, q # p, ~Working(q)
       PROVE  OwnSources(q)'
  BY <1>6, <1>10 DEF OwnSources, Working
<1>11. ASSUME NEW c \in Caches
       PROVE  Whole(c)'
  <2>1. ASSUME NEW q \in Procs, Cloning(q, c)
        PROVE  Cloning(q, c)'
    <3>1. q # p /\ Working(q)
      BY <1>3, <2>1 DEF Cloning, Working
    <3> QED
      BY <1>6, <1>9, <2>1, <3>1 DEF Cloning
  <2> QED
    BY <1>3, <2>1 DEF SourcesInv, Whole, sources
<1> QED
  BY <1>3, <1>8, <1>9, <1>10, <1>11 DEF SourcesInv, sources

\* The clone of a process that has died is settled: cut off, or finished.
LEMMA DieKeepsSourcesInv ==
  ASSUME SourcesInv, NEW p \in Procs, Die(p)
  PROVE  SourcesInv'
<1>1. /\ HostInv' /\ Types /\ Working(p) /\ UNCHANGED <<origin, conf>>
      /\ at' = [at EXCEPT ![p] = "over"] /\ job' = [job EXCEPT ![p] = NoJob]
  BY DieKeepsHostInv DEF SourcesInv, HostInv, Inv, Die
<1>2. /\ at'[p] = "over" /\ at' = [at EXCEPT ![p] = at'[p]] /\ job' = [job EXCEPT ![p] = job'[p]]
      /\ \A q \in Procs \ {p} : at'[q] = at[q] /\ job'[q] = job[q]
  BY <1>1 DEF Types
<1>3. ASSUME NEW q \in Procs
      PROVE  OwnSources(q)'
  <2>1. CASE q = p
    BY <1>2, <2>1 DEF OwnSources, Working
  <2>2. CASE q # p
    BY <1>1, <1>2, <2>2, OthersKeepSources
  <2> QED
    BY <2>1, <2>2
<1>4. ASSUME NEW u \in Caches, u = job[p].use, NEW m, cache' = [cache EXCEPT ![u] = m], Checkout(m), Settled(m)
      PROVE  SourcesInv'
  <2>1. /\ cache' = [c \in Caches |-> cache'[c]] /\ cache'[u] = m
        /\ \A c \in Caches \ {u} : cache'[c] = cache[c]
    BY <1>4 DEF SourcesInv
  <2>2. ASSUME NEW c \in Caches, c # u
        PROVE  Whole(c)'
    <3>1. Whole(c) /\ ~Cloning(p, c)
      BY <1>4, <2>2 DEF SourcesInv, Cloning
    <3> QED
      BY <1>2, <2>1, <2>2, <3>1 DEF Whole, Cloning
  <2>3. Whole(u)'
    BY <1>4, <2>1 DEF Whole
  <2> QED
    BY <1>1, <1>3, <1>4, <2>1, <2>2, <2>3 DEF SourcesInv
<1>5. CASE at[p] \in {"cloning", "discard"} /\ It(p).by = p
  <2>1. PICK k \in {It(p), [Cloned(It(p)) EXCEPT !.dir = "partial", !.whole = FALSE]} :
          cache' \in {[cache EXCEPT ![job[p].use] = [k EXCEPT !.cut = TRUE, !.by = 0]],
                      [cache EXCEPT ![job[p].use] = Cloned(k)]}
    BY <1>5 DEF Die, LeaveClone
  <2>2. job[p].use \in Caches /\ Checkout(It(p)) /\ origin \in [Branches -> Nat]
    BY <1>1 DEF SourcesInv, OwnSources, It
  <2>3. Checkout(k)
    <3> DEFINE n == Cloned(It(p))
    <3>1. Checkout(n)
      BY <2>2, ClonedIs
    <3>2. k \in {It(p), [n EXCEPT !.dir = "partial", !.whole = FALSE]}
      OBVIOUS
    <3> HIDE DEF n
    <3> QED
      BY <2>2, <3>1, <3>2 DEF Checkout, Fields1
  <2>4. Checkout([k EXCEPT !.cut = TRUE, !.by = 0]) /\ Settled([k EXCEPT !.cut = TRUE, !.by = 0])
    BY <2>3 DEF Checkout, Fields1, Settled
  <2>5. Checkout(Cloned(k)) /\ Settled(Cloned(k))
    BY <2>2, <2>3, ClonedIs
  <2> QED
    BY <1>4, <2>1, <2>2, <2>4, <2>5
<1>6. CASE ~(at[p] \in {"cloning", "discard"} /\ It(p).by = p)
  <2>1. UNCHANGED cache
    BY <1>6 DEF Die, LeaveClone
  <2>2. ASSUME NEW c \in Caches
        PROVE  Whole(c)'
    <3>1. Whole(c) /\ ~(cache[c].by = p /\ Cloning(p, c))
      BY <1>6 DEF SourcesInv, Cloning, It
    <3> QED
      BY <1>2, <2>1, <3>1 DEF Whole, Cloning
  <2> QED
    BY <1>1, <1>3, <2>1, <2>2 DEF SourcesInv
<1> QED
  BY <1>5, <1>6

\* What changes at origin makes no checkout older; the user changes the entry
\* between the runs.
LEMMA ChangeKeepsSourcesInv ==
  ASSUME SourcesInv, SourcesChange, HostInv'
  PROVE  SourcesInv'
<1>1. ASSUME UNCHANGED <<run, conf, cache>>, origin' \in [Branches -> Nat],
             \A b \in Branches : origin'[b] = 0 \/ (origin[b] # 0 /\ origin'[b] >= origin[b])
      PROVE  SourcesInv'
  <2>1. ASSUME NEW q \in Procs
        PROVE  OwnSources(q)'
    <3>1. PICK l, j : l = at[q] /\ j = job[q]
      OBVIOUS
    <3>2. SourcesOf(l, j) => SourcesOf(l, j)'
      BY <1>1, SourcesStay
    <3>3. ASSUME NEW b \in Branches, j.seen \in [Branches -> Nat], Recent(origin[b], j.seen[b])
          PROVE  Recent(origin'[b], j.seen[b])
      <4>1. origin'[b] \in Nat /\ origin[b] \in Nat /\ j.seen[b] \in Nat
        BY <1>1, <3>3 DEF SourcesInv
      <4> QED
        BY <1>1, <3>3, <4>1 DEF Recent
    <3> QED
      BY <1>1, <2>1, <3>1, <3>2, <3>3 DEF SourcesInv, OwnSources, Working, run
  <2> QED
    BY <1>1, <2>1 DEF SourcesInv, Whole, Cloning, run
<1>2. ASSUME NEW b \in Branches, Push(b)
      PROVE  SourcesInv'
  <2>1. origin \in [Branches -> Nat] /\ origin' = [origin EXCEPT ![b] = @ + 1] /\ origin[b] # 0
    BY <1>2 DEF SourcesInv, Push
  <2>2. origin' \in [Branches -> Nat]
    BY <2>1
  <2>3. \A c \in Branches : origin'[c] = 0 \/ (origin[c] # 0 /\ origin'[c] >= origin[c])
    BY <2>1
  <2> QED
    BY <1>1, <1>2, <2>2, <2>3 DEF Push
<1>3. CASE DeleteBranch
  <2>1. origin \in [Branches -> Nat] /\ origin' = [origin EXCEPT !["dev"] = 0]
    BY <1>3 DEF SourcesInv, DeleteBranch
  <2>2. origin' \in [Branches -> Nat]
    BY <2>1
  <2>3. \A c \in Branches : origin'[c] = 0 \/ (origin[c] # 0 /\ origin'[c] >= origin[c])
    BY <2>1
  <2> QED
    BY <1>1, <1>3, <2>2, <2>3 DEF DeleteBranch
<1>4. CASE Reconfigure
  <2>1. UNCHANGED <<run, origin, cache>> /\ \A q \in Procs : ~Working(q)
    BY <1>4 DEF Reconfigure, Working
  <2> QED
    BY <2>1 DEF SourcesInv, OwnSources, Working, Whole, Cloning, run
<1> QED
  BY <1>2, <1>3, <1>4 DEF SourcesChange

LEMMA StepSourcesInv == SourcesInv /\ [Next]_vars => SourcesInv'
<1> SUFFICES ASSUME SourcesInv, [Next]_vars PROVE SourcesInv'
  OBVIOUS
<1>1. HostInv'
  BY StepHostInv DEF SourcesInv
<1>2. CASE UNCHANGED <<run, sources>>
  <2>1. \A q \in Procs : OwnSources(q)'
    BY <1>2, OwnStays DEF SourcesInv, run
  <2> QED
    BY <1>1, <1>2, <2>1 DEF SourcesInv, Whole, Cloning, run, sources
<1>3. GuestChanges => UNCHANGED <<run, sources>>
  BY DEF GuestChanges
<1> QED
  BY <1>1, <1>2, <1>3, BeginKeepsSourcesInv, WorkKeepsSourcesInv, ScriptKeepsSourcesInv, DieKeepsSourcesInv,
     ChangeKeepsSourcesInv DEF Next, vars

\* Ansible starts with checkouts that are whole, at the configured ref and not
\* behind what origin had when the run began, but for the three exceptions of
\* SourcesCurrent: for every set of processes, number of revisions and scene.
THEOREM SourcesStayCurrent == Spec => []SourcesAreCurrent
<1>1. Init => HostInv
  BY CourseBegins
<1>2. Init => SourcesInv
  <2> SUFFICES ASSUME Init PROVE SourcesInv
    OBVIOUS
  <2>1. /\ origin \in [Branches -> Nat] /\ cache = [c \in Caches |-> NoCheckout]
        /\ \A p \in Procs : ~Working(p)
    BY DEF Init, Working
  <2> QED
    BY <1>1, <2>1, NoCheckoutIs DEF SourcesInv, OwnSources, Whole
<1>3. SourcesInv => SourcesAreCurrent
  <2> SUFFICES ASSUME SourcesInv, NEW p \in Procs, at[p] \in {"start", "play"}, job[p].alone,
                      NEW c \in job[p].used
               PROVE  /\ cache[c].whole \/ (cache[c].cut /\ conf.ref = "none")
                      /\ conf.ref # "none" => cache[c].head = conf.ref
                      /\ Follows(cache[c], job[p])
    BY DEF SourcesAreCurrent, SourcesCurrent, Follows
  <2>1. Current(cache[c], job[p])
    BY DEF SourcesInv, OwnSources, SourcesOf, Sure, Working
  <2> QED
    BY <2>1 DEF Current, AtRef
<1> QED
  BY <1>2, <1>3, StepSourcesInv, PTL DEF Spec

-------------------------------------------------------------------------------
(* The host is restored.                                                   *)

\* What a run never changes but at the end of a script; ssh, force and was it
\* never changes at all.
Marks == {"ssh", "force", "booted", "clean", "was"}

SameMarks(i, j) == Marks \subseteq DOMAIN i /\ \A f \in Marks : i[f] = j[f]

BootSteps(j) ==
  IF j.ssh THEN {"capture", "install", "enable", "loopback", "shell", "config", "user", "keys", "restart"}
  ELSE {"capture", "winrm", "auth", "policy", "listener", "rule", "user"}

CleanSteps(j) ==
  IF j.ssh THEN {"load", "user", "keys", "shell", "config", "loopback", "builtin", "reload", "sshd"}
  ELSE {"load", "user", "listener", "auth", "policy", "rule", "certificate", "winrm"}

\* The value a setting is to have in the end.
Target(j, s) ==
  IF j.force /\ s \in (IF j.ssh THEN Sshd ELSE WinRM) THEN "absent" ELSE j.was.set[s]

\* Of a host h and a saved state sv: what is not as it is to be, the steps R of
\* the cleanup will see to.  A setting that is gone was not there before, where
\* the cleanup leaves it at that.
SettingsOwe(j, h, sv, R) ==
  /\ \A s \in Settings :
       \/ h.set[s] = Target(j, s)
       \/ s \in R
       \/ s = "certificate" /\ ~j.ssh /\ ~j.booted
       \/ s \in Wsman /\ Unseen(j) /\ h.set[s] \in Left(j, s)
  /\ \A s \in {"user", "builtin", "rule", "listener"} \cap R :
       h.set[s] = "absent" => j.was.set[s] = "absent"
  /\ h.set["certificate"] = j.was.set["certificate"] \/ sv.created \/ ~j.booted

SshdOwes(j, h, sv, R) ==
  LET w == j.was IN
  /\ h.winrm = w.winrm
  /\ h.capability = w.capability \/ (w.capability = "missing" /\ w.sshd = "absent")
  /\ sv.managed => w.capability = "missing" /\ w.sshd = "absent"
  /\ "sshd" \in R =>
       /\ w.sshd # "absent" => h.sshd # "absent"
       /\ w.sshd = "absent" =>
            sv.managed \/ h.sshd = "absent" \/ (h.sshd = "off" /\ w.capability # "installed")
  /\ "sshd" \notin R =>
       /\ w.capability = "installed" /\ ~j.force => h.sshd = w.sshd
       /\ j.force \/ w.sshd = "absent" => h.sshd # "on"
  /\ "reload" \notin R /\ ~j.force /\ h.sshd = "on" => h.loaded = h.set["config"]

\* WinRM's own settings are changed only while it runs, and where it was off
\* the cleanup does not know what they were.
WinrmOwes(j, h, R) ==
  LET w == j.was IN
  /\ h.capability = w.capability /\ h.sshd = w.sshd /\ h.loaded = w.loaded
  /\ "winrm" \notin R => h.winrm = IF j.force THEN "disabled" ELSE w.winrm
  /\ \A s \in Wsman \cap R : h.winrm # "on" => h.set[s] = w.set[s] /\ w.winrm # "on"
  /\ w.winrm # "on" /\ "auth" \in R => h.set["auth"] \in {w.set["auth"], "temp"}

Owes(j, h, sv, R) ==
  SettingsOwe(j, h, sv, R) /\ IF j.ssh THEN SshdOwes(j, h, sv, R) ELSE WinrmOwes(j, h, R)

\* A bootstrap, with the steps b left, that could not save what it did stops.
Booting(j, h, sv, b) ==
  /\ \/ h.set["certificate"] = j.was.set["certificate"] \/ sv.created
     \/ b = <<"stop">> \/ (b = <<>> /\ j.threw)
  /\ j.ssh /\ j.was.sshd = "absent" /\ ~sv.managed /\ h.sshd # "absent" => b \in {<<>>, <<"stop">>}

\* A cleanup does each step once, reloads sshd after its configuration, and
\* leaves WinRM running until what it keeps to itself is restored.
Orderly(s) ==
  \A i \in 1..Len(s) :
    /\ \A k \in 1..Len(s) : s[i] = s[k] => i = k
    /\ s[i] = "config" => \E k \in 1..Len(s) : k > i /\ s[k] = "reload"
    /\ s[i] \in Wsman => \E k \in 1..Len(s) : k > i /\ s[k] = "winrm"

Remaining(s) == {s[i] : i \in 1..Len(s)}

\* The steps of the cleanup that are still to come, for a run at l.
ToCome(l, j, sc) ==
  IF l \in {"tidy", "done"} THEN {}
  ELSE IF l = "restoring" THEN Remaining(sc.cleanup) ELSE CleanSteps(j)

\* A run at l with the job j, on the host h, with the state sv and the scripts
\* sc.
Trail(l, j, h, sv, sc) ==
  /\ Marks \subseteq DOMAIN j
  /\ l \notin {"tidy", "done"} => ~j.clean
  /\ l \in Early \cup {"bootstrapping"} => ~j.booted
  /\ l = "bootstrapping" =>
       /\ sc.bootstrap \in Seq(BootSteps(j) \cup {"stop"})
       /\ sv.taken => Booting(j, h, sv, sc.bootstrap)
  /\ l = "restoring" =>
       sc.force = j.force /\ sc.cleanup \in Seq(CleanSteps(j)) /\ Orderly(sc.cleanup)
  /\ sv.taken /\ (l = "restoring" => ~j.threw) /\ (l \in {"tidy", "done"} => j.clean) =>
       Owes(j, h, sv, ToCome(l, j, sc))

Trails(p) ==
  Working(p) /\ job[p].alone /\ ~job[p].astray =>
    Trail(at[p], job[p], host, saved[p], script[p])

RestoreInv == HostInv /\ TypeInv /\ \A p \in Procs : Trails(p)


LEMMA StepIsDone ==
  ASSUME NEW S, NEW s \in Seq(S), s # <<>>, Orderly(s)
  PROVE  /\ Tail(s) \in Seq(S) /\ Orderly(Tail(s))
         /\ Head(s) \in Remaining(s) /\ Head(s) \in S /\ Remaining(s) \subseteq S
         /\ Remaining(Tail(s)) = Remaining(s) \ {Head(s)}
         /\ Head(s) = "config" => "reload" \in Remaining(Tail(s))
         /\ Head(s) = "winrm" => Wsman \cap Remaining(Tail(s)) = {}
<1> DEFINE t == Tail(s)
<1>1. /\ t \in Seq(S) /\ Len(s) \in Nat /\ Len(s) = Len(t) + 1 /\ Len(t) \in Nat
      /\ \A i \in 1..Len(t) : i + 1 \in 1..Len(s) /\ t[i] = s[i + 1]
      /\ Head(s) = s[1] /\ 1 \in 1..Len(s)
  BY TailIs
<1>2. \A i \in 1..Len(s) : s[i] \in S
  OBVIOUS
<1> HIDE DEF t
<1>3. ASSUME NEW i \in 1..Len(s), i # 1
      PROVE  i - 1 \in 1..Len(t) /\ s[i] = t[i - 1]
  <2>1. i - 1 \in 1..Len(t) /\ (i - 1) + 1 = i
    BY <1>1, <1>3
  <2> QED
    BY <1>1, <2>1
<1>4. Orderly(t)
  <2> SUFFICES ASSUME NEW i \in 1..Len(t)
               PROVE  /\ \A k \in 1..Len(t) : t[i] = t[k] => i = k
                      /\ t[i] = "config" => \E k \in 1..Len(t) : k > i /\ t[k] = "reload"
                      /\ t[i] \in Wsman => \E k \in 1..Len(t) : k > i /\ t[k] = "winrm"
    BY DEF Orderly
  <2>1. i + 1 \in 1..Len(s) /\ t[i] = s[i + 1]
    BY <1>1
  <2>2. ASSUME NEW k \in 1..Len(t), t[i] = t[k]
        PROVE  i = k
    <3>1. k + 1 \in 1..Len(s) /\ s[k + 1] = s[i + 1]
      BY <1>1, <2>1, <2>2
    <3>2. i + 1 = k + 1
      BY <2>1, <3>1 DEF Orderly
    <3> QED
      BY <3>2
  <2>3. ASSUME t[i] = "config"
        PROVE  \E k \in 1..Len(t) : k > i /\ t[k] = "reload"
    <3>1. PICK k \in 1..Len(s) : k > i + 1 /\ s[k] = "reload"
      BY <2>1, <2>3 DEF Orderly
    <3>2. k - 1 \in 1..Len(t) /\ t[k - 1] = "reload" /\ k - 1 > i
      BY <1>3, <3>1
    <3> QED
      BY <3>2
  <2>4. ASSUME t[i] \in Wsman
        PROVE  \E k \in 1..Len(t) : k > i /\ t[k] = "winrm"
    <3>1. PICK k \in 1..Len(s) : k > i + 1 /\ s[k] = "winrm"
      BY <2>1, <2>4 DEF Orderly
    <3>2. k - 1 \in 1..Len(t) /\ t[k - 1] = "winrm" /\ k - 1 > i
      BY <1>3, <3>1
    <3> QED
      BY <3>2
  <2> QED
    BY <2>2, <2>3, <2>4
<1>5. Remaining(t) = Remaining(s) \ {s[1]}
  <2>1. ASSUME NEW i \in 1..Len(t)
        PROVE  t[i] \in Remaining(s) \ {s[1]}
    <3>1. i + 1 \in 1..Len(s) /\ t[i] = s[i + 1] /\ i + 1 # 1
      BY <1>1
    <3>2. s[i + 1] # s[1]
      BY <1>1, <3>1 DEF Orderly
    <3> QED
      BY <3>1, <3>2 DEF Remaining
  <2>2. ASSUME NEW i \in 1..Len(s), s[i] # s[1]
        PROVE  s[i] \in Remaining(t)
    BY <1>3, <2>2 DEF Remaining
  <2> QED
    BY <2>1, <2>2 DEF Remaining
<1>6. s[1] = "config" => "reload" \in Remaining(t)
  <2> SUFFICES ASSUME s[1] = "config" PROVE "reload" \in Remaining(t)
    OBVIOUS
  <2>1. PICK k \in 1..Len(s) : k > 1 /\ s[k] = "reload"
    BY <1>1 DEF Orderly
  <2>2. k - 1 \in 1..Len(t) /\ t[k - 1] = "reload"
    BY <1>3, <2>1
  <2> QED
    BY <2>2 DEF Remaining
<1>7. s[1] = "winrm" => Wsman \cap Remaining(t) = {}
  <2> SUFFICES ASSUME s[1] = "winrm", NEW i \in 1..Len(t), t[i] \in Wsman PROVE FALSE
    BY DEF Remaining
  <2>1. i + 1 \in 1..Len(s) /\ s[i + 1] \in Wsman
    BY <1>1
  <2>2. PICK k \in 1..Len(s) : k > i + 1 /\ s[k] = "winrm"
    BY <2>1 DEF Orderly
  <2>3. k = 1
    BY <1>1, <2>2 DEF Orderly
  <2> QED
    BY <2>2, <2>3
<1> QED
  BY <1>1, <1>2, <1>4, <1>5, <1>6, <1>7 DEF t, Remaining

\* The cleanup has something to do for each setting its bootstrap changes.
LEMMA CleanStepsAre ==
  ASSUME NEW j
  PROVE  /\ BootSteps(j) \cap Settings \subseteq CleanSteps(j)
         /\ "certificate" \notin BootSteps(j)
         /\ j.ssh => {"sshd", "reload", "builtin"} \subseteq CleanSteps(j) /\ "winrm" \notin CleanSteps(j)
         /\ j.ssh => {"certificate", "winrm", "listener"} \cap BootSteps(j) = {}
         /\ ~j.ssh => {"winrm", "listener", "certificate"} \subseteq CleanSteps(j)
                      /\ {"sshd", "reload"} \cap CleanSteps(j) = {}
         /\ ~j.ssh => {"install", "enable", "restart", "config"} \cap BootSteps(j) = {}
         /\ \A s \in CleanSteps(j) :
              s \in {"loopback", "builtin", "auth", "listener", "rule"} <=> s \in (IF j.ssh THEN Sshd ELSE WinRM)
         /\ (IF j.ssh THEN Sshd ELSE WinRM) \subseteq CleanSteps(j) \cap Settings
BY DEF CleanSteps, BootSteps, Settings, Sshd, WinRM


-------------------------------------------------------------------------------
(* The steps of the cleanup, on a host h with the state sv.                *)

LEMMA SetIs ==
  ASSUME NEW h \in HostStates, NEW s \in Settings, NEW v
  PROVE  /\ [h EXCEPT !.set[s] = v].set[s] = v
         /\ \A t \in Settings : t # s => [h EXCEPT !.set[s] = v].set[t] = h.set[t]
         /\ [h EXCEPT !.set[s] = v].capability = h.capability
         /\ [h EXCEPT !.set[s] = v].sshd = h.sshd
         /\ [h EXCEPT !.set[s] = v].loaded = h.loaded
         /\ [h EXCEPT !.set[s] = v].winrm = h.winrm
BY DEF HostStates

LEMMA SettingIsRestored ==
  ASSUME NEW j, NEW h \in HostStates, NEW sv, NEW R \in SUBSET CleanSteps(j), Owes(j, h, sv, R),
         NEW s \in Settings, s \in R, s = "config" => "reload" \in R,
         NEW v, \/ v = Target(j, s)
                \/ s = "certificate" /\ ~j.ssh /\ ~j.booted
                \/ s \in Wsman /\ Unseen(j) /\ v \in Left(j, s),
         s = "certificate" => v = j.was.set[s] \/ sv.created \/ ~j.booted
  PROVE  Owes(j, [h EXCEPT !.set[s] = v], sv, R \ {s})
<1> DEFINE g == [h EXCEPT !.set[s] = v]
<1>1. /\ g.set[s] = v /\ \A t \in Settings : t # s => g.set[t] = h.set[t]
      /\ g.capability = h.capability /\ g.sshd = h.sshd /\ g.loaded = h.loaded /\ g.winrm = h.winrm
  BY SetIs
<1> HIDE DEF g
<1>2. "config" \in Settings /\ "certificate" \in Settings
      /\ {"user", "builtin", "rule", "listener"} \subseteq Settings
      /\ s \notin {"sshd", "reload", "winrm"}
  BY DEF Settings
<1>3. SettingsOwe(j, g, sv, R \ {s})
  <2>1. ASSUME NEW t \in Settings
        PROVE  \/ g.set[t] = Target(j, t)
               \/ t \in R \ {s}
               \/ t = "certificate" /\ ~j.ssh /\ ~j.booted
               \/ t \in Wsman /\ Unseen(j) /\ g.set[t] \in Left(j, t)
    BY <1>1 DEF Owes, SettingsOwe
  <2>2. ASSUME NEW t \in {"user", "builtin", "rule", "listener"} \cap (R \ {s}), g.set[t] = "absent"
        PROVE  j.was.set[t] = "absent"
    BY <1>1, <1>2, <2>2 DEF Owes, SettingsOwe
  <2>3. g.set["certificate"] = j.was.set["certificate"] \/ sv.created \/ ~j.booted
    BY <1>1, <1>2 DEF Owes, SettingsOwe
  <2> QED
    BY <2>1, <2>2, <2>3 DEF SettingsOwe
<1>4. j.ssh => SshdOwes(j, g, sv, R \ {s})
  <2>1. "reload" \notin R => g.set["config"] = h.set["config"]
    BY <1>1, <1>2
  <2> QED
    BY <1>1, <1>2, <2>1 DEF Owes, SshdOwes
<1>5. ~j.ssh => WinrmOwes(j, g, R \ {s})
  BY <1>1, <1>2 DEF Owes, WinrmOwes, Wsman, Settings
<1> QED
  BY <1>3, <1>4, <1>5 DEF Owes, g

\* Nothing is owed that the run p does not restore.
LEMMA RestoreOwes ==
  ASSUME NEW p, NEW j, host \in HostStates, NEW R \in SUBSET CleanSteps(j), Owes(j, host, saved[p], R),
         saved[p].taken, j.was \in HostStates, saved[p].was = Found(j.was), script[p].force = j.force,
         NEW s \in Settings, s \in R, s = "config" => "reload" \in R,
         Restore(p, s)
  PROVE  Owes(j, host', saved[p], R \ {s})
<1> DEFINE kept == \/ s = "user" /\ (~saved[p].taken \/ host.set[s] = "absent")
                   \/ s = "certificate" /\ ~saved[p].created
                   \/ s = "auth" /\ saved[p].was.winrm # "on"
                   \/ s \in {"builtin", "rule", "listener"} /\ host.set[s] = "absent"
           hidden == s \in Wsman /\ host.winrm # "on"
           v == IF hidden THEN host.set[s] ELSE IF Forced(p, s) THEN "absent"
                ELSE IF kept THEN host.set[s] ELSE Before(p, s)
<1>1. host' = [host EXCEPT !.set[s] = v]
  <2>1. host' = [host EXCEPT !.set[s] = IF hidden THEN @ ELSE IF Forced(p, s) THEN "absent"
                                        ELSE IF kept THEN @ ELSE Before(p, s)]
    BY DEF Restore, Sets
  <2> QED
    BY <2>1 DEF HostStates
<1>2. Forced(p, s) <=> j.force /\ s \in (IF j.ssh THEN Sshd ELSE WinRM)
  BY CleanStepsAre DEF Forced
<1>3. /\ Before(p, s) = IF s \in Wsman /\ j.was.winrm # "on" THEN "absent" ELSE j.was.set[s]
      /\ saved[p].was.winrm = j.was.winrm
  BY FoundIs DEF Before
<1>4. s \in Wsman => ~j.ssh /\ WinrmOwes(j, host, R) /\ s # "certificate"
  BY DEF Owes, CleanSteps, Wsman
<1>5. CASE hidden
  <2>1. s \in Wsman /\ Unseen(j) /\ v = j.was.set[s]
    BY <1>4, <1>5 DEF WinrmOwes, Unseen
  <2> HIDE DEF v
  <2>2. v \in Left(j, s)
    BY <2>1 DEF Left
  <2> QED
    BY <1>1, <1>4, <2>1, <2>2, SettingIsRestored
<1>6. CASE ~hidden /\ Forced(p, s)
  <2>1. v = Target(j, s) /\ s # "certificate"
    BY <1>2, <1>6 DEF Target, Sshd, WinRM
  <2> HIDE DEF v
  <2> QED
    BY <1>1, <2>1, SettingIsRestored
<1>7. CASE ~hidden /\ ~Forced(p, s) /\ s \in Wsman /\ j.was.winrm # "on"
  <2>1. ~j.force
    BY <1>2, <1>4, <1>7 DEF Wsman, WinRM
  <2>2. Unseen(j) /\ s # "certificate"
    BY <1>4, <1>7 DEF Unseen
  <2>3. CASE s = "auth"
    <3>1. v = host.set["auth"]
      BY <1>3, <1>7, <2>3
    <3>2. host.set["auth"] \in {j.was.set["auth"], "temp"}
      BY <1>4, <1>7, <2>3 DEF WinrmOwes
    <3> HIDE DEF v
    <3>3. v \in Left(j, s)
      BY <2>1, <2>3, <3>1, <3>2 DEF Left
    <3> QED
      BY <1>1, <1>7, <2>2, <3>3, SettingIsRestored
  <2>4. CASE s = "listener"
    <3>1. v = "absent"
      BY <1>3, <1>7, <2>4
    <3> HIDE DEF v
    <3>2. v \in Left(j, s)
      BY <2>4, <3>1 DEF Left
    <3> QED
      BY <1>1, <1>7, <2>2, <3>2, SettingIsRestored
  <2> QED
    BY <1>7, <2>3, <2>4 DEF Wsman
<1>8. CASE ~hidden /\ ~Forced(p, s) /\ ~(s \in Wsman /\ j.was.winrm # "on")
  <2>1. Target(j, s) = j.was.set[s]
    BY <1>2, <1>8 DEF Target
  <2>2. v = IF kept THEN host.set[s] ELSE j.was.set[s]
    BY <1>3, <1>8
  <2>3. kept /\ s # "certificate" => host.set[s] = j.was.set[s]
    BY <1>3, <1>8 DEF Owes, SettingsOwe, Wsman
  <2>4. s = "certificate" => ~j.ssh /\ (v = j.was.set[s] \/ ~j.booted)
    <3> SUFFICES ASSUME s = "certificate" PROVE ~j.ssh /\ (v = j.was.set[s] \/ ~j.booted)
      OBVIOUS
    <3>1. ~j.ssh
      BY DEF CleanSteps
    <3>2. kept => host.set[s] = j.was.set[s] \/ ~j.booted
      BY DEF Owes, SettingsOwe
    <3> QED
      BY <2>2, <3>1, <3>2
  <2>5. s # "certificate" => v = j.was.set[s]
    BY <2>2, <2>3
  <2> HIDE DEF v
  <2> QED
    BY <1>1, <2>1, <2>4, <2>5, SettingIsRestored
<1> QED
  BY <1>5, <1>6, <1>7, <1>8

LEMMA ReloadOwes ==
  ASSUME NEW p, NEW j, host \in HostStates, NEW R \in SUBSET CleanSteps(j), Owes(j, host, saved[p], R),
         script[p].force = j.force, "reload" \in R, Reload(p)
  PROVE  Owes(j, host', saved[p], R \ {"reload"})
<1>1. /\ j.ssh /\ "reload" \notin Settings
  BY CleanStepsAre DEF Settings
<1>2. host' = IF host.sshd = "on" /\ ~script[p].force
              THEN [host EXCEPT !.loaded = host.set["config"]] ELSE host
  BY DEF Reload, Sets
<1>3. /\ host'.set = host.set /\ host'.capability = host.capability /\ host'.sshd = host.sshd
      /\ host'.winrm = host.winrm
      /\ ~j.force /\ host'.sshd = "on" => host'.loaded = host'.set["config"]
  BY <1>2 DEF HostStates
<1>4. SettingsOwe(j, host', saved[p], R \ {"reload"})
  BY <1>1, <1>3 DEF Owes, SettingsOwe
<1>5. SshdOwes(j, host', saved[p], R \ {"reload"})
  BY <1>1, <1>3 DEF Owes, SshdOwes
<1> QED
  BY <1>1, <1>4, <1>5 DEF Owes

LEMMA SshdOwesNothing ==
  ASSUME NEW p, NEW j, host \in HostStates, j.was \in HostStates,
         NEW R \in SUBSET CleanSteps(j), Owes(j, host, saved[p], R),
         saved[p].was = Found(j.was), script[p].force = j.force, "sshd" \in R, RestoreSshd(p)
  PROVE  Owes(j, host', saved[p], R \ {"sshd"})
<1> DEFINE w == j.was
           back == [host EXCEPT !.sshd = w.sshd,
                                !.loaded = IF w.sshd # "on" THEN "absent"
                                           ELSE IF host.sshd = "on" THEN @ ELSE host.set["config"]]
<1>1. /\ j.ssh /\ "sshd" \notin Settings
  BY CleanStepsAre DEF Settings
<1>2. host' = IF j.force \/ saved[p].managed THEN Disable(host)
              ELSE IF w.capability # "installed" \/ host.sshd = "absent" \/ w.sshd = "absent" THEN host
              ELSE back
  <2>1. saved[p].was.capability = w.capability /\ saved[p].was.sshd = w.sshd
    BY FoundIs
  <2> QED
    BY <2>1 DEF RestoreSshd, Sets
<1>3. /\ Disable(host).set = host.set /\ Disable(host).capability = host.capability
      /\ Disable(host).winrm = host.winrm /\ Disable(host).sshd \in {"absent", "disabled"}
  BY DEF Disable, HostStates
<1>4. /\ back.set = host.set /\ back.capability = host.capability /\ back.winrm = host.winrm
      /\ back.sshd = w.sshd
      /\ back.sshd = "on" => back.loaded = IF host.sshd = "on" THEN host.loaded ELSE back.set["config"]
  BY DEF HostStates
<1> HIDE DEF back
<1>5. /\ host'.set = host.set /\ host'.capability = host.capability /\ host'.winrm = host.winrm
  BY <1>2, <1>3, <1>4
<1>6. SettingsOwe(j, host', saved[p], R \ {"sshd"})
  BY <1>1, <1>5 DEF Owes, SettingsOwe
<1>7. SshdOwes(j, host, saved[p], R)
  BY <1>1 DEF Owes
<1>8. SshdOwes(j, host', saved[p], R \ {"sshd"})
  <2>1. CASE j.force \/ saved[p].managed
    <3>1. host'.sshd \in {"absent", "disabled"}
      BY <1>2, <1>3, <2>1
    <3> QED
      BY <1>5, <1>7, <2>1, <3>1 DEF SshdOwes
  <2>2. CASE ~j.force /\ ~saved[p].managed /\ (w.capability # "installed" \/ host.sshd = "absent" \/ w.sshd = "absent")
    <3>1. host' = host
      BY <1>2, <2>2
    <3> QED
      BY <1>7, <2>2, <3>1 DEF SshdOwes
  <2>3. CASE ~j.force /\ ~saved[p].managed /\ ~(w.capability # "installed" \/ host.sshd = "absent" \/ w.sshd = "absent")
    <3>1. host' = back
      BY <1>2, <2>3
    <3> QED
      BY <1>4, <1>7, <2>3, <3>1 DEF SshdOwes
  <2> QED
    BY <2>1, <2>2, <2>3
<1> QED
  BY <1>1, <1>6, <1>8 DEF Owes

LEMMA WinrmOwesNothing ==
  ASSUME NEW p, NEW j, host \in HostStates, NEW R \in SUBSET CleanSteps(j), Owes(j, host, saved[p], R),
         j.was \in HostStates, saved[p].taken, saved[p].was = Found(j.was), script[p].force = j.force,
         "winrm" \in R, Wsman \cap (R \ {"winrm"}) = {}, RestoreWinRM(p)
  PROVE  Owes(j, host', saved[p], R \ {"winrm"})
<1>1. ~j.ssh /\ "winrm" \notin Settings
  BY CleanStepsAre DEF Settings
<1>2. host' = [host EXCEPT !.winrm = IF j.force THEN "disabled" ELSE j.was.winrm]
  <2>1. saved[p].was.winrm = j.was.winrm
    BY FoundIs
  <2> QED
    BY <2>1 DEF RestoreWinRM, Sets, HostStates
<1>3. /\ host'.set = host.set /\ host'.capability = host.capability /\ host'.sshd = host.sshd
      /\ host'.loaded = host.loaded /\ host'.winrm = IF j.force THEN "disabled" ELSE j.was.winrm
  BY <1>2 DEF HostStates
<1>4. SettingsOwe(j, host', saved[p], R \ {"winrm"})
  BY <1>1, <1>3 DEF Owes, SettingsOwe
<1>5. WinrmOwes(j, host', R \ {"winrm"})
  BY <1>1, <1>3 DEF Owes, WinrmOwes, Wsman
<1> QED
  BY <1>1, <1>4, <1>5 DEF Owes

\* The loaded state file is no debt.
LEMMA LoadOwes ==
  ASSUME NEW j, NEW h, NEW sv, NEW R, Owes(j, h, sv, R)
  PROVE  Owes(j, h, sv, R \ {"load"})
<1>1. "load" \notin Settings \cup {"sshd", "reload", "winrm"}
  BY DEF Settings
<1> QED
  BY <1>1 DEF Owes, SettingsOwe, SshdOwes, WinrmOwes


-------------------------------------------------------------------------------
(* The steps of the bootstrap.                                             *)

\* The bootstrap of p, a run with the job j, has saved the state and goes on.
OnBoot(p, j) ==
  /\ host \in HostStates /\ j.was \in HostStates
  /\ saved[p] \in States /\ saved[p].was = Found(j.was)
  /\ script[p].bootstrap \in Seq(BootSteps(j) \cup {"stop"})
  /\ Owes(j, host, saved[p], CleanSteps(j))
  /\ Booting(j, host, saved[p], script[p].bootstrap)

\* The cleanup will see to what the bootstrap has done.
Boots(p, j) ==
  /\ Owes(j, host', saved'[p], CleanSteps(j))
  /\ Booting(j, host', saved'[p], script'[p].bootstrap)

\* A bootstrap that has not stopped has saved what it did.
LEMMA BootsOn ==
  ASSUME NEW p, NEW j, OnBoot(p, j), NEW s, s # "stop", Doing(p, "bootstrap", s)
  PROVE  /\ s \in BootSteps(j)
         /\ host.set["certificate"] = j.was.set["certificate"] \/ saved[p].created
         /\ j.ssh /\ j.was.sshd = "absent" /\ ~saved[p].managed => host.sshd = "absent"
<1> DEFINE b == script[p].bootstrap
<1>1. b \in Seq(BootSteps(j) \cup {"stop"}) /\ b # <<>> /\ Head(b) = s
  BY DEF OnBoot, Doing
<1>2. s \in BootSteps(j)
  BY <1>1
<1>3. b # <<"stop">>
  BY <1>1
<1> QED
  BY <1>1, <1>2, <1>3 DEF OnBoot, Booting

LEMMA ConfigureBoots ==
  ASSUME Tables, NEW p \in Procs, NEW j, OnBoot(p, j), NEW s \in Settings, Configure(p, s)
  PROVE  Boots(p, j)
<1> DEFINE g == [host EXCEPT !.set[s] = "temp"]
<1>1. /\ Doing(p, "bootstrap", s) /\ host' = g /\ saved'[p] = saved[p] /\ s \in Settings \ {"listener"}
      /\ s \in Wsman => host.winrm = "on"
  BY DEF Configure, Sets
<1>2. /\ host \in HostStates /\ Owes(j, host, saved[p], CleanSteps(j))
  BY DEF OnBoot
<1>3. /\ g.set[s] = "temp" /\ \A t \in Settings : t # s => g.set[t] = host.set[t]
      /\ g.capability = host.capability /\ g.sshd = host.sshd /\ g.loaded = host.loaded /\ g.winrm = host.winrm
  BY <1>2, SetIs
<1> HIDE DEF g
<1>4. /\ s \in BootSteps(j) /\ "stop" \notin Settings
      /\ host.set["certificate"] = j.was.set["certificate"] \/ saved[p].created
      /\ j.ssh /\ j.was.sshd = "absent" /\ ~saved[p].managed => host.sshd = "absent"
  <2>1. "stop" \notin Settings
    BY DEF Settings
  <2> QED
    BY <1>1, <2>1, BootsOn
<1>5. s \in CleanSteps(j) /\ s # "certificate" /\ "certificate" \in Settings
  BY <1>4, CleanStepsAre DEF Settings
<1>6. SettingsOwe(j, g, saved[p], CleanSteps(j))
  <2>1. ASSUME NEW t \in Settings
        PROVE  \/ g.set[t] = Target(j, t)
               \/ t \in CleanSteps(j)
               \/ t = "certificate" /\ ~j.ssh /\ ~j.booted
               \/ t \in Wsman /\ Unseen(j) /\ g.set[t] \in Left(j, t)
    BY <1>2, <1>3, <1>5 DEF Owes, SettingsOwe
  <2>2. ASSUME NEW t \in {"user", "builtin", "rule", "listener"} \cap CleanSteps(j), g.set[t] = "absent"
        PROVE  j.was.set[t] = "absent"
    <3>1. t \in Settings
      BY DEF Settings
    <3> QED
      BY <1>2, <1>3, <2>2, <3>1 DEF Owes, SettingsOwe
  <2> QED
    BY <1>3, <1>4, <1>5, <2>1, <2>2 DEF SettingsOwe
<1>7. j.ssh => SshdOwes(j, g, saved[p], CleanSteps(j))
  BY <1>2, <1>3, CleanStepsAre DEF Owes, SshdOwes
<1>8. ~j.ssh => WinrmOwes(j, g, CleanSteps(j))
  BY <1>1, <1>2, <1>3 DEF Owes, WinrmOwes, Wsman, Settings
<1>9. Booting(j, g, saved[p], script'[p].bootstrap)
  BY <1>3, <1>4, <1>5 DEF Booting
<1> QED
  BY <1>1, <1>6, <1>7, <1>8, <1>9 DEF Boots, Owes

\* A step of the bootstrap that changes no setting.
LEMMA StateBoots ==
  ASSUME NEW p, NEW j, OnBoot(p, j), host'.set = host.set, saved'[p].created = saved[p].created,
         host.set["certificate"] = j.was.set["certificate"] \/ saved[p].created,
         j.ssh => SshdOwes(j, host', saved'[p], CleanSteps(j)),
         ~j.ssh => WinrmOwes(j, host', CleanSteps(j)),
         j.ssh /\ j.was.sshd = "absent" /\ ~saved'[p].managed /\ host'.sshd # "absent" =>
           script'[p].bootstrap \in {<<>>, <<"stop">>}
  PROVE  Boots(p, j)
<1>1. SettingsOwe(j, host, saved[p], CleanSteps(j))
  BY DEF OnBoot, Owes
<1>2. SettingsOwe(j, host', saved'[p], CleanSteps(j))
  BY <1>1 DEF SettingsOwe
<1> QED
  BY <1>2 DEF Boots, Owes, Booting

LEMMA EnableBoots ==
  ASSUME Tables, NEW p \in Procs, NEW j, OnBoot(p, j), Enable(p) \/ Restart(p) \/ EnableWinRM(p)
  PROVE  Boots(p, j)
<1>1. /\ saved'[p] = saved[p] /\ host \in HostStates /\ j.was \in HostStates
      /\ saved[p].was.sshd = j.was.sshd /\ Owes(j, host, saved[p], CleanSteps(j))
  BY FoundIs DEF Enable, Restart, EnableWinRM, Sets, OnBoot
<1>2. CASE Enable(p)
  <2>1. /\ "enable" \in BootSteps(j)
        /\ host.set["certificate"] = j.was.set["certificate"] \/ saved[p].created
        /\ j.ssh /\ j.was.sshd = "absent" /\ ~saved[p].managed => host.sshd = "absent"
    BY <1>2, BootsOn DEF Enable
  <2>2. j.ssh /\ {"sshd", "reload"} \subseteq CleanSteps(j)
    BY <2>1, CleanStepsAre
  <2>3. /\ host'.set = host.set /\ host'.capability = host.capability /\ host'.winrm = host.winrm
        /\ host.sshd # "absent" /\ host'.sshd = IF j.was.sshd = "disabled" THEN "off" ELSE host.sshd
    BY <1>1, <1>2 DEF Enable, Sets, HostStates
  <2>4. SshdOwes(j, host', saved[p], CleanSteps(j))
    BY <1>1, <2>1, <2>2, <2>3 DEF Owes, SshdOwes
  <2> QED
    BY <1>1, <2>1, <2>2, <2>3, <2>4, StateBoots
<1>3. CASE Restart(p)
  <2>1. /\ "restart" \in BootSteps(j)
        /\ host.set["certificate"] = j.was.set["certificate"] \/ saved[p].created
        /\ j.ssh /\ j.was.sshd = "absent" /\ ~saved[p].managed => host.sshd = "absent"
    BY <1>3, BootsOn DEF Restart
  <2>2. j.ssh /\ {"sshd", "reload"} \subseteq CleanSteps(j)
    BY <2>1, CleanStepsAre
  <2>3. /\ host'.set = host.set /\ host'.capability = host.capability /\ host'.winrm = host.winrm
        /\ host.sshd # "absent" /\ host'.sshd = "on"
    BY <1>1, <1>3 DEF Restart, Sets, HostStates
  <2>4. SshdOwes(j, host', saved[p], CleanSteps(j))
    BY <1>1, <2>1, <2>2, <2>3 DEF Owes, SshdOwes
  <2> QED
    BY <1>1, <2>1, <2>2, <2>3, <2>4, StateBoots
<1>4. CASE EnableWinRM(p)
  <2>1. /\ "winrm" \in BootSteps(j)
        /\ host.set["certificate"] = j.was.set["certificate"] \/ saved[p].created
    BY <1>4, BootsOn DEF EnableWinRM
  <2>2. ~j.ssh /\ "winrm" \in CleanSteps(j)
    BY <2>1, CleanStepsAre
  <2>3. /\ host'.set = host.set /\ host'.capability = host.capability /\ host'.sshd = host.sshd
        /\ host'.loaded = host.loaded /\ host'.winrm = "on"
    BY <1>1, <1>4 DEF EnableWinRM, Sets, HostStates
  <2>4. WinrmOwes(j, host', CleanSteps(j))
    BY <1>1, <2>2, <2>3 DEF Owes, WinrmOwes
  <2> QED
    BY <1>1, <2>1, <2>2, <2>3, <2>4, StateBoots
<1> QED
  BY <1>2, <1>3, <1>4

\* An OpenSSH that was installed is in the state file, or the script stops.
LEMMA InstallBoots ==
  ASSUME Tables, NEW p \in Procs, NEW j, OnBoot(p, j), ScriptFormed(script[p]), Install(p)
  PROVE  Boots(p, j)
<1>1. /\ host \in HostStates /\ j.was \in HostStates /\ saved[p] \in States
      /\ saved[p].was.capability = j.was.capability /\ saved[p].was.sshd = j.was.sshd
      /\ Owes(j, host, saved[p], CleanSteps(j))
  BY FoundIs DEF OnBoot
<1>2. /\ "install" \in BootSteps(j)
      /\ host.set["certificate"] = j.was.set["certificate"] \/ saved[p].created
      /\ j.ssh /\ j.was.sshd = "absent" /\ ~saved[p].managed => host.sshd = "absent"
  BY BootsOn DEF Install
<1>3. j.ssh /\ {"sshd", "reload", "builtin"} \subseteq CleanSteps(j)
  BY <1>2, CleanStepsAre
<1>4. CASE ~(saved[p].was.capability # "installed" /\ saved[p].was.sshd = "absent")
  <2>1. UNCHANGED <<host, saved>>
    BY <1>4 DEF Install
  <2> QED
    BY <1>1, <1>2, <1>3, <2>1, StateBoots DEF Owes
<1>5. CASE saved[p].was.capability # "installed" /\ saved[p].was.sshd = "absent"
  <2> DEFINE g == [host EXCEPT !.capability = "installed", !.sshd = "off", !.set["builtin"] = "temp"]
  <2>1. /\ j.was.capability = "missing" /\ j.was.sshd = "absent" /\ host' = g
    BY <1>1, <1>5 DEF Install
  <2>2. "builtin" \in Settings /\ "certificate" \in Settings
    BY DEF Settings
  <2>3. /\ g.set["builtin"] = "temp" /\ \A t \in Settings : t # "builtin" => g.set[t] = host.set[t]
        /\ g.capability = "installed" /\ g.sshd = "off" /\ g.winrm = host.winrm
    BY <1>1, <2>2 DEF HostStates
  <2> HIDE DEF g
  <2>4. saved'[p].created = saved[p].created
        /\ (saved'[p].managed \/ (saved'[p] = saved[p] /\ script'[p].bootstrap = <<"stop">>))
    <3>1. CASE saved' = [saved EXCEPT ![p].managed = TRUE]
      BY <1>1, <3>1 DEF Tables, States
    <3>2. CASE saved' = saved /\ script' = [script EXCEPT ![p]["bootstrap"] = <<"stop">>]
      BY <3>2 DEF Tables, ScriptFormed
    <3> QED
      BY <1>5, <3>1, <3>2 DEF Install
  <2>5. SettingsOwe(j, g, saved'[p], CleanSteps(j))
    <3>1. ASSUME NEW t \in Settings
          PROVE  \/ g.set[t] = Target(j, t)
                 \/ t \in CleanSteps(j)
                 \/ t = "certificate" /\ ~j.ssh /\ ~j.booted
                 \/ t \in Wsman /\ Unseen(j) /\ g.set[t] \in Left(j, t)
      BY <1>1, <1>3, <2>3 DEF Owes, SettingsOwe
    <3>2. ASSUME NEW t \in {"user", "builtin", "rule", "listener"} \cap CleanSteps(j), g.set[t] = "absent"
          PROVE  j.was.set[t] = "absent"
      <4>1. t \in Settings
        BY DEF Settings
      <4> QED
        BY <1>1, <2>3, <3>2, <4>1 DEF Owes, SettingsOwe
    <3> QED
      BY <1>2, <2>2, <2>3, <2>4, <3>1, <3>2 DEF SettingsOwe
  <2>6. SshdOwes(j, g, saved'[p], CleanSteps(j))
    BY <1>1, <1>3, <2>1, <2>3 DEF Owes, SshdOwes
  <2>7. Booting(j, g, saved'[p], script'[p].bootstrap)
    BY <1>2, <2>2, <2>3, <2>4 DEF Booting
  <2> QED
    BY <1>3, <2>1, <2>5, <2>6, <2>7 DEF Boots, Owes
<1> QED
  BY <1>4, <1>5

\* So is the listener.
LEMMA ListenerBoots ==
  ASSUME Tables, NEW p \in Procs, NEW j, OnBoot(p, j), ~j.booted, ScriptFormed(script[p]), CreateListener(p)
  PROVE  Boots(p, j)
<1>1. /\ host \in HostStates /\ j.was \in HostStates /\ saved[p] \in States
      /\ Owes(j, host, saved[p], CleanSteps(j)) /\ host.winrm = "on"
  BY DEF OnBoot, CreateListener
<1>2. /\ "listener" \in BootSteps(j)
      /\ host.set["certificate"] = j.was.set["certificate"] \/ saved[p].created
  BY BootsOn DEF CreateListener
<1>3. ~j.ssh /\ {"listener", "certificate"} \subseteq CleanSteps(j)
  BY <1>2, CleanStepsAre
<1>4. CASE host.set["listener"] # "absent"
  <2>1. UNCHANGED <<host, saved>>
    BY <1>4 DEF CreateListener
  <2> QED
    BY <1>1, <1>2, <1>3, <2>1, StateBoots DEF Owes
<1>5. CASE host.set["listener"] = "absent"
  <2>1. PICK l \in {"absent", "temp"} :
          host' = [host EXCEPT !.set["listener"] = l, !.set["certificate"] = "temp"]
    BY <1>5 DEF CreateListener
  <2>2. "listener" \in Settings /\ "certificate" \in Settings
    BY DEF Settings
  <2>3. /\ \A t \in Settings \ {"listener", "certificate"} : host'.set[t] = host.set[t]
        /\ host'.capability = host.capability /\ host'.sshd = host.sshd /\ host'.loaded = host.loaded
        /\ host'.winrm = "on"
    BY <1>1, <2>1, <2>2 DEF HostStates
  <2>4. saved'[p].created \/ (saved'[p] = saved[p] /\ script'[p].bootstrap = <<"stop">>)
    <3>1. CASE saved' = [saved EXCEPT ![p].created = TRUE]
      BY <1>1, <3>1 DEF Tables, States
    <3>2. CASE saved' = saved /\ script' = [script EXCEPT ![p]["bootstrap"] = <<"stop">>]
      BY <3>2 DEF Tables, ScriptFormed
    <3> QED
      BY <1>5, <3>1, <3>2 DEF CreateListener
  <2>5. SettingsOwe(j, host', saved'[p], CleanSteps(j))
    <3>1. ASSUME NEW t \in Settings
          PROVE  \/ host'.set[t] = Target(j, t)
                 \/ t \in CleanSteps(j)
                 \/ t = "certificate" /\ ~j.ssh /\ ~j.booted
                 \/ t \in Wsman /\ Unseen(j) /\ host'.set[t] \in Left(j, t)
      BY <1>1, <1>3, <2>3 DEF Owes, SettingsOwe
    <3>2. ASSUME NEW t \in {"user", "builtin", "rule", "listener"} \cap CleanSteps(j), host'.set[t] = "absent"
          PROVE  j.was.set[t] = "absent"
      <4>1. t \in Settings /\ t # "certificate"
        BY DEF Settings
      <4> QED
        BY <1>1, <1>5, <2>3, <3>2, <4>1 DEF Owes, SettingsOwe
    <3> QED
      BY <3>1, <3>2 DEF SettingsOwe
  <2>6. WinrmOwes(j, host', CleanSteps(j))
    BY <1>1, <1>3, <2>3, CleanStepsAre DEF Owes, WinrmOwes, Wsman, Settings
  <2>7. Booting(j, host', saved'[p], script'[p].bootstrap)
    BY <1>3, <2>4 DEF Booting
  <2> QED
    BY <1>3, <2>5, <2>6, <2>7 DEF Boots, Owes
<1> QED
  BY <1>4, <1>5

\* At the capture nothing is owed.
LEMMA CaptureBoots ==
  ASSUME Tables, NEW p \in Procs, NEW j, host = j.was, Capture(p), ScriptFormed(script[p])
  PROVE  Boots(p, j)
<1>1. /\ saved'[p] = [Empty EXCEPT !.taken = TRUE, !.was = Found(host)] /\ host' = host
  BY DEF Capture, Tables
<1>2. ~saved'[p].managed /\ ~saved'[p].created
  BY <1>1 DEF Empty
<1>3. SettingsOwe(j, host', saved'[p], CleanSteps(j))
  <2>1. ASSUME NEW s \in Settings
        PROVE  host.set[s] = Target(j, s) \/ s \in CleanSteps(j)
    BY CleanStepsAre DEF Target
  <2> QED
    BY <1>1, <2>1 DEF SettingsOwe
<1>4. j.ssh => SshdOwes(j, host', saved'[p], CleanSteps(j))
  BY <1>1, <1>2, CleanStepsAre DEF SshdOwes
<1>5. ~j.ssh => WinrmOwes(j, host', CleanSteps(j))
  BY <1>1, CleanStepsAre DEF WinrmOwes
<1> QED
  BY <1>1, <1>2, <1>3, <1>4, <1>5 DEF Boots, Owes, Booting

-------------------------------------------------------------------------------
(* The run, on a host that it leaves as it is.                             *)

\* What is owed by a run j is owed by a run i that differs from it at most in
\* that it has ended, or has booted and saved what it did.
LEMMA OwesAs ==
  ASSUME NEW i, NEW j, i.ssh = j.ssh, i.force = j.force, i.was = j.was,
         NEW h, NEW sv, NEW R, Owes(j, h, sv, R),
         i.booted => \/ j.booted
                     \/ /\ h.set["certificate"] = j.was.set["certificate"] \/ sv.created
                        /\ j.ssh \/ "certificate" \in R
  PROVE  Owes(i, h, sv, R)
<1>1. SettingsOwe(i, h, sv, R)
  BY DEF Owes, SettingsOwe, Target, Unseen, Left
<1>2. i.ssh => SshdOwes(i, h, sv, R)
  BY DEF Owes, SshdOwes
<1>3. ~i.ssh => WinrmOwes(i, h, R)
  BY DEF Owes, WinrmOwes
<1> QED
  BY <1>1, <1>2, <1>3 DEF Owes

LEMMA SameMarksIs ==
  ASSUME NEW i, NEW j, SameMarks(i, j)
  PROVE  /\ i.ssh = j.ssh /\ i.force = j.force /\ i.booted = j.booted /\ i.clean = j.clean /\ i.was = j.was
         /\ BootSteps(i) = BootSteps(j) /\ CleanSteps(i) = CleanSteps(j)
         /\ \A h, sv, R : Owes(j, h, sv, R) => Owes(i, h, sv, R)
<1>1. i.ssh = j.ssh /\ i.force = j.force /\ i.booted = j.booted /\ i.clean = j.clean /\ i.was = j.was
  BY DEF SameMarks, Marks
<1>2. BootSteps(i) = BootSteps(j) /\ CleanSteps(i) = CleanSteps(j)
  BY <1>1 DEF BootSteps, CleanSteps
<1>3. ASSUME NEW h, NEW sv, NEW R, Owes(j, h, sv, R)
      PROVE  Owes(i, h, sv, R)
  BY <1>1, <1>3, OwesAs
<1> QED
  BY <1>1, <1>2, <1>3

LEMMA ContinueMarks ==
  ASSUME Types, NEW p \in Procs, NEW i, NEW j, NEW err, Continue(p, j, err), SameMarks(j, i)
  PROVE  SameMarks(job'[p], i)
<1>1. job'[p] = [j EXCEPT !.plan = IF @ = <<>> THEN <<>> ELSE Tail(@), !.ok = @ /\ ~err]
  BY DEF Continue, Types
<1> QED
  BY <1>1 DEF SameMarks, Marks

LEMMA FailMarks ==
  ASSUME Types, NEW p \in Procs, NEW i, NEW j, FailWith(p, j), SameMarks(j, i)
  PROVE  SameMarks(job'[p], i)
<1> DEFINE s == IF at[p] \notin {"port", "key", "state"} /\ InPlan("cleanup", j.plan)
                THEN <<"cleanup">> ELSE <<>>
           k == [j EXCEPT !.plan = s]
<1>1. Continue(p, k, TRUE)
  BY DEF FailWith
<1>2. SameMarks(k, i)
  BY DEF SameMarks, Marks
<1> HIDE DEF k
<1> QED
  BY <1>1, <1>2, ContinueMarks

LEMMA KeepsMarks ==
  ASSUME NEW j, Marks \subseteq DOMAIN j
  PROVE  SameMarks(j, j) /\ \A fs : SameMarks(Keeps(j, fs), j)
BY DEF SameMarks, Marks, Keeps

LEMMA QuietMarks ==
  ASSUME NEW p \in Procs, Here(p), Types, QuietStage(p), Marks \subseteq DOMAIN job[p]
  PROVE  SameMarks(job'[p], job[p])
<1>1. SameMarks(job[p], job[p]) /\ \A fs : SameMarks(Keeps(job[p], fs), job[p])
  BY KeepsMarks
<1>2. ASSUME NEW j, SameMarks(j, job[p]), FailWith(p, j) \/ \E err : Continue(p, j, err)
      PROVE  SameMarks(job'[p], job[p])
  BY <1>2, ContinueMarks, FailMarks
<1>3. ASSUME NEW possible, Check(p, possible)
      PROVE  SameMarks(job'[p], job[p])
  BY <1>1, <1>2, <1>3 DEF Check, Succeed, Fail
<1>4. CASE \/ EnsureRunning(p) \/ ResolveSettings(p) \/ AskWinrm(p) \/ AskSsh(p) \/ AskLibvirt(p)
           \/ AskArp(p) \/ AskTart(p) \/ WaitForSSH(p) \/ LoadConfig(p) \/ FindSshpass(p)
           \/ SelectPort(p) \/ Reach(p) \/ Preflight(p)
  BY <1>3, <1>4
  DEF EnsureRunning, ResolveSettings, AskWinrm, AskSsh, AskLibvirt, AskArp, AskTart, WaitForSSH,
      LoadConfig, FindSshpass, SelectPort, Reach, Preflight
<1>5. ASSUME NEW u, job' = [job EXCEPT ![p].use = u]
      PROVE  SameMarks(job'[p], job[p])
  <2>1. job'[p] = [job[p] EXCEPT !.use = u]
    BY <1>5 DEF Types
  <2> QED
    BY <2>1 DEF SameMarks, Marks
<1>6. CASE BuildArgs(p) \/ ArgsBuilt(p) \/ RemoveVars(p) \/ CreateKey(p)
  BY <1>1, <1>2, <1>5, <1>6 DEF BuildArgs, ArgsBuilt, RemoveVars, CreateKey, Succeed, Fail
<1>7. ASSUME UNCHANGED job
      PROVE  SameMarks(job'[p], job[p])
  BY <1>1, <1>7
<1>8. CASE AnsibleStep(p)
  BY <1>1, <1>2, <1>5, <1>7, <1>8
  DEF AnsibleStep, PrepareAnsible, RolesResolved, StartAnsible, AnsibleEnds, AnsibleTimesOut,
      OutputEnds, AnsibleOver, Goto
<1>9. CASE ResolveStep(p)
  <2>1. PICK c \in Caches :
          job' \in {job, [job EXCEPT ![p].used = @ \cup {c}], [job EXCEPT ![p].missed = TRUE]}
    BY <1>9, ResolveStays DEF Here
  <2>2. \/ job'[p] = job[p] \/ job'[p] = [job[p] EXCEPT !.used = @ \cup {c}]
        \/ job'[p] = [job[p] EXCEPT !.missed = TRUE]
    BY <2>1 DEF Types
  <2> QED
    BY <1>1, <2>2 DEF SameMarks, Marks
<1> QED
  BY <1>4, <1>6, <1>8, <1>9 DEF QuietStage

\* The cleanup is yet to come for a run that goes on.
LEMMA GoesOnKeepsTrail ==
  ASSUME NEW p \in Procs, Trails(p), Working(p), GoesOn(p), UNCHANGED <<host, script>>,
         at[p] \notin Waiting \cup {"done"},
         Marks \subseteq DOMAIN job[p] => SameMarks(job'[p], job[p]),
         saved'[p] = saved[p] \/ ~saved'[p].taken
  PROVE  Trails(p)'
<1> SUFFICES ASSUME job'[p].alone, ~job'[p].astray
             PROVE  Trail(at'[p], job'[p], host', saved'[p], script'[p])
  BY DEF Trails
<1>1. Trail(at[p], job[p], host, saved[p], script[p])
  BY DEF Trails, GoesOn, GoesAs, SameRun
<1>2. SameMarks(job'[p], job[p]) /\ Marks \subseteq DOMAIN job'[p]
  BY <1>1 DEF SameMarks, Trail
<1>3. /\ at'[p] \notin Waiting /\ (at'[p] \in Early => at[p] \in Setup)
  BY DEF GoesOn, GoesAs
<1>4. ~job'[p].clean /\ (at'[p] \in Early \cup {"bootstrapping"} => ~job'[p].booted)
  BY <1>1, <1>2, <1>3, SameMarksIs DEF Trail, Early, Waiting
<1>5. ASSUME saved'[p].taken, at'[p] # "done"
      PROVE  Owes(job'[p], host', saved'[p], ToCome(at'[p], job'[p], script'[p]))
  <2>1. saved'[p] = saved[p] /\ host' = host
    BY <1>5
  <2>2. Owes(job[p], host, saved[p], CleanSteps(job[p]))
    BY <1>1, <1>5, <2>1 DEF Trail, ToCome, Waiting
  <2>3. ToCome(at'[p], job'[p], script'[p]) = CleanSteps(job[p])
    BY <1>2, <1>3, <1>5, SameMarksIs DEF ToCome, Waiting
  <2> QED
    BY <1>2, <2>1, <2>2, <2>3, SameMarksIs
<1> QED
  BY <1>2, <1>3, <1>4, <1>5 DEF Trail, Waiting

LEMMA StateKeepsTrail ==
  ASSUME NEW p \in Procs, AtWork(p), Types, Tables, Trails(p), CreateState(p)
  PROVE  Trails(p)'
<1>1. /\ Working(p) /\ GoesOn(p) /\ UNCHANGED <<host, script>> /\ ~saved'[p].taken
      /\ at[p] \notin Waiting \cup {"done"}
  BY StateGoesOn, EmptyIs DEF AtWork, CreateState, Tables, Waiting
<1>2. ASSUME Marks \subseteq DOMAIN job[p]
      PROVE  SameMarks(job'[p], job[p])
  <2>1. SameMarks(job[p], job[p]) /\ SameMarks(Keeps(job[p], {"key"}), job[p])
    BY <1>2, KeepsMarks
  <2> QED
    BY <2>1, ContinueMarks, FailMarks DEF CreateState, Succeed, Fail
<1> QED
  BY <1>1, <1>2, GoesOnKeepsTrail

LEMMA NothingIsOrderly == Orderly(<<>>) /\ Remaining(<<>>) = {}
BY DEF Orderly, Remaining

\* A cleanup is to see to everything.
LEMMA StepsAreOrderly ==
  ASSUME NEW p
  PROVE  /\ Steps(p, "bootstrap") \in Seq(BootSteps(job[p])) /\ Steps(p, "bootstrap") # <<>>
         /\ Steps(p, "cleanup") \in Seq(CleanSteps(job[p])) /\ Steps(p, "cleanup") # <<>>
         /\ Orderly(Steps(p, "cleanup")) /\ Remaining(Steps(p, "cleanup")) = CleanSteps(job[p])
<1>1. CASE job[p].ssh
  <2>1. Steps(p, "bootstrap") = SshBootstrap /\ Steps(p, "cleanup") = SshCleanup
    BY <1>1 DEF Steps
  <2>2. SshBootstrap \in Seq(BootSteps(job[p])) /\ SshBootstrap # <<>>
    BY <1>1 DEF SshBootstrap, BootSteps
  <2>3. SshCleanup \in Seq(CleanSteps(job[p])) /\ SshCleanup # <<>>
    BY <1>1 DEF SshCleanup, CleanSteps
  <2>4. Orderly(SshCleanup)
    <3> DEFINE s == SshCleanup
    <3>1. Len(s) = 9 /\ s[6] # "config" /\ s[5] = "config" /\ s[8] = "reload"
      BY DEF SshCleanup
    <3>2. \A i, k \in 1..9 : s[i] = s[k] => i = k
      BY DEF SshCleanup
    <3> HIDE DEF s
    <3>3. \A i \in 1..9 : s[i] = "config" => i = 5
      BY <3>1, <3>2
    <3>4. 8 \in 1..9
      OBVIOUS
    <3>5. \A i \in 1..9 : s[i] \notin Wsman
      BY DEF SshCleanup, Wsman, s
    <3> QED
      BY <3>1, <3>2, <3>3, <3>4, <3>5 DEF Orderly, s
  <2>5. Remaining(SshCleanup) = CleanSteps(job[p])
    <3> DEFINE s == SshCleanup
    <3>1. /\ Len(s) = 9 /\ s[1] = "load" /\ s[2] = "user" /\ s[3] = "keys" /\ s[4] = "shell" /\ s[5] = "config"
          /\ s[6] = "loopback" /\ s[7] = "builtin" /\ s[8] = "reload" /\ s[9] = "sshd"
      BY DEF SshCleanup
    <3> HIDE DEF s
    <3>2. 1..Len(s) = {1, 2, 3, 4, 5, 6, 7, 8, 9}
      BY <3>1
    <3> QED
      BY <1>1, <3>1, <3>2 DEF Remaining, CleanSteps, s
  <2> QED
    BY <2>1, <2>2, <2>3, <2>4, <2>5
<1>2. CASE ~job[p].ssh
  <2>1. Steps(p, "bootstrap") = WinrmBootstrap /\ Steps(p, "cleanup") = WinrmCleanup
    BY <1>2 DEF Steps
  <2>2. WinrmBootstrap \in Seq(BootSteps(job[p])) /\ WinrmBootstrap # <<>>
    BY <1>2 DEF WinrmBootstrap, BootSteps
  <2>3. WinrmCleanup \in Seq(CleanSteps(job[p])) /\ WinrmCleanup # <<>>
    BY <1>2 DEF WinrmCleanup, CleanSteps
  <2>4. Orderly(WinrmCleanup)
    <3> DEFINE s == WinrmCleanup
    <3>1. Len(s) = 8 /\ s[8] = "winrm" /\ s[8] \notin Wsman /\ \A i \in 1..8 : s[i] # "config"
      BY DEF WinrmCleanup, Wsman
    <3>2. \A i, k \in 1..8 : s[i] = s[k] => i = k
      BY DEF WinrmCleanup
    <3> HIDE DEF s
    <3>3. ASSUME NEW i \in 1..8, s[i] \in Wsman
          PROVE  8 \in 1..8 /\ 8 > i
      BY <3>1, <3>3
    <3> QED
      BY <3>1, <3>2, <3>3 DEF Orderly, s
  <2>5. Remaining(WinrmCleanup) = CleanSteps(job[p])
    <3> DEFINE s == WinrmCleanup
    <3>1. /\ Len(s) = 8 /\ s[1] = "load" /\ s[2] = "user" /\ s[3] = "listener" /\ s[4] = "auth"
          /\ s[5] = "policy" /\ s[6] = "rule" /\ s[7] = "certificate" /\ s[8] = "winrm"
      BY DEF WinrmCleanup
    <3> HIDE DEF s
    <3>2. 1..Len(s) = {1, 2, 3, 4, 5, 6, 7, 8}
      BY <3>1
    <3> QED
      BY <1>2, <3>1, <3>2 DEF Remaining, CleanSteps, s
  <2> QED
    BY <2>1, <2>2, <2>3, <2>4, <2>5
<1> QED
  BY <1>1, <1>2

\* An elevated script is launched before the state is taken, or with all of the
\* cleanup to come.
LEMMA LaunchKeepsTrail ==
  ASSUME NEW p \in Procs, AtWork(p), Types, Tables, Trails(p), NEW k \in Kinds, Launch(p, k)
  PROVE  Trails(p)'
<1>1. PICK steps \in {Steps(p, k), <<>>} :
        /\ script' = [script EXCEPT ![p][k] = steps, ![p].force = job[p].force]
        /\ job' = [job EXCEPT ![p].threw = steps = <<>>]
  BY DEF Launch
<1>2. /\ at[p] = k /\ at'[p] = Waits[k] /\ UNCHANGED <<host, saved>>
  BY DEF Launch, Types
<1> DEFINE b == steps = <<>>
<1>3. job'[p] = [job[p] EXCEPT !.threw = b]
  BY <1>1 DEF Types
<1>4. JobFields \subseteq DOMAIN job[p] /\ ScriptFormed(script[p])
  BY DEF AtWork, JobFormed, Own
<1>5. job'[p].threw <=> steps = <<>>
  BY <1>3, <1>4 DEF JobFields
<1> HIDE DEF b
<1>6. job'[p].alone = job[p].alone /\ job'[p].astray = job[p].astray
  BY <1>3
<1>7. script'[p] = [script[p] EXCEPT ![k] = steps, !["force"] = job[p].force]
  BY <1>1 DEF Tables
<1>8. script'[p].force = job[p].force /\ script'[p][k] = steps
  BY <1>4, <1>7 DEF ScriptFormed, Kinds
<1> SUFFICES ASSUME job'[p].alone, ~job'[p].astray
             PROVE  Trail(at'[p], job'[p], host, saved[p], script'[p])
  BY <1>2 DEF Trails
<1>9. /\ Trail(at[p], job[p], host, saved[p], script[p])
      /\ Course(at[p], job[p], host, saved[p], script[p], files[p])
  BY <1>6 DEF Trails, AtWork, Own
<1>10. SameMarks(job'[p], job[p]) /\ Marks \subseteq DOMAIN job'[p]
  BY <1>3, <1>9 DEF Trail, SameMarks, Marks
<1>11. CASE k = "bootstrap"
  <2>1. at[p] = "bootstrap" /\ at'[p] = "bootstrapping" /\ script'[p].bootstrap = steps
    BY <1>2, <1>8, <1>11, WaitsAre
  <2>2. ~saved[p].taken /\ ~job'[p].clean /\ ~job'[p].booted
    BY <1>9, <1>10, <2>1, SameMarksIs DEF Course, Trail, Early
  <2>3. steps \in Seq(BootSteps(job'[p]) \cup {"stop"})
    <3>1. BootSteps(job'[p]) = BootSteps(job[p])
      BY <1>10, SameMarksIs
    <3>2. steps \in Seq(BootSteps(job[p]))
      BY <1>11, StepsAreOrderly, EmptySeq
    <3> QED
      BY <3>1, <3>2
  <2> QED
    BY <1>10, <2>1, <2>2, <2>3 DEF Trail
<1>12. CASE k = "cleanup"
  <2>1. at[p] = "cleanup" /\ at'[p] = "restoring" /\ script'[p].cleanup = steps
    BY <1>2, <1>8, <1>12, WaitsAre
  <2>2. ~job'[p].clean /\ script'[p].force = job'[p].force /\ CleanSteps(job'[p]) = CleanSteps(job[p])
    BY <1>8, <1>9, <1>10, <2>1, SameMarksIs DEF Trail
  <2>3. steps \in Seq(CleanSteps(job[p])) /\ Orderly(steps)
    BY <1>12, StepsAreOrderly, NothingIsOrderly, EmptySeq
  <2>4. ASSUME saved[p].taken, ~job'[p].threw
        PROVE  Owes(job'[p], host, saved[p], Remaining(steps))
    <3>1. Remaining(steps) = CleanSteps(job[p])
      BY <1>5, <1>12, <2>4, StepsAreOrderly
    <3>2. Owes(job[p], host, saved[p], CleanSteps(job[p]))
      BY <1>9, <2>1, <2>4 DEF Trail, ToCome
    <3> QED
      BY <1>10, <3>1, <3>2, SameMarksIs
  <2> QED
    BY <1>10, <2>1, <2>2, <2>3, <2>4 DEF Trail, ToCome, Early, Setup
<1> QED
  BY <1>11, <1>12 DEF Kinds

LEMMA BootingAs ==
  ASSUME NEW i, NEW j, i.ssh = j.ssh, i.was = j.was, j.threw => i.threw,
         NEW h, NEW sv, NEW b, Booting(j, h, sv, b)
  PROVE  Booting(i, h, sv, b)
BY DEF Booting

\* A bootstrap that has succeeded has saved what it did; a cleanup that has
\* leaves nothing to do.
LEMMA ScriptOverKeepsTrail ==
  ASSUME NEW p \in Procs, AtWork(p), Types, Trails(p), NEW k \in Kinds, ScriptOver(p, k)
  PROVE  Trails(p)'
<1>1. at[p] = Waits[k] /\ script[p][k] = <<>> /\ UNCHANGED <<host, saved, script>>
  BY DEF ScriptOver, session
<1> DEFINE good == ~job[p].threw
<1>2. PICK j \in {job[p], Keeps(job[p], {"script"})} : Result(p, k, j, good)
  BY DEF ScriptOver
<1> HIDE DEF good
<1>3. SameRun(j, job[p]) /\ SameRun(j, j) /\ j.plan = job[p].plan
  <2>1. /\ SameRun(job[p], job[p])
        /\ SameRun(Keeps(job[p], {"script"}), job[p]) /\ Keeps(job[p], {"script"}).plan = job[p].plan
    BY SameRunIs
  <2> QED
    BY <2>1 DEF SameRun
<1>4. /\ SameRun(job'[p], j)
      /\ at'[p] \notin {"idle", "over", "bootstrapping", "restoring"} \cup Early
      /\ k = "bootstrap" => at'[p] # "tidy"
  BY <1>1, <1>2, <1>3, ResultIs
<1> SUFFICES ASSUME job'[p].alone, ~job'[p].astray
             PROVE  Trail(at'[p], job'[p], host, saved[p], script[p])
  BY <1>1 DEF Trails
<1>5. Trail(at[p], job[p], host, saved[p], script[p])
  BY <1>3, <1>4 DEF Trails, AtWork, SameRun
<1>6. SameMarks(j, job[p])
  BY <1>2, <1>5, KeepsMarks DEF Trail
<1>7. CASE k = "cleanup"
  <2>1. at[p] = "restoring" /\ at'[p] = "tidy" /\ script[p].cleanup = <<>>
    BY <1>1, <1>2, <1>7, WaitsAre DEF Result, Types
  <2>2. job'[p] = [j EXCEPT !.clean = good]
    BY <1>2, <1>7 DEF Result, Types
  <2>3. /\ Marks \subseteq DOMAIN job'[p] /\ job'[p].clean = good
        /\ job'[p].ssh = job[p].ssh /\ job'[p].force = job[p].force /\ job'[p].was = job[p].was
        /\ job'[p].booted = job[p].booted
    BY <1>6, <2>2 DEF SameMarks, Marks
  <2>4. ASSUME saved[p].taken, job'[p].clean
        PROVE  Owes(job'[p], host, saved[p], {})
    <3>1. ~job[p].threw
      BY <2>3, <2>4 DEF good
    <3>2. Owes(job[p], host, saved[p], {})
      BY <1>5, <2>1, <2>4, <3>1, NothingIsOrderly DEF Trail, ToCome
    <3> QED
      BY <2>3, <3>2, OwesAs
  <2> QED
    BY <2>1, <2>3, <2>4 DEF Trail, ToCome, Early, Setup
<1>8. CASE k = "bootstrap"
  <2>1. at[p] = "bootstrapping" /\ script[p].bootstrap = <<>>
    BY <1>1, <1>8, WaitsAre
  <2>2. ~job[p].clean /\ ~job[p].booted
    BY <1>5, <2>1 DEF Trail
  <2>3. /\ Marks \subseteq DOMAIN job'[p] /\ ~job'[p].clean
        /\ job'[p].ssh = job[p].ssh /\ job'[p].force = job[p].force /\ job'[p].was = job[p].was
        /\ job'[p].booted => good
    <3>1. CASE good
      <4> DEFINE i == [j EXCEPT !.booted = TRUE]
      <4>1. Continue(p, i, FALSE)
        BY <1>2, <1>8, <3>1 DEF Result
      <4>2. SameMarks(i, i) /\ i.clean = j.clean /\ i.ssh = j.ssh /\ i.force = j.force /\ i.was = j.was
        BY <1>6 DEF SameMarks, Marks
      <4> HIDE DEF i
      <4>3. SameMarks(job'[p], i)
        BY <4>1, <4>2, ContinueMarks
      <4> QED
        BY <1>6, <2>2, <3>1, <4>2, <4>3, SameMarksIs DEF SameMarks
    <3>2. CASE ~good
      <4>1. SameMarks(job'[p], job[p])
        BY <1>2, <1>6, <1>8, <3>2, FailMarks DEF Result
      <4> QED
        BY <2>2, <4>1, SameMarksIs DEF SameMarks
    <3> QED
      BY <3>1, <3>2
  <2>4. ASSUME saved[p].taken, at'[p] # "done"
        PROVE  Owes(job'[p], host, saved[p], CleanSteps(job'[p]))
    <3>1. CleanSteps(job'[p]) = CleanSteps(job[p])
      BY <2>3 DEF CleanSteps
    <3>2. Owes(job[p], host, saved[p], CleanSteps(job[p])) /\ Booting(job[p], host, saved[p], <<>>)
      BY <1>5, <2>1, <2>4 DEF Trail, ToCome
    <3>3. job'[p].booted =>
            /\ host.set["certificate"] = job[p].was.set["certificate"] \/ saved[p].created
            /\ job[p].ssh \/ "certificate" \in CleanSteps(job[p])
      BY <2>3, <3>2, CleanStepsAre DEF Booting, good
    <3> QED
      BY <2>3, <3>1, <3>2, <3>3, OwesAs
  <2> QED
    BY <1>4, <1>8, <2>3, <2>4 DEF Trail, ToCome
<1> QED
  BY <1>7, <1>8 DEF Kinds

\* A script that is left behind leads the run astray; one that is waited for
\* has failed.
LEMMA TimeoutKeepsTrail ==
  ASSUME NEW p \in Procs, AtWork(p), Types, Trails(p), NEW k \in Kinds, Timeout(p, k)
  PROVE  Trails(p)'
<1>1. at[p] = Waits[k] /\ script[p][k] # <<>> /\ UNCHANGED <<host, saved, script>>
  BY DEF Timeout, session
<1>2. CASE job' = [job EXCEPT ![p].threw = TRUE] /\ UNCHANGED <<at, files>>
  <2>1. job'[p] = [job[p] EXCEPT !.threw = TRUE]
    BY <1>2 DEF Types
  <2> SUFFICES ASSUME job'[p].alone, ~job'[p].astray
               PROVE  Trail(at[p], job'[p], host, saved[p], script[p])
    BY <1>1, <1>2 DEF Trails
  <2>2. Trail(at[p], job[p], host, saved[p], script[p])
    BY <2>1 DEF Trails, AtWork
  <2>3. SameMarks(job'[p], job[p]) /\ job'[p].threw /\ Marks \subseteq DOMAIN job'[p]
    BY <2>1, <2>2 DEF SameMarks, Marks, Trail, AtWork, JobFormed, JobFields
  <2>4. at[p] \in {"bootstrapping", "restoring"}
    BY <1>1, WaitsAre DEF Kinds
  <2>5. CASE at[p] = "bootstrapping"
    <3>1. ToCome(at[p], job'[p], script[p]) = ToCome(at[p], job[p], script[p])
      BY <2>3, SameMarksIs DEF ToCome
    <3>2. saved[p].taken => Booting(job'[p], host, saved[p], script[p].bootstrap)
      BY <2>2, <2>3, <2>5, BootingAs, SameMarksIs DEF Trail
    <3> QED
      BY <2>2, <2>3, <2>5, <3>1, <3>2, SameMarksIs DEF Trail
  <2>6. CASE at[p] = "restoring"
    BY <2>2, <2>3, <2>6, SameMarksIs DEF Trail, Early, Setup
  <2> QED
    BY <2>4, <2>5, <2>6
<1> DEFINE that == [job[p] EXCEPT !.astray = TRUE]
<1>3. ASSUME NEW j \in {that, Keeps(that, {"script"})}, Result(p, k, j, FALSE)
      PROVE  Trails(p)'
  <2>1. SameRun(j, j) /\ j.plan = job[p].plan /\ j.astray
    BY <1>3 DEF SameRun, JobFields, AtWork, JobFormed, Keeps
  <2>2. Result(p, k, j, FALSE)
    BY <1>3
  <2>3. SameRun(job'[p], j)
    BY <1>1, <2>1, <2>2, ResultIs
  <2> QED
    BY <2>1, <2>3 DEF SameRun, Trails
<1> QED
  BY <1>2, <1>3 DEF Timeout

LEMMA TidyKeepsTrail ==
  ASSUME NEW p \in Procs, AtWork(p), Types, Trails(p), Tidy(p)
  PROVE  Trails(p)'
<1>1. PICK kept : Continue(p, Keeps(job[p], kept), kept # {} \/ ~job[p].clean)
  BY DEF Tidy
<1>2. at[p] = "tidy" /\ job[p].plan = <<>> /\ UNCHANGED <<host, saved, script>>
  BY DEF Tidy, AtWork, JobFormed, Placed2, session
<1>3. SameRun(Keeps(job[p], kept), job[p]) /\ Keeps(job[p], kept).plan = job[p].plan
  BY SameRunIs
<1>4. at'[p] = "done"
  BY <1>1, <1>2, <1>3 DEF Continue, Types
<1>5. GoesOn(p)
  BY <1>1, <1>3, PlanIsPlaced, ContinueGoesOn
<1> SUFFICES ASSUME job'[p].alone, ~job'[p].astray
             PROVE  Trail("done", job'[p], host, saved[p], script[p])
  BY <1>2, <1>4 DEF Trails
<1>6. Trail("tidy", job[p], host, saved[p], script[p])
  BY <1>2, <1>5 DEF Trails, AtWork, GoesOn, GoesAs, SameRun
<1>7. SameMarks(job'[p], job[p])
  BY <1>1, <1>6, KeepsMarks, ContinueMarks DEF Trail
<1>8. ASSUME saved[p].taken, job'[p].clean
      PROVE  Owes(job'[p], host, saved[p], {})
  BY <1>6, <1>7, <1>8, SameMarksIs DEF Trail, ToCome
<1> QED
  BY <1>7, <1>8 DEF Trail, ToCome, Early, Setup, SameMarks

LEMMA WorkKeepsTrail ==
  ASSUME HostInv, NEW p \in Procs, Trails(p), Work(p) \/ OutputEnds(p)
  PROVE  Trails(p)'
<1>1. Working(p)
  BY WorkIsFine
<1>2. AtWork(p) /\ Here(p) /\ Types /\ Tables
  BY <1>1, AtWorkIs
<1>3. CASE Finish(p)
  BY <1>2, <1>3 DEF Finish, Working, Types, Trails
<1>4. CASE QuietStage(p)
  <2>1. UNCHANGED <<host, saved, script>>
    BY <1>4 DEF QuietStage, session
  <2> QED
    BY <1>1, <1>2, <1>4, <2>1, QuietStageGoesOn, QuietMarks, GoesOnKeepsTrail
<1> QED
  BY <1>2, <1>3, <1>4, WorkIs, StateKeepsTrail, LaunchKeepsTrail, ScriptOverKeepsTrail,
     TimeoutKeepsTrail, TidyKeepsTrail

-------------------------------------------------------------------------------
(* The elevated scripts, on the way to a host that is restored.            *)

\* What is known of p at a step of its bootstrap.
LEMMA AtBootStep ==
  ASSUME HostInv, SessionTypes, NEW p \in Procs, Trails(p), script[p].bootstrap # <<>>,
         Working(p), job[p].alone, ~job[p].astray
  PROVE  /\ at[p] = "bootstrapping" /\ ScriptFormed(script[p]) /\ Tables
         /\ Trail(at[p], job[p], host, saved[p], script[p])
         /\ Course(at[p], job[p], host, saved[p], script[p], files[p])
         /\ script[p].bootstrap \in Seq(BootSteps(job[p]) \cup {"stop"})
         /\ saved[p].taken => OnBoot(p, job[p])
<1>1. /\ Trail(at[p], job[p], host, saved[p], script[p]) /\ ScriptFormed(script[p]) /\ Tables
      /\ Course(at[p], job[p], host, saved[p], script[p], files[p])
  BY DEF Trails, HostInv, Own
<1>2. at[p] = "bootstrapping"
  BY <1>1 DEF Course
<1>3. script[p].bootstrap \in Seq(BootSteps(job[p]) \cup {"stop"})
  BY <1>1, <1>2 DEF Trail
<1>4. ASSUME saved[p].taken
      PROVE  OnBoot(p, job[p])
  <2>1. saved[p].was = Found(job[p].was) /\ job[p].was \in HostStates
    BY <1>1, <1>2, <1>4 DEF Course
  <2>2. host \in HostStates /\ saved[p] \in States
    BY DEF SessionTypes
  <2>3. /\ Booting(job[p], host, saved[p], script[p].bootstrap)
        /\ Owes(job[p], host, saved[p], CleanSteps(job[p]))
    BY <1>1, <1>2, <1>4 DEF Trail, ToCome
  <2> QED
    BY <1>3, <2>1, <2>2, <2>3 DEF OnBoot
<1> QED
  BY <1>1, <1>2, <1>3, <1>4

\* A step of the bootstrap leaves its run on the trail.
LEMMA BootsKeepTrail ==
  ASSUME NEW p, NEW l, NEW j, l = "bootstrapping", Trail(l, j, host, saved[p], script[p]),
         Boots(p, j), script'[p].bootstrap \in Seq(BootSteps(j) \cup {"stop"})
  PROVE  Trail(l, j, host', saved'[p], script'[p])
BY DEF Trail, ToCome, Boots, Early, Setup

LEMMA BootStepKeepsTrail ==
  ASSUME HostInv, SessionTypes, NEW p \in Procs, Trails(p),
         \/ Install(p) \/ Enable(p) \/ Restart(p) \/ EnableWinRM(p) \/ CreateListener(p)
         \/ \E s \in Settings : Configure(p, s)
  PROVE  Trails(p)'
<1> DEFINE b == script[p].bootstrap
           j == job[p]
<1>1. BootStep(p)
  BY BootStepIs DEF HostInv
<1>2. UNCHANGED <<at, job>> /\ b # <<>> /\ Head(b) # "capture"
  BY <1>1 DEF BootStep, run
<1> SUFFICES ASSUME Working(p), j.alone, ~j.astray
             PROVE  Trail(at[p], j, host', saved'[p], script'[p])
  BY <1>2 DEF Trails, Working
<1>3. /\ at[p] = "bootstrapping" /\ ScriptFormed(script[p]) /\ Tables
      /\ Trail(at[p], j, host, saved[p], script[p])
      /\ Course(at[p], j, host, saved[p], script[p], files[p])
      /\ b \in Seq(BootSteps(j) \cup {"stop"})
      /\ saved[p].taken => OnBoot(p, j)
  BY <1>2, AtBootStep
<1>4. b[1] # "capture"
  BY <1>2, <1>3
<1>5. saved[p].taken /\ OnBoot(p, j) /\ ~j.booted
  BY <1>2, <1>3, <1>4 DEF Course, Trail
<1>6. script'[p].bootstrap \in {Tail(b), <<>>, <<"stop">>}
  BY <1>1, <1>3 DEF BootStep, Steps1, ScriptFormed
<1>7. script'[p].bootstrap \in Seq(BootSteps(j) \cup {"stop"})
  <2>1. Tail(b) \in Seq(BootSteps(j) \cup {"stop"})
    BY <1>2, <1>3, TailIs
  <2>2. <<"stop">> \in Seq(BootSteps(j) \cup {"stop"})
    OBVIOUS
  <2> QED
    BY <1>6, <2>1, <2>2, EmptySeq
<1> HIDE DEF j, b
<1>8. Boots(p, j)
  BY <1>3, <1>5, ConfigureBoots, EnableBoots, InstallBoots, ListenerBoots
<1> QED
  BY <1>3, <1>7, <1>8, BootsKeepTrail

LEMMA CaptureKeepsTrail ==
  ASSUME HostInv, SessionTypes, NEW p \in Procs, Trails(p), Capture(p)
  PROVE  Trails(p)'
<1> DEFINE b == script[p].bootstrap
           j == job[p]
<1>1. UNCHANGED <<at, job>> /\ b # <<>> /\ Head(b) = "capture"
  BY DEF Capture, Doing
<1> SUFFICES ASSUME Working(p), j.alone, ~j.astray
             PROVE  Trail(at[p], j, host', saved'[p], script'[p])
  BY <1>1 DEF Trails, Working
<1>2. /\ at[p] = "bootstrapping" /\ ScriptFormed(script[p]) /\ Tables
      /\ Trail(at[p], j, host, saved[p], script[p])
      /\ Course(at[p], j, host, saved[p], script[p], files[p])
      /\ b \in Seq(BootSteps(j) \cup {"stop"})
  BY <1>1, AtBootStep
<1>3. b[1] = "capture" /\ 1 \in 1..Len(b) /\ Tail(b) \in Seq(BootSteps(j) \cup {"stop"})
  BY <1>1, <1>2, TailIs
<1>4. host = j.was
  BY <1>2, <1>3 DEF Course
<1>5. script'[p].bootstrap = Tail(b)
  BY <1>2 DEF Capture, Onward, Tables, ScriptFormed
<1> HIDE DEF j, b
<1>6. Boots(p, j)
  BY <1>2, <1>4, CaptureBoots
<1> QED
  BY <1>2, <1>3, <1>5, <1>6, BootsKeepTrail

\* Each step of the cleanup sees to one thing.
LEMMA CleanStepKeepsTrail ==
  ASSUME HostInv, SessionTypes, NEW p \in Procs, Trails(p),
         \/ Load(p) \/ Reload(p) \/ RestoreSshd(p) \/ RestoreWinRM(p)
         \/ \E s \in Settings : Restore(p, s)
  PROVE  Trails(p)'
<1> DEFINE c == script[p].cleanup
           j == job[p]
           R == Remaining(c)
<1>1. CleanStep(p) /\ Tables
  BY CleanStepIs DEF HostInv
<1>2. UNCHANGED <<at, job>> /\ c # <<>> /\ saved'[p] = saved[p]
  BY <1>1 DEF CleanStep, run
<1> SUFFICES ASSUME Working(p), j.alone, ~j.astray
             PROVE  Trail(at[p], j, host', saved[p], script'[p])
  BY <1>2 DEF Trails, Working
<1>3. /\ Trail(at[p], j, host, saved[p], script[p]) /\ ScriptFormed(script[p])
      /\ Course(at[p], j, host, saved[p], script[p], files[p])
  BY DEF Trails, HostInv, Own
<1>4. at[p] = "restoring"
  BY <1>2, <1>3 DEF Course
<1>5. /\ script[p].force = j.force /\ c \in Seq(CleanSteps(j)) /\ Orderly(c) /\ ~j.clean
      /\ saved[p].taken /\ ~j.threw => Owes(j, host, saved[p], R)
  BY <1>3, <1>4 DEF Trail, ToCome
<1>6. /\ Tail(c) \in Seq(CleanSteps(j)) /\ Orderly(Tail(c))
      /\ Head(c) \in R /\ R \subseteq CleanSteps(j)
      /\ Remaining(Tail(c)) = R \ {Head(c)}
      /\ Head(c) = "config" => "reload" \in Remaining(Tail(c))
      /\ Head(c) = "winrm" => Wsman \cap Remaining(Tail(c)) = {}
  BY <1>2, <1>5, StepIsDone
<1>7. script'[p].force = j.force /\ script'[p].cleanup \in {Tail(c), <<>>}
  <2>1. \/ Onward(p, "cleanup")
        \/ script' = [script EXCEPT ![p]["cleanup"] = <<>>]
    BY DEF Load, Reload, RestoreSshd, RestoreWinRM, Restore, Sets
  <2>2. PICK x \in {Tail(c), <<>>} : script'[p] = [script[p] EXCEPT !["cleanup"] = x]
    BY <1>1, <2>1 DEF Onward, Tables
  <2> QED
    BY <1>3, <1>5, <2>2 DEF ScriptFormed
<1>8. script'[p].cleanup \in Seq(CleanSteps(j)) /\ Orderly(script'[p].cleanup)
  BY <1>6, <1>7, NothingIsOrderly, EmptySeq
<1>9. ASSUME saved[p].taken, ~j.threw
      PROVE  Owes(j, host', saved[p], Remaining(script'[p].cleanup))
  <2>1. saved[p].was = Found(j.was) /\ "state" \in files[p] /\ Owes(j, host, saved[p], R)
    BY <1>3, <1>4, <1>5, <1>9 DEF Course
  <2>2. host \in HostStates /\ j.was \in HostStates
    BY <1>3, <1>4, <1>9 DEF SessionTypes, Course
  <2>3. script'[p].cleanup = Tail(c)
    BY <1>1, <1>3, <2>1
    DEF Load, Reload, RestoreSshd, RestoreWinRM, Restore, Sets, Onward, Tables, ScriptFormed
  <2> HIDE DEF R, c, j
  <2>4. CASE Load(p)
    <3>1. Head(c) = "load" /\ host' = host
      BY <2>4 DEF Load, Doing, c
    <3> QED
      BY <1>6, <2>1, <2>3, <3>1, LoadOwes
  <2>5. CASE Reload(p)
    <3>1. Head(c) = "reload"
      BY <2>5 DEF Reload, Doing, c
    <3>2. Owes(j, host', saved[p], R \ {"reload"})
      BY <1>5, <1>6, <2>1, <2>2, <2>5, <3>1, ReloadOwes
    <3> QED
      BY <1>6, <2>3, <3>1, <3>2
  <2>6. CASE RestoreSshd(p)
    <3>1. Head(c) = "sshd"
      BY <2>6 DEF RestoreSshd, Doing, c
    <3>2. Owes(j, host', saved[p], R \ {"sshd"})
      BY <1>5, <1>6, <2>1, <2>2, <2>6, <3>1, SshdOwesNothing
    <3> QED
      BY <1>6, <2>3, <3>1, <3>2
  <2>7. CASE RestoreWinRM(p)
    <3>1. Head(c) = "winrm"
      BY <2>7 DEF RestoreWinRM, Doing, c
    <3>2. Owes(j, host', saved[p], R \ {"winrm"})
      BY <1>5, <1>6, <1>9, <2>1, <2>2, <2>7, <3>1, WinrmOwesNothing
    <3> QED
      BY <1>6, <2>3, <3>1, <3>2
  <2>8. ASSUME NEW s \in Settings, Restore(p, s)
        PROVE  Owes(j, host', saved[p], Remaining(script'[p].cleanup))
    <3>1. Head(c) = s
      BY <2>8 DEF Restore, Doing, c
    <3>2. s \in R /\ (s = "config" => "reload" \in R)
      BY <1>6, <3>1
    <3>3. Owes(j, host', saved[p], R \ {s})
      BY <1>5, <1>6, <1>9, <2>1, <2>2, <2>8, <3>2, RestoreOwes
    <3> QED
      BY <1>6, <2>3, <3>1, <3>3
  <2> QED
    BY <2>4, <2>5, <2>6, <2>7, <2>8
<1> QED
  BY <1>3, <1>4, <1>5, <1>7, <1>8, <1>9 DEF Trail, ToCome, Early, Setup

\* A script that stops has failed, and its run knows.
LEMMA ThrowKeepsTrail ==
  ASSUME HostInv, NEW p \in Procs, Trails(p), NEW k \in Kinds, Throw(p, k)
  PROVE  Trails(p)'
<1>1. /\ Tables /\ Types /\ UNCHANGED <<at, host, saved>> /\ script[p][k] # <<>>
  BY DEF HostInv, Inv, Throw
<1>2. script'[p] = [script[p] EXCEPT ![k] = <<>>]
  BY <1>1 DEF Throw, Tables
<1>3. job'[p] = job[p] \/ job'[p] = [job[p] EXCEPT !.threw = TRUE]
  BY <1>1 DEF Throw, Types
<1> SUFFICES ASSUME Working(p), job'[p].alone, ~job'[p].astray
             PROVE  Trail(at[p], job'[p], host, saved[p], script'[p])
  BY <1>1 DEF Trails, Working
<1>4. /\ Trail(at[p], job[p], host, saved[p], script[p]) /\ ScriptFormed(script[p])
      /\ Course(at[p], job[p], host, saved[p], script[p], files[p])
      /\ JobFields \subseteq DOMAIN job[p]
  <2>1. job'[p].alone = job[p].alone /\ job'[p].astray = job[p].astray
    <3>1. JobFields \subseteq DOMAIN job[p]
      BY DEF HostInv, Own, JobFormed
    <3> QED
      BY <1>3, <3>1 DEF JobFields
  <2>2. job[p].alone /\ ~job[p].astray
    BY <2>1
  <2> QED
    BY <2>2 DEF Trails, HostInv, Own, JobFormed
<1>5. at[p] = Waits[k] /\ at[p] \in {"bootstrapping", "restoring"}
  BY <1>1, <1>4, WaitsAre DEF Course, Kinds
<1>6. job'[p] = [job[p] EXCEPT !.threw = TRUE]
  BY <1>1, <1>5 DEF Throw, Types
<1>7. SameMarks(job'[p], job[p]) /\ job'[p].threw /\ Marks \subseteq DOMAIN job'[p]
  BY <1>4, <1>6 DEF SameMarks, Marks, Trail, JobFields
<1>8. CASE k = "bootstrap"
  <2>1. at[p] = "bootstrapping" /\ script'[p].bootstrap = <<>>
    BY <1>2, <1>4, <1>5, <1>8, WaitsAre DEF ScriptFormed
  <2>2. Boots(p, job'[p]) \/ ~saved[p].taken
    <3>1. saved[p].taken => Owes(job'[p], host, saved[p], CleanSteps(job'[p]))
      BY <1>4, <1>7, <2>1, SameMarksIs DEF Trail, ToCome
    <3>2. Booting(job'[p], host, saved[p], <<>>)
      BY <1>7 DEF Booting
    <3> QED
      BY <1>1, <2>1, <3>1, <3>2 DEF Boots
  <2>3. ~job'[p].clean /\ ~job'[p].booted /\ <<>> \in Seq(BootSteps(job'[p]) \cup {"stop"})
    BY <1>4, <1>7, <2>1, SameMarksIs, EmptySeq DEF Trail
  <2> QED
    BY <1>1, <1>7, <2>1, <2>2, <2>3 DEF Trail, ToCome, Boots
<1>9. CASE k = "cleanup"
  <2>1. at[p] = "restoring" /\ script'[p].cleanup = <<>> /\ script'[p].force = script[p].force
    BY <1>2, <1>4, <1>5, <1>9, WaitsAre DEF ScriptFormed
  <2>2. /\ ~job'[p].clean /\ script'[p].force = job'[p].force
        /\ <<>> \in Seq(CleanSteps(job'[p])) /\ Orderly(<<>>)
    BY <1>4, <1>7, <2>1, SameMarksIs, NothingIsOrderly, EmptySeq DEF Trail
  <2> QED
    BY <1>7, <2>1, <2>2 DEF Trail, Early, Setup
<1> QED
  BY <1>8, <1>9 DEF Kinds

LEMMA ScriptKeepsTrail ==
  ASSUME HostInv, SessionTypes, NEW p \in Procs, Trails(p), RunScript(p)
  PROVE  Trails(p)'
BY BootStepKeepsTrail, CaptureKeepsTrail, CleanStepKeepsTrail, ThrowKeepsTrail DEF RunScript, ScriptStep

-------------------------------------------------------------------------------
(* The other steps, and the theorem.                                       *)

\* A run begins with its host as it was.
LEMMA BeginKeepsTrails ==
  ASSUME RestoreInv, NEW p \in Procs, Begin(p), NEW q \in Procs
  PROVE  Trails(q)'
<1> DEFINE alone == \A r \in Procs \ {p} : ~Working(r) /\ ScriptsOver(r)
           made(plan, force) ==
        [plan |-> Tail(plan), ok |-> TRUE, kept |-> {}, alone |-> alone,
         use |-> "playbooks", used |-> {}, seen |-> origin, missed |-> FALSE,
         vm |-> InPlan("running", plan), ssh |-> InPlan("key", plan), force |-> force, threw |-> FALSE,
         booted |-> FALSE, clean |-> FALSE, astray |-> FALSE, was |-> host]
<1>1. PICK plan \in Plans(scene.os), force \in BOOLEAN :
        /\ at' = [at EXCEPT ![p] = Head(plan)]
        /\ job' = [r \in Procs |->
             IF r = p THEN made(plan, force)
             ELSE IF Working(r) THEN [job[r] EXCEPT !.alone = FALSE] ELSE job[r]]
  BY Zenon DEF Begin
<1>2. /\ Marks \subseteq DOMAIN made(plan, force)
      /\ ~made(plan, force).clean /\ ~made(plan, force).booted
  BY DEF Marks
<1> HIDE DEF made
<1>3. HostInv /\ Types /\ at[p] = "idle" /\ UNCHANGED <<host, saved, script>>
  BY DEF RestoreInv, HostInv, Inv, Begin, world, session
<1>4. CASE q = p
  <2>1. Head(plan) \in Names
    BY PlansAreSound, RestIsSound
  <2>2. at'[p] = Head(plan) /\ job'[p] = made(plan, force)
    BY <1>1, <1>3 DEF Types
  <2>3. at'[p] \notin {"bootstrapping", "restoring", "tidy"}
    BY <2>1, <2>2 DEF Names
  <2>4. ~saved[p].taken
    BY <1>3 DEF HostInv, Own
  <2> QED
    BY <1>2, <1>3, <1>4, <2>2, <2>3, <2>4 DEF Trails, Trail
<1>5. CASE q # p
  <2>1. /\ at'[q] = at[q]
        /\ job'[q] = IF Working(q) THEN [job[q] EXCEPT !.alone = FALSE] ELSE job[q]
    BY <1>1, <1>3, <1>5 DEF Types
  <2>2. Working(q)' => JobFields \subseteq DOMAIN job[q]
    BY <1>3, <2>1 DEF HostInv, Own, JobFormed, Working
  <2>3. ~(Working(q)' /\ job'[q].alone)
    BY <2>1, <2>2 DEF Working, JobFields
  <2> QED
    BY <2>3 DEF Trails
<1> QED
  BY <1>4, <1>5

\* Where p steps, a run that is alone and not p's own has p neither at work nor
\* with a script left.
LEMMA OthersKeepTrails ==
  ASSUME HostInv, NEW p \in Procs, Working(p) \/ ~ScriptsOver(p), Moves(p),
         NEW q \in Procs, q # p
  PROVE  Trails(q)'
<1>1. ~(Working(q) /\ job[q].alone)
  BY DEF HostInv, Undisturbed
<1>2. at'[q] = at[q] /\ job'[q] = job[q]
  BY DEF Moves, HostInv, Inv, Types
<1> QED
  BY <1>1, <1>2 DEF Trails, Working

LEMMA StepRestoreInv == RestoreInv /\ [Next]_vars => RestoreInv'
<1> SUFFICES ASSUME RestoreInv, [Next]_vars PROVE RestoreInv'
  OBVIOUS
<1>1. HostInv' /\ TypeInv' /\ HostInv /\ Inv /\ SessionTypes
  BY StepHostInv, StepTypes DEF RestoreInv, HostInv, TypeInv
<1> SUFFICES ASSUME NEW q \in Procs PROVE Trails(q)'
  BY <1>1 DEF RestoreInv
<1>2. \A p \in Procs : Trails(p)
  BY DEF RestoreInv
<1>3. CASE UNCHANGED <<run, session>>
  BY <1>2, <1>3 DEF run, session, Trails, Working
<1>4. ASSUME GuestChanges \/ SourcesChange
      PROVE  UNCHANGED <<run, session>>
  BY <1>4 DEF GuestChanges, SourcesChange, Push, DeleteBranch, Reconfigure
<1>5. ASSUME NEW p \in Procs, Begin(p)
      PROVE  Trails(q)'
  BY <1>5, BeginKeepsTrails
<1>6. ASSUME NEW p \in Procs, Work(p) \/ OutputEnds(p)
      PROVE  Trails(q)'
  <2>1. Working(p) /\ Moves(p)
    BY <1>1, <1>6, WorkIsFine, WorkMoves
  <2> QED
    BY <1>1, <1>2, <1>6, <2>1, WorkKeepsTrail, OthersKeepTrails
<1>7. ASSUME NEW p \in Procs, RunScript(p)
      PROVE  Trails(q)'
  <2>1. ~ScriptsOver(p)
    BY <1>7
    DEF RunScript, ScriptStep, Throw, Kinds, Capture, Install, Enable, Configure, Restore, Restart,
        EnableWinRM, CreateListener, Load, Reload, RestoreSshd, RestoreWinRM, Doing, ScriptsOver
  <2>2. Moves(p)
    BY <1>1, <1>7, ScriptMoves DEF Inv, RunScript
  <2> QED
    BY <1>1, <1>2, <1>7, <2>1, <2>2, ScriptKeepsTrail, OthersKeepTrails
<1>8. ASSUME NEW p \in Procs, Die(p)
      PROVE  Trails(q)'
  <2>1. Working(p) /\ at' = [at EXCEPT ![p] = "over"]
    BY <1>8 DEF Die
  <2>2. CASE q = p
    BY <1>1, <2>1, <2>2 DEF Trails, Working, Inv, Types
  <2>3. CASE q # p
    <3>1. Moves(p)
      <4>1. "over" \in Labels
        BY DEF Labels, StepsOfStages
      <4> QED
        BY <1>1, <1>8, <2>1, <4>1, GotoMoves DEF Inv, Die, Safe
    <3> QED
      BY <1>1, <2>1, <2>3, <3>1, OthersKeepTrails
  <2> QED
    BY <2>2, <2>3
<1> QED
  BY <1>3, <1>4, <1>5, <1>6, <1>7, <1>8 DEF Next, vars

\* What the steps to come of a run that is alone will see to is all that
\* differs on its host from what is to be left there.
THEOREM RestoreInvariant == Spec => []RestoreInv
<1>1. Init => RestoreInv
  BY CourseBegins, TypesBegin DEF Init, RestoreInv, Trails, Working
<1> QED
  BY <1>1, StepRestoreInv, PTL DEF Spec

LEMMA NothingOwed ==
  ASSUME NEW j, NEW h, NEW sv, Owes(j, h, sv, {})
  PROVE  Restored(j, h)
<1>1. ASSUME NEW s \in Settings
      PROVE  \/ h.set[s] = IF s \in (IF ~j.force THEN {} ELSE IF j.ssh THEN Sshd ELSE WinRM)
                           THEN "absent" ELSE j.was.set[s]
             \/ s = "certificate" /\ ~j.booted
             \/ s \in Wsman /\ Unseen(j) /\ h.set[s] \in Left(j, s)
  BY DEF Owes, SettingsOwe, Target
<1>2. j.ssh => SshdOwes(j, h, sv, {})
  BY DEF Owes
<1>3. ~j.ssh => WinrmOwes(j, h, {})
  BY DEF Owes
<1> QED
  BY <1>1, <1>2, <1>3 DEF Restored, SshdOwes, WinrmOwes

\* The state of a run that moves on changes only where its file is created.
LEMMA StateIsLeft ==
  ASSUME HostInv, [Next]_vars, NEW p \in Procs, at'[p] # at[p], saved'[p] # saved[p]
  PROVE  CreateState(p)
<1>1. Tables
  BY DEF HostInv
<1>2. ASSUME NEW q \in Procs, Work(q) \/ OutputEnds(q)
      PROVE  CreateState(p)
  <2>1. saved' = [saved EXCEPT ![q] = saved'[q]] /\ (CreateState(q) \/ UNCHANGED saved)
    BY <1>2, WorkTables, WorkIs
    DEF Finish, world, session, QuietStage, Tidy, Launch, ScriptOver, Timeout
  <2>2. q = p
    BY <1>1, <2>1 DEF Tables
  <2> QED
    BY <2>1, <2>2
<1>3. ASSUME NEW q \in Procs, RunScript(q)
      PROVE  UNCHANGED at
  BY <1>3
  DEF RunScript, ScriptStep, Throw, Capture, Install, Enable, Configure, Restore, Restart,
      EnableWinRM, CreateListener, Load, Reload, RestoreSshd, RestoreWinRM, Sets, run
<1>4. ASSUME NEW q \in Procs, Begin(q) \/ Die(q)
      PROVE  UNCHANGED saved
  BY <1>4 DEF Begin, Die, world, session
<1>5. ASSUME GuestChanges \/ SourcesChange \/ UNCHANGED vars
      PROVE  UNCHANGED saved
  BY <1>5 DEF GuestChanges, SourcesChange, session, vars
<1> QED
  BY <1>2, <1>3, <1>4, <1>5 DEF Next

\* A local Windows run that nobody disturbed, on any host, whose bootstrap may
\* have failed at any step and whose cleanup has succeeded, leaves the host as
\* it found it, with the exceptions Restored names: of a WinRM that was off,
\* Basic authentication may stay on, and its own listeners may be gone.
THEOREM LeavesHostRestored == Spec => HostRestored
<1>1. RestoreInv /\ RestoreInv' /\ [Next]_vars =>
        [\A p \in Procs :
           at[p] # "done" /\ at'[p] = "done" /\ job'[p].clean /\ job'[p].alone
             /\ ~job'[p].astray /\ saved[p].taken
           => Restored(job'[p], host')]_vars
  <2> SUFFICES ASSUME RestoreInv, RestoreInv', [Next]_vars, NEW p \in Procs,
                      at[p] # "done", at'[p] = "done", job'[p].clean, job'[p].alone,
                      ~job'[p].astray, saved[p].taken
               PROVE  Restored(job'[p], host')
    OBVIOUS
  <2>1. Trail(at'[p], job'[p], host', saved'[p], script'[p])
    BY DEF RestoreInv, Trails, Working
  <2>2. saved'[p].taken
    <3> SUFFICES ASSUME ~saved'[p].taken PROVE FALSE
      OBVIOUS
    <3>1. CreateState(p)
      BY StateIsLeft DEF RestoreInv
    <3>2. at[p] = "state"
      BY <3>1 DEF CreateState
    <3>3. AtWork(p)
      BY <3>2, AtWorkIs DEF RestoreInv, Working
    <3>4. job[p].alone /\ ~job[p].astray
      BY <3>1, <3>3, StateGoesOn DEF GoesOn, GoesAs, SameRun
    <3>5. Course(at[p], job[p], host, saved[p], script[p], files[p])
      BY <3>3, <3>4 DEF AtWork, Own
    <3> QED
      BY <3>2, <3>5 DEF Course, Early, Setup
  <2>3. Owes(job'[p], host', saved'[p], {})
    BY <2>1, <2>2 DEF Trail, ToCome
  <2> QED
    BY <2>3, NothingOwed
<1> QED
  BY <1>1, RestoreInvariant, PTL DEF Spec, HostRestored

===============================================================================
