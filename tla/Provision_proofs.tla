--------------------------- MODULE Provision_proofs ----------------------------
(***************************************************************************)
(* Theorems about Provision for every set of processes and every scene: a  *)
(* run that has ended has left none of its secrets in the project          *)
(* directory.  A file of a run is safe while a stage the run still has to  *)
(* go through removes it; Safe says which stage, for each place of a run.  *)
(*                                                                         *)
(* Then the types.  TypeInv says more than they do: which runs still have  *)
(* a session on the Windows host before them, and where a ref is           *)
(* configured.                                                             *)
(***************************************************************************)
EXTENDS Provision, TLAPS

Names ==
  {"args", "ansible", "vars", "running", "settings", "askWinrm", "config", "arp", "domifaddr",
   "askSsh", "sshpass", "tartIp", "sshPort", "state", "bootstrap", "cleanup", "port", "key",
   "reach", "preflight"}

\* What holds of every plan, and of what is left of it: the stage "args" is
\* followed by "ansible", and that by the only "vars"; a session that makes
\* files has "cleanup" for its last stage, and makes its key once.
Sound(s) ==
  /\ s \in Seq(Names)
  /\ \A i \in 1..Len(s) :
       /\ s[i] = "args" => i < Len(s) /\ s[i + 1] = "ansible"
       /\ s[i] = "ansible" => \A k \in 1..Len(s) : s[k] = "vars" => k = i + 1
       /\ s[i] \in {"key", "state", "bootstrap"} => s[Len(s)] = "cleanup"
       /\ s[i] = "key" => \A k \in 1..Len(s) : k > i => s[k] \notin {"port", "key"}

LEMMA PlansAreSound ==
  ASSUME NEW os, NEW plan \in Plans(os)
  PROVE  Sound(plan) /\ plan # <<>>
<1>1. Sound(HypervWindows11) /\ HypervWindows11 # <<>>
  BY DEF Sound, LinkedAnsible, Names, HypervWindows11
<1>2. Sound(UtmWindows11) /\ UtmWindows11 # <<>>
  BY DEF Sound, LinkedAnsible, Names, UtmWindows11
<1>3. Sound(LinuxQemuWindows11) /\ LinuxQemuWindows11 # <<>>
  BY DEF Sound, LinkedAnsible, Names, LinuxQemuWindows11
<1>4. Sound(HypervUbuntu) /\ HypervUbuntu # <<>>
  BY DEF Sound, LinkedAnsible, Names, HypervUbuntu
<1>5. Sound(UtmUbuntu) /\ UtmUbuntu # <<>>
  BY DEF Sound, LinkedAnsible, Names, UtmUbuntu
<1>6. Sound(LinuxQemuUbuntu) /\ LinuxQemuUbuntu # <<>>
  BY DEF Sound, LinkedAnsible, Names, LinuxQemuUbuntu
<1>7. Sound(TartMacOS) /\ TartMacOS # <<>>
  BY DEF Sound, LinkedAnsible, Names, TartMacOS
<1>8. Sound(LocalUnix) /\ LocalUnix # <<>>
  BY DEF Sound, LinkedAnsible, Names, LocalUnix
<1>9. Sound(LocalWinRM) /\ LocalWinRM # <<>>
  BY DEF Sound, LinkedAnsible, Names, LocalWinRM
<1>10. Sound(LocalSSH) /\ LocalSSH # <<>>
  BY DEF Sound, LinkedAnsible, Names, LocalSSH
<1> QED
  BY <1>1, <1>2, <1>3, <1>4, <1>5, <1>6, <1>7, <1>8, <1>9, <1>10 DEF Plans

LEMMA RestIsSound ==
  ASSUME NEW s, Sound(s), s # <<>>
  PROVE  Head(s) \in Names /\ Sound(Tail(s))
BY DEF Sound

LEMMA EndIsSound == Sound(<<>>) /\ Sound(<<"cleanup">>)
BY DEF Sound, Names

-------------------------------------------------------------------------------
(* The files of one run: at l, with the job j and the files fs.            *)

\* The stage after the next "args", or after "ansible", that removes the file.
VarsNext(s) == s # <<>> /\ s[1] = "vars"
VarsSoon(s) == Len(s) > 1 /\ s[1] = "ansible" /\ s[2] = "vars"

Resolving ==
  {"look", "clone", "cloning", "discard", "fetch", "updateRef", "pullRef", "pull",
   "checkout", "subdirectory", "resolved", "unresolved"}

\* Where the run still has the stage before it that removes the extra-vars
\* file, the key, the script.
VarsGo(l, j) ==
  \/ l = "vars"
  \/ l = "playbook" /\ j.use = "playbooks" /\ VarsSoon(j.plan)
  \/ l \in Resolving /\ j.use = "playbooks" /\ VarsSoon(j.plan)
  \/ l \in {"roles", "ansible", "start", "play", "drain"} /\ VarsNext(j.plan)
  \/ l \in Resolving /\ j.use = "roles" /\ VarsNext(j.plan)

KeyIsMade(s) == \A i \in DOMAIN s : s[i] \notin {"port", "key"}

KeyGoes(l, j) ==
  /\ l \notin {"port", "key"} /\ KeyIsMade(j.plan)
  /\ l \in {"state", "cleanup", "restoring", "tidy"} \/ InPlan("cleanup", j.plan)

ScriptGoes(l) == l \in {"bootstrapping", "restoring"}

Run(j) == {"plan", "kept", "use"} \subseteq DOMAIN j /\ Sound(j.plan)

\* What the place of a run says of its plan.
Placed(l, j) ==
  /\ l = "done" => j.plan = <<>>
  /\ l = "args" => /\ j.plan # <<>> /\ j.plan[1] = "ansible"
                   /\ InPlan("vars", j.plan) => VarsSoon(j.plan)
  /\ l = "playbook" => j.use = "playbooks"
  /\ l = "roles" => j.use = "roles"
  /\ l = "key" => KeyIsMade(j.plan)
  /\ l \in {"key", "state", "bootstrap", "bootstrapping"} => InPlan("cleanup", j.plan)

Safe(l, j, fs) ==
  /\ l = "idle" => fs \cap Secrets = {}
  /\ l \notin {"idle", "over"} =>
       /\ Run(j)
       /\ Placed(l, j)
       /\ "vars" \in fs \ j.kept => VarsGo(l, j)
       /\ "key" \in fs \ j.kept => KeyGoes(l, j)
       /\ "script" \in fs \ j.kept => ScriptGoes(l)

\* What is left of a plan when the stage l is over, with the files fs.
Ready(j, fs) ==
  /\ Run(j)
  /\ "vars" \in fs \ j.kept => VarsNext(j.plan) \/ VarsSoon(j.plan)
  /\ "key" \in fs \ j.kept => InPlan("cleanup", j.plan) /\ KeyIsMade(j.plan)
  /\ "script" \notin fs \ j.kept

LEMMA NextStageIsSafe ==
  ASSUME NEW j, NEW k, NEW fs, Ready(j, fs),
         {"plan", "kept", "use"} \subseteq DOMAIN k,
         k.plan = IF j.plan = <<>> THEN <<>> ELSE Tail(j.plan),
         k.kept = j.kept
  PROVE  Safe(IF j.plan = <<>> THEN "done" ELSE Head(j.plan), k, fs)
<1> DEFINE s == j.plan
           l == IF s = <<>> THEN "done" ELSE Head(s)
<1>1. Sound(s) /\ s \in Seq(Names)
  BY DEF Ready, Run, Sound
<1>2. CASE s = <<>>
  BY <1>2, EndIsSound DEF Ready, Safe, Run, Placed, VarsNext, VarsSoon, InPlan, VarsGo, KeyGoes, KeyIsMade
<1>3. CASE s # <<>>
  <2>1. l \in Names /\ Run(k) /\ k.plan = Tail(s) /\ l = s[1]
    BY <1>1, <1>3, RestIsSound DEF Run
  <2>2. l \notin {"idle", "over", "done", "playbook", "roles", "bootstrapping"}
    BY <2>1 DEF Names
  <2> DEFINE t == Tail(s)
  <2>3. /\ Len(t) \in Nat /\ Len(s) = Len(t) + 1
        /\ DOMAIN t = 1..Len(t) /\ DOMAIN s = 1..Len(s)
        /\ \A i \in 1..Len(t) : t[i] = s[i + 1]
        /\ \A i \in 1..Len(s) : i # 1 => i - 1 \in 1..Len(t) /\ s[i] = t[i - 1]
    <3>1. t \in Seq(Names) /\ Len(s) \in Nat /\ Len(t) \in Nat /\ Len(s) = Len(t) + 1
      BY <1>1, <1>3
    <3>2. \A i \in 1..Len(t) : t[i] = s[i + 1]
      BY <1>1, <1>3
    <3>3. DOMAIN t = 1..Len(t) /\ DOMAIN s = 1..Len(s)
      BY <1>1, <3>1
    <3>4. \A i \in 1..Len(s) : i # 1 => i - 1 \in 1..Len(t) /\ s[i] = t[i - 1]
      <4> SUFFICES ASSUME NEW i \in 1..Len(s), i # 1
                   PROVE  i - 1 \in 1..Len(t) /\ s[i] = t[i - 1]
        OBVIOUS
      <4>1. i - 1 \in 1..Len(t) /\ (i - 1) + 1 = i
        BY <3>1
      <4> QED
        BY <3>2, <4>1
    <3> HIDE DEF s, t
    <3> QED
      BY <3>1, <3>2, <3>3, <3>4
  <2>a. k.plan = t /\ t \in Seq(Names)
    BY <1>1, <1>3, <2>1
  <2> HIDE DEF t
  <2>b. \A x : InPlan(x, s) => l = x \/ InPlan(x, t)
    BY <2>1, <2>3 DEF InPlan
  <2>4. l \in {"key", "state", "bootstrap"} => InPlan("cleanup", t)
    <3> SUFFICES ASSUME l \in {"key", "state", "bootstrap"} PROVE InPlan("cleanup", t)
      OBVIOUS
    <3>1. s[Len(s)] = "cleanup" /\ Len(s) \in 1..Len(s)
      BY <1>1, <2>1, <2>3 DEF Sound
    <3> QED
      BY <2>1, <2>3, <3>1 DEF InPlan
  <2>c. KeyIsMade(s) => l \notin {"port", "key"} /\ KeyIsMade(t)
    <3>1. 1 \in 1..Len(s) /\ \A i \in 1..Len(t) : i + 1 \in 1..Len(s)
      BY <2>3
    <3> QED
      BY <2>1, <2>3, <3>1 DEF KeyIsMade
  <2>d. l = "key" => KeyIsMade(t)
    <3>1. ASSUME l = "key", NEW i \in 1..Len(t)
          PROVE  t[i] \notin {"port", "key"}
      <4>1. 1 \in 1..Len(s) /\ i + 1 \in 1..Len(s) /\ i + 1 > 1 /\ t[i] = s[i + 1]
        BY <2>3
      <4> QED
        BY <1>1, <2>1, <3>1, <4>1 DEF Sound
    <3> QED
      BY <2>3, <3>1 DEF KeyIsMade
  <2>5. l = "args" => /\ t # <<>> /\ t[1] = "ansible"
                      /\ InPlan("vars", t) => VarsSoon(t)
    <3> SUFFICES ASSUME l = "args"
                 PROVE  t # <<>> /\ t[1] = "ansible" /\ (InPlan("vars", t) => VarsSoon(t))
      OBVIOUS
    <3>1. 1 < Len(s) /\ s[2] = "ansible" /\ \A i \in 1..Len(s) : s[i] = "vars" => i = 3
      BY <1>1, <2>1, <2>3 DEF Sound
    <3>2. t[1] = "ansible" /\ t # <<>>
      BY <2>a, <2>3, <3>1
    <3>3. \A i \in DOMAIN t : t[i] = "vars" => i = 2
      BY <2>3, <3>1
    <3> QED
      BY <2>3, <3>2, <3>3 DEF InPlan, VarsSoon
  <2>6. VarsNext(s) \/ VarsSoon(s) => VarsGo(l, k)
    <3>1. VarsSoon(s) => t[1] = "vars" /\ t # <<>>
      BY <2>a, <2>3 DEF VarsSoon
    <3> QED
      BY <2>1, <2>a, <3>1 DEF VarsNext, VarsSoon, VarsGo
  <2> QED
    BY <2>1, <2>2, <2>a, <2>b, <2>c, <2>d, <2>4, <2>5, <2>6 DEF Ready, Safe, Placed, KeyGoes
<1> QED
  BY <1>2, <1>3

-------------------------------------------------------------------------------
(* The steps of a run.                                                     *)

Labels == Names \cup StepsOfStages

Types ==
  /\ at \in [Procs -> Labels]
  /\ files \in [Procs -> SUBSET Files]
  /\ job = [q \in Procs |-> job[q]]

\* Only the run p changes, and its files stay safe.
Moves(p) ==
  /\ at'[p] \in Labels /\ at' = [at EXCEPT ![p] = at'[p]]
  /\ job' = [job EXCEPT ![p] = job'[p]]
  /\ files'[p] \subseteq Files /\ files' = [files EXCEPT ![p] = files'[p]]
  /\ Safe(at'[p], job'[p], files'[p])

Here(p) == Types /\ at[p] \notin {"idle", "over"} /\ Safe(at[p], job[p], files[p])

Fields == {"plan", "kept", "use"}

LEMMA ContinueMoves ==
  ASSUME NEW p \in Procs, Types, NEW j, NEW err, Continue(p, j, err),
         NEW fs \in SUBSET Files, files' = [files EXCEPT ![p] = fs], Ready(j, fs)
  PROVE  Moves(p)
<1> DEFINE s == j.plan
           n == IF s = <<>> THEN <<>> ELSE Tail(s)
           l == IF s = <<>> THEN "done" ELSE Head(s)
           k == [j EXCEPT !.plan = IF @ = <<>> THEN <<>> ELSE Tail(@), !.ok = @ /\ ~err]
<1>1. at' = [at EXCEPT ![p] = l] /\ job' = [job EXCEPT ![p] = k]
  BY DEF Continue
<1>2. Fields \subseteq DOMAIN j /\ Sound(s)
  BY DEF Ready, Run, Fields
<1>3. Fields \subseteq DOMAIN k /\ k.plan = n /\ k.kept = j.kept
  BY <1>2 DEF Fields
<1>4. l \in Labels
  BY <1>2, RestIsSound DEF Labels, StepsOfStages
<1> HIDE DEF k, n
<1>5. Safe(l, k, fs)
  BY <1>3, NextStageIsSafe DEF Fields, n
<1> HIDE DEF l
<1> QED
  BY <1>1, <1>4, <1>5 DEF Moves, Types

LEMMA FailMoves ==
  ASSUME NEW p \in Procs, Types, NEW j, FailWith(p, j), Run(j),
         NEW fs \in SUBSET Files, files' = [files EXCEPT ![p] = fs],
         "vars" \notin fs \ j.kept, "script" \notin fs \ j.kept,
         "key" \in fs \ j.kept => InPlan("cleanup", j.plan) /\ at[p] \notin {"port", "key", "state"}
  PROVE  Moves(p)
<1> DEFINE s == IF at[p] \notin {"port", "key", "state"} /\ InPlan("cleanup", j.plan)
                THEN <<"cleanup">> ELSE <<>>
           k == [j EXCEPT !.plan = s]
<1>1. Continue(p, k, TRUE)
  BY DEF FailWith
<1>2. DOMAIN k = DOMAIN j /\ k.plan = s /\ k.kept = j.kept
  BY DEF Run
<1>3. InPlan("cleanup", <<"cleanup">>) /\ KeyIsMade(<<"cleanup">>)
  BY DEF InPlan, KeyIsMade
<1> HIDE DEF k
<1>4. Ready(k, fs)
  BY <1>2, <1>3, EndIsSound DEF Ready, Run
<1> QED
  BY <1>1, <1>4, ContinueMoves

LEMMA SucceedMoves ==
  ASSUME NEW p \in Procs, Types, Succeed(p),
         NEW fs \in SUBSET Files, files' = [files EXCEPT ![p] = fs], Ready(job[p], fs)
  PROVE  Moves(p)
BY ContinueMoves DEF Succeed

\* A stage that works on no file with a secret.
Plain ==
  {"running", "settings", "askWinrm", "askSsh", "domifaddr", "arp", "tartIp", "sshPort",
   "config", "sshpass", "port", "reach", "preflight"}

LEMMA CheckMoves ==
  ASSUME NEW p \in Procs, Here(p), at[p] \in Plain, NEW possible, Check(p, possible)
  PROVE  Moves(p)
<1>1. files[p] \in SUBSET Files /\ files' = [files EXCEPT ![p] = files[p]]
  BY DEF Here, Types, Check
<1>2. /\ Ready(job[p], files[p]) /\ "vars" \notin files[p] \ job[p].kept
      /\ "key" \in files[p] \ job[p].kept => at[p] # "port"
  BY DEF Here, Safe, Plain, VarsGo, KeyGoes, ScriptGoes, Resolving, Ready
<1>3. CASE Succeed(p)
  BY <1>1, <1>2, <1>3, SucceedMoves DEF Here
<1>4. CASE Fail(p)
  BY <1>1, <1>2, <1>4, FailMoves DEF Here, Fail, Ready, Plain
<1> QED
  BY <1>3, <1>4 DEF Check

\* The run goes on within a stage, with its files.
LEMMA GotoMoves ==
  ASSUME NEW p \in Procs, Types, NEW l \in Labels, NEW j,
         at' = [at EXCEPT ![p] = l], job' = [job EXCEPT ![p] = j], UNCHANGED files,
         Safe(l, j, files[p])
  PROVE  Moves(p)
BY DEF Types, Moves

LEMMA KeepsIs ==
  ASSUME NEW j, NEW fs, Run(j)
  PROVE  /\ Run(Keeps(j, fs))
         /\ Keeps(j, fs).plan = j.plan /\ Keeps(j, fs).use = j.use
         /\ Keeps(j, fs).kept = j.kept \cup fs
BY DEF Run, Keeps

-------------------------------------------------------------------------------
(* The stages that make and remove files.                                  *)

LEMMA ArgsMoves ==
  ASSUME NEW p \in Procs, Here(p), BuildArgs(p)
  PROVE  Moves(p)
<1>0. Types /\ at[p] = "args" /\ files[p] \subseteq Files /\ Run(job[p])
  BY DEF Here, Safe, Types, BuildArgs
<1>1. /\ "vars" \notin files[p] \ job[p].kept /\ "script" \notin files[p] \ job[p].kept
      /\ "key" \in files[p] \ job[p].kept => InPlan("cleanup", job[p].plan) /\ KeyIsMade(job[p].plan)
  BY <1>0 DEF Here, Safe, VarsGo, KeyGoes, ScriptGoes, Resolving
<1>2. InPlan("vars", job[p].plan) => VarsSoon(job[p].plan)
  BY <1>0 DEF Here, Safe, Placed
<1>3. ASSUME IF InPlan("vars", job[p].plan) THEN Create(p, "vars") ELSE UNCHANGED files,
             at' = [at EXCEPT ![p] = "playbook"], job' = [job EXCEPT ![p].use = "playbooks"]
      PROVE  Moves(p)
  <2> DEFINE k == [job[p] EXCEPT !.use = "playbooks"]
             fs == IF InPlan("vars", job[p].plan) THEN files[p] \cup {"vars"} ELSE files[p]
  <2>1. Run(k) /\ k.plan = job[p].plan /\ k.kept = job[p].kept /\ k.use = "playbooks"
    BY <1>0 DEF Run
  <2>2. job' = [job EXCEPT ![p] = k]
    BY <1>0, <1>3 DEF Types
  <2>3. files' = [files EXCEPT ![p] = fs] /\ fs \subseteq Files
    BY <1>0, <1>3 DEF Create, Types, Files, Secrets
  <2> HIDE DEF k
  <2>4. Safe("playbook", k, fs)
    BY <1>1, <1>2, <2>1 DEF Safe, Placed, VarsGo, KeyGoes
  <2> HIDE DEF fs
  <2>5. "playbook" \in Labels
    BY DEF Labels, StepsOfStages
  <2> QED
    BY <1>0, <1>3, <2>2, <2>3, <2>4, <2>5 DEF Moves, Types
<1>4. ASSUME UNCHANGED files, Fail(p)
      PROVE  Moves(p)
  <2>1. files' = [files EXCEPT ![p] = files[p]]
    BY <1>0, <1>4 DEF Types
  <2> QED
    BY <1>0, <1>1, <1>4, <2>1, FailMoves DEF Fail
<1>5. ASSUME Create(p, "vars"), FailWith(p, Keeps(job[p], {"vars"}))
      PROVE  Moves(p)
  <2>1. files' = [files EXCEPT ![p] = files[p] \cup {"vars"}] /\ files[p] \cup {"vars"} \in SUBSET Files
    BY <1>0, <1>5 DEF Create, Types, Files, Secrets
  <2>2. Run(Keeps(job[p], {"vars"})) /\ Keeps(job[p], {"vars"}).plan = job[p].plan
        /\ Keeps(job[p], {"vars"}).kept = job[p].kept \cup {"vars"}
    BY <1>0, KeepsIs
  <2> QED
    BY <1>0, <1>1, <1>5, <2>1, <2>2, FailMoves
<1> QED
  BY <1>3, <1>4, <1>5 DEF BuildArgs

LEMMA ArgsBuiltMoves ==
  ASSUME NEW p \in Procs, Here(p), ArgsBuilt(p)
  PROVE  Moves(p)
<1>0. Types /\ at[p] \in {"resolved", "unresolved"} /\ files[p] \subseteq Files /\ Run(job[p])
      /\ job[p].use = "playbooks"
  BY DEF Here, Safe, Types, ArgsBuilt, Resolution
<1>1. /\ "vars" \in files[p] \ job[p].kept => VarsSoon(job[p].plan)
      /\ "script" \notin files[p] \ job[p].kept
      /\ "key" \in files[p] \ job[p].kept => InPlan("cleanup", job[p].plan) /\ KeyIsMade(job[p].plan)
  BY <1>0 DEF Here, Safe, VarsGo, KeyGoes, ScriptGoes, Resolving
<1>2. ASSUME UNCHANGED files, Succeed(p)
      PROVE  Moves(p)
  <2>1. files' = [files EXCEPT ![p] = files[p]]
    BY <1>0, <1>2 DEF Types
  <2> QED
    BY <1>0, <1>1, <1>2, <2>1, SucceedMoves DEF Ready
<1>3. ASSUME Remove(p, {"vars"}), Fail(p)
      PROVE  Moves(p)
  <2>1. files' = [files EXCEPT ![p] = files[p] \ {"vars"}] /\ files[p] \ {"vars"} \in SUBSET Files
    BY <1>0, <1>3 DEF Remove, Types
  <2> QED
    BY <1>0, <1>1, <1>3, <2>1, FailMoves DEF Fail
<1>4. ASSUME UNCHANGED files, FailWith(p, Keeps(job[p], {"vars"}))
      PROVE  Moves(p)
  <2>1. files' = [files EXCEPT ![p] = files[p]]
    BY <1>0, <1>4 DEF Types
  <2>2. Run(Keeps(job[p], {"vars"})) /\ Keeps(job[p], {"vars"}).plan = job[p].plan
        /\ Keeps(job[p], {"vars"}).kept = job[p].kept \cup {"vars"}
    BY <1>0, KeepsIs
  <2> QED
    BY <1>0, <1>1, <1>4, <2>1, <2>2, FailMoves
<1> QED
  BY <1>2, <1>3, <1>4 DEF ArgsBuilt

LEMMA RemoveVarsMoves ==
  ASSUME NEW p \in Procs, Here(p), RemoveVars(p)
  PROVE  Moves(p)
<1>0. Types /\ at[p] = "vars" /\ files[p] \subseteq Files /\ Run(job[p])
  BY DEF Here, Safe, Types, RemoveVars
<1>1. /\ "script" \notin files[p] \ job[p].kept
      /\ "key" \in files[p] \ job[p].kept => InPlan("cleanup", job[p].plan) /\ KeyIsMade(job[p].plan)
  BY <1>0 DEF Here, Safe, KeyGoes, ScriptGoes
<1>2. ASSUME Remove(p, {"vars"}), Succeed(p)
      PROVE  Moves(p)
  <2>1. files' = [files EXCEPT ![p] = files[p] \ {"vars"}] /\ files[p] \ {"vars"} \in SUBSET Files
    BY <1>0, <1>2 DEF Remove, Types
  <2>2. Ready(job[p], files[p] \ {"vars"})
    BY <1>0, <1>1 DEF Ready
  <2> QED
    BY <1>0, <1>2, <2>1, <2>2, SucceedMoves
<1>3. ASSUME UNCHANGED files, Continue(p, Keeps(job[p], {"vars"}), TRUE)
      PROVE  Moves(p)
  <2>1. files' = [files EXCEPT ![p] = files[p]]
    BY <1>0, <1>3 DEF Types
  <2>2. Run(Keeps(job[p], {"vars"})) /\ Keeps(job[p], {"vars"}).plan = job[p].plan
        /\ Keeps(job[p], {"vars"}).kept = job[p].kept \cup {"vars"}
    BY <1>0, KeepsIs
  <2>3. Ready(Keeps(job[p], {"vars"}), files[p])
    BY <1>1, <2>2 DEF Ready
  <2> QED
    BY <1>0, <1>3, <2>1, <2>3, ContinueMoves
<1> QED
  BY <1>2, <1>3 DEF RemoveVars

-------------------------------------------------------------------------------
(* ansible, and the sources it needs.                                      *)

LEMMA AnsibleOverMoves ==
  ASSUME NEW p \in Procs, Here(p), NEW err, AnsibleOver(p, err),
         \/ at[p] \in {"start", "play", "drain"}
         \/ at[p] = "unresolved" /\ job[p].use = "roles"
  PROVE  Moves(p)
<1>1. Types /\ files[p] \in SUBSET Files /\ files' = [files EXCEPT ![p] = files[p]]
  BY DEF Here, Types, AnsibleOver
<1>2. Ready(job[p], files[p])
  BY DEF Here, Safe, Ready, VarsGo, KeyGoes, ScriptGoes, Resolving
<1> QED
  BY <1>1, <1>2, ContinueMoves DEF AnsibleOver

AnsibleStep(p) ==
  \/ PrepareAnsible(p)
  \/ RolesResolved(p)
  \/ StartAnsible(p)
  \/ AnsibleEnds(p)
  \/ AnsibleTimesOut(p)
  \/ OutputEnds(p)

LEMMA AnsibleMoves ==
  ASSUME NEW p \in Procs, Here(p), AnsibleStep(p)
  PROVE  Moves(p)
<1>0. Types /\ Run(job[p])
  BY DEF Here, Safe
<1>1. CASE PrepareAnsible(p)
  <2> DEFINE k == [job[p] EXCEPT !.use = "roles"]
  <2>1. Run(k) /\ k.plan = job[p].plan /\ k.kept = job[p].kept /\ k.use = "roles"
    BY <1>0 DEF Run
  <2>2. at' = [at EXCEPT ![p] = "roles"] /\ job' = [job EXCEPT ![p] = k] /\ UNCHANGED files /\ at[p] = "ansible"
    BY <1>0, <1>1 DEF Types, PrepareAnsible
  <2> HIDE DEF k
  <2>3. Safe("roles", k, files[p])
    BY <2>1, <2>2 DEF Here, Safe, Placed, VarsGo, KeyGoes, ScriptGoes, Resolving
  <2>4. "roles" \in Labels
    BY DEF Labels, StepsOfStages
  <2> QED
    BY <1>0, <2>2, <2>3, <2>4, GotoMoves
<1>2. ASSUME NEW l \in {"start", "play", "drain"}, Goto(p, l), UNCHANGED files,
             \/ at[p] \in {"start", "play", "drain"}
             \/ at[p] = "resolved" /\ job[p].use = "roles"
      PROVE  Moves(p)
  <2>1. Safe(l, job[p], files[p])
    BY <1>2 DEF Here, Safe, Placed, VarsGo, KeyGoes, ScriptGoes, Resolving
  <2>2. at' = [at EXCEPT ![p] = l] /\ job' = [job EXCEPT ![p] = job[p]]
    BY <1>0, <1>2 DEF Goto, Types
  <2>3. l \in Labels
    BY DEF Labels, StepsOfStages
  <2> QED
    BY <1>0, <1>2, <2>1, <2>2, <2>3, GotoMoves
<1>3. CASE RolesResolved(p)
  BY <1>2, <1>3, AnsibleOverMoves DEF RolesResolved
<1>4. CASE StartAnsible(p)
  BY <1>2, <1>4, AnsibleOverMoves DEF StartAnsible
<1>5. CASE AnsibleEnds(p)
  BY <1>5, AnsibleOverMoves DEF AnsibleEnds
<1>6. CASE AnsibleTimesOut(p)
  BY <1>2, <1>6 DEF AnsibleTimesOut
<1>7. CASE OutputEnds(p)
  BY <1>7, AnsibleOverMoves DEF OutputEnds
<1> QED
  BY <1>1, <1>3, <1>4, <1>5, <1>6, <1>7 DEF AnsibleStep

\* Every step of a resolution stays in it, and leaves the plan and the files.
LEMMA ResolveStays ==
  ASSUME NEW p \in Procs, Types, ResolveStep(p)
  PROVE  /\ at[p] \in {"playbook", "roles"} \cup Resolving
         /\ UNCHANGED files
         /\ \E l \in Resolving, c \in Caches :
              /\ at' = [at EXCEPT ![p] = l]
              /\ job' \in {job, [job EXCEPT ![p].used = @ \cup {c}], [job EXCEPT ![p].missed = TRUE]}
<1> DEFINE Stays == \E l \in Resolving, c \in Caches :
              /\ at' = [at EXCEPT ![p] = l]
              /\ job' \in {job, [job EXCEPT ![p].used = @ \cup {c}], [job EXCEPT ![p].missed = TRUE]}
<1>0. "roles" \in Caches /\ "playbooks" \in Caches
  BY DEF Caches
<1>1. ASSUME NEW l \in Resolving, Goto(p, l)
      PROVE  Stays
  BY <1>0, <1>1 DEF Goto
<1>2. ASSUME NEW l \in Resolving, Step(p, l)
      PROVE  Stays /\ UNCHANGED files
  BY <1>1, <1>2 DEF Step
<1>3. ASSUME NEW l \in Resolving, NEW k, Becomes(p, k, l)
      PROVE  Stays /\ UNCHANGED files
  BY <1>1, <1>3 DEF Becomes
<1>4. ASSUME NEW l \in Resolving, NEW S, Git(p, S, l)
      PROVE  Stays /\ UNCHANGED files
  <2>1. "unresolved" \in Resolving
    BY DEF Resolving
  <2> HIDE DEF Stays
  <2> QED
    BY <1>2, <1>3, <1>4, <2>1 DEF Git
<1>5. /\ {"look", "clone", "cloning", "discard", "fetch", "updateRef", "pullRef", "pull"} \subseteq Resolving
      /\ {"checkout", "subdirectory", "resolved", "unresolved"} \subseteq Resolving
  BY DEF Resolving
<1> HIDE DEF Stays
<1>6. CASE ResolvePlaybook(p) \/ ResolveRoles(p)
  <2>1. at[p] \in {"playbook", "roles"} /\ UNCHANGED files
    BY <1>6 DEF ResolvePlaybook, ResolveRoles
  <2>2. CASE Goto(p, "resolved") \/ Goto(p, "unresolved")
    BY <1>1, <1>5, <2>1, <2>2 DEF Stays
  <2>3. ASSUME NEW c \in Caches, at' = [at EXCEPT ![p] = "look"],
               job' = [job EXCEPT ![p].used = @ \cup {c}]
        PROVE  Stays
    BY <1>5, <2>3 DEF Stays
  <2>4. Stays
    BY <1>0, <1>1, <1>5, <1>6, <2>3 DEF ResolvePlaybook, ResolveRoles
  <2> QED
    BY <2>1, <2>4 DEF Stays
<1>7. CASE LookAtCheckout(p)
  <2>1. UpdateOrNot \in {"fetch", "checkout", "subdirectory"}
    BY DEF UpdateOrNot
  <2> QED
    BY <1>2, <1>5, <1>7, <2>1 DEF LookAtCheckout, Stays
<1>8. CASE Clone(p)
  BY <1>2, <1>3, <1>5, <1>8 DEF Clone, Stays
<1>9. CASE CloneEnds(p)
  BY <1>2, <1>3, <1>5, <1>9 DEF CloneEnds, Stays
<1>10. CASE DiscardClone(p)
  BY <1>3, <1>5, <1>10 DEF DiscardClone, Stays
<1>11. CASE Fetch(p)
  BY <1>4, <1>5, <1>11 DEF Fetch, Stays
<1>12. CASE UpdateRef(p)
  <2>1. ASSUME at' = [at EXCEPT ![p] = "checkout"], job' = [job EXCEPT ![p].missed = TRUE]
        PROVE  Stays
    BY <1>0, <1>5, <2>1 DEF Stays
  <2>2. at[p] \in Resolving
    BY <1>5, <1>12 DEF UpdateRef
  <2>3. Stays /\ UNCHANGED files
    BY <1>2, <1>4, <1>5, <1>12, <2>1 DEF UpdateRef, sources
  <2> QED
    BY <2>2, <2>3 DEF Stays
<1>13. CASE PullRef(p) \/ Pull(p)
  BY <1>4, <1>5, <1>13 DEF PullRef, Pull, Stays
<1>14. CASE CheckoutRef(p)
  BY <1>4, <1>5, <1>14 DEF CheckoutRef, Stays
<1>15. CASE FindSubdirectory(p)
  BY <1>2, <1>5, <1>15 DEF FindSubdirectory, Stays
<1> QED
  BY <1>6, <1>7, <1>8, <1>9, <1>10, <1>11, <1>12, <1>13, <1>14, <1>15 DEF ResolveStep

LEMMA ResolveMoves ==
  ASSUME NEW p \in Procs, Here(p), ResolveStep(p)
  PROVE  Moves(p)
<1>0. Types /\ Run(job[p])
  BY DEF Here, Safe
<1>1. at[p] \in {"playbook", "roles"} \cup Resolving /\ UNCHANGED files
  BY <1>0, ResolveStays
<1>2. PICK l \in Resolving, c \in Caches :
        /\ at' = [at EXCEPT ![p] = l]
        /\ job' \in {job, [job EXCEPT ![p].used = @ \cup {c}], [job EXCEPT ![p].missed = TRUE]}
  BY <1>0, ResolveStays
<1>3. PICK k : /\ job' = [job EXCEPT ![p] = k]
               /\ Run(k) /\ k.plan = job[p].plan /\ k.kept = job[p].kept /\ k.use = job[p].use
  <2>1. ASSUME NEW k, k \in {job[p], [job[p] EXCEPT !.used = @ \cup {c}], [job[p] EXCEPT !.missed = TRUE]}
        PROVE  Run(k) /\ k.plan = job[p].plan /\ k.kept = job[p].kept /\ k.use = job[p].use
    BY <1>0, <2>1 DEF Run
  <2>2. \E k \in {job[p], [job[p] EXCEPT !.used = @ \cup {c}], [job[p] EXCEPT !.missed = TRUE]} :
          job' = [job EXCEPT ![p] = k]
    BY <1>0, <1>2 DEF Types
  <2> QED
    BY <2>1, <2>2
<1>4. Safe(l, k, files[p])
  BY <1>1, <1>3 DEF Here, Safe, Placed, VarsGo, KeyGoes, ScriptGoes, Resolving
<1>5. l \in Labels
  BY DEF Resolving, Labels, StepsOfStages
<1> QED
  BY <1>0, <1>1, <1>2, <1>3, <1>4, <1>5, GotoMoves

-------------------------------------------------------------------------------
(* The local Windows session.                                              *)

LEMMA KeyMoves ==
  ASSUME NEW p \in Procs, Here(p), CreateKey(p)
  PROVE  Moves(p)
<1>0. Types /\ at[p] = "key" /\ files[p] \subseteq Files /\ Run(job[p])
  BY DEF Here, Safe, Types, CreateKey
<1>1. /\ files[p] \cap Secrets \subseteq job[p].kept
      /\ InPlan("cleanup", job[p].plan) /\ KeyIsMade(job[p].plan)
  BY <1>0 DEF Here, Safe, Placed, VarsGo, KeyGoes, ScriptGoes, Resolving, Secrets
<1>2. ASSUME Create(p, "key"), Succeed(p)
      PROVE  Moves(p)
  <2>1. files' = [files EXCEPT ![p] = files[p] \cup {"key"}] /\ files[p] \cup {"key"} \in SUBSET Files
    BY <1>0, <1>2 DEF Create, Types, Files, Secrets
  <2>2. Ready(job[p], files[p] \cup {"key"})
    BY <1>0, <1>1 DEF Ready, Secrets
  <2> QED
    BY <1>0, <1>2, <2>1, <2>2, SucceedMoves
<1>3. ASSUME UNCHANGED files, Fail(p)
      PROVE  Moves(p)
  <2>1. files' = [files EXCEPT ![p] = files[p]]
    BY <1>0, <1>3 DEF Types
  <2>2. "vars" \notin files[p] \ job[p].kept /\ "script" \notin files[p] \ job[p].kept
        /\ "key" \notin files[p] \ job[p].kept
    BY <1>1 DEF Secrets
  <2> QED
    BY <1>0, <1>3, <2>1, <2>2, FailMoves DEF Fail
<1>4. ASSUME Create(p, "key"), FailWith(p, Keeps(job[p], {"key"}))
      PROVE  Moves(p)
  <2>1. files' = [files EXCEPT ![p] = files[p] \cup {"key"}] /\ files[p] \cup {"key"} \in SUBSET Files
    BY <1>0, <1>4 DEF Create, Types, Files, Secrets
  <2>2. Run(Keeps(job[p], {"key"})) /\ Keeps(job[p], {"key"}).kept = job[p].kept \cup {"key"}
    BY <1>0, KeepsIs
  <2> QED
    BY <1>0, <1>1, <1>4, <2>1, <2>2, FailMoves DEF Secrets
<1> QED
  BY <1>2, <1>3, <1>4 DEF CreateKey

LEMMA StateMoves ==
  ASSUME NEW p \in Procs, Here(p), CreateState(p)
  PROVE  Moves(p)
<1>0. Types /\ at[p] = "state" /\ files[p] \subseteq Files /\ Run(job[p])
  BY DEF Here, Safe, Types, CreateState
<1>1. /\ "vars" \notin files[p] \ job[p].kept /\ "script" \notin files[p] \ job[p].kept
      /\ InPlan("cleanup", job[p].plan)
      /\ "key" \in files[p] \ job[p].kept => KeyIsMade(job[p].plan)
  BY <1>0 DEF Here, Safe, Placed, VarsGo, KeyGoes, ScriptGoes, Resolving
<1>2. ASSUME Create(p, "state"), Succeed(p)
      PROVE  Moves(p)
  <2>1. files' = [files EXCEPT ![p] = files[p] \cup {"state"}] /\ files[p] \cup {"state"} \in SUBSET Files
    BY <1>0, <1>2 DEF Create, Types, Files
  <2>2. Ready(job[p], files[p] \cup {"state"})
    BY <1>0, <1>1 DEF Ready
  <2> QED
    BY <1>0, <1>2, <2>1, <2>2, SucceedMoves
<1>3. ASSUME Remove(p, {"key"}), Fail(p)
      PROVE  Moves(p)
  <2>1. files' = [files EXCEPT ![p] = files[p] \ {"key"}] /\ files[p] \ {"key"} \in SUBSET Files
    BY <1>0, <1>3 DEF Remove, Types
  <2> QED
    BY <1>0, <1>1, <1>3, <2>1, FailMoves DEF Fail
<1>4. ASSUME UNCHANGED files, FailWith(p, Keeps(job[p], {"key"}))
      PROVE  Moves(p)
  <2>1. files' = [files EXCEPT ![p] = files[p]]
    BY <1>0, <1>4 DEF Types
  <2>2. Run(Keeps(job[p], {"key"})) /\ Keeps(job[p], {"key"}).kept = job[p].kept \cup {"key"}
    BY <1>0, KeepsIs
  <2> QED
    BY <1>0, <1>1, <1>4, <2>1, <2>2, FailMoves
<1> QED
  BY <1>2, <1>3, <1>4 DEF CreateState

LEMMA WaitsAre ==
  ASSUME NEW k \in Kinds
  PROVE  \/ k = "bootstrap" /\ Waits[k] = "bootstrapping"
         \/ k = "cleanup" /\ Waits[k] = "restoring"
BY DEF Kinds, Waits

LEMMA LaunchMoves ==
  ASSUME NEW p \in Procs, Here(p), NEW k \in Kinds, Launch(p, k)
  PROVE  Moves(p)
<1>0. Types /\ at[p] = k /\ k \in {"bootstrap", "cleanup"} /\ files[p] \subseteq Files /\ Run(job[p])
  BY DEF Here, Safe, Types, Launch, Kinds
<1>1. PICK b : job' = [job EXCEPT ![p].threw = b]
  BY DEF Launch
<1> DEFINE j  == [job[p] EXCEPT !.threw = b]
           fs == files[p] \cup {"script"}
<1>2. Run(j) /\ j.plan = job[p].plan /\ j.kept = job[p].kept /\ job' = [job EXCEPT ![p] = j]
  BY <1>0, <1>1 DEF Run, Types
<1>3. files' = [files EXCEPT ![p] = fs] /\ fs \subseteq Files
  BY <1>0 DEF Launch, Create, Types, Files, Secrets
<1>4. at' = [at EXCEPT ![p] = Waits[k]]
  BY DEF Launch
<1> HIDE DEF j
<1>5. Safe(Waits[k], j, fs)
  BY <1>0, <1>2, WaitsAre DEF Here, Safe, Placed, VarsGo, KeyGoes, ScriptGoes, Resolving
<1>6. Waits[k] \in Labels
  BY WaitsAre DEF Labels, StepsOfStages
<1> HIDE DEF fs
<1> QED
  BY <1>0, <1>2, <1>3, <1>4, <1>5, <1>6 DEF Moves, Types

\* The end of an elevated script, with the job j and the files fs.
LEMMA ResultMoves ==
  ASSUME NEW p \in Procs, Types, NEW k \in Kinds, at[p] = Waits[k],
         NEW j, NEW good, Result(p, k, j, good), Run(j),
         NEW fs \in SUBSET Files, files' = [files EXCEPT ![p] = fs],
         "vars" \notin fs \ j.kept, "script" \notin fs \ j.kept,
         "key" \in fs \ j.kept => KeyGoes(at[p], j)
  PROVE  Moves(p)
<1>1. CASE k = "cleanup"
  <2> DEFINE i == [j EXCEPT !.clean = good]
  <2>1. at' = [at EXCEPT ![p] = "tidy"] /\ job' = [job EXCEPT ![p] = i]
    BY <1>1 DEF Result
  <2>2. Run(i) /\ i.plan = j.plan /\ i.kept = j.kept
    BY DEF Run
  <2> HIDE DEF i
  <2>3. Safe("tidy", i, fs)
    BY <2>2 DEF Safe, Placed, KeyGoes
  <2>4. "tidy" \in Labels
    BY DEF Labels, StepsOfStages
  <2> QED
    BY <2>1, <2>3, <2>4 DEF Moves, Types
<1>2. CASE k = "bootstrap"
  <2>1. at[p] = "bootstrapping"
    BY <1>2, WaitsAre
  <2>2. "key" \in fs \ j.kept => InPlan("cleanup", j.plan) /\ KeyIsMade(j.plan)
    BY <2>1 DEF KeyGoes
  <2>3. CASE good
    <3> DEFINE i == [j EXCEPT !.booted = TRUE]
    <3>1. Continue(p, i, FALSE)
      BY <1>2, <2>3 DEF Result
    <3>2. Run(i) /\ i.plan = j.plan /\ i.kept = j.kept
      BY DEF Run
    <3> HIDE DEF i
    <3>3. Ready(i, fs)
      BY <2>2, <3>2 DEF Ready
    <3> QED
      BY <3>1, <3>3, ContinueMoves
  <2>4. CASE ~good
    BY <1>2, <2>1, <2>2, <2>4, FailMoves DEF Result
  <2> QED
    BY <2>3, <2>4
<1> QED
  BY <1>1, <1>2 DEF Kinds

LEMMA WaitMoves ==
  ASSUME NEW p \in Procs, Here(p), NEW k \in Kinds, ScriptOver(p, k) \/ Timeout(p, k)
  PROVE  Moves(p)
<1>0. Types /\ at[p] = Waits[k] /\ at[p] \in {"bootstrapping", "restoring"}
      /\ files[p] \subseteq Files /\ Run(job[p])
  BY WaitsAre DEF Here, Safe, Types, ScriptOver, Timeout
<1>1. /\ "vars" \notin files[p] \ job[p].kept
      /\ "key" \in files[p] \ job[p].kept => KeyGoes(at[p], job[p])
  BY <1>0 DEF Here, Safe, VarsGo, Resolving
<1>2. ASSUME NEW good, Remove(p, {"script"}), Result(p, k, job[p], good)
      PROVE  Moves(p)
  <2>1. files' = [files EXCEPT ![p] = files[p] \ {"script"}] /\ files[p] \ {"script"} \in SUBSET Files
    BY <1>0, <1>2 DEF Remove, Types
  <2> QED
    BY <1>0, <1>1, <1>2, <2>1, ResultMoves
<1>3. ASSUME NEW good, UNCHANGED files, NEW j, Run(j), j.plan = job[p].plan, j.kept = job[p].kept,
             Result(p, k, Keeps(j, {"script"}), good)
      PROVE  Moves(p)
  <2>1. files' = [files EXCEPT ![p] = files[p]]
    BY <1>0, <1>3 DEF Types
  <2>2. Run(Keeps(j, {"script"})) /\ Keeps(j, {"script"}).kept = job[p].kept \cup {"script"}
        /\ Keeps(j, {"script"}).plan = job[p].plan
    BY <1>3, KeepsIs
  <2>3. "key" \in files[p] \ Keeps(j, {"script"}).kept => KeyGoes(at[p], Keeps(j, {"script"}))
    BY <1>1, <2>2 DEF KeyGoes
  <2>4. /\ "vars" \notin files[p] \ Keeps(j, {"script"}).kept
        /\ "script" \notin files[p] \ Keeps(j, {"script"}).kept
    BY <1>1, <2>2
  <2> QED
    BY <1>0, <1>3, <2>1, <2>2, <2>3, <2>4, ResultMoves
<1>4. ASSUME Remove(p, {"script"}), NEW i, Run(i), i.plan = job[p].plan, i.kept = job[p].kept,
             Result(p, k, i, FALSE)
      PROVE  Moves(p)
  <2>1. files' = [files EXCEPT ![p] = files[p] \ {"script"}] /\ files[p] \ {"script"} \in SUBSET Files
    BY <1>0, <1>4 DEF Remove, Types
  <2>2. "key" \in files[p] \ i.kept => KeyGoes(at[p], i)
    BY <1>1, <1>4 DEF KeyGoes
  <2> QED
    BY <1>0, <1>1, <1>4, <2>1, <2>2, ResultMoves
<1>5. ASSUME job' = [job EXCEPT ![p].threw = TRUE], UNCHANGED <<at, files>>
      PROVE  Moves(p)
  <2> DEFINE i == [job[p] EXCEPT !.threw = TRUE]
  <2>1. Run(i) /\ i.plan = job[p].plan /\ i.kept = job[p].kept /\ i.use = job[p].use
        /\ job' = [job EXCEPT ![p] = i]
    BY <1>0, <1>5 DEF Run, Types
  <2> HIDE DEF i
  <2>2. Safe(at[p], i, files[p])
    BY <1>0, <2>1 DEF Here, Safe, Placed, VarsGo, KeyGoes
  <2> QED
    BY <1>0, <1>5, <2>1, <2>2 DEF Moves, Types
<1>6. CASE ScriptOver(p, k)
  BY <1>0, <1>2, <1>3, <1>6 DEF ScriptOver
<1>7. CASE Timeout(p, k)
  <2> DEFINE i == [job[p] EXCEPT !.astray = TRUE]
  <2>1. Run(i) /\ i.plan = job[p].plan /\ i.kept = job[p].kept
    BY <1>0 DEF Run
  <2>2. \/ job' = [job EXCEPT ![p].threw = TRUE] /\ UNCHANGED <<at, files>>
        \/ Remove(p, {"script"}) /\ Result(p, k, i, FALSE)
        \/ UNCHANGED files /\ Result(p, k, Keeps(i, {"script"}), FALSE)
    BY <1>7 DEF Timeout
  <2> HIDE DEF i
  <2> QED
    BY <1>3, <1>4, <1>5, <2>1, <2>2
<1> QED
  BY <1>6, <1>7

LEMMA TidyMoves ==
  ASSUME NEW p \in Procs, Here(p), Tidy(p)
  PROVE  Moves(p)
<1>0. Types /\ at[p] = "tidy" /\ files[p] \subseteq Files /\ Run(job[p])
  BY DEF Here, Safe, Types, Tidy
<1>1. "vars" \notin files[p] \ job[p].kept /\ "script" \notin files[p] \ job[p].kept
  BY <1>0 DEF Here, Safe, VarsGo, ScriptGoes, Resolving
<1>2. PICK kept \in SUBSET (files[p] \cap {"key", "state"}) :
        /\ Remove(p, {"key", "state"} \ kept)
        /\ Continue(p, Keeps(job[p], kept), kept # {} \/ ~job[p].clean)
  BY DEF Tidy
<1> DEFINE fs == files[p] \ ({"key", "state"} \ kept)
<1>3. files' = [files EXCEPT ![p] = fs] /\ fs \in SUBSET Files
  BY <1>0, <1>2 DEF Remove, Types
<1>4. Run(Keeps(job[p], kept)) /\ Keeps(job[p], kept).kept = job[p].kept \cup kept
  BY <1>0, KeepsIs
<1>5. Ready(Keeps(job[p], kept), fs)
  BY <1>1, <1>4 DEF Ready
<1> HIDE DEF fs
<1> QED
  BY <1>0, <1>2, <1>3, <1>5, ContinueMoves

LEMMA SessionMoves ==
  ASSUME NEW p \in Procs, Here(p), SessionStep(p)
  PROVE  Moves(p)
<1>1. CASE SelectPort(p) \/ Reach(p) \/ Preflight(p)
  BY <1>1, CheckMoves DEF SelectPort, Reach, Preflight, Plain
<1> QED
  BY <1>1, KeyMoves, StateMoves, LaunchMoves, WaitMoves, TidyMoves DEF SessionStep

LEMMA ScriptMoves ==
  ASSUME NEW p \in Procs, Types, Safe(at[p], job[p], files[p]), ScriptStep(p)
  PROVE  Moves(p)
<1>1. CASE UNCHANGED run
  BY <1>1 DEF Types, Moves, run
<1>2. CASE Capture(p)
  <2> DEFINE fs == files[p] \cup {"state"}
  <2>1. files' = [files EXCEPT ![p] = fs] /\ fs \subseteq Files /\ UNCHANGED <<at, job>>
    BY <1>2 DEF Capture, Types, Files
  <2>2. fs \cap Secrets = files[p] \cap Secrets
    BY DEF Secrets
  <2>3. Safe(at[p], job[p], fs)
    BY <2>2 DEF Safe
  <2> HIDE DEF fs
  <2> QED
    BY <2>1, <2>3 DEF Types, Moves
<1>3. ASSUME NEW k \in Kinds, Throw(p, k)
      PROVE  Moves(p)
  <2>1. CASE job' = job
    BY <1>3, <2>1 DEF Throw, Types, Moves
  <2>2. CASE at[p] = Waits[k] /\ job' = [job EXCEPT ![p].threw = TRUE]
    <3> DEFINE i == [job[p] EXCEPT !.threw = TRUE]
    <3>1. at[p] \in {"bootstrapping", "restoring"}
      BY <2>2, WaitsAre
    <3>2. Run(job[p])
      BY <3>1 DEF Safe
    <3>3. Run(i) /\ i.plan = job[p].plan /\ i.kept = job[p].kept /\ i.use = job[p].use
          /\ job' = [job EXCEPT ![p] = i]
      BY <2>2, <3>2 DEF Run, Types
    <3> HIDE DEF i
    <3>4. Safe(at[p], i, files[p])
      BY <3>1, <3>3 DEF Safe, Placed, VarsGo, KeyGoes
    <3> QED
      BY <1>3, <3>3, <3>4 DEF Throw, Types, Moves
  <2> QED
    BY <1>3, <2>1, <2>2 DEF Throw
<1> QED
  BY <1>1, <1>2, <1>3
  DEF ScriptStep, Install, Enable, Configure, Restore, Restart, EnableWinRM, CreateListener,
      Load, Reload, RestoreSshd, RestoreWinRM, Sets

-------------------------------------------------------------------------------
(* The invariant.                                                          *)

Inv == Types /\ \A q \in Procs : Safe(at[q], job[q], files[q])

LEMMA MovesKeepInv ==
  ASSUME Inv, NEW p \in Procs, Moves(p)
  PROVE  Inv'
<1>1. Types'
  BY DEF Inv, Types, Moves
<1>2. ASSUME NEW q \in Procs
      PROVE  Safe(at[q], job[q], files[q])'
  <2>1. CASE q = p
    BY <2>1 DEF Moves, Safe, Run, Placed, VarsGo, KeyGoes
  <2>2. CASE q # p
    <3>1. at'[q] = at[q] /\ job'[q] = job[q] /\ files'[q] = files[q]
      BY <2>2 DEF Inv, Types, Moves
    <3> QED
      BY <3>1 DEF Inv, Safe, Run, Placed, VarsGo, KeyGoes
  <2> QED
    BY <2>1, <2>2
<1> QED
  BY <1>1, <1>2 DEF Inv

LEMMA BeginKeepsInv ==
  ASSUME Inv, NEW p \in Procs, Begin(p)
  PROVE  Inv'
<1>0. Types /\ at[p] = "idle" /\ files[p] \cap Secrets = {} /\ UNCHANGED files
  BY DEF Inv, Safe, Begin
<1>1. PICK plan, r :
        /\ plan \in Plans(scene.os)
        /\ at' = [at EXCEPT ![p] = Head(plan)]
        /\ job' = [q \in Procs |->
             IF q = p THEN r
             ELSE IF Working(q) THEN [job[q] EXCEPT !.alone = FALSE] ELSE job[q]]
        /\ r.plan = Tail(plan) /\ r.kept = {} /\ Fields \subseteq DOMAIN r
  <2> DEFINE made(plan, force) ==
        [plan |-> Tail(plan), ok |-> TRUE, kept |-> {},
         alone |-> \A q \in Procs \ {p} : ~Working(q) /\ ScriptsOver(q),
         use |-> "playbooks", used |-> {}, seen |-> origin, missed |-> FALSE,
         vm |-> InPlan("running", plan), ssh |-> InPlan("key", plan), force |-> force, threw |-> FALSE,
         booted |-> FALSE, clean |-> FALSE, astray |-> FALSE, was |-> host]
  <2>1. PICK plan \in Plans(scene.os), force \in BOOLEAN :
          /\ at' = [at EXCEPT ![p] = Head(plan)]
          /\ job' = [q \in Procs |->
               IF q = p THEN made(plan, force)
               ELSE IF Working(q) THEN [job[q] EXCEPT !.alone = FALSE] ELSE job[q]]
    BY Zenon DEF Begin
  <2>2. made(plan, force).plan = Tail(plan) /\ made(plan, force).kept = {}
        /\ Fields \subseteq DOMAIN made(plan, force)
    BY DEF Fields
  <2> HIDE DEF made
  <2> WITNESS plan, made(plan, force)
  <2> QED
    BY <2>1, <2>2
<1>2. Sound(plan) /\ plan # <<>> /\ Head(plan) \in Names
  BY <1>1, PlansAreSound, RestIsSound
<1>3. Types'
  BY <1>0, <1>1, <1>2 DEF Types, Labels
<1>4. ASSUME NEW q \in Procs, q # p
      PROVE  Safe(at[q], job[q], files[q])'
  <2>1. at'[q] = at[q] /\ files'[q] = files[q] /\ Safe(at[q], job[q], files[q])
    BY <1>0, <1>1, <1>4 DEF Types, Inv
  <2>2. CASE ~Working(q)
    BY <1>1, <1>4, <2>1, <2>2 DEF Safe, Working
  <2>3. CASE Working(q)
    <3>1. Run(job[q])
      BY <2>1, <2>3 DEF Safe, Working
    <3>2. job'[q] = [job[q] EXCEPT !.alone = FALSE]
      BY <1>1, <1>4, <2>3
    <3>3. Run(job'[q]) /\ job'[q].plan = job[q].plan /\ job'[q].kept = job[q].kept /\ job'[q].use = job[q].use
      BY <3>1, <3>2 DEF Run
    <3> QED
      BY <2>1, <3>3 DEF Safe, Placed, VarsGo, KeyGoes, Run
  <2> QED
    BY <2>2, <2>3
<1>5. Safe(at[p], job[p], files[p])'
  <2>1. Run([plan |-> plan, kept |-> {}, use |-> "playbooks"])
    BY <1>2 DEF Run
  <2> DEFINE j == [plan |-> plan, kept |-> {}, use |-> "playbooks"]
  <2>2. j.plan = plan /\ j.kept = {}
    OBVIOUS
  <2>3. Run(j)
    BY <2>1
  <2> HIDE DEF j
  <2>4. Ready(j, files[p])
    BY <1>0, <2>2, <2>3 DEF Ready, Secrets
  <2>5. Safe(Head(plan), job'[p], files[p])
    BY <1>1, <1>2, <2>2, <2>4, NextStageIsSafe DEF Fields
  <2>6. at'[p] = Head(plan)
    BY <1>0, <1>1 DEF Types
  <2> QED
    BY <1>0, <2>5, <2>6 DEF Safe, Run, Placed, VarsGo, KeyGoes
<1> QED
  BY <1>3, <1>4, <1>5 DEF Inv

LEMMA WorkMoves ==
  ASSUME Inv, NEW p \in Procs, Work(p) \/ OutputEnds(p)
  PROVE  Moves(p)
<1>1. CASE Finish(p)
  <2>1. "over" \in Labels
    BY DEF Labels, StepsOfStages
  <2> QED
    BY <1>1, <2>1, GotoMoves DEF Inv, Finish, Safe
<1>2. CASE ~Finish(p)
  <2>1. at[p] \notin {"idle", "over"}
    BY <1>2, ResolveStays, WaitsAre
    DEF Inv, Work, OutputEnds, EnsureRunning, ResolveSettings, AskWinrm, AskSsh, AskLibvirt, AskArp,
        AskTart, WaitForSSH, LoadConfig, FindSshpass, BuildArgs, ArgsBuilt, PrepareAnsible,
        RolesResolved, StartAnsible, AnsibleEnds, AnsibleTimesOut, RemoveVars, SessionStep,
        SelectPort, CreateKey, CreateState, Launch, ScriptOver, Timeout, Tidy, Reach, Preflight,
        Resolution, Resolving, Kinds
  <2>2. Here(p)
    BY <2>1 DEF Inv, Here
  <2>3. CASE EnsureRunning(p) \/ ResolveSettings(p) \/ AskWinrm(p) \/ AskSsh(p) \/ AskLibvirt(p)
             \/ AskArp(p) \/ AskTart(p) \/ WaitForSSH(p) \/ LoadConfig(p) \/ FindSshpass(p)
    BY <2>2, <2>3, CheckMoves
    DEF Plain, EnsureRunning, ResolveSettings, AskWinrm, AskSsh, AskLibvirt, AskArp, AskTart,
        WaitForSSH, LoadConfig, FindSshpass
  <2> QED
    BY <1>2, <2>2, <2>3, ArgsMoves, ArgsBuiltMoves, RemoveVarsMoves, AnsibleMoves, ResolveMoves,
       SessionMoves DEF Work, AnsibleStep
<1> QED
  BY <1>1, <1>2

LEMMA StepInv == Inv /\ [Next]_vars => Inv'
<1> SUFFICES ASSUME Inv, [Next]_vars PROVE Inv'
  OBVIOUS
<1>1. CASE UNCHANGED run
  BY <1>1 DEF run, Inv, Types, Safe, Run, Placed, VarsGo, KeyGoes
<1>2. ASSUME NEW p \in Procs, Die(p)
      PROVE  Inv'
  <2>1. "over" \in Labels
    BY DEF Labels, StepsOfStages
  <2>2. Moves(p)
    BY <1>2, <2>1, GotoMoves DEF Inv, Die, Safe
  <2> QED
    BY <2>2, MovesKeepInv
<1>3. ASSUME NEW p \in Procs, RunScript(p)
      PROVE  Inv'
  BY <1>3, ScriptMoves, MovesKeepInv DEF RunScript, Inv
<1>4. ASSUME GuestChanges \/ SourcesChange
      PROVE  UNCHANGED run
  BY <1>4 DEF GuestChanges, SourcesChange, Push, DeleteBranch, Reconfigure
<1> QED
  BY <1>1, <1>2, <1>3, <1>4, BeginKeepsInv, WorkMoves, MovesKeepInv DEF Next, vars

THEOREM Invariant == Spec => []Inv
<1>1. Init => Inv
  <2> SUFFICES ASSUME Init PROVE Inv
    OBVIOUS
  <2>1. "idle" \in Labels
    BY DEF Labels, StepsOfStages
  <2> QED
    BY <2>1 DEF Init, Inv, Types, Safe
<1> QED
  BY <1>1, StepInv, PTL DEF Spec

\* A run that returns has removed every file that opens its target, but those
\* the system refused to remove.  One that dies before leaves them.
THEOREM NoSecrets == Spec => []NoSecretsLeft
<1>1. Inv => NoSecretsLeft
  <2> SUFFICES ASSUME Inv, NEW p \in Procs, at[p] = "done"
               PROVE  files[p] \cap Secrets \subseteq job[p].kept
    BY DEF NoSecretsLeft
  <2>1. Safe("done", job[p], files[p])
    BY DEF Inv
  <2> QED
    BY <2>1 DEF Safe, Placed, VarsGo, KeyGoes, ScriptGoes, Resolving, Secrets, InPlan
<1> QED
  BY <1>1, Invariant, PTL

-------------------------------------------------------------------------------
(* The runs and their scripts, for the types.                              *)

\* A run at l, with the stages s left, that has elevated scripts or is still to
\* clean up the host.
OnHost(l, s) ==
  l \in {"bootstrap", "bootstrapping", "cleanup", "restoring"} \/ InPlan("cleanup", s)

\* Steps of the resolution that work on the configured ref.
RefSteps == {"updateRef", "pullRef", "checkout"}

\* The run goes on, on the same kind of target.
Travels(p) ==
  /\ at'[p] \notin {"idle", "over"}
  /\ at'[p] \in RefSteps => at'[p] = at[p] \/ ResolveStep(p)
  /\ job'[p].use \in Caches
  /\ OnHost(at'[p], job'[p].plan) => OnHost(at[p], job[p].plan)

\* What holds of a process that is at work.
OnWay(p) == Here(p) /\ job[p].use \in Caches

LEMMA ContinueTravels ==
  ASSUME NEW p \in Procs, Types, NEW j, NEW err, Continue(p, j, err), Run(j), j.use \in Caches,
         InPlan("cleanup", j.plan) => OnHost(at[p], job[p].plan)
  PROVE  Travels(p)
<1> DEFINE s == j.plan
           n == IF s = <<>> THEN <<>> ELSE Tail(s)
           l == IF s = <<>> THEN "done" ELSE Head(s)
           k == [j EXCEPT !.plan = IF @ = <<>> THEN <<>> ELSE Tail(@), !.ok = @ /\ ~err]
<1>1. at'[p] = l /\ job'[p] = k
  BY DEF Continue, Types
<1>2. k.plan = n /\ k.use = j.use
  BY DEF Run
<1> HIDE DEF k
<1>3. CASE s = <<>>
  BY <1>1, <1>2, <1>3 DEF Travels, OnHost, InPlan, RefSteps
<1>4. CASE s # <<>>
  <2>1. s \in Seq(Names) /\ Head(s) = s[1] /\ 1 \in DOMAIN s /\ Len(s) \in DOMAIN s /\ Head(s) \in Names
    BY <1>4 DEF Run, Sound
  <2>2. Head(s) \in {"bootstrap", "cleanup"} => InPlan("cleanup", s)
    BY <2>1 DEF Run, Sound, InPlan
  <2>3. InPlan("cleanup", Tail(s)) => InPlan("cleanup", s)
    <3> SUFFICES ASSUME NEW i \in DOMAIN Tail(s), Tail(s)[i] = "cleanup"
                 PROVE  InPlan("cleanup", s)
      BY DEF InPlan
    <3>1. i + 1 \in DOMAIN s /\ s[i + 1] = "cleanup"
      BY <1>4, <2>1
    <3> QED
      BY <3>1 DEF InPlan
  <2>4. Head(s) \notin {"idle", "over", "bootstrapping", "restoring"} \cup RefSteps
    BY <2>1 DEF Names, RefSteps
  <2> QED
    BY <1>1, <1>2, <1>4, <2>2, <2>3, <2>4 DEF Travels, OnHost
<1> QED
  BY <1>3, <1>4

LEMMA FailTravels ==
  ASSUME NEW p \in Procs, OnWay(p), NEW j, FailWith(p, j), Run(j), j.use \in Caches,
         j.plan = job[p].plan
  PROVE  Travels(p)
<1> DEFINE s == IF at[p] \notin {"port", "key", "state"} /\ InPlan("cleanup", j.plan)
                THEN <<"cleanup">> ELSE <<>>
           k == [j EXCEPT !.plan = s]
<1>1. Continue(p, k, TRUE)
  BY DEF FailWith
<1>2. DOMAIN k = DOMAIN j /\ k.plan = s /\ k.use = j.use
  BY DEF Run
<1> HIDE DEF k
<1>3. Run(k)
  BY <1>2, EndIsSound DEF Run
<1>4. InPlan("cleanup", s) => OnHost(at[p], job[p].plan)
  BY DEF InPlan, OnHost
<1> QED
  BY <1>1, <1>2, <1>3, <1>4, ContinueTravels DEF OnWay, Here

LEMMA OnWayIs ==
  ASSUME NEW p, OnWay(p)
  PROVE  /\ Types /\ Run(job[p]) /\ job[p].use \in Caches
         /\ \A fs : /\ Run(Keeps(job[p], fs)) /\ Keeps(job[p], fs).use \in Caches
                    /\ Keeps(job[p], fs).plan = job[p].plan
BY KeepsIs DEF OnWay, Here, Safe

\* The next stage, after one that has failed or not, and what was kept.
LEMMA OnTravels ==
  ASSUME NEW p \in Procs, OnWay(p), NEW j, NEW err, Continue(p, j, err) \/ FailWith(p, j),
         j = job[p] \/ \E fs : j = Keeps(job[p], fs)
  PROVE  Travels(p)
<1>1. Types /\ Run(j) /\ j.use \in Caches /\ j.plan = job[p].plan
  BY OnWayIs
<1> QED
  BY <1>1, ContinueTravels, FailTravels DEF OnHost

\* A step within a stage.
LEMMA WithinTravels ==
  ASSUME NEW p \in Procs, NEW l, at'[p] = l, job'[p].use \in Caches, job'[p].plan = job[p].plan,
         l \notin {"idle", "over", "bootstrap", "bootstrapping", "cleanup", "restoring"},
         l \in RefSteps => ResolveStep(p)
  PROVE  Travels(p)
BY DEF Travels, OnHost

LEMMA GotoTravels ==
  ASSUME NEW p \in Procs, OnWay(p), NEW l, Goto(p, l),
         l \notin {"idle", "over", "bootstrap", "bootstrapping", "cleanup", "restoring"} \cup RefSteps
  PROVE  Travels(p)
BY OnWayIs, WithinTravels DEF Goto, Types

LEMMA StagesTravel ==
  ASSUME NEW p \in Procs, OnWay(p),
         \/ EnsureRunning(p) \/ ResolveSettings(p) \/ AskWinrm(p) \/ AskSsh(p) \/ AskLibvirt(p)
         \/ AskArp(p) \/ AskTart(p) \/ WaitForSSH(p) \/ LoadConfig(p) \/ FindSshpass(p)
         \/ SelectPort(p) \/ Reach(p) \/ Preflight(p)
         \/ BuildArgs(p) \/ ArgsBuilt(p) \/ RemoveVars(p) \/ AnsibleStep(p)
         \/ CreateKey(p) \/ CreateState(p) \/ Tidy(p)
  PROVE  Travels(p)
<1>1. ASSUME Succeed(p) \/ Fail(p)
      PROVE  Travels(p)
  BY <1>1, OnTravels DEF Succeed, Fail
<1>2. ASSUME NEW possible, Check(p, possible)
      PROVE  Travels(p)
  BY <1>1, <1>2 DEF Check
<1>3. CASE \/ EnsureRunning(p) \/ ResolveSettings(p) \/ AskWinrm(p) \/ AskSsh(p) \/ AskLibvirt(p)
           \/ AskArp(p) \/ AskTart(p) \/ WaitForSSH(p) \/ LoadConfig(p) \/ FindSshpass(p)
           \/ SelectPort(p) \/ Reach(p) \/ Preflight(p)
  BY <1>2, <1>3
  DEF EnsureRunning, ResolveSettings, AskWinrm, AskSsh, AskLibvirt, AskArp, AskTart, WaitForSSH,
      LoadConfig, FindSshpass, SelectPort, Reach, Preflight
<1>4. CASE BuildArgs(p)
  <2>1. ASSUME at' = [at EXCEPT ![p] = "playbook"], job' = [job EXCEPT ![p].use = "playbooks"]
        PROVE  Travels(p)
    <3>1. /\ at'[p] = "playbook" /\ job'[p].use = "playbooks" /\ job'[p].plan = job[p].plan
      BY <2>1, OnWayIs DEF Types, Run
    <3> QED
      BY <3>1, WithinTravels DEF Caches, RefSteps
  <2> QED
    BY <1>1, <1>4, <2>1, OnTravels DEF BuildArgs
<1>5. CASE ArgsBuilt(p)
  BY <1>1, <1>5, OnTravels DEF ArgsBuilt
<1>6. CASE RemoveVars(p)
  BY <1>1, <1>6, OnTravels DEF RemoveVars
<1>7. CASE AnsibleStep(p)
  <2>1. CASE PrepareAnsible(p)
    <3>1. /\ at'[p] = "roles" /\ job'[p].use = "roles" /\ job'[p].plan = job[p].plan
      BY <2>1, OnWayIs DEF PrepareAnsible, Types, Run
    <3> QED
      BY <3>1, WithinTravels DEF Caches, RefSteps
  <2>2. ASSUME NEW err, AnsibleOver(p, err)
        PROVE  Travels(p)
    BY <2>2, OnTravels DEF AnsibleOver
  <2>3. ASSUME NEW l \in {"start", "play", "drain"}, Goto(p, l)
        PROVE  Travels(p)
    BY <2>3, GotoTravels DEF RefSteps
  <2> QED
    BY <1>7, <2>1, <2>2, <2>3
    DEF AnsibleStep, RolesResolved, StartAnsible, AnsibleEnds, AnsibleTimesOut, OutputEnds
<1>8. CASE CreateKey(p) \/ CreateState(p)
  BY <1>1, <1>8, OnTravels DEF CreateKey, CreateState
<1>9. CASE Tidy(p)
  <2>1. PICK kept : Continue(p, Keeps(job[p], kept), kept # {} \/ ~job[p].clean)
    BY <1>9 DEF Tidy
  <2> QED
    BY <2>1, OnTravels
<1> QED
  BY <1>3, <1>4, <1>5, <1>6, <1>7, <1>8, <1>9

LEMMA ResolveTravels ==
  ASSUME NEW p \in Procs, OnWay(p), ResolveStep(p)
  PROVE  Travels(p)
<1>1. Types /\ Run(job[p]) /\ job[p].use \in Caches
  BY OnWayIs
<1>2. PICK l \in Resolving, c \in Caches :
        /\ at' = [at EXCEPT ![p] = l]
        /\ job' \in {job, [job EXCEPT ![p].used = @ \cup {c}], [job EXCEPT ![p].missed = TRUE]}
  BY <1>1, ResolveStays
<1>3. at'[p] = l /\ job'[p].use = job[p].use /\ job'[p].plan = job[p].plan
  BY <1>1, <1>2 DEF Types, Run
<1> QED
  BY <1>1, <1>3, WithinTravels DEF Resolving

LEMMA WaitTravels ==
  ASSUME NEW p \in Procs, OnWay(p), NEW k \in Kinds, Launch(p, k) \/ ScriptOver(p, k) \/ Timeout(p, k)
  PROVE  Travels(p)
<1>0. Types /\ Run(job[p]) /\ job[p].use \in Caches
  BY OnWayIs
<1>1. OnHost(at[p], job[p].plan)
  BY WaitsAre DEF Kinds, OnHost, Launch, ScriptOver, Timeout
<1>2. CASE Launch(p, k)
  <2>1. PICK b : job' = [job EXCEPT ![p].threw = b]
    BY <1>2 DEF Launch
  <2>2. at'[p] = Waits[k] /\ job'[p].use = job[p].use
    BY <1>0, <1>2, <2>1 DEF Launch, Types, Run
  <2> QED
    BY <1>0, <1>1, <2>2, WaitsAre DEF Travels, RefSteps
<1>3. ASSUME NEW j, NEW good, Result(p, k, j, good), Run(j), j.use \in Caches, j.plan = job[p].plan
      PROVE  Travels(p)
  <2>1. CASE k = "cleanup"
    <3>1. at'[p] = "tidy" /\ job'[p].use = j.use /\ job'[p].plan = j.plan
      BY <1>0, <1>3, <2>1 DEF Result, Types, Run
    <3> QED
      BY <1>3, <3>1, WithinTravels DEF RefSteps
  <2>2. CASE k = "bootstrap" /\ good
    <3> DEFINE i == [j EXCEPT !.booted = TRUE]
    <3>1. Continue(p, i, FALSE)
      BY <1>3, <2>2 DEF Result
    <3>2. Run(i) /\ i.plan = j.plan /\ i.use = j.use
      BY <1>3 DEF Run
    <3> HIDE DEF i
    <3> QED
      BY <1>0, <1>1, <1>3, <3>1, <3>2, ContinueTravels
  <2>3. CASE k = "bootstrap" /\ ~good
    BY <1>3, <2>3, FailTravels DEF Result
  <2> QED
    BY <2>1, <2>2, <2>3 DEF Kinds
<1>4. CASE ScriptOver(p, k)
  BY <1>3, <1>4, OnWayIs DEF ScriptOver
<1>5. CASE Timeout(p, k)
  <2>1. CASE job' = [job EXCEPT ![p].threw = TRUE] /\ UNCHANGED <<at, files>>
    <3>1. at'[p] = at[p] /\ job'[p].use = job[p].use
      BY <1>0, <2>1 DEF Types, Run
    <3> QED
      BY <1>0, <1>1, <3>1 DEF Travels, OnWay, Here
  <2>2. ASSUME NEW j \in {[job[p] EXCEPT !.astray = TRUE],
                          Keeps([job[p] EXCEPT !.astray = TRUE], {"script"})},
               Result(p, k, j, FALSE)
        PROVE  Travels(p)
    <3>1. Run(j) /\ j.use = job[p].use /\ j.plan = job[p].plan
      BY <1>0, <2>2 DEF Run, Keeps
    <3> QED
      BY <1>0, <1>3, <2>2, <3>1
  <2> QED
    BY <1>5, <2>1, <2>2 DEF Timeout
<1> QED
  BY <1>2, <1>4, <1>5

\* The job j of a process that is at l; it has one exactly while it works.
JobOk(l, j) ==
  IF l \in {"idle", "over"} THEN j = NoJob
  ELSE j.use \in Caches /\ (OnHost(l, j.plan) => scene.os = "windows")

RunsOk == \A q \in Procs : JobOk(at[q], job[q])

ScriptsOk ==
  /\ script = [q \in Procs |-> script[q]]
  /\ \A q \in Procs : Kinds \subseteq DOMAIN script[q]
  /\ \A q \in Procs : ~ScriptsOver(q) => scene.os = "windows"

\* The steps of p and of its scripts, but for the end of its run.
LEMMA WorkTravels ==
  ASSUME Inv, RunsOk, NEW p \in Procs, Work(p) \/ OutputEnds(p), ~Finish(p)
  PROVE  OnWay(p) /\ Travels(p)
<1>1. at[p] \notin {"idle", "over"}
  BY ResolveStays, WaitsAre
  DEF Inv, Work, OutputEnds, EnsureRunning, ResolveSettings, AskWinrm, AskSsh, AskLibvirt, AskArp,
      AskTart, WaitForSSH, LoadConfig, FindSshpass, BuildArgs, ArgsBuilt, PrepareAnsible,
      RolesResolved, StartAnsible, AnsibleEnds, AnsibleTimesOut, RemoveVars, SessionStep,
      SelectPort, CreateKey, CreateState, Launch, ScriptOver, Timeout, Tidy, Reach, Preflight,
      Resolution, Resolving, Kinds
<1>2. OnWay(p)
  BY <1>1 DEF Inv, RunsOk, JobOk, OnWay, Here
<1>3. ASSUME NEW k \in Kinds, Launch(p, k) \/ ScriptOver(p, k) \/ Timeout(p, k)
      PROVE  Travels(p)
  BY <1>2, <1>3, WaitTravels
<1>4. CASE ResolveStep(p)
  BY <1>2, <1>4, ResolveTravels
<1> QED
  BY <1>2, <1>3, <1>4, StagesTravel DEF Work, SessionStep, AnsibleStep

\* A script of p goes on.
LEMMA ScriptStepIs ==
  ASSUME NEW p \in Procs, Types, ScriptsOk, ScriptStep(p)
  PROVE  /\ ~ScriptsOver(p) /\ UNCHANGED at
         /\ UNCHANGED job \/ (at[p] \in {"bootstrapping", "restoring"} /\ job' = [job EXCEPT ![p].threw = TRUE])
         /\ \E r : script' = [script EXCEPT ![p] = r] /\ Kinds \subseteq DOMAIN r
<1> USE DEF ScriptsOk
<1>1. ASSUME NEW k \in Kinds, NEW s, Doing(p, k, s), script' = [script EXCEPT ![p][k] = s]
                \/ Onward(p, k) \/ script' = [script EXCEPT ![p][k] = <<"stop">>]
                \/ script' = [script EXCEPT ![p][k] = <<>>]
      PROVE  ~ScriptsOver(p) /\ \E r : script' = [script EXCEPT ![p] = r] /\ Kinds \subseteq DOMAIN r
  <2>1. ~ScriptsOver(p)
    BY <1>1 DEF Doing, ScriptsOver, Kinds
  <2>2. ASSUME NEW t
        PROVE  /\ Kinds \subseteq DOMAIN [script[p] EXCEPT ![k] = t]
               /\ [script EXCEPT ![p][k] = t] = [script EXCEPT ![p] = [script[p] EXCEPT ![k] = t]]
    OBVIOUS
  <2>3. PICK t : script' = [script EXCEPT ![p][k] = t]
    BY <1>1 DEF Onward
  <2> QED
    BY <2>1, <2>2, <2>3
<1>2. ASSUME NEW k \in Kinds, Throw(p, k)
      PROVE  /\ ~ScriptsOver(p)
             /\ \E r : script' = [script EXCEPT ![p] = r] /\ Kinds \subseteq DOMAIN r
             /\ UNCHANGED job \/ (at[p] \in {"bootstrapping", "restoring"} /\ job' = [job EXCEPT ![p].threw = TRUE])
  <2>1. ~ScriptsOver(p)
    BY <1>2 DEF Throw, ScriptsOver, Kinds
  <2>2. /\ Kinds \subseteq DOMAIN [script[p] EXCEPT ![k] = <<>>]
        /\ script' = [script EXCEPT ![p] = [script[p] EXCEPT ![k] = <<>>]]
    BY <1>2 DEF Throw
  <2>3. UNCHANGED job \/ (at[p] \in {"bootstrapping", "restoring"} /\ job' = [job EXCEPT ![p].threw = TRUE])
    BY <1>2, WaitsAre DEF Throw
  <2> QED
    BY <2>1, <2>2, <2>3
<1>3. "bootstrap" \in Kinds /\ "cleanup" \in Kinds
  BY DEF Kinds
<1>4. CASE Capture(p) \/ Install(p) \/ CreateListener(p)
  BY <1>1, <1>3, <1>4 DEF Capture, Install, CreateListener, run
<1>5. CASE Load(p)
  BY <1>1, <1>3, <1>5 DEF Load, run
<1>6. ASSUME NEW k \in Kinds, NEW s, Doing(p, k, s), NEW h, Sets(p, k, h)
      PROVE  /\ ~ScriptsOver(p) /\ UNCHANGED <<at, job>>
             /\ \E r : script' = [script EXCEPT ![p] = r] /\ Kinds \subseteq DOMAIN r
  BY <1>1, <1>6 DEF Sets, run
<1>7. CASE Enable(p) \/ Restart(p) \/ EnableWinRM(p)
  BY <1>3, <1>6, <1>7 DEF Enable, Restart, EnableWinRM
<1>8. CASE Reload(p) \/ RestoreSshd(p) \/ RestoreWinRM(p)
  BY <1>3, <1>6, <1>8 DEF Reload, RestoreSshd, RestoreWinRM
<1>9. ASSUME NEW s \in Settings, Configure(p, s) \/ Restore(p, s)
      PROVE  /\ ~ScriptsOver(p) /\ UNCHANGED <<at, job>>
             /\ \E r : script' = [script EXCEPT ![p] = r] /\ Kinds \subseteq DOMAIN r
  BY <1>3, <1>6, <1>9 DEF Configure, Restore
<1>10. ASSUME NEW k \in Kinds, Throw(p, k)
       PROVE  UNCHANGED at
  BY <1>10 DEF Throw
<1> QED
  BY <1>2, <1>4, <1>5, <1>7, <1>8, <1>9, <1>10
  DEF ScriptStep, Capture, Install, CreateListener, Load, run

\* Of a step of p alone: the other runs and their scripts stay as they are.
LEMMA RunsStayOk ==
  ASSUME Types, RunsOk, ScriptsOk, UNCHANGED scene, NEW p \in Procs,
         at' = [at EXCEPT ![p] = at'[p]], job' = [job EXCEPT ![p] = job'[p]],
         JobOk(at[p], job[p])',
         NEW r, script' = [script EXCEPT ![p] = r], Kinds \subseteq DOMAIN r,
         (r.bootstrap = <<>> /\ r.cleanup = <<>>) \/ scene.os = "windows"
  PROVE  RunsOk' /\ ScriptsOk'
<1>1. ASSUME NEW q \in Procs
      PROVE  JobOk(at[q], job[q])'
  <2>1. CASE q = p
    BY <2>1
  <2>2. CASE q # p
    BY <2>2 DEF Types, RunsOk, JobOk
  <2> QED
    BY <2>1, <2>2
<1>2. ASSUME NEW q \in Procs
      PROVE  Kinds \subseteq DOMAIN script'[q] /\ (~ScriptsOver(q)' => scene.os = "windows")
  <2>1. CASE q = p
    BY <2>1 DEF ScriptsOk, ScriptsOver
  <2>2. CASE q # p
    BY <2>2 DEF ScriptsOk, ScriptsOver
  <2> QED
    BY <2>1, <2>2
<1>3. script' = [q \in Procs |-> script'[q]]
  BY DEF ScriptsOk
<1> QED
  BY <1>1, <1>2, <1>3 DEF RunsOk, ScriptsOk


\* Only a Windows host provisions itself with a cleanup.
LEMMA CleanupIsLocal ==
  ASSUME NEW os, NEW plan \in Plans(os), InPlan("cleanup", plan)
  PROVE  os = "windows"
<1>1. ~InPlan("cleanup", UtmWindows11) /\ ~InPlan("cleanup", LinuxQemuWindows11)
  BY DEF InPlan, UtmWindows11, LinuxQemuWindows11, LinkedAnsible
<1>2. ~InPlan("cleanup", UtmUbuntu) /\ ~InPlan("cleanup", LinuxQemuUbuntu)
  BY DEF InPlan, UtmUbuntu, LinuxQemuUbuntu, LinkedAnsible
<1>3. ~InPlan("cleanup", TartMacOS) /\ ~InPlan("cleanup", LocalUnix)
  BY DEF InPlan, TartMacOS, LocalUnix, LinkedAnsible
<1> QED
  BY <1>1, <1>2, <1>3 DEF Plans

LEMMA BeginKeepsRuns ==
  ASSUME Inv, RunsOk, ScriptsOk, NEW p \in Procs, Begin(p)
  PROVE  RunsOk' /\ ScriptsOk'
<1> DEFINE made(plan, force) ==
        [plan |-> Tail(plan), ok |-> TRUE, kept |-> {},
         alone |-> \A q \in Procs \ {p} : ~Working(q) /\ ScriptsOver(q),
         use |-> "playbooks", used |-> {}, seen |-> origin, missed |-> FALSE,
         vm |-> InPlan("running", plan), ssh |-> InPlan("key", plan), force |-> force, threw |-> FALSE,
         booted |-> FALSE, clean |-> FALSE, astray |-> FALSE, was |-> host]
<1>1. PICK plan \in Plans(scene.os), force \in BOOLEAN :
        /\ at' = [at EXCEPT ![p] = Head(plan)]
        /\ job' = [q \in Procs |->
             IF q = p THEN made(plan, force)
             ELSE IF Working(q) THEN [job[q] EXCEPT !.alone = FALSE] ELSE job[q]]
  BY Zenon DEF Begin
<1>2. made(plan, force).plan = Tail(plan) /\ made(plan, force).use = "playbooks"
  OBVIOUS
<1> HIDE DEF made
<1>3. Types /\ at[p] = "idle" /\ UNCHANGED <<script, scene>>
  BY DEF Inv, Begin, world, session
<1>4. Sound(plan) /\ plan # <<>>
  BY PlansAreSound
<1>5. JobOk(at[p], job[p])'
  <2>1. at'[p] = Head(plan) /\ job'[p] = made(plan, force)
    BY <1>1, <1>3 DEF Types
  <2>2. plan \in Seq(Names) /\ Head(plan) = plan[1] /\ 1 \in DOMAIN plan /\ Len(plan) \in DOMAIN plan
        /\ Head(plan) \in Names
    BY <1>4 DEF Sound
  <2>3. ASSUME OnHost(Head(plan), Tail(plan))
        PROVE  InPlan("cleanup", plan)
    <3>1. CASE Head(plan) \in {"bootstrap", "cleanup"}
      BY <1>4, <2>2, <3>1 DEF Sound, InPlan
    <3>2. ASSUME NEW i \in DOMAIN Tail(plan), Tail(plan)[i] = "cleanup"
          PROVE  InPlan("cleanup", plan)
      <4>1. i + 1 \in DOMAIN plan /\ plan[i + 1] = "cleanup"
        BY <1>4, <2>2, <3>2
      <4> QED
        BY <4>1 DEF InPlan
    <3> QED
      BY <2>2, <2>3, <3>1, <3>2 DEF OnHost, InPlan, Names
  <2>4. OnHost(Head(plan), Tail(plan)) => scene.os = "windows"
    BY <2>3, CleanupIsLocal
  <2> QED
    BY <1>2, <1>3, <2>1, <2>2, <2>4 DEF JobOk, Names, Caches
<1>6. ASSUME NEW q \in Procs, q # p
      PROVE  JobOk(at[q], job[q])'
  <2>1. at'[q] = at[q] /\ JobOk(at[q], job[q])
    BY <1>1, <1>3, <1>6 DEF Types, RunsOk
  <2>2. CASE ~Working(q)
    BY <1>1, <1>6, <2>1, <2>2 DEF JobOk, Working
  <2>3. CASE Working(q)
    <3>1. job'[q] = [job[q] EXCEPT !.alone = FALSE] /\ Run(job[q])
      BY <1>1, <1>6, <2>3 DEF Inv, Safe, Working
    <3>2. job'[q].use = job[q].use /\ job'[q].plan = job[q].plan
      BY <3>1 DEF Run
    <3> QED
      BY <1>3, <2>1, <2>3, <3>2 DEF JobOk, Working
  <2> QED
    BY <2>2, <2>3
<1>7. RunsOk'
  BY <1>5, <1>6 DEF RunsOk
<1> QED
  BY <1>3, <1>7 DEF ScriptsOk, ScriptsOver

\* A run ends, or dies.
LEMMA EndKeepsRuns ==
  ASSUME Types, RunsOk, ScriptsOk, NEW p \in Procs, Finish(p) \/ Die(p)
  PROVE  RunsOk' /\ ScriptsOk'
<1>1. /\ at' = [at EXCEPT ![p] = "over"] /\ job' = [job EXCEPT ![p] = NoJob]
      /\ UNCHANGED <<script, scene>>
  BY DEF Finish, Die, world, session
<1>2. at'[p] = "over" /\ job'[p] = NoJob
  BY <1>1 DEF Types
<1>3. ASSUME NEW q \in Procs
      PROVE  JobOk(at[q], job[q])'
  <2>1. CASE q = p
    BY <1>2, <2>1 DEF JobOk
  <2>2. CASE q # p
    BY <1>1, <2>2 DEF Types, RunsOk, JobOk
  <2> QED
    BY <2>1, <2>2
<1> QED
  BY <1>1, <1>3 DEF RunsOk, ScriptsOk, ScriptsOver

\* Only a launch changes the scripts of a run.
LEMMA WorkLeavesScripts ==
  ASSUME NEW p \in Procs, Work(p) \/ OutputEnds(p)
  PROVE  UNCHANGED script \/ \E k \in Kinds : Launch(p, k)
BY DEF Work, OutputEnds, Finish, EnsureRunning, ResolveSettings, AskWinrm, AskSsh, AskLibvirt,
       AskArp, AskTart, WaitForSSH, LoadConfig, FindSshpass, BuildArgs, ArgsBuilt, PrepareAnsible,
       RolesResolved, StartAnsible, AnsibleEnds, AnsibleTimesOut, AnsibleOver, SessionStep,
       SelectPort, CreateKey, CreateState, ScriptOver, Timeout, Tidy, Reach, Preflight, world, session

LEMMA WorkKeepsRuns ==
  ASSUME Inv, RunsOk, ScriptsOk, NEW p \in Procs, Work(p) \/ OutputEnds(p)
  PROVE  RunsOk' /\ ScriptsOk'
<1>1. CASE Finish(p)
  BY <1>1, EndKeepsRuns DEF Inv
<1>2. CASE ~Finish(p)
  <2>1. OnWay(p) /\ Travels(p) /\ Moves(p)
    BY <1>2, WorkTravels, WorkMoves
  <2>2. UNCHANGED scene
    BY DEF Work, OutputEnds, Finish, EnsureRunning, ResolveSettings, AskWinrm, AskSsh, AskLibvirt,
           AskArp, AskTart, WaitForSSH, LoadConfig, FindSshpass, BuildArgs, ArgsBuilt, PrepareAnsible,
           RolesResolved, StartAnsible, AnsibleEnds, AnsibleTimesOut, AnsibleOver, world
  <2>3. JobOk(at[p], job[p])'
    BY <2>1, <2>2 DEF Travels, OnWay, Here, RunsOk, JobOk
  <2>4. PICK r : /\ script' = [script EXCEPT ![p] = r] /\ Kinds \subseteq DOMAIN r
                 /\ (r.bootstrap = <<>> /\ r.cleanup = <<>>) \/ scene.os = "windows"
    <3>1. CASE UNCHANGED script
      <4>1. /\ script' = [script EXCEPT ![p] = script[p]] /\ Kinds \subseteq DOMAIN script[p]
            /\ (script[p].bootstrap = <<>> /\ script[p].cleanup = <<>>) \/ scene.os = "windows"
        BY <3>1 DEF ScriptsOk, ScriptsOver
      <4> QED
        BY <4>1
    <3>2. ASSUME NEW k \in Kinds, Launch(p, k)
          PROVE  \E r : /\ script' = [script EXCEPT ![p] = r] /\ Kinds \subseteq DOMAIN r
                        /\ (r.bootstrap = <<>> /\ r.cleanup = <<>>) \/ scene.os = "windows"
      <4>1. scene.os = "windows"
        BY <2>1, <3>2 DEF Launch, Kinds, OnWay, Here, RunsOk, JobOk, OnHost
      <4>2. PICK s : script' = [script EXCEPT ![p][k] = s, ![p].force = job[p].force]
        BY <3>2 DEF Launch
      <4> DEFINE r == [script[p] EXCEPT ![k] = s, !["force"] = job[p].force]
      <4>3. script' = [script EXCEPT ![p] = r] /\ Kinds \subseteq DOMAIN r
        BY <4>2 DEF ScriptsOk
      <4> HIDE DEF r
      <4> QED
        BY <4>1, <4>3
    <3> QED
      BY <3>1, <3>2, WorkLeavesScripts
  <2> QED
    BY <2>1, <2>2, <2>3, <2>4, RunsStayOk DEF Inv, Moves
<1> QED
  BY <1>1, <1>2

LEMMA ScriptKeepsRuns ==
  ASSUME Inv, RunsOk, ScriptsOk, NEW p \in Procs, RunScript(p)
  PROVE  RunsOk' /\ ScriptsOk'
<1>1. Types /\ ScriptStep(p) /\ UNCHANGED scene
  BY DEF Inv, RunScript
<1>2. /\ ~ScriptsOver(p) /\ UNCHANGED at
      /\ UNCHANGED job \/ (at[p] \in {"bootstrapping", "restoring"} /\ job' = [job EXCEPT ![p].threw = TRUE])
  BY <1>1, ScriptStepIs
<1>3. PICK r : script' = [script EXCEPT ![p] = r] /\ Kinds \subseteq DOMAIN r
  BY <1>1, ScriptStepIs
<1>4. JobOk(at[p], job[p])'
  <2>1. CASE UNCHANGED job
    BY <1>1, <1>2, <2>1 DEF RunsOk, JobOk
  <2>2. CASE at[p] \in {"bootstrapping", "restoring"} /\ job' = [job EXCEPT ![p].threw = TRUE]
    <3>1. Run(job[p]) /\ JobOk(at[p], job[p])
      BY <2>2 DEF Inv, Safe, RunsOk
    <3>2. job'[p].use = job[p].use /\ job'[p].plan = job[p].plan
      BY <1>1, <2>2, <3>1 DEF Types, Run
    <3> QED
      BY <1>1, <1>2, <2>2, <3>1, <3>2 DEF JobOk
  <2> QED
    BY <1>2, <2>1, <2>2
<1>5. at' = [at EXCEPT ![p] = at'[p]] /\ job' = [job EXCEPT ![p] = job'[p]]
  BY <1>1, <1>2 DEF Types
<1>6. scene.os = "windows"
  BY <1>2 DEF ScriptsOk
<1> QED
  BY <1>1, <1>3, <1>4, <1>5, <1>6, RunsStayOk

LEMMA StepKeepsRuns ==
  ASSUME Inv, RunsOk, ScriptsOk, [Next]_vars
  PROVE  RunsOk' /\ ScriptsOk'
<1>1. CASE UNCHANGED <<run, script, scene>>
  BY <1>1 DEF run, RunsOk, ScriptsOk, JobOk, ScriptsOver
<1>2. ASSUME GuestChanges \/ SourcesChange
      PROVE  UNCHANGED <<run, script, scene>>
  BY <1>2 DEF GuestChanges, SourcesChange, Push, DeleteBranch, Reconfigure, session
<1>3. CASE UNCHANGED vars
  BY <1>1, <1>3 DEF vars, session
<1>4. ASSUME NEW p \in Procs, Die(p)
      PROVE  RunsOk' /\ ScriptsOk'
  BY <1>4, EndKeepsRuns DEF Inv
<1> QED
  BY <1>1, <1>2, <1>3, <1>4, BeginKeepsRuns, WorkKeepsRuns, ScriptKeepsRuns DEF Next

-------------------------------------------------------------------------------
(* The sources of roles and playbooks.                                     *)

SourceTypes ==
  /\ origin \in [Branches -> 0..MaxRev]
  /\ conf \in Confs
  /\ cache \in [Caches -> Checkouts]

\* Only a run with a ref works on it.
RefOk(l) == l \in RefSteps => conf.ref \in Branches \cup {"v1"} /\ (l = "pullRef" => conf.ref \in Branches)

Revisions == [Branches -> 0..MaxRev]

LEMMA NoRevision == NoBranch \in Revisions /\ NoCheckout \in Checkouts
<1>1. NoBranch \in Revisions
  BY MaxRevAssumption DEF NoBranch, Revisions
<1> QED
  BY <1>1 DEF NoCheckout, Checkouts, Revisions, Branches

LEMMA GitTypes ==
  ASSUME SourceTypes, NEW k \in Checkouts
  PROVE  /\ Cloned(k) \in Checkouts
         /\ Fetched(k) \in Checkouts
         /\ \A r \in Branches : Reset(k, r) \in Checkouts
         /\ \A r \in Branches \cup {"v1"} : CheckedOut(k, r) \subseteq Checkouts
         /\ \A b \in Branches \cup {"v1"} : Pulled(k, b) \subseteq Checkouts
<1>1. origin \in Revisions
  BY DEF SourceTypes, Revisions
<1>2. k.local \in Revisions /\ k.remote \in Revisions
  BY DEF Checkouts, Revisions
<1>3. Cloned(k) \in Checkouts
  <2>1. [NoBranch EXCEPT !["main"] = origin["main"]] \in Revisions
    BY <1>1, NoRevision DEF Revisions, Branches
  <2> QED
    BY <1>1, <2>1 DEF Cloned, Checkouts, Revisions, Branches
<1>4. Fetched(k) \in Checkouts
  BY <1>1 DEF Fetched, Checkouts, Revisions
<1>5. ASSUME NEW r \in Branches
      PROVE  Reset(k, r) \in Checkouts
  <2>1. [k.local EXCEPT ![r] = k.remote[r]] \in Revisions
    BY <1>2 DEF Revisions
  <2> QED
    BY <2>1 DEF Reset, Checkouts, Revisions
<1>6. ASSUME NEW r \in Branches \cup {"v1"}
      PROVE  CheckedOut(k, r) \subseteq Checkouts
  <2>1. [k EXCEPT !.head = r, !.whole = TRUE, !.dir = "repo"] \in Checkouts
    BY DEF Checkouts
  <2> QED
    BY <1>5, <2>1 DEF CheckedOut
<1>7. ASSUME NEW b \in Branches
      PROVE  [k EXCEPT !.local[b] = origin[b], !.remote[b] = origin[b]] \in Checkouts
  <2>1. [k.local EXCEPT ![b] = origin[b]] \in Revisions /\ [k.remote EXCEPT ![b] = origin[b]] \in Revisions
    BY <1>1, <1>2 DEF Revisions
  <2> QED
    BY <2>1 DEF Checkouts, Revisions
<1>8. ASSUME NEW b \in Branches \cup {"v1"}
      PROVE  Pulled(k, b) \subseteq Checkouts
  BY <1>7 DEF Pulled
<1> QED
  BY <1>3, <1>4, <1>5, <1>6, <1>8

\* A step of the resolution leaves whole records in the caches.
LEMMA ResolveTypes ==
  ASSUME SourceTypes, NEW p \in Procs, job[p].use \in Caches, RefOk(at[p]), ResolveStep(p)
  PROVE  SourceTypes'
<1>1. It(p) \in Checkouts /\ It(p).head \in Branches \cup {"v1"}
  BY DEF SourceTypes, It, Checkouts
<1>3. ASSUME NEW k \in Checkouts, NEW l, Becomes(p, k, l)
      PROVE  SourceTypes'
  BY <1>3 DEF SourceTypes, Becomes
<1>4. ASSUME UNCHANGED sources
      PROVE  SourceTypes'
  BY <1>4 DEF SourceTypes, sources
<1>5. ASSUME NEW ks \in SUBSET Checkouts, NEW l, Git(p, ks, l)
      PROVE  SourceTypes'
  BY <1>3, <1>4, <1>5 DEF Git, Step
<1>6. CASE ResolvePlaybook(p) \/ ResolveRoles(p) \/ LookAtCheckout(p) \/ FindSubdirectory(p)
  BY <1>4, <1>6 DEF ResolvePlaybook, ResolveRoles, LookAtCheckout, FindSubdirectory, Step
<1>7. CASE Clone(p)
  <2>1. [NoCheckout EXCEPT !.dir = "partial", !.by = p] \in Checkouts
    BY NoRevision DEF Checkouts
  <2> QED
    BY <1>3, <1>4, <1>7, <2>1 DEF Clone, Step
<1>8. CASE CloneEnds(p)
  BY <1>1, <1>3, <1>4, <1>8, GitTypes DEF CloneEnds, Step
<1>9. CASE DiscardClone(p)
  <2>1. [It(p) EXCEPT !.cut = It(p).dir # "none", !.by = 0] \in Checkouts
    BY <1>1 DEF Checkouts
  <2> QED
    BY <1>3, <1>9, <2>1, NoRevision DEF DiscardClone
<1>10. CASE Fetch(p)
  BY <1>1, <1>5, <1>10, GitTypes DEF Fetch
<1>11. CASE UpdateRef(p)
  <2>1. ASSUME conf.ref \in Branches,
               Git(p, CheckedOut(It(p), conf.ref) \cup {Reset(It(p), conf.ref)}, "pullRef")
        PROVE  SourceTypes'
    BY <1>1, <1>5, <2>1, GitTypes
  <2> QED
    BY <1>4, <1>11, <2>1 DEF UpdateRef, Step
<1>12. CASE Pull(p)
  BY <1>1, <1>5, <1>12, GitTypes DEF Pull
<1>13. CASE PullRef(p) \/ CheckoutRef(p)
  <2>1. /\ CheckoutRef(p) => CheckedOut(It(p), conf.ref) \subseteq Checkouts
        /\ PullRef(p) => Pulled(It(p), conf.ref) \subseteq Checkouts
    BY <1>1, GitTypes DEF RefOk, CheckoutRef, PullRef, RefSteps
  <2> QED
    BY <1>5, <1>13, <2>1 DEF PullRef, CheckoutRef
<1> QED
  BY <1>6, <1>7, <1>8, <1>9, <1>10, <1>11, <1>12, <1>13 DEF ResolveStep


RefsOk == \A q \in Procs : RefOk(at[q])

\* A step of the resolution goes to the ref only where there is one.
LEMMA ResolveRef ==
  ASSUME Types, SourceTypes, RefsOk, NEW p \in Procs, ResolveStep(p)
  PROVE  RefOk(at[p])'
<1>1. UNCHANGED conf
  BY DEF ResolveStep, ResolvePlaybook, ResolveRoles, LookAtCheckout, Clone, CloneEnds, DiscardClone,
         Fetch, UpdateRef, PullRef, Pull, CheckoutRef, FindSubdirectory, Git, Becomes, Step, sources
<1>2. conf.ref \in Branches \cup {"v1"} \/ conf.ref = "none"
  BY DEF SourceTypes, Confs, Refs, Branches
<1>3. ASSUME NEW l, at'[p] = l, RefOk(l)
      PROVE  RefOk(at[p])'
  BY <1>1, <1>3 DEF RefOk
<1>4. ASSUME NEW l, Step(p, l), RefOk(l)
      PROVE  RefOk(at[p])'
  BY <1>3, <1>4 DEF Step, Goto, Types
<1>5. ASSUME NEW k, NEW l, Becomes(p, k, l), RefOk(l)
      PROVE  RefOk(at[p])'
  BY <1>3, <1>5 DEF Becomes, Goto, Types
<1>6. RefOk("unresolved")
  BY DEF RefOk, RefSteps
<1>7. ASSUME NEW ks, NEW l, Git(p, ks, l), RefOk(l)
      PROVE  RefOk(at[p])'
  BY <1>4, <1>5, <1>6, <1>7 DEF Git
<1>8. CASE ResolvePlaybook(p) \/ ResolveRoles(p)
  <2>1. at'[p] \in {"resolved", "unresolved", "look"}
    BY <1>8 DEF ResolvePlaybook, ResolveRoles, Goto, Types
  <2> QED
    BY <1>3, <2>1 DEF RefOk, RefSteps
<1>9. CASE LookAtCheckout(p)
  <2>1. RefOk("clone") /\ RefOk(UpdateOrNot)
    BY <1>2 DEF RefOk, RefSteps, UpdateOrNot
  <2> QED
    BY <1>4, <1>6, <1>9, <2>1 DEF LookAtCheckout
<1>10. CASE Clone(p)
  BY <1>4, <1>5, <1>10 DEF Clone, RefOk, RefSteps
<1>11. CASE CloneEnds(p)
  <2>1. RefOk("discard") /\ RefOk(IF conf.ref = "none" THEN "subdirectory" ELSE "checkout")
    BY <1>2 DEF RefOk, RefSteps
  <2> QED
    BY <1>4, <1>5, <1>11, <2>1 DEF CloneEnds
<1>12. CASE DiscardClone(p)
  BY <1>5, <1>6, <1>12 DEF DiscardClone
<1>13. CASE Fetch(p)
  <2>1. RefOk(IF conf.ref = "none" THEN "pull" ELSE "updateRef")
    BY <1>2 DEF RefOk, RefSteps
  <2> QED
    BY <1>7, <1>13, <2>1 DEF Fetch
<1>14. CASE UpdateRef(p)
  <2>1. RefOk("checkout")
    BY <1>14 DEF RefsOk, RefOk, RefSteps, UpdateRef
  <2>2. conf.ref \in Branches => RefOk("pullRef")
    BY DEF RefOk, RefSteps
  <2>3. CASE at' = [at EXCEPT ![p] = "checkout"]
    BY <1>3, <2>1, <2>3 DEF Types
  <2> QED
    BY <1>4, <1>7, <1>14, <2>1, <2>2, <2>3 DEF UpdateRef
<1>15. CASE PullRef(p) \/ Pull(p) \/ CheckoutRef(p) \/ FindSubdirectory(p)
  <2>1. RefOk("subdirectory") /\ RefOk("resolved")
    BY DEF RefOk, RefSteps
  <2> QED
    BY <1>4, <1>6, <1>7, <1>15, <2>1 DEF PullRef, Pull, CheckoutRef, FindSubdirectory
<1> QED
  BY <1>8, <1>9, <1>10, <1>11, <1>12, <1>13, <1>14, <1>15 DEF ResolveStep

\* What a process that dies leaves of its clone.
LEMMA DieTypes ==
  ASSUME SourceTypes, NEW p \in Procs, job[p].use \in Caches, Die(p)
  PROVE  SourceTypes'
<1>1. It(p) \in Checkouts
  BY DEF SourceTypes, It
<1>2. ASSUME NEW k \in {It(p), [Cloned(It(p)) EXCEPT !.dir = "partial", !.whole = FALSE]}
      PROVE  [k EXCEPT !.cut = TRUE, !.by = 0] \in Checkouts /\ Cloned(k) \in Checkouts
  <2>1. [Cloned(It(p)) EXCEPT !.dir = "partial", !.whole = FALSE] \in Checkouts
    <3>1. Cloned(It(p)) \in Checkouts
      BY <1>1, GitTypes
    <3> QED
      BY <3>1 DEF Checkouts
  <2>2. k \in Checkouts
    BY <1>1, <2>1
  <2> QED
    BY <2>2, GitTypes DEF Checkouts
<1>3. UNCHANGED <<origin, conf>> /\ LeaveClone(p)
  BY DEF Die
<1>4. UNCHANGED cache \/ \E k \in Checkouts : cache' = [cache EXCEPT ![job[p].use] = k]
  BY <1>2, <1>3 DEF LeaveClone
<1> QED
  BY <1>3, <1>4 DEF SourceTypes

\* Origin and the user change the sources.
LEMMA ChangeTypes ==
  ASSUME SourceTypes, RefsOk, SourcesChange
  PROVE  SourceTypes' /\ RefsOk'
<1>1. UNCHANGED <<at, cache>>
  BY DEF SourcesChange, Push, DeleteBranch, Reconfigure, run
<1>2. ASSUME NEW b \in Branches, Push(b)
      PROVE  origin' \in Revisions
  <2>1. origin[b] + 1 \in 0..MaxRev
    BY <1>2, MaxRevAssumption DEF SourceTypes, Push
  <2> QED
    BY <1>2, <2>1 DEF SourceTypes, Push, Revisions
<1>3. CASE \E b \in Branches : Push(b)
  <2>1. UNCHANGED conf
    BY <1>3 DEF Push
  <2> QED
    BY <1>1, <1>2, <1>3, <2>1 DEF SourceTypes, Revisions, RefsOk, RefOk
<1>4. CASE DeleteBranch
  <2>1. UNCHANGED conf /\ origin' \in Revisions
    <3>1. 0 \in 0..MaxRev
      BY MaxRevAssumption
    <3> QED
      BY <1>4, <3>1 DEF DeleteBranch, SourceTypes, Revisions
  <2> QED
    BY <1>1, <2>1 DEF SourceTypes, Revisions, RefsOk, RefOk
<1>5. CASE Reconfigure
  <2>1. conf' \in Confs /\ UNCHANGED origin
    BY <1>5 DEF Reconfigure, SourceTypes, Confs
  <2>2. \A q \in Procs : at[q] \notin RefSteps
    BY <1>5 DEF Reconfigure, RefSteps
  <2> QED
    BY <1>1, <2>1, <2>2 DEF SourceTypes, RefsOk, RefOk
<1> QED
  BY <1>3, <1>4, <1>5 DEF SourcesChange


-------------------------------------------------------------------------------
(* The Windows host, and the rest of the world.                            *)

SessionTypes ==
  /\ elevated \in BOOLEAN /\ host \in HostStates /\ saved \in [Procs -> States]
  /\ \A q \in Procs : Managed(saved[q])

WorldTypes == scene \in Scenes /\ guest \in {"off", "on"} /\ changes \in 0..scene.changes

LEMMA EmptyIsState == Empty \in States /\ Empty.was \in HostStates /\ Managed(Empty)
<1>1. HostWith("absent", "missing", "absent", "off") \in HostStates
  BY DEF HostWith, HostStates, Values
<1>2. Empty.was = HostWith("absent", "missing", "absent", "off") /\ DOMAIN Empty = {"taken", "managed", "created", "was"}
      /\ ~Empty.taken /\ ~Empty.managed /\ ~Empty.created
  BY DEF Empty
<1> QED
  BY <1>1, <1>2 DEF Empty, States, Managed

\* What the bootstrap finds of a host.
LEMMA FoundIs ==
  ASSUME NEW h \in HostStates
  PROVE  /\ Found(h) \in HostStates
         /\ Found(h).capability = h.capability /\ Found(h).sshd = h.sshd
         /\ Found(h).loaded = h.loaded /\ Found(h).winrm = h.winrm
         /\ \A s \in Settings : Found(h).set[s] = IF s \in Wsman /\ h.winrm # "on" THEN "absent" ELSE h.set[s]
<1> DEFINE g == [s \in Settings |-> IF s \in Wsman THEN "absent" ELSE h.set[s]]
<1>1. g \in [Settings -> Values]
  BY DEF HostStates, Values
<1>2. \A s \in Settings : g[s] = IF s \in Wsman THEN "absent" ELSE h.set[s]
  OBVIOUS
<1> HIDE DEF g
<1>3. /\ [h EXCEPT !.set = g] \in HostStates /\ [h EXCEPT !.set = g].set = g
      /\ [h EXCEPT !.set = g].capability = h.capability /\ [h EXCEPT !.set = g].sshd = h.sshd
      /\ [h EXCEPT !.set = g].loaded = h.loaded /\ [h EXCEPT !.set = g].winrm = h.winrm
  BY <1>1 DEF HostStates
<1>4. Found(h) = IF h.winrm = "on" THEN h ELSE [h EXCEPT !.set = g]
  BY DEF Found, g
<1> QED
  BY <1>2, <1>3, <1>4

\* A part of the host takes another value.
LEMMA HostStateWith ==
  ASSUME NEW h \in HostStates, NEW s \in Settings, NEW v \in Values, NEW t \in Settings, NEW u \in Values
  PROVE  /\ [h EXCEPT !.set[s] = v] \in HostStates
         /\ [h EXCEPT !.set[s] = v, !.set[t] = u] \in HostStates
         /\ \A d \in {"absent", "disabled", "off", "on"} :
              [h EXCEPT !.capability = "installed", !.sshd = d, !.set[s] = v] \in HostStates
<1>1. h.set \in [Settings -> Values]
  BY DEF HostStates
<1>2. [h.set EXCEPT ![s] = v] \in [Settings -> Values]
  BY <1>1
<1>3. [[h.set EXCEPT ![s] = v] EXCEPT ![t] = u] \in [Settings -> Values]
  BY <1>2
<1>4. [h EXCEPT !.set[s] = v, !.set[t] = u] = [h EXCEPT !.set = [[h.set EXCEPT ![s] = v] EXCEPT ![t] = u]]
  BY DEF HostStates
<1> QED
  BY <1>1, <1>2, <1>3, <1>4 DEF HostStates

LEMMA ScriptTypes ==
  ASSUME SessionTypes, NEW p \in Procs, ScriptStep(p)
  PROVE  SessionTypes'
<1>1. /\ host \in HostStates /\ saved[p] \in States /\ saved[p].was \in HostStates
      /\ Managed(saved[p])
  BY DEF SessionTypes, States
<1>2. ASSUME UNCHANGED <<elevated, saved>>, host' \in HostStates
      PROVE  SessionTypes'
  BY <1>2 DEF SessionTypes
<1>3. ASSUME NEW h \in HostStates, NEW k, Sets(p, k, h)
      PROVE  SessionTypes'
  BY <1>2, <1>3 DEF Sets
<1>4. ASSUME UNCHANGED elevated, host' \in HostStates,
             NEW s \in States, Managed(s), saved' = [saved EXCEPT ![p] = s]
      PROVE  SessionTypes'
  BY <1>4 DEF SessionTypes
<1>5. "temp" \in Values /\ "absent" \in Values
  BY DEF Values
<1>6. ASSUME NEW k \in Kinds, Throw(p, k)
      PROVE  SessionTypes'
  BY <1>1, <1>2, <1>6 DEF Throw
<1>7. CASE Capture(p)
  <2> DEFINE s == [Empty EXCEPT !.taken = TRUE, !.was = Found(host)]
  <2>1. s \in States /\ ~s.managed
    BY <1>1, EmptyIsState, FoundIs DEF States, Empty
  <2>2. UNCHANGED <<elevated, host>> /\ saved' = [saved EXCEPT ![p] = s]
    BY <1>7 DEF Capture
  <2> HIDE DEF s
  <2> QED
    BY <1>1, <1>4, <2>1, <2>2 DEF Managed
<1>8. CASE Install(p)
  <2>1. [host EXCEPT !.capability = "installed", !.sshd = "off", !.set["builtin"] = "temp"] \in HostStates
    BY <1>1, <1>5, HostStateWith DEF Settings
  <2>2. host' \in HostStates /\ UNCHANGED elevated
    BY <1>1, <1>8, <2>1 DEF Install
  <2>3. CASE saved' = saved
    BY <1>2, <2>2, <2>3
  <2>4. CASE saved' # saved
    <3> DEFINE s == [saved[p] EXCEPT !.managed = TRUE]
    <3>1. saved[p].was.capability = "missing" /\ saved[p].was.sshd = "absent"
      BY <1>8, <2>4 DEF Install
    <3>2. s \in States /\ s.was = saved[p].was /\ saved' = [saved EXCEPT ![p] = s]
      BY <1>1, <1>8, <2>4 DEF States, Install
    <3> HIDE DEF s
    <3> QED
      BY <1>4, <2>2, <3>1, <3>2 DEF Managed
  <2> QED
    BY <2>3, <2>4
<1>9. CASE Enable(p)
  <2>1. [host EXCEPT !.sshd = IF saved[p].was.sshd = "disabled" THEN "off" ELSE @] \in HostStates
    BY <1>1 DEF HostStates
  <2> QED
    BY <1>3, <1>9, <2>1 DEF Enable
<1>10. ASSUME NEW s \in Settings, Configure(p, s)
       PROVE  SessionTypes'
  BY <1>1, <1>3, <1>5, <1>10, HostStateWith DEF Configure
<1>11. ASSUME NEW s \in Settings, Restore(p, s)
       PROVE  SessionTypes'
  <2>1. ASSUME NEW v \in Values
        PROVE  [host EXCEPT !.set[s] = v] \in HostStates
    BY <1>1, HostStateWith
  <2>2. host.set[s] \in Values /\ Before(p, s) \in Values
    <3>1. \A h \in HostStates : h.set[s] \in Values
      BY DEF HostStates
    <3> QED
      BY <1>1, <3>1 DEF Before
  <2>3. PICK v \in Values : Sets(p, "cleanup", [host EXCEPT !.set[s] = v])
    BY <1>5, <1>11, <2>2 DEF Restore
  <2> QED
    BY <1>3, <2>1, <2>3
<1>12. CASE Restart(p)
  <2>1. [host EXCEPT !.sshd = "on", !.loaded = host.set["config"]] \in HostStates
    BY <1>1 DEF HostStates, Settings
  <2> QED
    BY <1>3, <1>12, <2>1 DEF Restart
<1>13. CASE EnableWinRM(p)
  <2>1. [host EXCEPT !.winrm = "on"] \in HostStates
    BY <1>1 DEF HostStates
  <2> QED
    BY <1>3, <1>13, <2>1 DEF EnableWinRM
<1>14. CASE CreateListener(p)
  <2>1. ASSUME NEW l \in {"absent", "temp"}
        PROVE  [host EXCEPT !.set["listener"] = l, !.set["certificate"] = "temp"] \in HostStates
    BY <1>1, <1>5, HostStateWith DEF Settings
  <2>2. host' \in HostStates /\ UNCHANGED elevated
    BY <1>1, <1>14, <2>1 DEF CreateListener
  <2>3. CASE saved' = saved
    BY <1>2, <2>2, <2>3
  <2>4. CASE saved' # saved
    <3> DEFINE s == [saved[p] EXCEPT !.created = TRUE]
    <3>1. /\ s \in States /\ s.was = saved[p].was /\ s.managed = saved[p].managed
          /\ saved' = [saved EXCEPT ![p] = s]
      BY <1>1, <1>14, <2>4 DEF States, CreateListener
    <3> HIDE DEF s
    <3> QED
      BY <1>1, <1>4, <2>2, <3>1 DEF Managed
  <2> QED
    BY <2>3, <2>4
<1>15. CASE Load(p)
  BY <1>1, <1>2, <1>15 DEF Load
<1>16. CASE Reload(p)
  <2>1. [host EXCEPT !.loaded = host.set["config"]] \in HostStates
    BY <1>1 DEF HostStates, Settings
  <2> QED
    BY <1>1, <1>3, <1>16, <2>1 DEF Reload
<1>17. CASE RestoreSshd(p)
  <2> DEFINE w == saved[p].was
             back == [host EXCEPT !.sshd = w.sshd,
                                  !.loaded = IF w.sshd # "on" THEN "absent"
                                             ELSE IF host.sshd = "on" THEN @ ELSE host.set["config"]]
  <2>1. Disable(host) \in HostStates
    BY <1>1, <1>5 DEF Disable, HostStates
  <2>2. back \in HostStates
    BY <1>1, <1>5 DEF HostStates, Settings
  <2>3. \E h \in {Disable(host), host, back} : Sets(p, "cleanup", h)
    BY <1>17 DEF RestoreSshd
  <2> QED
    BY <1>1, <1>3, <2>1, <2>2, <2>3
<1>18. CASE RestoreWinRM(p)
  <2>1. \A x \in {"disabled", "off", "on"} : [host EXCEPT !.winrm = x] \in HostStates
    BY <1>1 DEF HostStates
  <2>2. PICK x \in {"disabled", "off", "on"} : Sets(p, "cleanup", [host EXCEPT !.winrm = x])
    BY <1>1, <1>18 DEF RestoreWinRM, HostStates
  <2> QED
    BY <1>3, <2>1, <2>2
<1> QED
  BY <1>6, <1>7, <1>8, <1>9, <1>10, <1>11, <1>12, <1>13, <1>14, <1>15, <1>16, <1>17, <1>18 DEF ScriptStep

\* The work of a run leaves the host alone, but for the new state file.
LEMMA WorkTypes ==
  ASSUME SessionTypes, NEW p \in Procs, Work(p) \/ OutputEnds(p)
  PROVE  SessionTypes'
<1>1. UNCHANGED <<elevated, host>>
  BY DEF Work, OutputEnds, Finish, EnsureRunning, ResolveSettings, AskWinrm, AskSsh, AskLibvirt,
         AskArp, AskTart, WaitForSSH, LoadConfig, FindSshpass, BuildArgs, ArgsBuilt, PrepareAnsible,
         RolesResolved, StartAnsible, AnsibleEnds, AnsibleTimesOut, AnsibleOver, SessionStep,
         SelectPort, CreateKey, CreateState, Launch, ScriptOver, Timeout, Tidy, Reach, Preflight,
         world, session
<1>2. UNCHANGED saved \/ saved' = [saved EXCEPT ![p] = Empty]
  BY DEF Work, OutputEnds, Finish, EnsureRunning, ResolveSettings, AskWinrm, AskSsh, AskLibvirt,
         AskArp, AskTart, WaitForSSH, LoadConfig, FindSshpass, BuildArgs, ArgsBuilt, PrepareAnsible,
         RolesResolved, StartAnsible, AnsibleEnds, AnsibleTimesOut, AnsibleOver, SessionStep,
         SelectPort, CreateKey, CreateState, Launch, ScriptOver, Timeout, Tidy, Reach, Preflight,
         world, session
<1> QED
  BY <1>1, <1>2, EmptyIsState DEF SessionTypes


-------------------------------------------------------------------------------
(* The types of all variables.                                             *)

LEMMA NamesAreStages == Names \subseteq Stages
<1> DEFINE StagesOf(plan) == {plan[i] : i \in DOMAIN plan}
<1>1. /\ HypervWindows11 \in Plans("windows") /\ HypervUbuntu \in Plans("windows")
      /\ LocalSSH \in Plans("windows")
      /\ UtmWindows11 \in Plans("darwin") /\ TartMacOS \in Plans("darwin")
      /\ LinuxQemuWindows11 \in Plans("linux")
  BY DEF Plans
<1>2. ASSUME NEW o \in Systems, NEW plan \in Plans(o)
      PROVE  StagesOf(plan) \subseteq Stages
  BY <1>2 DEF Stages
<1>3. {"args", "ansible", "vars", "running", "settings", "askWinrm", "config"} \subseteq StagesOf(HypervWindows11)
  <2>1. /\ HypervWindows11[1] = "running" /\ HypervWindows11[2] = "settings" /\ HypervWindows11[3] = "askWinrm"
        /\ HypervWindows11[4] = "config" /\ HypervWindows11[5] = "args" /\ HypervWindows11[6] = "ansible"
        /\ HypervWindows11[7] = "vars"
    BY DEF HypervWindows11, LinkedAnsible
  <2>2. 1..7 \subseteq DOMAIN HypervWindows11
    BY DEF HypervWindows11, LinkedAnsible
  <2> QED
    BY <2>1, <2>2
<1>4. {"askSsh", "sshpass"} \subseteq StagesOf(HypervUbuntu)
  <2>1. /\ HypervUbuntu[3] = "askSsh" /\ HypervUbuntu[5] = "sshpass"
    BY DEF HypervUbuntu, LinkedAnsible
  <2>2. 1..8 \subseteq DOMAIN HypervUbuntu
    BY DEF HypervUbuntu, LinkedAnsible
  <2> QED
    BY <2>1, <2>2
<1>5. {"arp"} \subseteq StagesOf(UtmWindows11)
  <2>1. /\ UtmWindows11[2] = "arp"
    BY DEF UtmWindows11, LinkedAnsible
  <2>2. 1..6 \subseteq DOMAIN UtmWindows11
    BY DEF UtmWindows11, LinkedAnsible
  <2> QED
    BY <2>1, <2>2
<1>6. {"domifaddr"} \subseteq StagesOf(LinuxQemuWindows11)
  <2>1. /\ LinuxQemuWindows11[2] = "domifaddr"
    BY DEF LinuxQemuWindows11, LinkedAnsible
  <2>2. 1..6 \subseteq DOMAIN LinuxQemuWindows11
    BY DEF LinuxQemuWindows11, LinkedAnsible
  <2> QED
    BY <2>1, <2>2
<1>7. {"tartIp", "sshPort"} \subseteq StagesOf(TartMacOS)
  <2>1. /\ TartMacOS[2] = "tartIp" /\ TartMacOS[3] = "sshPort"
    BY DEF TartMacOS, LinkedAnsible
  <2>2. 1..8 \subseteq DOMAIN TartMacOS
    BY DEF TartMacOS, LinkedAnsible
  <2> QED
    BY <2>1, <2>2
<1>8. {"state", "bootstrap", "cleanup", "port", "key", "reach", "preflight"} \subseteq StagesOf(LocalSSH)
  <2>1. /\ LocalSSH[1] = "port" /\ LocalSSH[2] = "key" /\ LocalSSH[3] = "state"
        /\ LocalSSH[4] = "bootstrap" /\ LocalSSH[5] = "reach" /\ LocalSSH[6] = "preflight"
        /\ LocalSSH[10] = "cleanup"
    BY DEF LocalSSH, LinkedAnsible
  <2>2. 1..10 \subseteq DOMAIN LocalSSH
    BY DEF LocalSSH, LinkedAnsible
  <2> QED
    BY <2>1, <2>2
<1> HIDE DEF StagesOf
<1>9. "windows" \in Systems /\ "darwin" \in Systems /\ "linux" \in Systems
  BY DEF Systems
<1>10. /\ StagesOf(HypervWindows11) \subseteq Stages /\ StagesOf(HypervUbuntu) \subseteq Stages
       /\ StagesOf(UtmWindows11) \subseteq Stages /\ StagesOf(LinuxQemuWindows11) \subseteq Stages
       /\ StagesOf(TartMacOS) \subseteq Stages /\ StagesOf(LocalSSH) \subseteq Stages
  BY <1>1, <1>2, <1>9
<1> QED
  BY <1>3, <1>4, <1>5, <1>6, <1>7, <1>8, <1>10 DEF Names

TypeInv == Inv /\ RunsOk /\ ScriptsOk /\ RefsOk /\ SourceTypes /\ SessionTypes /\ WorldTypes

LEMMA WorldKept ==
  ASSUME WorldTypes, [Next]_vars
  PROVE  WorldTypes'
<1>1. scene \in Scenes /\ scene.changes \in Nat
  BY ScenesAssumption DEF WorldTypes
<1>2. CASE UNCHANGED <<scene, guest, changes>>
  BY <1>2 DEF WorldTypes
<1>3. ASSUME UNCHANGED scene, changes < scene.changes, changes' = changes + 1,
             guest' \in {"off", "on"}
      PROVE  WorldTypes'
  BY <1>1, <1>3 DEF WorldTypes
<1>4. CASE GuestChanges \/ SourcesChange
  BY <1>3, <1>4 DEF GuestChanges, SourcesChange, WorldTypes
<1>5. ASSUME NEW p \in Procs, Begin(p) \/ Die(p) \/ RunScript(p)
      PROVE  UNCHANGED <<scene, guest, changes>>
  BY <1>5 DEF Begin, Die, RunScript, world
<1>6. ASSUME NEW p \in Procs, Work(p) \/ OutputEnds(p)
      PROVE  UNCHANGED <<scene, guest, changes>>
  BY <1>6 DEF Work, OutputEnds, Finish, EnsureRunning, ResolveSettings, AskWinrm, AskSsh, AskLibvirt,
         AskArp, AskTart, WaitForSSH, LoadConfig, FindSshpass, BuildArgs, ArgsBuilt, PrepareAnsible,
         RolesResolved, StartAnsible, AnsibleEnds, AnsibleTimesOut, AnsibleOver, world
<1>7. CASE UNCHANGED vars
  BY <1>2, <1>7 DEF vars
<1> QED
  BY <1>2, <1>4, <1>5, <1>6, <1>7 DEF Next

\* Of a step of p alone: the other runs stay where they are.
LEMMA RefsStayOk ==
  ASSUME Types, RefsOk, UNCHANGED conf, NEW p \in Procs, at' = [at EXCEPT ![p] = at'[p]], RefOk(at[p])'
  PROVE  RefsOk'
<1>1. ASSUME NEW q \in Procs, q # p
      PROVE  RefOk(at[q])'
  BY <1>1 DEF Types, RefsOk, RefOk
<1> QED
  BY <1>1 DEF RefsOk

LEMMA WorkKeepsSources ==
  ASSUME Inv, RunsOk, RefsOk, SourceTypes, NEW p \in Procs, Work(p) \/ OutputEnds(p)
  PROVE  SourceTypes' /\ RefsOk'
<1>1. Types /\ at' = [at EXCEPT ![p] = at'[p]]
  BY WorkMoves DEF Inv, Moves
<1>2. CASE ResolveStep(p)
  <2>1. job[p].use \in Caches /\ RefOk(at[p])
    BY <1>2, ResolveStays DEF Inv, RunsOk, JobOk, RefsOk, Resolving
  <2>2. UNCHANGED conf
    BY <1>2 DEF ResolveStep, ResolvePlaybook, ResolveRoles, LookAtCheckout, Clone, CloneEnds,
           DiscardClone, Fetch, UpdateRef, PullRef, Pull, CheckoutRef, FindSubdirectory, Git, Becomes,
           Step, sources
  <2> QED
    BY <1>1, <1>2, <2>1, <2>2, ResolveTypes, ResolveRef, RefsStayOk
<1>3. CASE ~ResolveStep(p)
  <2>1. UNCHANGED sources
    BY <1>3 DEF Work, OutputEnds, Finish, EnsureRunning, ResolveSettings, AskWinrm, AskSsh, AskLibvirt,
           AskArp, AskTart, WaitForSSH, LoadConfig, FindSshpass, BuildArgs, ArgsBuilt, PrepareAnsible,
           RolesResolved, StartAnsible, AnsibleEnds, AnsibleTimesOut, AnsibleOver, world
  <2>2. RefOk(at[p])'
    <3>1. CASE Finish(p)
      BY <1>1, <3>1 DEF Finish, Types, RefOk, RefSteps
    <3>2. CASE ~Finish(p)
      BY <1>3, <2>1, <3>2, WorkTravels DEF Travels, RefsOk, RefOk, sources
    <3> QED
      BY <3>1, <3>2
  <2> QED
    BY <1>1, <2>1, <2>2, RefsStayOk DEF SourceTypes, sources
<1> QED
  BY <1>2, <1>3

LEMMA StepTypes == TypeInv /\ [Next]_vars => TypeInv'
<1> SUFFICES ASSUME TypeInv, [Next]_vars PROVE TypeInv'
  OBVIOUS
<1> USE DEF TypeInv
<1>1. Inv' /\ RunsOk' /\ ScriptsOk' /\ WorldTypes'
  BY StepInv, StepKeepsRuns, WorldKept
<1>2. Types
  BY DEF Inv
<1>3. ASSUME UNCHANGED <<session, sources, at>>
      PROVE  TypeInv'
  BY <1>1, <1>3 DEF SessionTypes, SourceTypes, RefsOk, RefOk, session, sources
<1>4. ASSUME NEW p \in Procs, Begin(p)
      PROVE  TypeInv'
  <2>1. UNCHANGED <<session, sources>>
    BY <1>4 DEF Begin, world
  <2>2. PICK plan \in Plans(scene.os) : at' = [at EXCEPT ![p] = Head(plan)]
    BY <1>4 DEF Begin
  <2>3. at'[p] \in Names
    BY <1>2, <2>2, PlansAreSound, RestIsSound DEF Types
  <2>4. RefOk(at[p])' /\ at' = [at EXCEPT ![p] = at'[p]]
    BY <1>2, <2>2, <2>3 DEF RefOk, RefSteps, Names, Types
  <2> QED
    BY <1>1, <1>2, <2>1, <2>4, RefsStayOk DEF SessionTypes, SourceTypes, session, sources
<1>5. ASSUME NEW p \in Procs, Work(p) \/ OutputEnds(p)
      PROVE  TypeInv'
  BY <1>1, <1>5, WorkKeepsSources, WorkTypes
<1>6. ASSUME NEW p \in Procs, RunScript(p)
      PROVE  TypeInv'
  <2>1. UNCHANGED <<sources, at>> /\ ScriptStep(p)
    BY <1>2, <1>6, ScriptStepIs DEF RunScript
  <2> QED
    BY <1>1, <2>1, ScriptTypes DEF SourceTypes, RefsOk, RefOk, sources
<1>7. ASSUME NEW p \in Procs, Die(p)
      PROVE  TypeInv'
  <2>1. UNCHANGED <<session, conf>> /\ at' = [at EXCEPT ![p] = "over"] /\ job[p].use \in Caches
    BY <1>7 DEF Die, RunsOk, JobOk, Working
  <2>2. SourceTypes'
    BY <1>7, <2>1, DieTypes
  <2>3. RefOk(at[p])' /\ at' = [at EXCEPT ![p] = at'[p]]
    BY <1>2, <2>1 DEF RefOk, RefSteps, Types
  <2> QED
    BY <1>1, <1>2, <2>1, <2>2, <2>3, RefsStayOk DEF SessionTypes, session
<1>8. CASE GuestChanges
  BY <1>3, <1>8 DEF GuestChanges, run
<1>9. CASE SourcesChange
  BY <1>1, <1>9, ChangeTypes DEF SourcesChange, SessionTypes, session
<1>10. CASE UNCHANGED vars
  BY <1>3, <1>10 DEF vars, run
<1> QED
  BY <1>4, <1>5, <1>6, <1>7, <1>8, <1>9, <1>10 DEF Next

LEMMA TypesBegin == Init => TypeInv
<1> SUFFICES ASSUME Init PROVE TypeInv
  OBVIOUS
<1>1. Inv
  <2>1. "idle" \in Labels
    BY DEF Labels, StepsOfStages
  <2> QED
    BY <2>1 DEF Init, Inv, Types, Safe
<1>2. RunsOk /\ RefsOk
  BY DEF Init, RunsOk, JobOk, RefsOk, RefOk, RefSteps
<1>3. ScriptsOk
  BY DEF Init, ScriptsOk, NoScript, Kinds, ScriptsOver
<1>4. scene \in Scenes /\ scene.confs \subseteq Confs /\ scene.changes \in Nat
  BY ScenesAssumption DEF Init
<1>5. SourceTypes
  BY <1>4, NoRevision, MaxRevAssumption DEF Init, SourceTypes
<1>6. SessionTypes
  BY HostsAssumption, EmptyIsState DEF Init, SessionTypes
<1>7. WorldTypes
  BY <1>4 DEF Init, WorldTypes
<1> QED
  BY <1>1, <1>2, <1>3, <1>5, <1>6, <1>7 DEF TypeInv

LEMMA TypesHold == Spec => []TypeInv
BY TypesBegin, StepTypes, PTL DEF Spec

\* Every variable keeps its type, in any scene: a process has a run exactly
\* when it is at work, and scripts of a session are left only on Windows.
THEOREM TypeCorrect == Spec => []TypeOK
<1>1. TypeInv => TypeOK
  <2> SUFFICES ASSUME TypeInv PROVE TypeOK
    OBVIOUS
  <2>1. Types /\ RunsOk /\ ScriptsOk
    BY DEF TypeInv, Inv
  <2>2. at \in [Procs -> Stages \cup StepsOfStages]
    BY <2>1, NamesAreStages DEF Types, Labels
  <2>3. ASSUME NEW p \in Procs
        PROVE  (job[p] = NoJob) = ~Working(p)
    <3>1. CASE Working(p)
      <4>1. "kept" \in DOMAIN job[p] /\ "kept" \notin DOMAIN NoJob
        BY <3>1 DEF TypeInv, Inv, Safe, Run, Working, NoJob
      <4>2. job[p] # NoJob
        BY <4>1
      <4> QED
        BY <3>1, <4>2
    <3>2. CASE ~Working(p)
      <4>1. job[p] = NoJob
        BY <2>1, <3>2 DEF RunsOk, JobOk, Working
      <4> QED
        BY <3>2, <4>1
    <3> QED
      BY <3>1, <3>2
  <2> QED
    BY <2>1, <2>2, <2>3 DEF TypeInv, SourceTypes, SessionTypes, WorldTypes, TypeOK, Types, ScriptsOk
<1> QED
  BY <1>1, TypesHold, PTL

===============================================================================
