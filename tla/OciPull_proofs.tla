---------------------------- MODULE OciPull_proofs ----------------------------
(***************************************************************************)
(* Theorems about OciPull for every set of manifests and processes and     *)
(* every number of files.                                                  *)
(***************************************************************************)
EXTENDS OciPull, FiniteSetTheorems, TLAPS

-------------------------------------------------------------------------------
(* Types.                                                                  *)

PC == {"idle", "confirm", "download", "inspect", "lookup", "aside", "rename",
       "clean", "remove", "putback", "done", "dead"}

Types ==
  /\ n \in 1..F /\ had \in BOOLEAN /\ tag \in Names /\ pushes \in 0..MaxPushes
  /\ pc \in [Procs -> PC]
  /\ digest \in [Procs -> BOOLEAN] /\ confirmed \in [Procs -> BOOLEAN]
  /\ stuck \in [Procs -> BOOLEAN]
  /\ result \in [Procs -> {"none", "ok", "error"}]
  /\ resolved \in [Procs -> Names] /\ pulled \in [Procs -> Names]
  /\ k \in [Procs -> 1..(F + 1)]
  /\ replaced \in [Procs -> SUBSET (1..F)]
  /\ final \in [1..F -> Content]
  /\ backup \in [Procs -> [1..F -> Content]]
  /\ before \in [Procs -> [1..F -> Content]]

\* How far a process is with the files, and what it has not touched before.
Ranges(p) ==
  /\ pc[p] \in {"idle", "confirm", "download"} =>
       /\ k[p] = 1 /\ replaced[p] = {} /\ ~stuck[p] /\ result[p] = "none"
       /\ \A i \in 1..F : backup[p][i] = Absent
  /\ pc[p] \in {"inspect", "lookup", "aside", "rename", "remove", "putback"} => k[p] <= n
  /\ pc[p] = "clean" => k[p] <= n + 1

Shape == Types /\ \A p \in Procs : Ranges(p)

LEMMA Contents ==
  /\ Absent \in Content /\ Old \in Content /\ Absent # Old
  /\ \A name \in Names : name \in Content /\ name # Absent /\ name # Old
  BY PullAssumption DEF Content, Absent, Old

LEMMA ShapeInit == Init => Shape
<1> SUFFICES ASSUME Init PROVE Shape
  OBVIOUS
<1> USE Contents, PullAssumption
<1>1. final \in [1..F -> Content]
  BY DEF Init
<1>2. Types
  BY <1>1 DEF Init, Types, PC
<1>3. \A p \in Procs : Ranges(p)
  BY DEF Init, Ranges
<1> QED
  BY <1>2, <1>3 DEF Shape

\* Every step keeps the types, variable by variable.
LEMMA TypesStep == Shape /\ [Next]_vars => Types'
<1> SUFFICES ASSUME Shape, [Next]_vars PROVE Types'
  OBVIOUS
<1>0. Types
  BY DEF Shape
<1>1. ASSUME NEW p \in Procs, Step(p) PROVE Types'
  <2> USE DEF Step, Resolve, Confirm, Download, Inspect, Lookup, MoveAside, Rename, RemoveFinal,
              PutBack, Clean, Return, Die, RollBackFrom, Goto, At, Finish, Working,
              registry, download, files
  <2>1. k[p] \in 1..(F + 1) /\ Ranges(p) /\ n \in 1..F /\ F \in Nat
    BY <1>0, PullAssumption DEF Shape, Types
  <2>2. UNCHANGED <<n, had, tag, pushes, digest>>
    BY <1>1, Zenon
  <2>3. pc' \in [Procs -> PC]
    <3>1. \E l \in PC : pc' = [pc EXCEPT ![p] = l] \/ pc' = pc
      BY <1>1 DEF PC
    <3> QED
      BY <1>0, <3>1 DEF Types
  <2>4. result' \in [Procs -> {"none", "ok", "error"}]
    <3>1. \/ result' = result
          \/ \E r \in {"none", "ok", "error"} : result' = [result EXCEPT ![p] = r]
      BY <1>1
    <3> QED
      BY <1>0, <3>1 DEF Types
  <2>5. resolved' \in [Procs -> Names] /\ pulled' \in [Procs -> Names]
    <3>1. /\ resolved' = resolved \/ resolved' = [resolved EXCEPT ![p] = tag]
          /\ \/ pulled' = pulled
             \/ pulled' = [pulled EXCEPT ![p] = resolved[p]]
             \/ pulled' = [pulled EXCEPT ![p] = tag]
      BY <1>1
    <3> QED
      BY <1>0, <3>1 DEF Types
  <2>6. confirmed' \in [Procs -> BOOLEAN] /\ stuck' \in [Procs -> BOOLEAN]
    <3>1. /\ confirmed' = confirmed \/ confirmed' = [confirmed EXCEPT ![p] = TRUE]
          /\ stuck' = stuck \/ stuck' = [stuck EXCEPT ![p] = TRUE]
      BY <1>1
    <3> QED
      BY <1>0, <3>1 DEF Types
  <2>7. k' \in [Procs -> 1..(F + 1)]
    <3>1. \/ k' = k
          \/ \E j \in 1..(F + 1) : k' = [k EXCEPT ![p] = j]
      BY <1>1, <2>1 DEF Ranges
    <3> QED
      BY <1>0, <3>1 DEF Types
  <2>8. pc[p] \in {"inspect", "lookup", "aside", "rename", "remove", "putback"} \/ k[p] <= n
          => k[p] \in 1..F
    BY <2>1 DEF Ranges
  <2>9. replaced' \in [Procs -> SUBSET (1..F)]
    <3>1. \/ replaced' = replaced
          \/ k[p] \in 1..F /\ replaced' = [replaced EXCEPT ![p] = @ \cup {k[p]}]
      BY <1>1, <2>8
    <3>2. replaced[p] \in SUBSET (1..F)
      BY <1>0 DEF Types
    <3>3. CASE k[p] \in 1..F /\ replaced' = [replaced EXCEPT ![p] = @ \cup {k[p]}]
      <4>1. replaced[p] \cup {k[p]} \in SUBSET (1..F)
        BY <3>2, <3>3
      <4> QED
        BY <1>0, <3>3, <4>1 DEF Types
    <3> QED
      BY <1>0, <3>1, <3>3 DEF Types
  <2>10. final' \in [1..F -> Content]
    <3>1. \/ final' = final
          \/ k[p] \in 1..F /\ \E c \in Content : final' = [final EXCEPT ![k[p]] = c]
      <4>1. k[p] \in 1..F => backup[p][k[p]] \in Content
        BY <1>0 DEF Types
      <4>2. pulled[p] \in Content /\ Absent \in Content
        BY <1>0, Contents DEF Types
      <4> QED
        BY <1>1, <2>8, <4>1, <4>2
    <3> QED
      BY <1>0, <3>1 DEF Types
  <2>11. backup' \in [Procs -> [1..F -> Content]]
    <3>1. \/ backup' = backup
          \/ k[p] \in 1..F /\ \E c \in Content : backup' = [backup EXCEPT ![p][k[p]] = c]
      <4>1. k[p] \in 1..F => final[k[p]] \in Content
        BY <1>0 DEF Types
      <4> QED
        BY <1>1, <2>8, <4>1, Contents
    <3>2. ASSUME k[p] \in 1..F, NEW c \in Content,
                 backup' = [backup EXCEPT ![p][k[p]] = c]
          PROVE  backup' \in [Procs -> [1..F -> Content]]
      <4>1. [backup[p] EXCEPT ![k[p]] = c] \in [1..F -> Content]
        BY <1>0, <3>2 DEF Types
      <4>2. backup' = [backup EXCEPT ![p] = [backup[p] EXCEPT ![k[p]] = c]]
        BY <3>2
      <4> QED
        BY <1>0, <4>1, <4>2 DEF Types
    <3> QED
      BY <1>0, <3>1, <3>2 DEF Types
  <2>12. before' \in [Procs -> [1..F -> Content]]
    <3>1. before' = before \/ before' = [before EXCEPT ![p] = final]
      BY <1>1
    <3> QED
      BY <1>0, <3>1 DEF Types
  <2> QED
    BY <1>0, <2>2, <2>3, <2>4, <2>5, <2>6, <2>7, <2>9, <2>10, <2>11, <2>12 DEF Types
<1>2. CASE Push
  BY <1>0, <1>2, PullAssumption DEF Push, Types, download, files
<1>3. CASE UNCHANGED vars
  BY <1>0, <1>3 DEF vars, Types, registry, download
<1> QED
  BY <1>1, <1>2, <1>3 DEF Next, Over

\* A step of one process changes nothing of another's own state.
LEMMA OthersStay ==
  ASSUME Types, NEW p \in Procs, NEW q \in Procs \ {p}, Step(p)
  PROVE  /\ pc'[q] = pc[q] /\ result'[q] = result[q] /\ k'[q] = k[q]
         /\ replaced'[q] = replaced[q] /\ stuck'[q] = stuck[q] /\ backup'[q] = backup[q]
         /\ resolved'[q] = resolved[q] /\ pulled'[q] = pulled[q]
         /\ confirmed'[q] = confirmed[q] /\ before'[q] = before[q]
         /\ n' = n /\ had' = had
<1> USE DEF Types, registry, download, files
<1>1. CASE Resolve(p)
  BY <1>1 DEF Resolve, Goto, Finish
<1>2. CASE Confirm(p)
  BY <1>2 DEF Confirm, Goto, Finish
<1>3. CASE Download(p)
  BY <1>3 DEF Download, Goto, Finish
<1>4. CASE Inspect(p)
  BY <1>4 DEF Inspect, Goto, Finish, At, RollBackFrom
<1>5. CASE Lookup(p)
  BY <1>5 DEF Lookup, Goto, Finish, At, RollBackFrom
<1>6. CASE MoveAside(p)
  BY <1>6 DEF MoveAside, Goto, Finish, At, RollBackFrom
<1>7. CASE Rename(p)
  BY <1>7 DEF Rename, Goto, Finish, At, RollBackFrom
<1>8. CASE RemoveFinal(p)
  BY <1>8 DEF RemoveFinal, Goto, Finish, At, RollBackFrom
<1>9. CASE PutBack(p)
  BY <1>9 DEF PutBack, Goto, Finish, At, RollBackFrom
<1>10. CASE Clean(p)
  BY <1>10 DEF Clean, Goto, Finish, At
<1>11. CASE Return(p)
  BY <1>11 DEF Return, Goto, Finish
<1>12. CASE Die(p)
  BY <1>12 DEF Die, Goto, Working
<1> QED
  BY <1>1, <1>2, <1>3, <1>4, <1>5, <1>6, <1>7, <1>8, <1>9, <1>10, <1>11, <1>12 DEF Step

LEMMA RangesStep == Shape /\ [Next]_vars => \A q \in Procs : Ranges(q)'
<1> SUFFICES ASSUME Shape, [Next]_vars, NEW q \in Procs PROVE Ranges(q)'
  OBVIOUS
<1>0. Types /\ Ranges(q)
  BY DEF Shape
<1>1. ASSUME NEW p \in Procs \ {q}, Step(p) PROVE Ranges(q)'
  BY <1>0, <1>1, OthersStay DEF Ranges
<1>2. ASSUME Step(q) PROVE Ranges(q)'
  <2> USE <1>0 DEF Types, Ranges, registry, download, files
  <2>1. CASE Resolve(q)
    BY <2>1 DEF Resolve, Goto, Finish
  <2>2. CASE Confirm(q)
    BY <2>2 DEF Confirm, Goto, Finish
  <2>3. CASE Download(q)
    BY <2>3 DEF Download, Goto, Finish
  <2>4. CASE Inspect(q)
    BY <2>4 DEF Inspect, Goto, Finish, At, RollBackFrom
  <2>5. CASE Lookup(q)
    BY <2>5 DEF Lookup, Goto, Finish, At, RollBackFrom
  <2>6. CASE MoveAside(q)
    BY <2>6 DEF MoveAside, Goto, Finish, At, RollBackFrom
  <2>7. CASE Rename(q)
    BY <2>7 DEF Rename, Goto, Finish, At, RollBackFrom
  <2>8. CASE RemoveFinal(q)
    BY <2>8 DEF RemoveFinal, Goto, Finish, At, RollBackFrom
  <2>9. CASE PutBack(q)
    BY <2>9 DEF PutBack, Goto, Finish, At, RollBackFrom
  <2>10. CASE Clean(q)
    BY <2>10 DEF Clean, Goto, Finish, At
  <2>11. CASE Return(q)
    BY <2>11 DEF Return, Goto, Finish
  <2>12. CASE Die(q)
    BY <2>12 DEF Die, Goto, Working
  <2> QED
    BY <1>2, <2>1, <2>2, <2>3, <2>4, <2>5, <2>6, <2>7, <2>8, <2>9, <2>10, <2>11, <2>12 DEF Step
<1>3. CASE Push
  BY <1>0, <1>3 DEF Push, Ranges, files, download
<1>4. CASE UNCHANGED vars
  BY <1>0, <1>4 DEF vars, Ranges, registry, download
<1> QED
  BY <1>1, <1>2, <1>3, <1>4 DEF Next, Over

LEMMA ShapeStep == Shape /\ [Next]_vars => Shape'
  BY TypesStep, RangesStep DEF Shape

THEOREM ShapeInvariant == Spec => []Shape
  BY ShapeInit, ShapeStep, PTL DEF Spec

\* Every variable keeps its type: a final path holds nothing, the file that
\* was there, or a file of one of the manifests, and no index leaves the files.
THEOREM TypeCorrect == Spec => []TypeOK
<1>1. Init => failed \in BOOLEAN /\ overlapped \in BOOLEAN
  BY DEF Init
<1>2. ASSUME failed \in BOOLEAN, overlapped \in BOOLEAN, [Next]_vars
      PROVE  failed' \in BOOLEAN /\ overlapped' \in BOOLEAN
  <2>1. ASSUME NEW p \in Procs, Step(p) PROVE failed' \in BOOLEAN
    <3>1. \/ failed' = failed \/ failed' = TRUE
          \/ failed' = (failed \/ k[p] \in Staged(pulled[p]))
          \/ failed' = (failed \/ final[k[p]] # Absent)
      BY <2>1, Zenon DEF Step, Resolve, Confirm, Download, Inspect, Lookup, MoveAside, Rename,
           RemoveFinal, PutBack, Clean, Return, Die, files
    <3> QED
      BY <1>2, <3>1, Zenon
  <2>2. ASSUME NEW p \in Procs, Step(p) PROVE overlapped' \in BOOLEAN
    BY <2>2, Zenon DEF Step
  <2>3. CASE Push
    BY <1>2, <2>3, Zenon DEF Push
  <2>4. CASE UNCHANGED vars
    BY <1>2, <2>4, Zenon DEF vars
  <2> QED
    BY <1>2, <2>1, <2>2, <2>3, <2>4 DEF Next, Over
<1> DEFINE Flags == failed \in BOOLEAN /\ overlapped \in BOOLEAN
<1>3. Spec => []Flags
  <2>1. Init => Flags
    BY <1>1
  <2>2. Flags /\ [Next]_vars => Flags'
    BY <1>2
  <2> QED
    BY <2>1, <2>2, PTL DEF Spec
<1>4. Shape /\ Flags => TypeOK
  BY DEF Shape, Types, TypeOK, PC
<1> QED
  BY <1>3, <1>4, ShapeInvariant, PTL

-------------------------------------------------------------------------------
(* What is promoted has been validated.                                    *)

\* The layers that validateManifestLayers lets through: each expected file
\* once, of the expected media type.
LEMMA ValidLayers ==
  ASSUME NEW name \in Names, LayersValid(Manifest[name]), NEW i \in Expected
  PROVE  LET m == Manifest[name]
             of == {j \in DOMAIN m.layers : m.layers[j].title = i}
         IN  Cardinality(of) = 1 /\ \A j \in of : m.layers[j].media = "expected"
<1> DEFINE L == Manifest[name].layers
           S == {j \in DOMAIN L : L[j].title = i}
<1>1. L \in Seq([title : Nat, media : STRING]) /\ Len(L) \in Nat /\ DOMAIN L = 1..Len(L)
  BY PullAssumption
<1>2. PICK j \in DOMAIN L : L[j].title = i
  BY <1>1 DEF LayersValid
<1>3. \A a, b \in DOMAIN L : b < a => L[b].title # L[a].title
  BY <1>1 DEF LayersValid
<1>4. S = {j}
  BY <1>1, <1>2, <1>3
<1>5. Cardinality(S) = 1
  BY <1>4, FS_Singleton
<1>6. \A a \in S : L[a].media = "expected"
  BY <1>1 DEF LayersValid
<1> QED
  BY <1>5, <1>6

\* validateManifestForPull accepts what the ADR lets a pull accept, and asks
\* before it takes a foreign artifact.
LEMMA ValidationIsSound ==
  ASSUME NEW name \in Names, NEW c \in BOOLEAN,
         \/ Validation(Manifest[name]) = "accept"
         \/ Validation(Manifest[name]) = "confirm" /\ c
  PROVE  Acceptable(Manifest[name], c)
<1> DEFINE m == Manifest[name]
<1>1. m.artifact /\ LayersValid(m) /\ (MatchesTarget(m) \/ (Foreign(m) /\ c))
  BY DEF Validation
<1>2. HoldsFiles(m)
  BY <1>1, ValidLayers DEF HoldsFiles
<1>3. CASE MatchesTarget(m)
  <2>1. m.annotated
    BY <1>3, Zenon DEF MatchesTarget
  <2>2. Same(m, TargetKeys)
    BY <1>3 DEF MatchesTarget, Differing, Same
  <2>3. Same(m, {"os", "type", "arch"}) /\ Same(m, {"host", "engine"})
    BY <2>2 DEF TargetKeys, Same
  <2> QED
    BY <1>1, <1>2, <2>1, <2>3, Zenon DEF Acceptable
<1>4. CASE Foreign(m) /\ c
  <2>1. m.annotated
    BY <1>4, Zenon DEF Foreign
  <2>2. Same(m, {"os", "type", "arch"})
    BY <1>4 DEF Foreign, Differing, TargetKeys, Same
  <2>3. {NormalHost(m.target.host), Target.host} = {"debian", "darwin"}
    BY <1>4 DEF Foreign
  <2>4. \/ m.target.host \in {"linux", "debian"} /\ Target.host = "darwin"
        \/ m.target.host \in {"macos", "darwin"} /\ Target.host = "debian"
    BY <2>3 DEF NormalHost
  <2>5. OtherUnix(m)
    BY <2>4 DEF OtherUnix
  <2> QED
    BY <1>1, <1>2, <1>4, <2>1, <2>2, <2>5, Zenon DEF Acceptable
<1> QED
  BY <1>1, <1>3, <1>4

\* Beyond the validation stands only what it accepted, or what the user
\* confirmed after it.
Validated(p) ==
  /\ pc[p] = "confirm" => Validation(Manifest[resolved[p]]) = "confirm"
  /\ pc[p] = "download" \/ Promoting(p) =>
       \/ Validation(Manifest[resolved[p]]) = "accept"
       \/ Validation(Manifest[resolved[p]]) = "confirm" /\ confirmed[p]

AllValidated == \A p \in Procs : Validated(p)

\* The validation looks at the number of the VM's files, which is fixed.
LEMMA SameValidation ==
  ASSUME n' = n, NEW name \in Names
  PROVE  Validation(Manifest[name])' = Validation(Manifest[name])
  BY DEF Validation, LayersValid, Expected

LEMMA ValidatedStep == Shape /\ AllValidated /\ [Next]_vars => AllValidated'
<1> SUFFICES ASSUME Shape, AllValidated, [Next]_vars, NEW q \in Procs PROVE Validated(q)'
  BY DEF AllValidated
<1>0. Types /\ Validated(q) /\ resolved[q] \in Names
  BY DEF Shape, Types, AllValidated
<1>a. ASSUME NEW name \in Names PROVE name' = name
  OBVIOUS
<1>b. ASSUME n' = n, resolved'[q] = resolved[q]
      PROVE  Validation(Manifest[resolved[q]])' = Validation(Manifest[resolved[q]])
  <2>1. PICK name \in Names : name = resolved[q] /\ name = resolved'[q]
    BY <1>0, <1>b
  <2> QED
    BY <1>b, <2>1, SameValidation
<1>1. ASSUME NEW p \in Procs \ {q}, Step(p) PROVE Validated(q)'
  BY <1>0, <1>1, <1>b, OthersStay DEF Validated, Promoting
<1>2. ASSUME Step(q) PROVE Validated(q)'
  <2> USE <1>0 DEF Types, Validated, Promoting, registry, download, files
  <2>1. CASE Resolve(q)
    <3>1. PICK name \in Names : name = tag /\ name = resolved'[q]
      BY <2>1 DEF Resolve
    <3>2. Validation(Manifest[resolved[q]])' = Validation(Manifest[tag])
      BY <2>1, <3>1, SameValidation DEF Resolve
    <3> QED
      BY <2>1, <3>2 DEF Resolve, Goto, Finish
  <2>2. CASE Confirm(q)
    BY <2>2, <1>b DEF Confirm, Goto, Finish
  <2>3. CASE Download(q)
    BY <2>3, <1>b DEF Download, Goto, Finish
  <2>4. CASE Inspect(q)
    BY <2>4, <1>b DEF Inspect, Goto, Finish, At, RollBackFrom
  <2>5. CASE Lookup(q)
    BY <2>5, <1>b DEF Lookup, Goto, Finish, At, RollBackFrom
  <2>6. CASE MoveAside(q)
    BY <2>6, <1>b DEF MoveAside, Goto, Finish, At, RollBackFrom
  <2>7. CASE Rename(q)
    BY <2>7, <1>b DEF Rename, Goto, Finish, At, RollBackFrom
  <2>8. CASE RemoveFinal(q)
    BY <2>8, <1>b DEF RemoveFinal, Goto, Finish, At, RollBackFrom
  <2>9. CASE PutBack(q)
    BY <2>9, <1>b DEF PutBack, Goto, Finish, At, RollBackFrom
  <2>10. CASE Clean(q)
    BY <2>10, <1>b DEF Clean, Goto, Finish, At
  <2>11. CASE Return(q)
    BY <2>11, <1>b DEF Return, Goto, Finish
  <2>12. CASE Die(q)
    BY <2>12, <1>b DEF Die, Goto, Working
  <2> QED
    BY <1>2, <2>1, <2>2, <2>3, <2>4, <2>5, <2>6, <2>7, <2>8, <2>9, <2>10, <2>11, <2>12 DEF Step
<1>3. CASE Push
  BY <1>0, <1>3, <1>b DEF Push, Validated, Promoting, files, download
<1>4. CASE UNCHANGED vars
  BY <1>0, <1>4, <1>b DEF vars, Validated, Promoting, registry, download
<1> QED
  BY <1>1, <1>2, <1>3, <1>4 DEF Next, Over

THEOREM ValidatedInvariant == Spec => []AllValidated
<1>1. Init => AllValidated
  BY DEF Init, AllValidated, Validated, Promoting
<1> QED
  BY <1>1, ShapeInvariant, ValidatedStep, PTL DEF Spec

\* Only what the ADR allows is promoted, with the user's consent where it asks
\* for it, unless the tag moves between the validation and the download.
THEOREM OnlyAcceptable == Spec => []PromotedIsAcceptable
<1>1. Shape /\ AllValidated => PromotedIsAcceptable
  <2> SUFFICES ASSUME Shape, AllValidated, NEW p \in Procs, Promoting(p),
                      pulled[p] = resolved[p]
               PROVE  Acceptable(Manifest[pulled[p]], confirmed[p])
    BY DEF PromotedIsAcceptable
  <2> QED
    BY ValidationIsSound DEF Shape, Types, AllValidated, Validated
<1> QED
  BY <1>1, ShapeInvariant, ValidatedInvariant, PTL

-------------------------------------------------------------------------------
(* A promotion that has the final paths to itself.                         *)

Forward == {"inspect", "lookup", "aside", "rename"}
Back    == {"remove", "putback"}

\* The predecessor of file i is safe in p's backup, or there was none.
Saved(p, i) ==
  IF i \in replaced[p] THEN backup[p][i] = before[p][i] /\ before[p][i] # Absent
                       ELSE before[p][i] = Absent

\* File i has been moved aside, if it was there.
Passed(p, i) == i < k[p] \/ (i = k[p] /\ pc[p] = "rename")

\* At every point of the promotion and of its rollback, what the files were
\* can be told from what they are and from the backups.
Undoable(p) ==
  /\ pc[p] \in Forward =>
       \A i \in 1..F :
         /\ IF Passed(p, i) THEN Saved(p, i)
                            ELSE final[i] = before[p][i] /\ i \notin replaced[p]
         /\ i < k[p] => final[i] = pulled[p]
  /\ pc[p] \in Back =>
       \A i \in 1..F :
         /\ i <= k[p] => Saved(p, i)
         /\ i > k[p] => /\ stuck[p] \/ final[i] = before[p][i]
                        /\ final[i] # Absent \/ backup[p][i] # Absent \/ before[p][i] = Absent
  /\ pc[p] = "putback" => k[p] \in replaced[p]
  /\ pc[p] = "clean" => \A i \in Expected : final[i] = pulled[p]

Exclusive == \A p, q \in Procs : Promoting(p) /\ Promoting(q) => p = q

Alone == ~overlapped => Exclusive /\ \A p \in Procs : Promoting(p) => Undoable(p)

\* While nobody overlaps, a process beside the one that promotes touches no file.
LEMMA OthersAreQuiet ==
  ASSUME Types, ~overlapped', Exclusive, NEW p \in Procs, Promoting(p),
         NEW q \in Procs \ {p}, Step(q)
  PROVE  final' = final /\ backup' = backup
<1>1. ~Promoting(q)
  BY DEF Exclusive
<1>2. Promoting(p)'
  BY OthersStay DEF Promoting
<1>3. ~Promoting(q)'
  BY DEF Step, Promoting
<1> USE DEF Promoting, files
<1>4. CASE Resolve(q) \/ Confirm(q) \/ Download(q) \/ Die(q)
  BY <1>4 DEF Resolve, Confirm, Download, Die
<1>5. CASE Inspect(q) \/ Lookup(q) \/ MoveAside(q) \/ Rename(q) \/ RemoveFinal(q) \/ PutBack(q)
           \/ Clean(q) \/ Return(q)
  BY <1>1, <1>5 DEF Inspect, Lookup, MoveAside, Rename, RemoveFinal, PutBack, Clean, Return
<1> QED
  BY <1>4, <1>5 DEF Step

\* Who promotes alone can undo what it has done, after every step of its own.
LEMMA UndoableStep ==
  ASSUME Shape, NEW p \in Procs, Promoting(p) => Undoable(p), Step(p), Promoting(p)'
  PROVE  Undoable(p)'
<1>1. Types /\ Ranges(p) /\ (Promoting(p) => Undoable(p)) /\ n' = n
  BY DEF Shape, Step, Resolve, Confirm, Download, Inspect, Lookup, MoveAside, Rename, RemoveFinal,
         PutBack, Clean, Return, Die, registry
<1>2. Step(p) /\ Promoting(p)'
  OBVIOUS
<1>3. n \in 1..F /\ k[p] \in Nat /\ F \in Nat
  BY <1>1, PullAssumption DEF Types
<1> USE <1>1, <1>3
        DEF Types, Ranges, Undoable, Promoting, Forward, Back, Passed, Saved, Expected,
            registry, download, files
<1>4. CASE Resolve(p)
  BY <1>2, <1>4, Contents DEF Resolve, Goto, Finish
<1>5. CASE Confirm(p)
  BY <1>2, <1>5, Contents DEF Confirm, Goto, Finish
<1>6. CASE Download(p)
  BY <1>2, <1>6, Contents DEF Download, Goto, Finish
<1>7. CASE Inspect(p)
  BY <1>2, <1>7, Contents DEF Inspect, Goto, Finish, At, RollBackFrom
<1>8. CASE Lookup(p)
  BY <1>2, <1>8, Contents DEF Lookup, Goto, Finish, At, RollBackFrom
<1>9. CASE MoveAside(p)
  <2>1. k[p] \in 1..F /\ final[k[p]] = before[p][k[p]] /\ pc[p] = "aside"
    BY <1>9 DEF MoveAside
  <2>2. CASE pc'[p] = "rename"
    <3>1. /\ final' = [final EXCEPT ![k[p]] = Absent] /\ final[k[p]] # Absent
          /\ backup' = [backup EXCEPT ![p][k[p]] = final[k[p]]]
          /\ replaced' = [replaced EXCEPT ![p] = @ \cup {k[p]}]
          /\ pc' = [pc EXCEPT ![p] = "rename"]
          /\ UNCHANGED <<k, before, pulled>>
      BY <1>9, <2>1, <2>2 DEF MoveAside, Goto, Finish, At, RollBackFrom
    <3>2. \A i \in 1..F : backup'[p][i] = IF i = k[p] THEN final[i] ELSE backup[p][i]
      BY <3>1
    <3>3. replaced'[p] = replaced[p] \cup {k[p]}
      BY <3>1
    <3>4. \A i \in 1..F : final'[i] = IF i = k[p] THEN Absent ELSE final[i]
      BY <2>1, <3>1
    <3>5. pc'[p] = "rename" /\ k'[p] = k[p] /\ before'[p] = before[p] /\ pulled'[p] = pulled[p]
      BY <3>1
    <3> QED
      BY <2>1, <3>1, <3>2, <3>3, <3>4, <3>5
  <2>3. CASE pc'[p] # "rename"
    BY <1>2, <1>9, <2>1, <2>3 DEF MoveAside, Goto, Finish, At, RollBackFrom
  <2> QED
    BY <2>2, <2>3
<1>10. CASE Rename(p)
  <2>1. pc[p] = "rename" /\ k[p] \in 1..F
    BY <1>10 DEF Rename
  <2>2. CASE final' = [final EXCEPT ![k[p]] = pulled[p]]
    <3>1. \A i \in 1..F : final'[i] = IF i = k[p] THEN pulled[p] ELSE final[i]
      BY <2>1, <2>2
    <3>2. CASE pc'[p] \in {"clean", "inspect"}
      BY <1>10, <2>1, <3>1, <3>2 DEF Rename, Goto, Finish, At, RollBackFrom
    <3>3. CASE pc'[p] \notin {"clean", "inspect"}
      BY <1>2, <1>10, <2>1, <3>3 DEF Rename, Goto, Finish, At, RollBackFrom
    <3> QED
      BY <3>2, <3>3
  <2>3. CASE final' = final
    <3>1. CASE pc'[p] \in {"clean", "inspect"}
      <4>1. final' = [final EXCEPT ![k[p]] = pulled[p]]
        BY <1>10, <2>1, <3>1 DEF Rename, Goto, Finish, RollBackFrom
      <4> QED
        BY <2>2, <4>1
    <3>2. CASE pc'[p] \notin {"clean", "inspect"}
      BY <1>2, <1>10, <2>1, <3>2 DEF Rename, Goto, Finish, At, RollBackFrom
    <3> QED
      BY <3>1, <3>2
  <2> QED
    BY <1>10, <2>2, <2>3 DEF Rename
<1>a. ASSUME NEW i, RollBackFrom(p, i)
      PROVE  pc'[p] = "remove" /\ k'[p] = i
  <2>1. CASE i = 0
    BY <1>2, <1>a, <2>1 DEF RollBackFrom, Finish, Goto
  <2>2. CASE i # 0
    BY <1>a, <2>2 DEF RollBackFrom, Goto, At
  <2> QED
    BY <2>1, <2>2
<1>11. CASE RemoveFinal(p)
  <2>1. /\ pc[p] = "remove" /\ k[p] \in 1..F /\ UNCHANGED <<replaced, backup, before, pulled>>
        /\ \A i \in 1..F : i <= k[p] => Saved(p, i)
        /\ \A i \in 1..F : i > k[p] =>
             /\ stuck[p] \/ final[i] = before[p][i]
             /\ final[i] # Absent \/ backup[p][i] # Absent \/ before[p][i] = Absent
    BY <1>11 DEF RemoveFinal, download
  <2>2. CASE /\ final' = [final EXCEPT ![k[p]] = Absent] /\ k[p] \in replaced[p]
             /\ Goto(p, "putback") /\ UNCHANGED <<k, stuck>>
    <3>1. pc'[p] = "putback" /\ k'[p] = k[p] /\ stuck'[p] = stuck[p]
      BY <2>2 DEF Goto
    <3>2. \A i \in 1..F : i > k[p] => final'[i] = final[i]
      BY <2>1, <2>2
    <3> QED
      BY <2>1, <2>2, <3>1, <3>2
  <2>3. CASE /\ final' = [final EXCEPT ![k[p]] = Absent] /\ k[p] \notin replaced[p]
             /\ RollBackFrom(p, k[p] - 1) /\ UNCHANGED stuck
    <3>1. pc'[p] = "remove" /\ k'[p] = k[p] - 1 /\ stuck'[p] = stuck[p]
      BY <1>a, <2>3
    <3>2. \A i \in 1..F : final'[i] = IF i = k[p] THEN Absent ELSE final[i]
      BY <2>1, <2>3
    <3>3. before[p][k[p]] = Absent
      BY <2>1, <2>3
    <3>4. ASSUME NEW i \in 1..F, i <= k'[p]
          PROVE  Saved(p, i)'
      <4>1. i < k[p] /\ i <= k[p]
        BY <2>1, <2>3, <3>1, <3>2, <3>3, <3>4
      <4> QED
        BY <2>1, <2>3, <3>1, <3>2, <3>3, <4>1
    <3>5. ASSUME NEW i \in 1..F, i > k'[p]
          PROVE  /\ stuck'[p] \/ final'[i] = before'[p][i]
                 /\ final'[i] # Absent \/ backup'[p][i] # Absent \/ before'[p][i] = Absent
      <4>1. i = k[p] \/ i > k[p]
        BY <2>1, <2>3, <3>1, <3>2, <3>3, <3>5
      <4> QED
        BY <2>1, <2>3, <3>1, <3>2, <3>3, <4>1
    <3> QED
      BY <3>4, <3>5, <2>3, <3>1, <3>2, <3>3
  <2>4. CASE RollBackFrom(p, k[p] - 1) /\ stuck' = [stuck EXCEPT ![p] = TRUE] /\ UNCHANGED final
    <3>1. pc'[p] = "remove" /\ k'[p] = k[p] - 1 /\ stuck'[p]
      BY <1>a, <2>4
    <3>2. Saved(p, k[p])
      BY <2>1
    <3>3. final[k[p]] # Absent \/ backup[p][k[p]] # Absent \/ before[p][k[p]] = Absent
      BY <3>2
    <3>4. ASSUME NEW i \in 1..F, i <= k'[p]
          PROVE  Saved(p, i)'
      <4>1. i < k[p] /\ i <= k[p]
        BY <2>1, <2>4, <3>1, <3>2, <3>3, <3>4
      <4> QED
        BY <2>1, <2>4, <3>1, <3>2, <3>3, <4>1
    <3>5. ASSUME NEW i \in 1..F, i > k'[p]
          PROVE  /\ stuck'[p] \/ final'[i] = before'[p][i]
                 /\ final'[i] # Absent \/ backup'[p][i] # Absent \/ before'[p][i] = Absent
      <4>1. i = k[p] \/ i > k[p]
        BY <2>1, <2>4, <3>1, <3>2, <3>3, <3>5
      <4> QED
        BY <2>1, <2>4, <3>1, <3>2, <3>3, <4>1
    <3> QED
      BY <3>4, <3>5, <2>4, <3>1, <3>2, <3>3
  <2> QED
    BY <1>11, <2>2, <2>3, <2>4 DEF RemoveFinal
<1>12. CASE PutBack(p)
  <2>1. /\ pc[p] = "putback" /\ k[p] \in 1..F /\ UNCHANGED <<replaced, before, pulled>>
        /\ k[p] \in replaced[p] /\ backup[p][k[p]] = before[p][k[p]] /\ before[p][k[p]] # Absent
        /\ \A i \in 1..F : i <= k[p] => Saved(p, i)
        /\ \A i \in 1..F : i > k[p] =>
             /\ stuck[p] \/ final[i] = before[p][i]
             /\ final[i] # Absent \/ backup[p][i] # Absent \/ before[p][i] = Absent
    BY <1>12 DEF PutBack, download
  <2>2. pc'[p] = "remove" /\ k'[p] = k[p] - 1
    BY <1>12, <1>a DEF PutBack
  <2>3. CASE /\ final' = [final EXCEPT ![k[p]] = backup[p][k[p]]]
             /\ backup' = [backup EXCEPT ![p][k[p]] = Absent] /\ UNCHANGED stuck
    <3>1. \A i \in 1..F : final'[i] = IF i = k[p] THEN before[p][i] ELSE final[i]
      BY <2>1, <2>3
    <3>2. \A i \in 1..F : backup'[p][i] = IF i = k[p] THEN Absent ELSE backup[p][i]
      BY <2>3
    <3>3. stuck'[p] = stuck[p]
      BY <2>3
    <3>4. ASSUME NEW i \in 1..F, i <= k'[p]
          PROVE  Saved(p, i)'
      <4>1. i < k[p] /\ i <= k[p]
        BY <2>1, <2>2, <2>3, <3>1, <3>2, <3>3, <3>4
      <4>2. backup'[p][i] = backup[p][i]
        BY <3>2, <4>1, <2>1
      <4>3. replaced'[p] = replaced[p] /\ before'[p] = before[p] /\ Saved(p, i)
        BY <2>1, <4>1
      <4> QED
        BY <4>2, <4>3
    <3>5. ASSUME NEW i \in 1..F, i > k'[p]
          PROVE  /\ stuck'[p] \/ final'[i] = before'[p][i]
                 /\ final'[i] # Absent \/ backup'[p][i] # Absent \/ before'[p][i] = Absent
      <4>1. i = k[p] \/ i > k[p]
        BY <2>1, <2>2, <2>3, <3>1, <3>2, <3>3, <3>5
      <4> QED
        BY <2>1, <2>2, <2>3, <3>1, <3>2, <3>3, <4>1
    <3> QED
      BY <3>4, <3>5, <2>2, <2>3, <3>1, <3>2, <3>3
  <2>4. CASE stuck' = [stuck EXCEPT ![p] = TRUE] /\ UNCHANGED <<final, backup>>
    <3>1. stuck'[p]
      BY <2>4
    <3>2. ASSUME NEW i \in 1..F, i <= k'[p]
          PROVE  Saved(p, i)'
      <4>1. i < k[p] /\ i <= k[p]
        BY <2>1, <2>2, <2>4, <3>1, <3>2
      <4> QED
        BY <2>1, <2>2, <2>4, <3>1, <4>1
    <3>3. ASSUME NEW i \in 1..F, i > k'[p]
          PROVE  /\ stuck'[p] \/ final'[i] = before'[p][i]
                 /\ final'[i] # Absent \/ backup'[p][i] # Absent \/ before'[p][i] = Absent
      <4>1. i = k[p] \/ i > k[p]
        BY <2>1, <2>2, <2>4, <3>1, <3>3
      <4> QED
        BY <2>1, <2>2, <2>4, <3>1, <4>1
    <3> QED
      BY <3>2, <3>3, <2>2, <2>4, <3>1
  <2> QED
    BY <1>12, <2>3, <2>4 DEF PutBack
<1>13. CASE Clean(p)
  BY <1>2, <1>13, Contents DEF Clean, Goto, Finish, At
<1>14. CASE Return(p)
  BY <1>2, <1>14, Contents DEF Return, Goto, Finish
<1>15. CASE Die(p)
  BY <1>2, <1>15, Contents DEF Die, Goto, Working
<1> QED
  BY <1>2, <1>4, <1>5, <1>6, <1>7, <1>8, <1>9, <1>10, <1>11, <1>12, <1>13, <1>14, <1>15 DEF Step

LEMMA AloneStep == Shape /\ Alone /\ [Next]_vars => Alone'
<1> SUFFICES ASSUME Shape, Alone, [Next]_vars, ~overlapped' PROVE
               /\ Exclusive'
               /\ \A p \in Procs : Promoting(p)' => Undoable(p)'
  BY DEF Alone
<1>1. ASSUME NEW q \in Procs, Step(q)
      PROVE  Exclusive' /\ \A p \in Procs : Promoting(p)' => Undoable(p)'
  <2>1. ~overlapped /\ Types /\ Exclusive /\ \A p \in Procs : Promoting(p) => Undoable(p)
    BY <1>1, Zenon DEF Step, Shape, Alone
  <2>2. \A r \in Procs \ {q} : Promoting(r)' <=> Promoting(r)
    BY <1>1, <2>1, OthersStay DEF Promoting
  <2>3. Promoting(q)' => \A r \in Procs \ {q} : ~Promoting(r)
    BY <1>1, Zenon DEF Step
  <2>4. Exclusive'
    BY <2>1, <2>2, <2>3 DEF Exclusive
  <2>5. ASSUME NEW p \in Procs \ {q}, Promoting(p)' PROVE Undoable(p)'
    <3>1. Promoting(p) /\ Undoable(p)
      BY <2>1, <2>2, <2>5
    <3>2. final' = final /\ backup' = backup
      BY <1>1, <2>1, <3>1, OthersAreQuiet
    <3>3. /\ pc'[p] = pc[p] /\ k'[p] = k[p] /\ replaced'[p] = replaced[p] /\ stuck'[p] = stuck[p]
          /\ pulled'[p] = pulled[p] /\ before'[p] = before[p] /\ n' = n
      BY <1>1, <2>1, OthersStay
    <3> QED
      BY <3>1, <3>2, <3>3 DEF Undoable, Passed, Saved, Expected
  <2>6. ASSUME Promoting(q)' PROVE Undoable(q)'
    BY <1>1, <2>1, <2>6, UndoableStep
  <2> QED
    BY <2>4, <2>5, <2>6
<1>2. CASE Push
  <2>1. UNCHANGED <<n, download, pc, k, replaced, final, backup, stuck, overlapped>>
    BY <1>2 DEF Push
  <2> QED
    BY <2>1 DEF Alone, Exclusive, Promoting, Undoable, Passed, Saved, Expected, download
<1>3. CASE UNCHANGED vars
  <2>1. UNCHANGED <<n, download, pc, k, replaced, final, backup, stuck, overlapped>>
    BY <1>3 DEF vars, registry
  <2> QED
    BY <2>1 DEF Alone, Exclusive, Promoting, Undoable, Passed, Saved, Expected, download
<1> QED
  BY <1>1, <1>2, <1>3 DEF Next, Over

THEOREM AloneInvariant == Spec => []Alone
<1>1. Init => Alone
  BY DEF Init, Alone, Exclusive, Promoting
<1> QED
  BY <1>1, ShapeInvariant, AloneStep, PTL DEF Spec

\* A pull that had the final paths to itself leaves all files new, or all as
\* they were and reports an error, whatever failed, for any number of files.
THEOREM AllOrNothingTheorem == Spec => AllOrNothing
<1> DEFINE Whole(p) == \/ \A i \in Expected : final'[i] = pulled[p]
                       \/ result'[p] = "error" /\ final' = before[p]
           A == \A p \in Procs :
                  /\ Promoting(p) /\ pc'[p] = "done"
                  /\ ~overlapped /\ ~stuck'[p]
                  => \/ \A i \in Expected : final'[i] = pulled[p]
                     \/ result'[p] = "error" /\ final' = before[p]
<1>1. Shape /\ Alone /\ [Next]_vars => [A]_vars
  <2> SUFFICES ASSUME Shape, Alone, Next, NEW p \in Procs,
                      Promoting(p), pc'[p] = "done", ~overlapped, ~stuck'[p]
               PROVE  Whole(p) \/ UNCHANGED vars
    OBVIOUS
  <2>1. Types /\ Ranges(p) /\ Undoable(p) /\ final' \in [1..F -> Content]
    BY ShapeStep DEF Shape, Types, Alone
  <2>2. n \in 1..F /\ k[p] \in Nat /\ F \in Nat
    BY <2>1, PullAssumption DEF Types
  <2>3. ASSUME NEW q \in Procs, Step(q) PROVE Whole(p)
    <3>1. q = p
      BY <2>1, <2>3, OthersStay DEF Promoting
    <3>2. Step(p)
      BY <2>3, <3>1
    <3>3. ASSUME result'[p] = "error", \A i \in 1..F : final'[i] = before[p][i]
          PROVE  Whole(p)
      <4>1. before[p] \in [1..F -> Content]
        BY <2>1 DEF Types
      <4>2. final' = [i \in 1..F |-> final'[i]] /\ before[p] = [i \in 1..F |-> before[p][i]]
        BY <2>1, <4>1
      <4>3. [i \in 1..F |-> final'[i]] = [i \in 1..F |-> before[p][i]]
        BY <3>3
      <4> QED
        BY <3>3, <4>2, <4>3, Zenon
    <3> USE <2>1, <2>2
            DEF Types, Ranges, Undoable, Promoting, Forward, Back, Passed, Saved, Expected,
                registry, download, files
    <3>4. CASE Inspect(p)
      BY <3>3, <3>4 DEF Inspect, Goto, Finish, At, RollBackFrom
    <3>5. CASE Lookup(p)
      BY <3>3, <3>5 DEF Lookup, Goto, Finish, At, RollBackFrom
    <3>6. CASE MoveAside(p)
      BY <3>3, <3>6 DEF MoveAside, Goto, Finish, At, RollBackFrom
    <3>7. CASE Rename(p)
      <4>1. k[p] \in 1..F /\ pc[p] = "rename"
        BY <3>7 DEF Rename
      <4> QED
        BY <3>7, <4>1 DEF Rename, Goto, Finish, At, RollBackFrom
    <3>8. CASE RemoveFinal(p)
      <4>1. k[p] = 1 /\ k[p] \notin replaced[p] /\ before[p][1] = Absent
        BY <3>8 DEF RemoveFinal, Goto, Finish, At, RollBackFrom
      <4>2. final' = [final EXCEPT ![1] = Absent] /\ result'[p] = "error" /\ ~stuck[p]
        BY <3>8, <4>1 DEF RemoveFinal, Goto, Finish, At, RollBackFrom
      <4>3. \A i \in 1..F : final'[i] = before[p][i]
        BY <3>8, <4>1, <4>2 DEF RemoveFinal
      <4> QED
        BY <3>3, <4>2, <4>3
    <3>9. CASE PutBack(p)
      <4>1. k[p] = 1 /\ k[p] \in 1..F /\ backup[p][1] = before[p][1]
        BY <3>9 DEF PutBack, Goto, Finish, At, RollBackFrom
      <4>2. /\ stuck'[p] \/ final' = [final EXCEPT ![1] = backup[p][1]]
            /\ result'[p] = "error"
        BY <3>9, <4>1 DEF PutBack, Goto, Finish, At, RollBackFrom
      <4>3. ~stuck[p]
        BY <3>9 DEF PutBack
      <4>4. \A i \in 1..F : final'[i] = before[p][i]
        BY <3>9, <4>1, <4>2, <4>3 DEF PutBack
      <4> QED
        BY <3>3, <4>2, <4>4
    <3>10. CASE Clean(p)
      BY <3>10 DEF Clean, At
    <3>11. CASE Return(p)
      BY <3>11 DEF Return, Goto, Finish
    <3>12. CASE Resolve(p) \/ Confirm(p) \/ Download(p) \/ Die(p)
      BY <3>12 DEF Resolve, Confirm, Download, Die, Goto, Finish
    <3> QED
      BY <3>2, <3>4, <3>5, <3>6, <3>7, <3>8, <3>9, <3>10, <3>11, <3>12 DEF Step
  <2>4. CASE Push
    BY <2>4 DEF Push, Promoting
  <2> QED
    BY <2>3, <2>4 DEF Next, Over
<1> QED
  BY <1>1, ShapeInvariant, AloneInvariant, PTL DEF Spec, AllOrNothing

-------------------------------------------------------------------------------
(* No previous file is lost.                                               *)

\* The predecessor of file i is at its final path or in a backup.
Kept(i) == final[i] # Absent \/ \E q \in Procs : backup[q][i] # Absent

\* What was missing when p began to promote is held by somebody else.
Elsewhere(p) ==
  \A i \in Expected :
    before[p][i] = Absent => \E q \in Procs \ {p} : backup[q][i] # Absent

AloneKeeps ==
  had /\ ~overlapped =>
    /\ \A i \in Expected : Kept(i)
    /\ \A p \in Procs : Promoting(p) => Elsewhere(p)

\* One file, one step: what q does to the final path and its backup.
LEMMA KeptStep ==
  ASSUME Shape, Alone, NEW q \in Procs, Step(q), ~overlapped,
         NEW i \in Expected, Kept(i), Promoting(q) => Elsewhere(q)
  PROVE  Kept(i)'
<1>1. Types /\ Ranges(q) /\ (Promoting(q) => Undoable(q)) /\ i \in 1..F
  BY PullAssumption DEF Shape, Alone, Types, Expected
<1>2. \A r \in Procs \ {q} : backup'[r] = backup[r]
  BY <1>1, OthersStay
<1>3. CASE final'[i] # Absent \/ backup'[q][i] # Absent
  BY <1>3 DEF Kept
<1>4. CASE final'[i] = final[i] /\ backup'[q][i] = backup[q][i]
  BY <1>2, <1>4 DEF Kept
<1>5. ASSUME Promoting(q), before[q][i] = Absent PROVE Kept(i)'
  BY <1>2, <1>5 DEF Elsewhere, Kept
<1> USE <1>1 DEF Types, Ranges, Undoable, Promoting, Forward, Back, Passed, Saved,
                 registry, download, files
<1>6. CASE Resolve(q) \/ Confirm(q) \/ Download(q) \/ Return(q) \/ Die(q)
  BY <1>4, <1>6 DEF Resolve, Confirm, Download, Return, Die
<1>7. CASE Inspect(q) \/ Lookup(q)
  BY <1>4, <1>7 DEF Inspect, Lookup
<1>8. CASE MoveAside(q)
  <2>0. k[q] \in 1..F
    BY <1>8, PullAssumption DEF MoveAside
  <2>1. CASE UNCHANGED <<final, backup>>
    BY <1>4, <2>1
  <2>2. ASSUME final[k[q]] # Absent, k[q] \in 1..F,
               backup' = [backup EXCEPT ![q][k[q]] = final[k[q]]],
               final' = [final EXCEPT ![k[q]] = Absent]
        PROVE  Kept(i)'
    <3>1. backup'[q][i] = IF i = k[q] THEN final[i] ELSE backup[q][i]
      BY <2>2
    <3>2. final'[i] = IF i = k[q] THEN Absent ELSE final[i]
      BY <2>2
    <3> QED
      BY <1>3, <1>4, <2>2, <3>1, <3>2
  <2> QED
    BY <1>8, <2>0, <2>1, <2>2 DEF MoveAside
<1>9. CASE Rename(q)
  <2>1. CASE i = k[q] /\ final' = [final EXCEPT ![k[q]] = pulled[q]]
    BY <1>3, <2>1, Contents
  <2>2. CASE i # k[q] \/ final' = final
    BY <1>4, <1>9, <2>2 DEF Rename
  <2> QED
    BY <1>9, <2>1, <2>2 DEF Rename
<1>10. CASE RemoveFinal(q)
  <2>1. CASE i # k[q]
    BY <1>4, <1>10, <2>1 DEF RemoveFinal
  <2>2. CASE i = k[q] /\ backup[q][i] # Absent
    BY <1>3, <1>10, <2>2 DEF RemoveFinal
  <2>3. CASE i = k[q] /\ backup[q][i] = Absent
    <3>1. Promoting(q) /\ before[q][i] = Absent
      BY <1>10, <2>3 DEF RemoveFinal
    <3> QED
      BY <1>5, <3>1
  <2> QED
    BY <2>1, <2>2, <2>3
<1>11. CASE PutBack(q)
  <2>1. CASE i # k[q]
    <3>1. \/ UNCHANGED <<final, backup>>
          \/ /\ final' = [final EXCEPT ![k[q]] = backup[q][k[q]]]
             /\ backup' = [backup EXCEPT ![q][k[q]] = Absent]
      BY <1>11 DEF PutBack
    <3>2. CASE /\ final' = [final EXCEPT ![k[q]] = backup[q][k[q]]]
               /\ backup' = [backup EXCEPT ![q][k[q]] = Absent]
      <4>1. final'[i] = final[i] /\ backup'[q][i] = backup[q][i]
        BY <2>1, <3>2
      <4> QED
        BY <1>4, <4>1
    <3> QED
      BY <1>4, <3>1, <3>2
  <2>2. CASE i = k[q]
    <3>1. backup[q][i] # Absent
      BY <1>11, <2>2 DEF PutBack
    <3> QED
      BY <1>3, <1>11, <2>2, <3>1 DEF PutBack
  <2> QED
    BY <2>1, <2>2
<1>12. CASE Clean(q)
  <2>1. final[i] = pulled[q] /\ pulled[q] # Absent /\ final' = final
    BY <1>12, Contents DEF Clean
  <2> QED
    BY <1>3, <2>1
<1> QED
  BY <1>6, <1>7, <1>8, <1>9, <1>10, <1>11, <1>12 DEF Step

LEMMA AloneKeepsStep == Shape /\ Alone /\ AloneKeeps /\ [Next]_vars => AloneKeeps'
<1> SUFFICES ASSUME Shape, Alone, AloneKeeps, [Next]_vars, had', ~overlapped'
             PROVE  /\ \A i \in Expected' : Kept(i)'
                    /\ \A p \in Procs : Promoting(p)' => Elsewhere(p)'
  BY DEF AloneKeeps
<1>1. ASSUME NEW q \in Procs, Step(q)
      PROVE  /\ \A i \in Expected' : Kept(i)'
             /\ \A p \in Procs : Promoting(p)' => Elsewhere(p)'
  <2>1. had /\ ~overlapped /\ n' = n
    BY <1>1 DEF Step, Resolve, Confirm, Download, Inspect, Lookup, MoveAside, Rename,
         RemoveFinal, PutBack, Clean, Return, Die, registry
  <2>2. /\ Types /\ Exclusive
        /\ \A i \in Expected : Kept(i)
        /\ \A p \in Procs : Promoting(p) => Elsewhere(p)
    BY <2>1 DEF Shape, Alone, AloneKeeps
  <2>3. \A i \in Expected' : Kept(i)'
    <3>1. ASSUME NEW i \in Expected PROVE Kept(i)'
      BY <1>1, <2>1, <2>2, KeptStep
    <3> QED
      BY <2>1, <3>1 DEF Expected
  <2>4. ASSUME NEW p \in Procs, Promoting(p), before'[p] = before[p], Promoting(p)'
        PROVE  Elsewhere(p)'
    <3>1. \A r \in Procs \ {p} : backup'[r] = backup[r]
      <4>1. CASE q = p
        BY <1>1, <2>2, <4>1, OthersStay
      <4>2. CASE q # p
        BY <1>1, <2>2, <2>4, <4>2, OthersAreQuiet
      <4> QED
        BY <4>1, <4>2
    <3> QED
      BY <2>1, <2>2, <2>4, <3>1 DEF Elsewhere, Expected
  <2>5. ASSUME Promoting(q)', ~Promoting(q) PROVE Elsewhere(q)'
    <3>1. Download(q)
      BY <1>1, <2>2, <2>5 DEF Step, Resolve, Confirm, Download, Inspect, Lookup, MoveAside, Rename,
           RemoveFinal, PutBack, Clean, Return, Die, Promoting, Goto, Finish, Types
    <3>2. before'[q] = final /\ UNCHANGED backup
      BY <2>2, <2>5, <3>1 DEF Download, Promoting, Goto, Finish, Types, files
    <3>3. \A i \in 1..F : backup[q][i] = Absent
      BY <3>1 DEF Download, Shape, Ranges
    <3>4. \A i \in Expected : i \in 1..F
      BY <2>2, PullAssumption DEF Types, Expected
    <3> QED
      BY <2>1, <2>2, <3>2, <3>3, <3>4 DEF Elsewhere, Expected, Kept
  <2>6. ASSUME Promoting(q)', Promoting(q) PROVE Elsewhere(q)'
    <3>1. before' = before
      BY <1>1, <2>6 DEF Step, Resolve, Confirm, Download, Inspect, Lookup, MoveAside, Rename,
           RemoveFinal, PutBack, Clean, Return, Die, Promoting, download
    <3> QED
      BY <2>4, <2>6, <3>1
  <2>7. ASSUME NEW p \in Procs \ {q}, Promoting(p)' PROVE Elsewhere(p)'
    <3>1. Promoting(p) /\ before'[p] = before[p]
      BY <1>1, <2>2, <2>7, OthersStay DEF Promoting
    <3> QED
      BY <2>4, <2>7, <3>1
  <2> QED
    BY <2>3, <2>5, <2>6, <2>7
<1>2. CASE UNCHANGED <<n, had, before, pc, final, backup, overlapped>>
  BY <1>2 DEF AloneKeeps, Expected, Kept, Elsewhere, Promoting
<1> QED
  BY <1>1, <1>2 DEF Next, Over, Push, vars, registry, download

THEOREM AloneKeepsInvariant == Spec => []AloneKeeps
<1>1. Init => AloneKeeps
  <2> SUFFICES ASSUME Init, had PROVE AloneKeeps
    BY DEF AloneKeeps
  <2>1. \A i \in Expected : final[i] # Absent
    BY Contents, PullAssumption DEF Init, Expected
  <2>2. \A p \in Procs : ~Promoting(p)
    BY DEF Init, Promoting
  <2> QED
    BY <2>1, <2>2 DEF AloneKeeps, Kept
<1> QED
  BY <1>1, ShapeInvariant, AloneInvariant, AloneKeepsStep, PTL DEF Spec

-------------------------------------------------------------------------------
(* Promotions of one file, which may overlap.                              *)

Waiting == {"rename", "dead"}

\* While no file operation fails nothing is rolled back; a backup is held on
\* the way to the promotion and after it, and the final path is empty only
\* while somebody has moved its file aside.
OneFile ==
  n = 1 /\ ~failed =>
    /\ \A p \in Procs : pc[p] \notin Back
    /\ \A p \in Procs : backup[p][1] # Absent => pc[p] \in Waiting \/ (pc[p] = "clean" /\ k[p] = 1)
    /\ had => \/ final[1] # Absent
              \/ \E q \in Procs : pc[q] # "clean" /\ backup[q][1] # Absent
    /\ (\E p \in Procs : result[p] = "ok" \/ pc[p] = "clean") =>
         /\ final[1] # Old
         /\ final[1] # Absent \/ \E q \in Procs : pc[q] \in Waiting

LEMMA OneFileStep == Shape /\ OneFile /\ [Next]_vars => OneFile'
<1> SUFFICES ASSUME Shape, OneFile, [Next]_vars, n' = 1, ~failed' PROVE OneFile'
  BY DEF OneFile
<1>1. ASSUME NEW q \in Procs, Step(q) PROVE OneFile'
  <2>1. n = 1 /\ n' = 1 /\ had' = had /\ 1 \in 1..F
    BY <1>1, PullAssumption DEF Step, Resolve, Confirm, Download, Inspect, Lookup, MoveAside,
       Rename, RemoveFinal, PutBack, Clean, Return, Die, registry
  <2>2. ~failed
    BY <1>1, Zenon DEF Step, Resolve, Confirm, Download, Inspect, Lookup, MoveAside,
       Rename, RemoveFinal, PutBack, Clean, Return, Die, files
  <2>3. /\ \A p \in Procs : pc[p] \notin Back
        /\ \A p \in Procs : backup[p][1] # Absent
             => pc[p] \in Waiting \/ (pc[p] = "clean" /\ k[p] = 1)
    BY <2>1, <2>2 DEF OneFile
  <2>4. had => \/ final[1] # Absent
               \/ \E r \in Procs : pc[r] # "clean" /\ backup[r][1] # Absent
    BY <2>1, <2>2, Zenon DEF OneFile
  <2>5. (\E p \in Procs : result[p] = "ok" \/ pc[p] = "clean") =>
          final[1] # Old /\ (final[1] # Absent \/ \E r \in Procs : pc[r] \in Waiting)
    BY <2>1, <2>2, Zenon DEF OneFile
  <2>6. \A r \in Procs \ {q} : /\ pc'[r] = pc[r] /\ backup'[r] = backup[r]
                               /\ k'[r] = k[r] /\ result'[r] = result[r]
    BY <1>1, OthersStay DEF Shape
  <2>7. /\ Types /\ Ranges(q) /\ pc[q] \notin Back
        /\ backup[q][1] # Absent => pc[q] \in Waiting \/ (pc[q] = "clean" /\ k[q] = 1)
    BY <2>3 DEF Shape
  \* The step is one of six kinds.
  <2>8. ASSUME pc'[q] \notin Back \cup {"clean"}, final' = final, backup' = backup,
               result'[q] = "ok" => result[q] = "ok" \/ pc[q] = "clean",
               pc[q] \in Waiting => pc'[q] \in Waiting,
               backup[q][1] # Absent => pc'[q] \in Waiting
        PROVE  OneFile'
    BY <2>1, <2>3, <2>4, <2>5, <2>6, <2>8 DEF OneFile
  <2> USE <2>1, <2>7, PullAssumption DEF Types, Ranges, Back, Waiting, registry, download, files
  <2>9. CASE Resolve(q) \/ Confirm(q) \/ Download(q)
    BY <2>8, <2>9 DEF Resolve, Confirm, Download, Goto, Finish
  <2>10. ASSUME pc[q] \in Forward PROVE k[q] = 1
    BY <2>10 DEF Forward
  <2>11. CASE Inspect(q)
    BY <2>2, <2>8, <2>10, <2>11 DEF Inspect, Goto, Finish, At, RollBackFrom, Forward
  <2>12. CASE Lookup(q)
    BY <2>2, <2>8, <2>10, <2>12 DEF Lookup, Goto, Finish, At, RollBackFrom, Forward
  <2>13. CASE Die(q)
    BY <2>8, <2>13 DEF Die, Goto, Working
  <2>14. CASE Return(q)
    <3>1. backup[q][1] = Absent
      BY <2>14 DEF Return
    <3> QED
      BY <2>8, <2>14, <3>1 DEF Return, Goto, Finish
  <2>15. CASE RemoveFinal(q) \/ PutBack(q)
    BY <2>15 DEF RemoveFinal, PutBack
  <2>16. CASE MoveAside(q)
    <3>1. pc[q] = "aside" /\ k[q] = 1 /\ backup[q][1] = Absent
      BY <2>10, <2>16 DEF MoveAside, Forward
    <3>2. CASE pc'[q] = "rename"
      <4>1. /\ final' = [final EXCEPT ![1] = Absent] /\ final[1] # Absent
            /\ backup' = [backup EXCEPT ![q][1] = final[1]]
            /\ pc' = [pc EXCEPT ![q] = "rename"] /\ UNCHANGED <<k, result>>
        BY <2>16, <3>1, <3>2 DEF MoveAside, Goto, Finish, At, RollBackFrom
      <4>2. final'[1] = Absent /\ backup'[q][1] # Absent
        BY <4>1
      <4>3. Absent # Old /\ pc'[q] = "rename"
        BY <4>1, Contents
      <4> QED
        BY <2>3, <2>6, <4>1, <4>2, <4>3 DEF OneFile
    <3>3. CASE pc'[q] # "rename"
      BY <2>2, <2>8, <2>16, <3>1, <3>3 DEF MoveAside, Goto, Finish, At, RollBackFrom
    <3> QED
      BY <3>2, <3>3
  <2>17. CASE Rename(q)
    <3>1. pc[q] = "rename" /\ k[q] = 1
      BY <2>10, <2>17 DEF Rename, Forward
    <3>2. /\ final' = [final EXCEPT ![1] = pulled[q]] /\ UNCHANGED <<backup, result>>
          /\ pc' = [pc EXCEPT ![q] = "clean"] /\ k' = [k EXCEPT ![q] = 1]
      BY <2>17, <3>1 DEF Rename, Goto, At
    <3>3. final'[1] \notin {Absent, Old} /\ pc'[q] = "clean" /\ k'[q] = 1
      BY <3>2, Contents
    <3> QED
      BY <2>3, <2>6, <3>2, <3>3 DEF OneFile
  <2>18. CASE Clean(q)
    <3>1. /\ pc[q] = "clean" /\ k[q] = 1 /\ UNCHANGED <<final, pc, result>>
          /\ backup' = [backup EXCEPT ![q][1] = Absent]
      BY <2>18 DEF Clean
    <3>2. backup'[q][1] = Absent
      BY <3>1
    <3> QED
      BY <2>3, <2>4, <2>5, <2>6, <3>1, <3>2 DEF OneFile
  <2> QED
    BY <1>1, <2>9, <2>11, <2>12, <2>13, <2>14, <2>15, <2>16, <2>17, <2>18 DEF Step
<1>2. CASE UNCHANGED <<n, had, failed, pc, k, result, final, backup>>
  BY <1>2 DEF OneFile
<1> QED
  BY <1>1, <1>2 DEF Next, Over, Push, vars, registry, files

THEOREM OneFileInvariant == Spec => []OneFile
<1>1. Init => OneFile
  <2> SUFFICES ASSUME Init, n = 1 PROVE OneFile
    BY DEF OneFile
  <2>1. \A p \in Procs : pc[p] = "idle" /\ backup[p][1] = Absent /\ result[p] = "none"
    BY PullAssumption DEF Init
  <2>2. had => final[1] # Absent
    BY PullAssumption, Contents DEF Init
  <2> QED
    BY <2>1, <2>2 DEF OneFile, Back, Waiting
<1> QED
  BY <1>1, ShapeInvariant, OneFileStep, PTL DEF Spec

\* What was there before is lost at no moment: not by a pull that has the
\* files to itself, whatever fails and wherever it dies, and not by
\* overlapping pulls of one file while no file operation fails.
THEOREM NothingIsLost == Spec => []PreviousSurvives
<1>1. Shape /\ AloneKeeps /\ OneFile => PreviousSurvives
  <2> SUFFICES ASSUME Shape, AloneKeeps, OneFile, had, ~overlapped \/ (n = 1 /\ ~failed),
                      NEW i \in Expected
               PROVE  final[i] # Absent \/ \E p \in Procs : backup[p][i] # Absent
    BY DEF PreviousSurvives
  <2>1. CASE ~overlapped
    BY <2>1 DEF AloneKeeps, Kept
  <2>2. CASE n = 1 /\ ~failed
    <3>1. i = 1
      BY <2>2 DEF Expected
    <3>2. final[1] # Absent \/ \E q \in Procs : backup[q][1] # Absent
      BY <2>2, Zenon DEF OneFile
    <3> QED
      BY <3>1, <3>2
  <2> QED
    BY <2>1, <2>2
<1> QED
  BY <1>1, ShapeInvariant, AloneKeepsInvariant, OneFileInvariant, PTL

\* When all pulls of one file have ended in order, one success means that a
\* pulled file is there and no backup is left, however they overlapped.
THEOREM SuccessMeansFile == Spec => []SuccessLeavesFile
<1>1. Shape /\ OneFile => SuccessLeavesFile
  <2> SUFFICES ASSUME Shape, OneFile, \A p \in Procs : pc[p] = "done", n = 1, ~failed,
                      NEW r \in Procs, result[r] = "ok"
               PROVE  final[1] \in Names /\ \A p \in Procs : backup[p][1] = Absent
    BY DEF SuccessLeavesFile
  <2>1. final[1] \in Content
    BY PullAssumption DEF Shape, Types
  <2>2. final[1] # Old /\ final[1] # Absent
    BY DEF OneFile, Waiting
  <2>3. \A p \in Procs : backup[p][1] = Absent
    BY DEF OneFile, Waiting
  <2> QED
    BY <2>1, <2>2, <2>3 DEF Content
<1> QED
  BY <1>1, ShapeInvariant, OneFileInvariant, PTL
===============================================================================
