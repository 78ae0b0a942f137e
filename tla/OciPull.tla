-------------------------------- MODULE OciPull --------------------------------
(***************************************************************************)
(* `alchemy pull` of one VM's build artifacts: the registry's manifest is  *)
(* resolved and validated, the artifact downloaded into a staging          *)
(* directory, and its files promoted to their final paths, each after the  *)
(* file it replaces has been moved aside (pkg/oci/artifacts.go,            *)
(* manifest.go and promote.go).  Several pulls of the same VM may run at   *)
(* once, any of them may die between two file operations, and the tag may  *)
(* be pushed to meanwhile.                                                 *)
(***************************************************************************)
EXTENDS Naturals, Sequences, FiniteSets

CONSTANTS
  Procs,              \* the processes that pull this VM
  F,                  \* most files a VM's artifact consists of
  Target,             \* the VM: what its manifest's annotations must say
  Manifest,           \* the manifests that may stand behind the tag, by name
  MaxPushes           \* bound on the pushes to the tag

Names == DOMAIN Manifest

ASSUME PullAssumption ==
  /\ F \in Nat \ {0} /\ MaxPushes \in Nat
  /\ Names \cap {"absent", "old"} = {}
  /\ \A name \in Names : Manifest[name].layers \in Seq([title : Nat, media : STRING])

VARIABLES
  n,                  \* number of files of this VM's artifact
  had,                \* they were all there to begin with
  tag,                \* the manifest the tag points at
  pushes,             \* pushes to it so far
  pc,                 \* pc[p]: where process p stands
  digest,             \* digest[p]: p pulls by digest, not by tag
  result,             \* result[p]: what Pull returned
  resolved,           \* resolved[p]: the manifest that was validated
  confirmed,          \* confirmed[p]: the user accepted a foreign artifact
  pulled,             \* pulled[p]: the manifest whose layers were downloaded
  k,                  \* k[p]: the file p is at
  replaced,           \* replaced[p]: files whose predecessor p moved aside
  final,              \* final[i]: what the final path of file i holds
  backup,             \* backup[p][i]: what p's backup of it holds
  before,             \* before[p]: the final paths when p began to promote
  failed,             \* some file operation failed
  stuck,              \* stuck[p]: p's rollback or cleanup failed
  overlapped          \* two promotions have run at the same time

registry == <<n, had, tag, pushes>>
download == <<digest, resolved, confirmed, pulled, before>>
vars     == <<registry, download, pc, result, k, replaced, final, backup, failed, stuck,
              overlapped>>

Expected == 1..n
Absent   == "absent"
Old      == "old"

-------------------------------------------------------------------------------
(* The manifest.  A manifest is a record: artifact, whether its artifact   *)
(* type is Dev Alchemy's; annotated, whether it has annotations; target,   *)
(* what they say of the VM; layers, a sequence of titles and media types.  *)
(* The expected layer of file i has title i; title 0 is a missing one.     *)

TargetKeys == {"os", "type", "arch", "host", "engine"}

Differing(m) == {key \in TargetKeys : m.target[key] # Target[key]}

MatchesTarget(m) == m.annotated /\ Differing(m) = {}

\* normalizeArtifactHostOS.  The code ignores case, here and in the guest's
\* name, and takes any name that begins with windows; the values are lower
\* case, and windows11 is the only such name.
NormalHost(s) ==
  CASE s \in {"linux", "debian"} -> "debian"
    [] s \in {"macos", "darwin"} -> "darwin"
    [] s = "windows"             -> "windows"
    [] OTHER                     -> "unknown"

BugForeign(m) ==
  /\ m.annotated
  /\ Target.os \in {"ubuntu", "windows11"}
  /\ Differing(m) # {}
  /\ {NormalHost(m.target.host), Target.host} = {"debian", "darwin"}
  /\ m.target.engine # ""

\* compatibleForeignArtifact.
Foreign(m) ==
  /\ m.annotated
  /\ Target.os \in {"ubuntu", "windows11"}
  /\ Differing(m) # {} /\ Differing(m) \subseteq {"host", "engine"}
  /\ {NormalHost(m.target.host), Target.host} = {"debian", "darwin"}
  /\ m.target.engine # ""

\* validateManifestLayers, one layer after the other with the titles seen.
LayersValid(m) ==
  LET Title(i) == m.layers[i].title IN
  /\ \A i \in 1..Len(m.layers) :
       /\ Title(i) # 0
       /\ \A j \in 1..(i - 1) : Title(j) # Title(i)
       /\ Title(i) \in Expected
       /\ m.layers[i].media = "expected"
  /\ Len(m.layers) = n
  /\ Expected \subseteq {Title(i) : i \in 1..Len(m.layers)}

\* validateManifestForPull: what becomes of the pull.
Validation(m) ==
  IF ~m.artifact THEN "reject"
  ELSE IF MatchesTarget(m) THEN IF LayersValid(m) THEN "accept" ELSE "reject"
  ELSE IF Foreign(m) /\ LayersValid(m) THEN "confirm"
  ELSE "reject"

\* Files of the artifact that a download leaves in the staging directory.
Staged(name) ==
  {i \in Expected : \E j \in DOMAIN Manifest[name].layers : Manifest[name].layers[j].title = i}

-------------------------------------------------------------------------------
Init ==
  /\ n \in 1..F /\ had \in BOOLEAN
  /\ tag \in Names /\ pushes = 0
  /\ pc = [p \in Procs |-> "idle"]
  /\ digest \in [Procs -> BOOLEAN]
  /\ result = [p \in Procs |-> "none"]
  /\ resolved = [p \in Procs |-> tag] /\ pulled = [p \in Procs |-> tag]
  /\ confirmed = [p \in Procs |-> FALSE]
  /\ k = [p \in Procs |-> 1]
  /\ replaced = [p \in Procs |-> {}]
  /\ final = [i \in 1..F |-> IF had /\ i <= n THEN Old ELSE Absent]
  /\ backup = [p \in Procs |-> [i \in 1..F |-> Absent]]
  /\ before = [p \in Procs |-> final]
  /\ failed = FALSE
  /\ stuck = [p \in Procs |-> FALSE]
  /\ overlapped = FALSE

Goto(p, l) == pc' = [pc EXCEPT ![p] = l]

At(p, i) == k' = [k EXCEPT ![p] = i]

Finish(p, r) == Goto(p, "done") /\ result' = [result EXCEPT ![p] = r]

Promoting(p) ==
  pc[p] \in {"inspect", "lookup", "aside", "rename", "clean", "remove", "putback"}

Working(p) == pc[p] \notin {"idle", "done", "dead"}

\* Somebody pushes to the tag.
Push ==
  /\ pushes < MaxPushes
  /\ tag' \in Names
  /\ pushes' = pushes + 1
  /\ UNCHANGED <<n, had, download, pc, result, k, replaced, final, backup, failed, stuck, overlapped>>

-------------------------------------------------------------------------------
(* Pull, up to the promotion.  The definitions named Bug... are slips for  *)
(* the mutation runs; no other definition uses them.                       *)

files == <<final, backup, replaced, k, failed, stuck>>

\* The reference is resolved and the manifest validated; or the registry fails.
Resolve(p) ==
  /\ pc[p] = "idle"
  /\ resolved' = [resolved EXCEPT ![p] = tag]
  /\ \/ Validation(Manifest[tag]) = "accept" /\ Goto(p, "download") /\ UNCHANGED result
     \/ Validation(Manifest[tag]) = "confirm" /\ Goto(p, "confirm") /\ UNCHANGED result
     \/ Finish(p, "error")
  /\ UNCHANGED <<registry, digest, confirmed, pulled, before, files>>

\* The user, or --yes, accepts the foreign artifact or not.
Confirm(p) ==
  /\ pc[p] = "confirm"
  /\ \/ /\ confirmed' = [confirmed EXCEPT ![p] = TRUE]
        /\ Goto(p, "download") /\ UNCHANGED result
     \/ Finish(p, "error") /\ UNCHANGED confirmed
  /\ UNCHANGED <<registry, digest, resolved, pulled, before, files>>

\* The copy resolves the reference anew: a tag may point elsewhere by now.
Download(p) ==
  /\ pc[p] = "download"
  /\ \/ /\ pulled' = [pulled EXCEPT ![p] = IF digest[p] THEN resolved[p] ELSE tag]
        /\ before' = [before EXCEPT ![p] = final]
        /\ Goto(p, "inspect") /\ UNCHANGED result
     \/ Finish(p, "error") /\ UNCHANGED <<pulled, before>>
  /\ UNCHANGED <<registry, digest, resolved, confirmed, files>>

-------------------------------------------------------------------------------
(* promotePulledArtifacts, one file operation per step.                    *)

BugRollBackFrom(p, i) == Goto(p, "remove") /\ k' = [k EXCEPT ![p] = i] /\ UNCHANGED result

\* Undo the files up to i, or give up if there is none.
RollBackFrom(p, i) ==
  IF i = 0 THEN Finish(p, "error") /\ UNCHANGED k
  ELSE Goto(p, "remove") /\ At(p, i) /\ UNCHANGED result

\* The staged file must be there, and its directory is made.
Inspect(p) ==
  /\ pc[p] = "inspect"
  /\ \/ /\ k[p] \in Staged(pulled[p])
        /\ Goto(p, "lookup")
        /\ UNCHANGED <<k, result, failed>>
     \/ /\ RollBackFrom(p, k[p] - 1)
        /\ failed' = (failed \/ k[p] \in Staged(pulled[p]))
  /\ UNCHANGED <<registry, download, replaced, final, backup, stuck>>

BugLookup(p) ==
  /\ pc[p] = "lookup"
  /\ Goto(p, "rename")
  /\ UNCHANGED <<registry, download, k, result, failed, replaced, final, backup, stuck>>

\* Is there a file to move aside?
Lookup(p) ==
  /\ pc[p] = "lookup"
  /\ \/ /\ Goto(p, IF final[k[p]] = Absent THEN "rename" ELSE "aside")
        /\ UNCHANGED <<k, result, failed>>
     \/ RollBackFrom(p, k[p] - 1) /\ failed' = TRUE
  /\ UNCHANGED <<registry, download, replaced, final, backup, stuck>>

\* It is moved; another promotion may have moved it first.
MoveAside(p) ==
  /\ pc[p] = "aside"
  /\ \/ /\ final[k[p]] # Absent
        /\ backup' = [backup EXCEPT ![p][k[p]] = final[k[p]]]
        /\ final' = [final EXCEPT ![k[p]] = Absent]
        /\ replaced' = [replaced EXCEPT ![p] = @ \cup {k[p]}]
        /\ Goto(p, "rename")
        /\ UNCHANGED <<k, result, failed>>
     \/ /\ RollBackFrom(p, k[p] - 1)
        /\ failed' = (failed \/ final[k[p]] # Absent)
        /\ UNCHANGED <<replaced, final, backup>>
  /\ UNCHANGED <<registry, download, stuck>>

BugRename(p) ==
  /\ pc[p] = "rename"
  /\ \/ /\ final' = [final EXCEPT ![k[p]] = pulled[p]]
        /\ IF k[p] = n THEN Goto(p, "clean") /\ At(p, 1)
                       ELSE Goto(p, "inspect") /\ At(p, k[p] + 1)
        /\ UNCHANGED <<result, failed>>
     \/ /\ RollBackFrom(p, k[p] - 1)
        /\ failed' = TRUE
        /\ UNCHANGED final
  /\ UNCHANGED <<registry, download, replaced, backup, stuck>>

\* The staged file takes its place.  If that fails, this file too is undone.
Rename(p) ==
  /\ pc[p] = "rename"
  /\ \/ /\ final' = [final EXCEPT ![k[p]] = pulled[p]]
        /\ IF k[p] = n THEN Goto(p, "clean") /\ At(p, 1)
                       ELSE Goto(p, "inspect") /\ At(p, k[p] + 1)
        /\ UNCHANGED <<result, failed>>
     \/ /\ RollBackFrom(p, k[p])
        /\ failed' = TRUE
        /\ UNCHANGED final
  /\ UNCHANGED <<registry, download, replaced, backup, stuck>>

\* rollbackPulledArtifacts: the promoted file goes ...
RemoveFinal(p) ==
  /\ pc[p] = "remove"
  /\ \/ /\ final' = [final EXCEPT ![k[p]] = Absent]
        /\ IF k[p] \in replaced[p] THEN Goto(p, "putback") /\ UNCHANGED <<k, result>>
                                   ELSE RollBackFrom(p, k[p] - 1)
        /\ UNCHANGED <<failed, stuck>>
     \/ /\ RollBackFrom(p, k[p] - 1)
        /\ failed' = TRUE /\ stuck' = [stuck EXCEPT ![p] = TRUE]
        /\ UNCHANGED final
  /\ UNCHANGED <<registry, download, replaced, backup>>

\* ... and its predecessor comes back.
PutBack(p) ==
  /\ pc[p] = "putback"
  /\ \/ /\ final' = [final EXCEPT ![k[p]] = backup[p][k[p]]]
        /\ backup' = [backup EXCEPT ![p][k[p]] = Absent]
        /\ UNCHANGED <<failed, stuck>>
     \/ /\ failed' = TRUE /\ stuck' = [stuck EXCEPT ![p] = TRUE]
        /\ UNCHANGED <<final, backup>>
  /\ RollBackFrom(p, k[p] - 1)
  /\ UNCHANGED <<registry, download, replaced>>

BugClean(p) ==
  /\ pc[p] = "clean" /\ k[p] <= n
  /\ At(p, k[p] + 1)
  /\ UNCHANGED <<registry, download, pc, result, replaced, final, backup, failed, stuck>>

\* All files are in place: the backups are removed.
Clean(p) ==
  /\ pc[p] = "clean" /\ k[p] <= n
  /\ At(p, k[p] + 1)
  /\ \/ /\ backup' = [backup EXCEPT ![p][k[p]] = Absent]
        /\ UNCHANGED <<failed, stuck>>
     \/ /\ k[p] \in replaced[p]
        /\ failed' = TRUE /\ stuck' = [stuck EXCEPT ![p] = TRUE]
        /\ UNCHANGED backup
  /\ UNCHANGED <<registry, download, pc, result, replaced, final>>

\* Pull stats what it promoted and returns.
Return(p) ==
  /\ pc[p] = "clean" /\ k[p] > n
  /\ Finish(p, IF stuck[p] \/ \E i \in Expected : final[i] = Absent THEN "error" ELSE "ok")
  /\ UNCHANGED <<registry, download, files>>

\* The process is killed: its deferred cleanup does not run.
Die(p) ==
  /\ Working(p)
  /\ Goto(p, "dead")
  /\ UNCHANGED <<registry, download, result, files>>

-------------------------------------------------------------------------------
Step(p) ==
  /\ \/ Resolve(p) \/ Confirm(p) \/ Download(p)
     \/ Inspect(p) \/ Lookup(p) \/ MoveAside(p) \/ Rename(p)
     \/ RemoveFinal(p) \/ PutBack(p) \/ Clean(p) \/ Return(p)
     \/ Die(p)
  /\ overlapped' = (overlapped \/ \E q \in Procs \ {p} : Promoting(p)' /\ Promoting(q))

Over == (\A p \in Procs : pc[p] \in {"done", "dead"}) /\ UNCHANGED vars

Next == (\E p \in Procs : Step(p)) \/ Push \/ Over

Spec == Init /\ [][Next]_vars

-------------------------------------------------------------------------------
(* Properties.                                                             *)

Content == Names \cup {Absent, Old}

TypeOK ==
  /\ n \in 1..F /\ had \in BOOLEAN /\ tag \in Names /\ pushes \in 0..MaxPushes
  /\ pc \in [Procs -> {"idle", "confirm", "download", "inspect", "lookup", "aside", "rename",
                       "clean", "remove", "putback", "done", "dead"}]
  /\ {digest, confirmed, stuck} \subseteq [Procs -> BOOLEAN]
  /\ result \in [Procs -> {"none", "ok", "error"}]
  /\ {resolved, pulled} \subseteq [Procs -> Names]
  /\ k \in [Procs -> 1..(F + 1)]
  /\ replaced \in [Procs -> SUBSET (1..F)]
  /\ final \in [1..F -> Content]
  /\ {backup[p] : p \in Procs} \cup {before[p] : p \in Procs} \subseteq [1..F -> Content]
  /\ {failed, overlapped} \subseteq BOOLEAN

\* docs/adr/0003: the manifests a pull may accept, c telling whether the user
\* has confirmed a foreign one.
HoldsFiles(m) ==
  \A i \in Expected :
    /\ Cardinality({j \in DOMAIN m.layers : m.layers[j].title = i}) = 1
    /\ \A j \in DOMAIN m.layers : m.layers[j].title = i => m.layers[j].media = "expected"

Same(m, keys) == \A key \in keys : m.target[key] = Target[key]

OtherUnix(m) ==
  {m.target.host, Target.host} \in {{h, d} : h \in {"linux", "debian"}, d \in {"macos", "darwin"}}

Acceptable(m, c) ==
  /\ m.artifact /\ HoldsFiles(m)
  /\ m.annotated /\ Same(m, {"os", "type", "arch"})
  /\ Same(m, {"host", "engine"}) \/ (c /\ OtherUnix(m))

\* What is promoted is fit for this VM by the rules of the ADR, unless the tag
\* was moved between the validation and the download.
PromotedIsAcceptable ==
  \A p \in Procs : Promoting(p) /\ pulled[p] = resolved[p]
    => Acceptable(Manifest[pulled[p]], confirmed[p])

\* A pull that had the final paths to itself ends with all files new or with
\* all as they were, at whichever file and whichever operation it failed, and
\* only the former is a success.
AllOrNothing ==
  [][\A p \in Procs :
       /\ Promoting(p) /\ pc'[p] = "done"
       /\ ~overlapped /\ ~stuck'[p]
       => \/ \A i \in Expected : final'[i] = pulled[p]
          \/ result'[p] = "error" /\ final' = before[p]]_vars

\* The files that were there are lost at no moment, not even by a pull that is
\* killed: each has a successor or a backup.  Promotions that overlap keep
\* this for an artifact of one file while no file operation fails.
PreviousSurvives ==
  had /\ (~overlapped \/ (n = 1 /\ ~failed))
  => \A i \in Expected : final[i] # Absent \/ \E p \in Procs : backup[p][i] # Absent

\* When all pulls of an artifact of one file have ended in order, however they
\* overlapped, one success is enough for the file to be there, and no backup
\* is left beside it.
SuccessLeavesFile ==
  /\ \A p \in Procs : pc[p] = "done"
  /\ n = 1 /\ ~failed
  /\ \E p \in Procs : result[p] = "ok"
  => final[1] \in Names /\ \A p \in Procs : backup[p][1] = Absent

\* docs/adr/0003: a foreign artifact takes a final path only after somebody
\* has confirmed its use.
ForeignIsConfirmed ==
  \A i \in Expected :
    final[i] \in Names /\ Validation(Manifest[final[i]]) = "confirm"
    => \E p \in Procs : confirmed[p]
===============================================================================
