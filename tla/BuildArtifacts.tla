---------------------------- MODULE BuildArtifacts ----------------------------
(***************************************************************************)
(* The build artifact of one VM on disk, and the `alchemy build` processes *)
(* that check, stage, back up, write, promote, remove and restore it       *)
(* (pkg/build/generic_build.go).  Processes may overlap, since nothing     *)
(* locks the artifact, and any of them may die between two steps.  Every   *)
(* VM of AvailableVirtualMachineConfigs has one artifact, so the loops     *)
(* over artifacts are single steps here.                                   *)
(*                                                                         *)
(* A no-cache build writes a staged file of its own and renames it into    *)
(* place; any other build writes the final path directly.                  *)
(***************************************************************************)
CONSTANT Procs        \* the processes that build this VM

VARIABLES
  pc,                 \* pc[p]: where process p stands
  nocache,            \* nocache[p]: p was started with --no-cache
  result,             \* result[p]: what RunBuildScript returned
  final,              \* the artifact at its final path
  staged,             \* staged[p]: p's staged artifact
  backup,             \* backup[p]: p's backup of the final path
  trouble,            \* a file operation failed or a process died
  overlapped          \* two processes were at work at the same time

vars == <<pc, nocache, result, final, staged, backup, trouble, overlapped>>

\* What a path holds: nothing, or the file of the process that wrote it, which
\* is whole once its script succeeded.  "nobody" wrote what was there before.
Absent   == <<"nobody", "absent">>
Old      == <<"nobody", "whole">>
Part(p)  == <<p, "part">>
Whole(p) == <<p, "whole">>
Content  == {Absent, Old} \cup {Part(p) : p \in Procs} \cup {Whole(p) : p \in Procs}
IsWhole(c) == c[2] = "whole"

PC == {"idle", "prepare", "script", "writing", "succeeded", "failed", "restore",
       "replace", "promote", "undo", "drop", "done", "dead", "orphan"}

Init ==
  /\ pc = [p \in Procs |-> "idle"]
  /\ nocache \in [Procs -> BOOLEAN]
  /\ result = [p \in Procs |-> "none"]
  /\ final \in {Absent, Old}
  /\ staged = [p \in Procs |-> Absent]
  /\ backup = [p \in Procs |-> Absent]
  /\ trouble = FALSE
  /\ overlapped = FALSE

Goto(p, l) == pc' = [pc EXCEPT ![p] = l]

Working(p) == pc[p] \notin {"idle", "done", "dead", "orphan"}

\* RunBuildScript returns.
Finish(p, r) ==
  /\ Goto(p, "done")
  /\ result' = [result EXCEPT ![p] = r]

-------------------------------------------------------------------------------
(* prepareBuildArtifactsForBuild.  The definitions named Bug... are slips  *)
(* for the mutation runs; no other definition uses them.                   *)

\* Without --no-cache an artifact that is there, whatever it holds, ends the
\* build with success.
Check(p) ==
  /\ pc[p] = "idle"
  /\ IF ~nocache[p] /\ final # Absent
     THEN Finish(p, "skipped")
     ELSE Goto(p, "prepare") /\ UNCHANGED result
  /\ UNCHANGED <<nocache, final, staged, backup, trouble>>

\* A no-cache build clears its staged path.
PrepareStaged(p) ==
  /\ pc[p] = "prepare" /\ nocache[p]
  /\ staged' = [staged EXCEPT ![p] = Absent]
  /\ Goto(p, "script")
  /\ UNCHANGED <<nocache, result, final, backup, trouble>>

\* Any other build moves aside what has appeared since the check.
BackUp(p) ==
  /\ pc[p] = "prepare" /\ ~nocache[p]
  /\ \/ /\ backup' = [backup EXCEPT ![p] = final]
        /\ final' = Absent
        /\ Goto(p, "script")
        /\ UNCHANGED <<result, trouble>>
     \/ /\ final # Absent
        /\ Finish(p, "error")
        /\ trouble' = TRUE
        /\ UNCHANGED <<backup, final>>
  /\ UNCHANGED <<nocache, staged>>

-------------------------------------------------------------------------------
(* The build script.                                                       *)

BugScriptBegins(p) ==
  /\ pc[p] = "script"
  /\ final' = Part(p) /\ staged' = staged
  /\ Goto(p, "writing")
  /\ UNCHANGED <<nocache, result, backup, trouble>>

\* It removes its target and creates it anew, long before it is whole.
ScriptBegins(p) ==
  /\ pc[p] = "script"
  /\ IF nocache[p]
     THEN staged' = [staged EXCEPT ![p] = Part(p)] /\ UNCHANGED final
     ELSE final' = Part(p) /\ UNCHANGED staged
  /\ Goto(p, "writing")
  /\ UNCHANGED <<nocache, result, backup, trouble>>

\* It completes the file it created, if that is still the one at the path.
Complete(p) ==
  IF nocache[p]
  THEN staged' = [staged EXCEPT ![p] = Whole(p)] /\ UNCHANGED final
  ELSE final' = (IF final = Part(p) THEN Whole(p) ELSE final) /\ UNCHANGED staged

ScriptSucceeds(p) ==
  /\ pc[p] = "writing"
  /\ Complete(p)
  /\ Goto(p, "succeeded")
  /\ UNCHANGED <<nocache, result, backup, trouble>>

ScriptFails(p) ==
  /\ pc[p] \in {"script", "writing"}
  /\ Goto(p, "failed")
  /\ UNCHANGED <<nocache, result, final, staged, backup, trouble>>

-------------------------------------------------------------------------------
(* The cleanup closure.                                                    *)

\* A build that wrote the final path drops its backup.
KeepFinal(p) ==
  /\ pc[p] = "succeeded" /\ ~nocache[p]
  /\ \/ /\ backup' = [backup EXCEPT ![p] = Absent]
        /\ Finish(p, "ok")
        /\ UNCHANGED trouble
     \/ /\ backup[p] # Absent
        /\ Finish(p, "error")
        /\ trouble' = TRUE
        /\ UNCHANGED backup
  /\ UNCHANGED <<nocache, final, staged>>

BugRemoveFinal(p) ==
  /\ pc[p] = "failed" /\ ~nocache[p]
  /\ Goto(p, "restore")
  /\ UNCHANGED <<nocache, result, final, staged, backup, trouble>>

\* A failed one removes what is at the final path, and goes on either way ...
RemoveFinal(p) ==
  /\ pc[p] = "failed" /\ ~nocache[p]
  /\ \/ final' = Absent /\ UNCHANGED trouble
     \/ final # Absent /\ final' = final /\ trouble' = TRUE
  /\ Goto(p, "restore")
  /\ UNCHANGED <<nocache, result, staged, backup>>

\* ... to put its backup back.
Restore(p) ==
  /\ pc[p] = "restore"
  /\ IF backup[p] = Absent THEN UNCHANGED <<final, backup, trouble>>
     ELSE \/ /\ final' = backup[p]
             /\ backup' = [backup EXCEPT ![p] = Absent]
             /\ UNCHANGED trouble
          \/ trouble' = TRUE /\ UNCHANGED <<final, backup>>
  /\ Finish(p, "error")
  /\ UNCHANGED <<nocache, staged>>

\* A failed no-cache build removes its staged file.
DiscardStaged(p) ==
  /\ pc[p] = "failed" /\ nocache[p]
  /\ \/ staged' = [staged EXCEPT ![p] = Absent] /\ UNCHANGED trouble
     \/ staged[p] # Absent /\ trouble' = TRUE /\ UNCHANGED staged
  /\ Finish(p, "error")
  /\ UNCHANGED <<nocache, final, backup>>

-------------------------------------------------------------------------------
(* promoteStagedBuildArtifacts and replaceBuildArtifact, one file          *)
(* operation per step.                                                     *)

\* The staged file and then the final path are inspected.
Inspect(p) ==
  /\ pc[p] = "succeeded" /\ nocache[p]
  /\ \/ /\ Goto(p, IF final = Absent THEN "promote" ELSE "replace")
        /\ UNCHANGED <<result, trouble>>
     \/ Finish(p, "error") /\ trouble' = TRUE
  /\ UNCHANGED <<nocache, final, staged, backup>>

BugMoveAside(p) ==
  /\ pc[p] = "replace"
  /\ \/ /\ final # Absent
        /\ staged' = [staged EXCEPT ![p] = final]
        /\ final' = Absent
        /\ Goto(p, "promote")
        /\ UNCHANGED <<result, trouble>>
     \/ /\ Finish(p, "error")
        /\ trouble' = (trouble \/ final # Absent)
        /\ UNCHANGED <<staged, final>>
  /\ UNCHANGED <<nocache, backup>>

\* The final file is moved aside; it may be gone by now.
MoveAside(p) ==
  /\ pc[p] = "replace"
  /\ \/ /\ final # Absent
        /\ backup' = [backup EXCEPT ![p] = final]
        /\ final' = Absent
        /\ Goto(p, "promote")
        /\ UNCHANGED <<result, trouble>>
     \/ /\ Finish(p, "error")
        /\ trouble' = (trouble \/ final # Absent)
        /\ UNCHANGED <<backup, final>>
  /\ UNCHANGED <<nocache, staged>>

BugPromote(p) ==
  /\ pc[p] = "promote"
  /\ \/ /\ final' = staged[p]
        /\ staged' = [staged EXCEPT ![p] = Absent]
        /\ Goto(p, "drop")
        /\ UNCHANGED trouble
     \/ Goto(p, "drop") /\ trouble' = TRUE /\ UNCHANGED <<final, staged>>
  /\ UNCHANGED <<nocache, result, backup>>

Promote(p) ==
  /\ pc[p] = "promote"
  /\ \/ /\ final' = staged[p]
        /\ staged' = [staged EXCEPT ![p] = Absent]
        /\ Goto(p, "drop")
        /\ UNCHANGED trouble
     \/ Goto(p, "undo") /\ trouble' = TRUE /\ UNCHANGED <<final, staged>>
  /\ UNCHANGED <<nocache, result, backup>>

\* The rename failed: the previous artifact goes back, if there was one.
Undo(p) ==
  /\ pc[p] = "undo"
  /\ \/ /\ backup[p] # Absent
        /\ final' = backup[p]
        /\ backup' = [backup EXCEPT ![p] = Absent]
     \/ UNCHANGED <<final, backup>>
  /\ Finish(p, "error")
  /\ UNCHANGED <<nocache, staged, trouble>>

BugDropBackup(p) ==
  /\ pc[p] = "drop"
  /\ Finish(p, "ok")
  /\ UNCHANGED <<nocache, final, staged, backup, trouble>>

DropBackup(p) ==
  /\ pc[p] = "drop"
  /\ \/ /\ backup' = [backup EXCEPT ![p] = Absent]
        /\ Finish(p, "ok")
        /\ UNCHANGED trouble
     \/ /\ backup[p] # Absent
        /\ Finish(p, "error")
        /\ trouble' = TRUE
        /\ UNCHANGED backup
  /\ UNCHANGED <<nocache, final, staged>>

-------------------------------------------------------------------------------
\* The process is killed, or log.Fatalf ends it: no deferred call runs.  Its
\* script has a process group of its own and may live on.
Die(p) ==
  /\ Working(p)
  /\ \/ Goto(p, "dead")
     \/ pc[p] = "writing" /\ Goto(p, "orphan")
  /\ trouble' = TRUE
  /\ UNCHANGED <<nocache, result, final, staged, backup>>

OrphanCompletes(p) ==
  /\ pc[p] = "orphan"
  /\ Complete(p)
  /\ Goto(p, "dead")
  /\ UNCHANGED <<nocache, result, backup, trouble>>

Step(p) ==
  /\ \/ Check(p) \/ PrepareStaged(p) \/ BackUp(p)
     \/ ScriptBegins(p) \/ ScriptSucceeds(p) \/ ScriptFails(p)
     \/ KeepFinal(p) \/ RemoveFinal(p) \/ Restore(p) \/ DiscardStaged(p)
     \/ Inspect(p) \/ MoveAside(p) \/ Promote(p) \/ Undo(p) \/ DropBackup(p)
     \/ Die(p) \/ OrphanCompletes(p)
  /\ overlapped' = (overlapped \/ \E q \in Procs \ {p} : Working(q))

Over == (\A p \in Procs : pc[p] \in {"done", "dead", "orphan"}) /\ UNCHANGED vars

Next == (\E p \in Procs : Step(p)) \/ Over

Spec == Init /\ [][Next]_vars

-------------------------------------------------------------------------------
(* Properties.                                                             *)

\* Every variable has its type; a staged path holds its own build's work and
\* nothing else, and only a no-cache build has one.
TypeOK ==
  /\ pc \in [Procs -> PC]
  /\ nocache \in [Procs -> BOOLEAN]
  /\ result \in [Procs -> {"none", "ok", "error", "skipped"}]
  /\ final \in Content
  /\ staged \in [Procs -> Content]
  /\ \A p \in Procs : staged[p] \in {Absent} \cup (IF nocache[p] THEN {Part(p), Whole(p)} ELSE {})
  /\ backup \in [Procs -> Content]
  /\ {trouble, overlapped} \subseteq BOOLEAN

AllDone == \A p \in Procs : pc[p] = "done"

\* A no-cache build never shows an unfinished artifact at the final path, not
\* even when it dies or when others build the same VM meanwhile.
NoCacheIsAtomic ==
  \A p \in Procs : nocache[p] => final # Part(p)

\* While only no-cache builds run, the artifact that is being replaced is lost
\* at no moment: the final path or a backup holds a whole one, through deaths,
\* failed file operations and overlapping promotions.
CopyExists == IsWhole(final) \/ \E p \in Procs : IsWhole(backup[p])

ACopySurvives ==
  [][(\A p \in Procs : nocache[p]) /\ CopyExists => CopyExists']_vars

\* When all no-cache builds have ended and nothing went wrong on the way, one
\* success is enough for a whole artifact at the final path.
SuccessLeavesArtifact ==
  /\ AllDone /\ ~trouble
  /\ \A p \in Procs : nocache[p]
  /\ \E p \in Procs : result[p] = "ok"
  => IsWhole(final) /\ \A p \in Procs : backup[p] = Absent

\* Builds that did not overlap and ended in order leave no unfinished artifact
\* behind, with and without --no-cache, whichever of them failed.
NoPartialRemains ==
  AllDone /\ ~trouble /\ ~overlapped => final[2] # "part"

\* generic_build_artifacts_test.go:121 and the message at generic_build.go:536:
\* a build is skipped only because an earlier one has completed the artifact.
SkipMeansBuilt ==
  [][\A p \in Procs : result'[p] = "skipped" /\ result[p] = "none" => IsWhole(final)]_vars

-------------------------------------------------------------------------------
(* The inductive invariant behind NoCacheIsAtomic and ACopySurvives.       *)

\* No file that a no-cache build has not finished.
Publishable(c) == \A q \in Procs : nocache[q] => c # Part(q)

\* Only no-cache builds promote, and what they promote is whole.
StagedInv ==
  \A p \in Procs :
    /\ pc[p] \in {"replace", "promote", "undo", "drop"} => nocache[p]
    /\ pc[p] = "succeeded" /\ nocache[p] => staged[p] = Whole(p)
    /\ pc[p] \in {"replace", "promote"} => staged[p] = Whole(p)

\* Neither the final path nor a backup shows a no-cache build's work in
\* progress.
PublishedInv ==
  /\ Publishable(final)
  /\ \A p \in Procs : Publishable(backup[p])

\* A backup is dropped only while another whole copy is held by the final path
\* or by a process that is not about to drop it.
HeldCopy ==
  IsWhole(final) \/ \E q \in Procs : pc[q] # "drop" /\ IsWhole(backup[q])

DropInv ==
  (\A p \in Procs : nocache[p]) /\ (\E p \in Procs : pc[p] = "drop") => HeldCopy

\* A no-cache build holds a backup only once it has moved one aside.
BackupInv ==
  \A p \in Procs :
    /\ pc[p] \in {"idle", "prepare", "replace"} => backup[p] = Absent
    /\ nocache[p] /\ pc[p] \in {"script", "writing", "succeeded"} => backup[p] = Absent

AInv == TypeOK /\ StagedInv /\ PublishedInv /\ DropInv /\ BackupInv
===============================================================================
