------------------------- MODULE BuildArtifacts_proofs -------------------------
(***************************************************************************)
(* Theorems about BuildArtifacts for every set of processes: types, and    *)
(* that no-cache builds neither publish an unfinished artifact nor lose    *)
(* the one they replace.                                                   *)
(***************************************************************************)
EXTENDS BuildArtifacts, TLAPS

-------------------------------------------------------------------------------
(* Types.                                                                  *)

Types ==
  /\ pc \in [Procs -> PC]
  /\ nocache \in [Procs -> BOOLEAN]
  /\ result \in [Procs -> {"none", "ok", "error", "skipped"}]
  /\ final \in Content
  /\ staged \in [Procs -> Content]
  /\ backup \in [Procs -> Content]

LEMMA ContentMembers ==
  /\ Absent \in Content /\ Old \in Content
  /\ \A p \in Procs : Part(p) \in Content /\ Whole(p) \in Content
  BY DEF Content

LEMMA TypesStep == Types /\ [Next]_vars => Types'
<1> SUFFICES ASSUME Types, [Next]_vars PROVE Types'
  OBVIOUS
<1> USE ContentMembers DEF Types, PC
<1>1. ASSUME NEW p \in Procs, Step(p) PROVE Types'
  <2>1. CASE Check(p)
    BY <2>1 DEF Check, Goto, Finish
  <2>2. CASE PrepareStaged(p)
    BY <2>2 DEF PrepareStaged, Goto
  <2>3. CASE BackUp(p)
    BY <2>3 DEF BackUp, Goto, Finish
  <2>4. CASE ScriptBegins(p)
    BY <2>4 DEF ScriptBegins, Goto
  <2>5. CASE ScriptSucceeds(p)
    BY <2>5 DEF ScriptSucceeds, Goto, Complete
  <2>6. CASE ScriptFails(p)
    BY <2>6 DEF ScriptFails, Goto
  <2>7. CASE KeepFinal(p)
    BY <2>7 DEF KeepFinal, Finish, Goto
  <2>8. CASE RemoveFinal(p)
    BY <2>8 DEF RemoveFinal, Goto
  <2>9. CASE Restore(p)
    BY <2>9 DEF Restore, Finish, Goto
  <2>10. CASE DiscardStaged(p)
    BY <2>10 DEF DiscardStaged, Finish, Goto
  <2>11. CASE Inspect(p)
    BY <2>11 DEF Inspect, Finish, Goto
  <2>12. CASE MoveAside(p)
    BY <2>12 DEF MoveAside, Finish, Goto
  <2>13. CASE Promote(p)
    BY <2>13 DEF Promote, Goto
  <2>14. CASE Undo(p)
    BY <2>14 DEF Undo, Finish, Goto
  <2>15. CASE DropBackup(p)
    BY <2>15 DEF DropBackup, Finish, Goto
  <2>16. CASE Die(p)
    BY <2>16 DEF Die, Goto, Working
  <2>17. CASE OrphanCompletes(p)
    BY <2>17 DEF OrphanCompletes, Goto, Complete
  <2> QED
    BY <1>1, <2>1, <2>2, <2>3, <2>4, <2>5, <2>6, <2>7, <2>8, <2>9, <2>10, <2>11, <2>12, <2>13, <2>14, <2>15, <2>16, <2>17 DEF Step
<1>2. CASE UNCHANGED vars
  BY <1>2 DEF vars
<1> QED
  BY <1>1, <1>2 DEF Next, Over

THEOREM TypesInvariant == Spec => []Types
<1>1. Init => Types
  BY ContentMembers DEF Init, Types, PC
<1> QED
  BY <1>1, TypesStep, PTL DEF Spec

Flags == trouble \in BOOLEAN /\ overlapped \in BOOLEAN

LEMMA FlagsStep == Flags /\ [Next]_vars => Flags'
<1> SUFFICES ASSUME trouble \in BOOLEAN, overlapped \in BOOLEAN, [Next]_vars
             PROVE  trouble' \in BOOLEAN /\ overlapped' \in BOOLEAN
  BY DEF Flags
<1>1. ASSUME NEW p \in Procs, Step(p)
      PROVE  trouble' \in BOOLEAN /\ overlapped' \in BOOLEAN
  <2>1. \/ trouble' = trouble
        \/ trouble' = TRUE
        \/ trouble' = (trouble \/ final # Absent)
    BY <1>1, Zenon
       DEF Step, Check, PrepareStaged, BackUp, ScriptBegins, ScriptSucceeds, ScriptFails,
           KeepFinal, RemoveFinal, Restore, DiscardStaged, Inspect, MoveAside, Promote, Undo,
           DropBackup, Die, OrphanCompletes
  <2>2. trouble' \in BOOLEAN
    BY <2>1, Zenon
  <2>3. overlapped' \in BOOLEAN
    BY <1>1, Zenon DEF Step
  <2> QED
    BY <2>2, <2>3
<1>2. CASE UNCHANGED vars
  BY <1>2, Zenon DEF vars
<1> QED
  BY <1>1, <1>2 DEF Next, Over

OwnStaged ==
  \A p \in Procs :
    staged[p] \in {Absent} \cup (IF nocache[p] THEN {Part(p), Whole(p)} ELSE {})

\* Only a process of its own no-cache build touches a staged path, and leaves
\* nothing there but its own file.
LEMMA OwnStep == Types /\ OwnStaged /\ [Next]_vars => OwnStaged'
<1> SUFFICES ASSUME Types, OwnStaged, [Next]_vars PROVE OwnStaged'
  OBVIOUS
<1> USE DEF Types, OwnStaged
<1>1. ASSUME NEW p \in Procs, Step(p) PROVE OwnStaged'
  <2>1. nocache' = nocache
    BY <1>1, Zenon
       DEF Step, Check, PrepareStaged, BackUp, ScriptBegins, ScriptSucceeds, ScriptFails,
           KeepFinal, RemoveFinal, Restore, DiscardStaged, Inspect, MoveAside, Promote, Undo,
           DropBackup, Die, OrphanCompletes
  <2>2. \/ staged' = staged
        \/ staged' = [staged EXCEPT ![p] = Absent]
        \/ nocache[p] /\ staged' = [staged EXCEPT ![p] = Part(p)]
        \/ nocache[p] /\ staged' = [staged EXCEPT ![p] = Whole(p)]
    BY <1>1, Zenon
       DEF Step, Check, PrepareStaged, BackUp, ScriptBegins, ScriptSucceeds, ScriptFails,
           KeepFinal, RemoveFinal, Restore, DiscardStaged, Inspect, MoveAside, Promote, Undo,
           DropBackup, Die, OrphanCompletes, Complete
  <2> QED
    BY <2>1, <2>2
<1>2. CASE UNCHANGED vars
  BY <1>2 DEF vars
<1> QED
  BY <1>1, <1>2 DEF Next, Over

\* Every variable keeps its type: a path never holds anything but nothing, the
\* earlier artifact, or one process's file, and a staged path its own build's.
THEOREM TypeCorrect == Spec => []TypeOK
<1>1. Init => Flags /\ OwnStaged
  BY DEF Init, Flags, OwnStaged
<1>2. Types /\ Flags /\ OwnStaged => TypeOK
  BY DEF Types, Flags, OwnStaged, TypeOK
<1>3. Spec => []Flags
  BY <1>1, FlagsStep, PTL DEF Spec
<1>4. Spec => []OwnStaged
  BY <1>1, OwnStep, TypesInvariant, PTL DEF Spec
<1> QED
  BY <1>2, <1>3, <1>4, TypesInvariant, PTL

-------------------------------------------------------------------------------
(* What is promoted is whole.                                              *)

LEMMA StagedStep == Types /\ StagedInv /\ [Next]_vars => StagedInv'
<1> SUFFICES ASSUME Types, StagedInv, [Next]_vars PROVE StagedInv'
  OBVIOUS
<1> USE DEF Types, StagedInv
<1>1. ASSUME NEW p \in Procs, Step(p) PROVE StagedInv'
  <2>1. CASE Check(p)
    BY <2>1 DEF Check, Goto, Finish
  <2>2. CASE PrepareStaged(p)
    BY <2>2 DEF PrepareStaged, Goto
  <2>3. CASE BackUp(p)
    BY <2>3 DEF BackUp, Goto, Finish
  <2>4. CASE ScriptBegins(p)
    BY <2>4 DEF ScriptBegins, Goto
  <2>5. CASE ScriptSucceeds(p)
    BY <2>5 DEF ScriptSucceeds, Goto, Complete
  <2>6. CASE ScriptFails(p)
    BY <2>6 DEF ScriptFails, Goto
  <2>7. CASE KeepFinal(p)
    BY <2>7 DEF KeepFinal, Finish, Goto
  <2>8. CASE RemoveFinal(p)
    BY <2>8 DEF RemoveFinal, Goto
  <2>9. CASE Restore(p)
    BY <2>9 DEF Restore, Finish, Goto
  <2>10. CASE DiscardStaged(p)
    BY <2>10 DEF DiscardStaged, Finish, Goto
  <2>11. CASE Inspect(p)
    BY <2>11 DEF Inspect, Finish, Goto
  <2>12. CASE MoveAside(p)
    BY <2>12 DEF MoveAside, Finish, Goto
  <2>13. CASE Promote(p)
    BY <2>13 DEF Promote, Goto
  <2>14. CASE Undo(p)
    BY <2>14 DEF Undo, Finish, Goto
  <2>15. CASE DropBackup(p)
    BY <2>15 DEF DropBackup, Finish, Goto
  <2>16. CASE Die(p)
    BY <2>16 DEF Die, Goto, Working
  <2>17. CASE OrphanCompletes(p)
    BY <2>17 DEF OrphanCompletes, Goto, Complete
  <2> QED
    BY <1>1, <2>1, <2>2, <2>3, <2>4, <2>5, <2>6, <2>7, <2>8, <2>9, <2>10, <2>11, <2>12, <2>13, <2>14, <2>15, <2>16, <2>17 DEF Step
<1>2. CASE UNCHANGED vars
  BY <1>2 DEF vars
<1> QED
  BY <1>1, <1>2 DEF Next, Over

THEOREM StagedInvariant == Spec => []StagedInv
<1>1. Init => StagedInv
  BY DEF Init, StagedInv
<1> QED
  BY <1>1, TypesInvariant, StagedStep, PTL DEF Spec

-------------------------------------------------------------------------------
(* Nothing unfinished is published.                                        *)

\* What is not a no-cache build's own work in progress may be published.
LEMMA PublishableContent ==
  /\ Publishable(Absent)
  /\ \A p \in Procs : Publishable(Whole(p))
  /\ \A p \in Procs : ~nocache[p] => Publishable(Part(p))
  BY DEF Publishable, Absent, Whole, Part

LEMMA PublishedStep ==
  Types /\ StagedInv /\ PublishedInv /\ [Next]_vars => PublishedInv'
<1> SUFFICES ASSUME Types, StagedInv, PublishedInv, [Next]_vars PROVE PublishedInv'
  OBVIOUS
<1>a. ASSUME UNCHANGED nocache, Publishable(final'), \A q \in Procs : Publishable(backup'[q])
      PROVE  PublishedInv'
  BY <1>a DEF PublishedInv, Publishable
<1> USE PublishableContent DEF Types, PublishedInv
<1>1. ASSUME NEW p \in Procs, Step(p) PROVE PublishedInv'
  <2>1. CASE Check(p)
    BY <2>1, <1>a DEF Check, Goto, Finish
  <2>2. CASE PrepareStaged(p)
    BY <2>2, <1>a DEF PrepareStaged, Goto
  <2>3. CASE BackUp(p)
    BY <2>3, <1>a DEF BackUp, Goto, Finish
  <2>4. CASE ScriptBegins(p)
    BY <2>4, <1>a DEF ScriptBegins, Goto
  <2>5. CASE ScriptSucceeds(p)
    BY <2>5, <1>a DEF ScriptSucceeds, Goto, Complete
  <2>6. CASE ScriptFails(p)
    BY <2>6, <1>a DEF ScriptFails, Goto
  <2>7. CASE KeepFinal(p)
    BY <2>7, <1>a DEF KeepFinal, Finish, Goto
  <2>8. CASE RemoveFinal(p)
    BY <2>8, <1>a DEF RemoveFinal, Goto
  <2>9. CASE Restore(p)
    BY <2>9, <1>a DEF Restore, Finish, Goto
  <2>10. CASE DiscardStaged(p)
    BY <2>10, <1>a DEF DiscardStaged, Finish, Goto
  <2>11. CASE Inspect(p)
    BY <2>11, <1>a DEF Inspect, Finish, Goto
  <2>12. CASE MoveAside(p)
    BY <2>12, <1>a DEF MoveAside, Finish, Goto
  <2>13. CASE Promote(p)
    <3>1. Publishable(staged[p])
      BY <2>13 DEF Promote, StagedInv
    <3> QED
      BY <2>13, <1>a, <3>1 DEF Promote, Goto
  <2>14. CASE Undo(p)
    BY <2>14, <1>a DEF Undo, Finish, Goto
  <2>15. CASE DropBackup(p)
    BY <2>15, <1>a DEF DropBackup, Finish, Goto
  <2>16. CASE Die(p)
    BY <2>16, <1>a DEF Die, Goto, Working
  <2>17. CASE OrphanCompletes(p)
    BY <2>17, <1>a DEF OrphanCompletes, Goto, Complete
  <2> QED
    BY <1>1, <2>1, <2>2, <2>3, <2>4, <2>5, <2>6, <2>7, <2>8, <2>9, <2>10, <2>11, <2>12, <2>13, <2>14, <2>15, <2>16, <2>17 DEF Step
<1>2. CASE UNCHANGED vars
  BY <1>2, <1>a DEF vars
<1> QED
  BY <1>1, <1>2 DEF Next, Over

THEOREM PublishedInvariant == Spec => []PublishedInv
<1>1. Init => PublishedInv
  BY DEF Init, PublishedInv, Publishable, Absent, Old, Part
<1> QED
  BY <1>1, TypesInvariant, StagedInvariant, PublishedStep, PTL DEF Spec

\* A no-cache build never shows an unfinished artifact at the final path,
\* whatever dies, fails or overlaps.
THEOREM NoCacheIsAtomicTheorem == Spec => []NoCacheIsAtomic
<1>1. PublishedInv => NoCacheIsAtomic
  BY DEF PublishedInv, Publishable, NoCacheIsAtomic
<1> QED
  BY <1>1, PublishedInvariant, PTL

-------------------------------------------------------------------------------
(* A whole copy survives.                                                  *)

LEMMA BackupStep == Types /\ BackupInv /\ [Next]_vars => BackupInv'
<1> SUFFICES ASSUME Types, BackupInv, [Next]_vars PROVE BackupInv'
  OBVIOUS
<1> USE DEF Types, BackupInv
<1>1. ASSUME NEW p \in Procs, Step(p) PROVE BackupInv'
  <2>1. CASE Check(p)
    BY <2>1 DEF Check, Goto, Finish
  <2>2. CASE PrepareStaged(p)
    BY <2>2 DEF PrepareStaged, Goto
  <2>3. CASE BackUp(p)
    BY <2>3 DEF BackUp, Goto, Finish
  <2>4. CASE ScriptBegins(p)
    BY <2>4 DEF ScriptBegins, Goto
  <2>5. CASE ScriptSucceeds(p)
    BY <2>5 DEF ScriptSucceeds, Goto, Complete
  <2>6. CASE ScriptFails(p)
    BY <2>6 DEF ScriptFails, Goto
  <2>7. CASE KeepFinal(p)
    BY <2>7 DEF KeepFinal, Finish, Goto
  <2>8. CASE RemoveFinal(p)
    BY <2>8 DEF RemoveFinal, Goto
  <2>9. CASE Restore(p)
    BY <2>9 DEF Restore, Finish, Goto
  <2>10. CASE DiscardStaged(p)
    BY <2>10 DEF DiscardStaged, Finish, Goto
  <2>11. CASE Inspect(p)
    BY <2>11 DEF Inspect, Finish, Goto
  <2>12. CASE MoveAside(p)
    BY <2>12 DEF MoveAside, Finish, Goto
  <2>13. CASE Promote(p)
    BY <2>13 DEF Promote, Goto
  <2>14. CASE Undo(p)
    BY <2>14 DEF Undo, Finish, Goto
  <2>15. CASE DropBackup(p)
    BY <2>15 DEF DropBackup, Finish, Goto
  <2>16. CASE Die(p)
    BY <2>16 DEF Die, Goto, Working
  <2>17. CASE OrphanCompletes(p)
    BY <2>17 DEF OrphanCompletes, Goto, Complete
  <2> QED
    BY <1>1, <2>1, <2>2, <2>3, <2>4, <2>5, <2>6, <2>7, <2>8, <2>9, <2>10, <2>11, <2>12, <2>13, <2>14, <2>15, <2>16, <2>17 DEF Step
<1>2. CASE UNCHANGED vars
  BY <1>2 DEF vars
<1> QED
  BY <1>1, <1>2 DEF Next, Over

THEOREM BackupInvariant == Spec => []BackupInv
<1>1. Init => BackupInv
  BY DEF Init, BackupInv
<1> QED
  BY <1>1, TypesInvariant, BackupStep, PTL DEF Spec

AllNoCache == \A p \in Procs : nocache[p]

\* Where only no-cache builds run, what is published is absent or whole.
LEMMA PublishedIsWhole ==
  ASSUME Types, PublishedInv, AllNoCache
  PROVE  /\ final # Absent => IsWhole(final)
         /\ \A p \in Procs : backup[p] # Absent => IsWhole(backup[p])
<1>1. ASSUME NEW c \in Content, Publishable(c), c # Absent PROVE IsWhole(c)
  BY <1>1 DEF Content, Publishable, AllNoCache, IsWhole, Old, Whole
<1> QED
  BY <1>1 DEF Types, PublishedInv

\* One step keeps a held copy held, and a process reaches the point of
\* dropping its backup only after it has put a whole artifact in place.
LEMMA HeldStep ==
  ASSUME Types, StagedInv, PublishedInv, BackupInv, AllNoCache,
         NEW p \in Procs, Step(p)
  PROVE  /\ HeldCopy => HeldCopy'
         /\ pc'[p] = "drop" => HeldCopy'
<1> USE DEF Types
<1>a. nocache[p]
  BY DEF AllNoCache
<1>b. ASSUME UNCHANGED <<final, backup>>,
             NEW l \in PC, pc' = [pc EXCEPT ![p] = l], l # "drop"
      PROVE  (HeldCopy => HeldCopy') /\ pc'[p] # "drop"
  BY <1>b DEF HeldCopy
<1>c. ASSUME IsWhole(final') PROVE HeldCopy'
  BY <1>c DEF HeldCopy
<1>1. CASE Check(p)
  BY <1>1, <1>a, <1>b DEF Check, Goto, Finish, PC
<1>2. CASE PrepareStaged(p)
  BY <1>2, <1>b DEF PrepareStaged, Goto, PC
<1>3. CASE ScriptBegins(p)
  BY <1>3, <1>a, <1>b DEF ScriptBegins, Goto, PC
<1>4. CASE ScriptSucceeds(p)
  BY <1>4, <1>a, <1>b DEF ScriptSucceeds, Complete, Goto, PC
<1>5. CASE ScriptFails(p)
  BY <1>5, <1>b DEF ScriptFails, Goto, PC
<1>6. CASE BackUp(p) \/ KeepFinal(p) \/ RemoveFinal(p)
  BY <1>6, <1>a DEF BackUp, KeepFinal, RemoveFinal
<1>7. CASE Restore(p)
  <2>1. CASE UNCHANGED <<final, backup>>
    BY <1>7, <1>b, <2>1 DEF Restore, Finish, Goto, PC
  <2>2. CASE backup[p] # Absent /\ final' = backup[p]
    BY <1>c, <2>2, PublishedIsWhole
  <2> QED
    BY <1>7, <2>1, <2>2 DEF Restore
<1>8. CASE DiscardStaged(p)
  BY <1>8, <1>b DEF DiscardStaged, Finish, Goto, PC
<1>9. CASE Inspect(p)
  BY <1>9, <1>b DEF Inspect, Finish, Goto, PC
<1>10. CASE MoveAside(p)
  <2>1. CASE UNCHANGED <<final, backup>>
    BY <1>10, <1>b, <2>1 DEF MoveAside, Finish, Goto, PC
  <2>2. CASE final # Absent /\ backup' = [backup EXCEPT ![p] = final] /\ Goto(p, "promote")
    <3>1. IsWhole(backup'[p]) /\ pc'[p] = "promote"
      BY <2>2, PublishedIsWhole DEF Goto
    <3> QED
      BY <3>1 DEF HeldCopy
  <2> QED
    BY <1>10, <2>1, <2>2 DEF MoveAside
<1>11. CASE Promote(p)
  <2>1. CASE UNCHANGED <<final, backup>> /\ Goto(p, "undo")
    BY <1>b, <2>1 DEF Goto, PC
  <2>2. CASE final' = staged[p]
    <3>1. IsWhole(final')
      BY <1>11, <2>2 DEF Promote, StagedInv, IsWhole, Whole
    <3> QED
      BY <1>c, <3>1
  <2> QED
    BY <1>11, <2>1, <2>2 DEF Promote
<1>12. CASE Undo(p)
  <2>1. CASE UNCHANGED <<final, backup>>
    BY <1>12, <1>b, <2>1 DEF Undo, Finish, Goto, PC
  <2>2. CASE backup[p] # Absent /\ final' = backup[p]
    BY <1>c, <2>2, PublishedIsWhole
  <2> QED
    BY <1>12, <2>1, <2>2 DEF Undo
<1>13. CASE DropBackup(p)
  <2>1. /\ pc[p] = "drop" /\ pc' = [pc EXCEPT ![p] = "done"] /\ UNCHANGED final
        /\ \A q \in Procs \ {p} : backup'[q] = backup[q]
    BY <1>13 DEF DropBackup, Finish, Goto
  <2> QED
    BY <2>1 DEF HeldCopy
<1>14. CASE Die(p)
  BY <1>14, <1>b DEF Die, Working, Goto, PC
<1>15. CASE OrphanCompletes(p)
  BY <1>15, <1>a, <1>b DEF OrphanCompletes, Complete, Goto, PC
<1> QED
  BY <1>1, <1>2, <1>3, <1>4, <1>5, <1>6, <1>7, <1>8, <1>9, <1>10, <1>11, <1>12, <1>13, <1>14,
     <1>15 DEF Step

LEMMA OnlyStepperMoves ==
  ASSUME Types, NEW p \in Procs, Step(p), NEW q \in Procs, q # p
  PROVE  pc'[q] = pc[q] /\ nocache'[q] = nocache[q]
  BY DEF Types, Step, Check, PrepareStaged, BackUp, ScriptBegins, ScriptSucceeds, ScriptFails,
         KeepFinal, RemoveFinal, Restore, DiscardStaged, Inspect, MoveAside, Promote, Undo,
         DropBackup, Die, OrphanCompletes, Goto, Finish

LEMMA NoCacheIsFixed == [Next]_vars => UNCHANGED nocache
  BY DEF Next, vars, Over, Step, Check, PrepareStaged, BackUp, ScriptBegins, ScriptSucceeds,
         ScriptFails, KeepFinal, RemoveFinal, Restore, DiscardStaged, Inspect, MoveAside,
         Promote, Undo, DropBackup, Die, OrphanCompletes

LEMMA DropStep ==
  Types /\ StagedInv /\ PublishedInv /\ BackupInv /\ DropInv /\ [Next]_vars => DropInv'
<1> SUFFICES ASSUME Types, StagedInv, PublishedInv, BackupInv, DropInv, [Next]_vars,
                    AllNoCache', NEW q \in Procs, pc'[q] = "drop"
             PROVE  HeldCopy'
  BY DEF DropInv, AllNoCache
<1>1. AllNoCache
  BY NoCacheIsFixed DEF AllNoCache
<1>2. ASSUME NEW p \in Procs, Step(p) PROVE HeldCopy'
  <2>1. CASE q = p
    BY <1>1, <1>2, <2>1, HeldStep
  <2>2. CASE q # p
    <3>1. pc[q] = "drop"
      BY <1>2, <2>2, OnlyStepperMoves
    <3>2. HeldCopy
      BY <1>1, <3>1 DEF DropInv, AllNoCache
    <3> QED
      BY <1>1, <1>2, <3>2, HeldStep
  <2> QED
    BY <2>1, <2>2
<1>3. CASE UNCHANGED vars
  BY <1>1, <1>3 DEF vars, DropInv, HeldCopy, AllNoCache
<1> QED
  BY <1>2, <1>3 DEF Next, Over

THEOREM DropInvariant == Spec => []DropInv
<1>1. Init => DropInv
  BY DEF Init, DropInv
<1> QED
  BY <1>1, TypesInvariant, StagedInvariant, PublishedInvariant, BackupInvariant, DropStep, PTL
     DEF Spec

\* While only no-cache builds run, no step, death or failed operation of any
\* number of them loses the last whole copy of the artifact.
THEOREM ACopySurvivesTheorem == Spec => ACopySurvives
<1> DEFINE A == (\A p \in Procs : nocache[p]) /\ CopyExists => CopyExists'
<1>1. Types /\ StagedInv /\ PublishedInv /\ BackupInv /\ DropInv /\ [Next]_vars => [A]_vars
  <2> SUFFICES ASSUME Types, StagedInv, PublishedInv, BackupInv, DropInv, Next,
                      AllNoCache, CopyExists
               PROVE  CopyExists' \/ UNCHANGED vars
    BY DEF AllNoCache
  <2>1. HeldCopy
    BY DEF CopyExists, HeldCopy, DropInv, AllNoCache
  <2>2. ASSUME NEW p \in Procs, Step(p) PROVE CopyExists'
    <3>1. HeldCopy'
      BY <2>1, <2>2, HeldStep
    <3> QED
      BY <3>1 DEF HeldCopy, CopyExists
  <2> QED
    BY <2>2 DEF Next, Over
<1> QED
  BY <1>1, TypesInvariant, StagedInvariant, PublishedInvariant, BackupInvariant, DropInvariant,
     PTL DEF Spec, ACopySurvives

-------------------------------------------------------------------------------
(* When everybody has ended.                                               *)

\* A step of one process changes nothing of another's own state.
LEMMA OthersKeepTheirs ==
  ASSUME Types, NEW p \in Procs, Step(p), NEW q \in Procs \ {p}
  PROVE  /\ pc'[q] = pc[q] /\ nocache'[q] = nocache[q] /\ result'[q] = result[q]
         /\ staged'[q] = staged[q] /\ backup'[q] = backup[q]
  BY DEF Types, Step, Check, PrepareStaged, BackUp, ScriptBegins, ScriptSucceeds, ScriptFails,
         KeepFinal, RemoveFinal, Restore, DiscardStaged, Inspect, MoveAside, Promote, Undo,
         DropBackup, Die, OrphanCompletes, Goto, Finish, Complete

\* Among no-cache builds with no trouble a backup is held only on the way from
\* one rename to the other, and what was promoted stays whole.
Smooth ==
  AllNoCache /\ ~trouble =>
    /\ \A p \in Procs : pc[p] \notin {"restore", "undo", "dead", "orphan"}
    /\ \A p \in Procs : backup[p] # Absent => pc[p] \in {"promote", "drop"}
    /\ (\E p \in Procs : result[p] = "ok" \/ pc[p] = "drop")
         => IsWhole(final) \/ \E q \in Procs : pc[q] = "promote"

LEMMA SmoothStep == Types /\ StagedInv /\ Smooth /\ [Next]_vars => Smooth'
<1> SUFFICES ASSUME Types, StagedInv, Smooth, [Next]_vars, AllNoCache', ~trouble'
             PROVE  Smooth'
  BY DEF Smooth
<1>0. AllNoCache
  BY NoCacheIsFixed DEF AllNoCache
<1>1. ASSUME NEW p \in Procs, Step(p) PROVE Smooth'
  <2>a. ~trouble
    BY <1>1, Zenon DEF Step, Check, PrepareStaged, BackUp, ScriptBegins, ScriptSucceeds,
       ScriptFails, KeepFinal, RemoveFinal, Restore, DiscardStaged, Inspect, MoveAside, Promote,
       Undo, DropBackup, Die, OrphanCompletes
  <2>b. /\ \A r \in Procs : pc[r] \notin {"restore", "undo", "dead", "orphan"}
        /\ \A r \in Procs : backup[r] # Absent => pc[r] \in {"promote", "drop"}
        /\ (\E r \in Procs : result[r] = "ok" \/ pc[r] = "drop")
             => IsWhole(final) \/ \E q \in Procs : pc[q] = "promote"
    BY <1>0, <2>a DEF Smooth
  <2>c. nocache[p] /\ nocache'[p]
    BY <1>0 DEF AllNoCache
  <2>d. \A r \in Procs \ {p} : /\ pc'[r] = pc[r] /\ backup'[r] = backup[r]
                               /\ result'[r] = result[r]
    BY <1>1, OthersKeepTheirs
  <2>e. pc[p] = "promote" => staged[p][2] = "whole"
    BY DEF StagedInv, Whole
  <2> USE <2>b, <2>c, <2>d DEF Smooth, Types, IsWhole, Absent, Old, Part, Whole
  <2>1. CASE Check(p)
    BY <2>a, <2>e, <2>1 DEF Check, Goto, Finish
  <2>2. CASE PrepareStaged(p)
    BY <2>a, <2>e, <2>2 DEF PrepareStaged, Goto, Finish
  <2>3. CASE BackUp(p)
    BY <2>a, <2>e, <2>3 DEF BackUp, Goto, Finish
  <2>4. CASE ScriptBegins(p)
    BY <2>a, <2>e, <2>4 DEF ScriptBegins, Goto, Finish
  <2>5. CASE ScriptSucceeds(p)
    BY <2>a, <2>e, <2>5 DEF ScriptSucceeds, Goto, Finish, Complete
  <2>6. CASE ScriptFails(p)
    BY <2>a, <2>e, <2>6 DEF ScriptFails, Goto, Finish
  <2>7. CASE KeepFinal(p)
    BY <2>a, <2>e, <2>7 DEF KeepFinal, Goto, Finish
  <2>8. CASE RemoveFinal(p)
    BY <2>a, <2>e, <2>8 DEF RemoveFinal, Goto, Finish
  <2>9. CASE Restore(p)
    BY <2>a, <2>e, <2>9 DEF Restore, Goto, Finish
  <2>10. CASE DiscardStaged(p)
    BY <2>a, <2>e, <2>10 DEF DiscardStaged, Goto, Finish
  <2>11. CASE Inspect(p)
    BY <2>a, <2>e, <2>11 DEF Inspect, Goto, Finish
  <2>12. CASE MoveAside(p)
    BY <2>a, <2>e, <2>12 DEF MoveAside, Goto, Finish
  <2>13. CASE Promote(p)
    BY <2>a, <2>e, <2>13 DEF Promote, Goto, Finish
  <2>14. CASE Undo(p)
    BY <2>a, <2>e, <2>14 DEF Undo, Goto, Finish
  <2>15. CASE DropBackup(p)
    BY <2>a, <2>e, <2>15 DEF DropBackup, Goto, Finish
  <2>16. CASE Die(p)
    BY <2>a, <2>e, <2>16 DEF Die, Goto, Finish, Working
  <2>17. CASE OrphanCompletes(p)
    BY <2>a, <2>e, <2>17 DEF OrphanCompletes, Goto, Finish, Complete
  <2> QED
    BY <1>1, <2>1, <2>2, <2>3, <2>4, <2>5, <2>6, <2>7, <2>8, <2>9, <2>10, <2>11,
       <2>12, <2>13, <2>14, <2>15, <2>16, <2>17 DEF Step
<1>2. CASE UNCHANGED vars
  BY <1>2 DEF vars, Smooth, AllNoCache, IsWhole
<1> QED
  BY <1>1, <1>2 DEF Next, Over

THEOREM SmoothInvariant == Spec => []Smooth
<1>1. Init => Smooth
  BY DEF Init, Smooth
<1> QED
  BY <1>1, TypesInvariant, StagedInvariant, SmoothStep, PTL DEF Spec

\* When no-cache builds have all ended and nothing went wrong, one success
\* means a whole artifact at the final path and no backup beside it.
THEOREM SuccessMeansArtifact == Spec => []SuccessLeavesArtifact
<1>1. Smooth => SuccessLeavesArtifact
  BY DEF Smooth, SuccessLeavesArtifact, AllNoCache, AllDone
<1> QED
  BY <1>1, SmoothInvariant, PTL

\* Builds that did not overlap: one works at a time, no backup holds an
\* unfinished artifact, and the final path does only while its author works.
Serial ==
  ~trouble /\ ~overlapped =>
    /\ \A p, q \in Procs : Working(p) /\ Working(q) => p = q
    /\ \A p \in Procs : pc[p] \notin {"dead", "orphan"} /\ backup[p][2] # "part"
    /\ final[2] = "part" => \E p \in Procs : /\ pc[p] \in {"writing", "failed"}
                                             /\ ~nocache[p] /\ final = Part(p)

LEMMA SerialStep == Types /\ StagedInv /\ Serial /\ [Next]_vars => Serial'
<1> SUFFICES ASSUME Types, StagedInv, Serial, [Next]_vars, ~trouble', ~overlapped'
             PROVE  Serial'
  BY DEF Serial
<1>1. ASSUME NEW p \in Procs, Step(p) PROVE Serial'
  <2>a. ~trouble
    BY <1>1, Zenon DEF Step, Check, PrepareStaged, BackUp, ScriptBegins, ScriptSucceeds,
       ScriptFails, KeepFinal, RemoveFinal, Restore, DiscardStaged, Inspect, MoveAside, Promote,
       Undo, DropBackup, Die, OrphanCompletes
  <2>b. ~overlapped /\ \A q \in Procs \ {p} : ~Working(q)
    BY <1>1, Zenon DEF Step
  <2>c. /\ \A q \in Procs : pc[q] \notin {"dead", "orphan"} /\ backup[q][2] # "part"
        /\ final[2] = "part" => \E q \in Procs : /\ pc[q] \in {"writing", "failed"}
                                                 /\ ~nocache[q] /\ final = Part(q)
    BY <2>a, <2>b DEF Serial
  <2>d. final[2] = "part" => pc[p] \in {"writing", "failed"} /\ ~nocache[p] /\ final = Part(p)
    BY <2>b, <2>c DEF Working
  <2>e. \A r \in Procs \ {p} : /\ pc'[r] = pc[r] /\ backup'[r] = backup[r]
                               /\ nocache'[r] = nocache[r]
    BY <1>1, OthersKeepTheirs
  <2>f. \A r, q \in Procs : Working(r)' /\ Working(q)' => r = q
    BY <2>b, <2>e DEF Working
  <2>g. pc[p] = "promote" => staged[p][2] = "whole"
    BY DEF StagedInv, Whole
  <2>h. pc[p] # "dead" /\ pc[p] # "orphan" /\ backup[p][2] # "part"
    BY <2>c
  \* What is left to show of p.
  <2>i. SUFFICES /\ pc'[p] \notin {"dead", "orphan"} /\ backup'[p][2] # "part"
                 /\ final'[2] = "part" => /\ pc'[p] \in {"writing", "failed"}
                                          /\ ~nocache'[p] /\ final' = Part(p)
    BY <2>c, <2>e, <2>f DEF Serial, Part
  <2> USE <2>d, <2>g, <2>h DEF Types, Absent, Old, Part, Whole
  <2>1. CASE Check(p)
    BY <2>1 DEF Check, Goto, Finish
  <2>2. CASE PrepareStaged(p)
    BY <2>2 DEF PrepareStaged, Goto, Finish
  <2>3. CASE BackUp(p)
    BY <2>3 DEF BackUp, Goto, Finish
  <2>4. CASE ScriptBegins(p)
    BY <2>4 DEF ScriptBegins, Goto, Finish
  <2>5. CASE ScriptSucceeds(p)
    BY <2>5 DEF ScriptSucceeds, Goto, Finish, Complete
  <2>6. CASE ScriptFails(p)
    BY <2>6 DEF ScriptFails, Goto, Finish
  <2>7. CASE KeepFinal(p)
    BY <2>7 DEF KeepFinal, Goto, Finish
  <2>8. CASE RemoveFinal(p)
    BY <2>8 DEF RemoveFinal, Goto, Finish
  <2>9. CASE Restore(p)
    BY <2>9 DEF Restore, Goto, Finish
  <2>10. CASE DiscardStaged(p)
    BY <2>10 DEF DiscardStaged, Goto, Finish
  <2>11. CASE Inspect(p)
    BY <2>11 DEF Inspect, Goto, Finish
  <2>12. CASE MoveAside(p)
    BY <2>12 DEF MoveAside, Goto, Finish
  <2>13. CASE Promote(p)
    BY <2>13 DEF Promote, Goto, Finish
  <2>14. CASE Undo(p)
    BY <2>14 DEF Undo, Goto, Finish
  <2>15. CASE DropBackup(p)
    BY <2>15 DEF DropBackup, Goto, Finish
  <2>16. CASE Die(p)
    BY <2>16 DEF Die, Goto, Finish, Working
  <2>17. CASE OrphanCompletes(p)
    BY <2>17 DEF OrphanCompletes, Goto, Finish, Complete
  <2> QED
    BY <1>1, <2>1, <2>2, <2>3, <2>4, <2>5, <2>6, <2>7, <2>8, <2>9, <2>10, <2>11,
       <2>12, <2>13, <2>14, <2>15, <2>16, <2>17 DEF Step
<1>2. CASE UNCHANGED vars
  BY <1>2 DEF vars, Serial, Working, Part
<1> QED
  BY <1>1, <1>2 DEF Next, Over

THEOREM SerialInvariant == Spec => []Serial
<1>1. Init => Serial
  BY DEF Init, Serial, Working, Absent, Old
<1> QED
  BY <1>1, TypesInvariant, StagedInvariant, SerialStep, PTL DEF Spec

\* Builds that ran one after the other and ended in order leave no unfinished
\* artifact at the final path, with or without --no-cache.
THEOREM NoPartialTheorem == Spec => []NoPartialRemains
<1>1. Serial => NoPartialRemains
  BY DEF Serial, NoPartialRemains, AllDone
<1> QED
  BY <1>1, SerialInvariant, PTL
===============================================================================
