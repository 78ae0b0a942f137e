------------------------ MODULE ParallelBuilds_proofs ------------------------
(***************************************************************************)
(* Theorems about ParallelBuilds for every number of VMs and slots: the    *)
(* inductive invariant IInv in its four parts (Shape, Accounting,          *)
(* ErrorsMatch, Cancelling), the safety properties that follow, and the    *)
(* step simulation behind ImplementsOutcomes.                              *)
(***************************************************************************)
EXTENDS ParallelBuilds, FiniteSetTheorems, TLAPS

\* The VMs of one run are finitely many, so every set of them has a size.
LEMMA VMSetsAreFinite ==
  ASSUME NEW S \in SUBSET VMs
  PROVE  IsFiniteSet(S) /\ Cardinality(S) \in Nat
<1>1. IsFiniteSet(VMs)
  BY FS_Interval, ParallelAssumption, SMT DEF VMs
<1>2. IsFiniteSet(S)
  BY <1>1, FS_Subset
<1> QED
  BY <1>2, FS_CardinalityType

-------------------------------------------------------------------------------
(* Shape.                                                                  *)

\* The types, the loop's progress and the results' place hold in every
\* reachable state.
LEMMA ShapeInit == Init => Shape
<1> SUFFICES ASSUME Init PROVE Shape
  OBVIOUS
<1>1. 1 \in 1..(N + 1) /\ (\A v \in VMs : v >= 1) /\ 0 \in 0..MaxSignals
  BY ParallelAssumption DEF VMs
<1>2. errs \in Seq(VMs)
  BY DEF Init
<1>3. \A v \in VMs : go[v] = "unlaunched" /\ res[v] = "none"
  BY DEF Init
<1>4. /\ go \in [VMs -> GoStates]
      /\ res \in [VMs -> {"none", "ok", "failed", "cancelled"}]
  BY DEF Init, GoStates
<1>5. next \in 1..(N + 1) /\ signals \in 0..MaxSignals /\ \A v \in VMs : v >= next
  BY <1>1 DEF Init
<1>6. /\ cancelled \in BOOLEAN /\ pending \in BOOLEAN
      /\ main \in {"running", "returned", "aborted"} /\ handler \in {"waiting", "gone"}
      /\ heard \subseteq VMs /\ afterCancel \subseteq VMs
  BY DEF Init
<1>7. sem \in Int /\ wg \in Int
  BY DEF Init
<1>8. \A v \in VMs : /\ go[v] = "unlaunched" <=> v >= next
                     /\ res[v] = "none" <=> go[v] \in {"unlaunched", "launched", "checked"} \cup Building
                     /\ go[v] \in {"skipped", "recording"} => res[v] # "ok"
  BY <1>3, <1>5
<1> QED
  BY <1>2, <1>4, <1>5, <1>6, <1>7, <1>8 DEF Shape

LEMMA ShapeStep == Shape /\ [Next]_vars => Shape'
<1> SUFFICES ASSUME Shape, [Next]_vars PROVE Shape'
  OBVIOUS
<1> USE ParallelAssumption
    DEF Shape, VMs, GoStates, Counted, HoldsSlot, Building, loopVars, workerVars, signalVars
<1>1. CASE Launch
  BY <1>1 DEF Launch, SlotFree
<1>2. CASE SkipCancelled
  BY <1>2 DEF SkipCancelled
<1>3. CASE Return
  BY <1>3 DEF Return
<1>4. ASSUME NEW v \in VMs, Worker(v) PROVE Shape'
  <2>0. CASE PassCheck(v)
    BY <2>0 DEF PassCheck
  <2>1. CASE StartBuild(v)
    BY <2>1 DEF StartBuild
  <2>2. CASE RefuseBuild(v)
    BY <2>2 DEF RefuseBuild
  <2>3. CASE Listen(v)
    BY <2>3 DEF Listen
  <2>4. CASE EndBuild(v)
    BY <2>4 DEF EndBuild
  <2>5. CASE Abort(v)
    BY <2>5 DEF Abort
  <2>6. CASE Record(v)
    BY <2>6 DEF Record
  <2>7. CASE Release(v)
    BY <2>7 DEF Release
  <2>8. CASE Exit(v)
    BY <2>8 DEF Exit
  <2> QED
    BY <1>4, <2>0, <2>1, <2>2, <2>3, <2>4, <2>5, <2>6, <2>7, <2>8 DEF Worker
<1>5. CASE Interrupt
  <2>1. signals' \in 0..MaxSignals
    BY <1>5 DEF Interrupt
  <2>2. heard' \subseteq VMs
    BY <1>5, Zenon DEF Interrupt
  <2>3. pending' = TRUE /\ UNCHANGED <<next, main, go, res, sem, wg, errs, cancelled, handler, afterCancel>>
    BY <1>5 DEF Interrupt
  <2> QED
    BY <2>1, <2>2, <2>3
<1>6. CASE HandleSignal
  <2>1. afterCancel' \subseteq VMs
    BY <1>6, Zenon DEF HandleSignal
  <2> QED
    BY <1>6, <2>1 DEF HandleSignal
<1>7. CASE UNCHANGED vars
  BY <1>7 DEF vars
<1> QED
  BY <1>1, <1>2, <1>3, <1>4, <1>5, <1>6, <1>7 DEF Next, Over

THEOREM ShapeInvariant == Spec => []Shape
  BY ShapeInit, ShapeStep, PTL DEF Spec

-------------------------------------------------------------------------------
(* Accounting.                                                             *)

\* Taking a VM into a set of VMs adds one to its size, taking it out
\* subtracts one.
LEMMA OneMoreOneLess ==
  ASSUME NEW S \in SUBSET VMs, NEW v \in VMs
  PROVE  /\ v \notin S => Cardinality(S \cup {v}) = Cardinality(S) + 1
         /\ v \in S => Cardinality(S \ {v}) = Cardinality(S) - 1
  BY VMSetsAreFinite, FS_AddElement, FS_RemoveElement

LEMMA AccountingInit == Init => Accounting
<1> SUFFICES ASSUME Init PROVE Accounting
  OBVIOUS
<1>1. Holding = {} /\ Counting = {}
  BY DEF Init, Holding, Counting, Counted, HoldsSlot, Building
<1> QED
  BY <1>1, FS_EmptySet, ParallelAssumption DEF Init, Accounting

\* Each action moves at most one VM into or out of Holding and Counting, and
\* changes sem and wg by as much.
LEMMA AccountingStep == Shape /\ Accounting /\ [Next]_vars => Accounting'
<1> SUFFICES ASSUME Shape, Accounting, [Next]_vars PROVE Accounting'
  OBVIOUS
<1> USE ParallelAssumption DEF loopVars, workerVars, signalVars
<1>a. Holding \in SUBSET VMs /\ Counting \in SUBSET VMs
  BY DEF Holding, Counting
<1>b. /\ go \in [VMs -> GoStates] /\ sem \in Int /\ wg \in Int
      /\ sem = Cardinality(Holding) /\ sem <= Parallelism /\ wg = Cardinality(Counting)
  BY DEF Shape, Accounting
<1>c. ASSUME NEW v \in VMs, go[v] \in Counted PROVE main # "returned"
  BY <1>c DEF Accounting, Counting
<1>d. ASSUME UNCHANGED <<go, sem, wg>>, main' = "returned" => next' = N + 1 /\ Counting = {}
      PROVE  Accounting'
  <2>1. Holding' = Holding /\ Counting' = Counting
    BY <1>d DEF Holding, Counting
  <2> QED
    BY <1>b, <1>d, <2>1 DEF Accounting
<1>1. CASE Launch
  <2>1. go[next] = "unlaunched" /\ next \in VMs
    BY <1>1 DEF Launch, Shape
  <2>2. next \notin Holding /\ next \notin Counting
    BY <2>1 DEF Holding, Counting, Counted, HoldsSlot, Building
  <2>3. Holding' = Holding \cup {next} /\ Counting' = Counting \cup {next}
    BY <1>1, <1>b, <2>1 DEF Launch, Holding, Counting, Counted, HoldsSlot
  <2>4. sem' = Cardinality(Holding') /\ wg' = Cardinality(Counting')
    BY <1>1, <1>a, <1>b, <2>1, <2>2, <2>3, OneMoreOneLess DEF Launch
  <2>5. sem' <= Parallelism /\ main' # "returned"
    BY <1>1, <1>b DEF Launch, SlotFree
  <2> QED
    BY <2>4, <2>5 DEF Accounting
<1>2. CASE SkipCancelled
  <2>1. go[next] = "unlaunched" /\ next \in VMs
    BY <1>2 DEF SkipCancelled, Shape
  <2>2. Holding' = Holding /\ Counting' = Counting
    BY <1>2, <1>b, <2>1 DEF SkipCancelled, Holding, Counting, Counted, HoldsSlot, Building
  <2> QED
    BY <1>2, <1>b, <2>2 DEF SkipCancelled, Accounting
<1>3. CASE Return
  <2>1. Counting = {}
    BY <1>3, <1>a, <1>b, VMSetsAreFinite, FS_EmptySet DEF Return
  <2> QED
    BY <1>3, <1>d, <2>1 DEF Return
<1>4. ASSUME NEW v \in VMs, Worker(v) PROVE Accounting'
  <2>a. ASSUME go[v] \in HoldsSlot, NEW s \in HoldsSlot, go' = [go EXCEPT ![v] = s],
               UNCHANGED <<main, sem, wg>>
        PROVE  Accounting'
    <3>1. Holding' = Holding /\ Counting' = Counting
      BY <1>b, <2>a DEF Holding, Counting, Counted
    <3>2. main # "returned"
      BY <1>c, <2>a DEF Counted
    <3> QED
      BY <1>b, <2>a, <3>1, <3>2 DEF Accounting
  <2>0. CASE PassCheck(v)
    BY <2>a, <2>0 DEF PassCheck, HoldsSlot
  <2>1. CASE StartBuild(v)
    BY <2>a, <2>1 DEF StartBuild, HoldsSlot, Building
  <2>2. CASE RefuseBuild(v)
    BY <2>a, <2>2 DEF RefuseBuild, HoldsSlot
  <2>3. CASE Listen(v)
    BY <2>a, <2>3 DEF Listen, HoldsSlot, Building
  <2>4. CASE EndBuild(v)
    BY <2>a, <2>4 DEF EndBuild, HoldsSlot, Building
  <2>5. CASE Abort(v)
    BY <1>d, <2>5 DEF Abort
  <2>6. CASE Record(v)
    BY <2>a, <2>6 DEF Record, HoldsSlot
  <2>7. CASE Release(v)
    <3>1. v \in Holding /\ v \in Counting
      BY <2>7 DEF Release, Holding, Counting, Counted, HoldsSlot
    <3>2. Holding' = Holding \ {v} /\ Counting' = Counting
      BY <1>b, <2>7 DEF Release, Holding, Counting, Counted, HoldsSlot, Building
    <3>3. sem' = Cardinality(Holding') /\ wg' = Cardinality(Counting')
      BY <1>a, <1>b, <2>7, <3>1, <3>2, OneMoreOneLess DEF Release
    <3>4. sem' <= Parallelism /\ main' # "returned"
      BY <1>b, <1>c, <2>7, <3>1 DEF Release, Counting
    <3> QED
      BY <3>3, <3>4 DEF Accounting
  <2>8. CASE Exit(v)
    <3>1. v \in Counting
      BY <2>8 DEF Exit, Counting, Counted
    <3>2. Holding' = Holding /\ Counting' = Counting \ {v}
      BY <1>b, <2>8 DEF Exit, Holding, Counting, Counted, HoldsSlot, Building
    <3>3. wg' = Cardinality(Counting')
      BY <1>a, <1>b, <2>8, <3>1, <3>2, OneMoreOneLess DEF Exit
    <3>4. main' # "returned"
      BY <1>c, <2>8, <3>1 DEF Exit, Counting
    <3> QED
      BY <1>b, <2>8, <3>2, <3>3, <3>4 DEF Exit, Accounting
  <2> QED
    BY <1>4, <2>0, <2>1, <2>2, <2>3, <2>4, <2>5, <2>6, <2>7, <2>8 DEF Worker
<1>5. CASE Interrupt
  BY <1>5, <1>d DEF Interrupt
<1>6. CASE HandleSignal
  BY <1>6, <1>d DEF HandleSignal
<1>7. CASE UNCHANGED vars
  BY <1>7, <1>d DEF vars, Accounting
<1> QED
  BY <1>1, <1>2, <1>3, <1>4, <1>5, <1>6, <1>7 DEF Next, Over

THEOREM AccountingInvariant == Spec => []Accounting
  BY ShapeInvariant, AccountingInit, AccountingStep, PTL DEF Spec

-------------------------------------------------------------------------------
(* ErrorsMatch.                                                            *)

LEMMA ErrorsMatchInit == Init => ErrorsMatch
<1> SUFFICES ASSUME Init PROVE ErrorsMatch
  OBVIOUS
<1>1. Len(errs) = 0
  BY DEF Init
<1>2. Reported = {}
  BY <1>1 DEF Reported
<1> QED
  BY <1>1, <1>2 DEF Init, ErrorsMatch

\* Appending a VM that errs does not name yet adds that VM to Reported and
\* keeps the entries distinct.
LEMMA AppendToErrs ==
  ASSUME errs \in Seq(VMs), NEW v \in VMs, v \notin Reported,
         \A i, j \in 1..Len(errs) : errs[i] = errs[j] => i = j,
         errs' = Append(errs, v)
  PROVE  /\ Reported' = Reported \cup {v}
         /\ \A i, j \in 1..Len(errs') : errs'[i] = errs'[j] => i = j
<1>1. /\ Len(errs) \in Nat /\ Len(errs') = Len(errs) + 1
      /\ errs'[Len(errs) + 1] = v
      /\ \A i \in 1..Len(errs) : errs'[i] = errs[i]
  OBVIOUS
<1>2. 1..Len(errs') = (1..Len(errs)) \cup {Len(errs) + 1}
  BY <1>1
<1>3. \A i \in 1..Len(errs) : errs[i] # v
  BY DEF Reported
<1>4. Reported' = Reported \cup {v}
  BY <1>1, <1>2 DEF Reported
<1>5. ASSUME NEW i \in 1..Len(errs'), NEW j \in 1..Len(errs'), errs'[i] = errs'[j]
      PROVE  i = j
  BY <1>1, <1>2, <1>3, <1>5
<1> QED
  BY <1>4, <1>5

LEMMA ErrorsMatchStep == Shape /\ ErrorsMatch /\ [Next]_vars => ErrorsMatch'
<1> SUFFICES ASSUME Shape, ErrorsMatch, [Next]_vars PROVE ErrorsMatch'
  OBVIOUS
<1> USE DEF loopVars, workerVars, signalVars
<1> DEFINE Bad == {v \in VMs : res[v] \in {"failed", "cancelled"} /\ go[v] # "recording"}
<1>a. /\ go \in [VMs -> GoStates] /\ res \in [VMs -> {"none", "ok", "failed", "cancelled"}]
      /\ errs \in Seq(VMs)
      /\ Reported = Bad
      /\ \A i, j \in 1..Len(errs) : errs[i] = errs[j] => i = j
  BY DEF Shape, ErrorsMatch
<1>b. ASSUME UNCHANGED errs, Bad' = Bad PROVE ErrorsMatch'
  BY <1>a, <1>b DEF ErrorsMatch, Reported
<1>c. ASSUME NEW v \in VMs, v \notin Bad, errs' = Append(errs, v), Bad' = Bad \cup {v}
      PROVE  ErrorsMatch'
  BY <1>a, <1>c, AppendToErrs DEF ErrorsMatch
<1>1. CASE Launch
  <2>1. go[next] = "unlaunched" /\ next \in VMs /\ res[next] = "none"
    BY <1>1 DEF Launch, Shape
  <2>2. Bad' = Bad
    BY <1>1, <1>a, <2>1 DEF Launch
  <2> QED
    BY <1>1, <1>b, <2>2 DEF Launch
<1>2. CASE SkipCancelled
  <2>1. go[next] = "unlaunched" /\ next \in VMs /\ res[next] = "none"
    BY <1>2 DEF SkipCancelled, Shape
  <2>2. Bad' = Bad \cup {next} /\ next \notin Bad
    BY <1>2, <1>a, <2>1 DEF SkipCancelled
  <2> QED
    BY <1>2, <1>c, <2>1, <2>2 DEF SkipCancelled
<1>3. CASE Return
  BY <1>3, <1>b DEF Return
<1>4. ASSUME NEW v \in VMs, Worker(v) PROVE ErrorsMatch'
  <2>0. CASE PassCheck(v)
    <3>1. Bad' = Bad
      BY <1>a, <2>0 DEF PassCheck
    <3> QED
      BY <1>b, <2>0, <3>1 DEF PassCheck
  <2>1. CASE StartBuild(v)
    <3>1. Bad' = Bad
      BY <1>a, <2>1 DEF StartBuild
    <3> QED
      BY <1>b, <2>1, <3>1 DEF StartBuild
  <2>2. CASE RefuseBuild(v)
    <3>1. res[v] = "none"
      BY <2>2 DEF RefuseBuild, Shape
    <3>2. Bad' = Bad
      BY <1>a, <2>2, <3>1 DEF RefuseBuild
    <3> QED
      BY <1>b, <2>2, <3>2 DEF RefuseBuild
  <2>3. CASE Listen(v)
    <3>1. Bad' = Bad
      BY <1>a, <2>3 DEF Listen
    <3> QED
      BY <1>b, <2>3, <3>1 DEF Listen
  <2>4. CASE EndBuild(v)
    <3>1. res[v] = "none"
      BY <2>4 DEF EndBuild, Shape
    <3>2. Bad' = Bad
      BY <1>a, <2>4, <3>1 DEF EndBuild
    <3> QED
      BY <1>b, <2>4, <3>2 DEF EndBuild
  <2>5. CASE Abort(v)
    BY <1>b, <2>5 DEF Abort
  <2>6. CASE Record(v)
    <3>1. res[v] \in {"failed", "cancelled"}
      BY <1>a, <2>6 DEF Record, Shape, Building
    <3>2. Bad' = Bad \cup {v} /\ v \notin Bad
      BY <1>a, <2>6, <3>1 DEF Record
    <3> QED
      BY <1>c, <2>6, <3>2 DEF Record
  <2>7. CASE Release(v)
    <3>1. Bad' = Bad
      BY <1>a, <2>7 DEF Release
    <3> QED
      BY <1>b, <2>7, <3>1 DEF Release
  <2>8. CASE Exit(v)
    <3>1. Bad' = Bad
      BY <1>a, <2>8 DEF Exit
    <3> QED
      BY <1>b, <2>8, <3>1 DEF Exit
  <2> QED
    BY <1>4, <2>0, <2>1, <2>2, <2>3, <2>4, <2>5, <2>6, <2>7, <2>8 DEF Worker
<1>5. CASE Interrupt
  BY <1>5, <1>b DEF Interrupt
<1>6. CASE HandleSignal
  BY <1>6, <1>b DEF HandleSignal
<1>7. CASE UNCHANGED vars
  BY <1>7, <1>b DEF vars
<1> QED
  BY <1>1, <1>2, <1>3, <1>4, <1>5, <1>6, <1>7 DEF Next, Over

-------------------------------------------------------------------------------
(* Cancelling.                                                             *)

\* A set of VMs is at least as large as each of its parts.
LEMMA PartIsSmaller ==
  ASSUME NEW S \in SUBSET VMs, NEW T \in SUBSET S
  PROVE  Cardinality(T) <= Cardinality(S)
  BY VMSetsAreFinite, FS_Subset

LEMMA CancellingInit == Init => Cancelling
<1> SUFFICES ASSUME Init PROVE Cancelling
  OBVIOUS
<1>1. afterCancel \cup Committed = {}
  BY DEF Init, Committed, Building
<1> QED
  BY <1>1, FS_EmptySet, ParallelAssumption DEF Init, Cancelling

\* Before the cancel the builds that are committed hold slots, of which there
\* are Parallelism; after it nothing joins them, because no runner passes its
\* check any more.
LEMMA CancellingStep ==
  Shape /\ Accounting /\ Accounting' /\ Shape' /\ Cancelling /\ [Next]_vars => Cancelling'
<1> SUFFICES ASSUME Shape, Accounting, Accounting', Shape', Cancelling, [Next]_vars
             PROVE  Cancelling'
  OBVIOUS
<1> USE DEF loopVars, workerVars, signalVars
<1> DEFINE W == afterCancel \cup Committed
<1>a. /\ go \in [VMs -> GoStates] /\ cancelled \in BOOLEAN
      /\ W \in SUBSET VMs /\ W' \in SUBSET VMs
  BY DEF Shape, Committed
<1>b. ASSUME W' \subseteq W, ~cancelled' => afterCancel' = {} PROVE Cancelling'
  <2>1. Cardinality(W') <= Cardinality(W)
    BY <1>a, <1>b, PartIsSmaller
  <2>2. Cardinality(W') \in Nat /\ Cardinality(W) \in Nat
    BY <1>a, VMSetsAreFinite
  <2>3. Cardinality(W') <= Parallelism
    BY <2>1, <2>2, ParallelAssumption DEF Cancelling
  <2> QED
    BY <1>b, <2>3 DEF Cancelling
\* While the context is alive the committed builds are among those with slots.
<1>c. ASSUME afterCancel' \subseteq Committed', ~cancelled' => afterCancel' = {}
      PROVE  Cancelling'
  <2>1. Holding' \in SUBSET VMs /\ W' \subseteq Holding'
    BY <1>c DEF Holding, Committed, HoldsSlot
  <2>2. Cardinality(W') <= Cardinality(Holding')
    BY <2>1, PartIsSmaller
  <2>3. Cardinality(W') \in Nat /\ Cardinality(Holding') \in Nat
    BY <1>a, <2>1, VMSetsAreFinite
  <2>4. Cardinality(W') <= Parallelism
    BY <2>2, <2>3, ParallelAssumption DEF Accounting
  <2> QED
    BY <1>c, <2>4 DEF Cancelling
<1>d. ASSUME UNCHANGED <<afterCancel, cancelled>>, Committed' \subseteq Committed
      PROVE  Cancelling'
  BY <1>b, <1>d DEF Cancelling
<1>1. CASE Launch
  <2>1. Committed' \subseteq Committed
    BY <1>1, <1>a DEF Launch, Committed, Building
  <2> QED
    BY <1>1, <1>d, <2>1 DEF Launch
<1>2. CASE SkipCancelled
  <2>1. Committed' \subseteq Committed
    BY <1>2, <1>a DEF SkipCancelled, Committed, Building
  <2> QED
    BY <1>2, <1>d, <2>1 DEF SkipCancelled
<1>3. CASE Return
  BY <1>3, <1>d DEF Return, Committed
<1>4. ASSUME NEW v \in VMs, Worker(v) PROVE Cancelling'
  <2>a. ASSUME NEW s \in GoStates, go' = [go EXCEPT ![v] = s],
               s \in {"checked"} \cup Building => v \in Committed,
               UNCHANGED <<afterCancel, cancelled>>
        PROVE  Cancelling'
    <3>1. Committed' \subseteq Committed
      BY <1>a, <2>a DEF Committed
    <3> QED
      BY <1>d, <2>a, <3>1
  <2>0. CASE PassCheck(v)
    BY <1>c, <2>0 DEF PassCheck, ContextAlive, Cancelling
  <2>1. CASE StartBuild(v)
    <3>1. v \in Committed
      BY <2>1 DEF StartBuild, Committed
    <3>2. Committed' \subseteq Committed
      BY <1>a, <2>1, <3>1 DEF StartBuild, Committed
    <3>3. afterCancel' \subseteq W /\ cancelled' = cancelled
      BY <2>1, <3>1 DEF StartBuild
    <3>4. ~cancelled' => afterCancel' = {}
      BY <2>1 DEF StartBuild, Cancelling
    <3> QED
      BY <1>b, <3>2, <3>3, <3>4
  <2>2. CASE RefuseBuild(v)
    BY <2>a, <2>2 DEF RefuseBuild, Building, GoStates, Counted, HoldsSlot
  <2>3. CASE Listen(v)
    BY <2>a, <2>3 DEF Listen, Committed, Building, GoStates, Counted, HoldsSlot
  <2>4. CASE EndBuild(v)
    BY <2>a, <2>4 DEF EndBuild, Building, GoStates, Counted, HoldsSlot
  <2>5. CASE Abort(v)
    BY <1>d, <2>5 DEF Abort, Committed
  <2>6. CASE Record(v)
    BY <2>a, <2>6 DEF Record, Building, GoStates, Counted, HoldsSlot
  <2>7. CASE Release(v)
    BY <2>a, <2>7 DEF Release, Building, GoStates, Counted, HoldsSlot
  <2>8. CASE Exit(v)
    BY <2>a, <2>8 DEF Exit, Building, GoStates, Counted, HoldsSlot
  <2> QED
    BY <1>4, <2>0, <2>1, <2>2, <2>3, <2>4, <2>5, <2>6, <2>7, <2>8 DEF Worker
<1>5. CASE Interrupt
  BY <1>5, <1>d DEF Interrupt, Committed
<1>6. CASE HandleSignal
  <2>1. afterCancel' \subseteq Committed' /\ cancelled'
    BY <1>6 DEF HandleSignal, Committed
  <2> QED
    BY <1>c, <2>1
<1>7. CASE UNCHANGED vars
  BY <1>7, <1>d DEF vars, Committed
<1> QED
  BY <1>1, <1>2, <1>3, <1>4, <1>5, <1>6, <1>7 DEF Next, Over

THEOREM InductiveInvariant == Spec => []IInv
<1>1. Init => IInv
  BY ShapeInit, AccountingInit, ErrorsMatchInit, CancellingInit DEF IInv
<1>2. IInv /\ [Next]_vars => IInv'
  BY ShapeStep, AccountingStep, ErrorsMatchStep, CancellingStep DEF IInv
<1> QED
  BY <1>1, <1>2, PTL DEF Spec

-------------------------------------------------------------------------------
(* The properties the runs check.                                          *)

\* Every variable keeps its type: the semaphore and the WaitGroup never go
\* below zero (a negative WaitGroup panics in Go).
THEOREM TypeCorrect == Spec => []TypeOK
<1>1. IInv => TypeOK
  <2> SUFFICES ASSUME IInv PROVE TypeOK
    OBVIOUS
  <2>1. Holding \in SUBSET VMs /\ Counting \in SUBSET VMs
    BY DEF Holding, Counting
  <2>2. sem \in Nat /\ wg \in Nat
    BY <2>1, VMSetsAreFinite DEF IInv, Accounting
  <2> QED
    BY <2>2 DEF IInv, Shape, TypeOK
<1> QED
  BY <1>1, InductiveInvariant, PTL

\* At most Parallelism builds are inside runBuild at any time, for every
\* number of VMs and every interleaving of completions and interrupts.
THEOREM ParallelismIsBounded == Spec => []BoundedParallelism
<1>1. IInv => BoundedParallelism
  <2> SUFFICES ASSUME IInv PROVE BoundedParallelism
    OBVIOUS
  <2> DEFINE B == {v \in VMs : go[v] \in Building}
  <2>1. B \in SUBSET Holding /\ Holding \in SUBSET VMs
    BY DEF Holding, HoldsSlot
  <2>2. Cardinality(B) <= Cardinality(Holding)
    BY <2>1, VMSetsAreFinite, FS_Subset
  <2>3. B \in SUBSET VMs
    OBVIOUS
  <2>4. Cardinality(B) \in Nat /\ Cardinality(Holding) \in Nat
    BY <2>1, <2>3, VMSetsAreFinite
  <2>5. Cardinality(Holding) <= Parallelism
    BY DEF IInv, Accounting
  <2>6. Cardinality(B) <= Parallelism
    BY <2>2, <2>4, <2>5, ParallelAssumption
  <2> QED
    BY <2>6 DEF BoundedParallelism
<1> QED
  BY <1>1, InductiveInvariant, PTL

\* When runParallelBuilds returns, every goroutine it started has ended.
THEOREM ReturnIsLast == Spec => []NothingOutlivesReturn
<1>1. IInv => NothingOutlivesReturn
  <2> SUFFICES ASSUME IInv, main = "returned", NEW v \in VMs
               PROVE  go[v] \in {"skipped", "exited"}
    BY DEF NothingOutlivesReturn
  <2>1. next = N + 1 /\ go[v] \notin Counted
    BY DEF IInv, Accounting, Counting
  <2>2. go[v] # "unlaunched"
    BY <2>1, ParallelAssumption DEF IInv, Shape, VMs
  <2>3. go[v] \in GoStates
    BY DEF IInv, Shape
  <2> QED
    BY <2>1, <2>2, <2>3 DEF GoStates
<1> QED
  BY <1>1, InductiveInvariant, PTL

\* The slice handed to the caller names exactly the VMs that were not built
\* and each of them once.
THEOREM ReportTheorem == Spec => []ReportIsExact
<1>1. IInv /\ NothingOutlivesReturn => ReportIsExact
  <2> SUFFICES ASSUME IInv, NothingOutlivesReturn, main = "returned"
               PROVE  /\ Reported = {v \in VMs : res[v] # "ok"}
                      /\ Len(errs) = Cardinality({v \in VMs : res[v] # "ok"})
    BY DEF ReportIsExact
  <2>1. \A v \in VMs : go[v] \in {"skipped", "exited"}
    BY DEF NothingOutlivesReturn
  <2>2. \A v \in VMs : res[v] \in {"ok", "failed", "cancelled"} /\ go[v] # "recording"
    BY <2>1 DEF IInv, Shape, Building
  <2>3. Reported = {v \in VMs : res[v] # "ok"}
    BY <2>2 DEF IInv, ErrorsMatch
  <2>4. errs \in Seq(VMs) /\ Len(errs) \in Nat
    BY DEF IInv, Shape
  <2> DEFINE f == [i \in 1..Len(errs) |-> errs[i]]
  <2>5. f \in Bijection(1..Len(errs), Reported)
    <3>1. f \in [1..Len(errs) -> Reported]
      BY DEF Reported
    <3>2. \A i, j \in 1..Len(errs) : f[i] = f[j] => i = j
      BY DEF IInv, ErrorsMatch
    <3>3. \A v \in Reported : \E i \in 1..Len(errs) : f[i] = v
      BY DEF Reported
    <3> QED
      BY <3>1, <3>2, <3>3 DEF Bijection, Injection, Surjection, IsInjective
  <2>6. IsFiniteSet(1..Len(errs)) /\ Cardinality(1..Len(errs)) = Len(errs)
    BY <2>4, FS_Interval
  <2>7. Cardinality(Reported) = Len(errs)
    BY <2>5, <2>6, FS_Bijection DEF ExistsBijection
  <2> QED
    BY <2>3, <2>7
<1> QED
  BY <1>1, InductiveInvariant, ReturnIsLast, PTL

\* However the interrupt falls between a runner's look at the context and its
\* call of runBuild, at most Parallelism builds are inside runBuild from the
\* cancel on, for every number of VMs.
THEOREM CancelLeavesFew == Spec => []FewBuildsAfterCancel
<1>1. IInv => FewBuildsAfterCancel
  <2> SUFFICES ASSUME IInv PROVE Cardinality(afterCancel) <= Parallelism
    BY DEF FewBuildsAfterCancel
  <2>1. afterCancel \cup Committed \in SUBSET VMs
    BY DEF IInv, Shape, Committed
  <2>2. Cardinality(afterCancel) <= Cardinality(afterCancel \cup Committed)
    BY <2>1, PartIsSmaller
  <2>3. Cardinality(afterCancel) \in Nat /\ Cardinality(afterCancel \cup Committed) \in Nat
    BY <2>1, VMSetsAreFinite
  <2> QED
    BY <2>2, <2>3, ParallelAssumption DEF IInv, Cancelling
<1> QED
  BY <1>1, InductiveInvariant, PTL

-------------------------------------------------------------------------------
(* ImplementsOutcomes.                                                     *)

\* Every step of the goroutines is a step of BuildOutcomes or changes nothing
\* it can see.
LEMMA OutcomeStep ==
  ASSUME IInv, NothingOutlivesReturn', ReportIsExact', [Next]_vars
  PROVE  [Outcomes!Next]_(Outcomes!vars)
<1> USE DEF loopVars, workerVars, signalVars
<1> DEFINE out == [v \in VMs |-> Outcome(v)]
           rep == IF main = "returned" THEN Reported ELSE {}
<1>a. /\ go \in [VMs -> GoStates]
      /\ res \in [VMs -> {"none", "ok", "failed", "cancelled"}]
  BY DEF IInv, Shape
<1>b. ASSUME UNCHANGED <<main, rep>>, out' = out PROVE UNCHANGED Outcomes!vars
  BY <1>b DEF Outcomes!vars
<1>c. ASSUME NEW v \in VMs, main # "returned", main' # "returned",
             \/ Outcome(v) = "pending" /\ Outcome(v)' \in {"running", "cancelled"}
             \/ Outcome(v) = "running" /\ Outcome(v)' \in {"ok", "failed", "cancelled"},
             out' = [out EXCEPT ![v] = Outcome(v)']
      PROVE  Outcomes!Next
  <2>1. UNCHANGED <<main = "returned", rep>>
    BY <1>c
  <2>2. out[v] = Outcome(v)
    OBVIOUS
  <2>3. Outcomes!Begin(v) \/ Outcomes!Withdraw(v) \/ Outcomes!Settle(v)
    BY <1>c, <2>1, <2>2
       DEF Outcomes!Begin, Outcomes!Withdraw, Outcomes!Settle, Outcomes!Final
  <2> QED
    BY <2>3 DEF Outcomes!Next, Outcomes!VMs, VMs
<1>d. ASSUME NEW v \in VMs, go[v] \in Counted PROVE main # "returned"
  BY <1>d DEF IInv, Accounting, Counting
<1>e. ASSUME NEW v \in VMs, \A u \in VMs \ {v} : go'[u] = go[u] /\ res'[u] = res[u]
      PROVE  out' = [out EXCEPT ![v] = Outcome(v)']
  BY <1>e DEF Outcome
<1>f. ASSUME NEW v \in VMs, main # "returned", main' # "returned",
             \A u \in VMs \ {v} : go'[u] = go[u] /\ res'[u] = res[u],
             Outcome(v)' = Outcome(v)
      PROVE  UNCHANGED Outcomes!vars
  <2>1. out' = out
    BY <1>e, <1>f
  <2> QED
    BY <1>f, <2>1 DEF Outcomes!vars
<1>g. ASSUME UNCHANGED <<go, res, errs>>, main' # "returned", main # "returned"
      PROVE  UNCHANGED Outcomes!vars
  <2>1. out' = out
    BY <1>g DEF Outcome
  <2> QED
    BY <1>g, <2>1 DEF Outcomes!vars
<1>1. CASE Launch
  <2>0. PICK v \in VMs : v = next
    BY <1>1 DEF Launch
  <2>1. go[v] = "unlaunched" /\ go'[v] = "launched"
    BY <1>1, <1>a, <2>0 DEF Launch, Shape, IInv
  <2>2. Outcome(v) = "pending" /\ Outcome(v)' = "running"
    BY <2>1 DEF Outcome
  <2>3. \A u \in VMs \ {v} : go'[u] = go[u] /\ res'[u] = res[u]
    BY <1>1, <1>a, <2>0 DEF Launch
  <2>4. main # "returned" /\ main' # "returned"
    BY <1>1 DEF Launch
  <2> QED
    BY <1>c, <1>e, <2>2, <2>3, <2>4
<1>2. CASE SkipCancelled
  <2>0. PICK v \in VMs : v = next
    BY <1>2 DEF SkipCancelled
  <2>1. go[v] = "unlaunched" /\ go'[v] = "skipped" /\ res'[v] = "cancelled"
    BY <1>2, <1>a, <2>0 DEF SkipCancelled, Shape, IInv
  <2>2. Outcome(v) = "pending" /\ Outcome(v)' = "cancelled"
    BY <2>1 DEF Outcome, Building
  <2>3. \A u \in VMs \ {v} : go'[u] = go[u] /\ res'[u] = res[u]
    BY <1>2, <1>a, <2>0 DEF SkipCancelled
  <2>4. main # "returned" /\ main' # "returned"
    BY <1>2 DEF SkipCancelled
  <2> QED
    BY <1>c, <1>e, <2>2, <2>3, <2>4
<1>3. CASE Return
  <2>1. main = "running" /\ main' = "returned" /\ UNCHANGED <<go, res, errs>>
    BY <1>3 DEF Return
  <2>2. \A v \in VMs : go[v] \in {"skipped", "exited"}
    BY <2>1 DEF NothingOutlivesReturn
  <2>3. \A v \in VMs : out[v] = res[v] /\ res[v] \in {"ok", "failed", "cancelled"}
    BY <1>a, <2>2 DEF Outcome, Building, IInv, Shape
  <2>4. rep' = {v \in VMs : out[v] # "ok"}
    BY <2>1, <2>3 DEF ReportIsExact
  <2>5. out' = out
    BY <2>1 DEF Outcome
  <2>6. Outcomes!Finish
    BY <2>1, <2>3, <2>4, <2>5 DEF Outcomes!Finish, Outcomes!Final, Outcomes!VMs, VMs
  <2> QED
    BY <2>6 DEF Outcomes!Next
<1>4. ASSUME NEW v \in VMs, Worker(v) PROVE [Outcomes!Next]_(Outcomes!vars)
  <2> USE DEF Building
  <2>0. CASE PassCheck(v)
    BY <1>a, <1>d, <1>f, <2>0 DEF PassCheck, Outcome, Counted, HoldsSlot
  <2>1. CASE StartBuild(v)
    BY <1>a, <1>d, <1>f, <2>1 DEF StartBuild, Outcome, Counted, HoldsSlot
  <2>2. CASE RefuseBuild(v)
    BY <1>a, <1>d, <1>f, <2>2 DEF RefuseBuild, Outcome, Counted, HoldsSlot
  <2>3. CASE Listen(v)
    BY <1>a, <1>d, <1>f, <2>3 DEF Listen, Outcome, Counted, HoldsSlot
  <2>4. CASE EndBuild(v)
    <3>1. main # "returned" /\ main' # "returned"
      BY <1>d, <2>4 DEF EndBuild, Counted, HoldsSlot
    <3>2. /\ go[v] \in {"preparing", "listening"}
          /\ \/ go'[v] = "releasing" /\ res'[v] = "ok"
             \/ go'[v] = "recording" /\ res'[v] = "failed"
      BY <1>a, <2>4 DEF EndBuild
    <3>3. \A u \in VMs \ {v} : go'[u] = go[u] /\ res'[u] = res[u]
      BY <1>a, <2>4 DEF EndBuild
    <3>4. Outcome(v) = "running" /\ Outcome(v)' \in {"ok", "running"}
      BY <3>2 DEF Outcome
    <3>5. CASE Outcome(v)' = "ok"
      BY <1>c, <1>e, <3>1, <3>3, <3>4, <3>5
    <3>6. CASE Outcome(v)' = "running"
      BY <1>f, <3>1, <3>3, <3>4, <3>6
    <3> QED
      BY <3>4, <3>5, <3>6
  <2>5. CASE Abort(v)
    BY <1>d, <1>g, <2>5 DEF Abort, Counted, HoldsSlot
  <2>6. CASE Record(v)
    <3>1. main # "returned" /\ main' # "returned"
      BY <1>d, <2>6 DEF Record, Counted, HoldsSlot
    <3>2. go[v] = "recording" /\ go'[v] = "releasing" /\ res'[v] = res[v]
      BY <1>a, <2>6 DEF Record
    <3>3. res[v] \in {"failed", "cancelled"}
      BY <1>a, <3>2 DEF IInv, Shape
    <3>4. Outcome(v) = "running" /\ Outcome(v)' \in {"failed", "cancelled"}
      BY <3>2, <3>3 DEF Outcome
    <3>5. \A u \in VMs \ {v} : go'[u] = go[u] /\ res'[u] = res[u]
      BY <1>a, <2>6 DEF Record
    <3> QED
      BY <1>c, <1>e, <3>1, <3>4, <3>5
  <2>7. CASE Release(v)
    BY <1>a, <1>d, <1>f, <2>7 DEF Release, Outcome, Counted, HoldsSlot
  <2>8. CASE Exit(v)
    BY <1>a, <1>d, <1>f, <2>8 DEF Exit, Outcome, Counted
  <2> QED
    BY <1>4, <2>0, <2>1, <2>2, <2>3, <2>4, <2>5, <2>6, <2>7, <2>8 DEF Worker
<1>5. CASE Interrupt
  BY <1>5, <1>g DEF Interrupt
<1>6. CASE HandleSignal
  BY <1>6, <1>g DEF HandleSignal
<1>7. CASE UNCHANGED vars
  <2>1. UNCHANGED <<main, rep>> /\ out' = out
    BY <1>7 DEF vars, Outcome, Reported
  <2> QED
    BY <1>b, <2>1
<1> QED
  BY <1>1, <1>2, <1>3, <1>4, <1>5, <1>6, <1>7 DEF Next, Over

\* `build all` keeps the promise of BuildOutcomes: each VM settles once and
\* the report is exact.
THEOREM Refinement == Spec => ImplementsOutcomes
<1>1. Init => Outcomes!Init
  BY DEF Init, Outcomes!Init, Outcomes!VMs, VMs, Outcome
<1>2. IInv /\ NothingOutlivesReturn' /\ ReportIsExact' /\ [Next]_vars
      => [Outcomes!Next]_(Outcomes!vars)
  BY OutcomeStep
<1> QED
  BY <1>1, <1>2, InductiveInvariant, ReturnIsLast, ReportTheorem, PTL
     DEF Spec, ImplementsOutcomes, Outcomes!Spec
===============================================================================
