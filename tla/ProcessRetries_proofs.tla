------------------------ MODULE ProcessRetries_proofs ------------------------
(***************************************************************************)
(* Theorems about ProcessRetries for every number of retries and signals.  *)
(* TypeOK, FailedGroupIsGone and StopsAreHeard follow from IInv, which     *)
(* adds where in the loop a process may run, a group may live and a        *)
(* request may have been received.                                         *)
(***************************************************************************)
EXTENDS ProcessRetries, TLAPS

\* The loop goes beyond its last attempt only where it sees that it has.
AttemptsCounted == loop \notin {"head", "returned"} => attempt <= Retries

\* A process runs only while the loop watches or ends it, and an attempt
\* that has not started it has none.
ProcessWatched ==
  /\ proc = "running" => loop \in {"running", "terminate"}
  /\ loop \in {"delay", "start"} => proc = "none" /\ group = "none"

\* Whoever received the request is on the way out of the loop.
RequestLeaves ==
  request = "received" =>
    \/ loop = "returned"
    \/ loop = "judge" /\ ret = "canceled"
    \/ loop = "terminate" /\ why = "request"

\* A signal sent stays in the loop's channel.
SignalKept == signals > 0 => outer

IInv ==
  /\ TypeOK /\ AttemptsCounted /\ ProcessWatched /\ FailedGroupIsGone
  /\ RequestLeaves /\ SignalKept

LEMMA InitInv == Init => IInv
<1> SUFFICES ASSUME Init PROVE IInv
  OBVIOUS
<1>1. {elapsed, outer, inner, chan, delayed} \subseteq BOOLEAN
  BY Zenon DEF Init
<1>2. attempt \in 0..(Retries + 1) /\ signals \in 0..MaxSignals /\ attempt <= Retries
  BY RetriesAssumption DEF Init
<1>3. TypeOK
  BY <1>1, <1>2 DEF Init, TypeOK
<1>4. AttemptsCounted /\ ProcessWatched /\ FailedGroupIsGone /\ RequestLeaves
  BY <1>2 DEF Init, AttemptsCounted, ProcessWatched, FailedGroupIsGone, RequestLeaves
<1>5. SignalKept
  BY DEF Init, SignalKept
<1> QED
  BY <1>3, <1>4, <1>5 DEF IInv

\* Each step of the loop, of an attempt and of the world keeps IInv.
LEMMA StepInv == IInv /\ [Next]_vars => IInv'
<1> SUFFICES ASSUME IInv, [Next]_vars PROVE IInv'
  OBVIOUS
<1> USE RetriesAssumption
    DEF IInv, TypeOK, AttemptsCounted, ProcessWatched, FailedGroupIsGone,
        RequestLeaves, SignalKept, InAttempt, Over, config, outside, process
<1>1. CASE Head
  BY <1>1 DEF Head, ReturnWith
<1>2. CASE Sleep
  BY <1>2 DEF Sleep, ReturnWith, TakeRequest
<1>3. CASE CheckSignal
  BY <1>3 DEF CheckSignal, ReturnWith
<1>4. CASE CheckRequest
  BY <1>4 DEF CheckRequest, ReturnWith, TakeRequest
<1>5. CASE Enter
  BY <1>5 DEF Enter
<1>6. CASE Delay
  BY <1>6 DEF Delay, TakeRequest, Leave
<1>7. CASE Start
  BY <1>7 DEF Start
<1>8. CASE Watch
  BY <1>8 DEF Watch, TakeRequest, Leave
<1>9. CASE Terminate
  BY <1>9 DEF Terminate, Leave
<1>10. CASE Judge
  BY <1>10 DEF Judge
<1>11. CASE AfterRequest
  BY <1>11 DEF AfterRequest, TakeRequest
<1>12. CASE AfterSignal
  BY <1>12 DEF AfterSignal, ReturnWith
<1>13. CASE Signal
  BY <1>13 DEF Signal
<1>14. CASE Request
  BY <1>14 DEF Request
<1>15. CASE ParentEnds
  BY <1>15 DEF ParentEnds
<1>16. CASE Elapse
  BY <1>16 DEF Elapse
<1>17. CASE AttemptTimeout
  BY <1>17 DEF AttemptTimeout
<1>18. CASE ProcessExits
  BY <1>18 DEF ProcessExits
<1>19. CASE UNCHANGED vars
  BY <1>19 DEF vars
<1> QED
  BY <1>1, <1>2, <1>3, <1>4, <1>5, <1>6, <1>7, <1>8, <1>9, <1>10, <1>11, <1>12,
     <1>13, <1>14, <1>15, <1>16, <1>17, <1>18, <1>19 DEF Next, Step, Ended

\* IInv holds in every reachable state.
THEOREM Invariant == Spec => []IInv
  BY InitInv, StepInv, PTL DEF Spec

\* Every variable keeps its type, and the loop counts at most one attempt
\* beyond the last.
THEOREM TypeCorrect == Spec => []TypeOK
<1>1. IInv => TypeOK
  BY DEF IInv
<1> QED
  BY <1>1, Invariant, PTL

\* A failed attempt leaves nothing of its process group behind.
THEOREM GroupCleanup == Spec => []FailedGroupIsGone
<1>1. IInv => FailedGroupIsGone
  BY DEF IInv
<1> QED
  BY <1>1, Invariant, PTL

\* A signal or a request is heard by the checks between the attempts: no step
\* passes them once something was sent.
THEOREM StopHeard == Spec => StopsAreHeard
<1> DEFINE Hears ==
      /\ signals > 0 => ~(loop = "check" /\ loop' = "checkRequest")
      /\ request # "unsent" => ~(loop = "checkRequest" /\ loop' = "enter")
<1>1. IInv /\ [Next]_vars => [Hears]_vars
  <2> SUFFICES ASSUME IInv, [Next]_vars PROVE [Hears]_vars
    OBVIOUS
  <2>1. ASSUME loop = "check", loop' = "checkRequest" PROVE ~(signals > 0)
    <3>1. CheckSignal
      BY <2>1 DEF Next, Step, Ended, vars, Head, Sleep, CheckRequest, Enter, Delay, Start,
         Watch, Terminate, Judge, AfterRequest, AfterSignal, Signal, Request, ParentEnds,
         Elapse, AttemptTimeout, ProcessExits, Leave, ReturnWith
    <3> QED
      BY <2>1, <3>1 DEF CheckSignal, ReturnWith, IInv, SignalKept
  <2>2. ASSUME loop = "checkRequest", loop' = "enter" PROVE request = "unsent"
    <3>1. CheckRequest
      BY <2>2 DEF Next, Step, Ended, vars, Head, Sleep, CheckSignal, Enter, Delay, Start,
         Watch, Terminate, Judge, AfterRequest, AfterSignal, Signal, Request, ParentEnds,
         Elapse, AttemptTimeout, ProcessExits, Leave, ReturnWith
    <3>2. request # "buffered"
      BY <2>2, <3>1 DEF CheckRequest, ReturnWith
    <3> QED
      BY <2>2, <3>2 DEF IInv, RequestLeaves, TypeOK
  <2> QED
    BY <2>1, <2>2
<1> QED
  BY <1>1, Invariant, PTL DEF Spec, StopsAreHeard
===============================================================================
