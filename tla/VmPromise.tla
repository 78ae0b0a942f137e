-------------------------------- MODULE VmPromise --------------------------------
(***************************************************************************)
(* What `alchemy create`, `start`, `stop` and `destroy` promise about a    *)
(* machine, whatever its engine: which changes of its state a command may  *)
(* make while it is the only one.  Two commands at once promise nothing.   *)
(* "remains" is what a command left that is not a whole machine.           *)
(***************************************************************************)
EXTENDS Naturals

CONSTANTS Procs, Vms

VARIABLES
  state,              \* state[v]: what the user finds of v
  doing               \* doing[p]: the command of p, its machine, and whether it
                      \* has been the only one since it began; or Idle

States == {"absent", "remains", "stopped", "running"}
Idle   == [what |-> "none"]

May ==
  [create  |-> {<<"absent", "remains">>, <<"absent", "stopped">>, <<"absent", "running">>,
                <<"remains", "absent">>, <<"remains", "stopped">>, <<"remains", "running">>,
                <<"stopped", "running">>, <<"stopped", "remains">>},
   start   |-> {<<"stopped", "running">>},
   stop    |-> {<<"running", "stopped">>, <<"remains", "absent">>},
   destroy |-> {<<"running", "stopped">>}
                 \cup {<<s, t>> : s \in States, t \in {"remains", "absent"}}]

\* A guest goes off; with it goes a domain that has no definition any more.
Guest == {<<"running", "stopped">>, <<"remains", "absent">>}

Init ==
  /\ state = [v \in Vms |-> "absent"]
  /\ doing = [p \in Procs |-> Idle]

GuestStops(v) ==
  /\ \E t \in States : <<state[v], t>> \in Guest /\ state' = [state EXCEPT ![v] = t]
  /\ UNCHANGED doing

Begin(p) ==
  /\ doing[p] = Idle /\ UNCHANGED state
  /\ \E c \in DOMAIN May, v \in Vms :
       doing' = [q \in Procs |->
         IF q = p THEN [what |-> c, vm |-> v, alone |-> \A r \in Procs \ {p} : doing[r] = Idle]
         ELSE IF doing[q] = Idle THEN Idle ELSE [doing[q] EXCEPT !.alone = FALSE]]

\* An "all" command goes on with another machine.
GoOn(p) ==
  /\ doing[p] # Idle /\ UNCHANGED state
  /\ \E v \in Vms : doing' = [doing EXCEPT ![p].vm = v]

Work(p) ==
  /\ doing[p] # Idle
  /\ LET v == doing[p].vm IN
     \E t \in States :
       /\ t # state[v] /\ doing[p].alone => <<state[v], t>> \in May[doing[p].what]
       /\ state' = [state EXCEPT ![v] = t]
  /\ doing' \in {doing, [doing EXCEPT ![p] = Idle]}

Next ==
  \/ \E v \in Vms : GuestStops(v)
  \/ \E p \in Procs : Begin(p) \/ GoOn(p) \/ Work(p)

Spec == Init /\ [][Next]_<<state, doing>>
================================================================================
