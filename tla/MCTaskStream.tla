---------------------------- MODULE MCTaskStream ----------------------------
(* TaskStream with a prompt, the same with files attached, and two tasks,     *)
(* which are interchangeable and taken in numerical order, as symmetry sets   *)
(* are not for liveness.  The                                                 *)
(* second task only begins and ends; that a text grows, is replaced and is    *)
(* followed twice, and that calls begin and end, is left to the first.  When  *)
(* no prompt is left to send, nobody leaves, and what no one follows stays.   *)
EXTENDS TaskStream

MCBare == [p \in {1, 2} |-> 1]

TakenInOrder ==
  \A t \in TaskIds : status[t] = "absent" /\ status'[t] # "absent" =>
    \A u \in 1..(t - 1) : status[u] # "absent"

OneWorks == \A t \in TaskIds \ {1} : made'[t] = made[t] \/ made'[t].answered

Watched ==
  \/ sends < MaxSends
  \/ /\ view' = view \/ view' # initialStreamState
     /\ \E s \in Sends : ~Over(s)

Small == Watched /\ TakenInOrder /\ OneWorks
=============================================================================
