---------------------------- MODULE MCTaskStore ----------------------------
(* TaskStore on small sets.  Jobs and identifiers are interchangeable:     *)
(* the safety runs say so with a symmetry set, and the liveness run, where *)
(* TLC may not use one, takes them in numerical order.                     *)
EXTENDS TaskStore, TLC

Symmetry == Permutations(Jobs) \cup Permutations(TaskIds)

\* The n-th submission is job n and gets identifier n.
SubmitInOrder ==
  \A j \in Jobs : job[j].pc = "unborn" /\ job'[j].pc # "unborn" =>
    /\ job'[j].id = j
    /\ \A k \in 1..(j - 1) : job[k].pc # "unborn"
=============================================================================
