--------------------------- MODULE TaskLifecycle ---------------------------
(***************************************************************************)
(* What the task API promises a client that watches the status of its      *)
(* tasks: a task is accepted once, waits, is run by at most one agent at a *)
(* time, and reaches exactly one of three final states, which it keeps.    *)
(***************************************************************************)
CONSTANT TaskIds
VARIABLE status     \* [TaskIds -> Status], what GET /tasks/{id} reports

Final  == {"completed", "failed", "cancelled"}
Active == {"queued", "running"}
Status == {"absent"} \cup Active \cup Final

Move(t, from, to) == /\ status[t] \in from
                     /\ status' = [status EXCEPT ![t] = to]

\* No task is being run by an agent.
Idle == \A t \in TaskIds : status[t] # "running"

Accept(t)    == Move(t, {"absent"}, "queued")
Begin(t)     == Idle /\ Move(t, {"queued"}, "running")
\* A greeting is answered without an agent, but still in the task's turn.
Greet(t)     == Idle /\ Move(t, {"queued"}, "completed")
Finish(t)    == \E s \in {"completed", "failed"} : Move(t, {"running"}, s)
Cancel(t)    == Move(t, Active, "cancelled")

Init == status = [t \in TaskIds |-> "absent"]

Next == \E t \in TaskIds : Accept(t) \/ Begin(t) \/ Greet(t) \/ Finish(t) \/ Cancel(t)

Spec == Init /\ [][Next]_status
=============================================================================
