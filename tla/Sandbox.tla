------------------------------ MODULE Sandbox ------------------------------
(***************************************************************************)
(* Code execution in containers: the endpoint that asks the policy and     *)
(* keeps the results, the tool that validates a request, DockerSandbox,    *)
(* which runs "docker run --rm" under two nested time limits and removes   *)
(* the container by force when they pass, and the entrypoint inside the    *)
(* container, which has a time limit of its own.                           *)
(*                                                                         *)
(* Time is discrete; Tick is disabled while a timer is due, so a timer     *)
(* fires before the next tick.  Docker is external: it creates, starts and *)
(* removes containers for a CLI that is alive, may refuse, and may lose    *)
(* its CLI.  Code, output and resource limits other than time are left out.*)
(***************************************************************************)
EXTENDS Integers

CONSTANTS
  Executions,      \* execution ids
  Requested,       \* timeouts clients ask for, in ticks
  MaxTimeout,      \* SandboxConfig.max_timeout_seconds
  Second,          \* ticks in a second
  Overhead,        \* execution_deadline - effective_timeout
  CleanupTimeout,  \* CLEANUP_TIMEOUT
  Grace            \* what the entrypoint waits for a program it has killed

\* SandboxConfig and ResourceLimits accept positive limits only.
Config == {MaxTimeout, Second} \subseteq Nat \ {0}

ASSUME SandboxAssumption ==
  /\ Requested \subseteq Int
  /\ Config
  /\ {Overhead, CleanupTimeout, Grace} \subseteq Nat

VARIABLES
  pc,         \* where execute() is
  clock,      \* ticks since it was called
  deadline,   \* the clock at which the await it is in gives up
  limit,      \* effective_timeout
  cli,        \* the "docker run" process
  container,  \* the container: not there, there, or how it ended
  age,        \* ticks since the program in it was started
  reply,      \* what the client was answered
  runs        \* CodeStore._runs: the executions that can be listed

vars == <<pc, clock, deadline, limit, cli, container, age, reply, runs>>

Alive == {"created", "running"}
Ended == {"exit0", "exit1", "exit137", "overran", "crashed", "removed"}
Awaits == {"running", "killing", "cleaning"}

NoReply      == [kind |-> "none",   success |-> FALSE, exit_code |-> 0, timed_out |-> FALSE]
Failure(why) == [kind |-> why,      success |-> FALSE, exit_code |-> 0, timed_out |-> FALSE]
\* ExecutionResult: a time-out is never a success.
Result(code, late) ==
  [kind |-> "result", success |-> code = 0 /\ ~late, exit_code |-> code, timed_out |-> late]
Replies == {NoReply} \cup {Failure(w) : w \in {"denied", "rejected", "unavailable", "cancelled"}}
             \cup {Result(c, l) : c \in {-1, 0, 1, 124, 125, 137}, l \in BOOLEAN}

Smaller(a, b) == IF a < b THEN a ELSE b

Init ==
  /\ pc        = [e \in Executions |-> "idle"]
  /\ clock     = [e \in Executions |-> 0]
  /\ deadline  = [e \in Executions |-> 0]
  /\ limit     = [e \in Executions |-> MaxTimeout]
  /\ cli       = [e \in Executions |-> "none"]
  /\ container = [e \in Executions |-> "none"]
  /\ age       = [e \in Executions |-> 0]
  /\ reply     = [e \in Executions |-> NoReply]
  /\ runs      = {}
-----------------------------------------------------------------------------
(* A request *)

\* Answering ends the execution; only a result is kept for the list of runs.
Answer(e, r) ==
  /\ pc' = [pc EXCEPT ![e] = "over"]
  /\ reply' = [reply EXCEPT ![e] = r]
  /\ runs' = IF r.kind = "result" THEN runs \cup {e} ELSE runs

\* The policy says no, and nothing else happens: 403.
Deny(e) ==
  /\ pc[e] = "idle"
  /\ Answer(e, Failure("denied"))
  /\ UNCHANGED <<clock, deadline, limit, cli, container, age>>

\* A time-out must be positive; the language may be another one, and the code
\* empty, too large or no text.  Nothing has been started yet.
Reject(e, t) ==
  /\ pc[e] = "idle"
  /\ Answer(e, Failure("rejected"))
  /\ UNCHANGED <<clock, deadline, limit, cli, container, age>>

effective_timeout(t) == Smaller(t, MaxTimeout)

\* The docker CLI is started; the runner waits for it at most the time-out.
Launch(e, t) ==
  /\ pc[e] = "idle" /\ t > 0
  /\ pc' = [pc EXCEPT ![e] = "running"]
  /\ limit' = [limit EXCEPT ![e] = effective_timeout(t)]
  /\ deadline' = [deadline EXCEPT ![e] = effective_timeout(t)]
  /\ cli' = [cli EXCEPT ![e] = "alive"]
  /\ UNCHANGED <<clock, container, age, reply, runs>>

\* There is no docker executable: FileNotFoundError becomes a backend error.
NoDocker(e, t) ==
  /\ pc[e] = "idle" /\ t > 0
  /\ Answer(e, Failure("unavailable"))
  /\ UNCHANGED <<clock, deadline, limit, cli, container, age>>
-----------------------------------------------------------------------------
(* Docker and the container *)

Create(e) ==
  /\ cli[e] = "alive" /\ container[e] = "none"
  /\ container' = [container EXCEPT ![e] = "created"]
  /\ UNCHANGED <<pc, clock, deadline, limit, cli, age, reply, runs>>

Start(e) ==
  /\ cli[e] = "alive" /\ container[e] = "created"
  /\ container' = [container EXCEPT ![e] = "running"]
  /\ UNCHANGED <<pc, clock, deadline, limit, cli, age, reply, runs>>

\* SOVEREIGN_TIMEOUT is the time-out in whole seconds, and at least one.
EntryLimit(e) ==
  IF limit[e] < Second THEN Second ELSE (limit[e] \div Second) * Second

\* The program exits by itself (with 137, say, if it wants to), or the
\* entrypoint is killed by the kernel for its memory.  --rm removes the rest.
ProgramEnds(e) ==
  /\ container[e] = "running"
  /\ \E how \in {"exit0", "exit1", "exit137", "crashed"} :
       container' = [container EXCEPT ![e] = how]
  /\ UNCHANGED <<pc, clock, deadline, limit, cli, age, reply, runs>>

\* Variant: a program runs into its limit only while the CLI is attached.
OverrunAttached(e) ==
  /\ container[e] = "running" /\ age[e] >= EntryLimit(e) /\ cli[e] = "alive"
  /\ container' = [container EXCEPT ![e] = "overran"]
  /\ UNCHANGED <<pc, clock, deadline, limit, cli, age, reply, runs>>

\* The entrypoint kills the program and its children, collects what they wrote
\* for at most Grace, and exits with 124.
Overrun(e) ==
  /\ container[e] = "running" /\ age[e] >= EntryLimit(e)
  /\ container' = [container EXCEPT ![e] = "overran"]
  /\ UNCHANGED <<pc, clock, deadline, limit, cli, age, reply, runs>>
-----------------------------------------------------------------------------
(* The sandbox waits *)

ExitCode(how) ==
  CASE how = "exit0" -> 0
    [] how = "exit1" -> 1
    [] how = "overran" -> 124
    [] OTHER -> 137

\* Variant: the result line of the entrypoint is not looked at.
LateByCode(how) == ExitCode(how) \in {137, 143}

\* What the line of the entrypoint says; without a line, nothing.
LineSaysLate(how) == how = "overran"

\* Late according to that line, or to an exit code that a kill has.
Late(how) == LineSaysLate(how) \/ ExitCode(how) \in {137, 143}

\* The CLI returned in time, with the exit code of the container.
Finish(e) ==
  /\ pc[e] = "running" /\ container[e] \in Ended \ {"removed"}
  /\ cli' = [cli EXCEPT ![e] = "ended"]
  /\ Answer(e, Result(ExitCode(container[e]), Late(container[e])))
  /\ UNCHANGED <<clock, deadline, limit, container, age>>

\* The daemon refuses, for want of the image say: docker exits with 125.
DaemonRefuses(e) ==
  /\ pc[e] = "running" /\ container[e] = "none"
  /\ cli' = [cli EXCEPT ![e] = "ended"]
  /\ Answer(e, Result(125, FALSE))
  /\ UNCHANGED <<clock, deadline, limit, container, age>>

\* The CLI dies, or loses the daemon, while the container goes on.
CliLost(e) ==
  /\ pc[e] = "running" /\ container[e] \in Alive
  /\ cli' = [cli EXCEPT ![e] = "lost"]
  /\ Answer(e, Result(1, FALSE))
  /\ UNCHANGED <<clock, deadline, limit, container, age>>

\* The runner's wait_for times out: it kills the CLI and waits for its end.
\* The container does not notice.
RunnerTimeout(e) ==
  /\ pc[e] = "running" /\ clock[e] >= deadline[e]
  /\ pc' = [pc EXCEPT ![e] = "killing"]
  /\ deadline' = [deadline EXCEPT ![e] = limit[e] + Overhead]
  /\ cli' = [cli EXCEPT ![e] = "killed"]
  /\ UNCHANGED <<clock, limit, container, age, reply, runs>>

\* Variant: killing the CLI is taken for killing the container.
KilledIsEnough(e) ==
  /\ pc[e] = "killing"
  /\ Answer(e, Result(-1, TRUE))
  /\ UNCHANGED <<clock, deadline, limit, cli, container, age>>

\* Variant: the removal may take as long as it likes.
KilledUnhurried(e) ==
  /\ pc[e] = "killing"
  /\ pc' = [pc EXCEPT ![e] = "cleaning"]
  /\ deadline' = [deadline EXCEPT ![e] = limit[e] + Overhead + 2 * CleanupTimeout]
  /\ UNCHANGED <<clock, limit, cli, container, age, reply, runs>>

\* The CLI is gone, or either wait for it timed out: TimeoutError reaches
\* execute(), which asks for the container's removal.
Killed(e) ==
  /\ pc[e] = "killing"
  /\ pc' = [pc EXCEPT ![e] = "cleaning"]
  /\ deadline' = [deadline EXCEPT ![e] = clock[e] + CleanupTimeout]
  /\ UNCHANGED <<clock, limit, cli, container, age, reply, runs>>

\* docker rm -f: the container, if there is one, is gone.
Remove(e) ==
  /\ pc[e] = "cleaning"
  /\ container' = [container EXCEPT ![e] = IF @ \in Alive THEN "removed" ELSE @]
  /\ Answer(e, Result(-1, TRUE))
  /\ UNCHANGED <<clock, deadline, limit, cli, age>>

\* rm fails, raises or does not answer in time: logged, and answered the same.
GiveUp(e) ==
  /\ pc[e] = "cleaning"
  /\ cli' = [cli EXCEPT ![e] = "left"]
  /\ Answer(e, Result(-1, TRUE))
  /\ UNCHANGED <<clock, deadline, limit, container, age>>

\* CancelledError at any of the awaits: no handler is for it, so neither the
\* CLI nor the container is touched; a removal under way may still succeed.
Interrupt(e) ==
  /\ pc[e] \in Awaits
  /\ \/ container' = container
     \/ pc[e] = "cleaning" /\ container[e] \in Alive
        /\ container' = [container EXCEPT ![e] = "removed"]
  /\ Answer(e, Failure("cancelled"))
  /\ UNCHANGED <<clock, deadline, limit, cli, age>>

\* A timer of e that must fire before time goes on.
Due(e) ==
  \/ pc[e] \in Awaits /\ clock[e] >= deadline[e]
  \/ container[e] = "running" /\ age[e] >= EntryLimit(e) + Grace

Tick ==
  /\ \A e \in Executions : ~Due(e)
  /\ clock' = [e \in Executions |-> IF pc[e] \in Awaits THEN clock[e] + 1 ELSE clock[e]]
  /\ age' = [e \in Executions |-> IF container[e] = "running" THEN age[e] + 1 ELSE age[e]]
  /\ UNCHANGED <<pc, deadline, limit, cli, container, reply, runs>>
-----------------------------------------------------------------------------
\* The status a run is listed with.
ListedAs(r) == IF r.timed_out THEN "timed_out" ELSE IF r.success THEN "succeeded" ELSE "failed"

Docker(e)  == Create(e) \/ Start(e) \/ ProgramEnds(e) \/ Overrun(e)
Waiting(e) == \/ Finish(e) \/ DaemonRefuses(e) \/ CliLost(e)
              \/ RunnerTimeout(e) \/ Killed(e) \/ Remove(e) \/ GiveUp(e)
Request(e) == Deny(e) \/ \E t \in Requested : Reject(e, t) \/ Launch(e, t) \/ NoDocker(e, t)

Next == Tick \/ \E e \in Executions : Request(e) \/ Docker(e) \/ Waiting(e) \/ Interrupt(e)

\* Time passes, timers that are due fire, and the entrypoint keeps its limit.
\* Docker, clients and programs owe nothing.
Fairness ==
  /\ WF_vars(Tick)
  /\ \A e \in Executions : WF_vars(Waiting(e)) /\ WF_vars(Overrun(e))

Spec == Init /\ [][Next]_vars /\ Fairness
-----------------------------------------------------------------------------
(* Properties *)

TypeOK ==
  /\ pc \in [Executions -> {"idle", "over"} \cup Awaits]
  /\ clock \in [Executions -> Nat] /\ deadline \in [Executions -> Nat]
  /\ limit \in [Executions -> 1..MaxTimeout]
  /\ cli \in [Executions -> {"none", "alive", "ended", "lost", "killed", "left"}]
  /\ container \in [Executions -> {"none"} \cup Alive \cup Ended]
  /\ age \in [Executions -> Nat]
  /\ reply \in [Executions -> Replies]
  /\ runs \subseteq Executions

\* A limit stopped the run before there was a result: the entrypoint's, while
\* the CLI was there to hear of it, or the runner's, which killed the CLI.
StoppedByLimit(e) ==
  \/ container[e] = "overran" /\ cli[e] = "ended"
  \/ cli[e] \in {"killed", "left"}

\* The program exited with 137 by itself, or the kernel killed the entrypoint.
SelfKilled(e) == container[e] \in {"exit137", "crashed"} /\ cli[e] = "ended"

\* Each of the three ways a run is listed stands for exactly what happened to it,
\* whatever raced with what: success for a program that exited with 0 before any
\* limit stopped it; a time-out for a run that a limit stopped, or, which is not
\* what it says (see TimedOutIsLate), for one that was killed within its limits;
\* failure for all others.  And every result is there to be listed.
ResultIsHonest ==
  \A e \in Executions : reply[e].kind = "result" =>
    /\ ListedAs(reply[e]) = "succeeded" <=> container[e] = "exit0" /\ cli[e] = "ended"
    /\ ListedAs(reply[e]) = "timed_out" <=> StoppedByLimit(e) \/ SelfKilled(e)
    /\ e \in runs

\* "True if the execution exceeded the configured timeout." (timed_out, in
\* sandbox/types.py)
TimedOutIsLate ==
  \A e \in Executions : reply[e].timed_out => StoppedByLimit(e)

\* A container outlives its execution only if that was cancelled, if the forced
\* removal failed, or if docker lost its own CLI: never behind an answer that
\* was received from the container, and never after a time-out that was
\* cleaned up.
NoSilentSurvivor ==
  \A e \in Executions : pc[e] = "over" /\ container[e] \in Alive =>
    reply[e].kind = "cancelled" \/ cli[e] \in {"lost", "left"}

\* Whatever Docker does, a client waits no longer than its time-out, the
\* overhead and the clean-up's own limit together.
PromptAnswer ==
  \A e \in Executions : pc[e] \in Awaits =>
    clock[e] <= limit[e] + Overhead + CleanupTimeout

\* A program that nobody waits for any more does not run forever: the
\* entrypoint's own limit ends also what a cancellation left behind.
NothingRunsForever ==
  \A e \in Executions : container[e] = "running" ~> container[e] \in Ended
=============================================================================
