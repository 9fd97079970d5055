------------------------------ MODULE AgentRun ------------------------------
(***************************************************************************)
(* One call of Agent.run: the agent plans, selects a model and then either *)
(* answers directly or works through its plan, one tool call per turn of   *)
(* the main loop, verifies, plans anew when the verifier is not satisfied, *)
(* and finally writes an answer from what the tools returned.              *)
(*                                                                         *)
(* The planner, the verifier, the tools and the model are interfaces: each *)
(* may return whatever its callers must be prepared for.  The agent is one *)
(* coroutine; the steps below are what it does from one await to the next, *)
(* with the top of the main loop as a step of its own.                     *)
(***************************************************************************)
EXTENDS Integers, Sequences, SequencesExt

CONSTANTS
  Tools,       \* tool names a plan may mention
  Args,        \* arguments of a call, compared as a whole
  NoTool,      \* the name of a plan step without a tool: ""
  Plans,       \* what the planner may return: sequences of steps
  Registered,  \* the tools the executor knows
  Denied,      \* the tools the policy engine denies
  Reserved,    \* the tools the policy engine wants approved first
  AnyVerifier, \* TRUE: any Verifier; FALSE: the SimpleVerifier of get_verifier
  MaxIter,     \* max_iterations
  MaxCalls,    \* max_tool_calls
  MaxRep       \* max_repetitive_tool_calls

Step == [tool : Tools, args : Args]

ASSUME AgentAssumption ==
  /\ Plans \subseteq Seq(Step)
  /\ Registered \subseteq Tools /\ Denied \subseteq Tools /\ Reserved \subseteq Tools
  /\ AnyVerifier \in BOOLEAN
  /\ MaxIter \in Nat \ {0} /\ MaxCalls \in Nat \ {0} /\ MaxRep \in Nat \ {0}

VARIABLES
  pc,           \* what the coroutine awaits; "loop" is the top of the main loop
  late,         \* time.monotonic() > deadline
  plan,         \* state.plan.steps
  step,         \* state.current_step, from 0
  iteration,    \* state.iteration
  calls,        \* state.tool_calls
  observations, \* state.observations
  answer,       \* the assistant's message: none, a blank one, or one with content
  verdict,      \* state.verification_result
  result        \* how Agent.run ended: its status, and its error

vars == <<pc, late, plan, step, iteration, calls, observations, answer, verdict, result>>

Awaiting == {"planning", "generating", "checking", "executing", "verifying",
             "replanning", "synthesising"}
Error    == {"PlanningFailure", "RoutingFailure", "IterationLimitExceeded", "AgentTimeout",
             "MaxToolCallsExceeded", "RepetitiveToolCall", "ToolExecution",
             "VerificationFailure"}
Ending   == {"complete", "failed", "timeout", "raised", "interrupted"}
ToolCall == [id : Nat, tool : Tools, args : Args]
\* How an observation's content begins says what became of the call.
Ran         == {"output", "tool error"}
Refused     == {"policy denied", "approval required"}
Observation == [id : Nat, content : Ran \cup Refused]

TypeOK ==
  /\ pc \in Awaiting \cup {"loop", "done"}
  /\ late \in BOOLEAN
  /\ plan \in Plans \cup {<<>>}
  /\ step \in Nat
  /\ iteration \in 0..(MaxIter + 1)
  /\ calls \in Seq(ToolCall)
  /\ observations \in Seq(Observation)
  /\ answer \in {"none", "blank", "text"}
  /\ verdict \in {"none", "passed", "failed"}
  /\ result \in [status : Ending \cup {"running"}, error : Error \cup {"none"}]

Init ==
  /\ pc = "planning"
  /\ late = FALSE
  /\ plan = <<>>
  /\ step = 0
  /\ iteration = 0
  /\ calls = <<>>
  /\ observations = <<>>
  /\ answer = "none"
  /\ verdict = "none"
  /\ result = [status |-> "running", error |-> "none"]

-----------------------------------------------------------------------------
(* How a run ends.                                                          *)

Goto(p) == pc' = p /\ UNCHANGED result

Return(status, error) ==
  pc' = "done" /\ result' = [status |-> status, error |-> error]

\* An AgentExecutionError, which Agent.run turns into a failed result.
Raise(error) ==
  Return(IF error = "AgentTimeout" THEN "timeout" ELSE "failed", error)

\* Any other exception leaves Agent.run; run_agent_task stores a failed task.
Crash == Return("raised", "none")

\* _execute returned: whether it marked the state COMPLETE, or FAILED for want
\* of an answer, Agent.run marks it COMPLETE.
Finish == Return("complete", "none")

\* Variant: run_agent_task trusts the status of the result.
CompletedByStatus == result.status = "complete" /\ result.error = "none"

\* What run_agent_task requires to store the task as completed, not failed.
Completed ==
  /\ result.status = "complete" /\ result.error = "none"
  /\ answer = "text"

-----------------------------------------------------------------------------
(* Planning, model selection and the direct answer.                         *)

PlanReady ==
  /\ pc = "planning"
  /\ plan' \in Plans
  /\ Goto(IF plan' = <<>> THEN "generating" ELSE "loop")
  /\ UNCHANGED <<late, step, iteration, calls, observations, answer, verdict>>

PlanFails ==
  /\ pc = "planning"
  /\ Raise("PlanningFailure")
  /\ UNCHANGED <<late, plan, step, iteration, calls, observations, answer, verdict>>

RouteFails ==
  /\ pc = "planning"
  /\ plan' \in Plans
  /\ Raise("RoutingFailure")
  /\ UNCHANGED <<late, step, iteration, calls, observations, answer, verdict>>

\* The stream, its fallback and the recovery of an answer from the thinking
\* leave some content or none.
Generate ==
  /\ pc = "generating"
  /\ answer' \in {"blank", "text"}
  /\ Goto("checking")
  /\ UNCHANGED <<late, plan, step, iteration, calls, observations, verdict>>

\* The stream broke before the first token, and so did the fallback.
GenerateFails ==
  /\ pc = "generating"
  /\ Crash
  /\ UNCHANGED <<late, plan, step, iteration, calls, observations, answer, verdict>>

\* SimpleVerifier: an answer with content, or some turn of the main loop.
Accepts == answer = "text" \/ (answer = "none" /\ iteration > 0)

\* _verify: a verifier that raises counts as one that rejects.
Verify == verdict' \in IF AnyVerifier THEN {"passed", "failed"}
                       ELSE {IF Accepts THEN "passed" ELSE "failed"}

CheckAnswer ==
  /\ pc = "checking"
  /\ Verify
  /\ Finish
  /\ UNCHANGED <<late, plan, step, iteration, calls, observations, answer>>

-----------------------------------------------------------------------------
(* The main loop.                                                           *)

DeadlineMissed ==
  /\ pc = "loop" /\ late
  /\ Raise("AgentTimeout")
  /\ UNCHANGED <<late, plan, step, iteration, calls, observations, answer, verdict>>

\* Variants: only a rejection by the verifier looks at the limit; a turn that
\* only verifies is not counted.
TurnUnlimited ==
  /\ pc = "loop" /\ ~late
  /\ iteration' = iteration + 1

TurnUncounted ==
  /\ pc = "loop" /\ ~late
  /\ iteration' = IF step < Len(plan) THEN iteration + 1 ELSE iteration
  /\ iteration' <= MaxIter

\* Past the deadline and the iteration check.
Turn ==
  /\ pc = "loop" /\ ~late
  /\ iteration' = iteration + 1
  /\ iteration' <= MaxIter

OutOfIterations ==
  /\ pc = "loop" /\ ~late
  /\ iteration' = iteration + 1
  /\ iteration' > MaxIter
  /\ Raise("IterationLimitExceeded")
  /\ UNCHANGED <<late, plan, step, calls, observations, answer, verdict>>

AllStepsDone ==
  /\ Turn
  /\ step >= Len(plan)
  /\ Goto("verifying")
  /\ UNCHANGED <<late, plan, step, calls, observations, answer, verdict>>

\* Variant: the identifier counts the steps of the plan instead of the calls.
NextCallByStep == [id |-> step, tool |-> plan[step + 1].tool, args |-> plan[step + 1].args]

NextCall == [id |-> Len(calls), tool |-> plan[step + 1].tool, args |-> plan[step + 1].args]

\* Variant: the test for the limit is "more than", as its error message says.
OverBudgetBeyond(history) == Len(history) > MaxCalls

OverBudget(history) == Len(history) >= MaxCalls

\* Variant: the call itself is not yet counted.
RepetitiveBefore(history) ==
  LET n == Len(history) IN
  /\ history[n].tool # NoTool
  /\ n > MaxRep
  /\ \A i \in (n - MaxRep)..n :
       history[i].tool = history[n].tool /\ history[i].args = history[n].args

\* _check_repetitive: the latest MaxRep calls are one and the same.
Repetitive(history) ==
  LET n == Len(history) IN
  /\ history[n].tool # NoTool
  /\ n >= MaxRep
  /\ \A i \in (n - MaxRep + 1)..n :
       history[i].tool = history[n].tool /\ history[i].args = history[n].args

\* The next step of the plan becomes a tool call, which is recorded at once.
Request ==
  /\ Turn
  /\ step < Len(plan)
  /\ calls' = Append(calls, NextCall)
  /\ UNCHANGED <<late, plan, answer, verdict>>

OutOfCalls ==
  /\ Request
  /\ OverBudget(calls')
  /\ Raise("MaxToolCallsExceeded")
  /\ UNCHANGED <<step, observations>>

Repeats ==
  /\ Request
  /\ ~OverBudget(calls') /\ Repetitive(calls')
  /\ Raise("RepetitiveToolCall")
  /\ UNCHANGED <<step, observations>>

Admissible == ~OverBudget(calls') /\ ~Repetitive(calls')

\* Append the observation of call "id" and move to the next step.
Observe(id, content) ==
  /\ observations' = Append(observations, [id |-> id, content |-> content])
  /\ step' = step + 1

\* _policy_blocked: the step is observed and passed over, nothing is executed.
Blocked ==
  /\ Request /\ Admissible
  /\ NextCall.tool \in Denied \cup Reserved
  /\ Observe(NextCall.id,
       IF NextCall.tool \in Denied THEN "policy denied" ELSE "approval required")
  /\ Goto("loop")

\* Variant: a tool that needs approval is treated as allowed.
DispatchReserved ==
  /\ Request /\ Admissible
  /\ NextCall.tool \notin Denied
  /\ Goto("executing")
  /\ UNCHANGED <<step, observations>>

Dispatch ==
  /\ Request /\ Admissible
  /\ NextCall.tool \notin Denied \cup Reserved
  /\ Goto("executing")
  /\ UNCHANGED <<step, observations>>

\* The tool's result, good or bad, is observed.
ToolReturns ==
  /\ pc = "executing"
  /\ calls[Len(calls)].tool \in Registered
  /\ \E content \in Ran : Observe(calls[Len(calls)].id, content)
  /\ Goto("loop")
  /\ UNCHANGED <<late, plan, iteration, calls, answer, verdict>>

\* An executor without the tool raises, or (CompositeToolExecutor) reports it.
ToolUnknown ==
  /\ pc = "executing"
  /\ calls[Len(calls)].tool \notin Registered
  /\ \/ Raise("ToolExecution") /\ UNCHANGED <<step, observations>>
     \/ Observe(calls[Len(calls)].id, "tool error") /\ Goto("loop")
  /\ UNCHANGED <<late, plan, iteration, calls, answer, verdict>>

\* The executor itself breaks.
ToolCrashes ==
  /\ pc = "executing"
  /\ Crash
  /\ UNCHANGED <<late, plan, step, iteration, calls, observations, answer, verdict>>

-----------------------------------------------------------------------------
(* Verification, planning anew, and the answer.                             *)

\* What was observed of a call, found by the call's identifier; the latest wins.
Observed(call) ==
  LET found == {i \in DOMAIN observations : observations[i].id = call.id} IN
  IF found = {} THEN "nothing"
  ELSE observations[CHOOSE i \in found : \A k \in found : k <= i].content

\* Variant: a tool is recovered when any of its calls succeeded.
UnrecoveredEver ==
  \E t \in Tools :
    /\ \E i \in DOMAIN calls : calls[i].tool = t /\ Observed(calls[i]) = "tool error"
    /\ \A i \in DOMAIN calls : calls[i].tool = t => Observed(calls[i]) # "output"

\* _has_unrecovered_tool_failure: the last_ok table, filled call by call.
Unrecovered ==
  LET Note(known, call) ==
        IF Observed(call) \in Ran
        THEN [known EXCEPT ![call.tool] = Observed(call) = "output"]
        ELSE known
      last_ok == FoldLeft(Note, [t \in Tools |-> TRUE], calls)
  IN  \E t \in Tools : ~last_ok[t]

\* The verifier is satisfied, and the synthesis of the answer begins.
Satisfied ==
  /\ pc = "verifying"
  /\ Verify /\ verdict' = "passed"
  /\ ~Unrecovered
  /\ IF observations # <<>> /\ answer = "none"
       THEN Goto("synthesising") ELSE Finish
  /\ UNCHANGED <<late, plan, step, iteration, calls, observations, answer>>

ToolFailureStands ==
  /\ pc = "verifying"
  /\ Verify /\ verdict' = "passed"
  /\ Unrecovered
  /\ Raise("ToolExecution")
  /\ UNCHANGED <<late, plan, step, iteration, calls, observations, answer>>

\* The verifier is not: plan anew, unless that would need a turn too many.
Rejected ==
  /\ pc = "verifying"
  /\ Verify /\ verdict' = "failed"
  /\ IF iteration + 1 > MaxIter
       THEN Raise("IterationLimitExceeded") ELSE Goto("replanning")
  /\ UNCHANGED <<late, plan, step, iteration, calls, observations, answer>>

\* Variant: the new plan is entered where the old one was left.
ReplanKeepingStep ==
  /\ pc = "replanning"
  /\ plan' \in Plans
  /\ Goto("loop")
  /\ UNCHANGED <<late, step, iteration, calls, observations, answer, verdict>>

Replan ==
  /\ pc = "replanning"
  /\ plan' \in Plans
  /\ step' = 0
  /\ Goto("loop")
  /\ UNCHANGED <<late, iteration, calls, observations, answer, verdict>>

ReplanFails ==
  /\ pc = "replanning"
  /\ Raise("VerificationFailure")
  /\ UNCHANGED <<late, plan, step, iteration, calls, observations, answer, verdict>>

\* _synthesize_final_response appends no message when the model returned
\* nothing, or when it failed, which is only logged.
Synthesise ==
  /\ pc = "synthesising"
  /\ answer' \in {"none", "blank", "text"}
  /\ Finish
  /\ UNCHANGED <<late, plan, step, iteration, calls, observations, verdict>>

-----------------------------------------------------------------------------
(* The environment.                                                         *)

\* The CancelledError of cancel_task, thrown into an await: no handler of the
\* agent catches it.
Interrupt ==
  /\ pc \in Awaiting
  /\ Return("interrupted", "none")
  /\ UNCHANGED <<late, plan, step, iteration, calls, observations, answer, verdict>>

DeadlinePasses ==
  /\ pc # "done" /\ ~late
  /\ late' = TRUE
  /\ UNCHANGED <<pc, plan, step, iteration, calls, observations, answer, verdict, result>>

AgentStep ==
  \/ PlanReady \/ PlanFails \/ RouteFails
  \/ Generate \/ GenerateFails \/ CheckAnswer
  \/ DeadlineMissed \/ OutOfIterations \/ AllStepsDone
  \/ OutOfCalls \/ Repeats \/ Blocked \/ Dispatch
  \/ ToolReturns \/ ToolUnknown \/ ToolCrashes
  \/ Satisfied \/ ToolFailureStands \/ Rejected
  \/ Replan \/ ReplanFails \/ Synthesise

Next == AgentStep \/ Interrupt \/ DeadlinePasses

\* generate() sends its request without a time limit, so the model owes no
\* answer.  Everything else comes back: the planner, the policy engine and the
\* verifier do not suspend, and the tools of the workbench return within theirs.
AwaitingModel == {"generating", "synthesising"}
Fairness == WF_vars(AgentStep /\ pc \notin AwaitingModel)

Spec     == Init /\ [][Next]_vars
FairSpec == Spec /\ Fairness

-----------------------------------------------------------------------------
(* Properties.                                                              *)

\* The call that was requested last, while nothing is observed of it.
Pending == Len(calls) - Len(observations)

\* Every tool call has its own identifier and exactly one observation bears it,
\* in the order of the calls; only the call being executed, or the one at which
\* the run was given up, has none.  Unrecovered joins the two lists by that key.
EachCallObserved ==
  /\ \A i \in DOMAIN calls : calls[i].id = i - 1
  /\ \A i \in DOMAIN observations : observations[i].id = i - 1
  /\ Pending \in {0, 1}
  /\ pc = "executing" => Pending = 1
  /\ pc \notin {"executing", "done"} => Pending = 0
  /\ result.status = "complete" => Pending = 0

\* The plan is worked through in order: no step is left out, repeated or taken
\* from an earlier plan, however calls are refused and plans replaced.
StepsInOrder ==
  LET k == step + Pending
      n == Len(calls)
  IN  /\ k <= n /\ k <= Len(plan)
      /\ \A i \in 1..k : /\ calls[n - k + i].tool = plan[i].tool
                         /\ calls[n - k + i].args = plan[i].args

\* No tool the policy engine denies, or wants approved, is ever executed.
PolicyGate ==
  /\ pc = "executing" => calls[Len(calls)].tool \notin Denied \cup Reserved
  /\ \A i \in DOMAIN observations :
       observations[i].content \in Ran => calls[i].tool \notin Denied \cup Reserved

\* A run requests no more than max_tool_calls calls and executes fewer, however
\* often it plans anew; and it never makes two calls in one turn.
CallBudget ==
  /\ Len(calls) <= MaxCalls
  /\ Len(observations) < MaxCalls
  /\ Len(calls) <= iteration

\* max_repetitive_tool_calls identical calls in a row end the run: the last of
\* them is not executed, across refusals and new plans.
NoSpinning ==
  \A n \in DOMAIN calls :
    /\ calls[n].tool # NoTool
    /\ n >= MaxRep
    /\ \A i \in (n - MaxRep + 1)..n :
         calls[i].tool = calls[n].tool /\ calls[i].args = calls[n].args
    => n = Len(calls) /\ Pending = 1 /\ pc = "done"

\* A task is stored as completed only with an answer, with every step of the
\* last plan dealt with, and with the verifier's consent: a direct answer is
\* sure of that from SimpleVerifier only.
CompletedIsEarned ==
  Completed =>
    /\ answer = "text"
    /\ step = Len(plan) /\ Pending = 0
    /\ ~AnyVerifier \/ plan # <<>> \/ iteration > 0 => verdict = "passed"

\* "A failure is considered recovered when a later attempt on the same tool
\* succeeded": no task is stored as completed with a failure that was not.
FailureSurfaces ==
  Completed =>
    \A i \in DOMAIN calls : observations[i].content = "tool error" =>
      \E k \in DOMAIN calls :
        k > i /\ calls[k].tool = calls[i].tool /\ observations[k].content = "output"

\* Every run ends, whatever the planner, the tools and the verifier do, unless
\* the model leaves it waiting for ever: the run itself never loops or stalls.
\* This is what frees the execution lock of TaskStore.
Terminates == <>(pc = "done") \/ <>[](pc \in AwaitingModel)

-----------------------------------------------------------------------------
(* Why they hold: the inductive invariant.                                  *)

\* What is known at each await.
StageOK ==
  /\ pc # "done" => /\ result = [status |-> "running", error |-> "none"]
                    /\ iteration <= MaxIter
                    /\ Len(calls) < MaxCalls
  /\ pc \in {"planning", "generating", "checking"} =>
       plan = <<>> /\ step = 0 /\ iteration = 0 /\ calls = <<>> /\ observations = <<>>
  /\ pc \in {"planning", "loop", "executing", "verifying", "replanning", "synthesising"} =>
       answer = "none"
  /\ pc = "executing" => step < Len(plan)
  /\ pc \in {"verifying", "replanning", "synthesising"} => step = Len(plan) /\ iteration > 0
  /\ pc = "synthesising" => verdict = "passed"

\* The inductive invariant: no await, refusal or new plan lets the lists of
\* calls and observations, the plan and the limits drift apart.
AgentInv ==
  /\ TypeOK
  /\ StageOK
  /\ EachCallObserved
  /\ StepsInOrder
  /\ PolicyGate
  /\ CallBudget
  /\ NoSpinning
  /\ CompletedIsEarned
=============================================================================
