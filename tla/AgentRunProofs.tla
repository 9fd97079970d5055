--------------------------- MODULE AgentRunProofs ---------------------------
(***************************************************************************)
(* The inductive invariant of AgentRun and the safety properties it        *)
(* implies, for every planner, verifier, policy and limit.                 *)
(***************************************************************************)
EXTENDS AgentRun, Induction, TLAPS

LEMMA InitInv == Init => AgentInv
<1> SUFFICES ASSUME Init PROVE AgentInv
  OBVIOUS
<1>1. TypeOK
  <2>1. <<>> \in Seq(ToolCall) /\ <<>> \in Seq(Observation)
    OBVIOUS
  <2>2. 0 \in 0..(MaxIter + 1)
    BY AgentAssumption
  <2> QED BY <2>1, <2>2 DEF Init, TypeOK, Awaiting
<1>2. StageOK
  BY AgentAssumption DEF Init, StageOK
<1>3. EachCallObserved /\ PolicyGate /\ NoSpinning
  BY DEF Init, EachCallObserved, Pending, PolicyGate, NoSpinning
<1>4. StepsInOrder
  BY DEF Init, StepsInOrder, Pending
<1>5. CallBudget /\ CompletedIsEarned
  BY AgentAssumption DEF Init, CallBudget, CompletedIsEarned, Completed
<1> QED BY <1>1, <1>2, <1>3, <1>4, <1>5 DEF AgentInv

\* A plan is a sequence of steps.
LEMMA PlanFacts ==
  ASSUME TypeOK
  PROVE  /\ plan \in Seq(Step) /\ Len(plan) \in Nat
         /\ Len(calls) \in Nat /\ Len(observations) \in Nat
         /\ step \in Nat /\ iteration \in Nat
         /\ DOMAIN calls = 1..Len(calls) /\ DOMAIN observations = 1..Len(observations)
<1>1. plan \in Seq(Step)
  <2>1. plan \in Plans \/ plan = <<>>
    BY DEF TypeOK
  <2>2. <<>> \in Seq(Step)
    OBVIOUS
  <2>3. CASE plan \in Plans
    BY <2>3, AgentAssumption
  <2> QED BY <2>1, <2>2, <2>3
<1>2. calls \in Seq(ToolCall) /\ observations \in Seq(Observation)
  BY DEF TypeOK
<1>3. step \in Nat /\ iteration \in Nat
  BY AgentAssumption DEF TypeOK
<1> QED BY <1>1, <1>2, <1>3

\* Of a run that goes on, everything about the lists survives a step that
\* leaves them alone.
LEMMA QuietStep ==
  ASSUME AgentInv, pc # "done",
         UNCHANGED <<step, calls, observations>>,
         \/ plan' = plan
         \/ step = 0 /\ calls = <<>> /\ observations = <<>> /\ plan' \in Plans,
         iteration' \in {iteration, iteration + 1},
         pc' # "executing",
         pc = "executing" => pc' = "done" /\ result'.status # "complete"
  PROVE  /\ EachCallObserved' /\ StepsInOrder' /\ PolicyGate'
         /\ CallBudget' /\ NoSpinning'
<1>1. TypeOK /\ EachCallObserved /\ StepsInOrder /\ PolicyGate /\ CallBudget /\ NoSpinning
  BY DEF AgentInv
<1>2. EachCallObserved'
  BY <1>1, PlanFacts DEF EachCallObserved, Pending
<1>3. StepsInOrder'
  <2>1. CASE plan' = plan
    BY <1>1, <2>1 DEF StepsInOrder, Pending
  <2>2. CASE step = 0 /\ calls = <<>> /\ observations = <<>> /\ plan' \in Plans
    <3>1. plan' \in Seq(Step) /\ Len(plan') \in Nat
      BY <2>2, AgentAssumption
    <3> QED BY <2>2, <3>1 DEF StepsInOrder, Pending
  <2> QED BY <2>1, <2>2
<1>4. PolicyGate'
  BY <1>1 DEF PolicyGate
<1>5. CallBudget'
  BY <1>1, PlanFacts DEF CallBudget
<1>6. NoSpinning'
  BY <1>1 DEF NoSpinning
<1> QED BY <1>2, <1>3, <1>4, <1>5, <1>6

LEMMA QuietInv ==
  ASSUME AgentInv, pc # "done",
         UNCHANGED <<step, calls, observations>>,
         \/ plan' = plan
         \/ step = 0 /\ calls = <<>> /\ observations = <<>> /\ plan' \in Plans,
         iteration' \in {iteration, iteration + 1},
         pc' # "executing",
         pc = "executing" => pc' = "done" /\ result'.status # "complete",
         TypeOK', StageOK', CompletedIsEarned'
  PROVE  AgentInv'
BY QuietStep DEF AgentInv

-----------------------------------------------------------------------------
(* Planning, model selection and the direct answer.                         *)

LEMMA PlanningInv ==
  ASSUME AgentInv, PlanReady \/ PlanFails \/ RouteFails
  PROVE  AgentInv'
<1>1. TypeOK /\ StageOK /\ pc = "planning"
  BY DEF AgentInv, PlanReady, PlanFails, RouteFails
<1>2. /\ plan = <<>> /\ step = 0 /\ iteration = 0 /\ calls = <<>> /\ observations = <<>>
      /\ answer = "none" /\ result = [status |-> "running", error |-> "none"]
      /\ Len(calls) < MaxCalls
  BY <1>1 DEF StageOK
<1>3. /\ UNCHANGED <<late, step, iteration, calls, observations, answer, verdict>>
      /\ plan' = plan \/ plan' \in Plans
      /\ \/ pc' = "generating" /\ plan' = <<>> /\ result' = result
         \/ pc' = "loop" /\ result' = result
         \/ pc' = "done" /\ \E e \in Error : result' = [status |-> "failed", error |-> e]
  BY DEF PlanReady, PlanFails, RouteFails, Goto, Raise, Return, Error
<1>4. TypeOK'
  BY <1>1, <1>3 DEF TypeOK, Awaiting, Ending
<1>5. StageOK'
  BY <1>2, <1>3, AgentAssumption DEF StageOK
<1>6. CompletedIsEarned'
  BY <1>2, <1>3 DEF CompletedIsEarned, Completed
<1> QED BY <1>1, <1>2, <1>3, <1>4, <1>5, <1>6, QuietInv

LEMMA DirectInv ==
  ASSUME AgentInv, Generate \/ GenerateFails \/ CheckAnswer
  PROVE  AgentInv'
<1>1. TypeOK /\ StageOK /\ pc \in {"generating", "checking"}
  BY DEF AgentInv, Generate, GenerateFails, CheckAnswer
<1>2. /\ plan = <<>> /\ step = 0 /\ iteration = 0 /\ calls = <<>> /\ observations = <<>>
      /\ result = [status |-> "running", error |-> "none"]
      /\ Len(calls) < MaxCalls
  BY <1>1 DEF StageOK
<1>3. UNCHANGED <<late, plan, step, iteration, calls, observations>>
  BY DEF Generate, GenerateFails, CheckAnswer
<1>4. \/ /\ pc' = "checking" /\ result' = result /\ verdict' = verdict
         /\ answer' \in {"blank", "text"}
      \/ /\ pc' = "done" /\ result' = [status |-> "raised", error |-> "none"]
         /\ answer' = answer /\ verdict' = verdict
      \/ /\ pc' = "done" /\ result' = [status |-> "complete", error |-> "none"]
         /\ answer' = answer /\ verdict' \in {"passed", "failed"}
         /\ ~AnyVerifier /\ answer = "text" => verdict' = "passed"
  BY DEF Generate, GenerateFails, CheckAnswer, Goto, Crash, Finish, Return, Verify, Accepts
<1>5. TypeOK'
  BY <1>1, <1>3, <1>4 DEF TypeOK, Awaiting, Ending
<1>6. StageOK'
  BY <1>2, <1>3, <1>4, AgentAssumption DEF StageOK
<1>7. CompletedIsEarned'
  BY <1>2, <1>3, <1>4 DEF CompletedIsEarned, Completed, Pending
<1> QED BY <1>1, <1>3, <1>4, <1>5, <1>6, <1>7, QuietInv

-----------------------------------------------------------------------------
(* The main loop.                                                           *)

\* A turn that requests no call, or an exception out of the executor.
LEMMA LoopEndInv ==
  ASSUME AgentInv, DeadlineMissed \/ OutOfIterations \/ AllStepsDone \/ ToolCrashes
  PROVE  AgentInv'
<1>1. TypeOK /\ StageOK /\ StepsInOrder /\ EachCallObserved /\ pc \in {"loop", "executing"}
  BY DEF AgentInv, DeadlineMissed, OutOfIterations, AllStepsDone, ToolCrashes, Turn
<1>2. /\ UNCHANGED <<late, plan, step, calls, observations, answer, verdict>>
      /\ \/ /\ pc' = "done" /\ iteration' \in {iteration, iteration + 1}
            /\ result' \in [status : {"failed", "timeout", "raised"}, error : Error \cup {"none"}]
         \/ /\ pc = "loop" /\ pc' = "verifying" /\ result' = result /\ step >= Len(plan)
            /\ iteration' = iteration + 1 /\ iteration' <= MaxIter
  BY DEF DeadlineMissed, OutOfIterations, AllStepsDone, ToolCrashes, Turn, Goto, Raise,
         Crash, Return, Error
<1>3. /\ result = [status |-> "running", error |-> "none"] /\ answer = "none"
      /\ iteration <= MaxIter /\ Len(calls) < MaxCalls
  BY <1>1 DEF StageOK
<1>4. TypeOK'
  <2>1. iteration' \in 0..(MaxIter + 1)
    BY <1>1, <1>2, <1>3, AgentAssumption DEF TypeOK
  <2> QED BY <1>1, <1>2, <2>1 DEF TypeOK, Awaiting, Ending
<1>5. StageOK'
  <2>1. pc' = "verifying" => step = Len(plan)
    <3>1. pc' = "verifying" => Pending = 0 /\ step >= Len(plan)
      BY <1>1, <1>2 DEF EachCallObserved
    <3>2. step + Pending <= Len(plan)
      BY <1>1 DEF StepsInOrder
    <3> QED BY <1>1, <3>1, <3>2, PlanFacts
  <2> QED BY <1>2, <1>3, <2>1, PlanFacts, <1>1 DEF StageOK
<1>6. CompletedIsEarned'
  BY <1>2, <1>3 DEF CompletedIsEarned, Completed
<1> QED BY <1>1, <1>2, <1>4, <1>5, <1>6, QuietInv

\* The next call of the plan, as it is recorded.
LEMMA RequestFacts ==
  ASSUME AgentInv, Request
  PROVE  /\ NextCall \in ToolCall /\ NextCall.id = Len(calls)
         /\ NextCall.tool = plan[step + 1].tool /\ NextCall.args = plan[step + 1].args
         /\ calls' \in Seq(ToolCall) /\ Len(calls') = Len(calls) + 1
         /\ DOMAIN calls' = 1..(Len(calls) + 1)
         /\ \A i \in 1..Len(calls) : calls'[i] = calls[i]
         /\ calls'[Len(calls) + 1] = NextCall
         /\ Len(observations) = Len(calls)
         /\ step < Len(plan) /\ iteration' = iteration + 1 /\ iteration' <= MaxIter
<1>1. TypeOK /\ EachCallObserved /\ pc = "loop" /\ step < Len(plan)
  BY DEF AgentInv, Request, Turn
<1>2. plan[step + 1] \in Step
  BY <1>1, PlanFacts
<1>3. NextCall \in ToolCall
  BY <1>1, <1>2, PlanFacts DEF NextCall, ToolCall, Step
<1>4. /\ calls' = Append(calls, NextCall) /\ calls \in Seq(ToolCall)
      /\ iteration' = iteration + 1 /\ iteration' <= MaxIter
  BY <1>1 DEF Request, Turn, TypeOK
<1>5. /\ calls' \in Seq(ToolCall) /\ Len(calls') = Len(calls) + 1
      /\ DOMAIN calls' = 1..(Len(calls) + 1)
      /\ \A i \in 1..Len(calls) : calls'[i] = calls[i]
      /\ calls'[Len(calls) + 1] = NextCall
  BY <1>3, <1>4
<1>6. Len(observations) = Len(calls)
  <2>1. Pending = 0
    BY <1>1 DEF EachCallObserved
  <2>2. Len(calls) \in Nat /\ Len(observations) \in Nat
    BY <1>1, PlanFacts
  <2> QED BY <2>1, <2>2 DEF Pending
<1> QED BY <1>1, <1>3, <1>4, <1>5, <1>6 DEF NextCall

\* The latest MaxRep calls of the first n are one and the same.
Spins(history, n) ==
  /\ history[n].tool # NoTool
  /\ n >= MaxRep
  /\ \A i \in (n - MaxRep + 1)..n :
       history[i].tool = history[n].tool /\ history[i].args = history[n].args

LEMMA SpinFacts ==
  ASSUME TypeOK, MaxRep \in Nat \ {0}
  PROVE  /\ NoSpinning <=> \A n \in 1..Len(calls) :
              Spins(calls, n) => n = Len(calls) /\ Pending = 1 /\ pc = "done"
         /\ Repetitive(calls') <=> Spins(calls', Len(calls'))
BY PlanFacts DEF NoSpinning, Repetitive, Spins

\* What holds of the lists once the next call is recorded.
LEMMA RequestLists ==
  ASSUME AgentInv, Request
  PROVE  /\ \A i \in DOMAIN calls' : calls'[i].id = i - 1
         /\ step + 1 <= Len(calls') /\ step + 1 <= Len(plan)
         /\ \A i \in 1..(step + 1) :
              /\ calls'[Len(calls') - (step + 1) + i].tool = plan[i].tool
              /\ calls'[Len(calls') - (step + 1) + i].args = plan[i].args
         /\ \A n \in 1..Len(calls) : ~Spins(calls', n)
         /\ Len(calls') <= MaxCalls /\ Len(calls') <= iteration'
         /\ \A i \in DOMAIN observations :
              observations[i].content \in Ran => calls'[i].tool \notin Denied \cup Reserved
<1>1. /\ TypeOK /\ StageOK /\ EachCallObserved /\ StepsInOrder /\ PolicyGate
      /\ CallBudget /\ NoSpinning /\ pc = "loop"
  BY DEF AgentInv, Request, Turn
<1>2. /\ Len(calls) \in Nat /\ Len(observations) \in Nat /\ step \in Nat /\ Len(plan) \in Nat
      /\ iteration \in Nat /\ MaxRep \in Nat \ {0} /\ MaxCalls \in Nat \ {0}
      /\ DOMAIN calls = 1..Len(calls) /\ DOMAIN observations = 1..Len(observations)
  BY <1>1, PlanFacts, AgentAssumption
<1>3. \A i \in DOMAIN calls' : calls'[i].id = i - 1
  <2> SUFFICES ASSUME NEW i \in 1..(Len(calls) + 1) PROVE calls'[i].id = i - 1
    BY RequestFacts
  <2>1. CASE i \in 1..Len(calls)
    BY <1>1, <1>2, <2>1, RequestFacts DEF EachCallObserved
  <2>2. CASE i = Len(calls) + 1
    BY <1>2, <2>2, RequestFacts
  <2> QED BY <1>2, <2>1, <2>2
<1>4. step <= Len(calls) /\ step < Len(plan)
  <2>1. Pending = 0 /\ step + Pending <= Len(calls)
    BY <1>1 DEF EachCallObserved, StepsInOrder
  <2> QED BY <1>2, <2>1, RequestFacts
<1>5. ASSUME NEW i \in 1..(step + 1)
      PROVE  /\ calls'[Len(calls') - (step + 1) + i].tool = plan[i].tool
             /\ calls'[Len(calls') - (step + 1) + i].args = plan[i].args
  <2>1. Len(calls') - (step + 1) + i = Len(calls) - step + i
    BY <1>2, RequestFacts
  <2>2. CASE i \in 1..step
    <3>1. Pending = 0
      BY <1>1 DEF EachCallObserved
    <3>2. /\ calls[Len(calls) - step + i].tool = plan[i].tool
          /\ calls[Len(calls) - step + i].args = plan[i].args
      BY <1>1, <1>2, <2>2, <3>1 DEF StepsInOrder
    <3>3. Len(calls) - step + i \in 1..Len(calls)
      BY <1>2, <1>4, <2>2
    <3> QED BY <2>1, <3>2, <3>3, RequestFacts
  <2>3. CASE i = step + 1
    BY <1>2, <2>1, <2>3, RequestFacts
  <2> QED BY <1>2, <2>2, <2>3
<1>6. ASSUME NEW n \in 1..Len(calls)
      PROVE  ~Spins(calls', n)
  <2>1. ~Spins(calls, n)
    BY <1>1, <1>2, SpinFacts
  <2>2. n \in 1..Len(calls) /\ \A i \in (n - MaxRep + 1)..n : n >= MaxRep => i \in 1..Len(calls)
    BY <1>2
  <2> QED BY <1>2, <2>1, <2>2, RequestFacts DEF Spins
<1>7. Len(calls') <= MaxCalls /\ Len(calls') <= iteration'
  BY <1>1, <1>2, RequestFacts DEF StageOK, CallBudget
<1>8. \A i \in DOMAIN observations :
        observations[i].content \in Ran => calls'[i].tool \notin Denied \cup Reserved
  BY <1>1, <1>2, RequestFacts DEF PolicyGate
<1> QED BY <1>2, <1>3, <1>4, <1>5, <1>6, <1>7, <1>8, RequestFacts

\* A call is recorded and nothing observed of it yet: it is executed, or it is
\* one too many.
LEMMA UnobservedInv ==
  ASSUME AgentInv, OutOfCalls \/ Repeats \/ Dispatch
  PROVE  AgentInv'
<1>1. /\ AgentInv /\ TypeOK /\ StageOK /\ EachCallObserved /\ PolicyGate /\ CallBudget
      /\ Request /\ UNCHANGED <<late, plan, step, observations, answer, verdict>> /\ pc = "loop"
  BY DEF AgentInv, OutOfCalls, Repeats, Dispatch, Request, Turn
<1>2. /\ Len(calls) \in Nat /\ Len(observations) \in Nat /\ step \in Nat /\ Len(plan) \in Nat
      /\ iteration \in Nat /\ MaxRep \in Nat \ {0} /\ MaxCalls \in Nat \ {0} /\ MaxIter \in Nat
      /\ DOMAIN observations = 1..Len(observations)
      /\ Len(observations) = Len(calls) /\ Len(calls') = Len(calls) + 1
  BY <1>1, PlanFacts, RequestFacts, AgentAssumption
<1>3. \/ /\ pc' = "done"
         /\ \E e \in Error : result' = [status |-> "failed", error |-> e]
      \/ /\ pc' = "executing" /\ result' = result
         /\ Len(calls') < MaxCalls /\ ~Repetitive(calls')
         /\ NextCall.tool \notin Denied \cup Reserved
  <2>1. CASE Dispatch
    BY <1>2, <2>1 DEF Dispatch, Admissible, OverBudget, Goto
  <2>2. CASE OutOfCalls \/ Repeats
    BY <2>2 DEF OutOfCalls, Repeats, Raise, Return, Error
  <2> QED BY <2>1, <2>2
<1>4. Pending' = 1
  BY <1>1, <1>2 DEF Pending
<1>5. result = [status |-> "running", error |-> "none"] /\ answer = "none" /\ step < Len(plan)
  BY <1>1, RequestFacts DEF StageOK
<1>6. TypeOK'
  <2>1. iteration' \in 0..(MaxIter + 1)
    BY <1>1, <1>2, RequestFacts
  <2> QED BY <1>1, <1>3, <2>1, RequestFacts DEF TypeOK, Awaiting, Ending
<1>7. StageOK'
  BY <1>1, <1>3, <1>5, RequestFacts DEF StageOK
<1>8. EachCallObserved'
  BY <1>1, <1>3, <1>4, <1>5, RequestLists DEF EachCallObserved
<1>9. StepsInOrder'
  BY <1>1, <1>4, RequestLists DEF StepsInOrder
<1>10. PolicyGate'
  BY <1>1, <1>2, <1>3, RequestFacts, RequestLists DEF PolicyGate
<1>11. CallBudget'
  <2>1. Len(observations) < MaxCalls
    BY <1>1 DEF CallBudget
  <2> QED BY <1>1, <2>1, RequestLists DEF CallBudget
<1>12. NoSpinning'
  <2>1. ASSUME NEW n \in 1..Len(calls'), Spins(calls', n)
        PROVE  n = Len(calls') /\ pc' = "done"
    <3>1. n = Len(calls')
      BY <1>1, <1>2, <2>1, RequestLists
    <3>2. Repetitive(calls')
      BY <1>1, <1>2, <2>1, <3>1, SpinFacts
    <3> QED BY <1>3, <3>1, <3>2
  <2>2. DOMAIN calls' = 1..Len(calls')
    BY <1>1, <1>2, RequestFacts
  <2> QED BY <1>4, <2>1, <2>2 DEF NoSpinning, Spins
<1>13. CompletedIsEarned'
  BY <1>3, <1>5 DEF CompletedIsEarned, Completed
<1> QED BY <1>6, <1>7, <1>8, <1>9, <1>10, <1>11, <1>12, <1>13 DEF AgentInv

\* A list of observations that grows by one.
LEMMA ObserveFacts ==
  ASSUME TypeOK, NEW id \in Nat, NEW content \in Ran \cup Refused, Observe(id, content)
  PROVE  /\ observations' \in Seq(Observation)
         /\ Len(observations') = Len(observations) + 1
         /\ DOMAIN observations' = 1..(Len(observations) + 1)
         /\ \A i \in 1..Len(observations) : observations'[i] = observations[i]
         /\ observations'[Len(observations) + 1] = [id |-> id, content |-> content]
         /\ step' = step + 1
<1>1. [id |-> id, content |-> content] \in Observation
  BY DEF Observation
<1>2. observations \in Seq(Observation)
  BY DEF TypeOK
<1> QED BY <1>1, <1>2 DEF Observe

LEMMA BlockedInv ==
  ASSUME AgentInv, Blocked
  PROVE  AgentInv'
<1>1. /\ AgentInv /\ TypeOK /\ StageOK /\ EachCallObserved /\ PolicyGate /\ CallBudget
      /\ Request /\ UNCHANGED <<late, plan, answer, verdict, result>>
      /\ pc = "loop" /\ pc' = "loop"
  BY DEF AgentInv, Blocked, Request, Turn, Goto
<1>2. /\ Len(calls) \in Nat /\ Len(observations) \in Nat /\ step \in Nat /\ Len(plan) \in Nat
      /\ iteration \in Nat /\ MaxRep \in Nat \ {0} /\ MaxCalls \in Nat \ {0} /\ MaxIter \in Nat
      /\ DOMAIN observations = 1..Len(observations)
      /\ Len(observations) = Len(calls) /\ Len(calls') = Len(calls) + 1
      /\ DOMAIN calls' = 1..Len(calls')
  BY <1>1, PlanFacts, RequestFacts, AgentAssumption
<1>3. PICK content \in Refused : Observe(Len(calls), content)
  BY <1>1, RequestFacts DEF Blocked, Refused
<1>4. /\ observations' \in Seq(Observation)
      /\ Len(observations') = Len(calls')
      /\ DOMAIN observations' = DOMAIN calls'
      /\ \A i \in DOMAIN observations : observations'[i] = observations[i]
      /\ observations'[Len(calls')] = [id |-> Len(calls), content |-> content]
      /\ step' = step + 1
  BY <1>1, <1>2, <1>3, ObserveFacts
<1>5. Pending' = 0
  BY <1>2, <1>4 DEF Pending
<1>6. result = [status |-> "running", error |-> "none"] /\ answer = "none"
  BY <1>1 DEF StageOK
<1>7. ~Repetitive(calls') /\ Len(calls') < MaxCalls
  <2>1. Admissible
    BY DEF Blocked
  <2> QED BY <1>2, <2>1 DEF Admissible, OverBudget
<1>8. TypeOK'
  <2>1. iteration' \in 0..(MaxIter + 1)
    BY <1>1, <1>2, RequestFacts
  <2> QED BY <1>1, <1>2, <1>4, <2>1, RequestFacts DEF TypeOK
<1>9. StageOK'
  BY <1>1, <1>6, <1>7, RequestFacts DEF StageOK
<1>10. EachCallObserved'
  <2>1. ASSUME NEW i \in DOMAIN observations'
        PROVE  observations'[i].id = i - 1
    <3>1. CASE i \in DOMAIN observations
      BY <1>1, <1>4, <3>1 DEF EachCallObserved
    <3>2. CASE i = Len(calls')
      BY <1>2, <1>4, <3>2
    <3> QED BY <1>2, <1>4, <3>1, <3>2
  <2> QED BY <1>1, <1>5, <1>6, <2>1, RequestLists DEF EachCallObserved
<1>11. StepsInOrder'
  BY <1>1, <1>2, <1>4, <1>5, RequestLists DEF StepsInOrder
<1>12. PolicyGate'
  <2>1. ASSUME NEW i \in DOMAIN observations', observations'[i].content \in Ran
        PROVE  calls'[i].tool \notin Denied \cup Reserved
    <3>1. i # Len(calls')
      <4>1. content \notin Ran
        BY DEF Ran, Refused
      <4>2. observations'[Len(calls')].content = content
        BY <1>4
      <4> QED BY <2>1, <4>1, <4>2
    <3>2. i \in DOMAIN observations
      BY <1>2, <1>4, <2>1, <3>1
    <3> QED BY <1>1, <1>4, <2>1, <3>2, RequestLists
  <2> QED BY <1>1, <2>1 DEF PolicyGate
<1>13. CallBudget'
  BY <1>1, <1>2, <1>4, <1>7, RequestLists DEF CallBudget
<1>14. NoSpinning'
  <2>1. ASSUME NEW n \in 1..Len(calls') PROVE ~Spins(calls', n)
    <3>1. CASE n = Len(calls')
      BY <1>1, <1>2, <1>7, <3>1, SpinFacts
    <3> QED BY <1>1, <1>2, <3>1, RequestLists
  <2> QED BY <1>2, <2>1 DEF NoSpinning, Spins
<1>15. CompletedIsEarned'
  BY <1>1, <1>6 DEF CompletedIsEarned, Completed
<1> QED BY <1>8, <1>9, <1>10, <1>11, <1>12, <1>13, <1>14, <1>15 DEF AgentInv

\* What a tool returned is observed.
LEMMA ToolInv ==
  ASSUME AgentInv, ToolReturns \/ ToolUnknown
  PROVE  AgentInv'
<1>1. /\ TypeOK /\ StageOK /\ EachCallObserved /\ StepsInOrder /\ PolicyGate /\ CallBudget
      /\ NoSpinning /\ pc = "executing"
      /\ UNCHANGED <<late, plan, iteration, calls, answer, verdict>>
  BY DEF AgentInv, ToolReturns, ToolUnknown
<1>2. /\ Len(calls) \in Nat /\ Len(observations) \in Nat /\ step \in Nat /\ Len(plan) \in Nat
      /\ iteration \in Nat /\ MaxRep \in Nat \ {0} /\ MaxCalls \in Nat \ {0} /\ MaxIter \in Nat
      /\ DOMAIN calls = 1..Len(calls) /\ DOMAIN observations = 1..Len(observations)
  BY <1>1, PlanFacts, AgentAssumption
<1>3. Len(calls) = Len(observations) + 1
  <2>1. Pending = 1
    BY <1>1 DEF EachCallObserved
  <2>2. Len(calls) \in Nat /\ Len(observations) \in Nat
    BY <1>2
  <2> QED BY <2>1, <2>2 DEF Pending
<1>4. /\ result = [status |-> "running", error |-> "none"] /\ answer = "none"
      /\ iteration <= MaxIter /\ Len(calls) < MaxCalls /\ step < Len(plan)
  BY <1>1 DEF StageOK
<1>5. CASE UNCHANGED <<step, observations>> /\ Raise("ToolExecution")
  <2>1. pc' = "done" /\ result' = [status |-> "failed", error |-> "ToolExecution"]
    BY <1>5 DEF Raise, Return
  <2>2. TypeOK'
    BY <1>1, <1>5, <2>1 DEF TypeOK, Ending, Error
  <2>3. StageOK'
    BY <2>1 DEF StageOK
  <2>4. CompletedIsEarned'
    BY <2>1 DEF CompletedIsEarned, Completed
  <2> QED BY <1>1, <1>5, <2>1, <2>2, <2>3, <2>4, QuietInv
<1>6. CASE /\ \E content \in Ran : Observe(calls[Len(calls)].id, content)
           /\ Goto("loop")
  <2>1. calls[Len(calls)].id = Len(observations)
    BY <1>1, <1>2, <1>3 DEF EachCallObserved
  <2>2. PICK content \in Ran : Observe(Len(observations), content)
    BY <1>6, <2>1
  <2>3. /\ observations' \in Seq(Observation)
        /\ Len(observations') = Len(calls)
        /\ DOMAIN observations' = DOMAIN calls
        /\ \A i \in DOMAIN observations : observations'[i] = observations[i]
        /\ observations'[Len(calls)] = [id |-> Len(observations), content |-> content]
        /\ step' = step + 1
    BY <1>1, <1>2, <1>3, <2>2, ObserveFacts
  <2>4. Pending = 1 /\ Pending' = 0
    BY <1>1, <1>2, <1>3, <2>3 DEF Pending
  <2>5. pc' = "loop" /\ result' = result
    BY <1>6 DEF Goto
  <2>6. TypeOK'
    BY <1>1, <1>2, <2>3, <2>5 DEF TypeOK
  <2>7. StageOK'
    BY <1>1, <1>4, <2>5 DEF StageOK
  <2>8. EachCallObserved'
    <3>1. ASSUME NEW i \in DOMAIN observations'
          PROVE  observations'[i].id = i - 1
      <4>1. CASE i \in DOMAIN observations
        BY <1>1, <2>3, <4>1 DEF EachCallObserved
      <4>2. CASE i = Len(calls)
        BY <1>2, <1>3, <2>3, <4>2
      <4> QED BY <1>2, <1>3, <2>3, <4>1, <4>2
    <3>2. \A i \in DOMAIN calls' : calls'[i].id = i - 1
      BY <1>1 DEF EachCallObserved
    <3> QED BY <1>4, <2>4, <2>5, <3>1, <3>2 DEF EachCallObserved
  <2>9. StepsInOrder'
    <3>1. step' + Pending' = step + Pending
      BY <1>2, <2>3, <2>4
    <3> QED BY <1>1, <3>1 DEF StepsInOrder
  <2>10. PolicyGate'
    <3>1. calls[Len(calls)].tool \notin Denied \cup Reserved
      BY <1>1 DEF PolicyGate
    <3>2. ASSUME NEW i \in DOMAIN observations', observations'[i].content \in Ran
          PROVE  calls'[i].tool \notin Denied \cup Reserved
      <4>1. CASE i \in DOMAIN observations
        BY <1>1, <2>3, <3>2, <4>1 DEF PolicyGate
      <4>2. CASE i = Len(calls)
        BY <1>1, <3>1, <4>2
      <4> QED BY <1>2, <1>3, <2>3, <4>1, <4>2
    <3> QED BY <2>5, <3>2 DEF PolicyGate
  <2>11. CallBudget'
    BY <1>1, <1>2, <1>4, <2>3 DEF CallBudget
  <2>12. NoSpinning'
    <3>1. \A n \in 1..Len(calls) : ~Spins(calls, n)
      BY <1>1, <1>2, SpinFacts
    <3> QED BY <1>1, <1>2, <3>1 DEF NoSpinning, Spins
  <2>13. CompletedIsEarned'
    BY <1>4, <2>5 DEF CompletedIsEarned, Completed
  <2> QED BY <2>6, <2>7, <2>8, <2>9, <2>10, <2>11, <2>12, <2>13 DEF AgentInv
<1> QED
  <2>1. CASE ToolReturns
    BY <1>6, <2>1 DEF ToolReturns
  <2>2. CASE ToolUnknown
    <3>1. CASE Raise("ToolExecution") /\ UNCHANGED <<step, observations>>
      BY <1>5, <3>1
    <3>2. CASE Observe(calls[Len(calls)].id, "tool error") /\ Goto("loop")
      <4>1. "tool error" \in Ran
        BY DEF Ran
      <4> QED BY <1>6, <3>2, <4>1
    <3> QED BY <2>2, <3>1, <3>2 DEF ToolUnknown
  <2> QED BY <2>1, <2>2

-----------------------------------------------------------------------------
(* Verification, planning anew, and the answer.                             *)

LEMMA VerifyingInv ==
  ASSUME AgentInv, Satisfied \/ ToolFailureStands \/ Rejected
  PROVE  AgentInv'
<1>1. TypeOK /\ StageOK /\ pc = "verifying"
  BY DEF AgentInv, Satisfied, ToolFailureStands, Rejected
<1>2. UNCHANGED <<late, plan, step, iteration, calls, observations, answer>>
  BY DEF Satisfied, ToolFailureStands, Rejected
<1>3. /\ result = [status |-> "running", error |-> "none"] /\ answer = "none"
      /\ iteration <= MaxIter /\ Len(calls) < MaxCalls /\ step = Len(plan) /\ iteration > 0
  BY <1>1 DEF StageOK
<1>4. /\ verdict' \in {"passed", "failed"}
      /\ \/ pc' = "synthesising" /\ result' = result /\ verdict' = "passed"
         \/ pc' = "replanning" /\ result' = result
         \/ /\ pc' = "done"
            /\ result' \in [status : {"complete", "failed"}, error : Error \cup {"none"}]
  BY DEF Satisfied, ToolFailureStands, Rejected, Goto, Raise, Finish, Return, Error
<1>5. TypeOK'
  BY <1>1, <1>2, <1>4 DEF TypeOK, Awaiting, Ending
<1>6. StageOK'
  BY <1>2, <1>3, <1>4 DEF StageOK
<1>7. CompletedIsEarned'
  BY <1>2, <1>3 DEF CompletedIsEarned, Completed
<1> QED BY <1>1, <1>2, <1>4, <1>5, <1>6, <1>7, QuietInv

LEMMA ReplanInv ==
  ASSUME AgentInv, Replan
  PROVE  AgentInv'
<1>1. /\ TypeOK /\ StageOK /\ EachCallObserved /\ PolicyGate /\ CallBudget /\ NoSpinning
      /\ pc = "replanning" /\ pc' = "loop" /\ plan' \in Plans /\ step' = 0
      /\ UNCHANGED <<late, iteration, calls, observations, answer, verdict, result>>
  BY DEF AgentInv, Replan, Goto
<1>2. TypeOK'
  BY <1>1 DEF TypeOK
<1>3. StageOK'
  BY <1>1 DEF StageOK
<1>4. Pending = 0 /\ Pending' = 0
  BY <1>1 DEF EachCallObserved, Pending
<1>5. result = [status |-> "running", error |-> "none"] /\ answer = "none"
  BY <1>1 DEF StageOK
<1>6. EachCallObserved'
  BY <1>1, <1>4, <1>5 DEF EachCallObserved
<1>7. StepsInOrder'
  <2>1. Len(plan') \in Nat /\ Len(calls') \in Nat
    BY <1>1, AgentAssumption, PlanFacts
  <2> QED BY <1>1, <1>4, <2>1 DEF StepsInOrder
<1>8. PolicyGate' /\ CallBudget'
  BY <1>1 DEF PolicyGate, CallBudget
<1>9. NoSpinning'
  BY <1>1, <1>4 DEF NoSpinning
<1>10. CompletedIsEarned'
  BY <1>1, <1>5 DEF CompletedIsEarned, Completed
<1> QED BY <1>2, <1>3, <1>6, <1>7, <1>8, <1>9, <1>10 DEF AgentInv

LEMMA AnswerInv ==
  ASSUME AgentInv, ReplanFails \/ Synthesise
  PROVE  AgentInv'
<1>1. TypeOK /\ StageOK /\ EachCallObserved /\ pc \in {"replanning", "synthesising"}
  BY DEF AgentInv, ReplanFails, Synthesise
<1>2. UNCHANGED <<late, plan, step, iteration, calls, observations, verdict>>
  BY DEF ReplanFails, Synthesise
<1>3. /\ pc' = "done" /\ answer' \in {"none", "blank", "text"}
      /\ \/ result' = [status |-> "failed", error |-> "VerificationFailure"]
         \/ /\ result' = [status |-> "complete", error |-> "none"]
            /\ pc = "synthesising"
  BY <1>1 DEF ReplanFails, Synthesise, Raise, Finish, Return, TypeOK
<1>4. TypeOK'
  BY <1>1, <1>2, <1>3 DEF TypeOK, Ending, Error
<1>5. StageOK'
  BY <1>3 DEF StageOK
<1>6. CompletedIsEarned'
  <2>1. step = Len(plan) /\ Pending = 0 /\ (pc = "synthesising" => verdict = "passed")
    BY <1>1 DEF StageOK, EachCallObserved
  <2>2. Pending' = 0
    BY <1>2, <2>1 DEF Pending
  <2>3. result'.status = "complete" => pc = "synthesising"
    BY <1>3
  <2> QED BY <1>2, <2>1, <2>2, <2>3 DEF CompletedIsEarned, Completed
<1> QED BY <1>1, <1>2, <1>3, <1>4, <1>5, <1>6, QuietInv

-----------------------------------------------------------------------------
(* The environment.                                                         *)

LEMMA EnvironmentInv ==
  ASSUME AgentInv, Interrupt \/ DeadlinePasses \/ UNCHANGED vars
  PROVE  AgentInv'
<1>1. CASE Interrupt
  <2>1. /\ TypeOK /\ pc \in Awaiting /\ pc # "done"
        /\ pc' = "done" /\ result' = [status |-> "interrupted", error |-> "none"]
        /\ UNCHANGED <<late, plan, step, iteration, calls, observations, answer, verdict>>
    BY <1>1 DEF AgentInv, Interrupt, Return, Awaiting
  <2>2. TypeOK'
    BY <2>1 DEF TypeOK, Ending
  <2>3. StageOK' /\ CompletedIsEarned'
    BY <2>1 DEF StageOK, CompletedIsEarned, Completed
  <2> QED BY <2>1, <2>2, <2>3, QuietInv
<1>2. CASE DeadlinePasses \/ UNCHANGED vars
  <2>1. /\ late' = TRUE \/ late' = late
        /\ UNCHANGED <<pc, plan, step, iteration, calls, observations, answer, verdict, result>>
    BY <1>2 DEF DeadlinePasses, vars
  <2>2. TypeOK'
    BY <2>1 DEF AgentInv, TypeOK
  <2>3. Pending' = Pending
    BY <2>1 DEF Pending
  <2>4. StageOK' /\ EachCallObserved'
    BY <2>1, <2>3 DEF AgentInv, StageOK, EachCallObserved
  <2>5. StepsInOrder' /\ PolicyGate' /\ CallBudget'
    BY <2>1, <2>3 DEF AgentInv, StepsInOrder, PolicyGate, CallBudget
  <2>6. NoSpinning' /\ CompletedIsEarned'
    BY <2>1, <2>3 DEF AgentInv, NoSpinning, CompletedIsEarned, Completed
  <2> QED BY <2>2, <2>4, <2>5, <2>6 DEF AgentInv
<1> QED BY <1>1, <1>2

LEMMA NextInv == AgentInv /\ [Next]_vars => AgentInv'
<1> SUFFICES ASSUME AgentInv, [Next]_vars PROVE AgentInv'
  OBVIOUS
<1>1. CASE PlanReady \/ PlanFails \/ RouteFails
  BY <1>1, PlanningInv
<1>2. CASE Generate \/ GenerateFails \/ CheckAnswer
  BY <1>2, DirectInv
<1>3. CASE DeadlineMissed \/ OutOfIterations \/ AllStepsDone \/ ToolCrashes
  BY <1>3, LoopEndInv
<1>4. CASE OutOfCalls \/ Repeats \/ Dispatch
  BY <1>4, UnobservedInv
<1>5. CASE Blocked
  BY <1>5, BlockedInv
<1>6. CASE ToolReturns \/ ToolUnknown
  BY <1>6, ToolInv
<1>7. CASE Satisfied \/ ToolFailureStands \/ Rejected
  BY <1>7, VerifyingInv
<1>8. CASE Replan
  BY <1>8, ReplanInv
<1>9. CASE ReplanFails \/ Synthesise
  BY <1>9, AnswerInv
<1>10. CASE Interrupt \/ DeadlinePasses \/ UNCHANGED vars
  BY <1>10, EnvironmentInv
<1> QED
  BY <1>1, <1>2, <1>3, <1>4, <1>5, <1>6, <1>7, <1>8, <1>9, <1>10 DEF Next, AgentStep

-----------------------------------------------------------------------------
(* Failures of tools.  The table last_ok of _has_unrecovered_tool_failure is *)
(* a fold over the calls; what it holds after n of them is shown by          *)
(* induction on n.                                                           *)

\* One turn of the loop that fills the table, and the table by sets of calls.
Note(known, call) ==
  IF Observed(call) \in Ran
  THEN [known EXCEPT ![call.tool] = Observed(call) = "output"]
  ELSE known

AllOk == [t \in Tools |-> TRUE]

Table ==
  CHOOSE table :
    table = [s \in SUBSET DOMAIN calls |->
               IF s = {} THEN AllOk ELSE Note(table[s \ {Max(s)}], calls[Max(s)])]

LEMMA UnrecoveredByTable == Unrecovered <=> \E t \in Tools : ~Table[DOMAIN calls][t]
BY DEF Unrecovered, FoldLeft, MapThenFoldSet, Table, Note, AllOk

LEMMA TableDefined ==
  ASSUME TypeOK
  PROVE  Table = [s \in SUBSET DOMAIN calls |->
                    IF s = {} THEN AllOk ELSE Note(Table[s \ {Max(s)}], calls[Max(s)])]
<1> DEFINE S == DOMAIN calls
           R == [Tools -> BOOLEAN]
           F == [x \in S \X R |-> Note(x[2], calls[x[1]])]
           pick == [s \in SUBSET S |-> Max(s)]
<1>1. Len(calls) \in Nat /\ S = 1..Len(calls) /\ \A i \in S : calls[i] \in ToolCall
  BY PlanFacts DEF TypeOK
<1>2. IsFiniteSet(S)
  BY <1>1, FS_Interval
<1>3. AllOk \in R
  BY DEF AllOk
<1>4. ASSUME NEW known \in R, NEW i \in S
      PROVE  Note(known, calls[i]) \in R
  <2>1. (Observed(calls[i]) = "output") \in BOOLEAN
    OBVIOUS
  <2> QED BY <2>1 DEF Note
<1>5. F \in [S \X R -> R]
  <2>1. ASSUME NEW x \in S \X R
        PROVE  Note(x[2], calls[x[1]]) \in R
    <3>1. x[1] \in S /\ x[2] \in R
      OBVIOUS
    <3> HIDE DEF S, R
    <3> QED BY <3>1, <1>4
  <2> HIDE DEF S, R
  <2> QED BY <2>1
<1>6. \A s \in SUBSET S : s # {} => pick[s] \in s
  BY <1>1, MaxInInterval
<1>7. PICK g \in [SUBSET S -> R] : FoldEquation(S, AllOk, F, pick, g)
  <2> HIDE DEF S, R, F, pick
  <2> QED BY <1>2, <1>3, <1>5, <1>6, FoldExists
<1> DEFINE Solves(table) ==
      table = [s \in SUBSET S |->
                 IF s = {} THEN AllOk ELSE Note(table[s \ {Max(s)}], calls[Max(s)])]
<1>8. ASSUME NEW s \in SUBSET S, s # {}
      PROVE  F[<<pick[s], g[s \ {pick[s]}]>>] = Note(g[s \ {Max(s)}], calls[Max(s)])
  <2>1. pick[s] = Max(s) /\ Max(s) \in S /\ g[s \ {Max(s)}] \in R
    <3>1. pick[s] = Max(s)
      OBVIOUS
    <3> HIDE DEF S, R, pick
    <3> QED BY <3>1, <1>6, <1>8
  <2>2. <<pick[s], g[s \ {pick[s]}]>> \in S \X R
    BY <2>1
  <2> HIDE DEF S, R, pick
  <2> QED BY <2>1, <2>2
<1>9. Solves(g)
  <2>1. \A s \in SUBSET S :
          g[s] = IF s = {} THEN AllOk ELSE Note(g[s \ {Max(s)}], calls[Max(s)])
    <3> HIDE DEF S, R, F, pick
    <3> QED BY <1>7, <1>8 DEF FoldEquation
  <2> HIDE DEF S, R
  <2> QED BY <2>1
<1>10. Solves(Table)
  <2> HIDE DEF Solves
  <2>1. Table = CHOOSE table : Solves(table)
    BY DEF Table, Solves
  <2> QED BY <1>9, <2>1
<1> QED BY <1>10

LEMMA TableStep ==
  ASSUME TypeOK
  PROVE  /\ Table[1..0] = AllOk
         /\ \A n \in 0..(Len(calls) - 1) :
              Table[1..(n + 1)] = Note(Table[1..n], calls[n + 1])
<1>1. Len(calls) \in Nat /\ DOMAIN calls = 1..Len(calls)
  BY PlanFacts
<1>2. \A s \in SUBSET (1..Len(calls)) :
        Table[s] = IF s = {} THEN AllOk ELSE Note(Table[s \ {Max(s)}], calls[Max(s)])
  BY <1>1, TableDefined
<1>3. 1..0 = {} /\ 1..0 \in SUBSET (1..Len(calls))
  OBVIOUS
<1>4. ASSUME NEW n \in 0..(Len(calls) - 1)
      PROVE  Table[1..(n + 1)] = Note(Table[1..n], calls[n + 1])
  <2>1. 1..(n + 1) \in SUBSET (1..Len(calls)) /\ 1..(n + 1) # {}
    BY <1>1
  <2>2. Max(1..(n + 1)) = n + 1
    <3>1. Max(1..(n + 1)) \in 1..(n + 1) /\ \A m \in 1..(n + 1) : m <= Max(1..(n + 1))
      BY <1>1, <2>1, MaxInInterval
    <3> QED BY <3>1
  <2>3. (1..(n + 1)) \ {n + 1} = 1..n
    OBVIOUS
  <2> QED BY <1>2, <2>1, <2>2, <2>3
<1> QED BY <1>2, <1>3, <1>4

\* After n calls the table holds FALSE for the tool of every failed one of them,
\* unless a later one of them with the same tool succeeded.
LEMMA TableSays ==
  ASSUME TypeOK, NEW n \in 0..Len(calls)
  PROVE  /\ Table[1..n] \in [Tools -> BOOLEAN]
         /\ \A i \in 1..n :
              Observed(calls[i]) = "tool error" =>
                \/ ~Table[1..n][calls[i].tool]
                \/ \E k \in (i + 1)..n :
                     calls[k].tool = calls[i].tool /\ Observed(calls[k]) = "output"
<1> DEFINE Recovered(i, m) ==
             \E k \in (i + 1)..m :
               calls[k].tool = calls[i].tool /\ Observed(calls[k]) = "output"
           Says(m) ==
             /\ Table[1..m] \in [Tools -> BOOLEAN]
             /\ \A i \in 1..m :
                  Observed(calls[i]) = "tool error" =>
                    ~Table[1..m][calls[i].tool] \/ Recovered(i, m)
           holds == {m \in 0..Len(calls) : Says(m)}
<1>1. Len(calls) \in Nat /\ \A i \in 1..Len(calls) : calls[i] \in ToolCall
  BY PlanFacts DEF TypeOK
<1>2. 0 \in holds
  <2>1. Table[1..0] \in [Tools -> BOOLEAN]
    BY TableStep DEF AllOk
  <2>2. 0 \in 0..Len(calls) /\ \A i \in 1..0 : FALSE
    BY <1>1
  <2> QED BY <2>1, <2>2
<1>3. ASSUME NEW m \in 0..(Len(calls) - 1), m \in holds
      PROVE  m + 1 \in holds
  <2> SUFFICES Says(m + 1)
    <3> HIDE DEF holds, Says
    <3>1. m + 1 \in 0..Len(calls)
      BY <1>1
    <3> QED BY <3>1 DEF holds
  <2> DEFINE call == calls[m + 1]
             old == Table[1..m]
             new == Table[1..(m + 1)]
  <2>1. new = Note(old, call) /\ call \in ToolCall /\ m + 1 \in 1..Len(calls)
    BY <1>1, TableStep
  <2>2. old \in [Tools -> BOOLEAN] /\ call.tool \in Tools
    BY <1>3, <2>1 DEF ToolCall
  <2>3. Says(m)
    BY <1>3
  <2>4. CASE Observed(call) = "output"
    <3>1. new = [old EXCEPT ![call.tool] = TRUE]
      BY <2>1, <2>4 DEF Note, Ran
    <3>2. new \in [Tools -> BOOLEAN]
      BY <2>2, <3>1
    <3>3. ASSUME NEW i \in 1..(m + 1), Observed(calls[i]) = "tool error"
          PROVE  ~new[calls[i].tool] \/ Recovered(i, m + 1)
      <4>1. i # m + 1
        BY <2>4, <3>3
      <4>2. i \in 1..m /\ calls[i] \in ToolCall
        BY <4>1, <1>1
      <4>3. CASE calls[i].tool = call.tool
        <5>1. m + 1 \in (i + 1)..(m + 1)
          BY <4>2
        <5> QED BY <5>1, <4>3, <2>4
      <4>4. CASE calls[i].tool # call.tool
        <5>1. calls[i].tool \in Tools
          BY <4>2 DEF ToolCall
        <5>2. new[calls[i].tool] = old[calls[i].tool]
          BY <4>4, <5>1, <3>1, <2>2
        <5>3. Recovered(i, m) => Recovered(i, m + 1)
          OBVIOUS
        <5> QED BY <2>3, <3>3, <4>2, <5>2, <5>3
      <4> QED BY <4>3, <4>4
    <3> QED BY <3>2, <3>3
  <2>5. CASE Observed(call) = "tool error"
    <3>1. new = [old EXCEPT ![call.tool] = FALSE]
      BY <2>1, <2>5 DEF Note, Ran
    <3>2. new \in [Tools -> BOOLEAN]
      BY <2>2, <3>1
    <3>3. ASSUME NEW i \in 1..(m + 1), Observed(calls[i]) = "tool error"
          PROVE  ~new[calls[i].tool] \/ Recovered(i, m + 1)
      <4>1. CASE calls[i].tool = call.tool
        BY <4>1, <3>1, <2>2
      <4>2. CASE calls[i].tool # call.tool
        <5>1. i \in 1..m /\ calls[i] \in ToolCall
          BY <4>2, <1>1
        <5>2. calls[i].tool \in Tools
          BY <5>1 DEF ToolCall
        <5>3. new[calls[i].tool] = old[calls[i].tool]
          BY <4>2, <5>2, <3>1, <2>2
        <5>4. Recovered(i, m) => Recovered(i, m + 1)
          OBVIOUS
        <5> QED BY <2>3, <3>3, <5>1, <5>3, <5>4
      <4> QED BY <4>1, <4>2
    <3> QED BY <3>2, <3>3
  <2>6. CASE Observed(call) \notin Ran
    <3>1. new = old
      BY <2>1, <2>6 DEF Note
    <3>2. ASSUME NEW i \in 1..(m + 1), Observed(calls[i]) = "tool error"
          PROVE  ~new[calls[i].tool] \/ Recovered(i, m + 1)
      <4>1. i \in 1..m
        <5>1. i # m + 1
          BY <2>6, <3>2 DEF Ran
        <5> QED BY <5>1
      <4>2. Recovered(i, m) => Recovered(i, m + 1)
        OBVIOUS
      <4> QED BY <2>3, <3>1, <3>2, <4>1, <4>2
    <3> QED BY <2>2, <3>1, <3>2
  <2> QED BY <2>4, <2>5, <2>6 DEF Ran
<1>4. 0..Len(calls) \subseteq holds
  <2> HIDE DEF holds
  <2> QED BY <1>1, <1>2, <1>3, IntervalInduction
<1> QED BY <1>4

\* What is observed of a call is what stands at its place.
LEMMA ObservedByPlace ==
  ASSUME AgentInv, Pending = 0, NEW i \in DOMAIN calls
  PROVE  i \in DOMAIN observations /\ Observed(calls[i]) = observations[i].content
<1>1. TypeOK /\ EachCallObserved
  BY DEF AgentInv
<1>2. DOMAIN observations = DOMAIN calls /\ i \in Nat
  BY <1>1, PlanFacts DEF Pending
<1> DEFINE found == {k \in DOMAIN observations : observations[k].id = calls[i].id}
<1>3. found = {i}
  <2>1. \A k \in DOMAIN observations : k \in Nat /\ observations[k].id = k - 1
    BY <1>1, PlanFacts DEF EachCallObserved
  <2>2. calls[i].id = i - 1
    BY <1>1 DEF EachCallObserved
  <2> QED BY <1>2, <2>1, <2>2
<1>4. (CHOOSE k \in found : \A l \in found : l <= k) = i
  <2>1. i <= i
    BY <1>2
  <2> QED BY <1>3, <2>1
<1> QED BY <1>2, <1>3, <1>4 DEF Observed

FailuresRecovered ==
  \A i \in DOMAIN calls : observations[i].content = "tool error" =>
    \E k \in DOMAIN calls :
      k > i /\ calls[k].tool = calls[i].tool /\ observations[k].content = "output"

LEMMA RecoveredByTable ==
  ASSUME AgentInv, Pending = 0, ~Unrecovered
  PROVE  FailuresRecovered
<1>1. TypeOK
  BY DEF AgentInv
<1>2. /\ Len(calls) \in Nat /\ DOMAIN calls = 1..Len(calls)
      /\ \A i \in DOMAIN calls : calls[i].tool \in Tools
  <2>1. \A call \in ToolCall : call.tool \in Tools
    BY DEF ToolCall
  <2> QED BY <1>1, <2>1, PlanFacts DEF TypeOK
<1>3. SUFFICES ASSUME NEW i \in DOMAIN calls, observations[i].content = "tool error"
               PROVE  \E k \in DOMAIN calls :
                        /\ k > i /\ calls[k].tool = calls[i].tool
                        /\ observations[k].content = "output"
  BY DEF FailuresRecovered
<1>4. Table[1..Len(calls)][calls[i].tool]
  BY <1>2, UnrecoveredByTable
<1>5. Observed(calls[i]) = "tool error"
  BY <1>3, ObservedByPlace
<1>6. PICK k \in (i + 1)..Len(calls) :
        calls[k].tool = calls[i].tool /\ Observed(calls[k]) = "output"
  <2>1. Len(calls) \in 0..Len(calls)
    BY <1>2
  <2> QED BY <1>1, <1>2, <1>4, <1>5, <2>1, TableSays
<1>7. k \in DOMAIN calls /\ k > i
  BY <1>2, <1>6
<1> QED BY <1>6, <1>7, ObservedByPlace

\* What FailureSurfaces rests on: the synthesis begins with every failure
\* recovered, and calls nothing.
FailureInv == pc = "synthesising" \/ Completed => FailuresRecovered

LEMMA FailureNext ==
  ASSUME AgentInv, FailureInv, [Next]_vars
  PROVE  FailureInv'
<1>1. TypeOK /\ StageOK /\ EachCallObserved
  BY DEF AgentInv
<1> SUFFICES ASSUME (pc = "synthesising" \/ Completed)'
             PROVE  FailuresRecovered'
  BY DEF FailureInv
<1>2. CASE Satisfied
  <2>1. Pending = 0 /\ ~Unrecovered /\ UNCHANGED <<calls, observations>>
    BY <1>1, <1>2 DEF Satisfied, EachCallObserved
  <2> QED BY <2>1, RecoveredByTable DEF FailuresRecovered
<1>3. CASE CheckAnswer
  <2>1. calls' = <<>>
    BY <1>1, <1>3 DEF CheckAnswer, StageOK
  <2>2. DOMAIN calls' = {}
    BY <2>1
  <2> QED BY <2>2 DEF FailuresRecovered
<1>4. CASE Synthesise
  <2>1. pc = "synthesising" /\ UNCHANGED <<calls, observations>>
    BY <1>4 DEF Synthesise
  <2> QED BY <2>1 DEF FailureInv, FailuresRecovered
<1>5. CASE UNCHANGED vars \/ DeadlinePasses
  <2>1. UNCHANGED <<pc, calls, observations, answer, result>>
    BY <1>5 DEF vars, DeadlinePasses
  <2> QED BY <2>1 DEF FailureInv, FailuresRecovered, Completed
<1>6. ASSUME ~Satisfied, ~CheckAnswer, ~Synthesise, ~UNCHANGED vars, ~DeadlinePasses
      PROVE  FALSE
  <2>1. CASE \/ PlanReady \/ PlanFails \/ RouteFails \/ Generate \/ GenerateFails
             \/ ReplanFails \/ Replan \/ Interrupt
    <3>1. pc # "done" /\ result.status = "running"
      BY <1>1, <2>1 DEF StageOK, PlanReady, PlanFails, RouteFails, Generate, GenerateFails,
                       ReplanFails, Replan, Interrupt, Awaiting
    <3>2. pc' # "synthesising" /\ result'.status # "complete"
      BY <2>1, <3>1 DEF PlanReady, PlanFails, RouteFails, Generate, GenerateFails,
                   ReplanFails, Replan, Interrupt, Goto, Return, Raise, Crash
    <3> QED BY <3>2 DEF Completed
  <2>2. CASE DeadlineMissed \/ OutOfIterations \/ AllStepsDone
    <3>1. pc = "loop"
      BY <2>2 DEF DeadlineMissed, OutOfIterations, AllStepsDone, Turn
    <3>2. result.status = "running"
      BY <1>1, <3>1 DEF StageOK
    <3>3. pc' # "synthesising" /\ result'.status # "complete"
      BY <2>2, <3>2 DEF DeadlineMissed, OutOfIterations, AllStepsDone, Goto, Return, Raise
    <3> QED BY <3>3 DEF Completed
  <2>3. CASE OutOfCalls \/ Repeats \/ Blocked \/ Dispatch
    <3>1. pc = "loop"
      BY <2>3 DEF OutOfCalls, Repeats, Blocked, Dispatch, Request, Turn
    <3>2. result.status = "running"
      BY <1>1, <3>1 DEF StageOK
    <3>3. \/ pc' = "done" /\ result'.status = "failed"
          \/ pc' \in {"loop", "executing"} /\ result' = result
      <4>1. CASE OutOfCalls
        BY <4>1 DEF OutOfCalls, Return, Raise
      <4>2. CASE Repeats
        BY <4>2 DEF Repeats, Return, Raise
      <4>3. CASE Blocked
        BY <4>3 DEF Blocked, Goto
      <4>4. CASE Dispatch
        BY <4>4 DEF Dispatch, Goto
      <4> QED BY <2>3, <4>1, <4>2, <4>3, <4>4
    <3> QED BY <3>2, <3>3 DEF Completed
  <2>4. CASE ToolReturns \/ ToolUnknown \/ ToolCrashes
    <3>1. pc = "executing"
      BY <2>4 DEF ToolReturns, ToolUnknown, ToolCrashes
    <3>2. result.status = "running"
      BY <1>1, <3>1 DEF StageOK
    <3>3. \/ pc' = "done" /\ result'.status \in {"failed", "raised"}
          \/ pc' = "loop" /\ result' = result
      <4>1. CASE ToolReturns
        BY <4>1 DEF ToolReturns, Goto
      <4>2. CASE ToolUnknown
        <5>1. Raise("ToolExecution") \/ Goto("loop")
          BY <4>2 DEF ToolUnknown
        <5> QED BY <5>1 DEF Goto, Return, Raise
      <4>3. CASE ToolCrashes
        BY <4>3 DEF ToolCrashes, Crash, Return
      <4> QED BY <2>4, <4>1, <4>2, <4>3
    <3> QED BY <3>2, <3>3 DEF Completed
  <2>5. CASE ToolFailureStands \/ Rejected
    <3>1. pc = "verifying"
      BY <2>5 DEF ToolFailureStands, Rejected
    <3>2. result.status = "running"
      BY <1>1, <3>1 DEF StageOK
    <3>3. \/ pc' = "done" /\ result'.status = "failed"
          \/ pc' = "replanning" /\ result' = result
      BY <2>5 DEF ToolFailureStands, Rejected, Goto, Return, Raise
    <3> QED BY <3>2, <3>3 DEF Completed
  <2> QED BY <1>6, <2>1, <2>2, <2>3, <2>4, <2>5 DEF Next, AgentStep
<1> QED BY <1>2, <1>3, <1>4, <1>5, <1>6

-----------------------------------------------------------------------------
(* Termination.  Liveness is TLC's part (Terminates), but why a run ends is  *)
(* a measure of what may still happen to it.                                 *)

\* How far a position is from the next turn of the main loop, or from the end.
Distance ==
  [planning |-> 4, generating |-> 2, checking |-> 1, loop |-> 1, executing |-> 2,
   verifying |-> 3, replanning |-> 2, synthesising |-> 1, done |-> 0]

\* A bound on the steps still to come, the passing of the deadline among them.
StepsLeft ==
  4 * (MaxIter + 1 - iteration) + Distance[pc] + IF late THEN 0 ELSE 1

LEMMA StepsLeftBound ==
  ASSUME TypeOK
  PROVE  StepsLeft \in 0..(4 * MaxIter + 9)
<1>1. Distance[pc] \in 0..4
  BY DEF TypeOK, Awaiting, Distance
<1>2. iteration \in 0..(MaxIter + 1) /\ MaxIter \in Nat
  BY AgentAssumption DEF TypeOK
<1> QED BY <1>1, <1>2 DEF StepsLeft

\* Within a turn the run moves nearer to its end; a turn uses up an iteration.
LEMMA Progress ==
  ASSUME TypeOK, TypeOK', late' = late,
         \/ iteration' = iteration /\ Distance[pc'] < Distance[pc]
         \/ iteration' = iteration + 1 /\ Distance[pc] = 1 /\ Distance[pc'] <= 3
  PROVE  StepsLeft' < StepsLeft
<1>1. Distance[pc] \in 0..4 /\ Distance[pc'] \in 0..4
  BY DEF TypeOK, Awaiting, Distance
<1>2. iteration \in Nat /\ iteration' \in Nat /\ MaxIter \in Nat
  BY AgentAssumption DEF TypeOK
<1> QED BY <1>1, <1>2 DEF StepsLeft

LEMMA StepsRunOut ==
  ASSUME AgentInv, AgentInv', Next
  PROVE  StepsLeft' < StepsLeft
<1>1. TypeOK /\ TypeOK'
  BY DEF AgentInv
<1>2. CASE PlanReady \/ PlanFails \/ RouteFails
  <2>1. pc = "planning" /\ pc' \in {"generating", "loop", "done"} /\ UNCHANGED <<late, iteration>>
    BY <1>2 DEF PlanReady, PlanFails, RouteFails, Goto, Raise, Return
  <2> QED BY <1>1, <2>1, Progress DEF Distance
<1>3. CASE Generate \/ GenerateFails
  <2>1. pc = "generating" /\ pc' \in {"checking", "done"} /\ UNCHANGED <<late, iteration>>
    BY <1>3 DEF Generate, GenerateFails, Goto, Crash, Return
  <2> QED BY <1>1, <2>1, Progress DEF Distance
<1>4. CASE CheckAnswer
  <2>1. pc = "checking" /\ pc' = "done" /\ UNCHANGED <<late, iteration>>
    BY <1>4 DEF CheckAnswer, Finish, Return
  <2> QED BY <1>1, <2>1, Progress DEF Distance
<1>5. CASE DeadlineMissed
  <2>1. pc = "loop" /\ pc' = "done" /\ UNCHANGED <<late, iteration>>
    BY <1>5 DEF DeadlineMissed, Raise, Return
  <2> QED BY <1>1, <2>1, Progress DEF Distance
<1>6. CASE OutOfIterations \/ AllStepsDone
  <2>1. pc = "loop" /\ iteration' = iteration + 1 /\ late' = late /\ pc' \in {"done", "verifying"}
    BY <1>6 DEF OutOfIterations, AllStepsDone, Turn, Goto, Raise, Return
  <2> QED BY <1>1, <2>1, Progress DEF Distance
<1>7. CASE OutOfCalls \/ Repeats \/ Blocked \/ Dispatch
  <2>1. pc = "loop" /\ iteration' = iteration + 1 /\ late' = late
    BY <1>7 DEF OutOfCalls, Repeats, Blocked, Dispatch, Request, Turn
  <2>2. pc' \in {"done", "loop", "executing"}
    <3>1. OutOfCalls => pc' = "done"
      BY DEF OutOfCalls, Raise, Return
    <3>2. Repeats => pc' = "done"
      BY DEF Repeats, Raise, Return
    <3>3. Blocked => pc' = "loop"
      BY DEF Blocked, Goto
    <3>4. Dispatch => pc' = "executing"
      BY DEF Dispatch, Goto
    <3> QED BY <1>7, <3>1, <3>2, <3>3, <3>4
  <2> QED BY <1>1, <2>1, <2>2, Progress DEF Distance
<1>8. CASE ToolReturns \/ ToolUnknown \/ ToolCrashes
  <2>1. pc = "executing" /\ UNCHANGED <<late, iteration>>
    BY <1>8 DEF ToolReturns, ToolUnknown, ToolCrashes
  <2>2. pc' \in {"loop", "done"}
    <3>1. ToolReturns => pc' = "loop"
      BY DEF ToolReturns, Goto
    <3>2. ToolUnknown => pc' \in {"loop", "done"}
      BY DEF ToolUnknown, Goto, Raise, Return
    <3>3. ToolCrashes => pc' = "done"
      BY DEF ToolCrashes, Crash, Return
    <3> QED BY <1>8, <3>1, <3>2, <3>3
  <2> QED BY <1>1, <2>1, <2>2, Progress DEF Distance
<1>9. CASE Satisfied \/ ToolFailureStands \/ Rejected
  <2>1. pc = "verifying" /\ UNCHANGED <<late, iteration>>
    BY <1>9 DEF Satisfied, ToolFailureStands, Rejected
  <2>2. pc' \in {"synthesising", "replanning", "done"}
    BY <1>9 DEF Satisfied, ToolFailureStands, Rejected, Goto, Finish, Raise, Return
  <2> QED BY <1>1, <2>1, <2>2, Progress DEF Distance
<1>10. CASE Replan \/ ReplanFails
  <2>1. pc = "replanning" /\ pc' \in {"loop", "done"} /\ UNCHANGED <<late, iteration>>
    BY <1>10 DEF Replan, ReplanFails, Goto, Raise, Return
  <2> QED BY <1>1, <2>1, Progress DEF Distance
<1>11. CASE Synthesise
  <2>1. pc = "synthesising" /\ pc' = "done" /\ UNCHANGED <<late, iteration>>
    BY <1>11 DEF Synthesise, Finish, Return
  <2> QED BY <1>1, <2>1, Progress DEF Distance
<1>12. CASE Interrupt
  <2>1. pc \in Awaiting /\ pc' = "done" /\ UNCHANGED <<late, iteration>>
    BY <1>12 DEF Interrupt, Return
  <2> QED BY <1>1, <2>1, Progress DEF Distance, Awaiting
<1>13. CASE DeadlinePasses
  <2>1. ~late /\ late' /\ UNCHANGED <<pc, iteration>>
    BY <1>13 DEF DeadlinePasses
  <2>2. Distance[pc] \in Int /\ iteration \in Int /\ MaxIter \in Int
    BY <1>1, AgentAssumption DEF TypeOK, Awaiting, Distance
  <2> QED BY <2>1, <2>2 DEF StepsLeft
<1> QED
  BY <1>2, <1>3, <1>4, <1>5, <1>6, <1>7, <1>8, <1>9, <1>10, <1>11, <1>12, <1>13
  DEF Next, AgentStep

-----------------------------------------------------------------------------
(* The theorems.                                                            *)

\* In every state of a run the lists, the plan, the limits and the outcome of
\* Agent.run agree, whatever the planner, the verifier and the policy decide.
THEOREM AgentCorrect == Spec => []AgentInv
<1> QED BY InitInv, NextInv, PTL DEF Spec

\* Every variable of Agent.run keeps its type: the state an event handler or
\* run_agent_task reads is well formed at every await.
THEOREM AgentTypes == Spec => []TypeOK
<1>1. AgentInv => TypeOK
  BY DEF AgentInv
<1> QED BY <1>1, AgentCorrect, PTL

\* Each tool call of _execute is observed once, under its own identifier.
THEOREM ObservedCorrect == Spec => []EachCallObserved
<1>1. AgentInv => EachCallObserved
  BY DEF AgentInv
<1> QED BY <1>1, AgentCorrect, PTL

\* _execute works through a plan in its order, from its first step, also when
\* calls were refused or the plan is a new one.
THEOREM OrderCorrect == Spec => []StepsInOrder
<1>1. AgentInv => StepsInOrder
  BY DEF AgentInv
<1> QED BY <1>1, AgentCorrect, PTL

\* _policy_blocked keeps every denied or reserved tool from the executor.
THEOREM PolicyCorrect == Spec => []PolicyGate
<1>1. AgentInv => PolicyGate
  BY DEF AgentInv
<1> QED BY <1>1, AgentCorrect, PTL

\* The limit on tool calls bounds the calls of a whole run, new plans included.
THEOREM BudgetCorrect == Spec => []CallBudget
<1>1. AgentInv => CallBudget
  BY DEF AgentInv
<1> QED BY <1>1, AgentCorrect, PTL

\* _check_repetitive ends a run before it executes one call too often.
THEOREM SpinningCorrect == Spec => []NoSpinning
<1>1. AgentInv => NoSpinning
  BY DEF AgentInv
<1> QED BY <1>1, AgentCorrect, PTL

\* A run that run_agent_task stores as completed finished its plan, has an
\* answer, and was accepted by the verifier.
THEOREM CompletionCorrect == Spec => []CompletedIsEarned
<1>1. AgentInv => CompletedIsEarned
  BY DEF AgentInv
<1> QED BY <1>1, AgentCorrect, PTL

\* _has_unrecovered_tool_failure finds every failure that no later call of the
\* same tool made good, however many calls there were: a task is not stored as
\* completed with one.
THEOREM FailureCorrect == Spec => []FailureSurfaces
<1>1. Init => FailureInv
  BY DEF Init, FailureInv, Completed
<1>2. AgentInv /\ FailureInv /\ [Next]_vars => FailureInv'
  BY FailureNext
<1>3. FailureInv => FailureSurfaces
  BY DEF FailureInv, FailureSurfaces, FailuresRecovered
<1> QED BY <1>1, <1>2, <1>3, AgentCorrect, PTL DEF Spec

\* No run goes on for ever, whatever the planner and the verifier answer: each of
\* its steps, a cancellation and the deadline among them, leaves fewer to come, of
\* at most 4 * MaxIter + 9.  What Terminates adds to this is only that
\* the next step is taken.
THEOREM RunsAreFinite ==
  Spec => [](StepsLeft \in 0..(4 * MaxIter + 9)) /\ [][StepsLeft' < StepsLeft]_vars
<1>1. AgentInv => StepsLeft \in 0..(4 * MaxIter + 9)
  BY StepsLeftBound DEF AgentInv
<1>2. AgentInv /\ AgentInv' /\ [Next]_vars => [StepsLeft' < StepsLeft]_vars
  BY StepsRunOut
<1> QED BY <1>1, <1>2, AgentCorrect, PTL DEF Spec
=============================================================================
