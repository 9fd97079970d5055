--------------------------- MODULE SandboxProofs ---------------------------
(* Theorems about Sandbox, for any number of executions and any time-outs,  *)
(* overheads and limits of the clean-up.                                    *)
EXTENDS Sandbox, TLAPS

\* How an execution can be over: refused, cancelled, answered by the container
\* or by docker, left by a lost CLI, or cleaned up after a time-out.
Outcome(e) ==
  \/ reply[e].kind \in {"denied", "rejected", "unavailable"}
     /\ cli[e] = "none" /\ container[e] = "none"
  \/ reply[e].kind = "cancelled"
  \/ /\ reply[e].kind = "result" /\ e \in runs
     /\ \/ /\ cli[e] = "ended" /\ container[e] \in Ended \ {"removed"}
           /\ reply[e] = Result(ExitCode(container[e]), Late(container[e]))
        \/ cli[e] = "ended" /\ container[e] = "none" /\ reply[e] = Result(125, FALSE)
        \/ cli[e] = "lost" /\ reply[e] = Result(1, FALSE)
        \/ cli[e] = "killed" /\ container[e] \notin Alive /\ reply[e] = Result(-1, TRUE)
        \/ cli[e] = "left" /\ reply[e] = Result(-1, TRUE)

\* Each await has the deadline of its kind, which has not passed.
Stage(e) ==
  /\ pc[e] = "idle" => /\ container[e] = "none" /\ cli[e] = "none"
                       /\ reply[e].kind = "none" /\ clock[e] = 0
  /\ pc[e] \in Awaits => reply[e].kind = "none" /\ clock[e] <= deadline[e]
  /\ pc[e] = "running" => cli[e] = "alive" /\ deadline[e] = limit[e]
  /\ pc[e] = "killing" => cli[e] = "killed" /\ deadline[e] = limit[e] + Overhead
  /\ pc[e] = "cleaning" =>
       cli[e] = "killed" /\ deadline[e] <= limit[e] + Overhead + CleanupTimeout
  /\ pc[e] = "over" => Outcome(e)

SandboxInv == TypeOK /\ \A e \in Executions : Stage(e)

\* Nothing about d changes.
Same(d) ==
  /\ pc'[d] = pc[d] /\ clock'[d] = clock[d] /\ deadline'[d] = deadline[d]
  /\ limit'[d] = limit[d] /\ cli'[d] = cli[d] /\ container'[d] = container[d]
  /\ reply'[d] = reply[d] /\ (d \in runs => d \in runs')

\* The fields an answer does not touch: of the right types, and e's alone change.
Rest(e) ==
  /\ cli' \in [Executions -> {"none", "alive", "ended", "lost", "killed", "left"}]
  /\ container' \in [Executions -> {"none"} \cup Alive \cup Ended]
  /\ \A d \in Executions \ {e} : cli'[d] = cli[d] /\ container'[d] = container[d]
  /\ UNCHANGED <<clock, deadline, limit, age>>

-----------------------------------------------------------------------------
LEMMA SameStage == ASSUME NEW d \in Executions, Stage(d), Same(d) PROVE Stage(d)'
  BY DEF Stage, Same, Outcome

LEMMA Constants ==
  /\ Overhead \in Nat /\ CleanupTimeout \in Nat /\ Grace \in Nat
  /\ MaxTimeout \in Nat /\ MaxTimeout > 0 /\ Second \in Nat /\ Second > 0
  /\ Requested \subseteq Int
  BY SandboxAssumption DEF SandboxAssumption, Config

LEMMA Failures ==
  ASSUME NEW why \in {"denied", "rejected", "unavailable", "cancelled"}
  PROVE  Failure(why).kind = why /\ Failure(why) \in Replies
<1>1. Failure(why).kind = why
  BY DEF Failure
<1>2. Failure(why) \in {Failure(w) : w \in {"denied", "rejected", "unavailable", "cancelled"}}
  OBVIOUS
<1> QED BY <1>1, <1>2 DEF Replies

LEMMA Results ==
  ASSUME NEW code \in {-1, 0, 1, 124, 125, 137}, NEW late \in BOOLEAN
  PROVE  Result(code, late).kind = "result" /\ Result(code, late) \in Replies
<1>1. Result(code, late).kind = "result"
  BY DEF Result
<1>2. Result(code, late) \in {Result(c, l) : c \in {-1, 0, 1, 124, 125, 137}, l \in BOOLEAN}
  OBVIOUS
<1> QED BY <1>1, <1>2 DEF Replies

LEMMA RequestInv == ASSUME SandboxInv, NEW e \in Executions, Request(e)
                    PROVE  TypeOK' /\ Stage(e)' /\ \A d \in Executions \ {e} : Same(d)
<1> USE DEF SandboxInv
<1>1. ASSUME NEW why \in {"denied", "rejected", "unavailable"}, pc[e] = "idle",
             Answer(e, Failure(why)), UNCHANGED <<clock, deadline, limit, cli, container, age>>
      PROVE  TypeOK' /\ Stage(e)' /\ \A d \in Executions \ {e} : Same(d)
  <2>1. Failure(why).kind = why /\ Failure(why) \in Replies
    BY Failures
  <2>2. TypeOK'
    BY <1>1, <2>1 DEF TypeOK, Answer
  <2>3. Stage(e)'
    BY <1>1, <2>1 DEF TypeOK, Stage, Answer, Outcome, Awaits
  <2>4. \A d \in Executions \ {e} : Same(d)
    BY <1>1, <2>1 DEF TypeOK, Same, Answer
  <2> QED BY <2>2, <2>3, <2>4
<1>2. ASSUME NEW t \in Requested, Launch(e, t)
      PROVE  TypeOK' /\ Stage(e)' /\ \A d \in Executions \ {e} : Same(d)
  <2>1. effective_timeout(t) \in 1..MaxTimeout
    BY <1>2, Constants DEF Launch, effective_timeout, Smaller
  <2>2. TypeOK'
    BY <1>2, <2>1 DEF TypeOK, Launch, Awaits
  <2>3. Stage(e)'
    BY <1>2, <2>1, Constants DEF TypeOK, Stage, Launch, Awaits
  <2>4. \A d \in Executions \ {e} : Same(d)
    BY <1>2 DEF TypeOK, Same, Launch
  <2> QED BY <2>2, <2>3, <2>4
<1> QED BY <1>1, <1>2 DEF Request, Deny, Reject, NoDocker

LEMMA DockerInv == ASSUME SandboxInv, NEW e \in Executions, Docker(e)
                   PROVE  TypeOK' /\ Stage(e)' /\ \A d \in Executions \ {e} : Same(d)
<1> USE DEF SandboxInv
<1>1. /\ \E how \in {"created", "running", "exit0", "exit1", "exit137", "crashed", "overran"} :
           container' = [container EXCEPT ![e] = how]
      /\ UNCHANGED <<pc, clock, deadline, limit, cli, age, reply, runs>>
      /\ \/ cli[e] = "alive" /\ container[e] \in {"none", "created"}
         \/ container[e] = "running" /\ container'[e] \notin Alive
  BY DEF TypeOK, Docker, Create, Start, ProgramEnds, Overrun, Alive
<1>2. TypeOK'
  BY <1>1 DEF TypeOK, Alive, Ended
<1>3. Stage(e)'
  BY <1>1 DEF TypeOK, Stage, Outcome, Alive, Ended, Awaits
<1>4. \A d \in Executions \ {e} : Same(d)
  BY <1>1 DEF TypeOK, Same
<1> QED BY <1>2, <1>3, <1>4

\* An answer ends the execution it is for, whatever becomes of the others' fields.
LEMMA AnswerInv ==
  ASSUME SandboxInv, NEW e \in Executions, NEW r \in Replies, Answer(e, r), Rest(e)
  PROVE  /\ TypeOK' /\ \A d \in Executions \ {e} : Same(d)
         /\ pc'[e] = "over" /\ reply'[e] = r
         /\ r.kind = "result" => e \in runs'
<1> USE DEF SandboxInv
<1>1. TypeOK'
  BY DEF TypeOK, Answer, Rest
<1>2. \A d \in Executions \ {e} : Same(d)
  BY DEF TypeOK, Same, Answer, Rest
<1> QED BY <1>1, <1>2 DEF TypeOK, Answer

\* The outcome of an execution that is answered is one the list has.
LEMMA AnsweredStage ==
  ASSUME SandboxInv, NEW e \in Executions, NEW r \in Replies, Answer(e, r), Rest(e), Outcome(e)'
  PROVE  TypeOK' /\ Stage(e)' /\ \A d \in Executions \ {e} : Same(d)
<1>1. TypeOK' /\ pc'[e] = "over" /\ \A d \in Executions \ {e} : Same(d)
  BY AnswerInv
<1>2. Stage(e)'
  BY <1>1 DEF Stage, Awaits
<1> QED BY <1>1, <1>2

LEMMA WaitingInv == ASSUME SandboxInv, NEW e \in Executions, Waiting(e)
                    PROVE  TypeOK' /\ Stage(e)' /\ \A d \in Executions \ {e} : Same(d)
<1>1. CASE Finish(e)
  <2> DEFINE how == container[e]
             r == Result(ExitCode(how), Late(how))
  <2>1. how \in Ended \ {"removed"}
    BY <1>1 DEF Finish
  <2>2. ExitCode(how) \in {0, 1, 124, 137} /\ Late(how) \in BOOLEAN
    BY <2>1 DEF Ended, ExitCode, Late, LineSaysLate
  <2>3. r \in Replies /\ r.kind = "result"
    BY <2>2, Results
  <2>4. Rest(e) /\ Answer(e, r) /\ cli'[e] = "ended" /\ container' = container
    BY <1>1 DEF Finish, SandboxInv, TypeOK, Rest
  <2> HIDE DEF r
  <2>5. reply'[e] = r /\ e \in runs'
    BY <2>3, <2>4, AnswerInv
  <2>6. Outcome(e)'
    BY <2>1, <2>3, <2>4, <2>5 DEF Outcome, r
  <2> QED BY <2>3, <2>4, <2>6, AnsweredStage
<1>2. CASE DaemonRefuses(e)
  <2> DEFINE r == Result(125, FALSE)
  <2>1. r \in Replies /\ r.kind = "result"
    BY Results
  <2>2. Rest(e) /\ Answer(e, r) /\ cli'[e] = "ended" /\ container'[e] = "none"
    BY <1>2 DEF DaemonRefuses, SandboxInv, TypeOK, Rest
  <2> HIDE DEF r
  <2>3. reply'[e] = r /\ e \in runs'
    BY <2>1, <2>2, AnswerInv
  <2>4. Outcome(e)'
    BY <2>1, <2>2, <2>3 DEF Outcome, r
  <2> QED BY <2>1, <2>2, <2>4, AnsweredStage
<1>3. CASE CliLost(e)
  <2> DEFINE r == Result(1, FALSE)
  <2>1. r \in Replies /\ r.kind = "result"
    BY Results
  <2>2. Rest(e) /\ Answer(e, r) /\ cli'[e] = "lost"
    BY <1>3 DEF CliLost, SandboxInv, TypeOK, Rest
  <2> HIDE DEF r
  <2>3. reply'[e] = r /\ e \in runs'
    BY <2>1, <2>2, AnswerInv
  <2>4. Outcome(e)'
    BY <2>1, <2>2, <2>3 DEF Outcome, r
  <2> QED BY <2>1, <2>2, <2>4, AnsweredStage
<1>4. CASE RunnerTimeout(e)
  <2>1. TypeOK'
    BY <1>4, Constants DEF SandboxInv, TypeOK, RunnerTimeout, Awaits
  <2>2. Stage(e)'
    BY <1>4, Constants DEF SandboxInv, TypeOK, Stage, RunnerTimeout, Awaits
  <2>3. \A d \in Executions \ {e} : Same(d)
    BY <1>4 DEF SandboxInv, TypeOK, Same, RunnerTimeout
  <2> QED BY <2>1, <2>2, <2>3
<1>5. CASE Killed(e)
  <2>1. TypeOK'
    BY <1>5, Constants DEF SandboxInv, TypeOK, Killed, Awaits
  <2>2. Stage(e)'
    BY <1>5, Constants DEF SandboxInv, TypeOK, Stage, Killed, Awaits
  <2>3. \A d \in Executions \ {e} : Same(d)
    BY <1>5 DEF SandboxInv, TypeOK, Same, Killed
  <2> QED BY <2>1, <2>2, <2>3
<1>6. CASE Remove(e)
  <2> DEFINE r == Result(-1, TRUE)
  <2>1. r \in Replies /\ r.kind = "result"
    BY Results
  <2>2. cli[e] = "killed"
    BY <1>6 DEF Remove, SandboxInv, Stage
  <2>3. Rest(e) /\ Answer(e, r) /\ cli'[e] = "killed" /\ container'[e] \notin Alive
    BY <1>6, <2>2 DEF Remove, SandboxInv, TypeOK, Rest, Alive, Ended
  <2> HIDE DEF r
  <2>4. reply'[e] = r /\ e \in runs'
    BY <2>1, <2>3, AnswerInv
  <2>5. Outcome(e)'
    BY <2>1, <2>3, <2>4 DEF Outcome, r
  <2> QED BY <2>1, <2>3, <2>5, AnsweredStage
<1>7. CASE GiveUp(e)
  <2> DEFINE r == Result(-1, TRUE)
  <2>1. r \in Replies /\ r.kind = "result"
    BY Results
  <2>2. Rest(e) /\ Answer(e, r) /\ cli'[e] = "left"
    BY <1>7 DEF GiveUp, SandboxInv, TypeOK, Rest
  <2> HIDE DEF r
  <2>3. reply'[e] = r /\ e \in runs'
    BY <2>1, <2>2, AnswerInv
  <2>4. Outcome(e)'
    BY <2>1, <2>2, <2>3 DEF Outcome, r
  <2> QED BY <2>1, <2>2, <2>4, AnsweredStage
<1> QED BY <1>1, <1>2, <1>3, <1>4, <1>5, <1>6, <1>7 DEF Waiting

LEMMA InterruptInv == ASSUME SandboxInv, NEW e \in Executions, Interrupt(e)
                      PROVE  TypeOK' /\ Stage(e)' /\ \A d \in Executions \ {e} : Same(d)
<1> DEFINE r == Failure("cancelled")
<1>1. r \in Replies /\ r.kind = "cancelled"
  BY Failures
<1>2. Rest(e) /\ Answer(e, r)
  BY DEF Interrupt, SandboxInv, TypeOK, Rest, Ended
<1> HIDE DEF r
<1>3. reply'[e] = r
  BY <1>1, <1>2, AnswerInv
<1>4. Outcome(e)'
  BY <1>1, <1>3 DEF Outcome
<1> QED BY <1>1, <1>2, <1>4, AnsweredStage

\* Time passes only while no timer is due.
LEMMA TickInv == ASSUME SandboxInv, Tick PROVE SandboxInv'
<1> USE DEF SandboxInv
<1>1. TypeOK'
  BY DEF TypeOK, Tick
<1>2. ASSUME NEW e \in Executions PROVE Stage(e)'
  <2>1. /\ clock'[e] = IF pc[e] \in Awaits THEN clock[e] + 1 ELSE clock[e]
        /\ pc[e] \in Awaits => ~(clock[e] >= deadline[e])
    BY DEF Tick, Due
  <2>2. clock[e] \in Nat /\ deadline[e] \in Nat
    BY DEF TypeOK
  <2>3. pc[e] \in Awaits => clock'[e] <= deadline[e]
    BY <2>1, <2>2
  <2>4. Outcome(e) => Outcome(e)'
    BY DEF Outcome, Tick
  <2> QED BY <2>1, <2>3, <2>4 DEF Stage, Tick, Awaits
<1> QED BY <1>1, <1>2

-----------------------------------------------------------------------------
LEMMA InitInv == Init => SandboxInv
<1> SUFFICES ASSUME Init PROVE SandboxInv
  OBVIOUS
<1>1. NoReply \in Replies /\ NoReply.kind = "none"
  BY DEF NoReply, Replies
<1>2. TypeOK
  BY <1>1, Constants DEF Init, TypeOK
<1>3. \A e \in Executions : Stage(e)
  BY <1>1 DEF Init, Stage, Awaits
<1> QED BY <1>2, <1>3 DEF SandboxInv

LEMMA NextInv == SandboxInv /\ [Next]_vars => SandboxInv'
<1> SUFFICES ASSUME SandboxInv, [Next]_vars PROVE SandboxInv'
  OBVIOUS
<1>1. ASSUME NEW e \in Executions,
             TypeOK' /\ Stage(e)' /\ \A d \in Executions \ {e} : Same(d)
      PROVE  SandboxInv'
  BY <1>1, SameStage DEF SandboxInv
<1>2. CASE UNCHANGED vars
  <2>1. \A e \in Executions : Same(e)
    BY <1>2 DEF vars, Same
  <2>2. TypeOK'
    BY <1>2 DEF vars, SandboxInv, TypeOK
  <2> QED BY <2>1, <2>2, SameStage DEF SandboxInv
<1>3. ASSUME NEW e \in Executions, Request(e) \/ Docker(e) \/ Waiting(e) \/ Interrupt(e)
      PROVE  SandboxInv'
  BY <1>1, <1>3, RequestInv, DockerInv, WaitingInv, InterruptInv
<1> QED BY <1>2, <1>3, TickInv DEF Next

LEMMA Listed ==
  ASSUME NEW code \in Int, NEW late \in BOOLEAN
  PROVE  ListedAs(Result(code, late)) =
           IF late THEN "timed_out" ELSE IF code = 0 THEN "succeeded" ELSE "failed"
<1>1. /\ Result(code, late).timed_out = late
      /\ Result(code, late).success = (code = 0 /\ ~late)
  BY DEF Result
<1> QED BY <1>1 DEF ListedAs

LEMMA ListedFailed == ASSUME NEW code \in Int \ {0} PROVE ListedAs(Result(code, FALSE)) = "failed"
<1>1. ~Result(code, FALSE).timed_out /\ ~Result(code, FALSE).success
  BY DEF Result
<1> QED BY <1>1 DEF ListedAs

LEMMA ListedLate == ASSUME NEW code PROVE ListedAs(Result(code, TRUE)) = "timed_out"
<1>1. Result(code, TRUE).timed_out
  BY DEF Result
<1> QED BY <1>1 DEF ListedAs

\* How the result of an execution is listed, by the way it ended.
LEMMA Honest ==
  ASSUME SandboxInv, NEW e \in Executions, reply[e].kind = "result"
  PROVE  /\ ListedAs(reply[e]) = "succeeded" <=> container[e] = "exit0" /\ cli[e] = "ended"
         /\ ListedAs(reply[e]) = "timed_out" <=> StoppedByLimit(e) \/ SelfKilled(e)
         /\ e \in runs
<1>1. pc[e] = "over" /\ Outcome(e)
  BY DEF SandboxInv, Stage, TypeOK, Awaits
<1>2. CASE /\ cli[e] = "ended" /\ container[e] \in Ended \ {"removed"}
           /\ reply[e] = Result(ExitCode(container[e]), Late(container[e])) /\ e \in runs
  <2> DEFINE how == container[e]
  <2>1. /\ how = "exit0" => ExitCode(how) = 0 /\ ~Late(how)
        /\ how = "exit1" => ExitCode(how) = 1 /\ ~Late(how)
        /\ how \in {"exit137", "crashed", "overran"} => Late(how)
        /\ Late(how) \in BOOLEAN /\ ExitCode(how) \in Int
    BY DEF ExitCode, Late, LineSaysLate
  <2>2. how \in {"exit0", "exit1", "exit137", "crashed", "overran"}
    BY <1>2 DEF Ended
  <2>3. ListedAs(reply[e]) =
          IF Late(how) THEN "timed_out" ELSE IF ExitCode(how) = 0 THEN "succeeded" ELSE "failed"
    BY <1>2, <2>1, Listed
  <2> HIDE DEF how
  <2> QED BY <1>2, <2>1, <2>2, <2>3 DEF how, StoppedByLimit, SelfKilled
<1>3. CASE cli[e] = "ended" /\ container[e] = "none" /\ reply[e] = Result(125, FALSE) /\ e \in runs
  <2>1. 125 \in Int \ {0}
    OBVIOUS
  <2>2. ListedAs(Result(125, FALSE)) = "failed"
    BY <2>1, ListedFailed
  <2> QED BY <1>3, <2>2 DEF StoppedByLimit, SelfKilled
<1>4. CASE cli[e] = "lost" /\ reply[e] = Result(1, FALSE) /\ e \in runs
  <2>1. 1 \in Int \ {0}
    OBVIOUS
  <2>2. ListedAs(Result(1, FALSE)) = "failed"
    BY <2>1, ListedFailed
  <2> QED BY <1>4, <2>2 DEF StoppedByLimit, SelfKilled
<1>5. CASE cli[e] \in {"killed", "left"} /\ reply[e] = Result(-1, TRUE) /\ e \in runs
  <2>1. ListedAs(Result(-1, TRUE)) = "timed_out"
    BY ListedLate
  <2> QED BY <1>5, <2>1 DEF StoppedByLimit, SelfKilled
<1> QED BY <1>1, <1>2, <1>3, <1>4, <1>5, Failures DEF Outcome

LEMMA SandboxAlways == Spec => []SandboxInv
  BY InitInv, NextInv, PTL DEF Spec

\* The types of everything an execution is made of.
THEOREM SandboxTypes == Spec => []TypeOK
<1>1. SandboxInv => TypeOK
  BY DEF SandboxInv
<1> QED BY <1>1, SandboxAlways, PTL

\* However its three limits race, a client is answered in the time promised
\* (execute, _force_cleanup).
THEOREM PromptAnswerAlways == Spec => []PromptAnswer
<1>1. SandboxInv => PromptAnswer
  BY Constants DEF SandboxInv, PromptAnswer, Stage, Awaits, TypeOK
<1> QED BY <1>1, SandboxAlways, PTL

\* A container outlives its execution only where the code has no means left, or
\* was cancelled (execute).
THEOREM NoSilentSurvivorAlways == Spec => []NoSilentSurvivor
<1>1. SandboxInv => NoSilentSurvivor
  BY DEF SandboxInv, NoSilentSurvivor, Stage, Outcome, Alive, Ended
<1> QED BY <1>1, SandboxAlways, PTL

\* A run is listed as succeeded exactly if its program exited with 0 within the
\* limits, and as timed out exactly if a limit stopped it or it ended with the
\* exit code of a kill (execute, _parse_container_output, list_code_runs).
THEOREM ResultIsHonestAlways == Spec => []ResultIsHonest
<1>1. SandboxInv => ResultIsHonest
  BY Honest DEF ResultIsHonest
<1> QED BY <1>1, SandboxAlways, PTL
=============================================================================
