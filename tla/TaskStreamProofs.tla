-------------------------- MODULE TaskStreamProofs --------------------------
(* Theorems about TaskStream, for any number of prompts, tasks, tools and   *)
(* sends, any length of a text and any number of failing polls.             *)
EXTENDS TaskStream, TLAPS

Fields == {"pc", "prompt", "task", "errors", "status", "text", "answered", "tool"}
IsGenerator(g) == DOMAIN g = Fields /\ g.pc \in {"none", "posting", "polling", "over"}
IsView(v) == DOMAIN v = {"status", "error", "task", "of"}

\* Only the last stream is under way, and it has not seen its task end.  While it
\* is, the view is not cancelled; while it polls, the view names its task; and only
\* then is the view running.
StreamInv ==
  /\ sends \in 0..MaxSends /\ DOMAIN stream = Sends /\ IsView(view)
  /\ \A s \in Sends : IsGenerator(stream[s])
  /\ \A s \in Sends : ~Over(s) =>
       s = sends /\ view.status # "cancelled" /\ stream[s].status \notin Backend!Final
  /\ \A s \in Sends : stream[s].pc = "polling" => view.task = stream[s].task
  /\ view.status = "running" => sends \in Sends /\ stream[sends].pc = "polling"

-----------------------------------------------------------------------------
(* What the pieces of a step do to the fields the invariant is about *)

LEMMA GeneratorPc ==
  ASSUME NEW g, IsGenerator(g), NEW p \in {"none", "posting", "polling", "over"}
  PROVE  LET h == [g EXCEPT !.pc = p] IN
         IsGenerator(h) /\ h.pc = p /\ h.task = g.task /\ h.status = g.status
  BY DEF IsGenerator, Fields

LEMMA GeneratorSeen ==
  ASSUME NEW g, IsGenerator(g), NEW record
  PROVE  LET h == Seen(g, record) IN
         IsGenerator(h) /\ h.pc = g.pc /\ h.task = g.task /\ h.status = g.status
  BY DEF IsGenerator, Fields, Seen

LEMMA FailedFields ==
  ASSUME NEW v, IsView(v)
  PROVE  IsView(Failed(v)) /\ Failed(v).status = "failed" /\ Failed(v).task = v.task
  BY DEF IsView, Failed

LEMMA CompleteFields ==
  ASSUME NEW v, IsView(v)
  PROVE  /\ IsView(Complete(v)) /\ Complete(v).task = v.task
         /\ Complete(v).status \in {"failed", "completed", v.status}
         /\ v.status = "running" => Complete(v).status # "running"
<1>1. CASE \A t \in TaskIds : v.of[t].text = <<>>
  BY <1>1, FailedFields DEF Complete
<1>2. CASE ~ \A t \in TaskIds : v.of[t].text = <<>>
  BY <1>2 DEF Complete, IsView, Backend!Active
<1> QED BY <1>1, <1>2

LEMMA CancelledFields ==
  ASSUME NEW v, IsView(v)
  PROVE  IsView(Cancelled(v)) /\ Cancelled(v).status = "cancelled"
  BY DEF IsView, Cancelled

\* An abort ends every stream.
LEMMA AbortedOver ==
  ASSUME StreamInv
  PROVE  /\ DOMAIN Aborted = Sends
         /\ \A s \in Sends : IsGenerator(Aborted[s]) /\ Aborted[s].pc \in {"none", "over"}
  BY GeneratorPc DEF StreamInv, Aborted, Over

\* One stream ends with a view that is not running.
LEMMA EndsInv ==
  ASSUME StreamInv, NEW s \in Sends, ~Over(s), NEW v, IsView(v), v.status # "running",
         stream' = [stream EXCEPT ![s].pc = "over"], view' = v, UNCHANGED sends
  PROVE  StreamInv'
<1>1. DOMAIN stream' = Sends /\ \A r \in Sends \ {s} : stream'[r] = stream[r]
  BY DEF StreamInv
<1>2. IsGenerator(stream'[s]) /\ stream'[s].pc = "over"
  BY GeneratorPc DEF StreamInv
<1>3. \A r \in Sends : Over(r)'
  BY <1>1, <1>2 DEF StreamInv, Over
<1> QED BY <1>1, <1>2, <1>3 DEF StreamInv, Over, IsGenerator
-----------------------------------------------------------------------------
(* The actions *)

\* What the backend does is seen only when it is polled.
LEMMA BackendInv == ASSUME StreamInv, UNCHANGED <<stream, sends, view>> PROVE StreamInv'
  BY DEF StreamInv, Over

LEMMA SendInv == ASSUME StreamInv, NEW p \in Prompts, Send(p) PROVE StreamInv'
<1> DEFINE new == [Idle EXCEPT !.pc = "posting", !.prompt = p]
<1>1. sends' = sends + 1 /\ sends' \in Sends /\ MaxSends \in Nat
  BY StreamAssumption DEF Send, StreamInv, Sends, StreamAssumption
<1>2. IsGenerator(new) /\ new.pc = "posting" /\ new.status = "running"
  BY DEF Idle, IsGenerator, Fields
<1> HIDE DEF new
<1>3. /\ DOMAIN stream' = Sends /\ stream'[sends'] = new
      /\ \A s \in Sends \ {sends'} : IsGenerator(stream'[s]) /\ stream'[s].pc \in {"none", "over"}
  <2>1. stream' = [Aborted EXCEPT ![sends + 1] = new]
    BY DEF Send, new
  <2> QED BY <1>1, <2>1, AbortedOver
<1>4. IsView(view') /\ view'.status = "queued"
  BY DEF Send, IsView, StreamInv
<1>5. \A s \in Sends : s # sends' => Over(s)'
  BY <1>3 DEF Over
<1> QED BY <1>1, <1>2, <1>3, <1>4, <1>5, StreamAssumption
        DEF StreamInv, Over, Sends, Backend!Final, StreamAssumption

LEMMA AbortInv ==
  ASSUME StreamInv, stream' = Aborted, IsView(view'), view'.status # "running", UNCHANGED sends
  PROVE  StreamInv'
<1>1. \A s \in Sends : Over(s)' /\ IsGenerator(stream'[s]) /\ stream'[s].pc # "polling"
  BY AbortedOver DEF Over
<1> QED BY <1>1, AbortedOver DEF StreamInv

LEMMA CancelInv == ASSUME StreamInv, Cancel PROVE StreamInv'
<1>1. IsView(view') /\ view'.status = "cancelled"
  BY CancelledFields DEF Cancel, StreamInv
<1> QED BY <1>1, AbortInv DEF Cancel

LEMMA LeaveInv == ASSUME StreamInv, Leave PROVE StreamInv'
<1>1. IsView(view') /\ view'.status = "idle"
  BY DEF Leave, initialStreamState, IsView
<1> QED BY <1>1, AbortInv DEF Leave

LEMMA PostReplyInv == ASSUME StreamInv, NEW s \in Sends, PostReply(s) PROVE StreamInv'
<1>1. s = sends /\ stream[s].status \notin Backend!Final
  BY DEF PostReply, StreamInv, Over
<1>2. /\ DOMAIN stream' = Sends /\ \A r \in Sends \ {s} : stream'[r] = stream[r]
      /\ IsGenerator(stream'[s]) /\ stream'[s].pc = "polling"
      /\ stream'[s].task = wire[s].reply /\ stream'[s].status = stream[s].status
  BY DEF PostReply, StreamInv, IsGenerator, Fields
<1>3. IsView(view') /\ view'.task = wire[s].reply /\ view'.status = "running"
  BY DEF PostReply, StreamInv, IsView
<1>4. \A r \in Sends \ {s} : Over(r)' /\ stream'[r].pc # "polling"
  BY <1>1, <1>2 DEF StreamInv, Over
<1> QED BY <1>1, <1>2, <1>3, <1>4 DEF StreamInv, Over, PostReply

LEMMA PollInv == ASSUME StreamInv, NEW s \in Sends, Poll(s) PROVE StreamInv'
<1> DEFINE t == stream[s].task
           v == [view EXCEPT !.status = IF status[t] # stream[s].status THEN status[t] ELSE @,
                             !.of[t] = Shown(stream[s], @, made[t])]
           g == Seen(stream[s], made[t])
<1>1. /\ s = sends /\ ~Over(s) /\ stream[s].status \notin Backend!Final /\ IsView(view)
      /\ view.task = t /\ view.status # "cancelled" /\ IsGenerator(stream[s])
      /\ UNCHANGED sends
  BY DEF Poll, StreamInv, Over
<1>2. /\ IsView(v) /\ v.task = t
      /\ v.status = IF status[t] # stream[s].status THEN status[t] ELSE view.status
  BY <1>1 DEF IsView
<1>3. /\ IsGenerator(g) /\ g.pc = "polling" /\ g.task = t
  BY <1>1, GeneratorSeen DEF Poll
<1>4. /\ status[t] = "completed" => view' = Complete(v)
      /\ status[t] = "failed" => view' = Failed(v)
      /\ status[t] \notin {"completed", "failed"} => view' = v
  BY DEF Poll
<1>a. stream' = [stream EXCEPT ![s] =
        [g EXCEPT !.status = status[t],
                  !.pc = IF status[t] \in Backend!Final THEN "over" ELSE "polling"]]
  BY DEF Poll
<1> HIDE DEF v, g, t
<1>5. /\ DOMAIN stream' = Sends /\ \A r \in Sends \ {s} : stream'[r] = stream[r]
      /\ IsGenerator(stream'[s]) /\ stream'[s].task = t /\ stream'[s].status = status[t]
      /\ stream'[s].pc = IF status[t] \in Backend!Final THEN "over" ELSE "polling"
  BY <1>3, <1>a DEF StreamInv, IsGenerator, Fields
<1>6. \A r \in Sends \ {s} : Over(r)' /\ stream'[r].pc # "polling"
  BY <1>1, <1>5 DEF StreamInv, Over
<1>7. CASE status[t] = "completed"
  <2>1. IsView(view') /\ view'.status \in {"failed", "completed"}
    BY <1>1, <1>2, <1>4, <1>7, CompleteFields DEF Backend!Final
  <2> QED BY <1>1, <1>5, <1>6, <1>7, <2>1 DEF StreamInv, Over, Backend!Final
<1>8. CASE status[t] = "failed"
  <2>1. IsView(view') /\ view'.status = "failed"
    BY <1>2, <1>4, <1>8, FailedFields
  <2> QED BY <1>1, <1>5, <1>6, <1>8, <2>1 DEF StreamInv, Over, Backend!Final
<1>9. CASE status[t] = "cancelled"
  <2>1. view' = v /\ v.status = "cancelled"
    BY <1>1, <1>2, <1>4, <1>9 DEF Backend!Final
  <2> QED BY <1>1, <1>2, <1>5, <1>6, <1>9, <2>1 DEF StreamInv, Over, Backend!Final
<1>10. CASE status[t] \notin Backend!Final
  <2>1. view' = v /\ v.status # "cancelled"
    BY <1>1, <1>2, <1>4, <1>10 DEF Backend!Final
  <2> QED BY <1>1, <1>2, <1>5, <1>6, <1>10, <2>1 DEF StreamInv, Over
<1> QED BY <1>7, <1>8, <1>9, <1>10 DEF Backend!Final

LEMMA FollowInv == ASSUME StreamInv, NEW s \in Sends, Follow(s) PROVE StreamInv'
<1>1. IsView(Failed(view)) /\ Failed(view).status = "failed"
  BY FailedFields DEF StreamInv
<1>2. CASE PostFails(s)
  BY <1>1, <1>2, EndsInv DEF PostFails, Over
<1>3. CASE PollFails(s)
  <2>1. CASE Ends(s, Failed(view))
    BY <1>1, <1>3, <2>1, EndsInv DEF PollFails, Ends, Over
  <2>2. CASE stream' = [stream EXCEPT ![s].errors = @ + 1] /\ UNCHANGED <<sends, view>>
    <3>1. /\ DOMAIN stream' = Sends /\ \A r \in Sends \ {s} : stream'[r] = stream[r]
          /\ IsGenerator(stream'[s]) /\ stream'[s].pc = stream[s].pc
          /\ stream'[s].task = stream[s].task /\ stream'[s].status = stream[s].status
      BY <2>2 DEF StreamInv, IsGenerator, Fields
    <3> QED BY <2>2, <3>1 DEF StreamInv, Over
  <2> QED BY <1>3, <2>1, <2>2 DEF PollFails
<1> QED BY <1>2, <1>3, PostReplyInv, PollInv DEF Follow

-----------------------------------------------------------------------------
LEMMA InitInv == Init => StreamInv
<1> SUFFICES ASSUME Init PROVE StreamInv
  OBVIOUS
<1>1. IsView(view) /\ view.status = "idle"
  BY DEF Init, initialStreamState, IsView
<1>2. DOMAIN stream = Sends /\ \A s \in Sends : IsGenerator(stream[s]) /\ stream[s].pc = "none"
  BY DEF Init, Idle, IsGenerator, Fields
<1>3. sends \in 0..MaxSends
  BY StreamAssumption DEF Init, StreamAssumption
<1> QED BY <1>1, <1>2, <1>3 DEF StreamInv, Over

LEMMA NextInv == StreamInv /\ [Next]_vars => StreamInv'
<1> SUFFICES ASSUME StreamInv, [Next]_vars PROVE StreamInv'
  OBVIOUS
<1>1. CASE UNCHANGED vars
  BY <1>1, BackendInv DEF vars
<1>2. ASSUME NEW t \in TaskIds, Running(t) \/ Work(t) \/ ServeCancel(t) \/ Delete(t)
      PROVE  StreamInv'
  BY <1>2, BackendInv
     DEF Running, Work, ServeCancel, Delete, Begin, Greet, Finish, Token, Rethink, ToolStart,
         ToolEnd, Progress
<1>3. ASSUME NEW s \in Sends, ServePost(s) PROVE StreamInv'
  BY <1>3, BackendInv DEF ServePost
<1> QED BY <1>1, <1>2, <1>3, FollowInv, SendInv, CancelInv, LeaveInv DEF Next

LEMMA StreamAlways == Spec => []StreamInv
  BY InitInv, NextInv, PTL DEF Spec

\* The stop button never sends the identifier of an earlier task, however many
\* prompts have been sent (useTaskStream.ts:78).
THEOREM StopHitsOwnTaskAlways == Spec => []StopHitsOwnTask
<1>1. StreamInv => StopHitsOwnTask
  BY DEF StreamInv, StopHitsOwnTask
<1> QED BY <1>1, StreamAlways, PTL

\* A view that says "cancelled" says so until there is another prompt or page.
THEOREM CancelSticksAlways == Spec => CancelSticks
<1>1. StreamInv /\ [Next]_vars =>
        [view.status = "cancelled" =>
           view'.status = "cancelled" \/ sends' # sends \/ view' = initialStreamState]_vars
  <2> SUFFICES ASSUME StreamInv, Next, view.status = "cancelled"
               PROVE  view'.status = "cancelled" \/ sends' # sends \/ view' = initialStreamState
    OBVIOUS
  <2>1. CASE UNCHANGED view
    BY <2>1
  <2>2. ASSUME NEW s \in Sends, Follow(s) PROVE FALSE
    <3>1. ~Over(s)
      BY <2>2 DEF Follow, PostReply, PostFails, Poll, PollFails, Over
    <3> QED BY <3>1 DEF StreamInv
  <2>3. ASSUME NEW p \in Prompts, Send(p) PROVE sends' # sends
    BY <2>3 DEF Send, StreamInv
  <2>4. ASSUME NEW t \in TaskIds, Running(t) \/ Work(t) \/ ServeCancel(t) \/ Delete(t)
        PROVE  UNCHANGED view
    BY <2>4 DEF Running, Work, ServeCancel, Delete, Begin, Greet, Finish, Token, Rethink,
                ToolStart, ToolEnd, Progress
  <2>5. ASSUME NEW s \in Sends, ServePost(s) PROVE UNCHANGED view
    BY <2>5 DEF ServePost
  <2>6. ~Cancel
    BY DEF Cancel
  <2>7. CASE Leave
    BY <2>7 DEF Leave
  <2> QED BY <2>1, <2>2, <2>3, <2>4, <2>5, <2>6, <2>7 DEF Next
<1> QED BY <1>1, StreamAlways, PTL DEF Spec, CancelSticks
-----------------------------------------------------------------------------
(* What a completed view shows *)

Calls == [Tools -> {"none", "running", "ended"}]
IsRecord(r) == DOMAIN r = {"text", "answered", "tool"} /\ r.answered \in BOOLEAN /\ r.tool \in Calls

IsShown(o) == DOMAIN o = {"text", "pending", "tool"} /\ o.tool \in Calls

\* A record has its message when its task has ended, and then no call is running.
RecordsOK ==
  /\ DOMAIN made = TaskIds /\ status \in [TaskIds -> Backend!Status]
  /\ \A t \in TaskIds : IsRecord(made[t])
  /\ \A t \in TaskIds : made[t].answered => status[t] \in {"completed", "failed"}
  /\ \A t \in TaskIds : status[t] = "completed" =>
       made[t].answered /\ \A x \in Tools : made[t].tool[x] # "running"

\* The view shows no call that was not made; a stream that is under way has seen no
\* message yet, and the end of a call it has seen is shown.
ShownOK ==
  /\ DOMAIN view.of = TaskIds
  /\ \A t \in TaskIds : IsShown(view.of[t])
  /\ \A t \in TaskIds, x \in Tools : made[t].tool[x] = "none" => view.of[t].tool[x] = "none"
  /\ \A s \in Sends : ~Over(s) =>
       view.status # "completed" /\ ~stream[s].answered /\ stream[s].tool \in Calls
  /\ \A s \in Sends : stream[s].pc = "posting" => \A x \in Tools : stream[s].tool[x] = "none"
  /\ \A s \in Sends : stream[s].pc = "polling" =>
       /\ stream[s].task \in TaskIds
       /\ \A x \in Tools : stream[s].tool[x] = "ended" => view.of[stream[s].task].tool[x] = "ended"

\* A prompt that is on its way is one, and replies and records of prompts name tasks.
PromptsOK ==
  /\ last \in [Prompts -> TaskIds \cup {NoTask}]
  /\ wire \in [Sends -> [sent : BOOLEAN, reply : TaskIds \cup {NoTask}]]
  /\ \A s \in Sends : wire[s].sent => stream[s].prompt \in Prompts

\* The view says "completed" of a task, and shows it as it is.
Faithful ==
  view.status = "completed" =>
    LET t == view.task IN
    /\ t \in TaskIds /\ status[t] = "completed"
    /\ view.of[t] = [text |-> made[t].text, pending |-> FALSE, tool |-> made[t].tool]

FaithInv == RecordsOK /\ PromptsOK /\ ShownOK /\ Faithful

LEMMA PromptsSame == ASSUME FaithInv, UNCHANGED <<last, wire, stream>> PROVE PromptsOK'
  BY DEF FaithInv, PromptsOK

\* A record changes while its task is active, and calls are not forgotten.
LEMMA RecordStep ==
  ASSUME FaithInv, RecordsOK', PromptsOK', UNCHANGED <<stream, view>>,
         \A t \in TaskIds : status[t] = "completed" => status'[t] = status[t] /\ made'[t] = made[t],
         \A t \in TaskIds, x \in Tools : made'[t].tool[x] = "none" => made[t].tool[x] = "none"
  PROVE  FaithInv'
<1>1. ShownOK'
  BY DEF FaithInv, ShownOK, Over
<1>2. Faithful'
  BY DEF FaithInv, Faithful
<1> QED BY <1>1, <1>2 DEF FaithInv

\* One record is replaced by another while its task is active.
LEMMA Replaced ==
  ASSUME FaithInv, NEW t \in TaskIds, status[t] \in Backend!Active, NEW record,
         made' = [made EXCEPT ![t] = record], NEW next \in Backend!Status,
         status' = [status EXCEPT ![t] = next], IsRecord(record),
         record.answered => next \in {"completed", "failed"},
         next = "completed" => record.answered /\ \A x \in Tools : record.tool[x] # "running",
         \A x \in Tools : record.tool[x] = "none" => made[t].tool[x] = "none",
         PromptsOK', UNCHANGED <<stream, view>>
  PROVE  FaithInv'
<1>1. /\ made'[t] = record /\ status'[t] = next
      /\ \A u \in TaskIds \ {t} : made'[u] = made[u] /\ status'[u] = status[u]
  BY DEF FaithInv, RecordsOK
<1>2. RecordsOK'
  BY <1>1 DEF FaithInv, RecordsOK
<1>3. status[t] # "completed"
  BY DEF Backend!Active
<1> QED BY <1>1, <1>2, <1>3, RecordStep

LEMMA WorkFaith == ASSUME FaithInv, NEW t \in TaskIds, Work(t) PROVE FaithInv'
<1> DEFINE r == made[t]
<1>1. IsRecord(r) /\ status = [status EXCEPT ![t] = status[t]] /\ status[t] \in Backend!Status
  BY DEF FaithInv, RecordsOK
<1>2. ASSUME NEW record, Progress(t, record), IsRecord(record), ~record.answered,
             \A x \in Tools : record.tool[x] = "none" => made[t].tool[x] = "none"
      PROVE  FaithInv'
  BY <1>1, <1>2, Replaced, PromptsSame DEF Progress, Backend!Active
<1>3. ASSUME NEW record, Progress(t, record), DOMAIN record = DOMAIN r,
             record.answered = r.answered, record.tool \in Calls,
             \A x \in Tools : record.tool[x] = "none" => made[t].tool[x] = "none"
      PROVE  FaithInv'
  <2>1. ~r.answered
    BY <1>3 DEF Progress, FaithInv, RecordsOK
  <2> QED BY <1>1, <1>2, <1>3, <2>1 DEF IsRecord
<1>4. ASSUME NEW text, Progress(t, [r EXCEPT !.text = text]) PROVE FaithInv'
  BY <1>1, <1>3, <1>4 DEF IsRecord
<1>5. ASSUME NEW x \in Tools, NEW how \in {"running", "ended"},
             Progress(t, [r EXCEPT !.tool[x] = how])
      PROVE  FaithInv'
  <2> DEFINE record == [r EXCEPT !.tool[x] = how]
  <2>1. /\ DOMAIN record = DOMAIN r /\ record.answered = r.answered
        /\ record.tool = [r.tool EXCEPT ![x] = how]
    BY <1>1 DEF IsRecord
  <2>2. record.tool \in Calls /\ \A y \in Tools : record.tool[y] = "none" => r.tool[y] = "none"
    BY <1>1, <2>1 DEF IsRecord, Calls
  <2> QED BY <1>3, <1>5, <2>1, <2>2
<1>6. CASE Token(t)
  BY <1>4, <1>6 DEF Token
<1>7. CASE Rethink(t)
  BY <1>4, <1>7 DEF Rethink
<1>8. ASSUME NEW x \in Tools, ToolStart(t, x) \/ ToolEnd(t, x) PROVE FaithInv'
  BY <1>5, <1>8 DEF ToolStart, ToolEnd
<1> QED BY <1>6, <1>7, <1>8 DEF Work

\* A record that is answered has the end of every call.
LEMMA AnswerFaith ==
  ASSUME FaithInv, NEW t \in TaskIds, status[t] \in Backend!Active, NEW text, Answer(t, text),
         NEW next \in {"completed", "failed"}, status' = [status EXCEPT ![t] = next],
         PromptsOK', UNCHANGED <<stream, view>>
  PROVE  FaithInv'
<1> DEFINE calls == [x \in Tools |-> IF made[t].tool[x] = "none" THEN "none" ELSE "ended"]
           record == [text |-> text, answered |-> TRUE, tool |-> calls]
<1>1. made' = [made EXCEPT ![t] = record]
  BY DEF Answer, FaithInv, RecordsOK
<1>2. calls \in Calls
  BY DEF Calls
<1>3. IsRecord(record)
  BY <1>2 DEF IsRecord
<1>4. /\ record.answered /\ \A x \in Tools : record.tool[x] # "running"
      /\ \A x \in Tools : record.tool[x] = "none" => made[t].tool[x] = "none"
  OBVIOUS
<1>5. next \in Backend!Status
  BY DEF Backend!Status, Backend!Final
<1> HIDE DEF record, calls
<1> QED BY <1>1, <1>3, <1>4, <1>5, Replaced

\* Only the status changes, of a task that is not completed and will not be.
LEMMA StatusFaith ==
  ASSUME FaithInv, NEW t \in TaskIds, status[t] \in Backend!Active \cup {"absent"},
         NEW next \in Backend!Status \ {"completed"}, status' = [status EXCEPT ![t] = next],
         PromptsOK', UNCHANGED <<made, stream, view>>
  PROVE  FaithInv'
<1>1. ~made[t].answered
  BY DEF FaithInv, RecordsOK, Backend!Active
<1>2. RecordsOK'
  BY <1>1 DEF FaithInv, RecordsOK
<1>3. status[t] # "completed" /\ \A u \in TaskIds \ {t} : status'[u] = status[u]
  BY DEF FaithInv, RecordsOK, Backend!Active
<1> QED BY <1>2, <1>3, RecordStep

LEMMA RunningFaith == ASSUME FaithInv, NEW t \in TaskIds, Running(t) PROVE FaithInv'
<1>1. CASE Begin(t)
  BY <1>1, StatusFaith, PromptsSame DEF Begin, Backend!Begin, Backend!Move, Backend!Active, Backend!Status
<1>2. CASE Greet(t)
  <2>1. status[t] \in Backend!Active /\ status' = [status EXCEPT ![t] = "completed"]
    BY <1>2 DEF Greet, Backend!Greet, Backend!Move, Backend!Active
  <2> QED BY <1>2, <2>1, AnswerFaith, PromptsSame DEF Greet
<1>3. CASE Finish(t)
  <2>1. PICK next \in {"completed", "failed"} : status' = [status EXCEPT ![t] = next]
    BY <1>3 DEF Finish, Backend!Finish, Backend!Move
  <2>2. status[t] \in Backend!Active /\ PromptsOK' /\ UNCHANGED <<stream, view>>
    BY <1>3, PromptsSame DEF Finish, Backend!Finish, Backend!Move, Backend!Active
  <2>3. CASE Answer(t, <<"final">>)
    BY <2>1, <2>2, <2>3, AnswerFaith
  <2>4. CASE status'[t] = "failed" /\ UNCHANGED made
    <3>1. next = "failed"
      BY <2>1, <2>4 DEF FaithInv, RecordsOK
    <3> QED BY <2>1, <2>2, <2>4, <3>1, StatusFaith DEF Backend!Status, Backend!Final
  <2> QED BY <1>3, <2>3, <2>4 DEF Finish
<1> QED BY <1>1, <1>2, <1>3 DEF Running

LEMMA CancelledFaith == ASSUME FaithInv, NEW t \in TaskIds, ServeCancel(t) \/ Delete(t)
                        PROVE  FaithInv'
<1>1. CASE Backend!Cancel(t) /\ UNCHANGED <<made, last, wire, stream, view>>
  BY <1>1, StatusFaith, PromptsSame DEF Backend!Cancel, Backend!Move, Backend!Status, Backend!Final
<1>2. CASE UNCHANGED <<status, made, last, wire, stream, view>>
  BY <1>2, RecordStep, PromptsSame DEF FaithInv, RecordsOK
<1> QED BY <1>1, <1>2 DEF ServeCancel, Delete
LEMMA ServePostFaith == ASSUME FaithInv, NEW s \in Sends, ServePost(s) PROVE FaithInv'
<1> DEFINE p == stream[s].prompt
<1>1. p \in Prompts /\ last[p] \in TaskIds \cup {NoTask}
  BY DEF ServePost, FaithInv, PromptsOK
<1>2. CASE /\ wire' = [wire EXCEPT ![s] = [sent |-> FALSE, reply |-> last[p]]]
           /\ UNCHANGED <<status, last>>
  <2>1. PromptsOK'
    BY <1>1, <1>2 DEF ServePost, FaithInv, PromptsOK
  <2> QED BY <1>2, <2>1, RecordStep DEF ServePost, FaithInv, RecordsOK
<1>3. ASSUME NEW new \in TaskIds, Backend!Accept(new), last' = [last EXCEPT ![p] = new],
             wire' = [wire EXCEPT ![s] = [sent |-> FALSE, reply |-> new]]
      PROVE  FaithInv'
  <2>1. PromptsOK'
    BY <1>1, <1>3 DEF ServePost, FaithInv, PromptsOK
  <2>2. status[new] = "absent" /\ status' = [status EXCEPT ![new] = "queued"]
    BY <1>3 DEF Backend!Accept, Backend!Move
  <2> QED BY <2>1, <2>2, StatusFaith DEF ServePost, Backend!Status, Backend!Active, Backend!Final
<1> QED BY <1>2, <1>3 DEF ServePost

\* Streams end, and the view, which does not become a completed one, forgets no call
\* but what it forgets altogether.
LEMMA OverFaith ==
  ASSUME FaithInv, UNCHANGED <<status, made>>, PromptsOK', view'.status # "completed",
         DOMAIN view'.of = TaskIds, \A t \in TaskIds : IsShown(view'.of[t]),
         \A t \in TaskIds, x \in Tools : view.of[t].tool[x] = "none" => view'.of[t].tool[x] = "none",
         \A s \in Sends : Over(s)'
  PROVE  FaithInv'
<1>1. RecordsOK'
  BY DEF FaithInv, RecordsOK
<1>2. ShownOK'
  BY DEF FaithInv, ShownOK, Over
<1>3. Faithful'
  BY DEF Faithful
<1> QED BY <1>1, <1>2, <1>3 DEF FaithInv

LEMMA SettledShown ==
  ASSUME FaithInv, NEW t \in TaskIds
  PROVE  IsShown(Settled(view.of)[t]) /\ Settled(view.of)[t].tool = view.of[t].tool
<1>1. Settled(view.of)[t] = [view.of[t] EXCEPT !.pending = FALSE]
  BY DEF Settled
<1>2. IsShown(view.of[t])
  BY DEF FaithInv, ShownOK
<1> QED BY <1>1, <1>2 DEF IsShown

LEMMA FailedShown ==
  ASSUME FaithInv, IsView(view), NEW v, v = Failed(view)
  PROVE  /\ DOMAIN v.of = TaskIds
         /\ \A t \in TaskIds : IsShown(v.of[t]) /\ v.of[t].tool = view.of[t].tool
<1>1. v.of = Settled(view.of)
  BY DEF Failed, IsView
<1>2. DOMAIN v.of = TaskIds
  BY <1>1 DEF Settled
<1> QED BY <1>1, <1>2, SettledShown
\* After an abort each stream has the prompt it had.
LEMMA AbortedPrompts ==
  ASSUME StreamInv, NEW s \in Sends
  PROVE  Aborted[s].prompt = stream[s].prompt
  BY DEF StreamInv, Aborted, IsGenerator, Fields

LEMMA SendFaith == ASSUME StreamInv, FaithInv, NEW p \in Prompts, Send(p) PROVE FaithInv'
<1> DEFINE new == [Idle EXCEPT !.pc = "posting", !.prompt = p]
<1>1. sends + 1 \in Sends
  BY StreamAssumption DEF Send, StreamInv, Sends, StreamAssumption
<1>2. /\ new.pc = "posting" /\ new.prompt = p /\ ~new.answered
      /\ new.tool = [x \in Tools |-> "none"]
  BY DEF Idle
<1>3. new.tool \in Calls /\ \A x \in Tools : new.tool[x] = "none"
  BY <1>2 DEF Calls
<1> HIDE DEF new
<1>4. /\ stream'[sends + 1] = new
      /\ \A s \in Sends \ {sends + 1} :
           stream'[s].prompt = stream[s].prompt /\ stream'[s].pc \in {"none", "over"}
  <2>1. stream' = [Aborted EXCEPT ![sends + 1] = new]
    BY DEF Send, new
  <2> QED BY <1>1, <2>1, AbortedOver, AbortedPrompts
<1>5. view'.status = "queued" /\ view'.of = view.of
  BY DEF Send, StreamInv, IsView
<1>6. PromptsOK'
  <2>1. /\ wire'[sends + 1] = [wire[sends + 1] EXCEPT !.sent = TRUE]
        /\ \A s \in Sends \ {sends + 1} : wire'[s] = wire[s]
        /\ wire' \in [Sends -> [sent : BOOLEAN, reply : TaskIds \cup {NoTask}]]
    BY <1>1 DEF Send, FaithInv, PromptsOK
  <2> QED BY <1>1, <1>2, <1>4, <2>1 DEF Send, FaithInv, PromptsOK, backend
<1>7. RecordsOK'
  BY DEF FaithInv, RecordsOK, Send, backend
<1>8. Faithful'
  BY <1>5 DEF Faithful
<1>9. \A s \in Sends : ~Over(s)' => s = sends + 1
  BY <1>4 DEF Over
<1>10. ShownOK'
  <2>1. /\ DOMAIN view'.of = TaskIds /\ \A t \in TaskIds : IsShown(view'.of[t])
        /\ \A t \in TaskIds, x \in Tools : made'[t].tool[x] = "none" => view'.of[t].tool[x] = "none"
    BY <1>5 DEF Send, FaithInv, ShownOK, backend
  <2>2. \A s \in Sends : stream'[s].pc \in {"posting", "polling"} => s = sends + 1
    BY <1>4
  <2> QED BY <1>2, <1>3, <1>4, <1>5, <1>9, <2>1, <2>2 DEF ShownOK
<1> QED BY <1>6, <1>7, <1>8, <1>10 DEF FaithInv

LEMMA AbortFaith ==
  ASSUME StreamInv, FaithInv, stream' = Aborted, UNCHANGED <<backend, wire>>,
         view'.status # "completed", DOMAIN view'.of = TaskIds,
         \A t \in TaskIds : IsShown(view'.of[t]),
         \A t \in TaskIds, x \in Tools : view.of[t].tool[x] = "none" => view'.of[t].tool[x] = "none"
  PROVE  FaithInv'
<1>1. \A s \in Sends : Over(s)' /\ stream'[s].prompt = stream[s].prompt
  BY AbortedOver, AbortedPrompts DEF Over
<1>2. PromptsOK'
  BY <1>1 DEF FaithInv, PromptsOK, backend
<1> QED BY <1>1, <1>2, OverFaith DEF backend

LEMMA CancelFaith == ASSUME StreamInv, FaithInv, Cancel PROVE FaithInv'
<1>1. /\ view'.status = "cancelled"
      /\ view'.of = [t \in TaskIds |-> [Settled(view.of)[t] EXCEPT
             !.tool = [x \in Tools |-> IF @[x] = "running" THEN "ended" ELSE @[x]]]]
  BY DEF Cancel, Cancelled, StreamInv, IsView
<1>2. ASSUME NEW t \in TaskIds
      PROVE  /\ IsShown(view'.of[t])
             /\ \A x \in Tools : view.of[t].tool[x] = "none" => view'.of[t].tool[x] = "none"
  <2> DEFINE o == Settled(view.of)[t]
             calls == [x \in Tools |-> IF o.tool[x] = "running" THEN "ended" ELSE o.tool[x]]
  <2>1. IsShown(o) /\ o.tool = view.of[t].tool
    BY SettledShown
  <2>2. view'.of[t] = [o EXCEPT !.tool = calls]
    BY <1>1
  <2>3. calls \in Calls /\ \A x \in Tools : o.tool[x] = "none" => calls[x] = "none"
    BY <2>1 DEF Calls, IsShown
  <2> HIDE DEF o, calls
  <2> QED BY <2>1, <2>2, <2>3 DEF IsShown
<1> QED BY <1>1, <1>2, AbortFaith DEF Cancel

LEMMA LeaveFaith == ASSUME StreamInv, FaithInv, Leave PROVE FaithInv'
<1>1. view'.status = "idle" /\ view'.of = [t \in TaskIds |-> Blank]
  BY DEF Leave, initialStreamState
<1>2. Blank.tool = [x \in Tools |-> "none"] /\ DOMAIN Blank = {"text", "pending", "tool"}
  BY DEF Blank
<1>3. IsShown(Blank) /\ \A x \in Tools : Blank.tool[x] = "none"
  BY <1>2 DEF IsShown, Calls
<1> QED BY <1>1, <1>3, AbortFaith DEF Leave

LEMMA PostReplyFaith == ASSUME StreamInv, FaithInv, NEW s \in Sends, PostReply(s) PROVE FaithInv'
<1>1. /\ \A r \in Sends \ {s} : stream'[r] = stream[r]
      /\ stream'[s].pc = "polling" /\ stream'[s].task = wire[s].reply
      /\ stream'[s].prompt = stream[s].prompt /\ stream'[s].answered = stream[s].answered
      /\ stream'[s].tool = stream[s].tool
  BY DEF PostReply, StreamInv, IsGenerator, Fields
<1>2. view'.of = view.of /\ view'.status = "running"
  BY DEF PostReply, StreamInv, IsView
<1>3. PromptsOK'
  BY <1>1 DEF PostReply, FaithInv, PromptsOK, backend
<1>4. wire[s].reply \in TaskIds
  BY DEF PostReply, FaithInv, PromptsOK
<1>5. /\ stream[s].tool \in Calls /\ ~stream[s].answered
      /\ \A x \in Tools : stream[s].tool[x] = "none"
  BY DEF PostReply, FaithInv, ShownOK, Over
<1>6. \A r \in Sends \ {s} : Over(r)
  BY DEF PostReply, StreamInv, Over
<1>7. ShownOK'
  <2>1. /\ DOMAIN view'.of = TaskIds /\ \A t \in TaskIds : IsShown(view'.of[t])
        /\ \A t \in TaskIds, x \in Tools : made'[t].tool[x] = "none" => view'.of[t].tool[x] = "none"
    BY <1>2 DEF PostReply, FaithInv, ShownOK, backend
  <2>2. \A r \in Sends : stream'[r].pc \in {"posting", "polling"} => r = s
    BY <1>1, <1>6 DEF Over
  <2>3. \A r \in Sends : ~Over(r)' => r = s
    BY <1>1, <1>6 DEF Over
  <2> QED BY <1>1, <1>2, <1>4, <1>5, <2>1, <2>2, <2>3 DEF ShownOK
<1>8. RecordsOK' /\ Faithful'
  BY <1>2 DEF PostReply, FaithInv, RecordsOK, Faithful, backend
<1> QED BY <1>3, <1>7, <1>8 DEF FaithInv

LEMMA FailsFaith == ASSUME StreamInv, FaithInv, NEW s \in Sends, PostFails(s) \/ PollFails(s)
                    PROVE  FaithInv'
<1>1. CASE stream' = [stream EXCEPT ![s].pc = "over"] /\ view' = Failed(view)
  <2>1. view'.status = "failed" /\ IsView(view)
    BY <1>1, FailedFields DEF StreamInv
  <2>2. \A r \in Sends : Over(r)' /\ stream'[r].prompt = stream[r].prompt
    BY <1>1 DEF StreamInv, IsGenerator, Fields, Over, PostFails, PollFails
  <2>3. PromptsOK'
    BY <2>2 DEF PostFails, PollFails, Ends, FaithInv, PromptsOK, backend
  <2> QED BY <1>1, <2>1, <2>2, <2>3, FailedShown, OverFaith DEF PostFails, PollFails, Ends, backend
<1>2. CASE stream' = [stream EXCEPT ![s].errors = @ + 1] /\ UNCHANGED <<backend, wire, view>>
  <2>1. \A r \in Sends : /\ stream'[r].pc = stream[r].pc /\ stream'[r].task = stream[r].task
                         /\ stream'[r].prompt = stream[r].prompt
                         /\ stream'[r].answered = stream[r].answered
                         /\ stream'[r].tool = stream[r].tool
    BY <1>2 DEF StreamInv, IsGenerator, Fields
  <2>2. PromptsOK' /\ RecordsOK' /\ Faithful'
    BY <1>2, <2>1 DEF FaithInv, PromptsOK, RecordsOK, Faithful, backend
  <2>3. ShownOK'
    BY <1>2, <2>1 DEF FaithInv, ShownOK, Over, backend
  <2> QED BY <2>2, <2>3 DEF FaithInv
<1> QED BY <1>1, <1>2 DEF PostFails, PollFails, Ends

\* A snapshot is shown as a record of what is new in it and what was there.
IsSnapshot(o, g, t) ==
  /\ IsShown(o)
  /\ \A x \in Tools : \/ (ToolEvent(g, x, made[t].tool[x]) /\ o.tool[x] = made[t].tool[x])
                      \/ (~ToolEvent(g, x, made[t].tool[x]) /\ o.tool[x] = view.of[t].tool[x])
  /\ \A x \in Tools : made[t].tool[x] = "none" => o.tool[x] = "none"
  /\ made[t].answered => o = [text |-> made[t].text, pending |-> FALSE, tool |-> o.tool]

LEMMA SnapshotShown ==
  ASSUME FaithInv, NEW t \in TaskIds, NEW g, g.tool \in Calls, ~g.answered
  PROVE  IsSnapshot(Shown(g, view.of[t], made[t]), g, t)
<1> DEFINE o == Shown(g, view.of[t], made[t])
<1> DEFINE calls == [x \in Tools |-> IF ToolEvent(g, x, made[t].tool[x]) THEN made[t].tool[x]
                                     ELSE view.of[t].tool[x]]
<1>1. made[t].tool \in Calls /\ view.of[t].tool \in Calls
  BY DEF FaithInv, RecordsOK, ShownOK, IsRecord, IsShown
<1>2. calls \in Calls
  BY <1>1 DEF Calls
<1>3. DOMAIN o = {"text", "pending", "tool"} /\ o.tool = calls
  BY DEF Shown
<1>4. made[t].answered => o = [text |-> made[t].text, pending |-> FALSE, tool |-> o.tool]
  <2> SUFFICES ASSUME made[t].answered
               PROVE  o = [text |-> made[t].text, pending |-> FALSE, tool |-> o.tool]
    OBVIOUS
  <2>1. o.text = made[t].text /\ o.pending = FALSE
    BY DEF Shown
  <2>2. o = [text |-> o.text, pending |-> o.pending, tool |-> o.tool]
    BY DEF Shown
  <2> QED BY <2>1, <2>2
<1>5. \A x \in Tools : made[t].tool[x] = "none" => view.of[t].tool[x] = "none"
  BY DEF FaithInv, ShownOK
<1> HIDE DEF o
<1>6. \A x \in Tools : \/ (ToolEvent(g, x, made[t].tool[x]) /\ o.tool[x] = made[t].tool[x])
                        \/ (~ToolEvent(g, x, made[t].tool[x]) /\ o.tool[x] = view.of[t].tool[x])
  BY <1>3
<1> QED BY <1>2, <1>3, <1>4, <1>5, <1>6 DEF IsShown, IsSnapshot, o

\* Of a completed task, what is shown is what there is, as no call of it is running.
LEMMA CompletedShown ==
  ASSUME FaithInv, NEW s \in Sends, stream[s].pc = "polling", NEW t \in TaskIds,
         t = stream[s].task, status[t] = "completed", NEW o, o = Shown(stream[s], view.of[t], made[t])
  PROVE  o = [text |-> made[t].text, pending |-> FALSE, tool |-> made[t].tool]
<1>1. /\ stream[s].tool \in Calls /\ ~stream[s].answered
      /\ \A x \in Tools : stream[s].tool[x] = "ended" => view.of[t].tool[x] = "ended"
      /\ \A x \in Tools : made[t].tool[x] = "none" => view.of[t].tool[x] = "none"
  BY DEF FaithInv, ShownOK, Over
<1>2. made[t].answered /\ made[t].tool \in Calls /\ \A x \in Tools : made[t].tool[x] # "running"
  BY DEF FaithInv, RecordsOK, IsRecord
<1>3. IsSnapshot(o, stream[s], t)
  BY <1>1, SnapshotShown
<1>4. ASSUME NEW x \in Tools PROVE o.tool[x] = made[t].tool[x]
  <2>1. made[t].tool[x] \in {"none", "ended"}
    BY <1>2 DEF Calls
  <2>2. \/ (ToolEvent(stream[s], x, made[t].tool[x]) /\ o.tool[x] = made[t].tool[x])
        \/ (~ToolEvent(stream[s], x, made[t].tool[x]) /\ o.tool[x] = view.of[t].tool[x])
    BY <1>3 DEF IsSnapshot
  <2>3. CASE made[t].tool[x] = "none"
    BY <1>3, <2>3 DEF IsSnapshot
  <2>4. CASE made[t].tool[x] = "ended" /\ o.tool[x] # made[t].tool[x]
    BY <1>1, <2>2, <2>4 DEF ToolEvent
  <2> QED BY <2>1, <2>3, <2>4
<1>5. o.tool = made[t].tool
  <2> DEFINE p == o.tool
             q == made[t].tool
  <2>1. p \in Calls /\ q \in Calls /\ \A x \in Tools : p[x] = q[x]
    BY <1>2, <1>3, <1>4 DEF IsShown, IsSnapshot
  <2> HIDE DEF p, q
  <2>2. p = q
    BY <2>1 DEF Calls
  <2> QED BY <2>2 DEF p, q
<1>6. o = [text |-> made[t].text, pending |-> FALSE, tool |-> o.tool]
  BY <1>2, <1>3 DEF IsSnapshot
<1> QED BY <1>5, <1>6, Zenon

LEMMA SettledTool ==
  ASSUME NEW of, NEW t \in TaskIds, IsShown(of[t])
  PROVE  IsShown(Settled(of)[t]) /\ Settled(of)[t].tool = of[t].tool
<1>1. Settled(of)[t] = [of[t] EXCEPT !.pending = FALSE]
  BY DEF Settled
<1> QED BY <1>1 DEF IsShown

LEMMA SettledRecord ==
  ASSUME NEW a, NEW b, NEW c, NEW o, o = [text |-> a, pending |-> c, tool |-> b]
  PROVE  [o EXCEPT !.pending = c] = o
  OBVIOUS

LEMMA PollFaith == ASSUME StreamInv, FaithInv, NEW s \in Sends, Poll(s) PROVE FaithInv'
<1> DEFINE t == stream[s].task
           o == Shown(stream[s], view.of[t], made[t])
           v == [view EXCEPT !.status = IF status[t] # stream[s].status THEN status[t] ELSE @,
                             !.of[t] = Shown(stream[s], @, made[t])]
           g == Seen(stream[s], made[t])
<1>1. /\ stream[s].pc = "polling" /\ t \in TaskIds /\ IsGenerator(stream[s]) /\ IsView(view)
      /\ view.task = t /\ view.status # "completed"
      /\ ~stream[s].answered /\ stream[s].tool \in Calls
      /\ UNCHANGED <<backend, wire>>
  BY DEF Poll, StreamInv, FaithInv, ShownOK, Over
<1>2. \A r \in Sends \ {s} : Over(r)
  BY DEF Poll, StreamInv, Over
<1>3. /\ IsView(v) /\ v.task = t /\ v.of = [view.of EXCEPT ![t] = o]
      /\ v.status = IF status[t] # stream[s].status THEN status[t] ELSE view.status
  BY <1>1 DEF IsView
<1>4. /\ status[t] = "completed" => view' = Complete(v)
      /\ status[t] = "failed" => view' = Failed(v)
      /\ status[t] \notin {"completed", "failed"} => view' = v
  BY DEF Poll
<1>5. stream' = [stream EXCEPT ![s] =
        [g EXCEPT !.status = status[t],
                  !.pc = IF status[t] \in Backend!Final THEN "over" ELSE "polling"]]
  BY DEF Poll
<1>6. /\ DOMAIN g = Fields /\ g.task = t /\ g.prompt = stream[s].prompt
      /\ g.answered = (stream[s].answered \/ made[t].answered)
      /\ g.tool = [x \in Tools |-> IF ToolEvent(stream[s], x, made[t].tool[x])
                                   THEN made[t].tool[x] ELSE stream[s].tool[x]]
  BY <1>1 DEF Seen, IsGenerator, Fields
<1>7. IsSnapshot(o, stream[s], t)
  BY <1>1, SnapshotShown
<1>8. status[t] = "completed" => o = [text |-> made[t].text, pending |-> FALSE, tool |-> made[t].tool]
  BY <1>1, CompletedShown
<1> HIDE DEF g, v, o
<1>9. /\ \A r \in Sends \ {s} : stream'[r] = stream[r]
      /\ stream'[s].pc = IF status[t] \in Backend!Final THEN "over" ELSE "polling"
      /\ stream'[s].task = t /\ stream'[s].prompt = stream[s].prompt
      /\ stream'[s].answered = g.answered /\ stream'[s].tool = g.tool
  BY <1>5, <1>6 DEF StreamInv, Fields
<1> HIDE DEF t
<1>10. DOMAIN v.of = TaskIds /\ v.of[t] = o /\ \A u \in TaskIds \ {t} : v.of[u] = view.of[u]
  BY <1>1, <1>3 DEF FaithInv, ShownOK
<1>11. /\ \A u \in TaskIds : IsShown(v.of[u])
       /\ \A u \in TaskIds, x \in Tools : made[u].tool[x] = "none" => v.of[u].tool[x] = "none"
  BY <1>7, <1>10 DEF FaithInv, ShownOK, IsSnapshot
<1>12. /\ status[t] \in {"completed", "failed"} => view'.of = Settled(v.of)
       /\ status[t] \notin {"completed", "failed"} => view'.of = v.of
       /\ view'.task = t
       /\ status[t] # "completed" => view'.status # "completed"
  <2>1. Failed(v).of = Settled(v.of)
    BY <1>3 DEF Failed, IsView
  <2>2. Complete(v).of = Settled(v.of)
    BY <1>3, <2>1 DEF Complete, IsView
  <2> QED BY <1>1, <1>3, <1>4, <2>1, <2>2, FailedFields, CompleteFields
<1>13. /\ DOMAIN view'.of = TaskIds
       /\ \A u \in TaskIds : IsShown(view'.of[u]) /\ view'.of[u].tool = v.of[u].tool
  <2>1. DOMAIN Settled(v.of) = TaskIds
    BY DEF Settled
  <2>2. \A u \in TaskIds : IsShown(Settled(v.of)[u]) /\ Settled(v.of)[u].tool = v.of[u].tool
    BY <1>11, SettledTool
  <2> QED BY <1>10, <1>11, <1>12, <2>1, <2>2
<1>14. RecordsOK'
  BY <1>1 DEF FaithInv, RecordsOK, backend
<1>15. PromptsOK'
  BY <1>1, <1>9 DEF FaithInv, PromptsOK, backend
<1>16. ShownOK'
  <2>1. made' = made
    BY <1>1 DEF backend
  <2>2. \A r \in Sends : ~Over(r)' => r = s /\ status[t] \notin Backend!Final
    BY <1>2, <1>9 DEF Over
  <2>3. \A r \in Sends : stream'[r].pc = "polling" => r = s
    BY <1>2, <1>9 DEF Over
  <2>4. \A r \in Sends : stream'[r].pc # "posting"
    BY <1>2, <1>9 DEF Over
  <2>5. status[t] \notin Backend!Final =>
          view'.status # "completed" /\ ~stream'[s].answered /\ stream'[s].tool \in Calls
    <3>1. made[t].tool \in Calls /\ (made[t].answered => status[t] \in Backend!Final)
      BY <1>1 DEF FaithInv, RecordsOK, IsRecord, Backend!Final
    <3>2. g.tool \in Calls
      BY <1>1, <1>6, <3>1 DEF Calls
    <3> QED BY <1>1, <1>6, <1>9, <1>12, <3>1, <3>2 DEF Backend!Final
  <2>6. ASSUME NEW x \in Tools, stream'[s].tool[x] = "ended"
        PROVE  view'.of[t].tool[x] = "ended"
    <3>1. o.tool[x] = "ended"
      <4>1. \/ (ToolEvent(stream[s], x, made[t].tool[x]) /\ o.tool[x] = made[t].tool[x])
            \/ (~ToolEvent(stream[s], x, made[t].tool[x]) /\ o.tool[x] = view.of[t].tool[x])
        BY <1>7 DEF IsSnapshot
      <4>2. g.tool[x] = "ended"
        BY <1>9, <2>6
      <4>3. CASE ToolEvent(stream[s], x, made[t].tool[x])
        BY <1>6, <4>1, <4>2, <4>3
      <4>4. CASE ~ToolEvent(stream[s], x, made[t].tool[x])
        <5>1. stream[s].tool[x] = "ended"
          BY <1>6, <4>2, <4>4
        <5>2. view.of[t].tool[x] = "ended"
          BY <1>1, <5>1 DEF FaithInv, ShownOK, t
        <5> QED BY <4>1, <4>4, <5>2
      <4> QED BY <4>3, <4>4
    <3> QED BY <1>1, <1>10, <1>13, <3>1
  <2> QED BY <1>1, <1>9, <1>11, <1>13, <2>1, <2>2, <2>3, <2>4, <2>5, <2>6 DEF ShownOK
<1>17. Faithful'
  <2> SUFFICES ASSUME view'.status = "completed"
               PROVE  /\ view'.task \in TaskIds /\ status'[view'.task] = "completed"
                      /\ view'.of[view'.task] = [text |-> made'[view'.task].text, pending |-> FALSE,
                                                 tool |-> made'[view'.task].tool]
    BY DEF Faithful
  <2>1. status[t] = "completed" /\ view'.task = t /\ view'.of = Settled(v.of)
    BY <1>12
  <2>2. Settled(v.of)[t] = [o EXCEPT !.pending = FALSE]
    BY <1>1, <1>10 DEF Settled
  <2>3. o = [text |-> made[t].text, pending |-> FALSE, tool |-> made[t].tool]
    BY <1>8, <2>1
  <2>4. [o EXCEPT !.pending = FALSE] = o
    <3> DEFINE no == FALSE
    <3>1. o = [text |-> made[t].text, pending |-> no, tool |-> made[t].tool]
      BY <2>3
    <3> HIDE DEF no
    <3>2. [o EXCEPT !.pending = no] = o
      BY <3>1, SettledRecord
    <3> QED BY <3>2 DEF no
  <2>5. status' = status /\ made' = made
    BY <1>1 DEF backend
  <2> QED BY <1>1, <2>1, <2>2, <2>3, <2>4, <2>5, Zenon
<1> QED BY <1>14, <1>15, <1>16, <1>17 DEF FaithInv

-----------------------------------------------------------------------------
LEMMA FaithInit == Init => FaithInv
<1> SUFFICES ASSUME Init PROVE FaithInv
  OBVIOUS
<1> DEFINE none == [x \in Tools |-> "none"]
<1>1. none \in Calls /\ \A x \in Tools : none[x] = "none"
  BY DEF Calls
<1>2. IsRecord(Kept) /\ Kept.tool = none /\ ~Kept.answered
  BY <1>1 DEF IsRecord, Kept
<1>3. IsShown(Blank) /\ Blank.tool = none
  BY <1>1 DEF IsShown, Blank
<1>4. Idle.pc = "none" /\ ~Idle.answered /\ Idle.tool = none
  BY DEF Idle
<1>5. status = [t \in TaskIds |-> "absent"]
  BY DEF Init, Backend!Init
<1> HIDE DEF none
<1>6. RecordsOK
  BY <1>2, <1>5 DEF Init, RecordsOK, Backend!Status
<1>7. PromptsOK
  BY DEF Init, PromptsOK
<1>8. view.status = "idle" /\ \A t \in TaskIds : view.of[t] = Blank
  BY DEF Init, initialStreamState
<1>9. ShownOK
  <2>1. DOMAIN view.of = TaskIds
    BY DEF Init, initialStreamState
  <2> QED BY <1>1, <1>3, <1>4, <1>8, <2>1 DEF Init, ShownOK, Over
<1>10. Faithful
  BY <1>8 DEF Faithful
<1> QED BY <1>6, <1>7, <1>9, <1>10 DEF FaithInv

LEMMA FaithNext == StreamInv /\ FaithInv /\ [Next]_vars => FaithInv'
<1> SUFFICES ASSUME StreamInv, FaithInv, [Next]_vars PROVE FaithInv'
  OBVIOUS
<1>1. CASE UNCHANGED vars
  <2>1. RecordsOK' /\ PromptsOK'
    BY <1>1 DEF vars, FaithInv, RecordsOK, PromptsOK
  <2> QED BY <1>1, <2>1, RecordStep DEF vars
<1>2. ASSUME NEW t \in TaskIds, Running(t) \/ Work(t) \/ ServeCancel(t) \/ Delete(t)
      PROVE  FaithInv'
  BY <1>2, RunningFaith, WorkFaith, CancelledFaith
<1>3. ASSUME NEW s \in Sends, ServePost(s) \/ Follow(s) PROVE FaithInv'
  BY <1>3, ServePostFaith, PostReplyFaith, FailsFaith, PollFaith DEF Follow
<1> QED BY <1>1, <1>2, <1>3, SendFaith, CancelFaith, LeaveFaith DEF Next

\* A view that says "completed" shows the task as the backend has it, however its
\* text was cut up and whoever followed it before (pollingAdapter, streamReducer).
THEOREM CompletedIsFaithfulAlways == Spec => []CompletedIsFaithful
<1>1. FaithInv => CompletedIsFaithful
  BY DEF FaithInv, Faithful, CompletedIsFaithful
<1>2. Spec => [](StreamInv /\ FaithInv)
  <2>1. StreamInv /\ FaithInv /\ [Next]_vars => (StreamInv /\ FaithInv)'
    BY NextInv, FaithNext
  <2> QED BY InitInv, FaithInit, <2>1, PTL DEF Spec
<1> QED BY <1>1, <1>2, PTL
=============================================================================
