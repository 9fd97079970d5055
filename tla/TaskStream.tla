----------------------------- MODULE TaskStream -----------------------------
(***************************************************************************)
(* One page of the client that sends prompts and follows their tasks:      *)
(* useTaskStream, which starts and aborts streams and hands their events   *)
(* to the streamReducer, and the polling adapter, which posts a prompt and *)
(* then asks for the task until it is final.                               *)
(*                                                                         *)
(* The backend is the abstract life cycle, which TaskStore implements,     *)
(* with what a record holds besides: a text that grows, or is replaced     *)
(* when a thought turns out to have ended, the tool events, and at the end *)
(* a message.                                                              *)
(*                                                                         *)
(* Between two awaits the client runs alone: a snapshot is turned into     *)
(* events and the events into a view in one step.  A reply that comes      *)
(* late is a poll that was made earlier, as only an abort can happen       *)
(* between the two, and an aborted request has no reply.                   *)
(***************************************************************************)
EXTENDS Naturals, Sequences, FiniteSets

CONSTANTS
  Prompts,                \* prompts with their attachments: dedup signatures
  Bare,                   \* each prompt without its attachments
  TaskIds,                \* identifiers of tasks
  Tools,                  \* call identifiers of a task
  NoTask,                 \* no task
  MaxSends,               \* prompts sent from the page
  MaxText,                \* tokens in a streamed text
  MAX_CONSECUTIVE_ERRORS  \* failing polls in a row that end a stream

ASSUME StreamAssumption ==
  /\ NoTask \notin TaskIds
  /\ Bare \in [Prompts -> Prompts]
  /\ MaxSends \in Nat /\ MaxText \in Nat
  /\ MAX_CONSECUTIVE_ERRORS \in Nat \ {0}

VARIABLES
  status,   \* rec.status of each task
  made,     \* the streamed text of each task, its message, its tool events
  last,     \* the task last submitted for each prompt
  told,     \* tasks with POST /tasks/{id}/cancel under way
  wire,     \* the POST of each stream: on its way, and the task in its reply
  stream,   \* the generators of the polling adapter, one for each send
  sends,    \* prompts sent so far; the last stream is the one not aborted
  view      \* the StreamState

backend == <<status, made, last>>
vars == <<status, made, last, told, wire, stream, sends, view>>

Backend == INSTANCE TaskLifecycle

Sends  == 1..MaxSends
Kept   == [text |-> <<>>, answered |-> FALSE, tool |-> [x \in Tools |-> "none"]]
Idle   == [pc |-> "none", prompt |-> NoTask, task |-> NoTask, errors |-> 0, status |-> "running",
           text |-> 0, answered |-> FALSE, tool |-> [x \in Tools |-> "none"]]

\* initialStreamState
Blank  == [text |-> <<>>, pending |-> FALSE, tool |-> [x \in Tools |-> "none"]]
initialStreamState ==
  [status |-> "idle", error |-> FALSE, task |-> NoTask, of |-> [t \in TaskIds |-> Blank]]

Init ==
  /\ Backend!Init
  /\ made = [t \in TaskIds |-> Kept]
  /\ last = [p \in Prompts |-> NoTask]
  /\ told = {}
  /\ wire = [s \in Sends |-> [sent |-> FALSE, reply |-> NoTask]]
  /\ stream = [s \in Sends |-> Idle]
  /\ sends = 0
  /\ view = initialStreamState
-----------------------------------------------------------------------------
(* The backend: TaskStore, as far as a client sees it. *)

Progress(t, record) ==
  /\ status[t] = "running" /\ record # made[t]
  /\ made' = [made EXCEPT ![t] = record]
  /\ UNCHANGED <<status, last, told, wire, stream, sends, view>>

Begin(t) ==
  /\ Backend!Begin(t)
  /\ UNCHANGED <<made, last, told, wire, stream, sends, view>>

\* "token": the text so far and one more, or the text that follows a thought.
Token(t) ==
  /\ Len(made[t].text) < MaxText
  /\ Progress(t, [made[t] EXCEPT !.text = Append(@, "word")])

Rethink(t) ==
  /\ "answer" \notin {made[t].text[i] : i \in DOMAIN made[t].text}
  /\ Progress(t, [made[t] EXCEPT !.text = <<"answer">>])

\* "tool_start", "tool_end"
ToolStart(t, x) ==
  /\ made[t].tool[x] = "none" /\ Progress(t, [made[t] EXCEPT !.tool[x] = "running"])
ToolEnd(t, x) ==
  /\ made[t].tool[x] = "running" /\ Progress(t, [made[t] EXCEPT !.tool[x] = "ended"])

\* A final record has the messages of its result: the answer, when there is one,
\* in place of the streamed text, and every call, with its end.
Answer(t, text) ==
  made' = [made EXCEPT ![t] = [text |-> text, answered |-> TRUE,
             tool |-> [x \in Tools |-> IF @.tool[x] = "none" THEN "none" ELSE "ended"]]]

\* A result with an answer completes a task, or fails it; a task that raises an
\* exception, or ends without a text, is left as it was.
Finish(t) ==
  /\ Backend!Finish(t)
  /\ \/ Answer(t, <<"final">>)
     \/ status'[t] = "failed" /\ UNCHANGED made
  /\ UNCHANGED <<last, told, wire, stream, sends, view>>

Greet(t) ==
  /\ Backend!Greet(t)
  /\ Answer(t, <<"final">>)
  /\ UNCHANGED <<last, told, wire, stream, sends, view>>

\* submit_task: a prompt whose task is active, or was submitted a moment ago, is
\* answered with that task.  The request may be one its stream no longer awaits.
ServePost(s) ==
  /\ wire[s].sent
  /\ LET p == stream[s].prompt
         t == last[p] IN
     \/ /\ t # NoTask
        /\ wire' = [wire EXCEPT ![s] = [sent |-> FALSE, reply |-> t]]
        /\ UNCHANGED <<status, last>>
     \/ /\ t \notin {u \in TaskIds : status[u] \in Backend!Active}
        /\ \E new \in TaskIds :
             /\ Backend!Accept(new)
             /\ last' = [last EXCEPT ![p] = new]
             /\ wire' = [wire EXCEPT ![s] = [sent |-> FALSE, reply |-> new]]
  /\ UNCHANGED <<made, told, stream, sends, view>>

\* A request to cancel arrives, and cancels what is not final, or is lost.
ServeCancel(t) ==
  /\ t \in told
  /\ told' = told \ {t}
  /\ \/ Backend!Cancel(t)
     \/ UNCHANGED status
  /\ UNCHANGED <<made, last, wire, stream, sends, view>>
-----------------------------------------------------------------------------
(* The view: streamReducer *)

Settled(of) == [t \in TaskIds |-> [of[t] EXCEPT !.pending = FALSE]]

\* "error": what was received stays; only a new page forgets that there was one.
Failed(v) == [v EXCEPT !.status = "failed", !.error = TRUE, !.of = Settled(@)]

\* "done": without any answer in the view that is an error, too.
Complete(v) ==
  IF \A t \in TaskIds : v.of[t].text = <<>> THEN Failed(v)
  ELSE [v EXCEPT !.of = Settled(@),
                 !.status = IF @ \in Backend!Active THEN "completed" ELSE @]

\* "cancelled": running tools are shown as stopped.
Cancelled(v) ==
  [v EXCEPT !.status = "cancelled",
            !.of = [t \in TaskIds |-> [Settled(v.of)[t] EXCEPT
                      !.tool = [x \in Tools |-> IF @[x] = "running" THEN "ended" ELSE @[x]]]]]
-----------------------------------------------------------------------------
(* The page: useTaskStream and the composer *)

Over(s) == stream[s].pc \in {"none", "over"}

\* Abort rejects the request or the pause under way, and the generator returns.
Aborted == [s \in Sends |-> IF Over(s) THEN stream[s] ELSE [stream[s] EXCEPT !.pc = "over"]]

\* retry sends the last prompt again, but not the files that were attached to it.
RetryPrompt == Bare[stream[sends].prompt]

\* The composer is locked while the view says "running".  The retry button is
\* there whenever there was an error.
MaySend(p) ==
  \/ view.status # "running"
  \/ view.error /\ p = RetryPrompt

\* Variant: the view shows the prompt as running at once.
SendAsRunning(p) ==
  /\ sends < MaxSends /\ MaySend(p)
  /\ sends' = sends + 1
  /\ stream' = [Aborted EXCEPT ![sends + 1] = [Idle EXCEPT !.pc = "posting", !.prompt = p]]
  /\ wire' = [wire EXCEPT ![sends + 1].sent = TRUE]
  /\ view' = [view EXCEPT !.status = "running"]
  /\ UNCHANGED <<backend, told>>

\* run: aborts the stream before, whose task goes on; the first event of the new
\* one is "queued", and its request is on its way.
Send(p) ==
  /\ sends < MaxSends /\ MaySend(p)
  /\ sends' = sends + 1
  /\ stream' = [Aborted EXCEPT ![sends + 1] = [Idle EXCEPT !.pc = "posting", !.prompt = p]]
  /\ wire' = [wire EXCEPT ![sends + 1].sent = TRUE]
  /\ view' = [view EXCEPT !.status = "queued"]
  /\ UNCHANGED <<backend, told>>

\* Variant: cancel tells the backend and lets the stream find out.
CancelRemotely ==
  /\ view.status = "running"
  /\ told' = told \cup ({view.task} \ {NoTask})
  /\ view' = Cancelled(view)
  /\ UNCHANGED <<backend, wire, stream, sends>>

\* The stop button is there while the view says "running".
Cancel ==
  /\ view.status = "running"
  /\ stream' = Aborted
  /\ told' = told \cup ({view.task} \ {NoTask})
  /\ view' = Cancelled(view)
  /\ UNCHANGED <<backend, wire, sends>>

\* deleteConversation, in the side bar: the task is cancelled, the page stays.
Delete(t) ==
  /\ Backend!Cancel(t)
  /\ UNCHANGED <<made, last, told, wire, stream, sends, view>>

\* Another page is opened, and this one is empty when it is opened again.
Leave ==
  /\ view # initialStreamState
  /\ stream' = Aborted
  /\ view' = initialStreamState
  /\ UNCHANGED <<backend, told, wire, sends>>
-----------------------------------------------------------------------------
(* The polling adapter *)

Ends(s, v) ==
  /\ stream' = [stream EXCEPT ![s].pc = "over"]
  /\ view' = v
  /\ UNCHANGED <<backend, told, wire, sends>>

\* "task-id", then "running".
PostReply(s) ==
  /\ stream[s].pc = "posting" /\ wire[s].reply # NoTask
  /\ stream' = [stream EXCEPT ![s].pc = "polling", ![s].task = wire[s].reply]
  /\ view' = [view EXCEPT !.task = wire[s].reply, !.status = "running"]
  /\ UNCHANGED <<backend, told, wire, sends>>

\* Refused, or lost on the way there or back.
PostFails(s) ==
  /\ stream[s].pc = "posting"
  /\ wire' = [wire EXCEPT ![s].sent = FALSE]
  /\ stream' = [stream EXCEPT ![s].pc = "over"]
  /\ view' = Failed(view)
  /\ UNCHANGED <<backend, told, sends>>

\* A tool of the snapshot is an event when it is new, and when it has ended.
ToolEvent(g, x, now) ==
  \/ now # "none" /\ g.tool[x] = "none"
  \/ now = "ended" /\ g.tool[x] # "ended"

\* A pending text is an event when it is longer than the last one, and the event
\* is what exceeds it; a message is one event, once.
Shown(g, shown, record) ==
  LET text == IF record.answered
              THEN IF g.answered THEN shown.text ELSE record.text
              ELSE shown.text \o SubSeq(record.text, g.text + 1, Len(record.text))
  IN  [text |-> text,
       pending |-> IF record.answered THEN shown.pending /\ g.answered
                   ELSE shown.pending \/ Len(record.text) > g.text,
       tool |-> [x \in Tools |-> IF ToolEvent(g, x, record.tool[x]) THEN record.tool[x]
                                 ELSE shown.tool[x]]]

\* Variant: a message that was shown while it came is not shown again.
SeenOnceShown(g, record) ==
  [g EXCEPT !.errors = 0,
            !.answered = @ \/ record.answered \/ record.text # <<>>,
            !.text = IF record.answered \/ Len(record.text) <= @ THEN @ ELSE Len(record.text),
            !.tool = [x \in Tools |-> IF ToolEvent(g, x, record.tool[x]) THEN record.tool[x]
                                      ELSE @[x]]]

\* What the generator remembers of a snapshot.
Seen(g, record) ==
  [g EXCEPT !.errors = 0,
            !.answered = @ \/ record.answered,
            !.text = IF record.answered \/ Len(record.text) <= @ THEN @ ELSE Len(record.text),
            !.tool = [x \in Tools |-> IF ToolEvent(g, x, record.tool[x]) THEN record.tool[x]
                                      ELSE @[x]]]

\* A snapshot of the task: a new status, the events of its tools and its message,
\* and the end of the stream with the end of the task.
Poll(s) ==
  /\ stream[s].pc = "polling"
  /\ LET t == stream[s].task
         v == [view EXCEPT !.status = IF status[t] # stream[s].status THEN status[t] ELSE @,
                           !.of[t] = Shown(stream[s], @, made[t])]
     IN  /\ view' = CASE status[t] = "completed" -> Complete(v)
                      [] status[t] = "failed" -> Failed(v)
                      [] OTHER -> v
         /\ stream' = [stream EXCEPT ![s] =
              [Seen(@, made[t]) EXCEPT
                 !.status = status[t],
                 !.pc = IF status[t] \in Backend!Final THEN "over" ELSE "polling"]]
  /\ UNCHANGED <<backend, told, wire, sends>>

\* Variant: the count starts again, and the stream goes on.
PollFailsPatiently(s) ==
  /\ stream[s].pc = "polling"
  /\ stream' = [stream EXCEPT ![s].errors = (@ + 1) % MAX_CONSECUTIVE_ERRORS]
  /\ UNCHANGED <<backend, told, wire, sends, view>>

\* A poll that fails is made again after a pause, until one too many have failed.
PollFails(s) ==
  /\ stream[s].pc = "polling"
  /\ IF stream[s].errors + 1 >= MAX_CONSECUTIVE_ERRORS
     THEN Ends(s, Failed(view))
     ELSE /\ stream' = [stream EXCEPT ![s].errors = @ + 1]
          /\ UNCHANGED <<backend, told, wire, sends, view>>
-----------------------------------------------------------------------------
Running(t) == Begin(t) \/ Greet(t) \/ Finish(t)
Work(t)    == Token(t) \/ Rethink(t) \/ \E x \in Tools : ToolStart(t, x) \/ ToolEnd(t, x)
Follow(s)  == PostReply(s) \/ PostFails(s) \/ Poll(s) \/ PollFails(s)

Next ==
  \/ \E t \in TaskIds : Running(t) \/ Work(t) \/ ServeCancel(t) \/ Delete(t)
  \/ \E s \in Sends : ServePost(s) \/ Follow(s)
  \/ \E p \in Prompts : Send(p)
  \/ Cancel \/ Leave

Spec == Init /\ [][Next]_vars

\* Each request of a stream is answered or fails, after which the generator goes
\* on.  The backend owes nothing.
LiveSpec == Spec /\ \A s \in Sends : WF_vars(Follow(s))
-----------------------------------------------------------------------------
(* Properties *)

TypeOK ==
  /\ status \in [TaskIds -> Backend!Status]
  /\ told \subseteq TaskIds
  /\ \A s \in Sends : stream[s].errors < MAX_CONSECUTIVE_ERRORS
  /\ \A s \in Sends : s > sends => stream[s].pc = "none"

\* A view that says "completed" shows the task it names as the backend has it: its
\* message, once and final, and the end of every call, though streamed text was cut
\* up by length (pollingAdapter.ts:144), its beginning may have been replaced, and
\* the same task may have been followed before, by a stream that was given up.
CompletedIsFaithful ==
  view.status = "completed" =>
    LET t == view.task IN
    /\ status[t] = "completed"
    /\ view.of[t] = [text |-> made[t].text, pending |-> FALSE, tool |-> made[t].tool]

\* Whenever the stop button is there, the identifier it would send (useTaskStream.ts:
\* 78) is that of the task the last prompt is being followed with, not of an earlier
\* one, which stays in the state.
StopHitsOwnTask ==
  view.status = "running" =>
    /\ stream[sends].pc = "polling"
    /\ view.task = stream[sends].task

\* Once cancelled, a view stays cancelled, whatever is under way, until the user
\* sends a prompt or opens another page.
CancelSticks ==
  [][view.status = "cancelled" =>
       view'.status = "cancelled" \/ sends' # sends \/ view' = initialStreamState]_vars

\* A stream that has work of its own to do: to send its prompt, or to find out
\* that its task is final, by whatever way it became so.
Owing(s) ==
  \/ stream[s].pc = "posting"
  \/ stream[s].pc = "polling" /\ status[stream[s].task] \in Backend!Final

\* Every stream comes to an end (pollingAdapter.ts:97), however answers and failures
\* of its requests alternate: it goes on for ever only if its task is active for
\* ever, which by TaskStore!EveryTaskSettles means that an agent never returns.
StreamEnds == \A s \in Sends : []<>~Owing(s)

\* "don't let the first poll drag it back" (pollingAdapter.ts:72): a view that says
\* "running" does not say "queued" again unless another prompt is sent.
NotDraggedBack ==
  [][view.status = "running" /\ view'.status = "queued" => sends' # sends]_vars
=============================================================================
