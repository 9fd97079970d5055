------------------------------- MODULE Models -------------------------------
(***************************************************************************)
(* The way to a model and back.  Agents choose a model with the router and *)
(* get an answer through the gateway: a stream, a plain generation when    *)
(* the stream gave nothing, another one when it gave only thoughts.  The   *)
(* model service answers polls of the provider's health from a cache, and  *)
(* the vision endpoints hand an uploaded image to a model.  Below them are *)
(* the two HTTP clients, one of them with a pool of connections, and the   *)
(* Ollama server, which is external: it may be down, refuse, break off,    *)
(* answer anything, or never answer.                                       *)
(*                                                                         *)
(* A chunk of text is <<the call it came with, its kind>>: plain text, or  *)
(* one of the two tags around a model's thoughts.  Messages, options,      *)
(* pictures and the words of an answer are left out.                       *)
(***************************************************************************)
EXTENDS ModelRouting

CONSTANTS
  Agents,      \* tasks that want an answer
  Pollers,     \* clients that ask for /models/status, again and again
  Viewers,     \* requests to /vision/ocr and /vision/analyze
  Askers,      \* other callers of the router
  Requests,    \* what those ask it for
  Setups,      \* who is there, and what config/models.yaml says
  Installed,   \* the models the server has
  Replies,     \* what a plain generation may contain
  MaxChunks,   \* chunks of text in a stream
  PoolSize,    \* max_connections
  TTL,         \* _HEALTH_TTL_SECONDS
  MaxTime      \* where the clock of the model stops

Everyone == Agents \cup Pollers \cup Viewers \cup Askers

\* The kinds of text: plain, and the tags before and after a model's thoughts.
Kinds == {"text", "open", "close"}

ASSUME ModelsAssumption ==
  /\ \A s \in Setups : s.cast \subseteq Everyone
  \* No two of them share a client, and no caller is of two kinds.
  /\ Agents \cap (Pollers \cup Viewers \cup Askers) = {}
  /\ Pollers \cap (Viewers \cup Askers) = {} /\ Viewers \cap Askers = {}
  \* What models.yaml lists: names that are not empty, and sets of capabilities.
  /\ \A s \in Setups : s.file = <<>> \/ Entries(s.file[1])
  /\ \A reply \in Replies : reply.content \in Seq(Kinds) /\ reply.thinking \in BOOLEAN
  /\ {PoolSize, MaxChunks} \subseteq Nat \ {0} /\ {TTL, MaxTime} \subseteq Nat

VARIABLES
  cast,      \* who is there
  registry,  \* the loaded models
  up,        \* whether the server listens
  now,       \* the clock
  net,       \* the HTTP request each caller has under way
  agent,     \* the answer each agent is getting
  poll,      \* what each poller is doing, and was told
  view,      \* what each vision request has come to
  choice,    \* what the router told each asker
  cache      \* ModelService._health_cache

vars == <<cast, registry, up, now, net, agent, poll, view, choice, cache>>

\* What a caller's request is, while it has one.
Kind(c) ==
  CASE c \in Pollers -> "get"
    [] c \in Viewers -> "vision"
    [] c \in Agents /\ agent[c].pc = "streaming" -> "stream"
    [] OTHER -> "post"

\* Variant: the vision providers pass their optional argument on, as _post does.
TimedStreams(c) == Kind(c) = "stream"

\* _get and _post hand timeout=None to the client, which switches its own limits
\* off; a stream keeps them, and the vision providers pass theirs.
Timed(c) == Kind(c) \in {"stream", "vision"}

\* The asynchronous client is one for all; every vision request makes its own.
Pool == {c \in cast \ Viewers : net[c] = "sent"}
SlotFor(c) == c \in Viewers \/ Cardinality(Pool) < PoolSize

NoAnswer == [pc |-> "idle", type |-> "chat", mode |-> "direct", model |-> None,
             content |-> <<>>, thinking |-> FALSE, shown |-> <<>>, status |-> "none"]
NotAsked == [pc |-> "idle", asked |-> 0, seen |-> 0, stored |-> 0, at |-> 0, state |-> "none"]
NoCache  == [until |-> -1, asked |-> 0, seen |-> 0, stored |-> 0, state |-> "none"]

Init ==
  /\ \E s \in Setups : cast = s.cast /\ registry = load_default_registry(s.file)
  /\ up = TRUE /\ now = 0
  /\ net = [c \in Everyone |-> "none"]
  /\ agent = [a \in Agents |-> NoAnswer]
  /\ poll = [p \in Pollers |-> NotAsked]
  /\ view = [v \in Viewers |-> [pc |-> "idle", status |-> 0]]
  /\ choice = [k \in Askers |-> [pc |-> "idle", request |-> Plain("chat"), model |-> None]]
  /\ cache = NoCache
-----------------------------------------------------------------------------
(* The server and the connection, both external. *)

Flip ==
  /\ up' = ~up
  /\ UNCHANGED <<cast, registry, now, net, agent, poll, view, choice, cache>>

Tick ==
  /\ now < MaxTime
  /\ now' = now + 1
  /\ UNCHANGED <<cast, registry, up, net, agent, poll, view, choice, cache>>

Connect(c) ==
  /\ net[c] = "queued" /\ SlotFor(c) /\ up
  /\ net' = [net EXCEPT ![c] = "sent"]
  /\ UNCHANGED <<cast, registry, up, now, agent, poll, view, choice, cache>>

\* Whether a stream has begun, after which there is no status any more.
Begun(c) == Kind(c) = "stream" /\ (agent[c].content # <<>> \/ agent[c].thinking)

TimeLimits(c) ==
  IF ~Timed(c) THEN {}
  ELSE IF net[c] = "sent" THEN {"read timeout"}
  ELSE IF net[c] = "queued" THEN IF SlotFor(c) THEN {"connect timeout"} ELSE {"pool timeout"}
  ELSE {}

\* What can come to a request, other than an answer or nothing.
Faults(c) ==
  TimeLimits(c) \cup
  CASE net[c] = "queued" -> IF SlotFor(c) /\ ~up THEN {"refused"} ELSE {}
    [] net[c] = "sent" ->
         {"broken", "odd JSON"} \cup
         (IF Begun(c) THEN {} ELSE {"404", "500", "400"}) \cup
         (IF Kind(c) = "stream" THEN {"error line"} ELSE {"no JSON"})
    [] OTHER -> {}

\* The exceptions of core.llm.errors they become; "alien" is none of them.
Raised(kind, fault) ==
  CASE fault = "refused" -> "unavailable"
    [] fault = "connect timeout" -> IF kind = "stream" THEN "timeout" ELSE "unavailable"
    [] fault = "read timeout" -> "timeout"
    [] fault = "pool timeout" -> IF kind = "stream" THEN "timeout" ELSE "error"
    [] fault \in {"broken", "500", "error line"} -> "error"
    [] fault = "404" -> IF kind = "get" THEN "bad response" ELSE "no model"
    [] fault \in {"400", "no JSON"} -> "bad response"
    [] fault = "odd JSON" -> "alien"
-----------------------------------------------------------------------------
(* The answer of an agent *)

Calling == {"streaming", "generating", "recovering"}

\* An agent goes on to its next call, or is done with them.
Settle(a, record) ==
  /\ agent' = [agent EXCEPT ![a] = record]
  /\ net' = [net EXCEPT ![a] = IF record.pc \in Calling THEN "queued" ELSE "none"]
  /\ UNCHANGED <<cast, registry, up, now, poll, view, choice, cache>>

Done(a, status, content) ==
  [agent[a] EXCEPT !.pc = "done", !.status = status, !.content = content, !.thinking = FALSE]

\* No registry, no router; no model, no answer.
Start(a) ==
  /\ agent[a].pc = "idle"
  /\ \E type \in TaskTypes, mode \in {"direct", "synthesis"} :
       LET model == RouteOrChat(registry.models, type) IN
       IF Routable(registry) /\ model # None
       THEN Settle(a, [agent[a] EXCEPT !.pc = "streaming", !.type = type,
                                       !.mode = mode, !.model = model])
       ELSE Settle(a, [Done(a, "error", <<>>) EXCEPT !.type = type])

Has(content, kind) == \E i \in DOMAIN content : content[i][2] = kind
First(content, kind) ==
  CHOOSE i \in DOMAIN content :
    content[i][2] = kind /\ \A j \in 1..(i - 1) : content[j][2] # kind
AfterClose(content) == SubSeq(content, First(content, "close") + 1, Len(content))

\* The text without its thoughts.  A direct answer drops thoughts without an end;
\* the synthesis only looks for them where there is an end.
Clean(mode, content) ==
  IF Has(content, "close") THEN AfterClose(content)
  ELSE IF Has(content, "open") /\ mode = "direct" THEN <<>>
  ELSE content

\* Whether there are thoughts between the tags, or in place of an answer.
Thought(content) ==
  /\ Has(content, "open")
  /\ LET i == First(content, "open") IN
     \/ i < Len(content) /\ content[i + 1][2] # "close"
     \/ ~Has(content, "close") /\ Len(content) > 1

\* Variant: the text is shown as it was received.
EmittedRaw(shown, content) ==
  IF Has(content, "close")
  THEN IF AfterClose(content) # <<>> THEN content ELSE shown
  ELSE IF Has(content, "open") THEN shown ELSE content

\* What the "token" event shows, after each chunk: the accumulated text.
Emitted(shown, content) ==
  IF Has(content, "close")
  THEN IF AfterClose(content) # <<>> THEN AfterClose(content) ELSE shown
  ELSE IF Has(content, "open") THEN shown ELSE content

\* The stream or its fallback is over: a text that has only thoughts in it asks
\* for the answer once more, and a task without an answer fails.
Conclude(a, content, thinking) ==
  LET answer == Clean(agent[a].mode, content) IN
  IF answer = <<>> /\ agent[a].mode = "direct" /\ (thinking \/ Thought(content))
  THEN Settle(a, [agent[a] EXCEPT !.pc = "recovering", !.content = <<>>, !.thinking = TRUE])
  ELSE Settle(a, Done(a, IF answer = <<>> THEN "failed" ELSE "complete", answer))

\* The server sends a chunk; the model must be there.
Receives(a) ==
  /\ agent[a].pc = "streaming" /\ net[a] = "sent" /\ agent[a].model \in Installed

Chunk(a) ==
  /\ Receives(a) /\ Len(agent[a].content) < MaxChunks
  /\ \E kind \in Kinds :
       LET content == Append(agent[a].content, <<"stream", kind>>) IN
       agent' = [agent EXCEPT ![a].content = content,
                              ![a].shown = Emitted(agent[a].shown, content)]
  /\ UNCHANGED <<cast, registry, up, now, net, poll, view, choice, cache>>

Think(a) ==
  /\ Receives(a)
  /\ agent' = [agent EXCEPT ![a].thinking = TRUE]
  /\ UNCHANGED <<cast, registry, up, now, net, poll, view, choice, cache>>

\* The connection ends in good order; nobody looks for the chunk marked done.
StreamEnds(a) ==
  /\ Receives(a)
  /\ Conclude(a, agent[a].content, agent[a].thinking)

\* Variant: the request is made again however far the stream had come.
StreamFailsAnyway(a) ==
  /\ agent[a].pc = "streaming" /\ Faults(a) # {}
  /\ Settle(a, [agent[a] EXCEPT !.pc = "generating"])

\* After a break the text there is counts as the answer; without any, the same
\* request is made again, not streamed.
StreamFails(a) ==
  /\ agent[a].pc = "streaming" /\ Faults(a) # {}
  /\ IF agent[a].content = <<>>
     THEN Settle(a, [agent[a] EXCEPT !.pc = "generating"])
     ELSE Conclude(a, agent[a].content, agent[a].thinking)

Answered(a, pc) ==
  /\ agent[a].pc = pc /\ net[a] = "sent" /\ agent[a].model \in Installed

\* A generation without a text hands out the model's thoughts as one.
Generated(reply) ==
  IF reply.content # <<>> THEN [i \in DOMAIN reply.content |-> <<"generate", reply.content[i]>>]
  ELSE IF reply.thinking THEN << <<"generate", "text">> >>
  ELSE <<>>

Generate(a) ==
  /\ Answered(a, "generating")
  /\ \E reply \in Replies :
       Conclude(a, agent[a].content \o Generated(reply), agent[a].thinking \/ reply.thinking)

GenerateFails(a) ==
  /\ agent[a].pc = "generating" /\ Faults(a) # {}
  /\ Settle(a, Done(a, "error", <<>>))

\* What was recovered is shown; else the end of the thoughts is.
Recover(a, content) ==
  LET answer == IF content = <<>> THEN << <<"thoughts", "text">> >> ELSE content IN
  Settle(a, [Done(a, "complete", answer) EXCEPT !.shown = answer])

Recovered(a) ==
  /\ Answered(a, "recovering")
  /\ \E reply \in Replies :
       LET content == Generated(reply) IN
       Recover(a, IF Has(content, "close") THEN AfterClose(content) ELSE content)

RecoverFails(a) ==
  /\ agent[a].pc = "recovering" /\ Faults(a) # {}
  /\ Recover(a, <<>>)
-----------------------------------------------------------------------------
(* The health of the provider *)

Tell(p, health) ==
  poll' = [poll EXCEPT ![p] = [pc |-> "told", asked |-> health.asked, seen |-> health.seen,
                               stored |-> health.stored, at |-> now, state |-> health.state]]

\* Variant: what is in the cache is good for ever.
is_staleNever(c) == c.until < 0

is_stale(c) == now > c.until

\* get_status: from the cache, or by a request of one's own.
PollCached(p) ==
  /\ poll[p].pc # "asking"
  /\ ~is_stale(cache)
  /\ Tell(p, cache)
  /\ UNCHANGED <<cast, registry, up, now, net, agent, view, choice, cache>>

PollAsks(p) ==
  /\ poll[p].pc # "asking"
  /\ is_stale(cache)
  /\ poll' = [poll EXCEPT ![p] = [NotAsked EXCEPT !.pc = "asking", !.asked = now]]
  /\ net' = [net EXCEPT ![p] = "queued"]
  /\ UNCHANGED <<cast, registry, up, now, agent, view, choice, cache>>

\* The server answers, and the answer is under way.
HealthServed(p) ==
  /\ net[p] = "sent" /\ poll[p].pc = "asking"
  /\ net' = [net EXCEPT ![p] = "answered"]
  /\ poll' = [poll EXCEPT ![p].seen = now, ![p].state = "reachable"]
  /\ UNCHANGED <<cast, registry, up, now, agent, view, choice, cache>>

\* Whatever the answer, it replaces the one in the cache and lives as long.
Store(p, seen, state) ==
  LET health == [until |-> now + TTL, asked |-> poll[p].asked, seen |-> seen,
                 stored |-> now, state |-> state] IN
  /\ cache' = health
  /\ Tell(p, health)
  /\ net' = [net EXCEPT ![p] = "none"]
  /\ UNCHANGED <<cast, registry, up, now, agent, view, choice>>

HealthArrives(p) ==
  /\ net[p] = "answered"
  /\ Store(p, poll[p].seen, poll[p].state)

\* health() turns the errors it knows into an answer; another one is a 500.
HealthFails(p) ==
  /\ \E fault \in Faults(p) :
       /\ Raised("get", fault) # "alien"
       /\ Store(p, now, Raised("get", fault))

HealthBreaks(p) ==
  /\ \E fault \in Faults(p) : Raised("get", fault) = "alien"
  /\ poll' = [poll EXCEPT ![p] = [NotAsked EXCEPT !.pc = "told", !.asked = now, !.seen = now,
                                                  !.stored = now, !.at = now, !.state = "500"]]
  /\ net' = [net EXCEPT ![p] = "none"]
  /\ UNCHANGED <<cast, registry, up, now, agent, view, choice, cache>>
-----------------------------------------------------------------------------
(* The vision endpoints *)

Reply(v, status) ==
  /\ view' = [view EXCEPT ![v] = [pc |-> "done", status |-> status]]
  /\ net' = [net EXCEPT ![v] = "none"]
  /\ UNCHANGED <<cast, registry, up, now, agent, poll, choice, cache>>

\* A name outside the workspace is refused; else the body is awaited.
View(v) ==
  /\ view[v].pc = "idle"
  /\ \/ Reply(v, 400)
     \/ /\ view' = [view EXCEPT ![v].pc = "body"]
        /\ UNCHANGED <<cast, registry, up, now, net, agent, poll, choice, cache>>

\* ImageLoader.load: no file, too large, empty or no image; the tool answers 500.
Unloadable == {500}

\* The policy of writing, the write, the policy of the tool, the image: 403 and
\* 500 for what does not work, and with the image the model is asked, in a thread.
BodyRead(v) ==
  /\ view[v].pc = "body"
  /\ \/ \E status \in {403} \cup Unloadable : Reply(v, status)
     \/ /\ view' = [view EXCEPT ![v].pc = "asking"]
        /\ net' = [net EXCEPT ![v] = "queued"]
        /\ UNCHANGED <<cast, registry, up, now, agent, poll, choice, cache>>

\* Ollama reports no confidence and no page number, and the response models of
\* the endpoints have no place for their absence: a ValidationError, hence a 500.
Described(v) ==
  /\ net[v] = "sent"
  /\ Reply(v, 500)

VisionFails(v) ==
  /\ Faults(v) # {}
  /\ Reply(v, 500)
-----------------------------------------------------------------------------
(* Other callers of the router *)

Ask(k) ==
  /\ choice[k].pc = "idle" /\ Routable(registry)
  /\ \E request \in Requests :
       choice' = [choice EXCEPT ![k] = [pc |-> "told", request |-> request,
                                        model |-> route(registry.models, request)]]
  /\ UNCHANGED <<cast, registry, up, now, net, agent, poll, view, cache>>
-----------------------------------------------------------------------------
AgentStep(a) ==
  \/ Start(a) \/ Chunk(a) \/ Think(a) \/ StreamEnds(a) \/ StreamFails(a)
  \/ Generate(a) \/ GenerateFails(a) \/ Recovered(a) \/ RecoverFails(a)
PollStep(p) ==
  \/ PollCached(p) \/ PollAsks(p) \/ HealthServed(p) \/ HealthArrives(p)
  \/ HealthFails(p) \/ HealthBreaks(p)
ViewStep(v) == View(v) \/ BodyRead(v) \/ Described(v) \/ VisionFails(v)

Next ==
  \/ Flip \/ Tick
  \/ \E c \in cast : Connect(c)
  \/ \E a \in Agents \cap cast : AgentStep(a)
  \/ \E p \in Pollers \cap cast : PollStep(p)
  \/ \E v \in Viewers \cap cast : ViewStep(v)
  \/ \E k \in Askers \cap cast : Ask(k)

Spec == Init /\ [][Next]_vars

\* A limit on a request passes while it is under way.
TimesOut(c) ==
  /\ TimeLimits(c) # {}
  /\ \/ c \in Agents /\ StreamFails(c)
     \/ c \in Viewers /\ VisionFails(c)

\* A request is sent when it can be, a refused one fails, an answer that is under
\* way arrives, limits pass, and the handlers run.  The server owes nothing.
Fairness ==
  /\ \A c \in Everyone : WF_vars(c \in cast /\ Connect(c))
  /\ \A c \in Agents \cup Viewers : WF_vars(c \in cast /\ TimesOut(c))
  /\ \A a \in Agents : WF_vars(a \in cast /\ Start(a))
  /\ \A p \in Pollers : WF_vars(p \in cast /\ HealthArrives(p))
  /\ \A v \in Viewers : WF_vars(v \in cast /\ (View(v) \/ BodyRead(v)))

LiveSpec == Spec /\ Fairness
-----------------------------------------------------------------------------
(* Properties *)

TypeOK ==
  /\ cast \subseteq Everyone /\ up \in BOOLEAN /\ now \in 0..MaxTime
  /\ \A c \in Everyone : net[c] \in {"none", "queued", "sent", "answered"}
  /\ Cardinality(Pool) <= PoolSize

\* The router's choice is right for every order in which the models were
\* registered, with names that were registered twice, preferences and exclusions:
\* no request is given a model that lacks what it asks for (router.py, "No silent
\* downgrades"), and a model is refused only where there is none.  An agent does
\* downgrade: its model is the right one for its task, or, only if no model can do
\* such a task, the right one for a chat (agent.py:809-817).
RoutesRight ==
  /\ \A k \in Askers :
       choice[k].pc = "told" =>
         RightChoice(registry.models, choice[k].request, choice[k].model)
  /\ \A a \in Agents :
       agent[a].pc # "idle" => RightForTask(registry.models, agent[a].type, agent[a].model)

Within(shown, content) ==
  \E i \in 0..(Len(content) - Len(shown)) : SubSeq(content, i + 1, i + Len(shown)) = shown

\* The answer a task completes with comes from one call of the model, never from a
\* broken stream and its repetition, and what was shown while it came is in it:
\* the events and the final message clean the text at different places (agent.py:391
\* and 429), and the client shows first the one and then the other.
AnswerAsShown ==
  \A a \in Agents :
    agent[a].status = "complete" =>
      /\ agent[a].content # <<>>
      /\ \A i, j \in DOMAIN agent[a].content : agent[a].content[i][1] = agent[a].content[j][1]
      /\ Within(agent[a].shown, agent[a].content)

\* A status comes from a request that was made for a poll, was seen by it while it
\* was under way, and is told at most TTL after it came (model_service.py:80-88),
\* whichever of several requests at the same time was the last to write the cache.
StatusRecent ==
  \A p \in Pollers :
    poll[p].pc = "told" =>
      /\ poll[p].asked <= poll[p].seen /\ poll[p].seen <= poll[p].stored
      /\ poll[p].stored <= poll[p].at /\ poll[p].at <= poll[p].stored + TTL

\* A vision request is answered, whatever the server does (ollama_vision.py:212).
VisionEnds ==
  \A v \in Viewers : (v \in cast) ~> (view[v].pc = "done")

\* A poll of the status is answered: "HTTP request timeout in seconds for Ollama
\* calls" (config.py:135).
StatusAnswered ==
  \A p \in Pollers : (poll[p].pc = "asking") ~> (poll[p].pc = "told")
=============================================================================
