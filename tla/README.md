# A formal model of SovereignAI Workbench

SovereignAI Workbench is a local AI assistant: a React frontend submits tasks to
a FastAPI backend, whose agent plans, calls tools under a policy, asks a model
served by Ollama, and keeps everything on one machine. This directory holds
TLA+ modules translated from its source, TLC configurations that check them on
small instances, and proofs, checked by TLAPS, that the main properties hold for
every instance. Paths below are relative to the repository.

## 1. Inventory

| Component | State | Operations | Modelled |
|---|---|---|---|
| Task store and task API, `backend/app/api/v1/tasks_router.py` | `TaskStore._tasks`, `_recent_submissions`, `_exec_lock`; one background coroutine per task; worker threads of vision tools | submit, poll, cancel, `run_or_enqueue`, `run_agent_task`, event callbacks | `TaskStore` |
| Agent, `core/agent/agent.py` | `AgentState`: plan, current step, iteration, tool calls, observations, messages, verification result | `run`, `_execute`, `_policy_blocked`, `_check_repetitive`, `_verify`, `_synthesize_final_response` | `AgentRun`; its conversation with the model in `Models` |
| Planner, `core/agent/planner.py` | none | `plan`: tools from keywords and attachments | as an interface |
| Verifier, `core/agent/verifier.py` | none | `verify` | in `AgentRun` |
| Tools and executors, `core/agent/registry.py`, `core/tools/` | registered tools | `execute` | as an interface in `AgentRun`; the file and document tools in `Toolbox` |
| Policy engine, `core/security/policy_engine.py` | rules by capability and action | load, merge, validate, `evaluate` | `PolicyEngine` |
| Model router, `core/routing/` | model registry | load, register, `route`, ranking, scoring | `ModelRouting` |
| Gateway and Ollama provider, `core/llm/` | two HTTP clients, one with a pool of connections | `generate`, `stream`, `health`, mapping of errors | `Models` |
| Model service, `backend/app/services/model_service.py` | health cache | `get_status` | `Models` |
| Vision, `core/vision/`, `vision_router.py` | none | OCR, analysis | the endpoints and the Ollama providers in `Models` |
| Sandbox, `core/sandbox/`, `sandbox/entrypoint.py`, `code_router.py` | one container per execution; the list of runs | `execute`, `_force_cleanup`, the entrypoint's own limit | `Sandbox` |
| Knowledge base, `core/rag/` | vector store, two ownership maps | `ingest`, `remove_document`, `search`, `clear` | `KnowledgeBase` |
| Workspace, file and document tools, `core/tools/workspace.py`, `file_tools.py`, `document_tools.py`, `files_router.py` | files below one directory | resolve, read, list, write, build a document, upload of several files, download | `Toolbox` |
| Frontend stream, `pollingAdapter.ts`, `useTaskStream.ts`, `streamReducer.ts` | what the poller has already seen; the shown messages, tools and status | send, poll, cancel, retry, leave | `TaskStream` |
| Audit log, `core/audit_logger.py`, `activity_router.py` | a rotating log file | append, read the current file | not yet |
| Frontend history, `useConversations.ts` | local list of conversations | merge, rename, delete | not yet |
| Configuration, intent classifier, image decoding, views | none that changes, or none of their own | | not modelled (section 8) |

**How they interact.** `submit_task` answers a duplicate with the existing task,
or creates a record and hands `run_or_enqueue` to the event loop. That coroutine
takes the one execution lock, so agents run one after the other, and calls
`run_agent_task`, which builds an `Agent` and awaits `Agent.run`. The agent calls
planner, router, gateway, policy engine and executor through interfaces, and
reports through a synchronous callback that writes the task's record. Clients
poll the record, and cancel by a request that writes the record and cancels the
asyncio task stored in it.

**What is hard.** (1) *Interleaving*: cancellation can arrive before the
coroutine starts, while it queues for the lock, inside the agent, inside a tool,
or after the end, and each case is told apart only by what the record happens to
hold. (2) *Stale state*: the status is read before the lock is awaited and is
needed after it. (3) *Failure*: every await may raise, and `CancelledError`
passes every `except Exception`. (4) *Ordering*: callbacks write the phase
without reading the status. (5) *Limits*: four bounds (iterations, calls,
repetitions, deadline) interact with refusals and new plans in a loop that has
no other end. (6) *Partial results*: streams break, tools fail and recover, and
the outcome is decided twice, by `Agent.run` and by `run_agent_task`. (7) *Crashes*:
the process may die within a write, and a container outlives the CLI that started
it. (8) *Nested timeouts*: the runner's, the sandbox's, the entrypoint's and the
clean-up's limits race with each other and with the program. (9) *Two accounts of
one text*: what streams is cleaned, cut up by length, shown, and at the end
replaced, on both sides of the wire, by code that does not know of the other.
`PROJECT.json` lists each hazard at its line with the property that watches it.

**What makes each component correct.**

* Task store: no lock or queue place is lost; one agent at a time; a final
  record stays final; duplicates of an active task are answered with that task;
  every task settles unless an agent hangs.
* Agent: calls, observations and plan stay aligned; nothing refused is executed;
  the limits hold over new plans; a task is stored as completed only if it is;
  the run ends if the model answers.
* Policy engine: a user's file takes away only what it names.
* Router: for every order of registration, the best of the models that can do what
  is asked, and none where there is none.
* Gateway and agent: an answer comes from one call, and what was shown while it
  came is part of it; a status is recent; requests end.
* Sandbox: a client is answered in time and told what happened in the container;
  no container outlives its execution unnoticed.
* Workspace: whatever crashes, a file is there in its old or its new content; what
  an upload reports is on disk; what was accepted can be downloaded.
* Knowledge base: the two ownership maps and the vector store agree; ingesting
  again replaces; a document is indexed whole or not at all; a search returns the
  best there is.
* Frontend stream: what a completed view shows is the record; nothing is shown
  twice; the stop button stops the task that is being followed; streams end.

## 2. Modules

| Module | Models | Used for |
|---|---|---|
| `TaskLifecycle` | the abstract promise: each task's status, and at most one running | refinement target |
| `TaskStore` | task API, store, execution lock, coroutines, threads | checked and proved |
| `MCTaskStore` | symmetry, and an order of submissions for the liveness run | TLC |
| `TaskStoreProofs` | theorems about `TaskStore` | TLAPS |
| `AgentRun` | one `Agent.run` with its interfaces | checked and proved |
| `MCAgentRun` | plans of at most two steps | TLC |
| `AgentRunProofs` | theorems about `AgentRun` | TLAPS |
| `Induction` | induction on numbers and on finite sets, and the folds over them | used by three proof modules |
| `DocumentIndex` | the abstract promise: under each name the text last ingested | refinement target |
| `KnowledgeBase` | ingestion, chunker, vector store, search | checked and proved |
| `MCKnowledgeBase` | two files, three names for them, four texts, scores | TLC |
| `KnowledgeBaseProofs` | theorems about `KnowledgeBase` | TLAPS |
| `Sandbox` | code execution in containers, with time | checked and proved |
| `SandboxProofs` | theorems about `Sandbox` | TLAPS |
| `PolicyEngine` | the policy as operators of a user's configuration | used by `Toolbox` |
| `Toolbox` | workspace, file and document tools, uploads, downloads, crashes | checked and proved |
| `MCToolbox` | a small workspace, configurations and batches | TLC |
| `ToolboxProofs` | theorems about `Toolbox` and `PolicyEngine` | TLAPS |
| `ModelRouting` | registry and router as operators, and the declarative choice | used by `Models`, and proved |
| `Models` | agents, polls of the health and vision requests over one provider | checked and proved |
| `MCModels` | few callers at a time, orders of registration | TLC |
| `ModelsProofs` | theorems about `Models` and `ModelRouting` | TLAPS |
| `TaskStream` | the page that follows tasks, over `TaskLifecycle` | checked and proved |
| `MCTaskStream` | two prompts, one of them the other with files, two tasks | TLC |
| `TaskStreamProofs` | theorems about `TaskStream` | TLAPS |

`TaskStream` composes the client with the abstract life cycle that `TaskStore` is
shown to implement; `Toolbox` composes the tools with the policy; `Models` composes
agents, health cache and vision endpoints with the router and the one connection
pool they share. `AgentRun` sees tools and model through interfaces only.

### TaskStore

The unit of atomicity is what one coroutine does between two suspensions.
`TaskStore._lock` is never held across a suspension, so an uncontended acquire
does not yield, and `submit_task` and `cancel_task` are single steps. What really
suspends is the start of a background task, the queue of `_exec_lock`, and
everything inside `Agent.run`.

| Variable | Code |
|---|---|
| `tasks` | `TaskStore._tasks`: status, phase and `asyncio_task` of each record |
| `recent` | `_recent_submissions`, with the age of the entry instead of its time |
| `job` | the background coroutines: position, task id, signature |
| `holder`, `waiters` | the owner and the FIFO of `_exec_lock` (`asyncio.Lock`) |
| `interrupted` | coroutines whose `Task.cancel()` was called and not yet delivered |
| `threads` | workers of `asyncio.to_thread` still running |

`StartCancelled`, `StartWaiting`, `StartAtOnce` and `Resume` are
`run_or_enqueue` up to where it suspends; `Enter` is the body of the `async
with`, which for a cancelled task and for a greeting also releases the lock in
the same step. `AgentEvent`, `ToolStart`, `ToolEnd` and `AgentReturn` are
`run_agent_task` while it awaits the agent; the thread is started by the tool's callable
(core/vision/tools.py:138, 182), awaited at line 622. `Interrupt` is the delivery of
`CancelledError`: its handler raises `AttributeError` on `AgentStatus.CANCELLED`,
so the store is *not* written and the lock is released by the `async with`. Two
details of `asyncio.Lock` matter: `locked()` is false between a release and the
waiter's resumption, and an acquire in that gap queues all the same.

### AgentRun

`pc` names the await the coroutine is in; `"loop"` is the top of the main loop.
Planner, verifier, tools and model may answer anything their callers must be
prepared for: any plan, either verdict, an output, an error or an exception.
`AnyVerifier = FALSE` is the `SimpleVerifier` the application installs. The
model distinguishes an answer that is absent, blank or has content, and of an
observation the prefix by which `_has_unrecovered_tool_failure` recognises it.
`Finish` models `Agent.run`'s overwriting of the status, `Completed` the test
`run_agent_task` applies to the result. `Interrupt` may strike at every await,
`DeadlinePasses` at any time.

Argument dictionaries are compared as a whole. An unhashable argument would make
`_check_repetitive` raise `TypeError`; the planner of the repository produces
strings only, and the model does not include that case.

### KnowledgeBase

No method of `KnowledgeBase`, `Retriever` or `SimpleVectorStore` awaits, so each
call is one step (the asyncio lock the class's docstring speaks of does not
exist, and is not needed on one event loop); only files change in between.

| Variable | Code |
|---|---|
| `disk` | the workspace's files: a text, or `Unusable` (missing, directory, binary, too large) |
| `entries` | `SimpleVectorStore._entries` and `_index`, which are written together |
| `chunk_to_doc`, `doc_to_chunks` | the ownership dictionaries |
| `answer` | what the last call returned or raised |

`FileOf` is `Workspace.resolve`: several names may lead to one file, and a
refused name leads to `Invalid`. A text is its length and a revision, a chunk its
document, text and offsets. A document is identified by its name and a chunk by
document and position, as the hashes of `types.py` do. `Store` is `ingest` from
the parser on, `IngestUnembedded` its failure in `embed_batch`, after the old
chunks were removed: the bundled provider cannot fail there, the interface allows
it. The similarity of query and chunk is a parameter, a whole number for its rank
(`ScoreAssumption`). `Sorted` is `list.sort`: each chunk goes behind those that may
stand before it.

### Sandbox

Time is discrete: `Tick` waits for every timer that is due. `pc` names the await
`execute()` is in: `"running"` is the runner's `wait_for` on the CLI, `"killing"` its
wait for the CLI it has killed, under the sandbox's own limit, `"cleaning"` the
removal. `cli` and `container` are two processes: the container belongs to the
daemon and does not end with the CLI. `ProgramEnds` and `Overrun` are
`entrypoint.py`; its limit is counted in whole seconds, hence `Second`.

| Variable | Code |
|---|---|
| `deadline`, `limit` | what `wait_for` was given; `effective_timeout` |
| `cli`, `container` | the `docker run` process; what the daemon has of it |
| `reply`, `runs` | the response of the endpoint; `CodeStore._runs` |

Docker is external. That the daemon starts nothing for a CLI that is gone is an
assumption about it, taken from what `_force_cleanup` relies on.

### PolicyEngine and Toolbox

A policy is fixed when the application starts, so `PolicyEngine` is a set of
operators of the user's file: merging, validation, the rule of each tool, the bucket
of a name nobody registered. `Toolbox` asks it before every call, as the agent's
`_policy_blocked` and the endpoints do.

A text is the sequence of the widths of its characters in UTF-8, with `Nul` and `Bad`
for what is no text: all that sizes, sniffed prefixes and cuts depend on. A path as
written is absolute or a sequence of names; `resolve` is `Workspace.resolve`.
The tools await nothing, but each system call can fail and the process can die
between any two, so a write is a sequence of steps, of which `op` remembers the next:

| Step | Code |
|---|---|
| `Open`, `CreateParents` | checks and `mkdir(parents=True)`, which may get half-way |
| `BuildDocument` | `_build_docx`, after the directories |
| `WriteTemp`, `Rename` | `_atomic_write`: temporary file and fsync, `os.replace` |
| `OpenImage`, `FillImage` | `write_bytes`: truncated, then filled |
| `CheckName`, `BodyRead`, `UploadDone` | an upload between its awaits |

### ModelRouting and Models

`ModelRouting` translates registry and router as operators on the sequence of
entries: `register` keeps the place of a name, `candidates` are the eligible entries,
and `best_candidate` is the first of them under the stable sort, all that is taken of
the ranking. `RightChoice` says what a choice should be in terms of the set of entries.
`Models` puts four kinds of callers on one provider: an agent (from `_route` to the
text that is shown), pollers of the health cache, vision requests, and other callers
of the router. `net` is the request each has under way: queued for a connection,
sent, answered. The server may refuse, break, answer anything or nothing at any time;
`Raised` maps what came to the exceptions of `core.llm.errors`.

A chunk is `<<the call it came with, its kind>>`, the kinds being text and the two
tags around thoughts. `Emitted` is what the token event shows, `Clean` what
the message becomes, `Conclude` the decision between them.

### TaskStream

One page: `view` is the `StreamState`, `stream` has a generator of the polling
adapter for every prompt sent, `wire` the POST of each (which the backend may serve
after its stream was aborted), `told` the requests to cancel that nobody awaits. The
backend is `TaskLifecycle` with what a record holds besides: `Token` and `Rethink`
change the streamed text - the second is what `Models!Emitted` does when a thought
turns out to have ended -, `Answer` puts the message in its place.

Between two awaits the client runs alone, so a poll, the events it yields and what
the reducer makes of them are one step, `Poll`. `Shown` is the view's side of it,
`Seen` the generator's; the hazard is that they remember different things.

### Variants

Definitions whose comment begins with "Variant" are not part of the
specifications. Each is a definition of the model as a plausible bug would have
left it - a dropped check, a limit off by one, a missing reset - and
`PROJECT.json` ("mutants") says which property fails when it takes the place of
the right one. They show that each property depends on the code it is about.

## 3. Runs

| Run | Shows | Bounds |
|---|---|---|
| `store` | five invariants of the store, finality, refinement of `TaskLifecycle`; every task settles if no agent hangs; cancelling frees the lock | 3 submissions in order, 3 signatures (a greeting, a chat, an image task), window of 1 tick; 61 524 states |
| `store_zombie_thread` | *violation*: model work of a cancelled vision task overlaps its resubmission | 2 submissions, window of 2 |
| `agent_run` | eight invariants; the run ends unless it waits for the model | plans of up to 2 steps over 5 tools (allowed, reserved, denied, unknown, none) and 2 arguments; 5 turns, 4 calls, 2 repetitions; 377 396 states |
| `knowledge` | four invariants, what calls report, refinement of `DocumentIndex` | 4 names (two of one file, one refused), 2 files, texts of 0, 2, 7 and 5 characters, chunks of 4 with an overlap of 2, 3 queries; 28 718 states |
| `sandbox` | what each result stands for, no silent survivor, answers in time, nothing runs for ever | 1 execution; time-outs 0 to 9 with a maximum of 8, 2 ticks to the second, 3 of overhead, 2 for the clean-up; 12 495 states |
| `sandbox_killed` | *violation*: a program killed within its limit is reported as timed out | as above |
| `toolbox` | whole files, the round trip of a text, what an upload reports, defaults | 5 paths on 2 levels, 11 spellings, 6 contents, 3 configurations, 1 client, 3 batches; 1 172 235 states |
| `toolbox_docx` | *violation*: a generated document cannot be downloaded | as above |
| `models` | the router's choice for any request and for an agent, answers, recent statuses, vision requests end | 1 agent, 2 pollers, 1 vision request, 1 asker, at most two of them at a time; all orders of 3 and of 4 entries, and 5 files for the agent, one with a model that cannot chat; streams of 3 chunks, a pool of 1, 2 ticks; 238 924 states |
| `models_hang` | *violation*: a poll of the status need never be answered | as above |
| `stream` | a completed view is the record; the stop button; cancelled views; streams end | 2 prompts, the second with files, 2 tasks, 1 call, texts of 2 tokens, 2 failing polls end a stream; 732 429 states |
| `stream_queued` | *violation*: a running view falls back to "queued" | as above |

Why the bounds are enough. Store: three coroutines give the lock a holder, a first
waiter and another in the queue, and let a newcomer arrive in each gap; with three
signatures two of them can also be of one signature, before and after the window.
`SubmitInOrder` only names the coroutines, which no definition tells apart. Agent:
five turns hold a plan of two steps, a rejection, and a new plan of which a step is
carried out; a limit of four calls and of two repetitions are both reached inside one
plan and across two. Knowledge: the four texts give a document no chunk, one, or
several, the last of them clipped and wholly inside its predecessor, and let a
shorter revision replace a longer one. Sandbox: executions share nothing but the list
of runs, so one is enough for what the properties say of each (the theorems are for
any number); the time-outs lie below, at and above the maximum and below, at and
between whole seconds. Toolbox: a text in a directory and outside one, an image and a
document, contents that end, and that are cut, at the sniffed boundary and the limits.
Models: what interacts is a pair - through the pool, through the cache - and each
pair that shares something is a cast of its own; a single connection makes it wait;
three chunks hold a thought with its two tags and an answer, or miss any of them.
Stream: two sends are what deduplication, an abort and a stale reply need. `Small`
takes tasks and prompts in order, lets one task work while the other only begins and
ends, and stops where nothing more can happen to the view.

Every action of every module fires. `CHECK_DEADLOCK FALSE` is right in these runs: when
every submission or prompt was used, the one agent run or execution is over, every
caller is answered, or a bad configuration keeps the application from starting, the
system has nothing left to do.

### What the violations mean

* **`store_zombie_thread`** - a thread cannot be cancelled. After a cancellation
  the lock is free and the record final, so the deduplication lets the same
  task in again, next to the thread that still asks the model.
* **`sandbox_killed`** - exit codes 137 and 143 are taken for the timeout path, which
  returns elsewhere: a program that exits so by itself, or a container killed for its
  memory, is "timed out" before any limit has passed (types.py:122). `ResultIsHonest`
  says exactly which outcomes each listed status stands for, this one included.
* **`toolbox_docx`** - `create_document` makes a document, the list offers it
  for download, and the download reads it as a text, which a `.docx` by its extension is
  not: 500.
* **`models_hang`** - `timeout=None` switches the client's limits off for everything
  but streams. A server that accepts a connection and says nothing is waited for
  for ever, and with it everyone who needs its place in the pool.
* **`stream_queued`** - the adapter shows "running" by itself and then takes the
  first "queued" of a poll for news: the stop button goes, the composer opens.

### Observed on the way

What the models contain as the code has it, and no property restates:

* A client that chooses a `task_id` in use replaces a live record, and the coroutine
  of the old one goes on with the new. No client of the repository does;
  the store's properties are for `CustomIds = {}`.
* `Agent.run` sets COMPLETE over the FAILED of `_execute` (agent.py:235);
  `run_agent_task` looks at the messages itself (`CompletedIsEarned`). The limit of
  calls is tested with `>=` after the append (agent.py:571): the last one allowed is
  not executed.
* `a.txt` and `./a.txt` are one file and two documents (document_parser.py:74). A
  refused path ends in a `NameError`, as `WorkspaceError` is not imported
  (knowledge_base.py:160).
* A text whose 8192nd byte lies within a character is taken for binary
  (file_tools.py:566): `RoundTrip` excepts it. `_create_parents` reports directories
  as created that were there. Its `except FileNotFoundError` is the project's class,
  not the system's, which falls to the handler of `OSError`.
* A cancellation of an execution happens at shutdown only; the container is then not
  removed, whatever "Always remove the container" says, and ends by the
  entrypoint's limit (`NothingRunsForever`).
* A stream that breaks after its first chunk counts as an answer. `_route` makes a
  special task a chat when no model is right for it, in spite of the router's "No
  silent downgrades". Simultaneous polls all ask the server, and an older answer
  may overwrite a newer one: `StatusRecent` bounds its age only. The synthesis keeps
  thoughts without an end. Negative priorities can make a score negative, and the
  model stays routable.
* "Higher values win" is said of priorities (routing/types.py:96-98), and "priority
  determines the winner" by a test (test_router.py:460). The router adds one point per
  further capability (router.py:22-40), so that priority 9 with three capabilities beats
  10 with one. `RightChoice` takes the sum, as the router's own text does.
* Every answer of the vision endpoints is a 500: their responses demand a float
  `confidence` (vision_router.py:44, 56), the Ollama providers have none
  (ollama_ocr.py:185, ollama_vision.py:172), and the error is caught at
  vision_router.py:164-171, after the model has worked.
* Retry sends the last prompt without its files (useTaskStream.ts:85-87): another
  signature, so that it is no duplicate of the task that failed to be followed (`RetryPrompt`).
* The view's error is never cleared by a new prompt, so Retry stays. A stream whose
  task is cancelled from the side bar ends with its message still pending. A failed
  task keeps running calls in the view. A task that is followed a second time shows
  its streamed text twice until the message comes. A prompt sent while the one before
  is being posted or queued leaves that task running unseen.

## 4. Fairness

`TaskStore`: the event loop runs every ready callback, hence weak fairness of
starting, resuming, delivering a cancellation, and of a thread and the tool
awaiting it - the vision providers have limits of their own. Clients owe nothing:
`Submit`, `Cancel` and `Tick` have no fairness. Neither has `AgentReturn`: `generate` posts
with `timeout=None` (ollama.py:194, 345), so an agent may await a model that never
answers, and hold the execution lock for as long. `EveryTaskSettles` says that this is
the only thing that keeps a task from being settled: its premise `NoAgentHangs` is that
every agent leaves its run again, by its end or by a cancellation.
`CancelFreesLock` needs no such premise.
`AgentRun`: weak fairness of the agent's own steps except at the two awaits of a model
(`AwaitingModel`): planner and verifier do not suspend, and tools end or time out. So
`Terminates` allows a run that waits for the model for ever and nothing else. The deadline
and a cancellation need never come.

`Sandbox`: time passes, the timers of the event loop fire, and the entrypoint keeps
its limit. Docker, clients and programs owe nothing. `Models`: a request is sent when
there is a connection and a server, limits that apply pass, what has arrived is
handled. The server owes no answer: so `VisionEnds` holds by the limit alone, and
`StatusAnswered` fails. `TaskStream`: each request of a stream is answered or fails, which
is the browser's part, as `fetch` is given no limit. Users owe nothing, and neither does
the backend: `StreamEnds` says that a stream goes on for ever only while its task is
active, and when a task stops being active is `TaskStore!EveryTaskSettles`.
`Toolbox` and `KnowledgeBase` have no liveness property.

## 5. Proofs

`tlapm` checks `TaskStoreProofs`, `AgentRunProofs`, `KnowledgeBaseProofs`,
`SandboxProofs`, `ToolboxProofs`, `TaskStreamProofs`, `ModelsProofs` and `Induction`,
for all values of the constants that satisfy the named assumptions of each module.
Every safety invariant and action property of a passing run is the statement of a
theorem.

**Induction over data.** The library's induction rules take a predicate as a
parameter, which the provers here cannot be given. What they can be given is a set:
`WFMin` says that each set of numbers has a least member, and `NumberInduction` is
that, with the *set* of the numbers a fact holds of in place of the predicate. A
`FoldLeft` or `FoldSet` is defined as the value of a table, indexed by subsets and
chosen to solve a recursive equation; `FoldExists` shows by induction on cardinality
that there is such a table, and `MaxInInterval` which element a fold over a list
takes last. Each proof about a fold then has three parts: the fold is a value of the table
(`UnrecoveredByTable`, `RankingByLists`, `LoadedByTable`), the table obeys its
equation (`TableDefined`, ...), and what it holds follows by induction (`TableSays`,
`ListsRank`, `Loaded`).

**TaskStore.** Assumption: `CustomIds = {}`; with custom identifiers the
properties are false (see above). The inductive invariant `StoreInv`
adds to the stated properties what makes them inductive:

* `OneJobPerId`: records and coroutines correspond one to one - without it a
  coroutine could write another task's record;
* `StageOK`: what the record says at each position of its coroutine, in
  particular that inside the agent the status is "running", or "cancelled" with
  the `CancelledError` on its way;
* `Remembered`: the deduplication table still points at every active task.

`NextInv` has one lemma per action. From `StoreInv` follow `RunningHoldsLock`,
`QueuedHasRunner` and `NoDuplicateActive`; with `[Next]_vars` also `FinalIsFinal`
and the refinement of `TaskLifecycle` (`LifecycleCorrect`): each step of the store
is a step of the abstract life cycle or leaves all statuses alone.

**AgentRun.** No assumption besides `AgentAssumption` (the limits are positive
and plans are sequences of steps): any planner, any verifier, any policy.
`AgentInv` adds `StageOK` to the properties of the run: what is known at each
await - the budget still left, no answer before the synthesis, a plan fully
worked through when the verifier is asked. The proof rests on two families of
lemmas: `QuietStep` for steps that leave the lists alone, and `RequestLists` and
`ObserveFacts` for those that add a call or an observation. `SpinFacts` states
the repetition window once, for the history and for the call under test.
`FailureSurfaces` needs the table of `_has_unrecovered_tool_failure`: after n calls
it holds FALSE for the tool of a failed one unless a later one of them succeeded
(`TableSays`). `FailureInv` carries this from the verifier, where it was tested, to
the end of the synthesis, which calls nothing. `RunsAreFinite` is the safety half of
`Terminates`: `StepsLeft` counts the iterations that remain and the way to the next
turn, and every step - a cancellation and the deadline, too - makes it smaller.

**KnowledgeBase.** `IndexInv` is the conjunction of `TypeOK`, `MapsAgree` and
`WholeDocument`, and needs all three: that the chunks of another document survive
an ingestion holds because identifiers carry the document's name, which
`WholeDocument` says of every stored chunk. `Replaced` and `Dropped` state what
the two ways of changing the index do to it; everything else follows from them.
`PassageInOneChunk` rests on `CutBefore`: each position lies less than one step
behind a cut, so the rest of that chunk is at least the overlap and one more. The
refinement maps the index to the set of texts found in each document's chunks.
`BestFirst` is about a search, so its invariant is about the answer to one: the index
is finite (`FiniteInv`; a text has finitely many chunks), its ranking holds each
chunk once and in order, and `Cut`, where the loop breaks, is the number of
results or that of the good chunks, whichever is less. Equal scores are in no way
excluded: the theorem does not depend on how ties are broken.

**Sandbox.** `SandboxInv` is `TypeOK` with `Stage`, what holds of an execution where
it stands: each await has the deadline of its kind, which has not passed, and an
execution that is over has one of the five outcomes of `Outcome`. That the deadline
has not passed needs `Due` in the guard of `Tick` - the timers of the event loop.
`AnsweredStage` does all the answers at once, and `ResultIsHonestAlways` says of each listed status
exactly which outcomes it stands for, the wrong one of `sandbox_killed` included. An
execution's stage mentions nothing of another's, so `SameStage` carries the others through a step.

**Toolbox.** `ToolboxInv` adds to the properties what an operation under way has
already checked (`OpOK`: before a rename the path is one for this tool and the text
within the limit) and what of an upload is left. `DenialsOK` says that an answer
"denied" was the policy's. The round trip follows because the limit of writing is
that of reading; `Size` stays an unknown in it, so no induction over texts is needed.

**TaskStream.** `StreamInv`: only the last stream is under way, and it has not seen
its task end; while it polls, the view names its task; and only then is the view
running. That gives `StopHitsOwnTask` and `CancelSticks`. `CompletedIsFaithful` needs
more (`FaithInv`): a completed record has its message and no call that is running; a
stream under way has seen no message; it has seen the end of a call only if the view
shows it, and a call that was not made is not in the view. `CompletedShown` then
compares field by field what the last snapshot shows with the record.

**Models.** `ModelsInv` has a part for each part of the state. `Registry`: a loaded
registry has each name once, which `Loaded` shows of any file by induction on its
entries. `ChoiceFine`: what an asker was told is what the router says; that this is
right (`RouteRight`) rests on `ScoreIsWeight` - among candidates for one request the
bonus for what is required is the same, so that the score orders them as
`Weight` does - and on `LeaderExists`, for the sort. `RoutedInv` is the same
of an agent's model, which `Start` chooses (`StartRoutes`) and no other step changes
(`StepKeeps`). `Fine`: as long as an agent's
text streams, it comes from one call, and what is shown (`ShownFits`) is all of it, or
its end behind the thoughts, or its beginning before them; each way of concluding then
leaves the shown text within the message, or asks again and shows nothing. The lemmas
`Ending` to `ShownIsWithin` are about texts only. `PollFine` and `CacheFine`: asked, seen, stored and
told come in this order, and a poll reads what is cached only before it expires,
whichever of several polls stored it. `NetFine` is the limit of the pool (`TypeOK`).
The assumptions say that no caller is of two kinds, and what may stand in a
configuration file: numbers for priorities, finite sets of capabilities, names that
are not empty - what `_model_from_dict` and `register` refuse otherwise.

| Theorem | States |
|---|---|
| `StoreCorrect`, `LockCorrect`, `RunningCorrect`, `QueuedCorrect`, `InterruptCorrect`, `PhaseCorrect`, `DedupCorrect`, `FinalCorrect`, `LifecycleCorrect` | the safety properties of `store` |
| `AgentCorrect`, `AgentTypes`, `ObservedCorrect`, `OrderCorrect`, `PolicyCorrect`, `BudgetCorrect`, `SpinningCorrect`, `CompletionCorrect`, `FailureCorrect` | the safety properties of `agent_run` |
| `IndexCorrect`, `KnowledgeTypes`, `MapsCorrect`, `WholeCorrect`, `PassageCorrect`, `ReportsCorrect`, `IndexImplemented`, `BestCorrect` | the properties of `knowledge` |
| `RunsAreFinite` | a run takes at most `4 * MaxIter + 9` steps |
| `SandboxTypes`, `PromptAnswerAlways`, `NoSilentSurvivorAlways`, `ResultIsHonestAlways` | the safety properties of `sandbox` |
| `WholeFilesAlways`, `RoundTripAlways`, `UploadReportAlways`, `DefaultsSurviveAlways` | the properties of `toolbox` |
| `StopHitsOwnTaskAlways`, `CancelSticksAlways`, `CompletedIsFaithfulAlways` | the safety properties of `stream` |
| `ModelsCorrect`, `ModelsTypes`, `RoutesCorrect`, `AnswerCorrect`, `StatusCorrect` | the safety properties of `models`, and the types and the pool, which are in no run |

## 6. What is only model-checked

* `EveryTaskSettles`, `CancelFreesLock`, `Terminates`, `NothingRunsForever`,
  `VisionEnds`, `StreamEnds`: liveness under fairness, and the `ENABLED` in it, are
  beyond TLAPS. Of `Terminates`, `RunsAreFinite` proves what needs no fairness.
* The five violations, which are counterexamples.

What a fold or a choice *computes* is proved where a property needs it; that the
model's `InsertAt`, `SubSeq` and `Append` are those of lists is the library's.

## 7. Plan

In this order; each entry names the module, what it models, and what is to be
checked (C) and proved (P).

1. P of measures, as `RunsAreFinite` is one: that a stream of `TaskStream` has few
   failing polls left, that an execution of `Sandbox` has few ticks left.
2. `Planner`: the steps `SimplePlanner` makes of keywords and attachments, against
   the limit of turns, refining `AgentRun`'s interface `PlanReady`. C.
3. `Conversations`: the list in the local storage, which two instances of
   `useConversations` write each for itself, and the backend's list. C.
4. `AuditLog`: rotation against the reader. C.
5. The worker threads of the vision tools in `Models`, sharing them with `TaskStore`. C.

## 8. Not modelled, and why

* Prompts, answers, labels and wire formats: no property depends on their text.
* Values that are read once and never change: the configuration of the application
  and of the knowledge base. The limits among them are constants.
* What is there and not called: `TaskStore.delete_task` and `create_task`,
  `list_models`, `register_file_tools`, `update_policy`, the router of the model
  service. The search endpoint opens an empty
  knowledge base for every request.
* Validation of attachments in `submit_task`: it happens before any state changes.
* The deadline in seconds: the model knows only whether it has passed. That the
  direct answer and the synthesis never look at it is listed as a hazard.
* In `Toolbox`: symbolic links, the root itself as a target, temporary files that a
  crash leaves, MIME types. In `TaskStream`: phases, labels, thinking text, several
  messages of one task after new plans; `workspace.$taskId`, a child route without an
  outlet, which opens a stored conversation as an empty page.
* Image decoding, what python-docx does, HTTP, React views, generated code: I/O or
  pure presentation.
* `backend/tests`, `scratch/`, `workspace/`: not part of the program.
