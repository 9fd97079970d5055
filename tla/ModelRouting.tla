---------------------------- MODULE ModelRouting ----------------------------
(***************************************************************************)
(* The registry of models and the router, as operators: which of the       *)
(* configured models handles a request.  A model is known by its           *)
(* logical_name, here a number, so that names have their lexicographic     *)
(* order; a registry is the sequence of its entries, in insertion order.   *)
(***************************************************************************)
EXTENDS Integers, Sequences, FiniteSets, SequencesExt

\* No model, no preference, no file.
None == 0

TaskTypes == {"chat", "coding", "vision", "document", "reasoning"}

TASK_TYPE_DEFAULT_CAPABILITIES ==
  [chat |-> {"general"}, coding |-> {"coding"}, vision |-> {"vision"},
   document |-> {"document_analysis"}, reasoning |-> {"reasoning"}]

TASK_TYPE_DEFAULT_INPUT_MODALITIES ==
  [t \in TaskTypes |-> IF t = "vision" THEN {"text", "image"} ELSE {"text"}]

RoutingRequest(type, capabilities, modalities, preferred, excluded) ==
  [type |-> type, capabilities |-> capabilities, modalities |-> modalities,
   preferred |-> preferred, excluded |-> excluded]

\* What callers with nothing to say beyond the type of their task ask for.
Plain(type) == RoutingRequest(type, {}, {}, None, {})

build_vision_routing_request(preferred, excluded) ==
  RoutingRequest("vision", {"vision"}, {"text", "image"}, preferred, excluded)
-----------------------------------------------------------------------------
(* The registry *)

\* A name that is registered again keeps its place and changes its entry.
register(registry, entry) ==
  IF \E i \in DOMAIN registry : registry[i].name = entry.name
  THEN [i \in DOMAIN registry |->
          IF registry[i].name = entry.name THEN entry ELSE registry[i]]
  ELSE Append(registry, entry)

\* A list of entries, the valid ones with a name and a set of capabilities.
Entries(list) ==
  /\ list \in Seq(ToSet(list))
  /\ \A e \in ToSet(list) :
       e.valid => /\ e.name \in Nat \ {None} /\ e.priority \in Int
                  /\ IsFiniteSet(e.capabilities)

builtin_default_registry ==
  LET Entry(name, capabilities, modalities, priority) ==
        [name |-> name, capabilities |-> capabilities, modalities |-> modalities,
         enabled |-> TRUE, priority |-> priority, valid |-> TRUE]
  IN  << Entry(2, {"general", "reasoning", "document_analysis"}, {"text"}, 25),
         Entry(1, {"coding"}, {"text"}, 20),
         Entry(3, {"vision"}, {"text", "image"}, 20) >>

\* An entry that lacks a field or names an unknown capability spoils the whole
\* file; without a file there are the built-in models.
load_default_registry(file) ==
  IF file = <<>> THEN [ok |-> TRUE, models |-> builtin_default_registry]
  ELSE IF \E i \in DOMAIN file[1] : ~file[1][i].valid THEN [ok |-> FALSE, models |-> <<>>]
  ELSE [ok |-> TRUE, models |-> FoldLeft(register, <<>>, file[1])]

\* A router is built over at least one model.
Routable(loaded) == loaded.ok /\ loaded.models # <<>>
-----------------------------------------------------------------------------
(* The router *)

required_capabilities(request) ==
  IF request.capabilities # {} THEN request.capabilities
  ELSE TASK_TYPE_DEFAULT_CAPABILITIES[request.type]

required_input_modalities(request) ==
  IF request.modalities # {} THEN request.modalities
  ELSE TASK_TYPE_DEFAULT_INPUT_MODALITIES[request.type]

\* Variant: the exclusions are forgotten.
EligibleThoughExcluded(entry, request) ==
  /\ entry.enabled
  /\ required_capabilities(request) \subseteq entry.capabilities
  /\ required_input_modalities(request) \subseteq entry.modalities

Eligible(entry, request) ==
  /\ entry.enabled
  /\ entry.name \notin request.excluded
  /\ required_capabilities(request) \subseteq entry.capabilities
  /\ required_input_modalities(request) \subseteq entry.modalities

\* 100 and 50 for what every candidate has, two for each capability that is
\* required and one for each that is not, and the priority.
Score(entry, request) ==
  LET required == required_capabilities(request) IN
  100 + 50 + 2 * Cardinality(required \cap entry.capabilities)
    + Cardinality(entry.capabilities \ required) + entry.priority

\* Variant: the sort is by the score alone, and ties stay in insertion order.
BeforeByScore(request, a, b) == Score(a, request) > Score(b, request)

\* The key candidates are sorted by: (-score, logical_name).
Before(request, a, b) ==
  \/ Score(a, request) > Score(b, request)
  \/ Score(a, request) = Score(b, request) /\ a.name < b.name

candidates(registry, request) ==
  {i \in DOMAIN registry : Eligible(registry[i], request)}

\* candidates[0] after the sort, which is stable: equals stay in insertion order.
best_candidate(registry, request) ==
  CHOOSE i \in candidates(registry, request) :
    \A j \in candidates(registry, request) \ {i} :
      \/ Before(request, registry[i], registry[j])
      \/ ~Before(request, registry[j], registry[i]) /\ i < j

\* The preferred model if it can do the work, else the first candidate, else
\* NoSuitableModelError.
route(registry, request) ==
  IF \E i \in DOMAIN registry :
        registry[i].name = request.preferred /\ Eligible(registry[i], request)
  THEN request.preferred
  ELSE IF candidates(registry, request) = {} THEN None
  ELSE registry[best_candidate(registry, request)].name

\* Agent._route: a special task that no model can do is a chat.
RouteOrChat(registry, type) ==
  LET special == route(registry, Plain(type)) IN
  IF special # None THEN special ELSE route(registry, Plain("chat"))
-----------------------------------------------------------------------------
(* What is promised of a choice, of the set of entries and not their order: *)
(* the preferred model if it can do the work, and else, among those that    *)
(* can, the one with the most priority and capabilities, counted together,  *)
(* and of these the first by name.  (So says router.py:22-40 of the score;  *)
(* "Higher values win", routing/types.py:96-98 of the priority alone, does  *)
(* not hold: a priority of 9 and three capabilities beat 10 and one.)       *)

Able(entry, request) ==
  /\ entry.enabled /\ entry.name \notin request.excluded
  /\ \A c \in required_capabilities(request) : c \in entry.capabilities
  /\ \A m \in required_input_modalities(request) : m \in entry.modalities

Weight(entry) == entry.priority + Cardinality(entry.capabilities)

RightChoice(registry, request, name) ==
  LET able == {e \in ToSet(registry) : Able(e, request)} IN
  IF name = None THEN able = {}
  ELSE \E e \in able :
         /\ e.name = name
         /\ \/ name = request.preferred
            \/ \A o \in able \ {e} :
                 /\ o.name # request.preferred
                 /\ \/ Weight(e) > Weight(o)
                    \/ Weight(e) = Weight(o) /\ e.name < o.name

\* Of the model an agent takes for a task: the right one for its type, and for a
\* chat where no model can do such a task.
RightForTask(registry, type, name) ==
  IF \E e \in ToSet(registry) : Able(e, Plain(type))
  THEN RightChoice(registry, Plain(type), name)
  ELSE RightChoice(registry, Plain("chat"), name)
=============================================================================
