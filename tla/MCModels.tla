------------------------------ MODULE MCModels ------------------------------
(* Models with few callers at a time; an agent and a poller, two pollers, a   *)
(* poller and a vision request, and a caller of the router under every order *)
(* of a few entries, one name twice, and files that cannot be loaded.        *)
EXTENDS Models

Entry(name, capabilities, modalities, enabled, priority) ==
  [name |-> name, capabilities |-> capabilities, modalities |-> modalities,
   enabled |-> enabled, priority |-> priority, valid |-> TRUE]

\* Of equal weight: 1 and 2, which both code; 3 is 2 registered again.
Coder    == Entry(1, {"coding"}, {"text"}, TRUE, 1)
Allround == Entry(2, {"coding", "general"}, {"text"}, TRUE, 0)
Newer    == Entry(2, {"coding", "vision"}, {"text", "image"}, TRUE, 0)
Seer     == Entry(3, {"vision", "general"}, {"text", "image"}, TRUE, 2)
Blind    == Entry(4, {"vision", "coding"}, {"text"}, TRUE, 9)
Legacy   == Entry(5, {"coding", "general"}, {"text"}, FALSE, 9)
Spoilt   == [Coder EXCEPT !.valid = FALSE]

Orders == UNION {SetToAllKPermutations(S) :
                   S \in {{Coder, Allround, Newer}, {Coder, Seer, Blind, Legacy}}}

MCSetups ==
  {[cast |-> {"a1"}, file |-> f] : f \in {<<>>, <<(<<Spoilt>>)>>, <<(<<Legacy>>)>>, <<(<<Seer>>)>>,
                                      <<(<<Allround, Coder, Blind>>)>>}}
  \cup {[cast |-> c, file |-> <<>>] : c \in {{"a1", "p1"}, {"p1", "p2"}, {"p1", "v1"}}}
  \cup {[cast |-> {"k1"}, file |-> <<o>>] : o \in Orders}

MCRequests ==
  {RoutingRequest(type, capabilities, {}, preferred, excluded) :
     type \in {"chat", "coding"}, capabilities \in {{}, {"vision"}, {"coding"}},
     preferred \in {None, 2, 5}, excluded \in {{}, {1}, {2}}}
  \cup {build_vision_routing_request(preferred, {}) : preferred \in {None, 2, 4}}

MCReplies ==
  {[content |-> c, thinking |-> t] :
     c \in {<<>>, <<"text">>, <<"open", "text">>, <<"open", "text", "close", "text">>},
     t \in BOOLEAN}
=============================================================================
