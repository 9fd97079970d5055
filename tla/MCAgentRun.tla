----------------------------- MODULE MCAgentRun -----------------------------
(* AgentRun with every plan of at most two steps.                          *)
EXTENDS AgentRun

ShortPlans == UNION {[1..n -> Step] : n \in 0..2}
=============================================================================
