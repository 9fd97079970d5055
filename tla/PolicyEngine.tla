---------------------------- MODULE PolicyEngine ----------------------------
(***************************************************************************)
(* The policy: decisions by capability and action, a user's configuration  *)
(* merged over secure defaults, and the bucket an unknown tool falls in.   *)
(* Nothing in the application changes a policy once it is loaded, so it is *)
(* an operator of the configuration.                                       *)
(***************************************************************************)
EXTENDS TLC

CONSTANTS
  UnknownTools,  \* names of tools that are not in _TOOL_CAPABILITY
  Words          \* the families of keywords the name of each contains

Families == {"audit", "file", "document", "knowledge", "code", "vision"}

ASSUME PolicyAssumption == Words \in [UnknownTools -> SUBSET Families]

Decisions == {"ALLOW", "DENY", "REQUIRE_APPROVAL"}

\* _TOOL_CAPABILITY.
Capability ==
  [list_files |-> "file_system", read_file |-> "file_system", write_file |-> "file_system",
   create_document |-> "document_generation", search_knowledge_base |-> "knowledge",
   ocr_image |-> "vision", analyze_image |-> "vision",
   execute_code |-> "code_execution", read_audit_log |-> "audit"]

Tools == DOMAIN Capability \cup UnknownTools

\* The bucket of a name nobody registered: the first family that matches.
Bucket(words) ==
  CASE "audit" \in words     -> "audit"
    [] "audit" \notin words /\ "file" \in words -> "file_system"
    [] words \cap {"audit", "file"} = {} /\ "document" \in words -> "document_generation"
    [] words \cap {"audit", "file", "document"} = {} /\ "knowledge" \in words -> "knowledge"
    [] words \subseteq {"code", "vision"} /\ "code" \in words -> "code_execution"
    [] words = {"vision"}    -> "vision"
    [] OTHER                 -> "unknown"

\* _extract_capability_action: the key of a rule.
RuleOf(tool) ==
  IF tool \in DOMAIN Capability
  THEN <<Capability[tool], tool>>
  ELSE <<Bucket(Words[tool]), tool>>

\* _default_config: everything the workbench needs, but not running code.
SecureRules ==
  [r \in {RuleOf(t) : t \in DOMAIN Capability} |->
     IF r = <<"code_execution", "execute_code">> THEN "DENY" ELSE "ALLOW"]

\* A user's file: rules, a default or Unset, and the capabilities it gives a
\* scalar where a mapping is wanted.
Unset == "unset"

\* Variant: a capability the user mentions loses its default rules.
MergeByCapability(user) ==
  user.rules @@ [r \in {q \in DOMAIN SecureRules :
                          \A u \in DOMAIN user.rules : u[1] # q[1]} |-> SecureRules[r]]

\* _merge_config: key by key, the user's first.
Merge(user) ==
  [r \in DOMAIN user.rules \cup DOMAIN SecureRules |->
     IF r \in DOMAIN user.rules THEN user.rules[r] ELSE SecureRules[r]]

\* _validate: the engine refuses anything else with ValueError.
Valid(user) ==
  /\ user.scalars = {}
  /\ \A r \in DOMAIN user.rules : user.rules[r] \in Decisions

\* _lookup: the rule, or the default, whatever that is.
Lookup(user, rule) ==
  LET rules == Merge(user)
  IN IF rule \in DOMAIN rules THEN rules[rule]
     ELSE IF user.default = Unset THEN "DENY" ELSE user.default

\* evaluate: what is neither ALLOW nor REQUIRE_APPROVAL is a denial.
Evaluate(user, tool) ==
  LET decision == Lookup(user, RuleOf(tool))
  IN IF decision \in {"ALLOW", "REQUIRE_APPROVAL"} THEN decision ELSE "DENY"

Allowed(user, tool) == Evaluate(user, tool) = "ALLOW"
=============================================================================
