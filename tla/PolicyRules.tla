----------------------------- MODULE PolicyRules -----------------------------
(***************************************************************************)
(* The static rule set (policy/rules.py) and the decision that             *)
(* StaticPolicyEngine (policy/static_engine.py) takes on it.               *)
(*                                                                         *)
(* A question is a call to be decided: the context and the request.  Of    *)
(* the parameters it keeps what the rules can see: which deny-patterns are *)
(* found in them, and which "param=value" gates they satisfy.              *)
(***************************************************************************)
EXTENDS Naturals

CONSTANTS Tools, Functions, Roles, Patterns, Gates

IdentityFields == {"user_id", "agent_id", "session_id", "roles"}
DEFAULT_IDENTITY_FIELDS == {"user_id", "agent_id", "roles"}

Questions == [fields   : SUBSET (IdentityFields \ {"roles"}),  \* those that are not empty
              roles    : SUBSET Roles,
              tool     : Tools,
              function : Functions,
              hits     : SUBSET Patterns,
              gates    : SUBSET Gates,
              calls    : Nat]                 \* what the injected call_counter returns

Present(q) == q.fields \cup (IF q.roles = {} THEN {} ELSE {"roles"})

ToolRule == [allowed_functions           : SUBSET Functions,
             visible_to_roles            : SUBSET Roles,
             parameter_deny_patterns     : SUBSET Patterns,
             requires_role_for           : UNION {[G -> SUBSET Roles] : G \in SUBSET Gates},
             requires_approval_functions : SUBSET Functions]

PolicyRuleSet == [identity_required_fields : SUBSET IdentityFields,
                  allowed_tools            : SUBSET Tools,
                  tools                    : UNION {[T -> ToolRule] : T \in SUBSET Tools},
                  rate_limit_per_session   : Nat]

(* A decision is named after the check that denied the call; "ask" allows  *)
(* it subject to human_approval; "error" is a PolicyEvaluationError.       *)
Layers    == {"identity", "global", "tool", "visibility", "function",
              "pattern", "gate", "limit"}
Decisions == Layers \cup {"allow", "ask", "error"}

(* The role-gated parameter values of the request that its roles lack.     *)
GatesMissed(required, q) ==
  {g \in q.gates \cap DOMAIN required : required[g] \cap q.roles = {}}

(* StaticPolicyEngine._evaluate: the checks in order, the first that fails *)
(* decides.                                                                *)
StaticDecision(ruleset, q) ==
  IF ~(ruleset.identity_required_fields \subseteq Present(q)) THEN "identity"
  ELSE IF q.tool \notin ruleset.allowed_tools \cap DOMAIN ruleset.tools THEN "tool"
  ELSE LET rule == ruleset.tools[q.tool] IN
       IF /\ rule.visible_to_roles # {}
          /\ rule.visible_to_roles \cap q.roles = {}            THEN "visibility"
       ELSE IF q.function \notin rule.allowed_functions         THEN "function"
       ELSE IF rule.parameter_deny_patterns \cap q.hits # {}    THEN "pattern"
       ELSE IF GatesMissed(rule.requires_role_for, q) # {}      THEN "gate"
       ELSE IF q.calls >= ruleset.rate_limit_per_session        THEN "limit"
       ELSE IF q.function \in rule.requires_approval_functions  THEN "ask"
       ELSE "allow"

(* Faulty variant: visibility is left to the engine.                       *)
MutStaticShowsAll(ruleset, roles) ==
  {[tool |-> t, functions |-> ruleset.tools[t].allowed_functions] :
     t \in ruleset.allowed_tools \cap DOMAIN ruleset.tools}

(* StaticToolRegistry.get_permitted_tools: the tools that a context with   *)
(* these roles is shown, each with its functions.                          *)
StaticManifests(ruleset, roles) ==
  LET visible(t) == \/ ruleset.tools[t].visible_to_roles = {}
                    \/ ruleset.tools[t].visible_to_roles \cap roles # {}
  IN  {[tool |-> t, functions |-> ruleset.tools[t].allowed_functions] :
         t \in {t \in ruleset.allowed_tools \cap DOMAIN ruleset.tools : visible(t)}}
=============================================================================
