---------------------------- MODULE DbPolicyEngine ----------------------------
(***************************************************************************)
(* DbBackedPolicyEngine (policy/db_engine.py) on a DbRuleStore             *)
(* (policy/db_rules.py) whose rows are changed while it decides.           *)
(*                                                                         *)
(* evaluate_tool_call does not suspend, but it is a sequence of SELECTs    *)
(* outside any transaction, and the rules live in a file which other       *)
(* processes update ("a security team can update rules live"): a commit    *)
(* can fall between any two of them.  Each read of the store is an action. *)
(***************************************************************************)
EXTENDS PolicyRules

CONSTANTS
  Asked,             \* the questions that are put to the engine
  IdentitySettings,  \* what settings.identity_required_fields may hold
  Limits,            \* what settings.rate_limit_per_session may hold
  NoLimit,           \* that row is missing
  DEFAULT_RATE_LIMIT,
  ExampleRows        \* what seed_example inserts

ASSUME StoreAssumption ==
  /\ Asked \subseteq Questions
  /\ IdentitySettings \subseteq SUBSET IdentityFields
  /\ Limits \subseteq Nat
  /\ NoLimit \notin Nat
  /\ DEFAULT_RATE_LIMIT \in Nat

(* The tables, by primary key.  A role that is not active and a role that  *)
(* is not there are never told apart.                                      *)
Stores == [active                  : SUBSET Roles,
           tools                   : SUBSET Tools,
           tool_visibility_roles   : SUBSET (Tools \X Roles),
           tool_functions          : [Tools \X Functions -> {"absent", "free", "approval"}],
           parameter_deny_patterns : SUBSET (Tools \X Patterns),
           parameter_role_gates    : SUBSET (Tools \X Gates \X Roles),
           identity                : IdentitySettings,
           limit                   : Limits \cup {NoLimit}]

ASSUME SeedAssumption == /\ ExampleRows \in Stores
                         /\ DEFAULT_IDENTITY_FIELDS \in IdentitySettings

VARIABLES
  store,     \* the committed rows
  pc,        \* the check whose SELECT comes next; "approval"; "done"
  question,  \* the call that is being decided
  decision,  \* what became of it
  held       \* history: something that has been true ever since it was asked

vars == <<store, pc, question, decision, held>>

-----------------------------------------------------------------------------
(* The queries of DbRuleStore. *)
tool_exists(s, t) == t \in s.tools

visibility_roles(s, t) == {r \in Roles : <<t, r>> \in s.tool_visibility_roles}

allowed_functions(s, t) == {f \in Functions : s.tool_functions[<<t, f>>] # "absent"}

requires_approval(s, t, f) == s.tool_functions[<<t, f>>] = "approval"

deny_patterns(s, t) == {p \in Patterns : <<t, p>> \in s.parameter_deny_patterns}

role_gates(s, t) ==
  LET required(g) == {r \in Roles : <<t, g, r>> \in s.parameter_role_gates}
  IN  [g \in {g \in Gates : required(g) # {}} |-> required(g)]

rate_limit_per_session(s) == IF s.limit = NoLimit THEN DEFAULT_RATE_LIMIT ELSE s.limit

-----------------------------------------------------------------------------
(* The checks of _evaluate, each on the rows it reads.  The identity check *)
(* reads none: its fields are written into the code.                       *)
InvalidIdentity(q) == ~(DEFAULT_IDENTITY_FIELDS \subseteq Present(q))

NotVisible(s, q) == /\ visibility_roles(s, q.tool) # {}
                    /\ visibility_roles(s, q.tool) \cap q.roles = {}

Refuses(s, q) ==
  [identity   |-> InvalidIdentity(q),
   global     |-> s.active \cap q.roles = {},
   tool       |-> ~tool_exists(s, q.tool),
   visibility |-> NotVisible(s, q),
   function   |-> q.function \notin allowed_functions(s, q.tool),
   pattern    |-> deny_patterns(s, q.tool) \cap q.hits # {},
   gate       |-> GatesMissed(role_gates(s, q.tool), q) # {},
   limit      |-> q.calls >= rate_limit_per_session(s)]

(* Faulty variants: the role gates are forgotten; the quota comes before   *)
(* them.                                                                   *)
MutForgetsGates == [identity |-> "global", global |-> "tool", tool |-> "visibility",
                    visibility |-> "function", function |-> "pattern",
                    pattern |-> "limit", gate |-> "limit", limit |-> "approval"]

MutLimitFirst == [identity |-> "global", global |-> "tool", tool |-> "visibility",
                  visibility |-> "function", function |-> "pattern",
                  pattern |-> "limit", limit |-> "gate", gate |-> "approval"]

(* The order in which _evaluate makes them.                                *)
After == [identity |-> "global", global |-> "tool", tool |-> "visibility",
          visibility |-> "function", function |-> "pattern", pattern |-> "gate",
          gate |-> "limit", limit |-> "approval"]

(* Something that may be true from the moment a question is put: a check   *)
(* refuses; the function is not free of approval; no row has changed.      *)
Holding(s, q) == {l \in Layers : Refuses(s, q)[l]}
                   \cup {"unchanged"}
                   \cup (IF s.tool_functions[<<q.tool, q.function>>] = "free"
                         THEN {} ELSE {"approval"})

(* A call enters evaluate_tool_call; `held` picks what will be watched.    *)
Init == /\ store \in Stores
        /\ pc = "identity"
        /\ question \in Asked
        /\ decision = "none"
        /\ held \in Holding(store, question)

(* One check: its SELECT, and deny or go on.                               *)
CheckLayer(l) ==
  /\ pc = l
  /\ IF Refuses(store, question)[l]
     THEN pc' = "done" /\ decision' = l
     ELSE pc' = After[l] /\ UNCHANGED decision
  /\ UNCHANGED <<store, question, held>>

(* Faulty variant: the row is returned instead of a decision.              *)
MutDecideRow ==
  /\ pc = "approval"
  /\ decision' = store.tool_functions[<<question.tool, question.function>>]
  /\ pc' = "done"
  /\ UNCHANGED <<store, question, held>>

(* All checks have passed: the last SELECT, and the decision.              *)
Decide ==
  /\ pc = "approval"
  /\ decision' = IF requires_approval(store, question.tool, question.function)
                 THEN "ask" ELSE "allow"
  /\ pc' = "done"
  /\ UNCHANGED <<store, question, held>>

(* A query, a regular expression, the call counter or the conversion of a  *)
(* setting raises: PolicyEvaluationError.                                  *)
Raise ==
  /\ pc # "done"
  /\ pc' = "done"
  /\ decision' = "error"
  /\ UNCHANGED <<store, question, held>>

Toggle(set, x) == IF x \in set THEN set \ {x} ELSE set \cup {x}

(* Another connection commits: the rows are s from now on.  What changes   *)
(* after the decision no longer matters to it.                             *)
Commit(s) ==
  /\ pc # "done"
  /\ s # store
  /\ store' = s
  /\ held' = IF held \in Holding(s, question) \ {"unchanged"} THEN held ELSE "nothing"
  /\ UNCHANGED <<pc, question, decision>>

(* One row is inserted, updated or deleted; or the settings are, together. *)
Update ==
  \/ \E r \in Roles : Commit([store EXCEPT !.active = Toggle(@, r)])
  \/ \E t \in Tools : Commit([store EXCEPT !.tools = Toggle(@, t)])
  \/ \E t \in Tools, r \in Roles :
       Commit([store EXCEPT !.tool_visibility_roles = Toggle(@, <<t, r>>)])
  \/ \E t \in Tools, f \in Functions, x \in {"absent", "free", "approval"} :
       Commit([store EXCEPT !.tool_functions = [@ EXCEPT ![<<t, f>>] = x]])
  \/ \E t \in Tools, p \in Patterns :
       Commit([store EXCEPT !.parameter_deny_patterns = Toggle(@, <<t, p>>)])
  \/ \E t \in Tools, g \in Gates, r \in Roles :
       Commit([store EXCEPT !.parameter_role_gates = Toggle(@, <<t, g, r>>)])
  \/ \E n \in Limits \cup {NoLimit}, fields \in IdentitySettings :
       Commit([store EXCEPT !.limit = n, !.identity = fields])

(* seed_example, run again on a live store.  Its script of DELETEs is not  *)
(* a transaction: each table is emptied by a commit of its own.  Other     *)
(* connections may refill a table at once, so any one of them may be found *)
(* emptied.                                                                *)
Emptied(s) ==
  {[s EXCEPT !.active = {}],
   [s EXCEPT !.tools = {}],
   [s EXCEPT !.tool_visibility_roles = {}],
   [s EXCEPT !.tool_functions = [x \in Tools \X Functions |-> "absent"]],
   [s EXCEPT !.parameter_deny_patterns = {}],
   [s EXCEPT !.parameter_role_gates = {}],
   [s EXCEPT !.identity = DEFAULT_IDENTITY_FIELDS, !.limit = NoLimit]}

(* The INSERTs are one transaction; a key that is there again fails it.    *)
Inserted(s) ==
  [active                  |-> s.active \cup ExampleRows.active,
   tools                   |-> s.tools \cup ExampleRows.tools,
   tool_visibility_roles   |-> s.tool_visibility_roles \cup ExampleRows.tool_visibility_roles,
   tool_functions          |-> [x \in Tools \X Functions |->
                                  IF s.tool_functions[x] = "absent"
                                  THEN ExampleRows.tool_functions[x] ELSE s.tool_functions[x]],
   parameter_deny_patterns |-> s.parameter_deny_patterns
                                 \cup ExampleRows.parameter_deny_patterns,
   parameter_role_gates    |-> s.parameter_role_gates \cup ExampleRows.parameter_role_gates,
   identity                |-> ExampleRows.identity,
   limit                   |-> ExampleRows.limit]

Conflicts(s) ==
  \/ s.active \cap ExampleRows.active # {}
  \/ s.tools \cap ExampleRows.tools # {}
  \/ s.tool_visibility_roles \cap ExampleRows.tool_visibility_roles # {}
  \/ \E x \in Tools \X Functions :
       s.tool_functions[x] # "absent" /\ ExampleRows.tool_functions[x] # "absent"
  \/ s.limit # NoLimit

seed_example ==
  \/ \E s \in Emptied(store) : Commit(s)
  \/ ~Conflicts(store) /\ Commit(Inserted(store))

Next == \/ \E l \in Layers : CheckLayer(l)
        \/ Decide
        \/ Raise
        \/ Update
        \/ seed_example

Spec == Init /\ [][Next]_vars

-----------------------------------------------------------------------------
TypeOK == /\ store \in Stores
          /\ pc \in Layers \cup {"approval", "done"}
          /\ question \in Asked
          /\ decision \in Decisions \cup {"none"}
          /\ held \in Layers \cup {"approval", "unchanged", "nothing"}

Granted == decision \in {"allow", "ask"}

(* Whatever rows change while the engine decides, it never grants a call   *)
(* that one and the same check would have refused at every moment: a       *)
(* revoked role, tool, function or quota, and a deny-pattern or gate in    *)
(* force throughout, cannot be missed.                                     *)
ForbiddenThroughoutIsRefused == pc = "done" /\ held \in Layers => ~Granted

(* The rule set that says at L1 what the rows say at L2.                   *)
RuleSetOf(s) ==
  [identity_required_fields |-> s.identity,
   allowed_tools            |-> s.tools,
   tools |-> [t \in s.tools |->
     [allowed_functions           |-> allowed_functions(s, t),
      visible_to_roles            |-> visibility_roles(s, t),
      parameter_deny_patterns     |-> deny_patterns(s, t),
      requires_role_for           |-> role_gates(s, t),
      requires_approval_functions |-> {f \in Functions : requires_approval(s, t, f)}]],
   rate_limit_per_session   |-> rate_limit_per_session(s)]

(* "Everything else mirrors StaticPolicyEngine": if no row changes while   *)
(* it decides and nothing raises, the engine decides as the static engine  *)
(* does on the same rules, down to the check that denies, but for the      *)
(* global RBAC check it makes after the identity check.                    *)
MirrorsStatic ==
  pc = "done" /\ held = "unchanged" /\ decision # "error" =>
    LET static == StaticDecision(RuleSetOf(store), question)
    IN  IF static # "identity" /\ store.active \cap question.roles = {}
        THEN decision = "global"
        ELSE decision = static

(* "Allowed but require human-in-the-loop approval": a function that at no *)
(* moment was allowed without approval is never allowed without approval.  *)
NeverUnapproved == pc = "done" /\ held = "approval" => decision # "allow"
=============================================================================
