--------------------------- MODULE MCDbPolicyEngine ---------------------------
(* Small instances of DbPolicyEngine and Registry: one tool with one       *)
(* function, two roles, one deny-pattern, one gate.                        *)
EXTENDS Registry

CONSTANTS t, f, r1, p, g

Question(fields, roles, hits, gates, calls) ==
  [fields |-> fields, roles |-> roles, tool |-> t, function |-> f,
   hits |-> hits, gates |-> gates, calls |-> calls]

AllFields == {"user_id", "agent_id", "session_id"}

(* An agent in role r1 whose parameters meet the pattern, or the gate at   *)
(* its limit; and one that does not say which agent it is.                 *)
Typical == {Question(AllFields, {r1}, {p}, {}, 0),
            Question(AllFields, {r1}, {}, {g}, 1),
            Question({"user_id"}, {r1}, {}, {}, 0)}

Defaults == {DEFAULT_IDENTITY_FIELDS}

(* A tool like deploy_tool: its function needs approval, the gate a role.  *)
(* The limit that seed_example writes is the one a missing row stands for. *)
Seeded == [active                  |-> Roles,
           tools                   |-> {t},
           tool_visibility_roles   |-> {<<t, r1>>},
           tool_functions          |-> [x \in Tools \X Functions |-> "approval"],
           parameter_deny_patterns |-> {<<t, p>>},
           parameter_role_gates    |-> {<<t, g, r>> : r \in Roles \ {r1}},
           identity                |-> DEFAULT_IDENTITY_FIELDS,
           limit                   |-> NoLimit]
=============================================================================
