------------------------------- MODULE Registry -------------------------------
(***************************************************************************)
(* DbBackedToolRegistry (registry/db_registry.py) on the store it shares   *)
(* with DbPolicyEngine: get_permitted_tools for the context of the         *)
(* question, one SELECT after the other, while the rows change.            *)
(*                                                                         *)
(* Registry and engine only read the store, and neither reads what the     *)
(* other has found out: a behaviour runs one or the other.                 *)
(***************************************************************************)
EXTENDS DbPolicyEngine

VARIABLES
  step,       \* the SELECT that comes next, "idle" before the first
  todo,       \* the rows of tool_names() that are still to be looked at
  manifests   \* the manifests so far

listing == <<step, todo, manifests>>

Listed == step = "roles" /\ todo = {}

RegistryInit == /\ Init
                /\ step = "idle"
                /\ todo = {}
                /\ manifests = {}

(* SELECT returns the tools in some order.                                 *)
current == CHOOSE t \in todo : TRUE

SelectNames == /\ step = "idle" /\ pc = "identity"
               /\ step' = "roles"
               /\ todo' = store.tools
               /\ UNCHANGED manifests

(* One query of _is_tool_visible: go on to the next, or to the next tool.  *)
Look(found, next) ==
  /\ todo # {}
  /\ \/ found /\ step' = next /\ UNCHANGED todo
     \/ ~found /\ step' = "roles" /\ todo' = todo \ {current}
  /\ UNCHANGED manifests

(* Faulty variant: without the global RBAC layer, as at L1.                *)
MutRolesUnchecked == step = "roles" /\ Look(TRUE, "tool")

SelectRoles == step = "roles" /\ Look(store.active \cap question.roles # {}, "tool")

SelectTool == step = "tool" /\ Look(tool_exists(store, current), "visibility")

(* Faulty variant: a tool without visibility rows is visible to no role.   *)
MutInvisibleByDefault ==
  step = "visibility" /\ Look(visibility_roles(store, current) \cap question.roles # {},
                              "functions")

SelectVisibility ==
  LET roles == visibility_roles(store, current)
  IN  step = "visibility" /\ Look(roles = {} \/ roles \cap question.roles # {}, "functions")

SelectFunctions ==
  /\ step = "functions"
  /\ manifests' = manifests \cup
       {[tool |-> current, functions |-> allowed_functions(store, current)]}
  /\ todo' = todo \ {current}
  /\ step' = "roles"

RegistryNext ==
  \/ step = "idle" /\ Next /\ UNCHANGED listing
  \/ /\ SelectNames \/ SelectRoles \/ SelectTool \/ SelectVisibility \/ SelectFunctions
     /\ UNCHANGED vars
  \/ step # "idle" /\ ~Listed /\ (Update \/ seed_example) /\ UNCHANGED listing

RegistrySpec == RegistryInit /\ [][RegistryNext]_<<vars, listing>>

-----------------------------------------------------------------------------
Sees(t, f) == \E m \in manifests : m.tool = t /\ f \in m.functions

(* The checks of the engine that depend on the tool, not on the call.      *)
ToolLayers == {"global", "tool", "visibility", "function"}

(* "A context is never even shown a tool/function it isn't entitled to":   *)
(* what one of the engine's checks refuses at every moment of the listing  *)
(* is not in it, whatever rows change between its SELECTs.                 *)
HiddenThroughoutIsNotListed ==
  Listed /\ held \in ToolLayers => ~Sees(question.tool, question.function)

(* "What can this context see never drifts from what can this context do": *)
(* on rows that do not change, exactly those functions are listed which    *)
(* the engine's own checks of role, tool, visibility and function pass.    *)
SeesWhatItCanDo ==
  Listed /\ held = "unchanged" =>
    (Sees(question.tool, question.function)
       <=> \A l \in ToolLayers : ~Refuses(store, question)[l])

(* "Same least-agency contract as StaticToolRegistry", but for the roles:  *)
(* on rows that do not change the listing is that of the static registry   *)
(* on the same rules, or empty if no role of the context is active.  Tools *)
(* with visible_to_roles are listed by role there too; the docstring of    *)
(* static_registry.py, which denies it, is older than its code.            *)
ListsLikeStatic ==
  Listed /\ held = "unchanged" =>
    manifests = IF store.active \cap question.roles = {} THEN {}
                ELSE StaticManifests(RuleSetOf(store), question.roles)
=============================================================================
