----------------------------- MODULE PolicyProofs -----------------------------
(***************************************************************************)
(* Proofs about DbPolicyEngine and Registry, for any sets of tools,        *)
(* functions, roles, patterns, gates and questions, and any commits        *)
(* between the SELECTs of an evaluation or of a listing.                   *)
(***************************************************************************)
EXTENDS Registry, TLAPS

(* First the engine.                                                       *)

(* The checks that lie behind the engine when it is about to make one.     *)
Behind ==
  [identity   |-> {},
   global     |-> {"identity"},
   tool       |-> {"identity", "global"},
   visibility |-> {"identity", "global", "tool"},
   function   |-> {"identity", "global", "tool", "visibility"},
   pattern    |-> {"identity", "global", "tool", "visibility", "function"},
   gate       |-> {"identity", "global", "tool", "visibility", "function", "pattern"},
   limit      |-> {"identity", "global", "tool", "visibility", "function", "pattern",
                   "gate"},
   approval   |-> Layers]

Places == Layers \cup {"approval"}

(* What is watched is still true while the engine decides ...              *)
HeldInv == pc # "done" /\ held \in Layers => Refuses(store, question)[held]

(* ... so a check that has refused throughout still lies ahead, ...        *)
AheadInv == \A l \in Places : pc = l => held \notin Behind[l]

(* ... and if no row has changed, the checks behind would pass again.      *)
PassedInv == \A l \in Places : pc = l /\ held = "unchanged" =>
               \A k \in Behind[l] : ~Refuses(store, question)[k]

(* What the engine decides on rows that do not change.                     *)
Settled(s, q, d) ==
  d = LET refuses == Refuses(s, q) IN
      IF refuses.identity        THEN "identity"
      ELSE IF refuses.global     THEN "global"
      ELSE IF refuses.tool       THEN "tool"
      ELSE IF refuses.visibility THEN "visibility"
      ELSE IF refuses.function   THEN "function"
      ELSE IF refuses.pattern    THEN "pattern"
      ELSE IF refuses.gate       THEN "gate"
      ELSE IF refuses.limit      THEN "limit"
      ELSE IF requires_approval(s, q.tool, q.function) THEN "ask"
      ELSE "allow"

SettledInv == pc = "done" /\ held = "unchanged" /\ decision # "error" =>
                Settled(store, question, decision)

WatchInv == HeldInv /\ AheadInv /\ ForbiddenThroughoutIsRefused

Inv == WatchInv /\ PassedInv /\ SettledInv /\ pc \in Places \cup {"done"}

-----------------------------------------------------------------------------
(* Every check is made before the next, and none is left out.              *)
LEMMA Order ==
  \A l \in Layers : /\ After[l] \in Places
                    /\ Behind[After[l]] = Behind[l] \cup {l}
  BY DEF Layers, Places, After, Behind

(* The invariant holds when a call enters the engine.                      *)
LEMMA InvInit == Init => Inv
<1> SUFFICES ASSUME Init PROVE Inv
  OBVIOUS
<1>1. pc = "identity" /\ "identity" \in Places
  BY DEF Init, Places, Layers
<1>2. HeldInv
  BY DEF Init, HeldInv, Holding, Layers
<1>3. AheadInv /\ PassedInv
  BY <1>1 DEF AheadInv, PassedInv, Behind
<1> QED
  BY <1>1, <1>2, <1>3 DEF Inv, WatchInv, ForbiddenThroughoutIsRefused, SettledInv

(* Every check, every decision and every commit of another connection      *)
(* preserves the invariant.                                                *)
LEMMA InvStep == Inv /\ [Next]_vars => Inv'
<1> SUFFICES ASSUME Inv, [Next]_vars PROVE Inv'
  OBVIOUS
<1>0. /\ HeldInv /\ AheadInv /\ ForbiddenThroughoutIsRefused /\ PassedInv /\ SettledInv
      /\ pc \in Places \cup {"done"}
  BY DEF Inv, WatchInv
<1>1. ASSUME NEW l \in Layers, CheckLayer(l), Refuses(store, question)[l]
      PROVE  Inv'
  <2>1. /\ pc = l /\ pc' = "done" /\ decision' = l
        /\ UNCHANGED <<store, question, held>>
    BY <1>1 DEF CheckLayer
  <2>2. HeldInv' /\ AheadInv' /\ PassedInv'
    BY <2>1 DEF HeldInv, AheadInv, PassedInv, Places, Layers
  <2>3. ForbiddenThroughoutIsRefused'
    BY <2>1 DEF ForbiddenThroughoutIsRefused, Granted, Layers
  <2>4. l \in Places
    BY DEF Places
  <2>5. SettledInv'
    <3> SUFFICES ASSUME held = "unchanged"
                 PROVE  Settled(store, question, l)
      BY <2>1 DEF SettledInv, Settled, Refuses
    <3>1. \A k \in Behind[l] : ~Refuses(store, question)[k]
      BY <1>0, <2>1, <2>4 DEF PassedInv
    <3> QED
      BY <1>1, <3>1 DEF Settled, Layers, Behind
  <2> QED
    BY <2>1, <2>2, <2>3, <2>5 DEF Inv, WatchInv
<1>2. ASSUME NEW l \in Layers, CheckLayer(l), ~Refuses(store, question)[l]
      PROVE  Inv'
  <2>1. /\ pc = l /\ pc' = After[l]
        /\ UNCHANGED <<store, question, held, decision>>
    BY <1>2 DEF CheckLayer
  <2>2. /\ l \in Places /\ l # "done" /\ After[l] \in Places /\ After[l] # "done"
        /\ Behind[After[l]] = Behind[l] \cup {l}
    BY Order DEF Places, Layers
  <2>3. HeldInv'
    BY <1>0, <2>1, <2>2 DEF HeldInv, Refuses
  <2>4. AheadInv'
    BY <1>0, <1>2, <2>1, <2>2 DEF AheadInv, HeldInv
  <2>5. PassedInv'
    BY <1>0, <1>2, <2>1, <2>2 DEF PassedInv
  <2>6. ForbiddenThroughoutIsRefused' /\ SettledInv'
    BY <2>1, <2>2 DEF ForbiddenThroughoutIsRefused, SettledInv
  <2> QED
    BY <2>1, <2>2, <2>3, <2>4, <2>5, <2>6 DEF Inv, WatchInv
<1>3. ASSUME Decide PROVE Inv'
  <2>1. /\ pc = "approval" /\ pc' = "done" /\ "approval" \in Places
        /\ decision' = IF requires_approval(store, question.tool, question.function)
                       THEN "ask" ELSE "allow"
        /\ UNCHANGED <<store, question, held>>
    BY <1>3 DEF Decide, Places
  <2>2. HeldInv' /\ AheadInv' /\ PassedInv'
    BY <2>1 DEF HeldInv, AheadInv, PassedInv, Places, Layers
  <2>3. held \notin Layers
    BY <1>0, <2>1 DEF AheadInv, Behind
  <2>4. SettledInv'
    <3> SUFFICES ASSUME held = "unchanged"
                 PROVE  Settled(store, question, decision')
      BY <2>1 DEF SettledInv, Settled, Refuses, requires_approval
    <3>1. \A k \in Layers : ~Refuses(store, question)[k]
      BY <1>0, <2>1 DEF PassedInv, Behind
    <3> QED
      BY <2>1, <3>1 DEF Settled, Layers
  <2> QED
    BY <2>1, <2>2, <2>3, <2>4 DEF Inv, WatchInv, ForbiddenThroughoutIsRefused
<1>4. ASSUME Raise PROVE Inv'
  <2>1. pc' = "done" /\ decision' = "error" /\ UNCHANGED <<store, question, held>>
    BY <1>4 DEF Raise
  <2> QED
    BY <2>1 DEF Inv, WatchInv, HeldInv, AheadInv, PassedInv, SettledInv, Places, Layers,
                ForbiddenThroughoutIsRefused, Granted
<1>5. ASSUME NEW s, Commit(s) PROVE Inv'
  <2>1. /\ pc # "done" /\ UNCHANGED <<pc, question, decision>> /\ store' = s
        /\ \/ held' = "nothing"
           \/ held' = held /\ held \in Holding(s, question) \ {"unchanged"}
    BY <1>5 DEF Commit
  <2>2. "nothing" \notin Layers /\ "nothing" # "unchanged"
    BY DEF Layers
  <2>3. HeldInv'
    BY <2>1, <2>2 DEF HeldInv, Holding, Layers
  <2>4. "nothing" \notin Behind[pc]
    BY <1>0, <2>1 DEF Places, Layers, Behind
  <2>5. AheadInv'
    BY <1>0, <2>1, <2>4 DEF AheadInv
  <2>6. held' # "unchanged"
    BY <2>1, <2>2
  <2> QED
    BY <1>0, <2>1, <2>3, <2>5, <2>6 DEF Inv, WatchInv, PassedInv, SettledInv,
                                       ForbiddenThroughoutIsRefused
<1>6. ASSUME UNCHANGED vars PROVE Inv'
  BY <1>6 DEF vars, Inv, WatchInv, HeldInv, AheadInv, PassedInv, SettledInv, Settled,
              ForbiddenThroughoutIsRefused, Granted
<1>7. CASE Update
  BY <1>5, <1>7 DEF Update
<1>8. CASE seed_example
  BY <1>5, <1>8 DEF seed_example
<1> QED
  BY <1>1, <1>2, <1>3, <1>4, <1>6, <1>7, <1>8 DEF Next

-----------------------------------------------------------------------------
(* The engine never grants a call that one and the same check would have   *)
(* refused at every moment while it decided, however the rows change       *)
(* between its SELECTs.                                                    *)
THEOREM RefusalsAreNotMissed == Spec => []ForbiddenThroughoutIsRefused
<1>1. Inv => ForbiddenThroughoutIsRefused
  BY DEF Inv, WatchInv
<1> QED
  BY InvInit, InvStep, <1>1, PTL DEF Spec

(* The static engine, on the rule set that corresponds to the rows, makes  *)
(* the same checks in the same order, the global one apart.                *)
LEMMA StaticSettled ==
  ASSUME NEW s, NEW q, s.identity = DEFAULT_IDENTITY_FIELDS
  PROVE  LET static == StaticDecision(RuleSetOf(s), q) IN
         Settled(s, q, IF static # "identity" /\ s.active \cap q.roles = {}
                       THEN "global" ELSE static)
<1> DEFINE rs == RuleSetOf(s)
           rule == rs.tools[q.tool]
<1>1. /\ rs.identity_required_fields = DEFAULT_IDENTITY_FIELDS
      /\ rs.allowed_tools = s.tools
      /\ DOMAIN rs.tools = s.tools
      /\ rs.rate_limit_per_session = rate_limit_per_session(s)
  BY DEF RuleSetOf
<1>2. ASSUME q.tool \in s.tools
      PROVE  /\ rule.allowed_functions = allowed_functions(s, q.tool)
             /\ rule.visible_to_roles = visibility_roles(s, q.tool)
             /\ rule.parameter_deny_patterns = deny_patterns(s, q.tool)
             /\ rule.requires_role_for = role_gates(s, q.tool)
             /\ rule.requires_approval_functions =
                  {f \in Functions : requires_approval(s, q.tool, f)}
  BY <1>2 DEF RuleSetOf
<1>3. q.function \in allowed_functions(s, q.tool) => q.function \in Functions
  BY DEF allowed_functions
<1> HIDE DEF rs, rule
<1>4. StaticDecision(rs, q) =
        LET refuses == Refuses(s, q) IN
        IF refuses.identity        THEN "identity"
        ELSE IF refuses.tool       THEN "tool"
        ELSE IF refuses.visibility THEN "visibility"
        ELSE IF refuses.function   THEN "function"
        ELSE IF refuses.pattern    THEN "pattern"
        ELSE IF refuses.gate       THEN "gate"
        ELSE IF refuses.limit      THEN "limit"
        ELSE IF requires_approval(s, q.tool, q.function) THEN "ask"
        ELSE "allow"
  BY <1>1, <1>2, <1>3 DEF StaticDecision, Refuses, InvalidIdentity, NotVisible, tool_exists, rule
<1>5. Refuses(s, q).global = (s.active \cap q.roles = {})
  BY DEF Refuses
<1> QED
  BY <1>4, <1>5 DEF Settled, rs

-----------------------------------------------------------------------------
(* A commit that leaves the store well typed leaves everything well typed. *)
LEMMA CommitType ==
  ASSUME TypeOK, NEW s \in Stores, Commit(s)
  PROVE  TypeOK'
  BY DEF TypeOK, Commit

(* Adding or removing an element stays within the set it is taken from.    *)
LEMMA ToggleType ==
  ASSUME NEW S, NEW set \in SUBSET S, NEW x \in S
  PROVE  Toggle(set, x) \in SUBSET S
  BY DEF Toggle

(* Every update of a row leaves a well-typed store.                        *)
LEMMA UpdateType == TypeOK /\ Update => TypeOK'
<1> SUFFICES ASSUME TypeOK, Update PROVE TypeOK'
  OBVIOUS
<1>0. store \in Stores
  BY DEF TypeOK
<1>1. ASSUME NEW r \in Roles, Commit([store EXCEPT !.active = Toggle(@, r)])
      PROVE  TypeOK'
  <2>1. Toggle(store.active, r) \in SUBSET Roles
    BY <1>0, ToggleType DEF Stores
  <2>2. [store EXCEPT !.active = Toggle(@, r)] \in Stores
    BY <1>0, <2>1 DEF Stores
  <2> QED
    BY <1>1, <2>2, CommitType
<1>2. ASSUME NEW t \in Tools, Commit([store EXCEPT !.tools = Toggle(@, t)])
      PROVE  TypeOK'
  <2>1. Toggle(store.tools, t) \in SUBSET Tools
    BY <1>0, ToggleType DEF Stores
  <2>2. [store EXCEPT !.tools = Toggle(@, t)] \in Stores
    BY <1>0, <2>1 DEF Stores
  <2> QED
    BY <1>2, <2>2, CommitType
<1>3. ASSUME NEW t \in Tools, NEW r \in Roles,
             Commit([store EXCEPT !.tool_visibility_roles = Toggle(@, <<t, r>>)])
      PROVE  TypeOK'
  <2>0. store.tool_visibility_roles \in SUBSET (Tools \X Roles) /\ <<t, r>> \in Tools \X Roles
    BY <1>0 DEF Stores
  <2>1. Toggle(store.tool_visibility_roles, <<t, r>>) \in SUBSET (Tools \X Roles)
    BY <2>0 DEF Toggle
  <2>2. [store EXCEPT !.tool_visibility_roles = Toggle(@, <<t, r>>)] \in Stores
    BY <1>0, <2>1 DEF Stores
  <2> QED
    BY <1>3, <2>2, CommitType
<1>4. ASSUME NEW t \in Tools, NEW f \in Functions, NEW x \in {"absent", "free", "approval"},
             Commit([store EXCEPT !.tool_functions = [@ EXCEPT ![<<t, f>>] = x]])
      PROVE  TypeOK'
  <2>1. [store.tool_functions EXCEPT ![<<t, f>>] = x]
          \in [Tools \X Functions -> {"absent", "free", "approval"}]
    BY <1>0 DEF Stores
  <2>2. [store EXCEPT !.tool_functions = [@ EXCEPT ![<<t, f>>] = x]] \in Stores
    BY <1>0, <2>1 DEF Stores
  <2> QED
    BY <1>4, <2>2, CommitType
<1>5. ASSUME NEW t \in Tools, NEW p \in Patterns,
             Commit([store EXCEPT !.parameter_deny_patterns = Toggle(@, <<t, p>>)])
      PROVE  TypeOK'
  <2>0. store.parameter_deny_patterns \in SUBSET (Tools \X Patterns) /\ <<t, p>> \in Tools \X Patterns
    BY <1>0 DEF Stores
  <2>1. Toggle(store.parameter_deny_patterns, <<t, p>>) \in SUBSET (Tools \X Patterns)
    BY <2>0 DEF Toggle
  <2>2. [store EXCEPT !.parameter_deny_patterns = Toggle(@, <<t, p>>)] \in Stores
    BY <1>0, <2>1 DEF Stores
  <2> QED
    BY <1>5, <2>2, CommitType
<1>6. ASSUME NEW t \in Tools, NEW g \in Gates, NEW r \in Roles,
             Commit([store EXCEPT !.parameter_role_gates = Toggle(@, <<t, g, r>>)])
      PROVE  TypeOK'
  <2>0. store.parameter_role_gates \in SUBSET (Tools \X Gates \X Roles) /\ <<t, g, r>> \in Tools \X Gates \X Roles
    BY <1>0 DEF Stores
  <2>1. Toggle(store.parameter_role_gates, <<t, g, r>>) \in SUBSET (Tools \X Gates \X Roles)
    BY <2>0 DEF Toggle
  <2>2. [store EXCEPT !.parameter_role_gates = Toggle(@, <<t, g, r>>)] \in Stores
    BY <1>0, <2>1 DEF Stores
  <2> QED
    BY <1>6, <2>2, CommitType
<1>7. ASSUME NEW n \in Limits \cup {NoLimit}, NEW fields \in IdentitySettings,
             Commit([store EXCEPT !.limit = n, !.identity = fields])
      PROVE  TypeOK'
  <2>1. [store EXCEPT !.limit = n, !.identity = fields] \in Stores
    BY <1>0 DEF Stores
  <2> QED
    BY <1>7, <2>1, CommitType
<1> QED
  BY <1>1, <1>2, <1>3, <1>4, <1>5, <1>6, <1>7 DEF Update

(* So does every commit of seed_example.                                   *)
LEMMA SeedType == TypeOK /\ seed_example => TypeOK'
<1> SUFFICES ASSUME TypeOK, seed_example PROVE TypeOK'
  OBVIOUS
<1>0. store \in Stores /\ ExampleRows \in Stores
  BY SeedAssumption DEF TypeOK
<1>1. ASSUME NEW s \in Emptied(store) PROVE s \in Stores
  <2>1. /\ [store EXCEPT !.active = {}] \in Stores
        /\ [store EXCEPT !.tools = {}] \in Stores
    BY <1>0 DEF Stores
  <2>2. [store EXCEPT !.tool_visibility_roles = {}] \in Stores
    BY <1>0 DEF Stores
  <2>3. [store EXCEPT !.tool_functions = [x \in Tools \X Functions |-> "absent"]] \in Stores
    <3>1. [x \in Tools \X Functions |-> "absent"]
            \in [Tools \X Functions -> {"absent", "free", "approval"}]
      OBVIOUS
    <3> QED
      BY <1>0, <3>1 DEF Stores
  <2>4. [store EXCEPT !.parameter_deny_patterns = {}] \in Stores
    BY <1>0 DEF Stores
  <2>5. [store EXCEPT !.parameter_role_gates = {}] \in Stores
    BY <1>0 DEF Stores
  <2>6. [store EXCEPT !.identity = DEFAULT_IDENTITY_FIELDS, !.limit = NoLimit] \in Stores
    BY <1>0, SeedAssumption DEF Stores
  <2> QED
    BY <1>1, <2>1, <2>2, <2>3, <2>4, <2>5, <2>6 DEF Emptied
<1>2. Inserted(store) \in Stores
  <2>1. [x \in Tools \X Functions |->
           IF store.tool_functions[x] = "absent"
           THEN ExampleRows.tool_functions[x] ELSE store.tool_functions[x]]
          \in [Tools \X Functions -> {"absent", "free", "approval"}]
    BY <1>0 DEF Stores
  <2> QED
    BY <1>0, <2>1 DEF Inserted, Stores
<1> QED
  BY <1>1, <1>2, CommitType DEF seed_example

(* The rows, the place in the evaluation and the decision keep their types *)
(* whatever is committed in between.                                       *)
THEOREM TypeCorrect == Spec => []TypeOK
<1>1. Init => TypeOK
  BY DEF Init, TypeOK, Holding, Layers, Decisions
<1>2. TypeOK /\ [Next]_vars => TypeOK'
  <2> SUFFICES ASSUME TypeOK, [Next]_vars PROVE TypeOK'
    OBVIOUS
  <2>1. ASSUME NEW l \in Layers, CheckLayer(l) PROVE TypeOK'
    <3>1. After[l] \in Layers \cup {"approval", "done"}
      BY DEF After, Layers
    <3> QED
      BY <2>1, <3>1 DEF CheckLayer, TypeOK, Decisions
  <2>2. ASSUME Decide PROVE TypeOK'
    BY <2>2 DEF Decide, TypeOK, Decisions
  <2>3. ASSUME Raise PROVE TypeOK'
    BY <2>3 DEF Raise, TypeOK, Decisions
  <2>4. CASE UNCHANGED vars
    BY <2>4 DEF vars, TypeOK
  <2> QED
    BY <2>1, <2>2, <2>3, <2>4, UpdateType, SeedType DEF Next
<1> QED
  BY <1>1, <1>2, PTL DEF Spec

(* On a store whose identity setting is the default, the engine decides as *)
(* StaticPolicyEngine does on the same rules, down to the check that       *)
(* denies, but for the global RBAC check.                                  *)
THEOREM MirrorsStaticEngine ==
  ASSUME IdentitySettings = {DEFAULT_IDENTITY_FIELDS}
  PROVE  Spec => []MirrorsStatic
<1>1. TypeOK /\ Inv => MirrorsStatic
  <2> SUFFICES ASSUME TypeOK, Inv, pc = "done", held = "unchanged", decision # "error"
               PROVE  LET static == StaticDecision(RuleSetOf(store), question)
                      IN  decision = IF static # "identity" /\ store.active \cap question.roles = {}
                                     THEN "global" ELSE static
    BY DEF MirrorsStatic
  <2>1. store.identity = DEFAULT_IDENTITY_FIELDS
    BY DEF TypeOK, Stores
  <2>2. Settled(store, question, decision)
    BY DEF Inv, SettledInv
  <2> QED
    BY <2>1, <2>2, StaticSettled DEF Settled
<1> QED
  BY InvInit, InvStep, TypeCorrect, <1>1, PTL DEF Spec

-----------------------------------------------------------------------------
(* The registry.  A listing of what is there at its end says nothing of    *)
(* the rows it was made from.  The invariants say of every moment how far  *)
(* the listing has come with the tool it is at, under the fact that has    *)
(* been true ever since it began: a refusal (HiddenInv), or that no row    *)
(* has changed (FixedInv).                                                 *)

Looking == {"tool", "visibility", "functions"}

(* Where a listing can be.                                                 *)
PlaceInv == /\ step \in Looking \cup {"idle", "roles"}
            /\ step # "idle" => pc = "identity"
            /\ step = "idle" => manifests = {}
            /\ step \in Looking => todo # {}

(* A check of the tool that has refused throughout was not passed, and     *)
(* what it hides is not among the manifests.                               *)
HiddenInv ==
  held \in ToolLayers =>
    /\ ~Sees(question.tool, question.function)
    /\ step \in Looking => held # "global"
    /\ step \in {"visibility", "functions"} /\ current = question.tool => held # "tool"
    /\ step = "functions" /\ current = question.tool => held # "visibility"

(* On rows s, the context of q is shown the tool t.                        *)
Open(s, q, t) == \/ visibility_roles(s, t) = {}
                 \/ visibility_roles(s, t) \cap q.roles # {}

Manifests(s, q, tools) ==
  {[tool |-> t, functions |-> allowed_functions(s, t)] :
     t \in {t \in tools : s.active \cap q.roles # {} /\ Open(s, q, t)}}

(* On rows that have not changed, the manifests are those of the tools     *)
(* that have been looked at.                                               *)
FixedInv ==
  step # "idle" /\ held = "unchanged" =>
    /\ todo \subseteq store.tools
    /\ manifests = Manifests(store, question, store.tools \ todo)
    /\ step \in Looking => store.active \cap question.roles # {}
    /\ step = "functions" => Open(store, question, current)

ListInv == PlaceInv /\ HeldInv /\ HiddenInv /\ FixedInv

-----------------------------------------------------------------------------
(* Before get_permitted_tools is called nothing is listed.                 *)
LEMMA ListInit == RegistryInit => ListInv
<1> SUFFICES ASSUME RegistryInit PROVE ListInv
  OBVIOUS
<1>1. HeldInv
  BY InvInit DEF RegistryInit, Inv, WatchInv
<1> QED
  BY <1>1 DEF RegistryInit, ListInv, PlaceInv, HiddenInv, FixedInv, Sees, Looking

(* A commit of another connection leaves the listing where it is.          *)
LEMMA ListCommit ==
  ASSUME ListInv, NEW s, Commit(s), UNCHANGED listing
  PROVE  ListInv'
<1>1. /\ store' = s /\ s # store /\ UNCHANGED <<pc, question, step, todo, manifests>>
      /\ held' = IF held \in Holding(s, question) \ {"unchanged"} THEN held ELSE "nothing"
  BY DEF Commit, listing
<1>2. held' # "unchanged" /\ (held' = held \/ held' \notin Layers)
  BY <1>1 DEF Layers
<1>3. PlaceInv'
  BY <1>1 DEF ListInv, PlaceInv
<1>4. HeldInv'
  BY <1>1 DEF HeldInv, Holding, Layers
<1>5. HiddenInv'
  BY <1>1, <1>2 DEF ListInv, HiddenInv, Sees, current, ToolLayers, Layers
<1>6. FixedInv'
  BY <1>2 DEF FixedInv
<1> QED
  BY <1>3, <1>4, <1>5, <1>6 DEF ListInv

(* Updates and seed_example change the store by commits.                   *)
LEMMA CommitsOnly ==
  ASSUME Update \/ seed_example
  PROVE  \E s : Commit(s)
<1>1. CASE Update
  BY <1>1 DEF Update
<1>2. CASE seed_example
  BY <1>2 DEF seed_example
<1> QED
  BY <1>1, <1>2

(* A step of the engine, before a listing begins.                          *)
LEMMA ListEngine ==
  ASSUME ListInv, step = "idle", UNCHANGED listing,
         \/ \E l \in Layers : CheckLayer(l)
         \/ Decide
         \/ Raise
  PROVE  ListInv'
<1>1. /\ UNCHANGED <<store, question, held, step, todo, manifests>>
      /\ pc # "done"
  BY DEF CheckLayer, Decide, Raise, listing, Layers
<1>2. HeldInv'
  BY <1>1 DEF ListInv, HeldInv
<1> QED
  BY <1>1, <1>2 DEF ListInv, PlaceInv, HiddenInv, FixedInv, Sees, Looking

(* tool_names(): nothing has been looked at yet.                           *)
LEMMA ListNames ==
  ASSUME ListInv, SelectNames, UNCHANGED vars
  PROVE  ListInv'
<1>1. /\ step = "idle" /\ pc = "identity" /\ step' = "roles" /\ todo' = store.tools
      /\ UNCHANGED <<manifests, store, pc, question, decision, held>>
  BY DEF SelectNames, vars
<1>2. manifests = {}
  BY <1>1 DEF ListInv, PlaceInv
<1>3. HeldInv' /\ PlaceInv' /\ HiddenInv'
  BY <1>1, <1>2 DEF ListInv, PlaceInv, HeldInv, HiddenInv, Sees, Looking
<1>4. FixedInv'
  <2>1. Manifests(store, question, store.tools \ store.tools) = {}
    BY DEF Manifests
  <2> QED
    BY <1>1, <1>2, <2>1 DEF FixedInv, Looking, Manifests, Open, visibility_roles,
       allowed_functions
<1> QED
  BY <1>3, <1>4 DEF ListInv

(* A query of _is_tool_visible that finds nothing, of a tool that is then  *)
(* not to be shown, ends with this tool.                                   *)
LEMMA ListSkip ==
  ASSUME ListInv, UNCHANGED vars, step # "idle", todo # {},
         step' = "roles", todo' = todo \ {current}, UNCHANGED manifests,
         held = "unchanged" =>
           store.active \cap question.roles = {} \/ ~Open(store, question, current)
  PROVE  ListInv'
<1>1. current \in todo
  BY DEF current
<1>2. UNCHANGED <<store, pc, question, decision, held>>
  BY DEF vars
<1>3. PlaceInv' /\ HeldInv' /\ HiddenInv'
  BY <1>2 DEF ListInv, PlaceInv, HeldInv, HiddenInv, Sees, Looking
<1>4. FixedInv'
  <2> SUFFICES ASSUME held = "unchanged"
               PROVE  /\ todo' \subseteq store.tools
                      /\ manifests = Manifests(store, question, store.tools \ todo')
    BY <1>2 DEF FixedInv, Looking, Manifests, Open, visibility_roles, allowed_functions
  <2>1. /\ todo \subseteq store.tools
        /\ manifests = Manifests(store, question, store.tools \ todo)
    BY DEF ListInv, FixedInv
  <2>2. store.active \cap question.roles = {} \/ ~Open(store, question, current)
    OBVIOUS
  <2>3. Manifests(store, question, store.tools \ (todo \ {current})) =
          Manifests(store, question, store.tools \ todo)
    BY <1>1, <2>1, <2>2 DEF Manifests
  <2> QED
    BY <2>1, <2>3
<1> QED
  BY <1>3, <1>4 DEF ListInv

(* Of a refusal that has stood throughout, the rows still say so.          *)
LEMMA StillRefused ==
  ASSUME ListInv, step # "idle", held \in ToolLayers
  PROVE  Refuses(store, question)[held]
  BY DEF ListInv, PlaceInv, HeldInv, ToolLayers, Layers

(* The check of the active roles.                                          *)
LEMMA ListRoles ==
  ASSUME ListInv, SelectRoles, UNCHANGED vars
  PROVE  ListInv'
<1>0. UNCHANGED <<store, pc, question, decision, held>>
  BY DEF vars
<1>1. CASE store.active \cap question.roles = {}
  BY <1>1, ListSkip DEF SelectRoles, Look
<1>2. CASE store.active \cap question.roles # {}
  <2>1. /\ step = "roles" /\ step' = "tool" /\ todo # {} /\ UNCHANGED <<todo, manifests>>
    BY <1>2 DEF SelectRoles, Look
  <2>2. held # "global"
    <3> SUFFICES ASSUME held = "global" PROVE FALSE
      OBVIOUS
    <3>1. Refuses(store, question)["global"]
      BY <2>1, StillRefused DEF ToolLayers
    <3> QED
      BY <1>2, <3>1 DEF Refuses
  <2>3. PlaceInv' /\ HeldInv'
    BY <1>0, <2>1 DEF ListInv, PlaceInv, HeldInv, Looking
  <2>4. HiddenInv'
    BY <1>0, <2>1, <2>2 DEF ListInv, HiddenInv, Sees
  <2>5. FixedInv'
    BY <1>0, <1>2, <2>1, SMTT(30) DEF ListInv, FixedInv, Manifests, Open, visibility_roles,
       allowed_functions
  <2> QED
    BY <2>3, <2>4, <2>5 DEF ListInv
<1> QED
  BY <1>1, <1>2

(* The check that the tool is still there.                                 *)
LEMMA ListTool ==
  ASSUME ListInv, SelectTool, UNCHANGED vars
  PROVE  ListInv'
<1>0. UNCHANGED <<store, pc, question, decision, held>> /\ step = "tool" /\ todo # {}
  BY DEF vars, SelectTool, Look
<1>1. CASE ~tool_exists(store, current)
  <2>1. held # "unchanged"
    BY <1>0, <1>1 DEF ListInv, FixedInv, tool_exists, current
  <2> QED
    BY <1>0, <1>1, <2>1, ListSkip DEF SelectTool, Look
<1>2. CASE tool_exists(store, current)
  <2>1. step' = "visibility" /\ UNCHANGED <<todo, manifests>>
    BY <1>2 DEF SelectTool, Look
  <2>2. current' = current
    BY <2>1 DEF current
  <2>3. current = question.tool => held # "tool"
    <3> SUFFICES ASSUME current = question.tool, held = "tool" PROVE FALSE
      OBVIOUS
    <3>1. Refuses(store, question)["tool"]
      BY <1>0, StillRefused DEF ToolLayers
    <3> QED
      BY <1>2, <3>1 DEF Refuses
  <2>4. PlaceInv' /\ HeldInv'
    BY <1>0, <2>1 DEF ListInv, PlaceInv, HeldInv, Looking
  <2>5. HiddenInv'
    BY <1>0, <2>1, <2>2, <2>3 DEF ListInv, HiddenInv, Sees, Looking
  <2>6. FixedInv'
    BY <1>0, <2>1 DEF ListInv, FixedInv, Manifests, Open, visibility_roles,
       allowed_functions, Looking
  <2> QED
    BY <2>4, <2>5, <2>6 DEF ListInv
<1> QED
  BY <1>1, <1>2

(* The check of the tool's visibility.                                     *)
LEMMA ListVisibility ==
  ASSUME ListInv, SelectVisibility, UNCHANGED vars
  PROVE  ListInv'
<1>0. UNCHANGED <<store, pc, question, decision, held>> /\ step = "visibility" /\ todo # {}
  BY DEF vars, SelectVisibility, Look
<1>1. CASE ~Open(store, question, current)
  BY <1>0, <1>1, ListSkip DEF SelectVisibility, Look, Open
<1>2. CASE Open(store, question, current)
  <2>1. step' = "functions" /\ UNCHANGED <<todo, manifests>>
    BY <1>2 DEF SelectVisibility, Look, Open
  <2>2. current' = current
    BY <2>1 DEF current
  <2>3. current = question.tool => held # "visibility"
    BY <1>0, <1>2, StillRefused DEF Refuses, ToolLayers, NotVisible, Open
  <2>4. PlaceInv' /\ HeldInv'
    BY <1>0, <2>1 DEF ListInv, PlaceInv, HeldInv, Looking
  <2>5. HiddenInv'
    BY <1>0, <2>1, <2>2, <2>3 DEF ListInv, HiddenInv, Sees, Looking
  <2>6. FixedInv'
    BY <1>0, <1>2, <2>1, <2>2, SMTT(30) DEF ListInv, FixedInv, Manifests, Open, visibility_roles,
       allowed_functions, Looking
  <2> QED
    BY <2>4, <2>5, <2>6 DEF ListInv
<1> QED
  BY <1>1, <1>2

(* allowed_functions, and the manifest that is made of them.               *)
LEMMA ListFunctions ==
  ASSUME ListInv, SelectFunctions, UNCHANGED vars
  PROVE  ListInv'
<1>0. UNCHANGED <<store, pc, question, decision, held>> /\ step = "functions" /\ step' = "roles"
  BY DEF vars, SelectFunctions
<1>1. current \in todo
  BY <1>0 DEF ListInv, PlaceInv, Looking, current
<1>2. /\ todo' = todo \ {current}
      /\ manifests' = manifests \cup
           {[tool |-> current, functions |-> allowed_functions(store, current)]}
  BY DEF SelectFunctions
<1>3. PlaceInv' /\ HeldInv'
  BY <1>0 DEF ListInv, PlaceInv, HeldInv, Looking
<1>4. HiddenInv'
  <2> SUFFICES ASSUME held \in ToolLayers, current = question.tool
               PROVE  question.function \notin allowed_functions(store, current)
    BY <1>0, <1>2 DEF ListInv, HiddenInv, Sees, Looking
  <2>1. held = "function"
    BY <1>0 DEF ListInv, HiddenInv, Looking, ToolLayers
  <2> QED
    BY <1>0, <2>1, StillRefused DEF Refuses
<1>5. FixedInv'
  <2> SUFFICES ASSUME held = "unchanged"
               PROVE  /\ todo' \subseteq store.tools
                      /\ manifests' = Manifests(store, question, store.tools \ todo')
    BY <1>0 DEF FixedInv, Looking, Manifests, Open, visibility_roles, allowed_functions
  <2>1. /\ todo \subseteq store.tools
        /\ manifests = Manifests(store, question, store.tools \ todo)
        /\ store.active \cap question.roles # {}
        /\ Open(store, question, current)
    BY <1>0 DEF ListInv, FixedInv, Looking
  <2>2. Manifests(store, question, store.tools \ (todo \ {current})) =
          Manifests(store, question, store.tools \ todo)
            \cup {[tool |-> current, functions |-> allowed_functions(store, current)]}
    BY <1>1, <2>1 DEF Manifests
  <2> QED
    BY <1>2, <2>1, <2>2
<1> QED
  BY <1>3, <1>4, <1>5 DEF ListInv

(* Every SELECT, every commit and every step of the engine keeps ListInv.  *)
LEMMA ListStep == ListInv /\ [RegistryNext]_<<vars, listing>> => ListInv'
<1> SUFFICES ASSUME ListInv, [RegistryNext]_<<vars, listing>> PROVE ListInv'
  OBVIOUS
<1>1. CASE step = "idle" /\ Next /\ UNCHANGED listing
  BY <1>1, ListEngine, ListCommit, CommitsOnly DEF Next
<1>2. CASE /\ SelectNames \/ SelectRoles \/ SelectTool \/ SelectVisibility \/ SelectFunctions
           /\ UNCHANGED vars
  BY <1>2, ListNames, ListRoles, ListTool, ListVisibility, ListFunctions
<1>3. CASE (Update \/ seed_example) /\ UNCHANGED listing
  BY <1>3, ListCommit, CommitsOnly
<1>4. CASE UNCHANGED <<vars, listing>>
  BY <1>4, SMTT(30) DEF vars, listing, ListInv, PlaceInv, HeldInv, HiddenInv, FixedInv, Sees, current,
     Manifests, Open, visibility_roles, allowed_functions, Refuses
<1> QED
  BY <1>1, <1>2, <1>3, <1>4 DEF RegistryNext

(* ListInv holds throughout every listing.                                 *)
LEMMA ListInvHolds == RegistrySpec => []ListInv
  BY ListInit, ListStep, PTL DEF RegistrySpec

(* Whatever rows change between the SELECTs of a listing, what one of the  *)
(* engine's checks hides at every moment of it is not listed.              *)
THEOREM HiddenIsNotListed == RegistrySpec => []HiddenThroughoutIsNotListed
<1>1. ListInv => HiddenThroughoutIsNotListed
  BY DEF ListInv, HiddenInv, HiddenThroughoutIsNotListed
<1> QED
  BY <1>1, ListInvHolds, PTL

(* On rows that stay, the listing is that of the static registry on the    *)
(* same rules, or empty if no role of the context is active.               *)
THEOREM ListsAsStaticRegistry == RegistrySpec => []ListsLikeStatic
<1>1. ListInv => ListsLikeStatic
  <2> SUFFICES ASSUME ListInv, Listed, held = "unchanged"
               PROVE  manifests = IF store.active \cap question.roles = {} THEN {}
                                  ELSE StaticManifests(RuleSetOf(store), question.roles)
    BY DEF ListsLikeStatic
  <2>1. manifests = Manifests(store, question, store.tools)
    <3>1. manifests = Manifests(store, question, store.tools \ {})
      BY DEF ListInv, FixedInv, Listed
    <3>2. store.tools \ {} = store.tools
      OBVIOUS
    <3> QED
      BY <3>1, <3>2
  <2>2. CASE store.active \cap question.roles = {}
    BY <2>1, <2>2 DEF Manifests
  <2>3. CASE store.active \cap question.roles # {}
    <3> DEFINE rs == RuleSetOf(store)
    <3>1. rs.allowed_tools \cap DOMAIN rs.tools = store.tools
      BY DEF RuleSetOf
    <3>2. \A t \in store.tools :
            /\ rs.tools[t].visible_to_roles = visibility_roles(store, t)
            /\ rs.tools[t].allowed_functions = allowed_functions(store, t)
      BY DEF RuleSetOf
    <3> HIDE DEF rs
    <3>3. StaticManifests(rs, question.roles) = Manifests(store, question, store.tools)
      BY <2>3, <3>1, <3>2 DEF StaticManifests, Manifests, Open
    <3> QED
      BY <2>1, <2>3, <3>3 DEF rs
  <2> QED
    BY <2>2, <2>3
<1> QED
  BY <1>1, ListInvHolds, PTL

(* On rows that stay, a function is listed if and only if the engine's     *)
(* checks of role, tool, visibility and function would let it pass.        *)
THEOREM ListingAgreesWithEngine == RegistrySpec => []SeesWhatItCanDo
<1>1. ListInv => SeesWhatItCanDo
  <2> SUFFICES ASSUME ListInv, Listed, held = "unchanged"
               PROVE  Sees(question.tool, question.function)
                        <=> \A l \in ToolLayers : ~Refuses(store, question)[l]
    BY DEF SeesWhatItCanDo
  <2>1. manifests = Manifests(store, question, store.tools \ {})
    BY DEF ListInv, FixedInv, Listed
  <2>2. Sees(question.tool, question.function) <=>
          /\ store.active \cap question.roles # {}
          /\ question.tool \in store.tools
          /\ Open(store, question, question.tool)
          /\ question.function \in allowed_functions(store, question.tool)
    <3> DEFINE manifest(t) == [tool |-> t, functions |-> allowed_functions(store, t)]
    <3>1. \A m : m \in manifests <=>
            \E t \in store.tools : /\ store.active \cap question.roles # {}
                                  /\ Open(store, question, t)
                                  /\ m = manifest(t)
      BY <2>1 DEF Manifests
    <3>2. \A t : manifest(t).tool = t /\ manifest(t).functions = allowed_functions(store, t)
      OBVIOUS
    <3> HIDE DEF manifest
    <3> QED
      BY <3>1, <3>2 DEF Sees
  <2>3. /\ Refuses(store, question)["global"] = (store.active \cap question.roles = {})
        /\ Refuses(store, question)["tool"] = ~tool_exists(store, question.tool)
        /\ Refuses(store, question)["visibility"] = NotVisible(store, question)
        /\ Refuses(store, question)["function"] =
             (question.function \notin allowed_functions(store, question.tool))
    BY DEF Refuses
  <2>4. tool_exists(store, question.tool) <=> question.tool \in store.tools
    BY DEF tool_exists
  <2>5. NotVisible(store, question) <=> ~Open(store, question, question.tool)
    BY DEF NotVisible, Open
  <2> QED
    BY <2>2, <2>3, <2>4, <2>5 DEF ToolLayers
<1> QED
  BY <1>1, ListInvHolds, PTL

(* A listing only reads: every behaviour of engine and registry together   *)
(* is one of the engine on its changing store, so that the theorems about  *)
(* DbPolicyEngine hold of it too.                                          *)
THEOREM ListingsOnlyRead == RegistrySpec => Spec
<1>1. RegistryInit => Init
  BY DEF RegistryInit
<1>2. [RegistryNext]_<<vars, listing>> => [Next]_vars
  BY DEF RegistryNext, Next, vars
<1> QED
  BY <1>1, <1>2, PTL DEF RegistrySpec, Spec
=============================================================================
