------------------------------- MODULE Pipeline -------------------------------
(***************************************************************************)
(* GovernancePipeline.run (pipeline.py) for several requests at a time:    *)
(* the gateway (gateway/shim.py) with session tokens, the guardrails, the  *)
(* calls that FakeLLMClient proposes, each handled by the interceptor, and *)
(* InMemoryApprovalQueue (hitl/approval.py), which the interceptor asks.   *)
(*                                                                         *)
(* The interceptor is present as its contract, GovernedCall, which         *)
(* Interceptor is shown to implement.  Up to the first handle, and between *)
(* two of them, run does not suspend: those stretches are single steps.    *)
(***************************************************************************)
EXTENDS SessionToken, Guardrails

CONSTANTS
  Requests,         \* the calls of run
  ContextOf,        \* request -> the session and agent it is made for
  Prompts, Replies, \* what users and the language model may say
  Proposals,        \* the calls that may be proposed, by call_id
  Scripts,          \* what the language model may propose for a prompt
  Gated,            \* those of them that need human approval
  Stubborn,         \* those of them whose tool may ignore its cancellation
  DefaultApproval,  \* InMemoryApprovalQueue(default)
  RateLimit,        \* rate_limit_per_minute
  Outcomes, MayLose,\* of the interceptor: see GovernedCall
  MaxScript,        \* bound: the length of a script
  IssuedAt, UsedAt  \* bound: the instants at which tokens are issued and used

ASSUME PipelineAssumption ==
  /\ IsFiniteSet(Requests)
  /\ \A r \in Requests : IsContext(ContextOf[r])
  /\ \A text \in Prompts \cup Replies : IsInspectable(text)
  /\ Gated \subseteq Proposals /\ Stubborn \subseteq Proposals
  /\ \A calls \in Scripts : calls \in Seq(Proposals) /\ Len(calls) <= MaxScript
  /\ DefaultApproval \in BOOLEAN
  /\ RateLimit \in Nat
  /\ MayLose \subseteq {"pending", "running"}
  /\ MaxScript \in Nat
  /\ IssuedAt \subseteq Nat /\ UsedAt \subseteq Nat

VARIABLES
  stage,      \* request -> how far it has come
  presented,  \* history: request -> what kind of credential it came with
  counts,     \* agent -> the gateway's _call_counts
  heard,      \* request -> the prompt as the language model was given it
  plan,       \* request -> the calls proposed for it
  results,    \* request -> tool_call_results
  reply,      \* request -> final_response
  decisions,  \* the approval queue's _decisions, with its default
  received,   \* the requests it was shown
  phase, log  \* the interceptor's calls and the audit trail

requests == <<stage, presented, counts, heard, plan, results, reply>>
vars == <<requests, decisions, received, phase, log>>

Contexts == {ContextOf[r] : r \in Requests}
Agents   == {context.agent : context \in Contexts}
AgentOf(r) == ContextOf[r].agent
Nothing  == [tokens |-> {}, pii |-> {}, markers |-> {}]

(* The i-th call of a request.                                             *)
Calls == Requests \X (1 .. MaxScript)
Interceptor == INSTANCE GovernedCall

Init == /\ stage = [r \in Requests |-> "new"]
        /\ presented = [r \in Requests |-> "nothing"]
        /\ counts = [a \in Agents |-> 0]
        /\ heard = [r \in Requests |-> Nothing]
        /\ plan = [r \in Requests |-> << >>]
        /\ results = [r \in Requests |-> << >>]
        /\ reply = [r \in Requests |-> Nothing]
        /\ decisions = [p \in Proposals |-> DefaultApproval]
        /\ received = {}
        /\ Interceptor!Init

-----------------------------------------------------------------------------
(* The end of run: complete, and inspect_output of what it says.           *)
Complete(r) ==
  /\ stage' = [stage EXCEPT ![r] = "returned"]
  /\ \E text \in Replies : reply' = [reply EXCEPT ![r] = inspect_output(text)]

(* A copy of the calls that are scripted at that moment.  The script may   *)
(* have been extended or cleared at will by then.                          *)
propose_tool_calls(r) == \E calls \in Scripts : plan' = [plan EXCEPT ![r] = calls]

Refuse(r, why) == /\ stage' = [stage EXCEPT ![r] = why]
                  /\ UNCHANGED <<heard, plan, reply>>

(* check_rate_limit counts before it compares, and nothing ever resets it. *)
check_rate_limit(r) == counts' = [counts EXCEPT ![AgentOf(r)] = @ + 1]

(* What follows the gateway's own checks.                                  *)
Admit(r, prompt) ==
  IF GuardrailViolation(mask(prompt)) THEN Refuse(r, "rejected")
  ELSE /\ heard' = [heard EXCEPT ![r] = mask(mask(prompt))]
       /\ propose_tool_calls(r)
       /\ IF plan'[r] = << >> THEN Complete(r)
          ELSE stage' = [stage EXCEPT ![r] = "handling"] /\ UNCHANGED reply

(* Faulty variant: the quota is charged before the token is verified.      *)
MutCountFirst(r, credential, now) ==
  /\ stage[r] = "new"
  /\ check_rate_limit(r)
  /\ IF ~verify(credential, ContextOf[r], now) THEN Refuse(r, "unauthenticated")
     ELSE IF counts'[AgentOf(r)] > RateLimit THEN Refuse(r, "over_quota")
     ELSE \E prompt \in Prompts : Admit(r, prompt)
  /\ UNCHANGED <<results, decisions, received, phase, log>>

(* run up to the first handle: handle_inbound, which masks, inspect_input, *)
(* which masks again, and propose_tool_calls.                              *)
Submit(r, credential, now) ==
  /\ stage[r] = "new"
  /\ IF ~verify(credential, ContextOf[r], now)
     THEN Refuse(r, "unauthenticated") /\ UNCHANGED counts
     ELSE /\ check_rate_limit(r)
          /\ IF counts'[AgentOf(r)] > RateLimit THEN Refuse(r, "over_quota")
             ELSE \E prompt \in Prompts : Admit(r, prompt)
  /\ UNCHANGED <<results, decisions, received, phase, log>>

(* A token issued at `at` is good for its owner up to the last full second *)
(* that its time-to-live reaches.                                          *)
IsGood(r, owner, at, now) ==
  /\ owner = ContextOf[r]
  /\ \E last \in 0 .. now :
       now <= last * TicksPerSecond /\ last * TicksPerSecond <= at + TtlSeconds * TicksPerSecond

(* A request comes without a token, or with one issued some time ago for   *)
(* its own context or for another one.  Tokens that were never issued are  *)
(* left out: what tells them apart is the strength of the HMAC.            *)
Arrives(r) ==
  \/ /\ Submit(r, << >>, 0)
     /\ presented' = [presented EXCEPT ![r] = "bad"]
  \/ \E owner \in Contexts, at \in IssuedAt, now \in UsedAt :
       /\ at <= now
       /\ Submit(r, issue(owner, at), now)
       /\ presented' = [presented EXCEPT ![r] =
                          IF IsGood(r, owner, at, now) THEN "good" ELSE "bad"]

-----------------------------------------------------------------------------
(* The call that the loop of run is at.                                    *)
Current(r) == <<r, Len(results[r]) + 1>>
Proposed(c) == plan[c[1]][c[2]]

Shown(c) == received' = received \cup {[call |-> c, request |-> Proposed(c)]}

(* Policy and, if need be, the queue's answer let the call run.            *)
CallStarts(r) ==
  LET c == Current(r)
  IN  /\ stage[r] = "handling"
      /\ Interceptor!Start(c)
      /\ IF Proposed(c) \in Gated THEN decisions[Proposed(c)] /\ Shown(c)
         ELSE UNCHANGED received
      /\ UNCHANGED <<requests, decisions>>

(* Faulty variants: the loop goes on after an exception; it ends, and what *)
(* there is is returned.                                                   *)
MutLoopGoesOn(r, c) ==
  /\ results' = [results EXCEPT ![r] = Append(@, [ran |-> FALSE, result |-> "none"])]
  /\ IF c[2] = Len(plan[r]) THEN Complete(r) ELSE UNCHANGED <<stage, reply>>

MutReturnsPart(r, c) ==
  LET line == log'[Len(log')]
  IN  IF phase'[c] = "raised" THEN Complete(r) /\ UNCHANGED results
      ELSE /\ results' = [results EXCEPT ![r] =
                            Append(@, [ran |-> line.ran, result |-> line.result])]
           /\ IF c[2] = Len(plan[r]) THEN Complete(r) ELSE UNCHANGED <<stage, reply>>

(* handle is over: its result is appended and the loop goes on, or its     *)
(* exception leaves run, and with it the results there are.  The result is *)
(* made of what _audit_and_wrap has just recorded, so of the line's parts. *)
LoopAfter(r, c) ==
  LET line == log'[Len(log')]
  IN  IF phase'[c] = "raised"
      THEN stage' = [stage EXCEPT ![r] = "raised"] /\ UNCHANGED <<results, reply>>
      ELSE /\ results' = [results EXCEPT ![r] =
                            Append(@, [ran |-> line.ran, result |-> line.result])]
           /\ IF c[2] = Len(plan[r]) THEN Complete(r) ELSE UNCHANGED <<stage, reply>>

(* Faulty variant: a call that raises while it runs is made once more.     *)
MutRetriesRaised(r) ==
  LET c == Current(r)
  IN  /\ stage[r] = "handling"
      /\ \/ /\ Interceptor!Finish(c) \/ Interceptor!Refuse(c)
            /\ phase'[c] = "returned"
            /\ LoopAfter(r, c)
         \/ /\ phase[c] = "running"
            /\ phase' = [phase EXCEPT ![c] = "pending"]
            /\ UNCHANGED <<stage, results, reply, log>>
      /\ UNCHANGED <<presented, counts, heard, plan, decisions, received>>

CallEnds(r) ==
  LET c == Current(r)
      p == Proposed(c)
  IN  /\ stage[r] = "handling"
      /\ \/ Interceptor!Finish(c) /\ UNCHANGED received
         \/ /\ Interceptor!Refuse(c)
            /\ \/ UNCHANGED received
               \/ p \in Gated /\ ~decisions[p] /\ Shown(c)
         \/ /\ Interceptor!Lose(c)
            /\ \/ UNCHANGED received
               \/ phase[c] = "pending" /\ p \in Gated /\ ~decisions[p] /\ Shown(c)
      /\ LoopAfter(r, c)
      /\ UNCHANGED <<presented, counts, heard, plan, decisions>>

-----------------------------------------------------------------------------
(* A decision matters only to requests still to be made or handled.        *)
set_decision(p, approved) ==
  /\ \E r \in Requests : stage[r] \in {"new", "handling"}
  /\ decisions' = [decisions EXCEPT ![p] = approved]
  /\ UNCHANGED <<requests, received, phase, log>>

Next == \/ \E r \in Requests : Arrives(r) \/ CallStarts(r) \/ CallEnds(r)
        \/ \E p \in Gated, approved \in BOOLEAN : set_decision(p, approved)

(* The call that the loop is at has not begun; it runs and may stay.       *)
Waiting(r) == stage[r] = "handling" /\ phase[Current(r)] = "pending"
Held(r) == /\ stage[r] = "handling"
           /\ phase[Current(r)] = "running"
           /\ Proposed(Current(r)) \in Stubborn

(* handle goes on, see LeavesUnlessHeld of Interceptor: a call is refused  *)
(* or begins, as this queue answers at once; one that runs ends, unless    *)
(* its tool ignores the sandbox's cancellation.                            *)
Fairness ==
  \A r \in Requests : /\ WF_vars(Waiting(r) /\ (CallStarts(r) \/ CallEnds(r)))
                      /\ WF_vars(~Waiting(r) /\ ~Held(r) /\ CallEnds(r))

Spec == Init /\ [][Next]_vars /\ Fairness

-----------------------------------------------------------------------------
Refusals == {"unauthenticated", "over_quota", "rejected"}
Texts == [tokens : SUBSET UNION {text.tokens \cup text.pii \cup {"redacted"} :
                                   text \in Prompts \cup Replies},
          pii : {{}}, markers : {text.markers : text \in {Nothing} \cup Prompts \cup Replies}]

TypeOK ==
  /\ stage \in [Requests -> {"new", "handling", "returned", "raised"} \cup Refusals]
  /\ presented \in [Requests -> {"nothing", "bad", "good"}]
  /\ counts \in [Agents -> Nat]
  /\ heard \in [Requests -> Texts] /\ reply \in [Requests -> Texts]
  /\ plan \in [Requests -> Scripts \cup {<< >>}]
  /\ results \in [Requests -> Seq([ran : BOOLEAN, result : Outcomes \cup {"none"}])]
  /\ decisions \in [Proposals -> BOOLEAN]
  /\ received \subseteq [call : Calls, request : Proposals]
  /\ phase \in [Calls -> {"pending", "running", "returned", "raised"}]
  /\ log \in Seq([call : Calls, ran : BOOLEAN, result : Outcomes \cup {"none"}])

Authenticated(r) == stage[r] \notin {"new", "unauthenticated"}
PastGateway(r) == Authenticated(r) /\ stage[r] # "over_quota"

(* A token gets exactly its own context in, and exactly until the last     *)
(* full second of its time-to-live, fractions of seconds included; except  *)
(* that one with a dot in its session or agent id gets nobody in, ever.    *)
TokensAdmitTheirOwners ==
  \A r \in Requests \ {q \in Requests : stage[q] = "new"} :
    Authenticated(r) <=> presented[r] = "good" /\ DotFree(ContextOf[r])

(* An agent's quota is spent by every request that authenticates as it, by *)
(* no other, and it is served up to the limit exactly, however its         *)
(* requests overlap: what the guardrail rejects is spent as well.          *)
QuotaIsExact ==
  \A a \in Agents :
    LET asked  == {r \in Requests : AgentOf(r) = a /\ Authenticated(r)}
        served == {r \in asked : PastGateway(r)}
    IN  /\ counts[a] = Cardinality(asked)
        /\ Cardinality(served) <= RateLimit
        /\ served # asked => Cardinality(served) = RateLimit

(* No tool runs and no record is written for a request that was not let in *)
(* or whose prompt was not clean when the model got it: no personal data,  *)
(* no injection marker, and not close to any known intent.                 *)
OnlyCleanPromptsAct ==
  \A c \in Calls : phase[c] # "pending" =>
    LET text == heard[c[1]]
    IN  /\ PastGateway(c[1]) /\ stage[c[1]] # "rejected"
        /\ text.pii = {} /\ (BlockOnInjection => text.markers = {})
        /\ \A i \in DOMAIN INJECTION_INTENTS :
             LET intent == INJECTION_INTENTS[i]
             IN  Cardinality(text.tokens \cap intent) * ThresholdDen
                   < ThresholdNum * Cardinality(text.tokens \cup intent)

(* The calls of one request happen one after the other, in the order in    *)
(* which they were proposed, and after one that raised there is none.      *)
OneCallAtATime ==
  \A r \in Requests :
    /\ \A i \in 1 .. MaxScript : phase[<<r, i>>] # "pending" =>
         i <= Len(plan[r]) /\ \A j \in 1 .. i - 1 : phase[<<r, j>>] = "returned"
    /\ stage[r] = "raised" <=> \E i \in 1 .. MaxScript : phase[<<r, i>>] = "raised"

(* The lines of one request are in the order of its calls, one for each.   *)
LinesInOrder ==
  \A j, k \in DOMAIN log : j < k /\ log[j].call[1] = log[k].call[1] =>
    log[j].call[2] < log[k].call[2]

Recorded(r, i) == \E k \in DOMAIN log : /\ log[k].call = <<r, i>>
                                       /\ log[k].ran = results[r][i].ran
                                       /\ log[k].result = results[r][i].result

(* Line k is about a call whose result there is, or about one that raised. *)
Accounted(k) ==
  LET r == log[k].call[1]
      n == Len(results[r])
  IN  \/ log[k].call[2] <= n
      \/ log[k].call[2] = n + 1 /\ stage[r] = "raised"

(* A PipelineResult agrees with the audit trail: one result per proposed   *)
(* call, in order, each as recorded.  Of a run that raised the results are *)
(* lost to the caller, but they are all in the trail, and no more than the *)
(* call that raised besides them; no call has two lines.                   *)
ResultsAreInTheTrail ==
  /\ LinesInOrder
  /\ \A k \in DOMAIN log : Accounted(k)
  /\ \A r \in Requests : /\ \A i \in DOMAIN results[r] : Recorded(r, i)
                         /\ stage[r] = "returned" => Len(results[r]) = Len(plan[r])

(* Every request that was let in comes to an end, however many of its      *)
(* calls raise, are refused or lose their record, unless a tool that       *)
(* ignores its cancellation holds the call it has come to.                 *)
RequestsEnd ==
  \A r \in Requests : stage[r] = "handling" ~> stage[r] \in {"returned", "raised"} \/ Held(r)
=============================================================================
