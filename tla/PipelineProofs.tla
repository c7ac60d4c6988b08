---------------------------- MODULE PipelineProofs ----------------------------
(***************************************************************************)
(* Proofs about Pipeline, for any requests, prompts, scripts, tokens and   *)
(* limits.                                                                 *)
(***************************************************************************)
EXTENDS Pipeline, TLAPS, FiniteSetTheorems, SequenceTheorems, WellFoundedInduction

Stages    == {"new", "handling", "returned", "raised"} \cup Refusals
Results   == [ran : BOOLEAN, result : Outcomes \cup {"none"}]
LogLines  == [call : Calls, ran : BOOLEAN, result : Outcomes \cup {"none"}]

(* Every non-empty set of naturals has a least element: the argument by    *)
(* least counterexample replaces induction.                                *)
LEMMA LeastExists ==
  ASSUME NEW S, S \subseteq Nat, S # {}
  PROVE  \E i \in S : \A j \in S : i <= j
<1>1. \A i, j \in Nat : <<j, i>> \notin OpToRel(<, Nat) => i <= j
  BY DEF OpToRel
<1> QED
  BY <1>1, NatLessThanWellFounded, WFMin

(* The types of the parts of a state.                                      *)
LEMMA Types ==
  ASSUME TypeOK
  PROVE  /\ stage \in [Requests -> Stages]
         /\ counts \in [Agents -> Nat]
         /\ heard \in [Requests -> Texts] /\ reply \in [Requests -> Texts]
         /\ plan \in [Requests -> Scripts \cup {<< >>}]
         /\ results \in [Requests -> Seq(Results)]
         /\ decisions \in [Proposals -> BOOLEAN]
         /\ received \subseteq [call : Calls, request : Proposals]
         /\ phase \in [Calls -> {"pending", "running", "returned", "raised"}]
         /\ log \in Seq(LogLines)
         /\ \A r \in Requests : /\ results[r] \in Seq(Results)
                                /\ Len(results[r]) \in Nat
                                /\ plan[r] \in Seq(Proposals)
                                /\ Len(plan[r]) \in Nat
                                /\ Len(plan[r]) <= MaxScript
         /\ Len(log) \in Nat /\ DOMAIN log = 1 .. Len(log) /\ MaxScript \in Nat
         /\ \A k \in DOMAIN log : /\ log[k] \in LogLines
                                  /\ log[k].call[1] \in Requests
                                  /\ log[k].call[2] \in 1 .. MaxScript
                                  /\ log[k].call = <<log[k].call[1], log[k].call[2]>>
         /\ \A r \in Requests : DOMAIN results[r] = 1 .. Len(results[r])
<1>1. /\ plan \in [Requests -> Scripts \cup {<< >>}] /\ results \in [Requests -> Seq(Results)]
      /\ log \in Seq(LogLines)
  BY DEF TypeOK, Results, LogLines
<1>2. ASSUME NEW r \in Requests
      PROVE  /\ plan[r] \in Seq(Proposals) /\ Len(plan[r]) \in Nat
             /\ Len(plan[r]) <= MaxScript
  <2>1. CASE plan[r] \in Scripts
    BY <2>1, PipelineAssumption
  <2>2. CASE plan[r] = << >>
    BY <2>2, PipelineAssumption
  <2> QED
    BY <1>1, <2>1, <2>2
<1>3. \A r \in Requests : results[r] \in Seq(Results) /\ Len(results[r]) \in Nat
  BY <1>1
<1>4. Len(log) \in Nat /\ DOMAIN log = 1 .. Len(log) /\ MaxScript \in Nat
  BY <1>1, LenProperties, PipelineAssumption
<1>5. ASSUME NEW k \in DOMAIN log
      PROVE  /\ log[k] \in LogLines
             /\ log[k].call[1] \in Requests
             /\ log[k].call[2] \in 1 .. MaxScript
             /\ log[k].call = <<log[k].call[1], log[k].call[2]>>
  <2>1. log[k] \in LogLines
    BY <1>1, <1>4, ElementOfSeq
  <2>2. log[k].call \in Calls
    BY <2>1 DEF LogLines
  <2> QED
    BY <2>1, <2>2 DEF Calls
<1>6. \A r \in Requests : DOMAIN results[r] = 1 .. Len(results[r])
  BY <1>3, LenProperties
<1> QED
  BY <1>1, <1>2, <1>3, <1>4, <1>5, <1>6 DEF TypeOK, Stages, Results, LogLines

-----------------------------------------------------------------------------
(* What masking leaves of a text, once and twice.                          *)
LEMMA MaskFields ==
  ASSUME NEW text, IsInspectable(text)
  PROVE  /\ IsInspectable(mask(text))
         /\ mask(text).pii = {}
         /\ mask(text).markers = text.markers
         /\ mask(text).tokens \subseteq text.tokens \cup text.pii \cup {"redacted"}
         /\ mask(mask(text)) = mask(text)
<1> DEFINE added == IF text.pii = {} THEN {} ELSE text.pii \cup {"redacted"}
           m == [tokens |-> text.tokens \cup added, pii |-> {}, markers |-> text.markers]
<1>1. mask(text) = m
  BY DEF mask
<1>2. IsFiniteSet(m.tokens) /\ IsFiniteSet(m.pii)
  <2>1. IsFiniteSet({})
    BY FS_EmptySet
  <2>2. IsFiniteSet(added)
    <3>1. IsFiniteSet(text.pii \cup {"redacted"})
      BY FS_AddElement DEF IsInspectable
    <3> QED
      BY <2>1, <3>1
  <2>3. IsFiniteSet(text.tokens \cup added)
    BY <2>2, FS_Union DEF IsInspectable
  <2> QED
    BY <2>1, <2>3
<1>3. IsInspectable(m)
  BY <1>2 DEF IsInspectable
<1>4. mask(m) = m
  BY DEF mask
<1> QED
  BY <1>1, <1>3, <1>4

(* A masked text of a user or of the language model is a Text.             *)
LEMMA MaskType ==
  ASSUME NEW text \in Prompts \cup Replies
  PROVE  mask(text) \in Texts /\ mask(mask(text)) \in Texts
<1>1. IsInspectable(text)
  BY PipelineAssumption
<1>2. /\ mask(text).pii = {} /\ mask(text).markers = text.markers
      /\ mask(text).tokens \subseteq text.tokens \cup text.pii \cup {"redacted"}
      /\ mask(text) = [tokens |-> mask(text).tokens, pii |-> mask(text).pii,
                       markers |-> mask(text).markers]
      /\ mask(mask(text)) = mask(text)
  BY <1>1, MaskFields DEF IsInspectable
<1>3. mask(text).tokens \in SUBSET UNION {t.tokens \cup t.pii \cup {"redacted"} :
                                            t \in Prompts \cup Replies}
  BY <1>2
<1>4. mask(text).markers \in {t.markers : t \in {Nothing} \cup Prompts \cup Replies}
  BY <1>2
<1> QED
  BY <1>2, <1>3, <1>4 DEF Texts

(* The empty text is a Text.                                               *)
LEMMA NothingType == Nothing \in Texts
<1>1. Nothing.markers \in {t.markers : t \in {Nothing} \cup Prompts \cup Replies}
  OBVIOUS
<1> QED
  BY <1>1 DEF Nothing, Texts

-----------------------------------------------------------------------------
(* What one arrival does: the request is refused, or it is let in with a   *)
(* clean prompt and a plan.                                                *)
Refused(r) == \E why \in Refusals : stage' = [stage EXCEPT ![r] = why]

LetIn(r) ==
  \E prompt \in Prompts, calls \in Scripts :
    /\ ~GuardrailViolation(mask(prompt))
    /\ heard' = [heard EXCEPT ![r] = mask(mask(prompt))]
    /\ plan' = [plan EXCEPT ![r] = calls]
    /\ \/ /\ calls = << >>
          /\ stage' = [stage EXCEPT ![r] = "returned"]
          /\ \E text \in Replies : reply' = [reply EXCEPT ![r] = mask(text)]
       \/ /\ calls # << >>
          /\ stage' = [stage EXCEPT ![r] = "handling"]
          /\ UNCHANGED reply

(* Admit either rejects the prompt and leaves the request as it was, or    *)
(* lets it in.                                                             *)
LEMMA AdmitEffect ==
  ASSUME TypeOK, NEW r \in Requests, NEW prompt \in Prompts, Admit(r, prompt)
  PROVE  \/ stage' = [stage EXCEPT ![r] = "rejected"] /\ UNCHANGED <<heard, plan, reply>>
         \/ LetIn(r)
<1>1. CASE GuardrailViolation(mask(prompt))
  BY <1>1 DEF Admit, Refuse
<1>2. CASE ~GuardrailViolation(mask(prompt))
  <2>1. /\ heard' = [heard EXCEPT ![r] = mask(mask(prompt))]
        /\ propose_tool_calls(r)
        /\ IF plan'[r] = << >> THEN Complete(r)
           ELSE stage' = [stage EXCEPT ![r] = "handling"] /\ UNCHANGED reply
    BY <1>2 DEF Admit
  <2>2. PICK calls \in Scripts : plan' = [plan EXCEPT ![r] = calls]
    BY <2>1 DEF propose_tool_calls
  <2>3. plan'[r] = calls
    BY <2>2, Types
  <2> QED
    BY <1>2, <2>1, <2>2, <2>3 DEF LetIn, Complete, inspect_output
<1> QED
  BY <1>1, <1>2

(* The ways handle_inbound leaves a request that arrives: not              *)
(* authenticated, over its quota, or charged and handed to the pipeline.   *)
LEMMA SubmitEffect ==
  ASSUME TypeOK, NEW r \in Requests, NEW credential, NEW now, Submit(r, credential, now)
  PROVE  /\ stage[r] = "new"
         /\ UNCHANGED <<results, decisions, received, phase, log>>
         /\ \/ /\ ~verify(credential, ContextOf[r], now)
               /\ stage' = [stage EXCEPT ![r] = "unauthenticated"]
               /\ UNCHANGED <<heard, plan, reply, counts>>
            \/ /\ verify(credential, ContextOf[r], now)
               /\ counts' = [counts EXCEPT ![AgentOf(r)] = @ + 1]
               /\ \/ /\ counts[AgentOf(r)] + 1 > RateLimit
                     /\ stage' = [stage EXCEPT ![r] = "over_quota"]
                     /\ UNCHANGED <<heard, plan, reply>>
                  \/ /\ counts[AgentOf(r)] + 1 <= RateLimit
                     /\ \/ /\ stage' = [stage EXCEPT ![r] = "rejected"]
                           /\ UNCHANGED <<heard, plan, reply>>
                        \/ LetIn(r)
<1> DEFINE a == AgentOf(r)
<1>1. a \in Agents /\ counts \in [Agents -> Nat] /\ RateLimit \in Nat
  BY Types, PipelineAssumption DEF AgentOf, Agents, Contexts
<1>2. stage[r] = "new" /\ UNCHANGED <<results, decisions, received, phase, log>>
  BY DEF Submit
<1>3. CASE ~verify(credential, ContextOf[r], now)
  BY <1>2, <1>3 DEF Submit, Refuse
<1>4. CASE verify(credential, ContextOf[r], now)
  <2>1. /\ counts' = [counts EXCEPT ![a] = @ + 1]
        /\ IF counts'[a] > RateLimit THEN Refuse(r, "over_quota")
           ELSE \E prompt \in Prompts : Admit(r, prompt)
    BY <1>4 DEF Submit, check_rate_limit
  <2>2. counts'[a] = counts[a] + 1 /\ counts[a] + 1 \in Nat
    BY <1>1, <2>1
  <2>3. CASE counts'[a] > RateLimit
    BY <1>2, <1>4, <2>1, <2>2, <2>3 DEF Refuse
  <2>4. CASE ~(counts'[a] > RateLimit)
    <3>1. counts[a] + 1 <= RateLimit
      BY <1>1, <2>2, <2>4
    <3> QED
      BY <1>2, <1>4, <2>1, <2>4, <3>1, AdmitEffect
  <2> QED
    BY <2>3, <2>4
<1> QED
  BY <1>3, <1>4

-----------------------------------------------------------------------------
(* The loop of run.  What makes the properties inductive: how far each     *)
(* call of a request can be, given the request's stage and the number of   *)
(* results it has.                                                         *)
Allowed(st, n, i) ==
  IF i <= n THEN {"returned"}
  ELSE IF i > n + 1 THEN {"pending"}
  ELSE IF st = "handling" THEN {"pending", "running"}
  ELSE IF st = "raised" THEN {"raised"}
  ELSE {"pending"}

LoopInv ==
  \A r \in Requests :
    /\ stage[r] \in {"new"} \cup Refusals => Len(results[r]) = 0 /\ Len(plan[r]) = 0
    /\ stage[r] \in {"handling", "raised"} => Len(results[r]) < Len(plan[r])
    /\ stage[r] = "returned" => Len(results[r]) = Len(plan[r])
    /\ \A i \in 1 .. MaxScript :
         phase[<<r, i>>] \in Allowed(stage[r], Len(results[r]), i)

Inv == TypeOK /\ LoopInv /\ ResultsAreInTheTrail

(* The call the loop is at, of a request that is being handled.            *)
LEMMA CurrentCall ==
  ASSUME TypeOK, LoopInv, NEW r \in Requests, stage[r] = "handling"
  PROVE  /\ Current(r) = <<r, Len(results[r]) + 1>>
         /\ Current(r) \in Calls /\ Current(r)[1] = r
         /\ Current(r)[2] = Len(results[r]) + 1
         /\ Len(results[r]) + 1 \in 1 .. MaxScript
         /\ Len(results[r]) + 1 <= Len(plan[r])
         /\ Proposed(Current(r)) \in Proposals
<1>1. /\ Len(results[r]) \in Nat /\ Len(plan[r]) \in Nat /\ plan[r] \in Seq(Proposals)
      /\ Len(plan[r]) <= MaxScript /\ MaxScript \in Nat
  BY Types
<1>2. Len(results[r]) < Len(plan[r])
  BY DEF LoopInv
<1>3. Len(results[r]) + 1 \in 1 .. MaxScript /\ Len(results[r]) + 1 \in 1 .. Len(plan[r])
  BY <1>1, <1>2
<1>4. Current(r) \in Calls
  BY <1>3 DEF Current, Calls
<1>5. plan[r][Len(results[r]) + 1] \in Proposals
  BY <1>1, <1>3, ElementOfSeq
<1> QED
  BY <1>1, <1>3, <1>4, <1>5 DEF Current, Proposed

(* The parts of the state a refused or finished call leaves alone, and     *)
(* what it does to the others.                                             *)
EndsBy(r, how) ==
  LET c == Current(r)
  IN  /\ phase' = [phase EXCEPT ![c] = how]
      /\ \/ how = "raised" /\ log' = log
         \/ \E line \in LogLines :
              /\ line.call = c
              /\ log' = Append(log, line)
              /\ how = "returned" =>
                   results' = [results EXCEPT ![r] =
                                 Append(@, [ran |-> line.ran, result |-> line.result])]
      /\ how = "raised" => /\ stage' = [stage EXCEPT ![r] = "raised"]
                           /\ UNCHANGED <<results, reply>>
      /\ how = "returned" => IF c[2] = Len(plan[r]) THEN Complete(r)
                             ELSE UNCHANGED <<stage, reply>>
      /\ received' = received \/ Shown(c)
      /\ UNCHANGED <<presented, counts, heard, plan, decisions>>

(* A call that leaves handle writes at most one line, about itself, and    *)
(* exactly one if it returns.                                              *)
LEMMA CallEndsEffect ==
  ASSUME TypeOK, LoopInv, NEW r \in Requests, CallEnds(r)
  PROVE  stage[r] = "handling" /\ \E how \in {"returned", "raised"} : EndsBy(r, how)
<1> DEFINE c == Current(r)
<1>1. /\ stage[r] = "handling" /\ LoopAfter(r, c)
      /\ Interceptor!Finish(c) \/ Interceptor!Refuse(c) \/ Interceptor!Lose(c)
      /\ received' = received \/ Shown(c)
      /\ UNCHANGED <<presented, counts, heard, plan, decisions>>
  BY DEF CallEnds
<1>2. c \in Calls /\ phase \in [Calls -> {"pending", "running", "returned", "raised"}]
      /\ log \in Seq(LogLines)
  BY <1>1, CurrentCall, Types
<1> HIDE DEF c
<1>3. ASSUME NEW how \in {"returned", "raised"}, phase' = [phase EXCEPT ![c] = how]
      PROVE  phase'[c] = how
  BY <1>2, <1>3
<1>4. ASSUME NEW how \in {"returned", "raised"}, NEW itRan \in BOOLEAN,
             NEW result \in Outcomes \cup {"none"},
             Interceptor!Leaves(c, how, itRan, result)
      PROVE  EndsBy(r, how)
  <2> DEFINE line == [call |-> c, ran |-> itRan, result |-> result]
  <2>1. /\ line \in LogLines /\ line.call = c
        /\ log' = Append(log, line) /\ phase' = [phase EXCEPT ![c] = how]
    BY <1>2, <1>4 DEF Interceptor!Leaves, LogLines
  <2> HIDE DEF line
  <2>2. log'[Len(log')] = line
    BY <1>2, <2>1, AppendProperties
  <2>3. CASE how = "raised"
    <3>1. stage' = [stage EXCEPT ![r] = "raised"] /\ UNCHANGED <<results, reply>>
      BY <1>1, <1>3, <2>1, <2>3 DEF LoopAfter
    <3> QED
      BY <1>1, <2>1, <2>3, <3>1 DEF EndsBy, c
  <2>4. CASE how = "returned"
    <3>1. /\ results' = [results EXCEPT ![r] =
                           Append(@, [ran |-> line.ran, result |-> line.result])]
          /\ IF c[2] = Len(plan[r]) THEN Complete(r) ELSE UNCHANGED <<stage, reply>>
      BY <1>1, <1>3, <2>1, <2>2, <2>4 DEF LoopAfter
    <3> QED
      BY <1>1, <2>1, <2>4, <3>1 DEF EndsBy, c
  <2> QED
    BY <2>3, <2>4
<1>5. CASE Interceptor!Lose(c)
  <2>1. phase' = [phase EXCEPT ![c] = "raised"] /\ log' = log
    BY <1>5 DEF Interceptor!Lose
  <2>2. stage' = [stage EXCEPT ![r] = "raised"] /\ UNCHANGED <<results, reply>>
    BY <1>1, <1>3, <2>1 DEF LoopAfter
  <2>3. EndsBy(r, "raised")
    BY <1>1, <2>1, <2>2 DEF EndsBy, c
  <2> QED
    BY <1>1, <2>3
<1>6. CASE Interceptor!Refuse(c)
  BY <1>1, <1>4, <1>6 DEF Interceptor!Refuse
<1>7. CASE Interceptor!Finish(c)
  BY <1>1, <1>4, <1>7 DEF Interceptor!Finish
<1> QED
  BY <1>1, <1>5, <1>6, <1>7

-----------------------------------------------------------------------------
(* Every arrival keeps Inv: a request that was new had no call and no line.*)
LEMMA ArrivesKeeps ==
  ASSUME Inv, NEW r \in Requests, Arrives(r)
  PROVE  Inv'
<1> USE Types
<1>0. TypeOK /\ LoopInv /\ ResultsAreInTheTrail
  BY DEF Inv
<1>1. PICK credential, now : Submit(r, credential, now)
  BY DEF Arrives
<1>2. /\ stage[r] = "new" /\ UNCHANGED <<results, decisions, received, phase, log>>
      /\ \/ Refused(r) /\ UNCHANGED <<heard, plan, reply>>
         \/ LetIn(r)
      /\ \/ UNCHANGED counts
         \/ counts' = [counts EXCEPT ![AgentOf(r)] = @ + 1]
  BY <1>0, <1>1, SubmitEffect DEF Refused, Refusals
<1>3. presented' \in [Requests -> {"nothing", "bad", "good"}]
  BY <1>0 DEF Arrives, TypeOK
<1>4. counts' \in [Agents -> Nat]
  BY <1>0, <1>2, SMTT(30)
<1>5. PICK st \in Stages : /\ stage' = [stage EXCEPT ![r] = st]
                           /\ \/ st \in Refusals /\ UNCHANGED <<heard, plan, reply>>
                              \/ st \in {"handling", "returned"} /\ LetIn(r)
  BY <1>2 DEF Refused, LetIn, Stages
<1>s. stage'[r] = st /\ \A q \in Requests : q # r => stage'[q] = stage[q]
  BY <1>0, <1>5
<1>6. /\ plan' \in [Requests -> Scripts \cup {<< >>}]
      /\ \A q \in Requests : q # r => plan'[q] = plan[q]
      /\ heard' \in [Requests -> Texts] /\ reply' \in [Requests -> Texts]
  <2>1. CASE LetIn(r)
    <3>1. PICK prompt \in Prompts, calls \in Scripts :
            /\ heard' = [heard EXCEPT ![r] = mask(mask(prompt))]
            /\ plan' = [plan EXCEPT ![r] = calls]
            /\ \/ UNCHANGED reply
               \/ \E text \in Replies : reply' = [reply EXCEPT ![r] = mask(text)]
      BY <2>1 DEF LetIn
    <3>2. heard' \in [Requests -> Texts]
      BY <1>0, <3>1, MaskType
    <3>3. reply' \in [Requests -> Texts]
      BY <1>0, <3>1, MaskType
    <3> QED
      BY <1>0, <3>1, <3>2, <3>3
  <2> QED
    BY <1>0, <1>5, <2>1
<1>7. TypeOK'
  BY <1>0, <1>2, <1>3, <1>4, <1>5, <1>6 DEF TypeOK, Stages, Results, LogLines
<1>n. Len(results[r]) = 0 /\ \A i \in 1 .. MaxScript : phase[<<r, i>>] = "pending"
  <2>1. /\ Len(results[r]) = 0
        /\ \A i \in 1 .. MaxScript : phase[<<r, i>>] \in Allowed("new", 0, i)
    BY <1>0, <1>2 DEF LoopInv
  <2>2. \A i \in 1 .. MaxScript : Allowed("new", 0, i) = {"pending"}
    BY <1>0 DEF Allowed
  <2> QED
    BY <2>1, <2>2
<1>8. LoopInv'
  <2> SUFFICES ASSUME NEW q \in Requests
               PROVE  /\ stage'[q] \in {"new"} \cup Refusals =>
                           Len(results'[q]) = 0 /\ Len(plan'[q]) = 0
                      /\ stage'[q] \in {"handling", "raised"} =>
                           Len(results'[q]) < Len(plan'[q])
                      /\ stage'[q] = "returned" => Len(results'[q]) = Len(plan'[q])
                      /\ \A i \in 1 .. MaxScript :
                           phase'[<<q, i>>] \in Allowed(stage'[q], Len(results'[q]), i)
    BY DEF LoopInv
  <2>1. CASE q # r
    <3>1. /\ stage'[q] = stage[q] /\ plan'[q] = plan[q] /\ results'[q] = results[q]
          /\ phase' = phase
      BY <1>2, <1>6, <1>s, <2>1
    <3> QED
      BY <1>0, <3>1 DEF LoopInv
  <2>2. CASE q = r
    <3>1. \A i \in 1 .. MaxScript : "pending" \in Allowed(st, 0, i)
      BY <1>5 DEF Allowed, Refusals
    <3>2. CASE st \in Refusals /\ UNCHANGED plan
      BY <1>0, <1>2, <1>n, <1>s, <2>2, <3>1, <3>2 DEF LoopInv, Refusals
    <3>3. CASE st \in {"handling", "returned"} /\ LetIn(r)
      <4>1. \/ Len(plan'[r]) = 0 /\ stage'[r] = "returned"
            \/ Len(plan'[r]) > 0 /\ stage'[r] = "handling"
        <5>1. PICK calls \in Scripts :
                 /\ plan' = [plan EXCEPT ![r] = calls]
                 /\ \/ calls = << >> /\ stage' = [stage EXCEPT ![r] = "returned"]
                    \/ calls # << >> /\ stage' = [stage EXCEPT ![r] = "handling"]
          BY <3>3 DEF LetIn
        <5>2. plan'[r] = calls /\ calls \in Seq(Proposals)
          BY <1>0, <5>1, PipelineAssumption
        <5>3. calls # << >> => Len(calls) > 0
          BY <5>2
        <5> QED
          BY <1>0, <5>1, <5>2, <5>3
      <4> QED
        BY <1>2, <1>n, <1>s, <2>2, <3>1, <3>3, <4>1 DEF Refusals
    <3> QED
      BY <1>5, <3>2, <3>3
  <2> QED
    BY <2>1, <2>2
<1>9. ResultsAreInTheTrail'
  <2>2. \A q \in Requests : /\ stage[q] = "raised" => stage'[q] = "raised"
                            /\ q # r => stage'[q] = stage[q] /\ plan'[q] = plan[q]
    BY <1>2, <1>6, <1>s
  <2>3. LinesInOrder' /\ DOMAIN log' = DOMAIN log
    BY <1>0, <1>2 DEF ResultsAreInTheTrail, LinesInOrder
  <2>4. \A k \in DOMAIN log : Accounted(k)'
    BY <1>0, <1>2, <2>2 DEF ResultsAreInTheTrail, Accounted
  <2>5. \A q \in Requests : \A i \in DOMAIN results[q] : Recorded(q, i)'
    BY <1>0, <1>2, ZenonT(30) DEF ResultsAreInTheTrail, Recorded
  <2>6. \A q \in Requests : stage'[q] = "returned" => Len(results'[q]) = Len(plan'[q])
    BY <1>8 DEF LoopInv
  <2> QED
    BY <1>2, <2>3, <2>4, <2>5, <2>6 DEF ResultsAreInTheTrail
<1> QED
  BY <1>7, <1>8, <1>9 DEF Inv

(* A call that starts is the one the loop is at.                           *)
LEMMA CallStartsKeeps ==
  ASSUME Inv, NEW r \in Requests, CallStarts(r)
  PROVE  Inv'
<1> USE Types
<1> DEFINE c == Current(r)
<1>0. TypeOK /\ LoopInv /\ ResultsAreInTheTrail
  BY DEF Inv
<1>1. /\ stage[r] = "handling"
      /\ phase[c] = "pending" /\ phase' = [phase EXCEPT ![c] = "running"] /\ log' = log
      /\ IF Proposed(c) \in Gated THEN Shown(c) ELSE UNCHANGED received
      /\ UNCHANGED <<requests, decisions>>
  BY DEF CallStarts, Interceptor!Start
<1>2. /\ c \in Calls /\ c = <<r, Len(results[r]) + 1>> /\ Proposed(c) \in Proposals
      /\ Len(results[r]) + 1 \in 1 .. MaxScript
  BY <1>0, <1>1, CurrentCall
<1> HIDE DEF c
<1>u. UNCHANGED <<stage, presented, counts, heard, plan, results, reply>>
  BY <1>1 DEF requests
<1>3. /\ phase' \in [Calls -> {"pending", "running", "returned", "raised"}]
      /\ phase'[c] = "running" /\ \A d \in Calls : d # c => phase'[d] = phase[d]
  BY <1>0, <1>1, <1>2
<1>4. received' \subseteq [call : Calls, request : Proposals]
  <2>1. [call |-> c, request |-> Proposed(c)] \in [call : Calls, request : Proposals]
    BY <1>2
  <2> QED
    BY <1>0, <1>1, <2>1 DEF Shown
<1>5. TypeOK'
  BY <1>0, <1>1, <1>u, <1>3, <1>4 DEF TypeOK
<1>6. LoopInv'
  <2> SUFFICES ASSUME NEW q \in Requests, NEW i \in 1 .. MaxScript
               PROVE  phase'[<<q, i>>] \in Allowed(stage[q], Len(results[q]), i)
    BY <1>0, <1>u DEF LoopInv
  <2>1. CASE <<q, i>> = c
    <3>1. q = r /\ i = Len(results[r]) + 1 /\ Len(results[r]) \in Nat
      BY <1>0, <1>2, <2>1
    <3>2. "running" \in Allowed("handling", Len(results[r]), Len(results[r]) + 1)
      BY <3>1 DEF Allowed
    <3> QED
      BY <1>1, <1>3, <2>1, <3>1, <3>2
  <2>2. CASE <<q, i>> # c
    <3>1. phase'[<<q, i>>] = phase[<<q, i>>]
      BY <1>3, <2>2 DEF Calls
    <3> QED
      BY <1>0, <3>1 DEF LoopInv
  <2> QED
    BY <2>1, <2>2
<1>7. ResultsAreInTheTrail'
  BY <1>0, <1>1, <1>u, ZenonT(30) DEF ResultsAreInTheTrail, LinesInOrder, Accounted, Recorded
<1> QED
  BY <1>5, <1>6, <1>7 DEF Inv

-----------------------------------------------------------------------------
(* A call that leaves handle: the line it writes is the last of its        *)
(* request, and the result appended says the same.                         *)
LEMMA CallEndsKeeps ==
  ASSUME Inv, NEW r \in Requests, CallEnds(r)
  PROVE  Inv'
<1> DEFINE c == Current(r)
           n == Len(results[r])
<1>0. TypeOK /\ LoopInv /\ ResultsAreInTheTrail
  BY DEF Inv
<1>t. /\ stage \in [Requests -> Stages] /\ reply \in [Requests -> Texts]
      /\ results \in [Requests -> Seq(Results)]
      /\ \A q \in Requests : /\ results[q] \in Seq(Results) /\ Len(results[q]) \in Nat
                             /\ DOMAIN results[q] = 1 .. Len(results[q])
                             /\ Len(plan[q]) \in Nat
      /\ received \subseteq [call : Calls, request : Proposals]
      /\ phase \in [Calls -> {"pending", "running", "returned", "raised"}]
      /\ log \in Seq(LogLines) /\ Len(log) \in Nat /\ DOMAIN log = 1 .. Len(log)
      /\ \A k \in DOMAIN log : log[k].call[1] \in Requests /\ log[k].call[2] \in 1 .. MaxScript
      /\ MaxScript \in Nat
  BY <1>0, Types
<1>1. stage[r] = "handling" /\ n \in Nat
  BY <1>0, <1>t, CallEndsEffect
<1>2. PICK how \in {"returned", "raised"} : EndsBy(r, how)
  BY <1>0, <1>t, CallEndsEffect
<1>3. /\ c \in Calls /\ c = <<r, n + 1>> /\ c[1] = r /\ c[2] = n + 1
      /\ Proposed(c) \in Proposals
      /\ n + 1 \in 1 .. MaxScript /\ n + 1 <= Len(plan[r])
  BY <1>0, <1>t, <1>1, CurrentCall
<1>4. /\ phase' = [phase EXCEPT ![c] = how]
      /\ received' = received \/ Shown(c)
      /\ UNCHANGED <<presented, counts, heard, plan, decisions>>
      /\ how = "raised" => /\ stage' = [stage EXCEPT ![r] = "raised"]
                           /\ UNCHANGED <<results, reply>>
      /\ how = "returned" => IF n + 1 = Len(plan[r]) THEN Complete(r)
                             ELSE UNCHANGED <<stage, reply>>
      /\ how = "returned" => log' # log
  <2>1. \A line \in LogLines : Append(log, line) # log
    <3> TAKE line \in LogLines
    <3>1. Len(Append(log, line)) = Len(log) + 1
      BY <1>t, AppendProperties
    <3>2. \A m \in Nat : m # m + 1
      OBVIOUS
    <3> QED
      BY <1>t, <3>1, <3>2, Zenon
  <2> QED
    BY <1>2, <1>3, <2>1 DEF EndsBy
<1>5. ASSUME log' # log
      PROVE  \E line \in LogLines :
               /\ line.call = c
               /\ log' = Append(log, line)
               /\ how = "returned" =>
                    results' = [results EXCEPT ![r] =
                                  Append(@, [ran |-> line.ran, result |-> line.result])]
  BY <1>2, <1>5 DEF EndsBy
<1> HIDE DEF c, n
<1>6. /\ phase' \in [Calls -> {"pending", "running", "returned", "raised"}]
      /\ phase'[c] = how /\ \A d \in Calls : d # c => phase'[d] = phase[d]
  BY <1>0, <1>t, <1>3, <1>4
<1>7. received' \subseteq [call : Calls, request : Proposals]
  <2>1. [call |-> c, request |-> Proposed(c)] \in [call : Calls, request : Proposals]
    BY <1>3
  <2> QED
    BY <1>0, <1>t, <1>4, <2>1 DEF Shown
<1>8. /\ log' \in Seq(LogLines) /\ DOMAIN log' = 1 .. Len(log')
      /\ \A k \in DOMAIN log : k \in DOMAIN log' /\ log'[k] = log[k]
      /\ \A k \in DOMAIN log' \ DOMAIN log :
           k = Len(log) + 1 /\ log'[k].call = c
      /\ log' # log => Len(log) + 1 \in DOMAIN log' \ DOMAIN log
  <2>1. CASE log' = log
    BY <1>t, <2>1
  <2>2. CASE log' # log
    <3>1. PICK line \in LogLines : line.call = c /\ log' = Append(log, line)
      BY <1>5, <2>2
    <3>2. /\ log' \in Seq(LogLines) /\ Len(log') = Len(log) + 1
          /\ log'[Len(log) + 1] = line
          /\ \A k \in 1 .. Len(log) : log'[k] = log[k]
      BY <1>t, <3>1, AppendProperties
    <3>3. DOMAIN log' = 1 .. Len(log) + 1
      BY <3>2, LenProperties
    <3>4. \A k \in DOMAIN log' \ DOMAIN log : k = Len(log) + 1
      BY <1>t, <3>3
    <3>5. Len(log) + 1 \in DOMAIN log' \ DOMAIN log
      BY <1>t, <3>3
    <3>6. \A k \in DOMAIN log : k \in DOMAIN log' /\ log'[k] = log[k]
      BY <1>t, <3>2, <3>3
    <3> QED
      BY <3>1, <3>2, <3>3, <3>4, <3>5, <3>6
  <2> QED
    BY <2>1, <2>2
<1>9. /\ results' \in [Requests -> Seq(Results)]
      /\ \A q \in Requests : q # r => results'[q] = results[q]
      /\ how = "raised" => results'[r] = results[r]
      /\ how = "returned" => /\ Len(results'[r]) = n + 1
                             /\ \A i \in 1 .. n : results'[r][i] = results[r][i]
                             /\ results'[r][n + 1].ran = log'[Len(log) + 1].ran
                             /\ results'[r][n + 1].result = log'[Len(log) + 1].result
  <2>1. CASE how = "raised"
    BY <1>0, <1>t, <1>4, <2>1
  <2>2. CASE how = "returned"
    <3>1. PICK line \in LogLines :
            /\ log' = Append(log, line)
            /\ results' = [results EXCEPT ![r] =
                             Append(@, [ran |-> line.ran, result |-> line.result])]
      BY <1>4, <1>5, <2>2
    <3> DEFINE e == [ran |-> line.ran, result |-> line.result]
    <3>2. e \in Results /\ e.ran = line.ran /\ e.result = line.result
      BY DEF LogLines, Results
    <3>3. log'[Len(log) + 1] = line
      BY <1>0, <1>t, <3>1, AppendProperties
    <3>4. results' = [results EXCEPT ![r] = Append(results[r], e)]
      BY <3>1
    <3> HIDE DEF e
    <3>5. /\ Append(results[r], e) \in Seq(Results)
          /\ Len(Append(results[r], e)) = n + 1
          /\ \A i \in 1 .. n : Append(results[r], e)[i] = results[r][i]
          /\ Append(results[r], e)[n + 1] = e
      BY <1>0, <1>t, <3>2, AppendProperties DEF n
    <3>6. results'[r] = Append(results[r], e)
      BY <1>0, <1>t, <3>4
    <3>7. results' \in [Requests -> Seq(Results)]
      BY <1>0, <1>t, <3>4, <3>5
    <3>8. \A q \in Requests : q # r => results'[q] = results[q]
      BY <1>0, <1>t, <3>4
    <3> QED
      BY <2>2, <3>2, <3>3, <3>5, <3>6, <3>7, <3>8
  <2> QED
    BY <2>1, <2>2
<1>10. /\ stage' \in [Requests -> Stages] /\ reply' \in [Requests -> Texts]
       /\ \A q \in Requests : q # r => stage'[q] = stage[q]
       /\ stage'[r] = IF how = "raised" THEN "raised"
                      ELSE IF n + 1 = Len(plan[r]) THEN "returned" ELSE "handling"
  <2>1. CASE how = "raised"
    BY <1>0, <1>t, <1>4, <2>1 DEF Stages
  <2>2. CASE how = "returned" /\ n + 1 # Len(plan[r])
    BY <1>0, <1>t, <1>1, <1>4, <2>2
  <2>3. CASE how = "returned" /\ n + 1 = Len(plan[r])
    <3>1. PICK text \in Replies : reply' = [reply EXCEPT ![r] = mask(text)]
      BY <1>4, <2>3 DEF Complete, inspect_output
    <3>2. reply' \in [Requests -> Texts]
      BY <1>0, <1>t, <3>1, MaskType
    <3>3. stage' = [stage EXCEPT ![r] = "returned"]
      BY <1>4, <2>3 DEF Complete
    <3> QED
      BY <1>0, <1>t, <2>3, <3>2, <3>3 DEF Stages
  <2> QED
    BY <2>1, <2>2, <2>3
<1>11. TypeOK'
  BY <1>0, <1>t, <1>4, <1>6, <1>7, <1>8, <1>9, <1>10 DEF TypeOK, Stages, Results, LogLines
<1>12. LoopInv'
  <2> SUFFICES ASSUME NEW q \in Requests
               PROVE  /\ stage'[q] \in {"new"} \cup Refusals =>
                           Len(results'[q]) = 0 /\ Len(plan[q]) = 0
                      /\ stage'[q] \in {"handling", "raised"} =>
                           Len(results'[q]) < Len(plan[q])
                      /\ stage'[q] = "returned" => Len(results'[q]) = Len(plan[q])
                      /\ \A i \in 1 .. MaxScript :
                           phase'[<<q, i>>] \in Allowed(stage'[q], Len(results'[q]), i)
    BY <1>4 DEF LoopInv
  <2>1. CASE q # r
    <3>1. stage'[q] = stage[q] /\ results'[q] = results[q]
      BY <1>9, <1>10, <2>1
    <3>2. \A i \in 1 .. MaxScript : phase'[<<q, i>>] = phase[<<q, i>>]
      BY <1>3, <1>6, <2>1 DEF Calls
    <3> QED
      BY <1>0, <1>t, <3>1, <3>2 DEF LoopInv
  <2>2. CASE q = r
    <3>1. \A i \in 1 .. MaxScript : i # n + 1 => phase'[<<r, i>>] = phase[<<r, i>>]
      BY <1>3, <1>6 DEF Calls
    <3>2. phase'[<<r, n + 1>>] = how
      BY <1>3, <1>6
    <3>3. \A i \in 1 .. MaxScript : phase[<<r, i>>] \in Allowed("handling", n, i)
      BY <1>0, <1>t, <1>1 DEF LoopInv, n
    <3>4. CASE how = "raised"
      <4>1. stage'[r] = "raised" /\ Len(results'[r]) = n
        BY <1>9, <1>10, <3>4 DEF n
      <4>2. \A i \in 1 .. MaxScript : phase'[<<r, i>>] \in Allowed("raised", n, i)
        <5> SUFFICES ASSUME NEW i \in 1 .. MaxScript
                     PROVE  phase'[<<r, i>>] \in Allowed("raised", n, i)
          OBVIOUS
        <5>1. CASE i = n + 1
          BY <1>1, <3>2, <3>4, <5>1 DEF Allowed
        <5>2. CASE i # n + 1
          <6>1. Allowed("raised", n, i) = Allowed("handling", n, i)
            BY <1>0, <1>t, <1>1, <5>2 DEF Allowed
          <6> QED
            BY <3>1, <3>3, <5>2, <6>1
        <5> QED
          BY <5>1, <5>2
      <4>3. Len(plan[r]) \in Nat /\ n < Len(plan[r])
        BY <1>t, <1>1, <1>3
      <4> QED
        BY <2>2, <4>1, <4>2, <4>3 DEF Refusals
    <3>5. CASE how = "returned"
      <4>1. /\ stage'[r] = IF n + 1 = Len(plan[r]) THEN "returned" ELSE "handling"
            /\ Len(results'[r]) = n + 1
        BY <1>9, <1>10, <3>5
      <4>2. \A i \in 1 .. MaxScript : phase'[<<r, i>>] \in Allowed(stage'[r], n + 1, i)
        <5> SUFFICES ASSUME NEW i \in 1 .. MaxScript
                     PROVE  phase'[<<r, i>>] \in Allowed(stage'[r], n + 1, i)
          OBVIOUS
        <5>1. CASE i = n + 1
          BY <1>1, <3>2, <3>5, <5>1 DEF Allowed
        <5>2. CASE i <= n
          <6>1. Allowed("handling", n, i) = {"returned"} /\ i # n + 1
                /\ Allowed(stage'[r], n + 1, i) = {"returned"}
            BY <1>0, <1>t, <1>1, <5>2 DEF Allowed
          <6> QED
            BY <3>1, <3>3, <6>1
        <5>3. CASE i > n + 1
          <6>1. Allowed("handling", n, i) = {"pending"} /\ i # n + 1
            BY <1>0, <1>t, <1>1, <5>3 DEF Allowed
          <6>2. "pending" \in Allowed(stage'[r], n + 1, i)
            BY <1>0, <1>t, <1>1, <4>1, <5>3 DEF Allowed
          <6> QED
            BY <3>1, <3>3, <6>1, <6>2
        <5> QED
          BY <1>0, <1>t, <1>1, <5>1, <5>2, <5>3
      <4>3. Len(plan[r]) \in Nat /\ n + 1 <= Len(plan[r])
        BY <1>0, <1>t, <1>3
      <4> QED
        BY <1>1, <2>2, <4>1, <4>2, <4>3 DEF Refusals
    <3> QED
      BY <3>4, <3>5
  <2> QED
    BY <2>1, <2>2
<1>13. ResultsAreInTheTrail'
  <2>0. LinesInOrder /\ \A k \in DOMAIN log : Accounted(k)
    BY <1>0 DEF ResultsAreInTheTrail
  <2>3. \A k \in DOMAIN log : log[k].call[1] = r => log[k].call[2] <= n
    BY <1>1, <2>0 DEF Accounted, n
  <2>4. LinesInOrder'
    <3> SUFFICES ASSUME NEW j \in DOMAIN log', NEW k \in DOMAIN log', j < k,
                        log'[j].call[1] = log'[k].call[1]
                 PROVE  log'[j].call[2] < log'[k].call[2]
      BY DEF LinesInOrder
    <3>1. j \in DOMAIN log
      BY <1>t, <1>8, SMTT(30)
    <3>2. CASE k \in DOMAIN log
      BY <2>0, <1>8, <3>1, <3>2 DEF LinesInOrder
    <3>3. CASE k \notin DOMAIN log
      <4>1. log'[k].call[1] = r /\ log'[k].call[2] = n + 1
        BY <1>3, <1>8, <3>3
      <4>2. log[j].call[2] <= n /\ log[j].call[2] \in Nat
        BY <1>0, <1>t, <1>8, <2>3, <3>1, <4>1, SMTT(30)
      <4> QED
        BY <1>1, <1>8, <3>1, <4>1, <4>2
    <3> QED
      BY <3>2, <3>3
  <2>5. ASSUME NEW k \in DOMAIN log' PROVE Accounted(k)'
    <3>1. CASE k \in DOMAIN log /\ log[k].call[1] # r
      <4> DEFINE q == log[k].call[1]
      <4>1. q \in Requests /\ log'[k] = log[k] /\ results'[q] = results[q] /\ stage'[q] = stage[q]
        BY <1>0, <1>t, <1>9, <1>10, <1>8, <3>1
      <4> QED
        BY <2>0, <3>1, <4>1 DEF Accounted
    <3>2. CASE k \in DOMAIN log /\ log[k].call[1] = r
      <4>1. log'[k] = log[k] /\ log[k].call[2] <= n /\ log[k].call[2] \in Nat
        BY <1>0, <1>t, <1>8, <2>3, <3>2
      <4>2. Len(results'[r]) \in {n, n + 1}
        BY <1>9 DEF n
      <4> QED
        BY <1>1, <3>2, <4>1, <4>2 DEF Accounted
    <3>3. CASE k \notin DOMAIN log
      <4>1. log'[k].call[1] = r /\ log'[k].call[2] = n + 1
        BY <1>3, <1>8, <3>3
      <4>2. \/ Len(results'[r]) = n /\ stage'[r] = "raised"
            \/ Len(results'[r]) = n + 1
        BY <1>9, <1>10 DEF n
      <4> QED
        BY <1>1, <4>1, <4>2 DEF Accounted
    <3> QED
      BY <3>1, <3>2, <3>3
  <2>6. ASSUME NEW q \in Requests, NEW i \in DOMAIN results'[q] PROVE Recorded(q, i)'
    <3>0. results'[q] \in Seq(Results) /\ DOMAIN results'[q] = 1 .. Len(results'[q])
      BY <1>9, LenProperties
    <3>1. CASE i \in DOMAIN results[q]
      <4>1. Recorded(q, i)
        BY <1>0, <1>t, <3>1 DEF ResultsAreInTheTrail
      <4>2. results'[q][i] = results[q][i]
        BY <1>0, <1>t, <1>9, <3>1 DEF n
      <4> QED
        BY <1>8, <4>1, <4>2 DEF Recorded
    <3>2. CASE i \notin DOMAIN results[q]
      <4>1. q = r /\ how = "returned" /\ i = n + 1
        BY <1>0, <1>t, <1>1, <1>9, <3>0, <3>2 DEF n
      <4>2. Len(log) + 1 \in DOMAIN log' /\ log'[Len(log) + 1].call = <<r, n + 1>>
        BY <1>3, <1>4, <1>8, <4>1
      <4> QED
        BY <1>9, <4>1, <4>2 DEF Recorded
    <3> QED
      BY <3>1, <3>2
  <2>7. \A q \in Requests : stage'[q] = "returned" => Len(results'[q]) = Len(plan'[q])
    BY <1>12 DEF LoopInv
  <2> QED
    BY <2>4, <2>5, <2>6, <2>7 DEF ResultsAreInTheTrail
<1> QED
  BY <1>11, <1>12, <1>13 DEF Inv

-----------------------------------------------------------------------------
(* Before any request arrives the invariant holds.                         *)
LEMMA InvInit ==
  ASSUME Init
  PROVE  Inv
<1>1. /\ stage = [r \in Requests |-> "new"] /\ presented = [r \in Requests |-> "nothing"]
      /\ counts = [a \in Agents |-> 0] /\ heard = [r \in Requests |-> Nothing]
      /\ plan = [r \in Requests |-> << >>] /\ results = [r \in Requests |-> << >>]
      /\ reply = [r \in Requests |-> Nothing]
      /\ decisions = [p \in Proposals |-> DefaultApproval]
      /\ received = {} /\ phase = [c \in Calls |-> "pending"] /\ log = << >>
  BY DEF Init, Interceptor!Init
<1>2. DefaultApproval \in BOOLEAN /\ MaxScript \in Nat
  BY PipelineAssumption
<1>3. << >> \in Seq(Results) /\ << >> \in Seq(LogLines)
  BY EmptySeq
<1>4. TypeOK
  BY <1>1, <1>2, <1>3, NothingType DEF TypeOK, Results, LogLines
<1>5. LoopInv
  <2>1. \A i \in 1 .. MaxScript : "pending" \in Allowed("new", 0, i)
    BY <1>2 DEF Allowed
  <2>2. \A r \in Requests : /\ stage[r] = "new" /\ Len(results[r]) = 0 /\ Len(plan[r]) = 0
                            /\ \A i \in 1 .. MaxScript : phase[<<r, i>>] = "pending"
    BY <1>1 DEF Calls
  <2> QED
    BY <2>1, <2>2 DEF LoopInv
<1>6. DOMAIN log = {} /\ \A r \in Requests : DOMAIN results[r] = {} /\ stage[r] = "new"
  BY <1>1
<1>7. ResultsAreInTheTrail
  BY <1>6 DEF ResultsAreInTheTrail, LinesInOrder
<1> QED
  BY <1>4, <1>5, <1>7 DEF Inv

(* A decision of the approver changes what the queue will answer, and      *)
(* nothing that has happened.                                              *)
LEMMA DecisionKeeps ==
  ASSUME Inv, NEW p \in Gated, NEW approved \in BOOLEAN, set_decision(p, approved)
  PROVE  Inv'
<1>1. /\ decisions' = [decisions EXCEPT ![p] = approved]
      /\ UNCHANGED <<stage, presented, counts, heard, plan, results, reply,
                     received, phase, log>>
  BY DEF set_decision, requests
<1>2. decisions' \in [Proposals -> BOOLEAN]
  BY <1>1, Types DEF Inv
<1>3. TypeOK'
  BY <1>1, <1>2 DEF Inv, TypeOK
<1>4. LoopInv'
  BY <1>1 DEF Inv, LoopInv
<1>5. ResultsAreInTheTrail'
  BY <1>1 DEF Inv, ResultsAreInTheTrail, LinesInOrder, Accounted, Recorded
<1> QED
  BY <1>3, <1>4, <1>5 DEF Inv

(* Every step of the pipeline preserves the invariant; the lemmas above    *)
(* take one action each.                                                   *)
LEMMA InvStep ==
  ASSUME Inv, [Next]_vars
  PROVE  Inv'
<1>1. ASSUME NEW r \in Requests, Arrives(r) PROVE Inv'
  BY <1>1, ArrivesKeeps
<1>2. ASSUME NEW r \in Requests, CallStarts(r) PROVE Inv'
  BY <1>2, CallStartsKeeps
<1>3. ASSUME NEW r \in Requests, CallEnds(r) PROVE Inv'
  BY <1>3, CallEndsKeeps
<1>4. ASSUME NEW p \in Gated, NEW approved \in BOOLEAN, set_decision(p, approved) PROVE Inv'
  BY <1>4, DecisionKeeps
<1>5. CASE UNCHANGED vars
  BY <1>5 DEF vars, requests, Inv, TypeOK, LoopInv, ResultsAreInTheTrail, LinesInOrder,
              Accounted, Recorded
<1> QED
  BY <1>1, <1>2, <1>3, <1>4, <1>5 DEF Next

(* The invariant holds in every reachable state.                           *)
LEMMA InvHolds == Spec => []Inv
BY InvInit, InvStep, PTL DEF Spec

(* Every part of the state keeps its type, for any requests, prompts,      *)
(* scripts and tokens: what run keeps is always a masked text, a plan that *)
(* was scripted and results the interceptor can give.                      *)
THEOREM TypeCorrect == Spec => []TypeOK
<1>1. Inv => TypeOK
  BY DEF Inv
<1> QED
  BY <1>1, InvHolds, PTL

(* The calls of one request happen one after the other, in the order in    *)
(* which they were proposed, and after one that raised there is none,      *)
(* however many requests run at the same time.                             *)
THEOREM CallsAreSequential == Spec => []OneCallAtATime
<1>1. ASSUME Inv PROVE OneCallAtATime
  <2> SUFFICES ASSUME NEW r \in Requests
               PROVE  /\ \A i \in 1 .. MaxScript : phase[<<r, i>>] # "pending" =>
                           /\ i <= Len(plan[r])
                           /\ \A j \in 1 .. i - 1 : phase[<<r, j>>] = "returned"
                      /\ stage[r] = "raised" <=>
                           \E i \in 1 .. MaxScript : phase[<<r, i>>] = "raised"
    BY DEF OneCallAtATime
  <2> DEFINE n == Len(results[r])
             st == stage[r]
  <2>1. /\ n \in Nat /\ Len(plan[r]) \in Nat /\ MaxScript \in Nat /\ Len(plan[r]) <= MaxScript
        /\ st \in Stages
    BY <1>1, Types DEF Inv
  <2>2. /\ st \in {"handling", "raised"} => n < Len(plan[r])
        /\ n <= Len(plan[r])
        /\ \A i \in 1 .. MaxScript : phase[<<r, i>>] \in Allowed(st, n, i)
    BY <1>1, <2>1 DEF Inv, LoopInv, Stages, Refusals
  <2> HIDE DEF n, st
  <2>3. ASSUME NEW i \in 1 .. MaxScript, phase[<<r, i>>] # "pending"
        PROVE  /\ i <= Len(plan[r])
               /\ \A j \in 1 .. i - 1 : phase[<<r, j>>] = "returned"
    <3>1. i <= n \/ (i = n + 1 /\ st \in {"handling", "raised"})
      <4>1. i > n + 1 => Allowed(st, n, i) = {"pending"}
        BY <2>1 DEF Allowed
      <4>2. (i = n + 1 /\ st \notin {"handling", "raised"}) => Allowed(st, n, i) = {"pending"}
        BY <2>1 DEF Allowed
      <4>3. i <= n \/ i = n + 1 \/ i > n + 1
        BY <2>1
      <4>4. Allowed(st, n, i) # {"pending"}
        <5>1. phase[<<r, i>>] \in Allowed(st, n, i)
          BY <2>2
        <5> QED
          BY <2>3, <5>1
      <4> QED
        BY <4>1, <4>2, <4>3, <4>4
    <3>2. \A j \in 1 .. i - 1 : j \in 1 .. MaxScript /\ j <= n
      BY <2>1, <3>1
    <3>3. \A j \in 1 .. i - 1 : Allowed(st, n, j) = {"returned"}
      BY <3>2 DEF Allowed
    <3> QED
      BY <2>1, <2>2, <3>1, <3>2, <3>3
  <2>4. ASSUME st = "raised" PROVE \E i \in 1 .. MaxScript : phase[<<r, i>>] = "raised"
    <3>1. n + 1 \in 1 .. MaxScript /\ Allowed(st, n, n + 1) = {"raised"}
      BY <2>1, <2>2, <2>4 DEF Allowed
    <3> QED
      BY <2>2, <3>1
  <2>5. ASSUME NEW i \in 1 .. MaxScript, phase[<<r, i>>] = "raised" PROVE st = "raised"
    BY <2>2, <2>5 DEF Allowed
  <2> QED
    BY <2>3, <2>4, <2>5 DEF st
<1> QED
  BY <1>1, InvHolds, PTL

(* A PipelineResult agrees with the audit trail, one line per call and in  *)
(* order; and the results that an exception takes from the caller are all  *)
(* in the trail, with at most one line more.                               *)
THEOREM TrailHoldsTheResults == Spec => []ResultsAreInTheTrail
<1>1. Inv => ResultsAreInTheTrail
  BY DEF Inv
<1> QED
  BY <1>1, InvHolds, PTL

-----------------------------------------------------------------------------
(* The gateway and the guardrail.  After it has arrived a request moves    *)
(* only from being handled to its end, and nothing is charged for that.    *)
Moves(q) == \/ stage'[q] = stage[q]
            \/ stage[q] = "handling" /\ stage'[q] \in {"returned", "raised"}

(* No step but an arrival touches the quota, what was presented or what    *)
(* was heard.                                                              *)
LEMMA OnlyArrivalsPass ==
  ASSUME Inv, [Next]_vars
  PROVE  \/ \E r \in Requests : Arrives(r)
         \/ UNCHANGED <<presented, counts, heard>> /\ \A q \in Requests : Moves(q)
<1>0. TypeOK /\ LoopInv
  BY DEF Inv
<1>1. ASSUME NEW r \in Requests, CallStarts(r)
      PROVE  UNCHANGED <<presented, counts, heard, stage>>
  BY <1>1 DEF CallStarts, requests
<1>2. ASSUME NEW r \in Requests, CallEnds(r)
      PROVE  UNCHANGED <<presented, counts, heard>> /\ \A q \in Requests : Moves(q)
  <2>1. PICK how \in {"returned", "raised"} : EndsBy(r, how)
    BY <1>0, <1>2, CallEndsEffect
  <2>2. /\ stage[r] = "handling" /\ UNCHANGED <<presented, counts, heard>>
        /\ \/ stage' = stage
           \/ \E end \in {"returned", "raised"} : stage' = [stage EXCEPT ![r] = end]
    BY <1>0, <1>2, <2>1, CallEndsEffect DEF EndsBy, Complete
  <2>3. stage \in [Requests -> Stages]
    BY <1>0, Types
  <2> QED
    BY <2>2, <2>3 DEF Moves
<1>3. ASSUME NEW p \in Gated, NEW approved \in BOOLEAN, set_decision(p, approved)
      PROVE  UNCHANGED <<presented, counts, heard, stage>>
  BY <1>3 DEF set_decision, requests
<1>4. ASSUME UNCHANGED vars PROVE UNCHANGED <<presented, counts, heard, stage>>
  BY <1>4 DEF vars, requests
<1> QED
  BY <1>1, <1>2, <1>3, <1>4 DEF Next, Moves

(* What QuotaIsExact counts.                                               *)
Asked(a)  == {r \in Requests : AgentOf(r) = a /\ Authenticated(r)}
Served(a) == {r \in Asked(a) : PastGateway(r)}

ExactFor(a) == /\ counts[a] = Cardinality(Asked(a))
               /\ Cardinality(Served(a)) <= RateLimit
               /\ Served(a) # Asked(a) => Cardinality(Served(a)) = RateLimit

(* The quota property, agent by agent.                                     *)
LEMMA QuotaParts == QuotaIsExact <=> \A a \in Agents : ExactFor(a)
BY DEF QuotaIsExact, ExactFor, Asked, Served

(* An agent has finitely many requests, so they can be counted.            *)
LEMMA AskedFinite ==
  ASSUME NEW a
  PROVE  /\ IsFiniteSet(Asked(a)) /\ IsFiniteSet(Served(a))
         /\ Cardinality(Asked(a)) \in Nat /\ Cardinality(Served(a)) \in Nat
         /\ Cardinality(Served(a)) <= Cardinality(Asked(a))
<1>1. IsFiniteSet(Asked(a))
  BY PipelineAssumption, FS_Subset DEF Asked
<1>2. Served(a) \subseteq Asked(a)
  BY DEF Served
<1> QED
  BY <1>1, <1>2, FS_Subset, FS_CardinalityType

(* One arrival, for the agent that is charged and for the others.          *)
LEMMA ArrivalIsCharged ==
  ASSUME TypeOK, QuotaIsExact, NEW r \in Requests, NEW credential, NEW now,
         Submit(r, credential, now)
  PROVE  QuotaIsExact'
<1> DEFINE b == AgentOf(r)
<1>1. /\ stage \in [Requests -> Stages] /\ counts \in [Agents -> Nat] /\ b \in Agents
      /\ RateLimit \in Nat /\ stage[r] = "new"
  <2>1. b \in Agents
    BY DEF AgentOf, Agents, Contexts
  <2>2. stage[r] = "new"
    BY SubmitEffect
  <2> QED
    BY <2>1, <2>2, Types, PipelineAssumption
<1>2. \/ stage' = [stage EXCEPT ![r] = "unauthenticated"] /\ counts' = counts
      \/ /\ counts' = [counts EXCEPT ![b] = counts[b] + 1]
         /\ \/ /\ counts[b] + 1 > RateLimit
               /\ stage' = [stage EXCEPT ![r] = "over_quota"]
            \/ /\ counts[b] + 1 <= RateLimit
               /\ \E s \in {"rejected", "returned", "handling"} :
                    stage' = [stage EXCEPT ![r] = s]
  BY SubmitEffect DEF LetIn
<1>3. \A q \in Requests : q # r => stage'[q] = stage[q]
  BY <1>1, <1>2
<1>4. \A q \in Requests : q # r => /\ Authenticated(q)' <=> Authenticated(q)
                                   /\ PastGateway(q)' <=> PastGateway(q)
  BY <1>3 DEF Authenticated, PastGateway
<1>5. ~Authenticated(r) /\ ~PastGateway(r)
  BY <1>1 DEF Authenticated, PastGateway
<1> SUFFICES ASSUME NEW a \in Agents PROVE ExactFor(a)'
  BY DEF QuotaIsExact, ExactFor, Asked, Served
<1>6. ExactFor(a) /\ Cardinality(Asked(a)) \in Nat /\ Cardinality(Served(a)) \in Nat
      /\ Cardinality(Served(a)) <= Cardinality(Asked(a))
  BY QuotaParts, AskedFinite
<1>7. ASSUME counts'[a] = counts[a], Asked(a)' = Asked(a), Served(a)' = Served(a)
      PROVE  ExactFor(a)'
  BY <1>6, <1>7 DEF ExactFor
<1>8. CASE a # b
  <2>1. counts'[a] = counts[a]
    BY <1>1, <1>2, <1>8
  <2>2. Asked(a)' = Asked(a)
    BY <1>4, <1>8 DEF Asked
  <2>3. Served(a)' = Served(a)
    BY <1>4, <1>8 DEF Asked, Served
  <2> QED
    BY <1>7, <2>1, <2>2, <2>3
<1>9. CASE a = b /\ stage' = [stage EXCEPT ![r] = "unauthenticated"] /\ counts' = counts
  <2>1. ~Authenticated(r)' /\ ~PastGateway(r)'
    BY <1>1, <1>9 DEF Authenticated, PastGateway
  <2>2. Asked(a)' = Asked(a)
    BY <1>4, <1>5, <2>1 DEF Asked
  <2>3. Served(a)' = Served(a)
    BY <1>4, <1>5, <2>1, <2>2 DEF Asked, Served
  <2> QED
    BY <1>7, <1>9, <2>2, <2>3
<1>10. CASE /\ a = b /\ counts' = [counts EXCEPT ![b] = counts[b] + 1]
            /\ counts[b] + 1 > RateLimit /\ stage' = [stage EXCEPT ![r] = "over_quota"]
  <2>1. Authenticated(r)' /\ ~PastGateway(r)'
    BY <1>1, <1>10 DEF Authenticated, PastGateway
  <2>2. Asked(a)' = Asked(a) \cup {r} /\ r \notin Asked(a)
    BY <1>4, <1>5, <1>10, <2>1 DEF Asked
  <2>3. Served(a)' = Served(a)
    BY <1>4, <1>5, <2>1 DEF Asked, Served
  <2>4. Cardinality(Asked(a)') = Cardinality(Asked(a)) + 1 /\ counts'[a] = counts[a] + 1
    BY <1>1, <1>10, <2>2, AskedFinite, FS_AddElement
  <2>5. Cardinality(Served(a)) = RateLimit
    <3>1. CASE Served(a) # Asked(a)
      BY <1>6, <3>1 DEF ExactFor
    <3>2. CASE Served(a) = Asked(a)
      BY <1>1, <1>6, <1>10, <3>2 DEF ExactFor
    <3> QED
      BY <3>1, <3>2
  <2> QED
    BY <1>1, <1>6, <2>3, <2>4, <2>5 DEF ExactFor
<1>11. CASE /\ a = b /\ counts' = [counts EXCEPT ![b] = counts[b] + 1]
            /\ counts[b] + 1 <= RateLimit
            /\ \E s \in {"rejected", "returned", "handling"} :
                 stage' = [stage EXCEPT ![r] = s]
  <2>1. Authenticated(r)' /\ PastGateway(r)'
    BY <1>1, <1>11 DEF Authenticated, PastGateway
  <2>2. Asked(a)' = Asked(a) \cup {r} /\ r \notin Asked(a)
    BY <1>4, <1>5, <1>11, <2>1 DEF Asked
  <2>3. Served(a)' = Served(a) \cup {r} /\ r \notin Served(a)
    BY <1>4, <1>5, <1>11, <2>1 DEF Asked, Served
  <2>4. /\ Cardinality(Asked(a)') = Cardinality(Asked(a)) + 1
        /\ Cardinality(Served(a)') = Cardinality(Served(a)) + 1
        /\ counts'[a] = counts[a] + 1
    BY <1>1, <1>11, <2>2, <2>3, AskedFinite, FS_AddElement, ZenonT(30)
  <2>5. Served(a) = Asked(a)
    BY <1>1, <1>6, <1>11 DEF ExactFor
  <2> QED
    BY <1>1, <1>6, <1>11, <2>2, <2>3, <2>4, <2>5 DEF ExactFor
<1> QED
  BY <1>2, <1>8, <1>9, <1>10, <1>11

(* An agent's quota is spent by every request that authenticates as it, by *)
(* no other, and it is served up to the limit exactly, in whatever order   *)
(* requests arrive and calls end.                                          *)
THEOREM QuotasAreExact == Spec => []QuotaIsExact
<1>1. ASSUME Init PROVE QuotaIsExact
  <2>1. /\ stage = [r \in Requests |-> "new"] /\ counts = [a \in Agents |-> 0]
        /\ RateLimit \in Nat
    BY <1>1, PipelineAssumption DEF Init
  <2>2. \A a : Asked(a) = {} /\ Served(a) = {}
    BY <2>1 DEF Asked, Served, Authenticated
  <2>3. Cardinality({}) = 0
    BY FS_EmptySet
  <2> QED
    BY <2>1, <2>2, <2>3, QuotaParts DEF ExactFor
<1>2. ASSUME Inv, QuotaIsExact, [Next]_vars PROVE QuotaIsExact'
  <2>1. CASE \E r \in Requests : Arrives(r)
    <3>1. PICK r \in Requests : Arrives(r)
      BY <2>1
    <3>2. \E credential, now : Submit(r, credential, now)
      BY <3>1 DEF Arrives
    <3> QED
      BY <1>2, <3>2, ArrivalIsCharged DEF Inv
  <2>2. CASE UNCHANGED <<presented, counts, heard>> /\ \A q \in Requests : Moves(q)
    <3>1. \A q \in Requests : /\ Authenticated(q)' <=> Authenticated(q)
                              /\ PastGateway(q)' <=> PastGateway(q)
      BY <2>2 DEF Moves, Authenticated, PastGateway
    <3>2. \A a : Asked(a)' = Asked(a)
      BY <3>1 DEF Asked
    <3>3. \A a : Served(a)' = Served(a)
      BY <3>1 DEF Asked, Served
    <3>4. \A a \in Agents : ExactFor(a)
      BY <1>2, QuotaParts
    <3>5. \A a \in Agents : ExactFor(a)'
      BY <2>2, <3>2, <3>3, <3>4 DEF ExactFor
    <3> QED
      BY <3>5 DEF QuotaIsExact, ExactFor, Asked, Served
  <2> QED
    BY <1>2, <2>1, <2>2, OnlyArrivalsPass
<1> QED
  BY <1>1, <1>2, InvHolds, PTL DEF Spec

-----------------------------------------------------------------------------
(* Similarity scores are compared as fractions; the comparison is          *)
(* transitive.                                                             *)
Fractions == Nat \X (Nat \ {0})

(* Multiplying both sides by a positive number keeps their order.          *)
LEMMA ProductOrder ==
  ASSUME NEW x \in Nat, NEW y \in Nat, NEW z \in Nat \ {0}
  PROVE  x < y <=> x * z < y * z
<1>1. x < y => x * z < y * z
  BY SMT
<1>2. y <= x => y * z <= x * z
  BY SMT
<1>3. x * z \in Nat /\ y * z \in Nat
  OBVIOUS
<1> QED
  BY <1>1, <1>2, <1>3

(* A fraction that does not exceed one below z is below z itself.          *)
LEMMA LessTransitive ==
  ASSUME NEW x \in Fractions, NEW y \in Fractions, NEW z \in Fractions,
         ~Less(y, x), Less(y, z)
  PROVE  Less(x, z) /\ ~Less(z, x)
<1> PICK a \in Nat, b \in Nat \ {0} : x = <<a, b>>
  BY DEF Fractions
<1> PICK c \in Nat, d \in Nat \ {0} : y = <<c, d>>
  BY DEF Fractions
<1> PICK e \in Nat, f \in Nat \ {0} : z = <<e, f>>
  BY DEF Fractions
<1>1. a * d <= c * b /\ c * f < e * d
  <2>1. c * b \in Nat /\ a * d \in Nat /\ ~(c * b < a * d) /\ c * f < e * d
    BY DEF Less
  <2> QED
    BY <2>1
<1>2. a * d \in Nat /\ c * b \in Nat /\ c * f \in Nat /\ e * d \in Nat
      /\ a * f \in Nat /\ e * b \in Nat
  OBVIOUS
<1>3. (c * f) * b < (e * d) * b
  BY <1>1, <1>2, ProductOrder
<1>4. (a * d) * f <= (c * b) * f
  <2>1. ~((c * b) * f < (a * d) * f)
    BY <1>1, <1>2, ProductOrder
  <2>2. (c * b) * f \in Nat /\ (a * d) * f \in Nat
    BY <1>2
  <2> QED
    BY <2>1, <2>2
<1>5. /\ (a * d) * f = (a * f) * d /\ (c * b) * f = (c * f) * b
      /\ (e * d) * b = (e * b) * d
  BY SMT
<1>6. (a * f) * d < (e * b) * d
  BY <1>2, <1>3, <1>4, <1>5
<1>7. a * f < e * b
  BY <1>2, <1>6, ProductOrder
<1> QED
  BY <1>2, <1>7 DEF Less

(* The similarity to one intent is a fraction.                             *)
Score(text, k) == _jaccard(text.tokens, INJECTION_INTENTS[k])

(* No intent is empty, so no similarity divides by zero.                   *)
LEMMA ScoreType ==
  ASSUME NEW text, IsInspectable(text), NEW k \in 1 .. Len(INJECTION_INTENTS)
  PROVE  Score(text, k) \in Fractions
<1> DEFINE a == text.tokens
           b == INJECTION_INTENTS[k]
<1>1. IsFiniteSet(a) /\ IsFiniteSet(b) /\ b # {}
  BY GuardrailsAssumption DEF IsInspectable
<1>2. IsFiniteSet(a \cap b) /\ IsFiniteSet(a \cup b) /\ a \cup b # {}
  BY <1>1, FS_Subset, FS_Union
<1>3. Cardinality(a \cap b) \in Nat /\ Cardinality(a \cup b) \in Nat \ {0}
  BY <1>2, FS_CardinalityType, FS_EmptySet
<1> QED
  BY <1>3 DEF Score, _jaccard, Fractions

(* The loop over the intents is well-defined.                              *)
ScoreStep(text, old, n) ==
  IF n = 0 THEN <<0, 1>> ELSE IF Less(old, Score(text, n)) THEN Score(text, n) ELSE old

(* There is a table of the best scores so far, one row for each turn of    *)
(* the loop, and the function returns its last row.                        *)
LEMMA BestScore ==
  ASSUME NEW text
  PROVE  \E best : /\ semantic_injection_score(text) = best[Len(INJECTION_INTENTS)]
                   /\ best[0] = <<0, 1>>
                   /\ \A n \in 1 .. Len(INJECTION_INTENTS) :
                        best[n] = ScoreStep(text, best[n - 1], n)
<1> DEFINE N == Len(INJECTION_INTENTS)
           Upto(f, m) == f = [n \in 0 .. m |-> ScoreStep(text, f[n - 1], n)]
           Bad == {m \in 0 .. N : ~\E f : Upto(f, m)}
<1>0. N \in Nat
  BY GuardrailsAssumption
<1>1. Bad = {}
  <2> SUFFICES ASSUME Bad # {} PROVE FALSE
    OBVIOUS
  <2>1. PICK m \in Bad : \A j \in Bad : m <= j
    <3>1. Bad \subseteq Nat
      BY <1>0
    <3> QED
      BY <3>1, LeastExists
  <2>2. CASE m = 0
    <3> DEFINE f == [n \in 0 .. 0 |-> <<0, 1>>]
    <3>1. \A n \in 0 .. 0 : ScoreStep(text, f[n - 1], n) = <<0, 1>>
      BY DEF ScoreStep
    <3>2. Upto(f, 0)
      BY <3>1
    <3> QED
      BY <2>2, <3>2
  <2>3. CASE m # 0
    <3>1. m - 1 \in 0 .. N /\ m \in Nat /\ ~(m <= m - 1)
      BY <1>0, <2>3
    <3>2. PICK f : Upto(f, m - 1)
      BY <2>1, <3>1
    <3> DEFINE g == [n \in 0 .. m |-> IF n = m THEN ScoreStep(text, f[m - 1], m) ELSE f[n]]
    <3>3. \A n \in 0 .. m : g[n] = ScoreStep(text, g[n - 1], n)
      <4> TAKE n \in 0 .. m
      <4>1. CASE n = m
        BY <3>1, <4>1
      <4>2. CASE n # m /\ n # 0
        <5>1. n \in 0 .. m - 1 /\ n - 1 \in 0 .. m /\ n - 1 # m
          BY <3>1, <4>2
        <5>2. g[n] = f[n] /\ g[n - 1] = f[n - 1]
          BY <4>2, <5>1
        <5> QED
          BY <3>2, <5>1, <5>2
      <4>3. CASE n # m /\ n = 0
        <5>1. 0 \in 0 .. m - 1 /\ g[0] = f[0]
          BY <3>1, <4>3
        <5> QED
          BY <3>2, <4>3, <5>1 DEF ScoreStep
      <4> QED
        BY <4>1, <4>2, <4>3
    <3>4. Upto(g, m)
      BY <3>3
    <3> QED
      BY <3>4
  <2> QED
    BY <2>2, <2>3
<1>2. \E f : Upto(f, N)
  BY <1>0, <1>1
<1> DEFINE best == CHOOSE f : Upto(f, N)
<1>3. Upto(best, N)
  BY <1>2
<1>4. semantic_injection_score(text) = best[N]
  BY DEF semantic_injection_score, ScoreStep, Score
<1> HIDE DEF best
<1>5. best[0] = <<0, 1>>
  BY <1>0, <1>3 DEF ScoreStep
<1>6. \A n \in 1 .. N : best[n] = ScoreStep(text, best[n - 1], n)
  BY <1>0, <1>3
<1> QED
  BY <1>4, <1>5, <1>6

(* The score that the loop ends with is not below any intent's.            *)
LEMMA BestIsBest ==
  ASSUME NEW text, IsInspectable(text)
  PROVE  /\ semantic_injection_score(text) \in Fractions
         /\ \A k \in 1 .. Len(INJECTION_INTENTS) :
              ~Less(semantic_injection_score(text), Score(text, k))
<1> DEFINE N == Len(INJECTION_INTENTS)
<1>0. N \in Nat
  BY GuardrailsAssumption
<1>1. PICK best : /\ semantic_injection_score(text) = best[N]
                  /\ best[0] = <<0, 1>>
                  /\ \A n \in 1 .. N : best[n] = ScoreStep(text, best[n - 1], n)
  BY BestScore
<1> DEFINE Fine(n) == /\ best[n] \in Fractions
                      /\ \A k \in 1 .. n : ~Less(best[n], Score(text, k))
           Bad == {n \in 0 .. N : ~Fine(n)}
<1>2. Bad = {}
  <2> SUFFICES ASSUME Bad # {} PROVE FALSE
    OBVIOUS
  <2>1. PICK n \in Bad : \A j \in Bad : n <= j
    <3>1. Bad \subseteq Nat
      BY <1>0
    <3> QED
      BY <3>1, LeastExists
  <2>2. CASE n = 0
    <3>1. <<0, 1>> \in Fractions
      BY DEF Fractions
    <3>2. Fine(0)
      BY <1>1, <3>1
    <3> QED
      BY <2>2, <3>2
  <2>3. CASE n # 0
    <3>1. n - 1 \in 0 .. N /\ n \in 1 .. N /\ ~(n <= n - 1)
      BY <1>0, <2>3
    <3>2. Fine(n - 1)
      BY <2>1, <3>1
    <3> DEFINE old == best[n - 1]
               new == Score(text, n)
    <3>3. old \in Fractions /\ new \in Fractions
      BY <3>1, <3>2, ScoreType
    <3>4. best[n] = IF Less(old, new) THEN new ELSE old
      BY <1>0, <1>1, <3>1 DEF ScoreStep
    <3>5. \A k \in 1 .. n : k \in 1 .. n - 1 \/ k = n
      BY <3>1
    <3>6. \A k \in 1 .. n : Score(text, k) \in Fractions
      BY <1>0, <3>1, ScoreType
    <3>7. \A k \in 1 .. n - 1 : ~Less(old, Score(text, k)) /\ k \in 1 .. n
      BY <3>1, <3>2
    <3> HIDE DEF old, new
    <3>8. CASE Less(old, new)
      <4>1. \A k \in 1 .. n - 1 : ~Less(new, Score(text, k))
        BY <3>3, <3>6, <3>7, <3>8, LessTransitive
      <4>2. ~Less(new, new)
        <5>1. PICK a \in Nat, b \in Nat \ {0} : new = <<a, b>>
          BY <3>3 DEF Fractions
        <5>2. ~(a * b < a * b)
          OBVIOUS
        <5> QED
          BY <5>1, <5>2 DEF Less
      <4>3. Fine(n)
        BY <3>3, <3>4, <3>5, <3>8, <4>1, <4>2 DEF new
      <4> QED
        BY <4>3
    <3>9. CASE ~Less(old, new)
      <4>1. Fine(n)
        BY <3>3, <3>4, <3>5, <3>7, <3>9 DEF new
      <4> QED
        BY <4>1
    <3> QED
      BY <3>8, <3>9
  <2> QED
    BY <2>2, <2>3
<1>3. Fine(N)
  BY <1>0, <1>2
<1> QED
  BY <1>1, <1>3

(* A prompt that acts is clean.                                            *)
Clean(text) ==
  /\ text.pii = {} /\ (BlockOnInjection => text.markers = {})
  /\ \A i \in DOMAIN INJECTION_INTENTS :
       LET intent == INJECTION_INTENTS[i]
       IN  Cardinality(text.tokens \cap intent) * ThresholdDen
             < ThresholdNum * Cardinality(text.tokens \cup intent)

(* What the guardrails do not reject is far from every known intent.       *)
LEMMA NoViolationIsClean ==
  ASSUME NEW text, IsInspectable(text), text.pii = {}, ~GuardrailViolation(text)
  PROVE  Clean(text)
<1> DEFINE best == semantic_injection_score(text)
           limit == <<ThresholdNum, ThresholdDen>>
<1>1. Less(best, limit) /\ (BlockOnInjection => text.markers = {})
  BY DEF GuardrailViolation, TripsHeuristics
<1>2. limit \in Fractions
  BY GuardrailsAssumption DEF Fractions
<1> SUFFICES ASSUME NEW i \in DOMAIN INJECTION_INTENTS
             PROVE  Cardinality(text.tokens \cap INJECTION_INTENTS[i]) * ThresholdDen
                      < ThresholdNum * Cardinality(text.tokens \cup INJECTION_INTENTS[i])
  BY <1>1 DEF Clean
<1> DEFINE intent == INJECTION_INTENTS[i]
<1>3. i \in 1 .. Len(INJECTION_INTENTS)
  BY GuardrailsAssumption
<1>4. best \in Fractions /\ ~Less(best, Score(text, i)) /\ Score(text, i) \in Fractions
  BY <1>3, BestIsBest, ScoreType
<1> HIDE DEF best, limit
<1>5. Less(Score(text, i), limit)
  BY <1>1, <1>2, <1>4, LessTransitive
<1>6. intent # {} /\ IsFiniteSet(intent) /\ ThresholdNum \in Nat /\ ThresholdDen \in Nat
  BY GuardrailsAssumption
<1>7. CASE text.tokens = {}
  <2>1. Score(text, i) = <<0, 1>>
    BY <1>7 DEF Score, _jaccard
  <2>2. 0 * ThresholdDen < ThresholdNum * 1
    BY <1>5, <2>1 DEF Less, limit
  <2>3. ThresholdNum \in Nat \ {0}
    BY <1>6, <2>2
  <2>4. Cardinality(intent) \in Nat \ {0}
    BY <1>6, FS_CardinalityType, FS_EmptySet
  <2>5. /\ text.tokens \cap intent = {} /\ text.tokens \cup intent = intent
        /\ Cardinality({}) = 0
    BY <1>7, FS_EmptySet
  <2>6. \A u, v \in Nat \ {0} : 0 < u * v
    BY SMT
  <2>7. 0 * ThresholdDen = 0
    BY <1>6
  <2> QED
    BY <2>3, <2>4, <2>5, <2>6, <2>7
<1>8. CASE text.tokens # {}
  <2>1. Score(text, i) = <<Cardinality(text.tokens \cap intent),
                           Cardinality(text.tokens \cup intent)>>
    BY <1>6, <1>8 DEF Score, _jaccard
  <2> QED
    BY <1>5, <2>1 DEF Less, limit
<1> QED
  BY <1>7, <1>8

(* Requests that got past the guardrails.                                  *)
CleanInv == \A r \in Requests : stage[r] \in {"handling", "returned", "raised"} => Clean(heard[r])

(* No tool runs and no record is written for a request that was not let in *)
(* or whose prompt was not clean when the language model got it, whatever  *)
(* the intents, the threshold and the prompts are.                         *)
THEOREM UncleanPromptsNeverAct == Spec => []OnlyCleanPromptsAct
<1>1. ASSUME Init PROVE CleanInv
  BY <1>1 DEF Init, CleanInv
<1>2. ASSUME Inv, CleanInv, [Next]_vars PROVE CleanInv'
  <2>0. TypeOK /\ stage \in [Requests -> Stages] /\ heard \in [Requests -> Texts]
    BY <1>2, Types DEF Inv
  <2>1. CASE \E r \in Requests : Arrives(r)
    <3>1. PICK r \in Requests : Arrives(r)
      BY <2>1
    <3>2. PICK credential, now : Submit(r, credential, now)
      BY <3>1 DEF Arrives
    <3> SUFFICES ASSUME NEW q \in Requests, stage'[q] \in {"handling", "returned", "raised"}
                 PROVE  Clean(heard[q])'
      BY DEF CleanInv
    <3>3. CASE LetIn(r)
      <4>1. PICK prompt \in Prompts :
               /\ ~GuardrailViolation(mask(prompt))
               /\ heard' = [heard EXCEPT ![r] = mask(mask(prompt))]
               /\ \E s \in {"returned", "handling"} : stage' = [stage EXCEPT ![r] = s]
        BY <3>3 DEF LetIn
      <4>2. CASE q = r
        <5>1. IsInspectable(prompt)
          BY PipelineAssumption
        <5>2. /\ IsInspectable(mask(prompt)) /\ mask(prompt).pii = {}
              /\ mask(mask(prompt)) = mask(prompt)
          BY <5>1, MaskFields
        <5>3. heard'[q] = mask(prompt)
          BY <2>0, <4>1, <4>2, <5>2
        <5>4. Clean(mask(prompt))
          BY <4>1, <5>2, NoViolationIsClean
        <5> QED
          BY <5>3, <5>4 DEF Clean
      <4>3. CASE q # r
        <5>1. heard'[q] = heard[q] /\ stage'[q] = stage[q]
          BY <2>0, <4>1, <4>3
        <5> QED
          BY <1>2, <5>1 DEF CleanInv, Clean
      <4> QED
        BY <4>2, <4>3
    <3>4. CASE ~LetIn(r)
      <4>1. Refused(r) /\ heard' = heard
        BY <2>0, <3>2, <3>4, SubmitEffect DEF Refused, Refusals
      <4>2. q # r /\ stage'[q] = stage[q]
        BY <2>0, <4>1 DEF Refused, Refusals
      <4> QED
        BY <1>2, <4>1, <4>2 DEF CleanInv, Clean
    <3> QED
      BY <3>3, <3>4
  <2>2. CASE UNCHANGED <<presented, counts, heard>> /\ \A q \in Requests : Moves(q)
    BY <1>2, <2>2 DEF CleanInv, Clean, Moves
  <2> QED
    BY <1>2, <2>1, <2>2, OnlyArrivalsPass
<1>3. ASSUME Inv, CleanInv PROVE OnlyCleanPromptsAct
  <2> SUFFICES ASSUME NEW c \in Calls, phase[c] # "pending"
               PROVE  /\ PastGateway(c[1]) /\ stage[c[1]] # "rejected"
                      /\ Clean(heard[c[1]])
    BY DEF OnlyCleanPromptsAct, Clean
  <2>1. c[1] \in Requests /\ c[2] \in 1 .. MaxScript /\ c = <<c[1], c[2]>>
    BY DEF Calls
  <2>2. phase[c] \in Allowed(stage[c[1]], Len(results[c[1]]), c[2]) /\ stage[c[1]] \in Stages
    BY <1>3, <2>1, Types DEF Inv, LoopInv
  <2>3. stage[c[1]] \in {"handling", "returned", "raised"}
    <3> SUFFICES ASSUME stage[c[1]] \in {"new"} \cup Refusals PROVE FALSE
      BY <2>2 DEF Stages
    <3>1. Len(results[c[1]]) = 0
      BY <1>3, <2>1 DEF Inv, LoopInv
    <3>2. MaxScript \in Nat
      BY PipelineAssumption
    <3>3. Allowed(stage[c[1]], 0, c[2]) = {"pending"}
      BY <2>1, <3>2 DEF Allowed, Refusals
    <3> QED
      BY <2>2, <3>1, <3>3
  <2> QED
    BY <1>3, <2>1, <2>3 DEF CleanInv, PastGateway, Authenticated
<1> QED
  BY <1>1, <1>2, <1>3, InvHolds, PTL DEF Spec

-----------------------------------------------------------------------------
(* Session tokens.  The expiry of a token, in whole seconds, admits the    *)
(* same instants as IsGood.                                                *)
LEMMA Division ==
  ASSUME NEW x \in Nat, NEW s \in Nat \ {0}
  PROVE  /\ x \div s \in Nat
         /\ (x \div s) * s <= x
         /\ x < (x \div s + 1) * s
BY SMT

GoodUntil(at, now) ==
  \E last \in 0 .. now :
    now <= last * TicksPerSecond /\ last * TicksPerSecond <= at + TtlSeconds * TicksPerSecond

(* The second written into the token is the last one the validity still    *)
(* covers, so comparing with it rounds nobody out early and lets nobody    *)
(* stay late.                                                              *)
LEMMA ExpiryIsExact ==
  ASSUME NEW at \in Nat, NEW now \in Nat
  PROVE  /\ ExpiryEpoch(at) \in Nat
         /\ now <= ExpiryEpoch(at) * TicksPerSecond <=> GoodUntil(at, now)
<1> DEFINE s == TicksPerSecond
           x == at + TtlSeconds * s
           e == ExpiryEpoch(at)
<1>1. s \in Nat \ {0} /\ x \in Nat
  BY SessionTokenAssumption
<1>2. e = x \div s
  BY DEF ExpiryEpoch
<1> HIDE DEF s, x, e
<1>3. e \in Nat /\ e * s <= x /\ x < (e + 1) * s
  BY <1>1, <1>2, Division
<1>4. \A m \in Nat : m * s \in Nat
  BY <1>1
<1>5. ASSUME NEW l \in Nat, NEW m \in Nat, l <= m PROVE l * s <= m * s
  <2>1. ~(m * s < l * s)
    BY <1>1, <1>5, ProductOrder
  <2> QED
    BY <1>4, <2>1
<1>6. ASSUME now <= e * s
      PROVE  \E last \in 0 .. now : now <= last * s /\ last * s <= x
  <2> DEFINE Late == {m \in Nat : now <= m * s}
  <2>1. PICK last \in Late : \A m \in Late : last <= m
    <3>1. Late \subseteq Nat /\ Late # {}
      BY <1>3, <1>6
    <3> QED
      BY <3>1, LeastExists
  <2>2. now <= now * s
    BY <1>1, SMT
  <2>3. last <= now /\ last <= e
    BY <1>3, <1>6, <2>1, <2>2
  <2>4. last * s <= e * s
    BY <1>3, <1>5, <2>3
  <2>5. last * s <= x
    BY <1>1, <1>3, <1>4, <2>4
  <2> QED
    BY <2>1, <2>3, <2>5
<1>7. ASSUME NEW last \in 0 .. now, now <= last * s, last * s <= x
      PROVE  now <= e * s
  <2>1. last \in Nat /\ last * s < (e + 1) * s
    BY <1>1, <1>3, <1>4, <1>7
  <2>2. last < e + 1
    BY <1>1, <1>3, <2>1, ProductOrder
  <2>3. last * s <= e * s
    BY <1>3, <1>5, <2>1, <2>2
  <2> QED
    BY <1>3, <1>4, <1>7, <2>1, <2>3
<1>8. GoodUntil(at, now) <=> \E last \in 0 .. now : now <= last * s /\ last * s <= x
  BY DEF GoodUntil, s, x
<1> QED
  BY <1>3, <1>6, <1>7, <1>8 DEF s, e

(* The first three dots of a text decide how it is split.                  *)
FirstThree(text, i, j, k) ==
  /\ {i, j, k} \subseteq Dots(text) /\ i < j /\ j < k
  /\ \A d \in Dots(text) : d \in {i, j, k} \/ k < d

(* The sizes of sets of one, two and three elements.                       *)
LEMMA SmallCardinalities ==
  ASSUME NEW i, NEW j, NEW k, i # j, i # k, j # k
  PROVE  /\ IsFiniteSet({i, j, k})
         /\ Cardinality({i}) = 1 /\ Cardinality({i, j}) = 2 /\ Cardinality({i, j, k}) = 3
<1>1. IsFiniteSet({i}) /\ Cardinality({i}) = 1
  BY FS_Singleton
<1>2. {i, j} = {i} \cup {j} /\ j \notin {i}
  OBVIOUS
<1>3. IsFiniteSet({i, j}) /\ Cardinality({i, j}) = 2
  BY <1>1, <1>2, FS_AddElement
<1>4. {i, j, k} = {i, j} \cup {k} /\ k \notin {i, j}
  OBVIOUS
<1>5. IsFiniteSet({i, j, k}) /\ Cardinality({i, j, k}) = 3
  BY <1>3, <1>4, FS_AddElement
<1> QED
  BY <1>1, <1>3, <1>5

(* split(".", 3) cuts a text at its first three dots, whatever follows the *)
(* third.                                                                  *)
LEMMA SplitAtDots ==
  ASSUME NEW text, DOMAIN text \subseteq Nat, IsFiniteSet(DOMAIN text),
         NEW i, NEW j, NEW k, FirstThree(text, i, j, k)
  PROVE  Split(text) = [session   |-> SubSeq(text, 1, i - 1),
                        agent     |-> SubSeq(text, i + 1, j - 1),
                        expiry    |-> SubSeq(text, j + 1, k - 1),
                        signature |-> SubSeq(text, k + 1, Len(text))]
<1> DEFINE D == Dots(text)
           Below(d) == {e \in D : e <= d}
<1>1. D \subseteq Nat /\ IsFiniteSet(D)
  BY FS_Subset DEF Dots
<1>2. i \in D /\ j \in D /\ k \in D /\ i < j /\ j < k
      /\ \A d \in D : d \in {i, j, k} \/ k < d
  BY DEF FirstThree
<1> HIDE DEF D
<1>3. i \in Nat /\ j \in Nat /\ k \in Nat /\ i # j /\ i # k /\ j # k
  BY <1>1, <1>2
<1>4. \A d \in D : /\ d <= i <=> d = i
                   /\ d <= j <=> d \in {i, j}
                   /\ d <= k <=> d \in {i, j, k}
  <2> TAKE d \in D
  <2>1. d \in Nat /\ (d = i \/ d = j \/ d = k \/ k < d)
    BY <1>1, <1>2
  <2> QED
    BY <1>2, <1>3, <2>1
<1>5. Below(i) = {i} /\ Below(j) = {i, j} /\ Below(k) = {i, j, k}
  BY <1>2, <1>4, Zenon
<1>6. /\ IsFiniteSet({i, j, k})
      /\ Cardinality({i}) = 1 /\ Cardinality({i, j}) = 2 /\ Cardinality({i, j, k}) = 3
  BY <1>3, SmallCardinalities, ZenonT(30)
<1>7. /\ Cardinality(Below(i)) = 1 /\ Cardinality(Below(j)) = 2
      /\ Cardinality(Below(k)) = 3
  BY <1>5, <1>6, Zenon
<1>8. ASSUME NEW d \in D, d \notin {i, j, k}
      PROVE  Cardinality(Below(d)) \notin {1, 2, 3}
  <2>1. k < d /\ d \in Nat
    BY <1>1, <1>2, <1>8
  <2>2. IsFiniteSet(Below(d)) /\ {i, j, k} \cup {d} \subseteq Below(d)
    BY <1>1, <1>2, <1>3, <2>1, FS_Subset
  <2>3. Cardinality({i, j, k} \cup {d}) = 4
    <3> DEFINE T == {i, j, k}
    <3>1. IsFiniteSet(T) /\ Cardinality(T) = 3 /\ d \notin T
      BY <1>6, <1>8
    <3> HIDE DEF T
    <3>2. Cardinality(T \cup {d}) = Cardinality(T) + 1
      BY <3>1, FS_AddElement, Zenon
    <3>3. Cardinality(T \cup {d}) = 4
      BY <3>1, <3>2
    <3> QED
      BY <3>3 DEF T
  <2>4. Cardinality(Below(d)) \in Nat /\ 4 <= Cardinality(Below(d))
    BY <2>2, <2>3, FS_Subset, FS_CardinalityType
  <2> QED
    BY <2>4
<1> HIDE DEF Below
<1>9. \A d \in D : /\ Cardinality(Below(d)) = 1 <=> d = i
                   /\ Cardinality(Below(d)) = 2 <=> d = j
                   /\ Cardinality(Below(d)) = 3 <=> d = k
  BY <1>3, <1>7, <1>8
<1>10. /\ (CHOOSE d \in D : Cardinality(Below(d)) = 1) = i
       /\ (CHOOSE d \in D : Cardinality(Below(d)) = 2) = j
       /\ (CHOOSE d \in D : Cardinality(Below(d)) = 3) = k
  BY <1>2, <1>9
<1> QED
  BY <1>10 DEF Split, D, Below

(* What a token is made of, and where its own dots are.                    *)
FirstDot(x)  == Len(x.session) + 1
SecondDot(x) == Len(x.session) + Len(x.agent) + 2

(* A token holds the session, a dot, the agent, a dot, the expiry, a dot   *)
(* and the signature, in this order and nothing else.                      *)
LEMMA TokenShape ==
  ASSUME NEW x, IsContext(x), NEW at
  PROVE  /\ Len(x.session) \in Nat /\ DOMAIN x.session = 1 .. Len(x.session)
         /\ Len(x.agent) \in Nat /\ DOMAIN x.agent = 1 .. Len(x.agent)
         /\ Len(issue(x, at)) = SecondDot(x) + 3
         /\ DOMAIN issue(x, at) = 1 .. SecondDot(x) + 3
         /\ \A i \in 1 .. Len(x.session) : issue(x, at)[i] = x.session[i]
         /\ issue(x, at)[FirstDot(x)] = Dot
         /\ \A i \in 1 .. Len(x.agent) : issue(x, at)[FirstDot(x) + i] = x.agent[i]
         /\ issue(x, at)[SecondDot(x)] = Dot
         /\ issue(x, at)[SecondDot(x) + 1] = Numeral(ExpiryEpoch(at))
         /\ issue(x, at)[SecondDot(x) + 2] = Dot
         /\ issue(x, at)[SecondDot(x) + 3] = _sign(x.session, x.agent, ExpiryEpoch(at))
<1> DEFINE s == x.session
           a == x.agent
           num == Numeral(ExpiryEpoch(at))
           sig == _sign(x.session, x.agent, ExpiryEpoch(at))
           tail == <<Dot, num, Dot, sig>>
           S == {s[i] : i \in DOMAIN s} \cup {a[i] : i \in DOMAIN a} \cup {Dot, num, sig}
           one == <<Dot>>
           u == s \o one
           v == u \o a
           t == v \o tail
<1>1. issue(x, at) = t
  BY DEF issue
<1>2. s \in Seq(S) /\ a \in Seq(S)
  <2>1. s \in Seq({s[i] : i \in DOMAIN s}) /\ a \in Seq({a[i] : i \in DOMAIN a})
    BY DEF IsContext, IsText
  <2>2. {s[i] : i \in DOMAIN s} \subseteq S /\ {a[i] : i \in DOMAIN a} \subseteq S
    OBVIOUS
  <2> HIDE DEF s, a, S
  <2> QED
    BY <2>1, <2>2, SeqMonotonic
<1>3. Dot \in S /\ num \in S /\ sig \in S
  OBVIOUS
<1> HIDE DEF s, a, S, num, sig
<1>4. one \in Seq(S) /\ Len(one) = 1 /\ one[1] = Dot
  BY <1>3
<1>5. /\ tail \in Seq(S) /\ Len(tail) = 4 /\ tail[1] = Dot /\ tail[2] = num /\ tail[3] = Dot
      /\ tail[4] = sig
  BY <1>3
<1> HIDE DEF one, tail
<1>6. /\ Len(s) \in Nat /\ DOMAIN s = 1 .. Len(s) /\ Len(a) \in Nat /\ DOMAIN a = 1 .. Len(a)
  BY <1>2, LenProperties
<1> DEFINE m == Len(s)
           n == Len(a)
<1>7. /\ u \in Seq(S) /\ Len(u) = m + 1
      /\ \A i \in 1 .. m + 1 : u[i] = IF i <= m THEN s[i] ELSE one[i - m]
  <2>1. /\ s \o one \in Seq(S) /\ Len(s \o one) = Len(s) + Len(one)
        /\ \A i \in 1 .. Len(s) + Len(one) :
             (s \o one)[i] = IF i <= Len(s) THEN s[i] ELSE one[i - Len(s)]
    BY <1>2, <1>4, ConcatProperties, Zenon
  <2> QED
    BY <1>4, <2>1, Zenon
<1> HIDE DEF u
<1>8. /\ v \in Seq(S) /\ Len(v) = m + 1 + n
      /\ \A i \in 1 .. m + 1 + n : v[i] = IF i <= m + 1 THEN u[i] ELSE a[i - (m + 1)]
  <2>1. /\ u \o a \in Seq(S) /\ Len(u \o a) = Len(u) + Len(a)
        /\ \A i \in 1 .. Len(u) + Len(a) :
             (u \o a)[i] = IF i <= Len(u) THEN u[i] ELSE a[i - Len(u)]
    <3>1. u \in Seq(S) /\ a \in Seq(S)
      BY <1>2, <1>7
    <3> QED
      BY <3>1, ConcatProperties, Zenon
  <2> QED
    BY <1>7, <2>1, Zenon
<1> HIDE DEF v
<1>9. /\ t \in Seq(S) /\ Len(t) = m + 1 + n + 4
      /\ \A i \in 1 .. m + 1 + n + 4 :
           t[i] = IF i <= m + 1 + n THEN v[i] ELSE tail[i - (m + 1 + n)]
  <2>1. /\ v \o tail \in Seq(S) /\ Len(v \o tail) = Len(v) + Len(tail)
        /\ \A i \in 1 .. Len(v) + Len(tail) :
             (v \o tail)[i] = IF i <= Len(v) THEN v[i] ELSE tail[i - Len(v)]
    BY <1>5, <1>8, ConcatProperties, Zenon
  <2> QED
    BY <1>5, <1>8, <2>1, Zenon
<1> HIDE DEF t, m, n
<1>10. m \in Nat /\ n \in Nat
  BY <1>6 DEF m, n
<1>11. DOMAIN t = 1 .. m + n + 5 /\ Len(t) = m + n + 5
  BY <1>9, <1>10, LenProperties
<1>12. \A i \in 1 .. m : t[i] = s[i]
  BY <1>7, <1>8, <1>9, <1>10
<1>13. t[m + 1] = Dot
  BY <1>4, <1>7, <1>8, <1>9, <1>10
<1>14. \A i \in 1 .. n : t[m + 1 + i] = a[i]
  <2> TAKE i \in 1 .. n
  <2>1. m + 1 + i \in 1 .. m + 1 + n /\ ~(m + 1 + i <= m + 1) /\ m + 1 + i - (m + 1) = i
    BY <1>10
  <2> QED
    BY <1>8, <1>9, <1>10, <2>1
<1>15. t[m + n + 2] = Dot /\ t[m + n + 3] = num /\ t[m + n + 4] = Dot /\ t[m + n + 5] = sig
  <2>1. \A i \in 1 .. 4 : t[m + n + 1 + i] = tail[i]
    <3> TAKE i \in 1 .. 4
    <3>1. /\ m + n + 1 + i \in 1 .. m + 1 + n + 4 /\ ~(m + n + 1 + i <= m + 1 + n)
          /\ (m + n + 1 + i) - (m + 1 + n) = i
      BY <1>10
    <3> QED
      BY <1>9, <3>1, Zenon
  <2>2. /\ m + n + 1 + 1 = m + n + 2 /\ m + n + 1 + 2 = m + n + 3
        /\ m + n + 1 + 3 = m + n + 4 /\ m + n + 1 + 4 = m + n + 5
    BY <1>10
  <2> QED
    BY <1>5, <2>1, <2>2
<1>16. /\ FirstDot(x) = m + 1 /\ SecondDot(x) = m + n + 2 /\ m + n + 2 + 1 = m + n + 3
       /\ m + n + 2 + 2 = m + n + 4 /\ m + n + 2 + 3 = m + n + 5
  BY <1>10 DEF FirstDot, SecondDot, m, n, s, a
<1> QED
  BY <1>1, <1>6, <1>11, <1>12, <1>13, <1>14, <1>15, <1>16 DEF s, a, m, n, num, sig

(* Neither the expiry nor the signature holds a dot.                       *)
LEMMA SymbolsDiffer ==
  ASSUME NEW session, NEW agent, NEW e
  PROVE  Numeral(e) # Dot /\ _sign(session, agent, e) # Dot
<1>1. \A y, z : <<y, z>> # <<"dot">>
  BY SMT
<1> QED
  BY <1>1 DEF Numeral, _sign, Dot

(* A context is free of dots when each of its two names is.                *)
LEMMA DotFreeParts ==
  ASSUME NEW x, IsContext(x)
  PROVE  DotFree(x) <=> /\ \A i \in DOMAIN x.session : x.session[i] # Dot
                        /\ \A i \in DOMAIN x.agent : x.agent[i] # Dot
<1> DEFINE s == x.session
           a == x.agent
           S == {s[i] : i \in DOMAIN s} \cup {a[i] : i \in DOMAIN a}
           m == Len(s)
           n == Len(a)
<1>1. s \in Seq(S) /\ a \in Seq(S)
  <2>1. s \in Seq({s[i] : i \in DOMAIN s}) /\ a \in Seq({a[i] : i \in DOMAIN a})
    BY DEF IsContext, IsText
  <2>2. {s[i] : i \in DOMAIN s} \subseteq S /\ {a[i] : i \in DOMAIN a} \subseteq S
    OBVIOUS
  <2> HIDE DEF s, a, S
  <2> QED
    BY <2>1, <2>2, SeqMonotonic
<1>2. DotFree(x) <=> \A i \in DOMAIN (s \o a) : (s \o a)[i] # Dot
  BY DEF DotFree
<1> HIDE DEF s, a, S
<1>3. /\ s \o a \in Seq(S) /\ Len(s \o a) = Len(s) + Len(a)
      /\ \A i \in 1 .. Len(s) + Len(a) :
           (s \o a)[i] = IF i <= Len(s) THEN s[i] ELSE a[i - Len(s)]
  BY <1>1, ConcatProperties, Zenon
<1> DEFINE t == s \o a
<1> HIDE DEF t
<1>4. /\ m \in Nat /\ n \in Nat /\ DOMAIN s = 1 .. m /\ DOMAIN a = 1 .. n
      /\ DOMAIN t = 1 .. m + n
  <2>1. t \in Seq(S) /\ Len(t) = m + n
    BY <1>3 DEF t
  <2> QED
    BY <1>1, <2>1, LenProperties
<1>5. \A i \in 1 .. m + n : t[i] = IF i <= m THEN s[i] ELSE a[i - m]
  BY <1>3 DEF t
<1> HIDE DEF m, n
<1>6. \A i \in 1 .. m : i \in 1 .. m + n /\ t[i] = s[i]
  BY <1>4, <1>5
<1>7. \A i \in 1 .. n : m + i \in 1 .. m + n /\ t[m + i] = a[i]
  <2> TAKE i \in 1 .. n
  <2>1. m + i \in 1 .. m + n /\ ~(m + i <= m) /\ (m + i) - m = i
    BY <1>4
  <2> QED
    BY <1>5, <2>1, Zenon
<1>8. \A i \in 1 .. m + n : i \in 1 .. m \/ \E j \in 1 .. n : i = m + j
  <2> TAKE i \in 1 .. m + n
  <2>1. CASE i <= m
    BY <1>4, <2>1
  <2>2. CASE i > m
    <3>1. i - m \in 1 .. n /\ i = m + (i - m)
      BY <1>4, <2>2
    <3> QED
      BY <3>1
  <2> QED
    BY <1>4, <2>1, <2>2
<1>9. (\A i \in DOMAIN t : t[i] # Dot) <=> /\ \A i \in DOMAIN s : s[i] # Dot
                                          /\ \A i \in DOMAIN a : a[i] # Dot
  <2>1. ASSUME \A i \in 1 .. m + n : t[i] # Dot
        PROVE  (\A i \in 1 .. m : s[i] # Dot) /\ \A i \in 1 .. n : a[i] # Dot
    BY <1>6, <1>7, <2>1, Zenon
  <2>2. ASSUME \A i \in 1 .. m : s[i] # Dot, \A i \in 1 .. n : a[i] # Dot,
               NEW i \in 1 .. m + n
        PROVE  t[i] # Dot
    <3>1. CASE i \in 1 .. m
      BY <1>6, <2>2, <3>1, Zenon
    <3>2. CASE \E j \in 1 .. n : i = m + j
      BY <1>7, <2>2, <3>2, Zenon
    <3> QED
      BY <1>8, <3>1, <3>2
  <2> QED
    BY <1>4, <2>1, <2>2
<1> QED
  BY <1>2, <1>9 DEF s, a, t

(* Where the dots of a token can be.                                       *)
LEMMA TokenDots ==
  ASSUME NEW x, IsContext(x), NEW at
  PROVE  /\ {FirstDot(x), SecondDot(x), SecondDot(x) + 2} \subseteq Dots(issue(x, at))
         /\ \A d \in Dots(issue(x, at)) : d \in Nat /\ d <= SecondDot(x) + 2
         /\ (~\E d \in Dots(issue(x, at)) : d \notin {FirstDot(x), SecondDot(x), SecondDot(x) + 2})
              <=> DotFree(x)
<1> DEFINE p == FirstDot(x)
           q == SecondDot(x)
           m == Len(x.session)
           n == Len(x.agent)
           t == issue(x, at)
<1>1. /\ m \in Nat /\ n \in Nat /\ p = m + 1 /\ q = m + n + 2
      /\ DOMAIN x.session = 1 .. m /\ DOMAIN x.agent = 1 .. n
      /\ DOMAIN t = 1 .. q + 3
      /\ \A i \in 1 .. m : t[i] = x.session[i]
      /\ \A i \in 1 .. n : t[p + i] = x.agent[i]
      /\ t[p] = Dot /\ t[q] = Dot /\ t[q + 2] = Dot
  BY TokenShape, ZenonT(30) DEF FirstDot, SecondDot
<1>2. t[q + 1] # Dot /\ t[q + 3] # Dot
  BY TokenShape, SymbolsDiffer
<1> HIDE DEF p, q, m, n, t
<1>3. \A d : d \in Dots(t) <=> d \in 1 .. q + 3 /\ t[d] = Dot
  BY <1>1 DEF Dots
<1>4. {p, q, q + 2} \subseteq Dots(t)
  <2>1. p \in 1 .. q + 3 /\ q \in 1 .. q + 3 /\ q + 2 \in 1 .. q + 3
    BY <1>1
  <2> QED
    BY <1>1, <1>3, <2>1
<1>5. \A d \in 1 .. q + 3 : d \in 1 .. m \/ (\E j \in 1 .. n : d = p + j)
                            \/ d \in {p, q, q + 1, q + 2, q + 3}
  <2> TAKE d \in 1 .. q + 3
  <2>1. CASE d \in m + 2 .. m + n + 1
    <3>1. d - p \in 1 .. n /\ d = p + (d - p)
      BY <1>1, <2>1
    <3> QED
      BY <3>1
  <2>2. CASE d \notin m + 2 .. m + n + 1
    BY <1>1, <2>2
  <2> QED
    BY <2>1, <2>2
<1>6. \A d \in Dots(t) : d \in Nat /\ d <= q + 2
  <2> TAKE d \in Dots(t)
  <2>1. d \in 1 .. q + 3 /\ d # q + 3
    BY <1>2, <1>3
  <2> QED
    BY <1>1, <2>1
<1>7. ASSUME NEW d \in Dots(t), d \notin {p, q, q + 2} PROVE ~DotFree(x)
  <2>1. d \in 1 .. m \/ (\E j \in 1 .. n : d = p + j)
    BY <1>2, <1>3, <1>5, <1>7
  <2> QED
    <3>1. ASSUME NEW i \in 1 .. m, d = i PROVE ~DotFree(x)
      <4>1. x.session[i] = Dot
        BY <1>1, <1>3, <3>1
      <4> QED
        BY <1>1, <4>1, DotFreeParts
    <3>2. ASSUME NEW j \in 1 .. n, d = p + j PROVE ~DotFree(x)
      <4>1. x.agent[j] = Dot
        BY <1>1, <1>3, <3>2
      <4> QED
        BY <1>1, <4>1, DotFreeParts
    <3> QED
      BY <2>1, <3>1, <3>2
<1>8. ASSUME ~DotFree(x) PROVE \E d \in Dots(t) : d \notin {p, q, q + 2}
  <2>1. CASE \E i \in 1 .. m : x.session[i] = Dot
    <3>1. PICK i \in 1 .. m : x.session[i] = Dot
      BY <2>1
    <3>2. i \in 1 .. q + 3 /\ i \notin {p, q, q + 2}
      BY <1>1
    <3> QED
      BY <1>1, <1>3, <3>1, <3>2
  <2>2. CASE \E i \in 1 .. n : x.agent[i] = Dot
    <3>1. PICK i \in 1 .. n : x.agent[i] = Dot
      BY <2>2
    <3>2. p + i \in 1 .. q + 3 /\ p + i \notin {p, q, q + 2}
      BY <1>1, SMTT(30)
    <3> QED
      BY <1>1, <1>3, <3>1, <3>2
  <2> QED
    BY <1>1, <1>8, <2>1, <2>2, DotFreeParts
<1> QED
  BY <1>4, <1>6, <1>7, <1>8 DEF p, q, t

(* A token of a context without dots comes apart as it was put together.   *)
LEMMA PlainTokenSplits ==
  ASSUME NEW x, IsContext(x), NEW at, DotFree(x)
  PROVE  LET e == ExpiryEpoch(at)
         IN  /\ Cardinality(Dots(issue(x, at))) = 3
             /\ Split(issue(x, at)) = [session   |-> x.session,
                                       agent     |-> x.agent,
                                       expiry    |-> <<Numeral(e)>>,
                                       signature |-> <<_sign(x.session, x.agent, e)>>]
<1> DEFINE p == FirstDot(x)
           q == SecondDot(x)
           m == Len(x.session)
           n == Len(x.agent)
           t == issue(x, at)
           num == Numeral(ExpiryEpoch(at))
           sig == _sign(x.session, x.agent, ExpiryEpoch(at))
           S == {t[i] : i \in DOMAIN t}
<1>1. /\ m \in Nat /\ n \in Nat /\ p = m + 1 /\ q = m + n + 2
      /\ Len(t) = q + 3 /\ DOMAIN t = 1 .. q + 3
      /\ \A i \in 1 .. m : t[i] = x.session[i]
      /\ \A i \in 1 .. n : t[p + i] = x.agent[i]
      /\ t[q + 1] = num /\ t[q + 3] = sig
  BY TokenShape, ZenonT(30) DEF FirstDot, SecondDot
<1>2. Dots(t) = {p, q, q + 2}
  BY TokenDots
<1>3. IsText(x.session) /\ IsText(x.agent)
  BY DEF IsContext
<1> HIDE DEF p, q, m, n, t, num, sig
<1>4. p < q /\ q < q + 2 /\ p # q /\ p # q + 2 /\ q # q + 2 /\ q \in Nat
  BY <1>1
<1>5. FirstThree(t, p, q, q + 2)
  BY <1>2, <1>4 DEF FirstThree
<1>6. Split(t) = [session   |-> SubSeq(t, 1, p - 1),
                  agent     |-> SubSeq(t, p + 1, q - 1),
                  expiry    |-> SubSeq(t, q + 1, (q + 2) - 1),
                  signature |-> SubSeq(t, q + 2 + 1, Len(t))]
  <2>1. DOMAIN t \subseteq Nat /\ IsFiniteSet(DOMAIN t)
    <3>1. q + 3 \in Int /\ 1 \in Int
      BY <1>4
    <3> QED
      BY <1>1, <1>4, <3>1, FS_Interval
  <2> QED
    BY <1>5, <2>1, SplitAtDots
<1>7. /\ p - 1 = m /\ q - 1 = p + n /\ (q + 2) - 1 = q + 1 /\ q + 2 + 1 = q + 3
  BY <1>1
<1>8. \A i \in 1 .. q + 3 : t[i] \in S
  BY <1>1
<1> HIDE DEF S
<1>9. ASSUME NEW b \in Nat, NEW z, IsText(z), b + Len(z) <= q + 3,
             \A i \in 1 .. Len(z) : t[b + i] = z[i]
      PROVE  SubSeq(t, b + 1, b + Len(z)) = z
  <2> DEFINE k == Len(z)
             u == SubSeq(t, b + 1, b + k)
             Z == S \cup {z[i] : i \in DOMAIN z}
  <2>1. z \in Seq({z[i] : i \in DOMAIN z})
    BY <1>9 DEF IsText
  <2>2. z \in Seq(Z) /\ k \in Nat
    <3>1. {z[i] : i \in DOMAIN z} \subseteq Z
      OBVIOUS
    <3> HIDE DEF Z
    <3> QED
      BY <2>1, <3>1, SeqMonotonic
  <2>3. S \subseteq Z
    OBVIOUS
  <2> HIDE DEF Z, k
  <2>4. b + k <= q + 3 /\ \A i \in 1 .. k : t[b + i] = z[i]
    BY <1>9 DEF k
  <2>5. b + 1 \in Int /\ b + k \in Int /\ \A i \in b + 1 .. b + k : t[i] \in Z
    <3>1. \A i \in b + 1 .. b + k : i \in 1 .. q + 3
      BY <1>4, <2>2, <2>4
    <3> QED
      BY <1>8, <2>2, <2>3, <3>1
  <2>6. /\ u \in Seq(Z)
        /\ Len(u) = IF b + 1 <= b + k THEN (b + k) - (b + 1) + 1 ELSE 0
        /\ \A i \in 1 .. (b + k) - (b + 1) + 1 : u[i] = t[b + 1 + i - 1]
    BY <2>5, SubSeqProperties
  <2> HIDE DEF u
  <2>7. Len(u) = k
    BY <2>2, <2>6
  <2>8. \A i \in 1 .. k : u[i] = z[i]
    <3> TAKE i \in 1 .. k
    <3>1. i \in 1 .. (b + k) - (b + 1) + 1 /\ b + 1 + i - 1 = b + i
      BY <2>2
    <3>2. u[i] = t[b + 1 + i - 1] /\ t[b + i] = z[i]
      BY <2>4, <2>6, <3>1
    <3> QED
      BY <3>1, <3>2
  <2>9. u = z
    <3>1. Len(u) = Len(z)
      BY <2>7 DEF k
    <3>2. \A i \in 1 .. Len(u) : u[i] = z[i]
      BY <2>7, <2>8
    <3> QED
      BY <2>2, <2>6, <3>1, <3>2, SeqEqual
  <2> QED
    BY <2>9 DEF u, k
<1>10. SubSeq(t, 1, p - 1) = x.session
  <2>1. SubSeq(t, 0 + 1, 0 + m) = x.session
    <3>1. 0 \in Nat /\ 0 + m <= q + 3 /\ \A i \in 1 .. m : 0 + i = i
      BY <1>1
    <3>2. \A i \in 1 .. m : t[0 + i] = x.session[i]
      BY <1>1, <3>1
    <3> QED
      BY <1>3, <1>9, <3>1, <3>2 DEF m
  <2>2. 0 + 1 = 1 /\ 0 + m = p - 1
    BY <1>1
  <2> QED
    BY <2>1, <2>2
<1>11. SubSeq(t, p + 1, q - 1) = x.agent
  <2>1. p \in Nat /\ p + n <= q + 3
    BY <1>1
  <2>2. SubSeq(t, p + 1, p + n) = x.agent
    BY <1>1, <1>3, <1>9, <2>1 DEF n
  <2> QED
    BY <1>7, <2>2
<1>12. \A y : IsText(<<y>>) /\ Len(<<y>>) = 1 /\ <<y>>[1] = y
  <2> SUFFICES ASSUME NEW y PROVE IsText(<<y>>)
    OBVIOUS
  <2>1. {<<y>>[i] : i \in DOMAIN <<y>>} = {y}
    OBVIOUS
  <2>2. <<y>> \in Seq({y})
    OBVIOUS
  <2> QED
    BY <2>1, <2>2 DEF IsText
<1>13. ASSUME NEW b \in Nat, b + 1 <= q + 3 PROVE SubSeq(t, b + 1, b + 1) = <<t[b + 1]>>
  <2> DEFINE z == <<t[b + 1]>>
  <2>1. IsText(z) /\ Len(z) = 1 /\ z[1] = t[b + 1]
    BY <1>12
  <2> HIDE DEF z
  <2>2. \A i \in 1 .. Len(z) : t[b + i] = z[i]
    BY <2>1
  <2>3. b + Len(z) = b + 1
    BY <2>1
  <2> QED
    BY <1>9, <1>13, <2>1, <2>2, <2>3 DEF z
<1>14. SubSeq(t, q + 1, (q + 2) - 1) = <<num>>
  <2>1. q + 1 <= q + 3
    BY <1>4
  <2> QED
    BY <1>1, <1>4, <1>7, <1>13, <2>1
<1>15. SubSeq(t, q + 2 + 1, Len(t)) = <<sig>>
  <2>1. q + 2 \in Nat /\ q + 2 + 1 <= q + 3 /\ q + 2 + 1 = q + 3
    BY <1>4
  <2>2. SubSeq(t, q + 2 + 1, q + 2 + 1) = <<t[q + 2 + 1]>>
    BY <1>13, <2>1
  <2> QED
    BY <1>1, <2>1, <2>2
<1>16. Cardinality(Dots(t)) = 3
  <2>1. Cardinality({p, q, q + 2}) = 3
    BY <1>4, SmallCardinalities, ZenonT(30)
  <2> QED
    BY <1>2, <2>1, Zenon
<1> QED
  BY <1>6, <1>10, <1>11, <1>14, <1>15, <1>16 DEF t, num, sig

(* One of a context with a dot in it has too much in its last field.       *)
LEMMA DottedTokenFails ==
  ASSUME NEW x, IsContext(x), NEW at, ~DotFree(x), NEW context, NEW now
  PROVE  ~verify(issue(x, at), context, now)
<1> DEFINE p == FirstDot(x)
           q == SecondDot(x)
           t == issue(x, at)
           D == Dots(t)
           S == {t[i] : i \in DOMAIN t}
<1>1. p \in Nat /\ q \in Nat /\ p < q /\ Len(t) = q + 3 /\ DOMAIN t = 1 .. q + 3
  <2>1. \A m, n \in Nat : m + 1 \in Nat /\ m + n + 2 \in Nat /\ m + 1 < m + n + 2
    OBVIOUS
  <2>2. p \in Nat /\ q \in Nat /\ p < q
    BY <2>1, TokenShape, Zenon DEF FirstDot, SecondDot
  <2> QED
    BY <2>2, TokenShape
<1>2. p \in D /\ q \in D /\ q + 2 \in D /\ \A d \in D : d \in Nat /\ d <= q + 2
  BY TokenDots
<1>3. PICK d \in D : d \notin {p, q, q + 2}
  BY TokenDots
<1>4. verify(t, context, now) =>
        \E signature : Split(t).signature = <<signature>>
  BY DEF verify
<1>5. \A i \in DOMAIN t : t[i] \in S
  OBVIOUS
<1> HIDE DEF p, q, t, D, S
<1>6. DOMAIN t \subseteq Nat /\ IsFiniteSet(DOMAIN t)
  <2>1. q + 3 \in Int /\ 1 \in Int
    BY <1>1
  <2> QED
    BY <1>1, <2>1, FS_Interval
<1>7. D \subseteq Nat /\ d \in D /\ d # p /\ d # q /\ d # q + 2 /\ p # q
  BY <1>1, <1>2, <1>3
<1>8. PICK i \in D : \A e \in D : i <= e
  BY <1>7, LeastExists
<1>9. PICK j \in D \ {i} : \A e \in D \ {i} : j <= e
  <2>1. D \ {i} # {} /\ D \ {i} \subseteq Nat
    BY <1>2, <1>7
  <2> QED
    BY <2>1, LeastExists
<1>10. PICK k \in D \ {i, j} : \A e \in D \ {i, j} : k <= e
  <2>1. D \ {i, j} # {} /\ D \ {i, j} \subseteq Nat
    BY <1>2, <1>7
  <2> QED
    BY <2>1, LeastExists
<1>11. i \in Nat /\ j \in Nat /\ k \in Nat /\ i < j /\ j < k
  <2>1. i \in Nat /\ j \in Nat /\ k \in Nat /\ i # j /\ i # k /\ j # k
    BY <1>7, <1>8, <1>9, <1>10
  <2>2. i <= j /\ j <= k
    BY <1>8, <1>9, <1>10
  <2> QED
    BY <2>1, <2>2
<1>12. \A e \in D : e \in {i, j, k} \/ k < e
  <2> TAKE e \in D
  <2>1. CASE e \in {i, j}
    BY <2>1
  <2>2. CASE e \notin {i, j}
    <3>1. k <= e /\ e \in Nat
      BY <1>7, <1>10, <2>2
    <3> QED
      BY <1>11, <3>1
  <2> QED
    BY <2>1, <2>2
<1>13. k < q + 2
  <2>1. k <= q + 2
    BY <1>2, <1>10
  <2>2. k # q + 2
    <3> SUFFICES ASSUME k = q + 2 PROVE FALSE
      OBVIOUS
    <3>1. \A e \in D : e # k => e \in {i, j}
      <4> TAKE e \in D
      <4>1. e <= k /\ e \in Nat
        BY <1>2
      <4>2. ~(k < e)
        BY <1>11, <4>1
      <4> QED
        BY <1>12, <4>2
    <3>2. d \in {i, j} /\ p \in {i, j} /\ q \in {i, j}
      <4>1. q # q + 2 /\ p # q + 2
        BY <1>1
      <4> QED
        BY <1>2, <1>7, <3>1, <4>1
    <3> QED
      BY <1>7, <3>2
  <2> QED
    BY <1>1, <1>11, <2>1, <2>2
<1>14. Split(t).signature = SubSeq(t, k + 1, q + 3)
  <2>1. FirstThree(t, i, j, k)
    BY <1>8, <1>9, <1>10, <1>11, <1>12 DEF FirstThree, D
  <2> DEFINE f == [session   |-> SubSeq(t, 1, i - 1),
                   agent     |-> SubSeq(t, i + 1, j - 1),
                   expiry    |-> SubSeq(t, j + 1, k - 1),
                   signature |-> SubSeq(t, k + 1, Len(t))]
  <2>2. Split(t) = f
    BY <1>6, <2>1, SplitAtDots
  <2>3. f.signature = SubSeq(t, k + 1, Len(t))
    OBVIOUS
  <2> HIDE DEF f
  <2> QED
    BY <1>1, <2>2, <2>3, Zenon
<1>15. Len(SubSeq(t, k + 1, q + 3)) # 1
  <2>1. k + 1 \in Int /\ q + 3 \in Int /\ \A e \in k + 1 .. q + 3 : t[e] \in S
    <3>1. \A e \in k + 1 .. q + 3 : e \in 1 .. q + 3
      BY <1>1, <1>11
    <3> QED
      BY <1>1, <1>5, <1>11, <3>1
  <2>2. Len(SubSeq(t, k + 1, q + 3)) =
          IF k + 1 <= q + 3 THEN (q + 3) - (k + 1) + 1 ELSE 0
    BY <2>1, SubSeqProperties
  <2> QED
    BY <1>1, <1>11, <1>13, <2>2
<1>16. \A signature : Len(<<signature>>) = 1
  OBVIOUS
<1> QED
  BY <1>4, <1>14, <1>15, <1>16 DEF t

(* What verify makes of an issued token.                                   *)
LEMMA TokenVerdict ==
  ASSUME NEW owner, IsContext(owner), NEW context, IsContext(context),
         NEW at \in Nat, NEW now \in Nat
  PROVE  verify(issue(owner, at), context, now) <=>
           owner = context /\ GoodUntil(at, now) /\ DotFree(context)
<1> DEFINE t == issue(owner, at)
           e == ExpiryEpoch(at)
<1>1. owner = context <=> owner.session = context.session /\ owner.agent = context.agent
  BY DEF IsContext
<1>2. e \in Nat /\ (now <= e * TicksPerSecond <=> GoodUntil(at, now))
  BY ExpiryIsExact
<1>3. CASE ~DotFree(owner)
  BY <1>3, DottedTokenFails
<1>4. CASE DotFree(owner)
  <2> DEFINE f == [session   |-> owner.session,
                   agent     |-> owner.agent,
                   expiry    |-> <<Numeral(e)>>,
                   signature |-> <<_sign(owner.session, owner.agent, e)>>]
  <2>1. Cardinality(Dots(t)) = 3 /\ Split(t) = f
    BY <1>4, PlainTokenSplits
  <2>2. IsNumeral(f.expiry) /\ f.expiry[1][2] = e
    BY DEF IsNumeral, Numeral
  <2>3. /\ f.session = owner.session /\ f.agent = owner.agent
        /\ f.signature = <<_sign(owner.session, owner.agent, e)>>
    OBVIOUS
  <2> HIDE DEF t, e, f
  <2>4. verify(t, context, now) <=>
          /\ owner.session = context.session /\ owner.agent = context.agent
          /\ now <= e * TicksPerSecond
    BY <2>1, <2>2, <2>3 DEF verify
  <2>5. owner = context => DotFree(context)
    BY <1>4
  <2> QED
    BY <1>1, <1>2, <2>4, <2>5 DEF t, e
<1> QED
  BY <1>3, <1>4

(* A caller that presents no token is not verified.                        *)
LEMMA NoTokenFails ==
  ASSUME NEW context, NEW now
  PROVE  ~verify(<< >>, context, now)
<1>1. Dots(<< >>) = {}
  BY DEF Dots
<1>2. Cardinality(Dots(<< >>)) = 0
  BY <1>1, FS_EmptySet
<1> QED
  BY <1>2 DEF verify

(* A token gets exactly its own context in, and exactly until the last     *)
(* full second of its time-to-live; a dot in the session or agent id keeps *)
(* its owner out as well: for any ids, times and tick lengths.             *)
THEOREM TokensAreExact == Spec => []TokensAdmitTheirOwners
<1>1. ASSUME Init PROVE TokensAdmitTheirOwners
  BY <1>1 DEF Init, TokensAdmitTheirOwners
<1>2. ASSUME Inv, TokensAdmitTheirOwners, [Next]_vars PROVE TokensAdmitTheirOwners'
  <2>0. TypeOK /\ stage \in [Requests -> Stages]
        /\ presented \in [Requests -> {"nothing", "bad", "good"}]
    BY <1>2, Types DEF Inv, TypeOK
  <2> SUFFICES ASSUME NEW r \in Requests, stage'[r] # "new"
               PROVE  Authenticated(r)' <=> presented'[r] = "good" /\ DotFree(ContextOf[r])
    BY DEF TokensAdmitTheirOwners
  <2>1. ASSUME presented'[r] = presented[r], Moves(r)
        PROVE  Authenticated(r)' <=> presented'[r] = "good" /\ DotFree(ContextOf[r])
    <3>1. stage[r] # "new" /\ (Authenticated(r)' <=> Authenticated(r))
      BY <2>1 DEF Moves, Authenticated
    <3> QED
      BY <1>2, <2>1, <3>1 DEF TokensAdmitTheirOwners
  <2>2. CASE \E q \in Requests : Arrives(q)
    <3>1. PICK q \in Requests : Arrives(q)
      BY <2>2
    <3>2. ASSUME NEW credential, NEW now, NEW kind, Submit(q, credential, now),
                 presented' = [presented EXCEPT ![q] = kind],
                 verify(credential, ContextOf[q], now) <=>
                   kind = "good" /\ DotFree(ContextOf[q])
          PROVE  Authenticated(r)' <=> presented'[r] = "good" /\ DotFree(ContextOf[r])
      <4>1. \/ /\ ~verify(credential, ContextOf[q], now)
               /\ stage' = [stage EXCEPT ![q] = "unauthenticated"]
            \/ /\ verify(credential, ContextOf[q], now)
               /\ \E s \in {"over_quota", "rejected", "returned", "handling"} :
                    stage' = [stage EXCEPT ![q] = s]
        BY <2>0, <3>2, SubmitEffect DEF LetIn
      <4>2. CASE r = q
        <5>1. presented'[r] = kind
          BY <2>0, <3>2, <4>2
        <5>2. Authenticated(r)' <=> verify(credential, ContextOf[q], now)
          BY <2>0, <4>1, <4>2 DEF Authenticated
        <5> QED
          BY <3>2, <4>2, <5>1, <5>2
      <4>3. CASE r # q
        <5>1. presented'[r] = presented[r] /\ stage'[r] = stage[r]
          BY <2>0, <3>2, <4>1, <4>3
        <5> QED
          BY <2>1, <5>1 DEF Moves
      <4> QED
        BY <4>2, <4>3
    <3>3. CASE Submit(q, << >>, 0) /\ presented' = [presented EXCEPT ![q] = "bad"]
      BY <3>2, <3>3, NoTokenFails
    <3>4. ASSUME NEW owner \in Contexts, NEW at \in IssuedAt, NEW now \in UsedAt,
                 Submit(q, issue(owner, at), now),
                 presented' = [presented EXCEPT ![q] =
                                 IF IsGood(q, owner, at, now) THEN "good" ELSE "bad"]
          PROVE  Authenticated(r)' <=> presented'[r] = "good" /\ DotFree(ContextOf[r])
      <4> DEFINE kind == IF IsGood(q, owner, at, now) THEN "good" ELSE "bad"
      <4>1. IsContext(owner) /\ IsContext(ContextOf[q]) /\ at \in Nat /\ now \in Nat
        BY PipelineAssumption DEF Contexts
      <4>2. IsGood(q, owner, at, now) <=> owner = ContextOf[q] /\ GoodUntil(at, now)
        BY DEF IsGood, GoodUntil
      <4>3. kind = "good" <=> IsGood(q, owner, at, now)
        OBVIOUS
      <4> HIDE DEF kind
      <4>4. verify(issue(owner, at), ContextOf[q], now) <=>
              kind = "good" /\ DotFree(ContextOf[q])
        BY <4>1, <4>2, <4>3, TokenVerdict
      <4>5. presented' = [presented EXCEPT ![q] = kind]
        BY <3>4 DEF kind
      <4> QED
        BY <3>2, <3>4, <4>4, <4>5
    <3> QED
      BY <3>1, <3>3, <3>4 DEF Arrives
  <2>3. CASE UNCHANGED <<presented, counts, heard>> /\ \A q \in Requests : Moves(q)
    BY <2>1, <2>3
  <2> QED
    BY <1>2, <2>2, <2>3, OnlyArrivalsPass
<1> QED
  BY <1>1, <1>2, InvHolds, PTL DEF Spec
=============================================================================
