------------------------------ MODULE Guardrails ------------------------------
(***************************************************************************)
(* SemanticGuardrail (guardrails/semantic.py) around RegexPIIGuardrail     *)
(* (guardrails/regex_pii.py, guardrails/patterns.py).                      *)
(*                                                                         *)
(* Of a text is kept what these look at: its tokens, the labels of the     *)
(* personal data found in it, and the labels of the injection heuristics   *)
(* it trips.                                                               *)
(***************************************************************************)
EXTENDS Naturals, Sequences, FiniteSets

CONSTANTS
  INJECTION_INTENTS,   \* the token sets of the known intents, in order
  ThresholdNum,        \* similarity_threshold = ThresholdNum / ThresholdDen
  ThresholdDen,
  BlockOnInjection

ASSUME GuardrailsAssumption ==
  /\ Len(INJECTION_INTENTS) \in Nat
  /\ DOMAIN INJECTION_INTENTS = 1 .. Len(INJECTION_INTENTS)
  /\ \A i \in DOMAIN INJECTION_INTENTS :
       INJECTION_INTENTS[i] # {} /\ IsFiniteSet(INJECTION_INTENTS[i])
  /\ ThresholdNum \in Nat
  /\ ThresholdDen \in Nat \ {0}
  /\ BlockOnInjection \in BOOLEAN

IsInspectable(text) ==
  /\ text = [tokens |-> text.tokens, pii |-> text.pii, markers |-> text.markers]
  /\ IsFiniteSet(text.tokens) /\ IsFiniteSet(text.pii)

(* Faulty variant: only the first pattern is substituted.                  *)
MutMaskEmailOnly(text) == [text EXCEPT !.pii = @ \ {"email"}]

(* mask: each match becomes a [REDACTED:<label>] marker, which is made of  *)
(* two tokens.                                                             *)
mask(text) ==
  [tokens  |-> text.tokens \cup (IF text.pii = {} THEN {} ELSE text.pii \cup {"redacted"}),
   pii     |-> {},
   markers |-> text.markers]

(* Similarities are fractions <<numerator, denominator>>.                  *)
Less(x, y) == x[1] * y[2] < y[1] * x[2]

_jaccard(a, b) == IF a = {} \/ b = {} THEN <<0, 1>>
                  ELSE <<Cardinality(a \cap b), Cardinality(a \cup b)>>

(* Faulty variant: the last intent decides.                                *)
MutScoreLast(text) ==
  _jaccard(text.tokens, INJECTION_INTENTS[Len(INJECTION_INTENTS)])

(* The loop over the intents, which keeps the best score.                  *)
semantic_injection_score(text) ==
  LET best[n \in 0 .. Len(INJECTION_INTENTS)] ==
        IF n = 0 THEN <<0, 1>>
        ELSE LET score == _jaccard(text.tokens, INJECTION_INTENTS[n])
             IN  IF Less(best[n - 1], score) THEN score ELSE best[n - 1]
  IN  best[Len(INJECTION_INTENTS)]

(* inspect_input of the inner guardrail raises, if it is told to.          *)
TripsHeuristics(text) == text.markers # {} /\ BlockOnInjection

(* inspect_input of both: the similarity first, then the heuristics.  What *)
(* is not rejected is masked.                                              *)
GuardrailViolation(text) ==
  \/ ~Less(semantic_injection_score(text), <<ThresholdNum, ThresholdDen>>)
  \/ TripsHeuristics(text)

inspect_output(text) == mask(text)
=============================================================================
