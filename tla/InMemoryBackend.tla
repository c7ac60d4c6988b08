--------------------------- MODULE InMemoryBackend ---------------------------
(***************************************************************************)
(* InMemoryCircuitBreakerBackend (reliability/circuit_breaker.py): the     *)
(* state kept for ONE key, and what each of its coroutines does to it.     *)
(*                                                                         *)
(* The coroutines never suspend, so each is one atomic function of the     *)
(* state.  Timestamps are only ever compared with "now", so the model      *)
(* keeps ages in ticks: `at < now - window` is `age > Window`.  An age     *)
(* stops growing once no comparison can tell it from an older one.         *)
(***************************************************************************)
EXTENDS Integers, Sequences, FiniteSets

CONSTANTS
  Window,        \* window_seconds, in ticks
  Cooldown,      \* cooldown_seconds, in ticks
  MinSamples,    \* min_samples
  ThresholdNum,  \* failure_threshold = ThresholdNum / ThresholdDen
  ThresholdDen

(* The constructor accepts min_samples = 0, with which is_open divides by  *)
(* the length of an empty deque; the model starts at 1.                    *)
ASSUME BackendAssumption ==
  /\ Window \in Nat
  /\ Cooldown \in Nat
  /\ MinSamples \in Nat \ {0}
  /\ ThresholdNum \in Nat
  /\ ThresholdDen \in Nat \ {0}

NotTripped == -1                \* the key is absent from _tripped_at

Outcome == {"success", "failure"}
Event   == [age : 0 .. Window + 1, outcome : Outcome]

(* _events[key], oldest first, and the age of _tripped_at[key].            *)
Backend == [events : Seq(Event), tripped : NotTripped .. Cooldown]

FreshBackend == [events |-> << >>, tripped |-> NotTripped]

-----------------------------------------------------------------------------
(* Faulty variants of the definitions below: each property is shown to     *)
(* fail with one of them.                                                  *)

MutKeepBoundary(es) ==          \* the cutoff is one tick too early
  LET fresh == {i \in 1 .. Len(es) : es[i].age < Window}
  IN  IF fresh = {} THEN << >>
      ELSE SubSeq(es, CHOOSE i \in fresh : \A j \in fresh : i <= j, Len(es))

MutAppendLeft(b, outcome) ==    \* appended at the wrong end of the deque
  [b EXCEPT !.events = <<[age |-> 0, outcome |-> outcome]>> \o @]

MutStampAhead(b, outcome) ==    \* stamped with a time that is still to come
  [b EXCEPT !.events = Append(@, [age |-> -1, outcome |-> outcome])]

MutNeverCloses(b) ==            \* the deque is cleared, _tripped_at is kept
  IF b.tripped # NotTripped
  THEN IF b.tripped < Cooldown THEN b ELSE [b EXCEPT !.events = << >>]
  ELSE IF Len(b.events) >= MinSamples THEN [b EXCEPT !.tripped = 0] ELSE b

-----------------------------------------------------------------------------
(* The popleft loop: everything from the first event that is not older     *)
(* than the window.                                                        *)
Prune(es) ==
  LET fresh == {i \in 1 .. Len(es) : es[i].age <= Window}
  IN  IF fresh = {} THEN << >>
      ELSE SubSeq(es, CHOOSE i \in fresh : \A j \in fresh : i <= j, Len(es))

Failures(es) == Cardinality({i \in 1 .. Len(es) : es[i].outcome = "failure"})

(* min_samples reached and failures / len(events) >= failure_threshold.    *)
TooManyFailures(es) ==
  /\ Len(es) >= MinSamples
  /\ Failures(es) * ThresholdDen >= ThresholdNum * Len(es)

(* record_success, record_failure *)
AfterRecord(b, outcome) ==
  [events  |-> Append(Prune(b.events), [age |-> 0, outcome |-> outcome]),
   tripped |-> b.tripped]

(* score: the deque it leaves behind, and failures / len(events) as a pair *)
AfterScore(b) == [events |-> Prune(b.events), tripped |-> b.tripped]

Score(b) == LET es == Prune(b.events)
            IN  <<Failures(es), Len(es)>>

(* is_open: what it returns ...                                            *)
IsOpen(b) ==
  IF b.tripped # NotTripped
  THEN b.tripped < Cooldown
  ELSE TooManyFailures(Prune(b.events))

(* ... and what it leaves behind.                                          *)
AfterIsOpen(b) ==
  IF b.tripped # NotTripped
  THEN IF b.tripped < Cooldown THEN b ELSE FreshBackend
  ELSE [events  |-> Prune(b.events),
        tripped |-> IF TooManyFailures(Prune(b.events)) THEN 0 ELSE NotTripped]

(* One tick of time.monotonic().                                           *)
Older(e) == [age |-> IF e.age <= Window THEN e.age + 1 ELSE e.age, outcome |-> e.outcome]

Elapse(b) ==
  [events  |-> [i \in 1 .. Len(b.events) |-> Older(b.events[i])],
   tripped |-> IF b.tripped = NotTripped \/ b.tripped = Cooldown
               THEN b.tripped ELSE b.tripped + 1]
=============================================================================
