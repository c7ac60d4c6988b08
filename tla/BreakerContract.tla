--------------------------- MODULE BreakerContract ---------------------------
(***************************************************************************)
(* What a circuit breaker promises the interceptor, with no deque, no      *)
(* lazy pruning and no string keys: for each (agent, tool) PAIR, how many  *)
(* successes and failures happened how many ticks ago, and whether the     *)
(* circuit is closed or still has some cooldown left.                      *)
(***************************************************************************)
EXTENDS Integers

CONSTANTS Pairs, Window, Cooldown, MinSamples, ThresholdNum, ThresholdDen

VARIABLES
  recent,     \* recent[p][age][outcome]: outcomes of p that many ticks ago
  circuit,    \* Closed, or the ticks of cooldown left
  reply       \* what the operation of this step returned, and to which pair

vars == <<recent, circuit, reply>>

Closed == -1
NoOutcome == [outcome \in {"success", "failure"} |-> 0]
Nothing == [a \in 0 .. Window |-> NoOutcome]

(* The sum of count[a] over the ages a inside the window.                  *)
Total(count) ==
  LET upto[a \in 0 .. Window] == count[a] + IF a = 0 THEN 0 ELSE upto[a - 1]
  IN  upto[Window]

Failed(p)  == Total([a \in 0 .. Window |-> recent[p][a]["failure"]])
Samples(p) == Total([a \in 0 .. Window |-> recent[p][a]["failure"] + recent[p][a]["success"]])

Tripping(p) == /\ Samples(p) >= MinSamples
               /\ Failed(p) * ThresholdDen >= ThresholdNum * Samples(p)

Silence == [pair |-> << >>, verdict |-> "none", rate |-> <<0, 0>>]

Init == /\ recent  = [p \in Pairs |-> Nothing]
        /\ circuit = [p \in Pairs |-> Closed]
        /\ reply   = Silence

Says(p, a) == reply' = [pair |-> p, verdict |-> a, rate |-> <<0, 0>>]

Admit(p) == /\ circuit[p] = Closed
            /\ ~Tripping(p)
            /\ Says(p, "admitted")
            /\ UNCHANGED <<recent, circuit>>

Trip(p) == /\ circuit[p] = Closed
           /\ Tripping(p)
           /\ circuit' = [circuit EXCEPT ![p] = Cooldown]
           /\ Says(p, "denied")
           /\ UNCHANGED recent

Deny(p) == /\ circuit[p] > 0
           /\ Says(p, "denied")
           /\ UNCHANGED <<recent, circuit>>

(* The first check after the cooldown admits and forgets the past.         *)
Close(p) == /\ circuit[p] = 0
            /\ circuit' = [circuit EXCEPT ![p] = Closed]
            /\ recent'  = [recent EXCEPT ![p] = Nothing]
            /\ Says(p, "admitted")

Record(p, outcome) == /\ recent' = [recent EXCEPT ![p][0][outcome] = @ + 1]
                      /\ reply' = Silence
                      /\ UNCHANGED circuit

Score(p) == /\ reply' = [pair |-> p, verdict |-> "none",
                         rate |-> <<Failed(p), Samples(p)>>]
            /\ UNCHANGED <<recent, circuit>>

Tick == /\ recent' = [p \in Pairs |-> [a \in 0 .. Window |->
                        IF a = 0 THEN NoOutcome ELSE recent[p][a - 1]]]
        /\ circuit' = [p \in Pairs |-> IF circuit[p] > 0 THEN circuit[p] - 1
                                       ELSE circuit[p]]
        /\ reply' = Silence

Next == \/ \E p \in Pairs :
             \/ Admit(p) \/ Trip(p) \/ Deny(p) \/ Close(p) \/ Score(p)
             \/ \E outcome \in {"success", "failure"} : Record(p, outcome)
        \/ Tick

Spec == Init /\ [][Next]_vars
=============================================================================
