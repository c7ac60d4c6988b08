---------------------------- MODULE CircuitBreaker ----------------------------
(***************************************************************************)
(* The CircuitBreaker facade over the in-memory backend                    *)
(* (reliability/circuit_breaker.py).  Its callers name an (agent, tool)    *)
(* pair; the backend only ever sees the string key built from it, so the   *)
(* string matters: a name is a sequence of atoms, and Colon is one.        *)
(***************************************************************************)
EXTENDS InMemoryBackend

CONSTANTS
  Pairs,       \* the (agent_id, tool_name) pairs in use, names being sequences
  Colon,       \* the ":" atom
  MaxEvents    \* bound: outcomes kept for a key at one time

VARIABLES
  backend,     \* key -> the backend's state for it
  reply,       \* what the operation of this step returned, and to which pair
  failed       \* history: the pairs a failure was ever recorded for

vars == <<backend, reply, failed>>

-----------------------------------------------------------------------------
(* Faulty variant of key_for: the key is the tool alone.                    *)
MutKeyIgnoresAgent(agent, tool) == tool

-----------------------------------------------------------------------------
key_for(agent, tool) == agent \o <<Colon>> \o tool

KeyOf(p) == key_for(p[1], p[2])
Keys == {KeyOf(p) : p \in Pairs}

(* check returns a verdict, score a rate as <<failures, samples>>; to an   *)
(* operation that returns nothing, and to no operation, belongs Silence.   *)
Reply(p, verdict, rate) == [pair |-> p, verdict |-> verdict, rate |-> rate]
Silence == Reply(<< >>, "none", <<0, 0>>)
Replies == [pair : Pairs \cup {<< >>}, verdict : {"none", "admitted", "denied"},
            rate : Nat \X Nat]

Init == /\ backend = [k \in Keys |-> FreshBackend]
        /\ reply   = Silence
        /\ failed  = {}

(* check: is_open decides, trips or closes; the facade negates it.         *)
check(p) ==
  /\ backend' = [backend EXCEPT ![KeyOf(p)] = AfterIsOpen(@)]
  /\ reply'   = Reply(p, IF IsOpen(backend[KeyOf(p)]) THEN "denied" ELSE "admitted",
                      <<0, 0>>)
  /\ UNCHANGED failed

(* record_result; the model's bound stands for any finite history.         *)
record_result(p, outcome) ==
  /\ Len(Prune(backend[KeyOf(p)].events)) < MaxEvents
  /\ backend' = [backend EXCEPT ![KeyOf(p)] = AfterRecord(@, outcome)]
  /\ failed'  = IF outcome = "failure" THEN failed \cup {p} ELSE failed
  /\ reply'   = Silence

score(p) ==
  /\ backend' = [backend EXCEPT ![KeyOf(p)] = AfterScore(@)]
  /\ reply'   = Reply(p, "none", Score(backend[KeyOf(p)]))
  /\ UNCHANGED failed

Tick == /\ backend' = [k \in Keys |-> Elapse(backend[k])]
        /\ reply'   = Silence
        /\ UNCHANGED failed

Next == \/ \E p \in Pairs :
             \/ check(p)
             \/ score(p)
             \/ \E outcome \in Outcome : record_result(p, outcome)
        \/ Tick

Spec == Init /\ [][Next]_vars

(* Time passes, and the agents keep calling their tools.                   *)
LiveSpec == Spec /\ WF_vars(Tick) /\ \A p \in Pairs : WF_vars(check(p))

-----------------------------------------------------------------------------
TypeOK == /\ backend \in [Keys -> Backend]
          /\ reply \in Replies
          /\ failed \subseteq Pairs

(* The popleft loop of _prune stops at the first event inside the window,  *)
(* so it is only right if every deque runs from the oldest outcome to the  *)
(* newest; appends after a close, a score or a partial prune must keep it. *)
OldestFirst ==
  \A k \in Keys : \A i, j \in 1 .. Len(backend[k].events) :
    i <= j => backend[k].events[i].age >= backend[k].events[j].age

(* Refinement: histogram of what the deque holds inside the window, and    *)
(* the cooldown counted down.                                              *)
Histogram(b) ==
  [a \in 0 .. Window |-> [o \in Outcome |->
     Cardinality({i \in 1 .. Len(b.events) : b.events[i].age = a /\ b.events[i].outcome = o})]]

CooldownLeft(b) == IF b.tripped = NotTripped THEN NotTripped ELSE Cooldown - b.tripped

Recent  == [p \in Pairs |-> Histogram(backend[KeyOf(p)])]
Circuit == [p \in Pairs |-> CooldownLeft(backend[KeyOf(p)])]

Contract == INSTANCE BreakerContract WITH recent <- Recent, circuit <- Circuit

(* The breaker keeps the contract of BreakerContract for every pair on its *)
(* own: lazy pruning never changes an answer, a check admits exactly when  *)
(* the pair's own outcomes of the last window say so, a tripped pair is    *)
(* denied for the whole cooldown and restarts with an empty history, and   *)
(* no pair's outcomes count for another pair ("trips per (agent, tool)").  *)
PairsKeepContract == Contract!Spec

(* Circuits trip per (agent, tool): a pair is denied only if a call of     *)
(* that very pair has failed, whatever other agents and tools did.         *)
DeniedPairFailed == reply.verdict = "denied" => reply.pair \in failed

(* A tripped circuit does not stay tripped: once the cooldown is over the  *)
(* next check closes it, whatever is recorded meanwhile by calls that were *)
(* admitted before the trip.                                               *)
TrippedCloses ==
  \A k \in Keys : backend[k].tripped # NotTripped ~> backend[k].tripped = NotTripped
=============================================================================
