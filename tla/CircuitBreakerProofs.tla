------------------------- MODULE CircuitBreakerProofs -------------------------
(***************************************************************************)
(* Proofs about CircuitBreaker, for any pairs, names and parameters.       *)
(***************************************************************************)
EXTENDS CircuitBreaker, InMemoryBackendProofs, FiniteSetTheorems, FunctionTheorems

Inv == TypeOK /\ OldestFirst

(* A score is a pair of naturals.                                          *)
LEMMA ScoreType ==
  ASSUME NEW b \in Backend
  PROVE  Score(b) \in Nat \X Nat
<1> DEFINE es == Prune(b.events)
<1>1. es \in Seq(Event)
  BY PruneIsSuffix DEF Backend
<1> HIDE DEF es
<1>2. Len(es) \in Nat
  BY <1>1
<1>3. Failures(es) \in Nat
  <2>1. IsFiniteSet(1 .. Len(es))
    BY <1>2, FS_Interval
  <2>2. IsFiniteSet({i \in 1 .. Len(es) : es[i].outcome = "failure"})
    BY <2>1, FS_Subset
  <2> QED
    BY <2>2, FS_CardinalityType DEF Failures
<1> QED
  BY <1>2, <1>3 DEF Score, es

(* Silence is a reply.                                                     *)
LEMMA SilenceType == Silence \in Replies
BY DEF Silence, Reply, Replies

(* The backend's state of one key changes to g(b) and the others stay.     *)
LEMMA OneKeyChanges ==
  ASSUME Inv, NEW k \in Keys, NEW b, b \in Backend, Ordered(b.events),
         backend' = [backend EXCEPT ![k] = b]
  PROVE  backend' \in [Keys -> Backend] /\ OldestFirst'
<1>1. backend \in [Keys -> Backend]
  BY DEF Inv, TypeOK
<1>2. backend' \in [Keys -> Backend]
  BY <1>1
<1>3. \A m \in Keys : backend'[m] = IF m = k THEN b ELSE backend[m]
  BY <1>1
<1>4. \A m \in Keys : Ordered(backend[m].events)
  BY DEF Inv, OldestFirst, Ordered
<1>5. \A m \in Keys : Ordered(backend'[m].events)
  BY <1>3, <1>4
<1> QED
  BY <1>2, <1>5 DEF OldestFirst, Ordered

(* Every operation of the breaker and every tick preserves the types and   *)
(* the order of the deques.                                                *)
LEMMA InvStep == Inv /\ [Next]_vars => Inv'
<1> SUFFICES ASSUME Inv, [Next]_vars PROVE Inv'
  OBVIOUS
<1>0. /\ backend \in [Keys -> Backend] /\ reply \in Replies /\ failed \subseteq Pairs
      /\ \A k \in Keys : backend[k] \in Backend /\ Ordered(backend[k].events)
  BY DEF Inv, TypeOK, OldestFirst, Ordered
<1>k. \A p \in Pairs : KeyOf(p) \in Keys
  BY DEF Keys
<1>1. ASSUME NEW p \in Pairs, check(p) PROVE Inv'
  <2>1. /\ AfterIsOpen(backend[KeyOf(p)]) \in Backend
        /\ Ordered(AfterIsOpen(backend[KeyOf(p)]).events)
    BY <1>0, <1>k, AfterIsOpenKeeps
  <2>2. backend' \in [Keys -> Backend] /\ OldestFirst'
    BY <1>1, <1>k, <2>1, OneKeyChanges DEF check
  <2>3. reply' \in Replies
    BY <1>1 DEF check, Reply, Replies
  <2>4. UNCHANGED failed
    BY <1>1 DEF check
  <2> QED
    BY <1>0, <2>2, <2>3, <2>4 DEF Inv, TypeOK
<1>2. ASSUME NEW p \in Pairs, score(p) PROVE Inv'
  <2>1. /\ AfterScore(backend[KeyOf(p)]) \in Backend
        /\ Ordered(AfterScore(backend[KeyOf(p)]).events)
    BY <1>0, <1>k, AfterScoreKeeps
  <2>2. backend' \in [Keys -> Backend] /\ OldestFirst'
    BY <1>2, <1>k, <2>1, OneKeyChanges DEF score
  <2>3. reply' \in Replies
    <3>1. Score(backend[KeyOf(p)]) \in Nat \X Nat
      BY <1>0, <1>k, ScoreType
    <3> QED
      BY <1>2, <3>1 DEF score, Reply, Replies
  <2>4. UNCHANGED failed
    BY <1>2 DEF score
  <2> QED
    BY <1>0, <2>2, <2>3, <2>4 DEF Inv, TypeOK
<1>3. ASSUME NEW p \in Pairs, NEW outcome \in Outcome, record_result(p, outcome)
      PROVE  Inv'
  <2>1. /\ AfterRecord(backend[KeyOf(p)], outcome) \in Backend
        /\ Ordered(AfterRecord(backend[KeyOf(p)], outcome).events)
    BY <1>0, <1>k, AfterRecordKeeps
  <2>2. backend' \in [Keys -> Backend] /\ OldestFirst'
    BY <1>3, <1>k, <2>1, OneKeyChanges DEF record_result
  <2>3. failed' \subseteq Pairs /\ reply' = Silence
    BY <1>0, <1>3 DEF record_result
  <2> QED
    BY <2>2, <2>3, SilenceType DEF Inv, TypeOK
<1>4. ASSUME Tick PROVE Inv'
  <2>1. \A k \in Keys : /\ backend'[k] = Elapse(backend[k])
                        /\ Elapse(backend[k]) \in Backend
                        /\ Ordered(Elapse(backend[k]).events)
    BY <1>0, <1>4, ElapseKeeps DEF Tick
  <2>2. backend' \in [Keys -> Backend]
    BY <1>4, <2>1 DEF Tick
  <2>3. OldestFirst'
    BY <2>1 DEF OldestFirst, Ordered
  <2>4. reply' = Silence /\ UNCHANGED failed
    BY <1>4 DEF Tick
  <2> QED
    BY <1>0, <2>2, <2>3, <2>4, SilenceType DEF Inv, TypeOK
<1>5. CASE UNCHANGED vars
  BY <1>0, <1>5 DEF vars, Inv, TypeOK, OldestFirst
<1> QED
  BY <1>1, <1>2, <1>3, <1>4, <1>5 DEF Next

(* A new breaker satisfies the invariant.                                  *)
LEMMA InvInit == Init => Inv
<1> SUFFICES ASSUME Init PROVE Inv
  OBVIOUS
<1>1. \A k \in Keys : backend[k] = FreshBackend
  BY DEF Init
<1>2. TypeOK
  BY FreshBackendType, SilenceType DEF Init, TypeOK
<1>3. OldestFirst
  BY <1>1 DEF OldestFirst, FreshBackend
<1> QED
  BY <1>2, <1>3 DEF Inv

(* The breaker's state is well-typed: ages never pass the window by more   *)
(* than one tick, a trip is never older than the cooldown.                 *)
THEOREM TypeCorrect == Spec => []TypeOK
<1>1. Inv => TypeOK
  BY DEF Inv
<1> QED
  BY <1>1, InvInit, InvStep, PTL DEF Spec

(* Every deque is ordered, whatever the interleaving of checks, scores,    *)
(* outcomes and time: the loop of _prune removes all that is too old.      *)
THEOREM DequesAreOrdered == Spec => []OldestFirst
<1>1. Inv => OldestFirst
  BY DEF Inv
<1> QED
  BY <1>1, InvInit, InvStep, PTL DEF Spec

-----------------------------------------------------------------------------
(* Circuits trip per pair.  The key is the text agent:tool, so pairs are   *)
(* told apart by their keys as long as no agent_id holds a colon.          *)

ColonFreeAgents(Atoms) ==
  /\ Colon \notin Atoms
  /\ Pairs \subseteq Seq(Atoms) \X Seq(Atoms \cup {Colon})

(* The characters of a key: the agent's, the colon, the tool's.            *)
LEMMA KeyCharacters ==
  ASSUME NEW Atoms, Colon \notin Atoms, NEW a \in Seq(Atoms),
         NEW t \in Seq(Atoms \cup {Colon})
  PROVE  /\ Len(a) \in Nat /\ Len(t) \in Nat
         /\ Len(key_for(a, t)) = Len(a) + 1 + Len(t)
         /\ \A i \in 1 .. Len(a) : key_for(a, t)[i] = a[i] /\ a[i] # Colon
         /\ key_for(a, t)[Len(a) + 1] = Colon
         /\ \A i \in 1 .. Len(t) : key_for(a, t)[Len(a) + 1 + i] = t[i]
<1> DEFINE S == Atoms \cup {Colon}
<1>1. t \in Seq(S)
  OBVIOUS
<1>2. Len(a) \in Nat /\ Len(t) \in Nat /\ \A i \in 1 .. Len(a) : a[i] # Colon
  BY <1>1, ElementOfSeq
<1>3. a \in Seq(S) /\ <<Colon>> \in Seq(S)
  BY SeqMonotonic
<1> HIDE DEF S
<1> DEFINE h == a \o <<Colon>>
<1>4. /\ h \in Seq(S) /\ Len(h) = Len(a) + 1
      /\ \A i \in 1 .. Len(a) : h[i] = a[i]
      /\ h[Len(a) + 1] = Colon
  BY <1>2, <1>3, ConcatProperties
<1>5. key_for(a, t) = h \o t
  BY DEF key_for
<1> HIDE DEF h
<1>6. /\ Len(h \o t) = Len(a) + 1 + Len(t)
      /\ \A i \in 1 .. Len(a) + 1 : (h \o t)[i] = h[i]
      /\ \A i \in 1 .. Len(t) : (h \o t)[Len(a) + 1 + i] = t[i]
  <2>1. /\ Len(h \o t) = Len(h) + Len(t)
        /\ \A i \in 1 .. Len(h) + Len(t) :
             (h \o t)[i] = IF i <= Len(h) THEN h[i] ELSE t[i - Len(h)]
    <3>1. h \in Seq(S) /\ t \in Seq(S)
      BY <1>1, <1>4
    <3> QED
      BY <3>1, ConcatProperties, Zenon
  <2>2. ASSUME NEW i \in 1 .. Len(t) PROVE (h \o t)[Len(a) + 1 + i] = t[i]
    <3> DEFINE k == Len(a) + 1 + i
    <3>1. k \in 1 .. Len(h) + Len(t) /\ ~(k <= Len(h)) /\ k - Len(h) = i
      BY <1>2, <1>4
    <3> HIDE DEF k
    <3>2. (h \o t)[k] = t[k - Len(h)]
      BY <2>1, <3>1
    <3>3. (h \o t)[k] = t[i]
      BY <3>1, <3>2
    <3> QED
      BY <3>3 DEF k
  <2>3. ASSUME NEW i \in 1 .. Len(a) + 1 PROVE (h \o t)[i] = h[i]
    BY <1>2, <1>4, <2>1
  <2> QED
    BY <1>4, <2>1, <2>2, <2>3
<1>7. \A i \in 1 .. Len(a) : key_for(a, t)[i] = a[i]
  BY <1>2, <1>4, <1>5, <1>6
<1>8. key_for(a, t)[Len(a) + 1] = Colon
  BY <1>2, <1>4, <1>5, <1>6
<1> QED
  BY <1>2, <1>5, <1>6, <1>7, <1>8

(* The first colon of a key ends the agent's name.                         *)
LEMMA KeyParts ==
  ASSUME NEW Atoms, Colon \notin Atoms,
         NEW a \in Seq(Atoms), NEW t \in Seq(Atoms \cup {Colon}),
         NEW b \in Seq(Atoms), NEW u \in Seq(Atoms \cup {Colon}),
         key_for(a, t) = key_for(b, u)
  PROVE  a = b /\ t = u
<1> DEFINE k == key_for(a, t)
<1>1. /\ Len(a) \in Nat /\ Len(t) \in Nat
      /\ Len(k) = Len(a) + 1 + Len(t)
      /\ \A i \in 1 .. Len(a) : k[i] = a[i] /\ a[i] # Colon
      /\ k[Len(a) + 1] = Colon
      /\ \A i \in 1 .. Len(t) : k[Len(a) + 1 + i] = t[i]
  BY KeyCharacters, SMTT(30)
<1>2. /\ Len(b) \in Nat /\ Len(u) \in Nat
      /\ Len(k) = Len(b) + 1 + Len(u)
      /\ \A i \in 1 .. Len(b) : k[i] = b[i] /\ b[i] # Colon
      /\ k[Len(b) + 1] = Colon
      /\ \A i \in 1 .. Len(u) : k[Len(b) + 1 + i] = u[i]
  BY KeyCharacters, SMTT(30)
<1> HIDE DEF k
<1>3. ASSUME Len(a) < Len(b) PROVE FALSE
  <2>1. Len(a) + 1 \in 1 .. Len(b)
    BY <1>1, <1>2, <1>3
  <2> QED
    BY <1>1, <1>2, <2>1
<1>4. ASSUME Len(b) < Len(a) PROVE FALSE
  <2>1. Len(b) + 1 \in 1 .. Len(a)
    BY <1>1, <1>2, <1>4
  <2> QED
    BY <1>1, <1>2, <2>1
<1>5. Len(a) = Len(b) /\ Len(t) = Len(u)
  BY <1>1, <1>2, <1>3, <1>4
<1>6. a = b
  BY <1>1, <1>2, <1>5, SeqEqual
<1>7. \A i \in 1 .. Len(t) : t[i] = u[i]
  BY <1>1, <1>2, <1>5
<1>8. t = u
  BY <1>5, <1>7, SeqEqual
<1> QED
  BY <1>6, <1>8

(* Different pairs have different keys.                                    *)
LEMMA KeysDiffer ==
  ASSUME NEW Atoms, ColonFreeAgents(Atoms), NEW p \in Pairs, NEW q \in Pairs,
         KeyOf(p) = KeyOf(q)
  PROVE  p = q
<1>1. PICK a \in Seq(Atoms), t \in Seq(Atoms \cup {Colon}) : p = <<a, t>>
  BY DEF ColonFreeAgents
<1>2. PICK b \in Seq(Atoms), u \in Seq(Atoms \cup {Colon}) : q = <<b, u>>
  BY DEF ColonFreeAgents
<1>3. key_for(a, t) = key_for(b, u)
  BY <1>1, <1>2 DEF KeyOf
<1>4. a = b /\ t = u
  BY <1>3, KeyParts, ZenonT(60) DEF ColonFreeAgents
<1> QED
  BY <1>1, <1>2, <1>4

(* A backend that has seen a failure it still holds, or that has tripped.  *)
HasFailure(es) == \E i \in 1 .. Len(es) : es[i].outcome = "failure"
Suspicious(b) == b.tripped # NotTripped \/ HasFailure(b.events)

(* _prune invents no failure.                                              *)
LEMMA PruneFailure ==
  ASSUME NEW es \in Seq(Event), HasFailure(Prune(es))
  PROVE  HasFailure(es)
<1>1. PICK n \in 0 .. Len(es) : /\ Len(Prune(es)) = Len(es) - n
                                /\ \A i \in 1 .. Len(es) - n : Prune(es)[i] = es[i + n]
  BY PruneIsSuffix
<1>2. PICK i \in 1 .. Len(Prune(es)) : Prune(es)[i].outcome = "failure"
  BY DEF HasFailure
<1>3. i + n \in 1 .. Len(es) /\ es[i + n].outcome = "failure"
  BY <1>1, <1>2
<1> QED
  BY <1>3 DEF HasFailure

(* A threshold above zero is not reached without a failure.                *)
LEMMA TripNeedsFailure ==
  ASSUME ThresholdNum # 0, NEW es \in Seq(Event), TooManyFailures(es)
  PROVE  HasFailure(es)
<1> SUFFICES ASSUME ~HasFailure(es) PROVE FALSE
  OBVIOUS
<1>1. {i \in 1 .. Len(es) : es[i].outcome = "failure"} = {}
  BY DEF HasFailure
<1>2. Failures(es) = 0
  BY <1>1, FS_EmptySet DEF Failures
<1>3. Len(es) \in Nat \ {0} /\ ThresholdNum \in Nat \ {0} /\ ThresholdDen \in Nat
  BY BackendAssumption DEF TooManyFailures
<1>4. \A x, y \in Nat \ {0} : x * y > 0
  OBVIOUS
<1>5. \A x \in Nat : 0 * x = 0
  OBVIOUS
<1>6. 0 >= ThresholdNum * Len(es)
  BY <1>2, <1>3, <1>5 DEF TooManyFailures
<1> QED
  BY <1>3, <1>4, <1>6

(* What makes it inductive: a key is suspicious only if its pair failed.   *)
BlameInv == \A p \in Pairs : Suspicious(backend[KeyOf(p)]) => p \in failed

(* Every operation and every tick preserves BlameInv and DeniedPairFailed. *)
LEMMA BlameStep ==
  ASSUME NEW Atoms, ColonFreeAgents(Atoms), ThresholdNum # 0,
         Inv, BlameInv, DeniedPairFailed, [Next]_vars
  PROVE  BlameInv' /\ DeniedPairFailed'
<1>0. /\ backend \in [Keys -> Backend]
      /\ \A p \in Pairs : /\ KeyOf(p) \in Keys /\ backend[KeyOf(p)] \in Backend
                          /\ backend[KeyOf(p)].events \in Seq(Event)
  BY DEF Inv, TypeOK, Keys, Backend
<1>1. ASSUME NEW p \in Pairs, NEW b, backend' = [backend EXCEPT ![KeyOf(p)] = b],
             failed \subseteq failed', Suspicious(b) => p \in failed'
      PROVE  BlameInv'
  <2> SUFFICES ASSUME NEW q \in Pairs, Suspicious(backend'[KeyOf(q)]) PROVE q \in failed'
    BY DEF BlameInv, Suspicious, HasFailure
  <2>1. CASE q = p
    BY <1>0, <1>1, <2>1
  <2>2. CASE q # p
    <3>1. backend'[KeyOf(q)] = backend[KeyOf(q)]
      BY <1>0, <1>1, <2>2, KeysDiffer
    <3> QED
      BY <1>1, <3>1 DEF BlameInv
  <2> QED
    BY <2>1, <2>2
<1>2. ASSUME NEW p \in Pairs, check(p) PROVE BlameInv' /\ DeniedPairFailed'
  <2> DEFINE b == backend[KeyOf(p)]
  <2>1. TooManyFailures(Prune(b.events)) => HasFailure(b.events)
    BY <1>0, TripNeedsFailure, PruneFailure, PruneIsSuffix
  <2>2. IsOpen(b) => Suspicious(b)
    BY <2>1 DEF IsOpen, Suspicious
  <2>3. Suspicious(AfterIsOpen(b)) => Suspicious(b)
    <3>1. HasFailure(Prune(b.events)) => HasFailure(b.events)
      BY <1>0, PruneFailure
    <3>2. ~Suspicious(FreshBackend)
      BY DEF Suspicious, FreshBackend, HasFailure
    <3> QED
      BY <2>1, <3>1, <3>2 DEF AfterIsOpen, Suspicious
  <2>4. Suspicious(b) => p \in failed
    BY DEF BlameInv
  <2>5. /\ backend' = [backend EXCEPT ![KeyOf(p)] = AfterIsOpen(b)] /\ failed' = failed
        /\ reply'.pair = p
        /\ reply'.verdict = IF IsOpen(b) THEN "denied" ELSE "admitted"
    BY <1>2 DEF check, Reply
  <2> HIDE DEF b
  <2>6. BlameInv'
    BY <1>1, <2>3, <2>4, <2>5
  <2> QED
    BY <2>2, <2>4, <2>5, <2>6 DEF DeniedPairFailed
<1>3. ASSUME NEW p \in Pairs, score(p) PROVE BlameInv' /\ DeniedPairFailed'
  <2> DEFINE b == backend[KeyOf(p)]
  <2>1. Suspicious(AfterScore(b)) => Suspicious(b)
    BY <1>0, PruneFailure DEF AfterScore, Suspicious
  <2>2. Suspicious(b) => p \in failed
    BY DEF BlameInv
  <2>3. /\ backend' = [backend EXCEPT ![KeyOf(p)] = AfterScore(b)] /\ failed' = failed
        /\ reply'.verdict = "none"
    BY <1>3 DEF score, Reply
  <2> HIDE DEF b
  <2>4. BlameInv'
    BY <1>1, <2>1, <2>2, <2>3
  <2> QED
    BY <2>3, <2>4 DEF DeniedPairFailed
<1>4. ASSUME NEW p \in Pairs, NEW outcome \in Outcome, record_result(p, outcome)
      PROVE  BlameInv' /\ DeniedPairFailed'
  <2> DEFINE b == backend[KeyOf(p)]
             e == [age |-> 0, outcome |-> outcome]
  <2>1. /\ backend' = [backend EXCEPT ![KeyOf(p)] = AfterRecord(b, outcome)]
        /\ failed' = IF outcome = "failure" THEN failed \cup {p} ELSE failed
        /\ reply'.verdict = "none"
    BY <1>4 DEF record_result, Silence, Reply
  <2>2. Suspicious(AfterRecord(b, outcome)) => Suspicious(b) \/ outcome = "failure"
    <3> DEFINE es == Prune(b.events)
    <3>1. es \in Seq(Event)
      BY <1>0, PruneIsSuffix
    <3>e. e \in Event /\ e.outcome = outcome
      BY BackendAssumption DEF Event
    <3> HIDE DEF e, es
    <3>2. HasFailure(Append(es, e)) => HasFailure(es) \/ outcome = "failure"
      BY <3>1, <3>e, AppendProperties DEF HasFailure
    <3> QED
      BY <1>0, <3>2, PruneFailure DEF AfterRecord, Suspicious, e, es
  <2>3. Suspicious(b) => p \in failed
    BY DEF BlameInv
  <2> HIDE DEF b
  <2>4. BlameInv'
    BY <1>1, <2>1, <2>2, <2>3
  <2> QED
    BY <2>1, <2>4 DEF DeniedPairFailed
<1>5. ASSUME Tick PROVE BlameInv' /\ DeniedPairFailed'
  <2>1. ASSUME NEW p \in Pairs, Suspicious(backend'[KeyOf(p)]) PROVE p \in failed'
    <3> DEFINE b == backend[KeyOf(p)]
    <3>1. backend'[KeyOf(p)] = Elapse(b) /\ failed' = failed
      BY <1>0, <1>5 DEF Tick
    <3>2. Len(b.events) \in Nat
      BY <1>0
    <3>3. HasFailure(Elapse(b).events) => HasFailure(b.events)
      BY <3>2 DEF HasFailure, Elapse, Older
    <3>4. Elapse(b).tripped # NotTripped => b.tripped # NotTripped
      BY DEF Elapse
    <3> QED
      BY <2>1, <3>1, <3>3, <3>4 DEF BlameInv, Suspicious
  <2>2. reply'.verdict = "none"
    BY <1>5 DEF Tick, Silence, Reply
  <2> QED
    BY <2>1, <2>2 DEF BlameInv, DeniedPairFailed, Suspicious, HasFailure
<1>6. CASE UNCHANGED vars
  BY <1>6 DEF vars, BlameInv, DeniedPairFailed, Suspicious, HasFailure
<1> QED
  BY <1>2, <1>3, <1>4, <1>5, <1>6 DEF Next

(* An agent is denied a tool only after a failure of that agent with that  *)
(* tool, for any agents whose names hold no colon, any tools, any history  *)
(* and any threshold above zero.                                           *)
THEOREM DenialsAreEarned ==
  ASSUME NEW Atoms, ColonFreeAgents(Atoms), ThresholdNum # 0
  PROVE  Spec => []DeniedPairFailed
<1>1. Init => BlameInv /\ DeniedPairFailed
  <2> SUFFICES ASSUME Init PROVE BlameInv /\ DeniedPairFailed
    OBVIOUS
  <2>1. \A p \in Pairs : backend[KeyOf(p)] = FreshBackend
    BY DEF Init, Keys
  <2> QED
    BY <2>1 DEF Init, BlameInv, Suspicious, HasFailure, FreshBackend, DeniedPairFailed,
                Silence, Reply
<1>2. Inv /\ BlameInv /\ DeniedPairFailed /\ [Next]_vars => BlameInv' /\ DeniedPairFailed'
  BY BlameStep
<1> QED
  BY <1>1, <1>2, InvInit, InvStep, PTL DEF Spec

-----------------------------------------------------------------------------
(* The refinement of BreakerContract.  Indices shifted by n are as many.   *)
LEMMA ShiftCount ==
  ASSUME NEW A, NEW B, IsFiniteSet(A), A \subseteq Int, B \subseteq Int, NEW n \in Int,
         \A i \in A : i + n \in B, \A j \in B : j - n \in A
  PROVE  Cardinality(B) = Cardinality(A)
<1> DEFINE f == [i \in A |-> i + n]
<1>1. f \in [A -> B]
  OBVIOUS
<1>2. \A i, j \in A : f[i] = f[j] => i = j
  <2> TAKE i, j \in A
  <2>1. i \in Int /\ j \in Int /\ f[i] = i + n /\ f[j] = j + n
    OBVIOUS
  <2> QED
    BY <2>1
<1>3. \A j \in B : \E i \in A : f[i] = j
  <2> TAKE j \in B
  <2>1. j - n \in A /\ (j - n) + n = j
    OBVIOUS
  <2> WITNESS j - n \in A
  <2> QED
    BY <2>1
<1> HIDE DEF f
<1>4. f \in Bijection(A, B)
  BY <1>1, <1>2, <1>3, Fun_IsBij
<1>5. ExistsBijection(A, B)
  BY <1>4 DEF ExistsBijection
<1> QED
  BY <1>5, FS_Bijection

(* The places in a deque of the outcomes o that are a ticks old.           *)
At(es, a, o) == {i \in 1 .. Len(es) : es[i].age = a /\ es[i].outcome = o}

(* A set of places in a deque is finite.                                   *)
LEMMA PlacesFinite ==
  ASSUME NEW es \in Seq(Event), NEW A, A \subseteq 1 .. Len(es)
  PROVE  IsFiniteSet(A) /\ Cardinality(A) \in Nat
<1>1. IsFiniteSet(1 .. Len(es))
  BY FS_Interval
<1> QED
  BY <1>1, FS_Subset, FS_CardinalityType

(* The histogram counts those places, age by age and outcome by outcome.   *)
LEMMA HistogramAt ==
  ASSUME NEW b
  PROVE  /\ DOMAIN Histogram(b) = 0 .. Window
         /\ Histogram(b) = [a \in 0 .. Window |-> [o \in Outcome |-> Cardinality(At(b.events, a, o))]]
         /\ \A a \in 0 .. Window : \A o \in Outcome :
              Histogram(b)[a][o] = Cardinality(At(b.events, a, o))
BY DEF Histogram, At

(* Lazy pruning changes no count inside the window.                        *)
LEMMA PruneKeepsCounts ==
  ASSUME NEW es \in Seq(Event), NEW a \in 0 .. Window, NEW o
  PROVE  Cardinality(At(Prune(es), a, o)) = Cardinality(At(es, a, o))
<1> DEFINE ps == Prune(es)
<1>1. PICK n \in 0 .. Len(es) : /\ Len(ps) = Len(es) - n
                                /\ \A i \in 1 .. Len(es) - n : ps[i] = es[i + n]
                                /\ \A i \in 1 .. n : es[i].age > Window
  BY PruneIsSuffix
<1>2. ps \in Seq(Event) /\ Len(es) \in Nat /\ n \in Nat /\ Window \in Nat
  BY PruneIsSuffix, BackendAssumption
<1> HIDE DEF ps
<1>3. IsFiniteSet(At(ps, a, o)) /\ At(ps, a, o) \subseteq Int /\ At(es, a, o) \subseteq Int
  BY <1>2, PlacesFinite DEF At
<1>4. \A i \in At(ps, a, o) : i + n \in At(es, a, o)
  BY <1>1, <1>2 DEF At
<1>5. \A j \in At(es, a, o) : j - n \in At(ps, a, o)
  <2> TAKE j \in At(es, a, o)
  <2>1. j \in 1 .. Len(es) /\ es[j].age = a /\ es[j].outcome = o
    BY DEF At
  <2>2. ~(j <= n)
    BY <1>1, <1>2, <2>1
  <2>3. j - n \in 1 .. Len(es) - n /\ (j - n) + n = j
    BY <1>2, <2>1, <2>2
  <2> QED
    BY <1>1, <2>1, <2>3 DEF At
<1>6. Cardinality(At(es, a, o)) = Cardinality(At(ps, a, o))
  BY <1>2, <1>3, <1>4, <1>5, ShiftCount, SMTT(30)
<1> QED
  BY <1>6 DEF ps

(* Hence a pruned deque has the histogram it had before, whatever is       *)
(* stored beside it.                                                       *)
LEMMA ScoreKeepsHistogram ==
  ASSUME NEW b \in Backend, NEW t
  PROVE  Histogram([events |-> Prune(b.events), tripped |-> t]) = Histogram(b)
<1> DEFINE c == [events |-> Prune(b.events), tripped |-> t]
<1>1. b.events \in Seq(Event) /\ c.events = Prune(b.events)
  BY DEF Backend
<1> HIDE DEF c
<1>2. \A a \in 0 .. Window : \A o \in Outcome :
        Cardinality(At(c.events, a, o)) = Cardinality(At(b.events, a, o))
  BY <1>1, PruneKeepsCounts
<1>3. Histogram(c) = Histogram(b)
  <2>1. /\ Histogram(b) = [a \in 0 .. Window |-> [o \in Outcome |-> Cardinality(At(b.events, a, o))]]
        /\ Histogram(c) = [a \in 0 .. Window |-> [o \in Outcome |-> Cardinality(At(c.events, a, o))]]
    BY HistogramAt, Zenon
  <2> QED
    BY <1>2, <2>1
<1> QED
  BY <1>3 DEF c

(* A recorded outcome is one more of age 0.                                *)
LEMMA RecordCounts ==
  ASSUME NEW b \in Backend, NEW outcome \in Outcome
  PROVE  Histogram(AfterRecord(b, outcome)) =
           [Histogram(b) EXCEPT ![0][outcome] = @ + 1]
<1> DEFINE es == b.events
           ps == Prune(es)
           e == [age |-> 0, outcome |-> outcome]
           rs == Append(ps, e)
           h == Histogram(b)
<1>1. /\ es \in Seq(Event) /\ ps \in Seq(Event) /\ Len(ps) \in Nat /\ e \in Event /\ Window \in Nat
      /\ e.age = 0 /\ e.outcome = outcome
  <2>1. es \in Seq(Event)
    BY DEF Backend
  <2>2. ps \in Seq(Event)
    BY <2>1, PruneIsSuffix
  <2>3. e \in Event /\ e.age = 0 /\ e.outcome = outcome /\ Window \in Nat
    BY BackendAssumption DEF Event
  <2> HIDE DEF es, ps, e
  <2> QED
    BY <2>1, <2>2, <2>3
<1>2. AfterRecord(b, outcome).events = rs
  BY DEF AfterRecord
<1> HIDE DEF es, ps, e
<1>3. /\ rs \in Seq(Event) /\ Len(rs) = Len(ps) + 1 /\ rs[Len(ps) + 1] = e
      /\ \A i \in 1 .. Len(ps) : rs[i] = ps[i]
  BY <1>1, AppendProperties
<1> HIDE DEF rs
<1>4. ASSUME NEW a \in 0 .. Window, NEW o \in Outcome, a # 0 \/ o # outcome
      PROVE  At(rs, a, o) = At(ps, a, o)
  <2>1. Len(ps) + 1 \notin At(rs, a, o)
    BY <1>1, <1>3, <1>4 DEF At
  <2>2. \A i : i \in 1 .. Len(rs) <=> i \in 1 .. Len(ps) \/ i = Len(ps) + 1
    BY <1>1, <1>3
  <2> QED
    BY <1>3, <2>1, <2>2 DEF At
<1>5. /\ At(rs, 0, outcome) = At(ps, 0, outcome) \cup {Len(ps) + 1}
      /\ Len(ps) + 1 \notin At(ps, 0, outcome)
  <2>1. Len(ps) + 1 \notin 1 .. Len(ps)
    BY <1>1
  <2>2. \A i : i \in 1 .. Len(rs) <=> i \in 1 .. Len(ps) \/ i = Len(ps) + 1
    BY <1>1, <1>3
  <2> QED
    BY <1>1, <1>3, <2>1, <2>2 DEF At
<1>6. Cardinality(At(rs, 0, outcome)) = Cardinality(At(ps, 0, outcome)) + 1
  <2>1. IsFiniteSet(At(ps, 0, outcome))
    BY <1>1, PlacesFinite DEF At
  <2> QED
    BY <1>5, <2>1, FS_AddElement
<1>7. \A a \in 0 .. Window : \A o \in Outcome : Cardinality(At(ps, a, o)) = h[a][o]
  <2>1. \A a \in 0 .. Window : \A o \in Outcome :
          Cardinality(At(ps, a, o)) = Cardinality(At(es, a, o))
    BY <1>1, PruneKeepsCounts DEF ps
  <2>2. \A a \in 0 .. Window : \A o \in Outcome : h[a][o] = Cardinality(At(es, a, o))
    BY HistogramAt DEF es
  <2> HIDE DEF h
  <2> QED
    BY <2>1, <2>2
<1>8. /\ DOMAIN h = 0 .. Window
      /\ \A a \in 0 .. Window : h[a] = [o \in Outcome |-> h[a][o]]
      /\ h = [a \in 0 .. Window |-> h[a]]
  <2>1. h = [a \in 0 .. Window |-> [o \in Outcome |-> Cardinality(At(b.events, a, o))]]
    BY HistogramAt
  <2> HIDE DEF h
  <2> QED
    BY <2>1
<1> DEFINE g == Histogram(AfterRecord(b, outcome))
<1>9. g = [a \in 0 .. Window |-> [o \in Outcome |-> Cardinality(At(rs, a, o))]]
  BY <1>2, HistogramAt, SMTT(30)
<1> HIDE DEF h, g
<1>10. 0 \in 0 .. Window
  BY <1>1
<1>11. \A a \in 0 .. Window : a # 0 => g[a] = h[a]
  <2> TAKE a \in 0 .. Window
  <2> HAVE a # 0
  <2>1. \A o \in Outcome : Cardinality(At(rs, a, o)) = h[a][o]
    BY <1>4, <1>7
  <2> QED
    BY <1>8, <1>9, <2>1
<1>12. g[0] = [h[0] EXCEPT ![outcome] = @ + 1]
  <2>1. \A o \in Outcome : Cardinality(At(rs, 0, o)) = IF o = outcome THEN h[0][outcome] + 1 ELSE h[0][o]
    BY <1>4, <1>6, <1>7, <1>10
  <2> QED
    BY <1>8, <1>9, <1>10, <2>1
<1>13. g = [h EXCEPT ![0] = [h[0] EXCEPT ![outcome] = @ + 1]]
  BY <1>8, <1>9, <1>10, <1>11, <1>12
<1> QED
  BY <1>13 DEF g, h

(* One tick moves every count to the next age.                             *)
LEMMA ElapseCounts ==
  ASSUME NEW b \in Backend
  PROVE  Histogram(Elapse(b)) =
           [a \in 0 .. Window |-> IF a = 0 THEN [o \in Outcome |-> 0]
                                  ELSE Histogram(b)[a - 1]]
<1> DEFINE es == b.events
           ts == [i \in 1 .. Len(es) |-> Older(es[i])]
           h == Histogram(b)
           g == Histogram(Elapse(b))
<1>1. /\ es \in Seq(Event) /\ Len(es) \in Nat /\ Window \in Nat
      /\ \A i \in 1 .. Len(es) : es[i] \in Event
  <2>1. es \in Seq(Event) /\ Window \in Nat
    BY BackendAssumption DEF Backend
  <2> HIDE DEF es
  <2> QED
    BY <2>1, ElementOfSeq
<1>2. Elapse(b).events = ts
  BY DEF Elapse
<1> HIDE DEF es
<1>3. /\ Len(ts) = Len(es)
      /\ \A i \in 1 .. Len(es) :
           /\ es[i].age \in 0 .. Window + 1
           /\ ts[i].outcome = es[i].outcome
           /\ ts[i].age = IF es[i].age <= Window THEN es[i].age + 1 ELSE es[i].age
  BY <1>1, EventFields DEF Older
<1> HIDE DEF ts
<1>4. \A o : At(ts, 0, o) = {}
  BY <1>1, <1>3 DEF At
<1>5. ASSUME NEW a \in 0 .. Window, a # 0, NEW o
      PROVE  At(ts, a, o) = At(es, a - 1, o)
  <2>1. \A i \in 1 .. Len(es) : ts[i].age = a <=> es[i].age = a - 1
    <3> TAKE i \in 1 .. Len(es)
    <3> DEFINE x == es[i].age
               y == ts[i].age
    <3>1. x \in 0 .. Window + 1 /\ y = IF x <= Window THEN x + 1 ELSE x
      BY <1>3
    <3> HIDE DEF x, y
    <3>2. y = a <=> x = a - 1
      BY <1>1, <1>5, <3>1
    <3> QED
      BY <3>2 DEF x, y
  <2> QED
    BY <1>3, <2>1 DEF At
<1>6. g = [a \in 0 .. Window |-> [o \in Outcome |-> Cardinality(At(ts, a, o))]]
  BY <1>2, HistogramAt
<1>7. h = [a \in 0 .. Window |-> [o \in Outcome |-> Cardinality(At(es, a, o))]]
  BY HistogramAt DEF es
<1> HIDE DEF g, h
<1>8. \A a \in 0 .. Window : a # 0 => g[a] = h[a - 1]
  <2> TAKE a \in 0 .. Window
  <2> HAVE a # 0
  <2>1. a - 1 \in 0 .. Window
    BY <1>1
  <2>2. \A o : Cardinality(At(ts, a, o)) = Cardinality(At(es, a - 1, o))
    BY <1>5
  <2> QED
    BY <1>6, <1>7, <2>1, <2>2
<1>9. g[0] = [o \in Outcome |-> 0]
  <2>1. 0 \in 0 .. Window /\ \A o : Cardinality(At(ts, 0, o)) = 0
    <3>1. Cardinality({}) = 0
      BY FS_EmptySet
    <3>2. 0 \in 0 .. Window
      BY <1>1
    <3> QED
      BY <1>4, <3>1, <3>2, Zenon
  <2> QED
    BY <1>6, <2>1
<1>10. g = [a \in 0 .. Window |-> IF a = 0 THEN [o \in Outcome |-> 0] ELSE h[a - 1]]
  BY <1>6, <1>8, <1>9
<1> QED
  BY <1>10 DEF g, h

(* The contract's sum over the ages counts the outcomes inside the window. *)
Young(es, a, O) == {i \in 1 .. Len(es) : es[i].age <= a /\ es[i].outcome \in O}
Aged(es, a, O)  == {i \in 1 .. Len(es) : es[i].age = a /\ es[i].outcome \in O}

(* The recursive sum over the ages up to the window adds up to the number  *)
(* of outcomes no older than the window.                                   *)
LEMMA TotalCounts ==
  ASSUME NEW es \in Seq(Event), NEW O, NEW count,
         \A a \in 0 .. Window : count[a] = Cardinality(Aged(es, a, O))
  PROVE  Contract!Total(count) = Cardinality(Young(es, Window, O))
<1> DEFINE Step(f, a) == count[a] + IF a = 0 THEN 0 ELSE f[a - 1]
           Good(f) == f = [a \in 0 .. Window |-> Step(f, a)]
           young == [a \in 0 .. Window |-> Cardinality(Young(es, a, O))]
<1>0. /\ Len(es) \in Nat /\ Window \in Nat
      /\ \A i \in 1 .. Len(es) : es[i].age \in Nat
  BY BackendAssumption, EventFields, ElementOfSeq
<1>1. \A a : Young(es, a, O) \subseteq 1 .. Len(es) /\ Aged(es, a, O) \subseteq 1 .. Len(es)
  BY DEF Young, Aged
<1>2. \A a : /\ IsFiniteSet(Young(es, a, O)) /\ Cardinality(Young(es, a, O)) \in Nat
             /\ IsFiniteSet(Aged(es, a, O)) /\ Cardinality(Aged(es, a, O)) \in Nat
  BY <1>1, PlacesFinite
<1>3. ASSUME NEW a \in 0 .. Window, a # 0
      PROVE  Cardinality(Young(es, a, O)) =
               Cardinality(Aged(es, a, O)) + Cardinality(Young(es, a - 1, O))
  <2>1. /\ Young(es, a, O) = Aged(es, a, O) \cup Young(es, a - 1, O)
        /\ Aged(es, a, O) \cap Young(es, a - 1, O) = {}
    <3>1. \A i \in 1 .. Len(es) : /\ es[i].age <= a <=> es[i].age = a \/ es[i].age <= a - 1
                                  /\ ~(es[i].age = a /\ es[i].age <= a - 1)
      BY <1>0
    <3> QED
      BY <3>1 DEF Young, Aged
  <2>2. Cardinality({}) = 0
    BY FS_EmptySet
  <2>3. Cardinality(Aged(es, a, O) \cup Young(es, a - 1, O)) =
          Cardinality(Aged(es, a, O)) + Cardinality(Young(es, a - 1, O))
            - Cardinality(Aged(es, a, O) \cap Young(es, a - 1, O))
    BY <1>2, FS_Union, Zenon
  <2> DEFINE x == Cardinality(Aged(es, a, O))
             y == Cardinality(Young(es, a - 1, O))
  <2>4. x \in Nat /\ y \in Nat
    BY <1>2
  <2>5. Cardinality(Young(es, a, O)) = x + y - 0
    BY <2>1, <2>2, <2>3, Zenon
  <2> HIDE DEF x, y
  <2>6. Cardinality(Young(es, a, O)) = x + y
    BY <2>4, <2>5
  <2> QED
    BY <2>6 DEF x, y
<1>4. Cardinality(Young(es, 0, O)) = Cardinality(Aged(es, 0, O))
  <2>1. Young(es, 0, O) = Aged(es, 0, O)
    <3>1. \A i \in 1 .. Len(es) : es[i].age <= 0 <=> es[i].age = 0
      BY <1>0
    <3> QED
      BY <3>1 DEF Young, Aged
  <2> QED
    BY <2>1
<1>5. Good(young)
  <2>1. \A a \in 0 .. Window : Cardinality(Young(es, a, O)) = Step(young, a)
    <3> TAKE a \in 0 .. Window
    <3>1. CASE a = 0
      BY <1>2, <1>4, <3>1
    <3>2. CASE a # 0
      <4>1. a - 1 \in 0 .. Window
        BY <1>0, <3>2
      <4>2. young[a - 1] = Cardinality(Young(es, a - 1, O))
        BY <4>1
      <4> QED
        BY <1>3, <3>2, <4>2
    <3> QED
      BY <3>1, <3>2
  <2> QED
    BY <2>1
<1> DEFINE upto == CHOOSE f : Good(f)
<1>6. Contract!Total(count) = upto[Window]
  BY DEF Contract!Total
<1>7. Good(upto)
  BY <1>5
<1> HIDE DEF upto
<1> DEFINE Off == {a \in 0 .. Window : upto[a] # Cardinality(Young(es, a, O))}
<1>8. Off = {}
  <2> SUFFICES ASSUME Off # {} PROVE FALSE
    OBVIOUS
  <2>1. PICK a \in Off : \A c \in Off : a <= c
    <3>1. Off \subseteq Nat
      BY <1>0
    <3> QED
      BY <3>1, LeastExists
  <2>2. a \in 0 .. Window /\ upto[a] = Step(upto, a)
    BY <1>7
  <2>3. CASE a = 0
    BY <1>2, <1>4, <2>1, <2>2, <2>3
  <2>4. CASE a # 0
    <3>1. a - 1 \in 0 .. Window /\ ~(a <= a - 1)
      BY <1>0, <2>2, <2>4
    <3>2. upto[a - 1] = Cardinality(Young(es, a - 1, O))
      BY <2>1, <3>1
    <3> QED
      BY <1>3, <2>1, <2>2, <2>4, <3>2
  <2> QED
    BY <2>3, <2>4
<1> QED
  BY <1>0, <1>6, <1>8

(* Of an ordered deque, what is inside the window is what _prune leaves.   *)
LEMMA YoungIsPruned ==
  ASSUME NEW es \in Seq(Event), Ordered(es), NEW O
  PROVE  Cardinality(Young(es, Window, O)) =
           Cardinality({i \in 1 .. Len(Prune(es)) : Prune(es)[i].outcome \in O})
<1> DEFINE ps == Prune(es)
           A == {i \in 1 .. Len(ps) : ps[i].outcome \in O}
           B == Young(es, Window, O)
<1>1. PICK n \in 0 .. Len(es) : /\ Len(ps) = Len(es) - n
                                /\ \A i \in 1 .. Len(es) - n : ps[i] = es[i + n]
                                /\ \A i \in 1 .. n : es[i].age > Window
                                /\ n < Len(es) => es[n + 1].age <= Window
  BY PruneIsSuffix
<1>2. /\ ps \in Seq(Event) /\ Len(es) \in Nat /\ n \in Nat /\ Window \in Nat
      /\ \A i \in 1 .. Len(es) : es[i].age \in Nat
  <2>1. ps \in Seq(Event)
    BY PruneIsSuffix
  <2>2. \A i \in 1 .. Len(es) : es[i].age \in Nat
    BY EventFields, ElementOfSeq
  <2> QED
    BY <2>1, <2>2, BackendAssumption
<1> HIDE DEF ps
<1>3. \A j \in n + 1 .. Len(es) : es[j].age <= Window
  <2> TAKE j \in n + 1 .. Len(es)
  <2>1. n + 1 \in 1 .. Len(es) /\ j \in 1 .. Len(es) /\ n + 1 <= j /\ n < Len(es)
    BY <1>2
  <2>2. es[n + 1].age >= es[j].age
    BY <2>1 DEF Ordered
  <2> QED
    BY <1>1, <1>2, <2>1, <2>2, SMTT(30)
<1>4. IsFiniteSet(A) /\ A \subseteq Int /\ B \subseteq Int
  BY <1>2, PlacesFinite DEF Young
<1>5. \A i \in A : i + n \in B
  <2> TAKE i \in A
  <2>1. /\ i \in 1 .. Len(es) - n /\ i + n \in n + 1 .. Len(es) /\ i + n \in 1 .. Len(es)
        /\ ps[i].outcome \in O
    BY <1>1, <1>2, SMTT(30)
  <2> QED
    BY <1>1, <1>3, <2>1 DEF Young
<1>6. \A j \in B : j - n \in A
  <2> TAKE j \in B
  <2>1. j \in 1 .. Len(es) /\ es[j].age <= Window /\ es[j].outcome \in O
    BY DEF Young
  <2>2. ~(j <= n)
    BY <1>1, <1>2, <2>1
  <2>3. j - n \in 1 .. Len(es) - n /\ (j - n) + n = j
    BY <1>2, <2>1, <2>2
  <2> QED
    BY <1>1, <2>1, <2>3
<1> HIDE DEF A, B
<1>7. Cardinality(B) = Cardinality(A)
  <2>1. n \in Int
    BY <1>2
  <2> QED
    BY <1>4, <1>5, <1>6, <2>1, ShiftCount, Zenon
<1> QED
  BY <1>7 DEF A, B, ps

(* So the contract's counts are the ones is_open and score work with.      *)
LEMMA WindowCounts ==
  ASSUME NEW b \in Backend, Ordered(b.events)
  PROVE  /\ Contract!Total([a \in 0 .. Window |-> Histogram(b)[a]["failure"]])
              = Failures(Prune(b.events))
         /\ Contract!Total([a \in 0 .. Window |-> Histogram(b)[a]["failure"]
                                                    + Histogram(b)[a]["success"]])
              = Len(Prune(b.events))
<1> DEFINE es == b.events
           ps == Prune(es)
           h == Histogram(b)
           fails == [a \in 0 .. Window |-> h[a]["failure"]]
           all == [a \in 0 .. Window |-> h[a]["failure"] + h[a]["success"]]
<1>1. es \in Seq(Event) /\ Ordered(es)
  BY DEF Backend
<1>2. \A a \in 0 .. Window : /\ h[a]["failure"] = Cardinality(At(es, a, "failure"))
                             /\ h[a]["success"] = Cardinality(At(es, a, "success"))
  BY HistogramAt DEF Outcome
<1>3. ps \in Seq(Event) /\ Len(ps) \in Nat
  BY <1>1, PruneIsSuffix, LenProperties
<1> HIDE DEF es, ps, h
<1>4. Contract!Total(fails) = Failures(ps)
  <2>1. \A a : At(es, a, "failure") = Aged(es, a, {"failure"})
    BY DEF At, Aged
  <2>2. \A a \in 0 .. Window : fails[a] = Cardinality(Aged(es, a, {"failure"}))
    BY <1>2, <2>1
  <2> HIDE DEF fails
  <2>3. Contract!Total(fails) = Cardinality(Young(es, Window, {"failure"}))
    BY <1>1, <2>2, TotalCounts
  <2>4. {i \in 1 .. Len(ps) : ps[i].outcome \in {"failure"}}
          = {i \in 1 .. Len(ps) : ps[i].outcome = "failure"}
    OBVIOUS
  <2>5. Cardinality(Young(es, Window, {"failure"}))
          = Cardinality({i \in 1 .. Len(ps) : ps[i].outcome \in {"failure"}})
    BY <1>1, YoungIsPruned DEF ps
  <2> QED
    BY <2>3, <2>4, <2>5 DEF Failures
<1>5. Contract!Total(all) = Len(ps)
  <2>1. ASSUME NEW a \in 0 .. Window
        PROVE  Cardinality(At(es, a, "failure")) + Cardinality(At(es, a, "success"))
                 = Cardinality(Aged(es, a, Outcome))
    <3> DEFINE F == At(es, a, "failure")
               S == At(es, a, "success")
    <3>1. F \cup S = Aged(es, a, Outcome) /\ F \cap S = {}
      BY DEF At, Aged, Outcome
    <3>2. F \subseteq 1 .. Len(es) /\ S \subseteq 1 .. Len(es)
      BY DEF At
    <3> HIDE DEF F, S
    <3>3. /\ IsFiniteSet(F) /\ Cardinality(F) \in Nat /\ IsFiniteSet(S) /\ Cardinality(S) \in Nat
          /\ Cardinality({}) = 0
      BY <1>1, <3>2, PlacesFinite, FS_EmptySet
    <3>4. Cardinality(F \cup S) = Cardinality(F) + Cardinality(S) - Cardinality(F \cap S)
      BY <3>3, FS_Union, Zenon
    <3>5. Cardinality(Aged(es, a, Outcome)) = Cardinality(F) + Cardinality(S) - 0
      BY <3>1, <3>3, <3>4, Zenon
    <3>6. Cardinality(Aged(es, a, Outcome)) = Cardinality(F) + Cardinality(S)
      BY <3>3, <3>5
    <3> QED
      BY <3>6 DEF F, S
  <2>2. \A a \in 0 .. Window : all[a] = Cardinality(Aged(es, a, Outcome))
    BY <1>2, <2>1
  <2> HIDE DEF all
  <2>3. Contract!Total(all) = Cardinality(Young(es, Window, Outcome))
    BY <1>1, <2>2, TotalCounts
  <2>4. {i \in 1 .. Len(ps) : ps[i].outcome \in Outcome} = 1 .. Len(ps)
    BY <1>3, EventFields, ElementOfSeq
  <2>5. Cardinality(Young(es, Window, Outcome))
          = Cardinality({i \in 1 .. Len(ps) : ps[i].outcome \in Outcome})
    BY <1>1, YoungIsPruned DEF ps
  <2>6. Cardinality(1 .. Len(ps)) = Len(ps)
    BY <1>3, FS_Interval, SMTT(30)
  <2> QED
    BY <2>3, <2>4, <2>5, <2>6
<1> QED
  BY <1>4, <1>5 DEF h, ps, es

(* A key that was never used counts nothing.                               *)
LEMMA FreshCounts == Histogram(FreshBackend) = Contract!Nothing
<1>1. FreshBackend.events = << >> /\ Len(<< >>) = 0
  BY DEF FreshBackend
<1>2. \A a, o : At(<< >>, a, o) = {}
  BY DEF At
<1>3. \A a, o : Cardinality(At(FreshBackend.events, a, o)) = 0
  BY <1>1, <1>2, FS_EmptySet, Zenon
<1>4. Histogram(FreshBackend) = [a \in 0 .. Window |-> [o \in Outcome |-> 0]]
  BY <1>3, HistogramAt
<1> QED
  BY <1>4 DEF Contract!Nothing, Contract!NoOutcome, Outcome

(* An operation on one pair changes what the contract sees of that pair    *)
(* only, because no other pair has its key.                                *)
LEMMA OnePairChanges ==
  ASSUME NEW Atoms, ColonFreeAgents(Atoms), Inv, NEW p \in Pairs, NEW b,
         backend' = [backend EXCEPT ![KeyOf(p)] = b]
  PROVE  /\ Recent' = [Recent EXCEPT ![p] = Histogram(b)]
         /\ Circuit' = [Circuit EXCEPT ![p] = CooldownLeft(b)]
<1>1. \A q \in Pairs : KeyOf(q) \in Keys
  BY DEF Keys
<1>2. backend \in [Keys -> Backend]
  BY DEF Inv, TypeOK
<1>3. \A q \in Pairs : backend'[KeyOf(q)] = IF q = p THEN b ELSE backend[KeyOf(q)]
  BY <1>1, <1>2, KeysDiffer
<1>4. Recent' = [Recent EXCEPT ![p] = Histogram(b)]
  <2>1. \A q \in Pairs : Histogram(backend'[KeyOf(q)])
                          = IF q = p THEN Histogram(b) ELSE Histogram(backend[KeyOf(q)])
    <3>1. ASSUME NEW q \in Pairs, q = p
          PROVE  Histogram(backend'[KeyOf(q)]) = Histogram(b)
      BY <1>3, <3>1
    <3>2. ASSUME NEW q \in Pairs, q # p
          PROVE  Histogram(backend'[KeyOf(q)]) = Histogram(backend[KeyOf(q)])
      BY <1>3, <3>2
    <3> QED
      BY <3>1, <3>2
  <2>2. Recent' = [q \in Pairs |-> Histogram(backend'[KeyOf(q)])]
    BY DEF Recent, Histogram
  <2>3. Recent = [q \in Pairs |-> Histogram(backend[KeyOf(q)])]
    BY DEF Recent
  <2> QED
    BY <2>1, <2>2, <2>3
<1>5. Circuit' = [Circuit EXCEPT ![p] = CooldownLeft(b)]
  <2>1. \A q \in Pairs : CooldownLeft(backend'[KeyOf(q)])
                          = IF q = p THEN CooldownLeft(b) ELSE CooldownLeft(backend[KeyOf(q)])
    <3>1. ASSUME NEW q \in Pairs, q = p
          PROVE  CooldownLeft(backend'[KeyOf(q)]) = CooldownLeft(b)
      BY <1>3, <3>1
    <3>2. ASSUME NEW q \in Pairs, q # p
          PROVE  CooldownLeft(backend'[KeyOf(q)]) = CooldownLeft(backend[KeyOf(q)])
      BY <1>3, <3>2
    <3> QED
      BY <3>1, <3>2
  <2>2. Circuit' = [q \in Pairs |-> CooldownLeft(backend'[KeyOf(q)])]
    BY DEF Circuit, CooldownLeft
  <2>3. Circuit = [q \in Pairs |-> CooldownLeft(backend[KeyOf(q)])]
    BY DEF Circuit
  <2> QED
    BY <2>1, <2>2, <2>3
<1> QED
  BY <1>4, <1>5

(* A pair trips in the contract when is_open finds too many failures.      *)
LEMMA SameVerdict ==
  ASSUME Inv, NEW p \in Pairs
  PROVE  /\ Contract!Failed(p) = Failures(Prune(backend[KeyOf(p)].events))
         /\ Contract!Samples(p) = Len(Prune(backend[KeyOf(p)].events))
         /\ Contract!Tripping(p) <=> TooManyFailures(Prune(backend[KeyOf(p)].events))
<1> DEFINE b == backend[KeyOf(p)]
<1>1. b \in Backend /\ Ordered(b.events)
  BY DEF Inv, TypeOK, Keys, OldestFirst, Ordered
<1>2. Recent[p] = Histogram(b)
  BY DEF Recent
<1> HIDE DEF b
<1>3. Contract!Failed(p) = Failures(Prune(b.events))
  BY <1>1, <1>2, WindowCounts DEF Contract!Failed
<1>4. Contract!Samples(p) = Len(Prune(b.events))
  BY <1>1, <1>2, WindowCounts DEF Contract!Samples
<1>5. Contract!Tripping(p) <=> TooManyFailures(Prune(b.events))
  BY <1>3, <1>4 DEF Contract!Tripping, TooManyFailures
<1> QED
  BY <1>3, <1>4, <1>5 DEF b

(* check is one of the contract's four answers.                            *)
LEMMA CheckRefines ==
  ASSUME NEW Atoms, ColonFreeAgents(Atoms), Inv, NEW p \in Pairs, check(p)
  PROVE  Contract!Next
<1> DEFINE b == backend[KeyOf(p)]
           c == AfterIsOpen(b)
           es == Prune(b.events)
<1>1. b \in Backend /\ b.tripped \in NotTripped .. Cooldown /\ Cooldown \in Nat
  BY BackendAssumption DEF Inv, TypeOK, Keys, Backend
<1>2. Recent[p] = Histogram(b) /\ Circuit[p] = CooldownLeft(b)
  BY DEF Recent, Circuit
<1>3. /\ Recent' = [Recent EXCEPT ![p] = Histogram(c)]
      /\ Circuit' = [Circuit EXCEPT ![p] = CooldownLeft(c)]
  <2>1. backend' = [backend EXCEPT ![KeyOf(p)] = c]
    BY DEF check
  <2> QED
    BY <2>1, OnePairChanges
<1>4. reply' = [pair |-> p, verdict |-> IF IsOpen(b) THEN "denied" ELSE "admitted",
                rate |-> <<0, 0>>]
  BY DEF check, Reply
<1>5. Contract!Tripping(p) <=> TooManyFailures(es)
  BY SameVerdict
<1>6. /\ Histogram(c) = Histogram(b) => Recent' = Recent
      /\ CooldownLeft(c) = CooldownLeft(b) => Circuit' = Circuit
  BY <1>2, <1>3 DEF Recent, Circuit
<1>7. CASE b.tripped # NotTripped /\ b.tripped < Cooldown
  <2>1. IsOpen(b) /\ c = b
    BY <1>7 DEF IsOpen, AfterIsOpen
  <2>2. Circuit[p] > 0
    BY <1>1, <1>2, <1>7 DEF CooldownLeft, NotTripped
  <2>3. Contract!Deny(p)
    BY <1>4, <1>6, <2>1, <2>2 DEF Contract!Deny, Contract!Says
  <2> QED
    BY <2>3 DEF Contract!Next
<1>8. CASE b.tripped # NotTripped /\ ~(b.tripped < Cooldown)
  <2>1. ~IsOpen(b) /\ c = FreshBackend
    BY <1>8 DEF IsOpen, AfterIsOpen
  <2>2. Circuit[p] = 0
    BY <1>1, <1>2, <1>8 DEF CooldownLeft, NotTripped
  <2>3. Histogram(c) = Contract!Nothing
    BY <2>1, FreshCounts
  <2>4. CooldownLeft(c) = Contract!Closed
    BY <2>1 DEF CooldownLeft, FreshBackend, NotTripped, Contract!Closed
  <2>5. Contract!Close(p)
    BY <1>3, <1>4, <2>1, <2>2, <2>3, <2>4 DEF Contract!Close, Contract!Says
  <2> QED
    BY <2>5 DEF Contract!Next
<1>9. CASE b.tripped = NotTripped
  <2>1. /\ IsOpen(b) <=> TooManyFailures(es)
        /\ c = [events |-> es, tripped |-> IF TooManyFailures(es) THEN 0 ELSE NotTripped]
    BY <1>9 DEF IsOpen, AfterIsOpen
  <2>2. Histogram(c) = Histogram(b)
    BY <1>1, <2>1, ScoreKeepsHistogram
  <2>3. Circuit[p] = Contract!Closed
    BY <1>2, <1>9 DEF CooldownLeft, NotTripped, Contract!Closed
  <2>4. CASE TooManyFailures(es)
    <3>1. CooldownLeft(c) = Cooldown
      BY <1>1, <2>1, <2>4 DEF CooldownLeft, NotTripped
    <3>2. Contract!Trip(p)
      BY <1>3, <1>4, <1>5, <1>6, <2>1, <2>2, <2>3, <2>4, <3>1 DEF Contract!Trip, Contract!Says
    <3> QED
      BY <3>2 DEF Contract!Next
  <2>5. CASE ~TooManyFailures(es)
    <3>1. CooldownLeft(c) = CooldownLeft(b)
      BY <1>9, <2>1, <2>5 DEF CooldownLeft
    <3>2. Contract!Admit(p)
      BY <1>4, <1>5, <1>6, <2>1, <2>2, <2>3, <2>5, <3>1 DEF Contract!Admit, Contract!Says
    <3> QED
      BY <3>2 DEF Contract!Next
  <2> QED
    BY <2>4, <2>5
<1> QED
  BY <1>7, <1>8, <1>9

(* score answers with the pair's own rate and changes no count.            *)
LEMMA ScoreRefines ==
  ASSUME NEW Atoms, ColonFreeAgents(Atoms), Inv, NEW p \in Pairs, score(p)
  PROVE  Contract!Score(p)
<1> DEFINE b == backend[KeyOf(p)]
           c == AfterScore(b)
<1>1. b \in Backend
  BY DEF Inv, TypeOK, Keys
<1>2. Recent[p] = Histogram(b) /\ Circuit[p] = CooldownLeft(b)
  BY DEF Recent, Circuit
<1>3. /\ Recent' = [Recent EXCEPT ![p] = Histogram(c)]
      /\ Circuit' = [Circuit EXCEPT ![p] = CooldownLeft(c)]
  <2>1. backend' = [backend EXCEPT ![KeyOf(p)] = c]
    BY DEF score
  <2> QED
    BY <2>1, OnePairChanges
<1>4. Histogram(c) = Histogram(b)
  BY <1>1, ScoreKeepsHistogram DEF AfterScore
<1>5. CooldownLeft(c) = CooldownLeft(b)
  BY DEF AfterScore, CooldownLeft
<1>6. Recent' = Recent /\ Circuit' = Circuit
  <2>1. Recent = [Recent EXCEPT ![p] = Recent[p]]
    BY DEF Recent
  <2>2. Circuit = [Circuit EXCEPT ![p] = Circuit[p]]
    BY DEF Circuit
  <2> HIDE DEF b, c
  <2> QED
    BY <1>2, <1>3, <1>4, <1>5, <2>1, <2>2
<1>7. reply' = [pair |-> p, verdict |-> "none",
                rate |-> <<Contract!Failed(p), Contract!Samples(p)>>]
  BY SameVerdict DEF score, Reply, Score
<1> QED
  BY <1>6, <1>7 DEF Contract!Score

(* record_result adds one outcome of age 0 to its pair.                    *)
LEMMA RecordRefines ==
  ASSUME NEW Atoms, ColonFreeAgents(Atoms), Inv, NEW p \in Pairs, NEW outcome \in Outcome,
         record_result(p, outcome)
  PROVE  Contract!Record(p, outcome)
<1> DEFINE b == backend[KeyOf(p)]
           c == AfterRecord(b, outcome)
<1>1. b \in Backend
  BY DEF Inv, TypeOK, Keys
<1>2. Recent[p] = Histogram(b) /\ Circuit[p] = CooldownLeft(b)
  BY DEF Recent, Circuit
<1>3. /\ Recent' = [Recent EXCEPT ![p] = Histogram(c)]
      /\ Circuit' = [Circuit EXCEPT ![p] = CooldownLeft(c)]
  <2>1. backend' = [backend EXCEPT ![KeyOf(p)] = c]
    BY DEF record_result
  <2> QED
    BY <2>1, OnePairChanges
<1>4. Histogram(c) = [Histogram(b) EXCEPT ![0][outcome] = @ + 1]
  BY <1>1, RecordCounts
<1>5. CooldownLeft(c) = CooldownLeft(b)
  BY DEF AfterRecord, CooldownLeft
<1>6. Circuit' = Circuit
  <2>1. Circuit = [Circuit EXCEPT ![p] = Circuit[p]]
    BY DEF Circuit
  <2> HIDE DEF b, c
  <2> QED
    BY <1>2, <1>3, <1>5, <2>1
<1>7. Recent' = [Recent EXCEPT ![p][0][outcome] = @ + 1]
  <2> HIDE DEF b, c
  <2>1. Recent' = [Recent EXCEPT ![p] = [Recent[p] EXCEPT ![0][outcome] = @ + 1]]
    BY <1>2, <1>3, <1>4
  <2> QED
    BY <2>1
<1>8. reply' = Contract!Silence
  BY DEF record_result, Silence, Reply, Contract!Silence
<1> QED
  BY <1>6, <1>7, <1>8 DEF Contract!Record

(* A tick ages every count and runs every cooldown down by one.            *)
LEMMA TickRefines ==
  ASSUME Inv, Tick
  PROVE  Contract!Tick
<1>1. \A p \in Pairs : KeyOf(p) \in Keys /\ backend[KeyOf(p)] \in Backend
  BY DEF Inv, TypeOK, Keys
<1>2. \A p \in Pairs : backend'[KeyOf(p)] = Elapse(backend[KeyOf(p)])
  BY <1>1 DEF Tick
<1>3. Recent' = [p \in Pairs |-> [a \in 0 .. Window |->
                   IF a = 0 THEN Contract!NoOutcome ELSE Recent[p][a - 1]]]
  <2>1. ASSUME NEW p \in Pairs
        PROVE  Histogram(backend'[KeyOf(p)]) =
                 [a \in 0 .. Window |-> IF a = 0 THEN Contract!NoOutcome ELSE Recent[p][a - 1]]
    <3> DEFINE b == backend[KeyOf(p)]
    <3>1. b \in Backend /\ backend'[KeyOf(p)] = Elapse(b)
      BY <1>1, <1>2
    <3>2. Recent[p] = Histogram(b)
      BY DEF Recent
    <3>3. Contract!NoOutcome = [o \in Outcome |-> 0]
      BY DEF Contract!NoOutcome, Outcome
    <3> HIDE DEF b
    <3> QED
      BY <3>1, <3>2, <3>3, ElapseCounts
  <2>2. Recent' = [p \in Pairs |-> Histogram(backend'[KeyOf(p)])]
    BY DEF Recent, Histogram
  <2> QED
    BY <2>1, <2>2
<1>4. Circuit' = [p \in Pairs |-> IF Circuit[p] > 0 THEN Circuit[p] - 1 ELSE Circuit[p]]
  <2>1. ASSUME NEW p \in Pairs
        PROVE  CooldownLeft(backend'[KeyOf(p)]) =
                 IF Circuit[p] > 0 THEN Circuit[p] - 1 ELSE Circuit[p]
    <3> DEFINE b == backend[KeyOf(p)]
    <3>1. /\ backend'[KeyOf(p)] = Elapse(b)
          /\ b.tripped \in NotTripped .. Cooldown /\ Cooldown \in Nat
      BY <1>1, <1>2, BackendAssumption DEF Backend
    <3>2. Circuit[p] = CooldownLeft(b)
      BY DEF Circuit
    <3> HIDE DEF b
    <3>3. Elapse(b).tripped = IF b.tripped = NotTripped \/ b.tripped = Cooldown
                              THEN b.tripped ELSE b.tripped + 1
      BY DEF Elapse
    <3>4. CooldownLeft(Elapse(b)) =
            IF CooldownLeft(b) > 0 THEN CooldownLeft(b) - 1 ELSE CooldownLeft(b)
      BY <3>1, <3>3 DEF CooldownLeft, NotTripped
    <3> QED
      BY <3>1, <3>2, <3>4
  <2>2. Circuit' = [p \in Pairs |-> CooldownLeft(backend'[KeyOf(p)])]
    BY DEF Circuit, CooldownLeft
  <2> QED
    BY <2>1, <2>2
<1>5. reply' = Contract!Silence
  BY DEF Tick, Silence, Reply, Contract!Silence
<1> QED
  BY <1>3, <1>4, <1>5 DEF Contract!Tick

(* A new breaker is a new contract.                                        *)
LEMMA ContractInit == Init => Contract!Init
<1> SUFFICES ASSUME Init PROVE Contract!Init
  OBVIOUS
<1>1. \A p \in Pairs : backend[KeyOf(p)] = FreshBackend
  BY DEF Init, Keys
<1>2. \A p \in Pairs : Histogram(backend[KeyOf(p)]) = Contract!Nothing
  BY <1>1, FreshCounts
<1>3. CooldownLeft(FreshBackend) = Contract!Closed
  BY DEF CooldownLeft, FreshBackend, NotTripped, Contract!Closed
<1>4. Recent = [p \in Pairs |-> Contract!Nothing]
  BY <1>2 DEF Recent
<1>5. Circuit = [p \in Pairs |-> Contract!Closed]
  BY <1>1, <1>3 DEF Circuit
<1>6. reply = Contract!Silence
  BY DEF Init, Silence, Reply, Contract!Silence
<1> QED
  BY <1>4, <1>5, <1>6 DEF Contract!Init

(* Every step of the breaker is a step of the contract, or changes nothing *)
(* the contract speaks of.                                                 *)
LEMMA ContractStep ==
  ASSUME NEW Atoms, ColonFreeAgents(Atoms)
  PROVE  Inv /\ [Next]_vars => [Contract!Next]_(Contract!vars)
<1> SUFFICES ASSUME Inv, [Next]_vars
             PROVE  Contract!Next \/ UNCHANGED Contract!vars
  OBVIOUS
<1>1. ASSUME NEW p \in Pairs, check(p) PROVE Contract!Next
  BY <1>1, CheckRefines
<1>2. ASSUME NEW p \in Pairs, score(p) PROVE Contract!Next
  BY <1>2, ScoreRefines DEF Contract!Next
<1>3. ASSUME NEW p \in Pairs, NEW outcome \in Outcome, record_result(p, outcome)
      PROVE  Contract!Next
  BY <1>3, RecordRefines DEF Contract!Next, Outcome
<1>4. ASSUME Tick PROVE Contract!Next
  BY <1>4, TickRefines DEF Contract!Next
<1>5. CASE UNCHANGED vars
  <2>1. Recent' = Recent
    BY <1>5 DEF vars, Recent, Histogram
  <2>2. Circuit' = Circuit
    BY <1>5 DEF vars, Circuit, CooldownLeft
  <2>3. reply' = reply
    BY <1>5 DEF vars
  <2> QED
    BY <2>1, <2>2, <2>3 DEF Contract!vars
<1> QED
  BY <1>1, <1>2, <1>3, <1>4, <1>5 DEF Next

(* The breaker implements the contract for every window, cooldown and      *)
(* threshold and every set of pairs whose agents hold no colon: neither    *)
(* lazy pruning nor the string keys ever change an answer.                 *)
THEOREM BreakerKeepsContract ==
  ASSUME NEW Atoms, ColonFreeAgents(Atoms)
  PROVE  Spec => PairsKeepContract
<1>1. Init => Contract!Init
  BY ContractInit
<1>2. Inv /\ [Next]_vars => [Contract!Next]_(Contract!vars)
  BY ContractStep
<1> QED
  BY <1>1, <1>2, InvInit, InvStep, PTL DEF Spec, PairsKeepContract, Contract!Spec
=============================================================================
