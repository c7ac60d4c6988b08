------------------------ MODULE InMemoryBackendProofs ------------------------
(***************************************************************************)
(* What the coroutines of the in-memory backend preserve, for every window,*)
(* cooldown, threshold and history.                                        *)
(***************************************************************************)
EXTENDS InMemoryBackend, TLAPS, WellFoundedInduction, SequenceTheorems

(* The popleft loop relies on it: the deque runs from old to new.          *)
Ordered(es) == \A i, j \in 1 .. Len(es) : i <= j => es[i].age >= es[j].age

(* Every non-empty set of naturals has a least element, so the CHOOSE of   *)
(* one is in the set and below all others:                                 *)
(* _prune stops at the first event inside the window.                      *)
LEMMA LeastExists ==
  ASSUME NEW S, S \subseteq Nat, S # {}
  PROVE  \E i \in S : \A j \in S : i <= j
<1>1. \A i, j \in Nat : <<j, i>> \notin OpToRel(<, Nat) => i <= j
  BY DEF OpToRel
<1> QED
  BY <1>1, NatLessThanWellFounded, WFMin

(* The fields of an event have their types.                                *)
LEMMA EventFields ==
  ASSUME NEW e \in Event
  PROVE  e.age \in 0 .. Window + 1 /\ e.age \in Nat /\ e.outcome \in Outcome
  BY BackendAssumption DEF Event

(* _prune returns a suffix of the deque: the same events in the same order,*)
(* shifted to the front, and all of them inside the window if the deque    *)
(* was ordered.                                                            *)
LEMMA PruneIsSuffix ==
  ASSUME NEW es \in Seq(Event)
  PROVE  /\ Prune(es) \in Seq(Event)
         /\ \E n \in 0 .. Len(es) :
              /\ Len(Prune(es)) = Len(es) - n
              /\ \A i \in 1 .. Len(es) - n : Prune(es)[i] = es[i + n]
              /\ \A i \in 1 .. n : es[i].age > Window
              /\ n < Len(es) => es[n + 1].age <= Window
<1> DEFINE fresh == {i \in 1 .. Len(es) : es[i].age <= Window}
           first == CHOOSE i \in fresh : \A j \in fresh : i <= j
<1>0. /\ Len(es) \in Nat /\ Window \in Nat
      /\ \A i \in 1 .. Len(es) : es[i] \in Event /\ es[i].age \in Nat
  BY BackendAssumption, EventFields, ElementOfSeq
<1>1. CASE fresh = {}
  <2>1. Prune(es) = << >>
    BY <1>1 DEF Prune
  <2>2. \A i \in 1 .. Len(es) : es[i].age > Window
    BY <1>0, <1>1
  <2>3. Len(es) \in 0 .. Len(es) /\ Len(es) - Len(es) = 0
    BY <1>0
  <2> QED
    BY <2>1, <2>2, <2>3
<1>2. CASE fresh # {}
  <2>1. first \in fresh /\ \A j \in fresh : first <= j
    <3>1. fresh \subseteq Nat
      BY <1>0
    <3>2. \E i \in fresh : \A j \in fresh : i <= j
      BY <1>2, <3>1, LeastExists
    <3> QED
      BY <3>2
  <2>2. Prune(es) = SubSeq(es, first, Len(es))
    BY <1>2 DEF Prune
  <2> HIDE DEF first
  <2>3. first \in 1 .. Len(es) /\ es[first].age <= Window
    BY <2>1
  <2>4. \A i \in 1 .. first - 1 : es[i].age > Window
    BY <1>0, <2>1, <2>3
  <2>5. /\ Prune(es) \in Seq(Event)
        /\ Len(Prune(es)) = Len(es) - (first - 1)
        /\ \A i \in 1 .. Len(es) - (first - 1) : Prune(es)[i] = es[i + (first - 1)]
    <3>1. \A i \in first .. Len(es) : es[i] \in Event
      BY <1>0, <2>3
    <3>2. /\ SubSeq(es, first, Len(es)) \in Seq(Event)
          /\ Len(SubSeq(es, first, Len(es))) = Len(es) - first + 1
          /\ \A i \in 1 .. Len(es) - first + 1 :
               SubSeq(es, first, Len(es))[i] = es[first + i - 1]
      BY <1>0, <2>3, <3>1, SubSeqProperties
    <3> QED
      BY <1>0, <2>2, <2>3, <3>2
  <2>6. first - 1 \in 0 .. Len(es) /\ (first - 1) + 1 = first
    BY <1>0, <2>3
  <2> QED
    BY <2>3, <2>4, <2>5, <2>6
<1> QED
  BY <1>1, <1>2

(* What the popleft loop leaves of an ordered deque is ordered.            *)
LEMMA PruneKeepsOrder ==
  ASSUME NEW es \in Seq(Event), Ordered(es)
  PROVE  Ordered(Prune(es))
<1>1. PICK n \in 0 .. Len(es) : /\ Len(Prune(es)) = Len(es) - n
                                /\ \A i \in 1 .. Len(es) - n : Prune(es)[i] = es[i + n]
  BY PruneIsSuffix
<1>2. Len(es) \in Nat
  OBVIOUS
<1> QED
  BY <1>1, <1>2, SMTT(30) DEF Ordered

-----------------------------------------------------------------------------
(* The state of a key that was never used is well typed and ordered.       *)
LEMMA FreshBackendType == FreshBackend \in Backend /\ Ordered(FreshBackend.events)
<1>1. << >> \in Seq(Event) /\ NotTripped \in NotTripped .. Cooldown
  BY BackendAssumption DEF NotTripped
<1> QED
  BY <1>1 DEF FreshBackend, Backend, Ordered

(* Recording an outcome keeps the deque well-formed and ordered.           *)
LEMMA AfterRecordKeeps ==
  ASSUME NEW b \in Backend, NEW outcome \in Outcome
  PROVE  /\ AfterRecord(b, outcome) \in Backend
         /\ Ordered(b.events) => Ordered(AfterRecord(b, outcome).events)
<1> DEFINE p == Prune(b.events)
           e == [age |-> 0, outcome |-> outcome]
<1>1. b.events \in Seq(Event) /\ p \in Seq(Event)
  BY PruneIsSuffix DEF Backend
<1>2. e \in Event /\ e.age = 0
  BY BackendAssumption DEF Event
<1>3. AfterRecord(b, outcome).events = Append(p, e)
  BY DEF AfterRecord, Backend
<1>4. AfterRecord(b, outcome) \in Backend
  <2>1. Append(p, e) \in Seq(Event) /\ b.tripped \in NotTripped .. Cooldown
    BY <1>1, <1>2, AppendProperties DEF Backend
  <2> QED
    BY <2>1 DEF AfterRecord, Backend
<1>5. ASSUME Ordered(b.events) PROVE Ordered(Append(p, e))
  <2>1. Ordered(p)
    BY <1>1, <1>5, PruneKeepsOrder
  <2> HIDE DEF p, e
  <2>2. /\ Len(Append(p, e)) = Len(p) + 1 /\ Append(p, e)[Len(p) + 1] = e
        /\ \A i \in 1 .. Len(p) : Append(p, e)[i] = p[i] /\ p[i].age >= 0
    <3>1. \A i \in 1 .. Len(p) : p[i].age >= 0
      BY <1>1, ElementOfSeq, EventFields
    <3> QED
      BY <1>1, <1>2, <3>1, AppendProperties
  <2>3. Len(p) \in Nat
    BY <1>1
  <2> SUFFICES ASSUME NEW i \in 1 .. Len(p) + 1, NEW j \in 1 .. Len(p) + 1, i <= j
               PROVE  Append(p, e)[i].age >= Append(p, e)[j].age
    BY <2>2 DEF Ordered
  <2>4. CASE j \in 1 .. Len(p)
    BY <2>1, <2>2, <2>3, <2>4 DEF Ordered
  <2>5. CASE j = Len(p) + 1
    BY <1>2, <2>2, <2>3, <2>5
  <2> QED
    BY <2>3, <2>4, <2>5
<1> QED
  BY <1>3, <1>4, <1>5

(* score only prunes.                                                      *)
LEMMA AfterScoreKeeps ==
  ASSUME NEW b \in Backend
  PROVE  /\ AfterScore(b) \in Backend
         /\ Ordered(b.events) => Ordered(AfterScore(b).events)
<1>1. /\ b.events \in Seq(Event) /\ Prune(b.events) \in Seq(Event)
      /\ b.tripped \in NotTripped .. Cooldown
  BY PruneIsSuffix DEF Backend
<1>2. AfterScore(b).events = Prune(b.events)
  BY DEF AfterScore
<1> QED
  BY <1>1, <1>2, PruneKeepsOrder DEF AfterScore, Backend

(* is_open prunes, trips, closes or leaves the state alone.                *)
LEMMA AfterIsOpenKeeps ==
  ASSUME NEW b \in Backend
  PROVE  /\ AfterIsOpen(b) \in Backend
         /\ Ordered(b.events) => Ordered(AfterIsOpen(b).events)
<1>1. /\ b.events \in Seq(Event) /\ Prune(b.events) \in Seq(Event)
      /\ b.tripped \in NotTripped .. Cooldown
  BY PruneIsSuffix DEF Backend
<1>2. CASE b.tripped # NotTripped
  <2>1. AfterIsOpen(b) = b \/ AfterIsOpen(b) = FreshBackend
    BY <1>2 DEF AfterIsOpen
  <2> QED
    BY <2>1, FreshBackendType
<1>3. CASE b.tripped = NotTripped
  <2> DEFINE t == IF TooManyFailures(Prune(b.events)) THEN 0 ELSE NotTripped
  <2>1. t \in NotTripped .. Cooldown
    BY BackendAssumption DEF NotTripped
  <2> HIDE DEF t
  <2>2. AfterIsOpen(b) = [events |-> Prune(b.events), tripped |-> t]
    BY <1>3 DEF AfterIsOpen, t
  <2>3. AfterIsOpen(b).events = Prune(b.events)
    BY <2>2
  <2> QED
    BY <1>1, <2>1, <2>2, <2>3, PruneKeepsOrder DEF Backend
<1> QED
  BY <1>2, <1>3

(* Time passes for all events alike.                                       *)
LEMMA ElapseKeeps ==
  ASSUME NEW b \in Backend
  PROVE  /\ Elapse(b) \in Backend
         /\ Ordered(b.events) => Ordered(Elapse(b).events)
<1>0. /\ b.events \in Seq(Event) /\ Len(b.events) \in Nat
      /\ b.tripped \in NotTripped .. Cooldown
      /\ Window \in Nat /\ Cooldown \in Nat
  BY BackendAssumption DEF Backend
<1>1. \A e \in Event : Older(e) \in Event
  BY EventFields, BackendAssumption DEF Older, Event
<1>2. \A e, f \in Event : e.age >= f.age => Older(e).age >= Older(f).age
  BY EventFields, BackendAssumption DEF Older
<1> DEFINE es == [i \in 1 .. Len(b.events) |-> Older(b.events[i])]
<1>3. es \in Seq(Event) /\ Len(es) = Len(b.events)
  <2>1. \A i \in 1 .. Len(b.events) : Older(b.events[i]) \in Event
    BY <1>0, <1>1, ElementOfSeq
  <2> QED
    BY <1>0, <2>1
<1>4. ASSUME Ordered(b.events) PROVE Ordered(es)
  BY <1>0, <1>2, <1>3, <1>4, ElementOfSeq DEF Ordered
<1>5. Elapse(b).events = es
  BY DEF Elapse
<1> DEFINE t == IF b.tripped = NotTripped \/ b.tripped = Cooldown
                THEN b.tripped ELSE b.tripped + 1
<1>6. t \in NotTripped .. Cooldown
  BY <1>0 DEF NotTripped
<1>7. Elapse(b) = [events |-> es, tripped |-> t]
  BY DEF Elapse
<1> HIDE DEF es, t
<1>8. Elapse(b) \in Backend
  BY <1>3, <1>6, <1>7 DEF Backend
<1> QED
  BY <1>4, <1>5, <1>8
=============================================================================
