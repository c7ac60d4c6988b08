-------------------------- MODULE RedisBreakerProofs --------------------------
(***************************************************************************)
(* Proofs about RedisBreaker, for any clients, window, cooldown, threshold *)
(* and delays.                                                             *)
(***************************************************************************)
EXTENDS RedisBreaker, FiniteSetTheorems, FunctionTheorems, TLAPS

PCs == {"idle", "prune", "zrange", "setex", "running", "zadd", "trim", "expire"}

(* The bounds of the model are naturals.                                   *)
LEMMA Bounds ==
  /\ Window \in Nat /\ Window > 0 /\ MaxLag \in Nat /\ Cooldown \in Nat /\ Cooldown > 0
  /\ OldAge = Window + MaxLag /\ OldAge \in Nat
  /\ OldEvidence = Window + 3 * MaxLag + 1 /\ OldEvidence \in Nat
  /\ MinSamples \in Nat
  BY RedisAssumption DEF OldAge, OldEvidence

(* An empty sorted set is one.                                             *)
LEMMA NoEventsType == NoEvents \in [Ages -> [Outcome -> Nat]]
BY DEF NoEvents

(* The sorted set after pruning: it has nothing that was not there, and    *)
(* nothing as old as the cutoff.                                           *)
LEMMA Pruned ==
  ASSUME TypeOK, NEW late \in 0 .. MaxLag, zremrangebyscore(late)
  PROVE  /\ events' \in [Ages -> [Outcome -> Nat]]
         /\ lifetime' \in {NoExpiry} \cup 1 .. 2 * Window
         /\ \A a \in Ages : \A o \in Outcome : events'[a][o] > 0 =>
              events[a][o] > 0 /\ a < Window + late
<1> USE Bounds
<1>1. events \in [Ages -> [Outcome -> Nat]] /\ lifetime \in {NoExpiry} \cup 1 .. 2 * Window
  BY DEF TypeOK
<1> DEFINE kept == [a \in Ages |-> IF a >= Window + late THEN NoEvents[a] ELSE events[a]]
<1>2. events' = kept /\ lifetime' = IF kept = NoEvents THEN NoExpiry ELSE lifetime
  BY DEF zremrangebyscore
<1>3. \A a \in Ages : NoEvents[a] \in [Outcome -> Nat]
  BY NoEventsType
<1>4. kept \in [Ages -> [Outcome -> Nat]]
  BY <1>1, <1>3
<1>5. ASSUME NEW a \in Ages, NEW o \in Outcome, kept[a][o] > 0
      PROVE  events[a][o] > 0 /\ a < Window + late
  <2>1. NoEvents[a][o] = 0
    BY DEF NoEvents
  <2>2. a \in Nat
    BY DEF Ages
  <2> QED
    BY <1>5, <2>1, <2>2
<1> HIDE DEF kept
<1> QED
  BY <1>1, <1>2, <1>4, <1>5

(* One more member of one age and outcome.                                 *)
LEMMA Added ==
  ASSUME TypeOK, NEW late \in Ages, NEW o \in Outcome,
         events' = [events EXCEPT ![late][o] = @ + 1]
  PROVE  /\ events' \in [Ages -> [Outcome -> Nat]]
         /\ \A a \in Ages : \A q \in Outcome :
              events'[a][q] > 0 => events[a][q] > 0 \/ (a = late /\ q = o)
<1>1. events \in [Ages -> [Outcome -> Nat]]
  BY DEF TypeOK
<1> DEFINE cell == [events[late] EXCEPT ![o] = @ + 1]
<1>2. cell \in [Outcome -> Nat] /\ \A q \in Outcome : q # o => cell[q] = events[late][q]
  BY <1>1
<1>3. events' = [events EXCEPT ![late] = cell]
  OBVIOUS
<1> HIDE DEF cell
<1>4. events' \in [Ages -> [Outcome -> Nat]]
  BY <1>1, <1>2, <1>3
<1>5. \A a \in Ages : events'[a] = IF a = late THEN cell ELSE events[a]
  BY <1>1, <1>3
<1> QED
  BY <1>2, <1>4, <1>5

(* A tick moves every member to the next age.                              *)
LEMMA AgedCells ==
  ASSUME TypeOK
  PROVE  /\ Aged(events) \in [Ages -> [Outcome -> Nat]]
         /\ \A a \in Ages : \A o \in Outcome : a < OldAge /\ Aged(events)[a][o] > 0 =>
              a - 1 \in Ages /\ events[a - 1][o] > 0
         /\ \A a \in Ages : \A o \in Outcome : Aged(events)[a][o] > 0 =>
              \E b \in Ages : events[b][o] > 0
<1> USE Bounds
<1>1. events \in [Ages -> [Outcome -> Nat]]
  BY DEF TypeOK
<1>2. ASSUME NEW a \in Ages, NEW o \in Outcome
      PROVE  /\ Aged(events)[a][o] = (IF a = 0 THEN 0 ELSE events[a - 1][o])
                                       + (IF a = OldAge THEN events[a][o] ELSE 0)
             /\ a # 0 => a - 1 \in Ages /\ events[a - 1][o] \in Nat
             /\ events[a][o] \in Nat /\ a \in Nat
  BY <1>1 DEF Aged, Ages
<1>3. Aged(events) \in [Ages -> [Outcome -> Nat]]
  <2>1. \A a \in Ages : \A o \in Outcome :
          (IF a = 0 THEN 0 ELSE events[a - 1][o])
            + (IF a = OldAge THEN events[a][o] ELSE 0) \in Nat
    BY <1>2
  <2> QED
    BY <2>1 DEF Aged
<1>4. ASSUME NEW a \in Ages, NEW o \in Outcome, a < OldAge, Aged(events)[a][o] > 0
      PROVE  a - 1 \in Ages /\ events[a - 1][o] > 0
  BY <1>2, <1>4
<1>5. ASSUME NEW a \in Ages, NEW o \in Outcome, Aged(events)[a][o] > 0
      PROVE  \E b \in Ages : events[b][o] > 0
  <2>1. CASE a = 0
    BY <1>2, <1>5, <2>1
  <2>2. CASE a # 0 /\ events[a - 1][o] > 0
    BY <1>2, <2>2
  <2>3. CASE a # 0 /\ ~(events[a - 1][o] > 0)
    BY <1>2, <1>5, <2>3
  <2> QED
    BY <2>1, <2>2, <2>3
<1> QED
  BY <1>3, <1>4, <1>5

-----------------------------------------------------------------------------
(* Every command and every tick keeps the types.                           *)
LEMMA TypeStep == TypeOK /\ [Next]_vars => TypeOK'
<1> SUFFICES ASSUME TypeOK, [Next]_vars PROVE TypeOK'
  OBVIOUS
<1> USE Bounds
<1>0. /\ events \in [Ages -> [Outcome -> Nat]]
      /\ lifetime \in {NoExpiry} \cup 1 .. 2 * Window
      /\ tripped \in 0 .. Cooldown
      /\ pc \in [Clients -> PCs]
      /\ lag \in [Clients -> 0 .. MaxLag]
      /\ outcome \in [Clients -> Outcome]
      /\ evidence \in 0 .. OldEvidence
      /\ since \in 0 .. MinSamples
  BY DEF TypeOK, PCs
<1>s. ASSUME NEW c \in Clients, NEW command \in PCs, Sends(c, command)
      PROVE  pc' \in [Clients -> PCs] /\ lag' \in [Clients -> 0 .. MaxLag]
  BY <1>0, <1>s DEF Sends
<1>p. /\ "idle" \in PCs /\ "prune" \in PCs /\ "zrange" \in PCs /\ "setex" \in PCs
      /\ "running" \in PCs /\ "zadd" \in PCs /\ "trim" \in PCs /\ "expire" \in PCs
  BY DEF PCs
<1>1. ASSUME NEW c \in Clients, Ttl(c) PROVE TypeOK'
  BY <1>0, <1>1, <1>p, <1>s DEF Ttl, history, TypeOK, PCs
<1>2. ASSUME NEW c \in Clients, Prune(c) PROVE TypeOK'
  <2>1. PICK late \in 0 .. lag[c] : zremrangebyscore(late)
    BY <1>2 DEF Prune
  <2>2. late \in 0 .. MaxLag
    BY <1>0
  <2>3. /\ events' \in [Ages -> [Outcome -> Nat]]
        /\ lifetime' \in {NoExpiry} \cup 1 .. 2 * Window
    BY <2>1, <2>2, Pruned
  <2> QED
    BY <1>0, <1>2, <1>p, <1>s, <2>3 DEF Prune, history, TypeOK, PCs
<1>3. ASSUME NEW c \in Clients, Zrange(c) PROVE TypeOK'
  <2>1. (IF TooManyFailures(events) THEN "setex" ELSE "running") \in PCs
    BY <1>p
  <2>2. pc' \in [Clients -> PCs] /\ lag' \in [Clients -> 0 .. MaxLag]
    BY <1>3, <1>s, <2>1 DEF Zrange
  <2> QED
    BY <1>0, <1>3, <2>2 DEF Zrange, history, TypeOK, PCs
<1>4. ASSUME NEW c \in Clients, Setex(c) PROVE TypeOK'
  BY <1>0, <1>4, <1>p, <1>s DEF Setex, TypeOK, PCs
<1>5. ASSUME NEW c \in Clients, NEW o \in Outcome, Ends(c, o) PROVE TypeOK'
  BY <1>0, <1>5, <1>p, <1>s DEF Ends, history, TypeOK, PCs
<1>6. ASSUME NEW c \in Clients, NEW late \in 0 .. MaxLag, NEW same \in BOOLEAN,
             Zadd(c, late, same)
      PROVE  TypeOK'
  <2>1. events' \in [Ages -> [Outcome -> Nat]]
    <3>1. late \in Ages /\ outcome[c] \in Outcome
      BY <1>0 DEF Ages
    <3>2. CASE same
      BY <1>0, <1>6, <3>2 DEF Zadd
    <3>3. CASE ~same
      BY <1>6, <3>1, <3>3, Added DEF Zadd
    <3> QED
      BY <3>2, <3>3
  <2>2. evidence' \in 0 .. OldEvidence
    BY <1>0, <1>6 DEF Zadd, Smaller
  <2>3. since' \in 0 .. MinSamples
    BY <1>0, <1>6 DEF Zadd, Smaller
  <2>4. pc' \in [Clients -> PCs] /\ lag' \in [Clients -> 0 .. MaxLag]
    BY <1>6, <1>p, <1>s DEF Zadd
  <2> QED
    BY <1>0, <1>6, <2>1, <2>2, <2>3, <2>4 DEF Zadd, TypeOK, PCs
<1>7. ASSUME NEW c \in Clients, Trim(c) PROVE TypeOK'
  <2>1. PICK late \in 0 .. lag[c] : zremrangebyscore(late)
    BY <1>7 DEF Trim
  <2>2. late \in 0 .. MaxLag
    BY <1>0
  <2>3. /\ events' \in [Ages -> [Outcome -> Nat]]
        /\ lifetime' \in {NoExpiry} \cup 1 .. 2 * Window
    BY <2>1, <2>2, Pruned
  <2> QED
    BY <1>0, <1>7, <1>p, <1>s, <2>3 DEF Trim, history, TypeOK, PCs
<1>8. ASSUME NEW c \in Clients, Expire(c) PROVE TypeOK'
  BY <1>0, <1>8, <1>p, <1>s DEF Expire, history, TypeOK, PCs
<1>9. ASSUME NEW c \in Clients, score(c) PROVE TypeOK'
  <2>1. PICK late \in 0 .. MaxLag : zremrangebyscore(late)
    BY <1>9 DEF score
  <2>2. /\ events' \in [Ages -> [Outcome -> Nat]]
        /\ lifetime' \in {NoExpiry} \cup 1 .. 2 * Window
    BY <2>1, Pruned
  <2> QED
    BY <1>0, <1>9, <2>2 DEF score, history, TypeOK, PCs
<1>10. ASSUME NEW c \in Clients, Crash(c) PROVE TypeOK'
  BY <1>0, <1>10, <1>p, <1>s DEF Crash, history, TypeOK, PCs
<1>11. ASSUME Tick PROVE TypeOK'
  <2>1. events' \in [Ages -> [Outcome -> Nat]]
    BY <1>11, AgedCells, NoEventsType DEF Tick
  <2>2. lifetime' \in {NoExpiry} \cup 1 .. 2 * Window /\ tripped' \in 0 .. Cooldown
    BY <1>0, <1>11 DEF Tick
  <2>3. lag' \in [Clients -> 0 .. MaxLag]
    <3>1. \A c \in Clients : Waiting(c) => lag[c] + 1 \in 0 .. MaxLag
      BY <1>0, <1>11 DEF Tick
    <3> QED
      BY <1>11, <3>1 DEF Tick
  <2>4. evidence' \in 0 .. OldEvidence
    BY <1>0, <1>11 DEF Tick, Smaller
  <2> QED
    BY <1>0, <1>11, <2>1, <2>2, <2>3, <2>4 DEF Tick, TypeOK, PCs
<1>12. CASE UNCHANGED vars
  BY <1>0, <1>12 DEF vars, TypeOK, PCs
<1>13. ASSUME NEW c \in Clients, Client(c) PROVE TypeOK'
  BY <1>1, <1>2, <1>3, <1>4, <1>5, <1>6, <1>7, <1>8, <1>13 DEF Client, Record
<1>14. ASSUME NEW c \in Clients, TtlOpen(c) PROVE TypeOK'
  BY <1>12, <1>14 DEF TtlOpen
<1> QED
  BY <1>9, <1>10, <1>11, <1>12, <1>13, <1>14 DEF Next

(* A fresh key has the types.                                              *)
LEMMA TypeInit == Init => TypeOK
BY NoEventsType, Bounds DEF Init, TypeOK, Outcome

(* Type correctness: whatever the clients interleave and wherever they     *)
(* die, the events key never outlives twice the window, nor the tripped    *)
(* key the cooldown.                                                       *)
THEOREM TypeCorrect == Spec => []TypeOK
BY TypeInit, TypeStep, PTL DEF Spec

-----------------------------------------------------------------------------
(* Trips rest on fresh failures.                                           *)

(* With a threshold above zero, too many failures are at least one.        *)
LEMMA TripNeedsFailure ==
  ASSUME ThresholdNum # 0, TypeOK, TooManyFailures(events)
  PROVE  \E a \in Ages : events[a]["failure"] > 0
<1> SUFFICES ASSUME \A a \in Ages : ~(events[a]["failure"] > 0) PROVE FALSE
  OBVIOUS
<1>1. \A a \in Ages : events[a]["failure"] = 0
  BY DEF TypeOK, Outcome
<1>2. Members(events, {"failure"}) = {}
  <2> SUFFICES ASSUME NEW cell \in Ages \X {"failure"}
               PROVE  {cell} \X (1 .. events[cell[1]][cell[2]]) = {}
    BY DEF Members
  <2>1. events[cell[1]][cell[2]] = 0
    BY <1>1
  <2>2. 1 .. 0 = {}
    OBVIOUS
  <2> QED
    BY <2>1, <2>2
<1>3. Count(events, {"failure"}) = 0
  BY <1>2, FS_EmptySet DEF Count
<1> DEFINE n == Count(events, Outcome)
<1>4. n \in Nat
  <2>1. ASSUME NEW a \in Ages, NEW o \in Outcome
        PROVE  IsFiniteSet({<<a, o>>} \X (1 .. events[a][o]))
    <3>1. IsFiniteSet({<<a, o>>})
      BY FS_Singleton
    <3>2. 1 \in Int /\ events[a][o] \in Int
      BY DEF TypeOK
    <3>3. IsFiniteSet(1 .. events[a][o])
      BY <3>2, FS_Interval
    <3> QED
      BY <3>1, <3>3, FS_Product
  <2>2. IsFiniteSet(Ages \X Outcome)
    <3>1. IsFiniteSet(Ages)
      BY Bounds, FS_Interval DEF Ages
    <3>2. IsFiniteSet(Outcome)
      <4>1. IsFiniteSet({"success"}) /\ Outcome = {"success"} \cup {"failure"}
        BY FS_Singleton DEF Outcome
      <4> QED
        BY <4>1, FS_AddElement
    <3> QED
      BY <3>1, <3>2, FS_Product
  <2> DEFINE F == [cell \in Ages \X Outcome |-> {cell} \X (1 .. events[cell[1]][cell[2]])]
             Cells == {F[cell] : cell \in Ages \X Outcome}
  <2>3. IsFiniteSet(Cells)
    <3>1. F \in Surjection(Ages \X Outcome, Cells)
      BY DEF Surjection
    <3> QED
      BY <2>2, <3>1, FS_Surjection
  <2>4. \A C \in Cells : IsFiniteSet(C)
    BY <2>1
  <2>5. IsFiniteSet(UNION Cells)
    BY <2>3, <2>4, FS_UNION
  <2>6. Members(events, Outcome) = UNION Cells
    BY DEF Members
  <2> QED
    BY <2>5, <2>6, FS_CardinalityType DEF Count
<1> HIDE DEF n
<1>5. n >= MinSamples /\ 0 * ThresholdDen >= ThresholdNum * n
  BY <1>3 DEF TooManyFailures, n
<1>6. n \in Nat \ {0} /\ ThresholdNum \in Nat \ {0} /\ ThresholdDen \in Nat
  BY <1>4, <1>5, RedisAssumption
<1>7. \A x, y \in Nat \ {0} : x * y > 0
  OBVIOUS
<1>8. \A x \in Nat : 0 * x = 0
  OBVIOUS
<1>9. 0 >= ThresholdNum * n
  BY <1>5, <1>6, <1>8
<1> QED
  BY <1>6, <1>7, <1>9

(* What makes it inductive: a failure whose age is known is no younger     *)
(* than the last one recorded; what a check will read, it has pruned; and  *)
(* when it has decided to trip, it read a failure then.                    *)
Failing == \E a \in Ages : events[a]["failure"] > 0

CellInv == \A a \in Ages : a < OldAge /\ events[a]["failure"] > 0 => evidence <= a

ReadInv == \A c \in Clients :
             pc[c] = "zrange" /\ Failing => evidence < Window + MaxLag + lag[c]

DecideInv == \A c \in Clients :
               pc[c] = "setex" => evidence < Window + 2 * MaxLag + lag[c]

EvidenceInv == TypeOK /\ CellInv /\ ReadInv /\ DecideInv

(* Steps after which no failure is in the set that was not there, and the  *)
(* last one was recorded no earlier.                                       *)
LEMMA CalmStep ==
  ASSUME EvidenceInv, TypeOK', NEW c \in Clients, NEW command, Sends(c, command),
         evidence' = evidence,
         \A a \in Ages : events'[a]["failure"] > 0 => events[a]["failure"] > 0,
         command = "zrange" /\ Failing' => evidence < Window + MaxLag,
         command = "setex" => evidence < Window + 2 * MaxLag
  PROVE  EvidenceInv'
<1> USE Bounds
<1>0. /\ pc \in [Clients -> PCs] /\ lag \in [Clients -> 0 .. MaxLag]
      /\ evidence \in Nat
  BY DEF EvidenceInv, TypeOK, PCs
<1>1. /\ pc'[c] = command /\ lag'[c] = 0
      /\ \A d \in Clients : d # c => pc'[d] = pc[d] /\ lag'[d] = lag[d]
  BY <1>0 DEF Sends
<1>2. CellInv'
  BY DEF EvidenceInv, CellInv, Ages
<1>3. Failing' => Failing
  BY DEF Failing, Ages
<1>4. ReadInv'
  <2> SUFFICES ASSUME NEW d \in Clients, pc'[d] = "zrange", Failing'
               PROVE  evidence' < Window + MaxLag + lag'[d]
    BY DEF ReadInv
  <2>1. CASE d = c
    BY <1>1, <2>1
  <2>2. CASE d # c
    BY <1>1, <1>3, <2>2 DEF EvidenceInv, ReadInv
  <2> QED
    BY <2>1, <2>2
<1>5. DecideInv'
  <2> SUFFICES ASSUME NEW d \in Clients, pc'[d] = "setex"
               PROVE  evidence' < Window + 2 * MaxLag + lag'[d]
    BY DEF DecideInv
  <2>1. CASE d = c
    BY <1>1, <2>1
  <2>2. CASE d # c
    BY <1>1, <2>2 DEF EvidenceInv, DecideInv
  <2> QED
    BY <2>1, <2>2
<1> QED
  BY <1>2, <1>4, <1>5 DEF EvidenceInv

(* Every command and every tick keeps the invariant.                       *)
LEMMA EvidenceStep ==
  ASSUME ThresholdNum # 0, EvidenceInv, [Next]_vars
  PROVE  EvidenceInv'
<1> USE Bounds
<1>t. TypeOK /\ TypeOK'
  BY TypeStep DEF EvidenceInv
<1>0. /\ pc \in [Clients -> PCs] /\ lag \in [Clients -> 0 .. MaxLag]
      /\ evidence \in 0 .. OldEvidence /\ evidence \in Nat
      /\ events \in [Ages -> [Outcome -> Nat]] /\ "failure" \in Outcome
      /\ outcome \in [Clients -> Outcome]
      /\ CellInv /\ ReadInv /\ DecideInv
  BY <1>t DEF EvidenceInv, TypeOK, PCs, Outcome
<1>1. ASSUME NEW c \in Clients, NEW command, Sends(c, command), evidence' = evidence,
             events' = events, command \notin {"zrange", "setex"}
      PROVE  EvidenceInv'
  BY <1>1, <1>t, CalmStep
<1>2. ASSUME NEW c \in Clients, Prune(c) PROVE EvidenceInv'
  <2>1. PICK late \in 0 .. lag[c] : zremrangebyscore(late)
    BY <1>2 DEF Prune
  <2>2. late \in 0 .. MaxLag
    BY <1>0
  <2>3. \A a \in Ages : events'[a]["failure"] > 0 =>
          events[a]["failure"] > 0 /\ a < Window + late
    BY <1>0, <1>t, <2>1, <2>2, Pruned
  <2>4. Failing' => evidence < Window + MaxLag
    <3> SUFFICES ASSUME NEW a \in Ages, events'[a]["failure"] > 0
                 PROVE  evidence < Window + MaxLag
      BY DEF Failing, Ages
    <3>1. a < Window + late /\ events[a]["failure"] > 0 /\ a \in Nat
      BY <2>3 DEF Ages
    <3>2. a < OldAge
      BY <2>2, <3>1
    <3> QED
      BY <1>0, <2>2, <3>1, <3>2 DEF CellInv
  <2>5. Sends(c, "zrange") /\ evidence' = evidence
    BY <1>2 DEF Prune, history
  <2> QED
    BY <1>t, <2>3, <2>4, <2>5, CalmStep
<1>3. ASSUME NEW c \in Clients, Zrange(c) PROVE EvidenceInv'
  <2> DEFINE command == IF TooManyFailures(events) THEN "setex" ELSE "running"
  <2>1. Sends(c, command) /\ evidence' = evidence /\ events' = events /\ pc[c] = "zrange"
    BY <1>3 DEF Zrange, history
  <2>2. TooManyFailures(events) => evidence < Window + 2 * MaxLag
    <3> SUFFICES ASSUME TooManyFailures(events) PROVE evidence < Window + 2 * MaxLag
      OBVIOUS
    <3>1. Failing
      BY <1>t, TripNeedsFailure DEF Failing
    <3>2. evidence < Window + MaxLag + lag[c] /\ lag[c] \in 0 .. MaxLag
      BY <1>0, <2>1, <3>1 DEF ReadInv
    <3> QED
      BY <1>0, <3>2
  <2>3. command # "zrange" /\ (command = "setex" => TooManyFailures(events))
    OBVIOUS
  <2> HIDE DEF command
  <2> QED
    BY <1>t, <2>1, <2>2, <2>3, CalmStep
<1>4. ASSUME NEW c \in Clients, Trim(c) PROVE EvidenceInv'
  <2>1. PICK late \in 0 .. lag[c] : zremrangebyscore(late)
    BY <1>4 DEF Trim
  <2>2. late \in 0 .. MaxLag
    BY <1>0
  <2>3. \A a \in Ages : events'[a]["failure"] > 0 => events[a]["failure"] > 0
    BY <1>0, <1>t, <2>1, <2>2, Pruned
  <2>4. Sends(c, "expire") /\ evidence' = evidence
    BY <1>4 DEF Trim, history
  <2> QED
    BY <1>t, <2>3, <2>4, CalmStep
<1>5. ASSUME NEW c \in Clients, score(c) PROVE EvidenceInv'
  <2>1. PICK late \in 0 .. MaxLag : zremrangebyscore(late)
    BY <1>5 DEF score
  <2>2. \A a \in Ages : events'[a]["failure"] > 0 => events[a]["failure"] > 0
    BY <1>0, <1>t, <2>1, Pruned
  <2>3. UNCHANGED <<pc, lag, evidence>>
    BY <1>5 DEF score, history
  <2>4. CellInv' /\ (Failing' => Failing)
    BY <1>0, <2>2, <2>3 DEF CellInv, Failing, Ages
  <2>5. ReadInv' /\ DecideInv'
    BY <1>0, <2>3, <2>4 DEF ReadInv, DecideInv
  <2> QED
    BY <1>t, <2>4, <2>5 DEF EvidenceInv
<1>6. ASSUME NEW c \in Clients, NEW late \in 0 .. MaxLag, NEW same \in BOOLEAN,
             Zadd(c, late, same)
      PROVE  EvidenceInv'
  <2> DEFINE o == outcome[c]
  <2>1. late \in Ages /\ late < OldAge /\ o \in Outcome /\ late \in Nat
    BY <1>0 DEF Ages
  <2>2. \A a \in Ages : events'[a]["failure"] > 0 =>
          events[a]["failure"] > 0 \/ (a = late /\ o = "failure")
    <3>1. CASE same
      BY <1>6, <3>1 DEF Zadd
    <3>2. CASE ~same
      <4>1. events' = [events EXCEPT ![late][o] = @ + 1]
        BY <1>6, <3>2 DEF Zadd
      <4> QED
        BY <1>0, <1>t, <2>1, <4>1, Added
    <3> QED
      BY <3>1, <3>2
  <2>3. /\ evidence' <= evidence /\ evidence' \in Nat
        /\ o = "failure" => evidence' <= late
    BY <1>0, <1>6, <2>1 DEF Zadd, Smaller
  <2>4. /\ pc'[c] = "trim"
        /\ \A d \in Clients : d # c => pc'[d] = pc[d] /\ lag'[d] = lag[d]
    BY <1>0, <1>6 DEF Zadd, Sends
  <2> HIDE DEF o
  <2>5. CellInv'
    <3> SUFFICES ASSUME NEW a \in Ages, a < OldAge, events'[a]["failure"] > 0
                 PROVE  evidence' <= a
      BY DEF CellInv, Ages
    <3>1. CASE events[a]["failure"] > 0
      BY <1>0, <2>3, <3>1 DEF CellInv, Ages
    <3>2. CASE a = late /\ o = "failure"
      BY <2>3, <3>2
    <3> QED
      BY <2>2, <3>1, <3>2
  <2>6. ReadInv'
    <3> SUFFICES ASSUME NEW d \in Clients, pc'[d] = "zrange", Failing'
                 PROVE  evidence' < Window + MaxLag + lag'[d]
      BY DEF ReadInv
    <3>1. d # c /\ pc[d] = "zrange" /\ lag'[d] = lag[d] /\ lag[d] \in Nat
      BY <1>0, <2>4
    <3>2. CASE Failing
      BY <1>0, <2>3, <3>1, <3>2 DEF ReadInv
    <3>3. CASE ~Failing
      <4>1. o = "failure"
        BY <2>2, <3>3 DEF Failing, Ages
      <4> QED
        BY <2>3, <3>1, <4>1
    <3> QED
      BY <3>2, <3>3
  <2>7. DecideInv'
    <3> SUFFICES ASSUME NEW d \in Clients, pc'[d] = "setex"
                 PROVE  evidence' < Window + 2 * MaxLag + lag'[d]
      BY DEF DecideInv
    <3>1. d # c /\ pc[d] = "setex" /\ lag'[d] = lag[d] /\ lag[d] \in Nat
      BY <1>0, <2>4
    <3> QED
      BY <1>0, <2>3, <3>1 DEF DecideInv
  <2> QED
    BY <1>t, <2>5, <2>6, <2>7 DEF EvidenceInv
<1>7. ASSUME Tick PROVE EvidenceInv'
  <2>1. /\ evidence' <= evidence + 1 /\ evidence' \in Nat
        /\ pc' = pc
        /\ \A c \in Clients : Waiting(c) => lag'[c] = lag[c] + 1
    BY <1>0, <1>7 DEF Tick, Smaller
  <2>2. events' = NoEvents \/ events' = Aged(events)
    BY <1>7 DEF Tick
  <2>3. \A a \in Ages : NoEvents[a]["failure"] = 0
    BY <1>0 DEF NoEvents
  <2>4. CellInv'
    <3> SUFFICES ASSUME NEW a \in Ages, a < OldAge, events'[a]["failure"] > 0
                 PROVE  evidence' <= a
      BY DEF CellInv, Ages
    <3>1. events' = Aged(events)
      BY <2>2, <2>3
    <3>2. a - 1 \in Ages /\ events[a - 1]["failure"] > 0 /\ a \in Nat
      BY <1>0, <1>t, <3>1, AgedCells DEF Ages
    <3>3. a - 1 < OldAge
      BY <3>2
    <3> QED
      BY <1>0, <2>1, <3>2, <3>3 DEF CellInv
  <2>5. Failing' => Failing
    <3> SUFFICES ASSUME NEW a \in Ages, events'[a]["failure"] > 0 PROVE Failing
      BY DEF Failing, Ages
    <3>1. events' = Aged(events)
      BY <2>2, <2>3
    <3> QED
      BY <1>0, <1>t, <3>1, AgedCells DEF Failing
  <2>6. ReadInv'
    <3> SUFFICES ASSUME NEW d \in Clients, pc'[d] = "zrange", Failing'
                 PROVE  evidence' < Window + MaxLag + lag'[d]
      BY DEF ReadInv
    <3>1. pc[d] = "zrange" /\ lag'[d] = lag[d] + 1 /\ lag[d] \in Nat
      BY <1>0, <2>1 DEF Waiting
    <3>2. evidence < Window + MaxLag + lag[d]
      BY <1>0, <2>5, <3>1 DEF ReadInv
    <3> QED
      BY <1>0, <2>1, <3>1, <3>2
  <2>7. DecideInv'
    <3> SUFFICES ASSUME NEW d \in Clients, pc'[d] = "setex"
                 PROVE  evidence' < Window + 2 * MaxLag + lag'[d]
      BY DEF DecideInv
    <3>1. pc[d] = "setex" /\ lag'[d] = lag[d] + 1 /\ lag[d] \in Nat
      BY <1>0, <2>1 DEF Waiting
    <3>2. evidence < Window + 2 * MaxLag + lag[d]
      BY <1>0, <3>1 DEF DecideInv
    <3> QED
      BY <1>0, <2>1, <3>1, <3>2
  <2> QED
    BY <1>t, <2>4, <2>6, <2>7 DEF EvidenceInv
<1>8. CASE UNCHANGED vars
  BY <1>t, <1>0, <1>8 DEF vars, EvidenceInv, CellInv, ReadInv, DecideInv, Failing
<1>9. ASSUME NEW c \in Clients, NEW o \in Outcome,
             Ttl(c) \/ Setex(c) \/ Ends(c, o) \/ Expire(c) \/ Crash(c)
      PROVE  EvidenceInv'
  <2>1. \E command \in {"idle", "prune", "zadd"} :
          Sends(c, command) /\ evidence' = evidence /\ events' = events
    BY <1>9 DEF Ttl, Setex, Ends, Expire, Crash, history
  <2> QED
    BY <1>1, <2>1
<1>10. ASSUME NEW c \in Clients, Client(c) \/ Crash(c) PROVE EvidenceInv'
  BY <1>2, <1>3, <1>4, <1>6, <1>9, <1>10 DEF Client, Record, Outcome
<1>11. ASSUME NEW c \in Clients, TtlOpen(c) PROVE EvidenceInv'
  BY <1>8, <1>11 DEF TtlOpen
<1> QED
  BY <1>5, <1>7, <1>8, <1>10, <1>11 DEF Next

(* No trip rests on stale evidence, for any number of clients that check,  *)
(* record, prune, die and are delayed in any order: with a threshold above *)
(* zero, a failure was recorded within the window and the three delays     *)
(* that the commands of a check may meet.                                  *)
THEOREM TripsAreFresh ==
  ASSUME ThresholdNum # 0
  PROVE  Spec => TripHasFreshEvidence
<1>1. Init => EvidenceInv
  <2> SUFFICES ASSUME Init PROVE EvidenceInv
    OBVIOUS
  <2>1. \A a \in Ages : events[a]["failure"] = 0
    BY DEF Init, NoEvents, Outcome
  <2>2. CellInv /\ ~Failing
    BY <2>1 DEF CellInv, Failing
  <2> QED
    BY <2>2, TypeInit DEF EvidenceInv, ReadInv, DecideInv, Init
<1>2. EvidenceInv /\ [Next]_vars => EvidenceInv'
  BY EvidenceStep
<1>3. EvidenceInv => \A c \in Clients : Setex(c) => evidence < OldEvidence
  <2> SUFFICES ASSUME EvidenceInv, NEW c \in Clients, pc[c] = "setex"
               PROVE  evidence < OldEvidence
    BY DEF Setex
  <2>1. /\ evidence < Window + 2 * MaxLag + lag[c] /\ lag[c] \in 0 .. MaxLag
        /\ evidence \in Nat
    BY Bounds DEF EvidenceInv, DecideInv, TypeOK
  <2> QED
    BY <2>1, Bounds
<1> QED
  BY <1>1, <1>2, <1>3, PTL DEF Spec, TripHasFreshEvidence
=============================================================================
