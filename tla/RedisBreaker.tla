----------------------------- MODULE RedisBreaker -----------------------------
(***************************************************************************)
(* RedisCircuitBreakerBackend (reliability/circuit_breaker.py) as several  *)
(* processes use it for one key: each client checks, runs the call if it   *)
(* is admitted, and records the outcome.                                   *)
(*                                                                         *)
(* Redis executes one command at a time and every command is an await, so  *)
(* each command is an action: what it does at the server, and what the     *)
(* client computes from the reply.  time.time() is read some time before   *)
(* the command that carries it is executed; `lag` is how long the client   *)
(* has been waiting, and bounds how old that reading is.                   *)
(***************************************************************************)
EXTENDS Integers, FiniteSets

CONSTANTS
  Clients,
  Window,        \* window_seconds; a tick is a second
  Cooldown,      \* cooldown_seconds
  MinSamples, ThresholdNum, ThresholdDen,
  MayCrash,      \* may a client's task end at an await?
  MaxLag,        \* bound: a command is executed within so many ticks
  MaxMembers     \* bound: members of the sorted set at one time

ASSUME RedisAssumption ==
  /\ Window \in Nat \ {0} /\ Cooldown \in Nat \ {0}   \* Redis refuses a TTL of 0
  /\ MinSamples \in Nat \ {0} /\ ThresholdNum \in Nat /\ ThresholdDen \in Nat \ {0}
  /\ MayCrash \in BOOLEAN /\ MaxLag \in Nat /\ MaxMembers \in Nat

VARIABLES
  events,    \* age -> outcome -> members of the sorted set (score = now - age)
  lifetime,  \* ticks until the events key expires, or NoExpiry
  tripped,   \* ticks until the tripped key expires; 0 if it is absent
  pc,        \* client -> the command it has sent, or "idle", "running"
  lag,       \* client -> ticks since it sent it
  outcome,   \* client -> the outcome it is recording
  evidence,  \* history: ticks since the last recorded failure, up to OldEvidence
  since      \* history: outcomes recorded since the last trip, up to MinSamples

vars == <<events, lifetime, tripped, pc, lag, outcome, evidence, since>>

Outcome == {"success", "failure"}
OldAge  == Window + MaxLag            \* every cutoff is later than this age
Ages    == 0 .. OldAge
NoExpiry == -1
OldEvidence == Window + 3 * MaxLag + 1

NoEvents == [a \in Ages |-> [o \in Outcome |-> 0]]

(* The members with one of these outcomes: of each cell, as many as it has.*)
Members(es, outcomes) ==
  UNION {{cell} \X (1 .. es[cell[1]][cell[2]]) : cell \in Ages \X outcomes}

Count(es, outcomes) == Cardinality(Members(es, outcomes))

TooManyFailures(es) ==
  /\ Count(es, Outcome) >= MinSamples
  /\ Count(es, {"failure"}) * ThresholdDen >= ThresholdNum * Count(es, Outcome)

Smaller(m, n) == IF m <= n THEN m ELSE n

Init == /\ events = NoEvents
        /\ lifetime = NoExpiry
        /\ tripped = 0
        /\ pc = [c \in Clients |-> "idle"]
        /\ lag = [c \in Clients |-> 0]
        /\ outcome = [c \in Clients |-> "success"]
        /\ evidence = OldEvidence
        /\ since = MinSamples

Sends(c, command) == /\ pc' = [pc EXCEPT ![c] = command]
                     /\ lag' = [lag EXCEPT ![c] = 0]

history == <<evidence, since>>

-----------------------------------------------------------------------------
(* ZREMRANGEBYSCORE 0 (t - Window), t having been read `late` ticks ago. A *)
(* set that becomes empty is deleted, and its expiry with it.              *)
zremrangebyscore(late) ==
  LET kept == [a \in Ages |-> IF a >= Window + late THEN NoEvents[a] ELSE events[a]]
  IN  /\ events' = kept
      /\ lifetime' = IF kept = NoEvents THEN NoExpiry ELSE lifetime

(* Faulty variant: a check that finds the circuit open renews its TTL.     *)
MutCheckRenews(c) ==
  /\ pc[c] = "idle"
  /\ IF tripped > 0
     THEN tripped' = Cooldown /\ UNCHANGED <<pc, lag>>
     ELSE tripped' = tripped /\ Sends(c, "prune")
  /\ UNCHANGED <<events, lifetime, outcome, history>>

(* is_open: TTL.  The reply is in whole seconds, rounded, so it is 0 in    *)
(* the last half second of a key.                                          *)
Ttl(c) ==
  /\ pc[c] = "idle"
  /\ tripped <= 1
  /\ Sends(c, "prune")
  /\ UNCHANGED <<events, lifetime, tripped, outcome, history>>

TtlOpen(c) ==
  /\ pc[c] = "idle"
  /\ tripped > 0
  /\ UNCHANGED vars

(* Faulty variant: _recent_events reads without pruning first.             *)
MutNoPrune(c) ==
  /\ pc[c] = "prune"
  /\ Sends(c, "zrange")
  /\ UNCHANGED <<events, lifetime, tripped, outcome, history>>

(* _recent_events: the pruning ...                                         *)
Prune(c) ==
  /\ pc[c] = "prune"
  /\ \E late \in 0 .. lag[c] : zremrangebyscore(late)
  /\ Sends(c, "zrange")
  /\ UNCHANGED <<tripped, outcome, history>>

(* ... and ZRANGE; is_open decides on what it returns.                     *)
Zrange(c) ==
  /\ pc[c] = "zrange"
  /\ Sends(c, IF TooManyFailures(events) THEN "setex" ELSE "running")
  /\ UNCHANGED <<events, lifetime, tripped, outcome, history>>

(* is_open trips the circuit, and answers that it is open.                 *)
Setex(c) ==
  /\ pc[c] = "setex"
  /\ tripped' = Cooldown
  /\ since' = 0
  /\ Sends(c, "idle")
  /\ UNCHANGED <<events, lifetime, outcome, evidence>>

(* The admitted call ends in the sandbox; record_result begins.  A call    *)
(* for whose outcome the model has no room takes longer.                   *)
Ends(c, o) ==
  /\ pc[c] = "running"
  /\ Count(events, Outcome) + Cardinality({d \in Clients : pc[d] = "zadd"}) < MaxMembers
  /\ outcome' = [outcome EXCEPT ![c] = o]
  /\ Sends(c, "zadd")
  /\ UNCHANGED <<events, lifetime, tripped, history>>

(* _record: ZADD.  A member is its time_ns and outcome: one that is there  *)
(* already, written by another process at the same reading of the clock,   *)
(* is not added again.                                                     *)
Zadd(c, late, same) ==
  LET o == outcome[c]
  IN  /\ pc[c] = "zadd"
      /\ late <= lag[c]
      /\ same => events[late][o] > 0
      /\ events' = IF same THEN events ELSE [events EXCEPT ![late][o] = @ + 1]
      /\ evidence' = IF o = "failure" THEN Smaller(late, evidence) ELSE evidence
      /\ since' = Smaller(since + 1, MinSamples)
      /\ Sends(c, "trim")
      /\ UNCHANGED <<lifetime, tripped, outcome>>

Trim(c) ==
  /\ pc[c] = "trim"
  /\ \E late \in 0 .. lag[c] : zremrangebyscore(late)
  /\ Sends(c, "expire")
  /\ UNCHANGED <<tripped, outcome, history>>

(* Faulty variant: the expiry is given in milliseconds.                    *)
MutExpireMillis(c) ==
  /\ pc[c] = "expire"
  /\ lifetime' = IF events = NoEvents THEN lifetime ELSE 2000 * Window
  /\ Sends(c, "idle")
  /\ UNCHANGED <<events, tripped, outcome, history>>

(* EXPIRE does nothing for a key that is no longer there.                  *)
Expire(c) ==
  /\ pc[c] = "expire"
  /\ lifetime' = IF events = NoEvents THEN lifetime ELSE 2 * Window
  /\ Sends(c, "idle")
  /\ UNCHANGED <<events, tripped, outcome, history>>

(* score, which keeps nothing but what its pruning leaves.                 *)
score(c) ==
  /\ pc[c] = "idle"
  /\ \E late \in 0 .. MaxLag : zremrangebyscore(late)
  /\ UNCHANGED <<tripped, pc, lag, outcome, history>>

(* The task or its process ends at an await.                               *)
Crash(c) ==
  /\ MayCrash
  /\ pc[c] # "idle"
  /\ Sends(c, "idle")
  /\ UNCHANGED <<events, lifetime, tripped, outcome, history>>

Aged(es) ==
  [a \in Ages |-> [o \in Outcome |->
     (IF a = 0 THEN 0 ELSE es[a - 1][o]) + (IF a = OldAge THEN es[a][o] ELSE 0)]]

Waiting(c) == pc[c] \notin {"idle", "running"}

Tick ==
  /\ \A c \in Clients : Waiting(c) => lag[c] < MaxLag
  /\ IF lifetime = 1
     THEN events' = NoEvents /\ lifetime' = NoExpiry
     ELSE /\ events' = Aged(events)
          /\ lifetime' = IF lifetime = NoExpiry THEN NoExpiry ELSE lifetime - 1
  /\ tripped' = IF tripped = 0 THEN 0 ELSE tripped - 1
  /\ lag' = [c \in Clients |-> IF Waiting(c) THEN lag[c] + 1 ELSE 0]
  /\ evidence' = Smaller(evidence + 1, OldEvidence)
  /\ UNCHANGED <<pc, outcome, since>>

Record(c) == \E late \in 0 .. MaxLag, same \in BOOLEAN : Zadd(c, late, same)

Client(c) == \/ Ttl(c) \/ Prune(c) \/ Zrange(c) \/ Setex(c)
             \/ \E o \in Outcome : Ends(c, o)
             \/ Record(c) \/ Trim(c) \/ Expire(c)

Next == Tick \/ \E c \in Clients : Client(c) \/ TtlOpen(c) \/ score(c) \/ Crash(c)

Spec == Init /\ [][Next]_vars

(* Time passes; Redis answers; sandboxes end; agents keep calling.         *)
LiveSpec == Spec /\ WF_vars(Tick) /\ \A c \in Clients : WF_vars(Client(c))

-----------------------------------------------------------------------------
TypeOK ==
  /\ events \in [Ages -> [Outcome -> Nat]]
  /\ lifetime \in {NoExpiry} \cup 1 .. 2 * Window
  /\ tripped \in 0 .. Cooldown
  /\ pc \in [Clients -> {"idle", "prune", "zrange", "setex", "running", "zadd",
                         "trim", "expire"}]
  /\ lag \in [Clients -> 0 .. MaxLag]
  /\ outcome \in [Clients -> Outcome]
  /\ evidence \in 0 .. OldEvidence
  /\ since \in 0 .. MinSamples

(* A circuit never trips on stale evidence: between the pruning, the read  *)
(* and the write of a check other clients write, prune and die and replies *)
(* are delayed, and yet a trip always has a failure behind it that is no   *)
(* older than the window and the three delays of the check.                *)
TripHasFreshEvidence ==
  [][\A c \in Clients : Setex(c) => evidence < OldEvidence]_vars

(* A circuit that trips does not lock its callers out for good: whatever   *)
(* clients left behind that died half-way, although calls admitted earlier *)
(* still report failures and racing checks renew the cooldown, some call   *)
(* is admitted again, unless clients never stop dying in their checks.     *)
NotLockedOut ==
  <>[][\A c \in Clients : ~ Crash(c)]_vars =>
    (tripped > 0 ~> \E c \in Clients : pc[c] = "running")

(* "Stays open for a cooldown window", after which the circuit is read     *)
(* afresh: no trip rests on outcomes that have already tripped it once.    *)
EachTripHasOwnEvidence ==
  [][\A c \in Clients : Setex(c) => since >= MinSamples]_vars
=============================================================================
