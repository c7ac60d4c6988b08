-------------------------- MODULE InterceptorProofs --------------------------
(***************************************************************************)
(* Proofs about Interceptor, for any number of calls and keys, with or     *)
(* without a breaker and an approver, whatever a policy may require.       *)
(***************************************************************************)
EXTENDS Interceptor, InMemoryBackendProofs

Results == Outcome \cup {"none"}
RanValues == {"no", "running"} \cup Outcome
Granted == [allowed |-> TRUE, requirements |-> {}]

(* Where a call stands: the sandbox is entered with nothing left to ask    *)
(* for, and while a human is asked the policy's own answer is kept.        *)
StageInv ==
  \A c \in Calls :
    /\ pc[c] \in {"idle", "policy", "approval"} => ran[c] = "no"
    /\ pc[c] \in {"idle", "policy"} => decision[c] = Denied
    /\ pc[c] = "approval" => /\ policySaid[c].allowed = TRUE
                             /\ policySaid[c].requirements \subseteq _SUPPORTED_REQUIREMENTS
                             /\ "human_approval" \in policySaid[c].requirements
                             /\ decision[c] = policySaid[c]
    /\ pc[c] = "sandbox" => ran[c] = "running" /\ decision[c] = Granted

(* What the trail says: only calls that left have records, one each, and   *)
(* true ones; and whoever returned, or merely left if nothing but a        *)
(* cancellation can go wrong, has one.                                     *)
RecordedLeft == \A i \in 1 .. Len(trail) : pc[trail[i].call] \in Left

RecordsUnique == \A i, j \in 1 .. Len(trail) : trail[i].call = trail[j].call => i = j

LeftRecorded ==
  \A c \in Calls :
    (pc[c] = "returned" \/ (Faults \subseteq {"cancel"} /\ pc[c] = "raised"))
      => \E i \in 1 .. Len(trail) : trail[i].call = c

TrailInv == RecordedLeft /\ RecordsUnique /\ LeftRecorded /\ TrailTruthful

Inv == TypeOK /\ StageInv /\ FailClosed /\ TrailInv

-----------------------------------------------------------------------------
(* Writing the record of a call and leaving handle: the types and the      *)
(* trail stay right if the record agrees with what the call did.           *)
LEMMA AuditKeeps ==
  ASSUME TypeOK, TrailInv, NEW c \in Calls, pc[c] \notin Left,
         NEW d \in Decisions, NEW result \in Results, NEW how \in Left,
         _audit_and_wrap(c, d, result, how),
         ran' \in [Calls -> RanValues],
         \A x \in Calls : x # c => ran'[x] = ran[x],
         (d.allowed /\ d.requirements = {}) <=> ran'[c] # "no",
         result = IF ran'[c] \in Outcome THEN ran'[c] ELSE "none"
  PROVE  /\ TrailInv'
         /\ pc' \in [Calls -> Stages] /\ decision' \in [Calls -> Decisions]
         /\ trail' \in Seq(Records)
         /\ pc'[c] \in Left
         /\ \A x \in Calls : x # c => pc'[x] = pc[x] /\ decision'[x] = decision[x]
<1> DEFINE r == [call |-> c, decision |-> d, result |-> result]
<1>1. /\ pc \in [Calls -> Stages] /\ decision \in [Calls -> Decisions]
      /\ trail \in Seq(Records) /\ Len(trail) \in Nat
      /\ \A i \in 1 .. Len(trail) : trail[i] \in Records /\ trail[i].call \in Calls
  <2>1. trail \in Seq(Records)
    BY DEF TypeOK
  <2>2. \A i \in 1 .. Len(trail) : trail[i] \in Records
    BY <2>1, ElementOfSeq
  <2> QED
    BY <2>1, <2>2 DEF TypeOK, Records
<1>2. r \in Records /\ r.call = c /\ r.decision = d /\ r.result = result
  BY DEF Records, Results
<1>3. /\ RecordedLeft /\ RecordsUnique /\ LeftRecorded /\ TrailTruthful
  BY DEF TrailInv
<1>4. \A i \in 1 .. Len(trail) : trail[i].call # c
  BY <1>3 DEF RecordedLeft
<1>5. /\ decision' = [decision EXCEPT ![c] = d]
      /\ \/ trail' = Append(trail, r) /\ pc' = [pc EXCEPT ![c] = how]
         \/ "disk" \in Faults /\ trail' = trail /\ pc' = [pc EXCEPT ![c] = "raised"]
  BY DEF _audit_and_wrap
<1>6. /\ pc' \in [Calls -> Stages] /\ decision' \in [Calls -> Decisions]
      /\ pc'[c] \in Left
      /\ \A x \in Calls : x # c => pc'[x] = pc[x] /\ decision'[x] = decision[x]
  BY <1>1, <1>5 DEF Left, Stages
<1>7. CASE trail' = Append(trail, r) /\ pc' = [pc EXCEPT ![c] = how]
  <2> HIDE DEF r
  <2>1. /\ trail' \in Seq(Records) /\ Len(trail') = Len(trail) + 1
        /\ trail'[Len(trail) + 1] = r
        /\ \A i \in 1 .. Len(trail) : trail'[i] = trail[i]
    BY <1>1, <1>2, <1>7, AppendProperties
  <2>2. \A i \in 1 .. Len(trail') : \/ i \in 1 .. Len(trail) /\ trail'[i] = trail[i]
                                    \/ i = Len(trail) + 1 /\ trail'[i] = r
    BY <1>1, <2>1
  <2>3. RecordedLeft'
    <3> SUFFICES ASSUME NEW i \in 1 .. Len(trail') PROVE pc'[trail'[i].call] \in Left
      BY DEF RecordedLeft
    <3>1. CASE i \in 1 .. Len(trail) /\ trail'[i] = trail[i]
      BY <1>1, <1>3, <1>6, <3>1 DEF RecordedLeft
    <3>2. CASE trail'[i] = r
      BY <1>2, <1>6, <3>2
    <3> QED
      BY <2>2, <3>1, <3>2
  <2>4. RecordsUnique'
    BY <1>2, <1>3, <1>4, <2>2 DEF RecordsUnique
  <2>5. LeftRecorded'
    <3> SUFFICES ASSUME NEW x \in Calls,
                        pc'[x] = "returned" \/ (Faults \subseteq {"cancel"} /\ pc'[x] = "raised")
                 PROVE  \E i \in 1 .. Len(trail') : trail'[i].call = x
      BY DEF LeftRecorded
    <3>1. CASE x = c
      BY <1>1, <1>2, <2>1, <3>1
    <3>2. CASE x # c
      <4>1. PICK i \in 1 .. Len(trail) : trail[i].call = x
        BY <1>3, <1>6, <3>2 DEF LeftRecorded
      <4> QED
        BY <1>1, <2>1, <4>1
    <3> QED
      BY <3>1, <3>2
  <2>6. TrailTruthful'
    <3> SUFFICES ASSUME NEW i \in 1 .. Len(trail')
                 PROVE  /\ ClaimsRun(trail'[i]) <=> ran'[trail'[i].call] # "no"
                        /\ trail'[i].result = IF ran'[trail'[i].call] \in Outcome
                                              THEN ran'[trail'[i].call] ELSE "none"
      BY DEF TrailTruthful, ClaimsRun
    <3>1. CASE i \in 1 .. Len(trail) /\ trail'[i] = trail[i]
      <4>1. ran'[trail[i].call] = ran[trail[i].call]
        BY <1>1, <1>4, <3>1
      <4> QED
        BY <1>3, <3>1, <4>1 DEF TrailTruthful
    <3>2. CASE trail'[i] = r
      BY <1>2, <3>2 DEF ClaimsRun
    <3> QED
      BY <2>2, <3>1, <3>2
  <2> QED
    BY <1>6, <2>1, <2>3, <2>4, <2>5, <2>6 DEF TrailInv
<1>8. CASE "disk" \in Faults /\ trail' = trail /\ pc' = [pc EXCEPT ![c] = "raised"]
  <2>1. RecordedLeft' /\ RecordsUnique'
    BY <1>1, <1>3, <1>4, <1>6, <1>8 DEF RecordedLeft, RecordsUnique
  <2>2. LeftRecorded'
    BY <1>1, <1>3, <1>6, <1>8 DEF LeftRecorded
  <2>3. TrailTruthful'
    BY <1>1, <1>3, <1>4, <1>8 DEF TrailTruthful, ClaimsRun
  <2> QED
    BY <1>1, <1>6, <1>8, <2>1, <2>2, <2>3 DEF TrailInv
<1> QED
  BY <1>5, <1>7, <1>8

(* Going on to the next await leaves the trail right.                      *)
LEMMA MoveKeeps ==
  ASSUME TypeOK, TrailInv, NEW c \in Calls, pc[c] \notin Left,
         NEW stage \in Stages, stage \notin Left, NEW d \in Decisions,
         GoesTo(c, stage, d),
         \A x \in Calls : x # c => ran'[x] = ran[x]
  PROVE  /\ TrailInv'
         /\ pc' \in [Calls -> Stages] /\ decision' \in [Calls -> Decisions]
         /\ trail' \in Seq(Records)
         /\ pc'[c] = stage /\ decision'[c] = d
         /\ \A x \in Calls : x # c => pc'[x] = pc[x] /\ decision'[x] = decision[x]
<1>1. /\ pc \in [Calls -> Stages] /\ decision \in [Calls -> Decisions]
      /\ trail \in Seq(Records)
      /\ \A i \in 1 .. Len(trail) : trail[i].call \in Calls
  <2>1. trail \in Seq(Records)
    BY DEF TypeOK
  <2>2. \A i \in 1 .. Len(trail) : trail[i] \in Records
    BY <2>1, ElementOfSeq
  <2> QED
    BY <2>1, <2>2 DEF TypeOK, Records
<1>2. /\ RecordedLeft /\ RecordsUnique /\ LeftRecorded /\ TrailTruthful
  BY DEF TrailInv
<1>3. \A i \in 1 .. Len(trail) : trail[i].call # c
  BY <1>2 DEF RecordedLeft
<1>4. /\ pc' \in [Calls -> Stages] /\ decision' \in [Calls -> Decisions]
      /\ trail' = trail /\ pc'[c] = stage /\ decision'[c] = d
      /\ \A x \in Calls : x # c => pc'[x] = pc[x] /\ decision'[x] = decision[x]
  BY <1>1 DEF GoesTo
<1>5. RecordedLeft' /\ RecordsUnique'
  BY <1>1, <1>2, <1>3, <1>4 DEF RecordedLeft, RecordsUnique
<1>6. LeftRecorded'
  BY <1>2, <1>4 DEF LeftRecorded, Left
<1>7. TrailTruthful'
  BY <1>1, <1>2, <1>3, <1>4 DEF TrailTruthful, ClaimsRun
<1> QED
  BY <1>1, <1>4, <1>5, <1>6, <1>7 DEF TrailInv

(* The two ways a step ends, as seen by the trail: c has left with its     *)
(* record (or without, if the disk failed); c has entered the sandbox.     *)
HasLeft(c) ==
  /\ TrailInv'
  /\ pc' \in [Calls -> Stages] /\ decision' \in [Calls -> Decisions]
  /\ trail' \in Seq(Records)
  /\ pc'[c] \in Left
  /\ \A x \in Calls : x # c => pc'[x] = pc[x] /\ decision'[x] = decision[x]

Entered(c) ==
  /\ TrailInv'
  /\ pc' \in [Calls -> Stages] /\ decision' \in [Calls -> Decisions]
  /\ trail' \in Seq(Records)
  /\ ran' \in [Calls -> RanValues]
  /\ pc'[c] = "sandbox" /\ decision'[c] = Granted /\ ran'[c] = "running"
  /\ \A x \in Calls : x # c => /\ pc'[x] = pc[x] /\ decision'[x] = decision[x]
                               /\ ran'[x] = ran[x]

(* Leaving handle with a refusal and its record keeps the trail's          *)
(* invariant.                                                              *)
LEMMA RefusalKeeps ==
  ASSUME TypeOK, TrailInv, NEW c \in Calls, pc[c] \notin Left, ran[c] = "no",
         NEW d \in Decisions, ~d.allowed,
         _audit_and_wrap(c, d, "none", "returned"), UNCHANGED ran
  PROVE  HasLeft(c)
<1>1. "none" \in Results /\ "returned" \in Left /\ "no" \notin Outcome
  BY DEF Results, Left, Outcome
<1>2. ran' \in [Calls -> RanValues] /\ ran'[c] = "no"
  BY DEF TypeOK, RanValues
<1> QED
  BY <1>1, <1>2, AuditKeeps DEF HasLeft

(* Handing a call to the sandbox keeps the trail's invariant: it has no    *)
(* record yet.                                                             *)
LEMMA ExecuteKeeps ==
  ASSUME TypeOK, TrailInv, NEW c \in Calls, pc[c] \notin Left, Granted \in Decisions,
         Execute(c, Granted)
  PROVE  Entered(c)
<1>1. "sandbox" \in Stages /\ "sandbox" \notin Left
  BY DEF Stages, Left
<1>2. /\ ran' \in [Calls -> RanValues] /\ ran'[c] = "running"
      /\ \A x \in Calls : x # c => ran'[x] = ran[x]
  BY DEF Execute, TypeOK, RanValues
<1>3. GoesTo(c, "sandbox", Granted)
  BY DEF Execute
<1> QED
  BY <1>1, <1>2, <1>3, MoveKeeps DEF Entered

(* A call that leaves handle, having done no more than it had been cleared *)
(* for, disturbs neither its own stage nor the others'.                    *)
LEMMA LeavingKeepsStages ==
  ASSUME StageInv, FailClosed, NEW c \in Calls, pc'[c] \in Left,
         \A x \in Calls : x # c => /\ pc'[x] = pc[x] /\ decision'[x] = decision[x]
                                  /\ ran'[x] = ran[x]
                                  /\ policySaid'[x] = policySaid[x]
                                  /\ humanSaid'[x] = humanSaid[x],
         \/ ran'[c] = "no"
         \/ ran[c] # "no" /\ policySaid'[c] = policySaid[c] /\ humanSaid'[c] = humanSaid[c]
  PROVE  StageInv' /\ FailClosed'
<1>1. StageInv'
  BY DEF StageInv, Left
<1>2. FailClosed'
  BY DEF FailClosed
<1> QED
  BY <1>1, <1>2

(* Every step of every call preserves the interceptor's invariant.         *)
LEMMA InvStep == Inv /\ [Next]_vars => Inv'
<1> SUFFICES ASSUME Inv, [Next]_vars PROVE Inv'
  OBVIOUS
<1>0. TypeOK /\ StageInv /\ FailClosed /\ TrailInv
  BY DEF Inv
<1>t. /\ pc \in [Calls -> Stages] /\ decision \in [Calls -> Decisions]
      /\ breaker \in [Keys -> Backend]
      /\ policySaid \in [Calls -> Decisions]
      /\ humanSaid \in [Calls -> {"nothing", "yes", "no"}]
      /\ ran \in [Calls -> RanValues]
  BY <1>0 DEF TypeOK, RanValues
<1>d. Denied \in Decisions /\ Denied.allowed = FALSE /\ Granted \in Decisions
  BY DEF Denied, Granted, Decisions
<1>k. \A c \in Calls : KeyOf[c] \in Keys
  BY InterceptorAssumption
<1>1. ASSUME NEW c \in Calls, Check(c) PROVE Inv'
  <2>1. pc[c] = "idle" /\ UNCHANGED <<policySaid, humanSaid, ran>>
    BY <1>1 DEF Check, history
  <2>2. ran[c] = "no" /\ pc[c] \notin Left
    BY <1>0, <2>1 DEF StageInv, Left
  <2>3. breaker' \in [Keys -> Backend]
    <3>1. AfterIsOpen(breaker[KeyOf[c]]) \in Backend
      BY <1>t, <1>k, AfterIsOpenKeeps
    <3> QED
      BY <1>1, <1>t, <3>1 DEF Check
  <2>4. CASE _audit_and_wrap(c, Denied, "none", "returned")
    <3>1. HasLeft(c)
      BY <1>0, <1>d, <2>1, <2>2, <2>4, RefusalKeeps
    <3>2. StageInv' /\ FailClosed'
      BY <1>0, <2>1, <2>2, <3>1, LeavingKeepsStages DEF HasLeft
    <3> QED
      BY <1>t, <2>1, <2>3, <3>1, <3>2 DEF Inv, TypeOK, RanValues, HasLeft
  <2>5. CASE GoesTo(c, "policy", Denied)
    <3>1. "policy" \in Stages /\ "policy" \notin Left
      BY DEF Stages, Left
    <3>2. /\ TrailInv'
          /\ pc' \in [Calls -> Stages] /\ decision' \in [Calls -> Decisions]
          /\ trail' \in Seq(Records) /\ pc'[c] = "policy" /\ decision'[c] = Denied
          /\ \A x \in Calls : x # c => pc'[x] = pc[x] /\ decision'[x] = decision[x]
      BY <1>0, <1>d, <2>1, <2>2, <2>5, <3>1, MoveKeeps
    <3>3. StageInv' /\ FailClosed'
      BY <1>0, <2>1, <2>2, <3>2 DEF StageInv, FailClosed
    <3> QED
      BY <1>t, <2>1, <2>3, <3>2, <3>3 DEF Inv, TypeOK, RanValues
  <2> QED
    BY <1>1, <2>4, <2>5 DEF Check
<1>2. ASSUME NEW c \in Calls, CheckRaises(c) PROVE Inv'
  <2>1. /\ pc[c] = "idle" /\ "breaker" \in Faults
        /\ pc' = [pc EXCEPT ![c] = "raised"]
        /\ UNCHANGED <<decision, trail, breaker, policySaid, humanSaid, ran>>
    BY <1>2 DEF CheckRaises, history
  <2>2. /\ pc' \in [Calls -> Stages] /\ pc'[c] = "raised"
        /\ \A x \in Calls : x # c => pc'[x] = pc[x]
    BY <1>t, <2>1 DEF Stages
  <2>3. StageInv' /\ FailClosed'
    BY <1>0, <2>1, <2>2 DEF StageInv, FailClosed
  <2>4. TrailInv'
    <3>1. \A i \in 1 .. Len(trail) : trail[i].call \in Calls
      <4>1. \A i \in 1 .. Len(trail) : trail[i] \in Records
        BY <1>0, ElementOfSeq DEF TypeOK
      <4> QED
        BY <4>1 DEF Records
    <3>2. RecordedLeft' /\ RecordsUnique'
      BY <1>0, <2>1, <2>2, <3>1 DEF TrailInv, RecordedLeft, RecordsUnique, Left
    <3>3. LeftRecorded'
      BY <1>0, <2>1, <2>2 DEF TrailInv, LeftRecorded
    <3>4. TrailTruthful'
      BY <1>0, <2>1 DEF TrailInv, TrailTruthful, ClaimsRun
    <3> QED
      BY <3>2, <3>3, <3>4 DEF TrailInv
  <2> QED
    BY <1>0, <2>1, <2>2, <2>3, <2>4 DEF Inv, TypeOK
<1>3. ASSUME NEW c \in Calls, NEW d \in PolicyAnswer, PolicyAnswers(c, d) PROVE Inv'
  <2>1. /\ pc[c] = "policy"
        /\ policySaid' = [policySaid EXCEPT ![c] = d]
        /\ UNCHANGED <<breaker, humanSaid>>
    BY <1>3 DEF PolicyAnswers
  <2>2. ran[c] = "no" /\ pc[c] \notin Left
    BY <1>0, <2>1 DEF StageInv, Left
  <2>3. d \in Decisions
    <3>1. \A reqs \in SUBSET Requirements :
            [allowed |-> TRUE, requirements |-> reqs] \in Decisions
      BY DEF Decisions
    <3> QED
      BY <1>d, <3>1 DEF PolicyAnswer
  <2>4. /\ policySaid' \in [Calls -> Decisions] /\ policySaid'[c] = d
        /\ \A x \in Calls : x # c => policySaid'[x] = policySaid[x]
    BY <1>t, <2>1, <2>3
  <2>5. CASE /\ _audit_and_wrap(c, IF d.allowed THEN Denied ELSE d, "none", "returned")
             /\ UNCHANGED ran
    <3> DEFINE e == IF d.allowed THEN Denied ELSE d
    <3>1. e \in Decisions /\ ~e.allowed
      BY <1>d, <2>3
    <3> HIDE DEF e
    <3>2. _audit_and_wrap(c, e, "none", "returned")
      BY <2>5 DEF e
    <3>3. HasLeft(c)
      BY <1>0, <1>t, <2>2, <2>5, <3>1, <3>2, RefusalKeeps
    <3>4. StageInv' /\ FailClosed'
      BY <1>0, <2>1, <2>2, <2>4, <2>5, <3>3, LeavingKeepsStages DEF HasLeft
    <3> QED
      BY <1>t, <2>1, <2>4, <2>5, <3>3, <3>4 DEF Inv, TypeOK, RanValues, HasLeft
  <2>6. CASE /\ d.allowed /\ d.requirements \subseteq _SUPPORTED_REQUIREMENTS
             /\ "human_approval" \in d.requirements
             /\ GoesTo(c, "approval", d) /\ UNCHANGED ran
    <3>1. "approval" \in Stages /\ "approval" \notin Left
      BY DEF Stages, Left
    <3>2. /\ TrailInv'
          /\ pc' \in [Calls -> Stages] /\ decision' \in [Calls -> Decisions]
          /\ trail' \in Seq(Records) /\ pc'[c] = "approval" /\ decision'[c] = d
          /\ \A x \in Calls : x # c => pc'[x] = pc[x] /\ decision'[x] = decision[x]
      BY <1>0, <2>2, <2>3, <2>6, <3>1, MoveKeeps
    <3>3. d.allowed = TRUE
      BY <2>3, <2>6 DEF Decisions
    <3>4. StageInv' /\ FailClosed'
      BY <1>0, <2>1, <2>2, <2>4, <2>6, <3>2, <3>3 DEF StageInv, FailClosed
    <3> QED
      BY <1>t, <2>1, <2>4, <2>6, <3>2, <3>4 DEF Inv, TypeOK, RanValues
  <2>7. CASE /\ d.allowed /\ d.requirements \subseteq _SUPPORTED_REQUIREMENTS
             /\ "human_approval" \notin d.requirements
             /\ Execute(c, d)
    <3>1. d.requirements = {} /\ d.allowed = TRUE
      BY <2>3, <2>7 DEF Decisions, _SUPPORTED_REQUIREMENTS
    <3>2. d = Granted
      BY <2>3, <3>1 DEF Decisions, Granted
    <3>3. Entered(c)
      BY <1>0, <1>t, <1>d, <2>2, <2>7, <3>2, ExecuteKeeps
    <3>4. StageInv' /\ FailClosed'
      BY <1>0, <2>1, <2>4, <2>7, <3>1, <3>3 DEF StageInv, FailClosed, Entered
    <3> QED
      BY <1>t, <2>1, <2>4, <3>3, <3>4 DEF Inv, TypeOK, RanValues, Entered
  <2> QED
    BY <1>3, <2>5, <2>6, <2>7 DEF PolicyAnswers
<1>4. ASSUME NEW c \in Calls,
             PolicyFails(c) \/ ApprovalRaises(c)
      PROVE  Inv'
  <2>1. /\ pc[c] \in {"policy", "approval"}
        /\ _audit_and_wrap(c, Denied, "none", "returned")
        /\ UNCHANGED <<breaker, policySaid, humanSaid, ran>>
    BY <1>4 DEF PolicyFails, ApprovalRaises, history
  <2>2. ran[c] = "no" /\ pc[c] \notin Left
    BY <1>0, <2>1 DEF StageInv, Left
  <2>3. HasLeft(c)
    BY <1>0, <1>t, <1>d, <2>1, <2>2, RefusalKeeps
  <2>4. StageInv' /\ FailClosed'
    BY <1>0, <2>1, <2>2, <2>3, LeavingKeepsStages DEF HasLeft
  <2> QED
    BY <1>t, <2>1, <2>3, <2>4 DEF Inv, TypeOK, RanValues, HasLeft
<1>5. ASSUME NEW c \in Calls, NEW approved \in BOOLEAN, ApprovalAnswers(c, approved)
      PROVE  Inv'
  <2>1. /\ pc[c] = "approval"
        /\ humanSaid' = [humanSaid EXCEPT ![c] = IF approved THEN "yes" ELSE "no"]
        /\ UNCHANGED <<breaker, policySaid>>
    BY <1>5 DEF ApprovalAnswers
  <2>2. ran[c] = "no" /\ pc[c] \notin Left
    BY <1>0, <2>1 DEF StageInv, Left
  <2>3. /\ humanSaid' \in [Calls -> {"nothing", "yes", "no"}]
        /\ humanSaid'[c] = (IF approved THEN "yes" ELSE "no")
        /\ \A x \in Calls : x # c => humanSaid'[x] = humanSaid[x]
    BY <1>t, <2>1
  <2>4. CASE approved
    <3>1. Execute(c, Granted)
      BY <1>5, <2>4 DEF ApprovalAnswers, Granted
    <3>2. Entered(c)
      BY <1>0, <1>t, <1>d, <2>2, <3>1, ExecuteKeeps
    <3>3. StageInv' /\ FailClosed'
      BY <1>0, <2>1, <2>3, <2>4, <3>2, SMTT(30) DEF StageInv, FailClosed, Entered
    <3> QED
      BY <1>t, <2>1, <2>3, <3>2, <3>3 DEF Inv, TypeOK, RanValues, Entered
  <2>5. CASE ~approved
    <3>1. _audit_and_wrap(c, Denied, "none", "returned") /\ UNCHANGED ran
      BY <1>5, <2>5 DEF ApprovalAnswers
    <3>2. HasLeft(c)
      BY <1>0, <1>t, <1>d, <2>2, <3>1, RefusalKeeps
    <3>3. StageInv' /\ FailClosed'
      BY <1>0, <2>1, <2>2, <2>3, <3>1, <3>2, LeavingKeepsStages DEF HasLeft
    <3> QED
      BY <1>t, <2>1, <2>3, <3>1, <3>2, <3>3 DEF Inv, TypeOK, RanValues, HasLeft
  <2> QED
    BY <2>4, <2>5
<1>6. ASSUME NEW c \in Calls, NEW outcome \in Outcome,
             SandboxAnswers(c, outcome) \/ RecordRaises(c, outcome)
      PROVE  Inv'
  <2>1. /\ pc[c] = "sandbox"
        /\ ran' = [ran EXCEPT ![c] = outcome]
        /\ UNCHANGED <<policySaid, humanSaid>>
    BY <1>6 DEF SandboxAnswers, RecordRaises
  <2>2. PICK how \in Left : _audit_and_wrap(c, decision[c], outcome, how)
    BY <1>6 DEF SandboxAnswers, RecordRaises, Left
  <2>3. breaker' \in [Keys -> Backend]
    <3>1. AfterRecord(breaker[KeyOf[c]], outcome) \in Backend
      BY <1>t, <1>k, AfterRecordKeeps
    <3> QED
      BY <1>6, <1>t, <3>1 DEF SandboxAnswers, RecordRaises
  <2>4. ran[c] = "running" /\ decision[c] = Granted /\ pc[c] \notin Left
    BY <1>0, <2>1 DEF StageInv, Left
  <2>5. /\ ran' \in [Calls -> RanValues] /\ ran'[c] = outcome /\ outcome # "no"
        /\ \A x \in Calls : x # c => ran'[x] = ran[x]
    BY <1>t, <2>1 DEF RanValues, Outcome
  <2>6. /\ outcome \in Results /\ Granted.allowed = TRUE /\ Granted.requirements = {}
    BY DEF Results, Granted
  <2>7. HasLeft(c)
    BY <1>0, <1>d, <2>2, <2>4, <2>5, <2>6, AuditKeeps DEF HasLeft
  <2>8. StageInv' /\ FailClosed'
    BY <1>0, <2>1, <2>4, <2>5, <2>7, LeavingKeepsStages DEF HasLeft
  <2> QED
    BY <1>t, <2>1, <2>3, <2>5, <2>7, <2>8 DEF Inv, TypeOK, RanValues, HasLeft
<1>7. ASSUME NEW c \in Calls, Cancel(c) PROVE Inv'
  <2>1. /\ pc[c] \in {"policy", "approval", "sandbox"}
        /\ _audit_and_wrap(c, decision[c], "none", "raised")
        /\ UNCHANGED <<breaker, policySaid, humanSaid, ran>>
    BY <1>7 DEF Cancel, history
  <2>2. pc[c] \notin Left /\ "none" \in Results /\ "raised" \in Left
    BY <2>1 DEF Left, Results
  <2>3. ran[c] \notin Outcome
    BY <1>0, <2>1 DEF StageInv, Outcome
  <2>4. (decision[c].allowed /\ decision[c].requirements = {}) <=> ran[c] # "no"
    <3>1. CASE pc[c] = "policy"
      BY <1>0, <1>d, <3>1 DEF StageInv
    <3>2. CASE pc[c] = "approval"
      BY <1>0, <3>2 DEF StageInv
    <3>3. CASE pc[c] = "sandbox"
      BY <1>0, <3>3 DEF StageInv, Granted
    <3> QED
      BY <2>1, <3>1, <3>2, <3>3
  <2>5. decision[c] \in Decisions
    BY <1>t
  <2>6. HasLeft(c)
    BY <1>0, <1>t, <2>1, <2>2, <2>3, <2>4, <2>5, AuditKeeps DEF HasLeft
  <2>7. StageInv' /\ FailClosed'
    BY <1>0, <2>1, <2>6, LeavingKeepsStages DEF HasLeft
  <2> QED
    BY <1>t, <2>1, <2>6, <2>7 DEF Inv, TypeOK, RanValues, HasLeft
<1>8. CASE Tick
  <2>1. breaker' \in [Keys -> Backend]
    BY <1>8, <1>t, ElapseKeeps DEF Tick
  <2>2. UNCHANGED <<pc, decision, trail, policySaid, humanSaid, ran>>
    BY <1>8 DEF Tick, history
  <2>3. StageInv' /\ FailClosed' /\ TrailInv'
    BY <1>0, <2>2 DEF StageInv, FailClosed, TrailInv, RecordedLeft, RecordsUnique,
                      LeftRecorded, TrailTruthful, ClaimsRun
  <2> QED
    BY <1>0, <2>1, <2>2, <2>3 DEF Inv, TypeOK
<1>9. CASE UNCHANGED vars
  BY <1>0, <1>9 DEF vars, Inv, TypeOK, StageInv, FailClosed, TrailInv, RecordedLeft,
                    RecordsUnique, LeftRecorded, TrailTruthful, ClaimsRun
<1> QED
  BY <1>1, <1>2, <1>3, <1>4, <1>5, <1>6, <1>7, <1>8, <1>9 DEF Next

(* The interceptor's invariant holds before the first call.                *)
LEMMA InvInit == Init => Inv
<1> SUFFICES ASSUME Init PROVE Inv
  OBVIOUS
<1>1. Denied \in Decisions
  BY DEF Denied, Decisions
<1>2. TypeOK
  BY <1>1, FreshBackendType DEF Init, TypeOK, Stages
<1>3. StageInv /\ FailClosed
  BY DEF Init, StageInv, FailClosed
<1>4. TrailInv
  BY DEF Init, TrailInv, RecordedLeft, RecordsUnique, LeftRecorded, TrailTruthful
<1> QED
  BY <1>2, <1>3, <1>4 DEF Inv

(* The interceptor's invariant holds in every reachable state.             *)
LEMMA InvHolds == Spec => []Inv
  BY InvInit, InvStep, PTL DEF Spec

-----------------------------------------------------------------------------
(* Type correctness, whatever goes wrong around handle.                    *)
THEOREM TypeCorrect == Spec => []TypeOK
<1>1. Inv => TypeOK
  BY DEF Inv
<1> QED
  BY <1>1, InvHolds, PTL

(* "Fail safe, not open" for every set of calls, policy answers, human     *)
(* answers and faults.                                                     *)
THEOREM AlwaysFailClosed == Spec => []FailClosed
<1>1. Inv => FailClosed
  BY DEF Inv
<1> QED
  BY <1>1, InvHolds, PTL

(* The audit trail never says of a call that it ran when it did not, or    *)
(* the reverse, and never reports a result the sandbox did not give, even  *)
(* if calls are cancelled, the breaker's backend raises or the disk fails. *)
THEOREM TrailIsTruthful == Spec => []TrailTruthful
<1>1. Inv => TrailTruthful
  BY DEF Inv, TrailInv
<1> QED
  BY <1>1, InvHolds, PTL

(* Under the same faults: what a caller is told has been recorded, once.   *)
THEOREM ReturnedAreAudited == Spec => []ReturnedIsAudited
<1>1. Inv => ReturnedIsAudited
  <2> SUFFICES ASSUME Inv, NEW c \in Calls
               PROVE  /\ pc[c] = "returned" => RecordsOf(c) # {}
                      /\ \A i, j \in RecordsOf(c) : i = j
    BY DEF ReturnedIsAudited
  <2>1. pc[c] = "returned" => \E i \in 1 .. Len(trail) : trail[i].call = c
    BY DEF Inv, TrailInv, LeftRecorded
  <2>2. \A i, j \in RecordsOf(c) : i = j
    BY DEF Inv, TrailInv, RecordsUnique, RecordsOf
  <2> QED
    BY <2>1, <2>2 DEF RecordsOf
<1> QED
  BY <1>1, InvHolds, PTL

(* "No tool call leaves this method unaudited" holds as long as nothing    *)
(* but cancellation goes wrong: neither the breaker's backend nor the      *)
(* audit log may raise.                                                    *)
THEOREM EveryExitIsAudited ==
  ASSUME Faults \subseteq {"cancel"}
  PROVE  Spec => []AuditedOnExit
<1>1. Inv => AuditedOnExit
  <2> SUFFICES ASSUME Inv, NEW c \in Calls
               PROVE  /\ pc[c] \in Left => \E i \in RecordsOf(c) : RecordsOf(c) = {i}
                      /\ pc[c] \notin Left => RecordsOf(c) = {}
    BY DEF AuditedOnExit
  <2>1. pc[c] \in Left => \E i \in 1 .. Len(trail) : trail[i].call = c
    BY DEF Inv, TrailInv, LeftRecorded, Left
  <2>2. \A i, j \in RecordsOf(c) : i = j
    BY DEF Inv, TrailInv, RecordsUnique, RecordsOf
  <2>3. pc[c] \notin Left => RecordsOf(c) = {}
    BY DEF Inv, TrailInv, RecordedLeft, RecordsOf
  <2>4. pc[c] \in Left => \E i \in RecordsOf(c) : RecordsOf(c) = {i}
    BY <2>1, <2>2 DEF RecordsOf
  <2> QED
    BY <2>3, <2>4
<1> QED
  BY <1>1, InvHolds, PTL

-----------------------------------------------------------------------------
(* Without a breaker no circuit is ever tripped.                           *)
UnusedInv == ~HasBreaker => \A k \in Keys : breaker[k].tripped = NotTripped

(* Only the passing of time touches the state of a breaker nobody asks.    *)
LEMMA UnusedStep == UnusedInv /\ [Next]_vars => UnusedInv'
<1> SUFFICES ASSUME UnusedInv, [Next]_vars, ~HasBreaker
             PROVE  \A k \in Keys : breaker'[k].tripped = NotTripped
  BY DEF UnusedInv
<1>0. \A k \in Keys : breaker[k].tripped = NotTripped
  BY DEF UnusedInv
<1>1. CASE Tick
  <2>1. \A k \in Keys : breaker'[k].tripped = Elapse(breaker[k]).tripped
    BY <1>1 DEF Tick
  <2> QED
    BY <1>0, <2>1 DEF Elapse
<1>2. CASE ~Tick
  <2>1. UNCHANGED breaker
    BY <1>2 DEF Next, vars, Check, CheckRaises, PolicyFails, PolicyAnswers, ApprovalRaises,
                ApprovalAnswers, SandboxAnswers, RecordRaises, Cancel
  <2> QED
    BY <1>0, <2>1
<1> QED
  BY <1>1, <1>2

Flying == {"policy", "approval", "sandbox"}

(* A step of handle moves one call, which is at its check or past it.      *)
LEMMA OneCallMoves ==
  ASSUME pc \in [Calls -> Stages], [Next]_vars
  PROVE  \/ UNCHANGED pc
         \/ \E x \in Calls : /\ \A y \in Calls : y # x => pc'[y] = pc[y]
                             /\ Check(x) \/ CheckRaises(x) \/ pc[x] \in Flying
<1>1. \A x \in Calls : \A d, result, how :
        _audit_and_wrap(x, d, result, how) => \A y \in Calls : y # x => pc'[y] = pc[y]
  BY DEF _audit_and_wrap
<1>2. \A x \in Calls : \A stage, d :
        GoesTo(x, stage, d) => \A y \in Calls : y # x => pc'[y] = pc[y]
  BY DEF GoesTo
<1>3. ASSUME NEW x \in Calls, Check(x) \/ CheckRaises(x)
      PROVE  \A y \in Calls : y # x => pc'[y] = pc[y]
  BY <1>1, <1>2, <1>3 DEF Check, CheckRaises
<1>4. ASSUME NEW x \in Calls, NEW d, PolicyAnswers(x, d)
      PROVE  pc[x] \in Flying /\ \A y \in Calls : y # x => pc'[y] = pc[y]
  BY <1>1, <1>2, <1>4 DEF PolicyAnswers, Execute, Flying
<1>5. ASSUME NEW x \in Calls, NEW approved, ApprovalAnswers(x, approved)
      PROVE  pc[x] \in Flying /\ \A y \in Calls : y # x => pc'[y] = pc[y]
  BY <1>1, <1>2, <1>5 DEF ApprovalAnswers, Execute, Flying
<1>6. ASSUME NEW x \in Calls, NEW outcome,
             \/ PolicyFails(x) \/ ApprovalRaises(x) \/ Cancel(x)
             \/ SandboxAnswers(x, outcome) \/ RecordRaises(x, outcome)
      PROVE  pc[x] \in Flying /\ \A y \in Calls : y # x => pc'[y] = pc[y]
  BY <1>1, <1>6 DEF PolicyFails, ApprovalRaises, Cancel, SandboxAnswers, RecordRaises, Flying
<1>7. CASE Tick \/ UNCHANGED vars
  BY <1>7 DEF Tick, vars
<1> QED
  BY <1>3, <1>4, <1>5, <1>6, <1>7 DEF Next

(* While a circuit cools down its check refuses, so nobody comes past it.  *)
LEMMA DrainStep ==
  ASSUME TypeOK, UnusedInv, [Next]_vars, NEW k \in Keys, Cooling(k)
  PROVE  InFlight(k)' \subseteq InFlight(k)
<1> SUFFICES ASSUME NEW c \in Calls, KeyOf[c] = k, pc'[c] \in Flying, pc[c] \notin Flying
             PROVE  FALSE
  BY DEF InFlight, Flying
<1>0. pc \in [Calls -> Stages] /\ HasBreaker
  BY DEF TypeOK, Cooling, UnusedInv
<1>1. Check(c) \/ CheckRaises(c)
  BY <1>0, OneCallMoves
<1>2. CASE Check(c)
  <2>1. IsOpen(breaker[KeyOf[c]])
    BY DEF Cooling, IsOpen
  <2>2. _audit_and_wrap(c, Denied, "none", "returned")
    BY <1>0, <1>2, <2>1 DEF Check
  <2> QED
    BY <1>0, <2>2 DEF _audit_and_wrap, Flying
<1>3. CASE CheckRaises(c)
  BY <1>0, <1>3 DEF CheckRaises, Flying
<1> QED
  BY <1>1, <1>2, <1>3

(* An open circuit drains, for any number of keys and calls and however    *)
(* long approvals and sandboxes take: until the cooldown is over, no call  *)
(* joins those that had passed the check before the circuit tripped.       *)
THEOREM CircuitsDrain == Spec => OpenCircuitDrains
<1>1. Init => UnusedInv
  BY DEF Init, UnusedInv, FreshBackend
<1>2. TypeOK /\ UnusedInv /\ [Next]_vars
        => [\A k \in Keys : Cooling(k) => InFlight(k)' \subseteq InFlight(k)]_vars
  BY DrainStep
<1> QED
  BY <1>1, <1>2, UnusedStep, TypeCorrect, PTL DEF Spec, OpenCircuitDrains

-----------------------------------------------------------------------------
(* The refinement of GovernedCall.  First, how a call's phase follows from *)
(* the await it is at.                                                     *)
LEMMA PhaseValue ==
  ASSUME pc \in [Calls -> Stages], NEW c \in Calls
  PROVE  Phase[c] = IF pc[c] \in Left THEN pc[c]
                    ELSE IF pc[c] = "sandbox" THEN "running" ELSE "pending"
  BY DEF Phase, Left

(* If one call moves, one phase changes.                                   *)
LEMMA PhaseMoves ==
  ASSUME pc \in [Calls -> Stages], NEW c \in Calls, NEW stage \in Stages,
         pc' = [pc EXCEPT ![c] = stage]
  PROVE  Phase' = [Phase EXCEPT ![c] = IF stage \in Left THEN stage
                                       ELSE IF stage = "sandbox" THEN "running" ELSE "pending"]
<1>1. pc' \in [Calls -> Stages] /\ pc'[c] = stage /\ \A x \in Calls : x # c => pc'[x] = pc[x]
  OBVIOUS
<1>2. Phase' = [x \in Calls |-> IF pc'[x] \in Left THEN pc'[x]
                                ELSE IF pc'[x] = "sandbox" THEN "running" ELSE "pending"]
  BY DEF Phase, Left
<1>3. Phase = [x \in Calls |-> IF pc[x] \in Left THEN pc[x]
                               ELSE IF pc[x] = "sandbox" THEN "running" ELSE "pending"]
  BY DEF Phase, Left
<1> QED
  BY <1>1, <1>2, <1>3

(* If a record is written, its line is added to the abstract log.          *)
LEMMA LogGrows ==
  ASSUME trail \in Seq(Records), NEW r \in Records, trail' = Append(trail, r)
  PROVE  Log' = Append(Log, Line(r))
<1>1. /\ Len(trail) \in Nat /\ Len(trail') = Len(trail) + 1 /\ trail'[Len(trail) + 1] = r
      /\ \A i \in 1 .. Len(trail) : trail'[i] = trail[i]
  BY AppendProperties
<1> DEFINE L == {Line(x) : x \in Records}
<1>2. \A i \in 1 .. Len(trail) : Line(trail[i]) \in L
  BY ElementOfSeq
<1>3. Line(r) \in L
  OBVIOUS
<1> HIDE DEF L
<1>4. Log \in Seq(L) /\ Len(Log) = Len(trail)
  BY <1>1, <1>2 DEF Log
<1>5. \A i \in 1 .. Len(trail) + 1 : Line(trail'[i]) \in L
  BY <1>1, <1>2, <1>3
<1>6. Log' \in Seq(L) /\ Len(Log') = Len(trail) + 1
  BY <1>1, <1>5 DEF Log
<1>7. /\ Append(Log, Line(r)) \in Seq(L) /\ Len(Append(Log, Line(r))) = Len(trail) + 1
      /\ Append(Log, Line(r))[Len(trail) + 1] = Line(r)
      /\ \A i \in 1 .. Len(trail) : Append(Log, Line(r))[i] = Log[i]
  BY <1>3, <1>4, AppendProperties
<1>8. \A i \in 1 .. Len(trail) + 1 : Log'[i] = Append(Log, Line(r))[i]
  <2>1. \A i \in 1 .. Len(trail) : Log[i] = Line(trail[i])
    BY DEF Log
  <2>2. \A i \in 1 .. Len(trail) + 1 : Log'[i] = Line(trail'[i])
    BY <1>1 DEF Log
  <2> QED
    BY <1>1, <1>7, <2>1, <2>2
<1> QED
  BY <1>6, <1>7, <1>8, SeqEqual

(* _audit_and_wrap, abstractly: the call leaves with its line; or, if the  *)
(* disk fails, it raises without one.                                      *)
LEMMA AuditMaps ==
  ASSUME TypeOK, NEW c \in Calls, NEW d \in Decisions, NEW result \in Results,
         NEW how \in Left, _audit_and_wrap(c, d, result, how),
         NEW itRan \in BOOLEAN, itRan <=> d.allowed /\ d.requirements = {}
  PROVE  \/ Abstract!Leaves(c, how, itRan, result)
         \/ "disk" \in Faults /\ Phase' = [Phase EXCEPT ![c] = "raised"] /\ Log' = Log
<1>0. pc \in [Calls -> Stages] /\ trail \in Seq(Records) /\ how \in Stages /\ "raised" \in Stages
  BY DEF TypeOK, Left, Stages
<1> DEFINE r == [call |-> c, decision |-> d, result |-> result]
<1>1. r \in Records /\ r.call = c /\ r.decision = d /\ r.result = result
  BY DEF Records, Results
<1>2. Line(r) = [call |-> c, ran |-> itRan, result |-> result]
  <2>1. ClaimsRun(r) = itRan
    BY <1>1 DEF ClaimsRun
  <2> QED
    BY <1>1, <2>1 DEF Line
<1>3. CASE trail' = Append(trail, r) /\ pc' = [pc EXCEPT ![c] = how]
  <2>1. Log' = Append(Log, Line(r))
    BY <1>0, <1>1, <1>3, LogGrows
  <2>2. Phase' = [Phase EXCEPT ![c] = how]
    BY <1>0, <1>3, PhaseMoves
  <2> QED
    BY <1>2, <2>1, <2>2 DEF Abstract!Leaves
<1>4. CASE "disk" \in Faults /\ trail' = trail /\ pc' = [pc EXCEPT ![c] = "raised"]
  <2>1. Phase' = [Phase EXCEPT ![c] = "raised"]
    BY <1>0, <1>4, PhaseMoves DEF Left
  <2> QED
    BY <1>4, <2>1 DEF Log
<1> QED
  BY <1>3, <1>4 DEF _audit_and_wrap

(* A call that is refused, wherever it stands before the sandbox.          *)
LEMMA RefusalMaps ==
  ASSUME TypeOK, NEW c \in Calls, pc[c] \in {"idle", "policy", "approval"},
         NEW d \in Decisions, ~(d.allowed /\ d.requirements = {}), NEW how \in Left,
         _audit_and_wrap(c, d, "none", how)
  PROVE  Abstract!Next
<1>1. Phase[c] = "pending"
  BY PhaseValue DEF TypeOK, Left
<1>2. \/ Abstract!Leaves(c, how, FALSE, "none")
      \/ "disk" \in Faults /\ Phase' = [Phase EXCEPT ![c] = "raised"] /\ Log' = Log
  <2>1. FALSE \in BOOLEAN /\ "none" \in Results
    BY DEF Results
  <2> QED
    BY <2>1, AuditMaps
<1>3. CASE Abstract!Leaves(c, how, FALSE, "none")
  BY <1>1, <1>3 DEF Abstract!Next, Abstract!Refuse, Left
<1>4. CASE "disk" \in Faults /\ Phase' = [Phase EXCEPT ![c] = "raised"] /\ Log' = Log
  BY <1>1, <1>4 DEF Abstract!Next, Abstract!Lose, Lossy
<1> QED
  BY <1>2, <1>3, <1>4

(* A call whose run is over, with an outcome or abandoned.                 *)
LEMMA EndMaps ==
  ASSUME TypeOK, NEW c \in Calls, pc[c] = "sandbox", NEW result \in Results,
         NEW how \in Left, result = "none" => how = "raised",
         _audit_and_wrap(c, Granted, result, how)
  PROVE  Abstract!Next
<1>1. Phase[c] = "running"
  BY PhaseValue DEF TypeOK, Left
<1>2. \/ Abstract!Leaves(c, how, TRUE, result)
      \/ "disk" \in Faults /\ Phase' = [Phase EXCEPT ![c] = "raised"] /\ Log' = Log
  <2>1. /\ TRUE \in BOOLEAN /\ Granted \in Decisions
        /\ Granted.allowed = TRUE /\ Granted.requirements = {}
    BY DEF Granted, Decisions
  <2> QED
    BY <2>1, AuditMaps
<1>3. CASE Abstract!Leaves(c, how, TRUE, result)
  <2>1. CASE result \in Outcome
    BY <1>1, <1>3, <2>1 DEF Abstract!Next, Abstract!Finish, Left
  <2>2. CASE result = "none"
    BY <1>1, <1>3, <2>2 DEF Abstract!Next, Abstract!Finish
  <2> QED
    BY <2>1, <2>2 DEF Results
<1>4. CASE "disk" \in Faults /\ Phase' = [Phase EXCEPT ![c] = "raised"] /\ Log' = Log
  BY <1>1, <1>4 DEF Abstract!Next, Abstract!Lose, Lossy
<1> QED
  BY <1>2, <1>3, <1>4

(* A call goes on to its next await before the sandbox: a stutter.         *)
LEMMA MoveMaps ==
  ASSUME TypeOK, NEW c \in Calls, pc[c] \in {"idle", "policy", "approval"},
         NEW stage \in {"policy", "approval"}, NEW d, GoesTo(c, stage, d)
  PROVE  UNCHANGED <<Phase, Log>>
<1>1. pc \in [Calls -> Stages] /\ stage \in Stages /\ stage \notin Left
  BY DEF TypeOK, Stages, Left
<1>2. Phase[c] = "pending"
  BY <1>1, PhaseValue DEF Left
<1>3. Phase' = [Phase EXCEPT ![c] = "pending"]
  BY <1>1, PhaseMoves DEF GoesTo
<1>4. Phase' = Phase
  BY <1>2, <1>3 DEF Phase
<1> QED
  BY <1>4 DEF GoesTo, Log

(* A call enters the sandbox: the abstract Start.                          *)
LEMMA ExecuteMaps ==
  ASSUME TypeOK, NEW c \in Calls, pc[c] \in {"policy", "approval"}, NEW d, Execute(c, d)
  PROVE  Abstract!Next
<1>1. pc \in [Calls -> Stages] /\ "sandbox" \in Stages /\ "sandbox" \notin Left
  BY DEF TypeOK, Stages, Left
<1>2. Phase[c] = "pending"
  BY <1>1, PhaseValue DEF Left
<1>3. Phase' = [Phase EXCEPT ![c] = "running"]
  BY <1>1, PhaseMoves DEF Execute, GoesTo
<1>4. Log' = Log
  BY DEF Execute, GoesTo, Log
<1> QED
  BY <1>2, <1>3, <1>4 DEF Abstract!Next, Abstract!Start

(* Every step of handle is a step of GovernedCall or leaves it alone.      *)
LEMMA GovernedStep ==
  ASSUME Inv, [Next]_vars
  PROVE  Abstract!Next \/ UNCHANGED <<Phase, Log>>
<1>0. TypeOK /\ StageInv
  BY DEF Inv
<1>d. Denied \in Decisions /\ Denied.allowed = FALSE /\ "none" \in Results
  BY DEF Denied, Decisions, Results
<1>h. "returned" \in Left /\ "raised" \in Left
  BY DEF Left
<1>1. ASSUME NEW c \in Calls, Check(c) PROVE Abstract!Next \/ UNCHANGED <<Phase, Log>>
  <2>1. CASE _audit_and_wrap(c, Denied, "none", "returned")
    BY <1>0, <1>1, <1>d, <1>h, <2>1, RefusalMaps DEF Check
  <2>2. CASE GoesTo(c, "policy", Denied)
    BY <1>0, <1>1, <2>2, MoveMaps DEF Check
  <2> QED
    BY <1>1, <2>1, <2>2 DEF Check
<1>2. ASSUME NEW c \in Calls, CheckRaises(c) PROVE Abstract!Next
  <2>1. pc \in [Calls -> Stages] /\ "raised" \in Stages
    BY <1>0 DEF TypeOK, Stages
  <2>2. Phase[c] = "pending" /\ Phase' = [Phase EXCEPT ![c] = "raised"]
    BY <1>2, <1>h, <2>1, PhaseValue, PhaseMoves DEF CheckRaises, Left
  <2>3. Log' = Log /\ "pending" \in Lossy
    BY <1>2 DEF CheckRaises, Log, Lossy
  <2> QED
    BY <2>2, <2>3 DEF Abstract!Next, Abstract!Lose
<1>3. ASSUME NEW c \in Calls, NEW d \in PolicyAnswer, PolicyAnswers(c, d)
      PROVE  Abstract!Next \/ UNCHANGED <<Phase, Log>>
  <2>1. d \in Decisions
    <3>1. \A reqs \in SUBSET Requirements :
            [allowed |-> TRUE, requirements |-> reqs] \in Decisions
      BY DEF Decisions
    <3> QED
      BY <1>d, <3>1 DEF PolicyAnswer
  <2>2. CASE _audit_and_wrap(c, IF d.allowed THEN Denied ELSE d, "none", "returned")
    <3> DEFINE e == IF d.allowed THEN Denied ELSE d
    <3>1. e \in Decisions /\ ~e.allowed
      BY <1>d, <2>1
    <3>2. _audit_and_wrap(c, e, "none", "returned")
      BY <2>2
    <3> HIDE DEF e
    <3> QED
      BY <1>0, <1>3, <1>h, <3>1, <3>2, RefusalMaps DEF PolicyAnswers
  <2>3. CASE GoesTo(c, "approval", d)
    BY <1>0, <1>3, <2>3, MoveMaps DEF PolicyAnswers
  <2>4. CASE Execute(c, d)
    BY <1>0, <1>3, <2>4, ExecuteMaps DEF PolicyAnswers
  <2> QED
    BY <1>3, <2>2, <2>3, <2>4 DEF PolicyAnswers
<1>4. ASSUME NEW c \in Calls, PolicyFails(c) \/ ApprovalRaises(c) PROVE Abstract!Next
  BY <1>0, <1>4, <1>d, <1>h, RefusalMaps DEF PolicyFails, ApprovalRaises
<1>5. ASSUME NEW c \in Calls, NEW approved \in BOOLEAN, ApprovalAnswers(c, approved)
      PROVE  Abstract!Next
  <2>1. CASE approved
    BY <1>0, <1>5, <2>1, ExecuteMaps DEF ApprovalAnswers
  <2>2. CASE ~approved
    BY <1>0, <1>5, <1>d, <1>h, <2>2, RefusalMaps DEF ApprovalAnswers
  <2> QED
    BY <2>1, <2>2
<1>6. ASSUME NEW c \in Calls, NEW outcome \in Outcome,
             SandboxAnswers(c, outcome) \/ RecordRaises(c, outcome)
      PROVE  Abstract!Next
  <2>1. pc[c] = "sandbox" /\ decision[c] = Granted
    BY <1>0, <1>6 DEF SandboxAnswers, RecordRaises, StageInv
  <2>2. PICK how \in Left : _audit_and_wrap(c, Granted, outcome, how)
    BY <1>6, <1>h, <2>1 DEF SandboxAnswers, RecordRaises
  <2>3. outcome \in Results /\ outcome # "none"
    BY DEF Results, Outcome
  <2> QED
    BY <1>0, <2>1, <2>2, <2>3, EndMaps
<1>7. ASSUME NEW c \in Calls, Cancel(c) PROVE Abstract!Next
  <2>1. _audit_and_wrap(c, decision[c], "none", "raised")
    BY <1>7 DEF Cancel
  <2>2. CASE pc[c] \in {"policy", "approval"}
    <3>1. decision[c] \in Decisions
      BY <1>0 DEF TypeOK
    <3>2. ~(decision[c].allowed /\ decision[c].requirements = {})
      <4>1. CASE pc[c] = "policy"
        BY <1>0, <1>d, <4>1 DEF StageInv
      <4>2. CASE pc[c] = "approval"
        BY <1>0, <4>2 DEF StageInv
      <4> QED
        BY <2>2, <4>1, <4>2
    <3> QED
      BY <1>0, <1>h, <2>1, <2>2, <3>1, <3>2, RefusalMaps
  <2>3. CASE pc[c] = "sandbox"
    <3>1. decision[c] = Granted
      BY <1>0, <2>3 DEF StageInv
    <3> QED
      BY <1>0, <1>d, <1>h, <2>1, <2>3, <3>1, EndMaps
  <2> QED
    BY <1>7, <2>2, <2>3 DEF Cancel
<1>8. CASE Tick \/ UNCHANGED vars
  BY <1>8 DEF Tick, vars, Phase, Log
<1> QED
  BY <1>1, <1>2, <1>3, <1>4, <1>5, <1>6, <1>7, <1>8 DEF Next

(* handle implements GovernedCall, for any number of concurrent calls,     *)
(* with or without breaker and approver, and under every fault: a call is  *)
(* refused or runs once, and leaves in the step that writes its record; if *)
(* it leaves without one it raised, and the disk or the breaker failed.    *)
THEOREM InterceptorImplements == Spec => CallsAreGoverned
<1>1. Init => Abstract!Init
  BY DEF Init, Abstract!Init, Phase, Log, Left
<1>2. Inv /\ [Next]_vars => [Abstract!Next]_(Abstract!vars)
  BY GovernedStep DEF Abstract!vars
<1> QED
  BY <1>1, <1>2, InvHolds, PTL DEF Spec, CallsAreGoverned, Abstract!Spec
=============================================================================
