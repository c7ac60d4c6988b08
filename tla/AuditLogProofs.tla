---------------------------- MODULE AuditLogProofs ----------------------------
(***************************************************************************)
(* Proofs about AuditLog, for any loggers, sinks and record contents.      *)
(***************************************************************************)
EXTENDS AuditLog, TLAPS, WellFoundedInduction, SequenceTheorems

Contents == Bodies \cup Edits

-----------------------------------------------------------------------------
(* Every non-empty set of naturals has a least element, so the CHOOSE of   *)
(* one is in the set and below all others:                                 *)
(* verify_chain stops at the first bad line.                               *)
LEMMA LeastExists ==
  ASSUME NEW S, S \subseteq Nat, S # {}
  PROVE  \E i \in S : \A j \in S : i <= j
<1>1. \A i, j \in Nat : <<j, i>> \notin OpToRel(<, Nat) => i <= j
  BY DEF OpToRel
<1> QED
  BY <1>1, NatLessThanWellFounded, WFMin

(* Facts about lines and digests.                                          *)

(* A digest is never the mark of a closed logger.                          *)
LEMMA ClosedIsNoDigest == Closed \notin Digests
<1> SUFFICES ASSUME Closed \in Digests PROVE FALSE
  OBVIOUS
<1>1. Closed[1] \in Contents
  BY DEF Digests, Closed, Contents
<1> QED
  BY <1>1, AuditLogAssumption DEF Closed, Contents

(* What append writes is a record, and the digest it moves on to a digest. *)
LEMMA RecordType ==
  ASSUME NEW p \in Digests, NEW body \in Contents
  PROVE  /\ Record(p, body) \in Records
         /\ _compute_record_hash(p, body) \in Digests
  BY DEF Record, Records, Digests, _compute_record_hash, Contents

(* A line is a record or unreadable, and both carry digests.               *)
LEMMA LineFields ==
  ASSUME NEW x \in Lines
  PROVE  x.hash \in Digests /\ x.prev \in Digests
<1>1. GENESIS_HASH \in Digests
  BY DEF GENESIS_HASH, Digests
<1>2. CASE x \in Records
  BY <1>2 DEF Records
<1>3. CASE x = Unreadable
  BY <1>1, <1>3 DEF Unreadable
<1> QED
  BY <1>2, <1>3 DEF Lines

(* Writing a line, terminated or not, leaves a sequence of lines.          *)
LEMMA WrittenType ==
  ASSUME file \in Seq(Lines), NEW x \in Lines
  PROVE  Written(x) \in Seq(Lines)
<1>1. Append(file, x) \in Seq(Lines)
  OBVIOUS
<1>2. [file EXCEPT ![Len(file)] = Unreadable] \in Seq(Lines)
  <2>1. CASE Len(file) \in 1 .. Len(file)
    <3>1. Unreadable \in Lines
      BY DEF Lines
    <3> QED
      BY <2>1, <3>1, ExceptSeq
  <2>2. CASE Len(file) \notin 1 .. Len(file)
    <3>1. [file EXCEPT ![Len(file)] = Unreadable] = file
      BY <2>2, LenProperties
    <3> QED
      BY <3>1
  <2> QED
    BY <2>1, <2>2
<1> QED
  BY <1>1, <1>2 DEF Written

(* Taking one element out of a sequence: its length and its elements.      *)
LEMMA RemovalProperties ==
  ASSUME NEW S, NEW s \in Seq(S), NEW i \in 1 .. Len(s)
  PROVE  LET t == SubSeq(s, 1, i - 1) \o SubSeq(s, i + 1, Len(s))
         IN  /\ t \in Seq(S)
             /\ Len(t) = Len(s) - 1
             /\ \A j \in 1 .. Len(s) - 1 : t[j] = IF j < i THEN s[j] ELSE s[j + 1]
<1> DEFINE u == SubSeq(s, 1, i - 1)
           v == SubSeq(s, i + 1, Len(s))
<1>1. /\ u \in Seq(S) /\ Len(u) = i - 1
      /\ \A j \in 1 .. i - 1 : u[j] = s[j]
  <2>1. \A j \in 1 .. i - 1 : s[j] \in S
    BY ElementOfSeq
  <2> QED
    BY <2>1, SubSeqProperties, LenProperties
<1>2. /\ v \in Seq(S) /\ Len(v) = Len(s) - i
      /\ \A j \in 1 .. Len(s) - i : v[j] = s[i + j]
  <2>1. \A j \in i + 1 .. Len(s) : s[j] \in S
    BY ElementOfSeq
  <2> QED
    BY <2>1, SubSeqProperties, LenProperties
<1> HIDE DEF u, v
<1>3. /\ u \o v \in Seq(S)
      /\ Len(u \o v) = Len(s) - 1
      /\ \A j \in 1 .. Len(s) - 1 : (u \o v)[j] = IF j < i THEN s[j] ELSE s[j + 1]
  <2>1. /\ u \o v \in Seq(S)
        /\ Len(u \o v) = Len(u) + Len(v)
        /\ \A j \in 1 .. Len(u) + Len(v) :
             (u \o v)[j] = IF j <= Len(u) THEN u[j] ELSE v[j - Len(u)]
    BY <1>1, <1>2, ConcatProperties
  <2>2. Len(s) \in Nat
    BY LenProperties
  <2>3. ASSUME NEW j \in 1 .. Len(s) - 1
        PROVE  (u \o v)[j] = IF j < i THEN s[j] ELSE s[j + 1]
    <3>1. CASE j < i
      BY <1>1, <1>2, <2>1, <2>2, <3>1
    <3>2. CASE ~(j < i)
      <4>1. (u \o v)[j] = v[j - (i - 1)] /\ j - (i - 1) \in 1 .. Len(s) - i
        BY <1>1, <1>2, <2>1, <2>2, <3>2, SMTT(30)
      <4> QED
        BY <4>1, <1>2, <2>2, <3>2
    <3> QED
      BY <3>1, <3>2
  <2> QED
    BY <1>1, <1>2, <2>1, <2>2, <2>3
<1> QED
  BY <1>3 DEF u, v

-----------------------------------------------------------------------------
(* What of TypeOK does not speak of the file and its loggers.              *)
SinkTypes == /\ sending \in [Loggers -> [body : Bodies \cup {NoBody}, left : SUBSET Sinks]]
             /\ \A l \in Loggers : sending[l].left # {} => sending[l].body \in Bodies
             /\ forwarded \in [Sinks -> Seq(Bodies)]
             /\ appended \in Seq(Bodies)
             /\ lost \subseteq Bodies
             /\ missed \subseteq Sinks \X Bodies

(* Every step keeps the types of what is forwarded and of the histories.   *)
LEMMA SinkTypeStep == SinkTypes /\ [Next]_vars => SinkTypes'
<1> SUFFICES ASSUME SinkTypes, [Next]_vars PROVE SinkTypes'
  OBVIOUS
<1>i. Idle \in [body : Bodies \cup {NoBody}, left : SUBSET Sinks] /\ Idle.left = {}
  BY DEF Idle
<1>u. ASSUME NEW S PROVE Untried(S) \subseteq Sinks \X Bodies
  BY DEF Untried
<1>1. ASSUME UNCHANGED <<sending, forwarded, appended, lost, missed>> PROVE SinkTypes'
  BY <1>1 DEF SinkTypes
<1>2. ASSUME NEW l \in Loggers, Crash(l) PROVE SinkTypes'
  BY <1>2, <1>i, <1>u DEF Crash, SinkTypes
<1>3. ASSUME NEW l \in Loggers, NEW body \in Bodies, log_call(l, body) PROVE SinkTypes'
  <2> DEFINE e == [body |-> body, left |-> Sinks]
  <2>1. e \in [body : Bodies \cup {NoBody}, left : SUBSET Sinks] /\ e.body \in Bodies
    OBVIOUS
  <2> HIDE DEF e
  <2>2. sending' = [sending EXCEPT ![l] = e]
    BY <1>3 DEF log_call, e
  <2> QED
    BY <1>3, <2>1, <2>2 DEF log_call, SinkTypes
<1>4. ASSUME NEW l \in Loggers, NEW s \in Sinks, NEW ok \in BOOLEAN,
             forward_best_effort(l, s, ok)
      PROVE  SinkTypes'
  <2>1. /\ sending[l].body \in Bodies
        /\ sending' = [sending EXCEPT ![l].left = sending[l].left \ {s}]
    BY <1>4 DEF forward_best_effort, SinkTypes
  <2>2. sending' \in [Loggers -> [body : Bodies \cup {NoBody}, left : SUBSET Sinks]]
    BY <2>1 DEF SinkTypes
  <2>3. \A m \in Loggers : sending'[m].left # {} => sending'[m].body \in Bodies
    BY <2>1 DEF SinkTypes
  <2>4. forwarded' \in [Sinks -> Seq(Bodies)] /\ missed' \subseteq Sinks \X Bodies
    <3>1. CASE ok = TRUE
      <4>1. Append(forwarded[s], sending[l].body) \in Seq(Bodies)
        BY <2>1 DEF SinkTypes
      <4>2. /\ forwarded' = [forwarded EXCEPT ![s] = Append(forwarded[s], sending[l].body)]
            /\ UNCHANGED missed
        BY <1>4, <3>1 DEF forward_best_effort
      <4> QED
        BY <4>1, <4>2 DEF SinkTypes
    <3>2. CASE ok = FALSE
      BY <1>4, <2>1, <3>2 DEF forward_best_effort, SinkTypes
    <3> QED
      BY <3>1, <3>2
  <2> QED
    BY <1>4, <2>2, <2>3, <2>4 DEF forward_best_effort, SinkTypes
<1>5. ASSUME NEW n, NEW last, PowerFails(n, last) PROVE SinkTypes'
  BY <1>5, <1>i, <1>u DEF PowerFails, SinkTypes
<1>6. ASSUME NEW l, NEW body, NEW line, NEW fault, NEW i,
             \/ Open(l) \/ log_call_torn(l, body, line, fault)
             \/ RemoveLine(i) \/ EditLine(i, body)
      PROVE  UNCHANGED <<sending, forwarded, appended, lost, missed>>
  BY <1>6 DEF Open, log_call_torn, RemoveLine, EditLine
<1> QED
  BY <1>1, <1>2, <1>3, <1>4, <1>5, <1>6 DEF Next, vars

(* What a stop of the machine leaves of the file.                          *)
LEMMA PowerLeaves ==
  ASSUME file \in Seq(Lines), NEW n \in 0 .. Len(file), NEW last, PowerFails(n, last)
  PROVE  /\ file' \in Seq(Lines) /\ Len(file') = n
         /\ \A k \in 1 .. n : file'[k] = file[k] \/ file'[k] = Unreadable
         /\ ~terminated' => n > 0 \/ ~terminated
<1>0. Len(file) \in Nat /\ Unreadable \in Lines
  BY DEF Lines
<1> DEFINE t == SubSeq(file, 1, n)
<1>1. /\ t \in Seq(Lines) /\ Len(t) = n
      /\ \A k \in 1 .. n : t[k] = file[k]
  <2>1. \A k \in 1 .. n : file[k] \in Lines
    BY <1>0, ElementOfSeq
  <2> QED
    BY <1>0, <2>1, SubSeqProperties, LenProperties
<1> HIDE DEF t
<1>2. CASE last = "cut"
  <2>1. file' = [t EXCEPT ![n] = Unreadable] /\ n \in 1 .. n
    BY <1>2, <1>0 DEF PowerFails, t
  <2>2. /\ file' \in Seq(Lines) /\ Len(file') = Len(t)
        /\ \A k \in 1 .. Len(t) : file'[k] = IF k = n THEN Unreadable ELSE t[k]
    BY <1>0, <1>1, <2>1, ExceptSeq
  <2> QED
    BY <1>0, <1>1, <2>1, <2>2
<1>3. CASE last # "cut"
  <2>1. file' = t
    BY <1>3 DEF PowerFails, t
  <2>2. ~terminated' => n > 0 \/ ~terminated
    BY DEF PowerFails
  <2> QED
    BY <1>1, <2>1, <2>2
<1> QED
  BY <1>2, <1>3

(* Every step keeps the types.                                             *)
LEMMA TypeStep == TypeOK /\ [Next]_vars => TypeOK'
<1> SUFFICES ASSUME TypeOK, [Next]_vars PROVE TypeOK'
  OBVIOUS
<1>0. /\ file \in Seq(Lines) /\ terminated \in BOOLEAN
      /\ prev_hash \in [Loggers -> Digests \cup {Closed}]
  BY DEF TypeOK
<1>s. SinkTypes'
  BY SinkTypeStep DEF TypeOK, SinkTypes
<1> DEFINE Good == /\ file' \in Seq(Lines) /\ terminated' \in BOOLEAN
                   /\ prev_hash' \in [Loggers -> Digests \cup {Closed}]
<1> SUFFICES Good
  BY <1>s DEF TypeOK, SinkTypes
<1>1. ASSUME NEW l \in Loggers, Open(l) PROVE Good
  <2>1. _load_last_hash \in Digests
    <3>1. CASE file = << >>
      BY <3>1 DEF _load_last_hash, GENESIS_HASH, Digests
    <3>2. CASE file # << >>
      <4>1. file[Len(file)] \in Lines
        BY <1>0, <3>2
      <4> QED
        BY <4>1, <3>2, LineFields DEF _load_last_hash
    <3> QED
      BY <3>1, <3>2
  <2> QED
    BY <1>0, <1>1, <2>1 DEF Open
<1>2. ASSUME NEW l \in Loggers, Crash(l) PROVE Good
  BY <1>0, <1>2 DEF Crash
<1>3. ASSUME NEW l \in Loggers, NEW body \in Bodies, log_call(l, body) PROVE Good
  <2>1. prev_hash[l] \in Digests
    BY <1>0, <1>3 DEF log_call, Ready
  <2>2. /\ Record(prev_hash[l], body) \in Lines
        /\ _compute_record_hash(prev_hash[l], body) \in Digests
    BY <2>1, RecordType DEF Lines, Contents
  <2>3. file' \in Seq(Lines)
    BY <1>0, <1>3, <2>2, WrittenType DEF log_call
  <2>4. prev_hash' \in [Loggers -> Digests \cup {Closed}]
    BY <1>0, <1>3, <2>2 DEF log_call
  <2> QED
    BY <1>3, <2>3, <2>4 DEF log_call
<1>4. ASSUME NEW l \in Loggers, NEW body \in Bodies, NEW fault \in Faults,
             NEW line \in {Unreadable, Record(prev_hash[l], body)},
             log_call_torn(l, body, line, fault)
      PROVE  Good
  <2>1. prev_hash[l] \in Digests
    BY <1>0, <1>4 DEF log_call_torn, Ready
  <2>2. line \in Lines
    BY <1>4, <2>1, RecordType DEF Lines, Contents
  <2>3. file' \in Seq(Lines)
    BY <1>0, <1>4, <2>2, WrittenType DEF log_call_torn
  <2>4. prev_hash' \in [Loggers -> Digests \cup {Closed}]
    BY <1>0, <1>4 DEF log_call_torn
  <2> QED
    BY <1>4, <2>3, <2>4 DEF log_call_torn
<1>5. ASSUME NEW i \in 1 .. Len(file), RemoveLine(i) PROVE Good
  <2>1. file' \in Seq(Lines)
    BY <1>0, <1>5, RemovalProperties DEF RemoveLine
  <2> QED
    BY <1>0, <1>5, <2>1 DEF RemoveLine
<1>6. ASSUME NEW i \in 1 .. Len(file), NEW body \in Edits, EditLine(i, body)
      PROVE  Good
  <2>1. file[i] \in Records
    BY <1>0, <1>6, ElementOfSeq DEF EditLine, Lines
  <2>2. [file[i] EXCEPT !.body = body] \in Lines
    BY <2>1 DEF Records, Lines
  <2>3. file' = [file EXCEPT ![i] = [file[i] EXCEPT !.body = body]]
    BY <1>6 DEF EditLine
  <2>4. file' \in Seq(Lines)
    BY <1>0, <2>2, <2>3, ExceptSeq
  <2> QED
    BY <1>0, <1>6, <2>4 DEF EditLine
<1>7. ASSUME NEW l, NEW s, NEW ok, forward_best_effort(l, s, ok) PROVE Good
  BY <1>0, <1>7 DEF forward_best_effort
<1>8. ASSUME NEW n \in 0 .. Len(file), NEW last, PowerFails(n, last) PROVE Good
  <2>1. file' \in Seq(Lines)
    BY <1>0, <1>8, PowerLeaves
  <2> QED
    BY <1>8, <2>1 DEF PowerFails
<1>9. CASE UNCHANGED vars
  BY <1>0, <1>9 DEF vars
<1> HIDE DEF Good
<1> QED
  BY <1>1, <1>2, <1>3, <1>4, <1>5, <1>6, <1>7, <1>8, <1>9 DEF Next

(* At the start everything has its type.                                   *)
LEMMA TypeInit == Init => TypeOK
  BY DEF Init, TypeOK, Digests, Idle

(* Type correctness, whatever faults occur and however many loggers share  *)
(* the file: a reopened logger always starts from a digest, and a write    *)
(* that ends early leaves a line or an unreadable line.                    *)
THEOREM TypeCorrect == Spec => []TypeOK
  BY TypeInit, TypeStep, PTL DEF Spec

-----------------------------------------------------------------------------
(* The verdict of verify_chain, with one logger at a time and no write     *)
(* that ends early.  What makes it inductive: a line still carries the     *)
(* hash it was written with, which is the digest of the log up to that     *)
(* record, however the contents were edited; the lines are in the order    *)
(* they were written in; and the last line and the open logger carry the   *)
(* digest of everything logged.                                            *)

PrefixOf(d, s) == Len(d) <= Len(s) /\ \A k \in 1 .. Len(d) : d[k] = s[k]

LineInv == \A i \in 1 .. Len(file) :
             /\ Len(file[i].hash) >= 1
             /\ PrefixOf(file[i].hash, appended)
             /\ Len(file[i].prev) = Len(file[i].hash) - 1
             /\ PrefixOf(file[i].prev, appended)
             /\ file[i].body \in Contents
             /\ file[i].body \in Edits \/ file[i].body = appended[Len(file[i].hash)]

OrderInv == \A i, j \in 1 .. Len(file) :
              i < j => Len(file[i].hash) < Len(file[j].hash)

TipInv == /\ file = << >> => appended = << >>
          /\ file # << >> => file[Len(file)].hash = appended

LoggerInv == \A l \in Loggers : prev_hash[l] # Closed =>
               /\ prev_hash[l] = appended
               /\ \A m \in Loggers : prev_hash[m] # Closed => m = l

FreshInv == \A i, j \in 1 .. Len(appended) : appended[i] = appended[j] => i = j

ChainInv == /\ TypeOK
            /\ terminated = TRUE
            /\ LineInv
            /\ OrderInv
            /\ TipInv
            /\ LoggerInv
            /\ FreshInv

(* Two prefixes of the same length are the same digest.                    *)
LEMMA PrefixesAgree ==
  ASSUME NEW d \in Digests, NEW e \in Digests, NEW s,
         PrefixOf(d, s), PrefixOf(e, s), Len(d) = Len(e)
  PROVE  d = e
<1>1. \A k \in 1 .. Len(d) : d[k] = e[k]
  BY DEF PrefixOf
<1> QED
  BY <1>1, SeqEqual DEF Digests

(* Types of the parts of a state in which ChainInv holds.                  *)
LEMMA ChainTypes ==
  ASSUME ChainInv
  PROVE  /\ Len(file) \in Nat /\ Len(appended) \in Nat
         /\ appended \in Digests
         /\ \A i \in 1 .. Len(file) : /\ file[i] \in Lines
                                      /\ file[i].hash \in Digests
                                      /\ file[i].prev \in Digests
                                      /\ Len(file[i].hash) \in Nat
         /\ \A i \in 1 .. Len(appended) : appended[i] \in Bodies
         /\ UnreadableLines = {}
<1>1. file \in Seq(Lines) /\ appended \in Seq(Bodies)
  BY DEF ChainInv, TypeOK
<1>2. Len(file) \in Nat /\ Len(appended) \in Nat
  BY <1>1
<1>3. appended \in Digests
  BY <1>1, SeqMonotonic DEF Digests
<1>4. \A i \in 1 .. Len(file) : file[i] \in Lines
  BY <1>1, ElementOfSeq
<1>5. \A i \in 1 .. Len(file) : file[i].hash \in Digests /\ file[i].prev \in Digests
  BY <1>4, LineFields
<1>6. \A i \in 1 .. Len(file) : Len(file[i].hash) \in Nat
  BY <1>5 DEF Digests
<1>7. \A i \in 1 .. Len(appended) : appended[i] \in Bodies
  BY <1>1, ElementOfSeq
<1>8. UnreadableLines = {}
  <2> SUFFICES ASSUME NEW i \in 1 .. Len(file), file[i] = Unreadable PROVE FALSE
    BY DEF UnreadableLines
  <2>1. Len(file[i].hash) = 0
    BY DEF Unreadable, GENESIS_HASH
  <2> QED
    BY <2>1 DEF ChainInv, LineInv
<1> QED
  BY <1>2, <1>3, <1>4, <1>5, <1>6, <1>7, <1>8

(* As long as no line is broken, the i-th line is the i-th record logged.  *)
LEMMA GoodLinesAreLogged ==
  ASSUME ChainInv, NEW m \in 1 .. Len(file) + 1,
         \A j \in 1 .. m - 1 : ~Broken(j)
  PROVE  \A j \in 1 .. m - 1 : /\ Len(file[j].hash) = j
                               /\ j <= Len(appended)
                               /\ file[j].body = appended[j]
<1> USE ChainTypes
<1>1. \A j \in 1 .. m - 1 : j \in 1 .. Len(file) /\ file[j].body \in Contents
  BY DEF ChainInv, LineInv
<1>2. \A j \in 1 .. m - 1 : /\ file[j].hash = Append(PrevHash(j), file[j].body)
                            /\ PrevHash(j) \in Digests
  BY <1>1 DEF Broken, _compute_record_hash, PrevHash, GENESIS_HASH, Digests
<1>3. \A j \in 1 .. m - 1 : /\ Len(file[j].hash) = Len(PrevHash(j)) + 1
                            /\ file[j].hash[Len(PrevHash(j)) + 1] = file[j].body
  BY <1>1, <1>2, AppendProperties DEF Digests, Contents
<1>4. \A j \in 1 .. m - 1 : Len(file[j].hash) = j
  <2> DEFINE Wrong == {j \in 1 .. m - 1 : Len(file[j].hash) # j}
  <2> SUFFICES ASSUME Wrong # {} PROVE FALSE
    OBVIOUS
  <2>1. PICK j \in Wrong : \A i \in Wrong : j <= i
    <3>1. Wrong \subseteq Nat
      OBVIOUS
    <3> QED
      BY <3>1, LeastExists
  <2>2. CASE j = 1
    <3>1. Len(PrevHash(j)) = 0
      BY <2>2 DEF PrevHash, GENESIS_HASH
    <3>2. j \in 1 .. m - 1 /\ Len(file[j].hash) # j
      BY <2>1
    <3>3. Len(file[j].hash) = Len(PrevHash(j)) + 1
      BY <1>3, <3>2
    <3> QED
      BY <2>2, <3>1, <3>2, <3>3
  <2>3. CASE j # 1
    <3>1. j - 1 \in 1 .. m - 1 /\ j - 1 \notin Wrong
      BY <2>1, <2>3
    <3>2. Len(PrevHash(j)) = j - 1
      BY <2>3, <3>1 DEF PrevHash
    <3> QED
      BY <1>3, <2>1, <3>2, SMTT(30)
  <2> QED
    BY <2>2, <2>3
<1>5. ASSUME NEW j \in 1 .. m - 1
      PROVE  j <= Len(appended) /\ file[j].body = appended[j]
  <2>1. file[j].hash[j] = file[j].body
    BY <1>2, <1>3, <1>4 DEF Digests
  <2>2. PrefixOf(file[j].hash, appended)
    BY <1>1 DEF ChainInv, LineInv
  <2> QED
    BY <1>4, <2>1, <2>2 DEF PrefixOf
<1> QED
  BY <1>4, <1>5

(* The first broken line is not what was logged there.                     *)
LEMMA FirstBrokenDeparts ==
  ASSUME ChainInv, NEW m \in 1 .. Len(file), Broken(m),
         \A j \in 1 .. m - 1 : ~Broken(j)
  PROVE  m \in Departures
<1> USE ChainTypes
<1> SUFFICES ASSUME m <= Len(appended), file[m].body = appended[m]
             PROVE  FALSE
  BY DEF Departures
<1>1. /\ Len(file[m].hash) >= 1
      /\ PrefixOf(file[m].hash, appended)
      /\ Len(file[m].prev) = Len(file[m].hash) - 1
      /\ PrefixOf(file[m].prev, appended)
      /\ file[m].body \in Edits \/ file[m].body = appended[Len(file[m].hash)]
  BY DEF ChainInv, LineInv
<1>2. appended[m] \in Bodies /\ appended[m] \notin Edits
  BY AuditLogAssumption
<1>3. Len(file[m].hash) = m
  <2>1. appended[m] = appended[Len(file[m].hash)]
    BY <1>1, <1>2
  <2>2. Len(file[m].hash) \in 1 .. Len(appended)
    BY <1>1 DEF PrefixOf
  <2> QED
    BY <2>1, <2>2 DEF ChainInv, FreshInv
<1>4. PrevHash(m) \in Digests /\ Len(PrevHash(m)) = m - 1 /\ PrefixOf(PrevHash(m), appended)
  <2>1. CASE m = 1
    BY <2>1 DEF PrevHash, GENESIS_HASH, Digests, PrefixOf
  <2>2. CASE m # 1
    <3>1. Len(file[m - 1].hash) = m - 1
      BY <2>2, GoodLinesAreLogged
    <3>2. PrefixOf(file[m - 1].hash, appended)
      BY <2>2 DEF ChainInv, LineInv
    <3> QED
      BY <2>2, <3>1, <3>2 DEF PrevHash
  <2> QED
    BY <2>1, <2>2
<1>5. file[m].prev = PrevHash(m)
  BY <1>1, <1>3, <1>4, PrefixesAgree
<1> DEFINE h == Append(PrevHash(m), file[m].body)
<1>6. /\ h \in Digests /\ Len(h) = m
      /\ \A k \in 1 .. m - 1 : h[k] = PrevHash(m)[k]
      /\ h[m] = file[m].body
  <2>1. file[m].body \in Contents
    BY <1>2 DEF Contents
  <2> QED
    BY <1>4, <2>1, AppendProperties DEF Digests, Contents
<1>7. PrefixOf(h, appended)
  <2> HIDE DEF h
  <2>1. ASSUME NEW k \in 1 .. m PROVE h[k] = appended[k]
    BY <1>4, <1>6 DEF PrefixOf
  <2> QED
    BY <1>6, <2>1 DEF PrefixOf
<1>8. file[m].hash = h
  <2> HIDE DEF h
  <2> QED
    BY <1>1, <1>3, <1>6, <1>7, PrefixesAgree
<1> QED
  BY <1>5, <1>8 DEF Broken, _compute_record_hash

(* ChainInv makes the verdict exact.                                       *)
LEMMA ChainInvVerdict == ChainInv => VerdictExact
<1> SUFFICES ASSUME ChainInv PROVE VerdictExact
  OBVIOUS
<1> USE ChainTypes
<1>1. CASE BadLines = {}
  <2>1. \A j \in 1 .. Len(file) : ~Broken(j)
    BY <1>1 DEF BadLines
  <2>2. \A j \in 1 .. Len(file) : /\ Len(file[j].hash) = j
                                  /\ j <= Len(appended)
                                  /\ file[j].body = appended[j]
    <3>1. Len(file) + 1 \in 1 .. Len(file) + 1 /\ (Len(file) + 1) - 1 = Len(file)
      OBVIOUS
    <3> QED
      BY <2>1, <3>1, GoodLinesAreLogged
  <2>3. Departures = {}
    BY <2>2 DEF Departures
  <2>4. Len(file) = Len(appended)
    <3>1. CASE file = << >>
      BY <3>1 DEF ChainInv, TipInv
    <3>2. CASE file # << >>
      <4>1. Len(file) \in 1 .. Len(file)
        <5>1. file \in Seq(Lines)
          BY DEF ChainInv, TypeOK
        <5> QED
          BY <3>2, <5>1, EmptySeq
      <4>2. file[Len(file)].hash = appended
        BY <3>2 DEF ChainInv, TipInv
      <4> QED
        BY <2>2, <4>1, <4>2
    <3> QED
      BY <3>1, <3>2
  <2> QED
    BY <1>1, <2>3, <2>4 DEF VerdictExact, verify_chain
<1>2. CASE BadLines # {}
  <2> DEFINE m == FirstBadLine
  <2>1. BadLines \subseteq 1 .. Len(file)
    BY DEF BadLines, UnreadableLines
  <2>2. m \in BadLines /\ \A j \in BadLines : m <= j
    <3>1. BadLines \subseteq Nat
      BY <2>1
    <3>2. \E i \in BadLines : \A j \in BadLines : i <= j
      BY <1>2, <3>1, LeastExists
    <3> QED
      BY <3>2 DEF FirstBadLine
  <2> HIDE DEF m
  <2>3. m \in 1 .. Len(file) /\ Broken(m)
    BY <2>1, <2>2 DEF BadLines
  <2>4. \A j \in 1 .. m - 1 : ~Broken(j)
    BY <2>1, <2>2, <2>3 DEF BadLines
  <2>5. m \in Departures
    BY <2>3, <2>4, FirstBrokenDeparts
  <2>6. \A i \in Departures : m <= i
    <3>1. \A j \in 1 .. m - 1 : j <= Len(appended) /\ file[j].body = appended[j]
      <4>1. m \in 1 .. Len(file) + 1
        BY <2>3
      <4> QED
        BY <4>1, <2>4, GoodLinesAreLogged
    <3> QED
      BY <2>3, <3>1 DEF Departures
  <2>7. verify_chain = [outcome |-> "broken", count |-> m - 1]
    BY <1>2, <2>3 DEF verify_chain, m
  <2> QED
    BY <2>3, <2>5, <2>6, <2>7 DEF VerdictExact
<1> QED
  BY <1>1, <1>2

(* ChainInv is inductive.                                                  *)
LEMMA ChainInvInit == Init => ChainInv
<1> SUFFICES ASSUME Init PROVE ChainInv
  OBVIOUS
<1>1. TypeOK /\ terminated = TRUE
  BY TypeInit DEF Init
<1>2. LineInv /\ OrderInv /\ FreshInv
  BY DEF Init, LineInv, OrderInv, FreshInv
<1>3. TipInv /\ LoggerInv
  BY DEF Init, TipInv, LoggerInv
<1> QED
  BY <1>1, <1>2, <1>3 DEF ChainInv

(* The chain invariant is inductive: every operation of the loggers and    *)
(* every edit of the file preserves it.                                    *)
LEMMA ChainInvStep ==
  ASSUME ~SharedFile, Faults \subseteq {"edit"}, ChainInv, [Next]_vars
  PROVE  ChainInv'
<1> USE ChainTypes
<1>0. TypeOK'
  BY TypeStep DEF ChainInv
<1>t. terminated = TRUE /\ LineInv /\ OrderInv /\ TipInv /\ LoggerInv /\ FreshInv
  BY DEF ChainInv
<1>p. file \in Seq(Lines) /\ prev_hash \in [Loggers -> Digests \cup {Closed}]
  BY DEF ChainInv, TypeOK
<1>1. ASSUME NEW l \in Loggers, Open(l) PROVE ChainInv'
  <2>1. UNCHANGED <<file, terminated, appended>>
    BY <1>1 DEF Open
  <2>2. _load_last_hash = appended
    BY <1>t DEF TipInv, _load_last_hash, GENESIS_HASH
  <2>3. /\ prev_hash'[l] = appended
        /\ \A m \in Loggers : m # l => prev_hash'[m] = Closed
    BY <1>1, <1>p, <2>2 DEF Open
  <2>4. LoggerInv'
    BY <2>1, <2>3 DEF LoggerInv
  <2>5. LineInv' /\ OrderInv' /\ TipInv' /\ FreshInv'
    BY <1>t, <2>1 DEF LineInv, OrderInv, TipInv, FreshInv
  <2> QED
    BY <1>0, <1>t, <2>1, <2>4, <2>5 DEF ChainInv
<1>2. ASSUME NEW l \in Loggers, Crash(l) PROVE ChainInv'
  <2>1. UNCHANGED <<file, terminated, appended>>
    BY <1>2 DEF Crash
  <2>2. \A m \in Loggers : prev_hash'[m] = prev_hash[m] \/ prev_hash'[m] = Closed
    BY <1>2, <1>p DEF Crash
  <2>3. LoggerInv'
    BY <1>t, <2>1, <2>2 DEF LoggerInv
  <2>4. LineInv' /\ OrderInv' /\ TipInv' /\ FreshInv'
    BY <1>t, <2>1 DEF LineInv, OrderInv, TipInv, FreshInv
  <2> QED
    BY <1>0, <1>t, <2>1, <2>3, <2>4 DEF ChainInv
<1>3. ASSUME NEW l \in Loggers, NEW body \in Bodies, log_call(l, body)
      PROVE  ChainInv'
  <2> DEFINE r == Record(appended, body)
             n == Len(appended)
  <2>1. prev_hash[l] = appended /\ \A m \in Loggers : m # l => prev_hash[m] = Closed
    BY <1>3, <1>t DEF log_call, Ready, LoggerInv
  <2>2. file' = Append(file, r) /\ terminated' = TRUE
    BY <1>3, <1>t, <2>1 DEF log_call, Written
  <2>3. /\ appended' = Append(appended, body)
        /\ Len(appended') = n + 1 /\ appended'[n + 1] = body
        /\ \A k \in 1 .. n : appended'[k] = appended[k]
    BY <1>3, AppendProperties DEF log_call, ChainInv, TypeOK
  <2>4. r.body = body /\ r.prev = appended /\ r.hash = appended'
    BY <2>3 DEF Record, _compute_record_hash
  <2>5. /\ Len(file') = Len(file) + 1 /\ file'[Len(file) + 1] = r
        /\ \A i \in 1 .. Len(file) : file'[i] = file[i]
    <3>1. r \in Lines
      BY RecordType DEF Lines, Contents
    <3> QED
      BY <2>2, <3>1, <1>p, AppendProperties
  <2> HIDE DEF r
  <2>6. LineInv'
    <3> SUFFICES ASSUME NEW i \in 1 .. Len(file')
                 PROVE  /\ Len(file'[i].hash) >= 1
                        /\ PrefixOf(file'[i].hash, appended')
                        /\ Len(file'[i].prev) = Len(file'[i].hash) - 1
                        /\ PrefixOf(file'[i].prev, appended')
                        /\ file'[i].body \in Contents
                        /\ \/ file'[i].body \in Edits
                           \/ file'[i].body = appended'[Len(file'[i].hash)]
      BY DEF LineInv
    <3>1. CASE i \in 1 .. Len(file)
      <4>1. /\ Len(file[i].hash) >= 1
            /\ PrefixOf(file[i].hash, appended)
            /\ Len(file[i].prev) = Len(file[i].hash) - 1
            /\ PrefixOf(file[i].prev, appended)
            /\ file[i].body \in Contents
            /\ file[i].body \in Edits \/ file[i].body = appended[Len(file[i].hash)]
        BY <1>t, <3>1 DEF LineInv
      <4>2. file'[i] = file[i]
        BY <2>5, <3>1
      <4>3. PrefixOf(file[i].hash, appended') /\ PrefixOf(file[i].prev, appended')
        BY <2>3, <3>1, <4>1 DEF PrefixOf
      <4>4. Len(file[i].hash) \in 1 .. n
        BY <3>1, <4>1 DEF PrefixOf
      <4> QED
        BY <2>3, <4>1, <4>2, <4>3, <4>4
    <3>2. CASE i = Len(file) + 1
      <4>1. PrefixOf(appended', appended') /\ PrefixOf(appended, appended')
        BY <2>3 DEF PrefixOf
      <4>2. /\ file'[i].hash = appended' /\ file'[i].prev = appended
            /\ file'[i].body = body
        BY <2>4, <2>5, <3>2
      <4>3. /\ Len(appended') >= 1 /\ Len(appended) = Len(appended') - 1
            /\ body \in Contents /\ body = appended'[Len(appended')]
        BY <2>3 DEF Contents
      <4> QED
        BY <4>1, <4>2, <4>3
    <3> QED
      BY <2>5, <3>1, <3>2
  <2>7. OrderInv'
    <3>1. \A i \in 1 .. Len(file) : Len(file[i].hash) <= n
      BY <1>t DEF LineInv, PrefixOf
    <3>2. Len(file'[Len(file) + 1].hash) = n + 1
      BY <2>3, <2>4, <2>5
    <3> SUFFICES ASSUME NEW i \in 1 .. Len(file'), NEW j \in 1 .. Len(file'), i < j
                 PROVE  Len(file'[i].hash) < Len(file'[j].hash)
      BY DEF OrderInv
    <3>3. i \in 1 .. Len(file) /\ file'[i] = file[i]
      BY <2>5
    <3>4. CASE j \in 1 .. Len(file)
      <4>1. file'[j] = file[j]
        BY <2>5, <3>4
      <4> QED
        BY <1>t, <3>3, <3>4, <4>1 DEF OrderInv
    <3>5. CASE j = Len(file) + 1
      BY <3>1, <3>2, <3>3, <3>5
    <3>6. j \in 1 .. Len(file) \/ j = Len(file) + 1
      BY <2>5
    <3> QED
      BY <3>4, <3>5, <3>6
  <2>8. TipInv'
    <3>1. file' # << >>
      BY <2>5
    <3> QED
      BY <2>4, <2>5, <3>1 DEF TipInv
  <2>9. LoggerInv'
    <3>1. /\ prev_hash'[l] = appended'
          /\ \A m \in Loggers : m # l => prev_hash'[m] = Closed
      BY <1>3, <1>p, <2>1, <2>3 DEF log_call, _compute_record_hash
    <3> QED
      BY <3>1 DEF LoggerInv
  <2>10. FreshInv'
    <3>1. \A k \in 1 .. n : appended[k] # body
      BY <1>3 DEF log_call, Fresh
    <3> QED
      BY <1>t, <2>3, <3>1 DEF FreshInv
  <2> QED
    BY <1>0, <2>2, <2>6, <2>7, <2>8, <2>9, <2>10 DEF ChainInv
<1>4. ASSUME NEW i \in 1 .. Len(file), RemoveLine(i) PROVE ChainInv'
  <2>1. UNCHANGED <<terminated, prev_hash, appended>> /\ i < Len(file)
    BY <1>4 DEF RemoveLine
  <2>2. /\ Len(file') = Len(file) - 1
        /\ \A j \in 1 .. Len(file) - 1 : file'[j] = IF j < i THEN file[j] ELSE file[j + 1]
    BY <1>4, <1>p, RemovalProperties DEF RemoveLine
  <2> DEFINE From(j) == IF j < i THEN j ELSE j + 1
  <2>3. \A j \in 1 .. Len(file') : From(j) \in 1 .. Len(file) /\ file'[j] = file[From(j)]
    BY <2>1, <2>2
  <2>s. \A j, k \in 1 .. Len(file') : j < k => From(j) < From(k)
    BY <2>2
  <2> HIDE DEF From
  <2>6. LineInv'
    BY <1>t, <2>1, <2>3, SMTT(30) DEF LineInv
  <2>7. OrderInv'
    BY <1>t, <2>1, <2>3, <2>s DEF OrderInv
  <2>4. TipInv'
    <3>1. file # << >> /\ file' # << >> /\ file'[Len(file')] = file[Len(file)]
      BY <2>1, <2>2
    <3> QED
      BY <1>t, <2>1, <3>1 DEF TipInv
  <2>5. LoggerInv' /\ FreshInv'
    BY <1>t, <2>1 DEF LoggerInv, FreshInv
  <2> QED
    BY <1>0, <1>t, <2>1, <2>4, <2>5, <2>6, <2>7 DEF ChainInv
<1>5. ASSUME NEW i \in 1 .. Len(file), NEW body \in Edits, EditLine(i, body)
      PROVE  ChainInv'
  <2>1. UNCHANGED <<terminated, prev_hash, appended>>
    BY <1>5 DEF EditLine
  <2>2. file[i] \in Records
    BY <1>5 DEF EditLine, Lines
  <2>3. /\ Len(file') = Len(file)
        /\ \A j \in 1 .. Len(file) : /\ file'[j].hash = file[j].hash
                                     /\ file'[j].prev = file[j].prev
                                     /\ file'[j].body = IF j = i THEN body ELSE file[j].body
    <3> DEFINE e == [file[i] EXCEPT !.body = body]
    <3>1. e.hash = file[i].hash /\ e.prev = file[i].prev /\ e.body = body /\ e \in Lines
      BY <2>2 DEF Records, Lines
    <3>2. file' = [file EXCEPT ![i] = e]
      BY <1>5 DEF EditLine
    <3> HIDE DEF e
    <3>3. /\ Len(file') = Len(file)
          /\ \A j \in 1 .. Len(file) : file'[j] = IF j = i THEN e ELSE file[j]
      BY <1>p, <3>1, <3>2, ExceptSeq
    <3> QED
      BY <3>1, <3>3
  <2>4. LineInv' /\ OrderInv'
    BY <1>t, <2>1, <2>3 DEF LineInv, OrderInv, Contents
  <2>5. TipInv'
    <3>1. file # << >> /\ file' # << >> /\ Len(file) \in 1 .. Len(file)
      BY <2>3
    <3> QED
      BY <1>t, <2>1, <2>3, <3>1 DEF TipInv
  <2>6. LoggerInv' /\ FreshInv'
    BY <1>t, <2>1 DEF LoggerInv, FreshInv
  <2> QED
    BY <1>0, <1>t, <2>1, <2>4, <2>5, <2>6 DEF ChainInv
<1>6. CASE UNCHANGED vars
  BY <1>0, <1>t, <1>6 DEF vars, ChainInv, LineInv, OrderInv, TipInv, LoggerInv, FreshInv
<1>7. ASSUME NEW l, NEW s, NEW ok, forward_best_effort(l, s, ok) PROVE ChainInv'
  <2>1. UNCHANGED <<file, terminated, prev_hash, appended>>
    BY <1>7 DEF forward_best_effort
  <2> QED
    BY <1>0, <1>t, <2>1 DEF ChainInv, LineInv, OrderInv, TipInv, LoggerInv, FreshInv
<1>8. ASSUME NEW l, NEW body, NEW line, NEW fault PROVE ~log_call_torn(l, body, line, fault)
  BY DEF log_call_torn
<1>9. ASSUME NEW n, NEW last PROVE ~PowerFails(n, last)
  BY DEF PowerFails
<1> QED
  BY <1>1, <1>2, <1>3, <1>4, <1>5, <1>6, <1>7, <1>8, <1>9 DEF Next

(* With one logger at a time and no write that ends early, verify_chain    *)
(* finds the first line that is not what was logged, for any number of     *)
(* records, edits, removals and restarts.                                  *)
THEOREM VerdictIsExact ==
  ASSUME ~SharedFile, Faults \subseteq {"edit"}
  PROVE  Spec => []VerdictExact
<1>1. ChainInv /\ [Next]_vars => ChainInv'
  BY ChainInvStep
<1> QED
  BY <1>1, ChainInvInit, ChainInvVerdict, PTL DEF Spec

-----------------------------------------------------------------------------
(* Without edits the file is what was logged, so the verdict is "valid".   *)
IntactInv == /\ Len(file) = Len(appended)
             /\ \A i \in 1 .. Len(file) : file[i].body = appended[i]

(* Without faults and with one logger at a time, opening, appending and    *)
(* crashing keep the log intact.                                           *)
LEMMA IntactStep ==
  ASSUME ~SharedFile, Faults = {}, ChainInv, IntactInv, [Next]_vars
  PROVE  IntactInv'
<1> USE ChainTypes
<1>1. ASSUME NEW l \in Loggers, NEW body \in Bodies, log_call(l, body)
      PROVE  IntactInv'
  <2> DEFINE r == Record(prev_hash[l], body)
  <2>1. prev_hash[l] = appended
    BY <1>1 DEF log_call, Ready, ChainInv, LoggerInv
  <2>2. r \in Lines /\ r.body = body
    BY <2>1, RecordType DEF Lines, Contents, Record
  <2>3. file' = Append(file, r) /\ appended' = Append(appended, body)
    BY <1>1 DEF log_call, Written, ChainInv
  <2> HIDE DEF r
  <2>4. /\ Len(file') = Len(file) + 1 /\ file'[Len(file) + 1] = r
        /\ \A i \in 1 .. Len(file) : file'[i] = file[i]
    BY <2>2, <2>3, AppendProperties DEF ChainInv, TypeOK
  <2>5. /\ Len(appended') = Len(appended) + 1 /\ appended'[Len(appended) + 1] = body
        /\ \A i \in 1 .. Len(appended) : appended'[i] = appended[i]
    BY <2>3, AppendProperties DEF ChainInv, TypeOK
  <2> QED
    BY <2>2, <2>4, <2>5 DEF IntactInv
<1>2. ASSUME UNCHANGED <<file, appended>> PROVE IntactInv'
  BY <1>2 DEF IntactInv
<1>3. ASSUME NEW l, NEW s, NEW ok, Open(l) \/ Crash(l) \/ forward_best_effort(l, s, ok)
      PROVE  IntactInv'
  BY <1>2, <1>3 DEF Open, Crash, forward_best_effort
<1>4. ASSUME NEW i, NEW body, NEW l, NEW line, NEW fault
      PROVE  /\ ~EditLine(i, body) /\ ~RemoveLine(i) /\ ~PowerFails(i, line)
             /\ ~log_call_torn(l, body, line, fault)
  BY DEF EditLine, RemoveLine, PowerFails, log_call_torn
<1> QED
  BY <1>1, <1>2, <1>3, <1>4 DEF Next, vars

(* A logger that opens the log continues a chain that verify_chain         *)
(* accepts, over any number of restarts, as long as one logger is open at  *)
(* a time, no write ends early and nobody edits the file.                  *)
THEOREM RestartsKeepLogValid ==
  ASSUME ~SharedFile, Faults = {}
  PROVE  Spec => []OpenLogVerifies
<1> DEFINE Inv == ChainInv /\ IntactInv
<1>1. Init => Inv
  BY ChainInvInit DEF Init, IntactInv
<1>2. Inv /\ [Next]_vars => Inv'
  <2> SUFFICES ASSUME ChainInv, IntactInv, [Next]_vars PROVE ChainInv' /\ IntactInv'
    OBVIOUS
  <2>1. ChainInv'
    BY ChainInvStep
  <2> QED
    BY <2>1, IntactStep
<1>3. Inv => OpenLogVerifies
  <2> SUFFICES ASSUME ChainInv, IntactInv PROVE verify_chain.outcome = "valid"
    BY DEF OpenLogVerifies
  <2>1. Departures = {}
    BY ChainTypes DEF IntactInv, Departures
  <2> QED
    BY <2>1, ChainInvVerdict DEF VerdictExact
<1> QED
  BY <1>1, <1>2, <1>3, PTL DEF Spec

-----------------------------------------------------------------------------
(* Records that were written, when writes may end early and machines stop. *)

(* What can happen to the file when nobody edits it: a line is put at its  *)
(* end, its last line becomes unreadable, or the machine stops.            *)
Grown(x)  == file' = Append(file, x)
Spoiled   == file' = [file EXCEPT ![Len(file)] = Unreadable]
Appends(x) == (~terminated => Spoiled) /\ (terminated => Grown(x))
Stops     == \E n \in 0 .. Len(file), last \in {"whole", "open", "cut"} : PowerFails(n, last)

(* How each step changes the file and the log, without edits.              *)
LEMMA FileStep ==
  ASSUME TypeOK, "edit" \notin Faults, [Next]_vars
  PROVE  \/ UNCHANGED <<file, terminated, appended, lost>>
         \/ \E x \in Lines :
              /\ Appends(x)
              /\ UNCHANGED lost
              /\ \/ /\ terminated' = TRUE
                    /\ x.body \in Bodies /\ Fresh(x.body)
                    /\ appended' = Append(appended, x.body)
                 \/ /\ terminated' = FALSE
                    /\ x = Unreadable \/ (x.body \in Bodies /\ Fresh(x.body))
                    /\ UNCHANGED appended
         \/ Stops
<1>0. prev_hash \in [Loggers -> Digests \cup {Closed}] /\ terminated \in BOOLEAN
  BY DEF TypeOK
<1>r. ASSUME NEW l \in Loggers, NEW body \in Bodies, prev_hash[l] # Closed
      PROVE  Record(prev_hash[l], body) \in Lines /\ Record(prev_hash[l], body).body = body
  <2>1. prev_hash[l] \in Digests
    BY <1>0, <1>r
  <2> QED
    BY <2>1, RecordType DEF Lines, Contents, Record
<1>w. ASSUME NEW x, file' = Written(x) PROVE Appends(x)
  BY <1>w DEF Written, Spoiled, Grown, Appends
<1>1. ASSUME NEW l \in Loggers, NEW body \in Bodies, log_call(l, body)
      PROVE  \E x \in Lines : /\ Appends(x) /\ UNCHANGED lost
                              /\ terminated' = TRUE
                              /\ x.body \in Bodies /\ Fresh(x.body)
                              /\ appended' = Append(appended, x.body)
  <2>1. /\ prev_hash[l] # Closed /\ file' = Written(Record(prev_hash[l], body))
        /\ terminated' = TRUE /\ appended' = Append(appended, body)
        /\ UNCHANGED lost /\ Fresh(body)
    BY <1>1 DEF log_call, Ready
  <2> QED
    BY <1>r, <1>w, <2>1
<1>2. ASSUME NEW l \in Loggers, NEW body \in Bodies, NEW fault \in Faults,
             NEW line \in {Unreadable, Record(prev_hash[l], body)},
             log_call_torn(l, body, line, fault)
      PROVE  \E x \in Lines : /\ Appends(x) /\ UNCHANGED lost
                              /\ terminated' = FALSE
                              /\ x = Unreadable \/ (x.body \in Bodies /\ Fresh(x.body))
                              /\ UNCHANGED appended
  <2>1. /\ prev_hash[l] # Closed /\ file' = Written(line)
        /\ terminated' = FALSE /\ UNCHANGED <<appended, lost>> /\ Fresh(body)
    BY <1>2 DEF log_call_torn, Ready
  <2>2. line \in Lines /\ (line = Unreadable \/ (line.body \in Bodies /\ Fresh(line.body)))
    <3>1. CASE line = Unreadable
      BY <3>1, Zenon DEF Lines
    <3>2. CASE line = Record(prev_hash[l], body)
      BY <1>r, <2>1, <3>2
    <3> QED
      BY <3>1, <3>2
  <2> QED
    BY <1>w, <2>1, <2>2
<1>3. ASSUME NEW l, NEW s, NEW ok, Open(l) \/ Crash(l) \/ forward_best_effort(l, s, ok)
      PROVE  UNCHANGED <<file, terminated, appended, lost>>
  BY <1>3 DEF Open, Crash, forward_best_effort
<1>4. ASSUME NEW i, NEW body PROVE ~EditLine(i, body) /\ ~RemoveLine(i)
  BY DEF EditLine, RemoveLine
<1>5. CASE UNCHANGED vars
  BY <1>5 DEF vars
<1> QED
  BY <1>1, <1>2, <1>3, <1>4, <1>5 DEF Next, Stops

(* The elements of a file that grew or was spoiled.                        *)
LEMMA FileElements ==
  ASSUME file \in Seq(Lines)
  PROVE  /\ \A x \in Lines : Grown(x) =>
              /\ Len(file') = Len(file) + 1 /\ file'[Len(file) + 1] = x
              /\ \A i \in 1 .. Len(file) : file'[i] = file[i]
         /\ Spoiled =>
              /\ Len(file') = Len(file)
              /\ \A i \in 1 .. Len(file) :
                   file'[i] = IF i = Len(file) THEN Unreadable ELSE file[i]
<1>0. Len(file) \in Nat
  OBVIOUS
<1>1. ASSUME NEW x \in Lines, Grown(x)
      PROVE  /\ Len(file') = Len(file) + 1 /\ file'[Len(file) + 1] = x
             /\ \A i \in 1 .. Len(file) : file'[i] = file[i]
  BY <1>1, AppendProperties DEF Grown
<1>2. ASSUME Spoiled
      PROVE  /\ Len(file') = Len(file)
             /\ \A i \in 1 .. Len(file) :
                  file'[i] = IF i = Len(file) THEN Unreadable ELSE file[i]
  <2>1. CASE Len(file) = 0
    <3>1. file' = file
      BY <1>2, <2>1, LenProperties DEF Spoiled
    <3> QED
      BY <2>1, <3>1
  <2>2. CASE Len(file) # 0
    <3>1. Len(file) \in 1 .. Len(file) /\ Unreadable \in Lines
      BY <1>0, <2>2 DEF Lines
    <3> QED
      BY <1>2, <3>1, ExceptSeq DEF Spoiled
  <2> QED
    BY <2>1, <2>2
<1> QED
  BY <1>1, <1>2

(* Where bodies can be after an append or a stop of the machine: a line    *)
(* with a body is at the place it had before, or is the new one.           *)
LEMMA LinesStay ==
  ASSUME file \in Seq(Lines), (\E x \in Lines : Appends(x)) \/ Stops
  PROVE  /\ Len(file') \in Nat
         /\ \A x \in Lines : Appends(x) =>
              \A k \in 1 .. Len(file') : file'[k].body \in Bodies =>
                \/ k \in 1 .. Len(file) /\ file'[k] = file[k]
                \/ k = Len(file) + 1 /\ file'[k] = x
         /\ Stops => \A k \in 1 .. Len(file') : file'[k].body \in Bodies =>
                      k \in 1 .. Len(file) /\ file'[k] = file[k]
<1>0. Len(file) \in Nat /\ Unreadable.body \notin Bodies
  BY AuditLogAssumption DEF Unreadable
<1>1. ASSUME NEW x \in Lines, Appends(x)
      PROVE  /\ Len(file') \in Nat
             /\ \A k \in 1 .. Len(file') : file'[k].body \in Bodies =>
                  \/ k \in 1 .. Len(file) /\ file'[k] = file[k]
                  \/ k = Len(file) + 1 /\ file'[k] = x
  <2>1. CASE Spoiled
    BY <1>0, <2>1, FileElements
  <2>2. CASE Grown(x)
    BY <1>0, <2>2, FileElements
  <2> QED
    BY <1>1, <2>1, <2>2 DEF Appends
<1>2. ASSUME Stops
      PROVE  /\ Len(file') \in Nat
             /\ \A k \in 1 .. Len(file') : file'[k].body \in Bodies =>
                  k \in 1 .. Len(file) /\ file'[k] = file[k]
  <2>1. PICK n \in 0 .. Len(file), last \in {"whole", "open", "cut"} : PowerFails(n, last)
    BY <1>2 DEF Stops
  <2>2. Len(file') = n /\ \A k \in 1 .. n : file'[k] = file[k] \/ file'[k] = Unreadable
    BY <2>1, PowerLeaves
  <2> QED
    BY <1>0, <2>2
<1> QED
  BY <1>1, <1>2

(* InFileOrder with the file as a parameter.                               *)
Ordered(s, f) ==
  \A i, j \in 1 .. Len(s), k, m \in 1 .. Len(f) :
    i < j /\ f[k].body = s[i] /\ f[m].body = s[j] => k < m

(* Bodies that stay at their places, or go, stay in order.                 *)
LEMMA OrderStays ==
  ASSUME NEW s, NEW f, NEW g, Ordered(s, f),
         \A i \in 1 .. Len(s), k \in 1 .. Len(g) :
           g[k].body = s[i] => k \in 1 .. Len(f) /\ f[k].body = s[i]
  PROVE  Ordered(s, g)
<1> SUFFICES ASSUME NEW i \in 1 .. Len(s), NEW j \in 1 .. Len(s),
                    NEW k \in 1 .. Len(g), NEW m \in 1 .. Len(g),
                    i < j, g[k].body = s[i], g[m].body = s[j]
             PROVE  k < m
  BY DEF Ordered
<1>1. /\ k \in 1 .. Len(f) /\ f[k].body = s[i]
      /\ m \in 1 .. Len(f) /\ f[m].body = s[j]
  OBVIOUS
<1> QED
  BY <1>1 DEF Ordered

(* A body put behind s stays in order if the places it has in the file are *)
(* behind those of all others of s.                                        *)
LEMMA OrderGrows ==
  ASSUME NEW s \in Seq(Bodies), NEW x \in Bodies, NEW f, Ordered(s, f),
         \A i \in 1 .. Len(s), k, m \in 1 .. Len(f) :
           f[k].body = s[i] /\ f[m].body = x => k < m
  PROVE  Ordered(Append(s, x), f)
<1> DEFINE t == Append(s, x)
<1>1. /\ Len(s) \in Nat /\ Len(t) = Len(s) + 1 /\ t[Len(s) + 1] = x
      /\ \A i \in 1 .. Len(s) : t[i] = s[i]
  BY AppendProperties
<1> HIDE DEF t
<1>2. Ordered(t, f)
  <2> SUFFICES ASSUME NEW i \in 1 .. Len(t), NEW j \in 1 .. Len(t),
                      NEW k \in 1 .. Len(f), NEW m \in 1 .. Len(f),
                      i < j, f[k].body = t[i], f[m].body = t[j]
               PROVE  k < m
    BY DEF Ordered
  <2>1. i \in 1 .. Len(s) /\ f[k].body = s[i]
    BY <1>1
  <2>2. CASE j \in 1 .. Len(s)
    BY <1>1, <2>1, <2>2 DEF Ordered
  <2>3. CASE j = Len(s) + 1
    BY <1>1, <2>1, <2>3
  <2> QED
    BY <1>1, <2>2, <2>3
<1> QED
  BY <1>2 DEF t

(* Inductive: as long as every line can be read, what was written is in    *)
(* the file or was taken by a stop of the machine; what is in the file is  *)
(* in order; a file that ends in the middle of a line is not empty.        *)
Held == \A i \in 1 .. Len(appended) : appended[i] \in lost \/ InFile(appended[i])

KeepInv == /\ TypeOK
           /\ ~terminated => file # << >>
           /\ UnreadableLines = {} => Held
           /\ Ordered(appended, file)

(* Every step without edits keeps KeepInv.                                 *)
LEMMA KeepStep ==
  ASSUME "edit" \notin Faults, KeepInv, [Next]_vars
  PROVE  KeepInv'
<1>0. /\ TypeOK /\ TypeOK' /\ file \in Seq(Lines) /\ appended \in Seq(Bodies)
      /\ Len(file) \in Nat /\ terminated \in BOOLEAN
  BY TypeStep DEF KeepInv, TypeOK
<1>k. /\ ~terminated => file # << >>
      /\ UnreadableLines = {} => Held
      /\ Ordered(appended, file)
  BY DEF KeepInv
<1>a. \A i \in 1 .. Len(appended) : appended[i] \in Bodies
  BY <1>0, ElementOfSeq
<1>1. CASE UNCHANGED <<file, terminated, appended, lost>>
  <2>1. UnreadableLines' = UnreadableLines /\ (Held' <=> Held)
    BY <1>1 DEF UnreadableLines, Held, InFile
  <2> QED
    BY <1>0, <1>1, <1>k, <2>1 DEF KeepInv
<1>2. ASSUME NEW x \in Lines, Appends(x), UNCHANGED lost,
             \/ /\ terminated' = TRUE
                /\ x.body \in Bodies /\ Fresh(x.body)
                /\ appended' = Append(appended, x.body)
             \/ /\ terminated' = FALSE
                /\ x = Unreadable \/ (x.body \in Bodies /\ Fresh(x.body))
                /\ UNCHANGED appended
      PROVE  KeepInv'
  <2>1. /\ Len(file') \in Nat
        /\ \A k \in 1 .. Len(file') : file'[k].body \in Bodies =>
             \/ k \in 1 .. Len(file) /\ file'[k] = file[k]
             \/ k = Len(file) + 1 /\ file'[k] = x
    BY <1>0, <1>2, LinesStay
  <2>2. /\ \A i \in 1 .. Len(appended) : appended[i] # x.body
        /\ x.body \in Bodies => \A k \in 1 .. Len(file) : file[k].body # x.body
    BY <1>2, <1>a, AuditLogAssumption DEF Fresh, Unreadable
  <2>3. Ordered(appended, file')
    BY <1>a, <1>k, <2>1, <2>2, OrderStays
  <2>4. Ordered(appended', file')
    <3>1. CASE UNCHANGED appended
      BY <2>3, <3>1
    <3>2. CASE x.body \in Bodies /\ appended' = Append(appended, x.body)
      <4>1. ASSUME NEW i \in 1 .. Len(appended),
                   NEW k \in 1 .. Len(file'), NEW m \in 1 .. Len(file'),
                   file'[k].body = appended[i], file'[m].body = x.body
            PROVE  k < m
        <5>1. k \in 1 .. Len(file)
          BY <1>a, <2>1, <2>2, <4>1
        <5>2. m = Len(file) + 1
          BY <2>1, <2>2, <3>2, <4>1
        <5> QED
          BY <1>0, <5>1, <5>2
      <4> QED
        BY <1>0, <2>3, <3>2, <4>1, OrderGrows
    <3> QED
      BY <1>2, <3>1, <3>2
  <2>5. file' # << >> /\ (UnreadableLines' = {} => Held')
    <3>1. CASE ~terminated
      <4>1. Spoiled /\ Len(file) \in 1 .. Len(file)
        BY <1>0, <1>2, <1>k, <3>1 DEF Appends
      <4>2. Len(file') = Len(file) /\ file'[Len(file)] = Unreadable
        BY <1>0, <4>1, FileElements
      <4> QED
        BY <4>1, <4>2 DEF UnreadableLines
    <3>2. CASE terminated
      <4>1. /\ Len(file') = Len(file) + 1 /\ file'[Len(file) + 1] = x
            /\ \A i \in 1 .. Len(file) : file'[i] = file[i]
        BY <1>0, <1>2, <3>2, FileElements DEF Appends
      <4>2. ASSUME UnreadableLines' = {} PROVE Held'
        <5>1. UnreadableLines = {}
          BY <1>0, <4>1, <4>2 DEF UnreadableLines
        <5>2. \A i \in 1 .. Len(appended) :
                appended[i] \in lost \/ \E k \in 1 .. Len(file') : file'[k].body = appended[i]
          BY <1>0, <1>k, <4>1, <5>1 DEF Held, InFile
        <5>3. CASE UNCHANGED appended
          BY <1>2, <5>2, <5>3 DEF Held, InFile
        <5>4. CASE x.body \in Bodies /\ appended' = Append(appended, x.body)
          <6>1. /\ Len(appended) \in Nat /\ Len(appended') = Len(appended) + 1
                /\ appended'[Len(appended) + 1] = x.body
                /\ \A i \in 1 .. Len(appended) : appended'[i] = appended[i]
            BY <1>0, <5>4, AppendProperties
          <6>2. Len(file) + 1 \in 1 .. Len(file')
            BY <1>0, <4>1
          <6>3. \A i \in 1 .. Len(appended') :
                  appended'[i] \in lost \/ \E k \in 1 .. Len(file') : file'[k].body = appended'[i]
            BY <4>1, <5>2, <6>1, <6>2
          <6> QED
            BY <1>2, <6>3 DEF Held, InFile
        <5> QED
          BY <1>2, <5>3, <5>4
      <4> QED
        BY <1>0, <4>1, <4>2
    <3> QED
      BY <1>0, <3>1, <3>2
  <2> QED
    BY <1>0, <2>4, <2>5 DEF KeepInv
<1>3. CASE Stops
  <2>1. PICK n \in 0 .. Len(file), last \in {"whole", "open", "cut"} : PowerFails(n, last)
    BY <1>3 DEF Stops
  <2>2. Len(file') = n /\ UNCHANGED appended
    BY <1>0, <2>1, PowerLeaves DEF PowerFails
  <2>3. ~terminated' => file' # << >>
    <3>1. CASE last = "whole" /\ n = Len(file)
      <4>1. ~terminated => Len(file) > 0
        BY <1>0, <1>k
      <4>2. terminated' = terminated
        BY <1>0, <2>1, <3>1 DEF PowerFails
      <4> QED
        BY <2>2, <3>1, <4>1, <4>2
    <3>2. CASE last # "whole" \/ n # Len(file)
      <4>1. ~terminated' => n > 0
        BY <1>0, <2>1, <3>2 DEF PowerFails
      <4> QED
        BY <2>2, <4>1
    <3> QED
      BY <3>1, <3>2
  <2>4. Held'
    <3> SUFFICES ASSUME NEW i \in 1 .. Len(appended)
                 PROVE  \/ appended[i] \in lost'
                        \/ \E k \in 1 .. Len(file') : file'[k].body = appended[i]
      BY <2>2 DEF Held, InFile
    <3> QED
      BY <1>a, <2>1 DEF PowerFails
  <2>5. Ordered(appended', file')
    <3>1. \A k \in 1 .. Len(file') : file'[k].body \in Bodies =>
            k \in 1 .. Len(file) /\ file'[k] = file[k]
      BY <1>0, <1>3, LinesStay
    <3>2. Ordered(appended, file')
      BY <1>a, <1>k, <3>1, OrderStays
    <3> QED
      BY <2>2, <3>2
  <2> QED
    BY <1>0, <2>3, <2>4, <2>5 DEF KeepInv
<1> QED
  BY <1>0, <1>1, <1>2, <1>3, FileStep

(* KeepInv holds at the start.                                             *)
LEMMA KeepInit == Init => KeepInv
<1> SUFFICES ASSUME Init PROVE KeepInv
  OBVIOUS
<1>1. TypeOK /\ terminated /\ Len(appended) = 0
  BY TypeInit DEF Init
<1> QED
  BY <1>1 DEF KeepInv, Held, Ordered

(* As long as nobody edits the file, a log that verify_chain calls valid   *)
(* holds every record that was written, in order, except those a stop of   *)
(* the machine took, however many loggers write to it at once and wherever *)
(* writes end early.                                                       *)
THEOREM ValidLogKeepsAppended ==
  ASSUME "edit" \notin Faults
  PROVE  Spec => []ValidKeepsAppended
<1>1. KeepInv /\ [Next]_vars => KeepInv'
  BY KeepStep
<1>2. KeepInv => ValidKeepsAppended
  <2> SUFFICES ASSUME KeepInv, verify_chain.outcome = "valid"
               PROVE  Held /\ Ordered(appended, file)
    BY DEF ValidKeepsAppended, Held, Ordered, InFileOrder
  <2>1. BadLines = {}
    BY DEF verify_chain
  <2> QED
    BY <2>1 DEF KeepInv, BadLines
<1> QED
  BY <1>1, <1>2, KeepInit, PTL DEF Spec

-----------------------------------------------------------------------------
(* The sinks.  A record that is being forwarded was written before, nobody *)
(* else forwards it, and no sink it has yet to reach was sent it; with one *)
(* logger at a time it is the last that was written.                       *)
Logged(body) == \E i \in 1 .. Len(appended) : appended[i] = body

SentInv == \A s \in Sinks :
             /\ \A i \in 1 .. Len(forwarded[s]) : Logged(forwarded[s][i])
             /\ \A i, j \in 1 .. Len(forwarded[s]) : forwarded[s][i] = forwarded[s][j] => i = j

SendingInv == \A l \in Loggers : \A s \in sending[l].left :
                /\ prev_hash[l] # Closed
                /\ Logged(sending[l].body)
                /\ \A i \in 1 .. Len(forwarded[s]) : forwarded[s][i] # sending[l].body
                /\ \A m \in Loggers :
                     sending[m].left # {} /\ sending[m].body = sending[l].body => m = l

TurnInv == ~SharedFile =>
             /\ \A l, m \in Loggers : prev_hash[l] # Closed /\ prev_hash[m] # Closed => l = m
             /\ \A l \in Loggers : sending[l].left # {} =>
                                     sending[l].body = appended[Len(appended)]
             /\ \A s \in Sinks : Ordered(forwarded[s], file)

SinkInv == KeepInv /\ SentInv /\ SendingInv /\ TurnInv

(* Every step without edits keeps SinkInv.                                 *)
LEMMA SinkStep ==
  ASSUME "edit" \notin Faults, SinkInv, [Next]_vars
  PROVE  SinkInv'
<1>0. KeepInv' /\ TypeOK /\ TypeOK'
  BY KeepStep DEF SinkInv, KeepInv
<1>t. /\ file \in Seq(Lines) /\ appended \in Seq(Bodies)
      /\ prev_hash \in [Loggers -> Digests \cup {Closed}]
      /\ sending \in [Loggers -> [body : Bodies \cup {NoBody}, left : SUBSET Sinks]]
      /\ forwarded \in [Sinks -> Seq(Bodies)]
      /\ \A s \in Sinks : \A i \in 1 .. Len(forwarded[s]) : forwarded[s][i] \in Bodies
  BY <1>0 DEF TypeOK
<1>k. SentInv /\ SendingInv /\ TurnInv /\ Ordered(appended, file)
  BY DEF SinkInv, KeepInv
(* The file changes, what was forwarded does not.                          *)
<1>f. ASSUME UNCHANGED forwarded, NEW s \in Sinks, Ordered(forwarded[s], file)
      PROVE  Ordered(forwarded[s], file')
  <2>1. CASE UNCHANGED file
    BY <1>f, <2>1
  <2>2. ASSUME NEW x \in Lines, Appends(x),
               x = Unreadable \/ (x.body \in Bodies /\ Fresh(x.body))
        PROVE  Ordered(forwarded[s], file')
    <3>1. \A i \in 1 .. Len(forwarded[s]) : forwarded[s][i] # x.body
      BY <1>k, <1>t, <2>2, AuditLogAssumption DEF SentInv, Logged, Fresh, Unreadable
    <3>2. \A k \in 1 .. Len(file') : file'[k].body \in Bodies =>
             \/ k \in 1 .. Len(file) /\ file'[k] = file[k]
             \/ k = Len(file) + 1 /\ file'[k] = x
      BY <1>t, <2>2, LinesStay
    <3>3. \A i \in 1 .. Len(forwarded[s]), k \in 1 .. Len(file') :
            file'[k].body = forwarded[s][i] =>
              k \in 1 .. Len(file) /\ file[k].body = forwarded[s][i]
      BY <1>t, <3>1, <3>2
    <3> QED
      BY <1>f, <3>3, OrderStays
  <2>3. CASE Stops
    <3>1. \A k \in 1 .. Len(file') : file'[k].body \in Bodies =>
            k \in 1 .. Len(file) /\ file'[k] = file[k]
      BY <1>t, <2>3, LinesStay
    <3> QED
      BY <1>f, <1>t, <3>1, OrderStays
  <2> QED
    BY <1>0, <2>1, <2>2, <2>3, FileStep
(* Steps that forward and write nothing, and start no forwarding.          *)
<1>1. ASSUME UNCHANGED <<forwarded, appended>>,
             \A l \in Loggers :
               \/ sending'[l].left = {}
               \/ sending'[l] = sending[l] /\ prev_hash'[l] = prev_hash[l],
             ~SharedFile => \A l, m \in Loggers :
                              prev_hash'[l] # Closed /\ prev_hash'[m] # Closed => l = m
      PROVE  SinkInv'
  <2>1. SentInv'
    BY <1>1, <1>k DEF SentInv, Logged
  <2>2. SendingInv'
    <3> SUFFICES ASSUME NEW l \in Loggers, NEW s \in sending'[l].left
                 PROVE  /\ prev_hash'[l] # Closed
                        /\ Logged(sending[l].body)
                        /\ sending'[l] = sending[l]
                        /\ \A i \in 1 .. Len(forwarded[s]) : forwarded[s][i] # sending[l].body
                        /\ \A m \in Loggers : sending'[m].left # {}
                                /\ sending'[m].body = sending[l].body => m = l
      BY <1>1 DEF SendingInv, Logged
    <3>1. sending'[l] = sending[l] /\ prev_hash'[l] = prev_hash[l]
      BY <1>1
    <3> QED
      BY <1>1, <1>k, <3>1 DEF SendingInv
  <2>3. TurnInv'
    BY <1>1, <1>f, <1>k DEF TurnInv
  <2> QED
    BY <1>0, <2>1, <2>2, <2>3 DEF SinkInv
<1>2. ASSUME NEW l \in Loggers, Open(l) PROVE SinkInv'
  <2>1. sending[l].left = {}
    BY <1>2, <1>k DEF Open, SendingInv
  <2>2. \A m \in Loggers : m # l => prev_hash'[m] = prev_hash[m]
    BY <1>2, <1>t DEF Open
  <2> QED
    BY <1>1, <1>2, <2>1, <2>2 DEF Open
<1>3. ASSUME NEW l \in Loggers, Crash(l) PROVE SinkInv'
  <2>1. \A m \in Loggers : IF m = l THEN sending'[m].left = {} /\ prev_hash'[m] = Closed
                           ELSE sending'[m] = sending[m] /\ prev_hash'[m] = prev_hash[m]
    BY <1>3, <1>t DEF Crash, Idle
  <2> QED
    BY <1>1, <1>3, <1>k, <2>1 DEF Crash, TurnInv
<1>4. ASSUME NEW l \in Loggers, NEW body, NEW line, NEW fault,
             log_call_torn(l, body, line, fault)
      PROVE  SinkInv'
  <2>1. /\ UNCHANGED <<sending, forwarded, appended>> /\ sending[l].left = {}
        /\ \A m \in Loggers : prev_hash'[m] = prev_hash[m] \/ (m = l /\ prev_hash'[m] = Closed)
    <3>1. prev_hash' = prev_hash \/ prev_hash' = [prev_hash EXCEPT ![l] = Closed]
      BY <1>4, Zenon DEF log_call_torn
    <3>2. UNCHANGED <<sending, forwarded, appended>> /\ sending[l].left = {}
      BY <1>4 DEF log_call_torn, Ready
    <3>3. \A m \in Loggers : prev_hash'[m] = prev_hash[m] \/ (m = l /\ prev_hash'[m] = Closed)
      BY <1>t, <3>1
    <3> QED
      BY <3>2, <3>3
  <2> QED
    BY <1>1, <1>k, <2>1 DEF TurnInv
<1>5. ASSUME NEW n, NEW last, PowerFails(n, last) PROVE SinkInv'
  <2>1. /\ UNCHANGED <<forwarded, appended>>
        /\ \A l \in Loggers : sending'[l].left = {} /\ prev_hash'[l] = Closed
    BY <1>5 DEF PowerFails, Idle
  <2> QED
    BY <1>1, <2>1
<1>6. ASSUME NEW l \in Loggers, NEW body \in Bodies, log_call(l, body) PROVE SinkInv'
  <2>1. /\ appended' = Append(appended, body)
        /\ Len(appended) \in Nat /\ Len(appended') = Len(appended) + 1
        /\ appended'[Len(appended) + 1] = body
        /\ \A i \in 1 .. Len(appended) : appended'[i] = appended[i]
    BY <1>6, <1>t, AppendProperties DEF log_call
  <2>2. /\ UNCHANGED forwarded /\ ~Logged(body)
        /\ sending[l].left = {} /\ prev_hash[l] # Closed
        /\ sending'[l].body = body /\ prev_hash'[l] = Append(prev_hash[l], body)
        /\ \A m \in Loggers : m # l => /\ sending'[m] = sending[m]
                                       /\ prev_hash'[m] = prev_hash[m]
    BY <1>6, <1>t DEF log_call, Ready, Fresh, Logged, _compute_record_hash
  <2>3. prev_hash'[l] # Closed
    <3>1. prev_hash[l] \in Digests
      BY <1>t, <2>2
    <3>2. prev_hash'[l] \in Digests
      BY <2>2, <3>1, RecordType DEF _compute_record_hash, Contents
    <3> QED
      BY <3>2, ClosedIsNoDigest
  <2>4. \A b : Logged(b) => \E i \in 1 .. Len(appended') : appended'[i] = b
    BY <2>1 DEF Logged
  <2>5. \E i \in 1 .. Len(appended') : appended'[i] = body
    BY <2>1
  <2>6. SentInv'
    BY <1>k, <2>2, <2>4 DEF SentInv, Logged
  <2>7. SendingInv'
    <3> SUFFICES ASSUME NEW m \in Loggers, NEW s \in sending'[m].left
                 PROVE  /\ prev_hash'[m] # Closed
                        /\ \E i \in 1 .. Len(appended') : appended'[i] = sending'[m].body
                        /\ \A i \in 1 .. Len(forwarded[s]) : forwarded[s][i] # sending'[m].body
                        /\ \A k \in Loggers : sending'[k].left # {}
                                /\ sending'[k].body = sending'[m].body => k = m
      BY <2>2 DEF SendingInv, Logged
    <3>0. s \in Sinks
      BY <1>0 DEF TypeOK
    <3>1. \A k \in Loggers : k # l /\ sending'[k].left # {} =>
             Logged(sending'[k].body) /\ sending'[k].body # body
      BY <1>k, <2>2 DEF SendingInv
    <3>2. CASE m = l
      <4>1. \A i \in 1 .. Len(forwarded[s]) : forwarded[s][i] # body
        BY <1>k, <2>2, <3>0 DEF SentInv
      <4> QED
        BY <2>2, <2>3, <2>5, <3>1, <3>2, <4>1
    <3>3. CASE m # l
      BY <1>k, <2>2, <2>4, <3>1, <3>3 DEF SendingInv
    <3> QED
      BY <3>2, <3>3
  <2>8. TurnInv'
    <3> SUFFICES ASSUME ~SharedFile
                 PROVE  /\ \A k, m \in Loggers : prev_hash'[k] # Closed
                                /\ prev_hash'[m] # Closed => k = m
                        /\ \A k \in Loggers : sending'[k].left # {} =>
                                sending'[k].body = appended'[Len(appended')]
                        /\ \A s \in Sinks : Ordered(forwarded'[s], file')
      BY DEF TurnInv
    <3>1. \A k \in Loggers : k # l => prev_hash[k] = Closed /\ sending[k].left = {}
      BY <1>k, <2>2 DEF TurnInv, SendingInv
    <3>2. \A s \in Sinks : Ordered(forwarded'[s], file')
      BY <1>f, <1>k, <2>2 DEF TurnInv
    <3> QED
      BY <2>1, <2>2, <3>1, <3>2
  <2> QED
    BY <1>0, <2>6, <2>7, <2>8 DEF SinkInv
<1>7. ASSUME NEW l \in Loggers, NEW s \in Sinks, NEW ok \in BOOLEAN,
             forward_best_effort(l, s, ok)
      PROVE  SinkInv'
  <2> DEFINE body == sending[l].body
  <2>1. /\ s \in sending[l].left /\ UNCHANGED <<file, appended, prev_hash>>
        /\ \A m \in Loggers : /\ sending'[m].body = sending[m].body
                              /\ sending'[m].left = IF m = l THEN sending[m].left \ {s}
                                                    ELSE sending[m].left
    BY <1>7, <1>t DEF forward_best_effort
  <2>2. /\ prev_hash[l] # Closed /\ Logged(body)
        /\ \A i \in 1 .. Len(forwarded[s]) : forwarded[s][i] # body
        /\ \A m \in Loggers : sending[m].left # {} /\ sending[m].body = body => m = l
    BY <1>k, <2>1 DEF SendingInv
  <2>3. body \in Bodies
    BY <1>0, <2>1 DEF TypeOK
  <2> HIDE DEF body
  <2>4. /\ \A r \in Sinks : r # s => forwarded'[r] = forwarded[r]
        /\ forwarded'[s] = forwarded[s] \/ forwarded'[s] = Append(forwarded[s], body)
    BY <1>7, <1>t DEF forward_best_effort, body
  <2>a. /\ Len(forwarded[s]) \in Nat
        /\ LET t == Append(forwarded[s], body)
           IN  /\ Len(t) = Len(forwarded[s]) + 1 /\ t[Len(forwarded[s]) + 1] = body
               /\ \A i \in 1 .. Len(forwarded[s]) : t[i] = forwarded[s][i]
    BY <1>t, <2>3, AppendProperties
  <2>5. \A i \in 1 .. Len(forwarded'[s]) :
          \/ i \in 1 .. Len(forwarded[s]) /\ forwarded'[s][i] = forwarded[s][i]
          \/ i = Len(forwarded[s]) + 1 /\ forwarded'[s][i] = body
    BY <2>4, <2>a
  <2>6. SentInv'
    <3> SUFFICES ASSUME NEW r \in Sinks
                 PROVE  /\ \A i \in 1 .. Len(forwarded'[r]) : Logged(forwarded'[r][i])
                        /\ \A i, j \in 1 .. Len(forwarded'[r]) :
                             forwarded'[r][i] = forwarded'[r][j] => i = j
      BY <2>1 DEF SentInv, Logged
    <3>1. CASE r # s
      BY <1>k, <2>4, <3>1 DEF SentInv
    <3>2. CASE r = s
      BY <1>k, <2>2, <2>5, <3>2 DEF SentInv
    <3> QED
      BY <3>1, <3>2
  <2>7. SendingInv'
    <3> SUFFICES ASSUME NEW m \in Loggers, NEW r \in sending'[m].left
                 PROVE  /\ prev_hash[m] # Closed
                        /\ Logged(sending[m].body)
                        /\ \A i \in 1 .. Len(forwarded'[r]) : forwarded'[r][i] # sending[m].body
                        /\ \A k \in Loggers : sending'[k].left # {}
                                /\ sending[k].body = sending[m].body => k = m
      <4>1. UNCHANGED <<appended, prev_hash>>
        BY <2>1
      <4>2. \A k \in Loggers : sending'[k].body = sending[k].body
        BY <2>1
      <4> QED
        BY <4>1, <4>2 DEF SendingInv, Logged
    <3>1. r \in sending[m].left /\ r \in Sinks /\ (m = l => r # s)
      BY <1>t, <2>1
    <3>2. \A k \in Loggers : sending'[k].left # {} => sending[k].left # {}
      BY <2>1
    <3>3. \A i \in 1 .. Len(forwarded'[r]) : forwarded'[r][i] # sending[m].body
      <4>1. CASE r # s
        BY <1>k, <2>4, <3>1, <4>1 DEF SendingInv
      <4>2. CASE r = s
        <5>1. m # l /\ sending[m].body # body
          BY <2>2, <3>1, <4>2
        <5> QED
          BY <1>k, <2>5, <3>1, <4>2, <5>1 DEF SendingInv
      <4> QED
        BY <4>1, <4>2
    <3> QED
      BY <1>k, <3>1, <3>2, <3>3 DEF SendingInv
  <2>8. TurnInv'
    <3> SUFFICES ASSUME ~SharedFile, NEW r \in Sinks PROVE Ordered(forwarded'[r], file)
      BY <1>k, <2>1 DEF TurnInv
    <3>1. CASE forwarded'[r] = forwarded[r]
      BY <1>k, <3>1 DEF TurnInv
    <3>2. CASE r = s /\ forwarded'[s] = Append(forwarded[s], body)
      <4>1. body = appended[Len(appended)] /\ Ordered(forwarded[s], file)
        BY <1>k, <2>1 DEF TurnInv, body
      <4>2. ASSUME NEW i \in 1 .. Len(forwarded[s]),
                   NEW k \in 1 .. Len(file), NEW m \in 1 .. Len(file),
                   file[k].body = forwarded[s][i], file[m].body = body
            PROVE  k < m
        <5>1. PICK p \in 1 .. Len(appended) : appended[p] = forwarded[s][i]
          BY <1>k DEF SentInv, Logged
        <5>2. Len(appended) \in 1 .. Len(appended) /\ p < Len(appended)
          BY <1>t, <2>2, <4>1, <5>1
        <5> QED
          BY <1>k, <4>1, <4>2, <5>1, <5>2 DEF Ordered
      <4>3. forwarded[s] \in Seq(Bodies)
        BY <1>t
      <4>4. Ordered(Append(forwarded[s], body), file)
        BY <2>3, <4>1, <4>2, <4>3, OrderGrows
      <4> QED
        BY <3>2, <4>4
    <3> QED
      BY <2>4, <3>1, <3>2
  <2> QED
    BY <1>0, <2>6, <2>7, <2>8 DEF SinkInv
<1>8. CASE UNCHANGED vars
  <2>1. UNCHANGED <<file, forwarded, appended, sending, prev_hash>>
    BY <1>8 DEF vars
  <2> QED
    BY <1>1, <1>k, <2>1 DEF TurnInv
<1>9. ASSUME NEW i, NEW body PROVE ~EditLine(i, body) /\ ~RemoveLine(i)
  BY DEF EditLine, RemoveLine
<1> QED
  BY <1>2, <1>3, <1>4, <1>5, <1>6, <1>7, <1>8, <1>9 DEF Next

(* As long as nobody edits the file, the sinks hold nothing that a log     *)
(* called valid does not, except what a stop of the machine took from it;  *)
(* nothing twice; and, with one logger at a time, everything in the order  *)
(* of the file, wherever processes end between the write and the sinks.    *)
THEOREM SinksAgreeWithLog ==
  ASSUME "edit" \notin Faults
  PROVE  Spec => []SinksMatchLog
<1>1. Init => SinkInv
  <2> SUFFICES ASSUME Init PROVE SinkInv
    OBVIOUS
  <2>1. /\ \A s \in Sinks : Len(forwarded[s]) = 0
        /\ \A l \in Loggers : sending[l].left = {} /\ prev_hash[l] = Closed
    BY DEF Init, Idle
  <2>2. SentInv /\ SendingInv /\ TurnInv
    BY <2>1 DEF SentInv, SendingInv, TurnInv, Ordered
  <2> QED
    BY <2>2, KeepInit DEF SinkInv
<1>2. SinkInv /\ [Next]_vars => SinkInv'
  BY SinkStep
<1>3. SinkInv => SinksMatchLog
  <2> SUFFICES ASSUME SinkInv, verify_chain.outcome = "valid", NEW s \in Sinks
               PROVE  /\ \A i \in 1 .. Len(forwarded[s]) :
                           forwarded[s][i] \in lost \/ InFile(forwarded[s][i])
                      /\ \A i, j \in 1 .. Len(forwarded[s]) :
                           forwarded[s][i] = forwarded[s][j] => i = j
                      /\ ~SharedFile => InFileOrder(forwarded[s])
    BY DEF SinksMatchLog
  <2>1. Held
    <3>1. BadLines = {}
      BY DEF verify_chain
    <3> QED
      BY <3>1 DEF SinkInv, KeepInv, BadLines
  <2>2. SentInv /\ TurnInv
    BY DEF SinkInv
  <2>3. \A i \in 1 .. Len(forwarded[s]) :
          forwarded[s][i] \in lost \/ InFile(forwarded[s][i])
    BY <2>1, <2>2 DEF SentInv, Logged, Held
  <2>4. ~SharedFile => InFileOrder(forwarded[s])
    BY <2>2 DEF TurnInv, Ordered, InFileOrder
  <2> QED
    BY <2>2, <2>3, <2>4 DEF SentInv
<1> QED
  BY <1>1, <1>2, <1>3, PTL DEF Spec

(* Every step keeps every sink accounted for.                              *)
LEMMA TriedStep ==
  ASSUME TypeOK, EverySinkIsTried, [Next]_vars
  PROVE  EverySinkIsTried'
<1>t. /\ appended \in Seq(Bodies)
      /\ sending \in [Loggers -> [body : Bodies \cup {NoBody}, left : SUBSET Sinks]]
      /\ forwarded \in [Sinks -> Seq(Bodies)]
      /\ \A l \in Loggers : sending[l].left # {} => sending[l].body \in Bodies
      /\ \A s \in Sinks : Len(forwarded[s]) \in Nat
  BY DEF TypeOK
<1> DEFINE Sent(b, s) == \E j \in 1 .. Len(forwarded[s]) : forwarded[s][j] = b
           Due(b, s)  == \E l \in Loggers : s \in sending[l].left /\ sending[l].body = b
           Tried(b, s) == Sent(b, s) \/ <<s, b>> \in missed \/ Due(b, s)
           SentN(b, s) == \E j \in 1 .. Len(forwarded'[s]) : forwarded'[s][j] = b
           DueN(b, s)  == \E l \in Loggers : s \in sending'[l].left /\ sending'[l].body = b
           TriedN(b, s) == SentN(b, s) \/ <<s, b>> \in missed' \/ DueN(b, s)
<1>p. \A i \in 1 .. Len(appended), s \in Sinks : Tried(appended[i], s)
  BY DEF EverySinkIsTried
(* Nothing is written, and what was accounted for remains so.              *)
<1>1. ASSUME UNCHANGED appended,
             \A b \in Bodies, s \in Sinks : Tried(b, s) => TriedN(b, s)
      PROVE  EverySinkIsTried'
  <2>1. \A i \in 1 .. Len(appended), s \in Sinks : TriedN(appended[i], s)
    <3>1. \A i \in 1 .. Len(appended) : appended[i] \in Bodies
      BY <1>t
    <3> HIDE DEF Tried, TriedN
    <3> QED
      BY <1>1, <1>p, <3>1
  <2> QED
    BY <1>1, <2>1 DEF EverySinkIsTried
<1>2. ASSUME UNCHANGED <<sending, forwarded, appended, missed>> PROVE EverySinkIsTried'
  BY <1>1, <1>2
<1>3. ASSUME UNCHANGED <<forwarded, appended>>, NEW S \in SUBSET Loggers,
             missed' = missed \cup Untried(S),
             \A l \in Loggers \ S : sending'[l] = sending[l]
      PROVE  EverySinkIsTried'
  <2>1. ASSUME NEW b \in Bodies, NEW s \in Sinks, Due(b, s) PROVE <<s, b>> \in missed' \/ DueN(b, s)
    <3>1. PICK l \in Loggers : s \in sending[l].left /\ sending[l].body = b
      BY <2>1
    <3>2. CASE l \in S
      <4>1. <<s, b>> \in Untried(S)
        BY <3>1, <3>2 DEF Untried
      <4> QED
        BY <1>3, <4>1
    <3>3. CASE l \notin S
      BY <1>3, <3>1, <3>3
    <3> QED
      BY <3>2, <3>3
  <2> HIDE DEF Due, DueN
  <2>2. \A b \in Bodies, s \in Sinks : Tried(b, s) => TriedN(b, s)
    BY <1>3, <2>1
  <2> QED
    BY <1>1, <1>3, <2>2 DEF Due, DueN
<1>4. ASSUME NEW l \in Loggers, Crash(l) PROVE EverySinkIsTried'
  <2>1. \A m \in Loggers \ {l} : sending'[m] = sending[m]
    BY <1>4, <1>t DEF Crash
  <2> QED
    BY <1>3, <1>4, <2>1 DEF Crash
<1>5. ASSUME NEW n, NEW last, PowerFails(n, last) PROVE EverySinkIsTried'
  BY <1>3, <1>5 DEF PowerFails
<1>6. ASSUME NEW l \in Loggers, NEW body \in Bodies, log_call(l, body)
      PROVE  EverySinkIsTried'
  <2>1. /\ Len(appended) \in Nat /\ Len(appended') = Len(appended) + 1
        /\ appended'[Len(appended) + 1] = body
        /\ \A i \in 1 .. Len(appended) : appended'[i] = appended[i]
    BY <1>6, <1>t, AppendProperties DEF log_call
  <2>2. /\ UNCHANGED <<forwarded, missed>> /\ sending[l].left = {}
        /\ sending'[l].body = body /\ sending'[l].left = Sinks
        /\ \A m \in Loggers : m # l => sending'[m] = sending[m]
    BY <1>6, <1>t DEF log_call, Ready
  <2>3. ASSUME NEW i \in 1 .. Len(appended'), NEW s \in Sinks PROVE TriedN(appended'[i], s)
    <3>1. CASE i \in 1 .. Len(appended)
      <4>1. Tried(appended[i], s) /\ appended'[i] = appended[i]
        BY <1>p, <2>1, <3>1
      <4>2. Due(appended[i], s) => DueN(appended[i], s)
        BY <2>2
      <4> QED
        BY <2>2, <4>1, <4>2
    <3>2. CASE i = Len(appended) + 1
      BY <2>1, <2>2, <3>2
    <3> QED
      BY <2>1, <3>1, <3>2
  <2> QED
    BY <2>3 DEF EverySinkIsTried
<1>7. ASSUME NEW l \in Loggers, NEW s \in Sinks, NEW ok \in BOOLEAN,
             forward_best_effort(l, s, ok)
      PROVE  EverySinkIsTried'
  <2> DEFINE body == sending[l].body
  <2>1. /\ s \in sending[l].left /\ UNCHANGED appended /\ missed \subseteq missed'
        /\ \A m \in Loggers : /\ sending'[m].body = sending[m].body
                              /\ sending'[m].left = IF m = l THEN sending[m].left \ {s}
                                                    ELSE sending[m].left
    BY <1>7, <1>t DEF forward_best_effort
  <2>2. body \in Bodies
    BY <1>t, <2>1
  <2> HIDE DEF body
  <2>3. /\ \A r \in Sinks : r # s => forwarded'[r] = forwarded[r]
        /\ \/ forwarded'[s] = Append(forwarded[s], body)
           \/ forwarded'[s] = forwarded[s] /\ <<s, body>> \in missed'
    <3>1. CASE ok = TRUE
      BY <1>7, <1>t, <3>1 DEF forward_best_effort, body
    <3>2. CASE ok = FALSE
      BY <1>7, <1>t, <3>2 DEF forward_best_effort, body
    <3> QED
      BY <3>1, <3>2
  <2>a. LET t == Append(forwarded[s], body)
        IN  /\ Len(t) = Len(forwarded[s]) + 1 /\ t[Len(forwarded[s]) + 1] = body
            /\ \A i \in 1 .. Len(forwarded[s]) : t[i] = forwarded[s][i]
    BY <1>t, <2>2, AppendProperties
  <2>4. ASSUME NEW b \in Bodies, NEW r \in Sinks, Sent(b, r) PROVE SentN(b, r)
    <3>1. PICK j \in 1 .. Len(forwarded[r]) : forwarded[r][j] = b
      BY <2>4
    <3>2. j \in 1 .. Len(forwarded'[r]) /\ forwarded'[r][j] = b
      <4>1. CASE forwarded'[r] = forwarded[r]
        BY <3>1, <4>1
      <4>2. CASE r = s /\ forwarded'[s] = Append(forwarded[s], body)
        BY <1>t, <2>a, <3>1, <4>2
      <4> QED
        BY <2>3, <4>1, <4>2
    <3> QED
      BY <3>2
  <2>5. SentN(body, s) \/ <<s, body>> \in missed'
    BY <1>t, <2>3, <2>a
  <2>6. ASSUME NEW b \in Bodies, NEW r \in Sinks, Due(b, r) PROVE TriedN(b, r)
    <3>1. PICK m \in Loggers : r \in sending[m].left /\ sending[m].body = b
      BY <2>6
    <3>2. CASE m = l /\ r = s
      BY <2>5, <3>1, <3>2 DEF body
    <3>3. CASE ~(m = l /\ r = s)
      BY <2>1, <3>1, <3>3
    <3> QED
      BY <3>2, <3>3
  <2>7. \A b \in Bodies, r \in Sinks : Tried(b, r) => TriedN(b, r)
    <3> HIDE DEF Due, DueN, Sent, SentN
    <3> QED
      BY <2>1, <2>4, <2>6
  <2> QED
    BY <1>1, <2>1, <2>7
<1>8. ASSUME NEW l, NEW body, NEW line, NEW fault, NEW i,
             \/ Open(l) \/ log_call_torn(l, body, line, fault)
             \/ RemoveLine(i) \/ EditLine(i, body)
      PROVE  UNCHANGED <<sending, forwarded, appended, missed>>
  BY <1>8 DEF Open, log_call_torn, RemoveLine, EditLine
<1> QED
  BY <1>2, <1>4, <1>5, <1>6, <1>7, <1>8 DEF Next, vars

(* Under every fault, every record that was written is tried on every sink *)
(* unless its process ends first: a sink that raises affects no other.     *)
THEOREM SinksAreTried == Spec => []EverySinkIsTried
<1>1. Init => EverySinkIsTried
  BY DEF Init, EverySinkIsTried
<1>2. TypeOK /\ EverySinkIsTried /\ [Next]_vars => EverySinkIsTried'
  BY TriedStep
<1> QED
  BY <1>1, <1>2, TypeInit, TypeStep, PTL DEF Spec

-----------------------------------------------------------------------------
(* Damage that verify_chain reports is reported for ever.                  *)

NotHealed == verify_chain.outcome # "valid" =>
               /\ verify_chain'.outcome # "valid"
               /\ verify_chain'.count <= verify_chain.count

(* The verdict names the least bad line, before the step and after it.     *)
LEMMA FirstBad ==
  ASSUME Len(file) \in Nat, Len(file') \in Nat
  PROVE  /\ BadLines # {} =>
              /\ FirstBadLine \in BadLines
              /\ \A j \in BadLines : FirstBadLine <= j
              /\ verify_chain.count = FirstBadLine - 1
         /\ BadLines = {} <=> verify_chain.outcome = "valid"
         /\ BadLines' # {} =>
              /\ \A j \in BadLines' : FirstBadLine' <= j
              /\ verify_chain'.count = FirstBadLine' - 1
         /\ BadLines' # {} => verify_chain'.outcome # "valid"
         /\ BadLines \subseteq Nat /\ BadLines' \subseteq Nat
<1>1. BadLines \subseteq Nat /\ BadLines' \subseteq Nat
  BY DEF BadLines, UnreadableLines
<1>2. BadLines # {} => FirstBadLine \in BadLines /\ \A j \in BadLines : FirstBadLine <= j
  BY <1>1, LeastExists DEF FirstBadLine
<1>3. BadLines' # {} => \A j \in BadLines' : FirstBadLine' <= j
  BY <1>1, LeastExists DEF FirstBadLine
<1> QED
  BY <1>1, <1>2, <1>3 DEF verify_chain

(* A bad line that is still bad, or a bad line before it, is enough.       *)
LEMMA StillBad ==
  ASSUME Len(file) \in Nat, Len(file') \in Nat,
         BadLines # {} => \E j \in BadLines' : j <= FirstBadLine
  PROVE  NotHealed
<1> SUFFICES ASSUME BadLines # {}
             PROVE  /\ verify_chain'.outcome # "valid"
                    /\ verify_chain'.count <= verify_chain.count
  BY FirstBad DEF NotHealed
<1>1. PICK j \in BadLines' : j <= FirstBadLine
  OBVIOUS
<1>2. /\ FirstBadLine' <= j /\ verify_chain'.count = FirstBadLine' - 1
      /\ verify_chain.count = FirstBadLine - 1 /\ verify_chain'.outcome # "valid"
      /\ j \in Nat /\ FirstBadLine \in Nat
  BY <1>1, FirstBad
<1>3. FirstBadLine' \in Nat
  <2>1. \E i \in BadLines' : \A k \in BadLines' : i <= k
    BY <1>1, FirstBad, LeastExists
  <2> QED
    BY <2>1, FirstBad DEF FirstBadLine
<1>4. \A x, y, z \in Nat : x <= y /\ y <= z => x - 1 <= z - 1
  OBVIOUS
<1>5. FirstBadLine' - 1 <= FirstBadLine - 1
  BY <1>1, <1>2, <1>3, <1>4, Zenon
<1> QED
  BY <1>2, <1>5

(* A bad line stays bad when it and the line before it are left alone.     *)
LEMMA UntouchedStaysBad ==
  ASSUME Len(file) \in Nat, Len(file') \in Nat, NEW d \in BadLines,
         d <= Len(file'), file'[d] = file[d], d # 1 => file'[d - 1] = file[d - 1]
  PROVE  d \in BadLines'
<1>1. d \in 1 .. Len(file) /\ d \in 1 .. Len(file')
  BY DEF BadLines, UnreadableLines
<1>2. d \in UnreadableLines => d \in UnreadableLines'
  BY <1>1 DEF UnreadableLines
<1>3. PrevHash(d)' = PrevHash(d)
  BY <1>1 DEF PrevHash
<1>4. Broken(d) => Broken(d)'
  BY <1>3 DEF Broken, _compute_record_hash
<1> QED
  BY <1>1, <1>2, <1>4 DEF BadLines

(* Without edits and stops of the machine every bad line stays bad.        *)
LEMMA DamageStepTorn ==
  ASSUME Faults \cap {"edit", "power"} = {}, TypeOK, TypeOK', [Next]_vars
  PROVE  NotHealed
<1>0. /\ file \in Seq(Lines) /\ Len(file) \in Nat /\ Len(file') \in Nat
      /\ BadLines \subseteq 1 .. Len(file)
  BY DEF TypeOK, BadLines, UnreadableLines
<1> SUFFICES ASSUME NEW d \in BadLines PROVE d \in BadLines'
  <2>1. BadLines # {} => FirstBadLine \in BadLines /\ FirstBadLine <= FirstBadLine
    BY <1>0, FirstBad
  <2> QED
    BY <1>0, <2>1, StillBad
<1>1. CASE UNCHANGED file
  BY <1>0, <1>1, UntouchedStaysBad
<1>2. ASSUME NEW x \in Lines, Grown(x) PROVE d \in BadLines'
  BY <1>0, <1>2, UntouchedStaysBad, FileElements, SMTT(30)
<1>3. CASE Spoiled
  <2>1. CASE d = Len(file)
    BY <1>0, <1>3, <2>1, FileElements DEF BadLines, UnreadableLines
  <2>2. CASE d # Len(file)
    BY <1>0, <1>3, <2>2, UntouchedStaysBad, FileElements
  <2> QED
    BY <2>1, <2>2
<1>4. ~Stops
  BY DEF Stops, PowerFails
<1> QED
  BY <1>1, <1>2, <1>3, <1>4, FileStep DEF TypeOK, Appends

(* With edits: what is changed or removed at or before the first bad line  *)
(* leaves a line there that is not what was logged at that place.          *)
LEMMA DamageStepEdited ==
  ASSUME ~SharedFile, Faults \subseteq {"edit"}, ChainInv, ChainInv',
         VerdictExact', [Next]_vars
  PROVE  NotHealed
<1> USE ChainTypes
<1>0. file \in Seq(Lines) /\ Len(file') \in Nat /\ BadLines \subseteq 1 .. Len(file)
  BY DEF ChainInv, TypeOK, BadLines, UnreadableLines
<1>t. LineInv /\ OrderInv /\ FreshInv /\ terminated = TRUE
  BY DEF ChainInv
<1> DEFINE d == FirstBadLine
<1> SUFFICES ASSUME BadLines # {} PROVE NotHealed
  BY <1>0, FirstBad DEF NotHealed
<1>d. /\ d \in BadLines /\ \A j \in BadLines : d <= j
      /\ d \in 1 .. Len(file) /\ verify_chain.count = d - 1
  BY <1>0, FirstBad
<1>e. ASSUME NEW e \in Departures', e <= d PROVE NotHealed
  <2>1. verify_chain'.outcome = "broken" /\ verify_chain'.count < e
        /\ verify_chain'.count + 1 \in Departures'
    BY <1>e DEF VerdictExact
  <2>2. e \in Nat /\ Departures' \subseteq Nat
    BY <1>0 DEF Departures
  <2>3. CASE BadLines' = {}
    BY <1>0, <2>1, <2>3 DEF verify_chain
  <2>4. CASE BadLines' # {}
    <3>1. verify_chain'.count \in Int
      <4>1. \E i \in BadLines' : \A k \in BadLines' : i <= k
        BY <1>0, <2>4, FirstBad, LeastExists
      <4>2. FirstBadLine' \in Nat
        BY <1>0, <4>1, FirstBad DEF FirstBadLine
      <4> QED
        BY <1>0, <2>4, <4>2, FirstBad
    <3> QED
      BY <1>d, <1>e, <2>1, <2>2, <3>1 DEF NotHealed
  <2> QED
    BY <2>3, <2>4
<1>b. ASSUME d \in BadLines' PROVE NotHealed
  BY <1>0, <1>b, <1>d, StillBad
<1> HIDE DEF d
<1>1. CASE UNCHANGED file
  BY <1>0, <1>1, <1>b, <1>d, UntouchedStaysBad
<1>2. ASSUME NEW x \in Lines, Grown(x) PROVE NotHealed
  BY <1>0, <1>2, <1>b, <1>d, UntouchedStaysBad, FileElements
<1>3. ASSUME NEW i \in 1 .. Len(file), NEW body \in Edits, EditLine(i, body)
      PROVE  NotHealed
  <2>1. /\ Len(file') = Len(file)
        /\ \A j \in 1 .. Len(file) : j # i => file'[j] = file[j]
        /\ file'[i].body = body /\ UNCHANGED appended
    <3>1. file' = [file EXCEPT ![i] = [file[i] EXCEPT !.body = body]]
      BY <1>3 DEF EditLine
    <3>2. file[i] \in Records
      BY <1>3 DEF EditLine, Lines
    <3>3. [file[i] EXCEPT !.body = body].body = body
      BY <3>2 DEF Records
    <3> QED
      BY <1>0, <1>3, <3>1, <3>3 DEF EditLine
  <2>2. CASE i > d
    BY <1>0, <1>b, <1>d, <2>1, <2>2, UntouchedStaysBad, SMTT(30)
  <2>3. CASE i <= d
    <3>1. i \in Departures'
      BY <2>1, AuditLogAssumption DEF Departures
    <3> QED
      BY <1>e, <2>3, <3>1
  <2> QED
    BY <1>d, <2>2, <2>3
<1>4. ASSUME NEW i \in 1 .. Len(file), RemoveLine(i) PROVE NotHealed
  <2>1. /\ i < Len(file) /\ UNCHANGED appended
        /\ Len(file') = Len(file) - 1
        /\ \A j \in 1 .. Len(file) - 1 : file'[j] = IF j < i THEN file[j] ELSE file[j + 1]
    BY <1>0, <1>4, RemovalProperties DEF RemoveLine
  <2>2. CASE i > d
    BY <1>0, <1>b, <1>d, <2>1, <2>2, UntouchedStaysBad
  <2>3. CASE i <= d
    <3>1. Len(file[i].hash) >= i
      <4>1. CASE i = 1
        BY <1>t, <4>1 DEF LineInv
      <4>2. CASE i # 1
        <5>1. \A j \in 1 .. d - 1 : ~Broken(j)
          BY <1>0, <1>d DEF BadLines
        <5>2. d \in 1 .. Len(file) + 1 /\ i - 1 \in 1 .. d - 1 /\ i - 1 \in 1 .. Len(file)
          BY <1>d, <2>3, <4>2
        <5>3. Len(file[i - 1].hash) = i - 1
          BY <5>1, <5>2, GoodLinesAreLogged
        <5>4. Len(file[i - 1].hash) < Len(file[i].hash)
          BY <1>t, <5>2 DEF OrderInv
        <5> QED
          BY <5>2, <5>3, <5>4
      <4> QED
        BY <4>1, <4>2
    <3>2. i + 1 \in 1 .. Len(file) /\ Len(file[i + 1].hash) > i
      <4>1. i + 1 \in 1 .. Len(file) /\ i < i + 1
        BY <2>1
      <4>2. Len(file[i].hash) < Len(file[i + 1].hash)
        BY <1>t, <4>1 DEF OrderInv
      <4> QED
        BY <3>1, <4>1, <4>2
    <3>3. i \in Departures'
      <4> SUFFICES ASSUME i <= Len(appended), file[i + 1].body = appended[i]
                   PROVE  FALSE
        BY <2>1 DEF Departures
      <4>1. file[i + 1].body \notin Edits
        BY AuditLogAssumption
      <4>2. /\ appended[i] = appended[Len(file[i + 1].hash)]
            /\ Len(file[i + 1].hash) \in 1 .. Len(appended)
        BY <1>t, <3>2, <4>1 DEF LineInv, PrefixOf
      <4> QED
        BY <1>t, <3>2, <4>2 DEF FreshInv
    <3> QED
      BY <1>e, <2>3, <3>3
  <2> QED
    BY <1>d, <2>2, <2>3
<1>5. ASSUME NEW l \in Loggers, NEW body \in Bodies, log_call(l, body)
      PROVE  \E x \in Lines : Grown(x)
  <2>1. prev_hash[l] = appended
    BY <1>5 DEF log_call, Ready, ChainInv, LoggerInv
  <2>2. Record(prev_hash[l], body) \in Lines
    BY <2>1, RecordType DEF Lines, Contents
  <2> QED
    BY <1>5, <1>t, <2>2 DEF log_call, Written, Grown
<1>6. ASSUME NEW l, NEW body, NEW line, NEW fault
      PROVE  ~log_call_torn(l, body, line, fault) /\ ~PowerFails(l, line)
  BY DEF log_call_torn, PowerFails
<1>7. ASSUME NEW l, NEW s, NEW ok, Open(l) \/ Crash(l) \/ forward_best_effort(l, s, ok)
      PROVE  UNCHANGED file
  BY <1>7 DEF Open, Crash, forward_best_effort
<1> QED
  BY <1>1, <1>2, <1>3, <1>4, <1>5, <1>6, <1>7 DEF Next, vars

(* Damage is permanent when nobody edits the file and the machine does not *)
(* stop, however many loggers write to the file and wherever their writes  *)
(* end early, by a full disk or the end of a process.                      *)
THEOREM TornDamageIsPermanent ==
  ASSUME Faults \cap {"edit", "power"} = {}
  PROVE  Spec => DamageIsPermanent
<1>1. TypeOK /\ TypeOK' /\ [Next]_vars => [NotHealed]_vars
  BY DamageStepTorn
<1> QED
  BY <1>1, TypeInit, TypeStep, PTL DEF Spec, DamageIsPermanent, NotHealed

(* Damage is permanent when lines are edited and removed, if one logger at *)
(* a time writes and its writes are complete: a second edit cannot hide a  *)
(* first one, and neither can records appended later.                      *)
THEOREM EditedDamageIsPermanent ==
  ASSUME ~SharedFile, Faults \subseteq {"edit"}
  PROVE  Spec => DamageIsPermanent
<1>1. ChainInv /\ [Next]_vars => ChainInv'
  BY ChainInvStep
<1>2. ChainInv /\ ChainInv' /\ VerdictExact' /\ [Next]_vars => [NotHealed]_vars
  BY DamageStepEdited
<1> QED
  BY <1>1, <1>2, ChainInvInit, ChainInvVerdict, PTL
     DEF Spec, DamageIsPermanent, NotHealed
=============================================================================
