------------------------------- MODULE AuditLog -------------------------------
(***************************************************************************)
(* HashChainedJSONLLogger, verify_chain (audit/worm_log.py) and the SIEM   *)
(* forwarding (audit/siem.py): one log file, the logger instances that     *)
(* append to it, and the sinks each appended record is forwarded to.       *)
(*                                                                         *)
(* A body is everything a record holds except prev_hash and record_hash;   *)
(* log_call gives each a fresh record_id, so no body is appended twice.    *)
(* SHA-256 is taken to be free of collisions: the digest of a chain is the *)
(* sequence of the bodies that were hashed into it.                        *)
(***************************************************************************)
EXTENDS Integers, Sequences, FiniteSets

CONSTANTS
  Loggers,        \* logger instances, over the life of the file
  Sinks,          \* the SIEM sinks they forward to
  Bodies,         \* record contents
  Edits,          \* contents only an edit of the file can put there
  NoBody,         \* the content of a line that does not parse
  SharedFile,     \* may two instances have the file open at the same time?
  Faults          \* what may befall the file, a subset of FaultKinds

(* A write ends early and raises; ends early because its process ended;    *)
(* the machine stops; lines are edited by other means than the logger.     *)
FaultKinds == {"disk", "kill", "power", "edit"}

ASSUME AuditLogAssumption ==
  /\ Bodies \cap Edits = {}
  /\ NoBody \notin Bodies \cup Edits
  /\ SharedFile \in BOOLEAN
  /\ Faults \subseteq FaultKinds

VARIABLES
  file,           \* the lines of the file
  terminated,     \* does the last line end in a newline?
  prev_hash,      \* logger -> its _prev_hash, or Closed
  sending,        \* logger -> the record it forwards and the sinks it has yet to try
  forwarded,      \* sink -> the bodies it was sent
  appended,       \* history: the bodies whose record was written, in order
  lost,           \* history: those of them that a stop of the machine took
  missed          \* history: the sinks that raised, or were not reached, by body

vars == <<file, terminated, prev_hash, sending, forwarded, appended, lost, missed>>

Digests  == Seq(Bodies \cup Edits)
GENESIS_HASH == << >>
Closed == <<NoBody>>              \* not a digest: the instance is not running

_compute_record_hash(p, body) == Append(p, body)

Record(p, body) == [body |-> body, prev |-> p, hash |-> _compute_record_hash(p, body)]
Unreadable == [body |-> NoBody, prev |-> GENESIS_HASH, hash |-> GENESIS_HASH]

Records == [body : Bodies \cup Edits, prev : Digests, hash : Digests]
Lines   == Records \cup {Unreadable}

Idle == [body |-> NoBody, left |-> {}]

-----------------------------------------------------------------------------
(* verify_chain.  Every line before the first bad one was accepted, so the *)
(* prev_hash carried by the loop is the hash of the line before.           *)
PrevHash(i) == IF i = 1 THEN GENESIS_HASH ELSE file[i - 1].hash

UnreadableLines == {i \in 1 .. Len(file) : file[i] = Unreadable}

(* Faulty variant: the record's own hash is not recomputed.                *)
MutBroken(i) == file[i].prev # PrevHash(i)

Broken(i) == \/ file[i].prev # PrevHash(i)
             \/ file[i].hash # _compute_record_hash(PrevHash(i), file[i].body)

(* Faulty variants: only the end of the file is looked at; lines that do   *)
(* not parse are skipped.                                                  *)
MutBadLinesAtEnd == {i \in {Len(file)} \ {0} : i \in UnreadableLines \/ Broken(i)}
MutBadLinesSkip  == {i \in 1 .. Len(file) : i \notin UnreadableLines /\ Broken(i)}

BadLines == UnreadableLines \cup {i \in 1 .. Len(file) : Broken(i)}

FirstBadLine == CHOOSE i \in BadLines : \A j \in BadLines : i <= j

(* The result, or the ValidationError that escapes.  Indices are the       *)
(* code's, from 0, so the broken index is also the number of good records. *)
verify_chain ==
  IF BadLines = {} THEN [outcome |-> "valid", count |-> Len(file)]
  ELSE [outcome |-> IF FirstBadLine \in UnreadableLines THEN "raises" ELSE "broken",
        count   |-> FirstBadLine - 1]

(* _load_last_hash raises on a line that does not parse.                   *)
_load_last_hash == IF file = << >> THEN GENESIS_HASH ELSE file[Len(file)].hash

-----------------------------------------------------------------------------
Init == /\ file = << >>
        /\ terminated = TRUE
        /\ prev_hash = [l \in Loggers |-> Closed]
        /\ sending = [l \in Loggers |-> Idle]
        /\ forwarded = [s \in Sinks |-> << >>]
        /\ appended = << >>
        /\ lost = {}
        /\ missed = {}

(* __init__ *)
Open(l) ==
  /\ prev_hash[l] = Closed
  /\ SharedFile \/ \A m \in Loggers : prev_hash[m] = Closed
  /\ UnreadableLines = {}
  /\ prev_hash' = [prev_hash EXCEPT ![l] = _load_last_hash]
  /\ UNCHANGED <<file, terminated, sending, forwarded, appended, lost, missed>>

(* The sinks that the loggers of S leave untried when they end.            *)
Untried(S) ==
  {e \in Sinks \X Bodies : \E l \in S : e[1] \in sending[l].left /\ e[2] = sending[l].body}

(* The process of l ends, between appends or while it forwards.  The file  *)
(* and the sinks outlive it.                                               *)
Crash(l) ==
  /\ prev_hash[l] # Closed
  /\ prev_hash' = [prev_hash EXCEPT ![l] = Closed]
  /\ sending' = [sending EXCEPT ![l] = Idle]
  /\ missed' = missed \cup Untried({l})
  /\ UNCHANGED <<file, terminated, forwarded, appended, lost>>

Ready(l) == prev_hash[l] # Closed /\ sending[l].left = {}

Fresh(body) == body \notin {file[i].body : i \in 1 .. Len(file)}
                        \cup {appended[i] : i \in 1 .. Len(appended)}

(* What the file is after the text of a line is written at its end: text   *)
(* written behind a line without newline makes one line of the two.        *)
Written(line) == IF terminated THEN Append(file, line)
                 ELSE [file EXCEPT ![Len(file)] = Unreadable]

(* Faulty variant: _prev_hash becomes the record and not its hash.         *)
MutPrevIsRecord(l, body) ==
  /\ Ready(l)
  /\ Fresh(body)
  /\ file' = Written(Record(prev_hash[l], body))
  /\ prev_hash' = [prev_hash EXCEPT ![l] = body]
  /\ UNCHANGED <<terminated, sending, forwarded, appended, lost, missed>>

(* log_call and append, up to the sinks: the write, then _prev_hash.       *)
log_call(l, body) ==
  /\ Ready(l)
  /\ Fresh(body)
  /\ file' = Written(Record(prev_hash[l], body))
  /\ terminated' = TRUE
  /\ prev_hash' = [prev_hash EXCEPT ![l] = _compute_record_hash(@, body)]
  /\ sending' = [sending EXCEPT ![l] = [body |-> body, left |-> Sinks]]
  /\ appended' = Append(appended, body)
  /\ UNCHANGED <<forwarded, lost, missed>>

(* Faulty variant: a sink that raises ends the loop.                       *)
MutRaisingSinkEndsLoop(l, s, ok) ==
  /\ s \in sending[l].left
  /\ sending' = [sending EXCEPT ![l].left = IF ok THEN @ \ {s} ELSE {}]
  /\ IF ok
     THEN /\ forwarded' = [forwarded EXCEPT ![s] = Append(@, sending[l].body)]
          /\ UNCHANGED missed
     ELSE /\ missed' = missed \cup {<<s, sending[l].body>>}
          /\ UNCHANGED forwarded
  /\ UNCHANGED <<file, terminated, prev_hash, appended, lost>>

(* One turn of the loop over the sinks, each a call that other processes   *)
(* may overtake; a sink that raises is only logged.                        *)
forward_best_effort(l, s, ok) ==
  /\ s \in sending[l].left
  /\ sending' = [sending EXCEPT ![l].left = @ \ {s}]
  /\ IF ok
     THEN /\ forwarded' = [forwarded EXCEPT ![s] = Append(@, sending[l].body)]
          /\ UNCHANGED missed
     ELSE /\ missed' = missed \cup {<<s, sending[l].body>>}
          /\ UNCHANGED forwarded
  /\ UNCHANGED <<file, terminated, prev_hash, appended, lost>>

(* Faulty variant: an append that raised forwards its record all the same. *)
MutTornForwards(l, body, line, fault) ==
  /\ fault = "disk" /\ fault \in Faults
  /\ Ready(l)
  /\ Fresh(body)
  /\ file' = Written(line)
  /\ terminated' = FALSE
  /\ sending' = [sending EXCEPT ![l] = [body |-> body, left |-> Sinks]]
  /\ UNCHANGED <<prev_hash, forwarded, appended, lost, missed>>

(* The write ends early: a part of the line, or all of it but the newline, *)
(* is in the file.  On a full disk append raises before _prev_hash moves   *)
(* and the logger lives on; or its process ended between two system calls. *)
log_call_torn(l, body, line, fault) ==
  /\ fault \in Faults \cap {"disk", "kill"}
  /\ Ready(l)
  /\ Fresh(body)
  /\ file' = Written(line)
  /\ terminated' = FALSE
  /\ prev_hash' = IF fault = "disk" THEN prev_hash ELSE [prev_hash EXCEPT ![l] = Closed]
  /\ UNCHANGED <<sending, forwarded, appended, lost, missed>>

(* The machine stops and every process with it.  append never calls fsync, *)
(* so of the file any beginning may survive: n lines, of which the last    *)
(* may be whole, without its newline or cut within.                        *)
PowerFails(n, last) ==
  /\ "power" \in Faults
  /\ last = "whole" \/ n > 0
  /\ file' = IF last = "cut" THEN [SubSeq(file, 1, n) EXCEPT ![n] = Unreadable]
             ELSE SubSeq(file, 1, n)
  /\ terminated' = (last = "whole" /\ (n = Len(file) => terminated))
  /\ prev_hash' = [l \in Loggers |-> Closed]
  /\ sending' = [l \in Loggers |-> Idle]
  /\ missed' = missed \cup Untried(Loggers)
  /\ lost' = lost \cup {b \in Bodies : /\ \E i \in 1 .. Len(appended) : appended[i] = b
                                       /\ \A k \in 1 .. Len(file') : file'[k].body # b}
  /\ UNCHANGED <<forwarded, appended>>

(* What verify_chain is there to detect: the content of a line is changed, *)
(* or a line is taken out of the middle of the file.                       *)
EditLine(i, body) ==
  /\ "edit" \in Faults
  /\ file[i] # Unreadable
  /\ file' = [file EXCEPT ![i].body = body]
  /\ UNCHANGED <<terminated, prev_hash, sending, forwarded, appended, lost, missed>>

RemoveLine(i) ==
  /\ "edit" \in Faults
  /\ i < Len(file)
  /\ file' = SubSeq(file, 1, i - 1) \o SubSeq(file, i + 1, Len(file))
  /\ UNCHANGED <<terminated, prev_hash, sending, forwarded, appended, lost, missed>>

Next ==
  \/ \E l \in Loggers :
       \/ Open(l)
       \/ Crash(l)
       \/ \E body \in Bodies : log_call(l, body)
       \/ \E s \in Sinks, ok \in BOOLEAN : forward_best_effort(l, s, ok)
       \/ \E body \in Bodies, fault \in Faults :
            \E line \in {Unreadable, Record(prev_hash[l], body)} :
              log_call_torn(l, body, line, fault)
  \/ \E n \in 0 .. Len(file), last \in {"whole", "open", "cut"} : PowerFails(n, last)
  \/ \E i \in 1 .. Len(file) : RemoveLine(i) \/ \E body \in Edits : EditLine(i, body)

Spec == Init /\ [][Next]_vars

-----------------------------------------------------------------------------
TypeOK == /\ file \in Seq(Lines)
          /\ terminated \in BOOLEAN
          /\ prev_hash \in [Loggers -> Digests \cup {Closed}]
          /\ sending \in [Loggers -> [body : Bodies \cup {NoBody}, left : SUBSET Sinks]]
          /\ \A l \in Loggers : sending[l].left # {} => sending[l].body \in Bodies
          /\ forwarded \in [Sinks -> Seq(Bodies)]
          /\ appended \in Seq(Bodies)
          /\ lost \subseteq Bodies
          /\ missed \subseteq Sinks \X Bodies

(* "A new logger instance continues the existing chain": whenever a logger *)
(* has opened the file without an error, verify_chain accepts all of it,   *)
(* the records that logger has since appended included, however often      *)
(* loggers were restarted.                                                 *)
OpenLogVerifies ==
  (\E l \in Loggers : prev_hash[l] # Closed) => verify_chain.outcome = "valid"

(* The lines that differ from what was logged at that place.               *)
Departures == {i \in 1 .. Len(file) : i > Len(appended) \/ file[i].body # appended[i]}

(* The verdict is exact: a log is called valid only if it holds everything *)
(* that was logged, and otherwise the index that is reported is that of    *)
(* the first line that is not what was logged there, however many lines    *)
(* were changed or removed, and whatever restarted loggers appended later. *)
VerdictExact ==
  IF Departures = {}
  THEN verify_chain = [outcome |-> "valid", count |-> Len(appended)]
  ELSE /\ verify_chain.outcome = "broken"
       /\ verify_chain.count + 1 \in Departures
       /\ \A i \in Departures : verify_chain.count < i

(* A damaged log is never accepted again: no restart and no later append   *)
(* makes the damage disappear or moves the place reported behind it.       *)
DamageIsPermanent ==
  [][verify_chain.outcome # "valid" =>
       /\ verify_chain'.outcome # "valid"
       /\ verify_chain'.count <= verify_chain.count]_vars

(* The bodies in s that are in the file are there in the order of s.       *)
InFileOrder(s) ==
  \A i, j \in 1 .. Len(s), k, m \in 1 .. Len(file) :
    i < j /\ file[k].body = s[i] /\ file[m].body = s[j] => k < m

InFile(body) == \E k \in 1 .. Len(file) : file[k].body = body

(* A record that was written is never missing from a log that is called    *)
(* valid, and never out of its place, unless the machine stopped and took  *)
(* it: although writes may end half-way, whether append raises or its      *)
(* process dies, and several loggers may write to the file at once.        *)
ValidKeepsAppended ==
  verify_chain.outcome = "valid" =>
    /\ \A i \in 1 .. Len(appended) : appended[i] \in lost \/ InFile(appended[i])
    /\ InFileOrder(appended)

(* The sinks and the file agree: if the log is called valid, every record  *)
(* a sink was sent is in the file, unless the machine stopped and took it; *)
(* no sink was sent a record twice; and where one process at a time has    *)
(* the file, each was sent its records in the order of the file.           *)
SinksMatchLog ==
  verify_chain.outcome = "valid" =>
    \A s \in Sinks :
      /\ \A i \in 1 .. Len(forwarded[s]) :
           forwarded[s][i] \in lost \/ InFile(forwarded[s][i])
      /\ \A i, j \in 1 .. Len(forwarded[s]) :
           forwarded[s][i] = forwarded[s][j] => i = j
      /\ ~SharedFile => InFileOrder(forwarded[s])

(* A sink that raises costs the other sinks nothing: every record that was *)
(* written has reached each sink, is about to be sent to it, or failed to  *)
(* reach it because that very sink raised or the process ended first.      *)
EverySinkIsTried ==
  \A i \in 1 .. Len(appended), s \in Sinks :
    \/ \E j \in 1 .. Len(forwarded[s]) : forwarded[s][j] = appended[i]
    \/ <<s, appended[i]>> \in missed
    \/ \E l \in Loggers : s \in sending[l].left /\ sending[l].body = appended[i]
=============================================================================
