----------------------------- MODULE Interceptor -----------------------------
(***************************************************************************)
(* ToolCallInterceptor.handle (interceptor.py), run concurrently for       *)
(* several tool calls on one event loop, with the in-memory circuit        *)
(* breaker and the audit trail they share.                                 *)
(*                                                                         *)
(* A coroutine runs undisturbed from one await to the next, so there is    *)
(* one action for each await that can suspend: the policy decision, the    *)
(* human approval, the sandbox.  Each action performs everything up to the *)
(* next such await or up to the end of handle, the audit record included.  *)
(***************************************************************************)
EXTENDS InMemoryBackend

CONSTANTS
  Calls,             \* the calls of handle
  Keys,              \* the breaker keys in use
  KeyOf,             \* call -> the key of its agent and tool
  HasBreaker,        \* circuit_breaker is not None
  HasApprover,       \* approval_callback is not None
  Requirements,      \* the action requirements a policy may attach
  Stubborn,          \* the calls whose tool may ignore its cancellation
  Faults             \* what may go wrong outside handle, a subset of FaultKinds

(* The breaker's backend raises (it is pluggable, and Redis is one); the   *)
(* task running handle is cancelled; the audit log cannot be written.      *)
FaultKinds == {"breaker", "cancel", "disk"}

ASSUME InterceptorAssumption ==
  /\ KeyOf \in [Calls -> Keys]
  /\ HasBreaker \in BOOLEAN
  /\ HasApprover \in BOOLEAN
  /\ Stubborn \subseteq Calls
  /\ Faults \subseteq FaultKinds

VARIABLES
  pc,          \* call -> the await it is suspended at, or how it left handle
  decision,    \* call -> handle's local `decision`
  trail,       \* the audit records written, in order
  breaker,     \* key -> the state of the backend
  policySaid,  \* history: call -> what the policy engine answered
  humanSaid,   \* history: call -> what the approver answered
  ran          \* history: call -> "no", "running", or what the sandbox answered

vars == <<pc, decision, trail, breaker, policySaid, humanSaid, ran>>
history == <<policySaid, humanSaid, ran>>

_SUPPORTED_REQUIREMENTS == {"human_approval"}

Decisions == [allowed : BOOLEAN, requirements : SUBSET Requirements]
Denied == [allowed |-> FALSE, requirements |-> {}]

Stages == {"idle", "policy", "approval", "sandbox", "returned", "raised"}
Left   == {"returned", "raised"}
Records == [call : Calls, decision : Decisions, result : Outcome \cup {"none"}]

Init == /\ pc = [c \in Calls |-> "idle"]
        /\ decision = [c \in Calls |-> Denied]
        /\ trail = << >>
        /\ breaker = [k \in Keys |-> FreshBackend]
        /\ policySaid = [c \in Calls |-> Denied]
        /\ humanSaid = [c \in Calls |-> "nothing"]
        /\ ran = [c \in Calls |-> "no"]

-----------------------------------------------------------------------------
(* Faulty variants of _audit_and_wrap: the raw exit status is recorded;    *)
(* a failing write is swallowed.                                           *)
MutRawResult(c, d, result, how) ==
  /\ decision' = [decision EXCEPT ![c] = d]
  /\ trail' = Append(trail, [call |-> c, decision |-> d, result |-> "exit"])
  /\ pc' = [pc EXCEPT ![c] = how]

MutSwallowsDisk(c, d, result, how) ==
  /\ decision' = [decision EXCEPT ![c] = d]
  /\ \/ trail' = Append(trail, [call |-> c, decision |-> d, result |-> result])
     \/ "disk" \in Faults /\ trail' = trail
  /\ pc' = [pc EXCEPT ![c] = how]

(* _audit_and_wrap: the record is written and handle is left in the way    *)
(* `how`; if the write fails, its exception is what leaves handle.         *)
_audit_and_wrap(c, d, result, how) ==
  /\ decision' = [decision EXCEPT ![c] = d]
  /\ \/ /\ trail' = Append(trail, [call |-> c, decision |-> d, result |-> result])
        /\ pc' = [pc EXCEPT ![c] = how]
     \/ /\ "disk" \in Faults
        /\ trail' = trail
        /\ pc' = [pc EXCEPT ![c] = "raised"]

GoesTo(c, stage, d) == /\ pc' = [pc EXCEPT ![c] = stage]
                       /\ decision' = [decision EXCEPT ![c] = d]
                       /\ UNCHANGED trail

Execute(c, d) == /\ GoesTo(c, "sandbox", d)
                 /\ ran' = [ran EXCEPT ![c] = "running"]

-----------------------------------------------------------------------------
(* Faulty variant: a circuit that tripped earlier is not consulted.        *)
MutCheckTripOnly(c) ==
  LET b == breaker[KeyOf[c]]
  IN  /\ pc[c] = "idle"
      /\ breaker' = [breaker EXCEPT ![KeyOf[c]] = AfterIsOpen(@)]
      /\ IF b.tripped = NotTripped /\ IsOpen(b)
         THEN _audit_and_wrap(c, Denied, "none", "returned")
         ELSE GoesTo(c, "policy", Denied)
      /\ UNCHANGED history

(* The breaker's check, made before the try: deny at once, or go on.       *)
Check(c) ==
  LET open == HasBreaker /\ IsOpen(breaker[KeyOf[c]])
  IN  /\ pc[c] = "idle"
      /\ breaker' = IF HasBreaker
                    THEN [breaker EXCEPT ![KeyOf[c]] = AfterIsOpen(@)]
                    ELSE breaker
      /\ IF open THEN _audit_and_wrap(c, Denied, "none", "returned")
         ELSE GoesTo(c, "policy", Denied)
      /\ UNCHANGED history

(* The check raises, or the task is cancelled in it: the try is not        *)
(* reached.                                                                *)
CheckRaises(c) ==
  /\ pc[c] = "idle"
  /\ HasBreaker /\ "breaker" \in Faults
  /\ pc' = [pc EXCEPT ![c] = "raised"]
  /\ UNCHANGED <<decision, trail, breaker, history>>

(* _evaluate_decision returns d; if d allows the call,                     *)
(* _resolve_action_requirements runs up to the approval callback.          *)
PolicyAnswers(c, d) ==
  LET askHuman == "human_approval" \in d.requirements
      refused  == \/ ~d.allowed
                  \/ ~(d.requirements \subseteq _SUPPORTED_REQUIREMENTS)
                  \/ askHuman /\ ~HasApprover
  IN  /\ pc[c] = "policy"
      /\ policySaid' = [policySaid EXCEPT ![c] = d]
      /\ \/ /\ refused
            /\ _audit_and_wrap(c, IF d.allowed THEN Denied ELSE d, "none", "returned")
            /\ UNCHANGED ran
         \/ /\ ~refused /\ askHuman
            /\ GoesTo(c, "approval", d)
            /\ UNCHANGED ran
         \/ /\ ~refused /\ ~askHuman
            /\ Execute(c, d)
      /\ UNCHANGED <<breaker, humanSaid>>

(* Faulty variant: the decision has no time limit.                         *)
MutPolicyNoTimeout(c) == pc[c] = "policy" /\ UNCHANGED vars

(* The engine raises, or decision_timeout_s expires: fail-closed.          *)
PolicyFails(c) ==
  /\ pc[c] = "policy"
  /\ _audit_and_wrap(c, Denied, "none", "returned")
  /\ UNCHANGED <<breaker, history>>

(* Faulty variant: the policy's decision is kept after the approval.       *)
MutApprovalKeepsDecision(c, approved) ==
  /\ pc[c] = "approval"
  /\ humanSaid' = [humanSaid EXCEPT ![c] = IF approved THEN "yes" ELSE "no"]
  /\ IF approved
     THEN Execute(c, decision[c])
     ELSE _audit_and_wrap(c, Denied, "none", "returned") /\ UNCHANGED ran
  /\ UNCHANGED <<breaker, policySaid>>

(* The approver answers.  Nothing bounds how long that takes.              *)
ApprovalAnswers(c, approved) ==
  /\ pc[c] = "approval"
  /\ humanSaid' = [humanSaid EXCEPT ![c] = IF approved THEN "yes" ELSE "no"]
  /\ IF approved
     THEN Execute(c, [allowed |-> TRUE, requirements |-> {}])
     ELSE _audit_and_wrap(c, Denied, "none", "returned") /\ UNCHANGED ran
  /\ UNCHANGED <<breaker, policySaid>>

(* Faulty variant: an approver that fails is ignored.                      *)
MutApprovalRaisesOpen(c) ==
  /\ pc[c] = "approval"
  /\ Execute(c, decision[c])
  /\ UNCHANGED <<breaker, policySaid, humanSaid>>

(* The callback raises: _safely_resolve_action_requirements denies.        *)
ApprovalRaises(c) ==
  /\ pc[c] = "approval"
  /\ _audit_and_wrap(c, Denied, "none", "returned")
  /\ UNCHANGED <<breaker, history>>

(* _execute_sandboxed returns (an exception of the sandbox is a failure),  *)
(* _record_circuit_breaker_outcome reports it, handle ends.                *)
SandboxAnswers(c, outcome) ==
  /\ pc[c] = "sandbox"
  /\ ran' = [ran EXCEPT ![c] = outcome]
  /\ breaker' = IF HasBreaker
                THEN [breaker EXCEPT ![KeyOf[c]] = AfterRecord(@, outcome)]
                ELSE breaker
  /\ _audit_and_wrap(c, decision[c], outcome, "returned")
  /\ UNCHANGED <<policySaid, humanSaid>>

(* The same, but record_result raises: the finally clause still audits.    *)
RecordRaises(c, outcome) ==
  /\ pc[c] = "sandbox"
  /\ HasBreaker /\ "breaker" \in Faults
  /\ ran' = [ran EXCEPT ![c] = outcome]
  /\ _audit_and_wrap(c, decision[c], outcome, "raised")
  /\ UNCHANGED <<breaker, policySaid, humanSaid>>

(* Faulty variant: the finally clause records a refusal.                   *)
MutCancelRefuses(c) ==
  /\ "cancel" \in Faults
  /\ pc[c] \in {"policy", "approval", "sandbox"}
  /\ _audit_and_wrap(c, Denied, "none", "raised")
  /\ UNCHANGED <<breaker, history>>

(* CancelledError at the await: no except clause catches it, finally does. *)
Cancel(c) ==
  /\ "cancel" \in Faults
  /\ pc[c] \in {"policy", "approval", "sandbox"}
  /\ _audit_and_wrap(c, decision[c], "none", "raised")
  /\ UNCHANGED <<breaker, history>>

Tick == /\ breaker' = [k \in Keys |-> Elapse(breaker[k])]
        /\ UNCHANGED <<pc, decision, trail, history>>

(* What an engine answers: a refusal, or an approval with requirements.    *)
PolicyAnswer == {Denied} \cup {[allowed |-> TRUE, requirements |-> reqs] :
                                 reqs \in SUBSET Requirements}

Next ==
  \/ \E c \in Calls :
       \/ Check(c) \/ CheckRaises(c)
       \/ PolicyFails(c) \/ \E d \in PolicyAnswer : PolicyAnswers(c, d)
       \/ ApprovalRaises(c) \/ \E approved \in BOOLEAN : ApprovalAnswers(c, approved)
       \/ \E outcome \in Outcome : SandboxAnswers(c, outcome) \/ RecordRaises(c, outcome)
       \/ Cancel(c)
  \/ Tick

Spec == Init /\ [][Next]_vars

(* The event loop runs a started call; wait_for ends the wait for a policy *)
(* engine, none of which here ignores a cancellation.  A sandbox answers   *)
(* within its own time limit, but the one in process only cancels its tool *)
(* and waits on for one that ignores that.  Nothing makes a human answer.  *)
Fairness ==
  /\ \A c \in Calls : WF_vars(Check(c)) /\ WF_vars(PolicyFails(c))
  /\ \A c \in Calls \ Stubborn :
       WF_vars(\E outcome \in Outcome : SandboxAnswers(c, outcome))

LiveSpec == Spec /\ Fairness

-----------------------------------------------------------------------------
TypeOK == /\ pc \in [Calls -> Stages]
          /\ decision \in [Calls -> Decisions]
          /\ trail \in Seq(Records)
          /\ breaker \in [Keys -> Backend]
          /\ policySaid \in [Calls -> Decisions]
          /\ humanSaid \in [Calls -> {"nothing", "yes", "no"}]
          /\ ran \in [Calls -> {"no", "running"} \cup Outcome]

(* "Fail safe, not open": the sandbox only ever sees a call the policy     *)
(* engine itself allowed, with no requirement the interceptor cannot       *)
(* honour, and which a human approved if that was required; time-outs,     *)
(* exceptions and cancellations never stand in for an answer.              *)
FailClosed ==
  \A c \in Calls : ran[c] # "no" =>
    /\ policySaid[c].allowed
    /\ policySaid[c].requirements \subseteq _SUPPORTED_REQUIREMENTS
    /\ "human_approval" \in policySaid[c].requirements => humanSaid[c] = "yes"

RecordsOf(c) == {i \in 1 .. Len(trail) : trail[i].call = c}

(* "No tool call leaves this method unaudited": a call has exactly one     *)
(* record once it has left handle, and none before.                        *)
AuditedOnExit ==
  \A c \in Calls : /\ pc[c] \in Left => \E i \in RecordsOf(c) : RecordsOf(c) = {i}
                   /\ pc[c] \notin Left => RecordsOf(c) = {}

(* A caller is never handed a result that is not in the trail, and the     *)
(* trail never has two records of a call, although the breaker's backend   *)
(* or the disk may fail at any point and calls may be cancelled.           *)
ReturnedIsAudited ==
  \A c \in Calls : /\ pc[c] = "returned" => RecordsOf(c) # {}
                   /\ \A i, j \in RecordsOf(c) : i = j

(* A record claims that the tool ran: allowed, and nothing left to ask for.*)
ClaimsRun(r) == r.decision.allowed /\ r.decision.requirements = {}

(* The trail is truthful: an auditor who reads only the records knows      *)
(* exactly which of those calls reached the sandbox and with what result.  *)
TrailTruthful ==
  \A i \in 1 .. Len(trail) :
    LET r == trail[i]
    IN  /\ ClaimsRun(r) <=> ran[r.call] # "no"
        /\ r.result = IF ran[r.call] \in Outcome THEN ran[r.call] ELSE "none"

(* How a call and a record look to GovernedCall: where a call is left or   *)
(* not yet begun, and what the record claims.                              *)
Phase == [c \in Calls |-> CASE pc[c] \in Left -> pc[c]
                            [] pc[c] = "sandbox" -> "running"
                            [] OTHER -> "pending"]
Line(r) == [call |-> r.call, ran |-> ClaimsRun(r), result |-> r.result]
Log == [i \in 1 .. Len(trail) |-> Line(trail[i])]

(* The phases from which a call may be lost to the log.                    *)
Lossy == {stage \in {"pending", "running"} :
            \/ "disk" \in Faults
            \/ HasBreaker /\ "breaker" \in Faults /\ stage = "pending"}

Abstract == INSTANCE GovernedCall WITH
  Outcomes <- Outcome, MayLose <- Lossy, phase <- Phase, log <- Log

(* handle implements GovernedCall: every call is refused, or runs once,    *)
(* and leaves in the same step in which its one record is written; without *)
(* a record it leaves only by an exception, and only if the audit log      *)
(* could not be written or the breaker's check failed before it ran.       *)
CallsAreGoverned == Abstract!Spec

Cooling(k) == breaker[k].tripped # NotTripped /\ breaker[k].tripped < Cooldown
InFlight(k) == {c \in Calls : KeyOf[c] = k /\ pc[c] \in {"policy", "approval", "sandbox"}}

(* A circuit that is open drains: until its cooldown is over no further    *)
(* call of the key gets past the breaker; only calls that had passed the   *)
(* check before it tripped still run, however long an approval takes.      *)
OpenCircuitDrains ==
  [][\A k \in Keys : Cooling(k) => InFlight(k)' \subseteq InFlight(k)]_vars

(* Where a call may stay for good: with a human who does not answer, or in *)
(* process with a tool that does not stop when it is cancelled.            *)
MayWait(c) == {"approval"} \cup IF c \in Stubborn THEN {"sandbox"} ELSE {}

(* No call is stuck in the interceptor's own hands: whatever the policy    *)
(* engine, the breaker and the disk do, and whatever the other calls wait  *)
(* for, it leaves handle unless a human or a stubborn tool holds it.       *)
LeavesUnlessHeld ==
  \A c \in Calls : pc[c] \notin Left ~> pc[c] \in Left \cup MayWait(c)
=============================================================================
