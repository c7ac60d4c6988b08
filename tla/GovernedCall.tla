----------------------------- MODULE GovernedCall -----------------------------
(***************************************************************************)
(* What the interceptor promises of every tool call, with the policy, the  *)
(* humans and the breaker abstracted away: a call is refused, or runs once *)
(* and ends; and in the very step in which it leaves handle, one line is   *)
(* added to the log that says whether it ran and what came out.  Where the *)
(* log or the breaker may fail, a call may instead leave by an exception   *)
(* without a line, but it then never returns anything.                     *)
(***************************************************************************)
EXTENDS Sequences

CONSTANTS
  Calls,
  Outcomes,  \* what a tool that ran to its end may have come to
  MayLose    \* the phases in which a call can be left without a line

VARIABLES
  phase,     \* call -> "pending", "running", "returned" or "raised"
  log        \* the audit trail, as an auditor reads it

vars == <<phase, log>>

Leaves(c, how, itRan, result) ==
  /\ phase' = [phase EXCEPT ![c] = how]
  /\ log' = Append(log, [call |-> c, ran |-> itRan, result |-> result])

Init == /\ phase = [c \in Calls |-> "pending"]
        /\ log = << >>

Refuse(c) == /\ phase[c] = "pending"
             /\ \E how \in {"returned", "raised"} : Leaves(c, how, FALSE, "none")

Start(c) == /\ phase[c] = "pending"
            /\ phase' = [phase EXCEPT ![c] = "running"]
            /\ UNCHANGED log

(* A call that was abandoned while it ran has no result.                   *)
Finish(c) == /\ phase[c] = "running"
             /\ \/ \E how \in {"returned", "raised"}, result \in Outcomes :
                     Leaves(c, how, TRUE, result)
                \/ Leaves(c, "raised", TRUE, "none")

Lose(c) == /\ phase[c] \in MayLose
           /\ phase' = [phase EXCEPT ![c] = "raised"]
           /\ UNCHANGED log

Next == \E c \in Calls : Refuse(c) \/ Start(c) \/ Finish(c) \/ Lose(c)

Spec == Init /\ [][Next]_vars
=============================================================================
