---------------------------- MODULE SandboxProofs ----------------------------
(***************************************************************************)
(* Proofs about Sandbox, for any number of executions of either kind.      *)
(*                                                                         *)
(* SuccessIsReal and NothingRunsUnnoticed speak of executions that have    *)
(* been answered.  Why they hold is decided earlier: what a docker command *)
(* line left behind agrees with its container (DockerInv), and a tool in   *)
(* this process runs exactly while it is waited for (ToolInv).             *)
(***************************************************************************)
EXTENDS Sandbox, TLAPS

(* The returncode says what became of the container; an answer says the    *)
(* time-out, or that nothing was started, or the returncode.               *)
DockerInv(e) ==
  /\ stage[e] \in {"idle", "timing_out", "answered"} => ~alive[e]
  /\ stage[e] = "idle" => work[e] = "none" /\ returncode[e] = None
  /\ stage[e] = "waiting" => alive[e] \/ returncode[e] # None
  /\ alive[e] => returncode[e] = None
  /\ returncode[e] = 0 => work[e] = "ok"
  /\ returncode[e] = 1 => work[e] = "failed"
  /\ returncode[e] = 125 => work[e] = "none"
  /\ stage[e] = "answered" =>
       \/ result[e] = [exit_code |-> 124, timed_out |-> TRUE]
       \/ /\ result[e] \in {[exit_code |-> 2, timed_out |-> FALSE],
                            [exit_code |-> 127, timed_out |-> FALSE]}
          /\ work[e] = "none"
       \/ /\ returncode[e] # None
          /\ result[e] = [exit_code |-> returncode[e], timed_out |-> FALSE]

(* A tool that has been answered for is no longer running.                 *)
ToolInv(e) ==
  /\ stage[e] = "idle" => work[e] = "none"
  /\ stage[e] \in {"waiting", "timing_out", "cancelling"} => work[e] = "running"
  /\ stage[e] = "answered" =>
       \/ result[e] = [exit_code |-> 0, timed_out |-> FALSE] /\ work[e] = "ok"
       \/ /\ result[e] \in {[exit_code |-> 1, timed_out |-> FALSE],
                            [exit_code |-> 124, timed_out |-> TRUE]}
          /\ work[e] \in {"failed", "stopped"}

Inv == /\ TypeOK
       /\ \A e \in Containers : DockerInv(e)
       /\ \A e \in InProcess : ToolInv(e)

(* Before an execution there is no child, no tool and no answer.           *)
LEMMA InvInit == Init => Inv
  BY SandboxAssumption DEF Init, Inv, TypeOK, DockerInv, ToolInv, Executions, Stages, Ended,
     ReturnCodes

(* Every step of an execution keeps the types, and touches no other one.   *)
Only(x) == \A e \in Executions \ {x} :
             /\ stage'[e] = stage[e] /\ alive'[e] = alive[e] /\ returncode'[e] = returncode[e]
             /\ work'[e] = work[e] /\ result'[e] = result[e]

(* What an answer does to the execution it is given to, and to the types.  *)
Answered(x, code, timedOut) ==
  /\ stage' \in [Executions -> Stages]
  /\ result' \in [Executions -> SandboxResult \cup {None}]
  /\ stage'[x] = "answered"
  /\ result'[x] = [exit_code |-> code, timed_out |-> timedOut]
  /\ \A e \in Executions \ {x} : stage'[e] = stage[e] /\ result'[e] = result[e]

(* Returning a SandboxResult is an answer to this execution alone.         *)
LEMMA AnswersAnswer ==
  ASSUME TypeOK, NEW x \in Executions, NEW code \in ReturnCodes \cup {2, 124, 127},
         NEW timedOut \in BOOLEAN, Answers(x, code, timedOut)
  PROVE  Answered(x, code, timedOut)
<1>1. [exit_code |-> code, timed_out |-> timedOut] \in SandboxResult
  BY DEF SandboxResult
<1> QED
  BY <1>1 DEF TypeOK, Answers, Answered, Stages, Ended

(* Each step of DockerSandbox, its container and its command line.         *)
LEMMA DockerStep ==
  ASSUME Inv, NEW x \in Containers,
         \/ Spawn(x) \/ Collect(x) \/ KillCli(x) \/ Reap(x) \/ Abandon(x)
         \/ ContainerStarts(x) \/ ContainerEnds(x) \/ CliExits(x)
  PROVE  TypeOK' /\ Only(x) /\ DockerInv(x)'
<1> USE SandboxAssumption DEF Inv, TypeOK, Only, DockerInv, Executions, Stages, Ended,
        ReturnCodes, GoesTo, Answered
<1>1. CASE Spawn(x)
  <2>1. stage[x] = "idle" /\ UNCHANGED <<returncode, work>>
    BY <1>1 DEF Spawn
  <2>2. CASE (Answers(x, 2, FALSE) \/ Answers(x, 127, FALSE)) /\ UNCHANGED alive
    <3>1. Answered(x, 2, FALSE) \/ Answered(x, 127, FALSE)
      BY <2>2, AnswersAnswer
    <3> QED
      BY <2>1, <2>2, <3>1
  <2>3. CASE GoesTo(x, "raised") /\ UNCHANGED alive
    BY <2>1, <2>3
  <2>4. CASE GoesTo(x, "waiting") /\ alive' = [alive EXCEPT ![x] = TRUE]
    BY <2>1, <2>4
  <2> QED
    BY <1>1, <2>2, <2>3, <2>4 DEF Spawn
<1>2. CASE Collect(x)
  <2>1. returncode[x] # None /\ returncode[x] \in ReturnCodes
    BY <1>2 DEF Collect
  <2>2. Answered(x, returncode[x], FALSE)
    BY <1>2, <2>1, AnswersAnswer DEF Collect
  <2> QED
    BY <1>2, <2>1, <2>2 DEF Collect
<1>3. CASE KillCli(x)
  BY <1>3 DEF KillCli
<1>4. CASE Reap(x)
  <2>1. Answered(x, 124, TRUE)
    BY <1>4, AnswersAnswer DEF Reap
  <2> QED
    BY <1>4, <2>1 DEF Reap
<1>5. CASE Abandon(x)
  BY <1>5 DEF Abandon
<1>6. CASE ContainerStarts(x)
  BY <1>6 DEF ContainerStarts
<1>7. CASE ContainerEnds(x)
  BY <1>7 DEF ContainerEnds
<1>8. CASE CliExits(x)
  BY <1>8 DEF CliExits
<1> QED
  BY <1>1, <1>2, <1>3, <1>4, <1>5, <1>6, <1>7, <1>8

(* Each step of SubprocessSandbox and its tool.                            *)
LEMMA ToolStep ==
  ASSUME Inv, NEW x \in InProcess,
         \/ Call(x) \/ Expire(x) \/ CancelTool(x)
         \/ ToolReturns(x) \/ ToolRaises(x) \/ ToolStops(x)
  PROVE  TypeOK' /\ Only(x) /\ ToolInv(x)'
<1> USE SandboxAssumption DEF Inv, TypeOK, Only, ToolInv, Executions, Stages, Ended,
        ReturnCodes, GoesTo, Answered
<1>1. CASE Call(x)
  BY <1>1 DEF Call
<1>2. CASE Expire(x)
  BY <1>2 DEF Expire
<1>3. CASE CancelTool(x)
  BY <1>3 DEF CancelTool
<1>4. CASE ToolReturns(x)
  <2>1. CASE Answers(x, 0, FALSE)
    <3>1. Answered(x, 0, FALSE)
      BY <2>1, AnswersAnswer
    <3> QED
      BY <1>4, <3>1 DEF ToolReturns
  <2>2. CASE GoesTo(x, "raised")
    BY <1>4, <2>2 DEF ToolReturns
  <2> QED
    BY <1>4, <2>1, <2>2 DEF ToolReturns
<1>5. CASE ToolRaises(x)
  <2>1. CASE Answers(x, 1, FALSE) \/ Answers(x, 124, TRUE)
    <3>1. Answered(x, 1, FALSE) \/ Answered(x, 124, TRUE)
      BY <2>1, AnswersAnswer
    <3> QED
      BY <1>5, <3>1 DEF ToolRaises
  <2>2. CASE GoesTo(x, "raised")
    BY <1>5, <2>2 DEF ToolRaises
  <2> QED
    BY <1>5, <2>1, <2>2 DEF ToolRaises
<1>6. CASE ToolStops(x)
  <2>1. CASE Answers(x, 124, TRUE)
    <3>1. Answered(x, 124, TRUE)
      BY <2>1, AnswersAnswer
    <3> QED
      BY <1>6, <3>1 DEF ToolStops
  <2>2. CASE GoesTo(x, "raised")
    BY <1>6, <2>2 DEF ToolStops
  <2> QED
    BY <1>6, <2>1, <2>2 DEF ToolStops
<1> QED
  BY <1>1, <1>2, <1>3, <1>4, <1>5, <1>6

(* Executions do not touch each other, so every step keeps Inv.            *)
LEMMA InvStep == Inv /\ [Next]_vars => Inv'
<1> SUFFICES ASSUME Inv, [Next]_vars PROVE Inv'
  OBVIOUS
<1>1. ASSUME NEW x \in Containers,
             \/ Spawn(x) \/ Collect(x) \/ KillCli(x) \/ Reap(x) \/ Abandon(x)
             \/ ContainerStarts(x) \/ ContainerEnds(x) \/ CliExits(x)
      PROVE  Inv'
  <2>1. TypeOK' /\ Only(x) /\ DockerInv(x)'
    BY <1>1, DockerStep
  <2>2. ASSUME NEW e \in Containers PROVE DockerInv(e)'
    <3>1. CASE e = x
      BY <2>1, <3>1
    <3>2. CASE e # x
      BY <2>1, <3>2 DEF Inv, Only, DockerInv, Executions
    <3> QED
      BY <3>1, <3>2
  <2>3. \A e \in InProcess : ToolInv(e)'
    BY <2>1, SandboxAssumption DEF Inv, Only, ToolInv, Executions
  <2> QED
    BY <2>1, <2>2, <2>3 DEF Inv
<1>2. ASSUME NEW x \in InProcess,
             \/ Call(x) \/ Expire(x) \/ CancelTool(x)
             \/ ToolReturns(x) \/ ToolRaises(x) \/ ToolStops(x)
      PROVE  Inv'
  <2>1. TypeOK' /\ Only(x) /\ ToolInv(x)'
    BY <1>2, ToolStep
  <2>2. \A e \in InProcess : ToolInv(e)'
    BY <2>1 DEF Inv, Only, ToolInv, Executions
  <2>3. \A e \in Containers : DockerInv(e)'
    BY <2>1, SandboxAssumption DEF Inv, Only, DockerInv, Executions
  <2> QED
    BY <2>1, <2>2, <2>3 DEF Inv
<1>3. CASE UNCHANGED vars
  BY <1>3 DEF vars, Inv, TypeOK, DockerInv, ToolInv
<1> QED
  BY <1>1, <1>2, <1>3 DEF Next

(* Inv holds throughout every behaviour of the sandboxes.                  *)
LEMMA InvHolds == Spec => []Inv
  BY InvInit, InvStep, PTL DEF Spec

(* The types of all the parties to an execution are kept.                  *)
THEOREM TypeCorrect == Spec => []TypeOK
<1>1. Inv => TypeOK
  BY DEF Inv
<1> QED
  BY <1>1, InvHolds, PTL

(* For any number of executions, exit_code 0 is only reported of a command *)
(* or tool that ran to its end and succeeded, whatever raced with it.      *)
THEOREM SuccessesAreReal == Spec => []SuccessIsReal
<1>1. Inv => SuccessIsReal
  BY SandboxAssumption DEF Inv, TypeOK, SuccessIsReal, DockerInv, ToolInv, Executions, ReturnCodes
<1> QED
  BY <1>1, InvHolds, PTL

(* Nothing is left running behind an answer, except a container whose      *)
(* answer says that it timed out or that its command line was killed.      *)
THEOREM NothingIsLeftUnnoticed == Spec => []NothingRunsUnnoticed
<1>1. Inv => NothingRunsUnnoticed
  BY SandboxAssumption DEF Inv, TypeOK, NothingRunsUnnoticed, DockerInv, ToolInv, Executions,
     ReturnCodes
<1> QED
  BY <1>1, InvHolds, PTL
=============================================================================
