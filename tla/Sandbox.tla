------------------------------- MODULE Sandbox -------------------------------
(***************************************************************************)
(* Executions of DockerSandbox (sandbox/docker_sandbox.py) and of          *)
(* SubprocessSandbox (sandbox/subprocess_sandbox.py), against the time-out *)
(* each of them sets and against cancellation from outside.                *)
(*                                                                         *)
(* The first runs the command line `docker run` as a child process; the    *)
(* container itself belongs to the daemon and goes on without that child.  *)
(* The second awaits a coroutine in the same process, which is cancelled   *)
(* but not killed.                                                         *)
(***************************************************************************)
EXTENDS Integers

CONSTANTS
  Containers,  \* the executions of a DockerSandbox
  InProcess,   \* the executions of a SubprocessSandbox
  Stubborn,    \* those of InProcess whose tool may ignore its cancellation
  None

ASSUME SandboxAssumption ==
  /\ Containers \cap InProcess = {}
  /\ Stubborn \subseteq InProcess
  /\ None \notin Int

VARIABLES
  stage,       \* execution -> the await it is suspended at, or how it ended
  alive,       \* execution -> its docker command line is running
  returncode,  \* execution -> what that left behind
  work,        \* execution -> the container or the tool itself
  result       \* execution -> the SandboxResult it was answered

vars == <<stage, alive, returncode, work, result>>

Executions == Containers \cup InProcess

(* 1 stands for any failure of the command, 125 is docker's own, -9 means  *)
(* that the command line was killed.                                       *)
ReturnCodes == {0, 1, 125, -9}
SandboxResult == [exit_code : ReturnCodes \cup {2, 124, 127}, timed_out : BOOLEAN]

Ended == {"answered", "raised"}
Stages == {"idle", "waiting", "timing_out", "cancelling"} \cup Ended

Init == /\ stage = [e \in Executions |-> "idle"]
        /\ alive = [e \in Executions |-> FALSE]
        /\ returncode = [e \in Executions |-> None]
        /\ work = [e \in Executions |-> "none"]
        /\ result = [e \in Executions |-> None]

GoesTo(e, s) == stage' = [stage EXCEPT ![e] = s] /\ UNCHANGED result

(* Faulty variant: exit codes are given as a shell gives them.             *)
MutAnswersAsShell(e, code, timedOut) ==
  /\ stage' = [stage EXCEPT ![e] = "answered"]
  /\ result' = [result EXCEPT ![e] = [exit_code |-> 128 + code, timed_out |-> timedOut]]

Answers(e, code, timedOut) ==
  /\ stage' = [stage EXCEPT ![e] = "answered"]
  /\ result' = [result EXCEPT ![e] = [exit_code |-> code, timed_out |-> timedOut]]

-----------------------------------------------------------------------------
(* DockerSandbox.execute up to communicate: no command in the request, no  *)
(* docker on the PATH, another OSError, which escapes, or a child process. *)
Spawn(e) ==
  /\ stage[e] = "idle"
  /\ \/ /\ Answers(e, 2, FALSE) \/ Answers(e, 127, FALSE) \/ GoesTo(e, "raised")
        /\ UNCHANGED alive
     \/ /\ GoesTo(e, "waiting")
        /\ alive' = [alive EXCEPT ![e] = TRUE]
  /\ UNCHANGED <<returncode, work>>

(* The daemon starts the container for the command line, and it ends.      *)
ContainerStarts(e) ==
  /\ alive[e] /\ work[e] = "none"
  /\ work' = [work EXCEPT ![e] = "running"]
  /\ UNCHANGED <<stage, alive, returncode, result>>

ContainerEnds(e) ==
  /\ work[e] = "running"
  /\ \E w \in {"ok", "failed"} : work' = [work EXCEPT ![e] = w]
  /\ UNCHANGED <<stage, alive, returncode, result>>

(* The command line exits as the container did, or because none could be   *)
(* started; or something else kills it.                                    *)
CliExits(e) ==
  /\ alive[e]
  /\ alive' = [alive EXCEPT ![e] = FALSE]
  /\ \E code \in ReturnCodes :
       /\ code = 0 => work[e] = "ok"
       /\ code = 1 => work[e] = "failed"
       /\ code = 125 => work[e] = "none"
       /\ returncode' = [returncode EXCEPT ![e] = code]
  /\ UNCHANGED <<stage, work, result>>

(* Faulty variant: what exited by itself is reported as a success.         *)
MutCollectIgnoresCode(e) ==
  /\ stage[e] = "waiting" /\ ~alive[e]
  /\ Answers(e, 0, FALSE)
  /\ UNCHANGED <<alive, returncode, work>>

(* communicate returns: the exit code is proc.returncode or 0.             *)
Collect(e) ==
  /\ stage[e] = "waiting" /\ ~alive[e]
  /\ Answers(e, IF returncode[e] = None THEN 0 ELSE returncode[e], FALSE)
  /\ UNCHANGED <<alive, returncode, work>>

(* Faulty variant: no limit on communicate.                                *)
MutNoTimeout(e) == stage[e] = "waiting" /\ UNCHANGED vars

(* wait_for gives up on communicate, perhaps just as the command line      *)
(* exits: proc.kill() then does nothing, or raises ProcessLookupError.     *)
KillCli(e) ==
  /\ stage[e] = "waiting"
  /\ \/ GoesTo(e, "timing_out")
     \/ ~alive[e] /\ GoesTo(e, "raised")
  /\ alive' = [alive EXCEPT ![e] = FALSE]
  /\ returncode' = IF alive[e] THEN [returncode EXCEPT ![e] = -9] ELSE returncode
  /\ UNCHANGED work

(* Faulty variant: a time-out is reported like any other failure.          *)
MutReapPlain(e) ==
  /\ stage[e] = "timing_out"
  /\ Answers(e, 1, FALSE)
  /\ UNCHANGED <<alive, returncode, work>>

(* proc.wait() returns.                                                    *)
Reap(e) ==
  /\ stage[e] = "timing_out"
  /\ Answers(e, 124, TRUE)
  /\ UNCHANGED <<alive, returncode, work>>

(* The task is cancelled at either await: nothing catches that, and        *)
(* nothing kills the command line.                                         *)
Abandon(e) ==
  /\ stage[e] \in {"waiting", "timing_out"}
  /\ GoesTo(e, "raised")
  /\ UNCHANGED <<alive, returncode, work>>

-----------------------------------------------------------------------------
(* SubprocessSandbox.execute up to the await of the implementation.        *)
Call(e) ==
  /\ stage[e] = "idle"
  /\ GoesTo(e, "waiting")
  /\ work' = [work EXCEPT ![e] = "running"]
  /\ UNCHANGED <<alive, returncode>>

(* The implementation returns, in time or in spite of its cancellation.    *)
ToolReturns(e) ==
  /\ work[e] = "running"
  /\ work' = [work EXCEPT ![e] = "ok"]
  /\ \/ stage[e] \in {"waiting", "timing_out", "cancelling"} /\ Answers(e, 0, FALSE)
     \/ stage[e] \in {"cancelling", "raised"} /\ GoesTo(e, "raised")
  /\ UNCHANGED <<alive, returncode>>

(* It raises; a TimeoutError of its own is taken for the sandbox's.        *)
ToolRaises(e) ==
  /\ work[e] = "running"
  /\ work' = [work EXCEPT ![e] = "failed"]
  /\ \/ /\ stage[e] \in {"waiting", "timing_out", "cancelling"}
        /\ Answers(e, 1, FALSE) \/ Answers(e, 124, TRUE)
     \/ stage[e] \in {"cancelling", "raised"} /\ GoesTo(e, "raised")
  /\ UNCHANGED <<alive, returncode>>

(* wait_for gives up on the tool: it is cancelled, and waited for.         *)
Expire(e) ==
  /\ stage[e] = "waiting"
  /\ GoesTo(e, "timing_out")
  /\ UNCHANGED <<alive, returncode, work>>

(* The task is cancelled: the tool is too.  A second cancellation may      *)
(* leave a tool behind that has not yet stopped for the first.             *)
CancelTool(e) ==
  /\ \/ stage[e] = "waiting" /\ GoesTo(e, "cancelling")
     \/ stage[e] \in {"timing_out", "cancelling"} /\ GoesTo(e, "raised")
  /\ UNCHANGED <<alive, returncode, work>>

(* The tool stops at its CancelledError.                                   *)
ToolStops(e) ==
  /\ work[e] = "running" /\ stage[e] \in {"timing_out", "cancelling", "raised"}
  /\ work' = [work EXCEPT ![e] = "stopped"]
  /\ IF stage[e] = "timing_out" THEN Answers(e, 124, TRUE) ELSE GoesTo(e, "raised")
  /\ UNCHANGED <<alive, returncode>>

-----------------------------------------------------------------------------
Next ==
  \/ \E e \in Containers : \/ Spawn(e) \/ Collect(e) \/ KillCli(e) \/ Reap(e) \/ Abandon(e)
                           \/ ContainerStarts(e) \/ ContainerEnds(e) \/ CliExits(e)
  \/ \E e \in InProcess : \/ Call(e) \/ Expire(e) \/ CancelTool(e)
                          \/ ToolReturns(e) \/ ToolRaises(e) \/ ToolStops(e)

(* The event loop fires the timers and collects children that are gone; a  *)
(* tool that honours cancellation stops.  No container has to end.         *)
Fairness ==
  /\ \A e \in Containers : WF_vars(KillCli(e)) /\ WF_vars(Reap(e))
  /\ \A e \in InProcess : WF_vars(Expire(e))
  /\ \A e \in InProcess \ Stubborn : WF_vars(ToolStops(e))

Spec == Init /\ [][Next]_vars /\ Fairness

-----------------------------------------------------------------------------
TypeOK == /\ stage \in [Executions -> Stages]
          /\ alive \in [Executions -> BOOLEAN]
          /\ returncode \in [Executions -> ReturnCodes \cup {None}]
          /\ work \in [Executions -> {"none", "running", "ok", "failed", "stopped"}]
          /\ result \in [Executions -> SandboxResult \cup {None}]

(* exit_code 0 is what the interceptor and the breaker take for a success: *)
(* it is only ever reported of a command or tool that really ran to its    *)
(* end and succeeded, whatever time-out, kill or cancellation it raced     *)
(* with; and never together with timed_out.                                *)
SuccessIsReal ==
  \A e \in Executions : stage[e] = "answered" /\ result[e].exit_code = 0 =>
    work[e] = "ok" /\ ~result[e].timed_out

(* What still runs after execute has ended was timed out or cancelled, or  *)
(* its command line was killed: no other answer is given early.  A tool    *)
(* in this process never outlives its answer at all.                       *)
NothingRunsUnnoticed ==
  \A e \in Executions : stage[e] = "answered" /\ work[e] = "running" =>
    /\ e \in Containers
    /\ result[e].timed_out \/ result[e].exit_code = -9

(* "A hung container can never hang the pipeline": execute ends although   *)
(* nothing makes a container end; in this process it ends if the tool      *)
(* honours its cancellation.                                               *)
NeverHangs ==
  \A e \in Executions \ Stubborn : stage[e] # "idle" ~> stage[e] \in Ended
=============================================================================
