---------------------------- MODULE ContainerRun ----------------------------
(***************************************************************************)
(* DockerRunner.run (adapters/runner/docker.py): one command in one        *)
(* container, with the docker daemon, the command, the wall clock, a       *)
(* caller's cancellation, an interrupting user and a `pgproof clean` in    *)
(* another terminal all moving on their own.                               *)
(***************************************************************************)
EXTENDS Integers

CONSTANTS
  MayFail,        \* steps of this run that may fail
  MaxInterrupts   \* bound: KeyboardInterrupts delivered to this run

ASSUME MayFailAssumption ==
  MayFail \subseteq {"stage", "create", "start", "inspect", "stop", "rm", "read", "rmtree"}
ASSUME MaxInterruptsAssumption == MaxInterrupts \in Nat

VARIABLES
  pc,             \* the call about to be made; "returned", "raised" or "killed" at the end
  container,      \* "none", "created", "running", "exited", "removed"
  exitCode,       \* of the command: 0, 1, 137 when killed; -1 until it exits
  deadlinePassed, \* time.monotonic() >= deadline
  cancelSet,      \* the caller's cancel_event
  timedOut, cancelled, code,   \* the RunOutcome; code -1 stands for None
  staging,        \* the staged copy of the repository exists
  captured,       \* was the command still running when its files were read
  interrupts, interruptedAt,
  failed          \* history: the steps that have failed

containerVars == <<pc, container, exitCode, deadlinePassed, cancelSet, timedOut, cancelled,
          code, staging, captured, interrupts, interruptedAt, failed>>

runner == <<timedOut, cancelled, code>>
world == <<container, exitCode>>
signals == <<deadlinePassed, cancelSet, interrupts, interruptedAt>>

Ended == {"returned", "raised", "killed"}
Calls == {"stage", "create", "start", "cancel?", "deadline?", "inspect", "stop",
          "code", "rm", "read", "unstage", "unwind"}

ContainerTypeOK ==
  /\ pc \in Calls \cup Ended
  /\ container \in {"none", "created", "running", "exited", "removed"}
  /\ exitCode \in {-1, 0, 1, 137} /\ code \in {-1, 0, 1, 137}
  /\ deadlinePassed \in BOOLEAN /\ cancelSet \in BOOLEAN
  /\ timedOut \in BOOLEAN /\ cancelled \in BOOLEAN /\ staging \in BOOLEAN
  /\ captured \in {"no", "stopped", "running"}
  /\ interrupts \in 0..MaxInterrupts
  /\ interruptedAt \subseteq Calls /\ failed \subseteq MayFail

InitContainer ==
  /\ pc = "stage" /\ container = "none" /\ exitCode = -1
  /\ deadlinePassed = FALSE /\ cancelSet = FALSE
  /\ timedOut = FALSE /\ cancelled = FALSE /\ code = -1
  /\ staging = FALSE /\ captured = "no"
  /\ interrupts = 0 /\ interruptedAt = {} /\ failed = {}

Fails(call) == call \in MayFail /\ failed' = failed \cup {call}
Works == UNCHANGED failed

\* What a `docker inspect .State` call can answer of a live container.
Inspectable == container \in {"created", "running", "exited"}

(***************************************************************************)
(* The runner's steps                                                      *)
(***************************************************************************)

\* _stage_source copies the repository; an error in the copy is raised with
\* the half-made copy left behind, because the try starts after it.
Stage ==
  /\ pc = "stage"
  /\ staging' = TRUE
  /\ \/ Works /\ pc' = "create"
     \/ Fails("stage") /\ pc' = "raised"
  /\ UNCHANGED <<world, runner, signals, captured>>

\* docker create; a refusal is an outcome without an exit code.
Create ==
  /\ pc = "create"
  /\ \/ Works /\ container' = "created" /\ pc' = "start"
     \/ Fails("create") /\ pc' = "unstage" /\ UNCHANGED container
  /\ UNCHANGED <<exitCode, runner, signals, staging, captured>>

Start ==
  /\ pc = "start"
  /\ \/ Works /\ container = "created" /\ container' = "running" /\ pc' = "cancel?"
     \/ /\ Fails("start") \/ (Works /\ container = "removed")
        /\ pc' = "rm" /\ UNCHANGED container
  /\ UNCHANGED <<exitCode, runner, signals, staging, captured>>

\* The poll loop asks three questions, in this order, and then sleeps.
CheckCancel ==
  /\ pc = "cancel?"
  /\ cancelled' = cancelSet
  /\ pc' = IF cancelSet THEN "stop" ELSE "deadline?"
  /\ UNCHANGED <<world, timedOut, code, signals, staging, captured, failed>>

\* (fault) no deadline: the loop only ends with the command.
CheckDeadline_Ignored ==
  /\ pc = "deadline?"
  /\ pc' = "inspect"
  /\ UNCHANGED <<world, runner, signals, staging, captured, failed>>

CheckDeadline ==
  /\ pc = "deadline?"
  /\ timedOut' = deadlinePassed
  /\ pc' = IF deadlinePassed THEN "stop" ELSE "inspect"
  /\ UNCHANGED <<world, cancelled, code, signals, staging, captured, failed>>

\* (fault) any answer ends the loop.
InspectRunning_Once ==
  /\ pc = "inspect"
  /\ pc' = "code"
  /\ UNCHANGED <<world, runner, signals, staging, captured, failed>>

\* A failed inspect ends the loop exactly as "false" does.
InspectRunning ==
  /\ pc = "inspect"
  /\ \/ Works /\ container = "running" /\ pc' = "cancel?"
     \/ Works /\ container # "running" /\ pc' = "code"
     \/ Fails("inspect") /\ pc' = "code"
  /\ UNCHANGED <<world, runner, signals, staging, captured>>

\* docker stop after a timeout or a cancellation; its result is not looked at.
Stop ==
  /\ pc = "stop"
  /\ \/ /\ Works /\ container = "running"
        /\ container' = "exited"
        /\ exitCode' \in {0, 1, 137}
     \/ (Fails("stop") \/ (Works /\ container # "running")) /\ UNCHANGED world
  /\ pc' = "rm"
  /\ UNCHANGED <<runner, signals, staging, captured>>

\* The exit code docker reports of a container that still runs is 0.
ReportedCode == IF container = "exited" THEN exitCode ELSE 0

InspectCode ==
  /\ pc = "code"
  /\ \/ Works /\ code' = IF Inspectable THEN ReportedCode ELSE -1
     \/ Fails("inspect") /\ code' = -1
  /\ pc' = "rm"
  /\ UNCHANGED <<world, timedOut, cancelled, signals, staging, captured>>

\* (fault) only a stopped container is removed.
Remove_StoppedOnly ==
  /\ pc = "rm"
  /\ container' = IF container = "running" THEN container ELSE "removed"
  /\ pc' = IF interrupts > 0 THEN "unwind" ELSE "read"
  /\ UNCHANGED <<exitCode, runner, signals, staging, captured, failed>>

\* The inner finally: rm -f, its result not looked at.
Remove ==
  /\ pc = "rm"
  /\ \/ Works /\ container' = "removed"
     \/ Fails("rm") /\ UNCHANGED container
  /\ pc' = IF interrupts > 0 THEN "unwind" ELSE "read"
  /\ UNCHANGED <<exitCode, runner, signals, staging, captured>>

\* A file that the command made for its own user alone may be unreadable here.
ReadFiles ==
  /\ pc = "read"
  /\ captured' = IF container = "running" THEN "running" ELSE "stopped"
  /\ \/ Works /\ pc' = "unstage"
     \/ Fails("read") /\ pc' = "unwind"
  /\ UNCHANGED <<world, runner, signals, staging>>

\* (fault) the copy is only removed on the way to a return.
Unstage_OnReturn ==
  /\ pc \in {"unstage", "unwind"}
  /\ staging' = (pc = "unwind" /\ staging)
  /\ pc' = IF pc = "unstage" THEN "returned" ELSE "raised"
  /\ UNCHANGED <<world, runner, signals, captured, failed>>

\* The outer finally, on a return ("unstage") or for an exception ("unwind"):
\* rmtree keeps quiet about what it cannot remove.
Unstage ==
  /\ pc \in {"unstage", "unwind"}
  /\ \/ Works /\ staging' = FALSE
     \/ Fails("rmtree") /\ UNCHANGED staging
  /\ pc' = IF pc = "unstage" THEN "returned" ELSE "raised"
  /\ UNCHANGED <<world, runner, signals, captured>>

(***************************************************************************)
(* The world                                                               *)
(***************************************************************************)

CommandExits ==
  /\ container = "running"
  /\ container' = "exited"
  /\ exitCode' \in {0, 1, 137}
  /\ UNCHANGED <<pc, runner, signals, staging, captured, failed>>

Tick ==
  /\ pc \in Calls /\ deadlinePassed' = TRUE
  /\ UNCHANGED <<pc, world, runner, cancelSet, interrupts, interruptedAt, staging, captured,
                 failed>>

Cancel ==
  /\ pc \in Calls /\ cancelSet' = TRUE
  /\ UNCHANGED <<pc, world, runner, deadlinePassed, interrupts, interruptedAt, staging, captured,
                 failed>>

\* `pgproof clean --containers` (or a user) removes the container.
RemovedByClean ==
  /\ Inspectable
  /\ container' = "removed"
  /\ UNCHANGED <<pc, exitCode, runner, signals, staging, captured, failed>>

\* SIGINT: the call in progress dies, possibly after it has acted, and the
\* finally clauses from here outwards run.
Interrupt ==
  /\ pc \in Calls /\ interrupts < MaxInterrupts
  /\ interrupts' = interrupts + 1
  /\ interruptedAt' = interruptedAt \cup {pc}
  /\ \/ /\ pc = "stage" /\ staging' \in BOOLEAN /\ pc' = "raised"
        /\ UNCHANGED container
     \/ /\ pc \in {"start", "cancel?", "deadline?", "inspect", "stop", "code"}
        /\ pc' = "rm" /\ UNCHANGED <<container, staging>>
     \/ /\ pc = "create"
        /\ container' \in {"none", "created"} /\ pc' = "unwind" /\ UNCHANGED staging
     \/ /\ pc = "rm"
        /\ container' \in {container, "removed"} /\ pc' = "unwind" /\ UNCHANGED staging
     \/ /\ pc = "read" /\ pc' = "unwind" /\ UNCHANGED <<container, staging>>
     \/ /\ pc \in {"unstage", "unwind"} /\ staging' \in {staging, FALSE}
        /\ pc' = "raised" /\ UNCHANGED container
  /\ UNCHANGED <<exitCode, deadlinePassed, cancelSet, runner, captured, failed>>

Kill ==
  /\ pc \in Calls /\ pc' = "killed"
  /\ UNCHANGED <<world, runner, signals, staging, captured, failed>>

Step ==
  \/ Stage \/ Create \/ Start \/ CheckCancel \/ CheckDeadline \/ InspectRunning
  \/ Stop \/ InspectCode \/ Remove \/ ReadFiles \/ Unstage

NextContainer == Step \/ CommandExits \/ Tick \/ Cancel \/ RemovedByClean \/ Interrupt \/ Kill

\* The process is scheduled, docker calls return, and time passes; nothing
\* makes the command exit.
Fairness == WF_containerVars(Step) /\ WF_containerVars(Tick)

SpecContainer == InitContainer /\ [][NextContainer]_containerVars /\ Fairness

(***************************************************************************)
(* Properties                                                              *)
(***************************************************************************)

Succeeded == pc = "returned" /\ code = 0 /\ ~timedOut /\ ~cancelled

\* RunOutcome.succeeded is the truth unless an inspect failed: the command had
\* exited, by itself, with code 0, before the runner removed its container
\* (execution.py:91-93), and its files were read when it could no longer write
\* them, whatever else went wrong.
SuccessIsReal ==
  Succeeded => "inspect" \in failed \/ (exitCode = 0 /\ captured = "stopped")

\* What a run leaves on its way out has one of a few causes: a container, a
\* removal the daemon refused or an interrupt of the two calls no finally
\* protects; a staged copy, a failed or interrupted copying, or a removal that
\* could not finish.  No other failure of any call, and no race with the
\* deadline, a cancellation or a clean, leaves anything (docker.py:242-251).
NothingLeft ==
  pc \in {"returned", "raised"} =>
    /\ Inspectable => "rm" \in failed \/ interruptedAt \cap {"create", "rm"} # {}
    /\ staging => \/ failed \cap {"stage", "rmtree"} # {}
                  \/ interruptedAt \cap {"stage", "unstage", "unwind"} # {}

\* "workspace-relative files read back out of that same staging copy once the
\* container has stopped" (ports/runner.py:31-32).
FilesAreFinal == captured # "running"

\* No command can keep the runner waiting for ever (runner.timeout_seconds).
Terminates == <>(pc \in Ended)
=============================================================================
