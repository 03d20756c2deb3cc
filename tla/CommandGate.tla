---------------------------- MODULE CommandGate ----------------------------
(***************************************************************************)
(* A blocking command of the job, run and judged by                         *)
(* .github/ci/security-command.py.  The command is a tree of processes that *)
(* fork, detach, ignore SIGTERM and hold the inherited pipe as they like;   *)
(* execute_command bounds it in time, and run_gate turns what it printed    *)
(* into a verdict.  Process identifiers are not reused within one gate.     *)
(***************************************************************************)
EXTENDS GitleaksGate

CONSTANTS Descendants   \* processes the command may start

VARIABLES
    gate,      \* [kind, os]: the gate's name, as far as it matters, and os.name
    proc,      \* the command's processes
    status,    \* exit status of the command itself
    output,    \* what it printed, captured by communicate()
    result,    \* run_gate's report before it is written
    report     \* <log_dir>/<name>.json on disk; a name is used once in a job

commandVars == <<gate, proc, status, output, result, report>>

Leader == "leader"
Procs == Descendants \cup {Leader}

\* GATE_NAMES, as far as run_gate tells them apart
Kinds == {"plain", "tests", "head"}
Systems == {"posix", "nt"}

\* owned: in the process group (posix) or the job object (nt) of the command
ProcStates == [state: {"none", "suspended", "running", "dead"},
               owned: BOOLEAN, pipe: BOOLEAN, deaf: BOOLEAN]

NoProc == [state |-> "none", owned |-> FALSE, pipe |-> FALSE, deaf |-> FALSE]

\* over: beyond MAX_OUTPUT_BYTES; text: UTF-8 without NUL; bad: a non-zero
\* skipped/failed/... counter; passed: the required positive counters; head: the
\* expected revision and nothing else
OutputType == [over: BOOLEAN, text: BOOLEAN, secret: BOOLEAN,
               bad: BOOLEAN, passed: BOOLEAN, head: BOOLEAN]

NoOutput == [over |-> FALSE, text |-> TRUE, secret |-> FALSE,
             bad |-> FALSE, passed |-> TRUE, head |-> TRUE]

\* bound: an output fails at most one of the checks, which are independent
Outputs == {o \in OutputType : Cardinality({f \in DOMAIN o : o[f] # NoOutput[f]}) <= 1}

NoGate == [kind |-> "plain", os |-> "posix"]
NoTree == [p \in Procs |-> NoProc]

\* a gate is a process of its own, with a report of its own
ForgetCommand ==
    /\ gate' = NoGate
    /\ proc' = NoTree
    /\ status' = 1
    /\ output' = NoOutput
    /\ result' = "FAIL"
    /\ report' = "none"

Alive(p) == proc[p].state \in {"suspended", "running"}
Owned == {p \in Procs : Alive(p) /\ proc[p].owned}

\* every process of P ends at once and lets go of the pipe
Slay(P) == [p \in Procs |-> IF p \in P THEN [proc[p] EXCEPT !.state = "dead", !.pipe = FALSE]
                                       ELSE proc[p]]

----------------------------------------------------------------------------
\* The command and its descendants (external: the code under test).  What detached
\* processes do after execute_command has returned concerns no gate.

Executing == tool = "command" /\ pc \in {"spawn", "assign", "wait", "term", "kill", "cleanup"}

Fork(parent, d, deaf) ==
    /\ Executing
    /\ proc[parent].state = "running"
    /\ proc[d].state = "none"
    /\ proc' = [proc EXCEPT ![d] = [proc[parent] EXCEPT !.deaf = deaf]]
    /\ UNCHANGED <<tool, pc, runs, verdict, scanVars, gate, status, output, result, report>>

\* setsid(): possible for a descendant on posix; the job object has no breakaway
Detach(d) ==
    /\ Executing
    /\ gate.os = "posix"
    /\ d # Leader
    /\ proc[d].state = "running" /\ proc[d].owned
    /\ proc' = [proc EXCEPT ![d].owned = FALSE]
    /\ UNCHANGED <<tool, pc, runs, verdict, scanVars, gate, status, output, result, report>>

ClosePipe(p) ==
    /\ Executing
    /\ proc[p].state = "running" /\ proc[p].pipe
    /\ proc' = [proc EXCEPT ![p].pipe = FALSE]
    /\ UNCHANGED <<tool, pc, runs, verdict, scanVars, gate, status, output, result, report>>

Exit(p, rc) ==
    /\ Executing
    /\ proc[p].state = "running"
    /\ proc' = Slay({p})
    /\ status' = IF p = Leader THEN rc ELSE status
    /\ UNCHANGED <<tool, pc, runs, verdict, scanVars, gate, output, result, report>>

----------------------------------------------------------------------------
(***************************************************************************)
(* execute_command                                                          *)
(***************************************************************************)

Go(next) == pc' = next /\ UNCHANGED <<tool, runs, verdict, scanVars>>

\* main and run_gate up to execute_command, with valid arguments
StartCommand(kind, os) ==
    /\ Start("command", "spawn", NoRepo)
    /\ gate' = [kind |-> kind, os |-> os]
    /\ proc' = NoTree
    /\ status' = 1
    /\ output' = NoOutput
    /\ result' = "FAIL"
    /\ report' = "none"

\* Popen: in a session of its own, or suspended and outside the job
Spawn(deaf) ==
    /\ tool = "command" /\ pc = "spawn"
    /\ proc' = [proc EXCEPT ![Leader] =
                    [state |-> IF gate.os = "nt" THEN "suspended" ELSE "running",
                     owned |-> gate.os = "posix", pipe |-> TRUE, deaf |-> deaf]]
    /\ Go(IF gate.os = "nt" THEN "assign" ELSE "wait")
    /\ UNCHANGED <<gate, status, output, result, report>>

\* _WindowsJob.assign_and_resume; each of its calls may fail, before or after
\* the assignment
AssignAndResume ==
    /\ tool = "command" /\ pc = "assign"
    /\ \/ /\ proc' = [proc EXCEPT ![Leader].owned = TRUE, ![Leader].state = "running"]
          /\ Go("wait")
       \/ /\ \E assigned \in BOOLEAN : proc' = [proc EXCEPT ![Leader].owned = assigned]
          /\ Go("cleanup")
    /\ UNCHANGED <<gate, status, output, result, report>>

\* communicate() returns once the pipe has no writer and the command is reaped
PipesClosed == ~Alive(Leader) /\ \A p \in Procs : ~proc[p].pipe

Completed(o) ==
    /\ tool = "command" /\ pc = "wait"
    /\ PipesClosed
    /\ output' = o
    /\ result' = "completed"
    /\ Go("cleanup")
    /\ UNCHANGED <<gate, proc, status, report>>

\* the first timeout: SIGTERM to the group, or the job is terminated; that call
\* may fail, and then the cleanup is next
FirstTimeout ==
    /\ tool = "command" /\ pc = "wait"
    /\ \/ /\ proc' = Slay({p \in Owned : gate.os = "nt" \/ ~proc[p].deaf})
          /\ Go("term")
       \/ /\ gate.os = "nt"
          /\ UNCHANGED proc
          /\ Go("cleanup")
    /\ UNCHANGED <<gate, status, output, result, report>>

\* three seconds later: SIGKILL, or the job is terminated again
SecondTimeout ==
    /\ tool = "command" /\ pc = "term"
    /\ \/ /\ proc' = Slay(Owned)
          /\ Go("kill")
       \/ /\ gate.os = "nt"
          /\ UNCHANGED proc
          /\ Go("cleanup")
    /\ UNCHANGED <<gate, status, output, result, report>>

\* Mutant of AfterSignal: the last communicate() has no timeout
AfterSignalUntimed ==
    /\ tool = "command"
    /\ pc \in {"kill", "term"} /\ PipesClosed
    /\ Go("cleanup")
    /\ UNCHANGED commandVars

\* communicate(timeout=3) after a signal: it returns, or it gives up
AfterSignal ==
    /\ tool = "command"
    /\ pc = "kill" \/ (pc = "term" /\ PipesClosed)
    /\ Go("cleanup")
    /\ UNCHANGED commandVars

\* Mutant of CleanUp: the command is left to the job or the group
CleanUpOwnedOnly ==
    /\ tool = "command" /\ pc = "cleanup"
    /\ proc' = Slay(Owned)
    /\ Go(IF result = "completed" THEN "size" ELSE "report")
    /\ UNCHANGED <<gate, status, output, result, report>>

\* finally: the group or the job is killed, and then the command itself; closing
\* the job ends its processes even when that raises
CleanUp ==
    /\ tool = "command" /\ pc = "cleanup"
    /\ proc' = Slay(Owned \cup {Leader})
    /\ \/ result = "completed" /\ Go("size") /\ UNCHANGED result
       \/ result # "completed" /\ Go("report") /\ UNCHANGED result
       \/ gate.os = "nt" /\ Go("report") /\ result' = "FAIL"
    /\ UNCHANGED <<gate, status, output, report>>

----------------------------------------------------------------------------
(***************************************************************************)
(* run_gate                                                                 *)
(***************************************************************************)

\* the size limit, and scan_stdin's own checks of the payload
CheckSize ==
    /\ tool = "command" /\ pc = "size"
    /\ \/ ~output.over /\ output.text /\ Go("contract") /\ UNCHANGED result
       \/ (output.over \/ ~output.text) /\ Go("report") /\ result' = "FAIL"
    /\ UNCHANGED <<gate, proc, status, output, report>>

\* scan_stdin accepts only a scanner that ends well and says nothing at all
ScanOutput ==
    /\ tool = "command" /\ pc = "scan"
    /\ \E a \in ScannerAnswers(output.secret) : a.rc = 0 /\ ~a.stderr /\ ~a.stdout
    /\ Go("judge")
    /\ UNCHANGED commandVars

Incomplete ==
    \/ output.bad
    \/ gate.kind = "tests" /\ ~output.passed
    \/ gate.kind = "head" /\ ~output.head

Judge ==
    /\ tool = "command" /\ pc = "judge"
    /\ result' = IF ~Incomplete /\ status = 0 THEN "PASS" ELSE "FAIL"
    /\ Go("report")
    /\ UNCHANGED <<gate, proc, status, output, report>>

\* Mutant of CommandFails: the exception leaves the report as it was
CommandFailsQuietly ==
    /\ tool = "command"
    /\ pc \in {"spawn", "scan"} \cup PrepareSteps
    /\ Go("report")
    /\ UNCHANGED commandVars

\* an exception on the way to execute_command or in the scan: the report is a
\* closed FAIL
CommandFails ==
    /\ tool = "command"
    /\ pc \in {"spawn", "scan"} \cup PrepareSteps
    /\ result' = "FAIL"
    /\ Go("report")
    /\ UNCHANGED <<gate, proc, status, output, report>>

\* the report is written, or the gate fails for want of evidence
WriteReport ==
    /\ tool = "command" /\ pc = "report"
    /\ \/ report' = result /\ Finish(result)
       \/ UNCHANGED report /\ Finish("FAIL")
    /\ UNCHANGED <<runs, scanVars, gate, proc, status, output, result>>
=============================================================================
