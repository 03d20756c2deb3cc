----------------------------- MODULE CiJob_proofs -----------------------------
(***************************************************************************)
(* Safety of a job for every number of gates, of rewrites of a lock file   *)
(* and of processes that a command starts.                                 *)
(*                                                                         *)
(* A gate remembers nothing of its predecessors but the cache, so the      *)
(* invariant says, for each tool and each of its steps, what the steps     *)
(* before it have established: that the scanner is the pinned one, that a  *)
(* command has ended with all it owns, that what was scanned was clean and *)
(* that what was audited is what was hashed.                               *)
(***************************************************************************)
EXTENDS CiJob, TLAPS

Tools == {"none", "command", "source", "artifacts", "python", "npm"}
Scanners == {"source", "artifacts"}
Auditors == {"python", "npm"}

Places(t) ==
    CASE t = "none"    -> {"idle"}
      [] t = "command" -> {"spawn", "assign", "wait", "term", "kill", "cleanup", "size",
                           "scan", "judge", "report"} \cup PrepareSteps
      [] t \in Scanners -> {"scan", "snapshot", "locks"} \cup PrepareSteps
      [] OTHER         -> {"tools", "inventory", "export", "audit", "finally", "summary"}

JobShapes ==
    /\ tool \in Tools /\ pc \in Places(tool) /\ runs \in 0..MaxRuns
    /\ verdict \in [tool : Tools, result : {"none", "PASS", "FAIL", "killed"}]
    /\ archive \in ArchiveStates /\ binary \in BinaryStates
    /\ lock \in LockVersions /\ before \in 0..lock
    /\ repo \in Repos /\ findings \in 0..3
CommandShapes ==
    /\ gate \in [kind : Kinds, os : Systems] /\ proc \in [Procs -> ProcStates]
    /\ status \in 0..1 /\ output \in OutputType
    /\ result \in {"FAIL", "completed", "PASS"} /\ report \in {"none", "PASS", "FAIL"}
AuditShapes == input \in 0..lock /\ audited \in 0..3 /\ summary \in {"PASS", "FAIL"}

(* What is run is the pinned scanner, whoever wrote the cache.             *)
Cache ==
    /\ pc \in {"extracting", "chmod", "version", "scan", "snapshot", "locks"} =>
          archive = "pinned"
    /\ pc \in {"scan", "snapshot", "locks"} => binary = "ready"

-----------------------------------------------------------------------------
(* Commands.                                                               *)

Ended == ~Alive(Leader) /\ Owned = {}

(* A command that is executed; nothing is judged before it has ended.      *)
Execution ==
    tool = "command" =>
        /\ pc = "spawn" => \A p \in Procs : proc[p].state = "none"
        /\ pc \in {"assign", "wait", "term", "kill", "cleanup"} => proc[Leader].state # "none"
        /\ result = "completed" => PipesClosed
        /\ ~Executing => Ended

Clean == ~output.over /\ output.text /\ ~output.secret
Earned == status = 0 /\ PipesClosed /\ Clean /\ ~Incomplete

Judgement ==
    tool = "command" =>
        /\ pc \in {"spawn", "assign", "wait", "term", "kill"} => result = "FAIL"
        /\ pc = "cleanup" => result # "PASS"
        /\ pc \in {"size", "scan", "judge"} \cup PrepareSteps => result = "completed"
        /\ pc \in {"scan", "judge"} \cup PrepareSteps => ~output.over /\ output.text
        /\ pc = "judge" => Clean
        /\ pc = "report" => result \in {"PASS", "FAIL"} /\ (result = "PASS" => Earned)

-----------------------------------------------------------------------------
(* Scans and audits.                                                       *)

(* No finding so far means that what was scanned so far is clean.          *)
Scanned ==
    tool \in Scanners =>
        /\ pc \in {"scan"} \cup PrepareSteps => findings = 0
        /\ pc = "snapshot" => tool = "source" /\ findings <= 1
        /\ pc = "locks" => findings <= 2
        /\ pc \in {"snapshot", "locks"} => Inspected
        /\ pc \in {"snapshot", "locks"} /\ findings = 0 /\ tool = "source" => ~repo.pastSecret
        /\ pc = "locks" /\ findings = 0 => ~repo.secret

(* Inventories audited so far have no advisory, and what is audited is     *)
(* between the hashed lock file and today's.                               *)
Audited ==
    tool \in Auditors =>
        /\ before <= input
        /\ pc \in {"tools", "inventory", "export", "audit"} => findings = 0
        /\ pc \in {"tools", "inventory", "export"} => audited = 0
        /\ pc = "audit" => /\ audited < 3
                           /\ \A n \in 1..audited : PythonInventories[n] \notin advisories
        /\ pc \in {"finally", "summary"} /\ summary = "PASS" =>
              Inventories(tool) \cap advisories = {}
        /\ pc = "summary" /\ summary = "PASS" => input = before

IndInv ==
    /\ JobShapes /\ CommandShapes /\ AuditShapes /\ Cache
    /\ Execution /\ Judgement /\ Scanned /\ Audited
    /\ OwnedProcessesEnd /\ PassIsEarned

-----------------------------------------------------------------------------
(* Steps of a command gate.                                                *)

(* Which steps are which.                                                  *)
LEMMA CommandPlaces ==
    Places("command") = {"spawn", "assign", "wait", "term", "kill", "cleanup", "size",
                         "scan", "judge", "report"} \cup PrepareSteps
BY DEF Places, Scanners

(* A command gate moves on, and nothing but its own state changes.         *)
LEMMA CommandMoves ==
    ASSUME IndInv, tool = "command", UNCHANGED <<tool, runs, verdict, scanVars, dependencyVars>>,
           pc' \in Places("command"), pc' \notin PrepareSteps \ {"contract"}, pc' # "scan",
           CommandShapes', Execution', Judgement'
    PROVE  IndInv'
<1>0. /\ UNCHANGED <<tool, runs, verdict, archive, binary, lock, before, repo, findings>>
      /\ UNCHANGED <<advisories, audited, input, summary>>
  BY DEF scanVars, dependencyVars
<1>1. JobShapes'
  BY <1>0 DEF IndInv, JobShapes
<1>2. AuditShapes'
  BY <1>0 DEF IndInv, AuditShapes
<1>3. Cache'
  BY CommandPlaces DEF Cache, PrepareSteps
<1>4. Scanned' /\ Audited'
  BY <1>0 DEF Scanned, Audited, Scanners, Auditors
<1>5. OwnedProcessesEnd' /\ PassIsEarned'
  BY <1>0 DEF Execution, Ended, OwnedProcessesEnd, PassIsEarned, CommandPassIsEarned,
              ScanPassIsEarned, AuditPassIsEarned
<1> QED BY <1>1, <1>2, <1>3, <1>4, <1>5 DEF IndInv

(* What a process cannot do: come back, or open a pipe that is closed.     *)
Behaving ==
    /\ \E p \in Procs : proc[p].state = "running"
    /\ proc' \in [Procs -> ProcStates] /\ status' \in 0..1
    /\ proc[Leader].state # "none" => /\ proc'[Leader].state # "none"
                                      /\ ~Alive(Leader) => ~Alive(Leader)'
    /\ (\A p \in Procs : ~proc[p].pipe) => \A p \in Procs : ~proc'[p].pipe

(* The processes of a command do as they like, as long as it is executed.  *)
LEMMA ProcessesKeep ==
    ASSUME IndInv, CommandProcesses, UNCHANGED dependencyVars
    PROVE  IndInv'
<1>0. /\ Executing /\ tool = "command" /\ UNCHANGED <<tool, pc, runs, verdict, scanVars>>
      /\ UNCHANGED <<gate, output, result, report>>
  BY DEF CommandProcesses, Fork, Detach, ClosePipe, Exit, Executing
<1>1. proc \in [Procs -> ProcStates] /\ status \in 0..1 /\ Leader \in Procs
  BY DEF IndInv, CommandShapes, Procs
<1>2. pc \in Places("command") /\ pc \notin PrepareSteps /\ pc # "scan"
  BY <1>0, CommandPlaces DEF Executing, PrepareSteps
<1>3. Behaving
  <2>1. ASSUME NEW p \in Procs, NEW d \in Descendants, NEW deaf \in BOOLEAN, Fork(p, d, deaf)
        PROVE  Behaving
    <3>1. PICK w : w = [proc[p] EXCEPT !.deaf = deaf]
      OBVIOUS
    <3>2. w \in ProcStates /\ w.pipe = proc[p].pipe
      BY <1>1, <3>1 DEF ProcStates
    <3>3. /\ proc' = [proc EXCEPT ![d] = w] /\ proc[p].state = "running"
          /\ proc[d].state = "none" /\ d \in Procs /\ status' = status
      BY <2>1, <3>1 DEF Fork, Procs
    <3>4. \A x \in Procs : proc'[x] = IF x = d THEN w ELSE proc[x]
      BY <1>1, <3>3
    <3> QED BY <1>1, <3>2, <3>3, <3>4 DEF Behaving, Alive
  <2>2. ASSUME NEW d \in Descendants, Detach(d)
        PROVE  Behaving
    <3>1. PICK w : w = [proc[d] EXCEPT !.owned = FALSE]
      OBVIOUS
    <3>2. d \in Procs /\ w \in ProcStates /\ w.pipe = proc[d].pipe /\ w.state = proc[d].state
      BY <1>1, <3>1 DEF ProcStates, Procs
    <3>3. proc' = [proc EXCEPT ![d] = w] /\ proc[d].state = "running" /\ status' = status
      BY <2>2, <3>1 DEF Detach
    <3>4. \A x \in Procs : proc'[x] = IF x = d THEN w ELSE proc[x]
      BY <1>1, <3>3
    <3> QED BY <1>1, <3>2, <3>3, <3>4 DEF Behaving, Alive
  <2>3. ASSUME NEW d \in Procs, ClosePipe(d)
        PROVE  Behaving
    <3>1. PICK w : w = [proc[d] EXCEPT !.pipe = FALSE]
      OBVIOUS
    <3>2. w \in ProcStates /\ w.pipe = FALSE /\ w.state = proc[d].state
      BY <1>1, <3>1 DEF ProcStates
    <3>3. proc' = [proc EXCEPT ![d] = w] /\ proc[d].state = "running" /\ status' = status
      BY <2>3, <3>1 DEF ClosePipe
    <3>4. \A x \in Procs : proc'[x] = IF x = d THEN w ELSE proc[x]
      BY <1>1, <3>3
    <3> QED BY <1>1, <3>2, <3>3, <3>4 DEF Behaving, Alive
  <2>4. ASSUME NEW d \in Procs, NEW rc \in 0..1, Exit(d, rc)
        PROVE  Behaving
    <3>1. PICK w : w = [proc[d] EXCEPT !.state = "dead", !.pipe = FALSE]
      OBVIOUS
    <3>2. w \in ProcStates /\ w.pipe = FALSE /\ w.state = "dead"
      BY <1>1, <3>1 DEF ProcStates
    <3>3. proc' = Slay({d}) /\ proc[d].state = "running" /\ status' \in 0..1
      BY <1>1, <2>4 DEF Exit
    <3>4. proc' = [x \in Procs |-> IF x = d THEN w ELSE proc[x]]
      BY <3>1, <3>3 DEF Slay
    <3>5. \A x \in Procs : proc'[x] = IF x = d THEN w ELSE proc[x]
      BY <3>4
    <3>6. proc' \in [Procs -> ProcStates]
      BY <1>1, <3>2, <3>4
    <3> QED BY <1>1, <3>2, <3>3, <3>5, <3>6 DEF Behaving, Alive
  <2> QED BY <2>1, <2>2, <2>3, <2>4 DEF CommandProcesses
<1>4. CommandShapes'
  BY <1>0, <1>3 DEF IndInv, CommandShapes, Behaving
<1>5. Execution'
  <2>1. pc # "spawn" /\ proc[Leader].state # "none"
    BY <1>0, <1>3 DEF IndInv, Execution, Executing, Behaving
  <2>2. result = "completed" => PipesClosed'
    BY <1>0, <1>3, <2>1 DEF IndInv, Execution, PipesClosed, Behaving
  <2> QED BY <1>0, <1>3, <2>1, <2>2 DEF Execution, Executing, Behaving
<1>6. Judgement'
  BY <1>0, <1>2 DEF IndInv, Judgement, Executing
<1> QED BY <1>0, <1>2, <1>4, <1>5, <1>6, CommandMoves

(* Processes are ended: those of P are dead and hold no pipe.              *)
LEMMA SlayForm ==
    ASSUME CommandShapes, NEW P
    PROVE  /\ Slay(P) \in [Procs -> ProcStates]
           /\ \A p \in Procs : /\ Slay(P)[p].state = IF p \in P THEN "dead" ELSE proc[p].state
                               /\ Slay(P)[p].pipe => proc[p].pipe
                               /\ Slay(P)[p].owned = proc[p].owned
<1>1. \A p \in Procs : proc[p] \in ProcStates
  BY DEF CommandShapes
<1>2. ASSUME NEW p \in Procs
      PROVE  LET w == [proc[p] EXCEPT !.state = "dead", !.pipe = FALSE]
             IN  w \in ProcStates /\ w.state = "dead" /\ ~w.pipe /\ w.owned = proc[p].owned
  BY <1>1 DEF ProcStates
<1>3. ASSUME NEW p \in Procs
      PROVE  Slay(P)[p] = IF p \in P THEN [proc[p] EXCEPT !.state = "dead", !.pipe = FALSE]
                                     ELSE proc[p]
  BY DEF Slay
<1>4. ASSUME NEW p \in Procs PROVE Slay(P)[p] \in ProcStates
  BY <1>1, <1>2, <1>3
<1>5. Slay(P) = [p \in Procs |-> Slay(P)[p]]
  BY DEF Slay
<1> QED BY <1>2, <1>3, <1>4, <1>5

(* Once they are ended a command has ended, and its pipes stay closed.     *)
LEMMA SlayKeeps ==
    ASSUME CommandShapes, NEW P, proc' = Slay(P)
    PROVE  /\ proc' \in [Procs -> ProcStates]
           /\ proc[Leader].state # "none" => proc'[Leader].state # "none"
           /\ PipesClosed => PipesClosed'
           /\ P = Owned \cup {Leader} => Ended'
<1>1. Leader \in Procs
  BY DEF Procs
<1>2. proc' \in [Procs -> ProcStates]
  BY SlayForm
<1>3. \A p \in Procs : /\ proc'[p].state = IF p \in P THEN "dead" ELSE proc[p].state
                       /\ proc'[p].pipe => proc[p].pipe
                       /\ proc'[p].owned = proc[p].owned
  BY SlayForm
<1>4. PipesClosed => PipesClosed'
  BY <1>1, <1>3 DEF PipesClosed, Alive
<1>5. ASSUME P = Owned \cup {Leader} PROVE Ended'
  BY <1>1, <1>3, <1>5 DEF Ended, Owned, Alive
<1> QED BY <1>1, <1>2, <1>3, <1>4, <1>5

(* A step of execute_command before its finally.                           *)
Executed ==
    /\ pc' \in {"assign", "wait", "term", "kill", "cleanup"}
    /\ result' \in {"FAIL", "completed"} /\ output' \in OutputType
    /\ result' = "completed" => pc' = "cleanup" /\ PipesClosed'
    /\ proc' \in [Procs -> ProcStates] /\ proc'[Leader].state # "none"

(* execute_command up to its finally.                                      *)
LEMMA ExecutionKeeps ==
    ASSUME IndInv, UNCHANGED dependencyVars,
           \/ \E deaf \in BOOLEAN : Spawn(deaf)
           \/ AssignAndResume
           \/ \E o \in Outputs : Completed(o)
           \/ FirstTimeout \/ SecondTimeout \/ AfterSignal
    PROVE  IndInv'
<1>0. /\ tool = "command" /\ UNCHANGED <<tool, runs, verdict, scanVars>>
      /\ UNCHANGED <<gate, status, report>>
      /\ CommandShapes /\ Execution /\ Judgement /\ Leader \in Procs
  BY DEF IndInv, Spawn, AssignAndResume, Completed, FirstTimeout, SecondTimeout, AfterSignal,
         Go, commandVars, Procs
<1>1. Executed
  <2>1. ASSUME NEW deaf \in BOOLEAN, Spawn(deaf) PROVE Executed
    <3>1. PICK w : w = [state |-> IF gate.os = "nt" THEN "suspended" ELSE "running",
                        owned |-> gate.os = "posix", pipe |-> TRUE, deaf |-> deaf]
      OBVIOUS
    <3>2. w \in ProcStates /\ w.state # "none"
      BY <2>1, <3>1 DEF ProcStates
    <3>3. /\ pc = "spawn" /\ pc' \in {"assign", "wait"} /\ proc' = [proc EXCEPT ![Leader] = w]
          /\ UNCHANGED <<output, result>>
      BY <2>1, <3>1 DEF Spawn, Go
    <3> QED BY <1>0, <3>2, <3>3 DEF Executed, CommandShapes, Judgement
  <2>2. CASE AssignAndResume
    <3>1. /\ pc = "assign" /\ pc' \in {"wait", "cleanup"} /\ UNCHANGED <<output, result>>
          /\ proc[Leader] \in ProcStates /\ proc[Leader].state # "none"
      BY <1>0, <2>2 DEF AssignAndResume, Go, CommandShapes, Execution
    <3>2. PICK w \in ProcStates : proc' = [proc EXCEPT ![Leader] = w] /\ w.state # "none"
      <4>1. CASE proc' = [proc EXCEPT ![Leader].owned = TRUE, ![Leader].state = "running"]
        <5>1. PICK w : w = [proc[Leader] EXCEPT !.owned = TRUE, !.state = "running"]
          OBVIOUS
        <5>2. w \in ProcStates /\ w.state = "running"
          BY <3>1, <5>1 DEF ProcStates
        <5>3. proc' = [proc EXCEPT ![Leader] = w]
          BY <1>0, <4>1, <5>1 DEF CommandShapes
        <5> QED BY <5>2, <5>3
      <4>2. ASSUME NEW assigned \in BOOLEAN, proc' = [proc EXCEPT ![Leader].owned = assigned]
            PROVE  \E w \in ProcStates : proc' = [proc EXCEPT ![Leader] = w] /\ w.state # "none"
        <5>1. PICK w : w = [proc[Leader] EXCEPT !.owned = assigned]
          OBVIOUS
        <5>2. w \in ProcStates /\ w.state = proc[Leader].state
          BY <3>1, <5>1 DEF ProcStates
        <5>3. proc' = [proc EXCEPT ![Leader] = w]
          BY <4>2, <5>1
        <5> QED BY <3>1, <5>2, <5>3
      <4> QED BY <2>2, <4>1, <4>2 DEF AssignAndResume
    <3> QED BY <1>0, <3>1, <3>2 DEF Executed, CommandShapes, Judgement
  <2>3. ASSUME NEW o \in Outputs, Completed(o) PROVE Executed
    <3>1. /\ pc' = "cleanup" /\ PipesClosed /\ UNCHANGED proc /\ output' = o
          /\ result' = "completed" /\ pc = "wait"
      BY <2>3 DEF Completed, Go
    <3>2. o \in OutputType
      BY DEF Outputs
    <3> QED BY <1>0, <3>1, <3>2 DEF Executed, CommandShapes, Execution, PipesClosed, Alive
  <2>4. CASE FirstTimeout
    <3>1. /\ pc = "wait" /\ pc' \in {"term", "cleanup"} /\ UNCHANGED <<output, result>>
          /\ UNCHANGED proc \/ proc' = Slay({p \in Owned : gate.os = "nt" \/ ~proc[p].deaf})
      BY <2>4 DEF FirstTimeout, Go
    <3>2. proc' \in [Procs -> ProcStates] /\ proc'[Leader].state # "none"
      BY <1>0, <3>1, SlayKeeps DEF CommandShapes, Execution
    <3> QED BY <1>0, <3>1, <3>2 DEF Executed, CommandShapes, Judgement
  <2>5. CASE SecondTimeout
    <3>1. /\ pc = "term" /\ pc' \in {"kill", "cleanup"} /\ UNCHANGED <<output, result>>
          /\ UNCHANGED proc \/ proc' = Slay(Owned)
      BY <2>5 DEF SecondTimeout, Go
    <3>2. proc' \in [Procs -> ProcStates] /\ proc'[Leader].state # "none"
      BY <1>0, <3>1, SlayKeeps DEF CommandShapes, Execution
    <3> QED BY <1>0, <3>1, <3>2 DEF Executed, CommandShapes, Judgement
  <2>6. CASE AfterSignal
    <3>1. pc \in {"kill", "term"} /\ pc' = "cleanup" /\ UNCHANGED <<output, result, proc>>
      BY <2>6 DEF AfterSignal, Go, commandVars
    <3> QED BY <1>0, <3>1 DEF Executed, CommandShapes, Execution, Judgement
  <2> QED BY <2>1, <2>2, <2>3, <2>4, <2>5, <2>6
<1>2. CommandShapes'
  BY <1>0, <1>1 DEF Executed, CommandShapes
<1>3. Execution'
  BY <1>0, <1>1 DEF Executed, Execution, Executing
<1>4. Judgement'
  BY <1>0, <1>1 DEF Executed, Judgement, PrepareSteps
<1>5. pc' \in Places("command") /\ pc' \notin PrepareSteps /\ pc' # "scan"
  BY <1>1, CommandPlaces DEF Executed, PrepareSteps
<1> QED BY <1>0, <1>2, <1>3, <1>4, <1>5, CommandMoves

(* A gate ends: what it has earned, or that it failed or was killed.       *)
LEMMA JobEnds ==
    ASSUME IndInv, NEW x \in {"PASS", "FAIL", "killed"}, tool # "none", Finish(x),
           UNCHANGED <<runs, scanVars, gate, proc, status, output, result, dependencyVars>>,
           report' \in {"none", "PASS", "FAIL"},
           tool = "command" /\ x # "killed" => Ended,
           PassIsEarned'
    PROVE  IndInv'
<1>0. /\ tool' = "none" /\ pc' = "idle" /\ verdict' = [tool |-> tool, result |-> x]
      /\ UNCHANGED <<runs, archive, binary, lock, before, repo, findings, advisories, audited>>
      /\ UNCHANGED <<input, summary, gate, proc, status, output, result>>
  BY DEF Finish, scanVars, dependencyVars
<1>1. verdict'.tool = tool /\ verdict'.result = x
      /\ verdict' \in [tool : Tools, result : {"none", "PASS", "FAIL", "killed"}]
  BY <1>0 DEF IndInv, JobShapes
<1>2. "none" \in Tools /\ "idle" \in Places("none")
  BY DEF Tools, Places, Scanners
<1>3. JobShapes'
  BY <1>0, <1>1, <1>2 DEF IndInv, JobShapes
<1>4. CommandShapes' /\ AuditShapes'
  BY <1>0 DEF IndInv, CommandShapes, AuditShapes
<1>5. Cache' /\ Execution' /\ Judgement' /\ Scanned' /\ Audited'
  BY <1>0 DEF Cache, Execution, Judgement, Scanned, Audited, Scanners, Auditors
<1>6. OwnedProcessesEnd'
  <2>1. Ended => ~Alive(Leader)' /\ Owned' = {}
    BY <1>0 DEF Ended, Alive, Owned
  <2> QED BY <1>0, <1>1, <2>1 DEF OwnedProcessesEnd
<1> QED BY <1>3, <1>4, <1>5, <1>6 DEF IndInv

(* The rest of a command gate: what is judged has ended, and a PASS of the *)
(* report is earned.                                                       *)
LEMMA JudgementKeeps ==
    ASSUME IndInv, UNCHANGED dependencyVars,
           CleanUp \/ CheckSize \/ ScanOutput \/ Judge \/ CommandFails
    PROVE  IndInv'
<1>0. /\ tool = "command" /\ UNCHANGED <<tool, runs, verdict, scanVars>>
      /\ UNCHANGED <<gate, status, output, report>>
      /\ CommandShapes /\ Execution /\ Judgement
  BY DEF IndInv, CleanUp, CheckSize, ScanOutput, Judge, CommandFails, Go, commandVars
<1>1. ASSUME UNCHANGED proc
      PROVE  (Ended => Ended') /\ (PipesClosed => PipesClosed')
  BY <1>1 DEF Ended, PipesClosed, Alive, Owned
<1>2. /\ pc' \in {"size", "contract", "judge", "report"}
      /\ proc' \in [Procs -> ProcStates] /\ Ended'
      /\ result' \in {"FAIL", "completed", "PASS"}
      /\ result' = "completed" => PipesClosed'
      /\ Judgement'
  <2>1. CASE CleanUp
    <3>1. /\ pc = "cleanup" /\ proc' = Slay(Owned \cup {Leader})
          /\ \/ result = "completed" /\ result' = "completed" /\ pc' = "size"
             \/ result # "completed" /\ result' = result /\ pc' = "report"
             \/ result' = "FAIL" /\ pc' = "report"
      BY <2>1 DEF CleanUp, Go
    <3>2. proc' \in [Procs -> ProcStates] /\ Ended' /\ (PipesClosed => PipesClosed')
      BY <1>0, <3>1, SlayKeeps
    <3>3. result \in {"completed", "FAIL"} /\ (result = "completed" => PipesClosed)
      BY <1>0, <3>1 DEF CommandShapes, Judgement, Execution
    <3>4. Judgement'
      BY <1>0, <3>1, <3>3 DEF Judgement, PrepareSteps
    <3> QED BY <3>1, <3>2, <3>3, <3>4
  <2>2. CASE CheckSize
    <3>1. /\ pc = "size" /\ UNCHANGED proc
          /\ \/ ~output.over /\ output.text /\ result' = result /\ pc' = "contract"
             \/ result' = "FAIL" /\ pc' = "report"
      BY <2>2 DEF CheckSize, Go
    <3>2. Ended /\ result = "completed" /\ PipesClosed
      BY <1>0, <3>1 DEF Execution, Executing, Judgement
    <3>3. Judgement'
      BY <1>0, <3>1, <3>2 DEF Judgement, PrepareSteps
    <3> QED BY <1>0, <1>1, <3>1, <3>2, <3>3 DEF CommandShapes
  <2>3. CASE ScanOutput
    <3>1. pc = "scan" /\ UNCHANGED <<proc, result>> /\ pc' = "judge"
      BY <2>3 DEF ScanOutput, Go, commandVars
    <3>2. /\ Ended /\ result = "completed" /\ PipesClosed /\ ~output.over /\ output.text
      BY <1>0, <3>1 DEF Execution, Executing, Judgement
    <3>3. ~output.secret
      BY <2>3 DEF ScanOutput, ScannerAnswers
    <3>4. Judgement'
      BY <1>0, <3>1, <3>2, <3>3 DEF Judgement, PrepareSteps, Clean
    <3> QED BY <1>0, <1>1, <3>1, <3>2, <3>4 DEF CommandShapes
  <2>4. CASE Judge
    <3>1. /\ pc = "judge" /\ UNCHANGED proc /\ pc' = "report"
          /\ result' \in {"PASS", "FAIL"} /\ (result' = "PASS" => ~Incomplete /\ status = 0)
      BY <2>4 DEF Judge, Go
    <3>2. Ended /\ PipesClosed /\ Clean
      BY <1>0, <3>1 DEF Execution, Executing, Judgement
    <3>3. result' = "PASS" => Earned'
      BY <1>0, <1>1, <3>1, <3>2 DEF Earned, Clean, Incomplete
    <3>4. Judgement'
      BY <1>0, <3>1, <3>3 DEF Judgement, PrepareSteps
    <3> QED BY <1>0, <1>1, <3>1, <3>2, <3>4 DEF CommandShapes
  <2>5. CASE CommandFails
    <3>1. /\ pc \in {"spawn", "scan"} \cup PrepareSteps /\ UNCHANGED proc
          /\ result' = "FAIL" /\ pc' = "report"
      BY <2>5 DEF CommandFails, Go
    <3>2. Ended
      <4>1. CASE pc = "spawn"
        <5>1. \A p \in Procs : proc[p].state = "none"
          BY <1>0, <4>1 DEF Execution
        <5> QED BY <5>1 DEF Ended, Alive, Owned, Procs
      <4>2. CASE pc # "spawn"
        BY <1>0, <3>1, <4>2 DEF Execution, Executing, PrepareSteps
      <4> QED BY <4>1, <4>2
    <3>3. Judgement'
      BY <1>0, <3>1 DEF Judgement, PrepareSteps
    <3> QED BY <1>0, <1>1, <3>1, <3>2, <3>3 DEF CommandShapes
  <2> QED BY <2>1, <2>2, <2>3, <2>4, <2>5
<1>3. CommandShapes'
  BY <1>0, <1>2 DEF CommandShapes
<1>4. Execution'
  BY <1>0, <1>2 DEF Execution
<1>5. pc' \in Places("command") /\ pc' \notin PrepareSteps \ {"contract"} /\ pc' # "scan"
  BY <1>2, CommandPlaces DEF PrepareSteps
<1> QED BY <1>0, <1>2, <1>3, <1>4, <1>5, CommandMoves

(* The report of a command gate, or its failure for want of one.           *)
LEMMA WriteReportKeeps ==
    ASSUME IndInv, WriteReport, UNCHANGED dependencyVars
    PROVE  IndInv'
<1>0. /\ tool = "command" /\ pc = "report"
      /\ UNCHANGED <<runs, scanVars, gate, proc, status, output, result>>
  BY DEF WriteReport
<1>1. PICK x \in {"PASS", "FAIL"} :
        /\ Finish(x) /\ report' \in {"none", "PASS", "FAIL"}
        /\ x = "PASS" => result = "PASS" /\ report' = "PASS"
  BY <1>0 DEF WriteReport, IndInv, Judgement, CommandShapes
<1>2. Ended /\ (result = "PASS" => Earned)
  BY <1>0 DEF IndInv, Execution, Executing, Judgement
<1>3. PassIsEarned'
  <2>1. verdict'.tool = "command" /\ verdict' = [tool |-> "command", result |-> x]
        /\ verdict'.result = x
    BY <1>0, <1>1 DEF Finish
  <2>2. Earned => Earned'
    BY <1>0 DEF Earned, PipesClosed, Alive, Clean, Incomplete
  <2>3. CommandPassIsEarned'
    BY <1>1, <1>2, <2>1, <2>2 DEF CommandPassIsEarned, Earned, Clean, Incomplete
  <2>4. ScanPassIsEarned' /\ AuditPassIsEarned'
    BY <2>1 DEF ScanPassIsEarned, AuditPassIsEarned
  <2> QED BY <2>3, <2>4 DEF PassIsEarned
<1> QED BY <1>0, <1>1, <1>2, <1>3, JobEnds

-----------------------------------------------------------------------------
(* Steps of the scanner's preparation and of a scan.                       *)

(* Which steps a scan has.                                                 *)
LEMMA ScanPlaces ==
    ASSUME NEW t \in Scanners
    PROVE  Places(t) = {"scan", "snapshot", "locks"} \cup PrepareSteps
BY DEF Places, Scanners

(* Of the tools, only commands and scans prepare the scanner.              *)
LEMMA AuditPlaces ==
    ASSUME NEW t \in Auditors
    PROVE  Places(t) = {"tools", "inventory", "export", "audit", "finally", "summary"}
BY DEF Places, Scanners, Auditors

(* The scanner is fetched, verified, unpacked and asked for its version,   *)
(* from whatever an earlier gate has left in the cache.                    *)
LEMMA PrepareKeeps ==
    ASSUME IndInv, Prepare, UNCHANGED <<commandVars, dependencyVars>>
    PROVE  IndInv'
<1>0. /\ UNCHANGED <<tool, runs, verdict, lock, before, repo, findings, gate, proc, status>>
      /\ UNCHANGED <<output, result, report, advisories, audited, input, summary>>
  BY DEF Prepare, VerifyContract, FetchArchive, StoreArchive, VerifyArchive, WriteBinary,
         MakeExecutable, CheckVersion, Move, scanVars, commandVars, dependencyVars
<1>1. pc \in PrepareSteps /\ pc' \in PrepareSteps \cup {"scan"}
  BY DEF Prepare, VerifyContract, FetchArchive, StoreArchive, VerifyArchive, WriteBinary,
         MakeExecutable, CheckVersion, Move, PrepareSteps
<1>2. archive' \in ArchiveStates /\ binary' \in BinaryStates /\ Cache'
  <2>1. archive \in ArchiveStates /\ binary \in BinaryStates /\ Cache
    BY DEF IndInv, JobShapes
  <2> QED BY <2>1 DEF Prepare, VerifyContract, FetchArchive, StoreArchive, VerifyArchive,
         WriteBinary, MakeExecutable, CheckVersion, Move, scanVars, Cache, ArchiveStates,
         BinaryStates
<1>3. tool \in Tools /\ pc \in Places(tool)
  BY DEF IndInv, JobShapes
<1>4. tool = "command" \/ tool \in Scanners
  <2>1. CASE tool = "none"
    <3>1. pc = "idle"
      BY <1>3, <2>1 DEF Places, Scanners
    <3> QED BY <1>1, <3>1 DEF PrepareSteps
  <2>2. CASE tool \in Auditors
    <3>1. PICK t \in Auditors : t = tool
      BY <2>2
    <3>2. pc \in {"tools", "inventory", "export", "audit", "finally", "summary"}
      BY <1>3, <3>1, AuditPlaces
    <3> QED BY <1>1, <3>2 DEF PrepareSteps
  <2> QED BY <1>3, <2>1, <2>2 DEF Tools, Auditors, Scanners
<1>5. pc' \in Places(tool)
  <2>1. CASE tool = "command"
    BY <1>1, <2>1, CommandPlaces
  <2>2. CASE tool \in Scanners
    <3>1. PICK t \in Scanners : t = tool
      BY <2>2
    <3> QED BY <1>1, <3>1, ScanPlaces
  <2> QED BY <1>4, <2>1, <2>2
<1>6. JobShapes' /\ CommandShapes' /\ AuditShapes'
  BY <1>0, <1>2, <1>5 DEF IndInv, JobShapes, CommandShapes, AuditShapes
<1>7. Execution'
  <2>1. (Ended => Ended') /\ (PipesClosed => PipesClosed')
    BY <1>0 DEF Ended, PipesClosed, Alive, Owned
  <2>2. ~Executing /\ ~Executing' /\ pc' # "spawn"
        /\ pc' \notin {"assign", "wait", "term", "kill", "cleanup"}
    BY <1>1 DEF Executing, PrepareSteps
  <2> QED BY <1>0, <2>1, <2>2 DEF IndInv, Execution
<1>8. Judgement'
  BY <1>0, <1>1 DEF IndInv, Judgement, PrepareSteps
<1>9. Scanned'
  BY <1>0, <1>1 DEF IndInv, Scanned, PrepareSteps
<1>10. Audited'
  BY <1>0, <1>4 DEF Audited, Auditors, Scanners
<1>11. OwnedProcessesEnd' /\ PassIsEarned'
  <2>1. tool = "command" => Ended'
    BY <1>0, <1>1, <1>7 DEF Execution, Executing, PrepareSteps
  <2> QED BY <1>0, <1>4, <2>1 DEF OwnedProcessesEnd, Ended, PassIsEarned, CommandPassIsEarned,
             ScanPassIsEarned, AuditPassIsEarned, Scanners
<1> QED BY <1>2, <1>6, <1>7, <1>8, <1>9, <1>10, <1>11 DEF IndInv

(* An answer that is accepted and has no finding is about a clean payload. *)
LEMMA AcceptedIsClean ==
    ASSUME NEW secret \in BOOLEAN, NEW a \in ScannerAnswers(secret), AnswerAccepted(a)
    PROVE  a.found \in 0..1 /\ (a.found = 0 => ~secret)
BY DEF ScannerAnswers, AnswerAccepted

(* History and files are scanned.                                          *)
LEMMA ScanKeeps ==
    ASSUME IndInv, ScanHistory \/ ScanFiles, UNCHANGED <<commandVars, dependencyVars>>
    PROVE  IndInv'
<1>0. /\ UNCHANGED <<tool, runs, verdict, lock, before, archive, binary, repo, gate, proc>>
      /\ UNCHANGED <<status, output, result, report, advisories, audited, input, summary>>
      /\ tool \in Scanners
  BY DEF ScanHistory, ScanFiles, Scan, commandVars, dependencyVars, Scanners
<1>1. Scanned /\ Cache /\ JobShapes /\ repo \in Repos /\ findings \in 0..3
  BY DEF IndInv, JobShapes
<1>2. /\ pc \in {"scan", "snapshot"} /\ pc' \in {"snapshot", "locks"}
      /\ Scanned' /\ findings' \in 0..3
  <2>1. CASE ScanHistory
    <3>1. /\ tool = "source" /\ pc = "scan" /\ Inspected /\ pc' = "snapshot" /\ findings = 0
      BY <1>1, <2>1 DEF ScanHistory, Scan, Scanned, Scanners
    <3>2. PICK secret \in BOOLEAN : secret = repo.pastSecret
      BY <1>1 DEF Repos
    <3>3. PICK a \in ScannerAnswers(secret) : AnswerAccepted(a) /\ findings' = findings + a.found
      BY <2>1, <3>2 DEF ScanHistory, Scan
    <3>4. findings' \in 0..1 /\ (findings' = 0 => ~repo.pastSecret)
      <4>1. a.found \in 0..1 /\ (a.found = 0 => ~secret)
        BY <3>3, AcceptedIsClean
      <4> QED BY <3>1, <3>2, <3>3, <4>1
    <3> QED BY <1>0, <3>1, <3>4 DEF Scanned, Inspected, PrepareSteps
  <2>2. CASE ScanFiles
    <3>1. /\ pc' = "locks" /\ pc \in {"scan", "snapshot"} /\ findings <= 1 /\ Inspected
          /\ pc = "scan" => tool = "artifacts" /\ findings = 0
          /\ pc = "snapshot" => tool = "source" /\ (findings = 0 => ~repo.pastSecret)
      BY <1>1, <2>2 DEF ScanFiles, Scan, Scanned, Scanners
    <3>2. PICK secret \in BOOLEAN : secret = repo.secret
      BY <1>1 DEF Repos
    <3>3. PICK a \in ScannerAnswers(secret) : AnswerAccepted(a) /\ findings' = findings + a.found
      BY <2>2, <3>2 DEF ScanFiles, Scan
    <3>4. findings' \in 0..2 /\ (findings' = 0 => ~repo.secret /\ findings = 0)
      <4>1. a.found \in 0..1 /\ (a.found = 0 => ~secret)
        BY <3>3, AcceptedIsClean
      <4> QED BY <1>1, <3>1, <3>2, <3>3, <4>1
    <3> QED BY <1>0, <3>1, <3>4 DEF Scanned, Inspected, PrepareSteps
  <2> QED BY <2>1, <2>2
<1>3. pc' \in Places(tool)
  <2>1. PICK t \in Scanners : t = tool
    BY <1>0
  <2> QED BY <1>2, <2>1, ScanPlaces
<1>4. JobShapes' /\ CommandShapes' /\ AuditShapes'
  BY <1>0, <1>2, <1>3 DEF IndInv, JobShapes, CommandShapes, AuditShapes
<1>5. Cache'
  BY <1>0, <1>1, <1>2 DEF Cache
<1>6. Execution' /\ Judgement' /\ Audited' /\ OwnedProcessesEnd' /\ PassIsEarned'
  BY <1>0 DEF Execution, Judgement, Audited, OwnedProcessesEnd, PassIsEarned,
              CommandPassIsEarned, ScanPassIsEarned, AuditPassIsEarned, Scanners, Auditors
<1> QED BY <1>2, <1>4, <1>5, <1>6 DEF IndInv

(* The verdict of a scan.                                                  *)
LEMMA ScanEnds ==
    ASSUME IndInv, JudgeScan \/ ScanGateFails, UNCHANGED <<commandVars, dependencyVars>>
    PROVE  IndInv'
<1>0. /\ tool \in Scanners /\ tool # "none" /\ tool # "command"
      /\ UNCHANGED <<runs, scanVars, gate, proc, status, output, result, report, dependencyVars>>
      /\ UNCHANGED <<archive, binary, lock, before, repo>>
  BY DEF JudgeScan, ScanGateFails, Scanners, commandVars, scanVars
<1>1. PICK x \in {"PASS", "FAIL"} :
        Finish(x) /\ (x = "PASS" => pc = "locks" /\ lock = before /\ findings = 0)
  BY DEF JudgeScan, ScanGateFails
<1>2. PassIsEarned'
  <2>1. verdict' = [tool |-> tool, result |-> x] /\ verdict'.tool = tool /\ verdict'.result = x
    BY <1>1 DEF Finish
  <2>2. CommandPassIsEarned' /\ AuditPassIsEarned'
    BY <1>0, <2>1 DEF CommandPassIsEarned, AuditPassIsEarned, Scanners
  <2>3. ASSUME x = "PASS"
        PROVE  /\ archive = "pinned" /\ binary = "ready" /\ ~repo.refused /\ ~repo.secret
               /\ tool = "source" => ~repo.pastName /\ ~repo.pastSecret
               /\ lock = before
    BY <1>0, <1>1, <2>3 DEF IndInv, Cache, Scanned, Inspected
  <2>4. ScanPassIsEarned'
    BY <1>0, <2>1, <2>3 DEF ScanPassIsEarned
  <2> QED BY <2>2, <2>4 DEF PassIsEarned
<1>3. report' \in {"none", "PASS", "FAIL"}
  BY <1>0 DEF IndInv, CommandShapes
<1> QED BY <1>0, <1>1, <1>2, <1>3, JobEnds

-----------------------------------------------------------------------------
(* Steps of a dependency audit.                                            *)

(* An answer that is accepted and has no finding is about an inventory     *)
(* without an advisory.                                                    *)
LEMMA AccountedIsClean ==
    ASSUME NEW i, NEW S, NEW a \in AuditAnswers(i \in S), ReportAccepted(a)
    PROVE  a.found \in 0..1 /\ (a.found = 0 => i \notin S)
BY DEF AuditAnswers, ReportAccepted, Accounted

(* The three inventories of a Python audit, and the one of npm's.          *)
LEMMA AllInventories ==
    /\ Len(PythonInventories) = 3
    /\ Inventories("python") = {PythonInventories[n] : n \in 1..3}
    /\ Inventories("npm") = {"npm"}
<1>1. Len(PythonInventories) = 3 /\ DOMAIN PythonInventories = 1..3
  BY DEF PythonInventories
<1> QED BY <1>1 DEF Inventories, Range

(* Audits move on, and nothing but their own state changes.                *)
LEMMA AuditMoves ==
    ASSUME IndInv, tool \in Auditors,
           UNCHANGED <<tool, runs, verdict, archive, binary, lock, before, repo, commandVars>>,
           pc' \in {"tools", "inventory", "export", "audit", "finally", "summary"},
           findings' \in 0..3, AuditShapes', Audited'
    PROVE  IndInv'
<1>0. /\ UNCHANGED <<tool, runs, verdict, archive, binary, lock, before, repo>>
      /\ UNCHANGED <<gate, proc, status, output, result, report>>
  BY DEF commandVars
<1>1. pc' \in Places(tool)
  <2>1. PICK t \in Auditors : t = tool
    OBVIOUS
  <2> QED BY <2>1, AuditPlaces
<1>2. JobShapes' /\ CommandShapes'
  BY <1>0, <1>1 DEF IndInv, JobShapes, CommandShapes
<1>3. Cache'
  BY DEF Cache
<1>4. Execution' /\ Judgement' /\ Scanned' /\ OwnedProcessesEnd' /\ PassIsEarned'
  BY <1>0 DEF Execution, Judgement, Scanned, OwnedProcessesEnd, PassIsEarned,
              CommandPassIsEarned, ScanPassIsEarned, AuditPassIsEarned, Scanners, Auditors
<1> QED BY <1>2, <1>3, <1>4 DEF IndInv

(* What an audit reads, hashes and compares around its scanners.           *)
LEMMA AroundTheAudit ==
    ASSUME IndInv, CheckTools \/ ReadInventory \/ Export \/ AuditFails \/ CompareLocks,
           UNCHANGED commandVars
    PROVE  IndInv'
<1>0. /\ tool \in Auditors /\ findings \in 0..3 /\ Audited /\ AuditShapes
      /\ lock \in Nat /\ before \in 0..lock
      /\ UNCHANGED <<tool, runs, verdict, archive, binary, lock, before, repo>>
      /\ UNCHANGED <<findings, advisories, audited>>
  BY BoundsAssumption DEF IndInv, JobShapes, CheckTools, ReadInventory, Export, AuditFails,
         CompareLocks, Step, Auditing, Auditors, dependencyVars, LockVersions
<1>1. ASSUME input' = input \/ input' = lock PROVE input' \in 0..lock /\ before <= input'
  BY <1>0, <1>1 DEF AuditShapes, Audited
<1>2. /\ pc' \in {"inventory", "export", "audit", "finally", "summary"}
      /\ AuditShapes' /\ Audited'
  <2>1. CASE CheckTools
    BY <1>0, <2>1 DEF CheckTools, Step, dependencyVars, AuditShapes, Audited
  <2>2. CASE ReadInventory
    BY <1>0, <2>2 DEF ReadInventory, Step, dependencyVars, AuditShapes, Audited
  <2>3. CASE Export
    BY <1>0, <1>1, <2>3 DEF Export, Step, AuditShapes, Audited
  <2>4. CASE AuditFails
    BY <1>0, <2>4 DEF AuditFails, Step, AuditShapes, Audited
  <2>5. CASE CompareLocks
    <3>1. /\ pc = "finally" /\ pc' = "summary" /\ input' = input
          /\ summary' = IF lock = before THEN summary ELSE "FAIL"
      BY <2>5 DEF CompareLocks, Step
    <3>2. summary' = "PASS" => input = before /\ summary = "PASS"
      BY <1>0, <3>1 DEF AuditShapes, Audited
    <3>3. Inventories(tool)' = Inventories(tool)
      BY <1>0 DEF Inventories
    <3> QED BY <1>0, <3>1, <3>2, <3>3 DEF AuditShapes, Audited
  <2> QED BY <2>1, <2>2, <2>3, <2>4, <2>5
<1> QED BY <1>0, <1>2, AuditMoves

(* The answers of the scanners: the audits pass when every inventory of    *)
(* the mode was answered for without an advisory.                          *)
LEMMA AuditKeeps ==
    ASSUME IndInv, AuditPython \/ AuditNpm, UNCHANGED commandVars
    PROVE  IndInv'
<1>0. /\ tool \in Auditors /\ Audited /\ AuditShapes /\ findings = 0 /\ pc = "audit"
      /\ pc' \in {"audit", "finally"}
      /\ UNCHANGED <<tool, runs, verdict, archive, binary, lock, before, repo>>
      /\ UNCHANGED <<advisories, input>>
  BY DEF IndInv, Audited, AuditPython, AuditNpm, Step, Auditors
<1>1. findings' \in 0..1 /\ AuditShapes' /\ Audited'
  <2>1. CASE AuditPython
    <3>1. PICK i : i = PythonInventories[audited + 1]
      OBVIOUS
    <3>2. PICK a \in AuditAnswers(i \in advisories) :
            /\ ReportAccepted(a) /\ findings' = findings + a.found /\ audited' = audited + 1
            /\ \/ a.found = 0 /\ pc' = "audit" /\ audited' < 3 /\ summary' = summary
               \/ /\ pc' = "finally" /\ (a.found = 1 \/ audited' = 3)
                  /\ summary' = IF findings' = 0 THEN "PASS" ELSE "FAIL"
      BY <2>1, <3>1, AllInventories DEF AuditPython, Step
    <3>3. a.found \in 0..1 /\ (a.found = 0 => i \notin advisories)
      BY <3>2, AccountedIsClean
    <3>4. audited \in 0..2 /\ \A n \in 1..audited : PythonInventories[n] \notin advisories
      BY <1>0 DEF Audited, AuditShapes
    <3>5. ASSUME a.found = 0
          PROVE  \A n \in 1..audited' : PythonInventories[n] \notin advisories
      BY <3>1, <3>2, <3>3, <3>4, <3>5
    <3>6. ASSUME pc' = "finally", summary' = "PASS"
          PROVE  Inventories(tool) \cap advisories = {}
      <4>1. a.found = 0 /\ audited' = 3
        BY <1>0, <3>2, <3>3, <3>6
      <4>2. tool = "python"
        BY <2>1 DEF AuditPython
      <4> QED BY <3>5, <4>1, <4>2, AllInventories
    <3>7. Inventories(tool)' = Inventories(tool)
      BY <1>0 DEF Inventories
    <3>8. findings' = a.found /\ audited' \in 1..3 /\ summary' \in {"PASS", "FAIL"}
      BY <1>0, <3>2, <3>3, <3>4 DEF AuditShapes
    <3>9. AuditShapes'
      BY <1>0, <3>8 DEF AuditShapes
    <3>10. pc' = "audit" => a.found = 0 /\ audited' < 3
      BY <3>2
    <3>11. Audited'
      BY <1>0, <3>5, <3>6, <3>7, <3>8, <3>10 DEF Audited
    <3> QED BY <3>3, <3>8, <3>9, <3>11
  <2>2. CASE AuditNpm
    <3>1. PICK i : i = "npm"
      OBVIOUS
    <3>2. PICK a \in AuditAnswers(i \in advisories) :
            /\ ReportAccepted(a) /\ findings' = a.found
            /\ summary' = IF a.found = 0 THEN "PASS" ELSE "FAIL"
      BY <2>2, <3>1 DEF AuditNpm
    <3>3. a.found \in 0..1 /\ (a.found = 0 => i \notin advisories)
      BY <3>2, AccountedIsClean
    <3>4. tool = "npm" /\ pc' = "finally" /\ audited' = 1
      BY <2>2 DEF AuditNpm, Step
    <3>5. summary' = "PASS" => Inventories(tool) \cap advisories = {}
      BY <3>1, <3>2, <3>3, <3>4, AllInventories
    <3>6. Inventories(tool)' = Inventories(tool)
      BY <1>0 DEF Inventories
    <3>7. AuditShapes'
      BY <1>0, <3>2, <3>4 DEF AuditShapes
    <3>8. Audited'
      BY <1>0, <3>4, <3>5, <3>6 DEF Audited
    <3> QED BY <3>2, <3>3, <3>7, <3>8
  <2> QED BY <2>1, <2>2
<1>2. findings' \in 0..3
  BY <1>1
<1> QED BY <1>0, <1>1, <1>2, AuditMoves

(* The summary of an audit, or its failure for want of one.                *)
LEMMA AuditEnds ==
    ASSUME IndInv, WriteSummary, UNCHANGED commandVars
    PROVE  IndInv'
<1>0. /\ tool \in Auditors /\ tool # "none" /\ tool # "command" /\ pc = "summary"
      /\ UNCHANGED <<runs, scanVars, gate, proc, status, output, result, report, dependencyVars>>
      /\ UNCHANGED <<before, input, advisories>>
  BY DEF WriteSummary, Auditing, Auditors, commandVars, scanVars, dependencyVars
<1>1. PICK x \in {"PASS", "FAIL"} : Finish(x) /\ (x = "PASS" => summary = "PASS")
  <2>1. summary \in {"PASS", "FAIL"}
    BY DEF IndInv, AuditShapes
  <2> QED BY <2>1 DEF WriteSummary
<1>2. PassIsEarned'
  <2>1. verdict' = [tool |-> tool, result |-> x] /\ verdict'.tool = tool /\ verdict'.result = x
    BY <1>1 DEF Finish
  <2>2. CommandPassIsEarned' /\ ScanPassIsEarned'
    BY <1>0, <2>1 DEF CommandPassIsEarned, ScanPassIsEarned, Auditors
  <2>3. ASSUME x = "PASS"
        PROVE  input = before /\ Inventories(tool) \cap advisories = {}
    BY <1>0, <1>1, <2>3 DEF IndInv, Audited
  <2>4. Inventories(verdict.tool)' = Inventories(tool)
    BY <2>1 DEF Inventories
  <2>5. AuditPassIsEarned'
    BY <1>0, <2>1, <2>3, <2>4 DEF AuditPassIsEarned
  <2> QED BY <2>2, <2>5 DEF PassIsEarned
<1>3. report' \in {"none", "PASS", "FAIL"}
  BY <1>0 DEF IndInv, CommandShapes
<1> QED BY <1>0, <1>1, <1>2, <1>3, JobEnds

-----------------------------------------------------------------------------
(* Steps of the job.                                                       *)

(* A gate is killed: it has no verdict to have earned.                     *)
LEMMA KillKeeps ==
    ASSUME IndInv, Killed, UNCHANGED <<commandVars, dependencyVars>>
    PROVE  IndInv'
<1>0. /\ tool # "none" /\ Finish("killed")
      /\ UNCHANGED <<runs, scanVars, gate, proc, status, output, result, report, dependencyVars>>
  BY DEF Killed, commandVars
<1>1. PassIsEarned'
  <2>1. verdict'.result = "killed" /\ verdict' # [tool |-> "command", result |-> "PASS"]
    BY <1>0 DEF Finish
  <2> QED BY <2>1 DEF PassIsEarned, CommandPassIsEarned, ScanPassIsEarned, AuditPassIsEarned
<1>2. report' \in {"none", "PASS", "FAIL"}
  BY <1>0 DEF IndInv, CommandShapes
<1> QED BY <1>0, <1>1, <1>2, JobEnds

(* A lock file is rewritten under a scan or an audit, which compare it     *)
(* with what they hashed only at their end.                                *)
LEMMA LockKeeps ==
    ASSUME IndInv, ChangeLock, UNCHANGED <<commandVars, dependencyVars>>
    PROVE  IndInv'
<1>0. /\ tool # "none" /\ tool # "command" /\ lock' = lock + 1 /\ lock < MaxChanges
      /\ UNCHANGED <<tool, pc, runs, verdict, archive, binary, before, repo, findings>>
      /\ UNCHANGED <<gate, proc, status, output, result, report>>
      /\ UNCHANGED <<advisories, audited, input, summary>>
  BY DEF ChangeLock, commandVars, dependencyVars
<1>1. lock \in LockVersions /\ before \in 0..lock /\ input \in 0..lock
  BY DEF IndInv, JobShapes, AuditShapes
<1>2. lock' \in LockVersions /\ before' \in 0..lock' /\ input' \in 0..lock'
  BY <1>0, <1>1, BoundsAssumption DEF LockVersions
<1>3. JobShapes' /\ CommandShapes' /\ AuditShapes'
  BY <1>0, <1>2 DEF IndInv, JobShapes, CommandShapes, AuditShapes
<1>4. Cache' /\ Execution' /\ Judgement'
  BY <1>0 DEF IndInv, Cache, Execution, Judgement
<1>5. Scanned'
  BY <1>0 DEF IndInv, Scanned, Inspected
<1>6. Audited'
  <2>1. Inventories(tool)' = Inventories(tool)
    BY <1>0 DEF Inventories
  <2> QED BY <1>0, <2>1 DEF IndInv, Audited
<1>7. OwnedProcessesEnd' /\ PassIsEarned'
  BY <1>0 DEF OwnedProcessesEnd, PassIsEarned, CommandPassIsEarned, ScanPassIsEarned,
              AuditPassIsEarned
<1> QED BY <1>3, <1>4, <1>5, <1>6, <1>7 DEF IndInv

(* What every gate starts with.                                            *)
LEMMA FreshShapes ==
    /\ NoRepo \in Repos /\ NoTree \in [Procs -> ProcStates]
    /\ \A p \in Procs : NoTree[p].state = "none"
    /\ NoOutput \in OutputType /\ NoGate \in [kind : Kinds, os : Systems]
    /\ NoVerdict \in [tool : Tools, result : {"none", "PASS", "FAIL", "killed"}]
    /\ NoVerdict.tool = "none" /\ NoVerdict.result = "none"
<1>1. NoRepo \in Repos
  BY DEF NoRepo, Repos
<1>2. NoProc \in ProcStates /\ NoProc.state = "none"
  BY DEF NoProc, ProcStates
<1>3. NoTree \in [Procs -> ProcStates] /\ \A p \in Procs : NoTree[p].state = "none"
  BY <1>2 DEF NoTree
<1>4. NoOutput \in OutputType
  BY DEF NoOutput, OutputType
<1>5. NoGate \in [kind : Kinds, os : Systems]
  BY DEF NoGate, Kinds, Systems
<1>6. /\ NoVerdict \in [tool : Tools, result : {"none", "PASS", "FAIL", "killed"}]
      /\ NoVerdict.tool = "none" /\ NoVerdict.result = "none"
  BY DEF NoVerdict, Tools
<1> QED BY <1>1, <1>3, <1>4, <1>5, <1>6

(* A gate starts in a process of its own.                                  *)
Fresh ==
    /\ runs < MaxRuns /\ runs' = runs + 1 /\ before' = lock /\ repo' \in Repos
    /\ findings' = 0 /\ verdict' = NoVerdict /\ UNCHANGED <<archive, binary, lock>>
    /\ proc' = NoTree /\ status' = 1 /\ output' = NoOutput /\ result' = "FAIL"
    /\ report' = "none" /\ gate' \in [kind : Kinds, os : Systems]
    /\ audited' = 0 /\ input' \in {0, lock} /\ summary' = "FAIL"
    /\ \/ tool' = "command" /\ pc' = "spawn"
       \/ tool' \in Scanners /\ pc' = "contract"
       \/ tool' \in Auditors /\ pc' = "tools" /\ input' = lock

(* A gate starts, whatever the one before it has left behind.              *)
LEMMA StartKeeps ==
    ASSUME IndInv, Starts
    PROVE  IndInv'
<1>1. Fresh
  <2>1. ASSUME NEW k \in Kinds, NEW os \in Systems, StartCommand(k, os), ForgetAudit
        PROVE  Fresh
    BY <2>1, FreshShapes DEF StartCommand, ForgetAudit, Start, Fresh
  <2>2. ASSUME NEW m \in {"source", "artifacts"}, NEW r \in Repos,
               StartScan(m, r), ForgetCommand, ForgetAudit
        PROVE  Fresh
    BY <2>2, FreshShapes DEF StartScan, ForgetCommand, ForgetAudit, Start, Fresh, Scanners
  <2>3. ASSUME NEW m \in {"python", "npm"}, NEW v \in SUBSET Inventories(m),
               StartAudit(m, v), ForgetCommand
        PROVE  Fresh
    BY <2>3, FreshShapes DEF StartAudit, ForgetCommand, Start, Fresh, Auditors
  <2> QED BY <2>1, <2>2, <2>3 DEF Starts
<1>2. pc' \in Places(tool') /\ tool' \in Tools
  <2>1. "spawn" \in Places("command")
    BY CommandPlaces
  <2>2. \A t \in Scanners : "contract" \in Places(t)
    BY ScanPlaces DEF PrepareSteps
  <2>3. \A t \in Auditors : "tools" \in Places(t)
    BY AuditPlaces
  <2> QED BY <1>1, <2>1, <2>2, <2>3 DEF Fresh, Tools, Scanners, Auditors
<1>3. /\ runs \in 0..MaxRuns /\ archive \in ArchiveStates /\ binary \in BinaryStates
      /\ lock \in LockVersions /\ lock \in Nat
  BY BoundsAssumption DEF IndInv, JobShapes, LockVersions
<1>4. JobShapes'
  BY <1>1, <1>2, <1>3, FreshShapes, BoundsAssumption DEF Fresh, JobShapes
<1>5. CommandShapes' /\ AuditShapes'
  BY <1>1, <1>3, FreshShapes DEF Fresh, CommandShapes, AuditShapes
<1>6. Cache' /\ Judgement'
  BY <1>1 DEF Fresh, Cache, Judgement, Scanners, Auditors, PrepareSteps
<1>7. Execution'
  BY <1>1, FreshShapes DEF Fresh, Execution, Executing, Scanners, Auditors
<1>8. Scanned'
  BY <1>1 DEF Fresh, Scanned, Scanners, Auditors, PrepareSteps
<1>9. Audited'
  BY <1>1, <1>3 DEF Fresh, Audited, Scanners, Auditors
<1>10. OwnedProcessesEnd'
  <2>1. tool' # "none" /\ (tool' = "command" => Executing')
    BY <1>1 DEF Fresh, Executing, Scanners, Auditors
  <2> QED BY <2>1 DEF OwnedProcessesEnd
<1>11. PassIsEarned'
  <2>1. tool' # "none"
    BY <1>1 DEF Fresh, Scanners, Auditors
  <2> QED BY <2>1 DEF PassIsEarned, CommandPassIsEarned, ScanPassIsEarned, AuditPassIsEarned
<1> QED BY <1>4, <1>5, <1>6, <1>7, <1>8, <1>9, <1>10, <1>11 DEF IndInv

-----------------------------------------------------------------------------
(* The invariant.                                                          *)

(* A job starts within it.                                                 *)
LEMMA InitHolds == Init => IndInv
<1> SUFFICES ASSUME Init PROVE IndInv
  OBVIOUS
<1>1. "none" \in Tools /\ "idle" \in Places("none")
  BY DEF Tools, Places, Scanners
<1>2. JobShapes
  BY <1>1, FreshShapes, BoundsAssumption DEF Init, JobShapes, ArchiveStates, BinaryStates,
     LockVersions
<1>3. CommandShapes /\ AuditShapes
  BY FreshShapes DEF Init, CommandShapes, AuditShapes
<1>4. Cache /\ Execution /\ Judgement /\ Scanned /\ Audited
  BY DEF Init, Cache, Execution, Judgement, Scanned, Audited, Scanners, Auditors
<1>5. OwnedProcessesEnd /\ PassIsEarned
  <2>1. verdict.tool = "none" /\ verdict.result = "none"
        /\ verdict # [tool |-> "command", result |-> "PASS"]
    BY DEF Init, NoVerdict
  <2> QED BY <2>1 DEF Init, OwnedProcessesEnd, PassIsEarned, CommandPassIsEarned,
             ScanPassIsEarned, AuditPassIsEarned
<1> QED BY <1>2, <1>3, <1>4, <1>5 DEF IndInv

(* Nothing changes.                                                        *)
LEMMA StutterKeeps ==
    ASSUME IndInv, UNCHANGED vars
    PROVE  IndInv'
<1>0. /\ UNCHANGED <<tool, pc, runs, verdict, archive, binary, lock, before, repo, findings>>
      /\ UNCHANGED <<gate, proc, status, output, result, report>>
      /\ UNCHANGED <<advisories, audited, input, summary>>
  BY DEF vars, scanVars, commandVars, dependencyVars
<1>1. JobShapes' /\ CommandShapes' /\ AuditShapes' /\ Cache'
  BY <1>0 DEF IndInv, JobShapes, CommandShapes, AuditShapes, Cache
<1>2. Executing' = Executing /\ (PipesClosed => PipesClosed') /\ (Ended => Ended')
  BY <1>0 DEF Executing, PipesClosed, Ended, Alive, Owned
<1>3. Execution'
  BY <1>0, <1>2 DEF IndInv, Execution
<1>4. Judgement'
  <2>1. Earned => Earned'
    BY <1>0, <1>2 DEF Earned, Clean, Incomplete
  <2> QED BY <1>0, <2>1 DEF IndInv, Judgement, Clean
<1>5. Scanned'
  BY <1>0 DEF IndInv, Scanned, Inspected
<1>6. Audited'
  <2>1. Inventories(tool)' = Inventories(tool)
    BY <1>0 DEF Inventories
  <2> QED BY <1>0, <2>1 DEF IndInv, Audited
<1>7. OwnedProcessesEnd'
  BY <1>0, <1>2 DEF IndInv, OwnedProcessesEnd, Ended
<1>8. PassIsEarned'
  <2>1. CommandPassIsEarned'
    BY <1>0, <1>2 DEF IndInv, PassIsEarned, CommandPassIsEarned
  <2>2. ScanPassIsEarned'
    BY <1>0 DEF IndInv, PassIsEarned, ScanPassIsEarned
  <2>3. AuditPassIsEarned'
    <3>1. Inventories(verdict.tool)' = Inventories(verdict.tool)
      BY <1>0 DEF Inventories
    <3> QED BY <1>0, <3>1 DEF IndInv, PassIsEarned, AuditPassIsEarned
  <2> QED BY <2>1, <2>2, <2>3 DEF PassIsEarned
<1> QED BY <1>1, <1>3, <1>4, <1>5, <1>6, <1>7, <1>8 DEF IndInv

(* Every step keeps it.                                                    *)
LEMMA StepKeeps == IndInv /\ [Next]_vars => IndInv'
<1> SUFFICES ASSUME IndInv, [Next]_vars PROVE IndInv'
  OBVIOUS
<1>1. CASE Starts
  BY <1>1, StartKeeps
<1>2. CASE CommandSteps /\ UNCHANGED dependencyVars
  BY <1>2, ExecutionKeeps, JudgementKeeps, WriteReportKeeps DEF CommandSteps
<1>3. CASE ScanSteps /\ UNCHANGED <<commandVars, dependencyVars>>
  BY <1>3, PrepareKeeps, ScanKeeps, ScanEnds DEF ScanSteps
<1>4. CASE AuditSteps /\ UNCHANGED commandVars
  BY <1>4, AroundTheAudit, AuditKeeps, AuditEnds DEF AuditSteps
<1>5. CASE CommandProcesses /\ UNCHANGED dependencyVars
  BY <1>5, ProcessesKeep
<1>6. CASE Killed /\ UNCHANGED <<commandVars, dependencyVars>>
  BY <1>6, KillKeeps
<1>7. CASE ChangeLock /\ UNCHANGED <<commandVars, dependencyVars>>
  BY <1>7, LockKeeps
<1>8. CASE UNCHANGED vars
  BY <1>8, StutterKeeps
<1> QED BY <1>1, <1>2, <1>3, <1>4, <1>5, <1>6, <1>7, <1>8 DEF Next, GateSteps

(* So it always holds.                                                     *)
LEMMA IndInvAlways == Spec => []IndInv
BY InitHolds, StepKeeps, PTL DEF Spec

(* The state of a job has its types for every number of gates, rewrites    *)
(* and processes; a report on disk is a verdict (.github/ci).              *)
THEOREM TypeCorrect == Spec => []TypeOK
<1>1. IndInv => TypeOK
  <2> SUFFICES ASSUME IndInv PROVE TypeOK
    OBVIOUS
  <2>1. verdict.result \in {"none", "PASS", "FAIL", "killed"}
    BY DEF IndInv, JobShapes
  <2>2. before \in LockVersions /\ input \in LockVersions
    BY BoundsAssumption DEF IndInv, JobShapes, AuditShapes, LockVersions
  <2> QED BY <2>1, <2>2 DEF IndInv, JobShapes, CommandShapes, AuditShapes, TypeOK, Tools
<1> QED BY <1>1, IndInvAlways, PTL

(* Once execute_command has returned, nothing that the command owns is     *)
(* running, however many processes it started and whatever they ignored    *)
(* (security-command.py:231-241).                                          *)
THEOREM ProcessesAreEnded == Spec => []OwnedProcessesEnd
<1>1. IndInv => OwnedProcessesEnd
  BY DEF IndInv
<1> QED BY <1>1, IndInvAlways, PTL

(* No gate passes without having earned it, whatever was killed, rewritten *)
(* or left in the cache before (run_gate of security-command.py, main of   *)
(* gitleaks-gate.py, run of dependency-audit.py).                          *)
THEOREM PassesAreEarned == Spec => []PassIsEarned
<1>1. IndInv => PassIsEarned
  BY DEF IndInv
<1> QED BY <1>1, IndInvAlways, PTL

-----------------------------------------------------------------------------
(* A gate has so many steps of its own, and no more.                       *)

(* The steps a gate may still take before it ends, seen from its next one; *)
(* an audit of three inventories comes to its audit step three times.      *)
StepsFrom(place, done) ==
    CASE place = "idle"                                -> 0
      [] place \in {"report", "locks", "summary"}      -> 1
      [] place \in {"judge", "snapshot", "finally"}    -> 2
      [] place = "scan"       -> 3
      [] place = "audit"      -> 5 - done
      [] place = "version"    -> 4
      [] place = "chmod"      -> 5
      [] place \in {"extracting", "export"}            -> 6
      [] place \in {"verify", "inventory"}             -> 7
      [] place \in {"storing", "tools"}                -> 8
      [] place = "archive"    -> 9
      [] place = "contract"   -> 10
      [] place = "size"       -> 11
      [] place = "cleanup"    -> 12
      [] place = "kill"       -> 13
      [] place = "term"       -> 14
      [] place = "wait"       -> 15
      [] place = "assign"     -> 16
      [] OTHER                -> 17

StepsLeft == StepsFrom(pc, audited)

GatesAreShort == StepsLeft \in 0..17 /\ (StepsLeft = 0 <=> tool = "none")

GatesGoForward ==
    /\ GateSteps => StepsLeft' < StepsLeft
    /\ tool # "none" => StepsLeft' <= StepsLeft

(* The count is a number, and zero for an idle job alone.                  *)
LEMMA CountIsSmall == IndInv => GatesAreShort
<1> SUFFICES ASSUME IndInv PROVE GatesAreShort
  OBVIOUS
<1>1. pc \in Places(tool) /\ tool \in Tools /\ audited \in 0..3
  BY DEF IndInv, JobShapes, AuditShapes
<1>2. CASE tool = "none"
  <2>1. Places("none") = {"idle"}
    BY DEF Places, Scanners
  <2>2. pc = "idle"
    BY <1>1, <1>2, <2>1
  <2> QED BY <2>2, <1>2 DEF GatesAreShort, StepsLeft, StepsFrom
<1>3. CASE tool = "command"
  BY <1>1, <1>3, CommandPlaces DEF GatesAreShort, StepsLeft, StepsFrom, PrepareSteps
<1>4. CASE tool \in Scanners
  <2>1. pc \in {"scan", "snapshot", "locks"} \cup PrepareSteps /\ tool # "none"
    BY <1>1, <1>4, ScanPlaces DEF Scanners
  <2> QED BY <2>1 DEF GatesAreShort, StepsLeft, StepsFrom, PrepareSteps
<1>5. CASE tool \in Auditors
  <2>1. /\ pc \in {"tools", "inventory", "export", "audit", "finally", "summary"}
        /\ tool # "none"
    BY <1>1, <1>5, AuditPlaces DEF Auditors
  <2>2. pc = "audit" => audited < 3
    BY <1>5 DEF IndInv, Audited
  <2> QED BY <1>1, <2>1, <2>2 DEF GatesAreShort, StepsLeft, StepsFrom
<1> QED BY <1>1, <1>2, <1>3, <1>4, <1>5 DEF Tools, Scanners, Auditors

(* execute_command and run_gate go down the list, by every branch.         *)
LEMMA CommandsGoForward ==
    ASSUME IndInv, CommandSteps
    PROVE  StepsLeft' < StepsLeft
BY DEF CommandSteps, Spawn, AssignAndResume, Completed, FirstTimeout, SecondTimeout,
       AfterSignal, CleanUp, CheckSize, ScanOutput, Judge, CommandFails, WriteReport,
       Go, Finish, PrepareSteps, StepsLeft, StepsFrom

(* So does a scan, from whatever it finds in the cache.                    *)
LEMMA ScansGoForward ==
    ASSUME IndInv, ScanSteps
    PROVE  StepsLeft' < StepsLeft
BY DEF ScanSteps, Prepare, VerifyContract, FetchArchive, StoreArchive, VerifyArchive,
       WriteBinary, MakeExecutable, CheckVersion, Move, ScanHistory, ScanFiles, Scan,
       JudgeScan, ScanGateFails, PrepareFailed, PrepareSteps, Finish, StepsLeft, StepsFrom

(* An audit goes on to the next inventory or to its finally block.         *)
LEMMA AuditsGoForward ==
    ASSUME IndInv, AuditSteps
    PROVE  StepsLeft' < StepsLeft
<1>1. audited \in 0..3 /\ (tool \in Auditors /\ pc = "audit" => audited < 3)
  BY DEF IndInv, AuditShapes, Audited
<1>2. CASE CheckTools \/ ReadInventory \/ Export \/ CompareLocks \/ WriteSummary \/ AuditNpm
  BY <1>1, <1>2 DEF CheckTools, ReadInventory, Export, CompareLocks, WriteSummary, AuditNpm,
         Step, Finish, Auditing, Auditors, dependencyVars, StepsLeft, StepsFrom
<1>3. CASE AuditFails
  BY <1>1, <1>3 DEF AuditFails, Step, Auditing, Auditors, StepsLeft, StepsFrom
<1>4. CASE AuditPython
  <2>1. /\ tool = "python" /\ pc = "audit" /\ pc' \in {"audit", "finally"}
        /\ audited' = audited + 1
    BY <1>4 DEF AuditPython, Step
  <2> QED BY <1>1, <2>1 DEF Auditors, StepsLeft, StepsFrom
<1> QED BY <1>2, <1>3, <1>4 DEF AuditSteps

(* Every step of a gate brings its end nearer, and nothing else that       *)
(* happens in the job takes it further away: not the processes of the      *)
(* command, however many it has started and whatever they ignore or hold   *)
(* open, and not a lock file that is rewritten meanwhile.  So no gate      *)
(* takes more than seventeen steps (execute_command and run_gate of        *)
(* security-command.py, main of gitleaks-gate.py, run of                   *)
(* dependency-audit.py).                                                   *)
THEOREM GatesAdvance == Spec => []GatesAreShort /\ [][GatesGoForward]_vars
<1>1. ASSUME IndInv, GatesAreShort, GatesAreShort', [Next]_vars
      PROVE  [GatesGoForward]_vars
  <2> USE <1>1
  <2>2. StepsLeft \in 0..17
    BY DEF GatesAreShort
  <2>3. StepsLeft' \in 0..17
    BY DEF GatesAreShort
  <2>4. GateSteps => StepsLeft' < StepsLeft
    BY CommandsGoForward, ScansGoForward, AuditsGoForward DEF GateSteps
  <2>5. CASE Starts
    <3>1. tool = "none"
      BY <2>5 DEF Starts, StartCommand, StartScan, StartAudit, Start
    <3> QED BY <2>4, <3>1 DEF GatesGoForward
  <2>6. CASE GateSteps
    BY <2>2, <2>3, <2>4, <2>6 DEF GatesGoForward
  <2>7. CASE CommandProcesses /\ UNCHANGED dependencyVars
    <3>1. UNCHANGED <<pc, audited>>
      BY <2>7 DEF CommandProcesses, Fork, Detach, ClosePipe, Exit, dependencyVars
    <3>2. StepsLeft' = StepsLeft
      BY <3>1 DEF StepsLeft
    <3> QED BY <2>2, <2>4, <3>2 DEF GatesGoForward
  <2>8. CASE Killed
    <3>1. pc' = "idle"
      BY <2>8 DEF Killed, Finish
    <3>2. StepsLeft' = 0
      BY <3>1 DEF StepsLeft, StepsFrom
    <3> QED BY <2>2, <2>4, <3>2 DEF GatesGoForward
  <2>9. CASE ChangeLock /\ UNCHANGED <<commandVars, dependencyVars>>
    <3>1. UNCHANGED <<pc, audited>>
      BY <2>9 DEF ChangeLock, dependencyVars
    <3>2. StepsLeft' = StepsLeft
      BY <3>1 DEF StepsLeft
    <3> QED BY <2>2, <2>4, <3>2 DEF GatesGoForward
  <2> QED BY <2>5, <2>6, <2>7, <2>8, <2>9 DEF Next
<1>2. Spec => []GatesAreShort
  BY CountIsSmall, IndInvAlways, PTL
<1> QED BY <1>1, <1>2, IndInvAlways, PTL DEF Spec
=============================================================================
