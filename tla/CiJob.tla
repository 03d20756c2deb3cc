------------------------------- MODULE CiJob -------------------------------
(***************************************************************************)
(* One continuous-integration job: its gates run one after the other in     *)
(* one workspace, in any order, any of them killed at any step.             *)
(***************************************************************************)
EXTENDS CommandGate, DependencyGate

vars == <<tool, pc, runs, verdict, scanVars, commandVars, dependencyVars>>

Init ==
    /\ tool = "none" /\ pc = "idle" /\ runs = 0
    /\ verdict = NoVerdict
    /\ archive = "absent" /\ binary = "absent"
    /\ lock = 0 /\ before = 0
    /\ repo = NoRepo /\ findings = 0
    /\ gate = NoGate /\ proc = NoTree /\ status = 1 /\ output = NoOutput /\ result = "FAIL"
    /\ report = "none"
    /\ advisories = {} /\ audited = 0 /\ input = 0 /\ summary = "FAIL"

\* the steps of the command's own processes, which no gate can rely on
CommandProcesses ==
    \/ \E p \in Procs, d \in Descendants, deaf \in BOOLEAN : Fork(p, d, deaf)
    \/ \E d \in Descendants : Detach(d)
    \/ \E p \in Procs : ClosePipe(p)
    \/ \E p \in Procs, rc \in 0..1 : Exit(p, rc)

CommandSteps ==
    \/ \E deaf \in BOOLEAN : Spawn(deaf)
    \/ AssignAndResume
    \/ \E o \in Outputs : Completed(o)
    \/ FirstTimeout
    \/ SecondTimeout
    \/ AfterSignal
    \/ CleanUp
    \/ CheckSize
    \/ ScanOutput
    \/ Judge
    \/ CommandFails
    \/ WriteReport

ScanSteps ==
    \/ Prepare
    \/ ScanHistory
    \/ ScanFiles
    \/ JudgeScan
    \/ ScanGateFails

AuditSteps ==
    \/ CheckTools
    \/ ReadInventory
    \/ Export
    \/ AuditPython
    \/ AuditNpm
    \/ AuditFails
    \/ CompareLocks
    \/ WriteSummary

GateSteps ==
    \/ CommandSteps /\ UNCHANGED dependencyVars
    \/ ScanSteps /\ UNCHANGED <<commandVars, dependencyVars>>
    \/ AuditSteps /\ UNCHANGED commandVars

Starts ==
    \/ \E k \in Kinds, os \in Systems : StartCommand(k, os) /\ ForgetAudit
    \/ \E m \in {"source", "artifacts"}, r \in Repos :
          StartScan(m, r) /\ ForgetCommand /\ ForgetAudit
    \/ \E m \in {"python", "npm"} : \E v \in SUBSET Inventories(m) :
          StartAudit(m, v) /\ ForgetCommand

Next ==
    \/ Starts
    \/ GateSteps
    \/ CommandProcesses /\ UNCHANGED dependencyVars
    \/ Killed /\ UNCHANGED <<commandVars, dependencyVars>>
    \/ ChangeLock /\ UNCHANGED <<commandVars, dependencyVars>>

Spec == Init /\ [][Next]_vars

(***************************************************************************)
(* A gate's own steps are never blocked for good: each wait of              *)
(* execute_command has a timeout, and so has each child of the other gates. *)
(***************************************************************************)
FairSpec == Spec /\ WF_vars(GateSteps)

----------------------------------------------------------------------------
\* The types of the job's state: what the gates of .github/ci write down.  A report on
\* disk is a verdict, never the intermediate "completed" of execute_command.
TypeOK ==
    /\ tool \in {"none", "command", "source", "artifacts", "python", "npm"}
    /\ runs \in 0..MaxRuns
    /\ verdict.result \in {"none", "PASS", "FAIL", "killed"}
    /\ archive \in ArchiveStates /\ binary \in BinaryStates
    /\ lock \in LockVersions /\ before \in LockVersions /\ input \in LockVersions
    /\ repo \in Repos /\ findings \in 0..3
    /\ proc \in [Procs -> ProcStates]
    /\ output \in OutputType
    /\ report \in {"none", "PASS", "FAIL"}
    /\ audited \in 0..3 /\ summary \in {"PASS", "FAIL"}

(***************************************************************************)
(* Once execute_command has returned, by whatever path, the command is      *)
(* dead and so is everything in its process group or job object: what is    *)
(* judged cannot change any more, and no gate leaves work running behind it *)
(* (security-command.py:231-241).  Processes that detached are not owned.   *)
(***************************************************************************)
OwnedProcessesEnd ==
    \/ tool = "command" /\ ~Executing
    \/ tool = "none" /\ verdict.tool = "command" /\ verdict.result # "killed"
    => ~Alive(Leader) /\ Owned = {}

(***************************************************************************)
(* A command gate that passes ran to its end with status 0, its whole       *)
(* output was text within the limit, complete and clean, and the PASS       *)
(* report on disk is its own (run_gate, security-command.py:276-329).       *)
(***************************************************************************)
CommandPassIsEarned ==
    tool = "none" /\ verdict = [tool |-> "command", result |-> "PASS"] =>
        /\ status = 0 /\ PipesClosed
        /\ ~output.over /\ output.text /\ ~output.secret
        /\ ~output.bad
        /\ gate.kind = "tests" => output.passed
        /\ gate.kind = "head" => output.head
        /\ report = "PASS"

(***************************************************************************)
(* A secret scan that passes found no forbidden entry and no secret, in the *)
(* history as in the files, whatever an earlier gate that was killed left   *)
(* in the scanner cache, and the lock files did not move under it           *)
(* (gitleaks-gate.py:105-200, 321-345).                                     *)
(***************************************************************************)
ScanPassIsEarned ==
    tool = "none" /\ verdict.result = "PASS" /\ verdict.tool \in {"source", "artifacts"} =>
        /\ archive = "pinned" /\ binary = "ready"
        /\ ~repo.refused /\ ~repo.secret
        /\ verdict.tool = "source" => ~repo.pastName /\ ~repo.pastSecret
        /\ lock = before

(***************************************************************************)
(* A dependency audit that passes was given the lock file the gate hashed   *)
(* first, though it is read again later and may have been rewritten, and    *)
(* none of the inventories of its mode has a known advisory, although       *)
(* scanners may skip packages, fail or contradict their own exit status     *)
(* (dependency-audit.py:200-242, 486-526).                                  *)
(***************************************************************************)
AuditPassIsEarned ==
    tool = "none" /\ verdict.result = "PASS" /\ verdict.tool \in {"python", "npm"} =>
        /\ input = before
        /\ Inventories(verdict.tool) \cap advisories = {}

(***************************************************************************)
(* No gate of .github/ci passes without having earned it: what a PASS of    *)
(* each of the three tools vouches for is so, whatever was killed, rewritten*)
(* or left behind before.                                                   *)
(***************************************************************************)
PassIsEarned == CommandPassIsEarned /\ ScanPassIsEarned /\ AuditPassIsEarned

(***************************************************************************)
(* Every gate ends: a command whose descendants ignore SIGTERM, detach and  *)
(* keep the inherited pipe open cannot hold execute_command                 *)
(* (security-command.py:214-241), and no other gate waits without a timeout.*)
(***************************************************************************)
EveryGateEnds == tool # "none" ~> tool = "none"
=============================================================================
