---------------------------- MODULE GitleaksGate ----------------------------
(***************************************************************************)
(* The pinned secret scanner of the continuous-integration gates           *)
(* (.github/ci/gitleaks-gate.py).  One job runs its gates one after the     *)
(* other in one workspace, so a gate is the value of tool and its progress  *)
(* the value of pc; what one gate leaves on disk (the scanner cache, the    *)
(* lock files) is what the next one finds.  A gate may be killed between    *)
(* any two steps, so the cache can hold half-written files.                 *)
(*                                                                          *)
(* The scanner itself is external: it answers truthfully about what it was  *)
(* given unless it warns, fails or prints nothing.                          *)
(***************************************************************************)
EXTENDS Naturals, FiniteSets

CONSTANTS
    MaxRuns,      \* bound: gates started in one job
    MaxChanges    \* bound: rewrites of a lock file, never back to earlier contents

ASSUME BoundsAssumption == MaxRuns \in Nat /\ MaxChanges \in Nat

VARIABLES
    tool,       \* the gate that is running, or "none"
    pc,         \* its next step
    runs,       \* gates started so far
    archive,    \* tools/<archive> on disk
    binary,     \* tools/<executable> on disk
    lock,       \* contents of the two application lock files, as one version
    before,     \* _lock_hashes() at the start of the gate
    repo,       \* what the scan is given: the tracked tree, its history, artifacts
    findings,   \* findings counted so far by this gate
    verdict     \* [tool, result]: how the last gate ended

scanVars == <<archive, binary, lock, before, repo, findings>>

ArchiveStates == {"absent", "partial", "pinned"}
\* plain: complete, but its execute bit is not set yet
BinaryStates == {"absent", "partial", "plain", "ready"}
LockVersions == 0..MaxChanges

(***************************************************************************)
(* What the tracked entries can look like to _source and _artifacts: an     *)
(* entry that is refused as such (mode, path, link, forbidden name, binary, *)
(* nothing to scan), a forbidden name in the history, a secret in the       *)
(* history, a secret in the files of today.                                 *)
(***************************************************************************)
Repos == [refused: BOOLEAN, pastName: BOOLEAN, pastSecret: BOOLEAN, secret: BOOLEAN]

NoRepo == [refused |-> FALSE, pastName |-> FALSE, pastSecret |-> FALSE, secret |-> FALSE]

NoVerdict == [tool |-> "none", result |-> "none"]

(***************************************************************************)
(* External: the answers the scanner process can give when the payload      *)
(* holds a secret or not.  A warning means that part was skipped.           *)
(***************************************************************************)
ScannerAnswers(secret) ==
    {a \in [rc: {0, 1, 2}, stderr: BOOLEAN, stdout: BOOLEAN, found: 0..1] :
        /\ a.found = 1 => secret /\ a.stdout
        /\ a.rc = 0 /\ ~a.stderr => ~secret}

\* _scan: which answers are counted at all, and as how many findings
AnswerAccepted(a) ==
    /\ a.rc \in {0, 1}
    /\ ~a.stderr
    /\ a.stdout
    /\ (a.rc = 0) = (a.found = 0)

Finish(result) ==
    /\ verdict' = [tool |-> tool, result |-> result]
    /\ tool' = "none"
    /\ pc' = "idle"

\* a gate starts: it finds the cache and the lock files as its predecessors left
\* them, and nothing else of theirs
Start(gateName, first, r) ==
    /\ tool = "none"
    /\ runs < MaxRuns
    /\ tool' = gateName
    /\ pc' = first
    /\ runs' = runs + 1
    /\ before' = lock
    /\ repo' = r
    /\ findings' = 0
    /\ verdict' = NoVerdict
    /\ UNCHANGED <<archive, binary, lock>>

StartScan(mode, r) == Start(mode, "contract", r)

----------------------------------------------------------------------------
(***************************************************************************)
(* _prepare.  A failure is GateFailure, which every caller turns into FAIL  *)
(* (scan_stdin: into False), so the steps below say only how it goes on;    *)
(* PrepareFailed is the failing branch of each.                             *)
(***************************************************************************)

PrepareSteps == {"contract", "archive", "storing", "verify", "extracting", "chmod", "version"}

Move(from, to) == pc = from /\ pc' = to

\* _verify_contract and the path and platform checks passed
VerifyContract ==
    /\ Move("contract", "archive")
    /\ UNCHANGED <<tool, runs, verdict, scanVars>>

\* the archive is there, or its download matched the checksum and is being stored
FetchArchive ==
    /\ \/ /\ archive # "absent"
          /\ Move("archive", "verify")
          /\ UNCHANGED archive
       \/ /\ archive = "absent"
          /\ Move("archive", "storing")
          /\ archive' = "partial"
    /\ UNCHANGED <<tool, runs, verdict, binary, lock, before, repo, findings>>

StoreArchive ==
    /\ Move("storing", "verify")
    /\ archive' = "pinned"
    /\ UNCHANGED <<tool, runs, verdict, binary, lock, before, repo, findings>>

\* the stored archive is hashed again, and a cached executable against its member
VerifyArchive ==
    /\ archive = "pinned"
    /\ \/ /\ binary \in {"plain", "ready"}
          /\ Move("verify", "version")
          /\ UNCHANGED binary
       \/ /\ binary = "absent"
          /\ Move("verify", "extracting")
          /\ binary' = "partial"
    /\ UNCHANGED <<tool, runs, verdict, archive, lock, before, repo, findings>>

WriteBinary ==
    /\ Move("extracting", "chmod")
    /\ binary' = "plain"
    /\ UNCHANGED <<tool, runs, verdict, archive, lock, before, repo, findings>>

MakeExecutable ==
    /\ Move("chmod", "version")
    /\ binary' = "ready"
    /\ UNCHANGED <<tool, runs, verdict, archive, lock, before, repo, findings>>

\* "gitleaks version" runs only from a file with its execute bit
CheckVersion ==
    /\ binary = "ready"
    /\ Move("version", "scan")
    /\ UNCHANGED <<tool, runs, verdict, scanVars>>

Prepare ==
    \/ VerifyContract
    \/ FetchArchive
    \/ StoreArchive
    \/ VerifyArchive
    \/ WriteBinary
    \/ MakeExecutable
    \/ CheckVersion

\* any check, download, write or child process of _prepare failed
PrepareFailed == pc \in PrepareSteps

----------------------------------------------------------------------------
(***************************************************************************)
(* _source and _artifacts: the entries are inspected, then scanned.  The    *)
(* source gate scans the history and then a copy of the tracked files.      *)
(***************************************************************************)

Inspected == ~repo.refused /\ (tool = "source" => ~repo.pastName)

Scan(next, secret) ==
    \E a \in ScannerAnswers(secret) :
        /\ AnswerAccepted(a)
        /\ findings' = findings + a.found
        /\ pc' = next
        /\ UNCHANGED <<tool, runs, verdict, archive, binary, lock, before, repo>>

ScanHistory ==
    /\ tool = "source" /\ pc = "scan"
    /\ Inspected
    /\ Scan("snapshot", repo.pastSecret)

ScanFiles ==
    /\ \/ tool = "source" /\ pc = "snapshot"
       \/ tool = "artifacts" /\ pc = "scan" /\ Inspected
    /\ Scan("locks", repo.secret)

\* main: the lock files are hashed again before the verdict
JudgeScan ==
    /\ tool \in {"source", "artifacts"}
    /\ pc = "locks"
    /\ Finish(IF lock = before /\ findings = 0 THEN "PASS" ELSE "FAIL")
    /\ UNCHANGED <<runs, scanVars>>

\* main: every exception ends in the same closed FAIL
ScanGateFails ==
    /\ tool \in {"source", "artifacts"}
    /\ \/ PrepareFailed
       \/ pc \in {"scan", "snapshot"}
    /\ Finish("FAIL")
    /\ UNCHANGED <<runs, scanVars>>

\* the runner kills the gate: nothing is printed and nothing is cleaned up
Killed ==
    /\ tool # "none"
    /\ Finish("killed")
    /\ UNCHANGED <<runs, scanVars>>

\* something the job runs rewrites a lock file while a gate watches it
ChangeLock ==
    /\ tool \notin {"none", "command"}
    /\ lock < MaxChanges
    /\ lock' = lock + 1
    /\ UNCHANGED <<tool, pc, runs, verdict, archive, binary, before, repo, findings>>
=============================================================================
