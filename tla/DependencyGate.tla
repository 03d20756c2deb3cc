--------------------------- MODULE DependencyGate ---------------------------
(***************************************************************************)
(* The dependency audits of the job (.github/ci/dependency-audit.py): the   *)
(* locked inventory is read, exported, and given to a pinned scanner whose  *)
(* answer must account for every package of it.  A lock file that is        *)
(* rewritten meanwhile voids the verdict.  The scanners are external.       *)
(***************************************************************************)
EXTENDS GitleaksGate, Sequences, Functions

VARIABLES
    advisories,   \* inventories for which the registry knows an advisory
    audited,      \* audits that ended with an accepted answer
    input,        \* the lock file version the audits were given
    summary       \* status that run() will report

dependencyVars == <<advisories, audited, input, summary>>

ForgetAudit == advisories' = {} /\ audited' = 0 /\ input' = 0 /\ summary' = "FAIL"

\* audit_python audits three inventories in this order
PythonInventories == <<"runtime", "build", "scanner">>

\* audit_npm has the one of the web application
Inventories(mode) == IF mode = "python" THEN Range(PythonInventories) ELSE {"npm"}

(***************************************************************************)
(* External: an answer of pip-audit or npm audit.  sound: it has the        *)
(* report's shape.  complete: what the code compares with the inventory     *)
(* agrees.  For pip-audit these are the rows, one by one; for npm only the  *)
(* number of dependencies it says it examined, and that every node of a     *)
(* finding is in the inventory.  A scanner whose answer is complete and     *)
(* without diagnostics tells the truth; that npm examined the dependencies  *)
(* of the inventory, and not as many others, is trusted here.               *)
(***************************************************************************)
AuditAnswers(vulnerable) ==
    {a \in [rc: {0, 1, 2}, diagnostics: BOOLEAN, sound: BOOLEAN,
            complete: BOOLEAN, found: 0..1] :
        /\ a.found = 1 => vulnerable
        /\ a.rc = 0 /\ ~a.diagnostics /\ a.sound /\ a.complete => (a.found = 1) = vulnerable}

\* Mutant of Accounted: nothing is compared with the inventory
AccountedByShape(a) == ~a.diagnostics /\ a.sound

\* the answer says nothing else, has the report's shape and agrees with the inventory
Accounted(a) == ~a.diagnostics /\ a.sound /\ a.complete

\* python_report and npm_report: which answers count
ReportAccepted(a) ==
    /\ a.rc \in {0, 1}
    /\ Accounted(a)
    /\ (a.rc = 0) = (a.found = 0)

Auditing == tool \in {"python", "npm"}

Step(from, to) ==
    /\ Auditing
    /\ pc = from
    /\ pc' = to
    /\ UNCHANGED <<tool, runs, verdict, archive, binary, lock, before, repo>>

\* run: the lock files are hashed before anything else
StartAudit(mode, vulnerable) ==
    /\ Start(mode, "tools", NoRepo)
    /\ advisories' = vulnerable
    /\ audited' = 0
    /\ input' = lock
    /\ summary' = "FAIL"

\* the pinned versions of uv, pip-audit, Python, npm and Node
CheckTools ==
    /\ Step("tools", "inventory")
    /\ UNCHANGED <<findings, dependencyVars>>

\* uv_inventory, build_inventory, requirements_inventory, npm_inventory
ReadInventory ==
    /\ Step("inventory", "export")
    /\ UNCHANGED <<findings, dependencyVars>>

\* uv export, or the snapshot that npm audits: read from the lock file again
Export ==
    /\ Step("export", "audit")
    /\ input' = lock
    /\ UNCHANGED <<findings, advisories, audited, summary>>

\* one inventory is audited; the first advisory ends the audits
AuditPython ==
    /\ tool = "python" /\ pc = "audit"
    /\ \E a \in AuditAnswers(PythonInventories[audited + 1] \in advisories) :
          /\ ReportAccepted(a)
          /\ findings' = findings + a.found
          /\ audited' = audited + 1
          /\ \/ /\ a.found = 0 /\ audited' < Len(PythonInventories)
                /\ Step("audit", "audit")
                /\ UNCHANGED summary
             \/ /\ a.found = 1 \/ audited' = Len(PythonInventories)
                /\ Step("audit", "finally")
                /\ summary' = IF findings' = 0 THEN "PASS" ELSE "FAIL"
    /\ UNCHANGED <<advisories, input>>

\* npm audit works on the snapshot; an answer after which the snapshot differs
\* is a failure (AuditFails)
AuditNpm ==
    /\ tool = "npm"
    /\ Step("audit", "finally")
    /\ \E a \in AuditAnswers("npm" \in advisories) :
          /\ ReportAccepted(a)
          /\ findings' = a.found
          /\ summary' = IF a.found = 0 THEN "PASS" ELSE "FAIL"
    /\ audited' = 1
    /\ UNCHANGED <<advisories, input>>

\* a GateFailure or any other exception before the finally block
AuditFails ==
    /\ \E from \in {"tools", "inventory", "export", "audit"} : Step(from, "finally")
    /\ summary' = "FAIL"
    /\ UNCHANGED <<findings, advisories, audited, input>>

\* finally: the lock files are hashed again, and a change overrides the summary
CompareLocks ==
    /\ Step("finally", "summary")
    /\ summary' = IF lock = before THEN summary ELSE "FAIL"
    /\ UNCHANGED <<findings, advisories, audited, input>>

\* the report is written, or the gate fails for want of it
WriteSummary ==
    /\ Auditing
    /\ pc = "summary"
    /\ \/ Finish(summary)
       \/ Finish("FAIL")
    /\ UNCHANGED <<runs, scanVars, dependencyVars>>
=============================================================================
