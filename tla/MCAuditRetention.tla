-------------------------- MODULE MCAuditRetention --------------------------
(* AuditRetention with one kind of event to keep and two the writer must    *)
(* refuse: a prune event, and a failure with a reason of another event.     *)
EXTENDS AuditRetention

Emitted ==
    {SecurityAuditEvent("login_failure", "failure"),
     [SecurityAuditEvent("logout", "success") EXCEPT !.reason = {"csrf_missing"}],
     PruneEvent(1)}
=============================================================================
