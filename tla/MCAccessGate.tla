---------------------------- MODULE MCAccessGate ----------------------------
(* AccessGate with requests that deviate in one or two headers, and quotas  *)
(* of one request in windows of different lengths.                          *)
EXTENDS AccessGate

CONSTANTS m1, m2

Right == [unsafe |-> TRUE, expected |-> m1, origin |-> TRUE, csrf |-> "right"]

Deviating ==
    {NoHeaders, Right, [Right EXCEPT !.expected = None],
     [Right EXCEPT !.expected = m2],
     [Right EXCEPT !.origin = FALSE, !.csrf = "missing"],
     [Right EXCEPT !.csrf = "missing"], [Right EXCEPT !.csrf = "wrong"]}

One == [scope \in Scopes |-> 1]
Lengths == [scope \in Scopes |-> IF scope \in {"login_ip", "csrf_ip"} THEN 1 ELSE 2]
=============================================================================
