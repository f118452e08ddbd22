----------------------------- MODULE MCSessions -----------------------------
(* Small instances of Sessions.                                             *)
EXTENDS Sessions

CONSTANTS u1, s1, s2, p1, p2

OneUser == {u1}
TwoSids == {s1, s2}
TwoRequests == {p1, p2}
==============================================================================
