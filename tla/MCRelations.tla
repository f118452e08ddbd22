----------------------------- MODULE MCRelations -----------------------------
(* Small instances of Relations.                                            *)
EXTENDS Relations

CONSTANTS u1, u2, q1, q2

TwoUsers == {u1, u2}
OneUser == {u1}
OtherUser == {u2}
OneViewer == {u1, None}
OneRequest == {q1}
TwoRequests == {q1, q2}
==============================================================================
