----------------------------- MODULE MCRateLimit -----------------------------
(* Small instances of RateLimit.                                            *)
EXTENDS RateLimit

CONSTANTS q1, q2, q3

ThreeRequests == {q1, q2, q3}
==============================================================================
