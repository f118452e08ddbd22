--------------------------- MODULE MCClientSession ---------------------------
(* Small instances of ClientSession.                                        *)
EXTENDS ClientSession

CONSTANTS c1, c2

OneCall == {c1}
TwoCalls == {c1, c2}
==============================================================================
