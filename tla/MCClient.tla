------------------------------ MODULE MCClient ------------------------------
(* Small instances of two parts of the client, its session and its search   *)
(* screen.  They share no state: in a behaviour one of them moves and the   *)
(* other stays as it began, so that their states add up, not multiply.      *)
EXTENDS MCClientSession, SearchScreen

CONSTANTS a, b, h1, h2

TwoTexts == {a, b}
TwoHandlers == {h1, h2}

VARIABLE part      \* which of the two moves

ClientInit ==
  /\ Init /\ SearchInit
  /\ part \in {"session", "search"} /\ (part = "search" => userIDSent)
ClientNext ==
  \/ part = "session" /\ Next /\ UNCHANGED <<searchVars, part>>
  \/ part = "search" /\ SearchNext /\ UNCHANGED <<vars, part>>

ClientSpec ==
  /\ ClientInit /\ [][ClientNext]_<<vars, searchVars, part>>
  /\ Fairness /\ SearchFairness
==============================================================================
