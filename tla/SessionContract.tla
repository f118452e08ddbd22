--------------------------- MODULE SessionContract ---------------------------
(***************************************************************************)
(* What the sessions table promises to whoever holds a refresh token, on   *)
(* either side of the API: a session is opened once, with a token of its   *)
(* own; a rotation replaces the token of a session that has one, and every *)
(* token is new; ending sessions is all else that happens to them, and it  *)
(* is final (migration 0002, ADR 0005).                                    *)
(***************************************************************************)
EXTENDS Naturals

CONSTANTS Sids, MaxTokens

VARIABLES
  created,      \* the sessions opened so far
  current,      \* the token that opens each session, 0 if none does
  minted        \* the number of tokens generated so far

contractVars == <<created, current, minted>>

Init ==
  /\ created = {}
  /\ current = [s \in Sids |-> 0]
  /\ minted = 0

(* The next token becomes the one that opens session s.                    *)
Mint(s) ==
  /\ minted < MaxTokens
  /\ minted' = minted + 1
  /\ current' = [current EXCEPT ![s] = minted + 1]

Open(s) ==
  /\ s \notin created
  /\ created' = created \cup {s}
  /\ Mint(s)

Rotate(s) ==
  /\ current[s] # 0
  /\ Mint(s)
  /\ UNCHANGED created

(* A logout, a suspension, a cleanup.                                      *)
End(S) ==
  /\ current' = [s \in Sids |-> IF s \in S THEN 0 ELSE current[s]]
  /\ UNCHANGED <<created, minted>>

Next ==
  \/ \E s \in Sids : Open(s) \/ Rotate(s)
  \/ \E S \in SUBSET Sids : End(S)

Spec == Init /\ [][Next]_contractVars
==============================================================================
