---------------------------- MODULE TitleContract ----------------------------
(***************************************************************************)
(* What the title system promises about the user_titles table, whatever    *)
(* statements the workers issue to get there: the life of a row is         *)
(* active -> grace_period -> revoked (title/model.go, migration 0015), a   *)
(* grace period may be taken back, a row is revoked only out of a grace    *)
(* period whose deadline has passed, revocation is final, permanent titles *)
(* never leave active, and a user holds at most one live row of a title.   *)
(***************************************************************************)
EXTENDS TitleRows

VARIABLES rows, clock

contractVars == <<rows, clock>>

Live(r) == rows[r].status \in LiveStatus

Init ==
  /\ rows = [r \in Row |-> Unused]
  /\ clock = 0

Unlock(r) ==
  /\ rows[r].status = "none"
  /\ \A s \in RowsOf(OwnerOf(r), TitleOf(r)) : ~Live(s)
  /\ rows' = [rows EXCEPT ![r] = Earned]
  /\ UNCHANGED clock

(* The deadline counts from the moment the worker looked at its clock,     *)
(* which may lie before the moment the row is written.                     *)
EnterGrace(r) ==
  /\ rows[r].status = "active"
  /\ TitleOf(r) \in Revocable
  /\ \E seen \in 0..clock :
       rows' = [rows EXCEPT ![r] = [status |-> "grace_period", ends |-> seen + Grace]]
  /\ UNCHANGED clock

Restore(r) ==
  /\ rows[r].status = "grace_period"
  /\ rows' = [rows EXCEPT ![r] = Earned]
  /\ UNCHANGED clock

Revoke(r) ==
  /\ rows[r].status = "grace_period"
  /\ rows[r].ends <= clock
  /\ rows' = [rows EXCEPT ![r].status = "revoked"]
  /\ UNCHANGED clock

Tick ==
  /\ clock < MaxClock
  /\ clock' = clock + 1
  /\ UNCHANGED rows

Next ==
  \/ Tick
  \/ \E r \in Row : Unlock(r) \/ EnterGrace(r) \/ Restore(r) \/ Revoke(r)

Spec == Init /\ [][Next]_contractVars
==============================================================================
