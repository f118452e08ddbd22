------------------------------ MODULE TitleRows ------------------------------
(***************************************************************************)
(* The user_titles table of the title system: the row ids, what a row      *)
(* holds, and the vocabulary the specifications of the table share.        *)
(***************************************************************************)
EXTENDS Integers

CONSTANTS
  Users,        \* user ids
  Titles,       \* title definitions the engine evaluates
  Revocable,    \* the definitions with is_revocable = TRUE
  Grace,        \* gracePeriodDuration, in clock ticks
  MaxEarns,     \* bound: rows one user may ever get of one title
  MaxClock      \* bound: last clock reading

ASSUME RevocableAssumption == Revocable \subseteq Titles
ASSUME GraceAssumption == Grace \in Nat \ {0}
ASSUME BoundsAssumption == MaxEarns \in Nat /\ MaxClock \in Nat

(* A row id.  The third component tells the rows of one user and title     *)
(* apart: a title earned again after a revocation is a new row.            *)
Row == Users \X Titles \X (1..MaxEarns)
OwnerOf(r) == r[1]
TitleOf(r) == r[2]
RowsOf(u, t) == {r \in Row : OwnerOf(r) = u /\ TitleOf(r) = t}

(* status IN ('active', 'grace_period'), the predicate of the partial      *)
(* unique index and of every query that means "held".                      *)
LiveStatus == {"active", "grace_period"}

(* "none" is an id no INSERT has used yet; ends = 0 stands for NULL.       *)
RowState == [status : LiveStatus \cup {"none", "revoked"}, ends : Nat]
Unused == [status |-> "none", ends |-> 0]
Earned == [status |-> "active", ends |-> 0]
==============================================================================
