--------------------------- MODULE TitleLifecycle ---------------------------
(***************************************************************************)
(* The title system as its statements run: qualification workers walking   *)
(* over users (title/worker.go, title/engine.go), and requests choosing or *)
(* clearing a primary title (title/service.go), against the user_titles    *)
(* and users tables of a PostgreSQL database at READ COMMITTED             *)
(* (title/repository.go).                                                  *)
(*                                                                         *)
(* One action is one statement, or one read of the clock.  A statement     *)
(* outside a transaction commits at once.  RevokeUserTitleTx is the one    *)
(* transaction: its two UPDATEs take row locks, its effects are seen by    *)
(* others at its COMMIT only.  SetPrimaryTitle is one UPDATE, but its      *)
(* EXISTS is answered from the snapshot the statement started with, so it  *)
(* takes two actions: the snapshot, and the write of the users row.        *)
(***************************************************************************)
EXTENDS TitleRows

CONSTANTS
  Workers,      \* qualification workers: one per running API process
  Clients,      \* concurrent PUT /titles/me/primary requests
  None          \* no value: NULL, or a field not in use

ASSUME NoneAssumption == None \notin Row

VARIABLES
  rows,         \* user_titles: Row -> RowState
  primary,      \* users.primary_title_id: Users -> Row or None
  qualifies,    \* the <<user, title>> whose metrics meet the threshold now
  clock,        \* wall clock, in ticks
  wk,           \* the local state of each worker
  req           \* the SetPrimaryTitle statement each client has in flight

vars == <<rows, primary, qualifies, clock, wk, req>>

Live(r) == rows[r].status \in LiveStatus

(* A row of the result of GetUserTitles, as the worker keeps it.           *)
Entry == [row : Row, status : LiveStatus, ends : Nat]

WorkerPC == {"idle", "unlock", "create", "snapshot", "clock", "entries",
             "requalify", "apply", "clear_primary", "commit"}

Worker == [pc : WorkerPC, user : Users \cup {None},
           todo : SUBSET Titles, title : Titles \cup {None},
           entries : SUBSET Entry, entry : Entry \cup {None},
           qualified : BOOLEAN, now : Nat, cleared : BOOLEAN]

Request == [busy : BOOLEAN, user : Users \cup {None}, row : Row \cup {None}]

IdleWorker == [pc |-> "idle", user |-> None, todo |-> {}, title |-> None,
               entries |-> {}, entry |-> None, qualified |-> FALSE,
               now |-> 0, cleared |-> FALSE]

NoRequest == [busy |-> FALSE, user |-> None, row |-> None]

Init ==
  /\ rows = [r \in Row |-> Unused]
  /\ primary = [u \in Users |-> None]
  /\ qualifies = {}
  /\ clock = 0
  /\ wk = [w \in Workers |-> IdleWorker]
  /\ req = [c \in Clients |-> NoRequest]

------------------------------------------------------------------------------
(* Locks of the open RevokeUserTitleTx transactions.                       *)

InTx(w) == wk[w].pc \in {"clear_primary", "commit"}
RowLocked(r) == \E w \in Workers : InTx(w) /\ wk[w].entry.row = r
UserLocked(u) ==
  \E w \in Workers : wk[w].pc = "commit" /\ wk[w].cleared /\ wk[w].user = u

Goto(w, local) == wk' = [wk EXCEPT ![w] = local]

(* continue: on to the next entry of the snapshot.                         *)
NextEntry(w, e) ==
  Goto(w, [wk[w] EXCEPT !.pc = "entries", !.entries = @ \ {e}, !.entry = None,
                        !.qualified = FALSE, !.cleared = FALSE])

------------------------------------------------------------------------------
(* EvaluateAndUnlock: for each title, read the metrics, then INSERT.       *)

BeginUser(w, u) ==
  /\ wk[w].pc = "idle"
  /\ Goto(w, [IdleWorker EXCEPT !.pc = "unlock", !.user = u, !.todo = Titles])
  /\ UNCHANGED <<rows, primary, qualifies, clock, req>>

Qualify(w, t) ==
  /\ wk[w].pc = "unlock"
  /\ t \in wk[w].todo
  /\ \/ /\ <<wk[w].user, t>> \in qualifies
        /\ Goto(w, [wk[w] EXCEPT !.pc = "create", !.title = t])
     \/ /\ <<wk[w].user, t>> \notin qualifies
        /\ Goto(w, [wk[w] EXCEPT !.todo = @ \ {t}])
  /\ UNCHANGED <<rows, primary, qualifies, clock, req>>

(* The index without "grace_period" in its predicate, or with no predicate.*)
IndexedOnlyActive(r) == rows[r].status = "active"
IndexedRevokedToo(r) == rows[r].status # "none"

(* r is in the partial unique index user_titles_one_active_per_def_idx.    *)
Indexed(r) == Live(r)

(* INSERT ... ON CONFLICT DO NOTHING.  It waits for a transaction that is  *)
(* revoking the row it would conflict with.                                *)
CreateUserTitle(u, t) ==
  /\ \A r \in RowsOf(u, t) : ~RowLocked(r)
  /\ \/ /\ \E r \in RowsOf(u, t) : Indexed(r)
        /\ UNCHANGED rows
     \/ /\ \A r \in RowsOf(u, t) : ~Indexed(r)
        /\ \E r \in RowsOf(u, t) :
             /\ rows[r].status = "none"
             /\ \A s \in RowsOf(u, t) : s[3] < r[3] => rows[s].status # "none"
             /\ rows' = [rows EXCEPT ![r] = Earned]
     \/ /\ \A r \in RowsOf(u, t) : rows[r].status = "revoked"  \* bound: MaxEarns
        /\ UNCHANGED rows

UnlockTitle(w) ==
  /\ wk[w].pc = "create"
  /\ CreateUserTitle(wk[w].user, wk[w].title)
  /\ Goto(w, [wk[w] EXCEPT !.pc = "unlock", !.todo = @ \ {wk[w].title}, !.title = None])
  /\ UNCHANGED <<primary, qualifies, clock, req>>

EndUnlock(w) ==
  /\ wk[w].pc = "unlock"
  /\ wk[w].todo = {}
  /\ Goto(w, [wk[w] EXCEPT !.pc = "snapshot"])
  /\ UNCHANGED <<rows, primary, qualifies, clock, req>>

------------------------------------------------------------------------------
(* reconcileUser: the snapshot of the user's titles, then entry by entry.  *)

(* if !entry.IsRevocable { continue }                                      *)
ReconciledAll(r) == TRUE
Reconciled(r) == TitleOf(r) \in Revocable

GetUserTitles(w) ==
  /\ wk[w].pc = "snapshot"
  /\ LET held == {r \in Row : OwnerOf(r) = wk[w].user /\ Live(r) /\ Reconciled(r)}
     IN  Goto(w, [wk[w] EXCEPT !.pc = "clock",
                   !.entries = {[row |-> r, status |-> rows[r].status,
                                 ends |-> rows[r].ends] : r \in held}])
  /\ UNCHANGED <<rows, primary, qualifies, clock, req>>

ReadClock(w) ==
  /\ wk[w].pc = "clock"
  /\ Goto(w, [wk[w] EXCEPT !.pc = "entries", !.now = clock])
  /\ UNCHANGED <<rows, primary, qualifies, clock, req>>

(* Qualify again: the metrics of this title, and when they still qualify   *)
(* the INSERT once more before the entry's status is looked at.            *)
QualifyEntry(w, e) ==
  /\ wk[w].pc = "entries"
  /\ e \in wk[w].entries
  /\ LET q == <<wk[w].user, TitleOf(e.row)>> \in qualifies
     IN  Goto(w, [wk[w] EXCEPT !.pc = IF q THEN "requalify" ELSE "apply",
                               !.entry = e, !.qualified = q])
  /\ UNCHANGED <<rows, primary, qualifies, clock, req>>

RequalifyEntry(w) ==
  /\ wk[w].pc = "requalify"
  /\ CreateUserTitle(wk[w].user, TitleOf(wk[w].entry.row))
  /\ Goto(w, [wk[w] EXCEPT !.pc = "apply"])
  /\ UNCHANGED <<primary, qualifies, clock, req>>

(* The branch of the switch the worker is in: what the snapshot said, and  *)
(* what Qualify answered since.                                            *)
Applying(w, snapshotStatus, nowQualified) ==
  /\ wk[w].pc = "apply"
  /\ wk[w].entry.status = snapshotStatus
  /\ wk[w].qualified = nowQualified

(* WHERE id = $1, whatever the row has become since the snapshot.          *)
UpdateById(r, expected, new) == ~RowLocked(r) /\ rows' = [rows EXCEPT ![r] = new]

(* WHERE id = $1 AND status = expected: no row, no change.  The statement  *)
(* waits for the row's lock and then looks at the row as it is.            *)
UpdateFrom(r, expected, new) ==
  /\ ~RowLocked(r)
  /\ rows' = IF rows[r].status = expected THEN [rows EXCEPT ![r] = new] ELSE rows

KeepActive(w) ==
  /\ Applying(w, "active", TRUE)
  /\ NextEntry(w, wk[w].entry)
  /\ UNCHANGED <<rows, primary, qualifies, clock, req>>

(* endsAt := now.Add(gracePeriodDuration)                                  *)
GraceEnd(w) == wk[w].now + Grace

EnterGracePeriod(w) ==
  /\ Applying(w, "active", FALSE)
  /\ UpdateFrom(wk[w].entry.row, "active",
                [status |-> "grace_period", ends |-> GraceEnd(w)])
  /\ NextEntry(w, wk[w].entry)
  /\ UNCHANGED <<primary, qualifies, clock, req>>

RestoreGracePeriodTitle(w) ==
  /\ Applying(w, "grace_period", TRUE)
  /\ UpdateFrom(wk[w].entry.row, "grace_period", Earned)
  /\ NextEntry(w, wk[w].entry)
  /\ UNCHANGED <<primary, qualifies, clock, req>>

(* now is not before entry.GracePeriodEndsAt, and a slip: never asked.    *)
GraceNeverChecked(w) == TRUE
GraceReversed(w) == wk[w].now < wk[w].entry.ends
GraceOver(w) == wk[w].entry.ends <= wk[w].now

KeepGracePeriod(w) ==
  /\ Applying(w, "grace_period", FALSE)
  /\ ~GraceOver(w)
  /\ NextEntry(w, wk[w].entry)
  /\ UNCHANGED <<rows, primary, qualifies, clock, req>>

------------------------------------------------------------------------------
(* RevokeUserTitleTx: the two UPDATEs and the COMMIT.                      *)

(* UPDATE user_titles SET status = 'revoked' WHERE id = $1: the snapshot   *)
(* said grace_period; the statement itself does not look.                  *)
RevokeRow(w) ==
  /\ Applying(w, "grace_period", FALSE)
  /\ GraceOver(w)
  /\ ~RowLocked(wk[w].entry.row)
  /\ Goto(w, [wk[w] EXCEPT !.pc = "clear_primary"])
  /\ UNCHANGED <<rows, primary, qualifies, clock, req>>

(* A transaction that leaves the primary title alone.                      *)
PrimaryKept(w) == FALSE
(* WHERE id = $1 AND primary_title_id = $2                                 *)
PrimaryIsRevoked(w) == primary[wk[w].user] = wk[w].entry.row

ClearRevokedPrimary(w) ==
  /\ wk[w].pc = "clear_primary"
  /\ ~UserLocked(wk[w].user)
  /\ Goto(w, [wk[w] EXCEPT !.pc = "commit", !.cleared = PrimaryIsRevoked(w)])
  /\ UNCHANGED <<rows, primary, qualifies, clock, req>>

CommitRevoke(w) ==
  /\ wk[w].pc = "commit"
  /\ rows' = [rows EXCEPT ![wk[w].entry.row].status = "revoked"]
  /\ primary' = IF wk[w].cleared
                THEN [primary EXCEPT ![wk[w].user] = None]
                ELSE primary
  /\ NextEntry(w, wk[w].entry)
  /\ UNCHANGED <<qualifies, clock, req>>

EndUser(w) ==
  /\ wk[w].pc = "entries"
  /\ wk[w].entries = {}
  /\ Goto(w, IdleWorker)
  /\ UNCHANGED <<rows, primary, qualifies, clock, req>>

------------------------------------------------------------------------------
(* Errors and crashes.                                                     *)

(* A statement fails: EvaluateAndUnlock goes on to the next title, the     *)
(* reconciliation to the next entry, and without a snapshot the user is    *)
(* given up.  A failed statement of a transaction rolls it back.           *)
StatementFails(w) ==
  /\ \/ /\ wk[w].pc = "unlock"
        /\ \E t \in wk[w].todo : Goto(w, [wk[w] EXCEPT !.todo = @ \ {t}])
     \/ /\ wk[w].pc = "create"
        /\ Goto(w, [wk[w] EXCEPT !.pc = "unlock", !.todo = @ \ {wk[w].title},
                                 !.title = None])
     \/ /\ wk[w].pc = "snapshot"
        /\ Goto(w, IdleWorker)
     \/ /\ wk[w].pc = "entries"
        /\ \E e \in wk[w].entries : NextEntry(w, e)
     \/ /\ wk[w].pc \in {"requalify", "apply", "clear_primary", "commit"}
        /\ NextEntry(w, wk[w].entry)
  /\ UNCHANGED <<rows, primary, qualifies, clock, req>>

(* The process dies; the database rolls its open transaction back.         *)
Crash(w) ==
  /\ wk[w].pc # "idle"
  /\ Goto(w, IdleWorker)
  /\ UNCHANGED <<rows, primary, qualifies, clock, req>>

------------------------------------------------------------------------------
(* Requests of the owner, and the world the metrics are counted in.        *)

(* The EXISTS of SetPrimaryTitle.                                          *)
Eligible(u, r) == OwnerOf(r) = u /\ Live(r)

(* The statement takes its snapshot.  Not eligible: ErrForbidden.          *)
BeginSetPrimary(c, u, r) ==
  /\ ~req[c].busy
  /\ Eligible(u, r)
  /\ req' = [req EXCEPT ![c] = [busy |-> TRUE, user |-> u, row |-> r]]
  /\ UNCHANGED <<rows, primary, qualifies, clock, wk>>

(* ... and writes the users row, waiting for its lock.                     *)
FinishSetPrimary(c) ==
  /\ req[c].busy
  /\ ~UserLocked(req[c].user)
  /\ primary' = [primary EXCEPT ![req[c].user] = req[c].row]
  /\ req' = [req EXCEPT ![c] = NoRequest]
  /\ UNCHANGED <<rows, qualifies, clock, wk>>

ClearPrimaryTitle(u) ==
  /\ ~UserLocked(u)
  /\ primary' = [primary EXCEPT ![u] = None]
  /\ UNCHANGED <<rows, qualifies, clock, wk, req>>

(* Posts, likes and deletions move a metric across its threshold.          *)
MetricsChange(u, t) ==
  /\ qualifies' = IF <<u, t>> \in qualifies
                  THEN qualifies \ {<<u, t>>}
                  ELSE qualifies \cup {<<u, t>>}
  /\ UNCHANGED <<rows, primary, clock, wk, req>>

Tick ==
  /\ clock < MaxClock
  /\ clock' = clock + 1
  /\ UNCHANGED <<rows, primary, qualifies, wk, req>>

------------------------------------------------------------------------------
WorkerStep(w) ==
  \/ \E t \in Titles : Qualify(w, t)
  \/ UnlockTitle(w)
  \/ EndUnlock(w)
  \/ GetUserTitles(w)
  \/ ReadClock(w)
  \/ \E e \in wk[w].entries : QualifyEntry(w, e)
  \/ RequalifyEntry(w)
  \/ KeepActive(w)
  \/ EnterGracePeriod(w)
  \/ RestoreGracePeriodTitle(w)
  \/ KeepGracePeriod(w)
  \/ RevokeRow(w)
  \/ ClearRevokedPrimary(w)
  \/ CommitRevoke(w)
  \/ EndUser(w)

ClientStep ==
  \/ \E c \in Clients : FinishSetPrimary(c)
  \/ \E c \in Clients, u \in Users, r \in Row : BeginSetPrimary(c, u, r)
  \/ \E u \in Users : ClearPrimaryTitle(u)

FaultlessNext ==
  \/ Tick
  \/ \E u \in Users, t \in Titles : MetricsChange(u, t)
  \/ \E w \in Workers, u \in Users : BeginUser(w, u)
  \/ \E w \in Workers : WorkerStep(w)
  \/ ClientStep

Next ==
  \/ FaultlessNext
  \/ \E w \in Workers : StatementFails(w) \/ Crash(w)

Spec == Init /\ [][Next]_vars

(* The worker's goroutine keeps running and each pass visits every user    *)
(* (GetUserIDsBatch pages through all ids), time passes, and from some     *)
(* moment on the database answers and the process stays up.                *)
Fairness ==
  /\ WF_vars(Tick)
  /\ \A w \in Workers : WF_vars(WorkerStep(w))
  /\ \A w \in Workers, u \in Users : SF_vars(BeginUser(w, u))
  /\ <>[][FaultlessNext]_vars

FairSpec == Spec /\ Fairness

(* No SetPrimaryTitle statement of a row runs while that row is revoked.   *)
NoOverlap ==
  \A c \in Clients, w \in Workers :
    ~(req[c].busy /\ InTx(w) /\ wk[w].entry.row = req[c].row)

------------------------------------------------------------------------------
TypeOK ==
  /\ rows \in [Row -> RowState]
  /\ primary \in [Users -> Row \cup {None}]
  /\ qualifies \in SUBSET (Users \X Titles)
  /\ clock \in Nat
  /\ wk \in [Workers -> Worker]
  /\ req \in [Clients -> Request]

(* A user holds at most one active or grace-period row of a title, however *)
(* many workers insert, restore and revoke at the same time (migration     *)
(* 0015: "prevents a user from holding two active/grace-period instances   *)
(* of the same title definition simultaneously").                          *)
OneLiveRowPerTitle ==
  \A r, s \in Row :
    OwnerOf(r) = OwnerOf(s) /\ TitleOf(r) = TitleOf(s) /\ Live(r) /\ Live(s) => r = s

(* The badge a user displays is one of the titles the user holds now       *)
(* (migration 0016: "one of their active user_titles rows").  No query     *)
(* that shows the primary title looks at the row's status, so a primary    *)
(* that points at a revoked row is displayed.                              *)
PrimaryIsHeld ==
  \A u \in Users : primary[u] # None => OwnerOf(primary[u]) = u /\ Live(primary[u])

(* ... and without such an overlap it always is one the user holds.        *)
HeldUnlessOverlap == []NoOverlap => []PrimaryIsHeld

(* While a transaction holds a user_titles row, no other actor moves it:   *)
(* when the revocation commits, the row is one that was in its grace       *)
(* period with the deadline behind it.  Holds for one worker, the          *)
(* deployment the code is written for.                                     *)
RevocationIsDue ==
  \A w \in Workers : InTx(w) =>
    /\ rows[wk[w].entry.row].status = "grace_period"
    /\ rows[wk[w].entry.row].ends <= clock

(* However many workers overlap, each with a snapshot the others have made *)
(* stale, a permanent title once held stays held, a revoked row stays      *)
(* revoked (a title earned again is a new row), and a grace period in      *)
(* force is not prolonged by a worker that enters it late.                 *)
RowLasts(r) ==
  /\ Live(r) /\ TitleOf(r) \notin Revocable => rows'[r] = rows[r]
  /\ rows[r].status = "revoked" => rows'[r].status = "revoked"
  /\ rows[r].status = "grace_period" /\ rows'[r].status = "grace_period"
       => rows'[r].ends = rows[r].ends
LastingStates == [][\A r \in Row : RowLasts(r)]_vars

(* Every change of the table is a step of the promised life cycle.         *)
Contract == INSTANCE TitleContract WITH rows <- rows, clock <- clock
KeepsContract == Contract!Spec

(* A title whose metrics stay over the threshold is eventually an active   *)
(* row: unlocked when never held, restored out of a grace period, earned   *)
(* again after a revocation.                                               *)
EarnedBecomesActive ==
  \A u \in Users, t \in Titles :
    <<u, t>> \in qualifies ~>
      \/ <<u, t>> \notin qualifies
      \/ \E r \in RowsOf(u, t) : rows[r].status = "active"
      \/ \A r \in RowsOf(u, t) : rows[r].status = "revoked"   \* bound: MaxEarns

(* A revocable title whose metrics stay below the threshold is eventually  *)
(* revoked: no missed tick, failed statement or crash keeps it for good.   *)
LapsedIsRevoked ==
  \A r \in Row : TitleOf(r) \in Revocable =>
    (Live(r) ~>
      \/ rows[r].status = "revoked"
      \/ <<OwnerOf(r), TitleOf(r)>> \in qualifies
      \/ rows[r].ends > MaxClock)                             \* bound: MaxClock
==============================================================================
