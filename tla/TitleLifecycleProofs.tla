------------------------ MODULE TitleLifecycleProofs ------------------------
(***************************************************************************)
(* Proofs about TitleLifecycle, for any number of users, titles, workers   *)
(* and clients, and any bounds.                                            *)
(***************************************************************************)
EXTENDS TitleLifecycle, TLAPS

------------------------------------------------------------------------------
(* Type correctness                                                        *)

LEMMA InsertTyped ==
  ASSUME TypeOK, NEW u, NEW t, CreateUserTitle(u, t)
  PROVE  rows' \in [Row -> RowState]
<1>1. Earned \in RowState
  BY DEF Earned, RowState, LiveStatus
<1> QED BY <1>1 DEF TypeOK, CreateUserTitle, RowsOf

LEMMA UpdateTyped ==
  ASSUME TypeOK, NEW r, NEW expected, NEW new \in RowState, UpdateFrom(r, expected, new)
  PROVE  rows' \in [Row -> RowState]
BY DEF TypeOK, UpdateFrom

LEMMA NextEntryTyped ==
  ASSUME TypeOK, NEW w \in Workers, NEW e, NextEntry(w, e)
  PROVE  wk' \in [Workers -> Worker]
<1>1. wk[w] \in Worker
  BY DEF TypeOK
<1>2. [wk[w] EXCEPT !.pc = "entries", !.entries = @ \ {e}, !.entry = None,
                    !.qualified = FALSE, !.cleared = FALSE] \in Worker
  BY <1>1 DEF Worker, WorkerPC
<1> QED BY <1>2 DEF TypeOK, NextEntry, Goto

LEMMA IdleTyped == IdleWorker \in Worker
BY DEF IdleWorker, Worker, WorkerPC

LEMMA TypeInit == Init => TypeOK
<1>1. Unused \in RowState
  BY DEF Unused, RowState
<1>2. NoRequest \in Request
  BY DEF NoRequest, Request
<1> QED BY <1>1, <1>2, IdleTyped DEF Init, TypeOK

(* A step of a worker that only moves its own local state.                 *)
LEMMA LocalTyped ==
  ASSUME TypeOK, NEW w \in Workers, NEW local \in Worker, Goto(w, local),
         UNCHANGED <<rows, primary, qualifies, clock, req>>
  PROVE  TypeOK'
BY DEF TypeOK, Goto

LEMMA TypeWorkerStep ==
  ASSUME TypeOK, NEW w \in Workers, WorkerStep(w)
  PROVE  TypeOK'
<1> USE DEF Worker, WorkerPC
<1>0. wk[w] \in Worker
  BY DEF TypeOK
<1>1. ASSUME NEW t \in Titles, Qualify(w, t)
      PROVE  TypeOK'
  <2>1. [wk[w] EXCEPT !.pc = "create", !.title = t] \in Worker
    BY <1>0
  <2>2. [wk[w] EXCEPT !.todo = @ \ {t}] \in Worker
    BY <1>0
  <2> QED BY <1>1, <2>1, <2>2, LocalTyped DEF Qualify
<1>2. CASE UnlockTitle(w)
  <2>1. rows' \in [Row -> RowState]
    BY <1>2, InsertTyped DEF UnlockTitle
  <2>2. wk' \in [Workers -> Worker]
    BY <1>0, <1>2 DEF UnlockTitle, Goto, TypeOK
  <2> QED BY <1>2, <2>1, <2>2 DEF UnlockTitle, TypeOK
<1>3. CASE EndUnlock(w)
  <2>1. [wk[w] EXCEPT !.pc = "snapshot"] \in Worker
    BY <1>0
  <2> QED BY <1>3, <2>1, LocalTyped DEF EndUnlock
<1>4. CASE GetUserTitles(w)
  <2> DEFINE held == {r \in Row : OwnerOf(r) = wk[w].user /\ Live(r) /\ Reconciled(r)}
             got == {[row |-> r, status |-> rows[r].status, ends |-> rows[r].ends] : r \in held}
  <2>1. got \in SUBSET Entry
    BY DEF Entry, Live, TypeOK, RowState
  <2>2. [wk[w] EXCEPT !.pc = "clock", !.entries = got] \in Worker
    BY <1>0, <2>1
  <2> QED BY <1>4, <2>2, LocalTyped DEF GetUserTitles
<1>5. CASE ReadClock(w)
  <2>1. [wk[w] EXCEPT !.pc = "entries", !.now = clock] \in Worker
    BY <1>0 DEF TypeOK
  <2> QED BY <1>5, <2>1, LocalTyped DEF ReadClock
<1>6. ASSUME NEW e \in wk[w].entries, QualifyEntry(w, e)
      PROVE  TypeOK'
  <2> DEFINE q == <<wk[w].user, TitleOf(e.row)>> \in qualifies
  <2>1. e \in Entry /\ q \in BOOLEAN
    BY <1>0
  <2>2. [wk[w] EXCEPT !.pc = IF q THEN "requalify" ELSE "apply",
                      !.entry = e, !.qualified = q] \in Worker
    BY <1>0, <2>1
  <2> QED BY <1>6, <2>2, LocalTyped DEF QualifyEntry
<1>7. CASE RequalifyEntry(w)
  <2>1. rows' \in [Row -> RowState]
    BY <1>7, InsertTyped DEF RequalifyEntry
  <2>2. wk' \in [Workers -> Worker]
    BY <1>0, <1>7 DEF RequalifyEntry, Goto, TypeOK
  <2> QED BY <1>7, <2>1, <2>2 DEF RequalifyEntry, TypeOK
<1>8. CASE KeepActive(w) \/ KeepGracePeriod(w)
  BY <1>8, NextEntryTyped DEF KeepActive, KeepGracePeriod, TypeOK
<1>9. CASE EnterGracePeriod(w)
  <2>1. [status |-> "grace_period", ends |-> GraceEnd(w)] \in RowState
    BY <1>0, GraceAssumption DEF GraceEnd, RowState, LiveStatus
  <2>2. rows' \in [Row -> RowState]
    BY <1>9, <2>1, UpdateTyped DEF EnterGracePeriod
  <2> QED BY <1>9, <2>2, NextEntryTyped DEF EnterGracePeriod, TypeOK
<1>10. CASE RestoreGracePeriodTitle(w)
  <2>1. Earned \in RowState
    BY DEF Earned, RowState, LiveStatus
  <2>2. rows' \in [Row -> RowState]
    BY <1>10, <2>1, UpdateTyped DEF RestoreGracePeriodTitle
  <2> QED BY <1>10, <2>2, NextEntryTyped DEF RestoreGracePeriodTitle, TypeOK
<1>11. CASE RevokeRow(w)
  <2>1. [wk[w] EXCEPT !.pc = "clear_primary"] \in Worker
    BY <1>0
  <2> QED BY <1>11, <2>1, LocalTyped DEF RevokeRow
<1>12. CASE ClearRevokedPrimary(w)
  <2>1. [wk[w] EXCEPT !.pc = "commit", !.cleared = PrimaryIsRevoked(w)] \in Worker
    BY <1>0 DEF PrimaryIsRevoked
  <2> QED BY <1>12, <2>1, LocalTyped DEF ClearRevokedPrimary
<1>13. CASE CommitRevoke(w)
  <2>1. rows' \in [Row -> RowState]
    <3>1. rows' = [rows EXCEPT ![wk[w].entry.row].status = "revoked"]
      BY <1>13 DEF CommitRevoke
    <3>2. rows \in [Row -> RowState]
      BY DEF TypeOK
    <3>3. \A s \in RowState : [s EXCEPT !.status = "revoked"] \in RowState
      BY DEF RowState
    <3> QED BY <3>1, <3>2, <3>3
  <2> QED BY <1>13, <2>1, NextEntryTyped DEF CommitRevoke, TypeOK
<1>14. CASE EndUser(w)
  BY <1>14, IdleTyped, LocalTyped DEF EndUser
<1> QED
  BY <1>1, <1>2, <1>3, <1>4, <1>5, <1>6, <1>7, <1>8, <1>9, <1>10, <1>11, <1>12,
     <1>13, <1>14 DEF WorkerStep

LEMMA TypeNext == TypeOK /\ [Next]_vars => TypeOK'
<1> SUFFICES ASSUME TypeOK, [Next]_vars
             PROVE  TypeOK'
  OBVIOUS
<1>1. CASE Tick
  BY <1>1, BoundsAssumption DEF Tick, TypeOK
<1>2. ASSUME NEW u \in Users, NEW t \in Titles, MetricsChange(u, t)
      PROVE  TypeOK'
  BY <1>2 DEF MetricsChange, TypeOK
<1>3. ASSUME NEW w \in Workers, NEW u \in Users, BeginUser(w, u)
      PROVE  TypeOK'
  <2>1. [IdleWorker EXCEPT !.pc = "unlock", !.user = u, !.todo = Titles] \in Worker
    BY IdleTyped DEF Worker, WorkerPC
  <2> QED BY <1>3, <2>1, LocalTyped DEF BeginUser
<1>4. ASSUME NEW w \in Workers, WorkerStep(w)
      PROVE  TypeOK'
  BY <1>4, TypeWorkerStep
<1>5. ASSUME NEW c \in Clients, FinishSetPrimary(c)
      PROVE  TypeOK'
  <2>1. NoRequest \in Request /\ req[c] \in Request
    BY DEF NoRequest, Request, TypeOK
  <2> QED BY <1>5, <2>1 DEF FinishSetPrimary, TypeOK, Request
<1>6. ASSUME NEW c \in Clients, NEW u \in Users, NEW r \in Row, BeginSetPrimary(c, u, r)
      PROVE  TypeOK'
  BY <1>6 DEF BeginSetPrimary, TypeOK, Request
<1>7. ASSUME NEW u \in Users, ClearPrimaryTitle(u)
      PROVE  TypeOK'
  BY <1>7 DEF ClearPrimaryTitle, TypeOK
<1>8. ASSUME NEW w \in Workers, StatementFails(w)
      PROVE  TypeOK'
  <2> USE DEF Worker, WorkerPC
  <2>0. wk[w] \in Worker
    BY DEF TypeOK
  <2>1. ASSUME NEW t \in Titles
        PROVE  [wk[w] EXCEPT !.todo = @ \ {t}] \in Worker
    BY <2>0
  <2>2. [wk[w] EXCEPT !.pc = "unlock", !.todo = @ \ {wk[w].title}, !.title = None]
          \in Worker
    BY <2>0
  <2>3. wk' \in [Workers -> Worker]
    <3>1. CASE \E t \in wk[w].todo : Goto(w, [wk[w] EXCEPT !.todo = @ \ {t}])
      BY <2>0, <2>1, <3>1 DEF Goto, TypeOK
    <3>2. CASE \E e \in wk[w].entries : NextEntry(w, e)
      BY <3>2, NextEntryTyped
    <3> QED BY <1>8, <2>2, <3>1, <3>2, IdleTyped, NextEntryTyped
            DEF StatementFails, Goto, TypeOK
  <2> QED BY <1>8, <2>3 DEF StatementFails, TypeOK
<1>9. ASSUME NEW w \in Workers, Crash(w)
      PROVE  TypeOK'
  BY <1>9, IdleTyped, LocalTyped DEF Crash
<1>10. CASE UNCHANGED vars
  BY <1>10 DEF vars, TypeOK
<1> QED
  BY <1>1, <1>2, <1>3, <1>4, <1>5, <1>6, <1>7, <1>8, <1>9, <1>10
  DEF Next, FaultlessNext, ClientStep

(* Every reachable state is well typed, for every value of the constants.  *)
THEOREM TypeCorrect == Spec => []TypeOK
<1> QED BY TypeInit, TypeNext, PTL DEF Spec

------------------------------------------------------------------------------
(* One live row per user and title                                         *)


(* The worker handles an entry of its snapshot, which is a revocable row   *)
(* of the user it is at.                                                   *)
EntriesOK ==
  \A w \in Workers :
    /\ \A e \in wk[w].entries :
         OwnerOf(e.row) = wk[w].user /\ TitleOf(e.row) \in Revocable
    /\ wk[w].pc \in {"requalify", "apply", "clear_primary", "commit"}
         => wk[w].entry \in wk[w].entries

LEMMA NextEntryOK ==
  ASSUME TypeOK, EntriesOK, NEW w \in Workers, NEW e, NextEntry(w, e)
  PROVE  EntriesOK'
<1>1. wk[w] \in Worker
  BY DEF TypeOK
<1> QED BY <1>1 DEF NextEntry, Goto, EntriesOK, TypeOK, Worker

LEMMA EntriesWorkerStep ==
  ASSUME TypeOK, EntriesOK, NEW w \in Workers, WorkerStep(w)
  PROVE  EntriesOK'
<1>0. wk[w] \in Worker
  BY DEF TypeOK
<1>1. ASSUME NEW t \in Titles, Qualify(w, t)
      PROVE  EntriesOK'
  <2>1. CASE Goto(w, [wk[w] EXCEPT !.pc = "create", !.title = t])
    BY <1>0, <2>1 DEF Goto, EntriesOK, TypeOK, Worker
  <2>2. CASE Goto(w, [wk[w] EXCEPT !.todo = @ \ {t}])
    BY <1>0, <1>1, <2>2 DEF Qualify, Goto, EntriesOK, TypeOK, Worker
  <2> QED BY <1>1, <2>1, <2>2 DEF Qualify
<1>2. CASE UnlockTitle(w)
  BY <1>0, <1>2 DEF UnlockTitle, Goto, EntriesOK, TypeOK, Worker
<1>3. CASE EndUnlock(w)
  BY <1>0, <1>3 DEF EndUnlock, Goto, EntriesOK, TypeOK, Worker
<1>4. CASE GetUserTitles(w)
  BY <1>0, <1>4 DEF GetUserTitles, Reconciled, Goto, EntriesOK, TypeOK, Worker
<1>5. CASE ReadClock(w)
  BY <1>0, <1>5 DEF ReadClock, Goto, EntriesOK, TypeOK, Worker
<1>6. ASSUME NEW e \in wk[w].entries, QualifyEntry(w, e)
      PROVE  EntriesOK'
  BY <1>0, <1>6 DEF QualifyEntry, Goto, EntriesOK, TypeOK, Worker
<1>7. CASE RequalifyEntry(w)
  BY <1>0, <1>7 DEF RequalifyEntry, Goto, EntriesOK, TypeOK, Worker
<1>8. CASE KeepActive(w) \/ EnterGracePeriod(w) \/ RestoreGracePeriodTitle(w)
           \/ KeepGracePeriod(w) \/ CommitRevoke(w)
  BY <1>8, NextEntryOK
  DEF KeepActive, EnterGracePeriod, RestoreGracePeriodTitle, KeepGracePeriod, CommitRevoke
<1>9. CASE RevokeRow(w)
  BY <1>0, <1>9 DEF RevokeRow, Applying, Goto, EntriesOK, TypeOK, Worker
<1>10. CASE ClearRevokedPrimary(w)
  BY <1>0, <1>10 DEF ClearRevokedPrimary, Goto, EntriesOK, TypeOK, Worker
<1>11. CASE EndUser(w)
  BY <1>11 DEF EndUser, IdleWorker, Goto, EntriesOK, TypeOK
<1> QED
  BY <1>1, <1>2, <1>3, <1>4, <1>5, <1>6, <1>7, <1>8, <1>9, <1>10, <1>11 DEF WorkerStep

LEMMA EntriesNext == TypeOK /\ EntriesOK /\ [Next]_vars => EntriesOK'
<1> SUFFICES ASSUME TypeOK, EntriesOK, [Next]_vars
             PROVE  EntriesOK'
  OBVIOUS
<1>1. CASE UNCHANGED wk
  BY <1>1 DEF EntriesOK
<1>2. ASSUME NEW w \in Workers, NEW u \in Users, BeginUser(w, u)
      PROVE  EntriesOK'
  BY <1>2 DEF BeginUser, IdleWorker, Goto, EntriesOK, TypeOK
<1>3. ASSUME NEW w \in Workers, WorkerStep(w)
      PROVE  EntriesOK'
  BY <1>3, EntriesWorkerStep
<1>4. ASSUME NEW w \in Workers, StatementFails(w)
      PROVE  EntriesOK'
  <2>0. wk[w] \in Worker
    BY DEF TypeOK
  <2>1. ASSUME NEW e, NextEntry(w, e)
        PROVE  EntriesOK'
    BY <2>1, NextEntryOK
  <2>2. CASE wk[w].pc = "create"
    <3>1. Goto(w, [wk[w] EXCEPT !.pc = "unlock", !.todo = @ \ {wk[w].title},
                               !.title = None])
      BY <1>4, <2>2 DEF StatementFails
    <3> QED BY <2>0, <3>1 DEF Goto, EntriesOK, TypeOK, Worker
  <2>3. CASE wk[w].pc = "unlock"
    <3>1. PICK t \in wk[w].todo : Goto(w, [wk[w] EXCEPT !.todo = @ \ {t}])
      BY <1>4, <2>3 DEF StatementFails
    <3> QED BY <2>0, <2>3, <3>1 DEF Goto, EntriesOK, TypeOK, Worker
  <2>4. CASE wk[w].pc = "snapshot"
    BY <1>4, <2>4 DEF StatementFails, Goto, IdleWorker, EntriesOK, TypeOK
  <2> QED BY <1>4, <2>1, <2>2, <2>3, <2>4 DEF StatementFails
<1>5. ASSUME NEW w \in Workers, Crash(w)
      PROVE  EntriesOK'
  BY <1>5 DEF Crash, IdleWorker, Goto, EntriesOK, TypeOK
<1> QED
  BY <1>1, <1>2, <1>3, <1>4, <1>5
  DEF Next, FaultlessNext, ClientStep, Tick, MetricsChange, FinishSetPrimary,
      BeginSetPrimary, ClearPrimaryTitle, vars

(* What one step may do to the table, however many workers there are.      *)
TableStep ==
  \/ UNCHANGED rows
  \/ \E r \in Row :
       /\ rows[r].status = "none"
       /\ \A q \in RowsOf(OwnerOf(r), TitleOf(r)) : ~Live(q)
       /\ rows' = [rows EXCEPT ![r] = Earned]
  \/ \E r \in Row, n \in Nat :
       /\ TitleOf(r) \in Revocable
       /\ rows[r].status = "active"
       /\ rows' = [rows EXCEPT ![r] = [status |-> "grace_period", ends |-> n]]
  \/ \E r \in Row :
       /\ TitleOf(r) \in Revocable
       /\ rows[r].status = "grace_period"
       /\ rows' = [rows EXCEPT ![r] = Earned]
  \/ \E r \in Row :
       /\ TitleOf(r) \in Revocable
       /\ rows' = [rows EXCEPT ![r].status = "revoked"]

LEMMA InsertStep ==
  ASSUME NEW u, NEW t, CreateUserTitle(u, t)
  PROVE  TableStep
BY DEF CreateUserTitle, RowsOf, Indexed, TableStep

LEMMA TableNext == TypeOK /\ EntriesOK /\ [Next]_vars => TableStep
<1> SUFFICES ASSUME TypeOK, EntriesOK, [Next]_vars
             PROVE  TableStep
  OBVIOUS
<1>1. CASE UNCHANGED rows
  BY <1>1 DEF TableStep
<1>2. ASSUME NEW w \in Workers, UnlockTitle(w) \/ RequalifyEntry(w)
      PROVE  TableStep
  BY <1>2, InsertStep DEF UnlockTitle, RequalifyEntry
<1>3. ASSUME NEW w \in Workers, wk[w].pc \in {"apply", "commit"}
      PROVE  wk[w].entry.row \in Row /\ TitleOf(wk[w].entry.row) \in Revocable
             /\ wk[w].now \in Nat
  <2>1. wk[w] \in Worker /\ wk[w].entry \in Entry
    BY <1>3 DEF TypeOK, EntriesOK, Worker
  <2> QED BY <1>3, <2>1 DEF EntriesOK, Entry, Worker
<1>4. ASSUME NEW w \in Workers, EnterGracePeriod(w)
      PROVE  TableStep
  <2>1. GraceEnd(w) \in Nat
    BY <1>3, <1>4, GraceAssumption DEF EnterGracePeriod, Applying, GraceEnd
  <2> QED BY <1>3, <1>4, <2>1 DEF EnterGracePeriod, Applying, UpdateFrom, TableStep
<1>5. ASSUME NEW w \in Workers, RestoreGracePeriodTitle(w)
      PROVE  TableStep
  BY <1>3, <1>5 DEF RestoreGracePeriodTitle, Applying, UpdateFrom, TableStep
<1>6. ASSUME NEW w \in Workers, CommitRevoke(w)
      PROVE  TableStep
  BY <1>3, <1>6 DEF CommitRevoke, TableStep
<1> QED
  BY <1>1, <1>2, <1>4, <1>5, <1>6
  DEF Next, FaultlessNext, WorkerStep, ClientStep, Tick, MetricsChange, BeginUser,
      Qualify, EndUnlock, GetUserTitles, ReadClock, QualifyEntry, KeepActive,
      KeepGracePeriod, RevokeRow, ClearRevokedPrimary, EndUser, StatementFails, Crash,
      FinishSetPrimary, BeginSetPrimary, ClearPrimaryTitle, vars

LEMMA OneLiveStep == TypeOK /\ OneLiveRowPerTitle /\ TableStep => OneLiveRowPerTitle'
<1> SUFFICES ASSUME TypeOK, OneLiveRowPerTitle, TableStep,
                    NEW r \in Row, NEW s \in Row,
                    OwnerOf(r) = OwnerOf(s), TitleOf(r) = TitleOf(s), Live(r)', Live(s)'
             PROVE  r = s
  BY DEF OneLiveRowPerTitle, Live
<1>1. CASE Live(r) /\ Live(s)
  BY <1>1 DEF OneLiveRowPerTitle
<1>2. CASE ~(Live(r) /\ Live(s))
  <2>1. PICK q \in Row :
          /\ rows[q].status = "none"
          /\ \A p \in RowsOf(OwnerOf(q), TitleOf(q)) : ~Live(p)
          /\ rows' = [rows EXCEPT ![q] = Earned]
    BY <1>2 DEF TableStep, Live, LiveStatus, TypeOK, RowState
  <2>2. (r = q \/ Live(r)) /\ (s = q \/ Live(s))
    BY <2>1 DEF Live, TypeOK
  <2> QED BY <1>2, <2>1, <2>2 DEF RowsOf
<1> QED BY <1>1, <1>2

(* However many workers insert, restore and revoke at the same time, a     *)
(* user never holds two live rows of one title.                            *)
THEOREM OneLiveRow == Spec => []OneLiveRowPerTitle
<1>1. Init => OneLiveRowPerTitle /\ EntriesOK
  BY DEF Init, OneLiveRowPerTitle, Live, LiveStatus, Unused, EntriesOK, IdleWorker
<1>2. TypeOK /\ EntriesOK /\ OneLiveRowPerTitle /\ [Next]_vars
        => EntriesOK' /\ OneLiveRowPerTitle'
  BY EntriesNext, TableNext, OneLiveStep
<1> QED BY <1>1, <1>2, TypeCorrect, PTL DEF Spec

(* Permanent titles stay held, revoked rows stay revoked and deadlines in  *)
(* force stay where they are, whatever overlaps.                           *)
THEOREM StatesLast == Spec => LastingStates
<1>1. Init => EntriesOK
  BY DEF Init, EntriesOK, IdleWorker
<1>2. TypeOK /\ TableStep => \A r \in Row : RowLasts(r)
  BY DEF TableStep, RowLasts, TypeOK, RowState, LiveStatus, Live, Earned
<1>3. TypeOK /\ EntriesOK /\ [Next]_vars => [\A r \in Row : RowLasts(r)]_vars
  BY <1>2, TableNext
<1> QED BY <1>1, <1>3, EntriesNext, TypeCorrect, PTL DEF Spec, LastingStates

------------------------------------------------------------------------------
(* One worker keeps the contract                                           *)

(* One process runs one qualification worker, and a full pass blocks its   *)
(* ticker.                                                                 *)
SingleWorker == \A v, w \in Workers : v = w

(* What the worker knows of a row it has yet to handle is still true: no   *)
(* one else changes the status of a row.  That is why a revocation that    *)
(* looks at nothing but the id revokes a row whose grace period is over.   *)
SnapshotFresh ==
  \A w \in Workers :
    /\ wk[w].now <= clock
    /\ \A e \in wk[w].entries :
         rows[e.row].status = e.status /\ rows[e.row].ends = e.ends
    /\ InTx(w) => wk[w].entry.status = "grace_period" /\ wk[w].entry.ends <= wk[w].now

LEMMA FreshIsDue == TypeOK /\ EntriesOK /\ SnapshotFresh => RevocationIsDue
<1> SUFFICES ASSUME TypeOK, EntriesOK, SnapshotFresh, NEW w \in Workers, InTx(w)
             PROVE  /\ rows[wk[w].entry.row].status = "grace_period"
                    /\ rows[wk[w].entry.row].ends <= clock
  BY DEF RevocationIsDue
<1>1. wk[w] \in Worker /\ wk[w].entry \in wk[w].entries
  BY DEF TypeOK, EntriesOK, InTx
<1>2. wk[w].entry \in Entry
  BY <1>1 DEF Worker
<1> QED BY <1>1, <1>2 DEF SnapshotFresh, TypeOK, Worker, Entry

(* A worker that lets go of an entry after changing only that row.         *)
LEMMA FreshNextEntry ==
  ASSUME TypeOK, EntriesOK, SnapshotFresh, SingleWorker,
         NEW w \in Workers, NEW e, e \in wk[w].entries, NextEntry(w, e),
         UNCHANGED clock, rows' \in [Row -> RowState],
         \A r \in Row : r # e.row => rows'[r] = rows[r]
  PROVE  SnapshotFresh'
<1>1. wk[w] \in Worker /\ e \in Entry
  BY DEF TypeOK, Worker
<1>2. wk' = [wk EXCEPT ![w] = wk'[w]]
      /\ wk'[w].now = wk[w].now /\ wk'[w].pc = "entries"
      /\ wk'[w].entries = wk[w].entries \ {e}
  BY <1>1 DEF NextEntry, Goto, TypeOK, Worker
<1>3. ASSUME NEW f \in wk'[w].entries
      PROVE  rows'[f.row].status = f.status /\ rows'[f.row].ends = f.ends
  <2>1. f \in Entry /\ f \in wk[w].entries /\ f # e
    BY <1>1, <1>2, <1>3 DEF Worker
  <2>2. f.row # e.row
    BY <1>1, <2>1 DEF SnapshotFresh, Entry
  <2> QED BY <2>1, <2>2 DEF SnapshotFresh, Entry
<1> QED BY <1>1, <1>2, <1>3 DEF SnapshotFresh, SingleWorker, InTx

(* A worker that keeps or drops entries, outside the transaction.          *)
LEMMA FreshLocal ==
  ASSUME TypeOK, SnapshotFresh, NEW w \in Workers, NEW local \in Worker, Goto(w, local),
         UNCHANGED <<rows, clock>>,
         local.now <= clock, local.entries \subseteq wk[w].entries,
         local.pc \notin {"clear_primary", "commit"}
  PROVE  SnapshotFresh'
<1>1. ASSUME NEW v \in Workers
      PROVE  wk'[v] = IF v = w THEN local ELSE wk[v]
  BY <1>1 DEF Goto, TypeOK
<1>2. ASSUME NEW v \in Workers, v # w
      PROVE  /\ wk'[v].now <= clock'
             /\ \A e \in wk'[v].entries :
                  rows'[e.row].status = e.status /\ rows'[e.row].ends = e.ends
             /\ InTx(v)' => wk'[v].entry.status = "grace_period"
                            /\ wk'[v].entry.ends <= wk'[v].now
  BY <1>1, <1>2 DEF SnapshotFresh, InTx
<1>3. /\ wk'[w].now <= clock'
      /\ \A e \in wk'[w].entries :
           rows'[e.row].status = e.status /\ rows'[e.row].ends = e.ends
      /\ ~InTx(w)'
  BY <1>1 DEF SnapshotFresh, InTx
<1> QED BY <1>2, <1>3 DEF SnapshotFresh

(* An insertion touches no row of a snapshot: those rows are live.         *)
LEMMA FreshInsert ==
  ASSUME TypeOK, SnapshotFresh, NEW u, NEW t, CreateUserTitle(u, t),
         NEW w \in Workers, NEW e \in wk[w].entries
  PROVE  rows'[e.row] = rows[e.row]
<1>1. e \in Entry /\ rows[e.row].status = e.status
  BY DEF TypeOK, Worker, SnapshotFresh
<1>2. rows[e.row].status # "none"
  BY <1>1 DEF Entry, LiveStatus
<1>3. ASSUME NEW r \in Row, rows[r].status = "none", rows' = [rows EXCEPT ![r] = Earned]
      PROVE  rows'[e.row] = rows[e.row]
  BY <1>2, <1>3 DEF TypeOK
<1> QED BY <1>3 DEF CreateUserTitle, RowsOf

LEMMA FreshWorkerStep ==
  ASSUME TypeOK, EntriesOK, SnapshotFresh, SingleWorker, TypeOK',
         NEW w \in Workers, WorkerStep(w)
  PROVE  SnapshotFresh'
<1>0. wk[w] \in Worker /\ wk[w].now <= clock /\ clock \in Nat
  BY DEF TypeOK, SnapshotFresh
<1>1. ASSUME NEW local \in Worker, Goto(w, local), CreateUserTitle(wk[w].user, wk[w].title)
                \/ CreateUserTitle(wk[w].user, TitleOf(wk[w].entry.row)),
             UNCHANGED clock, local.now = wk[w].now, local.entries = wk[w].entries,
             local.pc \notin {"clear_primary", "commit"}
      PROVE  SnapshotFresh'
  <2>1. \A v \in Workers : v = w
    BY DEF SingleWorker
  <2>2. wk'[w] = local
    BY <1>1 DEF Goto, TypeOK
  <2>3. \A e \in wk[w].entries : rows'[e.row] = rows[e.row]
    BY <1>1, FreshInsert
  <2> QED BY <1>0, <1>1, <2>1, <2>2, <2>3 DEF SnapshotFresh, InTx
<1>2. CASE UnlockTitle(w)
  <2> DEFINE local == [wk[w] EXCEPT !.pc = "unlock", !.todo = @ \ {wk[w].title}, !.title = None]
  <2>1. local \in Worker /\ local.now = wk[w].now /\ local.entries = wk[w].entries
        /\ local.pc = "unlock"
    BY <1>0 DEF Worker, WorkerPC
  <2> QED BY <1>1, <1>2, <2>1 DEF UnlockTitle
<1>3. CASE RequalifyEntry(w)
  <2> DEFINE local == [wk[w] EXCEPT !.pc = "apply"]
  <2>1. local \in Worker /\ local.now = wk[w].now /\ local.entries = wk[w].entries
        /\ local.pc = "apply"
    BY <1>0 DEF Worker, WorkerPC
  <2> QED BY <1>1, <1>3, <2>1 DEF RequalifyEntry
<1>4. ASSUME NEW t \in Titles, Qualify(w, t)
      PROVE  SnapshotFresh'
  <2> DEFINE create == [wk[w] EXCEPT !.pc = "create", !.title = t]
             skip == [wk[w] EXCEPT !.todo = @ \ {t}]
  <2>1. create \in Worker /\ create.now = wk[w].now /\ create.entries = wk[w].entries
        /\ create.pc = "create"
    BY <1>0 DEF Worker, WorkerPC
  <2>2. skip \in Worker /\ skip.now = wk[w].now /\ skip.entries = wk[w].entries
        /\ skip.pc = wk[w].pc
    BY <1>0 DEF Worker, WorkerPC
  <2> QED BY <1>0, <1>4, <2>1, <2>2, FreshLocal DEF Qualify
<1>5. CASE EndUnlock(w)
  <2> DEFINE local == [wk[w] EXCEPT !.pc = "snapshot"]
  <2>1. local \in Worker /\ local.now = wk[w].now /\ local.entries = wk[w].entries
        /\ local.pc = "snapshot"
    BY <1>0 DEF Worker, WorkerPC
  <2> QED BY <1>0, <1>5, <2>1, FreshLocal DEF EndUnlock
<1>6. CASE GetUserTitles(w)
  <2>1. \A v \in Workers : v = w
    BY DEF SingleWorker
  <2>2. wk'[w].now = wk[w].now /\ wk'[w].pc = "clock" /\ UNCHANGED <<rows, clock>>
    BY <1>0, <1>6 DEF GetUserTitles, Goto, TypeOK, Worker
  <2> DEFINE held == {r \in Row : OwnerOf(r) = wk[w].user /\ Live(r) /\ Reconciled(r)}
             got == {[row |-> r, status |-> rows[r].status, ends |-> rows[r].ends] : r \in held}
  <2>3. \A e \in got : rows[e.row].status = e.status /\ rows[e.row].ends = e.ends
    OBVIOUS
  <2>4. wk'[w].entries = got
    BY <1>0, <1>6 DEF GetUserTitles, Goto, TypeOK, Worker
  <2> HIDE DEF got
  <2> QED BY <1>0, <2>1, <2>2, <2>3, <2>4 DEF SnapshotFresh, InTx
<1>7. CASE ReadClock(w)
  <2> DEFINE local == [wk[w] EXCEPT !.pc = "entries", !.now = clock]
  <2>1. local \in Worker /\ local.now = clock /\ local.entries = wk[w].entries
        /\ local.pc = "entries"
    BY <1>0 DEF Worker, WorkerPC
  <2> HIDE DEF local
  <2>2. local.now <= clock /\ local.entries \subseteq wk[w].entries
        /\ local.pc \notin {"clear_primary", "commit"}
    BY <1>0, <2>1
  <2>3. Goto(w, local) /\ UNCHANGED <<rows, clock>>
    BY <1>7 DEF ReadClock, local
  <2> QED BY <2>1, <2>2, <2>3, FreshLocal
<1>8. ASSUME NEW e \in wk[w].entries, QualifyEntry(w, e)
      PROVE  SnapshotFresh'
  <2> DEFINE q == <<wk[w].user, TitleOf(e.row)>> \in qualifies
             local == [wk[w] EXCEPT !.pc = IF q THEN "requalify" ELSE "apply",
                                    !.entry = e, !.qualified = q]
  <2>0. e \in Entry /\ q \in BOOLEAN
    BY <1>0 DEF Worker
  <2> HIDE DEF q
  <2>1. local \in Worker /\ local.now = wk[w].now /\ local.entries = wk[w].entries
        /\ local.pc \in {"requalify", "apply"}
    BY <1>0, <2>0 DEF Worker, WorkerPC
  <2> USE DEF q
  <2> QED BY <1>0, <1>8, <2>1, FreshLocal DEF QualifyEntry
<1>9. CASE EndUser(w)
  <2>1. IdleWorker.now = 0 /\ IdleWorker.entries = {} /\ IdleWorker.pc = "idle"
    BY DEF IdleWorker
  <2> QED BY <1>0, <1>9, <2>1, IdleTyped, FreshLocal DEF EndUser
<1>10. ASSUME wk[w].pc \in {"apply", "commit"}
       PROVE  wk[w].entry \in wk[w].entries
  BY <1>10 DEF EntriesOK
<1>11. CASE KeepActive(w) \/ EnterGracePeriod(w) \/ RestoreGracePeriodTitle(w)
            \/ KeepGracePeriod(w) \/ CommitRevoke(w)
  <2>1. NextEntry(w, wk[w].entry) /\ UNCHANGED clock /\ wk[w].entry \in wk[w].entries
    BY <1>10, <1>11 DEF KeepActive, EnterGracePeriod, RestoreGracePeriodTitle,
         KeepGracePeriod, CommitRevoke, Applying
  <2>2. \A r \in Row : r # wk[w].entry.row => rows'[r] = rows[r]
    BY <1>11 DEF KeepActive, EnterGracePeriod, RestoreGracePeriodTitle, KeepGracePeriod,
         CommitRevoke, UpdateFrom, TypeOK
  <2> QED BY <2>1, <2>2, FreshNextEntry DEF TypeOK
<1>12. CASE RevokeRow(w)
  <2>1. wk'[w] = [wk[w] EXCEPT !.pc = "clear_primary"] /\ UNCHANGED <<rows, clock>>
    BY <1>12 DEF RevokeRow, Goto, TypeOK
  <2>2. wk[w].entry.status = "grace_period" /\ wk[w].entry.ends <= wk[w].now
    BY <1>12 DEF RevokeRow, Applying, GraceOver
  <2> QED BY <1>0, <2>1, <2>2 DEF SnapshotFresh, SingleWorker, Worker
<1>13. CASE ClearRevokedPrimary(w)
  <2>1. wk'[w] = [wk[w] EXCEPT !.pc = "commit", !.cleared = PrimaryIsRevoked(w)]
        /\ UNCHANGED <<rows, clock>>
    BY <1>13 DEF ClearRevokedPrimary, Goto, TypeOK
  <2>2. InTx(w)
    BY <1>13 DEF ClearRevokedPrimary, InTx
  <2>3. wk'[w].now = wk[w].now /\ wk'[w].entries = wk[w].entries
        /\ wk'[w].entry = wk[w].entry
    BY <1>0, <2>1 DEF Worker
  <2>4. UNCHANGED <<rows, clock>>
    BY <2>1
  <2>5. /\ wk[w].now <= clock
        /\ \A e \in wk[w].entries :
             rows[e.row].status = e.status /\ rows[e.row].ends = e.ends
        /\ wk[w].entry.status = "grace_period" /\ wk[w].entry.ends <= wk[w].now
    BY <2>2 DEF SnapshotFresh
  <2>6. \A v \in Workers : v = w
    BY DEF SingleWorker
  <2> QED BY <2>3, <2>4, <2>5, <2>6 DEF SnapshotFresh
<1> QED
  BY <1>2, <1>3, <1>4, <1>5, <1>6, <1>7, <1>8, <1>9, <1>11, <1>12, <1>13 DEF WorkerStep

LEMMA FreshNext ==
  SingleWorker => (TypeOK /\ EntriesOK /\ SnapshotFresh /\ [Next]_vars => SnapshotFresh')
<1> SUFFICES ASSUME SingleWorker, TypeOK, EntriesOK, SnapshotFresh, [Next]_vars
             PROVE  SnapshotFresh'
  OBVIOUS
<1>0. TypeOK'
  BY TypeNext
<1>1. CASE UNCHANGED <<rows, clock, wk>>
  BY <1>1 DEF SnapshotFresh, InTx
<1>2. CASE Tick
  <2>1. clock' \in Nat /\ clock <= clock' /\ \A w \in Workers : wk[w].now \in Nat
    BY <1>2 DEF Tick, TypeOK, Worker
  <2>2. \A w \in Workers : wk[w].now <= clock'
    BY <2>1 DEF SnapshotFresh, TypeOK
  <2> QED BY <1>2, <2>2 DEF Tick, SnapshotFresh, InTx
<1>3. ASSUME NEW w \in Workers, NEW local \in Worker, Goto(w, local),
             UNCHANGED <<rows, clock>>, local.now = 0, local.entries = {},
             local.pc \in {"idle", "unlock"}
      PROVE  SnapshotFresh'
  BY <1>3, FreshLocal DEF TypeOK
<1>4. ASSUME NEW w \in Workers, NEW u \in Users, BeginUser(w, u)
      PROVE  SnapshotFresh'
  <2> DEFINE local == [IdleWorker EXCEPT !.pc = "unlock", !.user = u, !.todo = Titles]
  <2>1. local \in Worker /\ local.now = 0 /\ local.entries = {} /\ local.pc = "unlock"
    BY IdleTyped DEF Worker, WorkerPC, IdleWorker
  <2> QED BY <1>3, <1>4, <2>1 DEF BeginUser
<1>5. IdleWorker \in Worker /\ IdleWorker.now = 0 /\ IdleWorker.entries = {}
      /\ IdleWorker.pc = "idle"
  BY IdleTyped DEF IdleWorker
<1>6. ASSUME NEW w \in Workers, Crash(w)
      PROVE  SnapshotFresh'
  BY <1>3, <1>5, <1>6 DEF Crash
<1>7. ASSUME NEW w \in Workers, StatementFails(w)
      PROVE  SnapshotFresh'
  <2>0. wk[w] \in Worker /\ wk[w].now <= clock /\ UNCHANGED <<rows, clock>>
    BY <1>7 DEF TypeOK, SnapshotFresh, StatementFails
  <2>1. ASSUME NEW e \in wk[w].entries, NextEntry(w, e)
        PROVE  SnapshotFresh'
    BY <1>0, <2>0, <2>1, FreshNextEntry DEF TypeOK
  <2>2. CASE wk[w].pc = "unlock"
    <3>1. PICK t \in wk[w].todo : Goto(w, [wk[w] EXCEPT !.todo = @ \ {t}])
      BY <1>7, <2>2 DEF StatementFails
    <3> DEFINE local == [wk[w] EXCEPT !.todo = @ \ {t}]
    <3>2. local \in Worker /\ local.now = wk[w].now /\ local.entries = wk[w].entries
          /\ local.pc = "unlock"
      BY <2>0, <2>2 DEF Worker, WorkerPC
    <3> QED BY <2>0, <3>1, <3>2, FreshLocal
  <2>3. CASE wk[w].pc = "create"
    <3> DEFINE local == [wk[w] EXCEPT !.pc = "unlock", !.todo = @ \ {wk[w].title},
                                      !.title = None]
    <3>1. local \in Worker /\ local.now = wk[w].now /\ local.entries = wk[w].entries
          /\ local.pc = "unlock"
      BY <2>0 DEF Worker, WorkerPC
    <3>2. Goto(w, local)
      BY <1>7, <2>3 DEF StatementFails
    <3> QED BY <2>0, <3>1, <3>2, FreshLocal
  <2>4. CASE wk[w].pc = "snapshot"
    BY <1>3, <1>5, <1>7, <2>4 DEF StatementFails
  <2> QED BY <1>7, <2>1, <2>2, <2>3, <2>4 DEF StatementFails, EntriesOK
<1>8. ASSUME NEW w \in Workers, WorkerStep(w)
      PROVE  SnapshotFresh'
  BY <1>0, <1>8, FreshWorkerStep
<1> QED
  BY <1>1, <1>2, <1>4, <1>6, <1>7, <1>8
  DEF Next, FaultlessNext, ClientStep, MetricsChange, FinishSetPrimary,
      BeginSetPrimary, ClearPrimaryTitle, vars

LEMMA ContractInsert ==
  ASSUME NEW u, NEW t, CreateUserTitle(u, t), UNCHANGED clock
  PROVE  [Contract!Next]_<<rows, clock>>
<1>1. ASSUME NEW r \in RowsOf(u, t), rows[r].status = "none",
             \A q \in RowsOf(u, t) : ~Indexed(q), rows' = [rows EXCEPT ![r] = Earned]
      PROVE  Contract!Unlock(r) /\ r \in Contract!Row
  BY <1>1 DEF RowsOf, Row, Indexed, Live, LiveStatus, Earned, OwnerOf, TitleOf,
       Contract!Unlock, Contract!Row, Contract!RowsOf, Contract!Live, Contract!LiveStatus,
       Contract!Earned, Contract!OwnerOf, Contract!TitleOf
<1> QED BY <1>1 DEF CreateUserTitle, Contract!Next

(* Each step of the system is a step of the contract or leaves the table   *)
(* and the clock alone.                                                    *)
LEMMA ContractStep ==
  TypeOK /\ EntriesOK /\ SnapshotFresh /\ [Next]_vars => [Contract!Next]_<<rows, clock>>
<1> SUFFICES ASSUME TypeOK, EntriesOK, SnapshotFresh, [Next]_vars
             PROVE  [Contract!Next]_<<rows, clock>>
  OBVIOUS
<1>1. CASE UNCHANGED <<rows, clock>>
  BY <1>1
<1>2. CASE Tick
  BY <1>2 DEF Tick, Contract!Tick, Contract!Next
<1>3. ASSUME NEW w \in Workers, UnlockTitle(w) \/ RequalifyEntry(w)
      PROVE  [Contract!Next]_<<rows, clock>>
  BY <1>3, ContractInsert DEF UnlockTitle, RequalifyEntry
<1>4. ASSUME NEW w \in Workers, wk[w].pc \in {"apply", "commit"}
      PROVE  /\ wk[w].entry.row \in Contract!Row
             /\ Contract!TitleOf(wk[w].entry.row) \in Revocable
             /\ wk[w].now \in 0..clock
  <2>1. wk[w] \in Worker /\ wk[w].entry \in Entry
    BY <1>4 DEF TypeOK, EntriesOK, Worker
  <2> QED BY <1>4, <2>1 DEF EntriesOK, Entry, Worker, SnapshotFresh, TypeOK,
               Contract!Row, Row, Contract!TitleOf, TitleOf
<1>5. ASSUME NEW w \in Workers, EnterGracePeriod(w)
      PROVE  [Contract!Next]_<<rows, clock>>
  <2> DEFINE r == wk[w].entry.row
  <2>1. \/ UNCHANGED rows
        \/ /\ rows[r].status = "active"
           /\ rows' = [rows EXCEPT ![r] = [status |-> "grace_period",
                                           ends |-> wk[w].now + Grace]]
    BY <1>5 DEF EnterGracePeriod, UpdateFrom, GraceEnd
  <2>2. UNCHANGED clock /\ wk[w].pc = "apply"
    BY <1>5 DEF EnterGracePeriod, Applying
  <2>3. \/ UNCHANGED rows
        \/ Contract!EnterGrace(r)
    BY <1>4, <2>1, <2>2 DEF Contract!EnterGrace
  <2> QED BY <1>4, <2>2, <2>3 DEF Contract!Next
<1>6. ASSUME NEW w \in Workers, RestoreGracePeriodTitle(w)
      PROVE  [Contract!Next]_<<rows, clock>>
  BY <1>4, <1>6 DEF RestoreGracePeriodTitle, Applying, UpdateFrom, Earned,
       Contract!Next, Contract!Restore, Contract!Earned
<1>7. ASSUME NEW w \in Workers, CommitRevoke(w)
      PROVE  [Contract!Next]_<<rows, clock>>
  <2>1. rows[wk[w].entry.row].status = "grace_period"
        /\ rows[wk[w].entry.row].ends <= clock
    BY <1>7, FreshIsDue DEF RevocationIsDue, CommitRevoke, InTx
  <2> QED BY <1>4, <1>7, <2>1 DEF CommitRevoke, Contract!Next, Contract!Revoke
<1> QED
  BY <1>1, <1>2, <1>3, <1>5, <1>6, <1>7
  DEF Next, FaultlessNext, WorkerStep, ClientStep, MetricsChange, BeginUser,
      Qualify, EndUnlock, GetUserTitles, ReadClock, QualifyEntry, KeepActive,
      KeepGracePeriod, RevokeRow, ClearRevokedPrimary, EndUser, StatementFails, Crash,
      FinishSetPrimary, BeginSetPrimary, ClearPrimaryTitle, vars

LEMMA FreshInvariant == SingleWorker => (Spec => [](TypeOK /\ EntriesOK /\ SnapshotFresh))
<1> SUFFICES ASSUME SingleWorker
             PROVE  Spec => [](TypeOK /\ EntriesOK /\ SnapshotFresh)
  OBVIOUS
<1>1. Init => EntriesOK /\ SnapshotFresh
  BY DEF Init, EntriesOK, SnapshotFresh, InTx, IdleWorker
<1>2. TypeOK /\ EntriesOK /\ SnapshotFresh /\ [Next]_vars => EntriesOK' /\ SnapshotFresh'
  BY EntriesNext, FreshNext
<1> QED BY <1>1, <1>2, TypeCorrect, PTL DEF Spec

(* With one worker, a row that is being revoked is in its grace period and *)
(* the period is over, although the revoking UPDATE does not ask.          *)
THEOREM RevocationsAreDue == SingleWorker => (Spec => []RevocationIsDue)
<1> SUFFICES ASSUME SingleWorker
             PROVE  Spec => []RevocationIsDue
  OBVIOUS
<1> QED BY FreshInvariant, FreshIsDue, PTL

(* With one worker, statements, transactions, failures and crashes add up  *)
(* to the promised life cycle: TitleLifecycle implements TitleContract.    *)
THEOREM ImplementsContract == SingleWorker => (Spec => KeepsContract)
<1> SUFFICES ASSUME SingleWorker
             PROVE  Spec => KeepsContract
  OBVIOUS
<1>1. Init => Contract!Init
  BY DEF Init, Contract!Init, Contract!Row, Row, Contract!Unused, Unused
<1> QED
  BY <1>1, FreshInvariant, ContractStep, PTL
  DEF Spec, KeepsContract, Contract!Spec, Contract!contractVars

------------------------------------------------------------------------------
(* The displayed title is held, when choosing and revoking do not overlap  *)

(* No two transactions hold one row, the transaction at its COMMIT knows   *)
(* whether the primary title is the row it revokes (it holds the users row *)
(* when it is), and a pending SetPrimaryTitle is still eligible.           *)
PendingEligible ==
  \A c \in Clients : req[c].busy =>
    req[c].user \in Users /\ req[c].row \in Row /\ Eligible(req[c].user, req[c].row)

PrimaryInv ==
  /\ PrimaryIsHeld
  /\ \A v, w \in Workers :
       InTx(v) /\ InTx(w) /\ wk[v].entry.row = wk[w].entry.row => v = w
  /\ \A w \in Workers :
       wk[w].pc = "commit" /\ primary[wk[w].user] = wk[w].entry.row => wk[w].cleared
  /\ PendingEligible

(* A change of the table that keeps every live row live.                   *)
LEMMA RowsStayLive ==
  ASSUME TypeOK, PrimaryInv, UNCHANGED <<primary, req>>,
         \A r \in Row : Live(r) => rows'[r].status \in LiveStatus,
         \A v \in Workers : wk'[v].pc \in {"clear_primary", "commit"} => wk'[v] = wk[v]
  PROVE  PrimaryInv'
<1>1. PrimaryIsHeld'
  BY DEF PrimaryInv, PrimaryIsHeld, Live, TypeOK
<1>2. PendingEligible'
  BY DEF PrimaryInv, PendingEligible, Eligible, Live
<1>3. \A v, w \in Workers :
        InTx(v)' /\ InTx(w)' /\ wk'[v].entry.row = wk'[w].entry.row => v = w
  <2> SUFFICES ASSUME NEW v \in Workers, NEW w \in Workers, InTx(v)', InTx(w)',
                      wk'[v].entry.row = wk'[w].entry.row
               PROVE  v = w
    OBVIOUS
  <2>1. wk'[v] = wk[v] /\ wk'[w] = wk[w]
    BY DEF InTx
  <2>2. InTx(v) /\ InTx(w)
    BY <2>1 DEF InTx
  <2> QED BY <2>1, <2>2 DEF PrimaryInv
<1>4. \A w \in Workers :
        wk'[w].pc = "commit" /\ primary'[wk'[w].user] = wk'[w].entry.row => wk'[w].cleared
  <2> SUFFICES ASSUME NEW w \in Workers, wk'[w].pc = "commit",
                      primary'[wk'[w].user] = wk'[w].entry.row
               PROVE  wk'[w].cleared
    OBVIOUS
  <2>1. wk'[w] = wk[w]
    OBVIOUS
  <2> QED BY <2>1 DEF PrimaryInv
<1> QED BY <1>1, <1>2, <1>3, <1>4 DEF PrimaryInv

(* The row a transaction revokes belongs to the user the worker is at.     *)
LEMMA TxRow ==
  ASSUME TypeOK, EntriesOK, NEW w \in Workers, InTx(w)
  PROVE  /\ wk[w] \in Worker
         /\ wk[w].entry.row \in Row
         /\ OwnerOf(wk[w].entry.row) = wk[w].user
<1>1. wk[w] \in Worker /\ wk[w].entry \in wk[w].entries
  BY DEF TypeOK, EntriesOK, InTx
<1> QED BY <1>1 DEF Worker, Entry, EntriesOK

LEMMA PrimaryRevokeRow ==
  ASSUME TypeOK, EntriesOK, PrimaryInv, NEW w \in Workers, RevokeRow(w)
  PROVE  PrimaryInv'
<1>1. \A v \in Workers : v # w => wk'[v] = wk[v]
  BY DEF RevokeRow, Goto, TypeOK
<1>2. wk'[w].pc = "clear_primary" /\ wk'[w].entry = wk[w].entry
  BY DEF RevokeRow, Goto, TypeOK, Worker
<1>3. PrimaryIsHeld' /\ PendingEligible'
  BY DEF RevokeRow, PrimaryInv, PrimaryIsHeld, PendingEligible, Eligible, Live
<1>4. \A v \in Workers : InTx(v) => wk[v].entry.row # wk[w].entry.row
  BY DEF RevokeRow, RowLocked
<1>5. \A v \in Workers : v # w /\ InTx(v)' => InTx(v)
  BY <1>1 DEF InTx
<1>6. ASSUME NEW v \in Workers, NEW x \in Workers, InTx(v)', InTx(x)',
             wk'[v].entry.row = wk'[x].entry.row
      PROVE  v = x
  <2>1. CASE v # w /\ x # w
    BY <1>1, <1>5, <1>6, <2>1 DEF PrimaryInv
  <2>2. CASE v = w \/ x = w
    BY <1>1, <1>2, <1>4, <1>5, <1>6, <2>2
  <2> QED BY <2>1, <2>2
<1>7. ASSUME NEW v \in Workers, wk'[v].pc = "commit", primary'[wk'[v].user] = wk'[v].entry.row
      PROVE  wk'[v].cleared
  <2>1. v # w /\ UNCHANGED primary
    BY <1>2, <1>7 DEF RevokeRow
  <2> QED BY <1>1, <1>7, <2>1 DEF PrimaryInv
<1> QED BY <1>3, <1>6, <1>7 DEF PrimaryInv

LEMMA PrimaryClear ==
  ASSUME TypeOK, EntriesOK, PrimaryInv, NEW w \in Workers, ClearRevokedPrimary(w)
  PROVE  PrimaryInv'
<1>1. \A v \in Workers : v # w => wk'[v] = wk[v]
  BY DEF ClearRevokedPrimary, Goto, TypeOK
<1>2. /\ wk'[w].entry = wk[w].entry /\ wk'[w].user = wk[w].user
      /\ wk'[w].cleared = PrimaryIsRevoked(w) /\ InTx(w)
  BY DEF ClearRevokedPrimary, Goto, TypeOK, Worker, InTx
<1>3. PrimaryIsHeld' /\ PendingEligible'
  BY DEF ClearRevokedPrimary, PrimaryInv, PrimaryIsHeld, PendingEligible, Eligible, Live
<1>4. \A v \in Workers : InTx(v)' => InTx(v) /\ wk'[v].entry = wk[v].entry
  BY <1>1, <1>2 DEF InTx
<1>5. ASSUME NEW v \in Workers, NEW x \in Workers, InTx(v)', InTx(x)',
             wk'[v].entry.row = wk'[x].entry.row
      PROVE  v = x
  BY <1>4, <1>5 DEF PrimaryInv
<1>6. ASSUME NEW v \in Workers, wk'[v].pc = "commit", primary'[wk'[v].user] = wk'[v].entry.row
      PROVE  wk'[v].cleared
  <2>1. CASE v = w
    BY <1>2, <1>6, <2>1 DEF ClearRevokedPrimary, PrimaryIsRevoked
  <2>2. CASE v # w
    BY <1>1, <1>6, <2>2 DEF ClearRevokedPrimary, PrimaryInv
  <2> QED BY <2>1, <2>2
<1> QED BY <1>3, <1>5, <1>6 DEF PrimaryInv

LEMMA PrimaryCommit ==
  ASSUME TypeOK, EntriesOK, PrimaryInv, NoOverlap, NEW w \in Workers, CommitRevoke(w)
  PROVE  PrimaryInv'
<1> DEFINE r == wk[w].entry.row
           u == wk[w].user
<1>0. InTx(w) /\ wk[w] \in Worker /\ r \in Row /\ OwnerOf(r) = u
  BY TxRow DEF CommitRevoke, InTx
<1>1. (\A v \in Workers : v # w => wk'[v] = wk[v]) /\ wk'[w].pc = "entries"
  BY <1>0 DEF CommitRevoke, NextEntry, Goto, TypeOK, Worker
<1>2. \A s \in Row : s # r => rows'[s] = rows[s]
  BY DEF CommitRevoke, TypeOK
<1>3. \A x \in Users : primary'[x] = IF x = u /\ wk[w].cleared THEN None ELSE primary[x]
  BY DEF CommitRevoke, TypeOK
<1>4. PrimaryIsHeld'
  <2> SUFFICES ASSUME NEW x \in Users, primary'[x] # None
               PROVE  OwnerOf(primary'[x]) = x /\ rows'[primary'[x]].status \in LiveStatus
    BY DEF PrimaryIsHeld, Live
  <2>1. primary'[x] = primary[x] /\ primary[x] \in Row
    BY <1>3 DEF TypeOK
  <2>2. OwnerOf(primary[x]) = x /\ Live(primary[x])
    BY <2>1 DEF PrimaryInv, PrimaryIsHeld
  <2>3. primary[x] # r
    <3> SUFFICES ASSUME primary[x] = r
                 PROVE  FALSE
      OBVIOUS
    <3>1. x = u
      BY <1>0, <2>2
    <3>2. wk[w].cleared
      BY <3>1 DEF PrimaryInv, CommitRevoke
    <3> QED BY <1>3, <2>1, <3>1, <3>2
  <2> QED BY <1>2, <2>1, <2>2, <2>3 DEF Live
<1>5. PendingEligible'
  <2> SUFFICES ASSUME NEW c \in Clients, req[c].busy
               PROVE  req[c].user \in Users /\ req[c].row \in Row
                      /\ OwnerOf(req[c].row) = req[c].user
                      /\ rows'[req[c].row].status \in LiveStatus
    BY DEF PendingEligible, Eligible, Live, CommitRevoke
  <2>1. req[c].row # r
    BY <1>0 DEF NoOverlap
  <2> QED BY <1>2, <2>1 DEF PrimaryInv, PendingEligible, Eligible, Live
<1>6. \A v \in Workers : InTx(v)' => v # w /\ InTx(v)
  BY <1>1 DEF InTx
<1>7. ASSUME NEW v \in Workers, NEW x \in Workers, InTx(v)', InTx(x)',
             wk'[v].entry.row = wk'[x].entry.row
      PROVE  v = x
  BY <1>1, <1>6, <1>7 DEF PrimaryInv
<1>8. ASSUME NEW v \in Workers, wk'[v].pc = "commit", primary'[wk'[v].user] = wk'[v].entry.row
      PROVE  wk'[v].cleared
  <2>1. v # w /\ wk'[v] = wk[v] /\ InTx(v)
    BY <1>1, <1>8 DEF InTx
  <2>2. wk[v].entry.row \in Row /\ wk[v].user \in Users
    BY <2>1, TxRow DEF Row, OwnerOf
  <2>3. primary'[wk[v].user] = primary[wk[v].user]
    BY <1>3, <1>8, <2>1, <2>2, NoneAssumption
  <2> QED BY <1>8, <2>1, <2>3 DEF PrimaryInv
<1> QED BY <1>4, <1>5, <1>7, <1>8 DEF PrimaryInv

(* A step of a worker that leaves it outside the transaction.              *)
LEMMA PrimaryOutside ==
  ASSUME TypeOK, PrimaryInv, NEW w \in Workers, NEW local, Goto(w, local),
         local.pc \notin {"clear_primary", "commit"}, UNCHANGED <<primary, req>>,
         \A r \in Row : Live(r) => rows'[r].status \in LiveStatus
  PROVE  PrimaryInv'
<1>1. wk' = [wk EXCEPT ![w] = local]
  BY DEF Goto
<1>2. \A v \in Workers : wk'[v] = IF v = w THEN local ELSE wk[v]
  BY <1>1 DEF TypeOK
<1>3. \A v \in Workers : wk'[v].pc \in {"clear_primary", "commit"} => wk'[v] = wk[v]
  BY <1>2
<1> QED BY <1>3, RowsStayLive

LEMMA PrimaryNextEntry ==
  ASSUME TypeOK, PrimaryInv, NEW w \in Workers, NEW e, NextEntry(w, e),
         UNCHANGED <<primary, req>>,
         \A r \in Row : Live(r) => rows'[r].status \in LiveStatus
  PROVE  PrimaryInv'
<1> DEFINE local == [wk[w] EXCEPT !.pc = "entries", !.entries = @ \ {e}, !.entry = None,
                                  !.qualified = FALSE, !.cleared = FALSE]
<1>1. wk[w] \in Worker
  BY DEF TypeOK
<1>2. local.pc = "entries"
  BY <1>1 DEF Worker
<1>3. Goto(w, local)
  BY DEF NextEntry
<1> HIDE DEF local
<1> QED BY <1>2, <1>3, PrimaryOutside

LEMMA InsertKeepsLive ==
  ASSUME TypeOK, NEW u, NEW t, CreateUserTitle(u, t), NEW r \in Row, Live(r)
  PROVE  rows'[r].status \in LiveStatus
<1>1. CASE UNCHANGED rows
  BY <1>1 DEF Live
<1>2. CASE \E s \in RowsOf(u, t) : rows[s].status = "none" /\ rows' = [rows EXCEPT ![s] = Earned]
  BY <1>2 DEF Live, LiveStatus, TypeOK, RowsOf
<1> QED BY <1>1, <1>2 DEF CreateUserTitle

LEMMA UpdateKeepsLive ==
  ASSUME TypeOK, NEW s, NEW expected, NEW new, UpdateFrom(s, expected, new),
         new.status \in LiveStatus, NEW r \in Row, Live(r)
  PROVE  rows'[r].status \in LiveStatus
BY DEF UpdateFrom, Live, TypeOK

LEMMA PrimaryWorkerStep ==
  ASSUME TypeOK, EntriesOK, PrimaryInv, NoOverlap, NEW w \in Workers, WorkerStep(w)
  PROVE  PrimaryInv'
<1>0. wk[w] \in Worker
  BY DEF TypeOK
<1>1. ASSUME UNCHANGED rows
      PROVE  \A r \in Row : Live(r) => rows'[r].status \in LiveStatus
  BY <1>1 DEF Live
<1>2. ASSUME NEW t \in Titles, Qualify(w, t)
      PROVE  PrimaryInv'
  <2> DEFINE a == [wk[w] EXCEPT !.pc = "create", !.title = t]
             b == [wk[w] EXCEPT !.todo = @ \ {t}]
  <2>1. a.pc = "create" /\ b.pc = "unlock"
    BY <1>0, <1>2 DEF Worker, Qualify
  <2>2. Goto(w, a) \/ Goto(w, b)
    BY <1>2 DEF Qualify
  <2> HIDE DEF a, b
  <2> QED BY <1>1, <1>2, <2>1, <2>2, PrimaryOutside DEF Qualify
<1>3. CASE UnlockTitle(w)
  <2> DEFINE a == [wk[w] EXCEPT !.pc = "unlock", !.todo = @ \ {wk[w].title}, !.title = None]
  <2>1. a.pc = "unlock"
    BY <1>0 DEF Worker
  <2>2. Goto(w, a)
    BY <1>3 DEF UnlockTitle
  <2>3. \A r \in Row : Live(r) => rows'[r].status \in LiveStatus
    BY <1>3, InsertKeepsLive DEF UnlockTitle
  <2> HIDE DEF a
  <2> QED BY <1>3, <2>1, <2>2, <2>3, PrimaryOutside DEF UnlockTitle
<1>4. CASE EndUnlock(w)
  <2> DEFINE a == [wk[w] EXCEPT !.pc = "snapshot"]
  <2>1. a.pc = "snapshot" /\ Goto(w, a)
    BY <1>0, <1>4 DEF Worker, EndUnlock
  <2> HIDE DEF a
  <2> QED BY <1>1, <1>4, <2>1, PrimaryOutside DEF EndUnlock
<1>5. CASE GetUserTitles(w)
  <2> DEFINE got == {[row |-> r, status |-> rows[r].status, ends |-> rows[r].ends] :
                       r \in {q \in Row : OwnerOf(q) = wk[w].user /\ Live(q) /\ Reconciled(q)}}
             a == [wk[w] EXCEPT !.pc = "clock", !.entries = got]
  <2>1. Goto(w, a)
    BY <1>5 DEF GetUserTitles
  <2> HIDE DEF got
  <2>2. a.pc = "clock"
    BY <1>0 DEF Worker
  <2> HIDE DEF a
  <2> QED BY <1>1, <1>5, <2>1, <2>2, PrimaryOutside DEF GetUserTitles
<1>6. CASE ReadClock(w)
  <2> DEFINE a == [wk[w] EXCEPT !.pc = "entries", !.now = clock]
  <2>1. a.pc = "entries" /\ Goto(w, a)
    BY <1>0, <1>6 DEF Worker, ReadClock
  <2> HIDE DEF a
  <2> QED BY <1>1, <1>6, <2>1, PrimaryOutside DEF ReadClock
<1>7. ASSUME NEW e \in wk[w].entries, QualifyEntry(w, e)
      PROVE  PrimaryInv'
  <2> DEFINE q == <<wk[w].user, TitleOf(e.row)>> \in qualifies
             a == [wk[w] EXCEPT !.pc = IF q THEN "requalify" ELSE "apply",
                                !.entry = e, !.qualified = q]
  <2>1. Goto(w, a)
    BY <1>7 DEF QualifyEntry
  <2>2. a.pc \in {"requalify", "apply"}
    BY <1>0 DEF Worker
  <2> HIDE DEF a
  <2> QED BY <1>1, <1>7, <2>1, <2>2, PrimaryOutside DEF QualifyEntry
<1>8. CASE RequalifyEntry(w)
  <2> DEFINE a == [wk[w] EXCEPT !.pc = "apply"]
  <2>1. a.pc = "apply" /\ Goto(w, a)
    BY <1>0, <1>8 DEF Worker, RequalifyEntry
  <2>2. \A r \in Row : Live(r) => rows'[r].status \in LiveStatus
    BY <1>8, InsertKeepsLive DEF RequalifyEntry
  <2> HIDE DEF a
  <2> QED BY <1>8, <2>1, <2>2, PrimaryOutside DEF RequalifyEntry
<1>9. CASE KeepActive(w) \/ KeepGracePeriod(w)
  BY <1>1, <1>9, PrimaryNextEntry DEF KeepActive, KeepGracePeriod
<1>10. CASE EnterGracePeriod(w)
  <2>1. \A r \in Row : Live(r) => rows'[r].status \in LiveStatus
    BY <1>10, UpdateKeepsLive DEF EnterGracePeriod, LiveStatus
  <2> QED BY <1>10, <2>1, PrimaryNextEntry DEF EnterGracePeriod
<1>11. CASE RestoreGracePeriodTitle(w)
  <2>1. \A r \in Row : Live(r) => rows'[r].status \in LiveStatus
    BY <1>11, UpdateKeepsLive DEF RestoreGracePeriodTitle, LiveStatus, Earned
  <2> QED BY <1>11, <2>1, PrimaryNextEntry DEF RestoreGracePeriodTitle
<1>12. CASE RevokeRow(w)
  BY <1>12, PrimaryRevokeRow
<1>13. CASE ClearRevokedPrimary(w)
  BY <1>13, PrimaryClear
<1>14. CASE CommitRevoke(w)
  BY <1>14, PrimaryCommit
<1>15. CASE EndUser(w)
  <2>1. IdleWorker.pc = "idle"
    BY DEF IdleWorker
  <2> QED BY <1>1, <1>15, <2>1, PrimaryOutside DEF EndUser
<1> QED
  BY <1>2, <1>3, <1>4, <1>5, <1>6, <1>7, <1>8, <1>9, <1>10, <1>11, <1>12, <1>13,
     <1>14, <1>15
  DEF WorkerStep

LEMMA PrimaryFails ==
  ASSUME TypeOK, PrimaryInv, NEW w \in Workers, StatementFails(w) \/ Crash(w)
  PROVE  PrimaryInv'
<1>0. wk[w] \in Worker
  BY DEF TypeOK
<1>1. UNCHANGED <<rows, primary, req>>
  BY DEF StatementFails, Crash
<1>2. \A r \in Row : Live(r) => rows'[r].status \in LiveStatus
  BY <1>1 DEF Live
<1>3. ASSUME NEW e, NextEntry(w, e)
      PROVE  PrimaryInv'
  BY <1>1, <1>2, <1>3, PrimaryNextEntry
<1>4. CASE Goto(w, IdleWorker)
  <2>1. IdleWorker.pc = "idle"
    BY DEF IdleWorker
  <2> QED BY <1>1, <1>2, <1>4, <2>1, PrimaryOutside
<1>5. ASSUME NEW t, wk[w].pc = "unlock", Goto(w, [wk[w] EXCEPT !.todo = @ \ {t}])
      PROVE  PrimaryInv'
  <2> DEFINE a == [wk[w] EXCEPT !.todo = @ \ {t}]
  <2>1. a.pc = "unlock" /\ Goto(w, a)
    BY <1>0, <1>5 DEF Worker
  <2> HIDE DEF a
  <2> QED BY <1>1, <1>2, <2>1, PrimaryOutside
<1>6. CASE wk[w].pc = "create" /\ StatementFails(w)
  <2> DEFINE a == [wk[w] EXCEPT !.pc = "unlock", !.todo = @ \ {wk[w].title}, !.title = None]
  <2>1. a.pc = "unlock" /\ Goto(w, a)
    BY <1>0, <1>6 DEF Worker, StatementFails
  <2> HIDE DEF a
  <2> QED BY <1>1, <1>2, <2>1, PrimaryOutside
<1> QED BY <1>3, <1>4, <1>5, <1>6 DEF StatementFails, Crash

LEMMA PrimaryClient ==
  ASSUME TypeOK, EntriesOK, PrimaryInv, NoOverlap, ClientStep
  PROVE  PrimaryInv'
<1>1. UNCHANGED <<rows, wk>>
  BY DEF ClientStep, BeginSetPrimary, FinishSetPrimary, ClearPrimaryTitle
<1>2. \A v, w \in Workers :
        InTx(v)' /\ InTx(w)' /\ wk'[v].entry.row = wk'[w].entry.row => v = w
  BY <1>1 DEF PrimaryInv, InTx
<1>3. \A w \in Workers : wk[w].pc = "commit" =>
        /\ InTx(w) /\ wk[w].entry.row \in Row /\ wk[w].user \in Users
        /\ wk[w].entry.row # None
  BY TxRow, NoneAssumption DEF InTx, Row, OwnerOf
<1>4. ASSUME NEW c \in Clients, NEW u \in Users, NEW r \in Row, BeginSetPrimary(c, u, r)
      PROVE  PrimaryInv'
  <2>1. PendingEligible'
    BY <1>4 DEF BeginSetPrimary, PrimaryInv, PendingEligible, Eligible, Live, TypeOK
  <2>2. PrimaryIsHeld'
    BY <1>4 DEF BeginSetPrimary, PrimaryInv, PrimaryIsHeld, Live
  <2>3. UNCHANGED primary
    BY <1>4 DEF BeginSetPrimary
  <2> QED BY <1>1, <1>2, <2>1, <2>2, <2>3 DEF PrimaryInv
<1>5. ASSUME NEW c \in Clients, FinishSetPrimary(c)
      PROVE  PrimaryInv'
  <2> DEFINE u == req[c].user
             r == req[c].row
  <2>1. u \in Users /\ r \in Row /\ OwnerOf(r) = u /\ Live(r)
    BY <1>5 DEF FinishSetPrimary, PrimaryInv, PendingEligible, Eligible
  <2>2. \A x \in Users : primary'[x] = IF x = u THEN r ELSE primary[x]
    BY <1>5 DEF FinishSetPrimary, TypeOK
  <2>3. PrimaryIsHeld'
    BY <1>1, <2>1, <2>2 DEF PrimaryInv, PrimaryIsHeld, Live
  <2>4. PendingEligible'
    BY <1>5 DEF FinishSetPrimary, PrimaryInv, PendingEligible, Eligible, Live, TypeOK,
                NoRequest
  <2>5. \A w \in Workers :
          wk'[w].pc = "commit" /\ primary'[wk'[w].user] = wk'[w].entry.row => wk'[w].cleared
    BY <1>1, <1>3, <1>5, <2>2 DEF NoOverlap, FinishSetPrimary, PrimaryInv
  <2> QED BY <1>2, <2>3, <2>4, <2>5 DEF PrimaryInv
<1>6. ASSUME NEW u \in Users, ClearPrimaryTitle(u)
      PROVE  PrimaryInv'
  <2>1. \A x \in Users : primary'[x] = IF x = u THEN None ELSE primary[x]
    BY <1>6 DEF ClearPrimaryTitle, TypeOK
  <2>2. PrimaryIsHeld'
    BY <1>1, <2>1 DEF PrimaryInv, PrimaryIsHeld, Live
  <2>3. PendingEligible'
    BY <1>6 DEF ClearPrimaryTitle, PrimaryInv, PendingEligible, Eligible, Live
  <2>4. \A w \in Workers :
          wk'[w].pc = "commit" /\ primary'[wk'[w].user] = wk'[w].entry.row => wk'[w].cleared
    BY <1>1, <1>3, <2>1 DEF PrimaryInv
  <2> QED BY <1>2, <2>2, <2>3, <2>4 DEF PrimaryInv
<1> QED BY <1>4, <1>5, <1>6 DEF ClientStep

LEMMA PrimaryNext ==
  TypeOK /\ EntriesOK /\ PrimaryInv /\ NoOverlap /\ [Next]_vars => PrimaryInv'
<1> SUFFICES ASSUME TypeOK, EntriesOK, PrimaryInv, NoOverlap, [Next]_vars
             PROVE  PrimaryInv'
  OBVIOUS
<1>1. ASSUME UNCHANGED <<rows, primary, wk, req>>
      PROVE  PrimaryInv'
  <2>1. \A r \in Row : Live(r) => rows'[r].status \in LiveStatus
    BY <1>1 DEF Live
  <2> QED BY <1>1, <2>1, RowsStayLive
<1>2. ASSUME NEW w \in Workers, NEW u \in Users, BeginUser(w, u)
      PROVE  PrimaryInv'
  <2> DEFINE a == [IdleWorker EXCEPT !.pc = "unlock", !.user = u, !.todo = Titles]
  <2>1. a.pc = "unlock" /\ Goto(w, a)
    BY <1>2 DEF BeginUser, IdleWorker
  <2>2. \A r \in Row : Live(r) => rows'[r].status \in LiveStatus
    BY <1>2 DEF BeginUser, Live
  <2> HIDE DEF a
  <2> QED BY <1>2, <2>1, <2>2, PrimaryOutside DEF BeginUser
<1> QED
  BY <1>1, <1>2, PrimaryWorkerStep, PrimaryFails, PrimaryClient
  DEF Next, FaultlessNext, Tick, MetricsChange, vars

(* A primary title is one the user holds, for any number of workers, as    *)
(* long as no SetPrimaryTitle of a row is in flight while that row is      *)
(* revoked.  The statement needs no other help: SELECTs, failures, crashes *)
(* and other users' requests may fall anywhere.                            *)
THEOREM HeldWhenSerial == Spec => HeldUnlessOverlap
<1>1. Init => EntriesOK /\ PrimaryInv
  BY DEF Init, EntriesOK, PrimaryInv, PrimaryIsHeld, PendingEligible, InTx, IdleWorker,
         NoRequest
<1>2. TypeOK /\ EntriesOK /\ PrimaryInv /\ NoOverlap /\ [Next]_vars
        => TypeOK' /\ EntriesOK' /\ PrimaryInv'
  BY TypeNext, EntriesNext, PrimaryNext
<1>3. PrimaryInv => PrimaryIsHeld
  BY DEF PrimaryInv
<1> QED BY <1>1, <1>2, <1>3, TypeInit, PTL DEF Spec, HeldUnlessOverlap
==============================================================================
