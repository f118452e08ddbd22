---------------------- MODULE TitleNotificationsProofs ----------------------
(***************************************************************************)
(* Proofs about TitleNotifications, for any number of users, titles and    *)
(* workers and any batch size.                                             *)
(***************************************************************************)
EXTENDS TitleNotifications, TLAPS

LEMMA OwnerIsUser == ASSUME NEW r \in Row PROVE OwnerOf(r) \in Users
BY DEF Row, OwnerOf

LEMMA SameRows == Table!Row = Row /\ Table!Unused = Unused /\ Table!Earned = Earned
BY DEF Table!Row, Row, Table!Unused, Unused, Table!Earned, Earned

------------------------------------------------------------------------------
(* The inductive invariant                                                 *)

(* A worker about to mark a row has just seen its notification in place:   *)
(* what SentIsPublished will need of the mark.                             *)
MarkFollowsPublish ==
  \A w \in Workers : wk[w].pc = "mark" =>
    /\ wk[w].row \in Row
    /\ inbox[wk[w].event][OwnerOf(wk[w].row)] > 0

(* Why a worker may publish about a row of its batch, stale as the batch   *)
(* may be: the status it was fetched with is past, its history is not.     *)
Cause(ev, r) ==
  /\ r \in Row
  /\ ev = "title_unlocked" => rows[r].status # "none"
  /\ ev = "title_grace_period" => r \in lapsed

BatchHasCause == \A w \in Workers : \A r \in wk[w].batch : Cause(wk[w].event, r)
LapsedIsKnown == \A r \in Row : rows[r].status = "grace_period" => r \in lapsed
InboxHasCause ==
  \A u \in Users, ev \in Event :
    inbox[ev][u] > 0 => \E r \in Row : OwnerOf(r) = u /\ Cause(ev, r)

IInv ==
  /\ TypeOK
  /\ SentIsPublished
  /\ NoDuplicateRow
  /\ MarkFollowsPublish
  /\ BatchHasCause
  /\ LapsedIsKnown
  /\ InboxHasCause

LEMMA CauseIsNotice == InboxHasCause => NoticeHasCause
BY DEF InboxHasCause, NoticeHasCause, Cause, Event

LEMMA IdleTyped == IdleWorker \in Worker
BY DEF IdleWorker, Worker, Event

LEMMA IInvInit == Init => IInv
<1> SUFFICES ASSUME Init PROVE IInv
  OBVIOUS
<1>1. TypeOK
  BY IdleTyped, SameRows DEF Init, Table!Init, TypeOK, Unused, RowState
<1>2. SentIsPublished /\ NoDuplicateRow /\ InboxHasCause
  BY DEF Init, SentIsPublished, NoDuplicateRow, InboxHasCause
<1>3. MarkFollowsPublish /\ BatchHasCause
  BY DEF Init, MarkFollowsPublish, BatchHasCause, IdleWorker
<1>4. LapsedIsKnown
  BY SameRows DEF Init, Table!Init, Unused, LapsedIsKnown
<1> QED BY <1>1, <1>2, <1>3, <1>4 DEF IInv

------------------------------------------------------------------------------
(* The table moves under the workers                                       *)

LEMMA TableMoves ==
  ASSUME TypeOK, Table!Next
  PROVE  /\ rows' \in [Row -> RowState]
         /\ clock' \in Nat
         /\ \A r \in Row : rows[r].status # "none" => rows'[r].status # "none"
<1> DEFINE Kept == /\ rows' \in [Row -> RowState]
                   /\ clock' \in Nat
                   /\ \A r \in Row : rows[r].status # "none" => rows'[r].status # "none"
<1> USE DEF TypeOK, RowState, LiveStatus
<1>1. Table!Tick => Kept
  BY BoundsAssumption DEF Table!Tick
<1>2. ASSUME NEW r \in Row, Table!Unlock(r) PROVE Kept
  BY <1>2 DEF Table!Unlock, Table!Earned
<1>3. ASSUME NEW r \in Row, Table!EnterGrace(r) PROVE Kept
  <2>1. PICK seen \in 0..clock :
          rows' = [rows EXCEPT ![r] = [status |-> "grace_period", ends |-> seen + Grace]]
    BY <1>3 DEF Table!EnterGrace
  <2>2. seen + Grace \in Nat
    BY GraceAssumption
  <2> QED BY <1>3, <2>1, <2>2 DEF Table!EnterGrace
<1>4. ASSUME NEW r \in Row, Table!Restore(r) PROVE Kept
  BY <1>4 DEF Table!Restore, Table!Earned
<1>5. ASSUME NEW r \in Row, Table!Revoke(r) PROVE Kept
  BY <1>5 DEF Table!Revoke
<1> QED BY <1>1, <1>2, <1>3, <1>4, <1>5, SameRows DEF Table!Next

LEMMA IInvTableStep == IInv /\ TableStep => IInv'
<1> SUFFICES ASSUME IInv, TableStep PROVE IInv'
  OBVIOUS
<1>0. /\ rows' \in [Row -> RowState]
      /\ clock' \in Nat
      /\ \A r \in Row : rows[r].status # "none" => rows'[r].status # "none"
      /\ UNCHANGED <<sent, inbox, wk>>
      /\ lapsed \subseteq lapsed'
  BY TableMoves DEF TableStep, IInv
<1>1. TypeOK'
  BY <1>0 DEF TypeOK, TableStep, IInv
<1>2. SentIsPublished' /\ NoDuplicateRow' /\ MarkFollowsPublish'
  BY <1>0 DEF IInv, SentIsPublished, NoDuplicateRow, MarkFollowsPublish
<1>3. \A ev, r : Cause(ev, r) => Cause(ev, r)'
  BY <1>0 DEF Cause
<1>4. BatchHasCause' /\ InboxHasCause'
  BY <1>0, <1>3 DEF IInv, BatchHasCause, InboxHasCause
<1>5. LapsedIsKnown'
  BY <1>0 DEF TableStep, LapsedIsKnown
<1> QED BY <1>1, <1>2, <1>4, <1>5 DEF IInv

------------------------------------------------------------------------------
(* A worker's step                                                         *)

(* A step that only moves the worker to a well-formed local state whose    *)
(* batch, if any, it already has reasons for.                              *)
LEMMA LocalStep ==
  ASSUME IInv, NEW w \in Workers, NEW local \in Worker, Goto(w, local),
         UNCHANGED <<rows, clock, unlockedAt, sent, inbox, lapsed>>,
         local.pc # "mark",
         \A r \in local.batch : Cause(local.event, r)
  PROVE  IInv'
<1>1. /\ wk' = [wk EXCEPT ![w] = local]
      /\ wk \in [Workers -> Worker]
  BY DEF Goto, IInv, TypeOK
<1>2. TypeOK'
  BY <1>1 DEF TypeOK, IInv
<1>3. SentIsPublished' /\ NoDuplicateRow' /\ LapsedIsKnown'
  BY DEF IInv, SentIsPublished, NoDuplicateRow, LapsedIsKnown
<1>4. MarkFollowsPublish'
  BY <1>1 DEF IInv, MarkFollowsPublish
<1>5. \A ev, r : Cause(ev, r) <=> Cause(ev, r)'
  BY DEF Cause
<1>6. BatchHasCause' /\ InboxHasCause'
  BY <1>1, <1>5 DEF IInv, BatchHasCause, InboxHasCause
<1> QED BY <1>2, <1>3, <1>4, <1>6 DEF IInv

LEMMA IInvRunOnce == ASSUME IInv, NEW w \in Workers, RunOnce(w) PROVE IInv'
<1> DEFINE local == [IdleWorker EXCEPT !.pc = "fetch"]
<1>1. local \in Worker /\ local.pc # "mark" /\ local.batch = {}
  BY DEF IdleWorker, Worker, Event
<1> QED BY <1>1, LocalStep DEF RunOnce

LEMMA IInvFetch == ASSUME IInv, NEW w \in Workers, Fetch(w) PROVE IInv'
<1>1. PICK B \in Batches(Pending(wk[w].event)) :
        Goto(w, [wk[w] EXCEPT !.pc = "publish", !.batch = B])
  BY DEF Fetch
<1> DEFINE local == [wk[w] EXCEPT !.pc = "publish", !.batch = B]
<1>2. wk[w] \in Worker
  BY DEF IInv, TypeOK
<1>3. /\ local \in Worker /\ local.pc # "mark"
      /\ local.batch = B /\ local.event = wk[w].event
  BY <1>2 DEF Batches, Pending, Worker
<1>4. ASSUME NEW r \in B PROVE Cause(wk[w].event, r)
  <2>1. r \in Row /\ rows[r].status \in Announced(wk[w].event)
    BY DEF Batches, Pending
  <2> QED BY <2>1 DEF Announced, Cause, LiveStatus, IInv, LapsedIsKnown
<1> QED BY <1>1, <1>3, <1>4, LocalStep DEF Fetch

LEMMA IInvNextBatch ==
  ASSUME IInv, NEW w \in Workers, NextBatch(w),
         UNCHANGED <<rows, clock, unlockedAt, sent, inbox, lapsed>>
  PROVE  IInv'
<1> DEFINE grace == [IdleWorker EXCEPT !.pc = "fetch", !.event = "title_grace_period"]
<1>1. grace \in Worker /\ grace.pc # "mark" /\ grace.batch = {}
  BY DEF IdleWorker, Worker, Event
<1>2. IdleWorker.pc # "mark" /\ IdleWorker.batch = {}
  BY DEF IdleWorker
<1> QED BY <1>1, <1>2, IdleTyped, LocalStep DEF NextBatch

LEMMA IInvContinue ==
  ASSUME IInv, NEW w \in Workers, NEW r, Continue(w, r),
         UNCHANGED <<rows, clock, unlockedAt, sent, inbox, lapsed>>
  PROVE  IInv'
<1> DEFINE local == [wk[w] EXCEPT !.pc = "publish", !.batch = @ \ {r}, !.row = None]
<1>1. wk[w] \in Worker
  BY DEF IInv, TypeOK
<1>2. /\ local \in Worker /\ local.pc # "mark"
      /\ local.batch \subseteq wk[w].batch /\ local.event = wk[w].event
  BY <1>1 DEF Worker
<1>3. \A s \in local.batch : Cause(local.event, s)
  BY <1>2 DEF IInv, BatchHasCause
<1> QED BY <1>2, <1>3, LocalStep DEF Continue

LEMMA IInvPublish ==
  ASSUME IInv, NEW w \in Workers, NEW r \in wk[w].batch, Publish(w, r)
  PROVE  IInv'
<1> DEFINE u == OwnerOf(r)
           ev == wk[w].event
           local == [wk[w] EXCEPT !.pc = "mark", !.row = r]
<1>1. wk[w] \in Worker /\ ev \in Event /\ r \in Row /\ u \in Users
  BY OwnerIsUser DEF IInv, TypeOK, Worker
<1>2. inbox \in [Event -> [Users -> Nat]] /\ wk \in [Workers -> Worker]
  BY DEF IInv, TypeOK
<1>3. /\ local \in Worker /\ local.row = r /\ local.event = ev
      /\ local.batch = wk[w].batch
  BY <1>1 DEF Worker
<1>4. /\ wk' = [wk EXCEPT ![w] = local]
      /\ UNCHANGED <<rows, clock, unlockedAt, sent, lapsed>>
  BY DEF Publish, Goto
<1>5. /\ inbox' \in [Event -> [Users -> Nat]]
      /\ inbox'[ev][u] = 1
      /\ \A v \in Users, e \in Event : <<v, e>> # <<u, ev>> => inbox'[e][v] = inbox[e][v]
  <2>1. CASE AlreadyThere(u, ev)
    <3>1. inbox' = inbox /\ inbox[ev][u] > 0
      BY <2>1 DEF Publish, AlreadyThere
    <3>2. inbox[ev][u] \in Nat /\ inbox[ev][u] <= 1
      BY <1>1, <1>2 DEF IInv, NoDuplicateRow
    <3> QED BY <1>2, <3>1, <3>2
  <2>2. CASE ~AlreadyThere(u, ev)
    <3>1. inbox' = [inbox EXCEPT ![ev][u] = @ + 1]
      BY <2>2 DEF Publish
    <3>2. inbox[ev][u] = 0
      BY <1>1, <1>2, <2>2 DEF AlreadyThere
    <3> QED BY <1>1, <1>2, <3>1, <3>2
  <2> QED BY <2>1, <2>2
<1>6. TypeOK'
  BY <1>3, <1>4, <1>5, <1>2 DEF IInv, TypeOK
<1>7. \A v \in Users, e \in Event : inbox[e][v] > 0 => inbox'[e][v] > 0
  BY <1>5
<1>8. SentIsPublished'
  <2> SUFFICES ASSUME NEW e \in Event, NEW s \in sent[e]
               PROVE  inbox'[e][OwnerOf(s)] > 0
    BY <1>4 DEF SentIsPublished
  <2>1. s \in Row
    BY DEF IInv, TypeOK
  <2> QED BY <2>1, <1>7, OwnerIsUser DEF IInv, SentIsPublished
<1>9. NoDuplicateRow'
  BY <1>1, <1>5 DEF IInv, NoDuplicateRow
<1>10. MarkFollowsPublish'
  <2> SUFFICES ASSUME NEW x \in Workers, wk'[x].pc = "mark"
               PROVE  wk'[x].row \in Row /\ inbox'[wk'[x].event][OwnerOf(wk'[x].row)] > 0
    BY DEF MarkFollowsPublish
  <2>1. CASE x = w
    BY <2>1, <1>1, <1>2, <1>3, <1>4, <1>5
  <2>2. CASE x # w
    <3>1. wk'[x] = wk[x] /\ wk[x].event \in Event
      BY <2>2, <1>2, <1>4 DEF Worker
    <3>2. wk[x].row \in Row /\ inbox[wk[x].event][OwnerOf(wk[x].row)] > 0
      BY <3>1 DEF IInv, MarkFollowsPublish
    <3> QED BY <3>1, <3>2, <1>7, OwnerIsUser
  <2> QED BY <2>1, <2>2
<1>11. \A e, s : Cause(e, s) <=> Cause(e, s)'
  BY <1>4 DEF Cause
<1>12. BatchHasCause'
  <2> SUFFICES ASSUME NEW x \in Workers, NEW s \in wk'[x].batch
               PROVE  Cause(wk'[x].event, s)
    BY <1>11 DEF BatchHasCause
  <2>1. wk'[x].batch = wk[x].batch /\ wk'[x].event = wk[x].event
    BY <1>2, <1>3, <1>4
  <2> QED BY <2>1 DEF IInv, BatchHasCause
<1>13. InboxHasCause'
  <2> SUFFICES ASSUME NEW v \in Users, NEW e \in Event, inbox'[e][v] > 0
               PROVE  \E s \in Row : OwnerOf(s) = v /\ Cause(e, s)
    BY <1>11 DEF InboxHasCause
  <2>1. CASE <<v, e>> = <<u, ev>>
    BY <2>1, <1>1 DEF IInv, BatchHasCause
  <2>2. CASE <<v, e>> # <<u, ev>>
    BY <2>2, <1>5 DEF IInv, InboxHasCause
  <2> QED BY <2>1, <2>2
<1>14. LapsedIsKnown'
  BY <1>4 DEF IInv, LapsedIsKnown
<1> QED BY <1>6, <1>8, <1>9, <1>10, <1>12, <1>13, <1>14 DEF IInv

LEMMA IInvMarkSent == ASSUME IInv, NEW w \in Workers, MarkSent(w) PROVE IInv'
<1> DEFINE local == [wk[w] EXCEPT !.pc = "publish", !.batch = @ \ {wk[w].row}, !.row = None]
<1>1. /\ wk[w] \in Worker /\ wk \in [Workers -> Worker]
      /\ wk[w].row \in Row /\ inbox[wk[w].event][OwnerOf(wk[w].row)] > 0
  BY DEF IInv, TypeOK, MarkSent, MarkFollowsPublish
<1>2. /\ local \in Worker /\ local.pc = "publish"
      /\ local.batch \subseteq wk[w].batch /\ local.event = wk[w].event
  BY <1>1 DEF Worker
<1>3. /\ wk' = [wk EXCEPT ![w] = local]
      /\ UNCHANGED <<rows, clock, unlockedAt, inbox, lapsed>>
      /\ sent' = [sent EXCEPT ![wk[w].event] = @ \cup {wk[w].row}]
  BY DEF MarkSent, Continue, Goto
<1>4. TypeOK'
  BY <1>1, <1>2, <1>3 DEF IInv, TypeOK, Worker
<1>5. SentIsPublished'
  BY <1>1, <1>3 DEF IInv, TypeOK, SentIsPublished
<1>6. NoDuplicateRow' /\ LapsedIsKnown'
  BY <1>3 DEF IInv, NoDuplicateRow, LapsedIsKnown
<1>7. MarkFollowsPublish'
  BY <1>1, <1>2, <1>3 DEF IInv, MarkFollowsPublish
<1>8. \A e, s : Cause(e, s) <=> Cause(e, s)'
  BY <1>3 DEF Cause
<1>9. BatchHasCause' /\ InboxHasCause'
  BY <1>1, <1>2, <1>3, <1>8 DEF IInv, BatchHasCause, InboxHasCause
<1> QED BY <1>4, <1>5, <1>6, <1>7, <1>9 DEF IInv

LEMMA IInvNext == IInv /\ [Next]_vars => IInv'
<1> SUFFICES ASSUME IInv, [Next]_vars PROVE IInv'
  OBVIOUS
<1>1. CASE TableStep
  BY <1>1, IInvTableStep
<1>2. ASSUME NEW w \in Workers, WorkerStep(w) PROVE IInv'
  <2>1. CASE EndBatch(w)
    BY <2>1, IInvNextBatch DEF EndBatch
  <2> QED BY <1>2, <2>1, IInvRunOnce, IInvFetch, IInvPublish, IInvMarkSent DEF WorkerStep
<1>3. ASSUME NEW w \in Workers, StatementFails(w) PROVE IInv'
  <2>1. CASE NextBatch(w)
    BY <1>3, <2>1, IInvNextBatch DEF StatementFails
  <2>2. ASSUME NEW r, SkipRow(w, r) PROVE IInv'
    BY <1>3, <2>2, IInvContinue DEF StatementFails, SkipRow
  <2> QED BY <1>3, <2>1, <2>2 DEF StatementFails
<1>4. ASSUME NEW w \in Workers, Crash(w) PROVE IInv'
  <2>1. IdleWorker.pc # "mark" /\ IdleWorker.batch = {}
    BY DEF IdleWorker
  <2> QED BY <1>4, <2>1, IdleTyped, LocalStep DEF Crash
<1>5. CASE UNCHANGED vars
  <2>1. \A e, s : Cause(e, s) <=> Cause(e, s)'
    BY <1>5 DEF Cause, vars
  <2> QED BY <1>5, <2>1 DEF vars, IInv, TypeOK, SentIsPublished, NoDuplicateRow,
             MarkFollowsPublish, BatchHasCause, LapsedIsKnown, InboxHasCause
<1> QED BY <1>1, <1>2, <1>3, <1>4, <1>5 DEF Next, FaultlessNext

THEOREM Inductive == Spec => []IInv
BY IInvInit, IInvNext, PTL DEF Spec

------------------------------------------------------------------------------
(* What follows                                                            *)

(* Every variable has its type: the flags and the inbox of the tables, and *)
(* the local state of every worker, through every crash.                   *)
THEOREM TypeCorrect == Spec => []TypeOK
<1>1. IInv => TypeOK
  BY DEF IInv
<1> QED BY <1>1, Inductive, PTL

(* The failure contract of the worker: no flag is ever set for a user      *)
(* whose notification is not in the table, with any number of workers,     *)
(* failures and crashes.                                                   *)
THEOREM PublishBeforeMark == Spec => []SentIsPublished
<1>1. IInv => SentIsPublished
  BY DEF IInv
<1> QED BY <1>1, Inductive, PTL

(* Publishing again after a crash, or by another worker, never gives a     *)
(* user a second row of the same event.                                    *)
THEOREM OneRowPerEvent == Spec => []NoDuplicateRow
<1>1. IInv => NoDuplicateRow
  BY DEF IInv
<1> QED BY <1>1, Inductive, PTL

(* However stale the batch, a notification is about something that         *)
(* happened to its recipient.                                              *)
THEOREM NoticesHaveCause == Spec => []NoticeHasCause
<1>1. IInv => NoticeHasCause
  BY CauseIsNotice DEF IInv
<1> QED BY <1>1, Inductive, PTL
==============================================================================
