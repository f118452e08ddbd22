-------------------------- MODULE TitleNotifications --------------------------
(***************************************************************************)
(* The worker that tells users about their titles                          *)
(* (title/notification_worker.go), one per API process, over the           *)
(* user_titles table, whose rows live by TitleContract while it works, and *)
(* the notifications table it inserts into (notification/repository.go).   *)
(* A pass fetches the rows not announced yet, publishes each one and then  *)
(* marks it sent; every statement commits alone, so a failure or a crash   *)
(* may fall between any two of them.                                       *)
(***************************************************************************)
EXTENDS TitleRows, FiniteSets

CONSTANTS
  Workers,      \* notification workers
  BatchSize,    \* NotificationWorkerConfig.BatchSize
  None          \* no row

ASSUME NoneAssumption == None \notin Row
ASSUME BatchAssumption == BatchSize \in Nat \ {0}

VARIABLES
  rows,         \* user_titles: status and deadline
  clock,        \* wall clock
  unlockedAt,   \* user_titles.unlocked_at
  sent,         \* unlock_notification_sent and grace_notification_sent: the rows set
  inbox,        \* notifications: how many rows per recipient and title event
  lapsed,       \* history: the rows that have ever been in a grace period
  wk            \* the local state of each worker

vars == <<rows, clock, unlockedAt, sent, inbox, lapsed, wk>>

Event == {"title_unlocked", "title_grace_period"}

Worker == [pc : {"idle", "fetch", "publish", "mark"}, event : Event,
           batch : SUBSET Row, row : Row \cup {None}]
IdleWorker == [pc |-> "idle", event |-> "title_unlocked", batch |-> {}, row |-> None]

Table == INSTANCE TitleContract WITH rows <- rows, clock <- clock

Init ==
  /\ Table!Init
  /\ unlockedAt = [r \in Row |-> 0]
  /\ sent = [ev \in Event |-> {}]
  /\ inbox = [ev \in Event |-> [u \in Users |-> 0]]
  /\ lapsed = {}
  /\ wk = [w \in Workers |-> IdleWorker]

(* The qualification worker changes the table, or time passes.             *)
TableStep ==
  /\ Table!Next
  /\ unlockedAt' = [r \in Row |-> IF rows[r].status = "none" /\ rows'[r].status # "none"
                                  THEN clock ELSE unlockedAt[r]]
  /\ lapsed' = lapsed \cup {r \in Row : rows'[r].status = "grace_period"}
  /\ UNCHANGED <<sent, inbox, wk>>

------------------------------------------------------------------------------
(* One pass of a worker.                                                   *)

Goto(w, local) == wk' = [wk EXCEPT ![w] = local]

(* The statuses of the two queries; a grace query that takes any held row. *)
AnnouncedAnyHeld(ev) == LiveStatus
Announced(ev) == IF ev = "title_unlocked" THEN LiveStatus ELSE {"grace_period"}

(* GetPending...Notifications, and a query that forgets the flag.          *)
PendingOrSent(ev) == {r \in Row : rows[r].status \in Announced(ev)}
Pending(ev) == {r \in Row : r \notin sent[ev] /\ rows[r].status \in Announced(ev)}

(* ORDER BY unlocked_at ASC LIMIT BatchSize                                *)
Batches(P) ==
  {B \in SUBSET P :
     /\ Cardinality(B) <= BatchSize
     /\ B = P \/ Cardinality(B) = BatchSize
     /\ \A b \in B, p \in P \ B : unlockedAt[b] <= unlockedAt[p]}

RunOnce(w) ==
  /\ wk[w].pc = "idle"
  /\ Goto(w, [IdleWorker EXCEPT !.pc = "fetch"])
  /\ UNCHANGED <<rows, clock, unlockedAt, sent, inbox, lapsed>>

Fetch(w) ==
  /\ wk[w].pc = "fetch"
  /\ \E B \in Batches(Pending(wk[w].event)) :
       Goto(w, [wk[w] EXCEPT !.pc = "publish", !.batch = B])
  /\ UNCHANGED <<rows, clock, unlockedAt, sent, inbox, lapsed>>

(* The loop takes the rows of the batch in the order they were fetched.    *)
IsNext(w, r) ==
  r \in wk[w].batch /\ \A s \in wk[w].batch : unlockedAt[r] <= unlockedAt[s]

(* notifications_dedup_idx, and a table without it.  The actor is the      *)
(* system user and post_id is NULL, so only recipient and event matter.    *)
NeverThere(u, ev) == FALSE
AlreadyThere(u, ev) == inbox[ev][u] > 0

(* INSERT ... ON CONFLICT DO NOTHING: either way no error is returned.     *)
Publish(w, r) ==
  /\ wk[w].pc = "publish"
  /\ IsNext(w, r)
  /\ inbox' = IF AlreadyThere(OwnerOf(r), wk[w].event) THEN inbox
              ELSE [inbox EXCEPT ![wk[w].event][OwnerOf(r)] = @ + 1]
  /\ Goto(w, [wk[w] EXCEPT !.pc = "mark", !.row = r])
  /\ UNCHANGED <<rows, clock, unlockedAt, sent, lapsed>>

(* continue: on to the next row of the batch.                              *)
Continue(w, r) ==
  Goto(w, [wk[w] EXCEPT !.pc = "publish", !.batch = @ \ {r}, !.row = None])

(* UPDATE user_titles SET ..._notification_sent = TRUE WHERE id = $1       *)
MarkSent(w) ==
  /\ wk[w].pc = "mark"
  /\ sent' = [sent EXCEPT ![wk[w].event] = @ \cup {wk[w].row}]
  /\ Continue(w, wk[w].row)
  /\ UNCHANGED <<rows, clock, unlockedAt, inbox, lapsed>>

(* processUnlockBatch, then processGraceBatch, then wait for the ticker.   *)
NextBatch(w) ==
  \/ /\ wk[w].event = "title_unlocked"
     /\ Goto(w, [IdleWorker EXCEPT !.pc = "fetch", !.event = "title_grace_period"])
  \/ /\ wk[w].event = "title_grace_period"
     /\ Goto(w, IdleWorker)

EndBatch(w) ==
  /\ wk[w].pc = "publish"
  /\ wk[w].batch = {}
  /\ NextBatch(w)
  /\ UNCHANGED <<rows, clock, unlockedAt, sent, inbox, lapsed>>

(* A failed fetch gives the batch up, a failed publish or mark the row,    *)
(* and one slip: the mark is made although the publish failed.             *)
MarkedAnyway(w, r) ==
  /\ wk[w].pc = "publish" /\ IsNext(w, r)
  /\ Goto(w, [wk[w] EXCEPT !.pc = "mark", !.row = r])
SkipRow(w, r) ==
  \/ /\ wk[w].pc = "publish" /\ IsNext(w, r)
     /\ Continue(w, r)
  \/ /\ wk[w].pc = "mark" /\ wk[w].row = r
     /\ Continue(w, r)

StatementFails(w) ==
  /\ \/ wk[w].pc = "fetch" /\ NextBatch(w)
     \/ \E r \in wk[w].batch : SkipRow(w, r)
  /\ UNCHANGED <<rows, clock, unlockedAt, sent, inbox, lapsed>>

Crash(w) ==
  /\ wk[w].pc # "idle"
  /\ Goto(w, IdleWorker)
  /\ UNCHANGED <<rows, clock, unlockedAt, sent, inbox, lapsed>>

------------------------------------------------------------------------------
WorkerStep(w) ==
  \/ RunOnce(w)
  \/ Fetch(w)
  \/ \E r \in wk[w].batch : Publish(w, r)
  \/ MarkSent(w)
  \/ EndBatch(w)

FaultlessNext == TableStep \/ \E w \in Workers : WorkerStep(w)

Next ==
  \/ FaultlessNext
  \/ \E w \in Workers : StatementFails(w) \/ Crash(w)

Spec == Init /\ [][Next]_vars

(* The ticker keeps starting passes, and from some moment on the database  *)
(* answers and the process stays up.                                       *)
Fairness ==
  /\ \A w \in Workers : WF_vars(WorkerStep(w))
  /\ <>[][FaultlessNext]_vars

FairSpec == Spec /\ Fairness

------------------------------------------------------------------------------
TypeOK ==
  /\ rows \in [Row -> RowState]
  /\ clock \in Nat
  /\ unlockedAt \in [Row -> Nat]
  /\ sent \in [Event -> SUBSET Row]
  /\ inbox \in [Event -> [Users -> Nat]]
  /\ lapsed \in SUBSET Row
  /\ wk \in [Workers -> Worker]

(* Publish first, mark sent second: a row marked sent has its owner's      *)
(* notification in the inbox, whatever failed or crashed on the way        *)
(* (notification_worker.go, "Failure contract").                           *)
SentIsPublished ==
  \A ev \in Event : \A r \in sent[ev] : inbox[ev][OwnerOf(r)] > 0

(* A crash between publish and mark-sent, or a second worker on the same   *)
(* batch, publishes again, and the user still sees one row per event       *)
(* (cmd/api/main.go: "prevents duplicate rows if the process crashes").    *)
NoDuplicateRow == \A u \in Users, ev \in Event : inbox[ev][u] <= 1

(* A user is told of a grace period only after a title of theirs entered   *)
(* one, and of an unlock only after a title was unlocked, however stale    *)
(* the batch a worker is going through.                                    *)
NoticeHasCause ==
  \A u \in Users :
    /\ inbox["title_unlocked"][u] > 0 =>
         \E r \in Row : OwnerOf(r) = u /\ rows[r].status # "none"
    /\ inbox["title_grace_period"][u] > 0 => \E r \in lapsed : OwnerOf(r) = u

(* No row waits behind the LIMIT, a failure or a crash for ever: it is     *)
(* marked, or it leaves the status its notification is about.              *)
PendingIsSent ==
  \A ev \in Event, r \in Row :
    r \notin sent[ev] /\ rows[r].status \in Announced(ev)
      ~> r \in sent[ev] \/ rows[r].status \notin Announced(ev)
==============================================================================
