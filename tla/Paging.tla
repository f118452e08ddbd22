--------------------------------- MODULE Paging ---------------------------------
(***************************************************************************)
(* The lists: pages cut by the server, which a screen of the app joins.    *)
(* A list has no infinite scroll: every page says whether it is the last   *)
(* (terminated) and else carries a cursor, the position of its last row.   *)
(* Rows come and go between two pages, and a screen may have several       *)
(* requests under way, each of which goes on from the state of the screen  *)
(* it saw when it began.                                                   *)
(***************************************************************************)
EXTENDS Naturals, FiniteSets, Sequences, SequencesExt

CONSTANTS
  Lists,        \* the lists that are looked at
  Keys,         \* rows there may be, numbered by (created_at, id) or by handle
  Movable,      \* the rows that come and go (a bound)
  Calls,        \* events the screen handles at one time
  PageSize,     \* rows of a page
  MaxDepth,     \* rows of a window
  None          \* no cursor, no page

(* The lists whose queries have a window; the docs promise an end to all.  *)
Windowed == {"home", "author", "hashtag", "thread"}
AllLists ==
  Windowed \cup {"search", "users", "bookmarks", "notifications", "studio"}

ASSUME NoneAssumption == None \notin Nat
ASSUME ListsAssumption == Lists \subseteq AllLists
ASSUME KeysAssumption == Keys \subseteq Nat /\ IsFiniteSet(Keys) /\ Movable \subseteq Keys
ASSUME BoundsAssumption == PageSize \in Nat \ {0} /\ MaxDepth \in Nat \ {0}

VARIABLES
  list,         \* the list the behaviour is about
  rows,         \* its rows: what its query matches at present
  read,         \* notifications whose is_read is set
  view,         \* the state of the screen's bloc
  call          \* the local state of the handlers of the bloc

vars == <<list, rows, read, view, call>>

(* posts: the rows shown; seen: those of them shown as read; cursor:       *)
(* nextCursor; more: hasMore.  History of a load of the list: owed, the    *)
(* rows it could have shown ever since, and whole, no row has gone since.  *)
Blank ==
  [kind |-> "initial", posts |-> <<>>, seen |-> {}, cursor |-> None, more |-> FALSE,
   owed |-> {}, whole |-> TRUE]
View ==
  [kind : {"initial", "loading", "empty", "loaded", "terminated", "error"},
   posts : Seq(Keys), seen : SUBSET Keys, cursor : Keys \cup {None}, more : BOOLEAN,
   owed : SUBSET Keys, whole : BOOLEAN]

Idle == [pc |-> "idle", op |-> "load", from |-> Blank, page |-> None]

Init ==
  /\ list \in Lists
  /\ rows \in {Keys \ S : S \in SUBSET Movable} /\ read = {}
  /\ view = Blank
  /\ call = [h \in Calls |-> Idle]

------------------------------------------------------------------------------
(* The queries: the first n rows of an order, those past a cursor, and the *)
(* page made of them.                                                      *)

Precedes(j, k, order) == IF order = "ascending" THEN j < k ELSE j > k

First(n, S, order) == {k \in S : Cardinality({j \in S : Precedes(j, k, order)}) < n}

(* The rows past the cursor, a position where no row needs to be; and the  *)
(* rows from the cursor on.                                                *)
FromCursor(S, c, order) == {k \in S : c = None \/ Precedes(c, k, order) \/ k = c}
PastCursor(S, c, order) == {k \in S : c = None \/ Precedes(c, k, order)}

(* One row more than the page is fetched: there are more if it comes.      *)
HasMore(got) == Cardinality(got) > PageSize

(* The cursor is the last row of the page; also the extra row, and the     *)
(* last row of a last page.                                                *)
LastOf(S, order) == CHOOSE k \in S : \A j \in S \ {k} : Precedes(j, k, order)
CursorOfExtra(got, order) == IF HasMore(got) THEN LastOf(got, order) ELSE None
CursorAlways(got, order) ==
  IF got = {} THEN None ELSE LastOf(First(PageSize, got, order), order)
NextCursor(got, order) ==
  IF HasMore(got) THEN LastOf(First(PageSize, got, order), order) ELSE None

(* The rows of a page as they are sent: the i-th has i - 1 before it.      *)
InOrder(S, order) ==
  [i \in 1..Cardinality(S) |->
     CHOOSE k \in S : Cardinality({j \in S : Precedes(j, k, order)}) = i - 1]

Page(S, c, order) ==
  LET got == First(PageSize + 1, PastCursor(S, c, order), order)
      items == First(PageSize, got, order)
  IN [items |-> InOrder(items, order),
      seen |-> items \cap read,
      cursor |-> NextCursor(got, order), terminated |-> ~HasMore(got)]

(* The lists with a window: the first maxDepth rows, whatever the cursor;  *)
(* and a thread without one.                                               *)
ListHomeTimeline(c) == Page(First(MaxDepth, rows, "descending"), c, "descending")
ListByAuthor(c) == Page(First(MaxDepth, rows, "descending"), c, "descending")
ListByHashtag(c) == Page(First(MaxDepth, rows, "descending"), c, "descending")
WholeThread(c) == Page(rows, c, "ascending")
ListThreadReplies(c) == Page(First(MaxDepth, rows, "ascending"), c, "ascending")

(* The lists without.                                                      *)
SearchPosts(c) == Page(rows, c, "descending")
SearchUsers(c) == Page(rows, c, "ascending")
ListBookmarks(c) == Page(rows, c, "descending")
ListNotifications(c) == Page(rows, c, "descending")
ListPostAnalytics(c) == Page(rows, c, "descending")

PageAt(c) ==
  CASE list = "home" -> ListHomeTimeline(c)
    [] list = "author" -> ListByAuthor(c)
    [] list = "hashtag" -> ListByHashtag(c)
    [] list = "thread" -> ListThreadReplies(c)
    [] list = "search" -> SearchPosts(c)
    [] list = "users" -> SearchUsers(c)
    [] list = "bookmarks" -> ListBookmarks(c)
    [] list = "notifications" -> ListNotifications(c)
    [] list = "studio" -> ListPostAnalytics(c)

(* What a list promises: its order, and the rows it may show of those      *)
(* there are.                                                              *)
Order == IF list \in {"thread", "users"} THEN "ascending" ELSE "descending"
Window(S) == IF list \in Windowed THEN First(MaxDepth, S, Order) ELSE S

------------------------------------------------------------------------------
(* The bloc.                                                               *)

At(h, pc) == call[h].pc = pc
Begin(h, op, from) ==
  call' = [call EXCEPT ![h] = [pc |-> "sent", op |-> op, from |-> from, page |-> None]]
Finish(h) == call' = [call EXCEPT ![h] = Idle]

LoadRequested(h) ==
  /\ At(h, "idle")
  /\ view' = [Blank EXCEPT !.kind = "loading"]
  /\ Begin(h, "load", Blank)
  /\ UNCHANGED <<list, rows, read>>

(* hasMore is locked while the page is fetched.                            *)
NextPageRequested(h) ==
  /\ At(h, "idle")
  /\ view.kind = "loaded" /\ view.more
  /\ view' = [view EXCEPT !.more = FALSE]
  /\ Begin(h, "next", view)
  /\ UNCHANGED <<list, rows, read>>

MarkAllReadRequested(h) ==
  /\ At(h, "idle")
  /\ list = "notifications" /\ view.kind \in {"loaded", "terminated"}
  /\ Begin(h, "mark", view)
  /\ UNCHANGED <<list, rows, read, view>>

(* The server's part: one statement each.                                  *)
ListRows(h) ==
  /\ At(h, "sent") /\ call[h].op \in {"load", "next"}
  /\ LET load == call[h].op = "load"
         from == call[h].from
     IN call' = [call EXCEPT ![h].pc = "answered",
                             ![h].page = PageAt(IF load THEN None ELSE from.cursor),
                             ![h].from = IF load THEN [from EXCEPT !.owed = Window(rows)]
                                         ELSE from]
  /\ UNCHANGED <<list, rows, read, view>>

MarkAllRead(h) ==
  /\ At(h, "sent") /\ call[h].op = "mark"
  /\ read' = rows
  /\ call' = [call EXCEPT ![h].pc = "answered"]
  /\ UNCHANGED <<list, rows, view>>

(* The request fails, or its answer is lost.                               *)
Lose(h) ==
  /\ At(h, "sent") \/ At(h, "answered")
  /\ call' = [call EXCEPT ![h].pc = "failed", ![h].page = None]
  /\ UNCHANGED <<list, rows, read, view>>

(* The page joined; and one that forgets to unlock hasMore.  An empty list *)
(* has a state of its own on most screens.                                 *)
JoinedLocked(from, page) ==
  [from EXCEPT !.kind = IF page.terminated THEN "terminated" ELSE "loaded",
               !.posts = @ \o page.items,
               !.seen = @ \cup page.seen,
               !.cursor = page.cursor,
               !.more = FALSE]
Joined(from, page) ==
  [from EXCEPT !.kind = IF page.terminated THEN "terminated" ELSE "loaded",
               !.posts = @ \o page.items,
               !.seen = @ \cup page.seen,
               !.cursor = page.cursor,
               !.more = page.cursor # None]
Loaded(from, page) ==
  LET joined == Joined(from, page)
  IN IF page.items = <<>> /\ list \notin {"author", "thread", "bookmarks"}
     THEN [joined EXCEPT !.kind = "empty"] ELSE joined

LoadAnswered(h) ==
  /\ At(h, "answered") /\ call[h].op = "load"
  /\ view' = Loaded(call[h].from, call[h].page)
  /\ Finish(h)
  /\ UNCHANGED <<list, rows, read>>

(* The page is joined to the rows the handler saw when it began.           *)
NextPageAnswered(h) ==
  /\ At(h, "answered") /\ call[h].op = "next"
  /\ view' = Joined(call[h].from, call[h].page)
  /\ Finish(h)
  /\ UNCHANGED <<list, rows, read>>

(* The same for the marks; and one that marks what is on the screen.       *)
MarkShown(h) ==
  /\ At(h, "answered") /\ call[h].op = "mark"
  /\ view' = [view EXCEPT !.seen = ToSet(view.posts)]
  /\ Finish(h)
  /\ UNCHANGED <<list, rows, read>>
MarkAnswered(h) ==
  /\ At(h, "answered") /\ call[h].op = "mark"
  /\ view' = [call[h].from EXCEPT !.seen = ToSet(call[h].from.posts)]
  /\ Finish(h)
  /\ UNCHANGED <<list, rows, read>>

(* A failure of any handler ends in the error state, which only a load     *)
(* leaves: the loaded state that is emitted just before it is gone at      *)
(* once.                                                                   *)
Fail(h) ==
  /\ At(h, "failed")
  /\ view' = [Blank EXCEPT !.kind = "error"]
  /\ Finish(h)
  /\ UNCHANGED <<list, rows, read>>

------------------------------------------------------------------------------
(* Rows come and go: posts are written, deleted, bookmarked, their authors *)
(* followed, blocked.  A notification stays.                               *)

Narrow(v, S) == [v EXCEPT !.owed = @ \cap Window(S), !.whole = @ /\ rows \subseteq S]
Become(S) ==
  /\ rows' = S
  /\ view' = Narrow(view, S)
  /\ call' = [h \in Calls |-> [call[h] EXCEPT !.from = Narrow(@, S)]]
  /\ UNCHANGED <<list, read>>

Appear(k) == k \notin rows /\ Become(rows \cup {k})
Vanish(k) == k \in rows /\ list # "notifications" /\ Become(rows \ {k})

Begins(h) == LoadRequested(h) \/ NextPageRequested(h) \/ MarkAllReadRequested(h)
Serves(h) == ListRows(h) \/ MarkAllRead(h) \/ Lose(h)
Answers(h) == LoadAnswered(h) \/ NextPageAnswered(h) \/ MarkAnswered(h) \/ Fail(h)

Next ==
  \/ \E h \in Calls : Begins(h) \/ Serves(h) \/ Answers(h)
  \/ \E k \in Movable : Appear(k) \/ Vanish(k)

Spec == Init /\ [][Next]_vars

(* The HTTP client gives every request up in the end, and the answer wakes *)
(* its handler.                                                            *)
FairSpec == Spec /\ \A h \in Calls : WF_vars(Serves(h) \/ Answers(h))

------------------------------------------------------------------------------
(* Properties.                                                             *)

(* Type correctness, with what the states of the blocs promise each other: *)
(* no rows before a page or after an error, and a next page to ask for     *)
(* (hasMore) only of a list that has not ended and knows its cursor, in    *)
(* the state shown and in those the handlers saw.                          *)
TypeOK ==
  /\ list \in Lists /\ rows \subseteq Keys /\ read \subseteq Keys
  /\ \A v \in {view} \cup {call[h].from : h \in Calls} :
       /\ v \in View
       /\ v.kind \in {"initial", "loading", "empty", "error"} => v.posts = <<>>
       /\ v.kind # "loaded" => ~v.more /\ v.cursor = None
       /\ v.more => v.cursor # None

(* The pages of a screen, however its requests overlapped and whatever     *)
(* came and went between them, make one list in the list's order, with no  *)
(* row twice.                                                              *)
PagesInOrder ==
  \A i, j \in DOMAIN view.posts : i < j => Precedes(view.posts[i], view.posts[j], Order)

(* A list that says it has ended shows every row that was there, within    *)
(* the window, ever since the list was loaded.                             *)
NothingSkipped ==
  view.kind \in {"terminated", "empty"} => view.owed \subseteq ToSet(view.posts)

(* The pages of a list with a window come to maxDepth rows at most, though *)
(* the cursors they go on from are stale by then (post/repository.go: not  *)
(* even a stale cursor "can reach a post ranked below maxDepth"), unless a *)
(* row went and another took its place.  Cursors are those the server gave *)
(* out; the lists without a window are DocumentedEnd's.                    *)
ListIsBounded ==
  list \in Windowed /\ view.whole => Len(view.posts) <= MaxDepth

(* "The client only mutates local state after a successful PUT"            *)
(* (notification_list_bloc.dart): a notification shown as read is read,    *)
(* though others arrive while the PUT is under way.                        *)
ReadIsRead == view.seen \subseteq read

(* hasMore is locked "while the request is in-flight to prevent duplicate  *)
(* next-page requests" (home_feed_bloc.dart), and every answer unlocks it, *)
(* unless marking all as read and fetching a page overlap: the mark then   *)
(* brings the locked state back.                                           *)
Locked == view.kind = "loaded" /\ ~view.more
NoOverlap ==
  ~\E g, h \in Calls : /\ ~At(g, "idle") /\ call[g].op = "mark"
                       /\ ~At(h, "idle") /\ call[h].op = "next"
NeverStuck == []NoOverlap => (Locked ~> ~Locked)

------------------------------------------------------------------------------
(* What the comments say                                                   *)

(* "The backend terminates at 100 items" (notification_list_bloc.dart:19), *)
(* and at 50 for the searches and the studio, at 200 for bookmarks         *)
(* (API_CONTRACTS.md): each is the size of one page, and the lists have no *)
(* window.                                                                 *)
DocumentedEnd ==
  list \notin Windowed /\ view.whole => Len(view.posts) <= PageSize
==============================================================================
