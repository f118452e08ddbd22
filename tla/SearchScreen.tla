------------------------------ MODULE SearchScreen ------------------------------
(***************************************************************************)
(* The search screen of the app: one text field, a tab of posts and a tab  *)
(* of users, and one bloc whose single state serves both tabs.  What is    *)
(* typed is searched after 300 ms of rest; every search and every further  *)
(* page awaits the server, and its answer counts only while its text is    *)
(* the active one.                                                         *)
(***************************************************************************)
EXTENDS Naturals

CONSTANTS
  Texts,        \* what is searched for
  Empty,        \* the empty text; no text
  Handlers,     \* handlers of the bloc under way at one time
  MaxTyped      \* changes of the text field (a bound)

ASSUME EmptyAssumption == Empty \notin Texts
ASSUME TypedAssumption == MaxTyped \in Nat

VARIABLES
  typed,        \* how often the text field has changed
  text,         \* _lastQuery: the text in the field
  tab,          \* the tab that is shown
  timer,        \* _debounceTimer: the text it will search for
  active,       \* _activeQuery
  shown,        \* the state of the bloc
  handler       \* the local state of its handlers

searchVars == <<typed, text, tab, timer, active, shown, handler>>

Tabs == {"posts", "users"}
SearchState ==
  [kind : {"initial", "loading", "empty", "loaded", "terminated", "error"},
   query : Texts \cup {Empty}, tab : Tabs, more : BOOLEAN]
Initial == [kind |-> "initial", query |-> Empty, tab |-> "posts", more |-> FALSE]
Handler ==
  [pc : {"idle", "sent", "failed"}, op : {"load", "next"}, query : Texts \cup {Empty},
   tab : Tabs]
IdleHandler == [pc |-> "idle", op |-> "load", query |-> Empty, tab |-> "posts"]

SearchInit ==
  /\ typed = 0 /\ text = Empty /\ tab = "posts"
  /\ timer = Empty /\ active = Empty
  /\ shown = Initial
  /\ handler = [h \in Handlers |-> IdleHandler]

HandlerAt(h, pc) == handler[h].pc = pc

------------------------------------------------------------------------------
(* Events.                                                                 *)

(* _onQueryChanged.                                                        *)
SearchQueryChanged(q) ==
  /\ typed < MaxTyped
  /\ typed' = typed + 1 /\ text' = q /\ timer' = q
  /\ IF q = Empty THEN active' = Empty /\ shown' = Initial ELSE UNCHANGED <<active, shown>>
  /\ UNCHANGED <<tab, handler>>

(* A handler makes its text the active one and awaits the server; and one  *)
(* that leaves the active text alone.                                      *)
BeginSearchUnnoted(h, op, q, t) ==
  /\ HandlerAt(h, "idle")
  /\ active' = active
  /\ handler' = [handler EXCEPT ![h] = [pc |-> "sent", op |-> op, query |-> q, tab |-> t]]
BeginSearch(h, op, q, t) ==
  /\ HandlerAt(h, "idle")
  /\ active' = q
  /\ handler' = [handler EXCEPT ![h] = [pc |-> "sent", op |-> op, query |-> q, tab |-> t]]
Loading(q) == [Initial EXCEPT !.kind = "loading", !.query = q]

(* _onQueryDebounced.                                                      *)
SearchQueryDebounced(h) ==
  /\ timer # Empty
  /\ BeginSearch(h, "load", timer, "posts") /\ shown' = Loading(timer)
  /\ timer' = Empty
  /\ UNCHANGED <<typed, text, tab>>

UsersRequested(h) == BeginSearch(h, "load", text, "users") /\ shown' = Loading(text)

(* Coming to the users requests them, unless they are there.               *)
HoldsUsers == shown.kind \in {"loaded", "terminated"} /\ shown.tab = "users"
TabChanged(h) ==
  /\ tab' = IF tab = "posts" THEN "users" ELSE "posts"
  /\ IF tab' = "users" /\ text # Empty /\ ~HoldsUsers
     THEN UsersRequested(h) ELSE UNCHANGED <<active, shown, handler>>
  /\ UNCHANGED <<typed, text, timer>>

(* The button that the tab of users has while the bloc holds posts.        *)
SearchUsersRequested(h) ==
  /\ tab = "users" /\ text # Empty
  /\ shown.kind \in {"empty", "loaded", "terminated"} /\ shown.tab = "posts"
  /\ UsersRequested(h)
  /\ UNCHANGED <<typed, text, tab, timer>>

SearchNextPageRequested(h) ==
  /\ tab = shown.tab /\ shown.kind = "loaded" /\ shown.more
  /\ BeginSearch(h, "next", shown.query, shown.tab)
  /\ shown' = [shown EXCEPT !.more = FALSE]
  /\ UNCHANGED <<typed, text, tab, timer>>

------------------------------------------------------------------------------
(* Answers.                                                                *)

(* A page is joined to the rows the handler saw when it began.             *)
Show(h, kind) ==
  shown' = [kind |-> kind, query |-> handler[h].query, tab |-> handler[h].tab,
            more |-> kind = "loaded"]

(* The guard, and none.                                                    *)
AlwaysCurrent(h) == TRUE
Current(h) == handler[h].query = active

LoseResults(h) ==
  /\ HandlerAt(h, "sent")
  /\ handler' = [handler EXCEPT ![h].pc = "failed"]
  /\ UNCHANGED <<typed, text, tab, timer, active, shown>>

Answer(h) ==
  /\ HandlerAt(h, "sent") \/ HandlerAt(h, "failed")
  /\ \/ ~Current(h) /\ UNCHANGED shown
     \/ Current(h) /\ HandlerAt(h, "failed") /\ Show(h, "error")
     \/ Current(h) /\ HandlerAt(h, "sent") /\ (Show(h, "loaded") \/ Show(h, "terminated"))
     \/ Current(h) /\ HandlerAt(h, "sent") /\ handler[h].op = "load" /\ Show(h, "empty")
  /\ handler' = [handler EXCEPT ![h] = IdleHandler]
  /\ UNCHANGED <<typed, text, tab, timer, active>>

SearchNext ==
  \/ \E q \in Texts \cup {Empty} : SearchQueryChanged(q)
  \/ \E h \in Handlers :
       \/ SearchQueryDebounced(h) \/ TabChanged(h)
       \/ SearchUsersRequested(h) \/ SearchNextPageRequested(h)
       \/ LoseResults(h) \/ Answer(h)

SearchSpec == SearchInit /\ [][SearchNext]_searchVars

(* The timer rings though other handlers come and go, and every request is *)
(* answered or given up.                                                   *)
SearchFairness ==
  /\ SF_searchVars(\E h \in Handlers : SearchQueryDebounced(h))
  /\ \A h \in Handlers : WF_searchVars(Answer(h))

------------------------------------------------------------------------------
(* Properties.                                                             *)

(* The state of the bloc and its handlers keep their types.                *)
SearchTypeOK ==
  /\ typed \in 0..MaxTyped /\ text \in Texts \cup {Empty} /\ tab \in Tabs
  /\ timer \in Texts \cup {Empty} /\ active \in Texts \cup {Empty}
  /\ shown \in SearchState /\ handler \in [Handlers -> Handler]

(* "Guard: discard if the user has typed a newer query while in-flight"    *)
(* (search_bloc.dart): what is shown is for the active text, and nothing   *)
(* is shown once the field is cleared.                                     *)
ShownIsActive == shown.query = active

(* The text in the field is searched in the end, and no spinner or locked  *)
(* page stays: of the answers that are dropped, none is the one the screen *)
(* waits for.                                                              *)
Settled ==
  /\ shown.query = text
  /\ shown.kind # "loading" /\ ~(shown.kind = "loaded" /\ ~shown.more)
TypedIsAnswered == []<>Settled
==============================================================================
