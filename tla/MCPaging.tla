------------------------------- MODULE MCPaging -------------------------------
(* Small instances of Paging.                                               *)
EXTENDS Paging

CONSTANTS h1, h2

(* One list of each shape: a window or none, ascending or descending, and  *)
(* the one that is marked.                                                 *)
EachShape == {"thread", "home", "users", "notifications"}
FiveKeys == 1..5
SecondAndLast == {2, 5}
Inbox == {"notifications"}
NoneMovable == {}
OneCall == {h1}
TwoCalls == {h1, h2}
==============================================================================
