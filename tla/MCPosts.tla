------------------------------- MODULE MCPosts -------------------------------
(* Small instances of Posts.                                                *)
EXTENDS Posts

CONSTANTS u1, u2, q1, q2

TwoUsers == {u1, u2}
OneFan == {u2}
FirstPost == {1}
TwoRequests == {q1, q2}

(* u1 writes posts, shares the first one, in time or not, and answers the  *)
(* second with a mention of u2; u2 replies to the first.                   *)
Plain == [author |-> u1, type |-> "original", parent |-> None, quoted |-> None,
          mention |-> None, age |-> 5, five |-> TRUE]
FewDrafts ==
  {Plain, [Plain EXCEPT !.parent = 1],
   [Plain EXCEPT !.type = "reply", !.author = u2, !.parent = 1]}
    \cup {[Plain EXCEPT !.type = "reply", !.parent = p, !.mention = u2] : p \in {None, 2}}
    \cup {[Plain EXCEPT !.type = t, !.quoted = 1, !.age = a] :
           t \in {"quote", "repost"}, a \in {-31, -6, 4, 5}}
    \cup {[Plain EXCEPT !.type = "quote", !.quoted = 1, !.five = FALSE]}
==============================================================================
