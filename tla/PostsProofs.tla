------------------------------ MODULE PostsProofs ------------------------------
(***************************************************************************)
(* Theorems about Posts, for any users, any number of posts, any drafts    *)
(* and any number of requests that interleave statement by statement.      *)
(***************************************************************************)
EXTENDS Posts, TLAPS

LEMMA PostIsNoNone == \A p \in Posts : p # None
BY NoneAssumption, BoundsAssumption DEF Posts

LEMMA UserIsNoNone == \A u \in Users : u # None
BY NoneAssumption

LEMMA ExistsMeans == \A p \in Posts : Exists(p) <=> posts[p] # None
BY PostIsNoNone DEF Exists

LEMMA IdleTyped == IdleRequest \in Request /\ IdleRequest.pc = "idle"
BY DEF IdleRequest, Request

------------------------------------------------------------------------------
(* The invariant.                                                          *)

(* What the statements of a request still to come rely on.                 *)
Creating == {"parent", "insert", "fetch", "reply", "mention"}
Created == {"fetch", "reply", "mention"}
Acting == {"owner", "lookup", "check", "exists", "delete", "react", "bookmark", "notice"}
DraftOK(l) ==
  /\ l.pc \in Creating => /\ l.draft \in Draft /\ Accepted(l.draft)
                          /\ l.user = l.draft.author
  /\ l.pc = "parent" => l.draft.type = "reply"
  /\ l.pc = "insert" => /\ l.draft.type = "reply" => Exists(l.draft.parent)
                        /\ l.root = ThreadRoot(l.draft)
  /\ l.pc \in Created => /\ l.post \in Posts /\ posts[l.post] # None
                         /\ posts[l.post].author = l.user
                         /\ posts[l.post].type = l.draft.type
                         /\ posts[l.post].parent = l.draft.parent
                         /\ posts[l.post].mention = l.draft.mention
ActOK(l) ==
  /\ l.pc \in Acting => l.user \in Users /\ l.post \in Posts
  /\ l.pc \in {"delete", "react", "bookmark", "notice"} => posts[l.post] # None
  /\ l.pc = "notice" => /\ posts[l.post].author # l.user
                        /\ <<l.user, l.post>> \in liked
LocalOK(l) == l \in Request /\ DraftOK(l) /\ ActOK(l)

TablesOK ==
  /\ posts \in [Posts -> Row \cup {None}]
  /\ reactions \subseteq liked /\ liked \subseteq Users \X Posts
  /\ bookmarks \subseteq Users \X Posts
  /\ inbox \subseteq Notice
ReqOK == /\ req \in [Requests -> Request]
         /\ \A q \in Requests : LocalOK(req[q])

IInv == TablesOK /\ ReqOK /\ RowsAreLawful /\ NoticeHasCause

LEMMA IdleOK == LocalOK(IdleRequest)
BY IdleTyped DEF LocalOK, DraftOK, ActOK, Creating, Created, Acting

------------------------------------------------------------------------------
(* A step keeps every row there is but for its mark, and every like there  *)
(* has been: that is why what a request has read stays as true as it needs. *)

SameRow(p) ==
  posts[p] # None =>
    /\ posts'[p] \in Row
    /\ posts'[p].author = posts[p].author /\ posts'[p].type = posts[p].type
    /\ posts'[p].parent = posts[p].parent /\ posts'[p].root = posts[p].root
    /\ posts'[p].quoted = posts[p].quoted /\ posts'[p].mention = posts[p].mention
    /\ posts'[p].age = posts[p].age
RowsKept == (\A p \in Posts : SameRow(p)) /\ liked \subseteq liked'

LEMMA ExistsOn ==
  ASSUME RowsKept, NEW p \in Posts, posts[p] # None
  PROVE  posts'[p] # None /\ Exists(p) /\ Exists(p)'
BY DraftsAssumption, ExistsMeans, PostIsNoNone DEF RowsKept, SameRow, Exists

(* A row that is marked, and a new row.                                    *)
LEMMA UntouchedKept == UNCHANGED posts /\ liked \subseteq liked' /\ TablesOK => RowsKept
BY DEF RowsKept, SameRow, TablesOK

LEMMA MarkKept ==
  ASSUME TablesOK, NEW p \in Posts, posts[p] # None, UNCHANGED liked,
         posts' = [posts EXCEPT ![p].deleted = TRUE]
  PROVE  RowsKept /\ posts' \in [Posts -> Row \cup {None}]
<1>1. posts[p] \in Row
  BY DEF TablesOK
<1>2. [posts[p] EXCEPT !.deleted = TRUE] \in Row
  BY <1>1 DEF Row
<1>3. posts' = [posts EXCEPT ![p] = [posts[p] EXCEPT !.deleted = TRUE]]
  OBVIOUS
<1>4. posts' \in [Posts -> Row \cup {None}]
  BY <1>2, <1>3 DEF TablesOK
<1>5. ASSUME NEW o \in Posts PROVE SameRow(o)
  <2>1. CASE o = p
    BY <1>1, <1>2, <1>3, <2>1 DEF SameRow, TablesOK, Row
  <2>2. CASE o # p
    BY <1>3, <2>2 DEF SameRow, TablesOK
  <2> QED BY <2>1, <2>2
<1> QED BY <1>4, <1>5 DEF RowsKept

LEMMA InsertKept ==
  ASSUME TablesOK, NEW p \in Posts, posts[p] = None, NEW row \in Row, UNCHANGED liked,
         posts' = [posts EXCEPT ![p] = row]
  PROVE  RowsKept /\ posts' \in [Posts -> Row \cup {None}]
BY DEF RowsKept, SameRow, TablesOK

(* The root of a thread does not move, nor do the facts of a request.      *)
LEMMA RootOn ==
  ASSUME TablesOK, RowsKept, NEW d \in Draft, d.type = "reply" => Exists(d.parent)
  PROVE  ThreadRoot(d)' = ThreadRoot(d) /\ (d.type = "reply" => Exists(d.parent)')
<1>1. CASE d.type # "reply"
  BY <1>1 DEF ThreadRoot
<1>2. CASE d.type = "reply"
  <2>1. d.parent \in Posts /\ posts[d.parent] # None
    BY <1>2 DEF Exists, Draft
  <2>2. posts'[d.parent].root = posts[d.parent].root /\ Exists(d.parent)'
    BY <2>1, ExistsOn DEF RowsKept, SameRow
  <2> QED BY <1>2, <2>2 DEF ThreadRoot
<1> QED BY <1>1, <1>2

LEMMA LocalOn == ASSUME TablesOK, RowsKept, NEW l, LocalOK(l) PROVE LocalOK(l)'
<1>1. DraftOK(l)'
  <2>1. l.pc \in Creating => l.draft \in Draft /\ Accepted(l.draft) /\ l.user = l.draft.author
    BY DEF LocalOK, DraftOK
  <2>2. (l.pc = "insert" => /\ l.draft.type = "reply" => Exists(l.draft.parent)
                            /\ l.root = ThreadRoot(l.draft))'
    BY <2>1, RootOn DEF LocalOK, DraftOK, Creating
  <2>3. (l.pc \in Created => /\ l.post \in Posts /\ posts[l.post] # None
                             /\ posts[l.post].author = l.user
                             /\ posts[l.post].type = l.draft.type
                             /\ posts[l.post].parent = l.draft.parent
                             /\ posts[l.post].mention = l.draft.mention)'
    BY ExistsOn DEF LocalOK, DraftOK, RowsKept, SameRow
  <2>4. (l.pc \in Creating => Accepted(l.draft))'
    BY <2>1 DEF Accepted, ValidateShareDelay
  <2> QED BY <2>1, <2>2, <2>3, <2>4 DEF LocalOK, DraftOK
<1>2. ActOK(l)'
  BY ExistsOn DEF LocalOK, ActOK, RowsKept, SameRow, Acting
<1> QED BY <1>1, <1>2 DEF LocalOK

------------------------------------------------------------------------------
(* The law of one row.                                                     *)

LawfulRow(p) ==
  Exists(p) =>
    /\ posts[p].type = "reply" <=> posts[p].root # None
    /\ posts[p].root # None =>
         /\ Exists(posts[p].root) /\ posts[posts[p].root].root = None
         /\ Exists(posts[p].parent)
         /\ posts[p].root = posts[p].parent \/ posts[p].root = posts[posts[p].parent].root
    /\ posts[p].type \in Shares => posts[p].age >= MinDelay /\ Exists(posts[p].quoted)

LEMMA LawIsByRow == RowsAreLawful <=> \A p \in Posts : LawfulRow(p)
BY DEF RowsAreLawful, ThreadsAreRooted, SharesAreDue, LawfulRow

LEMMA RefsTyped ==
  ASSUME TablesOK, NEW p \in Posts, posts[p] # None
  PROVE  /\ posts[p] \in Row /\ posts[p].root \in Posts \cup {None}
         /\ posts[p].parent \in Posts \cup {None} /\ posts[p].quoted \in Posts \cup {None}
BY DEF TablesOK, Row

LEMMA RefsOn ==
  ASSUME RowsKept, NEW o \in Posts \cup {None}, Exists(o)
  PROVE  Exists(o)' /\ posts'[o].root = posts[o].root /\ posts'[o].author = posts[o].author
<1>1. o \in Posts /\ posts[o] # None
  BY DEF Exists
<1> QED BY <1>1, ExistsOn DEF RowsKept, SameRow

LEMMA LawfulOn ==
  ASSUME TablesOK, RowsKept, NEW p \in Posts, LawfulRow(p), posts[p] # None
  PROVE  LawfulRow(p)'
<1>1. PICK root \in Posts \cup {None}, parent \in Posts \cup {None}, quoted \in Posts \cup {None} :
        posts[p].root = root /\ posts[p].parent = parent /\ posts[p].quoted = quoted
  BY RefsTyped
<1>2. /\ posts'[p].type = posts[p].type /\ posts'[p].root = root
      /\ posts'[p].parent = parent /\ posts'[p].quoted = quoted
      /\ posts'[p].age = posts[p].age
  BY <1>1 DEF RowsKept, SameRow
<1>3. Exists(p)
  BY ExistsMeans
<1>4. posts[p].type \in Shares => posts[p].age >= MinDelay /\ Exists(quoted)'
  BY <1>1, <1>3, RefsOn DEF LawfulRow
<1>5. CASE root = None
  BY <1>1, <1>2, <1>3, <1>4, <1>5 DEF LawfulRow
<1>6. CASE root # None
  <2>1. Exists(root) /\ Exists(parent)
    BY <1>1, <1>3, <1>6 DEF LawfulRow
  <2>2. /\ Exists(root)' /\ posts'[root].root = posts[root].root
        /\ Exists(parent)' /\ posts'[parent].root = posts[parent].root
    BY <2>1, RefsOn
  <2> QED BY <1>1, <1>2, <1>3, <1>4, <1>6, <2>2 DEF LawfulRow
<1> QED BY <1>5, <1>6

(* Nothing but an insert adds a row.                                       *)
LEMMA LawOn ==
  ASSUME TablesOK, RowsKept, RowsAreLawful,
         \A p \in Posts : posts[p] = None => posts'[p] = None
  PROVE  RowsAreLawful'
<1>1. ASSUME NEW p \in Posts PROVE LawfulRow(p)'
  <2>1. CASE posts[p] = None
    BY <2>1 DEF LawfulRow, Exists
  <2>2. CASE posts[p] # None
    BY <2>2, LawfulOn, LawIsByRow
  <2> QED BY <2>1, <2>2
<1> QED BY <1>1, LawIsByRow DEF RowsAreLawful, ThreadsAreRooted, SharesAreDue, LawfulRow

LEMMA InsertLaw ==
  ASSUME TablesOK, ReqOK, RowsAreLawful, NEW q \in Requests, NEW p \in Posts, InsertPost(q, p)
  PROVE  /\ RowsKept /\ posts' \in [Posts -> Row \cup {None}] /\ RowsAreLawful'
         /\ posts'[p] = RowOf(req[q].draft, req[q].root) /\ posts'[p] # None
<1>0. PICK d \in Draft, root \in Posts \cup {None} :
        d = req[q].draft /\ root = req[q].root /\ root = ThreadRoot(d)
  BY DEF InsertPost, At, ReqOK, LocalOK, DraftOK, Creating, Request
<1>1. Accepted(d) /\ (d.type = "reply" => Exists(d.parent))
  BY <1>0 DEF InsertPost, At, ReqOK, LocalOK, DraftOK, Creating
<1>a. PICK row : row = RowOf(d, root)
  OBVIOUS
<1>2. row \in Row
  BY <1>a DEF RowOf, Draft, Row
<1>3. posts' = [posts EXCEPT ![p] = row] /\ UNCHANGED liked /\ posts[p] = None
  BY <1>0, <1>a, PostIsNoNone DEF InsertPost, IsNewId, Exists
<1>4. RowsKept /\ posts' \in [Posts -> Row \cup {None}]
  BY <1>2, <1>3, InsertKept
<1>5. posts'[p] = row /\ row # None
  BY <1>2, <1>3, DraftsAssumption DEF TablesOK
<1>6. /\ row.type = d.type /\ row.root = root /\ row.parent = d.parent
      /\ row.quoted = d.quoted /\ row.age = d.age
  BY <1>a DEF RowOf
<1>7. d.parent \in Posts \cup {None} /\ d.quoted \in Posts \cup {None} /\ d.age \in Int
  BY DEF Draft, Age
<1>8. LawfulRow(p)'
  <2>1. d.type \in Shares => d.age >= MinDelay /\ Exists(d.quoted)'
    <3> SUFFICES ASSUME d.type \in Shares PROVE d.age >= MinDelay /\ Exists(d.quoted)'
      OBVIOUS
    <3>1. d.age >= MinDelay /\ d.quoted # None
      BY <1>1 DEF Accepted, ValidateShareDelay
    <3>2. Exists(d.quoted)
      BY <1>0, <3>1 DEF InsertPost, KeysExist
    <3> QED BY <1>4, <1>7, <3>1, <3>2, RefsOn
  <2>2. CASE d.type # "reply"
    <3>1. root = None
      BY <1>0, <2>2 DEF ThreadRoot
    <3> QED BY <1>5, <1>6, <2>1, <2>2, <3>1 DEF LawfulRow
  <2>3. CASE d.type = "reply"
    <3>1. d.parent \in Posts /\ posts[d.parent] # None /\ d.parent # None
      BY <1>1, <1>7, <2>3 DEF Exists
    <3>2. LawfulRow(d.parent) /\ Exists(d.parent) /\ posts[d.parent].root \in Posts \cup {None}
      BY <1>1, <2>3, <3>1, LawIsByRow, RefsTyped
    <3>3. Exists(d.parent)' /\ posts'[d.parent].root = posts[d.parent].root
      BY <1>4, <1>7, <3>2, RefsOn
    <3>4. CASE posts[d.parent].root = None
      <4>1. root = d.parent
        BY <1>0, <2>3, <3>4 DEF ThreadRoot
      <4> QED BY <1>5, <1>6, <2>3, <3>1, <3>3, <3>4, <4>1 DEF LawfulRow, Shares
    <3>5. CASE posts[d.parent].root # None
      <4>1. root = posts[d.parent].root
        BY <1>0, <2>3, <3>5 DEF ThreadRoot
      <4>2. Exists(root) /\ posts[root].root = None
        BY <3>2, <3>5, <4>1 DEF LawfulRow
      <4>3. Exists(root)' /\ posts'[root].root = None
        BY <1>4, <4>2, RefsOn
      <4> QED BY <1>5, <1>6, <2>3, <3>3, <3>5, <4>1, <4>3 DEF LawfulRow, Shares
    <3> QED BY <3>4, <3>5
  <2> QED BY <2>2, <2>3
<1>9. ASSUME NEW o \in Posts PROVE LawfulRow(o)'
  <2>1. CASE o = p
    BY <1>8, <2>1
  <2>2. CASE o # p /\ posts[o] = None
    BY <1>3, <2>2 DEF LawfulRow, Exists, TablesOK
  <2>3. CASE o # p /\ posts[o] # None
    BY <1>4, <2>3, LawfulOn, LawIsByRow
  <2> QED BY <2>1, <2>2, <2>3
<1> QED BY <1>0, <1>a, <1>4, <1>5, <1>9 DEF RowsAreLawful, ThreadsAreRooted, SharesAreDue, LawfulRow
------------------------------------------------------------------------------
(* The cause of one notice.                                                *)

Cause(n) ==
  /\ n.to # n.from /\ Exists(n.post)
  /\ n.event = "reaction" => posts[n.post].author = n.to /\ <<n.from, n.post>> \in liked
  /\ n.event = "mention" => posts[n.post].author = n.from /\ posts[n.post].mention = n.to
  /\ n.event = "reply" => /\ posts[n.post].author = n.from
                         /\ Exists(posts[n.post].parent)
                         /\ posts[posts[n.post].parent].author = n.to

LEMMA CauseOn ==
  ASSUME TablesOK, RowsKept, NEW n \in Notice, Cause(n)
  PROVE  Cause(n)'
<1>1. n.post \in Posts /\ posts[n.post] # None
  BY ExistsMeans DEF Cause, Notice
<1>2. PICK parent \in Posts \cup {None} : posts[n.post].parent = parent
  BY <1>1, RefsTyped
<1>3. /\ Exists(n.post)' /\ posts'[n.post].parent = parent
      /\ posts'[n.post].author = posts[n.post].author
      /\ posts'[n.post].mention = posts[n.post].mention
  BY <1>1, <1>2, ExistsOn DEF RowsKept, SameRow
<1>4. n.event = "reply" => Exists(parent)' /\ posts'[parent].author = n.to
  BY <1>2, RefsOn DEF Cause
<1> QED BY <1>3, <1>4 DEF Cause, RowsKept

(* What is left to show of a step of one request.                          *)
LEMMA StepOn ==
  ASSUME IInv, RowsKept, NEW q \in Requests, NEW l, Goto(q, l), LocalOK(l)', TablesOK',
         RowsAreLawful', \A n \in inbox' : n \in inbox \/ Cause(n)'
  PROVE  IInv'
<1>1. ReqOK'
  <2>1. req' = [req EXCEPT ![q] = l] /\ l \in Request
    BY DEF Goto, LocalOK
  <2>2. ASSUME NEW r \in Requests PROVE LocalOK(req[r])'
    <3>1. CASE r = q
      <4>1. req'[r] = l
        BY <2>1, <3>1 DEF IInv, ReqOK
      <4> QED BY <4>1 DEF LocalOK, DraftOK, ActOK
    <3>2. CASE r # q
      <4>1. PICK m : m = req[r]
        OBVIOUS
      <4>2. req'[r] = m /\ LocalOK(m)
        BY <2>1, <3>2, <4>1 DEF IInv, ReqOK
      <4>3. LocalOK(m)'
        BY <4>2, LocalOn DEF IInv
      <4> QED BY <4>2, <4>3 DEF LocalOK, DraftOK, ActOK
    <3> QED BY <3>1, <3>2
  <2> QED BY <2>1, <2>2 DEF IInv, ReqOK
<1>2. ASSUME NEW n \in inbox' PROVE Cause(n)'
  BY <1>2, CauseOn DEF IInv, NoticeHasCause, Cause, TablesOK
<1>3. NoticeHasCause'
  BY <1>2 DEF NoticeHasCause, Cause
<1> QED BY <1>1, <1>3 DEF IInv

LEMMA QuietOn ==
  ASSUME IInv, UNCHANGED tables, NEW q \in Requests, NEW l, Goto(q, l), LocalOK(l)
  PROVE  IInv'
<1>1. RowsKept /\ TablesOK' /\ \A n \in inbox' : n \in inbox
  BY UntouchedKept DEF tables, IInv, TablesOK
<1>2. RowsAreLawful'
  BY <1>1, LawOn DEF IInv, tables
<1> QED BY <1>1, <1>2, StepOn, LocalOn DEF IInv

LEMMA DoneOn == ASSUME IInv, UNCHANGED tables, NEW q \in Requests, Done(q) PROVE IInv'
BY QuietOn, IdleOK DEF Done

(* A request that moves on, its other locals untouched.                    *)
LEMMA MoveKeeps ==
  ASSUME NEW l \in Request, NEW pc
  PROVE  LET m == [l EXCEPT !.pc = pc]
         IN  /\ m.pc = pc /\ m.user = l.user /\ m.post = l.post /\ m.draft = l.draft
             /\ m.root = l.root
BY DEF Request

------------------------------------------------------------------------------
(* The statements that change no table.                                    *)

LEMMA CreateOn == ASSUME IInv, NEW q \in Requests, NEW d \in Drafts, CreatePost(q, d) PROVE IInv'
<1>1. d \in Draft /\ d.author \in Users
  BY DraftsAssumption DEF Draft
<1>2. PICK l : l = [IdleRequest EXCEPT !.pc = IF d.type = "reply" THEN "parent" ELSE "insert",
                                       !.user = d.author, !.draft = d]
  OBVIOUS
<1>3. /\ l.pc = IF d.type = "reply" THEN "parent" ELSE "insert"
      /\ l.user = d.author /\ l.draft = d /\ l.root = None
  BY <1>2 DEF IdleRequest
<1>4. l \in Request
  BY <1>1, <1>2 DEF IdleRequest, Request
<1>5. LocalOK(l)
  BY <1>1, <1>3, <1>4 DEF LocalOK, DraftOK, ActOK, CreatePost, Creating, Created, Acting, ThreadRoot
<1>6. Goto(q, l) /\ UNCHANGED tables
  BY <1>2 DEF CreatePost
<1> QED BY <1>5, <1>6, QuietOn

LEMMA FindOn == ASSUME IInv, NEW q \in Requests, FindParent(q) PROVE IInv'
<1>0. req[q] \in Request /\ LocalOK(req[q]) /\ req[q].pc = "parent" /\ UNCHANGED tables
  BY DEF IInv, ReqOK, FindParent, At
<1>1. CASE Exists(req[q].draft.parent)
  <2>1. PICK l : l = [req[q] EXCEPT !.pc = "insert", !.root = ThreadRoot(req[q].draft)]
    OBVIOUS
  <2>2. /\ l.pc = "insert" /\ l.root = ThreadRoot(req[q].draft) /\ l.draft = req[q].draft
        /\ l.user = req[q].user
    BY <1>0, <2>1 DEF Request
  <2>3. req[q].draft.parent \in Posts /\ posts[req[q].draft.parent] # None
    BY <1>0, <1>1 DEF LocalOK, DraftOK, Creating, Draft, Exists
  <2>4. posts[req[q].draft.parent].root \in Posts \cup {None}
    BY <2>3, RefsTyped DEF IInv
  <2>5. ThreadRoot(req[q].draft) \in Posts \cup {None}
    BY <2>3, <2>4 DEF ThreadRoot
  <2>6. l \in Request
    BY <1>0, <2>1, <2>5 DEF Request
  <2>7. LocalOK(l)
    BY <1>0, <1>1, <2>2, <2>6 DEF LocalOK, DraftOK, ActOK, Creating, Created, Acting
  <2>8. Goto(q, l)
    BY <1>1, <2>1 DEF FindParent
  <2> QED BY <1>0, <2>7, <2>8, QuietOn
<1>2. CASE ~Exists(req[q].draft.parent)
  BY <1>0, <1>2, DoneOn DEF FindParent
<1> QED BY <1>1, <1>2

Pcs == {"idle", "parent", "insert", "fetch", "reply", "mention", "owner", "delete",
        "lookup", "react", "notice", "check", "bookmark", "exists", "report", "refused"}

(* The local state a request moves to, and what it takes to be right.      *)
LEMMA MoveLocal ==
  ASSUME ReqOK, NEW q \in Requests, NEW pc \in Pcs, NEW l, l = [req[q] EXCEPT !.pc = pc],
         pc # "parent", pc # "insert",
         pc \in Created => req[q].pc \in Created,
         pc \in Acting => req[q].pc \in Acting,
         pc \in {"delete", "react", "bookmark", "notice"} => posts[req[q].post] # None,
         pc = "notice" => /\ posts[req[q].post].author # req[q].user
                          /\ Target(q) \in liked
  PROVE  LocalOK(l) /\ l.pc = pc /\ l.user = req[q].user /\ l.post = req[q].post
<1>0. LocalOK(req[q]) /\ req[q] \in Request
  BY DEF ReqOK
<1>1. /\ l.pc = pc /\ l.user = req[q].user /\ l.post = req[q].post /\ l.draft = req[q].draft
      /\ l.root = req[q].root
  BY <1>0 DEF Request
<1>2. l \in Request
  BY <1>0 DEF Request, Pcs
<1>3. DraftOK(l)
  BY <1>0, <1>1 DEF LocalOK, DraftOK, Creating, Created
<1>4. ActOK(l)
  BY <1>0, <1>1 DEF LocalOK, ActOK, Target, Acting
<1> QED BY <1>1, <1>2, <1>3, <1>4 DEF LocalOK

LEMMA MoveOn ==
  ASSUME IInv, UNCHANGED tables, NEW q \in Requests, NEW pc \in Pcs, Move(q, pc),
         pc # "parent", pc # "insert",
         pc \in Created => req[q].pc \in Created,
         pc \in Acting => req[q].pc \in Acting,
         pc \in {"delete", "react", "bookmark", "notice"} => posts[req[q].post] # None,
         pc = "notice" => /\ posts[req[q].post].author # req[q].user
                          /\ Target(q) \in liked
  PROVE  IInv'
<1>1. PICK l : l = [req[q] EXCEPT !.pc = pc]
  OBVIOUS
<1>2. LocalOK(l)
  BY <1>1, MoveLocal DEF IInv
<1>3. Goto(q, l)
  BY <1>1 DEF Move
<1> QED BY <1>2, <1>3, QuietOn

LEMMA AskOn ==
  ASSUME IInv, NEW q \in Requests, NEW u \in Users, NEW p \in Posts \cup {None},
         NEW pc \in {"owner", "lookup", "check", "exists", "report"}, Ask(q, u, p, pc),
         pc # "report" => p # None
  PROVE  IInv'
<1>1. PICK l : l = [IdleRequest EXCEPT !.pc = pc, !.user = u, !.post = p]
  OBVIOUS
<1>2. l \in Request /\ l.pc = pc /\ l.user = u /\ l.post = p
  BY <1>1 DEF IdleRequest, Request
<1>3. LocalOK(l)
  BY <1>2 DEF LocalOK, DraftOK, ActOK, Creating, Created, Acting
<1> QED BY <1>1, <1>3, QuietOn DEF Ask

(* The lookups.                                                            *)
LEMMA LookupOn ==
  ASSUME IInv, NEW q \in Requests,
         \/ FetchCreated(q) \/ CheckOwner(q) \/ LookupAuthor(q) \/ CheckPost(q)
         \/ CheckReported(q) \/ SubmitReport(q) \/ ReportFailed(q) \/ InsertRefused(q) \/ Abort(q)
  PROVE  IInv'
<1> USE DEF At, Pcs, Created, Acting
<1>0. UNCHANGED tables
  BY DEF FetchCreated, CheckOwner, LookupAuthor, CheckPost, CheckReported, SubmitReport,
         ReportFailed, InsertRefused, Abort
<1>1. CASE Done(q)
  BY <1>0, <1>1, DoneOn
<1>2. CASE FetchCreated(q)
  BY <1>0, <1>2, MoveOn DEF FetchCreated
<1>3. CASE CheckOwner(q) /\ ~Done(q)
  <2>1. Move(q, "delete") /\ req[q].pc = "owner" /\ posts[req[q].post] # None
    BY <1>3 DEF CheckOwner, Exists
  <2> QED BY <1>0, <2>1, MoveOn
<1>4. CASE LookupAuthor(q) /\ ~Done(q)
  <2>1. Move(q, "react") /\ req[q].pc = "lookup" /\ posts[req[q].post] # None
    BY <1>4 DEF LookupAuthor, Live, Exists
  <2> QED BY <1>0, <2>1, MoveOn
<1>5. CASE CheckPost(q) /\ ~Done(q)
  <2>1. Move(q, "bookmark") /\ req[q].pc = "check" /\ posts[req[q].post] # None
    BY <1>5 DEF CheckPost, Live, Exists
  <2> QED BY <1>0, <2>1, MoveOn
<1>6. CASE CheckReported(q) /\ ~Done(q)
  BY <1>0, <1>6, MoveOn DEF CheckReported
<1>7. CASE SubmitReport(q)
  BY <1>0, <1>7, MoveOn DEF SubmitReport
<1>8. CASE ReportFailed(q) \/ InsertRefused(q) \/ Abort(q)
  BY <1>0, <1>1, <1>8 DEF ReportFailed, InsertRefused, Abort
<1> QED BY <1>1, <1>2, <1>3, <1>4, <1>5, <1>6, <1>7, <1>8

------------------------------------------------------------------------------
(* The statements that write.                                              *)

LEMMA InsertOn ==
  ASSUME IInv, NEW q \in Requests, NEW p \in Posts, InsertPost(q, p) PROVE IInv'
<1>1. /\ RowsKept /\ posts' \in [Posts -> Row \cup {None}] /\ RowsAreLawful'
      /\ posts'[p] = RowOf(req[q].draft, req[q].root) /\ posts'[p] # None
  BY InsertLaw DEF IInv
<1>2. TablesOK' /\ inbox' = inbox
  BY <1>1 DEF InsertPost, IInv, TablesOK
<1>3. PICK l : l = [req[q] EXCEPT !.pc = "fetch", !.post = p]
  OBVIOUS
<1>4. req[q] \in Request /\ LocalOK(req[q]) /\ req[q].pc = "insert"
  BY DEF IInv, ReqOK, InsertPost, At
<1>5. /\ l \in Request /\ l.pc = "fetch" /\ l.post = p /\ l.user = req[q].user
      /\ l.draft = req[q].draft
  BY <1>3, <1>4 DEF Request
<1>6. LocalOK(l)'
  <2>1. l.draft \in Draft /\ Accepted(l.draft) /\ l.user = l.draft.author
    BY <1>4, <1>5 DEF LocalOK, DraftOK, Creating
  <2>2. /\ posts'[p].author = l.user /\ posts'[p].type = l.draft.type
        /\ posts'[p].parent = l.draft.parent /\ posts'[p].mention = l.draft.mention
    BY <1>1, <1>5, <2>1 DEF RowOf
  <2>3. Accepted(l.draft)'
    BY <2>1 DEF Accepted, ValidateShareDelay
  <2> QED BY <1>1, <1>5, <2>1, <2>2, <2>3 DEF LocalOK, DraftOK, ActOK, Creating, Created, Acting
<1>7. Goto(q, l)
  BY <1>3 DEF InsertPost
<1> QED BY <1>1, <1>2, <1>6, <1>7, StepOn

LEMMA DeleteOn == ASSUME IInv, NEW q \in Requests, SoftDelete(q) PROVE IInv'
<1>1. req[q].post \in Posts /\ posts[req[q].post] # None
  BY DEF SoftDelete, At, IInv, ReqOK, LocalOK, ActOK, Acting
<1>2. RowsKept /\ posts' \in [Posts -> Row \cup {None}]
  BY <1>1, MarkKept DEF SoftDelete, IInv
<1>3. TablesOK' /\ inbox' = inbox
  BY <1>2 DEF SoftDelete, IInv, TablesOK
<1>4. \A o \in Posts : posts[o] = None => posts'[o] = None
  BY <1>1 DEF SoftDelete, IInv, TablesOK
<1>5. RowsAreLawful'
  BY <1>2, <1>4, LawOn DEF IInv
<1>6. LocalOK(IdleRequest)'
  BY IdleTyped DEF LocalOK, DraftOK, ActOK, Creating, Created, Acting
<1> QED BY <1>2, <1>3, <1>5, <1>6, StepOn DEF SoftDelete, Done

(* A notice that is published, to another user, for a cause there is.      *)
LEMMA PublishOn ==
  ASSUME IInv, NEW q \in Requests, UNCHANGED <<posts, reactions, bookmarks, liked>>,
         NEW n \in Notice, Publish(n) \/ UNCHANGED inbox, n.to # n.from => Cause(n),
         NEW l, Goto(q, l), LocalOK(l)
  PROVE  IInv'
<1>1. RowsKept
  BY UntouchedKept DEF IInv
<1>2. RowsAreLawful'
  BY <1>1, LawOn DEF IInv
<1>3. inbox' = inbox \/ (n.to # n.from /\ inbox' = inbox \cup {n})
  <2>1. CASE UNCHANGED inbox
    BY <2>1
  <2>2. CASE Publish(n) /\ n.to = n.from
    BY <2>2 DEF Publish
  <2>3. CASE Publish(n) /\ n.to # n.from
    BY <2>3 DEF Publish
  <2> QED BY <2>1, <2>2, <2>3
<1>4. TablesOK'
  BY <1>3 DEF IInv, TablesOK
<1>5. n.to # n.from => Cause(n)'
  BY <1>1, CauseOn DEF IInv
<1> QED BY <1>1, <1>2, <1>3, <1>4, <1>5, StepOn, LocalOn DEF IInv

LEMMA ReplyOn == ASSUME IInv, NEW q \in Requests, PublishReply(q) PROVE IInv'
<1>0. /\ req[q] \in Request /\ LocalOK(req[q]) /\ req[q].pc = "reply"
      /\ UNCHANGED <<posts, reactions, bookmarks, liked>>
  BY DEF IInv, ReqOK, PublishReply, At
<1>1. PICK l : l = [req[q] EXCEPT !.pc = "mention"]
  OBVIOUS
<1>2. LocalOK(l)
  BY <1>0, <1>1, MoveLocal DEF IInv, Pcs, Created, Acting
<1>3. Goto(q, l)
  BY <1>1 DEF PublishReply, Move
<1>4. CASE req[q].draft.type # "reply"
  <2>1. UNCHANGED tables
    BY <1>0, <1>4 DEF PublishReply, tables
  <2> QED BY <1>2, <1>3, <2>1, QuietOn
<1>5. CASE req[q].draft.type = "reply"
  <2>1. /\ req[q].post \in Posts /\ posts[req[q].post] # None /\ req[q].draft \in Draft
        /\ posts[req[q].post].author = req[q].user /\ posts[req[q].post].type = "reply"
        /\ posts[req[q].post].parent = req[q].draft.parent /\ req[q].user \in Users
    BY <1>0, <1>5 DEF LocalOK, DraftOK, Creating, Created, Draft
  <2>2. LawfulRow(req[q].post) /\ Exists(req[q].post)
    BY <2>1, LawIsByRow, ExistsMeans DEF IInv
  <2>3. req[q].draft.parent \in Posts /\ posts[req[q].draft.parent] # None
    BY <2>1, <2>2 DEF LawfulRow, Exists, Draft
  <2>4. posts[req[q].draft.parent].author \in Users
    BY <2>3, RefsTyped DEF IInv, Row
  <2>5. PICK n : n = [to |-> posts[req[q].draft.parent].author, from |-> req[q].user,
                      event |-> "reply", post |-> req[q].post]
    OBVIOUS
  <2>6. n \in Notice /\ (n.to # n.from => Cause(n))
    BY <2>1, <2>2, <2>3, <2>4, <2>5, ExistsMeans DEF Notice, Cause
  <2>7. Publish(n)
    BY <1>5, <2>5 DEF PublishReply
  <2> QED BY <1>0, <1>2, <1>3, <2>6, <2>7, PublishOn
<1> QED BY <1>4, <1>5

LEMMA MentionOn == ASSUME IInv, NEW q \in Requests, PublishMention(q) PROVE IInv'
<1>0. /\ req[q] \in Request /\ LocalOK(req[q]) /\ req[q].pc = "mention" /\ Goto(q, IdleRequest)
      /\ UNCHANGED <<posts, reactions, bookmarks, liked>>
  BY DEF IInv, ReqOK, PublishMention, At, Done
<1>1. CASE req[q].draft.mention = None
  <2>1. UNCHANGED tables
    BY <1>0, <1>1 DEF PublishMention, tables
  <2> QED BY <1>0, <2>1, IdleOK, QuietOn
<1>2. CASE req[q].draft.mention # None
  <2>1. /\ req[q].post \in Posts /\ posts[req[q].post] # None /\ req[q].draft \in Draft
        /\ posts[req[q].post].author = req[q].user
        /\ posts[req[q].post].mention = req[q].draft.mention /\ req[q].user \in Users
        /\ req[q].draft.mention \in Users
    BY <1>0, <1>2 DEF LocalOK, DraftOK, Creating, Created, Draft
  <2>2. PICK n : n = [to |-> req[q].draft.mention, from |-> req[q].user,
                      event |-> "mention", post |-> req[q].post]
    OBVIOUS
  <2>3. n \in Notice /\ (n.to # n.from => Cause(n))
    BY <2>1, <2>2, ExistsMeans DEF Notice, Cause
  <2>4. Publish(n)
    BY <1>2, <2>2 DEF PublishMention
  <2> QED BY <1>0, <2>3, <2>4, IdleOK, PublishOn
<1> QED BY <1>1, <1>2

LEMMA ReactionOn == ASSUME IInv, NEW q \in Requests, PublishReaction(q) PROVE IInv'
<1>1. /\ req[q].post \in Posts /\ posts[req[q].post] # None /\ req[q].user \in Users
      /\ Target(q) \in liked
      /\ UNCHANGED <<posts, reactions, bookmarks, liked>> /\ Goto(q, IdleRequest)
  BY DEF IInv, ReqOK, LocalOK, ActOK, PublishReaction, At, Acting, Target, Done
<1>2. posts[req[q].post].author \in Users
  BY <1>1, RefsTyped DEF IInv, Row
<1>3. PICK n : n = [to |-> posts[req[q].post].author, from |-> req[q].user,
                    event |-> "reaction", post |-> req[q].post]
  OBVIOUS
<1>4. n \in Notice /\ (n.to # n.from => Cause(n))
  BY <1>1, <1>2, <1>3, ExistsMeans DEF Notice, Cause, Target
<1>5. Publish(n)
  BY <1>3 DEF PublishReaction
<1> QED BY <1>1, <1>4, <1>5, IdleOK, PublishOn

(* Likes and bookmarks.                                                    *)
LEMMA TogglesOn ==
  ASSUME IInv, UNCHANGED <<posts, inbox>>, liked \subseteq liked',
         reactions' \subseteq liked', liked' \subseteq Users \X Posts,
         bookmarks' \subseteq Users \X Posts
  PROVE  RowsKept /\ TablesOK' /\ RowsAreLawful' /\ \A n \in inbox' : n \in inbox
<1>1. RowsKept
  BY UntouchedKept DEF IInv
<1> QED BY <1>1, LawOn DEF IInv, TablesOK

LEMMA ReactOn == ASSUME IInv, NEW q \in Requests, React(q) PROVE IInv'
<1>1. /\ req[q].post \in Posts /\ posts[req[q].post] # None /\ req[q].user \in Users
      /\ req[q].pc = "react" /\ ReqOK
  BY DEF IInv, ReqOK, LocalOK, ActOK, React, At, Acting
<1>2. /\ RowsKept /\ TablesOK' /\ RowsAreLawful' /\ \A n \in inbox' : n \in inbox
      /\ liked' = liked \cup {Target(q)} /\ posts' = posts
  BY <1>1, TogglesOn DEF React, IInv, TablesOK, Target
<1>3. CASE Done(q)
  <2>1. LocalOK(IdleRequest)'
    BY IdleOK, <1>2, LocalOn DEF IInv
  <2> QED BY <1>2, <1>3, <2>1, StepOn DEF Done
<1>4. CASE Move(q, "notice") /\ posts[req[q].post].author # req[q].user
  <2>1. PICK l : l = [req[q] EXCEPT !.pc = "notice"]
    OBVIOUS
  <2>2. /\ l \in Request /\ l.pc = "notice" /\ l.user = req[q].user /\ l.post = req[q].post
    BY <1>1, <2>1 DEF ReqOK, Request
  <2>3. LocalOK(l)'
    BY <1>1, <1>2, <1>4, <2>2 DEF LocalOK, DraftOK, ActOK, Creating, Created, Acting, Target
  <2>4. Goto(q, l)
    BY <1>4, <2>1 DEF Move
  <2> QED BY <1>2, <2>3, <2>4, StepOn
<1> QED BY <1>3, <1>4 DEF React

LEMMA BookmarkOn == ASSUME IInv, NEW q \in Requests, InsertBookmark(q) PROVE IInv'
<1>1. req[q].post \in Posts /\ req[q].user \in Users /\ Goto(q, IdleRequest)
  BY DEF IInv, ReqOK, LocalOK, ActOK, InsertBookmark, At, Acting, Done
<1>2. RowsKept /\ TablesOK' /\ RowsAreLawful' /\ \A n \in inbox' : n \in inbox
  BY <1>1, TogglesOn DEF InsertBookmark, IInv, TablesOK, Target
<1> QED BY <1>1, <1>2, IdleOK, LocalOn, StepOn DEF IInv

LEMMA UndoOn ==
  ASSUME IInv, NEW u \in Fans, NEW p \in Touched, Unreact(u, p) \/ RemoveBookmark(u, p)
  PROVE  IInv'
<1>1. RowsKept /\ TablesOK' /\ RowsAreLawful' /\ UNCHANGED <<posts, inbox, liked, req>>
  BY TogglesOn DEF Unreact, RemoveBookmark, IInv, TablesOK
<1>2. ReqOK' /\ NoticeHasCause'
  BY <1>1 DEF IInv, ReqOK, LocalOK, DraftOK, ActOK, NoticeHasCause, Exists, ThreadRoot,
              Accepted, ValidateShareDelay
<1> QED BY <1>1, <1>2 DEF IInv

------------------------------------------------------------------------------
LEMMA InvariantStarts == Init => IInv
<1> SUFFICES ASSUME Init PROVE IInv
  OBVIOUS
<1>1. TablesOK /\ NoticeHasCause
  BY DEF Init, TablesOK, NoticeHasCause
<1>2. ReqOK
  BY IdleTyped, IdleOK DEF Init, ReqOK
<1>3. RowsAreLawful
  BY DEF Init, RowsAreLawful, ThreadsAreRooted, SharesAreDue, Exists
<1> QED BY <1>1, <1>2, <1>3 DEF IInv

LEMMA BeginOn == ASSUME IInv, NEW q \in Requests, Begin(q) PROVE IInv'
<1>0. Touched \subseteq Posts /\ Fans \subseteq Users
  BY BoundsAssumption
<1>1. CASE \E d \in Drafts : CreatePost(q, d)
  BY <1>1, CreateOn
<1>2. ASSUME NEW u \in Users, NEW p \in Touched, DeletePost(q, u, p) PROVE IInv'
  BY <1>0, <1>2, AskOn, PostIsNoNone DEF DeletePost
<1>3. ASSUME NEW u \in Fans, NEW p \in Touched,
             ReactToPost(q, u, p) \/ AddBookmark(q, u, p) \/ ReportPost(q, u, p)
      PROVE  IInv'
  BY <1>0, <1>3, AskOn, PostIsNoNone DEF ReactToPost, AddBookmark, ReportPost
<1>4. ASSUME NEW u \in Fans, NEW v \in Users, ReportUser(q, u, v) PROVE IInv'
  BY <1>0, <1>4, AskOn DEF ReportUser
<1> QED BY <1>1, <1>2, <1>3, <1>4 DEF Begin

LEMMA InvariantKept == IInv /\ [Next]_vars => IInv'
<1> SUFFICES ASSUME IInv, [Next]_vars PROVE IInv'
  OBVIOUS
<1>1. ASSUME NEW q \in Requests, Begin(q) \/ Work(q) \/ Abort(q) PROVE IInv'
  <2>1. CASE Begin(q)
    BY <2>1, BeginOn
  <2>2. CASE FindParent(q) \/ PublishReply(q) \/ PublishMention(q) \/ PublishReaction(q)
    BY <2>2, FindOn, ReplyOn, MentionOn, ReactionOn
  <2>3. CASE \/ FetchCreated(q) \/ CheckOwner(q) \/ LookupAuthor(q) \/ CheckPost(q)
             \/ CheckReported(q) \/ SubmitReport(q) \/ ReportFailed(q) \/ InsertRefused(q)
             \/ Abort(q)
    BY <2>3, LookupOn
  <2>4. CASE (\E p \in Posts : InsertPost(q, p)) \/ SoftDelete(q)
    BY <2>4, InsertOn, DeleteOn
  <2>5. CASE React(q) \/ InsertBookmark(q)
    BY <2>5, ReactOn, BookmarkOn
  <2> QED BY <1>1, <2>1, <2>2, <2>3, <2>4, <2>5 DEF Work
<1>2. CASE \E u \in Fans, p \in Touched : Unreact(u, p) \/ RemoveBookmark(u, p)
  BY <1>2, UndoOn
<1>3. CASE UNCHANGED vars
  BY <1>3 DEF vars, tables, IInv, TablesOK, ReqOK, LocalOK, DraftOK, ActOK, RowsAreLawful,
     ThreadsAreRooted, SharesAreDue, NoticeHasCause, Exists, ThreadRoot, Accepted, ValidateShareDelay
<1> QED BY <1>1, <1>2, <1>3 DEF Next

(* Rows, notices and requests keep their shape.                            *)
THEOREM TypeCorrect == Spec => []TypeOK
<1>1. IInv => TypeOK
  BY DEF IInv, TablesOK, ReqOK, TypeOK
<1> QED BY <1>1, InvariantStarts, InvariantKept, PTL DEF Spec

(* Threads are rooted and shares are due, whatever is deleted meanwhile.   *)
THEOREM RowsStayLawful == Spec => []RowsAreLawful
BY InvariantStarts, InvariantKept, PTL DEF Spec, IInv

(* Nobody is told of something that did not happen to him.                 *)
THEOREM NoticesHaveCause == Spec => []NoticeHasCause
BY InvariantStarts, InvariantKept, PTL DEF Spec, IInv

------------------------------------------------------------------------------
(* Deletions.                                                              *)

TargetsLive == \A q \in Requests : OnPost(q) => Live(req[q].post)

(* Where a step takes a request, if not to act on a post.                  *)
LEMMA GotoMeans ==
  ASSUME ReqOK, NEW q \in Requests, NEW l, Goto(q, l)
  PROVE  req'[q] = l /\ \A r \in Requests \ {q} : req'[r] = req[r]
BY DEF Goto, ReqOK

LEMMA MoveMeans ==
  ASSUME ReqOK, NEW q \in Requests, NEW pc, Move(q, pc)
  PROVE  /\ req'[q].pc = pc /\ req'[q].post = req[q].post
         /\ \A r \in Requests \ {q} : req'[r] = req[r]
<1>1. PICK l : l = [req[q] EXCEPT !.pc = pc]
  OBVIOUS
<1>2. l.pc = pc /\ l.post = req[q].post
  BY <1>1 DEF ReqOK, Request
<1>3. Goto(q, l)
  BY <1>1 DEF Move
<1> QED BY <1>2, <1>3, GotoMeans

LEMMA AskMeans ==
  ASSUME ReqOK, NEW q \in Requests, NEW u, NEW p, NEW pc, Ask(q, u, p, pc)
  PROVE  /\ req'[q].pc = pc /\ req'[q].post = p
         /\ \A r \in Requests \ {q} : req'[r] = req[r]
<1>1. PICK l : l = [IdleRequest EXCEPT !.pc = pc, !.user = u, !.post = p]
  OBVIOUS
<1>2. l.pc = pc /\ l.post = p
  BY <1>1 DEF IdleRequest
<1>3. Goto(q, l)
  BY <1>1 DEF Ask
<1> QED BY <1>2, <1>3, GotoMeans

(* A request that begins to act on a post has just seen it undeleted.      *)
LEMMA BeginsLive ==
  ASSUME IInv, NEW q \in Requests, Begin(q) \/ Work(q) \/ Abort(q)
  PROVE  /\ \A r \in Requests \ {q} : req'[r] = req[r]
         /\ OnPost(q)' => UNCHANGED posts /\ Live(req'[q].post)
<1> DEFINE Elsewhere == /\ \A r \in Requests \ {q} : req'[r] = req[r]
                       /\ ~OnPost(q)'
<1>0. ReqOK /\ req[q] \in Request
  BY DEF IInv, ReqOK
<1>1. ASSUME Done(q) PROVE Elsewhere
  BY <1>0, <1>1, GotoMeans, IdleTyped DEF Done, OnPost
<1>2. ASSUME NEW pc \in Pcs \ {"react", "bookmark", "report"}, Move(q, pc) PROVE Elsewhere
  BY <1>0, <1>2, MoveMeans DEF OnPost
<1>3. ASSUME Begin(q) PROVE Elsewhere
  <2>1. ASSUME NEW d \in Drafts, CreatePost(q, d) PROVE Elsewhere
    <3>1. PICK l : l = [IdleRequest EXCEPT !.pc = IF d.type = "reply" THEN "parent" ELSE "insert",
                                           !.user = d.author, !.draft = d]
      OBVIOUS
    <3>2. l.pc \in {"parent", "insert"}
      BY <3>1 DEF IdleRequest
    <3>3. Goto(q, l)
      BY <2>1, <3>1 DEF CreatePost
    <3> QED BY <1>0, <3>2, <3>3, GotoMeans DEF OnPost
  <2>2. ASSUME NEW u, NEW p, DeletePost(q, u, p) \/ ReactToPost(q, u, p)
                             \/ AddBookmark(q, u, p) \/ ReportPost(q, u, p)
        PROVE  Elsewhere
    BY <1>0, <2>2, AskMeans DEF DeletePost, ReactToPost, AddBookmark, ReportPost, OnPost
  <2>3. ASSUME NEW u, NEW v, ReportUser(q, u, v) PROVE Elsewhere
    BY <1>0, <2>3, AskMeans DEF ReportUser, OnPost
  <2> QED BY <1>3, <2>1, <2>2, <2>3 DEF Begin
<1>4. ASSUME FindParent(q) PROVE Elsewhere
  <2>1. CASE Exists(req[q].draft.parent)
    <3>1. PICK l : l = [req[q] EXCEPT !.pc = "insert", !.root = ThreadRoot(req[q].draft)]
      OBVIOUS
    <3>2. l.pc = "insert" /\ Goto(q, l)
      BY <1>0, <1>4, <2>1, <3>1 DEF FindParent, Request
    <3> QED BY <1>0, <3>2, GotoMeans DEF OnPost
  <2> QED BY <1>1, <1>4, <2>1 DEF FindParent
<1>5. ASSUME NEW p \in Posts, InsertPost(q, p) PROVE Elsewhere
  <2>1. PICK l : l = [req[q] EXCEPT !.pc = "fetch", !.post = p]
    OBVIOUS
  <2>2. l.pc = "fetch" /\ Goto(q, l)
    BY <1>0, <1>5, <2>1 DEF InsertPost, Request
  <2> QED BY <1>0, <2>2, GotoMeans DEF OnPost
<1>6. ASSUME LookupAuthor(q) \/ CheckPost(q) \/ CheckReported(q), ~Done(q)
      PROVE  /\ \A r \in Requests \ {q} : req'[r] = req[r]
             /\ UNCHANGED posts /\ Live(req'[q].post)
  <2>1. Live(req[q].post) /\ UNCHANGED posts
    BY <1>6 DEF LookupAuthor, CheckPost, CheckReported, tables
  <2>2. Move(q, "react") \/ Move(q, "bookmark") \/ Move(q, "report")
    BY <1>6 DEF LookupAuthor, CheckPost, CheckReported
  <2> QED BY <1>0, <2>1, <2>2, MoveMeans
<1>7. ASSUME \/ FetchCreated(q) \/ PublishReply(q) \/ CheckOwner(q) \/ React(q) \/ SubmitReport(q)
      PROVE  Elsewhere
  <2>1. Done(q) \/ Move(q, "reply") \/ Move(q, "mention") \/ Move(q, "delete")
                \/ Move(q, "notice") \/ Move(q, "refused")
    BY <1>7 DEF FetchCreated, PublishReply, CheckOwner, React, SubmitReport
  <2> QED BY <1>1, <1>2, <2>1 DEF Pcs
<1>8. ASSUME \/ InsertRefused(q) \/ PublishMention(q) \/ SoftDelete(q) \/ PublishReaction(q)
             \/ InsertBookmark(q) \/ ReportFailed(q) \/ Abort(q)
      PROVE  Elsewhere
  BY <1>1, <1>8 DEF InsertRefused, PublishMention, SoftDelete, PublishReaction, InsertBookmark,
     ReportFailed, Abort
<1> QED BY <1>1, <1>3, <1>4, <1>5, <1>6, <1>7, <1>8 DEF Work

(* A post is deleted by one who is about to, and no one acts on it then.   *)
LEMMA StaysLive ==
  ASSUME IInv, NoOverlap, NEW q \in Requests, NEW r \in Requests, OnPost(r), Live(req[r].post),
         Begin(q) \/ Work(q) \/ Abort(q)
  PROVE  Live(req[r].post)'  \/ req'[r] # req[r]
<1> SUFFICES ASSUME req'[r] = req[r] PROVE Live(req[r].post)'
  OBVIOUS
<1>1. PICK p : p = req[r].post
  OBVIOUS
<1>2. p \in Posts /\ posts[p] # None /\ ~posts[p].deleted /\ req'[r].post = p
  BY <1>1 DEF Live, Exists, OnPost, IInv, ReqOK, LocalOK, Request
<1>3. CASE UNCHANGED posts
  BY <1>1, <1>3 DEF Live, Exists
<1>4. CASE SoftDelete(q)
  <2>1. req[q].post # p /\ posts' = [posts EXCEPT ![req[q].post].deleted = TRUE]
    BY <1>1, <1>4 DEF NoOverlap, SoftDelete
  <2>2. posts'[p] = posts[p]
    BY <1>2, <2>1 DEF IInv, TablesOK
  <2> QED BY <1>1, <1>2, <2>2, PostIsNoNone DEF Live, Exists
<1>5. ASSUME NEW o \in Posts, InsertPost(q, o) PROVE Live(req[r].post)'
  <2>1. o # p
    BY <1>2, <1>5, PostIsNoNone DEF InsertPost, IsNewId, Exists
  <2>2. posts'[p] = posts[p]
    BY <1>2, <1>5, <2>1 DEF InsertPost, IInv, TablesOK
  <2> QED BY <1>1, <1>2, <2>2, PostIsNoNone DEF Live, Exists
<1>6. UNCHANGED posts \/ SoftDelete(q) \/ \E o \in Posts : InsertPost(q, o)
  <2>1. CASE Begin(q) \/ Abort(q)
    BY <2>1 DEF Begin, Abort, CreatePost, DeletePost, ReactToPost, AddBookmark, ReportPost, ReportUser,
                Ask, tables
  <2>2. CASE Work(q)
    BY <2>2 DEF Work, FindParent, InsertRefused, FetchCreated, PublishReply, PublishMention,
       CheckOwner, LookupAuthor, React, PublishReaction, CheckPost, InsertBookmark, CheckReported,
       SubmitReport, ReportFailed, tables
  <2> QED BY <2>1, <2>2
<1> QED BY <1>3, <1>4, <1>5, <1>6

LEMMA TargetsStayLive == IInv /\ TargetsLive /\ NoOverlap /\ [Next]_vars => TargetsLive'
<1> SUFFICES ASSUME IInv, TargetsLive, NoOverlap, [Next]_vars PROVE TargetsLive'
  OBVIOUS
<1>1. ASSUME NEW q \in Requests, Begin(q) \/ Work(q) \/ Abort(q) PROVE TargetsLive'
  <2>1. ASSUME NEW r \in Requests, OnPost(r)' PROVE Live(req[r].post)'
    <3>1. CASE r = q
      BY <1>1, <2>1, <3>1, BeginsLive DEF Live, Exists
    <3>2. CASE r # q
      <4>1. req'[r] = req[r]
        BY <1>1, <3>2, BeginsLive
      <4>2. OnPost(r) /\ Live(req[r].post)
        BY <2>1, <4>1 DEF OnPost, TargetsLive
      <4> QED BY <1>1, <4>1, <4>2, StaysLive
    <3> QED BY <3>1, <3>2
  <2> QED BY <2>1 DEF TargetsLive
<1>2. CASE \E u \in Fans, p \in Touched : Unreact(u, p) \/ RemoveBookmark(u, p)
  BY <1>2 DEF Unreact, RemoveBookmark, TargetsLive, OnPost, Live, Exists
<1>3. CASE UNCHANGED vars
  BY <1>3 DEF vars, tables, TargetsLive, OnPost, Live, Exists
<1> QED BY <1>1, <1>2, <1>3 DEF Next

(* None acts on a deleted post but where a deletion falls between the      *)
(* lookup and the write.                                                   *)
THEOREM TargetsAreLive == Spec => LiveTargets
<1>1. Init => TargetsLive
  BY IdleTyped DEF Init, TargetsLive, OnPost
<1> QED BY <1>1, InvariantStarts, InvariantKept, TargetsStayLive, PTL
        DEF Spec, LiveTargets, TargetsLive
==============================================================================
