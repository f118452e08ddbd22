--------------------------------- MODULE Posts ---------------------------------
(***************************************************************************)
(* Posts and what users do to them: threads, quotes and reposts (post/),   *)
(* reactions (reaction/), bookmarks (bookmark/), reports of posts          *)
(* (report/) and the notifications that follow (notification/).            *)
(* Posts are deleted softly: the row stays and is marked.  A request looks *)
(* its post up in one statement and acts on it in another, so a deletion   *)
(* may fall between the two.                                               *)
(***************************************************************************)
EXTENDS Integers

CONSTANTS
  Users,        \* accounts
  Requests,     \* requests that the server handles at one time
  None,         \* no user, no post
  MaxPosts,     \* posts that are created (a bound)
  Drafts,       \* requests to create a post (a bound)
  Touched,      \* posts that are deleted, liked, bookmarked or reported (a bound)
  Fans          \* users who like, bookmark and report (a bound)

Posts == 1..MaxPosts

ASSUME NoneAssumption == None \notin Users /\ None \notin Int
ASSUME BoundsAssumption ==
  /\ MaxPosts \in Nat
  /\ Touched \subseteq Posts /\ Fans \subseteq Users

VARIABLES
  posts,        \* posts and post_mentions, None where no row is
  reactions,    \* reactions: <<user_id, post_id>>
  bookmarks,    \* bookmarks: <<user_id, post_id>>
  inbox,        \* notifications
  liked,        \* history: the reactions there have ever been
  req           \* the local state of each request

tables == <<posts, reactions, bookmarks, inbox, liked>>
vars == <<tables, req>>

PostType == {"original", "reply", "quote", "repost"}
Shares == {"quote", "repost"}

(* age: seconds from share_initiated_at to the server's clock; five: the   *)
(* content has five distinct words.                                        *)
Age == {-31, -6, 4, 5}
Draft ==
  [author : Users, type : PostType, parent : Posts \cup {None},
   quoted : Posts \cup {None}, mention : Users \cup {None}, age : Age, five : BOOLEAN]
Row ==
  [author : Users, type : PostType, parent : Posts \cup {None},
   root : Posts \cup {None}, quoted : Posts \cup {None}, mention : Users \cup {None},
   age : Age, deleted : BOOLEAN]
ASSUME DraftsAssumption == Drafts \subseteq Draft /\ None \notin Row
Notice ==
  [to : Users, from : Users, event : {"reply", "mention", "reaction"}, post : Posts]

Request ==
  [pc : {"idle", "parent", "insert", "fetch", "reply", "mention", "owner", "delete",
         "lookup", "react", "notice", "check", "bookmark", "exists", "report", "refused"},
   user : Users \cup {None}, post : Posts \cup {None}, draft : Draft \cup {None},
   root : Posts \cup {None}]
IdleRequest ==
  [pc |-> "idle", user |-> None, post |-> None, draft |-> None, root |-> None]

Init ==
  /\ posts = [p \in Posts |-> None]
  /\ reactions = {} /\ bookmarks = {} /\ inbox = {} /\ liked = {}
  /\ req = [q \in Requests |-> IdleRequest]

At(q, pc) == req[q].pc = pc
Goto(q, local) == req' = [req EXCEPT ![q] = local]
Move(q, pc) == Goto(q, [req[q] EXCEPT !.pc = pc])
Done(q) == Goto(q, IdleRequest)
Target(q) == <<req[q].user, req[q].post>>

(* GetByID finds deleted posts too.                                        *)
Exists(p) == p # None /\ posts[p] # None
Live(p) == Exists(p) /\ ~posts[p].deleted

------------------------------------------------------------------------------
(* What CreatePost asks of a request.                                      *)

(* validateShareDelay, and one that takes the distance of the two clocks.  *)
Skew == 30
MinDelay == 5
ClocksApart(age) == (IF age < 0 THEN -age ELSE age) >= MinDelay
ValidateShareDelay(age) == age >= -Skew /\ age >= MinDelay

(* Only a reply needs a parent; another post may carry one all the same.   *)
Accepted(d) ==
  /\ d.type = "reply" => d.parent # None
  /\ d.type \in Shares => d.quoted # None /\ ValidateShareDelay(d.age)
  /\ d.type = "quote" => d.five
  /\ d.type = "repost" => d.mention = None

(* posts_repost_unique_per_author covers the reposts that are not deleted.  *)
Refused(d) ==
  /\ d.type = "repost"
  /\ \E p \in Posts : /\ Live(p)
                      /\ posts[p].type = "repost"
                      /\ posts[p].author = d.author
                      /\ posts[p].quoted = d.quoted

(* The root of the thread a reply joins, and its parent in any case.       *)
RootIsParent(d) == IF d.type # "reply" THEN None ELSE d.parent
ThreadRoot(d) ==
  IF d.type # "reply" THEN None
  ELSE IF posts[d.parent].root # None THEN posts[d.parent].root ELSE d.parent

(* Publish: no notice to oneself, one row per recipient, actor, event and  *)
(* post.  A failure is logged and passed over.                             *)
Publish(n) == inbox' \in {inbox, IF n.to = n.from THEN inbox ELSE inbox \cup {n}}

(* A new id, UUID v7.                                                      *)
IsNewId(p) == ~Exists(p) /\ \A o \in Posts : o < p => Exists(o)

------------------------------------------------------------------------------
(* Create a post.                                                          *)

CreatePost(q, d) ==
  /\ At(q, "idle")
  /\ Accepted(d)
  /\ Goto(q, [IdleRequest EXCEPT !.pc = IF d.type = "reply" THEN "parent" ELSE "insert",
                                 !.user = d.author, !.draft = d])
  /\ UNCHANGED tables

FindParent(q) ==
  /\ At(q, "parent")
  /\ IF Exists(req[q].draft.parent)
     THEN Goto(q, [req[q] EXCEPT !.pc = "insert", !.root = ThreadRoot(req[q].draft)])
     ELSE Done(q)
  /\ UNCHANGED tables

(* The transaction of Create: the foreign keys, the unique index, the row  *)
(* and its mentions.                                                       *)
KeysExist(d) ==
  (d.parent = None \/ Exists(d.parent)) /\ (d.quoted = None \/ Exists(d.quoted))
RowOf(d, root) ==
  [author |-> d.author, type |-> d.type, parent |-> d.parent, root |-> root,
   quoted |-> d.quoted, mention |-> d.mention, age |-> d.age, deleted |-> FALSE]

InsertPost(q, p) ==
  /\ At(q, "insert")
  /\ IsNewId(p)
  /\ KeysExist(req[q].draft) /\ ~Refused(req[q].draft)
  /\ posts' = [posts EXCEPT ![p] = RowOf(req[q].draft, req[q].root)]
  /\ Goto(q, [req[q] EXCEPT !.pc = "fetch", !.post = p])
  /\ UNCHANGED <<reactions, bookmarks, inbox, liked>>

InsertRefused(q) ==
  /\ At(q, "insert")
  /\ ~KeysExist(req[q].draft) \/ Refused(req[q].draft)
  /\ Done(q)
  /\ UNCHANGED tables

FetchCreated(q) == At(q, "fetch") /\ Move(q, "reply") /\ UNCHANGED tables

(* The parent is read once more for its author.                            *)
PublishReply(q) ==
  /\ At(q, "reply")
  /\ IF req[q].draft.type = "reply"
     THEN Publish([to |-> posts[req[q].draft.parent].author, from |-> req[q].user,
                   event |-> "reply", post |-> req[q].post])
     ELSE UNCHANGED inbox
  /\ Move(q, "mention")
  /\ UNCHANGED <<posts, reactions, bookmarks, liked>>

PublishMention(q) ==
  /\ At(q, "mention")
  /\ IF req[q].draft.mention # None
     THEN Publish([to |-> req[q].draft.mention, from |-> req[q].user,
                   event |-> "mention", post |-> req[q].post])
     ELSE UNCHANGED inbox
  /\ Done(q)
  /\ UNCHANGED <<posts, reactions, bookmarks, liked>>

------------------------------------------------------------------------------
(* Delete, like, bookmark and report a post.                               *)

Ask(q, u, p, pc) ==
  /\ At(q, "idle")
  /\ Goto(q, [IdleRequest EXCEPT !.pc = pc, !.user = u, !.post = p])
  /\ UNCHANGED tables

DeletePost(q, u, p) == Ask(q, u, p, "owner")
ReactToPost(q, u, p) == Ask(q, u, p, "lookup")
AddBookmark(q, u, p) == Ask(q, u, p, "check")
ReportPost(q, u, p) == Ask(q, u, p, "exists")
(* Nobody reports his own account; accounts are never removed, so the      *)
(* account exists.                                                         *)
ReportUser(q, u, v) == u # v /\ Ask(q, u, None, "report")

CheckOwner(q) ==
  /\ At(q, "owner")
  /\ IF Exists(req[q].post) /\ posts[req[q].post].author = req[q].user
     THEN Move(q, "delete") ELSE Done(q)
  /\ UNCHANGED tables

SoftDelete(q) ==
  /\ At(q, "delete")
  /\ posts' = [posts EXCEPT ![req[q].post].deleted = TRUE]
  /\ Done(q)
  /\ UNCHANGED <<reactions, bookmarks, inbox, liked>>

(* GetPostAuthorID; and a lookup that forgets is_deleted.                  *)
LookupAny(q) ==
  /\ At(q, "lookup")
  /\ IF Exists(req[q].post) THEN Move(q, "react") ELSE Done(q)
  /\ UNCHANGED tables
LookupAuthor(q) ==
  /\ At(q, "lookup")
  /\ IF Live(req[q].post) THEN Move(q, "react") ELSE Done(q)
  /\ UNCHANGED tables

(* INSERT ... ON CONFLICT DO NOTHING; only a new row of another user's     *)
(* post is announced.                                                      *)
React(q) ==
  /\ At(q, "react")
  /\ reactions' = reactions \cup {Target(q)}
  /\ liked' = liked \cup {Target(q)}
  /\ IF Target(q) \in reactions \/ posts[req[q].post].author = req[q].user
     THEN Done(q) ELSE Move(q, "notice")
  /\ UNCHANGED <<posts, bookmarks, inbox>>

(* The notice; and one whose two users are swapped.                        *)
PublishToFan(q) ==
  /\ At(q, "notice")
  /\ Publish([to |-> req[q].user, from |-> posts[req[q].post].author,
              event |-> "reaction", post |-> req[q].post])
  /\ Done(q)
  /\ UNCHANGED <<posts, reactions, bookmarks, liked>>
PublishReaction(q) ==
  /\ At(q, "notice")
  /\ Publish([to |-> posts[req[q].post].author, from |-> req[q].user,
              event |-> "reaction", post |-> req[q].post])
  /\ Done(q)
  /\ UNCHANGED <<posts, reactions, bookmarks, liked>>

Unreact(u, p) ==
  /\ reactions' = reactions \ {<<u, p>>}
  /\ UNCHANGED <<posts, bookmarks, inbox, liked, req>>

CheckPost(q) ==
  /\ At(q, "check")
  /\ IF Live(req[q].post) THEN Move(q, "bookmark") ELSE Done(q)
  /\ UNCHANGED tables

(* INSERT ... ON CONFLICT DO NOTHING                                       *)
InsertBookmark(q) ==
  /\ At(q, "bookmark")
  /\ bookmarks' = bookmarks \cup {Target(q)}
  /\ Done(q)
  /\ UNCHANGED <<posts, reactions, inbox, liked>>

RemoveBookmark(u, p) ==
  /\ bookmarks' = bookmarks \ {<<u, p>>}
  /\ UNCHANGED <<posts, reactions, inbox, liked, req>>

(* PostExistsAndNotDeleted; the rate limit and the reason come before it.  *)
CheckReported(q) ==
  /\ At(q, "exists")
  /\ IF Live(req[q].post) THEN Move(q, "report") ELSE Done(q)
  /\ UNCHANGED tables

(* ON CONFLICT ON CONSTRAINT names reports_dedup_pending_idx, which is a   *)
(* unique index and no constraint: the database refuses the statement and  *)
(* the answer is 500.                                                      *)
SubmitReport(q) == At(q, "report") /\ Move(q, "refused") /\ UNCHANGED tables
ReportFailed(q) == At(q, "refused") /\ Done(q) /\ UNCHANGED tables

(* A statement fails, the caller goes away or the process dies.            *)
Abort(q) == ~At(q, "idle") /\ Done(q) /\ UNCHANGED tables

------------------------------------------------------------------------------
Begin(q) ==
  \/ \E d \in Drafts : CreatePost(q, d)
  \/ \E u \in Users, p \in Touched : DeletePost(q, u, p)
  \/ \E u \in Fans, p \in Touched :
       ReactToPost(q, u, p) \/ AddBookmark(q, u, p) \/ ReportPost(q, u, p)
  \/ \E u \in Fans, v \in Users : ReportUser(q, u, v)

Work(q) ==
  \/ FindParent(q) \/ (\E p \in Posts : InsertPost(q, p)) \/ InsertRefused(q)
  \/ FetchCreated(q) \/ PublishReply(q) \/ PublishMention(q)
  \/ CheckOwner(q) \/ SoftDelete(q)
  \/ LookupAuthor(q) \/ React(q) \/ PublishReaction(q)
  \/ CheckPost(q) \/ InsertBookmark(q)
  \/ CheckReported(q) \/ SubmitReport(q) \/ ReportFailed(q)

Next ==
  \/ \E q \in Requests : Begin(q) \/ Work(q) \/ Abort(q)
  \/ \E u \in Fans, p \in Touched : Unreact(u, p) \/ RemoveBookmark(u, p)

Spec == Init /\ [][Next]_vars

------------------------------------------------------------------------------
(* Properties.                                                             *)

(* Rows, notices and requests keep their shape; a request that acts on a   *)
(* post acts on one that exists.                                           *)
TypeOK ==
  /\ posts \in [Posts -> Row \cup {None}]
  /\ reactions \subseteq liked /\ liked \subseteq Users \X Posts
  /\ bookmarks \subseteq Users \X Posts
  /\ inbox \subseteq Notice
  /\ req \in [Requests -> Request]

(* Thread pages are one scan by thread_root_id ("all replies in a thread   *)
(* carry the root post's id", 0004_create_posts.up.sql): the root of a     *)
(* reply is in no thread itself, and the reply is in its parent's thread.  *)
ThreadsAreRooted ==
  \A p \in Posts : Exists(p) =>
    /\ posts[p].type = "reply" <=> posts[p].root # None
    /\ posts[p].root # None =>
         /\ Exists(posts[p].root) /\ posts[posts[p].root].root = None
         /\ Exists(posts[p].parent)
         /\ posts[p].root = posts[p].parent \/ posts[p].root = posts[posts[p].parent].root

(* A quote or a repost was begun at least five seconds before by the       *)
(* server's clock, however far the client's clock is ahead.                *)
SharesAreDue ==
  \A p \in Posts : Exists(p) /\ posts[p].type \in Shares =>
    posts[p].age >= MinDelay /\ Exists(posts[p].quoted)

(* Every row CreatePost leaves is lawful, whatever was created, deleted or *)
(* failed between its statements.                                          *)
RowsAreLawful == ThreadsAreRooted /\ SharesAreDue

(* A notice tells its recipient of something another user did to him: a    *)
(* reply to his post, a mention, a reaction to his post, and names the     *)
(* post it is about; a stale or repeated publish never makes one up.       *)
NoticeHasCause ==
  \A n \in inbox :
    /\ n.to # n.from /\ Exists(n.post)
    /\ n.event = "reaction" => posts[n.post].author = n.to /\ <<n.from, n.post>> \in liked
    /\ n.event = "mention" => posts[n.post].author = n.from /\ posts[n.post].mention = n.to
    /\ n.event = "reply" => /\ posts[n.post].author = n.from
                           /\ Exists(posts[n.post].parent)
                           /\ posts[posts[n.post].parent].author = n.to

(* A request that has looked its post up meets a deletion of that post     *)
(* that is about to be written.                                            *)
OnPost(q) == req[q].pc \in {"react", "bookmark", "report"} /\ req[q].post # None
NoOverlap ==
  \A q, r \in Requests :
    ~(OnPost(q) /\ At(r, "delete") /\ req[q].post = req[r].post)

(* Likes, bookmarks and reports are refused with 404 once the post is      *)
(* deleted (GetPostAuthorID, Add, PostExistsAndNotDeleted): none is about  *)
(* to be written for a deleted post, unless a deletion fell between the    *)
(* lookup and the write.                                                   *)
LiveTargets ==
  []NoOverlap => [](\A q \in Requests : OnPost(q) => Live(req[q].post))

(* A report that passed every check is taken: "Insert - ON CONFLICT DO     *)
(* NOTHING; duplicate pending -> nil (idempotent 204)" (report/service.go). *)
ReportIsTaken == \A q \in Requests : ~At(q, "refused")
==============================================================================
