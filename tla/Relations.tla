------------------------------- MODULE Relations -------------------------------
(***************************************************************************)
(* Blocks, mutes and follows (block/, follow/), the privacy flag (user/)   *)
(* and the requests that must hide users by them: the home feed (feed/),   *)
(* search (search/), the hashtag and author pages (post/), a user's        *)
(* primary title (title/) and the profile (user/).                         *)
(* A request is several statements, each in a transaction of its own but   *)
(* for the three of a block; requests interleave statement by statement.   *)
(* Every user has something to show: a list is the set of users whose      *)
(* posts or rows are in it.                                                *)
(***************************************************************************)
EXTENDS Naturals

CONSTANTS
  Users,        \* accounts
  Requests,     \* requests that the server handles at one time
  None,         \* the caller of a request without a bearer token
  Followers,    \* users who follow (a bound)
  Muters,       \* users who mute (a bound)
  Shy,          \* users who set their account to private (a bound)
  Viewers,      \* callers who read, None among them or not (a bound)
  Readers       \* requests that may be reads (a bound)

ASSUME NoneAssumption == None \notin Users
ASSUME BoundsAssumption ==
  /\ Followers \subseteq Users /\ Muters \subseteq Users /\ Shy \subseteq Users
  /\ Viewers \subseteq Users \cup {None} /\ Readers \subseteq Requests

VARIABLES
  blocks,       \* blocks: <<blocker_id, blocked_id>>
  mutes,        \* mutes: <<muter_id, muted_id>>
  follows,      \* follows: <<follower_id, followed_id>>
  private,      \* users.is_private
  inbox,        \* notifications of event follow: <<recipient_id, actor_id>>
  req,          \* the local state of each request
  since         \* history: per read, what has been hidden ever since it began

tables == <<blocks, mutes, follows, private, inbox>>
vars == <<tables, req, since>>

Pair == {p \in Users \X Users : p[1] # p[2]}
Back(p) == <<p[2], p[1]>>

Lists == {"home", "search", "hashtag"}
Reads == Lists \cup {"author", "title", "profile"}

Request ==
  [pc : {"idle", "check", "insert", "publish", "block", "unfollow", "commit",
         "blocked", "muted", "privacy", "following", "read", "answer"},
   op : Reads \cup {"none", "follow", "block"},
   from : Users \cup {None}, to : Users \cup {None},
   mine : BOOLEAN,             \* the transaction inserted the block itself
   gone : SUBSET Pair,         \* follows the transaction has deleted
   hidden : SUBSET Users,      \* blockedIDs and mutedIDs
   open : BOOLEAN,             \* a failed check was passed over
   shown : SUBSET Users]       \* the answer
IdleRequest ==
  [pc |-> "idle", op |-> "none", from |-> None, to |-> None, mine |-> FALSE,
   gone |-> {}, hidden |-> {}, open |-> FALSE, shown |-> {}]

Init ==
  /\ blocks = {} /\ mutes = {} /\ follows = {} /\ private = {} /\ inbox = {}
  /\ req = [q \in Requests |-> IdleRequest]
  /\ since = [q \in Requests |-> {}]

Edge(q) == <<req[q].from, req[q].to>>
At(q, pc) == req[q].pc = pc
Goto(q, local) == req' = [req EXCEPT ![q] = local]
Move(q, pc) == Goto(q, [req[q] EXCEPT !.pc = pc])
Done(q) == Goto(q, IdleRequest)

------------------------------------------------------------------------------
(* The statements of the repositories.                                     *)

BlockedIDs(u) == {v \in Users : <<u, v>> \in blocks}
MutedIDs(u) == {v \in Users : <<u, v>> \in mutes}
FollowedIDs(u) == {v \in Users : <<u, v>> \in follows}
IsFollowing(u, v) == <<u, v>> \in follows
IsBlockedBy(u, v) == <<v, u>> \in blocks
IsBlockedBidirectional(u, v) == <<u, v>> \in blocks \/ <<v, u>> \in blocks
AuthorIsPrivate(u) == u \in private

(* The win CTE; its privacy clause asks for the follow it has already      *)
(* joined.  And a timeline that leaves out the block clause.               *)
TimelineWithBlocked(u, hidden) == FollowedIDs(u) \ (hidden \cap MutedIDs(u))
HomeTimeline(u, hidden) == FollowedIDs(u) \ hidden

SearchResults(hidden) == Users \ hidden
HashtagPosts(hidden) == Users \ hidden

(* Rows of an uncommitted transaction are locked: who needs them waits.    *)
InsertPending(p) ==
  \E r \in Requests : req[r].pc \in {"unfollow", "commit"} /\ req[r].mine /\ Edge(r) = p
RowLocked(p) == \E r \in Requests : At(r, "commit") /\ p \in req[r].gone

------------------------------------------------------------------------------
(* Follow: the check, the insert and the notification.                     *)

FollowUser(q, p) ==
  /\ At(q, "idle")
  /\ Goto(q, [IdleRequest EXCEPT !.pc = "check", !.op = "follow",
                                 !.from = p[1], !.to = p[2]])
  /\ UNCHANGED tables

(* IsBlockedBy                                                             *)
CheckBlocked(q) ==
  /\ At(q, "check")
  /\ IF IsBlockedBy(req[q].from, req[q].to) THEN Done(q) ELSE Move(q, "insert")
  /\ UNCHANGED tables

(* INSERT INTO follows ... ON CONFLICT DO NOTHING                          *)
InsertFollow(q) ==
  /\ At(q, "insert")
  /\ ~RowLocked(Edge(q))
  /\ follows' = follows \cup {Edge(q)}
  /\ Move(q, "publish")
  /\ UNCHANGED <<blocks, mutes, private, inbox>>

(* One row per recipient, actor and event; a failure does not fail the     *)
(* follow.                                                                 *)
PublishFollow(q) ==
  /\ At(q, "publish")
  /\ inbox' \in {inbox, inbox \cup {Back(Edge(q))}}
  /\ Done(q)
  /\ UNCHANGED <<blocks, mutes, follows, private>>

Unfollow(p) ==
  /\ ~RowLocked(p)
  /\ follows' = follows \ {p}
  /\ UNCHANGED <<blocks, mutes, private, inbox, req>>

------------------------------------------------------------------------------
(* Block: one transaction of an insert and a delete.                       *)

BlockUser(q, p) ==
  /\ At(q, "idle")
  /\ Goto(q, [IdleRequest EXCEPT !.pc = "block", !.op = "block",
                                 !.from = p[1], !.to = p[2]])
  /\ UNCHANGED tables

(* INSERT INTO blocks ... ON CONFLICT DO NOTHING                           *)
InsertBlock(q) ==
  /\ At(q, "block")
  /\ ~InsertPending(Edge(q))
  /\ Goto(q, [req[q] EXCEPT !.pc = "unfollow", !.mine = Edge(q) \notin blocks])
  /\ UNCHANGED tables

(* DELETE FROM follows, in both directions; in one only; and under a lock  *)
(* on both users, whom the inserts refer to.                               *)
DeleteOwnFollow(q) ==
  /\ At(q, "unfollow")
  /\ ~RowLocked(Edge(q)) /\ ~RowLocked(Back(Edge(q)))
  /\ Goto(q, [req[q] EXCEPT !.pc = "commit", !.gone = follows \cap {Edge(q)}])
  /\ UNCHANGED tables
DeleteUnderUserLock(q) ==
  /\ At(q, "unfollow")
  /\ \A r \in Requests \ {q} : req[r].pc \in {"unfollow", "commit"} =>
                                Edge(r) \notin {Edge(q), Back(Edge(q))}
  /\ Goto(q, [req[q] EXCEPT !.pc = "commit",
                            !.gone = follows \cap {Edge(q), Back(Edge(q))}])
  /\ UNCHANGED tables
DeleteFollows(q) ==
  /\ At(q, "unfollow")
  /\ ~RowLocked(Edge(q)) /\ ~RowLocked(Back(Edge(q)))
  /\ Goto(q, [req[q] EXCEPT !.pc = "commit",
                            !.gone = follows \cap {Edge(q), Back(Edge(q))}])
  /\ UNCHANGED tables

CommitBlock(q) ==
  /\ At(q, "commit")
  /\ blocks' = IF req[q].mine THEN blocks \cup {Edge(q)} ELSE blocks
  /\ follows' = follows \ req[q].gone
  /\ Done(q)
  /\ UNCHANGED <<mutes, private, inbox>>

Unblock(p) ==
  /\ blocks' = blocks \ {p}
  /\ UNCHANGED <<mutes, follows, private, inbox, req>>

Mute(p) ==
  /\ p[1] \in Muters
  /\ mutes' = mutes \cup {p}
  /\ UNCHANGED <<blocks, follows, private, inbox, req>>

Unmute(p) ==
  /\ mutes' = mutes \ {p}
  /\ UNCHANGED <<blocks, follows, private, inbox, req>>

UpdateSettings(u) ==
  /\ u \in Shy
  /\ private' \in {private \cup {u}, private \ {u}}
  /\ UNCHANGED <<blocks, mutes, follows, inbox, req>>

------------------------------------------------------------------------------
(* The reads.                                                              *)

Ask(q, op, from, to, pc) ==
  /\ At(q, "idle")
  /\ Goto(q, [IdleRequest EXCEPT !.pc = pc, !.op = op, !.from = from, !.to = to])
  /\ UNCHANGED tables

GetHomeFeed(q, u) == Ask(q, "home", u, None, "blocked")
AfterCaller(u) == IF u = None THEN "read" ELSE "blocked"
SearchPosts(q, u) == Ask(q, "search", u, None, AfterCaller(u))
PostsByHashtag(q, u) == Ask(q, "hashtag", u, None, AfterCaller(u))
(* The route has no JWT middleware, so the caller is unknown.              *)
ListUserPosts(q, v) == Ask(q, "author", None, v, "privacy")
(* The owner passes every check.                                           *)
GetUserPrimary(q, u, v) == Ask(q, "title", u, v, IF u = v THEN "read" ELSE "privacy")
GetUserByID(q, u, v) == Ask(q, "profile", u, v, IF u = v THEN "read" ELSE "blocked")

Answer(q, shown) ==
  /\ Goto(q, [req[q] EXCEPT !.pc = "answer", !.shown = shown])
  /\ UNCHANGED tables

(* GetBlockedIDs.  When it fails so do the home feed and the search, while *)
(* the hashtag page goes on without.                                       *)
ReadBlocked(q) ==
  /\ At(q, "blocked") /\ req[q].op \in Lists
  /\ Goto(q, [req[q] EXCEPT !.pc = IF req[q].op = "home" THEN "muted" ELSE "read",
                            !.hidden = BlockedIDs(req[q].from)])
  /\ UNCHANGED tables
BlockedUnread(q) ==
  /\ At(q, "blocked") /\ req[q].op = "hashtag"
  /\ Goto(q, [req[q] EXCEPT !.pc = "read", !.open = TRUE])
  /\ UNCHANGED tables

ReadMuted(q) ==
  /\ At(q, "muted")
  /\ Goto(q, [req[q] EXCEPT !.pc = "read", !.hidden = @ \cup MutedIDs(req[q].from)])
  /\ UNCHANGED tables

(* The timeline and the two lists.                                         *)
ReadList(q) ==
  /\ At(q, "read")
  /\ \/ req[q].op = "home" /\ Answer(q, HomeTimeline(req[q].from, req[q].hidden))
     \/ req[q].op = "search" /\ Answer(q, SearchResults(req[q].hidden))
     \/ req[q].op = "hashtag" /\ Answer(q, HashtagPosts(req[q].hidden))

(* 404 for both sides of a block.                                          *)
CheckProfile(q) ==
  /\ At(q, "blocked") /\ req[q].op = "profile"
  /\ IF IsBlockedBidirectional(req[q].from, req[q].to) THEN Done(q) ELSE Move(q, "read")
  /\ UNCHANGED tables

(* ListPostsByAuthor, whose caller is nil, and GetUserPrimaryTitle.        *)
CheckAuthorPrivacy(q) ==
  /\ At(q, "privacy") /\ req[q].op = "author"
  /\ IF AuthorIsPrivate(req[q].to) THEN Answer(q, {}) ELSE Move(q, "read") /\ UNCHANGED tables
CheckTitlePrivacy(q) ==
  /\ At(q, "privacy") /\ req[q].op = "title"
  /\ IF ~AuthorIsPrivate(req[q].to) THEN Move(q, "read") /\ UNCHANGED tables
     ELSE IF req[q].from = None THEN Answer(q, {})
     ELSE Move(q, "following") /\ UNCHANGED tables

(* A failed privacy check treats the account as public.                    *)
PrivacyUnread(q) ==
  /\ At(q, "privacy") /\ req[q].op = "title"
  /\ Goto(q, [req[q] EXCEPT !.pc = "read", !.open = TRUE])
  /\ UNCHANGED tables

CheckFollowing(q) ==
  /\ At(q, "following")
  /\ IF IsFollowing(req[q].from, req[q].to) THEN Move(q, "read") /\ UNCHANGED tables
     ELSE Answer(q, {})

(* The author's posts, the title or the profile.                           *)
ReadUser(q) ==
  /\ At(q, "read") /\ req[q].op \notin Lists
  /\ Answer(q, {req[q].to})

Respond(q) == At(q, "answer") /\ Done(q) /\ UNCHANGED tables

(* A statement fails, the caller goes away or the process dies; the        *)
(* deferred Rollback frees what the transaction locked.                    *)
Abort(q) == ~At(q, "idle") /\ Done(q) /\ UNCHANGED tables

------------------------------------------------------------------------------
BeginWrite(q) ==
  \E p \in Pair : (p[1] \in Followers /\ FollowUser(q, p)) \/ BlockUser(q, p)

BeginRead(q) ==
  /\ q \in Readers
  /\ \E u \in Viewers, v \in Users :
       \/ u # None /\ (GetHomeFeed(q, u) \/ GetUserByID(q, u, v))
       \/ SearchPosts(q, u) \/ PostsByHashtag(q, u)
       \/ GetUserPrimary(q, u, v) \/ ListUserPosts(q, v)

Work(q) ==
  \/ CheckBlocked(q) \/ InsertFollow(q) \/ PublishFollow(q)
  \/ InsertBlock(q) \/ DeleteFollows(q) \/ CommitBlock(q)
  \/ ReadBlocked(q) \/ BlockedUnread(q) \/ ReadMuted(q) \/ ReadList(q)
  \/ CheckProfile(q) \/ CheckAuthorPrivacy(q) \/ CheckTitlePrivacy(q) \/ PrivacyUnread(q)
  \/ CheckFollowing(q) \/ ReadUser(q) \/ Respond(q)

Step ==
  \/ \E q \in Requests : BeginWrite(q) \/ BeginRead(q) \/ Work(q) \/ Abort(q)
  \/ \E p \in Pair : Unfollow(p) \/ Unblock(p) \/ Mute(p) \/ Unmute(p)
  \/ \E u \in Users : UpdateSettings(u)

(* What each kind of answer hides from its caller, rule by rule, and, for  *)
(* the home feed, who blocks the caller.                                   *)
Rules == {"blocked", "muted", "either", "private", "blocker"}
RulesOf(op) ==
  IF op = "home" THEN {"blocked", "muted", "blocker"}
  ELSE IF op \in {"search", "hashtag"} THEN {"blocked"}
  ELSE IF op = "profile" THEN {"either"}
  ELSE IF op \in {"author", "title"} THEN {"private"}
  ELSE {}
HiddenBy(rule, u) ==
  {v \in Users : \/ rule = "blocked" /\ v \in BlockedIDs(u)
                 \/ rule = "muted" /\ v \in MutedIDs(u)
                 \/ rule = "either" /\ u # v /\ IsBlockedBidirectional(u, v)
                 \/ rule = "private" /\ v \in private /\ v # u /\ <<u, v>> \notin follows
                 \/ rule = "blocker" /\ <<v, u>> \in blocks}
Facts(q) ==
  {f \in Users \X RulesOf(req[q].op) : f[1] \in HiddenBy(f[2], req[q].from)}

Remember ==
  since' = [q \in Requests |->
              IF req'[q].pc = "idle" THEN {}
              ELSE IF At(q, "idle") THEN Facts(q)'
              ELSE IF At(q, "answer") THEN since[q]
              ELSE since[q] \cap Facts(q)']

Next == Step /\ Remember

Spec == Init /\ [][Next]_vars

(* Every request runs in a goroutine of its own, under a 30 s timeout.     *)
FairSpec == Spec /\ \A q \in Requests : SF_vars(Work(q) /\ Remember)

------------------------------------------------------------------------------
(* Properties.                                                             *)

(* The tables relate different accounts and every request keeps the shape  *)
(* of its handler's locals.                                                *)
TypeOK ==
  /\ blocks \subseteq Pair /\ mutes \subseteq Pair /\ follows \subseteq Pair
  /\ private \subseteq Users /\ inbox \subseteq Pair
  /\ req \in [Requests -> Request]
  /\ since \in [Requests -> SUBSET (Users \X Rules)]
  /\ \A q \in Requests : req[q].op \in {"follow", "block"} => Edge(q) \in Pair

(* A follow that has passed its check meets a block of the same two users  *)
(* that has deleted their follows and not committed yet.                   *)
NoOverlap ==
  \A q, r \in Requests :
    ~(req[q].pc \in {"insert", "publish"} /\ At(r, "commit") /\ Edge(r) = Back(Edge(q)))

(* Who is blocked does not follow the blocker, *)
NoBlockedFollower == \A p \in blocks : Back(p) \notin follows
(* is not about to be announced to him as a follower, *)
NoBlockedActor == \A q \in Requests : At(q, "publish") => Back(Edge(q)) \notin blocks
(* and does not see him in a home feed, which does not ask who blocks its  *)
(* caller: "Users who have blocked the caller therefore never appear"      *)
(* (feed/service.go).                                                      *)
HomeHidesBlockers ==
  \A q \in Requests : At(q, "answer") => \A f \in since[q] : f[2] = "blocker" => f[1] \notin req[q].shown

(* Block ends the follow in either direction for good, as the comment in   *)
(* block/repository.go asks ("so that a blocked user cannot silently       *)
(* remain a follower"), and the home feed may rely on it, as long as no    *)
(* follow is between its check and its end while a block commits.          *)
BlockEndsFollow ==
  []NoOverlap => [](NoBlockedFollower /\ NoBlockedActor /\ HomeHidesBlockers)

(* No answer shows an author who was hidden from its caller from the       *)
(* request's beginning to its last read: blocked or muted for the home     *)
(* feed, blocked for search and hashtags, on either side of a block for    *)
(* the profile, private and not followed for posts and titles.  The rules  *)
(* are read before the rows and one after the other, so only what changes  *)
(* meanwhile may differ (one who is muted, then blocked, then no longer    *)
(* muted can slip between the two reads); the two checks that are passed   *)
(* over when they fail are left out.                                       *)
AnswersHide ==
  \A q \in Requests : At(q, "answer") /\ ~req[q].open =>
    \A f \in since[q] : f[2] # "blocker" => f[1] \notin req[q].shown

(* Every request ends: the locks of a block's transaction are taken in one *)
(* order, so no two requests wait for each other (block/repository.go).    *)
RequestsEnd == \A q \in Requests : ~At(q, "idle") ~> At(q, "idle")
==============================================================================
