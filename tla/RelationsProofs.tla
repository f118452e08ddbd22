---------------------------- MODULE RelationsProofs ----------------------------
(***************************************************************************)
(* Theorems about Relations, for any users and any number of requests that *)
(* interleave statement by statement.                                      *)
(***************************************************************************)
EXTENDS Relations, TLAPS

------------------------------------------------------------------------------
(* Types.                                                                  *)

TablesOK ==
  /\ blocks \subseteq Pair /\ mutes \subseteq Pair /\ follows \subseteq Pair
  /\ private \subseteq Users /\ inbox \subseteq Pair

(* A writing request relates two different accounts, at every statement it *)
(* makes; a read of one user has a user to read, and the statements that   *)
(* only one handler makes are made by that one.                            *)
Writing == {"check", "insert", "publish", "block", "unfollow", "commit"}
PlaceOK(pc, op) ==
  /\ pc = "muted" => op = "home"
  /\ pc = "following" => op = "title"
  /\ pc = "read" => op \in Reads
EndsOK(local) ==
  /\ local.op \in {"follow", "block"} \/ local.pc \in Writing
       => <<local.from, local.to>> \in Pair
  /\ local.op \in {"author", "title", "profile"} => local.to \in Users
  /\ PlaceOK(local.pc, local.op)
ReqOK == req \in [Requests -> Request] /\ \A q \in Requests : EndsOK(req[q])
SinceOK == since \in [Requests -> SUBSET (Users \X Rules)]

LEMMA TypeParts == TablesOK /\ ReqOK /\ SinceOK => TypeOK
BY DEF TypeOK, TablesOK, ReqOK, SinceOK, EndsOK, Edge

LEMMA BackInPair == ASSUME NEW p \in Pair
                    PROVE  Back(p) \in Pair /\ Back(Back(p)) = p /\ <<p[1], p[2]>> = p
BY DEF Back, Pair

LEMMA IdleTyped == IdleRequest \in Request /\ EndsOK(IdleRequest)
BY DEF IdleRequest, Request, EndsOK, Writing, PlaceOK

(* A request that is given a well-formed local state.                      *)
LEMMA GotoTyped ==
  ASSUME NEW q \in Requests, NEW local \in Request, EndsOK(local), ReqOK, Goto(q, local)
  PROVE  /\ ReqOK' /\ req'[q] = local
         /\ \A r \in Requests \ {q} : req'[r] = req[r]
BY DEF ReqOK, Goto

LEMMA DoneTyped ==
  ASSUME NEW q \in Requests, ReqOK, Done(q)
  PROVE  /\ ReqOK' /\ req'[q] = IdleRequest
         /\ \A r \in Requests \ {q} : req'[r] = req[r]
BY IdleTyped, GotoTyped DEF Done

Pcs == {"idle", "check", "insert", "publish", "block", "unfollow", "commit",
        "blocked", "muted", "privacy", "following", "read", "answer"}

LEMMA MoveTyped ==
  ASSUME NEW q \in Requests, NEW pc \in Pcs, ReqOK, Move(q, pc),
         pc \in Writing => req[q].pc \in Writing, PlaceOK(pc, req[q].op)
  PROVE  /\ ReqOK' /\ req'[q] = [req[q] EXCEPT !.pc = pc]
         /\ \A r \in Requests \ {q} : req'[r] = req[r]
<1>1. [req[q] EXCEPT !.pc = pc] \in Request
  BY DEF ReqOK, Request, Pcs
<1>2. EndsOK([req[q] EXCEPT !.pc = pc])
  BY DEF ReqOK, EndsOK, Request
<1> QED BY <1>1, <1>2, GotoTyped DEF Move

LEMMA AnswerTyped ==
  ASSUME NEW q \in Requests, NEW shown \in SUBSET Users, ReqOK, Answer(q, shown)
  PROVE  /\ ReqOK' /\ req'[q] = [req[q] EXCEPT !.pc = "answer", !.shown = shown]
         /\ \A r \in Requests \ {q} : req'[r] = req[r]
         /\ UNCHANGED tables
<1> DEFINE l == [req[q] EXCEPT !.pc = "answer", !.shown = shown]
<1>1. l \in Request
  BY DEF ReqOK, Request
<1>2. EndsOK(l)
  BY DEF ReqOK, EndsOK, Request, Writing, PlaceOK
<1>3. Goto(q, l) /\ UNCHANGED tables
  BY DEF Answer
<1> HIDE DEF l
<1>4. ReqOK' /\ req'[q] = l /\ \A r \in Requests \ {q} : req'[r] = req[r]
  BY <1>1, <1>2, <1>3, GotoTyped
<1> QED BY <1>3, <1>4 DEF l

(* A request that goes on with other locals, about the same two accounts.   *)
LEMMA NoteTyped ==
  ASSUME NEW q \in Requests, NEW l \in Request, ReqOK, Goto(q, l),
         l.op = req[q].op, l.from = req[q].from, l.to = req[q].to,
         l.pc \in Writing => req[q].pc \in Writing, PlaceOK(l.pc, l.op)
  PROVE  ReqOK' /\ req'[q] = l /\ \A r \in Requests \ {q} : req'[r] = req[r]
<1>1. EndsOK(l)
  BY DEF ReqOK, EndsOK
<1> QED BY <1>1, GotoTyped

LEMMA AskTyped ==
  ASSUME NEW q \in Requests, NEW op \in Reads, NEW from \in Users \cup {None},
         NEW to \in Users \cup {None}, NEW pc \in Pcs \ Writing, ReqOK, Ask(q, op, from, to, pc),
         PlaceOK(pc, op), op \notin Lists => to \in Users
  PROVE  /\ ReqOK'
         /\ req'[q] = [IdleRequest EXCEPT !.pc = pc, !.op = op, !.from = from, !.to = to]
         /\ \A r \in Requests \ {q} : req'[r] = req[r]
         /\ UNCHANGED tables
<1> DEFINE l == [IdleRequest EXCEPT !.pc = pc, !.op = op, !.from = from, !.to = to]
<1>1. l \in Request
  BY DEF IdleRequest, Request, Pcs
<1>2. EndsOK(l)
  BY DEF IdleRequest, EndsOK, Reads, Lists, Pcs, Writing, PlaceOK
<1>3. Goto(q, l) /\ UNCHANGED tables
  BY DEF Ask
<1> HIDE DEF l
<1>4. ReqOK' /\ req'[q] = l /\ \A r \in Requests \ {q} : req'[r] = req[r]
  BY <1>1, <1>2, <1>3, GotoTyped
<1> QED BY <1>3, <1>4 DEF l

------------------------------------------------------------------------------
(* The requests that write.                                                *)

LEMMA BeginWriteTyped ==
  ASSUME TablesOK, ReqOK, NEW q \in Requests, BeginWrite(q)
  PROVE  /\ TablesOK' /\ ReqOK' /\ UNCHANGED tables
         /\ req'[q].pc \in {"check", "block"}
         /\ \A r \in Requests \ {q} : req'[r] = req[r]
<1>1. PICK p \in Pair : FollowUser(q, p) \/ BlockUser(q, p)
  BY DEF BeginWrite
<1>2. p[1] \in Users /\ p[2] \in Users /\ <<p[1], p[2]>> \in Pair
  BY DEF Pair
<1>3. TablesOK' /\ UNCHANGED tables
  BY <1>1 DEF FollowUser, BlockUser, tables, TablesOK
<1>4. ASSUME NEW pc \in {"check", "block"}, NEW op \in {"follow", "block"},
             Goto(q, [IdleRequest EXCEPT !.pc = pc, !.op = op, !.from = p[1], !.to = p[2]])
      PROVE  /\ ReqOK' /\ req'[q].pc = pc
             /\ \A r \in Requests \ {q} : req'[r] = req[r]
  <2> DEFINE l == [IdleRequest EXCEPT !.pc = pc, !.op = op, !.from = p[1], !.to = p[2]]
  <2>1. l \in Request /\ l.pc = pc
    BY <1>2 DEF IdleRequest, Request
  <2>2. EndsOK(l)
    BY <1>2 DEF IdleRequest, EndsOK, PlaceOK
  <2>3. Goto(q, l)
    BY <1>4
  <2> HIDE DEF l
  <2> QED BY <2>1, <2>2, <2>3, GotoTyped
<1> QED BY <1>1, <1>3, <1>4 DEF FollowUser, BlockUser

LEMMA FollowTyped ==
  ASSUME TablesOK, ReqOK, NEW q \in Requests,
         CheckBlocked(q) \/ InsertFollow(q) \/ PublishFollow(q)
  PROVE  /\ TablesOK' /\ ReqOK'
         /\ req'[q].pc \in Writing \cup {"idle"}
         /\ \A r \in Requests \ {q} : req'[r] = req[r]
<1> USE DEF At
<1>a. req[q] \in Request /\ IdleRequest.pc = "idle"
  BY DEF ReqOK, IdleRequest
<1>b. /\ [req[q] EXCEPT !.pc = "insert"].pc = "insert"
      /\ [req[q] EXCEPT !.pc = "publish"].pc = "publish"
  BY <1>a DEF Request
<1>0. req[q].pc \in Writing => Edge(q) \in Pair /\ Back(Edge(q)) \in Pair
  BY BackInPair DEF ReqOK, EndsOK, Edge
<1>1. CASE CheckBlocked(q)
  BY <1>a, <1>b, <1>1, DoneTyped, MoveTyped DEF CheckBlocked, Pcs, Writing, PlaceOK, TablesOK, tables
<1>2. CASE InsertFollow(q)
  BY <1>a, <1>b, <1>0, <1>2, MoveTyped DEF InsertFollow, Pcs, Writing, PlaceOK, TablesOK
<1>3. CASE PublishFollow(q)
  BY <1>a, <1>b, <1>0, <1>3, DoneTyped DEF PublishFollow, Writing, TablesOK
<1> QED BY <1>1, <1>2, <1>3

LEMMA BlockTyped ==
  ASSUME TablesOK, ReqOK, NEW q \in Requests,
         InsertBlock(q) \/ DeleteFollows(q) \/ CommitBlock(q)
  PROVE  /\ TablesOK' /\ ReqOK'
         /\ req'[q].pc \in Writing \cup {"idle"}
         /\ \A r \in Requests \ {q} : req'[r] = req[r]
<1> USE DEF At
<1>0. /\ req[q] \in Request
      /\ req[q].pc \in Writing => Edge(q) \in Pair /\ Back(Edge(q)) \in Pair
  BY BackInPair DEF ReqOK, EndsOK, Edge
<1>1. CASE InsertBlock(q)
  <2> DEFINE l == [req[q] EXCEPT !.pc = "unfollow", !.mine = Edge(q) \notin blocks]
  <2>1. /\ l \in Request /\ l.pc = "unfollow"
        /\ l.op = req[q].op /\ l.from = req[q].from /\ l.to = req[q].to
    BY <1>0 DEF Request
  <2>2. Goto(q, l) /\ UNCHANGED tables /\ req[q].pc = "block"
    BY <1>1 DEF InsertBlock
  <2> HIDE DEF l
  <2> QED BY <2>1, <2>2, NoteTyped DEF Writing, PlaceOK, TablesOK, tables
<1>2. CASE DeleteFollows(q)
  <2> DEFINE l == [req[q] EXCEPT !.pc = "commit",
                                 !.gone = follows \cap {Edge(q), Back(Edge(q))}]
  <2>1. /\ l \in Request /\ l.pc = "commit"
        /\ l.op = req[q].op /\ l.from = req[q].from /\ l.to = req[q].to
    BY <1>0 DEF Request, TablesOK
  <2>2. Goto(q, l) /\ UNCHANGED tables /\ req[q].pc = "unfollow"
    BY <1>2 DEF DeleteFollows
  <2> HIDE DEF l
  <2> QED BY <2>1, <2>2, NoteTyped DEF Writing, PlaceOK, TablesOK, tables
<1>3. CASE CommitBlock(q)
  <2>1. Edge(q) \in Pair
    BY <1>0, <1>3 DEF CommitBlock, Writing
  <2>2. IdleRequest.pc = "idle"
    BY DEF IdleRequest
  <2> QED BY <1>3, <2>1, <2>2, DoneTyped DEF CommitBlock, TablesOK
<1> QED BY <1>1, <1>2, <1>3

LEMMA TablesTyped ==
  ASSUME TablesOK, ReqOK,
         \/ \E p \in Pair : Unfollow(p) \/ Unblock(p) \/ Mute(p) \/ Unmute(p)
         \/ \E u \in Users : UpdateSettings(u)
  PROVE  TablesOK' /\ ReqOK' /\ UNCHANGED req
<1>1. ASSUME NEW p \in Pair, Unfollow(p) \/ Unblock(p) \/ Mute(p) \/ Unmute(p)
      PROVE  TablesOK' /\ UNCHANGED req
  BY <1>1 DEF Unfollow, Unblock, Mute, Unmute, TablesOK
<1>2. ASSUME NEW u \in Users, UpdateSettings(u)
      PROVE  TablesOK' /\ UNCHANGED req
  BY <1>2 DEF UpdateSettings, TablesOK
<1> QED BY <1>1, <1>2 DEF ReqOK

------------------------------------------------------------------------------
(* The requests that read: none of their steps changes a table.            *)

LEMMA BeginReadTyped ==
  ASSUME ReqOK, NEW q \in Requests, BeginRead(q)
  PROVE  /\ ReqOK' /\ UNCHANGED tables
         /\ \A r \in Requests \ {q} : req'[r] = req[r]
<1>1. PICK u \in Viewers, v \in Users :
        \/ u # None /\ (GetHomeFeed(q, u) \/ GetUserByID(q, u, v))
        \/ SearchPosts(q, u) \/ PostsByHashtag(q, u)
        \/ GetUserPrimary(q, u, v) \/ ListUserPosts(q, v)
  BY DEF BeginRead
<1>2. u \in Users \cup {None} /\ v \in Users \cup {None} /\ None \in Users \cup {None}
  BY BoundsAssumption
<1>3. /\ {"home", "search", "hashtag", "author", "title", "profile"} \subseteq Reads
      /\ {"blocked", "privacy", "read"} \subseteq Pcs \ Writing
      /\ AfterCaller(u) \in {"blocked", "read"}
  BY DEF Reads, Lists, Pcs, Writing, AfterCaller
<1> USE <1>2, <1>3, AskTyped DEF PlaceOK, Lists
<1>4. CASE GetHomeFeed(q, u)
  BY <1>4 DEF GetHomeFeed
<1>5. CASE GetUserByID(q, u, v)
  BY <1>5 DEF GetUserByID
<1>6. CASE SearchPosts(q, u)
  BY <1>6 DEF SearchPosts
<1>7. CASE PostsByHashtag(q, u)
  BY <1>7 DEF PostsByHashtag
<1>8. CASE GetUserPrimary(q, u, v)
  BY <1>8 DEF GetUserPrimary
<1>9. CASE ListUserPosts(q, v)
  BY <1>9 DEF ListUserPosts
<1> QED BY <1>1, <1>4, <1>5, <1>6, <1>7, <1>8, <1>9

ReadWork(q) ==
  \/ ReadBlocked(q) \/ BlockedUnread(q) \/ ReadMuted(q) \/ ReadList(q)
  \/ CheckProfile(q) \/ CheckAuthorPrivacy(q) \/ CheckTitlePrivacy(q) \/ PrivacyUnread(q)
  \/ CheckFollowing(q) \/ ReadUser(q) \/ Respond(q) \/ Abort(q)

LEMMA ReadTyped ==
  ASSUME ReqOK, NEW q \in Requests, ReadWork(q)
  PROVE  /\ ReqOK' /\ UNCHANGED tables
         /\ \A r \in Requests \ {q} : req'[r] = req[r]
<1>0. req[q] \in Request
  BY DEF ReqOK
<1>1. CASE ReadBlocked(q)
  <2> DEFINE l == [req[q] EXCEPT !.pc = IF req[q].op = "home" THEN "muted" ELSE "read",
                                 !.hidden = BlockedIDs(req[q].from)]
  <2>1. /\ l \in Request /\ l.pc \notin Writing /\ PlaceOK(l.pc, l.op)
        /\ l.op = req[q].op /\ l.from = req[q].from /\ l.to = req[q].to
    BY <1>0, <1>1 DEF ReadBlocked, Request, Writing, BlockedIDs, PlaceOK, Reads
  <2>2. Goto(q, l) /\ UNCHANGED tables
    BY <1>1 DEF ReadBlocked
  <2> HIDE DEF l
  <2> QED BY <2>1, <2>2, NoteTyped
<1>2. CASE BlockedUnread(q) \/ PrivacyUnread(q)
  <2> DEFINE l == [req[q] EXCEPT !.pc = "read", !.open = TRUE]
  <2>1. /\ l \in Request /\ l.pc \notin Writing /\ PlaceOK(l.pc, l.op)
        /\ l.op = req[q].op /\ l.from = req[q].from /\ l.to = req[q].to
    BY <1>0, <1>2 DEF BlockedUnread, PrivacyUnread, Request, Writing, PlaceOK, Reads, Lists
  <2>2. Goto(q, l) /\ UNCHANGED tables
    BY <1>2 DEF BlockedUnread, PrivacyUnread
  <2> HIDE DEF l
  <2> QED BY <2>1, <2>2, NoteTyped
<1>3. CASE ReadMuted(q)
  <2> DEFINE l == [req[q] EXCEPT !.pc = "read", !.hidden = @ \cup MutedIDs(req[q].from)]
  <2>1. /\ l \in Request /\ l.pc \notin Writing /\ PlaceOK(l.pc, l.op)
        /\ l.op = req[q].op /\ l.from = req[q].from /\ l.to = req[q].to
    BY <1>0, <1>3 DEF ReadMuted, ReqOK, EndsOK, At, Request, Writing, MutedIDs, PlaceOK, Reads, Lists
  <2>2. Goto(q, l) /\ UNCHANGED tables
    BY <1>3 DEF ReadMuted
  <2> HIDE DEF l
  <2> QED BY <2>1, <2>2, NoteTyped
<1>4. CASE ReadList(q)
  <2>1. \A S \in SUBSET Users :
          HomeTimeline(req[q].from, S) \in SUBSET Users
    BY DEF HomeTimeline, FollowedIDs
  <2>2. PICK shown \in SUBSET Users : Answer(q, shown)
    BY <1>0, <1>4, <2>1 DEF ReadList, SearchResults, HashtagPosts, Request
  <2> QED BY <2>2, AnswerTyped
<1>5. CASE CheckProfile(q) \/ CheckAuthorPrivacy(q) \/ CheckTitlePrivacy(q) \/ CheckFollowing(q)
  <2>1. \/ Done(q) /\ UNCHANGED tables
        \/ Move(q, "read") /\ UNCHANGED tables /\ PlaceOK("read", req[q].op)
        \/ Move(q, "following") /\ UNCHANGED tables /\ PlaceOK("following", req[q].op)
        \/ Answer(q, {})
    BY <1>5 DEF CheckProfile, CheckAuthorPrivacy, CheckTitlePrivacy, CheckFollowing,
                ReqOK, EndsOK, PlaceOK, At, Reads
  <2> QED BY <2>1, DoneTyped, MoveTyped, AnswerTyped DEF Pcs, Writing
<1>6. CASE ReadUser(q)
  <2>1. Answer(q, {req[q].to}) /\ req[q].to \in Users
    BY <1>6 DEF ReadUser, ReqOK, EndsOK, PlaceOK, At, Reads
  <2> QED BY <2>1, AnswerTyped
<1>7. CASE Respond(q) \/ Abort(q)
  BY <1>7, DoneTyped DEF Respond, Abort
<1> QED BY <1>1, <1>2, <1>3, <1>4, <1>5, <1>6, <1>7 DEF ReadWork

------------------------------------------------------------------------------
(* The history.                                                            *)

(* What the history of a request that begins or goes on may hold is true   *)
(* when the step ends.                                                     *)
LEMMA FactsMean ==
  ASSUME NEW q \in Requests, Remember, req'[q].pc # "idle", ~At(q, "answer"),
         NEW f \in since'[q]
  PROVE  /\ f[1] \in Users /\ f[2] \in RulesOf(req'[q].op)
         /\ f[2] = "blocked" => <<req'[q].from, f[1]>> \in blocks'
         /\ f[2] = "muted" => <<req'[q].from, f[1]>> \in mutes'
         /\ f[2] = "blocker" => <<f[1], req'[q].from>> \in blocks'
         /\ f[2] = "either" => /\ req'[q].from # f[1]
                               /\ \/ <<req'[q].from, f[1]>> \in blocks'
                                  \/ <<f[1], req'[q].from>> \in blocks'
         /\ f[2] = "private" => /\ f[1] \in private' /\ f[1] # req'[q].from
                                /\ <<req'[q].from, f[1]>> \notin follows'
<1>1. f \in Facts(q)'
  BY DEF Remember
<1>2. f \in Users \X RulesOf(req'[q].op) /\ f[1] \in HiddenBy(f[2], req[q].from)'
  BY <1>1 DEF Facts
<1>3. RulesOf(req'[q].op) \subseteq Rules
  BY DEF RulesOf, Rules
<1> QED BY <1>2, <1>3 DEF HiddenBy, BlockedIDs, MutedIDs, IsBlockedBidirectional, Rules

LEMMA SinceShrinks ==
  ASSUME NEW q \in Requests, Remember, ~At(q, "idle"), req'[q].pc # "idle"
  PROVE  since'[q] \subseteq since[q]
BY DEF Remember

LEMMA SinceTyped == Remember => SinceOK' \/ ~SinceOK
<1> SUFFICES ASSUME Remember, SinceOK PROVE SinceOK'
  OBVIOUS
<1>1. ASSUME NEW q \in Requests PROVE Facts(q)' \in SUBSET (Users \X Rules)
  BY DEF Facts, RulesOf, Rules
<1> QED BY <1>1 DEF Remember, SinceOK

------------------------------------------------------------------------------
(* Type correctness.                                                       *)

TypeInv == TablesOK /\ ReqOK /\ SinceOK

LEMMA TypeStarts == Init => TypeInv
BY IdleTyped DEF Init, TypeInv, TablesOK, ReqOK, SinceOK

LEMMA TypeKept == TypeInv /\ [Next]_vars => TypeInv'
<1> SUFFICES ASSUME TypeInv, [Next]_vars PROVE TypeInv'
  OBVIOUS
<1>1. CASE Next
  <2>1. SinceOK'
    BY <1>1, SinceTyped DEF Next, TypeInv
  <2>2. ASSUME NEW q \in Requests, BeginWrite(q) \/ BeginRead(q) \/ Work(q) \/ Abort(q)
        PROVE  TablesOK' /\ ReqOK'
    <3>1. CASE BeginWrite(q)
      BY <3>1, BeginWriteTyped DEF TypeInv
    <3>2. CASE BeginRead(q)
      BY <3>2, BeginReadTyped DEF TypeInv, TablesOK, tables
    <3>3. CASE CheckBlocked(q) \/ InsertFollow(q) \/ PublishFollow(q)
      BY <3>3, FollowTyped DEF TypeInv
    <3>4. CASE InsertBlock(q) \/ DeleteFollows(q) \/ CommitBlock(q)
      BY <3>4, BlockTyped DEF TypeInv
    <3>5. CASE ReadWork(q)
      BY <3>5, ReadTyped DEF TypeInv, TablesOK, tables
    <3> QED BY <2>2, <3>1, <3>2, <3>3, <3>4, <3>5 DEF Work, ReadWork
  <2> QED BY <1>1, <2>1, <2>2, TablesTyped DEF Next, Step, TypeInv
<1>2. CASE UNCHANGED vars
  BY <1>2 DEF vars, tables, TypeInv, TablesOK, ReqOK, SinceOK
<1> QED BY <1>1, <1>2

(* The tables relate different accounts, and a request's locals keep the   *)
(* shape of its handler's.                                                 *)
THEOREM TypeCorrect == Spec => []TypeOK
<1>1. TypeInv => TypeOK
  BY TypeParts DEF TypeInv
<1> QED BY <1>1, TypeStarts, TypeKept, PTL DEF Spec

------------------------------------------------------------------------------
(* Answers.                                                                *)

(* How far a read has got in hiding who is to be hidden: the home feed by  *)
(* the ids it has read, the lists and the pages of one user altogether.    *)
Guarded(q) ==
  \A f \in since[q] : f[2] # "blocker" /\ ~req[q].open =>
    /\ At(q, "muted") /\ f[2] = "blocked" => f[1] \in req[q].hidden
    /\ At(q, "read") /\ req[q].op \in Lists => f[1] \in req[q].hidden
    /\ At(q, "read") /\ req[q].op \notin Lists => f[1] # req[q].to
    /\ At(q, "answer") => f[1] \notin req[q].shown

(* A request that does not move only forgets.                              *)
LEMMA OthersGuarded ==
  ASSUME NEW q \in Requests, Remember, Guarded(q), req'[q] = req[q]
  PROVE  Guarded(q)'
<1>1. CASE At(q, "idle")
  BY <1>1 DEF At, Guarded
<1>2. CASE ~At(q, "idle")
  BY <1>2, SinceShrinks DEF At, Guarded
<1> QED BY <1>1, <1>2

LEMMA BeginGuarded ==
  ASSUME TypeInv, NEW q \in Requests, BeginRead(q), Remember
  PROVE  Guarded(q)'
<1>0. At(q, "idle") /\ ~At(q, "answer") /\ UNCHANGED tables
  BY BeginReadTyped DEF BeginRead, At, TypeInv, GetHomeFeed, GetUserByID, SearchPosts,
     PostsByHashtag, GetUserPrimary, ListUserPosts, Ask
<1>1. PICK u \in Viewers, v \in Users :
        \/ u # None /\ (GetHomeFeed(q, u) \/ GetUserByID(q, u, v))
        \/ SearchPosts(q, u) \/ PostsByHashtag(q, u)
        \/ GetUserPrimary(q, u, v) \/ ListUserPosts(q, v)
  BY DEF BeginRead
<1>2. SUFFICES ASSUME NEW op \in Reads, NEW from \in Users \cup {None},
                      NEW to \in Users \cup {None}, NEW pc \in {"blocked", "privacy", "read"},
                      Ask(q, op, from, to, pc),
                      pc = "read" => \/ op \in {"search", "hashtag"} /\ from = None
                                     \/ op \in {"title", "profile"} /\ from = to
               PROVE  Guarded(q)'
  <2>1. u \in Users \cup {None} /\ v \in Users \cup {None} /\ None \in Users \cup {None}
    BY BoundsAssumption
  <2>2. {"home", "search", "hashtag", "author", "title", "profile"} \subseteq Reads
    BY DEF Reads, Lists
  <2> USE <2>1, <2>2
  <2>3. CASE GetHomeFeed(q, u)
    BY <1>2, <2>3 DEF GetHomeFeed
  <2>4. CASE GetUserByID(q, u, v)
    BY <1>2, <2>4 DEF GetUserByID
  <2>5. CASE SearchPosts(q, u)
    BY <1>2, <2>5 DEF SearchPosts, AfterCaller
  <2>6. CASE PostsByHashtag(q, u)
    BY <1>2, <2>6 DEF PostsByHashtag, AfterCaller
  <2>7. CASE GetUserPrimary(q, u, v)
    BY <1>2, <2>7 DEF GetUserPrimary
  <2>8. CASE ListUserPosts(q, v)
    BY <1>2, <2>8 DEF ListUserPosts
  <2> QED BY <1>1, <2>3, <2>4, <2>5, <2>6, <2>7, <2>8
<1> DEFINE l == [IdleRequest EXCEPT !.pc = pc, !.op = op, !.from = from, !.to = to]
<1>3. l.pc = pc /\ l.op = op /\ l.from = from /\ l.to = to
  BY DEF IdleRequest
<1>4. req'[q] = l
  BY <1>2 DEF Ask, Goto, TypeInv, ReqOK
<1> HIDE DEF l
<1>5. CASE pc # "read"
  BY <1>3, <1>4, <1>5 DEF Guarded, At
<1>6. CASE pc = "read" /\ op \in {"search", "hashtag"}
  <2>1. ASSUME NEW f \in since'[q] PROVE FALSE
    <3>1. f[2] = "blocked" /\ <<None, f[1]>> \in blocks'
      BY <1>0, <1>2, <1>3, <1>4, <1>6, <2>1, FactsMean DEF RulesOf
    <3> QED BY <1>0, <3>1, NoneAssumption DEF tables, TypeInv, TablesOK, Pair
  <2> QED BY <2>1 DEF Guarded
<1>7. CASE pc = "read" /\ op \in {"title", "profile"}
  <2>1. ASSUME NEW f \in since'[q] PROVE f[1] # to
    BY <1>0, <1>2, <1>3, <1>4, <1>7, <2>1, FactsMean DEF RulesOf
  <2> QED BY <1>3, <1>4, <1>7, <2>1 DEF Guarded, At, Lists
<1> QED BY <1>2, <1>5, <1>6, <1>7

LEMMA ReadGuarded ==
  ASSUME TypeInv, NEW q \in Requests, ReadWork(q), Remember, Guarded(q)
  PROVE  Guarded(q)'
<1>0. req[q] \in Request /\ EndsOK(req[q]) /\ UNCHANGED tables
  BY ReadTyped DEF TypeInv, ReqOK
<1>a. IdleRequest.pc = "idle"
  BY DEF IdleRequest
<1>b. ASSUME req'[q].pc = "idle" PROVE Guarded(q)'
  BY <1>b DEF Guarded, At
<1>c. ASSUME Done(q) PROVE Guarded(q)'
  BY <1>a, <1>b, <1>c, DoneTyped DEF TypeInv
<1>d. ASSUME NEW shown \in SUBSET Users, Answer(q, shown), ~At(q, "answer"), ~At(q, "idle"),
             \A f \in since'[q] : f[2] # "blocker" /\ ~req[q].open => f[1] \notin shown
      PROVE  Guarded(q)'
  <2>1. req'[q] = [req[q] EXCEPT !.pc = "answer", !.shown = shown]
    BY <1>d, AnswerTyped DEF TypeInv
  <2>2. req'[q].pc = "answer" /\ req'[q].shown = shown /\ req'[q].open = req[q].open
    BY <1>0, <2>1 DEF Request
  <2> QED BY <1>d, <2>2 DEF Guarded, At
<1>e. ASSUME Move(q, "read"), ~At(q, "answer"), ~At(q, "idle"), req[q].op \notin Lists,
             \A f \in since'[q] : f[2] # "blocker" => f[1] # req[q].to
      PROVE  Guarded(q)'
  <2>1. req'[q] = [req[q] EXCEPT !.pc = "read"]
    BY <1>e DEF Move, Goto, TypeInv, ReqOK
  <2>2. req'[q].pc = "read" /\ req'[q].op = req[q].op /\ req'[q].to = req[q].to
    BY <1>0, <2>1 DEF Request
  <2> QED BY <1>e, <2>2 DEF Guarded, At
<1>1. CASE ReadBlocked(q)
  <2> DEFINE l == [req[q] EXCEPT !.pc = IF req[q].op = "home" THEN "muted" ELSE "read",
                                 !.hidden = BlockedIDs(req[q].from)]
  <2>1. /\ l.pc = IF req[q].op = "home" THEN "muted" ELSE "read"
        /\ l.hidden = BlockedIDs(req[q].from)
        /\ l.op = req[q].op /\ l.from = req[q].from
    BY <1>0 DEF Request
  <2>2. req'[q] = l /\ req[q].op \in Lists /\ At(q, "blocked")
    BY <1>1 DEF ReadBlocked, Goto, TypeInv, ReqOK
  <2> HIDE DEF l
  <2>3. ASSUME NEW f \in since'[q], f[2] # "blocker", req[q].op # "home" \/ f[2] = "blocked"
        PROVE  f[1] \in l.hidden
    <3>1. f[1] \in Users /\ f[2] = "blocked" /\ <<req[q].from, f[1]>> \in blocks'
      BY <2>1, <2>2, <2>3, FactsMean DEF At, Lists, RulesOf
    <3> QED BY <1>0, <2>1, <3>1 DEF BlockedIDs, tables
  <2> QED BY <2>1, <2>2, <2>3 DEF Guarded, At
<1>2. CASE BlockedUnread(q) \/ PrivacyUnread(q)
  <2>1. req'[q].open
    BY <1>0, <1>2 DEF BlockedUnread, PrivacyUnread, Goto, TypeInv, ReqOK, Request
  <2> QED BY <2>1 DEF Guarded
<1>3. CASE ReadMuted(q)
  <2> DEFINE l == [req[q] EXCEPT !.pc = "read", !.hidden = @ \cup MutedIDs(req[q].from)]
  <2>1. /\ l.pc = "read" /\ l.hidden = req[q].hidden \cup MutedIDs(req[q].from)
        /\ l.op = req[q].op /\ l.from = req[q].from /\ l.open = req[q].open
    BY <1>0 DEF Request
  <2>2. req'[q] = l /\ At(q, "muted") /\ req[q].op = "home"
    BY <1>0, <1>3 DEF ReadMuted, Goto, TypeInv, ReqOK, EndsOK, PlaceOK, At
  <2> HIDE DEF l
  <2>3. ASSUME NEW f \in since'[q], f[2] # "blocker", ~req[q].open
        PROVE  f[1] \in l.hidden
    <3>1. /\ f[1] \in Users /\ f[2] \in {"blocked", "muted"}
          /\ f[2] = "muted" => <<req[q].from, f[1]>> \in mutes'
      BY <2>1, <2>2, <2>3, FactsMean DEF At, RulesOf
    <3>2. f \in since[q]
      BY <2>1, <2>2, <2>3, SinceShrinks DEF At
    <3>3. CASE f[2] = "muted"
      BY <1>0, <2>1, <3>1, <3>3 DEF MutedIDs, tables
    <3>4. CASE f[2] = "blocked"
      BY <2>1, <2>2, <2>3, <3>2, <3>4 DEF Guarded
    <3> QED BY <3>1, <3>3, <3>4
  <2> QED BY <2>1, <2>2, <2>3 DEF Guarded, At, Lists
<1>4. CASE ReadList(q)
  <2>1. PICK shown \in SUBSET Users : Answer(q, shown) /\ shown \cap req[q].hidden = {}
    <3>1. \/ Answer(q, FollowedIDs(req[q].from) \ req[q].hidden)
          \/ Answer(q, Users \ req[q].hidden)
      BY <1>4 DEF ReadList, SearchResults, HashtagPosts, HomeTimeline
    <3>2. FollowedIDs(req[q].from) \subseteq Users
      BY DEF FollowedIDs
    <3> QED BY <3>1, <3>2
  <2>2. At(q, "read") /\ ~At(q, "answer") /\ ~At(q, "idle") /\ req[q].op \in Lists
    BY <1>4 DEF ReadList, At, Lists
  <2>3. req'[q].pc # "idle"
    BY <1>0, <2>1, AnswerTyped DEF TypeInv, Request
  <2>4. ASSUME NEW f \in since'[q], f[2] # "blocker", ~req[q].open PROVE f[1] \notin shown
    BY <2>1, <2>2, <2>3, <2>4, SinceShrinks DEF Guarded
  <2> QED BY <1>d, <2>1, <2>2, <2>4
<1>5. CASE CheckProfile(q)
  <2>1. At(q, "blocked") /\ ~At(q, "answer") /\ ~At(q, "idle") /\ req[q].op = "profile"
    BY <1>5 DEF CheckProfile, At
  <2>2. CASE Done(q)
    BY <1>c, <2>2
  <2>3. CASE Move(q, "read") /\ ~IsBlockedBidirectional(req[q].from, req[q].to)
    <3>1. req'[q].pc = "read" /\ req'[q].op = "profile" /\ req'[q].from = req[q].from
      BY <1>0, <2>1, <2>3 DEF Move, Goto, TypeInv, ReqOK, Request
    <3>2. ASSUME NEW f \in since'[q] PROVE f[1] # req[q].to
      BY <1>0, <2>1, <2>3, <3>1, <3>2, FactsMean DEF RulesOf, IsBlockedBidirectional, tables
    <3> QED BY <1>e, <2>1, <2>3, <3>2 DEF Lists
  <2> QED BY <1>5, <2>2, <2>3 DEF CheckProfile
<1>6. CASE CheckAuthorPrivacy(q) \/ CheckTitlePrivacy(q) \/ CheckFollowing(q)
  <2>1. ~At(q, "answer") /\ ~At(q, "idle") /\ req[q].op \in {"author", "title"}
    BY <1>0, <1>6 DEF CheckAuthorPrivacy, CheckTitlePrivacy, CheckFollowing, At, EndsOK, PlaceOK
  <2>2. CASE Answer(q, {})
    BY <1>d, <2>1, <2>2
  <2>3. CASE /\ Move(q, "read")
             /\ \/ req[q].to \notin private
                \/ <<req[q].from, req[q].to>> \in follows
    <3>1. req'[q].pc = "read" /\ req'[q].op = req[q].op /\ req'[q].from = req[q].from
      BY <1>0, <2>1, <2>3 DEF Move, Goto, TypeInv, ReqOK, Request
    <3>2. ASSUME NEW f \in since'[q] PROVE f[1] # req[q].to
      BY <1>0, <2>1, <2>3, <3>1, <3>2, FactsMean DEF RulesOf, tables
    <3> QED BY <1>e, <2>1, <2>3, <3>2 DEF Lists
  <2>4. CASE Move(q, "following")
    <3>1. req'[q].pc = "following"
      BY <1>0, <2>4 DEF Move, Goto, TypeInv, ReqOK, Request
    <3> QED BY <3>1 DEF Guarded, At
  <2> QED BY <1>6, <2>2, <2>3, <2>4
          DEF CheckAuthorPrivacy, CheckTitlePrivacy, CheckFollowing, AuthorIsPrivate, IsFollowing
<1>7. CASE ReadUser(q)
  <2>1. /\ Answer(q, {req[q].to}) /\ req[q].to \in Users /\ req[q].op \notin Lists
        /\ At(q, "read") /\ ~At(q, "answer") /\ ~At(q, "idle")
    BY <1>0, <1>7 DEF ReadUser, EndsOK, PlaceOK, At, Reads
  <2>2. req'[q].pc # "idle"
    BY <1>0, <2>1, AnswerTyped DEF TypeInv, Request
  <2>3. ASSUME NEW f \in since'[q], f[2] # "blocker", ~req[q].open
        PROVE  f[1] \notin {req[q].to}
    BY <2>1, <2>2, <2>3, SinceShrinks DEF Guarded
  <2> QED BY <1>d, <2>1, <2>3
<1>8. CASE Respond(q) \/ Abort(q)
  BY <1>c, <1>8 DEF Respond, Abort
<1> QED BY <1>1, <1>2, <1>3, <1>4, <1>5, <1>6, <1>7, <1>8 DEF ReadWork

AllGuarded == \A q \in Requests : Guarded(q)

LEMMA GuardedKept == TypeInv /\ AllGuarded /\ [Next]_vars => AllGuarded'
<1> SUFFICES ASSUME TypeInv, AllGuarded, [Next]_vars PROVE AllGuarded'
  OBVIOUS
<1>0. ASSUME NEW q \in Requests, req'[q].pc \in Writing \cup {"idle"} PROVE Guarded(q)'
  BY <1>0 DEF Guarded, At, Writing
<1>1. CASE Step /\ Remember
  <2>1. ASSUME NEW q \in Requests, BeginWrite(q) \/ BeginRead(q) \/ Work(q) \/ Abort(q)
        PROVE  AllGuarded'
    <3>1. ASSUME Guarded(q)', \A r \in Requests \ {q} : req'[r] = req[r]
          PROVE  AllGuarded'
      BY <1>1, <3>1, OthersGuarded DEF AllGuarded
    <3>2. CASE BeginWrite(q)
      BY <1>0, <3>1, <3>2, BeginWriteTyped DEF TypeInv, Writing
    <3>3. CASE BeginRead(q)
      BY <1>1, <3>1, <3>3, BeginReadTyped, BeginGuarded DEF TypeInv
    <3>4. CASE CheckBlocked(q) \/ InsertFollow(q) \/ PublishFollow(q)
      BY <1>0, <3>1, <3>4, FollowTyped DEF TypeInv
    <3>5. CASE InsertBlock(q) \/ DeleteFollows(q) \/ CommitBlock(q)
      BY <1>0, <3>1, <3>5, BlockTyped DEF TypeInv
    <3>6. CASE ReadWork(q)
      BY <1>1, <3>1, <3>6, ReadTyped, ReadGuarded DEF TypeInv, AllGuarded
    <3> QED BY <2>1, <3>2, <3>3, <3>4, <3>5, <3>6 DEF Work, ReadWork
  <2> QED BY <1>1, <2>1, TablesTyped, OthersGuarded DEF Step, TypeInv, AllGuarded
<1>2. CASE UNCHANGED vars
  BY <1>2 DEF vars, AllGuarded, Guarded, At
<1> QED BY <1>1, <1>2 DEF Next

(* No answer shows an author whom its caller was to be spared from the     *)
(* request's beginning to its last read, for any users and requests.       *)
THEOREM AnswersAreHidden == Spec => []AnswersHide
<1>1. Init => AllGuarded
  BY DEF Init, AllGuarded, Guarded
<1>2. AllGuarded => AnswersHide
  BY DEF AllGuarded, Guarded, AnswersHide
<1> QED BY <1>1, <1>2, TypeStarts, TypeKept, GuardedKept, PTL DEF Spec
------------------------------------------------------------------------------
(* Blocks and follows.                                                     *)

(* A follow past its check is of somebody who has not blocked it since,    *)
(* and a block past its delete leaves no follow behind: both while no      *)
(* follow and block of the same two users overlap.                         *)
CheckHolds ==
  \A q \in Requests : req[q].pc \in {"insert", "publish"} => Back(Edge(q)) \notin blocks
DeleteHolds ==
  \A q \in Requests : At(q, "commit") => Back(Edge(q)) \notin follows \ req[q].gone
FollowInv == NoBlockedFollower /\ CheckHolds /\ DeleteHolds /\ HomeHidesBlockers

LEMMA BackTwice ==
  ASSUME NEW q \in Requests, NEW r \in Requests, Back(Edge(q)) = Edge(r)
  PROVE  Back(Edge(r)) = Edge(q)
BY DEF Back, Edge

(* A read that comes to its answer; the home feed shows whom its caller    *)
(* follows.                                                                *)
LEMMA ComesToAnswer ==
  ASSUME TypeInv, NEW q \in Requests, ReadWork(q), req'[q].pc = "answer"
  PROVE  /\ ~At(q, "answer") /\ req'[q].op = req[q].op /\ req'[q].from = req[q].from
         /\ req[q].op = "home" => req'[q].shown \subseteq FollowedIDs(req[q].from)
<1>0. req[q] \in Request /\ EndsOK(req[q]) /\ ReqOK
  BY DEF TypeInv, ReqOK
<1>1. ASSUME NEW shown \in SUBSET Users, Answer(q, shown)
      PROVE  req'[q].op = req[q].op /\ req'[q].from = req[q].from /\ req'[q].shown = shown
  <2>1. req'[q] = [req[q] EXCEPT !.pc = "answer", !.shown = shown]
    BY <1>0, <1>1, AnswerTyped
  <2> QED BY <1>0, <2>1 DEF Request
<1>2. ~Done(q)
  BY <1>0, DoneTyped DEF IdleRequest
<1>3. ~Move(q, "read") /\ ~Move(q, "following")
  BY <1>0 DEF Move, Goto, ReqOK, Request
<1>4. ~ReadBlocked(q)
  BY <1>0 DEF ReadBlocked, Goto, ReqOK, Request
<1>5. ~BlockedUnread(q) /\ ~PrivacyUnread(q)
  BY <1>0 DEF BlockedUnread, PrivacyUnread, Goto, ReqOK, Request
<1>6. ~ReadMuted(q)
  BY <1>0 DEF ReadMuted, Goto, ReqOK, Request
<1>7. CASE ReadList(q)
  <2>1. /\ ~At(q, "answer")
        /\ \/ Answer(q, FollowedIDs(req[q].from) \ req[q].hidden)
           \/ req[q].op # "home" /\ Answer(q, Users \ req[q].hidden)
    BY <1>7 DEF ReadList, SearchResults, HashtagPosts, HomeTimeline, At
  <2>2. FollowedIDs(req[q].from) \ req[q].hidden \in SUBSET Users
    BY DEF FollowedIDs
  <2> QED BY <1>1, <2>1, <2>2
<1>8. CASE CheckAuthorPrivacy(q) \/ CheckTitlePrivacy(q) \/ CheckFollowing(q) \/ CheckProfile(q)
  <2>1. Answer(q, {}) /\ ~At(q, "answer")
    BY <1>2, <1>3, <1>8
    DEF CheckAuthorPrivacy, CheckTitlePrivacy, CheckFollowing, CheckProfile, At
  <2> QED BY <1>1, <2>1
<1>9. CASE ReadUser(q)
  <2>1. /\ Answer(q, {req[q].to}) /\ ~At(q, "answer") /\ req[q].op # "home"
        /\ req[q].to \in Users
    BY <1>0, <1>9 DEF ReadUser, At, Lists, EndsOK, PlaceOK, Reads
  <2> QED BY <1>1, <2>1
<1> QED BY <1>2, <1>4, <1>5, <1>6, <1>7, <1>8, <1>9 DEF ReadWork, Respond, Abort

(* The home feed shows whom its caller follows.                            *)
LEMMA AnswerHidesBlockers ==
  ASSUME TypeInv, NEW q \in Requests, Remember, HomeHidesBlockers, NoBlockedFollower',
         \/ UNCHANGED follows /\ ReadWork(q)
         \/ req'[q].pc # "answer"
         \/ req'[q] = req[q]
  PROVE  At(q, "answer")' =>
           \A f \in since'[q] : f[2] = "blocker" => f[1] \notin req'[q].shown
<1> SUFFICES ASSUME req'[q].pc = "answer", NEW f \in since'[q], f[2] = "blocker"
             PROVE  f[1] \notin req'[q].shown
  BY DEF At
<1>0. req[q] \in Request /\ EndsOK(req[q])
  BY DEF TypeInv, ReqOK
<1>1. CASE req'[q] = req[q]
  BY <1>1, SinceShrinks DEF HomeHidesBlockers, At
<1>2. CASE req'[q] # req[q] /\ UNCHANGED follows /\ ReadWork(q)
  <2>1. ~At(q, "answer") /\ req'[q].op = req[q].op /\ req'[q].from = req[q].from
    BY <1>2, ComesToAnswer
  <2>2. req[q].op = "home" /\ <<f[1], req[q].from>> \in blocks'
    BY <2>1, FactsMean DEF RulesOf
  <2>3. <<req[q].from, f[1]>> \notin follows
    BY <1>2, <2>2 DEF NoBlockedFollower, Back
  <2>4. req'[q].shown \subseteq FollowedIDs(req[q].from)
    BY <1>2, <2>2, ComesToAnswer
  <2> QED BY <2>3, <2>4 DEF FollowedIDs
<1> QED BY <1>1, <1>2

(* Where the requests that read come to.                                   *)
LEMMA BeginReadPlace ==
  ASSUME TypeInv, NEW q \in Requests, BeginRead(q)
  PROVE  req'[q].pc \in {"blocked", "privacy", "read"}
<1>1. ASSUME NEW op, NEW from, NEW to, NEW pc, Ask(q, op, from, to, pc)
      PROVE  req'[q].pc = pc
  BY <1>1 DEF Ask, Goto, TypeInv, ReqOK, IdleRequest
<1> QED BY <1>1
        DEF BeginRead, GetHomeFeed, GetUserByID, SearchPosts, PostsByHashtag, GetUserPrimary,
            ListUserPosts, AfterCaller

LEMMA ReadPlace ==
  ASSUME TypeInv, NEW q \in Requests, ReadWork(q)
  PROVE  req'[q].pc \notin {"insert", "publish", "commit"}
<1>0. req[q] \in Request /\ req \in [Requests -> Request] /\ ReqOK
  BY DEF TypeInv, ReqOK
<1>1. ASSUME NEW shown, Answer(q, shown) PROVE req'[q].pc = "answer"
  BY <1>0, <1>1 DEF Answer, Goto, Request
<1>2. ASSUME Done(q) PROVE req'[q].pc = "idle"
  BY <1>0, <1>2 DEF Done, Goto, IdleRequest
<1>3. ASSUME NEW pc \in {"read", "following"}, Move(q, pc) PROVE req'[q].pc = pc
  BY <1>0, <1>3 DEF Move, Goto, Request
<1>4. ASSUME ReadBlocked(q) \/ BlockedUnread(q) \/ PrivacyUnread(q) \/ ReadMuted(q)
      PROVE  req'[q].pc \in {"read", "muted"}
  <2>1. CASE ReadBlocked(q)
    BY <1>0, <2>1 DEF ReadBlocked, Goto, Request
  <2>2. CASE BlockedUnread(q) \/ PrivacyUnread(q)
    BY <1>0, <2>2 DEF BlockedUnread, PrivacyUnread, Goto, Request
  <2>3. CASE ReadMuted(q)
    BY <1>0, <2>3 DEF ReadMuted, Goto, Request
  <2> QED BY <1>4, <2>1, <2>2, <2>3
<1>5. CASE \E shown : Answer(q, shown)
  BY <1>1, <1>5
<1>6. CASE Done(q) \/ Move(q, "read") \/ Move(q, "following")
  BY <1>2, <1>3, <1>6
<1> QED BY <1>4, <1>5, <1>6
        DEF ReadWork, ReadList, CheckProfile, CheckAuthorPrivacy, CheckTitlePrivacy,
            CheckFollowing, ReadUser, Respond, Abort

LEMMA FollowInvKept ==
  TypeInv /\ FollowInv /\ NoOverlap /\ [Next]_vars => FollowInv'
<1> SUFFICES ASSUME TypeInv, FollowInv, NoOverlap, [Next]_vars PROVE FollowInv'
  OBVIOUS
<1> USE DEF FollowInv
<1>0. ASSUME NEW q \in Requests PROVE req[q] \in Request
  BY DEF TypeInv, ReqOK
<1>1. ASSUME NEW q \in Requests, Remember, UNCHANGED <<blocks, follows>>,
             \A r \in Requests \ {q} : req'[r] = req[r],
             req'[q].pc \in {"insert", "publish"} => (Back(Edge(q)) \notin blocks)',
             req'[q].pc = "commit" => (Back(Edge(q)) \notin follows \ req[q].gone)',
             ReadWork(q) \/ req'[q].pc # "answer"
      PROVE  FollowInv'
  <2>1. NoBlockedFollower'
    BY <1>1 DEF NoBlockedFollower
  <2>2. CheckHolds'
    BY <1>1 DEF CheckHolds, Edge
  <2>3. DeleteHolds'
    BY <1>1 DEF DeleteHolds, Edge, At
  <2>4. HomeHidesBlockers'
    BY <1>1, <2>1, AnswerHidesBlockers DEF HomeHidesBlockers
  <2> QED BY <2>1, <2>2, <2>3, <2>4
<1>2. CASE Step /\ Remember
  <2>1. ASSUME NEW q \in Requests, BeginWrite(q) PROVE FollowInv'
    BY <1>1, <1>2, <2>1, BeginWriteTyped DEF TypeInv, tables
  <2>2. ASSUME NEW q \in Requests, BeginRead(q) PROVE FollowInv'
    <3>1. req'[q].pc \in {"blocked", "privacy", "read"}
      BY <2>2, BeginReadPlace DEF TypeInv
    <3> QED BY <1>1, <1>2, <2>2, <3>1, BeginReadTyped DEF TypeInv, tables
  <2>3. ASSUME NEW q \in Requests, ReadWork(q) PROVE FollowInv'
    <3>1. req'[q].pc \notin {"insert", "publish", "commit"}
      BY <2>3, ReadPlace DEF TypeInv
    <3> QED BY <1>1, <1>2, <2>3, <3>1, ReadTyped DEF TypeInv, tables
  <2>4. ASSUME NEW q \in Requests, CheckBlocked(q) PROVE FollowInv'
    <3>0. UNCHANGED tables
      BY <2>4 DEF CheckBlocked
    <3>1. Done(q) \/ (Move(q, "insert") /\ Back(Edge(q)) \notin blocks)
      <4>1. Back(Edge(q)) = <<req[q].to, req[q].from>>
        BY DEF Back, Edge
      <4>2. CASE <<req[q].to, req[q].from>> \in blocks
        BY <2>4, <4>2 DEF CheckBlocked, IsBlockedBy
      <4>3. CASE <<req[q].to, req[q].from>> \notin blocks
        <5>1. Move(q, "insert")
          BY <2>4, <4>3 DEF CheckBlocked, IsBlockedBy
        <5> QED BY <4>1, <4>3, <5>1
      <4> QED BY <4>2, <4>3
    <3>2. /\ req'[q].pc \in {"idle", "insert"}
          /\ req'[q].pc = "insert" => (Back(Edge(q)) \notin blocks)'
      <4>1. CASE Done(q)
        BY <4>1, DoneTyped DEF TypeInv, IdleRequest
      <4>2. CASE Move(q, "insert") /\ Back(Edge(q)) \notin blocks
        <5>1. req'[q].pc = "insert" /\ Edge(q)' = Edge(q)
          BY <1>0, <4>2 DEF Move, Goto, TypeInv, ReqOK, Request, Edge
        <5> QED BY <3>0, <4>2, <5>1 DEF Back, tables
      <4> QED BY <3>1, <4>1, <4>2
    <3> QED BY <1>1, <1>2, <2>4, <3>0, <3>2, FollowTyped DEF TypeInv, tables
  <2>5. ASSUME NEW q \in Requests, InsertFollow(q) PROVE FollowInv'
    <3>1. /\ follows' = follows \cup {Edge(q)} /\ UNCHANGED blocks
          /\ req[q].pc = "insert" /\ req' = [req EXCEPT ![q] = [req[q] EXCEPT !.pc = "publish"]]
      BY <2>5 DEF InsertFollow, Move, Goto, At
    <3>2. /\ req'[q].pc = "publish" /\ Edge(q)' = Edge(q)
          /\ \A r \in Requests \ {q} : req'[r] = req[r]
      BY <1>0, <3>1 DEF TypeInv, ReqOK, Request, Edge
    <3>3. Back(Edge(q)) \notin blocks
      BY <3>1 DEF CheckHolds
    <3>4. NoBlockedFollower'
      <4> SUFFICES ASSUME NEW p \in blocks PROVE Back(p) \notin follows'
        BY <3>1 DEF NoBlockedFollower
      <4>1. CASE Back(p) = Edge(q)
        BY <3>3, <4>1, BackInPair DEF TypeInv, TablesOK
      <4> QED BY <3>1, <4>1 DEF NoBlockedFollower
    <3>5. CheckHolds'
      BY <3>1, <3>2, <3>3 DEF CheckHolds, Edge
    <3>6. ASSUME NEW r \in Requests, At(r, "commit")'
          PROVE  (Back(Edge(r)) \notin follows \ req[r].gone)'
      <4>1. r # q /\ req'[r] = req[r] /\ At(r, "commit") /\ Edge(r)' = Edge(r)
        BY <3>2, <3>6 DEF At, Edge
      <4>2. Back(Edge(r)) # Edge(q)
        BY <3>1, <4>1, BackTwice DEF NoOverlap
      <4> QED BY <3>1, <4>1, <4>2 DEF DeleteHolds
    <3>7. HomeHidesBlockers'
      BY <1>2, <3>2, <3>4, AnswerHidesBlockers DEF HomeHidesBlockers
    <3> QED BY <3>4, <3>5, <3>6, <3>7 DEF DeleteHolds
  <2>6. ASSUME NEW q \in Requests, PublishFollow(q) PROVE FollowInv'
    <3>1. req'[q].pc = "idle" /\ UNCHANGED <<blocks, follows>>
      BY <2>6, DoneTyped DEF PublishFollow, TypeInv, IdleRequest
    <3> QED BY <1>1, <1>2, <2>6, <3>1, FollowTyped DEF TypeInv
  <2>7. ASSUME NEW q \in Requests, InsertBlock(q) PROVE FollowInv'
    <3>1. req'[q].pc = "unfollow" /\ UNCHANGED <<blocks, follows>>
      BY <1>0, <2>7 DEF InsertBlock, Goto, tables, TypeInv, ReqOK, Request
    <3> QED BY <1>1, <1>2, <2>7, <3>1, BlockTyped DEF TypeInv
  <2>8. ASSUME NEW q \in Requests, DeleteFollows(q) PROVE FollowInv'
    <3> DEFINE gone == follows \cap {Edge(q), Back(Edge(q))}
    <3>1. /\ UNCHANGED tables
          /\ req' = [req EXCEPT ![q] = [req[q] EXCEPT !.pc = "commit", !.gone = gone]]
      BY <2>8 DEF DeleteFollows, Goto
    <3>2. req'[q].pc = "commit" /\ req'[q].gone = gone /\ Edge(q)' = Edge(q)
      BY <1>0, <3>1 DEF TypeInv, ReqOK, Request, Edge
    <3>3. (Back(Edge(q)) \notin follows \ req[q].gone)'
      BY <3>1, <3>2 DEF tables, Back
    <3> QED BY <1>1, <1>2, <2>8, <3>1, <3>2, <3>3, BlockTyped DEF TypeInv, tables
  <2>9. ASSUME NEW q \in Requests, CommitBlock(q) PROVE FollowInv'
    <3>1. /\ req[q].pc = "commit" /\ Done(q) /\ follows' = follows \ req[q].gone
          /\ blocks' \subseteq blocks \cup {Edge(q)}
      BY <2>9 DEF CommitBlock, At
    <3>2. req'[q].pc = "idle" /\ \A r \in Requests \ {q} : req'[r] = req[r]
      BY <3>1, DoneTyped DEF TypeInv, IdleRequest
    <3>3. NoBlockedFollower'
      BY <3>1 DEF NoBlockedFollower, DeleteHolds, At
    <3>4. ASSUME NEW r \in Requests, (req[r].pc \in {"insert", "publish"})'
          PROVE  (Back(Edge(r)) \notin blocks)'
      <4>1. r # q /\ req'[r] = req[r] /\ Edge(r)' = Edge(r)
        BY <3>2, <3>4 DEF Edge
      <4>2. Back(Edge(r)) # Edge(q)
        BY <3>1, <3>4, <4>1 DEF NoOverlap, At
      <4> QED BY <3>1, <3>4, <4>1, <4>2 DEF CheckHolds
    <3>5. DeleteHolds'
      BY <3>1, <3>2 DEF DeleteHolds, At, Edge
    <3>6. HomeHidesBlockers'
      BY <1>2, <3>2, <3>3, AnswerHidesBlockers DEF HomeHidesBlockers
    <3> QED BY <3>3, <3>4, <3>5, <3>6 DEF CheckHolds
  <2>10. ASSUME \/ \E p \in Pair : Unfollow(p) \/ Unblock(p) \/ Mute(p) \/ Unmute(p)
                \/ \E u \in Users : UpdateSettings(u)
         PROVE FollowInv'
    <3>1. UNCHANGED req /\ follows' \subseteq follows /\ blocks' \subseteq blocks
      BY <2>10 DEF Unfollow, Unblock, Mute, Unmute, UpdateSettings
    <3>2. NoBlockedFollower'
      BY <3>1 DEF NoBlockedFollower
    <3>3. CheckHolds' /\ DeleteHolds'
      BY <3>1 DEF CheckHolds, DeleteHolds, At, Edge
    <3>4. HomeHidesBlockers'
      BY <1>2, <3>1, <3>2, AnswerHidesBlockers DEF HomeHidesBlockers
    <3> QED BY <3>2, <3>3, <3>4
  <2> QED BY <1>2, <2>1, <2>2, <2>3, <2>4, <2>5, <2>6, <2>7, <2>8, <2>9, <2>10
          DEF Step, Work, ReadWork
<1>3. CASE UNCHANGED vars
  BY <1>3 DEF vars, tables, NoBlockedFollower, CheckHolds, DeleteHolds, HomeHidesBlockers, Edge, At
<1> QED BY <1>2, <1>3 DEF Next

(* The three promises of a block, of any two users, hold for ever as long  *)
(* as no follow is between its check and its end while a block of the same *)
(* two users commits.                                                      *)
THEOREM BlocksEndFollows == Spec => BlockEndsFollow
<1>1. Init => FollowInv
  BY DEF Init, FollowInv, NoBlockedFollower, CheckHolds, DeleteHolds, HomeHidesBlockers,
         At, IdleRequest
<1>2. TypeInv /\ FollowInv => NoBlockedFollower /\ NoBlockedActor /\ HomeHidesBlockers
  BY DEF FollowInv, CheckHolds, NoBlockedActor, At
<1> QED BY <1>1, <1>2, TypeStarts, TypeKept, FollowInvKept, PTL DEF Spec, BlockEndsFollow
==============================================================================
