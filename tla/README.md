# Dzeroth: a TLA+ verification project

Dzeroth is a microblogging service: a Go API over PostgreSQL and Redis
(`src/apps/backend`) and a Flutter client (`src/lib`). This directory holds TLA+
modules of its stateful core, the TLC configurations that check them on small
instances, and TLAPS proofs of the properties that matter most. The code is the
reference: every definition is translated from it, and `PROJECT.json` names the
lines.

## The system

One API process serves HTTP and runs three background workers (session cleanup,
title qualification, title notification) on tickers
(`cmd/api/main.go:323-372`). It is deployed on one host
(`docs/DEPLOYMENT_TOPOLOGY.md`), so each worker exists once; nothing in the code
enforces that. All shared state is in PostgreSQL, at READ COMMITTED: a
statement of the pool commits on its own, and only a few operations open a
transaction (`RevokeUserTitleTx`, `RotateSession`, `Block`, the insert of a
post). Redis holds rate-limit counters. Requests of different users, and several
requests of one user, run concurrently; between two statements of one of them
anything else may commit.

| component | state | operations | what is hard | what makes it correct |
|---|---|---|---|---|
| title qualification worker (`title/worker.go`, `engine.go`) | `user_titles` rows: active, grace_period, revoked | unlock, enter grace, restore, revoke, one user at a time | acts on a snapshot; INSERT against a partial unique index; failures in the middle of a pass; overlapping passes | one live row per title; revocation only after the grace period; permanent titles last; earned and lost titles are eventually noticed |
| primary title (`title/service.go`, `repository.go`) | `users.primary_title_id` | set, clear, cleared by a revocation | `EXISTS` is answered from a snapshot while the revocation commits | the badge shown is a title held now |
| title notification worker (`title/notification_worker.go`) | the `*_notification_sent` flags, `notifications` | publish, then mark | crash between the two; one dedup index for all titles | marked means published; one row per user and event; nothing announced that did not happen |
| refresh-token sessions (`auth/`, `user.SuspendSelf`) | `sessions`, `users.is_suspended` | register, login, refresh, logout, suspend, cleanup | lookup, checks and rotation are separate statements; best-effort revocation; cleanup by row version | a token opens its own session only, and is good once; ended sessions stay ended; a suspended account gets no tokens |
| client session (`core/network/auth_interceptor.dart`, auth bloc and repository) | stored refresh token, access token in memory, auth state | 401, silent refresh, retry, sign out | concurrent 401s share one stored token; awaits between read and use | signed out only when the refresh failed; the stored token is the live one |
| blocks, mutes, follows | `blocks`, `mutes`, `follows` | block (transaction), follow (check, then insert) | a follow between the check and a block | a block ends the follow for good, unless a follow overlaps it |
| posts, reactions, bookmarks | `posts` and the tables that refer to it | create (reply, quote, repost), soft delete, react, bookmark | the referenced post is deleted between check and insert; share delay on client clocks | threads are rooted; one repost and one reaction each |
| notifications | `notifications` | publish, list, mark all read | dedup over NULL post ids | one row per event |
| feeds, lists, search | none of their own | cursor pages, depth-capped | rows change between pages | no page repeats or skips a row that stays |
| rate limiters | Redis counters | SETNX, INCR, TTL repair | three commands, not one | never more than the limit in a window; a window closes unless the command that owed its TTL was lost |
| reports | `reports` | submit, deduplicated, fail-closed limiter | `ON CONFLICT` names an index | one pending report per target |
| client blocs (feeds, lists) | list, cursor, lock of the next page | load, next page, mark read | state captured before an `await` is used after it | pages neither vanish nor repeat; what is shown as read is read |
| creator studio, profile, settings | single rows | reads, single updates | field validation | - |

## Modules

| module | what it is | proofs |
|---|---|---|
| `TitleRows` | row ids, row states and constants of the `user_titles` table | |
| `TitleContract` | abstract: the life of a row, each change in one step | |
| `TitleLifecycle` | the statements of the qualification worker and of the primary-title requests | `TitleLifecycleProofs` |
| `SessionContract` | abstract: sessions opened, rotated from token to token, ended for good | |
| `Sessions` | register, login, refresh, logout, suspension and cleanup, statement by statement | `SessionsProofs` |
| `TitleNotifications` | the notification worker, over a table that lives by `TitleContract` | `TitleNotificationsProofs` |
| `ClientSession` | the Flutter client's session: stored token, access token, bloc, calls in flight, the interceptor's silent refresh | `ClientSessionProofs` |
| `Relations` | blocks, mutes, follows and privacy, and the reads that hide users by them | `RelationsProofs` |
| `Posts` | posts, replies, shares, deletions, likes, bookmarks, reports and the notices of them | `PostsProofs` |
| `RateLimit` | the eleven Redis rate limiters, command by command | `RateLimitProofs` |
| `Paging` | the server's cursor pages and the blocs that join them, over rows that come and go | `ListScreensProofs` |
| `SearchScreen` | the search bloc: debounce, two tabs, answers in any order | `ListScreensProofs` |

Each module `M` that is checked has a module `MCM` with the values its
configurations choose from. `MCClient` puts the session and the search screen into
one run: they share no state, so a behaviour is of one of them, the other staying as
it began, and the run has the states of both added up.

`TitleContract` is used twice: `TitleLifecycle` implements it, and
`TitleNotifications` takes it as its environment, so that what is shown of the
notification worker rests on what is shown of the qualification worker.
`TitleLifecycle!Contract` and `TitleNotifications!Table` are the two instances,
each with its own variables for the table's.

`SessionContract` stands between server and client in the same way. `Sessions`
implements it, with the token of a row for the token of its session. The server in
`ClientSession` is `Sessions` reduced to what a client can tell, which refresh token
opens a session; it has variables of its own, and it implements the contract too.
That keeps the reduction from promising the client anything the contract rules out:
a second token for a session, a token used again, a session back from its end. It
does not show that every behaviour of `Sessions` is one of the reduced server's;
that its logins, rotations, refusals and ends are the ones a client can meet is read
off the two modules.

`Paging` puts server and client into
one module, for neither of them promises anything alone: the server knows no
screen, the screen no rows.

### TitleLifecycle

`rows` is `user_titles`, `primary` is `users.primary_title_id`, `wk` the local
variables of each worker's `reconcileUser`, `req` the `SetPrimaryTitle`
statements in flight, `clock` the wall clock. A row id is a triple of user, title
and a number, so that a title earned again after a revocation is a new row.
`qualifies` is the answer the metric queries would give now; posts, likes and
deletions change it at any time (`MetricsChange`). The thresholds themselves are
not in this module.

One action is one statement or one read of the clock: `Qualify` (metric query),
`UnlockTitle` / `RequalifyEntry` (`INSERT ... ON CONFLICT DO NOTHING`),
`GetUserTitles` (the snapshot), `ReadClock` (`now := time.Now()`), then for each
revocable entry the branch of the switch on the snapshot's status:
`EnterGracePeriod`, `RestoreGracePeriodTitle`, and the revocation as a
transaction of three steps (`RevokeRow`, `ClearRevokedPrimary`, `CommitRevoke`).
A transaction's effects appear at its commit; until then it holds the row lock of
the title (`RowLocked`) and, if it matched, of the user (`UserLocked`), and other
writers of those rows wait. `UpdateFrom` is `UPDATE ... WHERE id = $1 AND status =
...`. `SetPrimaryTitle` is one UPDATE in two steps, because its `EXISTS` looks at
`user_titles` through the statement's snapshot while its write waits for the
`users` row. `StatementFails` is any failed statement, with what the code then
skips; `Crash` is the end of the process, or a cancelled context, at any point.

The entries of a pass are taken in any order, and any user at any time; both are
weaker than the code's order, so what holds here holds there.

### Sessions

`account` is `users` (absent, active, suspended), `sessions` the table, `created`
and `minted` the ids and tokens handed out so far, `held` the token pairs clients
have, `req` the locals of each request in flight. A refresh token is the number of
its generation and stands for the random bytes and their hash. `doomed` is what
the running cleanup statement has selected, as row versions: the DELETE goes by
`ctid`, so a row updated since is another version and stays.

`Refresh` is `GetSessionByHash`, `CheckExpiry`, `CheckSuspension`,
`RotateSession`; `Register` is `CreateUser`, `CreateSession`; `Login` reads the
user and the flag, then `CreateSession`; `SuspendSelf` sets the flag, then
`DeleteAllUserSessions`. `Abort` ends a request anywhere: a failed statement, a
crash, or an answer lost on its way, which leaves a rotated session nobody has
the token of. An access token is checked against the clock only, as
`JWTMiddleware` does.

### TitleNotifications

`rows` and `clock` are the table of `TitleContract`, which moves by `TableStep`
between any two steps of a worker; `sent` is the two `*_notification_sent` flags,
`inbox` counts the rows of `notifications` per recipient and event, `wk` is the
worker's batch and its place in it. `lapsed` is a history of the rows that have
been in a grace period; no action reads it. A pass is `RunOnce`, `Fetch` (the
pending rows, oldest `unlocked_at` first, `LIMIT BatchSize`, in any order among
equals), then for each row `Publish` and `MarkSent`, for unlocks and then for
grace periods. `AlreadyThere` is `notifications_dedup_idx`: the actor is the
system user and the post is NULL, so it tells recipient and event apart and
nothing else. A user is therefore notified of the first unlock and the first
grace period only; for later titles the insert does nothing and the row is marked
as sent. `SentIsPublished` is stated accordingly: there is a notification of the
event, not of the title. `StatementFails` is the `continue` (or, for the query,
the `return`) of each error branch; `Crash` the end of the process.

### ClientSession

`stored` is the refresh token in `SecureStorage`, `access` the variable
`currentAccessToken` of `main.dart`, `auth` the state of `AuthBloc`, `call` the
calls in flight with what their closures hold. `session`, `current` and `minted`
are the server: which session each issued pair belongs to and which pair of a
session is the last. A pair is one number for its access and its refresh token.

One action is what runs between two awaits. `StartCall` is any repository call of
a screen; `CheckRequested`, `LoginRequested` (registration differs in what the
server checks only) and `LogoutRequested` are the bloc's, through
`AuthRepositoryImpl`. A 401 (`Refused`) enters `onError`: `ReadToken`, the
refresh request (`LookupRefresh`, `RotateRefresh`: the two statements of the
server), `WriteToken`, `OnTokenRefreshed` with the retry, and the catch block
(`DeleteToken`, `SignOut`) for whatever fails on the way, the retry included.
Then the repository and the bloc take the answer: `StoreSession` and `SignIn`, or
`ParseFails`, or the `End...` action of the kind of call. `Failed` is an answer
that is no 401, or none: timeouts and broken connections (`CallFails`), a request
carried out whose answer is lost (`AnswerLost`), and the 500 for a session that
ended under the request (`SessionGone`). `Restart` kills the app.

The bloc makes one call at a time: the forms are disabled while it is loading. (A
failed refresh of another call ends the loading state and would allow a second
login beside the first; that is left out.)
The secure storage does not fail. `userIDSent` is the one thing client and
server disagree on: `AuthResponseDto` requires a `user_id` that the server's
`TokenPair` does not have. It is chosen at the start, so that the rest of the client can be
checked as its comments describe it, and what the present server makes of it as
well.

### Relations

`blocks`, `mutes`, `follows` and `private` are the tables and the flag, `inbox` the
notices of new followers, `req` the locals of each request in flight. `Follow` is
`CheckBlocked`, `InsertFollow`, `PublishFollow`. `Block` is the one transaction:
`InsertBlock` waits for another insert of the same key (`InsertPending`),
`DeleteFollows` for rows another transaction has deleted (`RowLocked`), and nothing
is seen before `CommitBlock`. The reads are the home feed (blocked ids, muted ids,
timeline), search and hashtag pages (blocked ids of a caller who gave a token,
then the rows), the author's posts and the primary title (privacy, then the
follow), and the profile (block in either direction). `BlockedUnread` and
`PrivacyUnread` are the two checks the code passes over when they fail;
`open` marks the answers they lead to. `Abort` is a failed statement or a crash, at
any point. `since` is a history: what has been hidden from the caller of a read
ever since it began; no action of the program reads it. Every user has something
to show, so a list is the set of its authors.

### Posts

`posts` holds the rows, with the mention of each; deletions only mark them, as in
the code. A request is a `Draft` on its way through `CreatePost`: the lookup of a
reply's parent (`FindParent`, which fixes the thread's root), the insert with its
foreign keys and its unique index (`InsertPost`, `InsertRefused`), the read of what
was created and the notices. `age` is the server's clock minus the client's
`share_initiated_at`, reduced to one value on each side of each threshold (the
30 s of skew, the 5 s of delay). Likes look the author up and insert; bookmarks
and reports check the post and insert; a deletion checks its owner and marks.
A report ends in `SubmitReport`, whose `ON CONFLICT ON CONSTRAINT` names an index,
so it is refused.

### RateLimit

One counter, `count` with its `ttl`, of one subject at one `limiter`: no command
touches two keys. A request sends `SetNX`, `Incr` and, if the counter was 1,
`Expire`; between any two of them other requests run, the key may expire (`Tick`)
or be evicted (`Evict`), the request may end (`Abort`), and each command may fail
without effect (`OnError`, `ExpireFails`) or take effect with its reply lost
(`ReplyLost`). The limiters differ in what an error means: `FailClosed` for auth,
posts, follows, blocks, bookmarks and reports, `FailOpen` for search, reactions
and the studio. `passed` and `lost` are histories: what this window has let
through, and whether a failed command owed the key its TTL.

### Paging

`rows` is what the query of the `list` matches at present, by position in its
order; they come and go at any time (`Appear`, `Vanish`), also between a page's
request and its answer. `PageAt` is the query of each list: a page of `PageSize`
past the cursor, one row more to see whether it is the last, inside a window of
`MaxDepth` rows for feeds and threads; `InOrder` puts a page's rows in the order of
the list, the i-th being the one with i - 1 before it. `view` is the state of the
screen's bloc, `call` its event handlers under way: each keeps the state it saw when
it began (`from`) and joins its page to that. `MarkAllReadRequested` is the
notification bloc's. `owed` and `whole` are histories of a load.

### SearchScreen

`text`, `timer` and `active` are the field, the debounce timer and `_activeQuery`;
`shown` is the bloc's one state for both tabs; `handler` its handlers.
`SearchQueryChanged` restarts the timer or clears the screen; `SearchQueryDebounced`,
`TabChanged`, `SearchUsersRequested` and `SearchNextPageRequested` start a handler;
`Answer` shows what came, if its text is still the active one; `LoseResults` is a failed
request. How often the field changes is bounded by `MaxTyped`.

## What the runs check

| run | instance | states | result |
|---|---|---|---|
| `title` | 1 user, a permanent and a revocable title, 1 worker, 1 client, 2 rows per title, clock to 2 | 25,040 | a revocation is due when it commits; every step is a step of `TitleContract`; the primary title is held, if no `SetPrimaryTitle` overlaps the revocation of its row; earned titles become active, lapsed ones are revoked |
| `title_workers` | the same tables, 2 workers, no client | 366,888 | one live row per title; permanent titles stay active, revoked rows stay revoked and grace periods are not prolonged, on whatever stale snapshots the workers act |
| `sessions` | 1 user, 2 sessions, 2 requests, 3 tokens, clock to 2 | 255,743 | tokens open their own session; a token is good once, if refreshes of its session do not overlap; the cleanup spares live sessions and gets the expired ones; suspension takes hold; every step is a step of `SessionContract`, so ended sessions stay ended |
| `notifications` | 1 user, 2 titles, 2 workers, batch of 1, clock to 1 | 31,307 | marked means published; one row per user and event; no notice without a cause; every pending row is marked, or leaves the status it was pending in |
| `client` | the session: 1 call and the bloc's, 3 pairs, a server with or without `user_id`; or the search screen: 2 texts, 4 changes of the field, 2 handlers | 141,039 | signed in means requests carry a token; nobody is signed in without `user_id`; every call ends; a signed-in client at rest holds the live token of its session, if calls come one at a time; a request is retried in the session it was sent in, if no other is stored meanwhile; the server in the model keeps `SessionContract`; what the search shows is for the active text; the text in the field is answered in the end |
| `client_concurrent_401` | 2 calls, no failures | - | **violated**: `RefusedMeansEnded` |
| `relations` | 2 users, 2 requests, of which 1 may read, as a user or without a token | 86,404 | no answer shows who was hidden throughout; a block ends the follow for good, if no follow overlaps its commit; every request ends |
| `posts` | 2 users, 2 requests, 3 posts | 915,392 | threads are rooted and shares due; every notice has a cause; nothing is about to be written for a deleted post, if the deletion did not fall between lookup and write |
| `posts_report` | the same | - | **violated**: `ReportIsTaken` |
| `limits` | any limiter, 3 requests, a limit of 1, a window of 2 ticks | 198,880 | a window lets through no more than its limit; a key without a TTL is about to get one, unless a command was lost; windows close |
| `paging` | a list of each shape, 5 rows of which 2 come and go, pages of 2, a window of 3, 2 handlers | 240,363 | the pages make one ordered list without repetition; a list that has ended skipped nothing that stayed; windows bound it; what is shown as read is read; the lock of the next page is released, unless a mark overlaps it; a next page is asked for only with a cursor |
| `paging_depth` | the notification list, 5 rows that stay, pages of 2, 1 handler | - | **violated**: `DocumentedEnd` |

Safety and liveness of an instance are checked in one run, under the fair
specification, whose reachable states are those of `Spec`. `HeldUnlessOverlap`,
`UsedOnceUnlessOverlap`, `SignedInCanRefresh` and `RetriedAsSender` are implications
between two `[]` formulas: of behaviours in which the condition always holds, in a run
in which it may fail.

`RevocationIsDue` and `KeepsContract` are checked for one worker only, on
purpose: the revocation's UPDATE does not look at the status again, so a second
worker may revoke a row that was restored, or re-entered its grace period, since
its snapshot. The code is written for one worker per deployment. What holds of
any number, `OneLiveRowPerTitle` and `LastingStates`, is checked with two
(`title_workers`), under `Spec` and without the client, whose requests do not
touch the rows.

Type invariants are proved rather than run, but for `Paging`'s, whose coherence
of list, cursor and lock is a property worth a run; it is proved as well.

### Bounds

- Two rows of one title (`MaxEarns`) are enough to earn a title, lose it and earn
  it again; the properties relate at most two rows.
- A clock up to 2 with a grace period of 1 gives a row that enters its grace
  period, one whose deadline passes, and a worker whose clock reading is older
  than the row it acts on. Token lifetimes of 1 do the same for sessions.
- Three refresh tokens (`MaxTokens`) are a login, a rotation and a second
  rotation or login; two session ids a user with two sessions; two requests every
  pair of operations in flight together. Two users are left to the proofs: no
  operation relates the sessions of different users. `Batch = 1` makes the cleanup
  leave expired rows behind.
- One row of each of two titles (`MaxEarns = 1`) is what the notification worker
  needs to find several pending rows of a user. A batch of one (`BatchSize`) puts
  every second pending row behind the LIMIT; two titles of one user meet in the
  dedup index, which users do not share.
- A call and the bloc's own are two refreshes that share a stored token, when the
  bloc's is a logout; three pairs (`MaxPairs`) are a session, its rotation and a second
  rotation or session. `client_concurrent_401` takes two calls and four pairs.
- `SignedInCanRefresh` is of behaviours in which silent refreshes come one at a time
  and the bloc's calls alone (`OneByOne`): what the interceptor would guarantee if it
  queued the calls that meet a 401. The first violation says what happens because it
  does not.
- `RetriedAsSender` is of behaviours in which, whenever the bloc's call has stored a
  session and is about to sign in, no other call may still be retried
  (`StoredAlone`): each has had its answer, is a retry already, or is on its way to
  sign out. Refreshes overlap freely in them, and so do logouts, restarts and logins
  at the server. Without its condition each of the two is violated.
- Two users and two requests are every pair of operations in `relations`: no
  statement relates three users, and the histories of reads are per request. One
  of the requests may read; two reads do not disturb each other. `Followers`,
  `Muters`, `Shy` and `Viewers` break the symmetry between the two users that TLC
  cannot use under fairness; the proofs need none of them.
- Three posts (`MaxPosts`) are a root, a reply and a reply to the reply, or a post
  with two shares of it. `Drafts` has one of each kind with its deviations (no
  parent, a parent where none is needed, each side of both thresholds, too few
  words); `Touched` is the post the others refer to.
- Three requests and a limit of one are a request that counts, one that is
  refused, and one whose `EXPIRE` comes a window late; a window of two ticks lets a
  prolonged TTL be told from a fresh one.
- Five rows in pages of two are three pages; a window of three ends inside the
  second page. The rows that move (`Movable`) are one inside the first page and
  the last of all, at either end of the order. The lists are one of each
  shape: window or none, ascending or descending, marked or not.
- Two texts typed four times (`MaxTyped`) are a text, another, the first again and
  a cleared field, which is what the guard on the text must tell apart.
- Deadlock is checked in every run: the clock's bound alone stops nothing, for
  requests keep arriving.

### Fairness

`TitleLifecycle!Fairness`: the worker's steps are weakly fair (the goroutine
runs), the visit of each user strongly fair (each pass pages through all ids),
the clock ticks, and from some moment on statements succeed and the process stays
up; without the last, nothing is promised. `Sessions!Fairness`: a request
proceeds or is cut by the server's timeouts (weak), the cleanup statement is
issued again while expired rows exist (weak), and does not fail for ever
(strong). Nothing is assumed of clients. `TitleNotifications!Fairness`: a worker's
steps are weakly fair (the goroutine and its ticker run), and from some moment on
statements succeed and the process stays up. `ClientSession!Fairness`: a request
is answered or ends by Dio's connect and receive timeouts, which every Dio of the
client sets (weak, per call); the user may do nothing and the server may refuse
for ever. `Relations!FairSpec`: each request's statements are strongly fair; a
statement that waits for a lock is granted it when it is released, and locks of
the block's transaction come and go. `RateLimit!FairSpec`: time passes and a
request's commands go on (weak); nothing keeps requests from failing or the key
from being evicted. `Paging!FairSpec`: the client gives a request up in the end
(weak, per handler). `SearchScreen!SearchFairness`: the same, and the timer rings although
handlers come and go (strong). Nothing is assumed of users.

## What the proofs show

All proofs are for any number of users, titles, workers, clients, sessions and
requests, and any bounds. They assume the named assumptions of the modules only:
the grace period is positive, revocable titles are titles, bounds and lifetimes
are naturals, the requests of a rate limiter are finitely many, and `None` is not a
value of the types it is added to.

*Titles.* The inductive invariant is type correctness, the rows of a title being
used in the order of their numbers, and what a worker's local state says of the
table: its entry belongs to its user and is revocable, and its clock reading is
not in the future. From it:

- `TypeCorrect`, `OneLiveRow`: for any number of workers. The insert waits for a
  transaction that revokes a row of its title, and no update makes a revoked row
  live.
- `StatesLast`: for any number of workers, as an action property.
- `RevocationsAreDue`, `ImplementsContract`: for a single worker (`SingleWorker`).
  The invariant adds that the entries of the worker's snapshot are still what the
  table says of them, since nobody else moves those rows; the refinement then
  maps `CommitRevoke` to the contract's `Revoke` and the worker's other updates
  to its other steps.
- `HeldWhenSerial`: `HeldUnlessOverlap`, with the strengthening that a
  `SetPrimaryTitle` in flight was told of a row that is still held by its user,
  and that a transaction which did not match the primary title still does not.

*Sessions.* Every step is either `Shrinks` (rows go, no token is issued) or issues
one new token for one session (`Renews`, by creation or rotation); `TableNext`
shows that once, and the rest is proved of those two kinds of step.

- `TypeCorrect`, with what a request knows after its first statements
  (`RequestOK`) and that rows and pairs have generated ids and tokens (`RowsOK`).
- `EndedForGood` (`SessionEnds`, which the contract implies and no run checks on its
  own): rotation only updates a row that is there, creation takes a new id.
- `TokenOfItsSession`: by induction; a new token is greater than every hash.
- `LiveSessionsSpared`: what the cleanup has selected was expired, and expiry
  times of a row version do not change while the clock advances.
- `ImplementsContract`: what `Shrinks` is the contract's `End`, a creation its `Open`, a
  rotation its `Rotate`, for the row that is rotated is there (`ContractStep`).
- `UsedOnceWhenSerial`: `UsedOnceUnlessOverlap`; the invariant `Once` says that hashes
  differ, that a refresh in flight still finds its own token in the row it looked
  up, and that a token once presented is no row's any more.

*Title notifications.* The invariant adds to the three properties why each of them
survives a step: a worker about to mark a row has published it
(`MarkFollowsPublish`), the rows of a batch have the history they were fetched
for, if no longer the status (`BatchHasCause`), a row in its grace period is known
to have lapsed (`LapsedIsKnown`), and each notification comes from such a row
(`InboxHasCause`). The environment is used through one lemma only, `TableMoves`:
no row is ever unearned. From it `TypeCorrect`, `PublishBeforeMark`,
`OneRowPerEvent` and `NoticesHaveCause`.

*Client.* The invariant is type correctness with what a call knows at its place
(`CallsKnow`): the pair it was answered and the token it presents are not null.
It gives `TypeCorrect` and `SignedInCarriesToken`, in all interleavings, with
failures. `NobodySignsIn` has an invariant of its own: without `user_id` no call
reaches a place where it holds a token, since the first would have to be stored
by a parse that throws.

`RefreshStaysPossible` is `SignedInCanRefresh`, under its condition of one silent
refresh at a time. `AtRestCanRefresh` is not inductive: between the rotation at the server and the write to the
storage the stored token is dead. The invariant `SInv` says who holds the live one
meanwhile. `Fits` is a pair that opens its session unless that has ended; while a
refresh is at `write`, its pair fits and is of the session the client is signed
into, and otherwise the stored one does (`StoreFollows`); calls in flight are of
that session (`SignedInCall`); the bloc signs in only when nobody is, and calls left
over from before find the storage empty and are never refreshed (`SignedOut`).
`Numbered`, that pairs are issued in the order of their numbers, is what makes the
next pair's session its own (`IssueFits`).

`RetriesKeepSession` is `RetriedAsSender`. Its invariant `AInv` says that all the
client could present belongs to one session: what is in the storage, in
`main.dart`'s variable, and in every call that may still be refused or retried
(`Owners`). Two refreshes of that session may be under way and each be given a pair
of it, or none; only a login or a cold start brings another session in, and when it
is stored, `StoredAlone` says that nothing of the old one can be sent again.

`ServerImplementsContract` adds two facts of the reduced server to `IInv`: `Numbered`, and
that the session a pair belongs to was opened by its first pair (`OpenedBefore`). A
login is then the contract's `Open`, whoever refreshes its `Rotate`, a logout or
`EndSession` its `End`, and all else leaves the server alone.

*Relations.* `TypeCorrect` comes first, with the shape of the locals each handler
relies on. `AnswersAreHidden` rests on `Guarded`: at each place of a read, whoever
`since` says was hidden ever since is in `hidden` already, or will be found by a
check that is still to come; `since` only shrinks while the read runs, so a check
that has been passed keeps its effect. `BlocksEndFollows` rests on `FollowInv`, the
three parts of the property with what the follow in flight still knows from its
check (`CheckHolds`) and the block from its delete (`DeleteHolds`); `NoOverlap` is
what excludes the one step that breaks it.

*Posts.* The invariant `IInv` is the type, what a request's locals say of the tables
at its place (`LocalOK`: the parent exists and the root is its thread's, the row
was inserted with this draft) and the two properties. Rows are never removed and
never change but for their mark (`RowsKept`), so each of these is preserved by one
lemma for every step that is not the insert, and `InsertLaw` is the insert.
`TargetsAreLive` then adds that what was looked up is live until a deletion is
about to be written.

*Rate limiters.* `LimitHolds` is a counting argument: the requests that have been
counted in the open window and have not decided (`Pending`), of those whose reply
was within the limit, and the ones it has let through are no more than the counter
says, up to `MaxAttempts` (`PlacesHeld`). It needs the requests to be
finitely many. `TTLIsOwed` is inductive with the types.

*List screens.* The two modules of the client's lists share a module of proofs and
nothing else: `SearchScreen` has variables and actions of its own names, so that
one module can extend both. All of `Paging` is proved for any list of any shape, any
rows, page size, window and number of handlers: `TypeCorrect`, `OrderKept`,
`NoneSkipped`, `WindowBounds` and `ShownReadIsRead`.

The properties speak of the state shown; the invariant has to speak of every state a
handler may still bring back, since a handler joins its page to the state it saw
when it began, whatever has been shown since. `IInv` says the same of the shown state
and of each handler's. Such a state is `Sound`: its rows are in order, none twice and
none past the cursor, what it shows as read is read, and if no row has gone they are
rows of the list, within the window. And it `Covers` what it owes: a row that has
been there since the load is shown or still past the cursor. `Good` is both. What
makes it inductive is `GoodCall`: a page that has been answered, joined to the state
its handler saw, is `Good` again, at the answer (`JoinGood`) and until it is shown,
although the rows are not those of the request any more. Rows that go or sink below
the window only narrow what is owed (`NarrowGood`, `NarrowJoined`).

Under it lies what a page is. The order of a list is total (`OrderTotal`), so a
finite set of rows has a first one (`FirstRow`) and `InOrder` of a set has as many
rows as the set and each after the ones before it (`InOrderIs`, `SortedLength`); the
first n rows are n at most, with every row that precedes one of them, and all there
are if they are fewer (`FirstIs`, `FirstShort`); so a page holds rows past its cursor
and leaves none out before its last (`PageIs`). A row's rank is a cardinality, which
the library has theorems about; a sort by recursion would have needed an induction.

For the search screen, type correctness and `ShownIsActive` are inductive together
(`SearchTypeCorrect`, `ActiveIsShown`): a handler's text is the active one when it
starts, and its answer counts only if it still is.

*What stays with TLC.* Every invariant and every action property of a passing run has
a theorem. The liveness properties have none, since they rest on fairness and
ENABLED, which are outside what the prover handles here: `EarnedBecomesActive`,
`LapsedIsRevoked`, `SuspensionTakesHold`, `ExpiredIsRemoved`, `PendingIsSent`, `CallsEnd`, `RequestsEnd`,
`WindowCloses`, `NeverStuck`, `TypedIsAnswered`. So do the three violations.

## What the violations show

1. Two calls that meet a 401 together sign the user out (`client_concurrent_401`):
   both refresh with the same stored token, the second is refused because the
   first has rotated it, and its catch block deletes the new token. The session
   lives on at the server.
2. No report is ever stored (`posts_report`): the `INSERT` names
   `reports_dedup_pending_idx` as a constraint, and the migration creates it as an
   index, so PostgreSQL refuses the statement and the answer is 500.
3. Half of the lists do not end where the docs say (`paging_depth`): the
   notifications at 100, the two searches and the studio at 50, the bookmarks at
   200 (`docs/API_CONTRACTS.md:330-333`, `343`, `256`; the comments of
   `notification_list_bloc.dart:19` and `search_bloc.dart:18` repeat it). In the
   code these numbers are the size of one page
   (`notification/repository.go:65`, `search/repository.go:44`, `132`,
   `studio/repository.go:42`, `bookmark/repository.go:66`): the query of the next
   page starts at the cursor and knows no window, so a client that pages on
   reaches every row. The run shows it on the notifications. The follow lists
   (`247-248`, 200) have the same query (`follow/repository.go:88`, `131`); no
   screen joins their pages, so they are not in the model.

## What the conditions of the properties say

Several properties are of the form "unless two operations overlap", or leave a
case out. The cases they leave out are real ones:

- `HeldUnlessOverlap`: a `SetPrimaryTitle` that has taken its snapshot, a revocation
  that finds the primary title still elsewhere, the write, the commit: the user
  displays a revoked title. No query that shows the badge looks at the row's
  status (`title/repository.go:207`).
- `UsedOnceUnlessOverlap`: two refreshes with one token both succeed, since the
  rotation updates by id and not by the hash that was presented
  (`auth/repository.go:179`). The first client's new token is dead at once.
- `SuspensionTakesHold`: a login or refresh past its check of the flag still creates
  its session after the suspension has revoked the others (`auth/service.go:128`).
- `RevocationIsDue`, `KeepsContract`: a second worker would revoke a restored row.
- `RetriedAsSender`: a login or a cold start that stores its session while a request
  of the last one waits for its 401 or for the storage. That request then reads the
  new user's token, refreshes with it and is retried as the new user
  (`auth_interceptor.dart:104`). Without the condition TLC finds this at once.
- `SentIsPublished`, `NoDuplicateRow`: of a user's titles only the first unlock and
  the first grace period are announced (`notification_worker.go:124`).
- `SignedInCanRefresh`: a retried request that fails, with any status or a timeout,
  signs the user out although the refresh succeeded, for the retry is inside the
  `try` of the refresh (`auth_interceptor.dart:116`), against the comment at lines
  10-13.
- `NeverSignedIn`: no login, registration or cold start succeeds against the
  present server, whose answers have no `user_id` (`auth_dto.dart:41`).
- `BlockEndsFollow`: a follow that has passed its check when the block commits stays
  (`follow/service.go:49`).
- `LiveTargets`: a like, bookmark or report whose lookup came before a deletion is
  written after it (`reaction/service.go:66`).
- `AnswersHide`: the hashtag page and the primary title go on when their check fails.
- `NeverStuck`: mark-all brings back the state it saw, with the lock of a next page
  that has been answered since (`notification_list_bloc.dart:131`).
- `ListIsBounded` is about the lists with a window (home, author, hashtag, thread),
  and `NothingSkipped` takes all rows for the window of the others (notifications,
  posts and users found, studio, bookmarks): the third violation.
- `ShownIsActive` is about texts: an older answer of the other tab for the same text
  replaces a newer one (`search_bloc.dart:91`).

## Plan

Done: all the modules above, their runs and their proofs. The plan's `PostGraph`,
`ShareDelay` and `Reports` became `Posts`, `Pagination` and `ClientPaging` became
`Paging`, and the search bloc got a module of its own. What could be added:

1. The safe half of the liveness arguments, where it says something of its own: a
   step that `NeverStuck` or `CallsEnd` waits for is possible while it is waited for,
   and nothing but that step or a failure leaves the place (a measure that falls with
   each step, as an action property).
2. What the serial client tells of the concurrent one: how much of `SInv` survives two
   refreshes in flight, short of `SignedInCanRefresh`.
3. `UserSweep`: the keyset pass of `runReconciliation`, which justifies the
   fairness of `BeginUser`.

## Not modelled

- Presentation (screens, widgets, routing, the design system), request decoding and
  error rendering, logging and metrics, configuration, deployment and scripts: no
  protocol state.
- The toggle blocs (reaction, follow, bookmark, block): one request each, whose
  button is disabled while it is under way (`post_card.dart:155`,
  `profile_screen.dart:356`), so there is nothing to interleave. What the server
  does with the request is in `Relations` and `Posts`.
- The profile update: one validated `UPDATE` of a row nobody else's operation reads
  for a decision.
- The thresholds behind the titles: constants compared with an aggregate; the
  answer is an environment predicate of `TitleLifecycle`.
- Process wiring: what a stop leaves behind is the `Crash` or `Abort` action of the
  module concerned.
- Password hashing, JWT signatures and token randomness are taken as given: a token
  is a fresh value and a valid access token is one that has not expired.
- The refresh answer without data or with null fields (`auth_interceptor.dart:84-98`),
  on which the client is signed out with its stored token left behind: the server
  never sends one.
- The order in which the DELETE of a block takes its two row locks: `DeleteFollows`
  takes both in one step. A wait between the two can end in a deadlock only with
  another such DELETE, and PostgreSQL's detector ends that by an abort, which is
  `Abort` here.
- PostgreSQL is modelled as the code uses it: single-row statements, row locks, READ
  COMMITTED snapshots, partial unique indexes, foreign keys. Redis likewise: atomic
  commands, expiry, eviction.
