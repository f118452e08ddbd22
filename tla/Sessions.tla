------------------------------ MODULE Sessions ------------------------------
(***************************************************************************)
(* Accounts and refresh-token sessions (auth/service.go, auth/repository.go,*)
(* auth/cleanup.go, user/service.go SuspendSelf) as concurrent requests    *)
(* run them against PostgreSQL.  One action is one statement or one read   *)
(* of the clock; a request keeps what it read in its local record.         *)
(*                                                                         *)
(* A refresh token is a number, the order in which it was generated: it    *)
(* stands for the 32 random bytes and for their SHA-256 hash in the row.   *)
(***************************************************************************)
EXTENDS Integers, FiniteSets

CONSTANTS
  Users,        \* accounts that may be registered
  Sids,         \* bound: session ids (UUID v7) that may be generated
  Requests,     \* requests in flight at the same time
  TTL,          \* refreshTokenTTL, in clock ticks
  AccessTTL,    \* accessTokenLifetime, in clock ticks
  Batch,        \* sessionCleanupBatchSize
  MaxTokens,    \* bound: refresh tokens generated
  MaxClock,     \* bound: last clock reading
  None          \* no value: NULL, or a field not in use

ASSUME LifetimeAssumption == TTL \in Nat /\ AccessTTL \in Nat
ASSUME BoundsAssumption == Batch \in Nat /\ MaxTokens \in Nat /\ MaxClock \in Nat

Token == 1..MaxTokens

(* A row of sessions.                                                      *)
Session == [user : Users, hash : Token, expires : Nat]

(* A token pair as a client holds it: the claims sub, sid and exp of the   *)
(* access token, the refresh token, and for a refreshed pair the token     *)
(* that was presented for it (0 after a login or a registration).          *)
Pair == [user : Users, sid : Sids, exp : Nat, token : Token, from : Nat]
ASSUME NoneAssumption == None \notin Session \cup Pair \cup Users \cup Sids

RequestPC == {"idle", "issue", "expiry", "suspension", "rotate", "reply", "revoke"}
Request == [pc : RequestPC, user : Users \cup {None}, sid : Sids \cup {None},
            from : Nat, expires : Nat, pair : Pair \cup {None}]
IdleRequest == [pc |-> "idle", user |-> None, sid |-> None, from |-> 0,
                expires |-> 0, pair |-> None]

VARIABLES
  account,      \* users: absent, active, or is_suspended
  sessions,     \* the sessions table: Sids -> Session or None
  created,      \* the session ids generated so far
  minted,       \* the number of refresh tokens generated so far
  held,         \* the token pairs clients have received
  doomed,       \* the row versions the running cleanup statement has selected
  req,          \* the local state of each request
  clock

vars == <<account, sessions, created, minted, held, doomed, req, clock>>

Init ==
  /\ account = [u \in Users |-> "absent"]
  /\ sessions = [s \in Sids |-> None]
  /\ created = {}
  /\ minted = 0
  /\ held = {}
  /\ doomed = {}
  /\ req = [p \in Requests |-> IdleRequest]
  /\ clock = 0

Exists(s) == sessions[s] # None
Goto(p, local) == req' = [req EXCEPT ![p] = local]
Done(p) == Goto(p, IdleRequest)

(* A valid access token: JWTMiddleware asks no database.                   *)
Authenticated(a) == clock < a.exp

------------------------------------------------------------------------------
(* Register and Login, up to the session they issue.                       *)

(* CreateUser; a duplicate e-mail or handle is refused and changes nothing.*)
CreateUser(p, u) ==
  /\ req[p].pc = "idle"
  /\ account[u] = "absent"
  /\ account' = [account EXCEPT ![u] = "active"]
  /\ Goto(p, [IdleRequest EXCEPT !.pc = "issue", !.user = u])
  /\ UNCHANGED <<sessions, created, minted, held, doomed, clock>>

(* GetUserByEmail, with the right password and not suspended.              *)
Login(p, u) ==
  /\ req[p].pc = "idle"
  /\ account[u] = "active"
  /\ Goto(p, [IdleRequest EXCEPT !.pc = "issue", !.user = u])
  /\ UNCHANGED <<account, sessions, created, minted, held, doomed, clock>>

(* uuid.NewV7 returns an id nobody had; one that is only not in use.       *)
SidReused(s) == ~Exists(s)
FreshSid(s) == s \notin created

(* issueTokenPair: CreateSession, then the access token for its id.        *)
CreateSession(p) ==
  /\ req[p].pc = "issue"
  /\ minted < MaxTokens
  /\ minted' = minted + 1
  /\ \E s \in Sids :
       /\ FreshSid(s)
       /\ created' = created \cup {s}
       /\ sessions' = [sessions EXCEPT ![s] =
            [user |-> req[p].user, hash |-> minted + 1, expires |-> clock + TTL]]
       /\ Goto(p, [req[p] EXCEPT !.pc = "reply", !.pair =
            [user |-> req[p].user, sid |-> s, exp |-> clock + AccessTTL,
             token |-> minted + 1, from |-> 0]])
  /\ UNCHANGED <<account, held, doomed, clock>>

------------------------------------------------------------------------------
(* Refresh: look the token up, check expiry, check suspension, rotate.     *)

(* A lookup that finds the session of a token rotated away long ago.       *)
OpensAnyOf(s, t) == \E a \in held : a.token = t /\ a.sid = s
(* WHERE token_hash = $1                                                   *)
Opens(s, t) == sessions[s].hash = t

GetSessionByHash(p, t) ==
  /\ req[p].pc = "idle"
  /\ \E a \in held : a.token = t
  /\ \E s \in Sids :
       /\ Exists(s)
       /\ Opens(s, t)
       /\ Goto(p, [IdleRequest EXCEPT !.pc = "expiry", !.user = sessions[s].user,
                     !.sid = s, !.from = t, !.expires = sessions[s].expires])
  /\ UNCHANGED <<account, sessions, created, minted, held, doomed, clock>>

CheckExpiry(p) ==
  /\ req[p].pc = "expiry"
  /\ IF clock > req[p].expires
     THEN Done(p)
     ELSE Goto(p, [req[p] EXCEPT !.pc = "suspension"])
  /\ UNCHANGED <<account, sessions, created, minted, held, doomed, clock>>

(* isUserSuspended, and a Refresh that leaves the question to Login.       *)
SuspensionIgnored(u) == FALSE
Suspended(u) == account[u] = "suspended"

CheckSuspension(p) ==
  /\ req[p].pc = "suspension"
  /\ IF Suspended(req[p].user)
     THEN Done(p)
     ELSE Goto(p, [req[p] EXCEPT !.pc = "rotate"])
  /\ UNCHANGED <<account, sessions, created, minted, held, doomed, clock>>

(* An UPDATE of all the user's rows, and the one WHERE id = $3.            *)
RotatedByUser(p) == {s \in Sids : Exists(s) /\ sessions[s].user = req[p].user}
Rotated(p) == {s \in Sids : Exists(s) /\ s = req[p].sid}

(* The new hash replaces whatever hash the row has by now.  No row:        *)
(* ErrNotFound.                                                            *)
RotateSession(p) ==
  /\ req[p].pc = "rotate"
  /\ \/ /\ Rotated(p) = {}
        /\ Done(p)
        /\ UNCHANGED <<sessions, minted>>
     \/ /\ Rotated(p) # {}
        /\ minted < MaxTokens
        /\ minted' = minted + 1
        /\ sessions' = [s \in Sids |->
             IF s \in Rotated(p)
             THEN [sessions[s] EXCEPT !.hash = minted + 1, !.expires = clock + TTL]
             ELSE sessions[s]]
        /\ Goto(p, [req[p] EXCEPT !.pc = "reply", !.pair =
             [user |-> req[p].user, sid |-> req[p].sid, exp |-> clock + AccessTTL,
              token |-> minted + 1, from |-> req[p].from]])
  /\ UNCHANGED <<account, created, held, doomed, clock>>

------------------------------------------------------------------------------
(* The end of a request.                                                   *)

(* The handler answers when the service returned no error.                 *)
Answered(p) == req[p].pc = "reply"

Reply(p) ==
  /\ Answered(p)
  /\ held' = held \cup {req[p].pair}
  /\ Done(p)
  /\ UNCHANGED <<account, sessions, created, minted, doomed, clock>>

(* A statement fails, the process dies, or the answer is lost on the way.  *)
Abort(p) ==
  /\ req[p].pc # "idle"
  /\ Done(p)
  /\ UNCHANGED <<account, sessions, created, minted, held, doomed, clock>>

------------------------------------------------------------------------------
(* Logout and SuspendSelf, both behind JWTMiddleware.                      *)

(* DELETE ... WHERE id = $1 AND user_id = $2; no row is an error, and no   *)
(* change.                                                                 *)
DeleteSessionByID(a) ==
  /\ Authenticated(a)
  /\ Exists(a.sid)
  /\ sessions[a.sid].user = a.user
  /\ sessions' = [sessions EXCEPT ![a.sid] = None]
  /\ UNCHANGED <<account, created, minted, held, doomed, req, clock>>

SuspendSelf(p, a) ==
  /\ req[p].pc = "idle"
  /\ Authenticated(a)
  /\ account' = [account EXCEPT ![a.user] = "suspended"]
  /\ Goto(p, [IdleRequest EXCEPT !.pc = "revoke", !.user = a.user])
  /\ UNCHANGED <<sessions, created, minted, held, doomed, clock>>

(* RevokeAllSessions, best effort: Abort(p) may come first.                *)
DeleteAllUserSessions(p) ==
  /\ req[p].pc = "revoke"
  /\ sessions' = [s \in Sids |->
       IF Exists(s) /\ sessions[s].user = req[p].user THEN None ELSE sessions[s]]
  /\ Done(p)
  /\ UNCHANGED <<account, created, minted, held, doomed, clock>>

------------------------------------------------------------------------------
(* SessionCleanupWorker: DELETE ... WHERE ctid IN (SELECT ctid ... LIMIT). *)

(* expires_at < NOW(), and the comparison the wrong way round.             *)
NotYetExpired(s) == Exists(s) /\ sessions[s].expires > clock
Expired(s) == Exists(s) /\ sessions[s].expires < clock

(* The oldest expired rows, at most Batch of them.                         *)
CleanupSelect ==
  /\ doomed = {}
  /\ \E S \in SUBSET {s \in Sids : Expired(s)} :
       LET rest == {s \in Sids : Expired(s)} \ S
       IN  /\ Cardinality(S) <= Batch
           /\ rest # {} => Cardinality(S) = Batch
           /\ \A s \in S, r \in rest : sessions[s].expires <= sessions[r].expires
           /\ doomed' = {<<s, sessions[s]>> : s \in S}
  /\ UNCHANGED <<account, sessions, created, minted, held, req, clock>>

(* A delete by id, and the delete by ctid: a row that was updated since it *)
(* was selected is another version at another ctid, and stays.             *)
DoomedById(s) == \E d \in doomed : d[1] = s
Doomed(s) == <<s, sessions[s]>> \in doomed

CleanupDelete ==
  /\ doomed # {}
  /\ sessions' = [s \in Sids |-> IF Doomed(s) THEN None ELSE sessions[s]]
  /\ doomed' = {}
  /\ UNCHANGED <<account, created, minted, held, req, clock>>

CleanupFails ==
  /\ doomed # {}
  /\ doomed' = {}
  /\ UNCHANGED <<account, sessions, created, minted, held, req, clock>>

Tick ==
  /\ clock < MaxClock
  /\ clock' = clock + 1
  /\ UNCHANGED <<account, sessions, created, minted, held, doomed, req>>

------------------------------------------------------------------------------
Arrive(p) ==
  \/ \E u \in Users : CreateUser(p, u) \/ Login(p, u)
  \/ \E t \in Token : GetSessionByHash(p, t)
  \/ \E a \in held : SuspendSelf(p, a)

Proceed(p) ==
  \/ CreateSession(p)
  \/ CheckExpiry(p)
  \/ CheckSuspension(p)
  \/ RotateSession(p)
  \/ DeleteAllUserSessions(p)
  \/ Reply(p)
  \/ Abort(p)

Next ==
  \/ \E p \in Requests : Arrive(p) \/ Proceed(p)
  \/ \E a \in held : DeleteSessionByID(a)
  \/ CleanupSelect
  \/ CleanupDelete
  \/ CleanupFails
  \/ Tick

Spec == Init /\ [][Next]_vars

(* A request ends (timeouts cut the ones that hang), the cleanup ticker    *)
(* keeps ticking, and its statement does not fail for ever.                *)
Fairness ==
  /\ \A p \in Requests : WF_vars(Proceed(p))
  /\ WF_vars(CleanupSelect)
  /\ SF_vars(CleanupDelete)
FairSpec == Spec /\ Fairness

(* No two refreshes of one session are in flight together.                 *)
Refreshing(p) == req[p].pc \in {"expiry", "suspension", "rotate"}
NoOverlap ==
  \A p, q \in Requests :
    Refreshing(p) /\ Refreshing(q) /\ req[p].sid = req[q].sid => p = q

------------------------------------------------------------------------------
TypeOK ==
  /\ account \in [Users -> {"absent", "active", "suspended"}]
  /\ sessions \in [Sids -> Session \cup {None}]
  /\ created \in SUBSET Sids
  /\ minted \in 0..MaxTokens
  /\ held \in SUBSET Pair
  /\ doomed \in SUBSET (Sids \X Session)
  /\ req \in [Requests -> Request]
  /\ clock \in Nat

(* The pairs issued so far: received, or on the way to a client.           *)
Issued == held \cup {req[p].pair : p \in {q \in Requests : req[q].pc = "reply"}}

(* A refresh token opens the session it was issued for or none at all,     *)
(* and only for its own user, however logins and rotations interleave.     *)
TokenOpensItsSession ==
  \A a \in Issued, s \in Sids :
    Exists(s) /\ sessions[s].hash = a.token => s = a.sid /\ sessions[s].user = a.user

(* A session that was logged out, revoked or cleaned up never comes back,  *)
(* even when a refresh looked it up before it was deleted (ADR 0005: "The  *)
(* session is immediately invalid").                                       *)
SessionEnds == [][\A s \in created : ~Exists(s) => ~Exists(s)']_vars

(* Statements, overlapping requests and crashes add up to the promise of   *)
(* SessionContract: no rotation revives a session or leaves it two tokens. *)
Contract == INSTANCE SessionContract
  WITH current <- [s \in Sids |-> IF Exists(s) THEN sessions[s].hash ELSE 0]
KeepsContract == Contract!Spec

(* The cleanup deletes expired sessions only: one that is refreshed        *)
(* between the SELECT and the DELETE of the statement is spared.           *)
CleanupSparesLive ==
  [][doomed # {} /\ doomed' = {} =>
       \A s \in Sids : Exists(s) /\ ~Exists(s)' => sessions[s].expires < clock]_vars

(* After the requests in flight at its suspension have ended, an account   *)
(* obtains no more tokens: no request ever gets past the check again.      *)
Obtaining(u) == \E p \in Requests : req[p].user = u /\ req[p].pc \in {"issue", "rotate"}
SuspensionTakesHold ==
  \A u \in Users : account[u] = "suspended" ~> []~Obtaining(u)

(* An expired session is deleted in the end, unless a refresh that was     *)
(* already past its expiry check renews it.                                *)
ExpiredIsRemoved ==
  \A s \in Sids : (Exists(s) /\ sessions[s].expires < clock)
                    ~> (~Exists(s) \/ sessions[s].expires >= clock)

(* A refresh token is good for one refresh (ADR 0005: "old token invalid   *)
(* after rotation").  Refresh looks the token up and rotates the row by id *)
(* later, so two requests with one token may both be answered.             *)
TokenUsedOnce ==
  \A a, b \in Issued : a.from = b.from /\ a.from # 0 => a = b

(* While refreshes of one session do not overlap, it is.                   *)
UsedOnceUnlessOverlap == []NoOverlap => []TokenUsedOnce
==============================================================================
