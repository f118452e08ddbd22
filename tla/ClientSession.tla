---------------------------- MODULE ClientSession ----------------------------
(***************************************************************************)
(* The session as the Flutter client keeps it: the refresh token in the    *)
(* secure storage, the access token in memory, the state of AuthBloc, and  *)
(* the calls in flight, each of which may meet a 401 and go through        *)
(* AuthInterceptor's silent refresh (core/network/auth_interceptor.dart).  *)
(* One action is what runs between two awaits.  The server is Sessions     *)
(* reduced to what a client can tell: which refresh token opens a session. *)
(***************************************************************************)
EXTENDS Integers

CONSTANTS
  Calls,          \* API calls of the screens that may be in flight together
  Bloc,           \* the call AuthBloc makes through AuthRepositoryImpl
  MaxPairs        \* bound: token pairs the server issues

ASSUME BlocAssumption == Bloc \notin Calls
ASSUME BoundAssumption == MaxPairs \in Nat

(* A token pair, access and refresh token at once; 0 is null.  A session   *)
(* has the number of its first pair.                                       *)
Pair == 1..MaxPairs
PairOrNull == 0..MaxPairs
Everyone == Calls \cup {Bloc}

VARIABLES
  userIDSent,   \* server: whether its answers carry the user_id AuthResponseDto reads
  session,      \* server: the session each issued pair belongs to, 0 before
  current,      \* server: the pair whose refresh token opens a session, 0 if ended
  minted,       \* server: pairs issued
  expired,      \* the pairs whose access token has expired
  stored,       \* SecureStorage: the refresh token
  access,       \* main.dart: currentAccessToken
  auth,         \* the state of AuthBloc
  call          \* the local state of each call

server == <<userIDSent, session, current, minted, expired>>
client == <<stored, access, auth>>
vars == <<userIDSent, session, current, minted, expired, stored, access, auth, call>>

AuthState == {"initial", "loading", "authenticated", "unauthenticated", "error"}
CallPC == {"idle", "sent", "own_rotate", "read", "refresh", "rotate", "write", "signal",
           "catch", "signout", "store", "signin", "refused", "failed", "ok"}

(* access: the Authorization header.  body: the token a cold start sends.  *)
(* token: what the interceptor read.  retry: X-Dzeroth-Retry.              *)
Call == [pc : CallPC, kind : {"api", "check", "login", "logout"}, access : PairOrNull,
         body : PairOrNull, token : PairOrNull, pair : PairOrNull, retry : BOOLEAN]
NoCall == [pc |-> "idle", kind |-> "api", access |-> 0, body |-> 0, token |-> 0,
           pair |-> 0, retry |-> FALSE]

Init ==
  /\ userIDSent \in BOOLEAN
  /\ session = [p \in Pair |-> 0]
  /\ current = [s \in Pair |-> 0]
  /\ minted = 0
  /\ expired = {}
  /\ stored = 0
  /\ access = 0
  /\ auth = "initial"
  /\ call = [c \in Everyone |-> NoCall]

Busy(c) == call[c].pc # "idle"
Goto(c, local) == call' = [call EXCEPT ![c] = local]
GotoPC(c, pc) == Goto(c, [call[c] EXCEPT !.pc = pc])
End(c) == Goto(c, NoCall)

------------------------------------------------------------------------------
(* The server                                                              *)

Authorized(c) == call[c].access # 0 /\ call[c].access \notin expired
Opens(t) == session[t] # 0 /\ current[session[t]] = t
(* WHERE id = $3 finds a row that is there; an upsert brings it back.      *)
AliveOnce(t) == session[t] # 0
Alive(t) == session[t] # 0 /\ current[session[t]] # 0

(* The next pair, for session s.                                           *)
Issue(s) ==
  /\ minted < MaxPairs
  /\ minted' = minted + 1
  /\ session' = [session EXCEPT ![minted + 1] = s]
  /\ current' = [current EXCEPT ![s] = minted + 1]
  /\ UNCHANGED <<userIDSent, expired>>

ExpireAccess(p) ==
  /\ session[p] # 0
  /\ expired' = expired \cup {p}
  /\ UNCHANGED <<userIDSent, session, current, minted, stored, access, auth, call>>

(* Thirty days, a suspension, a logout elsewhere.                          *)
EndSession(s) ==
  /\ current[s] # 0
  /\ current' = [current EXCEPT ![s] = 0]
  /\ UNCHANGED <<userIDSent, session, minted, expired, stored, access, auth, call>>

------------------------------------------------------------------------------
(* A call is sent                                                          *)

(* onRequest attaches the access token of this moment.                     *)
Send(c, kind, body) ==
  Goto(c, [NoCall EXCEPT !.pc = "sent", !.kind = kind, !.access = access, !.body = body])

StartCall(c) ==
  /\ c \in Calls /\ ~Busy(c)
  /\ auth = "authenticated"
  /\ Send(c, "api", 0)
  /\ UNCHANGED <<server, client>>

(* The cold start: refreshSession with the stored token, if there is one.  *)
CheckRequested ==
  /\ auth = "initial"
  /\ \/ /\ stored = 0
        /\ auth' = "unauthenticated"
        /\ UNCHANGED call
     \/ /\ stored # 0
        /\ auth' = "loading"
        /\ Send(Bloc, "check", stored)
  /\ UNCHANGED <<server, stored, access>>

(* Login and registration differ in what the server checks only.           *)
LoginRequested ==
  /\ auth \in {"unauthenticated", "error"} /\ ~Busy(Bloc)
  /\ auth' = "loading"
  /\ Send(Bloc, "login", 0)
  /\ UNCHANGED <<server, stored, access>>

LogoutRequested ==
  /\ auth = "authenticated" /\ ~Busy(Bloc)
  /\ auth' = "loading"
  /\ Send(Bloc, "logout", 0)
  /\ UNCHANGED <<server, stored, access>>

------------------------------------------------------------------------------
(* ... and answered                                                        *)

Answered(c, kind) == call[c].pc = "sent" /\ call[c].kind = kind

ServeCall(c) ==
  /\ Answered(c, "api")
  /\ Authorized(c)
  /\ End(c)
  /\ UNCHANGED <<server, client>>

ServeLogout(c) ==
  /\ Answered(c, "logout")
  /\ Authorized(c) /\ Alive(call[c].access)
  /\ current' = [current EXCEPT ![session[call[c].access]] = 0]
  /\ GotoPC(c, "ok")
  /\ UNCHANGED <<userIDSent, session, minted, expired, client>>

ServeLogin(c) ==
  /\ Answered(c, "login")
  /\ Issue(minted + 1)
  /\ Goto(c, [call[c] EXCEPT !.pc = "store", !.pair = minted + 1])
  /\ UNCHANGED client

(* The server's Refresh looks the token up, and rotates by session id.     *)
LookupCheck(c) ==
  /\ Answered(c, "check")
  /\ Opens(call[c].body)
  /\ GotoPC(c, "own_rotate")
  /\ UNCHANGED <<server, client>>

RotateCheck(c) ==
  /\ call[c].pc = "own_rotate"
  /\ Alive(call[c].body)
  /\ Issue(session[call[c].body])
  /\ Goto(c, [call[c] EXCEPT !.pc = "store", !.pair = minted + 1])
  /\ UNCHANGED client

(* onError handles a 401 unless the request carries the retry header; the  *)
(* retry itself is awaited inside the try block.                           *)
Refused(c) ==
  /\ \/ call[c].pc = "sent" /\ call[c].kind \in {"api", "logout"} /\ ~Authorized(c)
     \/ Answered(c, "check") /\ ~Opens(call[c].body)
     \/ Answered(c, "login")
  /\ GotoPC(c, IF call[c].retry THEN "catch" ELSE "read")
  /\ UNCHANGED <<server, client>>

(* A call that failed with no answer, or with an error other than 401,     *)
(* ends, unless it is the interceptor's refresh or retry.                  *)
Failed(c) ==
  GotoPC(c, IF call[c].retry \/ call[c].pc \in {"refresh", "rotate"}
            THEN "catch" ELSE "failed")

(* A session gone since the lookup, or since the logout was sent: a 500.   *)
SessionGone(c) ==
  /\ \/ call[c].pc = "own_rotate" /\ ~Alive(call[c].body)
     \/ Answered(c, "logout") /\ Authorized(c) /\ ~Alive(call[c].access)
  /\ Failed(c)
  /\ UNCHANGED <<server, client>>

------------------------------------------------------------------------------
(* AuthInterceptor.onError                                                 *)

(* onUnauthenticated: AuthSessionExpired, AuthUnauthenticated and the      *)
(* listener of main.dart; and one that never reaches the bloc.             *)
BlocNotTold == access' = 0 /\ UNCHANGED auth
OnUnauthenticated == auth' = "unauthenticated" /\ access' = 0

ReadToken(c) ==
  /\ call[c].pc = "read"
  /\ \/ /\ stored = 0
        /\ OnUnauthenticated
        /\ GotoPC(c, "refused")
     \/ /\ stored # 0
        /\ Goto(c, [call[c] EXCEPT !.pc = "refresh", !.token = stored])
        /\ UNCHANGED <<auth, access>>
  /\ UNCHANGED <<server, stored>>

LookupRefresh(c) ==
  /\ call[c].pc = "refresh"
  /\ Opens(call[c].token)
  /\ GotoPC(c, "rotate")
  /\ UNCHANGED <<server, client>>

RotateRefresh(c) ==
  /\ call[c].pc = "rotate"
  /\ Alive(call[c].token)
  /\ Issue(session[call[c].token])
  /\ Goto(c, [call[c] EXCEPT !.pc = "write", !.pair = minted + 1])
  /\ UNCHANGED client

(* The refresh request goes through a Dio of its own; through the shared   *)
(* one its 401 would start over.                                           *)
RefreshAgain(c) == GotoPC(c, "read")
RefreshFailed(c) == GotoPC(c, "catch")

RefuseRefresh(c) ==
  /\ \/ call[c].pc = "refresh" /\ ~Opens(call[c].token)
     \/ call[c].pc = "rotate" /\ ~Alive(call[c].token)
  /\ RefreshFailed(c)
  /\ UNCHANGED <<server, client>>

(* writeRefreshToken(newRefresh)                                           *)
NewToken(c) == call[c].pair

WriteToken(c) ==
  /\ call[c].pc = "write"
  /\ stored' = NewToken(c)
  /\ GotoPC(c, "signal")
  /\ UNCHANGED <<server, access, auth>>

(* onTokenRefreshed sets currentAccessToken whatever state the bloc is in; *)
(* then the request is sent again.                                         *)
OnTokenRefreshed(c) ==
  /\ call[c].pc = "signal"
  /\ access' = call[c].pair
  /\ Goto(c, [call[c] EXCEPT !.pc = "sent", !.access = call[c].pair, !.retry = TRUE])
  /\ UNCHANGED <<server, stored, auth>>

DeleteToken(c) ==
  /\ call[c].pc = "catch"
  /\ stored' = 0
  /\ GotoPC(c, "signout")
  /\ UNCHANGED <<server, access, auth>>

SignOut(c) ==
  /\ call[c].pc = "signout"
  /\ OnUnauthenticated
  /\ GotoPC(c, "refused")
  /\ UNCHANGED <<server, stored>>

------------------------------------------------------------------------------
(* AuthRepositoryImpl and AuthBloc take the answer                         *)

(* AuthResponseDto.fromJson: data['user_id'] as String throws when there   *)
(* is none.  And a parser that lets it pass.                               *)
ParsesAnyway == TRUE
Parses == userIDSent

(* writeRefreshToken, and one that does not overwrite.                     *)
StoredIfNone(c) == IF stored = 0 THEN call[c].pair ELSE stored
Stored(c) == call[c].pair

StoreSession(c) ==
  /\ call[c].pc = "store"
  /\ Parses
  /\ stored' = Stored(c)
  /\ GotoPC(c, "signin")
  /\ UNCHANGED <<server, access, auth>>

SignIn(c) ==
  /\ call[c].pc = "signin"
  /\ auth' = "authenticated"
  /\ access' = call[c].pair
  /\ End(c)
  /\ UNCHANGED <<server, stored>>

(* catch (_): ServerFailure, and the pair is dropped.                      *)
ParseFails(c) ==
  /\ call[c].pc = "store"
  /\ ~Parses
  /\ GotoPC(c, "failed")
  /\ UNCHANGED <<server, client>>

EndCall(c) ==
  /\ call[c].pc \in {"refused", "failed"} /\ call[c].kind = "api"
  /\ End(c)
  /\ UNCHANGED <<server, client>>

(* Only UnauthorizedFailure deletes the stored token of a cold start.      *)
EndCheck(c) ==
  /\ call[c].pc \in {"refused", "failed"} /\ call[c].kind = "check"
  /\ OnUnauthenticated
  /\ stored' = IF call[c].pc = "refused" THEN 0 ELSE stored
  /\ End(c)
  /\ UNCHANGED server

EndLogin(c) ==
  /\ call[c].pc \in {"refused", "failed"} /\ call[c].kind = "login"
  /\ auth' = "error"
  /\ End(c)
  /\ UNCHANGED <<server, stored, access>>

EndLogout(c) ==
  /\ call[c].pc \in {"ok", "refused", "failed"} /\ call[c].kind = "logout"
  /\ OnUnauthenticated
  /\ stored' = 0
  /\ End(c)
  /\ UNCHANGED server

------------------------------------------------------------------------------
(* Failures                                                                *)

(* A timeout, a broken connection, or an error status other than 401: the  *)
(* request was not carried out, or (AnswerLost) it was.                    *)
CallFails(c) ==
  /\ call[c].pc \in {"sent", "own_rotate", "refresh", "rotate"}
  /\ Failed(c)
  /\ UNCHANGED <<server, client>>

AnswerLost(c) ==
  /\ \/ Answered(c, "login") /\ Issue(minted + 1)
     \/ call[c].pc = "own_rotate" /\ Alive(call[c].body) /\ Issue(session[call[c].body])
     \/ call[c].pc = "rotate" /\ Alive(call[c].token) /\ Issue(session[call[c].token])
  /\ Failed(c)
  /\ UNCHANGED client

(* The app is killed and started again.                                    *)
Restart ==
  /\ auth' = "initial"
  /\ access' = 0
  /\ call' = [c \in Everyone |-> NoCall]
  /\ UNCHANGED <<server, stored>>

------------------------------------------------------------------------------
CallStep(c) ==
  \/ ServeCall(c) \/ ServeLogout(c) \/ ServeLogin(c) \/ LookupCheck(c) \/ RotateCheck(c)
  \/ Refused(c) \/ SessionGone(c) \/ ReadToken(c) \/ LookupRefresh(c) \/ RotateRefresh(c)
  \/ RefuseRefresh(c) \/ WriteToken(c) \/ OnTokenRefreshed(c) \/ DeleteToken(c) \/ SignOut(c)
  \/ StoreSession(c) \/ SignIn(c) \/ ParseFails(c)
  \/ EndCall(c) \/ EndCheck(c) \/ EndLogin(c) \/ EndLogout(c)

Environment ==
  \/ \E p \in Pair : ExpireAccess(p) \/ EndSession(p)
  \/ \E c \in Calls : StartCall(c)
  \/ CheckRequested \/ LoginRequested \/ LogoutRequested

FaultlessNext == Environment \/ \E c \in Everyone : CallStep(c)

Next ==
  \/ FaultlessNext
  \/ \E c \in Everyone : CallFails(c) \/ AnswerLost(c)
  \/ Restart

Spec == Init /\ [][Next]_vars
FaultlessSpec == Init /\ [][FaultlessNext]_vars

(* Dio's timeouts end every request one way or the other.                  *)
Fairness == \A c \in Everyone : WF_vars(CallStep(c) \/ CallFails(c))

(* One silent refresh at a time, and none of the bloc's calls while        *)
(* another call is in flight.                                              *)
InInterceptor(c) ==
  call[c].retry \/ call[c].pc \in {"read", "refresh", "rotate", "write", "signal",
                                   "catch", "signout"}
OneByOne ==
  \A c, d \in Everyone : c # d /\ Busy(c) /\ Busy(d) =>
    Bloc \notin {c, d} /\ ~(InInterceptor(c) /\ InInterceptor(d))

(* No session is stored, by a login or a cold start, while the interceptor *)
(* may still have to refresh and retry a request of a screen.  Nothing in  *)
(* the code sees to it: such a request would take the new user's token.    *)
Retriable(l) ==
  \/ l.pc = "sent" /\ ~l.retry
  \/ l.pc \in {"read", "refresh", "rotate", "write", "signal"}
StoredAlone == call[Bloc].pc = "signin" => \A c \in Calls : ~Retriable(call[c])

------------------------------------------------------------------------------
TypeOK ==
  /\ userIDSent \in BOOLEAN
  /\ session \in [Pair -> PairOrNull]
  /\ current \in [Pair -> PairOrNull]
  /\ minted \in PairOrNull
  /\ expired \in SUBSET Pair
  /\ stored \in PairOrNull
  /\ access \in PairOrNull
  /\ auth \in AuthState
  /\ call \in [Everyone -> Call]

(* While the app shows the user as signed in, requests carry a token: the  *)
(* two places that hold the session in memory, AuthBloc's state and        *)
(* main.dart's variable, agree on that however calls interleave.           *)
SignedInHasAccess == auth = "authenticated" => access # 0

(* A signed-in client at rest can refresh: its storage holds a token of    *)
(* the session it is signed into, so a restart finds the same user, and    *)
(* the one that opens it, unless the session has ended: no rotation, lost  *)
(* answer or restart leaves it with a dead token, if refreshes come one at *)
(* a time.                                                                 *)
AtRestCanRefresh ==
  auth = "authenticated" /\ (\A c \in Everyone : ~Busy(c)) =>
    /\ stored # 0
    /\ session[stored] = session[access]
    /\ current[session[stored]] \in {0, stored}
SignedInCanRefresh == []OneByOne => []AtRestCanRefresh

(* However refreshes of several requests, sign-outs, lost answers and      *)
(* restarts overlap, a refused request is about to be sent again only with *)
(* a token of the session it was first sent in, as long as no other one is *)
(* stored meanwhile: the token of a session that was given up, which stays *)
(* in the storage or in main.dart's variable, gets into no later one.      *)
SentAgainInSession ==
  \A c \in Everyone : call[c].pc = "signal" /\ call[c].kind \in {"api", "logout"} =>
    session[call[c].access] = session[call[c].pair]
RetriedAsSender == []StoredAlone => []SentAgainInSession

(* Against a server whose answers carry no user_id no one is ever signed   *)
(* in and nothing is ever stored: the sessions the server opens are lost   *)
(* to the client (auth/service.go, TokenPair, has no such field).          *)
NeverSignedIn == ~userIDSent => stored = 0 /\ access = 0 /\ auth # "authenticated"

(* The server here, reduced to what a client can tell, keeps the contract  *)
(* of SessionContract, which Sessions keeps too: a session is one row that *)
(* each rotation gives the next token, and that stays closed once it ends. *)
Contract == INSTANCE SessionContract
  WITH Sids <- Pair, MaxTokens <- MaxPairs, created <- {s \in Pair : session[s] = s}
ServerKeepsContract == Contract!Spec

(* Every call is answered, and so the bloc leaves its loading state: no    *)
(* 401 sends the interceptor round in circles.                             *)
CallsEnd == \A c \in Everyone : Busy(c) ~> ~Busy(c)

------------------------------------------------------------------------------
(* What the comments say                                                   *)

(* auth_interceptor.dart:29: "Called when a silent refresh fails (session  *)
(* expired / revoked)".                                                    *)
RefusedMeansEnded ==
  [][\A c \in Everyone : RefuseRefresh(c) => ~Alive(call[c].token)]_vars
==============================================================================
