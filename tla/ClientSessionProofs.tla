------------------------- MODULE ClientSessionProofs -------------------------
(***************************************************************************)
(* Theorems about ClientSession, for any number of calls and token pairs.  *)
(***************************************************************************)
EXTENDS ClientSession, TLAPS

(* What a call knows: the pair it was answered is a pair, and what it      *)
(* presents to be refreshed is a token.                                    *)
Knows(l) ==
  /\ l.pc \in {"write", "signal", "store", "signin"} => l.pair # 0
  /\ l.pc \in {"refresh", "rotate"} => l.token # 0
  /\ l.kind = "check" => l.body # 0
  /\ l.pc = "own_rotate" => l.kind = "check"

CallsKnow == \A c \in Everyone : Knows(call[c])
IInv == TypeOK /\ CallsKnow /\ SignedInHasAccess

(* Without user_id a call never holds a token: it cannot store the first.  *)
Tokenless(l) ==
  /\ l.pc \notin {"own_rotate", "refresh", "rotate", "write", "signal", "signin"}
  /\ l.kind # "check"

NoSession ==
  /\ stored = 0 /\ access = 0 /\ auth # "authenticated"
  /\ \A c \in Everyone : Tokenless(call[c])

------------------------------------------------------------------------------
LEMMA NullIsTyped == 0 \in PairOrNull /\ Pair \subseteq PairOrNull /\ 0 \notin Pair
BY BoundAssumption DEF Pair, PairOrNull

LEMMA NoCallIsCall == NoCall \in Call
BY NullIsTyped DEF NoCall, Call, CallPC

LEMMA BlocIsIn == Bloc \in Everyone /\ Calls \subseteq Everyone
BY DEF Everyone

(* A step of one call changes that call's record only.                     *)
LEMMA GotoKnows ==
  ASSUME TypeOK, CallsKnow, NEW c \in Everyone,
         NEW local \in Call, Knows(local), Goto(c, local)
  PROVE  /\ call' \in [Everyone -> Call]
         /\ CallsKnow'
BY DEF TypeOK, Goto, CallsKnow

(* A step that sets nothing but the place keeps what the call knows, where *)
(* the new place asks for no more than the old one.                        *)
LEMMA PlaceKnows ==
  ASSUME TypeOK, CallsKnow, NEW c \in Everyone, NEW pc \in CallPC, GotoPC(c, pc),
         Knows([call[c] EXCEPT !.pc = pc])
  PROVE  /\ call' \in [Everyone -> Call]
         /\ CallsKnow'
<1>1. [call[c] EXCEPT !.pc = pc] \in Call
  BY DEF TypeOK, Call
<1> QED BY <1>1, GotoKnows DEF GotoPC

LEMMA EndKnows ==
  ASSUME TypeOK, CallsKnow, NEW c \in Everyone, End(c)
  PROVE  /\ call' \in [Everyone -> Call]
         /\ CallsKnow'
<1>1. Knows(NoCall)
  BY DEF Knows, NoCall
<1> QED BY <1>1, NoCallIsCall, GotoKnows DEF End

(* Sent with the access token of the moment.                               *)
LEMMA SendKnows ==
  ASSUME TypeOK, CallsKnow, NEW c \in Everyone, NEW kind \in {"api", "check", "login", "logout"},
         NEW body \in PairOrNull, kind = "check" => body # 0, Send(c, kind, body)
  PROVE  /\ call' \in [Everyone -> Call]
         /\ CallsKnow'
<1> DEFINE l == [NoCall EXCEPT !.pc = "sent", !.kind = kind, !.access = access, !.body = body]
<1>1. l \in Call
  BY NullIsTyped DEF NoCall, Call, CallPC, TypeOK
<1>2. Knows(l)
  BY DEF Knows, NoCall
<1>3. Goto(c, l)
  BY DEF Send
<1> HIDE DEF l
<1> QED BY <1>1, <1>2, <1>3, GotoKnows

(* The numbers a new pair is given.                                        *)
LEMMA IssueTyped ==
  ASSUME TypeOK, NEW s \in Pair, Issue(s)
  PROVE  /\ session' \in [Pair -> PairOrNull]
         /\ current' \in [Pair -> PairOrNull]
         /\ minted' \in PairOrNull
         /\ minted + 1 \in Pair
         /\ UNCHANGED <<userIDSent, expired>>
<1>1. minted + 1 \in 1..MaxPairs
  BY BoundAssumption DEF TypeOK, Issue, PairOrNull
<1>2. minted' = minted + 1 /\ minted' \in PairOrNull
  BY <1>1 DEF Issue, PairOrNull
<1>3. minted + 1 \in PairOrNull /\ s \in PairOrNull
  BY <1>1 DEF PairOrNull, Pair
<1> QED
  BY <1>1, <1>2, <1>3 DEF TypeOK, Issue, Pair

LEMMA NewPair == ASSUME TypeOK, minted < MaxPairs PROVE minted + 1 \in Pair
BY BoundAssumption DEF TypeOK, Pair, PairOrNull

(* The session a live token belongs to.                                    *)
LEMMA SessionOfToken ==
  ASSUME TypeOK, NEW t \in PairOrNull, t # 0, Alive(t)
  PROVE  session[t] \in Pair
BY DEF TypeOK, Alive, Pair, PairOrNull

LEMMA IInvInit == Init => IInv
<1> SUFFICES ASSUME Init PROVE IInv
  OBVIOUS
<1>1. TypeOK
  BY NullIsTyped, NoCallIsCall DEF Init, TypeOK, AuthState
<1>2. CallsKnow
  BY DEF Init, CallsKnow, Knows, NoCall
<1>3. SignedInHasAccess
  BY DEF Init, SignedInHasAccess
<1> QED BY <1>1, <1>2, <1>3 DEF IInv

------------------------------------------------------------------------------
(* The steps of one call keep the invariant.                               *)

LEMMA CallStepKeeps ==
  ASSUME IInv, NEW c \in Everyone, CallStep(c)
  PROVE  IInv'
<1> DEFINE Calls1 == call' \in [Everyone -> Call] /\ CallsKnow'
<1> USE DEF IInv
<1>0. call[c] \in Call /\ Knows(call[c])
  BY DEF TypeOK, CallsKnow
<1>1. CASE ServeCall(c)
  BY <1>1, EndKnows DEF ServeCall, TypeOK, SignedInHasAccess, server, client
<1>2. CASE EndCall(c)
  BY <1>2, EndKnows DEF EndCall, TypeOK, SignedInHasAccess, server, client
<1>3. CASE LookupCheck(c)
  <2>1. Knows([call[c] EXCEPT !.pc = "own_rotate"]) /\ GotoPC(c, "own_rotate")
    BY <1>0, <1>3 DEF LookupCheck, Knows, Call, Answered
  <2>2. Calls1
    BY <2>1, PlaceKnows DEF CallPC
  <2> QED BY <1>3, <2>2 DEF LookupCheck, TypeOK, SignedInHasAccess, server, client
<1>4. CASE LookupRefresh(c)
  <2>1. Knows([call[c] EXCEPT !.pc = "rotate"]) /\ GotoPC(c, "rotate")
    BY <1>0, <1>4 DEF LookupRefresh, Knows, Call
  <2>2. Calls1
    BY <2>1, PlaceKnows DEF CallPC
  <2> QED BY <1>4, <2>2 DEF LookupRefresh, TypeOK, SignedInHasAccess, server, client
<1>5. CASE RefuseRefresh(c)
  <2>1. Knows([call[c] EXCEPT !.pc = "catch"]) /\ GotoPC(c, "catch")
    BY <1>0, <1>5 DEF RefuseRefresh, Knows, Call, RefreshFailed
  <2>2. Calls1
    BY <2>1, PlaceKnows DEF CallPC
  <2> QED BY <1>5, <2>2 DEF RefuseRefresh, TypeOK, SignedInHasAccess, server, client
<1>6. CASE ParseFails(c)
  <2>1. Knows([call[c] EXCEPT !.pc = "failed"]) /\ GotoPC(c, "failed")
    BY <1>0, <1>6 DEF ParseFails, Knows, Call
  <2>2. Calls1
    BY <2>1, PlaceKnows DEF CallPC
  <2> QED BY <1>6, <2>2 DEF ParseFails, TypeOK, SignedInHasAccess, server, client
<1>7. CASE Refused(c)
  <2>1. PICK pc \in {"catch", "read", "failed"} : GotoPC(c, pc)
    BY <1>7 DEF Refused, Answered
  <2>2. Knows([call[c] EXCEPT !.pc = pc])
    BY <1>0, <2>1 DEF Knows, Call
  <2>3. Calls1
    BY <2>1, <2>2, PlaceKnows DEF CallPC
  <2> QED BY <1>7, <2>3 DEF Refused, TypeOK, SignedInHasAccess, server, client
<1>8. CASE SessionGone(c)
  <2>1. PICK pc \in {"catch", "read", "failed"} : GotoPC(c, pc)
    BY <1>8 DEF SessionGone, Answered, Failed
  <2>2. Knows([call[c] EXCEPT !.pc = pc])
    BY <1>0, <2>1 DEF Knows, Call
  <2>3. Calls1
    BY <2>1, <2>2, PlaceKnows DEF CallPC
  <2> QED BY <1>8, <2>3 DEF SessionGone, TypeOK, SignedInHasAccess, server, client
<1>9. CASE ServeLogout(c)
  <2>1. Knows([call[c] EXCEPT !.pc = "ok"]) /\ GotoPC(c, "ok")
    BY <1>0, <1>9 DEF ServeLogout, Knows, Call
  <2>2. Calls1
    BY <2>1, PlaceKnows DEF CallPC
  <2>3. current' \in [Pair -> PairOrNull]
    BY <1>9, NullIsTyped DEF ServeLogout, TypeOK
  <2> QED BY <1>9, <2>2, <2>3 DEF ServeLogout, TypeOK, SignedInHasAccess, server, client
<1>10. CASE ServeLogin(c)
  <2> DEFINE l == [call[c] EXCEPT !.pc = "store", !.pair = minted + 1]
  <2>1. minted + 1 \in Pair
    BY <1>10, NewPair DEF ServeLogin, Issue
  <2>2. /\ session' \in [Pair -> PairOrNull] /\ current' \in [Pair -> PairOrNull]
        /\ minted' \in PairOrNull /\ minted + 1 \in Pair /\ UNCHANGED <<userIDSent, expired>>
    BY <1>10, <2>1, IssueTyped DEF ServeLogin
  <2>3. l \in Call
    BY <1>0, <2>2, NullIsTyped DEF Call, CallPC
  <2>4. Knows(l)
    BY <1>0, <1>10, <2>2, NullIsTyped DEF Knows, Call
  <2>5. Goto(c, l)
    BY <1>10 DEF ServeLogin
  <2> HIDE DEF l
  <2>6. Calls1
    BY <2>3, <2>4, <2>5, GotoKnows
  <2> QED BY <1>10, <2>2, <2>6 DEF ServeLogin, TypeOK, SignedInHasAccess, server, client
<1>11. CASE RotateCheck(c)
  <2> DEFINE l == [call[c] EXCEPT !.pc = "store", !.pair = minted + 1]
  <2>1. session[call[c].body] \in Pair
    BY <1>0, <1>11, SessionOfToken DEF RotateCheck, Knows, Call
  <2>2. /\ session' \in [Pair -> PairOrNull] /\ current' \in [Pair -> PairOrNull]
        /\ minted' \in PairOrNull /\ minted + 1 \in Pair /\ UNCHANGED <<userIDSent, expired>>
    BY <1>11, <2>1, IssueTyped DEF RotateCheck
  <2>3. l \in Call
    BY <1>0, <2>2, NullIsTyped DEF Call, CallPC
  <2>4. Knows(l)
    BY <1>0, <1>11, <2>2, NullIsTyped DEF Knows, Call
  <2>5. Goto(c, l)
    BY <1>11 DEF RotateCheck
  <2> HIDE DEF l
  <2>6. Calls1
    BY <2>3, <2>4, <2>5, GotoKnows
  <2> QED BY <1>11, <2>2, <2>6
      DEF RotateCheck, TypeOK, SignedInHasAccess, server, client
<1>12. CASE RotateRefresh(c)
  <2> DEFINE l == [call[c] EXCEPT !.pc = "write", !.pair = minted + 1]
  <2>1. session[call[c].token] \in Pair
    BY <1>0, <1>12, SessionOfToken DEF RotateRefresh, Knows, Call
  <2>2. /\ session' \in [Pair -> PairOrNull] /\ current' \in [Pair -> PairOrNull]
        /\ minted' \in PairOrNull /\ minted + 1 \in Pair /\ UNCHANGED <<userIDSent, expired>>
    BY <1>12, <2>1, IssueTyped DEF RotateRefresh
  <2>3. l \in Call
    BY <1>0, <2>2, NullIsTyped DEF Call, CallPC
  <2>4. Knows(l)
    BY <1>0, <1>12, <2>2, NullIsTyped DEF Knows, Call
  <2>5. Goto(c, l)
    BY <1>12 DEF RotateRefresh
  <2> HIDE DEF l
  <2>6. Calls1
    BY <2>3, <2>4, <2>5, GotoKnows
  <2> QED BY <1>12, <2>2, <2>6
      DEF RotateRefresh, TypeOK, SignedInHasAccess, server, client
<1>13. CASE ReadToken(c)
  <2>1. CASE stored = 0
    <3>1. Knows([call[c] EXCEPT !.pc = "refused"]) /\ GotoPC(c, "refused")
      BY <1>0, <1>13, <2>1 DEF ReadToken, Knows, Call
    <3>2. Calls1
      BY <3>1, PlaceKnows DEF CallPC
    <3> QED BY <1>13, <2>1, <3>2, NullIsTyped
        DEF ReadToken, OnUnauthenticated, AuthState, TypeOK, SignedInHasAccess, server, client
  <2>2. CASE stored # 0
    <3> DEFINE l == [call[c] EXCEPT !.pc = "refresh", !.token = stored]
    <3>1. l \in Call
      BY <1>0 DEF TypeOK, Call, CallPC
    <3>2. Knows(l)
      BY <1>0, <2>2 DEF Knows, Call
    <3>3. Goto(c, l)
      BY <1>13, <2>2 DEF ReadToken
    <3> HIDE DEF l
    <3>4. Calls1
      BY <3>1, <3>2, <3>3, GotoKnows
    <3> QED BY <1>13, <2>2, <3>4
        DEF ReadToken, TypeOK, SignedInHasAccess, server, client
  <2> QED BY <2>1, <2>2
<1>14. CASE WriteToken(c)
  <2>1. Knows([call[c] EXCEPT !.pc = "signal"]) /\ GotoPC(c, "signal")
    BY <1>0, <1>14 DEF WriteToken, Knows, Call
  <2>2. Calls1
    BY <2>1, PlaceKnows DEF CallPC
  <2>3. stored' \in PairOrNull
    BY <1>0, <1>14 DEF WriteToken, NewToken, Call
  <2> QED BY <1>14, <2>2, <2>3 DEF WriteToken, TypeOK, SignedInHasAccess, server, client
<1>15. CASE StoreSession(c)
  <2>1. Knows([call[c] EXCEPT !.pc = "signin"]) /\ GotoPC(c, "signin")
    BY <1>0, <1>15 DEF StoreSession, Knows, Call
  <2>2. Calls1
    BY <2>1, PlaceKnows DEF CallPC
  <2>3. stored' \in PairOrNull
    BY <1>0, <1>15 DEF StoreSession, Stored, Call
  <2> QED BY <1>15, <2>2, <2>3
      DEF StoreSession, TypeOK, SignedInHasAccess, server, client
<1>16. CASE OnTokenRefreshed(c)
  <2> DEFINE l == [call[c] EXCEPT !.pc = "sent", !.access = call[c].pair, !.retry = TRUE]
  <2>1. l \in Call
    BY <1>0 DEF Call, CallPC
  <2>2. Knows(l)
    BY <1>0 DEF Knows, Call
  <2>3. Goto(c, l)
    BY <1>16 DEF OnTokenRefreshed
  <2> HIDE DEF l
  <2>4. Calls1
    BY <2>1, <2>2, <2>3, GotoKnows
  <2>5. access' \in PairOrNull /\ access' # 0
    BY <1>0, <1>16 DEF OnTokenRefreshed, Knows, Call
  <2> QED BY <1>16, <2>4, <2>5
      DEF OnTokenRefreshed, TypeOK, SignedInHasAccess, server, client
<1>17. CASE SignIn(c)
  <2>1. Calls1
    BY <1>17, EndKnows DEF SignIn
  <2>2. access' \in PairOrNull /\ access' # 0
    BY <1>0, <1>17 DEF SignIn, Knows, Call
  <2> QED BY <1>17, <2>1, <2>2
      DEF SignIn, AuthState, TypeOK, SignedInHasAccess, server, client
<1>18. CASE DeleteToken(c)
  <2>1. Knows([call[c] EXCEPT !.pc = "signout"]) /\ GotoPC(c, "signout")
    BY <1>0, <1>18 DEF DeleteToken, Knows, Call
  <2>2. Calls1
    BY <2>1, PlaceKnows DEF CallPC
  <2> QED BY <1>18, <2>2, NullIsTyped
      DEF DeleteToken, TypeOK, SignedInHasAccess, server, client
<1>19. CASE SignOut(c)
  <2>1. Knows([call[c] EXCEPT !.pc = "refused"]) /\ GotoPC(c, "refused")
    BY <1>0, <1>19 DEF SignOut, Knows, Call
  <2>2. Calls1
    BY <2>1, PlaceKnows DEF CallPC
  <2> QED BY <1>19, <2>2, NullIsTyped
      DEF SignOut, OnUnauthenticated, AuthState, TypeOK, SignedInHasAccess, server, client
<1>20. CASE EndCheck(c)
  <2>1. Calls1
    BY <1>20, EndKnows DEF EndCheck
  <2> QED BY <1>20, <2>1, NullIsTyped
      DEF EndCheck, OnUnauthenticated, AuthState, TypeOK, SignedInHasAccess, server, client
<1>21. CASE EndLogout(c)
  <2>1. Calls1
    BY <1>21, EndKnows DEF EndLogout
  <2> QED BY <1>21, <2>1, NullIsTyped
      DEF EndLogout, OnUnauthenticated, AuthState, TypeOK, SignedInHasAccess, server, client
<1>22. CASE EndLogin(c)
  <2>1. Calls1
    BY <1>22, EndKnows DEF EndLogin
  <2> QED BY <1>22, <2>1, NullIsTyped
      DEF EndLogin, OnUnauthenticated, AuthState, TypeOK, SignedInHasAccess, server, client
<1> QED
  BY <1>1, <1>2, <1>3, <1>4, <1>5, <1>6, <1>7, <1>8, <1>9, <1>10, <1>11, <1>12,
     <1>13, <1>14, <1>15, <1>16, <1>17, <1>18, <1>19, <1>20, <1>21, <1>22
  DEF CallStep

------------------------------------------------------------------------------
(* What starts calls, what fails them, and the tokens that end on their    *)
(* own.                                                                    *)

LEMMA EnvironmentKeeps ==
  ASSUME IInv, Environment
  PROVE  IInv'
<1> USE DEF IInv
<1>1. ASSUME NEW p \in Pair, ExpireAccess(p) PROVE IInv'
  BY <1>1 DEF ExpireAccess, TypeOK, CallsKnow, SignedInHasAccess
<1>2. ASSUME NEW p \in Pair, EndSession(p) PROVE IInv'
  <2>1. current' \in [Pair -> PairOrNull]
    BY <1>2, NullIsTyped DEF EndSession, TypeOK
  <2> QED BY <1>2, <2>1 DEF EndSession, TypeOK, CallsKnow, SignedInHasAccess
<1>3. ASSUME NEW c \in Calls, StartCall(c) PROVE IInv'
  <2>1. call' \in [Everyone -> Call] /\ CallsKnow'
    BY <1>3, BlocIsIn, NullIsTyped, SendKnows DEF StartCall
  <2> QED BY <1>3, <2>1 DEF StartCall, TypeOK, SignedInHasAccess, server, client
<1>4. CASE CheckRequested
  <2>1. call' \in [Everyone -> Call] /\ CallsKnow'
    <3>1. CASE stored = 0
      BY <1>4, <3>1 DEF CheckRequested, TypeOK, CallsKnow
    <3>2. CASE stored # 0
      <4>1. stored \in PairOrNull /\ Send(Bloc, "check", stored)
        BY <1>4, <3>2 DEF CheckRequested, TypeOK
      <4> QED BY <4>1, <3>2, BlocIsIn, SendKnows
    <3> QED BY <3>1, <3>2
  <2> QED BY <1>4, <2>1 DEF CheckRequested, TypeOK, SignedInHasAccess, server, AuthState
<1>5. CASE LoginRequested
  <2>1. call' \in [Everyone -> Call] /\ CallsKnow'
    BY <1>5, BlocIsIn, NullIsTyped, SendKnows DEF LoginRequested
  <2> QED BY <1>5, <2>1 DEF LoginRequested, TypeOK, SignedInHasAccess, server, AuthState
<1>6. CASE LogoutRequested
  <2>1. call' \in [Everyone -> Call] /\ CallsKnow'
    BY <1>6, BlocIsIn, NullIsTyped, SendKnows DEF LogoutRequested
  <2> QED BY <1>6, <2>1
      DEF LogoutRequested, TypeOK, SignedInHasAccess, server, AuthState
<1> QED BY <1>1, <1>2, <1>3, <1>4, <1>5, <1>6 DEF Environment

LEMMA FailedKnows ==
  ASSUME TypeOK, CallsKnow, NEW c \in Everyone, Failed(c)
  PROVE  /\ call' \in [Everyone -> Call]
         /\ CallsKnow'
<1>0. call[c] \in Call /\ Knows(call[c])
  BY DEF TypeOK, CallsKnow
<1>1. PICK pc \in {"catch", "failed"} : GotoPC(c, pc)
  BY DEF Failed
<1>2. Knows([call[c] EXCEPT !.pc = pc])
  BY <1>0, <1>1 DEF Knows, Call
<1> QED BY <1>1, <1>2, PlaceKnows DEF CallPC

LEMMA FailuresKeep ==
  ASSUME IInv, NEW c \in Everyone, CallFails(c) \/ AnswerLost(c)
  PROVE  IInv'
<1> USE DEF IInv
<1>0. call[c] \in Call /\ Knows(call[c])
  BY DEF TypeOK, CallsKnow
<1>1. call' \in [Everyone -> Call] /\ CallsKnow'
  BY FailedKnows DEF CallFails, AnswerLost
<1>2. CASE CallFails(c)
  BY <1>1, <1>2 DEF CallFails, TypeOK, SignedInHasAccess, server, client
<1>3. CASE AnswerLost(c)
  <2>1. PICK s \in Pair : Issue(s)
    <3>1. CASE Answered(c, "login") /\ Issue(minted + 1)
      BY <3>1, NewPair DEF Issue
    <3>2. CASE call[c].pc = "own_rotate" /\ Alive(call[c].body) /\ Issue(session[call[c].body])
      BY <1>0, <3>2, SessionOfToken DEF Knows, Call
    <3>3. CASE call[c].pc = "rotate" /\ Alive(call[c].token) /\ Issue(session[call[c].token])
      BY <1>0, <3>3, SessionOfToken DEF Knows, Call
    <3> QED BY <1>3, <3>1, <3>2, <3>3 DEF AnswerLost
  <2>2. /\ session' \in [Pair -> PairOrNull] /\ current' \in [Pair -> PairOrNull]
        /\ minted' \in PairOrNull /\ UNCHANGED <<userIDSent, expired>>
    BY <2>1, IssueTyped
  <2> QED BY <1>1, <1>3, <2>2 DEF AnswerLost, TypeOK, SignedInHasAccess, client
<1> QED BY <1>2, <1>3

LEMMA RestartKeeps == IInv /\ Restart => IInv'
<1> SUFFICES ASSUME IInv, Restart PROVE IInv'
  OBVIOUS
<1>1. TypeOK'
  BY NullIsTyped, NoCallIsCall DEF IInv, Restart, TypeOK, AuthState, server
<1>2. CallsKnow'
  BY DEF Restart, CallsKnow, Knows, NoCall
<1>3. SignedInHasAccess'
  BY DEF Restart, SignedInHasAccess
<1> QED BY <1>1, <1>2, <1>3 DEF IInv

LEMMA IInvNext == IInv /\ [Next]_vars => IInv'
<1> SUFFICES ASSUME IInv, [Next]_vars PROVE IInv'
  OBVIOUS
<1>1. CASE Environment
  BY <1>1, EnvironmentKeeps
<1>2. ASSUME NEW c \in Everyone, CallStep(c) PROVE IInv'
  BY <1>2, CallStepKeeps
<1>3. ASSUME NEW c \in Everyone, CallFails(c) \/ AnswerLost(c) PROVE IInv'
  BY <1>3, FailuresKeep
<1>4. CASE Restart
  BY <1>4, RestartKeeps
<1>5. CASE UNCHANGED vars
  BY <1>5 DEF vars, IInv, TypeOK, CallsKnow, SignedInHasAccess
<1> QED BY <1>1, <1>2, <1>3, <1>4, <1>5 DEF Next, FaultlessNext

LEMMA Invariance == Spec => []IInv
BY IInvInit, IInvNext, PTL DEF Spec

(* ClientSession!TypeOK: tokens, pairs and the records of the calls keep   *)
(* their types; a server never numbers a pair beyond the bound.            *)
THEOREM TypeCorrect == Spec => []TypeOK
<1>1. IInv => TypeOK
  BY DEF IInv
<1> QED BY <1>1, Invariance, PTL

(* ClientSession!SignedInHasAccess: AuthBloc and the variable of main.dart *)
(* agree, whatever calls and refreshes overlap.                            *)
THEOREM SignedInCarriesToken == Spec => []SignedInHasAccess
<1>1. IInv => SignedInHasAccess
  BY DEF IInv
<1> QED BY <1>1, Invariance, PTL

------------------------------------------------------------------------------
(* Answers without user_id                                                 *)

LEMMA TokenlessGoto ==
  ASSUME TypeOK, NoSession, NEW c \in Everyone,
         NEW local, Tokenless(local), Goto(c, local)
  PROVE  \A d \in Everyone : Tokenless(call'[d])
BY DEF TypeOK, NoSession, Goto

LEMMA TokenlessPlace ==
  ASSUME TypeOK, NoSession, NEW c \in Everyone,
         NEW pc \in {"ok", "read", "catch", "signout", "store", "refused", "failed"}, GotoPC(c, pc)
  PROVE  \A d \in Everyone : Tokenless(call'[d])
<1>1. Tokenless([call[c] EXCEPT !.pc = pc])
  BY DEF TypeOK, NoSession, Tokenless, Call
<1> QED BY <1>1, TokenlessGoto DEF GotoPC

LEMMA TokenlessEnd ==
  ASSUME TypeOK, NoSession, NEW c \in Everyone, End(c)
  PROVE  \A d \in Everyone : Tokenless(call'[d])
<1>1. Tokenless(NoCall)
  BY DEF Tokenless, NoCall
<1> QED BY <1>1, TokenlessGoto DEF End

(* Every step a call without a token can take: it may fail, be refused, be *)
(* answered, and drop the answer.                                          *)
LEMMA NoSessionCall ==
  ASSUME TypeOK, NoSession, ~userIDSent, NEW c \in Everyone,
         CallStep(c) \/ CallFails(c) \/ AnswerLost(c)
  PROVE  NoSession'
<1>0. Tokenless(call[c]) /\ call[c] \in Call
  BY DEF NoSession, TypeOK
<1>1. ~(\/ LookupCheck(c) \/ RotateCheck(c) \/ LookupRefresh(c) \/ RotateRefresh(c)
        \/ RefuseRefresh(c) \/ WriteToken(c) \/ OnTokenRefreshed(c) \/ StoreSession(c)
        \/ SignIn(c) \/ EndCheck(c))
  BY <1>0 DEF Tokenless, LookupCheck, RotateCheck, LookupRefresh, RotateRefresh, RefuseRefresh,
              WriteToken, OnTokenRefreshed, StoreSession, Parses, SignIn, EndCheck, Answered
<1>2. CASE ServeCall(c) \/ EndCall(c) \/ EndLogin(c)
  BY <1>2, TokenlessEnd DEF ServeCall, EndCall, EndLogin, NoSession, client
<1>3. CASE EndLogout(c)
  BY <1>3, TokenlessEnd DEF EndLogout, NoSession, OnUnauthenticated
<1>4. CASE ServeLogout(c) \/ ParseFails(c)
  BY <1>4, TokenlessPlace DEF ServeLogout, ParseFails, NoSession, client
<1>5. CASE DeleteToken(c) \/ SignOut(c)
  BY <1>5, TokenlessPlace DEF DeleteToken, SignOut, NoSession, OnUnauthenticated
<1>6. CASE ReadToken(c)
  BY <1>6, TokenlessPlace DEF ReadToken, NoSession, OnUnauthenticated
<1>7. CASE ServeLogin(c)
  <2>1. Tokenless([call[c] EXCEPT !.pc = "store", !.pair = minted + 1])
    BY <1>0 DEF Tokenless, Call
  <2>2. \A d \in Everyone : Tokenless(call'[d])
    BY <1>7, <2>1, TokenlessGoto DEF ServeLogin
  <2> QED BY <1>7, <2>2 DEF ServeLogin, NoSession, client
<1>8. CASE Refused(c)
  <2>1. PICK pc \in {"catch", "read"} : GotoPC(c, pc)
    BY <1>8 DEF Refused
  <2> QED BY <1>8, <2>1, TokenlessPlace DEF Refused, NoSession, client
<1>9. CASE SessionGone(c) \/ CallFails(c) \/ AnswerLost(c)
  <2>1. PICK pc \in {"catch", "failed"} : GotoPC(c, pc)
    BY <1>9 DEF SessionGone, CallFails, AnswerLost, Failed
  <2> QED BY <1>9, <2>1, TokenlessPlace
      DEF SessionGone, CallFails, AnswerLost, NoSession, client
<1> QED
  BY <1>1, <1>2, <1>3, <1>4, <1>5, <1>6, <1>7, <1>8, <1>9
  DEF CallStep

LEMMA NoSessionNext ==
  ASSUME TypeOK, NoSession, ~userIDSent, [Next]_vars
  PROVE  NoSession'
<1>1. ASSUME NEW p \in Pair, ExpireAccess(p) \/ EndSession(p) PROVE NoSession'
  BY <1>1 DEF ExpireAccess, EndSession, NoSession
<1>2. ~LogoutRequested /\ \A c \in Calls : ~StartCall(c)
  BY DEF NoSession, LogoutRequested, StartCall
<1>3. CASE CheckRequested
  BY <1>3 DEF CheckRequested, NoSession
<1>4. CASE LoginRequested
  <2>1. Tokenless([NoCall EXCEPT !.pc = "sent", !.kind = "login", !.access = access, !.body = 0])
    BY DEF Tokenless, NoCall
  <2>2. \A d \in Everyone : Tokenless(call'[d])
    BY <1>4, <2>1, BlocIsIn, TokenlessGoto DEF LoginRequested, Send
  <2> QED BY <1>4, <2>2 DEF LoginRequested, NoSession
<1>5. ASSUME NEW c \in Everyone, CallStep(c) \/ CallFails(c) \/ AnswerLost(c) PROVE NoSession'
  BY <1>5, NoSessionCall
<1>6. CASE Restart
  BY <1>6 DEF Restart, NoSession, Tokenless, NoCall
<1>7. CASE UNCHANGED vars
  BY <1>7 DEF vars, NoSession
<1> QED BY <1>1, <1>2, <1>3, <1>4, <1>5, <1>6, <1>7 DEF Next, FaultlessNext, Environment

(* The server does not change what it answers with.                        *)
LEMMA UserIDStays == [Next]_vars => UNCHANGED userIDSent
<1>1. ASSUME NEW c \in Everyone, CallStep(c) PROVE UNCHANGED userIDSent
  BY <1>1 DEF CallStep, ServeCall, ServeLogout, ServeLogin, LookupCheck, RotateCheck, Refused,
     SessionGone, ReadToken, LookupRefresh, RotateRefresh, RefuseRefresh, WriteToken,
     OnTokenRefreshed, DeleteToken, SignOut, StoreSession, SignIn, ParseFails, EndCall, EndCheck,
     EndLogin, EndLogout, Issue, server
<1>2. Environment => UNCHANGED userIDSent
  BY DEF Environment, ExpireAccess, EndSession, StartCall, CheckRequested, LoginRequested,
     LogoutRequested, server
<1>3. ASSUME NEW c \in Everyone, CallFails(c) \/ AnswerLost(c) PROVE UNCHANGED userIDSent
  BY <1>3 DEF CallFails, AnswerLost, Issue, server
<1>4. Restart => UNCHANGED userIDSent
  BY DEF Restart, server
<1> QED BY <1>1, <1>2, <1>3, <1>4 DEF Next, FaultlessNext, vars

(* ClientSession!NeverSignedIn: with the answers the server writes, the    *)
(* client never keeps a session, however many calls it makes and however   *)
(* they interleave.                                                        *)
THEOREM NobodySignsIn == Spec => []NeverSignedIn
<1> DEFINE Never == ~userIDSent => NoSession
<1>1. Init => Never
  BY DEF Init, NoSession, Tokenless, NoCall
<1>2. [Next]_vars => UNCHANGED userIDSent
  BY UserIDStays
<1>3. TypeOK /\ Never /\ [Next]_vars => Never'
  BY <1>2, NoSessionNext
<1>4. Never => NeverSignedIn
  BY DEF NoSession, NeverSignedIn
<1> HIDE DEF Never
<1> QED BY <1>1, <1>3, <1>4, TypeCorrect, PTL DEF Spec

------------------------------------------------------------------------------
(* One silent refresh at a time                                            *)

(* A pair whose refresh token opens its session, unless that has ended.    *)
Fits(p) == session[p] # 0 /\ current[session[p]] \in {0, p}

(* Sessions and pairs are numbered as they are issued.                     *)
Numbered == \A p \in Pair : session[p] <= minted /\ (p > minted => session[p] = 0)

(* The calls of the screens are refused, refreshed and retried; only the   *)
(* bloc signs in, and while it does nobody is signed in.                   *)
ApiCall(l) ==
  /\ l.kind = "api"
  /\ l.pc \notin {"own_rotate", "store", "signin", "ok"}
  /\ l.pc # "idle" => l.access # 0
BlocCall(l) ==
  /\ l.pc # "idle" => l.kind # "api" /\ auth # "authenticated"
  /\ l.pc \in {"store", "signin"} => Fits(l.pair)
  /\ l.pc = "signin" => stored = l.pair
OwnRequests == (\A c \in Calls : ApiCall(call[c])) /\ BlocCall(call[Bloc])

(* Once nobody is signed in the storage is empty for the calls left over:  *)
(* none of them is refreshed any more.                                     *)
SignedOutCall(l) ==
  l.pc # "idle" => stored = 0 /\ l.pc \notin {"refresh", "rotate", "write", "signal"}
SignedOut == auth # "authenticated" => \A c \in Calls : SignedOutCall(call[c])

(* While somebody is, every call is in the session of the access token,    *)
(* and the storage goes from a token that opens it to the next one.        *)
SignedInCall(l) ==
  /\ l.pc # "idle" => session[l.access] = session[access]
  /\ l.pc \in {"refresh", "rotate"} => l.token = stored
  /\ l.pc = "write" => Fits(l.pair) /\ session[l.pair] = session[access]
  /\ l.pc = "signal" => stored = l.pair
  /\ l.pc = "signout" => stored = 0
Leaving(l) == l.pc \in {"catch", "signout"}
StoreFollows ==
  (\A c \in Calls : ~Leaving(call[c])) =>
    /\ stored # 0 /\ session[stored] = session[access]
    /\ (\A c \in Calls : call[c].pc # "write") => Fits(stored)
SignedIn ==
  auth = "authenticated" =>
    /\ session[access] # 0
    /\ \A c \in Calls : SignedInCall(call[c])
    /\ StoreFollows

SInv == IInv /\ OneByOne /\ Numbered /\ OwnRequests /\ SignedOut /\ SignedIn

(* The next pair opens its session, and no other pair changes session.     *)
LEMMA IssueFits ==
  ASSUME TypeOK, Numbered, NEW s \in Pair, Issue(s), s <= minted \/ s = minted + 1
  PROVE  /\ Numbered'
         /\ \A p : p = minted + 1 => Fits(p)' /\ session'[p] = s
         /\ \A p \in Pair : session[p] # 0 => session'[p] = session[p] /\ p # minted + 1
<1>1. minted + 1 \in Pair /\ minted' = minted + 1 /\ minted \in Nat
  BY NewPair, BoundAssumption DEF Issue, TypeOK, PairOrNull
<1>2. /\ session' = [session EXCEPT ![minted + 1] = s]
      /\ current' = [current EXCEPT ![s] = minted + 1]
  BY DEF Issue
<1>3. session'[minted + 1] = s /\ current'[s] = minted + 1
  BY <1>1, <1>2 DEF TypeOK
<1>4. \A p \in Pair : p # minted + 1 => session'[p] = session[p]
  BY <1>2 DEF TypeOK
<1>5. \A p \in Pair : session[p] # 0 => p # minted + 1
  BY <1>1 DEF Numbered
<1>6. \A p \in Pair : p \in Nat /\ session[p] \in Nat
  BY BoundAssumption DEF TypeOK, Pair, PairOrNull
<1>7. Numbered'
  <2> SUFFICES ASSUME NEW p \in Pair
               PROVE  session'[p] <= minted' /\ (p > minted' => session'[p] = 0)
    BY DEF Numbered
  <2>1. CASE p = minted + 1
    BY <2>1, <1>1, <1>3, <1>6
  <2>2. CASE p # minted + 1
    BY <2>2, <1>1, <1>4, <1>6 DEF Numbered
  <2> QED BY <2>1, <2>2
<1>8. ASSUME NEW p, p = minted + 1 PROVE Fits(p)' /\ session'[p] = s
  BY <1>1, <1>3, <1>8, BoundAssumption DEF Fits, Pair
<1> QED BY <1>3, <1>4, <1>5, <1>7, <1>8

(* What the step of one call leaves to the others.                         *)
LEMMA OthersStay ==
  ASSUME TypeOK, NEW c \in Everyone, NEW local, Goto(c, local)
  PROVE  call'[c] = local /\ \A d \in Everyone \ {c} : call'[d] = call[d]
BY DEF TypeOK, Goto

LEMMA WhoIsAlone ==
  ASSUME TypeOK, OneByOne, NEW c \in Calls
  PROVE  /\ c \in Everyone /\ Bloc \in Everyone /\ c # Bloc
         /\ Busy(c) => ~Busy(Bloc)
         /\ Busy(c) /\ InInterceptor(c) =>
              \A d \in Calls \ {c} : Busy(d) => ~InInterceptor(d)
BY BlocAssumption, BlocIsIn DEF OneByOne

(* Where only a call of the screens moves.                                 *)
LEMMA ApiMoves ==
  ASSUME SInv, IInv', OneByOne', Numbered', NEW c \in Calls, Busy(c),
         NEW local, Goto(c, local), ApiCall(local), SignedOut', SignedIn'
  PROVE  SInv'
<1>1. c \in Everyone /\ Bloc \in Everyone /\ c # Bloc /\ ~Busy(Bloc)
  BY WhoIsAlone DEF SInv, IInv
<1>2. call'[c] = local /\ \A d \in Everyone \ {c} : call'[d] = call[d]
  BY <1>1, OthersStay DEF SInv, IInv
<1>3. \A d \in Calls : ApiCall(call'[d])
  BY <1>2, BlocIsIn DEF SInv, OwnRequests
<1>4. call'[Bloc].pc = "idle"
  BY <1>1, <1>2 DEF Busy
<1>5. BlocCall(call[Bloc])'
  BY <1>4 DEF BlocCall
<1>6. OwnRequests'
  BY <1>3, <1>5 DEF OwnRequests, ApiCall
<1> QED BY <1>6 DEF SInv

(* A step that touches nothing but the call itself, and does not bring it  *)
(* back from giving up.                                                    *)
LEMMA QuietKeeps ==
  ASSUME SInv, IInv', OneByOne', NEW c \in Calls, Busy(c), NEW local, Goto(c, local),
         ApiCall(local), UNCHANGED <<session, current, minted, stored, access, auth>>,
         auth # "authenticated" => SignedOutCall(local),
         auth = "authenticated" => SignedInCall(local),
         Leaving(call[c]) => Leaving(local),
         (local.pc = "write") = (call[c].pc = "write")
  PROVE  SInv'
<1>1. c \in Everyone /\ \A d \in Calls : d \in Everyone
  BY BlocIsIn
<1>2. call'[c] = local /\ \A d \in Everyone \ {c} : call'[d] = call[d]
  BY <1>1, OthersStay DEF SInv, IInv
<1>3. Numbered'
  BY DEF SInv, Numbered
<1>4. SignedOut'
  BY <1>1, <1>2 DEF SInv, SignedOut, SignedOutCall
<1>5. SignedIn'
  <2> SUFFICES ASSUME auth = "authenticated"
               PROVE  session[access] # 0 /\ (\A d \in Calls : SignedInCall(call[d])') /\ StoreFollows'
    BY DEF SignedIn
  <2>1. session[access] # 0 /\ (\A d \in Calls : SignedInCall(call[d])) /\ StoreFollows
    BY DEF SInv, SignedIn
  <2>2. \A d \in Calls : SignedInCall(call'[d])
    BY <1>1, <1>2, <2>1
  <2>3. \A d \in Calls : SignedInCall(call[d])'
    BY <2>2 DEF SignedInCall, Fits
  <2>4. \A d \in Calls : (Leaving(call[d]) => Leaving(call'[d])) /\ ((call'[d].pc = "write") = (call[d].pc = "write"))
    BY <1>1, <1>2
  <2>5. StoreFollows'
    BY <2>1, <2>4 DEF StoreFollows, Leaving, Fits
  <2> QED BY <2>1, <2>3, <2>5
<1> QED BY <1>3, <1>4, <1>5, ApiMoves

(* What is known of a busy call of a screen.                               *)
LEMMA BusyApi ==
  ASSUME SInv, NEW c \in Calls, Busy(c)
  PROVE  /\ call[c] \in Call /\ Knows(call[c]) /\ ApiCall(call[c])
         /\ auth # "authenticated" => SignedOutCall(call[c])
         /\ auth = "authenticated" => SignedInCall(call[c]) /\ session[access] # 0
         /\ InInterceptor(c) => \A d \in Calls \ {c} : Busy(d) => ~InInterceptor(d)
BY BlocIsIn, WhoIsAlone
DEF SInv, IInv, TypeOK, CallsKnow, OwnRequests, SignedOut, SignedIn

LEMMA QuietApiSteps ==
  ASSUME SInv, IInv', OneByOne', NEW c \in Calls,
         \/ ServeCall(c) \/ Refused(c) \/ SessionGone(c) \/ LookupRefresh(c)
         \/ RefuseRefresh(c) \/ EndCall(c) \/ CallFails(c)
  PROVE  SInv'
<1>0. Busy(c)
  BY DEF Busy, ServeCall, Refused, SessionGone, LookupRefresh, RefuseRefresh, EndCall,
         CallFails, Answered
<1>1. /\ call[c] \in Call /\ ApiCall(call[c])
      /\ auth # "authenticated" => SignedOutCall(call[c])
      /\ auth = "authenticated" => SignedInCall(call[c])
  BY <1>0, BusyApi
<1>2. UNCHANGED <<session, current, minted, stored, access, auth>>
  BY DEF ServeCall, Refused, SessionGone, LookupRefresh, RefuseRefresh, EndCall, CallFails,
         server, client
<1>3. CASE ServeCall(c) \/ EndCall(c)
  <2>1. Goto(c, NoCall) /\ ~Leaving(call[c]) /\ call[c].pc # "write"
    BY <1>3 DEF ServeCall, EndCall, End, Leaving, Answered
  <2>2. ApiCall(NoCall) /\ SignedOutCall(NoCall) /\ SignedInCall(NoCall) /\ NoCall.pc # "write"
    BY DEF NoCall, ApiCall, SignedOutCall, SignedInCall
  <2> QED BY <1>0, <1>2, <2>1, <2>2, QuietKeeps
<1>4. CASE ~(ServeCall(c) \/ EndCall(c))
  <2>1. PICK pc \in {"read", "rotate", "catch", "failed"} :
          /\ GotoPC(c, pc)
          /\ call[c].pc \in {"sent", "refresh", "rotate"}
          /\ pc = "rotate" => call[c].pc = "refresh"
    BY <1>1, <1>4 DEF Refused, SessionGone, LookupRefresh, RefuseRefresh, CallFails, Failed,
       RefreshFailed, Answered, ApiCall
  <2> DEFINE local == [call[c] EXCEPT !.pc = pc]
  <2>2. /\ local.pc = pc /\ local.kind = call[c].kind /\ local.access = call[c].access
        /\ local.token = call[c].token /\ local.pair = call[c].pair
    BY <1>1 DEF Call
  <2>3. Goto(c, local)
    BY <2>1 DEF GotoPC
  <2> HIDE DEF local
  <2>4. ApiCall(local)
    BY <1>1, <2>1, <2>2 DEF ApiCall
  <2>5. auth # "authenticated" => SignedOutCall(local)
    BY <1>1, <2>1, <2>2 DEF SignedOutCall
  <2>6. auth = "authenticated" => SignedInCall(local)
    BY <1>1, <2>1, <2>2 DEF SignedInCall
  <2>7. ~Leaving(call[c]) /\ call[c].pc # "write" /\ local.pc # "write"
    BY <2>1, <2>2 DEF Leaving
  <2> QED BY <1>0, <1>2, <2>3, <2>4, <2>5, <2>6, <2>7, QuietKeeps
<1> QED BY <1>3, <1>4

(* The others, while c is in the interceptor: they wait, or are answered.  *)
LEMMA OutsideInterceptor ==
  ASSUME SInv, NEW c \in Calls, Busy(c), InInterceptor(c), NEW local, Goto(c, local)
  PROVE  /\ call'[c] = local
         /\ \A d \in Calls \ {c} :
              /\ call'[d] = call[d] /\ ~Leaving(call[d])
              /\ call[d].pc \notin {"refresh", "rotate", "write", "signal", "signout"}
<1>1. c \in Everyone /\ \A d \in Calls : d \in Everyone
  BY BlocIsIn
<1>2. call'[c] = local /\ \A d \in Everyone \ {c} : call'[d] = call[d]
  BY <1>1, OthersStay DEF SInv, IInv
<1>3. \A d \in Calls \ {c} : Busy(d) => ~InInterceptor(d)
  BY BusyApi
<1> QED BY <1>1, <1>2, <1>3 DEF Busy, InInterceptor, Leaving

LEMMA ReadTokenKeeps ==
  ASSUME SInv, IInv', OneByOne', NEW c \in Calls, ReadToken(c)
  PROVE  SInv'
<1>0. Busy(c) /\ InInterceptor(c)
  BY DEF Busy, InInterceptor, ReadToken
<1>1. /\ call[c] \in Call /\ ApiCall(call[c])
      /\ auth # "authenticated" => SignedOutCall(call[c])
      /\ auth = "authenticated" => SignedInCall(call[c])
  BY <1>0, BusyApi
<1>2. UNCHANGED <<session, current, minted, stored>>
  BY DEF ReadToken, server
<1>3. CASE stored = 0
  <2> DEFINE local == [call[c] EXCEPT !.pc = "refused"]
  <2>1. local.pc = "refused" /\ local.kind = call[c].kind /\ local.access = call[c].access
    BY <1>1 DEF Call
  <2>2. Goto(c, local)
    BY <1>3 DEF ReadToken, GotoPC
  <2> HIDE DEF local
  <2>3. ApiCall(local)
    BY <1>1, <2>1 DEF ApiCall, ReadToken
  <2>4. \A d \in Calls : SignedOutCall(call[d])'
    BY <1>0, <1>2, <1>3, <2>1, <2>2, OutsideInterceptor DEF SignedOutCall
  <2>5. auth' = "unauthenticated"
    BY <1>3 DEF ReadToken, OnUnauthenticated
  <2>6. Numbered' /\ SignedOut' /\ SignedIn'
    BY <1>2, <2>4, <2>5 DEF SInv, Numbered, SignedOut, SignedIn
  <2> QED BY <1>0, <2>2, <2>3, <2>6, ApiMoves
<1>4. CASE stored # 0
  <2> DEFINE local == [call[c] EXCEPT !.pc = "refresh", !.token = stored]
  <2>1. /\ local.pc = "refresh" /\ local.kind = call[c].kind
        /\ local.access = call[c].access /\ local.token = stored
    BY <1>1 DEF Call
  <2>2. Goto(c, local) /\ UNCHANGED <<auth, access>>
    BY <1>4 DEF ReadToken
  <2> HIDE DEF local
  <2>3. call[c].pc = "read"
    BY DEF ReadToken
  <2>4. auth = "authenticated"
    BY <1>1, <1>4, <2>3 DEF SignedOutCall
  <2>5. ApiCall(local) /\ SignedInCall(local)
    BY <1>1, <2>1, <2>3, <2>4 DEF ApiCall, SignedInCall
  <2>6. ~Leaving(call[c]) /\ call[c].pc # "write" /\ local.pc # "write"
    BY <2>1, <2>3 DEF Leaving
  <2> QED BY <1>0, <1>2, <2>2, <2>4, <2>5, <2>6, QuietKeeps
<1> QED BY <1>3, <1>4

(* The session of the client gets its next pair, and the call takes it, or *)
(* gives up because the answer is lost.                                    *)
LEMMA RotateKeeps ==
  ASSUME SInv, IInv', OneByOne', NEW c \in Calls, RotateRefresh(c) \/ AnswerLost(c)
  PROVE  SInv'
<1>0. Busy(c) /\ ApiCall(call[c])
  <2>1. Busy(c)
    BY DEF Busy, RotateRefresh, AnswerLost, Answered
  <2> QED BY <2>1, BusyApi
<1>1. /\ call[c].pc = "rotate" /\ Alive(call[c].token) /\ Issue(session[call[c].token])
      /\ UNCHANGED <<stored, access, auth>>
  BY <1>0 DEF RotateRefresh, AnswerLost, ApiCall, Answered, client
<1>2. Busy(c) /\ InInterceptor(c) /\ call[c] \in Call /\ Knows(call[c])
  BY <1>0, <1>1, BusyApi DEF InInterceptor
<1>3. auth = "authenticated" /\ SignedInCall(call[c]) /\ session[access] # 0
  BY <1>0, <1>1, BusyApi DEF SignedOutCall
<1>4. call[c].token = stored /\ stored \in Pair
  BY <1>1, <1>2, <1>3 DEF SignedInCall, Knows, SInv, IInv, TypeOK, Pair, PairOrNull
<1>5. TypeOK /\ Numbered /\ access \in Pair
  BY <1>3, NullIsTyped DEF SInv, IInv, TypeOK, SignedInHasAccess, Pair, PairOrNull
<1>6. session[stored] \in Pair /\ session[stored] <= minted
  BY <1>1, <1>4, <1>5, SessionOfToken DEF PairOrNull, Pair, Numbered
<1>7. /\ Numbered'
      /\ \A p : p = minted + 1 => Fits(p)' /\ session'[p] = session[stored]
      /\ \A p \in Pair : session[p] # 0 => session'[p] = session[p] /\ p # minted + 1
  BY <1>1, <1>4, <1>5, <1>6, IssueFits
<1>8. \A d \in Calls : Busy(d) => call[d].access \in Pair /\ session[call[d].access] = session[access]
  <2> SUFFICES ASSUME NEW d \in Calls, Busy(d)
               PROVE  call[d].access \in Pair /\ session[call[d].access] = session[access]
    OBVIOUS
  <2>1. call[d] \in Call /\ ApiCall(call[d]) /\ SignedInCall(call[d])
    BY <1>3, BusyApi
  <2> QED BY <2>1 DEF Busy, ApiCall, SignedInCall, Call, Pair, PairOrNull
<1>9. \A c2 \in Calls : ~Leaving(call[c2])
  <2>1. \A d \in Calls \ {c} : Busy(d) => ~InInterceptor(d)
    BY <1>2, BusyApi
  <2> QED BY <1>1, <2>1 DEF Leaving, Busy, InInterceptor
<1>10. session[stored] = session[access]
  BY <1>3, <1>9 DEF SInv, SignedIn, StoreFollows
<1>11. PICK local : /\ Goto(c, local) /\ local.kind = "api" /\ local.access = call[c].access
                    /\ \/ local.pc = "write" /\ local.pair = minted + 1
                       \/ local.pc = "catch"
  <2>1. CASE RotateRefresh(c)
    <3> DEFINE l == [call[c] EXCEPT !.pc = "write", !.pair = minted + 1]
    <3>1. /\ l.pc = "write" /\ l.pair = minted + 1 /\ l.kind = call[c].kind
          /\ l.access = call[c].access
      BY <1>2 DEF Call
    <3>2. Goto(c, l)
      BY <2>1 DEF RotateRefresh
    <3> HIDE DEF l
    <3> QED BY <1>0, <3>1, <3>2 DEF ApiCall
  <2>2. CASE AnswerLost(c)
    BY <1>0, <1>1, <1>2, <2>2 DEF AnswerLost, Failed, GotoPC, Call, ApiCall
  <2> QED BY <2>1, <2>2
<1>12. /\ call'[c] = local
       /\ \A d \in Calls \ {c} :
            /\ call'[d] = call[d]
            /\ call[d].pc \notin {"refresh", "rotate", "write", "signal", "signout"}
  BY <1>2, <1>11, OutsideInterceptor
<1>13. ApiCall(local)
  BY <1>0, <1>1, <1>11 DEF ApiCall
<1>14. session'[access] = session[access] /\ session'[stored] = session[stored]
  BY <1>3, <1>4, <1>5, <1>6, <1>7 DEF Pair
<1>15. \A d \in Calls : SignedInCall(call[d])'
  <2>1. ASSUME NEW d \in Calls \ {c} PROVE SignedInCall(call[d])'
    <3>1. Busy(d) => session'[call[d].access] = session'[access]
      BY <1>3, <1>7, <1>8, <1>14
    <3> QED BY <1>1, <1>12, <3>1 DEF SignedInCall, Busy
  <2>2. session'[call[c].access] = session'[access]
    BY <1>0, <1>3, <1>7, <1>8, <1>14
  <2>3. local.pc = "write" => Fits(local.pair)' /\ session'[local.pair] = session'[access]
    BY <1>7, <1>10, <1>11, <1>14
  <2>4. SignedInCall(call[c])'
    BY <1>1, <1>11, <1>12, <2>2, <2>3 DEF SignedInCall, Fits
  <2> QED BY <2>1, <2>4
<1>16. StoreFollows'
  BY <1>1, <1>4, <1>10, <1>11, <1>12, <1>14, NullIsTyped DEF StoreFollows, Leaving
<1>17. SignedOut' /\ SignedIn'
  BY <1>1, <1>3, <1>14, <1>15, <1>16 DEF SignedOut, SignedIn
<1> QED BY <1>0, <1>7, <1>11, <1>13, <1>17, ApiMoves

(* The next token is written and the request sent again with it: only      *)
(* while somebody is signed in, and in the session the request was sent in. *)
LEMMA NextTokenKeeps ==
  ASSUME SInv, IInv', OneByOne', NEW c \in Calls, WriteToken(c) \/ OnTokenRefreshed(c)
  PROVE  SInv'
<1>0. Busy(c) /\ InInterceptor(c) /\ call[c].pc \in {"write", "signal"}
  BY DEF Busy, InInterceptor, WriteToken, OnTokenRefreshed
<1>1. /\ call[c] \in Call /\ ApiCall(call[c]) /\ Knows(call[c])
      /\ auth = "authenticated" /\ SignedInCall(call[c]) /\ session[access] # 0
  BY <1>0, BusyApi DEF SignedOutCall
<1>2. /\ \A d \in Calls : SignedInCall(call[d])
      /\ \A d \in Calls : ~Leaving(call[d])
      /\ session[stored] = session[access]
      /\ call[c].pc = "signal" => Fits(stored)
  <2>1. \A d \in Calls \ {c} : Busy(d) => ~InInterceptor(d)
    BY <1>0, BusyApi
  <2>2. \A d \in Calls : ~Leaving(call[d]) /\ (d # c => call[d].pc # "write")
    BY <1>0, <2>1 DEF Leaving, Busy, InInterceptor
  <2> QED BY <1>0, <1>1, <2>2 DEF SInv, SignedIn, StoreFollows
<1>3. UNCHANGED <<session, current, minted, auth>>
  BY DEF WriteToken, OnTokenRefreshed, server
<1>4. CASE WriteToken(c)
  <2> DEFINE local == [call[c] EXCEPT !.pc = "signal"]
  <2>1. /\ local.pc = "signal" /\ local.kind = call[c].kind
        /\ local.access = call[c].access /\ local.pair = call[c].pair
    BY <1>1 DEF Call
  <2>2. Goto(c, local) /\ stored' = local.pair /\ UNCHANGED access /\ call[c].pc = "write"
    BY <1>4, <2>1 DEF WriteToken, GotoPC, NewToken
  <2> HIDE DEF local
  <2>3. ApiCall(local)
    BY <1>1, <2>1, <2>2 DEF ApiCall
  <2>4. /\ call'[c] = local
        /\ \A d \in Calls \ {c} :
             /\ call'[d] = call[d]
             /\ call[d].pc \notin {"refresh", "rotate", "write", "signal", "signout"}
    BY <1>0, <2>2, OutsideInterceptor
  <2>5. Fits(local.pair) /\ session[local.pair] = session[access] /\ local.pair # 0
    BY <1>1, <2>1, <2>2 DEF SignedInCall, Knows
  <2>6. ASSUME NEW d \in Calls PROVE SignedInCall(call[d])'
    <3>1. CASE d = c
      BY <1>1, <1>3, <2>1, <2>2, <2>4, <3>1 DEF SignedInCall
    <3>2. CASE d # c
      BY <1>2, <1>3, <2>2, <2>4, <3>2 DEF SignedInCall
    <3> QED BY <3>1, <3>2
  <2>7. StoreFollows'
    BY <1>3, <2>2, <2>5 DEF StoreFollows, Fits
  <2>8. Numbered' /\ SignedOut' /\ SignedIn'
    BY <1>1, <1>3, <2>2, <2>6, <2>7 DEF SInv, Numbered, SignedOut, SignedIn
  <2>9. SInv'
    BY <1>0, <2>2, <2>3, <2>8, ApiMoves
  <2> QED BY <2>9
<1>5. CASE OnTokenRefreshed(c)
  <2> DEFINE local == [call[c] EXCEPT !.pc = "sent", !.access = call[c].pair, !.retry = TRUE]
  <2>1. local.pc = "sent" /\ local.kind = call[c].kind /\ local.access = call[c].pair
    BY <1>1 DEF Call
  <2>2. Goto(c, local) /\ access' = call[c].pair /\ UNCHANGED stored /\ call[c].pc = "signal"
    BY <1>5 DEF OnTokenRefreshed
  <2> HIDE DEF local
  <2>3. call[c].pair = stored /\ call[c].pair # 0
    BY <1>1, <2>2 DEF SignedInCall, Knows
  <2>4. ApiCall(local)
    BY <1>1, <2>1, <2>3 DEF ApiCall
  <2>5. /\ call'[c] = local
        /\ \A d \in Calls \ {c} :
             /\ call'[d] = call[d]
             /\ call[d].pc \notin {"refresh", "rotate", "write", "signal", "signout"}
    BY <1>0, <2>2, OutsideInterceptor
  <2>6. ASSUME NEW d \in Calls PROVE SignedInCall(call[d])'
    <3>1. CASE d = c
      BY <1>3, <2>1, <2>2, <2>5, <3>1 DEF SignedInCall
    <3>2. CASE d # c
      BY <1>2, <1>3, <2>2, <2>3, <2>5, <3>2 DEF SignedInCall
    <3> QED BY <3>1, <3>2
  <2>7. StoreFollows' /\ session'[access'] # 0
    BY <1>1, <1>2, <1>3, <2>2, <2>3 DEF StoreFollows, Fits
  <2>8. Numbered' /\ SignedOut' /\ SignedIn'
    BY <1>1, <1>3, <2>2, <2>6, <2>7 DEF SInv, Numbered, SignedOut, SignedIn
  <2>9. SInv'
    BY <1>0, <2>2, <2>4, <2>8, ApiMoves
  <2> QED BY <2>9
<1> QED BY <1>4, <1>5

(* Giving up: the token is deleted, then the app shows nobody signed in.   *)
LEMMA GivingUpKeeps ==
  ASSUME SInv, IInv', OneByOne', NEW c \in Calls, DeleteToken(c) \/ SignOut(c)
  PROVE  SInv'
<1>0. Busy(c) /\ InInterceptor(c) /\ call[c].pc \in {"catch", "signout"}
  BY DEF Busy, InInterceptor, DeleteToken, SignOut
<1>1. /\ call[c] \in Call /\ ApiCall(call[c])
      /\ auth # "authenticated" => SignedOutCall(call[c])
      /\ auth = "authenticated" => SignedInCall(call[c]) /\ session[access] # 0
  BY <1>0, BusyApi
<1>2. UNCHANGED <<session, current, minted>>
  BY DEF DeleteToken, SignOut, server
<1>3. PICK pc \in {"signout", "refused"} :
        /\ GotoPC(c, pc)
        /\ pc = "signout" => stored' = 0 /\ UNCHANGED <<access, auth>>
        /\ pc = "refused" => /\ auth' = "unauthenticated" /\ stored' = stored
                             /\ call[c].pc = "signout"
  BY DEF DeleteToken, SignOut, OnUnauthenticated
<1> DEFINE local == [call[c] EXCEPT !.pc = pc]
<1>4. local.pc = pc /\ local.kind = call[c].kind /\ local.access = call[c].access
  BY <1>1 DEF Call
<1>5. Goto(c, local)
  BY <1>3 DEF GotoPC
<1> HIDE DEF local
<1>6. ApiCall(local)
  BY <1>0, <1>1, <1>4 DEF ApiCall
<1>7. /\ call'[c] = local
      /\ \A d \in Calls \ {c} :
           /\ call'[d] = call[d]
           /\ call[d].pc \notin {"refresh", "rotate", "write", "signal", "signout"}
  BY <1>0, <1>5, OutsideInterceptor
<1>8. CASE pc = "signout"
  <2>1. ASSUME auth # "authenticated", NEW d \in Calls PROVE SignedOutCall(call[d])'
    BY <1>3, <1>4, <1>7, <1>8, <2>1 DEF SignedOutCall
  <2>2. ASSUME auth = "authenticated", NEW d \in Calls PROVE SignedInCall(call[d])'
    <3>1. CASE d = c
      BY <1>0, <1>1, <1>2, <1>3, <1>4, <1>7, <1>8, <2>2, <3>1 DEF SignedInCall
    <3>2. CASE d # c
      <4>1. SignedInCall(call[d])
        BY <2>2 DEF SInv, SignedIn
      <4> QED BY <1>2, <1>3, <1>7, <1>8, <3>2, <4>1 DEF SignedInCall
    <3> QED BY <3>1, <3>2
  <2>3. StoreFollows'
    BY <1>4, <1>7, <1>8 DEF StoreFollows, Leaving
  <2>4. Numbered' /\ SignedOut' /\ SignedIn'
    BY <1>1, <1>2, <1>3, <1>8, <2>1, <2>2, <2>3 DEF SInv, Numbered, SignedOut, SignedIn
  <2> QED BY <1>0, <1>5, <1>6, <2>4, ApiMoves
<1>9. CASE pc = "refused"
  <2>1. stored = 0 /\ stored' = 0 /\ auth' = "unauthenticated"
    BY <1>0, <1>1, <1>3, <1>9 DEF SignedOutCall, SignedInCall
  <2>2. \A d \in Calls : SignedOutCall(call[d])'
    BY <1>4, <1>7, <1>9, <2>1 DEF SignedOutCall
  <2>3. Numbered' /\ SignedOut' /\ SignedIn'
    BY <1>2, <2>1, <2>2 DEF SInv, Numbered, SignedOut, SignedIn
  <2> QED BY <1>0, <1>5, <1>6, <2>3, ApiMoves
<1> QED BY <1>3, <1>8, <1>9

LEMMA ApiStepKeeps ==
  ASSUME SInv, IInv', OneByOne', NEW c \in Calls, CallStep(c) \/ CallFails(c) \/ AnswerLost(c)
  PROVE  SInv'
<1>1. ApiCall(call[c])
  BY DEF SInv, OwnRequests
<1>2. ~(\/ ServeLogout(c) \/ ServeLogin(c) \/ LookupCheck(c) \/ RotateCheck(c) \/ StoreSession(c)
        \/ SignIn(c) \/ ParseFails(c) \/ EndCheck(c) \/ EndLogin(c) \/ EndLogout(c))
  BY <1>1 DEF ApiCall, ServeLogout, ServeLogin, LookupCheck, RotateCheck, StoreSession, SignIn,
     ParseFails, EndCheck, EndLogin, EndLogout, Answered
<1> QED BY <1>2, QuietApiSteps, ReadTokenKeeps, RotateKeeps, NextTokenKeeps, GivingUpKeeps
        DEF CallStep

------------------------------------------------------------------------------
(* The bloc's calls, alone                                                 *)

(* What is known while the bloc's call is under way.                       *)
LEMMA BusyBloc ==
  ASSUME SInv, Busy(Bloc)
  PROVE  /\ call[Bloc] \in Call /\ Knows(call[Bloc]) /\ BlocCall(call[Bloc])
         /\ auth # "authenticated" /\ call[Bloc].kind # "api"
         /\ \A d \in Calls : ~Busy(d)
BY BlocIsIn, WhoIsAlone DEF SInv, IInv, TypeOK, CallsKnow, OwnRequests, BlocCall, Busy

(* Where only the bloc's call moves, and it does not sign in.              *)
LEMMA BlocMoves ==
  ASSUME SInv, IInv', OneByOne', Busy(Bloc), NEW local, Goto(Bloc, local), Numbered',
         auth' # "authenticated", BlocCall(local)'
  PROVE  SInv'
<1>1. call'[Bloc] = local /\ \A d \in Everyone \ {Bloc} : call'[d] = call[d]
  BY BlocIsIn, OthersStay DEF SInv, IInv
<1>2. \A d \in Calls : call'[d] = call[d] /\ call[d].pc = "idle"
  BY <1>1, BlocIsIn, BlocAssumption, BusyBloc DEF Busy
<1>3. BlocCall(call[Bloc])'
  BY <1>1 DEF BlocCall
<1>4. OwnRequests'
  BY <1>2, <1>3 DEF SInv, OwnRequests, ApiCall
<1>5. SignedOut' /\ SignedIn'
  BY <1>2 DEF SignedOut, SignedOutCall, SignedIn
<1> QED BY <1>4, <1>5 DEF SInv

(* The bloc's call is answered with the pair of a session of its own, or   *)
(* with the next one of its session.                                       *)
LEMMA BlocIssue ==
  ASSUME SInv, Busy(Bloc),
         \/ Issue(minted + 1)
         \/ call[Bloc].pc = "own_rotate" /\ Alive(call[Bloc].body) /\ Issue(session[call[Bloc].body])
         \/ call[Bloc].pc = "rotate" /\ Alive(call[Bloc].token) /\ Issue(session[call[Bloc].token])
  PROVE  Numbered' /\ \A p : p = minted + 1 => Fits(p)'
<1>0. TypeOK /\ Numbered /\ call[Bloc] \in Call /\ Knows(call[Bloc])
  BY BusyBloc DEF SInv, IInv
<1>1. CASE Issue(minted + 1)
  <2>1. minted + 1 \in Pair
    BY <1>0, <1>1, NewPair DEF Issue
  <2> QED BY <1>0, <1>1, <2>1, IssueFits
<1>2. ASSUME NEW t \in PairOrNull, t # 0, Alive(t), Issue(session[t])
      PROVE  Numbered' /\ \A p : p = minted + 1 => Fits(p)'
  <2>1. session[t] \in Pair /\ session[t] <= minted
    BY <1>0, <1>2, SessionOfToken DEF Numbered, Pair, PairOrNull
  <2> QED BY <1>0, <1>2, <2>1, IssueFits
<1> QED BY <1>0, <1>1, <1>2 DEF Knows, Call

LEMMA BlocStepKeeps ==
  ASSUME SInv, IInv', OneByOne', CallStep(Bloc) \/ CallFails(Bloc) \/ AnswerLost(Bloc)
  PROVE  SInv'
<1>0. Busy(Bloc)
  BY DEF Busy, CallStep, CallFails, AnswerLost, ServeCall, ServeLogout, ServeLogin, LookupCheck,
     RotateCheck, Refused, SessionGone, ReadToken, LookupRefresh, RotateRefresh, RefuseRefresh,
     WriteToken, OnTokenRefreshed, DeleteToken, SignOut, StoreSession, SignIn, ParseFails, EndCall,
     EndCheck, EndLogin, EndLogout, Answered
<1>1. /\ call[Bloc] \in Call /\ BlocCall(call[Bloc]) /\ auth # "authenticated"
      /\ call[Bloc].kind # "api"
  BY <1>0, BusyBloc
<1>2. ASSUME NEW pc, GotoPC(Bloc, pc)
      PROVE  \E l : /\ Goto(Bloc, l) /\ l.pc = pc /\ l.kind = call[Bloc].kind
                    /\ l.pair = call[Bloc].pair
  BY <1>1, <1>2 DEF GotoPC, Call
<1>3. ASSUME NEW pc, Goto(Bloc, [call[Bloc] EXCEPT !.pc = pc, !.pair = minted + 1])
      PROVE  \E l : /\ Goto(Bloc, l) /\ l.pc = pc /\ l.kind = call[Bloc].kind
                    /\ l.pair = minted + 1
  <2> DEFINE k == [call[Bloc] EXCEPT !.pc = pc, !.pair = minted + 1]
  <2>1. k.pc = pc /\ k.kind = call[Bloc].kind /\ k.pair = minted + 1
    BY <1>1 DEF Call
  <2>2. Goto(Bloc, k)
    BY <1>3
  <2> HIDE DEF k
  <2> QED BY <2>1, <2>2
<1>4. ASSUME NEW pc \in {"own_rotate", "rotate", "read", "refresh", "catch", "signout", "signal",
                         "ok", "refused", "failed"},
             GotoPC(Bloc, pc), auth' # "authenticated", Numbered'
      PROVE  SInv'
  <2>1. PICK l : Goto(Bloc, l) /\ l.pc = pc /\ l.kind = call[Bloc].kind
    BY <1>2, <1>4
  <2>2. BlocCall(l)'
    BY <1>1, <1>4, <2>1 DEF BlocCall
  <2> QED BY <1>0, <1>4, <2>1, <2>2, BlocMoves
<1>5. UNCHANGED <<session, minted>> => Numbered'
  BY DEF SInv, Numbered
<1>6. CASE ServeLogin(Bloc) \/ RotateCheck(Bloc)
  <2>1. /\ Goto(Bloc, [call[Bloc] EXCEPT !.pc = "store", !.pair = minted + 1])
        /\ UNCHANGED auth /\ Numbered' /\ \A p : p = minted + 1 => Fits(p)'
    BY <1>0, <1>6, BlocIssue DEF ServeLogin, RotateCheck, client
  <2>2. PICK l : /\ Goto(Bloc, l) /\ l.pc = "store" /\ l.kind = call[Bloc].kind
                 /\ l.pair = minted + 1
    BY <1>3, <2>1
  <2>3. BlocCall(l)'
    BY <1>1, <2>1, <2>2 DEF BlocCall
  <2> QED BY <1>0, <1>1, <2>1, <2>2, <2>3, BlocMoves
<1>7. CASE RotateRefresh(Bloc)
  <2>1. /\ Goto(Bloc, [call[Bloc] EXCEPT !.pc = "write", !.pair = minted + 1])
        /\ UNCHANGED auth /\ Numbered'
    BY <1>0, <1>7, BlocIssue DEF RotateRefresh, client
  <2>2. PICK l : Goto(Bloc, l) /\ l.pc = "write" /\ l.kind = call[Bloc].kind
    BY <1>3, <2>1
  <2>3. BlocCall(l)'
    BY <1>1, <2>1, <2>2 DEF BlocCall
  <2> QED BY <1>0, <1>1, <2>1, <2>2, <2>3, BlocMoves
<1>8. CASE AnswerLost(Bloc)
  <2>1. PICK pc \in {"catch", "failed"} : GotoPC(Bloc, pc)
    BY <1>8 DEF AnswerLost, Failed
  <2>2. UNCHANGED auth /\ Numbered'
    BY <1>0, <1>8, BlocIssue DEF AnswerLost, client
  <2> QED BY <1>1, <1>4, <2>1, <2>2
<1>9. CASE StoreSession(Bloc)
  <2>1. /\ GotoPC(Bloc, "signin") /\ call[Bloc].pc = "store" /\ stored' = call[Bloc].pair
        /\ UNCHANGED <<session, current, minted, auth>>
    BY <1>9 DEF StoreSession, Stored, server
  <2>2. PICK l : /\ Goto(Bloc, l) /\ l.pc = "signin" /\ l.kind = call[Bloc].kind
                 /\ l.pair = call[Bloc].pair
    BY <1>2, <2>1
  <2>3. BlocCall(l)'
    BY <1>1, <2>1, <2>2 DEF BlocCall, Fits
  <2> QED BY <1>0, <1>1, <1>5, <2>1, <2>2, <2>3, BlocMoves
<1>10. CASE SignIn(Bloc)
  <2>1. /\ Goto(Bloc, NoCall) /\ call[Bloc].pc = "signin" /\ auth' = "authenticated"
        /\ access' = call[Bloc].pair /\ UNCHANGED <<session, current, minted, stored>>
    BY <1>10 DEF SignIn, End, server
  <2>2. stored = call[Bloc].pair /\ Fits(call[Bloc].pair) /\ call[Bloc].pair # 0
    BY <1>0, <1>1, <2>1, BusyBloc DEF BlocCall, Knows
  <2>3. call'[Bloc] = NoCall /\ \A d \in Calls : call'[d] = call[d] /\ call[d].pc = "idle"
    BY <1>0, <2>1, OthersStay, BlocIsIn, BlocAssumption, BusyBloc DEF SInv, IInv, Busy
  <2>4. OwnRequests'
    BY <2>3 DEF SInv, OwnRequests, ApiCall, BlocCall, NoCall
  <2>5. (\A d \in Calls : SignedInCall(call[d])') /\ StoreFollows' /\ session'[access'] # 0
    BY <2>1, <2>2, <2>3 DEF SignedInCall, StoreFollows, Fits
  <2>6. Numbered' /\ SignedOut' /\ SignedIn'
    BY <1>5, <2>1, <2>5 DEF SignedOut, SignedIn
  <2> QED BY <2>4, <2>6 DEF SInv
<1>11. ASSUME NEW l, Goto(Bloc, l), l.pc \in {"sent", "refresh"}, l.kind = call[Bloc].kind,
              UNCHANGED <<session, minted, auth>>
       PROVE  SInv'
  <2>1. BlocCall(l)'
    BY <1>1, <1>11 DEF BlocCall
  <2> QED BY <1>0, <1>1, <1>5, <1>11, <2>1, BlocMoves
<1>12. CASE OnTokenRefreshed(Bloc) \/ (ReadToken(Bloc) /\ stored # 0)
  <2>1. PICK l : /\ Goto(Bloc, l)
                 /\ l \in {[call[Bloc] EXCEPT !.pc = "sent", !.access = call[Bloc].pair, !.retry = TRUE],
                           [call[Bloc] EXCEPT !.pc = "refresh", !.token = stored]}
    BY <1>12 DEF OnTokenRefreshed, ReadToken
  <2>2. l.pc \in {"sent", "refresh"} /\ l.kind = call[Bloc].kind
    BY <1>1, <2>1 DEF Call
  <2>3. UNCHANGED <<session, minted, auth>>
    BY <1>12 DEF OnTokenRefreshed, ReadToken, server
  <2> QED BY <1>11, <2>1, <2>2, <2>3
<1>13. CASE EndCheck(Bloc) \/ EndLogin(Bloc) \/ EndLogout(Bloc)
  <2>1. Goto(Bloc, NoCall) /\ auth' # "authenticated" /\ UNCHANGED <<session, minted>>
    BY <1>13 DEF EndCheck, EndLogin, EndLogout, End, OnUnauthenticated, server
  <2>2. BlocCall(NoCall)'
    BY DEF BlocCall, NoCall
  <2> QED BY <1>0, <1>5, <2>1, <2>2, BlocMoves
<1>14. CASE \/ ServeLogout(Bloc) \/ LookupCheck(Bloc) \/ Refused(Bloc) \/ SessionGone(Bloc)
            \/ (ReadToken(Bloc) /\ stored = 0) \/ LookupRefresh(Bloc) \/ RefuseRefresh(Bloc)
            \/ WriteToken(Bloc) \/ DeleteToken(Bloc) \/ SignOut(Bloc) \/ ParseFails(Bloc)
            \/ CallFails(Bloc)
  <2>1. PICK pc \in {"own_rotate", "rotate", "read", "catch", "signout", "signal", "ok",
                     "refused", "failed"} : GotoPC(Bloc, pc)
    BY <1>14 DEF ServeLogout, LookupCheck, Refused, SessionGone, ReadToken, LookupRefresh,
       RefuseRefresh, WriteToken, DeleteToken, SignOut, ParseFails, CallFails, Failed, RefreshFailed
  <2>2. auth' # "authenticated" /\ UNCHANGED <<session, minted>>
    BY <1>1, <1>14 DEF ServeLogout, LookupCheck, Refused, SessionGone, ReadToken, LookupRefresh,
       RefuseRefresh, WriteToken, DeleteToken, SignOut, ParseFails, CallFails, OnUnauthenticated,
       server, client
  <2> QED BY <1>4, <1>5, <2>1, <2>2
<1>15. ~ServeCall(Bloc) /\ ~EndCall(Bloc)
  BY <1>1 DEF ServeCall, EndCall, Answered
<1> QED BY <1>6, <1>7, <1>8, <1>9, <1>10, <1>11, <1>12, <1>13, <1>14, <1>15 DEF CallStep

------------------------------------------------------------------------------
(* The environment, and the theorems                                       *)

LEMMA SessionsEndKeeps ==
  ASSUME SInv, IInv', OneByOne', NEW p \in Pair, ExpireAccess(p) \/ EndSession(p)
  PROVE  SInv'
<1>1. UNCHANGED <<session, minted, stored, access, auth, call>>
  BY DEF ExpireAccess, EndSession
<1>2. ASSUME NEW q, Fits(q), session[q] \in PairOrNull PROVE Fits(q)'
  BY <1>1, <1>2 DEF SInv, IInv, TypeOK, Fits, ExpireAccess, EndSession, Pair, PairOrNull
<1>3. \A q \in Pair : session[q] \in PairOrNull
  BY DEF SInv, IInv, TypeOK
<1>4. \A c \in Everyone : call[c].pair \in PairOrNull /\ Knows(call[c])
  BY DEF SInv, IInv, TypeOK, CallsKnow, Call
<1>5. \A q \in PairOrNull : q # 0 => q \in Pair
  BY DEF Pair, PairOrNull
<1>6. OwnRequests'
  <2>1. BlocCall(call[Bloc])'
    BY <1>1, <1>2, <1>3, <1>4, <1>5, BlocIsIn DEF SInv, OwnRequests, BlocCall, Knows
  <2> QED BY <1>1, <2>1 DEF SInv, OwnRequests, ApiCall
<1>7. SignedOut' /\ Numbered'
  BY <1>1 DEF SInv, SignedOut, SignedOutCall, Numbered
<1>8. SignedIn'
  <2> SUFFICES ASSUME auth = "authenticated"
               PROVE  session[access] # 0 /\ (\A d \in Calls : SignedInCall(call[d])') /\ StoreFollows'
    BY <1>1 DEF SignedIn
  <2>1. session[access] # 0 /\ (\A d \in Calls : SignedInCall(call[d])) /\ StoreFollows
    BY DEF SInv, SignedIn
  <2>2. \A d \in Calls : SignedInCall(call[d])'
    BY <1>1, <1>2, <1>3, <1>4, <1>5, <2>1, BlocIsIn DEF SignedInCall, Knows
  <2>3. stored \in PairOrNull
    BY DEF SInv, IInv, TypeOK
  <2>4. StoreFollows'
    BY <1>1, <1>2, <1>3, <1>5, <2>1, <2>3 DEF StoreFollows
  <2> QED BY <2>1, <2>2, <2>4
<1> QED BY <1>6, <1>7, <1>8 DEF SInv

LEMMA StartCallKeeps ==
  ASSUME SInv, IInv', OneByOne', NEW c \in Calls, StartCall(c)
  PROVE  SInv'
<1> DEFINE local == [NoCall EXCEPT !.pc = "sent", !.kind = "api", !.access = access, !.body = 0]
<1>1. local.pc = "sent" /\ local.kind = "api" /\ local.access = access
  BY DEF NoCall
<1>2. /\ Goto(c, local) /\ call[c].pc = "idle" /\ auth = "authenticated"
      /\ UNCHANGED <<session, current, minted, stored, access, auth>>
  BY DEF StartCall, Send, Busy, server, client
<1> HIDE DEF local
<1>3. c \in Everyone /\ Bloc \in Everyone /\ c # Bloc /\ \A d \in Calls : d \in Everyone
  BY BlocIsIn, BlocAssumption
<1>4. call'[c] = local /\ \A d \in Everyone \ {c} : call'[d] = call[d]
  BY <1>2, <1>3, OthersStay DEF SInv, IInv
<1>5. access # 0
  BY <1>2 DEF SInv, IInv, SignedInHasAccess
<1>6. OwnRequests'
  <2>1. \A d \in Calls : ApiCall(call'[d])
    BY <1>1, <1>3, <1>4, <1>5 DEF SInv, OwnRequests, ApiCall
  <2>2. call'[Bloc] = call[Bloc]
    BY <1>3, <1>4
  <2>3. BlocCall(call[Bloc])'
    BY <1>2, <2>2 DEF SInv, OwnRequests, BlocCall, Fits
  <2> QED BY <2>1, <2>3 DEF OwnRequests, ApiCall
<1>7. session[access] # 0 /\ (\A d \in Calls : SignedInCall(call[d])) /\ StoreFollows
  BY <1>2 DEF SInv, SignedIn
<1>8. \A d \in Calls : SignedInCall(call[d])'
  BY <1>1, <1>2, <1>3, <1>4, <1>7 DEF SignedInCall, Fits
<1>9. StoreFollows'
  BY <1>1, <1>2, <1>3, <1>4, <1>7 DEF StoreFollows, Leaving, Fits
<1>10. Numbered' /\ SignedOut' /\ SignedIn'
  BY <1>2, <1>7, <1>8, <1>9 DEF SInv, Numbered, SignedOut, SignedIn
<1> QED BY <1>6, <1>10 DEF SInv

LEMMA BlocStartsKeeps ==
  ASSUME SInv, IInv', OneByOne', CheckRequested \/ LoginRequested \/ LogoutRequested
  PROVE  SInv'
<1>1. auth' # "authenticated" /\ UNCHANGED <<session, current, minted, stored>>
  BY DEF CheckRequested, LoginRequested, LogoutRequested, server
<1>2. CASE UNCHANGED call
  <2>1. auth # "authenticated"
    <3>1. CASE CheckRequested
      BY <3>1 DEF CheckRequested
    <3>2. CASE LoginRequested
      BY <3>2 DEF LoginRequested
    <3>3. CASE LogoutRequested
      <4>1. call[Bloc].pc = "idle" /\ call'[Bloc].pc = "sent"
        <5>1. Goto(Bloc, [NoCall EXCEPT !.pc = "sent", !.kind = "logout", !.access = access, !.body = 0])
          BY <3>3 DEF LogoutRequested, Send
        <5>2. call'[Bloc] = [NoCall EXCEPT !.pc = "sent", !.kind = "logout", !.access = access, !.body = 0]
          BY <5>1, BlocIsIn, OthersStay DEF SInv, IInv
        <5> QED BY <3>3, <5>2 DEF LogoutRequested, Busy, NoCall
      <4> QED BY <1>2, <4>1
    <3> QED BY <3>1, <3>2, <3>3
  <2> QED BY <1>1, <1>2, <2>1
      DEF SInv, Numbered, OwnRequests, ApiCall, BlocCall, Fits, SignedOut, SignedOutCall, SignedIn
<1>3. CASE ~UNCHANGED call
  <2>1. PICK kind \in {"check", "login", "logout"}, body \in {0, stored} : Send(Bloc, kind, body)
    BY <1>3 DEF CheckRequested, LoginRequested, LogoutRequested
  <2>2. PICK l : Goto(Bloc, l) /\ l.pc = "sent" /\ l.kind = kind
    <3> DEFINE k == [NoCall EXCEPT !.pc = "sent", !.kind = kind, !.access = access, !.body = body]
    <3>1. k.pc = "sent" /\ k.kind = kind
      BY DEF NoCall
    <3>2. Goto(Bloc, k)
      BY <2>1 DEF Send
    <3> HIDE DEF k
    <3> QED BY <3>1, <3>2
  <2>3. call'[Bloc] = l /\ \A d \in Everyone \ {Bloc} : call'[d] = call[d]
    BY <2>2, BlocIsIn, OthersStay DEF SInv, IInv
  <2>4. Busy(Bloc)'
    BY <2>2, <2>3 DEF Busy
  <2>5. \A d \in Calls : call'[d] = call[d] /\ ~Busy(d)'
    BY <2>3, <2>4, BlocIsIn, BlocAssumption DEF OneByOne
  <2>6. OwnRequests'
    BY <1>1, <2>2, <2>3, <2>5 DEF SInv, OwnRequests, ApiCall, BlocCall
  <2>7. Numbered' /\ SignedOut' /\ SignedIn'
    BY <1>1, <2>5 DEF SInv, Numbered, SignedOut, SignedOutCall, SignedIn, Busy
  <2> QED BY <2>6, <2>7 DEF SInv
<1> QED BY <1>2, <1>3

LEMMA SInvInit == Init => SInv
<1> SUFFICES ASSUME Init PROVE SInv
  OBVIOUS
<1>1. \A c \in Everyone : call[c] = NoCall
  BY DEF Init
<1>2. Numbered
  BY BoundAssumption DEF Init, Numbered, Pair
<1>3. OneByOne
  BY <1>1 DEF OneByOne, Busy, NoCall
<1>4. OwnRequests /\ SignedOut /\ SignedIn
  BY <1>1, BlocIsIn DEF Init, OwnRequests, ApiCall, BlocCall, SignedOut, SignedOutCall, SignedIn, NoCall
<1> QED BY <1>2, <1>3, <1>4, IInvInit DEF SInv

LEMMA SInvNext == SInv /\ [Next /\ OneByOne']_vars => SInv'
<1> SUFFICES ASSUME SInv, [Next /\ OneByOne']_vars PROVE SInv'
  OBVIOUS
<1>1. CASE UNCHANGED vars
  <2>1. IInv'
    BY <1>1, IInvNext DEF SInv
  <2>2. OneByOne'
    BY <1>1 DEF SInv, vars, OneByOne, Busy, InInterceptor
  <2>3. Numbered' /\ OwnRequests'
    BY <1>1 DEF SInv, vars, Numbered, OwnRequests, ApiCall, BlocCall, Fits
  <2>4. SignedOut' /\ SignedIn'
    BY <1>1 DEF SInv, vars, SignedOut, SignedOutCall, SignedIn, SignedInCall, StoreFollows, Leaving, Fits
  <2> QED BY <2>1, <2>2, <2>3, <2>4 DEF SInv
<1>2. CASE Next /\ OneByOne'
  <2>1. IInv' /\ OneByOne'
    BY <1>2, IInvNext DEF SInv
  <2>2. CASE Environment
    BY <2>1, <2>2, SessionsEndKeeps, StartCallKeeps, BlocStartsKeeps DEF Environment
  <2>3. ASSUME NEW c \in Everyone, CallStep(c) \/ CallFails(c) \/ AnswerLost(c) PROVE SInv'
    BY <2>1, <2>3, ApiStepKeeps, BlocStepKeeps DEF Everyone
  <2>4. CASE Restart
    <3>1. UNCHANGED <<session, minted>> /\ auth' = "initial" /\ \A c \in Everyone : call'[c] = NoCall
      BY <2>4 DEF Restart, server
    <3>2. Numbered' /\ OwnRequests' /\ SignedOut' /\ SignedIn'
      BY <3>1, BlocIsIn
      DEF SInv, Numbered, OwnRequests, ApiCall, BlocCall, SignedOut, SignedOutCall, SignedIn, NoCall
    <3> QED BY <2>1, <3>2 DEF SInv
  <2> QED BY <1>2, <2>2, <2>3, <2>4 DEF Next, FaultlessNext
<1> QED BY <1>1, <1>2

(* ClientSession!SignedInCanRefresh: with one refresh at a time, no        *)
(* rotation, lost answer, failure or restart leaves a signed-in client at  *)
(* rest with a token that does not open its session, unless that has ended. *)
THEOREM RefreshStaysPossible == Spec => SignedInCanRefresh
<1>1. SInv => AtRestCanRefresh
  <2> SUFFICES ASSUME SInv, auth = "authenticated", \A c \in Everyone : ~Busy(c)
               PROVE  /\ stored # 0 /\ session[stored] = session[access]
                      /\ current[session[stored]] \in {0, stored}
    BY DEF AtRestCanRefresh
  <2>1. \A c \in Calls : ~Leaving(call[c]) /\ call[c].pc # "write"
    BY BlocIsIn DEF Busy, Leaving
  <2> QED BY <2>1 DEF SInv, SignedIn, StoreFollows, Fits
<1>2. SInv /\ OneByOne' /\ [Next]_vars => SInv'
  BY SInvNext
<1> QED BY <1>1, <1>2, SInvInit, PTL DEF Spec, SignedInCanRefresh

------------------------------------------------------------------------------
(* Sessions are stored one at a time                                       *)

(* Whatever the client could still present for a retry belongs to session  *)
(* s: what it has stored, the access token, and what the interceptor read  *)
(* or was answered; while a login is between its two writes, the access    *)
(* token is of no more use.                                                *)
CallIn(l, s, ses) ==
  /\ Retriable(l) /\ l.access # 0 => ses[l.access] = s
  /\ l.pc \in {"refresh", "rotate"} => ses[l.token] = s
  /\ l.pc \in {"write", "signal"} => ses[l.pair] = s
InSession(s) ==
  /\ stored # 0 => session[stored] = s
  /\ access # 0 /\ call[Bloc].pc # "signin" => session[access] = s
  /\ \A c \in Everyone : CallIn(call[c], s, session)

(* Only the bloc opens sessions, and it stores the one it was given; the   *)
(* requests that need a session carry a token.                             *)
Carries(l) == l.pc # "idle" /\ l.kind \in {"api", "logout"} => l.access # 0
ScreenCall(l) == l.kind = "api" /\ l.pc \notin {"own_rotate", "store", "signin"}
Opening(l, ses, token) ==
  /\ l.pc \in {"store", "signin"} => ses[l.pair] # 0
  /\ l.pc = "signin" => token \in {0, l.pair}

Owners ==
  /\ \A c \in Everyone : Carries(call[c])
  /\ \A c \in Calls : ScreenCall(call[c])
  /\ Opening(call[Bloc], session, stored)

AInv == IInv /\ Numbered /\ StoredAlone /\ Owners /\ \E s \in Nat \ {0} : InSession(s)

(* Issued pairs keep their session.                                        *)
Kept == \A p \in Pair : session[p] # 0 => session'[p] = session[p]

LEMMA AloneFacts ==
  ASSUME AInv, NEW c \in Everyone
  PROVE  /\ call[c] \in Call /\ Knows(call[c]) /\ Carries(call[c])
         /\ TypeOK /\ CallsKnow /\ Numbered /\ SignedInHasAccess
         /\ c # Bloc => ScreenCall(call[c])
         /\ Bloc \in Everyone /\ Opening(call[Bloc], session, stored)
BY BlocIsIn DEF AInv, IInv, TypeOK, CallsKnow, Owners, Everyone

(* What the step of one call has to show.                                  *)
LEMMA MovesIn ==
  ASSUME AInv, IInv', Numbered', StoredAlone', Kept, NEW c \in Everyone,
         NEW local, Goto(c, local), Carries(local),
         c # Bloc => ScreenCall(local), c = Bloc => Opening(local, session', stored'),
         c # Bloc => stored' \in {0, stored} \/ call[Bloc].pc # "signin",
         NEW s \in Nat \ {0}, InSession(s), CallIn(local, s, session'),
         stored' # 0 => session'[stored'] = s,
         access' # 0 /\ call'[Bloc].pc # "signin" => session'[access'] = s
  PROVE  AInv'
<1>0. TypeOK /\ Bloc \in Everyone /\ (\A d \in Calls : d \in Everyone /\ d # Bloc)
  BY AloneFacts, BlocIsIn, BlocAssumption
<1>1. call'[c] = local /\ \A d \in Everyone \ {c} : call'[d] = call[d]
  BY <1>0, OthersStay
<1>2. \A d \in Everyone : CallIn(call'[d], s, session')
  <2> SUFFICES ASSUME NEW d \in Everyone PROVE CallIn(call'[d], s, session')
    OBVIOUS
  <2>1. CASE d = c
    BY <1>1, <2>1 DEF CallIn, Retriable
  <2>2. CASE d # c
    <3> DEFINE l == call[d]
    <3>1. l \in Call /\ Knows(l) /\ CallIn(l, s, session)
      BY AloneFacts DEF InSession
    <3>2. call'[d] = l
      BY <1>1, <2>2
    <3>3. /\ Retriable(l) /\ l.access # 0 => session'[l.access] = s
          /\ l.pc \in {"refresh", "rotate"} => session'[l.token] = s
          /\ l.pc \in {"write", "signal"} => session'[l.pair] = s
      <4> HIDE DEF l
      <4>1. \A p \in PairOrNull : p # 0 => p \in Pair
        BY DEF Pair, PairOrNull
      <4>2. l.access \in PairOrNull /\ l.token \in PairOrNull /\ l.pair \in PairOrNull
        BY <3>1 DEF Call
      <4> QED BY <3>1, <4>1, <4>2 DEF Kept, Knows, CallIn
    <3> HIDE DEF l
    <3> QED BY <3>2, <3>3 DEF CallIn, Retriable
  <2> QED BY <2>1, <2>2
<1>3. InSession(s)'
  BY <1>2 DEF InSession
<1>4. \A d \in Everyone : Carries(call'[d])
  BY <1>1 DEF AInv, Owners
<1>5. \A d \in Calls : ScreenCall(call'[d])
  BY <1>0, <1>1 DEF AInv, Owners
<1>6. Opening(call'[Bloc], session', stored')
  <2>1. CASE c = Bloc
    BY <1>1, <2>1 DEF Opening
  <2>2. CASE c # Bloc
    <3>1. call'[Bloc] = call[Bloc] /\ Opening(call[Bloc], session, stored) /\ call[Bloc] \in Call /\ Knows(call[Bloc])
      BY <1>0, <1>1, <2>2, AloneFacts
    <3>2. call[Bloc].pc \in {"store", "signin"} => call[Bloc].pair \in Pair
      BY <3>1 DEF Call, Knows, Pair, PairOrNull
    <3> QED BY <2>2, <3>1, <3>2 DEF Opening, Kept
  <2> QED BY <2>1, <2>2
<1>7. Owners'
  BY <1>4, <1>5, <1>6 DEF Owners, Carries, ScreenCall
<1> QED BY <1>3, <1>7 DEF AInv

(* A step that issues nothing and writes nothing but null, of a call that  *)
(* comes to hold no more than it did.                                      *)
LEMMA NoMoreIn ==
  ASSUME AInv, IInv', StoredAlone', NEW c \in Everyone, NEW local, Goto(c, local),
         Carries(local), c # Bloc => ScreenCall(local), local.pc \notin {"store", "signin"},
         UNCHANGED <<session, minted>>, stored' \in {0, stored}, access' \in {0, access},
         c = Bloc => call[c].pc # "signin",
         \A s \in Nat \ {0} : CallIn(call[c], s, session) => CallIn(local, s, session)
  PROVE  AInv'
<1>0. TypeOK /\ Numbered
  BY AloneFacts
<1>1. PICK s \in Nat \ {0} : InSession(s)
  BY DEF AInv
<1>2. CallIn(local, s, session')
  <2>1. CallIn(local, s, session)
    BY <1>1 DEF InSession
  <2> QED BY <2>1 DEF CallIn, Retriable
<1>3. Numbered' /\ Kept
  BY <1>0 DEF Numbered, Kept
<1>4. c = Bloc => Opening(local, session', stored')
  BY DEF Opening
<1>5. call'[Bloc].pc # "signin" => call[Bloc].pc # "signin"
  BY <1>0, BlocIsIn, OthersStay
<1>6. /\ stored' # 0 => session'[stored'] = s
      /\ access' # 0 /\ call'[Bloc].pc # "signin" => session'[access'] = s
  BY <1>1, <1>5 DEF InSession
<1> QED BY <1>1, <1>2, <1>3, <1>4, <1>6, MovesIn

LEMMA PlaceIn ==
  ASSUME AInv, IInv', StoredAlone', NEW c \in Everyone,
         NEW pc \in {"own_rotate", "ok", "read", "rotate", "catch", "signout", "refused", "failed"},
         GotoPC(c, pc), call[c].pc \notin {"idle", "signin"},
         pc = "own_rotate" => c = Bloc,
         pc = "read" => Retriable(call[c]), pc = "rotate" => call[c].pc = "refresh",
         UNCHANGED <<session, minted>>, stored' \in {0, stored}, access' \in {0, access}
  PROVE  AInv'
<1> DEFINE local == [call[c] EXCEPT !.pc = pc]
<1>0. call[c] \in Call /\ Carries(call[c]) /\ (c # Bloc => ScreenCall(call[c]))
  BY AloneFacts
<1>1. /\ local.pc = pc /\ local.kind = call[c].kind /\ local.access = call[c].access
      /\ local.token = call[c].token /\ local.pair = call[c].pair
  BY <1>0 DEF Call
<1>2. Goto(c, local)
  BY DEF GotoPC
<1> HIDE DEF local
<1>3. Carries(local) /\ (c # Bloc => ScreenCall(local))
  BY <1>0, <1>1 DEF Carries, ScreenCall
<1>4. \A s \in Nat \ {0} : CallIn(call[c], s, session) => CallIn(local, s, session)
  BY <1>1 DEF CallIn, Retriable
<1> QED BY <1>1, <1>2, <1>3, <1>4, NoMoreIn

LEMMA EndIn ==
  ASSUME AInv, IInv', StoredAlone', NEW c \in Everyone, End(c), call[c].pc # "signin",
         UNCHANGED <<session, minted>>, stored' \in {0, stored}, access' \in {0, access}
  PROVE  AInv'
<1>1. Goto(c, NoCall)
  BY DEF End
<1>2. /\ Carries(NoCall) /\ ScreenCall(NoCall)
      /\ \A s \in Nat \ {0} : CallIn(NoCall, s, session)
  BY DEF NoCall, Carries, ScreenCall, CallIn, Retriable
<1>3. NoCall.pc \notin {"store", "signin"}
  BY DEF NoCall
<1> QED BY <1>1, <1>2, <1>3, NoMoreIn

(* The steps that issue no pair, bring no token and store none.            *)
LEMMA QuietStepsIn ==
  ASSUME AInv, IInv', StoredAlone', NEW c \in Everyone,
         \/ ServeCall(c) \/ ServeLogout(c) \/ LookupCheck(c) \/ Refused(c) \/ SessionGone(c)
         \/ LookupRefresh(c) \/ RefuseRefresh(c) \/ DeleteToken(c) \/ SignOut(c) \/ ParseFails(c)
         \/ EndCall(c) \/ EndCheck(c) \/ EndLogin(c) \/ EndLogout(c) \/ CallFails(c)
         \/ ReadToken(c) /\ stored = 0
  PROVE  AInv'
<1>0. call[c] \in Call /\ Knows(call[c]) /\ (c # Bloc => ScreenCall(call[c]))
  BY AloneFacts
<1>1. CASE ServeCall(c) \/ EndCall(c) \/ EndCheck(c) \/ EndLogin(c) \/ EndLogout(c)
  <2>1. /\ End(c) /\ call[c].pc # "signin" /\ UNCHANGED <<session, minted>>
        /\ stored' \in {0, stored} /\ access' \in {0, access}
    BY <1>1 DEF ServeCall, EndCall, EndCheck, EndLogin, EndLogout, Answered, OnUnauthenticated,
                server, client
  <2> QED BY <2>1, EndIn
<1>2. CASE LookupCheck(c)
  <2>1. c = Bloc
    BY <1>0, <1>2 DEF LookupCheck, Answered, ScreenCall
  <2> QED BY <1>2, <2>1, PlaceIn DEF LookupCheck, Answered, server, client
<1>3. CASE LookupRefresh(c)
  BY <1>3, PlaceIn DEF LookupRefresh, server, client
<1>4. CASE Refused(c)
  <2>1. PICK pc \in {"catch", "read"} : GotoPC(c, pc) /\ (pc = "read" => ~call[c].retry)
    BY <1>0, <1>4 DEF Refused, Call
  <2>2. call[c].pc = "sent" /\ UNCHANGED <<session, minted, stored, access>>
    BY <1>4 DEF Refused, Answered, server, client
  <2> QED BY <2>1, <2>2, PlaceIn DEF Retriable
<1>5. CASE SessionGone(c) \/ CallFails(c)
  <2>1. PICK pc \in {"catch", "failed"} : GotoPC(c, pc)
    BY <1>5 DEF SessionGone, CallFails, Failed
  <2>2. call[c].pc \notin {"idle", "signin"} /\ UNCHANGED <<session, minted, stored, access>>
    BY <1>5 DEF SessionGone, CallFails, Answered, server, client
  <2> QED BY <2>1, <2>2, PlaceIn
<1>6. CASE ServeLogout(c) \/ RefuseRefresh(c) \/ DeleteToken(c) \/ SignOut(c) \/ ParseFails(c)
           \/ (ReadToken(c) /\ stored = 0)
  <2>1. PICK pc \in {"ok", "catch", "signout", "refused", "failed"} : GotoPC(c, pc)
    BY <1>6 DEF ServeLogout, RefuseRefresh, RefreshFailed, DeleteToken, SignOut, ParseFails, ReadToken
  <2>2. /\ call[c].pc \notin {"idle", "signin"} /\ UNCHANGED <<session, minted>>
        /\ stored' \in {0, stored} /\ access' \in {0, access}
    BY <1>6 DEF ServeLogout, RefuseRefresh, DeleteToken, SignOut, ParseFails, ReadToken, Answered,
                OnUnauthenticated, server, client
  <2> QED BY <2>1, <2>2, PlaceIn
<1> QED BY <1>1, <1>2, <1>3, <1>4, <1>5, <1>6

(* The interceptor reads the stored token, writes the next one and tells   *)
(* main.dart: all three belong to the session of the request.              *)
LEMMA InterceptorIn ==
  ASSUME AInv, IInv', StoredAlone', NEW c \in Everyone,
         \/ ReadToken(c) /\ stored # 0
         \/ WriteToken(c)
         \/ OnTokenRefreshed(c)
  PROVE  AInv'
<1>0. /\ call[c] \in Call /\ Knows(call[c]) /\ Carries(call[c]) /\ TypeOK /\ Numbered
      /\ Bloc \in Everyone /\ (c # Bloc => ScreenCall(call[c]))
  BY AloneFacts
<1>1. PICK s \in Nat \ {0} : InSession(s)
  BY DEF AInv
<1>2. CallIn(call[c], s, session) /\ Retriable(call[c]) /\ call[c].pc # "signin"
  BY <1>1 DEF InSession, Retriable, ReadToken, WriteToken, OnTokenRefreshed
<1>3. UNCHANGED <<session, minted>>
  BY DEF ReadToken, WriteToken, OnTokenRefreshed, server
<1>4. Numbered' /\ Kept
  BY <1>0, <1>3 DEF Numbered, Kept
<1>5. c # Bloc => call[Bloc].pc # "signin"
  BY <1>2, BlocIsIn DEF AInv, StoredAlone, Everyone
<1>6. (stored # 0 => session[stored] = s) /\ (access # 0 => session[access] = s)
  BY <1>1, <1>2, <1>5 DEF InSession
<1>7. CASE ReadToken(c) /\ stored # 0
  <2> DEFINE local == [call[c] EXCEPT !.pc = "refresh", !.token = stored]
  <2>1. /\ local.pc = "refresh" /\ local.kind = call[c].kind /\ local.access = call[c].access
        /\ local.token = stored
    BY <1>0 DEF Call
  <2>2. Goto(c, local) /\ UNCHANGED <<stored, access>> /\ call[c].pc = "read" /\ stored # 0
    BY <1>7 DEF ReadToken
  <2> HIDE DEF local
  <2>3. Carries(local) /\ (c # Bloc => ScreenCall(local)) /\ Opening(local, session', stored')
    BY <1>0, <2>1, <2>2 DEF Carries, ScreenCall, Opening
  <2>4. CallIn(local, s, session')
    BY <1>2, <1>3, <1>6, <2>1, <2>2 DEF CallIn
  <2> QED BY <1>1, <1>3, <1>4, <1>6, <2>2, <2>3, <2>4, MovesIn
<1>8. CASE WriteToken(c)
  <2> DEFINE local == [call[c] EXCEPT !.pc = "signal"]
  <2>1. /\ local.pc = "signal" /\ local.kind = call[c].kind /\ local.access = call[c].access
        /\ local.pair = call[c].pair
    BY <1>0 DEF Call
  <2>2. Goto(c, local) /\ stored' = call[c].pair /\ UNCHANGED access /\ call[c].pc = "write"
    BY <1>8 DEF WriteToken, GotoPC, NewToken
  <2> HIDE DEF local
  <2>3. Carries(local) /\ (c # Bloc => ScreenCall(local)) /\ Opening(local, session', stored')
    BY <1>0, <2>1, <2>2 DEF Carries, ScreenCall, Opening
  <2>4. session[call[c].pair] = s
    BY <1>2, <2>2 DEF CallIn
  <2>5. CallIn(local, s, session')
    BY <1>2, <1>3, <2>1, <2>4 DEF CallIn
  <2> QED BY <1>1, <1>3, <1>4, <1>5, <1>6, <2>2, <2>3, <2>4, <2>5, MovesIn
<1>9. CASE OnTokenRefreshed(c)
  <2> DEFINE local == [call[c] EXCEPT !.pc = "sent", !.access = call[c].pair, !.retry = TRUE]
  <2>1. /\ local.pc = "sent" /\ local.kind = call[c].kind /\ local.access = call[c].pair
        /\ local.retry
    BY <1>0 DEF Call
  <2>2. Goto(c, local) /\ access' = call[c].pair /\ UNCHANGED stored /\ call[c].pc = "signal"
    BY <1>9 DEF OnTokenRefreshed
  <2> HIDE DEF local
  <2>3. Carries(local) /\ (c # Bloc => ScreenCall(local)) /\ Opening(local, session', stored')
    BY <1>0, <2>1, <2>2 DEF Carries, ScreenCall, Opening, Knows
  <2>4. session[call[c].pair] = s
    BY <1>2, <2>2 DEF CallIn
  <2>5. CallIn(local, s, session')
    BY <2>1 DEF CallIn, Retriable
  <2> QED BY <1>1, <1>3, <1>4, <1>6, <2>2, <2>3, <2>4, <2>5, MovesIn
<1> QED BY <1>7, <1>8, <1>9

(* The server issues a pair, for a new session or for that of a live       *)
(* token: no pair changes session.                                         *)
LEMMA IssueIn ==
  ASSUME TypeOK, Numbered,
         \/ Issue(minted + 1)
         \/ \E t \in PairOrNull : t # 0 /\ Alive(t) /\ Issue(session[t])
  PROVE  Numbered' /\ Kept /\ minted + 1 \in Pair /\ session'[minted + 1] # 0
<1>1. PICK s \in Pair : Issue(s) /\ (s <= minted \/ s = minted + 1)
  <2>1. CASE Issue(minted + 1)
    BY <2>1, NewPair DEF Issue
  <2>2. ASSUME NEW t \in PairOrNull, t # 0, Alive(t), Issue(session[t])
        PROVE  \E s \in Pair : Issue(s) /\ (s <= minted \/ s = minted + 1)
    <3>1. t \in Pair /\ session[t] \in Pair
      BY <2>2, SessionOfToken DEF Pair, PairOrNull
    <3> QED BY <2>2, <3>1 DEF Numbered
  <2> QED BY <2>1, <2>2
<1>2. minted + 1 \in Pair
  BY <1>1, NewPair DEF Issue
<1>3. Numbered' /\ Kept /\ session'[minted + 1] = s
  BY <1>1, <1>2, IssueFits DEF Kept
<1> QED BY <1>1, <1>2, <1>3 DEF Pair

LEMMA IssuingStepsIn ==
  ASSUME AInv, IInv', StoredAlone', NEW c \in Everyone,
         ServeLogin(c) \/ RotateCheck(c) \/ RotateRefresh(c) \/ AnswerLost(c)
  PROVE  AInv'
<1>0. /\ call[c] \in Call /\ Knows(call[c]) /\ Carries(call[c]) /\ TypeOK /\ Numbered
      /\ Bloc \in Everyone /\ (c # Bloc => ScreenCall(call[c])) /\ minted + 1 # 0
  BY AloneFacts, BoundAssumption DEF TypeOK, PairOrNull
<1>1. PICK s \in Nat \ {0} : InSession(s)
  BY DEF AInv
<1>2. /\ UNCHANGED <<stored, access>>
      /\ \/ Issue(minted + 1)
         \/ \E t \in PairOrNull : t # 0 /\ Alive(t) /\ Issue(session[t])
  BY <1>0 DEF ServeLogin, RotateCheck, RotateRefresh, AnswerLost, client, Knows, Call
<1>3. Numbered' /\ Kept /\ minted + 1 \in Pair /\ session'[minted + 1] # 0
  BY <1>0, <1>2, IssueIn
<1>4. \A p \in PairOrNull : p # 0 /\ session[p] = s => session'[p] = s
  BY <1>3 DEF Kept, Pair, PairOrNull
<1>5. CallIn(call[c], s, session) /\ call[c].access \in PairOrNull /\ call[c].token \in PairOrNull
  BY <1>0, <1>1 DEF InSession, Call
<1>6. (stored # 0 => session'[stored] = s)
      /\ (access # 0 /\ call[Bloc].pc # "signin" => session'[access] = s)
  BY <1>0, <1>1, <1>4 DEF InSession, TypeOK
<1>7. call[c].pc # "signin"
  BY DEF ServeLogin, RotateCheck, RotateRefresh, AnswerLost, Answered
<1>8. SUFFICES ASSUME NEW local, Goto(c, local), Carries(local), c # Bloc => ScreenCall(local),
                      c = Bloc => Opening(local, session', stored'), CallIn(local, s, session'), local.pc # "signin"
               PROVE  AInv'
  <2>1. CASE ServeLogin(c) \/ RotateCheck(c)
    <3> DEFINE l == [call[c] EXCEPT !.pc = "store", !.pair = minted + 1]
    <3>1. l.pc = "store" /\ l.kind = call[c].kind /\ l.access = call[c].access /\ l.pair = minted + 1
      BY <1>0 DEF Call
    <3>2. Goto(c, l) /\ c = Bloc /\ call[c].pc # "idle"
      BY <1>0, <2>1 DEF ServeLogin, RotateCheck, Answered, ScreenCall
    <3> HIDE DEF l
    <3>3. Carries(l) /\ Opening(l, session', stored') /\ CallIn(l, s, session')
      BY <1>0, <1>3, <3>1, <3>2 DEF Carries, Opening, CallIn, Retriable
    <3> QED BY <1>8, <3>1, <3>2, <3>3
  <2>2. CASE RotateRefresh(c)
    <3> DEFINE l == [call[c] EXCEPT !.pc = "write", !.pair = minted + 1]
    <3>1. l.pc = "write" /\ l.kind = call[c].kind /\ l.access = call[c].access /\ l.pair = minted + 1
      BY <1>0 DEF Call
    <3>2. Goto(c, l) /\ call[c].pc = "rotate" /\ Issue(session[call[c].token])
      BY <2>2 DEF RotateRefresh
    <3> HIDE DEF l
    <3>3. session[call[c].token] = s
      BY <1>5, <3>2 DEF CallIn
    <3>4. session'[minted + 1] = s
      BY <1>0, <1>3, <3>2, <3>3 DEF Issue, TypeOK
    <3>5. Retriable(call[c]) /\ (c # Bloc => ScreenCall(l)) /\ Carries(l) /\ Opening(l, session', stored')
      BY <1>0, <3>1, <3>2 DEF Retriable, ScreenCall, Carries, Opening
    <3>6. CallIn(l, s, session')
      BY <1>4, <1>5, <3>1, <3>4, <3>5 DEF CallIn
    <3> QED BY <1>8, <3>1, <3>2, <3>5, <3>6
  <2>3. CASE AnswerLost(c)
    <3>1. PICK pc \in {"catch", "failed"} : GotoPC(c, pc)
      BY <2>3 DEF AnswerLost, Failed
    <3> DEFINE l == [call[c] EXCEPT !.pc = pc]
    <3>2. l.pc = pc /\ l.kind = call[c].kind /\ l.access = call[c].access
      BY <1>0 DEF Call
    <3>3. Goto(c, l) /\ call[c].pc # "idle"
      BY <2>3, <3>1 DEF GotoPC, AnswerLost, Answered
    <3> HIDE DEF l
    <3>4. (c # Bloc => ScreenCall(l)) /\ Carries(l) /\ Opening(l, session', stored') /\ CallIn(l, s, session')
      BY <1>0, <3>2, <3>3 DEF ScreenCall, Carries, Opening, CallIn, Retriable
    <3> QED BY <1>8, <3>2, <3>3, <3>4
  <2> QED BY <2>1, <2>2, <2>3
<1>9. call'[Bloc].pc # "signin" => call[Bloc].pc # "signin"
  BY <1>0, <1>7, <1>8, OthersStay
<1> QED BY <1>1, <1>2, <1>3, <1>6, <1>8, <1>9, MovesIn

(* AuthRepositoryImpl stores the pair of a login or a cold start, AuthBloc *)
(* signs in with it: no request is left that could bring another session.  *)
LEMMA NewSessionIn ==
  ASSUME AInv, IInv', StoredAlone', NEW local, Goto(Bloc, local),
         UNCHANGED <<session, minted>>, \A d \in Calls : ~Retriable(call[d]),
         ~Retriable(local), Carries(local), NEW p \in Pair, session[p] # 0,
         stored' \in {0, p}, local.pc = "signin" => local.pair = p,
         local.pc = "signin" \/ access' = p, local.pc # "store"
  PROVE  AInv'
<1>0. /\ TypeOK /\ Numbered /\ Bloc \in Everyone
      /\ \A d \in Calls : d \in Everyone /\ d # Bloc
  BY AloneFacts, BlocIsIn, BlocAssumption
<1>1. call'[Bloc] = local /\ \A d \in Everyone \ {Bloc} : call'[d] = call[d]
  BY <1>0, OthersStay
<1>2. \A d \in Everyone : ~Retriable(call'[d])
  BY <1>1, BlocAssumption DEF Everyone
<1>3. \A d \in Everyone : CallIn(call'[d], session[p], session')
  BY <1>2 DEF CallIn, Retriable
<1>4. InSession(session[p])'
  BY <1>1, <1>3, BoundAssumption DEF InSession, Pair
<1>5. session[p] \in Nat \ {0}
  BY <1>0, BoundAssumption DEF TypeOK, PairOrNull
<1>6. \E s \in Nat \ {0} : InSession(s)'
  BY <1>4, <1>5
<1>7. Owners'
  BY <1>0, <1>1 DEF AInv, Owners, Opening, Carries, ScreenCall
<1>8. Numbered'
  BY <1>0 DEF Numbered
<1> QED BY <1>6, <1>7, <1>8 DEF AInv

LEMMA SignInStepsIn ==
  ASSUME AInv, IInv', StoredAlone', NEW c \in Everyone, StoreSession(c) \/ SignIn(c)
  PROVE  AInv'
<1>0. /\ call[c] \in Call /\ Knows(call[c]) /\ (c # Bloc => ScreenCall(call[c]))
      /\ Carries(call[c]) /\ TypeOK
      /\ Opening(call[Bloc], session, stored)
  BY AloneFacts
<1>1. c = Bloc
  BY <1>0 DEF StoreSession, SignIn, ScreenCall
<1>2. call[c].pair \in Pair /\ session[call[c].pair] # 0 /\ UNCHANGED <<session, minted>>
  BY <1>0, <1>1 DEF StoreSession, SignIn, Knows, Call, Opening, Pair, PairOrNull, server
<1>3. CASE StoreSession(c)
  <2> DEFINE local == [call[c] EXCEPT !.pc = "signin"]
  <2>1. /\ local.pc = "signin" /\ local.kind = call[c].kind /\ local.access = call[c].access
        /\ local.pair = call[c].pair
    BY <1>0 DEF Call
  <2>2. Goto(Bloc, local) /\ stored' = call[c].pair /\ call[c].pc = "store"
    BY <1>1, <1>3 DEF StoreSession, GotoPC, Stored
  <2> HIDE DEF local
  <2>3. ~Retriable(local) /\ Carries(local)
    BY <1>0, <2>1, <2>2 DEF Retriable, Carries
  <2>4. \A d \in Calls : ~Retriable(call[d])
    <3>1. call'[Bloc] = local /\ \A d \in Everyone \ {Bloc} : call'[d] = call[d]
      BY <1>0, <2>2, BlocIsIn, OthersStay
    <3>2. \A d \in Calls : ~Retriable(call'[d])
      BY <2>1, <3>1 DEF StoredAlone, Retriable
    <3> QED BY <3>1, <3>2, BlocIsIn, BlocAssumption
  <2> QED BY <1>2, <2>1, <2>2, <2>3, <2>4, NewSessionIn
<1>4. CASE SignIn(c)
  <2>1. /\ Goto(Bloc, NoCall) /\ UNCHANGED stored /\ access' = call[c].pair
        /\ call[c].pc = "signin"
    BY <1>1, <1>4 DEF SignIn, End
  <2>2. stored' \in {0, call[c].pair} /\ \A d \in Calls : ~Retriable(call[d])
    BY <1>0, <1>1, <2>1 DEF Opening, AInv, StoredAlone
  <2>3. ~Retriable(NoCall) /\ Carries(NoCall) /\ NoCall.pc = "idle"
    BY DEF NoCall, Retriable, Carries
  <2> QED BY <1>2, <2>1, <2>2, <2>3, NewSessionIn
<1> QED BY <1>3, <1>4

LEMMA CallStepIn ==
  ASSUME AInv, IInv', StoredAlone', NEW c \in Everyone,
         CallStep(c) \/ CallFails(c) \/ AnswerLost(c)
  PROVE  AInv'
<1>1. CASE ReadToken(c)
  BY <1>1, QuietStepsIn, InterceptorIn
<1>2. CASE ~ReadToken(c)
  BY <1>2, QuietStepsIn, InterceptorIn, IssuingStepsIn, SignInStepsIn DEF CallStep
<1> QED BY <1>1, <1>2

(* A request is sent with the access token of the moment.                  *)
LEMMA SendIn ==
  ASSUME AInv, IInv', StoredAlone', NEW c \in Everyone, ~Busy(c),
         NEW kind \in {"api", "check", "login", "logout"}, NEW body, Send(c, kind, body),
         c # Bloc => kind = "api" /\ call[Bloc].pc # "signin",
         kind \in {"api", "logout"} => access # 0,
         UNCHANGED <<session, minted, stored, access>>
  PROVE  AInv'
<1> DEFINE local == [NoCall EXCEPT !.pc = "sent", !.kind = kind, !.access = access, !.body = body]
<1>0. TypeOK /\ Numbered /\ Bloc \in Everyone
  BY AloneFacts
<1>1. local.pc = "sent" /\ local.kind = kind /\ local.access = access
  BY DEF NoCall
<1>2. Goto(c, local) /\ call[c].pc = "idle"
  BY DEF Send, Busy
<1> HIDE DEF local
<1>3. PICK s \in Nat \ {0} : InSession(s)
  BY DEF AInv
<1>4. call[Bloc].pc # "signin"
  BY <1>2
<1>5. Carries(local) /\ (c # Bloc => ScreenCall(local)) /\ Opening(local, session', stored')
  BY <1>1 DEF Carries, ScreenCall, Opening
<1>6. CallIn(local, s, session')
  BY <1>1, <1>3, <1>4 DEF CallIn, InSession
<1>7. Numbered' /\ Kept
  BY <1>0 DEF Numbered, Kept
<1>8. (stored' # 0 => session'[stored'] = s) /\ (access' # 0 => session'[access'] = s)
  BY <1>3, <1>4 DEF InSession
<1> QED BY <1>2, <1>3, <1>5, <1>6, <1>7, <1>8, MovesIn

(* Nothing has been asked of the bloc before its cold start.               *)
Fresh == auth = "initial" => ~Busy(Bloc)

LEMMA EnvironmentIn ==
  ASSUME AInv, Fresh, IInv', StoredAlone', Environment
  PROVE  AInv'
<1>0. TypeOK /\ SignedInHasAccess /\ Bloc \in Everyone /\ Numbered
  BY BlocIsIn, AloneFacts
<1>1. ASSUME UNCHANGED <<session, minted, stored, access, call>> PROVE AInv'
  <2>1. PICK s \in Nat \ {0} : InSession(s)
    BY DEF AInv
  <2>2. InSession(s)'
    BY <1>1, <2>1 DEF InSession
  <2>3. Numbered' /\ Owners'
    BY <1>1 DEF AInv, Numbered, Owners
  <2> QED BY <2>2, <2>3 DEF AInv
<1>2. ASSUME NEW c \in Calls, StartCall(c) PROVE AInv'
  <2>1. c \in Everyone /\ c # Bloc /\ ~Busy(c) /\ access # 0 /\ Send(c, "api", 0)
        /\ UNCHANGED <<session, minted, stored, access>>
    BY <1>0, <1>2, BlocIsIn, BlocAssumption DEF StartCall, SignedInHasAccess, server, client
  <2>2. call[Bloc].pc # "signin"
    <3> SUFFICES ASSUME call[Bloc].pc = "signin" PROVE FALSE
      OBVIOUS
    <3>1. call'[c].pc = "sent" /\ ~call'[c].retry /\ call'[Bloc] = call[Bloc]
      <4>1. Goto(c, [NoCall EXCEPT !.pc = "sent", !.kind = "api", !.access = access, !.body = 0])
        BY <2>1 DEF Send
      <4> DEFINE l == [NoCall EXCEPT !.pc = "sent", !.kind = "api", !.access = access, !.body = 0]
      <4>2. l.pc = "sent" /\ ~l.retry
        BY DEF NoCall
      <4>3. Goto(c, l)
        BY <4>1
      <4> HIDE DEF l
      <4>4. call'[c] = l /\ \A d \in Everyone \ {c} : call'[d] = call[d]
        BY <1>0, <2>1, <4>3, OthersStay
      <4> QED BY <1>0, <2>1, <4>2, <4>4
    <3> QED BY <1>2, <3>1 DEF StoredAlone, Retriable
  <2> QED BY <2>1, <2>2, SendIn
<1>3. CASE CheckRequested
  <2>1. CASE stored = 0
    BY <1>1, <1>3, <2>1 DEF CheckRequested, server
  <2>2. CASE stored # 0
    <3>1. ~Busy(Bloc) /\ Send(Bloc, "check", stored) /\ UNCHANGED <<session, minted, stored, access>>
      BY <1>3, <2>2 DEF CheckRequested, Fresh, server
    <3> QED BY <1>0, <3>1, SendIn
  <2> QED BY <2>1, <2>2
<1>4. CASE LoginRequested
  <2>1. ~Busy(Bloc) /\ Send(Bloc, "login", 0) /\ UNCHANGED <<session, minted, stored, access>>
    BY <1>4 DEF LoginRequested, server
  <2> QED BY <1>0, <2>1, SendIn
<1>5. CASE LogoutRequested
  <2>1. ~Busy(Bloc) /\ access # 0 /\ Send(Bloc, "logout", 0)
        /\ UNCHANGED <<session, minted, stored, access>>
    BY <1>0, <1>5 DEF LogoutRequested, SignedInHasAccess, server
  <2> QED BY <1>0, <2>1, SendIn
<1> QED BY <1>1, <1>2, <1>3, <1>4, <1>5 DEF Environment, ExpireAccess, EndSession

LEMMA FreshCall ==
  ASSUME TypeOK, Fresh, NEW c \in Everyone, CallStep(c) \/ CallFails(c) \/ AnswerLost(c)
  PROVE  Fresh'
<1>0. Bloc \in Everyone
  BY BlocIsIn
<1>1. Busy(c) /\ auth' \in {auth, "unauthenticated", "authenticated", "error"}
  <2>1. CASE CallStep(c)
    BY <2>1 DEF CallStep, ServeCall, ServeLogout, ServeLogin, LookupCheck, RotateCheck, Refused,
       SessionGone, ReadToken, LookupRefresh, RotateRefresh, RefuseRefresh, WriteToken,
       OnTokenRefreshed, DeleteToken, SignOut, StoreSession, SignIn, ParseFails, EndCall, EndCheck,
       EndLogin, EndLogout, Answered, Busy, OnUnauthenticated, client
  <2>2. CASE CallFails(c) \/ AnswerLost(c)
    BY <2>2 DEF CallFails, AnswerLost, Answered, Busy, client
  <2> QED BY <2>1, <2>2
<1>2. c # Bloc => call'[Bloc] = call[Bloc]
  <2>1. CASE CallStep(c)
    BY <1>0, <2>1 DEF TypeOK, CallStep, ServeCall, ServeLogout, ServeLogin, LookupCheck, RotateCheck,
       Refused, SessionGone, ReadToken, LookupRefresh, RotateRefresh, RefuseRefresh, RefreshFailed,
       WriteToken, OnTokenRefreshed, DeleteToken, SignOut, StoreSession, SignIn, ParseFails, EndCall,
       EndCheck, EndLogin, EndLogout, Failed, End, Goto, GotoPC
  <2>2. CASE CallFails(c) \/ AnswerLost(c)
    BY <1>0, <2>2 DEF TypeOK, CallFails, AnswerLost, Failed, Goto, GotoPC
  <2> QED BY <2>1, <2>2
<1> QED BY <1>1, <1>2 DEF Fresh, Busy

LEMMA FreshNext == TypeOK /\ Fresh /\ [Next]_vars => Fresh'
<1> SUFFICES ASSUME TypeOK, Fresh, [Next]_vars PROVE Fresh'
  OBVIOUS
<1>1. CASE Environment
  <2>1. CASE auth' # "initial"
    BY <2>1 DEF Fresh
  <2>2. CASE auth' = "initial"
    <3>1. UNCHANGED <<auth, call>>
      BY <1>1, <2>2 DEF Environment, ExpireAccess, EndSession, StartCall, CheckRequested,
                        LoginRequested, LogoutRequested, client
    <3> QED BY <3>1 DEF Fresh, Busy
  <2> QED BY <2>1, <2>2
<1>2. ASSUME NEW c \in Everyone, CallStep(c) \/ CallFails(c) \/ AnswerLost(c) PROVE Fresh'
  BY <1>2, FreshCall
<1>3. CASE Restart
  BY <1>3, BlocIsIn DEF Restart, Fresh, Busy, NoCall
<1>4. CASE UNCHANGED vars
  BY <1>4 DEF vars, Fresh, Busy
<1> QED BY <1>1, <1>2, <1>3, <1>4 DEF Next, FaultlessNext

LEMMA AInvInit == Init => AInv /\ Fresh
<1> SUFFICES ASSUME Init PROVE AInv /\ Fresh
  OBVIOUS
<1>1. \A c \in Everyone : call[c] = NoCall
  BY DEF Init
<1>2. Numbered
  BY BoundAssumption DEF Init, Numbered, Pair
<1>3. StoredAlone /\ Owners /\ InSession(1) /\ Fresh
  BY <1>1, BlocIsIn DEF Init, StoredAlone, Owners, Carries, ScreenCall, Opening, InSession, CallIn,
                        Retriable, NoCall, Fresh, Busy
<1> QED BY <1>2, <1>3, IInvInit DEF AInv

LEMMA AInvNext == AInv /\ Fresh /\ [Next /\ StoredAlone']_vars => AInv' /\ Fresh'
<1> SUFFICES ASSUME AInv, Fresh, [Next /\ StoredAlone']_vars PROVE AInv'
  BY FreshNext DEF AInv, IInv
<1>1. IInv'
  BY IInvNext DEF AInv
<1>2. CASE UNCHANGED vars
  <2>1. PICK s \in Nat \ {0} : InSession(s)
    BY DEF AInv
  <2>2. InSession(s)'
    BY <1>2, <2>1 DEF vars, InSession
  <2>3. Numbered' /\ Owners' /\ StoredAlone'
    BY <1>2 DEF vars, AInv, Numbered, Owners, StoredAlone
  <2> QED BY <1>1, <2>2, <2>3 DEF AInv
<1>3. CASE Next /\ StoredAlone'
  <2>1. CASE Environment
    BY <1>1, <1>3, <2>1, EnvironmentIn
  <2>2. ASSUME NEW c \in Everyone, CallStep(c) \/ CallFails(c) \/ AnswerLost(c) PROVE AInv'
    BY <1>1, <1>3, <2>2, CallStepIn
  <2>3. CASE Restart
    <3>0. TypeOK /\ Numbered
      BY DEF AInv, IInv
    <3>1. /\ UNCHANGED <<session, minted, stored>> /\ access' = 0
          /\ \A c \in Everyone : call'[c] = NoCall
      BY <2>3 DEF Restart, server
    <3>2. PICK s \in Nat \ {0} : InSession(s)
      BY DEF AInv
    <3>3. InSession(s)'
      BY <3>1, <3>2 DEF InSession, CallIn, Retriable, NoCall
    <3>4. Numbered' /\ Owners'
      BY <3>0, <3>1, BlocIsIn DEF Numbered, Owners, Carries, ScreenCall, Opening, NoCall
    <3> QED BY <1>1, <1>3, <3>3, <3>4 DEF AInv
  <2> QED BY <1>3, <2>1, <2>2, <2>3 DEF Next, FaultlessNext
<1> QED BY <1>2, <1>3

(* ClientSession!RetriedAsSender: whatever refreshes, sign-outs, lost      *)
(* answers and restarts overlap, a request is sent again in the session it *)
(* was sent in, if no other session is stored while it may still be.       *)
THEOREM RetriesKeepSession == Spec => RetriedAsSender
<1>1. AInv => SentAgainInSession
  <2> SUFFICES ASSUME AInv, NEW c \in Everyone, call[c].pc = "signal",
                      call[c].kind \in {"api", "logout"}
               PROVE  session[call[c].access] = session[call[c].pair]
    BY DEF SentAgainInSession
  <2>1. PICK s \in Nat \ {0} : InSession(s)
    BY DEF AInv
  <2>2. CallIn(call[c], s, session) /\ Carries(call[c])
    BY <2>1, AloneFacts DEF InSession
  <2> QED BY <2>2 DEF CallIn, Carries, Retriable
<1>2. AInv /\ Fresh /\ StoredAlone' /\ [Next]_vars => AInv' /\ Fresh'
  BY AInvNext
<1> QED BY <1>1, <1>2, AInvInit, PTL DEF Spec, RetriedAsSender

------------------------------------------------------------------------------
(* The server keeps the contract                                           *)

(* Pairs are numbered as they are issued, and a session has the number of  *)
(* its first pair.                                                         *)
OpenedBefore == \A p \in Pair : session[p] # 0 => session[session[p]] = session[p]
ServerInv == IInv /\ Numbered /\ OpenedBefore

Created == {s \in Pair : session[s] = s}

(* A login opens the session of its number, a rotation gives the next pair *)
(* to the session of the last.                                             *)
LEMMA IssueIsMint ==
  ASSUME ServerInv, NEW s \in Pair, Issue(s),
         s = minted + 1 \/ s \in Created
  PROVE  /\ Numbered' /\ OpenedBefore'
         /\ Contract!Mint(s)
         /\ Created' = Created \cup {s}
         /\ s = minted + 1 => s \notin Created
<1>0. TypeOK /\ Numbered /\ OpenedBefore
  BY DEF ServerInv, IInv
<1>1. minted + 1 \in Pair /\ minted \in Nat /\ minted < MaxPairs
  BY <1>0, NewPair, BoundAssumption DEF Issue, TypeOK, PairOrNull
<1>2. s <= minted \/ s = minted + 1
  BY <1>0 DEF Numbered, Created
<1>3. /\ Numbered'
      /\ session'[minted + 1] = s
      /\ \A p \in Pair : session[p] # 0 => session'[p] = session[p] /\ p # minted + 1
  BY <1>0, <1>2, IssueFits
<1>4. \A p \in Pair : p # minted + 1 => session'[p] = session[p]
  BY <1>0 DEF TypeOK, Issue
<1>5. \A p \in Pair : session[p] \in PairOrNull /\ (session[p] # 0 => session[p] \in Pair) /\ p # 0
  BY <1>0 DEF TypeOK, Pair, PairOrNull
<1>6. session'[s] = s
  BY <1>3, <1>5 DEF Created
<1>7. OpenedBefore'
  BY <1>0, <1>3, <1>4, <1>5, <1>6 DEF OpenedBefore
<1>8. s = minted + 1 => s \notin Created
  BY <1>1, <1>3, <1>5 DEF Created
<1>9. Created' = Created \cup {s}
  BY <1>1, <1>3, <1>4, <1>5, <1>6 DEF Created
<1>10. Contract!Mint(s)
  BY <1>1 DEF Issue, Contract!Mint
<1> QED BY <1>3, <1>7, <1>8, <1>9, <1>10

LEMMA LoginOpens ==
  ASSUME ServerInv, Issue(minted + 1)
  PROVE  Numbered' /\ OpenedBefore' /\ Contract!Next
<1>1. minted + 1 \in Pair
  BY NewPair DEF ServerInv, IInv, Issue
<1>2. Contract!Open(minted + 1)
  BY <1>1, IssueIsMint DEF Contract!Open, Created
<1>3. Numbered' /\ OpenedBefore'
  BY <1>1, IssueIsMint
<1>4. \E s \in Pair : Contract!Open(s)
  BY <1>1, <1>2 DEF Contract!Open, Contract!Mint
<1> QED BY <1>3, <1>4 DEF Contract!Next

LEMMA RefreshRotates ==
  ASSUME ServerInv, NEW t \in PairOrNull, t # 0, Alive(t), Issue(session[t])
  PROVE  Numbered' /\ OpenedBefore' /\ Contract!Next
<1> DEFINE s == session[t]
<1>1. s \in Pair /\ t \in Pair
  BY SessionOfToken DEF ServerInv, IInv, Pair, PairOrNull
<1>2. s \in Created /\ current[s] # 0
  BY <1>1 DEF ServerInv, OpenedBefore, Alive, Created
<1>3. Issue(s)
  OBVIOUS
<1> HIDE DEF s
<1>4. Contract!Rotate(s)
  BY <1>1, <1>2, <1>3, IssueIsMint DEF Contract!Rotate, Created
<1> QED BY <1>1, <1>2, <1>3, <1>4, IssueIsMint DEF Contract!Next

LEMMA SessionEnds ==
  ASSUME TypeOK, NEW s \in Pair, current' = [current EXCEPT ![s] = 0],
         UNCHANGED <<session, minted>>
  PROVE  Contract!Next
<1>1. current' = [p \in Pair |-> IF p \in {s} THEN 0 ELSE current[p]]
  BY DEF TypeOK
<1>2. {s} \in SUBSET Pair
  OBVIOUS
<1> QED BY <1>1, <1>2 DEF Contract!Next, Contract!End

LEMMA ServerStep ==
  ServerInv /\ [Next]_vars
    => Numbered' /\ OpenedBefore' /\ [Contract!Next]_<<Created, current, minted>>
<1> SUFFICES ASSUME ServerInv, [Next]_vars
             PROVE  Numbered' /\ OpenedBefore' /\ [Contract!Next]_<<Created, current, minted>>
  OBVIOUS
<1>0. TypeOK /\ Numbered /\ OpenedBefore
  BY DEF ServerInv, IInv
<1>1. UNCHANGED <<session, minted>> => Numbered' /\ OpenedBefore' /\ UNCHANGED <<Created, minted>>
  BY <1>0 DEF Numbered, OpenedBefore, Created
<1>2. CASE UNCHANGED <<session, minted, current>>
  BY <1>1, <1>2
<1>3. ASSUME NEW p \in Pair, EndSession(p)
      PROVE  Contract!Next /\ UNCHANGED <<session, minted>>
  BY <1>0, <1>3, SessionEnds DEF EndSession
<1>4. ASSUME NEW c \in Everyone, ServeLogout(c)
      PROVE  Contract!Next /\ UNCHANGED <<session, minted>>
  <2> DEFINE t == call[c].access
  <2>1. t \in PairOrNull /\ t # 0 /\ Alive(t)
    BY <1>0, <1>4 DEF ServeLogout, Authorized, TypeOK, Call
  <2>2. session[t] \in Pair
    BY <1>0, <2>1, SessionOfToken
  <2> QED BY <1>0, <1>4, <2>2, SessionEnds DEF ServeLogout
<1>5. ASSUME NEW c \in Everyone,
             \/ ServeLogin(c) \/ RotateCheck(c) \/ RotateRefresh(c) \/ AnswerLost(c)
      PROVE  Numbered' /\ OpenedBefore' /\ Contract!Next
  <2>1. call[c] \in Call /\ Knows(call[c])
    BY <1>0 DEF ServerInv, IInv, TypeOK, CallsKnow
  <2>2. /\ call[c].body \in PairOrNull /\ call[c].token \in PairOrNull
        /\ call[c].pc = "own_rotate" => call[c].body # 0
        /\ call[c].pc = "rotate" => call[c].token # 0
    BY <2>1 DEF Call, Knows
  <2>3. \/ Issue(minted + 1)
        \/ \E t \in PairOrNull : t # 0 /\ Alive(t) /\ Issue(session[t])
    BY <1>5, <2>2 DEF ServeLogin, RotateCheck, RotateRefresh, AnswerLost
  <2> QED BY <2>3, LoginOpens, RefreshRotates
<1>6. ASSUME NEW c \in Everyone, CallStep(c),
             ~ServeLogin(c), ~RotateCheck(c), ~RotateRefresh(c), ~ServeLogout(c)
      PROVE  UNCHANGED <<session, minted, current>>
  BY <1>6
  DEF CallStep, server, ServeCall, LookupCheck, Refused, SessionGone, ReadToken,
      LookupRefresh, RefuseRefresh, WriteToken, OnTokenRefreshed, DeleteToken, SignOut,
      StoreSession, SignIn, ParseFails, EndCall, EndCheck, EndLogin, EndLogout
<1>7. ASSUME NEW c \in Everyone, CallStep(c) \/ CallFails(c) \/ AnswerLost(c)
      PROVE  Numbered' /\ OpenedBefore' /\ [Contract!Next]_<<Created, current, minted>>
  <2>1. CallFails(c) => UNCHANGED <<session, minted, current>>
    BY DEF CallFails, server
  <2> QED BY <1>1, <1>2, <1>4, <1>5, <1>6, <1>7, <2>1
<1>8. CASE Environment
  <2>1. ASSUME NEW p \in Pair, ExpireAccess(p)
        PROVE  UNCHANGED <<session, minted, current>>
    BY <2>1 DEF ExpireAccess
  <2>2. \/ \E p \in Pair : ExpireAccess(p) \/ EndSession(p)
        \/ UNCHANGED <<session, minted, current>>
    BY <1>8 DEF Environment, StartCall, CheckRequested, LoginRequested, LogoutRequested, server
  <2> QED BY <1>1, <1>2, <1>3, <2>1, <2>2
<1>9. CASE Restart \/ UNCHANGED vars
  BY <1>2, <1>9 DEF Restart, server, vars
<1> QED BY <1>7, <1>8, <1>9 DEF Next, FaultlessNext

(* ClientSession!ServerKeepsContract: the reduced server opens, rotates    *)
(* and ends sessions as SessionContract says, whatever calls overlap and   *)
(* whichever answers are lost.                                             *)
THEOREM ServerImplementsContract == Spec => ServerKeepsContract
<1>1. Init => Contract!Init /\ Numbered /\ OpenedBefore
  <2> SUFFICES ASSUME Init
               PROVE  Contract!Init /\ Numbered /\ OpenedBefore
    OBVIOUS
  <2>1. \A p \in Pair : session[p] = 0 /\ p # 0
    BY DEF Init, Pair
  <2> QED BY <2>1 DEF Init, Contract!Init, Numbered, OpenedBefore
<1>2. IInv /\ Numbered /\ OpenedBefore /\ [Next]_vars
        => Numbered' /\ OpenedBefore' /\ [Contract!Next]_<<Created, current, minted>>
  BY ServerStep DEF ServerInv
<1> QED
  BY <1>1, <1>2, Invariance, PTL
  DEF Spec, ServerKeepsContract, Contract!Spec, Contract!contractVars, Created
==============================================================================
