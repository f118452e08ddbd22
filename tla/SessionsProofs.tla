--------------------------- MODULE SessionsProofs ---------------------------
(***************************************************************************)
(* Proofs about Sessions, for any number of users, session ids and         *)
(* concurrent requests, and any bounds.                                    *)
(***************************************************************************)
EXTENDS Sessions, TLAPS

------------------------------------------------------------------------------
(* Type correctness                                                        *)

LEMMA IdleTyped == IdleRequest \in Request
BY DEF IdleRequest, Request, RequestPC

LEMMA TypeInit == Init => TypeOK
BY IdleTyped, BoundsAssumption DEF Init, TypeOK

LEMMA TypeArrive ==
  ASSUME TypeOK, NEW p \in Requests, Arrive(p)
  PROVE  TypeOK'
<1>1. ASSUME NEW u \in Users, CreateUser(p, u) \/ Login(p, u)
      PROVE  TypeOK'
  <2>1. [IdleRequest EXCEPT !.pc = "issue", !.user = u] \in Request
    BY IdleTyped DEF Request, RequestPC
  <2>2. req' \in [Requests -> Request]
    BY <1>1, <2>1 DEF CreateUser, Login, Goto, TypeOK
  <2>3. account' \in [Users -> {"absent", "active", "suspended"}]
    BY <1>1 DEF CreateUser, Login, TypeOK
  <2> QED BY <1>1, <2>2, <2>3 DEF CreateUser, Login, TypeOK
<1>2. ASSUME NEW t \in Token, GetSessionByHash(p, t)
      PROVE  TypeOK'
  <2>1. PICK s \in Sids :
          /\ Exists(s)
          /\ Goto(p, [IdleRequest EXCEPT !.pc = "expiry", !.user = sessions[s].user,
                        !.sid = s, !.from = t, !.expires = sessions[s].expires])
    BY <1>2 DEF GetSessionByHash
  <2>2. sessions[s] \in Session /\ t \in Nat
    BY <2>1 DEF TypeOK, Exists, Token
  <2>3. [IdleRequest EXCEPT !.pc = "expiry", !.user = sessions[s].user,
           !.sid = s, !.from = t, !.expires = sessions[s].expires] \in Request
    BY <2>2, IdleTyped DEF Request, RequestPC, Session
  <2>4. req' \in [Requests -> Request]
    BY <2>1, <2>3 DEF Goto, TypeOK
  <2> QED BY <1>2, <2>4 DEF GetSessionByHash, TypeOK
<1>3. ASSUME NEW a \in held, SuspendSelf(p, a)
      PROVE  TypeOK'
  <2>1. a.user \in Users
    BY DEF TypeOK, Pair
  <2>2. [IdleRequest EXCEPT !.pc = "revoke", !.user = a.user] \in Request
    BY <2>1, IdleTyped DEF Request, RequestPC
  <2>3. req' \in [Requests -> Request]
    BY <1>3, <2>2 DEF SuspendSelf, Goto, TypeOK
  <2>4. account' \in [Users -> {"absent", "active", "suspended"}]
    BY <1>3 DEF SuspendSelf, TypeOK
  <2> QED BY <1>3, <2>3, <2>4 DEF SuspendSelf, TypeOK
<1> QED BY <1>1, <1>2, <1>3 DEF Arrive

(* What a request that is past its first statement knows.                  *)
Knows(p) ==
  /\ req[p].pc # "idle" => req[p].user \in Users
  /\ Refreshing(p) => /\ req[p].sid \in created
                      /\ req[p].from \in 1..minted
                      /\ Exists(req[p].sid) => sessions[req[p].sid].user = req[p].user
  /\ req[p].pc = "reply" => req[p].pair \in Pair
RequestOK == \A p \in Requests : Knows(p)

(* Rows have generated ids and generated tokens.                           *)
RowsOK ==
  /\ \A s \in Sids : Exists(s) => s \in created /\ sessions[s].hash <= minted
  /\ \A a \in Issued : a \in Pair /\ a.token <= minted

LEMMA TypeProceed ==
  ASSUME TypeOK, RequestOK, NEW p \in Requests, Proceed(p)
  PROVE  TypeOK'
<1>0. req[p] \in Request
  BY DEF TypeOK
<1>1. ASSUME Done(p)
      PROVE  req' \in [Requests -> Request]
  BY <1>1, IdleTyped DEF Done, Goto, TypeOK
<1>2. CASE CreateSession(p)
  <2>1. PICK s \in Sids :
          /\ created' = created \cup {s}
          /\ sessions' = [sessions EXCEPT ![s] =
               [user |-> req[p].user, hash |-> minted + 1, expires |-> clock + TTL]]
          /\ Goto(p, [req[p] EXCEPT !.pc = "reply", !.pair =
               [user |-> req[p].user, sid |-> s, exp |-> clock + AccessTTL,
                token |-> minted + 1, from |-> 0]])
    BY <1>2 DEF CreateSession
  <2>2. req[p].user \in Users /\ minted + 1 \in Token /\ clock + TTL \in Nat
        /\ clock + AccessTTL \in Nat
    BY <1>2, LifetimeAssumption, BoundsAssumption DEF CreateSession, RequestOK, Knows, TypeOK, Token
  <2> DEFINE row == [user |-> req[p].user, hash |-> minted + 1, expires |-> clock + TTL]
             pair == [user |-> req[p].user, sid |-> s, exp |-> clock + AccessTTL,
                      token |-> minted + 1, from |-> 0]
  <2>3. row \in Session /\ pair \in Pair
    BY <2>2 DEF Session, Pair
  <2>4. sessions' = [sessions EXCEPT ![s] = row]
        /\ Goto(p, [req[p] EXCEPT !.pc = "reply", !.pair = pair])
    BY <2>1
  <2> HIDE DEF row, pair
  <2>5. [req[p] EXCEPT !.pc = "reply", !.pair = pair] \in Request
    BY <1>0, <2>3 DEF Request, RequestPC
  <2>6. req' \in [Requests -> Request] /\ sessions' \in [Sids -> Session \cup {None}]
    BY <2>3, <2>4, <2>5 DEF Goto, TypeOK
  <2>7. minted' \in 0..MaxTokens /\ created' \in SUBSET Sids
    BY <1>2, <2>1, BoundsAssumption DEF CreateSession, TypeOK
  <2> QED BY <1>2, <2>6, <2>7 DEF CreateSession, TypeOK
<1>3. CASE CheckExpiry(p)
  <2>1. [req[p] EXCEPT !.pc = "suspension"] \in Request
    BY <1>0 DEF Request, RequestPC
  <2>2. req' \in [Requests -> Request]
    BY <1>1, <1>3, <2>1 DEF CheckExpiry, Goto, TypeOK
  <2> QED BY <1>3, <2>2 DEF CheckExpiry, TypeOK
<1>4. CASE CheckSuspension(p)
  <2>1. [req[p] EXCEPT !.pc = "rotate"] \in Request
    BY <1>0 DEF Request, RequestPC
  <2>2. req' \in [Requests -> Request]
    BY <1>1, <1>4, <2>1 DEF CheckSuspension, Goto, TypeOK
  <2> QED BY <1>4, <2>2 DEF CheckSuspension, TypeOK
<1>5. CASE RotateSession(p)
  <2>1. CASE Rotated(p) = {}
    BY <1>1, <1>5, <2>1 DEF RotateSession, TypeOK
  <2>2. CASE Rotated(p) # {}
    <3> DEFINE pair == [user |-> req[p].user, sid |-> req[p].sid, exp |-> clock + AccessTTL,
                        token |-> minted + 1, from |-> req[p].from]
    <3>1. /\ minted < MaxTokens
          /\ minted' = minted + 1
          /\ sessions' = [s \in Sids |->
               IF s \in Rotated(p)
               THEN [sessions[s] EXCEPT !.hash = minted + 1, !.expires = clock + TTL]
               ELSE sessions[s]]
          /\ Goto(p, [req[p] EXCEPT !.pc = "reply", !.pair = pair])
      BY <1>5, <2>2 DEF RotateSession
    <3>0. minted < MaxTokens /\ minted' = minted + 1
      BY <3>1
    <3>a. req[p].user \in Users /\ req[p].sid \in Sids /\ req[p].from \in Nat
      <4>1. Refreshing(p) /\ req[p].pc # "idle"
        BY <1>5 DEF RotateSession, Refreshing
      <4> QED BY <4>1 DEF RequestOK, Knows, TypeOK
    <3>b. minted + 1 \in Token /\ minted + 1 \in 0..MaxTokens
          /\ clock + TTL \in Nat /\ clock + AccessTTL \in Nat
      BY <3>0, LifetimeAssumption, BoundsAssumption DEF TypeOK, Token
    <3>2. /\ req[p].user \in Users /\ req[p].sid \in Sids /\ req[p].from \in Nat
          /\ minted + 1 \in Token /\ clock + TTL \in Nat /\ clock + AccessTTL \in Nat
      BY <3>a, <3>b
    <3>3. pair \in Pair
      BY <3>2 DEF Pair
    <3> HIDE DEF pair
    <3>4. [req[p] EXCEPT !.pc = "reply", !.pair = pair] \in Request
      BY <1>0, <3>3 DEF Request, RequestPC
    <3>5. req' \in [Requests -> Request]
      BY <3>1, <3>4 DEF Goto, TypeOK
    <3>6. ASSUME NEW s \in Sids, s \in Rotated(p)
          PROVE  [sessions[s] EXCEPT !.hash = minted + 1, !.expires = clock + TTL] \in Session
      <4>1. sessions[s] \in Session
        BY <3>6 DEF Rotated, Exists, TypeOK
      <4> QED BY <3>2, <4>1 DEF Session
    <3>7. sessions' \in [Sids -> Session \cup {None}]
      BY <3>1, <3>6 DEF TypeOK
    <3>8. minted' \in 0..MaxTokens
      BY <3>0, <3>b
    <3> QED BY <1>5, <3>5, <3>7, <3>8 DEF RotateSession, TypeOK
  <2> QED BY <2>1, <2>2
<1>6. CASE DeleteAllUserSessions(p)
  BY <1>1, <1>6 DEF DeleteAllUserSessions, TypeOK
<1>7. CASE Reply(p)
  BY <1>1, <1>7 DEF Reply, Answered, RequestOK, Knows, TypeOK
<1>8. CASE Abort(p)
  BY <1>1, <1>8 DEF Abort, TypeOK
<1> QED BY <1>2, <1>3, <1>4, <1>5, <1>6, <1>7, <1>8 DEF Proceed

------------------------------------------------------------------------------
(* What a step does to the table                                           *)

(* Rows go away, and no token is issued.                                   *)
Shrinks ==
  /\ UNCHANGED <<minted, created>>
  /\ \A s \in Sids : sessions'[s] \in {sessions[s], None}
  /\ Issued' \subseteq Issued

(* A new token becomes the token of one session and goes into one pair.    *)
Renews(s, a) ==
  /\ a.sid = s /\ a.token = minted + 1 /\ minted' = minted + 1
  /\ \A r \in Sids : r # s => sessions'[r] = sessions[r]
  /\ sessions'[s] \in Session
  /\ sessions'[s].hash = a.token /\ sessions'[s].user = a.user
  /\ Issued' \subseteq Issued \cup {a}

Creates(s, a) ==
  /\ s \notin created
  /\ created' = created \cup {s}
  /\ a.from = 0

Rotates(s, a) ==
  /\ s \in created /\ Exists(s) /\ sessions[s].user = a.user
  /\ UNCHANGED created
  /\ \E p \in Requests :
       /\ req[p].pc = "rotate" /\ req[p].sid = s /\ req[p].from = a.from
       /\ req'[p].pc = "reply"

TableStep ==
  \/ Shrinks
  \/ \E s \in Sids, a \in Pair : Renews(s, a) /\ (Creates(s, a) \/ Rotates(s, a))

(* A request ends or moves on without an answer: no pair is issued.        *)
LEMMA NotIssued ==
  ASSUME TypeOK, NEW p \in Requests, NEW local, Goto(p, local), local.pc # "reply",
         UNCHANGED held
  PROVE  Issued' \subseteq Issued
<1>1. \A q \in Requests : req'[q] = IF q = p THEN local ELSE req[q]
  BY DEF Goto, TypeOK
<1> QED BY <1>1 DEF Issued

LEMMA DoneNotIssued ==
  ASSUME TypeOK, NEW p \in Requests, Done(p), UNCHANGED held
  PROVE  Issued' \subseteq Issued
<1>1. IdleRequest.pc # "reply"
  BY DEF IdleRequest
<1> QED BY <1>1, NotIssued DEF Done

LEMMA OneIssued ==
  ASSUME TypeOK, NEW p \in Requests, NEW local, Goto(p, local), UNCHANGED held
  PROVE  Issued' \subseteq Issued \cup {local.pair}
<1>1. \A q \in Requests : req'[q] = IF q = p THEN local ELSE req[q]
  BY DEF Goto, TypeOK
<1> QED BY <1>1 DEF Issued

LEMMA CreateTable ==
  ASSUME TypeOK, RequestOK, NEW p \in Requests, CreateSession(p)
  PROVE  TableStep
<1>0. req[p] \in Request /\ req[p].user \in Users
  BY DEF TypeOK, RequestOK, Knows, CreateSession
<1>1. minted + 1 \in Token /\ clock + TTL \in Nat /\ clock + AccessTTL \in Nat
      /\ minted' = minted + 1
  BY LifetimeAssumption, BoundsAssumption DEF CreateSession, TypeOK, Token
<1>2. PICK s \in Sids :
        /\ s \notin created
        /\ created' = created \cup {s}
        /\ sessions' = [sessions EXCEPT ![s] =
             [user |-> req[p].user, hash |-> minted + 1, expires |-> clock + TTL]]
        /\ Goto(p, [req[p] EXCEPT !.pc = "reply", !.pair =
             [user |-> req[p].user, sid |-> s, exp |-> clock + AccessTTL,
              token |-> minted + 1, from |-> 0]])
  BY DEF CreateSession, FreshSid
<1> DEFINE row == [user |-> req[p].user, hash |-> minted + 1, expires |-> clock + TTL]
           a == [user |-> req[p].user, sid |-> s, exp |-> clock + AccessTTL,
                 token |-> minted + 1, from |-> 0]
           local == [req[p] EXCEPT !.pc = "reply", !.pair = a]
<1>3. row \in Session /\ row.hash = a.token /\ row.user = a.user
  BY <1>0, <1>1 DEF Session
<1>4. a \in Pair /\ a.sid = s /\ a.token = minted + 1 /\ a.from = 0
  BY <1>0, <1>1 DEF Pair
<1>5. sessions' = [sessions EXCEPT ![s] = row] /\ Goto(p, local)
  BY <1>2
<1> HIDE DEF row, a
<1>6. local.pair = a
  BY <1>0 DEF Request
<1> HIDE DEF local
<1>7. Issued' \subseteq Issued \cup {a}
  BY <1>5, <1>6, OneIssued DEF CreateSession
<1>8. Renews(s, a)
  BY <1>1, <1>3, <1>4, <1>5, <1>7 DEF Renews, TypeOK
<1>9. Creates(s, a)
  BY <1>2, <1>4 DEF Creates
<1> QED BY <1>4, <1>8, <1>9 DEF TableStep

LEMMA RotateTable ==
  ASSUME TypeOK, RequestOK, NEW p \in Requests, RotateSession(p)
  PROVE  TableStep
<1>0. /\ req[p] \in Request /\ req[p].user \in Users /\ req[p].sid \in created
      /\ req[p].sid \in Sids /\ req[p].from \in Nat
      /\ Exists(req[p].sid) => sessions[req[p].sid].user = req[p].user
  <2>1. Refreshing(p) /\ req[p].pc # "idle"
    BY DEF RotateSession, Refreshing
  <2> QED BY <2>1 DEF TypeOK, RequestOK, Knows
<1>1. CASE Rotated(p) = {}
  <2>1. UNCHANGED <<sessions, minted, created, held>> /\ Done(p)
    BY <1>1 DEF RotateSession
  <2> QED BY <2>1, DoneNotIssued DEF TableStep, Shrinks
<1>2. CASE Rotated(p) # {}
  <2> DEFINE s == req[p].sid
             a == [user |-> req[p].user, sid |-> req[p].sid, exp |-> clock + AccessTTL,
                   token |-> minted + 1, from |-> req[p].from]
             row == [sessions[s] EXCEPT !.hash = minted + 1, !.expires = clock + TTL]
             local == [req[p] EXCEPT !.pc = "reply", !.pair = a]
  <2>1. /\ minted < MaxTokens /\ minted' = minted + 1
        /\ sessions' = [r \in Sids |->
             IF r \in Rotated(p)
             THEN [sessions[r] EXCEPT !.hash = minted + 1, !.expires = clock + TTL]
             ELSE sessions[r]]
        /\ Goto(p, local)
        /\ UNCHANGED <<created, held>>
    BY <1>2 DEF RotateSession
  <2>2. Rotated(p) = {s} /\ Exists(s) /\ sessions[s] \in Session
    BY <1>0, <1>2 DEF Rotated, Exists, TypeOK
  <2>3. minted + 1 \in Token /\ clock + TTL \in Nat /\ clock + AccessTTL \in Nat
    <3>1. minted < MaxTokens
      BY <2>1
    <3> QED BY <3>1, LifetimeAssumption, BoundsAssumption DEF TypeOK, Token
  <2>4. row \in Session /\ row.hash = minted + 1 /\ row.user = sessions[s].user
    BY <2>2, <2>3 DEF Session
  <2>5. /\ a \in Pair /\ a.sid = s /\ a.token = minted + 1 /\ a.user = req[p].user
        /\ a.from = req[p].from
    BY <1>0, <2>3 DEF Pair
  <2>6. local.pair = a /\ local.pc = "reply"
    BY <1>0 DEF Request
  <2>7. sessions'[s] = row /\ \A r \in Sids : r # s => sessions'[r] = sessions[r]
    BY <1>0, <2>1, <2>2
  <2>8. Goto(p, local) /\ minted' = minted + 1 /\ UNCHANGED <<created, held>>
    BY <2>1
  <2> HIDE DEF row, a, local
  <2>9. Issued' \subseteq Issued \cup {a}
    BY <2>6, <2>8, OneIssued
  <2>10. Renews(s, a)
    BY <1>0, <2>2, <2>4, <2>5, <2>7, <2>8, <2>9 DEF Renews
  <2>11. req'[p].pc = "reply"
    BY <2>6, <2>8 DEF Goto, TypeOK
  <2>12. Rotates(s, a)
    BY <1>0, <2>2, <2>5, <2>8, <2>11 DEF Rotates, RotateSession
  <2> QED BY <1>0, <2>5, <2>10, <2>12 DEF TableStep
<1> QED BY <1>1, <1>2

(* Every step of a request changes its own record only; the ones that do   *)
(* not answer leave the tokens alone.                                      *)
LEMMA LookupTable ==
  ASSUME TypeOK, NEW p \in Requests, Arrive(p)
  PROVE  Shrinks
<1>1. UNCHANGED <<sessions, minted, created, held>>
  BY DEF Arrive, CreateUser, Login, GetSessionByHash, SuspendSelf
<1>2. Issued' \subseteq Issued
  <2>1. ASSUME NEW u \in Users, CreateUser(p, u) \/ Login(p, u)
        PROVE  Issued' \subseteq Issued
    <3>1. [IdleRequest EXCEPT !.pc = "issue", !.user = u].pc # "reply"
      BY DEF IdleRequest
    <3> QED BY <1>1, <2>1, <3>1, NotIssued DEF CreateUser, Login
  <2>2. ASSUME NEW t \in Token, GetSessionByHash(p, t)
        PROVE  Issued' \subseteq Issued
    <3>1. PICK s \in Sids :
            Goto(p, [IdleRequest EXCEPT !.pc = "expiry", !.user = sessions[s].user,
                       !.sid = s, !.from = t, !.expires = sessions[s].expires])
      BY <2>2 DEF GetSessionByHash
    <3>2. [IdleRequest EXCEPT !.pc = "expiry", !.user = sessions[s].user,
             !.sid = s, !.from = t, !.expires = sessions[s].expires].pc # "reply"
      BY DEF IdleRequest
    <3> QED BY <1>1, <3>1, <3>2, NotIssued
  <2>3. ASSUME NEW a \in held, SuspendSelf(p, a)
        PROVE  Issued' \subseteq Issued
    <3>1. [IdleRequest EXCEPT !.pc = "revoke", !.user = a.user].pc # "reply"
      BY DEF IdleRequest
    <3> QED BY <1>1, <2>3, <3>1, NotIssued DEF SuspendSelf
  <2> QED BY <2>1, <2>2, <2>3 DEF Arrive
<1> QED BY <1>1, <1>2 DEF Shrinks

LEMMA ProceedTable ==
  ASSUME TypeOK, RequestOK, NEW p \in Requests, Proceed(p)
  PROVE  TableStep
<1>0. req[p] \in Request
  BY DEF TypeOK
<1>1. CASE CreateSession(p)
  BY <1>1, CreateTable
<1>2. CASE RotateSession(p)
  BY <1>2, RotateTable
<1>3. CASE CheckExpiry(p)
  <2>1. [req[p] EXCEPT !.pc = "suspension"].pc # "reply"
    BY <1>0 DEF Request
  <2>2. Issued' \subseteq Issued
    BY <1>3, <2>1, NotIssued, DoneNotIssued DEF CheckExpiry
  <2> QED BY <1>3, <2>2 DEF CheckExpiry, TableStep, Shrinks
<1>4. CASE CheckSuspension(p)
  <2>1. [req[p] EXCEPT !.pc = "rotate"].pc # "reply"
    BY <1>0 DEF Request
  <2>2. Issued' \subseteq Issued
    BY <1>4, <2>1, NotIssued, DoneNotIssued DEF CheckSuspension
  <2> QED BY <1>4, <2>2 DEF CheckSuspension, TableStep, Shrinks
<1>5. CASE DeleteAllUserSessions(p)
  <2>1. Issued' \subseteq Issued
    BY <1>5, DoneNotIssued DEF DeleteAllUserSessions
  <2>2. \A s \in Sids : sessions'[s] \in {sessions[s], None}
    BY <1>5 DEF DeleteAllUserSessions
  <2> QED BY <1>5, <2>1, <2>2 DEF DeleteAllUserSessions, TableStep, Shrinks
<1>6. CASE Reply(p)
  <2>1. \A q \in Requests : req'[q] = IF q = p THEN IdleRequest ELSE req[q]
    BY <1>6 DEF Reply, Done, Goto, TypeOK
  <2>2. held' = held \cup {req[p].pair} /\ req[p].pc = "reply"
    BY <1>6 DEF Reply, Answered
  <2>3. IdleRequest.pc # "reply"
    BY DEF IdleRequest
  <2>4. Issued' \subseteq Issued
    BY <2>1, <2>2, <2>3 DEF Issued
  <2> QED BY <1>6, <2>4 DEF Reply, TableStep, Shrinks
<1>7. CASE Abort(p)
  <2>1. Issued' \subseteq Issued
    BY <1>7, DoneNotIssued DEF Abort
  <2> QED BY <1>7, <2>1 DEF Abort, TableStep, Shrinks
<1> QED BY <1>1, <1>2, <1>3, <1>4, <1>5, <1>6, <1>7 DEF Proceed

LEMMA TableNext == TypeOK /\ RequestOK /\ [Next]_vars => TableStep
<1> SUFFICES ASSUME TypeOK, RequestOK, [Next]_vars
             PROVE  TableStep
  OBVIOUS
<1>1. CASE UNCHANGED vars
  BY <1>1 DEF vars, TableStep, Shrinks, Issued
<1>2. ASSUME NEW p \in Requests, Arrive(p) \/ Proceed(p)
      PROVE  TableStep
  BY <1>2, LookupTable, ProceedTable DEF TableStep
<1>3. ASSUME NEW a \in held, DeleteSessionByID(a)
      PROVE  TableStep
  BY <1>3 DEF DeleteSessionByID, TableStep, Shrinks, Issued, TypeOK
<1>4. CASE CleanupDelete
  BY <1>4 DEF CleanupDelete, TableStep, Shrinks, Issued
<1>5. CASE CleanupSelect \/ CleanupFails \/ Tick
  BY <1>5 DEF CleanupSelect, CleanupFails, Tick, TableStep, Shrinks, Issued
<1> QED BY <1>1, <1>2, <1>3, <1>4, <1>5 DEF Next

(* Ids are used once and a row keeps its owner.                            *)
LEMMA StableRows ==
  ASSUME TypeOK, RowsOK, TableStep
  PROVE  /\ created \subseteq created' /\ minted <= minted'
         /\ \A s \in created : Exists(s)' => Exists(s) /\ sessions'[s].user = sessions[s].user
         /\ RowsOK'
<1>0. minted \in Nat /\ created \subseteq Sids
  BY DEF TypeOK
<1>1. CASE Shrinks
  BY <1>0, <1>1 DEF Shrinks, RowsOK, Exists
<1>2. ASSUME NEW s \in Sids, NEW a \in Pair, Renews(s, a), Creates(s, a) \/ Rotates(s, a)
      PROVE  /\ created \subseteq created' /\ minted <= minted'
             /\ \A r \in created : Exists(r)' => Exists(r) /\ sessions'[r].user = sessions[r].user
             /\ RowsOK'
  <2>1. created \subseteq created' /\ s \in created' /\ minted' = minted + 1
    BY <1>2 DEF Renews, Creates, Rotates
  <2>2. \A r \in created : Exists(r)' => Exists(r) /\ sessions'[r].user = sessions[r].user
    BY <1>0, <1>2 DEF Renews, Creates, Rotates, Exists
  <2>3. ASSUME NEW r \in Sids, Exists(r)'
        PROVE  r \in created' /\ sessions'[r].hash <= minted'
    <3>1. CASE r = s
      BY <1>0, <1>2, <2>1, <3>1 DEF Renews
    <3>2. CASE r # s
      <4>1. sessions'[r] = sessions[r] /\ Exists(r)
        BY <1>2, <2>3, <3>2 DEF Renews, Exists
      <4>2. sessions[r].hash <= minted /\ sessions[r] \in Session
        BY <4>1 DEF RowsOK, TypeOK, Exists
      <4>3. sessions[r].hash \in Int
        BY <4>2 DEF Session, Token
      <4> QED BY <1>0, <2>1, <4>1, <4>2, <4>3 DEF RowsOK
    <3> QED BY <3>1, <3>2
  <2>4. ASSUME NEW b \in Issued'
        PROVE  b \in Pair /\ b.token <= minted'
    <3>1. CASE b = a
      BY <1>0, <1>2, <2>1, <3>1 DEF Renews
    <3>2. CASE b # a
      <4>1. b \in Pair /\ b.token <= minted
        BY <1>2, <2>4, <3>2 DEF Renews, RowsOK
      <4>2. b.token \in Int
        BY <4>1 DEF Pair, Token
      <4> QED BY <1>0, <2>1, <4>1, <4>2
    <3> QED BY <3>1, <3>2
  <2>5. RowsOK'
    BY <2>3, <2>4 DEF RowsOK
  <2> QED BY <1>0, <2>1, <2>2, <2>5
<1> QED BY <1>1, <1>2 DEF TableStep

(* A request keeps to what it knows while others change the table.         *)
LEMMA RequestKeeps ==
  ASSUME TypeOK, RowsOK, RequestOK, TableStep, NEW q \in Requests, req'[q] = req[q]
  PROVE  Knows(q)'
<1>1. Refreshing(q)' <=> Refreshing(q)
  BY DEF Refreshing
<1>2. minted \in Nat /\ minted' \in Nat
  BY DEF TypeOK, TableStep, Shrinks, Renews
<1> QED BY <1>1, <1>2, StableRows DEF RequestOK, Knows

LEMMA RequestArrive ==
  ASSUME TypeOK, RowsOK, RequestOK, NEW p \in Requests, Arrive(p)
  PROVE  Knows(p)'
<1>0. UNCHANGED <<sessions, minted, created>>
  BY DEF Arrive, CreateUser, Login, GetSessionByHash, SuspendSelf
<1>1. ASSUME NEW u \in Users, CreateUser(p, u) \/ Login(p, u)
      PROVE  Knows(p)'
  <2>1. req'[p] = [IdleRequest EXCEPT !.pc = "issue", !.user = u]
    BY <1>1 DEF CreateUser, Login, Goto, TypeOK
  <2>2. req'[p].pc = "issue" /\ req'[p].user = u
    BY <2>1 DEF IdleRequest
  <2> QED BY <2>2 DEF Knows, Refreshing
<1>2. ASSUME NEW t \in Token, GetSessionByHash(p, t)
      PROVE  Knows(p)'
  <2>1. PICK s \in Sids :
          /\ Exists(s) /\ sessions[s].hash = t
          /\ Goto(p, [IdleRequest EXCEPT !.pc = "expiry", !.user = sessions[s].user,
                        !.sid = s, !.from = t, !.expires = sessions[s].expires])
    BY <1>2 DEF GetSessionByHash, Opens
  <2>2. req'[p] = [IdleRequest EXCEPT !.pc = "expiry", !.user = sessions[s].user,
                     !.sid = s, !.from = t, !.expires = sessions[s].expires]
    BY <2>1 DEF Goto, TypeOK
  <2>3. /\ req'[p].pc = "expiry" /\ req'[p].user = sessions[s].user
        /\ req'[p].sid = s /\ req'[p].from = t
    BY <2>2 DEF IdleRequest
  <2>4. s \in created /\ t \in 1..minted /\ sessions[s].user \in Users
    <3>1. s \in created /\ sessions[s] \in Session /\ t <= minted
      BY <2>1 DEF RowsOK, TypeOK, Exists
    <3>2. sessions[s].user \in Users /\ t \in Nat /\ t >= 1 /\ minted \in Nat
      BY <3>1, BoundsAssumption DEF Session, Token, TypeOK
    <3> QED BY <3>1, <3>2
  <2> QED BY <1>0, <2>3, <2>4 DEF Knows, Refreshing, Exists
<1>3. ASSUME NEW a \in held, SuspendSelf(p, a)
      PROVE  Knows(p)'
  <2>1. req'[p] = [IdleRequest EXCEPT !.pc = "revoke", !.user = a.user]
    BY <1>3 DEF SuspendSelf, Goto, TypeOK
  <2>2. req'[p].pc = "revoke" /\ req'[p].user = a.user /\ a.user \in Users
    BY <2>1 DEF IdleRequest, TypeOK, Pair
  <2> QED BY <2>2 DEF Knows, Refreshing
<1> QED BY <1>1, <1>2, <1>3 DEF Arrive

LEMMA DoneKnows ==
  ASSUME TypeOK, NEW p \in Requests, Done(p)
  PROVE  Knows(p)'
<1>1. req'[p].pc = "idle"
  BY DEF Done, Goto, TypeOK, IdleRequest
<1> QED BY <1>1 DEF Knows, Refreshing

LEMMA RequestProceed ==
  ASSUME TypeOK, RequestOK, TypeOK', NEW p \in Requests, Proceed(p)
  PROVE  Knows(p)'
<1>0. req[p] \in Request /\ req'[p] \in Request /\ Knows(p)
  BY DEF TypeOK, RequestOK
<1>1. CASE Done(p)
  BY <1>1, DoneKnows
<1>2. ASSUME NEW a, Goto(p, [req[p] EXCEPT !.pc = "reply", !.pair = a]), a # None,
             req[p].pc # "idle"
      PROVE  Knows(p)'
  <2>1. req'[p] = [req[p] EXCEPT !.pc = "reply", !.pair = a]
    BY <1>2 DEF Goto, TypeOK
  <2>2. req'[p].pc = "reply" /\ req'[p].pair = a /\ req'[p].user = req[p].user
    BY <1>0, <2>1 DEF Request
  <2>3. a \in Pair
    BY <1>0, <1>2, <2>2 DEF Request
  <2> QED BY <1>0, <1>2, <2>2, <2>3 DEF Knows, Refreshing
<1>3. CASE CreateSession(p)
  <2>1. PICK s \in Sids : Goto(p, [req[p] EXCEPT !.pc = "reply", !.pair =
          [user |-> req[p].user, sid |-> s, exp |-> clock + AccessTTL,
           token |-> minted + 1, from |-> 0]])
    BY <1>3 DEF CreateSession
  <2> DEFINE a == [user |-> req[p].user, sid |-> s, exp |-> clock + AccessTTL,
                   token |-> minted + 1, from |-> 0]
  <2>2. a \in Pair
    <3>1. minted + 1 \in Token /\ clock + AccessTTL \in Nat
      BY <1>3, LifetimeAssumption, BoundsAssumption DEF CreateSession, TypeOK, Token
    <3>2. req[p].user \in Users
      BY <1>0, <1>3 DEF Knows, CreateSession
    <3> QED BY <3>1, <3>2 DEF Pair
  <2>3. Goto(p, [req[p] EXCEPT !.pc = "reply", !.pair = a])
    BY <2>1
  <2> HIDE DEF a
  <2>4. req[p].pc # "idle"
    BY <1>3 DEF CreateSession
  <2> QED BY <1>2, <2>2, <2>3, <2>4, NoneAssumption
<1>4. CASE RotateSession(p)
  <2>1. CASE Rotated(p) = {}
    BY <1>1, <1>4, <2>1 DEF RotateSession
  <2>2. CASE Rotated(p) # {}
    <3> DEFINE a == [user |-> req[p].user, sid |-> req[p].sid, exp |-> clock + AccessTTL,
                     token |-> minted + 1, from |-> req[p].from]
    <3>1. Goto(p, [req[p] EXCEPT !.pc = "reply", !.pair = a]) /\ minted < MaxTokens
          /\ req[p].pc # "idle"
      BY <1>4, <2>2 DEF RotateSession
    <3>2. req[p].user \in Users /\ req[p].sid \in Sids /\ req[p].from \in Nat
      <4>1. req[p].pc # "idle" /\ Refreshing(p)
        BY <1>4 DEF RotateSession, Refreshing
      <4>2. req[p].user \in Users /\ req[p].sid \in created /\ req[p].from \in 1..minted
        BY <1>0, <4>1 DEF Knows
      <4> QED BY <4>2 DEF TypeOK
    <3>3. minted + 1 \in Token /\ clock + AccessTTL \in Nat
      <4>1. minted < MaxTokens
        BY <3>1
      <4> QED BY <4>1, LifetimeAssumption, BoundsAssumption DEF TypeOK, Token
    <3>4. a \in Pair
      BY <3>2, <3>3 DEF Pair
    <3> HIDE DEF a
    <3> QED BY <1>2, <3>1, <3>4, NoneAssumption
  <2> QED BY <2>1, <2>2
<1>5. ASSUME UNCHANGED <<sessions, created, minted>>, Refreshing(p), req[p].pc # "rotate",
             NEW pc \in {"suspension", "rotate"}, Goto(p, [req[p] EXCEPT !.pc = pc])
      PROVE  Knows(p)'
  <2>1. req'[p] = [req[p] EXCEPT !.pc = pc]
    BY <1>5 DEF Goto, TypeOK
  <2>2. /\ req'[p].pc = pc /\ req'[p].user = req[p].user
        /\ req'[p].sid = req[p].sid /\ req'[p].from = req[p].from
    BY <1>0, <2>1 DEF Request
  <2>3. req[p].pc # "idle"
    BY <1>5 DEF Refreshing
  <2> QED BY <1>0, <1>5, <2>2, <2>3 DEF Knows, Exists
<1>6. CASE CheckExpiry(p)
  <2>1. UNCHANGED <<sessions, created, minted>> /\ Refreshing(p) /\ req[p].pc # "rotate"
    BY <1>6 DEF CheckExpiry, Refreshing
  <2>2. Done(p) \/ Goto(p, [req[p] EXCEPT !.pc = "suspension"])
    BY <1>6 DEF CheckExpiry
  <2> QED BY <1>1, <1>5, <2>1, <2>2
<1>7. CASE CheckSuspension(p)
  <2>1. UNCHANGED <<sessions, created, minted>> /\ Refreshing(p) /\ req[p].pc # "rotate"
    BY <1>7 DEF CheckSuspension, Refreshing
  <2>2. Done(p) \/ Goto(p, [req[p] EXCEPT !.pc = "rotate"])
    BY <1>7 DEF CheckSuspension
  <2> QED BY <1>1, <1>5, <2>1, <2>2
<1>8. CASE DeleteAllUserSessions(p) \/ Reply(p) \/ Abort(p)
  BY <1>1, <1>8 DEF DeleteAllUserSessions, Reply, Abort
<1> QED BY <1>3, <1>4, <1>6, <1>7, <1>8 DEF Proceed

(* A step of one request leaves the records of the others alone.           *)
LEMMA OthersKept ==
  ASSUME TypeOK, NEW p \in Requests, Arrive(p) \/ Proceed(p)
  PROVE  \A q \in Requests : q # p => req'[q] = req[q]
<1>1. ASSUME NEW local, Goto(p, local)
      PROVE  \A q \in Requests : q # p => req'[q] = req[q]
  BY <1>1 DEF Goto, TypeOK
<1>2. \E local : Goto(p, local)
  BY DEF Arrive, CreateUser, Login, GetSessionByHash, SuspendSelf, Proceed,
         CreateSession, CheckExpiry, CheckSuspension, RotateSession,
         DeleteAllUserSessions, Reply, Abort, Done
<1> QED BY <1>1, <1>2

------------------------------------------------------------------------------
(* The inductive invariant                                                 *)

Inv == TypeOK /\ RequestOK /\ RowsOK

LEMMA InvInit == Init => Inv
<1> SUFFICES ASSUME Init
             PROVE  RequestOK /\ RowsOK
  BY TypeInit DEF Inv
<1>1. \A p \in Requests : req[p].pc = "idle"
  BY DEF Init, IdleRequest
<1> QED BY <1>1 DEF Init, RequestOK, RowsOK, Knows, Refreshing, Exists, Issued

LEMMA TypeNext ==
  ASSUME Inv, [Next]_vars
  PROVE  TypeOK'
<1> USE DEF Inv
<1>1. ASSUME NEW p \in Requests, Arrive(p) \/ Proceed(p)
      PROVE  TypeOK'
  BY <1>1, TypeArrive, TypeProceed
<1>2. ASSUME NEW a \in held, DeleteSessionByID(a)
      PROVE  TypeOK'
  BY <1>2 DEF DeleteSessionByID, TypeOK
<1>3. CASE CleanupSelect
  <2>1. PICK S \in SUBSET {s \in Sids : Expired(s)} : doomed' = {<<s, sessions[s]>> : s \in S}
    BY <1>3 DEF CleanupSelect
  <2>2. doomed' \in SUBSET (Sids \X Session)
    BY <2>1 DEF Expired, Exists, TypeOK
  <2> QED BY <1>3, <2>2 DEF CleanupSelect, TypeOK
<1>4. CASE CleanupDelete
  BY <1>4 DEF CleanupDelete, TypeOK
<1>5. CASE CleanupFails \/ Tick
  BY <1>5 DEF CleanupFails, Tick, TypeOK
<1>6. CASE UNCHANGED vars
  BY <1>6 DEF vars, TypeOK
<1> QED BY <1>1, <1>2, <1>3, <1>4, <1>5, <1>6 DEF Next

LEMMA InvNext == Inv /\ [Next]_vars => Inv'
<1> SUFFICES ASSUME Inv, [Next]_vars
             PROVE  Inv'
  OBVIOUS
<1>1. TypeOK'
  BY TypeNext
<1>2. TableStep /\ RowsOK'
  BY TableNext, StableRows DEF Inv
<1>3. ASSUME NEW q \in Requests
      PROVE  Knows(q)'
  <2>1. CASE req'[q] = req[q]
    BY <1>2, <2>1, RequestKeeps DEF Inv
  <2>2. CASE req'[q] # req[q]
    <3>1. PICK p \in Requests : Arrive(p) \/ Proceed(p)
      BY <2>2 DEF Next, vars, DeleteSessionByID, CleanupSelect, CleanupDelete,
                  CleanupFails, Tick
    <3>2. p = q
      BY <2>2, <3>1, OthersKept DEF Inv
    <3> QED BY <1>1, <3>1, <3>2, RequestArrive, RequestProceed DEF Inv
  <2> QED BY <2>1, <2>2
<1> QED BY <1>1, <1>2, <1>3 DEF Inv, RequestOK

LEMMA InvHolds == Spec => []Inv
BY InvInit, InvNext, PTL DEF Spec

(* The types of the table, the tokens and the requests' locals are right   *)
(* in every run of register, login, refresh, logout, suspension, cleanup.  *)
THEOREM TypeCorrect == Spec => []TypeOK
<1>1. Inv => TypeOK
  BY DEF Inv
<1> QED BY <1>1, InvHolds, PTL

(* A session that was logged out, revoked or cleaned up never comes back:  *)
(* RotateSession only updates a row that is there, CreateSession takes an  *)
(* id of its own.                                                          *)
THEOREM EndedForGood == Spec => SessionEnds
<1>1. Inv /\ [Next]_vars => [\A s \in created : ~Exists(s) => ~Exists(s)']_vars
  BY TableNext, StableRows DEF Inv
<1> QED BY <1>1, InvHolds, PTL DEF Spec, SessionEnds

------------------------------------------------------------------------------
(* Tokens and their sessions                                               *)

LEMMA TokenStep ==
  ASSUME Inv, TableStep, TokenOpensItsSession
  PROVE  TokenOpensItsSession'
<1>0. minted \in Nat
  BY DEF Inv, TypeOK
<1>1. CASE Shrinks
  BY <1>1 DEF Shrinks, TokenOpensItsSession, Exists
<1>2. ASSUME NEW s \in Sids, NEW a \in Pair, Renews(s, a),
             NEW b \in Issued', NEW r \in Sids, Exists(r)', sessions'[r].hash = b.token
      PROVE  r = b.sid /\ sessions'[r].user = b.user
  <2>1. CASE r = s
    <3>1. b.token = minted + 1
      BY <1>2, <2>1 DEF Renews
    <3>2. b \notin Issued
      BY <1>0, <3>1 DEF Inv, RowsOK
    <3>3. b = a
      BY <1>2, <3>2 DEF Renews
    <3> QED BY <1>2, <2>1, <3>3 DEF Renews
  <2>2. CASE r # s
    <3>1. Exists(r) /\ sessions'[r] = sessions[r]
      BY <1>2, <2>2 DEF Renews, Exists
    <3>2. sessions[r].hash <= minted
      BY <3>1 DEF Inv, RowsOK
    <3>3. b \in Issued
      BY <1>0, <1>2, <3>1, <3>2 DEF Renews
    <3> QED BY <1>2, <3>1, <3>3 DEF TokenOpensItsSession
  <2> QED BY <2>1, <2>2
<1> QED BY <1>1, <1>2 DEF TableStep, TokenOpensItsSession

(* A refresh token opens the session it was issued for or none at all, and *)
(* for its own user: the hash in a row is that of the last pair issued for *)
(* it, and every token is new.                                             *)
THEOREM TokenOfItsSession == Spec => []TokenOpensItsSession
<1>1. Init => TokenOpensItsSession
  BY DEF Init, Exists, TokenOpensItsSession
<1>2. Inv /\ TokenOpensItsSession /\ [Next]_vars => TokenOpensItsSession'
  BY TableNext, TokenStep DEF Inv
<1> QED BY <1>1, <1>2, InvHolds, PTL DEF Spec

------------------------------------------------------------------------------
(* The cleanup                                                             *)

(* What the cleanup statement has selected was expired when it was, and a  *)
(* row version does not change: its expiry stays in the past.              *)
DoomedOK == \A d \in doomed : d[2].expires < clock

LEMMA DoomedNext ==
  ASSUME Inv, DoomedOK, [Next]_vars
  PROVE  DoomedOK'
<1>0. clock \in Nat /\ \A d \in doomed : d[2] \in Session
  BY DEF Inv, TypeOK
<1>1. CASE CleanupSelect
  <2>1. PICK S \in SUBSET {s \in Sids : Expired(s)} : doomed' = {<<s, sessions[s]>> : s \in S}
    BY <1>1 DEF CleanupSelect
  <2>2. UNCHANGED clock
    BY <1>1 DEF CleanupSelect
  <2> QED BY <2>1, <2>2 DEF DoomedOK, Expired
<1>2. CASE CleanupDelete \/ CleanupFails
  BY <1>2 DEF CleanupDelete, CleanupFails, DoomedOK
<1>3. CASE Tick
  <2>1. clock' = clock + 1 /\ UNCHANGED doomed
    BY <1>3 DEF Tick
  <2>2. \A d \in doomed : d[2].expires \in Nat /\ d[2].expires < clock
    BY <1>0 DEF DoomedOK, Session
  <2> QED BY <1>0, <2>1, <2>2 DEF DoomedOK
<1>4. CASE UNCHANGED <<doomed, clock>>
  BY <1>4 DEF DoomedOK
<1>5. ASSUME NEW p \in Requests, Arrive(p) \/ Proceed(p)
      PROVE  UNCHANGED <<doomed, clock>>
  BY <1>5 DEF Arrive, CreateUser, Login, GetSessionByHash, SuspendSelf, Proceed,
         CreateSession, CheckExpiry, CheckSuspension, RotateSession,
         DeleteAllUserSessions, Reply, Abort
<1>6. ASSUME NEW a \in held, DeleteSessionByID(a)
      PROVE  UNCHANGED <<doomed, clock>>
  BY <1>6 DEF DeleteSessionByID
<1> QED BY <1>1, <1>2, <1>3, <1>4, <1>5, <1>6 DEF Next, vars

(* The cleanup deletes expired sessions only: a row that was refreshed     *)
(* after the statement selected it is no longer the version it selected.   *)
THEOREM LiveSessionsSpared == Spec => CleanupSparesLive
<1>1. Init => DoomedOK
  BY DEF Init, DoomedOK
<1>2. Inv /\ DoomedOK /\ [Next]_vars => DoomedOK'
  BY DoomedNext
<1>3. ASSUME Inv, DoomedOK, [Next]_vars
      PROVE  [doomed # {} /\ doomed' = {} =>
                \A s \in Sids : Exists(s) /\ ~Exists(s)' => sessions[s].expires < clock]_vars
  <2> SUFFICES ASSUME Next, doomed # {}, doomed' = {},
                      NEW s \in Sids, Exists(s), ~Exists(s)'
               PROVE  sessions[s].expires < clock
    BY <1>3
  <2>1. CASE CleanupDelete
    <3>1. <<s, sessions[s]>> \in doomed
      BY <2>1 DEF CleanupDelete, Doomed, Exists
    <3> QED BY <1>3, <3>1 DEF DoomedOK
  <2>2. CASE UNCHANGED sessions
    BY <2>2 DEF Exists
  <2>3. CASE UNCHANGED doomed
    BY <2>3
  <2>4. ASSUME NEW p \in Requests, Arrive(p) \/ Proceed(p)
        PROVE  UNCHANGED doomed
    BY <2>4 DEF Arrive, CreateUser, Login, GetSessionByHash, SuspendSelf, Proceed,
           CreateSession, CheckExpiry, CheckSuspension, RotateSession,
           DeleteAllUserSessions, Reply, Abort
  <2>5. (\E a \in held : DeleteSessionByID(a)) => UNCHANGED doomed
    BY DEF DeleteSessionByID
  <2>6. CleanupSelect \/ CleanupFails \/ Tick => UNCHANGED sessions
    BY DEF CleanupSelect, CleanupFails, Tick
  <2> QED BY <2>1, <2>2, <2>3, <2>4, <2>5, <2>6 DEF Next
<1> QED BY <1>1, <1>2, <1>3, InvHolds, PTL DEF Spec, CleanupSparesLive

------------------------------------------------------------------------------
(* One refresh at a time                                                   *)

(* No two rows share a hash; the row of a refresh that has looked its      *)
(* token up still has that token, if it is there; and a token that was     *)
(* refreshed is no row's any more.                                         *)
HashesDiffer ==
  \A r, s \in Sids : Exists(r) /\ Exists(s) /\ sessions[r].hash = sessions[s].hash => r = s
StillItsToken(p) ==
  Refreshing(p) /\ Exists(req[p].sid) => sessions[req[p].sid].hash = req[p].from
Spent(t) == \A s \in Sids : Exists(s) => sessions[s].hash # t
FromSpent == \A a \in Issued : a.from # 0 => Spent(a.from) /\ a.from <= minted
Once == /\ HashesDiffer
        /\ \A p \in Requests : StillItsToken(p)
        /\ FromSpent
        /\ TokenUsedOnce

(* A request that is refreshing after a step was refreshing that session   *)
(* before it, or has just looked it up.                                    *)
LookedUp(p) ==
  Refreshing(p)' =>
    \/ Refreshing(p) /\ req'[p].sid = req[p].sid /\ req'[p].from = req[p].from
    \/ UNCHANGED sessions /\ sessions'[req'[p].sid].hash = req'[p].from

LEMMA DoneLookedUp ==
  ASSUME TypeOK, NEW p \in Requests, Done(p)
  PROVE  LookedUp(p)
BY DEF Done, Goto, TypeOK, IdleRequest, LookedUp, Refreshing

LEMMA GotoLookedUp ==
  ASSUME TypeOK, NEW p \in Requests, NEW local, Goto(p, local),
         local.pc \notin {"expiry", "suspension", "rotate"}
  PROVE  LookedUp(p)
BY DEF Goto, TypeOK, LookedUp, Refreshing

LEMMA ArriveLookedUp ==
  ASSUME TypeOK, NEW p \in Requests, Arrive(p)
  PROVE  LookedUp(p)
<1>1. ASSUME NEW u \in Users, CreateUser(p, u) \/ Login(p, u)
      PROVE  LookedUp(p)
  <2>1. [IdleRequest EXCEPT !.pc = "issue", !.user = u].pc = "issue"
    BY DEF IdleRequest
  <2> QED BY <1>1, <2>1, GotoLookedUp DEF CreateUser, Login
<1>2. ASSUME NEW t \in Token, GetSessionByHash(p, t)
      PROVE  LookedUp(p)
  <2>1. PICK s \in Sids :
          /\ sessions[s].hash = t
          /\ Goto(p, [IdleRequest EXCEPT !.pc = "expiry", !.user = sessions[s].user,
                        !.sid = s, !.from = t, !.expires = sessions[s].expires])
    BY <1>2 DEF GetSessionByHash, Opens
  <2>2. req'[p] = [IdleRequest EXCEPT !.pc = "expiry", !.user = sessions[s].user,
                     !.sid = s, !.from = t, !.expires = sessions[s].expires]
    BY <2>1 DEF Goto, TypeOK
  <2>3. req'[p].sid = s /\ req'[p].from = t
    BY <2>2 DEF IdleRequest
  <2> QED BY <1>2, <2>1, <2>3 DEF LookedUp, GetSessionByHash
<1>3. ASSUME NEW a \in held, SuspendSelf(p, a)
      PROVE  LookedUp(p)
  <2>1. [IdleRequest EXCEPT !.pc = "revoke", !.user = a.user].pc = "revoke"
    BY DEF IdleRequest
  <2> QED BY <1>3, <2>1, GotoLookedUp DEF SuspendSelf
<1> QED BY <1>1, <1>2, <1>3 DEF Arrive

LEMMA ProceedLookedUp ==
  ASSUME TypeOK, NEW p \in Requests, Proceed(p)
  PROVE  LookedUp(p)
<1>0. req[p] \in Request
  BY DEF TypeOK
<1>1. ASSUME NEW a, Goto(p, [req[p] EXCEPT !.pc = "reply", !.pair = a])
      PROVE  LookedUp(p)
  <2>1. [req[p] EXCEPT !.pc = "reply", !.pair = a].pc = "reply"
    BY <1>0 DEF Request
  <2> QED BY <1>1, <2>1, GotoLookedUp
<1>2. ASSUME Refreshing(p), NEW pc \in {"suspension", "rotate"},
             Goto(p, [req[p] EXCEPT !.pc = pc])
      PROVE  LookedUp(p)
  <2>1. req'[p] = [req[p] EXCEPT !.pc = pc]
    BY <1>2 DEF Goto, TypeOK
  <2>2. req'[p].sid = req[p].sid /\ req'[p].from = req[p].from
    BY <1>0, <2>1 DEF Request
  <2> QED BY <1>2, <2>2 DEF LookedUp
<1>3. CASE CreateSession(p)
  BY <1>1, <1>3 DEF CreateSession
<1>4. CASE RotateSession(p)
  BY <1>1, <1>4, DoneLookedUp DEF RotateSession
<1>5. CASE CheckExpiry(p)
  BY <1>2, <1>5, DoneLookedUp DEF CheckExpiry, Refreshing
<1>6. CASE CheckSuspension(p)
  BY <1>2, <1>6, DoneLookedUp DEF CheckSuspension, Refreshing
<1>7. CASE DeleteAllUserSessions(p) \/ Reply(p) \/ Abort(p)
  BY <1>7, DoneLookedUp DEF DeleteAllUserSessions, Reply, Abort
<1> QED BY <1>3, <1>4, <1>5, <1>6, <1>7 DEF Proceed

LEMMA AllLookedUp ==
  ASSUME TypeOK, [Next]_vars, NEW p \in Requests
  PROVE  LookedUp(p)
<1>1. CASE req'[p] = req[p]
  BY <1>1 DEF LookedUp, Refreshing
<1>2. CASE req'[p] # req[p]
  <2>1. PICK q \in Requests : Arrive(q) \/ Proceed(q)
    BY <1>2 DEF Next, vars, DeleteSessionByID, CleanupSelect, CleanupDelete,
                CleanupFails, Tick
  <2>2. p = q
    BY <1>2, <2>1, OthersKept
  <2> QED BY <2>1, <2>2, ArriveLookedUp, ProceedLookedUp
<1> QED BY <1>1, <1>2

LEMMA OnceShrinks ==
  ASSUME Once, Shrinks, \A p \in Requests : LookedUp(p), TypeOK, TypeOK', RequestOK'
  PROVE  Once'
<1>1. \A s \in Sids : Exists(s)' => Exists(s) /\ sessions'[s] = sessions[s]
  BY DEF Shrinks, Exists
<1>2. HashesDiffer'
  BY <1>1 DEF Once, HashesDiffer
<1>3. ASSUME NEW p \in Requests
      PROVE  StillItsToken(p)'
  <2> SUFFICES ASSUME Refreshing(p)', Exists(req[p].sid)'
               PROVE  sessions'[req'[p].sid].hash = req'[p].from
    BY DEF StillItsToken
  <2>1. req'[p].sid \in Sids
    BY DEF RequestOK, Knows, TypeOK
  <2>2. CASE Refreshing(p) /\ req'[p].sid = req[p].sid /\ req'[p].from = req[p].from
    BY <1>1, <2>1, <2>2 DEF Once, StillItsToken, Exists
  <2> QED BY <2>2 DEF LookedUp
<1>4. FromSpent'
  BY <1>1 DEF Once, FromSpent, Spent, Shrinks
<1>5. TokenUsedOnce'
  BY DEF Once, TokenUsedOnce, Shrinks
<1> QED BY <1>2, <1>3, <1>4, <1>5 DEF Once

LEMMA OnceRenews ==
  ASSUME Inv, Inv', Once, NoOverlap, \A p \in Requests : LookedUp(p),
         NEW s \in Sids, NEW a \in Pair, Renews(s, a), Creates(s, a) \/ Rotates(s, a)
  PROVE  Once'
<1>0. minted \in Nat /\ minted' = minted + 1
  BY DEF Inv, TypeOK, Renews
<1>1. /\ sessions'[s].hash = minted + 1 /\ Exists(s)'
      /\ \A r \in Sids : r # s /\ Exists(r)' =>
           Exists(r) /\ sessions'[r] = sessions[r] /\ sessions'[r].hash <= minted
  BY NoneAssumption DEF Renews, Exists, Inv, RowsOK
<1>2. HashesDiffer'
  BY <1>0, <1>1 DEF Once, HashesDiffer
<1>3. a.from # 0 => /\ Exists(s) /\ sessions[s].hash = a.from /\ a.from <= minted
                    /\ \A q \in Requests :
                         Refreshing(q) /\ req[q].sid = s => ~Refreshing(q)'
  <2> SUFFICES ASSUME a.from # 0
               PROVE  /\ Exists(s) /\ sessions[s].hash = a.from /\ a.from <= minted
                      /\ \A q \in Requests :
                           Refreshing(q) /\ req[q].sid = s => ~Refreshing(q)'
    OBVIOUS
  <2>1. Rotates(s, a)
    BY DEF Creates
  <2>2. PICK p \in Requests : /\ req[p].pc = "rotate" /\ req[p].sid = s
                              /\ req[p].from = a.from /\ req'[p].pc = "reply"
    BY <2>1 DEF Rotates
  <2>3. Refreshing(p) /\ ~Refreshing(p)'
    BY <2>2 DEF Refreshing
  <2>4. Exists(s) /\ sessions[s].hash = a.from
    BY <2>1, <2>2, <2>3 DEF Once, StillItsToken, Rotates
  <2>5. a.from <= minted
    BY <2>4 DEF Inv, RowsOK
  <2>6. \A q \in Requests : Refreshing(q) /\ req[q].sid = s => q = p
    BY <2>2, <2>3 DEF NoOverlap
  <2> QED BY <2>3, <2>4, <2>5, <2>6
<1>4. ASSUME NEW q \in Requests
      PROVE  StillItsToken(q)'
  <2> SUFFICES ASSUME Refreshing(q)', Exists(req[q].sid)'
               PROVE  sessions'[req'[q].sid].hash = req'[q].from
    BY DEF StillItsToken
  <2>1. req'[q].sid \in Sids
    BY DEF Inv, RequestOK, Knows, TypeOK
  <2>2. CASE Refreshing(q) /\ req'[q].sid = req[q].sid /\ req'[q].from = req[q].from
    <3>1. req[q].sid # s
      <4>1. CASE Creates(s, a)
        BY <2>2, <4>1 DEF Creates, Inv, RequestOK, Knows
      <4>2. CASE Rotates(s, a)
        <5>1. PICK p \in Requests : /\ req[p].pc = "rotate" /\ req[p].sid = s
                                    /\ req[p].from = a.from
          BY <4>2 DEF Rotates
        <5>2. Refreshing(p)
          BY <5>1 DEF Refreshing
        <5>3. a.from # 0
          BY <5>1, <5>2 DEF Inv, RequestOK, Knows
        <5> QED BY <1>3, <2>2, <5>3
      <4> QED BY <4>1, <4>2
    <3>2. Exists(req[q].sid) /\ sessions'[req[q].sid] = sessions[req[q].sid]
      BY <1>1, <2>1, <2>2, <3>1 DEF Exists
    <3> QED BY <2>2, <3>2 DEF Once, StillItsToken
  <2> QED BY <2>2 DEF LookedUp
<1>5. ASSUME NEW b \in Issued', b.from # 0
      PROVE  Spent(b.from)' /\ b.from <= minted'
  <2>1. b.from \in Nat
    BY DEF Inv, RowsOK, Pair
  <2>2. CASE b = a
    <3>1. \A r \in Sids : r # s /\ Exists(r)' => sessions'[r].hash # a.from
      BY <1>1, <1>3, <1>5, <2>2 DEF Once, HashesDiffer
    <3>2. sessions'[s].hash # a.from /\ a.from <= minted'
      BY <1>0, <1>1, <1>3, <1>5, <2>1, <2>2
    <3> QED BY <2>2, <3>1, <3>2 DEF Spent
  <2>3. CASE b \in Issued
    <3>1. Spent(b.from) /\ b.from <= minted
      BY <1>5, <2>3 DEF Once, FromSpent
    <3>2. sessions'[s].hash # b.from /\ b.from <= minted'
      BY <1>0, <1>1, <2>1, <3>1
    <3> QED BY <1>1, <3>1, <3>2 DEF Spent
  <2> QED BY <2>2, <2>3 DEF Renews
<1>6. \A b \in Issued : b.from # 0 => b.from # a.from
  <2>1. \A b \in Issued : b.from # 0 => Spent(b.from)
    BY DEF Once, FromSpent
  <2> QED BY <1>3, <2>1 DEF Spent
<1>7. TokenUsedOnce'
  BY <1>6 DEF Once, TokenUsedOnce, Renews
<1> QED BY <1>2, <1>4, <1>5, <1>7 DEF Once, FromSpent

(* While no two refreshes of one session overlap, a refresh token is good  *)
(* for one refresh: after it no row has that token.  Without it the second *)
(* of two refreshes rotates a row whose token is no longer its own.        *)
THEOREM UsedOnceWhenSerial == Spec => UsedOnceUnlessOverlap
<1>1. Init => Once
  <2> SUFFICES ASSUME Init
               PROVE  Once
    OBVIOUS
  <2>1. \A p \in Requests : ~Refreshing(p) /\ req[p].pc # "reply"
    BY DEF Init, IdleRequest, Refreshing
  <2>2. Issued = {} /\ \A s \in Sids : ~Exists(s)
    BY <2>1 DEF Init, Issued, Exists
  <2> QED BY <2>1, <2>2 DEF Once, HashesDiffer, StillItsToken, FromSpent, TokenUsedOnce
<1>2. ASSUME Inv, NoOverlap, Once, [Next]_vars
      PROVE  Inv' /\ Once'
  <2>1. Inv'
    BY <1>2, InvNext
  <2>2. \A p \in Requests : LookedUp(p)
    BY <1>2, AllLookedUp DEF Inv
  <2>3. TableStep
    BY <1>2, TableNext DEF Inv
  <2>4. Once'
    <3>1. TypeOK /\ TypeOK' /\ RequestOK'
      BY <1>2, <2>1 DEF Inv
    <3> QED BY <1>2, <2>1, <2>2, <2>3, <3>1, OnceShrinks, OnceRenews DEF TableStep
  <2> QED BY <2>1, <2>4
<1>3. Once => TokenUsedOnce
  BY DEF Once
<1> QED BY <1>1, <1>2, <1>3, InvInit, PTL DEF Spec, UsedOnceUnlessOverlap

------------------------------------------------------------------------------
(* The contract                                                            *)

Current(s) == IF Exists(s) THEN sessions[s].hash ELSE 0

LEMMA ShrinkEnds ==
  ASSUME Shrinks
  PROVE  Contract!Next
<1> DEFINE S == {s \in Sids : Exists(s) /\ ~Exists(s)'}
<1>1. \A s \in Sids : Current(s)' = IF s \in S THEN 0 ELSE Current(s)
  BY DEF Shrinks, Current, Exists
<1>2. [s \in Sids |-> Current(s)]' = [s \in Sids |-> IF s \in S THEN 0 ELSE Current(s)]
  BY <1>1
<1>3. \A s \in Sids : [r \in Sids |-> Current(r)][s] = Current(s)
  OBVIOUS
<1>4. S \in SUBSET Sids
  OBVIOUS
<1> HIDE DEF S
<1> QED BY <1>2, <1>3, <1>4 DEF Contract!Next, Contract!End, Shrinks, Current

LEMMA RenewalMints ==
  ASSUME TypeOK, NEW s \in Sids, NEW a \in Pair, Renews(s, a)
  PROVE  Contract!Mint(s)
<1>1. minted + 1 \in 1..MaxTokens /\ minted \in Nat /\ minted' = minted + 1
  BY DEF Renews, Pair, Token, TypeOK
<1>2. minted < MaxTokens
  BY <1>1, BoundsAssumption
<1>3. \A r \in Sids : Current(r)' = IF r = s THEN minted + 1 ELSE Current(r)
  BY NoneAssumption DEF Renews, Current, Exists
<1>4. [r \in Sids |-> Current(r)]' = [[r \in Sids |-> Current(r)] EXCEPT ![s] = minted + 1]
  BY <1>3
<1> QED BY <1>1, <1>2, <1>4 DEF Contract!Mint, Current

(* What a step does to the table is a step of the contract.                *)
LEMMA ContractStep == TypeOK /\ TableStep => Contract!Next
<1> SUFFICES ASSUME TypeOK, TableStep
             PROVE  Contract!Next
  OBVIOUS
<1>1. CASE Shrinks
  BY <1>1, ShrinkEnds
<1>2. ASSUME NEW s \in Sids, NEW a \in Pair, Renews(s, a), Creates(s, a)
      PROVE  Contract!Next
  <2>1. Contract!Open(s)
    BY <1>2, RenewalMints DEF Creates, Contract!Open
  <2> QED BY <2>1 DEF Contract!Next
<1>3. ASSUME NEW s \in Sids, NEW a \in Pair, Renews(s, a), Rotates(s, a)
      PROVE  Contract!Next
  <2>1. Exists(s) /\ sessions[s].hash # 0 /\ UNCHANGED created
    BY <1>3 DEF Rotates, TypeOK, Exists, Session, Token
  <2>2. Contract!Rotate(s)
    BY <1>3, <2>1, RenewalMints DEF Contract!Rotate
  <2> QED BY <2>2 DEF Contract!Next
<1> QED BY <1>1, <1>2, <1>3 DEF TableStep

(* Sessions implements SessionContract: whatever requests, failures and    *)
(* cleanups overlap, a session is opened once, by one token at a time, and *)
(* not again after it has ended.                                           *)
THEOREM ImplementsContract == Spec => KeepsContract
<1>1. Init => Contract!Init
  BY DEF Init, Contract!Init, Exists
<1>2. Inv /\ [Next]_vars => [Contract!Next]_<<created, [s \in Sids |-> Current(s)], minted>>
  BY TableNext, ContractStep DEF Inv
<1> QED
  BY <1>1, <1>2, InvHolds, PTL
  DEF Spec, KeepsContract, Contract!Spec, Contract!contractVars, Current
==============================================================================
