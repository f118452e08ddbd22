---------------------------- MODULE RateLimitProofs ----------------------------
(***************************************************************************)
(* Theorems about RateLimit, for any limit, any window and any finite      *)
(* number of requests whose commands interleave and fail.                  *)
(***************************************************************************)
EXTENDS RateLimit, FiniteSetTheorems, TLAPS

Pcs == {"idle", "setnx", "incr", "expire", "decide", "served", "refused", "unavailable"}
Outcomes == {"served", "unavailable"}

LEMMA IdleTyped == IdleRequest \in Request /\ IdleRequest.pc = "idle" /\ ~IdleRequest.current
BY DEF IdleRequest, Request

LEMMA ReplyMeans ==
  ASSUME TypeOK
  PROVE  /\ Reply \in Nat \ {0} /\ Reply <= MaxAttempts + 1
         /\ count = None => Reply = 1
         /\ count # None /\ count < MaxAttempts => Reply = count + 1
         /\ count # None /\ count >= MaxAttempts => Reply = MaxAttempts + 1
BY NoneAssumption, BoundsAssumption DEF TypeOK, Reply

LEMMA MoveMeans ==
  ASSUME TypeOK, NEW q \in Requests, NEW pc \in Pcs, Move(q, pc)
  PROVE  /\ req' \in [Requests -> Request] /\ req'[q].pc = pc
         /\ req'[q].n = req[q].n /\ req'[q].current = req[q].current
         /\ \A r \in Requests \ {q} : req'[r] = req[r]
<1>1. PICK l : l = [req[q] EXCEPT !.pc = pc]
  OBVIOUS
<1>2. l \in Request
  BY <1>1 DEF TypeOK, Request, Pcs
<1>3. l.pc = pc /\ l.n = req[q].n /\ l.current = req[q].current
  BY <1>1 DEF TypeOK, Request
<1>4. req' = [req EXCEPT ![q] = l]
  BY <1>1 DEF Move, Goto
<1> QED BY <1>2, <1>3, <1>4 DEF TypeOK

(* Every limiter sends the same commands; only what an error means differs. *)
LEMMA StepMeans ==
  ASSUME NEW q \in Requests, Step(q)
  PROVE  \E outcome \in Outcomes : Commands(q, outcome)
BY DEF Step, AuthRateLimit, PostRateLimit, FollowRateLimit, BlockRateLimit, BookmarkRateLimit,
   ReportRateLimit, SearchRateLimit, ReactionRateLimit, StudioRateLimit, FailClosed, FailOpen, Outcomes

------------------------------------------------------------------------------
(* The invariant: whatever the window has counted and not let through yet  *)
(* still has its place in the counter.                                     *)

Pending == {q \in Requests : /\ req[q].pc \in {"expire", "decide"}
                             /\ req[q].current /\ req[q].n <= MaxAttempts}
Counted == IF count = None THEN 0 ELSE IF count > MaxAttempts THEN MaxAttempts ELSE count
PlacesHeld ==
  /\ passed + Cardinality(Pending) <= Counted
  /\ count = None => \A q \in Requests : ~req[q].current

IInv == TypeOK /\ TTLIsComing /\ PlacesHeld

LEMMA PendingFinite == IsFiniteSet(Pending) /\ Cardinality(Pending) \in Nat
BY RequestsAssumption, FS_Subset, FS_CardinalityType DEF Pending

LEMMA PendingFiniteNext == IsFiniteSet(Pending') /\ Cardinality(Pending') \in Nat
BY RequestsAssumption, FS_Subset, FS_CardinalityType DEF Pending

LEMMA CountedMeans ==
  ASSUME TypeOK
  PROVE  /\ Counted \in 0..MaxAttempts
         /\ count = None => Counted = 0
         /\ count # None /\ count <= MaxAttempts => Counted = count
         /\ count # None /\ count >= MaxAttempts => Counted = MaxAttempts
BY NoneAssumption, BoundsAssumption DEF TypeOK, Counted

(* The pending requests after a step of one request.                       *)
LEMMA PendingSame ==
  ASSUME NEW q \in Requests, \A r \in Requests \ {q} : req'[r] = req[r],
         q \in Pending' <=> q \in Pending
  PROVE  Pending' = Pending
BY DEF Pending

LEMMA PendingGrows ==
  ASSUME NEW q \in Requests, \A r \in Requests \ {q} : req'[r] = req[r], q \notin Pending
  PROVE  Cardinality(Pending') <= Cardinality(Pending) + 1
<1>1. Pending' = Pending \/ Pending' = Pending \cup {q}
  BY DEF Pending
<1>2. Cardinality(Pending \cup {q}) = Cardinality(Pending) + 1
  BY PendingFinite, FS_AddElement
<1>3. CASE Pending' = Pending
  <2>1. Cardinality(Pending') = Cardinality(Pending)
    BY <1>3
  <2> QED BY <2>1, PendingFinite
<1>4. CASE Pending' = Pending \cup {q}
  <2>1. Cardinality(Pending') = Cardinality(Pending \cup {q})
    BY <1>4
  <2> QED BY <1>2, <2>1, PendingFinite
<1> QED BY <1>1, <1>3, <1>4

LEMMA PendingShrinks ==
  ASSUME NEW q \in Requests, \A r \in Requests \ {q} : req'[r] = req[r], q \notin Pending'
  PROVE  /\ Cardinality(Pending') <= Cardinality(Pending)
         /\ q \in Pending => Cardinality(Pending') = Cardinality(Pending) - 1
<1>1. Pending' = Pending \ {q}
  BY DEF Pending
<1>2. Cardinality(Pending \ {q}) =
        IF q \in Pending THEN Cardinality(Pending) - 1 ELSE Cardinality(Pending)
  BY PendingFinite, FS_RemoveElement
<1> QED BY <1>1, <1>2, PendingFinite

------------------------------------------------------------------------------
(* One lemma per command.                                                  *)

LEMMA MoveCounts ==
  ASSUME IInv, NEW q \in Requests, NEW pc \in Pcs, Move(q, pc), UNCHANGED passed,
         req[q].pc \notin {"expire", "decide"}, pc \notin {"expire", "decide"}
  PROVE  /\ req' \in [Requests -> Request]
         /\ Cardinality(Pending') = Cardinality(Pending)
         /\ \A r \in Requests : req'[r].current = req[r].current
         /\ \A r \in Requests : At(r, "expire") => At(r, "expire")'
<1>1. /\ req' \in [Requests -> Request] /\ req'[q].pc = pc
      /\ req'[q].n = req[q].n /\ req'[q].current = req[q].current
      /\ \A r \in Requests \ {q} : req'[r] = req[r]
  BY MoveMeans DEF IInv
<1>2. Pending' = Pending
  BY <1>1, PendingSame DEF Pending
<1> QED BY <1>1, <1>2 DEF At

(* A request arrives, or fails, and the counter stays as it is.            *)
LEMMA PassOn ==
  ASSUME IInv, NEW q \in Requests, NEW pc \in Pcs, Move(q, pc),
         req[q].pc \notin {"expire", "decide"}, pc \notin {"expire", "decide"},
         UNCHANGED <<limiter, count, ttl, passed, lost>>
  PROVE  IInv'
<1>1. /\ req' \in [Requests -> Request] /\ Cardinality(Pending') = Cardinality(Pending)
      /\ \A r \in Requests : req'[r].current = req[r].current
      /\ \A r \in Requests : At(r, "expire") => At(r, "expire")'
  BY MoveCounts
<1>2. TypeOK' /\ TTLIsComing'
  BY <1>1 DEF IInv, TypeOK, TTLIsComing
<1>3. PlacesHeld'
  BY <1>1 DEF IInv, PlacesHeld, Counted
<1> QED BY <1>2, <1>3 DEF IInv

LEMMA SetOn == ASSUME IInv, NEW q \in Requests, SetNX(q) PROVE IInv'
<1>1. /\ req' \in [Requests -> Request] /\ Cardinality(Pending') = Cardinality(Pending)
      /\ \A r \in Requests : req'[r].current = req[r].current
      /\ \A r \in Requests : At(r, "expire") => At(r, "expire")'
  BY MoveCounts DEF SetNX, At, Pcs
<1>2. CASE count # None
  <2>1. TypeOK' /\ TTLIsComing'
    BY <1>1, <1>2 DEF SetNX, IInv, TypeOK, TTLIsComing
  <2>2. PlacesHeld'
    BY <1>1, <1>2 DEF SetNX, IInv, PlacesHeld, Counted
  <2> QED BY <2>1, <2>2 DEF IInv
<1>3. CASE count = None
  <2>0. count' = 0 /\ ttl' = Window /\ UNCHANGED <<limiter, passed, lost>> /\ Window \in 1..Window
    BY <1>3, BoundsAssumption DEF SetNX
  <2>1. TypeOK' /\ TTLIsComing'
    BY <1>1, <2>0, NoneAssumption, BoundsAssumption DEF IInv, TypeOK, TTLIsComing
  <2>2. Counted' = 0 /\ Counted = 0
    BY <1>3, <2>0, NoneAssumption, BoundsAssumption DEF Counted
  <2>3. PlacesHeld'
    BY <1>1, <1>3, <2>0, <2>2, NoneAssumption DEF IInv, PlacesHeld
  <2> QED BY <2>1, <2>3 DEF IInv
<1> QED BY <1>2, <1>3

LEMMA LostOn ==
  ASSUME IInv, NEW q \in Requests, NEW outcome \in Outcomes, ReplyLost(q, outcome) PROVE IInv'
<1>1. /\ req' \in [Requests -> Request] /\ Cardinality(Pending') = Cardinality(Pending)
      /\ \A r \in Requests : req'[r].current = req[r].current
      /\ \A r \in Requests : At(r, "expire") => At(r, "expire")'
  BY MoveCounts DEF ReplyLost, At, Pcs, Outcomes
<1>2. Reply \in Nat \ {0} /\ count' = Reply /\ UNCHANGED <<limiter, ttl, passed>>
  BY ReplyMeans DEF ReplyLost, IInv
<1>3. lost' \in BOOLEAN /\ (lost \/ count = None => lost')
  BY DEF ReplyLost, IInv, TypeOK
<1>4. TypeOK' /\ TTLIsComing'
  BY <1>1, <1>2, <1>3, NoneAssumption DEF IInv, TypeOK, TTLIsComing
<1>5. Counted <= Counted'
  BY <1>2, ReplyMeans, NoneAssumption, BoundsAssumption DEF IInv, TypeOK, Counted
<1>6. Counted \in Nat /\ Counted' \in Nat /\ passed \in Nat
  BY <1>4, CountedMeans, BoundsAssumption, NoneAssumption DEF IInv, TypeOK, Counted
<1>7. PlacesHeld'
  BY <1>1, <1>2, <1>5, <1>6, NoneAssumption, PendingFinite DEF IInv, PlacesHeld
<1> QED BY <1>4, <1>7 DEF IInv

(* A request is counted, and holds a place if it may pass.                 *)
LEMMA IncrOn == ASSUME IInv, NEW q \in Requests, Incr(q) PROVE IInv'
<1>1. PICK n : n = Reply
  OBVIOUS
<1>2. /\ n \in Nat \ {0} /\ n <= MaxAttempts + 1 /\ count' = n
      /\ (count = None => n = 1)
      /\ (count # None /\ count < MaxAttempts => n = count + 1)
      /\ (count # None /\ count >= MaxAttempts => n = MaxAttempts + 1)
      /\ UNCHANGED <<limiter, ttl, passed, lost>> /\ req[q].pc = "incr"
  BY <1>1, ReplyMeans DEF IInv, Incr, At
<1>3. PICK l : l = [pc |-> IF OwesTTL(n) THEN "expire" ELSE "decide", n |-> n, current |-> TRUE]
  OBVIOUS
<1>4. req' = [req EXCEPT ![q] = l]
  BY <1>1, <1>3 DEF Incr, Goto
<1>5. /\ l \in Request /\ l.n = n /\ l.current /\ l.pc \in {"expire", "decide"}
      /\ n = 1 => l.pc = "expire"
  BY <1>2, <1>3 DEF Request, OwesTTL
<1>6. /\ req' \in [Requests -> Request] /\ req'[q] = l
      /\ \A r \in Requests \ {q} : req'[r] = req[r]
  BY <1>4, <1>5 DEF IInv, TypeOK
<1>7. TypeOK'
  BY <1>2, <1>6, NoneAssumption DEF IInv, TypeOK
<1>8. TTLIsComing'
  <2>1. CASE count = None
    BY <1>2, <1>5, <1>6, <2>1 DEF TTLIsComing, At
  <2>2. CASE count # None
    BY <1>2, <1>6, <2>2 DEF TTLIsComing, At, IInv
  <2> QED BY <2>1, <2>2
<1>9. PlacesHeld'
  <2>0. /\ q \notin Pending /\ passed \in Nat /\ MaxAttempts \in Nat \ {0}
        /\ count' # None /\ passed + Cardinality(Pending) <= Counted
    BY <1>2, NoneAssumption, BoundsAssumption DEF Pending, IInv, PlacesHeld, TypeOK
  <2>1. Cardinality(Pending') <= Cardinality(Pending) + 1
    BY <1>6, <2>0, PendingGrows
  <2>2. CASE n > MaxAttempts
    <3>1. Counted <= MaxAttempts /\ Counted' = MaxAttempts /\ Counted \in Nat
      BY <1>2, <2>0, <2>2, CountedMeans DEF IInv, Counted
    <3>2. q \notin Pending'
      BY <1>2, <1>5, <1>6, <2>0, <2>2 DEF Pending
    <3>3. Cardinality(Pending') <= Cardinality(Pending)
      BY <1>6, <3>2, PendingShrinks
    <3> QED BY <1>2, <2>0, <3>1, <3>3, PendingFinite, PendingFiniteNext DEF PlacesHeld
  <2>3. CASE n <= MaxAttempts
    <3>1. Counted' = n /\ Counted = n - 1
      BY <1>2, <2>0, <2>3, NoneAssumption DEF IInv, TypeOK, Counted
    <3> QED BY <1>2, <2>0, <2>1, <3>1, PendingFinite, PendingFiniteNext DEF PlacesHeld
  <2> QED BY <1>2, <2>0, <2>2, <2>3
<1> QED BY <1>7, <1>8, <1>9 DEF IInv

(* The TTL of the request that made the counter is set, or its command     *)
(* fails; the request keeps its place.                                     *)
LEMMA ExpireOn == ASSUME IInv, NEW q \in Requests, Expire(q) \/ ExpireFails(q) PROVE IInv'
<1>1. /\ req' \in [Requests -> Request] /\ req'[q].pc = "decide"
      /\ req'[q].n = req[q].n /\ req'[q].current = req[q].current
      /\ \A r \in Requests \ {q} : req'[r] = req[r]
  BY MoveMeans DEF Expire, ExpireFails, Pcs, IInv
<1>2. req[q].pc = "expire" /\ UNCHANGED <<limiter, count, passed>>
  BY DEF Expire, ExpireFails, At
<1>3. Pending' = Pending
  BY <1>1, <1>2, PendingSame DEF Pending
<1>4. Cardinality(Pending') = Cardinality(Pending)
  BY <1>3
<1>5. PlacesHeld'
  BY <1>1, <1>2, <1>4 DEF IInv, PlacesHeld, Counted
<1>6. CASE Expire(q)
  <2>1. /\ lost' = FALSE /\ (count = None => ttl' = ttl) /\ (count # None => ttl' = Window)
        /\ Window \in 1..Window
    BY <1>6, BoundsAssumption DEF Expire
  <2> QED BY <1>1, <1>2, <1>5, <2>1, NoneAssumption, BoundsAssumption
          DEF IInv, TypeOK, TTLIsComing
<1>7. CASE ExpireFails(q)
  <2>1. /\ ttl' = ttl /\ lost' \in BOOLEAN /\ (lost => lost')
        /\ (count # None /\ ttl = None => lost')
    BY <1>7 DEF ExpireFails, IInv, TypeOK
  <2> QED BY <1>1, <1>2, <1>5, <2>1 DEF IInv, TypeOK, TTLIsComing
<1> QED BY <1>6, <1>7

LEMMA DecideOn == ASSUME IInv, NEW q \in Requests, Decide(q) PROVE IInv'
<1>0. PICK pc \in {"served", "refused"} : Move(q, pc)
  BY DEF Decide
<1>1. /\ req' \in [Requests -> Request] /\ req'[q].pc = pc
      /\ req'[q].n = req[q].n /\ req'[q].current = req[q].current
      /\ \A r \in Requests \ {q} : req'[r] = req[r]
  BY <1>0, MoveMeans DEF Pcs, IInv
<1>2. req[q].pc = "decide" /\ UNCHANGED <<limiter, count, ttl, lost>>
  BY DEF Decide, At
<1>3. passed' = passed \/ (req[q].n <= MaxAttempts /\ req[q].current /\ passed' = passed + 1)
  BY BoundsAssumption DEF Decide, IInv, TypeOK, Request
<1>4. TypeOK' /\ TTLIsComing'
  BY <1>1, <1>2, <1>3 DEF IInv, TypeOK, TTLIsComing, At
<1>5. q \notin Pending'
  BY <1>1 DEF Pending
<1>6. /\ Cardinality(Pending') <= Cardinality(Pending)
      /\ q \in Pending => Cardinality(Pending') = Cardinality(Pending) - 1
  BY <1>1, <1>5, PendingShrinks
<1>7. Counted' = Counted /\ Counted \in Nat /\ passed \in Nat
  BY <1>2, CountedMeans DEF Counted, IInv, TypeOK
<1>8. passed' + Cardinality(Pending') <= Counted'
  <2>1. CASE passed' = passed
    BY <1>6, <1>7, <2>1, PendingFinite, PendingFiniteNext DEF IInv, PlacesHeld
  <2>2. CASE req[q].n <= MaxAttempts /\ req[q].current /\ passed' = passed + 1
    <3>1. q \in Pending
      BY <1>2, <2>2 DEF Pending
    <3> QED BY <1>6, <1>7, <2>2, <3>1, PendingFinite, PendingFiniteNext DEF IInv, PlacesHeld
  <2> QED BY <1>3, <2>1, <2>2
<1> QED BY <1>1, <1>2, <1>4, <1>8 DEF IInv, PlacesHeld

(* A request that leaves, or breaks off and gives its place up.            *)
LEMMA LeaveOn == ASSUME IInv, NEW q \in Requests, Leave(q) \/ Abort(q) PROVE IInv'
<1>1. /\ req' \in [Requests -> Request] /\ req'[q] = IdleRequest
      /\ \A r \in Requests \ {q} : req'[r] = req[r]
      /\ UNCHANGED <<limiter, count, ttl, passed>>
  BY IdleTyped DEF Leave, Abort, Goto, IInv, TypeOK
<1>2. /\ lost' \in BOOLEAN /\ (lost => lost')
      /\ (At(q, "expire") /\ count # None /\ ttl = None => lost')
  BY DEF Leave, Abort, At, IInv, TypeOK
<1>3. TypeOK' /\ TTLIsComing'
  BY <1>1, <1>2 DEF IInv, TypeOK, TTLIsComing, At
<1>4. q \notin Pending'
  BY <1>1, IdleTyped DEF Pending
<1>5. Cardinality(Pending') <= Cardinality(Pending)
  BY <1>1, <1>4, PendingShrinks
<1>6. Counted' = Counted /\ Counted \in Nat /\ passed \in Nat
  BY <1>1, CountedMeans DEF Counted, IInv, TypeOK
<1>7. passed' + Cardinality(Pending') <= Counted'
  BY <1>1, <1>5, <1>6, PendingFinite, PendingFiniteNext DEF IInv, PlacesHeld
<1> QED BY <1>1, <1>3, <1>7, IdleTyped DEF IInv, PlacesHeld

(* The key expires or is evicted, and the places with it.                  *)
LEMMA GoneOn == ASSUME IInv, KeyGone PROVE IInv'
<1>1. /\ count' = None /\ ttl' = None /\ passed' = 0 /\ lost' = FALSE /\ UNCHANGED limiter
      /\ req' = [q \in Requests |-> [req[q] EXCEPT !.current = FALSE]]
  BY DEF KeyGone
<1>2. \A q \in Requests : [req[q] EXCEPT !.current = FALSE] \in Request
  BY DEF IInv, TypeOK, Request
<1>3. \A q \in Requests : ~req'[q].current
  BY <1>1 DEF IInv, TypeOK, Request
<1>4. Pending' = {}
  BY <1>3 DEF Pending
<1>5. Cardinality(Pending') = 0
  BY <1>4, FS_EmptySet
<1>6. Counted' = 0
  BY <1>1 DEF Counted
<1>7. TypeOK' /\ TTLIsComing'
  BY <1>1, <1>2 DEF IInv, TypeOK, TTLIsComing
<1> QED BY <1>1, <1>3, <1>5, <1>6, <1>7 DEF IInv, PlacesHeld

LEMMA TickOn == ASSUME IInv, Tick PROVE IInv'
<1>1. CASE ttl = 1
  BY <1>1, GoneOn DEF Tick
<1>2. CASE ttl # 1
  <2>1. ttl' = ttl - 1 /\ ttl # None /\ UNCHANGED <<limiter, count, req, passed, lost>>
    BY <1>2 DEF Tick
  <2>2. ttl' \in 1..Window /\ ttl' # None
    BY <1>2, <2>1, NoneAssumption, BoundsAssumption DEF IInv, TypeOK
  <2>3. Cardinality(Pending') = Cardinality(Pending)
    BY <2>1 DEF Pending
  <2> QED BY <2>1, <2>2, <2>3 DEF IInv, TypeOK, TTLIsComing, At, PlacesHeld, Counted
<1> QED BY <1>1, <1>2

------------------------------------------------------------------------------
LEMMA InvariantStarts == Init => IInv
<1> SUFFICES ASSUME Init PROVE IInv
  OBVIOUS
<1>1. TypeOK /\ TTLIsComing /\ \A q \in Requests : ~req[q].current
  BY IdleTyped DEF Init, TypeOK, TTLIsComing
<1>2. Pending = {}
  BY <1>1 DEF Pending
<1>3. Cardinality(Pending) = 0 /\ Counted = 0 /\ passed = 0
  BY <1>2, FS_EmptySet DEF Init, Counted
<1> QED BY <1>1, <1>3 DEF IInv, PlacesHeld

LEMMA InvariantKept == IInv /\ [Next]_vars => IInv'
<1> SUFFICES ASSUME IInv, [Next]_vars PROVE IInv'
  OBVIOUS
<1>1. ASSUME NEW q \in Requests, Arrive(q) PROVE IInv'
  BY <1>1, PassOn DEF Arrive, At, Pcs
<1>2. ASSUME NEW q \in Requests, Step(q) PROVE IInv'
  <2>1. PICK outcome \in Outcomes : Commands(q, outcome)
    BY <1>2, StepMeans
  <2>2. CASE OnError(q, outcome)
    BY <2>2, PassOn DEF OnError, At, Pcs, Outcomes
  <2> QED BY <2>1, <2>2, SetOn, IncrOn, ExpireOn, DecideOn, LostOn DEF Commands
<1>3. CASE UNCHANGED vars
  <2>1. Cardinality(Pending') = Cardinality(Pending)
    BY <1>3 DEF vars, Pending
  <2> QED BY <1>3, <2>1 DEF vars, IInv, TypeOK, TTLIsComing, At, PlacesHeld, Counted
<1> QED BY <1>1, <1>2, <1>3, LeaveOn, TickOn, GoneOn DEF Next, Evict

(* The counter, its TTL and the requests' locals keep their types.         *)
THEOREM TypeCorrect == Spec => []TypeOK
BY InvariantStarts, InvariantKept, PTL DEF Spec, IInv

(* No order of commands and no failure lets a window pass more than its    *)
(* limit, whatever the limit, the window and the number of requests.       *)
THEOREM LimitHolds == Spec => []WithinLimit
<1>1. IInv => WithinLimit
  <2> SUFFICES ASSUME IInv PROVE passed <= MaxAttempts
    BY DEF WithinLimit
  <2>1. Counted \in 0..MaxAttempts /\ passed \in Nat /\ MaxAttempts \in Nat
    BY CountedMeans, BoundsAssumption DEF IInv, TypeOK
  <2> QED BY <2>1, PendingFinite DEF IInv, PlacesHeld
<1> QED BY <1>1, InvariantStarts, InvariantKept, PTL DEF Spec

(* A key lacks its TTL only while somebody owes it, or failed to.          *)
THEOREM TTLIsOwed == Spec => []TTLIsComing
BY InvariantStarts, InvariantKept, PTL DEF Spec, IInv
==============================================================================
