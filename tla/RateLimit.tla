------------------------------- MODULE RateLimit -------------------------------
(***************************************************************************)
(* The rate limiters: one counter in Redis per limiter and subject, an     *)
(* address for the auth routes and else a user.  Every limiter sends the   *)
(* same three commands, SET NX with the window as TTL, INCR, and EXPIRE    *)
(* when the counter was 1, and none of them is in a transaction; they      *)
(* differ in what an error of Redis means.  No command touches two keys,   *)
(* so a behaviour is about one subject at one limiter.                     *)
(***************************************************************************)
EXTENDS Naturals, FiniteSets

CONSTANTS
  Requests,     \* requests of the subject that are handled at one time
  MaxAttempts,  \* requests a window admits (10 to 120 in the code)
  Window,       \* ticks of a window (1 to 15 minutes in the code)
  None          \* no key, no TTL

ASSUME NoneAssumption == None \notin Nat
ASSUME RequestsAssumption == IsFiniteSet(Requests)
ASSUME BoundsAssumption == MaxAttempts \in Nat \ {0} /\ Window \in Nat \ {0}

VARIABLES
  limiter,      \* the limiter the behaviour is about
  count,        \* the counter, None when the key does not exist
  ttl,          \* ticks until the key expires, None when it has no TTL
  req,          \* the local state of each request
  passed,       \* history: requests this window has counted and let through
  lost          \* history: the key lacks the TTL a failed command owed it

vars == <<limiter, count, ttl, req, passed, lost>>

Limiters == {"login", "register", "refresh", "post", "follow", "block", "bookmark",
             "report", "search", "reaction", "studio"}

Request ==
  [pc : {"idle", "setnx", "incr", "expire", "decide", "served", "refused", "unavailable"},
   n : Nat,               \* the reply of INCR
   current : BOOLEAN]     \* the window that counted the request is still open
IdleRequest == [pc |-> "idle", n |-> 0, current |-> FALSE]

Init ==
  /\ limiter \in Limiters
  /\ count = None /\ ttl = None
  /\ req = [q \in Requests |-> IdleRequest]
  /\ passed = 0 /\ lost = FALSE

At(q, pc) == req[q].pc = pc
Goto(q, local) == req' = [req EXCEPT ![q] = local]
Move(q, pc) == Goto(q, [req[q] EXCEPT !.pc = pc])

(* Counters above MaxAttempts are all alike (a bound).                     *)
Reply ==
  LET n == IF count = None THEN 1 ELSE count + 1
  IN IF n > MaxAttempts + 1 THEN MaxAttempts + 1 ELSE n
(* The request that made the counter sets its TTL; and nobody does.        *)
OwesNever(n) == n = 0
OwesTTL(n) == n = 1

------------------------------------------------------------------------------
(* The commands.                                                           *)

Arrive(q) ==
  /\ At(q, "idle")
  /\ Move(q, "setnx")
  /\ UNCHANGED <<limiter, count, ttl, passed, lost>>

(* SET key 0 NX with the TTL; and without NX.                              *)
SetAnyway(q) ==
  /\ At(q, "setnx")
  /\ count' = 0 /\ ttl' = Window
  /\ Move(q, "incr")
  /\ UNCHANGED <<limiter, passed, lost>>
SetNX(q) ==
  /\ At(q, "setnx")
  /\ IF count = None THEN count' = 0 /\ ttl' = Window ELSE UNCHANGED <<count, ttl>>
  /\ Move(q, "incr")
  /\ UNCHANGED <<limiter, passed, lost>>

(* INCR, which makes a missing key without a TTL.                          *)
Incr(q) ==
  /\ At(q, "incr")
  /\ count' = Reply
  /\ Goto(q, [pc |-> IF OwesTTL(Reply) THEN "expire" ELSE "decide",
              n |-> Reply, current |-> TRUE])
  /\ UNCHANGED <<limiter, ttl, passed, lost>>

(* EXPIRE does nothing to a missing key.                                   *)
Expire(q) ==
  /\ At(q, "expire")
  /\ ttl' = IF count = None THEN ttl ELSE Window
  /\ lost' = FALSE
  /\ Move(q, "decide")
  /\ UNCHANGED <<limiter, count, passed>>

(* Its error is logged and passed over.                                    *)
ExpireFails(q) ==
  /\ At(q, "expire")
  /\ lost' = (lost \/ (count # None /\ ttl = None))
  /\ Move(q, "decide")
  /\ UNCHANGED <<limiter, count, ttl, passed>>

Decide(q) ==
  /\ At(q, "decide")
  /\ IF req[q].n > MaxAttempts
     THEN Move(q, "refused") /\ UNCHANGED passed
     ELSE Move(q, "served") /\ passed' = IF req[q].current THEN passed + 1 ELSE passed
  /\ UNCHANGED <<limiter, count, ttl, lost>>

(* What an error of SET NX or INCR means: 503, or the request passes       *)
(* uncounted.                                                              *)
OnError(q, outcome) ==
  /\ At(q, "setnx") \/ At(q, "incr")
  /\ Move(q, outcome)
  /\ UNCHANGED <<limiter, count, ttl, passed, lost>>

(* The same when Redis did the INCR and only its reply was lost.           *)
ReplyLost(q, outcome) ==
  /\ At(q, "incr")
  /\ count' = Reply
  /\ lost' = (lost \/ count = None)
  /\ Move(q, outcome)
  /\ UNCHANGED <<limiter, ttl, passed>>

Commands(q, outcome) ==
  \/ SetNX(q) \/ Incr(q) \/ Expire(q) \/ ExpireFails(q) \/ Decide(q)
  \/ OnError(q, outcome) \/ ReplyLost(q, outcome)

FailClosed(q) == Commands(q, "unavailable")
FailOpen(q) == Commands(q, "served")

------------------------------------------------------------------------------
(* The limiters.                                                           *)

AuthRateLimit(q) == limiter \in {"login", "register", "refresh"} /\ FailClosed(q)
PostRateLimit(q) == limiter = "post" /\ FailClosed(q)
FollowRateLimit(q) == limiter = "follow" /\ FailClosed(q)
BlockRateLimit(q) == limiter = "block" /\ FailClosed(q)
BookmarkRateLimit(q) == limiter = "bookmark" /\ FailClosed(q)
ReportRateLimit(q) == limiter = "report" /\ FailClosed(q)
SearchRateLimit(q) == limiter = "search" /\ FailOpen(q)
ReactionRateLimit(q) == limiter = "reaction" /\ FailOpen(q)
StudioRateLimit(q) == limiter = "studio" /\ FailOpen(q)

(* The handler behind the limiter runs, or the error is written.           *)
Leave(q) ==
  /\ req[q].pc \in {"served", "refused", "unavailable"}
  /\ Goto(q, IdleRequest)
  /\ UNCHANGED <<limiter, count, ttl, passed, lost>>

(* The caller goes away or the process dies between two commands.          *)
Abort(q) ==
  /\ req[q].pc \in {"setnx", "incr", "expire", "decide"}
  /\ lost' = (lost \/ (At(q, "expire") /\ count # None /\ ttl = None))
  /\ Goto(q, IdleRequest)
  /\ UNCHANGED <<limiter, count, ttl, passed>>

(* The key goes, and with it the window.                                   *)
KeyGone ==
  /\ count' = None /\ ttl' = None /\ passed' = 0 /\ lost' = FALSE
  /\ req' = [q \in Requests |-> [req[q] EXCEPT !.current = FALSE]]
  /\ UNCHANGED limiter

Tick ==
  /\ ttl # None
  /\ IF ttl = 1 THEN KeyGone
     ELSE ttl' = ttl - 1 /\ UNCHANGED <<limiter, count, req, passed, lost>>

(* Redis restarts empty or evicts the key.                                 *)
Evict == count # None /\ KeyGone

Step(q) ==
  \/ AuthRateLimit(q) \/ PostRateLimit(q) \/ FollowRateLimit(q) \/ BlockRateLimit(q)
  \/ BookmarkRateLimit(q) \/ ReportRateLimit(q)
  \/ SearchRateLimit(q) \/ ReactionRateLimit(q) \/ StudioRateLimit(q)

Next ==
  \/ \E q \in Requests : Arrive(q) \/ Step(q) \/ Leave(q) \/ Abort(q)
  \/ Tick \/ Evict

Spec == Init /\ [][Next]_vars

(* Time passes, and a request runs in a goroutine of its own.              *)
FairSpec == Spec /\ WF_vars(Tick) /\ \A q \in Requests : WF_vars(Step(q))

------------------------------------------------------------------------------
(* Properties.                                                             *)

(* The counter, its TTL and the requests' locals keep their types.         *)
TypeOK ==
  /\ limiter \in Limiters
  /\ count \in Nat \cup {None}
  /\ ttl \in (1..Window) \cup {None} /\ (count = None => ttl = None)
  /\ req \in [Requests -> Request]
  /\ passed \in Nat /\ lost \in BOOLEAN

(* Of the requests a window has counted and answered, it lets MaxAttempts  *)
(* through at most, whatever the order of their commands, and also for a   *)
(* key that expired between two of them.  What a fail-open limiter admits  *)
(* because a command failed is not of these.                               *)
WithinLimit == passed <= MaxAttempts

(* A key without a TTL would count for ever and could "permanently lock    *)
(* out an IP" (auth/middleware.go): there is one only while the request    *)
(* that made it is about to set its TTL, unless that request broke off or  *)
(* its command failed.                                                     *)
TTLIsComing ==
  count # None /\ ttl = None => lost \/ \E q \in Requests : At(q, "expire")

(* "Set the TTL now to ensure the window always closes"                    *)
(* (auth/middleware.go): it does, unless a command that owed the key its   *)
(* TTL was lost.  Nothing else keeps a subject out for ever, not even      *)
(* late EXPIREs of earlier windows, which prolong the present one.         *)
WindowCloses == count # None ~> (count = None \/ lost)
==============================================================================
