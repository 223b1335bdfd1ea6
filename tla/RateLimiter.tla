---------------------------- MODULE RateLimiter ----------------------------
(***************************************************************************)
(* DistributedRateLimiter.is_allowed (rate_limiter.py) for one client_id:  *)
(* a caller reads its clock, then sends one MULTI/EXEC that forgets the    *)
(* requests outside the window of that reading, counts the rest, records   *)
(* the reading and renews the key's expiry.  Any number of callers share   *)
(* the key, and a transaction may run long after its clock was read.       *)
(*                                                                         *)
(* The sorted set holds clock readings: two requests with equal readings   *)
(* are one member.  Callers and Redis are taken to share one clock.        *)
(***************************************************************************)
EXTENDS Integers, FiniteSets

CONSTANTS
  Callers,
  Max,      \* max_requests
  Window,   \* window_seconds
  Grace,    \* the 5 s by which the key outlives the window
  MaxTime   \* bound: the last tick

ASSUME LimiterAssumption ==
  /\ Max \in Nat
  /\ Window \in Nat \ {0}
  /\ Grace \in Nat
  /\ MaxTime \in Nat

Time == 0 .. MaxTime

VARIABLES
  now,
  hits,     \* members of the sorted set rate_limit:<client_id>
  expires,  \* when the key expires; it does not exist if that is past
  call,     \* per caller: ready, asked (clock read), then the answer
  stamp,    \* per caller: its last clock reading
  seen,     \* readings recorded so far (no such key: history)
  granted   \* readings admitted by the count (no such key: history)

vars == <<now, hits, expires, call, stamp, seen, granted>>

Init ==
  /\ now = 0 /\ hits = {} /\ expires = 0
  /\ call = [c \in Callers |-> "ready"]
  /\ stamp = [c \in Callers |-> 0]
  /\ seen = {} /\ granted = {}

(* is_allowed begins.  A caller's own readings grow from call to call.      *)
Ask(c) ==
  /\ call[c] # "asked"
  /\ now > stamp[c]
  /\ call' = [call EXCEPT ![c] = "asked"]
  /\ stamp' = [stamp EXCEPT ![c] = now]
  /\ UNCHANGED <<now, hits, expires, seen, granted>>

(* Variant (RefusalIsJustified): nothing is forgotten. *)
KeptAll(s) == hits

(* ZREMRANGEBYSCORE key 0 s-Window, then ZCARD. *)
Kept(s) == {t \in hits : t > s - Window}

(* Variant (TypeOK): the end of the window is recorded, not the reading. *)
MemberIsEnd(s) == s + Window

Member(s) == s

Expiry == now + Window + Grace

(* ZADD and EXPIRE, with the ZREMRANGEBYSCORE before them. *)
Record(s) ==
  /\ hits' = Kept(s) \cup {Member(s)}
  /\ expires' = Expiry
  /\ seen' = seen \cup {s}

(* Variant (WindowBound): one more. *)
AdmitsOneMore(n) == n <= Max + 1

(* ZCARD came before ZADD, and the code refuses only above max_requests.    *)
Admits(n) == n <= Max

Judge(c) ==
  /\ call[c] = "asked"
  /\ Record(stamp[c])
  /\ IF Admits(Cardinality(Kept(stamp[c])))
       THEN /\ call' = [call EXCEPT ![c] = "allowed"]
            /\ granted' = granted \cup {stamp[c]}
       ELSE /\ call' = [call EXCEPT ![c] = "refused"]
            /\ UNCHANGED granted
  /\ UNCHANGED <<now, stamp>>

(* The transaction raised, before or after it ran: the request is allowed.  *)
FailOpen(c) ==
  /\ call[c] = "asked"
  /\ Record(stamp[c]) \/ UNCHANGED <<hits, expires, seen>>
  /\ call' = [call EXCEPT ![c] = "allowed"]
  /\ UNCHANGED <<now, stamp, granted>>

Tick ==
  /\ now < MaxTime
  /\ now' = now + 1
  /\ hits' = IF now + 1 >= expires THEN {} ELSE hits
  /\ UNCHANGED <<expires, call, stamp, seen, granted>>

Next == (\E c \in Callers : Ask(c) \/ Judge(c) \/ FailOpen(c)) \/ Tick

Spec == Init /\ [][Next]_vars

-----------------------------------------------------------------------------

(* Every variable stays in its range. *)
TypeOK ==
  /\ now \in Time
  /\ hits \subseteq 0 .. now
  /\ expires \in 0 .. now + Window + Grace
  /\ call \in [Callers -> {"ready", "asked", "allowed", "refused"}]
  /\ stamp \in [Callers -> 0 .. now]
  /\ seen \subseteq 0 .. now
  /\ granted \subseteq seen

Recent(S) == {t \in S : t > now - Window}

(* Neither a slow transaction nor the expiry of the key makes the limiter   *)
(* forget a request of the last window (ZREMRANGEBYSCORE, EXPIRE).          *)
WindowIsRemembered == Recent(seen) \subseteq hits

(* However calls interleave and however late they reach Redis, at most      *)
(* max_requests + 1 readings of the last window were admitted by the count  *)
(* (ZCARD before ZADD, and > in the comparison).                            *)
WindowBound == Cardinality(Recent(granted)) <= Max + 1

(* A request is refused only if more than max_requests others, refused ones *)
(* included, were recorded within its window or later.                      *)
RefusalIsJustified ==
  [][\A c \in Callers : call[c] = "asked" /\ call'[c] = "refused" =>
       Cardinality({t \in seen : t > stamp[c] - Window}) > Max]_vars

(* The inductive invariant: besides, the sorted set holds recorded readings *)
(* only, and an existing key outlives the window of each of them.           *)
LimiterInv ==
  /\ TypeOK
  /\ WindowIsRemembered /\ WindowBound
  /\ hits \subseteq seen
  /\ \A t \in seen : t + Window + Grace <= expires

=============================================================================
