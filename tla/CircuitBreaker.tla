--------------------------- MODULE CircuitBreaker ---------------------------
(***************************************************************************)
(* DistributedCircuitBreaker (circuit_breaker.py): processes share three   *)
(* Redis keys and guard their calls of one service with can_execute,       *)
(* record_success and record_failure.  A step is one Redis command with    *)
(* the code that follows it up to the next one: no operation is atomic.    *)
(* Time is counted in ticks; a stamp of time.time() is the number of ticks *)
(* since, up to Cooldown + 1, and an absent stamp (0) is as old as any.    *)
(***************************************************************************)
EXTENDS Naturals

CONSTANTS
  Clients,
  Threshold,   \* failure_threshold
  Cooldown,    \* recovery_timeout
  RedisFaults  \* may Redis commands fail for a time?

ASSUME BreakerAssumption ==
  /\ Threshold \in Nat \ {0}
  /\ Cooldown \in Nat
  /\ RedisFaults \in BOOLEAN

Stale == Cooldown + 1

VARIABLES
  state,     \* state_key: absent, CLOSED, OPEN or HALF-OPEN
  failures,  \* fail_count_key, counted up to Threshold
  since,     \* ticks since the stamp under last_state_change_key
  opened,    \* ticks since a process last set state to OPEN (history)
  pc,        \* per client: the next command
  tally,     \* per client: the failure count that INCR answered
  healthy,   \* does the service answer?
  reliable,  \* does every Redis command succeed?
  clean      \* no operation has failed half-way, and no starting process has
             \* overwritten a trip (no such key: history)

world == <<healthy, reliable, clean>>
vars == <<state, failures, since, opened, pc, tally, world>>

(* boot, boot set: initialize.  idle: outside the breaker.  cooldown,       *)
(* probe, probed: can_execute after OPEN.  call: the guarded call.  incr,   *)
(* judge, trip, tripped: record_failure.  success, close, clear:            *)
(* record_success.                                                          *)
ControlPoint ==
  {"boot", "boot set", "idle", "cooldown", "probe", "probed", "call",
   "incr", "judge", "trip", "tripped", "success", "close", "clear"}

Init ==
  /\ state = "absent"
  /\ failures = 0
  /\ since = Stale /\ opened = Stale
  /\ pc = [c \in Clients |-> "boot"]
  /\ tally = [c \in Clients |-> 0]
  /\ healthy = TRUE /\ reliable = TRUE /\ clean = TRUE

Goto(c, from, to) ==
  /\ pc[c] = from
  /\ pc' = [pc EXCEPT ![c] = to]

(* get_current_state *)
Current == IF state = "absent" THEN "CLOSED" ELSE state

-----------------------------------------------------------------------------
(* initialize *)

Boot(c) ==
  /\ Goto(c, "boot", IF state = "absent" THEN "boot set" ELSE "idle")
  /\ UNCHANGED <<state, failures, since, opened, tally, world>>

BootSet(c) ==
  /\ Goto(c, "boot set", "idle")
  /\ state' = "CLOSED"
  /\ clean' = (clean /\ Current = "CLOSED")
  /\ UNCHANGED <<failures, since, opened, tally, healthy, reliable>>

-----------------------------------------------------------------------------
(* can_execute *)

Allow(c) ==
  /\ Goto(c, "idle", "call")
  /\ Current \in {"CLOSED", "HALF-OPEN"}
  /\ UNCHANGED <<state, failures, since, opened, tally, world>>

FindOpen(c) ==
  /\ Goto(c, "idle", "cooldown")
  /\ Current = "OPEN"
  /\ UNCHANGED <<state, failures, since, opened, tally, world>>

(* Variant (ServiceResumes): the cooldown never ends. *)
JudgeCooldownNever(c) ==
  /\ Goto(c, "cooldown", "idle")
  /\ UNCHANGED <<state, failures, since, opened, tally, world>>

(* GET last_change, compared with the clock. *)
JudgeCooldown(c) ==
  /\ Goto(c, "cooldown", IF since > Cooldown THEN "probe" ELSE "idle")
  /\ UNCHANGED <<state, failures, since, opened, tally, world>>

(* Variant (SharedTypeOK): the state is written under a misspelt name. *)
SetHalfOpenMisspelt(c) ==
  /\ Goto(c, "probe", "probed")
  /\ state' = "HALF_OPEN"
  /\ UNCHANGED <<failures, since, opened, tally, world>>

SetHalfOpen(c) ==
  /\ Goto(c, "probe", "probed")
  /\ state' = "HALF-OPEN"
  /\ UNCHANGED <<failures, since, opened, tally, world>>

StampHalfOpen(c) ==
  /\ Goto(c, "probed", "call")
  /\ since' = 0
  /\ UNCHANGED <<state, failures, opened, tally, world>>

-----------------------------------------------------------------------------
(* The guarded call, then record_failure or record_success *)

Answer(c) ==
  /\ Goto(c, "call", IF healthy THEN "success" ELSE "incr")
  /\ UNCHANGED <<state, failures, since, opened, tally, world>>

CountFailure(c) ==
  /\ Goto(c, "incr", "judge")
  /\ failures' = IF failures < Threshold THEN failures + 1 ELSE failures
  /\ tally' = [tally EXCEPT ![c] = failures']
  /\ UNCHANGED <<state, since, opened, world>>

(* Variant (TripIsNotForgotten): > in place of >=. *)
JudgeFailureLate(c) ==
  /\ Goto(c, "judge",
          IF tally[c] > Threshold \/ Current = "HALF-OPEN" THEN "trip" ELSE "idle")
  /\ UNCHANGED <<state, failures, since, opened, tally, world>>

JudgeFailure(c) ==
  /\ Goto(c, "judge",
          IF tally[c] >= Threshold \/ Current = "HALF-OPEN" THEN "trip" ELSE "idle")
  /\ UNCHANGED <<state, failures, since, opened, tally, world>>

(* Variant (StampFollowsTrip): the trip is not stamped. *)
SetOpenOnly(c) ==
  /\ Goto(c, "trip", "idle")
  /\ state' = "OPEN"
  /\ opened' = 0
  /\ UNCHANGED <<failures, since, tally, world>>

SetOpen(c) ==
  /\ Goto(c, "trip", "tripped")
  /\ state' = "OPEN"
  /\ opened' = 0
  /\ UNCHANGED <<failures, since, tally, world>>

StampOpen(c) ==
  /\ Goto(c, "tripped", "idle")
  /\ since' = 0
  /\ UNCHANGED <<state, failures, opened, tally, world>>

FindSuccess(c) ==
  /\ Goto(c, "success", IF Current = "CLOSED" THEN "clear" ELSE "close")
  /\ UNCHANGED <<state, failures, since, opened, tally, world>>

SetClosed(c) ==
  /\ Goto(c, "close", "clear")
  /\ state' = "CLOSED"
  /\ UNCHANGED <<failures, since, opened, tally, world>>

ClearFailures(c) ==
  /\ Goto(c, "clear", "idle")
  /\ failures' = 0
  /\ UNCHANGED <<state, since, opened, tally, world>>

-----------------------------------------------------------------------------

(* A Redis command raises: the operation ends there, after what it has      *)
(* written so far.  A process that cannot start starts again.               *)
Abort(c) ==
  /\ ~reliable
  /\ pc[c] \notin {"idle", "call"}
  /\ pc' = [pc EXCEPT ![c] = IF @ \in {"boot", "boot set"} THEN "boot" ELSE "idle"]
  /\ clean' = FALSE
  /\ UNCHANGED <<state, failures, since, opened, tally, healthy, reliable>>

Tick ==
  /\ since < Stale \/ opened < Stale
  /\ since' = IF since < Stale THEN since + 1 ELSE since
  /\ opened' = IF opened < Stale THEN opened + 1 ELSE opened
  /\ UNCHANGED <<state, failures, pc, tally, world>>

ServiceChanges ==
  /\ healthy' = ~healthy
  /\ UNCHANGED <<state, failures, since, opened, pc, tally, reliable, clean>>

RedisChanges ==
  /\ RedisFaults
  /\ reliable' = ~reliable
  /\ UNCHANGED <<state, failures, since, opened, pc, tally, healthy, clean>>

Step(c) ==
  \/ Boot(c) \/ BootSet(c)
  \/ Allow(c) \/ FindOpen(c) \/ JudgeCooldown(c) \/ SetHalfOpen(c) \/ StampHalfOpen(c)
  \/ Answer(c)
  \/ CountFailure(c) \/ JudgeFailure(c) \/ SetOpen(c) \/ StampOpen(c)
  \/ FindSuccess(c) \/ SetClosed(c) \/ ClearFailures(c)

Next == (\E c \in Clients : Step(c) \/ Abort(c)) \/ Tick \/ ServiceChanges \/ RedisChanges

Spec == Init /\ [][Next]_vars

(* Every process keeps calling the service, and time goes on. *)
FairSpec == Spec /\ WF_vars(Tick) /\ \A c \in Clients : WF_vars(Step(c))

-----------------------------------------------------------------------------

(* Every variable stays in its range. *)
TypeOK ==
  /\ state \in {"absent", "CLOSED", "OPEN", "HALF-OPEN"}
  /\ failures \in 0 .. Threshold
  /\ since \in 0 .. Stale /\ opened \in 0 .. Stale
  /\ pc \in [Clients -> ControlPoint]
  /\ tally \in [Clients -> 0 .. Threshold]
  /\ healthy \in BOOLEAN /\ reliable \in BOOLEAN /\ clean \in BOOLEAN

(* When no operation is under way and the circuit is CLOSED, the threshold  *)
(* has not been reached: unless a command failed or a starting process      *)
(* overwrote a trip, no interleaving of late successes, resets and trips    *)
(* forgets a trip that was due (record_failure, record_success).            *)
AtRest == \A c \in Clients : pc[c] \in {"idle", "call"}

TripIsNotForgotten ==
  clean /\ AtRest /\ Current = "CLOSED" => failures < Threshold

(* Its inductive invariant: a threshold reached while CLOSED has somebody   *)
(* on the way to trip the circuit, or to clear the count.                   *)
Settles(c) ==
  \/ pc[c] = "judge" /\ tally[c] = Threshold
  \/ pc[c] \in {"trip", "clear"}

TripInv ==
  /\ TypeOK
  /\ clean /\ Current = "CLOSED" /\ failures = Threshold =>
       \E c \in Clients : Settles(c)

(* The stamp is older than the last trip only while a process stands        *)
(* between the two SETs of record_failure (circuit_breaker.py:75-76), or    *)
(* after a command failed or a starting process overwrote a trip: in no     *)
(* other case do the processes cut the cooldown of a trip of theirs short.  *)
StampFollowsTrip ==
  clean /\ (\A c \in Clients : pc[c] # "tripped") => since <= opened

(* Once the service and Redis answer for good, the circuit ends up closed   *)
(* for good, whatever is still being recorded and whatever an operation     *)
(* that failed half-way left behind.                                        *)
ServiceResumes == <>[](healthy /\ reliable) => <>[](state = "CLOSED")

(* Once the service is down for good, and Redis is not, the circuit leaves  *)
(* CLOSED for good.                                                         *)
OutageTrips == <>[](~healthy /\ reliable) => <>[](state \in {"OPEN", "HALF-OPEN"})

=============================================================================
