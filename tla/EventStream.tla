---------------------------- MODULE EventStream ----------------------------
(***************************************************************************)
(* The Redis stream afaos:stream:event_ledger and its one consumer group   *)
(* afaos:group:orchestrator_workers.  Redis itself is not part of the      *)
(* repository: each operator below is one command, atomic at the server,   *)
(* as orchestrator.py, event_broker.py, fault_recovery.py and              *)
(* telemetry_compactor.py call it.  Entry ids grow with every XADD, so an  *)
(* entry is its position 1, 2, 3, ...                                      *)
(*                                                                         *)
(* Here and in the other modules a definition whose comment begins with    *)
(* "Variant" is a plausible slip, no part of the specification: put in     *)
(* place of the definition that follows it, it breaks the property named.  *)
(***************************************************************************)
EXTENDS Naturals, FiniteSets

CONSTANTS
  MaxEvents,     \* bound: entries ever added to the stream
  Instances,     \* orchestrator processes; each run draws a fresh uuid4
  Recovery,      \* the consumer name fault_recovery_daemon
  Unread, Gone,  \* an entry never delivered / delivered and out of the PEL
  NodeSize       \* entries XTRIM with approximate=True evicts at a time

Consumers == Instances \cup {Recovery}

ASSUME StreamAssumption ==
  /\ MaxEvents \in Nat
  /\ NodeSize \in Nat \ {0}
  /\ Recovery \notin Instances
  /\ Unread \notin Consumers /\ Gone \notin Consumers /\ Unread # Gone

Events == 1 .. MaxEvents

VARIABLES
  published,  \* number of XADDs so far, i.e. the last entry id
  stream,     \* the entries still stored
  group,      \* has the consumer group been created?
  cursor,     \* the group's last-delivered-id
  pel,        \* per entry: Unread, the consumer it is pending for, or Gone
  stale       \* pending entries idle for longer than idle_timeout_ms

streamVars == <<published, stream, group, cursor, pel, stale>>

StreamInit ==
  /\ published = 0
  /\ stream = {}
  /\ group = FALSE
  /\ cursor = 0
  /\ pel = [e \in Events |-> Unread]
  /\ stale = {}

Pending == {e \in Events : pel[e] \in Consumers}

-----------------------------------------------------------------------------

(* XADD: EventBroker.publish_event, or any other producer. *)
XAdd ==
  /\ published < MaxEvents
  /\ published' = published + 1
  /\ stream' = stream \cup {published + 1}
  /\ UNCHANGED <<group, cursor, pel, stale>>

(* Variant (CursorSkipsOnlyEvicted, BacklogDrains): id="$". *)
GroupAtEnd == published

(* id="0": the group starts in front of the first entry. *)
GroupStart == 0

(* Variant (NoKeyConflict): an existing group is positioned again. *)
XGroupReset ==
  /\ group' = TRUE
  /\ cursor' = GroupStart
  /\ UNCHANGED <<published, stream, pel, stale>>

(* XGROUP CREATE: on an existing group it fails and changes nothing. *)
XGroupCreate ==
  /\ group' = TRUE
  /\ cursor' = IF group THEN cursor ELSE GroupStart
  /\ UNCHANGED <<published, stream, pel, stale>>

(* XREADGROUP ... {stream: ">"} count=1: the oldest stored entry the group   *)
(* has not delivered yet becomes pending for the reader.                     *)
NextUnread(e) ==
  /\ e \in stream
  /\ e > cursor
  /\ \A f \in stream : f > cursor => e <= f

(* Variant (SoleHandler): a read by entry id, which does not move the cursor. *)
XReadAgain(c, e) ==
  /\ group
  /\ NextUnread(e)
  /\ pel' = [pel EXCEPT ![e] = c]
  /\ stale' = stale \ {e}
  /\ UNCHANGED <<published, stream, group, cursor>>

XReadGroup(c, e) ==
  /\ group
  /\ NextUnread(e)
  /\ cursor' = e
  /\ pel' = [pel EXCEPT ![e] = c]
  /\ stale' = stale \ {e}
  /\ UNCHANGED <<published, stream, group>>

(* XACK: whoever sends it, the entry leaves the pending list. *)
XAck(e) ==
  /\ pel' = [pel EXCEPT ![e] = Gone]
  /\ stale' = stale \ {e}
  /\ UNCHANGED <<published, stream, group, cursor>>

(* XCLAIM with min_idle_time: the entry changes hands and its idle time      *)
(* restarts, unless another claim or an ack came first.                      *)
Claimable(e) == e \in stale /\ e \in stream

XClaim(c, e) ==
  /\ Claimable(e)
  /\ pel' = [pel EXCEPT ![e] = c]
  /\ stale' = stale \ {e}
  /\ UNCHANGED <<published, stream, group, cursor>>

(* XCLAIM of a pending entry the stream no longer stores, however long it    *)
(* has been idle, deletes it from the pending list and returns nothing.      *)
XClaimDeleted(e) ==
  /\ e \in Pending \ stream
  /\ XAck(e)

(* Variant (EvictsUnreadOnlyOnBacklog): a node too many. *)
TrimmedTooFar(n) ==
  LET excess == Cardinality(stream) - n
  IN {e \in stream : excess > 0 /\ Cardinality({f \in stream : f <= e}) <= excess + NodeSize}

(* XTRIM MAXLEN ~ n: whole nodes of the oldest entries go, and never an      *)
(* entry among the n newest ones.                                            *)
Trimmed(n) ==
  LET excess == Cardinality(stream) - n
      evicted == NodeSize * (excess \div NodeSize)
  IN {e \in stream : excess > 0 /\ Cardinality({f \in stream : f <= e}) <= evicted}

XTrim(n) ==
  /\ stream' = stream \ Trimmed(n)
  /\ UNCHANGED <<published, group, cursor, pel, stale>>

(* Time passes: a pending entry has been idle for more than the timeout. *)
IdleTimePasses(e) ==
  /\ e \in Pending \ stale
  /\ stale' = stale \cup {e}
  /\ UNCHANGED <<published, stream, group, cursor, pel>>

StreamTypeOK ==
  /\ published \in 0 .. MaxEvents
  /\ stream \subseteq 1 .. published
  /\ group \in BOOLEAN
  /\ cursor \in 0 .. published
  /\ pel \in [Events -> Consumers \cup {Unread, Gone}]
  /\ stale \subseteq Pending

=============================================================================
