---------------------------- MODULE EventLedger ----------------------------
(***************************************************************************)
(* The event pipeline: producers, orchestrator instances, fault-recovery   *)
(* daemons and the compactor, sharing one stream, its consumer group and   *)
(* the SQLite audit table.  Their steps interleave freely.                 *)
(***************************************************************************)
EXTENDS Orchestrator, FaultRecovery, Compactor

vars == <<streamVars, orchVars, recoveryVars, compacting>>

Init == StreamInit /\ OrchInit /\ RecoveryInit /\ CompactorInit

Produce == XAdd /\ UNCHANGED <<orchVars, recoveryVars, compacting>>

Elapse ==
  \E e \in Events :
    IdleTimePasses(e) /\ UNCHANGED <<orchVars, recoveryVars, compacting>>

Orchestrate == OrchNext /\ UNCHANGED <<recoveryVars, compacting>>

Recover == RecoveryNext /\ UNCHANGED <<orchVars, compacting>>

Tidy == CompactorNext /\ UNCHANGED <<orchVars, recoveryVars>>

Next == Produce \/ Elapse \/ Orchestrate \/ Recover \/ Tidy

Spec == Init /\ [][Next]_vars

-----------------------------------------------------------------------------

(* Every variable stays in its range. *)
TypeOK ==
  /\ StreamTypeOK /\ OrchTypeOK /\ RecoveryTypeOK
  /\ compacting \in BOOLEAN

(* No two instances ever process the same event, even while the lock has    *)
(* expired under one and been taken by another: only the consumer group     *)
(* keeps them apart (orchestrator.py, run_event_listener_loop).             *)
SoleHandler ==
  \A i, j \in Instances : i # j /\ hand[i] # NoEvent => hand[i] # hand[j]

(* INSERT never meets a row with the same primary key, committed or in an   *)
(* open transaction left behind by a failed commit: no interleaving of      *)
(* lock loss, throttling, recovery and late commits processes an event      *)
(* twice (process_transaction_event, id TEXT PRIMARY KEY).                  *)
NoKeyConflict ==
  \A i \in Instances : pc[i] = "insert" => ~KeyTaken(i)

(* An entry that has left the pending list has an audit row, or some log    *)
(* has an error or a recovery warning for it: whichever of the orchestrator *)
(* and the daemon acknowledges first, and wherever they die in between.     *)
(* (An entry that the compactor evicts unread never was in that list.)      *)
NoSilentLoss ==
  \A e \in Events : pel[e] = Gone => e \in rows \cup errorLog \cup recoveryLog

(* While an instance works on an event, the event is pending for it, or     *)
(* acknowledged or held by a daemon that warned about taking it.            *)
HandIsPendingOrHijacked ==
  \A i \in Instances :
    hand[i] # NoEvent => pel[hand[i]] = i \/ hand[i] \in recoveryLog

(* The group was created at id 0, so an entry behind the group's cursor was *)
(* delivered, or evicted before any instance could read it: creating the    *)
(* group late, or again, skips nothing.                                     *)
CursorSkipsOnlyEvicted ==
  \A e \in Events : e <= cursor /\ pel[e] = Unread => e \notin stream

(* The trim that compact_event_stream means evicts an entry nobody has read *)
(* only while more than max_length unread entries are stored, whatever is   *)
(* added and read between XINFO and XTRIM.                                  *)
UnreadStored == {e \in stream : pel[e] = Unread}

EvictsUnreadOnlyOnBacklog ==
  [][UnreadStored \subseteq stream' \/ Cardinality(UnreadStored) > MaxLength]_vars

-----------------------------------------------------------------------------

(* The parts an induction needs besides the properties above.               *)
HandShape ==
  \A i \in Instances :
    hand[i] # NoEvent <=> pc[i] \in {"admit", "insert", "commit", "ack"}

DeliveredIsBehindCursor == \A e \in Events : pel[e] # Unread => e <= cursor

NoGroupNoCursor == ~group => cursor = 0

UnreadIsUntouched ==
  \A e \in Events : pel[e] = Unread =>
    /\ e \notin rows
    /\ \A i \in Instances : e \notin txn[i] /\ e # hand[i]
    /\ \A d \in Daemons : e \notin todo[d] /\ e # claim[d]

HandIsFresh ==
  \A i \in Instances : pc[i] \in {"admit", "insert"} =>
    hand[i] \notin rows /\ \A j \in Instances : hand[i] \notin txn[j]

InsertedIsOpen == \A i \in Instances : pc[i] = "commit" => hand[i] \in txn[i]

AckIsAccounted ==
  \A i \in Instances : pc[i] = "ack" => hand[i] \in rows \cup errorLog

OpenRowsAreNew ==
  \A i \in Instances :
    /\ txn[i] \cap rows = {}
    /\ \A j \in Instances : i # j => txn[i] \cap txn[j] = {}

ClaimIsLogged ==
  \A d \in Daemons : claim[d] # NoTask => claim[d] \in recoveryLog

(* The inductive invariant of the pipeline: who holds an event, where its   *)
(* row is, and what the pending list says of it stay consistent.            *)
LedgerInv ==
  /\ TypeOK
  /\ HandShape /\ DeliveredIsBehindCursor /\ NoGroupNoCursor
  /\ UnreadIsUntouched /\ HandIsFresh /\ InsertedIsOpen
  /\ AckIsAccounted /\ OpenRowsAreNew /\ ClaimIsLogged
  /\ SoleHandler /\ HandIsPendingOrHijacked
  /\ CursorSkipsOnlyEvicted /\ NoSilentLoss

-----------------------------------------------------------------------------

(* What the pipeline promises about each entry, without its machinery.      *)
Phase(e) ==
  CASE e > published -> "absent"
    [] e <= published /\ pel[e] = Unread -> "queued"
    [] e <= published /\ pel[e] \in Consumers -> "taken"
    [] e <= published /\ pel[e] = Gone -> "settled"

Trail == INSTANCE AuditTrail WITH
  Entries <- Events,
  phase <- [e \in Events |-> Phase(e)],
  audited <- rows,
  reported <- errorLog \cup recoveryLog

(* The pipeline implements AuditTrail. *)
TrailSpec == Trail!Spec

-----------------------------------------------------------------------------

(* Fairness.  A running instance keeps taking steps: its loop awaits only   *)
(* calls that return.                                                       *)
InstancesRun ==
  \A i \in Instances : WF_vars(Work(i) /\ UNCHANGED <<recoveryVars, compacting>>)

(* What StaleIsCleared is refuted under: time passes, and somebody starts    *)
(* the recovery program again whenever an audit has something to do, which   *)
(* docker-compose.yml does not (one start, no restart policy).  It is more   *)
(* than the code gets, and still not enough.                                 *)
ClocksRun ==
  \A e \in Events :
    WF_vars(IdleTimePasses(e) /\ UNCHANGED <<orchVars, recoveryVars, compacting>>)

DaemonsRun ==
  \A d \in Daemons :
    /\ WF_vars(Audit(d) /\ UNCHANGED <<orchVars, compacting>>)
    /\ SF_vars(Claim(d) /\ UNCHANGED <<orchVars, compacting>>)
    /\ SF_vars(RecoverAck(d) /\ UNCHANGED <<orchVars, compacting>>)

MaintenanceSpec == Spec /\ ClocksRun /\ DaemonsRun

(* If an instance serves for ever, every stored entry is delivered or       *)
(* evicted, whatever the rate limiter, the store, the other instances and   *)
(* the daemon do (run_event_listener_loop).                                 *)
BacklogDrains ==
  InstancesRun /\ (\E i \in Instances : <>[]Serving(i)) =>
    \A e \in Events : e \in stream ~> (pel[e] # Unread \/ e \notin stream)

-----------------------------------------------------------------------------
(* What docs and comments say of the pipeline, and the code does not do.    *)

(* orchestrator.py:79, "Secure single-instance distributed lock execution   *)
(* safety": at most one instance is in the listener loop.                   *)
SingleInstance ==
  \A i, j \in Instances : i # j => ~(Serving(i) /\ Serving(j))

(* orchestrator.py:140, the acknowledgement follows the processing of the   *)
(* event: an entry that the orchestrator acknowledged has its row.          *)
AckedIsCommitted ==
  \A e \in Events : pel[e] = Gone /\ e \notin recoveryLog => e \in rows

(* fault_recovery.py:24, "Hijacks dead tasks using XCLAIM": an entry that   *)
(* stays pending for too long is cleared from the pending list.             *)
StaleIsCleared == \A e \in Events : e \in stale ~> pel[e] = Gone

=============================================================================
