---------------------------- MODULE Orchestrator ----------------------------
(***************************************************************************)
(* The orchestrator processes (orchestrator.py): lock, consumer group,     *)
(* listener loop, audit write, acknowledgement, shutdown.  A step is one   *)
(* awaited Redis call, or one SQLite call, with the code that follows it   *)
(* up to the next call.  process_transaction_event catches every           *)
(* exception, so a failed write is followed by XACK all the same.          *)
(***************************************************************************)
EXTENDS EventStream

CONSTANTS
  None,        \* the lock key is absent
  StoreFaults  \* may SQLite calls fail for reasons of their own (disk, busy)?

ASSUME OrchestratorAssumption ==
  /\ None \notin Consumers
  /\ StoreFaults \in BOOLEAN

NoEvent == 0

VARIABLES
  lock,      \* value of lock:workflow:<uuid>: its owner, or None
  rows,      \* committed rows of execution_audit_logs, by their primary key
  txn,       \* per instance: rows inserted and not committed
  pc, hand,  \* per instance: control point, and the event being processed
  errorLog   \* events with a "Failed to archive" error in the log

orchVars == <<lock, rows, txn, pc, hand, errorLog>>

ControlPoint == {"off", "group", "read", "admit", "insert", "commit", "ack",
                 "release", "unlock", "stopped"}

OrchInit ==
  /\ lock = None
  /\ rows = {}
  /\ txn = [i \in Instances |-> {}]
  /\ pc = [i \in Instances |-> "off"]
  /\ hand = [i \in Instances |-> NoEvent]
  /\ errorLog = {}

Goto(i, from, to) ==
  /\ pc[i] \in from
  /\ pc' = [pc EXCEPT ![i] = to]

Drop(i) == hand' = [hand EXCEPT ![i] = NoEvent]

(* SQLite lets one connection hold the write lock; the others wait, 5 s. *)
WriteLocked(i) == \E j \in Instances \ {i} : txn[j] # {}

(* The INSERT would break the primary key. *)
KeyTaken(i) == hand[i] \in rows \cup UNION {txn[j] : j \in Instances}

-----------------------------------------------------------------------------

(* main: initialize_system, then SET lock NX EX 60. *)
AcquireLock(i) ==
  /\ Goto(i, {"off"}, "group")
  /\ lock = None
  /\ lock' = i
  /\ UNCHANGED <<rows, txn, hand, errorLog, streamVars>>

(* The lock is taken: the process reports the conflict and ends. *)
RefuseStart(i) ==
  /\ Goto(i, {"off"}, "stopped")
  /\ lock # None
  /\ UNCHANGED <<lock, rows, txn, hand, errorLog, streamVars>>

(* Any failure of XGROUP CREATE is taken to mean that the group exists.      *)
CreateGroup(i) ==
  /\ Goto(i, {"group"}, "read")
  /\ XGroupCreate \/ UNCHANGED streamVars
  /\ UNCHANGED <<lock, rows, txn, hand, errorLog>>

Read(i) ==
  /\ Goto(i, {"read"}, "admit")
  /\ \E e \in Events : XReadGroup(i, e) /\ hand' = [hand EXCEPT ![i] = e]
  /\ UNCHANGED <<lock, rows, txn, errorLog>>

(* is_allowed answered True, or failed and let the event through. *)
Admit(i) ==
  /\ Goto(i, {"admit"}, "insert")
  /\ UNCHANGED <<lock, rows, txn, hand, errorLog, streamVars>>

(* Variant (NoSilentLoss): a throttled event is acknowledged as well. *)
ThrottleAcks(i) ==
  /\ Goto(i, {"admit"}, "read")
  /\ XAck(hand[i])
  /\ Drop(i)
  /\ UNCHANGED <<lock, rows, txn, errorLog>>

(* is_allowed answered False: the loop goes on; the event stays pending. *)
Throttle(i) ==
  /\ Goto(i, {"admit"}, "read")
  /\ Drop(i)
  /\ UNCHANGED <<lock, rows, txn, errorLog, streamVars>>

(* cursor.execute(INSERT ...) opens a transaction or joins the open one. *)
Insert(i) ==
  /\ Goto(i, {"insert"}, "commit")
  /\ ~WriteLocked(i) /\ ~KeyTaken(i)
  /\ txn' = [txn EXCEPT ![i] = @ \cup {hand[i]}]
  /\ UNCHANGED <<lock, rows, hand, errorLog, streamVars>>

(* db_conn.commit() makes every row of the open transaction durable. *)
Commit(i) ==
  /\ Goto(i, {"commit"}, "ack")
  /\ rows' = rows \cup txn[i]
  /\ txn' = [txn EXCEPT ![i] = {}]
  /\ UNCHANGED <<lock, hand, errorLog, streamVars>>

(* One of the two calls raised.  The handler logs and swallows it, without   *)
(* a rollback: the transaction stays open unless SQLite itself undid it.     *)
StoreRaises(i) == StoreFaults \/ (pc[i] = "insert" /\ (WriteLocked(i) \/ KeyTaken(i)))

(* Variant (TrailSpec): the exception is swallowed without a message. *)
StoreErrorUnlogged(i) ==
  /\ StoreRaises(i)
  /\ Goto(i, {"insert", "commit"}, "ack")
  /\ txn' \in {txn, [txn EXCEPT ![i] = {}]}
  /\ UNCHANGED <<lock, rows, hand, errorLog, streamVars>>

StoreError(i) ==
  /\ StoreRaises(i)
  /\ Goto(i, {"insert", "commit"}, "ack")
  /\ errorLog' = errorLog \cup {hand[i]}
  /\ txn' \in {txn, [txn EXCEPT ![i] = {}]}
  /\ UNCHANGED <<lock, rows, hand, streamVars>>

Ack(i) ==
  /\ Goto(i, {"ack"}, "read")
  /\ XAck(hand[i])
  /\ Drop(i)
  /\ UNCHANGED <<lock, rows, txn, errorLog>>

(* A cancellation, or a Redis error, at an await of the loop ends the loop.  *)
Interrupt(i) ==
  /\ Goto(i, {"group", "read", "admit", "ack"}, "release")
  /\ Drop(i)
  /\ UNCHANGED <<lock, rows, txn, errorLog, streamVars>>

(* XREADGROUP answers NOGROUP, which nothing catches. *)
NoGroup(i) ==
  /\ pc[i] = "read" /\ ~group
  /\ Interrupt(i)

(* The connection closes without a commit: an open transaction is undone. *)
Rollback(i) == txn' = [txn EXCEPT ![i] = {}]

(* close(): GET lock, and DEL it, as a second call, if it named this instance. *)
KeepLock(i) ==
  /\ Goto(i, {"release"}, "stopped")
  /\ lock # i
  /\ Rollback(i)
  /\ UNCHANGED <<lock, rows, hand, errorLog, streamVars>>

OwnsLock(i) ==
  /\ Goto(i, {"release"}, "unlock")
  /\ lock = i
  /\ UNCHANGED <<lock, rows, txn, hand, errorLog, streamVars>>

(* Variant (TypeOK): the key is emptied, not deleted. *)
EmptyLock(i) ==
  /\ Goto(i, {"unlock"}, "stopped")
  /\ lock' = ""
  /\ Rollback(i)
  /\ UNCHANGED <<rows, hand, errorLog, streamVars>>

DeleteLock(i) ==
  /\ Goto(i, {"unlock"}, "stopped")
  /\ lock' = None
  /\ Rollback(i)
  /\ UNCHANGED <<rows, hand, errorLog, streamVars>>

(* The process dies; its lock and its pending entries remain at Redis. *)
Crash(i) ==
  /\ Goto(i, ControlPoint \ {"off", "stopped"}, "stopped")
  /\ Drop(i)
  /\ Rollback(i)
  /\ UNCHANGED <<lock, rows, errorLog, streamVars>>

(* ex=60, and nothing ever renews it. *)
LockExpires ==
  /\ lock # None
  /\ lock' = None
  /\ UNCHANGED <<rows, txn, pc, hand, errorLog, streamVars>>

-----------------------------------------------------------------------------

(* The steps a running process takes by itself. *)
Work(i) ==
  \/ CreateGroup(i) \/ NoGroup(i) \/ Read(i) \/ Admit(i) \/ Throttle(i)
  \/ Insert(i) \/ Commit(i) \/ StoreError(i) \/ Ack(i)
  \/ KeepLock(i) \/ OwnsLock(i) \/ DeleteLock(i)

OrchNext ==
  \/ \E i \in Instances :
       \/ AcquireLock(i) \/ RefuseStart(i)
       \/ Work(i)
       \/ Interrupt(i) \/ Crash(i)
  \/ LockExpires

Serving(i) == pc[i] \in {"group", "read", "admit", "insert", "commit", "ack"}

OrchTypeOK ==
  /\ lock \in Instances \cup {None}
  /\ rows \subseteq Events
  /\ txn \in [Instances -> SUBSET Events]
  /\ pc \in [Instances -> ControlPoint]
  /\ hand \in [Instances -> Events \cup {NoEvent}]
  /\ errorLog \subseteq Events

=============================================================================
