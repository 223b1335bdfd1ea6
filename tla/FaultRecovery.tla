--------------------------- MODULE FaultRecovery ---------------------------
(***************************************************************************)
(* fault_recovery.py: one run of audit_and_recover_abandoned_tasks lists   *)
(* the oldest pending entries, and claims and acknowledges, one by one,    *)
(* those that were idle for too long when it listed them.  "Processing" a  *)
(* claimed entry is a log line: no row is written for it.  Every daemon    *)
(* uses the same consumer name.                                            *)
(***************************************************************************)
EXTENDS EventStream

CONSTANTS
  Daemons,      \* concurrent runs of the recovery program
  ScanCount,    \* count=10 of XPENDING
  IdleKeyKnown  \* does the client library report the idle time under a key
                \* (or at a position) the audit reads?  redis-py names it
                \* time_since_delivered, so the audit takes it to be 0:
                \* FALSE is the program as it stands.

ASSUME RecoveryAssumption ==
  /\ ScanCount \in Nat \ {0}
  /\ IdleKeyKnown \in BOOLEAN

NoTask == 0

VARIABLES
  todo,        \* per daemon: listed entries found idle, not yet claimed
  claim,       \* per daemon: the entry it claimed and has not acknowledged
  recoveryLog  \* entries with a "crossed safety threshold" warning in a log

recoveryVars == <<todo, claim, recoveryLog>>

RecoveryInit ==
  /\ todo = [d \in Daemons |-> {}]
  /\ claim = [d \in Daemons |-> NoTask]
  /\ recoveryLog = {}

(* The entries of the XPENDING reply that pass "idle_time > idle_timeout_ms". *)
AuditList ==
  {e \in stale : IdleKeyKnown /\ Cardinality({f \in Pending : f <= e}) <= ScanCount}

(* Each start of the program audits once and ends (main): a daemon that is   *)
(* not busy stands for the next start, which nothing obliges to come.        *)
Busy(d) == todo[d] # {} \/ claim[d] # NoTask

Audit(d) ==
  /\ ~Busy(d)
  /\ group /\ AuditList # {}
  /\ todo' = [todo EXCEPT ![d] = AuditList]
  /\ UNCHANGED <<claim, recoveryLog, streamVars>>

(* Variant (HandIsPendingOrHijacked): the warning comes after the claim. *)
ClaimUnlogged(d) ==
  /\ claim[d] = NoTask
  /\ \E e \in todo[d] :
       /\ todo' = [todo EXCEPT ![d] = @ \ {e}]
       /\ XClaim(Recovery, e)
       /\ claim' = [claim EXCEPT ![d] = e]
       /\ UNCHANGED recoveryLog

(* The warning, and XCLAIM with min_idle_time, on the oldest listed entry.   *)
(* The list may be out of date: the entry may be acknowledged, claimed by    *)
(* another daemon or evicted from the stream since.                          *)
Claim(d) ==
  /\ claim[d] = NoTask
  /\ \E e \in todo[d] :
       /\ \A f \in todo[d] : e <= f
       /\ todo' = [todo EXCEPT ![d] = @ \ {e}]
       /\ recoveryLog' = recoveryLog \cup {e}
       /\ \/ /\ XClaim(Recovery, e)
             /\ claim' = [claim EXCEPT ![d] = e]
          \/ /\ XClaimDeleted(e)
             /\ UNCHANGED claim
          \/ /\ e \notin Pending \/ (e \in stream /\ ~Claimable(e))
             /\ UNCHANGED <<claim, streamVars>>

RecoverAck(d) ==
  /\ claim[d] # NoTask
  /\ XAck(claim[d])
  /\ claim' = [claim EXCEPT ![d] = NoTask]
  /\ UNCHANGED <<todo, recoveryLog>>

(* An exception, swallowed by the audit, or a crash: the rest of the list is *)
(* dropped, and a claimed entry stays pending for the recovery consumer.     *)
DaemonDies(d) ==
  /\ Busy(d)
  /\ todo' = [todo EXCEPT ![d] = {}]
  /\ claim' = [claim EXCEPT ![d] = NoTask]
  /\ UNCHANGED <<recoveryLog, streamVars>>

RecoveryNext ==
  \E d \in Daemons : Audit(d) \/ Claim(d) \/ RecoverAck(d) \/ DaemonDies(d)

RecoveryTypeOK ==
  /\ todo \in [Daemons -> SUBSET Events]
  /\ claim \in [Daemons -> Events \cup {NoTask}]
  /\ recoveryLog \subseteq Events

=============================================================================
