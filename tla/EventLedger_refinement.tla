----------------------- MODULE EventLedger_refinement -----------------------
(***************************************************************************)
(* EventLedger implements AuditTrail under the mapping of its INSTANCE     *)
(* Trail: every step publishes, delivers, records, reports or settles, or  *)
(* leaves the mapped variables alone.                                      *)
(***************************************************************************)
EXTENDS EventLedger_proofs

USE DEF Events, NoEvent, NoTask

PhaseOf == [e \in Events |-> Phase(e)]

(* What an entry's phase says, given the invariant.                          *)
LEMMA PhaseCases ==
  ASSUME LedgerInv, NEW e \in Events
  PROVE  /\ Phase(e) = "absent"  <=> e > published
         /\ Phase(e) = "queued"  <=> e <= published /\ pel[e] = Unread
         /\ Phase(e) = "taken"   <=> pel[e] \in Consumers
         /\ Phase(e) = "settled" <=> pel[e] = Gone
<1>1. pel[e] \in Consumers \cup {Unread, Gone} /\ published \in Nat
  BY StreamAssumption DEF LedgerInv, TypeOK, StreamTypeOK
<1>2. pel[e] # Unread => e <= published
  BY StreamAssumption DEF LedgerInv, TypeOK, StreamTypeOK, DeliveredIsBehindCursor
<1> QED
  BY <1>1, <1>2, StreamAssumption DEF Phase

(* The entries a consumer ever got are the ones the trail calls delivered.   *)
LEMMA DeliveredCases ==
  ASSUME LedgerInv, NEW e \in Events, pel[e] # Unread
  PROVE  e \in Trail!Delivered
<1>1. pel[e] \in Consumers \cup {Gone}
  BY DEF LedgerInv, TypeOK, StreamTypeOK
<1> QED
  BY <1>1, PhaseCases DEF Trail!Delivered

(* Steps that touch neither the entries' phases nor rows and reports.        *)
LEMMA SilentStep ==
  UNCHANGED <<published, pel, rows, errorLog, recoveryLog>>
    => UNCHANGED Trail!trailVars
  BY DEF Trail!trailVars, Phase

(* An entry whose pending state is unchanged keeps its phase.                *)
LEMMA SamePhase ==
  ASSUME published' = published, NEW e \in Events, pel'[e] = pel[e]
  PROVE  Phase(e)' = Phase(e)
  BY DEF Phase

(* An appended entry is a published one (publish_event). *)
LEMMA ProducePublishes == LedgerInv /\ LedgerInv' /\ Produce => Trail!Next
<1> SUFFICES ASSUME LedgerInv, LedgerInv', Produce PROVE Trail!Next
  OBVIOUS
<1>1. PICK e \in Events :
        /\ e = published + 1 /\ published' = e /\ pel' = pel
        /\ UNCHANGED <<rows, errorLog, recoveryLog>>
  BY StreamAssumption
  DEF Produce, XAdd, orchVars, recoveryVars, LedgerInv, TypeOK, StreamTypeOK
<1>2. pel[e] = Unread
  BY <1>1, StreamAssumption
  DEF LedgerInv, TypeOK, StreamTypeOK, DeliveredIsBehindCursor
<1>3. Phase(e) = "absent" /\ Phase(e)' = "queued"
  BY <1>1, <1>2, StreamAssumption DEF Phase, LedgerInv, TypeOK, StreamTypeOK
<1>4. ASSUME NEW f \in Events \ {e} PROVE Phase(f)' = Phase(f)
  BY <1>1, StreamAssumption DEF Phase, LedgerInv, TypeOK, StreamTypeOK
<1>5. Trail!Publish(e)
  BY <1>1, <1>3, <1>4 DEF Trail!Publish, Trail!Move
<1> QED
  BY <1>1, <1>5 DEF Trail!Next

(* XREADGROUP delivers a published entry (run_event_listener_loop). *)
LEMMA ReadDelivers ==
  ASSUME LedgerInv, LedgerInv', NEW i \in Instances, Read(i), UNCHANGED recoveryVars
  PROVE  Trail!Next
<1>1. PICK e \in Events : XReadGroup(i, e)
  BY DEF Read
<1>2. /\ published' = published /\ pel' = [pel EXCEPT ![e] = i]
      /\ UNCHANGED <<rows, errorLog, recoveryLog>>
  BY <1>1 DEF XReadGroup, Read, recoveryVars
<1>3. pel[e] = Unread /\ e <= published
  BY <1>1, StreamAssumption
  DEF XReadGroup, NextUnread, LedgerInv, TypeOK, StreamTypeOK, DeliveredIsBehindCursor
<1>4. Phase(e) = "queued" /\ Phase(e)' = "taken"
  <2>1. pel'[e] \in Consumers
    BY <1>2 DEF LedgerInv, TypeOK, StreamTypeOK, Consumers
  <2> QED
    BY <1>2, <1>3, <2>1, StreamAssumption DEF Phase, LedgerInv, TypeOK, StreamTypeOK
<1>5. ASSUME NEW f \in Events \ {e} PROVE Phase(f)' = Phase(f)
  BY <1>2, SamePhase DEF LedgerInv, TypeOK, StreamTypeOK
<1>6. Trail!Deliver(e)
  BY <1>2, <1>4, <1>5 DEF Trail!Deliver, Trail!Move
<1> QED
  BY <1>6 DEF Trail!Next

(* COMMIT records the entries of the whole transaction                      *)
(* (process_transaction_event).                                             *)
LEMMA CommitRecords ==
  ASSUME LedgerInv, LedgerInv', NEW i \in Instances, Commit(i), UNCHANGED recoveryVars
  PROVE  Trail!Next
<1>1. /\ rows' = rows \cup txn[i]
      /\ UNCHANGED <<published, pel, errorLog, recoveryLog>>
  BY DEF Commit, recoveryVars, streamVars
<1>2. txn[i] # {} /\ txn[i] \cap rows = {}
  BY DEF Commit, Goto, LedgerInv, InsertedIsOpen, OpenRowsAreNew
<1>3. txn[i] \subseteq Trail!Delivered
  <2> SUFFICES ASSUME NEW e \in txn[i] PROVE e \in Trail!Delivered
    OBVIOUS
  <2>1. e \in Events /\ pel[e] # Unread
    BY DEF LedgerInv, TypeOK, OrchTypeOK, UnreadIsUntouched
  <2> QED
    BY <2>1, DeliveredCases
<1>4. PhaseOf' = PhaseOf
  BY <1>1 DEF PhaseOf, Phase
<1>5. Trail!Record(txn[i])
  BY <1>1, <1>2, <1>4 DEF Trail!Record, PhaseOf
<1> QED
  BY <1>3, <1>5 DEF Trail!Next

(* A swallowed SQLite error reports the entry in hand                       *)
(* (process_transaction_event).                                             *)
LEMMA StoreErrorReports ==
  ASSUME LedgerInv, LedgerInv', NEW i \in Instances, StoreError(i), UNCHANGED recoveryVars
  PROVE  Trail!Next
<1>1. /\ errorLog' = errorLog \cup {hand[i]}
      /\ UNCHANGED <<published, pel, rows, recoveryLog>>
  BY DEF StoreError, recoveryVars, streamVars
<1>2. hand[i] \in Events /\ pel[hand[i]] # Unread
  BY DEF StoreError, Goto, LedgerInv, TypeOK, OrchTypeOK, HandShape, UnreadIsUntouched
<1>3. PhaseOf' = PhaseOf
  BY <1>1 DEF PhaseOf, Phase
<1>4. Trail!Report(hand[i])
  BY <1>1, <1>3 DEF Trail!Report, PhaseOf
<1> QED
  BY <1>2, <1>4, DeliveredCases DEF Trail!Next

(* An acknowledgement settles its entry, or repeats an acknowledgement.      *)
LEMMA XAckSettles ==
  ASSUME LedgerInv, NEW e \in Events, pel[e] # Unread,
         e \in rows \cup errorLog \cup recoveryLog,
         XAck(e), UNCHANGED <<rows, errorLog, recoveryLog>>
  PROVE  Trail!Next \/ UNCHANGED Trail!trailVars
<1>1. published' = published /\ pel' = [pel EXCEPT ![e] = Gone]
  BY DEF XAck
<1>2. CASE pel[e] = Gone
  <2>1. pel' = pel
    BY <1>1, <1>2 DEF LedgerInv, TypeOK, StreamTypeOK
  <2> QED
    BY <1>1, <2>1, SilentStep
<1>3. CASE pel[e] \in Consumers
  <2>1. Phase(e) = "taken"
    BY <1>3, PhaseCases
  <2>2. Phase(e)' = "settled"
    <3>1. e <= published /\ published \in Nat
      BY <1>3, StreamAssumption
      DEF LedgerInv, TypeOK, StreamTypeOK, DeliveredIsBehindCursor
    <3>2. pel'[e] = Gone
      BY <1>1 DEF LedgerInv, TypeOK, StreamTypeOK
    <3> QED
      BY <1>1, <3>1, <3>2, StreamAssumption DEF Phase
  <2>3. ASSUME NEW f \in Events \ {e} PROVE Phase(f)' = Phase(f)
    BY <1>1, SamePhase DEF LedgerInv, TypeOK, StreamTypeOK
  <2>4. Trail!Settle(e)
    BY <2>1, <2>2, <2>3 DEF Trail!Settle, Trail!Move
  <2> QED
    BY <2>4 DEF Trail!Next
<1> QED
  BY <1>2, <1>3 DEF LedgerInv, TypeOK, StreamTypeOK

(* A claim reports its entry; the deletion of an evicted entry settles it.   *)
LEMMA ClaimReports ==
  ASSUME LedgerInv, LedgerInv', NEW d \in Daemons, Claim(d), UNCHANGED orchVars
  PROVE  Trail!Next
<1>1. PICK e \in todo[d] :
        /\ recoveryLog' = recoveryLog \cup {e}
        /\ XClaim(Recovery, e) \/ XClaimDeleted(e) \/ UNCHANGED streamVars
  BY DEF Claim
<1>2. e \in Events /\ pel[e] # Unread
  BY DEF LedgerInv, TypeOK, RecoveryTypeOK, UnreadIsUntouched
<1>3. UNCHANGED <<published, rows, errorLog>>
  BY <1>1 DEF orchVars, streamVars, XClaim, XClaimDeleted, XAck
<1>4. PhaseOf' \in {PhaseOf, [PhaseOf EXCEPT ![e] = "settled"]}
  <2>1. CASE XClaim(Recovery, e)
    <3>1. pel[e] \in Consumers /\ pel' = [pel EXCEPT ![e] = Recovery]
      BY <2>1 DEF XClaim, Claimable, LedgerInv, TypeOK, StreamTypeOK, Pending
    <3>2. pel'[e] \in Consumers
      BY <1>2, <3>1 DEF LedgerInv, TypeOK, StreamTypeOK, Consumers
    <3>3. Phase(e) = "taken"
      BY <1>2, <3>1, PhaseCases
    <3>4. e <= published /\ published \in Nat
      BY <1>2, StreamAssumption
      DEF LedgerInv, TypeOK, StreamTypeOK, DeliveredIsBehindCursor
    <3>5. Phase(e)' = "taken"
      BY <1>3, <3>2, <3>4, StreamAssumption DEF Phase
    <3>6. \A f \in Events : Phase(f)' = Phase(f)
      BY <1>3, <3>1, <3>3, <3>5, SamePhase DEF LedgerInv, TypeOK, StreamTypeOK
    <3> QED
      BY <3>6 DEF PhaseOf
  <2>2. CASE XClaimDeleted(e)
    <3>1. pel' = [pel EXCEPT ![e] = Gone]
      BY <2>2 DEF XClaimDeleted, XAck
    <3>2. e <= published /\ published \in Nat
      BY <1>2, StreamAssumption
      DEF LedgerInv, TypeOK, StreamTypeOK, DeliveredIsBehindCursor
    <3>3. pel'[e] = Gone
      BY <1>2, <3>1 DEF LedgerInv, TypeOK, StreamTypeOK
    <3>4. Phase(e)' = "settled"
      BY <1>3, <3>2, <3>3, StreamAssumption DEF Phase
    <3>5. \A f \in Events \ {e} : Phase(f)' = Phase(f)
      BY <1>3, <3>1, SamePhase DEF LedgerInv, TypeOK, StreamTypeOK
    <3> QED
      BY <3>4, <3>5 DEF PhaseOf
  <2>3. CASE UNCHANGED streamVars
    <3>1. PhaseOf' = PhaseOf
      BY <2>3 DEF PhaseOf, Phase, streamVars
    <3> QED
      BY <3>1
  <2> QED
    BY <1>1, <2>1, <2>2, <2>3
<1>5. Trail!Report(e)
  BY <1>1, <1>3, <1>4 DEF Trail!Report, PhaseOf
<1> QED
  BY <1>2, <1>5, DeliveredCases DEF Trail!Next

-----------------------------------------------------------------------------

(* Every step of an instance maps to a step of AuditTrail or to none        *)
(* (orchestrator.py).                                                       *)
LEMMA OrchestrateRefines ==
  LedgerInv /\ LedgerInv' /\ Orchestrate => Trail!Next \/ UNCHANGED Trail!trailVars
<1> SUFFICES ASSUME LedgerInv, LedgerInv', Orchestrate
             PROVE  Trail!Next \/ UNCHANGED Trail!trailVars
  OBVIOUS
<1>1. UNCHANGED recoveryVars
  BY DEF Orchestrate
<1>2. CASE LockExpires
  BY <1>1, <1>2, SilentStep DEF LockExpires, streamVars, recoveryVars
<1>3. ASSUME NEW i \in Instances,
             AcquireLock(i) \/ RefuseStart(i) \/ Work(i) \/ Interrupt(i) \/ Crash(i)
      PROVE  Trail!Next \/ UNCHANGED Trail!trailVars
  <2>1. CASE Read(i)
    BY <1>1, <2>1, ReadDelivers
  <2>2. CASE Commit(i)
    BY <1>1, <2>2, CommitRecords
  <2>3. CASE StoreError(i)
    BY <1>1, <2>3, StoreErrorReports
  <2>4. CASE Ack(i)
    <3>1. hand[i] \in Events /\ pel[hand[i]] # Unread
      BY <2>4 DEF Ack, Goto, LedgerInv, TypeOK, OrchTypeOK, HandShape, UnreadIsUntouched
    <3>2. hand[i] \in rows \cup errorLog
      BY <2>4 DEF Ack, Goto, LedgerInv, AckIsAccounted
    <3>3. XAck(hand[i]) /\ UNCHANGED <<rows, errorLog, recoveryLog>>
      BY <1>1, <2>4 DEF Ack, recoveryVars
    <3> QED
      BY <3>1, <3>2, <3>3, XAckSettles
  <2>5. CASE \/ AcquireLock(i) \/ RefuseStart(i) \/ CreateGroup(i) \/ Admit(i)
             \/ Throttle(i) \/ Insert(i) \/ Interrupt(i) \/ KeepLock(i)
             \/ OwnsLock(i) \/ DeleteLock(i) \/ Crash(i)
    <3>1. UNCHANGED <<published, pel, rows, errorLog, recoveryLog>>
      BY <1>1, <2>5
      DEF AcquireLock, RefuseStart, CreateGroup, XGroupCreate, Admit, Throttle,
          Insert, Interrupt, KeepLock, OwnsLock, DeleteLock, Crash,
          streamVars, recoveryVars
    <3> QED
      BY <3>1, SilentStep
  <2> QED
    BY <1>3, <2>1, <2>2, <2>3, <2>4, <2>5 DEF Work, NoGroup
<1> QED
  BY <1>2, <1>3 DEF Orchestrate, OrchNext

(* Every step of a recovery daemon maps to a step of AuditTrail or to none  *)
(* (fault_recovery.py).                                                     *)
LEMMA RecoverRefines ==
  LedgerInv /\ LedgerInv' /\ Recover => Trail!Next \/ UNCHANGED Trail!trailVars
<1> SUFFICES ASSUME LedgerInv, LedgerInv', UNCHANGED orchVars,
                    NEW d \in Daemons,
                    Audit(d) \/ Claim(d) \/ RecoverAck(d) \/ DaemonDies(d)
             PROVE  Trail!Next \/ UNCHANGED Trail!trailVars
  BY DEF Recover, RecoveryNext
<1>1. CASE Audit(d) \/ DaemonDies(d)
  BY <1>1, SilentStep DEF Audit, DaemonDies, streamVars, orchVars
<1>2. CASE Claim(d)
  BY <1>2, ClaimReports
<1>3. CASE RecoverAck(d)
  <2>1. claim[d] \in Events /\ pel[claim[d]] # Unread
    BY <1>3 DEF RecoverAck, LedgerInv, TypeOK, RecoveryTypeOK, UnreadIsUntouched
  <2>2. claim[d] \in recoveryLog
    BY <1>3 DEF RecoverAck, LedgerInv, ClaimIsLogged
  <2>3. XAck(claim[d]) /\ UNCHANGED <<rows, errorLog, recoveryLog>>
    BY <1>3 DEF RecoverAck, orchVars
  <2> QED
    BY <2>1, <2>2, <2>3, XAckSettles
<1> QED
  BY <1>1, <1>2, <1>3

(* The pipeline implements AuditTrail, for every number of events,           *)
(* instances and daemons.                                                    *)
THEOREM Refinement == Spec => TrailSpec
<1>1. Init => Trail!Init
  BY StreamAssumption
  DEF Init, StreamInit, OrchInit, RecoveryInit, Trail!Init, Phase
<1>2. LedgerInv /\ LedgerInv' /\ [Next]_vars
        => Trail!Next \/ UNCHANGED Trail!trailVars
  <2>1. LedgerInv /\ LedgerInv' /\ Next => Trail!Next \/ UNCHANGED Trail!trailVars
    <3>1. Elapse => UNCHANGED Trail!trailVars
      BY SilentStep DEF Elapse, IdleTimePasses, orchVars, recoveryVars
    <3>2. Tidy => UNCHANGED Trail!trailVars
      BY SilentStep
      DEF Tidy, CompactorNext, Inspect, Compact, CompactFails, XTrim,
          streamVars, orchVars, recoveryVars
    <3> QED
      BY <3>1, <3>2, ProducePublishes, OrchestrateRefines, RecoverRefines DEF Next
  <2>2. UNCHANGED vars => UNCHANGED Trail!trailVars
    BY SilentStep DEF vars, streamVars, orchVars, recoveryVars
  <2> QED
    BY <2>1, <2>2
<1> QED
  BY LedgerInvariant, <1>1, <1>2, PTL DEF Spec, TrailSpec, Trail!Spec

=============================================================================
