------------------------- MODULE EventLedger_proofs -------------------------
(***************************************************************************)
(* Theorems of EventLedger for every number of events, instances, daemons  *)
(* and every setting of the constants.  The inductive invariant LedgerInv  *)
(* is shown one component at a time: one lemma per action, then one per    *)
(* component, then the theorem.                                            *)
(***************************************************************************)
EXTENDS EventLedger, FiniteSetTheorems, TLAPS

USE DEF Events, NoEvent, NoTask

(* The initial state satisfies the invariant. *)
LEMMA InitInv == Init => LedgerInv
<1> SUFFICES ASSUME Init PROVE LedgerInv
  OBVIOUS
<1> USE StreamAssumption DEF Init, StreamInit, OrchInit, RecoveryInit, CompactorInit
<1>1. TypeOK
  <2>1. group \in BOOLEAN /\ compacting \in BOOLEAN
    OBVIOUS
  <2>2. StreamTypeOK
    BY <2>1 DEF StreamTypeOK, Pending
  <2>3. OrchTypeOK
    BY DEF OrchTypeOK, ControlPoint
  <2>4. RecoveryTypeOK
    BY DEF RecoveryTypeOK
  <2> QED
    BY <2>1, <2>2, <2>3, <2>4 DEF TypeOK
<1>2. HandShape /\ DeliveredIsBehindCursor /\ NoGroupNoCursor /\ UnreadIsUntouched
  BY DEF HandShape, DeliveredIsBehindCursor, NoGroupNoCursor, UnreadIsUntouched
<1>3. HandIsFresh /\ InsertedIsOpen /\ AckIsAccounted /\ OpenRowsAreNew /\ ClaimIsLogged
  BY DEF HandIsFresh, InsertedIsOpen, AckIsAccounted, OpenRowsAreNew, ClaimIsLogged
<1>4. SoleHandler /\ HandIsPendingOrHijacked
  BY DEF SoleHandler, HandIsPendingOrHijacked
<1>5. CursorSkipsOnlyEvicted /\ NoSilentLoss
  BY DEF CursorSkipsOnlyEvicted, NoSilentLoss
<1> QED
  BY <1>1, <1>2, <1>3, <1>4, <1>5 DEF LedgerInv

-----------------------------------------------------------------------------
(* The orchestrator's steps.                                                 *)

(* Taking the lock moves only the control point.                             *)
LEMMA AcquireLockInv ==
  ASSUME LedgerInv, NEW i \in Instances, AcquireLock(i), UNCHANGED <<recoveryVars, compacting>>
  PROVE  LedgerInv'
<1> USE DEF LedgerInv, recoveryVars, AcquireLock, Goto, streamVars
<1>1. TypeOK'
  BY StreamAssumption DEF TypeOK, StreamTypeOK, OrchTypeOK, RecoveryTypeOK,
       ControlPoint, Pending, Consumers
<1>2. (HandShape /\ DeliveredIsBehindCursor /\ NoGroupNoCursor)'
  BY DEF HandShape, DeliveredIsBehindCursor, NoGroupNoCursor
<1>3. (UnreadIsUntouched /\ CursorSkipsOnlyEvicted)'
  BY DEF UnreadIsUntouched, CursorSkipsOnlyEvicted
<1>4. (HandIsFresh /\ InsertedIsOpen /\ AckIsAccounted /\ OpenRowsAreNew)'
  BY DEF HandIsFresh, InsertedIsOpen, AckIsAccounted, OpenRowsAreNew
<1>5. (SoleHandler /\ HandIsPendingOrHijacked /\ ClaimIsLogged /\ NoSilentLoss)'
  BY DEF SoleHandler, HandIsPendingOrHijacked, ClaimIsLogged, NoSilentLoss
<1> QED
  BY <1>1, <1>2, <1>3, <1>4, <1>5

(* So does being refused.                                                    *)
LEMMA RefuseStartInv ==
  ASSUME LedgerInv, NEW i \in Instances, RefuseStart(i), UNCHANGED <<recoveryVars, compacting>>
  PROVE  LedgerInv'
<1> USE DEF LedgerInv, recoveryVars, RefuseStart, Goto, streamVars
<1>1. TypeOK'
  BY StreamAssumption DEF TypeOK, StreamTypeOK, OrchTypeOK, RecoveryTypeOK,
       ControlPoint, Pending, Consumers
<1>2. (HandShape /\ DeliveredIsBehindCursor /\ NoGroupNoCursor)'
  BY DEF HandShape, DeliveredIsBehindCursor, NoGroupNoCursor
<1>3. (UnreadIsUntouched /\ CursorSkipsOnlyEvicted)'
  BY DEF UnreadIsUntouched, CursorSkipsOnlyEvicted
<1>4. (HandIsFresh /\ InsertedIsOpen /\ AckIsAccounted /\ OpenRowsAreNew)'
  BY DEF HandIsFresh, InsertedIsOpen, AckIsAccounted, OpenRowsAreNew
<1>5. (SoleHandler /\ HandIsPendingOrHijacked /\ ClaimIsLogged /\ NoSilentLoss)'
  BY DEF SoleHandler, HandIsPendingOrHijacked, ClaimIsLogged, NoSilentLoss
<1> QED
  BY <1>1, <1>2, <1>3, <1>4, <1>5

(* Creating the group again leaves the cursor alone; before, nothing was read. *)
LEMMA CreateGroupInv ==
  ASSUME LedgerInv, NEW i \in Instances, CreateGroup(i), UNCHANGED <<recoveryVars, compacting>>
  PROVE  LedgerInv'
<1> USE DEF LedgerInv, recoveryVars, CreateGroup, Goto, streamVars,
       XGroupCreate, GroupStart
<1>1. TypeOK'
  <2>1. group' \in BOOLEAN
    BY DEF TypeOK, StreamTypeOK
  <2>2. cursor' \in 0 .. published
    BY StreamAssumption DEF TypeOK, StreamTypeOK
  <2>3. StreamTypeOK'
    BY <2>1, <2>2 DEF TypeOK, StreamTypeOK, Pending
  <2>4. OrchTypeOK'
    BY DEF TypeOK, OrchTypeOK, ControlPoint
  <2> QED
    BY <2>3, <2>4 DEF TypeOK, RecoveryTypeOK
<1>2. (HandShape /\ DeliveredIsBehindCursor /\ NoGroupNoCursor)'
  BY DEF HandShape, DeliveredIsBehindCursor, NoGroupNoCursor
<1>3. (UnreadIsUntouched /\ CursorSkipsOnlyEvicted)'
  BY DEF UnreadIsUntouched, CursorSkipsOnlyEvicted
<1>4. (HandIsFresh /\ InsertedIsOpen /\ AckIsAccounted /\ OpenRowsAreNew)'
  BY DEF HandIsFresh, InsertedIsOpen, AckIsAccounted, OpenRowsAreNew
<1>5. (SoleHandler /\ HandIsPendingOrHijacked /\ ClaimIsLogged /\ NoSilentLoss)'
  BY DEF SoleHandler, HandIsPendingOrHijacked, ClaimIsLogged, NoSilentLoss
<1> QED
  BY <1>1, <1>2, <1>3, <1>4, <1>5

(* A fresh entry is unread, so no row, hand or daemon has it.                *)
LEMMA ReadInv ==
  ASSUME LedgerInv, NEW i \in Instances, Read(i), UNCHANGED <<recoveryVars, compacting>>
  PROVE  LedgerInv'
<1> USE DEF LedgerInv, recoveryVars, Read, Goto, XReadGroup, NextUnread
<1>1. TypeOK'
  BY StreamAssumption DEF TypeOK, StreamTypeOK, OrchTypeOK, RecoveryTypeOK,
       ControlPoint, Pending, Consumers
<1>2. (HandShape /\ DeliveredIsBehindCursor /\ NoGroupNoCursor)'
  BY DEF HandShape, DeliveredIsBehindCursor, NoGroupNoCursor, TypeOK,
       StreamTypeOK, OrchTypeOK, RecoveryTypeOK
<1>3. (UnreadIsUntouched /\ CursorSkipsOnlyEvicted)'
  BY StreamAssumption DEF UnreadIsUntouched, CursorSkipsOnlyEvicted, TypeOK,
       StreamTypeOK, OrchTypeOK, Consumers
<1>4. (HandIsFresh /\ InsertedIsOpen /\ AckIsAccounted /\ OpenRowsAreNew)'
  BY DEF HandIsFresh, InsertedIsOpen, AckIsAccounted, OpenRowsAreNew, TypeOK,
       StreamTypeOK, OrchTypeOK, RecoveryTypeOK, HandShape,
       UnreadIsUntouched, DeliveredIsBehindCursor
<1>5. (SoleHandler /\ HandIsPendingOrHijacked /\ ClaimIsLogged /\ NoSilentLoss)'
  BY StreamAssumption DEF SoleHandler, HandIsPendingOrHijacked,
       ClaimIsLogged, NoSilentLoss, UnreadIsUntouched,
       DeliveredIsBehindCursor, TypeOK, StreamTypeOK, OrchTypeOK, Consumers
<1> QED
  BY <1>1, <1>2, <1>3, <1>4, <1>5

(* An admitted event is still fresh.                                         *)
LEMMA AdmitInv ==
  ASSUME LedgerInv, NEW i \in Instances, Admit(i), UNCHANGED <<recoveryVars, compacting>>
  PROVE  LedgerInv'
<1> USE DEF LedgerInv, recoveryVars, Admit, Goto, streamVars
<1>1. TypeOK'
  BY StreamAssumption DEF TypeOK, StreamTypeOK, OrchTypeOK, RecoveryTypeOK,
       ControlPoint, Pending, Consumers
<1>2. (HandShape /\ DeliveredIsBehindCursor /\ NoGroupNoCursor)'
  BY DEF HandShape, DeliveredIsBehindCursor, NoGroupNoCursor
<1>3. (UnreadIsUntouched /\ CursorSkipsOnlyEvicted)'
  BY DEF UnreadIsUntouched, CursorSkipsOnlyEvicted
<1>4. (HandIsFresh /\ InsertedIsOpen /\ AckIsAccounted /\ OpenRowsAreNew)'
  BY DEF HandIsFresh, InsertedIsOpen, AckIsAccounted, OpenRowsAreNew
<1>5. (SoleHandler /\ HandIsPendingOrHijacked /\ ClaimIsLogged /\ NoSilentLoss)'
  BY DEF SoleHandler, HandIsPendingOrHijacked, ClaimIsLogged, NoSilentLoss
<1> QED
  BY <1>1, <1>2, <1>3, <1>4, <1>5

(* A throttled event stays pending without a hand.                           *)
LEMMA ThrottleInv ==
  ASSUME LedgerInv, NEW i \in Instances, Throttle(i), UNCHANGED <<recoveryVars, compacting>>
  PROVE  LedgerInv'
<1> USE DEF LedgerInv, recoveryVars, Throttle, Goto, Drop, streamVars
<1>1. TypeOK'
  BY StreamAssumption DEF TypeOK, StreamTypeOK, OrchTypeOK, RecoveryTypeOK,
       ControlPoint, Pending, Consumers
<1>2. (HandShape /\ DeliveredIsBehindCursor /\ NoGroupNoCursor)'
  BY DEF HandShape, DeliveredIsBehindCursor, NoGroupNoCursor, TypeOK,
       StreamTypeOK, OrchTypeOK, RecoveryTypeOK
<1>3. (UnreadIsUntouched /\ CursorSkipsOnlyEvicted)'
  BY DEF UnreadIsUntouched, CursorSkipsOnlyEvicted
<1>4. (HandIsFresh /\ InsertedIsOpen /\ AckIsAccounted /\ OpenRowsAreNew)'
  BY DEF HandIsFresh, InsertedIsOpen, AckIsAccounted, OpenRowsAreNew, TypeOK,
       StreamTypeOK, OrchTypeOK, RecoveryTypeOK
<1>5. (SoleHandler /\ HandIsPendingOrHijacked /\ ClaimIsLogged /\ NoSilentLoss)'
  BY DEF SoleHandler, HandIsPendingOrHijacked, ClaimIsLogged, NoSilentLoss
<1> QED
  BY <1>1, <1>2, <1>3, <1>4, <1>5

(* The inserted event is no other instance's and in no other transaction.    *)
LEMMA InsertInv ==
  ASSUME LedgerInv, NEW i \in Instances, Insert(i), UNCHANGED <<recoveryVars, compacting>>
  PROVE  LedgerInv'
<1> USE DEF LedgerInv, recoveryVars, Insert, Goto, KeyTaken, streamVars
<1>1. TypeOK'
  BY StreamAssumption DEF TypeOK, StreamTypeOK, OrchTypeOK, RecoveryTypeOK,
       ControlPoint, Pending, Consumers, HandShape
<1>2. (HandShape /\ DeliveredIsBehindCursor /\ NoGroupNoCursor)'
  BY DEF HandShape, DeliveredIsBehindCursor, NoGroupNoCursor
<1>3. (UnreadIsUntouched /\ CursorSkipsOnlyEvicted)'
  BY DEF UnreadIsUntouched, CursorSkipsOnlyEvicted
<1>4. (HandIsFresh /\ InsertedIsOpen /\ AckIsAccounted /\ OpenRowsAreNew)'
  BY DEF HandIsFresh, InsertedIsOpen, AckIsAccounted, OpenRowsAreNew, TypeOK,
       StreamTypeOK, OrchTypeOK, RecoveryTypeOK, HandShape, SoleHandler
<1>5. (SoleHandler /\ HandIsPendingOrHijacked /\ ClaimIsLogged /\ NoSilentLoss)'
  BY DEF SoleHandler, HandIsPendingOrHijacked, ClaimIsLogged, NoSilentLoss
<1> QED
  BY <1>1, <1>2, <1>3, <1>4, <1>5

(* The rows committed are new, and the event in hand is among them.          *)
LEMMA CommitInv ==
  ASSUME LedgerInv, NEW i \in Instances, Commit(i), UNCHANGED <<recoveryVars, compacting>>
  PROVE  LedgerInv'
<1> USE DEF LedgerInv, recoveryVars, Commit, Goto, streamVars
<1>1. TypeOK'
  BY StreamAssumption DEF TypeOK, StreamTypeOK, OrchTypeOK, RecoveryTypeOK,
       ControlPoint, Pending, Consumers
<1>2. (HandShape /\ DeliveredIsBehindCursor /\ NoGroupNoCursor)'
  BY DEF HandShape, DeliveredIsBehindCursor, NoGroupNoCursor
<1>3. (UnreadIsUntouched /\ CursorSkipsOnlyEvicted)'
  BY DEF UnreadIsUntouched, CursorSkipsOnlyEvicted
<1>4. (HandIsFresh /\ InsertedIsOpen /\ AckIsAccounted /\ OpenRowsAreNew)'
  BY DEF HandIsFresh, InsertedIsOpen, AckIsAccounted, OpenRowsAreNew, TypeOK,
       StreamTypeOK, OrchTypeOK, RecoveryTypeOK
<1>5. (SoleHandler /\ HandIsPendingOrHijacked /\ ClaimIsLogged /\ NoSilentLoss)'
  BY DEF SoleHandler, HandIsPendingOrHijacked, ClaimIsLogged, NoSilentLoss
<1> QED
  BY <1>1, <1>2, <1>3, <1>4, <1>5

(* The failed event is in the log before it is acknowledged.                 *)
LEMMA StoreErrorInv ==
  ASSUME LedgerInv, NEW i \in Instances, StoreError(i), UNCHANGED <<recoveryVars, compacting>>
  PROVE  LedgerInv'
<1> USE DEF LedgerInv, recoveryVars, StoreError, Goto, streamVars
<1>1. TypeOK'
  BY StreamAssumption DEF TypeOK, StreamTypeOK, OrchTypeOK, RecoveryTypeOK,
       ControlPoint, Pending, Consumers, HandShape
<1>2. (HandShape /\ DeliveredIsBehindCursor /\ NoGroupNoCursor)'
  BY DEF HandShape, DeliveredIsBehindCursor, NoGroupNoCursor
<1>3. (UnreadIsUntouched /\ CursorSkipsOnlyEvicted)'
  BY DEF UnreadIsUntouched, CursorSkipsOnlyEvicted, TypeOK, StreamTypeOK,
       OrchTypeOK, RecoveryTypeOK
<1>4. (HandIsFresh /\ InsertedIsOpen /\ AckIsAccounted /\ OpenRowsAreNew)'
  BY DEF HandIsFresh, InsertedIsOpen, AckIsAccounted, OpenRowsAreNew, TypeOK,
       StreamTypeOK, OrchTypeOK, RecoveryTypeOK
<1>5. (SoleHandler /\ HandIsPendingOrHijacked /\ ClaimIsLogged /\ NoSilentLoss)'
  BY DEF SoleHandler, HandIsPendingOrHijacked, ClaimIsLogged, NoSilentLoss
<1> QED
  BY <1>1, <1>2, <1>3, <1>4, <1>5

(* An acknowledged event has its row or its message; no other hand has it.   *)
LEMMA AckInv ==
  ASSUME LedgerInv, NEW i \in Instances, Ack(i), UNCHANGED <<recoveryVars, compacting>>
  PROVE  LedgerInv'
<1> USE DEF LedgerInv, recoveryVars, Ack, Goto, Drop, XAck
<1>1. TypeOK'
  BY StreamAssumption DEF TypeOK, StreamTypeOK, OrchTypeOK, RecoveryTypeOK,
       ControlPoint, Pending, Consumers
<1>2. (HandShape /\ DeliveredIsBehindCursor /\ NoGroupNoCursor)'
  BY DEF HandShape, DeliveredIsBehindCursor, NoGroupNoCursor, TypeOK,
       StreamTypeOK, OrchTypeOK, RecoveryTypeOK, UnreadIsUntouched
<1>3. (UnreadIsUntouched /\ CursorSkipsOnlyEvicted)'
  BY StreamAssumption DEF UnreadIsUntouched, CursorSkipsOnlyEvicted,
       HandShape, TypeOK, StreamTypeOK, OrchTypeOK
<1>4. (HandIsFresh /\ InsertedIsOpen /\ AckIsAccounted /\ OpenRowsAreNew)'
  BY DEF HandIsFresh, InsertedIsOpen, AckIsAccounted, OpenRowsAreNew, TypeOK,
       StreamTypeOK, OrchTypeOK, RecoveryTypeOK
<1>5. (SoleHandler /\ HandIsPendingOrHijacked /\ ClaimIsLogged /\ NoSilentLoss)'
  BY DEF SoleHandler, HandIsPendingOrHijacked, ClaimIsLogged, NoSilentLoss,
       TypeOK, StreamTypeOK, OrchTypeOK, RecoveryTypeOK, HandShape,
       AckIsAccounted, InsertedIsOpen, UnreadIsUntouched,
       DeliveredIsBehindCursor
<1> QED
  BY <1>1, <1>2, <1>3, <1>4, <1>5

(* The hand is emptied; the entry stays pending.                             *)
LEMMA InterruptInv ==
  ASSUME LedgerInv, NEW i \in Instances, Interrupt(i), UNCHANGED <<recoveryVars, compacting>>
  PROVE  LedgerInv'
<1> USE DEF LedgerInv, recoveryVars, Interrupt, Goto, Drop, streamVars
<1>1. TypeOK'
  BY StreamAssumption DEF TypeOK, StreamTypeOK, OrchTypeOK, RecoveryTypeOK,
       ControlPoint, Pending, Consumers
<1>2. (HandShape /\ DeliveredIsBehindCursor /\ NoGroupNoCursor)'
  BY DEF HandShape, DeliveredIsBehindCursor, NoGroupNoCursor, TypeOK,
       StreamTypeOK, OrchTypeOK, RecoveryTypeOK
<1>3. (UnreadIsUntouched /\ CursorSkipsOnlyEvicted)'
  BY DEF UnreadIsUntouched, CursorSkipsOnlyEvicted
<1>4. (HandIsFresh /\ InsertedIsOpen /\ AckIsAccounted /\ OpenRowsAreNew)'
  BY DEF HandIsFresh, InsertedIsOpen, AckIsAccounted, OpenRowsAreNew, TypeOK,
       StreamTypeOK, OrchTypeOK, RecoveryTypeOK
<1>5. (SoleHandler /\ HandIsPendingOrHijacked /\ ClaimIsLogged /\ NoSilentLoss)'
  BY DEF SoleHandler, HandIsPendingOrHijacked, ClaimIsLogged, NoSilentLoss
<1> QED
  BY <1>1, <1>2, <1>3, <1>4, <1>5

(* Closing rolls back: only uncommitted rows go.                             *)
LEMMA KeepLockInv ==
  ASSUME LedgerInv, NEW i \in Instances, KeepLock(i), UNCHANGED <<recoveryVars, compacting>>
  PROVE  LedgerInv'
<1> USE DEF LedgerInv, recoveryVars, KeepLock, Goto, Rollback, streamVars
<1>1. TypeOK'
  BY StreamAssumption DEF TypeOK, StreamTypeOK, OrchTypeOK, RecoveryTypeOK,
       ControlPoint, Pending, Consumers
<1>2. (HandShape /\ DeliveredIsBehindCursor /\ NoGroupNoCursor)'
  BY DEF HandShape, DeliveredIsBehindCursor, NoGroupNoCursor
<1>3. (UnreadIsUntouched /\ CursorSkipsOnlyEvicted)'
  BY DEF UnreadIsUntouched, CursorSkipsOnlyEvicted
<1>4. (HandIsFresh /\ InsertedIsOpen /\ AckIsAccounted /\ OpenRowsAreNew)'
  BY DEF HandIsFresh, InsertedIsOpen, AckIsAccounted, OpenRowsAreNew
<1>5. (SoleHandler /\ HandIsPendingOrHijacked /\ ClaimIsLogged /\ NoSilentLoss)'
  BY DEF SoleHandler, HandIsPendingOrHijacked, ClaimIsLogged, NoSilentLoss
<1> QED
  BY <1>1, <1>2, <1>3, <1>4, <1>5

(* Reading the lock's owner changes nothing else.                            *)
LEMMA OwnsLockInv ==
  ASSUME LedgerInv, NEW i \in Instances, OwnsLock(i), UNCHANGED <<recoveryVars, compacting>>
  PROVE  LedgerInv'
<1> USE DEF LedgerInv, recoveryVars, OwnsLock, Goto, streamVars
<1>1. TypeOK'
  BY StreamAssumption DEF TypeOK, StreamTypeOK, OrchTypeOK, RecoveryTypeOK,
       ControlPoint, Pending, Consumers
<1>2. (HandShape /\ DeliveredIsBehindCursor /\ NoGroupNoCursor)'
  BY DEF HandShape, DeliveredIsBehindCursor, NoGroupNoCursor
<1>3. (UnreadIsUntouched /\ CursorSkipsOnlyEvicted)'
  BY DEF UnreadIsUntouched, CursorSkipsOnlyEvicted
<1>4. (HandIsFresh /\ InsertedIsOpen /\ AckIsAccounted /\ OpenRowsAreNew)'
  BY DEF HandIsFresh, InsertedIsOpen, AckIsAccounted, OpenRowsAreNew
<1>5. (SoleHandler /\ HandIsPendingOrHijacked /\ ClaimIsLogged /\ NoSilentLoss)'
  BY DEF SoleHandler, HandIsPendingOrHijacked, ClaimIsLogged, NoSilentLoss
<1> QED
  BY <1>1, <1>2, <1>3, <1>4, <1>5

(* Closing rolls back here as well.                                          *)
LEMMA DeleteLockInv ==
  ASSUME LedgerInv, NEW i \in Instances, DeleteLock(i), UNCHANGED <<recoveryVars, compacting>>
  PROVE  LedgerInv'
<1> USE DEF LedgerInv, recoveryVars, DeleteLock, Goto, Rollback, streamVars
<1>1. TypeOK'
  BY StreamAssumption DEF TypeOK, StreamTypeOK, OrchTypeOK, RecoveryTypeOK,
       ControlPoint, Pending, Consumers
<1>2. (HandShape /\ DeliveredIsBehindCursor /\ NoGroupNoCursor)'
  BY DEF HandShape, DeliveredIsBehindCursor, NoGroupNoCursor
<1>3. (UnreadIsUntouched /\ CursorSkipsOnlyEvicted)'
  BY DEF UnreadIsUntouched, CursorSkipsOnlyEvicted
<1>4. (HandIsFresh /\ InsertedIsOpen /\ AckIsAccounted /\ OpenRowsAreNew)'
  BY DEF HandIsFresh, InsertedIsOpen, AckIsAccounted, OpenRowsAreNew
<1>5. (SoleHandler /\ HandIsPendingOrHijacked /\ ClaimIsLogged /\ NoSilentLoss)'
  BY DEF SoleHandler, HandIsPendingOrHijacked, ClaimIsLogged, NoSilentLoss
<1> QED
  BY <1>1, <1>2, <1>3, <1>4, <1>5

(* A crash empties the hand and undoes the transaction.                      *)
LEMMA CrashInv ==
  ASSUME LedgerInv, NEW i \in Instances, Crash(i), UNCHANGED <<recoveryVars, compacting>>
  PROVE  LedgerInv'
<1> USE DEF LedgerInv, recoveryVars, Crash, Goto, Drop, Rollback, streamVars
<1>1. TypeOK'
  BY StreamAssumption DEF TypeOK, StreamTypeOK, OrchTypeOK, RecoveryTypeOK,
       ControlPoint, Pending, Consumers
<1>2. (HandShape /\ DeliveredIsBehindCursor /\ NoGroupNoCursor)'
  BY DEF HandShape, DeliveredIsBehindCursor, NoGroupNoCursor, TypeOK,
       StreamTypeOK, OrchTypeOK, RecoveryTypeOK
<1>3. (UnreadIsUntouched /\ CursorSkipsOnlyEvicted)'
  BY DEF UnreadIsUntouched, CursorSkipsOnlyEvicted
<1>4. (HandIsFresh /\ InsertedIsOpen /\ AckIsAccounted /\ OpenRowsAreNew)'
  BY DEF HandIsFresh, InsertedIsOpen, AckIsAccounted, OpenRowsAreNew, TypeOK,
       StreamTypeOK, OrchTypeOK, RecoveryTypeOK
<1>5. (SoleHandler /\ HandIsPendingOrHijacked /\ ClaimIsLogged /\ NoSilentLoss)'
  BY DEF SoleHandler, HandIsPendingOrHijacked, ClaimIsLogged, NoSilentLoss
<1> QED
  BY <1>1, <1>2, <1>3, <1>4, <1>5

(* Nothing depends on the lock.                                              *)
LEMMA LockExpiresInv ==
  ASSUME LedgerInv, LockExpires, UNCHANGED <<recoveryVars, compacting>>
  PROVE  LedgerInv'
<1> USE DEF LedgerInv, recoveryVars, LockExpires, streamVars
<1>1. TypeOK'
  BY StreamAssumption DEF TypeOK, StreamTypeOK, OrchTypeOK, RecoveryTypeOK,
       Pending, Consumers
<1>2. (HandShape /\ DeliveredIsBehindCursor /\ NoGroupNoCursor)'
  BY DEF HandShape, DeliveredIsBehindCursor, NoGroupNoCursor
<1>3. (UnreadIsUntouched /\ CursorSkipsOnlyEvicted)'
  BY DEF UnreadIsUntouched, CursorSkipsOnlyEvicted
<1>4. (HandIsFresh /\ InsertedIsOpen /\ AckIsAccounted /\ OpenRowsAreNew)'
  BY DEF HandIsFresh, InsertedIsOpen, AckIsAccounted, OpenRowsAreNew
<1>5. (SoleHandler /\ HandIsPendingOrHijacked /\ ClaimIsLogged /\ NoSilentLoss)'
  BY DEF SoleHandler, HandIsPendingOrHijacked, ClaimIsLogged, NoSilentLoss
<1> QED
  BY <1>1, <1>2, <1>3, <1>4, <1>5

-----------------------------------------------------------------------------
(* The daemon's steps.                                                       *)

(* Listed entries are pending, hence read.                                   *)
LEMMA AuditInv ==
  ASSUME LedgerInv, NEW d \in Daemons, Audit(d), UNCHANGED <<orchVars, compacting>>
  PROVE  LedgerInv'
<1> USE DEF LedgerInv, orchVars, Audit, AuditList, streamVars
<1>1. TypeOK'
  BY StreamAssumption DEF TypeOK, StreamTypeOK, OrchTypeOK, RecoveryTypeOK,
       Pending, Consumers
<1>2. (HandShape /\ DeliveredIsBehindCursor /\ NoGroupNoCursor)'
  BY DEF HandShape, DeliveredIsBehindCursor, NoGroupNoCursor
<1>3. (UnreadIsUntouched /\ CursorSkipsOnlyEvicted)'
  BY StreamAssumption DEF UnreadIsUntouched, CursorSkipsOnlyEvicted, TypeOK,
       StreamTypeOK, RecoveryTypeOK, Pending, Consumers
<1>4. (HandIsFresh /\ InsertedIsOpen /\ AckIsAccounted /\ OpenRowsAreNew)'
  BY DEF HandIsFresh, InsertedIsOpen, AckIsAccounted, OpenRowsAreNew
<1>5. (SoleHandler /\ HandIsPendingOrHijacked /\ ClaimIsLogged /\ NoSilentLoss)'
  BY DEF SoleHandler, HandIsPendingOrHijacked, ClaimIsLogged, NoSilentLoss
<1> QED
  BY <1>1, <1>2, <1>3, <1>4, <1>5

(* The three answers XCLAIM gives to the daemon are the three cases.         *)
LEMMA ClaimInv ==
  ASSUME LedgerInv, NEW d \in Daemons, Claim(d), UNCHANGED <<orchVars, compacting>>
  PROVE  LedgerInv'
<1> USE DEF LedgerInv, orchVars
<1>1. PICK e \in todo[d] :
        /\ todo' = [todo EXCEPT ![d] = @ \ {e}]
        /\ recoveryLog' = recoveryLog \cup {e}
        /\ \/ XClaim(Recovery, e) /\ claim' = [claim EXCEPT ![d] = e]
           \/ XClaimDeleted(e) /\ UNCHANGED claim
           \/ UNCHANGED <<claim, streamVars>>
  BY DEF Claim
<1>2. e \in Events /\ pel[e] # Unread
  BY DEF TypeOK, RecoveryTypeOK, UnreadIsUntouched
<1>3. claim' \in [Daemons -> Events \cup {NoTask}] /\ todo' \in [Daemons -> SUBSET Events]
  BY <1>1, <1>2 DEF TypeOK, RecoveryTypeOK
<1>4. /\ pel' \in {pel, [pel EXCEPT ![e] = Recovery], [pel EXCEPT ![e] = Gone]}
      /\ UNCHANGED <<published, stream, group, cursor>>
  BY <1>1 DEF XClaim, XClaimDeleted, XAck, streamVars
<1>5. stale' \subseteq Pending'
  BY <1>1, <1>2 DEF TypeOK, StreamTypeOK, Pending, XClaim, XClaimDeleted, XAck, streamVars
<1>6. TypeOK'
  BY <1>1, <1>2, <1>3, <1>4, <1>5
  DEF TypeOK, StreamTypeOK, OrchTypeOK, RecoveryTypeOK, Consumers
<1>7. \A f \in Events : pel'[f] = Unread <=> pel[f] = Unread
  BY <1>2, <1>4, StreamAssumption DEF TypeOK, StreamTypeOK, Consumers
<1>8. (HandShape /\ DeliveredIsBehindCursor /\ NoGroupNoCursor)'
  BY <1>4, <1>7 DEF HandShape, DeliveredIsBehindCursor, NoGroupNoCursor
<1>9. (UnreadIsUntouched /\ CursorSkipsOnlyEvicted)'
  <2>1. \A c \in Daemons : todo'[c] \subseteq todo[c] /\ claim'[c] \in {claim[c], e}
    BY <1>1 DEF TypeOK, RecoveryTypeOK, XClaim
  <2> QED
    BY <1>2, <1>4, <1>7, <2>1 DEF UnreadIsUntouched, CursorSkipsOnlyEvicted
<1>10. (HandIsFresh /\ InsertedIsOpen /\ AckIsAccounted /\ OpenRowsAreNew)'
  BY DEF HandIsFresh, InsertedIsOpen, AckIsAccounted, OpenRowsAreNew
<1>11. (SoleHandler /\ HandIsPendingOrHijacked /\ NoSilentLoss)'
  <2>1. \A f \in Events \ {e} : pel'[f] = pel[f]
    BY <1>4 DEF TypeOK, StreamTypeOK
  <2>2. recoveryLog \subseteq recoveryLog' /\ e \in recoveryLog'
    BY <1>1
  <2> QED
    BY <2>1, <2>2
    DEF SoleHandler, HandIsPendingOrHijacked, NoSilentLoss, TypeOK, OrchTypeOK
<1>12. ClaimIsLogged'
  BY <1>1, <1>2 DEF ClaimIsLogged, TypeOK, RecoveryTypeOK
<1> QED
  BY <1>6, <1>8, <1>9, <1>10, <1>11, <1>12

(* A claimed entry is in the recovery log.                                   *)
LEMMA RecoverAckInv ==
  ASSUME LedgerInv, NEW d \in Daemons, RecoverAck(d), UNCHANGED <<orchVars, compacting>>
  PROVE  LedgerInv'
<1> USE DEF LedgerInv, orchVars, RecoverAck, XAck
<1>1. TypeOK'
  BY StreamAssumption DEF TypeOK, StreamTypeOK, OrchTypeOK, RecoveryTypeOK,
       Pending, Consumers
<1>2. (HandShape /\ DeliveredIsBehindCursor /\ NoGroupNoCursor)'
  BY DEF HandShape, DeliveredIsBehindCursor, NoGroupNoCursor, TypeOK,
       StreamTypeOK, OrchTypeOK, RecoveryTypeOK, UnreadIsUntouched
<1>3. (UnreadIsUntouched /\ CursorSkipsOnlyEvicted)'
  BY StreamAssumption DEF UnreadIsUntouched, CursorSkipsOnlyEvicted, TypeOK,
       StreamTypeOK, RecoveryTypeOK
<1>4. (HandIsFresh /\ InsertedIsOpen /\ AckIsAccounted /\ OpenRowsAreNew)'
  BY DEF HandIsFresh, InsertedIsOpen, AckIsAccounted, OpenRowsAreNew
<1>5. (SoleHandler /\ HandIsPendingOrHijacked /\ ClaimIsLogged /\ NoSilentLoss)'
  BY DEF SoleHandler, HandIsPendingOrHijacked, ClaimIsLogged, NoSilentLoss
<1> QED
  BY <1>1, <1>2, <1>3, <1>4, <1>5

(* A dead daemon forgets its list.                                           *)
LEMMA DaemonDiesInv ==
  ASSUME LedgerInv, NEW d \in Daemons, DaemonDies(d), UNCHANGED <<orchVars, compacting>>
  PROVE  LedgerInv'
<1> USE DEF LedgerInv, orchVars, DaemonDies, streamVars
<1>1. TypeOK'
  BY StreamAssumption DEF TypeOK, StreamTypeOK, OrchTypeOK, RecoveryTypeOK,
       Pending, Consumers
<1>2. (HandShape /\ DeliveredIsBehindCursor /\ NoGroupNoCursor)'
  BY DEF HandShape, DeliveredIsBehindCursor, NoGroupNoCursor
<1>3. (UnreadIsUntouched /\ CursorSkipsOnlyEvicted)'
  BY DEF UnreadIsUntouched, CursorSkipsOnlyEvicted
<1>4. (HandIsFresh /\ InsertedIsOpen /\ AckIsAccounted /\ OpenRowsAreNew)'
  BY DEF HandIsFresh, InsertedIsOpen, AckIsAccounted, OpenRowsAreNew
<1>5. (SoleHandler /\ HandIsPendingOrHijacked /\ ClaimIsLogged /\ NoSilentLoss)'
  BY DEF SoleHandler, HandIsPendingOrHijacked, ClaimIsLogged, NoSilentLoss
<1> QED
  BY <1>1, <1>2, <1>3, <1>4, <1>5

-----------------------------------------------------------------------------
(* Producers, time and the compactor.                                        *)

(* A new entry is unread and in front of the cursor.                         *)
LEMMA ProduceInv ==
  ASSUME LedgerInv, Produce
  PROVE  LedgerInv'
<1> USE DEF LedgerInv, Produce, XAdd, orchVars, recoveryVars
<1>1. TypeOK'
  BY StreamAssumption DEF TypeOK, StreamTypeOK, OrchTypeOK, RecoveryTypeOK,
       Pending, Consumers
<1>2. (HandShape /\ DeliveredIsBehindCursor /\ NoGroupNoCursor)'
  BY DEF HandShape, DeliveredIsBehindCursor, NoGroupNoCursor
<1>3. (UnreadIsUntouched /\ CursorSkipsOnlyEvicted)'
  BY DEF UnreadIsUntouched, CursorSkipsOnlyEvicted, TypeOK, StreamTypeOK,
       OrchTypeOK, RecoveryTypeOK
<1>4. (HandIsFresh /\ InsertedIsOpen /\ AckIsAccounted /\ OpenRowsAreNew)'
  BY DEF HandIsFresh, InsertedIsOpen, AckIsAccounted, OpenRowsAreNew
<1>5. (SoleHandler /\ HandIsPendingOrHijacked /\ ClaimIsLogged /\ NoSilentLoss)'
  BY DEF SoleHandler, HandIsPendingOrHijacked, ClaimIsLogged, NoSilentLoss
<1> QED
  BY <1>1, <1>2, <1>3, <1>4, <1>5

(* Only a pending entry becomes stale.                                       *)
LEMMA ElapseInv ==
  ASSUME LedgerInv, Elapse
  PROVE  LedgerInv'
<1> USE DEF LedgerInv, Elapse, IdleTimePasses, orchVars, recoveryVars
<1>1. TypeOK'
  BY StreamAssumption DEF TypeOK, StreamTypeOK, OrchTypeOK, RecoveryTypeOK,
       Pending, Consumers
<1>2. (HandShape /\ DeliveredIsBehindCursor /\ NoGroupNoCursor)'
  BY DEF HandShape, DeliveredIsBehindCursor, NoGroupNoCursor
<1>3. (UnreadIsUntouched /\ CursorSkipsOnlyEvicted)'
  BY DEF UnreadIsUntouched, CursorSkipsOnlyEvicted
<1>4. (HandIsFresh /\ InsertedIsOpen /\ AckIsAccounted /\ OpenRowsAreNew)'
  BY DEF HandIsFresh, InsertedIsOpen, AckIsAccounted, OpenRowsAreNew
<1>5. (SoleHandler /\ HandIsPendingOrHijacked /\ ClaimIsLogged /\ NoSilentLoss)'
  BY DEF SoleHandler, HandIsPendingOrHijacked, ClaimIsLogged, NoSilentLoss
<1> QED
  BY <1>1, <1>2, <1>3, <1>4, <1>5

(* Trimming removes stored entries and nothing else.                         *)
LEMMA TidyInv ==
  ASSUME LedgerInv, Tidy
  PROVE  LedgerInv'
<1> USE DEF LedgerInv, Tidy, CompactorNext, Inspect, Compact, CompactFails,
       XTrim, orchVars, recoveryVars, streamVars
<1>1. TypeOK'
  BY StreamAssumption DEF TypeOK, StreamTypeOK, OrchTypeOK, RecoveryTypeOK,
       Pending, Consumers
<1>2. (HandShape /\ DeliveredIsBehindCursor /\ NoGroupNoCursor)'
  BY DEF HandShape, DeliveredIsBehindCursor, NoGroupNoCursor
<1>3. (UnreadIsUntouched /\ CursorSkipsOnlyEvicted)'
  BY DEF UnreadIsUntouched, CursorSkipsOnlyEvicted
<1>4. (HandIsFresh /\ InsertedIsOpen /\ AckIsAccounted /\ OpenRowsAreNew)'
  BY DEF HandIsFresh, InsertedIsOpen, AckIsAccounted, OpenRowsAreNew
<1>5. (SoleHandler /\ HandIsPendingOrHijacked /\ ClaimIsLogged /\ NoSilentLoss)'
  BY DEF SoleHandler, HandIsPendingOrHijacked, ClaimIsLogged, NoSilentLoss
<1> QED
  BY <1>1, <1>2, <1>3, <1>4, <1>5

-----------------------------------------------------------------------------

(* A step of the orchestrators, whichever instance takes it.                 *)
LEMMA OrchestrateInv == LedgerInv /\ Orchestrate => LedgerInv'
<1> SUFFICES ASSUME LedgerInv, Orchestrate PROVE LedgerInv'
  OBVIOUS
<1>1. UNCHANGED <<recoveryVars, compacting>>
  BY DEF Orchestrate
<1>2. CASE LockExpires
  BY <1>1, <1>2, LockExpiresInv
<1>3. ASSUME NEW i \in Instances,
             AcquireLock(i) \/ RefuseStart(i) \/ Work(i) \/ Interrupt(i) \/ Crash(i)
      PROVE  LedgerInv'
  <2>1. CASE Work(i)
    BY <1>1, <2>1, CreateGroupInv, InterruptInv, ReadInv, AdmitInv, ThrottleInv,
       InsertInv, CommitInv, StoreErrorInv, AckInv, KeepLockInv, OwnsLockInv,
       DeleteLockInv
    DEF Work, NoGroup
  <2> QED
    BY <1>1, <1>3, <2>1, AcquireLockInv, RefuseStartInv, InterruptInv, CrashInv
<1> QED
  BY <1>2, <1>3 DEF Orchestrate, OrchNext

(* A step of the recovery daemons.                                           *)
LEMMA RecoverInv == LedgerInv /\ Recover => LedgerInv'
  BY AuditInv, ClaimInv, RecoverAckInv, DaemonDiesInv DEF Recover, RecoveryNext

(* Nothing changes, nothing breaks.                                          *)
LEMMA StutterInv == LedgerInv /\ UNCHANGED vars => LedgerInv'
<1> SUFFICES ASSUME LedgerInv, UNCHANGED vars PROVE LedgerInv'
  OBVIOUS
<1> USE DEF LedgerInv, vars, streamVars, orchVars, recoveryVars
<1>1. TypeOK'
  BY DEF TypeOK, StreamTypeOK, OrchTypeOK, RecoveryTypeOK, Pending
<1>2. (HandShape /\ DeliveredIsBehindCursor /\ NoGroupNoCursor /\ UnreadIsUntouched)'
  BY DEF HandShape, DeliveredIsBehindCursor, NoGroupNoCursor, UnreadIsUntouched
<1>3. (HandIsFresh /\ InsertedIsOpen /\ AckIsAccounted /\ OpenRowsAreNew)'
  BY DEF HandIsFresh, InsertedIsOpen, AckIsAccounted, OpenRowsAreNew
<1>4. (ClaimIsLogged /\ SoleHandler /\ HandIsPendingOrHijacked)'
  BY DEF ClaimIsLogged, SoleHandler, HandIsPendingOrHijacked
<1>5. (CursorSkipsOnlyEvicted /\ NoSilentLoss)'
  BY DEF CursorSkipsOnlyEvicted, NoSilentLoss
<1> QED
  BY <1>1, <1>2, <1>3, <1>4, <1>5

(* LedgerInv holds in every reachable state: the consistency of hands,       *)
(* transactions, rows and pending entries that the properties below need.    *)
THEOREM LedgerInvariant == Spec => []LedgerInv
<1>1. LedgerInv /\ [Next]_vars => LedgerInv'
  BY ProduceInv, ElapseInv, OrchestrateInv, RecoverInv, TidyInv, StutterInv DEF Next
<1> QED
  BY InitInv, <1>1, PTL DEF Spec

(* Every variable stays in its range.                                        *)
THEOREM TypeCorrect == Spec => []TypeOK
<1>1. LedgerInv => TypeOK
  BY DEF LedgerInv
<1> QED
  BY LedgerInvariant, <1>1, PTL

(* Two instances never process the same event, lock or no lock.              *)
THEOREM OneHandler == Spec => []SoleHandler
<1>1. LedgerInv => SoleHandler
  BY DEF LedgerInv
<1> QED
  BY LedgerInvariant, <1>1, PTL

(* The audit insert never breaks the primary key.                            *)
THEOREM KeysNeverConflict == Spec => []NoKeyConflict
<1>1. LedgerInv => NoKeyConflict
  BY DEF LedgerInv, HandIsFresh, NoKeyConflict, KeyTaken
<1> QED
  BY LedgerInvariant, <1>1, PTL

(* Whatever leaves the pending list was stored or spoken of in a log.        *)
THEOREM NothingLostSilently == Spec => []NoSilentLoss
<1>1. LedgerInv => NoSilentLoss
  BY DEF LedgerInv
<1> QED
  BY LedgerInvariant, <1>1, PTL

(* An event in work is pending for its handler unless a daemon warned.       *)
THEOREM HandIsOwned == Spec => []HandIsPendingOrHijacked
<1>1. LedgerInv => HandIsPendingOrHijacked
  BY DEF LedgerInv
<1> QED
  BY LedgerInvariant, <1>1, PTL

(* No stored entry is left behind the cursor of the group.                   *)
THEOREM NothingSkipped == Spec => []CursorSkipsOnlyEvicted
<1>1. LedgerInv => CursorSkipsOnlyEvicted
  BY DEF LedgerInv
<1> QED
  BY LedgerInvariant, <1>1, PTL

-----------------------------------------------------------------------------
(* Compaction and unread entries, for every length, node size and number of  *)
(* entries: what XTRIM evicts is counted against what is unread.             *)

(* Whole nodes only: what is evicted is no more than the excess.             *)
LEMMA WholeNodes ==
  ASSUME NEW x \in Int, NEW n \in Nat \ {0}
  PROVE  n * (x \div n) <= x /\ n * (x \div n) \in Int
<1>1. /\ x \div n \in Int /\ x = n * (x \div n) + (x % n) /\ x % n \in 0 .. n-1
  BY Z3
<1> QED BY <1>1

(* The stored entries up to an unread one and the unread ones make up the    *)
(* stream: nothing unread is behind the cursor.                              *)
LEMMA UnreadIsSuffix ==
  ASSUME LedgerInv, NEW e \in UnreadStored
  PROVE  {f \in stream : f > e} \cup {e} \subseteq UnreadStored
<1>1. published \in Int /\ cursor \in Int /\ \A f \in stream : f \in Int /\ f \in Events
  BY StreamAssumption DEF LedgerInv, TypeOK, StreamTypeOK
<1>2. e \in stream /\ pel[e] = Unread /\ e > cursor
  BY <1>1 DEF LedgerInv, CursorSkipsOnlyEvicted, UnreadStored
<1>3. ASSUME NEW f \in stream, f > e PROVE pel[f] = Unread
  BY <1>1, <1>2, <1>3 DEF LedgerInv, DeliveredIsBehindCursor
<1> QED
  BY <1>2, <1>3 DEF UnreadStored

(* XTRIM evicts an unread entry only if more than max_length unread ones are *)
(* stored.                                                                   *)
LEMMA TrimSparesBacklog ==
  ASSUME LedgerInv, NEW e \in UnreadStored, e \in Trimmed(MaxLength)
  PROVE  Cardinality(UnreadStored) > MaxLength
<1> DEFINE upTo == {f \in stream : f <= e}
           above == {f \in stream : f > e}
<1>1. /\ stream \subseteq Events /\ IsFiniteSet(stream)
      /\ e \in stream /\ e \in Nat
  <2>1. stream \subseteq 1 .. MaxEvents
    BY StreamAssumption DEF LedgerInv, TypeOK, StreamTypeOK
  <2>2. IsFiniteSet(1 .. MaxEvents)
    BY StreamAssumption, FS_Interval
  <2> QED
    <3>1. stream \in SUBSET (1 .. MaxEvents)
      BY <2>1
    <3>2. IsFiniteSet(stream)
      BY <2>2, <3>1, FS_Subset
    <3> QED
      BY <2>1, <3>2 DEF UnreadStored
<1>2. /\ IsFiniteSet(upTo) /\ IsFiniteSet(above)
      /\ IsFiniteSet(UnreadStored)
  <2>1. upTo \in SUBSET stream /\ above \in SUBSET stream /\ UnreadStored \in SUBSET stream
    BY DEF UnreadStored
  <2> HIDE DEF upTo, above
  <2> QED
    BY <1>1, <2>1, FS_Subset
<1>3. Cardinality(stream) = Cardinality(upTo) + Cardinality(above)
  <2>1. ASSUME NEW f \in stream PROVE f \in Int /\ (f <= e <=> ~(f > e))
    BY <1>1
  <2>2. stream = upTo \cup above /\ upTo \cap above = {}
    BY <2>1
  <2> HIDE DEF upTo, above
  <2>3. Cardinality(upTo \cap above) = 0
    BY <2>2, FS_EmptySet
  <2>4. Cardinality(upTo \cup above)
          = Cardinality(upTo) + Cardinality(above) - Cardinality(upTo \cap above)
    BY <1>2, FS_Union
  <2>5. Cardinality(upTo) \in Nat /\ Cardinality(above) \in Nat
    BY <1>2, FS_CardinalityType
  <2> QED
    BY <2>2, <2>3, <2>4, <2>5
<1>4. Cardinality(upTo) <= Cardinality(stream) - MaxLength
  <2> DEFINE excess == Cardinality(stream) - MaxLength
  <2>1. excess \in Int
    BY <1>1, FS_CardinalityType, CompactorAssumption
  <2>2. Cardinality(upTo) <= NodeSize * (excess \div NodeSize)
    BY DEF Trimmed
  <2>3. /\ NodeSize * (excess \div NodeSize) <= excess
        /\ NodeSize * (excess \div NodeSize) \in Int
    BY <2>1, WholeNodes, StreamAssumption
  <2>4. Cardinality(upTo) \in Int
    BY <1>2, FS_CardinalityType
  <2> HIDE DEF upTo
  <2> QED
    BY <2>1, <2>2, <2>3, <2>4
<1>5. Cardinality(above \cup {e}) = Cardinality(above) + 1
  <2>1. e \notin above
    BY <1>1
  <2> HIDE DEF above
  <2> QED
    BY <1>2, <2>1, FS_AddElement
<1>6. Cardinality(above \cup {e}) <= Cardinality(UnreadStored)
  BY <1>2, UnreadIsSuffix, FS_Subset
<1>7. /\ Cardinality(upTo) \in Nat /\ Cardinality(above) \in Nat
      /\ Cardinality(stream) \in Nat /\ Cardinality(UnreadStored) \in Nat
  BY <1>1, <1>2, FS_CardinalityType
<1> HIDE DEF upTo, above
<1> QED
  BY <1>3, <1>4, <1>5, <1>6, <1>7, CompactorAssumption

(* Compaction evicts unread entries only on a backlog.                       *)
THEOREM UnreadEvictionNeedsBacklog == Spec => EvictsUnreadOnlyOnBacklog
<1>1. LedgerInv /\ [Next]_vars
        => UnreadStored \subseteq stream' \/ Cardinality(UnreadStored) > MaxLength
  <2> SUFFICES ASSUME LedgerInv, [Next]_vars,
                      NEW e \in UnreadStored, e \notin stream'
               PROVE  Cardinality(UnreadStored) > MaxLength
    OBVIOUS
  <2>1. e \in stream
    BY DEF UnreadStored
  <2>2. CASE Tidy
    <3>1. e \in Trimmed(MaxLength)
      BY <2>1, <2>2
      DEF Tidy, CompactorNext, Inspect, Compact, CompactFails, XTrim, streamVars
    <3> QED
      BY <3>1, TrimSparesBacklog
  <2>3. CASE Orchestrate
    BY <2>1, <2>3
    DEF Orchestrate, OrchNext, AcquireLock, RefuseStart, Work, Interrupt, Crash,
        CreateGroup, NoGroup, Read, Admit, Throttle, Insert, Commit, StoreError,
        Ack, KeepLock, OwnsLock, DeleteLock, LockExpires, streamVars,
        XGroupCreate, XReadGroup, XAck
  <2>4. CASE Recover
    BY <2>1, <2>4
    DEF Recover, RecoveryNext, Audit, Claim, RecoverAck, DaemonDies,
        XClaim, XClaimDeleted, XAck, streamVars
  <2>5. CASE Produce \/ Elapse \/ UNCHANGED vars
    BY <2>1, <2>5 DEF Produce, XAdd, Elapse, IdleTimePasses, vars, streamVars
  <2> QED
    BY <2>2, <2>3, <2>4, <2>5 DEF Next
<1> QED
  BY LedgerInvariant, <1>1, PTL DEF Spec, EvictsUnreadOnlyOnBacklog

=============================================================================
