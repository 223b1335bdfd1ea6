-------------------------- MODULE LeaseLock_proofs --------------------------
(***************************************************************************)
(* What the lock guarantees however long its sessions take, for every      *)
(* number of clients and every lease.                                      *)
(***************************************************************************)
EXTENDS LeaseLock, TLAPS

(* Before any client has started, the lock is free. *)
LEMMA InitInv == Init => LeaseInv
  BY LeaseAssumption DEF Init, LeaseInv, TypeOK, InSession

(* A lease that runs out is the history of the client that had it. *)
LEMMA TickInv ==
  ASSUME LeaseInv, Tick
  PROVE  LeaseInv'
  BY LeaseAssumption DEF LeaseInv, TypeOK, InSession, Tick

(* A release takes away the key of the client that has it: of its own, or   *)
(* of one that lapses.                                                      *)
LEMMA ReleaseInv ==
  ASSUME LeaseInv, NEW c \in Clients, Release(c)
  PROVE  LeaseInv'
<1> USE LeaseAssumption DEF LeaseInv, InSession
<1>1. CASE Owns(c)
  BY <1>1 DEF Owns, TypeOK
<1>2. CASE LostOwnership(c)
  BY <1>2 DEF LostOwnership, TypeOK
<1>3. CASE GetFails(c) \/ DeleteFails(c)
  BY <1>3 DEF GetFails, DeleteFails, TypeOK
<1>4. CASE Delete(c)
  <2>1. TypeOK'
    <3>1. acquired' \in [Clients -> BOOLEAN]
      <4>1. [acquired EXCEPT ![c] = FALSE] \in [Clients -> BOOLEAN]
        BY DEF TypeOK
      <4> QED
        BY <1>4, <4>1 DEF Delete, TypeOK
    <3>2. pc' \in [Clients -> {"out", "in", "delete", "dead"}]
      BY <1>4 DEF Delete, TypeOK
    <3>3. lapsed' \subseteq Clients /\ ttl' = 0 /\ key' = Nobody
      BY <1>4 DEF Delete, TypeOK
    <3> QED
      BY <3>1, <3>2, <3>3 DEF TypeOK
  <2>2. ASSUME NEW d \in Clients, InSession(d)', d \notin lapsed'
        PROVE  FALSE
    <3>1. d # c /\ InSession(d)
      BY <1>4, <2>2 DEF Delete, TypeOK
    <3>2. d \notin lapsed /\ key # d
      BY <1>4, <2>2, <3>1 DEF Delete
    <3> QED
      BY <3>1, <3>2
  <2>3. key' = Nobody /\ ttl' = 0
    BY <1>4 DEF Delete
  <2> QED
    BY <2>1, <2>2, <2>3
<1> QED
  BY <1>1, <1>2, <1>3, <1>4 DEF Release

(* The lock is taken only when every client still in a session has lapsed.   *)
LEMMA EnterInv ==
  ASSUME LeaseInv, NEW c \in Clients, Enter(c) \/ EnterLost(c)
  PROVE  LeaseInv'
<1> USE LeaseAssumption DEF LeaseInv, InSession, SetNX
<1>1. \A d \in Clients : InSession(d) => d \in lapsed
  BY DEF Enter, EnterLost
<1>2. CASE Enter(c)
  BY <1>1, <1>2 DEF Enter, TypeOK
<1>3. CASE EnterLost(c)
  BY <1>1, <1>3 DEF EnterLost, TypeOK
<1> QED
  BY <1>2, <1>3

(* Every step of the protocol preserves the invariant (acquire, release). *)
LEMMA NextInv ==
  ASSUME LeaseInv, [Next]_vars
  PROVE  LeaseInv'
<1>1. ASSUME NEW c \in Clients, Die(c) PROVE LeaseInv'
  BY <1>1 DEF Die, LeaseInv, TypeOK, InSession
<1>2. CASE UNCHANGED vars
  BY <1>2 DEF vars, LeaseInv, TypeOK, InSession
<1> QED
  BY <1>1, <1>2, TickInv, ReleaseInv, EnterInv DEF Next

(* A client in its session whose key has not gone away owns the lock.        *)
THEOREM LeaseInvariant == Spec => []LeaseInv
  BY InitInv, NextInv, PTL DEF Spec

(* Every variable stays in its range.                                        *)
THEOREM LeaseTypes == Spec => []TypeOK
<1>1. LeaseInv => TypeOK
  BY DEF LeaseInv
<1> QED
  BY LeaseInvariant, <1>1, PTL

(* Two sessions at once: the key of one of them has gone away under it       *)
(* (acquire, release).                                                       *)
THEOREM ExclusionUnlessLapsed == Spec => []MutualExclusion
<1>1. LeaseInv => MutualExclusion
  BY LeaseAssumption DEF LeaseInv, InSession, MutualExclusion
<1> QED
  BY LeaseInvariant, <1>1, PTL

(* A release that deletes the lock of another client is one whose own key    *)
(* went away between its GET and its DEL (release).                          *)
THEOREM OthersFreeOnlyWhenLapsed == Spec => FreedByOwnerOrLapsed
<1>1. ASSUME LeaseInv, [Next]_vars, NEW c \in Clients, key = c, key' # c
      PROVE  \/ pc[c] = "delete" /\ pc'[c] = "out"
             \/ ttl = 1 /\ pc' = pc
             \/ \E d \in lapsed : pc[d] = "delete" /\ pc'[d] = "out"
  <2> USE LeaseAssumption, <1>1
  <2>1. CASE Tick
    BY <2>1 DEF Tick
  <2>2. ASSUME NEW d \in Clients, Delete(d)
        PROVE  \/ pc[c] = "delete" /\ pc'[c] = "out"
               \/ d \in lapsed /\ pc[d] = "delete" /\ pc'[d] = "out"
    <3>1. pc[d] = "delete" /\ pc'[d] = "out"
      BY <2>2 DEF Delete, LeaseInv, TypeOK
    <3>2. d \in lapsed \/ d = c
      BY <3>1 DEF LeaseInv, InSession
    <3> QED
      BY <3>1, <3>2
  <2>3. ASSUME NEW d \in Clients,
               \/ Enter(d) \/ EnterLost(d) \/ Owns(d) \/ LostOwnership(d)
               \/ GetFails(d) \/ DeleteFails(d) \/ Die(d)
        PROVE  FALSE
    BY <2>3
    DEF Enter, EnterLost, SetNX, Owns, LostOwnership, GetFails, DeleteFails, Die
  <2> QED
    BY <2>1, <2>2, <2>3 DEF Next, Release, vars
<1>2. LeaseInv /\ [Next]_vars =>
        \A c \in Clients : key = c /\ key' # c =>
          \/ pc[c] = "delete" /\ pc'[c] = "out"
          \/ ttl = 1 /\ pc' = pc
          \/ \E d \in lapsed : pc[d] = "delete" /\ pc'[d] = "out"
  BY <1>1
<1> QED
  BY LeaseInvariant, <1>2, PTL DEF Spec, FreedByOwnerOrLapsed

=============================================================================
