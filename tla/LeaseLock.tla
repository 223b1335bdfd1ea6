----------------------------- MODULE LeaseLock -----------------------------
(***************************************************************************)
(* RedisDistributedLock (dist_lock.py): SET NX PX takes the lock for a     *)
(* lease nobody renews; release asks for the owner and deletes the key as  *)
(* two commands.  The orchestrator's own lock (acquire_distributed_lock    *)
(* and close in orchestrator.py) uses the same two commands.               *)
(*                                                                         *)
(* A client uses its lock object for one session after another ("async     *)
(* with"): it enters, works, and releases; a release that raised leaves    *)
(* the object's flag set and may be tried again.  Time is counted in       *)
(* ticks, and nothing bounds the time between two steps of a client: the   *)
(* lease may run out during a session, and between the GET and the DEL of  *)
(* a release.                                                              *)
(***************************************************************************)
EXTENDS Naturals

CONSTANTS
  Clients,
  Nobody,   \* the key is absent
  Lease     \* lease_time_sec

ASSUME LeaseAssumption ==
  /\ Nobody \notin Clients
  /\ Lease \in Nat \ {0}

VARIABLES
  key,       \* the owner stored under lock_key, or Nobody
  ttl,       \* ticks until the key expires
  pc,        \* per client: out, in (the session's body), delete, dead
  acquired,  \* per client: self.acquired
  lapsed     \* history: the clients whose key has expired, or was deleted by
             \* another, since their SET or the last GET that named them

vars == <<key, ttl, pc, acquired, lapsed>>

InSession(c) == pc[c] \in {"in", "delete"}

Init ==
  /\ key = Nobody
  /\ ttl = 0
  /\ pc = [c \in Clients |-> "out"]
  /\ acquired = [c \in Clients |-> FALSE]
  /\ lapsed = {}

(* Variant (KeyIsFreed): SET NX without PX. *)
SetWithoutExpiry(c) ==
  /\ key = Nobody
  /\ key' = c
  /\ ttl' = 0
  /\ lapsed' = lapsed \ {c}

(* Variant (MutualExclusion): SET PX without NX. *)
SetOverwrites(c) ==
  /\ key' = c
  /\ ttl' = Lease
  /\ lapsed' = lapsed \ {c}

(* Variant (TypeOK): EX for PX, the milliseconds taken for seconds. *)
SetInMilliseconds(c) ==
  /\ key = Nobody
  /\ key' = c
  /\ ttl' = 1000 * Lease
  /\ lapsed' = lapsed \ {c}

(* SET lock_key owner_id NX PX lease. *)
SetNX(c) ==
  /\ key = Nobody
  /\ key' = c
  /\ ttl' = Lease
  /\ lapsed' = lapsed \ {c}

(* acquire answered True.  (When the key is taken, whoever took it, acquire *)
(* answers False, the session does not begin, and nothing has changed.)     *)
Enter(c) ==
  /\ pc[c] = "out"
  /\ SetNX(c)
  /\ pc' = [pc EXCEPT ![c] = "in"]
  /\ acquired' = [acquired EXCEPT ![c] = TRUE]

(* SET was executed and its reply lost: acquire logs the error and answers  *)
(* False.  The key is taken by a client that does not know.                 *)
EnterLost(c) ==
  /\ pc[c] = "out"
  /\ SetNX(c)
  /\ UNCHANGED <<pc, acquired>>

(* Variant (FreedByOwnerOrLapsed): DEL whatever the owner. *)
OwnsUnchecked(c) ==
  /\ pc[c] \in {"in", "out"} /\ acquired[c]
  /\ pc' = [pc EXCEPT ![c] = "delete"]
  /\ lapsed' = lapsed \ {c}
  /\ UNCHANGED <<key, ttl, acquired>>

(* release, at the end of a session or again after a failure: GET.          *)
Owns(c) ==
  /\ pc[c] \in {"in", "out"} /\ acquired[c]
  /\ key = c
  /\ pc' = [pc EXCEPT ![c] = "delete"]
  /\ lapsed' = lapsed \ {c}
  /\ UNCHANGED <<key, ttl, acquired>>

LostOwnership(c) ==
  /\ pc[c] \in {"in", "out"} /\ acquired[c]
  /\ key # c
  /\ pc' = [pc EXCEPT ![c] = "out"]
  /\ acquired' = [acquired EXCEPT ![c] = FALSE]
  /\ UNCHANGED <<key, ttl, lapsed>>

(* GET raised: logged; the flag stays set, the key stays until it expires.  *)
GetFails(c) ==
  /\ pc[c] = "in"
  /\ pc' = [pc EXCEPT ![c] = "out"]
  /\ UNCHANGED <<key, ttl, acquired, lapsed>>

(* DEL lock_key, whoever owns the key by now.  If the reply is lost the     *)
(* flag stays set.                                                          *)
Delete(c) ==
  /\ pc[c] = "delete"
  /\ key' = Nobody /\ ttl' = 0
  /\ pc' = [pc EXCEPT ![c] = "out"]
  /\ acquired' \in {acquired, [acquired EXCEPT ![c] = FALSE]}
  /\ lapsed' = lapsed \cup ({key} \ {c, Nobody})

(* DEL raised before it reached the server. *)
DeleteFails(c) ==
  /\ pc[c] = "delete"
  /\ pc' = [pc EXCEPT ![c] = "out"]
  /\ UNCHANGED <<key, ttl, acquired, lapsed>>

(* The process dies, inside or outside a session. *)
Die(c) ==
  /\ pc[c] # "dead"
  /\ pc' = [pc EXCEPT ![c] = "dead"]
  /\ UNCHANGED <<key, ttl, acquired, lapsed>>

(* One tick of the key's time to live. *)
Tick ==
  /\ ttl > 0
  /\ ttl' = ttl - 1
  /\ IF ttl = 1
       THEN key' = Nobody /\ lapsed' = lapsed \cup {key}
       ELSE UNCHANGED <<key, lapsed>>
  /\ UNCHANGED <<pc, acquired>>

Release(c) == Owns(c) \/ LostOwnership(c) \/ GetFails(c) \/ Delete(c) \/ DeleteFails(c)

Next ==
  \/ \E c \in Clients : Enter(c) \/ EnterLost(c) \/ Release(c) \/ Die(c)
  \/ Tick

Spec == Init /\ [][Next]_vars

(* Time goes on; no client is obliged to do anything. *)
FairSpec == Spec /\ WF_vars(Tick)

-----------------------------------------------------------------------------

(* Every variable stays in its range. *)
TypeOK ==
  /\ key \in Clients \cup {Nobody}
  /\ ttl \in 0 .. Lease
  /\ pc \in [Clients -> {"out", "in", "delete", "dead"}]
  /\ acquired \in [Clients -> BOOLEAN]
  /\ lapsed \subseteq Clients

(* Two clients are in their sessions at once only when the key of one of    *)
(* them has gone away under it: its lease ran out, or a release that was    *)
(* late with its DEL deleted it (acquire, release).                         *)
MutualExclusion ==
  \A c, d \in Clients :
    c # d /\ pc[c] = "in" /\ pc[d] = "in" => c \in lapsed \/ d \in lapsed

(* A key goes away by its owner's DEL or by the passing of time, or by the  *)
(* DEL of a client whose own key went away after its GET had named it: the  *)
(* window between release's two commands (dist_lock.py:50 and 60) is the    *)
(* only way a release hits another client's lock.                           *)
FreedByOwnerOrLapsed ==
  [][\A c \in Clients : key = c /\ key' # c =>
       \/ pc[c] = "delete" /\ pc'[c] = "out"
       \/ ttl = 1 /\ pc' = pc
       \/ \E d \in lapsed : pc[d] = "delete" /\ pc'[d] = "out"]_vars

(* dist_lock.py:44, "releases the lock only if this specific instance is    *)
(* the current lock owner": a key goes away by the DEL of its owner, or by  *)
(* the passing of time.  Refuted: the lease may run out, and another client *)
(* take the lock, between the GET and the DEL.                              *)
OnlyOwnerFrees ==
  [][\A c \in Clients : key = c /\ key' # c =>
       \/ pc[c] = "delete" /\ pc'[c] = "out"
       \/ ttl = 1 /\ pc' = pc]_vars

(* Whoever dies, loses a reply or fails to release: the key is free again   *)
(* some time.                                                               *)
KeyIsFreed == key # Nobody ~> key = Nobody

(* The inductive invariant: a client in its session whose key has not gone  *)
(* away still owns the lock, and a taken key has time left.                 *)
LeaseInv ==
  /\ TypeOK
  /\ \A c \in Clients : InSession(c) /\ c \notin lapsed => key = c
  /\ key # Nobody <=> ttl > 0

=============================================================================
