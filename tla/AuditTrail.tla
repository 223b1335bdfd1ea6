----------------------------- MODULE AuditTrail -----------------------------
(***************************************************************************)
(* What the event ledger promises about one entry: it is delivered to one  *)
(* consumer, at most one audit row is ever written for it and only after   *)
(* delivery, and it is settled (it can never be delivered or recovered     *)
(* again) only when its row is committed or a log reports what became of   *)
(* it.  Rows are never removed.                                            *)
(***************************************************************************)
CONSTANT Entries

VARIABLES
  phase,     \* per entry: absent, queued, taken or settled
  audited,   \* entries with a committed row
  reported   \* entries an error or recovery message speaks of

trailVars == <<phase, audited, reported>>

Delivered == {e \in Entries : phase[e] \in {"taken", "settled"}}

Init ==
  /\ phase = [e \in Entries |-> "absent"]
  /\ audited = {}
  /\ reported = {}

Move(e, from, to) ==
  /\ phase[e] = from
  /\ phase' = [phase EXCEPT ![e] = to]

Publish(e) ==
  /\ Move(e, "absent", "queued")
  /\ UNCHANGED <<audited, reported>>

Deliver(e) ==
  /\ Move(e, "queued", "taken")
  /\ UNCHANGED <<audited, reported>>

(* One commit may carry the rows of several entries. *)
Record(S) ==
  /\ S # {} /\ S \cap audited = {}
  /\ audited' = audited \cup S
  /\ UNCHANGED <<phase, reported>>

(* A report may settle the entry by the same step. *)
Report(e) ==
  /\ reported' = reported \cup {e}
  /\ phase' \in {phase, [phase EXCEPT ![e] = "settled"]}
  /\ UNCHANGED audited

Settle(e) ==
  /\ e \in audited \cup reported
  /\ Move(e, "taken", "settled")
  /\ UNCHANGED <<audited, reported>>

Next ==
  \/ \E e \in Entries : Publish(e) \/ Deliver(e) \/ Settle(e)
  \/ \E e \in Delivered : Report(e)
  \/ \E S \in SUBSET Delivered : Record(S)

Spec == Init /\ [][Next]_trailVars

=============================================================================
