-------------------------- MODULE DatabaseArchiver --------------------------
(***************************************************************************)
(* DatabaseArchiver (db_archiver.py): processes that copy the database     *)
(* file into the vault directory and then delete the oldest copies beyond  *)
(* max_backups.  Nothing keeps them from overlapping each other, or the    *)
(* process that writes the database.  A step is one call on the directory: *)
(* half of a copy (the file's data is its two halves), the listing, or a   *)
(* removal.  The calls of getctime that sort the list are spread over the  *)
(* steps that change files meanwhile (Touch).                              *)
(* The database file exists: without it a snapshot ends at once.           *)
(***************************************************************************)
EXTENDS Naturals, Sequences, SequencesExt, FiniteSets

CONSTANTS
  Archivers,
  MaxBackups,
  MaxTime,     \* bound: the seconds of the run
  MaxCommits,  \* bound: the transactions written to the database
  Failures,    \* may a call of an archiver fail, or its process die?
  NoData       \* a half that has not been copied

ASSUME ArchiverAssumption ==
  /\ IsFiniteSet(Archivers)
  /\ MaxBackups \in Nat \ {0}
  /\ MaxTime \in Nat /\ MaxCommits \in Nat
  /\ Failures \in BOOLEAN
  /\ NoData \notin Nat

Seconds == 0 .. MaxTime

VARIABLES
  db,         \* the last transaction written to each half of db_path
  now,        \* the second that names a snapshot taken now
  vault,      \* backup_dir: the snapshots, by the time of their last change
  halves,     \* per snapshot: what has been copied
  pc,         \* per archiver: idle, copying, listing, sorting or rotating
  name,       \* destination_path
  linked,     \* is the file it is writing still the one under that name?
  all_files,  \* the list of the rotation, in the order the sort is going to find
  seen,       \* files of it that changed after sort had asked for their ctime
  clean,      \* history: no call has failed
  apart,      \* history: snapshots overlapped neither each other nor a
              \* transaction, and none took the name of another
  kept        \* history: a whole snapshot has been finished

history == <<clean, apart, kept>>
vars == <<db, now, vault, halves, pc, name, linked, all_files, seen, history>>

Init ==
  /\ db = <<0, 0>>
  /\ now = 0
  /\ vault = <<>>
  /\ halves = [f \in Seconds |-> <<NoData, NoData>>]
  /\ pc = [a \in Archivers |-> "idle"]
  /\ name = [a \in Archivers |-> 0]
  /\ linked = [a \in Archivers |-> FALSE]
  /\ all_files = [a \in Archivers |-> <<>>]
  /\ seen = [a \in Archivers |-> {}]
  /\ clean = TRUE /\ apart = TRUE /\ kept = FALSE

Goto(a, from, to) ==
  /\ pc[a] = from
  /\ pc' = [pc EXCEPT ![a] = to]

Settled == db[1] = db[2]

Complete(f) == f \in ToSet(vault) /\ halves[f][2] # NoData
Whole(f) == Complete(f) /\ halves[f][1] = halves[f][2]

ToEnd(s, f) == Append(RemoveFirst(s, f), f)

(* The sorts that have not asked for the ctime of f. *)
Asking(f) == {b \in Archivers : pc[b] = "sorting" /\ f \in ToSet(all_files[b]) \ seen[b]}

(* A call changes file f: its ctime becomes the latest.  A sort that has    *)
(* not yet asked for it is going to find f last; one that is early has.     *)
Touch(f) ==
  /\ vault' = ToEnd(vault, f)
  /\ \E early \in SUBSET Asking(f) :
       /\ seen' = [b \in Archivers |-> IF b \in early THEN seen[b] \cup {f} ELSE seen[b]]
       /\ all_files' = [b \in Archivers |->
            IF b \in Asking(f) \ early THEN ToEnd(all_files[b], f) ELSE all_files[b]]

-----------------------------------------------------------------------------
(* execute_snapshot *)

(* copy2 creates the file, or empties the one of the same second. *)
StartCopy(a) ==
  /\ Goto(a, "idle", "copying")
  /\ name' = [name EXCEPT ![a] = now]
  /\ linked' = [linked EXCEPT ![a] = TRUE]
  /\ Touch(now)
  /\ halves' = [halves EXCEPT ![now] = <<db[1], NoData>>]
  /\ apart' = (/\ apart /\ Settled
               /\ now \notin ToSet(vault)
               /\ \A b \in Archivers : pc[b] = "idle")
  /\ UNCHANGED <<db, now, clean, kept>>

(* The second half, and the metadata, which copy2 sets by the file's name. *)
EndCopy(a) ==
  /\ Goto(a, "copying", "listing")
  /\ name[a] \in ToSet(vault)
  /\ Touch(name[a])
  /\ halves' = IF linked[a] THEN [halves EXCEPT ![name[a]][2] = db[2]] ELSE halves
  /\ UNCHANGED <<db, now, name, linked, clean, apart>>
  /\ kept' = (kept \/ Whole(name[a])')

(* Its file was removed meanwhile: copy2 raises, there is no rotation. *)
CopyIsGone(a) ==
  /\ Goto(a, "copying", "idle")
  /\ name[a] \notin ToSet(vault)
  /\ UNCHANGED <<db, now, vault, halves, name, linked, all_files, seen, history>>

-----------------------------------------------------------------------------
(* _rotate_backups *)

(* os.listdir: the files, not yet sorted. *)
ListBackups(a) ==
  /\ Goto(a, "listing", "sorting")
  /\ all_files' = [all_files EXCEPT ![a] = vault]
  /\ UNCHANGED <<db, now, vault, halves, name, linked, seen, history>>

(* A file listed was removed by another rotation before getctime saw it. *)
ListIsStale(a) ==
  /\ Goto(a, "sorting", "idle")
  /\ \E f \in ToSet(all_files[a]) \ seen[a] : f \notin ToSet(vault)
  /\ all_files' = [all_files EXCEPT ![a] = <<>>]
  /\ seen' = [seen EXCEPT ![a] = {}]
  /\ UNCHANGED <<db, now, vault, halves, name, linked, history>>

(* Variant (UsableBackup): the newest come first. *)
SortReversed(a) ==
  /\ Goto(a, "sorting", "rotating")
  /\ all_files' = [all_files EXCEPT ![a] = Reverse(@)]
  /\ seen' = [seen EXCEPT ![a] = {}]
  /\ UNCHANGED <<db, now, vault, halves, name, linked, history>>

(* Variant (TypeOK): what list.sort returns (None) is taken for the list.   *)
SortIsNone(a) ==
  /\ Goto(a, "sorting", "rotating")
  /\ all_files' = [all_files EXCEPT ![a] = NoData]
  /\ seen' = [seen EXCEPT ![a] = {}]
  /\ UNCHANGED <<db, now, vault, halves, name, linked, history>>

(* The last getctime has answered. *)
SortBackups(a) ==
  /\ Goto(a, "sorting", "rotating")
  /\ seen' = [seen EXCEPT ![a] = {}]
  /\ UNCHANGED <<db, now, vault, halves, name, linked, all_files, history>>

(* Variant (Trimmed): one too many is left. *)
ExcessiveLate(a) == Len(all_files[a]) > MaxBackups + 1

(* Variant (RotationKeepsEnough): one too few is left. *)
ExcessiveEarly(a) == Len(all_files[a]) >= MaxBackups

Excessive(a) == Len(all_files[a]) > MaxBackups

RemoveOldest(a) ==
  /\ pc[a] = "rotating" /\ Excessive(a)
  /\ LET oldest == Head(all_files[a]) IN
       /\ oldest \in ToSet(vault)
       /\ vault' = RemoveFirst(vault, oldest)
       /\ linked' = [b \in Archivers |-> linked[b] /\ name[b] # oldest]
  /\ all_files' = [all_files EXCEPT ![a] = Tail(@)]
  /\ UNCHANGED <<db, now, halves, pc, name, seen, history>>

(* Few enough are left, or the oldest has been removed by another rotation. *)
EndRotation(a) ==
  /\ Goto(a, "rotating", "idle")
  /\ Excessive(a) => Head(all_files[a]) \notin ToSet(vault)
  /\ all_files' = [all_files EXCEPT ![a] = <<>>]
  /\ UNCHANGED <<db, now, vault, halves, name, linked, seen, history>>

-----------------------------------------------------------------------------

(* A call fails or the process dies: what was copied so far stays. *)
Fail(a) ==
  /\ Failures
  /\ pc[a] # "idle"
  /\ pc' = [pc EXCEPT ![a] = "idle"]
  /\ all_files' = [all_files EXCEPT ![a] = <<>>]
  /\ seen' = [seen EXCEPT ![a] = {}]
  /\ clean' = FALSE
  /\ UNCHANGED <<db, now, vault, halves, name, linked, apart, kept>>

(* Another process writes a transaction to the two halves of the file. *)
Write ==
  /\ \/ Settled /\ db[1] < MaxCommits /\ db' = [db EXCEPT ![1] = @ + 1]
     \/ ~Settled /\ db' = [db EXCEPT ![2] = db[1]]
  /\ apart' = (apart /\ \A a \in Archivers : pc[a] # "copying")
  /\ UNCHANGED <<now, vault, halves, pc, name, linked, all_files, seen, clean, kept>>

Tick ==
  /\ now < MaxTime
  /\ now' = now + 1
  /\ UNCHANGED <<db, vault, halves, pc, name, linked, all_files, seen, history>>

Step(a) ==
  \/ StartCopy(a) \/ EndCopy(a) \/ CopyIsGone(a)
  \/ ListBackups(a) \/ ListIsStale(a) \/ SortBackups(a) \/ RemoveOldest(a) \/ EndRotation(a)

Next == (\E a \in Archivers : Step(a) \/ Fail(a)) \/ Write \/ Tick

Spec == Init /\ [][Next]_vars

-----------------------------------------------------------------------------

(* Every variable stays in its range, and a name is in the vault, and in a  *)
(* list, once.                                                              *)
TypeOK ==
  /\ db \in (0 .. MaxCommits) \X (0 .. MaxCommits)
  /\ now \in Seconds
  /\ vault \in Seq(Seconds) /\ IsInjective(vault)
  /\ halves \in [Seconds -> ((0 .. MaxCommits) \cup {NoData}) \X ((0 .. MaxCommits) \cup {NoData})]
  /\ pc \in [Archivers -> {"idle", "copying", "listing", "sorting", "rotating"}]
  /\ name \in [Archivers -> Seconds]
  /\ linked \in [Archivers -> BOOLEAN]
  /\ all_files \in [Archivers -> Seq(Seconds)] /\ \A a \in Archivers : IsInjective(all_files[a])
  /\ seen \in [Archivers -> SUBSET Seconds]
  /\ clean \in BOOLEAN /\ apart \in BOOLEAN /\ kept \in BOOLEAN

(* What the vault is for: once a whole copy has been taken, one is there    *)
(* at every moment, whatever fails and whatever partial copies the rotation *)
(* counts, as long as snapshots stay apart.  Each part of apart is needed:  *)
(* without any one of them TLC finds the vault with no usable copy.         *)
UsableBackup == apart /\ kept => \E f \in Seconds : Whole(f)

(* Between snapshots that stay apart and do not fail, the vault holds       *)
(* max_backups copies at most.                                              *)
Trimmed ==
  clean /\ apart /\ (\A a \in Archivers : pc[a] = "idle") => Len(vault) <= MaxBackups

(* However rotations overlap, and whatever else happens, each archiver      *)
(* but the first costs at most one copy: no rotation leaves fewer than      *)
(* max_backups, less one for each other archiver.                           *)
RotationKeepsEnough ==
  [][Len(vault') < Len(vault) => Len(vault') + Cardinality(Archivers) > MaxBackups]_vars

=============================================================================
