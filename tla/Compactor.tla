----------------------------- MODULE Compactor -----------------------------
(***************************************************************************)
(* telemetry_compactor.py: compact_event_stream reads the length of the    *)
(* stream and then, as a second command, trims it.  The number of rows in  *)
(* SQLite is logged and decides nothing.                                   *)
(***************************************************************************)
EXTENDS EventStream

CONSTANTS
  MaxLength,    \* max_length
  TrimAccepted  \* does the client library accept the keyword max_len?  That of
                \* redis-py is maxlen, so FALSE is the program as it stands;
                \* TRUE is the trim it means, XTRIM with that length.

ASSUME CompactorAssumption ==
  /\ MaxLength \in Nat
  /\ TrimAccepted \in BOOLEAN

VARIABLE compacting  \* the length was found too large; XTRIM comes next

CompactorInit == compacting = FALSE

Inspect ==
  /\ ~compacting
  /\ Cardinality(stream) > MaxLength
  /\ compacting' = TRUE
  /\ UNCHANGED streamVars

(* The trim as line 54 means it; with redis-py only CompactFails happens. *)
Compact ==
  /\ compacting /\ TrimAccepted
  /\ XTrim(MaxLength)
  /\ compacting' = FALSE

(* The call raises, a TypeError or a Redis error: logged and swallowed. *)
CompactFails ==
  /\ compacting
  /\ compacting' = FALSE
  /\ UNCHANGED streamVars

CompactorNext == Inspect \/ Compact \/ CompactFails

=============================================================================
