--------------------------- MODULE MCEventLedger ---------------------------
(* Values for model-checking EventLedger.                                   *)
EXTENDS EventLedger, TLC

(* Instances and daemons are interchangeable: nothing orders or names them. *)
Symmetry == Permutations(Instances) \cup Permutations(Daemons)

=============================================================================
