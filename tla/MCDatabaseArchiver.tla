------------------------- MODULE MCDatabaseArchiver -------------------------
(* Values for model-checking DatabaseArchiver.                              *)
EXTENDS DatabaseArchiver, TLC

Symmetry == Permutations(Archivers)

=============================================================================
