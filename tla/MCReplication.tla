--------------------------- MODULE MCReplication ---------------------------
(* Instance of Replication for TLC. *)
EXTENDS Replication, TLC
CONSTANTS k1, k2, v1
Symmetry == Permutations(Names)
=============================================================================
