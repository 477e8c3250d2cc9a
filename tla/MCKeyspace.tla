----------------------------- MODULE MCKeyspace -----------------------------
(* Instance of Keyspace for TLC. *)
EXTENDS Keyspace, TLC
CONSTANTS k1, k2, v1
=============================================================================
