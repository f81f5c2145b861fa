----------------------------- MODULE MCDatabase -----------------------------
(* Instances of Database for TLC. *)
EXTENDS Database, TLC

Symmetry == Permutations(Databases) \cup Permutations(Conns) \cup Permutations(Nodes)
                \cup Permutations(Paths)
=============================================================================
