---------------------------- MODULE MCStatement ----------------------------
(* Instances of Statement for TLC. *)
EXTENDS Statement, TLC

CONSTANTS Hello, World

At(p, v) == [pos |-> p, val |-> v]

(* The arguments of bind that tell the cases of the code apart: none, two  *)
(* strings, two strings for the same parameter (an object may name it      *)
(* twice), a string the SQL has no parameter for (copied, then             *)
(* SQLITE_RANGE), and after a name the SQL does not have, a null too many, *)
(* which does not throw, and a number.                                     *)
AllParams == {
    <<>>,
    <<At(1, Hello), At(2, World)>>,
    <<At(1, Hello), At(1, World)>>,
    <<At(1, 1), At(3, World)>>,
    <<At(0, Bad), At(3, NULL), At(2, 1)>> }

(* Fewer for the instance with more statements: none, and a string that   *)
(* a value that cannot be bound follows.                                    *)
FewParams == { <<>>, <<At(1, World), At(1, Bad)>> }

SymmetricStatements == Permutations(Objs) \cup Permutations(Vdbes)
Symmetry == SymmetricStatements \cup Permutations(Blocks)
=============================================================================
