-------------------------- MODULE MCUserFunctions --------------------------
(* Instances of UserFunctions for TLC: two spellings of one name, two      *)
(* functions with one and with two arguments, and a C function that the    *)
(* extension defines under the same name.                                  *)
EXTENDS UserFunctions, TLC

Spellings == {"f", "F"}
LowerCase == [x \in Spellings |-> "f"]

Lengths == [f \in Funcs |-> IF f = CHOOSE g \in Funcs : TRUE THEN 1 ELSE 2]

TwoArguments == {<<"f", 2>>}

Symmetry == Permutations(Databases) \cup Permutations(Conns)
                \cup Permutations(Stmts) \cup Permutations(Slots)
=============================================================================
