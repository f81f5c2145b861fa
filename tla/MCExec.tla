------------------------------- MODULE MCExec -------------------------------
(* Texts with a statement before and after one that does not compile and before an empty one. *)
EXTENDS Exec, TLC
CONSTANTS v1, v2, v3, v4
FourVdbes == {v1, v2, v3, v4}
SomeTexts == {<<"stmt">>, <<"stmt", "bad">>, <<"stmt", "empty", "stmt">>}
Symmetry == Permutations(FourVdbes)
=============================================================================
