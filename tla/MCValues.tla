------------------------------ MODULE MCValues ------------------------------
(* 32 bits are 3, 53 bits 4 and a byte 2; numbers are in halves. *)
EXTENDS Values
TwoColumns == <<"a", "a">>
SomeLongInts == {16, -17, 19}
SomeJsValues ==
  {<<"number", h>> : h \in {-9, -8, 8, 32}} \cup {<<"boolean", TRUE>>, <<"NaN", 0>>, <<"null", 0>>}
  \cup {<<"string", << >>>>, <<"string", <<"x", "NUL", "y">>>>, <<"string", <<"x", "y">>>>}
  \cup {<<"array", <<1, 3, -1, 4>>>>}
=============================================================================
