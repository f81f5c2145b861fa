------------------------ MODULE MCExtensionFunctions ------------------------
(* Rows: integers that fit an int of two bits and one that does not, floats on both sides of zero
   that lie on and between the integers, and a text that is no number.  Characters: a small letter
   and its capital, two of two bytes that share their lead byte, one of three bytes, the space and
   the tab. *)
EXTENDS ExtensionFunctions

Int2(i) == [type |-> "integer", num |-> 2 * i]
Float(h) == [type |-> "real", num |-> h]

SomeRows == {Int2(-2), Int2(0), Int2(1), Int2(2), Float(-3), Float(1), Float(2),
             [type |-> "text", num |-> 0]}
AllChars == {<<"a">>, <<"A">>, <<"c3", "a9">>, <<"c3", "a8">>, <<"e2", "82", "ac">>, <<" ">>, <<"\t">>}
Spaces == {" ", "\t"}
TrailBytes == {"a8", "a9", "82", "ac"}
UpperBytes == [a |-> "A", b |-> "B"]
SomeCodes == [b |-> 1, B |-> 1]
Letters == {"a", "A", "b", "B"}
=============================================================================
