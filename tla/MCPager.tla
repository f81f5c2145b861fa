----------------------------- MODULE MCPager ------------------------------
EXTENDS Pager, TLC
Files == {[size |-> 0, page |-> <<0, 0, 0>>], [size |-> 2, page |-> <<1, 1, 0>>]}
Symmetry == Permutations(Conn)
===========================================================================
