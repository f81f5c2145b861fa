------------------------------ MODULE MCLoader ------------------------------
(* Three loads at once, each aborted up to twice. *)
EXTENDS Loader
CONSTANTS l1, l2, l3
ThreeLoads == {l1, l2, l3}
=============================================================================
