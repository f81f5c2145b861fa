------------------------- MODULE PreparedStatements -------------------------
(***************************************************************************)
(* What a program may assume about prepared statements, with no memory and *)
(* no connection in sight: the parameters of a statement are the values of *)
(* its last bind, from that call to the next bind, reset, run or free of   *)
(* the same statement, and no call to one statement changes another one.   *)
(* Only closing or exporting the database ends several at once.            *)
(***************************************************************************)
EXTENDS Binding

CONSTANTS Objs,     \* statement objects
          Params    \* the arguments of bind

VARIABLES st,       \* statement -> "closed", or the state of its program
          params    \* statement -> row of values

vars == <<st, params>>

Running == {"row", "busy", "halt"}

Unbound == [p \in 1..NVar |-> NULL]

Init ==
    /\ st = [o \in Objs |-> "closed"]
    /\ params = [o \in Objs |-> Unbound]

(* A call to statement o changes no other statement. *)
Only(o) ==
    /\ st' = [st EXCEPT ![o] = st'[o]]
    /\ params' = [params EXCEPT ![o] = params'[o]]

(* A new statement, or one that lives in each from its first row on; bind, *)
(* and the step that get makes after it, unless bind throws.               *)
Bind(o) ==
    /\ st'[o] \in Running \cup {"ready"}
    /\ st[o] = "closed" => st'[o] \in {"ready", "row"}
    /\ \E ps \in Params :
          /\ Throws(ps) => st'[o] = "ready"
          /\ params'[o] = Row(ps)
    /\ Only(o)

(* A statement suspended at a row never goes back to its beginning by      *)
(* being stepped.                                                          *)
Step(o) ==
    /\ st[o] # "closed"
    /\ st'[o] \in Running \cup {"ready"}
    /\ st'[o] = "ready" => st[o] \in {"ready", "halt"}
    /\ params'[o] = params[o]
    /\ Only(o)

(* reset and run *)
Reset(o) ==
    /\ st[o] # "closed"
    /\ st'[o] = "ready"
    /\ params'[o] = Unbound
    /\ Only(o)

Close(os) ==
    /\ st' = [o \in Objs |-> IF o \in os THEN "closed" ELSE st[o]]
    /\ params' = [o \in Objs |-> IF o \in os THEN Unbound ELSE params[o]]

Next ==
    \/ \E o \in Objs : Bind(o) \/ Step(o) \/ Reset(o)
    \/ \E os \in SUBSET Objs : Close(os)

Spec == Init /\ [][Next]_vars
=============================================================================
