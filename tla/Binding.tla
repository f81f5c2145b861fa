------------------------------ MODULE Binding ------------------------------
(***************************************************************************)
(* What Statement.bind does with the values it is given, as far as it does *)
(* not depend on memory: which entries are reached, which of them throws,  *)
(* and which SQL parameter each of them sets.                              *)
(*                                                                         *)
(* An array and an object are the same thing here: a sequence of entries   *)
(* in the order the code visits them, each with the parameter index the    *)
(* code computes for it and the JavaScript value.  bindFromArray gives     *)
(* entry i the index i; bindFromObject gives it what                       *)
(* sqlite3_bind_parameter_index returns, 0 for a name the SQL does not     *)
(* have.                                                                   *)
(***************************************************************************)
EXTENDS Naturals, Sequences

CONSTANTS NVar,     \* number of parameters of the SQL text (Vdbe.nVar)
          Texts,    \* values the code copies to the heap: strings and blobs
          Numbers,  \* values SQLite stores by value: numbers and booleans
          NULL,     \* JavaScript null, the null pointer and the SQL NULL
          Bad       \* a value of a type that cannot be bound

Value == Texts \cup Numbers \cup {NULL}

ASSUME BindingAssumption ==
    /\ NVar \in Nat
    /\ NULL \notin Texts \cup Numbers
    /\ Bad \notin Value
    /\ Texts \cap Numbers = {}

Entry == [pos : Nat, val : Value \cup {Bad}]

-----------------------------------------------------------------------------

(* bindValue and the bind functions throw: the value has no SQL type, or   *)
(* SQLite answers SQLITE_RANGE.  bindNull returns the result code instead  *)
(* of passing it to handleError, so a null never throws.  Index 0 is       *)
(* skipped by bindFromObject before the value is looked at.                *)
Fails(e) ==
    /\ e.pos # 0
    /\ \/ e.val = Bad
       \/ e.pos > NVar /\ e.val # NULL

(* The loop comes to entry i: none of the entries before it threw. *)
Reached(ps, i) == \A j \in DOMAIN ps : j < i => ~Fails(ps[j])

Throws(ps) == \E i \in DOMAIN ps : Fails(ps[i])

(* Entry i sets a parameter of the statement. *)
Binds(ps, i) ==
    /\ Reached(ps, i)
    /\ ~Fails(ps[i])
    /\ ps[i].pos \in 1..NVar

(* Entry i is the last one that sets parameter p. *)
LastBinding(ps, p, i) ==
    /\ Binds(ps, i)
    /\ ps[i].pos = p
    /\ \A j \in DOMAIN ps : j > i /\ Binds(ps, j) => ps[j].pos # p

(* The entries for which bindString or bindBlob allocates a copy.  The     *)
(* copy is made before SQLite is asked, so an index out of range has one   *)
(* too.                                                                    *)
Copied(ps) == {i \in DOMAIN ps : /\ Reached(ps, i)
                                 /\ ps[i].pos # 0
                                 /\ ps[i].val \in Texts}

(* The row of parameters, indexed like Vdbe.aVar, that binding ps to a     *)
(* cleared statement leaves, when entry i is stored as cell[i].            *)
BoundRow(ps, cell) ==
    [p \in 1..NVar |->
        IF \E i \in DOMAIN ps : LastBinding(ps, p, i)
        THEN cell[CHOOSE i \in DOMAIN ps : LastBinding(ps, p, i)]
        ELSE NULL]

(* The same row by value: what the SQL of the statement reads. *)
Row(ps) == BoundRow(ps, [i \in DOMAIN ps |-> ps[i].val])
=============================================================================
