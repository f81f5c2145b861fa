-------------------------- MODULE StatementProofs --------------------------
(***************************************************************************)
(* Proofs about Statement, for any number of objects, statements,          *)
(* connections, memory blocks and parameters: its invariants, and that it  *)
(* implements PreparedStatements.                                          *)
(***************************************************************************)
EXTENDS Statement, TLAPS

-----------------------------------------------------------------------------
(* What bind does with its argument. *)

(* The last entry that sets a parameter is an entry that binds a value.    *)
LEMMA LastBindingChosen ==
    ASSUME NEW ps \in Params, NEW p \in 1..NVar,
           \E i \in DOMAIN ps : LastBinding(ps, p, i)
    PROVE  LET i == CHOOSE i \in DOMAIN ps : LastBinding(ps, p, i)
           IN /\ i \in DOMAIN ps
              /\ ps[i].val \in Value
              /\ ps[i].val \in Texts => i \in Copied(ps)
<1> DEFINE i == CHOOSE i \in DOMAIN ps : LastBinding(ps, p, i)
<1>1. i \in DOMAIN ps /\ LastBinding(ps, p, i)
  OBVIOUS
<1>2. ps \in Seq(Entry)
  BY StatementAssumption
<1>3. ps[i] \in Entry
  BY <1>1, <1>2
<1>4. ps[i].val \in Value \cup {Bad} /\ ps[i].pos = p /\ p # 0
  BY <1>1, <1>3 DEF Entry, LastBinding
<1>5. Reached(ps, i) /\ ~Fails(ps[i])
  BY <1>1 DEF LastBinding, Binds
<1> HIDE DEF i
<1>6. ps[i].val # Bad
  BY <1>4, <1>5 DEF Fails
<1>7. ps[i].val \in Value
  BY <1>4, <1>6
<1>8. ps[i].val \in Texts => i \in Copied(ps)
  BY <1>1, <1>4, <1>5 DEF Copied
<1> QED
  BY <1>1, <1>7, <1>8 DEF i

-----------------------------------------------------------------------------
(* What an operation on the memory of one object does: the blocks of o are *)
(* exchanged for fresh ones, and the pointers of statement v are to them.  *)
Rebound(o, v) ==
    \E copies \in SUBSET Blocks :
        /\ copies \cap (heap \ allocatedmem[o]) = {}
        /\ heap' = (heap \ allocatedmem[o]) \cup copies
        /\ allocatedmem' = [allocatedmem EXCEPT ![o] = copies]
        /\ \E row \in [1..NVar -> Cell] :
             /\ aVar' = [aVar EXCEPT ![v] = row]
             /\ \A p \in 1..NVar : row[p] \in Blocks => row[p] \in copies

(* bind gives a statement pointers to the copies it has just made.         *)
LEMMA BindRebinds ==
    ASSUME TypeOK, NEW o \in Objs, NEW v \in Vdbes, NEW ps \in Params,
           BindMemory(o, v, ps)
    PROVE  Rebound(o, v) /\ data' \in [Blocks -> Texts \cup {Garbage}]
<1> DEFINE kept == heap \ allocatedmem[o]
<1>1. PICK blk \in [Copied(ps) -> Blocks \ kept] :
        LET copies == {blk[i] : i \in Copied(ps)}
            cell == [i \in DOMAIN ps |-> IF i \in Copied(ps) THEN blk[i] ELSE ps[i].val]
        IN /\ heap' = kept \cup copies
           /\ allocatedmem' = [allocatedmem EXCEPT ![o] = copies]
           /\ data' = [b \in Blocks |->
                          IF b \in copies
                          THEN ps[CHOOSE i \in Copied(ps) : blk[i] = b].val
                          ELSE IF b \in kept THEN data[b] ELSE Garbage]
           /\ aVar' = [aVar EXCEPT ![v] = BoundRow(ps, cell)]
  BY DEF BindMemory
<1> DEFINE copies == {blk[i] : i \in Copied(ps)}
           cell == [i \in DOMAIN ps |-> IF i \in Copied(ps) THEN blk[i] ELSE ps[i].val]
           row == [p \in 1..NVar |->
                     IF \E i \in DOMAIN ps : LastBinding(ps, p, i)
                     THEN cell[CHOOSE i \in DOMAIN ps : LastBinding(ps, p, i)]
                     ELSE NULL]
<1>2. aVar' = [aVar EXCEPT ![v] = row]
  BY <1>1 DEF BoundRow
<1>3. copies \in SUBSET (Blocks \ kept)
  OBVIOUS
<1>4. ASSUME NEW p \in 1..NVar
      PROVE  row[p] \in Cell /\ (row[p] \in Blocks => row[p] \in copies)
  <2>1. CASE \E i \in DOMAIN ps : LastBinding(ps, p, i)
    <3> DEFINE i == CHOOSE i \in DOMAIN ps : LastBinding(ps, p, i)
    <3>1. /\ i \in DOMAIN ps
          /\ ps[i].val \in Value
          /\ ps[i].val \in Texts => i \in Copied(ps)
      BY <2>1, LastBindingChosen
    <3>2. row[p] = IF i \in Copied(ps) THEN blk[i] ELSE ps[i].val
      BY <2>1, <3>1
    <3> HIDE DEF i, row
    <3>3. CASE i \in Copied(ps)
      BY <3>2, <3>3 DEF Cell
    <3>4. CASE i \notin Copied(ps)
      <4>1. ps[i].val \in Numbers \cup {NULL}
        BY <3>1, <3>4 DEF Value
      <4>2. row[p] = ps[i].val
        BY <3>2, <3>4
      <4> QED
        BY <4>1, <4>2, StatementAssumption DEF Cell, Value
    <3> QED
      BY <3>3, <3>4
  <2>2. CASE ~ \E i \in DOMAIN ps : LastBinding(ps, p, i)
    <3>1. row[p] = NULL
      BY <2>2
    <3> QED
      BY <3>1, StatementAssumption DEF Cell
  <2> QED
    BY <2>1, <2>2
<1>5. row \in [1..NVar -> Cell]
  <2>1. \A p \in 1..NVar : row[p] \in Cell
    BY <1>4
  <2> QED
    BY <2>1
<1>6. \A b \in copies : ps[CHOOSE i \in Copied(ps) : blk[i] = b].val \in Texts
  BY DEF Copied
<1>7. data' \in [Blocks -> Texts \cup {Garbage}]
  <2>1. \A b \in Blocks : data[b] \in Texts \cup {Garbage}
    BY DEF TypeOK
  <2> QED
    BY <1>1, <1>6, <2>1
<1>8. Rebound(o, v)
  <2> HIDE DEF row, copies
  <2>1. copies \in SUBSET Blocks /\ copies \cap (heap \ allocatedmem[o]) = {}
    BY <1>3
  <2>2. heap' = (heap \ allocatedmem[o]) \cup copies
    BY <1>1 DEF copies
  <2>3. allocatedmem' = [allocatedmem EXCEPT ![o] = copies]
    BY <1>1 DEF copies
  <2> QED
    BY <1>2, <1>4, <1>5, <2>1, <2>2, <2>3 DEF Rebound
<1> QED
  BY <1>7, <1>8

(* reset frees the copies and leaves no pointer.                           *)
LEMMA ResetRebinds ==
    ASSUME TypeOK, NEW o \in Objs, NEW v \in Vdbes,
           FreeMem({o}), aVar' = [aVar EXCEPT ![v] = Unbound]
    PROVE  Rebound(o, v) /\ data' \in [Blocks -> Texts \cup {Garbage}]
<1>1. heap' = heap \ allocatedmem[o]
  BY DEF FreeMem
<1>2. allocatedmem' = [allocatedmem EXCEPT ![o] = {}]
  BY DEF FreeMem, TypeOK
<1>3. Unbound \in [1..NVar -> Cell] /\ \A p \in 1..NVar : Unbound[p] \notin Blocks
  BY StatementAssumption DEF Unbound, Cell
<1>4. data' \in [Blocks -> Texts \cup {Garbage}]
  BY DEF FreeMem, TypeOK
<1>5. Rebound(o, v)
  <2>1. /\ {} \cap (heap \ allocatedmem[o]) = {}
        /\ heap' = (heap \ allocatedmem[o]) \cup {}
        /\ \E row \in [1..NVar -> Cell] :
             /\ aVar' = [aVar EXCEPT ![v] = row]
             /\ \A p \in 1..NVar : row[p] \in Blocks => row[p] \in {}
    BY <1>1, <1>3
  <2> QED
    BY <1>2, <2>1 DEF Rebound
<1> QED
  BY <1>4, <1>5

-----------------------------------------------------------------------------
(* Types *)

(* The expired flags stay flags, whatever the schema change.               *)
LEMMA ExpireType ==
    ASSUME TypeOK, NEW c, NEW own, NEW flag \in BOOLEAN, ExpireOthers(c, own, flag)
    PROVE  expired' \in [Vdbes -> BOOLEAN]
<1>1. PICK ddl \in BOOLEAN :
        expired' = [w \in Vdbes |-> IF w \in own THEN flag
                                    ELSE expired[w] \/ (ddl /\ vconn[w] = c)]
  BY DEF ExpireOthers
<1>2. ASSUME NEW w \in Vdbes
      PROVE  (IF w \in own THEN flag ELSE expired[w] \/ (ddl /\ vconn[w] = c)) \in BOOLEAN
  OBVIOUS
<1> QED
  BY <1>1, <1>2

(* Making a statement, changing its memory and freeing statements keep the *)
(* types of what they change.                                              *)
LEMMA RebindType ==
    ASSUME TypeOK, NEW o \in Objs, NEW v \in Vdbes, Rebound(o, v)
    PROVE  /\ heap' \subseteq Blocks
           /\ allocatedmem' \in [Objs -> SUBSET Blocks]
           /\ aVar' \in [Vdbes -> [1..NVar -> Cell]]
  BY DEF TypeOK, Rebound

LEMMA FreeType ==
    ASSUME TypeOK, NEW os \in SUBSET Objs, FreeStatements(os)
    PROVE  /\ vdbe' \in [Vdbes -> VdbeState]
           /\ vconn' \in [Vdbes -> Conns \cup {NULL}]
           /\ aVar' \in [Vdbes -> [1..NVar -> Cell]]
           /\ heap' \subseteq Blocks
           /\ data' \in [Blocks -> Texts \cup {Garbage}]
           /\ stmt' \in [Objs -> Vdbes \cup {NULL}]
           /\ allocatedmem' \in [Objs -> SUBSET Blocks]
           /\ statements' \in [Vdbes -> Objs \cup {NULL}]
<1>1. Unbound \in [1..NVar -> Cell]
  BY DEF Unbound, Cell
<1>2. vdbe' \in [Vdbes -> VdbeState] /\ vconn' \in [Vdbes -> Conns \cup {NULL}]
  BY DEF TypeOK, FreeStatements, VdbeState
<1>3. aVar' \in [Vdbes -> [1..NVar -> Cell]]
  BY <1>1 DEF TypeOK, FreeStatements
<1>4. /\ heap' \subseteq Blocks
      /\ data' \in [Blocks -> Texts \cup {Garbage}]
      /\ allocatedmem' \in [Objs -> SUBSET Blocks]
  BY DEF TypeOK, FreeStatements, FreeMem
<1>5. /\ stmt' \in [Objs -> Vdbes \cup {NULL}]
      /\ statements' \in [Vdbes -> Objs \cup {NULL}]
  BY DEF TypeOK, FreeStatements, Unregister
<1> QED
  BY <1>2, <1>3, <1>4, <1>5

LEMMA ReapedType ==
    ASSUME TypeOK, NEW closing, NEW gone
    PROVE  Reaped(closing, gone) \in [Conns -> {"free", "open", "zombie"}]
  BY DEF TypeOK, Reaped

LEMMA MakeType ==
    ASSUME TypeOK, NEW o \in Objs, NEW v \in Vdbes, NEW ps \in Params,
           NEW s \in VdbeState, Make(o, v, ps, s)
    PROVE  /\ Rebound(o, v)
           /\ data' \in [Blocks -> Texts \cup {Garbage}]
           /\ db \in Conns
           /\ vdbe' \in [Vdbes -> VdbeState]
           /\ vconn' \in [Vdbes -> Conns \cup {NULL}]
           /\ stmt' \in [Objs -> Vdbes \cup {NULL}]
<1>1. Rebound(o, v) /\ data' \in [Blocks -> Texts \cup {Garbage}]
  BY BindRebinds DEF Make
<1>2. db \in Conns
  BY DEF TypeOK, Make, Fresh
<1> QED
  BY <1>1, <1>2 DEF TypeOK, Make

LEMMA TypeInit == Init => TypeOK
<1> SUFFICES ASSUME Init PROVE TypeOK
  OBVIOUS
<1>1. Unbound \in [1..NVar -> Cell]
  BY DEF Unbound, Cell
<1>2. magic \in [Conns -> {"free", "open", "zombie"}] /\ db \in Conns \cup {NULL}
  BY DEF Init
<1> QED
  BY <1>1, <1>2 DEF Init, TypeOK, VdbeState, Origin

(* Every operation keeps the types. *)
LEMMA TypeStep == TypeOK /\ [Next]_vars => TypeOK'
<1> SUFFICES ASSUME TypeOK, [Next]_vars PROVE TypeOK'
  OBVIOUS
<1> USE DEF VdbeState, Origin
<1>1. ASSUME NEW o \in Objs, NEW v \in Vdbes, NEW ps \in Params, Prepare(o, v, ps)
      PROVE  TypeOK'
  <2>1. Make(o, v, ps, "ready")
    BY <1>1 DEF Prepare
  <2>2. Rebound(o, v)
    BY <2>1, MakeType
  <2>3. expired' \in [Vdbes -> BOOLEAN]
    BY <1>1 DEF Prepare, TypeOK
  <2>4. /\ origin' \in [Objs -> Origin]
        /\ statements' \in [Vdbes -> Objs \cup {NULL}]
        /\ stack' \in Seq(Objs)
    BY <1>1 DEF Prepare, Register, TypeOK
  <2> QED
    BY <2>1, <2>2, <2>3, <2>4, MakeType, RebindType DEF TypeOK, Make
<1>2. ASSUME NEW o \in Objs, NEW v \in Vdbes, NEW ps \in Params, Lose(o, v, ps)
      PROVE  TypeOK'
  <2>1. Make(o, v, ps, "ready")
    BY <1>2 DEF Lose
  <2>2. Rebound(o, v)
    BY <2>1, MakeType
  <2>3. expired' \in [Vdbes -> BOOLEAN]
    BY <1>2 DEF Lose, TypeOK
  <2>4. /\ origin' \in [Objs -> Origin]
        /\ statements' \in [Vdbes -> Objs \cup {NULL}]
        /\ stack' \in Seq(Objs)
    BY <1>2 DEF Lose, TypeOK
  <2> QED
    BY <2>1, <2>2, <2>3, <2>4, MakeType, RebindType DEF TypeOK, Make
<1>3. ASSUME NEW o \in Objs, NEW v \in Vdbes, CreateStatement(o, v)
      PROVE  TypeOK'
  <2>1. Make(o, v, <<>>, "ready") /\ <<>> \in Params
    BY <1>3, StatementAssumption DEF CreateStatement
  <2>2. Rebound(o, v)
    BY <2>1, MakeType
  <2>3. expired' \in [Vdbes -> BOOLEAN]
    BY <1>3 DEF CreateStatement, TypeOK
  <2>4. /\ origin' \in [Objs -> Origin]
        /\ statements' \in [Vdbes -> Objs \cup {NULL}]
        /\ stack' \in Seq(Objs)
    BY <1>3 DEF CreateStatement, TypeOK
  <2> QED
    BY <2>1, <2>2, <2>3, <2>4, MakeType, RebindType DEF TypeOK, Make
<1>4. ASSUME NEW o \in Objs, NEW v \in Vdbes, NEW ps \in Params, EachBegin(o, v, ps)
      PROVE  TypeOK'
  <2>1. Make(o, v, ps, "row")
    BY <1>4 DEF EachBegin
  <2>2. Rebound(o, v)
    BY <2>1, MakeType
  <2>3. expired' \in [Vdbes -> BOOLEAN]
    BY <1>4, ExpireType DEF EachBegin
  <2>4. /\ origin' \in [Objs -> Origin]
        /\ statements' \in [Vdbes -> Objs \cup {NULL}]
        /\ stack' \in Seq(Objs)
    BY <1>4 DEF EachBegin, Register, TypeOK
  <2> QED
    BY <2>1, <2>2, <2>3, <2>4, MakeType, RebindType DEF TypeOK, Make
<1>5. ASSUME Execute PROVE TypeOK'
  BY <1>5, ExpireType DEF Execute, TypeOK, jsvars, memvars
<1>6. ASSUME NEW o \in Objs, NEW ps \in Params, Bind(o, ps) PROVE TypeOK'
  <2>1. stmt[o] \in Vdbes
    BY <1>6 DEF Bind, Open, TypeOK
  <2>2. Rebound(o, stmt[o]) /\ data' \in [Blocks -> Texts \cup {Garbage}]
    BY <1>6, <2>1, BindRebinds DEF Bind
  <2>3. expired' \in [Vdbes -> BOOLEAN] /\ vdbe' \in [Vdbes -> VdbeState]
    BY <1>6, <2>1 DEF Bind, TypeOK
  <2> QED
    BY <1>6, <2>1, <2>2, <2>3, RebindType DEF Bind, TypeOK, jsvars
<1>7. ASSUME NEW o \in Objs, NEW ps \in Params, Get(o, ps) PROVE TypeOK'
  <2>1. stmt[o] \in Vdbes
    BY <1>7 DEF Get, Open, TypeOK
  <2>2. Rebound(o, stmt[o]) /\ data' \in [Blocks -> Texts \cup {Garbage}]
    BY <1>7, <2>1, BindRebinds DEF Get
  <2>3. PICK r \in [to : VdbeState, stale : BOOLEAN] :
           /\ vdbe' = [vdbe EXCEPT ![stmt[o]] = r.to]
           /\ ExpireOthers(vconn[stmt[o]], {stmt[o]}, r.stale)
    BY <1>7 DEF Get, Outcome
  <2>4. expired' \in [Vdbes -> BOOLEAN]
    BY <2>3, ExpireType
  <2>5. vdbe' \in [Vdbes -> VdbeState]
    BY <2>3 DEF TypeOK
  <2> QED
    BY <1>7, <2>1, <2>2, <2>4, <2>5, RebindType DEF Get, TypeOK, jsvars
<1>8. ASSUME NEW o \in Objs, Step(o) PROVE TypeOK'
  <2>1. stmt[o] \in Vdbes
    BY <1>8 DEF Step, Open, TypeOK
  <2>2. PICK r \in [to : VdbeState, stale : BOOLEAN] :
           /\ vdbe' = [vdbe EXCEPT ![stmt[o]] = r.to]
           /\ ExpireOthers(vconn[stmt[o]], {stmt[o]}, r.stale)
    BY <1>8 DEF Step, Outcome
  <2>3. expired' \in [Vdbes -> BOOLEAN]
    BY <2>2, ExpireType
  <2>4. vdbe' \in [Vdbes -> VdbeState]
    BY <2>2 DEF TypeOK
  <2> QED
    BY <1>8, <2>3, <2>4 DEF Step, TypeOK, jsvars, memvars
<1>9. ASSUME NEW o \in Objs, Reset(o) PROVE TypeOK'
  <2>1. stmt[o] \in Vdbes
    BY <1>9 DEF Reset, Open, TypeOK
  <2>2. Rebound(o, stmt[o]) /\ data' \in [Blocks -> Texts \cup {Garbage}]
    BY <1>9, <2>1, ResetRebinds DEF Reset, ClearBindings
  <2>3. expired' \in [Vdbes -> BOOLEAN] /\ vdbe' \in [Vdbes -> VdbeState]
    BY <1>9, <2>1 DEF Reset, TypeOK
  <2> QED
    BY <1>9, <2>1, <2>2, <2>3, RebindType DEF Reset, TypeOK, jsvars
<1>10. ASSUME NEW o \in Objs, Run(o) PROVE TypeOK'
  <2>1. stmt[o] \in Vdbes
    BY <1>10 DEF Run, Open, TypeOK
  <2>2. Rebound(o, stmt[o]) /\ data' \in [Blocks -> Texts \cup {Garbage}]
    BY <1>10, <2>1, ResetRebinds DEF Run, ClearBindings
  <2>3. expired' \in [Vdbes -> BOOLEAN]
    BY <1>10, ExpireType DEF Run
  <2>4. vdbe' \in [Vdbes -> VdbeState]
    BY <1>10, <2>1 DEF Run, TypeOK
  <2> QED
    BY <1>10, <2>1, <2>2, <2>3, <2>4, RebindType DEF Run, TypeOK, jsvars
<1>11. ASSUME NEW o \in Objs, Free(o) PROVE TypeOK'
  <2>1. FreeStatements({o}) /\ {o} \in SUBSET Objs
    BY <1>11 DEF Free
  <2>2. magic' \in [Conns -> {"free", "open", "zombie"}]
    BY <1>11, ReapedType DEF Free
  <2>3. expired' \in [Vdbes -> BOOLEAN]
    BY <1>11 DEF Free, TypeOK
  <2> QED
    BY <1>11, <2>1, <2>2, <2>3, FreeType DEF Free, TypeOK
<1>12. ASSUME NEW o \in Objs, Exec(o) PROVE TypeOK'
  <2>1. FreeStatements({o}) /\ {o} \in SUBSET Objs
    BY <1>12 DEF Exec
  <2>2. magic' \in [Conns -> {"free", "open", "zombie"}]
    BY <1>12, ReapedType DEF Exec
  <2>3. expired' \in [Vdbes -> BOOLEAN]
    BY <1>12, ExpireType DEF Exec
  <2> QED
    BY <1>12, <2>1, <2>2, <2>3, FreeType DEF Exec, TypeOK
<1>13. ASSUME NEW o \in Objs, Drop(o) PROVE TypeOK'
  BY <1>13 DEF Drop, TypeOK, cvars, memvars
<1>14. ASSUME EachNext PROVE TypeOK'
  <2>1. Head(stack) \in Objs
    BY <1>14 DEF EachNext, TypeOK
  <2>2. stmt[Head(stack)] \in Vdbes
    BY <1>14, <2>1 DEF EachNext, TypeOK
  <2>3. expired[stmt[Head(stack)]] \in BOOLEAN
    BY <2>2 DEF TypeOK
  <2>4. expired' \in [Vdbes -> BOOLEAN]
    BY <1>14, <2>3, ExpireType DEF EachNext
  <2> QED
    BY <1>14, <2>4 DEF EachNext, TypeOK, jsvars, memvars
<1>15. ASSUME EachFinish PROVE TypeOK'
  <2> DEFINE o == Head(stack)
  <2>1. o \in Objs /\ Tail(stack) \in Seq(Objs)
    BY <1>15 DEF EachFinish, TypeOK
  <2>2. FreeStatements({o}) /\ {o} \in SUBSET Objs
    BY <1>15, <2>1 DEF EachFinish
  <2>3. magic' \in [Conns -> {"free", "open", "zombie"}]
    BY <1>15, ReapedType DEF EachFinish
  <2>4. expired' \in [Vdbes -> BOOLEAN]
    <3>1. CASE stmt[o] = NULL
      BY <1>15, <3>1 DEF EachFinish, TypeOK
    <3>2. CASE stmt[o] # NULL
      BY <1>15, <3>2, ExpireType DEF EachFinish
    <3> QED
      BY <3>1, <3>2
  <2>5. origin' \in [Objs -> Origin] /\ stack' \in Seq(Objs)
    BY <1>15, <2>1 DEF EachFinish, TypeOK
  <2> HIDE DEF o
  <2> QED
    BY <1>15, <2>2, <2>3, <2>4, <2>5, FreeType DEF EachFinish, TypeOK
<1>16. ASSUME FreeRegistered
       PROVE  /\ FreeStatements(Registered) /\ Registered \in SUBSET Objs
              /\ expired' \in [Vdbes -> BOOLEAN]
  BY <1>16 DEF FreeRegistered, Registered, TypeOK
<1>17. ASSUME NEW unlink \in BOOLEAN, Close(unlink) PROVE TypeOK'
  <2>1. magic' \in [Conns -> {"free", "open", "zombie"}]
    BY <1>17, ReapedType DEF Close
  <2>2. db' \in Conns \cup {NULL} /\ file' \in BOOLEAN
    BY <1>17 DEF Close
  <2> QED
    BY <1>16, <1>17, <2>1, <2>2, FreeType DEF Close, FreeRegistered, TypeOK
<1>18. ASSUME Export PROVE TypeOK'
  <2>1. magic' \in [Conns -> {"free", "open", "zombie"}]
    BY <1>18, ReapedType DEF Export
  <2>2. db' \in Conns \cup {NULL} /\ file' \in BOOLEAN
    BY <1>18 DEF Export, TypeOK
  <2> QED
    BY <1>16, <1>18, <2>1, <2>2, FreeType DEF Export, FreeRegistered, TypeOK
<1>19. CASE UNCHANGED vars
  BY <1>19 DEF vars, cvars, jsvars, memvars, TypeOK
<1> QED
  BY <1>1, <1>2, <1>3, <1>4, <1>5, <1>6, <1>7, <1>8, <1>9, <1>10, <1>11, <1>12,
     <1>13, <1>14, <1>15, <1>17, <1>18, <1>19
     DEF Next, DatabaseCall, StatementCall

(* No sequence of calls takes the state out of its types: in particular a  *)
(* statement is in one of the states of the virtual machine, and a         *)
(* parameter is a number, NULL or a pointer, never an unset cell.          *)
THEOREM TypeCorrect == Spec => []TypeOK
<1>1. Init => TypeOK
  BY TypeInit
<1>2. TypeOK /\ [Next]_vars => TypeOK'
  BY TypeStep
<1> QED
  BY <1>1, <1>2, PTL DEF Spec

-----------------------------------------------------------------------------
(* The inductive invariant.  First what the kinds of operations do to each *)
(* of its parts: exchanging the memory of one object, then freeing the     *)
(* objects of a set.                                                       *)

(* The blocks of o are exchanged, and o has statement v afterwards, which  *)
(* no other object has: pointers still lead to owned blocks.               *)
LEMMA RebindMemory ==
    ASSUME TypeOK, BindingsOwned, HeapAccounted,
           NEW o \in Objs, NEW v \in Vdbes, Rebound(o, v),
           stmt' \in [Objs -> Vdbes \cup {NULL}],
           stmt'[o] = v, stmt[o] \in {v, NULL},
           \A q \in Objs \ {o} : stmt'[q] = stmt[q] /\ stmt[q] # v
    PROVE  BindingsOwned' /\ HeapAccounted'
<1>1. PICK copies \in SUBSET Blocks :
        /\ copies \cap (heap \ allocatedmem[o]) = {}
        /\ heap' = (heap \ allocatedmem[o]) \cup copies
        /\ allocatedmem' = [allocatedmem EXCEPT ![o] = copies]
        /\ \E row \in [1..NVar -> Cell] :
             /\ aVar' = [aVar EXCEPT ![v] = row]
             /\ \A p \in 1..NVar : row[p] \in Blocks => row[p] \in copies
  BY DEF Rebound
<1>2. allocatedmem'[o] = copies /\ \A q \in Objs \ {o} : allocatedmem'[q] = allocatedmem[q]
  BY <1>1 DEF TypeOK
<1>3. ASSUME NEW w \in Vdbes, NEW p \in 1..NVar, aVar'[w][p] \in Blocks
      PROVE  \E q \in Objs : /\ stmt'[q] = w
                             /\ aVar'[w][p] \in allocatedmem'[q]
                             /\ aVar'[w][p] \in heap'
  <2>1. CASE w = v
    <3>1. aVar'[v][p] \in copies
      BY <1>1, <1>3, <2>1 DEF TypeOK
    <3> QED
      BY <1>1, <1>2, <2>1, <3>1
  <2>2. CASE w # v
    <3>1. aVar'[w] = aVar[w]
      BY <1>1, <2>2 DEF TypeOK
    <3>2. PICK q \in Objs : /\ stmt[q] = w
                            /\ aVar[w][p] \in allocatedmem[q]
                            /\ aVar[w][p] \in heap
      BY <1>3, <3>1 DEF BindingsOwned
    <3>3. q # o
      BY <2>2, <3>2, StatementAssumption
    <3>4. aVar[w][p] \notin allocatedmem[o]
      BY <3>2, <3>3 DEF HeapAccounted
    <3> QED
      BY <1>1, <1>2, <3>1, <3>2, <3>3, <3>4
  <2> QED
    BY <2>1, <2>2
<1>4. BindingsOwned'
  BY <1>3 DEF BindingsOwned
<1>5. \A b \in heap' : \E q \in Objs : b \in allocatedmem'[q]
  <2> SUFFICES ASSUME NEW b \in heap' PROVE \E q \in Objs : b \in allocatedmem'[q]
    OBVIOUS
  <2>1. CASE b \in copies
    BY <1>2, <2>1
  <2>2. CASE b \notin copies
    <3>1. PICK q \in Objs : b \in allocatedmem[q]
      BY <1>1, <2>2 DEF HeapAccounted
    <3> QED
      BY <1>1, <1>2, <2>2, <3>1
  <2> QED
    BY <2>1, <2>2
<1>6. ASSUME NEW q \in Objs
      PROVE  /\ allocatedmem'[q] \subseteq heap'
             /\ stmt'[q] = NULL => allocatedmem'[q] = {}
  <2>1. CASE q = o
    BY <1>1, <1>2, <2>1, StatementAssumption
  <2>2. CASE q # o
    <3>1. allocatedmem[q] \cap allocatedmem[o] = {}
      BY <2>2 DEF HeapAccounted
    <3> QED
      BY <1>1, <1>2, <2>2, <3>1 DEF HeapAccounted
  <2> QED
    BY <2>1, <2>2
<1>7. ASSUME NEW q \in Objs, NEW r \in Objs, q # r
      PROVE  allocatedmem'[q] \cap allocatedmem'[r] = {}
  <2>1. ASSUME NEW t \in Objs \ {o} PROVE allocatedmem[t] \cap copies = {}
    BY <1>1, <2>1 DEF HeapAccounted
  <2> QED
    BY <1>2, <1>7, <2>1 DEF HeapAccounted
<1> QED
  BY <1>4, <1>5, <1>6, <1>7 DEF HeapAccounted

(* Freeing objects takes away their blocks and their pointers together.    *)
LEMMA FreeMemory ==
    ASSUME TypeOK, BindingsOwned, HeapAccounted,
           NEW os \in SUBSET Objs, FreeStatements(os)
    PROVE  BindingsOwned' /\ HeapAccounted'
<1> DEFINE freed == UNION {allocatedmem[o] : o \in os}
<1>1. /\ heap' = heap \ freed
      /\ \A o \in Objs : allocatedmem'[o] = IF o \in os THEN {} ELSE allocatedmem[o]
  BY DEF FreeStatements, FreeMem
<1>2. \A o \in Objs : stmt'[o] = IF o \in os THEN NULL ELSE stmt[o]
  BY DEF FreeStatements
<1>3. ASSUME NEW q \in Objs \ os PROVE allocatedmem[q] \cap freed = {}
  BY <1>3 DEF HeapAccounted
<1> HIDE DEF freed
<1>4. ASSUME NEW w \in Vdbes, NEW p \in 1..NVar, aVar'[w][p] \in Blocks
      PROVE  \E q \in Objs : /\ stmt'[q] = w
                             /\ aVar'[w][p] \in allocatedmem'[q]
                             /\ aVar'[w][p] \in heap'
  <2>1. w \notin HandlesOf(os) /\ aVar'[w] = aVar[w]
    BY <1>4, StatementAssumption DEF FreeStatements, Unbound
  <2>2. PICK q \in Objs : /\ stmt[q] = w
                          /\ aVar[w][p] \in allocatedmem[q]
                          /\ aVar[w][p] \in heap
    BY <1>4, <2>1 DEF BindingsOwned
  <2>3. q \notin os
    BY <2>1, <2>2, StatementAssumption DEF HandlesOf
  <2> QED
    BY <1>1, <1>2, <1>3, <2>1, <2>2, <2>3
<1>5. BindingsOwned'
  BY <1>4 DEF BindingsOwned
<1>6. ASSUME NEW b \in heap' PROVE \E q \in Objs : b \in allocatedmem'[q]
  <2>1. PICK q \in Objs : b \in allocatedmem[q]
    BY <1>1, <1>6 DEF HeapAccounted
  <2>2. q \notin os
    BY <1>1, <1>6, <2>1 DEF freed
  <2> QED
    BY <1>1, <2>1, <2>2
<1>7. ASSUME NEW q \in Objs
      PROVE  /\ allocatedmem'[q] \subseteq heap'
             /\ stmt'[q] = NULL => allocatedmem'[q] = {}
  BY <1>1, <1>2, <1>3 DEF HeapAccounted
<1>8. ASSUME NEW q \in Objs, NEW r \in Objs, q # r
      PROVE  allocatedmem'[q] \cap allocatedmem'[r] = {}
  BY <1>1, <1>8 DEF HeapAccounted
<1> QED
  BY <1>5, <1>6, <1>7, <1>8 DEF HeapAccounted

(* A new statement: nobody has its address yet, neither another object nor *)
(* the registry, so it is the object that asked for it that owns it.       *)
LEMMA MakeKeeps ==
    ASSUME Inv, NEW o \in Objs, NEW v \in Vdbes, NEW ps \in Params,
           NEW s \in VdbeState \ {"free"}, Make(o, v, ps, s),
           NEW how \in Origin \ {"none"},
           origin' = [origin EXCEPT ![o] = how],
           statements' = IF how \in {"prepare", "each"}
                         THEN [statements EXCEPT ![v] = o] ELSE statements
    PROVE  BindingsOwned' /\ HeapAccounted' /\ RegistryOwner' /\ ZombieDrains' /\ Linked'
<1>1. /\ TypeOK /\ Rebound(o, v) /\ db \in Conns
      /\ stmt' \in [Objs -> Vdbes \cup {NULL}]
  BY MakeType DEF Inv
<1>2. stmt[o] = NULL /\ ~Live(v) /\ \A q \in Objs : stmt[q] # v
  <2>1. stmt[o] = NULL /\ ~Live(v)
    BY DEF Inv, Linked, Make, Fresh, Live
  <2>2. \A q \in Objs : stmt[q] # v
    BY <2>1, StatementAssumption DEF Inv, Linked
  <2> QED
    BY <2>1, <2>2
<1>3. stmt'[o] = v /\ \A q \in Objs \ {o} : stmt'[q] = stmt[q]
  BY <1>1 DEF Make, TypeOK
<1>4. /\ vconn'[v] = db /\ vdbe'[v] = s /\ magic' = magic /\ db' = db
      /\ \A w \in Vdbes \ {v} : vconn'[w] = vconn[w] /\ vdbe'[w] = vdbe[w]
      /\ db # NULL
  BY <1>1 DEF Make, Fresh, TypeOK
<1>5. BindingsOwned' /\ HeapAccounted'
  BY <1>1, <1>2, <1>3, RebindMemory DEF Inv
<1>6. RegistryOwner'
  <2>1. ASSUME NEW w \in Vdbes, statements'[w] # NULL
        PROVE  /\ stmt'[statements'[w]] = w
               /\ vdbe'[w] # "free"
               /\ vconn'[w] = db
    <3>1. CASE w = v /\ how \in {"prepare", "each"}
      BY <1>1, <1>3, <1>4, <3>1 DEF TypeOK
    <3>2. CASE statements'[w] = statements[w]
      <4>1. /\ stmt[statements[w]] = w /\ vdbe[w] # "free" /\ vconn[w] = db
            /\ statements[w] \in Objs
        BY <1>1, <2>1, <3>2 DEF Inv, RegistryOwner, Live, TypeOK
      <4>2. w # v /\ statements[w] # o
        BY <1>2, <4>1, StatementAssumption
      <4> QED
        BY <1>3, <1>4, <3>2, <4>1, <4>2
    <3> QED
      BY <1>1, <3>1, <3>2 DEF TypeOK
  <2>2. \A q, r \in Objs : stmt'[q] = stmt'[r] /\ stmt'[q] # NULL => q = r
    BY <1>2, <1>3 DEF Inv, RegistryOwner
  <2> QED
    BY <1>4, <2>1, <2>2 DEF RegistryOwner, Live
<1>7. ZombieDrains'
  <2> SUFFICES ASSUME NEW c \in Conns
               PROVE  /\ magic[c] = "open" <=> c = db
                      /\ magic[c] = "zombie" =>
                            \E w \in Vdbes : vdbe'[w] # "free" /\ vconn'[w] = c
                      /\ magic[c] = "free" => \A w \in Vdbes : vconn'[w] # c
    BY <1>4 DEF ZombieDrains, Live
  <2>1. /\ magic[c] = "open" <=> c = db
        /\ magic[c] = "zombie" => \E w \in Vdbes : vdbe[w] # "free" /\ vconn[w] = c
        /\ magic[c] = "free" => \A w \in Vdbes : vconn[w] # c
    BY DEF Inv, ZombieDrains, Live
  <2> QED
    BY <1>2, <1>4, <2>1 DEF Live
<1>8. Linked'
  <2>1. ASSUME NEW w \in Vdbes
        PROVE  /\ vdbe'[w] # "free" <=> vconn'[w] # NULL
               /\ vdbe'[w] = "free" => aVar'[w] = Unbound
    <3>1. CASE w = v
      BY <1>4, <3>1
    <3>2. CASE w # v
      <4>1. aVar'[w] = aVar[w]
        BY <1>1, <3>2 DEF Rebound, TypeOK
      <4> QED
        BY <1>4, <3>2, <4>1 DEF Inv, Linked, Live
    <3> QED
      BY <3>1, <3>2
  <2>2. ASSUME NEW q \in Objs
        PROVE  /\ stmt'[q] # NULL => vdbe'[stmt'[q]] # "free"
               /\ origin'[q] = "none" => stmt'[q] = NULL
               /\ stmt'[q] # NULL =>
                    (statements'[stmt'[q]] = q <=> origin'[q] \in {"prepare", "each"})
    <3>1. CASE q = o
      <4>1. origin'[o] = how /\ how # "none"
        BY <1>1 DEF TypeOK
      <4>2. statements[v] = NULL
        BY <1>2 DEF Inv, RegistryOwner
      <4>3. statements'[v] = IF how \in {"prepare", "each"} THEN o ELSE NULL
        BY <1>1, <4>2 DEF TypeOK
      <4> QED
        BY <1>3, <1>4, <3>1, <4>1, <4>3, StatementAssumption
    <3>2. CASE q # o
      <4>1. origin'[q] = origin[q] /\ stmt'[q] = stmt[q]
        BY <1>1, <1>3, <3>2 DEF TypeOK
      <4>2. stmt[q] # NULL => statements'[stmt[q]] = statements[stmt[q]]
        BY <1>1, <1>2 DEF TypeOK
      <4>3. stmt[q] # NULL => vdbe'[stmt[q]] # "free"
        BY <1>1, <1>2, <1>4 DEF Inv, Linked, Live, TypeOK
      <4> QED
        BY <4>1, <4>2, <4>3 DEF Inv, Linked
    <3> QED
      BY <3>1, <3>2
  <2> QED
    BY <2>1, <2>2 DEF Linked, Live
<1> QED
  BY <1>5, <1>6, <1>7, <1>8

(* An operation that makes and frees no statement.                         *)
LEMMA RunKeeps ==
    ASSUME Inv, TypeOK', UNCHANGED <<magic, vconn, db, stmt, origin, statements, stack>>,
           \A w \in Vdbes : vdbe'[w] = "free" <=> vdbe[w] = "free",
           \A w \in Vdbes : ~Live(w) => aVar'[w] = aVar[w]
    PROVE  RegistryOwner' /\ ZombieDrains' /\ EachCleansUp' /\ Linked'
<1>1. RegistryOwner'
  BY DEF Inv, RegistryOwner, Live
<1>2. ZombieDrains'
  BY DEF Inv, ZombieDrains, Live
<1>3. EachCleansUp'
  BY DEF Inv, EachCleansUp
<1>4. Linked'
  BY DEF Inv, Linked, Live, TypeOK
<1> QED
  BY <1>1, <1>2, <1>3, <1>4

(* Freeing objects: each takes its own statement with it and no other.     *)
LEMMA FreeKeeps ==
    ASSUME Inv, NEW os \in SUBSET Objs, FreeStatements(os),
           \A q \in Objs : \/ origin'[q] = origin[q]
                           \/ q \in os /\ origin'[q] = "none"
    PROVE  /\ Linked'
           /\ db' = db \/ Registered \subseteq os => RegistryOwner'
<1> DEFINE gone == HandlesOf(os)
<1>1. \A q \in Objs : stmt'[q] = IF q \in os THEN NULL ELSE stmt[q]
  BY DEF FreeStatements
<1>2. \A w \in Vdbes :
        /\ vdbe'[w] = IF w \in gone THEN "free" ELSE vdbe[w]
        /\ vconn'[w] = IF w \in gone THEN NULL ELSE vconn[w]
        /\ aVar'[w] = IF w \in gone THEN Unbound ELSE aVar[w]
        /\ statements'[w] = IF w \in gone THEN NULL ELSE statements[w]
  BY DEF FreeStatements, Unregister
<1>3. ASSUME NEW q \in Objs, stmt'[q] # NULL
      PROVE  q \notin os /\ stmt'[q] = stmt[q] /\ stmt[q] \in Vdbes \ gone
  BY <1>1, <1>3 DEF Inv, TypeOK, RegistryOwner, HandlesOf
<1> HIDE DEF gone
<1>4. Linked'
  <2>1. \A w \in Vdbes : /\ vdbe'[w] # "free" <=> vconn'[w] # NULL
                         /\ vdbe'[w] = "free" => aVar'[w] = Unbound
    BY <1>2 DEF Inv, Linked, Live
  <2>2. ASSUME NEW q \in Objs
        PROVE  /\ stmt'[q] # NULL => vdbe'[stmt'[q]] # "free"
               /\ origin'[q] = "none" => stmt'[q] = NULL
               /\ stmt'[q] # NULL =>
                    (statements'[stmt'[q]] = q <=> origin'[q] \in {"prepare", "each"})
    <3>1. CASE q \in os
      BY <1>1, <3>1
    <3>2. CASE q \notin os
      <4>1. origin'[q] = origin[q] /\ stmt'[q] = stmt[q]
        BY <1>1, <3>2
      <4> QED
        BY <1>2, <1>3, <4>1 DEF Inv, Linked, Live
    <3> QED
      BY <3>1, <3>2
  <2> QED
    BY <2>1, <2>2 DEF Linked, Live
<1>5. ASSUME db' = db \/ Registered \subseteq os PROVE RegistryOwner'
  <2>1. ASSUME NEW w \in Vdbes, statements'[w] # NULL
        PROVE  /\ stmt'[statements'[w]] = w
               /\ vdbe'[w] # "free"
               /\ vconn'[w] = db'
    <3>1. w \notin gone /\ statements'[w] = statements[w]
      BY <1>2, <2>1
    <3>2. /\ statements[w] \in Objs /\ stmt[statements[w]] = w
          /\ vdbe[w] # "free" /\ vconn[w] = db
      BY <2>1, <3>1 DEF Inv, RegistryOwner, Live, TypeOK
    <3>3. statements[w] \notin os
      BY <3>1, <3>2, StatementAssumption DEF HandlesOf, gone
    <3>4. statements[w] \in Registered
      BY <3>2 DEF Registered
    <3> QED
      BY <1>1, <1>2, <1>5, <3>1, <3>2, <3>3, <3>4
  <2>2. \A q, r \in Objs : stmt'[q] = stmt'[r] /\ stmt'[q] # NULL => q = r
    BY <1>1 DEF Inv, RegistryOwner
  <2> QED
    BY <2>1, <2>2 DEF RegistryOwner, Live
<1> QED
  BY <1>4, <1>5

(* Closing connection closing, or none, and finalizing the statements in   *)
(* gone: a connection is freed with its last statement, not before.        *)
LEMMA ReapedConnections ==
    ASSUME Inv, NEW os \in SUBSET Objs, FreeStatements(os), NEW closing \in {db, NULL}
    PROVE  LET m == Reaped(closing, HandlesOf(os))
           IN \A c \in Conns :
                /\ m[c] = "open" <=> c = db /\ c # closing
                /\ m[c] = "zombie" => \E w \in Vdbes : vdbe'[w] # "free" /\ vconn'[w] = c
                /\ m[c] = "free" => \A w \in Vdbes : vconn'[w] # c
<1> DEFINE gone == HandlesOf(os)
           m == Reaped(closing, gone)
<1> SUFFICES ASSUME NEW c \in Conns
             PROVE  /\ m[c] = "open" <=> c = db /\ c # closing
                    /\ m[c] = "zombie" => \E w \in Vdbes : vdbe'[w] # "free" /\ vconn'[w] = c
                    /\ m[c] = "free" => \A w \in Vdbes : vconn'[w] # c
  OBVIOUS
<1>1. \A w \in Vdbes :
        /\ vdbe'[w] = IF w \in gone THEN "free" ELSE vdbe[w]
        /\ vconn'[w] = IF w \in gone THEN NULL ELSE vconn[w]
  BY DEF FreeStatements
<1>2. \A w \in Vdbes : vdbe[w] # "free" <=> vconn[w] # NULL
  BY DEF Inv, Linked, Live
<1>3. /\ magic[c] \in {"free", "open", "zombie"}
      /\ magic[c] = "open" <=> c = db
      /\ magic[c] = "free" => \A w \in Vdbes : vconn[w] # c
  BY DEF Inv, TypeOK, ZombieDrains
<1>4. m[c] = IF c # closing /\ magic[c] # "zombie" THEN magic[c]
             ELSE IF \E w \in Vdbes \ gone : vconn[w] = c THEN "zombie"
             ELSE "free"
  BY DEF Reaped
<1>5. c # NULL
  BY StatementAssumption
<1> HIDE DEF gone, m
<1>6. CASE c # closing /\ magic[c] # "zombie"
  BY <1>1, <1>3, <1>4, <1>5, <1>6
<1>7. CASE ~(c # closing /\ magic[c] # "zombie")
  <2>1. ~(c = db /\ c # closing)
    BY <1>3, <1>7
  <2>2. CASE \E w \in Vdbes \ gone : vconn[w] = c
    BY <1>1, <1>2, <1>4, <1>5, <1>7, <2>1, <2>2
  <2>3. CASE ~ \E w \in Vdbes \ gone : vconn[w] = c
    BY <1>1, <1>4, <1>5, <1>7, <2>1, <2>3
  <2> QED
    BY <2>2, <2>3
<1> QED
  BY <1>6, <1>7

(* Every operation keeps the invariant. *)
LEMMA InvStep == Inv /\ [Next]_vars => Inv'
<1> SUFFICES ASSUME Inv, [Next]_vars PROVE Inv'
  OBVIOUS
<1>0. TypeOK'
  BY TypeStep DEF Inv
<1>1. ASSUME NEW os \in SUBSET Objs, FreeStatements(os),
             UNCHANGED <<db, origin, stack>>, magic' = Reaped(NULL, HandlesOf(os))
      PROVE  Inv'
  <2>1. BindingsOwned' /\ HeapAccounted'
    BY <1>1, FreeMemory DEF Inv
  <2>2. Linked' /\ RegistryOwner'
    BY <1>1, FreeKeeps
  <2>3. ZombieDrains'
    <3>1. \A c \in Conns :
            /\ magic'[c] = "open" <=> c = db /\ c # NULL
            /\ magic'[c] = "zombie" => \E w \in Vdbes : vdbe'[w] # "free" /\ vconn'[w] = c
            /\ magic'[c] = "free" => \A w \in Vdbes : vconn'[w] # c
      BY <1>1, ReapedConnections
    <3> QED
      BY <1>1, <3>1, StatementAssumption DEF ZombieDrains, Live
  <2>4. EachCleansUp'
    BY <1>1 DEF Inv, EachCleansUp
  <2> QED
    BY <1>0, <2>1, <2>2, <2>3, <2>4 DEF Inv
<1>2. ASSUME NEW o \in Objs, NEW v \in Vdbes, NEW ps \in Params, Prepare(o, v, ps)
      PROVE  Inv'
  <2>1. Make(o, v, ps, "ready")
    BY <1>2 DEF Prepare
  <2>2. /\ origin' = [origin EXCEPT ![o] = "prepare"]
        /\ statements' = IF "prepare" \in {"prepare", "each"}
                         THEN [statements EXCEPT ![v] = o] ELSE statements
    BY <1>2 DEF Prepare, Register
  <2>3. BindingsOwned' /\ HeapAccounted' /\ RegistryOwner' /\ ZombieDrains' /\ Linked'
    BY <2>1, <2>2, MakeKeeps DEF VdbeState, Origin
  <2>4. EachCleansUp'
    BY <1>2, <2>1, <2>2 DEF Prepare, Inv, EachCleansUp, Make, Fresh, TypeOK
  <2> QED
    BY <1>0, <2>3, <2>4 DEF Inv
<1>3. ASSUME NEW o \in Objs, NEW v \in Vdbes, NEW ps \in Params, Lose(o, v, ps)
      PROVE  Inv'
  <2>1. Make(o, v, ps, "ready")
    BY <1>3 DEF Lose
  <2>2. /\ origin' = [origin EXCEPT ![o] = "lost"]
        /\ statements' = IF "lost" \in {"prepare", "each"}
                         THEN [statements EXCEPT ![v] = o] ELSE statements
    BY <1>3 DEF Lose
  <2>3. BindingsOwned' /\ HeapAccounted' /\ RegistryOwner' /\ ZombieDrains' /\ Linked'
    BY <2>1, <2>2, MakeKeeps DEF VdbeState, Origin
  <2>4. EachCleansUp'
    BY <1>3, <2>1, <2>2 DEF Lose, Inv, EachCleansUp, Make, Fresh, TypeOK
  <2> QED
    BY <1>0, <2>3, <2>4 DEF Inv
<1>4. ASSUME NEW o \in Objs, NEW v \in Vdbes, CreateStatement(o, v)
      PROVE  Inv'
  <2>1. Make(o, v, <<>>, "ready")
    BY <1>4 DEF CreateStatement
  <2>2. /\ origin' = [origin EXCEPT ![o] = "create"]
        /\ statements' = IF "create" \in {"prepare", "each"}
                         THEN [statements EXCEPT ![v] = o] ELSE statements
    BY <1>4 DEF CreateStatement
  <2>3. BindingsOwned' /\ HeapAccounted' /\ RegistryOwner' /\ ZombieDrains' /\ Linked'
    BY <2>1, <2>2, MakeKeeps, StatementAssumption DEF VdbeState, Origin
  <2>4. EachCleansUp'
    BY <1>4, <2>1, <2>2 DEF CreateStatement, Inv, EachCleansUp, Make, Fresh, TypeOK
  <2> QED
    BY <1>0, <2>3, <2>4 DEF Inv
<1>5. ASSUME NEW o \in Objs, NEW v \in Vdbes, NEW ps \in Params, EachBegin(o, v, ps)
      PROVE  Inv'
  <2>1. Make(o, v, ps, "row")
    BY <1>5 DEF EachBegin
  <2>2. /\ origin' = [origin EXCEPT ![o] = "each"]
        /\ statements' = IF "each" \in {"prepare", "each"}
                         THEN [statements EXCEPT ![v] = o] ELSE statements
    BY <1>5 DEF EachBegin, Register
  <2>3. BindingsOwned' /\ HeapAccounted' /\ RegistryOwner' /\ ZombieDrains' /\ Linked'
    BY <2>1, <2>2, MakeKeeps DEF VdbeState, Origin
  <2>4. EachCleansUp'
    <3>1. origin[o] = "none" /\ origin \in [Objs -> Origin] /\ stack \in Seq(Objs)
      BY <2>1 DEF Make, Fresh, Inv, TypeOK
    <3>2. /\ Len(stack') = Len(stack) + 1 /\ stack'[1] = o
          /\ \A i \in 2..Len(stack') : stack'[i] = stack[i - 1]
          /\ \A i \in 1..Len(stack) : stack'[i + 1] = stack[i]
          /\ DOMAIN stack' = 1..(Len(stack) + 1) /\ DOMAIN stack = 1..Len(stack)
          /\ Len(stack) \in Nat
      BY <1>5, <3>1 DEF EachBegin
    <3>3. \A i \in 1..Len(stack) : stack[i] # o
      BY <3>1, <3>2 DEF Inv, EachCleansUp
    <3>4. \A q \in Objs : origin'[q] = "each" => \E i \in DOMAIN stack' : stack'[i] = q
      <4> SUFFICES ASSUME NEW q \in Objs, origin'[q] = "each"
                   PROVE  \E i \in DOMAIN stack' : stack'[i] = q
        OBVIOUS
      <4>1. CASE q = o
        BY <3>2, <4>1
      <4>2. CASE q # o
        <5>1. PICK i \in DOMAIN stack : stack[i] = q
          BY <2>2, <3>1, <4>2 DEF Inv, EachCleansUp
        <5>2. i + 1 \in DOMAIN stack' /\ stack'[i + 1] = q
          BY <3>2, <5>1
        <5> QED
          BY <5>2
      <4> QED
        BY <4>1, <4>2
    <3>5. \A i \in DOMAIN stack' : origin'[stack'[i]] = "each"
      <4> SUFFICES ASSUME NEW i \in DOMAIN stack' PROVE origin'[stack'[i]] = "each"
        OBVIOUS
      <4>1. CASE i = 1
        BY <2>2, <3>1, <3>2, <4>1
      <4>2. CASE i # 1
        <5>1. i \in 2..Len(stack') /\ i - 1 \in DOMAIN stack
          BY <3>2, <4>2
        <5>2. stack'[i] = stack[i - 1] /\ stack[i - 1] # o
          BY <3>2, <3>3, <5>1
        <5>3. origin[stack[i - 1]] = "each" /\ stack[i - 1] \in Objs
          BY <3>1, <5>1 DEF Inv, EachCleansUp
        <5> QED
          BY <2>2, <3>1, <5>2, <5>3
      <4> QED
        BY <4>1, <4>2
    <3>6. \A i, j \in DOMAIN stack' : stack'[i] = stack'[j] => i = j
      <4> SUFFICES ASSUME NEW i \in DOMAIN stack', NEW j \in DOMAIN stack',
                          stack'[i] = stack'[j]
                   PROVE  i = j
        OBVIOUS
      <4>1. \A k \in DOMAIN stack' : k # 1 =>
               k - 1 \in DOMAIN stack /\ stack'[k] = stack[k - 1] /\ stack[k - 1] # o
        BY <3>2, <3>3
      <4>2. CASE i = 1 \/ j = 1
        BY <3>2, <4>1, <4>2
      <4>3. CASE i # 1 /\ j # 1
        <5>1. i - 1 = j - 1
          BY <4>1, <4>3 DEF Inv, EachCleansUp
        <5> QED
          BY <3>2, <5>1
      <4> QED
        BY <4>2, <4>3
    <3> QED
      BY <3>4, <3>5, <3>6 DEF EachCleansUp
  <2> QED
    BY <1>0, <2>3, <2>4 DEF Inv
<1>6. ASSUME NEW o \in Objs, NEW ps \in Params, Bind(o, ps) PROVE Inv'
  <2> DEFINE v == stmt[o]
  <2>1. v \in Vdbes /\ Live(v)
    BY <1>6 DEF Bind, Open, Inv, TypeOK, Linked
  <2>2. Rebound(o, v)
    BY <1>6, <2>1, BindRebinds DEF Bind, Inv
  <2>3. UNCHANGED <<magic, vconn, db, stmt, origin, statements, stack>>
    BY <1>6 DEF Bind, jsvars
  <2>4. \A w \in Vdbes : vdbe'[w] = "free" <=> vdbe[w] = "free"
    BY <1>6, <2>1 DEF Bind, Live, Inv, TypeOK
  <2>5. \A w \in Vdbes : ~Live(w) => aVar'[w] = aVar[w]
    BY <2>1, <2>2 DEF Rebound, Inv, TypeOK
  <2>6. BindingsOwned' /\ HeapAccounted'
    <3>1. \A q \in Objs \ {o} : stmt[q] # v
      BY <2>1, StatementAssumption DEF Inv, RegistryOwner
    <3> QED
      BY <2>1, <2>2, <2>3, <3>1, RebindMemory DEF Inv, TypeOK
  <2>7. RegistryOwner' /\ ZombieDrains' /\ EachCleansUp' /\ Linked'
    BY <1>0, <2>3, <2>4, <2>5, RunKeeps
  <2> QED
    BY <1>0, <2>6, <2>7 DEF Inv
<1>7. ASSUME NEW o \in Objs, NEW ps \in Params, Get(o, ps) PROVE Inv'
  <2> DEFINE v == stmt[o]
  <2>1. v \in Vdbes /\ Live(v)
    BY <1>7 DEF Get, Open, Inv, TypeOK, Linked
  <2>2. Rebound(o, v)
    BY <1>7, <2>1, BindRebinds DEF Get, Inv
  <2>3. UNCHANGED <<magic, vconn, db, stmt, origin, statements, stack>>
    BY <1>7 DEF Get, jsvars
  <2>4. \A w \in Vdbes : vdbe'[w] = "free" <=> vdbe[w] = "free"
    BY <1>7, <2>1 DEF Get, Outcome, VdbeState, Live, Inv, TypeOK
  <2>5. \A w \in Vdbes : ~Live(w) => aVar'[w] = aVar[w]
    BY <2>1, <2>2 DEF Rebound, Inv, TypeOK
  <2>6. BindingsOwned' /\ HeapAccounted'
    <3>1. \A q \in Objs \ {o} : stmt[q] # v
      BY <2>1, StatementAssumption DEF Inv, RegistryOwner
    <3> QED
      BY <2>1, <2>2, <2>3, <3>1, RebindMemory DEF Inv, TypeOK
  <2>7. RegistryOwner' /\ ZombieDrains' /\ EachCleansUp' /\ Linked'
    BY <1>0, <2>3, <2>4, <2>5, RunKeeps
  <2> QED
    BY <1>0, <2>6, <2>7 DEF Inv
<1>8. ASSUME NEW o \in Objs, Reset(o) PROVE Inv'
  <2> DEFINE v == stmt[o]
  <2>1. v \in Vdbes /\ Live(v)
    BY <1>8 DEF Reset, Open, Inv, TypeOK, Linked
  <2>2. Rebound(o, v)
    BY <1>8, <2>1, ResetRebinds DEF Reset, ClearBindings, Inv
  <2>3. UNCHANGED <<magic, vconn, db, stmt, origin, statements, stack>>
    BY <1>8 DEF Reset, jsvars
  <2>4. \A w \in Vdbes : vdbe'[w] = "free" <=> vdbe[w] = "free"
    BY <1>8, <2>1 DEF Reset, Live, Inv, TypeOK
  <2>5. \A w \in Vdbes : ~Live(w) => aVar'[w] = aVar[w]
    BY <2>1, <2>2 DEF Rebound, Inv, TypeOK
  <2>6. BindingsOwned' /\ HeapAccounted'
    <3>1. \A q \in Objs \ {o} : stmt[q] # v
      BY <2>1, StatementAssumption DEF Inv, RegistryOwner
    <3> QED
      BY <2>1, <2>2, <2>3, <3>1, RebindMemory DEF Inv, TypeOK
  <2>7. RegistryOwner' /\ ZombieDrains' /\ EachCleansUp' /\ Linked'
    BY <1>0, <2>3, <2>4, <2>5, RunKeeps
  <2> QED
    BY <1>0, <2>6, <2>7 DEF Inv
<1>9. ASSUME NEW o \in Objs, Run(o) PROVE Inv'
  <2> DEFINE v == stmt[o]
  <2>1. v \in Vdbes /\ Live(v)
    BY <1>9 DEF Run, Open, Inv, TypeOK, Linked
  <2>2. Rebound(o, v)
    BY <1>9, <2>1, ResetRebinds DEF Run, ClearBindings, Inv
  <2>3. UNCHANGED <<magic, vconn, db, stmt, origin, statements, stack>>
    BY <1>9 DEF Run, jsvars
  <2>4. \A w \in Vdbes : vdbe'[w] = "free" <=> vdbe[w] = "free"
    BY <1>9, <2>1 DEF Run, Live, Inv, TypeOK
  <2>5. \A w \in Vdbes : ~Live(w) => aVar'[w] = aVar[w]
    BY <2>1, <2>2 DEF Rebound, Inv, TypeOK
  <2>6. BindingsOwned' /\ HeapAccounted'
    <3>1. \A q \in Objs \ {o} : stmt[q] # v
      BY <2>1, StatementAssumption DEF Inv, RegistryOwner
    <3> QED
      BY <2>1, <2>2, <2>3, <3>1, RebindMemory DEF Inv, TypeOK
  <2>7. RegistryOwner' /\ ZombieDrains' /\ EachCleansUp' /\ Linked'
    BY <1>0, <2>3, <2>4, <2>5, RunKeeps
  <2> QED
    BY <1>0, <2>6, <2>7 DEF Inv
<1>10. ASSUME Execute PROVE Inv'
  <2>1. UNCHANGED <<magic, vconn, db, stmt, origin, statements, stack>> /\ UNCHANGED memvars
        /\ aVar' = aVar
    BY <1>10 DEF Execute, jsvars
  <2>2. \A w \in Vdbes : vdbe'[w] = "free" <=> vdbe[w] = "free"
    BY <1>10 DEF Execute
  <2>3. RegistryOwner' /\ ZombieDrains' /\ EachCleansUp' /\ Linked'
    BY <1>0, <2>1, <2>2, RunKeeps
  <2> QED
    BY <1>0, <2>1, <2>3 DEF Inv, BindingsOwned, HeapAccounted, memvars
<1>11. ASSUME NEW o \in Objs, Step(o) PROVE Inv'
  <2>0. stmt[o] \in Vdbes /\ Live(stmt[o])
    BY <1>11 DEF Step, Open, Inv, TypeOK, Linked
  <2>1. UNCHANGED <<magic, vconn, db, stmt, origin, statements, stack>> /\ UNCHANGED memvars
        /\ aVar' = aVar
    BY <1>11 DEF Step, jsvars
  <2>2. \A w \in Vdbes : vdbe'[w] = "free" <=> vdbe[w] = "free"
    BY <1>11, <2>0 DEF Step, Outcome, VdbeState, Live, Inv, TypeOK
  <2>3. RegistryOwner' /\ ZombieDrains' /\ EachCleansUp' /\ Linked'
    BY <1>0, <2>1, <2>2, RunKeeps
  <2> QED
    BY <1>0, <2>1, <2>3 DEF Inv, BindingsOwned, HeapAccounted, memvars
<1>12. ASSUME EachNext PROVE Inv'
  <2>1. UNCHANGED <<magic, vconn, db, stmt, origin, statements, stack>> /\ UNCHANGED memvars
        /\ aVar' = aVar
    BY <1>12 DEF EachNext, jsvars
  <2>2. \A w \in Vdbes : vdbe'[w] = "free" <=> vdbe[w] = "free"
    BY <1>12 DEF EachNext
  <2>3. RegistryOwner' /\ ZombieDrains' /\ EachCleansUp' /\ Linked'
    BY <1>0, <2>1, <2>2, RunKeeps
  <2> QED
    BY <1>0, <2>1, <2>3 DEF Inv, BindingsOwned, HeapAccounted, memvars
<1>13. ASSUME NEW o \in Objs, Free(o) PROVE Inv'
  <2>1. /\ FreeStatements({o}) /\ {o} \in SUBSET Objs
        /\ UNCHANGED <<db, origin, stack>>
        /\ magic' = Reaped(NULL, HandlesOf({o}))
    BY <1>13 DEF Free
  <2> QED
    BY <1>0, <1>1, <2>1
<1>14. ASSUME NEW o \in Objs, Exec(o) PROVE Inv'
  <2>1. /\ FreeStatements({o}) /\ {o} \in SUBSET Objs
        /\ UNCHANGED <<db, origin, stack>>
        /\ magic' = Reaped(NULL, HandlesOf({o}))
    BY <1>14 DEF Exec
  <2> QED
    BY <1>0, <1>1, <2>1
<1>15. ASSUME NEW o \in Objs, Drop(o) PROVE Inv'
  <2>1. /\ UNCHANGED <<cvars, memvars, db, stmt, statements, stack>>
        /\ stmt[o] = NULL /\ origin[o] \notin {"each", "none"}
        /\ origin' = [origin EXCEPT ![o] = "none"]
    BY <1>15 DEF Drop, Held
  <2>2. BindingsOwned' /\ HeapAccounted' /\ RegistryOwner' /\ ZombieDrains'
    BY <2>1 DEF Inv, BindingsOwned, HeapAccounted, RegistryOwner, ZombieDrains, Live,
                cvars, memvars
  <2>3. Linked'
    BY <2>1 DEF Inv, TypeOK, Linked, Live, cvars
  <2>4. EachCleansUp'
    BY <2>1 DEF Inv, TypeOK, EachCleansUp
  <2> QED
    BY <1>0, <2>2, <2>3, <2>4 DEF Inv
<1>16. ASSUME EachFinish PROVE Inv'
  <2> DEFINE o == Head(stack)
  <2>1. /\ stack \in Seq(Objs) /\ stack # <<>> /\ o \in Objs /\ o = stack[1]
        /\ stack' = Tail(stack) /\ db' = db
        /\ FreeStatements({o}) /\ {o} \in SUBSET Objs
        /\ magic' = Reaped(NULL, HandlesOf({o}))
        /\ origin' = [origin EXCEPT ![o] = "none"] /\ origin \in [Objs -> Origin]
    BY <1>16 DEF EachFinish, Inv, TypeOK
  <2> HIDE DEF o
  <2>2. BindingsOwned' /\ HeapAccounted'
    BY <2>1, FreeMemory DEF Inv
  <2>3. Linked' /\ RegistryOwner'
    BY <2>1, FreeKeeps
  <2>4. ZombieDrains'
    <3>1. \A c \in Conns :
            /\ magic'[c] = "open" <=> c = db /\ c # NULL
            /\ magic'[c] = "zombie" => \E w \in Vdbes : vdbe'[w] # "free" /\ vconn'[w] = c
            /\ magic'[c] = "free" => \A w \in Vdbes : vconn'[w] # c
      BY <2>1, ReapedConnections
    <3> QED
      BY <2>1, <3>1, StatementAssumption DEF ZombieDrains, Live
  <2>5. EachCleansUp'
    <3>1. /\ Len(stack) \in Nat \ {0} /\ DOMAIN stack = 1..Len(stack)
          /\ DOMAIN stack' = 1..(Len(stack) - 1)
          /\ \A i \in DOMAIN stack' : stack'[i] = stack[i + 1] /\ i + 1 \in DOMAIN stack
          /\ \A i \in DOMAIN stack : i # 1 => i - 1 \in DOMAIN stack' /\ stack'[i - 1] = stack[i]
      BY <2>1
    <3>2. \A q \in Objs : origin'[q] = "each" => \E i \in DOMAIN stack' : stack'[i] = q
      <4> SUFFICES ASSUME NEW q \in Objs, origin'[q] = "each"
                   PROVE  \E i \in DOMAIN stack' : stack'[i] = q
        OBVIOUS
      <4>1. q # o /\ origin[q] = "each"
        BY <2>1
      <4>2. PICK i \in DOMAIN stack : stack[i] = q
        BY <4>1 DEF Inv, EachCleansUp
      <4>3. i # 1
        BY <2>1, <4>1, <4>2
      <4> QED
        BY <3>1, <4>2, <4>3
    <3>3. \A i \in DOMAIN stack' : origin'[stack'[i]] = "each"
      <4> SUFFICES ASSUME NEW i \in DOMAIN stack' PROVE origin'[stack'[i]] = "each"
        OBVIOUS
      <4>1. i + 1 \in DOMAIN stack /\ i + 1 # 1 /\ 1 \in DOMAIN stack
        BY <3>1
      <4>2. stack[i + 1] # o /\ origin[stack[i + 1]] = "each" /\ stack[i + 1] \in Objs
        BY <2>1, <4>1 DEF Inv, EachCleansUp
      <4> QED
        BY <2>1, <3>1, <4>2
    <3>4. \A i, j \in DOMAIN stack' : stack'[i] = stack'[j] => i = j
      <4> SUFFICES ASSUME NEW i \in DOMAIN stack', NEW j \in DOMAIN stack',
                          stack'[i] = stack'[j]
                   PROVE  i = j
        OBVIOUS
      <4>1. i + 1 = j + 1
        BY <3>1 DEF Inv, EachCleansUp
      <4> QED
        BY <3>1, <4>1
    <3> QED
      BY <3>2, <3>3, <3>4 DEF EachCleansUp
  <2> QED
    BY <1>0, <2>2, <2>3, <2>4, <2>5 DEF Inv
<1>17. ASSUME FreeRegistered, NEW c \in Conns \cup {NULL}, db' = c,
              LET closed == Reaped(db, HandlesOf(Registered))
              IN \/ c = NULL /\ magic' = closed
                 \/ c # NULL /\ closed[c] = "free" /\ magic' = [closed EXCEPT ![c] = "open"]
       PROVE  Inv'
  <2> DEFINE closed == Reaped(db, HandlesOf(Registered))
  <2>1. /\ FreeStatements(Registered) /\ Registered \in SUBSET Objs
        /\ UNCHANGED <<origin, stack>>
    BY <1>17 DEF FreeRegistered, Registered
  <2>2. BindingsOwned' /\ HeapAccounted'
    BY <2>1, FreeMemory DEF Inv
  <2>3. Linked' /\ RegistryOwner'
    BY <2>1, FreeKeeps
  <2>4. \A d \in Conns :
          /\ closed[d] # "open"
          /\ closed[d] = "zombie" => \E w \in Vdbes : vdbe'[w] # "free" /\ vconn'[w] = d
          /\ closed[d] = "free" => \A w \in Vdbes : vconn'[w] # d
    BY <2>1, ReapedConnections
  <2>5. ZombieDrains'
    <3>1. closed \in [Conns -> {"free", "open", "zombie"}]
      BY ReapedType DEF Inv
    <3> HIDE DEF closed
    <3>2. CASE c = NULL
      BY <1>17, <2>4, <3>2, StatementAssumption DEF ZombieDrains, Live, closed
    <3>3. CASE c # NULL
      <4>1. magic' = [closed EXCEPT ![c] = "open"]
        BY <1>17, <3>3 DEF closed
      <4> QED
        BY <1>17, <2>4, <3>1, <3>3, <4>1 DEF ZombieDrains, Live
    <3> QED
      BY <3>2, <3>3
  <2>6. EachCleansUp'
    BY <2>1 DEF Inv, EachCleansUp
  <2> QED
    BY <1>0, <2>2, <2>3, <2>5, <2>6 DEF Inv
<1>18. ASSUME NEW unlink \in BOOLEAN, Close(unlink) PROVE Inv'
  BY <1>17, <1>18 DEF Close
<1>19. ASSUME Export PROVE Inv'
  BY <1>17, <1>19, StatementAssumption DEF Export
<1>20. CASE UNCHANGED vars
  BY <1>0, <1>20 DEF vars, cvars, jsvars, memvars, Inv, BindingsOwned, HeapAccounted,
                     RegistryOwner, ZombieDrains, EachCleansUp, Linked, Live
<1> QED
  BY <1>2, <1>3, <1>4, <1>5, <1>6, <1>7, <1>8, <1>9, <1>10, <1>11, <1>12, <1>13,
     <1>14, <1>15, <1>16, <1>18, <1>19, <1>20
     DEF Next, DatabaseCall, StatementCall

(* The database that was just opened has nothing to keep. *)
LEMMA InvInit == Init => Inv
<1> SUFFICES ASSUME Init PROVE Inv
  OBVIOUS
<1>1. TypeOK
  BY TypeInit
<1>2. BindingsOwned
  BY StatementAssumption DEF Init, BindingsOwned, Unbound
<1>3. HeapAccounted
  BY DEF Init, HeapAccounted
<1>4. RegistryOwner
  BY DEF Init, RegistryOwner
<1>5. ZombieDrains
  BY StatementAssumption DEF Init, ZombieDrains
<1>6. EachCleansUp
  BY DEF Init, EachCleansUp
<1>7. Linked
  BY DEF Init, Linked, Live
<1> QED
  BY <1>1, <1>2, <1>3, <1>4, <1>5, <1>6, <1>7 DEF Inv

(* The invariant holds in every reachable state. *)
LEMMA Invariance == Spec => []Inv
<1>1. Inv /\ [Next]_vars => Inv'
  BY InvStep
<1> QED
  BY <1>1, InvInit, PTL DEF Spec

-----------------------------------------------------------------------------
(* The properties of the runs, for all values of the constants. *)

(* SQLite is given string and blob parameters as SQLITE_STATIC pointers    *)
(* (sqlite3_bind_text with a null destructor): none of them ever outlives  *)
(* the allocation it points to, nor points to the memory of another object.*)
THEOREM NoDanglingPointer == Spec => []BindingsOwned
<1>1. Inv => BindingsOwned
  BY DEF Inv
<1> QED
  BY <1>1, Invariance, PTL

(* Every allocated block is in the allocatedmem of one open Statement      *)
(* object, and of one only: freemem() frees it once and not twice.         *)
THEOREM NoLeakedBlock == Spec => []HeapAccounted
<1>1. Inv => HeapAccounted
  BY DEF Inv
<1> QED
  BY <1>1, Invariance, PTL

(* The registry of Database.prepare leads to the owner of an address and   *)
(* nowhere else, although SQLite gives addresses out again.                *)
THEOREM RegistryIsExact == Spec => []RegistryOwner
<1>1. Inv => RegistryOwner
  BY DEF Inv
<1> QED
  BY <1>1, Invariance, PTL

(* sqlite3_close_v2 leaves a connection behind exactly while one of its    *)
(* statements is not finalized.                                            *)
THEOREM ZombiesDrain == Spec => []ZombieDrains
<1>1. Inv => ZombieDrains
  BY DEF Inv
<1> QED
  BY <1>1, Invariance, PTL

(* The statement of each ends with the call of each.                       *)
THEOREM EachIsClean == Spec => []EachCleansUp
<1>1. Inv => EachCleansUp
  BY DEF Inv
<1> QED
  BY <1>1, Invariance, PTL

(* close and export finalize every statement of prepare and each, also in  *)
(* the callback of each, and free its blocks.                              *)
THEOREM CloseIsComplete == Spec => CloseFinalises
<1>1. ASSUME Inv, FreeRegistered,
             NEW o \in Objs, origin[o] \in {"prepare", "each"}
      PROVE  stmt'[o] = NULL /\ allocatedmem[o] \cap heap' = {}
  <2>1. CASE stmt[o] = NULL
    BY <1>1, <2>1 DEF Inv, HeapAccounted, FreeRegistered, FreeStatements
  <2>2. CASE stmt[o] # NULL
    <3>1. stmt[o] \in Vdbes /\ statements[stmt[o]] = o
      BY <1>1, <2>2 DEF Inv, TypeOK, Linked
    <3>2. o \in Registered
      BY <3>1 DEF Registered
    <3> QED
      BY <1>1, <3>2 DEF FreeRegistered, FreeStatements, FreeMem
  <2> QED
    BY <2>1, <2>2
<1>2. Inv /\ [Next]_vars => [FinalisesRegistered]_vars
  BY <1>1 DEF Export, Close, FinalisesRegistered
<1> QED
  BY <1>2, Invariance, PTL DEF CloseFinalises, Spec

-----------------------------------------------------------------------------
(***************************************************************************)
(* The refinement: seen by value, with every pointer followed, memory,     *)
(* connections and the registry disappear.                                 *)
(***************************************************************************)
(* The refinement mapping. *)
St == [o \in Objs |-> IF stmt[o] = NULL THEN "closed" ELSE vdbe[stmt[o]]]
Values == [o \in Objs |-> IF stmt[o] = NULL THEN Unbound ELSE ValuesOf(aVar[stmt[o]])]

(* The pointers that bind leaves lead to the values it was given.          *)
LEMMA BoundValues ==
    ASSUME TypeOK, NEW o \in Objs, NEW v \in Vdbes, NEW ps \in Params,
           BindMemory(o, v, ps)
    PROVE  ValuesOf(aVar[v])' = Row(ps)
<1> DEFINE kept == heap \ allocatedmem[o]
<1>1. PICK blk \in [Copied(ps) -> Blocks \ kept] :
        LET copies == {blk[i] : i \in Copied(ps)}
            cell == [i \in DOMAIN ps |-> IF i \in Copied(ps) THEN blk[i] ELSE ps[i].val]
        IN /\ \A i, j \in Copied(ps) : blk[i] = blk[j] => i = j
           /\ data' = [b \in Blocks |->
                          IF b \in copies
                          THEN ps[CHOOSE i \in Copied(ps) : blk[i] = b].val
                          ELSE IF b \in kept THEN data[b] ELSE Garbage]
           /\ aVar' = [aVar EXCEPT ![v] = BoundRow(ps, cell)]
  BY DEF BindMemory
<1> DEFINE CellOf(i) == IF i \in Copied(ps) THEN blk[i] ELSE ps[i].val
           Chosen(p) == CHOOSE i \in DOMAIN ps : LastBinding(ps, p, i)
           Bound(p) == \E i \in DOMAIN ps : LastBinding(ps, p, i)
<1>2. aVar'[v] = [p \in 1..NVar |-> IF Bound(p) THEN CellOf(Chosen(p)) ELSE NULL]
  BY <1>1 DEF BoundRow, TypeOK
<1>3. Row(ps) = [p \in 1..NVar |-> IF Bound(p) THEN ps[Chosen(p)].val ELSE NULL]
  BY DEF Row, BoundRow
<1>4. ASSUME NEW i \in Copied(ps) PROVE data'[blk[i]] = ps[i].val /\ blk[i] \in Blocks
  <2>1. (CHOOSE j \in Copied(ps) : blk[j] = blk[i]) = i
    BY <1>1
  <2> QED
    BY <1>1, <2>1
<1>5. ASSUME NEW p \in 1..NVar
      PROVE  (IF aVar'[v][p] \in Blocks THEN data'[aVar'[v][p]] ELSE aVar'[v][p])
                = IF Bound(p) THEN ps[Chosen(p)].val ELSE NULL
  <2>1. CASE Bound(p)
    <3>1. /\ ps[Chosen(p)].val \in Value
          /\ ps[Chosen(p)].val \in Texts => Chosen(p) \in Copied(ps)
      BY <2>1, LastBindingChosen
    <3>2. aVar'[v][p] = CellOf(Chosen(p))
      BY <1>2, <2>1
    <3> HIDE DEF Chosen, Bound
    <3>3. CASE Chosen(p) \in Copied(ps)
      BY <1>4, <2>1, <3>2, <3>3
    <3>4. CASE Chosen(p) \notin Copied(ps)
      BY <2>1, <3>1, <3>2, <3>4, StatementAssumption
    <3> QED
      BY <3>3, <3>4
  <2>2. CASE ~Bound(p)
    BY <1>2, <2>2, StatementAssumption
  <2> QED
    BY <2>1, <2>2
<1> HIDE DEF Chosen, Bound
<1> QED
  BY <1>3, <1>5 DEF ValuesOf

(* The memory of one object is not read by the statement of another.       *)
LEMMA OthersKeepValues ==
    ASSUME Inv, NEW o \in Objs, NEW q \in Objs \ {o}, stmt[q] # NULL,
           \A b \in heap \ allocatedmem[o] : data'[b] = data[b],
           aVar'[stmt[q]] = aVar[stmt[q]]
    PROVE  \A p \in 1..NVar :
             (IF aVar'[stmt[q]][p] \in Blocks THEN data'[aVar'[stmt[q]][p]] ELSE aVar'[stmt[q]][p])
               = (IF aVar[stmt[q]][p] \in Blocks THEN data[aVar[stmt[q]][p]] ELSE aVar[stmt[q]][p])
<1> SUFFICES ASSUME NEW p \in 1..NVar, aVar[stmt[q]][p] \in Blocks
             PROVE  data'[aVar[stmt[q]][p]] = data[aVar[stmt[q]][p]]
  OBVIOUS
<1> DEFINE b == aVar[stmt[q]][p]
<1>1. stmt[q] \in Vdbes
  BY DEF Inv, TypeOK
<1>2. PICK r \in Objs : stmt[r] = stmt[q] /\ b \in allocatedmem[r] /\ b \in heap
  BY <1>1 DEF Inv, BindingsOwned
<1>3. r = q
  BY <1>2 DEF Inv, RegistryOwner
<1>4. b \notin allocatedmem[o]
  BY <1>2, <1>3 DEF Inv, HeapAccounted
<1> QED
  BY <1>2, <1>4

(* The abstract specification speaks of the same arguments of bind.        *)
LEMMA SameBinding ==
    /\ ByValue!Unbound = Unbound
    /\ \A ps \in Params : ByValue!Row(ps) = Row(ps) /\ (ByValue!Throws(ps) <=> Throws(ps))
<1>1. ByValue!Unbound = Unbound
  BY DEF ByValue!Unbound, Unbound
<1>2. ASSUME NEW ps \in Params
      PROVE  ByValue!Row(ps) = Row(ps) /\ (ByValue!Throws(ps) <=> Throws(ps))
  BY DEF ByValue!Row, ByValue!BoundRow, ByValue!LastBinding, ByValue!Binds, ByValue!Reached,
         ByValue!Throws, ByValue!Fails, ByValue!Value,
         Row, BoundRow, LastBinding, Binds, Reached, Throws, Fails, Value
<1> QED
  BY <1>1, <1>2

(* What an object shows before and after a step. *)
LEMMA Shown ==
    ASSUME NEW q \in Objs
    PROVE  /\ Values[q] = [p \in 1..NVar |->
                IF stmt[q] = NULL THEN NULL
                ELSE IF aVar[stmt[q]][p] \in Blocks THEN data[aVar[stmt[q]][p]]
                ELSE aVar[stmt[q]][p]]
           /\ Values'[q] = [p \in 1..NVar |->
                IF stmt'[q] = NULL THEN NULL
                ELSE IF aVar'[stmt'[q]][p] \in Blocks THEN data'[aVar'[stmt'[q]][p]]
                ELSE aVar'[stmt'[q]][p]]
  BY DEF Values, ValuesOf, Unbound

(* An object with the same pointers to the same contents shows the same.   *)
LEMMA SameShown ==
    ASSUME NEW q \in Objs, stmt'[q] = stmt[q],
           stmt[q] # NULL => \A p \in 1..NVar :
             (IF aVar'[stmt[q]][p] \in Blocks THEN data'[aVar'[stmt[q]][p]] ELSE aVar'[stmt[q]][p])
               = (IF aVar[stmt[q]][p] \in Blocks THEN data[aVar[stmt[q]][p]] ELSE aVar[stmt[q]][p])
    PROVE  Values'[q] = Values[q]
<1> DEFINE now == [p \in 1..NVar |->
                IF stmt[q] = NULL THEN NULL
                ELSE IF aVar[stmt[q]][p] \in Blocks THEN data[aVar[stmt[q]][p]]
                ELSE aVar[stmt[q]][p]]
           next == [p \in 1..NVar |->
                IF stmt[q] = NULL THEN NULL
                ELSE IF aVar'[stmt[q]][p] \in Blocks THEN data'[aVar'[stmt[q]][p]]
                ELSE aVar'[stmt[q]][p]]
<1>1. now = next
  BY Z3
<1>2. Values[q] = now
  BY Shown
<1>3. Values'[q] = next
  <2>1. Values'[q] = [p \in 1..NVar |->
                IF stmt'[q] = NULL THEN NULL
                ELSE IF aVar'[stmt'[q]][p] \in Blocks THEN data'[aVar'[stmt'[q]][p]]
                ELSE aVar'[stmt'[q]][p]]
    BY Shown
  <2> QED
    BY <2>1
<1> HIDE DEF now, next
<1> QED
  BY <1>1, <1>2, <1>3

(* An operation on object o changes nothing that another object shows.     *)
LEMMA OnlyOne ==
    ASSUME Inv, NEW o \in Objs,
           \A q \in Objs \ {o} :
              /\ stmt'[q] = stmt[q]
              /\ stmt[q] # NULL => /\ vdbe'[stmt[q]] = vdbe[stmt[q]]
                                   /\ aVar'[stmt[q]] = aVar[stmt[q]],
           \A b \in heap \ allocatedmem[o] : data'[b] = data[b]
    PROVE  /\ St' = [St EXCEPT ![o] = St'[o]]
           /\ Values' = [Values EXCEPT ![o] = Values'[o]]
<1>1. ASSUME NEW q \in Objs \ {o}
      PROVE  St'[q] = St[q] /\ Values'[q] = Values[q]
  <2>1. St'[q] = St[q]
    BY DEF St
  <2>2. stmt[q] # NULL => \A p \in 1..NVar :
           (IF aVar'[stmt[q]][p] \in Blocks THEN data'[aVar'[stmt[q]][p]] ELSE aVar'[stmt[q]][p])
             = (IF aVar[stmt[q]][p] \in Blocks THEN data[aVar[stmt[q]][p]] ELSE aVar[stmt[q]][p])
    BY OthersKeepValues
  <2>3. Values'[q] = Values[q]
    BY <2>2, SameShown
  <2> QED
    BY <2>1, <2>3
<1>2. St' = [q \in Objs |-> St'[q]] /\ St = [q \in Objs |-> St[q]]
  BY Zenon DEF St
<1>3. Values' = [q \in Objs |-> Values'[q]] /\ Values = [q \in Objs |-> Values[q]]
  BY Zenon DEF Values
<1>4. St' = [St EXCEPT ![o] = St'[o]]
  BY <1>1, <1>2
<1>5. Values' = [Values EXCEPT ![o] = Values'[o]]
  BY <1>1, <1>3
<1> QED
  BY <1>4, <1>5

(* The memory of other objects stays as it is. *)
LEMMA KeptData ==
    ASSUME Inv, NEW o \in Objs,
           (\E v \in Vdbes, ps \in Params : BindMemory(o, v, ps)) \/ FreeMem({o})
    PROVE  \A b \in heap \ allocatedmem[o] : data'[b] = data[b]
<1> DEFINE kept == heap \ allocatedmem[o]
<1>1. kept \subseteq Blocks
  BY DEF Inv, TypeOK
<1>2. ASSUME NEW v \in Vdbes, NEW ps \in Params, BindMemory(o, v, ps)
      PROVE  \A b \in kept : data'[b] = data[b]
  <2>1. PICK blk \in [Copied(ps) -> Blocks \ kept] :
           data' = [b \in Blocks |->
                      IF b \in {blk[i] : i \in Copied(ps)}
                      THEN ps[CHOOSE i \in Copied(ps) : blk[i] = b].val
                      ELSE IF b \in kept THEN data[b] ELSE Garbage]
    BY <1>2 DEF BindMemory
  <2>2. ASSUME NEW b \in kept PROVE b \notin {blk[i] : i \in Copied(ps)}
    OBVIOUS
  <2> QED
    BY <1>1, <2>1, <2>2
<1>3. ASSUME FreeMem({o}) PROVE \A b \in kept : data'[b] = data[b]
  BY <1>1, <1>3 DEF FreeMem
<1> QED
  BY <1>2, <1>3

(* A step of the implementation is a step of PreparedStatements or none.   *)
LEMMA RefinementStep == Inv /\ [Next]_vars => [ByValue!Next]_(ByValue!vars)
<1> SUFFICES ASSUME Inv, [Next]_vars PROVE ByValue!Next \/ UNCHANGED <<St, Values>>
  BY DEF ByValue!vars, St, Values
<1>1. ASSUME NEW o \in Objs, NEW v \in Vdbes, NEW ps \in Params, NEW s,
             s \in {"ready", "row"}, Throws(ps) => s = "ready", Make(o, v, ps, s)
      PROVE  ByValue!Next
  <2>1. stmt[o] = NULL /\ ~Live(v) /\ \A q \in Objs : stmt[q] # v
    <3>1. stmt[o] = NULL /\ ~Live(v)
      BY <1>1 DEF Inv, Linked, Make, Fresh, Live
    <3> QED
      BY <3>1, StatementAssumption DEF Inv, Linked
  <2>2. stmt'[o] = v /\ vdbe'[v] = s /\ v # NULL /\ ValuesOf(aVar[v])' = Row(ps)
    BY <1>1, BoundValues, StatementAssumption DEF Make, Inv, TypeOK
  <2>3. St[o] = "closed" /\ St'[o] = s /\ Values'[o] = Row(ps)
    BY <2>1, <2>2 DEF St, Values
  <2>4. /\ St' = [St EXCEPT ![o] = St'[o]]
        /\ Values' = [Values EXCEPT ![o] = Values'[o]]
    <3>1. Rebound(o, v)
      BY <1>1, BindRebinds DEF Make, Inv
    <3>2. \A q \in Objs \ {o} :
             /\ stmt'[q] = stmt[q]
             /\ stmt[q] # NULL => /\ vdbe'[stmt[q]] = vdbe[stmt[q]]
                                  /\ aVar'[stmt[q]] = aVar[stmt[q]]
      BY <1>1, <2>1, <3>1 DEF Make, Rebound, Inv, TypeOK
    <3> QED
      BY <1>1, <3>2, KeptData, OnlyOne DEF Make
  <2>5. ByValue!Bind(o)
    BY <1>1, <2>3, <2>4, SameBinding DEF ByValue!Bind, ByValue!Only, ByValue!Running, St, Values
  <2> QED
    BY <2>5 DEF ByValue!Next
<1>2. ASSUME NEW o \in Objs, stmt[o] # NULL, stmt' = stmt,
             NEW s \in VdbeState \ {"free"}, vdbe' = [vdbe EXCEPT ![stmt[o]] = s]
      PROVE  /\ stmt[o] \in Vdbes /\ St[o] # "closed" /\ St'[o] = s
             /\ \A q \in Objs \ {o} : stmt[q] # NULL =>
                   stmt[q] # stmt[o] /\ vdbe'[stmt[q]] = vdbe[stmt[q]]
             /\ St[o] = vdbe[stmt[o]]
  BY <1>2 DEF Inv, TypeOK, VdbeState, RegistryOwner, St
<1>3. ASSUME NEW o \in Objs, stmt[o] # NULL, stmt' = stmt, NEW ps \in Params,
             NEW s \in VdbeState \ {"free"}, vdbe' = [vdbe EXCEPT ![stmt[o]] = s],
             Throws(ps) => s = "ready", BindMemory(o, stmt[o], ps)
      PROVE  ByValue!Next
  <2>1. /\ stmt[o] \in Vdbes /\ St[o] # "closed" /\ St'[o] = s
        /\ \A q \in Objs \ {o} : stmt[q] # NULL =>
              stmt[q] # stmt[o] /\ vdbe'[stmt[q]] = vdbe[stmt[q]]
    BY <1>2, <1>3
  <2>2. Values'[o] = Row(ps)
    BY <1>3, <2>1, BoundValues DEF Values, Inv
  <2>3. /\ St' = [St EXCEPT ![o] = St'[o]]
        /\ Values' = [Values EXCEPT ![o] = Values'[o]]
    <3>1. Rebound(o, stmt[o])
      BY <1>3, <2>1, BindRebinds DEF Inv
    <3>2. \A q \in Objs \ {o} : stmt[q] # NULL => aVar'[stmt[q]] = aVar[stmt[q]]
      BY <2>1, <3>1 DEF Rebound, Inv, TypeOK
    <3>3. \A b \in heap \ allocatedmem[o] : data'[b] = data[b]
      BY <1>3, <2>1, KeptData
    <3> QED
      BY <1>3, <2>1, <3>2, <3>3, OnlyOne
  <2>4. ByValue!Bind(o)
    BY <1>3, <2>1, <2>2, <2>3, SameBinding
       DEF ByValue!Bind, ByValue!Only, ByValue!Running, St, Values, VdbeState
  <2> QED
    BY <2>4 DEF ByValue!Next
<1>4. ASSUME NEW o \in Objs, stmt[o] # NULL, stmt' = stmt,
             vdbe' = [vdbe EXCEPT ![stmt[o]] = "ready"],
             FreeMem({o}), aVar' = [aVar EXCEPT ![stmt[o]] = Unbound]
      PROVE  ByValue!Next
  <2>1. /\ stmt[o] \in Vdbes /\ St[o] # "closed" /\ St'[o] = "ready"
        /\ \A q \in Objs \ {o} : stmt[q] # NULL =>
              stmt[q] # stmt[o] /\ vdbe'[stmt[q]] = vdbe[stmt[q]]
    BY <1>2, <1>4 DEF VdbeState
  <2>2. aVar'[stmt[o]] = Unbound
    BY <1>4, <2>1 DEF Inv, TypeOK
  <2>3. Values'[o] = Unbound
    <3>1. stmt'[o] = stmt[o] /\ stmt[o] # NULL /\ NULL \notin Blocks
      BY <1>4, StatementAssumption
    <3>2. \A p \in 1..NVar : aVar'[stmt[o]][p] = NULL
      BY <2>2 DEF Unbound
    <3> QED
      BY <3>1, <3>2 DEF Values, ValuesOf, Unbound
  <2>4. /\ St' = [St EXCEPT ![o] = St'[o]]
        /\ Values' = [Values EXCEPT ![o] = Values'[o]]
    <3>1. \A q \in Objs \ {o} : stmt[q] # NULL => aVar'[stmt[q]] = aVar[stmt[q]]
      BY <1>4, <2>1 DEF Inv, TypeOK
    <3>2. \A b \in heap \ allocatedmem[o] : data'[b] = data[b]
      BY <1>4, KeptData
    <3> QED
      BY <1>4, <2>1, <3>1, <3>2, OnlyOne
  <2>5. ByValue!Reset(o)
    BY <2>1, <2>3, <2>4, SameBinding DEF ByValue!Reset, ByValue!Only, St, Values
  <2> QED
    BY <2>5 DEF ByValue!Next
<1>5. ASSUME NEW os \in SUBSET Objs, FreeStatements(os)
      PROVE  ByValue!Next
  <2>1. ASSUME NEW q \in os PROVE stmt'[q] = NULL
    BY <1>5, <2>1 DEF FreeStatements
  <2>2. ASSUME NEW q \in Objs \ os
        PROVE  /\ stmt'[q] = stmt[q]
               /\ stmt[q] # NULL => /\ vdbe'[stmt[q]] = vdbe[stmt[q]]
                                    /\ ValuesOf(aVar[stmt[q]])' = ValuesOf(aVar[stmt[q]])
    <3>1. stmt'[q] = stmt[q]
      BY <1>5 DEF FreeStatements
    <3>2. CASE stmt[q] # NULL
      <4>1. stmt[q] \in Vdbes /\ stmt[q] \notin HandlesOf(os)
        BY <3>2 DEF Inv, TypeOK, RegistryOwner, HandlesOf
      <4>2. vdbe'[stmt[q]] = vdbe[stmt[q]] /\ aVar'[stmt[q]] = aVar[stmt[q]]
        BY <1>5, <4>1 DEF FreeStatements
      <4>3. ASSUME NEW p \in 1..NVar, aVar[stmt[q]][p] \in Blocks
            PROVE  data'[aVar[stmt[q]][p]] = data[aVar[stmt[q]][p]]
        <5> DEFINE b == aVar[stmt[q]][p]
        <5>1. PICK r \in Objs : stmt[r] = stmt[q] /\ b \in allocatedmem[r]
          BY <4>1, <4>3 DEF Inv, BindingsOwned
        <5>2. r = q
          BY <3>2, <5>1 DEF Inv, RegistryOwner
        <5>3. b \notin UNION {allocatedmem[o] : o \in os}
          BY <5>1, <5>2 DEF Inv, HeapAccounted
        <5> QED
          BY <1>5, <4>3, <5>3 DEF FreeStatements, FreeMem
      <4>4. ValuesOf(aVar[stmt[q]])' = ValuesOf(aVar[stmt[q]])
        BY <3>1, <4>2, <4>3 DEF ValuesOf
      <4> QED
        BY <3>1, <4>2, <4>4
    <3> QED
      BY <3>1, <3>2
  <2>3. St' = [q \in Objs |-> IF q \in os THEN "closed" ELSE St[q]]
    BY <2>1, <2>2 DEF St
  <2>4. Values' = [q \in Objs |-> IF q \in os THEN Unbound ELSE Values[q]]
    <3>1. ASSUME NEW q \in Objs
          PROVE  Values'[q] = IF q \in os THEN Unbound ELSE Values[q]
      BY <2>1, <2>2 DEF Values
    <3> QED
      BY <3>1 DEF Values
  <2>5. ByValue!Close(os)
    BY <2>3, <2>4, SameBinding DEF ByValue!Close, St, Values
  <2> QED
    BY <2>5 DEF ByValue!Next
<1>6. ASSUME UNCHANGED <<stmt, vdbe, aVar, data>>
      PROVE  UNCHANGED <<St, Values>>
  BY <1>6 DEF St, Values, ValuesOf
<1>7. ASSUME NEW o \in Objs, NEW ps \in Params, Bind(o, ps) PROVE ByValue!Next
  BY <1>3, <1>7 DEF Bind, Open, VdbeState, jsvars
<1>8. ASSUME NEW o \in Objs, NEW ps \in Params, Get(o, ps) PROVE ByValue!Next
  <2>1. PICK r \in [to : VdbeState, stale : BOOLEAN] :
           r.to # "free" /\ vdbe' = [vdbe EXCEPT ![stmt[o]] = r.to]
    BY <1>8 DEF Get, Outcome
  <2>2. r.to \in VdbeState \ {"free"}
    BY <2>1
  <2> QED
    BY <1>3, <1>8, <2>1, <2>2 DEF Get, Open, jsvars
<1>9. ASSUME NEW o \in Objs, Step(o) PROVE ByValue!Next
  <2>1. PICK r \in [to : VdbeState, stale : BOOLEAN] :
           /\ r.to # "free" /\ vdbe' = [vdbe EXCEPT ![stmt[o]] = r.to]
           /\ r.to = "ready" => vdbe[stmt[o]] \in {"ready", "halt"}
    BY <1>9 DEF Step, Outcome
  <2>2. stmt[o] # NULL /\ UNCHANGED <<stmt, aVar, data, heap, allocatedmem>>
    BY <1>9 DEF Step, Open, jsvars, memvars
  <2>3. r.to \in VdbeState \ {"free"}
    BY <2>1
  <2>4. /\ St[o] # "closed" /\ St'[o] = r.to /\ St[o] = vdbe[stmt[o]]
        /\ \A q \in Objs \ {o} : stmt[q] # NULL =>
              stmt[q] # stmt[o] /\ vdbe'[stmt[q]] = vdbe[stmt[q]]
    BY <1>2, <2>1, <2>2, <2>3
  <2>5. Values' = Values
    BY <2>2 DEF Values, ValuesOf
  <2>6. /\ St' = [St EXCEPT ![o] = St'[o]]
        /\ Values' = [Values EXCEPT ![o] = Values'[o]]
    BY <2>2, <2>4, OnlyOne
  <2>7. ByValue!Step(o)
    BY <2>1, <2>3, <2>4, <2>5, <2>6
       DEF ByValue!Step, ByValue!Only, ByValue!Running, St, Values, VdbeState
  <2> QED
    BY <2>7 DEF ByValue!Next
<1>10. ASSUME NEW o \in Objs, Reset(o) \/ Run(o) PROVE ByValue!Next
  BY <1>4, <1>10 DEF Reset, Run, ClearBindings, Open, jsvars
<1>11. ASSUME NEW o \in Objs, Free(o) \/ Exec(o) PROVE ByValue!Next
  <2>1. FreeStatements({o}) /\ {o} \in SUBSET Objs
    BY <1>11 DEF Free, Exec
  <2> QED
    BY <1>5, <2>1
<1>12. ASSUME EachFinish PROVE ByValue!Next
  <2>1. Head(stack) \in Objs /\ FreeStatements({Head(stack)})
    BY <1>12 DEF EachFinish, Inv, TypeOK
  <2> QED
    BY <1>5, <2>1
<1>13. ASSUME FreeRegistered PROVE ByValue!Next
  BY <1>5, <1>13 DEF FreeRegistered, Registered
<1>14. ASSUME Execute \/ EachNext \/ (\E o \in Objs : Drop(o)) \/ UNCHANGED vars
       PROVE  UNCHANGED <<St, Values>>
  BY <1>6, <1>14 DEF Execute, EachNext, Drop, vars, cvars, jsvars, memvars
<1>15. ASSUME NEW o \in Objs, NEW v \in Vdbes, CreateStatement(o, v) PROVE ByValue!Next
  BY <1>1, <1>15, StatementAssumption DEF CreateStatement, Throws
<1>16. ASSUME NEW o \in Objs, NEW v \in Vdbes, NEW ps \in Params,
              Prepare(o, v, ps) \/ Lose(o, v, ps) \/ EachBegin(o, v, ps)
       PROVE  ByValue!Next
  BY <1>1, <1>16 DEF Prepare, Lose, EachBegin
<1> QED
  BY <1>7, <1>8, <1>9, <1>10, <1>11, <1>12, <1>13, <1>14, <1>15, <1>16
     DEF Next, DatabaseCall, StatementCall, Close, Export

(* Prepared statements behave by value: whatever the program calls in      *)
(* whatever order, the parameters SQLite reads through its static pointers *)
(* are those of the last bind of that statement, and no call to one        *)
(* statement is seen by another.                                           *)
THEOREM Refinement == Spec => ImplementsPreparedStatements
<1>1. Init => ByValue!Init
  BY SameBinding DEF Init, ByValue!Init
<1>2. Inv /\ [Next]_vars => [ByValue!Next]_(ByValue!vars)
  BY RefinementStep
<1> QED
  BY <1>1, <1>2, Invariance, PTL DEF Spec, ImplementsPreparedStatements, ByValue!Spec
=============================================================================
