------------------------ MODULE UserFunctionsProofs ------------------------
(***************************************************************************)
(* Proofs about UserFunctions: the function table and the databases agree, *)
(* and what can take its JavaScript function from a SQL function.          *)
(***************************************************************************)
EXTENDS UserFunctions, TLAPS

LEMMA InitInv == Init => Inv
  <1> SUFFICES ASSUME Init PROVE Inv
    OBVIOUS
  <1> USE UserFunctionsAssumption DEF Init, NoFunctions, Defined
  <1>1. TypeOK
    BY DEF TypeOK
  <1>2. SlotsOwned
    BY DEF SlotsOwned
  <1>3. ConnectionsOwned
    BY DEF ConnectionsOwned
  <1> QED
    BY <1>1, <1>2, <1>3 DEF Inv

(* The connections that are still open after a statement is finalized or a *)
(* connection closed are those that were, but for the one closed.          *)
LEMMA ReapedType ==
    ASSUME TypeOK, NEW gone \in SUBSET Stmts, NEW c \in Conns \cup {NULL}
    PROVE  /\ Reaped(gone, c) \in [Conns -> {"free", "open", "zombie"}]
           /\ \A e \in Conns : Reaped(gone, c)[e] = "open" <=> e # c /\ magic[e] = "open"
           /\ KeptDefinitions(gone, c) \in [Conns -> [Keys -> Slots \cup {NATIVE, NULL}]]
           /\ \A e \in Conns : e # c /\ magic[e] = "open" =>
                 KeptDefinitions(gone, c)[e] = aFunc[e]
  <1>1. Reaped(gone, c) \in [Conns -> {"free", "open", "zombie"}]
    BY DEF TypeOK, Reaped
  <1>2. \A e \in Conns : Reaped(gone, c)[e] = "open" <=> e # c /\ magic[e] = "open"
    BY DEF TypeOK, Reaped
  <1>3. Defined({}) \in [Keys -> Slots \cup {NATIVE, NULL}]
    BY DEF Defined
  <1>4. KeptDefinitions(gone, c) \in [Conns -> [Keys -> Slots \cup {NATIVE, NULL}]]
    BY <1>3 DEF TypeOK, KeptDefinitions
  <1>5. \A e \in Conns : e # c /\ magic[e] = "open" =>
           KeptDefinitions(gone, c)[e] = aFunc[e]
    BY <1>2 DEF KeptDefinitions
  <1> QED
    BY <1>1, <1>2, <1>4, <1>5

LEMMA FinalizeType ==
    ASSUME TypeOK, NEW gone \in SUBSET Stmts, Finalize(gone)
    PROVE  /\ vconn' \in [Stmts -> Conns \cup {NULL}]
           /\ active' \in [Stmts -> BOOLEAN]
           /\ sdb' \in [Stmts -> Databases \cup {NULL}]
           /\ registered' \in [Databases -> SUBSET Stmts]
  BY DEF TypeOK, Finalize

(* The types after the constructor. *)
LEMMA NewInv ==
    ASSUME Inv, NEW d \in Databases, New(d)
    PROVE  Inv'
  <1> USE UserFunctionsAssumption
  <1>0. TypeOK /\ SlotsOwned /\ ConnectionsOwned
    BY DEF Inv
  <1>1. PICK c \in Conns :
           /\ magic[c] = "free"
           /\ db' = [db EXCEPT ![d] = c]
           /\ magic' = [magic EXCEPT ![c] = "open"]
           /\ aFunc' = [aFunc EXCEPT ![c] = Defined(Builtins \cup Extensions)]
    BY DEF New
  <1>2. Defined(Builtins \cup Extensions) \in [Keys -> Slots \cup {NATIVE, NULL}]
    BY DEF Defined
  <1>3. NoFunctions \in [Names -> Slots \cup {NULL}]
    BY DEF NoFunctions
  <1>4. TypeOK'
    <2>1. db' \in [Databases -> Conns \cup {NULL}]
      BY <1>0, <1>1 DEF TypeOK
    <2>2. magic' \in [Conns -> {"free", "open", "zombie"}]
      BY <1>0, <1>1 DEF TypeOK
    <2>3. aFunc' \in [Conns -> [Keys -> Slots \cup {NATIVE, NULL}]]
      BY <1>0, <1>1, <1>2 DEF TypeOK
    <2>4. functions' \in [Databases -> [Names -> Slots \cup {NULL}]]
      BY <1>0, <1>3 DEF TypeOK, New
    <2>5. file' \in [Databases -> BOOLEAN]
      BY <1>0 DEF TypeOK, New
    <2> QED
      BY <1>0, <2>1, <2>2, <2>3, <2>4, <2>5 DEF TypeOK, New
  <1>5. \A x \in Names : functions[d][x] = NULL
    BY <1>0 DEF SlotsOwned, New, TypeOK
  <1>6. \A e \in Databases, x \in Names : functions'[e][x] = functions[e][x]
    BY <1>0, <1>5 DEF New, TypeOK, NoFunctions
  <1>7. SlotsOwned'
    <2>1. \A e \in Databases : db[e] # NULL => db'[e] # NULL
      BY <1>0, <1>1 DEF TypeOK, New
    <2> QED
      BY <1>0, <1>6, <2>1 DEF SlotsOwned, New
  <1>8. ConnectionsOwned'
    <2>1. \A e \in Databases : db[e] # c
      BY <1>0, <1>1 DEF ConnectionsOwned
    <2>2. \A e \in Databases : db'[e] = IF e = d THEN c ELSE db[e]
      BY <1>0, <1>1 DEF TypeOK
    <2>3. \A e \in Conns : magic'[e] = IF e = c THEN "open" ELSE magic[e]
      BY <1>0, <1>1 DEF TypeOK
    <2>4. db[d] = NULL
      BY DEF New
    <2>5. \A e \in Conns : magic'[e] = "open" <=> \E g \in Databases : db'[g] = e
      BY <1>0, <2>2, <2>3, <2>4 DEF ConnectionsOwned
    <2>6. \A e, g \in Databases : db'[e] = db'[g] /\ db'[e] # NULL => e = g
      BY <1>0, <2>1, <2>2 DEF ConnectionsOwned
    <2> QED
      BY <2>5, <2>6 DEF ConnectionsOwned
  <1> QED
    BY <1>4, <1>7, <1>8 DEF Inv

LEMMA CreateFunctionInv ==
    ASSUME Inv, NEW d \in Databases, NEW x \in Names, NEW f \in Funcs,
           CreateFunction(d, x, f)
    PROVE  Inv'
  <1> USE UserFunctionsAssumption
  <1> DEFINE c == db[d]
             k == <<Fold[x], Arity[f]>>
             kept == Removed({functions[d][x]})
  <1>0. TypeOK /\ SlotsOwned /\ ConnectionsOwned
    BY DEF Inv
  <1>1. PICK s \in Slots :
           /\ kept[s] = NULL
           /\ table' = [kept EXCEPT ![s] = f]
           /\ functions' = [functions EXCEPT ![d][x] = s]
           /\ aFunc' = IF Refused(c, k) THEN aFunc ELSE [aFunc EXCEPT ![c][k] = s]
    BY DEF CreateFunction
  <1>2. kept \in [Slots -> Funcs \cup {NULL}]
    BY <1>0 DEF TypeOK, Removed
  <1>3. c \in Conns /\ k \in Keys
    BY <1>0 DEF TypeOK, CreateFunction, Keys
  <1>u. UNCHANGED <<db, file, magic, vconn, active, sdb, registered>>
    BY DEF CreateFunction, sqlvars
  <1>4. TypeOK'
    <2>1. table' \in [Slots -> Funcs \cup {NULL}]
      BY <1>1, <1>2
    <2>2. functions' \in [Databases -> [Names -> Slots \cup {NULL}]]
      BY <1>0, <1>1 DEF TypeOK
    <2>3. aFunc' \in [Conns -> [Keys -> Slots \cup {NATIVE, NULL}]]
      BY <1>0, <1>1, <1>3 DEF TypeOK
    <2> QED
      BY <1>0, <1>u, <2>1, <2>2, <2>3 DEF TypeOK
  <1>5. \A e \in Databases, y \in Names :
           functions'[e][y] = IF e = d /\ y = x THEN s ELSE functions[e][y]
    BY <1>0, <1>1 DEF TypeOK
  <1>6. \A e \in Databases, y \in Names : ~(e = d /\ y = x) => functions[e][y] # s
    BY <1>0, <1>1 DEF SlotsOwned, Removed
  <1>7. \A t \in Slots : table'[t] = IF t = s THEN f
                                     ELSE IF t = functions[d][x] THEN NULL ELSE table[t]
    BY <1>1, <1>2 DEF Removed
  <1>8. SlotsOwned'
    <2>1. ASSUME NEW t \in Slots, table'[t] # NULL
          PROVE  \E e \in Databases, y \in Names : functions'[e][y] = t
      <3>1. CASE t = s
        BY <1>5, <3>1
      <3>2. CASE t # s
        <4>1. t # functions[d][x] /\ table[t] # NULL
          BY <1>7, <2>1, <3>2
        <4>2. PICK e \in Databases, y \in Names : functions[e][y] = t
          BY <1>0, <4>1 DEF SlotsOwned
        <4> QED
          BY <1>5, <4>1, <4>2
      <3> QED
        BY <3>1, <3>2
    <2>2. ASSUME NEW e \in Databases, NEW g \in Databases, NEW y \in Names, NEW z \in Names,
                 functions'[e][y] = functions'[g][z], functions'[e][y] # NULL
          PROVE  e = g /\ y = z
      BY <1>0, <1>5, <1>6, <2>2 DEF SlotsOwned
    <2>3. ASSUME NEW e \in Databases, NEW y \in Names, functions'[e][y] # NULL
          PROVE  table'[functions'[e][y]] # NULL /\ db'[e] # NULL
      <3>1. CASE e = d /\ y = x
        BY <1>0, <1>5, <1>7, <1>3, <1>u, <3>1
      <3>2. CASE ~(e = d /\ y = x)
        <4>1. functions'[e][y] = functions[e][y] /\ functions[e][y] \in Slots
          BY <1>0, <1>5, <2>3, <3>2 DEF TypeOK
        <4>2. functions[e][y] # s /\ functions[e][y] # functions[d][x]
          BY <1>0, <1>6, <2>3, <3>2, <4>1 DEF SlotsOwned
        <4> QED
          BY <1>0, <1>7, <1>u, <2>3, <4>1, <4>2 DEF SlotsOwned
      <3> QED
        BY <3>1, <3>2
    <2> QED
      BY <2>1, <2>2, <2>3 DEF SlotsOwned
  <1>9. ConnectionsOwned'
    BY <1>0, <1>u DEF ConnectionsOwned
  <1> QED
    BY <1>4, <1>8, <1>9 DEF Inv

(* What close and export leave of the functions and the table. *)
LEMMA DropFunctionsOwned ==
    ASSUME TypeOK, SlotsOwned, NEW d \in Databases, DropFunctions(d),
           \A e \in Databases : e # d => db'[e] = db[e]
    PROVE  /\ SlotsOwned'
           /\ table' \in [Slots -> Funcs \cup {NULL}]
           /\ functions' \in [Databases -> [Names -> Slots \cup {NULL}]]
           /\ \A e \in Databases, x \in Names : e # d =>
                 /\ functions'[e][x] = functions[e][x]
                 /\ functions[e][x] # NULL => table'[functions[e][x]] = table[functions[e][x]]
  <1> USE UserFunctionsAssumption
  <1>1. \A e \in Databases, x \in Names :
           functions'[e][x] = IF e = d THEN NULL ELSE functions[e][x]
    BY DEF TypeOK, DropFunctions, NoFunctions
  <1>2. \A s \in Slots : table'[s] = IF s \in SlotsOf(d) THEN NULL ELSE table[s]
    BY DEF DropFunctions, Removed
  <1>3. \A e \in Databases, x \in Names :
           e # d /\ functions[e][x] # NULL => functions[e][x] \in Slots \ SlotsOf(d)
    BY DEF SlotsOwned, SlotsOf, TypeOK
  <1>4. table' \in [Slots -> Funcs \cup {NULL}]
    BY DEF TypeOK, DropFunctions, Removed
  <1>5. functions' \in [Databases -> [Names -> Slots \cup {NULL}]]
    BY DEF TypeOK, DropFunctions, NoFunctions
  <1>6. SlotsOwned'
    <2>1. ASSUME NEW s \in Slots, table'[s] # NULL
          PROVE  \E e \in Databases, x \in Names : functions'[e][x] = s
      <3>1. s \notin SlotsOf(d) /\ table[s] # NULL
        BY <1>2, <2>1
      <3>2. PICK e \in Databases, x \in Names : functions[e][x] = s
        BY <3>1 DEF SlotsOwned
      <3>3. e # d
        BY <3>1, <3>2 DEF SlotsOf
      <3> QED
        BY <1>1, <3>2, <3>3
    <2>2. ASSUME NEW e \in Databases, NEW g \in Databases, NEW x \in Names, NEW y \in Names,
                 functions'[e][x] = functions'[g][y], functions'[e][x] # NULL
          PROVE  e = g /\ x = y
      BY <1>1, <2>2 DEF SlotsOwned
    <2>3. ASSUME NEW e \in Databases, NEW x \in Names, functions'[e][x] # NULL
          PROVE  table'[functions'[e][x]] # NULL /\ db'[e] # NULL
      BY <1>1, <1>2, <1>3, <2>3 DEF SlotsOwned
    <2> QED
      BY <2>1, <2>2, <2>3 DEF SlotsOwned
  <1> QED
    BY <1>1, <1>2, <1>3, <1>4, <1>5, <1>6

LEMMA CloseInv ==
    ASSUME Inv, NEW d \in Databases, NEW unlink \in BOOLEAN, Close(d, unlink)
    PROVE  Inv'
  <1> USE UserFunctionsAssumption
  <1>0. TypeOK /\ SlotsOwned /\ ConnectionsOwned
    BY DEF Inv
  <1>1. registered[d] \in SUBSET Stmts /\ db[d] \in Conns
    BY <1>0 DEF TypeOK, Close
  <1>r. /\ magic' \in [Conns -> {"free", "open", "zombie"}]
        /\ \A e \in Conns : magic'[e] = "open" <=> e # db[d] /\ magic[e] = "open"
        /\ aFunc' \in [Conns -> [Keys -> Slots \cup {NATIVE, NULL}]]
    <2>1. db[d] \in Conns \cup {NULL}
      BY <1>1
    <2>2. magic' = Reaped(registered[d], db[d])
          /\ aFunc' = KeptDefinitions(registered[d], db[d])
      BY DEF Close
    <2>3. magic' \in [Conns -> {"free", "open", "zombie"}]
      BY <1>0, <1>1, <2>1, <2>2, ReapedType
    <2>4. \A e \in Conns : magic'[e] = "open" <=> e # db[d] /\ magic[e] = "open"
      BY <1>0, <2>2 DEF TypeOK, Reaped
    <2>5. aFunc' \in [Conns -> [Keys -> Slots \cup {NATIVE, NULL}]]
      BY <1>0, <1>1, <2>1, <2>2, ReapedType
    <2> QED
      BY <2>3, <2>4, <2>5
  <1>2. db' \in [Databases -> Conns \cup {NULL}]
        /\ \A e \in Databases : db'[e] = IF e = d THEN NULL ELSE db[e]
    BY <1>0 DEF TypeOK, Close
  <1>3. /\ SlotsOwned'
        /\ table' \in [Slots -> Funcs \cup {NULL}]
        /\ functions' \in [Databases -> [Names -> Slots \cup {NULL}]]
    BY <1>0, <1>2, DropFunctionsOwned DEF Close
  <1>4. TypeOK'
    <2>2. /\ vconn' \in [Stmts -> Conns \cup {NULL}]
          /\ active' \in [Stmts -> BOOLEAN]
          /\ sdb' \in [Stmts -> Databases \cup {NULL}]
          /\ registered' \in [Databases -> SUBSET Stmts]
      BY <1>0, <1>1, FinalizeType DEF Close
    <2>3. file' \in [Databases -> BOOLEAN]
      BY <1>0 DEF TypeOK, Close
    <2> QED
      BY <1>2, <1>3, <1>r, <2>2, <2>3 DEF TypeOK
  <1>5. ConnectionsOwned'
    <2>1. \A c \in Conns : magic'[c] = "open" <=> \E e \in Databases : db'[e] = c
      BY <1>0, <1>1, <1>2, <1>r DEF ConnectionsOwned
    <2>2. \A e, g \in Databases : db'[e] = db'[g] /\ db'[e] # NULL => e = g
      BY <1>0, <1>2 DEF ConnectionsOwned
    <2> QED
      BY <2>1, <2>2 DEF ConnectionsOwned
  <1> QED
    BY <1>3, <1>4, <1>5 DEF Inv

LEMMA ExportInv ==
    ASSUME Inv, NEW d \in Databases, Export(d)
    PROVE  Inv'
  <1> USE UserFunctionsAssumption
  <1> DEFINE closed == Reaped(registered[d], db[d])
             kept == KeptDefinitions(registered[d], db[d])
  <1>0. TypeOK /\ SlotsOwned /\ ConnectionsOwned
    BY DEF Inv
  <1>1. registered[d] \in SUBSET Stmts /\ db[d] \in Conns \cup {NULL}
    BY <1>0 DEF TypeOK
  <1>2. PICK c \in Conns :
           /\ closed[c] = "free"
           /\ magic' = [closed EXCEPT ![c] = "open"]
           /\ aFunc' = [kept EXCEPT ![c] = Defined(Builtins)]
           /\ db' = [db EXCEPT ![d] = c]
    BY DEF Export
  <1>3. db' \in [Databases -> Conns \cup {NULL}]
        /\ \A e \in Databases : db'[e] = IF e = d THEN c ELSE db[e]
    BY <1>0, <1>2 DEF TypeOK
  <1>4. /\ SlotsOwned'
        /\ table' \in [Slots -> Funcs \cup {NULL}]
        /\ functions' \in [Databases -> [Names -> Slots \cup {NULL}]]
    BY <1>0, <1>3, DropFunctionsOwned DEF Export
  <1>5. /\ closed \in [Conns -> {"free", "open", "zombie"}]
        /\ kept \in [Conns -> [Keys -> Slots \cup {NATIVE, NULL}]]
        /\ \A e \in Conns : closed[e] = "open" <=> e # db[d] /\ magic[e] = "open"
    <2>1. closed \in [Conns -> {"free", "open", "zombie"}]
      BY <1>0, <1>1, ReapedType
    <2>2. kept \in [Conns -> [Keys -> Slots \cup {NATIVE, NULL}]]
      BY <1>0, <1>1, ReapedType
    <2>3. \A e \in Conns : closed[e] = "open" <=> e # db[d] /\ magic[e] = "open"
      BY <1>0 DEF TypeOK, Reaped
    <2> QED
      BY <2>1, <2>2, <2>3
  <1> HIDE DEF closed, kept
  <1>6. TypeOK'
    <2>1. Defined(Builtins) \in [Keys -> Slots \cup {NATIVE, NULL}]
      BY DEF Defined
    <2>2. /\ magic' \in [Conns -> {"free", "open", "zombie"}]
          /\ aFunc' \in [Conns -> [Keys -> Slots \cup {NATIVE, NULL}]]
      BY <1>2, <1>5, <2>1
    <2>3. /\ vconn' \in [Stmts -> Conns \cup {NULL}]
          /\ active' \in [Stmts -> BOOLEAN]
          /\ sdb' \in [Stmts -> Databases \cup {NULL}]
          /\ registered' \in [Databases -> SUBSET Stmts]
      BY <1>0, <1>1, FinalizeType DEF Export
    <2>4. file' \in [Databases -> BOOLEAN]
      BY <1>0 DEF TypeOK, Export
    <2> QED
      BY <1>3, <1>4, <2>2, <2>3, <2>4 DEF TypeOK
  <1>7. ConnectionsOwned'
    <2>1. \A e \in Conns : magic'[e] = "open" <=> e = c \/ (e # db[d] /\ magic[e] = "open")
      BY <1>2, <1>5
    <2>2. ~(c # db[d] /\ magic[c] = "open")
      BY <1>2, <1>5
    <2>3. \A e \in Databases \ {d} : db[e] # NULL => db[e] # db[d] /\ magic[db[e]] = "open"
      BY <1>0 DEF ConnectionsOwned, TypeOK
    <2>4. \A e \in Databases \ {d} : db[e] # c
      BY <2>2, <2>3
    <2> QED
      BY <1>0, <1>3, <2>1, <2>3, <2>4 DEF ConnectionsOwned
  <1> QED
    BY <1>4, <1>6, <1>7 DEF Inv

LEMMA StatementInv ==
    ASSUME Inv, NEW v \in Stmts,
           \/ Step(v) \/ Free(v)
           \/ \E d \in Databases, prepared \in BOOLEAN : Prepare(d, v, prepared)
    PROVE  Inv'
  <1> USE UserFunctionsAssumption
  <1>0. TypeOK /\ SlotsOwned /\ ConnectionsOwned
    BY DEF Inv
  <1>1. UNCHANGED <<db, file, functions, table>>
    BY DEF Step, Free, Prepare
  <1>2. SlotsOwned'
    BY <1>0, <1>1 DEF SlotsOwned
  <1>3. TypeOK' /\ ConnectionsOwned'
    <2>1. CASE Step(v)
      BY <1>0, <2>1 DEF Step, TypeOK, ConnectionsOwned
    <2>2. CASE \E d \in Databases, prepared \in BOOLEAN : Prepare(d, v, prepared)
      <3>1. PICK d \in Databases, prepared \in BOOLEAN : Prepare(d, v, prepared)
        BY <2>2
      <3>2. registered' \in [Databases -> SUBSET Stmts]
        <4>1. registered[d] \cup {v} \in SUBSET Stmts
          BY <1>0 DEF TypeOK
        <4>2. registered' = registered \/ registered' = [registered EXCEPT ![d] = @ \cup {v}]
          BY <3>1 DEF Prepare
        <4> QED
          BY <1>0, <4>1, <4>2 DEF TypeOK
      <3>3. vconn' \in [Stmts -> Conns \cup {NULL}]
        BY <1>0, <3>1 DEF Prepare, TypeOK
      <3>4. sdb' \in [Stmts -> Databases \cup {NULL}]
        BY <1>0, <3>1 DEF Prepare, TypeOK
      <3> QED
        BY <1>0, <3>1, <3>2, <3>3, <3>4 DEF Prepare, TypeOK, ConnectionsOwned
    <2>3. CASE Free(v)
      <3>1. /\ magic' \in [Conns -> {"free", "open", "zombie"}]
            /\ \A e \in Conns : magic'[e] = "open" <=> magic[e] = "open"
            /\ aFunc' \in [Conns -> [Keys -> Slots \cup {NATIVE, NULL}]]
        <4>1. {v} \in SUBSET Stmts /\ NULL \in Conns \cup {NULL}
          OBVIOUS
        <4>2. magic' = Reaped({v}, NULL) /\ aFunc' = KeptDefinitions({v}, NULL)
          BY <2>3 DEF Free
        <4>3. magic' \in [Conns -> {"free", "open", "zombie"}]
          BY <1>0, <4>1, <4>2, ReapedType
        <4>4. \A e \in Conns : magic'[e] = "open" <=> e # NULL /\ magic[e] = "open"
          BY <1>0, <4>2 DEF TypeOK, Reaped
        <4>5. aFunc' \in [Conns -> [Keys -> Slots \cup {NATIVE, NULL}]]
          BY <1>0, <4>1, <4>2, ReapedType
        <4>6. \A e \in Conns : magic'[e] = "open" <=> magic[e] = "open"
          BY <4>4
        <4> QED
          BY <4>3, <4>5, <4>6
      <3>2. /\ vconn' \in [Stmts -> Conns \cup {NULL}]
            /\ active' \in [Stmts -> BOOLEAN]
            /\ sdb' \in [Stmts -> Databases \cup {NULL}]
            /\ registered' \in [Databases -> SUBSET Stmts]
        BY <1>0, <2>3, FinalizeType DEF Free
      <3> QED
        BY <1>0, <1>1, <3>1, <3>2 DEF TypeOK, ConnectionsOwned
    <2> QED
      BY <2>1, <2>2, <2>3
  <1> QED
    BY <1>2, <1>3 DEF Inv

LEMMA NextInv == Inv /\ [Next]_vars => Inv'
  <1> SUFFICES ASSUME Inv, [Next]_vars PROVE Inv'
    OBVIOUS
  <1>1. CASE UNCHANGED vars
    BY <1>1 DEF vars, sqlvars, Inv, TypeOK, SlotsOwned, ConnectionsOwned
  <1>2. CASE Next
    BY <1>2, NewInv, CreateFunctionInv, CloseInv, ExportInv, StatementInv DEF Next
  <1> QED
    BY <1>1, <1>2

LEMMA Invariance == Spec => []Inv
  BY InitInv, NextInv, PTL DEF Spec

(* The state of databases, connections and the table keeps its types. *)
THEOREM FunctionTypes == Spec => []TypeOK
  <1>1. Inv => TypeOK
    BY DEF Inv
  <1> QED
    BY <1>1, Invariance, PTL

(* create_function, close and export neither leak a slot of the table nor  *)
(* remove one that is not theirs.                                          *)
THEOREM SlotsAreOwned == Spec => []SlotsOwned
  <1>1. Inv => SlotsOwned
    BY DEF Inv
  <1> QED
    BY <1>1, Invariance, PTL

-----------------------------------------------------------------------------
(* Registered statements. *)

(* What is registered with a database was made by it and is on its open    *)
(* connection.                                                             *)
Registry ==
    \A d \in Databases : \A v \in registered[d] :
        sdb[v] = d /\ vconn[v] = db[d] /\ db[d] # NULL

LEMMA RegistryIsOwn == Inv /\ Registry => RegistryOwn
  BY DEF Inv, TypeOK, ConnectionsOwned, Registry, RegistryOwn

(* What finalizing a set of statements leaves of the registries. *)
LEMMA FinalizedRegistry ==
    ASSUME TypeOK, Registry, NEW gone \in SUBSET Stmts, Finalize(gone), NEW d \in Databases,
           NEW v \in registered'[d]
    PROVE  /\ v \in registered[d] /\ v \in Stmts /\ v \notin gone
           /\ sdb'[v] = d /\ vconn'[v] = vconn[v]
  <1>1. v \in registered[d] /\ ~(v \in gone /\ sdb[v] = d) /\ v \in Stmts
    BY DEF Finalize, TypeOK
  <1>2. v \notin gone
    BY <1>1 DEF Registry
  <1> QED
    BY <1>1, <1>2 DEF Finalize, Registry

LEMMA RegistryStep ==
    ASSUME Inv, Registry, [Next]_vars
    PROVE  Registry'
  <1> USE UserFunctionsAssumption
  <1>0. TypeOK
    BY DEF Inv
  <1>1. ASSUME NEW d \in Databases, New(d) PROVE Registry'
    <2>1. \A e \in Databases : registered'[e] = IF e = d THEN {} ELSE registered[e]
      BY <1>0, <1>1 DEF New, TypeOK
    <2>2. \A e \in Databases : e # d => db'[e] = db[e]
      BY <1>0, <1>1 DEF New, TypeOK
    <2>3. UNCHANGED <<vconn, sdb>>
      BY <1>1 DEF New
    <2> QED
      BY <2>1, <2>2, <2>3 DEF Registry
  <1>2. ASSUME NEW d \in Databases, NEW v \in Stmts, NEW prepared \in BOOLEAN,
               Prepare(d, v, prepared)
        PROVE  Registry'
    <2>1. \A e \in Databases : v \notin registered[e]
      BY <1>2 DEF Prepare, Registry
    <2>2. \A e \in Databases : \A u \in registered'[e] :
             u \in registered[e] \/ (u = v /\ e = d)
      BY <1>0, <1>2 DEF Prepare, TypeOK
    <2>3. \A u \in Stmts : /\ vconn'[u] = IF u = v THEN db[d] ELSE vconn[u]
                           /\ sdb'[u] = IF u = v THEN d ELSE sdb[u]
      BY <1>0, <1>2 DEF Prepare, TypeOK
    <2>4. db' = db /\ db[d] # NULL
      BY <1>2 DEF Prepare
    <2>5. \A e \in Databases : registered[e] \subseteq Stmts
      BY <1>0 DEF TypeOK
    <2> QED
      BY <2>1, <2>2, <2>3, <2>4, <2>5 DEF Registry
  <1>3. ASSUME NEW v \in Stmts, Free(v) PROVE Registry'
    <2>1. {v} \in SUBSET Stmts /\ Finalize({v}) /\ db' = db
      BY <1>3 DEF Free
    <2> QED
      BY <1>0, <2>1, FinalizedRegistry DEF Registry
  <1>4. ASSUME NEW d \in Databases, Finalize(registered[d]),
               \A e \in Databases : e # d => db'[e] = db[e]
        PROVE  Registry'
    <2>1. registered[d] \in SUBSET Stmts
      BY <1>0 DEF TypeOK
    <2>2. ASSUME NEW e \in Databases, NEW v \in registered'[e]
          PROVE  sdb'[v] = e /\ vconn'[v] = db'[e] /\ db'[e] # NULL
      <3>1. v \in registered[e] /\ v \notin registered[d] /\ sdb'[v] = e /\ vconn'[v] = vconn[v]
        BY <1>0, <1>4, <2>1, <2>2, FinalizedRegistry
      <3>2. e # d
        BY <3>1
      <3> QED
        BY <1>4, <3>1, <3>2 DEF Registry
    <2> QED
      BY <2>2 DEF Registry
  <1>5. ASSUME NEW d \in Databases, NEW unlink \in BOOLEAN, Close(d, unlink) PROVE Registry'
    <2>1. \A e \in Databases : e # d => db'[e] = db[e]
      BY <1>0, <1>5 DEF Close, TypeOK
    <2> QED
      BY <1>4, <1>5, <2>1 DEF Close
  <1>6. ASSUME NEW d \in Databases, Export(d) PROVE Registry'
    <2>1. \A e \in Databases : e # d => db'[e] = db[e]
      BY <1>0, <1>6 DEF Export, TypeOK
    <2> QED
      BY <1>4, <1>6, <2>1 DEF Export
  <1>7. ASSUME UNCHANGED <<db, vconn, sdb, registered>> PROVE Registry'
    BY <1>7 DEF Registry
  <1>8. ASSUME NEW d \in Databases, NEW x \in Names, NEW f \in Funcs, CreateFunction(d, x, f)
        PROVE  Registry'
    BY <1>7, <1>8 DEF CreateFunction, sqlvars
  <1>9. ASSUME NEW v \in Stmts, Step(v) PROVE Registry'
    BY <1>7, <1>9 DEF Step
  <1>10. CASE UNCHANGED vars
    BY <1>7, <1>10 DEF vars, sqlvars
  <1> QED
    BY <1>1, <1>2, <1>3, <1>5, <1>6, <1>8, <1>9, <1>10 DEF Next

(* What close and export find in Database.statements is alive and on the   *)
(* connection of that database: they finalize no statement of another      *)
(* database and leave none on a connection whose functions they removed.   *)
THEOREM RegistriesAreOwn == Spec => []RegistryOwn
  <1>1. Init => Registry
    BY DEF Init, Registry
  <1>2. Inv /\ Registry /\ [Next]_vars => Registry'
    BY RegistryStep
  <1>3. Inv /\ Registry => RegistryOwn
    BY RegistryIsOwn
  <1> QED
    BY <1>1, <1>2, <1>3, Invariance, PTL DEF Spec

-----------------------------------------------------------------------------
(* What disturbs a function. *)

(* A function is served by the same name as before when nothing that the   *)
(* call goes through has changed.                                          *)
LEMMA StillServed ==
    ASSUME NEW d \in Databases, NEW k \in Keys, NEW x \in Names,
           ServedBy(d, k, x),
           db'[d] = db[d],
           functions'[d][x] = functions[d][x],
           aFunc'[db[d]][k] = aFunc[db[d]][k],
           table'[functions[d][x]] = table[functions[d][x]]
    PROVE  Served(d, k)'
  BY DEF ServedBy, Served

LEMMA NewDisturbsNothing ==
    ASSUME Inv, NEW d \in Databases, NEW k \in Keys, NEW x \in Names,
           ServedBy(d, k, x), NEW e \in Databases, New(e)
    PROVE  Served(d, k)'
  <1>0. TypeOK /\ SlotsOwned /\ ConnectionsOwned
    BY DEF Inv
  <1>1. d # e /\ db[d] \in Conns /\ magic[db[d]] = "open"
    BY <1>0 DEF ServedBy, New, TypeOK, ConnectionsOwned
  <1>2. PICK c \in Conns :
           /\ magic[c] = "free"
           /\ db' = [db EXCEPT ![e] = c]
           /\ aFunc' = [aFunc EXCEPT ![c] = Defined(Builtins \cup Extensions)]
    BY DEF New
  <1>3. db'[d] = db[d] /\ aFunc'[db[d]] = aFunc[db[d]]
    BY <1>0, <1>1, <1>2 DEF TypeOK
  <1>4. functions'[d] = functions[d] /\ table' = table
    BY <1>0, <1>1 DEF New, TypeOK
  <1> QED
    BY <1>3, <1>4, StillServed

LEMMA CreateFunctionDisturbs ==
    ASSUME Inv, NEW d \in Databases, NEW k \in Keys, NEW x \in Names,
           ServedBy(d, k, x),
           NEW e \in Databases, NEW y \in Names, NEW f \in Funcs,
           CreateFunction(e, y, f),
           ~(e = d /\ y = x /\ (Arity[f] # k[2] \/ Active(db[d])))
    PROVE  Served(d, k)'
  <1> DEFINE c == db[e]
             key == <<Fold[y], Arity[f]>>
             kept == Removed({functions[e][y]})
  <1> USE UserFunctionsAssumption
  <1>0. TypeOK /\ SlotsOwned /\ ConnectionsOwned
    BY DEF Inv
  <1>1. PICK s \in Slots :
           /\ kept[s] = NULL
           /\ table' = [kept EXCEPT ![s] = f]
           /\ functions' = [functions EXCEPT ![e][y] = s]
           /\ aFunc' = IF Refused(c, key) THEN aFunc ELSE [aFunc EXCEPT ![c][key] = s]
    BY DEF CreateFunction
  <1>2. /\ c \in Conns /\ db[d] \in Conns /\ key \in Keys
        /\ UNCHANGED db
    BY <1>0 DEF TypeOK, CreateFunction, Keys, ServedBy
  <1>3. kept \in [Slots -> Funcs \cup {NULL}]
    BY <1>0 DEF TypeOK, Removed
  <1>4. \A t \in Slots : table'[t] = IF t = s THEN f
                                     ELSE IF t = functions[e][y] THEN NULL ELSE table[t]
    BY <1>1, <1>3 DEF Removed
  <1>5. functions'[e][y] = s /\ (~(e = d /\ y = x) => functions'[d][x] = functions[d][x])
    BY <1>0, <1>1 DEF TypeOK
  <1>6. functions[d][x] \in Slots /\ table[functions[d][x]] # NULL
    BY <1>0 DEF ServedBy, TypeOK, SlotsOwned
  <1>7. ASSUME e = d, k = key, ~Refused(c, key)
        PROVE  Served(d, k)'
    <2>1. aFunc'[db[d]][k] = s
      BY <1>0, <1>1, <1>2, <1>7 DEF TypeOK
    <2>2. table'[s] = f
      BY <1>4
    <2>3. ServedBy(d, k, y)'
      BY <1>1, <1>2, <1>5, <1>7, <2>1, <2>2 DEF ServedBy
    <2> QED
      BY <2>3 DEF Served
  <1>8. CASE e = d /\ y = x
    <2>1. k = key
      BY <1>8 DEF ServedBy
    <2>2. ~Refused(c, key)
      BY <1>8 DEF Refused
    <2> QED
      BY <1>7, <1>8, <2>1, <2>2
  <1>9. CASE ~(e = d /\ y = x)
    <2>1. functions[d][x] # functions[e][y]
      BY <1>0, <1>6, <1>9 DEF SlotsOwned
    <2>2. functions[d][x] # s
      BY <1>1, <1>3, <1>6, <2>1 DEF Removed
    <2>3. table'[functions[d][x]] = table[functions[d][x]]
      BY <1>4, <1>6, <2>1, <2>2
    <2>4. CASE e = d /\ k = key /\ ~Refused(c, key)
      BY <1>7, <2>4
    <2>5. CASE ~(e = d /\ k = key /\ ~Refused(c, key))
      <3>1. e # d => c # db[d]
        BY <1>0, <1>2 DEF ConnectionsOwned
      <3>2. aFunc'[db[d]][k] = aFunc[db[d]][k]
        BY <1>0, <1>1, <1>2, <2>5, <3>1 DEF TypeOK
      <3> QED
        BY <1>2, <1>5, <1>9, <2>3, <3>2, StillServed
    <2> QED
      BY <2>4, <2>5
  <1> QED
    BY <1>8, <1>9

LEMMA OtherClosesDisturbNothing ==
    ASSUME Inv, NEW d \in Databases, NEW k \in Keys, NEW x \in Names,
           ServedBy(d, k, x), NEW e \in Databases, e # d,
           Export(e) \/ \E unlink \in BOOLEAN : Close(e, unlink)
    PROVE  Served(d, k)'
  <1> USE UserFunctionsAssumption
  <1>0. TypeOK /\ SlotsOwned /\ ConnectionsOwned
    BY DEF Inv
  <1>1. db[d] \in Conns /\ magic[db[d]] = "open" /\ db[d] # db[e]
    BY <1>0 DEF ServedBy, TypeOK, ConnectionsOwned
  <1>2. \A g \in Databases : g # e => db'[g] = db[g]
    BY <1>0 DEF Export, Close, TypeOK
  <1>3. DropFunctions(e)
    BY DEF Export, Close
  <1>4. /\ functions'[d][x] = functions[d][x]
        /\ table'[functions[d][x]] = table[functions[d][x]]
    BY <1>0, <1>2, <1>3, DropFunctionsOwned DEF ServedBy
  <1>5. /\ Reaped(registered[e], db[e])[db[d]] = "open"
        /\ KeptDefinitions(registered[e], db[e])[db[d]] = aFunc[db[d]]
    BY <1>1 DEF Reaped, KeptDefinitions
  <1>6. aFunc'[db[d]] = aFunc[db[d]]
    <2>1. CASE \E unlink \in BOOLEAN : Close(e, unlink)
      BY <1>5, <2>1 DEF Close
    <2>2. CASE Export(e)
      <3>1. PICK c \in Conns :
               /\ Reaped(registered[e], db[e])[c] = "free"
               /\ aFunc' = [KeptDefinitions(registered[e], db[e])
                               EXCEPT ![c] = Defined(Builtins)]
        BY <2>2 DEF Export
      <3>2. c # db[d]
        BY <1>5, <3>1
      <3>3. DOMAIN KeptDefinitions(registered[e], db[e]) = Conns
        BY DEF KeptDefinitions
      <3> QED
        BY <1>1, <1>5, <3>1, <3>2, <3>3
    <2> QED
      BY <2>1, <2>2
  <1> QED
    BY <1>2, <1>4, <1>6, StillServed

LEMMA StatementsDisturbNothing ==
    ASSUME Inv, NEW d \in Databases, NEW k \in Keys, NEW x \in Names,
           ServedBy(d, k, x), NEW v \in Stmts,
           \/ Step(v) \/ Free(v)
           \/ \E e \in Databases, prepared \in BOOLEAN : Prepare(e, v, prepared)
    PROVE  Served(d, k)'
  <1> USE UserFunctionsAssumption
  <1>0. TypeOK /\ ConnectionsOwned
    BY DEF Inv
  <1>1. UNCHANGED <<db, functions, table>>
    BY DEF Step, Free, Prepare
  <1>2. db[d] \in Conns /\ magic[db[d]] = "open"
    BY <1>0 DEF ServedBy, TypeOK, ConnectionsOwned
  <1>3. aFunc'[db[d]] = aFunc[db[d]]
    <2>1. CASE Free(v)
      BY <1>2, <2>1 DEF Free, KeptDefinitions, Reaped
    <2>2. CASE ~Free(v)
      BY <2>2 DEF Step, Prepare
    <2> QED
      BY <2>1, <2>2
  <1> QED
    BY <1>1, <1>3, StillServed

(* Only close and export of its own database, and the create_function that *)
(* re-registers its own name with another arity or under an active         *)
(* statement, take the JavaScript function from a SQL function.            *)
THEOREM UndisturbedFunctions == Spec => FunctionsUndisturbed
  <1>1. ASSUME Inv, Next, NEW d \in Databases, NEW k \in Keys,
               Served(d, k), ~Served(d, k)'
        PROVE  DisturbedBy(d, k)
    <2>1. PICK x \in Names : ServedBy(d, k, x)
      BY <1>1 DEF Served
    <2>2. CASE \E e \in Databases : New(e)
      BY <1>1, <2>1, <2>2, NewDisturbsNothing
    <2>3. CASE \E e \in Databases, y \in Names, f \in Funcs : CreateFunction(e, y, f)
      <3>1. PICK e \in Databases, y \in Names, f \in Funcs : CreateFunction(e, y, f)
        BY <2>3
      <3>2. e = d /\ y = x /\ (Arity[f] # k[2] \/ Active(db[d]))
        BY <1>1, <2>1, <3>1, CreateFunctionDisturbs
      <3> QED
        BY <2>1, <3>1, <3>2 DEF DisturbedBy
    <2>4. CASE \E e \in Databases : Export(e) \/ \E unlink \in BOOLEAN : Close(e, unlink)
      BY <1>1, <2>1, <2>4, OtherClosesDisturbNothing DEF DisturbedBy
    <2>5. CASE \E v \in Stmts :
                 \/ Step(v) \/ Free(v)
                 \/ \E e \in Databases, prepared \in BOOLEAN : Prepare(e, v, prepared)
      BY <1>1, <2>1, <2>5, StatementsDisturbNothing
    <2> QED
      BY <1>1, <2>2, <2>3, <2>4, <2>5 DEF Next
  <1>2. Inv /\ [Next]_vars =>
          [\A d \in Databases, k \in Keys :
              Served(d, k) /\ ~Served(d, k)' => DisturbedBy(d, k)]_vars
    BY <1>1
  <1> QED
    BY <1>2, Invariance, PTL DEF Spec, FunctionsUndisturbed
=============================================================================
