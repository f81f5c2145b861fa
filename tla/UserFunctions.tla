--------------------------- MODULE UserFunctions ---------------------------
(***************************************************************************)
(* SQL functions written in JavaScript: Database.create_function, the      *)
(* WebAssembly function table it shares among all databases of a program,  *)
(* and the definitions (FuncDef) SQLite keeps for each connection.         *)
(*                                                                         *)
(* A JavaScript name is a key of Database.functions as it is written; for  *)
(* SQLite a function is its name in lower case and its number of           *)
(* arguments.  The two sides agree on a function only through its slot in  *)
(* the table.  A slot that was removed is given out again, to any database.*)
(*                                                                         *)
(* A statement counts as active while it is suspended at a row and while   *)
(* it runs, so what a function does that calls create_function itself is   *)
(* what create_function does while a statement is active.                  *)
(***************************************************************************)
EXTENDS Naturals

CONSTANTS Databases,   \* Database objects
          Conns,       \* addresses of SQLite connections
          Stmts,       \* addresses of SQLite statements
          Slots,       \* places of the WebAssembly function table
          Names,       \* names as create_function is called with them
          Fold,        \* name -> the name in lower case
          Funcs,       \* JavaScript functions
          Arity,       \* JavaScript function -> its length
          Builtins,    \* functions SQLite has: <<name, number of arguments>>
          Extensions,  \* functions RegisterExtensionFunctions defines
          NATIVE,      \* a function written in C
          NULL

Keys == {<<Fold[x], Arity[f]>> : x \in Names, f \in Funcs}

ASSUME UserFunctionsAssumption ==
    /\ Arity \in [Funcs -> Nat]
    /\ Builtins \cup Extensions \subseteq Keys
    /\ NULL \notin Slots \cup Funcs \cup Conns \cup Databases \cup {NATIVE}
    /\ NATIVE \notin Slots

VARIABLES
    db,         \* Database -> Database.db, or NULL when closed
    file,       \* Database -> its file exists
    functions,  \* Database -> Database.functions: name -> slot
    table,      \* slot -> the JavaScript function there, or NULL
    magic,      \* connection -> "free", "open" or "zombie"
    aFunc,      \* connection -> definition of each function: slot or NATIVE
    vconn,      \* SQLite statement -> its connection
    active,     \* SQLite statement -> it counts in sqlite3.nVdbeActive
    sdb,        \* SQLite statement -> Statement.db of its object, or NULL
    registered  \* Database -> the SQLite statements in Database.statements

sqlvars == <<magic, vconn, active, sdb, registered>>
vars == <<db, file, functions, table, aFunc, sqlvars>>

-----------------------------------------------------------------------------

TypeOK ==
    /\ db \in [Databases -> Conns \cup {NULL}]
    /\ file \in [Databases -> BOOLEAN]
    /\ functions \in [Databases -> [Names -> Slots \cup {NULL}]]
    /\ table \in [Slots -> Funcs \cup {NULL}]
    /\ magic \in [Conns -> {"free", "open", "zombie"}]
    /\ aFunc \in [Conns -> [Keys -> Slots \cup {NATIVE, NULL}]]
    /\ vconn \in [Stmts -> Conns \cup {NULL}]
    /\ active \in [Stmts -> BOOLEAN]
    /\ sdb \in [Stmts -> Databases \cup {NULL}]
    /\ registered \in [Databases -> SUBSET Stmts]

NoFunctions == [x \in Names |-> NULL]

(* The definitions of a connection that has just been opened. *)
DefinedByName(native) == [x \in Names |-> IF x \in native THEN NATIVE ELSE NULL]
Defined(native) == [k \in Keys |-> IF k \in native THEN NATIVE ELSE NULL]

Init ==
    /\ db = [d \in Databases |-> NULL]
    /\ file = [d \in Databases |-> FALSE]
    /\ functions = [d \in Databases |-> NoFunctions]
    /\ table = [s \in Slots |-> NULL]
    /\ magic = [c \in Conns |-> "free"]
    /\ aFunc = [c \in Conns |-> Defined({})]
    /\ vconn = [v \in Stmts |-> NULL]
    /\ active = [v \in Stmts |-> FALSE]
    /\ sdb = [v \in Stmts |-> NULL]
    /\ registered = [d \in Databases |-> {}]

-----------------------------------------------------------------------------

(* The Database constructor: a connection with the functions of the        *)
(* extension, no function and no statement.                                *)
New(d) ==
    /\ db[d] = NULL /\ ~file[d]
    /\ \E c \in Conns :
          /\ magic[c] = "free"
          /\ db' = [db EXCEPT ![d] = c]
          /\ magic' = [magic EXCEPT ![c] = "open"]
          /\ aFunc' = [aFunc EXCEPT ![c] = Defined(Builtins \cup Extensions)]
    /\ file' = [file EXCEPT ![d] = TRUE]
    /\ functions' = [functions EXCEPT ![d] = NoFunctions]
    /\ registered' = [registered EXCEPT ![d] = {}]
    /\ UNCHANGED <<table, vconn, active, sdb>>

(* A statement of connection c is running or suspended at a row. *)
Active(c) == \E v \in Stmts : vconn[v] = c /\ active[v]

(* sqlite3CreateFunc refuses to replace a function while a statement of    *)
(* the connection is active.                                               *)
RefusedWhenDefined(c, k) == aFunc[c][k] # NULL
Refused(c, k) == aFunc[c][k] # NULL /\ Active(c)

(* removeFunction for each slot in gone *)
KeptInTable(gone) == table
Removed(gone) == [s \in Slots |-> IF s \in gone THEN NULL ELSE table[s]]

(* Database.create_function: the function the name had before is removed   *)
(* from the table first, the new one is added, and then SQLite is asked.   *)
(* When it refuses, create_function throws and has changed the table and   *)
(* Database.functions all the same.                                        *)
CreateFunction(d, x, f) ==
    LET c == db[d]
        k == <<Fold[x], Arity[f]>>
        kept == Removed({functions[d][x]})
    IN /\ c # NULL
       /\ \E s \in Slots :
            /\ kept[s] = NULL
            /\ table' = [kept EXCEPT ![s] = f]
            /\ functions' = [functions EXCEPT ![d][x] = s]
            /\ aFunc' = IF Refused(c, k) THEN aFunc ELSE [aFunc EXCEPT ![c][k] = s]
       /\ UNCHANGED <<db, file, sqlvars>>

-----------------------------------------------------------------------------
(* Statements. *)

(* Database.prepare, or createStatement, which registers nothing *)
Prepare(d, v, prepared) ==
    /\ db[d] # NULL
    /\ vconn[v] = NULL
    /\ vconn' = [vconn EXCEPT ![v] = db[d]]
    /\ sdb' = [sdb EXCEPT ![v] = d]
    /\ registered' = IF prepared THEN [registered EXCEPT ![d] = @ \cup {v}]
                     ELSE registered
    /\ UNCHANGED <<db, file, functions, table, aFunc, magic, active>>

(* Statement.step and Statement.reset leave the statement at a row or not. *)
Step(v) ==
    /\ vconn[v] # NULL
    /\ \E row \in BOOLEAN : active' = [active EXCEPT ![v] = row]
    /\ UNCHANGED <<db, file, functions, table, aFunc, magic, vconn, sdb, registered>>

(* The connections after the statements in gone are finalized and c,       *)
(* unless it is NULL, is closed.  A closed connection is a zombie and is   *)
(* freed with its last statement.                                          *)
Reaped(gone, c) ==
    [e \in Conns |->
        IF e # c /\ magic[e] # "zombie" THEN magic[e]
        ELSE IF \E v \in Stmts \ gone : vconn[v] = e THEN "zombie"
        ELSE "free"]

(* The definitions that outlive that. *)
KeptDefinitions(gone, c) ==
    [e \in Conns |-> IF Reaped(gone, c)[e] = "free" THEN Defined({}) ELSE aFunc[e]]

(* Mutant: free clears its handle before it deletes the entry, and so      *)
(* deletes the entry of another key.                                       *)
FinalizeKeepsEntry(gone) ==
    /\ vconn' = [v \in Stmts |-> IF v \in gone THEN NULL ELSE vconn[v]]
    /\ active' = [v \in Stmts |-> active[v] /\ v \notin gone]
    /\ sdb' = [v \in Stmts |-> IF v \in gone THEN NULL ELSE sdb[v]]
    /\ UNCHANGED registered

(* Statement.free of each statement in gone: the entry is deleted from the *)
(* database the object was made by, whichever that is.                     *)
Finalize(gone) ==
    /\ vconn' = [v \in Stmts |-> IF v \in gone THEN NULL ELSE vconn[v]]
    /\ active' = [v \in Stmts |-> active[v] /\ v \notin gone]
    /\ sdb' = [v \in Stmts |-> IF v \in gone THEN NULL ELSE sdb[v]]
    /\ registered' = [d \in Databases |-> registered[d] \ {v \in gone : sdb[v] = d}]

(* Statement.free by the program *)
Free(v) ==
    /\ vconn[v] # NULL
    /\ Finalize({v})
    /\ magic' = Reaped({v}, NULL)
    /\ aFunc' = KeptDefinitions({v}, NULL)
    /\ UNCHANGED <<db, file, functions, table>>

-----------------------------------------------------------------------------
(* Closing and exporting a database. *)

(* The slots of the functions of d. *)
SlotsOf(d) == {functions[d][x] : x \in Names} \ {NULL}

(* What close and export begin with. *)
DropFunctions(d) ==
    /\ table' = Removed(SlotsOf(d))
    /\ functions' = [functions EXCEPT ![d] = NoFunctions]

(* Database.close *)
Close(d, unlink) ==
    /\ db[d] # NULL
    /\ Finalize(registered[d])
    /\ magic' = Reaped(registered[d], db[d])
    /\ aFunc' = KeptDefinitions(registered[d], db[d])
    /\ DropFunctions(d)
    /\ db' = [db EXCEPT ![d] = NULL]
    /\ file' = [file EXCEPT ![d] = ~unlink]

(* Database.export; the connection it opens has no extension functions. *)
Export(d) ==
    /\ file[d]
    /\ Finalize(registered[d])
    /\ LET closed == Reaped(registered[d], db[d])
           kept == KeptDefinitions(registered[d], db[d])
       IN \E c \in Conns :
            /\ closed[c] = "free"
            /\ magic' = [closed EXCEPT ![c] = "open"]
            /\ aFunc' = [kept EXCEPT ![c] = Defined(Builtins)]
            /\ db' = [db EXCEPT ![d] = c]
    /\ DropFunctions(d)
    /\ UNCHANGED file

-----------------------------------------------------------------------------

Next ==
    \/ \E d \in Databases :
          \/ New(d)
          \/ \E x \in Names, f \in Funcs : CreateFunction(d, x, f)
          \/ \E v \in Stmts, prepared \in BOOLEAN : Prepare(d, v, prepared)
          \/ \E unlink \in BOOLEAN : Close(d, unlink)
          \/ Export(d)
    \/ \E v \in Stmts : Step(v) \/ Free(v)

Spec == Init /\ [][Next]_vars

-----------------------------------------------------------------------------
(* Properties *)

(* The table and the databases agree: the slots in use are those the       *)
(* functions of the databases have, each of one name of one database, and  *)
(* a closed database has none.  No slot leaks, however often functions are *)
(* registered and databases closed, and none is removed twice.             *)
SlotsOwned ==
    /\ \A s \in Slots : table[s] # NULL =>
          \E d \in Databases, x \in Names : functions[d][x] = s
    /\ \A d, e \in Databases, x, y \in Names :
          functions[d][x] = functions[e][y] /\ functions[d][x] # NULL => d = e /\ x = y
    /\ \A d \in Databases, x \in Names : functions[d][x] # NULL =>
          table[functions[d][x]] # NULL /\ db[d] # NULL

(* An open connection belongs to one open database. *)
ConnectionsOwned ==
    /\ \A c \in Conns : magic[c] = "open" <=> \E d \in Databases : db[d] = c
    /\ \A d, e \in Databases : db[d] = db[e] /\ db[d] # NULL => d = e

Inv == TypeOK /\ SlotsOwned /\ ConnectionsOwned

(* A registered statement is alive and on the open connection of its own   *)
(* database.  So close and export finalize what their database prepared,   *)
(* no statement of another database and no address that was given away     *)
(* since, and none is left on a zombie, whose definitions lead to slots    *)
(* that were removed or that another function has been given since.        *)
RegistryOwn ==
    \A d \in Databases : \A v \in registered[d] :
        vconn[v] = db[d] /\ db[d] # NULL /\ magic[db[d]] = "open"

(* A call of function k on database d reaches a function of d that was     *)
(* registered under its name and has its number of arguments.              *)
ServedBy(d, k, x) ==
    /\ db[d] # NULL
    /\ functions[d][x] # NULL
    /\ aFunc[db[d]][k] = functions[d][x]
    /\ k = <<Fold[x], Arity[table[functions[d][x]]]>>

Served(d, k) == \E x \in Names : ServedBy(d, k, x)

(* A SQL function loses its JavaScript function only by close and export   *)
(* of its own database, and by a create_function of the name it was        *)
(* registered under, in the same database, that either has another number  *)
(* of arguments or comes while a statement is active.  Nothing another     *)
(* name, another spelling or another database does disturbs it, whatever   *)
(* slots they free and reuse.                                              *)
DisturbedBy(d, k) ==
    \/ Export(d)
    \/ \E unlink \in BOOLEAN : Close(d, unlink)
    \/ \E x \in Names, f \in Funcs :
          /\ ServedBy(d, k, x)
          /\ CreateFunction(d, x, f)
          /\ Arity[f] # k[2] \/ Active(db[d])

FunctionsUndisturbed ==
    [][\A d \in Databases, k \in Keys :
          Served(d, k) /\ ~Served(d, k)' => DisturbedBy(d, k)]_vars

(* What SQLite documents: several implementations with differing numbers   *)
(* of arguments may be registered under one name.  A create_function that  *)
(* is accepted would leave those with other numbers of arguments in place. *)
AritiesCoexist ==
    [][\A d \in Databases, x \in Names, f \in Funcs :
          CreateFunction(d, x, f) =>
             \A k \in Keys : Served(d, k) /\ k[2] # Arity[f] => Served(d, k)']_vars
=============================================================================
