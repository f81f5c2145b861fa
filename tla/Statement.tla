----------------------------- MODULE Statement -----------------------------
(***************************************************************************)
(* The prepared statements of one Database object: the JavaScript          *)
(* Statement objects of src/Statement.js, the registry and the connection  *)
(* of src/Database.js, and the part of SQLite they hold: the virtual       *)
(* machines (Vdbe) of a connection, their parameters, and the connection   *)
(* that lives on as a zombie until its last statement is finalized.        *)
(*                                                                         *)
(* Strings and blobs are bound with a null destructor (SQLITE_STATIC):     *)
(* SQLite keeps the pointer and the Statement object owns the memory.      *)
(* Addresses of freed connections, statements and memory blocks are given  *)
(* out again.                                                              *)
(*                                                                         *)
(* JavaScript runs each call to its end, so a call is one action.  The     *)
(* exception is Database.each, which calls back into the program for every *)
(* row: its frames are on a stack, and any call may be made between two    *)
(* rows.                                                                   *)
(***************************************************************************)
EXTENDS Binding, FiniteSets

CONSTANTS Objs,      \* Statement objects the program can have at one time
          Vdbes,     \* addresses of SQLite statements
          Conns,     \* addresses of SQLite connections
          Blocks,    \* addresses of memory blocks for strings and blobs
          Params,    \* the arguments bind is called with: sequences of entries
          Garbage,   \* the contents of a block nobody owns
          MaxDepth   \* bound: nested calls of each

ASSUME StatementAssumption ==
    /\ Params \subseteq Seq(Entry)
    /\ <<>> \in Params
    /\ NULL \notin Vdbes \cup Conns \cup Blocks \cup Objs
    /\ Blocks \cap Value = {}
    /\ Garbage \notin Value
    /\ MaxDepth \in Nat

VARIABLES
    magic,         \* connection -> "free", "open" or "zombie"
    db,            \* Database.db: the connection, or NULL when closed
    file,          \* the database file exists
    vdbe,          \* SQLite statement -> state of its virtual machine
    vconn,         \* SQLite statement -> its connection (Vdbe.db)
    expired,       \* SQLite statement -> its program must be compiled again
    aVar,          \* SQLite statement -> the cell of each parameter
    heap,          \* the allocated blocks
    data,          \* block -> contents
    stmt,          \* Statement object -> Statement.stmt
    origin,        \* Statement object -> how the program came to have it
    allocatedmem,  \* Statement object -> the blocks it must free
    statements,    \* Database.statements: SQLite statement -> Statement object
    stack          \* the active calls of each, innermost first

cvars == <<magic, vdbe, vconn, expired, aVar>>
jsvars == <<db, file, stmt, origin, statements, stack>>
memvars == <<heap, data, allocatedmem>>
vars == <<cvars, jsvars, memvars>>

-----------------------------------------------------------------------------

Cell == Blocks \cup Numbers \cup {NULL}

Unbound == [p \in 1..NVar |-> NULL]

(* "ready" is VDBE_MAGIC_RUN with pc < 0; "row" and "busy" have pc >= 0:   *)
(* suspended at a row, or stopped by SQLITE_BUSY; "halt" is                *)
(* VDBE_MAGIC_HALT, after SQLITE_DONE or an error.                         *)
VdbeState == {"free", "ready", "row", "busy", "halt"}

(* "lost": the object was made, but the exception that bind threw in       *)
(* Database.prepare is all the program got.                                *)
Origin == {"none", "prepare", "create", "each", "lost"}

Live(v) == vdbe[v] # "free"

RegisteredIdle == {o \in Objs : \E v \in Vdbes : statements[v] = o /\ vdbe[v] = "ready"}
Registered == {o \in Objs : \E v \in Vdbes : statements[v] = o}

(* The statements the program has a reference to: not the one of each. *)
Held(o) == origin[o] \in {"prepare", "create"}

TypeOK ==
    /\ magic \in [Conns -> {"free", "open", "zombie"}]
    /\ db \in Conns \cup {NULL}
    /\ file \in BOOLEAN
    /\ vdbe \in [Vdbes -> VdbeState]
    /\ vconn \in [Vdbes -> Conns \cup {NULL}]
    /\ expired \in [Vdbes -> BOOLEAN]
    /\ aVar \in [Vdbes -> [1..NVar -> Cell]]
    /\ heap \subseteq Blocks
    /\ data \in [Blocks -> Texts \cup {Garbage}]
    /\ stmt \in [Objs -> Vdbes \cup {NULL}]
    /\ origin \in [Objs -> Origin]
    /\ allocatedmem \in [Objs -> SUBSET Blocks]
    /\ statements \in [Vdbes -> Objs \cup {NULL}]
    /\ stack \in Seq(Objs)

Init ==
    /\ \E c \in Conns : /\ magic = [d \in Conns |-> IF d = c THEN "open" ELSE "free"]
                        /\ db = c
    /\ file = TRUE
    /\ vdbe = [v \in Vdbes |-> "free"]
    /\ vconn = [v \in Vdbes |-> NULL]
    /\ expired = [v \in Vdbes |-> FALSE]
    /\ aVar = [v \in Vdbes |-> Unbound]
    /\ heap = {}
    /\ data = [b \in Blocks |-> Garbage]
    /\ stmt = [o \in Objs |-> NULL]
    /\ origin = [o \in Objs |-> "none"]
    /\ allocatedmem = [o \in Objs |-> {}]
    /\ statements = [v \in Vdbes |-> NULL]
    /\ stack = <<>>

-----------------------------------------------------------------------------
(* Memory and SQLite calls shared by the operations. *)

(* bind(ps) after its reset(): the old blocks of o go back to the          *)
(* allocator, the parameters of v are cleared, the copies are made, and    *)
(* the parameters are set up to the entry that throws.                     *)
BindMemory(o, v, ps) ==
    LET kept == heap \ allocatedmem[o]
    IN \E blk \in [Copied(ps) -> Blocks \ kept] :
        LET copies == {blk[i] : i \in Copied(ps)}
            cell == [i \in DOMAIN ps |-> IF i \in Copied(ps) THEN blk[i] ELSE ps[i].val]
        IN /\ \A i, j \in Copied(ps) : blk[i] = blk[j] => i = j
           /\ heap' = kept \cup copies
           /\ allocatedmem' = [allocatedmem EXCEPT ![o] = copies]
           /\ data' = [b \in Blocks |->
                          IF b \in copies
                          THEN ps[CHOOSE i \in Copied(ps) : blk[i] = b].val
                          ELSE IF b \in kept THEN data[b] ELSE Garbage]
           /\ aVar' = [aVar EXCEPT ![v] = BoundRow(ps, cell)]

(* freemem() of the objects in os. *)
SharedFreeMem(os) ==
    /\ heap' = {}
    /\ data' = [b \in Blocks |-> Garbage]
    /\ allocatedmem' = [o \in Objs |-> {}]

PopOnly(os) ==
    /\ allocatedmem' = [o \in Objs |-> IF o \in os THEN {} ELSE allocatedmem[o]]
    /\ UNCHANGED <<heap, data>>

FreeMem(os) ==
    LET freed == UNION {allocatedmem[o] : o \in os}
    IN /\ heap' = heap \ freed
       /\ data' = [b \in Blocks |-> IF b \in freed THEN Garbage ELSE data[b]]
       /\ allocatedmem' = [o \in Objs |-> IF o \in os THEN {} ELSE allocatedmem[o]]

(* sqlite3_clear_bindings *)
KeepBindings(v) == aVar' = aVar
ClearBindings(v) == aVar' = [aVar EXCEPT ![v] = Unbound]

(* The SQLite statements of the objects in os. *)
HandlesOf(os) == {stmt[o] : o \in os} \ {NULL}

KeepRegistered(gone) == statements' = statements
Unregister(gone) == statements' = [v \in Vdbes |-> IF v \in gone THEN NULL ELSE statements[v]]

(* free() of the objects in os: their memory is freed, their SQLite        *)
(* statements are finalized and leave the registry.                        *)
FreeStatements(os) ==
    LET gone == HandlesOf(os)
    IN /\ FreeMem(os)
       /\ vdbe' = [v \in Vdbes |-> IF v \in gone THEN "free" ELSE vdbe[v]]
       /\ vconn' = [v \in Vdbes |-> IF v \in gone THEN NULL ELSE vconn[v]]
       /\ aVar' = [v \in Vdbes |-> IF v \in gone THEN Unbound ELSE aVar[v]]
       /\ Unregister(gone)
       /\ stmt' = [o \in Objs |-> IF o \in os THEN NULL ELSE stmt[o]]

(* The connections after the statements in gone are finalized and          *)
(* connection closing, unless it is NULL, is closed.  A closed connection  *)
(* is a zombie; it is freed when it has no statement left                  *)
(* (sqlite3LeaveMutexAndCloseZombie).                                      *)
ReapedAtOnce(closing, gone) == [c \in Conns |-> IF c = closing THEN "free" ELSE magic[c]]
Reaped(closing, gone) ==
    [c \in Conns |->
        IF c # closing /\ magic[c] # "zombie" THEN magic[c]
        ELSE IF \E v \in Vdbes \ gone : vconn[v] = c THEN "zombie"
        ELSE "free"]

(* What sqlite3_step leaves of a statement in state s, by whether its      *)
(* program is out of date.  A suspended program goes on as it is.  One     *)
(* that starts is compiled again if it is out of date; when that fails,    *)
(* because its SQL is wrong by now or its connection is not open, it stays *)
(* where it was, or where the out of date program halted.                  *)
Compiles(v, stale) == stale => magic[vconn[v]] = "open"

Outcome(v, s, stale) ==
    {r \in [to : VdbeState, stale : BOOLEAN] :
        \/ s \in {"row", "busy"} /\ r.to \in {"row", "busy", "halt"} /\ r.stale = stale
        \/ /\ s \in {"ready", "halt"}
           /\ \/ Compiles(v, stale) /\ r.to \in {"row", "busy", "halt"} /\ ~r.stale
              \/ Compiles(v, stale) /\ r.to = "halt" /\ r.stale
              \/ stale /\ r.to = "ready" /\ r.stale}

(* The other statements of connection c, when SQL that ran on it changed   *)
(* the schema (sqlite3ExpirePreparedStatements).                           *)
ExpireOthers(c, own, flag) ==
    expired' \in {[w \in Vdbes |-> IF w \in own THEN flag
                                   ELSE expired[w] \/ (ddl /\ vconn[w] = c)] :
                    ddl \in BOOLEAN}

-----------------------------------------------------------------------------
(* Making statements. *)

(* The addresses that createStatement gets for a new statement: it throws  *)
(* when the database is closed.                                            *)
Fresh(o, v) == db # NULL /\ origin[o] = "none" /\ vdbe[v] = "free"

(* createStatement and bind: object o for SQLite statement v in state s.   *)
(* Binding a parameter that a LIKE was optimized for expires the program.  *)
Make(o, v, ps, s) ==
    /\ Fresh(o, v)
    /\ BindMemory(o, v, ps)
    /\ vdbe' = [vdbe EXCEPT ![v] = s]
    /\ vconn' = [vconn EXCEPT ![v] = db]
    /\ stmt' = [stmt EXCEPT ![o] = v]
    /\ UNCHANGED <<magic, db, file>>

RegisterHandle(o, v) == statements' = [statements EXCEPT ![v] = v]
Register(o, v) == statements' = [statements EXCEPT ![v] = o]

(* Database.prepare *)
Prepare(o, v, ps) ==
    /\ ~Throws(ps)
    /\ Make(o, v, ps, "ready")
    /\ \E e \in BOOLEAN : expired' = [expired EXCEPT ![v] = e]
    /\ origin' = [origin EXCEPT ![o] = "prepare"]
    /\ Register(o, v)
    /\ UNCHANGED stack

(* Database.prepare, run or each whose bind throws: the statement is not   *)
(* registered and the caller gets no reference to it.                      *)
Lose(o, v, ps) ==
    /\ Throws(ps)
    /\ Make(o, v, ps, "ready")
    /\ \E e \in BOOLEAN : expired' = [expired EXCEPT ![v] = e]
    /\ origin' = [origin EXCEPT ![o] = "lost"]
    /\ UNCHANGED <<statements, stack>>

(* Database.createStatement *)
CreateStatement(o, v) ==
    /\ Make(o, v, <<>>, "ready")
    /\ expired' = [expired EXCEPT ![v] = FALSE]
    /\ origin' = [origin EXCEPT ![o] = "create"]
    /\ UNCHANGED <<statements, stack>>

(* Database.exec, query, run and an each without rows: the statements they *)
(* make are freed before they return.  What stays is what their SQL did to *)
(* the programs of the others.                                             *)
Execute ==
    /\ db # NULL
    /\ ExpireOthers(db, {}, FALSE)
    /\ UNCHANGED <<magic, vdbe, vconn, aVar, jsvars, memvars>>

-----------------------------------------------------------------------------
(* Operations of a statement the program holds.  On a closed one they      *)
(* throw before they change anything, except exec and free, which do       *)
(* nothing.                                                                *)

Open(o) == Held(o) /\ stmt[o] # NULL

(* Statement.bind; bind(null) is bind of no entry. *)
Bind(o, ps) ==
    LET v == stmt[o]
    IN /\ Open(o)
       /\ BindMemory(o, v, ps)
       /\ vdbe' = [vdbe EXCEPT ![v] = "ready"]
       /\ \E e \in BOOLEAN : expired' = [expired EXCEPT ![v] = expired[v] \/ e]
       /\ UNCHANGED <<magic, vconn, jsvars>>

(* Statement.step, on its own or as get() *)
Step(o) ==
    LET v == stmt[o]
    IN /\ Open(o)
       /\ \E r \in Outcome(v, vdbe[v], expired[v]) :
            /\ vdbe' = [vdbe EXCEPT ![v] = r.to]
            /\ ExpireOthers(vconn[v], {v}, r.stale)
       /\ UNCHANGED <<magic, vconn, aVar, jsvars, memvars>>

(* Statement.get(ps): bind, which may expire the program, and step *)
Get(o, ps) ==
    LET v == stmt[o]
    IN /\ ~Throws(ps)
       /\ Open(o)
       /\ BindMemory(o, v, ps)
       /\ \E r \in Outcome(v, "ready", expired[v]) \cup Outcome(v, "ready", TRUE) :
            /\ vdbe' = [vdbe EXCEPT ![v] = r.to]
            /\ ExpireOthers(vconn[v], {v}, r.stale)
       /\ UNCHANGED <<magic, vconn, jsvars>>

(* Statement.reset *)
Reset(o) ==
    LET v == stmt[o]
    IN /\ Open(o)
       /\ FreeMem({o})
       /\ ClearBindings(v)
       /\ vdbe' = [vdbe EXCEPT ![v] = "ready"]
       /\ \E e \in BOOLEAN : expired' = [expired EXCEPT ![v] = expired[v] \/ e]
       /\ UNCHANGED <<magic, vconn, jsvars>>

(* Statement.run, with new values or with those bound before, when its     *)
(* step does not throw.  When it does, run has done what Get or Step does, *)
(* and when bind throws, what Bind does: there is no reset then.           *)
Run(o) ==
    LET v == stmt[o]
    IN /\ Open(o)
       /\ FreeMem({o})
       /\ ClearBindings(v)
       /\ vdbe' = [vdbe EXCEPT ![v] = "ready"]
       /\ \/ Compiles(v, expired[v])
          \/ vdbe[v] \in {"row", "busy"}
       /\ \E e \in BOOLEAN :
            /\ ~Compiles(v, expired[v]) => e
            /\ ExpireOthers(vconn[v], {v}, e)
       /\ UNCHANGED <<magic, vconn, jsvars>>

(* Statement.free *)
Free(o) ==
    /\ Open(o)
    /\ FreeStatements({o})
    /\ magic' = Reaped(NULL, HandlesOf({o}))
    /\ expired' = [expired EXCEPT ![stmt[o]] = FALSE]
    /\ UNCHANGED <<db, file, origin, stack>>

(* Statement.exec: it frees the statement whatever happens. *)
Exec(o) ==
    /\ Open(o)
    /\ FreeStatements({o})
    /\ magic' = Reaped(NULL, HandlesOf({o}))
    /\ ExpireOthers(vconn[stmt[o]], {stmt[o]}, FALSE)
    /\ UNCHANGED <<db, file, origin, stack>>

(* The program forgets a closed object. *)
Drop(o) ==
    /\ Held(o) /\ stmt[o] = NULL
    /\ origin' = [origin EXCEPT ![o] = "none"]
    /\ UNCHANGED <<cvars, db, file, stmt, statements, stack, memvars>>

-----------------------------------------------------------------------------
(* Database.each.  Its callback runs between EachBegin or EachNext and the *)
(* next step of the same call: anything may happen there.                  *)

(* each up to its first callback *)
EachBegin(o, v, ps) ==
    /\ ~Throws(ps)
    /\ Len(stack) < MaxDepth
    /\ Make(o, v, ps, "row")
    /\ ExpireOthers(db, {v}, FALSE)
    /\ origin' = [origin EXCEPT ![o] = "each"]
    /\ Register(o, v)
    /\ stack' = <<o>> \o stack

(* The callback returns and there is another row. *)
EachNext ==
    /\ stack # <<>>
    /\ LET v == stmt[Head(stack)]
       IN /\ v # NULL
          /\ ExpireOthers(vconn[v], {v}, expired[v])
    /\ UNCHANGED <<magic, vdbe, vconn, aVar, jsvars, memvars>>

(* There is no other row, the step or the callback throws, or the callback *)
(* closed or exported the database and step finds its statement closed.    *)
EachFinishNoFinally ==
    /\ stack # <<>>
    /\ stack' = Tail(stack)
    /\ UNCHANGED <<cvars, db, file, stmt, origin, statements, memvars>>

EachFinish ==
    /\ stack # <<>>
    /\ LET o == Head(stack)
       IN /\ FreeStatements({o})
          /\ magic' = Reaped(NULL, HandlesOf({o}))
          /\ IF stmt[o] = NULL
             THEN UNCHANGED expired
             ELSE ExpireOthers(vconn[stmt[o]], {stmt[o]}, FALSE)
          /\ origin' = [origin EXCEPT ![o] = "none"]
    /\ stack' = Tail(stack)
    /\ UNCHANGED <<db, file>>

-----------------------------------------------------------------------------
(* Closing the database and opening it again. *)

(* What close and export begin with: the registered statements are freed.  *)
FreeRegistered ==
    /\ FreeStatements(Registered)
    /\ expired' = [v \in Vdbes |-> expired[v] /\ v \notin HandlesOf(Registered)]
    /\ UNCHANGED <<origin, stack>>

(* Database.close; a second close does nothing. *)
Close(unlink) ==
    /\ db # NULL
    /\ FreeRegistered
    /\ magic' = Reaped(db, HandlesOf(Registered))
    /\ db' = NULL
    /\ file' = ~unlink

(* Database.export; it works on a closed database too, as long as its file *)
(* is there, and leaves it open.                                           *)
Export ==
    /\ file
    /\ FreeRegistered
    /\ LET closed == Reaped(db, HandlesOf(Registered))
       IN \E c \in Conns :
            /\ closed[c] = "free"
            /\ magic' = [closed EXCEPT ![c] = "open"]
            /\ db' = c
    /\ UNCHANGED file

-----------------------------------------------------------------------------

StatementCall(o) ==
    \/ \E ps \in Params : Bind(o, ps) \/ Get(o, ps)
    \/ Step(o)
    \/ Reset(o)
    \/ Run(o)
    \/ Free(o)
    \/ Exec(o)
    \/ Drop(o)

DatabaseCall ==
    \/ \E o \in Objs, v \in Vdbes :
          \/ CreateStatement(o, v)
          \/ \E ps \in Params : Prepare(o, v, ps) \/ Lose(o, v, ps) \/ EachBegin(o, v, ps)
    \/ Execute
    \/ EachNext
    \/ EachFinish
    \/ \E unlink \in BOOLEAN : Close(unlink)
    \/ Export

Next == DatabaseCall \/ \E o \in Objs : StatementCall(o)

Spec == Init /\ [][Next]_vars

-----------------------------------------------------------------------------
(* Properties *)

(* Every pointer that SQLite holds for a parameter points to a block that  *)
(* its own Statement object has allocated and not yet freed: no statement  *)
(* reads freed memory or the memory of another one, whatever the order of  *)
(* bind, reset, free, close and export.                                    *)
BindingsOwned ==
    \A v \in Vdbes, p \in 1..NVar :
        aVar[v][p] \in Blocks =>
            \E o \in Objs : /\ stmt[o] = v
                            /\ aVar[v][p] \in allocatedmem[o]
                            /\ aVar[v][p] \in heap

(* Every allocated block is in the list of exactly one object, and that    *)
(* object still has its statement: free() of each object frees each block  *)
(* once and nothing leaks from an object that is closed.                   *)
HeapAccounted ==
    /\ \A b \in heap : \E o \in Objs : b \in allocatedmem[o]
    /\ \A o \in Objs : allocatedmem[o] \subseteq heap
    /\ \A o \in Objs : stmt[o] = NULL => allocatedmem[o] = {}
    /\ \A o, q \in Objs : o # q => allocatedmem[o] \cap allocatedmem[q] = {}

(* The registry of the database names an object only under the address of  *)
(* the live statement it has, on the connection that is open: an address   *)
(* that SQLite gives out again never leads close() to another statement.   *)
RegistryOwner ==
    /\ \A v \in Vdbes : statements[v] # NULL =>
          /\ stmt[statements[v]] = v
          /\ Live(v)
          /\ vconn[v] = db
    /\ \A o, q \in Objs : stmt[o] = stmt[q] /\ stmt[o] # NULL => o = q

(* A connection that was closed lives exactly as long as one of its        *)
(* statements does, and no live statement is on a freed connection.        *)
ZombieDrains ==
    \A c \in Conns :
        /\ magic[c] = "open" <=> c = db
        /\ magic[c] = "zombie" => \E v \in Vdbes : Live(v) /\ vconn[v] = c
        /\ magic[c] = "free" => \A v \in Vdbes : vconn[v] # c

(* A statement made by each is alive only while that call of each is on    *)
(* the stack, so a callback that throws, closes or exports leaks nothing.  *)
EachCleansUp ==
    /\ \A o \in Objs : origin[o] = "each" => \E i \in DOMAIN stack : stack[i] = o
    /\ \A i \in DOMAIN stack : origin[stack[i]] = "each"
    /\ \A i, j \in DOMAIN stack : stack[i] = stack[j] => i = j

(* How the state of the program and the state of SQLite hang together; it  *)
(* makes the invariants above inductive.  An open object has a live        *)
(* statement, the statement of prepare or each is in the registry, and a   *)
(* statement that is not live has nothing left.                            *)
Linked ==
    /\ \A v \in Vdbes : Live(v) <=> vconn[v] # NULL
    /\ \A v \in Vdbes : ~Live(v) => aVar[v] = Unbound
    /\ \A o \in Objs : stmt[o] # NULL => Live(stmt[o])
    /\ \A o \in Objs : origin[o] = "none" => stmt[o] = NULL
    /\ \A o \in Objs : stmt[o] # NULL =>
          (statements[stmt[o]] = o <=> origin[o] \in {"prepare", "each"})

Inv ==
    /\ TypeOK
    /\ BindingsOwned
    /\ HeapAccounted
    /\ RegistryOwner
    /\ ZombieDrains
    /\ EachCleansUp
    /\ Linked

(* close and export, whatever is suspended at a row or on the stack of     *)
(* each, leave no statement of prepare or each behind, and no block of     *)
(* theirs.                                                                 *)
FinalisesRegistered ==
    Export \/ (\E unlink \in BOOLEAN : Close(unlink)) =>
        \A o \in Objs : origin[o] \in {"prepare", "each"} =>
            /\ stmt'[o] = NULL
            /\ allocatedmem[o] \cap heap' = {}

CloseFinalises == [][FinalisesRegistered]_vars

(* The documented promise of Database.close: the memory associated to the  *)
(* database and all associated statements will be freed.  Statements that  *)
(* the program made with createStatement and still holds are not counted.  *)
ClosedIsFreed ==
    db = NULL /\ (\A o \in Objs : origin[o] = "create" => stmt[o] = NULL) =>
        /\ heap = {}
        /\ \A c \in Conns : magic[c] = "free"

-----------------------------------------------------------------------------
(* The values of a row of parameters. *)
ValuesOf(row) == [p \in 1..NVar |-> IF row[p] \in Blocks THEN data[row[p]] ELSE row[p]]

(* Seen by value, the statements are PreparedStatements: what SQLite reads *)
(* through the pointers it was given is what the program bound, at every   *)
(* moment of the life of the statement.                                    *)
ByValue == INSTANCE PreparedStatements WITH
    st <- [o \in Objs |-> IF stmt[o] = NULL THEN "closed" ELSE vdbe[stmt[o]]],
    params <- [o \in Objs |-> IF stmt[o] = NULL THEN Unbound
                              ELSE ValuesOf(aVar[stmt[o]])]

ImplementsPreparedStatements == ByValue!Spec
=============================================================================
