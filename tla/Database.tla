------------------------------ MODULE Database ------------------------------
(***************************************************************************)
(* Database objects, the connections behind their handles and the files    *)
(* behind their names: constructor, close and export of src/Database.js.   *)
(*                                                                         *)
(* A file is an entry of a directory and the node it leads to.  A          *)
(* connection keeps its node open, also when the entry is deleted.  close  *)
(* and export first close the connection and then use the file; when that  *)
(* throws, Database.db is still the address of the connection that is      *)
(* gone, and SQLite may give the address to the next one.                  *)
(*                                                                         *)
(* Any call to the file system may throw: because the entry is not there,  *)
(* or for a permission, a busy or a broken device on the mounted file      *)
(* system, where other programs also delete files.                         *)
(***************************************************************************)
EXTENDS Naturals, FiniteSets

CONSTANTS Databases,  \* Database objects the program can have at one time
          Conns,      \* addresses of SQLite connections
          Paths,      \* names of database files
          Nodes,      \* files, by what identifies their content
          MaxSick,    \* bound: connections of opens that failed
          NULL

ASSUME DatabaseAssumption ==
    /\ MaxSick \in Nat
    /\ NULL \notin Conns \cup Paths \cup Nodes

VARIABLES
    filename,  \* Database -> Database.filename; NULL: there is no such object
    db,        \* Database -> Database.db: the connection, or NULL when closed
    dir,       \* path -> the node of the file, or NULL
    magic,     \* connection -> "free", "open", "sick" or "zombie"
    node,      \* connection -> the node it has open
    pinned,    \* the connections with a statement that close does not free
    failed,    \* history: the open databases whose last close or export threw
    deleted,   \* history: paths whose file another program has deleted
    careful    \* history: the program has made one object at a time of each
               \* path, and closed or exported none again after it threw

handles == <<filename, db, failed>>
files == <<dir, deleted>>
conns == <<magic, node, pinned>>
vars == <<handles, files, conns, careful>>

-----------------------------------------------------------------------------

TypeOK ==
    /\ filename \in [Databases -> Paths \cup {NULL}]
    /\ db \in [Databases -> Conns \cup {NULL}]
    /\ dir \in [Paths -> Nodes \cup {NULL}]
    /\ magic \in [Conns -> {"free", "open", "sick", "zombie"}]
    /\ node \in [Conns -> Nodes \cup {NULL}]
    /\ pinned \subseteq Conns
    /\ failed \subseteq Databases
    /\ deleted \subseteq Paths
    /\ careful \in BOOLEAN

Init ==
    /\ filename = [d \in Databases |-> NULL]
    /\ db = [d \in Databases |-> NULL]
    /\ dir = [p \in Paths |-> NULL]
    /\ magic = [c \in Conns |-> "free"]
    /\ node = [c \in Conns |-> NULL]
    /\ pinned = {}
    /\ failed = {}
    /\ deleted = {}
    /\ careful = TRUE

-----------------------------------------------------------------------------

Unused(n) == (\A p \in Paths : dir[p] # n) /\ (\A c \in Conns : node[c] # n)

(* The node that sqlite3_open finds or makes under path p. *)
Found(p, n) == IF dir[p] = NULL THEN Unused(n) ELSE n = dir[p]

(* The handle of connection c that sqlite3_open leaves at apiTemp, read    *)
(* back with getValue.                                                     *)
\* Mutant: the address of the handle is taken for the handle.
AddressOf(c) == "apiTemp"
HandleOf(c) == c

(* What a failing sqlite3_open makes of the connections m: it has made     *)
(* one for the error message, or not even that, and nobody gets it.        *)
FailedOpen(m) ==
    {m} \cup {[m EXCEPT ![c] = "sick"] :
                 c \in {e \in Conns : /\ m[e] = "free"
                                      /\ Cardinality({x \in Conns : m[x] = "sick"}) < MaxSick}}

(* No object of the program has path p. *)
Unclaimed(p) == \A d \in Databases : filename[d] # p

(* The Database constructor.  With data it makes the file first, and       *)
(* throws before it opens it if there is one already.                      *)
Construct(d, p) ==
    /\ filename[d] = NULL
    /\ \E c \in Conns, n \in Nodes :
          /\ magic[c] = "free"
          /\ Found(p, n)
          /\ magic' = [magic EXCEPT ![c] = "open"]
          /\ node' = [node EXCEPT ![c] = n]
          /\ dir' = [dir EXCEPT ![p] = n]
          /\ db' = [db EXCEPT ![d] = HandleOf(c)]
    /\ filename' = [filename EXCEPT ![d] = p]
    /\ deleted' = deleted \ {p}
    /\ careful' = (careful /\ Unclaimed(p))
    /\ UNCHANGED <<pinned, failed>>

(* A constructor that throws: createDataFile fails, or sqlite3_open does,  *)
(* after the file was made from the data or without that.                  *)
ConstructFails(d, p) ==
    /\ filename[d] = NULL
    /\ magic' \in FailedOpen(magic)
    /\ \/ UNCHANGED files
       \/ /\ dir[p] = NULL
          /\ \E n \in Nodes : Unused(n) /\ dir' = [dir EXCEPT ![p] = n]
          /\ deleted' = deleted \ {p}
    /\ careful' = (careful /\ Unclaimed(p))
    /\ UNCHANGED <<handles, node, pinned>>

(* Another program deletes the file of path p. *)
DeletedOutside(p) ==
    /\ dir[p] # NULL
    /\ dir' = [dir EXCEPT ![p] = NULL]
    /\ deleted' = deleted \cup {p}
    /\ UNCHANGED <<handles, conns, careful>>

(* The program makes a statement with createStatement, or prepare loses    *)
(* one.                                                                    *)
Pin(d) ==
    /\ db[d] # NULL
    /\ magic[db[d]] = "open"
    /\ pinned' = pinned \cup {db[d]}
    /\ UNCHANGED <<handles, files, magic, node, careful>>

(* sqlite3LeaveMutexAndCloseZombie, when the last of these statements is   *)
(* finalized                                                               *)
Unpin(c) ==
    /\ c \in pinned
    /\ pinned' = pinned \ {c}
    /\ magic' = [magic EXCEPT ![c] = IF @ = "zombie" THEN "free" ELSE @]
    /\ node' = [node EXCEPT ![c] = IF magic[c] = "zombie" THEN NULL ELSE @]
    /\ UNCHANGED <<handles, files, careful>>

-----------------------------------------------------------------------------

(* What sqlite3_close_v2 leaves of connection c. *)
\* Mutant: a connection with statements is not closed, as by sqlite3_close.
StaysOpenWhenBusy(c) ==
    [e \in Conns |-> IF e # c THEN magic[e] ELSE IF c \in pinned THEN "open" ELSE "free"]
ClosedV2(c) ==
    [e \in Conns |-> IF e # c THEN magic[e] ELSE IF c \in pinned THEN "zombie" ELSE "free"]

ClosedNode(c) == [e \in Conns |-> IF e = c /\ c \notin pinned THEN NULL ELSE node[e]]

(* sqlite3_close_v2 returns SQLITE_OK for NULL and for a connection that   *)
(* is open or sick; for one that is gone it returns SQLITE_MISUSE and      *)
(* handleError throws before anything has changed.                         *)
Closable(d) == db[d] # NULL => magic[db[d]] \in {"open", "sick"}

(* FS.unlink throws when there is no entry, and may throw when there is    *)
(* one; then the entry stays.                                              *)
UnlinkThrows(p) == IF dir[p] = NULL THEN {TRUE} ELSE BOOLEAN

(* Database.db after close, by whether FS.unlink has thrown *)
\* Mutant: close does not forget the handle.
KeptHandle(d, thrown) == db[d]
Handle(d, thrown) == IF thrown THEN db[d] ELSE NULL

(* Database.close *)
Close(d, unlink) ==
    /\ db[d] # NULL
    /\ Closable(d)
    /\ magic' = ClosedV2(db[d])
    /\ node' = ClosedNode(db[d])
    /\ \E thrown \in IF unlink THEN UnlinkThrows(filename[d]) ELSE {FALSE} :
          /\ dir' = IF unlink /\ ~thrown THEN [dir EXCEPT ![filename[d]] = NULL] ELSE dir
          /\ db' = [db EXCEPT ![d] = Handle(d, thrown)]
          /\ failed' = IF thrown THEN failed \cup {d} ELSE failed \ {d}
    /\ careful' = (careful /\ d \notin failed)
    /\ UNCHANGED <<filename, pinned, deleted>>

(* Database.export; on a closed database it only opens the file. *)
Export(d) ==
    /\ filename[d] # NULL
    /\ Closable(d)
    /\ dir[filename[d]] # NULL
    /\ \E c \in Conns :
          /\ ClosedV2(db[d])[c] = "free"
          /\ magic' = [ClosedV2(db[d]) EXCEPT ![c] = "open"]
          /\ node' = [ClosedNode(db[d]) EXCEPT ![c] = dir[filename[d]]]
          /\ db' = [db EXCEPT ![d] = HandleOf(c)]
    /\ failed' = failed \ {d}
    /\ careful' = (careful /\ d \notin failed)
    /\ UNCHANGED <<filename, files, pinned>>

(* An export that throws when the connection is closed: FS.readFile does,  *)
(* or sqlite3_open cannot open the file again.                             *)
ExportFails(d) ==
    /\ filename[d] # NULL
    /\ Closable(d)
    /\ magic' \in IF dir[filename[d]] = NULL THEN {ClosedV2(db[d])}
                  ELSE FailedOpen(ClosedV2(db[d]))
    /\ node' = ClosedNode(db[d])
    /\ failed' = IF db[d] = NULL THEN failed ELSE failed \cup {d}
    /\ careful' = (careful /\ d \notin failed)
    /\ UNCHANGED <<filename, db, files, pinned>>

(* The program forgets a database that is closed or whose close or export  *)
(* threw.                                                                  *)
Drop(d) ==
    /\ filename[d] # NULL
    /\ db[d] = NULL \/ d \in failed
    /\ filename' = [filename EXCEPT ![d] = NULL]
    /\ db' = [db EXCEPT ![d] = NULL]
    /\ failed' = failed \ {d}
    /\ UNCHANGED <<files, conns, careful>>

-----------------------------------------------------------------------------

Next ==
    \/ \E d \in Databases :
          \/ \E p \in Paths : Construct(d, p) \/ ConstructFails(d, p)
          \/ \E unlink \in BOOLEAN : Close(d, unlink)
          \/ Export(d)
          \/ ExportFails(d)
          \/ Pin(d)
          \/ Drop(d)
    \/ \E p \in Paths : DeletedOutside(p)
    \/ \E c \in Conns : Unpin(c)

Spec == Init /\ [][Next]_vars

-----------------------------------------------------------------------------
(* Properties *)

(* However often close and export throw and files disappear, the handle of *)
(* every other database is an open connection that is its own, and the     *)
(* file it will export or delete by name is the one its connection works   *)
(* on, or was deleted by another program.  It rests on what the program    *)
(* does: of two objects of one path the first to close takes the file from *)
(* the other, and the handle left by a close or export that threw may by   *)
(* now be the connection of another database.                              *)
Attached ==
    careful =>
    \A d \in Databases \ failed : db[d] # NULL =>
        /\ magic[db[d]] = "open"
        /\ filename[d] # NULL
        /\ \/ dir[filename[d]] = node[db[d]] /\ dir[filename[d]] # NULL
           \/ dir[filename[d]] = NULL /\ filename[d] \in deleted
        /\ \A e \in Databases \ failed : db[e] = db[d] => e = d

(* What is not free is accounted for, even when close and export throw     *)
(* halfway: an open connection is the handle of a database whose close and *)
(* export did not throw, a zombie has a statement left, and a node is open *)
(* exactly where a connection needs it.                                    *)
ConnectionsAccounted ==
    \A c \in Conns :
        /\ magic[c] = "open" => \E d \in Databases \ failed : db[d] = c
        /\ magic[c] = "zombie" => c \in pinned
        /\ c \in pinned => magic[c] \in {"open", "zombie"}
        /\ node[c] # NULL <=> magic[c] \in {"open", "zombie"}

(* The parts that make the two inductive. *)
Named ==
    \A d \in Databases :
        /\ db[d] # NULL => filename[d] # NULL
        /\ d \in failed => db[d] # NULL

PathsExclusive ==
    careful =>
    \A d, e \in Databases : filename[d] = filename[e] /\ filename[d] # NULL => d = e

Inv ==
    /\ TypeOK
    /\ ConnectionsAccounted
    /\ Named
    /\ PathsExclusive
    /\ Attached
=============================================================================
