# A TLA+ model of node-sql-wasm

node-sql-wasm is SQLite 3.31.1, compiled to WebAssembly with Emscripten, behind a small JavaScript
API. The program's own logic is the border between the two: JavaScript objects that own C handles,
memory that JavaScript allocates in the WebAssembly heap and SQLite reads, callbacks from C into
JavaScript, and a close/reopen protocol that has to leave neither side with a reference to something
the other has freed. This directory models that border, the SQL functions the library adds to SQLite,
and the one part of SQLite that meets faults: the pager, which keeps a database file whole when an
operation fails or the process dies. TLC checks the models and TLAPS proves the main results. Paths
below are relative to the root of the repository.

## The system

| Component | Source | State it keeps | Operations |
|---|---|---|---|
| Loader | `src/src/index.js` | a promise of the API | start, `onRuntimeInitialized`, `onAbort` |
| C binding table | `src/src/sqlite3-api.js` | none | `cwrap` of the C functions |
| Database | `src/src/Database.js` | `db` (connection handle), `filename`, `statements`, `functions`; all databases share the cell `apiTemp` | constructor, `run`, `exec`, `createStatement`, `query`, `each`, `prepare`, `export`, `close`, `getRowsModified`, `create_function` |
| Statement | `src/src/Statement.js` | `stmt` (statement handle), `allocatedmem`, `pos` | `bind`, `step`, `get`, `getAsObject`, `exec`, `run`, `reset`, `freemem`, `free` |
| SQLite connections and statements | `src/src/native/sqlite3.c` | connections, virtual machines (Vdbe), parameters, function definitions | what the two classes call |
| SQLite pager and file locks | `src/src/native/sqlite3.c` | cache, locks, rollback journal of each connection; lock record of each file | begin, write, spill, commit, roll back, recover |
| SQLite engine (rest) | `src/src/native/sqlite3.c` | parser, code generator, opcodes, B-tree, extensions | |
| Extension functions | `src/src/native/extension-functions.c` | one context per aggregate | about 40 SQL functions and `RegisterExtensionFunctions` |
| Emscripten runtime | external | function table, heap, stack, virtual file system | `addFunction`, `removeFunction`, `allocate`, `_free`, `stackSave`, `FS.*` |
| Shell, build scripts, tests | `src/src/native/shell.c`, `src/package-scripts.js`, `src/test/` | | not part of the library |

### How they interact

* **Handles.** `Database.db` and `Statement.stmt` are addresses of C structures. SQLite frees them in
  `sqlite3_close_v2` and `sqlite3_finalize` and later gives the same address out again;
  `Database.statements` is a JavaScript object keyed by such addresses.
* **Bound memory.** `bindString` and `bindBlob` copy the value to the heap and pass the pointer with
  destructor 0 (`SQLITE_STATIC`): SQLite reads the block at every later `step`, the Statement frees it
  in `freemem`.
* **Zombies.** `sqlite3_close_v2` of a connection with unfinalized statements makes it a zombie that is
  freed with its last statement. `close` frees only the statements in the registry, and
  `createStatement` registers none.
* **Callbacks.** `each` calls the program for every row while its statement is suspended; SQL functions
  made with `create_function` are called through a slot of the function table, which all databases
  share and which is recycled. Both may call the API again, on the same C stack.
* **Files.** A database is a file of the virtual file system. `close` deletes it by name, `export`
  closes the connection, reads the file by name and opens it again. A name given by the program is a
  path below `/working`, which `Database.js` mounts on the directory of the process (NODEFS): such a
  file, and the journal of an interrupted transaction, are still there in the next process.
* **Locks.** The library is built with `SQLITE_THREADSAFE=0` and runs on one thread, but two Database
  objects may have the same file. Emscripten's `fcntl` grants every lock, so that only the record that
  the connections of a process share, `unixInodeInfo`, keeps them apart.

### What is hard, and what correctness means

JavaScript is single threaded and the API is synchronous, so there are no races between threads. What
is hard is the order of legal calls, calls made from callbacks, calls that fail in the middle, addresses
and slots that are used again, and a process that dies. `PROJECT.json` lists each hazard at its line.

* *Statement*: no parameter pointer dangles; each copy is freed exactly once; a statement reads what
  was bound to it, whatever is done to others; closing finalizes everything that is registered.
* *Database handles and files*: no connection is lost, although the file system may refuse any call;
  the handle of each other database is its own open connection, on the file of its name.
* *User functions*: a slot belongs to one function of one open database; a SQL function keeps leading to
  the JavaScript function it was registered with until the program replaces it.
* *exec*: every statement is in one hand and the stack is restored, through errors and nested calls.
* *Values*: what is read is what was stored.
* *Extension functions*: aggregates and string functions equal their definitions.
* *Loader*: what a load answers fits its runtime, and it answers unless the classes cannot be built.
* *Pager*: a commit happens entirely or not at all, whatever fails and whenever the process dies; a
  reader sees one state of the database; locks exclude; no cache is stale.

## Modules

| Module | What it is |
|---|---|
| `Binding` | What `bind` does with its values, without memory: which entry throws, which parameter each sets. |
| `PreparedStatements` | Abstract specification: what a program may assume about prepared statements. |
| `Statement` | The statements of one Database: memory, registry, connections, `each`. Extends `Binding`. |
| `StatementProofs` | Theorems about `Statement`: its invariants, and that it implements `PreparedStatements`. |
| `UserFunctions`, `UserFunctionsProofs` | `create_function`, the function table and SQLite's definitions, for several databases. |
| `Database`, `DatabaseProofs` | Constructor, `close` and `export` of several databases, with their files and failures. |
| `Exec`, `ExecProofs` | The loop of `Database.exec`, `run` and SQL functions nested in them, on one stack. |
| `Values`, `ValuesProofs` | What becomes of a value between JavaScript, a column and a SQL function. |
| `OrderStatistics` | `mode`, `median` and the quartiles: a counting search tree and its traversal. |
| `Variance`, `StringFunctions` | `variance` and `stdev`; the functions on texts. |
| `ExtensionFunctions`, `ExtensionFunctionsProofs` | The three together, as one connection registers them. |
| `Loader`, `LoaderProofs` | The promise of each load and the runtime that answers it. |
| `AtomicCommit` | Abstract specification: isolated transactions and commits in a single step. |
| `Pager`, `PagerProofs` | Locks, cache and rollback journal of the connections to one file. Refines `AtomicCommit`. |
| `MC...` | An instance of each for TLC. |

### Statement

| State | Code |
|---|---|
| `magic`, `db`, `file` | `sqlite3.magic` of each connection; `Database.db`; whether the file exists |
| `vdbe`, `vconn`, `expired`, `aVar` | state, connection, `expired` flag and parameters of each SQLite statement |
| `heap`, `data`, `allocatedmem` | allocated blocks, their contents, and the list of each Statement |
| `stmt`, `origin`, `statements` | `Statement.stmt`; which call made the object; `Database.statements` |
| `stack` | active calls of `each` |

A cell of `aVar` is a number or a block of `heap`, which is how a dangling pointer can show; a freed
block contains `Garbage`. The Vdbe states are `ready`, `row`, `busy` and `halt`. Each API call is one
action, because JavaScript runs it to its end; `each` is three (`EachBegin`, `EachNext`, `EachFinish`),
and any other action, another `each` included, may come between them, which is what its callback can do.
`Lose` is a `prepare`, `run` or `each` whose `bind` throws: the statement exists and nobody refers to it.
`Database.run`, `exec` and `query` and the `exec` of a Statement are taken by their net effect, since
they free what they make (`Exec` has what they do on the way). `Outcome` gives what `sqlite3_step` may
leave: row, done, error or busy, with a new compilation first when the schema has changed. That the SQL
of any statement can change the schema is the choice `ddl` in `ExpireOthers`.

Left out: `pos` and direct calls of `bindString` and its siblings; a failing `malloc`; `reset()` on a
closed statement, for which `sqlite3_clear_bindings` reads and may write through a null pointer;
statement calls made from within a SQL function that the same statement runs.

### UserFunctions

`functions` and `registered` are the maps of each Database object (`Database.functions` and
`Database.statements`), `sdb` is `Statement.db` of the object of each statement, `table` the function
table, `aFunc` the definitions of each connection. The JavaScript key is the name as written; SQLite's
key is `<<Fold[name], Arity[f]>>`. `CreateFunction` follows the code's order: remove the old slot by
name, add the new function, then ask SQLite, which refuses when it would replace a function while a
statement of the connection is active. `Step` makes a statement active or not; a statement that is
running is active too, so a `create_function` called from inside a SQL function is covered. `New`
registers the extension functions, `Export` does not, as in the code. `addFunction` and `removeFunction`
are external: any free slot may be given out, at once after its removal. `close` and `export` walk the
registry of their database, whatever is in it, and `free` deletes the entry from the registry of
`Statement.db`. `RegistryOwn` says that this is right: what stands in a registry is alive, belongs to
that database and no other and runs on its open connection, so that no statement of another database is
finalized and no registered one stays behind on a zombie, where it would call slots that others have
got.

Left out: calls that SQLite rejects as misuse (a name over 255 bytes, over 127 arguments, a closed
database); definitions for any number of arguments (only C functions have them); failures of
`FS.unlink` and `FS.readFile`, which are in `Database`; what `wrapped_func` does with values, which is
in `Values`.

### Database

`dir` maps a path to a node, `node` a connection to the node it has open, so a deleted file lives on
under a connection, as in a POSIX file system. `magic` is the state of a connection; `sick` is the
one `sqlite3_open` leaves when it fails, which nobody closes. `pinned` says that a connection has a
statement `close` does not free.

`FS.unlink` and `FS.readFile` throw when the file is not there, and may throw when it is: the paths below
`/working` are on a real file system, where a file can be busy or protected and where other programs
delete files (`DeletedOutside`). `sqlite3_open` may fail at any time, in a constructor, with or without
the file it was given data for, and in `export`, after the old connection is closed. When
`close` or `export` throws, `db[d]` stays the address of the connection that is gone, and `Construct` or
the `export` of another database may get that address: `failed` is the history of the databases in this
state, `deleted` that of the paths deleted from outside, and `careful` says that the program has made
one Database object at a time of each path and closed or exported none again after it threw.

`Attached` holds for a careful program and not without: every database that is not in `failed` has an open
connection of its own, on the file it will delete or export by name. `ConnectionsAccounted` holds always.

Left out: other calls through a handle that dangles (the memory of the freed connection may by then hold
anything); a `close` or `export` that throws before it has changed anything, which is no step; other
programs that write or replace a file.

### Exec

`frames` is the stack of calls that have not returned: an `exec`, a `run` without parameters (that is
`sqlite3_exec`), a `step` of a statement the program holds, or a SQL function written in JavaScript that
one of those calls. Each has the statement it works on and what `stackSave` returned; `sp` is the C stack
pointer, one word per call. `live` are the statements that exist. Those the program holds are `prepared`,
which are in the registry and are what `close` finalizes, or `created` by `createStatement`, which are in
none; `lost` are those of a `prepare` whose `bind` threw (`PrepareThrows`), which nobody holds. `misused`
says that SQLite was given the address of a statement it had freed. A text is a
sequence of statements, empty pieces and pieces that do not compile. One action is what happens between
two points at which the program's own code may run: `Begin`, the three outcomes of `sqlite3_prepare_v2`,
`Call` of a function and its end, `Done`, `StepFails`, `Throw` with the catch and finally of `exec`. In
`ProgramRuns` states the program may prepare, step, free, close and begin another `exec`. `kept` is a
history variable: no SQL function has closed its database or freed a statement that is running, which
`src/src/native/sqlite3.h:5039` forbids and `create_function` does not mention. `Owned`, that a statement
alive has exactly one owner or is one that `prepare` lost, holds whether or not it is kept; only
`NeverMisused` rests on it.

Left out: `apiTemp`, which is written and read without JavaScript running in between, and the rows.

### Values

A JavaScript value and a SQL value are pairs of a type and a value; numbers are counted in halves, so
that some are no integers. `IntSpan`, `Exact` and `Bytes` stand for 2^31, 2^53 and 256. `Bind` is
`bindValue` with the 32-bit test of `bindNumber`; `Get`, `GetAsObject` and `Exec` are the three ways to
read a row; a value may be bound again, passed through a JavaScript function (`wrapped_func`) or computed
by SQL as a long integer. `wanted` is the history of what each cell should read as. `grown` says that the
memory has grown, after which the captured `HEAP8` has length 0. `JsValue` and `SqlValue` say which values
`bindValue` accepts and which a column may hold.

### Extension functions

`OrderStatistics` has one group of rows: `seen` is the history, `kind` the type of the first row, which
decides for all, `cnt` the count of the context, and `m` its tree of counted values, a function from the path
of each node to its value and count. A path is a sequence of turns; `Leads` and `Spots` say where the
descent of `node_insert` ends without a recursive operator, so that the module can be proved about.
`InOrder` lists the nodes by their `Place` in the traversal, and `ModeContext` and `MedianContext` are the
context of a finalizer after each of them, with the `int` read of a 64-bit integer (`IntSpan`) as the code
has it. Numbers are counted in halves, so that a row of integers is even. `QuantilesRight` and `ModeRight`
compare with the definition by counting rows, for groups of one type whose integers fit. `Variance`
uses exact fractions.

In `StringFunctions` a text is a sequence of bytes, which the functions go through by positions, as the
C code does: `Walk` by `sqliteNextChar`, which looks for the next byte that is no trailing byte, `Skips`
by the table of lead bytes that `sqlite3Utf8CharLen` uses. A call is recorded with the *characters* of
its arguments, the code gets their bytes (`Bytes`), and the properties say in characters what comes
back. The characters are any set of byte sequences that satisfies `ExtensionAssumption`, which is what
UTF-8 guarantees: a character is a lead byte and trailing bytes, the lead byte tells how many, and
`toupper` changes neither blanks nor trailing bytes. Ill-formed texts, and the code points that
`sqlite3ReadUtf8` reads as U+FFFD, are outside of it. The blanks of `proper` are those of `isblank`,
space and tab (`White`), while `padc` adds spaces. `replicate` of zero copies returns what is in an
unwritten buffer, any short text in the model; no property is stated of `replicate`.
`ExtensionFunctions` runs the aggregates on the same rows, each with its context, and the string
functions one at a time.

Left out: wrappers of `math.h`, `square`, `sign`, `ceil`, `floor`, `atn2` and the trims, each the call of
a library function on its arguments; `rightstr` with a negative count; NULL in place of a
text; failing `malloc`.

### Loader

`runtime`, `promise` and `api` of each call of the default export. `onRuntimeInitialized` builds the
classes and then resolves (`Initialized`), or throws before it does (`InitializedThrows`), when
`FS.mkdir` or `FS.mount` of `/working` fails (`src/src/Database.js:24`); nothing catches that and the
promise stays pending. `onAbort` may come before or after, and more than once (`MaxAborts`). The runtime
itself is Emscripten's and external.

### Pager

| State | Code |
|---|---|
| `file`, `jrnl` | the database file (size and pages) and the segments of its rollback journal: magic written or not, `nRec`, original size, records |
| `inode`, `fileLock` | `unixInodeInfo` (`eFileLock`, `nShared`), which the connections share, and `unixFile.eFileLock` |
| `pager` | per connection: `eState`, `eLock`, cache and dirty list, `PGHDR_NEED_SYNC`, the four sizes and versions, `pInJournal`, `journalHdr`; `op`, `list` and `todo` are the call in progress and what it still has to do |

An action is one file operation, or a few of which all but the last leave the recoverable content of the
database as it was: `FlushPage` writes one page of a commit, `PlayRecord` copies one journal record back,
`Spill` is `pagerStress` of one page with its sync, `Commit` counts the change, journals page 1 and
finishes the journal header, `CommitPhaseTwo` deletes the journal. Every file operation may fail
(`...Fails`), after which the pager rolls back or goes to the error state as the code does. `Crash` may
come between any two: locks and caches are gone, the two files stay. The next `SharedLock` finds out
whether the journal is hot (`HotJournal`) and plays it back. While a call is in progress no other
connection acts (`Undisturbed`), because the build has one thread.

Page 1 holds the change counter and no data: the code compares 16 bytes (counter, size, freelist), and
the model's counter alone distinguishes less. `AtomicCommit` is the abstract specification: a committed
content, a view for each transaction, commit in one step. `Atomic` maps `db` to what a connection that
opened the file now would find, after playing back a hot journal, and `view` to cache over file.

The fault is a crash of the process and not of the machine: what was written is there, in order.
Left out: savepoints and statement journals, WAL and the other journal modes, master journals, vacuum and
other truncations of the image, the power-safe sector size and `xSync` losing writes, locks between
processes (there are none in this build). A stray journal left by a failed transaction is overwritten,
and what remains of it behind the new records fails the checksum; an empty journal counts as absent. A
lock attempt that is refused and undoes itself is no step.

## Runs

No run has a state constraint. Symmetry is used only in runs that check safety, for which it is sound;
`loader`, which checks liveness, has none.

| Run | Instance | States | Shows |
|---|---|---|---|
| `statement_memory` | 2 statements, 1 connection, 2 parameters, 3 blocks, 5 argument lists | 4 925 | pointers and blocks agree; refinement of `PreparedStatements` |
| `statement_life` | 3 statements, 2 connections, `each` nested twice, 1 block | 47 418 | types, registry, zombies, `each`, `close` |
| `user_functions` | 2 databases, 2 connections, 1 statement, 2 spellings, 2 arities, 3 slots | 60 961 | slots owned; functions undisturbed; registries hold the database's own statements |
| `database` | 3 databases, 3 connections, 2 paths, 3 nodes | 52 016 | no connection lost; handles attached for a careful program, whatever the file system refuses |
| `exec` | 4 statement addresses, 3 texts, 6 nested calls | 126 423 | stack discipline; each statement in one hand; none used after it was freed |
| `values` | 2 columns of one name, 11 values, 2 rows | 240 264 | round trip; `exec` reads what `get` reads |
| `extension_functions` | groups of up to 5 of 8 rows; texts of up to 3 of 7 characters | 387 245 | aggregates and string functions equal their definitions |
| `loader` | 3 loads, 2 aborts each | 512 | answers that fit the runtime; an answer unless the classes cannot be built |
| `pager` | 2 connections, 3 pages, counter up to 2, an empty and a two-page file | 378 664 | locks, pager states, caches; refinement of `AtomicCommit` |
| `statement_closed`, `user_functions_arity`, `values_growth` | as above | | a documented promise the code does not keep, see below |

The bounds. Two statements and three blocks are enough for a block of one to be freed and given to the
other while the first still might point to it; the five argument lists have a repeated parameter, a copy
made before SQLite refuses the index, a value that cannot be bound and a null out of range. Three
statements and two connections let an `each` run within an `each`, a created statement keep a zombie,
and the address of a finalized statement come back on a new connection; `MaxDepth` bounds the stack of
`each`. Three slots are fewer than two databases with two spellings can want, so slots are removed and
reused across databases. Three databases on two paths make two of them share one while a third takes the
address or the path that was given up, and with three connections and three nodes a deleted file lives
on under one while its name leads to another; `MaxSick` bounds the connections failed opens leave. In
`Exec`, six nested calls are an `exec` in a function in an `exec` in a function in a step, and four
addresses let a freed one return while an outer `exec` still has the object of it. In `Values`, the
numbers lie on both sides of `IntSpan` and of `Exact`. Five rows give even and odd counts, quartiles
between two elements and repeated values; `IntSpan = 2` leaves one integer out. Two connections are all
a lock conflict needs (the proofs are for any number); three pages are page 1, one that is overwritten
and one by which the file grows; a counter up to 2 lets the empty file be created and changed again, and
the file that is found be changed once, after any number of attempts that failed or were interrupted, by
either connection while the other has a cache of the version before; a second journal segment fits in
one transaction.

`CHECK_DEADLOCK FALSE` is set where the system may really stop: in `statement_*`, where a closed database
whose file is deleted and whose objects are forgotten has nothing left to do; in `database`, where every
remaining call may be one that only throws; in `values`, when the table is full and the memory has grown;
in `loader`, when every load has been answered and aborted as often as the bound allows.

### What the violations say

1. `statement_closed`: `prepare` registers after `bind` (`src/src/Database.js:293`). When `bind`
   throws, statement and copies are out of reach, and `close` leaves a zombie connection and the memory,
   against `src/src/Database.js:315`.
2. `user_functions_arity`: registering a name with a second number of arguments removes the slot of the
   first, which SQLite still calls, although `src/src/native/sqlite3.h:5023` permits both.
3. `values_growth`: `HEAP8` is captured once, and the build lets memory grow, which detaches it; blobs
   then read as zeros, against `src/test/sql-js.test.js:34`.

Other disagreements seen while modelling. The models do what the code does, and the passing properties
are stated so that they allow for it:

* `bind(null)` resets the statement and clears its parameters (`src/src/Statement.js:126`), where line 86
  says it does nothing.
* `create_function` removes the old slot before SQLite refuses with `SQLITE_BUSY`
  (`src/src/Database.js:436`); the active statement that the refusal protects goes on calling that slot.
* A `close` that threw in `FS.unlink` leaves `db` set, and closing again closes whatever connection has
  the address (`src/src/Database.js:337`, against the comment at line 326). It needs no second object:
  `FS.unlink` throws for a file that is busy, protected or deleted by another program, and so does
  `FS.readFile` in `export` (line 309). With two objects of one `dbfile` an `export` may return the bytes
  of another database's file.
* `onRuntimeInitialized` resolves only after the classes are built (`src/src/index.js:18`); when building
  them throws, the promise is neither resolved nor rejected.
* `close` deletes the database file and not its journal: if a lost statement keeps a spilled transaction
  alive, its journal can be played into a later file of the same name. `export` reads the file while
  another connection may have spilled uncommitted pages into it. Neither is in a model.
* A SQL function may close its database or free the statement that runs it (`src/src/Database.js:331`),
  which `src/src/native/sqlite3.h:5039` forbids.
* `exec` gives a statement without rows no element (`src/src/Database.js:207`, against line 129); `run`
  leaks SQLite's error message (line 107).
* `mode`, `median` and the quartiles read a 64-bit integer through an `int` pointer
  (`src/src/native/extension-functions.c:1464`) and store all rows as the first (line 1431); `replicate`
  of zero copies returns an unwritten buffer (line 697); `difference` counts the characters that agree
  (line 1695, against line 1667).
* When the first commit of an empty file fails after page 1 was written, the pager remembers its version
  and a page 1 of zeros; if another connection then creates the database with the same version, the
  check at `src/src/native/sqlite3.c:56796` finds nothing changed and `lockBtree` answers
  `SQLITE_NOTADB`. `Accepted` in `Pager` refuses that connection.

Each passing property is also checked to fail on a mutated model (`PROJECT.json`, "mutants"): a missing
`clear_bindings`, a `finally` that does not restore the stack, an EXCLUSIVE lock granted over readers, a
journal header that counts one record too few, and so on.

### Fairness

`Loader` assumes weak fairness of `StartEnds` of each runtime: Emscripten's start-up ends in
`onRuntimeInitialized`, which returns or throws, or in `onAbort`, because fetching and compiling the
module succeed or fail. Under it every load is answered but those whose `onRuntimeInitialized` threw
(`EveryLoadAnswers`): that a load whose start has ended is answered is what the property says of the
code. Nowhere else is fairness assumed: every other step is a call
the program makes, no call waits for another, and a connection that finds the file locked gets an error at
once; so nothing has to happen.

## Proofs

All theorems hold for every value of the constants that satisfies the named assumptions of the modules
(`StatementAssumption`, `PagerAssumption`, ...), which TLC evaluates in each run. They say that the kinds
of values are disjoint, that tables are functions and bounds are numbers, that characters are those of a
UTF-8 text and that integers are counted in halves; no set has to be finite but the
connections of `Pager`, which are counted. Two modules state a refinement: `StatementProofs` and `PagerProofs`.

* **Statement.** `Inv` = `TypeOK`, `BindingsOwned`, `HeapAccounted`, `RegistryOwner`, `ZombieDrains`,
  `EachCleansUp` and `Linked`. The first parts are not inductive alone: that `free` leaves no pointer
  behind needs that a block is in one list only (`HeapAccounted`) and that no two objects have one
  statement (`RegistryOwner`); that `close` frees the right objects needs that the statements of
  `prepare` and `each` are in the registry exactly while they are live (`Linked`). Lemmas about the
  shared operators (`RebindMemory`, `FreeMemory`, `ReapedConnections`, ...) say once what `bind`,
  `free` and `close` do, and `InvStep` has a step per action. Theorems: `TypeCorrect`,
  `NoDanglingPointer`, `NoLeakedBlock`, `RegistryIsExact`, `ZombiesDrain`, `EachIsClean`,
  `CloseIsComplete`.
* **Refinement.** The second part of `StatementProofs` proves `Spec => ByValue!Spec`: with each parameter replaced by
  the value it points to, every step is one of `PreparedStatements` or a stutter. `Inv` is what makes
  it so: only if a block is owned by one statement does writing or freeing it leave all others as
  they were.
* **UserFunctions.** `Inv` = `TypeOK`, `SlotsOwned` and `ConnectionsOwned`. `FunctionsUndisturbed` is an
  action property that uses it in the state before: of each action, either the slot it removes is not
  the one that serves the function, or it is one of the disturbances the property names.
  `RegistriesAreOwn` adds `RegistryOwn`, which is inductive with these: what `close` and `export` finalize
  leaves the registries of the others as they are because no statement is in two of them.
* **Database.** `Inv` = `TypeOK`, `ConnectionsAccounted`, `Named`, `PathsExclusive` and `Attached`, the
  last two under the history variable `careful` (`CarefulIsAttached`). That the two histories of failure are
  needed shows in the steps of `Close` and `ExportFails`: a connection that is gone may still be the handle of
  a database in `failed`, so that only the others are known to have handles of their own.
* **Exec.** `ExecInv` adds to the stack discipline which call may be on top of which (`Callers`);
  `OwnedInv`, in which an `exec` that is about to compile its next piece has no statement of its own
  (`Waiting`); and, as long as `kept`, that what runs in `step` is the program's (`Stepped`). Because the
  handle is cleared when a piece is done, the second free in the catch is harmless. `StackIsDisciplined`
  and `StatementsAreOwned` need no usage rule; `NothingIsMisused` does.
* **Extension functions.** The prover has no rule for recursive functions; what one computes is shown by a
  function that is known to satisfy the recursion, and by the least position where the two would differ
  (`ScanExists`, `ScanAgree`, `ScanHolds`). Theorems about `Spec` of `OrderStatistics` hold for `AllSpec`,
  which implies it (`AllImplies`). All are for groups of any size and texts of any length.
  * *The tree* is a search tree, in which every value of the group is where its descent ends, with the
    number of its rows (`MapTypes`, `MapIsSearchTree`, `MapCountsRows`).
  * *`ModeIsRight`, `QuantilesAreRight`*: the traversal visits the values in ascending order, each once, so
    the counts add up to the number of rows that are not greater (`Upto`). After each value the context of
    `modeIterate` has the highest count so far and how often it occurs; that of `medianIterate` has passed
    every value whose rows all lie before the cut, and has taken one value, or the two around the cut.
  * *`OnePassMeansTwo`, `SpreadIsSampleVariance`*: with the sum and the sum of squares of the rows in
    place of the running mean and `rS`, the recurrence of `varianceStep` is an identity of
    integers; the rest is that fractions in lowest terms are equal when their cross products are.
  * *String functions*: a `Layout` says where in the bytes each character ends. That `Walk` and `Skips`
    stop exactly there (`WalkWalks`, `SkipsWalk`), that the bytes between are the characters
    (`CharacterAt`) and that bytes laid out like a list of characters are its bytes (`LaidIsFlat`) holds
    for all texts, and with it each function is shown to give what its property says (`LeftIs`,
    `RightIs`, `PadIs`, `ReverseIs`, `FilterIs`, `IndexIs`, `ProperIs`). The invariant is
    `Answered`: the text returned is what the function gives for the arguments recorded.
* **Loader.** `OutcomesHold`: each callback leaves promise, classes and runtime in agreement.
* **Pager.** `PagerInv` is `PagerTypes`, the lock table, the shape of the journal, and for each
  connection what its call in progress allows (`Calls`), how its sizes relate to file and journal
  (`Sizes`) and what its cache must have (`Cached`). The lock table counts holders, so that the step in
  which the last reader leaves needs the cardinality of a finite set; that the file has the right size
  when a commit ends needs that its last page was still to be written, and that the change can be
  counted at all needs a page 1 in the cache. From it follow `LocksAlwaysExclude` for any number of
  connections and `PagerStatesHold`, the assertions of `assert_pager_state`, in every state that
  failures and crashes can lead to.

* **Pager, atomicity.** `CacheAlwaysCurrent` and `PagersAreAtomic` (`Spec => Atomic`) need more: what is
  in the pages. `AtomicInv` is `PagerInv` with two parts.
  * `Restores`: file and journal together hold a content, `Current`, whatever state the writer is in. A
    page has one old value in the journal (`Single`); records that no written header counts yet are of
    pages the file still has unchanged (`Unwritten`), because a journal without its header is not played
    back; all headers but the last count their records (`Segmented`).
  * `Consistent`: what each connection knows of it. The cache of one without a lock is empty, or belongs to an
    older version, or is right (`Fresh`); a reader's agrees with the file (`Knows`); a writer's journal
    has what it has changed (`Changing`), and its content is in the cache for dirty pages and in the file
    for others (`Pending`); a playback has restored each page or has a record of it to read (`Restoring`).

  Neither part is inductive alone: that a header may be written needs that the writer has journalled what
  it spills, and that a connection may trust its cache when the version is the one it remembers needs
  that a commit counts the version up, for a writer that has seen the last one. Each action has a lemma
  (`SpillMoves`, `PlayRecordMoves`, ...) which says that it keeps the invariant, leaves what the
  others see, and is one of the kinds of `Moves`: the content stays and the connection's view stays, ends, begins
  with the content or changes in private; or the content becomes what the connection sees, alone, and that is the
  step that deletes the journal. `CallRefines` maps these kinds to the actions of `AtomicCommit`, and
  a crash, after which the journal is hot or is none, to its `Crash`.

  Assumed besides `PagerAssumption`: that the file found is a database (`FoundAssumption`), and that the
  mark `NoView` of `AtomicCommit` is no content (`ViewAssumption`). The change counter has no bound in the
  theorem (`MaxChange` is any number); in the code it has 32 bits, so that the results hold up to
  2^32 changes between two uses of one cache.
* **Values.** A cell reads as what it is meant to hold (`Reads`): this is inductive with the types of cells and
  history, once every conversion is shown to keep it (`BindKeeps`, `ResultKeeps`), what is common to the
  languages is shown to read as something that is, too (`PlainIsPlain`), and the growth of the memory to
  touch blobs only (`GrowKeeps`). That a text is cut at its first NUL needs the least element of
  a set of positions, which well-founded induction provides. `RoundTripHolds` is then for any widths with
  `IntSpan < Exact` and an even number of byte values; `ExecAlwaysGets` follows from the getters alone.

Only model-checked: `EveryLoadAnswers`, which is liveness. Every other property of a passing run is the
subject of a theorem. `soundex`, `difference` and `replicate` are modelled, and no property is
stated of them.
Deadlock and ENABLED are not proved. No module uses a RECURSIVE operator.

## Not modelled, and why

* The rest of the SQL engine: the files under `src/src/native/` from SQLite are 260 000 lines, of which
  the models use what the library depends on. Parser, code generator, opcodes, B-tree and the extensions
  compute the results of SQL, which are choices here; their state is too rich for a model that says
  something about all of it. The share of the implementation covered is therefore small, although every
  file of the library's own (`src/src/*.js` and `extension-functions.c`) has its module except the binding table.
* `src/src/native/shell.c`, build scripts, tests: not part of the library.
* `src/src/sqlite3-api.js`: a stateless table; the actions model the calls made through it.
* What the sections above list under "left out".

## Plan

The modules were written in the order Statement, UserFunctions, Database, Exec, Values,
OrderStatistics with the other extension functions, Loader, Pager. What would add most next, in this order:

1. Savepoints and the statement journal in `Pager`: a failing statement within a transaction.
2. The file's name in `Pager`: `close` that unlinks it under a live transaction, and `export` that reads
   it, joined with `Database`.
3. A composition of `UserFunctions` and `Statement` in which a call of a SQL function is an action of
   its own, also from a statement of a zombie connection.
