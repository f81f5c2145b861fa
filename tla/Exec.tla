-------------------------------- MODULE Exec --------------------------------
(***************************************************************************)
(* Database.exec and Database.run on a text of several statements, and the *)
(* SQL functions that run inside them and call exec, run, prepare, step    *)
(* and free again.  JavaScript and C calls are nested on one stack, and so *)
(* is the memory stackAlloc gives out: the SQL text and the tail pointer   *)
(* of each exec lie there while the functions it calls run.                *)
(*                                                                         *)
(* A frame is one call that has not returned:                              *)
(*   "exec"      Database.exec, which frees its statement itself           *)
(*   "run"       Database.run without parameters, that is sqlite3_exec     *)
(*   "step"      Statement.step of a statement the program holds           *)
(*   "function"  a JavaScript function called from SQL                     *)
(***************************************************************************)
EXTENDS Integers, Sequences

CONSTANTS Vdbes,      \* addresses of SQLite statements
          Texts,      \* SQL texts: sequences of "stmt", "empty" and "bad" pieces
          NULL,
          MaxDepth    \* bound on the nested calls

ASSUME ExecAssumption ==
  /\ Texts \subseteq Seq({"stmt", "empty", "bad"})
  /\ NULL \notin Vdbes
  /\ MaxDepth \in Nat

VARIABLES db,        \* the Database is open
          live,      \* the addresses of statements SQLite has not finalized
          prepared,  \* those of prepare, which are in this.statements
          created,   \* those createStatement gave to the program, which are in no registry
          lost,      \* those of a prepare whose bind threw: in no registry, and nobody holds them
          frames,    \* the calls that have not returned, outermost first
          sp,        \* how much of the C stack is in use
          misused,   \* SQLite has used the address of a statement that was finalized
          kept       \* history: no SQL function has closed its database or freed a running statement

owners == <<prepared, created, lost>>
vars == <<db, live, owners, frames, sp, misused, kept>>

Init ==
  /\ db = TRUE
  /\ live = {}
  /\ prepared = {}
  /\ created = {}
  /\ lost = {}
  /\ frames = << >>
  /\ sp = 0
  /\ misused = FALSE
  /\ kept = TRUE

(***************************************************************************)
(* Frames                                                                  *)
(***************************************************************************)
Depth == Len(frames)
Top == frames[Depth]
In(kinds, pc) == Depth > 0 /\ Top.kind \in kinds /\ Top.pc = pc

\* The program's own code runs, at the top level or in a SQL function.
ProgramRuns == Depth > 0 => Top.kind = "function"
Running(v) == \E i \in 1..Depth : frames[i].stmt = v

\* stackSave, and what the call puts on the stack.
Enter(kind, pc, text, v) ==
  /\ Depth < MaxDepth
  /\ frames' = Append(frames, [kind |-> kind, pc |-> pc, text |-> text, stmt |-> v,
                               saved |-> sp, top |-> sp + 1])
  /\ sp' = sp + 1

Goto(f) == frames' = [frames EXCEPT ![Depth] = f]

\* Mutant: the stack is restored where exec returns and not where it throws.
UnwindUnlessThrown(f) ==
  /\ frames' = SubSeq(frames, 1, Depth - 1)
  /\ sp' = IF f.pc = "fail" THEN sp ELSE f.saved

\* The finally of exec; for calls through cwrap and for C functions, their epilogue.
Unwind(f) ==
  /\ frames' = SubSeq(frames, 1, Depth - 1)
  /\ sp' = f.saved

(***************************************************************************)
(* Statement.free                                                          *)
(***************************************************************************)
Finalize(v) ==
  /\ live' = live \ {v}
  /\ misused' = (misused \/ v \notin live \cup {NULL})

\* Mutant: free leaves the handle in the object.
KeptHandle(f) == f

\* The object forgets its handle, so that freeing it again finalizes NULL.
Freed(f) == [f EXCEPT !.stmt = NULL]

(***************************************************************************)
(* exec and run                                                            *)
(***************************************************************************)
Begin(kind, text) ==
  /\ ProgramRuns /\ db
  /\ Enter(kind, "next", text, NULL)
  /\ UNCHANGED <<db, live, owners, misused, kept>>

\* A piece that does not compile, a database that has been closed under the call, or no memory.
PrepareFails ==
  /\ In({"exec", "run"}, "next") /\ Top.text # << >>
  /\ db /\ live # Vdbes => Head(Top.text) = "bad"
  /\ Goto([Top EXCEPT !.pc = "fail"])
  /\ UNCHANGED <<db, live, owners, sp, misused, kept>>

PrepareEmpty ==
  /\ In({"exec", "run"}, "next") /\ Top.text # << >> /\ db
  /\ Head(Top.text) = "empty"
  /\ Goto([Top EXCEPT !.text = Tail(@)])
  /\ UNCHANGED <<db, live, owners, sp, misused, kept>>

\* The statement is compiled and, in exec, its parameters are bound, which may throw.
PrepareNext(v, pc) ==
  /\ In({"exec", "run"}, "next") /\ Top.text # << >> /\ db
  /\ Head(Top.text) = "stmt"
  /\ v \notin live
  /\ (pc = "fail" => Top.kind = "exec")
  /\ live' = live \cup {v}
  /\ Goto([Top EXCEPT !.text = Tail(@), !.stmt = v, !.pc = pc])
  /\ UNCHANGED <<db, owners, sp, misused, kept>>

\* sqlite3_step comes to its end, after any number of rows, and the statement is freed.
Done ==
  /\ In({"exec", "run"}, "step")
  /\ Finalize(Top.stmt)
  /\ Goto([Freed(Top) EXCEPT !.pc = "next"])
  /\ UNCHANGED <<db, owners, sp, kept>>

Return ==
  /\ In({"exec", "run"}, "next") /\ Top.text = << >>
  /\ Unwind(Top)
  /\ UNCHANGED <<db, live, owners, misused, kept>>

\* sqlite3_step reports an error: a constraint, a lock, a function that failed.
StepFails ==
  /\ In({"exec", "run", "step"}, "step")
  /\ Goto([Top EXCEPT !.pc = "fail"])
  /\ UNCHANGED <<db, live, owners, sp, misused, kept>>

\* Mutant: exec has no catch.
CaughtNothing(f) == UNCHANGED <<live, misused>>

\* The catch of exec frees the statement of the current piece, or again the one of the piece
\* before; sqlite3_exec finalizes its own.
Caught(f) == Finalize(f.stmt)

\* The exception leaves the call.
Throw ==
  /\ In({"exec", "run"}, "fail")
  /\ Caught(Top)
  /\ Unwind(Top)
  /\ UNCHANGED <<db, owners, kept>>

(***************************************************************************)
(* Statements of the program                                               *)
(***************************************************************************)
\* What createStatement needs, and what it adds to.
Compiled(v) ==
  /\ ProgramRuns /\ db
  /\ v \notin live
  /\ live' = live \cup {v}
  /\ UNCHANGED <<db, frames, sp, misused, kept>>

CreateStatement(v) ==
  /\ Compiled(v)
  /\ created' = created \cup {v}
  /\ UNCHANGED <<prepared, lost>>

\* prepare registers the statement once its parameters are bound.
Prepare(v) ==
  /\ Compiled(v)
  /\ prepared' = prepared \cup {v}
  /\ UNCHANGED <<created, lost>>

\* bind throws in prepare: the statement is compiled and not registered, and the exception takes the
\* only reference to it along.  So do run and each with parameters.
PrepareThrows(v) ==
  /\ Compiled(v)
  /\ lost' = lost \cup {v}
  /\ UNCHANGED <<prepared, created>>

\* A statement is not stepped while it is running.
Step(v) ==
  /\ ProgramRuns
  /\ v \in prepared \cup created /\ ~Running(v)
  /\ Enter("step", "step", << >>, v)
  /\ UNCHANGED <<db, live, owners, misused, kept>>

\* It comes to a row or to its end, or throws; either way the program keeps it.
StepEnds ==
  /\ In({"step"}, "step") \/ In({"step"}, "fail")
  /\ Unwind(Top)
  /\ UNCHANGED <<db, live, owners, misused, kept>>

Free(v) ==
  /\ ProgramRuns
  /\ v \in prepared \cup created
  /\ Finalize(v)
  /\ prepared' = prepared \ {v}
  /\ created' = created \ {v}
  /\ kept' = (kept /\ ~Running(v))
  /\ UNCHANGED <<db, lost, frames, sp>>

\* close finalizes what is registered, and so neither the statements of createStatement, nor those of
\* exec, nor one that was lost.
Close ==
  /\ db
  /\ ProgramRuns
  /\ db' = FALSE
  /\ kept' = (kept /\ Depth = 0)
  /\ live' = live \ prepared
  /\ prepared' = {}
  /\ UNCHANGED <<created, lost, frames, sp, misused>>

\* Another Database takes the place of the closed one.
New ==
  /\ ~db /\ Depth = 0
  /\ db' = TRUE
  /\ UNCHANGED <<live, owners, frames, sp, misused, kept>>

(***************************************************************************)
(* SQL functions                                                           *)
(***************************************************************************)
Call ==
  /\ In({"exec", "run", "step"}, "step")
  /\ Enter("function", "run", << >>, NULL)
  /\ UNCHANGED <<db, live, owners, misused, kept>>

\* wrapped_func returns; with an exception of the program, or of a call it made, it has reported an
\* error and the statement fails.  SQLite goes on with the statement that called the function.
FunctionEnds(ok) ==
  /\ In({"function"}, "run")
  /\ frames' = [i \in 1..(Depth - 1) |->
                  IF i = Depth - 1 /\ ~ok THEN [frames[i] EXCEPT !.pc = "fail"] ELSE frames[i]]
  /\ sp' = Top.saved
  /\ misused' = (misused \/ frames[Depth - 1].stmt \notin live)
  /\ UNCHANGED <<db, live, owners, kept>>

Next ==
  \/ \E kind \in {"exec", "run"}, text \in Texts : Begin(kind, text)
  \/ PrepareFails \/ PrepareEmpty \/ Done \/ Return \/ StepFails \/ Throw
  \/ \E v \in Vdbes, pc \in {"step", "fail"} : PrepareNext(v, pc)
  \/ \E v \in Vdbes : CreateStatement(v) \/ Prepare(v) \/ PrepareThrows(v) \/ Step(v) \/ Free(v)
  \/ StepEnds \/ Close \/ New \/ Call
  \/ \E ok \in BOOLEAN : FunctionEnds(ok)

Spec == Init /\ [][Next]_vars

(***************************************************************************)
(* Properties                                                              *)
(***************************************************************************)
Frame == [kind : {"exec", "run", "step", "function"}, pc : {"next", "step", "fail", "run"},
          text : Seq({"stmt", "empty", "bad"}), stmt : Vdbes \cup {NULL},
          saved : Nat, top : Nat]

TypeOK ==
  /\ db \in BOOLEAN
  /\ live \subseteq Vdbes
  /\ prepared \subseteq Vdbes /\ created \subseteq Vdbes /\ lost \subseteq Vdbes
  /\ frames \in Seq(Frame)
  /\ sp \in Nat
  /\ misused \in BOOLEAN
  /\ kept \in BOOLEAN

\* Whichever call returns or throws, from whatever depth, the stack is as the caller left it: the
\* text and the tail pointer of every exec that has not returned are still allocated, and when all
\* have returned nothing is.
StackDiscipline ==
  /\ \A i \in 1..Depth : /\ frames[i].saved = IF i = 1 THEN 0 ELSE frames[i - 1].top
                         /\ frames[i].top = frames[i].saved + 1
  /\ sp = IF Depth = 0 THEN 0 ELSE Top.top

\* The statements that belong to no call of exec or run, and the calls that have one.
Loose == prepared \cup created \cup lost
Owners == {i \in 1..Depth : frames[i].kind \in {"exec", "run"} /\ frames[i].stmt # NULL}

\* Whatever SQL functions do, each statement that exists has one owner: the registry, the program, or
\* one exec or run that has not returned; the only others are those that a throwing bind lost in
\* prepare.  So exec leaves none behind when a piece fails, a bind throws or a function throws
\* through it; none is used by two of its calls, although addresses are given out again; and none is
\* taken from it by a function that closes the database or frees what it holds.
Owned ==
  /\ live = Loose \cup {frames[i].stmt : i \in Owners}
  /\ prepared \cap created = {} /\ lost \cap (prepared \cup created) = {}
  /\ \A i \in Owners : frames[i].stmt \notin Loose
  /\ \A i, j \in Owners : frames[i].stmt = frames[j].stmt => i = j

\* The rule sqlite3.h:5039 sets for functions: they must not close the database connection, nor
\* finalize the statement in which they are running; create_function does not say so.  As long as
\* it is kept, no call finalizes or goes on with a statement that has been finalized, although the
\* catch of exec frees the object of the piece before when the next does not compile.
NeverMisused == kept => ~misused
=============================================================================
