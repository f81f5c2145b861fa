------------------------------- MODULE Loader -------------------------------
(***************************************************************************)
(* index.js: each call of the default export makes a promise and starts a  *)
(* runtime of its own, which answers through two callbacks.  The runtime   *)
(* is the module that Emscripten generates: it fetches and compiles the    *)
(* WebAssembly file, calls onRuntimeInitialized when that is done, and     *)
(* calls onAbort whenever something aborts it, before or after that, also  *)
(* more than once.  onRuntimeInitialized may throw while it builds the     *)
(* classes; nothing in index.js catches that.                              *)
(***************************************************************************)
EXTENDS Naturals, FiniteSets

CONSTANTS Loads,     \* calls of the default export
          MaxAborts  \* bound on the abort calls of one runtime

ASSUME LoaderAssumption == MaxAborts \in Nat \ {0}

VARIABLES runtime,   \* where the runtime of each load is
          promise,   \* state of the promise of each load
          api,       \* the runtime the Statement and Database of a load were built on
          aborts     \* history: calls of onAbort

vars == <<runtime, promise, api, aborts>>

NoApi == "none"

Init ==
  /\ runtime = [l \in Loads |-> "unused"]
  /\ promise = [l \in Loads |-> "none"]
  /\ api = [l \in Loads |-> NoApi]
  /\ aborts = [l \in Loads |-> 0]

\* A promise is settled by the first resolve or reject; later ones have no effect.
Settled(old, outcome) == IF old = "pending" THEN outcome ELSE old

\* Mutant: resolve is called before the classes are built.
AfterBuildEarly(old, built) == Settled(old, "resolved")

\* resolve comes last in onRuntimeInitialized: when the classes cannot be built it is not called, and
\* neither is reject.
AfterBuild(old, built) == IF built THEN Settled(old, "resolved") ELSE old

\* Mutant: onAbort only logs.
AfterAbortLogged(old) == old

\* onAbort(error) rejects.
AfterAbort(old) == Settled(old, "rejected")

Load(l) ==
  /\ runtime[l] = "unused"
  /\ runtime' = [runtime EXCEPT ![l] = "starting"]
  /\ promise' = [promise EXCEPT ![l] = "pending"]
  /\ UNCHANGED <<api, aborts>>

\* onRuntimeInitialized: builds the two classes on the runtime and resolves with them.
Initialized(l) ==
  /\ runtime[l] = "starting"
  /\ runtime' = [runtime EXCEPT ![l] = "ready"]
  /\ api' = [api EXCEPT ![l] = l]
  /\ promise' = [promise EXCEPT ![l] = AfterBuild(@, TRUE)]
  /\ UNCHANGED aborts

\* createStatement or createDatabase throws (FS.mkdir or FS.mount of the working directory): the
\* runtime runs, but the exception leaves onRuntimeInitialized before it has settled the promise.
InitializedThrows(l) ==
  /\ runtime[l] = "starting"
  /\ runtime' = [runtime EXCEPT ![l] = "threw"]
  /\ promise' = [promise EXCEPT ![l] = AfterBuild(@, FALSE)]
  /\ UNCHANGED <<api, aborts>>

\* The runtime is aborted while it starts (the file is not there, or does not compile) or later (an
\* assertion, memory that cannot grow; a rejection that nobody handled, which may be that of
\* onRuntimeInitialized).
Abort(l) ==
  /\ runtime[l] \in {"starting", "ready", "threw", "aborted"}
  /\ aborts[l] < MaxAborts
  /\ runtime' = [runtime EXCEPT ![l] = "aborted"]
  /\ promise' = [promise EXCEPT ![l] = AfterAbort(@)]
  /\ aborts' = [aborts EXCEPT ![l] = @ + 1]
  /\ UNCHANGED api

\* The calls with which the start of a runtime may end, and with one of which it ends sooner or later.
StartEnds(l) == Initialized(l) \/ InitializedThrows(l) \/ (runtime[l] = "starting" /\ Abort(l))

Next == \E l \in Loads : Load(l) \/ Initialized(l) \/ InitializedThrows(l) \/ Abort(l)

Spec == Init /\ [][Next]_vars /\ \A l \in Loads : WF_vars(StartEnds(l))

(***************************************************************************)
(* Properties                                                              *)
(***************************************************************************)
TypeOK ==
  /\ runtime \in [Loads -> {"unused", "starting", "ready", "threw", "aborted"}]
  /\ promise \in [Loads -> {"none", "pending", "resolved", "rejected"}]
  /\ api \in [Loads -> Loads \cup {NoApi}]
  /\ aborts \in [Loads -> 0..MaxAborts]

\* Whatever the order of the callbacks and wherever they throw, what the program was told is so: a load
\* that resolved has the classes built on its own runtime, also when that was aborted afterwards; one
\* that was rejected was aborted and has none; and one left waiting has a runtime that is still
\* starting, or whose classes could not be built.
Outcomes ==
  \A l \in Loads :
    /\ api[l] = IF promise[l] = "resolved" THEN l ELSE NoApi
    /\ promise[l] = "rejected" => aborts[l] > 0
    /\ promise[l] = "pending" <=> runtime[l] \in {"starting", "threw"}
    /\ promise[l] = "none" <=> runtime[l] = "unused"

\* Whoever awaits a load gets an answer, whether its runtime starts or fails to, with one exception
\* that index.js leaves: onRuntimeInitialized threw, and the wait may be for ever.
EveryLoadAnswers ==
  \A l \in Loads : promise[l] = "pending" ~>
                     promise[l] \in {"resolved", "rejected"} \/ runtime[l] = "threw"
=============================================================================
