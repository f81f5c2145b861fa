---------------------------- MODULE LoaderProofs ----------------------------
(* Proofs for any number of loads and of aborts.  That a load is answered at all is a liveness
   property and is left to TLC. *)
EXTENDS Loader, TLAPS

Inv == TypeOK /\ Outcomes

LEMMA InvStep ==
  ASSUME Inv, [Next]_vars
  PROVE  Inv'
<1>1. ASSUME NEW l \in Loads, Load(l) PROVE Inv'
  <2>1. TypeOK'
    BY <1>1 DEF Inv, TypeOK, Load
  <2>2. Outcomes'
    BY <1>1 DEF Inv, TypeOK, Outcomes, Load
  <2>. QED  BY <2>1, <2>2 DEF Inv
<1>2. ASSUME NEW l \in Loads, Initialized(l) PROVE Inv'
  <2>1. TypeOK'
    BY <1>2 DEF Inv, TypeOK, Initialized, AfterBuild, Settled
  <2>2. Outcomes'
    BY <1>2 DEF Inv, TypeOK, Outcomes, Initialized, AfterBuild, Settled
  <2>. QED  BY <2>1, <2>2 DEF Inv
<1>3. ASSUME NEW l \in Loads, Abort(l) PROVE Inv'
  <2>1. aborts[l] + 1 \in 0..MaxAborts
    BY <1>3, LoaderAssumption DEF Inv, TypeOK, Abort
  <2>2. TypeOK'
    BY <1>3, <2>1 DEF Inv, TypeOK, Abort, AfterAbort, Settled
  <2>3. Outcomes'
    <3>1. promise' = [promise EXCEPT ![l] = IF promise[l] = "pending" THEN "rejected" ELSE @]
      BY <1>3 DEF Abort, AfterAbort, Settled, Inv, TypeOK
    <3>. QED  BY <1>3, <2>1, <3>1 DEF Inv, TypeOK, Outcomes, Abort
  <2>. QED  BY <2>2, <2>3 DEF Inv
<1>4. ASSUME NEW l \in Loads, InitializedThrows(l) PROVE Inv'
  <2>1. TypeOK'
    BY <1>4 DEF Inv, TypeOK, InitializedThrows, AfterBuild, Settled
  <2>2. Outcomes'
    BY <1>4 DEF Inv, TypeOK, Outcomes, InitializedThrows, AfterBuild, Settled
  <2>. QED  BY <2>1, <2>2 DEF Inv
<1>5. ASSUME UNCHANGED vars PROVE Inv'
  BY <1>5 DEF Inv, TypeOK, Outcomes, vars
<1>. QED  BY <1>1, <1>2, <1>3, <1>4, <1>5 DEF Next

LEMMA InvInductive == Spec => []Inv
<1>1. Init => Inv
  BY LoaderAssumption DEF Init, Inv, TypeOK, Outcomes, NoApi
<1>. QED  BY <1>1, InvStep, PTL DEF Spec

\* A resolved load has its own classes, a rejected one was aborted and has none, and one that waits is
\* still starting or has thrown in onRuntimeInitialized.
THEOREM OutcomesHold == Spec => []Outcomes
  BY InvInductive, PTL DEF Inv

=============================================================================
