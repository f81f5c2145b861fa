----------------------------- MODULE ExecProofs -----------------------------
(***************************************************************************)
(* Proofs about Exec for any statements, texts and depth of nested calls:  *)
(* the stack first, which needs nothing else, then who owns the            *)
(* statements, and last what holds as long as no function has closed the   *)
(* database or freed a statement that is running.                          *)
(***************************************************************************)
EXTENDS Exec, SequenceTheorems, TLAPS

(***************************************************************************)
(* The three things that happen to the calls                               *)
(***************************************************************************)
LEMMA PushFrame ==
  ASSUME NEW S, NEW s \in Seq(S), NEW f \in S
  PROVE  /\ Append(s, f) \in Seq(S)
         /\ Len(Append(s, f)) = Len(s) + 1
         /\ \A i \in 1..Len(s) : Append(s, f)[i] = s[i]
         /\ Append(s, f)[Len(s) + 1] = f
  BY AppendProperties

LEMMA PopFrame ==
  ASSUME NEW S, NEW s \in Seq(S), NEW n \in Nat, Len(s) = n, n > 0
  PROVE  LET p == SubSeq(s, 1, n - 1)
         IN  /\ p \in Seq(S)
             /\ Len(p) = n - 1
             /\ \A i \in 1..(n - 1) : p[i] = s[i]
<1>1. \A i \in 1..(n - 1) : s[i] \in S
  BY ElementOfSeq
<1>. DEFINE p == SubSeq(s, 1, n - 1)
<1>2. /\ p \in Seq(S)
      /\ Len(p) = IF 1 <= n - 1 THEN n - 1 - 1 + 1 ELSE 0
      /\ \A i \in 1..(n - 1 - 1 + 1) : p[i] = s[1 + i - 1]
  <2>1. n - 1 \in Int /\ 1 \in Int
    OBVIOUS
  <2>. QED  BY <2>1, <1>1, SubSeqProperties
<1>. HIDE DEF p
<1>3. n - 1 - 1 + 1 = n - 1 /\ \A i \in 1..(n - 1) : 1 + i - 1 = i
  OBVIOUS
<1>4. \A i \in 1..(n - 1) : p[i] = s[i]
  BY <1>2, <1>3
<1>5. Len(p) = n - 1
  BY <1>2
<1>. QED  BY <1>2, <1>4, <1>5 DEF p

LEMMA ChangeFrame ==
  ASSUME NEW S, NEW s \in Seq(S), Len(s) > 0, NEW f \in S
  PROVE  LET c == [s EXCEPT ![Len(s)] = f]
         IN  /\ c \in Seq(S)
             /\ Len(c) = Len(s)
             /\ \A i \in 1..Len(s) : i # Len(s) => c[i] = s[i]
             /\ c[Len(s)] = f
<1>1. Len(s) \in 1..Len(s)
  BY LenProperties
<1>. DEFINE c == [s EXCEPT ![Len(s)] = f]
<1>2. /\ c \in Seq(S)
      /\ Len(c) = Len(s)
      /\ \A i \in 1..Len(s) : c[i] = IF i = Len(s) THEN f ELSE s[i]
  BY <1>1, ExceptSeq
<1>. HIDE DEF c
<1>3. c[Len(s)] = f /\ \A i \in 1..Len(s) : i # Len(s) => c[i] = s[i]
  BY <1>1, <1>2
<1>. QED  BY <1>2, <1>3 DEF c

(***************************************************************************)
(* The stack                                                               *)
(***************************************************************************)
StackTypes == frames \in Seq(Frame) /\ sp \in Nat

StackInv == StackTypes /\ StackDiscipline

LEMMA TopFrame ==
  ASSUME StackInv, Depth > 0
  PROVE  /\ Depth \in Nat /\ Top \in Frame
         /\ Top.saved \in Nat /\ Top.top = Top.saved + 1 /\ sp = Top.top
         /\ Depth = 1 => Top.saved = 0
         /\ Depth > 1 => Top.saved = frames[Depth - 1].top
<1>1. Depth \in Nat
  BY LenProperties DEF StackInv, StackTypes, Depth
<1>2. Depth \in 1..Depth
  BY <1>1
<1>3. Top \in Frame
  BY <1>2, ElementOfSeq DEF StackInv, StackTypes, Depth, Top
<1>4. Top.saved \in Nat
  BY <1>3 DEF Frame
<1>. QED  BY <1>1, <1>2, <1>3, <1>4 DEF StackInv, StackDiscipline, Top

LEMMA EnterStack ==
  ASSUME StackInv, NEW kind \in {"exec", "run", "step", "function"},
         NEW pc \in {"next", "step", "fail", "run"}, NEW text \in Seq({"stmt", "empty", "bad"}),
         NEW v \in Vdbes \cup {NULL}, Enter(kind, pc, text, v)
  PROVE  StackInv'
<1>. DEFINE f == [kind |-> kind, pc |-> pc, text |-> text, stmt |-> v,
                  saved |-> sp, top |-> sp + 1]
<1>1. f \in Frame
  BY DEF StackInv, StackTypes, Frame
<1>2. frames' = Append(frames, f) /\ sp' = sp + 1
  BY DEF Enter
<1>3. frames \in Seq(Frame) /\ sp \in Nat /\ Depth \in Nat
  BY LenProperties DEF StackInv, StackTypes, Depth
<1>4. /\ frames' \in Seq(Frame)
      /\ Depth' = Depth + 1
      /\ \A i \in 1..Depth : frames'[i] = frames[i]
      /\ frames'[Depth + 1] = f
  BY <1>1, <1>2, <1>3, PushFrame DEF Depth
<1>5. StackTypes'
  BY <1>2, <1>3, <1>4 DEF StackTypes
<1>6. f.saved = sp /\ f.top = sp + 1
  OBVIOUS
<1>. HIDE DEF f
<1>7. sp = IF Depth = 0 THEN 0 ELSE frames[Depth].top
  BY DEF StackInv, StackDiscipline, Top
<1>8. \A i \in 1..Depth' : /\ frames'[i].saved = IF i = 1 THEN 0 ELSE frames'[i - 1].top
                           /\ frames'[i].top = frames'[i].saved + 1
  <2>. SUFFICES ASSUME NEW i \in 1..Depth'
       PROVE  /\ frames'[i].saved = IF i = 1 THEN 0 ELSE frames'[i - 1].top
              /\ frames'[i].top = frames'[i].saved + 1
    OBVIOUS
  <2>1. CASE i = Depth + 1
    <3>1. frames'[i].saved = sp /\ frames'[i].top = sp + 1
      BY <2>1, <1>4, <1>6
    <3>2. i = 1 <=> Depth = 0
      BY <2>1, <1>3
    <3>3. Depth # 0 => frames'[i - 1] = frames[Depth]
      BY <2>1, <1>3, <1>4
    <3>. QED  BY <1>7, <3>1, <3>2, <3>3
  <2>2. CASE i # Depth + 1
    <3>1. i \in 1..Depth /\ (i # 1 => i - 1 \in 1..Depth)
      BY <2>2, <1>3, <1>4
    <3>2. frames'[i] = frames[i] /\ (i # 1 => frames'[i - 1] = frames[i - 1])
      BY <3>1, <1>4
    <3>. QED  BY <3>1, <3>2 DEF StackInv, StackDiscipline
  <2>. QED  BY <2>1, <2>2
<1>9. StackDiscipline'
  <2>1. Depth' # 0 /\ frames'[Depth'] = f
    BY <1>3, <1>4
  <2>2. sp' = frames'[Depth'].top
    BY <1>2, <1>6, <2>1
  <2>. QED  BY <1>8, <2>1, <2>2 DEF StackDiscipline, Top
<1>. QED  BY <1>5, <1>9 DEF StackInv

LEMMA GotoStack ==
  ASSUME StackInv, Depth > 0, NEW f \in Frame, f.saved = Top.saved, f.top = Top.top,
         Goto(f), sp' = sp
  PROVE  StackInv'
<1>1. frames \in Seq(Frame) /\ sp \in Nat /\ Depth \in Nat
  BY LenProperties DEF StackInv, StackTypes, Depth
<1>2. /\ frames' \in Seq(Frame)
      /\ Depth' = Depth
      /\ \A i \in 1..Depth : i # Depth => frames'[i] = frames[i]
      /\ frames'[Depth] = f
  BY <1>1, ChangeFrame DEF Goto, Depth
<1>3. \A i \in 1..Depth : frames'[i].saved = frames[i].saved /\ frames'[i].top = frames[i].top
  BY <1>2 DEF Top
<1>4. StackTypes'
  BY <1>1, <1>2 DEF StackTypes
<1>5. \A i \in 1..Depth' : /\ frames'[i].saved = IF i = 1 THEN 0 ELSE frames'[i - 1].top
                           /\ frames'[i].top = frames'[i].saved + 1
  <2>. SUFFICES ASSUME NEW i \in 1..Depth
               PROVE  /\ frames'[i].saved = IF i = 1 THEN 0 ELSE frames'[i - 1].top
                      /\ frames'[i].top = frames'[i].saved + 1
    BY <1>2
  <2>1. i # 1 => i - 1 \in 1..Depth
    BY <1>1
  <2>2. /\ frames[i].saved = IF i = 1 THEN 0 ELSE frames[i - 1].top
        /\ frames[i].top = frames[i].saved + 1
    BY DEF StackInv, StackDiscipline
  <2>3. i # 1 => frames'[i - 1].top = frames[i - 1].top
    BY <1>3, <2>1
  <2>. QED  BY <1>3, <2>2, <2>3
<1>6. StackDiscipline'
  <2>1. Depth \in 1..Depth
    BY <1>1
  <2>2. frames'[Depth].top = frames[Depth].top
    BY <1>3, <2>1
  <2>3. sp = frames[Depth].top
    BY <1>1 DEF StackInv, StackDiscipline, Top
  <2>4. sp' = frames'[Depth'].top
    BY <1>2, <2>2, <2>3
  <2>. QED  BY <1>1, <1>2, <1>5, <2>4 DEF StackDiscipline, Top
<1>. QED  BY <1>4, <1>6 DEF StackInv

LEMMA UnwindStack ==
  ASSUME StackInv, Depth > 0, Unwind(Top)
  PROVE  StackInv'
<1>1. frames \in Seq(Frame) /\ sp \in Nat /\ Depth \in Nat
  BY LenProperties DEF StackInv, StackTypes, Depth
<1>2. /\ frames' \in Seq(Frame)
      /\ Depth' = Depth - 1
      /\ \A i \in 1..(Depth - 1) : frames'[i] = frames[i]
  <2>1. frames' = SubSeq(frames, 1, Depth - 1)
    BY DEF Unwind
  <2>. QED  BY <1>1, <2>1, PopFrame DEF Depth
<1>3. sp' = Top.saved
  BY DEF Unwind
<1>4. StackTypes'
  BY <1>2, <1>3, TopFrame DEF StackTypes
<1>5. \A i \in 1..Depth' : /\ frames'[i].saved = IF i = 1 THEN 0 ELSE frames'[i - 1].top
                           /\ frames'[i].top = frames'[i].saved + 1
  BY <1>1, <1>2 DEF StackInv, StackDiscipline
<1>6. sp' = IF Depth' = 0 THEN 0 ELSE frames'[Depth'].top
  BY <1>1, <1>2, <1>3, TopFrame
<1>7. StackDiscipline'
  BY <1>5, <1>6 DEF StackDiscipline, Top
<1>. QED  BY <1>4, <1>7 DEF StackInv

\* A function that fails makes its caller fail before it is popped.
LEMMA FunctionStack ==
  ASSUME StackInv, NEW ok \in BOOLEAN, FunctionEnds(ok)
  PROVE  /\ StackInv'
         /\ Depth' = Depth - 1
         /\ \A i \in 1..(Depth - 1) :
              /\ frames'[i].stmt = frames[i].stmt /\ frames'[i].kind = frames[i].kind
              /\ frames'[i].pc = frames[i].pc \/ (i = Depth - 1 /\ frames'[i].pc = "fail")
<1>. DEFINE g(i) == IF i = Depth - 1 /\ ~ok THEN [frames[i] EXCEPT !.pc = "fail"] ELSE frames[i]
<1>1. Depth > 0 /\ Depth \in Nat /\ Depth - 1 \in Nat /\ frames \in Seq(Frame)
  BY TopFrame DEF FunctionEnds, In, StackInv, StackTypes
<1>2. \A i \in 1..(Depth - 1) : frames[i] \in Frame
  BY <1>1, ElementOfSeq DEF Depth
<1>3. \A i \in 1..(Depth - 1) :
        /\ g(i) \in Frame
        /\ g(i).saved = frames[i].saved /\ g(i).top = frames[i].top
        /\ g(i).stmt = frames[i].stmt /\ g(i).kind = frames[i].kind
        /\ g(i).pc = frames[i].pc \/ (i = Depth - 1 /\ g(i).pc = "fail")
  BY <1>2 DEF Frame
<1>4. frames' = [i \in 1..(Depth - 1) |-> g(i)] /\ sp' = Top.saved
  BY DEF FunctionEnds
<1>5. frames' \in Seq(Frame) /\ Depth' = Depth - 1 /\ \A i \in 1..(Depth - 1) : frames'[i] = g(i)
  BY <1>1, <1>3, <1>4 DEF Depth
<1>. HIDE DEF g
<1>6. StackTypes'
  BY <1>1, <1>4, <1>5, TopFrame DEF StackTypes
<1>7. \A i \in 1..(Depth - 1) : frames'[i].saved = frames[i].saved /\ frames'[i].top = frames[i].top
  BY <1>3, <1>5
<1>8. StackDiscipline'
  <2>1. \A i \in 1..Depth' : /\ frames'[i].saved = IF i = 1 THEN 0 ELSE frames'[i - 1].top
                             /\ frames'[i].top = frames'[i].saved + 1
    <3>. SUFFICES ASSUME NEW i \in 1..Depth'
         PROVE  /\ frames'[i].saved = IF i = 1 THEN 0 ELSE frames'[i - 1].top
                /\ frames'[i].top = frames'[i].saved + 1
      OBVIOUS
    <3>1. i \in 1..Depth /\ i \in 1..(Depth - 1) /\ (i # 1 => i - 1 \in 1..(Depth - 1))
      BY <1>1, <1>5
    <3>2. /\ frames[i].saved = IF i = 1 THEN 0 ELSE frames[i - 1].top
          /\ frames[i].top = frames[i].saved + 1
      BY <3>1 DEF StackInv, StackDiscipline
    <3>. QED  BY <1>7, <3>1, <3>2
  <2>2. sp' = IF Depth' = 0 THEN 0 ELSE frames'[Depth'].top
    BY <1>1, <1>4, <1>5, <1>7, TopFrame
  <2>. QED  BY <2>1, <2>2 DEF StackDiscipline, Top
<1>. QED  BY <1>3, <1>5, <1>6, <1>8 DEF StackInv

LEMMA StackStep ==
  ASSUME StackInv, [Next]_vars
  PROVE  StackInv'
<1>. USE ExecAssumption
<1>1. ASSUME NEW kind \in {"exec", "run"}, NEW text \in Texts, Begin(kind, text) PROVE StackInv'
  <2>1. Enter(kind, "next", text, NULL) /\ text \in Seq({"stmt", "empty", "bad"})
    BY <1>1 DEF Begin
  <2>. QED  BY <2>1, EnterStack
<1>2. ASSUME PrepareFails PROVE StackInv'
  <2>1. Depth > 0 /\ Goto([Top EXCEPT !.pc = "fail"]) /\ sp' = sp
    BY <1>2 DEF PrepareFails, In
  <2>2. [Top EXCEPT !.pc = "fail"] \in Frame
    BY <2>1, TopFrame DEF Frame
  <2>. QED  BY <2>1, <2>2, TopFrame, GotoStack DEF Frame
<1>3. ASSUME PrepareEmpty PROVE StackInv'
  <2>1. Depth > 0 /\ Top.text # << >> /\ Goto([Top EXCEPT !.text = Tail(@)]) /\ sp' = sp
    BY <1>3 DEF PrepareEmpty, In
  <2>2. Top \in Frame /\ Top.text \in Seq({"stmt", "empty", "bad"})
    BY <2>1, TopFrame DEF Frame
  <2>3. Tail(Top.text) \in Seq({"stmt", "empty", "bad"})
    BY <2>1, <2>2, HeadTailProperties
  <2>4. [Top EXCEPT !.text = Tail(@)] \in Frame
    BY <2>2, <2>3 DEF Frame
  <2>. QED  BY <2>1, <2>2, <2>4, GotoStack DEF Frame
<1>5. ASSUME Done PROVE StackInv'
  <2>. DEFINE f == [Freed(Top) EXCEPT !.pc = "next"]
  <2>1. Depth > 0 /\ Goto(f) /\ sp' = sp
    BY <1>5 DEF Done, In
  <2>2. Top \in Frame
    BY <2>1, TopFrame DEF Frame
  <2>3. f = [Top EXCEPT !.stmt = NULL, !.pc = "next"]
    BY <2>2 DEF Frame, Freed
  <2>. HIDE DEF f
  <2>4. f \in Frame /\ f.saved = Top.saved /\ f.top = Top.top
    BY <2>2, <2>3 DEF Frame
  <2>. QED  BY <2>1, <2>4, GotoStack
<1>6. ASSUME Return PROVE StackInv'
  BY <1>6, UnwindStack DEF Return, In
<1>7. ASSUME StepFails PROVE StackInv'
  <2>1. Depth > 0 /\ Goto([Top EXCEPT !.pc = "fail"]) /\ sp' = sp
    BY <1>7 DEF StepFails, In
  <2>2. [Top EXCEPT !.pc = "fail"] \in Frame
    BY <2>1, TopFrame DEF Frame
  <2>. QED  BY <2>1, <2>2, TopFrame, GotoStack DEF Frame
<1>8. ASSUME Throw PROVE StackInv'
  BY <1>8, UnwindStack DEF Throw, In
<1>9. ASSUME NEW v \in Vdbes, NEW pc \in {"step", "fail"}, PrepareNext(v, pc) PROVE StackInv'
  <2>. DEFINE f == [Top EXCEPT !.text = Tail(@), !.stmt = v, !.pc = pc]
  <2>1. Depth > 0 /\ Top.text # << >> /\ Goto(f) /\ sp' = sp
    BY <1>9 DEF PrepareNext, In
  <2>2. Top \in Frame /\ Top.text \in Seq({"stmt", "empty", "bad"})
    BY <2>1, TopFrame DEF Frame
  <2>3. Tail(Top.text) \in Seq({"stmt", "empty", "bad"})
    BY <2>1, <2>2, HeadTailProperties
  <2>4. f \in Frame /\ f.saved = Top.saved /\ f.top = Top.top
    BY <2>2, <2>3 DEF Frame
  <2>. QED  BY <2>1, <2>4, GotoStack
<1>10. ASSUME NEW v \in Vdbes, Step(v) PROVE StackInv'
  <2>1. Enter("step", "step", << >>, v) /\ << >> \in Seq({"stmt", "empty", "bad"})
    BY <1>10 DEF Step
  <2>. QED  BY <2>1, EnterStack
<1>11. ASSUME StepEnds PROVE StackInv'
  BY <1>11, UnwindStack DEF StepEnds, In
<1>12. ASSUME Call PROVE StackInv'
  <2>1. Enter("function", "run", << >>, NULL) /\ << >> \in Seq({"stmt", "empty", "bad"})
    BY <1>12 DEF Call
  <2>. QED  BY <2>1, EnterStack
<1>13. ASSUME NEW ok \in BOOLEAN, FunctionEnds(ok) PROVE StackInv'
  BY <1>13, FunctionStack
<1>14. ASSUME UNCHANGED <<frames, sp>> PROVE StackInv'
  BY <1>14 DEF StackInv, StackTypes, StackDiscipline, Depth, Top
<1>15. ASSUME NEW v \in Vdbes, CreateStatement(v) \/ Prepare(v) \/ PrepareThrows(v) \/ Free(v)
       PROVE  StackInv'
  BY <1>14, <1>15 DEF CreateStatement, Prepare, PrepareThrows, Compiled, Free
<1>16. ASSUME Close \/ New \/ UNCHANGED vars PROVE StackInv'
  BY <1>14, <1>16 DEF Close, New, vars
<1>. QED
  BY <1>1, <1>2, <1>3, <1>5, <1>6, <1>7, <1>8, <1>9, <1>10, <1>11, <1>12, <1>13, <1>15, <1>16
  DEF Next

LEMMA StackInvariant == Spec => []StackInv
<1>1. Init => StackInv
  BY DEF Init, StackInv, StackTypes, StackDiscipline, Depth
<1>. QED  BY <1>1, StackStep, PTL DEF Spec

\* Whatever functions do inside a statement, and although they may close the database, every call
\* finds the stack as it left it.
THEOREM StackIsDisciplined == Spec => []StackDiscipline
  BY StackInvariant, PTL DEF StackInv

(***************************************************************************)
(* The callers of functions                                                *)
(***************************************************************************)
\* A function is called from a statement that is being stepped, and stays above it.
Callers ==
  \A i \in 1..Depth :
    /\ frames[i].kind # "function" /\ frames[i].pc = "step" => frames[i].stmt \in Vdbes
    /\ frames[i].kind = "function" =>
         i > 1 /\ frames[i - 1].kind # "function" /\ frames[i - 1].pc = "step"

LEMMA EnterCallers ==
  ASSUME StackInv, Callers,
         NEW kind, NEW pc, NEW text, NEW v, Enter(kind, pc, text, v),
         kind # "function" /\ pc = "step" => v \in Vdbes,
         kind = "function" => Depth > 0 /\ Top.kind # "function" /\ Top.pc = "step"
  PROVE  Callers'
<1>. DEFINE f == [kind |-> kind, pc |-> pc, text |-> text, stmt |-> v,
                  saved |-> sp, top |-> sp + 1]
<1>1. frames \in Seq(Frame) /\ Depth \in Nat
  BY LenProperties DEF StackInv, StackTypes, Depth
<1>2. /\ Depth' = Depth + 1
      /\ \A i \in 1..Depth : frames'[i] = frames[i]
      /\ frames'[Depth + 1] = f
  BY <1>1, AppendProperties DEF Enter, Depth
<1>3. f.kind = kind /\ f.pc = pc /\ f.stmt = v
  OBVIOUS
<1>. HIDE DEF f
<1>4. ASSUME NEW i \in 1..Depth', i # Depth + 1
      PROVE  /\ frames'[i].kind # "function" /\ frames'[i].pc = "step" => frames'[i].stmt \in Vdbes
             /\ frames'[i].kind = "function" =>
                  i > 1 /\ frames'[i - 1].kind # "function" /\ frames'[i - 1].pc = "step"
  <2>1. i \in 1..Depth /\ (i > 1 => i - 1 \in 1..Depth)
    BY <1>1, <1>2, <1>4
  <2>. QED  BY <1>2, <2>1 DEF Callers
<1>5. kind = "function" => Depth + 1 > 1 /\ frames'[Depth + 1 - 1] = Top
  BY <1>1, <1>2 DEF Top
<1>6. /\ f.kind # "function" /\ f.pc = "step" => f.stmt \in Vdbes
      /\ f.kind = "function" => Depth + 1 > 1 /\ frames'[Depth + 1 - 1].kind # "function"
                                /\ frames'[Depth + 1 - 1].pc = "step"
  BY <1>3, <1>5
<1>7. ASSUME NEW i \in 1..Depth'
      PROVE  /\ frames'[i].kind # "function" /\ frames'[i].pc = "step" => frames'[i].stmt \in Vdbes
             /\ frames'[i].kind = "function" =>
                  i > 1 /\ frames'[i - 1].kind # "function" /\ frames'[i - 1].pc = "step"
  <2>1. CASE i = Depth + 1
    <3>1. frames'[i] = f /\ i - 1 = Depth + 1 - 1
      BY <2>1, <1>1, <1>2
    <3>. QED  BY <2>1, <3>1, <1>6
  <2>2. CASE i # Depth + 1
    BY <2>2, <1>4
  <2>. QED  BY <2>1, <2>2
<1>. QED  BY <1>7 DEF Callers

LEMMA GotoCallers ==
  ASSUME StackInv, Callers, Depth > 0, NEW f \in Frame, Goto(f),
         f.kind = Top.kind, Top.kind # "function",
         f.pc = "step" => f.stmt \in Vdbes
  PROVE  Callers'
<1>1. frames \in Seq(Frame) /\ Depth \in Nat
  BY LenProperties DEF StackInv, StackTypes, Depth
<1>2. /\ Depth' = Depth
      /\ \A i \in 1..Depth : i # Depth => frames'[i] = frames[i]
      /\ frames'[Depth] = f
  BY <1>1, ChangeFrame DEF Goto, Depth
<1>3. ASSUME NEW i \in 1..Depth, i # Depth
      PROVE  /\ frames'[i] = frames[i]
             /\ i > 1 => frames'[i - 1] = frames[i - 1]
  <2>1. i > 1 => i - 1 \in 1..Depth /\ i - 1 # Depth
    BY <1>1
  <2>. QED  BY <1>2, <1>3, <2>1
<1>. QED  BY <1>2, <1>3 DEF Callers

LEMMA PopCallers ==
  ASSUME StackInv, Callers, Depth > 0, Depth' = Depth - 1,
         \A i \in 1..(Depth - 1) :
           /\ frames'[i].stmt = frames[i].stmt /\ frames'[i].kind = frames[i].kind
           /\ frames'[i].pc = frames[i].pc \/ (i = Depth - 1 /\ frames'[i].pc = "fail")
  PROVE  Callers'
<1>1. Depth \in Nat
  BY TopFrame
<1>2. ASSUME NEW i \in 1..(Depth - 1)
      PROVE  /\ i \in 1..Depth
             /\ i > 1 => i - 1 \in 1..(Depth - 1) /\ i - 1 # Depth - 1
  BY <1>1
<1>3. ASSUME NEW i \in 1..(Depth - 1), i > 1
      PROVE  frames'[i - 1].kind = frames[i - 1].kind /\ frames'[i - 1].pc = frames[i - 1].pc
  BY <1>2, <1>3
<1>. QED  BY <1>2, <1>3 DEF Callers

LEMMA UnwoundFrames ==
  ASSUME StackInv, Depth > 0, Unwind(Top)
  PROVE  /\ Depth' = Depth - 1
         /\ \A i \in 1..(Depth - 1) : frames'[i] = frames[i]
<1>1. frames \in Seq(Frame) /\ Depth \in Nat
  BY LenProperties DEF StackInv, StackTypes, Depth
<1>2. frames' = SubSeq(frames, 1, Depth - 1)
  BY DEF Unwind
<1>. QED  BY <1>1, <1>2, PopFrame DEF Depth

LEMMA CallersStep ==
  ASSUME StackInv, Callers, [Next]_vars
  PROVE  Callers'
<1>. USE ExecAssumption
<1>1. ASSUME NEW kind \in {"exec", "run"}, NEW text \in Texts, Begin(kind, text) PROVE Callers'
  BY <1>1, EnterCallers DEF Begin
<1>2. ASSUME PrepareFails \/ StepFails PROVE Callers'
  <2>. DEFINE f == [Top EXCEPT !.pc = "fail"]
  <2>1. Depth > 0 /\ Goto(f) /\ Top.kind # "function"
    BY <1>2 DEF PrepareFails, StepFails, In
  <2>2. f \in Frame /\ f.kind = Top.kind /\ f.pc = "fail"
    BY <2>1, TopFrame DEF Frame
  <2>. HIDE DEF f
  <2>. QED  BY <2>1, <2>2, GotoCallers
<1>3. ASSUME PrepareEmpty PROVE Callers'
  <2>. DEFINE f == [Top EXCEPT !.text = Tail(@)]
  <2>1. Depth > 0 /\ Top.text # << >> /\ Top.pc = "next" /\ Top.kind # "function" /\ Goto(f)
    BY <1>3 DEF PrepareEmpty, In
  <2>2. Top \in Frame /\ Tail(Top.text) \in Seq({"stmt", "empty", "bad"})
    BY <2>1, TopFrame, HeadTailProperties DEF Frame
  <2>3. f \in Frame /\ f.kind = Top.kind /\ f.pc = "next"
    BY <2>1, <2>2 DEF Frame
  <2>. HIDE DEF f
  <2>. QED  BY <2>1, <2>3, GotoCallers
<1>4. ASSUME NEW v \in Vdbes, NEW pc \in {"step", "fail"}, PrepareNext(v, pc) PROVE Callers'
  <2>. DEFINE f == [Top EXCEPT !.text = Tail(@), !.stmt = v, !.pc = pc]
  <2>1. Depth > 0 /\ Top.text # << >> /\ Top.kind # "function" /\ Goto(f)
    BY <1>4 DEF PrepareNext, In
  <2>2. Top \in Frame /\ Tail(Top.text) \in Seq({"stmt", "empty", "bad"})
    BY <2>1, TopFrame, HeadTailProperties DEF Frame
  <2>3. f \in Frame /\ f.kind = Top.kind /\ f.stmt = v
    BY <2>1, <2>2 DEF Frame
  <2>. HIDE DEF f
  <2>. QED  BY <2>1, <2>3, GotoCallers
<1>5. ASSUME Done PROVE Callers'
  <2>. DEFINE f == [Freed(Top) EXCEPT !.pc = "next"]
  <2>1. Depth > 0 /\ Goto(f) /\ Top.kind # "function"
    BY <1>5 DEF Done, In
  <2>2. f = [Top EXCEPT !.stmt = NULL, !.pc = "next"]
    BY <2>1, TopFrame DEF Frame, Freed
  <2>3. f \in Frame /\ f.kind = Top.kind /\ f.pc = "next"
    BY <2>1, <2>2, TopFrame DEF Frame
  <2>. HIDE DEF f
  <2>. QED  BY <2>1, <2>3, GotoCallers
<1>6. ASSUME Return \/ Throw \/ StepEnds PROVE Callers'
  <2>1. Depth > 0 /\ Unwind(Top)
    BY <1>6 DEF Return, Throw, StepEnds, In
  <2>. QED  BY <2>1, UnwoundFrames, PopCallers
<1>7. ASSUME NEW v \in Vdbes, Step(v) PROVE Callers'
  BY <1>7, EnterCallers DEF Step
<1>8. ASSUME Call PROVE Callers'
  BY <1>8, EnterCallers DEF Call, In
<1>9. ASSUME NEW ok \in BOOLEAN, FunctionEnds(ok) PROVE Callers'
  <2>1. Depth > 0
    BY <1>9 DEF FunctionEnds, In
  <2>. QED  BY <1>9, <2>1, FunctionStack, PopCallers
<1>10. ASSUME frames' = frames PROVE Callers'
  BY <1>10 DEF Callers, Depth
<1>11. ASSUME NEW v \in Vdbes, CreateStatement(v) \/ Prepare(v) \/ PrepareThrows(v) \/ Free(v)
       PROVE  Callers'
  BY <1>10, <1>11 DEF CreateStatement, Prepare, PrepareThrows, Compiled, Free
<1>12. ASSUME Close \/ New \/ UNCHANGED vars PROVE Callers'
  BY <1>10, <1>12 DEF Close, New, vars
<1>. QED
  BY <1>1, <1>2, <1>3, <1>4, <1>5, <1>6, <1>7, <1>8, <1>9, <1>11, <1>12 DEF Next

(***************************************************************************)
(* The statements                                                          *)
(***************************************************************************)
\* Owned is not inductive: a call that waits to compile its next piece has given up the statement of
\* the last, or what it compiles would take the place of one that is still live.
Waiting ==
  \A i \in 1..Depth :
    frames[i].kind \in {"exec", "run"} /\ frames[i].pc = "next" => frames[i].stmt = NULL

\* What runs on its own in Statement.step is the registry's or the program's, under the rule of
\* sqlite3.h.
Stepped == \A i \in 1..Depth : frames[i].kind = "step" => frames[i].stmt \in prepared \cup created

OwnedInv == live \subseteq Vdbes /\ Owned /\ Waiting

LEMMA TopOwned ==
  ASSUME StackInv, OwnedInv, Depth > 0
  PROVE  /\ Depth \in Nat /\ Depth \in 1..Depth /\ Top \in Frame
         /\ Top.kind \in {"exec", "run"} => Top.stmt \in live \cup {NULL} /\ Top.stmt \notin Loose \ {NULL}
         /\ \A i \in Owners : Top.kind \in {"exec", "run"} /\ frames[i].stmt = Top.stmt => i = Depth
<1>1. Depth \in Nat /\ Depth \in 1..Depth /\ Top \in Frame
  BY TopFrame
<1>2. Top.kind \in {"exec", "run"} /\ Top.stmt # NULL => Depth \in Owners
  BY <1>1 DEF Owners, Top
<1>3. ASSUME Top.kind \in {"exec", "run"}
      PROVE  Top.stmt \in live \cup {NULL} /\ Top.stmt \notin Loose \ {NULL}
  BY <1>2, <1>3 DEF OwnedInv, Owned, Top
<1>4. ASSUME NEW i \in Owners, Top.kind \in {"exec", "run"}, frames[i].stmt = Top.stmt
      PROVE  i = Depth
  <2>1. Top.stmt # NULL
    BY <1>4 DEF Owners
  <2>. QED  BY <1>2, <1>4, <2>1 DEF OwnedInv, Owned, Top
<1>. QED  BY <1>1, <1>3, <1>4

\* A call without a statement of its own begins.
LEMMA EnterOwned ==
  ASSUME StackInv, OwnedInv, NEW kind, NEW pc, NEW text, NEW v, Enter(kind, pc, text, v),
         UNCHANGED <<live, owners>>, kind \notin {"exec", "run"} \/ v = NULL
  PROVE  OwnedInv'
<1>. DEFINE f == [kind |-> kind, pc |-> pc, text |-> text, stmt |-> v,
                  saved |-> sp, top |-> sp + 1]
<1>1. frames \in Seq(Frame) /\ Depth \in Nat
  BY LenProperties DEF StackInv, StackTypes, Depth
<1>2. /\ Depth' = Depth + 1
      /\ \A i \in 1..Depth : frames'[i] = frames[i]
      /\ frames'[Depth + 1] = f
  BY <1>1, AppendProperties DEF Enter, Depth
<1>3. f.kind = kind /\ f.pc = pc /\ f.stmt = v
  OBVIOUS
<1>. HIDE DEF f
<1>4. \A i \in 1..Depth' : i \in 1..Depth \/ i = Depth + 1
  BY <1>1, <1>2
<1>5. Waiting'
  BY <1>2, <1>3, <1>4 DEF OwnedInv, Waiting
<1>6. Owners' = Owners
  <2>1. ASSUME NEW i \in Owners' PROVE i \in Owners
    BY <1>2, <1>3, <1>4 DEF Owners
  <2>2. ASSUME NEW i \in Owners PROVE i \in Owners'
    <3>1. i \in 1..Depth'
      BY <1>1, <1>2 DEF Owners
    <3>. QED  BY <1>2, <3>1 DEF Owners
  <2>. QED  BY <2>1, <2>2
<1>7. \A i \in Owners : frames'[i] = frames[i]
  BY <1>2 DEF Owners
<1>8. Owned'
  BY <1>6, <1>7 DEF OwnedInv, Owned, Loose, owners
<1>. QED  BY <1>5, <1>8 DEF OwnedInv

\* An exec or run at the top changes the statement it has for another, or for none.
LEMMA GotoOwned ==
  ASSUME StackInv, OwnedInv, Depth > 0, NEW f \in Frame, Goto(f), f.kind = Top.kind,
         UNCHANGED owners,
         f.pc = "next" => f.stmt = NULL,
         \/ f.stmt = Top.stmt /\ live' = live
         \/ /\ f.kind \in {"exec", "run"}
            /\ f.stmt = NULL \/ f.stmt \notin live
            /\ live' = (live \ {Top.stmt}) \cup ({f.stmt} \ {NULL})
  PROVE  OwnedInv'
<1>1. frames \in Seq(Frame) /\ Depth \in Nat /\ Depth \in 1..Depth
  BY TopOwned DEF StackInv, StackTypes
<1>2. /\ Depth' = Depth
      /\ \A i \in 1..Depth : i # Depth => frames'[i] = frames[i]
      /\ frames'[Depth] = f
  BY <1>1, ChangeFrame DEF Goto, Depth
<1>3. Waiting'
  BY <1>2 DEF OwnedInv, Waiting
<1>4. CASE f.stmt = Top.stmt /\ live' = live
  <2>1. \A i \in 1..Depth : frames'[i].kind = frames[i].kind /\ frames'[i].stmt = frames[i].stmt
    BY <1>2, <1>4 DEF Top
  <2>2. Owners' = Owners
    BY <1>2, <2>1 DEF Owners
  <2>3. \A i \in Owners : frames'[i].stmt = frames[i].stmt
    BY <2>1 DEF Owners
  <2>4. Owned'
    BY <1>4, <2>2, <2>3 DEF OwnedInv, Owned, Loose, owners
  <2>. QED  BY <1>3, <1>4, <2>4 DEF OwnedInv
<1>5. CASE /\ f.kind \in {"exec", "run"}
           /\ f.stmt = NULL \/ f.stmt \notin live
           /\ live' = (live \ {Top.stmt}) \cup ({f.stmt} \ {NULL})
  <2>. DEFINE Others == {i \in Owners : i # Depth}
  <2>1. \A i \in Others : frames'[i].stmt = frames[i].stmt /\ frames[i].stmt \in live
                          /\ frames[i].stmt # Top.stmt /\ i \in Owners'
    BY <1>2, <1>5, TopOwned DEF OwnedInv, Owned, Owners
  <2>2. \A i \in Owners' : i \in Others \/ (i = Depth /\ f.stmt # NULL)
    BY <1>2 DEF Owners
  <2>3. f.stmt # NULL => Depth \in Owners' /\ frames'[Depth].stmt = f.stmt
    BY <1>1, <1>2, <1>5 DEF Owners
  <2>. HIDE DEF Others
  <2>4. \A i \in Owners : i \in Others \/ frames[i].stmt = Top.stmt
    BY DEF Others, Top
  <2>5. Loose' = Loose /\ Loose \subseteq live /\ NULL \notin live
    BY ExecAssumption DEF Loose, owners, OwnedInv, Owned
  <2>6. Top.stmt \notin Loose
    BY <1>5, <2>5, TopOwned
  <2>7. f.stmt \in Vdbes \cup {NULL}
    BY DEF Frame
  <2>8. ASSUME NEW x \in live' PROVE x \in Loose' \cup {frames'[i].stmt : i \in Owners'}
    <3>1. CASE x = f.stmt /\ x # NULL
      BY <2>3, <3>1
    <3>2. CASE x \in live /\ x # Top.stmt /\ x \notin Loose
      <4>1. PICK i \in Owners : x = frames[i].stmt
        BY <3>2 DEF OwnedInv, Owned
      <4>2. i \in Others
        BY <2>4, <3>2, <4>1
      <4>. QED  BY <2>1, <4>1, <4>2
    <3>. QED  BY <1>5, <2>5, <3>1, <3>2
  <2>9. ASSUME NEW i \in Owners' PROVE frames'[i].stmt \in live' /\ frames'[i].stmt \notin Loose'
    <3>1. CASE i \in Others
      <4>1. i \in Owners
        BY <3>1 DEF Others
      <4>2. frames[i].stmt \in live' /\ frames[i].stmt \notin Loose
        BY <1>5, <2>1, <3>1, <4>1 DEF OwnedInv, Owned
      <4>. QED  BY <2>1, <2>5, <3>1, <4>2
    <3>2. CASE i = Depth /\ f.stmt # NULL
      BY <1>5, <2>3, <2>5, <3>2
    <3>. QED  BY <2>2, <3>1, <3>2
  <2>10. ASSUME NEW i \in Owners', NEW j \in Owners', frames'[i].stmt = frames'[j].stmt
         PROVE  i = j
    <3>1. CASE i \in Others /\ j \in Others
      BY <2>1, <2>10, <3>1 DEF OwnedInv, Owned, Others
    <3>2. CASE i = Depth /\ j = Depth
      BY <3>2
    <3>3. ASSUME NEW k \in Others, f.stmt # NULL, frames'[k].stmt = f.stmt PROVE FALSE
      BY <1>5, <2>1, <3>3
    <3>. QED  BY <2>2, <2>3, <2>10, <3>1, <3>2, <3>3
  <2>11. live' = Loose' \cup {frames'[i].stmt : i \in Owners'}
    <3>1. Loose' \subseteq live'
      BY <1>5, <2>5, <2>6
    <3>. QED  BY <2>8, <2>9, <3>1
  <2>12. Owned'
    BY <2>9, <2>10, <2>11 DEF Owned, OwnedInv, owners
  <2>13. live' \subseteq Vdbes
    BY <1>5, <2>7 DEF OwnedInv
  <2>. QED  BY <1>3, <2>12, <2>13 DEF OwnedInv
<1>. QED  BY <1>4, <1>5

\* A call leaves, and with it the statement it had.
LEMMA PopOwned ==
  ASSUME StackInv, OwnedInv, Depth > 0, Depth' = Depth - 1,
         \A i \in 1..(Depth - 1) :
           /\ frames'[i].stmt = frames[i].stmt /\ frames'[i].kind = frames[i].kind
           /\ frames'[i].pc = frames[i].pc \/ (i = Depth - 1 /\ frames'[i].pc = "fail"),
         UNCHANGED owners,
         live' = IF Top.kind \in {"exec", "run"} THEN live \ {Top.stmt} ELSE live
  PROVE  OwnedInv'
<1>1. Depth \in Nat /\ \A i \in 1..(Depth - 1) : i \in 1..Depth /\ i # Depth
  BY TopOwned
<1>2. Waiting'
  BY <1>1 DEF OwnedInv, Waiting
<1>3. \A i \in 1..Depth : i \in 1..(Depth - 1) \/ i = Depth
  BY <1>1
<1>4. Owners' = {i \in Owners : i # Depth}
  BY <1>1, <1>3 DEF Owners
<1>5. \A i \in Owners' : frames'[i].stmt = frames[i].stmt /\ i \in Owners /\ i # Depth
  BY <1>1, <1>4 DEF Owners
<1>6. Loose' = Loose /\ Loose \subseteq live /\ NULL \notin live /\ live' \subseteq Vdbes
  BY ExecAssumption DEF Loose, owners, OwnedInv, Owned
<1>7. ASSUME NEW x \in live' PROVE x \in Loose' \cup {frames'[i].stmt : i \in Owners'}
  <2>1. CASE x \in Loose
    BY <1>6, <2>1
  <2>2. CASE x \notin Loose
    <3>1. x \in live
      BY <1>7
    <3>2. PICK i \in Owners : x = frames[i].stmt
      BY <2>2, <3>1 DEF OwnedInv, Owned
    <3>3. i # Depth
      BY <1>7, <3>2 DEF Owners, Top
    <3>. QED  BY <1>4, <1>5, <3>2, <3>3
  <2>. QED  BY <2>1, <2>2
<1>8. ASSUME NEW i \in Owners' PROVE frames'[i].stmt \in live' /\ frames'[i].stmt \notin Loose'
  <2>1. frames[i].stmt \in live /\ frames[i].stmt \notin Loose
    BY <1>5 DEF OwnedInv, Owned
  <2>2. Top.kind \in {"exec", "run"} => frames[i].stmt # Top.stmt
    BY <1>5, TopOwned
  <2>. QED  BY <1>5, <1>6, <2>1, <2>2
<1>9. \A i, j \in Owners' : frames'[i].stmt = frames'[j].stmt => i = j
  BY <1>5 DEF OwnedInv, Owned
<1>10. live' = Loose' \cup {frames'[i].stmt : i \in Owners'}
  <2>1. Loose' \subseteq live'
    BY <1>6, TopOwned
  <2>. QED  BY <1>7, <1>8, <2>1
<1>11. Owned'
  BY <1>8, <1>9, <1>10 DEF Owned, OwnedInv, owners
<1>. QED  BY <1>2, <1>6, <1>11 DEF OwnedInv

\* Statements without a call come and go.
LEMMA LooseOwned ==
  ASSUME OwnedInv, frames' = frames,
         prepared' \cap created' = {}, lost' \cap (prepared' \cup created') = {},
         NEW N \in SUBSET Vdbes, N \cap live = {}, NEW R \in SUBSET Loose,
         live' = (live \ R) \cup N, Loose' = (Loose \ R) \cup N
  PROVE  OwnedInv'
<1>1. Depth' = Depth /\ Owners' = Owners /\ Waiting'
  BY DEF Depth, Owners, OwnedInv, Waiting
<1>2. \A i \in Owners : frames[i].stmt \in live /\ frames[i].stmt \notin Loose
  BY DEF OwnedInv, Owned
<1>3. live' = Loose' \cup {frames'[i].stmt : i \in Owners'}
  <2>1. live \ Loose = {frames[i].stmt : i \in Owners} /\ Loose \subseteq live
    BY <1>2 DEF OwnedInv, Owned
  <2>. QED  BY <1>1, <2>1
<1>4. \A i \in Owners' : frames'[i].stmt \notin Loose'
  BY <1>1, <1>2
<1>5. \A i, j \in Owners' : frames'[i].stmt = frames'[j].stmt => i = j
  BY <1>1 DEF OwnedInv, Owned
<1>6. Owned'
  BY <1>3, <1>4, <1>5 DEF Owned
<1>. QED  BY <1>1, <1>6 DEF OwnedInv

LEMMA CompiledOwned ==
  ASSUME OwnedInv, NEW v \in Vdbes, CreateStatement(v) \/ Prepare(v) \/ PrepareThrows(v)
  PROVE  OwnedInv'
<1>1. v \notin live /\ live' = live \cup {v} /\ frames' = frames
  BY DEF CreateStatement, Prepare, PrepareThrows, Compiled
<1>2. v \notin prepared /\ v \notin created /\ v \notin lost
  BY <1>1 DEF OwnedInv, Owned, Loose
<1>3. prepared' \cap created' = {} /\ lost' \cap (prepared' \cup created') = {}
      /\ Loose' = Loose \cup {v}
  BY <1>2 DEF CreateStatement, Prepare, PrepareThrows, OwnedInv, Owned, Loose
<1>4. {v} \in SUBSET Vdbes /\ {v} \cap live = {} /\ {} \in SUBSET Loose
      /\ live' = (live \ {}) \cup {v} /\ Loose' = (Loose \ {}) \cup {v}
  BY <1>1, <1>3
<1>. QED  BY <1>1, <1>3, <1>4, LooseOwned

LEMMA FreedOwned ==
  ASSUME OwnedInv, NEW v \in Vdbes, Free(v)
  PROVE  OwnedInv' /\ (misused \in BOOLEAN => misused' = misused)
<1>1. /\ v \in prepared \cup created /\ live' = live \ {v} /\ frames' = frames
      /\ prepared' = prepared \ {v} /\ created' = created \ {v} /\ lost' = lost
      /\ misused' = (misused \/ v \notin live \cup {NULL})
  BY DEF Free, Finalize
<1>2. v \in Loose /\ v \notin lost /\ v \in live
  BY <1>1 DEF OwnedInv, Owned, Loose
<1>3. prepared' \cap created' = {} /\ lost' \cap (prepared' \cup created') = {}
      /\ Loose' = Loose \ {v}
  BY <1>1, <1>2 DEF OwnedInv, Owned, Loose
<1>4. {v} \in SUBSET Loose /\ {} \in SUBSET Vdbes /\ {} \cap live = {}
      /\ live' = (live \ {v}) \cup {} /\ Loose' = (Loose \ {v}) \cup {}
  BY <1>1, <1>2, <1>3
<1>5. OwnedInv'
  BY <1>1, <1>3, <1>4, LooseOwned
<1>. QED  BY <1>1, <1>2, <1>5

LEMMA ClosedOwned ==
  ASSUME OwnedInv, Close
  PROVE  OwnedInv'
<1>1. live' = live \ prepared /\ prepared' = {} /\ frames' = frames /\ UNCHANGED <<created, lost>>
  BY DEF Close
<1>2. prepared' \cap created' = {} /\ lost' \cap (prepared' \cup created') = {}
      /\ Loose' = Loose \ prepared
  BY <1>1 DEF OwnedInv, Owned, Loose
<1>3. prepared \in SUBSET Loose /\ {} \in SUBSET Vdbes /\ {} \cap live = {}
      /\ live' = (live \ prepared) \cup {} /\ Loose' = (Loose \ prepared) \cup {}
  BY <1>1, <1>2 DEF Loose
<1>. QED  BY <1>1, <1>2, <1>3, LooseOwned

LEMMA OwnedStep ==
  ASSUME StackInv, Callers, OwnedInv, [Next]_vars
  PROVE  OwnedInv'
<1>. USE ExecAssumption
<1>1. ASSUME NEW kind \in {"exec", "run"}, NEW text \in Texts, Begin(kind, text) PROVE OwnedInv'
  BY <1>1, EnterOwned DEF Begin
<1>2. ASSUME PrepareFails \/ StepFails PROVE OwnedInv'
  <2>. DEFINE f == [Top EXCEPT !.pc = "fail"]
  <2>1. Depth > 0 /\ Goto(f) /\ UNCHANGED <<live, owners>>
    BY <1>2 DEF PrepareFails, StepFails, In
  <2>2. f \in Frame /\ f.kind = Top.kind /\ f.stmt = Top.stmt /\ f.pc = "fail"
    BY <2>1, TopOwned DEF Frame
  <2>. HIDE DEF f
  <2>. QED  BY <2>1, <2>2, GotoOwned
<1>3. ASSUME PrepareEmpty PROVE OwnedInv'
  <2>. DEFINE f == [Top EXCEPT !.text = Tail(@)]
  <2>1. Depth > 0 /\ Top.text # << >> /\ Top.pc = "next" /\ Top.kind \in {"exec", "run"} /\ Goto(f)
        /\ UNCHANGED <<live, owners>>
    BY <1>3 DEF PrepareEmpty, In
  <2>2. Top \in Frame /\ Top.stmt = NULL
    BY <2>1, TopOwned DEF OwnedInv, Waiting, Top
  <2>3. Tail(Top.text) \in Seq({"stmt", "empty", "bad"})
    BY <2>1, <2>2, HeadTailProperties DEF Frame
  <2>4. f \in Frame /\ f.kind = Top.kind /\ f.stmt = Top.stmt
    BY <2>1, <2>2, <2>3 DEF Frame
  <2>. HIDE DEF f
  <2>. QED  BY <2>1, <2>2, <2>4, GotoOwned
<1>4. ASSUME NEW v \in Vdbes, NEW pc \in {"step", "fail"}, PrepareNext(v, pc) PROVE OwnedInv'
  <2>. DEFINE f == [Top EXCEPT !.text = Tail(@), !.stmt = v, !.pc = pc]
  <2>1. Depth > 0 /\ Top.text # << >> /\ Top.pc = "next" /\ Top.kind \in {"exec", "run"} /\ Goto(f)
        /\ v \notin live /\ live' = live \cup {v} /\ UNCHANGED owners
    BY <1>4 DEF PrepareNext, In
  <2>2. Top \in Frame /\ Top.stmt = NULL
    BY <2>1, TopOwned DEF OwnedInv, Waiting, Top
  <2>3. Tail(Top.text) \in Seq({"stmt", "empty", "bad"})
    BY <2>1, <2>2, HeadTailProperties DEF Frame
  <2>4. f \in Frame /\ f.kind = Top.kind /\ f.stmt = v /\ f.pc # "next"
    BY <2>1, <2>2, <2>3 DEF Frame
  <2>. HIDE DEF f
  <2>5. live' = (live \ {Top.stmt}) \cup ({f.stmt} \ {NULL})
    BY <2>1, <2>2, <2>4 DEF OwnedInv
  <2>. QED  BY <2>1, <2>4, <2>5, GotoOwned
<1>5. ASSUME Done PROVE OwnedInv'
  <2>. DEFINE f == [Freed(Top) EXCEPT !.pc = "next"]
  <2>1. Depth > 0 /\ Top.kind \in {"exec", "run"} /\ Goto(f) /\ UNCHANGED owners
        /\ live' = live \ {Top.stmt}
    BY <1>5 DEF Done, In, Finalize
  <2>2. f = [Top EXCEPT !.stmt = NULL, !.pc = "next"]
    BY <2>1, TopOwned DEF Frame, Freed
  <2>3. f \in Frame /\ f.kind = Top.kind /\ f.stmt = NULL
    BY <2>1, <2>2, TopOwned DEF Frame
  <2>. HIDE DEF f
  <2>4. live' = (live \ {Top.stmt}) \cup ({f.stmt} \ {NULL})
    BY <2>1, <2>3
  <2>. QED  BY <2>1, <2>3, <2>4, GotoOwned
<1>6. ASSUME Return PROVE OwnedInv'
  <2>1. Depth > 0 /\ Top.pc = "next" /\ Top.kind \in {"exec", "run"} /\ Unwind(Top)
        /\ UNCHANGED <<live, owners>>
    BY <1>6 DEF Return, In
  <2>2. Top.stmt = NULL
    BY <2>1, TopOwned DEF OwnedInv, Waiting, Top
  <2>3. live' = live \ {Top.stmt}
    BY <2>1, <2>2 DEF OwnedInv
  <2>. QED  BY <2>1, <2>3, UnwoundFrames, PopOwned
<1>7. ASSUME Throw PROVE OwnedInv'
  <2>1. Depth > 0 /\ Top.kind \in {"exec", "run"} /\ Unwind(Top) /\ UNCHANGED owners
        /\ live' = live \ {Top.stmt}
    BY <1>7 DEF Throw, In, Caught, Finalize
  <2>. QED  BY <2>1, UnwoundFrames, PopOwned
<1>8. ASSUME NEW v \in Vdbes, Step(v) PROVE OwnedInv'
  BY <1>8, EnterOwned DEF Step
<1>9. ASSUME StepEnds PROVE OwnedInv'
  <2>1. Depth > 0 /\ Top.kind = "step" /\ Unwind(Top) /\ UNCHANGED <<live, owners>>
    BY <1>9 DEF StepEnds, In
  <2>. QED  BY <2>1, UnwoundFrames, PopOwned
<1>10. ASSUME Call PROVE OwnedInv'
  BY <1>10, EnterOwned DEF Call
<1>11. ASSUME NEW ok \in BOOLEAN, FunctionEnds(ok) PROVE OwnedInv'
  <2>1. Depth > 0 /\ Top.kind = "function" /\ UNCHANGED <<live, owners>>
    BY <1>11 DEF FunctionEnds, In
  <2>. QED  BY <1>11, <2>1, FunctionStack, PopOwned
<1>12. ASSUME NEW v \in Vdbes, CreateStatement(v) \/ Prepare(v) \/ PrepareThrows(v)
       PROVE  OwnedInv'
  BY <1>12, CompiledOwned
<1>13. ASSUME NEW v \in Vdbes, Free(v) PROVE OwnedInv'
  BY <1>13, FreedOwned
<1>14. ASSUME Close PROVE OwnedInv'
  BY <1>14, ClosedOwned
<1>15. ASSUME New \/ UNCHANGED vars PROVE OwnedInv'
  BY <1>15 DEF New, vars, owners, OwnedInv, Owned, Waiting, Owners, Loose, Depth
<1>. QED
  BY <1>1, <1>2, <1>3, <1>4, <1>5, <1>6, <1>7, <1>8, <1>9, <1>10, <1>11, <1>12, <1>13, <1>14,
     <1>15 DEF Next

(***************************************************************************)
(* The rule of sqlite3.h                                                   *)
(***************************************************************************)
KeptInv == kept \in BOOLEAN /\ misused \in BOOLEAN /\ (kept => Stepped /\ ~misused)

LEMMA PoppedStepped ==
  ASSUME Depth \in Nat, Stepped, Depth' = Depth - 1,
         \A i \in 1..(Depth - 1) :
           frames'[i].stmt = frames[i].stmt /\ frames'[i].kind = frames[i].kind,
         UNCHANGED owners
  PROVE  Stepped'
<1>1. \A i \in 1..(Depth - 1) : i \in 1..Depth
  OBVIOUS
<1>. QED  BY <1>1 DEF Stepped, owners

LEMMA GotoStepped ==
  ASSUME StackInv, Depth > 0, Stepped, NEW f, Goto(f), f.kind = Top.kind, UNCHANGED owners,
         Top.kind = "step" => f.stmt = Top.stmt
  PROVE  Stepped'
<1>1. frames \in Seq(Frame) /\ Depth \in Nat /\ Depth \in 1..Depth
  BY TopFrame DEF StackInv, StackTypes
<1>2. frames' = [frames EXCEPT ![Depth] = f] /\ DOMAIN frames = 1..Depth
  BY <1>1 DEF Goto, Depth
<1>3. \A i \in 1..Depth : frames'[i] = IF i = Depth THEN f ELSE frames[i]
  BY <1>2
<1>4. Depth' = Depth
  BY <1>1, <1>2 DEF Depth
<1>. QED  BY <1>1, <1>3, <1>4 DEF Stepped, Top, owners

LEMMA EnterStepped ==
  ASSUME StackInv, Stepped, NEW kind, NEW pc, NEW text, NEW v, Enter(kind, pc, text, v),
         UNCHANGED owners, kind = "step" => v \in prepared \cup created
  PROVE  Stepped'
<1>. DEFINE f == [kind |-> kind, pc |-> pc, text |-> text, stmt |-> v,
                  saved |-> sp, top |-> sp + 1]
<1>1. frames \in Seq(Frame) /\ Depth \in Nat
  BY LenProperties DEF StackInv, StackTypes, Depth
<1>2. /\ Depth' = Depth + 1
      /\ \A i \in 1..Depth : frames'[i] = frames[i]
      /\ frames'[Depth + 1] = f
  BY <1>1, AppendProperties DEF Enter, Depth
<1>3. f.kind = kind /\ f.stmt = v
  OBVIOUS
<1>. HIDE DEF f
<1>4. \A i \in 1..Depth' : i \in 1..Depth \/ i = Depth + 1
  BY <1>1, <1>2
<1>. QED  BY <1>2, <1>3, <1>4 DEF Stepped, owners

\* The statement of an exec or run at the top is live, or there is none: finalizing it is no misuse.
LEMMA FinalizeTop ==
  ASSUME StackInv, OwnedInv, Depth > 0, Top.kind \in {"exec", "run"}, misused \in BOOLEAN,
         Finalize(Top.stmt)
  PROVE  misused' = misused
  BY TopOwned DEF Finalize

LEMMA KeptStep ==
  ASSUME StackInv, Callers, OwnedInv, KeptInv, [Next]_vars
  PROVE  KeptInv'
<1>. DEFINE Same == kept' = kept /\ misused' = misused
<1>1. ASSUME Same, Stepped => Stepped' PROVE KeptInv'
  BY <1>1 DEF KeptInv
<1>2. ASSUME NEW kind \in {"exec", "run"}, NEW text \in Texts, Begin(kind, text) PROVE KeptInv'
  BY <1>1, <1>2, EnterStepped DEF Begin
<1>3. ASSUME PrepareFails \/ PrepareEmpty \/ StepFails PROVE KeptInv'
  <2>1. PICK f \in {[Top EXCEPT !.pc = "fail"], [Top EXCEPT !.text = Tail(@)]} : Goto(f)
    BY <1>3 DEF PrepareFails, PrepareEmpty, StepFails
  <2>2. Depth > 0 /\ UNCHANGED owners /\ Same
    BY <1>3 DEF PrepareFails, PrepareEmpty, StepFails, In
  <2>3. f.kind = Top.kind /\ f.stmt = Top.stmt
    BY <2>1, <2>2, TopFrame DEF Frame
  <2>. QED  BY <1>1, <2>1, <2>2, <2>3, GotoStepped
<1>4. ASSUME NEW v \in Vdbes, NEW pc \in {"step", "fail"}, PrepareNext(v, pc) PROVE KeptInv'
  <2>. DEFINE f == [Top EXCEPT !.text = Tail(@), !.stmt = v, !.pc = pc]
  <2>1. Depth > 0 /\ Top.kind # "step" /\ Goto(f) /\ UNCHANGED owners /\ Same
    BY <1>4 DEF PrepareNext, In
  <2>2. f.kind = Top.kind
    BY <2>1, TopFrame DEF Frame
  <2>. HIDE DEF f
  <2>. QED  BY <1>1, <2>1, <2>2, GotoStepped
<1>5. ASSUME Done PROVE KeptInv'
  <2>. DEFINE f == [Freed(Top) EXCEPT !.pc = "next"]
  <2>1. Depth > 0 /\ Top.kind \in {"exec", "run"} /\ Goto(f) /\ UNCHANGED owners /\ kept' = kept
        /\ Finalize(Top.stmt)
    BY <1>5 DEF Done, In
  <2>2. f.kind = Top.kind
    BY <2>1, TopFrame DEF Frame, Freed
  <2>. HIDE DEF f
  <2>3. Same
    BY <2>1, FinalizeTop DEF KeptInv
  <2>. QED  BY <1>1, <2>1, <2>2, <2>3, GotoStepped
<1>6. ASSUME Return \/ StepEnds PROVE KeptInv'
  <2>1. Depth > 0 /\ Unwind(Top) /\ UNCHANGED owners /\ Same
    BY <1>6 DEF Return, StepEnds, In
  <2>. QED  BY <1>1, <2>1, TopFrame, UnwoundFrames, PoppedStepped
<1>7. ASSUME Throw PROVE KeptInv'
  <2>1. Depth > 0 /\ Unwind(Top) /\ UNCHANGED owners /\ kept' = kept
        /\ Top.kind \in {"exec", "run"} /\ Finalize(Top.stmt)
    BY <1>7 DEF Throw, In, Caught
  <2>2. Same
    BY <2>1, FinalizeTop DEF KeptInv
  <2>. QED  BY <1>1, <2>1, <2>2, TopFrame, UnwoundFrames, PoppedStepped
<1>8. ASSUME NEW v \in Vdbes, Step(v) PROVE KeptInv'
  BY <1>1, <1>8, EnterStepped DEF Step
<1>9. ASSUME Call PROVE KeptInv'
  BY <1>1, <1>9, EnterStepped DEF Call
<1>10. ASSUME NEW ok \in BOOLEAN, FunctionEnds(ok) PROVE KeptInv'
  <2>1. Depth > 0 /\ Depth \in Nat /\ Top.kind = "function" /\ UNCHANGED owners /\ kept' = kept
        /\ misused' = (misused \/ frames[Depth - 1].stmt \notin live)
    BY <1>10, TopFrame DEF FunctionEnds, In
  <2>2. Depth \in 1..Depth /\ Depth - 1 \in 1..Depth /\ frames[Depth - 1].kind # "function"
        /\ frames[Depth - 1].stmt \in Vdbes
    BY <2>1 DEF Callers, Top
  <2>3. frames[Depth - 1] \in Frame
    BY <2>2, ElementOfSeq DEF StackInv, StackTypes, Depth
  <2>4. frames[Depth - 1].kind \in {"exec", "run", "step"}
    BY <2>2, <2>3 DEF Frame
  <2>5. ASSUME Stepped PROVE frames[Depth - 1].stmt \in live
    <3>1. CASE frames[Depth - 1].kind = "step"
      BY <2>2, <2>5, <3>1 DEF Stepped, OwnedInv, Owned, Loose
    <3>2. CASE frames[Depth - 1].kind \in {"exec", "run"}
      <4>1. Depth - 1 \in Owners
        BY <2>2, <3>2, ExecAssumption DEF Owners
      <4>. QED  BY <4>1 DEF OwnedInv, Owned
    <3>. QED  BY <2>4, <3>1, <3>2
  <2>6. Stepped => Stepped'
    BY <1>10, <2>1, FunctionStack, PoppedStepped
  <2>7. kept => misused' = misused
    BY <2>1, <2>5 DEF KeptInv
  <2>8. misused' \in BOOLEAN
    BY <2>1 DEF KeptInv
  <2>. QED  BY <2>1, <2>6, <2>7, <2>8 DEF KeptInv
<1>11. ASSUME NEW v \in Vdbes, CreateStatement(v) \/ Prepare(v) \/ PrepareThrows(v)
       PROVE  KeptInv'
  <2>1. Same /\ frames' = frames /\ prepared \subseteq prepared' /\ created \subseteq created'
    BY <1>11 DEF CreateStatement, Prepare, PrepareThrows, Compiled
  <2>2. Stepped => Stepped'
    BY <2>1 DEF Stepped, Depth
  <2>. QED  BY <1>1, <2>1, <2>2
<1>12. ASSUME NEW v \in Vdbes, Free(v) PROVE KeptInv'
  <2>1. frames' = frames /\ prepared' = prepared \ {v} /\ created' = created \ {v}
        /\ kept' = (kept /\ ~Running(v))
    BY <1>12 DEF Free
  <2>2. misused' = misused
    BY <1>12, FreedOwned DEF KeptInv
  <2>3. kept' \in BOOLEAN
    BY <2>1
  <2>4. ASSUME kept' PROVE kept /\ ~Running(v)
    BY <2>1, <2>4, Zenon
  <2>5. ASSUME kept', Stepped PROVE Stepped'
    <3>1. \A i \in 1..Depth : frames[i].stmt # v
      BY <2>4, <2>5 DEF Running
    <3>2. Depth' = Depth
      BY <2>1 DEF Depth
    <3>. QED  BY <2>1, <2>5, <3>1, <3>2 DEF Stepped
  <2>. QED  BY <2>2, <2>3, <2>4, <2>5 DEF KeptInv
<1>13. ASSUME Close PROVE KeptInv'
  <2>1. frames' = frames /\ misused' = misused /\ kept' = (kept /\ Depth = 0)
    BY <1>13 DEF Close
  <2>2. kept' \in BOOLEAN
    BY <2>1
  <2>3. ASSUME kept' PROVE kept /\ Depth = 0
    BY <2>1, <2>3, Zenon
  <2>4. ASSUME kept' PROVE Stepped'
    <3>1. Depth' = 0
      BY <2>1, <2>3, <2>4 DEF Depth
    <3>. QED  BY <3>1 DEF Stepped
  <2>. QED  BY <2>1, <2>2, <2>3, <2>4 DEF KeptInv
<1>14. ASSUME New \/ UNCHANGED vars PROVE KeptInv'
  BY <1>14 DEF New, vars, owners, KeptInv, Stepped, Depth
<1>. HIDE DEF Same
<1>. QED
  BY <1>2, <1>3, <1>4, <1>5, <1>6, <1>7, <1>8, <1>9, <1>10, <1>11, <1>12, <1>13, <1>14 DEF Next

ExecInv == StackInv /\ Callers /\ OwnedInv /\ KeptInv /\ db \in BOOLEAN

LEMMA ExecInvariant == Spec => []ExecInv
<1>1. Init => ExecInv
  <2>. SUFFICES ASSUME Init PROVE ExecInv
    OBVIOUS
  <2>1. Depth = 0 /\ 1..Depth = {}
    BY DEF Init, Depth
  <2>2. StackInv
    BY DEF Init, StackInv, StackTypes, StackDiscipline, Depth
  <2>3. Owners = {}
    BY <2>1 DEF Owners
  <2>4. Owned
    BY <2>3 DEF Init, Owned, Loose
  <2>. QED  BY <2>1, <2>2, <2>4 DEF Init, ExecInv, Callers, OwnedInv, Waiting, KeptInv, Stepped
<1>2. ExecInv /\ [Next]_vars => ExecInv'
  <2>. SUFFICES ASSUME ExecInv, [Next]_vars PROVE ExecInv'
    OBVIOUS
  <2>1. StackInv' /\ Callers' /\ OwnedInv' /\ KeptInv'
    BY StackStep, CallersStep, OwnedStep, KeptStep DEF ExecInv
  <2>2. db' \in BOOLEAN
    BY DEF ExecInv, Next, vars, Begin, PrepareFails, PrepareEmpty, PrepareNext, Done, Return,
       StepFails, Throw, Compiled, CreateStatement, Prepare, PrepareThrows, Step, StepEnds, Free,
       Close, New, Call, FunctionEnds
  <2>. QED  BY <2>1, <2>2 DEF ExecInv
<1>. QED  BY <1>1, <1>2, PTL DEF Spec

\* Whatever functions do, closing the database included, exec and run keep their statements to
\* themselves and leave none behind, whichever of their pieces fails; only a bind that throws in
\* prepare loses one.
THEOREM StatementsAreOwned == Spec => []Owned
<1>1. ExecInv => Owned
  BY DEF ExecInv, OwnedInv
<1>. QED  BY <1>1, ExecInvariant, PTL

\* No statement is finalized twice, by exec or by the program, or goes on once it is finalized.
THEOREM NothingIsMisused == Spec => []NeverMisused
<1>1. ExecInv => NeverMisused
  BY DEF ExecInv, KeptInv, NeverMisused
<1>. QED  BY <1>1, ExecInvariant, PTL

\* The types, whatever functions do.
THEOREM ExecTypes == Spec => []TypeOK
<1>1. ExecInv => TypeOK
  BY DEF ExecInv, KeptInv, OwnedInv, Owned, Loose, StackInv, StackTypes, TypeOK
<1>. QED  BY <1>1, ExecInvariant, PTL
=============================================================================
