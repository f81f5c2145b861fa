---------------------- MODULE ExtensionFunctionsProofs ----------------------
(* Proofs about the functions of extension-functions.c. *)
EXTENDS ExtensionFunctions, FiniteSetTheorems, WellFoundedInduction, SequenceTheorems, TLAPS

Inv == TypeOK /\ SearchTree /\ Counted /\ IsFiniteSet(DOMAIN m)

(***************************************************************************)
(* Paths                                                                   *)
(***************************************************************************)

\* Every nonempty set of natural numbers has a smallest element.
LEMMA LeastNumber ==
  ASSUME NEW S, S \subseteq Nat, S # {}
  PROVE  \E x \in S : \A y \in S : x <= y
<1>. DEFINE R == {ss \in Nat \X Nat : ss[1] < ss[2]}
<1>1. IsWellFoundedOn(R, Nat)
  BY NatLessThanWellFounded, Zenon DEF OpToRel
<1>. HIDE DEF R
<1>2. PICK x \in S : \A y \in S : ~ (<<y, x>> \in R)
  BY <1>1, WFMin
<1>3. \A y \in S : y < x => <<y, x>> \in R
  BY DEF R
<1>4. SUFFICES ASSUME NEW y \in S PROVE x <= y
  OBVIOUS
<1>5. x \in Nat /\ y \in Nat /\ ~ (y < x)
  BY <1>2, <1>3
<1>. QED  BY <1>5

LEMMA TurnType == ASSUME NEW p \in Turns, NEW i \in Nat \ {0}
                  PROVE  /\ Turn(p, i) \in {-1, 0, 1}
                         /\ Turn(p, i) = 0 <=> i > Len(p)
                         /\ Len(p) \in Nat
  BY DEF Turn, Turns, Left, Right

\* The traversal visits two different nodes one before the other.
LEMMA BeforeTotal ==
  ASSUME NEW p \in Turns, NEW q \in Turns, p # q
  PROVE  Before(p, q) \/ Before(q, p)
<1>. DEFINE D == {i \in 1..(Len(p) + Len(q)) : Turn(p, i) # Turn(q, i)}
<1>0. Len(p) \in Nat /\ Len(q) \in Nat
  BY DEF Turns
<1>1. D # {}
  <2>1. CASE Len(p) = Len(q)
    <3>1. PICK i \in 1..Len(p) : p[i] # q[i]
      BY <2>1 DEF Turns
    <3>. QED  BY <3>1, <2>1, <1>0 DEF Turn
  <2>2. CASE Len(p) < Len(q)
    <3>1. Len(p) + 1 \in 1..(Len(p) + Len(q))
      BY <2>2, <1>0
    <3>2. Turn(p, Len(p) + 1) # Turn(q, Len(p) + 1)
      BY <2>2, <1>0, TurnType
    <3>. QED  BY <3>1, <3>2
  <2>3. CASE Len(q) < Len(p)
    <3>1. Len(q) + 1 \in 1..(Len(p) + Len(q))
      BY <2>3, <1>0
    <3>2. Turn(p, Len(q) + 1) # Turn(q, Len(q) + 1)
      BY <2>3, <1>0, TurnType
    <3>. QED  BY <3>1, <3>2
  <2>. QED  BY <2>1, <2>2, <2>3, <1>0
<1>2. D \subseteq Nat
  OBVIOUS
<1>3. PICK i \in D : \A j \in D : i <= j
  BY <1>1, <1>2, LeastNumber, Zenon
<1>4. \A j \in 1..(i - 1) : Turn(p, j) = Turn(q, j)
  BY <1>3, <1>0
<1>5. i \in 1..(Len(p) + Len(q)) /\ i \in 1..(Len(q) + Len(p))
  BY <1>0
<1>6. Turn(p, i) < Turn(q, i) \/ Turn(q, i) < Turn(p, i)
  BY <1>5, <1>0, TurnType
<1>. QED  BY <1>4, <1>5, <1>6 DEF Before

\* Two paths that agree on their first turns have the same ancestor there.
LEMMA CommonPrefix ==
  ASSUME NEW p \in Turns, NEW q \in Turns, NEW k \in Nat, k <= Len(p), k <= Len(q),
         \A j \in 1..k : Turn(p, j) = Turn(q, j)
  PROVE  SubSeq(p, 1, k) = SubSeq(q, 1, k)
<1>1. \A j \in 1..k : p[j] = q[j]
  BY DEF Turn, Turns
<1>. QED  BY <1>1 DEF Turns

\* An ancestor is before or after its descendant as the next turn says.
LEMMA AncestorOrder ==
  ASSUME NEW q \in Turns, NEW k \in 0..(Len(q) - 1)
  PROVE  LET r == SubSeq(q, 1, k) IN
           /\ r \in Turns
           /\ q[k + 1] = Right => Before(r, q)
           /\ q[k + 1] = Left => Before(q, r)
<1>. DEFINE r == SubSeq(q, 1, k)
<1>0. Len(q) \in Nat /\ k \in Nat
  BY DEF Turns
<1>1. r \in Turns /\ Len(r) = k
  BY <1>0 DEF Turns
<1>2. \A j \in 1..k : Turn(r, j) = Turn(q, j)
  BY <1>0, <1>1 DEF Turn, Turns
<1>3. Turn(r, k + 1) = 0 /\ Turn(q, k + 1) = q[k + 1]
  BY <1>0, <1>1 DEF Turn
<1>4. k + 1 \in 1..(Len(r) + Len(q)) /\ k + 1 \in 1..(Len(q) + Len(r)) /\ (k + 1) - 1 = k
  BY <1>0, <1>1
<1>5. ASSUME q[k + 1] = Right PROVE Before(r, q)
  <2>1. Turn(r, k + 1) < Turn(q, k + 1)
    BY <1>5, <1>3 DEF Right
  <2>. QED  BY <2>1, <1>2, <1>4 DEF Before
<1>6. ASSUME q[k + 1] = Left PROVE Before(q, r)
  <2>1. Turn(q, k + 1) < Turn(r, k + 1)
    BY <1>6, <1>3 DEF Left
  <2>. QED  BY <2>1, <1>2, <1>4 DEF Before
<1>. QED  BY <1>1, <1>5, <1>6

(***************************************************************************)
(* Where the descent ends                                                  *)
(***************************************************************************)
LEMMA SpotType ==
  ASSUME NEW t, DOMAIN t \subseteq Turns, NEW x, NEW p \in Spots(t, x)
  PROVE  p \in Turns
<1>1. p = << >> \/ \E q \in DOMAIN t : \E d \in {Left, Right} : p = Append(q, d)
  BY DEF Spots
<1>2. CASE p = << >>
  BY <1>2, EmptySeq DEF Turns
<1>3. CASE \E q \in DOMAIN t : \E d \in {Left, Right} : p = Append(q, d)
  <2>1. PICK q \in DOMAIN t, d \in {Left, Right} : p = Append(q, d)
    BY <1>3
  <2>2. q \in Seq({Left, Right})
    BY DEF Turns
  <2>. QED  BY <2>1, <2>2, AppendProperties DEF Turns
<1>. QED  BY <1>1, <1>2, <1>3

\* The end of the descent for x is on the right side of every other node.
LEMMA SpotOrder ==
  ASSUME TypeOK, SearchTree, NEW x \in Int, NEW p \in Spots(m, x), NEW q \in DOMAIN m, q # p
  PROVE  /\ Before(p, q) => x < m[q].data
         /\ Before(q, p) => m[q].data < x
<1>31. p \in Turns /\ q \in Turns
  BY SpotType DEF TypeOK
<1>32. Len(p) \in Nat /\ Len(q) \in Nat
  BY <1>31 DEF Turns
<1>33. \A r \in DOMAIN m : m[r].data \in Int
  BY DEF TypeOK
<1>0. /\ p \in Turns /\ q \in Turns
      /\ Len(p) \in Nat /\ Len(q) \in Nat
      /\ \A r \in DOMAIN m : m[r].data \in Int
  BY <1>31, <1>32, <1>33
<1>1. CASE p \in DOMAIN m
  <2>1. m[p].data = x
    BY <1>1, <1>0 DEF Spots, Cmp
  <2>. QED  BY <1>1, <2>1 DEF SearchTree, Ordered
<1>2. CASE p \notin DOMAIN m
  <2>1. ASSUME NEW i \in 1..(Len(p) + Len(q)), Turn(p, i) # Turn(q, i),
               \A j \in 1..(i - 1) : Turn(p, j) = Turn(q, j)
        PROVE  IF Turn(p, i) < Turn(q, i) THEN x < m[q].data ELSE m[q].data < x
    <3>0. i \in Nat \ {0} /\ i - 1 \in Nat
      BY <1>0
    <3>1. i <= Len(p)
      <4>1. SUFFICES ASSUME i > Len(p) PROVE FALSE
        BY <1>0, <3>0
      <4>2. i = Len(p) + 1
        <5>1. SUFFICES ASSUME Len(p) + 1 <= i - 1 PROVE FALSE
          BY <1>0, <4>1, <3>0
        <5>2. Turn(q, Len(p) + 1) = 0
          BY <5>1, <1>0, TurnType, <2>1
        <5>3. Turn(q, i) = 0 /\ Turn(p, i) = 0
          BY <5>2, <5>1, <1>0, <3>0, TurnType
        <5>. QED  BY <5>3, <2>1
      <4>3. Len(p) < Len(q)
        BY <4>2, <2>1, TurnType, <1>0
      <4>4. SubSeq(p, 1, Len(p)) = SubSeq(q, 1, Len(p))
        BY <4>2, <4>3, <2>1, <1>0, CommonPrefix
      <4>5. SubSeq(p, 1, Len(p)) = p
        BY <1>0 DEF Turns
      <4>6. Len(p) + 1 \in 1..Len(q) /\ (Len(p) + 1) - 1 = Len(p)
        BY <4>3, <1>0
      <4>7. SubSeq(q, 1, (Len(p) + 1) - 1) \in DOMAIN m
        BY <4>6 DEF SearchTree, PrefixClosed
      <4>8. SubSeq(q, 1, Len(p)) \in DOMAIN m
        BY <4>6, <4>7
      <4>. QED  BY <4>4, <4>5, <4>8, <1>2
    <3>2. LET r == SubSeq(p, 1, i - 1) IN
            /\ r \in DOMAIN m
            /\ p[i] = IF m[r].data > x THEN Left ELSE Right
            /\ m[r].data # x
      BY <3>1, <3>0, <1>0 DEF Spots, Leads, Cmp
    <3>3. Turn(p, i) = p[i]
      BY <3>1 DEF Turn
    <3>4. CASE i <= Len(q)
      <4>0. i - 1 <= Len(p) /\ i - 1 <= Len(q)
        BY <3>4, <3>1, <3>0, <1>0
      <4>1. SubSeq(p, 1, i - 1) = SubSeq(q, 1, i - 1)
        BY <4>0, <3>0, <1>31, <2>1, CommonPrefix
      <4>2. Turn(q, i) = q[i] /\ q[i] \in {Left, Right}
        BY <3>4, <3>0, <1>0 DEF Turn, Turns
      <4>3. i - 1 \in 0..(Len(q) - 1) /\ (i - 1) + 1 = i
        BY <3>4, <3>0, <1>0
      <4>4. /\ q[i] = Right => Before(SubSeq(q, 1, i - 1), q)
            /\ q[i] = Left => Before(q, SubSeq(q, 1, i - 1))
        BY <4>3, <1>0, AncestorOrder
      <4>5. /\ q[i] = Right => m[SubSeq(p, 1, i - 1)].data < m[q].data
            /\ q[i] = Left => m[q].data < m[SubSeq(p, 1, i - 1)].data
        BY <4>4, <4>1, <3>2 DEF SearchTree, Ordered
      <4>. QED  BY <4>5, <4>2, <3>2, <3>3, <1>0, <2>1 DEF Left, Right
    <3>5. CASE i > Len(q)
      <4>1. i = Len(q) + 1
        <5>1. SUFFICES ASSUME Len(q) + 1 <= i - 1 PROVE FALSE
          BY <1>0, <3>5, <3>0
        <5>2. Turn(p, Len(q) + 1) = 0
          BY <5>1, <1>0, TurnType, <2>1
        <5>. QED  BY <5>2, <5>1, <3>1, <1>0, TurnType
      <4>0. i - 1 <= Len(p) /\ i - 1 <= Len(q)
        BY <4>1, <3>1, <3>0, <1>0
      <4>2. SubSeq(p, 1, i - 1) = SubSeq(q, 1, i - 1)
        BY <4>0, <3>0, <1>31, <2>1, CommonPrefix
      <4>3. SubSeq(q, 1, i - 1) = q
        BY <4>1, <1>0 DEF Turns
      <4>4. Turn(q, i) = 0
        BY <3>5, <3>0, TurnType, <1>0
      <4>5. p[i] = (IF m[q].data > x THEN Left ELSE Right) /\ m[q].data # x
        BY <4>2, <4>3, <3>2
      <4>. QED  BY <4>4, <4>5, <3>3, <1>33 DEF Left, Right
    <3>. QED  BY <3>4, <3>5, <3>0, <1>0
  <2>2. ASSUME Before(p, q) PROVE x < m[q].data
    <3>1. PICK i \in 1..(Len(p) + Len(q)) :
             Turn(p, i) < Turn(q, i) /\ \A j \in 1..(i - 1) : Turn(p, j) = Turn(q, j)
      BY <2>2 DEF Before
    <3>2. Turn(p, i) # Turn(q, i)
      BY <3>1, TurnType, <1>0
    <3>. QED  BY <3>1, <3>2, <2>1
  <2>3. ASSUME Before(q, p) PROVE m[q].data < x
    <3>1. PICK i \in 1..(Len(q) + Len(p)) :
             Turn(q, i) < Turn(p, i) /\ \A j \in 1..(i - 1) : Turn(q, j) = Turn(p, j)
      BY <2>3 DEF Before
    <3>2. Turn(p, i) # Turn(q, i) /\ ~ (Turn(p, i) < Turn(q, i)) /\ i \in 1..(Len(p) + Len(q))
      BY <3>1, TurnType, <1>0
    <3>. QED  BY <3>1, <3>2, <2>1
  <2>. QED  BY <2>2, <2>3
<1>. QED  BY <1>1, <1>2

\* So x is at no other node.
LEMMA SpotUnique ==
  ASSUME TypeOK, SearchTree, NEW x \in Int, NEW p \in Spots(m, x), NEW q \in DOMAIN m,
         m[q].data = x
  PROVE  q = p
<1>1. SUFFICES ASSUME q # p PROVE FALSE
  OBVIOUS
<1>2. p \in Turns /\ q \in Turns
  BY SpotType DEF TypeOK
<1>3. Before(p, q) \/ Before(q, p)
  BY <1>1, <1>2, BeforeTotal
<1>. QED  BY <1>1, <1>3, SpotOrder

(***************************************************************************)
(* Rows                                                                    *)
(***************************************************************************)
LEMMA StoredType ==
  ASSUME NEW row \in Rows, NEW k
  PROVE  Stored(k, row) \in Int
<1>1. row.num \in Int
  BY OrderStatisticsAssumption
<1>2. Truncated(row.num) \in Int
  BY <1>1 DEF Truncated
<1>. QED  BY <1>1, <1>2 DEF Stored

\* What was stored stays what it was: the first row decides the kind.
LEMMA KindKept ==
  ASSUME TypeOK, NEW row \in Rows, Step(row)
  PROVE  /\ seen \in Seq(Rows) /\ Len(seen) \in Nat
         /\ seen' = Append(seen, row) /\ Len(seen') = Len(seen) + 1
         /\ kind' \in {"integer", "real"}
         /\ \A i \in 1..Len(seen) :
              /\ seen'[i] = seen[i]
              /\ Stored(kind', seen'[i]) = Stored(kind, seen[i])
         /\ Stored(kind', seen'[Len(seen) + 1]) = Stored(KindOf(row), row)
<1>1. seen \in Seq(Rows) /\ Len(seen) \in Nat
  BY DEF TypeOK
<1>2. seen' = Append(seen, row)
  BY DEF Step
<1>3. Len(seen') = Len(seen) + 1 /\ seen'[Len(seen) + 1] = row
  BY <1>1, <1>2
<1>4. \A i \in 1..Len(seen) : seen'[i] = seen[i]
  BY <1>1, <1>2
<1>5. kind' = KindOf(row)
  BY DEF Step
<1>6. KindOf(row) \in {"integer", "real"}
  BY DEF KindOf, TypeOK
<1>7. seen # << >> => kind' = kind
  BY <1>5 DEF KindOf, TypeOK
<1>8. \A i \in 1..Len(seen) : kind' = kind
  BY <1>7, <1>1
<1>9. \A i \in 1..Len(seen) : Stored(kind', seen'[i]) = Stored(kind, seen[i])
  BY <1>4, <1>8, Zenon
<1>. QED  BY <1>1, <1>2, <1>3, <1>4, <1>5, <1>6, <1>9

LEMMA OccurrencesStep ==
  ASSUME TypeOK, NEW row \in Rows, Step(row), NEW y
  PROVE  /\ Occurrences(seen, kind, y) \in Nat
         /\ Occurrences(seen', kind', y) = IF y = Stored(KindOf(row), row)
                              THEN Occurrences(seen, kind, y) + 1 ELSE Occurrences(seen, kind, y)
<1>. DEFINE len == Len(seen)
            A == {i \in 1..len : Stored(kind, seen[i]) = y}
            B == {i \in 1..Len(seen') : Stored(kind', seen'[i]) = y}
<1>1. len \in Nat /\ Len(seen') = len + 1
  BY KindKept
<1>2. IsFiniteSet(A) /\ Cardinality(A) \in Nat
  <2>1. IsFiniteSet(1..len)
    BY <1>1, FS_Interval
  <2>. QED  BY <2>1, FS_Subset, FS_CardinalityType
<1>3. len + 1 \notin A /\ 1..(len + 1) = (1..len) \cup {len + 1}
  BY <1>1
<1>4. CASE y = Stored(KindOf(row), row)
  <2>1. B = A \cup {len + 1}
    BY <1>1, <1>3, <1>4, KindKept
  <2>. QED  BY <2>1, <1>2, <1>3, <1>4, FS_AddElement DEF Occurrences
<1>5. CASE y # Stored(KindOf(row), row)
  <2>1. B = A
    BY <1>1, <1>3, <1>5, KindKept
  <2>. QED  BY <2>1, <1>2, <1>5 DEF Occurrences
<1>. QED  BY <1>4, <1>5

(***************************************************************************)
(* The invariant                                                           *)
(***************************************************************************)
LEMMA StepInv ==
  ASSUME Inv, NEW row \in Rows, Step(row)
  PROVE  Inv'
<1>. DEFINE x == Stored(KindOf(row), row)
<1>1. PICK p \in Spots(m, x) : m' = NodeInsert(m, p, x)
  BY DEF Step
<1>2. x \in Int
  BY StoredType
<1>3. p \in Turns
  BY SpotType DEF Inv, TypeOK
<1>. HIDE DEF x
<1>4. /\ DOMAIN m' = DOMAIN m \cup {p}
      /\ DOMAIN m \subseteq Turns
      /\ \A q \in DOMAIN m : m[q] \in [data : Int, count : Nat \ {0}]
  BY <1>1 DEF NodeInsert, Inv, TypeOK
<1>5. \A q \in DOMAIN m : q # p => m'[q] = m[q]
  BY <1>1, <1>4 DEF NodeInsert
<1>6. p \in DOMAIN m => /\ m[p].data = x
                        /\ m'[p] = [data |-> x, count |-> m[p].count + 1]
  <2>1. p \in DOMAIN m => m[p].data = x
    BY <1>2, <1>4 DEF Spots, Cmp
  <2>2. p \in DOMAIN m => m'[p] = [m[p] EXCEPT !.count = m[p].count + 1]
    BY <1>1 DEF NodeInsert
  <2>. QED  BY <2>1, <2>2, <1>4
<1>7. p \notin DOMAIN m => m'[p] = [data |-> x, count |-> 1]
  BY <1>1 DEF NodeInsert
<1>8. m'[p].data = x /\ m'[p] \in [data : Int, count : Nat \ {0}]
  BY <1>2, <1>4, <1>6, <1>7
<1>9. TypeOK'
  <2>1. DOMAIN m' \subseteq Turns
    BY <1>3, <1>4
  <2>2. m' \in [DOMAIN m' -> [data : Int, count : Nat \ {0}]]
    <3>1. \A q \in DOMAIN m' : m'[q] \in [data : Int, count : Nat \ {0}]
      BY <1>4, <1>5, <1>8
    <3>2. m' = [q \in DOMAIN m' |-> m'[q]]
      BY <1>1 DEF NodeInsert
    <3>. QED  BY <3>1, <3>2
  <2>3. seen' \in Seq(Rows) /\ seen' # << >> /\ kind' \in {"integer", "real"}
    BY KindKept DEF Inv
  <2>4. cnt' = Len(seen')
    BY KindKept DEF Inv, TypeOK, Step
  <2>. QED  BY <2>1, <2>2, <2>3, <2>4 DEF TypeOK
<1>10. PrefixClosed'
  <2>1. SUFFICES ASSUME NEW q \in DOMAIN m', NEW i \in 1..Len(q)
                 PROVE  SubSeq(q, 1, i - 1) \in DOMAIN m'
    BY DEF PrefixClosed
  <2>2. CASE q \in DOMAIN m
    BY <2>2, <1>4 DEF Inv, SearchTree, PrefixClosed
  <2>3. CASE q = p
    BY <2>3, <1>4 DEF Spots, Leads
  <2>. QED  BY <2>2, <2>3, <1>4
<1>11. Ordered'
  <2>1. SUFFICES ASSUME NEW q \in DOMAIN m', NEW r \in DOMAIN m', Before(q, r)
                 PROVE  m'[q].data < m'[r].data
    BY DEF Ordered
  <2>2. ~ Before(p, p)
    BY <1>3, TurnType DEF Before
  <2>3. CASE q = p /\ r # p
    BY <2>3, <2>1, <1>2, <1>4, <1>5, <1>8, SpotOrder DEF Inv
  <2>4. CASE q # p /\ r = p
    BY <2>4, <2>1, <1>2, <1>4, <1>5, <1>8, SpotOrder DEF Inv
  <2>5. CASE q # p /\ r # p
    BY <2>5, <2>1, <1>4, <1>5 DEF Inv, SearchTree, Ordered
  <2>. QED  BY <2>1, <2>2, <2>3, <2>4, <2>5
<1>12. Counted'
  <2>1. \A y : /\ Occurrences(seen, kind, y) \in Nat
               /\ Occurrences(seen', kind', y) =
                    IF y = x THEN Occurrences(seen, kind, y) + 1 ELSE Occurrences(seen, kind, y)
    BY OccurrencesStep DEF Inv, x
  <2>2. ASSUME NEW q \in DOMAIN m' PROVE m'[q].count = Occurrences(seen', kind', m'[q].data)
    <3>1. CASE q # p
      <4>1. q \in DOMAIN m /\ m'[q] = m[q]
        BY <3>1, <2>2, <1>4, <1>5
      <4>2. m[q].data # x
        BY <3>1, <4>1, <1>2, SpotUnique DEF Inv
      <4>3. m[q].count = Occurrences(seen, kind, m[q].data)
        BY <4>1 DEF Inv, Counted
      <4>. QED  BY <4>1, <4>2, <4>3, <2>1
    <3>2. CASE q = p /\ p \in DOMAIN m
      <4>1. m[p].count = Occurrences(seen, kind, x)
        BY <3>2, <1>6 DEF Inv, Counted
      <4>. QED  BY <3>2, <4>1, <1>6, <2>1
    <3>3. CASE q = p /\ p \notin DOMAIN m
      <4>1. ASSUME NEW i \in 1..Len(seen), Stored(kind, seen[i]) = x PROVE FALSE
        <5>1. PICK r \in DOMAIN m : m[r].data = x
          BY <4>1 DEF Inv, Counted
        <5>. QED  BY <5>1, <3>3, <1>2, SpotUnique DEF Inv
      <4>2. {i \in 1..Len(seen) : Stored(kind, seen[i]) = x} = {}
        BY <4>1
      <4>3. Occurrences(seen, kind, x) = 0
        BY <4>2, FS_EmptySet DEF Occurrences
      <4>. QED  BY <3>3, <4>3, <1>7, <2>1
    <3>. QED  BY <3>1, <3>2, <3>3
  <2>3. ASSUME NEW i \in 1..Len(seen') PROVE \E q \in DOMAIN m' : m'[q].data = Stored(kind', seen'[i])
    <3>1. CASE i \in 1..Len(seen)
      <4>1. PICK q \in DOMAIN m : m[q].data = Stored(kind, seen[i])
        BY <3>1 DEF Inv, Counted
      <4>2. m'[q].data = m[q].data
        BY <1>5, <1>6, <1>8
      <4>. QED  BY <3>1, <4>1, <4>2, <1>4, KindKept DEF Inv
    <3>2. CASE i = Len(seen) + 1
      <4>1. Stored(kind', seen'[i]) = x
        BY <3>2, KindKept DEF Inv, x
      <4>. QED  BY <4>1, <1>4, <1>8
    <3>. QED  BY <3>1, <3>2, <2>3, KindKept DEF Inv
  <2>. QED  BY <2>2, <2>3 DEF Counted
<1>13. IsFiniteSet(DOMAIN m')
  BY <1>4, FS_AddElement DEF Inv
<1>. QED  BY <1>9, <1>10, <1>11, <1>12, <1>13 DEF Inv, SearchTree

LEMMA EmptyInv ==
  ASSUME seen = << >>, kind = "none", cnt = 0, m = EmptyTree
  PROVE  Inv
<1>1. DOMAIN m = {} /\ Len(seen) = 0
  BY DEF EmptyTree
<1>2. IsFiniteSet(DOMAIN m)
  BY <1>1, FS_EmptySet
<1>. QED  BY <1>1, <1>2 DEF Inv, TypeOK, SearchTree, PrefixClosed, Ordered, Counted, EmptyTree

LEMMA InvStep ==
  ASSUME Inv, [Next]_vars
  PROVE  Inv'
<1>1. ASSUME NEW row \in Rows, Step(row) PROVE Inv'
  BY <1>1, StepInv
<1>2. ASSUME UNCHANGED <<seen, kind, cnt, m>> PROVE Inv'
  BY <1>2 DEF Inv, TypeOK, SearchTree, PrefixClosed, Ordered, Counted, Occurrences
<1>3. ASSUME NextGroup PROVE Inv'
  <2>1. DOMAIN m' = {} /\ IsFiniteSet(DOMAIN m')
    BY <1>3, FS_EmptySet DEF NextGroup, EmptyTree
  <2>. QED
    BY <2>1, <1>3 DEF NextGroup, Inv, TypeOK, SearchTree, PrefixClosed, Ordered, Counted,
       EmptyTree
<1>4. ASSUME NEW f, Finalize(f) PROVE Inv'
  BY <1>4, <1>2 DEF Finalize
<1>. QED  BY <1>1, <1>2, <1>3, <1>4 DEF Next, vars

LEMMA InvInductive == Spec => []Inv
<1>1. Init => Inv
  BY EmptyInv DEF Init
<1>. QED  BY <1>1, InvStep, PTL DEF Spec

Node == [data : Int, count : Nat \ {0}]

(***************************************************************************)
(* The traversal                                                           *)
(***************************************************************************)

\* The place of a node is the number of nodes with no larger value.
LEMMA PlaceType ==
  ASSUME Inv, NEW p \in DOMAIN m
  PROVE  /\ Cardinality(DOMAIN m) \in Nat
         /\ Place(m, p) \in 1..Cardinality(DOMAIN m)
         /\ {q \in DOMAIN m : q = p \/ Before(q, p)} = {q \in DOMAIN m : m[q].data <= m[p].data}
<1>. DEFINE B == {q \in DOMAIN m : q = p \/ Before(q, p)}
            L == {q \in DOMAIN m : m[q].data <= m[p].data}
<1>1. \A q \in DOMAIN m : q \in Turns /\ m[q].data \in Int
  BY DEF Inv, TypeOK
<1>2. \A q \in DOMAIN m : q # p => (Before(q, p) => m[q].data < m[p].data)
                                /\ (Before(p, q) => m[p].data < m[q].data)
  BY DEF Inv, SearchTree, Ordered
<1>3. \A q \in DOMAIN m : q # p => Before(q, p) \/ Before(p, q)
  BY <1>1, BeforeTotal
<1>4. \A q \in DOMAIN m : (q = p \/ Before(q, p)) <=> m[q].data <= m[p].data
  BY <1>1, <1>2, <1>3
<1>5. B = L
  BY <1>4
<1>6. IsFiniteSet(DOMAIN m) /\ B \in SUBSET DOMAIN m
  BY DEF Inv
<1>7. Cardinality(DOMAIN m) \in Nat /\ Cardinality(B) <= Cardinality(DOMAIN m) /\ IsFiniteSet(B)
  BY <1>6, FS_Subset, FS_CardinalityType
<1>8. Cardinality(B) \in Nat /\ Cardinality(B) # 0
  <2>1. p \in B
    OBVIOUS
  <2>. QED  BY <2>1, <1>7, FS_CardinalityType, FS_EmptySet
<1>. QED  BY <1>5, <1>7, <1>8 DEF Place

LEMMA PlaceOrder ==
  ASSUME Inv, NEW p \in DOMAIN m, NEW q \in DOMAIN m, m[p].data < m[q].data
  PROVE  Place(m, p) < Place(m, q)
<1>. DEFINE A == {r \in DOMAIN m : m[r].data <= m[p].data}
            B == {r \in DOMAIN m : m[r].data <= m[q].data}
<1>1. Place(m, p) = Cardinality(A) /\ Place(m, q) = Cardinality(B)
  BY PlaceType DEF Place
<1>2. \A r \in DOMAIN m : m[r].data \in Int
  BY DEF Inv, TypeOK
<1>3. A \in SUBSET B /\ q \in B /\ q \notin A
  BY <1>2
<1>4. IsFiniteSet(B)
  BY FS_Subset DEF Inv
<1>5. Cardinality(A) <= Cardinality(B) /\ Cardinality(A) # Cardinality(B)
  <2>. HIDE DEF A, B
  <2>. QED  BY <1>3, <1>4, FS_Subset
<1>6. Cardinality(A) \in Nat /\ Cardinality(B) \in Nat
  BY <1>3, <1>4, FS_Subset, FS_CardinalityType
<1>. QED  BY <1>1, <1>5, <1>6

\* No two nodes have the same value.
LEMMA DataUnique ==
  ASSUME Inv, NEW p \in DOMAIN m, NEW q \in DOMAIN m, p # q
  PROVE  m[p].data # m[q].data
<1>1. p \in Turns /\ q \in Turns /\ m[p].data \in Int /\ m[q].data \in Int
  BY DEF Inv, TypeOK
<1>2. Before(p, q) \/ Before(q, p)
  BY <1>1, BeforeTotal
<1>. QED  BY <1>1, <1>2 DEF Inv, SearchTree, Ordered

\* The traversal visits every node once, and the values in ascending order.
LEMMA Traversal ==
  ASSUME Inv
  PROVE  LET s == InOrder(m) IN
         /\ s \in Seq(Node)
         /\ Len(s) = Cardinality(DOMAIN m)
         /\ \A i \in 1..Len(s) : \E p \in DOMAIN m : s[i] = m[p]
         /\ \A p \in DOMAIN m : \E i \in 1..Len(s) : s[i] = m[p]
         /\ \A i, j \in 1..Len(s) : i < j => s[i].data < s[j].data
<1>. DEFINE size == Cardinality(DOMAIN m)
            s == InOrder(m)
            f == [p \in DOMAIN m |-> Place(m, p)]
<1>1. size \in Nat /\ IsFiniteSet(DOMAIN m)
  BY FS_CardinalityType DEF Inv
<1>2. \A p \in DOMAIN m : m[p] \in Node
  BY DEF Inv, TypeOK, Node
<1>3. f \in [DOMAIN m -> 1..size] /\ \A p \in DOMAIN m : f[p] = Place(m, p)
  BY PlaceType
<1>4. \A p, q \in DOMAIN m : p # q => Place(m, p) # Place(m, q)
  <2>1. SUFFICES ASSUME NEW p \in DOMAIN m, NEW q \in DOMAIN m, p # q
                 PROVE  Place(m, p) # Place(m, q)
    OBVIOUS
  <2>2. m[p].data < m[q].data \/ m[q].data < m[p].data
    BY <2>1, <1>2, DataUnique DEF Node
  <2>3. Place(m, p) \in Int /\ Place(m, q) \in Int
    BY PlaceType
  <2>. QED  BY <2>2, <2>3, PlaceOrder
<1>5. f \in Injection(DOMAIN m, 1..size)
  BY <1>3, <1>4 DEF Injection, IsInjective
<1>6. IsFiniteSet(1..size) /\ Cardinality(1..size) = size
  BY <1>1, FS_Interval
<1>7. f \in Surjection(DOMAIN m, 1..size)
  <2>. HIDE DEF f
  <2>. QED  BY <1>5, <1>6, FS_Injection
<1>8. \A i \in 1..size : \E p \in DOMAIN m : Place(m, p) = i
  BY <1>7, <1>3 DEF Surjection
<1>9. Len(s) = size /\ DOMAIN s = 1..size
  BY <1>1 DEF InOrder
<1>10. ASSUME NEW i \in 1..size
       PROVE  \E p \in DOMAIN m : Place(m, p) = i /\ s[i] = m[p]
  <2>1. s[i] = m[CHOOSE p \in DOMAIN m : Place(m, p) = i]
    BY DEF InOrder
  <2>. QED  BY <2>1, <1>8
<1>11. ASSUME NEW p \in DOMAIN m
       PROVE  \E i \in 1..size : s[i] = m[p]
  <2>1. PICK q \in DOMAIN m : Place(m, q) = Place(m, p) /\ s[Place(m, p)] = m[q]
    BY <1>10, PlaceType
  <2>2. q = p
    BY <2>1, <1>4
  <2>. QED  BY <2>1, <2>2, PlaceType
<1>12. ASSUME NEW i \in 1..size, NEW j \in 1..size, i < j
       PROVE  s[i].data < s[j].data
  <2>1. PICK p \in DOMAIN m : Place(m, p) = i /\ s[i] = m[p]
    BY <1>10
  <2>2. PICK q \in DOMAIN m : Place(m, q) = j /\ s[j] = m[q]
    BY <1>10
  <2>3. m[p].data \in Int /\ m[q].data \in Int
    BY <1>2 DEF Node
  <2>4. p # q
    BY <2>1, <2>2, <1>12
  <2>5. ~ (m[q].data < m[p].data)
    BY <2>1, <2>2, <1>12, PlaceOrder
  <2>6. m[p].data # m[q].data
    BY <2>4, DataUnique
  <2>. QED  BY <2>1, <2>2, <2>3, <2>5, <2>6
<1>13. s \in Seq(Node)
  <2>1. \A i \in 1..size : s[i] \in Node
    BY <1>10, <1>2
  <2>2. s = [i \in 1..size |-> s[i]]
    BY DEF InOrder
  <2>. HIDE DEF s, size
  <2>. QED  BY <2>1, <2>2, <1>1
<1>. QED  BY <1>9, <1>10, <1>11, <1>12, <1>13

\* The float map and the integer map of integers that an int holds store the rows themselves.
Exact == kind # "integer" \/ (Integral /\ Narrow)

LEMMA RowsStored ==
  ASSUME Inv, Exact, NEW i \in 1..Len(seen)
  PROVE  /\ Stored(kind, seen[i]) = seen[i].num
         /\ seen[i].num \in Int
         /\ kind = "integer" => 2 * LowHalf(seen[i].num \div 2) = seen[i].num
<1>1. seen[i] \in Rows
  BY DEF Inv, TypeOK
<1>2. seen[i].num \in Int /\ (seen[i].type = "integer" => seen[i].num % 2 = 0)
  BY <1>1, OrderStatisticsAssumption
<1>3. CASE kind # "integer"
  BY <1>2, <1>3 DEF Stored
<1>4. CASE kind = "integer"
  <2>1. seen[i].num % 2 = 0 /\ seen[i].num \div 2 \in -IntSpan..(IntSpan - 1)
    BY <1>2, <1>4 DEF Exact, Integral, Narrow
  <2>. DEFINE h == seen[i].num
              d == h \div 2
  <2>2. d \in Int /\ h = 2 * d /\ h \in Int
    BY <1>2, <2>1
  <2>3. Truncated(h) = h
    <3>1. CASE h >= 0
      BY <3>1, <2>2 DEF Truncated
    <3>2. CASE h < 0
      <4>1. (-h) \div 2 = -d
        BY <2>2
      <4>. QED  BY <3>2, <4>1, <2>2 DEF Truncated
    <3>. QED  BY <3>1, <3>2, <2>2
  <2>4. LowHalf(d) = d
    <3>. DEFINE w == 2 * IntSpan
                e == d + IntSpan
    <3>1. IntSpan \in Nat \ {0}
      BY OrderStatisticsAssumption
    <3>2. e \in 0..(w - 1) /\ w \in Nat \ {0}
      BY <3>1, <2>1, <2>2
    <3>3. e % w = e
      <4>. HIDE DEF e, w
      <4>. QED  BY <3>2
    <3>. QED  BY <3>3, <3>1, <2>2 DEF LowHalf
  <2>. QED  BY <2>2, <2>3, <2>4, <1>4 DEF Stored
<1>. QED  BY <1>3, <1>4

\* The rows with the values of the first nodes that the traversal visits.
Upto(i) == Cardinality({j \in 1..Len(seen) : \E l \in 1..i : seen[j].num = InOrder(m)[l].data})

LEMMA TraversalCounts ==
  ASSUME Inv, Exact
  PROVE  LET s == InOrder(m) IN
         /\ Len(s) \in Nat
         /\ \A i \in 0..Len(s) : Upto(i) \in Nat
         /\ Upto(0) = 0
         /\ Upto(Len(s)) = Len(seen)
         /\ \A i \in 1..Len(s) :
              /\ s[i] \in Node
              /\ s[i].data \in Numbers
              /\ Element(s[i]) = s[i].data
              /\ Equal(s[i].data) = s[i].count
              /\ Smaller(s[i].data) = Upto(i - 1)
              /\ Upto(i) = Upto(i - 1) + s[i].count
         /\ \A i, j \in 1..Len(s) : i < j => /\ s[i].data < s[j].data
                                             /\ Upto(i) <= Upto(j - 1)
         /\ \A x \in Numbers : \E i \in 1..Len(s) : x = s[i].data
<1>. DEFINE s == InOrder(m)
            R == 1..Len(seen)
            A(i) == {j \in R : \E l \in 1..i : seen[j].num = s[l].data}
            E(i) == {j \in R : seen[j].num = s[i].data}
            L(i) == {j \in R : seen[j].num < s[i].data}
<1>1. /\ s \in Seq(Node)
      /\ Len(s) \in Nat
      /\ \A i \in 1..Len(s) : \E p \in DOMAIN m : s[i] = m[p]
      /\ \A p \in DOMAIN m : \E i \in 1..Len(s) : s[i] = m[p]
      /\ \A i, j \in 1..Len(s) : i < j => s[i].data < s[j].data
  BY Traversal
<1>2. IsFiniteSet(R) /\ Cardinality(R) = Len(seen) /\ Len(seen) \in Nat
  <2>1. Len(seen) \in Nat
    BY DEF Inv, TypeOK
  <2>2. 1 \in Int /\ Len(seen) \in Int
    BY <2>1
  <2>3. /\ IsFiniteSet(1..Len(seen))
        /\ Cardinality(1..Len(seen)) = IF 1 > Len(seen) THEN 0 ELSE Len(seen) - 1 + 1
    BY <2>2, FS_Interval, Zenon
  <2>. QED  BY <2>1, <2>3
<1>3. \A i : Upto(i) = Cardinality(A(i))
  BY DEF Upto
<1>4. \A i \in 1..Len(s) : s[i] \in Node /\ s[i].data \in Int /\ s[i].count \in Nat \ {0}
  <2>. HIDE DEF s
  <2>1. \A i \in 1..Len(s) : s[i] \in Node
    BY <1>1
  <2>. QED  BY <2>1 DEF Node
<1>5. \A j \in R : \E i \in 1..Len(s) : seen[j].num = s[i].data
  <2>1. TAKE j \in R
  <2>2. PICK p \in DOMAIN m : m[p].data = seen[j].num
    BY RowsStored DEF Inv, Counted
  <2>. QED  BY <1>1, <2>2
<1>6. \A j \in R : seen[j].num \in Int
  BY RowsStored
<1>7. \A i \in 1..Len(s) : Equal(s[i].data) = s[i].count
  <2>1. TAKE i \in 1..Len(s)
  <2>2. PICK p \in DOMAIN m : s[i] = m[p]
    BY <1>1
  <2>3. s[i].count = Cardinality({j \in R : Stored(kind, seen[j]) = s[i].data})
    BY <2>2 DEF Inv, Counted, Occurrences
  <2>4. {j \in R : Stored(kind, seen[j]) = s[i].data} = E(i)
    BY RowsStored
  <2>. QED  BY <2>3, <2>4 DEF Equal
<1>. HIDE DEF s, R
<1>8. \A i : /\ IsFiniteSet(A(i)) /\ Cardinality(A(i)) \in Nat
             /\ IsFiniteSet(E(i)) /\ Cardinality(E(i)) \in Nat
  <2>1. TAKE i
  <2>2. A(i) \in SUBSET R /\ E(i) \in SUBSET R
    OBVIOUS
  <2>. HIDE DEF A, E
  <2>. QED  BY <2>2, <1>2, FS_Subset, FS_CardinalityType
<1>9. \A i \in 1..Len(s) : /\ A(i) = A(i - 1) \cup E(i)
                           /\ A(i - 1) \cap E(i) = {}
                           /\ L(i) = A(i - 1)
  <2>1. TAKE i \in 1..Len(s)
  <2>2. 1..i = (1..(i - 1)) \cup {i}
    BY <1>1
  <2>3. A(i) = A(i - 1) \cup E(i)
    BY <2>2
  <2>4. \A l \in 1..(i - 1) : l \in 1..Len(s) /\ s[l].data < s[i].data /\ s[l].data \in Int
    BY <1>1, <1>4
  <2>5. s[i].data \in Int
    BY <1>4
  <2>6. A(i - 1) \cap E(i) = {}
    BY <2>4, <2>5
  <2>7. L(i) = A(i - 1)
    <3>1. ASSUME NEW j \in R, seen[j].num < s[i].data PROVE j \in A(i - 1)
      <4>1. PICK l \in 1..Len(s) : seen[j].num = s[l].data
        BY <1>5
      <4>2. l # i /\ ~ (i < l)
        BY <1>1, <1>4, <3>1, <4>1
      <4>3. l \in 1..(i - 1)
        BY <1>1, <4>2
      <4>. QED  BY <4>1, <4>3
    <3>2. ASSUME NEW j \in A(i - 1) PROVE j \in L(i)
      BY <2>4
    <3>. QED  BY <3>1, <3>2
  <2>. QED  BY <2>3, <2>6, <2>7
<1>10. \A i \in 1..Len(s) : /\ Upto(i) = Upto(i - 1) + s[i].count
                            /\ Smaller(s[i].data) = Upto(i - 1)
  <2>1. TAKE i \in 1..Len(s)
  <2>2. Cardinality(E(i)) = s[i].count
    BY <1>7 DEF Equal, R
  <2>3. Cardinality(A(i)) = Cardinality(A(i - 1)) + Cardinality(E(i))
    <3>1. /\ IsFiniteSet(A(i - 1)) /\ Cardinality(A(i - 1)) \in Nat
          /\ IsFiniteSet(E(i)) /\ Cardinality(E(i)) \in Nat
      BY <1>8
    <3>2. A(i) = A(i - 1) \cup E(i) /\ A(i - 1) \cap E(i) = {}
      BY <1>9
    <3>. HIDE DEF A, E
    <3>3. Cardinality(A(i)) =
            Cardinality(A(i - 1)) + Cardinality(E(i)) - Cardinality(A(i - 1) \cap E(i))
      BY <3>1, <3>2, FS_Union
    <3>4. Cardinality(A(i - 1) \cap E(i)) = 0
      BY <3>2, FS_EmptySet
    <3>. QED  BY <3>1, <3>3, <3>4
  <2>6. Smaller(s[i].data) = Cardinality(L(i))
    BY DEF Smaller, R
  <2>. QED  BY <2>2, <2>3, <2>6, <1>3, <1>9
<1>11. Upto(0) = 0
  <2>1. A(0) = {}
    OBVIOUS
  <2>. QED  BY <2>1, <1>3, FS_EmptySet
<1>12. Upto(Len(s)) = Len(seen)
  <2>1. A(Len(s)) = R
    BY <1>5
  <2>. QED  BY <2>1, <1>2, <1>3
<1>13. \A i, j \in 1..Len(s) : i < j => Upto(i) <= Upto(j - 1)
  <2>1. SUFFICES ASSUME NEW i \in 1..Len(s), NEW j \in 1..Len(s), i < j
                 PROVE  Upto(i) <= Upto(j - 1)
    OBVIOUS
  <2>2. 1..i \subseteq 1..(j - 1)
    BY <2>1, <1>1
  <2>3. A(i) \in SUBSET A(j - 1)
    BY <2>2
  <2>. HIDE DEF A
  <2>. QED  BY <2>3, <1>3, <1>8, FS_Subset
<1>14. \A i \in 1..Len(s) : s[i].data \in Numbers /\ Element(s[i]) = s[i].data
  <2>1. TAKE i \in 1..Len(s)
  <2>2. Cardinality(E(i)) # 0
    BY <1>7, <1>4 DEF Equal, R
  <2>3. PICK j \in R : seen[j].num = s[i].data
    BY <2>2, FS_EmptySet
  <2>4. kind = "integer" => 2 * LowHalf(seen[j].num \div 2) = seen[j].num
    BY RowsStored DEF R
  <2>. QED  BY <2>3, <2>4 DEF Element, Numbers, R
<1>15. \A x \in Numbers : \E i \in 1..Len(s) : x = s[i].data
  BY <1>5 DEF Numbers, R
<1>16. \A i \in 0..Len(s) : Upto(i) \in Nat
  BY <1>8, <1>3
<1>. HIDE DEF A, E, L
<1>. QED  BY <1>1, <1>4, <1>7, <1>10, <1>11, <1>12, <1>13, <1>14, <1>15, <1>16 DEF s

(***************************************************************************)
(* Scans                                                                   *)
(***************************************************************************)

\* c goes from first through the steps that a function of the number and the last value takes.
IsScan(c, len, S, first, step) ==
  /\ c \in [0..len -> S]
  /\ c[0] = first
  /\ \A k \in 1..len : c[k] = step[<<k, c[k - 1]>>]

LEMMA ScanExists ==
  ASSUME NEW len \in Nat, NEW S, NEW first \in S, NEW step \in [(1..len) \X S -> S]
  PROVE  \E c : IsScan(c, len, S, first, step)
<1>. DEFINE Scan(c, k) == c[0] = first /\ \A j \in 1..k : c[j] = step[<<j, c[j - 1]>>]
            Bad == {k \in 0..len : \A c \in [0..k -> S] : ~ Scan(c, k)}
<1>1. SUFFICES ASSUME Bad # {} PROVE FALSE
  <2>1. len \notin Bad
    BY <1>1
  <2>. QED  BY <2>1 DEF IsScan
<1>2. Bad \subseteq Nat
  OBVIOUS
<1>3. PICK k \in Bad : \A j \in Bad : k <= j
  <2>. HIDE DEF Bad
  <2>. QED  BY <1>1, <1>2, LeastNumber
<1>4. k # 0
  <2>1. SUFFICES ASSUME k = 0 PROVE FALSE
    OBVIOUS
  <2>. DEFINE c == [i \in 0..0 |-> first]
  <2>2. c \in [0..k -> S] /\ Scan(c, k)
    BY <2>1
  <2>. QED  BY <2>2, <1>3
<1>5. k - 1 \in 0..len /\ k \in 1..len /\ k - 1 \notin Bad
  BY <1>3, <1>4
<1>6. PICK c \in [0..(k - 1) -> S] : Scan(c, k - 1)
  BY <1>5
<1>. DEFINE d == [i \in 0..k |-> IF i = k THEN step[<<k, c[k - 1]>>] ELSE c[i]]
<1>7. step[<<k, c[k - 1]>>] \in S
  BY <1>5, <1>6
<1>8. d \in [0..k -> S]
  <2>1. \A i \in 0..k : i # k => i \in 0..(k - 1)
    BY <1>5
  <2>. QED  BY <2>1, <1>6, <1>7
<1>9. Scan(d, k)
  <2>1. d[0] = first
    BY <1>4, <1>5, <1>6
  <2>2. ASSUME NEW j \in 1..k PROVE d[j] = step[<<j, d[j - 1]>>]
    <3>1. j - 1 \in 0..k /\ j - 1 # k /\ d[j - 1] = c[j - 1]
      BY <1>5
    <3>2. j # k => j \in 1..(k - 1) /\ d[j] = c[j]
      BY <1>5
    <3>3. d[k] = step[<<k, c[k - 1]>>]
      BY <1>5
    <3>. HIDE DEF d
    <3>. QED  BY <3>1, <3>2, <3>3, <1>6
  <2>. QED  BY <2>1, <2>2
<1>. QED  BY <1>3, <1>8, <1>9

Parallel(c, d, len) == c[0] = d[0] /\ \A k \in 1..len : c[k - 1] = d[k - 1] => c[k] = d[k]
Agree(c, d, len) == \A k \in 0..len : c[k] = d[k]

\* Two functions that agree at the start and from each number to the next agree.
LEMMA ScanAgree ==
  ASSUME NEW len \in Nat, NEW c, NEW d, Parallel(c, d, len)
  PROVE  Agree(c, d, len)
<1>. USE DEF Parallel, Agree
<1>. DEFINE Bad == {k \in 0..len : c[k] # d[k]}
<1>1. SUFFICES ASSUME Bad # {} PROVE FALSE
  OBVIOUS
<1>2. Bad \subseteq Nat
  OBVIOUS
<1>3. PICK k \in Bad : \A j \in Bad : k <= j
  <2>. HIDE DEF Bad
  <2>. QED  BY <1>1, <1>2, LeastNumber
<1>4. k \in 1..len /\ k - 1 \in 0..len /\ k - 1 \notin Bad
  BY <1>3
<1>. QED  BY <1>3, <1>4

Ctx == [rM : Int, mcnt : Nat, mn : Nat, done : {0, 1}]

LEMMA ElementType ==
  ASSUME NEW node \in Node
  PROVE  Element(node) \in Int
<1>1. IntSpan \in Nat \ {0} /\ node.data \in Int
  BY OrderStatisticsAssumption DEF Node
<1>2. node.data \div 2 \in Int
  BY <1>1
<1>3. \A i \in Int : LowHalf(i) \in Int
  BY <1>1 DEF LowHalf
<1>. QED  BY <1>1, <1>2, <1>3 DEF Element

LEMMA IterateType ==
  ASSUME NEW c \in Ctx, NEW node \in Node
  PROVE  /\ ModeIterate(c, node) \in Ctx
         /\ \A quarter \in Int : MedianIterate(quarter, c, node) \in Ctx
<1>1. Element(node) \in Int /\ node.count \in Nat
  BY ElementType DEF Node
<1>0. c.rM \in Int /\ c.mcnt \in Nat /\ c.mn \in Nat /\ c.done \in {0, 1}
  BY DEF Ctx
<1>2. ModeIterate(c, node) \in Ctx
  <2>1. CASE node.count > c.mcnt
    <3>1. ModeIterate(c, node) = [c EXCEPT !.rM = Element(node), !.mcnt = node.count, !.mn = 1]
      BY <2>1 DEF ModeIterate
    <3>2. [c EXCEPT !.rM = Element(node), !.mcnt = node.count, !.mn = 1] \in Ctx
      BY <1>1 DEF Ctx
    <3>. QED  BY <3>1, <3>2
  <2>2. CASE ~ (node.count > c.mcnt)
    <3>1. ModeIterate(c, node) = [c EXCEPT !.mn = IF node.count = c.mcnt THEN c.mn + 1 ELSE c.mn]
      BY <2>2 DEF ModeIterate
    <3>2. (IF node.count = c.mcnt THEN c.mn + 1 ELSE c.mn) \in Nat
      BY <1>0
    <3>. QED  BY <3>1, <3>2 DEF Ctx
  <2>. QED  BY <2>1, <2>2
<1>3. ASSUME NEW quarter \in Int PROVE MedianIterate(quarter, c, node) \in Ctx
  <2>. DEFINE reached == 4 * (c.mcnt + node.count) >= quarter * cnt
              within == 4 * (cnt - c.mcnt) >= 4 * cnt - quarter * cnt
  <2>1. reached \in BOOLEAN /\ within \in BOOLEAN
    OBVIOUS
  <2>2. MedianIterate(quarter, c, node) =
          IF c.done > 0 THEN c
          ELSE IF reached /\ within
          THEN [[c EXCEPT !.mcnt = @ + node.count] EXCEPT !.mn = @ + 1, !.rM = @ + Element(node)]
          ELSE [[c EXCEPT !.mcnt = @ + node.count] EXCEPT !.done = IF reached THEN 1 ELSE 0]
    BY DEF MedianIterate
  <2>. HIDE DEF reached, within
  <2>3. CASE c.done > 0
    BY <2>2, <2>3
  <2>4. CASE ~ (c.done > 0) /\ reached /\ within
    <3>1. MedianIterate(quarter, c, node) =
            [c EXCEPT !.mcnt = c.mcnt + node.count, !.mn = c.mn + 1, !.rM = c.rM + Element(node)]
      BY <1>0, <2>2, <2>4
    <3>2. [c EXCEPT !.mcnt = c.mcnt + node.count, !.mn = c.mn + 1, !.rM = c.rM + Element(node)]
            \in Ctx
      <4>. DEFINE a == c.mcnt + node.count
                  b == c.mn + 1
                  d == c.rM + Element(node)
      <4>1. a \in Nat /\ b \in Nat /\ d \in Int
        BY <1>1, <1>0
      <4>. HIDE DEF a, b, d
      <4>2. [c EXCEPT !.mcnt = a, !.mn = b, !.rM = d] \in Ctx
        BY <4>1 DEF Ctx
      <4>. QED  BY <4>2 DEF a, b, d
    <3>. QED  BY <3>1, <3>2
  <2>5. CASE ~ (c.done > 0) /\ ~ (reached /\ within)
    <3>1. MedianIterate(quarter, c, node) =
            [c EXCEPT !.mcnt = c.mcnt + node.count, !.done = IF reached THEN 1 ELSE 0]
      BY <1>0, <2>2, <2>5
    <3>2. [c EXCEPT !.mcnt = c.mcnt + node.count, !.done = IF reached THEN 1 ELSE 0] \in Ctx
      <4>. DEFINE a == c.mcnt + node.count
                  b == IF reached THEN 1 ELSE 0
      <4>1. a \in Nat /\ b \in {0, 1}
        BY <1>1, <1>0
      <4>. HIDE DEF a, b
      <4>2. [c EXCEPT !.mcnt = a, !.done = b] \in Ctx
        BY <4>1 DEF Ctx
      <4>. QED  BY <4>2 DEF a, b
    <3>. QED  BY <3>1, <3>2
  <2>. QED  BY <2>3, <2>4, <2>5
<1>. QED  BY <1>2, <1>3

\* The contexts that map_iterate goes through.
LEMMA ModeContexts ==
  ASSUME NEW s \in Seq(Node)
  PROVE  LET c == ModeContext(s) IN
         /\ c \in [0..Len(s) -> Ctx]
         /\ c[0] = Ctx0
         /\ \A k \in 1..Len(s) : c[k] = ModeIterate(c[k - 1], s[k])
<1>. DEFINE len == Len(s)
            f(c) == [k \in 0..len |-> IF k = 0 THEN Ctx0 ELSE ModeIterate(c[k - 1], s[k])]
            step == [kc \in (1..len) \X Ctx |-> ModeIterate(kc[2], s[kc[1]])]
<1>1. len \in Nat /\ \A k \in 1..len : s[k] \in Node
  OBVIOUS
<1>2. Ctx0 \in Ctx
  BY DEF Ctx, Ctx0
<1>3. step \in [(1..len) \X Ctx -> Ctx]
  BY <1>1, IterateType
<1>4. PICK w : IsScan(w, len, Ctx, Ctx0, step)
  <2>1. len \in Nat
    BY <1>1
  <2>. HIDE DEF step, len
  <2>. QED  BY <2>1, <1>2, <1>3, ScanExists, Zenon
<1>40. /\ w \in [0..len -> Ctx]
       /\ w[0] = Ctx0
       /\ \A k \in 1..len : w[k] = step[<<k, w[k - 1]>>]
  BY <1>4 DEF IsScan
<1>5. \A k \in 1..len : w[k] = ModeIterate(w[k - 1], s[k])
  <2>1. TAKE k \in 1..len
  <2>2. k - 1 \in 0..len
    BY <1>1
  <2>3. <<k, w[k - 1]>> \in (1..len) \X Ctx
    BY <2>2, <1>40
  <2>4. step[<<k, w[k - 1]>>] = ModeIterate(w[k - 1], s[k])
    BY <2>3
  <2>. QED  BY <2>4, <1>40
<1>6. w = f(w)
  <2>1. \A k \in 0..len : w[k] = f(w)[k]
    BY <1>40, <1>5
  <2>. QED  BY <2>1, <1>40
<1>7. ModeContext(s) = CHOOSE c : c = f(c)
  BY DEF ModeContext
<1>. DEFINE c == ModeContext(s)
<1>8. c = f(c)
  <2>. HIDE DEF f
  <2>. QED  BY <1>6, <1>7
<1>. HIDE DEF c
<1>9. c[0] = Ctx0 /\ \A k \in 1..len : c[k] = ModeIterate(c[k - 1], s[k])
  <2>1. f(c)[0] = Ctx0 /\ \A k \in 1..len : f(c)[k] = ModeIterate(c[k - 1], s[k])
    BY <1>1
  <2>. HIDE DEF f
  <2>. QED  BY <2>1, <1>8
<1>10. \A k \in 0..len : c[k] = w[k]
  <2>1. c[0] = w[0] /\ len \in Nat
    BY <1>1, <1>40, <1>9
  <2>2. \A k \in 1..len : c[k - 1] = w[k - 1] => c[k] = w[k]
    BY <1>5, <1>9
  <2>. HIDE DEF len
  <2>3. Agree(c, w, len)
    BY <2>1, <2>2, ScanAgree DEF Parallel
  <2>. QED  BY <2>3 DEF Agree
<1>11. c \in [0..len -> Ctx]
  BY <1>8, <1>10, <1>40
<1>. QED  BY <1>9, <1>11 DEF c

LEMMA MedianContexts ==
  ASSUME NEW s \in Seq(Node), NEW quarter \in Int
  PROVE  LET c == MedianContext(quarter, s) IN
         /\ c \in [0..Len(s) -> Ctx]
         /\ c[0] = Ctx0
         /\ \A k \in 1..Len(s) : c[k] = MedianIterate(quarter, c[k - 1], s[k])
<1>. DEFINE len == Len(s)
            f(c) == [k \in 0..len |-> IF k = 0 THEN Ctx0 ELSE MedianIterate(quarter, c[k - 1], s[k])]
            step == [kc \in (1..len) \X Ctx |-> MedianIterate(quarter, kc[2], s[kc[1]])]
<1>1. len \in Nat /\ \A k \in 1..len : s[k] \in Node
  OBVIOUS
<1>2. Ctx0 \in Ctx
  BY DEF Ctx, Ctx0
<1>3. step \in [(1..len) \X Ctx -> Ctx]
  BY <1>1, IterateType
<1>4. PICK w : IsScan(w, len, Ctx, Ctx0, step)
  <2>1. len \in Nat
    BY <1>1
  <2>. HIDE DEF step, len
  <2>. QED  BY <2>1, <1>2, <1>3, ScanExists, Zenon
<1>40. /\ w \in [0..len -> Ctx]
       /\ w[0] = Ctx0
       /\ \A k \in 1..len : w[k] = step[<<k, w[k - 1]>>]
  BY <1>4 DEF IsScan
<1>5. \A k \in 1..len : w[k] = MedianIterate(quarter, w[k - 1], s[k])
  <2>1. TAKE k \in 1..len
  <2>2. k - 1 \in 0..len
    BY <1>1
  <2>3. <<k, w[k - 1]>> \in (1..len) \X Ctx
    BY <2>2, <1>40
  <2>4. step[<<k, w[k - 1]>>] = MedianIterate(quarter, w[k - 1], s[k])
    BY <2>3
  <2>. QED  BY <2>4, <1>40
<1>6. w = f(w)
  <2>1. \A k \in 0..len : w[k] = f(w)[k]
    BY <1>40, <1>5
  <2>. QED  BY <2>1, <1>40
<1>7. MedianContext(quarter, s) = CHOOSE c : c = f(c)
  BY DEF MedianContext
<1>. DEFINE c == MedianContext(quarter, s)
<1>8. c = f(c)
  <2>. HIDE DEF f
  <2>. QED  BY <1>6, <1>7
<1>. HIDE DEF c
<1>9. c[0] = Ctx0 /\ \A k \in 1..len : c[k] = MedianIterate(quarter, c[k - 1], s[k])
  <2>1. f(c)[0] = Ctx0 /\ \A k \in 1..len : f(c)[k] = MedianIterate(quarter, c[k - 1], s[k])
    BY <1>1
  <2>. HIDE DEF f
  <2>. QED  BY <2>1, <1>8
<1>10. \A k \in 0..len : c[k] = w[k]
  <2>1. c[0] = w[0] /\ len \in Nat
    BY <1>1, <1>40, <1>9
  <2>2. \A k \in 1..len : c[k - 1] = w[k - 1] => c[k] = w[k]
    BY <1>5, <1>9
  <2>. HIDE DEF len
  <2>3. Agree(c, w, len)
    BY <2>1, <2>2, ScanAgree DEF Parallel
  <2>. QED  BY <2>3 DEF Agree
<1>11. c \in [0..len -> Ctx]
  BY <1>8, <1>10, <1>40
<1>. QED  BY <1>9, <1>11 DEF c

\* A property of the numbers up to a bound that the first has, and each next one if the last has.
LEMMA ScanHolds ==
  ASSUME NEW len \in Nat, NEW S, 0 \in S, \A k \in 1..len : k - 1 \in S => k \in S
  PROVE  \A k \in 0..len : k \in S
<1>. DEFINE Bad == {k \in 0..len : k \notin S}
<1>1. SUFFICES ASSUME Bad # {} PROVE FALSE
  OBVIOUS
<1>2. Bad \subseteq Nat
  OBVIOUS
<1>3. PICK k \in Bad : \A j \in Bad : k <= j
  <2>. HIDE DEF Bad
  <2>. QED  BY <1>1, <1>2, LeastNumber
<1>4. k \in 1..len /\ k - 1 \in 0..len /\ k - 1 \notin Bad
  BY <1>3
<1>. QED  BY <1>3, <1>4

(***************************************************************************)
(* mode                                                                    *)
(***************************************************************************)

\* After k nodes: the highest count so far, the value of one node that has it, and in mn whether
\* it is the only one.
Leading(s, c, k) ==
  /\ k = 0 => c = Ctx0
  /\ k > 0 => \E j \in 1..k :
       /\ c.rM = Element(s[j])
       /\ c.mcnt = s[j].count
       /\ \A l \in 1..k : s[l].count <= c.mcnt
       /\ c.mn >= 1
       /\ c.mn = 1 <=> \A l \in 1..k : s[l].count = c.mcnt => l = j

LEMMA LeadingStep ==
  ASSUME NEW s \in Seq(Node), NEW k \in 1..Len(s), NEW c \in Ctx, Leading(s, c, k - 1)
  PROVE  Leading(s, ModeIterate(c, s[k]), k)
<1>. DEFINE d == ModeIterate(c, s[k])
<1>1. s[k].count \in Nat \ {0} /\ \A l \in 1..k : s[l].count \in Nat \ {0}
  <2>1. \A l \in 1..k : s[l] \in Node
    OBVIOUS
  <2>2. k \in 1..k
    OBVIOUS
  <2>3. \A l \in 1..k : s[l].count \in Nat \ {0}
    BY <2>1 DEF Node
  <2>. QED  BY <2>2, <2>3
<1>2. c.mcnt \in Nat /\ c.mn \in Nat
  BY DEF Ctx
<1>3. k \in Nat /\ k > 0 /\ k - 1 \in Nat /\ 1..k = (1..(k - 1)) \cup {k}
  OBVIOUS
<1>4. CASE s[k].count > c.mcnt
  <2>1. d.rM = Element(s[k]) /\ d.mcnt = s[k].count /\ d.mn = 1
    BY <1>4 DEF ModeIterate, Ctx
  <2>2. \A l \in 1..(k - 1) : s[l].count < s[k].count
    <3>1. CASE k - 1 = 0
      BY <3>1
    <3>2. CASE k - 1 > 0
      <4>1. \A l \in 1..(k - 1) : s[l].count <= c.mcnt
        BY <3>2 DEF Leading
      <4>. QED  BY <4>1, <1>4, <1>1, <1>2
    <3>. QED  BY <3>1, <3>2, <1>3
  <2>3. \A l \in 1..k : s[l].count <= s[k].count /\ (s[l].count = s[k].count => l = k)
    BY <2>2, <1>1, <1>3
  <2>4. k \in 1..k /\ k # 0
    BY <1>3
  <2>. HIDE DEF d
  <2>5. \A l \in 1..k : s[l].count <= d.mcnt /\ (s[l].count = d.mcnt => l = k)
    BY <2>1, <2>3
  <2>6. /\ d.rM = Element(s[k])
        /\ d.mcnt = s[k].count
        /\ \A l \in 1..k : s[l].count <= d.mcnt
        /\ d.mn >= 1
        /\ d.mn = 1 <=> \A l \in 1..k : s[l].count = d.mcnt => l = k
    BY <2>1, <2>5
  <2>. QED  BY <2>4, <2>6 DEF Leading, d
<1>5. CASE ~ (s[k].count > c.mcnt)
  <2>1. k - 1 > 0
    <3>1. SUFFICES ASSUME k - 1 = 0 PROVE FALSE
      BY <1>3
    <3>2. c.mcnt = 0
      BY <3>1 DEF Leading, Ctx0
    <3>. QED  BY <3>2, <1>5, <1>1
  <2>2. PICK j \in 1..(k - 1) :
          /\ c.rM = Element(s[j])
          /\ c.mcnt = s[j].count
          /\ \A l \in 1..(k - 1) : s[l].count <= c.mcnt
          /\ c.mn >= 1
          /\ c.mn = 1 <=> \A l \in 1..(k - 1) : s[l].count = c.mcnt => l = j
    BY <2>1 DEF Leading
  <2>3. d.rM = c.rM /\ d.mcnt = c.mcnt /\ d.mn = IF s[k].count = c.mcnt THEN c.mn + 1 ELSE c.mn
    BY <1>5 DEF ModeIterate, Ctx
  <2>. HIDE DEF d
  <2>4. j \in 1..k /\ j # k /\ k \in 1..k
    BY <1>3
  <2>5. \A l \in 1..k : s[l].count <= d.mcnt
    BY <1>1, <1>2, <1>3, <1>5, <2>2, <2>3
  <2>6. d.mn >= 1
    BY <1>2, <2>2, <2>3
  <2>7. d.mn = 1 <=> \A l \in 1..k : s[l].count = d.mcnt => l = j
    <3>1. CASE s[k].count = c.mcnt
      BY <3>1, <1>2, <2>2, <2>3, <2>4
    <3>2. CASE s[k].count # c.mcnt
      BY <3>2, <1>3, <2>2, <2>3
    <3>. QED  BY <3>1, <3>2
  <2>8. /\ d.rM = Element(s[j])
        /\ d.mcnt = s[j].count
        /\ \A l \in 1..k : s[l].count <= d.mcnt
        /\ d.mn >= 1
        /\ d.mn = 1 <=> \A l \in 1..k : s[l].count = d.mcnt => l = j
    BY <2>2, <2>3, <2>5, <2>6, <2>7
  <2>9. k # 0
    BY <1>3
  <2>. QED  BY <2>4, <2>8, <2>9 DEF Leading, d
<1>. QED  BY <1>4, <1>5

LEMMA LeadingHolds ==
  ASSUME NEW s \in Seq(Node)
  PROVE  Leading(s, ModeContext(s)[Len(s)], Len(s))
<1>. DEFINE c == ModeContext(s)
            len == Len(s)
            S == {k \in 0..len : Leading(s, c[k], k)}
<1>1. /\ c \in [0..len -> Ctx]
      /\ c[0] = Ctx0
      /\ \A k \in 1..len : c[k] = ModeIterate(c[k - 1], s[k])
  BY ModeContexts
<1>2. len \in Nat
  OBVIOUS
<1>. HIDE DEF c
<1>3. 0 \in S
  BY <1>1, <1>2 DEF Leading
<1>4. \A k \in 1..len : k - 1 \in S => k \in S
  <2>1. SUFFICES ASSUME NEW k \in 1..len, k - 1 \in S PROVE k \in S
    OBVIOUS
  <2>2. c[k - 1] \in Ctx /\ Leading(s, c[k - 1], k - 1)
    BY <2>1, <1>1
  <2>. QED  BY <2>2, <1>1, <1>2, LeadingStep
<1>5. \A k \in 0..len : k \in S
  <2>1. len \in Nat
    BY <1>2
  <2>. HIDE DEF S, len
  <2>. QED  BY <2>1, <1>3, <1>4, ScanHolds
<1>. QED  BY <1>5, <1>2 DEF c

\* modeFinalize: the value more frequent than every other, or NULL.
LEMMA ModeOfRows ==
  ASSUME Inv, Exact
  PROVE  IF Cardinality(MostFrequent) = 1
         THEN ModeFinalize.den = 1 /\ ModeFinalize.num \in MostFrequent
         ELSE ModeFinalize.den = 0
<1>. DEFINE s == InOrder(m)
            c == ModeContext(s)[Len(s)]
            len == Len(s)
<1>1. /\ len \in Nat
      /\ \A i \in 1..len :
           /\ s[i] \in Node
           /\ s[i].data \in Numbers
           /\ Element(s[i]) = s[i].data
           /\ Equal(s[i].data) = s[i].count
      /\ \A i, j \in 1..len : i < j => s[i].data < s[j].data
      /\ \A x \in Numbers : \E i \in 1..len : x = s[i].data
  BY TraversalCounts
<1>2. ModeFinalize.num = c.rM /\ ModeFinalize.den = IF c.mn = 1 THEN 1 ELSE 0
  BY DEF ModeFinalize
<1>3. Leading(s, c, len)
  BY LeadingHolds, Traversal
<1>. HIDE DEF s, c
<1>4. CASE len = 0
  <2>1. MostFrequent = {}
    BY <1>4, <1>1 DEF MostFrequent
  <2>2. Cardinality(MostFrequent) = 0
    BY <2>1, FS_EmptySet
  <2>3. c.mn = 0
    BY <1>3, <1>4 DEF Leading, Ctx0
  <2>. QED  BY <2>2, <2>3, <1>2
<1>5. CASE len > 0
  <2>1. PICK j \in 1..len :
          /\ c.rM = Element(s[j])
          /\ c.mcnt = s[j].count
          /\ \A l \in 1..len : s[l].count <= c.mcnt
          /\ c.mn >= 1
          /\ c.mn = 1 <=> \A l \in 1..len : s[l].count = c.mcnt => l = j
    BY <1>3, <1>5 DEF Leading
  <2>2. \A i \in 1..len : s[i].count \in Nat /\ s[i].data \in Int
    BY <1>1 DEF Node
  <2>3. \A l \in 1..len : s[l].data \in MostFrequent <=> s[l].count = c.mcnt
    <3>1. TAKE l \in 1..len
    <3>2. ASSUME s[l].count = c.mcnt PROVE s[l].data \in MostFrequent
      BY <3>2, <2>1, <1>1 DEF MostFrequent
    <3>3. ASSUME s[l].data \in MostFrequent PROVE s[l].count = c.mcnt
      <4>1. Equal(s[j].data) <= Equal(s[l].data)
        BY <3>3, <1>1 DEF MostFrequent
      <4>2. s[j].count <= s[l].count
        BY <4>1, <1>1
      <4>. QED  BY <4>2, <2>1, <2>2
    <3>. QED  BY <3>2, <3>3
  <2>4. \A x \in MostFrequent : \E l \in 1..len : x = s[l].data
    BY <1>1 DEF MostFrequent
  <2>5. s[j].data \in MostFrequent
    BY <2>1, <2>3
  <2>6. CASE c.mn = 1
    <3>1. MostFrequent = {s[j].data}
      BY <2>1, <2>3, <2>4, <2>5, <2>6
    <3>2. Cardinality(MostFrequent) = 1
      BY <3>1, FS_Singleton
    <3>. QED  BY <3>2, <2>1, <2>5, <2>6, <1>1, <1>2
  <2>7. CASE c.mn # 1
    <3>1. PICK l \in 1..len : s[l].count = c.mcnt /\ l # j
      BY <2>1, <2>7
    <3>2. l < j \/ j < l
      BY <3>1, <1>1
    <3>3. s[l].data # s[j].data
      BY <3>2, <2>2, <1>1
    <3>4. s[l].data \in MostFrequent
      BY <3>1, <2>3
    <3>5. IsFiniteSet(MostFrequent)
      <4>1. Len(seen) \in Nat
        BY DEF Inv, TypeOK
      <4>. DEFINE f == [i \in 1..Len(seen) |-> seen[i].num]
      <4>2. f \in Surjection(1..Len(seen), Numbers)
        BY DEF Surjection, Numbers
      <4>3. IsFiniteSet(1..Len(seen))
        BY <4>1, FS_Interval
      <4>4. IsFiniteSet(Numbers)
        <5>. HIDE DEF f
        <5>. QED  BY <4>2, <4>3, FS_Surjection
      <4>5. MostFrequent \in SUBSET Numbers
        BY DEF MostFrequent
      <4>. QED  BY <4>4, <4>5, FS_Subset
    <3>6. Cardinality(MostFrequent) # 1
      <4>1. \A x : MostFrequent # {x}
        BY <2>5, <3>3, <3>4
      <4>. QED  BY <4>1, <3>5, FS_Singleton
    <3>. QED  BY <3>6, <2>7, <1>2
  <2>. QED  BY <2>6, <2>7
<1>. QED  BY <1>4, <1>5, <1>1

(***************************************************************************)
(* median and the quartiles                                                *)
(***************************************************************************)

\* medianIterate by where the node's rows lie: before the fraction, at it, or behind it.
LEMMA MedianCases ==
  ASSUME NEW quarter \in Int, cnt \in Nat, NEW c \in Ctx, NEW node \in Node
  PROVE  LET d == MedianIterate(quarter, c, node)
             upto == c.mcnt + node.count
         IN
         /\ c.done > 0 => d = c
         /\ c.done = 0 /\ 4 * upto < quarter * cnt =>
              d.rM = c.rM /\ d.mn = c.mn /\ d.mcnt = upto /\ d.done = 0
         /\ c.done = 0 /\ 4 * c.mcnt <= quarter * cnt /\ quarter * cnt <= 4 * upto =>
              d.rM = c.rM + Element(node) /\ d.mn = c.mn + 1 /\ d.mcnt = upto /\ d.done = 0
         /\ c.done = 0 /\ quarter * cnt < 4 * c.mcnt =>
              d.rM = c.rM /\ d.mn = c.mn /\ d.done = 1
<1>. DEFINE d == MedianIterate(quarter, c, node)
            upto == c.mcnt + node.count
            P == quarter * cnt
            reached == 4 * (c.mcnt + node.count) >= quarter * cnt
            within == 4 * (cnt - c.mcnt) >= 4 * cnt - quarter * cnt
<1>1. d = IF c.done > 0 THEN c
          ELSE IF reached /\ within
          THEN [[c EXCEPT !.mcnt = @ + node.count] EXCEPT !.mn = @ + 1, !.rM = @ + Element(node)]
          ELSE [[c EXCEPT !.mcnt = @ + node.count] EXCEPT !.done = IF reached THEN 1 ELSE 0]
  BY DEF MedianIterate
<1>2. P \in Int /\ c.mcnt \in Nat /\ node.count \in Nat \ {0} /\ c.done \in {0, 1}
  BY DEF Ctx, Node
<1>3. reached <=> P <= 4 * upto
  <2>. HIDE DEF upto
  <2>1. upto \in Int /\ (reached <=> 4 * upto >= P)
    BY <1>2 DEF upto
  <2>. HIDE DEF P, reached
  <2>. QED  BY <1>2, <2>1
<1>4. within <=> 4 * c.mcnt <= P
  <2>1. within <=> 4 * (cnt - c.mcnt) >= 4 * cnt - P
    OBVIOUS
  <2>. HIDE DEF P, within
  <2>. QED  BY <1>2, <2>1
<1>5. reached \in BOOLEAN /\ within \in BOOLEAN
  OBVIOUS
<1>6. quarter * cnt = P
  OBVIOUS
<1>. HIDE DEF d, P, reached, within
<1>7. c.done > 0 => d = c
  BY <1>1
<1>8. ASSUME c.done = 0, reached, within
      PROVE  d.rM = c.rM + Element(node) /\ d.mn = c.mn + 1 /\ d.mcnt = upto /\ d.done = 0
  <2>1. d = [[c EXCEPT !.mcnt = @ + node.count] EXCEPT !.mn = @ + 1, !.rM = @ + Element(node)]
    BY <1>1, <1>8
  <2>. QED  BY <2>1, <1>8 DEF Ctx
<1>9. ASSUME c.done = 0, ~ (reached /\ within)
      PROVE  d.rM = c.rM /\ d.mn = c.mn /\ d.mcnt = upto /\ d.done = IF reached THEN 1 ELSE 0
  <2>1. d = [[c EXCEPT !.mcnt = @ + node.count] EXCEPT !.done = IF reached THEN 1 ELSE 0]
    BY <1>1, <1>9
  <2>. QED  BY <2>1, <1>9 DEF Ctx
<1>10. c.done = 0 /\ 4 * upto < P =>
         d.rM = c.rM /\ d.mn = c.mn /\ d.mcnt = upto /\ d.done = 0
  <2>1. 4 * upto < P => ~ reached
    BY <1>2, <1>3
  <2>. QED  BY <2>1, <1>9
<1>11. c.done = 0 /\ 4 * c.mcnt <= P /\ P <= 4 * upto =>
         d.rM = c.rM + Element(node) /\ d.mn = c.mn + 1 /\ d.mcnt = upto /\ d.done = 0
  BY <1>3, <1>4, <1>8
<1>12. c.done = 0 /\ P < 4 * c.mcnt => d.rM = c.rM /\ d.mn = c.mn /\ d.done = 1
  <2>1. P < 4 * c.mcnt => reached /\ ~ within
    BY <1>2, <1>3, <1>4
  <2>. QED  BY <2>1, <1>9
<1>. QED  BY <1>6, <1>7, <1>10, <1>11, <1>12 DEF d

\* After k nodes, where node i is the first that reaches the fraction: nothing yet, the value of
\* node i, or the values of node i and the next when the fraction lies between them.
Scanned(quarter, i, s, c, k) ==
  /\ k < i => c = [Ctx0 EXCEPT !.mcnt = Upto(k)]
  /\ k = i => c = [rM |-> Element(s[i]), mcnt |-> Upto(i), mn |-> 1, done |-> 0]
  /\ k > i => /\ c.done > 0 \/ quarter * cnt < 4 * c.mcnt
              /\ IF quarter * cnt = 4 * Upto(i)
                 THEN c.rM = Element(s[i]) + Element(s[i + 1]) /\ c.mn = 2
                 ELSE c.rM = Element(s[i]) /\ c.mn = 1

LEMMA ScannedStep ==
  ASSUME NEW quarter \in Int, cnt \in Nat, NEW s \in Seq(Node), NEW i \in 1..Len(s),
         \A j \in 0..Len(s) : Upto(j) \in Nat,
         \A j \in 1..Len(s) : Upto(j) = Upto(j - 1) + s[j].count,
         \A j \in 1..Len(s) : j < i => 4 * Upto(j) < quarter * cnt,
         4 * Upto(i - 1) < quarter * cnt, quarter * cnt <= 4 * Upto(i),
         NEW k \in 1..Len(s), NEW c \in Ctx, Scanned(quarter, i, s, c, k - 1)
  PROVE  Scanned(quarter, i, s, MedianIterate(quarter, c, s[k]), k)
<1>. DEFINE d == MedianIterate(quarter, c, s[k])
            P == quarter * cnt
<1>1. P \in Int /\ s[k] \in Node /\ d \in Ctx
  <2>1. s[k] \in Node
    OBVIOUS
  <2>2. P \in Int
    OBVIOUS
  <2>3. d \in Ctx
    BY <2>1, IterateType
  <2>. QED  BY <2>1, <2>2, <2>3
<1>2. s[k].count \in Nat \ {0} /\ Upto(k - 1) \in Nat /\ Upto(k) \in Nat
      /\ Upto(k) = Upto(k - 1) + s[k].count /\ Upto(i) \in Nat
  <2>1. s[k].count \in Nat \ {0}
    BY <1>1 DEF Node
  <2>2. k - 1 \in 0..Len(s) /\ k \in 0..Len(s) /\ i \in 0..Len(s)
    OBVIOUS
  <2>. QED  BY <2>1, <2>2
<1>3. c.mcnt \in Nat /\ c.done \in {0, 1} /\ c.mn \in Nat /\ c.rM \in Int
  BY DEF Ctx
<1>4. /\ c.done > 0 => d = c
      /\ c.done = 0 /\ 4 * (c.mcnt + s[k].count) < P =>
           d.rM = c.rM /\ d.mn = c.mn /\ d.mcnt = c.mcnt + s[k].count /\ d.done = 0
      /\ c.done = 0 /\ 4 * c.mcnt <= P /\ P <= 4 * (c.mcnt + s[k].count) =>
           d.rM = c.rM + Element(s[k]) /\ d.mn = c.mn + 1 /\ d.mcnt = c.mcnt + s[k].count
             /\ d.done = 0
      /\ c.done = 0 /\ P < 4 * c.mcnt => d.rM = c.rM /\ d.mn = c.mn /\ d.done = 1
  BY <1>1, MedianCases
<1>5. Element(s[k]) \in Int
  BY <1>1, ElementType
<1>6. /\ \A j \in 1..Len(s) : j < i => 4 * Upto(j) < P
      /\ 4 * Upto(i - 1) < P /\ P <= 4 * Upto(i)
      /\ quarter * cnt = P
  OBVIOUS
<1>7. d = [rM |-> d.rM, mcnt |-> d.mcnt, mn |-> d.mn, done |-> d.done]
  BY <1>1 DEF Ctx
<1>. HIDE DEF d, P
<1>0. k \in Int /\ i \in Int
  OBVIOUS
<1>8. CASE k < i
  <2>1. c = [Ctx0 EXCEPT !.mcnt = Upto(k - 1)]
    BY <1>8 DEF Scanned
  <2>2. c.rM = 0 /\ c.mn = 0 /\ c.done = 0 /\ c.mcnt = Upto(k - 1)
    BY <2>1 DEF Ctx0
  <2>3. d.rM = 0 /\ d.mn = 0 /\ d.done = 0 /\ d.mcnt = Upto(k)
    BY <2>2, <1>2, <1>4, <1>6, <1>8
  <2>4. d = [Ctx0 EXCEPT !.mcnt = Upto(k)]
    BY <2>3, <1>7 DEF Ctx0
  <2>. QED  BY <2>4, <1>8 DEF Scanned, d
<1>9. CASE k = i
  <2>1. c = [Ctx0 EXCEPT !.mcnt = Upto(k - 1)]
    BY <1>9 DEF Scanned
  <2>2. c.rM = 0 /\ c.mn = 0 /\ c.done = 0 /\ c.mcnt = Upto(k - 1)
    BY <2>1 DEF Ctx0
  <2>3. d.rM = Element(s[k]) /\ d.mn = 1 /\ d.done = 0 /\ d.mcnt = Upto(k)
    BY <2>2, <1>2, <1>1, <1>4, <1>5, <1>6, <1>9
  <2>4. d = [rM |-> Element(s[i]), mcnt |-> Upto(i), mn |-> 1, done |-> 0]
    BY <2>3, <1>7, <1>9
  <2>. QED  BY <2>4, <1>9 DEF Scanned, d
<1>10. CASE k - 1 = i
  <2>1. c = [rM |-> Element(s[i]), mcnt |-> Upto(i), mn |-> 1, done |-> 0]
    BY <1>10 DEF Scanned
  <2>2. c.rM = Element(s[i]) /\ c.mn = 1 /\ c.done = 0 /\ c.mcnt = Upto(i) /\ k = i + 1
    BY <2>1, <1>10
  <2>3. CASE P = 4 * Upto(i)
    <3>0. 4 * c.mcnt <= P /\ P <= 4 * (c.mcnt + s[k].count)
      <4>1. 4 * Upto(i) <= 4 * (Upto(i) + s[k].count)
        BY <1>2
      <4>2. P \in Int /\ 4 * Upto(i) = P
        BY <1>1, <2>3
      <4>. QED  BY <2>2, <4>1, <4>2
    <3>1. d.rM = Element(s[i]) + Element(s[i + 1]) /\ d.mn = 2 /\ d.mcnt = Upto(i) + s[k].count
      BY <3>0, <2>2, <1>4
    <3>2. P < 4 * d.mcnt
      <4>1. 4 * Upto(i) < 4 * (Upto(i) + s[k].count)
        BY <1>2
      <4>2. 4 * d.mcnt = 4 * (Upto(i) + s[k].count)
        BY <3>1
      <4>. QED  BY <4>1, <4>2, <2>3
    <3>3. k # i /\ ~ (k < i)
      BY <1>0, <1>10
    <3>. QED  BY <3>1, <3>2, <3>3, <2>3, <1>6 DEF Scanned, d
  <2>4. CASE P # 4 * Upto(i)
    <3>1. d.rM = Element(s[i]) /\ d.mn = 1 /\ d.done = 1
      <4>0. P \in Int /\ P <= 4 * Upto(i) /\ P # 4 * Upto(i) /\ 4 * Upto(i) \in Int
        BY <2>4, <1>1, <1>2, <1>6
      <4>1. P < 4 * c.mcnt
        BY <4>0, <2>2
      <4>. QED  BY <4>1, <2>2, <1>4
    <3>2. k # i /\ ~ (k < i)
      BY <1>0, <1>10
    <3>. QED  BY <3>1, <3>2, <2>4, <1>6 DEF Scanned, d
  <2>. QED  BY <2>3, <2>4
<1>11. CASE k - 1 > i
  <2>1. /\ c.done > 0 \/ P < 4 * c.mcnt
        /\ IF P = 4 * Upto(i)
           THEN c.rM = Element(s[i]) + Element(s[i + 1]) /\ c.mn = 2
           ELSE c.rM = Element(s[i]) /\ c.mn = 1
    BY <1>11, <1>6 DEF Scanned
  <2>2. d.rM = c.rM /\ d.mn = c.mn /\ d.done > 0
    <3>1. CASE c.done > 0
      BY <3>1, <1>4
    <3>2. CASE c.done = 0
      BY <3>2, <2>1, <1>4
    <3>. QED  BY <3>1, <3>2, <1>3
  <2>3. k # i /\ ~ (k < i)
    BY <1>0, <1>11
  <2>4. IF P = 4 * Upto(i)
        THEN d.rM = Element(s[i]) + Element(s[i + 1]) /\ d.mn = 2
        ELSE d.rM = Element(s[i]) /\ d.mn = 1
    BY <2>1, <2>2, Zenon
  <2>. QED  BY <2>2, <2>3, <2>4, <1>6, Zenon DEF Scanned, d, P
<1>12. k < i \/ k = i \/ k - 1 = i \/ k - 1 > i
  BY <1>0
<1>. QED  BY <1>8, <1>9, <1>10, <1>11, <1>12, Zenon

\* The k-th smallest row has the value of the node whose rows the k-th is one of.
LEMMA SmallestRow ==
  ASSUME Inv, Exact, NEW i \in 1..Len(InOrder(m)), NEW k \in Int, Upto(i - 1) < k, k <= Upto(i)
  PROVE  Smallest(k) = InOrder(m)[i].data
<1>. DEFINE s == InOrder(m)
            len == Len(s)
            Kth(x) == Smaller(x) < k /\ k <= Smaller(x) + Equal(x)
<1>1. /\ len \in Nat
      /\ \A j \in 0..len : Upto(j) \in Nat
      /\ \A j \in 1..len :
           /\ s[j].data \in Numbers
           /\ Equal(s[j].data) = s[j].count
           /\ Smaller(s[j].data) = Upto(j - 1)
           /\ Upto(j) = Upto(j - 1) + s[j].count
      /\ \A j, l \in 1..len : j < l => Upto(j) <= Upto(l - 1)
      /\ \A x \in Numbers : \E j \in 1..len : x = s[j].data
  BY TraversalCounts
<1>. HIDE DEF s
<1>2. \A j \in 1..len : Kth(s[j].data) <=> Upto(j - 1) < k /\ k <= Upto(j)
  BY <1>1
<1>3. i \in 1..len
  BY DEF s
<1>4. s[i].data \in Numbers /\ Kth(s[i].data)
  BY <1>1, <1>2, <1>3
<1>5. ASSUME NEW x \in Numbers, Kth(x) PROVE x = s[i].data
  <2>1. PICK j \in 1..len : x = s[j].data
    BY <1>1
  <2>2. Upto(j - 1) < k /\ k <= Upto(j)
    BY <1>2, <1>5, <2>1
  <2>3. /\ Upto(j - 1) \in Nat /\ Upto(j) \in Nat
        /\ Upto(i - 1) \in Nat /\ Upto(i) \in Nat
    <3>1. j - 1 \in 0..len /\ j \in 0..len /\ i - 1 \in 0..len /\ i \in 0..len
      BY <1>1, <1>3
    <3>. QED  BY <3>1, <1>1
  <2>4. ~ (j < i) /\ ~ (i < j)
    <3>1. ASSUME j < i PROVE FALSE
      <4>1. Upto(j) <= Upto(i - 1)
        BY <3>1, <1>1, <1>3
      <4>. QED  BY <4>1, <2>2, <2>3
    <3>2. ASSUME i < j PROVE FALSE
      <4>1. Upto(i) <= Upto(j - 1)
        BY <3>2, <1>1, <1>3
      <4>. QED  BY <4>1, <2>2, <2>3
    <3>. QED  BY <3>1, <3>2
  <2>5. j = i
    BY <2>4, <1>1, <1>3
  <2>. QED  BY <2>1, <2>5
<1>6. Smallest(k) = CHOOSE x \in Numbers : Kth(x)
  BY DEF Smallest
<1>. HIDE DEF Kth
<1>. QED  BY <1>4, <1>5, <1>6 DEF s

\* The finalizers of median and the quartiles: the value at the fraction of the rows in order.
LEMMA QuantileOfRows ==
  ASSUME Inv, Exact, NEW f \in DOMAIN Quantiles
  PROVE  IF seen = << >> THEN MedianFinalize(f).den = 0
         ELSE /\ MedianFinalize(f).den > 0
              /\ 2 * MedianFinalize(f).num = TwiceQuantile(Quantiles[f]) * MedianFinalize(f).den
<1>. DEFINE s == InOrder(m)
            len == Len(s)
            quarter == Quantiles[f]
            c == MedianContext(quarter, s)
            P == quarter * cnt
            El(j) == s[j].data
<1>1. /\ s \in Seq(Node)
      /\ len \in Nat
      /\ \A j \in 0..len : Upto(j) \in Nat
      /\ Upto(0) = 0
      /\ Upto(len) = Len(seen)
      /\ \A j \in 1..len :
           /\ s[j] \in Node
           /\ s[j].data \in Numbers
           /\ Element(s[j]) = s[j].data
           /\ Equal(s[j].data) = s[j].count
           /\ Smaller(s[j].data) = Upto(j - 1)
           /\ Upto(j) = Upto(j - 1) + s[j].count
      /\ \A j, l \in 1..len : j < l => Upto(j) <= Upto(l - 1)
      /\ \A x \in Numbers : \E j \in 1..len : x = s[j].data
  BY TraversalCounts, Traversal
<1>2. quarter \in {1, 2, 3} /\ quarter \in Int
  BY DEF Quantiles
<1>3. MedianFinalize(f).num = c[len].rM /\ MedianFinalize(f).den = c[len].mn
  BY DEF MedianFinalize
<1>4. /\ c \in [0..len -> Ctx]
      /\ c[0] = Ctx0
      /\ \A k \in 1..len : c[k] = MedianIterate(quarter, c[k - 1], s[k])
  BY <1>1, <1>2, MedianContexts
<1>5. cnt = Len(seen) /\ cnt \in Nat /\ seen \in Seq(Rows)
  BY DEF Inv, TypeOK
<1>. HIDE DEF s, c, quarter
<1>6. CASE seen = << >>
  <2>1. Numbers = {}
    BY <1>6 DEF Numbers
  <2>2. len = 0
    <3>1. SUFFICES ASSUME len # 0 PROVE FALSE
      OBVIOUS
    <3>2. 1 \in 1..len
      BY <3>1, <1>1
    <3>. QED  BY <3>2, <2>1, <1>1
  <2>. QED  BY <2>2, <1>3, <1>4, <1>6 DEF Ctx0
<1>7. CASE seen # << >>
  <2>1. cnt > 0 /\ len > 0
    <3>1. cnt > 0
      <4>1. Len(seen) \in Nat \ {0}
        BY <1>5, <1>7, EmptySeq, Zenon
      <4>. QED  BY <4>1, <1>5
    <3>2. Numbers # {}
      <4>1. 1 \in 1..Len(seen)
        BY <3>1, <1>5
      <4>2. seen[1].num \in Numbers
        BY <4>1 DEF Numbers
      <4>. QED  BY <4>2
    <3>3. len > 0
      BY <3>2, <1>1
    <3>. QED  BY <3>1, <3>3
  <2>2. P \in Int /\ P > 0 /\ P <= 3 * cnt
    BY <1>2, <1>5, <2>1
  <2>. DEFINE Reached == {j \in 1..len : P <= 4 * Upto(j)}
  <2>3. len \in Reached
    BY <2>1, <2>2, <1>1, <1>5
  <2>4. PICK i \in Reached : \A j \in Reached : i <= j
    <3>1. Reached \subseteq Nat /\ Reached # {}
      BY <2>3
    <3>. HIDE DEF Reached
    <3>. QED  BY <3>1, LeastNumber
  <2>5. i \in 1..len /\ P <= 4 * Upto(i)
    BY <2>4
  <2>6. \A j \in 1..len : j < i => 4 * Upto(j) < P
    <3>1. SUFFICES ASSUME NEW j \in 1..len, j < i PROVE 4 * Upto(j) < P
      OBVIOUS
    <3>2. j \notin Reached
      BY <3>1, <2>4
    <3>3. Upto(j) \in Nat
      BY <1>1
    <3>. QED  BY <3>2, <3>3, <2>2
  <2>7. 4 * Upto(i - 1) < P
    <3>1. CASE i = 1
      BY <3>1, <1>1, <2>2
    <3>2. CASE i # 1
      <4>1. i - 1 \in 1..len /\ i - 1 < i
        BY <3>2, <2>5, <1>1
      <4>. QED  BY <4>1, <2>6
    <3>. QED  BY <3>1, <3>2
  <2>. HIDE DEF Reached
  <2>. DEFINE S == {k \in 0..len : Scanned(quarter, i, s, c[k], k)}
  <2>8. 0 \in S
    BY <1>1, <1>4, <2>5 DEF Scanned, Ctx0
  <2>9. ASSUME NEW k \in 1..len, k - 1 \in S PROVE k \in S
    <3>1. c[k - 1] \in Ctx /\ Scanned(quarter, i, s, c[k - 1], k - 1)
      BY <2>9, <1>4
    <3>2. \A j \in 1..len : Upto(j) = Upto(j - 1) + s[j].count
      BY <1>1
    <3>3. Scanned(quarter, i, s, MedianIterate(quarter, c[k - 1], s[k]), k)
      BY <3>1, <3>2, <1>1, <1>2, <1>5, <2>5, <2>6, <2>7, ScannedStep
    <3>. QED  BY <3>3, <1>4
  <2>10. len \in S
    <3>1. \A k \in 0..len : k \in S
      <4>. HIDE DEF S
      <4>. QED  BY <2>8, <2>9, <1>1, ScanHolds
    <3>. HIDE DEF S
    <3>. QED  BY <3>1, <1>1
  <2>11. Scanned(quarter, i, s, c[len], len) /\ c[len] \in Ctx
    BY <2>10, <1>4, <1>1
  <2>. HIDE DEF S
  <2>12. Element(s[i]) = El(i) /\ El(i) \in Int
    BY <1>1, <2>5 DEF Node
  <2>13. CASE P = 4 * Upto(i)
    <3>1. i # len
      BY <2>13, <2>1, <2>2, <1>1, <1>5
    <3>2. i + 1 \in 1..len /\ len > i /\ ~ (len < i) /\ (i + 1) - 1 = i
      BY <3>1, <2>5, <1>1
    <3>3. c[len].rM = El(i) + El(i + 1) /\ c[len].mn = 2
      BY <2>11, <2>13, <3>1, <3>2, <2>12, <1>1 DEF Scanned
    <3>4. Upto(i) \in Nat /\ Upto(i - 1) \in Nat /\ Upto(i + 1) \in Nat
          /\ Upto(i) < Upto(i + 1)
      <4>1. i \in 0..len /\ i - 1 \in 0..len /\ i + 1 \in 0..len
        BY <3>2, <2>5, <1>1
      <4>2. s[i + 1].count \in Nat \ {0} /\ Upto(i + 1) = Upto(i) + s[i + 1].count
        BY <3>2, <1>1 DEF Node
      <4>. QED  BY <4>1, <4>2, <1>1
    <3>5. P % 4 = 0 /\ P \div 4 = Upto(i)
      BY <2>13, <3>4
    <3>6. Smallest(Upto(i)) = El(i)
      <4>1. Upto(i - 1) < Upto(i)
        BY <2>7, <2>13, <3>4
      <4>. QED  BY <4>1, <3>4, <2>5, SmallestRow DEF s
    <3>7. Smallest(Upto(i) + 1) = El(i + 1)
      <4>1. Upto((i + 1) - 1) < Upto(i) + 1 /\ Upto(i) + 1 <= Upto(i + 1) /\ Upto(i) + 1 \in Int
        BY <3>2, <3>4
      <4>. QED  BY <4>1, <3>2, SmallestRow DEF s
    <3>8. TwiceQuantile(quarter) = El(i) + El(i + 1)
      <4>1. TwiceQuantile(quarter) = IF P % 4 = 0 THEN Smallest(P \div 4) + Smallest(P \div 4 + 1)
                                     ELSE 2 * Smallest(P \div 4 + 1)
        BY <1>5 DEF TwiceQuantile
      <4>. QED  BY <4>1, <3>5, <3>6, <3>7
    <3>9. El(i) \in Int /\ El(i + 1) \in Int
      BY <2>12, <3>2, <1>1 DEF Node
    <3>10. 2 * (El(i) + El(i + 1)) = (El(i) + El(i + 1)) * 2
      BY <3>9
    <3>. QED  BY <3>3, <3>8, <3>10, <1>3, <1>7 DEF quarter
  <2>14. CASE P # 4 * Upto(i)
    <3>1. c[len].rM = El(i) /\ c[len].mn = 1
      BY <2>11, <2>14, <2>5, <2>12, <1>1 DEF Scanned
    <3>. DEFINE K == P \div 4
    <3>2. K \in Int /\ 4 * K <= P /\ P < 4 * K + 4 /\ (P % 4 = 0 => P = 4 * K)
      <4>. HIDE DEF P
      <4>. QED  BY <2>2
    <3>3. Upto(i) \in Nat /\ Upto(i - 1) \in Nat
      <4>1. i \in 0..len /\ i - 1 \in 0..len
        BY <2>5, <1>1
      <4>. QED  BY <4>1, <1>1
    <3>4. Upto(i - 1) < K + 1 /\ K + 1 <= Upto(i) /\ (P % 4 = 0 => Upto(i - 1) < K /\ K <= Upto(i))
      <4>. HIDE DEF P, K
      <4>. QED  BY <2>2, <2>5, <2>7, <2>14, <3>2, <3>3
    <3>. HIDE DEF K
    <3>5. Smallest(K + 1) = El(i)
      BY <3>2, <3>4, <2>5, SmallestRow DEF s
    <3>6. P % 4 = 0 => Smallest(K) = El(i)
      BY <3>2, <3>4, <2>5, SmallestRow DEF s
    <3>7. TwiceQuantile(quarter) = 2 * El(i)
      <4>1. TwiceQuantile(quarter) = IF P % 4 = 0 THEN Smallest(P \div 4) + Smallest(P \div 4 + 1)
                                     ELSE 2 * Smallest(P \div 4 + 1)
        BY <1>5 DEF TwiceQuantile
      <4>2. TwiceQuantile(quarter) = IF P % 4 = 0 THEN El(i) + El(i) ELSE 2 * El(i)
        BY <4>1, <3>5, <3>6 DEF K
      <4>. QED  BY <4>2, <2>12
    <3>8. 2 * El(i) = (2 * El(i)) * 1
      BY <2>12
    <3>. QED  BY <3>1, <3>7, <3>8, <1>3, <1>7 DEF quarter
  <2>. QED  BY <2>13, <2>14
<1>. QED  BY <1>6, <1>7

\* What the finalizers return for a group is right and stays until the next group begins.
LEMMA ResultsInductive == Spec => [](Inv /\ QuantilesRight /\ ModeRight)
<1>. DEFINE Results == QuantilesRight /\ ModeRight
<1>1. ASSUME result = Pending PROVE Results
  BY <1>1 DEF Pending, QuantilesRight, ModeRight, IsQuantile, IsMode, Quantiles
<1>2. Init => Inv /\ Results
  BY EmptyInv, <1>1 DEF Init
<1>3. Inv /\ Results /\ [Next]_vars => Inv' /\ Results'
  <2>. SUFFICES ASSUME Inv, Results, [Next]_vars PROVE Inv' /\ Results'
    OBVIOUS
  <2>1. Inv'
    BY InvStep
  <2>2. ASSUME result' = Pending PROVE Results'
    BY <2>2 DEF Pending, QuantilesRight, ModeRight, IsQuantile, IsMode, Quantiles
  <2>3. ASSUME NEW row \in Rows, Step(row) PROVE Results'
    BY <2>2, <2>3 DEF Step
  <2>4. ASSUME NextGroup PROVE Results'
    BY <2>2, <2>4 DEF NextGroup
  <2>5. ASSUME UNCHANGED vars PROVE Results'
    <3>1. seen' = seen /\ kind' = kind /\ result' = result
      BY <2>5 DEF vars
    <3>2. /\ Integral' = Integral /\ Narrow' = Narrow
          /\ MostFrequent' = MostFrequent
          /\ \A q : TwiceQuantile(q)' = TwiceQuantile(q)
      BY <3>1 DEF Integral, Narrow, MostFrequent, TwiceQuantile, Smallest, Numbers, Smaller, Equal
    <3>3. IsQuantile' = IsQuantile /\ IsMode' = IsMode
      BY <3>1, <3>2 DEF IsQuantile, IsMode
    <3>. QED  BY <3>1, <3>2, <3>3 DEF QuantilesRight, ModeRight
  <2>6. ASSUME NEW f \in {"mode"} \cup DOMAIN Quantiles, Finalize(f) PROVE Results'
    <3>1. UNCHANGED <<seen, kind, cnt, m>>
      BY <2>6 DEF Finalize
    <3>2. /\ Exact' = Exact /\ Integral' = Integral /\ Narrow' = Narrow /\ kind' = kind
          /\ seen' = seen
          /\ MostFrequent' = MostFrequent
          /\ \A q : TwiceQuantile(q)' = TwiceQuantile(q)
      BY <3>1 DEF Exact, Integral, Narrow, MostFrequent, TwiceQuantile, Smallest, Numbers, Smaller,
         Equal
    <3>3. CASE f = "mode"
      <4>1. result' = ModeFinalize /\ result'.fn = "mode"
        BY <3>3, <2>6 DEF Finalize, ModeFinalize
      <4>2. ASSUME Exact PROVE IsMode'
        <5>1. IF Cardinality(MostFrequent) = 1
              THEN ModeFinalize.den = 1 /\ ModeFinalize.num \in MostFrequent
              ELSE ModeFinalize.den = 0
          BY <4>2, ModeOfRows
        <5>. QED  BY <5>1, <4>1, <3>2 DEF IsMode
      <4>3. ModeRight'
        BY <4>2, <3>2 DEF ModeRight, Exact
      <4>4. QuantilesRight'
        BY <4>1 DEF QuantilesRight, IsQuantile, Quantiles
      <4>. QED  BY <4>3, <4>4
    <3>4. CASE f \in DOMAIN Quantiles
      <4>1. result' = MedianFinalize(f) /\ result'.fn = f /\ f # "mode"
        BY <3>4, <2>6 DEF Finalize, MedianFinalize, Quantiles
      <4>2. ASSUME Exact PROVE IsQuantile'
        <5>1. IF seen = << >> THEN MedianFinalize(f).den = 0
              ELSE /\ MedianFinalize(f).den > 0
                   /\ 2 * MedianFinalize(f).num = TwiceQuantile(Quantiles[f]) * MedianFinalize(f).den
          BY <4>2, <3>4, QuantileOfRows
        <5>2. IF seen' = << >> THEN result'.den = 0
              ELSE /\ result'.den > 0
                   /\ 2 * result'.num = TwiceQuantile(Quantiles[f])' * result'.den
          BY <5>1, <4>1, <3>2
        <5>. QED  BY <5>2, <4>1 DEF IsQuantile
      <4>3. QuantilesRight'
        BY <4>2, <3>2 DEF QuantilesRight, Exact
      <4>4. ModeRight'
        BY <4>1 DEF ModeRight, IsMode
      <4>. QED  BY <4>3, <4>4
    <3>. QED  BY <3>3, <3>4
  <2>. QED  BY <2>1, <2>3, <2>4, <2>5, <2>6 DEF Next
<1>. QED  BY <1>2, <1>3, PTL DEF Spec

(***************************************************************************)
(* Fractions                                                               *)
(***************************************************************************)
LEMMA Cancel ==
  ASSUME NEW d \in Nat \ {0}, NEW a \in Int, NEW b \in Int, d * a = d * b
  PROVE  a = b
<1>1. d * (a - b) = 0
  OBVIOUS
<1>2. a - b = 0
  BY <1>1
<1>. QED  BY <1>2

LEMMA Divides ==
  ASSUME NEW a \in Int, NEW d \in Nat \ {0}
  PROVE  /\ a \div d \in Int
         /\ a % d = 0 => a = d * (a \div d)
         /\ \A k \in Int : a = d * k => a % d = 0
<1>1. a \div d \in Int /\ a % d \in 0..(d - 1) /\ a = d * (a \div d) + (a % d)
  OBVIOUS
<1>2. ASSUME NEW k \in Int, a = d * k PROVE a % d = 0
  <2>. DEFINE q == a \div d
              r == a % d
  <2>1. q \in Int /\ r \in Int /\ 0 <= r /\ r < d /\ d * k = d * q + r
    BY <1>1, <1>2
  <2>. HIDE DEF q, r
  <2>2. d * (k - q) = r
    BY <2>1
  <2>3. ASSUME k - q >= 1 PROVE FALSE
    <3>1. d * (k - q) >= d
      BY <2>3, <2>1
    <3>. QED  BY <3>1, <2>1, <2>2
  <2>4. ASSUME k - q <= -1 PROVE FALSE
    <3>1. d * (k - q) <= -d
      BY <2>4, <2>1
    <3>. QED  BY <3>1, <2>1, <2>2
  <2>5. k - q = 0
    BY <2>1, <2>3, <2>4
  <2>6. r = 0
    BY <2>2, <2>5
  <2>. QED  BY <2>6 DEF r
<1>. QED  BY <1>1, <1>2

\* r is a/d in lowest terms: its denominator is the smallest that divides out.
InLowestTerms(r, a, d) ==
  /\ r = <<r[1], r[2]>>
  /\ r[1] \in Int
  /\ r[2] \in 1..d
  /\ a * r[2] = d * r[1]
  /\ \A k \in 1..(r[2] - 1) : \A p \in Int : a * k # d * p

LEMMA Lowest ==
  ASSUME NEW a \in Int, NEW d \in Nat \ {0}
  PROVE  InLowestTerms(V!Frac(a, d), a, d)
<1>. DEFINE Least(k) == (a * k) % d = 0 /\ \A l \in 1..(k - 1) : (a * l) % d # 0
            S == {k \in 1..d : (a * k) % d = 0}
            q == CHOOSE k \in 1..d : Least(k)
<1>1. d \in S
  <2>1. a * d \in Int /\ a * d = d * a
    OBVIOUS
  <2>2. (a * d) % d = 0
    BY <2>1, Divides
  <2>. QED  BY <2>2
<1>2. PICK k \in S : \A l \in S : k <= l
  <2>1. S \subseteq Nat /\ S # {}
    BY <1>1
  <2>. HIDE DEF S
  <2>. QED  BY <2>1, LeastNumber
<1>3. \A l \in 1..(k - 1) : (a * l) % d # 0
  <2>1. SUFFICES ASSUME NEW l \in 1..(k - 1), (a * l) % d = 0 PROVE FALSE
    OBVIOUS
  <2>2. l \in S
    BY <2>1, <1>2
  <2>. QED  BY <2>1, <2>2, <1>2
<1>4. k \in 1..d /\ Least(k)
  BY <1>2, <1>3
<1>5. q \in 1..d /\ Least(q)
  <2>. HIDE DEF Least
  <2>. QED  BY <1>4
<1>6. V!Frac(a, d) = <<(a * q) \div d, q>>
  BY DEF V!Frac
<1>. HIDE DEF q
<1>7. a * q \in Int
  BY <1>5
<1>8. (a * q) \div d \in Int /\ a * q = d * ((a * q) \div d)
  BY <1>5, <1>7, Divides
<1>9. ASSUME NEW l \in 1..(q - 1), NEW p \in Int, a * l = d * p PROVE FALSE
  <2>1. a * l \in Int
    BY <1>5
  <2>2. (a * l) % d = 0
    BY <2>1, <1>9, Divides
  <2>. QED  BY <2>2, <1>5
<1>. QED  BY <1>5, <1>6, <1>8, <1>9 DEF InLowestTerms

\* Equal fractions have the same lowest terms.
LEMMA FracSame ==
  ASSUME NEW a \in Int, NEW b \in Nat \ {0}, NEW c \in Int, NEW d \in Nat \ {0}, a * d = c * b
  PROVE  V!Frac(a, b) = V!Frac(c, d)
<1>. DEFINE r == V!Frac(a, b)
            s == V!Frac(c, d)
<1>1. /\ r = <<r[1], r[2]>> /\ r[1] \in Int /\ r[2] \in 1..b /\ a * r[2] = b * r[1]
      /\ \A k \in 1..(r[2] - 1) : \A p \in Int : a * k # b * p
  BY Lowest DEF InLowestTerms
<1>2. /\ s = <<s[1], s[2]>> /\ s[1] \in Int /\ s[2] \in 1..d /\ c * s[2] = d * s[1]
      /\ \A k \in 1..(s[2] - 1) : \A p \in Int : c * k # d * p
  <2>1. InLowestTerms(s, c, d)
    BY Lowest
  <2>. HIDE DEF s
  <2>. QED  BY <2>1 DEF InLowestTerms
<1>. HIDE DEF r, s
<1>3. ASSUME NEW k \in Int, NEW p \in Int, a * k = b * p PROVE c * k = d * p
  <2>1. b * (c * k) = (a * d) * k
    OBVIOUS
  <2>2. (a * d) * k = d * (a * k)
    OBVIOUS
  <2>3. d * (a * k) = b * (d * p)
    BY <1>3
  <2>4. c * k \in Int /\ d * p \in Int /\ b * (c * k) = b * (d * p)
    BY <2>1, <2>2, <2>3
  <2>. QED  BY <2>4, Cancel
<1>4. ASSUME NEW k \in Int, NEW p \in Int, c * k = d * p PROVE a * k = b * p
  <2>1. d * (a * k) = (c * b) * k
    OBVIOUS
  <2>2. (c * b) * k = b * (c * k)
    OBVIOUS
  <2>3. b * (c * k) = d * (b * p)
    BY <1>4
  <2>4. a * k \in Int /\ b * p \in Int /\ d * (a * k) = d * (b * p)
    BY <2>1, <2>2, <2>3
  <2>. QED  BY <2>4, Cancel
<1>5. r[2] \in Int /\ s[2] \in Int /\ r[2] >= 1 /\ s[2] >= 1
  BY <1>1, <1>2
<1>6. ~ (r[2] < s[2])
  <2>1. SUFFICES ASSUME r[2] < s[2] PROVE FALSE
    OBVIOUS
  <2>2. c * r[2] = d * r[1]
    BY <1>1, <1>3, <1>5
  <2>3. r[2] \in 1..(s[2] - 1)
    BY <2>1, <1>5
  <2>. QED  BY <2>2, <2>3, <1>1, <1>2
<1>7. ~ (s[2] < r[2])
  <2>1. SUFFICES ASSUME s[2] < r[2] PROVE FALSE
    OBVIOUS
  <2>2. a * s[2] = b * s[1]
    BY <1>2, <1>4, <1>5
  <2>3. s[2] \in 1..(r[2] - 1)
    BY <2>1, <1>5
  <2>. QED  BY <2>2, <2>3, <1>1, <1>2
<1>8. r[2] = s[2]
  BY <1>5, <1>6, <1>7
<1>9. d * r[1] = d * s[1]
  <2>1. c * r[2] = d * r[1]
    BY <1>1, <1>3, <1>5
  <2>. QED  BY <2>1, <1>2, <1>8
<1>10. r[1] = s[1]
  BY <1>9, <1>1, <1>2, Cancel
<1>. QED
  <2>1. r = s
    BY <1>1, <1>2, <1>8, <1>10
  <2>. QED  BY <2>1 DEF r, s

Pos == Nat \ {0}

LEMMA FracParts ==
  ASSUME NEW a \in Int, NEW b \in Pos
  PROVE  LET r == V!Frac(a, b) IN r[1] \in Int /\ r[2] \in Pos /\ a * r[2] = b * r[1]
<1>1. V!Frac(a, b)[2] \in 1..b
  BY Lowest DEF Pos, InLowestTerms
<1>. QED  BY <1>1, Lowest DEF Pos, InLowestTerms

LEMMA PosTimes == ASSUME NEW a \in Pos, NEW b \in Pos PROVE a * b \in Pos
<1>1. a * b \in Int /\ a * b > 0
  BY DEF Pos
<1>. QED  BY <1>1 DEF Pos

LEMMA FracWhole == ASSUME NEW a \in Int PROVE V!Whole(a) = V!Frac(a, 1)
<1>. DEFINE r == V!Frac(a, 1)
<1>1. r = <<r[1], r[2]>> /\ r[1] \in Int /\ r[2] \in 1..1 /\ a * r[2] = 1 * r[1]
  BY Lowest DEF InLowestTerms
<1>. HIDE DEF r
<1>2. r[2] = 1 /\ r[1] = a
  BY <1>1
<1>. QED  BY <1>1, <1>2 DEF V!Whole, r

LEMMA FracPlus ==
  ASSUME NEW a \in Int, NEW b \in Pos, NEW c \in Int, NEW d \in Pos
  PROVE  /\ V!Plus(V!Frac(a, b), V!Frac(c, d)) = V!Frac(a * d + c * b, b * d)
         /\ V!Minus(V!Frac(a, b), V!Frac(c, d)) = V!Frac(a * d - c * b, b * d)
<1>. DEFINE x == V!Frac(a, b)
            y == V!Frac(c, d)
            x1 == x[1] x2 == x[2] y1 == y[1] y2 == y[2]
<1>1. x1 \in Int /\ x2 \in Pos /\ a * x2 = b * x1
  BY FracParts
<1>2. y1 \in Int /\ y2 \in Pos /\ c * y2 = d * y1
  BY FracParts
<1>3. /\ V!Plus(x, y) = V!Frac(x1 * y2 + y1 * x2, x2 * y2)
      /\ V!Minus(x, y) = V!Frac(x1 * y2 + (-y1) * x2, x2 * y2)
  BY DEF V!Plus, V!Minus
<1>. HIDE DEF x, y, x1, x2, y1, y2
<1>4. x2 * y2 \in Pos /\ b * d \in Pos
  BY <1>1, <1>2, PosTimes
<1>5. (x1 * y2 + y1 * x2) * (b * d) = (a * d + c * b) * (x2 * y2)
  <2>1. (x1 * y2 + y1 * x2) * (b * d) = (b * x1) * (y2 * d) + (d * y1) * (x2 * b)
    BY <1>1, <1>2 DEF Pos
  <2>2. (b * x1) * (y2 * d) + (d * y1) * (x2 * b) = (a * x2) * (y2 * d) + (c * y2) * (x2 * b)
    BY <1>1, <1>2
  <2>3. (a * x2) * (y2 * d) + (c * y2) * (x2 * b) = (a * d + c * b) * (x2 * y2)
    BY <1>1, <1>2 DEF Pos
  <2>. QED  BY <2>1, <2>2, <2>3
<1>6. (x1 * y2 + (-y1) * x2) * (b * d) = (a * d - c * b) * (x2 * y2)
  <2>1. (x1 * y2 + (-y1) * x2) * (b * d) = (b * x1) * (y2 * d) - (d * y1) * (x2 * b)
    BY <1>1, <1>2 DEF Pos
  <2>2. (b * x1) * (y2 * d) - (d * y1) * (x2 * b) = (a * x2) * (y2 * d) - (c * y2) * (x2 * b)
    BY <1>1, <1>2
  <2>3. (a * x2) * (y2 * d) - (c * y2) * (x2 * b) = (a * d - c * b) * (x2 * y2)
    BY <1>1, <1>2 DEF Pos
  <2>. QED  BY <2>1, <2>2, <2>3
<1>7. /\ x1 * y2 + y1 * x2 \in Int /\ x1 * y2 + (-y1) * x2 \in Int
      /\ a * d + c * b \in Int /\ a * d - c * b \in Int
  BY <1>1, <1>2 DEF Pos
<1>8. V!Frac(x1 * y2 + y1 * x2, x2 * y2) = V!Frac(a * d + c * b, b * d)
  BY <1>4, <1>5, <1>7, FracSame DEF Pos
<1>9. V!Frac(x1 * y2 + (-y1) * x2, x2 * y2) = V!Frac(a * d - c * b, b * d)
  BY <1>4, <1>6, <1>7, FracSame DEF Pos
<1>. QED  BY <1>3, <1>8, <1>9 DEF x, y

LEMMA FracTimes ==
  ASSUME NEW a \in Int, NEW b \in Pos, NEW c \in Int, NEW d \in Pos
  PROVE  V!Times(V!Frac(a, b), V!Frac(c, d)) = V!Frac(a * c, b * d)
<1>. DEFINE x == V!Frac(a, b)
            y == V!Frac(c, d)
            x1 == x[1] x2 == x[2] y1 == y[1] y2 == y[2]
<1>1. x1 \in Int /\ x2 \in Pos /\ a * x2 = b * x1
  BY FracParts
<1>2. y1 \in Int /\ y2 \in Pos /\ c * y2 = d * y1
  BY FracParts
<1>3. V!Times(x, y) = V!Frac(x1 * y1, x2 * y2)
  BY DEF V!Times
<1>. HIDE DEF x, y, x1, x2, y1, y2
<1>4. x2 * y2 \in Pos /\ b * d \in Pos
  BY <1>1, <1>2, PosTimes
<1>5. (x1 * y1) * (b * d) = (a * c) * (x2 * y2)
  <2>1. (x1 * y1) * (b * d) = (b * x1) * (d * y1)
    BY <1>1, <1>2 DEF Pos
  <2>2. (b * x1) * (d * y1) = (a * x2) * (c * y2)
    BY <1>1, <1>2
  <2>3. (a * x2) * (c * y2) = (a * c) * (x2 * y2)
    BY <1>1, <1>2 DEF Pos
  <2>. QED  BY <2>1, <2>2, <2>3
<1>6. x1 * y1 \in Int /\ a * c \in Int
  BY <1>1, <1>2
<1>7. V!Frac(x1 * y1, x2 * y2) = V!Frac(a * c, b * d)
  BY <1>4, <1>5, <1>6, FracSame DEF Pos
<1>. QED  BY <1>3, <1>7 DEF x, y

LEMMA FracOver ==
  ASSUME NEW a \in Int, NEW b \in Pos, NEW d \in Pos
  PROVE  V!Over(V!Frac(a, b), d) = V!Frac(a, b * d)
<1>. DEFINE x == V!Frac(a, b)
            x1 == x[1] x2 == x[2]
<1>1. x1 \in Int /\ x2 \in Pos /\ a * x2 = b * x1
  BY FracParts
<1>2. V!Over(x, d) = V!Frac(x1, x2 * d)
  BY DEF V!Over
<1>. HIDE DEF x, x1, x2
<1>3. x2 * d \in Pos /\ b * d \in Pos
  BY <1>1, PosTimes
<1>4. x1 * (b * d) = a * (x2 * d)
  <2>1. x1 * (b * d) = (b * x1) * d
    BY <1>1 DEF Pos
  <2>2. (b * x1) * d = (a * x2) * d
    BY <1>1
  <2>3. (a * x2) * d = a * (x2 * d)
    BY <1>1 DEF Pos
  <2>. QED  BY <2>1, <2>2, <2>3
<1>5. V!Frac(x1, x2 * d) = V!Frac(a, b * d)
  BY <1>1, <1>3, <1>4, FracSame DEF Pos
<1>. QED  BY <1>2, <1>5 DEF x

(***************************************************************************)
(* Sums                                                                    *)
(***************************************************************************)
IsSum(u, s) ==
  /\ u \in [0..Len(s) -> Int]
  /\ u[0] = 0
  /\ \A k \in 1..Len(s) : u[k] = u[k - 1] + s[k]
  /\ V!Total(s) = u[Len(s)]

LEMMA SumExists ==
  ASSUME NEW s \in Seq(Int)
  PROVE  \E u : IsSum(u, s)
<1>. DEFINE len == Len(s)
            f(u) == [k \in 0..len |-> IF k = 0 THEN 0 ELSE u[k - 1] + s[k]]
            step == [ka \in (1..len) \X Int |-> ka[2] + s[ka[1]]]
<1>1. len \in Nat /\ \A k \in 1..len : s[k] \in Int
  OBVIOUS
<1>2. step \in [(1..len) \X Int -> Int]
  <2>1. \A ka \in (1..len) \X Int : ka[2] + s[ka[1]] \in Int
    BY <1>1
  <2>. QED  BY <2>1
<1>3. PICK w : IsScan(w, len, Int, 0, step)
  <2>1. len \in Nat /\ 0 \in Int
    BY <1>1
  <2>. HIDE DEF step, len
  <2>. QED  BY <2>1, <1>2, ScanExists, Zenon
<1>4. w \in [0..len -> Int] /\ w[0] = 0 /\ \A k \in 1..len : w[k] = w[k - 1] + s[k]
  <2>1. w \in [0..len -> Int] /\ w[0] = 0 /\ \A k \in 1..len : w[k] = step[<<k, w[k - 1]>>]
    BY <1>3 DEF IsScan
  <2>2. ASSUME NEW k \in 1..len PROVE w[k] = w[k - 1] + s[k]
    <3>0. k - 1 \in 0..len
      BY <1>1
    <3>1. w[k - 1] \in Int /\ w[k] = step[<<k, w[k - 1]>>]
      <4>. HIDE DEF step, len
      <4>. QED  BY <2>1, <2>2, <3>0
    <3>2. ASSUME NEW b \in Int PROVE step[<<k, b>>] = b + s[k]
      <4>1. <<k, b>> \in (1..len) \X Int
        BY <2>2
      <4>. QED  BY <4>1
    <3>. HIDE DEF step
    <3>. QED  BY <3>1, <3>2
  <2>. QED  BY <2>1, <2>2
<1>5. w = f(w)
  <2>1. \A k \in 0..len : w[k] = f(w)[k]
    BY <1>4
  <2>. QED  BY <2>1, <1>4
<1>. DEFINE u == CHOOSE u : u = f(u)
<1>6. V!Total(s) = u[len]
  BY DEF V!Total
<1>7. u = f(u)
  <2>. HIDE DEF f
  <2>. QED  BY <1>5
<1>. HIDE DEF u
<1>8. u[0] = 0 /\ \A k \in 1..len : u[k] = u[k - 1] + s[k]
  <2>1. f(u)[0] = 0 /\ \A k \in 1..len : f(u)[k] = u[k - 1] + s[k]
    BY <1>1
  <2>. HIDE DEF f
  <2>. QED  BY <2>1, <1>7
<1>9. \A k \in 0..len : u[k] = w[k]
  <2>1. u[0] = w[0] /\ len \in Nat
    BY <1>1, <1>4, <1>8
  <2>. HIDE DEF len
  <2>2. \A k \in 1..len : u[k - 1] = w[k - 1] => u[k] = w[k]
    <3>1. TAKE k \in 1..len
    <3>2. u[k] = u[k - 1] + s[k] /\ w[k] = w[k - 1] + s[k]
      BY <1>4, <1>8
    <3>. QED  BY <3>2
  <2>3. Agree(u, w, len)
    BY <2>1, <2>2, ScanAgree DEF Parallel
  <2>. QED  BY <2>3 DEF Agree
<1>10. u \in [0..len -> Int]
  BY <1>7, <1>9, <1>4
<1>. QED  BY <1>6, <1>8, <1>10 DEF IsSum

LEMMA TotalEmpty == V!Total(<< >>) = 0 /\ << >> \in Seq(Int)
<1>1. << >> \in Seq(Int)
  BY EmptySeq
<1>2. PICK u : IsSum(u, << >>)
  BY <1>1, SumExists
<1>. QED  BY <1>1, <1>2 DEF IsSum

LEMMA TotalAppend ==
  ASSUME NEW s \in Seq(Int), NEW x \in Int
  PROVE  /\ V!Total(s) \in Int
         /\ V!Total(Append(s, x)) = V!Total(s) + x
<1>. DEFINE t == Append(s, x)
            len == Len(s)
<1>1. t \in Seq(Int) /\ len \in Nat /\ Len(t) = len + 1 /\ t[len + 1] = x
      /\ \A k \in 1..len : t[k] = s[k]
  OBVIOUS
<1>2. PICK u : IsSum(u, s)
  BY SumExists
<1>3. PICK w : IsSum(w, t)
  BY <1>1, SumExists
<1>. HIDE DEF t
<1>4. /\ u \in [0..len -> Int] /\ u[0] = 0
      /\ \A k \in 1..len : u[k] = u[k - 1] + s[k]
      /\ V!Total(s) = u[len]
  BY <1>2 DEF IsSum
<1>5. /\ w \in [0..(len + 1) -> Int] /\ w[0] = 0
      /\ \A k \in 1..(len + 1) : w[k] = w[k - 1] + t[k]
      /\ V!Total(t) = w[len + 1]
  BY <1>1, <1>3 DEF IsSum
<1>6. \A k \in 0..len : u[k] = w[k]
  <2>1. \A k \in 1..len : k \in 1..(len + 1)
    BY <1>1
  <2>2. u[0] = w[0] /\ len \in Nat
    BY <1>1, <1>4, <1>5
  <2>3. \A k \in 1..len : u[k - 1] = w[k - 1] => u[k] = w[k]
    BY <2>1, <1>1, <1>4, <1>5
  <2>. HIDE DEF len
  <2>4. Agree(u, w, len)
    BY <2>2, <2>3, ScanAgree DEF Parallel
  <2>. QED  BY <2>4 DEF Agree
<1>7. w[len] = u[len] /\ u[len] \in Int
  BY <1>1, <1>4, <1>6
<1>8. w[len + 1] = w[len] + x
  <2>1. len + 1 \in 1..(len + 1) /\ (len + 1) - 1 = len
    BY <1>1
  <2>. QED  BY <2>1, <1>1, <1>5
<1>. QED  BY <1>4, <1>5, <1>7, <1>8 DEF t

(***************************************************************************)
(* stdev and variance                                                      *)
(***************************************************************************)
Xs == [i \in DOMAIN seen |-> seen[i].num]
Squares == [i \in DOMAIN Xs |-> Xs[i] * Xs[i]]
Sum == V!Total(Xs)
SumOfSquares == V!Total(Squares)

\* The invariant of varianceStep, also before the first row.
VarianceInv ==
  /\ n = Len(seen)
  /\ seen = << >> => rM = V!Whole(0) /\ rS = V!Whole(0)
  /\ V!OnePassIsTwoPass

LEMMA SumsType ==
  ASSUME TypeOK
  PROVE  /\ Xs \in Seq(Int) /\ Len(Xs) = Len(seen) /\ Len(seen) \in Nat
         /\ Squares \in Seq(Int)
         /\ Sum \in Int /\ SumOfSquares \in Int
         /\ seen = << >> => Xs = << >> /\ Sum = 0 /\ SumOfSquares = 0
<1>1. seen \in Seq(Rows) /\ Len(seen) \in Nat /\ DOMAIN seen = 1..Len(seen)
  BY DEF TypeOK
<1>2. \A i \in 1..Len(seen) : seen[i].num \in Int
  <2>1. \A i \in 1..Len(seen) : seen[i] \in Rows
    BY <1>1
  <2>. QED  BY <2>1, OrderStatisticsAssumption
<1>3. Xs = [i \in 1..Len(seen) |-> seen[i].num]
  BY <1>1 DEF Xs
<1>4. Xs \in Seq(Int) /\ Len(Xs) = Len(seen) /\ DOMAIN Xs = 1..Len(seen)
  BY <1>1, <1>2, <1>3
<1>5. \A i \in 1..Len(seen) : Xs[i] * Xs[i] \in Int
  BY <1>4
<1>6. Squares = [i \in 1..Len(seen) |-> Xs[i] * Xs[i]]
  BY <1>4 DEF Squares
<1>7. Squares \in Seq(Int)
  BY <1>1, <1>5, <1>6
<1>8. Sum \in Int /\ SumOfSquares \in Int
  BY <1>4, <1>7, TotalAppend DEF Sum, SumOfSquares
<1>9. ASSUME seen = << >> PROVE Xs = << >> /\ Sum = 0 /\ SumOfSquares = 0
  <2>1. Len(seen) = 0
    BY <1>9
  <2>2. Xs = << >>
    BY <2>1, <1>4, EmptySeq
  <2>3. Squares = << >>
    BY <2>1, <1>6, <1>7, EmptySeq
  <2>. QED  BY <2>2, <2>3, TotalEmpty DEF Sum, SumOfSquares
<1>. QED  BY <1>1, <1>4, <1>7, <1>8, <1>9

LEMMA SumsStep ==
  ASSUME TypeOK, NEW row \in Rows, Step(row)
  PROVE  /\ row.num \in Int
         /\ Len(seen') = Len(seen) + 1
         /\ Xs' # << >> /\ Len(Xs') = Len(seen) + 1
         /\ Sum' = Sum + row.num
         /\ SumOfSquares' = SumOfSquares + row.num * row.num
<1>. DEFINE x == row.num
            len == Len(seen)
<1>1. /\ seen \in Seq(Rows) /\ len \in Nat
      /\ seen' = Append(seen, row) /\ Len(seen') = len + 1
      /\ DOMAIN seen = 1..len /\ DOMAIN seen' = 1..(len + 1)
      /\ \A i \in 1..len : seen'[i] = seen[i]
      /\ seen'[len + 1] = row
  BY DEF Step, TypeOK
<1>2. x \in Int
  BY OrderStatisticsAssumption
<1>3. Xs \in Seq(Int) /\ Len(Xs) = len /\ Squares \in Seq(Int) /\ Len(Squares) = len
  <2>1. Xs \in Seq(Int) /\ Len(Xs) = len /\ Squares \in Seq(Int)
    BY SumsType
  <2>2. DOMAIN Squares = DOMAIN Xs
    BY DEF Squares
  <2>3. Len(Squares) = len
    BY <2>1, <2>2, <1>1, LenProperties
  <2>. QED  BY <2>1, <2>3
<1>4. Xs' = [i \in 1..(len + 1) |-> seen'[i].num]
  BY <1>1 DEF Xs
<1>5. \A i \in 1..len : Xs[i] = seen[i].num
  BY <1>1 DEF Xs
<1>6. Xs' = Append(Xs, x)
  <2>1. Append(Xs, x) = [i \in 1..(len + 1) |-> IF i = len + 1 THEN x ELSE Xs[i]]
    BY <1>3, <1>2
  <2>2. \A i \in 1..(len + 1) : seen'[i].num = IF i = len + 1 THEN x ELSE Xs[i]
    BY <1>1, <1>5
  <2>. QED  BY <2>1, <2>2, <1>4
<1>7. Squares' = [i \in 1..(len + 1) |-> Xs'[i] * Xs'[i]]
  BY <1>4 DEF Squares
<1>8. \A i \in 1..len : Squares[i] = Xs[i] * Xs[i]
  BY <1>3 DEF Squares
<1>9. Squares' = Append(Squares, x * x)
  <2>1. Append(Squares, x * x) = [i \in 1..(len + 1) |-> IF i = len + 1 THEN x * x ELSE Squares[i]]
    BY <1>3, <1>2
  <2>2. \A i \in 1..(len + 1) : Xs'[i] * Xs'[i] = IF i = len + 1 THEN x * x ELSE Squares[i]
    BY <1>3, <1>6, <1>8
  <2>. QED  BY <2>1, <2>2, <1>7
<1>10. Sum' = Sum + x
  BY <1>2, <1>3, <1>6, TotalAppend DEF Sum
<1>11. SumOfSquares' = SumOfSquares + x * x
  <2>1. x * x \in Int
    BY <1>2
  <2>2. V!Total(Append(Squares, x * x)) = V!Total(Squares) + x * x
    BY <2>1, <1>3, TotalAppend
  <2>. QED  BY <2>2, <1>9 DEF SumOfSquares
<1>12. Len(Xs') = len + 1 /\ Xs' # << >>
  BY <1>1, <1>2, <1>3, <1>6
<1>. QED  BY <1>1, <1>2, <1>10, <1>11, <1>12

\* One row through the recurrence: from the fractions for len rows to those for len + 1.
LEMMA Recurrence ==
  ASSUME NEW len \in Pos, NEW x \in Int, NEW t \in Int, NEW sq \in Int
  PROVE  LET mean == V!Frac(t, len)
             dev == V!Frac(len * sq - t * t, len)
             delta == V!Minus(V!Whole(x), mean)
             mean2 == V!Plus(mean, V!Over(delta, len + 1))
         IN
         /\ mean2 = V!Frac(t + x, len + 1)
         /\ V!Plus(dev, V!Growth(delta, V!Whole(x), mean2)) =
              V!Frac((len + 1) * (sq + x * x) - (t + x) * (t + x), len + 1)
<1>. DEFINE mean == V!Frac(t, len)
            dev == V!Frac(len * sq - t * t, len)
            delta == V!Minus(V!Whole(x), mean)
            mean2 == V!Plus(mean, V!Over(delta, len + 1))
            e == x * len - t
            next == len + 1
            e2 == x * next - (t + x)
            D == len * sq - t * t
            D2 == next * (sq + x * x) - (t + x) * (t + x)
<1>1. len \in Int /\ len > 0 /\ next \in Pos /\ 1 \in Pos /\ len * next \in Pos
  <2>1. len \in Int /\ len > 0 /\ next \in Pos /\ 1 \in Pos
    BY DEF Pos
  <2>. QED  BY <2>1, PosTimes
<1>2. e \in Int /\ e2 \in Int /\ D \in Int /\ D2 \in Int /\ t + x \in Int
  BY <1>1
<1>3. delta = V!Frac(e, len)
  <2>1. delta = V!Frac(x * len - t * 1, 1 * len)
    BY <1>1, FracWhole, FracPlus
  <2>2. x * len - t * 1 = e /\ 1 * len = len
    BY <1>1
  <2>. QED  BY <2>1, <2>2
<1>. HIDE DEF delta
<1>4. V!Over(delta, next) = V!Frac(e, len * next)
  BY <1>1, <1>2, <1>3, FracOver
<1>5. mean2 = V!Frac(t + x, next)
  <2>1. mean2 = V!Frac(t * (len * next) + e * len, len * (len * next))
    BY <1>1, <1>2, <1>4, FracPlus
  <2>2. (t * (len * next) + e * len) * next = (t + x) * (len * (len * next))
    BY <1>1
  <2>3. t * (len * next) + e * len \in Int /\ len * (len * next) \in Pos
    BY <1>1, <1>2, PosTimes
  <2>4. V!Frac(t * (len * next) + e * len, len * (len * next)) = V!Frac(t + x, next)
    <3>. HIDE DEF e, next
    <3>. QED  BY <2>2, <2>3, <1>1, <1>2, FracSame DEF Pos
  <2>. QED  BY <2>1, <2>4
<1>. HIDE DEF mean2
<1>6. V!Minus(V!Whole(x), mean2) = V!Frac(e2, next)
  <2>1. V!Minus(V!Whole(x), mean2) = V!Frac(x * next - (t + x) * 1, 1 * next)
    BY <1>1, <1>2, <1>5, FracWhole, FracPlus
  <2>2. x * next - (t + x) * 1 = e2 /\ 1 * next = next
    BY <1>1
  <2>. QED  BY <2>1, <2>2
<1>7. V!Growth(delta, V!Whole(x), mean2) = V!Frac(e * e2, len * next)
  BY <1>1, <1>2, <1>3, <1>6, FracTimes DEF V!Growth
<1>8. V!Plus(dev, V!Growth(delta, V!Whole(x), mean2)) = V!Frac(D2, next)
  <2>0. e * e2 \in Int
    BY <1>2
  <2>1. V!Plus(dev, V!Growth(delta, V!Whole(x), mean2)) =
          V!Frac(D * (len * next) + (e * e2) * len, len * (len * next))
    <3>. HIDE DEF e, e2, D, next
    <3>. QED  BY <2>0, <1>1, <1>2, <1>7, FracPlus DEF D
  <2>2. (D * (len * next) + (e * e2) * len) * next = D2 * (len * (len * next))
    BY <1>1
  <2>3. D * (len * next) + (e * e2) * len \in Int /\ len * (len * next) \in Pos
    BY <2>0, <1>1, <1>2, PosTimes
  <2>4. V!Frac(D * (len * next) + (e * e2) * len, len * (len * next)) = V!Frac(D2, next)
    <3>. HIDE DEF e, e2, D, D2, next
    <3>. QED  BY <2>2, <2>3, <1>1, <1>2, FracSame DEF Pos
  <2>. QED  BY <2>1, <2>4
<1>. QED  BY <1>5, <1>8 DEF delta, mean2

\* The first row.
LEMMA FirstRow ==
  ASSUME NEW x \in Int
  PROVE  LET delta == V!Minus(V!Whole(x), V!Whole(0))
             mean == V!Plus(V!Whole(0), V!Over(delta, 1))
         IN
         /\ mean = V!Frac(x, 1)
         /\ V!Plus(V!Whole(0), V!Growth(delta, V!Whole(x), mean)) = V!Frac(0, 1)
<1>. DEFINE delta == V!Minus(V!Whole(x), V!Whole(0))
            mean == V!Plus(V!Whole(0), V!Over(delta, 1))
<1>1. 1 \in Pos /\ 0 \in Int
  BY DEF Pos
<1>2. V!Whole(0) = V!Frac(0, 1) /\ V!Whole(x) = V!Frac(x, 1)
  BY FracWhole
<1>3. delta = V!Frac(x, 1)
  <2>1. delta = V!Frac(x * 1 - 0 * 1, 1 * 1)
    BY <1>1, <1>2, FracPlus
  <2>. QED  BY <2>1
<1>. HIDE DEF delta
<1>4. V!Over(delta, 1) = V!Frac(x, 1)
  <2>1. V!Over(delta, 1) = V!Frac(x, 1 * 1)
    BY <1>1, <1>3, FracOver
  <2>. QED  BY <2>1
<1>5. mean = V!Frac(x, 1)
  <2>1. mean = V!Frac(0 * 1 + x * 1, 1 * 1)
    BY <1>1, <1>2, <1>4, FracPlus
  <2>. QED  BY <2>1
<1>. HIDE DEF mean
<1>6. V!Minus(V!Whole(x), mean) = V!Frac(0, 1)
  <2>1. V!Minus(V!Whole(x), mean) = V!Frac(x * 1 - x * 1, 1 * 1)
    BY <1>1, <1>2, <1>5, FracPlus
  <2>2. x * 1 - x * 1 = 0
    OBVIOUS
  <2>. QED  BY <2>1, <2>2
<1>7. V!Growth(delta, V!Whole(x), mean) = V!Frac(0, 1)
  <2>1. V!Times(delta, V!Minus(V!Whole(x), mean)) = V!Frac(x * 0, 1 * 1)
    BY <1>1, <1>3, <1>6, FracTimes
  <2>. QED  BY <2>1 DEF V!Growth
<1>8. V!Plus(V!Whole(0), V!Growth(delta, V!Whole(x), mean)) = V!Frac(0, 1)
  <2>1. V!Plus(V!Whole(0), V!Growth(delta, V!Whole(x), mean)) = V!Frac(0 * 1 + 0 * 1, 1 * 1)
    BY <1>1, <1>2, <1>7, FracPlus
  <2>. QED  BY <2>1
<1>. QED  BY <1>5, <1>8 DEF delta, mean

LEMMA VarianceStep ==
  ASSUME TypeOK, VarianceInv, NEW row \in Rows, Step(row), V!Step(row.num)
  PROVE  VarianceInv'
<1>. DEFINE x == row.num
            len == Len(seen)
            delta == V!Minus(V!Whole(x), rM)
<1>1. /\ n' = n + 1
      /\ rM' = V!Plus(rM, V!Over(delta, n'))
      /\ rS' = V!Plus(rS, V!Growth(delta, V!Whole(x), rM'))
  BY DEF V!Step
<1>2. /\ x \in Int /\ len \in Nat
      /\ Xs \in Seq(Int) /\ Len(Xs) = len
      /\ Sum \in Int /\ SumOfSquares \in Int
      /\ seen = << >> => Sum = 0 /\ SumOfSquares = 0
  BY SumsType, SumsStep
<1>3. /\ Len(seen') = len + 1
      /\ Xs' # << >> /\ Len(Xs') = len + 1
      /\ Sum' = Sum + x
      /\ SumOfSquares' = SumOfSquares + x * x
  BY SumsStep
<1>4. n = len /\ n' = len + 1
  BY <1>1 DEF VarianceInv
<1>5. seen' # << >>
  BY DEF Step, TypeOK
<1>6. /\ rM' = V!Frac(Sum + x, len + 1)
      /\ rS' = V!Frac((len + 1) * (SumOfSquares + x * x) - (Sum + x) * (Sum + x), len + 1)
  <2>1. CASE seen = << >>
    <3>1. rM = V!Whole(0) /\ rS = V!Whole(0) /\ len = 0 /\ Sum = 0 /\ SumOfSquares = 0
      BY <2>1, <1>2 DEF VarianceInv
    <3>2. rM' = V!Frac(x, 1) /\ rS' = V!Frac(0, 1)
      BY <3>1, <1>1, <1>2, <1>4, FirstRow
    <3>3. Sum + x = x /\ len + 1 = 1
          /\ (len + 1) * (SumOfSquares + x * x) - (Sum + x) * (Sum + x) = 0
      BY <3>1, <1>2
    <3>. QED  BY <3>2, <3>3
  <2>2. CASE seen # << >>
    <3>1. len \in Pos
      <4>1. len \in Nat \ {0}
        BY <2>2, EmptySeq, Zenon DEF TypeOK
      <4>. QED  BY <4>1 DEF Pos
    <3>2. Xs # << >>
      BY <3>1, <1>2 DEF Pos
    <3>3. rM = V!Frac(Sum, len) /\ rS = V!Frac(len * SumOfSquares - Sum * Sum, len)
      <4>1. V!OnePassIsTwoPass
        BY DEF VarianceInv
      <4>. QED  BY <4>1, <3>2, <1>2 DEF V!OnePassIsTwoPass, V!Deviations, Xs, Sum, SumOfSquares, Squares
    <3>4. /\ V!Plus(rM, V!Over(delta, len + 1)) = V!Frac(Sum + x, len + 1)
          /\ V!Plus(rS, V!Growth(delta, V!Whole(x), V!Plus(rM, V!Over(delta, len + 1)))) =
               V!Frac((len + 1) * (SumOfSquares + x * x) - (Sum + x) * (Sum + x), len + 1)
      BY <3>1, <3>3, <1>2, Recurrence
    <3>. QED  BY <3>4, <1>1, <1>4
  <2>. QED  BY <2>1, <2>2
<1>7. V!OnePassIsTwoPass'
  <2>1. rM' = V!Frac(Sum', Len(Xs')) /\ rS' = V!Frac(Len(Xs') * SumOfSquares' - Sum' * Sum', Len(Xs'))
    BY <1>3, <1>6
  <2>. QED  BY <2>1 DEF V!OnePassIsTwoPass, V!Deviations, Xs, Sum, SumOfSquares, Squares
<1>. QED  BY <1>3, <1>4, <1>5, <1>7 DEF VarianceInv

\* A query's calls of all aggregates and of the string functions are calls of each.
LEMMA AllImplies == AllSpec => Spec
<1>1. AllInit => Init
  BY DEF AllInit
<1>2. [AllNext]_allvars => [Next]_vars
  BY DEF AllNext, allvars, AllStep, AllFinalize, AllNextGroup, Next
<1>. QED  BY <1>1, <1>2, PTL DEF AllSpec, Spec

\* The rows are the same, and so are the sums over them.
LEMMA SumsKept ==
  ASSUME UNCHANGED <<seen, n, rM, rS>>, VarianceInv
  PROVE  VarianceInv'
  BY DEF VarianceInv, V!OnePassIsTwoPass, V!Deviations

LEMMA SpreadOfRows ==
  ASSUME TypeOK, VarianceInv
  PROVE  V!Spread(n) = IF Len(Xs) > 1 THEN V!Frac(V!Deviations, Len(Xs) * (Len(Xs) - 1))
                       ELSE V!Whole(0)
<1>1. n = Len(seen) /\ Len(Xs) = Len(seen) /\ Len(seen) \in Nat /\ Sum \in Int /\ SumOfSquares \in Int
  BY SumsType DEF VarianceInv
<1>2. V!Deviations = Len(Xs) * SumOfSquares - Sum * Sum
  BY DEF V!Deviations, Xs, Sum, SumOfSquares, Squares
<1>3. CASE n > 1
  <2>1. Xs # << >>
    BY <1>1, <1>3
  <2>2. rS = V!Frac(V!Deviations, Len(Xs))
    BY <2>1 DEF VarianceInv, V!OnePassIsTwoPass, Xs
  <2>3. V!Deviations \in Int /\ Len(Xs) \in Pos /\ n - 1 \in Pos /\ n = Len(Xs)
    BY <1>1, <1>2, <1>3 DEF Pos
  <2>4. V!Over(rS, n - 1) = V!Frac(V!Deviations, Len(Xs) * (n - 1))
    BY <2>2, <2>3, FracOver
  <2>. QED  BY <2>3, <2>4, <1>3 DEF V!Spread
<1>4. CASE ~ (n > 1)
  BY <1>1, <1>4 DEF V!Spread
<1>. QED  BY <1>3, <1>4

LEMMA VarianceInductive == AllSpec => [](VarianceInv /\ V!SampleVariance)
<1>1. AllInit => VarianceInv /\ V!SampleVariance
  <2>. SUFFICES ASSUME AllInit PROVE VarianceInv /\ V!SampleVariance
    OBVIOUS
  <2>1. seen = << >> /\ n = 0 /\ rM = V!Whole(0) /\ rS = V!Whole(0) /\ spread = V!Pending
    BY DEF AllInit, Init, V!Init
  <2>2. Xs = << >> /\ Len(seen) = 0
    BY <2>1, EmptySeq DEF Xs
  <2>. QED  BY <2>1, <2>2 DEF VarianceInv, V!OnePassIsTwoPass, V!SampleVariance, Xs
<1>2. Inv /\ VarianceInv /\ V!SampleVariance /\ [AllNext]_allvars => VarianceInv' /\ V!SampleVariance'
  <2>. SUFFICES ASSUME Inv, VarianceInv, V!SampleVariance, [AllNext]_allvars
                PROVE  VarianceInv' /\ V!SampleVariance'
    OBVIOUS
  <2>1. ASSUME NEW row \in Rows, AllStep(row) PROVE VarianceInv' /\ V!SampleVariance'
    <3>1. VarianceInv'
      BY <2>1, VarianceStep DEF Inv, AllStep
    <3>2. spread' = V!Pending
      BY <2>1 DEF AllStep, V!Step
    <3>. QED  BY <3>1, <3>2 DEF V!SampleVariance, V!Pending
  <2>2. ASSUME NEW f, AllFinalize(f) PROVE VarianceInv' /\ V!SampleVariance'
    <3>1. UNCHANGED <<seen, n, rM, rS>> /\ spread' = V!Spread(n)
      BY <2>2 DEF AllFinalize, Finalize, V!Finalize
    <3>2. VarianceInv'
      BY <3>1, SumsKept
    <3>3. spread' = IF Len(Xs) > 1 THEN V!Frac(V!Deviations, Len(Xs) * (Len(Xs) - 1)) ELSE V!Whole(0)
      BY <3>1, SpreadOfRows DEF Inv
    <3>4. Xs' = Xs /\ V!Deviations' = V!Deviations
      BY <3>1 DEF Xs, V!Deviations
    <3>. QED  BY <3>2, <3>3, <3>4 DEF V!SampleVariance, Xs
  <2>3. ASSUME AllNextGroup PROVE VarianceInv' /\ V!SampleVariance'
    <3>1. seen' = << >> /\ n' = 0 /\ rM' = V!Whole(0) /\ rS' = V!Whole(0) /\ spread' = V!Pending
      BY <2>3 DEF AllNextGroup, NextGroup, V!NextGroup
    <3>2. Xs' = << >> /\ Len(seen') = 0
      BY <3>1, EmptySeq DEF Xs
    <3>. QED  BY <3>1, <3>2 DEF VarianceInv, V!OnePassIsTwoPass, V!SampleVariance, V!Pending, Xs
  <2>4. ASSUME UNCHANGED <<vars, n, rM, rS, spread>> PROVE VarianceInv' /\ V!SampleVariance'
    <3>1. UNCHANGED <<seen, n, rM, rS, spread>>
      BY <2>4 DEF vars
    <3>2. VarianceInv'
      BY <3>1, SumsKept
    <3>. QED  BY <3>1, <3>2 DEF V!SampleVariance, V!Deviations, V!Pending
  <2>. QED  BY <2>1, <2>2, <2>3, <2>4 DEF AllNext, allvars
<1>3. AllSpec => []Inv
  BY AllImplies, InvInductive, PTL
<1>. QED  BY <1>1, <1>2, <1>3, PTL DEF AllSpec

(***************************************************************************)
(* Texts and their bytes                                                   *)
(***************************************************************************)

\* b is what FlattenSeq goes through: the elements of the first k sequences of cs, for every k.
IsFlat(b, cs, B) ==
  /\ b \in [0..Len(cs) -> Seq(B)]
  /\ b[0] = << >>
  /\ \A k \in 1..Len(cs) : b[k] = b[k - 1] \o cs[k]
  /\ T!FlattenSeq(cs) = b[Len(cs)]

LEMMA FlatExists ==
  ASSUME NEW B, NEW cs \in Seq(Seq(B))
  PROVE  \E b : IsFlat(b, cs, B)
<1>. DEFINE S == Seq(B)
            len == Len(cs)
            step == [kb \in (1..len) \X S |-> kb[2] \o cs[kb[1]]]
            f(u) == [k \in 1..len |-> IF k = 1 THEN cs[k] ELSE u[k - 1] \o cs[k]]
<1>1. len \in Nat /\ << >> \in S /\ \A k \in 1..len : cs[k] \in S
  BY EmptySeq
<1>2. \A s \in S, r \in S : s \o r \in S
  BY ConcatProperties
<1>3. \A s \in S : << >> \o s = s
  BY ConcatEmptySeq
<1>. HIDE DEF S
<1>4. step \in [(1..len) \X S -> S]
  BY <1>1, <1>2
<1>5. PICK b : IsScan(b, len, S, << >>, step)
  <2>1. len \in Nat
    BY <1>1
  <2>. HIDE DEF step, len
  <2>. QED  BY <2>1, <1>1, <1>4, ScanExists, Zenon
<1>6. b \in [0..len -> S] /\ b[0] = << >> /\ \A k \in 1..len : b[k] = step[<<k, b[k - 1]>>]
  BY <1>5 DEF IsScan
<1>7. \A k \in 1..len : b[k] = b[k - 1] \o cs[k]
  <2>1. TAKE k \in 1..len
  <2>2. k - 1 \in 0..len
    BY <1>1
  <2>3. <<k, b[k - 1]>> \in (1..len) \X S
    BY <2>2, <1>6
  <2>. QED  BY <2>3, <1>6
<1>. HIDE DEF step
<1>10. ASSUME len # 0 PROVE b[1] = cs[1]
  <2>1. 1 \in 1..len /\ 1 - 1 = 0
    BY <1>1, <1>10
  <2>2. b[1] = b[1 - 1] \o cs[1]
    BY <2>1, <1>7
  <2>3. b[1] = << >> \o cs[1] /\ cs[1] \in S
    BY <2>1, <2>2, <1>1, <1>6
  <2>. QED  BY <2>3, <1>3
<1>8. CASE len = 0
  <2>1. cs = << >>
    BY <1>8
  <2>2. T!FlattenSeq(cs) = << >>
    BY <2>1, <1>8 DEF T!FlattenSeq
  <2>3. b[Len(cs)] = << >>
    BY <1>8, <1>6
  <2>4. IsFlat(b, cs, B)
    BY <2>2, <2>3, <1>6, <1>7 DEF IsFlat, S
  <2>. QED  BY <2>4
<1>9. CASE len # 0
  <2>. DEFINE g == [k \in 1..len |-> b[k]]
  <2>1. g = f(g)
    <3>1. ASSUME NEW k \in 1..len PROVE b[k] = f(g)[k]
      <4>1. CASE k = 1
        BY <4>1, <1>9, <1>10
      <4>2. CASE k # 1
        <5>1. k - 1 \in 1..len
          BY <4>2, <1>1
        <5>. QED  BY <5>1, <4>2, <1>7
      <4>. QED  BY <4>1, <4>2
    <3>2. f(g) = [k \in 1..len |-> f(g)[k]]
      OBVIOUS
    <3>. HIDE DEF f
    <3>. QED  BY <3>1, <3>2
  <2>. DEFINE u == CHOOSE u : u = f(u)
  <2>2. T!FlattenSeq(cs) = u[len]
    BY <1>9 DEF T!FlattenSeq
  <2>3. u = f(u)
    <3>. HIDE DEF f, g
    <3>. QED  BY <2>1
  <2>. HIDE DEF u
  <2>4. \A k \in 1..len : u[k] = IF k = 1 THEN cs[k] ELSE u[k - 1] \o cs[k]
    <3>1. \A k \in 1..len : f(u)[k] = IF k = 1 THEN cs[k] ELSE u[k - 1] \o cs[k]
      OBVIOUS
    <3>. HIDE DEF f
    <3>. QED  BY <3>1, <2>3
  <2>. DEFINE w == [k \in 0..len |-> IF k = 0 THEN << >> ELSE u[k]]
  <2>5. w[0] = << >> /\ \A k \in 1..len : w[k] = u[k]
    BY <1>1
  <2>. HIDE DEF w
  <2>6. \A k \in 1..len : w[k - 1] = b[k - 1] => w[k] = b[k]
    <3>1. ASSUME NEW k \in 1..len, w[k - 1] = b[k - 1] PROVE w[k] = b[k]
      <4>1. CASE k = 1
        BY <4>1, <1>9, <1>10, <2>4, <2>5
      <4>2. CASE k # 1
        <5>1. k - 1 \in 1..len
          BY <4>2, <1>1
        <5>2. w[k] = u[k - 1] \o cs[k] /\ w[k - 1] = u[k - 1]
          BY <5>1, <4>2, <2>4, <2>5
        <5>. QED  BY <5>2, <3>1, <1>7
      <4>. QED  BY <4>1, <4>2
    <3>. QED  BY <3>1
  <2>7. Agree(w, b, len)
    <3>1. len \in Nat /\ w[0] = b[0]
      BY <1>1, <1>6, <2>5
    <3>. HIDE DEF len
    <3>. QED  BY <3>1, <2>6, ScanAgree DEF Parallel
  <2>8. u[len] = b[len]
    BY <2>7, <2>5, <1>1, <1>9 DEF Agree
  <2>9. IsFlat(b, cs, B)
    BY <2>2, <2>8, <1>6, <1>7 DEF IsFlat, S
  <2>. QED  BY <2>9
<1>. QED  BY <1>8, <1>9

LEMMA FlatType ==
  ASSUME NEW B, NEW cs \in Seq(Seq(B))
  PROVE  T!FlattenSeq(cs) \in Seq(B)
<1>1. PICK b : IsFlat(b, cs, B)
  BY FlatExists
<1>2. Len(cs) \in 0..Len(cs)
  OBVIOUS
<1>. QED  BY <1>1, <1>2 DEF IsFlat

\* Concatenating sequences concatenates their elements.
LEMMA FlatConcat ==
  ASSUME NEW B, NEW cs \in Seq(Seq(B)), NEW ds \in Seq(Seq(B))
  PROVE  T!FlattenSeq(cs \o ds) = T!FlattenSeq(cs) \o T!FlattenSeq(ds)
<1>. DEFINE S == Seq(B)
            es == cs \o ds
            lc == Len(cs)
            ld == Len(ds)
<1>1. /\ es \in Seq(S) /\ lc \in Nat /\ ld \in Nat /\ Len(es) = lc + ld
      /\ \A k \in 1..lc : es[k] = cs[k]
      /\ \A k \in 1..ld : es[lc + k] = ds[k]
  <2>. HIDE DEF S
  <2>1. cs \in Seq(S) /\ ds \in Seq(S)
    BY DEF S
  <2>. QED  BY <2>1
<1>2. \A k \in 1..ld : ds[k] \in S
  OBVIOUS
<1>3. PICK b : IsFlat(b, es, B)
  BY <1>1, FlatExists DEF S
<1>4. PICK c : IsFlat(c, cs, B)
  BY FlatExists
<1>5. PICK d : IsFlat(d, ds, B)
  BY FlatExists
<1>6. /\ b[0] = << >>
      /\ \A k \in 1..(lc + ld) : b[k] = b[k - 1] \o es[k]
      /\ T!FlattenSeq(es) = b[lc + ld]
  BY <1>3, <1>1 DEF IsFlat
<1>7. /\ c[0] = << >> /\ c[lc] \in S
      /\ \A k \in 1..lc : c[k] = c[k - 1] \o cs[k]
      /\ T!FlattenSeq(cs) = c[lc]
  BY <1>4, <1>1 DEF IsFlat
<1>8. /\ d[0] = << >> /\ d \in [0..ld -> S]
      /\ \A k \in 1..ld : d[k] = d[k - 1] \o ds[k]
      /\ T!FlattenSeq(ds) = d[ld]
  BY <1>5 DEF IsFlat
<1>9. \A r \in S, s \in S, q \in S : (r \o s) \o q = r \o (s \o q)
  BY ConcatAssociative
<1>10. \A s \in S : s \o << >> = s
  BY ConcatEmptySeq
<1>. HIDE DEF S, es
<1>11. \A k \in 0..lc : b[k] = c[k]
  <2>1. \A k \in 1..lc : b[k - 1] = c[k - 1] => b[k] = c[k]
    <3>1. TAKE k \in 1..lc
    <3>2. k \in 1..(lc + ld)
      BY <1>1
    <3>. QED  BY <3>2, <1>1, <1>6, <1>7
  <2>2. Agree(b, c, lc)
    <3>1. lc \in Nat /\ b[0] = c[0]
      BY <1>1, <1>6, <1>7
    <3>. HIDE DEF lc
    <3>. QED  BY <3>1, <2>1, ScanAgree DEF Parallel
  <2>. QED  BY <2>2 DEF Agree
<1>. DEFINE e == [k \in 0..ld |-> b[lc + k]]
            g == [k \in 0..ld |-> c[lc] \o d[k]]
<1>12. \A k \in 0..ld : e[k] = b[lc + k] /\ g[k] = c[lc] \o d[k]
  OBVIOUS
<1>. HIDE DEF e, g
<1>13. e[0] = g[0]
  <2>1. 0 \in 0..ld /\ lc + 0 = lc /\ lc \in 0..lc
    BY <1>1
  <2>2. e[0] = b[lc] /\ g[0] = c[lc] \o << >>
    BY <2>1, <1>8, <1>12
  <2>. QED  BY <2>1, <2>2, <1>7, <1>10, <1>11
<1>14. \A k \in 1..ld : e[k - 1] = g[k - 1] => e[k] = g[k]
  <2>1. TAKE k \in 1..ld
  <2>2. /\ k \in 0..ld /\ k - 1 \in 0..ld /\ lc + k \in 1..(lc + ld)
        /\ (lc + k) - 1 = lc + (k - 1)
    BY <1>1
  <2>3. b[lc + k] = b[lc + (k - 1)] \o ds[k]
    BY <2>2, <1>1, <1>6
  <2>4. e[k] = e[k - 1] \o ds[k]
    BY <2>2, <2>3, <1>12
  <2>5. d[k] = d[k - 1] \o ds[k] /\ d[k - 1] \in S /\ ds[k] \in S
    BY <2>2, <1>2, <1>8
  <2>6. (c[lc] \o d[k - 1]) \o ds[k] = c[lc] \o (d[k - 1] \o ds[k])
    BY <2>5, <1>7, <1>9
  <2>7. g[k] = g[k - 1] \o ds[k]
    BY <2>2, <2>5, <2>6, <1>12
  <2>. QED  BY <2>4, <2>7
<1>15. Agree(e, g, ld)
  <2>1. ld \in Nat
    BY <1>1
  <2>. HIDE DEF ld
  <2>. QED  BY <2>1, <1>13, <1>14, ScanAgree DEF Parallel
<1>16. e[ld] = g[ld] /\ ld \in 0..ld
  BY <1>1, <1>15 DEF Agree
<1>. QED  BY <1>16, <1>12, <1>6, <1>7, <1>8 DEF es

LEMMA FlatSingle ==
  ASSUME NEW B, NEW c \in Seq(B)
  PROVE  T!FlattenSeq(<< >>) = << >> /\ T!FlattenSeq(<<c>>) = c
<1>. DEFINE S == Seq(B)
<1>1. << >> \in Seq(S) /\ <<c>> \in Seq(S) /\ Len(<<c>>) = 1 /\ <<c>>[1] = c /\ Len(<< >>) = 0
  <2>1. c \in S
    OBVIOUS
  <2>. HIDE DEF S
  <2>. QED  BY <2>1
<1>2. PICK d : IsFlat(d, << >>, B)
  BY <1>1, FlatExists
<1>3. PICK b : IsFlat(b, <<c>>, B)
  BY <1>1, FlatExists
<1>4. << >> \o c = c
  BY ConcatEmptySeq
<1>5. b[0] = << >> /\ b[1] = b[0] \o c /\ T!FlattenSeq(<<c>>) = b[1]
  <2>1. 1 \in 1..Len(<<c>>) /\ 1 - 1 = 0
    BY <1>1
  <2>. QED  BY <2>1, <1>1, <1>3 DEF IsFlat
<1>6. T!FlattenSeq(<< >>) = << >>
  BY <1>1, <1>2 DEF IsFlat
<1>. QED  BY <1>4, <1>5, <1>6

\* The elements of the first k sequences and those of the others.
LEMMA FlatCut ==
  ASSUME NEW B, NEW cs \in Seq(Seq(B)), NEW k \in 0..Len(cs)
  PROVE  /\ SubSeq(cs, 1, k) \in Seq(Seq(B)) /\ SubSeq(cs, k + 1, Len(cs)) \in Seq(Seq(B))
         /\ cs = SubSeq(cs, 1, k) \o SubSeq(cs, k + 1, Len(cs))
         /\ T!FlattenSeq(cs) = T!FlattenSeq(SubSeq(cs, 1, k))
                               \o T!FlattenSeq(SubSeq(cs, k + 1, Len(cs)))
<1>. DEFINE S == Seq(B)
            len == Len(cs)
<1>1. cs \in Seq(S) /\ len \in Nat
  OBVIOUS
<1>2. \A i \in 1..len : cs[i] \in S
  BY <1>1
<1>. HIDE DEF S
<1>3. SubSeq(cs, 1, k) \in Seq(S) /\ SubSeq(cs, k + 1, len) \in Seq(S)
  <2>1. SubSeq(cs, 1, k) \in Seq(S)
    BY <1>1, <1>2, SubSeqProperties
  <2>2. SubSeq(cs, k + 1, len) \in Seq(S)
    BY <1>1, <1>2, SubSeqProperties
  <2>. QED  BY <2>1, <2>2
<1>4. cs = SubSeq(cs, 1, k) \o SubSeq(cs, k + 1, len)
  <2>1. 1 \in 1..(Len(cs) + 1) /\ k \in (1 - 1)..Len(cs) /\ len \in k..Len(cs)
    BY <1>1
  <2>2. SubSeq(cs, 1, k) \o SubSeq(cs, k + 1, len) = SubSeq(cs, 1, len)
    BY <1>1, <2>1, ConcatAdjacentSubSeq
  <2>3. SubSeq(cs, 1, len) = cs
    BY <1>1, SubSeqFull
  <2>. QED  BY <2>2, <2>3
<1>5. T!FlattenSeq(SubSeq(cs, 1, k) \o SubSeq(cs, k + 1, len))
        = T!FlattenSeq(SubSeq(cs, 1, k)) \o T!FlattenSeq(SubSeq(cs, k + 1, len))
  BY <1>3, FlatConcat DEF S
<1>. QED  BY <1>3, <1>4, <1>5 DEF S

\* One sequence more.
LEMMA FlatNext ==
  ASSUME NEW B, NEW cs \in Seq(Seq(B)), NEW k \in 1..Len(cs)
  PROVE  T!FlattenSeq(SubSeq(cs, 1, k)) = T!FlattenSeq(SubSeq(cs, 1, k - 1)) \o cs[k]
<1>. DEFINE S == Seq(B)
<1>1. cs \in Seq(S) /\ cs[k] \in S
  OBVIOUS
<1>. HIDE DEF S
<1>2. SubSeq(cs, 1, k) = SubSeq(cs, 1, k - 1) \o <<cs[k]>>
  <2>1. 1 \in 1..Len(cs) /\ k \in 1..Len(cs)
    BY <1>1
  <2>. QED  BY <1>1, <2>1, SubSeqRecursiveSecond
<1>3. SubSeq(cs, 1, k - 1) \in Seq(S) /\ <<cs[k]>> \in Seq(S)
  <2>1. \A i \in 1..(k - 1) : cs[i] \in S
    BY <1>1
  <2>2. 1 \in Int /\ k - 1 \in Int
    OBVIOUS
  <2>3. SubSeq(cs, 1, k - 1) \in Seq(S)
    BY <2>1, <2>2, SubSeqProperties
  <2>. QED  BY <2>3, <1>1
<1>4. T!FlattenSeq(<<cs[k]>>) = cs[k]
  BY <1>1, FlatSingle DEF S
<1>5. T!FlattenSeq(SubSeq(cs, 1, k - 1) \o <<cs[k]>>)
        = T!FlattenSeq(SubSeq(cs, 1, k - 1)) \o T!FlattenSeq(<<cs[k]>>)
  BY <1>3, FlatConcat DEF S
<1>. QED  BY <1>2, <1>4, <1>5

\* off tells where each sequence of cs ends in z, which holds their elements one after the other.
Laid(off, cs, z) ==
  /\ off \in [0..Len(cs) -> 0..Len(z)]
  /\ off[0] = 0 /\ off[Len(cs)] = Len(z)
  /\ \A k \in 1..Len(cs) : off[k] = off[k - 1] + Len(cs[k])
  /\ \A k \in 1..Len(cs) : \A j \in 1..Len(cs[k]) : z[off[k - 1] + j] = cs[k][j]

Layout(cs) == [k \in 0..Len(cs) |-> Len(T!FlattenSeq(SubSeq(cs, 1, k)))]

LEMMA LayoutLaid ==
  ASSUME NEW B, NEW cs \in Seq(Seq(B))
  PROVE  Laid(Layout(cs), cs, T!FlattenSeq(cs))
<1>. DEFINE S == Seq(B)
            z == T!FlattenSeq(cs)
            len == Len(cs)
            p(k) == T!FlattenSeq(SubSeq(cs, 1, k))
            q(k) == T!FlattenSeq(SubSeq(cs, k + 1, len))
            off == Layout(cs)
<1>1. len \in Nat /\ z \in S /\ \A k \in 1..len : cs[k] \in S
  BY FlatType
<1>2. \A k \in 0..len : p(k) \in S /\ q(k) \in S /\ z = p(k) \o q(k)
  BY FlatCut, FlatType
<1>3. \A k \in 1..len : p(k) = p(k - 1) \o cs[k]
  BY FlatNext
<1>4. \A k \in 0..len : off[k] = Len(p(k))
  BY DEF Layout
<1>5. off = [k \in 0..len |-> off[k]]
  BY DEF Layout
<1>6. p(0) = << >>
  <2>1. SubSeq(cs, 1, 0) = << >>
    BY SubSeqEmpty
  <2>. QED  BY <2>1, FlatSingle
<1>7. p(len) = z
  <2>1. SubSeq(cs, 1, len) = cs
    <3>1. cs \in Seq(S)
      OBVIOUS
    <3>. HIDE DEF S
    <3>. QED  BY <3>1, SubSeqFull
  <2>. QED  BY <2>1
<1>8. \A r \in S, s \in S : /\ Len(r) \in Nat /\ Len(s) \in Nat /\ Len(r \o s) = Len(r) + Len(s)
                            /\ \A i \in 1..Len(r) : (r \o s)[i] = r[i]
                            /\ \A i \in 1..Len(s) : (r \o s)[Len(r) + i] = s[i]
  OBVIOUS
<1>. HIDE DEF S, z, p, q, off
<1>9. \A k \in 0..len : off[k] \in 0..Len(z)
  <2>1. TAKE k \in 0..len
  <2>2. Len(z) = Len(p(k)) + Len(q(k)) /\ Len(p(k)) \in Nat /\ Len(q(k)) \in Nat
    BY <1>2, <1>8
  <2>. QED  BY <2>2, <1>4
<1>10. \A k \in 1..len : off[k] = off[k - 1] + Len(cs[k])
  <2>1. TAKE k \in 1..len
  <2>2. k \in 0..len /\ k - 1 \in 0..len
    BY <1>1
  <2>3. p(k - 1) \in S /\ cs[k] \in S /\ p(k) = p(k - 1) \o cs[k]
    BY <2>2, <1>1, <1>2, <1>3
  <2>4. Len(p(k)) = Len(p(k - 1)) + Len(cs[k])
    BY <2>3, <1>8
  <2>. QED  BY <2>2, <2>4, <1>4
<1>11. ASSUME NEW k \in 1..len, NEW j \in 1..Len(cs[k]) PROVE z[off[k - 1] + j] = cs[k][j]
  <2>1. k \in 0..len /\ k - 1 \in 0..len
    BY <1>1
  <2>6. p(k - 1) \in S /\ cs[k] \in S /\ p(k) = p(k - 1) \o cs[k]
    BY <2>1, <1>1, <1>2, <1>3
  <2>2. p(k)[Len(p(k - 1)) + j] = cs[k][j]
    BY <2>6, <1>8
  <2>3. Len(p(k - 1)) + j \in 1..Len(p(k))
    <3>1. Len(p(k)) = Len(p(k - 1)) + Len(cs[k]) /\ Len(p(k - 1)) \in Nat /\ Len(cs[k]) \in Nat
      BY <2>6, <1>8
    <3>. QED  BY <3>1
  <2>4. (p(k) \o q(k))[Len(p(k - 1)) + j] = p(k)[Len(p(k - 1)) + j]
    BY <2>1, <2>3, <1>2, <1>8
  <2>5. z[Len(p(k - 1)) + j] = cs[k][j]
    BY <2>1, <2>2, <2>4, <1>2
  <2>. QED  BY <2>1, <2>5, <1>4
<1>12. off[0] = 0 /\ off[len] = Len(z)
  BY <1>1, <1>4, <1>6, <1>7
<1>13. Laid(off, cs, z)
  BY <1>5, <1>9, <1>10, <1>11, <1>12 DEF Laid
<1>. QED  BY <1>13 DEF off, z

\* Cutting the elements where a sequence ends cuts between the sequences.
LEMMA Cuts ==
  ASSUME NEW B, NEW cs \in Seq(Seq(B)), NEW k \in 0..Len(cs)
  PROVE  LET z == T!FlattenSeq(cs)
             off == Layout(cs)
         IN /\ SubSeq(z, 1, off[k]) = T!FlattenSeq(SubSeq(cs, 1, k))
            /\ SubSeq(z, off[k] + 1, Len(z)) = T!FlattenSeq(SubSeq(cs, k + 1, Len(cs)))
<1>. DEFINE p == T!FlattenSeq(SubSeq(cs, 1, k))
            q == T!FlattenSeq(SubSeq(cs, k + 1, Len(cs)))
            z == T!FlattenSeq(cs)
<1>1. p \in Seq(B) /\ q \in Seq(B) /\ z = p \o q
  BY FlatCut, FlatType
<1>2. Layout(cs)[k] = Len(p)
  BY DEF Layout
<1>. HIDE DEF p, q, z
<1>3. z \in Seq(B) /\ Len(z) = Len(p) + Len(q) /\ Len(p) \in Nat /\ Len(q) \in Nat
      /\ (\A i \in 1..Len(p) : z[i] = p[i]) /\ (\A i \in 1..Len(q) : z[Len(p) + i] = q[i])
  BY <1>1
<1>4. SubSeq(z, 1, Len(p)) = p
  BY <1>1, <1>3
<1>5. SubSeq(z, Len(p) + 1, Len(z)) = q
  BY <1>1, <1>3
<1>. QED  BY <1>2, <1>4, <1>5 DEF p, q, z

IsIn(i, cs, off) == \E k \in 1..Len(cs) : \E j \in 1..Len(cs[k]) : i = off[k - 1] + j

\* Every position of z is one of some sequence.
LEMMA Covered ==
  ASSUME NEW B, NEW cs \in Seq(Seq(B)), NEW z \in Seq(B), NEW off, Laid(off, cs, z),
         NEW i \in 1..Len(z)
  PROVE  IsIn(i, cs, off)
<1>. DEFINE S == Seq(B)
            len == Len(cs)
            Hits == {k \in 0..len : i <= off[k]}
<1>1. len \in Nat /\ Len(z) \in Nat /\ \A k \in 1..len : cs[k] \in S
  OBVIOUS
<1>2. \A s \in S : Len(s) \in Nat
  OBVIOUS
<1>. HIDE DEF S
<1>3. /\ \A k \in 0..len : off[k] \in Nat
      /\ off[0] = 0 /\ off[len] = Len(z)
      /\ \A k \in 1..len : off[k] = off[k - 1] + Len(cs[k])
  BY <1>1 DEF Laid
<1>4. len \in Hits /\ Hits \subseteq Nat
  BY <1>1, <1>3
<1>5. PICK k \in Hits : \A l \in Hits : k <= l
  <2>. HIDE DEF Hits
  <2>. QED  BY <1>4, LeastNumber
<1>6. k \in 1..len /\ k - 1 \in 0..len /\ i <= off[k]
  BY <1>1, <1>3, <1>5
<1>7. ~ (i <= off[k - 1])
  <2>1. k - 1 \notin Hits
    BY <1>1, <1>5, <1>6
  <2>. QED  BY <2>1, <1>6
<1>8. Len(cs[k]) \in Nat /\ off[k - 1] \in Nat /\ off[k] = off[k - 1] + Len(cs[k])
  BY <1>1, <1>2, <1>3, <1>6
<1>9. i - off[k - 1] \in 1..Len(cs[k]) /\ i = off[k - 1] + (i - off[k - 1])
  BY <1>6, <1>7, <1>8
<1>. QED  BY <1>6, <1>9 DEF IsIn

\* What is laid out like cs are the elements of cs.
LEMMA LaidIsFlat ==
  ASSUME NEW B, NEW cs \in Seq(Seq(B)), NEW z \in Seq(B), NEW off, Laid(off, cs, z)
  PROVE  z = T!FlattenSeq(cs) /\ Agree(off, Layout(cs), Len(cs))
<1>. DEFINE y == T!FlattenSeq(cs)
            o == Layout(cs)
            len == Len(cs)
<1>1. Laid(o, cs, y) /\ y \in Seq(B) /\ len \in Nat
  BY LayoutLaid, FlatType
<1>. HIDE DEF y, o
<1>2. Agree(off, o, len)
  <2>1. off[0] = o[0] /\ \A k \in 1..len : off[k - 1] = o[k - 1] => off[k] = o[k]
    BY <1>1 DEF Laid
  <2>. HIDE DEF len
  <2>. QED  BY <2>1, <1>1, ScanAgree DEF Parallel
<1>3. \A k \in 0..len : off[k] = o[k]
  BY <1>2 DEF Agree
<1>4. Len(z) = Len(y)
  <2>1. len \in 0..len
    BY <1>1
  <2>2. off[len] = Len(z) /\ o[len] = Len(y)
    BY <1>1 DEF Laid
  <2>. QED  BY <2>1, <2>2, <1>3
<1>5. ASSUME NEW i \in 1..Len(z) PROVE z[i] = y[i]
  <2>0. IsIn(i, cs, off)
    BY Covered
  <2>1. PICK k \in 1..len : \E j \in 1..Len(cs[k]) : i = off[k - 1] + j
    BY <2>0 DEF IsIn
  <2>2. PICK j \in 1..Len(cs[k]) : i = off[k - 1] + j
    BY <2>1
  <2>3. z[off[k - 1] + j] = cs[k][j]
    BY DEF Laid
  <2>4. y[o[k - 1] + j] = cs[k][j]
    BY <1>1 DEF Laid
  <2>5. off[k - 1] = o[k - 1]
    <3>1. k - 1 \in 0..len
      BY <1>1
    <3>. QED  BY <3>1, <1>3
  <2>. QED  BY <2>2, <2>3, <2>4, <2>5
<1>6. z = y
  BY <1>1, <1>4, <1>5, SeqEqual
<1>. QED  BY <1>2, <1>6 DEF y, o

(***************************************************************************)
(* Characters                                                              *)
(***************************************************************************)
ByteSet == UNION {{c[i] : i \in DOMAIN c} : c \in Chars}

\* A character is a byte that is no trailing byte and trailing bytes.
LEMMA CharacterBytes ==
  ASSUME NEW c \in Chars
  PROVE  /\ c \in Seq(ByteSet) /\ Len(c) \in Nat \ {0} /\ c[1] \notin Trail
         /\ \A j \in 2..Len(c) : c[j] \in Trail
<1>. DEFINE S == {c[i] : i \in DOMAIN c}
<1>1. c # << >> /\ c \in Seq(S) /\ \A i \in DOMAIN c : c[i] \in Trail <=> i > 1
  BY ExtensionAssumption
<1>2. S \subseteq ByteSet
  BY DEF ByteSet
<1>. HIDE DEF S
<1>3. c \in Seq(ByteSet)
  BY <1>1, <1>2, SeqMonotonic
<1>4. Len(c) \in Nat \ {0} /\ DOMAIN c = 1..Len(c)
  BY <1>1, EmptySeq, LenProperties
<1>5. c[1] \notin Trail
  <2>1. 1 \in DOMAIN c /\ ~ (1 > 1)
    BY <1>4
  <2>. QED  BY <2>1, <1>1
<1>6. ASSUME NEW j \in 2..Len(c) PROVE c[j] \in Trail
  <2>1. j \in DOMAIN c /\ j > 1
    BY <1>4
  <2>. QED  BY <2>1, <1>1
<1>. QED  BY <1>3, <1>4, <1>5, <1>6

LEMMA CharacterSeq ==
  ASSUME NEW cs \in Seq(Chars)
  PROVE  cs \in Seq(Seq(ByteSet))
<1>1. Chars \subseteq Seq(ByteSet)
  BY CharacterBytes
<1>. QED  BY <1>1, SeqMonotonic

\* A text of characters: its bytes z, and off, where each character ends.
IsText(cs, z, off) ==
  /\ cs \in Seq(Chars) /\ z \in Seq(ByteSet)
  /\ Len(cs) \in Nat /\ Len(z) \in Nat
  /\ Laid(off, cs, z)
  /\ \A k \in 0..Len(cs) : off[k] \in 0..Len(z)
  /\ \A k \in 1..Len(cs) : /\ cs[k] \in Chars
                           /\ Len(cs[k]) \in Nat \ {0}
                           /\ off[k] = off[k - 1] + Len(cs[k])
  /\ \A k \in 0..Len(cs) : \A j \in 0..(k - 1) : off[j] < off[k]
  /\ \A k \in 0..Len(cs) : k <= off[k]
  /\ off[0] = 0 /\ off[Len(cs)] = Len(z)

LEMMA TextOf ==
  ASSUME NEW cs \in Seq(Chars)
  PROVE  IsText(cs, T!Bytes(cs), Layout(cs))
<1>. DEFINE z == T!Bytes(cs)
            off == Layout(cs)
            len == Len(cs)
<1>1. Laid(off, cs, z) /\ z \in Seq(ByteSet)
  BY CharacterSeq, LayoutLaid, FlatType DEF T!Bytes
<1>. HIDE DEF z, off
<1>2. len \in Nat /\ Len(z) \in Nat
  BY <1>1
<1>3. /\ off[0] = 0 /\ off[len] = Len(z)
      /\ \A k \in 0..len : off[k] \in 0..Len(z)
  BY <1>1, <1>2 DEF Laid
<1>4. \A k \in 1..len : cs[k] \in Chars /\ Len(cs[k]) \in Nat \ {0} /\ off[k] = off[k - 1] + Len(cs[k])
  <2>1. \A k \in 1..len : cs[k] \in Chars
    OBVIOUS
  <2>2. \A k \in 1..len : Len(cs[k]) \in Nat \ {0}
    BY <2>1, CharacterBytes
  <2>. QED  BY <2>1, <2>2, <1>1 DEF Laid
<1>. DEFINE Up == {k \in 0..len : k <= off[k] /\ \A j \in 0..(k - 1) : off[j] < off[k]}
<1>5. 0 \in Up
  BY <1>2, <1>3
<1>6. ASSUME NEW k \in 1..len, k - 1 \in Up PROVE k \in Up
  <2>1. k \in 0..len /\ k - 1 \in 0..len /\ off[k - 1] \in Nat
    BY <1>2, <1>3
  <2>2. off[k - 1] < off[k] /\ off[k - 1] + 1 <= off[k] /\ off[k] \in Nat
    BY <2>1, <1>3, <1>4
  <2>3. k <= off[k]
    BY <1>6, <2>1, <2>2
  <2>4. ASSUME NEW j \in 0..(k - 1) PROVE off[j] < off[k]
    <3>1. CASE j = k - 1
      BY <3>1, <2>2
    <3>2. CASE j # k - 1
      <4>1. j \in 0..((k - 1) - 1) /\ j \in 0..len
        BY <3>2, <1>2
      <4>2. off[j] < off[k - 1] /\ off[j] \in Nat
        BY <4>1, <1>3, <1>6
      <4>. QED  BY <4>2, <2>1, <2>2
    <3>. QED  BY <3>1, <3>2
  <2>. QED  BY <2>1, <2>3, <2>4
<1>7. \A k \in 0..len : k \in Up
  <2>. HIDE DEF Up, len
  <2>. QED  BY <1>2, <1>5, <1>6, ScanHolds
<1>8. IsText(cs, z, off)
  BY <1>1, <1>2, <1>3, <1>4, <1>7 DEF IsText
<1>. QED  BY <1>8 DEF z, off

(***************************************************************************)
(* Walking                                                                 *)
(***************************************************************************)
LEMMA NextCharIs ==
  ASSUME NEW z \in Seq(ByteSet), NEW p \in 1..Len(z), NEW q \in (p + 1)..(Len(z) + 1),
         q = Len(z) + 1 \/ z[q] \notin Trail,
         \A r \in (p + 1)..(q - 1) : z[r] \in Trail
  PROVE  T!NextChar(z, p) = q
<1>. DEFINE IsNext(x) == /\ x = Len(z) + 1 \/ z[x] \notin Trail
                         /\ \A r \in (p + 1)..(x - 1) : z[r] \in Trail
<1>1. Len(z) \in Nat /\ p \in Nat /\ q \in Nat
  OBVIOUS
<1>2. ASSUME NEW x \in (p + 1)..(Len(z) + 1), IsNext(x) PROVE x = q
  <2>1. ~ (x < q)
    <3>1. ASSUME x < q PROVE FALSE
      <4>1. x \in (p + 1)..(q - 1) /\ x # Len(z) + 1
        BY <3>1, <1>1
      <4>. QED  BY <4>1, <1>2
    <3>. QED  BY <3>1
  <2>2. ~ (q < x)
    <3>1. ASSUME q < x PROVE FALSE
      <4>1. q \in (p + 1)..(x - 1) /\ q # Len(z) + 1
        BY <3>1, <1>1
      <4>. QED  BY <4>1, <1>2
    <3>. QED  BY <3>1
  <2>. QED  BY <2>1, <2>2, <1>1
<1>3. IsNext(q)
  OBVIOUS
<1>. HIDE DEF IsNext
<1>4. q = CHOOSE x \in (p + 1)..(Len(z) + 1) : IsNext(x)
  BY <1>2, <1>3
<1>. QED  BY <1>4 DEF IsNext, T!NextChar

\* sqliteNextChar goes from the first byte of a character to that of the next, or to the end.
LEMMA NextStart ==
  ASSUME NEW cs, NEW z, NEW off, IsText(cs, z, off), NEW k \in 1..Len(cs)
  PROVE  T!NextChar(z, off[k - 1] + 1) = off[k] + 1
<1>. DEFINE p == off[k - 1] + 1
            q == off[k] + 1
<1>1. /\ Len(cs) \in Nat /\ Len(z) \in Nat /\ k \in 0..Len(cs) /\ k - 1 \in 0..Len(cs)
      /\ z \in Seq(ByteSet)
  BY DEF IsText
<1>2. /\ off[k - 1] \in Nat /\ off[k] \in Nat /\ off[k] <= Len(z) /\ cs[k] \in Chars
      /\ Len(cs[k]) \in Nat \ {0} /\ off[k] = off[k - 1] + Len(cs[k])
  BY <1>1 DEF IsText
<1>3. p \in 1..Len(z) /\ q \in (p + 1)..(Len(z) + 1)
  BY <1>1, <1>2
<1>4. q = Len(z) + 1 \/ z[q] \notin Trail
  <2>1. CASE k = Len(cs)
    BY <2>1 DEF IsText
  <2>2. CASE k # Len(cs)
    <3>1. k + 1 \in 1..Len(cs) /\ (k + 1) - 1 = k
      BY <2>2, <1>1
    <3>2. cs[k + 1] \in Chars /\ Len(cs[k + 1]) \in Nat \ {0}
      BY <3>1 DEF IsText
    <3>3. z[off[(k + 1) - 1] + 1] = cs[k + 1][1]
      <4>1. 1 \in 1..Len(cs[k + 1])
        BY <3>2
      <4>. QED  BY <4>1, <3>1 DEF IsText, Laid
    <3>4. cs[k + 1][1] \notin Trail
      BY <3>2, CharacterBytes
    <3>. QED  BY <3>1, <3>3, <3>4
  <2>. QED  BY <2>1, <2>2
<1>5. ASSUME NEW r \in (p + 1)..(q - 1) PROVE z[r] \in Trail
  <2>. DEFINE j == r - off[k - 1]
  <2>0. off[k - 1] \in Nat /\ Len(cs[k]) \in Nat /\ off[k] = off[k - 1] + Len(cs[k])
    BY <1>2
  <2>1. j \in 2..Len(cs[k]) /\ j \in 1..Len(cs[k]) /\ r = off[k - 1] + j
    BY <2>0
  <2>2. z[off[k - 1] + j] = cs[k][j]
    BY <2>1 DEF IsText, Laid
  <2>3. cs[k][j] \in Trail
    BY <2>1, <1>2, CharacterBytes
  <2>. QED  BY <2>1, <2>2, <2>3
<1>. QED  BY <1>1, <1>3, <1>4, <1>5, NextCharIs

\* Where a walk over the text stands after k characters.
Stop(off, cs, k) == off[IF k < Len(cs) THEN k ELSE Len(cs)] + 1
Walks(at, cs, z, off) == \A k \in 0..Len(z) : at[k] = Stop(off, cs, k)

LEMMA StopSteps ==
  ASSUME NEW cs, NEW z, NEW off, IsText(cs, z, off)
  PROVE  /\ Stop(off, cs, 0) = 1
         /\ \A k \in 1..Len(z) :
              \/ /\ k \in 1..Len(cs) /\ Stop(off, cs, k - 1) = off[k - 1] + 1
                 /\ Stop(off, cs, k) = off[k] + 1 /\ ~ (Stop(off, cs, k - 1) > Len(z))
              \/ /\ Stop(off, cs, k) = Stop(off, cs, k - 1)
                 /\ Stop(off, cs, k - 1) > Len(z)
<1>1. /\ Len(cs) \in Nat /\ Len(z) \in Nat /\ off[0] = 0 /\ off[Len(cs)] = Len(z)
      /\ \A k \in 0..Len(cs) : off[k] \in 0..Len(z)
      /\ \A k \in 1..Len(cs) : Len(cs[k]) \in Nat \ {0} /\ off[k] = off[k - 1] + Len(cs[k])
  BY DEF IsText
<1>2. Stop(off, cs, 0) = 1
  BY <1>1 DEF Stop
<1>3. ASSUME NEW k \in 1..Len(z), k - 1 < Len(cs)
      PROVE  /\ k \in 1..Len(cs) /\ Stop(off, cs, k - 1) = off[k - 1] + 1
             /\ Stop(off, cs, k) = off[k] + 1 /\ ~ (Stop(off, cs, k - 1) > Len(z))
  <2>1. k \in 1..Len(cs) /\ k - 1 \in 0..Len(cs) /\ k \in 0..Len(cs)
    BY <1>1, <1>3
  <2>2. Stop(off, cs, k - 1) = off[k - 1] + 1
    BY <1>3 DEF Stop
  <2>3. Stop(off, cs, k) = off[k] + 1
    <3>1. (IF k < Len(cs) THEN k ELSE Len(cs)) = k
      BY <2>1, <1>1
    <3>. QED  BY <3>1, Zenon DEF Stop
  <2>4. off[k - 1] + 1 <= off[k] /\ off[k] <= Len(z) /\ off[k] \in Nat /\ off[k - 1] \in Nat
    <3>1. off[k] \in 0..Len(z) /\ off[k - 1] \in 0..Len(z)
      BY <2>1, <1>1
    <3>2. Len(cs[k]) \in Nat \ {0} /\ off[k] = off[k - 1] + Len(cs[k])
      BY <2>1, <1>1
    <3>. QED  BY <3>1, <3>2, <1>1
  <2>. QED  BY <2>1, <2>2, <2>3, <2>4, <1>1
<1>4. ASSUME NEW k \in 1..Len(z), ~ (k - 1 < Len(cs))
      PROVE  Stop(off, cs, k) = Stop(off, cs, k - 1) /\ Stop(off, cs, k - 1) > Len(z)
  <2>1. ~ (k < Len(cs))
    BY <1>1, <1>4
  <2>2. Stop(off, cs, k) = off[Len(cs)] + 1 /\ Stop(off, cs, k - 1) = off[Len(cs)] + 1
    BY <2>1, <1>4, Zenon DEF Stop
  <2>. QED  BY <2>2, <1>1
<1>. QED  BY <1>2, <1>3, <1>4

LEMMA WalkWalks ==
  ASSUME NEW cs, NEW z, NEW off, IsText(cs, z, off)
  PROVE  Walks(T!Walk(z), cs, z, off)
<1>. DEFINE next(p) == T!NextChar(z, p)
            f(u) == [k \in 0..Len(z) |-> IF k = 0 THEN 1
                                         ELSE IF u[k - 1] > Len(z) THEN u[k - 1] ELSE next(u[k - 1])]
            w == [k \in 0..Len(z) |-> Stop(off, cs, k)]
            at == T!Walk(z)
<1>1. Len(z) \in Nat
  BY DEF IsText
<1>2. \A k \in 1..Len(cs) : next(off[k - 1] + 1) = off[k] + 1
  BY NextStart
<1>. HIDE DEF next
<1>3. \A k \in 0..Len(z) : w[k] = Stop(off, cs, k)
  OBVIOUS
<1>4. \A k \in 1..Len(z) : w[k] = IF w[k - 1] > Len(z) THEN w[k - 1] ELSE next(w[k - 1])
  <2>1. TAKE k \in 1..Len(z)
  <2>2. k \in 0..Len(z) /\ k - 1 \in 0..Len(z)
    BY <1>1
  <2>3. w[k] = Stop(off, cs, k) /\ w[k - 1] = Stop(off, cs, k - 1)
    BY <2>2
  <2>. HIDE DEF w
  <2>. QED  BY <2>3, <1>2, StopSteps
<1>5. w[0] = 1
  BY <1>1, StopSteps
<1>6. w = f(w)
  <2>1. \A k \in 0..Len(z) : w[k] = f(w)[k]
    <3>1. TAKE k \in 0..Len(z)
    <3>2. k = 0 \/ k \in 1..Len(z)
      BY <1>1
    <3>. QED  BY <3>2, <1>4, <1>5
  <2>2. f(w) = [k \in 0..Len(z) |-> f(w)[k]] /\ w = [k \in 0..Len(z) |-> w[k]]
    OBVIOUS
  <2>. HIDE DEF f, w
  <2>. QED  BY <2>1, <2>2
<1>7. at = CHOOSE u : u = f(u)
  BY DEF T!Walk, next
<1>8. at = f(at)
  <2>. HIDE DEF f, w, at
  <2>. QED  BY <1>6, <1>7
<1>. HIDE DEF at
<1>9. at[0] = 1 /\ \A k \in 1..Len(z) :
                     at[k] = IF at[k - 1] > Len(z) THEN at[k - 1] ELSE next(at[k - 1])
  <2>1. f(at)[0] = 1 /\ \A k \in 1..Len(z) :
                     f(at)[k] = IF at[k - 1] > Len(z) THEN at[k - 1] ELSE next(at[k - 1])
    BY <1>1
  <2>. HIDE DEF f
  <2>. QED  BY <2>1, <1>8
<1>. HIDE DEF w
<1>10. Agree(at, w, Len(z))
  <2>1. at[0] = w[0] /\ \A k \in 1..Len(z) : at[k - 1] = w[k - 1] => at[k] = w[k]
    BY <1>4, <1>5, <1>9
  <2>. QED  BY <1>1, <2>1, ScanAgree DEF Parallel
<1>. QED  BY <1>3, <1>10 DEF Agree, Walks, at

\* The table of lead bytes tells the length of each character.
LEMMA WidthOfLead ==
  ASSUME NEW c \in Chars
  PROVE  T!Width(c[1]) = Len(c)
<1>. DEFINE d == CHOOSE d \in Chars : d[1] = c[1]
<1>1. d \in Chars /\ d[1] = c[1]
  OBVIOUS
<1>2. Len(d) = Len(c)
  BY <1>1, ExtensionAssumption
<1>. QED  BY <1>2 DEF T!Width

LEMMA SkipsWalk ==
  ASSUME NEW cs, NEW z, NEW off, IsText(cs, z, off)
  PROVE  Walks(T!Skips(z), cs, z, off)
<1>. DEFINE next(p) == p + T!Width(z[p])
            f(u) == [k \in 0..Len(z) |-> IF k = 0 THEN 1
                                         ELSE IF u[k - 1] > Len(z) THEN u[k - 1] ELSE next(u[k - 1])]
            w == [k \in 0..Len(z) |-> Stop(off, cs, k)]
            at == T!Skips(z)
<1>1. Len(z) \in Nat
  BY DEF IsText
<1>2. \A k \in 1..Len(cs) : next(off[k - 1] + 1) = off[k] + 1
  <2>1. TAKE k \in 1..Len(cs)
  <2>2. cs[k] \in Chars /\ Len(cs[k]) \in Nat \ {0} /\ off[k] = off[k - 1] + Len(cs[k])
    BY DEF IsText
  <2>3. off[k - 1] \in Nat
    <3>1. k - 1 \in 0..Len(cs)
      BY DEF IsText
    <3>. QED  BY <3>1 DEF IsText
  <2>4. z[off[k - 1] + 1] = cs[k][1]
    <3>1. 1 \in 1..Len(cs[k])
      BY <2>2
    <3>. QED  BY <3>1 DEF IsText, Laid
  <2>5. T!Width(z[off[k - 1] + 1]) = Len(cs[k])
    BY <2>2, <2>4, WidthOfLead
  <2>. QED  BY <2>2, <2>3, <2>5
<1>. HIDE DEF next
<1>3. \A k \in 0..Len(z) : w[k] = Stop(off, cs, k)
  OBVIOUS
<1>4. \A k \in 1..Len(z) : w[k] = IF w[k - 1] > Len(z) THEN w[k - 1] ELSE next(w[k - 1])
  <2>1. TAKE k \in 1..Len(z)
  <2>2. k \in 0..Len(z) /\ k - 1 \in 0..Len(z)
    BY <1>1
  <2>3. w[k] = Stop(off, cs, k) /\ w[k - 1] = Stop(off, cs, k - 1)
    BY <2>2
  <2>. HIDE DEF w
  <2>. QED  BY <2>3, <1>2, StopSteps
<1>5. w[0] = 1
  BY <1>1, StopSteps
<1>6. w = f(w)
  <2>1. \A k \in 0..Len(z) : w[k] = f(w)[k]
    <3>1. TAKE k \in 0..Len(z)
    <3>2. k = 0 \/ k \in 1..Len(z)
      BY <1>1
    <3>. QED  BY <3>2, <1>4, <1>5
  <2>2. f(w) = [k \in 0..Len(z) |-> f(w)[k]] /\ w = [k \in 0..Len(z) |-> w[k]]
    OBVIOUS
  <2>. HIDE DEF f, w
  <2>. QED  BY <2>1, <2>2
<1>7. at = CHOOSE u : u = f(u)
  BY DEF T!Skips, next
<1>8. at = f(at)
  <2>. HIDE DEF f, w, at
  <2>. QED  BY <1>6, <1>7
<1>. HIDE DEF at
<1>9. at[0] = 1 /\ \A k \in 1..Len(z) :
                     at[k] = IF at[k - 1] > Len(z) THEN at[k - 1] ELSE next(at[k - 1])
  <2>1. f(at)[0] = 1 /\ \A k \in 1..Len(z) :
                     f(at)[k] = IF at[k - 1] > Len(z) THEN at[k - 1] ELSE next(at[k - 1])
    BY <1>1
  <2>. HIDE DEF f
  <2>. QED  BY <2>1, <1>8
<1>. HIDE DEF w
<1>10. Agree(at, w, Len(z))
  <2>1. at[0] = w[0] /\ \A k \in 1..Len(z) : at[k - 1] = w[k - 1] => at[k] = w[k]
    BY <1>4, <1>5, <1>9
  <2>. QED  BY <1>1, <2>1, ScanAgree DEF Parallel
<1>. QED  BY <1>3, <1>10 DEF Agree, Walks, at

\* A loop over the text steps as often as the text has characters.
LEMMA StepsCount ==
  ASSUME NEW cs, NEW z, NEW off, IsText(cs, z, off), NEW at, Walks(at, cs, z, off)
  PROVE  T!Steps(z, at) = Len(cs)
<1>. DEFINE len == Len(cs)
            IsEnd(k) == at[k] > Len(z) /\ \A j \in 0..(k - 1) : at[j] <= Len(z)
<1>1. len \in Nat /\ Len(z) \in Nat /\ len \in 0..Len(z) /\ off[len] = Len(z)
  BY DEF IsText
<1>2. \A k \in 0..Len(z) : at[k] = Stop(off, cs, k)
  BY DEF Walks
<1>3. at[len] > Len(z)
  <2>1. Stop(off, cs, len) = Len(z) + 1
    BY <1>1 DEF Stop
  <2>. QED  BY <2>1, <1>1, <1>2
<1>4. ASSUME NEW j \in 0..(len - 1) PROVE at[j] <= Len(z) /\ ~ (at[j] > Len(z))
  <2>1. j \in 0..Len(z) /\ j < Len(cs) /\ j \in 0..len
    BY <1>1
  <2>2. at[j] = off[j] + 1
    BY <2>1, <1>2 DEF Stop
  <2>3. off[j] < off[len] /\ off[j] \in 0..Len(z)
    <3>1. len \in 0..Len(cs)
      BY <1>1
    <3>. QED  BY <2>1, <3>1 DEF IsText
  <2>. QED  BY <2>2, <2>3, <1>1
<1>5. IsEnd(len)
  BY <1>3, <1>4
<1>6. ASSUME NEW k \in 0..Len(z), IsEnd(k) PROVE k = len
  <2>1. ~ (k < len)
    <3>1. ASSUME k < len PROVE FALSE
      <4>1. k \in 0..(len - 1)
        BY <3>1, <1>1
      <4>. QED  BY <4>1, <1>4, <1>6
    <3>. QED  BY <3>1
  <2>2. ~ (len < k)
    <3>1. ASSUME len < k PROVE FALSE
      <4>1. len \in 0..(k - 1)
        BY <3>1, <1>1
      <4>2. at[len] <= Len(z) /\ at[len] = Len(z) + 1
        BY <4>1, <1>1, <1>2, <1>6 DEF Stop
      <4>. QED  BY <4>2, <1>1
    <3>. QED  BY <3>1
  <2>. QED  BY <2>1, <2>2, <1>1
<1>. HIDE DEF IsEnd
<1>7. len = CHOOSE k \in 0..Len(z) : IsEnd(k)
  BY <1>1, <1>5, <1>6
<1>. QED  BY <1>7 DEF IsEnd, T!Steps

LEMMA CharacterCount ==
  ASSUME NEW cs, NEW z, NEW off, IsText(cs, z, off)
  PROVE  T!CharLen(z) = Len(cs) /\ T!CharCount(z) = Len(cs)
BY WalkWalks, SkipsWalk, StepsCount DEF T!CharLen, T!CharCount

\* sqliteCharVal and sqliteNextChar give one character after the other.
LEMMA CharacterAt ==
  ASSUME NEW cs, NEW z, NEW off, IsText(cs, z, off), NEW k \in 1..Len(cs)
  PROVE  T!CharAt(z, k) = cs[k]
<1>. DEFINE p == off[k - 1] + 1
            y == SubSeq(z, p, off[k])
            c == cs[k]
<1>1. /\ Len(cs) \in Nat /\ Len(z) \in Nat /\ z \in Seq(ByteSet) /\ k - 1 \in 0..Len(cs)
      /\ off[k - 1] \in 0..Len(z) /\ off[k] \in 0..Len(z) /\ c \in Chars /\ Len(c) \in Nat \ {0}
      /\ off[k] = off[k - 1] + Len(c)
  BY DEF IsText
<1>2. k - 1 \in 0..Len(z) /\ k - 1 < Len(cs)
  <2>1. k - 1 <= off[k - 1]
    BY <1>1 DEF IsText
  <2>. QED  BY <2>1, <1>1
<1>3. T!Walk(z)[k - 1] = p
  <2>1. T!Walk(z)[k - 1] = Stop(off, cs, k - 1)
    BY <1>2, WalkWalks DEF Walks
  <2>2. Stop(off, cs, k - 1) = off[k - 1] + 1
    BY <1>2, Zenon DEF Stop
  <2>. QED  BY <2>1, <2>2
<1>4. T!NextChar(z, p) = off[k] + 1
  BY NextStart
<1>5. T!CharAt(z, k) = y
  <2>1. (off[k] + 1) - 1 = off[k]
    BY <1>1
  <2>. HIDE DEF p
  <2>2. T!CharAt(z, k) = SubSeq(z, p, T!NextChar(z, p) - 1)
    BY <1>3 DEF T!CharAt
  <2>. QED  BY <2>1, <2>2, <1>4
<1>6. \A j \in 1..Len(c) : z[off[k - 1] + j] = c[j]
  BY DEF IsText, Laid
<1>. HIDE DEF c
<1>7. c \in Seq(ByteSet)
  BY <1>1, CharacterBytes
<1>8. y = c
  <2>. DEFINE o == off[k - 1]
              e == off[k]
  <2>1. o \in 0..Len(z) /\ e \in 0..Len(z) /\ e = o + Len(c) /\ z \in Seq(ByteSet)
        /\ \A j \in 1..Len(c) : z[o + j] = c[j]
    BY <1>1, <1>6
  <2>. HIDE DEF o, e
  <2>2. SubSeq(z, o + 1, e) = c
    BY <2>1, <1>1, <1>7
  <2>. QED  BY <2>2 DEF o, e
<1>. QED  BY <1>5, <1>8 DEF c

(***************************************************************************)
(* leftstr and rightstr                                                    *)
(***************************************************************************)
LEMMA LeastOfTwo ==
  ASSUME NEW a \in Int, NEW b \in Int
  PROVE  T!Least({a, b}, 0) = IF a <= b THEN a ELSE b
<1>. DEFINE r == IF a <= b THEN a ELSE b
<1>1. r \in {a, b} /\ \A y \in {a, b} : r <= y
  OBVIOUS
<1>2. \A x \in {a, b} : (\A y \in {a, b} : x <= y) => x = r
  OBVIOUS
<1>3. (CHOOSE x \in {a, b} : \A y \in {a, b} : x <= y) = r
  <2>. HIDE DEF r
  <2>. QED  BY <1>1, <1>2
<1>. QED  BY <1>3 DEF T!Least

LEMMA AdvanceIs ==
  ASSUME NEW cs, NEW z, NEW off, IsText(cs, z, off), NEW i \in Int
  PROVE  T!Advance(z, i) = off[IF i < 0 THEN 0 ELSE IF i < Len(cs) THEN i ELSE Len(cs)] + 1
<1>. DEFINE k == IF i < 0 THEN 0 ELSE IF i <= Len(z) THEN i ELSE Len(z)
            l == IF i < 0 THEN 0 ELSE IF i < Len(cs) THEN i ELSE Len(cs)
<1>1. Len(cs) \in Nat /\ Len(z) \in Nat /\ Len(cs) <= Len(z)
  BY DEF IsText
<1>2. k \in 0..Len(z)
  BY <1>1
<1>3. T!Advance(z, i) = T!Walk(z)[k]
  <2>1. T!Least({i, Len(z)}, 0) = IF i <= Len(z) THEN i ELSE Len(z)
    BY <1>1, LeastOfTwo
  <2>. QED  BY <2>1 DEF T!Advance
<1>4. T!Walk(z)[k] = Stop(off, cs, k)
  <2>. HIDE DEF k
  <2>. QED  BY <1>2, WalkWalks DEF Walks
<1>5. (IF k < Len(cs) THEN k ELSE Len(cs)) = l
  BY <1>1
<1>6. Stop(off, cs, k) = off[l] + 1
  <2>. HIDE DEF k, l
  <2>. QED  BY <1>5 DEF Stop
<1>. QED  BY <1>3, <1>4, <1>6

LEMMA LeftIs ==
  ASSUME NEW cs \in Seq(Chars), NEW i \in Int
  PROVE  T!LeftFunc(T!Bytes(cs), i) = T!Bytes(SubSeq(cs, 1, T!Least({i, Len(cs)}, 0)))
<1>. DEFINE z == T!Bytes(cs)
            off == Layout(cs)
            k == IF i < 0 THEN 0 ELSE IF i < Len(cs) THEN i ELSE Len(cs)
<1>1. IsText(cs, z, off)
  BY TextOf
<1>2. Len(cs) \in Nat /\ k \in 0..Len(cs)
  BY <1>1 DEF IsText
<1>3. off[k] \in Nat
  BY <1>1, <1>2 DEF IsText
<1>4. T!LeftFunc(z, i) = SubSeq(z, 1, off[k])
  <2>1. T!Advance(z, i) = off[k] + 1
    BY <1>1, AdvanceIs
  <2>2. (off[k] + 1) - 1 = off[k]
    BY <1>3
  <2>. HIDE DEF z, off, k
  <2>. QED  BY <2>1, <2>2 DEF T!LeftFunc
<1>5. SubSeq(z, 1, off[k]) = T!Bytes(SubSeq(cs, 1, k))
  <2>. HIDE DEF k
  <2>. QED  BY <1>2, CharacterSeq, Cuts DEF T!Bytes
<1>6. SubSeq(cs, 1, k) = SubSeq(cs, 1, T!Least({i, Len(cs)}, 0))
  <2>1. T!Least({i, Len(cs)}, 0) = IF i <= Len(cs) THEN i ELSE Len(cs)
    BY <1>2, LeastOfTwo
  <2>2. CASE i < 0
    <3>1. SubSeq(cs, 1, 0) = << >> /\ SubSeq(cs, 1, i) = << >>
      BY <2>2, SubSeqEmpty
    <3>2. k = 0 /\ T!Least({i, Len(cs)}, 0) = i
      BY <2>1, <2>2, <1>2
    <3>. QED  BY <3>1, <3>2
  <2>3. CASE ~ (i < 0)
    <3>1. k = T!Least({i, Len(cs)}, 0)
      BY <2>1, <2>3, <1>2
    <3>. QED  BY <3>1
  <2>. QED  BY <2>2, <2>3
<1>. QED  BY <1>4, <1>5, <1>6

LEMMA RightIs ==
  ASSUME NEW cs \in Seq(Chars), NEW i \in Nat
  PROVE  T!RightFunc(T!Bytes(cs), i)
           = T!Bytes(SubSeq(cs, 1 + Len(cs) - T!Least({i, Len(cs)}, 0), Len(cs)))
<1>. DEFINE z == T!Bytes(cs)
            off == Layout(cs)
            len == Len(cs)
            k == IF i <= len THEN len - i ELSE 0
<1>1. IsText(cs, z, off)
  BY TextOf
<1>2. len \in Nat /\ k \in 0..len
  BY <1>1 DEF IsText
<1>3. T!RightFunc(z, i) = SubSeq(z, off[k] + 1, Len(z))
  <2>1. T!CharCount(z) = len
    BY <1>1, CharacterCount
  <2>2. T!Advance(z, len - i) = off[k] + 1
    <3>. DEFINE l == IF len - i < 0 THEN 0 ELSE IF len - i < len THEN len - i ELSE len
    <3>1. T!Advance(z, len - i) = off[l] + 1
      BY <1>1, <1>2, AdvanceIs
    <3>2. l = k
      BY <1>2
    <3>. HIDE DEF l, k
    <3>. QED  BY <3>1, <3>2
  <2>. HIDE DEF z, off, k, len
  <2>. QED  BY <2>1, <2>2 DEF T!RightFunc
<1>4. SubSeq(z, off[k] + 1, Len(z)) = T!Bytes(SubSeq(cs, k + 1, len))
  <2>. HIDE DEF k
  <2>. QED  BY <1>2, CharacterSeq, Cuts DEF T!Bytes
<1>5. k + 1 = 1 + len - T!Least({i, len}, 0)
  <2>1. T!Least({i, len}, 0) = IF i <= len THEN i ELSE len
    BY <1>2, LeastOfTwo
  <2>. QED  BY <2>1, <1>2
<1>. QED  BY <1>3, <1>4, <1>5

(***************************************************************************)
(* reverse                                                                 *)
(***************************************************************************)
Back(cs, k) == [i \in 1..k |-> cs[k - i + 1]]

LEMMA BackNext ==
  ASSUME NEW cs \in Seq(Chars), NEW k \in 1..Len(cs)
  PROVE  T!Bytes(Back(cs, k)) = cs[k] \o T!Bytes(Back(cs, k - 1))
<1>. DEFINE S == Seq(ByteSet)
            a == Back(cs, k)
            b == Back(cs, k - 1)
            c == cs[k]
<1>1. cs \in Seq(S) /\ c \in S
  BY CharacterSeq
<1>2. \A i \in 1..Len(cs) : cs[i] \in S
  BY <1>1
<1>. HIDE DEF S
<1>3. a \in Seq(S) /\ Len(a) = k /\ \A i \in 1..k : a[i] = cs[k - i + 1]
  <2>1. \A i \in 1..k : cs[k - i + 1] \in S
    BY <1>2
  <2>. QED  BY <2>1 DEF Back
<1>4. b \in Seq(S) /\ Len(b) = k - 1 /\ \A i \in 1..(k - 1) : b[i] = cs[(k - 1) - i + 1]
  <2>1. \A i \in 1..(k - 1) : cs[(k - 1) - i + 1] \in S
    BY <1>2
  <2>2. k - 1 \in Nat
    OBVIOUS
  <2>. QED  BY <2>1, <2>2 DEF Back
<1>. HIDE DEF a, b, c
<1>5. <<c>> \in Seq(S) /\ Len(<<c>>) = 1 /\ <<c>>[1] = c
  BY <1>1
<1>6. a = <<c>> \o b
  <2>1. <<c>> \o b \in Seq(S) /\ Len(<<c>> \o b) = k
        /\ \A i \in 1..k : (<<c>> \o b)[i] = IF i <= 1 THEN <<c>>[i] ELSE b[i - 1]
    BY <1>4, <1>5
  <2>2. ASSUME NEW i \in 1..k PROVE a[i] = (<<c>> \o b)[i]
    <3>1. CASE i = 1
      <4>1. k - i + 1 = k
        BY <3>1
      <4>. QED  BY <4>1, <3>1, <2>1, <1>3, <1>5 DEF c
    <3>2. CASE i # 1
      <4>1. i - 1 \in 1..(k - 1) /\ (k - 1) - (i - 1) + 1 = k - i + 1 /\ ~ (i <= 1)
        BY <3>2
      <4>2. b[i - 1] = cs[k - i + 1]
        BY <4>1, <1>4
      <4>. QED  BY <4>1, <4>2, <2>1, <1>3
    <3>. QED  BY <3>1, <3>2
  <2>. QED  BY <2>1, <2>2, <1>3, SeqEqual
<1>7. T!FlattenSeq(<<c>> \o b) = T!FlattenSeq(<<c>>) \o T!FlattenSeq(b)
  BY <1>4, <1>5, FlatConcat DEF S
<1>8. T!FlattenSeq(<<c>>) = c
  BY <1>1, FlatSingle DEF S
<1>. QED  BY <1>6, <1>7, <1>8 DEF T!Bytes, a, b, c

LEMMA ReverseIs ==
  ASSUME NEW cs \in Seq(Chars)
  PROVE  T!ReverseFunc(T!Bytes(cs)) = T!Bytes(T!Reverse(cs))
<1>. DEFINE z == T!Bytes(cs)
            len == Len(cs)
            at(k) == T!CharAt(z, k)
            f(u) == [k \in 0..len |-> IF k = 0 THEN << >> ELSE at(k) \o u[k - 1]]
            w == [k \in 0..len |-> T!Bytes(Back(cs, k))]
            r == CHOOSE u : u = f(u)
<1>1. IsText(cs, z, Layout(cs))
  BY TextOf
<1>2. len \in Nat /\ T!CharCount(z) = len /\ \A k \in 1..len : at(k) = cs[k]
  <2>. HIDE DEF z
  <2>1. len \in Nat
    OBVIOUS
  <2>2. T!CharCount(z) = len
    BY <1>1, CharacterCount
  <2>3. \A k \in 1..len : at(k) = cs[k]
    BY <1>1, CharacterAt
  <2>. QED  BY <2>1, <2>2, <2>3
<1>. HIDE DEF at, z
<1>3. w[0] = << >>
  <2>1. Back(cs, 0) = << >>
    BY DEF Back
  <2>2. T!Bytes(<< >>) = << >>
    BY FlatSingle DEF T!Bytes
  <2>3. 0 \in 0..len
    BY <1>2
  <2>. QED  BY <2>1, <2>2, <2>3
<1>4. \A k \in 1..len : w[k] = at(k) \o w[k - 1]
  <2>1. TAKE k \in 1..len
  <2>2. k \in 0..len /\ k - 1 \in 0..len
    BY <1>2
  <2>3. w[k] = T!Bytes(Back(cs, k)) /\ w[k - 1] = T!Bytes(Back(cs, k - 1))
    BY <2>2
  <2>4. T!Bytes(Back(cs, k)) = cs[k] \o T!Bytes(Back(cs, k - 1))
    BY BackNext
  <2>. HIDE DEF w
  <2>. QED  BY <2>3, <2>4, <1>2
<1>5. w = f(w)
  <2>1. \A k \in 0..len : w[k] = f(w)[k]
    <3>1. TAKE k \in 0..len
    <3>2. k = 0 \/ k \in 1..len
      BY <1>2
    <3>3. f(w)[k] = IF k = 0 THEN << >> ELSE at(k) \o w[k - 1]
      OBVIOUS
    <3>. HIDE DEF f, w
    <3>. QED  BY <3>2, <3>3, <1>3, <1>4
  <2>2. f(w) = [k \in 0..len |-> f(w)[k]] /\ w = [k \in 0..len |-> w[k]]
    OBVIOUS
  <2>. HIDE DEF f, w
  <2>. QED  BY <2>1, <2>2
<1>6. T!ReverseFunc(z) = r[len]
  BY <1>2 DEF T!ReverseFunc, at
<1>7. r = f(r)
  <2>. HIDE DEF f, w
  <2>. QED  BY <1>5
<1>. HIDE DEF r
<1>8. r[0] = << >> /\ \A k \in 1..len : r[k] = at(k) \o r[k - 1]
  <2>1. f(r)[0] = << >> /\ \A k \in 1..len : f(r)[k] = at(k) \o r[k - 1]
    BY <1>2
  <2>. HIDE DEF f
  <2>. QED  BY <2>1, <1>7
<1>9. r[len] = w[len]
  <2>. HIDE DEF w
  <2>1. r[0] = w[0] /\ \A k \in 1..len : r[k - 1] = w[k - 1] => r[k] = w[k]
    BY <1>3, <1>4, <1>8
  <2>2. len \in Nat /\ len \in 0..len
    BY <1>2
  <2>. HIDE DEF len
  <2>3. Agree(r, w, len)
    BY <2>1, <2>2, ScanAgree DEF Parallel
  <2>. QED  BY <2>2, <2>3 DEF Agree
<1>10. w[len] = T!Bytes(Back(cs, len))
  BY <1>2
<1>11. T!Reverse(cs) = Back(cs, len)
  BY DEF T!Reverse, Back
<1>. QED  BY <1>6, <1>9, <1>10, <1>11 DEF z

(***************************************************************************)
(* strfilter                                                               *)
(***************************************************************************)
LEMMA BytesAppend ==
  ASSUME NEW cs \in Seq(Chars), NEW c \in Chars
  PROVE  Append(cs, c) \in Seq(Chars) /\ T!Bytes(Append(cs, c)) = T!Bytes(cs) \o c
<1>. DEFINE S == Seq(ByteSet)
<1>1. c \in S /\ cs \in Seq(S)
  BY CharacterBytes, CharacterSeq
<1>. HIDE DEF S
<1>2. <<c>> \in Seq(S) /\ Append(cs, c) = cs \o <<c>>
  BY <1>1, AppendIsConcat
<1>3. T!FlattenSeq(cs \o <<c>>) = T!FlattenSeq(cs) \o T!FlattenSeq(<<c>>)
  BY <1>1, <1>2, FlatConcat DEF S
<1>4. T!FlattenSeq(<<c>>) = c
  BY <1>1, FlatSingle DEF S
<1>. QED  BY <1>2, <1>3, <1>4 DEF T!Bytes

\* g holds the selected characters of each prefix of cs.
IsSelection(g, cs, S) ==
  /\ g \in [0..Len(cs) -> Seq(Chars)]
  /\ g[0] = << >>
  /\ \A k \in 1..Len(cs) : g[k] = IF cs[k] \in S THEN Append(g[k - 1], cs[k]) ELSE g[k - 1]
  /\ T!Selected(cs, S) = g[Len(cs)]

LEMMA SelectionExists ==
  ASSUME NEW cs \in Seq(Chars), NEW S
  PROVE  \E g : IsSelection(g, cs, S)
<1>. DEFINE len == Len(cs)
            D == Seq(Chars)
            step == [kg \in (1..len) \X D |->
                       IF cs[kg[1]] \in S THEN Append(kg[2], cs[kg[1]]) ELSE kg[2]]
            f(u) == [k \in 0..len |-> IF k = 0 THEN << >>
                                      ELSE IF cs[k] \in S THEN Append(u[k - 1], cs[k]) ELSE u[k - 1]]
            u == CHOOSE u : u = f(u)
<1>1. len \in Nat /\ << >> \in D
  BY EmptySeq
<1>2. step \in [(1..len) \X D -> D]
  <2>1. \A k \in 1..len : cs[k] \in Chars
    OBVIOUS
  <2>2. \A d \in D, c \in Chars : Append(d, c) \in D
    OBVIOUS
  <2>. HIDE DEF D, len
  <2>. QED  BY <2>1, <2>2
<1>3. PICK g : IsScan(g, len, D, << >>, step)
  <2>. HIDE DEF D, len, step
  <2>. QED  BY <1>1, <1>2, ScanExists, Zenon
<1>4. g \in [0..len -> D] /\ g[0] = << >> /\ \A k \in 1..len : g[k] = step[<<k, g[k - 1]>>]
  BY <1>3 DEF IsScan
<1>. HIDE DEF D
<1>5. \A k \in 1..len : g[k] = IF cs[k] \in S THEN Append(g[k - 1], cs[k]) ELSE g[k - 1]
  <2>1. TAKE k \in 1..len
  <2>2. k - 1 \in 0..len
    BY <1>1
  <2>3. <<k, g[k - 1]>> \in (1..len) \X D
    BY <2>2, <1>4
  <2>4. step[<<k, g[k - 1]>>] = IF cs[k] \in S THEN Append(g[k - 1], cs[k]) ELSE g[k - 1]
    BY <2>3
  <2>. QED  BY <2>4, <1>4
<1>. HIDE DEF step
<1>6. g = f(g)
  <2>1. \A k \in 0..len : g[k] = f(g)[k]
    <3>1. TAKE k \in 0..len
    <3>2. k = 0 \/ k \in 1..len
      BY <1>1
    <3>3. f(g)[k] = IF k = 0 THEN << >>
                    ELSE IF cs[k] \in S THEN Append(g[k - 1], cs[k]) ELSE g[k - 1]
      OBVIOUS
    <3>. HIDE DEF f
    <3>. QED  BY <3>2, <3>3, <1>4, <1>5
  <2>2. f(g) = [k \in 0..len |-> f(g)[k]] /\ g = [k \in 0..len |-> g[k]]
    BY <1>4
  <2>. HIDE DEF f
  <2>. QED  BY <2>1, <2>2
<1>7. T!Selected(cs, S) = u[len]
  BY DEF T!Selected
<1>8. u = f(u)
  <2>. HIDE DEF f
  <2>. QED  BY <1>6
<1>. HIDE DEF u
<1>9. u[0] = << >> /\ \A k \in 1..len : u[k] = IF cs[k] \in S THEN Append(u[k - 1], cs[k])
                                              ELSE u[k - 1]
  <2>1. f(u)[0] = << >> /\ \A k \in 1..len : f(u)[k] = IF cs[k] \in S THEN Append(u[k - 1], cs[k])
                                                       ELSE u[k - 1]
    BY <1>1
  <2>. HIDE DEF f
  <2>. QED  BY <2>1, <1>8
<1>10. u[len] = g[len]
  <2>1. u[0] = g[0] /\ \A k \in 1..len : u[k - 1] = g[k - 1] => u[k] = g[k]
    BY <1>4, <1>5, <1>9
  <2>2. len \in 0..len
    BY <1>1
  <2>. HIDE DEF len
  <2>3. Agree(u, g, len)
    BY <2>1, <1>1, ScanAgree DEF Parallel
  <2>. QED  BY <2>2, <2>3 DEF Agree
<1>11. IsSelection(g, cs, S)
  BY <1>4, <1>5, <1>7, <1>10 DEF IsSelection, D
<1>. QED  BY <1>11

LEMMA FilterIs ==
  ASSUME NEW cs \in Seq(Chars), NEW ds \in Seq(Chars)
  PROVE  T!StrFilter(T!Bytes(cs), T!Bytes(ds)) = T!Bytes(T!Selected(cs, Range(ds)))
<1>. DEFINE z == T!Bytes(cs)
            y == T!Bytes(ds)
            len == Len(cs)
            at(k) == T!CharAt(z, k)
            found(c) == \E k \in 1..T!CharCount(y) : T!CharAt(y, k) = c
            f(u) == [k \in 0..len |-> IF k = 0 THEN << >>
                                      ELSE IF found(at(k)) THEN u[k - 1] \o at(k) ELSE u[k - 1]]
            r == CHOOSE u : u = f(u)
<1>1. IsText(cs, z, Layout(cs)) /\ IsText(ds, y, Layout(ds))
  BY TextOf
<1>2. len \in Nat /\ T!CharCount(z) = len /\ \A k \in 1..len : at(k) = cs[k] /\ cs[k] \in Chars
  <2>. HIDE DEF z
  <2>1. len \in Nat /\ \A k \in 1..len : cs[k] \in Chars
    OBVIOUS
  <2>2. T!CharCount(z) = len
    BY <1>1, CharacterCount
  <2>3. \A k \in 1..len : at(k) = cs[k]
    BY <1>1, CharacterAt
  <2>. QED  BY <2>1, <2>2, <2>3
<1>3. ASSUME NEW c PROVE found(c) <=> c \in Range(ds)
  <2>1. T!CharCount(y) = Len(ds) /\ \A k \in 1..Len(ds) : T!CharAt(y, k) = ds[k]
    BY <1>1, CharacterCount, CharacterAt
  <2>2. DOMAIN ds = 1..Len(ds)
    OBVIOUS
  <2>. QED  BY <2>1, <2>2 DEF Range
<1>4. PICK g : IsSelection(g, cs, Range(ds))
  BY SelectionExists
<1>5. T!StrFilter(z, y) = r[len]
  BY <1>2 DEF T!StrFilter, at, found
<1>. HIDE DEF at, z, found, y
<1>. DEFINE w == [k \in 0..len |-> T!Bytes(g[k])]
<1>6. /\ g \in [0..len -> Seq(Chars)] /\ g[0] = << >> /\ T!Selected(cs, Range(ds)) = g[len]
      /\ \A k \in 1..len : g[k] = IF cs[k] \in Range(ds) THEN Append(g[k - 1], cs[k]) ELSE g[k - 1]
  BY <1>4 DEF IsSelection
<1>7. w[0] = << >>
  <2>1. T!Bytes(<< >>) = << >>
    BY FlatSingle DEF T!Bytes
  <2>2. 0 \in 0..len
    BY <1>2
  <2>. QED  BY <2>1, <2>2, <1>6
<1>8. \A k \in 1..len : w[k] = IF found(at(k)) THEN w[k - 1] \o at(k) ELSE w[k - 1]
  <2>1. TAKE k \in 1..len
  <2>2. k \in 0..len /\ k - 1 \in 0..len
    BY <1>2
  <2>3. w[k] = T!Bytes(g[k]) /\ w[k - 1] = T!Bytes(g[k - 1]) /\ g[k - 1] \in Seq(Chars)
    BY <2>2, <1>6
  <2>4. T!Bytes(Append(g[k - 1], cs[k])) = T!Bytes(g[k - 1]) \o cs[k]
    BY <2>3, <1>2, BytesAppend
  <2>5. at(k) = cs[k] /\ (found(at(k)) <=> cs[k] \in Range(ds))
    BY <1>2, <1>3
  <2>6. g[k] = IF cs[k] \in Range(ds) THEN Append(g[k - 1], cs[k]) ELSE g[k - 1]
    BY <1>6
  <2>. HIDE DEF w
  <2>7. CASE cs[k] \in Range(ds)
    BY <2>7, <2>3, <2>4, <2>5, <2>6
  <2>8. CASE cs[k] \notin Range(ds)
    BY <2>8, <2>3, <2>5, <2>6
  <2>. QED  BY <2>7, <2>8
<1>9. w = f(w)
  <2>1. \A k \in 0..len : w[k] = f(w)[k]
    <3>1. TAKE k \in 0..len
    <3>2. k = 0 \/ k \in 1..len
      BY <1>2
    <3>3. f(w)[k] = IF k = 0 THEN << >>
                    ELSE IF found(at(k)) THEN w[k - 1] \o at(k) ELSE w[k - 1]
      OBVIOUS
    <3>. HIDE DEF f, w
    <3>. QED  BY <3>2, <3>3, <1>7, <1>8
  <2>2. f(w) = [k \in 0..len |-> f(w)[k]] /\ w = [k \in 0..len |-> w[k]]
    OBVIOUS
  <2>. HIDE DEF f, w
  <2>. QED  BY <2>1, <2>2
<1>10. r = f(r)
  <2>. HIDE DEF f, w
  <2>. QED  BY <1>9
<1>. HIDE DEF r
<1>11. r[0] = << >> /\ \A k \in 1..len : r[k] = IF found(at(k)) THEN r[k - 1] \o at(k) ELSE r[k - 1]
  <2>1. f(r)[0] = << >> /\ \A k \in 1..len : f(r)[k] = IF found(at(k)) THEN r[k - 1] \o at(k)
                                                       ELSE r[k - 1]
    BY <1>2
  <2>. HIDE DEF f
  <2>. QED  BY <2>1, <1>10
<1>12. r[len] = w[len]
  <2>. HIDE DEF w
  <2>1. r[0] = w[0] /\ \A k \in 1..len : r[k - 1] = w[k - 1] => r[k] = w[k]
    BY <1>7, <1>8, <1>11
  <2>2. len \in Nat /\ len \in 0..len
    BY <1>2
  <2>. HIDE DEF len
  <2>3. Agree(r, w, len)
    BY <2>1, <2>2, ScanAgree DEF Parallel
  <2>. QED  BY <2>2, <2>3 DEF Agree
<1>13. w[len] = T!Bytes(T!Selected(cs, Range(ds)))
  BY <1>2, <1>6
<1>. QED  BY <1>5, <1>12, <1>13 DEF z, y

(***************************************************************************)
(* charindex                                                               *)
(***************************************************************************)
\* The inner loop of _substr finds ds in cs at the characters from k on.
LEMMA OccursIs ==
  ASSUME NEW cs \in Seq(Chars), NEW ds \in Seq(Chars), NEW k \in 1..Len(cs)
  PROVE  T!Occurs(T!Bytes(ds), T!Bytes(cs), k - 1) <=> T!IsPrefix(ds, SubSeq(cs, k, Len(cs)))
<1>. DEFINE z == T!Bytes(cs)
            y == T!Bytes(ds)
            rest == SubSeq(cs, k, Len(cs))
<1>1. IsText(cs, z, Layout(cs)) /\ IsText(ds, y, Layout(ds))
  BY TextOf
<1>2. /\ Len(cs) \in Nat /\ T!CharCount(z) = Len(cs) /\ \A j \in 1..Len(cs) : T!CharAt(z, j) = cs[j]
      /\ Len(ds) \in Nat /\ T!CharCount(y) = Len(ds) /\ \A j \in 1..Len(ds) : T!CharAt(y, j) = ds[j]
  <2>. HIDE DEF z, y
  <2>1. Len(cs) \in Nat /\ Len(ds) \in Nat
    BY <1>1 DEF IsText
  <2>2. T!CharCount(z) = Len(cs) /\ T!CharCount(y) = Len(ds)
    BY <1>1, CharacterCount
  <2>3. \A j \in 1..Len(cs) : T!CharAt(z, j) = cs[j]
    BY <1>1, CharacterAt
  <2>4. \A j \in 1..Len(ds) : T!CharAt(y, j) = ds[j]
    BY <1>1, CharacterAt
  <2>. QED  BY <2>1, <2>2, <2>3, <2>4
<1>3. /\ rest \in Seq(Chars) /\ Len(rest) = Len(cs) - k + 1
      /\ \A j \in 1..Len(rest) : rest[j] = cs[k - 1 + j]
  <2>1. \A j \in k..Len(cs) : cs[j] \in Chars
    BY <1>2
  <2>2. rest \in Seq(Chars) /\ Len(rest) = Len(cs) - k + 1
        /\ \A j \in 1..(Len(cs) - k + 1) : rest[j] = cs[k + j - 1]
    BY <2>1, <1>2, SubSeqProperties
  <2>3. ASSUME NEW j \in 1..Len(rest) PROVE rest[j] = cs[k - 1 + j]
    <3>1. j \in 1..(Len(cs) - k + 1) /\ k + j - 1 = k - 1 + j
      BY <2>2, <1>2
    <3>. QED  BY <3>1, <2>2
  <2>. QED  BY <2>2, <2>3
<1>. HIDE DEF z, y, rest
<1>4. T!Occurs(y, z, k - 1) <=> \A j \in 1..Len(ds) : j <= Len(rest) /\ ds[j] = rest[j]
  <2>1. ASSUME NEW j \in 1..Len(ds)
        PROVE  (k - 1 + j <= T!CharCount(z) /\ T!CharAt(y, j) = T!CharAt(z, k - 1 + j))
                 <=> (j <= Len(rest) /\ ds[j] = rest[j])
    <3>1. k - 1 + j <= Len(cs) <=> j <= Len(rest)
      BY <1>2, <1>3
    <3>2. CASE j <= Len(rest)
      <4>1. j \in 1..Len(rest) /\ k - 1 + j \in 1..Len(cs)
        BY <3>2, <1>2, <1>3
      <4>. QED  BY <3>1, <3>2, <4>1, <1>2, <1>3
    <3>3. CASE ~ (j <= Len(rest))
      BY <3>1, <3>3, <1>2
    <3>. QED  BY <3>2, <3>3
  <2>. QED  BY <2>1, <1>2 DEF T!Occurs
<1>5. (\A j \in 1..Len(ds) : j <= Len(rest) /\ ds[j] = rest[j]) <=> T!IsPrefix(ds, rest)
  <2>1. SubSeq(ds, 1, Len(ds)) = ds
    BY SubSeqFull
  <2>2. ASSUME \A j \in 1..Len(ds) : j <= Len(rest) /\ ds[j] = rest[j]
        PROVE  T!IsPrefix(ds, rest)
    <3>1. Len(ds) <= Len(rest)
      <4>1. Len(ds) = 0 \/ Len(ds) \in 1..Len(ds)
        BY <1>2
      <4>2. Len(rest) \in Nat
        BY <1>3
      <4>. QED  BY <4>1, <4>2, <2>2
    <3>2. SubSeq(rest, 1, Len(ds)) = ds
      <4>0. Len(rest) \in Nat
        BY <1>3
      <4>1. \A j \in 1..Len(ds) : rest[j] \in Chars
        BY <4>0, <3>1, <1>2, <1>3
      <4>2. SubSeq(rest, 1, Len(ds)) \in Seq(Chars) /\ Len(SubSeq(rest, 1, Len(ds))) = Len(ds)
            /\ \A j \in 1..Len(ds) : SubSeq(rest, 1, Len(ds))[j] = rest[j]
        BY <4>1, <3>1, <1>2, <1>3
      <4>. QED  BY <4>2, <2>2, SeqEqual
    <3>. QED  BY <3>1, <3>2, <2>1 DEF T!IsPrefix
  <2>3. ASSUME T!IsPrefix(ds, rest), NEW j \in 1..Len(ds)
        PROVE  j <= Len(rest) /\ ds[j] = rest[j]
    <3>1. Len(ds) <= Len(rest) /\ ds = SubSeq(rest, 1, Len(ds)) /\ Len(rest) \in Nat
      BY <2>1, <2>3, <1>3 DEF T!IsPrefix
    <3>2. SubSeq(rest, 1, Len(ds))[j] = rest[j]
      BY <3>1, <1>2, <1>3
    <3>. QED  BY <3>1, <3>2, <1>2
  <2>. QED  BY <2>2, <2>3
<1>. QED  BY <1>4, <1>5 DEF z, y, rest

\* The least of the numbers of a set is the same distance from that of the set moved.
LEMMA LeastMoved ==
  ASSUME NEW A \in SUBSET Nat, NEW d \in Nat, A # {},
         NEW K \in SUBSET Int, \A k \in Int : k \in K <=> k - d \in A
  PROVE  K # {} /\ T!Least(K, 0) = T!Least(A, 0) + d
<1>1. PICK a \in A : \A x \in A : a <= x
  BY LeastNumber
<1>2. a \in Nat
  BY <1>1
<1>3. T!Least(A, 0) = a
  <2>1. \A x \in A : (\A y \in A : x <= y) => x = a
    BY <1>1, <1>2
  <2>2. (CHOOSE x \in A : \A y \in A : x <= y) = a
    BY <2>1, <1>1
  <2>. QED  BY <2>2 DEF T!Least
<1>4. a + d \in K
  <2>1. a + d \in Int /\ (a + d) - d = a
    BY <1>2
  <2>. QED  BY <2>1, <1>1
<1>5. \A y \in K : a + d <= y
  <2>1. TAKE y \in K
  <2>2. y \in Int /\ y - d \in A
    OBVIOUS
  <2>3. a <= y - d
    BY <1>1, <2>2
  <2>. QED  BY <2>2, <2>3, <1>2
<1>6. \A x \in K : (\A y \in K : x <= y) => x = a + d
  BY <1>2, <1>4, <1>5
<1>7. (CHOOSE x \in K : \A y \in K : x <= y) = a + d
  BY <1>4, <1>5, <1>6
<1>. QED  BY <1>3, <1>4, <1>7 DEF T!Least

LEMMA IndexIs ==
  ASSUME NEW cs \in Seq(Chars), NEW ds \in Seq(Chars), NEW i \in Int
  PROVE  T!CharIndex(T!Bytes(ds), T!Bytes(cs), i)
           = T!Least({k \in 1..Len(cs) : /\ ds # << >>
                                         /\ k >= i
                                         /\ T!IsPrefix(ds, SubSeq(cs, k, Len(cs)))}, 0)
<1>. DEFINE z == T!Bytes(cs)
            y == T!Bytes(ds)
            len == Len(cs)
            s == IF i - 1 < 0 THEN 0 ELSE i - 1
            matches == {c \in 0..(len - s - 1) : T!Occurs(y, z, s + c)}
            K == {k \in 1..len : /\ ds # << >>
                                 /\ k >= i
                                 /\ T!IsPrefix(ds, SubSeq(cs, k, len))}
<1>1. IsText(cs, z, Layout(cs)) /\ IsText(ds, y, Layout(ds))
  BY TextOf
<1>2. len \in Nat /\ T!CharCount(z) = len /\ Len(ds) \in Nat /\ y \in Seq(ByteSet) /\ s \in Nat
  <2>. HIDE DEF z, y
  <2>1. len \in Nat /\ Len(ds) \in Nat /\ s \in Nat
    OBVIOUS
  <2>2. T!CharCount(z) = len
    BY <1>1, CharacterCount
  <2>3. y \in Seq(ByteSet)
    BY <1>1 DEF IsText
  <2>. QED  BY <2>1, <2>2, <2>3
<1>3. y = << >> <=> ds = << >>
  <2>1. Layout(ds)[0] = 0 /\ Layout(ds)[Len(ds)] = Len(y) /\ Len(ds) <= Layout(ds)[Len(ds)]
    BY <1>1 DEF IsText
  <2>2. Len(ds) = 0 <=> Len(y) = 0
    <3>1. Len(ds) <= Len(y) /\ Len(y) \in Nat
      BY <2>1, <1>2
    <3>. QED  BY <3>1, <2>1, <1>2
  <2>. QED  BY <2>2, <1>2, EmptySeq
<1>4. T!CharIndex(y, z, i)
        = IF y = << >> \/ matches = {} THEN 0 ELSE T!Index(s, T!Least(matches, 0)) + 1
  BY <1>2, Zenon DEF T!CharIndex
<1>5. \A k \in 1..len : T!Occurs(y, z, k - 1) <=> T!IsPrefix(ds, SubSeq(cs, k, len))
  BY OccursIs
<1>. HIDE DEF z, y
<1>6. CASE ds = << >>
  <2>1. K = {}
    BY <1>6
  <2>. QED  BY <2>1, <1>3, <1>4, <1>6 DEF T!Least, z, y
<1>7. CASE ds # << >>
  <2>1. ASSUME NEW k \in Int PROVE k \in K <=> k - (s + 1) \in matches
    <3>1. k \in 1..len /\ k >= i <=> k - (s + 1) \in 0..(len - s - 1)
      BY <1>2
    <3>2. k - 1 = s + (k - (s + 1))
      BY <1>2
    <3>. QED  BY <3>1, <3>2, <1>5, <1>7
  <2>2. matches \in SUBSET Nat /\ K \in SUBSET Int /\ s + 1 \in Nat
    BY <1>2
  <2>. HIDE DEF matches, K
  <2>3. CASE matches = {}
    <3>1. K = {}
      BY <2>1, <2>2, <2>3
    <3>. QED  BY <3>1, <2>3, <1>4 DEF T!Least, z, y, K
  <2>4. CASE matches # {}
    <3>1. T!Least(K, 0) = T!Least(matches, 0) + (s + 1)
      BY <2>1, <2>2, <2>4, LeastMoved
    <3>2. T!Least(matches, 0) \in Nat
      <4>1. PICK a \in matches : \A x \in matches : a <= x
        BY <2>2, <2>4, LeastNumber
      <4>2. (CHOOSE x \in matches : \A w \in matches : x <= w) \in matches
        BY <4>1
      <4>. QED  BY <4>2, <2>2, <2>4 DEF T!Least
    <3>3. T!CharIndex(y, z, i) = (T!Least(matches, 0) + s) + 1
      BY <1>3, <1>4, <1>7, <2>4 DEF T!Index
    <3>4. T!CharIndex(y, z, i) = T!Least(K, 0)
      BY <3>1, <3>2, <3>3, <1>2
    <3>. QED  BY <3>4 DEF z, y, K
  <2>. QED  BY <2>3, <2>4
<1>. QED  BY <1>6, <1>7

(***************************************************************************)
(* padl, padr, padc                                                        *)
(***************************************************************************)
Spaces(k) == [j \in 1..k |-> <<Blank>>]

LEMMA BytesOfSpaces ==
  ASSUME NEW k \in Nat
  PROVE  Spaces(k) \in Seq(Chars) /\ Len(Spaces(k)) = k /\ T!Bytes(Spaces(k)) = T!Blanks(k)
<1>. DEFINE cs == Spaces(k)
            z == T!Blanks(k)
            off == [j \in 0..k |-> j]
<1>1. <<Blank>> \in Chars
  BY ExtensionAssumption
<1>2. <<Blank>> \in Seq(ByteSet)
  BY <1>1, CharacterBytes
<1>3. Blank \in ByteSet
  BY <1>2
<1>4. cs \in Seq(Chars) /\ Len(cs) = k /\ \A j \in 1..k : cs[j] = <<Blank>>
  BY <1>1 DEF Spaces
<1>5. z \in Seq(ByteSet) /\ Len(z) = k /\ \A j \in 1..k : z[j] = Blank
  BY <1>3 DEF T!Blanks
<1>. HIDE DEF cs, z
<1>6. Laid(off, cs, z)
  <2>1. off \in [0..Len(cs) -> 0..Len(z)] /\ off[0] = 0 /\ off[Len(cs)] = Len(z)
    BY <1>4, <1>5
  <2>2. \A j \in 1..Len(cs) : off[j] = off[j - 1] + Len(cs[j])
    <3>1. TAKE j \in 1..Len(cs)
    <3>2. j \in 0..k /\ j - 1 \in 0..k /\ cs[j] = <<Blank>>
      BY <1>4
    <3>3. off[j] = j /\ off[j - 1] = j - 1 /\ Len(<<Blank>>) = 1
      BY <3>2
    <3>. QED  BY <3>2, <3>3
  <2>3. \A j \in 1..Len(cs) : \A l \in 1..Len(cs[j]) : z[off[j - 1] + l] = cs[j][l]
    <3>1. TAKE j \in 1..Len(cs)
    <3>2. cs[j] = <<Blank>> /\ z[j] = Blank /\ off[j - 1] = j - 1
      BY <1>4, <1>5
    <3>. QED  BY <3>2
  <2>. QED  BY <2>1, <2>2, <2>3 DEF Laid
<1>7. z = T!FlattenSeq(cs)
  <2>1. cs \in Seq(Seq(ByteSet))
    BY <1>4, CharacterSeq
  <2>. HIDE DEF off
  <2>. QED  BY <2>1, <1>5, <1>6, LaidIsFlat
<1>. QED  BY <1>4, <1>7 DEF cs, z, T!Bytes

LEMMA BytesConcat ==
  ASSUME NEW cs \in Seq(Chars), NEW ds \in Seq(Chars)
  PROVE  cs \o ds \in Seq(Chars) /\ T!Bytes(cs \o ds) = T!Bytes(cs) \o T!Bytes(ds)
<1>1. cs \in Seq(Seq(ByteSet)) /\ ds \in Seq(Seq(ByteSet))
  BY CharacterSeq
<1>2. T!FlattenSeq(cs \o ds) = T!FlattenSeq(cs) \o T!FlattenSeq(ds)
  BY <1>1, FlatConcat
<1>. QED  BY <1>2 DEF T!Bytes

\* padl, padr and padc give a text of i characters with blanks around cs.
IsPadded(fn, cs, i, y) ==
  IF i <= Len(cs) THEN y = T!Bytes(cs)
  ELSE \E l, r \in 0..i :
         /\ y = T!Bytes(Spaces(l) \o cs \o Spaces(r))
         /\ l + Len(cs) + r = i
         /\ fn = "padl" => r = 0
         /\ fn = "padr" => l = 0
         /\ fn = "padc" => r - l \in {0, 1}

LEMMA PadIs ==
  ASSUME NEW cs \in Seq(Chars), NEW i \in Nat, NEW fn \in {"padl", "padr", "padc"}
  PROVE  IsPadded(fn, cs, i, T!PadFunc(fn, T!Bytes(cs), i))
<1>. DEFINE z == T!Bytes(cs)
            missing == i - Len(cs)
            left == [padl |-> missing, padr |-> 0, padc |-> missing \div 2][fn]
            y == T!PadFunc(fn, z, i)
<1>1. IsText(cs, z, Layout(cs))
  BY TextOf
<1>2. Len(cs) \in Nat
  BY <1>1 DEF IsText
<1>3. T!CharLen(z) = Len(cs)
  BY <1>1, CharacterCount
<1>4. y = IF i < 0 THEN T!Error ELSE IF missing <= 0 THEN z
          ELSE T!Blanks(left) \o z \o T!Blanks(missing - left)
  BY <1>3, Zenon DEF T!PadFunc
<1>. HIDE DEF y
<1>5. CASE i <= Len(cs)
  <2>1. ~ (i < 0) /\ missing <= 0
    BY <1>2, <1>5
  <2>2. y = z
    BY <2>1, <1>4
  <2>. QED  BY <2>2, <1>5 DEF IsPadded, y
<1>6. CASE ~ (i <= Len(cs))
  <2>1. ~ (i < 0) /\ ~ (missing <= 0) /\ missing \in Nat
    BY <1>2, <1>6
  <2>2. left \in 0..missing /\ (fn = "padl" => missing - left = 0) /\ (fn = "padr" => left = 0)
        /\ (fn = "padc" => missing - left - left \in {0, 1})
    <3>1. CASE fn = "padl"
      BY <3>1, <2>1
    <3>2. CASE fn = "padr"
      BY <3>2, <2>1
    <3>3. CASE fn = "padc"
      <4>1. left = missing \div 2
        BY <3>3
      <4>. QED  BY <4>1, <3>3, <2>1
    <3>. QED  BY <3>1, <3>2, <3>3
  <2>. HIDE DEF left
  <2>3. left \in Nat /\ missing - left \in Nat /\ left \in 0..i /\ missing - left \in 0..i
        /\ left + Len(cs) + (missing - left) = i
    BY <2>1, <2>2, <1>2
  <2>4. y = T!Blanks(left) \o z \o T!Blanks(missing - left)
    BY <2>1, <1>4
  <2>. DEFINE r == missing - left
              a == Spaces(left)
              b == Spaces(r)
  <2>. HIDE DEF r
  <2>5. a \in Seq(Chars) /\ T!Bytes(a) = T!Blanks(left)
    BY <2>3, BytesOfSpaces
  <2>6. b \in Seq(Chars) /\ T!Bytes(b) = T!Blanks(r)
    BY <2>3, BytesOfSpaces DEF r
  <2>. HIDE DEF a, b
  <2>7. a \o cs \in Seq(Chars) /\ T!Bytes(a \o cs) = T!Blanks(left) \o z
    BY <2>5, BytesConcat
  <2>8. T!Bytes((a \o cs) \o b) = (T!Blanks(left) \o z) \o T!Blanks(r)
    BY <2>6, <2>7, BytesConcat
  <2>9. y = T!Bytes(a \o cs \o b)
    BY <2>4, <2>8 DEF r
  <2>10. left \in 0..i /\ r \in 0..i /\ left + Len(cs) + r = i /\ (fn = "padl" => r = 0)
         /\ (fn = "padr" => left = 0) /\ (fn = "padc" => r - left \in {0, 1})
    BY <2>2, <2>3 DEF r
  <2>11. y = T!Bytes(Spaces(left) \o cs \o Spaces(r))
    BY <2>9 DEF a, b
  <2>12. IsPadded(fn, cs, i, y)
    BY <2>10, <2>11, <1>6 DEF IsPadded
  <2>. QED  BY <2>12 DEF y
<1>. QED  BY <1>5, <1>6

(***************************************************************************)
(* proper                                                                  *)
(***************************************************************************)
\* toupper and tolower change neither blanks nor trailing bytes.
LEMMA CaseKeeps ==
  ASSUME NEW b \in Trail \cup White
  PROVE  T!ToUpper(b) = b /\ T!ToLower(b) = b
<1>1. b \notin DOMAIN Upper /\ b \notin Range(Upper)
  BY ExtensionAssumption
<1>2. b \notin T!Range(Upper)
  BY <1>1 DEF Range, T!Range
<1>. QED  BY <1>1, <1>2 DEF T!ToUpper, T!ToLower

LEMMA WhiteIsNoTrail ==
  ASSUME NEW b \in White
  PROVE  b \notin Trail /\ <<b>> \in Chars
<1>1. <<b>> \in Chars
  BY ExtensionAssumption
<1>2. <<b>>[1] \notin Trail
  BY <1>1, CharacterBytes
<1>. QED  BY <1>1, <1>2

\* The characters for which isblank holds.
WhiteChars == {<<b>> : b \in White}

\* The byte before a character is blank exactly if the character before it is.
LEMMA WhiteBefore ==
  ASSUME NEW cs, NEW z, NEW off, IsText(cs, z, off), NEW k \in 1..Len(cs)
  PROVE  z[off[k]] \in White <=> cs[k] \in WhiteChars
<1>. DEFINE c == cs[k]
<1>1. Len(cs) \in Nat /\ Len(z) \in Nat /\ k \in 0..Len(cs) /\ k - 1 \in 0..Len(cs)
  BY DEF IsText
<1>2. c \in Chars /\ Len(c) \in Nat \ {0} /\ off[k] = off[k - 1] + Len(c)
  BY DEF IsText
<1>3. z[off[k]] = c[Len(c)]
  <2>1. Len(c) \in 1..Len(c)
    BY <1>2
  <2>. QED  BY <2>1, <1>2 DEF IsText, Laid
<1>4. c \in Seq(ByteSet)
  BY <1>2, CharacterBytes
<1>. HIDE DEF c
<1>5. CASE Len(c) = 1
  <2>1. c = <<c[1]>>
    BY <1>4, <1>5
  <2>2. c \in WhiteChars <=> c[1] \in White
    <3>1. ASSUME NEW b \in White, c = <<b>> PROVE c[1] = b
      BY <3>1
    <3>. QED  BY <2>1, <3>1 DEF WhiteChars
  <2>. QED  BY <2>2, <1>3, <1>5 DEF c
<1>6. CASE Len(c) # 1
  <2>1. Len(c) \in 2..Len(c)
    <3>1. Len(c) \in Nat \ {0}
      BY <1>2
    <3>2. \A x \in Nat \ {0} : x # 1 => x \in 2..x
      OBVIOUS
    <3>. QED  BY <3>1, <3>2, <1>6, Zenon
  <2>2. c[Len(c)] \in Trail
    BY <2>1, <1>2, CharacterBytes
  <2>3. c \notin WhiteChars
    <3>1. \A b \in White : Len(<<b>>) = 1
      OBVIOUS
    <3>. QED  BY <3>1, <1>6 DEF WhiteChars
  <2>4. c[Len(c)] \notin White
    BY <2>2, WhiteIsNoTrail
  <2>. QED  BY <2>3, <2>4, <1>3 DEF c
<1>. QED  BY <1>5, <1>6

UpperOf(c) == [j \in DOMAIN c |-> T!ToUpper(c[j])]
LowerOf(c) == [j \in DOMAIN c |-> T!ToLower(c[j])]
Titled(cs) == [i \in DOMAIN cs |-> IF i = 1 \/ cs[i - 1] \in WhiteChars
                                   THEN UpperOf(cs[i]) ELSE LowerOf(cs[i])]

LEMMA ProperIs ==
  ASSUME NEW cs \in Seq(Chars)
  PROVE  T!Proper(T!Bytes(cs)) = T!Bytes(Titled(cs))
<1>. DEFINE z == T!Bytes(cs)
            off == Layout(cs)
            len == Len(cs)
            ps == Titled(cs)
            y == T!Proper(z)
            B == {T!ToUpper(b) : b \in ByteSet} \cup {T!ToLower(b) : b \in ByteSet}
                 \cup ByteSet
<1>1. IsText(cs, z, off)
  BY TextOf
<1>. HIDE DEF z, off
<1>2. /\ len \in Nat /\ Len(z) \in Nat /\ z \in Seq(ByteSet)
      /\ \A k \in 1..len : cs[k] \in Chars /\ Len(cs[k]) \in Nat \ {0}
  BY <1>1 DEF IsText
<1>3. \A c \in Chars : /\ UpperOf(c) \in Seq(B) /\ LowerOf(c) \in Seq(B)
                       /\ Len(UpperOf(c)) = Len(c) /\ Len(LowerOf(c)) = Len(c)
                       /\ \A j \in 1..Len(c) : /\ UpperOf(c)[j] = T!ToUpper(c[j])
                                               /\ LowerOf(c)[j] = T!ToLower(c[j])
  <2>1. TAKE c \in Chars
  <2>2. c \in Seq(ByteSet)
    BY CharacterBytes
  <2>3. DOMAIN c = 1..Len(c) /\ Len(c) \in Nat /\ \A j \in 1..Len(c) : c[j] \in ByteSet
    BY <2>2
  <2>4. \A j \in 1..Len(c) : T!ToUpper(c[j]) \in B /\ T!ToLower(c[j]) \in B
    BY <2>3
  <2>. HIDE DEF B
  <2>5. UpperOf(c) \in [1..Len(c) -> B] /\ LowerOf(c) \in [1..Len(c) -> B]
    BY <2>3, <2>4 DEF UpperOf, LowerOf
  <2>6. UpperOf(c) \in Seq(B) /\ LowerOf(c) \in Seq(B)
        /\ Len(UpperOf(c)) = Len(c) /\ Len(LowerOf(c)) = Len(c)
    BY <2>3, <2>5
  <2>. QED  BY <2>3, <2>6 DEF UpperOf, LowerOf
<1>. HIDE DEF B
<1>4. /\ ps \in Seq(Seq(B)) /\ Len(ps) = len
      /\ \A k \in 1..len : ps[k] = IF k = 1 \/ cs[k - 1] \in WhiteChars
                                   THEN UpperOf(cs[k]) ELSE LowerOf(cs[k])
  <2>. DEFINE S == Seq(B)
  <2>1. DOMAIN cs = 1..len
    BY <1>2
  <2>2. \A k \in 1..len : UpperOf(cs[k]) \in S /\ LowerOf(cs[k]) \in S
    BY <1>2, <1>3
  <2>. HIDE DEF S
  <2>3. ps \in [1..len -> S]
    BY <2>1, <2>2 DEF Titled
  <2>4. ps \in Seq(S) /\ Len(ps) = len
    <3>. HIDE DEF ps
    <3>. QED  BY <2>3, <1>2
  <2>. QED  BY <2>1, <2>4 DEF Titled, S
<1>5. /\ y \in Seq(B) /\ Len(y) = Len(z)
      /\ \A i \in 1..Len(z) :
           y[i] = IF z[i] \in White THEN z[i]
                  ELSE IF i = 1 \/ z[i - 1] \in White THEN T!ToUpper(z[i]) ELSE T!ToLower(z[i])
  <2>1. DOMAIN z = 1..Len(z) /\ \A i \in 1..Len(z) : z[i] \in ByteSet
    BY <1>2
  <2>2. \A b \in ByteSet : b \in B /\ T!ToUpper(b) \in B /\ T!ToLower(b) \in B
    BY DEF B
  <2>3. y \in [1..Len(z) -> B]
    BY <2>1, <2>2 DEF T!Proper
  <2>4. y \in Seq(B) /\ Len(y) = Len(z)
    <3>. HIDE DEF y
    <3>. QED  BY <2>3, <1>2
  <2>. QED  BY <2>1, <2>4 DEF T!Proper, T!IsBlank
<1>. HIDE DEF ps, y
<1>6. ASSUME NEW k \in 1..len, NEW j \in 1..Len(cs[k])
      PROVE  y[off[k - 1] + j] = ps[k][j]
  <2>. DEFINE i == off[k - 1] + j
              b == cs[k][j]
  <2>1. /\ k - 1 \in 0..len /\ k \in 0..len /\ off[k - 1] \in 0..Len(z) /\ off[k] \in 0..Len(z)
        /\ off[k] = off[k - 1] + Len(cs[k]) /\ k - 1 <= off[k - 1] /\ off[0] = 0
    BY <1>1, <1>2 DEF IsText
  <2>2. i \in 1..Len(z)
    BY <2>1, <1>2
  <2>3. z[i] = b
    BY <1>1 DEF IsText, Laid
  <2>4. ps[k][j] = IF k = 1 \/ cs[k - 1] \in WhiteChars THEN T!ToUpper(b) ELSE T!ToLower(b)
    <3>1. UpperOf(cs[k])[j] = T!ToUpper(b) /\ LowerOf(cs[k])[j] = T!ToLower(b)
      BY <1>2, <1>3
    <3>. QED  BY <3>1, <1>4
  <2>5. CASE b \in Trail \cup White
    <3>1. T!ToUpper(b) = b /\ T!ToLower(b) = b
      BY <2>5, CaseKeeps
    <3>. QED  BY <3>1, <2>2, <2>3, <2>4, <1>5
  <2>6. CASE b \notin Trail \cup White
    <3>1. j = 1
      <4>1. j \notin 2..Len(cs[k])
        BY <2>6, <1>2, CharacterBytes
      <4>. QED  BY <4>1, <1>2
    <3>2. CASE k = 1
      <4>1. i = 1
        BY <3>1, <3>2, <2>1
      <4>. QED  BY <4>1, <3>2, <2>2, <2>3, <2>4, <2>6, <1>5
    <3>3. CASE k # 1
      <4>1. i # 1 /\ i - 1 = off[k - 1] /\ k - 1 \in 1..len
        BY <3>1, <3>3, <2>1, <1>2
      <4>2. z[i - 1] \in White <=> cs[k - 1] \in WhiteChars
        BY <4>1, <1>1, WhiteBefore
      <4>3. y[i] = IF z[i - 1] \in White THEN T!ToUpper(b) ELSE T!ToLower(b)
        BY <4>1, <2>2, <2>3, <2>6, <1>5
      <4>. QED  BY <4>2, <4>3, <3>3, <2>4
    <3>. QED  BY <3>2, <3>3
  <2>. QED  BY <2>5, <2>6
<1>7. \A k \in 1..len : Len(ps[k]) = Len(cs[k])
  BY <1>2, <1>3, <1>4
<1>8. Laid(off, ps, y)
  <2>1. Laid(off, cs, z)
    BY <1>1 DEF IsText
  <2>. QED  BY <2>1, <1>4, <1>5, <1>6, <1>7 DEF Laid
<1>9. y = T!FlattenSeq(ps)
  BY <1>4, <1>5, <1>8, LaidIsFlat
<1>. QED  BY <1>9 DEF y, z, ps, T!Bytes

(***************************************************************************)
(* The calls                                                               *)
(***************************************************************************)
\* What the function running returned is what it gives for its arguments.
Answered ==
  call.fn # "idle" =>
    LET z == T!Bytes(call.z)
        y == T!Bytes(call.y)
    IN /\ call.z \in Seq(Chars) /\ call.y \in Seq(Chars) /\ call.n \in Int
       /\ call.fn = "leftstr" => text = T!LeftFunc(z, call.n)
       /\ call.fn = "rightstr" => call.n \in Nat /\ text = T!RightFunc(z, call.n)
       /\ call.fn \in {"padl", "padr", "padc"} => text = T!PadFunc(call.fn, z, call.n)
       /\ call.fn = "reverse" => text = T!ReverseFunc(z)
       /\ call.fn = "proper" => text = T!Proper(z)
       /\ call.fn = "strfilter" => text = T!StrFilter(z, y)
       /\ call.fn = "charindex" => text = T!CharIndex(y, z, call.n)

LEMMA TextsAreSequences ==
  ASSUME NEW k \in Nat
  PROVE  T!Texts(k) \subseteq Seq(Chars)
<1>1. ASSUME NEW l \in 0..k, NEW cs \in [1..l -> Chars] PROVE cs \in Seq(Chars)
  <2>1. l \in Nat
    OBVIOUS
  <2>. QED  BY <2>1
<1>. QED  BY <1>1 DEF T!Texts, T!BoundedSeq, T!SeqOf

LEMMA AnsweredStep == Answered /\ [AllNext]_allvars => Answered'
<1>. SUFFICES ASSUME Answered, [AllNext]_allvars PROVE Answered'
  OBVIOUS
<1>1. CASE UNCHANGED <<call, text>>
  BY <1>1 DEF Answered
<1>2. CASE T!Next
  <2>1. CASE T!Return
    BY <2>1 DEF T!Return, T!Idle, Answered
  <2>2. ASSUME NEW z \in T!Texts(MaxText),
               \/ T!Whole(z)
               \/ \E i \in T!Counts : T!Part(z, i) \/ T!Pad(z, i) \/ T!Replicate(z, i)
               \/ \E y \in T!Texts(MaxShort) :
                    T!Compare(z, y) \/ \E i \in T!Counts : T!Find(z, y, i)
        PROVE  Answered'
    <3>1. z \in Seq(Chars) /\ << >> \in Seq(Chars) /\ 0 \in Int
      BY ExtensionAssumption, TextsAreSequences, EmptySeq
    <3>2. \A i \in T!Counts : i \in Int
      BY ExtensionAssumption DEF T!Counts
    <3>3. \A y \in T!Texts(MaxShort) : y \in Seq(Chars)
      BY ExtensionAssumption, TextsAreSequences
    <3>4. CASE T!Whole(z)
      <4>1. CASE /\ call' = [fn |-> "reverse", z |-> z, y |-> << >>, n |-> 0]
                 /\ text' = T!ReverseFunc(T!Bytes(z))
        BY <3>1, <4>1 DEF Answered
      <4>2. CASE /\ call' = [fn |-> "proper", z |-> z, y |-> << >>, n |-> 0]
                 /\ text' = T!Proper(T!Bytes(z))
        BY <3>1, <4>2 DEF Answered
      <4>. QED  BY <3>4, <4>1, <4>2 DEF T!Whole, T!Call
    <3>5. ASSUME NEW i \in T!Counts, T!Part(z, i) PROVE Answered'
      <4>1. CASE /\ call' = [fn |-> "leftstr", z |-> z, y |-> << >>, n |-> i]
                 /\ text' = T!LeftFunc(T!Bytes(z), i)
        BY <3>1, <3>2, <4>1 DEF Answered
      <4>2. CASE /\ call' = [fn |-> "rightstr", z |-> z, y |-> << >>, n |-> i]
                 /\ i >= 0 /\ text' = T!RightFunc(T!Bytes(z), i)
        BY <3>1, <3>2, <4>2 DEF Answered
      <4>. QED  BY <3>5, <4>1, <4>2 DEF T!Part, T!Call
    <3>6. ASSUME NEW i \in T!Counts, T!Pad(z, i) PROVE Answered'
      <4>1. PICK fn \in {"padl", "padr", "padc"} :
              /\ call' = [fn |-> fn, z |-> z, y |-> << >>, n |-> i]
              /\ text' = T!PadFunc(fn, T!Bytes(z), i)
        BY <3>6 DEF T!Pad, T!Call
      <4>2. fn # "replicate" /\ fn \notin {"leftstr", "rightstr", "reverse", "proper", "strfilter",
                                           "charindex"}
        BY <4>1
      <4>3. call'.fn = fn /\ call'.z = z /\ call'.y = << >> /\ call'.n = i
        BY <4>1
      <4>. QED  BY <3>1, <3>2, <4>1, <4>2, <4>3, Zenon DEF Answered
    <3>7. ASSUME NEW i \in T!Counts, T!Replicate(z, i) PROVE Answered'
      <4>1. call' = [fn |-> "replicate", z |-> z, y |-> << >>, n |-> i]
        BY <3>2, <3>7 DEF T!Replicate, T!Call
      <4>. QED  BY <3>1, <3>2, <4>1 DEF Answered
    <3>8. ASSUME NEW y \in T!Texts(MaxShort), T!Compare(z, y) PROVE Answered'
      <4>1. \/ /\ call' = [fn |-> "strfilter", z |-> z, y |-> y, n |-> 0]
               /\ text' = T!StrFilter(T!Bytes(z), T!Bytes(y))
            \/ call' = [fn |-> "difference", z |-> z, y |-> y, n |-> 0]
        BY <3>8 DEF T!Compare, T!Call
      <4>. QED  BY <3>1, <3>3, <4>1 DEF Answered
    <3>9. ASSUME NEW y \in T!Texts(MaxShort), NEW i \in T!Counts, T!Find(z, y, i)
          PROVE  Answered'
      BY <3>1, <3>2, <3>3, <3>9 DEF T!Find, T!Call, Answered
    <3>. QED  BY <2>2, <3>4, <3>5, <3>6, <3>7, <3>8, <3>9
  <2>. QED  BY <1>2, <2>1, <2>2 DEF T!Next
<1>. QED  BY <1>1, <1>2 DEF AllNext, Scalar, allvars

LEMMA AlwaysAnswered == AllSpec => []Answered
<1>1. AllInit => Answered
  BY DEF AllInit, T!Init, T!Idle, Answered
<1>. QED  BY <1>1, AnsweredStep, PTL DEF AllSpec

LEMMA AnsweredRight ==
  ASSUME Answered
  PROVE  /\ PartsRight /\ PaddingRight /\ ReverseRight /\ FilterRight /\ IndexRight /\ ProperRight
<1>1. PartsRight
  <2>1. CASE call.fn = "leftstr"
    <3>1. text = T!Bytes(SubSeq(call.z, 1, T!Least({call.n, Len(call.z)}, 0)))
      BY <2>1, LeftIs DEF Answered
    <3>. QED  BY <2>1, <3>1 DEF PartsRight, T!PartsRight, T!Is, T!Means, T!Given
  <2>2. CASE call.fn = "rightstr"
    <3>1. text = T!Bytes(SubSeq(call.z, 1 + Len(call.z) - T!Least({call.n, Len(call.z)}, 0),
                                Len(call.z)))
      BY <2>2, RightIs DEF Answered
    <3>. QED  BY <2>2, <3>1 DEF PartsRight, T!PartsRight, T!Is, T!Means, T!Given
  <2>. QED  BY <2>1, <2>2 DEF PartsRight, T!PartsRight, T!Is
<1>2. PaddingRight
  <2>1. SUFFICES ASSUME call.fn \in {"padl", "padr", "padc"}, call.n >= 0
                 PROVE  IF call.n <= Len(call.z) THEN text = T!Bytes(call.z)
                        ELSE \E l, r \in 0..call.n :
                               /\ text = T!Bytes([i \in 1..l |-> <<Blank>>] \o call.z
                                                 \o [i \in 1..r |-> <<Blank>>])
                               /\ l + Len(call.z) + r = call.n
                               /\ call.fn = "padl" => r = 0
                               /\ call.fn = "padr" => l = 0
                               /\ call.fn = "padc" => r - l \in {0, 1}
    BY DEF PaddingRight, T!PaddingRight, T!Is, T!Means, T!Given
  <2>2. call.n \in Nat /\ call.z \in Seq(Chars) /\ text = T!PadFunc(call.fn, T!Bytes(call.z), call.n)
    BY <2>1 DEF Answered
  <2>3. IsPadded(call.fn, call.z, call.n, text)
    BY <2>1, <2>2, PadIs
  <2>. QED  BY <2>3, Zenon DEF IsPadded, Spaces
<1>3. ReverseRight
  <2>1. ASSUME call.fn = "reverse" PROVE text = T!Bytes(T!Reverse(call.z))
    BY <2>1, ReverseIs DEF Answered
  <2>. QED  BY <2>1 DEF ReverseRight, T!ReverseRight, T!Is, T!Means, T!Given
<1>4. FilterRight
  <2>1. ASSUME call.fn = "strfilter" PROVE text = T!Bytes(T!Selected(call.z, Range(call.y)))
    BY <2>1, FilterIs DEF Answered
  <2>2. Range(call.y) = T!Range(call.y)
    BY DEF Range, T!Range
  <2>. QED  BY <2>1, <2>2 DEF FilterRight, T!FilterRight, T!Is, T!Means, T!Given
<1>5. IndexRight
  <2>1. ASSUME call.fn = "charindex"
        PROVE  text = T!Least({k \in 1..Len(call.z) :
                                 /\ call.y # << >>
                                 /\ k >= call.n
                                 /\ T!IsPrefix(call.y, SubSeq(call.z, k, Len(call.z)))}, 0)
    BY <2>1, IndexIs DEF Answered
  <2>. QED  BY <2>1 DEF IndexRight, T!IndexRight, T!Is, T!Given
<1>6. ProperRight
  <2>1. ASSUME call.fn = "proper" PROVE text = T!Bytes(Titled(call.z))
    BY <2>1, ProperIs DEF Answered
  <2>. QED  BY <2>1, Zenon DEF ProperRight, T!ProperRight, T!Is, T!Means, T!Given, Titled, UpperOf, LowerOf,
                          WhiteChars
<1>. QED  BY <1>1, <1>2, <1>3, <1>4, <1>5, <1>6

(***************************************************************************)
(* The theorems                                                            *)
(***************************************************************************)
\* modeStep keeps the context's types, and its map one of integers or of floats.
THEOREM MapTypes == Spec => []TypeOK
  BY InvInductive, PTL DEF Inv

\* Whatever the order of the rows, node_insert keeps the map a search tree.
THEOREM MapIsSearchTree == Spec => []SearchTree
  BY InvInductive, PTL DEF Inv

\* The counts of the map are the numbers of rows with each value.
THEOREM MapCountsRows == Spec => []Counted
  BY InvInductive, PTL DEF Inv

\* modeFinalize: the one pass over the counted values in ascending order, which keeps the highest
\* count so far and how many values have it, returns the value more frequent than every other, or
\* NULL if there is none.
THEOREM ModeIsRight == Spec => []ModeRight
  BY ResultsInductive, PTL

\* _medianFinalize: the one pass that adds up counts until it reaches the fraction returns the
\* quantile of the rows by position, and the mean of two elements exactly when the cut falls
\* between them.
THEOREM QuantilesAreRight == Spec => []QuantilesRight
  BY ResultsInductive, PTL

\* varianceStep: after every row the running mean and sum of squares are those of the two-pass
\* formula over all rows so far.
THEOREM OnePassMeansTwo == AllSpec => []OnePassIsTwoPass
<1>1. VarianceInv => OnePassIsTwoPass
  BY DEF VarianceInv, OnePassIsTwoPass
<1>. QED  BY <1>1, VarianceInductive, PTL

\* varianceFinalize and stdevFinalize return the sample variance of the rows, and never divide by
\* zero for a group of one row or none.
THEOREM SpreadIsSampleVariance == AllSpec => []SampleVariance
<1>1. V!SampleVariance => SampleVariance
  BY DEF SampleVariance
<1>. QED  BY <1>1, VarianceInductive, PTL

\* leftFunc and rightFunc cut between characters: exactly as many characters as asked for, or all
\* of them, whatever their lengths in bytes.
THEOREM PartsAreRight == AllSpec => []PartsRight
  BY AlwaysAnswered, AnsweredRight, PTL

\* padlFunc, padrFunc and padcFunc give exactly as many characters as asked for with the text whole
\* inside, or the text unchanged if it has as many; padcFunc puts an odd blank on the right.
THEOREM PaddingIsRight == AllSpec => []PaddingRight
  BY AlwaysAnswered, AnsweredRight, PTL

\* reverseFunc, which fills its buffer from the end, reverses the characters and keeps the bytes of
\* each together.
THEOREM ReverseIsRight == AllSpec => []ReverseRight
  BY AlwaysAnswered, AnsweredRight, PTL

\* The two loops of strfilterFunc keep the characters of the first text that occur in the second,
\* all of them and in their order.
THEOREM FilterIsRight == AllSpec => []FilterRight
  BY AlwaysAnswered, AnsweredRight, PTL

\* charindexFunc and _substr give the first position at or after the start where the text is found,
\* counted in characters from 1, and 0 if there is none or the text is empty.
THEOREM IndexIsRight == AllSpec => []IndexRight
  BY AlwaysAnswered, AnsweredRight, PTL

\* properFunc, which goes byte by byte, makes capitals of the letters at the beginning and after a
\* space or a tab and of no others, and leaves every character of several bytes whole.
THEOREM ProperIsRight == AllSpec => []ProperRight
  BY AlwaysAnswered, AnsweredRight, PTL
=============================================================================
