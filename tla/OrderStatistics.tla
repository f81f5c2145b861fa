-------------------------- MODULE OrderStatistics --------------------------
(***************************************************************************)
(* The aggregates mode, median, lower_quartile and upper_quartile of       *)
(* extension-functions.c: a binary tree that counts equal values, filled   *)
(* by one step per row, and a traversal in order when the group ends.      *)
(*                                                                         *)
(* Numbers are counted in halves, so that a float may lie between two      *)
(* integers.  A row whose value is NULL leaves everything as it is, before *)
(* the context even exists, and is no step of this model.                  *)
(***************************************************************************)
EXTENDS Integers, FiniteSets, Sequences

CONSTANTS Rows,     \* the values a row may have: a type and a number of halves
          MaxRows,  \* bound on the rows of a group
          IntSpan   \* the C type int holds -IntSpan .. IntSpan - 1

ASSUME OrderStatisticsAssumption ==
  /\ Rows \subseteq [type : {"integer", "real", "text"}, num : Int]
  /\ \A row \in Rows : row.type = "integer" => row.num % 2 = 0
  /\ MaxRows \in Nat
  /\ IntSpan \in Nat \ {0}

VARIABLES seen,    \* history: the rows of the group so far
          kind,    \* "none" before the map exists, then "integer" or "real"
          cnt,     \* ModeCtx.cnt
          m,       \* the tree: from the path of each node to its data and count
          result   \* what the finalizer returned for the group

vars == <<seen, kind, cnt, m, result>>

Quantiles == [lower_quartile |-> 1, median |-> 2, upper_quartile |-> 3]
Pending == [fn |-> "pending"]
EmptyTree == [p \in {} |-> [data |-> 0, count |-> 0]]

Init ==
  /\ seen = << >>
  /\ kind = "none"
  /\ cnt = 0
  /\ m = EmptyTree
  /\ result = Pending

(***************************************************************************)
(* The tree.  A path is a sequence of turns; the root has the path << >>.  *)
(***************************************************************************)
Left == -1
Right == 1

Cmp(a, b) == IF a = b THEN 0 ELSE IF a < b THEN -1 ELSE 1

\* Mutant: the element is compared with the node instead of the node with the element.
LeadsMirrored(t, p, x) ==
  \A i \in 1..Len(p) : LET q == SubSeq(p, 1, i - 1) IN
    /\ q \in DOMAIN t
    /\ p[i] = IF Cmp(x, t[q].data) > 0 THEN Left ELSE Right
    /\ Cmp(t[q].data, x) # 0

\* The descent for x follows p: at each node above p it takes p's next turn.
Leads(t, p, x) ==
  \A i \in 1..Len(p) : LET q == SubSeq(p, 1, i - 1) IN
    /\ q \in DOMAIN t
    /\ p[i] = IF Cmp(t[q].data, x) > 0 THEN Left ELSE Right
    /\ Cmp(t[q].data, x) # 0

\* Where the descent for x ends: at the node of x, or where it is to be made.
Spots(t, x) ==
  {p \in {<< >>} \cup {Append(q, d) : q \in DOMAIN t, d \in {Left, Right}} :
     /\ Leads(t, p, x)
     /\ p \in DOMAIN t => Cmp(t[p].data, x) = 0}

\* Mutant: an equal element is freed and not counted.
NodeUncounted(t, p, x) ==
  [q \in DOMAIN t \cup {p} |-> IF q \in DOMAIN t THEN t[q] ELSE [data |-> x, count |-> 1]]

NodeInsert(t, p, x) ==
  [q \in DOMAIN t \cup {p} |->
     IF q \in DOMAIN t
     THEN [t[q] EXCEPT !.count = IF q = p THEN @ + 1 ELSE @]
     ELSE [data |-> x, count |-> 1]]

\* Left subtree, node, right subtree: the first turn that differs decides.
Turn(p, i) == IF i <= Len(p) THEN p[i] ELSE 0
Before(p, q) ==
  \E i \in 1..(Len(p) + Len(q)) :
    /\ Turn(p, i) < Turn(q, i)
    /\ \A j \in 1..(i - 1) : Turn(p, j) = Turn(q, j)

\* The place of a node in the traversal, and the nodes in the order of their places.
Place(t, p) == Cardinality({q \in DOMAIN t : q = p \/ Before(q, p)})
InOrder(t) == [i \in 1..Cardinality(DOMAIN t) |-> t[CHOOSE p \in DOMAIN t : Place(t, p) = i]]

(***************************************************************************)
(* modeStep                                                                *)
(***************************************************************************)
Truncated(h) == IF h >= 0 THEN 2 * (h \div 2) ELSE -2 * ((-h) \div 2)
KindOf(row) == IF kind # "none" THEN kind
               ELSE IF row.type = "integer" THEN "integer" ELSE "real"
Stored(k, row) == IF k = "integer" THEN Truncated(row.num) ELSE row.num

Step(row) ==
  /\ result = Pending
  /\ Len(seen) < MaxRows
  /\ seen' = Append(seen, row)
  /\ kind' = KindOf(row)
  /\ cnt' = cnt + 1
  /\ LET x == Stored(KindOf(row), row) IN
       \E p \in Spots(m, x) : m' = NodeInsert(m, p, x)
  /\ UNCHANGED result

(***************************************************************************)
(* The finalizers.  An element of an integer map is read through an int *, *)
(* that is without its upper half.                                         *)
(***************************************************************************)
LowHalf(i) == ((i + IntSpan) % (2 * IntSpan)) - IntSpan
Element(n) == IF kind = "integer" THEN 2 * LowHalf(n.data \div 2) ELSE n.data

Ctx0 == [rM |-> 0, mcnt |-> 0, mn |-> 0, done |-> 0]

\* Mutant: the number of values with the highest count is not reset.
ModeKeepsTies(c, n) ==
  IF n.count > c.mcnt
  THEN [c EXCEPT !.rM = Element(n), !.mcnt = n.count, !.mn = IF @ = 0 THEN 1 ELSE @]
  ELSE [c EXCEPT !.mn = IF n.count = c.mcnt THEN @ + 1 ELSE @]

ModeIterate(c, n) ==
  IF n.count > c.mcnt
  THEN [c EXCEPT !.rM = Element(n), !.mcnt = n.count, !.mn = 1]
  ELSE [c EXCEPT !.mn = IF n.count = c.mcnt THEN @ + 1 ELSE @]

\* Mutant: a value whose count ends exactly at the fraction is passed over.
MedianStrictly(quarter, c, n) ==
  LET reached == 4 * (c.mcnt + n.count) > quarter * cnt
      within == 4 * (cnt - c.mcnt) >= 4 * cnt - quarter * cnt
      next == [c EXCEPT !.mcnt = @ + n.count]
  IN IF c.done > 0 THEN c
     ELSE IF reached /\ within
     THEN [next EXCEPT !.mn = @ + 1, !.rM = @ + Element(n)]
     ELSE [next EXCEPT !.done = IF reached THEN 1 ELSE 0]

\* pcnt is quarter/4 of cnt: the comparisons are multiplied by four.
MedianIterate(quarter, c, n) ==
  LET reached == 4 * (c.mcnt + n.count) >= quarter * cnt
      within == 4 * (cnt - c.mcnt) >= 4 * cnt - quarter * cnt
      next == [c EXCEPT !.mcnt = @ + n.count]
  IN IF c.done > 0 THEN c
     ELSE IF reached /\ within
     THEN [next EXCEPT !.mn = @ + 1, !.rM = @ + Element(n)]
     ELSE [next EXCEPT !.done = IF reached THEN 1 ELSE 0]

\* map_iterate: the context after each number of visited nodes.
ModeContext(s) ==
  LET c[k \in 0..Len(s)] == IF k = 0 THEN Ctx0 ELSE ModeIterate(c[k - 1], s[k]) IN c
MedianContext(quarter, s) ==
  LET c[k \in 0..Len(s)] == IF k = 0 THEN Ctx0 ELSE MedianIterate(quarter, c[k - 1], s[k]) IN c

\* A result is a quotient; den = 0 stands for NULL.
ModeFinalize ==
  LET s == InOrder(m)
      c == ModeContext(s)[Len(s)]
  IN [fn |-> "mode", num |-> c.rM, den |-> IF c.mn = 1 THEN 1 ELSE 0]

MedianFinalize(f) ==
  LET s == InOrder(m)
      c == MedianContext(Quantiles[f], s)[Len(s)]
  IN [fn |-> f, num |-> c.rM, den |-> c.mn]

Finalize(f) ==
  /\ result = Pending
  /\ result' = IF f = "mode" THEN ModeFinalize ELSE MedianFinalize(f)
  /\ UNCHANGED <<seen, kind, cnt, m>>

\* SQLite gives the next group a context of its own.
NextGroup ==
  /\ result # Pending
  /\ seen' = << >>
  /\ kind' = "none"
  /\ cnt' = 0
  /\ m' = EmptyTree
  /\ result' = Pending

Next ==
  \/ \E row \in Rows : Step(row)
  \/ \E f \in {"mode"} \cup DOMAIN Quantiles : Finalize(f)
  \/ NextGroup

Spec == Init /\ [][Next]_vars

(***************************************************************************)
(* Properties                                                              *)
(***************************************************************************)
Turns == Seq({Left, Right})

TypeOK ==
  /\ seen \in Seq(Rows)
  /\ kind \in {"none", "integer", "real"}
  /\ kind = "none" <=> seen = << >>
  /\ cnt = Len(seen)
  /\ DOMAIN m \subseteq Turns
  /\ m \in [DOMAIN m -> [data : Int, count : Nat \ {0}]]

\* node_insert keeps the map a search tree: no node without its parent, and a node that the
\* traversal visits earlier is smaller.  modeIterate and medianIterate rely on visiting equal
\* values as one node and the others in ascending order.
PrefixClosed == \A p \in DOMAIN m : \A i \in 1..Len(p) : SubSeq(p, 1, i - 1) \in DOMAIN m
Ordered == \A p, q \in DOMAIN m : Before(p, q) => m[p].data < m[q].data
SearchTree == PrefixClosed /\ Ordered

\* The map holds each value as often as the rows brought it: nothing is counted twice or lost,
\* although a row with a known value frees its element and only increments a count.
Occurrences(s, k, x) == Cardinality({i \in 1..Len(s) : Stored(k, s[i]) = x})
Counted ==
  /\ \A p \in DOMAIN m : m[p].count = Occurrences(seen, kind, m[p].data)
  /\ \A i \in 1..Len(seen) : \E p \in DOMAIN m : m[p].data = Stored(kind, seen[i])

(***************************************************************************)
(* The definitions the results are compared with.                          *)
(***************************************************************************)
Numbers == {seen[i].num : i \in 1..Len(seen)}
Smaller(x) == Cardinality({i \in 1..Len(seen) : seen[i].num < x})
Equal(x) == Cardinality({i \in 1..Len(seen) : seen[i].num = x})
Smallest(k) == CHOOSE x \in Numbers : Smaller(x) < k /\ k <= Smaller(x) + Equal(x)

\* The mean of the two elements next to the cut, or the element the cut falls into.
TwiceQuantile(quarter) ==
  LET cut == quarter * Len(seen)
  IN IF cut % 4 = 0
     THEN Smallest(cut \div 4) + Smallest(cut \div 4 + 1)
     ELSE 2 * Smallest(cut \div 4 + 1)
MostFrequent == {x \in Numbers : \A y \in Numbers : Equal(y) <= Equal(x)}

IsQuantile ==
  \A f \in DOMAIN Quantiles : result.fn = f =>
    IF seen = << >> THEN result.den = 0
    ELSE result.den > 0 /\ 2 * result.num = TwiceQuantile(Quantiles[f]) * result.den
IsMode ==
  result.fn = "mode" =>
    IF Cardinality(MostFrequent) = 1
    THEN result.den = 1 /\ result.num \in MostFrequent
    ELSE result.den = 0

Integral == \A i \in 1..Len(seen) : seen[i].type = "integer"
Narrow == \A i \in 1..Len(seen) : seen[i].num \div 2 \in -IntSpan..(IntSpan - 1)

\* Where the map is one of floats, or all rows are integers that an int holds, the one pass over
\* the counted values gives the quantile of the rows by position, with its mean of two elements
\* exactly when the cut falls between them: one row, even counts, repeated values.
QuantilesRight == (kind = "real" \/ (Integral /\ Narrow)) => IsQuantile

\* And the mode is the value that is more frequent than every other, or NULL if there is none.
ModeRight == (kind # "integer" \/ (Integral /\ Narrow)) => IsMode
=============================================================================
