------------------------------ MODULE Variance ------------------------------
(***************************************************************************)
(* The aggregates stdev and variance of extension-functions.c: one pass    *)
(* that corrects the mean and the sum of squared deviations row by row.    *)
(* Floats are exact fractions here, so that the formulas are checked and   *)
(* not their rounding.  A row whose value is NULL is no step.              *)
(***************************************************************************)
EXTENDS Integers, Sequences

CONSTANT MaxRows     \* bound on the rows of a group

VARIABLES xs,        \* history: the rows of the group
          cnt, rM, rS,  \* StdevCtx: count, mean and sum of squared deviations
          result     \* the variance the finalizer returned, the square of stdev

(***************************************************************************)
(* Fractions in lowest terms, with a positive denominator.                 *)
(***************************************************************************)
Frac(n, d) ==
  LET q == CHOOSE k \in 1..d : (n * k) % d = 0 /\ \A l \in 1..(k - 1) : (n * l) % d # 0
  IN <<(n * q) \div d, q>>
Whole(n) == <<n, 1>>
Plus(x, y) == Frac(x[1] * y[2] + y[1] * x[2], x[2] * y[2])
Minus(x, y) == Plus(x, <<-y[1], y[2]>>)
Times(x, y) == Frac(x[1] * y[1], x[2] * y[2])
Over(x, n) == Frac(x[1], x[2] * n)

Pending == << >>

Init ==
  /\ xs = << >>
  /\ cnt = 0
  /\ rM = Whole(0)
  /\ rS = Whole(0)
  /\ result = Pending

\* Mutant: both factors are the deviation from the old mean.
GrowthOldMean(delta, x, mean) == Times(delta, delta)

\* What a row adds to rS: its deviation from the old mean times that from the new mean.
Growth(delta, x, mean) == Times(delta, Minus(x, mean))

Step(x) ==
  LET delta == Minus(Whole(x), rM) IN
    /\ result = Pending
    /\ Len(xs) < MaxRows
    /\ xs' = Append(xs, x)
    /\ cnt' = cnt + 1
    /\ rM' = Plus(rM, Over(delta, cnt'))
    /\ rS' = Plus(rS, Growth(delta, Whole(x), rM'))
    /\ UNCHANGED result

\* Mutant: the variance of a population instead of that of a sample.
SpreadOfPopulation(n) == IF n > 1 THEN Over(rS, n) ELSE Whole(0)

\* varianceFinalize; stdevFinalize returns the square root.
Spread(n) == IF n > 1 THEN Over(rS, n - 1) ELSE Whole(0)

Finalize ==
  /\ result = Pending
  /\ result' = Spread(cnt)
  /\ UNCHANGED <<xs, cnt, rM, rS>>

NextGroup ==
  /\ result # Pending
  /\ xs' = << >>
  /\ cnt' = 0
  /\ rM' = Whole(0)
  /\ rS' = Whole(0)
  /\ result' = Pending

(***************************************************************************)
(* Properties                                                              *)
(***************************************************************************)
Total(s) ==
  LET upto[k \in 0..Len(s)] == IF k = 0 THEN 0 ELSE upto[k - 1] + s[k] IN upto[Len(s)]
Deviations ==  \* cnt times the sum of squared deviations from the mean
  Len(xs) * Total([i \in DOMAIN xs |-> xs[i] * xs[i]]) - Total(xs) * Total(xs)

\* After every row the one-pass recurrence of varianceStep has the mean of the rows so far and the
\* sum of their squared deviations from it, whatever their order.
OnePassIsTwoPass ==
  xs # << >> => /\ rM = Frac(Total(xs), Len(xs))
                /\ rS = Frac(Deviations, Len(xs))

\* The result is the sample variance: Deviations / (cnt * (cnt - 1)), and 0 for a single row or
\* none, where varianceFinalize must not divide.
SampleVariance ==
  result # Pending =>
    result = IF Len(xs) > 1 THEN Frac(Deviations, Len(xs) * (Len(xs) - 1)) ELSE Whole(0)
=============================================================================
