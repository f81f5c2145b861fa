------------------------- MODULE ExtensionFunctions -------------------------
(***************************************************************************)
(* The functions of extension-functions.c as one connection registers      *)
(* them: a query calls the aggregates of OrderStatistics and of Variance   *)
(* for the same rows, each with a context of its own in every group, and   *)
(* the functions on texts of StringFunctions one at a time.  Those keep    *)
(* nothing between calls; their calls are taken while no group has a row.  *)
(***************************************************************************)
EXTENDS OrderStatistics, Functions

CONSTANTS Chars, Trail, Blank, White, Upper, Code, Alpha, MaxText, MaxShort, MaxCount

\* UTF-8: a lead byte and its trailing bytes, whose number the lead byte tells; and toupper changes
\* neither blanks nor trailing bytes.
ASSUME ExtensionAssumption ==
  /\ \A c \in Chars :
       /\ c # << >> /\ c \in Seq({c[i] : i \in DOMAIN c})
       /\ \A i \in DOMAIN c : c[i] \in Trail <=> i > 1
  /\ \A c, d \in Chars : c[1] = d[1] => Len(c) = Len(d)
  /\ Blank \in White /\ \A b \in White : <<b>> \in Chars
  /\ IsInjective(Upper)
  /\ (DOMAIN Upper \cup Range(Upper)) \cap (Trail \cup White) = {}
  /\ MaxText \in Nat /\ MaxShort \in Nat /\ MaxCount \in Nat

VARIABLES n, rM, rS, spread,  \* the context of stdev and variance and their result
          call, text          \* the string function running and what it returns

allvars == <<vars, n, rM, rS, spread, call, text>>

V == INSTANCE Variance WITH
       xs <- [i \in DOMAIN seen |-> seen[i].num], cnt <- n, result <- spread
T == INSTANCE StringFunctions WITH result <- text

AllInit == Init /\ V!Init /\ T!Init

\* One row of the group: xStep of each aggregate.
AllStep(row) == Step(row) /\ V!Step(row.num)
AllFinalize(f) == Finalize(f) /\ V!Finalize
AllNextGroup == NextGroup /\ V!NextGroup

Scalar == seen = << >> /\ result = Pending /\ T!Next

AllNext ==
  \/ /\ call = T!Idle
     /\ \/ \E row \in Rows : AllStep(row)
        \/ \E f \in {"mode"} \cup DOMAIN Quantiles : AllFinalize(f)
        \/ AllNextGroup
     /\ UNCHANGED <<call, text>>
  \/ Scalar /\ UNCHANGED <<vars, n, rM, rS, spread>>

AllSpec == AllInit /\ [][AllNext]_allvars

(***************************************************************************)
(* Properties, besides those of OrderStatistics.                           *)
(***************************************************************************)
\* varianceStep: after every row the mean and the sum of squares are those of the two-pass formula.
OnePassIsTwoPass == V!OnePassIsTwoPass

\* varianceFinalize: the sample variance, and 0 for groups without a second row.
SampleVariance == V!SampleVariance

\* leftstr and rightstr cut between characters, also for counts beyond the length.
PartsRight == T!PartsRight

\* padl, padr and padc count characters and split an odd number of blanks to the right.
PaddingRight == T!PaddingRight

\* reverse keeps the bytes of each character together.
ReverseRight == T!ReverseRight

\* strfilter compares characters and not bytes.
FilterRight == T!FilterRight

\* charindex counts from 1, in characters, whatever the start.
IndexRight == T!IndexRight

\* proper changes the letters at the beginnings of words and nothing else.
ProperRight == T!ProperRight
=============================================================================
