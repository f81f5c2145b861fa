-------------------------- MODULE StringFunctions --------------------------
(***************************************************************************)
(* The string functions of extension-functions.c, on UTF-8 text.  A text   *)
(* is a sequence of bytes; the code walks it with a pointer, here a        *)
(* position, and Len(z) + 1 is where the terminating zero stands.  Texts   *)
(* are well formed and hold no zero and none of the code points that       *)
(* sqliteCharVal reads as U+FFFD.  A call is recorded with the characters  *)
(* of its arguments; the code sees their bytes.  Left out are a NULL in    *)
(* place of the first text, which gives NULL, NULL second arguments, and a *)
(* malloc that fails.                                                      *)
(***************************************************************************)
EXTENDS Integers, FiniteSets, SequencesExt

CONSTANTS Chars,     \* characters: sequences of bytes, a lead byte and its trailing bytes
          Trail,     \* the trailing bytes
          Blank,     \* the byte of the space
          White,     \* the bytes for which isblank holds: space and tab
          Upper,     \* toupper where it changes a byte
          Code,      \* iCode of soundex, for the letters that have one
          Alpha,     \* the bytes for which isalpha holds
          MaxText, MaxShort,  \* bounds on the characters of the first and second text
          MaxCount   \* bound on the counts

VARIABLES call,    \* the function running and its arguments
          result   \* what it returned

Texts(n) == BoundedSeq(Chars, n)
Bytes(cs) == FlattenSeq(cs)
Counts == -1..MaxCount
Idle == [fn |-> "idle"]
Error == <<"domain error">>
Least(S, default) == IF S = {} THEN default ELSE CHOOSE x \in S : \A y \in S : x <= y

(***************************************************************************)
(* Walking the bytes                                                       *)
(***************************************************************************)
\* sqliteNextChar: over the trailing bytes to the next lead byte or the end.
NextChar(z, p) ==
  CHOOSE q \in (p + 1)..(Len(z) + 1) :
    /\ q = Len(z) + 1 \/ z[q] \notin Trail
    /\ \A r \in (p + 1)..(q - 1) : z[r] \in Trail

\* The positions a loop of sqliteNextChar goes through; every such loop stops at the end.
Walk(z) ==
  LET at[k \in 0..Len(z)] == IF k = 0 THEN 1
                             ELSE IF at[k - 1] > Len(z) THEN at[k - 1] ELSE NextChar(z, at[k - 1])
  IN at

\* SKIP_UTF8: those of sqlite3Utf8CharLen, which a table of lead bytes tells how far to skip.
Width(b) == Len(CHOOSE c \in Chars : c[1] = b)
Skips(z) ==
  LET at[k \in 0..Len(z)] == IF k = 0 THEN 1
                             ELSE IF at[k - 1] > Len(z) THEN at[k - 1]
                             ELSE at[k - 1] + Width(z[at[k - 1]])
  IN at

\* How often a loop over z steps before it stands at the end.
Steps(z, at) == CHOOSE k \in 0..Len(z) : at[k] > Len(z) /\ \A j \in 0..(k - 1) : at[j] <= Len(z)
CharLen(z) == Steps(z, Skips(z))
CharCount(z) == Steps(z, Walk(z))

\* Mutant: a character is the byte the pointer stands at.
CharByte(z, k) == <<z[Walk(z)[k - 1]]>>

\* sqliteCharVal of the k-th character.
CharAt(z, k) ==
  LET p == Walk(z)[k - 1] IN SubSeq(z, p, NextChar(z, p) - 1)

\* At most n times to the next character, but not past the end.
Advance(z, n) == Walk(z)[IF n < 0 THEN 0 ELSE Least({n, Len(z)}, 0)]

(***************************************************************************)
(* The functions                                                           *)
(***************************************************************************)
LeftFunc(z, l) == SubSeq(z, 1, Advance(z, l) - 1)

\* Mutant: one character too many is skipped.
RightOffByOne(z, l) == SubSeq(z, Advance(z, CharCount(z) - l + 1), Len(z))

RightFunc(z, l) == SubSeq(z, Advance(z, CharCount(z) - l), Len(z))

\* Mutant: the bytes are reversed, not the characters.
ReverseBytes(z) == Reverse(z)

\* The result is filled from its end, the bytes of one character in their order.
ReverseFunc(z) ==
  LET r[k \in 0..CharCount(z)] == IF k = 0 THEN << >> ELSE CharAt(z, k) \o r[k - 1]
  IN r[CharCount(z)]

Blanks(k) == [i \in 1..k |-> Blank]

\* Mutant: one blank more on the left when the blanks cannot be halved.
PadLeftHeavy(fn, z, n) ==
  LET missing == n - CharLen(z)
      left == [padl |-> missing, padr |-> 0, padc |-> (missing + 1) \div 2][fn]
  IN IF n < 0 THEN Error
     ELSE IF missing <= 0 THEN z
     ELSE Blanks(left) \o z \o Blanks(missing - left)

\* padl, padr and padc differ in how many of the missing characters go before the text; the loop
\* of padc runs while 2*i + zl <= ilen.
PadFunc(fn, z, n) ==
  LET missing == n - CharLen(z)
      left == [padl |-> missing, padr |-> 0, padc |-> missing \div 2][fn]
  IN IF n < 0 THEN Error
     ELSE IF missing <= 0 THEN z
     ELSE Blanks(left) \o z \o Blanks(missing - left)

\* strfilter keeps the characters of z1 that the inner loop finds in z2.
StrFilter(z1, z2) ==
  LET found(c) == \E k \in 1..CharCount(z2) : CharAt(z2, k) = c
      f[k \in 0..CharCount(z1)] ==
        IF k = 0 THEN << >>
        ELSE IF found(CharAt(z1, k)) THEN f[k - 1] \o CharAt(z1, k) ELSE f[k - 1]
  IN f[CharCount(z1)]

\* Mutant: the index is counted from where the search began.
IndexFromStart(s, c) == c

\* _substr counts characters from where it starts to search and adds the start.
Index(s, c) == c + s

\* The inner loop of _substr: the characters of z1 are those of z2 from the one after k on.
Occurs(z1, z2, k) ==
  \A j \in 1..CharCount(z1) : k + j <= CharCount(z2) /\ CharAt(z1, j) = CharAt(z2, k + j)

\* _substr and charindex: 1-based, 0 when there is no match.
CharIndex(z1, z2, n) ==
  LET s == IF n - 1 < 0 THEN 0 ELSE n - 1
      matches == {c \in 0..(CharCount(z2) - s - 1) : Occurs(z1, z2, s + c)}
  IN IF z1 = << >> \/ matches = {} THEN 0 ELSE Index(s, Least(matches, 0)) + 1

\* Mutant: only the space is a blank.
IsSpace(r) == r = Blank

\* isblank(r): proper leaves the byte as it is, and the next one starts a word.
IsBlank(r) == r \in White

ToUpper(b) == IF b \in DOMAIN Upper THEN Upper[b] ELSE b
ToLower(b) == IF b \in Range(Upper) THEN CHOOSE a \in DOMAIN Upper : Upper[a] = b ELSE b

\* proper goes byte by byte and changes no trailing byte.
Proper(z) ==
  [i \in DOMAIN z |-> IF IsBlank(z[i]) THEN z[i]
                      ELSE IF i = 1 \/ IsBlank(z[i - 1]) THEN ToUpper(z[i]) ELSE ToLower(z[i])]

\* The first letter, and the codes of all letters from it on, itself included.
Soundex(z) ==
  LET letters == {i \in DOMAIN z : z[i] \in Alpha}
      first == CHOOSE i \in letters : \A j \in letters : i <= j
      codes == FoldLeft(LAMBDA a, b : IF b \in DOMAIN Code THEN Append(a, Code[b]) ELSE a,
                        << >>, SubSeq(z, first, Len(z)))
      padded == codes \o <<0, 0, 0>>
  IN IF letters = {} THEN <<"?", 0, 0, 0>>
     ELSE <<ToUpper(z[first])>> \o SubSeq(padded, 1, 3)

Difference(z1, z2) == Cardinality({i \in 1..4 : Soundex(z1)[i] = Soundex(z2)[i]})

Copies(z, n) == FlattenSeq([i \in 1..n |-> z])

(***************************************************************************)
(* Calls                                                                   *)
(***************************************************************************)
Init ==
  /\ call = Idle
  /\ result = << >>

Call(fn, z, y, n, r) ==
  /\ call' = [fn |-> fn, z |-> z, y |-> y, n |-> n]
  /\ result' = r

\* rightstr with a negative count leaves the text and is undefined.
Part(z, n) ==
  \/ Call("leftstr", z, << >>, n, LeftFunc(Bytes(z), n))
  \/ n >= 0 /\ Call("rightstr", z, << >>, n, RightFunc(Bytes(z), n))
Pad(z, n) == \E fn \in {"padl", "padr", "padc"} : Call(fn, z, << >>, n, PadFunc(fn, Bytes(z), n))
Whole(z) ==
  \/ Call("reverse", z, << >>, 0, ReverseFunc(Bytes(z)))
  \/ Call("proper", z, << >>, 0, Proper(Bytes(z)))
Compare(z, y) ==
  \/ Call("strfilter", z, y, 0, StrFilter(Bytes(z), Bytes(y)))
  \/ Call("difference", z, y, 0, Difference(Bytes(z), Bytes(y)))
Find(z, y, n) == Call("charindex", z, y, n, CharIndex(Bytes(y), Bytes(z), n))

\* With a count of zero nothing is written to the buffer that is returned as text: whatever was
\* there before is the result.
Replicate(z, n) ==
  \/ n < 0 /\ Call("replicate", z, << >>, n, Error)
  \/ n = 0 /\ \E r \in Texts(1) : Call("replicate", z, << >>, n, Bytes(r))
  \/ n > 0 /\ Call("replicate", z, << >>, n, Copies(Bytes(z), n))

Return ==
  /\ call # Idle
  /\ call' = Idle
  /\ result' = << >>

Next ==
  \/ call = Idle /\ \E z \in Texts(MaxText) :
       \/ Whole(z)
       \/ \E n \in Counts : Part(z, n) \/ Pad(z, n) \/ Replicate(z, n)
       \/ \E y \in Texts(MaxShort) : Compare(z, y) \/ \E n \in Counts : Find(z, y, n)
  \/ Return

(***************************************************************************)
(* Properties: the functions on bytes against their meaning on characters. *)
(***************************************************************************)
Given == call.z
Is(fn) == call.fn = fn
Means(cs) == result = Bytes(cs)

\* leftstr and rightstr cut between characters: n characters, or all if there are fewer.
PartsRight ==
  /\ Is("leftstr") => Means(SubSeq(Given, 1, Least({call.n, Len(Given)}, 0)))
  /\ Is("rightstr") =>
       Means(SubSeq(Given, 1 + Len(Given) - Least({call.n, Len(Given)}, 0), Len(Given)))

\* padl, padr and padc give exactly n characters, or change nothing; the text is whole inside, and
\* padc has at most one blank more on the right than on the left.
PaddingRight ==
  call.fn \in {"padl", "padr", "padc"} /\ call.n >= 0 =>
    IF call.n <= Len(Given) THEN Means(Given)
    ELSE \E l, r \in 0..call.n :
           /\ Means([i \in 1..l |-> <<Blank>>] \o Given \o [i \in 1..r |-> <<Blank>>])
           /\ l + Len(Given) + r = call.n
           /\ Is("padl") => r = 0
           /\ Is("padr") => l = 0
           /\ Is("padc") => r - l \in {0, 1}

\* reverse reverses characters and keeps the bytes of each in order.
ReverseRight == Is("reverse") => Means(Reverse(Given))

\* The elements of cs that are in S, in their order.
Selected(cs, S) ==
  LET f[k \in 0..Len(cs)] == IF k = 0 THEN << >>
                             ELSE IF cs[k] \in S THEN Append(f[k - 1], cs[k]) ELSE f[k - 1]
  IN f[Len(cs)]

\* strfilter keeps exactly the characters of the first text that occur in the second, in order.
FilterRight == Is("strfilter") => Means(Selected(Given, Range(call.y)))

\* charindex gives the first position, in characters and from 1, at or after n where the text is
\* found, and 0 if there is none or it is empty.
IndexRight ==
  Is("charindex") =>
    result = Least({k \in 1..Len(Given) : /\ call.y # << >>
                                          /\ k >= call.n
                                          /\ IsPrefix(call.y, SubSeq(Given, k, Len(Given)))}, 0)

\* proper: a letter is a capital exactly at the beginning or after a space or a tab, and everything else is
\* as it was; in particular no character of several bytes changes.
ProperRight ==
  Is("proper") =>
    Means([i \in DOMAIN Given |->
             IF i = 1 \/ Given[i - 1] \in {<<b>> : b \in White}
             THEN [j \in DOMAIN Given[i] |-> ToUpper(Given[i][j])]
             ELSE [j \in DOMAIN Given[i] |-> ToLower(Given[i][j])]])
=============================================================================
