---------------------------- MODULE ValuesProofs ----------------------------
(***************************************************************************)
(* Proofs about Values, for any values of the program, any columns, any    *)
(* width of an integer and of a double, and any number of rows.            *)
(***************************************************************************)
EXTENDS Values, WellFoundedInduction, SequenceTheorems, TLAPS

---------------------------------------------------------------------------
(* Arithmetic *)

\* A byte taken modulo Bytes is that byte, and also when it was read as a signed one.
LEMMA SmallModulo ==
    ASSUME NEW b \in 0..(Bytes - 1)
    PROVE  b % Bytes = b /\ Signed(b) % Bytes = b /\ Signed(b) \in Int
  BY ValuesAssumption DEF Signed

LEMMA ModuloIsByte ==
    ASSUME NEW n \in Int
    PROVE  n % Bytes \in 0..(Bytes - 1)
  BY ValuesAssumption

\* Doubles hold the integers up to Exact.
LEMMA ExactDouble ==
    ASSUME NEW i \in Int
    PROVE  ToDouble(i) \in Int /\ (2 * i \in (-2 * Exact)..(2 * Exact) => ToDouble(i) = 2 * i)
  BY ValuesAssumption DEF ToDouble

---------------------------------------------------------------------------
(* Texts and blobs *)

LEMMA FirstOf ==
    ASSUME NEW S, S \subseteq Nat, S # {}
    PROVE  \E i \in S : \A j \in S : i <= j
  <1> DEFINE R == {ss \in Nat \X Nat : ss[1] < ss[2]}
  <1>1. IsWellFoundedOn(R, Nat)
    BY NatLessThanWellFounded, Zenon DEF OpToRel
  <1> HIDE DEF R
  <1>2. PICK i \in S : \A j \in S : ~(<<j, i>> \in R)
    BY <1>1, WFMin
  <1>3. \A j \in S : ~(j < i)
    BY <1>2 DEF R
  <1> QED
    BY <1>3

LEMMA TextCut ==
    ASSUME NEW t \in Texts
    PROVE  UpToNul(t) \in Texts /\ ((\A i \in DOMAIN t : t[i] # NUL) => UpToNul(t) = t)
  <1> DEFINE ends == {i \in DOMAIN t : t[i] = NUL}
             first == CHOOSE i \in ends : \A j \in ends : i <= j
  <1>1. CASE ends = {}
    BY <1>1 DEF UpToNul
  <1>2. CASE ends # {}
    <2>1. ends \subseteq Nat
      BY DEF Texts
    <2>2. first \in ends
      BY <1>2, <2>1, FirstOf
    <2>3. first \in Int /\ first <= Len(t) /\ Len(t) \in Nat /\ t \in Seq(STRING)
      BY <2>2 DEF Texts
    <2> HIDE DEF first
    <2>4. SubSeq(t, 1, first - 1) \in Texts
      BY <2>3 DEF Texts
    <2>5. UpToNul(t) = SubSeq(t, 1, first - 1)
      BY <1>2 DEF UpToNul, first
    <2> QED
      BY <1>2, <2>4, <2>5
  <1> QED
    BY <1>1, <1>2

LEMMA StoredBytes ==
    ASSUME NEW a \in Seq(Int)
    PROVE  Stored(a) \in Seq(0..(Bytes - 1)) /\ Stored(a) \in Seq(Int) /\ ReadHeap(a) \in Seq(Int)
  <1>1. DOMAIN a = 1..Len(a) /\ Len(a) \in Nat /\ \A i \in DOMAIN a : a[i] \in Int
    OBVIOUS
  <1>2. \A i \in DOMAIN a : a[i] % Bytes \in 0..(Bytes - 1)
    BY <1>1, ModuloIsByte
  <1>3. Stored(a) \in [1..Len(a) -> 0..(Bytes - 1)]
    BY <1>1, <1>2 DEF Stored
  <1>4. Stored(a) \in Seq(0..(Bytes - 1)) /\ Stored(a) \in Seq(Int)
    <2> DEFINE S == 0..(Bytes - 1)
    <2>1. S \subseteq Int /\ Len(a) \in Nat
      OBVIOUS
    <2> HIDE DEF S
    <2>2. Stored(a) \in [1..Len(a) -> S]
      BY <1>3 DEF S
    <2>3. Stored(a) \in [1..Len(a) -> Int]
      BY <2>1, <2>2
    <2>4. \A f, T : f \in [1..Len(a) -> T] => f \in Seq(T)
      BY <2>1
    <2> QED
      BY <2>2, <2>3, <2>4 DEF S
  <1>5. \A i \in DOMAIN a : Signed(a[i]) \in Int
    BY <1>1, ValuesAssumption DEF Signed
  <1>6. \A i \in DOMAIN a : (IF grown THEN 0 ELSE Signed(a[i]) % Bytes) \in Int
    BY <1>5, ModuloIsByte
  <1>7. ReadHeap(a) \in [1..Len(a) -> Int]
    <2> DEFINE f(i) == IF grown THEN 0 ELSE Signed(a[i]) % Bytes
    <2>1. \A i \in 1..Len(a) : f(i) \in Int
      BY <1>1, <1>6
    <2>2. ReadHeap(a) = [i \in 1..Len(a) |-> f(i)]
      BY <1>1 DEF ReadHeap
    <2> HIDE DEF f
    <2> QED
      BY <2>1, <2>2
  <1> QED
    BY <1>1, <1>4, <1>7

\* What allocate has stored is stored and read again without a change.
LEMMA BytesKept ==
    ASSUME NEW a \in Seq(Int)
    PROVE  Stored(Stored(a)) = Stored(a) /\ (~grown => ReadHeap(Stored(a)) = Stored(a))
  <1> DEFINE b == Stored(a)
  <1>1. b \in Seq(0..(Bytes - 1))
    BY StoredBytes
  <1> HIDE DEF b
  <1>2. \A i \in DOMAIN b : b[i] \in 0..(Bytes - 1)
    <2> DEFINE S == 0..(Bytes - 1)
    <2>1. b \in Seq(S)
      BY <1>1
    <2> HIDE DEF S
    <2>2. \A i \in DOMAIN b : b[i] \in S
      BY <2>1
    <2> QED
      BY <2>2 DEF S
  <1>3. \A i \in DOMAIN b : b[i] % Bytes = b[i] /\ Signed(b[i]) % Bytes = b[i]
    BY <1>2, SmallModulo
  <1>4. b = [i \in DOMAIN b |-> b[i]]
    BY <1>1
  <1>5. Stored(b) = b
    BY <1>3, <1>4 DEF Stored
  <1>6. ~grown => ReadHeap(b) = b
    BY <1>3, <1>4 DEF ReadHeap
  <1> QED
    BY <1>5, <1>6 DEF b

---------------------------------------------------------------------------
(* Conversions *)

\* The kinds of values, with what belongs to each.
LEMMA JsKinds ==
    ASSUME NEW js \in JsValue
    PROVE  \/ js[1] = "number" /\ js[2] \in Int /\ js = <<"number", js[2]>>
           \/ js[1] = "boolean" /\ js[2] \in BOOLEAN
           \/ js[1] = "string" /\ js[2] \in Texts /\ js = <<"string", js[2]>>
           \/ js[1] = "array" /\ js[2] \in Seq(Int)
           \/ js[1] = "NaN" /\ js = <<"NaN", 0>>
           \/ js[1] = "null" /\ js = Null
  BY DEF JsValue, Null

LEMMA SqlKinds ==
    ASSUME NEW s \in SqlValue
    PROVE  \/ s[1] = "integer" /\ s[2] \in Int
           \/ s[1] = "real" /\ s[2] \in Int
           \/ s[1] = "text" /\ s[2] \in Texts
           \/ s[1] = "blob" /\ s[2] \in Seq(Int)
           \/ s[1] = "null" /\ s = Null
  BY DEF SqlValue, Null

\* bindNumber: whichever of the two classes it takes, the number reads as it was.
LEMMA NumberBound ==
    ASSUME NEW h \in Int
    PROVE  /\ BindNumber(h) \in SqlValue /\ BindNumber(h)[1] \in {"integer", "real"}
           /\ h \in (-2 * Exact)..(2 * Exact) => GetNumber(BindNumber(h)) = <<"number", h>>
  <1>1. CASE IsInt32(h)
    <2>1. h \div 2 \in Int /\ 2 * (h \div 2) = h
      BY <1>1 DEF IsInt32
    <2>2. BindNumber(h) = <<"integer", h \div 2>>
      BY <1>1 DEF BindNumber
    <2>3. GetNumber(BindNumber(h)) = <<"number", ToDouble(h \div 2)>>
      BY <2>2 DEF GetNumber
    <2> QED
      BY <2>1, <2>2, <2>3, ExactDouble DEF SqlValue
  <1>2. CASE ~IsInt32(h)
    BY <1>2 DEF BindNumber, GetNumber, SqlValue
  <1> QED
    BY <1>1, <1>2

\* A value reads as js should.
Reads(s, js) == Common(js) /\ (js[1] = "array" => ~grown) => Getter(s[1], s) = Plain(js)

\* bindValue keeps what the two languages have in common.
LEMMA BindKeeps ==
    ASSUME NEW js \in JsValue
    PROVE  Bind(js) \in SqlValue /\ Reads(Bind(js), js)
  <1>1. CASE js[1] = "number"
    <2>1. js[2] \in Int /\ js = <<"number", js[2]>>
      BY <1>1, JsKinds
    <2>2. Bind(js) = BindNumber(js[2])
      BY <1>1 DEF Bind
    <2>3. Getter(Bind(js)[1], Bind(js)) = GetNumber(Bind(js))
      BY <2>1, <2>2, NumberBound DEF Getter
    <2>4. Plain(js) = js
      BY <1>1 DEF Plain
    <2> QED
      BY <1>1, <2>1, <2>2, <2>3, <2>4, NumberBound DEF Reads, Common
  <1>2. CASE js[1] = "boolean"
    <2> DEFINE h == IF js[2] THEN 2 ELSE 0
    <2>1. Bind(js) = BindNumber(h) /\ Plain(js) = <<"number", h>>
      BY <1>2 DEF Bind, Plain
    <2>2. h \in Int /\ h \in (-2 * Exact)..(2 * Exact)
      BY ValuesAssumption
    <2> HIDE DEF h
    <2>3. BindNumber(h) \in SqlValue /\ BindNumber(h)[1] \in {"integer", "real"}
          /\ GetNumber(BindNumber(h)) = <<"number", h>>
      BY <2>2, NumberBound
    <2>4. Getter(Bind(js)[1], Bind(js)) = GetNumber(Bind(js))
      BY <2>1, <2>3 DEF Getter
    <2> QED
      BY <2>1, <2>3, <2>4 DEF Reads
  <1>3. CASE js[1] = "string"
    <2>1. js[2] \in Texts /\ js = <<"string", js[2]>> /\ Plain(js) = js /\ Bind(js) = <<"text", js[2]>>
      BY <1>3, JsKinds DEF Plain, Bind
    <2>2. Getter("text", Bind(js)) = <<"string", UpToNul(js[2])>>
      BY <2>1 DEF Getter, GetString
    <2>3. Common(js) => UpToNul(js[2]) = js[2]
      BY <1>3, <2>1, TextCut DEF Common
    <2> QED
      BY <2>1, <2>2, <2>3 DEF Reads, SqlValue
  <1>4. CASE js[1] = "array"
    <2>1. js[2] \in Seq(Int) /\ Plain(js) = <<"array", Stored(js[2])>> /\ Bind(js) = <<"blob", Stored(js[2])>>
      BY <1>4, JsKinds DEF Plain, Bind
    <2>2. Getter("blob", Bind(js)) = <<"array", ReadHeap(Stored(js[2]))>>
      BY <2>1 DEF Getter, GetBlob
    <2>3. Stored(js[2]) \in Seq(Int) /\ (~grown => ReadHeap(Stored(js[2])) = Stored(js[2]))
      BY <2>1, StoredBytes, BytesKept
    <2> QED
      BY <1>4, <2>1, <2>2, <2>3 DEF Reads, SqlValue
  <1>5. CASE js[1] = "NaN"
    BY <1>5 DEF Bind, Reads, Common, SqlValue
  <1>6. CASE js[1] = "null"
    <2>1. js = Null /\ Bind(js) = Null /\ Plain(js) = Null
      BY <1>6, JsKinds DEF Plain, Bind, Null
    <2> QED
      BY <2>1 DEF Reads, SqlValue, Getter, Null
  <1> QED
    BY <1>1, <1>2, <1>3, <1>4, <1>5, <1>6, JsKinds

\* A JavaScript function receives what the getters would have given, and so does the program.
LEMMA GetterKinds ==
    ASSUME NEW s \in SqlValue
    PROVE  Getter(s[1], s) \in JsValue /\ Argument(s) = Getter(s[1], s)
  <1>1. CASE s[1] \in {"integer", "real"}
    <2>1. GetNumber(s) \in {"number"} \X Int
      BY <1>1, SqlKinds, ExactDouble DEF GetNumber
    <2> QED
      BY <1>1, <2>1 DEF Getter, Argument, JsValue
  <1>2. CASE s[1] = "text"
    <2>1. GetString(s) \in {"string"} \X Texts
      BY <1>2, SqlKinds, TextCut DEF GetString
    <2> QED
      BY <1>2, <2>1 DEF Getter, Argument, JsValue
  <1>3. CASE s[1] = "blob"
    <2>1. s[2] \in Seq(Int) /\ ReadHeap(s[2]) \in Seq(Int)
      BY <1>3, SqlKinds, StoredBytes
    <2>2. GetBlob(s) = <<"array", ReadHeap(s[2])>>
      BY <1>3 DEF GetBlob
    <2>3. GetBlob(s) \in {"array"} \X Seq(Int)
      BY <2>1, <2>2
    <2> QED
      BY <1>3, <2>3 DEF Getter, Argument, JsValue
  <1>4. CASE s[1] = "null"
    BY <1>4 DEF Getter, Argument, JsValue
  <1> QED
    BY <1>1, <1>2, <1>3, <1>4, SqlKinds

\* wrapped_func returns what the languages have in common, too.
LEMMA ResultKeeps ==
    ASSUME NEW js \in JsValue
    PROVE  Result(js) \in SqlValue /\ Reads(Result(js), js)
  <1>1. CASE js[1] = "number"
    <2>1. js[2] \in Int /\ js = <<"number", js[2]>> /\ Result(js) = <<"real", js[2]>> /\ Plain(js) = js
      BY <1>1, JsKinds DEF Result, Plain
    <2> QED
      BY <2>1 DEF Reads, Getter, GetNumber, SqlValue
  <1>2. CASE js[1] = "boolean"
    <2> DEFINE i == IF js[2] THEN 1 ELSE 0
    <2>1. Result(js) = <<"integer", i>> /\ Plain(js) = <<"number", 2 * i>>
      BY <1>2 DEF Result, Plain
    <2>2. i \in Int /\ 2 * i \in (-2 * Exact)..(2 * Exact)
      BY ValuesAssumption
    <2> HIDE DEF i
    <2>3. ToDouble(i) = 2 * i
      BY <2>2, ExactDouble
    <2> QED
      BY <2>1, <2>2, <2>3 DEF Reads, Getter, GetNumber, SqlValue
  <1>3. CASE js[1] = "string"
    <2>1. js[2] \in Texts /\ js = <<"string", js[2]>> /\ Plain(js) = js
          /\ Result(js) = <<"text", UpToNul(js[2])>> /\ UpToNul(js[2]) \in Texts
      BY <1>3, JsKinds, TextCut DEF Plain, Result
    <2>2. Getter("text", Result(js)) = <<"string", UpToNul(UpToNul(js[2]))>>
      BY <2>1 DEF Getter, GetString
    <2>3. Common(js) => UpToNul(js[2]) = js[2]
      BY <1>3, <2>1, TextCut DEF Common
    <2> QED
      BY <2>1, <2>2, <2>3 DEF Reads, SqlValue
  <1>4. CASE js[1] = "array"
    <2>1. Result(js) = Bind(js)
      BY <1>4 DEF Result, Bind
    <2> QED
      BY <2>1, BindKeeps
  <1>5. CASE js[1] \in {"NaN", "null"}
    <2>1. Result(js) = Bind(js)
      BY <1>5 DEF Result, Bind
    <2> QED
      BY <2>1, BindKeeps
  <1> QED
    BY <1>1, <1>2, <1>3, <1>4, <1>5, JsKinds

\* What a common value reads as is common and reads as itself.
LEMMA PlainIsPlain ==
    ASSUME NEW js \in JsValue, Common(js)
    PROVE  /\ Plain(js) \in JsValue /\ Common(Plain(js)) /\ Plain(Plain(js)) = Plain(js)
           /\ Plain(js)[1] = "array" <=> js[1] = "array"
  <1>1. CASE js[1] = "number" \/ js[1] = "string" \/ js[1] = "null"
    <2>1. Plain(js) = js
      BY <1>1 DEF Plain
    <2> QED
      BY <2>1
  <1>2. CASE js[1] = "boolean"
    <2> DEFINE h == IF js[2] THEN 2 ELSE 0
    <2>1. Plain(js) = <<"number", h>> /\ h \in Int /\ h \in (-2 * Exact)..(2 * Exact)
      BY <1>2, ValuesAssumption DEF Plain
    <2> HIDE DEF h
    <2>2. Plain(<<"number", h>>) = <<"number", h>> /\ Common(<<"number", h>>) /\ <<"number", h>> \in JsValue
      BY <2>1 DEF Plain, Common, JsValue
    <2> QED
      BY <1>2, <2>1, <2>2
  <1>3. CASE js[1] = "array"
    <2> DEFINE b == Stored(js[2])
    <2>1. Plain(js) = <<"array", b>> /\ b \in Seq(Int) /\ Stored(b) = b
      BY <1>3, JsKinds, StoredBytes, BytesKept DEF Plain
    <2> HIDE DEF b
    <2>2. Plain(<<"array", b>>) = <<"array", Stored(b)>> /\ Common(<<"array", b>>) /\ <<"array", b>> \in JsValue
      BY <2>1 DEF Plain, Common, JsValue
    <2> QED
      BY <1>3, <2>1, <2>2
  <1>4. js[1] # "NaN"
    BY DEF Common
  <1> QED
    BY <1>1, <1>2, <1>3, <1>4, JsKinds

\* To read a value and to bind or return what was read changes nothing that can be noticed.
LEMMA CopyKeeps ==
    ASSUME NEW s \in SqlValue, NEW js \in JsValue, Reads(s, js)
    PROVE  /\ Bind(Getter(s[1], s)) \in SqlValue /\ Reads(Bind(Getter(s[1], s)), js)
           /\ Result(Argument(s)) \in SqlValue /\ Reads(Result(Argument(s)), js)
  <1> DEFINE v == Getter(s[1], s)
  <1>1. v \in JsValue /\ Argument(s) = v
    BY GetterKinds
  <1>2. ASSUME Common(js), js[1] = "array" => ~grown
        PROVE  v = Plain(js) /\ Common(v) /\ Plain(v) = Plain(js) /\ (v[1] = "array" <=> js[1] = "array")
    <2>1. v = Plain(js)
      BY <1>2 DEF Reads
    <2> HIDE DEF v
    <2> QED
      BY <1>2, <2>1, PlainIsPlain
  <1> HIDE DEF v
  <1>3. Bind(v) \in SqlValue /\ Reads(Bind(v), v) /\ Result(v) \in SqlValue /\ Reads(Result(v), v)
    BY <1>1, BindKeeps, ResultKeeps
  <1>4. Reads(Bind(v), js) /\ Reads(Result(v), js)
    BY <1>2, <1>3 DEF Reads
  <1> QED
    BY <1>1, <1>3, <1>4 DEF v

---------------------------------------------------------------------------
(* The invariant *)

\* Reads, with the growth of the memory as a parameter.
Shown(g, s) ==
  CASE s[1] \in {"integer", "real"} -> GetNumber(s)
    [] s[1] = "text"                -> GetString(s)
    [] s[1] = "blob"                -> <<"array", [i \in DOMAIN s[2] |-> IF g THEN 0 ELSE Signed(s[2][i]) % Bytes]>>
    [] s[1] = "null"                -> Null

ReadsIf(g, s, js) == Common(js) /\ (js[1] = "array" => ~g) => Shown(g, s) = Plain(js)

LEMMA SameReads ==
    ASSUME NEW s \in SqlValue, NEW js \in JsValue
    PROVE  Getter(s[1], s) = Shown(grown, s) /\ (Reads(s, js) <=> ReadsIf(grown, s, js))
  <1>1. Getter(s[1], s) = Shown(grown, s)
    BY SqlKinds DEF Getter, GetBlob, ReadHeap, Shown
  <1> QED
    BY <1>1 DEF Reads, ReadsIf

\* Only blobs read differently when the memory has grown.
LEMMA GrowKeeps ==
    ASSUME NEW s \in SqlValue, NEW js \in JsValue, ReadsIf(FALSE, s, js)
    PROVE  ReadsIf(TRUE, s, js)
  <1> SUFFICES ASSUME Common(js), js[1] # "array" PROVE Shown(TRUE, s) = Plain(js)
    BY DEF ReadsIf
  <1>1. Shown(FALSE, s) = Plain(js)
    BY DEF ReadsIf
  <1>2. Plain(js)[1] # "array"
    BY PlainIsPlain
  <1>3. s[1] # "blob"
    BY <1>1, <1>2 DEF Shown
  <1>4. Shown(TRUE, s) = Shown(FALSE, s)
    BY <1>3, SqlKinds DEF Shown
  <1> QED
    BY <1>1, <1>4

ValuesTypes ==
  /\ rows \in Seq([Index -> SqlValue])
  /\ wanted \in Seq([Index -> JsValue])
  /\ Len(wanted) = Len(rows)
  /\ grown \in BOOLEAN

Faithful == \A r \in 1..Len(rows), c \in Index : ReadsIf(grown, rows[r][c], wanted[r][c])

ValuesInv == ValuesTypes /\ Faithful

LEMMA Cells ==
    ASSUME ValuesInv, NEW r \in 1..Len(rows), NEW c \in Index
    PROVE  /\ rows[r] \in [Index -> SqlValue] /\ wanted[r] \in [Index -> JsValue]
           /\ rows[r][c] \in SqlValue /\ wanted[r][c] \in JsValue
           /\ Reads(rows[r][c], wanted[r][c])
  <1>1. /\ rows[r] \in [Index -> SqlValue] /\ wanted[r] \in [Index -> JsValue]
        /\ rows[r][c] \in SqlValue /\ wanted[r][c] \in JsValue
    BY DEF ValuesInv, ValuesTypes
  <1> QED
    BY <1>1, SameReads DEF ValuesInv, Faithful

\* A row is added that reads as js should.
LEMMA AddKeeps ==
    ASSUME ValuesInv, NEW row \in [Index -> SqlValue], NEW js \in [Index -> JsValue],
           \A c \in Index : Reads(row[c], js[c]), AddRow(row, js)
    PROVE  ValuesInv'
  <1>1. ValuesTypes'
    BY DEF ValuesInv, ValuesTypes, AddRow
  <1>2. \A c \in Index : ReadsIf(grown, row[c], js[c])
    BY SameReads
  <1>3. ASSUME NEW r \in 1..Len(rows'), NEW c \in Index
        PROVE  ReadsIf(grown, rows'[r][c], wanted'[r][c])
    <2>1. CASE r = Len(rows) + 1
      BY <1>2, <2>1 DEF ValuesInv, ValuesTypes, AddRow
    <2>2. CASE r \in 1..Len(rows)
      BY <2>2 DEF ValuesInv, ValuesTypes, Faithful, AddRow
    <2> QED
      BY <2>1, <2>2 DEF ValuesInv, ValuesTypes, AddRow
  <1>4. Faithful'
    BY <1>3 DEF Faithful, AddRow
  <1> QED
    BY <1>1, <1>4 DEF ValuesInv

\* One cell is replaced by a value that reads as js should.
LEMMA UpdateKeeps ==
    ASSUME ValuesInv, NEW r \in 1..Len(rows), NEW c \in Index, NEW s \in SqlValue, NEW js \in JsValue,
           Reads(s, js), rows' = [rows EXCEPT ![r][c] = s], wanted' = [wanted EXCEPT ![r][c] = js],
           grown' = grown
    PROVE  ValuesInv'
  <1>1. [rows[r] EXCEPT ![c] = s] \in [Index -> SqlValue] /\ [wanted[r] EXCEPT ![c] = js] \in [Index -> JsValue]
    BY Cells
  <1>2. ValuesTypes'
    BY <1>1 DEF ValuesInv, ValuesTypes
  <1>3. ReadsIf(grown, s, js)
    BY SameReads
  <1>4. ASSUME NEW q \in 1..Len(rows'), NEW d \in Index
        PROVE  ReadsIf(grown, rows'[q][d], wanted'[q][d])
    <2>1. q \in 1..Len(rows) /\ rows[q] \in [Index -> SqlValue] /\ wanted[q] \in [Index -> JsValue]
      BY Cells DEF ValuesInv, ValuesTypes
    <2>2. CASE q = r /\ d = c
      <3>1. rows'[q][d] = s /\ wanted'[q][d] = js
        BY <2>1, <2>2 DEF ValuesInv, ValuesTypes
      <3> QED
        BY <1>3, <3>1
    <2>3. CASE ~(q = r /\ d = c)
      <3>1. rows'[q][d] = rows[q][d] /\ wanted'[q][d] = wanted[q][d]
        BY <2>1, <2>3 DEF ValuesInv, ValuesTypes
      <3> QED
        BY <2>1, <3>1 DEF ValuesInv, Faithful
    <2> QED
      BY <2>2, <2>3
  <1>5. Faithful'
    BY <1>4 DEF Faithful
  <1> QED
    BY <1>2, <1>5 DEF ValuesInv

LEMMA InitValues == Init => ValuesInv
  <1> SUFFICES ASSUME Init PROVE ValuesInv
    OBVIOUS
  <1>1. Len(rows) = 0 /\ Len(wanted) = 0 /\ rows = << >> /\ wanted = << >> /\ grown = FALSE
    BY DEF Init
  <1>2. ValuesTypes
    <2>1. \A S : << >> \in Seq(S)
      OBVIOUS
    <2>2. rows \in Seq([Index -> SqlValue]) /\ wanted \in Seq([Index -> JsValue])
      BY <1>1, <2>1, Zenon
    <2> QED
      BY <1>1, <2>2 DEF ValuesTypes
  <1>3. 1..Len(rows) = {}
    BY <1>1
  <1> QED
    BY <1>2, <1>3 DEF ValuesInv, Faithful

LEMMA NextValues ==
    ASSUME ValuesInv, [Next]_vars
    PROVE  ValuesInv'
  <1>1. ASSUME NEW js \in [Index -> JsValues], Insert(js)
        PROVE  ValuesInv'
    <2> DEFINE row == [c \in Index |-> Bind(js[c])]
    <2>1. js \in [Index -> JsValue]
      BY ValuesAssumption
    <2>2. \A c \in Index : js[c] \in JsValue
      BY <2>1
    <2>3. \A c \in Index : Bind(js[c]) \in SqlValue /\ Reads(Bind(js[c]), js[c])
      BY <2>2, BindKeeps
    <2>4. row \in [Index -> SqlValue] /\ AddRow(row, js)
      BY <1>1, <2>3 DEF Insert
    <2>5. \A c \in Index : Reads(row[c], js[c])
      BY <2>3
    <2> HIDE DEF row
    <2> QED
      BY <2>1, <2>4, <2>5, AddKeeps
  <1>2. ASSUME NEW i \in LongInts, InsertLong(i)
        PROVE  ValuesInv'
    <2> DEFINE s == <<"integer", i>>
               js == <<"number", 2 * i>>
               row == [c \in Index |-> s]
               wants == [c \in Index |-> js]
    <2>1. i \in Int /\ s \in SqlValue /\ js \in JsValue
      BY ValuesAssumption DEF SqlValue, JsValue
    <2>2. Getter(s[1], s) = <<"number", ToDouble(i)>> /\ Plain(js) = js
      BY DEF Getter, GetNumber, Plain
    <2>3. Reads(s, js)
      BY <2>1, <2>2, ExactDouble DEF Reads, Common
    <2>4. row \in [Index -> SqlValue] /\ wants \in [Index -> JsValue] /\ AddRow(row, wants)
      BY <1>2, <2>1 DEF InsertLong
    <2>5. \A c \in Index : Reads(row[c], wants[c])
      BY <2>3
    <2> HIDE DEF row, wants
    <2> QED
      BY <2>4, <2>5, AddKeeps
  <1>3. ASSUME NEW r \in DOMAIN rows, Copy(r)
        PROVE  ValuesInv'
    <2> DEFINE row == [c \in Index |-> Bind(Get(rows[r])[c])]
    <2>1. r \in 1..Len(rows)
      BY DEF ValuesInv, ValuesTypes
    <2>2. wanted[r] \in [Index -> JsValue]
      BY <2>1 DEF ValuesInv, ValuesTypes
    <2>3. \A c \in Index : row[c] = Bind(Getter(rows[r][c][1], rows[r][c]))
      BY DEF Get
    <2>4. \A c \in Index : row[c] \in SqlValue /\ Reads(row[c], wanted[r][c])
      <3> SUFFICES ASSUME NEW c \in Index PROVE row[c] \in SqlValue /\ Reads(row[c], wanted[r][c])
        OBVIOUS
      <3>1. rows[r][c] \in SqlValue /\ wanted[r][c] \in JsValue /\ Reads(rows[r][c], wanted[r][c])
        BY <2>1, Cells
      <3> HIDE DEF row
      <3> QED
        BY <2>3, <3>1, CopyKeeps
    <2>5. row \in [Index -> SqlValue] /\ AddRow(row, wanted[r])
      BY <1>3, <2>4 DEF Copy
    <2> HIDE DEF row
    <2> QED
      BY <2>2, <2>4, <2>5, AddKeeps
  <1>4. ASSUME NEW r \in DOMAIN rows, NEW c \in Index, Apply(r, c)
        PROVE  ValuesInv'
    <2> DEFINE s == Result(Argument(rows[r][c]))
    <2>1. r \in 1..Len(rows)
      BY DEF ValuesInv, ValuesTypes
    <2>2. /\ wanted[r] \in [Index -> JsValue] /\ rows[r][c] \in SqlValue /\ wanted[r][c] \in JsValue
          /\ Reads(rows[r][c], wanted[r][c])
      BY <2>1, Cells
    <2>3. s \in SqlValue /\ Reads(s, wanted[r][c])
      BY <2>2, CopyKeeps
    <2>4. wanted' = [wanted EXCEPT ![r][c] = wanted[r][c]]
      BY <1>4, <2>1, <2>2 DEF Apply, ValuesInv, ValuesTypes
    <2>5. rows' = [rows EXCEPT ![r][c] = s] /\ grown' = grown
      BY <1>4 DEF Apply
    <2> HIDE DEF s
    <2> QED
      BY <2>1, <2>2, <2>3, <2>4, <2>5, UpdateKeeps
  <1>5. ASSUME NEW r \in DOMAIN rows, NEW c \in Index, NEW js \in JsValues, Return(r, c, js)
        PROVE  ValuesInv'
    <2>1. r \in 1..Len(rows) /\ js \in JsValue
      BY ValuesAssumption DEF ValuesInv, ValuesTypes
    <2>2. Result(js) \in SqlValue /\ Reads(Result(js), js)
      BY <2>1, ResultKeeps
    <2> QED
      BY <1>5, <2>1, <2>2, UpdateKeeps DEF Return
  <1>6. CASE Grow
    <2>1. /\ rows' = rows /\ wanted' = wanted /\ grown = FALSE /\ grown' = TRUE
      BY <1>6 DEF Grow, ValuesInv, ValuesTypes
    <2>2. \A r \in 1..Len(rows), c \in Index : ReadsIf(TRUE, rows[r][c], wanted[r][c])
      <3> SUFFICES ASSUME NEW r \in 1..Len(rows), NEW c \in Index
                   PROVE  ReadsIf(TRUE, rows[r][c], wanted[r][c])
        OBVIOUS
      <3>1. rows[r][c] \in SqlValue /\ wanted[r][c] \in JsValue /\ ReadsIf(FALSE, rows[r][c], wanted[r][c])
        BY <2>1, Cells DEF ValuesInv, Faithful
      <3> QED
        BY <3>1, GrowKeeps
    <2> QED
      BY <2>1, <2>2 DEF ValuesInv, ValuesTypes, Faithful
  <1>7. CASE UNCHANGED vars
    BY <1>7 DEF vars, ValuesInv, ValuesTypes, Faithful
  <1> QED
    BY <1>1, <1>2, <1>3, <1>4, <1>5, <1>6, <1>7 DEF Next

LEMMA AlwaysValues == Spec => []ValuesInv
  BY InitValues, NextValues, PTL DEF Spec

\* A cell has one of SQLite's storage classes, with a value of it, whatever is bound, computed or
\* returned.
THEOREM ValuesTypesHold == Spec => []ValuesTypes
  BY AlwaysValues, PTL DEF ValuesInv

\* bindValue, get and wrapped_func lose nothing that JavaScript and SQLite have in common, for any
\* values, however often they are read and bound again.
THEOREM RoundTripHolds == Spec => []RoundTrip
  <1>1. ValuesInv => RoundTrip
    <2> SUFFICES ASSUME ValuesInv, NEW r \in DOMAIN rows, NEW c \in Index,
                        Common(wanted[r][c]), wanted[r][c][1] = "array" => ~grown
                 PROVE  Get(rows[r])[c] = Plain(wanted[r][c])
      BY DEF RoundTrip
    <2>1. r \in 1..Len(rows)
      BY DEF ValuesInv, ValuesTypes
    <2>2. Reads(rows[r][c], wanted[r][c])
      BY <2>1, Cells
    <2> QED
      BY <2>2 DEF Reads, Get
  <1> QED
    BY <1>1, AlwaysValues, PTL

\* Statement.exec, which chooses the getters from the first row, gives the rows that get gives if
\* every column is of one kind: integers and doubles, which have the same getter, may be mixed.
THEOREM ExecAlwaysGets == Spec => []ExecIsGet
  <1>1. ValuesInv => ExecIsGet
    <2> SUFFICES ASSUME ValuesInv,
                        \A r \in DOMAIN rows, c \in Index : Kind(rows[r][c]) = Kind(rows[1][c]),
                        NEW r \in DOMAIN rows
                 PROVE  Exec[r] = GetAsObject(rows[r])
      BY DEF ExecIsGet
    <2>1. \A c \in Index : Getter(rows[1][c][1], rows[r][c]) = Getter(rows[r][c][1], rows[r][c])
      BY DEF Kind, Getter
    <2>2. [c \in Index |-> Getter(rows[1][c][1], rows[r][c])] = Get(rows[r])
      BY <2>1 DEF Get
    <2>3. Exec[r] = ToObject([c \in Index |-> Getter(rows[1][c][1], rows[r][c])])
      BY DEF Exec
    <2> QED
      BY <2>2, <2>3 DEF GetAsObject
  <1> QED
    BY <1>1, AlwaysValues, PTL
=============================================================================
