------------------------------- MODULE Values -------------------------------
(***************************************************************************)
(* What becomes of a value on its way from JavaScript into a column, out   *)
(* of it again, and through a SQL function written in JavaScript: the bind *)
(* functions and getters of Statement, get, getAsObject and exec of        *)
(* Statement, and wrapped_func of Database.                                *)
(*                                                                         *)
(* A JavaScript value is <<type, v>>, a SQL value <<storage class, v>>.    *)
(* Numbers are counted in halves.  A text is a sequence of characters, a   *)
(* blob one of bytes, with Bytes for 256; the text of a number and the     *)
(* number in a text are not spelled out, and -0 is 0.  The columns have no *)
(* affinity.                                                               *)
(***************************************************************************)
EXTENDS Integers, Sequences

CONSTANTS JsValues,   \* the values the program binds
          Columns,    \* names of the columns, of which two may be the same
          IntSpan,    \* 2^31: integers from -IntSpan to IntSpan - 1 are bound as such
          Exact,      \* 2^53: doubles hold every integer up to it
          LongInts,   \* the integers SQL computes
          Bytes,      \* values of a byte
          MaxRows     \* bound on the rows

NUL == "NUL"
Null == <<"null", 0>>
Index == 1..Len(Columns)

\* What bindValue accepts, and what a column may hold.
Texts == Seq(STRING)
JsValue ==
  ({"number"} \X Int) \cup ({"boolean"} \X BOOLEAN) \cup ({"string"} \X Texts) \cup ({"array"} \X Seq(Int))
  \cup {<<"NaN", 0>>, Null}
SqlValue ==
  ({"integer", "real"} \X Int) \cup ({"text"} \X Texts) \cup ({"blob"} \X Seq(Int)) \cup {Null}

ASSUME ValuesAssumption ==
  /\ JsValues \subseteq JsValue
  /\ Len(Columns) \in Nat
  /\ IntSpan \in Nat /\ Exact \in Nat /\ IntSpan < Exact
  /\ LongInts \subseteq Int
  /\ Bytes \in Nat \ {0} /\ Bytes % 2 = 0
  /\ MaxRows \in Nat

VARIABLES rows,   \* the rows of the table
          wanted, \* history: for each cell the JavaScript value it should read as
          grown   \* the WebAssembly memory has grown since the modules were set up

vars == <<rows, wanted, grown>>

Init == rows = << >> /\ wanted = << >> /\ grown = FALSE

(***************************************************************************)
(* Into SQLite                                                             *)
(***************************************************************************)
IsInt32(h) == h % 2 = 0 /\ h \div 2 \in (-IntSpan)..(IntSpan - 1)

\* Mutant: every number is bound as an integer, of 32 bits.
BindNumberAsInt(h) == <<"integer", (((h \div 2) + IntSpan) % (2 * IntSpan)) - IntSpan>>

\* num === (num | 0)
BindNumber(h) == IF IsInt32(h) THEN <<"integer", h \div 2>> ELSE <<"real", h>>

\* allocate stores the elements of an array or Uint8Array as bytes.
Stored(array) == [i \in DOMAIN array |-> array[i] % Bytes]

\* bindValue; true + 0 is 1, and SQLite takes NaN for NULL.
Bind(js) ==
  CASE js[1] = "number"  -> BindNumber(js[2])
    [] js[1] = "boolean" -> BindNumber(IF js[2] THEN 2 ELSE 0)
    [] js[1] = "NaN"     -> Null
    [] js[1] = "string"  -> <<"text", js[2]>>
    [] js[1] = "array"   -> <<"blob", Stored(js[2])>>
    [] js[1] = "null"    -> Null

(***************************************************************************)
(* Out of SQLite                                                           *)
(***************************************************************************)
\* The nearest double: beyond Exact every second integer is one, and ties go to the even multiple.
ToDouble(i) ==
  LET n == IF i < 0 THEN -i ELSE i
      r == IF n <= Exact \/ n % 2 = 0 THEN n ELSE IF n % 4 = 1 THEN n - 1 ELSE n + 1
  IN  2 * (IF i < 0 THEN -r ELSE r)

\* UTF8ToString of cwrap stops at the first NUL.
UpToNul(text) ==
  LET ends == {i \in DOMAIN text : text[i] = NUL}
  IN  IF ends = {} THEN text ELSE SubSeq(text, 1, (CHOOSE i \in ends : \A j \in ends : i <= j) - 1)

\* The elements of HEAP8 are signed; a Uint8Array takes them modulo Bytes.  The view that Statement
\* and Database took at the start is detached when the memory grows, and then has no elements:
\* undefined becomes 0.
Signed(byte) == IF byte < Bytes \div 2 THEN byte ELSE byte - Bytes
ReadHeap(bytes) == [i \in DOMAIN bytes |-> IF grown THEN 0 ELSE Signed(bytes[i]) % Bytes]

\* sqlite3_column_double, _text and _blob convert what is stored.  (double)0 for NULL.
GetNumber(s) ==
  CASE s[1] = "integer" -> <<"number", ToDouble(s[2])>>
    [] s[1] = "real"    -> <<"number", s[2]>>
    [] s[1] = "null"    -> <<"number", 0>>
    [] OTHER            -> <<"number in", s[2]>>

GetString(s) ==
  CASE s[1] \in {"text", "blob"} -> <<"string", UpToNul(s[2])>>
    [] s[1] = "null"             -> <<"string", << >>>>
    [] OTHER                     -> <<"string of", s>>

GetBlob(s) ==
  CASE s[1] \in {"text", "blob"} -> <<"array", ReadHeap(s[2])>>
    [] s[1] = "null"             -> <<"array", << >>>>
    [] OTHER                     -> <<"bytes of", s>>

\* The getter for a storage class, applied to a value.
Getter(class, s) ==
  CASE class \in {"integer", "real"} -> GetNumber(s)
    [] class = "text"                -> GetString(s)
    [] class = "blob"                -> GetBlob(s)
    [] class = "null"                -> Null

Get(row) == [c \in Index |-> Getter(row[c][1], row[c])]

\* An object has one value for each name; of columns with the same name the last one is seen.
ToObject(values) ==
  [name \in {Columns[c] : c \in Index} |->
     values[CHOOSE c \in Index : Columns[c] = name /\ \A b \in Index : Columns[b] = name => b <= c]]

GetAsObject(row) == ToObject(Get(row))

\* Mutant: the getters are chosen with the index of sqlite3_bind, that starts at 1.
ExecShifted ==
  [r \in DOMAIN rows |->
     ToObject([c \in Index |-> Getter(IF c < Len(Columns) THEN rows[1][c + 1][1] ELSE "null", rows[r][c])])]

\* Statement.exec chooses the getter of each column from its first row.
Exec ==
  [r \in DOMAIN rows |-> ToObject([c \in Index |-> Getter(rows[1][c][1], rows[r][c])])]

(***************************************************************************)
(* SQL functions in JavaScript                                             *)
(***************************************************************************)
Argument(s) ==
  CASE s[1] \in {"integer", "real"} -> GetNumber(s)
    [] s[1] = "text"                -> GetString(s)
    [] s[1] = "blob"                -> GetBlob(s)
    [] s[1] = "null"                -> Null

\* A string is passed to sqlite3_result_text up to its NUL; all numbers become doubles.
Result(js) ==
  CASE js[1] = "boolean" -> <<"integer", IF js[2] THEN 1 ELSE 0>>
    [] js[1] = "number"  -> <<"real", js[2]>>
    [] js[1] = "NaN"     -> Null
    [] js[1] = "string"  -> <<"text", UpToNul(js[2])>>
    [] js[1] = "array"   -> <<"blob", Stored(js[2])>>
    [] js[1] = "null"    -> Null

(***************************************************************************)
(* Steps of a program                                                      *)
(***************************************************************************)
AddRow(row, js) ==
  /\ Len(rows) < MaxRows
  /\ rows' = Append(rows, row)
  /\ wanted' = Append(wanted, js)
  /\ UNCHANGED grown

\* INSERT with bound parameters.
Insert(js) == AddRow([c \in Index |-> Bind(js[c])], js)

\* INSERT of what SQL computes, an integer of 64 bits in every column.
InsertLong(i) == AddRow([c \in Index |-> <<"integer", i>>], [c \in Index |-> <<"number", 2 * i>>])

\* A row is read, and the values are bound in another INSERT.
Copy(r) == AddRow([c \in Index |-> Bind(Get(rows[r])[c])], wanted[r])

\* UPDATE with a function that returns its argument.
Apply(r, c) ==
  /\ rows' = [rows EXCEPT ![r][c] = Result(Argument(@))]
  /\ UNCHANGED <<wanted, grown>>

\* UPDATE with a function that returns a value of the program.
Return(r, c, js) ==
  /\ rows' = [rows EXCEPT ![r][c] = Result(js)]
  /\ wanted' = [wanted EXCEPT ![r][c] = js]
  /\ UNCHANGED grown

Grow ==
  /\ ~grown
  /\ grown' = TRUE
  /\ UNCHANGED <<rows, wanted>>

Next ==
  \/ \E js \in [Index -> JsValues] : Insert(js)
  \/ \E i \in LongInts : InsertLong(i)
  \/ \E r \in DOMAIN rows : Copy(r)
  \/ \E r \in DOMAIN rows, c \in Index : Apply(r, c)
  \/ \E r \in DOMAIN rows, c \in Index, js \in JsValues : Return(r, c, js)
  \/ Grow

Spec == Init /\ [][Next]_vars

(***************************************************************************)
(* Properties                                                              *)
(***************************************************************************)
\* The values JavaScript and SQLite have in common: not NaN, nor an integer beyond Exact, nor a
\* text with a NUL.
Common(js) ==
  /\ js[1] # "NaN"
  /\ js[1] = "number" => js[2] \in (-2 * Exact)..(2 * Exact)
  /\ js[1] = "string" => \A i \in DOMAIN js[2] : js[2][i] # NUL

\* What such a value reads as: SQLite has no booleans, and bytes for the elements of an array.
Plain(js) ==
  CASE js[1] = "boolean" -> <<"number", IF js[2] THEN 2 ELSE 0>>
    [] js[1] = "array"   -> <<"array", Stored(js[2])>>
    [] OTHER             -> js

\* However often a value is read and bound again, passed to functions and returned by them, it reads
\* as the value the program started with; a blob as long as the memory has not grown.
RoundTrip ==
  \A r \in DOMAIN rows, c \in Index :
     Common(wanted[r][c]) /\ (wanted[r][c][1] = "array" => ~grown) =>
       Get(rows[r])[c] = Plain(wanted[r][c])

\* query gives the rows that step and getAsObject give, if all values of a column are read the same
\* way as the first; names that two columns share included.
Kind(s) == IF s[1] = "integer" THEN "real" ELSE s[1]
ExecIsGet ==
  (\A r \in DOMAIN rows, c \in Index : Kind(rows[r][c]) = Kind(rows[1][c])) =>
     \A r \in DOMAIN rows : Exec[r] = GetAsObject(rows[r])

\* test/sql-js.test.js:34: "The blob stored in the database should be exactly the same as the one
\* that was inserted".
BlobsSame ==
  \A r \in DOMAIN rows, c \in Index :
     wanted[r][c][1] = "array" => Get(rows[r])[c] = Plain(wanted[r][c])
=============================================================================
