------------------------------ MODULE GetData ------------------------------
(***************************************************************************)
(* SQLGetData reading the columns of the current row in parts: GetData()   *)
(* (src/driver/api/impl/impl.cpp) keeps an offset per column and           *)
(* fillOutputString() (src/driver/utils/type_info.h) copies what fits.     *)
(*                                                                         *)
(* A value is its length in symbols; the application asks for it in        *)
(* symbols of one byte (SQL_C_CHAR) or two (SQL_C_WCHAR), terminated by a  *)
(* null symbol.  Kinds of values:                                          *)
(*   string     a String or FixedString column, or one kept as text        *)
(*   converted  any other value, formatted for every call                  *)
(*   null       NULL                                                       *)
(***************************************************************************)
EXTENDS Integers, Sequences

CONSTANTS
  Cols,        \* the columns
  Kinds,       \* kinds of values considered
  MaxLength,   \* the longest value, in symbols
  Buffers,     \* values of BufferLength, in bytes
  SizeModulus  \* size_t wraps around here

ASSUME KindsAssumption   == Kinds \subseteq {"string", "converted", "null"}
ASSUME BuffersAssumption == Buffers \subseteq Nat /\ MaxLength \in Nat
\* No value comes near the end of the address space.
ASSUME ModulusAssumption ==
  SizeModulus \in Nat \ {0} /\ \A b \in Buffers : SizeModulus > 2 * MaxLength + b + 2

Symbols == {1, 2}
Values  == [kind : Kinds, length : 0 .. MaxLength, symbol : Symbols]

VARIABLES
  value,           \* the values of the current row, and the type asked for
  column_offsets,  \* bytes of each value already read, as GetData() counts them
  indicator,       \* *StrLen_or_IndPtr after the last call for the column
  verdict,         \* what the last call for the column returned
  received,        \* history: symbols the application got since it began the value
  lasts            \* history: whether it was told once, or again, that they were the last

vars == <<value, column_offsets, indicator, verdict, received, lasts>>

Bytes(v)   == v.length * v.symbol
Unbounded(n) == n  \* mutation of SizeT
SizeT(n) == n % SizeModulus
NoParts    == [c \in Cols |-> <<>>]
NoOffsets  == [c \in Cols |-> 0]
NotCalled  == [c \in Cols |-> "none"]

Init ==
  /\ value \in [Cols -> Values]
  /\ column_offsets = NoOffsets /\ indicator = NoOffsets
  /\ verdict = NotCalled /\ received = NoParts /\ lasts = NoOffsets

(***************************************************************************)
(* SQLFetch and SQLBindCol forget the offsets of all columns.              *)
(***************************************************************************)
KeepOffsets == UNCHANGED column_offsets  \* mutation of ResetColumnOffsets
ResetColumnOffsets == column_offsets' = NoOffsets

Restart ==
  /\ ResetColumnOffsets
  /\ indicator' = NoOffsets /\ verdict' = NotCalled
  /\ received' = NoParts /\ lasts' = NoOffsets

Fetch == value' \in [Cols -> Values] /\ Restart

BindCol == UNCHANGED value /\ Restart

(***************************************************************************)
(* fillOutputString(): what is left of the value, and how much of it fits. *)
(***************************************************************************)
\* Only values that are kept as text are read from the offset on.
StartOf(c) ==
  IF value[c].kind = "converted" THEN 0
  ELSE IF column_offsets[c] > Bytes(value[c]) THEN Bytes(value[c]) ELSE column_offsets[c]

Remaining(c) == Bytes(value[c]) - StartOf(c)

\* The last symbol of a buffer that is too short becomes the terminator.
Copied(c, b) ==
  LET v == value[c]
      room == (b \div v.symbol) - 1
      left == Remaining(c) \div v.symbol
  IN IF left <= room THEN left ELSE IF room > 0 THEN room ELSE 0

Part(c, b) == [i \in 1 .. Copied(c, b) |-> StartOf(c) \div value[c].symbol + i]

\* The application goes on with a value unless it was told that it is over.
Received(c, part, last) ==
  LET over == verdict[c] = "no_data"
  IN /\ received' = [received EXCEPT ![c] = (IF over THEN <<>> ELSE @) \o part]
     /\ lasts' = [lasts EXCEPT ![c] = IF over THEN last ELSE IF @ + last > 2 THEN 2 ELSE @ + last]

Answer(c, v, ind, off) ==
  /\ verdict' = [verdict EXCEPT ![c] = v]
  /\ indicator' = [indicator EXCEPT ![c] = ind]
  /\ column_offsets' = [column_offsets EXCEPT ![c] = off]

CountsTerminator(c, b) == SizeT(column_offsets[c] + b)  \* mutation of AfterPart
AfterPart(c, b) == SizeT(column_offsets[c] + b - value[c].symbol)

AfterLastWithoutTerminator(c, n) == SizeT(column_offsets[c] + n)  \* mutation of AfterLast
AfterLast(c, n) == SizeT(column_offsets[c] + n + value[c].symbol)

OddBuffer(c, b) == b % value[c].symbol # 0

StillPartial(c) ==
  value[c].kind = "string" /\ column_offsets[c] > 0 /\ column_offsets[c] >= Bytes(value[c])

AlwaysTruncated(c, b) == TRUE  \* mutation of Truncated
Truncated(c, b) == Remaining(c) >= b

(***************************************************************************)
(* SQLGetData, by what fillBinding() does.                                 *)
(***************************************************************************)
GetNull(c) ==
  /\ value[c].kind = "null"
  /\ Answer(c, "success", -1, AfterLast(c, -1))
  /\ Received(c, <<>>, 0)
  /\ UNCHANGED value

\* A buffer that ends inside a symbol is refused.
GetRefused(c, b) ==
  /\ value[c].kind # "null" /\ OddBuffer(c, b)
  /\ verdict' = [verdict EXCEPT ![c] = "error"]
  /\ Received(c, <<>>, 0)
  /\ UNCHANGED <<value, column_offsets, indicator>>

GetNoData(c, b) ==
  /\ value[c].kind # "null" /\ ~OddBuffer(c, b) /\ StillPartial(c)
  /\ Answer(c, "no_data", 0, 0)
  /\ Received(c, <<>>, 0)
  /\ UNCHANGED value

GetPart(c, b) ==
  /\ value[c].kind # "null" /\ ~OddBuffer(c, b) /\ ~StillPartial(c) /\ Truncated(c, b)
  /\ Answer(c, "with_info", Remaining(c), AfterPart(c, b))
  /\ Received(c, Part(c, b), 0)
  /\ UNCHANGED value

GetLast(c, b) ==
  /\ value[c].kind # "null" /\ ~OddBuffer(c, b) /\ ~StillPartial(c) /\ ~Truncated(c, b)
  /\ Answer(c, "success", Remaining(c), AfterLast(c, Remaining(c)))
  /\ Received(c, Part(c, b), 1)
  /\ UNCHANGED value

Get(c, b) ==
  GetNull(c) \/ GetRefused(c, b) \/ GetNoData(c, b) \/ GetPart(c, b) \/ GetLast(c, b)

GetSome == \E c \in Cols, b \in Buffers : Get(c, b)

Next == Fetch \/ BindCol \/ GetSome

\* An application that keeps asking for every column, with a buffer that holds at
\* least one symbol and the terminator.
Ask(c) == \E b \in Buffers : b >= 2 * value[c].symbol /\ ~OddBuffer(c, b) /\ Get(c, b)

Spec == Init /\ [][Next]_vars /\ \A c \in Cols : WF_vars(Ask(c))

-----------------------------------------------------------------------------
TypeOK ==
  /\ value \in [Cols -> Values]
  /\ column_offsets \in [Cols -> 0 .. SizeModulus - 1]
  /\ indicator \in [Cols -> -1 .. 2 * MaxLength]
  /\ verdict \in [Cols -> {"none", "success", "with_info", "no_data", "error"}]
  /\ received \in [Cols -> Seq(1 .. MaxLength)]
  /\ lasts \in [Cols -> 0 .. 2]

\* Each call returns the successive part of the value, also when the calls for
\* several columns alternate.
PartsAreSuccessive == \A c \in Cols : \A i \in DOMAIN received[c] : received[c][i] = i

\* The last call returns SQL_SUCCESS, and SQL_NO_DATA comes only after the whole
\* value was returned.
EndMeansAll ==
  \A c \in Cols : verdict[c] \in {"success", "no_data"} /\ value[c].kind # "null" =>
                    Len(received[c]) = value[c].length

\* The last part of a string is returned once: the next call says SQL_NO_DATA,
\* also for an empty string.
LastIsOnce == \A c \in Cols : value[c].kind = "string" => lasts[c] <= 1

\* An application that in the end stays on a row and keeps reading its values in
\* parts comes to the end of each, again and again.
ReadingEnds ==
  <>[][GetSome]_vars => \A c \in Cols : []<>(verdict[c] = "success")
=============================================================================
