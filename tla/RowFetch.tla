------------------------------ MODULE RowFetch ------------------------------
(***************************************************************************)
(* SQLFetch and SQLFetchScroll: ResultSet (src/driver/result_set.cpp)      *)
(* prefetches rows from the response body, and fetchBindings()             *)
(* (src/driver/api/impl/impl.cpp) copies a row set into the application's  *)
(* buffers and tells it how many rows there are and how each one went.     *)
(*                                                                         *)
(* A field of the body is named by its place; field 0 is the empty Field   *)
(* of a new Row.  A row is what readNextRow() left in the Row object, so   *)
(* a row that was read only in part shows what the object held before.     *)
(* The body is fixed by `script':                                          *)
(*   fields       how many whole fields can be read                        *)
(*   ending       then the body ends, or reading it throws, now and later  *)
(*   undecodable  the column whose type readValue() refuses (0: none)      *)
(***************************************************************************)
EXTENDS Integers, Sequences, FiniteSetsExt

CONSTANTS
  Columns,          \* columns of the result set
  MaxFields,        \* the longest body
  MaxSize,          \* the largest SQL_ATTR_ROW_ARRAY_SIZE
  PrefetchAtLeast,  \* prefetch_at_least
  MaxGiven          \* bound: no row set is asked for after this many rows

ASSUME ColumnsAssumption == Columns \in Nat \ {0}
ASSUME BoundsAssumption  ==
  /\ MaxFields \in Nat /\ MaxSize \in Nat \ {0}
  /\ PrefetchAtLeast \in Nat \ {0} /\ MaxGiven \in Nat

Row == [1 .. Columns -> 0 .. MaxFields]
Scripts ==
  [fields : 0 .. MaxFields, ending : {"end", "fails"}, undecodable : 0 .. Columns]

VARIABLES
  script,
  next,                \* fields read from the body
  row_pool, prefetched_rows, row_set, finished,
  row_set_position, row_position, affected_row_count,
  at,                  \* where the call is
  size, bound,         \* row_set_size, and whether columns are bound
  rows_fetched,        \* *rows_fetched_ptr
  array_status,        \* *array_status_ptr as far as this call wrote it
  written,             \* the bound buffers as far as this call wrote them
  row_idx,
  verdict,             \* how the last call ended
  given,               \* history: every row that was part of a row set
  failed               \* history: a fetch has failed while reading rows

body   == <<script, next>>
rows   == <<row_pool, prefetched_rows, finished>>
cursor == <<row_set, row_set_position, row_position, affected_row_count, given>>
answer == <<rows_fetched, array_status, written, row_idx>>
vars   == <<body, rows, cursor, answer, at, size, bound, verdict, failed>>

NoRow   == [c \in 1 .. Columns |-> 0]
Nowhere == [i \in 1 .. MaxSize |-> NoRow]
Unset   == [i \in 1 .. MaxSize |-> "unset"]

Init ==
  /\ script \in Scripts /\ next = 0
  /\ row_pool = <<>> /\ prefetched_rows = <<>> /\ finished = FALSE
  /\ row_set = <<>> /\ row_set_position = 0 /\ row_position = 0
  /\ affected_row_count = 0 /\ given = <<>>
  /\ at = "idle" /\ size = 1 /\ bound = FALSE /\ verdict = "none" /\ failed = FALSE
  /\ rows_fetched = 0 /\ array_status = Unset /\ written = Nowhere /\ row_idx = 0

Return(v) == at' = "idle" /\ verdict' = v

(***************************************************************************)
(* fetchBindings() up to ResultSet::fetchRowSet().                         *)
(***************************************************************************)
BeginCall(n) ==
  /\ at = "idle"
  /\ size' = n /\ bound' \in BOOLEAN
  /\ rows_fetched' = 0 /\ array_status' = Unset /\ written' = Nowhere /\ row_idx' = 0

FetchNothing ==
  /\ BeginCall(0)
  /\ Return("no_data")
  /\ UNCHANGED <<body, rows, cursor, failed>>

\* Only SQL_FETCH_NEXT is supported, and that is found out before anything moves.
FetchElsewhere ==
  /\ \E n \in 1 .. MaxSize : BeginCall(n)
  /\ Return("error")
  /\ UNCHANGED <<body, rows, cursor, failed>>

RetireKeepsPosition == UNCHANGED row_set_position  \* mutation of Retired
Retired == row_set_position' = row_set_position + Len(row_set)

FetchNext ==
  /\ Len(given) < MaxGiven
  /\ \E n \in 1 .. MaxSize : BeginCall(n)
  /\ row_pool' = row_pool \o row_set /\ row_set' = <<>>
  /\ Retired
  /\ at' = IF Len(prefetched_rows) < size' THEN "prefetch" ELSE "handout"
  /\ UNCHANGED <<body, prefetched_rows, finished, row_position, affected_row_count, given,
                 verdict, failed>>

(***************************************************************************)
(* tryPrefetchRows(), one row per action.                                  *)
(***************************************************************************)
Target == IF size > PrefetchAtLeast THEN size ELSE PrefetchAtLeast

Prefetching == at = "prefetch" /\ ~finished /\ Len(prefetched_rows) < Target

\* The Row object is a recycled one, if there is one, and shows its old content
\* (but for long strings, whose memory retireRow() gives to the string pool).
Recycled == IF row_pool = <<>> THEN NoRow ELSE row_pool[1]
PoolLeft == IF row_pool = <<>> THEN <<>> ELSE Tail(row_pool)

\* readNextRow(): how many columns of the next row can be read.
BodyAtEnd == next = script.fields /\ script.ending = "end"
Readable  ==
  Min({Columns, script.fields - next}
        \cup IF script.undecodable > 0 THEN {script.undecodable - 1} ELSE {})
ReadInto(row) == [c \in 1 .. Columns |-> IF c <= Readable THEN next + c ELSE row[c]]

RowBegun == Readable > 0  \* mutation of RowComplete
RowComplete == Readable = Columns

Read ==
  /\ prefetched_rows' = Append(prefetched_rows, ReadInto(Recycled))
  /\ row_pool' = PoolLeft
  /\ next' = next + Readable

PrefetchRow ==
  /\ Prefetching /\ ~BodyAtEnd /\ RowComplete
  /\ Read
  /\ UNCHANGED <<script, finished, cursor, answer, at, size, bound, verdict, failed>>

\* The row is already in the queue when readNextRow() throws, and stays there.
PrefetchThrows ==
  /\ Prefetching /\ ~BodyAtEnd /\ ~RowComplete
  /\ Read
  /\ Return("error") /\ failed' = TRUE
  /\ UNCHANGED <<script, finished, cursor, answer, size, bound>>

Finish == finished' = TRUE

PrefetchFindsEnd ==
  /\ Prefetching /\ BodyAtEnd
  /\ row_pool' = Append(PoolLeft, Recycled)
  /\ Finish
  /\ UNCHANGED <<body, prefetched_rows, cursor, answer, at, size, bound, verdict, failed>>

PrefetchEnds ==
  /\ at = "prefetch" /\ (finished \/ Len(prefetched_rows) >= Target)
  /\ at' = "handout"
  /\ UNCHANGED <<body, rows, cursor, answer, size, bound, verdict, failed>>

(***************************************************************************)
(* The rest of fetchRowSet(), and what fetchBindings() does with it.       *)
(***************************************************************************)
Taken(n) == IF Len(prefetched_rows) < n THEN Len(prefetched_rows) ELSE n

NoRows(first) == [i \in 1 .. MaxSize |-> IF first <= i /\ i <= size THEN "norow" ELSE array_status[i]]

FirstRows(k) == SubSeq(prefetched_rows, 1, k)

CountOne(k)  == affected_row_count' = affected_row_count + 1  \* mutation of CountRows
CountRows(k) == affected_row_count' = affected_row_count + k

MoveRows(k) ==
  /\ row_set' = FirstRows(k)
  /\ prefetched_rows' = SubSeq(prefetched_rows, k + 1, Len(prefetched_rows))
  /\ CountRows(k)
  /\ given' = given \o FirstRows(k)

PositionRows ==
  /\ row_set_position' =
       IF row_set' = <<>> THEN 0 ELSE IF row_set_position = 0 THEN 1 ELSE row_set_position
  /\ row_position' = row_set_position'

HandOut ==
  /\ at = "handout" /\ prefetched_rows # <<>>
  /\ MoveRows(Taken(size)) /\ PositionRows
  /\ rows_fetched' = Len(row_set')
  /\ at' = "bind"
  /\ UNCHANGED <<body, row_pool, finished, array_status, written, row_idx, size, bound, verdict,
                 failed>>

HandOutNothing ==
  /\ at = "handout" /\ prefetched_rows = <<>>
  /\ MoveRows(0) /\ PositionRows
  /\ array_status' = NoRows(1)
  /\ Return("no_data")
  /\ UNCHANGED <<body, row_pool, finished, rows_fetched, written, row_idx, size, bound, failed>>

\* Whatever fillBinding() returns: the loop looks at another variable of that name.
BindRow ==
  /\ at = "bind" /\ row_idx < rows_fetched
  /\ row_idx' = row_idx + 1
  /\ IF bound THEN /\ array_status' = [array_status EXCEPT ![row_idx'] = "success"]
                   /\ written' = [written EXCEPT ![row_idx'] = row_set[row_idx']]
              ELSE UNCHANGED <<array_status, written>>
  /\ UNCHANGED <<body, rows, cursor, rows_fetched, at, size, bound, verdict, failed>>

\* Truncation (success with info) and unsupported conversions (error) are thrown
\* out of fetchBindings(): this row is written up to some column, the next not.
BindThrows ==
  /\ at = "bind" /\ row_idx < rows_fetched /\ bound
  /\ \E c \in 1 .. Columns, v \in {"with_info", "error"} :
       /\ Return(v)
       /\ written' = [written EXCEPT ![row_idx + 1] =
                        [d \in 1 .. Columns |-> IF d < c THEN row_set[row_idx + 1][d] ELSE 0]]
       /\ array_status' =
            IF c > 1 THEN [array_status EXCEPT ![row_idx + 1] = "success"] ELSE array_status
  /\ UNCHANGED <<body, rows, cursor, rows_fetched, row_idx, size, bound, failed>>

RestUnset == array_status  \* mutation of RestNoRow
RestNoRow == NoRows(rows_fetched + 1)

BindEnds ==
  /\ at = "bind" /\ row_idx = rows_fetched
  /\ array_status' = RestNoRow
  /\ Return("success")
  /\ UNCHANGED <<body, rows, cursor, rows_fetched, written, row_idx, size, bound, failed>>

-----------------------------------------------------------------------------
Application == FetchNothing \/ FetchElsewhere \/ FetchNext
Driver ==
  \/ PrefetchRow \/ PrefetchThrows \/ PrefetchFindsEnd \/ PrefetchEnds
  \/ HandOut \/ HandOutNothing \/ BindRow \/ BindThrows \/ BindEnds

Next == Application \/ Driver

\* A call that has begun keeps running; nothing makes the application call.
Spec == Init /\ [][Next]_vars /\ WF_vars(Driver)

-----------------------------------------------------------------------------
TypeOK ==
  /\ script \in Scripts /\ next \in 0 .. script.fields
  /\ row_pool \in Seq(Row) /\ prefetched_rows \in Seq(Row) /\ row_set \in Seq(Row)
  /\ given \in Seq(Row) /\ finished \in BOOLEAN /\ failed \in BOOLEAN
  /\ row_set_position \in Nat /\ row_position \in Nat /\ affected_row_count = Len(given)
  /\ at \in {"idle", "prefetch", "handout", "bind"}
  /\ size \in 0 .. MaxSize /\ bound \in BOOLEAN
  /\ rows_fetched \in 0 .. size /\ row_idx \in 0 .. rows_fetched
  /\ array_status \in [1 .. MaxSize -> {"unset", "success", "norow"}]
  /\ written \in [1 .. MaxSize -> Row]
  /\ verdict \in {"none", "success", "with_info", "no_data", "error"}

\* The rows the server sent whole, as far as the driver can read them.
Sent       == IF script.undecodable > 0 THEN 0 ELSE script.fields \div Columns
SentRow(i) == [c \in 1 .. Columns |-> (i - 1) * Columns + c]

\* What the application knows of the last call.
Answer ==
  CASE at # "idle"                          -> "asked"
    [] at = "idle" /\ verdict = "no_data"   -> IF size = 0 THEN "refused" ELSE "end"
    [] at = "idle" /\ verdict \in {"success", "with_info"} -> "rows"
    [] OTHER                                -> verdict

Cursor == INSTANCE RowCursor
            WITH sent <- Sent, whole <- script.ending = "end", answer <- Answer

\* fetchBindings() and ResultSet::fetchRowSet() give the rows the server sent, each once
\* and in their order, also those that were prefetched when a later row failed; a row
\* that was not sent comes only after a failure was reported; SQL_NO_DATA means that
\* the body ended properly and every row was given; and every fetch reports something.
ImplementsRowCursor == Cursor!Spec

\* getCurrentRowPosition(), which SQLGetData starts from.
CurrentRow ==
  IF row_position < row_set_position \/ row_position >= row_set_position + Len(row_set)
  THEN 0 ELSE row_position

\* Between calls SQLGetData reads the first row of the last row set, its number
\* counts the rows given so far, and without a row set there is no row to read.
CurrentRowAgrees ==
  at = "idle" =>
    /\ CurrentRow = 0 <=> row_set = <<>>
    /\ row_set # <<>> =>
         /\ CurrentRow = Len(given) - Len(row_set) + 1
         /\ row_set[CurrentRow - row_set_position + 1] = given[CurrentRow]

\* When SQLFetch reports success, the row count, the status array and the bound
\* buffers describe the same rows, and the rest of the array says "no row".
SuccessDescribesRowSet ==
  at = "idle" /\ verdict = "success" =>
    /\ rows_fetched = Len(row_set) /\ rows_fetched > 0
    /\ bound => \A i \in 1 .. rows_fetched :
                  array_status[i] = "success" /\ written[i] = row_set[i]
    /\ \A i \in rows_fetched + 1 .. size : array_status[i] = "norow"

\* ObjectPool reuses "their capacity but not the content": no value of a row that
\* was given shows up again in a later one.
NoContentReused ==
  \A i, j \in DOMAIN given : i < j =>
    \A c, d \in 1 .. Columns : given[i][c] = given[j][d] => given[i][c] = 0
=============================================================================
