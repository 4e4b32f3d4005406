---------------------------- MODULE RowFetchProofs ----------------------------
(***************************************************************************)
(* Proofs about RowFetch, for every number of columns, body, size of row   *)
(* set and prefetch depth.                                                 *)
(*                                                                         *)
(* The inductive invariant places the row set among the rows given so far  *)
(* (Positioned), says what a call in progress has filled in (Filled), and  *)
(* follows the rows that were read through the queue to the application    *)
(* (Queued): up to the first failure they are the rows the server sent.    *)
(***************************************************************************)
EXTENDS RowFetch, SequenceTheorems, TLAPS

\* Every row taken from the body so far, given or still prefetched.
queue == given \o prefetched_rows

\* The row set is the end of what was given, and its position counts the rows.
Positioned ==
  /\ at \in {"prefetch", "handout"} => row_set = <<>>
  /\ row_set # <<>> =>
       /\ row_set_position >= 1 /\ row_position = row_set_position
       /\ row_set_position + Len(row_set) = Len(given) + 1
       /\ \A i \in 1 .. Len(row_set) : row_set[i] = given[Len(given) - Len(row_set) + i]
  /\ row_set = <<>> =>
       \/ row_set_position = Len(given) + 1
       \/ row_set_position = 0 /\ (given = <<>> \/ (finished /\ prefetched_rows = <<>>))
  /\ at = "handout" => finished \/ prefetched_rows # <<>>

\* What the running call has told the application so far.
Filled ==
  /\ at # "idle" => size > 0
  /\ at \in {"prefetch", "handout"} => rows_fetched = 0
  /\ at = "bind" =>
       /\ rows_fetched = Len(row_set) /\ rows_fetched > 0
       /\ bound => \A i \in 1 .. row_idx : array_status[i] = "success" /\ written[i] = row_set[i]

\* Before a failure the queue holds the rows that were sent, in order; a body that
\* ended properly was read to its last row.
Queued ==
  /\ \A i \in 1 .. Len(queue) : IF i <= Sent THEN queue[i] = SentRow(i) ELSE failed
  /\ ~failed => next = Columns * Len(queue) /\ (Len(queue) > 0 => script.undecodable = 0)
  /\ failed => Len(queue) > Sent
  /\ finished => script.ending = "end" /\ Len(queue) >= Sent

IInv == TypeOK /\ Positioned /\ Filled /\ Queued /\ SuccessDescribesRowSet

-----------------------------------------------------------------------------
(***************************************************************************)
(* Reading a row                                                           *)
(***************************************************************************)

\* The least of two or three numbers is one of them, and not above the others.
LEMMA LeastOf ==
  ASSUME NEW a \in Int, NEW b \in Int, NEW u \in Int, NEW S, S = {a, b} \/ S = {a, b, u}
  PROVE  Min(S) \in S /\ \A y \in S : Min(S) <= y
<1>1. \E x \in S : \A y \in S : x <= y
  <2>1. CASE a <= b /\ (u \notin S \/ a <= u)
    BY <2>1
  <2>2. CASE b <= a /\ (u \notin S \/ b <= u)
    BY <2>2
  <2>3. CASE u \in S /\ u <= a /\ u <= b
    BY <2>3
  <2> QED  BY <2>1, <2>2, <2>3
<1> QED  BY <1>1 DEF Min

LEMMA ScriptIs ==
  ASSUME TypeOK
  PROVE  /\ script.fields \in 0 .. MaxFields /\ script.undecodable \in 0 .. Columns
         /\ script.ending \in {"end", "fails"}
         /\ next \in Nat /\ next <= script.fields /\ Columns \in Nat /\ Columns >= 1
         /\ MaxFields \in Nat
BY ColumnsAssumption, BoundsAssumption DEF TypeOK, Scripts

\* What can be read of the next row.
LEMMA ReadableIs ==
  ASSUME TypeOK
  PROVE  /\ Readable \in Nat /\ Readable <= Columns /\ Readable <= script.fields - next
         /\ Readable = Columns => script.undecodable = 0
         /\ script.undecodable = 0 /\ Readable < Columns => Readable = script.fields - next
<1> DEFINE S == {Columns, script.fields - next}
                  \cup (IF script.undecodable > 0 THEN {script.undecodable - 1} ELSE {})
<1>1. /\ Columns \in Int /\ script.fields - next \in Int /\ script.undecodable - 1 \in Int
      /\ Columns >= 1 /\ script.fields - next >= 0
      /\ script.undecodable \in Nat /\ script.undecodable <= Columns
  BY ScriptIs
<1>2. Readable = Min(S)
  BY DEF Readable
<1>3. CASE script.undecodable > 0
  <2>1. S = {Columns, script.fields - next, script.undecodable - 1}
    BY <1>3
  <2>2. Min(S) \in S /\ \A y \in S : Min(S) <= y
    BY <1>1, <2>1, LeastOf
  <2> HIDE DEF S
  <2> QED  BY <1>1, <1>2, <1>3, <2>1, <2>2
<1>4. CASE ~(script.undecodable > 0)
  <2>1. S = {Columns, script.fields - next}
    BY <1>4
  <2>2. Min(S) \in S /\ \A y \in S : Min(S) <= y
    BY <1>1, <2>1, LeastOf
  <2> HIDE DEF S
  <2> QED  BY <1>1, <1>2, <1>4, <2>1, <2>2
<1> QED  BY <1>3, <1>4

LEMMA NoRowIsRow == NoRow \in Row
BY ColumnsAssumption, BoundsAssumption DEF NoRow, Row

\* Reading leaves a row, and all of the next row if nothing stops it.
LEMMA ReadIntoIs ==
  ASSUME TypeOK, NEW row \in Row
  PROVE  /\ ReadInto(row) \in Row
         /\ RowComplete => ReadInto(row) = [c \in 1 .. Columns |-> next + c]
<1>1. ASSUME NEW c \in 1 .. Columns, c <= Readable
      PROVE  next + c \in 0 .. MaxFields
  BY <1>1, ReadableIs, ScriptIs
<1>2. ReadInto(row) \in Row
  BY <1>1 DEF ReadInto, Row
<1>3. ASSUME RowComplete
      PROVE  ReadInto(row) = [c \in 1 .. Columns |-> next + c]
  <2>1. \A c \in 1 .. Columns : c <= Readable
    BY <1>3, ScriptIs DEF RowComplete
  <2> QED  BY <2>1 DEF ReadInto
<1> QED  BY <1>2, <1>3

LEMMA RecycledIs ==
  ASSUME TypeOK
  PROVE  Recycled \in Row /\ PoolLeft \in Seq(Row)
<1>1. CASE row_pool = <<>>
  BY <1>1, NoRowIsRow DEF Recycled, PoolLeft
<1>2. CASE row_pool # <<>>
  <2>1. row_pool \in Seq(Row)
    BY DEF TypeOK
  <2> QED  BY <1>2, <2>1 DEF Recycled, PoolLeft
<1> QED  BY <1>1, <1>2

\* The rows a body has whole, if nothing stops the reading.
LEMMA SentIs ==
  ASSUME TypeOK
  PROVE  /\ Sent \in Nat
         /\ script.undecodable > 0 => Sent = 0
         /\ script.undecodable = 0 =>
              Columns * Sent <= script.fields /\ script.fields < Columns * (Sent + 1)
<1>1. script.fields \in Nat /\ Columns \in Nat /\ Columns >= 1
  BY ScriptIs
<1>2. /\ script.fields \div Columns \in Nat
      /\ Columns * (script.fields \div Columns) <= script.fields
      /\ script.fields < Columns * ((script.fields \div Columns) + 1)
  BY <1>1
<1> QED  BY <1>2, ScriptIs DEF Sent

LEMMA Multiples ==
  ASSUME NEW c \in Nat, NEW a \in Nat, NEW b \in Nat, c >= 1
  PROVE  /\ c * (a + 1) = c * a + c
         /\ c * a < c * b => a < b
         /\ c * a \in Nat
<1>1. c * (a + 1) = c * a + c /\ c * a \in Nat
  OBVIOUS
<1>2. ASSUME c * a < c * b, b <= a
      PROVE  FALSE
  <2>1. PICK d \in Nat : a = b + d
    <3>1. a - b \in Nat /\ a = b + (a - b)
      BY <1>2
    <3> QED  BY <3>1
  <2>2. c * a = c * b + c * d /\ c * d >= 0 /\ c * b \in Nat /\ c * d \in Nat
    BY <2>1
  <2> QED  BY <1>2, <2>2
<1> QED  BY <1>1, <1>2

\* A row read goes to the end of the queue.
LEMMA Queueing ==
  ASSUME NEW S, NEW g \in Seq(S), NEW q \in Seq(S), NEW r \in S
  PROVE  /\ g \o Append(q, r) \in Seq(S)
         /\ Len(g \o Append(q, r)) = Len(g \o q) + 1
         /\ \A i \in 1 .. Len(g \o q) : (g \o Append(q, r))[i] = (g \o q)[i]
         /\ (g \o Append(q, r))[Len(g \o q) + 1] = r
<1>1. /\ g \o q \in Seq(S) /\ Len(g \o q) = Len(g) + Len(q)
      /\ \A i \in 1 .. Len(g) + Len(q) : (g \o q)[i] = IF i <= Len(g) THEN g[i] ELSE q[i - Len(g)]
  BY ConcatProperties
<1> DEFINE a == Append(q, r)
<1>2. /\ a \in Seq(S) /\ Len(a) = Len(q) + 1
      /\ \A i \in 1 .. Len(q) : a[i] = q[i]
      /\ a[Len(q) + 1] = r
  BY AppendProperties
<1> HIDE DEF a
<1>3. /\ g \o a \in Seq(S) /\ Len(g \o a) = Len(g) + Len(a)
      /\ \A i \in 1 .. Len(g) + Len(a) : (g \o a)[i] = IF i <= Len(g) THEN g[i] ELSE a[i - Len(g)]
  BY <1>2, ConcatProperties, Zenon
<1>4. Len(g) \in Nat /\ Len(q) \in Nat
  OBVIOUS
<1>5. Len(g \o a) = Len(g \o q) + 1
  BY <1>1, <1>2, <1>3, <1>4
<1>6. ASSUME NEW i \in 1 .. Len(g \o q)
      PROVE  (g \o a)[i] = (g \o q)[i]
  <2>1. /\ i \in 1 .. Len(g) + Len(q) /\ i \in 1 .. Len(g) + Len(a)
        /\ ~(i <= Len(g)) => i - Len(g) \in 1 .. Len(q)
    BY <1>1, <1>2, <1>4
  <2>2. ~(i <= Len(g)) => a[i - Len(g)] = q[i - Len(g)]
    BY <1>2, <2>1, Zenon
  <2> QED  BY <1>1, <1>3, <2>1, <2>2, Zenon
<1>7. (g \o a)[Len(g \o q) + 1] = r
  <2>1. /\ Len(g \o q) + 1 \in 1 .. Len(g) + Len(a) /\ ~(Len(g \o q) + 1 <= Len(g))
        /\ Len(g \o q) + 1 - Len(g) = Len(q) + 1
    BY <1>1, <1>2, <1>4
  <2> QED  BY <1>2, <1>3, <2>1
<1> QED  BY <1>3, <1>5, <1>6, <1>7 DEF a

\* Rows handed out change sides, and the queue stays the same.
HandsOut(S, g, q, k) ==
  /\ Len(g \o SubSeq(q, 1, k)) = Len(g) + k /\ g \o SubSeq(q, 1, k) \in Seq(S)
  /\ \A i \in 1 .. k : SubSeq(q, 1, k)[i] = (g \o SubSeq(q, 1, k))[Len(g) + i]
  /\ (g \o SubSeq(q, 1, k)) \o SubSeq(q, k + 1, Len(q)) = g \o q

LEMMA HandingOut ==
  ASSUME NEW S, NEW g \in Seq(S), NEW q \in Seq(S), NEW k \in 0 .. Len(q)
  PROVE  HandsOut(S, g, q, k)
<1> DEFINE f == SubSeq(q, 1, k)  l == SubSeq(q, k + 1, Len(q))
<1>0. Len(q) \in Nat /\ Len(g) \in Nat /\ k \in Nat /\ k <= Len(q)
  OBVIOUS
<1>1. f \in Seq(S) /\ Len(f) = k /\ \A i \in 1 .. k : f[i] = q[i]
  BY <1>0, SubSeqProperties
<1>2. l \in Seq(S) /\ Len(l) = Len(q) - k /\ \A i \in 1 .. Len(q) - k : l[i] = q[k + i]
  BY <1>0, SubSeqProperties
<1> HIDE DEF f, l
<1>3. /\ g \o f \in Seq(S) /\ Len(g \o f) = Len(g) + Len(f)
      /\ \A i \in 1 .. Len(g) + Len(f) : (g \o f)[i] = IF i <= Len(g) THEN g[i] ELSE f[i - Len(g)]
  BY <1>1, ConcatProperties, Zenon
<1>4. ASSUME NEW i \in 1 .. k
      PROVE  f[i] = (g \o f)[Len(g) + i]
  <2>1. Len(g) + i \in 1 .. Len(g) + Len(f) /\ ~(Len(g) + i <= Len(g)) /\ Len(g) + i - Len(g) = i
    BY <1>0, <1>1
  <2> QED  BY <1>3, <2>1
<1>5. f \o l = q
  <2>1. /\ f \o l \in Seq(S) /\ Len(f \o l) = Len(f) + Len(l)
        /\ \A i \in 1 .. Len(f) + Len(l) : (f \o l)[i] = IF i <= Len(f) THEN f[i] ELSE l[i - Len(f)]
    BY <1>1, <1>2, ConcatProperties, Zenon
  <2>2. Len(f \o l) = Len(q)
    BY <1>0, <1>1, <1>2, <2>1
  <2>3. ASSUME NEW i \in 1 .. Len(q)
        PROVE  (f \o l)[i] = q[i]
    <3>1. /\ i \in 1 .. Len(f) + Len(l) /\ (i <= k => i \in 1 .. k)
          /\ ~(i <= k) => i - k \in 1 .. Len(q) - k /\ k + (i - k) = i
      BY <1>0, <1>1, <1>2
    <3>2. ~(i <= k) => l[i - k] = q[i]
      BY <1>2, <3>1
    <3> QED  BY <1>1, <2>1, <3>1, <3>2
  <2> QED  BY <2>1, <2>2, <2>3, SeqEqual
<1>6. (g \o f) \o l = g \o (f \o l)
  <2>1. g \in Seq(S) /\ f \in Seq(S) /\ l \in Seq(S)
    BY <1>1, <1>2
  <2> QED  BY <2>1, ConcatAssociative
<1>7. /\ Len(g \o f) = Len(g) + k /\ g \o f \in Seq(S)
      /\ \A i \in 1 .. k : f[i] = (g \o f)[Len(g) + i]
      /\ (g \o f) \o l = g \o q
  BY <1>0, <1>1, <1>2, <1>3, <1>4, <1>5, <1>6
<1> QED  BY <1>7 DEF f, l, HandsOut

-----------------------------------------------------------------------------
(***************************************************************************)
(* The invariant                                                           *)
(***************************************************************************)

LEMMA QueueIs ==
  ASSUME TypeOK
  PROVE  /\ queue \in Seq(Row) /\ Len(queue) = Len(given) + Len(prefetched_rows)
         /\ given \in Seq(Row) /\ prefetched_rows \in Seq(Row)
         /\ Len(given) \in Nat /\ Len(prefetched_rows) \in Nat
<1>1. given \in Seq(Row) /\ prefetched_rows \in Seq(Row)
  BY DEF TypeOK
<1>2. queue \in Seq(Row) /\ Len(queue) = Len(given) + Len(prefetched_rows)
  BY <1>1, ConcatProperties, Zenon DEF queue
<1>3. Len(given) \in Nat /\ Len(prefetched_rows) \in Nat
  BY <1>1
<1> QED  BY <1>1, <1>2, <1>3

\* What does not read, and gives no row that was not prefetched, leaves the queue alone.
LEMMA QueueStays ==
  ASSUME Queued, queue' = queue, UNCHANGED <<script, next, finished, failed>>
  PROVE  Queued'
<1>1. Sent' = Sent
  BY DEF Sent
<1>2. \A i : SentRow(i)' = SentRow(i)
  BY DEF SentRow
<1>3. ASSUME NEW i \in 1 .. Len(queue')
      PROVE  IF i <= Sent' THEN queue'[i] = SentRow(i)' ELSE failed'
  BY <1>1, <1>2 DEF Queued
<1>4. /\ ~failed' => next' = Columns * Len(queue') /\ (Len(queue') > 0 => script'.undecodable = 0)
      /\ failed' => Len(queue') > Sent'
      /\ finished' => script'.ending = "end" /\ Len(queue') >= Sent'
  BY <1>1 DEF Queued
<1> QED  BY <1>3, <1>4 DEF Queued

\* The answer of a call that begins is blank.
LEMMA AnswerIsBlank ==
  ASSUME TypeOK, NEW n \in 0 .. MaxSize, BeginCall(n)
  PROVE  /\ size' \in 0 .. MaxSize /\ bound' \in BOOLEAN /\ at = "idle"
         /\ rows_fetched' \in 0 .. size' /\ row_idx' \in 0 .. rows_fetched'
         /\ array_status' \in [1 .. MaxSize -> {"unset", "success", "norow"}]
         /\ written' \in [1 .. MaxSize -> Row]
BY NoRowIsRow, BoundsAssumption DEF BeginCall, Unset, Nowhere

\* A call that is refused moves no row.
LEMMA RefusedKeeps ==
  ASSUME IInv, NEW n \in 0 .. MaxSize, NEW v \in {"no_data", "error"}, BeginCall(n), Return(v),
         UNCHANGED <<body, rows, cursor, failed>>
  PROVE  IInv'
<1> USE DEF IInv
<1>1. /\ UNCHANGED <<script, next, row_pool, prefetched_rows, finished, row_set, row_set_position>>
      /\ UNCHANGED <<row_position, affected_row_count, given, failed>>
      /\ at' = "idle" /\ verdict' = v
  BY DEF body, rows, cursor, Return
<1>2. TypeOK'
  BY <1>1, AnswerIsBlank DEF TypeOK
<1>3. Positioned' /\ Filled' /\ SuccessDescribesRowSet'
  BY <1>1 DEF Positioned, Filled, SuccessDescribesRowSet
<1>4. Queued'
  BY <1>1, QueueStays DEF queue
<1> QED  BY <1>2, <1>3, <1>4

LEMMA FetchNothingKeeps == ASSUME IInv, FetchNothing PROVE IInv'
BY RefusedKeeps, BoundsAssumption DEF FetchNothing

LEMMA FetchElsewhereKeeps == ASSUME IInv, FetchElsewhere PROVE IInv'
BY RefusedKeeps DEF FetchElsewhere

LEMMA FetchNextKeeps == ASSUME IInv, FetchNext PROVE IInv'
<1> USE DEF IInv
<1>1. PICK n \in 1 .. MaxSize : BeginCall(n)
  BY DEF FetchNext
<1>2. /\ UNCHANGED <<script, next, prefetched_rows, finished, row_position, affected_row_count>>
      /\ UNCHANGED <<given, verdict, failed>>
      /\ row_pool' = row_pool \o row_set /\ row_set' = <<>>
      /\ row_set_position' = row_set_position + Len(row_set)
      /\ at' = IF Len(prefetched_rows) < size' THEN "prefetch" ELSE "handout"
  BY DEF FetchNext, Retired, body
<1>3. size' = n /\ n > 0 /\ n \in Nat /\ rows_fetched' = 0
  BY <1>1 DEF BeginCall
<1>4. row_pool \in Seq(Row) /\ row_set \in Seq(Row) /\ row_set_position \in Nat /\ Len(row_set) \in Nat
  BY DEF TypeOK
<1>5. TypeOK'
  <2>1. row_pool' \in Seq(Row)
    BY <1>2, <1>4, ConcatProperties
  <2>2. row_set' \in Seq(Row) /\ row_set_position' \in Nat
    BY <1>2, <1>4
  <2>3. at' \in {"idle", "prefetch", "handout", "bind"}
    BY <1>2
  <2> QED  BY <1>1, <1>2, <2>1, <2>2, <2>3, AnswerIsBlank DEF TypeOK
<1>6. Positioned'
  <2>1. \/ row_set_position' = Len(given) + 1
        \/ row_set_position' = 0 /\ (given = <<>> \/ (finished /\ prefetched_rows = <<>>))
    <3>1. CASE row_set = <<>>
      <4>1. row_set_position' = row_set_position
        BY <1>2, <1>4, <3>1
      <4> QED  BY <3>1, <4>1 DEF Positioned
    <3>2. CASE row_set # <<>>
      BY <1>2, <1>4, <3>2 DEF Positioned
    <3> QED  BY <3>1, <3>2
  <2>2. at' = "handout" => prefetched_rows # <<>>
    <3>1. SUFFICES ASSUME prefetched_rows = <<>> PROVE Len(prefetched_rows) < size'
      BY <1>2
    <3>2. Len(prefetched_rows) = 0
      BY <3>1
    <3> QED  BY <1>3, <3>2
  <2> QED  BY <1>2, <2>1, <2>2 DEF Positioned
<1>7. Filled' /\ SuccessDescribesRowSet'
  BY <1>2, <1>3 DEF Filled, SuccessDescribesRowSet
<1>8. Queued'
  BY <1>2, QueueStays DEF queue
<1> QED  BY <1>5, <1>6, <1>7, <1>8

\* A row is read, wholly or in part, into a recycled one.
LEMMA ReadIs ==
  ASSUME TypeOK, Read, UNCHANGED <<script, given>>
  PROVE  LET row == ReadInto(Recycled)
         IN /\ prefetched_rows' \in Seq(Row) /\ row_pool' \in Seq(Row)
            /\ next' \in 0 .. script.fields /\ next' = next + Readable
            /\ prefetched_rows' # <<>>
            /\ queue' \in Seq(Row) /\ Len(queue') = Len(queue) + 1 /\ Len(queue) \in Nat
            /\ \A i \in 1 .. Len(queue) : queue'[i] = queue[i]
            /\ queue'[Len(queue) + 1] = row
            /\ Sent' = Sent /\ \A i \in Nat : SentRow(i)' = SentRow(i)
<1> DEFINE row == ReadInto(Recycled)
<1>1. row \in Row /\ PoolLeft \in Seq(Row)
  BY RecycledIs, ReadIntoIs
<1>2. prefetched_rows' = Append(prefetched_rows, row) /\ row_pool' = PoolLeft /\ next' = next + Readable
  BY DEF Read
<1> HIDE DEF row
<1>3. prefetched_rows' \in Seq(Row) /\ prefetched_rows' # <<>>
  BY <1>1, <1>2, QueueIs, AppendProperties
<1>4. next' \in 0 .. script.fields
  BY <1>2, ReadableIs, ScriptIs
<1>5. queue' = given \o Append(prefetched_rows, row)
  BY <1>2 DEF queue
<1>6. /\ queue' \in Seq(Row) /\ Len(queue') = Len(queue) + 1
      /\ \A i \in 1 .. Len(queue) : queue'[i] = queue[i]
      /\ queue'[Len(queue) + 1] = row
  BY <1>1, <1>5, QueueIs, Queueing DEF queue
<1>7. Sent' = Sent /\ \A i \in Nat : SentRow(i)' = SentRow(i)
  BY DEF Sent, SentRow
<1>8. Len(queue) \in Nat
  BY QueueIs
<1> QED  BY <1>1, <1>2, <1>3, <1>4, <1>6, <1>7, <1>8 DEF row

LEMMA PrefetchRowKeeps == ASSUME IInv, PrefetchRow PROVE IInv'
<1> USE DEF IInv
<1>1. /\ UNCHANGED <<script, finished, row_set, row_set_position, row_position, affected_row_count>>
      /\ UNCHANGED <<given, rows_fetched, array_status, written, row_idx, at, size, bound, verdict>>
      /\ UNCHANGED failed
      /\ at = "prefetch" /\ finished = FALSE /\ Read /\ Readable = Columns
  BY DEF PrefetchRow, Prefetching, cursor, answer, RowComplete, TypeOK
<1> DEFINE row == ReadInto(Recycled)
<1>2. /\ prefetched_rows' \in Seq(Row) /\ row_pool' \in Seq(Row)
      /\ next' \in 0 .. script.fields /\ next' = next + Readable
      /\ prefetched_rows' # <<>>
      /\ queue' \in Seq(Row) /\ Len(queue') = Len(queue) + 1 /\ Len(queue) \in Nat
      /\ \A i \in 1 .. Len(queue) : queue'[i] = queue[i]
      /\ queue'[Len(queue) + 1] = row
      /\ Sent' = Sent /\ \A i \in Nat : SentRow(i)' = SentRow(i)
  BY <1>1, ReadIs
<1>3. row = [c \in 1 .. Columns |-> next + c] /\ script.undecodable = 0
  BY <1>1, ReadIntoIs, RecycledIs, ReadableIs DEF RowComplete
<1> HIDE DEF row
<1>4. TypeOK'
  BY <1>1, <1>2 DEF TypeOK
<1>5. Positioned' /\ Filled' /\ SuccessDescribesRowSet'
  BY <1>1, <1>2 DEF Positioned, Filled, SuccessDescribesRowSet
<1>6. ASSUME ~failed
      PROVE  /\ next' = Columns * Len(queue') /\ Len(queue) + 1 <= Sent
             /\ row = SentRow(Len(queue) + 1)
  <2>1. next = Columns * Len(queue) /\ Len(queue) \in Nat /\ Columns \in Nat /\ Columns >= 1
    BY <1>2, <1>6, ScriptIs DEF Queued
  <2>2. Columns * (Len(queue) + 1) = Columns * Len(queue) + Columns
    BY <2>1, Multiples
  <2>3. next' = Columns * Len(queue')
    BY <1>1, <1>2, <2>1, <2>2
  <2>4. Len(queue) + 1 < Sent + 1
    <3>1. /\ Columns * (Len(queue) + 1) <= script.fields /\ script.fields \in Nat
          /\ script.fields < Columns * (Sent + 1) /\ Sent \in Nat
      <4>1. Columns * (Len(queue) + 1) <= script.fields
        <5>1. next + Columns <= script.fields
          BY <1>1, <2>1, ReadableIs, ScriptIs
        <5> QED  BY <2>1, <2>2, <5>1
      <4>2. script.fields < Columns * (Sent + 1) /\ Sent \in Nat
        BY <1>3, SentIs
      <4>3. script.fields \in Nat
        BY ScriptIs
      <4> QED  BY <4>1, <4>2, <4>3
    <3>2. Columns * (Len(queue) + 1) < Columns * (Sent + 1)
      <4>1. Columns * (Len(queue) + 1) \in Nat /\ Columns * (Sent + 1) \in Nat
        BY <2>1, <3>1, Multiples
      <4> QED  BY <3>1, <4>1
    <3>3. Len(queue) + 1 \in Nat /\ Sent + 1 \in Nat
      BY <2>1, <3>1
    <3> QED  BY <2>1, <3>2, <3>3, Multiples
  <2>5. Len(queue) + 1 <= Sent
    BY <1>2, <2>4, SentIs
  <2>6. row = SentRow(Len(queue) + 1)
    <3>1. (Len(queue) + 1 - 1) * Columns = next
      BY <2>1
    <3> QED  BY <1>3, <3>1 DEF SentRow
  <2> QED  BY <2>3, <2>5, <2>6
<1>7. Queued'
  <2>1. ASSUME NEW i \in 1 .. Len(queue')
        PROVE  IF i <= Sent THEN queue'[i] = SentRow(i) ELSE failed
    <3>1. CASE i \in 1 .. Len(queue)
      BY <1>2, <3>1 DEF Queued
    <3>2. CASE i = Len(queue) + 1
      <4>1. CASE failed
        <5>1. Len(queue) > Sent /\ Sent \in Nat
          BY <4>1, SentIs DEF Queued
        <5> QED  BY <1>2, <3>2, <4>1, <5>1
      <4>2. CASE ~failed
        BY <1>2, <1>6, <3>2, <4>2
      <4> QED  BY <4>1, <4>2
    <3>3. i \in 1 .. Len(queue) \/ i = Len(queue) + 1
      BY <1>2
    <3> QED  BY <3>1, <3>2, <3>3
  <2>2. failed => Len(queue') > Sent
    BY <1>2, SentIs DEF Queued
  <2> QED  BY <1>1, <1>2, <1>3, <1>6, <2>1, <2>2 DEF Queued
<1> QED  BY <1>4, <1>5, <1>7

\* A row that throws is not among the rows that were sent.
LEMMA PrefetchThrowsKeeps == ASSUME IInv, PrefetchThrows PROVE IInv'
<1> USE DEF IInv
<1>1. /\ UNCHANGED <<script, finished, row_set, row_set_position, row_position, affected_row_count>>
      /\ UNCHANGED <<given, rows_fetched, array_status, written, row_idx, size, bound>>
      /\ at = "prefetch" /\ finished = FALSE /\ Read /\ Readable # Columns
      /\ failed' = TRUE /\ at' = "idle" /\ verdict' = "error"
  BY DEF PrefetchThrows, Prefetching, cursor, answer, RowComplete, TypeOK, Return
<1>2. /\ prefetched_rows' \in Seq(Row) /\ row_pool' \in Seq(Row)
      /\ next' \in 0 .. script.fields /\ next' = next + Readable
      /\ prefetched_rows' # <<>>
      /\ queue' \in Seq(Row) /\ Len(queue') = Len(queue) + 1 /\ Len(queue) \in Nat
      /\ \A i \in 1 .. Len(queue) : queue'[i] = queue[i]
      /\ Sent' = Sent /\ \A i \in Nat : SentRow(i)' = SentRow(i)
  BY <1>1, ReadIs
<1>3. TypeOK'
  BY <1>1, <1>2 DEF TypeOK
<1>4. Positioned' /\ Filled' /\ SuccessDescribesRowSet'
  BY <1>1, <1>2 DEF Positioned, Filled, SuccessDescribesRowSet
<1>5. Sent < Len(queue) + 1
  <2>1. CASE failed
    BY <1>2, <2>1, SentIs DEF Queued
  <2>2. CASE ~failed /\ script.undecodable > 0
    BY <1>2, <2>2, SentIs
  <2>3. CASE ~failed /\ script.undecodable = 0
    <3>1. next = Columns * Len(queue) /\ Columns \in Nat /\ Columns >= 1
      BY <2>3, ScriptIs DEF Queued
    <3>2. script.fields < next + Columns /\ script.fields \in Nat
      BY <1>1, <2>3, ReadableIs, ScriptIs
    <3>3. Columns * Sent <= script.fields /\ Sent \in Nat
      BY <2>3, SentIs
    <3>4. Columns * (Len(queue) + 1) = Columns * Len(queue) + Columns
      BY <1>2, <3>1, Multiples
    <3>5. Columns * Sent < Columns * (Len(queue) + 1)
      <4>1. Columns * Sent \in Nat /\ Columns * (Len(queue) + 1) \in Nat
        BY <1>2, <3>1, <3>3, Multiples
      <4> QED  BY <3>1, <3>2, <3>3, <3>4, <4>1
    <3>6. Len(queue) + 1 \in Nat
      BY <1>2
    <3> QED  BY <3>1, <3>3, <3>5, <3>6, Multiples
  <2> QED  BY <2>1, <2>2, <2>3, ScriptIs
<1>6. Queued'
  <2>1. ASSUME NEW i \in 1 .. Len(queue')
        PROVE  i <= Sent => queue'[i] = SentRow(i)
    <3>1. i <= Sent => i \in 1 .. Len(queue)
      BY <1>2, <1>5, SentIs
    <3> QED  BY <1>2, <3>1 DEF Queued
  <2>2. Len(queue') > Sent
    BY <1>2, <1>5, SentIs
  <2> QED  BY <1>1, <1>2, <2>1, <2>2 DEF Queued
<1> QED  BY <1>3, <1>4, <1>6

\* A body that ended properly, before any failure, has given all its rows.
LEMMA PrefetchFindsEndKeeps == ASSUME IInv, PrefetchFindsEnd PROVE IInv'
<1> USE DEF IInv
<1>1. /\ UNCHANGED <<script, next, prefetched_rows, row_set, row_set_position, row_position>>
      /\ UNCHANGED <<affected_row_count, given, rows_fetched, array_status, written, row_idx>>
      /\ UNCHANGED <<at, size, bound, verdict, failed>>
      /\ at = "prefetch" /\ finished' = TRUE /\ row_pool' = Append(PoolLeft, Recycled)
      /\ next = script.fields /\ script.ending = "end"
  BY DEF PrefetchFindsEnd, Prefetching, Finish, BodyAtEnd, body, cursor, answer
<1>2. row_pool' \in Seq(Row)
  BY <1>1, RecycledIs, AppendProperties
<1>3. TypeOK' /\ Filled' /\ SuccessDescribesRowSet'
  BY <1>1, <1>2 DEF TypeOK, Filled, SuccessDescribesRowSet
<1>4. Positioned'
  BY <1>1 DEF Positioned
<1>5. Sent <= Len(queue)
  <2>1. CASE failed
    BY <2>1, SentIs, QueueIs DEF Queued
  <2>2. CASE ~failed /\ script.undecodable > 0
    BY <2>2, SentIs, QueueIs
  <2>3. CASE ~failed /\ script.undecodable = 0
    <3>1. next = Columns * Len(queue) /\ Columns \in Nat /\ Columns >= 1 /\ Len(queue) \in Nat
      BY <2>3, ScriptIs, QueueIs DEF Queued
    <3>2. Columns * Sent <= script.fields /\ Sent \in Nat
      BY <2>3, SentIs
    <3>3. Columns * (Len(queue) + 1) = Columns * Len(queue) + Columns
      BY <3>1, Multiples
    <3>4. Columns * Sent < Columns * (Len(queue) + 1)
      <4>1. Columns * Sent \in Nat /\ Columns * (Len(queue) + 1) \in Nat
        BY <3>1, <3>2, Multiples
      <4> QED  BY <1>1, <3>1, <3>2, <3>3, <4>1
    <3>5. Len(queue) + 1 \in Nat
      BY <3>1
    <3>6. Sent < Len(queue) + 1
      BY <3>1, <3>2, <3>4, <3>5, Multiples
    <3> QED  BY <3>1, <3>2, <3>6
  <2> QED  BY <2>1, <2>2, <2>3, ScriptIs
<1>6. Queued'
  <2>1. Sent' = Sent /\ queue' = queue
    BY <1>1 DEF Sent, queue
  <2>2. \A i : SentRow(i)' = SentRow(i)
    BY DEF SentRow
  <2> QED  BY <1>1, <1>5, <2>1, <2>2 DEF Queued
<1> QED  BY <1>3, <1>4, <1>6

LEMMA PrefetchEndsKeeps == ASSUME IInv, PrefetchEnds PROVE IInv'
<1> USE DEF IInv
<1>1. /\ UNCHANGED <<script, next, row_pool, prefetched_rows, finished, row_set, row_set_position>>
      /\ UNCHANGED <<row_position, affected_row_count, given, rows_fetched, array_status, written>>
      /\ UNCHANGED <<row_idx, size, bound, verdict, failed>>
      /\ at = "prefetch" /\ at' = "handout" /\ (finished \/ Len(prefetched_rows) >= Target)
  BY DEF PrefetchEnds, body, rows, cursor, answer
<1>2. TypeOK' /\ Filled' /\ SuccessDescribesRowSet'
  BY <1>1 DEF TypeOK, Filled, SuccessDescribesRowSet
<1>3. finished \/ prefetched_rows # <<>>
  <2>1. Target > 0
    BY BoundsAssumption DEF Target, TypeOK
  <2>2. prefetched_rows = <<>> => Len(prefetched_rows) = 0
    OBVIOUS
  <2>3. Target \in Int
    BY BoundsAssumption DEF Target, TypeOK
  <2> QED  BY <1>1, <2>1, <2>2, <2>3
<1>4. Positioned'
  BY <1>1, <1>3 DEF Positioned
<1>5. Queued'
  BY <1>1, QueueStays DEF queue
<1> QED  BY <1>2, <1>4, <1>5

\* What moving k rows to the row set does.
LEMMA MovingIs ==
  ASSUME IInv, at = "handout", NEW k \in 0 .. Len(prefetched_rows), MoveRows(k), PositionRows
  PROVE  /\ row_set' \in Seq(Row) /\ Len(row_set') = k
         /\ prefetched_rows' \in Seq(Row) /\ Len(prefetched_rows') = Len(prefetched_rows) - k
         /\ given' \in Seq(Row) /\ Len(given') = Len(given) + k
         /\ \A i \in 1 .. k : row_set'[i] = given'[Len(given) + i]
         /\ queue' = queue
         /\ affected_row_count' = Len(given')
         /\ row_position' = row_set_position'
         /\ row_set' = <<>> => row_set_position' = 0
         /\ row_set' # <<>> => row_set_position' = Len(given) + 1
<1> USE DEF IInv
<1>1. /\ row_set' = SubSeq(prefetched_rows, 1, k)
      /\ prefetched_rows' = SubSeq(prefetched_rows, k + 1, Len(prefetched_rows))
      /\ affected_row_count' = affected_row_count + k
      /\ given' = given \o SubSeq(prefetched_rows, 1, k)
  BY DEF MoveRows, FirstRows, CountRows
<1>2. /\ row_set' \in Seq(Row) /\ Len(row_set') = k
      /\ prefetched_rows' \in Seq(Row) /\ Len(prefetched_rows') = Len(prefetched_rows) - k
      /\ given' \in Seq(Row) /\ Len(given') = Len(given) + k
      /\ \A i \in 1 .. k : row_set'[i] = given'[Len(given) + i]
      /\ queue' = queue
  <2>1. given \in Seq(Row) /\ prefetched_rows \in Seq(Row)
    BY QueueIs
  <2>2. Len(prefetched_rows) \in Nat /\ k \in Nat /\ k <= Len(prefetched_rows)
    BY QueueIs
  <2>3. /\ row_set' \in Seq(Row) /\ Len(row_set') = k
        /\ \A i \in 1 .. k : row_set'[i] = prefetched_rows[i]
    BY <1>1, <2>1, <2>2, SubSeqProperties
  <2>4. /\ prefetched_rows' \in Seq(Row) /\ Len(prefetched_rows') = Len(prefetched_rows) - k
        /\ \A i \in 1 .. Len(prefetched_rows) - k : prefetched_rows'[i] = prefetched_rows[k + i]
    BY <1>1, <2>1, <2>2, SubSeqProperties
  <2>6. /\ Len(given \o SubSeq(prefetched_rows, 1, k)) = Len(given) + k
        /\ given \o SubSeq(prefetched_rows, 1, k) \in Seq(Row)
        /\ \A i \in 1 .. k : SubSeq(prefetched_rows, 1, k)[i]
                               = (given \o SubSeq(prefetched_rows, 1, k))[Len(given) + i]
        /\ (given \o SubSeq(prefetched_rows, 1, k))
             \o SubSeq(prefetched_rows, k + 1, Len(prefetched_rows)) = given \o prefetched_rows
    <3>1. k \in 0 .. Len(prefetched_rows)
      OBVIOUS
    <3> HIDE DEF IInv
    <3>2. HandsOut(Row, given, prefetched_rows, k)
      BY <2>1, <3>1, HandingOut
    <3> QED  BY <3>2, Zenon DEF HandsOut
  <2>7. /\ Len(given') = Len(given) + k /\ given' \in Seq(Row)
        /\ \A i \in 1 .. k : row_set'[i] = given'[Len(given) + i]
        /\ queue' = queue
    BY <1>1, <2>6 DEF queue
  <2> QED  BY <2>3, <2>4, <2>7
<1>3. affected_row_count' = Len(given')
  BY <1>1, <1>2 DEF TypeOK
<1>4. /\ row_position' = row_set_position'
      /\ row_set' = <<>> => row_set_position' = 0
  BY DEF PositionRows
<1>5. ASSUME row_set' # <<>>
      PROVE  row_set_position' = Len(given) + 1
  <2>1. prefetched_rows # <<>>
    <3>1. SUFFICES ASSUME prefetched_rows = <<>> PROVE row_set' = <<>>
      BY <1>5
    <3>2. Len(row_set') = 0
      BY <1>2, <3>1
    <3> QED  BY <1>2, <3>2, EmptySeq
  <2>2. row_set_position' = IF row_set_position = 0 THEN 1 ELSE row_set_position
    BY <1>5 DEF PositionRows
  <2>3. CASE row_set_position = Len(given) + 1
    BY <2>2, <2>3, QueueIs
  <2>4. CASE row_set_position = 0 /\ given = <<>>
    BY <2>2, <2>4
  <2> QED  BY <2>1, <2>3, <2>4 DEF Positioned
<1> QED  BY <1>2, <1>3, <1>4, <1>5

LEMMA HandOutKeeps == ASSUME IInv, HandOut PROVE IInv'
<1> USE DEF IInv
<1>1. /\ UNCHANGED <<script, next, row_pool, finished, array_status, written, row_idx>>
      /\ UNCHANGED <<size, bound, verdict, failed>>
      /\ at = "handout" /\ at' = "bind" /\ prefetched_rows # <<>>
      /\ rows_fetched' = Len(row_set')
      /\ MoveRows(Taken(size)) /\ PositionRows
  BY DEF HandOut, body
<1> DEFINE k == Taken(size)
<1>2. size > 0 /\ size \in 0 .. MaxSize /\ size \in Nat
  BY <1>1, BoundsAssumption DEF Filled, TypeOK
<1>3. Len(prefetched_rows) \in Nat /\ Len(prefetched_rows) > 0
  BY <1>1, QueueIs, EmptySeq
<1>4. k \in 0 .. Len(prefetched_rows) /\ k > 0 /\ k <= size
  BY <1>2, <1>3 DEF Taken
<1>5. MoveRows(k)
  BY <1>1
<1> HIDE DEF k
<1>6. /\ row_set' \in Seq(Row) /\ Len(row_set') = k
      /\ prefetched_rows' \in Seq(Row)
      /\ given' \in Seq(Row) /\ Len(given') = Len(given) + k
      /\ \A i \in 1 .. k : row_set'[i] = given'[Len(given) + i]
      /\ queue' = queue
      /\ affected_row_count' = Len(given')
      /\ row_position' = row_set_position'
      /\ row_set' # <<>> => row_set_position' = Len(given) + 1
  BY <1>1, <1>4, <1>5, MovingIs
<1>7. row_set' # <<>> /\ Len(given) \in Nat
  <2>1. row_set' = <<>> => Len(row_set') = 0
    OBVIOUS
  <2> QED  BY <1>4, <1>6, <2>1, QueueIs
<1>9. row_idx = 0
  BY <1>1 DEF Filled, TypeOK
<1>8. TypeOK'
  <2>1. rows_fetched' \in 0 .. size' /\ row_idx' \in 0 .. rows_fetched'
    BY <1>1, <1>2, <1>4, <1>6, <1>9
  <2>2. row_set_position' \in Nat /\ row_position' \in Nat
    BY <1>6, <1>7
  <2> QED  BY <1>1, <1>6, <2>1, <2>2 DEF TypeOK
<1>10. Positioned'
  <2>1. \A i \in 1 .. Len(row_set') : row_set'[i] = given'[Len(given') - Len(row_set') + i]
    <3>1. Len(given') - Len(row_set') = Len(given)
      BY <1>4, <1>6, <1>7
    <3> QED  BY <1>6, <3>1
  <2>2. /\ row_set_position' >= 1 /\ row_position' = row_set_position'
        /\ row_set_position' + Len(row_set') = Len(given') + 1
    BY <1>4, <1>6, <1>7
  <2> QED  BY <1>1, <1>7, <2>1, <2>2 DEF Positioned
<1>11. Filled' /\ SuccessDescribesRowSet'
  BY <1>1, <1>2, <1>4, <1>6, <1>9 DEF Filled, SuccessDescribesRowSet
<1>12. Queued'
  BY <1>1, <1>6, QueueStays
<1> QED  BY <1>8, <1>10, <1>11, <1>12

LEMMA HandOutNothingKeeps == ASSUME IInv, HandOutNothing PROVE IInv'
<1> USE DEF IInv
<1>1. /\ UNCHANGED <<script, next, row_pool, finished, rows_fetched, written, row_idx>>
      /\ UNCHANGED <<size, bound, failed>>
      /\ at = "handout" /\ at' = "idle" /\ prefetched_rows = <<>> /\ verdict' = "no_data"
      /\ array_status' = NoRows(1)
      /\ MoveRows(0) /\ PositionRows
  BY DEF HandOutNothing, body, Return
<1>2. 0 \in 0 .. Len(prefetched_rows) /\ Len(prefetched_rows) = 0
  BY <1>1
<1>3. /\ row_set' \in Seq(Row) /\ Len(row_set') = 0
      /\ prefetched_rows' \in Seq(Row) /\ Len(prefetched_rows') = 0
      /\ given' \in Seq(Row) /\ queue' = queue
      /\ affected_row_count' = Len(given')
      /\ row_position' = row_set_position'
      /\ row_set' = <<>> => row_set_position' = 0
  BY <1>1, <1>2, MovingIs
<1>4. row_set' = <<>> /\ prefetched_rows' = <<>> /\ row_set_position' = 0
  BY <1>3, EmptySeq
<1>5. array_status' \in [1 .. MaxSize -> {"unset", "success", "norow"}]
  BY <1>1 DEF NoRows, TypeOK
<1>6. TypeOK'
  BY <1>1, <1>3, <1>4, <1>5 DEF TypeOK
<1>7. Positioned'
  BY <1>1, <1>4 DEF Positioned
<1>8. Filled' /\ SuccessDescribesRowSet'
  BY <1>1 DEF Filled, SuccessDescribesRowSet
<1>9. Queued'
  BY <1>1, <1>3, QueueStays
<1> QED  BY <1>6, <1>7, <1>8, <1>9

LEMMA BindRowKeeps == ASSUME IInv, BindRow PROVE IInv'
<1> USE DEF IInv
<1>1. /\ UNCHANGED <<script, next, row_pool, prefetched_rows, finished, row_set, row_set_position>>
      /\ UNCHANGED <<row_position, affected_row_count, given, rows_fetched, at, size, bound>>
      /\ UNCHANGED <<verdict, failed>>
      /\ at = "bind" /\ row_idx < rows_fetched /\ row_idx' = row_idx + 1
      /\ bound => /\ array_status' = [array_status EXCEPT ![row_idx'] = "success"]
                  /\ written' = [written EXCEPT ![row_idx'] = row_set[row_idx']]
      /\ ~bound => array_status' = array_status /\ written' = written
  BY DEF BindRow, body, rows, cursor
<1>2. /\ rows_fetched \in 0 .. size /\ size \in 0 .. MaxSize /\ MaxSize \in Nat
      /\ row_idx \in 0 .. rows_fetched /\ rows_fetched = Len(row_set) /\ row_set \in Seq(Row)
  BY <1>1, BoundsAssumption DEF TypeOK, Filled
<1>3. row_idx' \in 1 .. MaxSize /\ row_idx' \in 1 .. Len(row_set) /\ row_idx' \in 0 .. rows_fetched
  BY <1>1, <1>2
<1>4. row_set[row_idx'] \in Row
  BY <1>2, <1>3
<1>5. /\ array_status' \in [1 .. MaxSize -> {"unset", "success", "norow"}]
      /\ written' \in [1 .. MaxSize -> Row]
  BY <1>1, <1>3, <1>4 DEF TypeOK
<1>6. TypeOK'
  BY <1>1, <1>3, <1>5 DEF TypeOK
<1>7. Filled'
  <2>1. ASSUME bound, NEW i \in 1 .. row_idx'
        PROVE  array_status'[i] = "success" /\ written'[i] = row_set[i]
    <3>1. i \in 1 .. MaxSize /\ (i = row_idx' \/ (i # row_idx' /\ i \in 1 .. row_idx))
      BY <1>1, <1>2
    <3>2. array_status \in [1 .. MaxSize -> {"unset", "success", "norow"}] /\ written \in [1 .. MaxSize -> Row]
      BY DEF TypeOK
    <3> QED  BY <1>1, <2>1, <3>1, <3>2 DEF Filled
  <2> QED  BY <1>1, <2>1 DEF Filled
<1>8. Positioned' /\ SuccessDescribesRowSet'
  BY <1>1 DEF Positioned, SuccessDescribesRowSet
<1>9. Queued'
  BY <1>1, QueueStays DEF queue
<1> QED  BY <1>6, <1>7, <1>8, <1>9

LEMMA BindThrowsKeeps == ASSUME IInv, BindThrows PROVE IInv'
<1> USE DEF IInv
<1>1. /\ UNCHANGED <<script, next, row_pool, prefetched_rows, finished, row_set, row_set_position>>
      /\ UNCHANGED <<row_position, affected_row_count, given, rows_fetched, row_idx, size, bound>>
      /\ UNCHANGED failed
      /\ at = "bind" /\ at' = "idle" /\ row_idx < rows_fetched
  BY DEF BindThrows, body, rows, cursor, Return
<1>2. PICK c \in 1 .. Columns, v \in {"with_info", "error"} :
        /\ verdict' = v
        /\ written' = [written EXCEPT ![row_idx + 1] =
                         [d \in 1 .. Columns |-> IF d < c THEN row_set[row_idx + 1][d] ELSE 0]]
        /\ array_status' =
             IF c > 1 THEN [array_status EXCEPT ![row_idx + 1] = "success"] ELSE array_status
  BY DEF BindThrows, Return
<1>3. /\ rows_fetched \in 0 .. size /\ size \in 0 .. MaxSize /\ MaxSize \in Nat
      /\ row_idx \in 0 .. rows_fetched /\ rows_fetched = Len(row_set) /\ row_set \in Seq(Row)
  BY <1>1, BoundsAssumption DEF TypeOK, Filled
<1>4. row_idx + 1 \in 1 .. Len(row_set)
  BY <1>1, <1>3
<1>5. row_set[row_idx + 1] \in Row
  BY <1>3, <1>4
<1>6. [d \in 1 .. Columns |-> IF d < c THEN row_set[row_idx + 1][d] ELSE 0] \in Row
  <2>1. \A r \in Row : [d \in 1 .. Columns |-> IF d < c THEN r[d] ELSE 0] \in Row
    BY BoundsAssumption DEF Row
  <2> QED  BY <1>5, <2>1
<1>7. /\ array_status' \in [1 .. MaxSize -> {"unset", "success", "norow"}]
      /\ written' \in [1 .. MaxSize -> Row]
  BY <1>2, <1>6 DEF TypeOK
<1>8. TypeOK' /\ Positioned' /\ Filled' /\ SuccessDescribesRowSet'
  BY <1>1, <1>2, <1>7 DEF TypeOK, Positioned, Filled, SuccessDescribesRowSet
<1>9. Queued'
  BY <1>1, QueueStays DEF queue
<1> QED  BY <1>8, <1>9

\* The last row is bound, so the whole row set is.
LEMMA BindEndsKeeps == ASSUME IInv, BindEnds PROVE IInv'
<1> USE DEF IInv
<1>1. /\ UNCHANGED <<script, next, row_pool, prefetched_rows, finished, row_set, row_set_position>>
      /\ UNCHANGED <<row_position, affected_row_count, given, rows_fetched, written, row_idx>>
      /\ UNCHANGED <<size, bound, failed>>
      /\ at = "bind" /\ at' = "idle" /\ row_idx = rows_fetched /\ verdict' = "success"
      /\ array_status' = NoRows(rows_fetched + 1)
  BY DEF BindEnds, body, rows, cursor, Return, RestNoRow
<1>2. /\ rows_fetched \in 0 .. size /\ size \in 0 .. MaxSize /\ MaxSize \in Nat
      /\ rows_fetched = Len(row_set) /\ rows_fetched > 0
      /\ array_status \in [1 .. MaxSize -> {"unset", "success", "norow"}]
  BY <1>1, BoundsAssumption DEF TypeOK, Filled
<1>3. array_status' = [i \in 1 .. MaxSize |->
        IF rows_fetched + 1 <= i /\ i <= size THEN "norow" ELSE array_status[i]]
  BY <1>1 DEF NoRows
<1>4. array_status' \in [1 .. MaxSize -> {"unset", "success", "norow"}]
  BY <1>2, <1>3
<1>5. TypeOK' /\ Positioned' /\ Filled'
  BY <1>1, <1>4 DEF TypeOK, Positioned, Filled
<1>6. SuccessDescribesRowSet'
  <2>1. \A i \in rows_fetched + 1 .. size : array_status'[i] = "norow"
    BY <1>2, <1>3
  <2>2. ASSUME bound, NEW i \in 1 .. rows_fetched
        PROVE  array_status'[i] = "success" /\ written[i] = row_set[i]
    <3>1. i \in 1 .. MaxSize /\ ~(rows_fetched + 1 <= i)
      BY <1>2
    <3> QED  BY <1>1, <1>3, <2>2, <3>1 DEF Filled
  <2> QED  BY <1>1, <1>2, <2>1, <2>2 DEF SuccessDescribesRowSet
<1>7. Queued'
  BY <1>1, QueueStays DEF queue
<1> QED  BY <1>5, <1>6, <1>7

LEMMA InitHolds == Init => IInv
<1> SUFFICES ASSUME Init PROVE IInv
  OBVIOUS
<1>1. /\ script \in Scripts /\ next = 0 /\ row_pool = <<>> /\ prefetched_rows = <<>>
      /\ finished = FALSE /\ row_set = <<>> /\ row_set_position = 0 /\ row_position = 0
      /\ affected_row_count = 0 /\ given = <<>> /\ at = "idle" /\ size = 1 /\ bound = FALSE
      /\ verdict = "none" /\ failed = FALSE /\ rows_fetched = 0 /\ array_status = Unset
      /\ written = Nowhere /\ row_idx = 0
  BY DEF Init
<1>2. TypeOK
  <2>1. array_status \in [1 .. MaxSize -> {"unset", "success", "norow"}] /\ written \in [1 .. MaxSize -> Row]
    BY <1>1, NoRowIsRow DEF Unset, Nowhere
  <2>2. next \in 0 .. script.fields
    BY <1>1, BoundsAssumption DEF Scripts
  <2>3. <<>> \in Seq(Row) /\ Len(<<>>) = 0
    OBVIOUS
  <2>4. /\ script \in Scripts /\ next \in 0 .. script.fields
        /\ row_pool \in Seq(Row) /\ prefetched_rows \in Seq(Row) /\ row_set \in Seq(Row)
        /\ given \in Seq(Row) /\ affected_row_count = Len(given)
    BY <1>1, <2>2, <2>3
  <2>5. size \in 0 .. MaxSize /\ rows_fetched \in 0 .. size /\ row_idx \in 0 .. rows_fetched
    BY <1>1, BoundsAssumption
  <2> QED  BY <1>1, <2>1, <2>4, <2>5 DEF TypeOK
<1>3. queue = <<>> /\ Len(queue) = 0
  BY <1>1 DEF queue
<1>4. Queued
  <2>1. Columns * 0 = 0
    BY ColumnsAssumption
  <2> QED  BY <1>1, <1>3, <2>1 DEF Queued
<1>5. Positioned /\ Filled /\ SuccessDescribesRowSet
  BY <1>1 DEF Positioned, Filled, SuccessDescribesRowSet
<1> QED  BY <1>2, <1>4, <1>5 DEF IInv

LEMMA StepHolds == IInv /\ [Next]_vars => IInv'
<1> SUFFICES ASSUME IInv, [Next]_vars PROVE IInv'
  OBVIOUS
<1>1. CASE FetchNothing
  BY <1>1, FetchNothingKeeps
<1>2. CASE FetchElsewhere
  BY <1>2, FetchElsewhereKeeps
<1>3. CASE FetchNext
  BY <1>3, FetchNextKeeps
<1>4. CASE PrefetchRow
  BY <1>4, PrefetchRowKeeps
<1>5. CASE PrefetchThrows
  BY <1>5, PrefetchThrowsKeeps
<1>6. CASE PrefetchFindsEnd
  BY <1>6, PrefetchFindsEndKeeps
<1>7. CASE PrefetchEnds
  BY <1>7, PrefetchEndsKeeps
<1>8. CASE HandOut
  BY <1>8, HandOutKeeps
<1>9. CASE HandOutNothing
  BY <1>9, HandOutNothingKeeps
<1>10. CASE BindRow
  BY <1>10, BindRowKeeps
<1>11. CASE BindThrows
  BY <1>11, BindThrowsKeeps
<1>12. CASE BindEnds
  BY <1>12, BindEndsKeeps
<1>13. CASE UNCHANGED vars
  <2>1. /\ UNCHANGED <<script, next, row_pool, prefetched_rows, finished, row_set>>
        /\ UNCHANGED <<row_set_position, row_position, affected_row_count, given, rows_fetched>>
        /\ UNCHANGED <<array_status, written, row_idx, at, size, bound, verdict, failed>>
    BY <1>13 DEF vars, body, rows, cursor, answer
  <2>2. TypeOK' /\ Positioned' /\ Filled' /\ SuccessDescribesRowSet'
    BY <2>1 DEF IInv, TypeOK, Positioned, Filled, SuccessDescribesRowSet
  <2>3. Queued'
    BY <2>1, QueueStays DEF IInv, queue
  <2> QED  BY <2>2, <2>3 DEF IInv
<1> QED
  BY <1>1, <1>2, <1>3, <1>4, <1>5, <1>6, <1>7, <1>8, <1>9, <1>10, <1>11, <1>12, <1>13
     DEF Next, Application, Driver

-----------------------------------------------------------------------------
(***************************************************************************)
(* Theorems                                                                *)
(***************************************************************************)

\* The inductive invariant holds of every state.
THEOREM FetchInvariance == Spec => []IInv
BY InitHolds, StepHolds, PTL DEF Spec

\* ResultSet and the call that reads it stay within their types: no row set is larger
\* than asked for, and affected_row_count counts every row given.
THEOREM FetchTypeCorrect == Spec => []TypeOK
<1>1. IInv => TypeOK
  BY DEF IInv
<1> QED  BY <1>1, FetchInvariance, PTL

\* fetchBindings() reports success only for rows it wrote, and says so for each.
THEOREM SuccessIsTold == Spec => []SuccessDescribesRowSet
<1>1. IInv => SuccessDescribesRowSet
  BY DEF IInv
<1> QED  BY <1>1, FetchInvariance, PTL

\* getCurrentRowPosition() names the first row of the last row set, by its number
\* among all the rows given.
THEOREM CurrentRowIsFirst == Spec => []CurrentRowAgrees
<1>1. IInv => CurrentRowAgrees
  <2> SUFFICES ASSUME IInv, at = "idle" PROVE CurrentRowAgrees
    BY DEF CurrentRowAgrees
  <2>1. row_set \in Seq(Row) /\ Len(row_set) \in Nat /\ given \in Seq(Row) /\ Len(given) \in Nat
    BY DEF IInv, TypeOK
  <2>2. CASE row_set = <<>>
    <3>1. Len(row_set) = 0
      BY <2>2
    <3>2. CurrentRow = 0
      BY <3>1 DEF CurrentRow, IInv, TypeOK
    <3> QED  BY <2>2, <3>2 DEF CurrentRowAgrees
  <2>3. CASE row_set # <<>>
    <3>1. /\ row_set_position >= 1 /\ row_position = row_set_position
          /\ row_set_position + Len(row_set) = Len(given) + 1
          /\ row_set_position \in Nat
          /\ \A i \in 1 .. Len(row_set) : row_set[i] = given[Len(given) - Len(row_set) + i]
      BY <2>3 DEF IInv, Positioned, TypeOK
    <3>2. Len(row_set) >= 1
      BY <2>1, <2>3, EmptySeq
    <3>3. CurrentRow = row_set_position
      BY <2>1, <3>1, <3>2 DEF CurrentRow
    <3>4. /\ CurrentRow # 0 /\ CurrentRow = Len(given) - Len(row_set) + 1
          /\ CurrentRow - row_set_position + 1 = 1
      BY <2>1, <3>1, <3>3
    <3>5. row_set[1] = given[Len(given) - Len(row_set) + 1]
      BY <2>1, <3>1, <3>2
    <3> QED  BY <2>3, <3>4, <3>5 DEF CurrentRowAgrees
  <2> QED  BY <2>2, <2>3
<1> QED  BY <1>1, FetchInvariance, PTL

-----------------------------------------------------------------------------
(***************************************************************************)
(* The rows of the server                                                  *)
(***************************************************************************)

LEMMA CursorInit == Init => Cursor!Init
<1> SUFFICES ASSUME Init PROVE Cursor!Init
  OBVIOUS
<1>1. TypeOK
  BY InitHolds DEF IInv
<1>2. Sent \in Nat
  BY <1>1, SentIs
<1> QED  BY <1>2 DEF Init, Cursor!Init, Answer

\* Steps that the application cannot tell from doing nothing.
LEMMA HiddenSteps ==
  ASSUME UNCHANGED <<script, given, failed>>, Answer' = Answer
  PROVE  UNCHANGED Cursor!vars
BY DEF Cursor!vars, Sent

\* What is appended leaves the beginning as it is.
LEMMA Beginning ==
  ASSUME NEW S, NEW g \in Seq(S), NEW f \in Seq(S)
  PROVE  /\ SubSeq(g \o f, 1, Len(g)) = g
         /\ \A i \in 1 .. Len(g) : (g \o f)[i] = g[i]
<1>1. /\ g \o f \in Seq(S) /\ Len(g \o f) = Len(g) + Len(f)
      /\ \A i \in 1 .. Len(g) + Len(f) : (g \o f)[i] = IF i <= Len(g) THEN g[i] ELSE f[i - Len(g)]
  BY ConcatProperties
<1>2. Len(g) \in Nat /\ Len(f) \in Nat
  OBVIOUS
<1>3. \A i \in 1 .. Len(g) : (g \o f)[i] = g[i]
  BY <1>1, <1>2
<1> DEFINE a == g \o f
<1>4. a \in Seq(S) /\ Len(g) <= Len(a) /\ \A i \in 1 .. Len(g) : a[i] = g[i]
  BY <1>1, <1>2, <1>3
<1> HIDE DEF a
<1>5. /\ SubSeq(a, 1, Len(g)) \in Seq(S) /\ Len(SubSeq(a, 1, Len(g))) = Len(g)
      /\ \A i \in 1 .. Len(g) : SubSeq(a, 1, Len(g))[i] = a[i]
  BY <1>2, <1>4, SubSeqProperties
<1>6. SubSeq(a, 1, Len(g)) = g
  BY <1>4, <1>5, SeqEqual
<1> QED  BY <1>3, <1>6 DEF a

LEMMA HandOutGives == ASSUME IInv, HandOut PROVE Cursor!Give
<1>1. IInv'
  BY HandOutKeeps
<1>2. /\ at = "handout" /\ at' = "bind" /\ prefetched_rows # <<>>
      /\ UNCHANGED <<script, size, verdict, failed>>
      /\ MoveRows(Taken(size)) /\ PositionRows
  BY DEF HandOut, body
<1>3. Answer = "asked" /\ Answer' = "asked"
  BY <1>2 DEF Answer
<1>4. Sent' = Sent /\ Sent \in Nat /\ \A i \in Nat : SentRow(i)' = SentRow(i)
  BY <1>2, SentIs DEF IInv, Sent, SentRow
<1> DEFINE k == Taken(size)
<1>5. k \in 0 .. Len(prefetched_rows) /\ k > 0
  <2>1. Len(prefetched_rows) \in Nat /\ Len(prefetched_rows) > 0
    BY <1>2, QueueIs, EmptySeq DEF IInv
  <2>2. size \in Nat /\ size > 0
    BY <1>2, BoundsAssumption DEF IInv, Filled, TypeOK
  <2> QED  BY <2>1, <2>2 DEF Taken
<1> HIDE DEF k
<1>6. Len(given') = Len(given) + k /\ Len(given) \in Nat /\ given \in Seq(Row)
  BY <1>2, <1>5, MovingIs, QueueIs DEF IInv, k
<1>7. given' = given \o SubSeq(prefetched_rows, 1, k) /\ SubSeq(prefetched_rows, 1, k) \in Seq(Row)
  <2>1. given' = given \o SubSeq(prefetched_rows, 1, k)
    BY <1>2 DEF MoveRows, FirstRows, k
  <2>2. row_set' = SubSeq(prefetched_rows, 1, k) /\ row_set' \in Seq(Row)
    BY <1>1, <1>2 DEF MoveRows, FirstRows, k, IInv, TypeOK
  <2> QED  BY <2>1, <2>2
<1>8. SubSeq(given', 1, Len(given)) = given
  BY <1>6, <1>7, Beginning
<1>9. ASSUME NEW i \in Len(given) + 1 .. Len(given')
      PROVE  IF i <= Sent THEN given'[i] = SentRow(i) ELSE failed
  <2>1. i \in 1 .. Len(given') /\ i \in Nat
    BY <1>5, <1>6
  <2>2. given' \in Seq(Row) /\ prefetched_rows' \in Seq(Row) /\ queue' = given' \o prefetched_rows'
    BY <1>1 DEF IInv, TypeOK, queue
  <2>3. given'[i] = queue'[i]
    BY <2>1, <2>2, Beginning
  <2>4. i \in 1 .. Len(queue')
    <3>1. Len(queue') = Len(given') + Len(prefetched_rows')
      BY <2>2, ConcatProperties
    <3>2. Len(given') \in Nat /\ Len(prefetched_rows') \in Nat
      BY <2>2
    <3> QED  BY <2>1, <3>1, <3>2
  <2>5. IF i <= Sent' THEN queue'[i] = SentRow(i)' ELSE failed'
    BY <1>1, <2>4 DEF IInv, Queued
  <2> QED  BY <1>2, <1>4, <2>1, <2>3, <2>5
<1> QED  BY <1>2, <1>3, <1>4, <1>5, <1>6, <1>8, <1>9 DEF Cursor!Give

LEMMA EndIsTheEnd == ASSUME IInv, HandOutNothing PROVE Cursor!Answer
<1>1. /\ at = "handout" /\ at' = "idle" /\ prefetched_rows = <<>> /\ verdict' = "no_data"
      /\ UNCHANGED <<script, size, failed>>
      /\ MoveRows(0) /\ PositionRows
  BY DEF HandOutNothing, body, Return
<1>2. Answer = "asked" /\ Answer' = "end"
  BY <1>1 DEF Answer, IInv, Filled
<1>3. Sent' = Sent
  BY <1>1 DEF Sent
<1>4. given' = given
  <2>1. SubSeq(prefetched_rows, 1, 0) = <<>>
    BY <1>1
  <2>2. given' = given \o <<>> /\ given \in Seq(Row)
    BY <1>1, <2>1 DEF MoveRows, FirstRows, IInv, TypeOK
  <2> QED  BY <2>2, ConcatEmptySeq
<1>5. script.ending = "end" /\ Len(given) >= Sent
  <2>1. finished
    BY <1>1 DEF IInv, Positioned
  <2>2. Len(queue) = Len(given)
    <3>1. Len(prefetched_rows) = 0
      BY <1>1
    <3> QED  BY <3>1, QueueIs DEF IInv
  <2> QED  BY <2>1, <2>2 DEF IInv, Queued
<1> QED  BY <1>1, <1>2, <1>3, <1>4, <1>5 DEF Cursor!Answer

LEMMA CursorStep == IInv /\ [Next]_vars => [Cursor!Next]_(Cursor!vars)
<1> SUFFICES ASSUME IInv, [Next]_vars PROVE Cursor!Next \/ UNCHANGED Cursor!vars
  OBVIOUS
<1>1. verdict \in {"none", "success", "with_info", "no_data", "error"}
  BY DEF IInv, TypeOK
<1>2. CASE FetchNothing
  <2>1. /\ at = "idle" /\ at' = "idle" /\ verdict' = "no_data" /\ size' = 0
        /\ UNCHANGED <<script, given, failed>>
    BY <1>2 DEF FetchNothing, BeginCall, Return, body, cursor
  <2>2. Cursor!Refuse
    BY <1>1, <2>1 DEF Cursor!Refuse, Answer, Sent
  <2> QED  BY <2>2 DEF Cursor!Next
<1>3. CASE FetchElsewhere
  <2>1. at = "idle" /\ at' = "idle" /\ verdict' = "error" /\ UNCHANGED <<script, given, failed>>
    BY <1>3 DEF FetchElsewhere, BeginCall, Return, body, cursor
  <2>2. Cursor!Refuse
    BY <1>1, <2>1 DEF Cursor!Refuse, Answer, Sent
  <2> QED  BY <2>2 DEF Cursor!Next
<1>4. CASE FetchNext
  <2>1. at = "idle" /\ at' # "idle" /\ UNCHANGED <<script, given, failed>>
    BY <1>4 DEF FetchNext, BeginCall, body
  <2>2. Cursor!Ask
    BY <1>1, <2>1 DEF Cursor!Ask, Answer, Sent
  <2> QED  BY <2>2 DEF Cursor!Next
<1>5. CASE PrefetchRow \/ PrefetchFindsEnd \/ PrefetchEnds \/ BindRow
  <2>1. at # "idle" /\ at' # "idle" /\ UNCHANGED <<script, given, failed>>
    BY <1>5 DEF PrefetchRow, PrefetchFindsEnd, PrefetchEnds, BindRow, Prefetching, body, cursor
  <2>2. Answer' = Answer
    BY <2>1 DEF Answer
  <2> QED  BY <2>1, <2>2, HiddenSteps
<1>6. CASE PrefetchThrows
  <2>1. /\ at # "idle" /\ at' = "idle" /\ verdict' = "error" /\ failed' = TRUE
        /\ UNCHANGED <<script, given>>
    BY <1>6 DEF PrefetchThrows, Prefetching, Return, cursor
  <2>2. Cursor!Answer
    BY <2>1 DEF Cursor!Answer, Answer, Sent
  <2> QED  BY <2>2 DEF Cursor!Next
<1>7. CASE HandOut
  BY <1>7, HandOutGives DEF Cursor!Next
<1>8. CASE HandOutNothing
  BY <1>8, EndIsTheEnd DEF Cursor!Next
<1>9. CASE BindThrows \/ BindEnds
  <2>1. /\ at # "idle" /\ at' = "idle" /\ verdict' \in {"success", "with_info", "error"}
        /\ UNCHANGED <<script, given, failed>>
    BY <1>9 DEF BindThrows, BindEnds, Return, body, cursor
  <2>2. Cursor!Answer
    BY <2>1 DEF Cursor!Answer, Answer, Sent
  <2> QED  BY <2>2 DEF Cursor!Next
<1>10. CASE UNCHANGED vars
  <2>1. UNCHANGED <<script, given, failed, at, verdict, size>>
    BY <1>10 DEF vars, body, cursor
  <2>2. Answer' = Answer
    BY <2>1 DEF Answer
  <2> QED  BY <2>1, <2>2, HiddenSteps
<1> QED
  BY <1>2, <1>3, <1>4, <1>5, <1>6, <1>7, <1>8, <1>9, <1>10 DEF Next, Application, Driver

\* Fetching gives the rows the server sent, each once and in their order, and nothing
\* else before a failure was reported; SQL_NO_DATA comes only at the proper end with
\* every row given.  That every fetch ends is left to TLC.
THEOREM RowsAreTheServers == Spec => Cursor!Init /\ [][Cursor!Next]_(Cursor!vars)
BY CursorInit, CursorStep, FetchInvariance, PTL DEF Spec
=============================================================================
