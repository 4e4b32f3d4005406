---------------------------- MODULE GetDataProofs ----------------------------
(***************************************************************************)
(* Proofs about GetData, for every number of columns, length of value and  *)
(* set of buffer sizes.  They say what they need of the calls: no value is *)
(* converted for the call, and no buffer has the size 0.                   *)
(*                                                                         *)
(* The inductive invariant tells the three stages of a column apart that   *)
(* GetData() keeps in one offset: the value is being read (Reading), its   *)
(* last part was returned and the offset lies one symbol beyond its end    *)
(* (Returned), or the application was told so and the offset is back at    *)
(* the start (Over).                                                       *)
(***************************************************************************)
EXTENDS GetData, SequenceTheorems, TLAPS

\* The calls these proofs are about.
TextOnly == "converted" \notin Kinds /\ 0 \notin Buffers

\* A type invariant for one column.
ColumnType(c) ==
  /\ value[c] \in Values
  /\ column_offsets[c] \in 0 .. SizeModulus - 1
  /\ indicator[c] \in -1 .. 2 * MaxLength
  /\ verdict[c] \in {"none", "success", "with_info", "no_data", "error"}
  /\ received[c] \in Seq(1 .. MaxLength)
  /\ lasts[c] \in 0 .. 2

Successive(c) == \A i \in 1 .. Len(received[c]) : received[c][i] = i

\* Nothing but what is left was not yet returned.
Reading(c) ==
  /\ verdict[c] \in {"none", "with_info", "error"} /\ lasts[c] = 0
  /\ column_offsets[c] = Len(received[c]) * value[c].symbol
  /\ Len(received[c]) <= value[c].length
  /\ received[c] # <<>> => Len(received[c]) < value[c].length

Returned(c) ==
  /\ verdict[c] \in {"success", "error"} /\ lasts[c] = 1
  /\ Len(received[c]) = value[c].length
  /\ column_offsets[c] = (value[c].length + 1) * value[c].symbol

Over(c) ==
  /\ verdict[c] = "no_data" /\ lasts[c] = 1
  /\ Len(received[c]) = value[c].length
  /\ column_offsets[c] = 0

\* What is known of one column.
Column(c) ==
  /\ ColumnType(c)
  /\ Successive(c)
  /\ IF value[c].kind = "string" THEN Reading(c) \/ Returned(c) \/ Over(c)
     ELSE value[c].kind = "null" /\ received[c] = <<>> /\ verdict[c] \in {"none", "success"}

IInv == TypeOK /\ \A c \in Cols : Column(c)

-----------------------------------------------------------------------------
(***************************************************************************)
(* Parts and offsets                                                       *)
(***************************************************************************)

\* A part that begins where the last one ended continues the value.
LEMMA PartContinues ==
  ASSUME NEW m \in Nat, NEW r \in Seq(1 .. m), \A i \in 1 .. Len(r) : r[i] = i,
         NEW k \in Nat, Len(r) + k <= m,
         NEW p, p = [i \in 1 .. k |-> Len(r) + i]
  PROVE  /\ r \o p \in Seq(1 .. m)
         /\ Len(r \o p) = Len(r) + k
         /\ \A i \in 1 .. Len(r \o p) : (r \o p)[i] = i
<1>1. Len(r) \in Nat
  BY LenProperties
<1>2. p \in Seq(1 .. m) /\ Len(p) = k
  <2>1. \A i \in 1 .. k : Len(r) + i \in 1 .. m
    BY <1>1
  <2> QED  BY <2>1
<1>3. /\ r \o p \in Seq(1 .. m)
      /\ Len(r \o p) = Len(r) + k
      /\ \A i \in 1 .. Len(r) + k : (r \o p)[i] = IF i <= Len(r) THEN r[i] ELSE p[i - Len(r)]
  BY <1>1, <1>2, ConcatProperties
<1> QED  BY <1>1, <1>2, <1>3

\* An offset stays a size_t.
LEMMA SizeTIs ==
  ASSUME NEW n \in Int
  PROVE  SizeT(n) \in 0 .. SizeModulus - 1
<1>1. SizeModulus \in Nat \ {0}
  BY ModulusAssumption
<1> QED  BY <1>1 DEF SizeT

\* A value is a string or NULL.
LEMMA ValueIs ==
  ASSUME TextOnly, NEW v \in Values
  PROVE  v.kind \in {"string", "null"} /\ v.length \in Nat /\ v.symbol \in {1, 2}
<1>1. v.kind \in Kinds /\ v.length \in 0 .. MaxLength /\ v.symbol \in {1, 2} /\ MaxLength \in Nat
  BY BuffersAssumption DEF Values, Symbols
<1>2. v.kind \in {"string", "null"}
  BY <1>1, KindsAssumption, Zenon DEF TextOnly
<1> QED  BY <1>1, <1>2

\* What a call finds of a value from which n symbols were read already, and how much
\* of it fits.
LEMMA CallFinds ==
  ASSUME TextOnly, NEW c \in Cols, NEW b \in Buffers, ColumnType(c), ~OddBuffer(c, b),
         NEW n \in Nat, n <= value[c].length, value[c].kind = "string",
         column_offsets[c] = n * value[c].symbol
  PROVE  /\ StartOf(c) \div value[c].symbol = n
         /\ Remaining(c) \in 0 .. 2 * MaxLength
         /\ StillPartial(c) <=> n > 0 /\ n = value[c].length
         /\ ~Truncated(c, b) =>
              /\ Copied(c, b) = value[c].length - n
              /\ AfterLast(c, Remaining(c)) = (value[c].length + 1) * value[c].symbol
         /\ Truncated(c, b) =>
              /\ Copied(c, b) \in Nat /\ n + Copied(c, b) < value[c].length
              /\ AfterPart(c, b) = (n + Copied(c, b)) * value[c].symbol
<1> DEFINE L == value[c].length
           s == value[c].symbol
<1>1. /\ L \in Nat /\ L <= MaxLength /\ MaxLength \in Nat
      /\ b \in Nat \ {0} /\ SizeModulus \in Nat /\ SizeModulus > 2 * MaxLength + b + 2
      /\ s \in {1, 2}
  BY BuffersAssumption, ModulusAssumption DEF TextOnly, ColumnType, Values, Symbols
<1>2. \A m \in 0 .. SizeModulus - 1 : SizeT(m) = m
  BY <1>1 DEF SizeT
<1>3. CASE s = 1
  <2>1. StartOf(c) = n /\ Remaining(c) = L - n /\ column_offsets[c] = n
    BY <1>1, <1>3 DEF StartOf, Remaining, Bytes
  <2>2. Truncated(c, b) => Copied(c, b) = b - 1 /\ b <= L - n
    BY <1>1, <1>3, <2>1 DEF Truncated, Copied
  <2>3. ~Truncated(c, b) => Copied(c, b) = L - n
    BY <1>1, <1>3, <2>1 DEF Truncated, Copied
  <2>4. Truncated(c, b) => AfterPart(c, b) = n + b - 1
    <3>1. AfterPart(c, b) = SizeT(n + b - 1)
      BY <1>3, <2>1 DEF AfterPart
    <3> QED  BY <1>1, <1>2, <2>2, <3>1
  <2>5. AfterLast(c, Remaining(c)) = L + 1
    <3>1. AfterLast(c, Remaining(c)) = SizeT(L + 1)
      BY <1>1, <1>3, <2>1 DEF AfterLast
    <3> QED  BY <1>1, <1>2, <3>1
  <2>6. StillPartial(c) <=> n > 0 /\ n = L
    BY <1>1, <1>3, <2>1 DEF StillPartial, Bytes
  <2> QED  BY <1>1, <1>3, <2>1, <2>2, <2>3, <2>4, <2>5, <2>6
<1>4. CASE s = 2
  <2>1. StartOf(c) = 2 * n /\ Remaining(c) = 2 * (L - n) /\ column_offsets[c] = 2 * n
    BY <1>1, <1>4 DEF StartOf, Remaining, Bytes
  <2>2. PICK h \in Nat : b = 2 * h /\ h >= 1
    <3>1. b % 2 = 0
      BY <1>1, <1>4 DEF OddBuffer
    <3> QED  BY <1>1, <3>1
  <2>3. Truncated(c, b) => Copied(c, b) = h - 1 /\ h <= L - n
    BY <1>1, <1>4, <2>1, <2>2 DEF Truncated, Copied
  <2>4. ~Truncated(c, b) => Copied(c, b) = L - n
    BY <1>1, <1>4, <2>1, <2>2 DEF Truncated, Copied
  <2>5. Truncated(c, b) => AfterPart(c, b) = 2 * (n + h - 1)
    <3>1. AfterPart(c, b) = SizeT(2 * (n + h - 1))
      BY <1>4, <2>1, <2>2 DEF AfterPart
    <3> QED  BY <1>1, <1>2, <2>2, <2>3, <3>1
  <2>6. AfterLast(c, Remaining(c)) = 2 * (L + 1)
    <3>1. AfterLast(c, Remaining(c)) = SizeT(2 * (L + 1))
      BY <1>1, <1>4, <2>1 DEF AfterLast
    <3> QED  BY <1>1, <1>2, <3>1
  <2>7. StillPartial(c) <=> n > 0 /\ n = L
    BY <1>1, <1>4, <2>1 DEF StillPartial, Bytes
  <2> QED  BY <1>1, <1>4, <2>1, <2>2, <2>3, <2>4, <2>5, <2>6, <2>7
<1> QED  BY <1>1, <1>3, <1>4

-----------------------------------------------------------------------------
(***************************************************************************)
(* One step                                                                *)
(***************************************************************************)

\* A call for one column leaves what is known of the others.
LEMMA OthersKeep ==
  ASSUME NEW c \in Cols, NEW d \in Cols \ {c}, TypeOK, Column(d), UNCHANGED value,
         NEW v, verdict' = [verdict EXCEPT ![c] = v],
         NEW ind, indicator' = [indicator EXCEPT ![c] = ind],
         NEW off, column_offsets' = [column_offsets EXCEPT ![c] = off],
         NEW r, received' = [received EXCEPT ![c] = r],
         NEW l, lasts' = [lasts EXCEPT ![c] = l]
  PROVE  Column(d)'
<1>1. /\ value'[d] = value[d] /\ verdict'[d] = verdict[d] /\ indicator'[d] = indicator[d]
      /\ column_offsets'[d] = column_offsets[d] /\ received'[d] = received[d]
      /\ lasts'[d] = lasts[d]
  BY DEF TypeOK
<1> QED
  BY <1>1 DEF Column, ColumnType, Successive, Reading, Returned, Over

\* So a call keeps the invariant if it does so for its own column.
LEMMA ColumnSuffices ==
  ASSUME NEW c \in Cols, IInv, UNCHANGED value,
         NEW v, verdict' = [verdict EXCEPT ![c] = v],
         NEW ind, indicator' = [indicator EXCEPT ![c] = ind],
         NEW off, column_offsets' = [column_offsets EXCEPT ![c] = off],
         NEW r, received' = [received EXCEPT ![c] = r],
         NEW l, lasts' = [lasts EXCEPT ![c] = l],
         Column(c)'
  PROVE  IInv'
<1>1. \A d \in Cols \ {c} : Column(d)'
  BY OthersKeep, Zenon DEF IInv
<1>2. TypeOK'
  BY DEF IInv, TypeOK, Column, ColumnType
<1> QED  BY <1>1, <1>2 DEF IInv

\* What was returned of a value when a call begins: nothing once it was over.
Before(c) == IF verdict[c] = "no_data" THEN <<>> ELSE received[c]

LEMMA BeforeIs ==
  ASSUME NEW c \in Cols, Column(c), value[c].kind = "string"
  PROVE  /\ Before(c) \in Seq(1 .. MaxLength) /\ Len(Before(c)) \in Nat
         /\ \A i \in 1 .. Len(Before(c)) : Before(c)[i] = i
         /\ Len(Before(c)) <= value[c].length
         /\ ~Returned(c) =>
              /\ column_offsets[c] = Len(Before(c)) * value[c].symbol
              /\ Before(c) # <<>> => Len(Before(c)) < value[c].length
<1>1. value[c].length \in Nat /\ value[c].symbol \in {1, 2} /\ received[c] \in Seq(1 .. MaxLength)
  BY ModulusAssumption, BuffersAssumption DEF Column, ColumnType, Values, Symbols
<1>2. CASE verdict[c] = "no_data"
  <2>1. Over(c)
    BY <1>2 DEF Column, Reading, Returned
  <2>2. Before(c) = <<>> /\ Len(Before(c)) = 0
    BY <1>2 DEF Before
  <2> QED  BY <1>1, <2>1, <2>2 DEF Over
<1>3. CASE verdict[c] # "no_data"
  <2>1. Before(c) = received[c] /\ Len(received[c]) \in Nat
    BY <1>1, <1>3, LenProperties DEF Before
  <2>2. Reading(c) \/ Returned(c)
    BY <1>3 DEF Column, Over
  <2> QED  BY <1>1, <2>1, <2>2 DEF Column, Successive, Reading, Returned
<1> QED  BY <1>2, <1>3

\* A call after the last part finds that there is no more.
LEMMA ReturnedIsAll ==
  ASSUME NEW c \in Cols, Column(c), value[c].kind = "string", Returned(c)
  PROVE  StillPartial(c)
<1>1. value[c].length \in Nat /\ value[c].symbol \in {1, 2}
  BY BuffersAssumption DEF Column, ColumnType, Values, Symbols
<1>2. CASE value[c].symbol = 1
  BY <1>1, <1>2 DEF StillPartial, Returned, Bytes
<1>3. CASE value[c].symbol = 2
  BY <1>1, <1>3 DEF StillPartial, Returned, Bytes
<1> QED  BY <1>1, <1>2, <1>3

\* How often the application was told of a last part, after a call that says it `last'
\* times more.
Told(c, last) ==
  IF verdict[c] = "no_data" THEN last ELSE IF lasts[c] + last > 2 THEN 2 ELSE lasts[c] + last

LEMMA ReceivedIs ==
  ASSUME NEW c, NEW part, NEW last, Received(c, part, last)
  PROVE  /\ received' = [received EXCEPT ![c] = Before(c) \o part]
         /\ lasts' = [lasts EXCEPT ![c] = Told(c, last)]
BY DEF Received, Before, Told

LEMMA NullKeeps ==
  ASSUME TextOnly, IInv, NEW c \in Cols, NEW b \in Buffers, GetNull(c)
  PROVE  IInv'
<1>1. AfterLast(c, -1) \in 0 .. SizeModulus - 1
  <2>1. column_offsets[c] \in Int /\ value[c].symbol \in Int /\ SizeModulus \in Nat \ {0}
    BY ModulusAssumption DEF IInv, TypeOK, Values, Symbols
  <2> QED  BY <2>1 DEF AfterLast, SizeT
<1>2. value[c].kind = "null" /\ received[c] = <<>> /\ verdict[c] # "no_data" /\ ColumnType(c)
  BY DEF GetNull, IInv, Column
<1>3. /\ verdict' = [verdict EXCEPT ![c] = "success"]
      /\ indicator' = [indicator EXCEPT ![c] = -1]
      /\ column_offsets' = [column_offsets EXCEPT ![c] = AfterLast(c, -1)]
      /\ value' = value
      /\ received' = [received EXCEPT ![c] = Before(c) \o <<>>]
      /\ lasts' = [lasts EXCEPT ![c] = Told(c, 0)]
  BY ReceivedIs DEF GetNull, Answer
<1>4. Before(c) \o <<>> = <<>> /\ Told(c, 0) = lasts[c]
  BY <1>2 DEF Before, Told, ColumnType
<1>5. Column(c)'
  <2>1. /\ verdict'[c] = "success" /\ indicator'[c] = -1 /\ value'[c] = value[c]
        /\ column_offsets'[c] = AfterLast(c, -1) /\ received'[c] = <<>> /\ lasts'[c] = lasts[c]
    BY <1>3, <1>4 DEF IInv, TypeOK
  <2>2. MaxLength \in Nat
    BY BuffersAssumption
  <2> QED  BY <1>1, <1>2, <2>1, <2>2 DEF Column, ColumnType, Successive
<1> QED  BY <1>3, <1>5, ColumnSuffices

\* A value that is not NULL is a string here.
LEMMA NotNullIsString ==
  ASSUME TextOnly, IInv, NEW c \in Cols, value[c].kind # "null"
  PROVE  /\ value[c].kind = "string" /\ Column(c) /\ ColumnType(c)
         /\ value[c].length \in Nat /\ value[c].length <= MaxLength
         /\ value[c].symbol \in {1, 2} /\ lasts[c] \in {0, 1} /\ MaxLength \in Nat
<1>1. value[c].kind = "string" /\ Column(c) /\ ColumnType(c)
  BY DEF IInv, Column
<1>2. value[c].length \in 0 .. MaxLength /\ value[c].symbol \in {1, 2} /\ MaxLength \in Nat
  BY <1>1, BuffersAssumption DEF ColumnType, Values, Symbols
<1>3. lasts[c] \in {0, 1}
  BY <1>1 DEF Column, Reading, Returned, Over
<1> QED  BY <1>1, <1>2, <1>3

\* Over or refused, a column of which nothing was returned is being read again.
LEMMA RefusedKeeps ==
  ASSUME TextOnly, IInv, NEW c \in Cols, NEW b \in Buffers, GetRefused(c, b)
  PROVE  IInv'
<1>1. /\ value[c].kind = "string" /\ Column(c) /\ ColumnType(c)
      /\ value[c].length \in Nat /\ value[c].length <= MaxLength
      /\ value[c].symbol \in {1, 2} /\ lasts[c] \in {0, 1} /\ MaxLength \in Nat
  BY NotNullIsString DEF GetRefused
<1>2. /\ verdict' = [verdict EXCEPT ![c] = "error"]
      /\ indicator' = [indicator EXCEPT ![c] = indicator[c]]
      /\ column_offsets' = [column_offsets EXCEPT ![c] = column_offsets[c]]
      /\ value' = value
      /\ received' = [received EXCEPT ![c] = Before(c) \o <<>>]
      /\ lasts' = [lasts EXCEPT ![c] = Told(c, 0)]
  BY ReceivedIs DEF GetRefused, IInv, TypeOK
<1>3. /\ Before(c) \in Seq(1 .. MaxLength) /\ Len(Before(c)) \in Nat
      /\ \A i \in 1 .. Len(Before(c)) : Before(c)[i] = i
      /\ Len(Before(c)) <= value[c].length
      /\ ~Returned(c) =>
           /\ column_offsets[c] = Len(Before(c)) * value[c].symbol
           /\ Before(c) # <<>> => Len(Before(c)) < value[c].length
  BY <1>1, BeforeIs
<1>4. Before(c) \o <<>> = Before(c)
  BY <1>3
<1>5. /\ verdict'[c] = "error" /\ indicator'[c] = indicator[c] /\ value'[c] = value[c]
      /\ column_offsets'[c] = column_offsets[c] /\ received'[c] = Before(c)
      /\ lasts'[c] = Told(c, 0)
  BY <1>2, <1>4 DEF IInv, TypeOK
<1>6. CASE Returned(c)
  <2>1. Before(c) = received[c] /\ Told(c, 0) = 1
    BY <1>6 DEF Returned, Before, Told
  <2>2. Returned(c)'
    BY <1>5, <1>6, <2>1 DEF Returned
  <2>3. ColumnType(c)' /\ Successive(c)'
    BY <1>1, <1>3, <1>5, <2>1 DEF ColumnType, Successive
  <2>4. Column(c)'
    BY <1>1, <1>5, <2>2, <2>3 DEF Column
  <2> QED  BY <1>2, <2>4, ColumnSuffices
<1>7. CASE ~Returned(c)
  <2>1. Told(c, 0) = 0
    BY <1>1, <1>7 DEF Column, Reading, Over, Told
  <2>2. Reading(c)'
    BY <1>3, <1>5, <1>7, <2>1 DEF Reading
  <2>3. ColumnType(c)' /\ Successive(c)'
    BY <1>1, <1>3, <1>5, <2>1 DEF ColumnType, Successive
  <2>4. Column(c)'
    BY <1>1, <1>5, <2>2, <2>3 DEF Column
  <2> QED  BY <1>2, <2>4, ColumnSuffices
<1> QED  BY <1>6, <1>7

\* Only a column whose last part was returned says that there is no more.
LEMMA NoDataKeeps ==
  ASSUME TextOnly, IInv, NEW c \in Cols, NEW b \in Buffers, GetNoData(c, b)
  PROVE  IInv'
<1>1. /\ value[c].kind = "string" /\ Column(c) /\ ColumnType(c)
      /\ value[c].length \in Nat /\ value[c].length <= MaxLength
      /\ value[c].symbol \in {1, 2} /\ lasts[c] \in {0, 1} /\ MaxLength \in Nat
  BY NotNullIsString DEF GetNoData
<1>2. /\ Before(c) \in Seq(1 .. MaxLength) /\ Len(Before(c)) \in Nat
      /\ \A i \in 1 .. Len(Before(c)) : Before(c)[i] = i
      /\ Len(Before(c)) <= value[c].length
      /\ ~Returned(c) =>
           /\ column_offsets[c] = Len(Before(c)) * value[c].symbol
           /\ Before(c) # <<>> => Len(Before(c)) < value[c].length
  BY <1>1, BeforeIs
<1>3. Returned(c)
  <2>1. SUFFICES ASSUME ~Returned(c) PROVE FALSE
    OBVIOUS
  <2>2. Len(Before(c)) > 0 /\ Len(Before(c)) = value[c].length
    BY <1>1, <1>2, <2>1, CallFinds DEF GetNoData
  <2>3. Before(c) # <<>>
    BY <2>2
  <2> QED  BY <1>2, <2>1, <2>2, <2>3
<1>4. Before(c) = received[c] /\ Before(c) \o <<>> = received[c] /\ Told(c, 0) = 1
  BY <1>1, <1>2, <1>3 DEF Returned, Before, Told
<1>5. /\ verdict' = [verdict EXCEPT ![c] = "no_data"]
      /\ indicator' = [indicator EXCEPT ![c] = 0]
      /\ column_offsets' = [column_offsets EXCEPT ![c] = 0]
      /\ value' = value
      /\ received' = [received EXCEPT ![c] = Before(c) \o <<>>]
      /\ lasts' = [lasts EXCEPT ![c] = Told(c, 0)]
  BY ReceivedIs DEF GetNoData, Answer
<1>6. /\ verdict'[c] = "no_data" /\ indicator'[c] = 0 /\ value'[c] = value[c]
      /\ column_offsets'[c] = 0 /\ received'[c] = received[c] /\ lasts'[c] = 1
  BY <1>4, <1>5 DEF IInv, TypeOK
<1>7. Over(c)'
  BY <1>3, <1>6 DEF Over, Returned
<1>8. ColumnType(c)' /\ Successive(c)'
  BY <1>1, <1>2, <1>4, <1>6, ModulusAssumption DEF ColumnType, Successive
<1>9. Column(c)'
  BY <1>1, <1>6, <1>7, <1>8 DEF Column
<1> QED  BY <1>5, <1>9, ColumnSuffices

\* A part that fills its buffer leaves something of the value.
LEMMA PartKeeps ==
  ASSUME TextOnly, IInv, NEW c \in Cols, NEW b \in Buffers, GetPart(c, b)
  PROVE  IInv'
<1>1. /\ value[c].kind = "string" /\ Column(c) /\ ColumnType(c)
      /\ value[c].length \in Nat /\ value[c].length <= MaxLength
      /\ value[c].symbol \in {1, 2} /\ lasts[c] \in {0, 1} /\ MaxLength \in Nat
  BY NotNullIsString DEF GetPart
<1>2. /\ Before(c) \in Seq(1 .. MaxLength) /\ Len(Before(c)) \in Nat
      /\ \A i \in 1 .. Len(Before(c)) : Before(c)[i] = i
      /\ Len(Before(c)) <= value[c].length
      /\ ~Returned(c) =>
           /\ column_offsets[c] = Len(Before(c)) * value[c].symbol
           /\ Before(c) # <<>> => Len(Before(c)) < value[c].length
  BY <1>1, BeforeIs
<1>3. ~Returned(c)
  BY <1>1, ReturnedIsAll DEF GetPart
<1>4. /\ StartOf(c) \div value[c].symbol = Len(Before(c))
      /\ Remaining(c) \in 0 .. 2 * MaxLength
      /\ Copied(c, b) \in Nat /\ Len(Before(c)) + Copied(c, b) < value[c].length
      /\ AfterPart(c, b) = (Len(Before(c)) + Copied(c, b)) * value[c].symbol
  BY <1>1, <1>2, <1>3, CallFinds DEF GetPart
<1>5. Part(c, b) = [i \in 1 .. Copied(c, b) |-> Len(Before(c)) + i]
  BY <1>4 DEF Part
<1> DEFINE r == Before(c) \o Part(c, b)
<1>6. /\ r \in Seq(1 .. MaxLength)
      /\ Len(r) = Len(Before(c)) + Copied(c, b)
      /\ \A i \in 1 .. Len(r) : r[i] = i
  <2>1. Len(Before(c)) + Copied(c, b) <= MaxLength
    BY <1>1, <1>2, <1>4
  <2> QED  BY <1>1, <1>2, <1>4, <1>5, <2>1, PartContinues
<1>7. Told(c, 0) = 0
  BY <1>1, <1>3 DEF Column, Reading, Over, Told
<1>8. /\ verdict' = [verdict EXCEPT ![c] = "with_info"]
      /\ indicator' = [indicator EXCEPT ![c] = Remaining(c)]
      /\ column_offsets' = [column_offsets EXCEPT ![c] = AfterPart(c, b)]
      /\ value' = value
      /\ received' = [received EXCEPT ![c] = r]
      /\ lasts' = [lasts EXCEPT ![c] = Told(c, 0)]
  BY ReceivedIs DEF GetPart, Answer
<1>9. /\ verdict'[c] = "with_info" /\ indicator'[c] = Remaining(c) /\ value'[c] = value[c]
      /\ column_offsets'[c] = AfterPart(c, b) /\ received'[c] = r /\ lasts'[c] = 0
  BY <1>7, <1>8 DEF IInv, TypeOK
<1> HIDE DEF r
<1>10. Reading(c)'
  <2>1. column_offsets'[c] = Len(r) * value[c].symbol
    BY <1>4, <1>6, <1>9
  <2>2. Len(r) < value[c].length
    BY <1>4, <1>6
  <2> QED  BY <1>1, <1>9, <2>1, <2>2, <1>6 DEF Reading
<1>11. AfterPart(c, b) \in 0 .. SizeModulus - 1
  <2>1. column_offsets[c] \in Int /\ b \in Int
    BY ModulusAssumption, BuffersAssumption DEF IInv, TypeOK
  <2>2. column_offsets[c] + b - value[c].symbol \in Int
    BY <1>1, <2>1
  <2> QED  BY <2>2, SizeTIs DEF AfterPart
<1>12. ColumnType(c)' /\ Successive(c)'
  <2>1. value'[c] \in Values /\ column_offsets'[c] \in 0 .. SizeModulus - 1
    BY <1>1, <1>9, <1>11 DEF ColumnType
  <2>2. /\ indicator'[c] \in -1 .. 2 * MaxLength
        /\ verdict'[c] \in {"none", "success", "with_info", "no_data", "error"}
    BY <1>1, <1>4, <1>9
  <2>3. received'[c] \in Seq(1 .. MaxLength) /\ lasts'[c] \in 0 .. 2
    BY <1>6, <1>9
  <2>4. Successive(c)'
    BY <1>6, <1>9 DEF Successive
  <2> QED  BY <2>1, <2>2, <2>3, <2>4 DEF ColumnType
<1>13. Column(c)'
  BY <1>1, <1>9, <1>10, <1>12 DEF Column
<1> QED  BY <1>8, <1>13, ColumnSuffices

\* A part that is shorter than its buffer is the rest of the value.
LEMMA LastKeeps ==
  ASSUME TextOnly, IInv, NEW c \in Cols, NEW b \in Buffers, GetLast(c, b)
  PROVE  IInv'
<1>1. /\ value[c].kind = "string" /\ Column(c) /\ ColumnType(c)
      /\ value[c].length \in Nat /\ value[c].length <= MaxLength
      /\ value[c].symbol \in {1, 2} /\ lasts[c] \in {0, 1} /\ MaxLength \in Nat
  BY NotNullIsString DEF GetLast
<1>2. /\ Before(c) \in Seq(1 .. MaxLength) /\ Len(Before(c)) \in Nat
      /\ \A i \in 1 .. Len(Before(c)) : Before(c)[i] = i
      /\ Len(Before(c)) <= value[c].length
      /\ ~Returned(c) =>
           /\ column_offsets[c] = Len(Before(c)) * value[c].symbol
           /\ Before(c) # <<>> => Len(Before(c)) < value[c].length
  BY <1>1, BeforeIs
<1>3. ~Returned(c)
  BY <1>1, ReturnedIsAll DEF GetLast
<1>4. /\ StartOf(c) \div value[c].symbol = Len(Before(c))
      /\ Remaining(c) \in 0 .. 2 * MaxLength
      /\ Copied(c, b) = value[c].length - Len(Before(c))
      /\ AfterLast(c, Remaining(c)) = (value[c].length + 1) * value[c].symbol
  BY <1>1, <1>2, <1>3, CallFinds DEF GetLast
<1>5. Part(c, b) = [i \in 1 .. Copied(c, b) |-> Len(Before(c)) + i] /\ Copied(c, b) \in Nat
  BY <1>1, <1>2, <1>4 DEF Part
<1> DEFINE r == Before(c) \o Part(c, b)
<1>6. /\ r \in Seq(1 .. MaxLength)
      /\ Len(r) = Len(Before(c)) + Copied(c, b)
      /\ \A i \in 1 .. Len(r) : r[i] = i
  <2>1. Len(Before(c)) + Copied(c, b) <= MaxLength
    BY <1>1, <1>2, <1>4
  <2> QED  BY <1>1, <1>2, <1>5, <2>1, PartContinues
<1>7. Told(c, 1) = 1
  BY <1>1, <1>3 DEF Column, Reading, Over, Told
<1>8. /\ verdict' = [verdict EXCEPT ![c] = "success"]
      /\ indicator' = [indicator EXCEPT ![c] = Remaining(c)]
      /\ column_offsets' = [column_offsets EXCEPT ![c] = AfterLast(c, Remaining(c))]
      /\ value' = value
      /\ received' = [received EXCEPT ![c] = r]
      /\ lasts' = [lasts EXCEPT ![c] = Told(c, 1)]
  BY ReceivedIs DEF GetLast, Answer
<1>9. /\ verdict'[c] = "success" /\ indicator'[c] = Remaining(c) /\ value'[c] = value[c]
      /\ column_offsets'[c] = AfterLast(c, Remaining(c)) /\ received'[c] = r /\ lasts'[c] = 1
  BY <1>7, <1>8 DEF IInv, TypeOK
<1> HIDE DEF r
<1>10. Returned(c)'
  <2>1. Len(r) = value[c].length
    BY <1>1, <1>2, <1>4, <1>6
  <2> QED  BY <1>4, <1>9, <2>1 DEF Returned
<1>11. AfterLast(c, Remaining(c)) \in 0 .. SizeModulus - 1
  <2>1. Remaining(c) \in Int /\ column_offsets[c] \in Int /\ value[c].symbol \in Int
    BY <1>1, <1>4, ModulusAssumption DEF IInv, TypeOK
  <2>2. column_offsets[c] + Remaining(c) + value[c].symbol \in Int
    BY <2>1
  <2> QED  BY <2>2, SizeTIs DEF AfterLast
<1>12. ColumnType(c)' /\ Successive(c)'
  <2>1. value'[c] \in Values /\ column_offsets'[c] \in 0 .. SizeModulus - 1
    BY <1>1, <1>9, <1>11 DEF ColumnType
  <2>2. /\ indicator'[c] \in -1 .. 2 * MaxLength
        /\ verdict'[c] \in {"none", "success", "with_info", "no_data", "error"}
    BY <1>1, <1>4, <1>9
  <2>3. received'[c] \in Seq(1 .. MaxLength) /\ lasts'[c] \in 0 .. 2
    BY <1>6, <1>9
  <2>4. Successive(c)'
    BY <1>6, <1>9 DEF Successive
  <2> QED  BY <2>1, <2>2, <2>3, <2>4 DEF ColumnType
<1>13. Column(c)'
  BY <1>1, <1>9, <1>10, <1>12 DEF Column
<1> QED  BY <1>8, <1>13, ColumnSuffices

\* A new row, or a new binding, begins every column afresh.
LEMMA AfreshKeeps ==
  ASSUME value' \in [Cols -> Values], TextOnly, Restart
  PROVE  IInv'
<1>1. MaxLength \in Nat /\ SizeModulus \in Nat \ {0}
  BY BuffersAssumption, ModulusAssumption
<1>2. SUFFICES ASSUME NEW c \in Cols PROVE Column(c)'
  <2>1. TypeOK'
    BY <1>1 DEF TypeOK, Restart, ResetColumnOffsets, NoOffsets, NoParts, NotCalled
  <2> QED  BY <2>1 DEF IInv
<1>3. /\ verdict'[c] = "none" /\ indicator'[c] = 0 /\ value'[c] \in Values
      /\ column_offsets'[c] = 0 /\ received'[c] = <<>> /\ lasts'[c] = 0
  BY DEF Restart, ResetColumnOffsets, NoOffsets, NoParts, NotCalled
<1>4. /\ value'[c].length \in Nat /\ value'[c].symbol \in {1, 2}
      /\ value'[c].kind \in {"string", "null"}
  BY <1>3, ValueIs
<1>5. ColumnType(c)' /\ Successive(c)'
  BY <1>1, <1>3 DEF ColumnType, Successive
<1>6. Reading(c)'
  BY <1>3, <1>4 DEF Reading
<1> QED  BY <1>3, <1>4, <1>5, <1>6 DEF Column

-----------------------------------------------------------------------------
(***************************************************************************)
(* The invariant and the properties                                        *)
(***************************************************************************)
LEMMA Beginning ==
  ASSUME TextOnly, Init
  PROVE  IInv
<1>1. MaxLength \in Nat /\ SizeModulus \in Nat \ {0}
  BY BuffersAssumption, ModulusAssumption
<1>2. SUFFICES ASSUME NEW c \in Cols PROVE Column(c)
  <2>1. TypeOK
    BY <1>1 DEF TypeOK, Init, NoOffsets, NoParts, NotCalled
  <2> QED  BY <2>1 DEF IInv
<1>3. /\ verdict[c] = "none" /\ indicator[c] = 0 /\ value[c] \in Values
      /\ column_offsets[c] = 0 /\ received[c] = <<>> /\ lasts[c] = 0
  BY DEF Init, NoOffsets, NoParts, NotCalled
<1>4. /\ value[c].length \in Nat /\ value[c].symbol \in {1, 2}
      /\ value[c].kind \in {"string", "null"}
  BY <1>3, ValueIs
<1>5. ColumnType(c) /\ Successive(c)
  BY <1>1, <1>3 DEF ColumnType, Successive
<1>6. Reading(c)
  BY <1>3, <1>4 DEF Reading
<1> QED  BY <1>3, <1>4, <1>5, <1>6 DEF Column

LEMMA StepKeeps ==
  ASSUME TextOnly, IInv, [Next]_vars
  PROVE  IInv'
<1>1. CASE Fetch
  BY <1>1, AfreshKeeps DEF Fetch
<1>2. CASE BindCol
  BY <1>2, AfreshKeeps DEF BindCol, IInv, TypeOK
<1>3. CASE GetSome
  <2>1. PICK c \in Cols, b \in Buffers : Get(c, b)
    BY <1>3 DEF GetSome
  <2> QED  BY <2>1, NullKeeps, RefusedKeeps, NoDataKeeps, PartKeeps, LastKeeps DEF Get
<1>4. CASE UNCHANGED vars
  BY <1>4 DEF vars, IInv, TypeOK, Column, ColumnType, Successive, Reading, Returned, Over
<1> QED  BY <1>1, <1>2, <1>3, <1>4 DEF Next

\* What the invariant says of the properties the runs check.
LEMMA InvariantTells ==
  ASSUME IInv
  PROVE  TypeOK /\ PartsAreSuccessive /\ EndMeansAll /\ LastIsOnce
<1>1. TypeOK
  BY DEF IInv
<1>2. PartsAreSuccessive
  BY DEF IInv, TypeOK, Column, Successive, PartsAreSuccessive
<1>3. EndMeansAll
  BY DEF IInv, Column, Reading, Returned, Over, EndMeansAll
<1>4. LastIsOnce
  BY DEF IInv, Column, Reading, Returned, Over, LastIsOnce
<1> QED  BY <1>1, <1>2, <1>3, <1>4

\* Type correctness, for text and buffers that hold at least a byte: in particular the
\* application is never given a symbol beyond the end of a value.
THEOREM GetDataTypeCorrect == TextOnly => (Spec => []TypeOK)
<1> SUFFICES ASSUME TextOnly PROVE Spec => []TypeOK
  OBVIOUS
<1>1. Init => IInv
  BY Beginning
<1>2. IInv /\ [Next]_vars => IInv'
  BY StepKeeps
<1>3. IInv => TypeOK
  BY InvariantTells
<1> QED  BY <1>1, <1>2, <1>3, PTL DEF Spec

\* Each call of SQLGetData returns the part of the value after the one before it, for
\* every number of columns read alternately and every sequence of buffer sizes.
THEOREM PartsFollowEachOther == TextOnly => (Spec => []PartsAreSuccessive)
<1> SUFFICES ASSUME TextOnly PROVE Spec => []PartsAreSuccessive
  OBVIOUS
<1>1. Init => IInv
  BY Beginning
<1>2. IInv /\ [Next]_vars => IInv'
  BY StepKeeps
<1>3. IInv => PartsAreSuccessive
  BY InvariantTells
<1> QED  BY <1>1, <1>2, <1>3, PTL DEF Spec

\* SQL_SUCCESS and SQL_NO_DATA come only once every symbol of the value was returned.
THEOREM EndIsAll == TextOnly => (Spec => []EndMeansAll)
<1> SUFFICES ASSUME TextOnly PROVE Spec => []EndMeansAll
  OBVIOUS
<1>1. Init => IInv
  BY Beginning
<1>2. IInv /\ [Next]_vars => IInv'
  BY StepKeeps
<1>3. IInv => EndMeansAll
  BY InvariantTells
<1> QED  BY <1>1, <1>2, <1>3, PTL DEF Spec

\* The last part of a string, be it empty, is returned once before SQL_NO_DATA.
THEOREM LastPartIsOnce == TextOnly => (Spec => []LastIsOnce)
<1> SUFFICES ASSUME TextOnly PROVE Spec => []LastIsOnce
  OBVIOUS
<1>1. Init => IInv
  BY Beginning
<1>2. IInv /\ [Next]_vars => IInv'
  BY StepKeeps
<1>3. IInv => LastIsOnce
  BY InvariantTells
<1> QED  BY <1>1, <1>2, <1>3, PTL DEF Spec
=============================================================================
