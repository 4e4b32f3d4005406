------------------------ MODULE ConfigurationProofs ------------------------
(***************************************************************************)
(* Theorems about Configuration, for every connection string, data source, *)
(* URL and name; and the lemmas they rest on about ConnectionString, which *)
(* say that what SQLConnect writes readConnectionString() reads back, for  *)
(* every text: it finds exactly the entries, each with what was given.     *)
(*                                                                         *)
(* The functions of ConnectionString are recursive.  That each of them has *)
(* a value at all is shown by Recursion, from the least-element property   *)
(* of the numbers; from then on they are used by their recursive equations.*)
(***************************************************************************)
EXTENDS Configuration, FiniteSetTheorems, SequenceTheorems, WellFoundedInduction, TLAPS

-----------------------------------------------------------------------------
(***************************************************************************)
(* Induction and recursion                                                 *)
(***************************************************************************)

\* Every set of numbers has a least one: of the intervals below them one is contained in
\* all others.
LEMMA LeastOf ==
  ASSUME NEW T, T \subseteq Nat, T # {}
  PROVE  \E n \in T : \A m \in T : n <= m
<1> DEFINE Below == {0 .. n : n \in T}
<1>1. Below \subseteq FiniteSubsetsOf(Nat) /\ Below # {}
  <2>1. ASSUME NEW n \in T
        PROVE  0 .. n \in FiniteSubsetsOf(Nat)
    <3>1. n \in Nat /\ 0 .. n \subseteq Nat
      OBVIOUS
    <3>2. IsFiniteSet(0 .. n)
      BY <3>1, FS_Interval
    <3> QED  BY <3>1, <3>2 DEF FiniteSubsetsOf
  <2> QED  BY <2>1
<1>2. PICK b \in Below : \A c \in Below : <<c, b>> \notin StrictSubsetOrdering(Nat)
  <2> HIDE DEF Below
  <2> QED  BY <1>1, WFMin, FS_StrictSubsetOrderingWellFounded
<1>3. PICK n \in T : b = 0 .. n
  OBVIOUS
<1>4. ASSUME NEW m \in T, m < n
      PROVE  FALSE
  <2>1. 0 .. m \in SUBSET Nat /\ 0 .. n \in SUBSET Nat /\ 0 .. m \subseteq 0 .. n
    BY <1>4
  <2>2. n \in 0 .. n /\ n \notin 0 .. m
    BY <1>4
  <2>3. <<0 .. m, 0 .. n>> \in StrictSubsetOrdering(Nat)
    BY <2>1, <2>2 DEF StrictSubsetOrdering
  <2> QED  BY <1>2, <1>3, <2>3
<1> QED  BY <1>4

\* Induction over the numbers, for a set of them.
LEMMA Induction ==
  ASSUME NEW T, 0 \in T, \A n \in Nat : n \in T => n + 1 \in T
  PROVE  Nat \subseteq T
<1> DEFINE Rest == {n \in Nat : n \notin T}
<1>1. SUFFICES ASSUME Rest # {} PROVE FALSE
  OBVIOUS
<1>2. PICK n \in Rest : \A m \in Rest : n <= m
  <2>1. Rest \subseteq Nat
    OBVIOUS
  <2> HIDE DEF Rest
  <2> QED  BY <1>1, <2>1, LeastOf
<1>3. n # 0 /\ n - 1 \in Nat
  BY <1>2
<1>4. n - 1 \in T
  BY <1>2, <1>3
<1> QED  BY <1>2, <1>3, <1>4

\* A function is defined by recursion where each value depends only on values of less
\* measure.
DependsBelow(D, S, m, step) ==
  \A i \in D : \A f, g \in [D -> S] :
    (\A j \in D : m[j] < m[i] => f[j] = g[j]) => step[i][f] = step[i][g]

IsRecursion(D, S, K, m, step) ==
  /\ S # {} /\ K \in Nat /\ m \in [D -> 0 .. K] /\ step \in [D -> [[D -> S] -> S]]
  /\ DependsBelow(D, S, m, step)

LEMMA Recursion ==
  ASSUME NEW D, NEW S, NEW K, NEW m, NEW step, IsRecursion(D, S, K, m, step)
  PROVE  \E f \in [D -> S] : \A i \in D : f[i] = step[i][f]
<1> USE DEF IsRecursion
<1> DEFINE Right(f, k) == \A i \in D : m[i] < k => f[i] = step[i][f]
           T == {k \in Nat : \E f \in [D -> S] : Right(f, k)}
<1>1. 0 \in T
  <2>1. PICK s \in S : TRUE
    OBVIOUS
  <2>2. [i \in D |-> s] \in [D -> S]
    OBVIOUS
  <2>3. \A i \in D : ~(m[i] < 0)
    OBVIOUS
  <2> QED  BY <2>2, <2>3
<1>2. ASSUME NEW k \in Nat, k \in T
      PROVE  k + 1 \in T
  <2>1. PICK f \in [D -> S] : Right(f, k)
    BY <1>2
  <2> DEFINE g == [i \in D |-> IF m[i] = k THEN step[i][f] ELSE f[i]]
  <2>2. g \in [D -> S]
    OBVIOUS
  <2>3. ASSUME NEW i \in D, m[i] < k + 1
        PROVE  g[i] = step[i][g]
    <3>1. step[i][f] = step[i][g]
      <4>1. \A j \in D : m[j] < m[i] => f[j] = g[j]
        BY <2>3
      <4> HIDE DEF g
      <4> QED  BY <2>2, <4>1 DEF DependsBelow
    <3>2. m[i] = k \/ m[i] < k
      <4>1. PICK n \in Nat : n = m[i]
        OBVIOUS
      <4>2. n < k + 1
        BY <2>3, <4>1
      <4>3. n = k \/ n < k
        BY <4>2
      <4> QED  BY <4>1, <4>3
    <3>3. g[i] = step[i][f]
      BY <2>1, <3>2
    <3> QED  BY <3>1, <3>3
  <2> HIDE DEF g
  <2> QED  BY <2>2, <2>3
<1>3. K + 1 \in T
  <2> HIDE DEF T
  <2> QED  BY <1>1, <1>2, Induction
<1> QED  BY <1>3

-----------------------------------------------------------------------------
(***************************************************************************)
(* Reading a text                                                          *)
(***************************************************************************)

\* What ReadTo computes at each position, from what it computes behind it.
ReadStep(s, f, j, stops, doubled) ==
  IF j > Len(s) \/ (s[j] \in stops /\ ~IsDoubled(s, j, doubled))
    THEN [text |-> Empty, at |-> j]
    ELSE LET rest == f[IF IsDoubled(s, j, doubled) THEN j + 2 ELSE j + 1]
         IN  [rest EXCEPT !.text = <<s[j]>> \o @]

Reads(A, s, i) == [text : Seq(A), at : i .. Len(s) + 1]

TypedBehind(A, s, f, j) ==
  \A i \in j + 1 .. Len(s) + 1 : f[i] \in [text : Seq(A), at : Nat]
AheadBehind(s, f, j) ==
  \A i \in j + 1 .. Len(s) + 1 : f[i].at \in i .. Len(s) + 1

LEMMA ReadStepTypes ==
  ASSUME NEW A, NEW s \in Seq(A), NEW stops, NEW doubled, NEW j \in 1 .. Len(s) + 1, NEW f,
         TypedBehind(A, s, f, j)
  PROVE  /\ ReadStep(s, f, j, stops, doubled) \in [text : Seq(A), at : Nat]
         /\ AheadBehind(s, f, j) => ReadStep(s, f, j, stops, doubled).at \in j .. Len(s) + 1
<1> DEFINE stop == j > Len(s) \/ (s[j] \in stops /\ ~IsDoubled(s, j, doubled))
           n == IF IsDoubled(s, j, doubled) THEN j + 2 ELSE j + 1
<1>0. Len(s) \in Nat /\ j \in Nat
  OBVIOUS
<1>1. CASE stop
  <2>1. ReadStep(s, f, j, stops, doubled) = [text |-> <<>>, at |-> j]
    BY <1>1 DEF ReadStep, Empty
  <2>2. <<>> \in Seq(A) /\ j \in j .. Len(s) + 1
    BY <1>0
  <2> QED  BY <1>0, <2>1, <2>2
<1>2. CASE ~stop
  <2>1. n \in j + 1 .. Len(s) + 1 /\ s[j] \in A
    BY <1>0, <1>2 DEF IsDoubled
  <2>2. ReadStep(s, f, j, stops, doubled) = [f[n] EXCEPT !.text = <<s[j]>> \o @]
    BY <1>2 DEF ReadStep
  <2> HIDE DEF n
  <2>3. PICK t \in Seq(A), a \in Nat : f[n] = [text |-> t, at |-> a]
    BY <2>1 DEF TypedBehind
  <2>4. ReadStep(s, f, j, stops, doubled) = [text |-> <<s[j]>> \o t, at |-> a]
    <3>1. \A x : [[text |-> t, at |-> a] EXCEPT !.text = x] = [text |-> x, at |-> a]
      OBVIOUS
    <3>2. f[n].text = t
      BY <2>3
    <3> QED  BY <2>2, <2>3, <3>1, <3>2, Zenon
  <2>5. <<s[j]>> \o t \in Seq(A)
    BY <2>1, <2>3
  <2>6. AheadBehind(s, f, j) => a \in j .. Len(s) + 1
    BY <1>0, <2>1, <2>3 DEF AheadBehind
  <2> QED  BY <2>3, <2>4, <2>5, <2>6
<1> QED  BY <1>1, <1>2

LEMMA ReadToIsRecursive ==
  ASSUME NEW A, NEW s \in Seq(A), NEW stops, NEW doubled
  PROVE  \E f : /\ \A i : ReadTo(s, i, stops, doubled) = f[i]
                /\ f = [j \in 1 .. Len(s) + 1 |-> ReadStep(s, f, j, stops, doubled)]
<1> DEFINE D == 1 .. Len(s) + 1
           S == [text : Seq(A), at : Nat]
           m == [j \in D |-> Len(s) + 1 - j]
           step == [j \in D |-> [f \in [D -> S] |-> ReadStep(s, f, j, stops, doubled)]]
<1>1. Len(s) \in Nat /\ S # {} /\ m \in [D -> 0 .. Len(s) + 1]
  <2>1. [text |-> <<>>, at |-> 0] \in S
    OBVIOUS
  <2>2. Len(s) \in Nat
    OBVIOUS
  <2>3. m \in [D -> 0 .. Len(s) + 1]
    BY <2>2
  <2> HIDE DEF S, m, D
  <2> QED  BY <2>1, <2>2, <2>3
<1>2. ASSUME NEW j \in D, NEW f \in [D -> S]
      PROVE  ReadStep(s, f, j, stops, doubled) \in S
  <2>1. TypedBehind(A, s, f, j)
    BY <1>1 DEF TypedBehind
  <2> QED  BY <2>1, ReadStepTypes
<1>3. ASSUME NEW j \in D, NEW f \in [D -> S], NEW g \in [D -> S],
             \A i \in D : m[i] < m[j] => f[i] = g[i]
      PROVE  step[j][f] = step[j][g]
  <2>1. \A i \in D : i > j => f[i] = g[i]
    BY <1>1, <1>3
  <2>2. ReadStep(s, f, j, stops, doubled) = ReadStep(s, g, j, stops, doubled)
    <3> DEFINE n == IF IsDoubled(s, j, doubled) THEN j + 2 ELSE j + 1
    <3>1. CASE j > Len(s) \/ (s[j] \in stops /\ ~IsDoubled(s, j, doubled))
      BY <3>1 DEF ReadStep
    <3>2. CASE ~(j > Len(s) \/ (s[j] \in stops /\ ~IsDoubled(s, j, doubled)))
      <4>1. n \in D /\ n > j
        BY <1>1, <3>2 DEF IsDoubled
      <4>2. f[n] = g[n]
        BY <2>1, <4>1
      <4> QED  BY <3>2, <4>2, Zenon DEF ReadStep
    <3> QED  BY <3>1, <3>2
  <2> QED  BY <2>2
<1>4. PICK f \in [D -> S] : \A j \in D : f[j] = step[j][f]
  <2> HIDE DEF S, D, m
  <2>1. step \in [D -> [[D -> S] -> S]]
    BY <1>2
  <2>2. PICK K \in Nat : K = Len(s) + 1
    BY <1>1
  <2> HIDE DEF step
  <2>3. DependsBelow(D, S, m, step)
    BY <1>3 DEF DependsBelow
  <2>4. S # {} /\ m \in [D -> 0 .. K]
    BY <1>1, <2>2
  <2>5. IsRecursion(D, S, K, m, step)
    BY <2>1, <2>2, <2>3, <2>4 DEF IsRecursion
  <2> QED  BY <2>5, Recursion
<1>5. f = [j \in D |-> ReadStep(s, f, j, stops, doubled)]
  <2> HIDE DEF S, D, m
  <2>1. \A j \in D : f[j] = ReadStep(s, f, j, stops, doubled)
    BY <1>4
  <2>2. f = [j \in D |-> f[j]]
    BY <1>4
  <2> QED  BY <2>1, <2>2
<1>6. PICK r : /\ r = [j \in D |-> ReadStep(s, r, j, stops, doubled)]
               /\ \A i : ReadTo(s, i, stops, doubled) = r[i]
  <2> DEFINE r == CHOOSE r : r = [j \in D |-> ReadStep(s, r, j, stops, doubled)]
  <2>1. r = [j \in D |-> ReadStep(s, r, j, stops, doubled)]
    <3> HIDE DEF D
    <3> QED  BY <1>5
  <2>2. \A i : ReadTo(s, i, stops, doubled) = r[i]
    BY DEF ReadTo, ReadStep
  <2> QED  BY <2>1, <2>2
<1> QED  BY <1>6

LEMMA ReadToTypes ==
  ASSUME NEW A, NEW s \in Seq(A), NEW stops, NEW doubled, NEW i \in 1 .. Len(s) + 1
  PROVE  ReadTo(s, i, stops, doubled) \in Reads(A, s, i)
<1>1. PICK f : /\ \A j : ReadTo(s, j, stops, doubled) = f[j]
               /\ f = [j \in 1 .. Len(s) + 1 |-> ReadStep(s, f, j, stops, doubled)]
  BY ReadToIsRecursive
<1>2. PICK L \in Nat : L = Len(s)
  OBVIOUS
<1> DEFINE T == {k \in Nat : \A j \in 1 .. L + 1 : L + 1 - j < k => f[j] \in Reads(A, s, j)}
<1>3. 0 \in T
  <2>1. \A j \in 1 .. L + 1 : ~(L + 1 - j < 0)
    BY <1>2
  <2> QED  BY <2>1
<1>4. ASSUME NEW k \in Nat, k \in T
      PROVE  k + 1 \in T
  <2>1. SUFFICES ASSUME NEW j \in 1 .. L + 1, L + 1 - j < k + 1 PROVE f[j] \in Reads(A, s, j)
    OBVIOUS
  <2>2. \A n \in j + 1 .. L + 1 : f[n] \in Reads(A, s, n)
    BY <1>4, <2>1
  <2>3. TypedBehind(A, s, f, j) /\ AheadBehind(s, f, j)
    BY <1>2, <2>2 DEF Reads, TypedBehind, AheadBehind
  <2>4. f[j] = ReadStep(s, f, j, stops, doubled)
    BY <1>1, <1>2
  <2>5. /\ f[j] \in [text : Seq(A), at : Nat]
        /\ f[j].at \in j .. Len(s) + 1
    BY <1>2, <2>3, <2>4, ReadStepTypes
  <2> QED  BY <2>5 DEF Reads
<1>5. L + 1 \in T
  <2> HIDE DEF T
  <2> QED  BY <1>3, <1>4, Induction
<1>6. L + 1 - i < L + 1
  BY <1>2
<1> QED  BY <1>1, <1>2, <1>5, <1>6

\* Where the text ends, and where it goes on.
Stops(s, i, stops, doubled) ==
  i \in 1 .. Len(s) + 1 /\ (i > Len(s) \/ (s[i] \in stops /\ ~IsDoubled(s, i, doubled)))
GoesOn(s, i, n, stops, doubled) ==
  /\ i \in 1 .. Len(s) /\ (s[i] \notin stops \/ IsDoubled(s, i, doubled))
  /\ n = IF IsDoubled(s, i, doubled) THEN i + 2 ELSE i + 1

EndsAt(s, i, stops, doubled) == ReadTo(s, i, stops, doubled) = [text |-> <<>>, at |-> i]
Continues(s, i, n, stops, doubled) ==
  ReadTo(s, i, stops, doubled) = [text |-> <<s[i]>> \o ReadTo(s, n, stops, doubled).text,
                                  at |-> ReadTo(s, n, stops, doubled).at]

LEMMA ReadToStops ==
  ASSUME NEW A, NEW s \in Seq(A), NEW stops, NEW doubled, NEW i, Stops(s, i, stops, doubled)
  PROVE  EndsAt(s, i, stops, doubled)
<1> USE DEF EndsAt
<1>1. PICK f : /\ \A j : ReadTo(s, j, stops, doubled) = f[j]
               /\ f = [j \in 1 .. Len(s) + 1 |-> ReadStep(s, f, j, stops, doubled)]
  BY ReadToIsRecursive
<1>2. f[i] = ReadStep(s, f, i, stops, doubled)
  BY <1>1 DEF Stops
<1> QED  BY <1>1, <1>2 DEF ReadStep, Empty, Stops

LEMMA ReadToGoesOn ==
  ASSUME NEW A, NEW s \in Seq(A), NEW stops, NEW doubled, NEW i, NEW n,
         GoesOn(s, i, n, stops, doubled)
  PROVE  n \in i + 1 .. Len(s) + 1 /\ Continues(s, i, n, stops, doubled)
<1> USE DEF GoesOn, Continues
<1>0. Len(s) \in Nat /\ i \in 1 .. Len(s) + 1
  OBVIOUS
<1>1. PICK f : /\ \A j : ReadTo(s, j, stops, doubled) = f[j]
               /\ f = [j \in 1 .. Len(s) + 1 |-> ReadStep(s, f, j, stops, doubled)]
  BY ReadToIsRecursive
<1>2. f[i] = [f[n] EXCEPT !.text = <<s[i]>> \o @]
  <2>1. f[i] = ReadStep(s, f, i, stops, doubled)
    BY <1>0, <1>1
  <2>2. ~(i > Len(s))
    BY <1>0
  <2> QED  BY <2>1, <2>2, Zenon DEF ReadStep
<1>3. n \in i + 1 .. Len(s) + 1
  BY <1>0 DEF IsDoubled
<1>4. PICK t \in Seq(A), a \in Nat : f[n] = [text |-> t, at |-> a]
  <2>1. n \in 1 .. Len(s) + 1
    BY <1>0, <1>3
  <2>2. ReadTo(s, n, stops, doubled) \in Reads(A, s, n)
    BY <2>1, ReadToTypes
  <2>3. f[n] \in [text : Seq(A), at : n .. Len(s) + 1]
    BY <1>1, <2>2 DEF Reads
  <2> QED  BY <1>0, <2>1, <2>3
<1>5. f[i] = [text |-> <<s[i]>> \o t, at |-> a]
  <2>1. \A x : [[text |-> t, at |-> a] EXCEPT !.text = x] = [text |-> x, at |-> a]
    OBVIOUS
  <2>2. f[n].text = t
    BY <1>4
  <2> QED  BY <1>2, <1>4, <2>1, <2>2, Zenon
<1>6. ReadTo(s, i, stops, doubled) = f[i] /\ ReadTo(s, n, stops, doubled) = f[n]
  BY <1>1
<1>7. f[n].text = t /\ f[n].at = a
  BY <1>4
<1> QED  BY <1>3, <1>5, <1>6, <1>7, Zenon

-----------------------------------------------------------------------------
(***************************************************************************)
(* Writing a value and reading it back                                     *)
(***************************************************************************)

\* What a symbol is written as.
Piece(x) == IF x = Closing THEN <<Closing, Closing>> ELSE <<x>>

LEMMA PieceTypes == ASSUME NEW A, NEW x \in A PROVE Piece(x) \in Seq(A)
<1>1. <<x, x>> \in Seq(A) /\ <<x>> \in Seq(A)
  OBVIOUS
<1>2. Piece(x) = <<x, x>> \/ Piece(x) = <<x>>
  BY DEF Piece
<1> QED  BY <1>1, <1>2

EscapeStep(v, f, i) == IF i = 0 THEN <<>> ELSE f[i - 1] \o Piece(v[i])

LEMMA EscapedIsRecursive ==
  ASSUME NEW A, NEW v \in Seq(A)
  PROVE  \E e \in [0 .. Len(v) -> Seq(A)] :
           /\ Escaped(v) = e[Len(v)]
           /\ e[0] = <<>> /\ \A i \in 1 .. Len(v) : e[i] = e[i - 1] \o Piece(v[i])
<1> DEFINE D == 0 .. Len(v)
           S == Seq(A)
           m == [i \in D |-> i]
           step == [i \in D |-> [f \in [D -> S] |-> EscapeStep(v, f, i)]]
<1>1. PICK K \in Nat : K = Len(v)
  OBVIOUS
<1>2. ASSUME NEW i \in D, NEW f \in [D -> S]
      PROVE  EscapeStep(v, f, i) \in S
  <2>1. CASE i = 0
    BY <2>1 DEF EscapeStep
  <2>2. CASE i # 0
    <3>1. i - 1 \in D /\ v[i] \in A
      BY <1>1, <2>2
    <3>2. f[i - 1] \in S /\ Piece(v[i]) \in S
      BY <3>1, PieceTypes
    <3>3. f[i - 1] \o Piece(v[i]) \in S
      BY <3>2
    <3> QED  BY <2>2, <3>3 DEF EscapeStep
  <2> QED  BY <2>1, <2>2
<1>3. ASSUME NEW i \in D, NEW f \in [D -> S], NEW g \in [D -> S],
             \A j \in D : m[j] < m[i] => f[j] = g[j]
      PROVE  step[i][f] = step[i][g]
  <2>1. i # 0 => f[i - 1] = g[i - 1]
    BY <1>1, <1>3
  <2>2. EscapeStep(v, f, i) = EscapeStep(v, g, i)
    BY <2>1 DEF EscapeStep
  <2> QED  BY <2>2
<1>4. PICK f \in [D -> S] : \A i \in D : f[i] = step[i][f]
  <2>1. S # {} /\ m \in [D -> 0 .. K] /\ step \in [D -> [[D -> S] -> S]]
    BY <1>1, <1>2
  <2> HIDE DEF S, D, m, step
  <2>2. IsRecursion(D, S, K, m, step)
    BY <1>1, <1>3, <2>1 DEF IsRecursion, DependsBelow
  <2> QED  BY <2>2, Recursion
<1>5. f = [i \in D |-> EscapeStep(v, f, i)]
  <2> HIDE DEF S, D, m
  <2>1. \A i \in D : f[i] = EscapeStep(v, f, i)
    BY <1>4
  <2>2. f = [i \in D |-> f[i]]
    BY <1>4
  <2> QED  BY <2>1, <2>2
<1>6. PICK e : e = [i \in D |-> EscapeStep(v, e, i)] /\ Escaped(v) = e[Len(v)]
  <2> DEFINE e == CHOOSE e : e = [i \in D |-> EscapeStep(v, e, i)]
  <2>1. e = [i \in D |-> EscapeStep(v, e, i)]
    <3> HIDE DEF D
    <3> QED  BY <1>5
  <2>2. Escaped(v) = e[Len(v)]
    BY DEF Escaped, EscapeStep, Piece
  <2> QED  BY <2>1, <2>2
<1>7. e[0] = <<>> /\ \A i \in 1 .. Len(v) : e[i] = e[i - 1] \o Piece(v[i])
  <2>1. \A i \in 0 .. Len(v) : e[i] = EscapeStep(v, e, i)
    BY <1>6
  <2>2. 0 \in 0 .. Len(v) /\ \A i \in 1 .. Len(v) : i \in 0 .. Len(v) /\ i # 0
    BY <1>1
  <2> QED  BY <2>1, <2>2, Zenon DEF EscapeStep
<1>8. e \in [0 .. Len(v) -> Seq(A)]
  <2> DEFINE T == {k \in Nat : k <= K => e[k] \in Seq(A)}
  <2>1. 0 \in T
    <3>1. <<>> \in Seq(A)
      OBVIOUS
    <3> QED  BY <1>7, <3>1
  <2>2. ASSUME NEW k \in Nat, k \in T
        PROVE  k + 1 \in T
    <3>1. SUFFICES ASSUME k + 1 <= K PROVE e[k + 1] \in Seq(A)
      OBVIOUS
    <3>2. e[k] \in Seq(A) /\ k + 1 \in 1 .. Len(v) /\ (k + 1) - 1 = k /\ v[k + 1] \in A
      BY <1>1, <2>2, <3>1
    <3>3. e[k + 1] = e[k] \o Piece(v[k + 1]) /\ Piece(v[k + 1]) \in Seq(A)
      BY <1>7, <3>2, PieceTypes
    <3> QED  BY <3>2, <3>3
  <2>3. Nat \subseteq T
    <3> HIDE DEF T
    <3> QED  BY <2>1, <2>2, Induction
  <2>4. \A i \in 0 .. Len(v) : i \in Nat /\ i <= K
    BY <1>1
  <2> QED  BY <1>6, <2>3, <2>4
<1> QED  BY <1>6, <1>7, <1>8

\* A text holds another behind its first q symbols.
Holds(s, q, t) == q + Len(t) <= Len(s) /\ \A j \in 1 .. Len(t) : s[q + j] = t[j]

LEMMA HoldsWithin ==
  ASSUME NEW A, NEW s \in Seq(A), NEW B, NEW t \in Seq(B), NEW C, NEW u \in Seq(C),
         NEW q \in Nat, NEW a \in Nat, Holds(s, q, t), Holds(t, a, u)
  PROVE  Holds(s, q + a, u)
<1>1. Len(s) \in Nat /\ Len(t) \in Nat /\ Len(u) \in Nat
  OBVIOUS
<1>2. q + Len(t) <= Len(s) /\ a + Len(u) <= Len(t)
  BY DEF Holds
<1>3. ASSUME NEW j \in 1 .. Len(u)
      PROVE  s[(q + a) + j] = u[j]
  <2>1. a + j \in 1 .. Len(t) /\ q + (a + j) = (q + a) + j
    BY <1>1, <1>2
  <2>2. t[a + j] = u[j] /\ s[q + (a + j)] = t[a + j]
    BY <2>1 DEF Holds
  <2> QED  BY <2>1, <2>2
<1>4. (q + a) + Len(u) <= Len(s)
  BY <1>1, <1>2
<1> QED  BY <1>3, <1>4 DEF Holds

LEMMA HoldsParts ==
  ASSUME NEW A, NEW s \in Seq(A), NEW t \in Seq(A)
  PROVE  /\ s \o t \in Seq(A) /\ Len(s \o t) = Len(s) + Len(t)
         /\ Holds(s \o t, 0, s) /\ Holds(s \o t, Len(s), t)
<1>1. Len(s) \in Nat /\ Len(t) \in Nat /\ s \o t \in Seq(A) /\ Len(s \o t) = Len(s) + Len(t)
  OBVIOUS
<1>2. \A j \in 1 .. Len(s) : (s \o t)[0 + j] = s[j]
  BY <1>1
<1>3. \A j \in 1 .. Len(t) : (s \o t)[Len(s) + j] = t[j]
  BY <1>1
<1> QED  BY <1>1, <1>2, <1>3 DEF Holds

\* Where the symbols of a value are once they are written: o[i] symbols stand for the
\* first i of them.
Laid(v, text, o, k) ==
  \A i \in 1 .. k :
    /\ o[i - 1] \in Nat /\ o[i] = o[i - 1] + Len(Piece(v[i]))
    /\ Holds(text, o[i - 1], Piece(v[i]))

LEMMA EscapedLaid ==
  ASSUME NEW A, NEW v \in Seq(A)
  PROVE  /\ Escaped(v) \in Seq(A)
         /\ \E o \in [0 .. Len(v) -> Nat] :
              o[0] = 0 /\ o[Len(v)] = Len(Escaped(v)) /\ Laid(v, Escaped(v), o, Len(v))
<1>1. PICK e \in [0 .. Len(v) -> Seq(A)] :
        /\ Escaped(v) = e[Len(v)]
        /\ e[0] = <<>> /\ \A i \in 1 .. Len(v) : e[i] = e[i - 1] \o Piece(v[i])
  BY EscapedIsRecursive
<1>2. PICK n \in Nat : n = Len(v)
  OBVIOUS
<1> DEFINE o == [i \in 0 .. n |-> Len(e[i])]
<1>3. o \in [0 .. n -> Nat] /\ o[0] = 0 /\ o[n] = Len(e[n])
  <2>1. \A i \in 0 .. n : Len(e[i]) \in Nat
    BY <1>2
  <2>2. 0 \in 0 .. n /\ n \in 0 .. n
    BY <1>2
  <2> QED  BY <1>1, <2>1, <2>2
<1> DEFINE T == {k \in Nat : k <= n => Laid(v, e[k], o, k)}
<1>4. 0 \in T
  BY DEF Laid
<1>5. ASSUME NEW k \in Nat, k \in T
      PROVE  k + 1 \in T
  <2>1. SUFFICES ASSUME k + 1 <= n PROVE Laid(v, e[k + 1], o, k + 1)
    OBVIOUS
  <2>2. k + 1 \in 1 .. n /\ k \in 0 .. n /\ k + 1 \in 0 .. n /\ (k + 1) - 1 = k /\ v[k + 1] \in A
    BY <1>2, <2>1
  <2> DEFINE p == Piece(v[k + 1])
  <2>3. e[k + 1] = e[k] \o p /\ p \in Seq(A) /\ e[k] \in Seq(A) /\ e[k + 1] \in Seq(A)
    BY <1>1, <1>2, <2>2, PieceTypes
  <2>4. o[k] = Len(e[k]) /\ o[k + 1] = Len(e[k + 1]) /\ o[k] \in Nat
    BY <1>3, <2>2
  <2>5. Laid(v, e[k], o, k)
    BY <1>5, <2>2
  <2> HIDE DEF o, p
  <2>6. Holds(e[k + 1], 0, e[k]) /\ Holds(e[k + 1], o[k], p) /\ o[k + 1] = o[k] + Len(p)
    BY <2>3, <2>4, HoldsParts
  <2>7. ASSUME NEW i \in 1 .. k
        PROVE  Holds(e[k + 1], o[i - 1], Piece(v[i]))
    <3>1. Holds(e[k], o[i - 1], Piece(v[i])) /\ o[i - 1] \in Nat
      BY <2>5 DEF Laid
    <3>2. Piece(v[i]) \in Seq(A)
      BY <1>2, <2>2, PieceTypes
    <3>3. Holds(e[k + 1], 0 + o[i - 1], Piece(v[i]))
      BY <2>3, <2>6, <3>1, <3>2, HoldsWithin
    <3> QED  BY <3>1, <3>3
  <2>8. \A i \in 1 .. k + 1 : i \in 1 .. k \/ i = k + 1
    OBVIOUS
  <2> QED  BY <2>2, <2>4, <2>5, <2>6, <2>7, <2>8 DEF Laid, p
<1>6. Laid(v, e[n], o, n)
  <2> HIDE DEF T
  <2>1. n \in T
    BY <1>4, <1>5, Induction
  <2> QED  BY <2>1 DEF T
<1>7. Escaped(v) = e[n] /\ e[n] \in Seq(A)
  BY <1>1, <1>2
<1> HIDE DEF o
<1> QED  BY <1>2, <1>3, <1>6, <1>7

LEMMA Behind ==
  ASSUME NEW A, NEW v \in Seq(A), NEW i \in Nat, i < Len(v)
  PROVE  <<v[i + 1]>> \o SubSeq(v, i + 2, Len(v)) = SubSeq(v, i + 1, Len(v))
<1>1. PICK n \in Nat : n = Len(v)
  OBVIOUS
<1> DEFINE rest == SubSeq(v, i + 2, n)  all == SubSeq(v, i + 1, n)
<1>2. /\ rest \in Seq(A) /\ all \in Seq(A) /\ Len(rest) = n - i - 1 /\ Len(all) = n - i
      /\ \A j \in 1 .. n - i - 1 : rest[j] = v[i + 1 + j]
      /\ \A j \in 1 .. n - i : all[j] = v[i + j]
  BY <1>1
<1>3. v[i + 1] \in A
  BY <1>1
<1> HIDE DEF rest, all
<1> DEFINE one == <<v[i + 1]>>  joined == one \o rest
<1>4. one \in Seq(A) /\ Len(one) = 1 /\ one[1] = v[i + 1]
  BY <1>3
<1> HIDE DEF one
<1>5. /\ joined \in Seq(A) /\ Len(joined) = n - i /\ joined[1] = v[i + 1]
      /\ \A j \in 1 .. n - i : j # 1 => joined[j] = rest[j - 1]
  <2>0. one \in Seq(A) /\ rest \in Seq(A)
    BY <1>2, <1>4
  <2>1. /\ joined \in Seq(A) /\ Len(joined) = Len(one) + Len(rest)
        /\ Holds(joined, 0, one) /\ Holds(joined, Len(one), rest)
    BY <2>0, HoldsParts, Zenon
  <2> HIDE DEF joined
  <2>2. 1 + Len(rest) = n - i
    BY <1>1, <1>2
  <2>3. joined[0 + 1] = one[1]
    BY <1>4, <2>1 DEF Holds
  <2>4. \A j \in 1 .. n - i - 1 : joined[1 + j] = rest[j]
    BY <1>2, <1>4, <2>1 DEF Holds
  <2>5. \A j \in 1 .. n - i : j # 1 => j - 1 \in 1 .. n - i - 1 /\ 1 + (j - 1) = j
    BY <1>1
  <2>6. joined \in Seq(A) /\ Len(joined) = n - i
    BY <1>4, <2>1, <2>2
  <2> QED  BY <1>4, <2>3, <2>4, <2>5, <2>6
<1> HIDE DEF joined
<1>6. ASSUME NEW j \in 1 .. n - i
      PROVE  joined[j] = all[j]
  <2>1. CASE j = 1
    BY <1>1, <1>2, <1>5, <2>1
  <2>2. CASE j # 1
    <3>1. j - 1 \in 1 .. n - i - 1 /\ i + 1 + (j - 1) = i + j
      BY <1>1, <2>2
    <3> QED  BY <1>2, <1>5, <2>2, <3>1
  <2> QED  BY <2>1, <2>2
<1>7. joined = all
  BY <1>2, <1>5, <1>6, SeqEqual
<1> QED  BY <1>1, <1>7 DEF rest, all, joined, one

\* One symbol of a value in braces is read back as it was.
ReadsOn(s, i, x, n) ==
  ReadTo(s, i, {Closing}, Closing)
    = [text |-> <<x>> \o ReadTo(s, n, {Closing}, Closing).text,
       at |-> ReadTo(s, n, {Closing}, Closing).at]

LEMMA ReadPiece ==
  ASSUME NEW A, NEW s \in Seq(A), NEW x, NEW p \in Nat, Holds(s, p, Piece(x)),
         NEW i, i = p + 1, NEW n, n = p + Len(Piece(x)) + 1
  PROVE  ReadsOn(s, i, x, n)
<1> USE DEF ReadsOn
<1>1. PICK L \in Nat : L = Len(s)
  OBVIOUS
<1>2. CASE x = Closing
  <2>1. Piece(x) = <<Closing, Closing>>
    BY <1>2 DEF Piece
  <2>2. p + 2 <= L /\ s[p + 1] = Closing /\ s[p + 2] = Closing /\ n = p + 2 + 1
    BY <1>1, <2>1 DEF Holds
  <2>3. GoesOn(s, i, n, {Closing}, Closing) /\ s[i] = x
    BY <1>1, <1>2, <2>2 DEF IsDoubled, GoesOn
  <2>4. Continues(s, i, n, {Closing}, Closing)
    BY <2>3, ReadToGoesOn
  <2> QED  BY <2>3, <2>4, Zenon DEF Continues
<1>3. CASE x # Closing
  <2>1. Piece(x) = <<x>>
    BY <1>3 DEF Piece
  <2>2. p + 1 <= L /\ s[p + 1] = x /\ n = p + 1 + 1
    BY <1>1, <2>1 DEF Holds
  <2>3. GoesOn(s, i, n, {Closing}, Closing) /\ s[i] = x
    BY <1>1, <1>3, <2>2 DEF IsDoubled, GoesOn
  <2>4. Continues(s, i, n, {Closing}, Closing)
    BY <2>3, ReadToGoesOn
  <2> QED  BY <2>3, <2>4, Zenon DEF Continues
<1> QED  BY <1>2, <1>3

\* A value in braces is read back as it was, up to the brace behind it.
ReadsBraced(s, q, v, e) == ReadTo(s, q + 1, {Closing}, Closing) = [text |-> v, at |-> e]

LEMMA ReadBraced ==
  ASSUME NEW A, NEW s \in Seq(A), NEW B, NEW v \in Seq(B), NEW q \in Nat,
         Holds(s, q, Escaped(v)),
         NEW e \in 1 .. Len(s), e = q + Len(Escaped(v)) + 1, s[e] = Closing, ~IsDoubled(s, e, Closing)
  PROVE  ReadsBraced(s, q, v, e)
<1> DEFINE t == Escaped(v)
           Read(p) == ReadTo(s, p, {Closing}, Closing)
<1>1. PICK n \in Nat : n = Len(v)
  OBVIOUS
<1>2. t \in Seq(B) /\ Len(t) \in Nat
  <2>1. t \in Seq(B)
    BY EscapedLaid
  <2> HIDE DEF t
  <2> QED  BY <2>1
<1>3. PICK o \in [0 .. n -> Nat] : o[0] = 0 /\ o[n] = Len(t) /\ Laid(v, t, o, n)
  BY <1>1, EscapedLaid
<1> DEFINE R(i) == Read(q + o[i] + 1) = [text |-> SubSeq(v, i + 1, n), at |-> e]
<1> DEFINE T == {k \in Nat : k <= n => R(n - k)}
<1>4. R(n)
  <2>1. q + o[n] + 1 = e /\ Stops(s, e, {Closing}, Closing)
    BY <1>2, <1>3 DEF t, Stops
  <2>2. Read(e) = [text |-> <<>>, at |-> e]
    <3>1. EndsAt(s, e, {Closing}, Closing)
      BY <2>1, ReadToStops
    <3> QED  BY <3>1 DEF EndsAt
  <2>3. SubSeq(v, n + 1, n) = <<>>
    BY <1>1
  <2> HIDE DEF Read
  <2> QED  BY <2>1, <2>2, <2>3
<1>5. ASSUME NEW i \in 0 .. n, i + 1 <= n, R(i + 1)
      PROVE  R(i)
  <2>1. i + 1 \in 1 .. n /\ (i + 1) - 1 = i /\ (i + 1) + 1 = i + 2 /\ i < n /\ i \in Nat
    BY <1>5
  <2> DEFINE x == v[i + 1]
  <2>2. /\ o[i] \in Nat /\ o[i + 1] \in Nat
        /\ o[i + 1] = o[i] + Len(Piece(x)) /\ Holds(t, o[i], Piece(x))
    BY <1>3, <2>1 DEF Laid
  <2>3. Piece(x) \in Seq(B)
    BY <1>1, <2>1, PieceTypes
  <2>4. Holds(s, q + o[i], Piece(x))
    BY <1>2, <2>2, <2>3, HoldsWithin
  <2>5. PICK p \in Nat, z \in Nat : p = q + o[i] /\ z = q + o[i + 1] + 1
    <3>1. \A k \in Nat : q + k \in Nat /\ q + k + 1 \in Nat
      OBVIOUS
    <3>2. q + o[i] \in Nat /\ q + o[i + 1] + 1 \in Nat
      BY <2>2, <3>1, Zenon
    <3> QED  BY <3>2, Zenon
  <2>6. z = p + Len(Piece(x)) + 1
    BY <2>2, <2>3, <2>5
  <2> HIDE DEF x
  <2>7. Read(p + 1) = [text |-> <<x>> \o Read(z).text, at |-> Read(z).at]
    <3>1. ReadsOn(s, p + 1, x, z)
      BY <2>4, <2>5, <2>6, ReadPiece
    <3> QED  BY <3>1 DEF ReadsOn
  <2>8. <<x>> \o SubSeq(v, i + 2, n) = SubSeq(v, i + 1, n)
    BY <1>1, <2>1, Behind DEF x
  <2>9. Read(z) = [text |-> SubSeq(v, i + 2, n), at |-> e]
    BY <1>5, <2>1, <2>5
  <2> HIDE DEF Read
  <2>10. Read(p + 1) = [text |-> SubSeq(v, i + 1, n), at |-> e]
    <3>1. Read(z).text = SubSeq(v, i + 2, n) /\ Read(z).at = e
      BY <2>9
    <3> QED  BY <2>7, <2>8, <3>1, Zenon
  <2> QED  BY <2>5, <2>10
<1> HIDE DEF R
<1>6. n \in T
  <2>1. 0 \in T
    BY <1>4
  <2>2. ASSUME NEW k \in Nat, k \in T
        PROVE  k + 1 \in T
    <3>1. SUFFICES ASSUME k + 1 <= n PROVE R(n - (k + 1))
      OBVIOUS
    <3>2. PICK i \in 0 .. n : i = n - (k + 1) /\ i + 1 = n - k /\ i + 1 <= n
      BY <3>1
    <3>3. R(i + 1)
      BY <2>2, <3>1, <3>2
    <3> QED  BY <1>5, <3>2, <3>3
  <2> HIDE DEF T
  <2> QED  BY <2>1, <2>2, Induction
<1>7. R(0)
  BY <1>6
<1>8. SubSeq(v, 0 + 1, n) = v
  BY <1>1
<1>9. q + o[0] + 1 = q + 1
  BY <1>3
<1> QED  BY <1>7, <1>8, <1>9 DEF R, ReadsBraced

LEMMA MinOf == ASSUME NEW S, NEW m \in S, S \subseteq Nat, \A n \in S : m <= n PROVE Min(S) = m
<1>1. \E x \in S : \A y \in S : x <= y
  OBVIOUS
<1>2. Min(S) \in S /\ \A y \in S : Min(S) <= y
  BY <1>1 DEF Min
<1>3. PICK n \in Nat : n = Min(S)
  BY <1>2
<1>4. n <= m /\ m <= n
  BY <1>2, <1>3
<1> QED  BY <1>3, <1>4

\* Where the symbols to be passed over end.
LEMMA SkipIs ==
  ASSUME NEW A, NEW s \in Seq(A), NEW i \in 1 .. Len(s) + 1, NEW symbols
  PROVE  /\ SkipAll(s, i, symbols) \in i .. Len(s) + 1
         /\ i = Len(s) + 1 \/ s[i] \notin symbols => SkipAll(s, i, symbols) = i
         /\ i \in 1 .. Len(s) /\ s[i] \in symbols /\ (i + 1 = Len(s) + 1 \/ s[i + 1] \notin symbols)
              => SkipAll(s, i, symbols) = i + 1
<1> DEFINE S == {j \in i .. Len(s) : s[j] \notin symbols} \cup {Len(s) + 1}
<1>1. Len(s) \in Nat /\ SkipAll(s, i, symbols) = Min(S)
  BY DEF SkipAll
<1>2. S \subseteq i .. Len(s) + 1 /\ S \subseteq Nat /\ Len(s) + 1 \in S
  BY <1>1
<1>3. /\ i = Len(s) + 1 \/ s[i] \notin symbols => i \in S
      /\ i \in 1 .. Len(s) /\ s[i] \in symbols => i \notin S
      /\ i \in 1 .. Len(s) /\ (i + 1 = Len(s) + 1 \/ s[i + 1] \notin symbols) => i + 1 \in S
  BY <1>1
<1> HIDE DEF S
<1>4. PICK m \in S : \A j \in S : m <= j
  BY <1>2, LeastOf
<1>5. Min(S) = m
  BY <1>2, <1>4, MinOf
<1>6. m \in i .. Len(s) + 1
  BY <1>2, <1>4
<1>7. i = Len(s) + 1 \/ s[i] \notin symbols => m = i
  BY <1>1, <1>2, <1>3, <1>4
<1>8. ASSUME i \in 1 .. Len(s), s[i] \in symbols, i + 1 = Len(s) + 1 \/ s[i + 1] \notin symbols
      PROVE  m = i + 1
  <2>1. m <= i + 1 /\ m # i
    BY <1>3, <1>4, <1>8
  <2> QED  BY <1>1, <1>6, <2>1
<1> QED  BY <1>1, <1>5, <1>6, <1>7, <1>8

\* A text without a space at its end.
LEMMA TrimmedOne == ASSUME NEW A, NEW x \in A, x # Space PROVE Trimmed(<<x>>) = <<x>>
<1> DEFINE t == <<x>>  S == {j \in 1 .. Len(t) : t[j] # Space} \cup {0}
<1>1. S = {0, 1}
  OBVIOUS
<1>2. Max({0, 1}) = 1
  BY DEF Max
<1>3. Trimmed(t) = SubSeq(t, 1, Max(S))
  BY Zenon DEF Trimmed
<1>4. SubSeq(<<x>>, 1, 1) = <<x>>
  <2>1. <<x>> \in Seq(A) /\ Len(<<x>>) = 1
    OBVIOUS
  <2> HIDE DEF t, S
  <2> QED  BY <2>1, SubSeqFull, Zenon
<1> HIDE DEF S
<1> QED  BY <1>1, <1>2, <1>3, <1>4

\* The parts of a pair.
KeyAt(s, i)    == ReadTo(s, i, {Equals, Semicolon}, Equals)
Start(s, i)    == SkipAll(s, KeyAt(s, i).at + 1, {Space})
Braced(s, i)   == Start(s, i) <= Len(s) /\ s[Start(s, i)] = Opening
ValueAt(s, i)  == IF Braced(s, i) THEN ReadTo(s, Start(s, i) + 1, {Closing}, Closing)
                  ELSE ReadTo(s, Start(s, i), {Semicolon}, NoSymbol)
EndOf(s, i)    == IF Braced(s, i) THEN ValueAt(s, i).at + 1 ELSE ValueAt(s, i).at
NextAt(s, i)   == SkipAll(s, EndOf(s, i), Blanks)

IsRead(s, i) ==
  /\ Trimmed(KeyAt(s, i).text) # Empty
  /\ KeyAt(s, i).at <= Len(s) /\ s[KeyAt(s, i).at] = Equals
  /\ Braced(s, i) => ValueAt(s, i).at <= Len(s)
  /\ NextAt(s, i) <= Len(s) => \E j \in EndOf(s, i) .. NextAt(s, i) - 1 : s[j] = Semicolon

LEMMA PairIs ==
  ASSUME NEW s, NEW i
  PROVE  Pair(s, i) =
           [ok    |-> IsRead(s, i),
            key   |-> Trimmed(KeyAt(s, i).text),
            value |-> IF Braced(s, i) THEN ValueAt(s, i).text ELSE Trimmed(ValueAt(s, i).text),
            next  |-> NextAt(s, i)]
BY DEF Pair, IsRead, KeyAt, Start, Braced, ValueAt, EndOf, NextAt

\* Behind a pair the reading goes on further right.
LEMMA PairAdvances ==
  ASSUME NEW A, NEW s \in Seq(A), NEW i \in 1 .. Len(s), Pair(s, i).ok
  PROVE  Pair(s, i).next \in i + 1 .. Len(s) + 1
<1>1. PICK L \in Nat : L = Len(s)
  OBVIOUS
<1>2. /\ KeyAt(s, i).at <= L
      /\ Braced(s, i) => ValueAt(s, i).at <= L
      /\ Pair(s, i).next = NextAt(s, i)
  BY <1>1, PairIs DEF IsRead
<1>3. KeyAt(s, i).at \in i .. L + 1
  BY <1>1, ReadToTypes DEF KeyAt, Reads
<1>4. Start(s, i) \in i + 1 .. L + 1
  <2>1. KeyAt(s, i).at + 1 \in 1 .. Len(s) + 1
    BY <1>1, <1>2, <1>3
  <2>2. Start(s, i) \in KeyAt(s, i).at + 1 .. Len(s) + 1
    BY <2>1, SkipIs DEF Start
  <2> QED  BY <1>1, <1>3, <2>2
<1>5. EndOf(s, i) \in i + 1 .. L + 1
  <2>1. CASE Braced(s, i)
    <3>1. Start(s, i) + 1 \in 1 .. Len(s) + 1
      BY <1>1, <1>4, <2>1 DEF Braced
    <3>2. ValueAt(s, i).at \in Start(s, i) + 1 .. Len(s) + 1
      BY <2>1, <3>1, ReadToTypes DEF ValueAt, Reads
    <3> QED  BY <1>1, <1>2, <1>4, <2>1, <3>2 DEF EndOf
  <2>2. CASE ~Braced(s, i)
    <3>1. Start(s, i) \in 1 .. Len(s) + 1
      BY <1>1, <1>4
    <3>2. ValueAt(s, i).at \in Start(s, i) .. Len(s) + 1
      BY <2>2, <3>1, ReadToTypes DEF ValueAt, Reads
    <3> QED  BY <1>1, <1>4, <2>2, <3>2 DEF EndOf
  <2> QED  BY <2>1, <2>2
<1>6. NextAt(s, i) \in EndOf(s, i) .. L + 1
  <2>1. EndOf(s, i) \in 1 .. Len(s) + 1
    BY <1>1, <1>5
  <2> QED  BY <1>1, <2>1, SkipIs DEF NextAt
<1> QED  BY <1>1, <1>2, <1>5, <1>6

Marks == {Equals, Semicolon, Space, Opening, Closing}

LEMMA MarksDiffer ==
  /\ Opening # Space /\ Opening # Equals /\ Closing # Semicolon /\ Semicolon # Closing
  /\ Semicolon \in Blanks
  /\ \A key \in {"DSN", "UID", "PWD"} : key \notin Marks /\ key \notin Blanks
<1>1. /\ Opening # Space /\ Opening # Equals /\ Closing # Semicolon /\ Semicolon # Closing
      /\ Semicolon \in Blanks
  BY DEF Equals, Semicolon, Space, Opening, Closing, Blanks
<1>2. "DSN" \notin Marks /\ "UID" \notin Marks /\ "PWD" \notin Marks
  BY DEF Marks, Equals, Semicolon, Space, Opening, Closing
<1> QED  BY <1>1, <1>2 DEF Marks, Blanks

LEMMA EntryIs ==
  ASSUME NEW A, Marks \subseteq A, NEW key \in A, NEW v \in Seq(A)
  PROVE  /\ Entry(key, v) \in Seq(A) /\ Escaped(v) \in Seq(A)
         /\ Len(Entry(key, v)) = Len(Escaped(v)) + 5
         /\ Holds(Entry(key, v), 0, <<key, Equals, Opening>>)
         /\ Holds(Entry(key, v), 3, Escaped(v))
         /\ Holds(Entry(key, v), 3 + Len(Escaped(v)), <<Closing, Semicolon>>)
<1> DEFINE front == <<key, Equals, Opening>>  back == <<Closing, Semicolon>>
           esc == Escaped(v)  most == front \o esc  all == most \o back
<1>1. front \in Seq(A) /\ Len(front) = 3 /\ back \in Seq(A) /\ Len(back) = 2
  <2>1. /\ Equals \in A /\ Semicolon \in A /\ Opening \in A /\ Closing \in A
    BY DEF Marks
  <2> QED  BY <2>1
<1>2. esc \in Seq(A)
  BY EscapedLaid
<1>3. PICK m \in Nat : m = Len(esc)
  BY <1>2
<1> HIDE DEF front, back, esc
<1>4. /\ most \in Seq(A) /\ Len(most) = Len(front) + Len(esc)
      /\ Holds(most, 0, front) /\ Holds(most, Len(front), esc)
  BY <1>1, <1>2, HoldsParts, Zenon
<1> HIDE DEF most
<1>5. /\ all \in Seq(A) /\ Len(all) = Len(most) + Len(back)
      /\ Holds(all, 0, most) /\ Holds(all, Len(most), back)
  BY <1>1, <1>4, HoldsParts, Zenon
<1> HIDE DEF all
<1>6. Holds(all, 0 + 0, front) /\ Holds(all, 0 + 3, esc)
  BY <1>1, <1>2, <1>4, <1>5, HoldsWithin
<1>7. all = Entry(key, v)
  BY DEF Entry, all, most, front, back, esc
<1>8. Len(all) = Len(esc) + 5 /\ Len(most) = 3 + Len(esc)
  BY <1>1, <1>3, <1>4, <1>5
<1> QED  BY <1>2, <1>5, <1>6, <1>7, <1>8 DEF front, back, esc

\* An entry is read back as its key and its value.
PairAt(s, i, key, v, after) ==
  Pair(s, i) = [ok |-> TRUE, key |-> <<key>>, value |-> v, next |-> after]

LEMMA EntryRead ==
  ASSUME NEW A, Marks \subseteq A, NEW s \in Seq(A), NEW key \in A, key \notin Marks,
         NEW v \in Seq(A), NEW p \in Nat, Holds(s, p, Entry(key, v)),
         NEW i, i = p + 1, NEW after, after = p + Len(Entry(key, v)) + 1,
         after = Len(s) + 1 \/ s[after] \notin Blanks
  PROVE  PairAt(s, i, key, v, after)
<1> DEFINE entry == Entry(key, v)  esc == Escaped(v)
           front == <<key, Equals, Opening>>  back == <<Closing, Semicolon>>
<1>0. /\ entry \in Seq(A) /\ esc \in Seq(A) /\ front \in Seq(A) /\ back \in Seq(A)
      /\ Len(entry) = Len(esc) + 5
      /\ Holds(entry, 0, front) /\ Holds(entry, 3, esc) /\ Holds(entry, 3 + Len(esc), back)
  <2>1. front \in Seq(A) /\ back \in Seq(A)
    BY DEF Marks
  <2> QED  BY <2>1, EntryIs
<1> HIDE DEF entry, esc
<1>1. PICK m \in Nat : m = Len(esc)
  BY <1>0
<1>2. PICK L \in Nat : L = Len(s)
  OBVIOUS
<1>3. after = p + m + 6 /\ after <= L + 1
  <2>1. after = p + Len(entry) + 1 /\ p + Len(entry) <= L
    BY <1>2 DEF Holds, entry
  <2> QED  BY <1>0, <1>1, <1>2, <2>1
<1>4. s[p + 1] = key /\ s[p + 2] = Equals /\ s[p + 3] = Opening
  <2>1. Holds(s, p + 0, front)
    BY <1>0, HoldsWithin DEF entry
  <2>2. /\ Len(front) = 3 /\ p + 0 = p
        /\ front[1] = key /\ front[2] = Equals /\ front[3] = Opening
    OBVIOUS
  <2>3. \A j \in 1 .. 3 : s[p + j] = front[j]
    BY <2>1, <2>2 DEF Holds
  <2> HIDE DEF front
  <2> QED  BY <2>2, <2>3
<1>5. Holds(s, p + 3, esc)
  BY <1>0, HoldsWithin DEF entry
<1>6. s[p + m + 4] = Closing /\ s[p + m + 5] = Semicolon
  <2>1. PICK a \in Nat : a = 3 + m /\ Holds(s, p + a, back)
    <3>1. PICK a \in Nat : a = 3 + m
      BY <1>1
    <3> HIDE DEF back
    <3> QED  BY <1>0, <1>1, <3>1, HoldsWithin DEF entry
  <2>2. s[p + a + 1] = Closing /\ s[p + a + 2] = Semicolon
    BY <2>1 DEF Holds
  <2>3. p + a + 1 = p + m + 4 /\ p + a + 2 = p + m + 5
    BY <1>1, <2>1
  <2> QED  BY <2>2, <2>3
<1> HIDE DEF front, back
<1>7. KeyAt(s, i) = [text |-> <<key>>, at |-> p + 2]
  <2>1. GoesOn(s, i, p + 2, {Equals, Semicolon}, Equals)
    BY <1>2, <1>3, <1>4 DEF GoesOn, IsDoubled, Marks
  <2>2. Stops(s, p + 2, {Equals, Semicolon}, Equals)
    BY <1>2, <1>3, <1>4, MarksDiffer DEF Stops, IsDoubled
  <2>3. Continues(s, i, p + 2, {Equals, Semicolon}, Equals) /\ EndsAt(s, p + 2, {Equals, Semicolon}, Equals)
    BY <2>1, <2>2, ReadToGoesOn, ReadToStops
  <2>4. <<key>> \o <<>> = <<key>>
    OBVIOUS
  <2>5. /\ ReadTo(s, p + 2, {Equals, Semicolon}, Equals).text = <<>>
        /\ ReadTo(s, p + 2, {Equals, Semicolon}, Equals).at = p + 2
    BY <2>3 DEF EndsAt
  <2>6. s[i] = key
    BY <1>4
  <2>7. KeyAt(s, i) = [text |-> <<s[i]>> \o <<>>, at |-> p + 2]
    BY <2>3, <2>5, Zenon DEF Continues, KeyAt
  <2> QED  BY <2>4, <2>6, <2>7
<1>8. Start(s, i) = p + 3 /\ Braced(s, i)
  <2>1. SkipAll(s, p + 3, {Space}) = p + 3
    <3>1. s[p + 3] \notin {Space}
      BY <1>4, MarksDiffer
    <3>2. p + 3 \in 1 .. Len(s) + 1
      BY <1>2, <1>3
    <3> QED  BY <3>1, <3>2, SkipIs
  <2>2. KeyAt(s, i).at + 1 = p + 3
    BY <1>7
  <2> QED  BY <1>2, <1>3, <1>4, <2>1, <2>2 DEF Start, Braced
<1>9. ValueAt(s, i) = [text |-> v, at |-> p + m + 4]
  <2>1. PICK e \in 1 .. Len(s) : e = p + m + 4
    BY <1>2, <1>3
  <2>2. e = (p + 3) + Len(Escaped(v)) + 1 /\ s[e] = Closing /\ ~IsDoubled(s, e, Closing)
    BY <1>1, <1>6, <2>1, MarksDiffer DEF IsDoubled, esc
  <2>3. ReadsBraced(s, p + 3, v, e)
    BY <1>5, <2>2, ReadBraced DEF esc
  <2> QED  BY <1>8, <2>1, <2>3 DEF ValueAt, ReadsBraced
<1>10. EndOf(s, i) = p + m + 5
  BY <1>8, <1>9 DEF EndOf
<1>11. NextAt(s, i) = after
  <2>1. PICK j \in 1 .. Len(s) : j = p + m + 5 /\ j + 1 = after
    BY <1>2, <1>3
  <2>2. s[j] \in Blanks /\ (j + 1 = Len(s) + 1 \/ s[j + 1] \notin Blanks)
    BY <1>6, <2>1, MarksDiffer
  <2>3. SkipAll(s, j, Blanks) = j + 1
    BY <2>2, SkipIs
  <2> QED  BY <1>10, <2>1, <2>3 DEF NextAt
<1>12. Trimmed(KeyAt(s, i).text) = <<key>>
  BY <1>7, TrimmedOne DEF Marks
<1>13. KeyAt(s, i).at <= Len(s) /\ s[KeyAt(s, i).at] = Equals /\ ValueAt(s, i).at <= Len(s)
  BY <1>2, <1>3, <1>4, <1>7, <1>9
<1>14. \E j \in EndOf(s, i) .. NextAt(s, i) - 1 : s[j] = Semicolon
  BY <1>3, <1>6, <1>10, <1>11
<1>15. <<key>> # Empty
  BY DEF Empty
<1>16. IsRead(s, i) = TRUE
  BY <1>12, <1>13, <1>14, <1>15 DEF IsRead
<1>17. ValueAt(s, i).text = v
  BY <1>9
<1> QED  BY <1>8, <1>11, <1>12, <1>16, <1>17, PairIs, Zenon DEF PairAt

\* The pairs of a text from each position on.
PairsStep(s, f, i) ==
  IF i > Len(s) THEN <<>>
  ELSE <<Pair(s, i)>> \o (IF Pair(s, i).ok THEN f[Pair(s, i).next] ELSE <<>>)

AllPairs(s) == {Pair(s, i) : i \in 1 .. Len(s)}

ArePairs(s, f) ==
  /\ Pairs(s) = f[SkipAll(s, 1, Blanks)]
  /\ \A i \in 1 .. Len(s) + 1 : f[i] = PairsStep(s, f, i)

LEMMA PairsAreRecursive ==
  ASSUME NEW A, NEW s \in Seq(A)
  PROVE  \E f : ArePairs(s, f)
<1> DEFINE D == 1 .. Len(s) + 1
           S == Seq(AllPairs(s))
           m == [i \in D |-> Len(s) + 1 - i]
           step == [i \in D |-> [f \in [D -> S] |-> PairsStep(s, f, i)]]
<1>1. PICK K \in Nat : K = Len(s) + 1
  OBVIOUS
<1>2. S # {} /\ m \in [D -> 0 .. K]
  <2>1. <<>> \in S
    OBVIOUS
  <2>2. m \in [D -> 0 .. K]
    BY <1>1
  <2> QED  BY <2>1, <2>2
<1>3. ASSUME NEW i \in D, ~(i > Len(s)), Pair(s, i).ok
      PROVE  Pair(s, i).next \in D /\ Pair(s, i).next > i
  <2>1. i \in 1 .. Len(s)
    BY <1>1, <1>3
  <2>2. Pair(s, i).next \in i + 1 .. Len(s) + 1
    BY <1>3, <2>1, PairAdvances
  <2> QED  BY <1>1, <2>1, <2>2
<1>4. ASSUME NEW i \in D, NEW f \in [D -> S]
      PROVE  PairsStep(s, f, i) \in S
  <2> HIDE DEF D
  <2>1. CASE i > Len(s)
    BY <2>1 DEF PairsStep
  <2>2. CASE ~(i > Len(s))
    <3> DEFINE rest == IF Pair(s, i).ok THEN f[Pair(s, i).next] ELSE <<>>
    <3>1. rest \in S
      <4>1. CASE Pair(s, i).ok
        BY <1>3, <2>2, <4>1
      <4>2. CASE ~Pair(s, i).ok
        BY <4>2
      <4> QED  BY <4>1, <4>2
    <3>2. Pair(s, i) \in AllPairs(s)
      BY <1>1, <2>2 DEF AllPairs, D
    <3> HIDE DEF rest
    <3>3. <<Pair(s, i)>> \o rest \in S
      BY <3>1, <3>2
    <3> QED  BY <2>2, <3>3 DEF PairsStep, rest
  <2> QED  BY <2>1, <2>2
<1>5. ASSUME NEW i \in D, NEW f \in [D -> S], NEW g \in [D -> S],
             \A j \in D : m[j] < m[i] => f[j] = g[j]
      PROVE  step[i][f] = step[i][g]
  <2>1. \A j \in D : j > i => f[j] = g[j]
    BY <1>1, <1>5
  <2> HIDE DEF D, S
  <2>2. PairsStep(s, f, i) = PairsStep(s, g, i)
    <3>1. ASSUME ~(i > Len(s)), Pair(s, i).ok
          PROVE  f[Pair(s, i).next] = g[Pair(s, i).next]
      BY <1>3, <2>1, <3>1
    <3> QED  BY <3>1, Zenon DEF PairsStep
  <2> QED  BY <2>2
<1>6. PICK f \in [D -> S] : \A i \in D : f[i] = step[i][f]
  <2> HIDE DEF S, D, m
  <2>1. step \in [D -> [[D -> S] -> S]]
    BY <1>4
  <2> HIDE DEF step
  <2>2. DependsBelow(D, S, m, step)
    BY <1>5 DEF DependsBelow
  <2>3. IsRecursion(D, S, K, m, step)
    BY <1>1, <1>2, <2>1, <2>2 DEF IsRecursion
  <2> QED  BY <2>3, Recursion
<1>7. f = [i \in D |-> PairsStep(s, f, i)]
  <2> HIDE DEF S, D, m
  <2>1. \A i \in D : f[i] = PairsStep(s, f, i)
    BY <1>6
  <2>2. f = [i \in D |-> f[i]]
    BY <1>6
  <2> QED  BY <2>1, <2>2
<1>8. PICK r : /\ r = [i \in D |-> PairsStep(s, r, i)]
               /\ Pairs(s) = r[SkipAll(s, 1, Blanks)]
  <2> DEFINE r == CHOOSE r : r = [i \in D |-> PairsStep(s, r, i)]
  <2>1. r = [i \in D |-> PairsStep(s, r, i)]
    <3> HIDE DEF D
    <3> QED  BY <1>7
  <2>2. Pairs(s) = r[SkipAll(s, 1, Blanks)]
    BY DEF Pairs, PairsStep
  <2> QED  BY <2>1, <2>2
<1>9. \A i \in D : r[i] = PairsStep(s, r, i)
  <2> HIDE DEF D
  <2> QED  BY <1>8
<1> QED  BY <1>8, <1>9 DEF ArePairs

\* What SQLConnect writes for one name, and what is read from it.
PartOf(key, value) == IF value = Null THEN <<>> ELSE Entry(key, value)
Found(key, value, after) ==
  IF value = Null THEN <<>>
  ELSE <<[ok |-> TRUE, key |-> <<key>>, value |-> value, next |-> after]>>

NoBlankBehind(s, p) == p = Len(s) \/ s[p + 1] \notin Blanks

Keys == {"DSN", "UID", "PWD"}

\* The part of a text from p to q, and what reading it finds.
IsPart(s, key, v, p, q) == Holds(s, p, PartOf(key, v)) /\ q = p + Len(PartOf(key, v))
PartIsRead(s, f, key, v, p, q) ==
  /\ NoBlankBehind(s, p)
  /\ f[p + 1] = Found(key, v, q + 1) \o f[q + 1]

LEMMA PartRead ==
  ASSUME NEW A, Marks \subseteq A, Keys \subseteq A, NEW s \in Seq(A), NEW key \in Keys,
         NEW v \in Seq(A) \cup {Null}, NEW p \in Nat, NEW q, IsPart(s, key, v, p, q),
         NoBlankBehind(s, q), NEW f, ArePairs(s, f)
  PROVE  PartIsRead(s, f, key, v, p, q)
<1> USE DEF IsPart, PartIsRead
<1>1. CASE v = Null
  <2>1. q = p
    BY <1>1 DEF PartOf
  <2> QED  BY <1>1, <2>1 DEF Found
<1>2. CASE v # Null
  <2>1. v \in Seq(A) /\ key \in A /\ key \notin Marks /\ key \notin Blanks
    BY <1>2, MarksDiffer DEF Keys
  <2>2. Holds(s, p, Entry(key, v)) /\ q = p + Len(Entry(key, v))
    BY <1>2 DEF PartOf
  <2>3. q + 1 = Len(s) + 1 \/ s[q + 1] \notin Blanks
    BY DEF NoBlankBehind
  <2>4. PICK m \in Nat : m = Len(Entry(key, v)) /\ m >= 5
    <3>1. Entry(key, v) \in Seq(A) /\ Escaped(v) \in Seq(A) /\ Len(Entry(key, v)) = Len(Escaped(v)) + 5
      BY <2>1, EntryIs
    <3> QED  BY <3>1
  <2>5. Pair(s, p + 1) = [ok |-> TRUE, key |-> <<key>>, value |-> v, next |-> q + 1]
    <3>1. PICK i, after : i = p + 1 /\ after = q + 1
      OBVIOUS
    <3>2. after = p + Len(Entry(key, v)) + 1
      BY <2>2, <2>4, <3>1
    <3>3. PairAt(s, i, key, v, after)
      BY <2>1, <2>2, <2>3, <3>1, <3>2, EntryRead
    <3> QED  BY <3>1, <3>3 DEF PairAt
  <2>6. p + 1 <= Len(s)
    BY <2>2, <2>4 DEF Holds
  <2>7. s[p + 1] = key
    <3>1. Holds(Entry(key, v), 0, <<key, Equals, Opening>>)
      BY <2>1, EntryIs
    <3>2. Entry(key, v)[1] = key
      BY <3>1 DEF Holds
    <3> QED  BY <2>2, <2>4, <3>2 DEF Holds
  <2>8. f[p + 1] = PairsStep(s, f, p + 1)
    BY <2>6 DEF ArePairs
  <2>9. f[p + 1] = <<Pair(s, p + 1)>> \o f[q + 1]
    <3>1. ~(p + 1 > Len(s))
      BY <2>6
    <3>2. Pair(s, p + 1).ok /\ Pair(s, p + 1).next = q + 1
      BY <2>5
    <3> QED  BY <2>8, <3>1, <3>2, Zenon DEF PairsStep
  <2> QED  BY <1>2, <2>1, <2>5, <2>7, <2>9 DEF Found, NoBlankBehind
<1> QED  BY <1>1, <1>2

\* The fields of the first k pairs, none of which excludes another.
Gathered(P, k) ==
  [x \in {P[i].key : i \in 1 .. k} |-> P[CHOOSE i \in 1 .. k : P[i].key = x].value]

Compatible(P) ==
  /\ \A i \in 1 .. Len(P) : P[i].key \in {<<key>> : key \in Keys}
  /\ \A i, j \in 1 .. Len(P) : P[i].key = P[j].key => i = j

LEMMA RivalsAre ==
  ASSUME NEW key \in {<<k>> : k \in Keys}
  PROVE  Rivals(key) \cap {<<k>> : k \in Keys} = {}
<1>1. Rivals(key) \subseteq {<<"FileDSN">>, <<"Driver">>}
  BY DEF Rivals, Keys
<1>2. \A k \in Keys : <<k>> # <<"FileDSN">> /\ <<k>> # <<"Driver">>
  BY DEF Keys
<1> QED  BY <1>1, <1>2

LEMMA FieldsAreGathered ==
  ASSUME NEW P, Compatible(P), Len(P) \in Nat
  PROVE  Fields(P) = Gathered(P, Len(P))
<1>1. PICK n \in Nat : n = Len(P)
  OBVIOUS
<1> DEFINE Step(g, i) == IF i = 0 THEN NoFields ELSE Take(g[i - 1], P[i])
<1>2. Gathered(P, 0) = NoFields
  <2>1. {P[i].key : i \in 1 .. 0} = {}
    OBVIOUS
  <2> QED  BY <2>1 DEF Gathered, NoFields
<1>3. ASSUME NEW i \in 1 .. n
      PROVE  Take(Gathered(P, i - 1), P[i]) = Gathered(P, i)
  <2> DEFINE before == Gathered(P, i - 1)
  <2>1. DOMAIN before = {P[j].key : j \in 1 .. i - 1}
    BY DEF Gathered
  <2>2. P[i].key \notin DOMAIN before
    BY <1>1, <2>1 DEF Compatible
  <2>3. Rivals(P[i].key) \cap DOMAIN before = {}
    <3>1. DOMAIN before \subseteq {<<k>> : k \in Keys}
      BY <1>1, <2>1 DEF Compatible
    <3>2. P[i].key \in {<<k>> : k \in Keys}
      BY <1>1 DEF Compatible
    <3> QED  BY <3>1, <3>2, RivalsAre
  <2>4. Take(before, P[i]) = [k \in DOMAIN before \cup {P[i].key} |->
                                IF k = P[i].key THEN P[i].value ELSE before[k]]
    BY <2>2, <2>3 DEF Take
  <2>5. DOMAIN before \cup {P[i].key} = {P[j].key : j \in 1 .. i}
    <3>1. 1 .. i = (1 .. i - 1) \cup {i}
      OBVIOUS
    <3> QED  BY <2>1, <3>1
  <2>6. ASSUME NEW j \in 1 .. i
        PROVE  (IF P[j].key = P[i].key THEN P[i].value ELSE before[P[j].key]) = Gathered(P, i)[P[j].key]
    <3> DEFINE h == CHOOSE h \in 1 .. i : P[h].key = P[j].key
    <3>1. Gathered(P, i)[P[j].key] = P[h].value
      BY DEF Gathered
    <3>2. h \in 1 .. i /\ P[h].key = P[j].key
      OBVIOUS
    <3> HIDE DEF h
    <3>3. h = j
      BY <1>1, <3>2 DEF Compatible
    <3>4. CASE j = i
      BY <3>1, <3>3, <3>4
    <3>5. CASE j # i
      <4> DEFINE g == CHOOSE g \in 1 .. i - 1 : P[g].key = P[j].key
      <4>1. j \in 1 .. i - 1
        BY <3>5
      <4>2. before[P[j].key] = P[g].value
        BY <4>1 DEF Gathered
      <4>3. g \in 1 .. i - 1 /\ P[g].key = P[j].key
        BY <4>1
      <4> HIDE DEF g
      <4>4. g = j /\ P[j].key # P[i].key
        BY <1>1, <3>5, <4>3 DEF Compatible
      <4> QED  BY <3>1, <3>3, <4>2, <4>4
    <3> QED  BY <3>4, <3>5
  <2>7. DOMAIN Gathered(P, i) = {P[j].key : j \in 1 .. i}
    BY DEF Gathered
  <2>8. Gathered(P, i) = [k \in DOMAIN before \cup {P[i].key} |-> Gathered(P, i)[k]]
    <3>1. Gathered(P, i) = [k \in {P[j].key : j \in 1 .. i} |-> Gathered(P, i)[k]]
      BY DEF Gathered
    <3> QED  BY <2>5, <3>1, Zenon
  <2> HIDE DEF before
  <2>9. \A k \in DOMAIN before \cup {P[i].key} :
          (IF k = P[i].key THEN P[i].value ELSE before[k]) = Gathered(P, i)[k]
    BY <2>5, <2>6
  <2> QED  BY <2>4, <2>8, <2>9, Zenon DEF before
<1>4. PICK t : t = [i \in 0 .. n |-> Step(t, i)] /\ Fields(P) = t[n]
  <2> DEFINE t == CHOOSE t : t = [i \in 0 .. n |-> Step(t, i)]
             g == [i \in 0 .. n |-> Gathered(P, i)]
  <2>1. g = [i \in 0 .. n |-> Step(g, i)]
    <3>1. ASSUME NEW i \in 0 .. n
          PROVE  Gathered(P, i) = Step(g, i)
      <4>1. CASE i = 0
        BY <1>2, <4>1
      <4>2. CASE i # 0
        <5>1. i \in 1 .. n /\ i - 1 \in 0 .. n
          BY <4>2
        <5> QED  BY <1>3, <4>2, <5>1
      <4> QED  BY <4>1, <4>2
    <3> QED  BY <3>1
  <2>2. t = [i \in 0 .. n |-> Step(t, i)]
    <3> HIDE DEF g, Step
    <3> QED  BY <2>1
  <2>3. Fields(P) = t[n]
    BY <1>1 DEF Fields
  <2> QED  BY <2>2, <2>3
<1> DEFINE T == {k \in Nat : k <= n => t[k] = Gathered(P, k)}
<1>5. \A i \in 0 .. n : t[i] = Step(t, i)
  <2> HIDE DEF Step
  <2> QED  BY <1>4
<1>6. 0 \in T
  BY <1>1, <1>2, <1>5
<1>7. ASSUME NEW k \in Nat, k \in T
      PROVE  k + 1 \in T
  <2>1. SUFFICES ASSUME k + 1 <= n PROVE t[k + 1] = Gathered(P, k + 1)
    OBVIOUS
  <2>2. k + 1 \in 1 .. n /\ k + 1 \in 0 .. n /\ (k + 1) - 1 = k /\ k <= n /\ k + 1 # 0
    BY <2>1
  <2>3. t[k + 1] = Take(t[k], P[k + 1])
    BY <1>5, <2>2
  <2> QED  BY <1>3, <1>7, <2>2, <2>3
<1>8. n \in T
  <2> HIDE DEF T
  <2> QED  BY <1>6, <1>7, Induction
<1> QED  BY <1>1, <1>4, <1>8

LEMMA GatheredHas ==
  ASSUME NEW P, Compatible(P), Len(P) \in Nat, NEW j \in 1 .. Len(P)
  PROVE  /\ P[j].key \in DOMAIN Gathered(P, Len(P))
         /\ Gathered(P, Len(P))[P[j].key] = P[j].value
<1> DEFINE h == CHOOSE h \in 1 .. Len(P) : P[h].key = P[j].key
<1>1. P[j].key \in DOMAIN Gathered(P, Len(P)) /\ Gathered(P, Len(P))[P[j].key] = P[h].value
  BY DEF Gathered
<1>2. h \in 1 .. Len(P) /\ P[h].key = P[j].key
  OBVIOUS
<1> HIDE DEF h
<1>3. h = j
  BY <1>2 DEF Compatible
<1> QED  BY <1>1, <1>3

\* A pair before others that have not its key.
Has(P, x) == \E j \in 1 .. Len(P) : P[j] = x
HasNoKey(P, key) == \A i \in 1 .. Len(P) : P[i].key # key

LEMMA OneMore ==
  ASSUME NEW S, NEW R \in Seq(S), Compatible(R), NEW x \in S, x.key \in {<<key>> : key \in Keys},
         HasNoKey(R, x.key), NEW Q, Q = <<x>> \o R
  PROVE  /\ Q \in Seq(S) /\ Compatible(Q) /\ Has(Q, x)
         /\ \A y : Has(R, y) => Has(Q, y)
         /\ \A key : key # x.key /\ HasNoKey(R, key) => HasNoKey(Q, key)
<1> DEFINE one == <<x>>
<1>1. one \in Seq(S) /\ Len(one) = 1 /\ one[1] = x
  OBVIOUS
<1> HIDE DEF one
<1>2. Q = one \o R
  BY DEF one
<1>3. Q \in Seq(S) /\ Len(Q) = Len(one) + Len(R) /\ Holds(Q, 0, one) /\ Holds(Q, Len(one), R)
  BY <1>1, <1>2, HoldsParts
<1>4. PICK n \in Nat : n = Len(R)
  OBVIOUS
<1>5. Len(Q) = n + 1 /\ Q[1] = x /\ \A j \in 1 .. n : Q[1 + j] = R[j]
  <2>1. Q[0 + 1] = x
    BY <1>1, <1>3 DEF Holds
  <2> QED  BY <1>1, <1>3, <1>4, <2>1 DEF Holds
<1>6. \A i \in 1 .. Len(Q) : i = 1 \/ (i - 1 \in 1 .. n /\ Q[i] = R[i - 1])
  <2>1. ASSUME NEW i \in 1 .. Len(Q), i # 1
        PROVE  i - 1 \in 1 .. n /\ Q[i] = R[i - 1]
    <3>1. i - 1 \in 1 .. n /\ 1 + (i - 1) = i
      BY <1>5, <2>1
    <3> QED  BY <1>5, <3>1
  <2> QED  BY <2>1
<1>7. Has(Q, x)
  <2>1. 1 \in 1 .. Len(Q)
    BY <1>5
  <2> QED  BY <1>5, <2>1 DEF Has
<1>8. ASSUME NEW y, Has(R, y)
      PROVE  Has(Q, y)
  <2>1. PICK j \in 1 .. n : R[j] = y
    BY <1>4, <1>8 DEF Has
  <2>2. 1 + j \in 1 .. Len(Q) /\ Q[1 + j] = y
    BY <1>5, <2>1
  <2> QED  BY <2>2 DEF Has
<1>9. ASSUME NEW key, key # x.key, HasNoKey(R, key)
      PROVE  HasNoKey(Q, key)
  BY <1>4, <1>5, <1>6, <1>9 DEF HasNoKey
<1>10. \A i \in 1 .. Len(Q) : Q[i].key \in {<<key>> : key \in Keys}
  BY <1>4, <1>5, <1>6 DEF Compatible
<1>11. ASSUME NEW i \in 1 .. Len(Q), NEW j \in 1 .. Len(Q), Q[i].key = Q[j].key
       PROVE  i = j
  <2>1. CASE i = 1 \/ j = 1
    BY <1>4, <1>5, <1>6, <1>11, <2>1 DEF HasNoKey
  <2>2. CASE i # 1 /\ j # 1
    <3>1. i - 1 \in 1 .. n /\ j - 1 \in 1 .. n /\ R[i - 1].key = R[j - 1].key
      BY <1>6, <1>11, <2>2
    <3>2. i - 1 = j - 1
      BY <1>4, <3>1 DEF Compatible
    <3> QED  BY <3>2
  <2> QED  BY <2>1, <2>2
<1> QED  BY <1>3, <1>7, <1>8, <1>9, <1>10, <1>11 DEF Compatible

\* Up to three pairs of different keys.
LEMMA ThreeParts ==
  ASSUME NEW a, NEW b, NEW c, a.key = <<"DSN">>, b.key = <<"UID">>, c.key = <<"PWD">>,
         NEW F1 \in {<<>>, <<a>>}, NEW F2 \in {<<>>, <<b>>}, NEW F3 \in {<<>>, <<c>>},
         NEW P, P = F1 \o (F2 \o (F3 \o <<>>))
  PROVE  /\ Compatible(P) /\ Len(P) \in Nat
         /\ F1 # <<>> => Has(P, a)
         /\ F2 # <<>> => Has(P, b)
         /\ F3 # <<>> => Has(P, c)
<1> DEFINE S == {a, b, c}
           Adds(F, x, R, Q) ==
             /\ Q \in Seq(S) /\ Compatible(Q)
             /\ F # <<>> => Has(Q, x)
             /\ \A y : Has(R, y) => Has(Q, y)
             /\ \A key : key # x.key /\ HasNoKey(R, key) => HasNoKey(Q, key)
<1>1. a \in S /\ b \in S /\ c \in S
  OBVIOUS
<1> HIDE DEF S
<1>2. /\ a.key # b.key /\ a.key # c.key /\ b.key # c.key
      /\ a.key \in {<<key>> : key \in Keys} /\ b.key \in {<<key>> : key \in Keys}
      /\ c.key \in {<<key>> : key \in Keys}
  BY DEF Keys
<1>3. ASSUME NEW R \in Seq(S), Compatible(R), NEW x \in S, x.key \in {<<key>> : key \in Keys},
             HasNoKey(R, x.key), NEW F \in {<<>>, <<x>>}
      PROVE  Adds(F, x, R, F \o R)
  <2>1. CASE F = <<>>
    <3>1. F \o R = R
      BY <2>1
    <3> QED  BY <1>3, <2>1, <3>1
  <2>2. CASE F = <<x>>
    <3>1. PICK Q : Q = <<x>> \o R
      OBVIOUS
    <3>2. F \o R = Q
      BY <2>2, <3>1
    <3>3. Adds(F, x, R, Q)
      BY <1>3, <3>1, OneMore
    <3> HIDE DEF Adds
    <3> QED  BY <3>2, <3>3
  <2> QED  BY <2>1, <2>2
<1> DEFINE R3 == F3 \o <<>>  R2 == F2 \o R3  R1 == F1 \o R2
<1>4. /\ <<>> \in Seq(S) /\ Compatible(<<>>)
      /\ \A key : HasNoKey(<<>>, key)
  BY DEF Compatible, HasNoKey
<1>5. Adds(F3, c, <<>>, R3)
  <2> HIDE DEF Adds
  <2> QED  BY <1>1, <1>2, <1>3, <1>4
<1> HIDE DEF R3
<1>6. Adds(F2, b, R3, R2)
  <2>1. HasNoKey(R3, b.key) /\ R3 \in Seq(S) /\ Compatible(R3)
    BY <1>2, <1>4, <1>5
  <2> HIDE DEF Adds
  <2> QED  BY <1>1, <1>2, <1>3, <2>1
<1> HIDE DEF R2
<1>7. Adds(F1, a, R2, R1)
  <2>1. HasNoKey(R2, a.key) /\ R2 \in Seq(S) /\ Compatible(R2)
    BY <1>2, <1>4, <1>5, <1>6
  <2> HIDE DEF Adds
  <2> QED  BY <1>1, <1>2, <1>3, <2>1
<1>8. P = R1
  BY DEF R1, R2, R3
<1> HIDE DEF R1
<1>9. Len(R1) \in Nat
  BY <1>7
<1> QED  BY <1>5, <1>6, <1>7, <1>8, <1>9

\* Where the three names are in what SQLConnect writes.
Laid3(s, d, u, w, q1, q2) ==
  /\ IsPart(s, "DSN", d, 0, q1)
  /\ IsPart(s, "UID", u, q1, q2)
  /\ IsPart(s, "PWD", w, q2, Len(s))

LEMMA NamesAreLaid ==
  ASSUME NEW A, Marks \subseteq A, Keys \subseteq A, NEW d \in Seq(A) \cup {Null},
         NEW u \in Seq(A) \cup {Null}, NEW w \in Seq(A) \cup {Null}
  PROVE  LET s == PartOf("DSN", d) \o PartOf("UID", u) \o PartOf("PWD", w)
         IN  s \in Seq(A) /\ \E q1, q2 \in Nat : Laid3(s, d, u, w, q1, q2)
<1> DEFINE p1 == PartOf("DSN", d)  p2 == PartOf("UID", u)  p3 == PartOf("PWD", w)
           two == p1 \o p2  s == two \o p3
<1>1. ASSUME NEW key \in Keys, NEW v \in Seq(A) \cup {Null}
      PROVE  PartOf(key, v) \in Seq(A)
  <2>1. v # Null => Entry(key, v) \in Seq(A)
    BY EntryIs
  <2> QED  BY <2>1 DEF PartOf
<1>2. p1 \in Seq(A) /\ p2 \in Seq(A) /\ p3 \in Seq(A)
  BY <1>1 DEF Keys
<1> HIDE DEF p1, p2, p3
<1>3. /\ two \in Seq(A) /\ Len(two) = Len(p1) + Len(p2)
      /\ Holds(two, 0, p1) /\ Holds(two, Len(p1), p2)
  BY <1>2, HoldsParts, Zenon
<1> HIDE DEF two
<1>4. s \in Seq(A) /\ Len(s) = Len(two) + Len(p3) /\ Holds(s, 0, two) /\ Holds(s, Len(two), p3)
  BY <1>2, <1>3, HoldsParts, Zenon
<1> HIDE DEF s
<1>5. PICK q1 \in Nat, q2 \in Nat : q1 = 0 + Len(p1) /\ q2 = Len(two) /\ q2 = q1 + Len(p2)
  BY <1>2, <1>3
<1>6. Holds(s, 0 + 0, p1) /\ Holds(s, 0 + q1, p2)
  BY <1>2, <1>3, <1>4, <1>5, HoldsWithin
<1>7. Laid3(s, d, u, w, q1, q2)
  BY <1>4, <1>5, <1>6 DEF Laid3, IsPart, p1, p2, p3
<1> QED  BY <1>4, <1>7 DEF s, two, p1, p2, p3

\* What is read from what SQLConnect writes for three names.
AreRead(s, d, u, w) ==
  /\ DOMAIN Fields(Pairs(s)) \subseteq {<<key>> : key \in Keys}
  /\ d # Null => <<"DSN">> \in DOMAIN Fields(Pairs(s)) /\ Fields(Pairs(s))[<<"DSN">>] = d
  /\ u # Null => <<"UID">> \in DOMAIN Fields(Pairs(s)) /\ Fields(Pairs(s))[<<"UID">>] = u
  /\ w # Null => <<"PWD">> \in DOMAIN Fields(Pairs(s)) /\ Fields(Pairs(s))[<<"PWD">>] = w

LEMMA NamesAreRead ==
  ASSUME NEW A, Marks \subseteq A, Keys \subseteq A, NEW d \in Seq(A) \cup {Null},
         NEW u \in Seq(A) \cup {Null}, NEW w \in Seq(A) \cup {Null},
         NEW s \in Seq(A), NEW q1 \in Nat, NEW q2 \in Nat, Laid3(s, d, u, w, q1, q2)
  PROVE  AreRead(s, d, u, w)
<1>1. PICK f : ArePairs(s, f)
  BY PairsAreRecursive
<1>2. PICK L \in Nat : L = Len(s)
  OBVIOUS
<1>3. "DSN" \in Keys /\ "UID" \in Keys /\ "PWD" \in Keys
  BY DEF Keys
<1>4. NoBlankBehind(s, L)
  BY <1>2 DEF NoBlankBehind
<1>5. IsPart(s, "DSN", d, 0, q1) /\ IsPart(s, "UID", u, q1, q2) /\ IsPart(s, "PWD", w, q2, L)
  BY <1>2 DEF Laid3
<1>6. PartIsRead(s, f, "PWD", w, q2, L)
  BY <1>1, <1>3, <1>4, <1>5, PartRead
<1>7. PartIsRead(s, f, "UID", u, q1, q2)
  <2>1. NoBlankBehind(s, q2)
    BY <1>6 DEF PartIsRead
  <2> QED  BY <1>1, <1>3, <1>5, <2>1, PartRead
<1>8. /\ NoBlankBehind(s, 0) /\ f[1] = Found("DSN", d, q1 + 1) \o f[q1 + 1]
      /\ f[q1 + 1] = Found("UID", u, q2 + 1) \o f[q2 + 1]
      /\ f[q2 + 1] = Found("PWD", w, L + 1) \o f[L + 1]
      /\ f[L + 1] = <<>>
  <2>1. NoBlankBehind(s, q1)
    BY <1>7 DEF PartIsRead
  <2>2. PartIsRead(s, f, "DSN", d, 0, q1)
    BY <1>1, <1>3, <1>5, <2>1, PartRead
  <2>3. L + 1 \in 1 .. Len(s) + 1 /\ L + 1 > Len(s) /\ 0 + 1 = 1
    BY <1>2
  <2>4. f[L + 1] = PairsStep(s, f, L + 1)
    BY <1>1, <2>3 DEF ArePairs
  <2>5. f[L + 1] = <<>>
    BY <2>3, <2>4 DEF PairsStep
  <2>6. NoBlankBehind(s, 0) /\ f[0 + 1] = Found("DSN", d, q1 + 1) \o f[q1 + 1]
    BY <2>2 DEF PartIsRead
  <2> QED  BY <1>6, <1>7, <2>3, <2>5, <2>6, Zenon DEF PartIsRead
<1>9. Pairs(s) = f[1]
  <2>1. 1 \in 1 .. Len(s) + 1 /\ (1 = Len(s) + 1 \/ s[1] \notin Blanks)
    BY <1>2, <1>8 DEF NoBlankBehind
  <2>2. SkipAll(s, 1, Blanks) = 1
    BY <2>1, SkipIs
  <2> QED  BY <1>1, <2>2 DEF ArePairs
<1> DEFINE a == [ok |-> TRUE, key |-> <<"DSN">>, value |-> d, next |-> q1 + 1]
           b == [ok |-> TRUE, key |-> <<"UID">>, value |-> u, next |-> q2 + 1]
           c == [ok |-> TRUE, key |-> <<"PWD">>, value |-> w, next |-> L + 1]
           F1 == Found("DSN", d, q1 + 1)  F2 == Found("UID", u, q2 + 1)  F3 == Found("PWD", w, L + 1)
<1>10. /\ F1 = IF d = Null THEN <<>> ELSE <<a>>
       /\ F2 = IF u = Null THEN <<>> ELSE <<b>>
       /\ F3 = IF w = Null THEN <<>> ELSE <<c>>
  BY DEF Found
<1>11. /\ a.key = <<"DSN">> /\ b.key = <<"UID">> /\ c.key = <<"PWD">>
       /\ a.value = d /\ b.value = u /\ c.value = w
  OBVIOUS
<1>12. \A x : <<x>> # <<>>
  OBVIOUS
<1> HIDE DEF a, b, c, F1, F2, F3
<1>13. Pairs(s) = F1 \o (F2 \o (F3 \o <<>>))
  <2>1. f[1] = F1 \o f[q1 + 1] /\ f[q1 + 1] = F2 \o f[q2 + 1] /\ f[q2 + 1] = F3 \o f[L + 1]
    BY <1>8 DEF F1, F2, F3
  <2> QED  BY <1>8, <1>9, <2>1, Zenon
<1>14. /\ Compatible(Pairs(s)) /\ Len(Pairs(s)) \in Nat
       /\ d # Null => Has(Pairs(s), a)
       /\ u # Null => Has(Pairs(s), b)
       /\ w # Null => Has(Pairs(s), c)
  <2>1. F1 \in {<<>>, <<a>>} /\ F2 \in {<<>>, <<b>>} /\ F3 \in {<<>>, <<c>>}
    BY <1>10
  <2>2. /\ Compatible(Pairs(s)) /\ Len(Pairs(s)) \in Nat
        /\ F1 # <<>> => Has(Pairs(s), a)
        /\ F2 # <<>> => Has(Pairs(s), b)
        /\ F3 # <<>> => Has(Pairs(s), c)
    BY <1>11, <1>13, <2>1, ThreeParts
  <2> QED  BY <1>10, <1>12, <2>2
<1>15. \A x : Has(Pairs(s), x) => x.key \in DOMAIN Fields(Pairs(s)) /\ Fields(Pairs(s))[x.key] = x.value
  BY <1>14, FieldsAreGathered, GatheredHas DEF Has
<1>16. DOMAIN Fields(Pairs(s)) \subseteq {<<key>> : key \in Keys}
  <2>1. Fields(Pairs(s)) = Gathered(Pairs(s), Len(Pairs(s)))
    BY <1>14, FieldsAreGathered
  <2>2. DOMAIN Fields(Pairs(s)) = {Pairs(s)[i].key : i \in 1 .. Len(Pairs(s))}
    BY <2>1 DEF Gathered
  <2> QED  BY <1>14, <2>2 DEF Compatible
<1> QED  BY <1>11, <1>14, <1>15, <1>16 DEF AreRead

\* All three names are read back, whatever symbols they are made of.
LEMMA NamesAreReadBack ==
  ASSUME NEW A, NEW d \in Seq(A) \cup {Null}, NEW u \in Seq(A) \cup {Null},
         NEW w \in Seq(A) \cup {Null}
  PROVE  AreRead(PartOf("DSN", d) \o PartOf("UID", u) \o PartOf("PWD", w), d, u, w)
<1> DEFINE all == A \cup Marks \cup Keys
           s == PartOf("DSN", d) \o PartOf("UID", u) \o PartOf("PWD", w)
<1>1. Marks \subseteq all /\ Keys \subseteq all
  OBVIOUS
<1>2. /\ d \in Seq(all) \cup {Null} /\ u \in Seq(all) \cup {Null}
      /\ w \in Seq(all) \cup {Null}
  OBVIOUS
<1> HIDE DEF all
<1>3. PICK q1 \in Nat, q2 \in Nat : s \in Seq(all) /\ Laid3(s, d, u, w, q1, q2)
  BY <1>1, <1>2, NamesAreLaid
<1> HIDE DEF s
<1>4. AreRead(s, d, u, w)
  BY <1>1, <1>2, <1>3, NamesAreRead
<1> QED  BY <1>4 DEF s

-----------------------------------------------------------------------------
(***************************************************************************)
(* The configuration's names                                               *)
(***************************************************************************)

\* What the definitions' values are taken from.
FieldNames == {FieldOf[k] : k \in DOMAIN FieldOf} \cup {"connection_timeout"}

LEMMA NamesAre ==
  FieldNames = {"client_name", "compression", "database", "dsn", "port", "proto", "password",
                "server", "sslmode", "timeout", "username", "url", "connection_timeout"}
BY DEF FieldNames, FieldOf

LEMMA KeysAre ==
  /\ DOMAIN KeyOrder = 1 .. 13
  /\ KeyOrder[1] = "ClientName" /\ KeyOrder[2] = "Compression" /\ KeyOrder[3] = "Database"
  /\ KeyOrder[4] = "DSN" /\ KeyOrder[5] = "Port" /\ KeyOrder[6] = "Proto" /\ KeyOrder[7] = "PWD"
  /\ KeyOrder[8] = "Server" /\ KeyOrder[9] = "SSLMode" /\ KeyOrder[10] = "Timeout"
  /\ KeyOrder[11] = "UID" /\ KeyOrder[12] = "Url" /\ KeyOrder[13] = "Username"
BY DEF KeyOrder

LEMMA FieldsAre ==
  /\ FieldOf["ClientName"] = "client_name" /\ FieldOf["Compression"] = "compression"
  /\ FieldOf["Database"] = "database" /\ FieldOf["DSN"] = "dsn" /\ FieldOf["Port"] = "port"
  /\ FieldOf["Proto"] = "proto" /\ FieldOf["PWD"] = "password" /\ FieldOf["Server"] = "server"
  /\ FieldOf["SSLMode"] = "sslmode" /\ FieldOf["Timeout"] = "timeout"
  /\ FieldOf["UID"] = "username" /\ FieldOf["Url"] = "url" /\ FieldOf["Username"] = "username"
BY DEF FieldOf

LEMMA OneKeyEach ==
  ASSUME NEW j \in 1 .. 13, NEW k \in 1 .. 13, FieldOf[KeyOrder[j]] = FieldOf[KeyOrder[k]], j # k
  PROVE  FieldOf[KeyOrder[k]] = "username"
BY KeysAre, FieldsAre

\* What StoreAll is made of.
GivenKeys(fields) == {k \in DOMAIN KeyOrder : <<KeyOrder[k]>> \in DOMAIN fields}
BadKeys(fields) == {k \in GivenKeys(fields) : ~Accepts(KeyOrder[k], fields[<<KeyOrder[k]>>])}
SettingKeys(f, fields) ==
  {k \in GivenKeys(fields) : FieldOf[KeyOrder[k]] = f /\ \A b \in BadKeys(fields) : k < b}
ValueOf(k, fields) == Stored(KeyOrder[k], fields[<<KeyOrder[k]>>])

LEMMA StoreAllIs ==
  ASSUME NEW c, NEW fields
  PROVE  /\ StoreAll(c, fields).ok <=> BadKeys(fields) = {}
         /\ DOMAIN StoreAll(c, fields).cfg = DOMAIN c
         /\ \A f \in DOMAIN c :
              StoreAll(c, fields).cfg[f] = IF SettingKeys(f, fields) = {} THEN c[f]
                                           ELSE ValueOf(Max(SettingKeys(f, fields)), fields)
BY DEF StoreAll, GivenKeys, BadKeys, SettingKeys, ValueOf

LEMMA MaxOfOne == ASSUME NEW k \in Nat PROVE Max({k}) = k
BY DEF Max

\* A field that one key sets is set by it, if the fields have the key.
LEMMA StoredByKey ==
  ASSUME NEW c, NEW fields, StoreAll(c, fields).ok, NEW k \in 1 .. 13,
         FieldOf[KeyOrder[k]] # "username", FieldOf[KeyOrder[k]] \in DOMAIN c
  PROVE  StoreAll(c, fields).cfg[FieldOf[KeyOrder[k]]]
           = IF <<KeyOrder[k]>> \in DOMAIN fields THEN ValueOf(k, fields)
             ELSE c[FieldOf[KeyOrder[k]]]
<1> DEFINE f == FieldOf[KeyOrder[k]]  set == SettingKeys(f, fields)
<1>1. BadKeys(fields) = {}
  BY StoreAllIs
<1>2. set = {j \in 1 .. 13 : j = k /\ <<KeyOrder[j]>> \in DOMAIN fields}
  BY <1>1, OneKeyEach, KeysAre DEF SettingKeys, GivenKeys
<1>3. StoreAll(c, fields).cfg[f] = IF set = {} THEN c[f] ELSE ValueOf(Max(set), fields)
  BY StoreAllIs
<1> HIDE DEF set, f
<1>4. CASE <<KeyOrder[k]>> \in DOMAIN fields
  <2>1. set = {k}
    BY <1>2, <1>4
  <2> QED  BY <1>3, <1>4, <2>1, MaxOfOne DEF f
<1>5. CASE <<KeyOrder[k]>> \notin DOMAIN fields
  BY <1>2, <1>3, <1>5 DEF f
<1> QED  BY <1>4, <1>5

\* The user name is set by the key Username, else by UID.
LEMMA StoredUser ==
  ASSUME NEW c, NEW fields, StoreAll(c, fields).ok, "username" \in DOMAIN c
  PROVE  StoreAll(c, fields).cfg["username"]
           = IF <<"Username">> \in DOMAIN fields THEN fields[<<"Username">>]
             ELSE IF <<"UID">> \in DOMAIN fields THEN fields[<<"UID">>]
             ELSE c["username"]
<1> DEFINE set == SettingKeys("username", fields)
<1>1. BadKeys(fields) = {}
  BY StoreAllIs
<1>2. set = {j \in {11, 13} : <<KeyOrder[j]>> \in DOMAIN fields}
  BY <1>1, FieldsAre, KeysAre DEF SettingKeys, GivenKeys
<1>3. StoreAll(c, fields).cfg["username"] = IF set = {} THEN c["username"] ELSE ValueOf(Max(set), fields)
  BY StoreAllIs
<1>4. ValueOf(11, fields) = fields[<<"UID">>] /\ ValueOf(13, fields) = fields[<<"Username">>]
  BY KeysAre DEF ValueOf, Stored
<1> HIDE DEF set
<1>5. CASE <<"Username">> \in DOMAIN fields
  <2>1. 13 \in set /\ \A j \in set : j \in {11, 13}
    BY <1>2, <1>5, KeysAre
  <2>2. Max(set) = 13
    BY <2>1 DEF Max
  <2> QED  BY <1>3, <1>4, <1>5, <2>1, <2>2
<1>6. CASE <<"Username">> \notin DOMAIN fields /\ <<"UID">> \in DOMAIN fields
  <2>1. set = {11}
    BY <1>2, <1>6, KeysAre
  <2> QED  BY <1>3, <1>4, <1>6, <2>1, MaxOfOne
<1>7. CASE <<"Username">> \notin DOMAIN fields /\ <<"UID">> \notin DOMAIN fields
  BY <1>2, <1>3, <1>7, KeysAre
<1> QED  BY <1>5, <1>6, <1>7

-----------------------------------------------------------------------------
(***************************************************************************)
(* What one connect configures                                             *)
(***************************************************************************)

Hidden(cs, dsn)     == [k \in DOMAIN dsn \ DOMAIN cs |-> dsn[k]]
First(c, cs, dsn)   == StoreAll(Reset(c), Hidden(cs, dsn))
Both(c, cs, dsn)    == StoreAll(First(c, cs, dsn).cfg, cs)
Configure(c, cs, dsn) == Completed(Merged(c, cs, dsn))

LEMMA ConfigureIs ==
  ASSUME NEW c, NEW cs, NEW dsn, Configure(c, cs, dsn).ok
  PROVE  /\ First(c, cs, dsn).ok /\ Both(c, cs, dsn).ok
         /\ Parses(Both(c, cs, dsn).cfg.url)
         /\ Configure(c, cs, dsn).cfg = Deduced(FromUrl(Both(c, cs, dsn).cfg))
<1> DEFINE all == Merged(c, cs, dsn)
<1>1. Configure(c, cs, dsn) = Completed(all)
  BY DEF Configure
<1>2. all = [ok |-> all.ok, cfg |-> all.cfg]
  BY DEF Merged, First, Both, Hidden, StoreAll
<1> HIDE DEF all
<1>3. all.ok /\ Parses(all.cfg.url) /\ Completed(all).cfg = Deduced(FromUrl(all.cfg))
  BY <1>1, <1>2 DEF Completed
<1> QED  BY <1>1, <1>3 DEF all, Merged, First, Both, Hidden

LEMMA ResetIs ==
  ASSUME NEW c, DOMAIN c = FieldNames
  PROVE  /\ DOMAIN Reset(c) = FieldNames
         /\ \A f \in FieldNames : Reset(c)[f] = IF f \in Kept THEN c[f] ELSE Empty
BY DEF Reset

\* The connection string, then the data source, then what was before.
LEMMA BothByKey ==
  ASSUME NEW c, DOMAIN c = FieldNames, NEW cs, NEW dsn, Configure(c, cs, dsn).ok,
         NEW k \in 1 .. 13, FieldOf[KeyOrder[k]] # "username"
  PROVE  Both(c, cs, dsn).cfg[FieldOf[KeyOrder[k]]]
           = IF <<KeyOrder[k]>> \in DOMAIN cs THEN ValueOf(k, cs)
             ELSE IF <<KeyOrder[k]>> \in DOMAIN dsn THEN ValueOf(k, dsn)
             ELSE Reset(c)[FieldOf[KeyOrder[k]]]
<1> DEFINE f == FieldOf[KeyOrder[k]]  key == <<KeyOrder[k]>>  hidden == Hidden(cs, dsn)
<1>1. f \in FieldNames
  BY KeysAre, FieldsAre, NamesAre
<1>2. First(c, cs, dsn).ok /\ Both(c, cs, dsn).ok
  BY ConfigureIs
<1>3. DOMAIN First(c, cs, dsn).cfg = FieldNames /\ DOMAIN Reset(c) = FieldNames
  BY ResetIs, StoreAllIs DEF First
<1>4. First(c, cs, dsn).cfg[f] = IF key \in DOMAIN hidden THEN ValueOf(k, hidden) ELSE Reset(c)[f]
  BY <1>1, <1>2, <1>3, StoredByKey DEF First
<1>5. Both(c, cs, dsn).cfg[f] = IF key \in DOMAIN cs THEN ValueOf(k, cs) ELSE First(c, cs, dsn).cfg[f]
  BY <1>1, <1>2, <1>3, StoredByKey DEF Both
<1>6. key \notin DOMAIN cs => /\ key \in DOMAIN hidden <=> key \in DOMAIN dsn
                              /\ key \in DOMAIN dsn => ValueOf(k, hidden) = ValueOf(k, dsn)
  BY DEF Hidden, ValueOf
<1> QED  BY <1>4, <1>5, <1>6

LEMMA BothUser ==
  ASSUME NEW c, DOMAIN c = FieldNames, NEW cs, NEW dsn, Configure(c, cs, dsn).ok, NEW given
  PROVE  Both(c, cs, dsn).cfg["username"] = GivenUser([cs |-> cs, dsn |-> dsn, given |-> given])
<1> DEFINE hidden == Hidden(cs, dsn)
<1>1. First(c, cs, dsn).ok /\ Both(c, cs, dsn).ok /\ "username" \in FieldNames
  BY ConfigureIs, NamesAre
<1>2. DOMAIN First(c, cs, dsn).cfg = FieldNames /\ DOMAIN Reset(c) = FieldNames
  BY ResetIs, StoreAllIs DEF First
<1>3. First(c, cs, dsn).cfg["username"]
        = IF <<"Username">> \in DOMAIN hidden THEN hidden[<<"Username">>]
          ELSE IF <<"UID">> \in DOMAIN hidden THEN hidden[<<"UID">>] ELSE Reset(c)["username"]
  BY <1>1, <1>2, StoredUser DEF First
<1>4. Both(c, cs, dsn).cfg["username"]
        = IF <<"Username">> \in DOMAIN cs THEN cs[<<"Username">>]
          ELSE IF <<"UID">> \in DOMAIN cs THEN cs[<<"UID">>] ELSE First(c, cs, dsn).cfg["username"]
  BY <1>1, <1>2, StoredUser DEF Both
<1>5. Reset(c)["username"] = Empty
  BY ResetIs, <1>1 DEF Kept
<1>6. \A k : k \notin DOMAIN cs => /\ k \in DOMAIN hidden <=> k \in DOMAIN dsn
                                   /\ k \in DOMAIN dsn => hidden[k] = dsn[k]
  BY DEF Hidden
<1> HIDE DEF hidden
<1> QED  BY <1>3, <1>4, <1>5, <1>6 DEF GivenUser, Value

\* Every field that a connect resets is what the connect says, or empty.
LEMMA BothAre ==
  ASSUME NEW c, DOMAIN c = FieldNames, NEW cs, NEW dsn, Configure(c, cs, dsn).ok, NEW given
  PROVE  LET b == Both(c, cs, dsn).cfg
             a == [cs |-> cs, dsn |-> dsn, given |-> given]
         IN  /\ DOMAIN b = FieldNames
             /\ b.database = Given(a, "Database") /\ b.dsn = Given(a, "DSN")
             /\ b.port = Given(a, "Port") /\ b.proto = Given(a, "Proto")
             /\ b.password = Given(a, "PWD") /\ b.server = Given(a, "Server")
             /\ b.sslmode = Given(a, "SSLMode") /\ b.timeout = Given(a, "Timeout")
             /\ b.url = Given(a, "Url") /\ b.username = GivenUser(a)
             /\ b.connection_timeout = Empty
<1> DEFINE b == Both(c, cs, dsn).cfg
           a == [cs |-> cs, dsn |-> dsn, given |-> given]
<1>1. ASSUME NEW k \in {3, 4, 5, 6, 7, 8, 9, 10, 12}
      PROVE  b[FieldOf[KeyOrder[k]]] = Given(a, KeyOrder[k])
  <2>1. k \in 1 .. 13 /\ FieldOf[KeyOrder[k]] # "username" /\ FieldOf[KeyOrder[k]] \notin Kept
        /\ FieldOf[KeyOrder[k]] \in FieldNames
    BY KeysAre, FieldsAre, NamesAre DEF Kept
  <2>2. \A fields : ValueOf(k, fields) = fields[<<KeyOrder[k]>>]
    BY KeysAre DEF ValueOf, Stored
  <2>3. Reset(c)[FieldOf[KeyOrder[k]]] = Empty
    BY <2>1, ResetIs
  <2> QED  BY <2>1, <2>2, <2>3, BothByKey DEF Given, Value
<1>2. DOMAIN b = FieldNames
  BY ResetIs, StoreAllIs DEF First, Both
<1>3. b["connection_timeout"] = Empty
  <2>1. \A fields : SettingKeys("connection_timeout", fields) = {}
    BY KeysAre, FieldsAre DEF SettingKeys, GivenKeys
  <2>2. "connection_timeout" \in FieldNames /\ "connection_timeout" \notin Kept
    BY NamesAre DEF Kept
  <2> QED  BY <2>1, <2>2, ResetIs, StoreAllIs DEF First, Both
<1>4. b["username"] = GivenUser(a)
  BY BothUser
<1> HIDE DEF a, b
<1>5. /\ b["database"] = Given(a, "Database") /\ b["dsn"] = Given(a, "DSN")
      /\ b["port"] = Given(a, "Port") /\ b["proto"] = Given(a, "Proto")
      /\ b["password"] = Given(a, "PWD") /\ b["server"] = Given(a, "Server")
      /\ b["sslmode"] = Given(a, "SSLMode") /\ b["timeout"] = Given(a, "Timeout")
      /\ b["url"] = Given(a, "Url")
  BY <1>1, KeysAre, FieldsAre
<1> QED  BY <1>2, <1>3, <1>4, <1>5 DEF a, b

\* The fields that a connect keeps, if it does not name them.
LEMMA KeptAre ==
  ASSUME NEW c, DOMAIN c = FieldNames, NEW cs, NEW dsn, Configure(c, cs, dsn).ok, NEW given
  PROVE  LET b == Both(c, cs, dsn).cfg
             a == [cs |-> cs, dsn |-> dsn, given |-> given]
         IN  /\ b.client_name = IF <<"ClientName">> \in DOMAIN cs \cup DOMAIN dsn
                                THEN Given(a, "ClientName") ELSE c.client_name
             /\ b.compression = <<"1">> <=>
                  IF <<"Compression">> \in DOMAIN cs \cup DOMAIN dsn
                    THEN Given(a, "Compression") = <<"1">> ELSE c.compression = <<"1">>
<1> DEFINE b == Both(c, cs, dsn).cfg
           a == [cs |-> cs, dsn |-> dsn, given |-> given]
<1>1. /\ Reset(c)["client_name"] = c["client_name"]
      /\ Reset(c)["compression"] = c["compression"]
  BY ResetIs, NamesAre DEF Kept
<1>2. b["client_name"] = IF <<"ClientName">> \in DOMAIN cs THEN cs[<<"ClientName">>]
                         ELSE IF <<"ClientName">> \in DOMAIN dsn THEN dsn[<<"ClientName">>]
                         ELSE c["client_name"]
  <2>1. \A fields : ValueOf(1, fields) = fields[<<"ClientName">>]
    BY KeysAre DEF ValueOf, Stored
  <2>2. FieldOf[KeyOrder[1]] = "client_name" /\ KeyOrder[1] = "ClientName"
    BY KeysAre, FieldsAre
  <2> HIDE DEF b
  <2> QED  BY <1>1, <2>1, <2>2, BothByKey DEF b
<1>3. b["compression"] = IF <<"Compression">> \in DOMAIN cs THEN ValueOf(2, cs)
                         ELSE IF <<"Compression">> \in DOMAIN dsn THEN ValueOf(2, dsn)
                         ELSE c["compression"]
  <2>2. FieldOf[KeyOrder[2]] = "compression" /\ KeyOrder[2] = "Compression"
    BY KeysAre, FieldsAre
  <2> QED  BY <1>1, <2>2, BothByKey
<1>4. \A fields : ValueOf(2, fields) = <<"1">> <=> fields[<<"Compression">>] = <<"1">>
  BY KeysAre DEF ValueOf, Stored, Empty
<1> HIDE DEF b
<1> QED  BY <1>2, <1>3, <1>4 DEF b, Given, Value

\* The first of two or three values is what Or gives, one after the other.
LEMMA FirstOfTwo == ASSUME NEW x, NEW y PROVE FirstGiven(<<x, y>>) = Or(x, y)
<1> DEFINE set == {i \in DOMAIN <<x, y>> : <<x, y>>[i] # Empty}
<1>1. FirstGiven(<<x, y>>) = IF set # {} THEN <<x, y>>[Min(set)] ELSE Empty
  BY Zenon DEF FirstGiven
<1>2. /\ set \subseteq {1, 2}
      /\ 1 \in set <=> x # Empty
      /\ 2 \in set <=> y # Empty
  OBVIOUS
<1> HIDE DEF set
<1>3. CASE x # Empty
  <2>1. 1 \in set /\ set \subseteq Nat /\ \A n \in set : 1 <= n
    BY <1>2, <1>3
  <2>2. Min(set) = 1
    BY <2>1, MinOf
  <2> QED  BY <1>1, <1>3, <2>1, <2>2 DEF Or
<1>4. CASE x = Empty /\ y # Empty
  <2>1. 2 \in set /\ set \subseteq Nat /\ \A n \in set : 2 <= n
    BY <1>2, <1>4
  <2>2. Min(set) = 2
    BY <2>1, MinOf
  <2> QED  BY <1>1, <1>4, <2>1, <2>2 DEF Or
<1>5. CASE x = Empty /\ y = Empty
  BY <1>1, <1>2, <1>5 DEF Or
<1> QED  BY <1>3, <1>4, <1>5

LEMMA FirstOfThree == ASSUME NEW x, NEW y, NEW z PROVE FirstGiven(<<x, y, z>>) = Or(x, Or(y, z))
<1> DEFINE set == {i \in DOMAIN <<x, y, z>> : <<x, y, z>>[i] # Empty}
<1>1. FirstGiven(<<x, y, z>>) = IF set # {} THEN <<x, y, z>>[Min(set)] ELSE Empty
  BY Zenon DEF FirstGiven
<1>2. /\ set \subseteq {1, 2, 3}
      /\ 1 \in set <=> x # Empty
      /\ 2 \in set <=> y # Empty
      /\ 3 \in set <=> z # Empty
  OBVIOUS
<1> HIDE DEF set
<1>3. CASE x # Empty
  <2>1. 1 \in set /\ set \subseteq Nat /\ \A n \in set : 1 <= n
    BY <1>2, <1>3
  <2>2. Min(set) = 1
    BY <2>1, MinOf
  <2> QED  BY <1>1, <1>3, <2>1, <2>2 DEF Or
<1>4. CASE x = Empty /\ y # Empty
  <2>1. 2 \in set /\ set \subseteq Nat /\ \A n \in set : 2 <= n
    BY <1>2, <1>4
  <2>2. Min(set) = 2
    BY <2>1, MinOf
  <2> QED  BY <1>1, <1>4, <2>1, <2>2 DEF Or
<1>5. CASE x = Empty /\ y = Empty /\ z # Empty
  <2>1. 3 \in set /\ set \subseteq Nat /\ \A n \in set : 3 <= n
    BY <1>2, <1>5
  <2>2. Min(set) = 3
    BY <2>1, MinOf
  <2> QED  BY <1>1, <1>5, <2>1, <2>2 DEF Or
<1>6. CASE x = Empty /\ y = Empty /\ z = Empty
  BY <1>1, <1>2, <1>6 DEF Or
<1> QED  BY <1>3, <1>4, <1>5, <1>6

\* What the URL and the defaults add.
LEMMA DeducedIs ==
  ASSUME NEW c, DOMAIN c = FieldNames
  PROVE  LET d == Deduced(c)
             proto == Or(c.proto, IF c.sslmode # Empty \/ c.port \in {<<"443">>, <<"8443">>}
                                  THEN <<"https">> ELSE <<"http">>)
         IN  /\ DOMAIN d = FieldNames
             /\ d.dsn = Or(c.dsn, <<"default">>)
             /\ d.username = Or(c.username, <<"default">>) /\ d.password = c.password
             /\ d.timeout = Or(c.timeout, <<"30">>)
             /\ d.connection_timeout = Or(c.connection_timeout, d.timeout)
             /\ d.url = c.url /\ d.client_name = c.client_name /\ d.compression = c.compression
             /\ d.proto = proto /\ d.server = Or(c.server, <<"localhost">>)
             /\ d.port = Or(c.port, IF proto = <<"https">> THEN <<"8443">> ELSE <<"8123">>)
             /\ d.database = Or(c.database, <<"default">>)
BY NamesAre DEF Deduced

LEMMA FromUrlIs ==
  ASSUME NEW c, DOMAIN c = FieldNames
  PROVE  LET d == FromUrl(c)
             u == UrlParts[c.url]
             proto == Or(c.proto, u.scheme)
             port  == Or(u.port, WellKnownPort(u.scheme))
         IN  /\ DOMAIN d = FieldNames
             /\ d.timeout = c.timeout /\ d.connection_timeout = c.connection_timeout
             /\ d.dsn = c.dsn /\ d.url = c.url /\ d.client_name = c.client_name
             /\ d.compression = c.compression /\ d.sslmode = c.sslmode
             /\ c.url = Empty => d = c
             /\ c.url # Empty =>
                  /\ d.proto = proto /\ d.server = Or(c.server, u.host)
                  /\ d.username = IF u.password # Empty THEN Or(c.username, u.user) ELSE c.username
                  /\ d.password = IF u.password # Empty THEN Or(c.password, u.password) ELSE c.password
                  /\ d.port = Or(c.port, IF port # WellKnownPort(proto) THEN port ELSE Empty)
                  /\ d.database = Or(u.database, c.database)
BY NamesAre DEF FromUrl

\* Where a connection goes, from what was asked alone; what Expected leaves open is here
\* as the code has it.
Reached(a) ==
  LET u      == UrlOf(a)
      named  == Or(Given(a, "Proto"), u.scheme)
      own    == Or(u.port, WellKnownPort(u.scheme))
      port   == Or(Given(a, "Port"), IF u = NoUrl \/ own = WellKnownPort(named) THEN Empty ELSE own)
      secure == Given(a, "SSLMode") # Empty \/ port \in {<<"443">>, <<"8443">>}
      proto  == Or(named, IF secure THEN <<"https">> ELSE <<"http">>)
  IN  [scheme   |-> proto,
       host     |-> Or(Given(a, "Server"), Or(u.host, <<"localhost">>)),
       port     |-> Or(port, IF proto = <<"https">> THEN <<"8443">> ELSE <<"8123">>),
       database |-> Or(u.database, Or(Given(a, "Database"), <<"default">>))]

ReachedUser(a) ==
  Or(GivenUser(a), Or(IF UrlOf(a).password = Empty THEN Empty ELSE UrlOf(a).user, <<"default">>))

SchemeIsKnown(a) == UrlOf(a) = NoUrl \/ UrlOf(a).scheme # Empty

\* Expected, without FirstGiven.
LEMMA ExpectedIs ==
  ASSUME NEW a
  PROVE  LET u      == UrlOf(a)
             secure == Given(a, "SSLMode") # Empty \/ Given(a, "Port") \in {<<"443">>, <<"8443">>}
             scheme == Or(Given(a, "Proto"), Or(u.scheme, IF secure THEN <<"https">> ELSE <<"http">>))
         IN  /\ Expected(a).scheme = scheme
             /\ Expected(a).host = Or(Given(a, "Server"), Or(u.host, <<"localhost">>))
             /\ Expected(a).port = Or(Given(a, "Port"), Or(u.port,
                                     IF scheme = <<"https">> THEN <<"8443">> ELSE <<"8123">>))
             /\ Expected(a).database = Or(Given(a, "Database"), Or(u.database, <<"default">>))
             /\ Expected(a).username = Or(GivenUser(a), Or(u.user, <<"default">>))
<1> DEFINE u      == UrlOf(a)
           secure == Given(a, "SSLMode") # Empty \/ Given(a, "Port") \in {<<"443">>, <<"8443">>}
           scheme == Or(Given(a, "Proto"), Or(u.scheme, IF secure THEN <<"https">> ELSE <<"http">>))
           usual  == IF scheme = <<"https">> THEN <<"8443">> ELSE <<"8123">>
<1> HIDE DEF u, secure
<1>1. FirstGiven(<<Given(a, "Proto"), u.scheme, IF secure THEN <<"https">> ELSE <<"http">> >>) = scheme
  BY FirstOfThree
<1> HIDE DEF scheme
<1>2. /\ FirstGiven(<<Given(a, "Server"), u.host, <<"localhost">> >>)
           = Or(Given(a, "Server"), Or(u.host, <<"localhost">>))
      /\ FirstGiven(<<Given(a, "Port"), u.port, usual>>) = Or(Given(a, "Port"), Or(u.port, usual))
      /\ FirstGiven(<<Given(a, "Database"), u.database, <<"default">> >>)
           = Or(Given(a, "Database"), Or(u.database, <<"default">>))
      /\ FirstGiven(<<GivenUser(a), u.user, <<"default">> >>)
           = Or(GivenUser(a), Or(u.user, <<"default">>))
  BY FirstOfThree
<1>3. Expected(a) =
        [scheme   |-> scheme,
         host     |-> Or(Given(a, "Server"), Or(u.host, <<"localhost">>)),
         port     |-> Or(Given(a, "Port"), Or(u.port, usual)),
         database |-> Or(Given(a, "Database"), Or(u.database, <<"default">>)),
         username |-> Or(GivenUser(a), Or(u.user, <<"default">>))]
  BY <1>1, <1>2, Zenon DEF Expected, u, secure, usual
<1> QED  BY <1>3 DEF scheme, secure, u

\* The code goes where it is expected to, as far as anything is expected.
LEMMA ReachedIsExpected ==
  ASSUME NEW a, SchemeIsKnown(a)
  PROVE  /\ Reached(a).scheme = Expected(a).scheme
         /\ Reached(a).host = Expected(a).host
         /\ PortIsSeen(a) => Reached(a).port = Expected(a).port
         /\ OneDatabase(a) => Reached(a).database = Expected(a).database
         /\ UserIsSeen(a) => ReachedUser(a) = Expected(a).username
<1> DEFINE u == UrlOf(a)  proto == Given(a, "Proto")  port == Given(a, "Port")
           seen(p) == IF u = NoUrl \/ Or(u.port, WellKnownPort(u.scheme)) = WellKnownPort(p)
                        THEN Empty ELSE Or(u.port, WellKnownPort(u.scheme))
<1>1. Reached(a).scheme = Expected(a).scheme
  <2>1. CASE u = NoUrl
    BY <2>1, ExpectedIs DEF Reached, Or, NoUrl
  <2>2. CASE u.scheme # Empty
    BY <2>2, ExpectedIs DEF Reached, Or
  <2> QED  BY <2>1, <2>2 DEF SchemeIsKnown
<1>2. ASSUME PortIsSeen(a) PROVE Reached(a).port = Expected(a).port
  <2> DEFINE scheme == Expected(a).scheme
             usual  == IF scheme = <<"https">> THEN <<"8443">> ELSE <<"8123">>
  <2>1. Expected(a).port = Or(port, Or(u.port, usual))
    BY ExpectedIs
  <2>2. Reached(a).port = Or(Or(port, seen(Or(proto, u.scheme))), usual)
    BY <1>1 DEF Reached
  <2>3. u # NoUrl => Or(proto, u.scheme) = scheme
    BY <1>1, ExpectedIs DEF SchemeIsKnown, Or
  <2>4. port # Empty \/ u = NoUrl \/ (u.port = Empty /\ u.scheme = scheme)
          \/ (u.port # Empty /\ u.port # WellKnownPort(scheme))
    BY <1>2 DEF PortIsSeen
  <2> HIDE DEF scheme, usual, u, port, proto
  <2>5. CASE port # Empty
    BY <2>1, <2>2, <2>5 DEF Or
  <2>6. CASE port = Empty /\ u = NoUrl
    BY <2>1, <2>2, <2>6 DEF Or, NoUrl
  <2>7. CASE port = Empty /\ u # NoUrl
    BY <2>1, <2>2, <2>3, <2>4, <2>7 DEF Or
  <2> QED  BY <2>5, <2>6, <2>7
<1>3. Reached(a).host = Expected(a).host
  BY ExpectedIs DEF Reached
<1>4. OneDatabase(a) => Reached(a).database = Expected(a).database
  BY ExpectedIs DEF Reached, OneDatabase, Or
<1>5. UserIsSeen(a) => ReachedUser(a) = Expected(a).username
  BY ExpectedIs DEF ReachedUser, UserIsSeen, Or
<1> QED  BY <1>1, <1>2, <1>3, <1>4, <1>5

\* What a connect configures, for all of what was said before.
LEMMA ConfiguredIs ==
  ASSUME NEW c, DOMAIN c = FieldNames, NEW cs, NEW dsn, Configure(c, cs, dsn).ok, NEW given
  PROVE  LET d == Configure(c, cs, dsn).cfg
             a == [cs |-> cs, dsn |-> dsn, given |-> given]
         IN  /\ DOMAIN d = FieldNames
             /\ Uri(d) = Reached(a) /\ d.username = ReachedUser(a) /\ SchemeIsKnown(a)
             /\ d.timeout = Or(Given(a, "Timeout"), <<"30">>)
             /\ d.connection_timeout = d.timeout
             /\ d.dsn = Or(Given(a, "DSN"), <<"default">>)
             /\ Given(a, "PWD") # Empty => d.password = Given(a, "PWD")
<1> DEFINE b == Both(c, cs, dsn).cfg
           a == [cs |-> cs, dsn |-> dsn, given |-> given]
           d == Configure(c, cs, dsn).cfg
           g == FromUrl(b)
           u == UrlOf(a)
<1>1. d = Deduced(g)
  BY ConfigureIs
<1>2. /\ DOMAIN b = FieldNames
      /\ b.database = Given(a, "Database")
      /\ b.port = Given(a, "Port") /\ b.proto = Given(a, "Proto")
      /\ b.server = Given(a, "Server")
      /\ b.sslmode = Given(a, "SSLMode") /\ b.timeout = Given(a, "Timeout")
      /\ b.url = Given(a, "Url") /\ b.username = GivenUser(a)
      /\ b.connection_timeout = Empty
      /\ b.dsn = Given(a, "DSN") /\ b.password = Given(a, "PWD")
  BY BothAre
<1> HIDE DEF b, a, d
<1>3. /\ DOMAIN g = FieldNames /\ g.timeout = b.timeout /\ g.connection_timeout = Empty
      /\ g.url = b.url /\ g.sslmode = b.sslmode
  BY <1>2, FromUrlIs
<1>4. /\ g.proto = Or(b.proto, u.scheme) /\ g.server = Or(b.server, u.host)
      /\ g.username = Or(b.username, IF u.password = Empty THEN Empty ELSE u.user)
      /\ g.port = LET own == Or(u.port, WellKnownPort(u.scheme))
                  IN  Or(b.port, IF u = NoUrl \/ own = WellKnownPort(g.proto) THEN Empty ELSE own)
      /\ g.database = Or(u.database, b.database)
  <2>1. CASE b.url = Empty
    <3>1. g = b /\ u = NoUrl
      BY <1>2, <2>1, FromUrlIs DEF UrlOf
    <3> QED  BY <3>1 DEF NoUrl, Or
  <2>2. CASE b.url # Empty
    <3>1. u = UrlParts[b.url] /\ b.url \in DOMAIN UrlParts
      BY <1>2, <2>2, ConfigureIs DEF UrlOf, Parses, b
    <3>2. u # NoUrl
      BY <3>1, UrlPartsAssumption DEF NoUrl, Empty
    <3> HIDE DEF g, u
    <3> QED  BY <1>2, <2>2, <3>1, <3>2, FromUrlIs DEF Or, g
  <2> QED  BY <2>1, <2>2
<1>12. g.dsn = b.dsn /\ (b.password # Empty => g.password = b.password)
  BY <1>2, FromUrlIs DEF Or
<1> HIDE DEF g, u
<1>5. /\ DOMAIN d = FieldNames
      /\ d.username = Or(g.username, <<"default">>) /\ d.timeout = Or(g.timeout, <<"30">>)
      /\ d.connection_timeout = Or(g.connection_timeout, d.timeout)
      /\ d.url = g.url /\ d.server = Or(g.server, <<"localhost">>)
      /\ d.database = Or(g.database, <<"default">>)
      /\ d.proto = Or(g.proto, IF g.sslmode # Empty \/ g.port \in {<<"443">>, <<"8443">>}
                                THEN <<"https">> ELSE <<"http">>)
      /\ d.port = Or(g.port, IF d.proto = <<"https">> THEN <<"8443">> ELSE <<"8123">>)
  BY <1>1, <1>3, DeducedIs
<1>6. d.proto = Reached(a).scheme /\ d.port = Reached(a).port
  <2> DEFINE named == Or(Given(a, "Proto"), u.scheme)
             own   == Or(u.port, WellKnownPort(u.scheme))
             port  == Or(Given(a, "Port"),
                         IF u = NoUrl \/ own = WellKnownPort(named) THEN Empty ELSE own)
             https == Given(a, "SSLMode") # Empty \/ port \in {<<"443">>, <<"8443">>}
             proto == Or(named, IF https THEN <<"https">> ELSE <<"http">>)
  <2>1. /\ Reached(a).scheme = proto
        /\ Reached(a).port = Or(port, IF proto = <<"https">> THEN <<"8443">> ELSE <<"8123">>)
    BY DEF Reached, u
  <2>2. g.proto = named
    BY <1>2, <1>4
  <2>3. g.port = port
    BY <1>2, <1>4, <2>2
  <2> HIDE DEF named, port
  <2>4. d.proto = proto
    BY <1>2, <1>3, <1>5, <2>2, <2>3
  <2> HIDE DEF proto
  <2> QED  BY <1>5, <2>1, <2>3, <2>4
<1>7. d.server = Reached(a).host
  BY <1>2, <1>4, <1>5 DEF Reached, u, Or
<1>8. Uri(d).database = Reached(a).database
  <2>1. Reached(a).database = Or(u.database, Or(b.database, <<"default">>))
    BY <1>2 DEF Reached, u
  <2>2. d.database = Or(Or(u.database, b.database), <<"default">>)
    BY <1>4, <1>5
  <2>3. d.url = b.url /\ (b.url = Empty => u = NoUrl) /\ (b.url # Empty => u = UrlParts[d.url])
    BY <1>2, <1>3, <1>5 DEF u, UrlOf
  <2> QED  BY <2>1, <2>2, <2>3 DEF Uri, Or, NoUrl
<1>9. Uri(d) = Reached(a)
  BY <1>6, <1>7, <1>8 DEF Uri, Reached
<1>10. d.username = ReachedUser(a)
  BY <1>2, <1>4, <1>5 DEF ReachedUser, u, Or
<1>14. SchemeIsKnown(a)
  <2>1. Given(a, "Url") = Empty \/ Given(a, "Url") \in DOMAIN UrlParts
    BY <1>2, ConfigureIs DEF Parses, b
  <2>2. \A v \in DOMAIN UrlParts : UrlParts[v].scheme # Empty
    BY UrlPartsAssumption DEF Empty
  <2> QED  BY <2>1, <2>2 DEF SchemeIsKnown, UrlOf
<1>11. d.timeout = Or(Given(a, "Timeout"), <<"30">>) /\ d.connection_timeout = d.timeout
  BY <1>2, <1>3, <1>5 DEF Or
<1>13. /\ d.dsn = Or(Given(a, "DSN"), <<"default">>)
       /\ Given(a, "PWD") # Empty => d.password = Given(a, "PWD")
  BY <1>1, <1>2, <1>3, <1>12, DeducedIs
<1> QED  BY <1>5, <1>9, <1>10, <1>11, <1>13, <1>14 DEF a, d, u

LEMMA FieldsStay ==
  ASSUME NEW c, DOMAIN c = FieldNames, NEW cs, NEW dsn
  PROVE  DOMAIN Configure(c, cs, dsn).cfg = FieldNames
<1> DEFINE all == Merged(c, cs, dsn)
<1>1. Configure(c, cs, dsn) = Completed(all)
  BY DEF Configure
<1>2. all = [ok |-> all.ok, cfg |-> all.cfg] /\ DOMAIN all.cfg = FieldNames
  BY ResetIs, StoreAllIs DEF Merged, First, Both, Hidden, StoreAll
<1> HIDE DEF all
<1>3. DOMAIN Deduced(FromUrl(all.cfg)) = FieldNames
  BY <1>2, FromUrlIs, DeducedIs
<1> QED  BY <1>1, <1>2, <1>3 DEF Completed

-----------------------------------------------------------------------------
(***************************************************************************)
(* The invariant                                                           *)
(***************************************************************************)

\* The session keeps the timeout of the configuration it was made from, which only the
\* next connect changes.
TimeoutsAgree ==
  session # NoSession =>
    /\ session.connection_timeout = session.timeout
    /\ session.timeout = cfg.timeout
    /\ cfg.timeout = Or(Given(asked, "Timeout"), <<"30">>)

IInv ==
  /\ DOMAIN cfg = FieldNames
  /\ session = [connection_timeout |-> session.connection_timeout, timeout |-> session.timeout]
  /\ TimeoutsAgree

LEMMA InitHolds == ASSUME Init PROVE IInv
BY DEF Init, IInv, Initial, Unset, FieldNames, NoSession, TimeoutsAgree

\* What a connect changes, if it makes a session.
LEMMA ConnectIs ==
  ASSUME NEW text, NEW given, Connect(text, given), DOMAIN cfg = FieldNames
  PROVE  /\ session = NoSession
         /\ DOMAIN cfg' = FieldNames
         /\ session' # NoSession =>
              LET cs == asked'.cs  dsn == asked'.dsn IN
              /\ asked' = [cs |-> cs, dsn |-> dsn, given |-> given]
              /\ Configure(cfg, cs, dsn).ok /\ cfg' = Configure(cfg, cs, dsn).cfg
              /\ session' = [connection_timeout |-> cfg'.connection_timeout,
                             timeout |-> cfg'.timeout]
              /\ cs = ReadStrings[text].cs /\ dsn = SourceOf(cs)
<1> DEFINE cs == ReadStrings[text].cs  dsn == SourceOf(cs)
<1>1. /\ session = NoSession
      /\ cfg' = Configure(cfg, cs, dsn).cfg
      /\ session' = IF Configure(cfg, cs, dsn).ok
                      THEN [connection_timeout |-> Configure(cfg, cs, dsn).cfg.connection_timeout,
                            timeout |-> Configure(cfg, cs, dsn).cfg.timeout]
                      ELSE NoSession
      /\ asked' = [cs |-> cs, dsn |-> dsn, given |-> given]
  BY DEF Connect, Configure
<1> HIDE DEF cs, dsn
<1>2. DOMAIN cfg' = FieldNames
  BY <1>1, FieldsStay
<1> QED  BY <1>1, <1>2 DEF cs, dsn

\* A connect that makes a session, for the properties.
LEMMA ConnectMakes ==
  ASSUME NEW text, NEW given, Connect(text, given), IInv, session' # NoSession
  PROVE  /\ Uri(cfg') = Reached(asked') /\ cfg'.username = ReachedUser(asked')
         /\ SchemeIsKnown(asked')
         /\ cfg'.timeout = Or(Given(asked', "Timeout"), <<"30">>)
         /\ cfg'.connection_timeout = cfg'.timeout
         /\ cfg'.dsn = Or(Given(asked', "DSN"), <<"default">>)
         /\ Given(asked', "PWD") # Empty => cfg'.password = Given(asked', "PWD")
         /\ cfg'.client_name = IF <<"ClientName">> \in DOMAIN asked'.cs \cup DOMAIN asked'.dsn
                               THEN Given(asked', "ClientName") ELSE cfg.client_name
         /\ cfg'.compression = <<"1">> <=>
              IF <<"Compression">> \in DOMAIN asked'.cs \cup DOMAIN asked'.dsn
                THEN Given(asked', "Compression") = <<"1">> ELSE cfg.compression = <<"1">>
<1> DEFINE cs == asked'.cs  dsn == asked'.dsn  b == Both(cfg, cs, dsn).cfg
<1>1. /\ asked' = [cs |-> cs, dsn |-> dsn, given |-> given]
      /\ Configure(cfg, cs, dsn).ok /\ cfg' = Configure(cfg, cs, dsn).cfg
      /\ DOMAIN cfg = FieldNames
  BY ConnectIs DEF IInv
<1>2. DOMAIN b = FieldNames /\ cfg' = Deduced(FromUrl(b))
  BY <1>1, BothAre, ConfigureIs
<1> HIDE DEF b, cs, dsn
<1>3. cfg'.client_name = b.client_name /\ cfg'.compression = b.compression
  BY <1>2, FromUrlIs, DeducedIs
<1>4. LET a == asked' IN
      /\ b.client_name = IF <<"ClientName">> \in DOMAIN a.cs \cup DOMAIN a.dsn
                         THEN Given(a, "ClientName") ELSE cfg.client_name
      /\ b.compression = <<"1">> <=>
           IF <<"Compression">> \in DOMAIN a.cs \cup DOMAIN a.dsn
             THEN Given(a, "Compression") = <<"1">> ELSE cfg.compression = <<"1">>
  BY <1>1, KeptAre DEF b, cs, dsn
<1>5. LET a == asked' IN
      /\ Uri(cfg') = Reached(a) /\ cfg'.username = ReachedUser(a) /\ SchemeIsKnown(a)
      /\ cfg'.timeout = Or(Given(a, "Timeout"), <<"30">>)
      /\ cfg'.connection_timeout = cfg'.timeout
      /\ cfg'.dsn = Or(Given(a, "DSN"), <<"default">>)
      /\ Given(a, "PWD") # Empty => cfg'.password = Given(a, "PWD")
  BY <1>1, ConfiguredIs
<1> QED  BY <1>3, <1>4, <1>5

LEMMA NextCases ==
  ASSUME [Next]_vars
  PROVE  \/ \E text : Connect(text, Nothing)
         \/ \E given \in Names : Connect(TextOf(given), given)
         \/ SQLDisconnect
         \/ \E name \in Catalogs : SetCatalog(name)
         \/ \E value \in Limits : SetConnectionTimeout(value)
         \/ UNCHANGED vars
BY DEF Next, SQLDriverConnect, SQLConnect

LEMMA NextKeeps == ASSUME IInv, [Next]_vars PROVE IInv'
<1> USE DEF IInv
<1>1. CASE (\E text : Connect(text, Nothing)) \/ (\E given \in Names : Connect(TextOf(given), given))
  <2>1. PICK text, given : Connect(text, given)
    BY <1>1
  <2>2. CASE session' = NoSession
    BY <2>1, <2>2, ConnectIs DEF NoSession, TimeoutsAgree
  <2>3. CASE session' # NoSession
    <3>1. /\ DOMAIN cfg' = FieldNames
          /\ session' = [connection_timeout |-> cfg'.connection_timeout, timeout |-> cfg'.timeout]
      BY <2>1, <2>3, ConnectIs
    <3>2. /\ cfg'.timeout = Or(Given(asked', "Timeout"), <<"30">>)
          /\ cfg'.connection_timeout = cfg'.timeout
      BY <2>1, <2>3, ConnectMakes
    <3> QED  BY <3>1, <3>2 DEF TimeoutsAgree
  <2> QED  BY <2>2, <2>3
<1>2. CASE SQLDisconnect
  BY <1>2 DEF SQLDisconnect, NoSession, TimeoutsAgree
<1>3. CASE \E name \in Catalogs : SetCatalog(name)
  BY <1>3, NamesAre DEF SetCatalog, TimeoutsAgree
<1>4. CASE \E value \in Limits : SetConnectionTimeout(value)
  BY <1>4, NamesAre DEF SetConnectionTimeout, TimeoutsAgree
<1>5. CASE UNCHANGED vars
  BY <1>5 DEF vars, TimeoutsAgree
<1> QED  BY <1>1, <1>2, <1>3, <1>4, <1>5, NextCases

THEOREM ConfigurationInvariance == Spec => []IInv
<1>1. Init => IInv
  BY InitHolds
<1>2. IInv /\ [Next]_vars => IInv'
  BY NextKeeps
<1> QED  BY <1>1, <1>2, PTL DEF Spec

\* The session waits for an answer as long as its own connect said, or 30 seconds,
\* whatever was connected and set before, and as long for a connection if that was never
\* set.
THEOREM SessionTimeoutIsItsOwn == Spec => []SessionHasItsTimeout
<1>1. IInv => SessionHasItsTimeout
  BY FirstOfTwo DEF IInv, TimeoutsAgree, SessionHasItsTimeout
<1> QED  BY <1>1, ConfigurationInvariance, PTL

\* A connect that succeeds goes where its string, its data source, its URL or the
\* defaults say, in this order, and takes from them what they name.
THEOREM ConnectIsAfresh == Spec => ConnectStartsAfresh
<1> DEFINE Afresh ==
      session = NoSession /\ session' # NoSession =>
        LET address == Uri(cfg')  expected == Expected(asked')
        IN  /\ address.scheme = expected.scheme /\ address.host = expected.host
            /\ PortIsSeen(asked') => address.port = expected.port
            /\ OneDatabase(asked') => address.database = expected.database
            /\ UserIsSeen(asked') => cfg'.username = expected.username
            /\ Named(asked', "ClientName") => cfg'.client_name = Given(asked', "ClientName")
            /\ Named(asked', "Compression") =>
                 (cfg'.compression = <<"1">> <=> Given(asked', "Compression") = <<"1">>)
<1>1. IInv /\ [Next]_vars => [Afresh]_vars
  <2>1. SUFFICES ASSUME IInv, [Next]_vars, session = NoSession, session' # NoSession
                 PROVE  Afresh
    BY DEF Afresh
  <2>2. PICK text, given : Connect(text, given)
    BY <2>1, NextCases DEF SQLDisconnect, SetCatalog, SetConnectionTimeout, vars
  <2>3. /\ Uri(cfg') = Reached(asked') /\ cfg'.username = ReachedUser(asked')
        /\ SchemeIsKnown(asked')
    BY <2>1, <2>2, ConnectMakes
  <2>4. /\ Named(asked', "ClientName") => cfg'.client_name = Given(asked', "ClientName")
        /\ Named(asked', "Compression") =>
             (cfg'.compression = <<"1">> <=> Given(asked', "Compression") = <<"1">>)
    BY <2>1, <2>2, ConnectMakes DEF Named
  <2> QED  BY <2>3, <2>4, ReachedIsExpected
<1>2. [Next]_vars /\ IInv => [Afresh]_vars
  BY <1>1
<1> QED  BY <1>2, ConfigurationInvariance, PTL DEF Spec, ConnectStartsAfresh

-----------------------------------------------------------------------------
(***************************************************************************)
(* What SQLConnect was given                                               *)
(***************************************************************************)

\* GivenIsReadBack, name by name.
GivenIsSet ==
  session # NoSession =>
    /\ asked.given.dsn \notin {Empty, Null} => cfg.dsn = asked.given.dsn
    /\ asked.given.uid \notin {Empty, Null} => cfg.username = asked.given.uid
    /\ asked.given.pwd \notin {Empty, Null} => cfg.password = asked.given.pwd

LEMMA NamesAreGiven ==
  ASSUME NEW given \in Names, Connect(TextOf(given), given), IInv, session' # NoSession
  PROVE  /\ AreRead(TextOf(given), given.dsn, given.uid, given.pwd)
         /\ asked'.cs = Fields(Pairs(TextOf(given)))
<1>1. /\ given.dsn \in Seq(Symbols) \cup {Null} /\ given.uid \in Seq(Symbols) \cup {Null}
      /\ given.pwd \in Seq(Symbols) \cup {Null}
  BY NamesAssumption
<1>2. TextOf(given) = PartOf("DSN", given.dsn) \o PartOf("UID", given.uid) \o PartOf("PWD", given.pwd)
  BY Zenon DEF TextOf, PartOf
<1>3. AreRead(TextOf(given), given.dsn, given.uid, given.pwd)
  BY <1>1, <1>2, NamesAreReadBack
<1>4. ReadStrings[TextOf(given)].cs = Fields(Pairs(TextOf(given)))
  <2>1. ReadStrings[TextOf(given)].ok
    BY DEF Connect
  <2>2. TextOf(given) \in Strings
    BY DEF Strings
  <2>3. PairsOf[TextOf(given)] = Pairs(TextOf(given))
    BY <2>2 DEF PairsOf
  <2> QED  BY <2>1, <2>2, <2>3 DEF ReadStrings
<1>5. asked'.cs = ReadStrings[TextOf(given)].cs
  BY ConnectIs DEF IInv
<1> QED  BY <1>3, <1>4, <1>5

LEMMA ConnectSetsGiven ==
  ASSUME NEW given \in Names, Connect(TextOf(given), given), IInv, session' # NoSession
  PROVE  GivenIsSet'
<1> DEFINE a == asked'
<1>1. /\ AreRead(TextOf(given), given.dsn, given.uid, given.pwd)
      /\ a.cs = Fields(Pairs(TextOf(given)))
      /\ a.given = given
  BY NamesAreGiven, ConnectIs DEF IInv
<1>2. /\ given.dsn # Null => Given(a, "DSN") = given.dsn
      /\ given.pwd # Null => Given(a, "PWD") = given.pwd
  BY <1>1 DEF AreRead, Given, Value
<1>3. <<"Username">> \notin DOMAIN a.cs
  <2>1. \A key \in Keys : <<key>> # <<"Username">>
    BY DEF Keys
  <2> QED  BY <1>1, <2>1 DEF AreRead
<1>4. given.uid # Null => GivenUser(a) = given.uid
  BY <1>1, <1>3 DEF AreRead, GivenUser, Value
<1>5. /\ cfg'.username = ReachedUser(a)
      /\ cfg'.dsn = Or(Given(a, "DSN"), <<"default">>)
      /\ Given(a, "PWD") # Empty => cfg'.password = Given(a, "PWD")
  BY ConnectMakes
<1> QED  BY <1>1, <1>2, <1>4, <1>5 DEF GivenIsSet, ReachedUser, Or

LEMMA GivenStays == ASSUME IInv, GivenIsSet, [Next]_vars PROVE GivenIsSet'
<1> USE DEF GivenIsSet
<1>1. CASE \E text : Connect(text, Nothing)
  BY <1>1, ConnectIs DEF IInv, Nothing
<1>2. CASE \E given \in Names : Connect(TextOf(given), given)
  BY <1>2, ConnectSetsGiven
<1>3. CASE SQLDisconnect
  BY <1>3 DEF SQLDisconnect
<1>4. CASE \E name \in Catalogs : SetCatalog(name)
  BY <1>4, NamesAre DEF SetCatalog, IInv
<1>5. CASE \E value \in Limits : SetConnectionTimeout(value)
  BY <1>5, NamesAre DEF SetConnectionTimeout, IInv
<1>6. CASE UNCHANGED vars
  BY <1>6 DEF vars
<1> QED  BY <1>1, <1>2, <1>3, <1>4, <1>5, <1>6, NextCases

\* What SQLConnect was given is what the connection uses, with whatever symbols there
\* are in it: the string it writes is read back as it was meant.
THEOREM GivenIsUsed == Spec => []GivenIsReadBack
<1>1. Init => GivenIsSet
  BY DEF Init, GivenIsSet
<1>2. IInv /\ GivenIsSet /\ [Next]_vars => GivenIsSet'
  BY GivenStays
<1>3. GivenIsSet => GivenIsReadBack
  BY DEF GivenIsSet, GivenIsReadBack
<1> QED  BY <1>1, <1>2, <1>3, ConfigurationInvariance, PTL DEF Spec
=============================================================================
