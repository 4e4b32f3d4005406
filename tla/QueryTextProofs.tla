--------------------------- MODULE QueryTextProofs ---------------------------
(***************************************************************************)
(* Theorems about QueryText, for every text: the parameters that the scan  *)
(* finds are the unquoted marks, and replacing them changes nothing else.  *)
(*                                                                         *)
(* The functions of QueryText are recursive.  That each of them has a      *)
(* value at all is shown by Recursion, from the least-element property of  *)
(* the numbers; from then on they are used by their recursive equations.   *)
(***************************************************************************)
EXTENDS QueryText, FiniteSetTheorems, SequenceTheorems, WellFoundedInduction, TLAPS

-----------------------------------------------------------------------------
(***************************************************************************)
(* Induction and recursion                                                 *)
(***************************************************************************)

\* Every set of numbers has a least one: of the intervals below them one is contained in
\* all others.
LEMMA LeastOf ==
  ASSUME NEW T, T \subseteq Nat, T # {}
  PROVE  \E n \in T : \A m \in T : n <= m
<1> DEFINE Below == {0 .. n : n \in T}
<1>1. Below \subseteq FiniteSubsetsOf(Nat) /\ Below # {}
  <2>1. ASSUME NEW n \in T
        PROVE  0 .. n \in FiniteSubsetsOf(Nat)
    <3>1. n \in Nat /\ 0 .. n \subseteq Nat
      OBVIOUS
    <3>2. IsFiniteSet(0 .. n)
      BY <3>1, FS_Interval
    <3> QED  BY <3>1, <3>2 DEF FiniteSubsetsOf
  <2> QED  BY <2>1
<1>2. PICK b \in Below : \A c \in Below : <<c, b>> \notin StrictSubsetOrdering(Nat)
  <2> HIDE DEF Below
  <2> QED  BY <1>1, WFMin, FS_StrictSubsetOrderingWellFounded
<1>3. PICK n \in T : b = 0 .. n
  OBVIOUS
<1>4. ASSUME NEW m \in T, m < n
      PROVE  FALSE
  <2>1. 0 .. m \in SUBSET Nat /\ 0 .. n \in SUBSET Nat /\ 0 .. m \subseteq 0 .. n
    BY <1>4
  <2>2. n \in 0 .. n /\ n \notin 0 .. m
    BY <1>4
  <2>3. <<0 .. m, 0 .. n>> \in StrictSubsetOrdering(Nat)
    BY <2>1, <2>2 DEF StrictSubsetOrdering
  <2> QED  BY <1>2, <1>3, <2>3
<1> QED  BY <1>4

\* Induction over the numbers, for a set of them.
LEMMA Induction ==
  ASSUME NEW T, 0 \in T, \A n \in Nat : n \in T => n + 1 \in T
  PROVE  Nat \subseteq T
<1> DEFINE Rest == {n \in Nat : n \notin T}
<1>1. SUFFICES ASSUME Rest # {} PROVE FALSE
  OBVIOUS
<1>2. PICK n \in Rest : \A m \in Rest : n <= m
  <2>1. Rest \subseteq Nat
    OBVIOUS
  <2> HIDE DEF Rest
  <2> QED  BY <1>1, <2>1, LeastOf
<1>3. n # 0 /\ n - 1 \in Nat
  BY <1>2
<1>4. n - 1 \in T
  BY <1>2, <1>3
<1> QED  BY <1>2, <1>3, <1>4

\* A function is defined by recursion where each value depends only on values of less
\* measure.
DependsBelow(D, S, m, step) ==
  \A i \in D : \A f, g \in [D -> S] :
    (\A j \in D : m[j] < m[i] => f[j] = g[j]) => step[i][f] = step[i][g]

IsRecursion(D, S, K, m, step) ==
  /\ S # {} /\ K \in Nat /\ m \in [D -> 0 .. K] /\ step \in [D -> [[D -> S] -> S]]
  /\ DependsBelow(D, S, m, step)

LEMMA Recursion ==
  ASSUME NEW D, NEW S, NEW K, NEW m, NEW step, IsRecursion(D, S, K, m, step)
  PROVE  \E f \in [D -> S] : \A i \in D : f[i] = step[i][f]
<1> USE DEF IsRecursion
<1> DEFINE Right(f, k) == \A i \in D : m[i] < k => f[i] = step[i][f]
           T == {k \in Nat : \E f \in [D -> S] : Right(f, k)}
<1>1. 0 \in T
  <2>1. PICK s \in S : TRUE
    OBVIOUS
  <2>2. [i \in D |-> s] \in [D -> S]
    OBVIOUS
  <2>3. \A i \in D : ~(m[i] < 0)
    OBVIOUS
  <2> QED  BY <2>2, <2>3
<1>2. ASSUME NEW k \in Nat, k \in T
      PROVE  k + 1 \in T
  <2>1. PICK f \in [D -> S] : Right(f, k)
    BY <1>2
  <2> DEFINE g == [i \in D |-> IF m[i] = k THEN step[i][f] ELSE f[i]]
  <2>2. g \in [D -> S]
    OBVIOUS
  <2>3. ASSUME NEW i \in D, m[i] < k + 1
        PROVE  g[i] = step[i][g]
    <3>1. step[i][f] = step[i][g]
      <4>1. \A j \in D : m[j] < m[i] => f[j] = g[j]
        BY <2>3
      <4> HIDE DEF g
      <4> QED  BY <2>2, <4>1 DEF DependsBelow
    <3>2. m[i] = k \/ m[i] < k
      <4>1. PICK n \in Nat : n = m[i]
        OBVIOUS
      <4>2. n < k + 1
        BY <2>3, <4>1
      <4>3. n = k \/ n < k
        BY <4>2
      <4> QED  BY <4>1, <4>3
    <3>3. g[i] = step[i][f]
      BY <2>1, <3>2
    <3> QED  BY <3>1, <3>3
  <2> HIDE DEF g
  <2> QED  BY <2>2, <2>3
<1>3. K + 1 \in T
  <2> HIDE DEF T
  <2> QED  BY <1>1, <1>2, Induction
<1> QED  BY <1>3

-----------------------------------------------------------------------------
(***************************************************************************)
(* Backslashes and quotes                                                  *)
(***************************************************************************)

\* A symbol is escaped by an unescaped backslash right before it.
LEMMA EscapedIs ==
  ASSUME NEW t \in Seq(Symbols)
  PROVE  /\ ~Escaped(t, 1)
         /\ \A i \in 1 .. Len(t) : Escaped(t, i + 1) <=> t[i] = Backslash /\ ~Escaped(t, i)
<1> DEFINE run(i) == {k \in 1 .. i - 1 : \A m \in k .. i - 1 : t[m] = Backslash}
<1>1. \A i \in Nat : Escaped(t, i) <=> Cardinality(run(i)) % 2 = 1
  BY DEF Escaped
<1>2. ~Escaped(t, 1)
  <2>1. run(1) = {}
    OBVIOUS
  <2>2. Cardinality(run(1)) = 0
    BY <2>1, FS_EmptySet
  <2> HIDE DEF run
  <2> QED  BY <1>1, <2>2
<1>3. ASSUME NEW i \in 1 .. Len(t)
      PROVE  Escaped(t, i + 1) <=> t[i] = Backslash /\ ~Escaped(t, i)
  <2>1. CASE t[i] # Backslash
    <3>1. run(i + 1) = {}
      BY <2>1
    <3>2. Cardinality(run(i + 1)) = 0
      BY <3>1, FS_EmptySet
    <3> HIDE DEF run
    <3> QED  BY <1>1, <2>1, <3>2
  <2>2. CASE t[i] = Backslash
    <3>1. run(i + 1) = run(i) \cup {i} /\ i \notin run(i)
      BY <2>2
    <3>2. run(i) \subseteq 1 .. i - 1
      OBVIOUS
    <3> HIDE DEF run
    <3>3. IsFiniteSet(run(i))
      <4>1. IsFiniteSet(1 .. i - 1)
        BY FS_Interval
      <4> QED  BY <3>2, <4>1, FS_Subset
    <3>4. PICK c \in Nat : Cardinality(run(i)) = c
      BY <3>3, FS_CardinalityType
    <3>5. Cardinality(run(i + 1)) = c + 1
      BY <3>1, <3>3, <3>4, FS_AddElement
    <3>6. (c + 1) % 2 = 1 <=> ~(c % 2 = 1)
      BY <3>4
    <3> QED  BY <1>1, <2>2, <3>4, <3>5, <3>6
  <2> QED  BY <2>1, <2>2
<1> QED  BY <1>2, <1>3

\* The quote in effect behind the symbol at i.
Behind(t, i, before) ==
  IF t[i] \notin Quotes \/ Escaped(t, i) THEN before
  ELSE IF before = NoQuote THEN t[i]
  ELSE IF before = t[i] THEN NoQuote
  ELSE before

LEMMA AroundIs ==
  ASSUME NEW t \in Seq(Symbols)
  PROVE  /\ Around(t, 1) = NoQuote
         /\ \A i \in 1 .. Len(t) : Around(t, i + 1) = Behind(t, i, Around(t, i))
         /\ \A i \in 1 .. Len(t) + 1 : Around(t, i) \in Quotes \cup {NoQuote}
<1> DEFINE D == 1 .. Len(t) + 1
           S == Quotes \cup {NoQuote}
           m == [i \in D |-> i]
           value(f, i) == IF i = 1 THEN NoQuote ELSE Behind(t, i - 1, f[i - 1])
           step == [i \in D |-> [f \in [D -> S] |-> value(f, i)]]
<1>1. Len(t) \in Nat /\ S # {} /\ m \in [D -> 0 .. Len(t) + 1]
  <2>1. Len(t) \in Nat
    OBVIOUS
  <2> QED  BY <2>1
<1>2. ASSUME NEW i \in D, NEW f \in [D -> S]
      PROVE  value(f, i) \in S
  <2>1. i # 1 => i - 1 \in D
    BY <1>1
  <2> QED  BY <2>1 DEF Behind
<1>3. ASSUME NEW i \in D, NEW f \in [D -> S], NEW g \in [D -> S],
             \A j \in D : m[j] < m[i] => f[j] = g[j]
      PROVE  value(f, i) = value(g, i)
  <2>1. i # 1 => i - 1 \in D /\ i - 1 < i
    BY <1>1
  <2>2. i # 1 => f[i - 1] = g[i - 1]
    BY <1>3, <2>1
  <2> QED  BY <2>2
<1>4. PICK f \in [D -> S] : \A i \in D : f[i] = step[i][f]
  <2> HIDE DEF S, D, m, value
  <2>1. step \in [D -> [[D -> S] -> S]]
    BY <1>2
  <2>2. PICK K \in Nat : K = Len(t) + 1
    BY <1>1
  <2>3. DependsBelow(D, S, m, step)
    BY <1>3 DEF DependsBelow
  <2> HIDE DEF step
  <2>4. IsRecursion(D, S, K, m, step)
    BY <1>1, <2>1, <2>2, <2>3 DEF IsRecursion
  <2> QED  BY <2>4, Recursion
<1>5. f = [i \in D |-> value(f, i)]
  <2> HIDE DEF S, D, m, value
  <2>1. \A i \in D : f[i] = value(f, i)
    BY <1>4
  <2>2. f = [i \in D |-> f[i]]
    BY <1>4
  <2> QED  BY <2>1, <2>2
<1>6. PICK r : r = [i \in D |-> value(r, i)] /\ \A i : Around(t, i) = r[i]
  <2> DEFINE r == CHOOSE r : r = [i \in D |-> value(r, i)]
  <2>1. r = [i \in D |-> value(r, i)]
    <3> HIDE DEF D, value
    <3> QED  BY <1>5
  <2>2. \A i : Around(t, i) = r[i]
    BY DEF Around, Behind
  <2> QED  BY <2>1, <2>2
<1>7. \A i \in D : r[i] = value(r, i)
  <2> HIDE DEF value, D
  <2> QED  BY <1>6
<1>8. \A i \in 1 .. Len(t) : r[i + 1] = Behind(t, i, r[i])
  <2>1. ASSUME NEW i \in 1 .. Len(t)
        PROVE  r[i + 1] = Behind(t, i, r[i])
    <3>1. i + 1 \in D /\ i + 1 # 1 /\ (i + 1) - 1 = i
      BY <1>1
    <3> QED  BY <1>7, <3>1
  <2> QED  BY <2>1
<1>9. r[1] = NoQuote
  BY <1>1, <1>7
<1> DEFINE T == {k \in Nat : k + 1 \in D => r[k + 1] \in S}
<1>10. 0 \in T
  BY <1>9
<1>11. ASSUME NEW k \in Nat, k \in T
       PROVE  k + 1 \in T
  <2>1. SUFFICES ASSUME k + 2 \in D PROVE r[k + 2] \in S
    OBVIOUS
  <2>2. k + 1 \in 1 .. Len(t) /\ k + 1 \in D /\ (k + 1) + 1 = k + 2
    BY <1>1, <2>1
  <2>3. r[k + 2] = Behind(t, k + 1, r[k + 1])
    BY <1>8, <2>2
  <2> QED  BY <1>11, <2>2, <2>3 DEF Behind
<1>12. \A i \in D : r[i] \in S
  <2>1. Nat \subseteq T
    <3> HIDE DEF T
    <3> QED  BY <1>10, <1>11, Induction
  <2>2. ASSUME NEW i \in D
        PROVE  r[i] \in S
    <3>1. i - 1 \in Nat /\ (i - 1) + 1 = i
      BY <1>1
    <3> QED  BY <2>1, <3>1
  <2> QED  BY <2>2
<1> QED  BY <1>6, <1>8, <1>9, <1>12

-----------------------------------------------------------------------------
(***************************************************************************)
(* The scan                                                                *)
(***************************************************************************)

\* What a name is: as many letters and digits as follow, the first of them a letter.
LEMMA NameIs ==
  ASSUME NEW t \in Seq(Symbols), NEW i \in 1 .. Len(t)
  PROVE  /\ NameLength(t, i) \in 0 .. Len(t) - i
         /\ \A j \in 1 .. NameLength(t, i) :
              t[i + j] \in Letters \/ (t[i + j] \in Digits /\ j > 1)
         /\ i + NameLength(t, i) + 1 <= Len(t) =>
              LET next == t[i + NameLength(t, i) + 1]
              IN  next \notin Letters /\ (next \in Digits => NameLength(t, i) = 0)
<1> DEFINE goes(j) == /\ i + j + 1 <= Len(t)
                      /\ t[i + j + 1] \in Letters \/ (t[i + j + 1] \in Digits /\ j > 0)
           ends == {j \in 0 .. Len(t) - i : ~goes(j)}
           L == NameLength(t, i)
<1>1. Len(t) \in Nat /\ i \in Nat /\ i <= Len(t)
  OBVIOUS
<1>2. ends \subseteq Nat /\ Len(t) - i \in ends
  BY <1>1
<1>3. L \in ends /\ \A j \in ends : L <= j
  <2>1. L = Min(ends)
    BY DEF NameLength
  <2>2. \E n \in ends : \A j \in ends : n <= j
    <3> HIDE DEF ends
    <3> QED  BY <1>2, LeastOf
  <2> HIDE DEF ends, L
  <2> QED  BY <2>1, <2>2 DEF Min
<1> HIDE DEF L
<1>4. L \in 0 .. Len(t) - i /\ ~goes(L)
  BY <1>3
<1>5. ASSUME NEW j \in 1 .. L
      PROVE  t[i + j] \in Letters \/ (t[i + j] \in Digits /\ j > 1)
  <2>1. j - 1 \in 0 .. Len(t) - i /\ ~(L <= j - 1)
    BY <1>1, <1>4
  <2>2. j - 1 \notin ends
    BY <1>3, <2>1
  <2>3. goes(j - 1)
    BY <2>1, <2>2
  <2>4. i + (j - 1) + 1 = i + j /\ (j - 1 > 0 <=> j > 1)
    BY <1>1, <1>4
  <2> QED  BY <2>3, <2>4
<1>6. i + L + 1 <= Len(t) => t[i + L + 1] \notin Letters /\ (t[i + L + 1] \in Digits => L = 0)
  BY <1>1, <1>4
<1> QED  BY <1>4, <1>5, <1>6 DEF L

\* What one symbol does, by the kind of symbol.
LEMMA StepIs ==
  ASSUME NEW t \in Seq(Symbols), NEW i \in 1 .. Len(t), NEW by
  PROVE  /\ t[i] = Backslash => Step(t, i, by) = [next |-> i + 2, by |-> by]
         /\ t[i] \in Quotes /\ by # t[i] => Step(t, i, by) = [next |-> i + 1, by |-> t[i]]
         /\ t[i] \in Quotes /\ by = t[i] /\ i < Len(t) /\ t[i + 1] = t[i] =>
              Step(t, i, by) = [next |-> i + 2, by |-> by]
         /\ t[i] \in Quotes /\ by = t[i] /\ ~(i < Len(t) /\ t[i + 1] = t[i]) =>
              Step(t, i, by) = [next |-> i + 1, by |-> NoQuote]
         /\ t[i] = Sign /\ by = NoQuote =>
              Step(t, i, by) = [next |-> i + 1 + NameLength(t, i), by |-> by]
         /\ t[i] # Backslash /\ t[i] \notin Quotes /\ ~(t[i] = Sign /\ by = NoQuote) =>
              Step(t, i, by) = [next |-> i + 1, by |-> by]
<1>1. Backslash \notin Quotes /\ Sign \notin Quotes /\ Sign # Backslash
  BY DEF Backslash, Sign, Quotes
<1> QED  BY <1>1 DEF Step

InEffect == Quotes \cup {NoQuote}

LEMMA StepTypes ==
  ASSUME NEW t \in Seq(Symbols), NEW i \in 1 .. Len(t), NEW by \in InEffect
  PROVE  /\ Step(t, i, by).next \in i + 1 .. Len(t) + 2
         /\ Step(t, i, by).by \in InEffect
<1>1. PICK n \in Nat : n = Len(t)
  OBVIOUS
<1>2. PICK l \in Nat : l = NameLength(t, i) /\ i + l <= n
  <2>1. NameLength(t, i) \in 0 .. n - i
    BY <1>1, NameIs
  <2> QED  BY <1>1, <2>1
<1>3. PICK next \in {i + 1, i + 2, i + 1 + l}, b \in InEffect :
        Step(t, i, by) = [next |-> next, by |-> b]
  <2>1. CASE t[i] = Backslash
    BY <2>1, StepIs
  <2>2. CASE t[i] \in Quotes /\ by # t[i]
    BY <2>2, StepIs DEF InEffect
  <2>3. CASE t[i] \in Quotes /\ by = t[i]
    BY <2>3, StepIs DEF InEffect
  <2>4. CASE t[i] = Sign /\ by = NoQuote
    BY <1>2, <2>4, StepIs
  <2>5. CASE t[i] # Backslash /\ t[i] \notin Quotes /\ ~(t[i] = Sign /\ by = NoQuote)
    BY <2>5, StepIs
  <2> QED  BY <2>1, <2>2, <2>3, <2>4, <2>5
<1>4. next \in i + 1 .. n + 2
  BY <1>1, <1>2
<1> QED  BY <1>1, <1>3, <1>4

\* What the scan computes at each position, from what it computes behind it.
Scans(t, f, i, by) ==
  IF i > Len(t) THEN <<>>
  ELSE LET step == Step(t, i, by)
           rest == f[step.next][step.by]
       IN  IF by = NoQuote /\ t[i] \in Signs THEN <<Found(t, i)>> \o rest ELSE rest

IsScan(t, f) ==
  /\ Parameters(t) = f[1][NoQuote]
  /\ \A i \in 1 .. Len(t) + 2 : \A by \in InEffect :
       f[i][by] = Scans(t, f, i, by) /\ f[i][by] \in Seq([at : Nat, size : Nat])

LEMMA ScanIs ==
  ASSUME NEW t \in Seq(Symbols)
  PROVE  \E f : IsScan(t, f)
<1> DEFINE D == 1 .. Len(t) + 2
           found == [at : Nat, size : Nat]
           S == [InEffect -> Seq(found)]
           m == [i \in D |-> Len(t) + 2 - i]
           value(f, i) == [by \in InEffect |-> Scans(t, f, i, by)]
           step == [i \in D |-> [f \in [D -> S] |-> value(f, i)]]
<1>1. Len(t) \in Nat /\ S # {} /\ m \in [D -> 0 .. Len(t) + 2]
  <2>1. [by \in InEffect |-> <<>>] \in S
    OBVIOUS
  <2>2. Len(t) \in Nat
    OBVIOUS
  <2>3. m \in [D -> 0 .. Len(t) + 2]
    BY <2>2
  <2> HIDE DEF S, m, D
  <2> QED  BY <2>1, <2>2, <2>3
<1>2. ASSUME NEW i \in D, NEW f \in [D -> S]
      PROVE  value(f, i) \in S
  <2> SUFFICES ASSUME NEW by \in InEffect
               PROVE  Scans(t, f, i, by) \in Seq(found)
    OBVIOUS
  <2>1. CASE i > Len(t)
    BY <2>1 DEF Scans
  <2>2. CASE ~(i > Len(t))
    <3>1. i \in 1 .. Len(t)
      BY <1>1, <2>2
    <3>2. Step(t, i, by).next \in D /\ Step(t, i, by).by \in InEffect
      <4>1. i + 1 .. Len(t) + 2 \subseteq D
        BY <1>1, <3>1
      <4> QED  BY <3>1, <4>1, StepTypes
    <3>3. PICK rest \in Seq(found) : rest = f[Step(t, i, by).next][Step(t, i, by).by]
      BY <3>2
    <3>4. Found(t, i) \in found
      <4>1. NameLength(t, i) \in Nat
        <5>1. NameLength(t, i) \in 0 .. Len(t) - i
          BY <3>1, NameIs
        <5> QED  BY <5>1
      <4> QED  BY <4>1 DEF Found, Mark
    <3>5. Scans(t, f, i, by) = IF by = NoQuote /\ t[i] \in Signs THEN <<Found(t, i)>> \o rest ELSE rest
      BY <2>2, <3>3 DEF Scans
    <3> HIDE DEF found
    <3>6. <<Found(t, i)>> \o rest \in Seq(found)
      BY <3>4
    <3> QED  BY <3>5, <3>6
  <2> QED  BY <2>1, <2>2
<1>3. ASSUME NEW i \in D, NEW f \in [D -> S], NEW g \in [D -> S],
             \A j \in D : m[j] < m[i] => f[j] = g[j]
      PROVE  value(f, i) = value(g, i)
  <2> SUFFICES ASSUME NEW by \in InEffect
               PROVE  Scans(t, f, i, by) = Scans(t, g, i, by)
    OBVIOUS
  <2>1. CASE i > Len(t)
    BY <2>1 DEF Scans
  <2>2. CASE ~(i > Len(t))
    <3>1. i \in 1 .. Len(t)
      BY <1>1, <2>2
    <3>2. PICK n \in i + 1 .. Len(t) + 2 : n = Step(t, i, by).next
      BY <3>1, StepTypes
    <3>3. n \in D /\ m[n] < m[i]
      BY <1>1, <3>1
    <3>4. f[n] = g[n]
      BY <1>3, <3>3
    <3> QED  BY <3>2, <3>4 DEF Scans
  <2> QED  BY <2>1, <2>2
<1>4. PICK f \in [D -> S] : \A i \in D : f[i] = step[i][f]
  <2> HIDE DEF S, D, m, value
  <2>1. step \in [D -> [[D -> S] -> S]]
    BY <1>2
  <2>2. PICK K \in Nat : K = Len(t) + 2
    BY <1>1
  <2>3. DependsBelow(D, S, m, step)
    BY <1>3 DEF DependsBelow
  <2> HIDE DEF step
  <2>4. IsRecursion(D, S, K, m, step)
    BY <1>1, <2>1, <2>2, <2>3 DEF IsRecursion
  <2> QED  BY <2>4, Recursion
<1> DEFINE IsIt(r) == r = [i \in D |-> value(r, i)]
<1>5. IsIt(f)
  <2> HIDE DEF S, D, m, value
  <2>1. \A i \in D : f[i] = value(f, i)
    BY <1>4
  <2>2. f = [i \in D |-> f[i]]
    BY <1>4
  <2> QED  BY <2>1, <2>2
<1>6. PICK r : IsIt(r) /\ Parameters(t) = r[1][NoQuote]
  <2> DEFINE r == CHOOSE r : IsIt(r)
  <2>1. IsIt(r)
    <3> HIDE DEF IsIt
    <3> QED  BY <1>5
  <2>2. Parameters(t) = r[1][NoQuote]
    BY DEF Parameters, InEffect, Scans
  <2> QED  BY <2>1, <2>2
<1> DEFINE T == {k \in Nat : \A i \in D : Len(t) + 2 - i <= k => r[i] \in S}
<1>7. \A i \in D : r[i] = value(r, i)
  <2> HIDE DEF value, D
  <2> QED  BY <1>6
<1>8. ASSUME NEW i \in D, \A j \in D : j > i => r[j] \in S
      PROVE  r[i] \in S
  <2>1. PICK g \in [D -> S] : \A j \in D : j > i => g[j] = r[j]
    <3>1. PICK s \in S : TRUE
      BY <1>1
    <3> DEFINE g == [j \in D |-> IF j > i THEN r[j] ELSE s]
    <3>2. g \in [D -> S] /\ \A j \in D : j > i => g[j] = r[j]
      <4> HIDE DEF S
      <4> QED  BY <1>8
    <3> QED  BY <3>2
  <2>2. ASSUME NEW by \in InEffect
        PROVE  Scans(t, r, i, by) = Scans(t, g, i, by)
    <3>1. CASE i > Len(t)
      BY <3>1 DEF Scans
    <3>2. CASE ~(i > Len(t))
      <4>1. i \in 1 .. Len(t)
        BY <1>1, <3>2
      <4>2. PICK n \in i + 1 .. Len(t) + 2 : n = Step(t, i, by).next
        BY <4>1, StepTypes
      <4>3. n \in D /\ n > i
        BY <1>1, <4>1
      <4>4. r[n] = g[n]
        BY <2>1, <4>3
      <4> QED  BY <4>2, <4>4 DEF Scans
    <3> QED  BY <3>1, <3>2
  <2>3. value(r, i) = value(g, i)
    BY <2>2
  <2> HIDE DEF value, S, D
  <2>4. value(g, i) \in S
    BY <1>2, <2>1
  <2> QED  BY <1>7, <2>3, <2>4
<1>9. 0 \in T
  <2>1. SUFFICES ASSUME NEW i \in D, Len(t) + 2 - i <= 0 PROVE r[i] \in S
    OBVIOUS
  <2>2. \A j \in D : ~(j > i)
    BY <1>1, <2>1
  <2> QED  BY <1>8, <2>2
<1>10. ASSUME NEW k \in Nat, k \in T
       PROVE  k + 1 \in T
  <2>1. SUFFICES ASSUME NEW i \in D, Len(t) + 2 - i <= k + 1 PROVE r[i] \in S
    OBVIOUS
  <2>2. \A j \in D : j > i => Len(t) + 2 - j <= k
    BY <1>1, <2>1
  <2>3. \A j \in D : j > i => r[j] \in S
    BY <1>10, <2>2
  <2> QED  BY <1>8, <2>1, <2>3
<1>11. \A i \in D : r[i] \in S
  <2>1. Nat \subseteq T
    <3> HIDE DEF T
    <3> QED  BY <1>9, <1>10, Induction
  <2>2. PICK k \in Nat : k = Len(t) + 2
    BY <1>1
  <2>3. k \in T /\ \A i \in D : Len(t) + 2 - i <= k
    <3>1. \A i \in D : Len(t) + 2 - i <= k
      BY <1>1, <2>2
    <3> HIDE DEF T
    <3> QED  BY <2>1, <3>1
  <2> QED  BY <2>3
<1>12. \A i \in D : \A by \in InEffect : r[i][by] = Scans(t, r, i, by) /\ r[i][by] \in Seq(found)
  BY <1>7, <1>11
<1> QED  BY <1>6, <1>12 DEF IsScan

-----------------------------------------------------------------------------
(***************************************************************************)
(* The scan knows which symbols are quoted                                 *)
(***************************************************************************)

\* A symbol that neither quotes nor escapes.
Plain(t, i) == t[i] \notin Quotes /\ t[i] # Backslash

LEMMA PlainIsPlain ==
  ASSUME NEW t, NEW i, t[i] \in Letters \cup Digits \cup Signs
  PROVE  Plain(t, i)
BY DEF Plain, Letters, Digits, Signs, Sign, Quotes, Backslash

\* What is behind symbols that neither quote nor escape is quoted as they are.
LEMMA PlainRun ==
  ASSUME NEW t \in Seq(Symbols), NEW i \in 1 .. Len(t), ~Escaped(t, i),
         NEW l \in 0 .. Len(t) - i, \A j \in 0 .. l : Plain(t, i + j)
  PROVE  \A j \in 0 .. l + 1 : ~Escaped(t, i + j) /\ Around(t, i + j) = Around(t, i)
<1> DEFINE same(j) == ~Escaped(t, i + j) /\ Around(t, i + j) = Around(t, i)
           T == {j \in Nat : j <= l + 1 => same(j)}
<1>1. PICK n \in Nat : n = Len(t)
  OBVIOUS
<1>2. 0 \in T
  <2>1. i + 0 = i
    OBVIOUS
  <2> QED  BY <2>1
<1>3. ASSUME NEW j \in Nat, j \in T
      PROVE  j + 1 \in T
  <2>1. SUFFICES ASSUME j <= l PROVE same(j + 1)
    OBVIOUS
  <2>2. i + j \in 1 .. n /\ (i + j) + 1 = i + (j + 1) /\ j \in 0 .. l /\ j <= l + 1
    BY <1>1, <2>1
  <2>3. same(j) /\ Plain(t, i + j)
    BY <1>3, <2>2
  <2>4. ~Escaped(t, (i + j) + 1) /\ Around(t, (i + j) + 1) = Behind(t, i + j, Around(t, i + j))
    BY <1>1, <2>2, <2>3, EscapedIs, AroundIs DEF Plain
  <2> QED  BY <2>2, <2>3, <2>4 DEF Behind, Plain
<1>4. Nat \subseteq T
  <2> HIDE DEF T
  <2> QED  BY <1>2, <1>3, Induction
<1>5. ASSUME NEW j \in 0 .. l + 1
      PROVE  same(j)
  <2>1. j \in T /\ j <= l + 1
    BY <1>4
  <2> QED  BY <2>1
<1> QED  BY <1>5

\* The scan is at a symbol that is not escaped, and knows the quote around it; or it has
\* escaped what would be behind the text.
Synced(t, i, by) == i <= Len(t) + 1 => ~Escaped(t, i) /\ by = Around(t, i)

LEMMA StepKeepsSynced ==
  ASSUME NEW t \in Seq(Symbols), Unmixed(t), NEW i \in 1 .. Len(t), NEW by \in InEffect,
         Synced(t, i, by)
  PROVE  /\ Synced(t, Step(t, i, by).next, Step(t, i, by).by)
         /\ \A k \in UnquotedMarks(t) : i < k => Step(t, i, by).next <= k
         /\ i \in UnquotedMarks(t) <=> by = NoQuote /\ t[i] \in Signs
<1>1. PICK n \in Nat : n = Len(t)
  OBVIOUS
<1>2. /\ i \in Nat /\ i + 1 \in 1 .. n + 1 /\ i <= n + 1
      /\ ~Escaped(t, i) /\ by = Around(t, i)
  BY <1>1 DEF Synced
<1>3. UnquotedMarks(t) \subseteq 1 .. n
  BY <1>1 DEF UnquotedMarks
<1>4. /\ Escaped(t, i + 1) <=> t[i] = Backslash
      /\ Around(t, i + 1) = Behind(t, i, by)
  BY <1>2, EscapedIs, AroundIs
<1>5. i + 1 <= n => /\ Escaped(t, i + 2) <=> t[i + 1] = Backslash /\ ~Escaped(t, i + 1)
                    /\ Around(t, i + 2) = Behind(t, i + 1, Around(t, i + 1))
  <2>1. (i + 1) + 1 = i + 2 /\ (i + 1 <= n => i + 1 \in 1 .. Len(t))
    BY <1>1, <1>2
  <2> QED  BY <2>1, EscapedIs, AroundIs
<1>6. i + 2 <= n + 1 <=> i + 1 <= n
  BY <1>2
<1>7. \A k \in UnquotedMarks(t) : i < k => i + 1 <= k /\ (k # i + 1 => i + 2 <= k)
  BY <1>2, <1>3
<1>8. i \in UnquotedMarks(t) <=> by = NoQuote /\ t[i] \in Signs
  BY <1>2 DEF UnquotedMarks, Unquoted
<1> DEFINE keeps(step) == /\ Synced(t, step.next, step.by)
                          /\ \A k \in UnquotedMarks(t) : i < k => step.next <= k
<1>9. ASSUME NEW b, ~Escaped(t, i + 1), b = Around(t, i + 1)
      PROVE  keeps([next |-> i + 1, by |-> b])
  BY <1>7, <1>9 DEF Synced
<1>10. ASSUME NEW b, i + 1 <= n => ~Escaped(t, i + 2) /\ b = Around(t, i + 2),
              i + 1 \notin UnquotedMarks(t)
       PROVE  keeps([next |-> i + 2, by |-> b])
  BY <1>1, <1>6, <1>7, <1>10 DEF Synced
<1> DEFINE step == Step(t, i, by)
<1>11. CASE t[i] = Backslash
  <2>1. Escaped(t, i + 1) /\ Around(t, i + 1) = by
    <3>1. t[i] \notin Quotes
      BY <1>11 DEF Backslash, Quotes
    <3> QED  BY <1>4, <1>11, <3>1 DEF Behind
  <2>2. i + 1 <= n => ~Escaped(t, i + 2) /\ by = Around(t, i + 2)
    BY <1>5, <2>1 DEF Behind
  <2>3. i + 1 \notin UnquotedMarks(t)
    BY <2>1 DEF UnquotedMarks, Unquoted
  <2>4. step = [next |-> i + 2, by |-> by]
    BY <1>11, StepIs
  <2> HIDE DEF keeps, step
  <2>5. keeps(step)
    BY <1>10, <2>2, <2>3, <2>4
  <2> QED  BY <1>8, <2>5 DEF keeps, step
<1>12. CASE t[i] \in Quotes /\ by # t[i]
  <2>1. by = NoQuote
    BY <1>2, <1>12 DEF Unmixed
  <2>2. ~Escaped(t, i + 1)
    <3>1. t[i] # Backslash
      BY <1>12 DEF Backslash, Quotes
    <3> QED  BY <1>4, <3>1
  <2>3. Around(t, i + 1) = t[i]
    BY <1>2, <1>4, <1>12, <2>1 DEF Behind
  <2>4. step = [next |-> i + 1, by |-> t[i]]
    BY <1>12, StepIs
  <2> HIDE DEF keeps, step
  <2>5. keeps(step)
    BY <1>9, <2>2, <2>3, <2>4
  <2> QED  BY <1>8, <2>5 DEF keeps, step
<1>13. CASE t[i] \in Quotes /\ by = t[i]
  <2>1. ~Escaped(t, i + 1)
    <3>1. t[i] # Backslash
      BY <1>13 DEF Backslash, Quotes
    <3> QED  BY <1>4, <3>1
  <2>2. Around(t, i + 1) = NoQuote
    <3>1. by # NoQuote
      BY <1>13 DEF Quotes, NoQuote
    <3> QED  BY <1>2, <1>4, <1>13, <3>1 DEF Behind
  <2>3. CASE i < n /\ t[i + 1] = t[i]
    <3>1. i + 1 \notin UnquotedMarks(t) /\ t[i + 1] # Backslash
      <4>1. t[i + 1] \notin Signs /\ t[i + 1] # Backslash
        BY <1>13, <2>3 DEF Quotes, Signs, Sign, Backslash
      <4> QED  BY <4>1 DEF UnquotedMarks
    <3>2. i + 1 <= n => ~Escaped(t, i + 2) /\ by = Around(t, i + 2)
      BY <1>5, <1>13, <2>1, <2>2, <2>3, <3>1 DEF Behind
    <3>3. step = [next |-> i + 2, by |-> by]
      BY <1>1, <1>13, <2>3, StepIs
    <3> HIDE DEF keeps, step
    <3>4. keeps(step)
      BY <1>10, <3>1, <3>2, <3>3
    <3> QED  BY <1>8, <3>4 DEF keeps, step
  <2>4. CASE ~(i < n /\ t[i + 1] = t[i])
    <3>1. step = [next |-> i + 1, by |-> NoQuote]
      BY <1>1, <1>13, <2>4, StepIs
    <3> HIDE DEF keeps, step
    <3>2. keeps(step)
      BY <1>9, <2>1, <2>2, <3>1
    <3> QED  BY <1>8, <3>2 DEF keeps, step
  <2> QED  BY <2>3, <2>4
<1>14. CASE t[i] = Sign /\ by = NoQuote
  <2>1. PICK l \in 0 .. n - i : l = NameLength(t, i)
    BY <1>1, NameIs
  <2>2. \A j \in 1 .. l : t[i + j] \in Letters \cup Digits
    BY <2>1, NameIs
  <2>3. \A j \in 0 .. l : Plain(t, i + j)
    <3>1. ASSUME NEW j \in 0 .. l
          PROVE  Plain(t, i + j)
      <4>1. CASE j = 0
        <5>1. i + j = i /\ t[i] \in Signs
          BY <1>2, <1>14, <4>1 DEF Signs
        <5> QED  BY <5>1, PlainIsPlain
      <4>2. CASE j # 0
        <5>1. j \in 1 .. l
          BY <4>2
        <5> QED  BY <2>2, <5>1, PlainIsPlain
      <4> QED  BY <4>1, <4>2
    <3> QED  BY <3>1
  <2>4. ~Escaped(t, i + (l + 1)) /\ Around(t, i + (l + 1)) = by
    <3>1. \A j \in 0 .. l + 1 : ~Escaped(t, i + j) /\ Around(t, i + j) = Around(t, i)
      BY <1>1, <1>2, <2>3, PlainRun
    <3>2. l + 1 \in 0 .. l + 1
      BY <1>2
    <3> HIDE DEF step
    <3> QED  BY <1>2, <3>1, <3>2, Zenon
  <2>5. \A k \in UnquotedMarks(t) : i < k => i + 1 + l <= k
    <3>1. SUFFICES ASSUME NEW k \in UnquotedMarks(t), i < k, k < i + 1 + l PROVE FALSE
      BY <1>2, <1>3
    <3>2. k - i \in 1 .. l /\ i + (k - i) = k
      BY <1>2, <1>3, <3>1
    <3>3. t[k] \in Letters \cup Digits /\ t[k] \in Signs
      <4>1. t[i + (k - i)] \in Letters \cup Digits
        BY <2>2, <3>2
      <4> QED  BY <3>2, <4>1 DEF UnquotedMarks
    <3> QED  BY <3>3 DEF Letters, Digits, Signs, Sign
  <2>6. step = [next |-> i + 1 + l, by |-> by]
    BY <1>14, <2>1, StepIs
  <2>7. i + 1 + l = i + (l + 1)
    BY <1>2, <2>1
  <2>8. keeps(step)
    BY <2>4, <2>5, <2>6, <2>7 DEF Synced
  <2> HIDE DEF keeps, step
  <2> QED  BY <1>8, <2>8 DEF keeps, step
<1>15. CASE t[i] # Backslash /\ t[i] \notin Quotes /\ ~(t[i] = Sign /\ by = NoQuote)
  <2>1. ~Escaped(t, i + 1) /\ Around(t, i + 1) = by
    BY <1>4, <1>15 DEF Behind
  <2>2. step = [next |-> i + 1, by |-> by]
    BY <1>15, StepIs
  <2> HIDE DEF keeps, step
  <2>3. keeps(step)
    BY <1>9, <2>1, <2>2
  <2> QED  BY <1>8, <2>3 DEF keeps, step
<1> QED  BY <1>11, <1>12, <1>13, <1>14, <1>15

\* A list of the unquoted marks from i on.
Lists(t, q, i) ==
  /\ q \in Seq([at : Nat, size : Nat])
  /\ \A j \in 1 .. Len(q) :
       q[j].at \in UnquotedMarks(t) /\ i <= q[j].at /\ q[j] = Found(t, q[j].at)
  /\ \A k \in UnquotedMarks(t) : i <= k => \E j \in 1 .. Len(q) : q[j].at = k
  /\ \A j, k \in 1 .. Len(q) : j < k => q[j].at < q[k].at

LEMMA FirstIsListed ==
  ASSUME NEW t \in Seq(Symbols), NEW i \in UnquotedMarks(t), NEW next \in Nat, i < next,
         \A k \in UnquotedMarks(t) : i < k => next <= k,
         NEW q, Lists(t, q, next), <<Found(t, i)>> \o q \in Seq([at : Nat, size : Nat])
  PROVE  Lists(t, <<Found(t, i)>> \o q, i)
<1> DEFINE p == <<Found(t, i)>> \o q
<1>1. PICK n \in Nat : n = Len(q)
  BY DEF Lists
<1>2. Len(p) = n + 1 /\ p[1] = Found(t, i) /\ \A j \in 1 .. n : p[j + 1] = q[j]
  BY <1>1 DEF Lists
<1> HIDE DEF p
<1>3. Found(t, i).at = i
  BY DEF Found, Mark
<1>4. UnquotedMarks(t) \subseteq Nat
  BY DEF UnquotedMarks
<1>5. ASSUME NEW j \in 1 .. n + 1
      PROVE  \/ j = 1 /\ p[j] = Found(t, i) /\ p[j].at = i
             \/ /\ j - 1 \in 1 .. n /\ p[j] = q[j - 1]
                /\ p[j].at \in UnquotedMarks(t) /\ next <= p[j].at /\ p[j] = Found(t, p[j].at)
  <2>1. CASE j = 1
    BY <1>2, <1>3, <2>1
  <2>2. CASE j # 1
    <3>1. PICK k \in 1 .. n : k = j - 1 /\ k + 1 = j
      BY <2>2
    <3>2. p[j] = q[k]
      BY <1>2, <3>1
    <3>3. q[k].at \in UnquotedMarks(t) /\ next <= q[k].at /\ q[k] = Found(t, q[k].at)
      BY <1>1, <3>1 DEF Lists
    <3> QED  BY <3>1, <3>2, <3>3
  <2> QED  BY <2>1, <2>2
<1>6. \A j \in 1 .. n + 1 : p[j].at \in UnquotedMarks(t) /\ i <= p[j].at /\ p[j] = Found(t, p[j].at)
  <2>1. ASSUME NEW j \in 1 .. n + 1
        PROVE  p[j].at \in UnquotedMarks(t) /\ i <= p[j].at /\ p[j] = Found(t, p[j].at)
    <3>1. \A k \in UnquotedMarks(t) : next <= k => i <= k
      BY <1>4
    <3> QED  BY <1>4, <1>5, <3>1
  <2> QED  BY <2>1
<1>7. ASSUME NEW k \in UnquotedMarks(t), i <= k
      PROVE  \E j \in 1 .. n + 1 : p[j].at = k
  <2>1. CASE k = i
    <3>1. 1 \in 1 .. n + 1 /\ p[1].at = k
      BY <1>2, <1>3, <2>1
    <3> QED  BY <3>1
  <2>2. CASE k # i
    <3>1. next <= k
      BY <1>4, <1>7, <2>2
    <3>2. PICK j \in 1 .. n : q[j].at = k
      BY <1>1, <3>1 DEF Lists
    <3>3. j + 1 \in 1 .. n + 1 /\ p[j + 1].at = k
      BY <1>2, <3>2
    <3> QED  BY <3>3
  <2> QED  BY <2>1, <2>2
<1>8. ASSUME NEW j \in 1 .. n + 1, NEW k \in 1 .. n + 1, j < k
      PROVE  p[j].at < p[k].at
  <2>1. k # 1 /\ k - 1 \in 1 .. n /\ p[k] = q[k - 1] /\ next <= p[k].at /\ p[k].at \in Nat
    <3>1. k # 1
      BY <1>8
    <3>2. /\ k - 1 \in 1 .. n /\ p[k] = q[k - 1]
          /\ p[k].at \in UnquotedMarks(t) /\ next <= p[k].at
      BY <1>5, <3>1
    <3> QED  BY <1>4, <3>1, <3>2
  <2>2. CASE j = 1
    <3>1. p[j].at = i /\ i \in Nat
      BY <1>2, <1>3, <1>4, <2>2
    <3> QED  BY <2>1, <3>1
  <2>3. CASE j # 1
    <3>1. PICK a \in 1 .. n, b \in 1 .. n : a = j - 1 /\ b = k - 1 /\ a < b
      BY <1>8, <2>1, <2>3
    <3>2. p[j] = q[a] /\ p[k] = q[b]
      BY <1>5, <2>1, <2>3, <3>1
    <3>3. q[a].at < q[b].at
      BY <1>1, <3>1 DEF Lists
    <3> QED  BY <3>2, <3>3
  <2> QED  BY <2>2, <2>3
<1> QED  BY <1>2, <1>6, <1>7, <1>8 DEF Lists, p

\* Wherever the scan is, it finds exactly the unquoted marks from there on.
LEMMA ScanListsMarks ==
  ASSUME NEW t \in Seq(Symbols), Unmixed(t), NEW f, IsScan(t, f)
  PROVE  \A i \in 1 .. Len(t) + 2 : \A by \in InEffect :
           Synced(t, i, by) => Lists(t, f[i][by], i)
<1>1. PICK n \in Nat : n = Len(t)
  OBVIOUS
<1> DEFINE right(i) == \A by \in InEffect : Synced(t, i, by) => Lists(t, f[i][by], i)
           T == {d \in Nat : \A i \in 1 .. n + 2 : n + 2 - i <= d => right(i)}
<1>2. UnquotedMarks(t) \subseteq 1 .. n
  BY <1>1 DEF UnquotedMarks
<1>3. ASSUME NEW i \in 1 .. n + 2, \A j \in i + 1 .. n + 2 : right(j)
      PROVE  right(i)
  <2> SUFFICES ASSUME NEW by \in InEffect, Synced(t, i, by)
               PROVE  Lists(t, f[i][by], i)
    OBVIOUS
  <2>1. f[i][by] = Scans(t, f, i, by) /\ f[i][by] \in Seq([at : Nat, size : Nat])
    BY <1>1 DEF IsScan
  <2>2. CASE i > n
    <3>1. f[i][by] = <<>>
      BY <1>1, <2>1, <2>2 DEF Scans
    <3>2. \A k \in UnquotedMarks(t) : ~(i <= k)
      BY <1>2, <2>2
    <3> QED  BY <2>1, <3>1, <3>2 DEF Lists
  <2>3. CASE ~(i > n)
    <3>1. i \in 1 .. Len(t) /\ i \in Nat
      BY <1>1, <2>3
    <3>2. PICK next \in i + 1 .. n + 2, b \in InEffect :
            next = Step(t, i, by).next /\ b = Step(t, i, by).by
      BY <1>1, <3>1, StepTypes
    <3>3. /\ Synced(t, next, b)
          /\ \A k \in UnquotedMarks(t) : i < k => next <= k
          /\ i \in UnquotedMarks(t) <=> by = NoQuote /\ t[i] \in Signs
      BY <3>1, <3>2, StepKeepsSynced
    <3>4. Lists(t, f[next][b], next)
      BY <1>3, <3>2, <3>3
    <3>5. f[i][by] = IF i \in UnquotedMarks(t) THEN <<Found(t, i)>> \o f[next][b] ELSE f[next][b]
      BY <1>1, <2>1, <2>3, <3>2, <3>3 DEF Scans
    <3>6. CASE i \in UnquotedMarks(t)
      <4>1. next \in Nat /\ i < next
        BY <3>1, <3>2
      <4> QED  BY <2>1, <3>3, <3>4, <3>5, <3>6, <4>1, FirstIsListed
    <3>7. CASE i \notin UnquotedMarks(t)
      <4>1. \A k \in UnquotedMarks(t) : i <= k <=> next <= k
        BY <1>2, <3>1, <3>2, <3>3, <3>7
      <4> QED  BY <3>4, <3>5, <3>7, <4>1 DEF Lists
    <3> QED  BY <3>6, <3>7
  <2> QED  BY <2>2, <2>3
<1>4. 0 \in T
  <2>1. SUFFICES ASSUME NEW i \in 1 .. n + 2, n + 2 - i <= 0 PROVE right(i)
    OBVIOUS
  <2>2. \A j \in i + 1 .. n + 2 : FALSE
    BY <2>1
  <2> HIDE DEF right
  <2> QED  BY <1>3, <2>2
<1>5. ASSUME NEW d \in Nat, d \in T
      PROVE  d + 1 \in T
  <2>1. SUFFICES ASSUME NEW i \in 1 .. n + 2, n + 2 - i <= d + 1 PROVE right(i)
    OBVIOUS
  <2>2. \A j \in i + 1 .. n + 2 : j \in 1 .. n + 2 /\ n + 2 - j <= d
    BY <2>1
  <2> HIDE DEF right
  <2>3. \A j \in i + 1 .. n + 2 : right(j)
    BY <1>5, <2>2
  <2> QED  BY <1>3, <2>3
<1>6. \A i \in 1 .. n + 2 : right(i)
  <2> HIDE DEF right
  <2>1. Nat \subseteq T
    <3> HIDE DEF T
    <3> QED  BY <1>4, <1>5, Induction
  <2>2. PICK d \in Nat : d = n + 2
    OBVIOUS
  <2>3. \A i \in 1 .. n + 2 : n + 2 - i <= d
    BY <2>2
  <2>4. d \in T
    <3> HIDE DEF T
    <3> QED  BY <2>1
  <2> QED  BY <2>3, <2>4
<1> QED  BY <1>1, <1>6

LEMMA ParametersAreListed ==
  ASSUME NEW t \in Seq(Symbols), Unmixed(t)
  PROVE  Lists(t, Parameters(t), 1)
<1>1. PICK f : IsScan(t, f)
  BY ScanIs
<1>2. Synced(t, 1, NoQuote) /\ NoQuote \in InEffect /\ 1 \in 1 .. Len(t) + 2
  BY EscapedIs, AroundIs DEF Synced, InEffect
<1> QED  BY <1>1, <1>2, ScanListsMarks DEF IsScan

-----------------------------------------------------------------------------
(***************************************************************************)
(* A text without some places                                              *)
(***************************************************************************)

\* K[k] is what is kept of the first k symbols.
IsKept(u, X, places, K) ==
  /\ Without(u, places) = K[Len(u)]
  /\ K[0] = <<>>
  /\ \A k \in 1 .. Len(u) : K[k] = IF k \in places THEN K[k - 1] ELSE Append(K[k - 1], u[k])
  /\ \A k \in 0 .. Len(u) : K[k] \in Seq(X)

LEMMA WithoutIs ==
  ASSUME NEW X, NEW u \in Seq(X), NEW places
  PROVE  \E K : IsKept(u, X, places, K)
<1> DEFINE D == 0 .. Len(u)
           S == Seq(X)
           m == [k \in D |-> k]
           value(f, k) == IF k = 0 THEN <<>>
                          ELSE IF k \in places THEN f[k - 1]
                          ELSE Append(f[k - 1], u[k])
           step == [k \in D |-> [f \in [D -> S] |-> value(f, k)]]
<1>1. Len(u) \in Nat /\ S # {} /\ m \in [D -> 0 .. Len(u)] /\ <<>> \in S
  <2>1. Len(u) \in Nat /\ <<>> \in S
    OBVIOUS
  <2> QED  BY <2>1
<1>2. \A k \in D : k # 0 => k - 1 \in D /\ k - 1 < k /\ k \in 1 .. Len(u)
  BY <1>1
<1>3. ASSUME NEW k \in D, NEW f, k # 0 => f[k - 1] \in S
      PROVE  value(f, k) \in S
  <2>1. k # 0 => u[k] \in X
    BY <1>2
  <2> QED  BY <1>1, <1>3, <2>1
<1>4. ASSUME NEW k \in D, NEW f \in [D -> S]
      PROVE  value(f, k) \in S
  <2> HIDE DEF value, S, D
  <2> QED  BY <1>2, <1>3
<1>5. ASSUME NEW k \in D, NEW f \in [D -> S], NEW g \in [D -> S],
             \A j \in D : m[j] < m[k] => f[j] = g[j]
      PROVE  value(f, k) = value(g, k)
  <2>1. k # 0 => f[k - 1] = g[k - 1]
    BY <1>2, <1>5
  <2> QED  BY <2>1
<1>6. PICK f \in [D -> S] : \A k \in D : f[k] = step[k][f]
  <2> HIDE DEF S, D, m, value
  <2>1. step \in [D -> [[D -> S] -> S]]
    BY <1>4
  <2>2. PICK n \in Nat : n = Len(u)
    BY <1>1
  <2>3. DependsBelow(D, S, m, step)
    BY <1>5 DEF DependsBelow
  <2> HIDE DEF step
  <2>4. IsRecursion(D, S, n, m, step)
    BY <1>1, <2>1, <2>2, <2>3 DEF IsRecursion
  <2> QED  BY <2>4, Recursion
<1> DEFINE IsIt(r) == r = [k \in D |-> value(r, k)]
<1>7. IsIt(f)
  <2> HIDE DEF S, D, m, value
  <2>1. \A k \in D : f[k] = value(f, k)
    BY <1>6
  <2>2. f = [k \in D |-> f[k]]
    BY <1>6
  <2> QED  BY <2>1, <2>2
<1>8. PICK r : IsIt(r) /\ Without(u, places) = r[Len(u)]
  <2> DEFINE r == CHOOSE r : IsIt(r)
  <2>1. IsIt(r)
    <3> HIDE DEF IsIt
    <3> QED  BY <1>7
  <2>2. Without(u, places) = r[Len(u)]
    BY DEF Without
  <2> QED  BY <2>1, <2>2
<1>9. \A k \in D : r[k] = value(r, k)
  <2> HIDE DEF value, D
  <2> QED  BY <1>8
<1> DEFINE T == {k \in Nat : k \in D => r[k] \in S}
<1>10. 0 \in T
  <2>1. 0 \in D
    BY <1>1
  <2>2. value(r, 0) = <<>>
    OBVIOUS
  <2> HIDE DEF value, S, D
  <2> QED  BY <1>1, <1>9, <2>1, <2>2
<1>11. ASSUME NEW k \in Nat, k \in T
       PROVE  k + 1 \in T
  <2>1. SUFFICES ASSUME k + 1 \in D PROVE r[k + 1] \in S
    OBVIOUS
  <2>2. k \in D /\ (k + 1) - 1 = k
    BY <1>1, <2>1
  <2>3. r[k] \in S
    BY <1>11, <2>2
  <2> HIDE DEF value, S, D
  <2> QED  BY <1>3, <1>9, <2>1, <2>2, <2>3
<1>12. \A k \in D : r[k] \in S
  <2>1. Nat \subseteq T
    <3> HIDE DEF T
    <3> QED  BY <1>10, <1>11, Induction
  <2>2. D \subseteq Nat
    BY <1>1
  <2> HIDE DEF S, D
  <2> QED  BY <2>1, <2>2
<1>13. r[0] = <<>>
  <2>1. 0 \in D
    BY <1>1
  <2> QED  BY <1>9, <2>1
<1>14. \A k \in 1 .. Len(u) : r[k] = IF k \in places THEN r[k - 1] ELSE Append(r[k - 1], u[k])
  <2>1. \A k \in 1 .. Len(u) : k \in D /\ k # 0
    BY <1>1
  <2> QED  BY <1>9, <2>1
<1> QED  BY <1>8, <1>12, <1>13, <1>14 DEF IsKept

\* One symbol more is one symbol more of what was added.
AddsAtTheEnd(x, y, e) == Append(x \o y, e) = x \o (y \o <<e>>)

LEMMA OneMoreKept ==
  ASSUME NEW X, NEW x \in Seq(X), NEW y \in Seq(X), NEW e \in X
  PROVE  AddsAtTheEnd(x, y, e)
<1>1. PICK z \in Seq(X), w \in Seq(X) : z = <<e>> /\ w = x \o y
  <2>1. <<e>> \in Seq(X)
    OBVIOUS
  <2>2. x \o y \in Seq(X)
    OBVIOUS
  <2> QED  BY <2>1, <2>2
<1>2. Append(w, e) = w \o z
  BY <1>1, AppendIsConcat
<1>3. (x \o y) \o z = x \o (y \o z)
  BY ConcatAssociative
<1> QED  BY <1>1, <1>2, <1>3, Zenon DEF AddsAtTheEnd

\* A part of the text with none of the places is kept as it is.
Keeps(u, K, a, b) == K[b] = K[a] \o SubSeq(u, a + 1, b)

LEMMA KeptRun ==
  ASSUME NEW X, NEW u \in Seq(X), NEW places, NEW K, IsKept(u, X, places, K),
         NEW a \in 0 .. Len(u), NEW b \in a .. Len(u), \A k \in a + 1 .. b : k \notin places
  PROVE  Keeps(u, K, a, b)
<1>1. PICK n \in Nat : n = Len(u)
  OBVIOUS
<1> DEFINE whole(c) == K[c] = K[a] \o SubSeq(u, a + 1, c)
           T == {d \in Nat : a + d <= b => whole(a + d)}
<1>2. K[a] \in Seq(X)
  BY DEF IsKept
<1>3. 0 \in T
  <2>1. a + 0 = a /\ a < a + 1 /\ a \in Int /\ a + 1 \in Int
    BY <1>1
  <2>2. SubSeq(u, a + 1, a) = <<>>
    BY <2>1, SubSeqEmpty
  <2>3. K[a] \o <<>> = K[a]
    BY <1>2, ConcatEmptySeq
  <2> QED  BY <2>1, <2>2, <2>3
<1>4. ASSUME NEW d \in Nat, d \in T
      PROVE  d + 1 \in T
  <2>1. SUFFICES ASSUME a + (d + 1) <= b
                 PROVE  whole(a + (d + 1))
    <3> HIDE DEF whole
    <3> QED  OBVIOUS
  <2>2. PICK c \in 1 .. n : c = a + (d + 1) /\ c - 1 = a + d /\ c - 1 <= b
    BY <1>1, <2>1
  <2>3. c \in a + 1 .. b /\ c \in a + 1 .. n /\ a + 1 \in 1 .. n
    BY <1>1, <2>1, <2>2
  <2>4. K[c] = Append(K[c - 1], u[c])
    BY <1>1, <2>2, <2>3 DEF IsKept
  <2>5. K[c - 1] = K[a] \o SubSeq(u, a + 1, c - 1)
    BY <1>4, <2>2
  <2>6. SubSeq(u, a + 1, c) = SubSeq(u, a + 1, c - 1) \o <<u[c]>>
    BY <1>1, <2>3, SubSeqRecursiveSecond
  <2>7. SubSeq(u, a + 1, c - 1) \in Seq(X) /\ <<u[c]>> \in Seq(X) /\ u[c] \in X
    <3>1. u[c] \in X /\ \A i \in a + 1 .. c - 1 : u[i] \in X
      BY <1>1, <2>2
    <3>2. a + 1 \in Int /\ c - 1 \in Int
      BY <2>2
    <3>3. SubSeq(u, a + 1, c - 1) \in Seq(X)
      BY <3>1, <3>2, SubSeqProperties
    <3> QED  BY <3>1, <3>3
  <2>8. Append(K[a] \o SubSeq(u, a + 1, c - 1), u[c]) = K[a] \o (SubSeq(u, a + 1, c - 1) \o <<u[c]>>)
    <3>1. PICK x \in Seq(X), y \in Seq(X), e \in X :
            x = K[a] /\ y = SubSeq(u, a + 1, c - 1) /\ e = u[c]
      BY <1>2, <2>7
    <3>2. AddsAtTheEnd(x, y, e)
      BY OneMoreKept
    <3> QED  BY <3>1, <3>2, Zenon DEF AddsAtTheEnd
  <2>9. K[c] = K[a] \o SubSeq(u, a + 1, c)
    BY <2>4, <2>5, <2>6, <2>8, Zenon
  <2> QED  BY <2>2, <2>9
<1>5. PICK d \in Nat : a + d = b
  <2>1. b - a \in Nat /\ a + (b - a) = b
    BY <1>1
  <2> QED  BY <2>1
<1>6. d \in T
  <2> HIDE DEF T
  <2> QED  BY <1>3, <1>4, Induction
<1>7. whole(b)
  <2> HIDE DEF whole
  <2> QED  BY <1>5, <1>6
<1> QED  BY <1>7, Zenon DEF Keeps

\* Of a part of the text with nothing but the places, nothing is kept.
LEMMA DroppedRun ==
  ASSUME NEW X, NEW u \in Seq(X), NEW places, NEW K, IsKept(u, X, places, K),
         NEW a \in 0 .. Len(u), NEW b \in a .. Len(u), \A k \in a + 1 .. b : k \in places
  PROVE  K[b] = K[a]
<1>1. PICK n \in Nat : n = Len(u)
  OBVIOUS
<1> DEFINE T == {d \in Nat : a + d <= b => K[a + d] = K[a]}
<1>2. 0 \in T
  <2>1. a + 0 = a
    BY <1>1
  <2> QED  BY <2>1
<1>3. ASSUME NEW d \in Nat, d \in T
      PROVE  d + 1 \in T
  <2>1. SUFFICES ASSUME a + (d + 1) <= b PROVE K[a + (d + 1)] = K[a]
    OBVIOUS
  <2>2. PICK c \in 1 .. n : c = a + (d + 1) /\ c - 1 = a + d /\ c - 1 <= b
    BY <1>1, <2>1
  <2>3. c \in a + 1 .. b
    BY <1>1, <2>1, <2>2
  <2>4. K[c] = K[c - 1]
    BY <1>1, <2>2, <2>3 DEF IsKept
  <2> QED  BY <1>3, <2>2, <2>4
<1>4. PICK d \in Nat : a + d = b
  <2>1. b - a \in Nat /\ a + (b - a) = b
    BY <1>1
  <2> QED  BY <2>1
<1>5. d \in T
  <2> HIDE DEF T
  <2> QED  BY <1>2, <1>3, Induction
<1> QED  BY <1>1, <1>4, <1>5

\* Texts that agree on a part have the same part.
LEMMA SamePart ==
  ASSUME NEW X, NEW u \in Seq(X), NEW t \in Seq(X), Len(u) = Len(t),
         NEW a \in 1 .. Len(t) + 1, NEW b \in 0 .. Len(t), \A k \in a .. b : u[k] = t[k]
  PROVE  SubSeq(u, a, b) = SubSeq(t, a, b) /\ SubSeq(t, a, b) \in Seq(X)
<1>1. PICK n \in Nat : n = Len(t)
  OBVIOUS
<1>2. a \in Int /\ b \in Int
  BY <1>1
<1>3. \A i \in a .. b : u[i] \in X /\ t[i] \in X
  BY <1>1
<1>4. /\ SubSeq(t, a, b) \in Seq(X)
      /\ Len(SubSeq(t, a, b)) = IF a <= b THEN b - a + 1 ELSE 0
      /\ \A i \in 1 .. b - a + 1 : SubSeq(t, a, b)[i] = t[a + i - 1]
  BY <1>2, <1>3, SubSeqProperties
<1>5. /\ SubSeq(u, a, b) \in Seq(X)
      /\ Len(SubSeq(u, a, b)) = IF a <= b THEN b - a + 1 ELSE 0
      /\ \A i \in 1 .. b - a + 1 : SubSeq(u, a, b)[i] = u[a + i - 1]
  BY <1>2, <1>3, SubSeqProperties
<1>6. CASE a <= b
  <2>1. \A i \in 1 .. b - a + 1 : a + i - 1 \in a .. b
    BY <1>2, <1>6
  <2>2. \A i \in 1 .. b - a + 1 : SubSeq(u, a, b)[i] = SubSeq(t, a, b)[i]
    BY <1>4, <1>5, <2>1
  <2> QED  BY <1>4, <1>5, <1>6, <2>2, SeqEqual
<1>7. CASE ~(a <= b)
  <2>1. b < a
    BY <1>2, <1>7
  <2> QED  BY <1>2, <1>4, <2>1, SubSeqEmpty
<1> QED  BY <1>6, <1>7

-----------------------------------------------------------------------------
(***************************************************************************)
(* The parameters in the text                                              *)
(***************************************************************************)

\* Where a parameter found at s ends: the symbols of its name, and no mark, are in it.
LEMMA ExtentIs ==
  ASSUME NEW t \in Seq(Symbols), NEW s \in UnquotedMarks(t)
  PROVE  /\ Found(t, s).at = s
         /\ Found(t, s).size \in Nat \ {0}
         /\ s + Found(t, s).size <= Len(t) + 1
         /\ s \notin NameSymbols(t)
         /\ \A k \in 1 .. Len(t) : s < k /\ k < s + Found(t, s).size =>
              k \in NameSymbols(t) /\ k \notin UnquotedMarks(t)
<1>1. PICK n \in Nat : n = Len(t)
  OBVIOUS
<1>2. s \in 1 .. n /\ t[s] \in Signs /\ s \in Nat
  BY <1>1 DEF UnquotedMarks
<1>3. PICK l \in 0 .. n - s : l = NameLength(t, s)
  BY <1>1, <1>2, NameIs
<1>4. s \notin NameSymbols(t)
  <2>1. SUFFICES ASSUME NEW sign \in UnquotedMarks(t), sign < s,
                        \A k \in sign + 1 .. s : t[k] \in Letters \cup Digits
                 PROVE  FALSE
    BY DEF NameSymbols
  <2>2. s \in sign + 1 .. s
    BY <1>2, <2>1 DEF UnquotedMarks
  <2> QED  BY <1>2, <2>1, <2>2 DEF Letters, Digits, Signs, Sign
<1>5. CASE t[s] # Sign
  <2>1. Found(t, s) = [at |-> s, size |-> 1]
    BY <1>5 DEF Found, Mark
  <2>2. \A k \in 1 .. n : ~(s < k /\ k < s + 1)
    BY <1>2
  <2> QED  BY <1>1, <1>2, <1>4, <2>1, <2>2
<1>6. CASE t[s] = Sign
  <2>1. Found(t, s) = [at |-> s, size |-> 1 + l]
    BY <1>3, <1>6 DEF Found, Mark
  <2>2. ASSUME NEW k \in s + 1 .. s + l
        PROVE  k \in NameSymbols(t) /\ k \notin UnquotedMarks(t)
    <3>1. \A j \in 1 .. l : t[s + j] \in Letters \/ (t[s + j] \in Digits /\ j > 1)
      BY <1>1, <1>2, <1>3, NameIs
    <3>2. \A i \in s + 1 .. s + l : i - s \in 1 .. l /\ s + (i - s) = i
      BY <1>2, <1>3
    <3>3. \A i \in s + 1 .. s + l : t[i] \in Letters \cup Digits
      BY <3>1, <3>2
    <3>4. t[s + 1] \in Letters
      <4>1. 1 \in 1 .. l /\ ~(1 > 1)
        BY <1>2, <1>3
      <4> QED  BY <3>1, <4>1
    <3>5. k \in 1 .. n /\ s < k /\ s + 1 .. k \subseteq s + 1 .. s + l
      BY <1>2, <1>3
    <3>6. k \in NameSymbols(t)
      BY <1>1, <1>6, <3>3, <3>4, <3>5 DEF NameSymbols
    <3>7. t[k] \notin Signs
      BY <3>3 DEF Letters, Digits, Signs, Sign
    <3> QED  BY <3>6, <3>7 DEF UnquotedMarks
  <2>3. /\ \A k \in 1 .. n : s < k /\ k < s + (1 + l) => k \in s + 1 .. s + l
        /\ s + (1 + l) <= n + 1 /\ 1 + l \in Nat \ {0}
    BY <1>2, <1>3
  <2> QED  BY <1>1, <1>4, <2>1, <2>2, <2>3
<1> QED  BY <1>5, <1>6

\* Every symbol of a name is in the parameter it names.
LEMMA NamesAreInside ==
  ASSUME NEW t \in Seq(Symbols), NEW k \in NameSymbols(t)
  PROVE  /\ k \in 1 .. Len(t)
         /\ \E s \in UnquotedMarks(t) : s < k /\ k < s + Found(t, s).size
<1>1. PICK n \in Nat : n = Len(t)
  OBVIOUS
<1>2. k \in 1 .. n /\ k \in Nat
  BY <1>1 DEF NameSymbols
<1>3. PICK s \in UnquotedMarks(t) : /\ s < k /\ t[s] = Sign /\ t[s + 1] \in Letters
                                    /\ \A i \in s + 1 .. k : t[i] \in Letters \cup Digits
  BY DEF NameSymbols
<1>4. s \in 1 .. n /\ s \in Nat
  BY <1>1 DEF UnquotedMarks
<1>5. PICK l \in Nat : l = NameLength(t, s) /\ l \in 0 .. n - s
  BY <1>1, <1>4, NameIs
<1>6. s + l + 1 <= n => t[s + l + 1] \notin Letters /\ (t[s + l + 1] \in Digits => l = 0)
  BY <1>1, <1>4, <1>5, NameIs
<1>7. k < s + (1 + l)
  <2>1. SUFFICES ASSUME s + l + 1 <= k PROVE FALSE
    BY <1>2, <1>4
  <2>2. s + l + 1 \in s + 1 .. k /\ s + l + 1 <= n
    BY <1>2, <1>4, <2>1
  <2>3. t[s + l + 1] \in Digits /\ l = 0
    BY <1>3, <1>6, <2>2
  <2>4. s + l + 1 = s + 1
    BY <1>4, <2>3
  <2> QED  BY <1>3, <1>6, <2>2, <2>4
<1>8. Found(t, s).size = 1 + l
  BY <1>3, <1>5 DEF Found, Mark
<1> QED  BY <1>1, <1>2, <1>3, <1>7, <1>8

\* Where the text goes on behind the first j of the parameters.
End(q, j) == IF j = 0 THEN 1 ELSE q[j].at + q[j].size

\* The parameters lie one behind the other, and all marks and names are inside of them.
LaidOut(t, q) ==
  /\ \A j \in 0 .. Len(q) : End(q, j) \in 1 .. Len(t) + 1
  /\ \A j \in 1 .. Len(q) :
       /\ q[j].at \in UnquotedMarks(t) \ NameSymbols(t)
       /\ End(q, j - 1) <= q[j].at /\ q[j].at < End(q, j)
       /\ \A k \in q[j].at + 1 .. End(q, j) - 1 : k \in NameSymbols(t)
  /\ \A j \in 0 .. Len(q) : \A k \in 1 .. Len(t) :
       End(q, j) <= k /\ (j < Len(q) => k < q[j + 1].at) =>
         k \notin UnquotedMarks(t) \cup NameSymbols(t)

LEMMA ListIsLaidOut ==
  ASSUME NEW t \in Seq(Symbols), NEW q, Lists(t, q, 1)
  PROVE  LaidOut(t, q)
<1>1. PICK n \in Nat, m \in Nat : n = Len(t) /\ m = Len(q)
  BY DEF Lists
<1>2. UnquotedMarks(t) \subseteq 1 .. n
  BY <1>1 DEF UnquotedMarks
<1>3. ASSUME NEW j \in 1 .. m
      PROVE  /\ q[j].at \in UnquotedMarks(t) \ NameSymbols(t) /\ q[j].at \in 1 .. n
             /\ End(q, j) = q[j].at + Found(t, q[j].at).size
             /\ End(q, j) \in 1 .. n + 1 /\ q[j].at < End(q, j)
             /\ \A k \in q[j].at + 1 .. End(q, j) - 1 :
                  k \in NameSymbols(t) /\ k \notin UnquotedMarks(t)
  <2>1. q[j].at \in UnquotedMarks(t) /\ q[j] = Found(t, q[j].at)
    BY <1>1 DEF Lists
  <2>2. PICK s \in UnquotedMarks(t) : s = q[j].at
    BY <2>1
  <2>3. /\ s \notin NameSymbols(t)
        /\ Found(t, s).size \in Nat \ {0} /\ s + Found(t, s).size <= n + 1
        /\ \A k \in 1 .. n : s < k /\ k < s + Found(t, s).size =>
             k \in NameSymbols(t) /\ k \notin UnquotedMarks(t)
    BY <1>1, ExtentIs
  <2>4. End(q, j) = s + Found(t, s).size
    <3>1. j # 0
      OBVIOUS
    <3> QED  BY <2>1, <2>2, <3>1 DEF End
  <2>5. s + Found(t, s).size \in 1 .. n + 1 /\ s < s + Found(t, s).size /\ s \in 1 .. n
    BY <1>2, <2>3
  <2>6. PICK e \in 1 .. n + 1 : e = s + Found(t, s).size
    BY <2>5
  <2>7. \A k \in s + 1 .. e - 1 : k \in NameSymbols(t) /\ k \notin UnquotedMarks(t)
    <3>1. \A k \in s + 1 .. e - 1 : k \in 1 .. n /\ s < k /\ k < e
      BY <2>5
    <3> QED  BY <2>3, <2>6, <3>1
  <2>8. s < e
    BY <2>5, <2>6
  <2>9. End(q, j) = e
    BY <2>4, <2>6
  <2> QED  BY <2>2, <2>3, <2>5, <2>6, <2>7, <2>8, <2>9, Zenon
<1>4. \A j \in 0 .. m : End(q, j) \in 1 .. n + 1
  <2>1. End(q, 0) = 1 /\ 1 \in 1 .. n + 1
    BY DEF End
  <2>2. \A j \in 0 .. m : j = 0 \/ j \in 1 .. m
    OBVIOUS
  <2> QED  BY <1>3, <2>1, <2>2
<1>5. ASSUME NEW h \in 1 .. m, NEW j \in 1 .. m, h < j
      PROVE  End(q, h) <= q[j].at
  <2>1. q[h].at < q[j].at
    BY <1>1, <1>5 DEF Lists
  <2>2. SUFFICES ASSUME q[j].at < End(q, h) PROVE FALSE
    BY <1>3
  <2>3. q[j].at \in q[h].at + 1 .. End(q, h) - 1
    BY <1>3, <2>1, <2>2
  <2> QED  BY <1>3, <2>3
<1>6. ASSUME NEW j \in 1 .. m
      PROVE  End(q, j - 1) <= q[j].at
  <2>1. CASE j = 1
    <3>1. End(q, j - 1) = 1
      BY <2>1 DEF End
    <3> QED  BY <1>3, <3>1
  <2>2. CASE j # 1
    <3>1. j - 1 \in 1 .. m /\ j - 1 < j
      BY <2>2
    <3> QED  BY <1>5, <3>1
  <2> QED  BY <2>1, <2>2
<1>7. ASSUME NEW j \in 0 .. m, NEW h \in 1 .. m, NEW k \in 1 .. n,
             End(q, j) <= k, j < m => k < q[j + 1].at, q[h].at <= k, k < End(q, h)
      PROVE  FALSE
  <2>1. CASE h < j
    <3>1. j \in 1 .. m
      BY <2>1
    <3>2. End(q, h) <= q[j].at /\ q[j].at < End(q, j)
      BY <1>3, <1>5, <2>1, <3>1
    <3> QED  BY <1>3, <1>4, <1>7, <3>1, <3>2
  <2>2. CASE h = j
    BY <1>3, <1>4, <1>7, <2>2
  <2>3. CASE h > j
    <3>1. j + 1 \in 1 .. m /\ j < m /\ (h = j + 1 \/ j + 1 < h)
      BY <2>3
    <3>2. q[j + 1].at <= q[h].at
      <4>1. CASE h = j + 1
        BY <1>3, <4>1
      <4>2. CASE j + 1 < h
        <5>1. q[j + 1].at < q[h].at
          BY <1>1, <3>1, <4>2 DEF Lists
        <5> QED  BY <1>3, <3>1, <5>1
      <4> QED  BY <3>1, <4>1, <4>2
    <3> QED  BY <1>3, <1>7, <3>1, <3>2
  <2> QED  BY <2>1, <2>2, <2>3
<1>8. ASSUME NEW j \in 0 .. m, NEW k \in 1 .. n, End(q, j) <= k, j < m => k < q[j + 1].at
      PROVE  k \notin UnquotedMarks(t) \cup NameSymbols(t)
  <2>1. \A s \in UnquotedMarks(t) : \E h \in 1 .. m : q[h].at = s
    BY <1>1, <1>2 DEF Lists
  <2>2. ASSUME k \in UnquotedMarks(t)
        PROVE  FALSE
    <3>1. PICK h \in 1 .. m : q[h].at = k
      BY <2>1, <2>2
    <3>2. q[h].at <= k /\ k < End(q, h)
      BY <1>3, <3>1
    <3> QED  BY <1>7, <1>8, <3>2
  <2>3. ASSUME k \in NameSymbols(t)
        PROVE  FALSE
    <3>1. PICK s \in UnquotedMarks(t) : s < k /\ k < s + Found(t, s).size
      BY <2>3, NamesAreInside
    <3>2. PICK h \in 1 .. m : q[h].at = s
      BY <2>1
    <3>3. q[h].at <= k /\ k < End(q, h)
      BY <1>2, <1>3, <3>1, <3>2
    <3> QED  BY <1>7, <1>8, <3>3
  <2> QED  BY <2>2, <2>3
<1>9. LaidOut(t, q)
  <2>1. \A j \in 0 .. Len(q) : End(q, j) \in 1 .. Len(t) + 1
    BY <1>1, <1>4
  <2>2. \A j \in 1 .. Len(q) :
          /\ q[j].at \in UnquotedMarks(t) \ NameSymbols(t)
          /\ End(q, j - 1) <= q[j].at /\ q[j].at < End(q, j)
          /\ \A k \in q[j].at + 1 .. End(q, j) - 1 : k \in NameSymbols(t)
    BY <1>1, <1>3, <1>6
  <2>3. \A j \in 0 .. Len(q) : \A k \in 1 .. Len(t) :
          End(q, j) <= k /\ (j < Len(q) => k < q[j + 1].at) =>
            k \notin UnquotedMarks(t) \cup NameSymbols(t)
    BY <1>1, <1>8
  <2> QED  BY <2>1, <2>2, <2>3 DEF LaidOut
<1> QED  BY <1>9

-----------------------------------------------------------------------------
(***************************************************************************)
(* Replacing the parameters                                                *)
(***************************************************************************)

\* How far buildFinalQuery() is when it has replaced one parameter more.
Replacing(t, params, f, n) ==
  IF n = 0 THEN [text |-> <<>>, from |-> 1]
  ELSE LET before == f[n - 1]
           p      == params[n]
       IN  [text |-> before.text \o SubSeq(t, before.from, p.at - 1) \o <<Placed>>,
            from |-> p.at + p.size]

\* What is placed for one parameter more is what is kept up to the end of its name.
IsPlaced(t, q, K, j) ==
  K[End(q, j) - 1]
    = K[End(q, j - 1) - 1] \o SubSeq(t, End(q, j - 1), q[j].at - 1) \o <<Placed>>

LEMMA OneIsReplaced ==
  ASSUME NEW t \in Seq(Symbols), NEW q, LaidOut(t, q), NEW m \in Nat, m = Len(q), NEW X,
         Symbols \subseteq X, InPlace(t) \in Seq(X), Len(InPlace(t)) = Len(t),
         NEW K, IsKept(InPlace(t), X, NameSymbols(t), K), NEW j \in 1 .. m
  PROVE  IsPlaced(t, q, K, j)
<1>0. PICK u : u = InPlace(t)
  OBVIOUS
<1>1. PICK n \in Nat : n = Len(t) /\ n = Len(u)
  BY <1>0
<1>2x. u \in Seq(X) /\ IsKept(u, X, NameSymbols(t), K)
  BY <1>0
<1>2. PICK a \in 0 .. n : a = End(q, j - 1) - 1 /\ End(q, j - 1) = a + 1
  <2>1. j - 1 \in 0 .. m
    OBVIOUS
  <2>2. PICK e \in 1 .. n + 1 : e = End(q, j - 1)
    BY <1>1, <2>1 DEF LaidOut
  <2>3. e - 1 \in 0 .. n /\ (e - 1) + 1 = e
    BY <2>2
  <2> QED  BY <2>2, <2>3
<1>3. PICK c \in 1 .. n : c = q[j].at /\ c \in UnquotedMarks(t) /\ c \notin NameSymbols(t)
  <2>1. q[j].at \in UnquotedMarks(t) \ NameSymbols(t)
    BY DEF LaidOut
  <2>2. UnquotedMarks(t) \subseteq 1 .. n
    BY <1>1 DEF UnquotedMarks
  <2> QED  BY <2>1, <2>2
<1>4. PICK b \in 0 .. n : b = End(q, j) - 1 /\ c <= b
  <2>1. PICK e \in 1 .. n + 1 : e = End(q, j) /\ c < e
    <3>1. j \in 0 .. Len(q) /\ j \in 1 .. Len(q)
      OBVIOUS
    <3>2. End(q, j) \in 1 .. n + 1
      BY <1>1, <3>1 DEF LaidOut
    <3>3. c < End(q, j)
      BY <1>3, <3>1 DEF LaidOut
    <3> QED  BY <3>2, <3>3
  <2> QED  BY <1>3, <2>1
<1>5. a + 1 <= c /\ c - 1 \in a .. n
  <2>1. End(q, j - 1) <= q[j].at
    BY DEF LaidOut
  <2> QED  BY <1>2, <1>3, <2>1
<1>6. \A k \in a + 1 .. c - 1 : k \notin NameSymbols(t) /\ k \notin UnquotedMarks(t)
  <2>1. SUFFICES ASSUME NEW k \in a + 1 .. c - 1
                 PROVE  k \notin UnquotedMarks(t) \cup NameSymbols(t)
    OBVIOUS
  <2>2. PICK h \in 0 .. m : h = j - 1 /\ h + 1 = j
    OBVIOUS
  <2>3. k \in 1 .. n /\ End(q, h) <= k /\ k < q[h + 1].at
    BY <1>2, <1>3, <1>5, <2>2
  <2> QED  BY <1>1, <2>3 DEF LaidOut
<1>7. \A k \in 1 .. n : u[k] = IF k \in UnquotedMarks(t) THEN Placed ELSE t[k]
  BY <1>0, <1>1 DEF InPlace
<1>8. K[c - 1] = K[a] \o SubSeq(t, a + 1, c - 1)
  <2>1. K[c - 1] = K[a] \o SubSeq(u, a + 1, c - 1)
    <3>1. c - 1 \in a .. Len(u) /\ a \in 0 .. Len(u)
      BY <1>1, <1>5
    <3>2. PICK d \in a .. Len(u) : d = c - 1
      BY <3>1
    <3>3. \A k \in a + 1 .. d : k \notin NameSymbols(t)
      BY <1>6, <3>2
    <3>4. Keeps(u, K, a, d)
      BY <1>2x, <3>1, <3>3, KeptRun
    <3> QED  BY <3>2, <3>4, Zenon DEF Keeps
  <2>2. SubSeq(u, a + 1, c - 1) = SubSeq(t, a + 1, c - 1)
    <3>1. t \in Seq(X) /\ Len(u) = Len(t)
      BY <1>1
    <3>2. a + 1 \in 1 .. Len(t) + 1 /\ c - 1 \in 0 .. Len(t)
      BY <1>1, <1>2, <1>3
    <3>3. \A k \in a + 1 .. c - 1 : u[k] = t[k]
      <4>1. a + 1 .. c - 1 \subseteq 1 .. n
        BY <1>2, <1>3
      <4> QED  BY <1>6, <1>7, <4>1
    <3> QED  BY <1>2x, <3>1, <3>2, <3>3, SamePart
  <2> QED  BY <2>1, <2>2, Zenon
<1>9. K[c] = K[c - 1] \o <<Placed>>
  <2>1. u[c] = Placed /\ c \in 1 .. Len(u)
    BY <1>1, <1>3, <1>7
  <2>2. u[c] \in X
    BY <1>2x, <2>1
  <2>3. K[c] = Append(K[c - 1], Placed) /\ K[c - 1] \in Seq(X)
    <3>1. c - 1 \in 0 .. Len(u)
      BY <1>1
    <3> QED  BY <1>3, <1>2x, <2>1, <3>1 DEF IsKept
  <2> QED  BY <2>1, <2>2, <2>3, AppendIsConcat
<1>10. K[b] = K[c]
  <2>1. c \in 0 .. Len(u) /\ b \in c .. Len(u)
    BY <1>1, <1>4
  <2>2. \A k \in c + 1 .. b : k \in NameSymbols(t)
    BY <1>3, <1>4 DEF LaidOut
  <2> QED  BY <1>2x, <2>1, <2>2, DroppedRun
<1> QED  BY <1>2, <1>3, <1>4, <1>8, <1>9, <1>10, Zenon DEF IsPlaced

LEMMA ReplacedIs ==
  ASSUME NEW t \in Seq(Symbols), NEW q, LaidOut(t, q), Len(q) \in Nat
  PROVE  Replaced(t, q) = Without(InPlace(t), NameSymbols(t))
<1> DEFINE X == Symbols \cup {Placed}
           u == InPlace(t)
<1>1. PICK n \in Nat, m \in Nat : n = Len(t) /\ m = Len(q)
  OBVIOUS
<1>2. u \in Seq(X) /\ Len(u) = n /\ Symbols \subseteq X
  BY <1>1 DEF InPlace
<1> HIDE DEF X, u
<1>3. PICK K : IsKept(u, X, NameSymbols(t), K)
  BY <1>2, WithoutIs
<1> DEFINE upTo(j) == [text |-> K[End(q, j) - 1], from |-> End(q, j)]
           g == [j \in 0 .. m |-> upTo(j)]
<1>4. upTo(0) = [text |-> <<>>, from |-> 1]
  <2>1. End(q, 0) = 1 /\ 1 - 1 = 0
    BY DEF End
  <2> QED  BY <1>3, <2>1 DEF IsKept
<1>5. ASSUME NEW f, NEW j \in 1 .. m, f[j - 1] = upTo(j - 1)
      PROVE  Replacing(t, q, f, j) = upTo(j)
  <2>1. upTo(j - 1).text = K[End(q, j - 1) - 1] /\ upTo(j - 1).from = End(q, j - 1)
    OBVIOUS
  <2>2. K[End(q, j) - 1]
          = K[End(q, j - 1) - 1] \o SubSeq(t, End(q, j - 1), q[j].at - 1) \o <<Placed>>
    <3>1. u = InPlace(t) /\ Len(u) = Len(t)
      BY <1>1, <1>2 DEF u
    <3>2. InPlace(t) \in Seq(X) /\ Len(InPlace(t)) = Len(t) /\ IsKept(InPlace(t), X, NameSymbols(t), K)
      BY <1>2, <1>3, <3>1, Zenon
    <3>3. IsPlaced(t, q, K, j)
      BY <1>1, <1>2, <3>2, OneIsReplaced
    <3> QED  BY <3>3, Zenon DEF IsPlaced
  <2>3. End(q, j) = q[j].at + q[j].size /\ j # 0
    BY DEF End
  <2>4. Replacing(t, q, f, j)
          = [text |-> f[j - 1].text \o SubSeq(t, f[j - 1].from, q[j].at - 1) \o <<Placed>>,
             from |-> q[j].at + q[j].size]
    BY <2>3 DEF Replacing
  <2> HIDE DEF upTo
  <2>5. Replacing(t, q, f, j) = [text |-> K[End(q, j) - 1], from |-> End(q, j)]
    BY <1>5, <2>1, <2>2, <2>3, <2>4, Zenon
  <2> QED  BY <2>5 DEF upTo
<1> DEFINE IsIt(r) == r = [j \in 0 .. m |-> Replacing(t, q, r, j)]
<1>6. IsIt(g)
  <2>1. ASSUME NEW j \in 0 .. m
        PROVE  upTo(j) = Replacing(t, q, g, j)
    <3>1. CASE j = 0
      BY <1>4, <3>1 DEF Replacing
    <3>2. CASE j # 0
      <4>1. j \in 1 .. m /\ j - 1 \in 0 .. m
        BY <3>2
      <4>2. g[j - 1] = upTo(j - 1)
        BY <4>1
      <4> HIDE DEF g, upTo
      <4> QED  BY <1>5, <4>1, <4>2
    <3> QED  BY <3>1, <3>2
  <2> HIDE DEF upTo
  <2> QED  BY <2>1
<1>7. PICK r : IsIt(r) /\ Replaced(t, q) = r[m].text \o SubSeq(t, r[m].from, n)
  <2> DEFINE r == CHOOSE r : IsIt(r)
  <2>1. IsIt(r)
    <3> HIDE DEF IsIt
    <3> QED  BY <1>6
  <2>2. Replaced(t, q) = r[m].text \o SubSeq(t, r[m].from, n)
    BY <1>1 DEF Replaced, Replacing
  <2> QED  BY <2>1, <2>2
<1>8. \A j \in 0 .. m : r[j] = Replacing(t, q, r, j)
  BY <1>7
<1> DEFINE T == {j \in Nat : j \in 0 .. m => r[j] = upTo(j)}
<1>9. 0 \in T
  <2>1. r[0] = upTo(0)
    <3>1. 0 \in 0 .. m
      OBVIOUS
    <3> HIDE DEF upTo
    <3> QED  BY <1>4, <1>8, <3>1 DEF Replacing
  <2> QED  BY <2>1
<1>10. ASSUME NEW j \in Nat, j \in T
       PROVE  j + 1 \in T
  <2> HIDE DEF upTo
  <2>1. SUFFICES ASSUME j + 1 \in 0 .. m PROVE r[j + 1] = upTo(j + 1)
    OBVIOUS
  <2>2. j + 1 \in 1 .. m /\ j \in 0 .. m /\ (j + 1) - 1 = j
    BY <2>1
  <2>3. r[(j + 1) - 1] = upTo((j + 1) - 1)
    BY <1>10, <2>2
  <2> QED  BY <1>5, <1>8, <2>1, <2>2, <2>3
<1>11. r[m] = upTo(m)
  <2> HIDE DEF upTo
  <2>1. m \in T
    <3> HIDE DEF T
    <3> QED  BY <1>9, <1>10, Induction
  <2> QED  BY <2>1
<1>12. PICK e \in 1 .. n + 1 : e = End(q, m)
  BY <1>1 DEF LaidOut
<1>13. K[n] = K[e - 1] \o SubSeq(t, e, n)
  <2>1. \A k \in e .. n : k \notin NameSymbols(t) /\ k \notin UnquotedMarks(t)
    <3>1. SUFFICES ASSUME NEW k \in e .. n
                   PROVE  k \notin UnquotedMarks(t) \cup NameSymbols(t)
      OBVIOUS
    <3>2. k \in 1 .. n /\ End(q, m) <= k /\ ~(m < m) /\ m \in 0 .. m
      BY <1>12
    <3> QED  BY <1>1, <3>2 DEF LaidOut
  <2>2. PICK a \in 0 .. n : a = e - 1 /\ a + 1 = e
    BY <1>12
  <2>3. K[n] = K[a] \o SubSeq(u, a + 1, n)
    <3>1. a \in 0 .. Len(u) /\ n \in a .. Len(u)
      BY <1>2, <2>2
    <3>2. \A k \in a + 1 .. n : k \notin NameSymbols(t)
      BY <2>1, <2>2
    <3>3. Keeps(u, K, a, n)
      BY <1>2, <1>3, <3>1, <3>2, KeptRun
    <3> QED  BY <3>3, Zenon DEF Keeps
  <2>4. SubSeq(u, e, n) = SubSeq(t, e, n)
    <3>1. t \in Seq(X) /\ Len(u) = Len(t) /\ e \in 1 .. Len(t) + 1 /\ n \in 0 .. Len(t)
      BY <1>1, <1>2, <1>12
    <3>2. \A k \in e .. n : u[k] = t[k]
      BY <1>1, <1>12, <2>1 DEF u, InPlace
    <3> QED  BY <1>2, <3>1, <3>2, SamePart
  <2> QED  BY <2>2, <2>3, <2>4, Zenon
<1>14. Replaced(t, q) = K[n]
  <2>1. r[m].text = K[e - 1] /\ r[m].from = e
    BY <1>11, <1>12
  <2> QED  BY <1>7, <1>13, <2>1, Zenon
<1>15. Without(u, NameSymbols(t)) = K[n]
  BY <1>2, <1>3 DEF IsKept
<1> QED  BY <1>14, <1>15 DEF u

-----------------------------------------------------------------------------
(***************************************************************************)
(* Theorems                                                                *)
(***************************************************************************)

IsText == query \in Seq(Symbols)

\* The text is one of the symbols it is made of.
THEOREM TextIsOfSymbols == Spec => []IsText
<1>1. Init => IsText
  BY DEF Init, IsText
<1>2. IsText /\ [Next]_vars => IsText'
  BY DEF IsText, Next, Extend, vars
<1> QED  BY <1>1, <1>2, PTL DEF Spec

\* In every text whose literals are free of the other quote, extractParametersinfo() finds
\* the unquoted marks, all of them, nothing else, and in the order of the text.
THEOREM MarksAreParameters == Spec => []ParametersAreUnquotedMarks
<1>1. IsText => ParametersAreUnquotedMarks
  <2>1. SUFFICES ASSUME IsText, Unmixed(query)
                 PROVE  /\ {p.at : p \in ToSet(Parameters(query))} = UnquotedMarks(query)
                        /\ \A m, n \in 1 .. Len(Parameters(query)) :
                             m < n => Parameters(query)[m].at < Parameters(query)[n].at
    BY DEF ParametersAreUnquotedMarks
  <2>2. PICK q : q = Parameters(query)
    OBVIOUS
  <2>3. Lists(query, q, 1)
    BY <2>1, <2>2, ParametersAreListed DEF IsText
  <2>4. ToSet(q) = {q[j] : j \in 1 .. Len(q)}
    BY <2>3 DEF Lists, ToSet
  <2>5. \A k \in UnquotedMarks(query) : 1 <= k
    BY DEF UnquotedMarks
  <2>6. {p.at : p \in ToSet(q)} = UnquotedMarks(query)
    BY <2>3, <2>4, <2>5 DEF Lists
  <2> QED  BY <2>2, <2>3, <2>6 DEF Lists
<1> QED  BY <1>1, TextIsOfSymbols, PTL

\* In every such text, buildFinalQuery() puts one parameter in the place of each unquoted
\* mark and its name, and leaves every other symbol what it is and where it is.
THEOREM RestIsLeftAlone == Spec => []OnlyParametersAreReplaced
<1>1. IsText => OnlyParametersAreReplaced
  <2>1. SUFFICES ASSUME IsText, Unmixed(query)
                 PROVE  FinalQuery(query) = Without(InPlace(query), NameSymbols(query))
    BY DEF OnlyParametersAreReplaced
  <2>2. Lists(query, Parameters(query), 1)
    BY <2>1, ParametersAreListed DEF IsText
  <2>3. LaidOut(query, Parameters(query)) /\ Len(Parameters(query)) \in Nat
    <3>1. PICK q : q = Parameters(query)
      OBVIOUS
    <3>2. Len(q) \in Nat
      BY <2>2, <3>1 DEF Lists
    <3>3. LaidOut(query, q)
      BY <2>1, <2>2, <3>1, ListIsLaidOut DEF IsText
    <3> QED  BY <3>1, <3>2, <3>3
  <2> QED  BY <2>1, <2>3, ReplacedIs DEF IsText, FinalQuery
<1> QED  BY <1>1, TextIsOfSymbols, PTL
=============================================================================
