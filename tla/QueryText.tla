------------------------------ MODULE QueryText ------------------------------
(***************************************************************************)
(* Parameters in the text of a query: src/driver/statement.cpp finds the   *)
(* marks that are not quoted, puts a placeholder of its own in the place   *)
(* of each, and later the name and type of the parameter in the place of   *)
(* each placeholder.  A text is a sequence of symbols, of which a letter,  *)
(* a digit and a space stand for all of their kind.                        *)
(***************************************************************************)
EXTENDS Naturals, Sequences, FiniteSets, SequencesExt, FiniteSetsExt

CONSTANTS Symbols, MaxLength  \* what a text is made of, and its length

VARIABLE query

vars == <<query>>

Quotes    == {"single", "double"}  \* ' and "
NoQuote   == "none"
Backslash == "backslash"
Sign      == "@"
Signs     == {"?", Sign}  \* the first symbol of a parameter
Letters   == {"a"}
Digits    == {"1"}
Placed    == "{name:type}"  \* a parameter in the text that is sent

-----------------------------------------------------------------------------
(***************************************************************************)
(* extractParametersinfo()                                                 *)
(***************************************************************************)

\* How many symbols after the one at i belong to the name of a parameter.
NameLength(t, i) ==
  Min({j \in 0..Len(t) - i :
         ~(/\ i + j + 1 <= Len(t)
           /\ \/ t[i + j + 1] \in Letters
              \/ t[i + j + 1] \in Digits /\ j > 0)})

\* A parameter: where it is, and how long; a name with no symbols is an error.
Mark(i, size) == [at |-> i, size |-> size]

\* What one symbol does, read at i while `by' is the quote in effect: where to read
\* on, and with which quote.
NoEscape(t, i, by) ==  \* mutation of Step
  IF t[i] \in Quotes /\ by = t[i] THEN [next |-> i + 1, by |-> NoQuote]
  ELSE IF t[i] \in Quotes THEN [next |-> i + 1, by |-> t[i]]
  ELSE IF t[i] = Sign /\ by = NoQuote THEN [next |-> i + 1 + NameLength(t, i), by |-> by]
  ELSE [next |-> i + 1, by |-> by]
Step(t, i, by) ==
  CASE t[i] = Backslash -> [next |-> i + 2, by |-> by]
    [] t[i] \in Quotes /\ by # t[i] -> [next |-> i + 1, by |-> t[i]]
    [] t[i] \in Quotes /\ by = t[i] ->
         IF i < Len(t) /\ t[i + 1] = t[i] THEN [next |-> i + 2, by |-> by]
         ELSE [next |-> i + 1, by |-> NoQuote]
    [] t[i] = Sign /\ by = NoQuote -> [next |-> i + 1 + NameLength(t, i), by |-> by]
    [] OTHER -> [next |-> i + 1, by |-> by]

JustTheSign(t, i) == Mark(i, 1)  \* mutation of Found
Found(t, i) == Mark(i, IF t[i] = Sign THEN 1 + NameLength(t, i) ELSE 1)

Parameters(t) ==
  LET scan[i \in 1..Len(t) + 2] ==
        [by \in Quotes \cup {NoQuote} |->
           IF i > Len(t) THEN <<>>
           ELSE LET step == Step(t, i, by)
                    rest == scan[step.next][step.by]
                IN  IF by = NoQuote /\ t[i] \in Signs THEN <<Found(t, i)>> \o rest ELSE rest]
  IN  scan[1][NoQuote]

\* SQLPrepare fails with 42000.
Fails(t) == \E p \in ToSet(Parameters(t)) : t[p.at] = Sign /\ NameLength(t, p.at) = 0

\* buildFinalQuery(): each parameter's text is replaced, in order, the placeholders in
\* between being no part of any text.
Replaced(t, params) ==
  LET done[n \in 0..Len(params)] ==
        IF n = 0 THEN [text |-> <<>>, from |-> 1]
        ELSE LET before == done[n - 1]
                 p      == params[n]
             IN  [text |-> before.text \o SubSeq(t, before.from, p.at - 1) \o <<Placed>>,
                  from |-> p.at + p.size]
      all == done[Len(params)]
  IN  all.text \o SubSeq(t, all.from, Len(t))

FinalQuery(t) == Replaced(t, Parameters(t))

-----------------------------------------------------------------------------
(***************************************************************************)
(* Every text up to a length                                               *)
(***************************************************************************)

Init == query = <<>>

Extend(symbol) == Len(query) < MaxLength /\ query' = Append(query, symbol)

Next == \E symbol \in Symbols : Extend(symbol)
Spec == Init /\ [][Next]_vars

-----------------------------------------------------------------------------
(***************************************************************************)
(* What is a parameter, told from the text alone                           *)
(***************************************************************************)

\* A symbol is escaped when the backslashes right before it are odd in number.
Escaped(t, i) ==
  LET run == {k \in 1..i - 1 : \A m \in k..i - 1 : t[m] = Backslash}
  IN  Cardinality(run) % 2 = 1

\* The quote around the symbol at i: within a literal the other quote is a symbol like
\* any other, and a doubled quote an end and a new beginning.
Around(t, i) ==
  LET around[k \in 1..Len(t) + 1] ==
        IF k = 1 THEN NoQuote
        ELSE LET before == around[k - 1]
             IN  IF t[k - 1] \notin Quotes \/ Escaped(t, k - 1) THEN before
                 ELSE IF before = NoQuote THEN t[k - 1]
                 ELSE IF before = t[k - 1] THEN NoQuote
                 ELSE before
  IN  around[i]

Unquoted(t, i) == Around(t, i) = NoQuote /\ ~Escaped(t, i)

UnquotedMarks(t) == {i \in 1..Len(t) : t[i] \in Signs /\ Unquoted(t, i)}

\* The letters and digits that are the name after an unquoted sign.
NameSymbols(t) ==
  {i \in 1..Len(t) :
     \E sign \in UnquotedMarks(t) :
       /\ sign < i /\ t[sign] = Sign
       /\ t[sign + 1] \in Letters
       /\ \A k \in sign + 1..i : t[k] \in Letters \cup Digits}

\* A text with its parameters' first symbols replaced, and a text without some places.
InPlace(t) == [i \in 1..Len(t) |-> IF i \in UnquotedMarks(t) THEN Placed ELSE t[i]]

Without(t, places) ==
  LET kept[k \in 0..Len(t)] ==
        IF k = 0 THEN <<>>
        ELSE IF k \in places THEN kept[k - 1]
        ELSE Append(kept[k - 1], t[k])
  IN  kept[Len(t)]

\* A text in which each literal is free of the other quote.
Unmixed(t) ==
  \A i \in 1..Len(t) :
    t[i] \in Quotes /\ ~Escaped(t, i) => Around(t, i) \in {NoQuote, t[i]}

-----------------------------------------------------------------------------
(***************************************************************************)
(* Properties                                                              *)
(***************************************************************************)

\* In a text whose literals are free of the other quote, the parameters are exactly the
\* marks outside of literals, in the order of the text: a doubled or an escaped quote
\* ends no literal, and no literal is left by the rest of a parameter's name.
ParametersAreUnquotedMarks ==
  Unmixed(query) =>
    LET found == Parameters(query)
    IN  /\ {p.at : p \in ToSet(found)} = UnquotedMarks(query)
        /\ \A m, n \in 1..Len(found) : m < n => found[m].at < found[n].at

\* The text that is sent is the text that was prepared with each parameter, and all of
\* its name, replaced in its place, and not one other symbol added, lost or moved.
OnlyParametersAreReplaced ==
  Unmixed(query) /\ ~Fails(query) =>
    FinalQuery(query) = Without(InPlace(query), NameSymbols(query))

\* A text whose literals are all closed, and that does not end with an escape.
Closed(t) == Around(t, Len(t) + 1) = NoQuote /\ ~Escaped(t, Len(t) + 1)

\* statement.cpp:299 says that all unquoted question marks are replaced: in a text that
\* closes its literals, each of them is found as a parameter.
EveryUnquotedMarkIsFound ==
  Closed(query) =>
    {i \in UnquotedMarks(query) : query[i] = "?"} \subseteq {p.at : p \in ToSet(Parameters(query))}
=============================================================================
