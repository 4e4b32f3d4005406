-------------------------- MODULE ConnectionString --------------------------
(***************************************************************************)
(* Connection strings, as src/driver/config/config.cpp reads them and as   *)
(* SQLConnect writes one for itself.  A text is a sequence of symbols; the *)
(* name of a key and a simple value are one symbol each.                   *)
(***************************************************************************)
EXTENDS Naturals, Sequences, SequencesExt

Empty == <<>>
NoSymbol == ""
Null == <<NoSymbol>>  \* a text that is not given

\* The symbols that mean something between keys and values.
Equals    == "="
Semicolon == ";"
Space     == " "
Opening   == "{"
Closing   == "}"

\* The first position at or after i that does not hold one of the symbols.
SkipAll(s, i, symbols) == Min({j \in i..Len(s) : s[j] \notin symbols} \cup {Len(s) + 1})

Blanks == {Space, Semicolon}

\* The text without the spaces at its end.
Trimmed(t) == SubSeq(t, 1, Max({j \in 1..Len(t) : t[j] # Space} \cup {0}))

\* The text from position i up to a stopping symbol, and where that is.  A symbol that
\* may be doubled is part of the text when it is.
IsDoubled(s, j, doubled) == j < Len(s) /\ s[j] = doubled /\ s[j + 1] = doubled

ReadTo(s, i, stops, doubled) ==
  LET read[j \in 1..Len(s) + 1] ==
        IF j > Len(s) \/ (s[j] \in stops /\ ~IsDoubled(s, j, doubled))
          THEN [text |-> Empty, at |-> j]
          ELSE LET rest == read[IF IsDoubled(s, j, doubled) THEN j + 2 ELSE j + 1]
               IN  [rest EXCEPT !.text = <<s[j]>> \o @]
  IN  read[i]

\* A key and its value, which braces may enclose, from position i.
Pair(s, i) ==
  LET key    == ReadTo(s, i, {Equals, Semicolon}, Equals)
      start  == SkipAll(s, key.at + 1, {Space})
      braced == start <= Len(s) /\ s[start] = Opening
      value  == IF braced THEN ReadTo(s, start + 1, {Closing}, Closing)
                ELSE ReadTo(s, start, {Semicolon}, NoSymbol)
      end    == IF braced THEN value.at + 1 ELSE value.at
      next   == SkipAll(s, end, Blanks)
  IN  [ok    |-> /\ Trimmed(key.text) # Empty
                 /\ key.at <= Len(s) /\ s[key.at] = Equals
                 /\ braced => value.at <= Len(s)
                 /\ next <= Len(s) => \E j \in end..next - 1 : s[j] = Semicolon,
       key   |-> Trimmed(key.text),
       value |-> IF braced THEN value.text ELSE Trimmed(value.text),
       next  |-> next]

Pairs(s) ==
  LET pairs[i \in 1..Len(s) + 1] ==
        IF i > Len(s) THEN <<>>
        ELSE LET p == Pair(s, i) IN <<p>> \o (IF p.ok THEN pairs[p.next] ELSE <<>>)
  IN  pairs[SkipAll(s, 1, Blanks)]

\* A data source and a driver exclude each other, and so do a data source and its file:
\* as with a repeated key, the first one met is used.
Rivals(key) ==
  CASE key = <<"DSN">> -> {<<"FileDSN">>, <<"Driver">>}
    [] key \in {<<"FileDSN">>, <<"Driver">>} -> {<<"DSN">>}
    [] OTHER -> {}

Take(fields, p) ==
  IF ({p.key} \cup Rivals(p.key)) \cap DOMAIN fields # {} THEN fields
  ELSE [k \in DOMAIN fields \cup {p.key} |-> IF k = p.key THEN p.value ELSE fields[k]]

NoFields == [k \in {} |-> Empty]

\* readConnectionString(): the fields of the pairs, unless it throws.
Readable(pairs) == \A p \in ToSet(pairs) : p.ok
Fields(pairs) ==
  LET taken[i \in 0..Len(pairs)] ==
        IF i = 0 THEN NoFields ELSE Take(taken[i - 1], pairs[i])
  IN  taken[Len(pairs)]

\* SQLConnect: the value in braces, with the closing ones in it doubled.
Bare(value) == value  \* mutation of Escaped
Escaped(value) ==
  LET esc[i \in 0..Len(value)] ==
        IF i = 0 THEN <<>>
        ELSE esc[i - 1] \o (IF value[i] = Closing THEN <<Closing, Closing>> ELSE <<value[i]>>)
  IN  esc[Len(value)]

Entry(key, value) == <<key, Equals, Opening>> \o Escaped(value) \o <<Closing, Semicolon>>
=============================================================================
