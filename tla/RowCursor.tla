----------------------------- MODULE RowCursor ------------------------------
(***************************************************************************)
(* What fetching promises the application, without prefetching, recycled   *)
(* rows and bindings: the rows the server sent, each once and in order;    *)
(* nothing else before a failure was reported; and the end only when the   *)
(* result ended properly and every row was given.                          *)
(***************************************************************************)
EXTENDS Naturals, Sequences

CONSTANT SentRow(_)  \* the i-th row the server sends

VARIABLES
  sent,    \* how many rows the server sends
  whole,   \* its result ends properly
  given,   \* the rows that were part of a row set
  failed,  \* a failure was reported
  answer   \* what the last fetch reported, "asked" while it runs

vars == <<sent, whole, given, failed, answer>>

Init ==
  /\ sent \in Nat /\ whole \in BOOLEAN
  /\ given = <<>> /\ failed = FALSE /\ answer = "none"

\* A fetch that asks for no rows, or for other rows than the next.
Refuse ==
  /\ answer # "asked" /\ answer' \in {"refused", "error"}
  /\ UNCHANGED <<sent, whole, given, failed>>

Ask ==
  /\ answer # "asked" /\ answer' = "asked"
  /\ UNCHANGED <<sent, whole, given, failed>>

Give ==
  /\ answer = "asked"
  /\ Len(given') > Len(given)
  /\ SubSeq(given', 1, Len(given)) = given
  /\ \A i \in Len(given) + 1..Len(given') :
       IF i <= sent THEN given'[i] = SentRow(i) ELSE failed
  /\ UNCHANGED <<sent, whole, failed, answer>>

Answer ==
  /\ answer = "asked"
  /\ \/ answer' = "rows" /\ UNCHANGED failed
     \/ answer' = "error" /\ failed' \in {failed, TRUE}
     \/ answer' = "end" /\ whole /\ Len(given) >= sent /\ UNCHANGED failed
  /\ UNCHANGED <<sent, whole, given>>

Next == Refuse \/ Ask \/ Give \/ Answer

\* Every fetch reports something.
Spec == Init /\ [][Next]_vars /\ WF_vars(Answer)
=============================================================================
