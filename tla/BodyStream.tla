----------------------------- MODULE BodyStream -----------------------------
(***************************************************************************)
(* What a response body promises its reader, without the transfer, the     *)
(* buffer and the decoder behind it: the result data in order, then either *)
(* a clean end, if the server completed the body and all of it was given,  *)
(* or one failure, after which there is nothing but that failure.          *)
(***************************************************************************)
EXTENDS Naturals, Sequences

CONSTANTS Errors, None

VARIABLES
  data,   \* units of result data the server sends
  whole,  \* the server completes the body
  given,  \* what the reader was given, unit by unit
  error,  \* the failure of the body, or None
  told    \* what the last call told the reader

vars == <<data, whole, given, error, told>>

Init ==
  /\ data \in Nat /\ whole \in BOOLEAN
  /\ given = <<>> /\ error = None /\ told = "nothing"

Open == error = None /\ told \in {"nothing", "data"}

Give(n) ==
  /\ Open /\ Len(given) + n <= data
  /\ given' = given \o [i \in 1..n |-> Len(given) + i]
  /\ told' = "data"
  /\ UNCHANGED <<data, whole, error>>

End ==
  /\ Open /\ whole /\ Len(given) = data
  /\ told' = "end"
  /\ UNCHANGED <<data, whole, given, error>>

Fail(e) ==
  /\ Open
  /\ error' = e /\ told' = "throw"
  /\ UNCHANGED <<data, whole, given>>

Next == (\E n \in 1..data - Len(given) : Give(n)) \/ End \/ \E e \in Errors : Fail(e)

Spec == Init /\ [][Next]_vars
=============================================================================
