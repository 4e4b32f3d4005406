--------------------------- MODULE ParameterBatch ---------------------------
(***************************************************************************)
(* What a statement promises about an array of parameter sets, without the *)
(* requests, redirects and flags it takes: the sets are tried strictly in  *)
(* order, a set is confirmed at most once and only after it was counted as *)
(* processed, and a call that works on the array ends.                     *)
(***************************************************************************)
EXTENDS Naturals

CONSTANT MaxSets

VARIABLES
  tried,     \* sets the application is told were processed
  confirmed, \* sets the server accepted
  busy       \* a call is working on the array

vars == <<tried, confirmed, busy>>

Init == tried = 0 /\ confirmed = 0 /\ busy = FALSE

\* A new execution forgets the previous one.
Begin ==
  /\ ~busy /\ busy' = TRUE
  /\ tried' = 0 /\ confirmed' = 0

\* SQLMoreResults goes on where the execution stopped.
Resume ==
  /\ ~busy /\ busy' = TRUE
  /\ UNCHANGED <<tried, confirmed>>

\* The next set is counted; the call may fail before anything is sent.
Try ==
  /\ busy /\ confirmed < MaxSets
  /\ tried' = confirmed + 1
  /\ busy' \in BOOLEAN
  /\ UNCHANGED confirmed

Confirm ==
  /\ busy /\ tried = confirmed + 1
  /\ confirmed' = tried
  /\ busy' \in BOOLEAN
  /\ UNCHANGED tried

\* The call ends: nothing is left to do, or the set it tried has failed.
Leave ==
  /\ busy /\ busy' = FALSE
  /\ UNCHANGED <<tried, confirmed>>

Next == Begin \/ Resume \/ Try \/ Confirm \/ Leave

Spec == Init /\ [][Next]_vars /\ WF_vars(Leave)
=============================================================================
