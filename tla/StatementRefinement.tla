------------------------ MODULE StatementRefinement -------------------------
(***************************************************************************)
(* StatementExecution implements ParameterBatch: the two counters an       *)
(* application sees are SQL_ATTR_PARAMS_PROCESSED_PTR and the driver's own *)
(* next_param_set_idx, and a call is busy while its frame is on the stack. *)
(***************************************************************************)
EXTENDS StatementExecution

Batch == INSTANCE ParameterBatch
           WITH tried <- processed, confirmed <- next_param_set_idx, busy <- call # "none"

\* The array of parameter sets is worked off in order, one confirmation per
\* set, and every call that works on it ends (executeQuery, advanceToNextResultSet).
ImplementsBatch == Batch!Spec
=============================================================================
