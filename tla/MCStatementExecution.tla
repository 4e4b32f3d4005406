------------------------ MODULE MCStatementExecution ------------------------
(* Instances of StatementExecution, with what it refines, for TLC: the bounds are in the cfg files. *)
EXTENDS StatementRefinement

=============================================================================
