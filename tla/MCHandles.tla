----------------------------- MODULE MCHandles -----------------------------
(***************************************************************************)
(* Bounds for Handles: two connections of one environment, so that a       *)
(* descriptor may be of another connection than the statement.             *)
(***************************************************************************)
EXTENDS Handles, TLC

CONSTANTS e, c1, c2, s1, s2, x

\* At most two objects at a time keep the diagnostics of a call that did not simply succeed:
\* a call disturbs the diagnostics of at most one other object.
FewPosted == Cardinality({o \in Objects : diag[o] # Clean}) <= 2

\* Connections are alike, and so are statements.
Alike == Permutations(Dbcs) \cup Permutations(Stmts)
=============================================================================
