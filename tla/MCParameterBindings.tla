------------------------ MODULE MCParameterBindings ------------------------
(***************************************************************************)
(* Instances of ParameterBindings.                                         *)
(***************************************************************************)
EXTENDS ParameterBindings, TLC

\* Bind calls whose C type suits the SQL type, and one that always fails.
SuitingPairs == {<<"long", "integer">>, <<"default", "varchar">>, <<"long", "interval">>}

\* An integer buffer for a string parameter, bound with the length that the tests of the
\* driver give for integers.
OtherPairs == {<<"long", "varchar">>}
NoLength   == {0}

SomeLengths == {-1, 2}

Symmetry == Permutations(Buffers)

\* Bound: once there are explicit descriptors, the second parameter and row-wise
\* binding are left out.
ExplicitsAreSmall ==
  allocated # {} \/ exchanged # {} =>
    \A d \in Descriptors :
      apd[d].count <= 1 /\ apd[d].records[2] = FreshAppRecord /\ bindType[d] = 0

=============================================================================
