----------------------------- MODULE MCServices -----------------------------
(***************************************************************************)
(* Every service on its own small instance.  The sets of one symmetric set *)
(* of names are shared, because symmetry over several sets costs TLC the   *)
(* product of their permutations.                                          *)
(***************************************************************************)
EXTENDS Services

CONSTANTS x1, x2, x3, y1, y2, m1, m2

MCNames    == {x1, x2, x3}
MCAttempts == {x1, x2, x3, y1}
MCPairs    == {y1, y2}
MCPayments == {0, 1, 2}
MCTarget   == (m1 :> 1) @@ (m2 :> 2)

Symmetry == Permutations(MCNames)

=============================================================================
