----------------------------- MODULE MCIssuerCli -----------------------------
(***************************************************************************)
(* Small instances of IssuerCli: two shells, requests that sign accepts    *)
(* and the two kinds parse_incomes refuses.                                *)
(***************************************************************************)
EXTENDS IssuerCli, TLC

CONSTANTS p1, p2, k1, k2, alice, bob

MCRequest ==
  {[subject |-> alice, incomes |-> <<3, 3, 3>>],
   [subject |-> bob, incomes |-> <<4, 4, 1>>],
   [subject |-> bob, incomes |-> <<4, 4>>],
   [subject |-> bob, incomes |-> <<4, Bad, 1>>]}

Symmetry == Permutations({p1, p2}) \cup Permutations({k1, k2})
=============================================================================
