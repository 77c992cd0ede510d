----------------------------- MODULE MCManageCli -----------------------------
(***************************************************************************)
(* A small operation: two terminals, one build of the Groth16 verifier,    *)
(* which may be deployed twice, and a mock verifier, each built for a      *)
(* selector of its own but, like any verifier, open to being added under   *)
(* the other's.                                                            *)
(***************************************************************************)
EXTENDS ManageCli, TLC

CONSTANTS router, gov, ops, w1, w2, groth, mock, s1, s2

MCOwnSelector == [i \in Impl |-> IF i = mock /\ s2 \in Selector THEN s2 ELSE s1]

MCWrappers == Permutations({w1, w2})
=============================================================================
