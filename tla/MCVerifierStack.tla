--------------------------- MODULE MCVerifierStack ---------------------------
(***************************************************************************)
(* A small verifier stack: two selectors, one wrapper, a sound verifier    *)
(* and one whose proof system is broken.                                   *)
(***************************************************************************)
EXTENDS VerifierStack, TLC

CONSTANTS router, w1, sound, broken, s1, s2, gov, guard

MCSelectorOf == [i \in Impl |-> IF i = sound THEN s1 ELSE s2]

Submitted(sel, f, g, z) == [selector |-> sel, full |-> f, genuine |-> g, zero |-> z]

\* Per selector: a real proof, a truncated one, a forged one and a forged
\* one for the zero claim.
MCSeal == UNION {{Submitted(s, TRUE, TRUE, FALSE), Submitted(s, FALSE, TRUE, FALSE),
                  Submitted(s, TRUE, FALSE, FALSE), Submitted(s, TRUE, FALSE, TRUE)} : s \in Selector}
=============================================================================
