---------------------------- MODULE MCZkUnderwrite ----------------------------
(***************************************************************************)
(* Small instances of ZkUnderwrite.  The journals are one claim that is    *)
(* fine, a second statement with the same nullifier, a claim from another  *)
(* issuer, and one journal for each check that can reject it.              *)
(***************************************************************************)
EXTENDS ZkUnderwrite, TLC

CONSTANTS a1, a2, i1, i2, n1, n2, ours, other, zero

MCRequired == 2

Claim(l, i, t, m, n) ==
  [len |-> l, issuer |-> i, threshold |-> t, meets |-> m, nullifier |-> n]

Good       == Claim(81, i1, 2, 1, n1)
SameNull   == Claim(81, i2, 3, 1, n1)
OtherGood  == Claim(81, i2, 2, 1, n2)
TooLow     == Claim(81, i1, 1, 1, n1)
NotMet     == Claim(81, i1, 2, 0, n2)
BadFlag    == Claim(81, i1, 2, 2, n2)
TooShort   == Claim(80, i1, 2, 1, n2)

MCJournal  == {Good, SameNull, OtherGood, TooLow, NotMet, BadFlag, TooShort}

\* What a prover can make: a proof of each, and one by another program.
MCProvable == {<<ours, j>> : j \in MCJournal} \cup {<<other, OtherGood>>}

\* Three claims that can be paid, two of which compete for one nullifier.
PaidJournal  == {Good, SameNull, OtherGood}
PaidProvable == {<<ours, j>> : j \in PaidJournal}

\* Every pair of proofs, but no more than two in one behaviour.
MaxProofs == 2
FewProofs == Cardinality(receipts') <= MaxProofs
MCSpec == Init /\ [][Next /\ FewProofs]_vars

MCThresholds == {0, MCRequired}
MCAmounts    == {0, 1, 2}
TwoImages    == {ours, other, zero}

NoKeys       == {}
SomeKeys     == {NullifierKey(n1), IssuerKey(i1), CreditLineKey(a1)}
=============================================================================
