--------------------------- MODULE MCLenderSystem ---------------------------
(***************************************************************************)
(* A small system: a broken verifier that may be routed behind a stop and  *)
(* a sound one, two issuers, three statements of two identities and the    *)
(* journal a forger or another program would like to be paid for.          *)
(***************************************************************************)
EXTENDS LenderSystem

CONSTANTS router, w1, broken, s2, gov, a1, k1, k2, ours, other

MCSelectorOf == [i \in Impl |-> s2]

Statement(s, months, incomes) ==
  [fields |-> StatementFields, subject_id |-> <<s>>, issuer |-> <<1>>, period |-> 1,
   period_months |-> months, monthly_net_income |-> incomes]

First    == Statement(1, 2, <<3, 2>>)
Reissued == Statement(1, 2, <<2, 2>>)
Poor     == Statement(2, 2, <<2, 1>>)

MCDoc     == {First, Reissued, Poor}
MCSigned  == {<<k1, First>>, <<k2, Reissued>>, <<k1, Poor>>}
MCForeign == {AsRead(JournalOf(Poor, k1, 4, 2))}

MCSeal == {[selector |-> s2, full |-> TRUE, genuine |-> FALSE, zero |-> TRUE]}
=============================================================================
