---------------------------- MODULE MCIncomeProver ----------------------------
(***************************************************************************)
(* Small instances of IncomeProver: u64 is three bits wide and the         *)
(* documents are the ones that take the guest down each of its paths.      *)
(***************************************************************************)
EXTENDS IncomeProver, TLC

CONSTANTS k1, k2

MCWord == 8

Statement(s, i, months, incomes) ==
  [fields |-> StatementFields, subject_id |-> s, issuer |-> i, period |-> 1,
   period_months |-> months, monthly_net_income |-> incomes]

\* The two subjects a plain join of the fields confuses.
Plain     == Statement(<<1>>, <<0, 2>>, 2, <<3, 2>>)
Shifted   == Statement(<<1, 0>>, <<2>>, 2, <<2, 3>>)
\* The same identity as Plain, on other figures.
Reissued  == Statement(<<1>>, <<0, 2>>, 2, <<4, 0>>)
\* The sum leaves the word and comes back below, or exactly at zero.
Huge      == Statement(<<2>>, <<2>>, 2, <<7, 7>>)
Round     == Statement(<<2>>, <<1>>, 2, <<4, 4>>)
\* Rejected: wrong count, no month at all, a member missing.
Miscount  == Statement(<<1>>, <<2>>, 3, <<4, 4>>)
Empty     == Statement(<<1>>, <<2>>, 0, << >>)
NoPeriod  == [Plain EXCEPT !.fields = StatementFields \ {"period"}]

MCDoc     == {Plain, Shifted, Reissued, Huge, Round, Miscount, Empty, NoPeriod}
MCSigned  == {<<k1, d>> : d \in MCDoc} \cup {<<k2, Plain>>}
MCLimits  == {2, 4}
=============================================================================
