--------------------------- MODULE MCSealVerifiers ---------------------------
(***************************************************************************)
(* Digests of four bytes of two bits, a toy hash and a field just large    *)
(* enough for half a digest.  With selectors of one byte two releases that *)
(* share their verification key share the selector too, which is also the  *)
(* mock verifier's; a third has its control root from one of them and a    *)
(* selector of its own.                                                    *)
(***************************************************************************)
EXTENDS SealVerifiers, SequencesExt, TLC

\* The value of a digest read with the first byte highest.
Number(d) == FoldSeq(LAMBDA b, n : 4 * n + b, 0, d)

OfNumber(n) == [k \in 1..4 |-> (n \div 4^(4 - k)) % 4]

MCSha(ds, bs) ==
  LET h == FoldSeq(LAMBDA d, n : (n * 37 + Number(d) + 11) % 65521, 7, ds)
  IN  OfNumber(FoldSeq(LAMBDA b, n : (n * 83 + b + 5) % 65521, h, bs) % 256)

MCFr(d) == Number(d) % 17

MCTagOutput == OfNumber(201)
MCTagClaim == OfNumber(118)
MCTagVersion == OfNumber(77)
MCHalted == OfNumber(163)

i1 == OfNumber(19)
i2 == OfNumber(97)
j1 == OfNumber(27)
j2 == OfNumber(228)
MCImage == {i1, i2}
MCJournal == {j1, j2}

r1 == [root |-> OfNumber(114), id |-> OfNumber(200), vk |-> OfNumber(54), ic |-> 6]
r2 == [r1 EXCEPT !.root = OfNumber(177)]
r3 == [r1 EXCEPT !.vk = OfNumber(91)]
MCVersion == {r1, r2, r3}

MCMockSelector == SELECTOR(r1)
MCLabel == {SELECTOR(r) : r \in MCVersion}

\* Two successes and a run for each way not to be one.
MCExecution ==
  LET ok == Success(i1, j1) IN
  {ok, Success(i2, j2),
   [ok EXCEPT !.system = 1], [ok EXCEPT !.user = 1], [ok EXCEPT !.post = OfNumber(5)],
   [ok EXCEPT !.input = OfNumber(9)], [ok EXCEPT !.assumptions = OfNumber(33)]}
=============================================================================
