--------------------------- MODULE IncomeStatement ---------------------------
(***************************************************************************)
(* What the guest (zkvm/methods/guest/src/main.rs) computes from a signed  *)
(* statement: the verdict, the nullifier and the journal.  SHA-256 is      *)
(* collision free, so a digest is its preimage.                            *)
(***************************************************************************)
EXTENDS Integers, Sequences

CONSTANT Word   \* 2^64, the range of u64

ASSUME WordAssumption == Word \in Nat \ {0}

(* The members the guest's Statement needs; serde rejects a missing one. *)
StatementFields == {"schema", "subject_id", "issuer", "currency", "issued_at",
                    "period", "period_months", "monthly_net_income"}

(* A parsed document; one that is no JSON statement has no fields. *)
DocType ==
  [fields : SUBSET StatementFields, subject_id : Seq(Nat), issuer : Seq(Nat),
   period : 0 .. Word - 1, period_months : Nat, monthly_net_income : Seq(0 .. Word - 1)]

(* The incomes of the first n months added up, over the integers. *)
SumOfMonths(d) ==
  LET f[n \in 0 .. Len(d.monthly_net_income)] ==
        IF n = 0 THEN 0 ELSE f[n - 1] + d.monthly_net_income[n]
  IN f

Total(d) == SumOfMonths(d)[Len(d.monthly_net_income)]

(* Documents the guest goes through with, given a signature. *)
Completes(d) ==
  /\ d.fields = StatementFields
  /\ d.period_months = Len(d.monthly_net_income)
  /\ d.period_months # 0

-----------------------------------------------------------------------------
(* Mutant: the fields joined with one separator, as before issue #11. *)
PreimageJoined(d) == d.subject_id \o <<0>> \o d.issuer \o <<0>> \o <<d.period>>

(* Mutant: the nullifier hashes the figures too. *)
PreimageOfFigures(d) ==
  <<Len(d.subject_id)>> \o d.subject_id \o <<Len(d.issuer)>> \o d.issuer \o <<d.period>>
    \o d.monthly_net_income

(* What the guest hashes into the nullifier; a u32 or u64 is one symbol. *)
Preimage(d) ==
  <<Len(d.subject_id)>> \o d.subject_id \o <<Len(d.issuer)>> \o d.issuer \o <<d.period>>

Recurring(d) == \A k \in DOMAIN d.monthly_net_income : d.monthly_net_income[k] > 0

(* Mutant: the threshold is compared with the sum, not the average. *)
MeetsOnSum(d, s, t) == Recurring(d) /\ s >= t

(* Mutant: strictly above the threshold. *)
MeetsStrictly(d, s, t) == Recurring(d) /\ s \div d.period_months > t

Meets(d, s, t) == Recurring(d) /\ s \div d.period_months >= t

(* The 81-byte journal. *)
JournalOf(d, k, s, t) ==
  [issuer |-> k, threshold |-> t, meets |-> IF Meets(d, s, t) THEN 1 ELSE 0,
   nullifier |-> Preimage(d), period |-> d.period]
=============================================================================
