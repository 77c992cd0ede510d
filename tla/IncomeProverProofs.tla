------------------------- MODULE IncomeProverProofs -------------------------
(***************************************************************************)
(* What IncomeProver guarantees for every word size, document, signature   *)
(* and threshold.                                                          *)
(***************************************************************************)
EXTENDS IncomeProver, IncomeStatementProofs, SequenceTheorems, TLAPS

(* Integer division, as the guest uses it. *)
LEMMA Average ==
  ASSUME NEW s \in Nat, NEW n \in Nat \ {0}, NEW t \in Nat
  PROVE  s \div n >= t <=> s >= t * n
<1>1. s \div n \in Nat /\ s = n * (s \div n) + (s % n) /\ s % n \in 0 .. n - 1
  OBVIOUS
<1> DEFINE q == s \div n
           r == s % n
<1>2. ASSUME q >= t PROVE s >= t * n
  <2>1. n * q >= n * t
    BY <1>1, <1>2
  <2> QED
    BY <1>1, <2>1
<1>3. ASSUME s >= t * n PROVE q >= t
  <2>1. SUFFICES ASSUME q + 1 <= t PROVE FALSE
    BY <1>1
  <2>2. n * (q + 1) <= n * t
    BY <1>1, <2>1
  <2>3. n * (q + 1) = n * q + n
    BY <1>1
  <2> QED
    BY <1>1, <1>3, <2>2, <2>3
<1> QED
  BY <1>2, <1>3

(* A wrapped addition against the same addition over the integers. *)
LEMMA WrappedSum ==
  ASSUME NEW W \in Nat \ {0}, NEW s \in 0 .. W - 1, NEW t \in Nat, NEW x \in 0 .. W - 1, s <= t
  PROVE  /\ (s + x) % W \in 0 .. W - 1
         /\ (s + x) % W <= t + x
         /\ s + x < W => (s + x) % W = s + x
<1>1. s + x < W \/ s + x - W \in 0 .. W - 1
  OBVIOUS
<1>2. CASE s + x < W
  BY <1>2
<1>3. CASE s + x - W \in 0 .. W - 1
  <2>1. (s + x) % W = s + x - W
    BY <1>3
  <2> QED
    BY <1>3, <2>1
<1> QED
  BY <1>1, <1>2, <1>3

(* A remainder is what it must be.                                         *)
LEMMA RemainderIs ==
  ASSUME NEW W \in Nat \ {0}, NEW q \in Nat, NEW r \in 0 .. W - 1
  PROVE  (W * q + r) % W = r
<1> DEFINE n == W * q + r
           p == n \div W
           e == n % W
<1>1. n \in Nat
  OBVIOUS
<1>2. n = W * p + e /\ e \in 0 .. W - 1 /\ p \in Nat
  BY <1>1
<1>3. n = W * q + r
  OBVIOUS
<1> HIDE DEF n, p, e
<1>4. CASE p = q
  BY <1>2, <1>3, <1>4 DEF e, n
<1>5. CASE p >= q + 1
  <2>1. W * p >= W * (q + 1)
    BY <1>2, <1>5
  <2>2. W * (q + 1) = W * q + W
    OBVIOUS
  <2> QED
    BY <1>2, <1>3, <2>1, <2>2
<1>6. CASE q >= p + 1
  <2>1. W * q >= W * (p + 1)
    BY <1>2, <1>6
  <2>2. W * (p + 1) = W * p + W
    BY <1>2
  <2> QED
    BY <1>2, <1>3, <2>1, <2>2
<1> QED
  BY <1>2, <1>4, <1>5, <1>6

(* A u64 sum is the sum over the integers, reduced at the end.              *)
LEMMA SumWraps ==
  ASSUME NEW W \in Nat \ {0}, NEW t \in Nat, NEW x \in 0 .. W - 1
  PROVE  ((t % W) + x) % W = (t + x) % W
<1> DEFINE q == t \div W
           s == t % W
<1>1. q \in Nat /\ s \in 0 .. W - 1 /\ t = W * q + s
  OBVIOUS
<1> HIDE DEF q, s
<1>2. CASE s + x < W
  <2>1. s + x \in 0 .. W - 1 /\ t + x = W * q + (s + x)
    BY <1>1, <1>2
  <2>2. (t + x) % W = s + x
    BY <1>1, <2>1, RemainderIs
  <2>3. (s + x) % W = s + x
    BY <2>1
  <2> QED
    BY <2>2, <2>3 DEF s
<1>3. CASE s + x >= W
  <2>1. s + x - W \in 0 .. W - 1
    BY <1>1, <1>3
  <2>2. t + x = W * (q + 1) + (s + x - W)
    <3>1. W * (q + 1) = W * q + W
      BY <1>1
    <3> QED
      BY <1>1, <3>1
  <2> DEFINE z == q + 1
             r == s + x - W
  <2>3. (t + x) % W = r
    <3>1. z \in Nat /\ r \in 0 .. W - 1 /\ t + x = W * z + r
      BY <1>1, <2>1, <2>2
    <3> HIDE DEF z, r
    <3>2. (W * z + r) % W = r
      BY <3>1, RemainderIs
    <3> QED
      BY <3>1, <3>2
  <2>4. (s + x) % W = s + x - W
    BY <1>1, <2>1
  <2> QED
    BY <2>3, <2>4 DEF s
<1> QED
  BY <1>1, <1>2, <1>3

-----------------------------------------------------------------------------
(* Where a symbol of either part stands in a concatenation. *)
LEMMA Joined ==
  ASSUME NEW s \in Seq(Nat), NEW t \in Seq(Nat)
  PROVE  /\ s \o t \in Seq(Nat)
         /\ Len(s \o t) = Len(s) + Len(t)
         /\ \A k \in 1 .. Len(s) : (s \o t)[k] = s[k]
         /\ \A k \in 1 .. Len(t) : (s \o t)[Len(s) + k] = t[k]
<1>1. Len(s) \in Nat /\ Len(t) \in Nat
  OBVIOUS
<1> DEFINE m == Len(s)
           n == Len(t)
           q == s \o t
<1>2. /\ q \in Seq(Nat)
      /\ Len(q) = m + n
      /\ \A i \in 1 .. m + n : q[i] = IF i <= m THEN s[i] ELSE t[i - m]
  BY ConcatProperties
<1> HIDE DEF m, n, q
<1>3. \A k \in 1 .. m : q[k] = s[k]
  BY <1>1, <1>2 DEF m, n
<1>4. ASSUME NEW k \in 1 .. n PROVE q[m + k] = t[k]
  <2>1. m \in Nat /\ n \in Nat
    BY <1>1 DEF m, n
  <2>2. m + k \in 1 .. m + n /\ ~(m + k <= m) /\ (m + k) - m = k
    BY <2>1
  <2> QED
    BY <1>2, <2>2
<1> QED
  BY <1>2, <1>3, <1>4 DEF m, n, q

(* The same for a single symbol at the end. *)
LEMMA Appended ==
  ASSUME NEW s \in Seq(Nat), NEW x \in Nat
  PROVE  /\ s \o <<x>> \in Seq(Nat)
         /\ Len(s \o <<x>>) = Len(s) + 1
         /\ \A k \in 1 .. Len(s) : (s \o <<x>>)[k] = s[k]
         /\ (s \o <<x>>)[Len(s) + 1] = x
<1>1. <<x>> \in Seq(Nat) /\ Len(<<x>>) = 1 /\ <<x>>[1] = x
  OBVIOUS
<1> DEFINE w == <<x>>
<1>2. w \in Seq(Nat) /\ Len(w) = 1 /\ w[1] = x
  BY <1>1
<1> HIDE DEF w
<1>3. /\ s \o w \in Seq(Nat)
      /\ Len(s \o w) = Len(s) + Len(w)
      /\ \A k \in 1 .. Len(s) : (s \o w)[k] = s[k]
      /\ \A k \in 1 .. Len(w) : (s \o w)[Len(s) + k] = w[k]
  BY <1>2, Joined, Zenon
<1>4. (s \o w)[Len(s) + 1] = x
  <2>1. 1 \in 1 .. Len(w)
    BY <1>2
  <2> QED
    BY <1>2, <1>3, <2>1, Zenon
<1> QED
  BY <1>2, <1>3, <1>4, Zenon DEF w

(* Where each field stands in the preimage of a nullifier. *)
LEMMA PreimageLayout ==
  ASSUME NEW d \in DocType
  PROVE  /\ Preimage(d)[1] = Len(d.subject_id)
         /\ \A k \in 1 .. Len(d.subject_id) : Preimage(d)[k + 1] = d.subject_id[k]
         /\ Preimage(d)[Len(d.subject_id) + 2] = Len(d.issuer)
         /\ \A k \in 1 .. Len(d.issuer) : Preimage(d)[Len(d.subject_id) + 2 + k] = d.issuer[k]
         /\ Preimage(d)[Len(d.subject_id) + Len(d.issuer) + 3] = d.period
<1> DEFINE s == d.subject_id
           t == d.issuer
           z == d.period
           m == Len(s)
           n == Len(t)
           a == <<m>> \o s
           b == a \o <<n>>
           c == b \o t
           p == Preimage(d)
<1>1. s \in Seq(Nat) /\ t \in Seq(Nat) /\ z \in Nat
  BY ProverAssumption, WordAssumption DEF DocType
<1>2. m \in Nat /\ n \in Nat
  BY <1>1
<1>3. p = c \o <<z>>
  BY DEF Preimage
<1> HIDE DEF s, t, z, p
<1>4. <<m>> \in Seq(Nat) /\ Len(<<m>>) = 1 /\ <<m>>[1] = m
  BY <1>2
<1>5. a \in Seq(Nat) /\ Len(a) = 1 + m /\ a[1] = m /\ \A k \in 1 .. m : a[1 + k] = s[k]
  BY <1>1, <1>4, Joined
<1> HIDE DEF a
<1>6. /\ b \in Seq(Nat)
      /\ Len(b) = Len(a) + 1
      /\ \A k \in 1 .. Len(a) : b[k] = a[k]
      /\ b[Len(a) + 1] = n
  BY <1>2, <1>5, Appended, Zenon
<1> HIDE DEF b
<1>7. /\ c \in Seq(Nat)
      /\ Len(c) = Len(b) + n
      /\ \A k \in 1 .. Len(b) : c[k] = b[k]
      /\ \A k \in 1 .. n : c[Len(b) + k] = t[k]
  BY <1>1, <1>6, Joined, Zenon
<1> HIDE DEF c
<1>8. /\ \A k \in 1 .. Len(c) : p[k] = c[k]
      /\ p[Len(c) + 1] = z
  BY <1>1, <1>3, <1>7, Appended, Zenon
<1> HIDE DEF m, n
<1>9. Len(a) = m + 1 /\ Len(b) = m + 2 /\ Len(c) = m + n + 2
  BY <1>2, <1>5, <1>6, <1>7
<1>10. p[1] = m
  <2>1. 1 \in 1 .. Len(a) /\ 1 \in 1 .. Len(b) /\ 1 \in 1 .. Len(c)
    BY <1>2, <1>9
  <2> QED
    BY <1>5, <1>6, <1>7, <1>8, <2>1
<1>11. ASSUME NEW k \in 1 .. m PROVE p[k + 1] = s[k]
  <2>1. k + 1 = 1 + k /\ k + 1 \in 1 .. Len(a) /\ k + 1 \in 1 .. Len(b) /\ k + 1 \in 1 .. Len(c)
    BY <1>2, <1>9
  <2>2. p[k + 1] = a[k + 1]
    BY <1>6, <1>7, <1>8, <2>1
  <2> QED
    BY <1>5, <2>1, <2>2
<1>12. p[m + 2] = n
  <2>1. m + 2 = Len(a) + 1 /\ m + 2 \in 1 .. Len(b) /\ m + 2 \in 1 .. Len(c)
    BY <1>2, <1>9
  <2> QED
    BY <1>6, <1>7, <1>8, <2>1
<1>13. ASSUME NEW k \in 1 .. n PROVE p[m + 2 + k] = t[k]
  <2>1. m + 2 + k = Len(b) + k /\ m + 2 + k \in 1 .. Len(c)
    BY <1>2, <1>9
  <2> QED
    BY <1>7, <1>8, <2>1
<1>14. p[m + n + 3] = z
  <2>1. m + n + 3 = Len(c) + 1
    BY <1>2, <1>9
  <2> QED
    BY <1>8, <2>1
<1> QED
  BY <1>10, <1>11, <1>12, <1>13, <1>14 DEF s, t, z, m, n, p

(* The length prefixes make the join injective: equal preimages come from   *)
(* the same subject, issuer and period, whatever symbols the names contain. *)
THEOREM PreimageInjective ==
  ASSUME NEW d \in DocType, NEW e \in DocType
  PROVE  Preimage(d) = Preimage(e) <=> SameIdentity(d, e)
<1>1. ASSUME Preimage(d) = Preimage(e) PROVE SameIdentity(d, e)
  <2> DEFINE m == Len(d.subject_id)
             n == Len(d.issuer)
  <2>1. /\ d.subject_id \in Seq(Nat) /\ d.issuer \in Seq(Nat) /\ m \in Nat /\ n \in Nat
        /\ e.subject_id \in Seq(Nat) /\ e.issuer \in Seq(Nat)
    BY DEF DocType
  <2>2. Len(e.subject_id) = m
    BY <1>1, PreimageLayout
  <2>3. Len(e.issuer) = n
    BY <1>1, <2>2, PreimageLayout
  <2>4. ASSUME NEW k \in 1 .. m PROVE d.subject_id[k] = e.subject_id[k]
    <3>1. Preimage(d)[k + 1] = d.subject_id[k]
      BY PreimageLayout
    <3>2. Preimage(e)[k + 1] = e.subject_id[k]
      BY <2>2, PreimageLayout
    <3> QED
      BY <1>1, <3>1, <3>2
  <2>5. ASSUME NEW k \in 1 .. n PROVE d.issuer[k] = e.issuer[k]
    <3>1. Preimage(d)[m + 2 + k] = d.issuer[k]
      BY PreimageLayout
    <3>2. Preimage(e)[Len(e.subject_id) + 2 + k] = e.issuer[k]
      BY <2>3, PreimageLayout
    <3> QED
      BY <1>1, <2>2, <3>1, <3>2
  <2>6. d.period = e.period
    BY <1>1, <2>2, <2>3, PreimageLayout
  <2>7. d.subject_id = e.subject_id /\ d.issuer = e.issuer
    BY <2>1, <2>2, <2>3, <2>4, <2>5, SeqEqual
  <2> QED
    BY <2>6, <2>7 DEF SameIdentity
<1>2. ASSUME SameIdentity(d, e) PROVE Preimage(d) = Preimage(e)
  BY <1>2 DEF SameIdentity, Preimage
<1> QED
  BY <1>1, <1>2

-----------------------------------------------------------------------------
(* A committed claim is well typed, sound, complete and attested. *)
LEMMA CommitClaim ==
  ASSUME IInv, Commit
  PROVE  LET c == [doc |-> doc, key |-> pubkey, total |-> total,
                   journal |-> JournalOf(doc, pubkey, sum, threshold)]
         IN  /\ c \in Claim
             /\ c.journal.meets = 1 => Qualifies(c)
             /\ checks => c.total < Word
             /\ Qualifies(c) /\ c.total < Word => c.journal.meets = 1
             /\ <<c.journal.issuer, c.doc>> \in Signed
             /\ Completes(c.doc)
             /\ c.total = Total(c.doc)
             /\ c.journal =
                  JournalOf(c.doc, c.journal.issuer, Total(c.doc) % Word, c.journal.threshold)
<1> DEFINE c == [doc |-> doc, key |-> pubkey, total |-> total,
                 journal |-> JournalOf(doc, pubkey, sum, threshold)]
<1>1. /\ doc \in Doc /\ doc \in DocType /\ sig \in Signed /\ pubkey \in Key
      /\ threshold \in Thresholds /\ threshold \in Nat
      /\ sum \in 0 .. Word - 1 /\ sum \in Nat /\ total \in Nat
      /\ Accepted /\ sum <= total /\ (checks \/ total < Word => sum = total)
  BY ProverAssumption, WordAssumption DEF IInv, TypeOK, Loaded, Accumulates, Commit
<1>2. doc.period_months \in Nat \ {0} /\ doc.period \in 0 .. Word - 1
  BY <1>1 DEF DocType, Commit
<1>3. Preimage(doc) \in Seq(Nat)
  BY <1>1, ProverAssumption, WordAssumption DEF DocType, Preimage
<1>4. c \in Claim
  BY <1>1, <1>2, <1>3 DEF Claim, JournalOf
<1>5. c.journal.meets = 1 <=> Recurring(doc) /\ sum >= threshold * doc.period_months
  BY <1>1, <1>2, Average DEF JournalOf, Meets
<1>6. Qualifies(c) <=> Recurring(doc) /\ total >= threshold * doc.period_months
  BY DEF Qualifies, JournalOf
<1>7. threshold * doc.period_months \in Nat
  BY <1>1, <1>2
<1>8. c.journal.meets = 1 => Qualifies(c)
  BY <1>1, <1>5, <1>6, <1>7
<1>9. checks => total < Word
  BY <1>1, ProverAssumption, WordAssumption
<1>10. Qualifies(c) /\ total < Word => c.journal.meets = 1
  BY <1>1, <1>5, <1>6, <1>7
<1>11. <<c.journal.issuer, c.doc>> \in Signed
  BY <1>1 DEF Accepted, JournalOf
<1>12. Completes(doc)
  BY <1>1 DEF Commit, Accepted, Completes
<1>13. total = Total(doc) /\ sum = Total(doc) % Word
  BY DEF IInv, Accumulates, Commit, Total
<1>14. c.journal = JournalOf(c.doc, c.journal.issuer, Total(c.doc) % Word, c.journal.threshold)
  BY <1>13 DEF JournalOf
<1> QED
  BY <1>4, <1>8, <1>9, <1>10, <1>11, <1>12, <1>13, <1>14

(* Everything holds initially. *)
LEMMA InitInv == Init => IInv
  BY ProverAssumption, WordAssumption DEF Init, IInv, TypeOK, Loaded, Accumulates, MeetsSound, MeetsComplete,
     ClaimsAttested

(* Steps that leave the claims and the build alone keep what is said of them. *)
LEMMA ClaimsKept ==
  ASSUME IInv, claims' = claims, checks' = checks
  PROVE  claims' \subseteq Claim /\ MeetsSound' /\ MeetsComplete' /\ ClaimsAttested'
  BY DEF IInv, TypeOK, MeetsSound, MeetsComplete, Qualifies, ClaimsAttested

(* The host's reads and restarts. *)
LEMMA HostInv == IInv /\ Host => IInv'
<1> SUFFICES ASSUME IInv, Host PROVE IInv'
  OBVIOUS
<1>1. claims' = claims /\ checks' = checks
  BY DEF Host, ReadStatement, ReadSignature, ReadPubkey, RunAgain
<1>2. TypeOK'
  BY <1>1, ProverAssumption, WordAssumption DEF IInv, TypeOK, Host, ReadStatement, ReadSignature, ReadPubkey, RunAgain, inputs
<1>3. Loaded'
  BY DEF IInv, TypeOK, Loaded, Host, ReadStatement, ReadSignature, ReadPubkey, RunAgain, inputs
<1>4. Accumulates'
  BY DEF Accumulates, Host, ReadStatement, ReadSignature, ReadPubkey, RunAgain
<1> QED
  BY <1>1, <1>2, <1>3, <1>4, ClaimsKept DEF IInv

(* One more month in the accumulator. *)
LEMMA AddMonthInv == IInv /\ AddMonth => IInv'
<1> SUFFICES ASSUME IInv, AddMonth PROVE IInv'
  OBVIOUS
<1> DEFINE x == Income(month + 1)
<1>1. /\ doc \in DocType /\ sum \in 0 .. Word - 1 /\ total \in Nat /\ month \in Nat
      /\ Accepted /\ sum <= total /\ (checks \/ total < Word => sum = total)
      /\ Word \in Nat \ {0} /\ month < Len(doc.monthly_net_income)
  BY ProverAssumption, WordAssumption DEF IInv, TypeOK, Loaded, Accumulates, AddMonth
<1>2. doc.monthly_net_income \in Seq(0 .. Word - 1) /\ Len(doc.monthly_net_income) \in Nat
  BY <1>1 DEF DocType
<1>3. x \in 0 .. Word - 1
  BY <1>1, <1>2 DEF Income
<1>4. /\ sum' \in 0 .. Word - 1 /\ sum' <= total + x
      /\ sum + x < Word => sum' = sum + x
  BY <1>1, <1>3, WrappedSum DEF AddMonth
<1>5. total' = total + x /\ month' = month + 1 /\ (checks => sum + x < Word)
  BY <1>1, <1>3 DEF AddMonth, Wraps
<1>6. UNCHANGED <<pc, inputs, checks, runs, claims>>
  BY DEF AddMonth
<1> HIDE DEF x
<1>7. checks' \/ total' < Word => sum' = total'
  BY <1>1, <1>3, <1>4, <1>5, <1>6
<1>11. total' = SumOfMonths(doc)[month'] /\ sum' = total' % Word
  <2>1. total = SumOfMonths(doc)[month] /\ sum = total % Word /\ sum' = (sum + x) % Word
    BY DEF IInv, Accumulates, AddMonth, x
  <2>2. month + 1 \in 1 .. Len(doc.monthly_net_income) /\ (month + 1) - 1 = month
    BY <1>1, <1>2
  <2>3. SumOfMonths(doc)[month + 1] = SumOfMonths(doc)[month] + x
    BY <1>1, <2>2, SumsOfMonths DEF AddsUp, x, Income
  <2>4. sum' = (total + x) % Word
    BY <1>1, <1>3, <2>1, SumWraps
  <2> QED
    BY <1>5, <2>1, <2>3, <2>4
<1>8. TypeOK'
  BY <1>1, <1>3, <1>4, <1>5, <1>6 DEF IInv, TypeOK, inputs
<1>9. Loaded'
  BY <1>6 DEF IInv, Loaded, inputs
<1>10. Accumulates'
  BY <1>1, <1>2, <1>4, <1>5, <1>6, <1>7, <1>11 DEF Accumulates, Accepted, inputs
<1> QED
  BY <1>6, <1>8, <1>9, <1>10, ClaimsKept DEF IInv

(* The guest's remaining steps. *)
LEMMA GuestInv == IInv /\ Guest => IInv'
<1> SUFFICES ASSUME IInv, Guest PROVE IInv'
  OBVIOUS
<1>1. CASE Verify
  <2>1. TypeOK' /\ Loaded'
    BY <1>1, ProverAssumption, WordAssumption DEF IInv, TypeOK, Loaded, Verify, inputs
  <2>2. Accumulates'
    <3>1. doc \in DocType /\ Len(doc.monthly_net_income) \in Nat
      BY <1>1, ProverAssumption, WordAssumption DEF IInv, Loaded, Verify, DocType
    <3>2. SumOfMonths(doc)[0] = 0 /\ 0 % Word = 0
      BY <3>1, SumsOfMonths, WordAssumption DEF AddsUp
    <3> QED
      BY <1>1, <3>1, <3>2 DEF Accumulates, Accepted, Verify, inputs
  <2> QED
    BY <1>1, <2>1, <2>2, ClaimsKept DEF IInv, Verify
<1>2. CASE AddMonth
  BY <1>2, AddMonthInv
<1>3. CASE Commit
  <2> DEFINE c == [doc |-> doc, key |-> pubkey, total |-> total,
                   journal |-> JournalOf(doc, pubkey, sum, threshold)]
  <2>1. claims' = claims \cup {c} /\ checks' = checks
    BY <1>3 DEF Commit
  <2>2. /\ c \in Claim
        /\ c.journal.meets = 1 => Qualifies(c)
        /\ checks => c.total < Word
        /\ Qualifies(c) /\ c.total < Word => c.journal.meets = 1
        /\ <<c.journal.issuer, c.doc>> \in Signed
        /\ Completes(c.doc)
        /\ c.total = Total(c.doc)
        /\ c.journal =
             JournalOf(c.doc, c.journal.issuer, Total(c.doc) % Word, c.journal.threshold)
    BY <1>3, CommitClaim
  <2> HIDE DEF c
  <2>3. TypeOK'
    BY <1>3, <2>1, <2>2 DEF IInv, TypeOK, Commit, inputs
  <2>4. Loaded' /\ Accumulates'
    BY <1>3 DEF IInv, Loaded, Accumulates, Commit, inputs
  <2>5. MeetsSound'
    BY <2>1, <2>2 DEF IInv, MeetsSound
  <2>6. MeetsComplete'
    BY <2>1, <2>2 DEF IInv, MeetsComplete
  <2>7. ClaimsAttested'
    BY <2>1, <2>2 DEF IInv, ClaimsAttested
  <2> QED
    BY <2>3, <2>4, <2>5, <2>6, <2>7 DEF IInv
<1>4. CASE Panic
  <2>1. TypeOK' /\ Loaded' /\ Accumulates'
    BY <1>4 DEF IInv, TypeOK, Loaded, Accumulates, Panic, inputs
  <2> QED
    BY <1>4, <2>1, ClaimsKept DEF IInv, Panic
<1> QED
  BY <1>1, <1>2, <1>3, <1>4 DEF Guest

(* IInv is inductive. *)
LEMMA NextInv == IInv /\ [Next]_vars => IInv'
<1> SUFFICES ASSUME IInv, [Next]_vars PROVE IInv'
  OBVIOUS
<1>1. CASE UNCHANGED vars
  <2>1. TypeOK' /\ Loaded' /\ Accumulates'
    BY <1>1 DEF IInv, TypeOK, Loaded, Accumulates, Accepted, vars, inputs
  <2> QED
    BY <1>1, <2>1, ClaimsKept DEF IInv, vars
<1> QED
  BY <1>1, HostInv, GuestInv DEF Next

(* The whole inductive invariant holds of every reachable state. *)
THEOREM Invariance == Spec => []IInv
  BY InitInv, NextInv, PTL DEF Spec

(* A journal that says the threshold is met is right over the integers, for *)
(* every word size, document and build.                                     *)
THEOREM JournalsSound == Spec => []MeetsSound
<1>1. IInv => MeetsSound
  BY DEF IInv
<1> QED
  BY <1>1, Invariance, PTL

(* A journal that denies it is right unless the sum left the word.          *)
THEOREM JournalsComplete == Spec => []MeetsComplete
<1>1. IInv => MeetsComplete
  BY DEF IInv
<1> QED
  BY <1>1, Invariance, PTL

(* Every journal's statement was signed by the issuer the journal names, and *)
(* it is the journal of the guest in one step, all months summed.           *)
THEOREM JournalsAttested == Spec => []ClaimsAttested
<1>1. IInv => ClaimsAttested
  BY DEF IInv
<1> QED
  BY <1>1, Invariance, PTL

(* Nullifiers and identities correspond one to one over all runs. *)
THEOREM NullifiersNameIdentities == Spec => []NullifierNamesIdentity
<1>1. IInv => NullifierNamesIdentity
  <2> SUFFICES ASSUME IInv, NEW c \in claims, NEW d \in claims
               PROVE  c.journal.nullifier = d.journal.nullifier <=> SameIdentity(c.doc, d.doc)
    BY DEF NullifierNamesIdentity
  <2>1. c.doc \in DocType /\ d.doc \in DocType
    BY ProverAssumption, WordAssumption DEF IInv, TypeOK, Claim
  <2>2. ASSUME NEW e \in claims
        PROVE  e.journal.nullifier = Preimage(e.doc)
    <3>1. e.journal = JournalOf(e.doc, e.journal.issuer, Total(e.doc) % Word, e.journal.threshold)
      BY DEF IInv, ClaimsAttested
    <3>2. JournalOf(e.doc, e.journal.issuer, Total(e.doc) % Word, e.journal.threshold).nullifier = Preimage(e.doc)
      BY DEF JournalOf
    <3> QED
      BY <3>1, <3>2
  <2> QED
    BY <2>1, <2>2, PreimageInjective
<1> QED
  BY <1>1, Invariance, PTL
=============================================================================
