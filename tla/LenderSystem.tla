---------------------------- MODULE LenderSystem ----------------------------
(***************************************************************************)
(* The lender, the verifier stack it calls and the guest whose proofs it   *)
(* pays for, in one state: an issuer's statement becomes a proof, a router *)
(* and the verifier behind it judge the proof, and the lender pays.        *)
(*                                                                         *)
(* ZkUnderwrite leaves open which receipts the router accepts; here they   *)
(* are the proofs the stack in its present state verifies.  The guest runs *)
(* in one step, as its release build does, whose u64 sum wraps;            *)
(* IncomeProver has its single steps.                                      *)
(***************************************************************************)
EXTENDS VerifierStack, IncomeStatement, FiniteSets

CONSTANTS
  Address, ImageId, ZeroImage, Self,    \* as in ZkUnderwrite
  Thresholds, CreditAmounts, MaxFunded, \* as in ZkUnderwrite
  Ours,      \* the image id of the income guest
  Pubkey,       \* issuer public keys, and so their hashes
  Doc,       \* statements
  Signed,    \* <<key, doc>>: the signatures issuers made
  Limits,    \* THRESHOLD values a host may pass
  Foreign,   \* journals another program may commit, or a forger claim
  MaxProofs  \* bound on the proofs in circulation

ASSUME SystemAssumption ==
  /\ Ours \in ImageId
  /\ Doc \subseteq DocType
  /\ Signed \subseteq Pubkey \X Doc
  /\ IsFiniteSet(Signed)
  /\ Limits \subseteq Nat
  /\ \A j \in Foreign :
       j \in [len : Nat, issuer : Pubkey, threshold : Nat, meets : 0 .. 255, nullifier : {j.nullifier}]
  /\ MaxProofs \in Nat
  /\ {Self, None} \cap Address = {}
  /\ ZeroImage \in ImageId
  /\ Thresholds \subseteq Nat
  /\ CreditAmounts \subseteq Int
  /\ MaxFunded \in Nat

VARIABLES
  admin, pendingAdmin, policy, issuers, nullifiers, creditLine, balance,
  lenderSigner, proposedBy, granted, funded,   \* as in ZkUnderwrite
  proofs,   \* the seals in circulation, with what each is a seal for
  paidBy    \* history: the proof each nullifier was paid for

lenderVars == <<admin, pendingAdmin, policy, issuers, nullifiers, creditLine,
                balance, lenderSigner, proposedBy, granted, funded>>
systemVars == <<stackVars, lenderVars, proofs, paidBy>>

-----------------------------------------------------------------------------
(* The guest in one step. *)

Attested == {s \in Signed : Completes(s[2])}

(* The journal's fields as the lender reads them from its 81 bytes. *)
AsRead(j) ==
  [len |-> 81, issuer |-> j.issuer, threshold |-> j.threshold, meets |-> j.meets,
   nullifier |-> j.nullifier]

Committed(s, t) == AsRead(JournalOf(s[2], s[1], Total(s[2]) % Word, t))

GuestJournal == {Committed(s, t) : s \in Attested, t \in Limits}

Journal == GuestJournal \cup Foreign

Spendable == {j.nullifier : j \in Journal}

Claimed == ImageId \X Journal

-----------------------------------------------------------------------------
(* Proofs and what the lender sees of them. *)

Proof == [selector : Selector, image : ImageId, journal : Journal, genuine : BOOLEAN]

SealOf(p) == [selector |-> p.selector, full |-> TRUE, genuine |-> p.genuine, zero |-> FALSE]

Receipt(p) == <<p.image, p.journal>>

Accepted == {p \in proofs : RouterVerifies(SealOf(p))}

Lender == INSTANCE ZkUnderwrite WITH
  Issuer     <- Pubkey,
  Nullifier  <- Spendable,
  Provable   <- Claimed,
  Archivable <- {},
  archived   <- {},
  signer     <- lenderSigner,
  receipts   <- {Receipt(p) : p \in proofs},
  accepted   <- {Receipt(p) : p \in Accepted}

ASSUME AbsenceAssumption == None \notin Proof \cup Lender!Policy \cup Lender!Grant \cup Nat

SystemInit ==
  /\ Init
  /\ proofs = {}
  /\ paidBy = [n \in Spendable |-> None]
  /\ Lender!Init

(* The lender's calls that do not verify anything, and payments to it. *)
Administer ==
  /\ UNCHANGED <<stackVars, proofs, paidBy>>
  /\ Lender!AdminCall \/ \E amount \in 1 .. MaxFunded : Lender!FundTreasury(amount)

(* Mutant: the lender asks a verifier for the image the proof names. *)
RequestCreditForAnyImage(borrower, p) ==
  /\ Lender!Initialized
  /\ UNCHANGED <<stackVars, proofs>>
  /\ RouterVerifies(SealOf(p))
  /\ p.journal.issuer \in issuers
  /\ Lender!MeetsPolicy(p.journal)
  /\ p.journal.nullifier \notin nullifiers
  /\ Lender!Disburse(borrower, p.journal)
  /\ granted' = [granted EXCEPT ![p.journal.nullifier] =
       [borrower |-> borrower, journal |-> p.journal, policy |-> policy, issuers |-> issuers]]
  /\ paidBy' = [paidBy EXCEPT ![p.journal.nullifier] = p]
  /\ lenderSigner' = borrower
  /\ UNCHANGED <<admin, pendingAdmin, policy, issuers, proposedBy, funded>>

(* request_credit with a seal in circulation. *)
RequestCredit(borrower, p) ==
  /\ Lender!Initialized
  /\ UNCHANGED <<stackVars, proofs>>
  /\ p.image = policy.imageId
  /\ RouterVerifies(SealOf(p))
  /\ Lender!RequestCredit(borrower, p.journal)
  /\ paidBy' = [paidBy EXCEPT ![p.journal.nullifier] = p]

Circulate(p) ==
  /\ Cardinality(proofs \cup {p}) <= MaxProofs
  /\ proofs' = proofs \cup {p}
  /\ UNCHANGED <<stackVars, lenderVars, paidBy>>

(* A borrower proves an attested statement with the verifier version of its *)
(* choice.                                                                  *)
ProveIncome(sel, s, t) ==
  Circulate([selector |-> sel, image |-> Ours, journal |-> Committed(s, t), genuine |-> TRUE])

(* Another program commits what it likes, under its own image id. *)
ProveOther(sel, image, j) ==
  /\ image # Ours
  /\ Circulate([selector |-> sel, image |-> image, journal |-> j, genuine |-> TRUE])

(* Where a proof system is broken, anything can be claimed. *)
Forge(i, j) ==
  /\ i \in Broken
  /\ Circulate([selector |-> OwnSelector[i], image |-> Ours, journal |-> j, genuine |-> FALSE])

(* Any call of the stack; archival, which only delays calls, is left to the *)
(* components' own runs, here as in archived <- {} above.                   *)
StackStep ==
  /\ Next
  /\ UNCHANGED <<lapsed, lenderVars, proofs, paidBy>>

SystemNext ==
  \/ Administer
  \/ \E borrower \in Address, p \in proofs : RequestCredit(borrower, p)
  \/ \E sel \in Selector, s \in Attested, t \in Limits : ProveIncome(sel, s, t)
  \/ \E sel \in Selector, image \in ImageId, j \in Foreign : ProveOther(sel, image, j)
  \/ \E i \in Impl, j \in Foreign : Forge(i, j)
  \/ StackStep

SystemSpec == SystemInit /\ [][SystemNext]_systemVars

-----------------------------------------------------------------------------
(* Properties. *)

Paid == {n \in DOMAIN paidBy : paidBy[n] # None}

(* The income a statement shows, over the integers, against a threshold. *)
Shows(d, t) == Recurring(d) /\ Total(d) >= t * d.period_months

(* Every payment rests on a statement, signed by an issuer registered when  *)
(* it was made, whose income meets the lender's own threshold, and used up  *)
(* the nullifier of its subject, issuer and period; or on a seal forged for *)
(* a verifier whose proof system is broken, and then only one the router's  *)
(* owner had routed.                                                        *)
PaymentsFounded ==
  \A n \in Paid :
    LET p == paidBy[n] IN
      IF p.genuine /\ policy.imageId = Ours
      THEN \E s \in Attested : /\ s[1] \in granted[n].issuers
                               /\ Preimage(s[2]) = n
                               /\ Shows(s[2], policy.required)
      ELSE p.genuine \/ JudgeOf(p.selector) \in Broken

Identity(d) == <<d.subject_id, d.issuer, d.period>>

(* However often statements are reissued, by however many keys, with any    *)
(* threshold, borrower, verifier version or router change in between, the   *)
(* lender pays at most one credit amount per identity that was attested an  *)
(* income it accepts, and one per nullifier forged while a broken verifier  *)
(* was in service.                                                          *)
Welcome == {Identity(s[2]) : s \in {x \in Attested : Shows(x[2], policy.required)}}

OnePaymentPerIdentity ==
  policy # None /\ policy.imageId = Ours =>
    funded - balance[Self] <=
      policy.credit * (Cardinality(Welcome) + Cardinality({n \in Paid : ~paidBy[n].genuine}))

(* Once every selector judged by a broken verifier is dead, by a stop or a  *)
(* removal, no forged seal is paid for, while genuine ones still are.       *)
ForgeryEndsWithStop ==
  [][(\A s \in Selector : JudgeOf(s) \in Broken => Dead(s)) =>
       \A n \in DOMAIN paidBy : paidBy'[n] # paidBy[n] => paidBy'[n].genuine]_systemVars

(* The stack's answers are all the lender needs of the world: the composed  *)
(* system implements the lender's specification.                            *)
ImplementsLender == Lender!Spec
=============================================================================
