-------------------------- MODULE ZkUnderwriteProofs --------------------------
(***************************************************************************)
(* Proofs about the lender contract for any sets of accounts, issuers,     *)
(* nullifiers and journals: the type invariant, the inductive invariant    *)
(* IInv with the safety properties it contains, the authority property,    *)
(* and that the contract implements CreditPromise.                         *)
(***************************************************************************)
EXTENDS ZkUnderwrite, FiniteSetTheorems, TLAPS

-----------------------------------------------------------------------------
(* Types. *)

(* Init has the right types. *)
LEMMA InitType == Init => TypeOK
  BY ConstantsAssumption DEF Init, TypeOK

(* The entry points that touch only the admin, the pending admin and the    *)
(* issuer registry preserve the types.                                      *)
LEMMA AdminCallType == TypeOK /\ AdminCall => TypeOK'
  <1> SUFFICES ASSUME TypeOK, NEW caller \in Address,
        \/ \E newAdmin \in Address, image \in ImageId, required \in Thresholds,
              amount \in CreditAmounts : Initialize(caller, newAdmin, image, required, amount)
        \/ \E i \in Issuer : RegisterIssuer(caller, i)
        \/ \E i \in Issuer : UnregisterIssuer(caller, i)
        \/ \E newAdmin \in Address : ProposeAdmin(caller, newAdmin)
        \/ AcceptAdmin(caller)
        \/ CancelAdminProposal(caller)
      PROVE TypeOK'
    BY DEF AdminCall
  <1>1. ASSUME NEW newAdmin \in Address, NEW image \in ImageId, NEW required \in Thresholds,
               NEW amount \in CreditAmounts, Initialize(caller, newAdmin, image, required, amount)
        PROVE TypeOK'
    <2>1. policy' \in Policy
      BY <1>1, ConstantsAssumption DEF Initialize, Policy
    <2> QED
      BY <1>1, <2>1 DEF Initialize, TypeOK, world
  <1>2. ASSUME NEW i \in Issuer, RegisterIssuer(caller, i) PROVE TypeOK'
    BY <1>2 DEF RegisterIssuer, TypeOK, world
  <1>3. ASSUME NEW i \in Issuer, UnregisterIssuer(caller, i) PROVE TypeOK'
    BY <1>3 DEF UnregisterIssuer, TypeOK, world
  <1>4. ASSUME NEW newAdmin \in Address, ProposeAdmin(caller, newAdmin) PROVE TypeOK'
    BY <1>4 DEF ProposeAdmin, TypeOK, world
  <1>5. CASE AcceptAdmin(caller)
    BY <1>5 DEF AcceptAdmin, TypeOK, world
  <1>6. CASE CancelAdminProposal(caller)
    BY <1>6 DEF CancelAdminProposal, TypeOK, world
  <1> QED
    BY <1>1, <1>2, <1>3, <1>4, <1>5, <1>6

(* A disbursement preserves the types: the transfer's balance check keeps   *)
(* the treasury a natural number.                                           *)
LEMMA RequestCreditType ==
  ASSUME TypeOK, policy \in Policy,
         NEW borrower \in Address, NEW j \in Journal, RequestCredit(borrower, j)
  PROVE  TypeOK'
  <1>1. j \in JournalType
    BY ConstantsAssumption
  <1>2. policy.credit \in Nat \ {0}
    BY DEF Policy
  <1>3. balance' \in [Address \cup {Self} -> Nat]
    BY <1>2, ConstantsAssumption DEF RequestCredit, Eligible, Disburse, Transfer, TypeOK
  <1>4. creditLine' \in [Address -> Nat]
    BY <1>2 DEF RequestCredit, Eligible, Disburse, TypeOK
  <1>5. nullifiers' \subseteq Nullifier
    BY <1>1 DEF RequestCredit, Eligible, Disburse, TypeOK, JournalType
  <1>6. granted' \in [Nullifier -> Grant \cup {None}]
    BY <1>1 DEF RequestCredit, Eligible, Disburse, TypeOK, Grant
  <1> QED
    BY <1>3, <1>4, <1>5, <1>6 DEF RequestCredit, Eligible, Disburse, TypeOK, world

(* The steps of the environment preserve the types.                         *)
LEMMA EnvironmentType == TypeOK /\ Environment => TypeOK'
  <1> SUFFICES ASSUME TypeOK, Environment PROVE TypeOK'
    OBVIOUS
  <1>1. ASSUME NEW amount \in 1 .. MaxFunded, FundTreasury(amount) PROVE TypeOK'
    BY <1>1, ConstantsAssumption DEF FundTreasury, TypeOK, contract, world
  <1>2. ASSUME NEW image \in ImageId, NEW j \in Journal, Prove(image, j) PROVE TypeOK'
    BY <1>2 DEF Prove, TypeOK, contract, history
  <1>3. CASE RouterChanges
    BY <1>3 DEF RouterChanges, TypeOK, contract, history
  <1>4. ASSUME NEW k \in Archivable, Archive(k) \/ Restore(k) PROVE TypeOK'
    BY <1>4, ConstantsAssumption DEF Archive, Restore, TypeOK, contract, history
  <1> QED
    BY <1>1, <1>2, <1>3, <1>4 DEF Environment

-----------------------------------------------------------------------------
(* The books. *)

(* A step that leaves the policy, the nullifiers, the grants and the        *)
(* borrowers' accounts alone, and puts into the treasury what it counts as  *)
(* funded, preserves everything the invariant says of money and grants.     *)
QuietOnBooks ==
  /\ UNCHANGED <<policy, nullifiers, granted, creditLine>>
  /\ \A a \in Address : balance'[a] = balance[a]
  /\ balance'[Self] - balance[Self] = funded' - funded
  /\ receipts \subseteq receipts'

(* Arithmetic the money lemmas need. *)
LEMMA Multiples ==
  ASSUME NEW c \in Nat, NEW k \in Nat
  PROVE  c * k \in Nat /\ c * (k + 1) = c * k + c /\ c * 0 = 0 /\ 0 * k = 0
  OBVIOUS

(* What QuietOnBooks is for: the four conjuncts about money and grants carry *)
(* over.                                                                     *)
LEMMA QuietBooks ==
  ASSUME TypeOK, TypeOK', Bookkeeping, Conservation, CreditLinesBacked, GrantsSound,
         QuietOnBooks, admin = None <=> admin' = None
  PROVE  Bookkeeping' /\ Conservation' /\ CreditLinesBacked' /\ GrantsSound'
  <1>1. Bookkeeping'
    BY DEF QuietOnBooks, Bookkeeping
  <1>2. Conservation'
    <2>1. CreditAmount' = CreditAmount /\ Cardinality(nullifiers') = Cardinality(nullifiers)
      BY DEF QuietOnBooks, CreditAmount
    <2>2. CreditAmount * Cardinality(nullifiers) \in Nat
      <3>1. CreditAmount \in Nat
        BY DEF CreditAmount, TypeOK, Policy
      <3>2. Cardinality(nullifiers) \in Nat
        BY FS_CardinalityType DEF Bookkeeping
      <3> QED
        BY <3>1, <3>2, Multiples
    <2>3. /\ balance[Self] \in Nat /\ balance'[Self] \in Nat
          /\ funded \in Nat /\ funded' \in Nat
      BY DEF TypeOK
    <2> QED
      BY <2>1, <2>2, <2>3 DEF Conservation, QuietOnBooks
  <1>3. CreditLinesBacked'
    <2>1. \A a \in Address : GrantsTo(a)' = GrantsTo(a)
      BY DEF QuietOnBooks, GrantsTo
    <2>2. CreditAmount' = CreditAmount
      BY DEF QuietOnBooks, CreditAmount
    <2> QED
      BY <2>1, <2>2 DEF CreditLinesBacked, QuietOnBooks
  <1>4. GrantsSound'
    BY DEF GrantsSound, GrantSound, QuietOnBooks
  <1> QED
    BY <1>1, <1>2, <1>3, <1>4

(* Opening the lender finds empty books, so fixing the credit amount changes *)
(* no sum.                                                                   *)
LEMMA InitializeBooks ==
  ASSUME TypeOK, TypeOK', Bookkeeping, Conservation, CreditLinesBacked, GrantsSound,
         NEW caller \in Address, NEW newAdmin \in Address, NEW image \in ImageId,
         NEW required \in Thresholds, NEW amount \in CreditAmounts,
         Initialize(caller, newAdmin, image, required, amount)
  PROVE  Bookkeeping' /\ Conservation' /\ CreditLinesBacked' /\ GrantsSound'
  <1>1. policy = None /\ nullifiers = {} /\ \A n \in Nullifier : granted[n] = None
    BY DEF Initialize, Initialized, Bookkeeping
  <1>2. UNCHANGED <<nullifiers, granted, creditLine, balance, funded>>
    BY DEF Initialize
  <1>3. policy' \in Policy /\ policy' # None /\ admin' # None
    <2>1. policy' # None
      BY NoneAssumption, ConstantsAssumption DEF Initialize, Policy
    <2>2. admin' # None
      BY ConstantsAssumption DEF Initialize
    <2> QED
      BY <2>1, <2>2 DEF TypeOK
  <1>4. CreditAmount' \in Nat /\ CreditAmount = 0
    BY <1>1, <1>3 DEF CreditAmount, Policy
  <1>5. Bookkeeping'
    BY <1>1, <1>2, <1>3 DEF Bookkeeping
  <1>6. Conservation'
    <2>1. Cardinality(nullifiers') = 0 /\ Cardinality(nullifiers) = 0
      BY <1>1, <1>2, FS_EmptySet
    <2>2. balance'[Self] = balance[Self] /\ balance[Self] \in Nat /\ funded \in Nat
      BY <1>2 DEF TypeOK
    <2> QED
      BY <2>1, <2>2, <1>2, <1>4 DEF Conservation
  <1>7. CreditLinesBacked'
    <2> SUFFICES ASSUME NEW a \in Address
                 PROVE  /\ balance'[a] = CreditAmount' * Cardinality(GrantsTo(a)')
                        /\ creditLine'[a] = IF GrantsTo(a)' = {} THEN 0 ELSE CreditAmount'
      BY DEF CreditLinesBacked
    <2>1. GrantsTo(a) = {} /\ GrantsTo(a)' = {}
      BY <1>1, <1>2 DEF GrantsTo
    <2>2. balance[a] = CreditAmount * Cardinality(GrantsTo(a)) /\ creditLine[a] = 0
      BY <2>1 DEF CreditLinesBacked
    <2> QED
      BY <1>2, <1>4, <2>1, <2>2, FS_EmptySet
  <1>8. GrantsSound'
    BY <1>1, <1>2 DEF GrantsSound
  <1> QED
    BY <1>5, <1>6, <1>7, <1>8

(* A disbursement takes one credit amount and spends one fresh nullifier.    *)
LEMMA RequestCreditBooks ==
  ASSUME TypeOK, TypeOK', Bookkeeping, Conservation, CreditLinesBacked, GrantsSound,
         NEW borrower \in Address, NEW j \in Journal, RequestCredit(borrower, j)
  PROVE  Bookkeeping' /\ Conservation' /\ CreditLinesBacked' /\ GrantsSound'
  <1> DEFINE n == j.nullifier
             c == policy.credit
             g == [borrower |-> borrower, journal |-> j, policy |-> policy, issuers |-> issuers]
  <1>1. policy \in Policy /\ c \in Nat \ {0} /\ n \in Nullifier /\ n \notin nullifiers
    BY ConstantsAssumption DEF RequestCredit, Eligible, Disburse, Initialized, Bookkeeping, TypeOK, Policy, JournalType
  <1>2. /\ UNCHANGED <<admin, policy, receipts, funded>>
        /\ nullifiers' = nullifiers \cup {n}
        /\ granted' = [granted EXCEPT ![n] = g]
        /\ creditLine' = [creditLine EXCEPT ![borrower] = c]
        /\ balance' = [balance EXCEPT ![Self] = @ - c, ![borrower] = @ + c]
    BY DEF RequestCredit, Eligible, Disburse, Transfer, world
  <1>3. g # None
    BY <1>1, NoneAssumption DEF Grant, TypeOK
  <1>4. CreditAmount = c /\ CreditAmount' = c
    BY <1>1, <1>2, NoneAssumption DEF CreditAmount
  <1>5. granted[n] = None
    BY <1>1 DEF Bookkeeping
  <1>6. Bookkeeping'
    <2>1. nullifiers' = {m \in Nullifier : granted'[m] # None}
      BY <1>1, <1>2, <1>3 DEF Bookkeeping, TypeOK
    <2>2. IsFiniteSet(nullifiers')
      BY <1>2, FS_AddElement DEF Bookkeeping
    <2>3. admin' # None /\ policy' # None
      BY <1>1, <1>2, NoneAssumption DEF Bookkeeping
    <2> QED
      BY <2>1, <2>2, <2>3 DEF Bookkeeping
  <1>7. Conservation'
    <2> DEFINE k == Cardinality(nullifiers)
    <2>1. k \in Nat /\ Cardinality(nullifiers') = k + 1
      BY <1>1, <1>2, FS_AddElement, FS_CardinalityType DEF Bookkeeping
    <2>2. balance'[Self] = balance[Self] - c /\ balance[Self] \in Nat /\ funded \in Nat
      BY <1>2, ConstantsAssumption DEF TypeOK
    <2>3. balance[Self] + c * k = funded
      BY <1>4 DEF Conservation
    <2> HIDE DEF k, c
    <2>4. c * (k + 1) = c * k + c
      BY <1>1, <2>1
    <2>5. c * k \in Nat
      BY <1>1, <2>1
    <2>6. balance'[Self] + c * (k + 1) = funded
      BY <1>1, <2>1, <2>2, <2>3, <2>4, <2>5
    <2> QED
      BY <1>2, <1>4, <2>1, <2>6 DEF Conservation
  <1>8. CreditLinesBacked'
    <2> SUFFICES ASSUME NEW a \in Address
                 PROVE  /\ balance'[a] = CreditAmount' * Cardinality(GrantsTo(a)')
                        /\ creditLine'[a] = IF GrantsTo(a)' = {} THEN 0 ELSE CreditAmount'
      BY DEF CreditLinesBacked
    <2>1. /\ balance[a] = c * Cardinality(GrantsTo(a))
          /\ creditLine[a] = IF GrantsTo(a) = {} THEN 0 ELSE c
      BY <1>4 DEF CreditLinesBacked
    <2>2. IsFiniteSet(GrantsTo(a)) /\ n \notin GrantsTo(a)
      BY <1>5, FS_Subset DEF GrantsTo, Bookkeeping
    <2>3. CASE a = borrower
      <3>1. GrantsTo(a)' = GrantsTo(a) \cup {n}
        BY <1>1, <1>2, <1>3, <2>3 DEF GrantsTo, TypeOK
      <3> DEFINE k == Cardinality(GrantsTo(a))
      <3>2. k \in Nat /\ Cardinality(GrantsTo(a)') = k + 1
        BY <2>2, <3>1, FS_AddElement, FS_CardinalityType
      <3>3. balance'[a] = balance[a] + c /\ creditLine'[a] = c
        BY <1>2, <2>3, ConstantsAssumption DEF TypeOK
      <3>4. GrantsTo(a)' # {}
        BY <3>1
      <3> HIDE DEF k, c
      <3>5. c * (k + 1) = c * k + c
        BY <1>1, <3>2
      <3> QED
        BY <1>4, <2>1, <3>2, <3>3, <3>4, <3>5 DEF k
    <2>4. CASE a # borrower
      <3>1. GrantsTo(a)' = GrantsTo(a)
        BY <1>1, <1>2, <1>5, <2>4 DEF GrantsTo, TypeOK
      <3>2. balance'[a] = balance[a] /\ creditLine'[a] = creditLine[a]
        BY <1>2, <2>4, ConstantsAssumption DEF TypeOK
      <3> QED
        BY <1>4, <2>1, <3>1, <3>2
    <2> QED
      BY <2>3, <2>4
  <1>9. GrantsSound'
    <2> SUFFICES ASSUME NEW m \in nullifiers'
                 PROVE  GrantSound(m)'
      BY DEF GrantsSound
    <2>1. CASE m = n
      <3>1. granted'[m] = g
        BY <1>1, <1>2, <2>1 DEF TypeOK
      <3>2. /\ j.len = JOURNAL_LEN /\ <<policy.imageId, j>> \in receipts
            /\ j.issuer \in issuers /\ j.threshold >= policy.required /\ j.meets = 1
        BY DEF RequestCredit, Eligible, Disburse, Verified, MeetsPolicy, TypeOK
      <3> QED
        BY <1>2, <1>3, <2>1, <3>1, <3>2 DEF GrantSound
    <2>2. CASE m # n
      <3>1. m \in nullifiers /\ granted'[m] = granted[m]
        BY <1>1, <1>2, <2>2 DEF TypeOK
      <3> QED
        BY <1>2, <3>1 DEF GrantsSound, GrantSound
    <2> QED
      BY <2>1, <2>2
  <1> QED
    BY <1>6, <1>7, <1>8, <1>9

-----------------------------------------------------------------------------
(* The handover and the inductive invariant. *)

(* Everything that holds initially. *)
LEMMA InitInv == Init => IInv
  <1> SUFFICES ASSUME Init PROVE IInv
    OBVIOUS
  <1>1. nullifiers = {} /\ policy = None /\ \A n \in Nullifier : granted[n] = None
    BY DEF Init
  <1>2. IsFiniteSet(nullifiers) /\ Cardinality(nullifiers) = 0
    BY <1>1, FS_EmptySet
  <1>3. \A a \in Address : GrantsTo(a) = {}
    BY <1>1 DEF GrantsTo
  <1>4. Bookkeeping
    BY <1>1, <1>2 DEF Init, Bookkeeping
  <1>5. Conservation
    BY <1>1, <1>2 DEF Init, Conservation, CreditAmount
  <1>6. CreditLinesBacked
    BY <1>1, <1>3, FS_EmptySet DEF Init, CreditLinesBacked, CreditAmount
  <1>7. GrantsSound
    BY <1>1 DEF GrantsSound
  <1>8. ProposalStands
    BY DEF Init, ProposalStands
  <1> QED
    BY InitType, <1>4, <1>5, <1>6, <1>7, <1>8 DEF IInv

(* Each step of the admin calls keeps the whole invariant. *)
LEMMA AdminCallInv == IInv /\ AdminCall => IInv'
  <1> SUFFICES ASSUME IInv, AdminCall, NEW caller \in Address,
        \/ \E newAdmin \in Address, image \in ImageId, required \in Thresholds,
              amount \in CreditAmounts : Initialize(caller, newAdmin, image, required, amount)
        \/ \E i \in Issuer : RegisterIssuer(caller, i)
        \/ \E i \in Issuer : UnregisterIssuer(caller, i)
        \/ \E newAdmin \in Address : ProposeAdmin(caller, newAdmin)
        \/ AcceptAdmin(caller)
        \/ CancelAdminProposal(caller)
      PROVE IInv'
    BY DEF AdminCall
  <1> USE DEF IInv
  <1>0. TypeOK'
    BY AdminCallType
  <1>1. ASSUME NEW newAdmin \in Address, NEW image \in ImageId, NEW required \in Thresholds,
               NEW amount \in CreditAmounts, Initialize(caller, newAdmin, image, required, amount)
        PROVE IInv'
    <2>1. ProposalStands'
      BY <1>1 DEF Initialize, Initialized, ProposalStands, TypeOK
    <2> QED
      BY <1>0, <1>1, <2>1, InitializeBooks
  <1>2. ASSUME NEW i \in Issuer, RegisterIssuer(caller, i) \/ UnregisterIssuer(caller, i)
        PROVE IInv'
    <2>1. QuietOnBooks /\ admin' = admin /\ ProposalStands'
      BY <1>2 DEF RegisterIssuer, UnregisterIssuer, world, QuietOnBooks, ProposalStands, TypeOK
    <2> QED
      BY <1>0, <2>1, QuietBooks
  <1>3. ASSUME NEW newAdmin \in Address, ProposeAdmin(caller, newAdmin)
        PROVE IInv'
    <2>1. QuietOnBooks /\ admin' = admin
      BY <1>3 DEF ProposeAdmin, world, QuietOnBooks, TypeOK
    <2>2. ProposalStands'
      BY <1>3 DEF ProposeAdmin, Authorized, Initialized, ProposalStands
    <2> QED
      BY <1>0, <2>1, <2>2, QuietBooks
  <1>4. CASE AcceptAdmin(caller)
    <2>1. QuietOnBooks
      BY <1>4 DEF AcceptAdmin, world, QuietOnBooks, TypeOK
    <2>2. admin # None /\ admin' # None /\ ProposalStands'
      BY <1>4 DEF AcceptAdmin, Initialized, ProposalStands
    <2> QED
      BY <1>0, <2>1, <2>2, QuietBooks
  <1>5. CASE CancelAdminProposal(caller)
    <2>1. QuietOnBooks /\ admin' = admin /\ ProposalStands'
      BY <1>5 DEF CancelAdminProposal, world, QuietOnBooks, ProposalStands, TypeOK
    <2> QED
      BY <1>0, <2>1, QuietBooks
  <1> QED
    BY <1>1, <1>2, <1>3, <1>4, <1>5

(* So does every step of the environment: funding is the only one that moves *)
(* money, and it counts what it moves.                                       *)
LEMMA EnvironmentInv == IInv /\ Environment => IInv'
  <1> SUFFICES ASSUME IInv, Environment PROVE IInv'
    OBVIOUS
  <1> USE DEF IInv
  <1>0. TypeOK'
    BY EnvironmentType
  <1>1. QuietOnBooks
    <2>1. ASSUME NEW amount \in 1 .. MaxFunded, FundTreasury(amount) PROVE QuietOnBooks
      BY <2>1, ConstantsAssumption DEF FundTreasury, QuietOnBooks, TypeOK, contract, world
    <2>2. ASSUME NEW image \in ImageId, NEW j \in Journal, Prove(image, j) PROVE QuietOnBooks
      BY <2>2 DEF Prove, QuietOnBooks, TypeOK, contract, history
    <2>3. CASE RouterChanges
      BY <2>3 DEF RouterChanges, QuietOnBooks, TypeOK, contract, history
    <2>4. ASSUME NEW k \in Archivable, Archive(k) \/ Restore(k) PROVE QuietOnBooks
      BY <2>4 DEF Archive, Restore, QuietOnBooks, TypeOK, contract, history
    <2> QED
      BY <2>1, <2>2, <2>3, <2>4 DEF Environment
  <1>2. UNCHANGED <<admin, pendingAdmin, proposedBy>>
    BY DEF Environment, FundTreasury, Prove, RouterChanges, Archive, Restore, contract, history
  <1>3. ProposalStands'
    BY <1>2 DEF ProposalStands
  <1> QED
    BY <1>0, <1>1, <1>2, <1>3, QuietBooks

(* IInv is inductive. *)
LEMMA NextInv == IInv /\ [Next]_vars => IInv'
  <1> SUFFICES ASSUME IInv, [Next]_vars PROVE IInv'
    OBVIOUS
  <1>1. ASSUME NEW borrower \in Address, NEW j \in Journal, RequestCredit(borrower, j)
        PROVE IInv'
    <2>1. TypeOK'
      <3>1. policy \in Policy
        BY <1>1 DEF IInv, RequestCredit, Eligible, Disburse, Initialized, Bookkeeping, TypeOK
      <3> QED
        BY <1>1, <3>1, RequestCreditType DEF IInv
    <2>2. ProposalStands'
      BY <1>1 DEF IInv, RequestCredit, Eligible, Disburse, ProposalStands
    <2> QED
      BY <1>1, <2>1, <2>2, RequestCreditBooks DEF IInv
  <1>2. CASE UNCHANGED vars
    <2> USE DEF vars, contract, world, history
    <2>1. TypeOK'
      BY <1>2 DEF IInv, TypeOK
    <2>2. QuietOnBooks /\ ProposalStands'
      BY <1>2 DEF IInv, QuietOnBooks, TypeOK, ProposalStands
    <2> QED
      BY <1>2, <2>1, <2>2, QuietBooks DEF IInv
  <1>3. CASE AdminCall
    BY <1>3, AdminCallInv
  <1>4. CASE Environment
    BY <1>4, EnvironmentInv
  <1> QED
    BY <1>1, <1>2, <1>3, <1>4 DEF Next

(* The whole inductive invariant holds of every reachable state. *)
THEOREM Invariance == Spec => []IInv
  BY InitInv, NextInv, PTL DEF Spec

(* Types are respected for every instance. *)
THEOREM TypeCorrect == Spec => []TypeOK
  <1>1. IInv => TypeOK
    BY DEF IInv
  <1> QED
    BY <1>1, Invariance, PTL

(* The treasury holds exactly what was paid in less one credit amount per    *)
(* spent nullifier.                                                          *)
THEOREM MoneyConserved == Spec => []Conservation
  <1>1. IInv => Conservation
    BY DEF IInv
  <1> QED
    BY <1>1, Invariance, PTL

(* A borrower's credit line is backed by the money it received.              *)
THEOREM LinesBacked == Spec => []CreditLinesBacked
  <1>1. IInv => CreditLinesBacked
    BY DEF IInv
  <1> QED
    BY <1>1, Invariance, PTL

(* Every grant ever made rests on a proof of the lender's guest program that *)
(* meets the policy still in force.                                          *)
THEOREM OnlySoundGrants == Spec => []GrantsSound
  <1>1. IInv => GrantsSound
    BY DEF IInv
  <1> QED
    BY <1>1, Invariance, PTL

(* A nominee who may accept was proposed by the admin in office.            *)
THEOREM NomineeIsTheAdmins == Spec => []ProposalStands
  <1>1. IInv => ProposalStands
    BY DEF IInv
  <1> QED
    BY <1>1, Invariance, PTL

-----------------------------------------------------------------------------
(* Authority. *)

(* Each step is signed by the party whose power or money it moves.           *)
LEMMA NextAuthority ==
  ASSUME IInv, Next, Initialized
  PROVE  /\ issuers' # issuers => signer' = admin
         /\ pendingAdmin' # pendingAdmin => signer' \in {admin, admin'}
         /\ admin' # admin => signer' = admin' /\ proposedBy = admin /\ admin' = pendingAdmin
         /\ \A a \in Address : balance'[a] # balance[a] => signer' = a
  <1> DEFINE Good ==
         /\ issuers' # issuers => signer' = admin
         /\ pendingAdmin' # pendingAdmin => signer' \in {admin, admin'}
         /\ admin' # admin => signer' = admin' /\ proposedBy = admin /\ admin' = pendingAdmin
         /\ \A a \in Address : balance'[a] # balance[a] => signer' = a
  <1>1. ASSUME NEW borrower \in Address, NEW j \in Journal, RequestCredit(borrower, j)
        PROVE Good
    <2>1. \A a \in Address : a # borrower => balance'[a] = balance[a]
      BY <1>1, ConstantsAssumption DEF RequestCredit, Eligible, Disburse, Transfer, IInv, TypeOK
    <2> QED
      BY <1>1, <2>1 DEF RequestCredit, Eligible, Disburse
  <1>2. CASE AdminCall
    BY <1>2 DEF AdminCall, Initialize, RegisterIssuer, UnregisterIssuer, ProposeAdmin,
                AcceptAdmin, CancelAdminProposal, Authorized, Initialized, IInv, ProposalStands
  <1>3. CASE Environment
    <2>1. ASSUME NEW amount \in 1 .. MaxFunded, FundTreasury(amount) PROVE Good
      BY <2>1, ConstantsAssumption DEF FundTreasury, contract, IInv, TypeOK
    <2>2. CASE \/ \E image \in ImageId, j \in Journal : Prove(image, j)
               \/ RouterChanges
               \/ \E k \in Archivable : Archive(k) \/ Restore(k)
      BY <2>2 DEF Prove, RouterChanges, Archive, Restore, contract
    <2> QED
      BY <1>3, <2>1, <2>2 DEF Environment
  <1> QED
    BY <1>1, <1>2, <1>3 DEF Next

(* Registry, proposal, office and money move only under the right signature. *)
THEOREM Authority == Spec => AuthorityRespected
  <1>1. IInv /\ [Next]_vars =>
          [Initialized =>
             /\ issuers' # issuers => signer' = admin
             /\ pendingAdmin' # pendingAdmin => signer' \in {admin, admin'}
             /\ admin' # admin => signer' = admin' /\ proposedBy = admin /\ admin' = pendingAdmin
             /\ \A a \in Address : balance'[a] # balance[a] => signer' = a]_vars
    BY NextAuthority
  <1> QED
    BY <1>1, Invariance, PTL DEF Spec, AuthorityRespected

-----------------------------------------------------------------------------
(* The contract implements its promise. *)

(* Initial states map to initial states. *)
LEMMA PromiseInit == Init => Promise!Init
  BY ConstantsAssumption DEF Init, Promise!Init

(* Every step of the contract and its environment opens, deposits, pays or   *)
(* stutters.                                                                 *)
LEMMA PromiseStep ==
  ASSUME IInv, IInv', [Next]_vars
  PROVE  [Promise!Next]_(Promise!vars)
  <1> USE DEF Promise!vars
  <1>1. CASE UNCHANGED <<policy, granted, balance>>
    BY <1>1
  <1>2. ASSUME NEW caller \in Address, NEW newAdmin \in Address, NEW image \in ImageId,
               NEW required \in Thresholds, NEW amount \in CreditAmounts,
               Initialize(caller, newAdmin, image, required, amount)
        PROVE Promise!Open
    <2>1. policy = None
      BY <1>2 DEF Initialize, Initialized, IInv, Bookkeeping
    <2>2. policy'.credit = amount /\ policy' # None /\ amount \in Nat \ {0}
      BY <1>2, NoneAssumption, ConstantsAssumption DEF Initialize, Policy
    <2>3. UNCHANGED <<granted, balance>>
      BY <1>2 DEF Initialize
    <2> QED
      BY <2>1, <2>2, <2>3 DEF Promise!Open
  <1>3. ASSUME NEW borrower \in Address, NEW j \in Journal, RequestCredit(borrower, j)
        PROVE Promise!Pay(j.nullifier, borrower) /\ j.nullifier \in Nullifier
    <2> DEFINE n == j.nullifier
               g == [borrower |-> borrower, journal |-> j, policy |-> policy, issuers |-> issuers]
    <2>1. policy \in Policy /\ policy' = policy /\ policy # None
      BY <1>3, NoneAssumption DEF RequestCredit, Eligible, Disburse, Initialized, IInv, Bookkeeping, TypeOK
    <2>2. policy.credit # None /\ policy.credit \in Nat
      BY <2>1, NoneAssumption DEF Policy
    <2>3. n \in Nullifier
      BY ConstantsAssumption DEF JournalType
    <2>4. granted[n] = None
      BY <1>3, <2>3 DEF RequestCredit, Eligible, Disburse, IInv, Bookkeeping
    <2>5. granted' = [granted EXCEPT ![n] = g] /\ g # None
      BY <1>3, <2>1, NoneAssumption DEF RequestCredit, Eligible, Disburse, Grant, IInv, TypeOK
    <2>6. [m \in Nullifier |-> IF granted[m] = None THEN None ELSE granted[m].borrower]'
            = [[m \in Nullifier |-> IF granted[m] = None THEN None ELSE granted[m].borrower]
                 EXCEPT ![n] = borrower]
      BY <2>3, <2>5 DEF IInv, TypeOK
    <2>7. balance[Self] >= policy.credit /\ balance'[Self] = balance[Self] - policy.credit
      BY <1>3, ConstantsAssumption DEF RequestCredit, Eligible, Disburse, Transfer, IInv, TypeOK
    <2> QED
      BY <2>1, <2>2, <2>3, <2>4, <2>6, <2>7 DEF Promise!Pay
  <1>4. ASSUME NEW amount \in 1 .. MaxFunded, FundTreasury(amount)
        PROVE Promise!Deposit
    <2>1. balance'[Self] \in Nat /\ balance'[Self] > balance[Self]
      BY <1>4, ConstantsAssumption DEF FundTreasury, IInv, TypeOK
    <2>2. UNCHANGED <<policy, granted>>
      BY <1>4 DEF FundTreasury, contract
    <2> QED
      BY <2>1, <2>2 DEF Promise!Deposit
  <1>5. CASE UNCHANGED vars
    BY <1>1, <1>5 DEF vars, contract, history
  <1>6. CASE AdminCall
    <2>1. CASE \E caller, newAdmin \in Address, image \in ImageId, required \in Thresholds,
                 amount \in CreditAmounts : Initialize(caller, newAdmin, image, required, amount)
      BY <1>2, <2>1 DEF Promise!Next
    <2>2. CASE ~\E caller, newAdmin \in Address, image \in ImageId, required \in Thresholds,
                  amount \in CreditAmounts : Initialize(caller, newAdmin, image, required, amount)
      <3>1. UNCHANGED <<policy, granted, balance>>
        BY <1>6, <2>2 DEF AdminCall, RegisterIssuer, UnregisterIssuer, ProposeAdmin,
                          AcceptAdmin, CancelAdminProposal
      <3> QED
        BY <1>1, <3>1
    <2> QED
      BY <2>1, <2>2
  <1>7. CASE Environment
    <2>1. CASE \E amount \in 1 .. MaxFunded : FundTreasury(amount)
      BY <1>4, <2>1 DEF Promise!Next
    <2>2. CASE ~\E amount \in 1 .. MaxFunded : FundTreasury(amount)
      <3>1. UNCHANGED <<policy, granted, balance>>
        BY <1>7, <2>2 DEF Environment, Prove, RouterChanges, Archive, Restore, contract, history
      <3> QED
        BY <1>1, <3>1
    <2> QED
      BY <2>1, <2>2
  <1> QED
    BY <1>3, <1>5, <1>6, <1>7 DEF Next, Promise!Next

(* The lender pays each nullifier at most once, a fixed amount, out of money *)
(* that was paid in before, whatever admins, issuers, provers and the host   *)
(* do.                                                                       *)
THEOREM ContractKeepsPromise == Spec => ImplementsPromise
  <1>1. IInv /\ IInv' /\ [Next]_vars => [Promise!Next]_(Promise!vars)
    BY PromiseStep
  <1> QED
    BY <1>1, PromiseInit, Invariance, PTL DEF Spec, ImplementsPromise, Promise!Spec
=============================================================================
