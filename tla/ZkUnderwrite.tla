---------------------------- MODULE ZkUnderwrite ----------------------------
(***************************************************************************)
(* The lender contract, contracts/zkunderwrite/src/lib.rs.                 *)
(*                                                                         *)
(* One action per entry point.  A Soroban invocation is one transaction:   *)
(* a panic rolls back everything the call wrote, so a call that fails any  *)
(* check is a stuttering step and only the successful path is an action.   *)
(* The guards appear in the order the code tests them.                     *)
(*                                                                         *)
(* Outside the contract, and modelled from how it is used: the token       *)
(* contract (balance), the provers and the verifier router (receipts,      *)
(* accepted) and the host's archival of persistent entries whose TTL       *)
(* lapsed (archived).                                                      *)
(***************************************************************************)
EXTENDS Integers, FiniteSets

CONSTANTS
  Address,      \* accounts: admins and borrowers
  ImageId,      \* guest program ids, the all-zero one included
  ZeroImage,    \* BytesN<32> of zeros
  Issuer,       \* sha256 hashes of issuer public keys
  Nullifier,    \* nullifiers a journal can carry
  Journal,      \* the journals that can be submitted
  Provable,     \* <<image, journal>>: what some prover can produce a seal for
  Thresholds,   \* required_threshold values offered to init
  CreditAmounts,\* credit_amount values offered to init
  Archivable,   \* persistent keys whose TTL may lapse
  MaxFunded,    \* bound on the USDC ever paid into the treasury
  Self,         \* the contract's own address
  None          \* an absent storage entry

JOURNAL_LEN == 81

(* A journal by the fields request_credit reads from its bytes. *)
JournalType ==
  [len : Nat, issuer : Issuer, threshold : Nat, meets : 0 .. 255, nullifier : Nullifier]

(* The persistent DataKey entries. *)
IssuerKey(i)     == <<"Issuer", i>>
NullifierKey(n)  == <<"Nullifier", n>>
CreditLineKey(a) == <<"CreditLine", a>>
Key == {IssuerKey(i) : i \in Issuer} \cup {NullifierKey(n) : n \in Nullifier}
         \cup {CreditLineKey(a) : a \in Address}

ASSUME ConstantsAssumption ==
  /\ Self \notin Address
  /\ None \notin Address
  /\ ZeroImage \in ImageId
  /\ Journal \subseteq JournalType
  /\ Provable \subseteq ImageId \X Journal
  /\ Thresholds \subseteq Nat
  /\ CreditAmounts \subseteq Int
  /\ Archivable \subseteq Key
  /\ MaxFunded \in Nat

Policy == [imageId : ImageId, required : Nat, credit : Nat \ {0}]

Grant == [borrower : Address, journal : Journal, policy : Policy, issuers : SUBSET Issuer]

ASSUME NoneAssumption == None \notin Policy /\ None \notin Grant /\ None \notin Nat

VARIABLES
  admin,         \* DataKey::Admin
  pendingAdmin,  \* DataKey::PendingAdmin
  policy,        \* ImageId, RequiredThreshold and CreditAmount, set together
  issuers,       \* the present Issuer(_) keys
  nullifiers,    \* the present Nullifier(_) keys
  creditLine,    \* CreditLine(_), 0 when absent
  balance,       \* USDC balances (external token contract)
  receipts,      \* <<image, journal>>: the proofs that exist (external provers)
  accepted,      \* the receipts the router accepts now (external)
  archived,      \* persistent keys archived by the host (external)
  signer,        \* history: who signed the last call of the contract
  proposedBy,    \* history: who made the pending proposal
  granted,       \* history: what each spent nullifier paid for
  funded         \* history: USDC ever paid into the treasury

contract == <<admin, pendingAdmin, policy, issuers, nullifiers, creditLine>>
world    == <<receipts, accepted, archived>>
history  == <<signer, proposedBy, granted, funded>>
vars     == <<contract, balance, world, history>>

TypeOK ==
  /\ admin \in Address \cup {None}
  /\ pendingAdmin \in Address \cup {None}
  /\ policy \in Policy \cup {None}
  /\ issuers \subseteq Issuer
  /\ nullifiers \subseteq Nullifier
  /\ creditLine \in [Address -> Nat]
  /\ balance \in [Address \cup {Self} -> Nat]
  /\ receipts \subseteq Provable
  /\ accepted \subseteq receipts
  /\ archived \subseteq Key
  /\ signer \in Address \cup {None}
  /\ proposedBy \in Address \cup {None}
  /\ granted \in [Nullifier -> Grant \cup {None}]
  /\ funded \in Nat

Init ==
  /\ admin = None
  /\ pendingAdmin = None
  /\ policy = None
  /\ issuers = {}
  /\ nullifiers = {}
  /\ creditLine = [a \in Address |-> 0]
  /\ balance = [a \in Address \cup {Self} |-> 0]
  /\ receipts = {}
  /\ accepted = {}
  /\ archived = {}
  /\ signer = None
  /\ proposedBy = None
  /\ granted = [n \in Nullifier |-> None]
  /\ funded = 0

-----------------------------------------------------------------------------
(* Helpers of the contract and of the host. *)

Initialized == admin # None

(* a.require_auth() in a transaction signed by caller. *)
Authorized(caller, a) == caller = a

(* The host fails a transaction whose footprint holds an archived entry. *)
Accessible(keys) == keys \cap archived = {}

(* RiscZeroVerifierRouterClient::verify with the image id the contract stored. *)
Verified(j) == <<policy.imageId, j>> \in accepted

(* Token transfer; the guard is the token contract's balance check. *)
Transfer(from, to, amount) ==
  /\ balance[from] >= amount
  /\ balance' = [balance EXCEPT ![from] = @ - amount, ![to] = @ + amount]

(* Mutant: the flag is compared with "not zero" instead of 1. *)
MeetsPolicyLoosely(j) ==
  /\ j.threshold >= policy.required
  /\ j.meets # 0

(* The policy checks of request_credit that read no storage but the policy. *)
MeetsPolicy(j) ==
  /\ j.threshold >= policy.required
  /\ j.meets = 1

-----------------------------------------------------------------------------
(* Entry points.  caller signs the transaction. *)

(* Mutant: init may be called again by whoever signs for the new admin. *)
InitializeAgain(caller, newAdmin, image, required, amount) ==
  /\ amount > 0
  /\ required # 0
  /\ image # ZeroImage
  /\ Authorized(caller, newAdmin)
  /\ admin' = newAdmin
  /\ policy' = [imageId |-> image, required |-> required, credit |-> amount]
  /\ signer' = caller
  /\ UNCHANGED <<pendingAdmin, issuers, nullifiers, creditLine, balance, world, proposedBy, granted, funded>>

(* init. *)
Initialize(caller, newAdmin, image, required, amount) ==
  /\ ~Initialized
  /\ amount > 0
  /\ required # 0
  /\ image # ZeroImage
  /\ Authorized(caller, newAdmin)
  /\ admin' = newAdmin
  /\ policy' = [imageId |-> image, required |-> required, credit |-> amount]
  /\ signer' = caller
  /\ UNCHANGED <<pendingAdmin, issuers, nullifiers, creditLine, balance, world, proposedBy, granted, funded>>

RegisterIssuer(caller, i) ==
  /\ Initialized
  /\ Authorized(caller, admin)
  /\ Accessible({IssuerKey(i)})
  /\ issuers' = issuers \cup {i}
  /\ signer' = caller
  /\ UNCHANGED <<admin, pendingAdmin, policy, nullifiers, creditLine, balance, world, proposedBy, granted, funded>>

UnregisterIssuer(caller, i) ==
  /\ Initialized
  /\ Authorized(caller, admin)
  /\ Accessible({IssuerKey(i)})
  /\ issuers' = issuers \ {i}
  /\ signer' = caller
  /\ UNCHANGED <<admin, pendingAdmin, policy, nullifiers, creditLine, balance, world, proposedBy, granted, funded>>

ProposeAdmin(caller, newAdmin) ==
  /\ Initialized
  /\ Authorized(caller, admin)
  /\ pendingAdmin' = newAdmin
  /\ proposedBy' = caller
  /\ signer' = caller
  /\ UNCHANGED <<admin, policy, issuers, nullifiers, creditLine, balance, world, granted, funded>>

(* Mutant: the accepted proposal stays in storage. *)
AcceptAdminKeepingProposal(caller) ==
  /\ Initialized
  /\ pendingAdmin # None
  /\ Authorized(caller, pendingAdmin)
  /\ admin' = pendingAdmin
  /\ signer' = caller
  /\ UNCHANGED <<pendingAdmin, proposedBy, policy, issuers, nullifiers, creditLine, balance, world, granted, funded>>

(* Mutant: accept_admin does not ask for the nominee's signature. *)
AcceptAdminByAnyone(caller) ==
  /\ Initialized
  /\ pendingAdmin # None
  /\ admin' = pendingAdmin
  /\ pendingAdmin' = None
  /\ proposedBy' = None
  /\ signer' = caller
  /\ UNCHANGED <<policy, issuers, nullifiers, creditLine, balance, world, granted, funded>>

(* accept_admin. *)
AcceptAdmin(caller) ==
  /\ Initialized
  /\ pendingAdmin # None
  /\ Authorized(caller, pendingAdmin)
  /\ admin' = pendingAdmin
  /\ pendingAdmin' = None
  /\ proposedBy' = None
  /\ signer' = caller
  /\ UNCHANGED <<policy, issuers, nullifiers, creditLine, balance, world, granted, funded>>

CancelAdminProposal(caller) ==
  /\ Initialized
  /\ Authorized(caller, admin)
  /\ pendingAdmin # None
  /\ pendingAdmin' = None
  /\ proposedBy' = None
  /\ signer' = caller
  /\ UNCHANGED <<admin, policy, issuers, nullifiers, creditLine, balance, world, granted, funded>>

(* Mutant: the nullifier in temporary storage, absent once its TTL lapsed. *)
EligibleOnceForgotten(borrower, j) ==
  /\ Initialized
  /\ j.len = JOURNAL_LEN
  /\ Verified(j)
  /\ Accessible({IssuerKey(j.issuer), CreditLineKey(borrower)})
  /\ j.issuer \in issuers
  /\ MeetsPolicy(j)
  /\ j.nullifier \in nullifiers => NullifierKey(j.nullifier) \in archived

(* The checks of request_credit, in its order. *)
Eligible(borrower, j) ==
  /\ Initialized
  /\ j.len = JOURNAL_LEN
  /\ Verified(j)
  /\ Accessible({IssuerKey(j.issuer), NullifierKey(j.nullifier), CreditLineKey(borrower)})
  /\ j.issuer \in issuers
  /\ MeetsPolicy(j)
  /\ j.nullifier \notin nullifiers

(* Mutant: the line adds up instead of being set. *)
DisburseAddingUp(borrower, j) ==
  /\ nullifiers' = nullifiers \cup {j.nullifier}
  /\ Transfer(Self, borrower, policy.credit)
  /\ creditLine' = [creditLine EXCEPT ![borrower] = @ + policy.credit]

(* Mutant: the nullifier is not written. *)
DisburseUnmarked(borrower, j) ==
  /\ Transfer(Self, borrower, policy.credit)
  /\ creditLine' = [creditLine EXCEPT ![borrower] = policy.credit]
  /\ UNCHANGED nullifiers

(* What request_credit writes once every check passed. *)
Disburse(borrower, j) ==
  /\ nullifiers' = nullifiers \cup {j.nullifier}
  /\ Transfer(Self, borrower, policy.credit)
  /\ creditLine' = [creditLine EXCEPT ![borrower] = policy.credit]

(* request_credit. *)
RequestCredit(borrower, j) ==
  /\ Eligible(borrower, j)
  /\ Disburse(borrower, j)
  /\ granted' = [granted EXCEPT ![j.nullifier] =
       [borrower |-> borrower, journal |-> j, policy |-> policy, issuers |-> issuers]]
  /\ signer' = borrower
  /\ UNCHANGED <<admin, pendingAdmin, policy, issuers, world, proposedBy, funded>>

-----------------------------------------------------------------------------
(* The environment. *)

(* Someone pays USDC into the contract's balance; the contract has no say. *)
FundTreasury(amount) ==
  /\ funded + amount <= MaxFunded
  /\ balance' = [balance EXCEPT ![Self] = @ + amount]
  /\ funded' = funded + amount
  /\ UNCHANGED <<contract, world, signer, proposedBy, granted>>

(* A prover obtains a seal for a journal some guest program committed; the  *)
(* seal may or may not name a verifier the router knows.                    *)
Prove(image, j) ==
  /\ <<image, j>> \in Provable
  /\ receipts' = receipts \cup {<<image, j>>}
  /\ accepted' \in {accepted, accepted \cup {<<image, j>>}}
  /\ UNCHANGED <<contract, balance, archived, history>>

(* Verifiers behind the router are added, stopped or removed.               *)
RouterChanges ==
  /\ accepted' \in SUBSET receipts
  /\ UNCHANGED <<contract, balance, receipts, archived, history>>

Present(k) ==
  \/ \E i \in issuers : k = IssuerKey(i)
  \/ \E n \in nullifiers : k = NullifierKey(n)
  \/ \E a \in Address : k = CreditLineKey(a) /\ creditLine[a] # 0

(* The TTL of a present entry lapses: nothing in the contract extends it. *)
Archive(k) ==
  /\ k \in Archivable \ archived
  /\ Present(k)
  /\ archived' = archived \cup {k}
  /\ UNCHANGED <<contract, balance, receipts, accepted, history>>

(* RestoreFootprint brings the entry back with the value it had. *)
Restore(k) ==
  /\ k \in archived
  /\ archived' = archived \ {k}
  /\ UNCHANGED <<contract, balance, receipts, accepted, history>>

-----------------------------------------------------------------------------
AdminCall ==
  \E caller \in Address :
    \/ \E newAdmin \in Address, image \in ImageId, required \in Thresholds,
          amount \in CreditAmounts : Initialize(caller, newAdmin, image, required, amount)
    \/ \E i \in Issuer : RegisterIssuer(caller, i)
    \/ \E i \in Issuer : UnregisterIssuer(caller, i)
    \/ \E newAdmin \in Address : ProposeAdmin(caller, newAdmin)
    \/ AcceptAdmin(caller)
    \/ CancelAdminProposal(caller)

Environment ==
  \/ \E amount \in 1 .. MaxFunded : FundTreasury(amount)
  \/ \E image \in ImageId, j \in Journal : Prove(image, j)
  \/ RouterChanges
  \/ \E k \in Archivable : Archive(k)
  \/ \E k \in Archivable : Restore(k)

Next ==
  \/ AdminCall
  \/ \E borrower \in Address, j \in Journal : RequestCredit(borrower, j)
  \/ Environment

Spec == Init /\ [][Next]_vars

-----------------------------------------------------------------------------
(* Properties. *)

CreditAmount == IF policy = None THEN 0 ELSE policy.credit

GrantsTo(a) == {n \in Nullifier : granted[n] # None /\ granted[n].borrower = a}

(* Every USDC that left the treasury is matched by exactly one spent        *)
(* nullifier, and no nullifier is spent without its payment: the treasury   *)
(* holds what was paid in less one credit amount per nullifier.  Guards the *)
(* check-then-set of the nullifier against a second disbursement, a failed  *)
(* transfer that burns the proof, and archival of the nullifier entry.      *)
Conservation ==
  balance[Self] + CreditAmount * Cardinality(nullifiers) = funded

(* What credit_line reports for a borrower is backed by money received:     *)
(* each borrower holds one credit amount per grant made to it, and its line *)
(* is nonzero exactly when there is such a grant.                           *)
CreditLinesBacked ==
  \A a \in Address :
    /\ balance[a] = CreditAmount * Cardinality(GrantsTo(a))
    /\ creditLine[a] = IF GrantsTo(a) = {} THEN 0 ELSE CreditAmount

(* The grant that spent nullifier n stands on a proof, a policy and an       *)
(* issuer: see GrantsSound.                                                  *)
GrantSound(n) ==
  /\ granted[n] # None
  /\ LET g == granted[n] IN
       /\ g.policy = policy
       /\ <<policy.imageId, g.journal>> \in receipts
       /\ g.journal.len = JOURNAL_LEN
       /\ g.journal.nullifier = n
       /\ g.journal.issuer \in g.issuers
       /\ g.journal.threshold >= policy.required
       /\ g.journal.meets = 1

(* Every grant, however old, stands on a proof of the lender's own guest    *)
(* program that meets the policy in force now, from an issuer registered    *)
(* when the money moved, and carries the nullifier it consumed.  Holds only *)
(* because neither init nor a handover can change the policy afterwards.    *)
GrantsSound == \A n \in nullifiers : GrantSound(n)

(* A pending proposal is always one the admin now in office made: accepting *)
(* or withdrawing leaves none behind, so an ex-admin's nominee never takes  *)
(* over from its successor.                                                 *)
ProposalStands == pendingAdmin # None => admin # None /\ proposedBy = admin

(* Every change is signed by the party it takes power or money from or      *)
(* gives it to: the registry and the pending proposal move only under the   *)
(* signature of the admin in office, the admin changes only under that of a *)
(* nominee the outgoing admin itself had proposed and not withdrawn, and    *)
(* money leaves the treasury only towards the account that signed.          *)
AuthorityRespected ==
  [][Initialized =>
       /\ issuers' # issuers => signer' = admin
       /\ pendingAdmin' # pendingAdmin => signer' \in {admin, admin'}
       /\ admin' # admin => signer' = admin' /\ proposedBy = admin /\ admin' = pendingAdmin
       /\ \A a \in Address : balance'[a] # balance[a] => signer' = a]_vars

(* Nothing is lent before init, and a nullifier is spent exactly when a     *)
(* grant consumed it.                                                       *)
Bookkeeping ==
  /\ admin = None <=> policy = None
  /\ policy = None => nullifiers = {}
  /\ nullifiers = {n \in Nullifier : granted[n] # None}
  /\ IsFiniteSet(nullifiers)

(* The inductive invariant of ZkUnderwriteProofs: the books, the grants and *)
(* the handover state together.                                             *)
IInv ==
  /\ TypeOK
  /\ Bookkeeping
  /\ Conservation
  /\ CreditLinesBacked
  /\ GrantsSound
  /\ ProposalStands

(* The contract implements CreditPromise. *)
Promise == INSTANCE CreditPromise WITH
  terms  <- IF policy = None THEN None ELSE policy.credit,
  paidTo <- [n \in Nullifier |-> IF granted[n] = None THEN None ELSE granted[n].borrower],
  pot    <- balance[Self]

ImplementsPromise == Promise!Spec

-----------------------------------------------------------------------------
(* What THREAT_MODEL.md says and the code no longer does. *)

(* "the admin set at `init` is permanent for the life of the contract"      *)
(* (THREAT_MODEL.md, Actors): accept_admin replaces it.                     *)
AdminIsPermanent == [][Initialized => admin' = admin]_vars
=============================================================================
