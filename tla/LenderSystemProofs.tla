------------------------- MODULE LenderSystemProofs -------------------------
(***************************************************************************)
(* Proofs about VerifierStack, and about LenderSystem, which extends it,   *)
(* for any statements, issuers, verifiers, wrappers and programs.  For the *)
(* stack one lemma, StepsKeep, goes through the actions, and the theorems  *)
(* are read off it.  For the system the invariants of the lender, proved   *)
(* in ZkUnderwriteProofs, and of the stack are joined by what ties a       *)
(* payment to the seal and the statement behind it.                        *)
(***************************************************************************)
EXTENDS LenderSystem, IncomeStatementProofs, FiniteSetTheorems, TLAPS

-----------------------------------------------------------------------------
(* The verifier stack. *)

(* What no step undoes. *)
Kept ==
  /\ \A s \in Selector : entry[s] = Tombstone => entry'[s] = Tombstone
  /\ \A s \in Selector : entry[s] \in Verifier => entry'[s] \in {entry[s], Tombstone}
  /\ \A s \in Selector : route[s] # None => route'[s] = route[s]
  /\ \A w \in Wrapper : paused[w] => paused'[w]
  /\ \A w \in Wrapper : wrapped[w] # None => wrapped'[w] = wrapped[w]
  /\ \A w \in Wrapper : paused'[w] /\ ~paused[w] => signer' = owner[w] \/ wrapped[w] \in Broken
  /\ owner[Router] = None => owner'[Router] = None /\ entry' = entry

(* The initial state satisfies the invariant. *)
LEMMA InitIInv == Init => IInv
<1> SUFFICES ASSUME Init PROVE IInv
  OBVIOUS
<1> USE RouterAssumption, StopAssumption, StackAssumption DEF Init, RouterInit, StopInit
<1>1. TypeOK
  BY DEF TypeOK, OwnableTypeOK, RouterTypeOK, StopTypeOK, Entries
<1>2. Bookkeeping
  BY DEF Bookkeeping
<1> QED
  BY <1>1, <1>2 DEF IInv

(* Calls on the ownership of a contract keep the invariant and undo nothing. *)
LEMMA OwnerCallsKeep ==
  ASSUME IInv, NEW c \in Contract, UNCHANGED <<entry, lapsed, route, wrapped, paused>>,
         \/ OfferLapses(c) /\ signer' = None
         \/ \E caller \in Account :
              /\ signer' = caller
              /\ \/ \E a \in Account : TransferOwnership(caller, c, a)
                 \/ AcceptOwnership(caller, c)
                 \/ RenounceOwnership(caller, c)
  PROVE  IInv' /\ Kept
<1> USE RouterAssumption, StopAssumption, StackAssumption
<1>T. TypeOK /\ Bookkeeping
  BY DEF IInv
<1>1. OwnableTypeOK' /\ signer' \in Account \cup {None}
  BY <1>T DEF TypeOK, OwnableTypeOK, OfferLapses, TransferOwnership, AcceptOwnership, RenounceOwnership
<1>2. RouterTypeOK' /\ StopTypeOK'
  BY <1>T DEF TypeOK, RouterTypeOK, StopTypeOK
<1>3. \A d \in Contract : owner'[d] = None => pendingOwner'[d] = None
  BY <1>T DEF TypeOK, Bookkeeping, OwnableTypeOK, OwnerSigned, OfferLapses, TransferOwnership,
    AcceptOwnership, RenounceOwnership
<1>4. \A d \in Contract : owner[d] = None => owner'[d] = None
  BY <1>T DEF TypeOK, Bookkeeping, OwnableTypeOK, OwnerSigned, OfferLapses, TransferOwnership,
    AcceptOwnership, RenounceOwnership
<1>5. Bookkeeping'
  BY <1>T, <1>3, <1>4 DEF Bookkeeping
<1>6. Kept
  BY <1>4 DEF Kept
<1> QED
  BY <1>1, <1>2, <1>5, <1>6 DEF IInv, TypeOK

(* Calls on the router and the archival of its entries do too. *)
LEMMA RouterCallsKeep ==
  ASSUME IInv, NEW s \in Selector, UNCHANGED <<wrapped, paused>>,
         \/ (ArchiveEntry(s) \/ RestoreEntry(s)) /\ signer' = None
         \/ \E caller \in Account :
              /\ signer' = caller
              /\ \/ \E v \in Verifier : AddVerifier(caller, s, v)
                 \/ RemoveVerifier(caller, s)
  PROVE  IInv' /\ Kept
<1> USE RouterAssumption, StopAssumption, StackAssumption
<1>T. TypeOK /\ Bookkeeping
  BY DEF IInv
<1>1. RouterTypeOK' /\ signer' \in Account \cup {None}
  BY <1>T DEF TypeOK, RouterTypeOK, Entries, AddVerifier, RemoveVerifier, ArchiveEntry, RestoreEntry
<1>2. UNCHANGED <<ownership, wrapped, paused>>
  BY DEF AddVerifier, RemoveVerifier, ArchiveEntry, RestoreEntry
<1>3. OwnableTypeOK' /\ StopTypeOK'
  BY <1>T, <1>2 DEF TypeOK, OwnableTypeOK, StopTypeOK, ownership
<1>4. \A t \in Selector :
        /\ entry'[t] \in Verifier => route'[t] = entry'[t]
        /\ entry'[t] = Unset <=> route'[t] = None
  BY <1>T DEF TypeOK, Bookkeeping, RouterTypeOK, Entries, AddVerifier, RemoveVerifier, ArchiveEntry, RestoreEntry
<1>5. Bookkeeping'
  BY <1>T, <1>2, <1>4 DEF Bookkeeping, ownership
<1>6. \A t \in Selector :
        /\ entry[t] = Tombstone => entry'[t] = Tombstone
        /\ entry[t] \in Verifier => entry'[t] \in {entry[t], Tombstone}
        /\ route[t] # None => route'[t] = route[t]
  BY <1>T DEF TypeOK, Bookkeeping, RouterTypeOK, Entries, AddVerifier, RemoveVerifier, ArchiveEntry, RestoreEntry
<1>7. owner[Router] = None => owner'[Router] = None /\ entry' = entry
  BY <1>2 DEF AddVerifier, RemoveVerifier, ArchiveEntry, RestoreEntry, OwnerSigned, ownership
<1>8. Kept
  BY <1>2, <1>6, <1>7 DEF Kept
<1> QED
  BY <1>1, <1>3, <1>5, <1>8 DEF IInv, TypeOK

(* So do the constructor and the stops of a wrapper. *)
LEMMA WrapperCallsKeep ==
  ASSUME IInv, NEW w \in Wrapper, UNCHANGED <<entry, lapsed, route>>,
         \/ (\E i \in Impl, g \in Account : ConstructWrapper(w, i, g)) /\ signer' = None
         \/ \E caller \in Account :
              /\ signer' = caller
              /\ Estop(caller, w) \/ \E s \in Seal : EstopWithReceipt(caller, w, s)
  PROVE  IInv' /\ Kept
<1> USE RouterAssumption, StopAssumption, StackAssumption
<1>T. TypeOK /\ Bookkeeping
  BY DEF IInv
<1>0. ownership' = ownership \/ \E g \in Account : owner' = [owner EXCEPT ![w] = g] /\ pendingOwner' = pendingOwner
  BY DEF ConstructWrapper, Estop, EstopWithReceipt
<1>1. OwnableTypeOK'
  BY <1>T, <1>0 DEF TypeOK, OwnableTypeOK, ownership
<1>A. StopTypeOK'
  BY <1>T DEF TypeOK, StopTypeOK, ConstructWrapper, Estop, EstopWithReceipt
<1>B. signer' \in Account \cup {None}
  OBVIOUS
<1>2. RouterTypeOK'
  BY <1>T DEF TypeOK, RouterTypeOK
<1>3. \A c \in Contract : owner'[c] = None => pendingOwner'[c] = None
  BY <1>T DEF TypeOK, Bookkeeping, OwnableTypeOK, ConstructWrapper, Estop, EstopWithReceipt, ownership
<1>4. \A x \in Wrapper : wrapped'[x] = None => owner'[x] = None /\ ~paused'[x]
  BY <1>T DEF TypeOK, Bookkeeping, OwnableTypeOK, StopTypeOK, ConstructWrapper, Estop, EstopWithReceipt,
    WrapperVerifies, ownership
<1>5. Bookkeeping'
  BY <1>T, <1>3, <1>4 DEF Bookkeeping
<1>6. \A x \in Wrapper :
        /\ paused[x] => paused'[x]
        /\ wrapped[x] # None => wrapped'[x] = wrapped[x]
  BY <1>T DEF TypeOK, StopTypeOK, ConstructWrapper, Estop, EstopWithReceipt
<1>7. \A x \in Wrapper : paused'[x] /\ ~paused[x] => signer' = owner[x] \/ wrapped[x] \in Broken
  BY <1>T DEF TypeOK, StopTypeOK, ConstructWrapper, Estop, EstopWithReceipt, WrapperVerifies, ImplVerifies,
    OwnerSigned
<1>8. owner'[Router] = owner[Router]
  BY <1>T DEF TypeOK, OwnableTypeOK, ConstructWrapper, Estop, EstopWithReceipt, ownership
<1>9. Kept
  BY <1>6, <1>7, <1>8 DEF Kept
<1> QED
  BY <1>1, <1>A, <1>B, <1>2, <1>5, <1>9 DEF IInv, TypeOK

(* Every step keeps the invariant and undoes nothing. *)
LEMMA StepsKeep ==
  ASSUME IInv, [Next]_stackVars
  PROVE  IInv' /\ Kept
<1>1. CASE Unsigned /\ signer' = None
  BY <1>1, OwnerCallsKeep, RouterCallsKeep, WrapperCallsKeep DEF Unsigned
<1>2. ASSUME NEW caller \in Account, signer' = caller, OwnerCall(caller),
             UNCHANGED <<entry, lapsed, route, wrapped, paused>>
      PROVE  IInv' /\ Kept
  BY <1>2, OwnerCallsKeep DEF OwnerCall
<1>3. ASSUME NEW caller \in Account, signer' = caller, RouterCall(caller), UNCHANGED <<wrapped, paused>>
      PROVE  IInv' /\ Kept
  BY <1>3, RouterCallsKeep DEF RouterCall
<1>4. ASSUME NEW caller \in Account, signer' = caller, StopCall(caller), UNCHANGED <<entry, lapsed, route>>
      PROVE  IInv' /\ Kept
  BY <1>4, WrapperCallsKeep DEF StopCall
<1>5. CASE UNCHANGED stackVars
  BY <1>5 DEF stackVars, ownership, Kept, IInv, TypeOK, OwnableTypeOK, RouterTypeOK, StopTypeOK, Bookkeeping
<1> QED
  BY <1>1, <1>2, <1>3, <1>4, <1>5 DEF Next

(* The states of owners, entries, routes and stops always fit together. *)
THEOREM Invariance == Spec => []IInv
<1>1. IInv /\ [Next]_stackVars => IInv'
  BY StepsKeep
<1> QED
  BY InitIInv, <1>1, PTL DEF Spec

(* A renounced router is frozen for good. *)
THEOREM RenouncedRouterFrozen == Spec => RenouncedForever
<1>1. IInv /\ [Next]_stackVars =>
        [owner[Router] = None => owner'[Router] = None /\ entry' = entry]_stackVars
  BY StepsKeep DEF Kept
<1> QED
  BY Invariance, <1>1, PTL DEF Spec, RenouncedForever

(* Only a guardian stops a wrapper whose verifier is sound. *)
THEOREM OnlyGuardiansStopHealthy == Spec => HealthyStoppedByGuardian
<1>1. IInv /\ [Next]_stackVars =>
        [\A w \in Wrapper : paused'[w] /\ ~paused[w] => signer' = owner[w] \/ wrapped[w] \in Broken]_stackVars
  BY StepsKeep DEF Kept
<1> QED
  BY Invariance, <1>1, PTL DEF Spec, HealthyStoppedByGuardian

(* A step leaves dead selectors dead. *)
LEMMA DeadStays ==
  ASSUME IInv, [Next]_stackVars, NEW s \in Selector, Dead(s)
  PROVE  Dead(s)'
<1>1. Kept
  BY StepsKeep
<1>2. CASE entry[s] = Tombstone
  BY <1>1, <1>2 DEF Kept, Dead
<1>3. CASE entry[s] \in Wrapper /\ paused[entry[s]]
  BY <1>1, <1>3, StackAssumption DEF Kept, Dead
<1> QED
  BY <1>2, <1>3 DEF Dead

(* A stop is final for every application behind the router. *)
THEOREM StopsAreFinal == Spec => StopIsFinal
<1>1. ASSUME IInv, IInv', [Next]_stackVars
      PROVE  \A s \in Selector : Dead(s) => Dead(s)' /\ \A x \in Seal : x.selector = s => ~RouterVerifies(x)'
  <2>1. ASSUME NEW s \in Selector, Dead(s)
        PROVE  Dead(s)'
    BY <1>1, <2>1, DeadStays
  <2>2. ASSUME NEW s \in Selector, Dead(s)', NEW x \in Seal, x.selector = s
        PROVE  ~RouterVerifies(x)'
    BY <1>1, <2>2, RouterAssumption, StackAssumption, StopAssumption
      DEF Dead, RouterVerifies, ActiveVerifier, WrapperVerifies
  <2> QED
    BY <2>1, <2>2
<1>2. IInv /\ IInv' /\ [Next]_stackVars =>
        [\A s \in Selector : Dead(s) => Dead(s)' /\ \A x \in Seal : x.selector = s => ~RouterVerifies(x)']_stackVars
  BY <1>1
<1> QED
  BY Invariance, <1>2, PTL DEF Spec, StopIsFinal

(* A judge, once there, stays. *)
LEMMA JudgeStays ==
  ASSUME IInv, [Next]_stackVars, NEW s \in Selector, JudgeOf(s) # None
  PROVE  JudgeOf(s)' = JudgeOf(s)
<1>1. Kept
  BY StepsKeep
<1>2. route[s] # None /\ route'[s] = route[s]
  BY <1>1, RouterAssumption, StackAssumption DEF Kept, JudgeOf
<1> QED
  BY <1>1, <1>2 DEF Kept, JudgeOf

(* The stack implements its promise. *)
THEOREM StackKeepsPromise == Spec => ImplementsPromise
<1>1. Init => Promise!Init
  BY RouterAssumption, StopAssumption, StackAssumption
    DEF Init, RouterInit, StopInit, Promise!Init, JudgeOf, Dead
<1>2. ASSUME IInv, IInv', [Next]_stackVars
      PROVE  Promise!Next
  <2>1. [s \in Selector |-> JudgeOf(s)]' \in [Selector -> Impl \cup {None}]
    BY <1>2, StackAssumption DEF JudgeOf, IInv, TypeOK, StopTypeOK
  <2>2. \A s \in Selector : [t \in Selector |-> JudgeOf(t)][s] # None =>
          [t \in Selector |-> JudgeOf(t)]'[s] = [t \in Selector |-> JudgeOf(t)][s]
    BY <1>2, JudgeStays
  <2>3. {s \in Selector : Dead(s)} \subseteq {s \in Selector : Dead(s)}'
    BY <1>2, DeadStays
  <2> QED
    BY <2>1, <2>2, <2>3 DEF Promise!Next
<1>3. IInv /\ IInv' /\ [Next]_stackVars => [Promise!Next]_(Promise!vars)
  BY <1>2
<1> QED
  BY Invariance, <1>1, <1>3, PTL DEF Spec, ImplementsPromise, Promise!Spec

-----------------------------------------------------------------------------
(* The lending system. *)

(* The lender of LenderSystem, with the theorems proved about it.           *)
P == INSTANCE ZkUnderwriteProofs WITH
  Issuer     <- Pubkey,
  Nullifier  <- Spendable,
  Provable   <- Claimed,
  Archivable <- {},
  archived   <- {},
  signer     <- lenderSigner,
  receipts   <- {Receipt(p) : p \in proofs},
  accepted   <- {Receipt(p) : p \in Accepted}

-----------------------------------------------------------------------------
(* Constants. *)

(* The 81 bytes a guest run commits are a journal the lender can read.      *)
LEMMA JournalsTyped ==
  Journal \subseteq [len : Nat, issuer : Pubkey, threshold : Nat, meets : 0 .. 255, nullifier : Spendable]
<1> SUFFICES ASSUME NEW j \in Journal
             PROVE  j \in [len : Nat, issuer : Pubkey, threshold : Nat, meets : 0 .. 255, nullifier : Spendable]
  OBVIOUS
<1>1. j.nullifier \in Spendable
  BY DEF Spendable
<1>2. CASE j \in Foreign
  BY <1>1, <1>2, SystemAssumption
<1>3. CASE j \in GuestJournal
  <2>1. PICK s \in Attested, t \in Limits : j = Committed(s, t)
    BY <1>3 DEF GuestJournal
  <2>2. s[1] \in Pubkey /\ t \in Nat
    BY SystemAssumption DEF Attested
  <2>3. \A d, k, x : JournalOf(d, k, x, t).issuer = k /\ JournalOf(d, k, x, t).threshold = t
           /\ JournalOf(d, k, x, t).meets \in 0 .. 255
    BY DEF JournalOf
  <2> QED
    BY <1>1, <2>1, <2>2, <2>3 DEF Committed, AsRead
<1> QED
  BY <1>2, <1>3 DEF Journal

(* The constants the lender is instantiated with are as it assumes.         *)
LEMMA LenderConstants == P!ConstantsAssumption /\ P!NoneAssumption
<1>1. P!ConstantsAssumption
  BY JournalsTyped, SystemAssumption DEF P!ConstantsAssumption, P!JournalType, Claimed
<1>2. P!NoneAssumption
  BY AbsenceAssumption DEF P!NoneAssumption, P!Policy, P!Grant, Lender!Policy, Lender!Grant
<1> QED
  BY <1>1, <1>2

(* The instance whose theorems are used and the one LenderSystem refines    *)
(* are the same specification.                                              *)
LEMMA SameLender ==
  /\ Lender!Init <=> P!Init
  /\ [Lender!Next]_(Lender!vars) <=> [P!Next]_(P!vars)
<1>1. Lender!Init <=> P!Init
  BY DEF Lender!Init, P!Init
<1>2. Lender!AdminCall <=> P!AdminCall
  BY DEF Lender!AdminCall, P!AdminCall, Lender!Initialize, P!Initialize, Lender!RegisterIssuer,
      P!RegisterIssuer, Lender!UnregisterIssuer, P!UnregisterIssuer, Lender!ProposeAdmin,
      P!ProposeAdmin, Lender!AcceptAdmin, P!AcceptAdmin, Lender!CancelAdminProposal,
      P!CancelAdminProposal, Lender!Initialized, P!Initialized, Lender!Authorized, P!Authorized,
      Lender!Accessible, P!Accessible, Lender!IssuerKey, P!IssuerKey, Lender!world, P!world
<1>3. ASSUME NEW borrower \in Address, NEW j \in Journal
      PROVE  Lender!RequestCredit(borrower, j) <=> P!RequestCredit(borrower, j)
  BY DEF Lender!RequestCredit, P!RequestCredit, Lender!Eligible, P!Eligible, Lender!Disburse,
      P!Disburse, Lender!Transfer, P!Transfer, Lender!Verified, P!Verified, Lender!MeetsPolicy,
      P!MeetsPolicy, Lender!JOURNAL_LEN, P!JOURNAL_LEN, Lender!Initialized, P!Initialized,
      Lender!Accessible, P!Accessible, Lender!IssuerKey, P!IssuerKey, Lender!NullifierKey,
      P!NullifierKey, Lender!CreditLineKey, P!CreditLineKey, Lender!world, P!world
<1>4. Lender!Environment <=> P!Environment
  BY DEF Lender!Environment, P!Environment, Lender!FundTreasury, P!FundTreasury, Lender!Prove,
      P!Prove, Lender!RouterChanges, P!RouterChanges, Lender!Archive, P!Archive, Lender!Restore,
      P!Restore, Lender!Present, P!Present, Lender!IssuerKey, P!IssuerKey, Lender!NullifierKey,
      P!NullifierKey, Lender!CreditLineKey, P!CreditLineKey, Lender!contract, P!contract,
      Lender!world, P!world, Lender!history, P!history
<1>5. Lender!Next <=> P!Next
  BY <1>2, <1>3, <1>4 DEF Lender!Next, P!Next
<1>6. UNCHANGED Lender!vars <=> UNCHANGED P!vars
  BY DEF Lender!vars, P!vars, Lender!contract, P!contract, Lender!world, P!world, Lender!history,
      P!history
<1> QED
  BY <1>1, <1>5, <1>6

-----------------------------------------------------------------------------
(* The stack and the lender as parts of the system. *)

(* A step of the system is a step of the stack or leaves it alone.          *)
LEMMA StackSteps ==
  ASSUME [SystemNext]_systemVars
  PROVE  [Next]_stackVars
<1>1. CASE UNCHANGED systemVars
  BY <1>1 DEF systemVars
<1>2. CASE SystemNext
  BY <1>2 DEF SystemNext, Administer, RequestCredit, ProveIncome, ProveOther, Forge, Circulate, StackStep
<1> QED
  BY <1>1, <1>2

(* What the router accepts: its judge for the selector is in service and    *)
(* lets the seal pass (verify of router, emergency stop and verifier).      *)
LEMMA JudgeDecides ==
  ASSUME IInv, NEW x, x.selector \in Selector, RouterVerifies(x)
  PROVE  /\ ~Dead(x.selector)
         /\ JudgeOf(x.selector) \in Impl
         /\ x.genuine \/ JudgeOf(x.selector) \in Broken
<1> DEFINE v == entry[x.selector]
<1>1. v \in Verifier /\ ActiveVerifier(x.selector) = v
  BY RouterAssumption, StackAssumption, StopAssumption DEF RouterVerifies, ActiveVerifier
<1>2. route[x.selector] = v
  BY <1>1 DEF IInv, Bookkeeping
<1>3. CASE v \in Wrapper /\ WrapperVerifies(v, x)
  BY <1>1, <1>2, <1>3, RouterAssumption, StackAssumption
    DEF WrapperVerifies, ImplVerifies, JudgeOf, Dead, IInv, TypeOK, StopTypeOK
<1>4. CASE v \in Impl /\ ImplVerifies(v, x)
  BY <1>1, <1>2, <1>4, RouterAssumption, StackAssumption DEF ImplVerifies, JudgeOf, Dead
<1> QED
  BY <1>1, <1>3, <1>4 DEF RouterVerifies

(* What is known of the proofs in circulation.                              *)
Provenance ==
  /\ proofs \subseteq Proof
  /\ \A p \in proofs : p.genuine /\ p.image = Ours => p.journal \in GuestJournal

(* Forgers and other programs cannot pass for a run of the guest.           *)
LEMMA ProvenanceKept ==
  ASSUME Provenance, [SystemNext]_systemVars
  PROVE  Provenance'
<1>1. ASSUME NEW p \in Proof, Circulate(p),
             p.genuine /\ p.image = Ours => p.journal \in GuestJournal
      PROVE  Provenance'
  BY <1>1 DEF Provenance, Circulate
<1>2. ASSUME NEW sel \in Selector, NEW s \in Attested, NEW t \in Limits, ProveIncome(sel, s, t)
      PROVE  Provenance'
  <2>1. Committed(s, t) \in GuestJournal
    BY DEF GuestJournal
  <2> QED
    BY <1>1, <1>2, <2>1, SystemAssumption DEF ProveIncome, Proof, Journal
<1>3. ASSUME NEW sel \in Selector, NEW image \in ImageId, NEW j \in Foreign, ProveOther(sel, image, j)
      PROVE  Provenance'
  BY <1>1, <1>3 DEF ProveOther, Proof, Journal
<1>4. ASSUME NEW i \in Impl, NEW j \in Foreign, Forge(i, j)
      PROVE  Provenance'
  BY <1>1, <1>4, SystemAssumption, StackAssumption DEF Forge, Proof, Journal
<1>5. CASE UNCHANGED proofs
  BY <1>5 DEF Provenance
<1> QED
  BY <1>2, <1>3, <1>4, <1>5 DEF SystemNext, Administer, RequestCredit, StackStep, systemVars

(* The verdict on a seal depends on nothing but the stack.                  *)
LEMMA SameVerdicts ==
  ASSUME UNCHANGED stackVars
  PROVE  \A x : RouterVerifies(x)' <=> RouterVerifies(x)
BY DEF stackVars, RouterVerifies, ActiveVerifier, WrapperVerifies, ImplVerifies

(* A new seal is a proof the router may or may not accept, which is what    *)
(* Prove of ZkUnderwrite allows.                                            *)
LEMMA CirculateProves ==
  ASSUME NEW p \in Proof, Circulate(p)
  PROVE  Lender!Prove(p.image, p.journal)
<1>1. \A x : RouterVerifies(x)' <=> RouterVerifies(x)
  BY SameVerdicts DEF Circulate
<1>2. proofs' = proofs \cup {p}
  BY DEF Circulate
<1>3. {Receipt(x) : x \in proofs}' = {Receipt(x) : x \in proofs} \cup {<<p.image, p.journal>>}
  BY <1>2 DEF Receipt
<1>4. Accepted' = Accepted \/ Accepted' = Accepted \cup {p}
  <2>1. Accepted' = {x \in proofs' : RouterVerifies(SealOf(x))'}
    BY DEF Accepted, SealOf
  <2> QED
    BY <1>1, <1>2, <2>1 DEF Accepted
<1>5. {Receipt(x) : x \in Accepted}' \in
        {{Receipt(x) : x \in Accepted}, {Receipt(x) : x \in Accepted} \cup {<<p.image, p.journal>>}}
  BY <1>4 DEF Receipt
<1>6. <<p.image, p.journal>> \in Claimed
  BY DEF Claimed, Proof
<1>7. UNCHANGED <<Lender!contract, balance, Lender!history>>
  BY DEF Circulate, lenderVars, Lender!contract, Lender!history
<1> QED
  BY <1>3, <1>5, <1>6, <1>7 DEF Lender!Prove

(* Every step of the system is one of the lender or its environment.        *)
LEMMA LenderSteps ==
  ASSUME Provenance, [SystemNext]_systemVars
  PROVE  [Lender!Next]_(Lender!vars)
<1>1. CASE Administer
  BY <1>1 DEF Administer, Lender!Next, Lender!Environment
<1>2. ASSUME NEW borrower \in Address, NEW p \in proofs, RequestCredit(borrower, p)
      PROVE  Lender!Next
  <2>1. p.journal \in Journal
    BY DEF Provenance, Proof
  <2> QED
    BY <1>2, <2>1 DEF RequestCredit, Lender!Next
<1>3. ASSUME NEW p \in Proof, Circulate(p)
      PROVE  Lender!Next
  <2>1. p.image \in ImageId /\ p.journal \in Journal
    BY DEF Proof
  <2> QED
    BY <1>3, <2>1, CirculateProves DEF Lender!Next, Lender!Environment
<1>4. ASSUME NEW sel \in Selector, NEW s \in Attested, NEW t \in Limits, ProveIncome(sel, s, t)
      PROVE  Lender!Next
  <2>1. Committed(s, t) \in GuestJournal
    BY DEF GuestJournal
  <2> QED
    BY <1>3, <1>4, <2>1, SystemAssumption DEF ProveIncome, Proof, Journal
<1>5. ASSUME NEW sel \in Selector, NEW image \in ImageId, NEW j \in Foreign, ProveOther(sel, image, j)
      PROVE  Lender!Next
  BY <1>3, <1>5 DEF ProveOther, Proof, Journal
<1>6. ASSUME NEW i \in Impl, NEW j \in Foreign, Forge(i, j)
      PROVE  Lender!Next
  BY <1>3, <1>6, SystemAssumption, StackAssumption DEF Forge, Proof, Journal
<1>7. CASE StackStep
  <2>1. proofs' = proofs /\ Accepted' \subseteq proofs
    BY <1>7 DEF StackStep, Accepted
  <2>2. {Receipt(x) : x \in proofs}' = {Receipt(x) : x \in proofs}
    BY <2>1 DEF Receipt
  <2>3. {Receipt(x) : x \in Accepted}' \in SUBSET {Receipt(x) : x \in proofs}
    BY <2>1 DEF Receipt
  <2>4. UNCHANGED <<Lender!contract, balance, Lender!history>>
    BY <1>7 DEF StackStep, lenderVars, Lender!contract, Lender!history
  <2> QED
    BY <2>2, <2>3, <2>4 DEF Lender!RouterChanges, Lender!Next, Lender!Environment
<1>8. CASE UNCHANGED systemVars
  <2>1. \A x : RouterVerifies(x)' <=> RouterVerifies(x)
    BY <1>8, SameVerdicts DEF systemVars
  <2>2. proofs' = proofs
    BY <1>8 DEF systemVars
  <2>3. Accepted' = Accepted
    <3>1. Accepted' = {x \in proofs' : RouterVerifies(SealOf(x))'}
      BY DEF Accepted, SealOf
    <3> QED
      BY <2>1, <2>2, <3>1 DEF Accepted
  <2>4. UNCHANGED <<{Receipt(x) : x \in proofs}, {Receipt(x) : x \in Accepted}>>
    BY <2>2, <2>3 DEF Receipt
  <2> QED
    BY <1>8, <2>4 DEF systemVars, lenderVars, Lender!vars, Lender!contract, Lender!world, Lender!history
<1> QED
  BY <1>1, <1>2, <1>4, <1>5, <1>6, <1>7, <1>8 DEF SystemNext

-----------------------------------------------------------------------------
(* Payments. *)

(* The seal a nullifier was paid for, and what the lender noted of it.      *)
Backed(n) ==
  LET p == paidBy[n] IN
    /\ p \in proofs
    /\ p.journal = granted[n].journal
    /\ p.image = granted[n].policy.imageId
    /\ JudgeOf(p.selector) # None
    /\ p.genuine \/ JudgeOf(p.selector) \in Broken

PaymentsBacked ==
  /\ paidBy \in [Spendable -> Proof \cup {None}]
  /\ \A n \in Spendable : paidBy[n] = None <=> granted[n] = None
  /\ \A n \in Paid : Backed(n)

(* The inductive invariant.                                                 *)
SInv ==
  /\ IInv
  /\ P!IInv
  /\ Provenance
  /\ PaymentsBacked

(* The invariant holds at first.                                            *)
LEMMA InitSInv == SystemInit => SInv
<1> SUFFICES ASSUME SystemInit PROVE SInv
  OBVIOUS
<1>1. IInv
  BY InitIInv DEF SystemInit
<1>2. P!IInv
  BY SameLender, LenderConstants, P!InitInv DEF SystemInit
<1>3. Provenance
  BY DEF SystemInit, Provenance
<1>4. PaymentsBacked
  BY DEF SystemInit, PaymentsBacked, Paid, Lender!Init
<1> QED
  BY <1>1, <1>2, <1>3, <1>4 DEF SInv

(* A payment is noted with its seal, and what is noted of earlier ones      *)
(* stays true: seals stay in circulation, judges stay in office.            *)
LEMMA BackedKept ==
  ASSUME SInv, [SystemNext]_systemVars, P!IInv'
  PROVE  PaymentsBacked'
<1>1. /\ IInv /\ [Next]_stackVars /\ PaymentsBacked /\ Provenance
      /\ granted \in [Spendable -> P!Grant \cup {None}]
  BY StackSteps DEF SInv, P!IInv, P!TypeOK
<1>2. proofs \subseteq proofs'
  BY DEF SystemNext, Administer, RequestCredit, ProveIncome, ProveOther, Forge, Circulate, StackStep, systemVars
<1>3. ASSUME NEW q \in Proof, JudgeOf(q.selector) # None
      PROVE  JudgeOf(q.selector)' = JudgeOf(q.selector)
  BY <1>1, <1>3, JudgeStays DEF Proof
<1>4. CASE UNCHANGED <<paidBy, granted>>
  <2>1. ASSUME NEW n \in Paid
        PROVE  Backed(n)'
    <3>1. Backed(n) /\ n \in Spendable
      BY <1>1 DEF PaymentsBacked, Paid
    <3>2. paidBy[n] \in Proof
      BY <1>1, <3>1 DEF Backed, Provenance
    <3>3. JudgeOf(paidBy[n].selector)' = JudgeOf(paidBy[n].selector)
      BY <1>3, <1>4, <3>1, <3>2 DEF Backed, JudgeOf
    <3> QED
      BY <1>2, <1>4, <3>1, <3>3 DEF Backed, JudgeOf
  <2>2. Paid' = Paid
    BY <1>4 DEF Paid
  <2> QED
    BY <1>1, <1>4, <2>1, <2>2 DEF PaymentsBacked
<1>5. ASSUME NEW borrower \in Address, NEW p \in proofs, RequestCredit(borrower, p)
      PROVE  PaymentsBacked'
  <2> DEFINE m == p.journal.nullifier
             g == [borrower |-> borrower, journal |-> p.journal, policy |-> policy, issuers |-> issuers]
  <2>1. p \in Proof /\ p.journal \in Journal /\ m \in Spendable
    BY <1>1 DEF Provenance, Proof, Spendable
  <2>2. /\ paidBy' = [paidBy EXCEPT ![m] = p]
        /\ granted' = [granted EXCEPT ![m] = g]
        /\ nullifiers' = nullifiers \cup {m}
        /\ UNCHANGED <<stackVars, proofs>>
        /\ p.image = policy.imageId
        /\ RouterVerifies(SealOf(p))
    BY <1>5 DEF RequestCredit, Lender!RequestCredit, Lender!Disburse
  <2>3. granted'[m] # None /\ p # None
    BY <2>1, <2>2, AbsenceAssumption DEF P!IInv, P!Bookkeeping
  <2>4. granted'[m] = g /\ paidBy'[m] = p
    BY <1>1, <2>1, <2>2 DEF PaymentsBacked
  <2>5. \A n \in Spendable \ {m} : granted'[n] = granted[n] /\ paidBy'[n] = paidBy[n]
    BY <1>1, <2>1, <2>2 DEF PaymentsBacked
  <2>6. \A x : JudgeOf(x)' = JudgeOf(x)
    BY <2>2 DEF JudgeOf, stackVars
  <2>7. JudgeOf(p.selector) \in Impl /\ (p.genuine \/ JudgeOf(p.selector) \in Broken)
    <3>1. SealOf(p).selector = p.selector /\ SealOf(p).genuine = p.genuine /\ p.selector \in Selector
      BY <2>1 DEF SealOf, Proof
    <3> QED
      BY <1>1, <2>2, <3>1, JudgeDecides
  <2>8. Backed(m)'
    <3>1. g.journal = p.journal /\ g.policy.imageId = policy.imageId
      OBVIOUS
    <3> HIDE DEF g, m
    <3> QED
      BY <2>2, <2>4, <2>6, <2>7, <3>1, StopAssumption DEF Backed
  <2>9. ASSUME NEW n \in Paid', n # m
        PROVE  Backed(n)'
    <3>1. n \in Spendable /\ n \in Paid
      BY <1>1, <2>1, <2>2, <2>5, <2>9 DEF Paid, PaymentsBacked
    <3>2. Backed(n)
      BY <1>1, <3>1 DEF PaymentsBacked
    <3> HIDE DEF g, m
    <3> QED
      BY <2>2, <2>5, <2>6, <2>9, <3>1, <3>2 DEF Backed
  <2>10. paidBy' \in [Spendable -> Proof \cup {None}]
    BY <1>1, <2>1, <2>2 DEF PaymentsBacked
  <2>11. \A n \in Spendable : paidBy'[n] = None <=> granted'[n] = None
    BY <1>1, <2>3, <2>4, <2>5 DEF PaymentsBacked
  <2> QED
    BY <2>8, <2>9, <2>10, <2>11 DEF PaymentsBacked
<1>6. ASSUME Lender!AdminCall \/ \E amount \in 1 .. MaxFunded : Lender!FundTreasury(amount)
      PROVE  UNCHANGED granted
  BY <1>6 DEF Lender!AdminCall, Lender!Initialize, Lender!RegisterIssuer, Lender!UnregisterIssuer,
    Lender!ProposeAdmin, Lender!AcceptAdmin, Lender!CancelAdminProposal, Lender!FundTreasury
<1> QED
  BY <1>4, <1>5, <1>6 DEF SystemNext, Administer, ProveIncome, ProveOther, Forge, Circulate, StackStep,
    systemVars, lenderVars

(* Every step keeps the invariant.                                          *)
LEMMA StepSInv ==
  ASSUME SInv, [SystemNext]_systemVars
  PROVE  SInv'
<1>1. IInv'
  BY StackSteps, StepsKeep DEF SInv
<1>2. P!IInv'
  BY LenderSteps, SameLender, LenderConstants, P!NextInv DEF SInv
<1>3. Provenance'
  BY ProvenanceKept DEF SInv
<1>4. PaymentsBacked'
  BY <1>2, BackedKept
<1> QED
  BY <1>1, <1>2, <1>3, <1>4 DEF SInv

(* Lender, stack, seals and payments always fit together.                   *)
THEOREM SystemInvariance == SystemSpec => []SInv
<1>1. SInv /\ [SystemNext]_systemVars => SInv'
  BY StepSInv
<1> QED
  BY InitSInv, <1>1, PTL DEF SystemSpec

(* The composed system is the lender, with the stack for its router and the *)
(* guest for its provers.                                                   *)
THEOREM SystemIsLender == SystemSpec => ImplementsLender
<1>1. SystemInit => Lender!Init
  BY DEF SystemInit
<1>2. SInv /\ [SystemNext]_systemVars => [Lender!Next]_(Lender!vars)
  BY LenderSteps DEF SInv
<1> QED
  BY SystemInvariance, <1>1, <1>2, PTL DEF SystemSpec, ImplementsLender, Lender!Spec

(* What was proved of the stack by itself holds inside the system: whatever *)
(* lender, provers and forgers do, the router keeps what it promises.       *)
THEOREM SystemKeepsStackPromise == SystemSpec => Spec /\ ImplementsPromise
<1>1. SystemInit => Init
  BY DEF SystemInit
<1>2. [SystemNext]_systemVars => [Next]_stackVars
  BY StackSteps
<1>3. SystemSpec => Spec
  BY <1>1, <1>2, PTL DEF SystemSpec, Spec
<1> QED
  BY <1>3, StackKeepsPromise, PTL

(* The lender's own promise, terms fixed once and one payment of the agreed *)
(* amount per nullifier out of money paid in, survives the composition with *)
(* the stack that judges and the guest that proves.                         *)
THEOREM SystemKeepsLenderPromise == SystemSpec => Lender!ImplementsPromise
<1>1. SystemSpec => P!Spec
  <2>1. SystemSpec => Lender!Spec
    BY SystemIsLender DEF ImplementsLender
  <2>2. Lender!Init => P!Init
    BY SameLender
  <2>3. [Lender!Next]_(Lender!vars) => [P!Next]_(P!vars)
    BY SameLender
  <2> QED
    BY <2>1, <2>2, <2>3, PTL DEF Lender!Spec, P!Spec
<1>2. P!Spec => P!ImplementsPromise
  BY LenderConstants, P!ContractKeepsPromise
<1>3. P!Promise!Init => Lender!Promise!Init
  BY DEF P!Promise!Init, Lender!Promise!Init
<1>4. [P!Promise!Next]_(P!Promise!vars) => [Lender!Promise!Next]_(Lender!Promise!vars)
  BY DEF P!Promise!Next, Lender!Promise!Next, P!Promise!vars, Lender!Promise!vars, P!Promise!Open,
    Lender!Promise!Open, P!Promise!Deposit, Lender!Promise!Deposit, P!Promise!Pay, Lender!Promise!Pay
<1>5. P!ImplementsPromise => Lender!ImplementsPromise
  BY <1>3, <1>4, PTL DEF P!ImplementsPromise, Lender!ImplementsPromise, P!Promise!Spec, Lender!Promise!Spec
<1> QED
  BY <1>1, <1>2, <1>5, PTL

(* Nobody is paid on a forged seal once the broken verifiers are stopped or *)
(* removed: request_credit asks the router as it is in that transaction.    *)
THEOREM StopEndsForgery == SystemSpec => ForgeryEndsWithStop
<1> DEFINE Stopped == \A s \in Selector : JudgeOf(s) \in Broken => Dead(s)
           OnlyGenuine == \A n \in DOMAIN paidBy : paidBy'[n] # paidBy[n] => paidBy'[n].genuine
<1>1. ASSUME SInv, [SystemNext]_systemVars, Stopped
      PROVE  OnlyGenuine
  <2>1. CASE UNCHANGED paidBy
    BY <2>1
  <2>2. ASSUME NEW borrower \in Address, NEW p \in proofs, RequestCredit(borrower, p)
        PROVE  OnlyGenuine
    <3>1. p \in Proof
      BY <1>1 DEF SInv, Provenance
    <3>2. SealOf(p).selector = p.selector /\ SealOf(p).genuine = p.genuine /\ p.selector \in Selector
      BY <3>1 DEF SealOf, Proof
    <3>3. ~Dead(p.selector) /\ (p.genuine \/ JudgeOf(p.selector) \in Broken)
      BY <1>1, <2>2, <3>2, JudgeDecides DEF SInv, RequestCredit
    <3>4. p.genuine
      BY <1>1, <3>2, <3>3
    <3>5. paidBy' = [paidBy EXCEPT ![p.journal.nullifier] = p]
      BY <2>2 DEF RequestCredit
    <3> QED
      BY <3>4, <3>5
  <2> QED
    BY <1>1, <2>1, <2>2 DEF SystemNext, Administer, ProveIncome, ProveOther, Forge, Circulate, StackStep,
      systemVars
<1>2. SInv /\ [SystemNext]_systemVars => [Stopped => OnlyGenuine]_systemVars
  BY <1>1
<1> QED
  BY SystemInvariance, <1>2, PTL DEF SystemSpec, ForgeryEndsWithStop

-----------------------------------------------------------------------------
(* What a payment is founded on. *)

(* The guest's verdict on the wrapped sum is a lower bound for the true one. *)
LEMMA VerdictBounds ==
  ASSUME NEW a \in Nat, NEW w \in Nat \ {0}, NEW m \in Nat \ {0},
         NEW t \in Nat, NEW r \in Nat, t >= r, (a % w) \div m >= t
  PROVE  a >= r * m
<1>1. a % w \in Nat /\ a % w <= a
  <2>1. a \div w \in Nat /\ a = w * (a \div w) + (a % w) /\ a % w \in 0 .. w - 1
    OBVIOUS
  <2>2. w * (a \div w) >= 0
    BY <2>1
  <2> QED
    BY <2>1, <2>2
<1> DEFINE x == a % w
           q == x \div m
<1>2. q \in Nat /\ x = m * q + (x % m) /\ x % m \in 0 .. m - 1
  BY <1>1
<1>3. m * q >= m * r /\ m * r \in Nat /\ m * r = r * m
  <2>1. q \in Nat /\ q >= r
    BY <1>2
  <2> HIDE DEF q
  <2>2. q - r \in Nat /\ m * q = m * r + m * (q - r) /\ m * (q - r) >= 0
    BY <2>1
  <2> QED
    BY <2>1, <2>2
<1> HIDE DEF q, x
<1>4. x >= m * q
  BY <1>2
<1>5. x <= a /\ x \in Nat
  BY <1>1 DEF x
<1> QED
  BY <1>2, <1>3, <1>4, <1>5

(* A journal of the guest that meets a policy comes from an attested        *)
(* statement whose income does.                                             *)
LEMMA GuestJournalShows ==
  ASSUME NEW j \in GuestJournal, NEW r \in Nat, j.threshold >= r, j.meets = 1
  PROVE  \E s \in Attested : s[1] = j.issuer /\ Preimage(s[2]) = j.nullifier /\ Shows(s[2], r)
<1>1. PICK s \in Attested, t \in Limits : j = Committed(s, t)
  BY DEF GuestJournal
<1> DEFINE d == s[2]
           k == s[1]
<1>2. d \in Doc /\ d \in DocType /\ Completes(d) /\ t \in Nat
  BY SystemAssumption DEF Attested
<1>3. /\ j.issuer = k /\ j.threshold = t /\ j.nullifier = Preimage(d)
      /\ j.meets = IF Meets(d, Total(d) % Word, t) THEN 1 ELSE 0
  BY <1>1 DEF Committed, AsRead, JournalOf
<1>4. d.period_months \in Nat \ {0}
  BY <1>2 DEF Completes, DocType
<1>5. Recurring(d) /\ (Total(d) % Word) \div d.period_months >= t
  BY <1>3 DEF Meets
<1>6. Total(d) \in Nat
  BY <1>2, TotalIsNatural
<1>7. Total(d) >= r * d.period_months
  BY <1>2, <1>3, <1>4, <1>5, <1>6, WordAssumption, VerdictBounds
<1> QED
  BY <1>3, <1>5, <1>7 DEF Shows

(* A genuine payment of a lender that trusts the guest.                     *)
LEMMA GenuineShows ==
  ASSUME SInv, NEW n \in Paid, paidBy[n].genuine, policy.imageId = Ours
  PROVE  \E s \in Attested : s[1] \in granted[n].issuers /\ Preimage(s[2]) = n /\ Shows(s[2], policy.required)
<1> DEFINE p == paidBy[n]
<1>1. n \in Spendable /\ Backed(n)
  BY DEF SInv, PaymentsBacked, Paid
<1>2. n \in nullifiers /\ P!GrantSound(n)
  BY <1>1 DEF SInv, P!IInv, P!Bookkeeping, P!GrantsSound, PaymentsBacked, Paid
<1>3. p \in proofs /\ p.journal = granted[n].journal /\ p.image = Ours
  BY <1>1, <1>2 DEF Backed, P!GrantSound
<1>4. p.journal \in GuestJournal
  BY <1>3 DEF SInv, Provenance
<1>5. /\ p.journal.nullifier = n /\ p.journal.issuer \in granted[n].issuers
      /\ p.journal.threshold >= policy.required /\ p.journal.meets = 1
  BY <1>2, <1>3 DEF P!GrantSound
<1>6. policy.required \in Nat
  <2>1. policy # None
    BY <1>2 DEF SInv, P!IInv, P!Bookkeeping
  <2> QED
    BY <2>1 DEF SInv, P!IInv, P!TypeOK, P!Policy
<1> QED
  BY <1>4, <1>5, <1>6, GuestJournalShows

(* Money moves on income an issuer in office attested, or on a forgery for  *)
(* a verifier the router's owner had put in service.                        *)
THEOREM PaymentsAreFounded == SystemSpec => []PaymentsFounded
<1>1. SInv => PaymentsFounded
  <2> SUFFICES ASSUME SInv, NEW n \in Paid
               PROVE  IF paidBy[n].genuine /\ policy.imageId = Ours
                      THEN \E s \in Attested : /\ s[1] \in granted[n].issuers
                                               /\ Preimage(s[2]) = n
                                               /\ Shows(s[2], policy.required)
                      ELSE paidBy[n].genuine \/ JudgeOf(paidBy[n].selector) \in Broken
    BY DEF PaymentsFounded
  <2>1. paidBy[n].genuine \/ JudgeOf(paidBy[n].selector) \in Broken
    BY DEF SInv, PaymentsBacked, Backed
  <2> QED
    BY <2>1, GenuineShows
<1> QED
  BY SystemInvariance, <1>1, PTL

-----------------------------------------------------------------------------
(* How often. *)

(* Finite sets and their sizes mean the same in both modules.               *)
LEMMA SameSizes ==
  ASSUME NEW S
  PROVE  /\ P!IsFiniteSet(S) <=> IsFiniteSet(S)
         /\ P!Cardinality(S) = Cardinality(S)
<1>1. P!IsFiniteSet(S) <=> IsFiniteSet(S)
  BY DEF P!IsFiniteSet, IsFiniteSet
<1>2. P!Cardinality(S) = Cardinality(S)
  BY DEF P!Cardinality, Cardinality
<1> QED
  BY <1>1, <1>2

Genuine == {n \in Paid : paidBy[n].genuine}
Forged  == {n \in Paid : ~paidBy[n].genuine}

(* The nullifier is a function of the identity.                             *)
NullifierOf(id) ==
  <<Len(id[1])>> \o id[1] \o <<Len(id[2])>> \o id[2] \o <<id[3]>>

(* Genuine payments name different identities, all of them attested.        *)
LEMMA GenuineCounted ==
  ASSUME SInv, policy.imageId = Ours
  PROVE  /\ IsFiniteSet(Genuine) /\ IsFiniteSet(Welcome)
         /\ Cardinality(Genuine) <= Cardinality(Welcome)
<1> DEFINE A == {x \in Attested : Shows(x[2], policy.required)}
<1>1. IsFiniteSet(A)
  BY SystemAssumption, FS_Subset DEF Attested
<1>2. IsFiniteSet(Welcome)
  <2> DEFINE f == [x \in A |-> Identity(x[2])]
  <2>1. f \in Surjection(A, Welcome)
    BY DEF Surjection, Welcome
  <2> HIDE DEF f, A
  <2> QED
    BY <1>1, <2>1, FS_Surjection
<1>3. ASSUME NEW n \in Genuine
      PROVE  \E id \in Welcome : NullifierOf(id) = n
  <2>1. PICK s \in Attested : Preimage(s[2]) = n /\ Shows(s[2], policy.required)
    BY <1>3, GenuineShows DEF Genuine
  <2>2. Identity(s[2]) \in Welcome
    BY <2>1 DEF Welcome
  <2>3. NullifierOf(Identity(s[2])) = Preimage(s[2])
    BY DEF NullifierOf, Identity, Preimage
  <2> QED
    BY <2>1, <2>2, <2>3
<1> DEFINE h == [n \in Genuine |-> CHOOSE id \in Welcome : NullifierOf(id) = n]
<1>4. \A n \in Genuine : h[n] \in Welcome /\ NullifierOf(h[n]) = n
  BY <1>3
<1>5. h \in Injection(Genuine, Welcome)
  <2>1. h \in [Genuine -> Welcome]
    BY <1>4
  <2> HIDE DEF h
  <2> QED
    BY <1>4, <2>1 DEF Injection, IsInjective
<1> HIDE DEF h
<1> QED
  BY <1>2, <1>5, FS_Injection

(* The lender pays an identity once, and once a nullifier somebody forged.  *)
THEOREM IdentitiesPaidOnce == SystemSpec => []OnePaymentPerIdentity
<1>1. ASSUME SInv, policy # None, policy.imageId = Ours
      PROVE  funded - balance[Self] <=
               policy.credit * (Cardinality(Welcome) + Cardinality({n \in Paid : ~paidBy[n].genuine}))
  <2>1. nullifiers = Paid /\ IsFiniteSet(nullifiers)
    <3>1. nullifiers = {n \in Spendable : granted[n] # None} /\ IsFiniteSet(nullifiers)
      BY <1>1, SameSizes DEF SInv, P!IInv, P!Bookkeeping
    <3>2. DOMAIN paidBy = Spendable /\ \A n \in Spendable : paidBy[n] = None <=> granted[n] = None
      BY <1>1 DEF SInv, PaymentsBacked
    <3> QED
      BY <3>1, <3>2 DEF Paid
  <2>2. Paid = Genuine \cup Forged /\ Genuine \cap Forged = {}
    BY DEF Genuine, Forged
  <2>3. IsFiniteSet(Forged)
    BY <2>1, <2>2, FS_Subset
  <2>4. Cardinality(Genuine) <= Cardinality(Welcome) /\ IsFiniteSet(Genuine) /\ IsFiniteSet(Welcome)
    BY <1>1, GenuineCounted
  <2>5. Cardinality(nullifiers) = Cardinality(Genuine) + Cardinality(Forged)
    <3>1. Cardinality(Genuine \cap Forged) = 0
      BY <2>2, FS_EmptySet
    <3>2. Cardinality(Genuine \cup Forged) =
            Cardinality(Genuine) + Cardinality(Forged) - Cardinality(Genuine \cap Forged)
      BY <2>3, <2>4, FS_Union
    <3>3. Cardinality(Genuine) \in Nat /\ Cardinality(Forged) \in Nat
      BY <2>3, <2>4, FS_CardinalityType
    <3> QED
      BY <2>1, <2>2, <3>1, <3>2, <3>3
  <2> DEFINE c == policy.credit
             k == Cardinality(nullifiers)
             b == Cardinality(Welcome) + Cardinality(Forged)
  <2>6. k \in Nat /\ b \in Nat /\ k <= b
    BY <2>1, <2>3, <2>4, <2>5, FS_CardinalityType
  <2>7. c \in Nat
    BY <1>1 DEF SInv, P!IInv, P!TypeOK, P!Policy
  <2>8. balance[Self] + c * k = funded /\ balance[Self] \in Nat /\ funded \in Nat
    <3>1. balance \in [Address \cup {Self} -> Nat] /\ funded \in Nat
      BY <1>1 DEF SInv, P!IInv, P!TypeOK
    <3>2. balance[Self] + P!CreditAmount * Cardinality(nullifiers) = funded
      BY <1>1, SameSizes DEF SInv, P!IInv, P!Conservation
    <3>3. P!CreditAmount = policy.credit
      BY <1>1 DEF P!CreditAmount
    <3> QED
      BY <3>1, <3>2, <3>3
  <2> HIDE DEF c, k, b
  <2>9. c * k <= c * b /\ c * k \in Nat
    <3>1. b - k \in Nat /\ c * b = c * k + c * (b - k) /\ c * (b - k) \in Nat /\ c * k \in Nat /\ c * b \in Nat
      BY <2>6, <2>7
    <3> QED
      BY <3>1
  <2>10. funded - balance[Self] <= c * b
    BY <2>6, <2>7, <2>8, <2>9
  <2> QED
    BY <2>10 DEF c, b, Forged
<1>2. SInv => OnePaymentPerIdentity
  BY <1>1 DEF OnePaymentPerIdentity
<1> QED
  BY SystemInvariance, <1>2, PTL
=============================================================================
