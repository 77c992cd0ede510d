------------------------- MODULE SealVerifiersProofs -------------------------
(***************************************************************************)
(* Proofs about SealVerifiers: halving a digest loses nothing, equal claim *)
(* digests are equal runs, and what travels in a seal of full length is a  *)
(* proof that was made; and what EmergencyStop knows of a seal decides as  *)
(* the contracts do.                                                       *)
(***************************************************************************)
EXTENDS SealVerifiers, TLAPS

-----------------------------------------------------------------------------
(* Digests and their halves. *)

(* The verifier's split numbers the bytes as the prover does: it reverses   *)
(* the digest and takes its halves from the end (split_digest).             *)
LEMMA SplitIsHalves ==
  ASSUME NEW d \in Digest
  PROVE  split_digest(d) = <<Low(d), High(d)>>
<1>1. Half \in Nat
  BY ClaimAssumption
<1>2. [k \in 1..Size |-> IF k <= Half THEN 0 ELSE Reversed(d)[k]] = Low(d)
  BY <1>1 DEF Low, Reversed, Size
<1>3. [k \in 1..Size |-> IF k <= Half THEN 0 ELSE Reversed(d)[k - Half]] = High(d)
  <2>1. ASSUME NEW k \in 1..Size, ~(k <= Half)
        PROVE  Reversed(d)[k - Half] = d[Size + Half + 1 - k]
    <3>1. k - Half \in 1..Size /\ Size + 1 - (k - Half) = Size + Half + 1 - k
      BY <1>1, <2>1 DEF Size
    <3> QED
      BY <3>1 DEF Reversed
  <2> QED
    BY <2>1 DEF High
<1> QED
  BY <1>2, <1>3 DEF split_digest

(* Half a digest is left-padded to a number that fits the field. *)
LEMMA HalvesPadded ==
  ASSUME NEW d \in Digest
  PROVE  /\ Low(d) \in {x \in Digest : \A k \in 1..Half : x[k] = 0}
         /\ High(d) \in {x \in Digest : \A k \in 1..Half : x[k] = 0}
<1>1. Half \in Nat /\ 0 \in Byte
  BY ClaimAssumption
<1>2. Low(d) \in Digest
  BY <1>1 DEF Low, Digest, Size
<1>3. High(d) \in Digest
  BY <1>1 DEF High, Digest, Size
<1>4. \A k \in 1..Half : Low(d)[k] = 0
  BY <1>1 DEF Low, Size
<1>5. \A k \in 1..Half : High(d)[k] = 0
  BY <1>1 DEF High, Size
<1> QED
  BY <1>2, <1>3, <1>4, <1>5

(* Two digests with the same halves are the same digest. *)
LEMMA HalvesDetermine ==
  ASSUME NEW a \in Digest, NEW b \in Digest, Low(a) = Low(b), High(a) = High(b)
  PROVE  a = b
<1>1. Half \in Nat
  BY ClaimAssumption
<1>2. ASSUME NEW n \in 1..Size, n <= Half
      PROVE  a[n] = b[n]
  <2>1. Size + 1 - n \in 1..Size /\ ~(Size + 1 - n <= Half) /\ Size + 1 - (Size + 1 - n) = n
    BY <1>1, <1>2 DEF Size
  <2>2. Low(a)[Size + 1 - n] = a[n] /\ Low(b)[Size + 1 - n] = b[n]
    BY <2>1 DEF Low
  <2> QED
    BY <2>2
<1>3. ASSUME NEW n \in 1..Size, ~(n <= Half)
      PROVE  a[n] = b[n]
  <2>1. /\ Size + Half + 1 - n \in 1..Size /\ ~(Size + Half + 1 - n <= Half)
        /\ Size + Half + 1 - (Size + Half + 1 - n) = n
    BY <1>1, <1>3 DEF Size
  <2>2. High(a)[Size + Half + 1 - n] = a[n] /\ High(b)[Size + Half + 1 - n] = b[n]
    BY <2>1 DEF High
  <2> QED
    BY <2>2
<1>4. \A n \in 1..Size : a[n] = b[n]
  BY <1>2, <1>3
<1>5. a = [n \in 1..Size |-> a[n]] /\ b = [n \in 1..Size |-> b[n]]
  BY DEF Digest
<1> QED
  BY <1>4, <1>5

(* The four public signals of root and claim tell digests apart. *)
LEMMA SignalsDetermine ==
  ASSUME NEW a \in Digest, NEW b \in Digest,
         Fr(split_digest(a)[1]) = Fr(split_digest(b)[1]),
         Fr(split_digest(a)[2]) = Fr(split_digest(b)[2])
  PROVE  a = b
<1>1. split_digest(a) = <<Low(a), High(a)>> /\ split_digest(b) = <<Low(b), High(b)>>
  BY SplitIsHalves
<1>2. Fr(Low(a)) = Fr(Low(b)) /\ Fr(High(a)) = Fr(High(b))
  BY <1>1
<1>3. Low(a) = Low(b)
  BY <1>2, HalvesPadded, SealAssumption
<1>4. High(a) = High(b)
  BY <1>2, HalvesPadded, SealAssumption
<1> QED
  BY <1>3, <1>4, HalvesDetermine

-----------------------------------------------------------------------------
(* Claims. *)

Known == Execution \cup {Success(i, j) : i \in Image, j \in Journal}

(* The digest the prover's claim has. *)
DigestOf(e) ==
  Sha(<<TAG_CLAIM, e.input, e.pre, e.post, ClaimOf(e).output>>,
      <<e.system, 0, 0, 0, e.user, 0, 0, 0, 4, 0>>)

(* A successful run is a run. *)
LEMMA SuccessTyped ==
  ASSUME NEW i \in Image, NEW j \in Journal
  PROVE  Success(i, j) \in ExecutionType
<1>1. ZERO \in Digest
  BY ClaimAssumption DEF ZERO, Digest
<1> QED
  BY <1>1, ClaimAssumption, SealAssumption DEF Success, ExecutionType, SystemExitCode

(* So is everything the claims are about. *)
LEMMA KnownTyped == Known \subseteq ExecutionType
  BY SuccessTyped, SealAssumption DEF Known

(* ReceiptClaim::new builds the claim of the successful run. *)
LEMMA StandardDigest ==
  ASSUME NEW i \in Image, NEW j \in Journal
  PROVE  ClaimDigest(StandardClaim(i, j)) = DigestOf(Success(i, j))
  BY DEF ClaimDigest, StandardClaim, OutputDigest, DigestOf, ClaimOf, Success

(* What the digest of a run's claim hashes is among the preimages that are  *)
(* assumed to be free of collisions.                                        *)
LEMMA ClaimHashed ==
  ASSUME NEW e \in Known
  PROVE  [fields |-> <<TAG_CLAIM, e.input, e.pre, e.post, ClaimOf(e).output>>,
          codes  |-> <<e.system, 0, 0, 0, e.user, 0, 0, 0, 4, 0>>] \in Claims
<1> DEFINE H(c) == [fields |-> <<TAG_CLAIM, c.input, c.pre, c.post, c.output>>,
                    codes  |-> <<c.system, 0, 0, 0, c.user, 0, 0, 0, 4, 0>>]
<1>1. Claims = {H(c) : c \in {ClaimOf(x) : x \in Known}}
  BY DEF Claims, Known
<1>2. H(ClaimOf(e)) \in Claims
  <2> HIDE DEF H
  <2> QED
    BY <1>1
<1>3. /\ ClaimOf(e).input = e.input /\ ClaimOf(e).pre = e.pre /\ ClaimOf(e).post = e.post
      /\ ClaimOf(e).system = e.system /\ ClaimOf(e).user = e.user
  BY DEF ClaimOf
<1> QED
  BY <1>2, <1>3

(* The digest of a claim is one. *)
LEMMA DigestOfTyped ==
  ASSUME NEW e \in Known
  PROVE  DigestOf(e) \in Digest
<1> DEFINE x == [fields |-> <<TAG_CLAIM, e.input, e.pre, e.post, ClaimOf(e).output>>,
                 codes  |-> <<e.system, 0, 0, 0, e.user, 0, 0, 0, 4, 0>>]
<1>1. x \in Claims
  BY ClaimHashed
<1>2. Sha(x.fields, x.codes) \in Digest
  <2> HIDE DEF x
  <2> QED
    BY <1>1, SealAssumption
<1> QED
  BY <1>2 DEF DigestOf

(* Output and claim digests cover every field of a run. *)
LEMMA DigestsDetermine ==
  ASSUME NEW e \in Known, NEW f \in Known, DigestOf(e) = DigestOf(f)
  PROVE  e = f
<1> DEFINE C(x) == [fields |-> <<TAG_CLAIM, x.input, x.pre, x.post, ClaimOf(x).output>>,
                    codes  |-> <<x.system, 0, 0, 0, x.user, 0, 0, 0, 4, 0>>]
           O(x) == <<TAG_OUTPUT, x.journal, x.assumptions>>
<1>1. ASSUME NEW x \in Known PROVE C(x) \in Claims
  BY ClaimHashed
<1>2. ASSUME NEW x \in Known PROVE O(x) \in Outputs
  BY DEF Known, Outputs
<1>3. Sha(C(e).fields, C(e).codes) = Sha(C(f).fields, C(f).codes)
  BY DEF DigestOf
<1>4. C(e) = C(f)
  <2> HIDE DEF C
  <2> QED
    BY <1>1, <1>3, SealAssumption
<1>5. C(e).fields = C(f).fields /\ C(e).codes = C(f).codes
  BY <1>4
<1>6. /\ e.input = f.input /\ e.pre = f.pre /\ e.post = f.post
      /\ ClaimOf(e).output = ClaimOf(f).output
  BY <1>5
<1>7. e.system = f.system /\ e.user = f.user
  BY <1>5
<1>8. Sha(O(e), <<2, 0>>) = Sha(O(f), <<2, 0>>)
  BY <1>6 DEF ClaimOf
<1>9. O(e) = O(f)
  <2> HIDE DEF O
  <2> QED
    BY <1>2, <1>8, SealAssumption
<1>10. e.journal = f.journal /\ e.assumptions = f.assumptions
  BY <1>9
<1> QED
  BY <1>6, <1>7, <1>10, KnownTyped DEF ExecutionType

-----------------------------------------------------------------------------
(* What travels. *)

(* A seal of full length carries a proof that was made, and the honest seal *)
(* of every proof is around.                                                *)
Traced ==
  /\ proven \subseteq Version \X Execution
  /\ \A seal \in seals : seal.size = SEAL_SIZE =>
       \E q \in Version, e \in Execution : <<q, e>> \in proven /\ seal.proof = Proof(q, e)
  /\ \A q \in Version, e \in Execution : <<q, e>> \in proven => Sealed(q, e) \in seals

(* No seal is around at first. *)
LEMMA InitTraced == Init => Traced
  BY DEF Init, Traced

(* Relabelling and cutting make no proof; proving leaves its honest seal.   *)
LEMMA StepTraced == Traced /\ [Next]_vars => Traced'
<1> SUFFICES ASSUME Traced, [Next]_vars
             PROVE  Traced'
  OBVIOUS
<1>1. ASSUME NEW p \in Version, NEW e \in Execution, Prove(p, e)
      PROVE  Traced'
  <2>1. seals' = seals \cup {Sealed(p, e)} /\ proven' = proven \cup {<<p, e>>}
    BY <1>1 DEF Prove, Add
  <2>2. (proven \subseteq Version \X Execution)'
    BY <2>1 DEF Traced
  <2>3. ASSUME NEW seal \in seals', seal.size = SEAL_SIZE
        PROVE  \E q \in Version, f \in Execution : <<q, f>> \in proven' /\ seal.proof = Proof(q, f)
    <3>1. CASE seal \in seals
      BY <3>1, <2>1, <2>3 DEF Traced
    <3>2. CASE seal = Sealed(p, e)
      <4>1. seal.proof = Proof(p, e)
        BY <3>2 DEF Sealed
      <4> QED
        BY <4>1, <2>1
    <3> QED
      BY <2>1, <3>1, <3>2
  <2>4. ASSUME NEW q \in Version, NEW f \in Execution, <<q, f>> \in proven'
        PROVE  Sealed(q, f) \in seals'
    <3>1. CASE <<q, f>> \in proven
      BY <3>1, <2>1 DEF Traced
    <3>2. CASE <<q, f>> = <<p, e>>
      BY <3>2, <2>1
    <3> QED
      BY <2>1, <2>4, <3>1, <3>2
  <2> QED
    BY <2>2, <2>3, <2>4 DEF Traced
<1>2. ASSUME NEW s, Add(s), UNCHANGED proven, s.size # SEAL_SIZE \/ \E t \in seals : s.size = t.size /\ s.proof = t.proof
      PROVE  Traced'
  <2>1. seals' = seals \cup {s} /\ proven' = proven
    BY <1>2 DEF Add
  <2>2. ASSUME NEW seal \in seals', seal.size = SEAL_SIZE
        PROVE  \E q \in Version, f \in Execution : <<q, f>> \in proven' /\ seal.proof = Proof(q, f)
    BY <1>2, <2>1, <2>2 DEF Traced
  <2>3. ASSUME NEW q \in Version, NEW f \in Execution, <<q, f>> \in proven'
        PROVE  Sealed(q, f) \in seals'
    BY <2>1, <2>3 DEF Traced
  <2> QED
    BY <2>1, <2>2, <2>3 DEF Traced
<1>3. ASSUME NEW i \in Image, NEW j \in Journal, MockProve(i, j)
      PROVE  Traced'
  <2> DEFINE s == MockSeal(ClaimDigest(StandardClaim(i, j)))
  <2>1. s.size # SEAL_SIZE
    BY DEF MockSeal, SEAL_SIZE
  <2>2. Add(s) /\ UNCHANGED proven
    BY <1>3 DEF MockProve
  <2> HIDE DEF s
  <2> QED
    BY <1>2, <2>1, <2>2
<1>4. ASSUME NEW t \in seals, Cut(t)
      PROVE  Traced'
  <2>1. PICK n \in {3, SEAL_SIZE - 1} : n < t.size /\ Add([t EXCEPT !.size = n])
    BY <1>4 DEF Cut
  <2>2. [t EXCEPT !.size = n].size # SEAL_SIZE \/ [t EXCEPT !.size = n].size = t.size
    BY <2>1 DEF SEAL_SIZE
  <2>3. [t EXCEPT !.size = n].proof = t.proof
    OBVIOUS
  <2> QED
    BY <1>2, <1>4, <2>1, <2>2, <2>3 DEF Cut
<1>5. ASSUME NEW t \in seals, NEW l \in Label, Relabel(t, l)
      PROVE  Traced'
  <2>1. [t EXCEPT !.selector = l].size = t.size /\ [t EXCEPT !.selector = l].proof = t.proof
    OBVIOUS
  <2> QED
    BY <1>2, <1>5, <2>1 DEF Relabel
<1>6. CASE UNCHANGED vars
  BY <1>6 DEF Traced, vars
<1> QED
  BY <1>1, <1>3, <1>4, <1>5, <1>6 DEF Next

-----------------------------------------------------------------------------
(* What a verifier accepts. *)

(* "Ok" of verify: length, selector and signals (verify_integrity).         *)
LEMMA Acceptance ==
  ASSUME NEW p \in Version, NEW seal, NEW i \in Image, NEW j \in Journal,
         verify(p, seal, i, j) = "Ok"
  PROVE  /\ seal.size = SEAL_SIZE
         /\ seal.proof = [vk |-> p.vk, signals |->
              <<Fr(split_digest(p.root)[1]), Fr(split_digest(p.root)[2]),
                Fr(split_digest(DigestOf(Success(i, j)))[1]), Fr(split_digest(DigestOf(Success(i, j)))[2]), Fr(p.id)>>]
<1>1. verify_integrity(p, seal, DigestOf(Success(i, j))) = "Ok"
  BY StandardDigest DEF verify
<1> QED
  BY <1>1 DEF verify_integrity, verify_proof, control_root

(* The proof made for a run has the signals the verifier computes.          *)
LEMMA ProofSignals ==
  ASSUME NEW q \in Version, NEW e \in Known
  PROVE  Proof(q, e) = [vk |-> q.vk, signals |->
           <<Fr(split_digest(q.root)[1]), Fr(split_digest(q.root)[2]),
             Fr(split_digest(DigestOf(e))[1]), Fr(split_digest(DigestOf(e))[2]), Fr(q.id)>>]
<1>1. q.root \in Digest /\ DigestOf(e) \in Digest
  BY DigestOfTyped, SealAssumption DEF VersionType
<1>2. /\ split_digest(q.root) = <<Low(q.root), High(q.root)>>
      /\ split_digest(DigestOf(e)) = <<Low(DigestOf(e)), High(DigestOf(e))>>
  BY <1>1, SplitIsHalves
<1>3. Proof(q, e) = [vk |-> q.vk, signals |->
        <<Fr(Low(q.root)), Fr(High(q.root)), Fr(Low(DigestOf(e))), Fr(High(DigestOf(e))), Fr(q.id)>>]
  BY DEF Proof, DigestOf
<1> QED
  BY <1>2, <1>3

(* Equal signals under equal keys are the same release and the same run.    *)
LEMMA ProofDetermines ==
  ASSUME NEW p \in Version, NEW q \in Version, NEW e \in Known, NEW f \in Known,
         Proof(p, e) = Proof(q, f)
  PROVE  p = q /\ e = f
<1> DEFINE S(r, g) == <<Fr(split_digest(r.root)[1]), Fr(split_digest(r.root)[2]),
                        Fr(split_digest(DigestOf(g))[1]), Fr(split_digest(DigestOf(g))[2]), Fr(r.id)>>
<1>1. Proof(p, e) = [vk |-> p.vk, signals |-> S(p, e)] /\ Proof(q, f) = [vk |-> q.vk, signals |-> S(q, f)]
  BY ProofSignals
<1>2. p.vk = q.vk /\ S(p, e) = S(q, f)
  <2> HIDE DEF S
  <2>1. [vk |-> p.vk, signals |-> S(p, e)] = [vk |-> q.vk, signals |-> S(q, f)]
    BY <1>1
  <2> QED
    BY <2>1
<1>3. /\ Fr(split_digest(p.root)[1]) = Fr(split_digest(q.root)[1])
      /\ Fr(split_digest(p.root)[2]) = Fr(split_digest(q.root)[2])
      /\ Fr(split_digest(DigestOf(e))[1]) = Fr(split_digest(DigestOf(f))[1])
      /\ Fr(split_digest(DigestOf(e))[2]) = Fr(split_digest(DigestOf(f))[2])
  BY <1>2
<1>4. p.root \in Digest /\ q.root \in Digest /\ DigestOf(e) \in Digest /\ DigestOf(f) \in Digest
  BY DigestOfTyped, SealAssumption DEF VersionType
<1>5. p.root = q.root /\ DigestOf(e) = DigestOf(f)
  BY <1>3, <1>4, SignalsDetermine
<1>6. p = q
  BY <1>2, <1>5, SealAssumption
<1> QED
  BY <1>5, <1>6, DigestsDetermine

(* So what is accepted is the proof of that very run.                       *)
LEMMA AcceptedProof ==
  ASSUME NEW p \in Version, NEW seal, NEW i \in Image, NEW j \in Journal,
         verify(p, seal, i, j) = "Ok"
  PROVE  seal.size = SEAL_SIZE /\ seal.proof = Proof(p, Success(i, j))
<1>1. Success(i, j) \in Known
  BY DEF Known
<1> QED
  BY <1>1, Acceptance, ProofSignals

(* A Groth16 verifier accepts nothing but proofs, made under its own        *)
(* parameters, of the successful run of that image with that journal        *)
(* (verify of groth16-verifier).                                            *)
THEOREM AcceptanceSound == Spec => []AcceptedMeansProven
<1>1. Traced => AcceptedMeansProven
  <2> SUFFICES ASSUME Traced, NEW p \in Version, NEW seal \in seals, NEW i \in Image, NEW j \in Journal,
                      verify(p, seal, i, j) = "Ok"
               PROVE  <<p, Success(i, j)>> \in proven
    BY DEF AcceptedMeansProven
  <2>1. seal.size = SEAL_SIZE /\ seal.proof = Proof(p, Success(i, j))
    BY AcceptedProof
  <2>2. PICK q \in Version, e \in Execution : <<q, e>> \in proven /\ seal.proof = Proof(q, e)
    BY <2>1 DEF Traced
  <2>3. e \in Known /\ Success(i, j) \in Known
    BY DEF Known
  <2>4. p = q /\ Success(i, j) = e
    <3>1. Proof(p, Success(i, j)) = Proof(q, e)
      BY <2>1, <2>2
    <3> DEFINE f == Success(i, j)
    <3> HIDE DEF f
    <3>2. f \in Known /\ Proof(p, f) = Proof(q, e)
      BY <2>3, <3>1 DEF f
    <3>3. p = q /\ f = e
      BY <2>3, <3>2, ProofDetermines
    <3> QED
      BY <3>3 DEF f
  <2> QED
    BY <2>2, <2>4
<1> QED
  BY <1>1, InitTraced, StepTraced, PTL DEF Spec

(* The honest seal of a successful run passes the verifier of its release.  *)
THEOREM AcceptanceComplete == Spec => []ProvenIsAccepted
<1>1. Traced => ProvenIsAccepted
  <2> SUFFICES ASSUME Traced, NEW p \in Version, NEW i \in Image, NEW j \in Journal,
                      <<p, Success(i, j)>> \in proven
               PROVE  \E seal \in seals : verify(p, seal, i, j) = "Ok"
    BY DEF ProvenIsAccepted
  <2>1. Success(i, j) \in Execution /\ Success(i, j) \in Known
    BY DEF Traced, Known
  <2>2. Sealed(p, Success(i, j)) \in seals
    BY <2>1 DEF Traced
  <2>3. verify_integrity(p, Sealed(p, Success(i, j)), DigestOf(Success(i, j))) = "Ok"
    <3> DEFINE signals == <<Fr(split_digest(p.root)[1]), Fr(split_digest(p.root)[2]),
                            Fr(split_digest(DigestOf(Success(i, j)))[1]),
                            Fr(split_digest(DigestOf(Success(i, j)))[2]), Fr(p.id)>>
    <3>1. Len(signals) + 1 = p.ic
      BY SealAssumption DEF IC_LEN
    <3>2. Proof(p, Success(i, j)) = [vk |-> p.vk, signals |-> signals]
      BY <2>1, ProofSignals
    <3>3. verify_integrity(p, Sealed(p, Success(i, j)), DigestOf(Success(i, j)))
            = verify_proof(p, Proof(p, Success(i, j)), signals)
      BY DEF verify_integrity, Sealed, control_root
    <3> HIDE DEF signals
    <3>4. verify_proof(p, Proof(p, Success(i, j)), signals) = "Ok"
      BY <3>1, <3>2 DEF verify_proof
    <3> QED
      BY <3>3, <3>4
  <2>4. verify(p, Sealed(p, Success(i, j)), i, j) = "Ok"
    BY <2>3, StandardDigest DEF verify
  <2> QED
    BY <2>2, <2>4
<1> QED
  BY <1>1, InitTraced, StepTraced, PTL DEF Spec

(* No seal passes two verifiers, or one of them for two statements, the     *)
(* mock verifier included: its seals are too short for the others.          *)
THEOREM OneMeaning == Spec => []SealSaysOneThing
<1>1. SealSaysOneThing
  <2> SUFFICES ASSUME NEW seal \in seals, NEW x \in Verdicts(seal), NEW y \in Verdicts(seal)
               PROVE  x = y
    BY DEF SealSaysOneThing
  <2> DEFINE Groth(v) == v \in Version \X Image \X Journal /\ verify(v[1], seal, v[2], v[3]) = "Ok"
             Mock(v) == v \in {None} \X Image \X Journal /\ mock_verify(seal, v[2], v[3]) = "Ok"
  <2>1. (Groth(x) \/ Mock(x)) /\ (Groth(y) \/ Mock(y))
    BY DEF Verdicts
  <2>2. ASSUME NEW v, Groth(v)
        PROVE  /\ v[1] \in Version /\ v[2] \in Image /\ v[3] \in Journal /\ v = <<v[1], v[2], v[3]>>
               /\ Success(v[2], v[3]) \in Known
               /\ seal.size = SEAL_SIZE /\ seal.proof = Proof(v[1], Success(v[2], v[3]))
    BY <2>2, AcceptedProof DEF Known
  <2>3. ASSUME NEW v, Mock(v)
        PROVE  /\ v[2] \in Image /\ v[3] \in Journal /\ v = <<None, v[2], v[3]>>
               /\ Success(v[2], v[3]) \in Known
               /\ seal.size # SEAL_SIZE /\ seal.digest = DigestOf(Success(v[2], v[3]))
    <3>1. v[2] \in Image /\ v[3] \in Journal /\ v = <<None, v[2], v[3]>>
      BY <2>3
    <3>2. mock_verify_integrity(seal, DigestOf(Success(v[2], v[3]))) = "Ok"
      BY <2>3, <3>1, StandardDigest DEF mock_verify
    <3>3. seal.size = 36 /\ seal.digest = DigestOf(Success(v[2], v[3]))
      BY <3>2 DEF mock_verify_integrity
    <3> QED
      BY <3>1, <3>3 DEF SEAL_SIZE, Known
  <2> HIDE DEF Groth, Mock
  <2>4. CASE Groth(x) /\ Groth(y)
    <3>1. x[1] = y[1] /\ Success(x[2], x[3]) = Success(y[2], y[3])
      BY <2>4, <2>2, ProofDetermines
    <3>2. x[2] = y[2] /\ x[3] = y[3]
      BY <3>1 DEF Success
    <3> QED
      BY <2>4, <2>2, <3>1, <3>2
  <2>5. CASE Mock(x) /\ Mock(y)
    <3>1. Success(x[2], x[3]) = Success(y[2], y[3])
      BY <2>5, <2>3, DigestsDetermine
    <3>2. x[2] = y[2] /\ x[3] = y[3]
      BY <3>1 DEF Success
    <3> QED
      BY <2>5, <2>3, <3>2
  <2> QED
    BY <2>1, <2>2, <2>3, <2>4, <2>5
<1> QED
  BY <1>1, PTL
-----------------------------------------------------------------------------
(* The stack's picture of a seal. *)

Groth16(p) == <<"groth16", p>>
MockContract == <<"mock", MockSelector>>

(* EmergencyStop with these verifiers behind it, for its verdict on a seal. *)
Stop == INSTANCE EmergencyStop WITH
  Contract     <- {},
  Account      <- {},
  Wrapper      <- {},
  Impl         <- {Groth16(p) : p \in Version} \cup {MockContract},
  OwnSelector  <- [i \in {Groth16(p) : p \in Version} \cup {MockContract} |->
                     IF i[1] = "mock" THEN MockSelector ELSE SELECTOR(i[2])],
  Broken       <- {MockContract},
  Seal         <- {},
  owner        <- None,
  pendingOwner <- None,
  wrapped      <- None,
  paused       <- None

(* A seal was made by proving a run whose claim has the digest d, whatever  *)
(* became of its length since.                                              *)
Honest(seal, d) ==
  \E q \in Version, e \in Execution :
    /\ <<q, e>> \in proven
    /\ DigestOf(e) = d
    /\ seal = [Sealed(q, e) EXCEPT !.size = seal.size]

(* What is left of a seal, submitted for the claim digest d, in the modules *)
(* of the stack.                                                            *)
View(seal, d) ==
  [selector |-> seal.selector,
   full     |-> seal.size = IF seal.digest = None THEN SEAL_SIZE ELSE 4 + 32,
   genuine  |-> Honest(seal, d),
   zero     |-> d = ZERO]

(* The build gives every release a selector of its own.                     *)
SelectorsDiffer == \A p, q \in Version : SELECTOR(p) = SELECTOR(q) => p = q

(* Seals have the four fields, and one as long as a proof holds no digest.  *)
Formed ==
  \A seal \in seals :
    /\ seal = [selector |-> seal.selector, size |-> seal.size, proof |-> seal.proof, digest |-> seal.digest]
    /\ seal.size \in Nat
    /\ seal.digest # None => seal.size <= 4 + 32

(* The verdicts of the Groth16 verifiers are those the stack gives on the   *)
(* seal's picture, and the mock verifier accepts no more than a broken one. *)
StackSeesSeals ==
  \A seal \in seals, d \in Digest :
    /\ \A p \in Version :
         verify_integrity(p, seal, d) = "Ok" => Stop!ImplVerifies(Groth16(p), View(seal, d))
    /\ SelectorsDiffer => \A p \in Version :
         Stop!ImplVerifies(Groth16(p), View(seal, d)) => verify_integrity(p, seal, d) = "Ok"
    /\ mock_verify_integrity(seal, d) = "Ok" => Stop!ImplVerifies(MockContract, View(seal, d))

(* No seal is around at first. *)
LEMMA InitFormed == Init => Formed
  BY DEF Init, Formed

(* Provers write the four fields, and nothing on the way adds another.      *)
LEMMA StepFormed == Formed /\ [Next]_vars => Formed'
<1> DEFINE Fine(seal) ==
      /\ seal = [selector |-> seal.selector, size |-> seal.size, proof |-> seal.proof, digest |-> seal.digest]
      /\ seal.size \in Nat
      /\ seal.digest # None => seal.size <= 4 + 32
<1> SUFFICES ASSUME Formed, [Next]_vars
             PROVE  Formed'
  OBVIOUS
<1>0. \A seal \in seals : Fine(seal)
  BY DEF Formed
<1>1. ASSUME NEW s, Add(s), Fine(s)
      PROVE  Formed'
  BY <1>0, <1>1 DEF Add, Formed
<1>2. ASSUME NEW p \in Version, NEW e \in Execution, Prove(p, e)
      PROVE  Formed'
  <2>1. Fine(Sealed(p, e))
    BY DEF Sealed, SEAL_SIZE
  <2> QED
    BY <1>1, <1>2, <2>1 DEF Prove
<1>3. ASSUME NEW i \in Image, NEW j \in Journal, MockProve(i, j)
      PROVE  Formed'
  <2> DEFINE s == MockSeal(ClaimDigest(StandardClaim(i, j)))
  <2>1. Fine(s)
    BY DEF MockSeal
  <2> QED
    BY <1>1, <1>3, <2>1 DEF MockProve
<1>4. ASSUME NEW t \in seals, NEW l \in Label, Relabel(t, l)
      PROVE  Formed'
  <2>1. [t EXCEPT !.selector = l] =
          [selector |-> l, size |-> t.size, proof |-> t.proof, digest |-> t.digest]
    BY <1>0
  <2>2. Fine([t EXCEPT !.selector = l])
    BY <1>0, <2>1
  <2> QED
    BY <1>1, <1>4, <2>2 DEF Relabel
<1>5. ASSUME NEW t \in seals, Cut(t)
      PROVE  Formed'
  <2>1. PICK n \in {3, SEAL_SIZE - 1} : n < t.size /\ Add([t EXCEPT !.size = n])
    BY <1>5 DEF Cut
  <2>2. [t EXCEPT !.size = n] =
          [selector |-> t.selector, size |-> n, proof |-> t.proof, digest |-> t.digest]
    BY <1>0
  <2>3. n \in Nat /\ (t.digest # None => n <= 4 + 32)
    BY <1>0, <2>1 DEF SEAL_SIZE
  <2>4. Fine([t EXCEPT !.size = n])
    BY <2>2, <2>3
  <2> QED
    BY <1>1, <2>1, <2>4
<1>6. CASE UNCHANGED vars
  BY <1>6 DEF Formed, vars
<1> QED
  BY <1>2, <1>3, <1>4, <1>5, <1>6 DEF Next

(* The signals a verifier of release p computes for the digest d.           *)
Signals(p, d) ==
  <<Fr(split_digest(p.root)[1]), Fr(split_digest(p.root)[2]),
    Fr(split_digest(d)[1]), Fr(split_digest(d)[2]), Fr(p.id)>>

(* verify_integrity says "Ok" to the right length, selector and proof.      *)
LEMMA IntegrityIs ==
  ASSUME NEW p \in Version, NEW seal, NEW d
  PROVE  verify_integrity(p, seal, d) = "Ok" <=>
           /\ seal.size = SEAL_SIZE
           /\ seal.selector = SELECTOR(p)
           /\ seal.proof = [vk |-> p.vk, signals |-> Signals(p, d)]
<1>1. verify_integrity(p, seal, d) =
        IF seal.size # SEAL_SIZE THEN "MalformedSeal"
        ELSE IF seal.selector # SELECTOR(p) THEN "InvalidSelector"
        ELSE verify_proof(p, seal.proof, Signals(p, d))
  BY DEF verify_integrity, control_root, Signals
<1>2. Len(Signals(p, d)) + 1 = p.ic
  BY SealAssumption DEF Signals, IC_LEN
<1>3. verify_proof(p, seal.proof, Signals(p, d)) = "Ok"
        <=> seal.proof = [vk |-> p.vk, signals |-> Signals(p, d)]
  BY <1>2 DEF verify_proof
<1> QED
  BY <1>1, <1>3

(* A proof with those signals is of that release and of a run with that     *)
(* digest, in whatever module the digest was computed.                      *)
LEMMA SignalsName ==
  ASSUME NEW p \in Version, NEW q \in Version, NEW e \in Known, NEW d \in Digest,
         Proof(q, e) = [vk |-> p.vk, signals |-> Signals(p, d)]
  PROVE  q = p /\ DigestOf(e) = d
<1>1. Proof(q, e) = [vk |-> q.vk, signals |-> Signals(q, DigestOf(e))]
  BY ProofSignals DEF Signals
<1>2. q.vk = p.vk /\ Signals(q, DigestOf(e)) = Signals(p, d)
  BY <1>1
<1>3. /\ Fr(split_digest(q.root)[1]) = Fr(split_digest(p.root)[1])
      /\ Fr(split_digest(q.root)[2]) = Fr(split_digest(p.root)[2])
      /\ Fr(split_digest(DigestOf(e))[1]) = Fr(split_digest(d)[1])
      /\ Fr(split_digest(DigestOf(e))[2]) = Fr(split_digest(d)[2])
  BY <1>2 DEF Signals
<1>4. p.root \in Digest /\ q.root \in Digest /\ DigestOf(e) \in Digest
  BY DigestOfTyped, SealAssumption DEF VersionType
<1>5. q.root = p.root /\ DigestOf(e) = d
  BY <1>3, <1>4, SignalsDetermine
<1> QED
  BY <1>2, <1>5, SealAssumption

(* An accepted seal is honest: its proof was made for that release, under   *)
(* whose selector it travels, and for that digest.                          *)
LEMMA AcceptedIsHonest ==
  ASSUME Traced, Formed, NEW p \in Version, NEW seal \in seals, NEW d \in Digest,
         verify_integrity(p, seal, d) = "Ok"
  PROVE  seal.selector = SELECTOR(p) /\ seal.size = SEAL_SIZE /\ seal.digest = None /\ Honest(seal, d)
<1>1. /\ seal.size = SEAL_SIZE
      /\ seal.selector = SELECTOR(p)
      /\ seal.proof = [vk |-> p.vk, signals |-> Signals(p, d)]
  BY IntegrityIs
<1>2. PICK q \in Version, e \in Execution : <<q, e>> \in proven /\ seal.proof = Proof(q, e)
  BY <1>1 DEF Traced
<1>3. q = p /\ DigestOf(e) = d
  BY <1>1, <1>2, SignalsName DEF Known
<1>4. seal.digest = None
  BY <1>1 DEF Formed, SEAL_SIZE
<1>5. seal = [selector |-> SELECTOR(q), size |-> seal.size, proof |-> Proof(q, e), digest |-> None]
  BY <1>1, <1>2, <1>3, <1>4 DEF Formed
<1>6. [Sealed(q, e) EXCEPT !.size = seal.size] =
        [selector |-> SELECTOR(q), size |-> seal.size, proof |-> Proof(q, e), digest |-> None]
  BY DEF Sealed
<1> QED
  BY <1>1, <1>2, <1>3, <1>4, <1>5, <1>6 DEF Honest

(* What an honest seal is made of.                                          *)
LEMMA HonestParts ==
  ASSUME NEW seal, NEW d, Honest(seal, d)
  PROVE  \E q \in Version, e \in Execution :
           /\ DigestOf(e) = d
           /\ seal.selector = SELECTOR(q) /\ seal.proof = Proof(q, e) /\ seal.digest = None
<1>1. PICK q \in Version, e \in Execution :
        DigestOf(e) = d /\ seal = [Sealed(q, e) EXCEPT !.size = seal.size]
  BY DEF Honest
<1>2. [Sealed(q, e) EXCEPT !.size = seal.size] =
        [selector |-> SELECTOR(q), size |-> seal.size, proof |-> Proof(q, e), digest |-> None]
  BY DEF Sealed
<1>3. seal = [selector |-> SELECTOR(q), size |-> seal.size, proof |-> Proof(q, e), digest |-> None]
  BY <1>1, <1>2
<1>4. seal.selector = SELECTOR(q) /\ seal.proof = Proof(q, e) /\ seal.digest = None
  BY <1>3
<1> QED
  BY <1>1, <1>4

(* The selectors the stack's verifiers are built with.                      *)
LEMMA OwnSelectors ==
  /\ \A s : \A p \in Version : Stop!ImplVerifies(Groth16(p), s) <=>
       s.selector = SELECTOR(p) /\ s.full /\ s.genuine
  /\ \A s : Stop!ImplVerifies(MockContract, s) <=> s.selector = MockSelector /\ s.full
<1>1. \A p : Groth16(p)[1] = "groth16" /\ Groth16(p)[2] = p /\ MockContract[1] = "mock"
  BY DEF Groth16, MockContract
<1>2. \A p : Groth16(p) # MockContract
  BY <1>1
<1> DEFINE I == {Groth16(p) : p \in Version} \cup {MockContract}
           O == [i \in I |-> IF i[1] = "mock" THEN MockSelector ELSE SELECTOR(i[2])]
<1>3. \A p \in Version : Groth16(p) \in I /\ O[Groth16(p)] = SELECTOR(p)
  BY <1>1
<1>4. MockContract \in I /\ O[MockContract] = MockSelector
  BY <1>1
<1>5. \A i, s : Stop!ImplVerifies(i, s) <=> s.selector = O[i] /\ s.full /\ (s.genuine \/ i \in {MockContract})
  BY DEF Stop!ImplVerifies
<1> HIDE DEF O, I
<1> QED
  BY <1>2, <1>3, <1>4, <1>5

(* The verifiers of the stack are those of the contracts: verify_integrity  *)
(* of the Groth16 verifiers, byte by byte, says of every seal and digest    *)
(* what ImplVerifies of EmergencyStop says of the seal's four-field         *)
(* picture; if two releases shared a selector it would say less.  The mock  *)
(* verifier is one of the broken ones.                                      *)
THEOREM StackSeesWhatVerifiersSee == Spec => []StackSeesSeals
<1>1. ASSUME Traced, Formed, NEW seal \in seals, NEW d \in Digest, NEW p \in Version,
             verify_integrity(p, seal, d) = "Ok"
      PROVE  Stop!ImplVerifies(Groth16(p), View(seal, d))
  BY <1>1, AcceptedIsHonest, OwnSelectors DEF View
<1>2. ASSUME Formed, SelectorsDiffer, NEW seal \in seals, NEW d \in Digest, NEW p \in Version,
             Stop!ImplVerifies(Groth16(p), View(seal, d))
      PROVE  verify_integrity(p, seal, d) = "Ok"
  <2>1. /\ seal.selector = SELECTOR(p)
        /\ seal.size = IF seal.digest = None THEN SEAL_SIZE ELSE 4 + 32
        /\ Honest(seal, d)
    <3>1. View(seal, d).selector = SELECTOR(p) /\ View(seal, d).full /\ View(seal, d).genuine
      BY <1>2, OwnSelectors, Zenon
    <3>2. View(seal, d).full = (seal.size = IF seal.digest = None THEN SEAL_SIZE ELSE 4 + 32)
      BY DEF View
    <3>3. View(seal, d).genuine = Honest(seal, d)
      BY DEF View
    <3>4. View(seal, d).selector = seal.selector
      BY DEF View
    <3> QED
      BY <3>1, <3>2, <3>3, <3>4, Zenon
  <2>2. PICK q \in Version, e \in Execution :
          /\ DigestOf(e) = d
          /\ seal.selector = SELECTOR(q) /\ seal.proof = Proof(q, e) /\ seal.digest = None
    BY <2>1, HonestParts
  <2>3. q = p
    BY <1>2, <2>1, <2>2 DEF SelectorsDiffer
  <2>4. Proof(q, e) = [vk |-> q.vk, signals |-> Signals(q, d)]
    BY <2>2, ProofSignals DEF Signals, Known
  <2> QED
    BY <2>1, <2>2, <2>3, <2>4, IntegrityIs
<1>3. ASSUME NEW seal \in seals, NEW d \in Digest, mock_verify_integrity(seal, d) = "Ok"
      PROVE  Stop!ImplVerifies(MockContract, View(seal, d))
  <2>1. seal.selector = MockSelector /\ seal.size = 4 + 32 /\ seal.digest = d
    BY <1>3 DEF mock_verify_integrity
  <2>2. seal.digest # None
    BY <2>1, SealAssumption
  <2> QED
    BY <2>1, <2>2, OwnSelectors DEF View
<1>4. Traced /\ Formed => StackSeesSeals
  BY <1>1, <1>2, <1>3 DEF StackSeesSeals
<1> QED
  BY <1>4, InitTraced, StepTraced, InitFormed, StepFormed, PTL DEF Spec

(* While the proof system is sound nobody stops a wrapper with a receipt:   *)
(* estop_with_receipt wants a seal for the claim digest of zeros, and no    *)
(* run has that digest.                                                     *)
THEOREM NoReceiptOfZeros ==
  ASSUME \A e \in Execution : DigestOf(e) # ZERO
  PROVE  Spec => [](\A p \in Version, seal \in seals : verify_integrity(p, seal, ZERO) # "Ok")
<1>1. ZERO \in Digest
  BY ClaimAssumption DEF ZERO, Digest
<1>2. ASSUME Traced, Formed, NEW p \in Version, NEW seal \in seals, verify_integrity(p, seal, ZERO) = "Ok"
      PROVE  FALSE
  <2>1. Honest(seal, ZERO)
    BY <1>1, <1>2, AcceptedIsHonest
  <2> QED
    BY <2>1 DEF Honest
<1>3. Traced /\ Formed => \A p \in Version, seal \in seals : verify_integrity(p, seal, ZERO) # "Ok"
  BY <1>2
<1> QED
  BY <1>3, InitTraced, StepTraced, InitFormed, StepFormed, PTL DEF Spec
=============================================================================
