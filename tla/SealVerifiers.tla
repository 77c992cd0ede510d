---------------------------- MODULE SealVerifiers ----------------------------
(***************************************************************************)
(* The verifier contracts, reference-verifier/contracts/groth16-verifier   *)
(* and mock-verifier: which seal each one accepts, and for which           *)
(* statement.  The contracts keep no state that changes; what changes is   *)
(* which proofs have been made and which seals are around.                 *)
(*                                                                         *)
(* A Groth16 proof is ideal: it carries the verification key and the       *)
(* public signals it was made for, and the pairing check compares them.    *)
(***************************************************************************)
EXTENDS ReceiptClaim, FiniteSets

CONSTANTS
  Fr(_),         \* Fr::from_bytes: a big-endian number in the scalar field
  TAG_VERSION,   \* the tag digest of the verifier parameters
  SelectorSize,  \* bytes in a selector
  None,
  Image,         \* image ids
  Journal,       \* journal digests
  Execution,     \* guest runs that may take place
  Version,       \* the parameters of the Groth16 verifiers deployed
  MockSelector,  \* the selector the mock verifier was constructed with
  Label,         \* selectors a seal may be relabelled with
  MaxSeals       \* bound on the seals around

SEAL_SIZE == 260
IC_LEN == 6

(* parameters.json: control root, BN254 control id, digest and number of    *)
(* IC points of the verification key.                                       *)
VersionType == [root : Digest, id : Digest, vk : Digest, ic : Nat]

(* What a run was: its claim, with the journal and the assumptions that the *)
(* claim's output is the digest of.                                         *)
ExecutionType ==
  [pre : Digest, post : Digest, system : SystemExitCode, user : Byte, input : Digest,
   journal : Digest, assumptions : Digest]

ClaimOf(e) ==
  [pre |-> e.pre, post |-> e.post, system |-> e.system, user |-> e.user, input |-> e.input,
   output |-> Sha(<<TAG_OUTPUT, e.journal, e.assumptions>>, <<2, 0>>)]

(* The run of a guest that halted with code 0, without input or assumptions. *)
Success(image, journal) ==
  [pre |-> image, post |-> HALTED, system |-> 0, user |-> 0, input |-> ZERO,
   journal |-> journal, assumptions |-> ZERO]

(* What is hashed for the runs and statements there are. *)
Outputs ==
  {<<TAG_OUTPUT, e.journal, e.assumptions>> : e \in Execution \cup {Success(i, j) : i \in Image, j \in Journal}}

Claims ==
  {[fields |-> <<TAG_CLAIM, c.input, c.pre, c.post, c.output>>,
    codes  |-> <<c.system, 0, 0, 0, c.user, 0, 0, 0, 4, 0>>] :
     c \in {ClaimOf(e) : e \in Execution \cup {Success(i, j) : i \in Image, j \in Journal}}}

(* SHA-256 has no collisions among those, a field element tells 16-byte     *)
(* numbers apart, the build asserts the number of IC points, and no two     *)
(* releases share both control root and key.                                *)
ASSUME SealAssumption ==
  /\ \A x, y \in Outputs : Sha(x, <<2, 0>>) = Sha(y, <<2, 0>>) => x = y
  /\ \A x, y \in Claims : Sha(x.fields, x.codes) = Sha(y.fields, y.codes) => x = y
  /\ \A x \in Outputs : Sha(x, <<2, 0>>) \in Digest
  /\ \A x \in Claims : Sha(x.fields, x.codes) \in Digest
  /\ \A a, b \in {d \in Digest : \A k \in 1..Half : d[k] = 0} : Fr(a) = Fr(b) => a = b
  /\ Image \subseteq Digest /\ Journal \subseteq Digest
  /\ Execution \subseteq ExecutionType
  /\ Version \subseteq VersionType
  /\ \A p \in Version : p.ic = IC_LEN
  /\ \A p, q \in Version : p.root = q.root /\ p.vk = q.vk => p = q
  /\ None \notin Digest

VARIABLES
  proven,  \* history: version and run of every proof made
  seals    \* the seals around

vars == <<proven, seals>>

-----------------------------------------------------------------------------
(* What the prover does; it numbers the bytes of a digest from the low end. *)

Low(d) == [k \in 1..Size |-> IF k <= Half THEN 0 ELSE d[Size + 1 - k]]
High(d) == [k \in 1..Size |-> IF k <= Half THEN 0 ELSE d[Size + Half + 1 - k]]

Proof(p, e) ==
  LET d == Sha(<<TAG_CLAIM, e.input, e.pre, e.post, ClaimOf(e).output>>,
               <<e.system, 0, 0, 0, e.user, 0, 0, 0, 4, 0>>)
  IN  [vk |-> p.vk, signals |-> <<Fr(Low(p.root)), Fr(High(p.root)), Fr(Low(d)), Fr(High(d)), Fr(p.id)>>]

Reversed(d) == [k \in 1..Size |-> d[Size + 1 - k]]

(* compute_selector of the verifier's build script. *)
SELECTOR(p) == SubSeq(Sha(<<TAG_VERSION, p.root, Reversed(p.id), p.vk>>, <<3, 0>>), 1, SelectorSize)

(* A seal: selector, length, and what follows the selector: a proof, or the *)
(* digest a mock seal has in its place.                                     *)
Sealed(p, e) == [selector |-> SELECTOR(p), size |-> SEAL_SIZE, proof |-> Proof(p, e), digest |-> None]

MockSeal(d) == [selector |-> MockSelector, size |-> 4 + 32, proof |-> None, digest |-> d]

-----------------------------------------------------------------------------
(* The Groth16 verifier. *)

(* Mutant: the halves change places. *)
split_digest_swapped(d) ==
  LET bytes == Reversed(d) IN
  <<[k \in 1..Size |-> IF k <= Half THEN 0 ELSE bytes[k - Half]],
    [k \in 1..Size |-> IF k <= Half THEN 0 ELSE bytes[k]]>>

(* The digest reversed, and its halves padded to the left. *)
split_digest(d) ==
  LET bytes == Reversed(d) IN
  <<[k \in 1..Size |-> IF k <= Half THEN 0 ELSE bytes[k]],
    [k \in 1..Size |-> IF k <= Half THEN 0 ELSE bytes[k - Half]]>>

(* CONTROL_ROOT_0 and CONTROL_ROOT_1, padded. *)
control_root(p) == split_digest(p.root)

verify_proof(p, proof, signals) ==
  IF Len(signals) + 1 # p.ic THEN "MalformedPublicInputs"
  ELSE IF proof = [vk |-> p.vk, signals |-> signals] THEN "Ok" ELSE "InvalidProof"

(* Mutant: the selector stands in for the control root. *)
VerifyAnyRoot(p, seal, digest) ==
  IF seal.size # SEAL_SIZE THEN "MalformedSeal"
  ELSE IF seal.selector # SELECTOR(p) THEN "InvalidSelector"
  ELSE verify_proof(p, seal.proof, [seal.proof.signals EXCEPT
         ![3] = Fr(split_digest(digest)[1]), ![4] = Fr(split_digest(digest)[2])])

verify_integrity(p, seal, digest) ==
  IF seal.size # SEAL_SIZE THEN "MalformedSeal"
  ELSE IF seal.selector # SELECTOR(p) THEN "InvalidSelector"
  ELSE verify_proof(p, seal.proof,
         <<Fr(control_root(p)[1]), Fr(control_root(p)[2]),
           Fr(split_digest(digest)[1]), Fr(split_digest(digest)[2]), Fr(p.id)>>)

verify(p, seal, image, journal) == verify_integrity(p, seal, ClaimDigest(StandardClaim(image, journal)))

(* The mock verifier. *)
mock_verify_integrity(seal, digest) ==
  IF seal.size < 4 THEN "MalformedSeal"
  ELSE IF seal.selector # MockSelector THEN "InvalidSelector"
  ELSE IF seal.size = 4 + 32 /\ seal.digest = digest THEN "Ok" ELSE "InvalidProof"

mock_verify(seal, image, journal) == mock_verify_integrity(seal, ClaimDigest(StandardClaim(image, journal)))

-----------------------------------------------------------------------------
Init == proven = {} /\ seals = {}

Add(seal) ==
  /\ Cardinality(seals) < MaxSeals
  /\ seals' = seals \cup {seal}

(* A run is proved for one release of the proof system. *)
Prove(p, e) ==
  /\ Add(Sealed(p, e))
  /\ proven' = proven \cup {<<p, e>>}

(* mock_prove and mock_prove_claim. *)
MockProve(image, journal) ==
  /\ Add(MockSeal(ClaimDigest(StandardClaim(image, journal))))
  /\ UNCHANGED proven

(* On its way a seal gets another selector or another length. *)
Relabel(seal, l) ==
  /\ Add([seal EXCEPT !.selector = l])
  /\ UNCHANGED proven

Cut(seal) ==
  /\ \E n \in {3, SEAL_SIZE - 1} : n < seal.size /\ Add([seal EXCEPT !.size = n])
  /\ UNCHANGED proven

Next ==
  \/ \E p \in Version, e \in Execution : Prove(p, e)
  \/ \E i \in Image, j \in Journal : MockProve(i, j)
  \/ \E s \in seals : Cut(s) \/ \E l \in Label : Relabel(s, l)

Spec == Init /\ [][Next]_vars

-----------------------------------------------------------------------------
(* Properties. *)

(* Soundness of the encoding: a Groth16 verifier accepts a seal for an      *)
(* image and a journal only if a run of that image that halted with code 0, *)
(* with that journal and without assumptions, was proved under its own      *)
(* parameters.                                                              *)
AcceptedMeansProven ==
  \A p \in Version, seal \in seals, i \in Image, j \in Journal :
    verify(p, seal, i, j) = "Ok" => <<p, Success(i, j)>> \in proven

(* Completeness: an honest seal for a successful run passes, whatever order *)
(* of bytes and halves the prover uses.                                     *)
ProvenIsAccepted ==
  \A p \in Version, i \in Image, j \in Journal :
    <<p, Success(i, j)>> \in proven =>
      \E seal \in seals : verify(p, seal, i, j) = "Ok"

(* A seal says one thing to one verifier: relabelled or not, it is never    *)
(* accepted by two of them, the mock verifier included, or for two          *)
(* statements.                                                              *)
Verdicts(seal) ==
  {v \in Version \X Image \X Journal : verify(v[1], seal, v[2], v[3]) = "Ok"}
    \cup {v \in {None} \X Image \X Journal : mock_verify(seal, v[2], v[3]) = "Ok"}

SealSaysOneThing == \A seal \in seals : \A x, y \in Verdicts(seal) : x = y
=============================================================================
