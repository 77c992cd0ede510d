---------------------------- MODULE ReceiptClaim ----------------------------
(***************************************************************************)
(* The verifier interface, reference-verifier/contracts/interface: what a  *)
(* claim about a guest run is and which digest stands for it.  A digest is *)
(* a sequence of 2 * Half bytes, first byte first.                         *)
(***************************************************************************)
EXTENDS Integers, Sequences

CONSTANTS
  Byte,        \* byte values
  Half,        \* bytes in half a digest
  Sha(_, _),   \* SHA-256 of a sequence of digests and further bytes
  TAG_OUTPUT,  \* Output::TAG_DIGEST
  TAG_CLAIM,   \* ReceiptClaim::TAG_DIGEST
  HALTED       \* POST_STATE_DIGEST_HALTED

Size == 2 * Half
Digest == [1..Size -> Byte]
ZERO == [k \in 1..Size |-> 0]

ASSUME ClaimAssumption ==
  /\ Half \in Nat \ {0}
  /\ 0 \in Byte
  /\ HALTED \in Digest

SystemExitCode == 0..2  \* Halted, Paused, SystemSplit

(* ReceiptClaim; of the user's exit code only the byte that is hashed. *)
ClaimType ==
  [pre : Digest, post : Digest, system : SystemExitCode, user : Byte, input : Digest, output : Digest]

(* Output::digest. *)
OutputDigest(journal, assumptions) == Sha(<<TAG_OUTPUT, journal, assumptions>>, <<2, 0>>)

(* ReceiptClaim::digest. *)
ClaimDigest(c) ==
  Sha(<<TAG_CLAIM, c.input, c.pre, c.post, c.output>>, <<c.system, 0, 0, 0, c.user, 0, 0, 0, 4, 0>>)

(* ReceiptClaim::new: the claim of a run that halted with code 0, without   *)
(* input or assumptions.                                                    *)
StandardClaim(image, journal) ==
  [pre |-> image, post |-> HALTED, system |-> 0, user |-> 0, input |-> ZERO,
   output |-> OutputDigest(journal, ZERO)]
=============================================================================
