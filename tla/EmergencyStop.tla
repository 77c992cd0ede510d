---------------------------- MODULE EmergencyStop ----------------------------
(***************************************************************************)
(* The emergency-stop wrapper, reference-verifier/contracts/emergency-stop,*)
(* for a set of wrappers, and the verifiers behind them as far as the      *)
(* wrapper depends on them.  The owner of a wrapper is its guardian.       *)
(***************************************************************************)
EXTENDS Ownable

CONSTANTS
  Wrapper,    \* emergency-stop contracts
  Impl,       \* the Groth16 verifiers, one per version of the parameters
  OwnSelector,\* [Impl -> selectors]: the selector each verifier was built with
  Broken,     \* verifiers whose proof system turned out to be unsound
  Seal        \* what can be submitted

(* A seal: its first four bytes, whether it has the 260 bytes of a Groth16  *)
(* seal, whether a real execution stands behind it, and whether the claim   *)
(* it is submitted with is the all-zero digest.                             *)
SealType(S) == [selector : S, full : BOOLEAN, genuine : BOOLEAN, zero : BOOLEAN]

ASSUME StopAssumption ==
  /\ Wrapper \subseteq Contract
  /\ Broken \subseteq Impl
  /\ None \notin Impl
  /\ \A s \in Seal : ~(s.genuine /\ s.zero)

VARIABLES
  wrapped,  \* DataKey::Verifier of each wrapper, None before its constructor ran
  paused    \* the Pausable flag of each wrapper

StopTypeOK ==
  /\ wrapped \in [Wrapper -> Impl \cup {None}]
  /\ paused \in [Wrapper -> BOOLEAN]

StopInit ==
  /\ wrapped = [w \in Wrapper |-> None]
  /\ paused = [w \in Wrapper |-> FALSE]

(* Groth16 verify_integrity: selector, length, then the pairing check, which *)
(* only a broken proof system passes without an execution.                   *)
ImplVerifies(i, s) ==
  /\ s.selector = OwnSelector[i]
  /\ s.full
  /\ s.genuine \/ i \in Broken

(* Mutant: the wrapper forwards without looking at the flag. *)
WrapperForwards(w, s) ==
  /\ wrapped[w] # None
  /\ ImplVerifies(wrapped[w], s)

(* verify and verify_integrity of the wrapper. *)
WrapperVerifies(w, s) ==
  /\ ~paused[w]
  /\ wrapped[w] # None
  /\ ImplVerifies(wrapped[w], s)

ConstructWrapper(w, i, guardian) ==
  /\ wrapped[w] = None
  /\ wrapped' = [wrapped EXCEPT ![w] = i]
  /\ owner' = [owner EXCEPT ![w] = guardian]
  /\ UNCHANGED <<pendingOwner, paused>>

(* estop, and pause with the owner as caller: the same checks and effect. *)
Estop(caller, w) ==
  /\ wrapped[w] # None
  /\ OwnerSigned(caller, w)
  /\ ~paused[w]
  /\ paused' = [paused EXCEPT ![w] = TRUE]
  /\ UNCHANGED <<ownership, wrapped>>

(* Mutant: any receipt stops the wrapper, exploit or not. *)
EstopWithAnyReceipt(caller, w, s) ==
  /\ WrapperVerifies(w, s)
  /\ paused' = [paused EXCEPT ![w] = TRUE]
  /\ UNCHANGED <<ownership, wrapped>>

(* Anyone stops a wrapper with a receipt for the zero claim digest that its *)
(* verifier accepts.                                                        *)
EstopWithReceipt(caller, w, s) ==
  /\ s.zero
  /\ WrapperVerifies(w, s)
  /\ paused' = [paused EXCEPT ![w] = TRUE]
  /\ UNCHANGED <<ownership, wrapped>>
=============================================================================
