---------------------------- MODULE VerifierStack ----------------------------
(***************************************************************************)
(* Router, emergency stops and Groth16 verifiers together: what an         *)
(* application such as the lender sees when it calls the router's verify.  *)
(* verify reads and forwards; it changes no state but TTLs, so it is a     *)
(* predicate, RouterVerifies, over the state.                              *)
(***************************************************************************)
EXTENDS VerifierRouter, EmergencyStop

ASSUME StackAssumption ==
  /\ Verifier = Wrapper \cup Impl
  /\ Wrapper \cap Impl = {}
  /\ Router \notin Wrapper
  /\ Seal \subseteq SealType(Selector)
  /\ OwnSelector \in [Impl -> Selector]

VARIABLE signer   \* history: who signed the last call, None when nobody had to

stackVars == <<ownership, entry, lapsed, route, wrapped, paused, signer>>

Init == RouterInit /\ StopInit /\ signer = None

(* RiscZeroVerifierRouter::verify. *)
RouterVerifies(s) ==
  LET v == ActiveVerifier(s.selector) IN
    \/ v \in Wrapper /\ WrapperVerifies(v, s)
    \/ v \in Impl /\ ImplVerifies(v, s)

OwnerCall(caller) ==
  \E c \in Contract :
    \/ \E a \in Account : TransferOwnership(caller, c, a)
    \/ AcceptOwnership(caller, c)
    \/ RenounceOwnership(caller, c)

RouterCall(caller) ==
  \E s \in Selector :
    \/ \E v \in Verifier : AddVerifier(caller, s, v)
    \/ RemoveVerifier(caller, s)

StopCall(caller) ==
  \E w \in Wrapper : Estop(caller, w) \/ \E s \in Seal : EstopWithReceipt(caller, w, s)

(* What happens without a signature anyone checks. *)
Unsigned ==
  \/ (\E c \in Contract : OfferLapses(c)) /\ UNCHANGED <<entry, lapsed, route, wrapped, paused>>
  \/ (\E s \in Selector : ArchiveEntry(s) \/ RestoreEntry(s)) /\ UNCHANGED <<wrapped, paused>>
  \/ /\ \E w \in Wrapper, i \in Impl, g \in Account : ConstructWrapper(w, i, g)
     /\ UNCHANGED <<entry, lapsed, route>>

Next ==
  \/ /\ Unsigned
     /\ signer' = None
  \/ \E caller \in Account :
       /\ \/ OwnerCall(caller) /\ UNCHANGED <<entry, lapsed, route, wrapped, paused>>
          \/ RouterCall(caller) /\ UNCHANGED <<wrapped, paused>>
          \/ StopCall(caller) /\ UNCHANGED <<entry, lapsed, route>>
       /\ signer' = caller

Spec == Init /\ [][Next]_stackVars

-----------------------------------------------------------------------------
(* Properties. *)

(* A selector that can never verify again: tombstoned, or routed to a       *)
(* wrapper that was stopped.                                                *)
Dead(s) == entry[s] = Tombstone \/ (entry[s] \in Wrapper /\ paused[entry[s]])

(* A stop is final for the application: a dead selector stays dead whatever *)
(* owners, guardians and archival do afterwards, and the router accepts no  *)
(* seal for it, by no route.                                                *)
StopIsFinal ==
  [][\A s \in Selector : Dead(s) => Dead(s)' /\ \A x \in Seal : x.selector = s => ~RouterVerifies(x)']_stackVars

(* Nobody but its guardian stops a wrapper whose verifier is sound: a       *)
(* receipt can do it only where the proof system is in fact broken.         *)
HealthyStoppedByGuardian ==
  [][\A w \in Wrapper : paused'[w] /\ ~paused[w] => signer' = owner[w] \/ wrapped[w] \in Broken]_stackVars

(* A renounced router is frozen: no owner ever again, no entry changed.     *)
RenouncedForever ==
  [][owner[Router] = None => owner'[Router] = None /\ entry' = entry]_stackVars

(* How the states of the stack fit together: the entry in force is the one  *)
(* first given, an ownerless contract has no transfer on offer, and only a  *)
(* constructed wrapper is stopped.                                          *)
Bookkeeping ==
  /\ \A s \in Selector :
       /\ entry[s] \in Verifier => route[s] = entry[s]
       /\ entry[s] = Unset <=> route[s] = None
  /\ \A c \in Contract : owner[c] = None => pendingOwner[c] = None
  /\ \A w \in Wrapper : wrapped[w] = None => owner[w] = None /\ ~paused[w]

TypeOK ==
  /\ OwnableTypeOK
  /\ RouterTypeOK
  /\ StopTypeOK
  /\ signer \in Account \cup {None}

(* The inductive invariant of LenderSystemProofs. *)
IInv == TypeOK /\ Bookkeeping

(* The verifier behind the route a selector was given. *)
JudgeOf(s) ==
  CASE route[s] \in Wrapper -> wrapped[route[s]]
    [] route[s] \in Impl    -> route[s]
    [] OTHER                -> None

(* The stack implements SelectorPromise. *)
Promise == INSTANCE SelectorPromise WITH
  judge <- [s \in Selector |-> JudgeOf(s)],
  dead  <- {s \in Selector : Dead(s)}

ImplementsPromise == Promise!Spec
=============================================================================
