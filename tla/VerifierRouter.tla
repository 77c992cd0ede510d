--------------------------- MODULE VerifierRouter ---------------------------
(***************************************************************************)
(* The verifier router, reference-verifier/contracts/risc0-router: which   *)
(* verifier answers for each selector.  Calls that fail a check roll back  *)
(* and are stuttering steps.                                               *)
(***************************************************************************)
EXTENDS Ownable

CONSTANTS
  Router,    \* the router's own address
  Selector,  \* the 4-byte seal prefixes
  Verifier,  \* addresses that may be registered
  Unset,     \* no entry
  Tombstone  \* VerifierEntry::Tombstone

ASSUME RouterAssumption ==
  /\ Router \in Contract
  /\ Unset \notin Verifier
  /\ Tombstone \notin Verifier
  /\ Unset # Tombstone
  /\ None \notin Account
  /\ None \notin Verifier

VARIABLES
  entry,    \* DataKey::Verifier(selector)
  lapsed,   \* selectors whose entry the host archived
  route     \* history: the verifier each selector was first given

Entries == {Unset, Tombstone} \cup Verifier

RouterTypeOK ==
  /\ entry \in [Selector -> Entries]
  /\ lapsed \subseteq Selector
  /\ route \in [Selector -> Verifier \cup {None}]

(* The constructor runs in the transaction that deploys the router. *)
RouterInit ==
  /\ \E o \in Account : owner = [c \in Contract |-> IF c = Router THEN o ELSE None]
  /\ pendingOwner = [c \in Contract |-> None]
  /\ entry = [s \in Selector |-> Unset]
  /\ lapsed = {}
  /\ route = [s \in Selector |-> None]

(* Mutant: entries in storage that forgets, so that a lapsed one is unset. *)
AddVerifierOverLapsed(caller, s, v) ==
  /\ OwnerSigned(caller, Router)
  /\ s \in lapsed \/ entry[s] = Unset
  /\ entry' = [entry EXCEPT ![s] = v]
  /\ route' = [route EXCEPT ![s] = v]
  /\ UNCHANGED <<ownership, lapsed>>

AddVerifier(caller, s, v) ==
  /\ OwnerSigned(caller, Router)
  /\ s \notin lapsed
  /\ entry[s] = Unset
  /\ entry' = [entry EXCEPT ![s] = v]
  /\ route' = [route EXCEPT ![s] = v]
  /\ UNCHANGED <<ownership, lapsed>>

(* Removing twice is allowed and changes nothing. *)
RemoveVerifier(caller, s) ==
  /\ OwnerSigned(caller, Router)
  /\ s \notin lapsed
  /\ entry[s] # Unset
  /\ entry' = [entry EXCEPT ![s] = Tombstone]
  /\ UNCHANGED <<ownership, lapsed, route>>

(* get_verifier: the address a selector resolves to now, None if the call reverts. *)
ActiveVerifier(s) == IF s \notin lapsed /\ entry[s] \in Verifier THEN entry[s] ELSE None

(* The host archives an entry nobody read for 90 days, and brings it back.  *)
ArchiveEntry(s) ==
  /\ entry[s] # Unset
  /\ s \notin lapsed
  /\ lapsed' = lapsed \cup {s}
  /\ UNCHANGED <<ownership, entry, route>>

RestoreEntry(s) ==
  /\ s \in lapsed
  /\ lapsed' = lapsed \ {s}
  /\ UNCHANGED <<ownership, entry, route>>
=============================================================================
