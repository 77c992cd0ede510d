------------------------------- MODULE Ownable -------------------------------
(***************************************************************************)
(* The Ownable trait of stellar_access, an external library, as the router *)
(* and the emergency stop use it: one owner per contract, a two-step       *)
(* transfer whose offer lapses by itself, and renouncing for good.         *)
(***************************************************************************)
CONSTANTS
  Contract,  \* the contracts that have an owner
  Account,   \* who may own: accounts and governance contracts
  None

VARIABLES
  owner,         \* the owner of each contract, None before construction or once renounced
  pendingOwner   \* the account an ownership transfer is offered to

ownership == <<owner, pendingOwner>>

OwnableTypeOK ==
  /\ owner \in [Contract -> Account \cup {None}]
  /\ pendingOwner \in [Contract -> Account \cup {None}]

(* Mutant: the owner need not have signed. *)
OwnedBySomebody(caller, c) == owner[c] # None

(* enforce_owner_auth in a transaction signed by caller. *)
OwnerSigned(caller, c) == owner[c] # None /\ caller = owner[c]

TransferOwnership(caller, c, a) ==
  /\ OwnerSigned(caller, c)
  /\ pendingOwner' = [pendingOwner EXCEPT ![c] = a]
  /\ UNCHANGED owner

AcceptOwnership(caller, c) ==
  /\ pendingOwner[c] # None
  /\ caller = pendingOwner[c]
  /\ owner' = [owner EXCEPT ![c] = caller]
  /\ pendingOwner' = [pendingOwner EXCEPT ![c] = None]

(* Mutant: an offer survives its owner. *)
RenounceLeavingOffer(caller, c) ==
  /\ OwnerSigned(caller, c)
  /\ owner' = [owner EXCEPT ![c] = None]
  /\ UNCHANGED pendingOwner

(* Refused while a transfer is on offer. *)
RenounceOwnership(caller, c) ==
  /\ OwnerSigned(caller, c)
  /\ pendingOwner[c] = None
  /\ owner' = [owner EXCEPT ![c] = None]
  /\ UNCHANGED pendingOwner

(* The offer's temporary entry reaches its last ledger. *)
OfferLapses(c) ==
  /\ pendingOwner[c] # None
  /\ pendingOwner' = [pendingOwner EXCEPT ![c] = None]
  /\ UNCHANGED owner
=============================================================================
