---------------------------- MODULE CreditPromise ----------------------------
(***************************************************************************)
(* What the lender contract promises, with no admin, journal or proof in   *)
(* it: terms fixed once, and for every nullifier at most one payment of    *)
(* exactly the agreed amount to one borrower, out of money that was paid   *)
(* in before.  Nothing else ever takes money out.                          *)
(***************************************************************************)
EXTENDS Integers

CONSTANTS Address, Nullifier, None

VARIABLES
  terms,    \* the fixed credit amount, None until the lender opens
  paidTo,   \* who was paid for each nullifier, None if nobody
  pot       \* the money available to lend

vars == <<terms, paidTo, pot>>

Init ==
  /\ terms = None
  /\ paidTo = [n \in Nullifier |-> None]
  /\ pot = 0

Open ==
  /\ terms = None
  /\ terms' \in Nat \ {0}
  /\ UNCHANGED <<paidTo, pot>>

Deposit ==
  /\ pot' \in Nat
  /\ pot' > pot
  /\ UNCHANGED <<terms, paidTo>>

Pay(n, borrower) ==
  /\ terms # None
  /\ paidTo[n] = None
  /\ pot >= terms
  /\ paidTo' = [paidTo EXCEPT ![n] = borrower]
  /\ pot' = pot - terms
  /\ UNCHANGED terms

Next ==
  \/ Open
  \/ Deposit
  \/ \E n \in Nullifier, borrower \in Address : Pay(n, borrower)

Spec == Init /\ [][Next]_vars
=============================================================================
