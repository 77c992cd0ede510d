---------------------------- MODULE ReviewBoard ----------------------------
(***************************************************************************)
(* What the timelock promises those who watch it: an operation is on       *)
(* display with a due date that never moves, it is withdrawn or performed, *)
(* never before it is due or before its predecessor, and never twice.  No  *)
(* role, caller or storage encoding appears here.                          *)
(***************************************************************************)
EXTENDS Integers

CONSTANTS Item, Pred, None

VARIABLES
  clock,
  due,        \* the due date of each item on display, None of the others
  performed   \* the items carried out

vars == <<clock, due, performed>>

Init ==
  /\ clock \in Nat
  /\ due = [i \in Item |-> None]
  /\ performed = {}

Announce(i) ==
  /\ due[i] = None
  /\ i \notin performed
  /\ due'[i] \in Nat /\ due'[i] >= clock
  /\ due' = [due EXCEPT ![i] = due'[i]]
  /\ UNCHANGED <<clock, performed>>

Withdraw(i) ==
  /\ due[i] # None
  /\ due' = [due EXCEPT ![i] = None]
  /\ UNCHANGED <<clock, performed>>

Carry(i) ==
  /\ due[i] # None
  /\ due[i] <= clock
  /\ Pred[i] # None => Pred[i] \in performed
  /\ due' = [due EXCEPT ![i] = None]
  /\ performed' = performed \cup {i}
  /\ UNCHANGED clock

Next ==
  \/ \E i \in Item : Announce(i) \/ Withdraw(i) \/ Carry(i)
  \/ clock' = clock + 1 /\ UNCHANGED <<due, performed>>

Spec == Init /\ [][Next]_vars
=============================================================================
