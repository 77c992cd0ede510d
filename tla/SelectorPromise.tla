--------------------------- MODULE SelectorPromise ---------------------------
(***************************************************************************)
(* What the verifier stack promises an application that keeps the router's *)
(* address: a selector is judged by at most one verifier for ever, and     *)
(* once it is dead, because its verifier was removed or stopped, it stays  *)
(* dead.  No owner, guardian, wrapper or storage appears here.             *)
(***************************************************************************)
CONSTANTS Selector, Impl, None

VARIABLES
  judge,  \* the verifier that decides seals of each selector, None before there is one
  dead    \* selectors no seal is accepted for any more

vars == <<judge, dead>>

Init ==
  /\ judge = [s \in Selector |-> None]
  /\ dead = {}

(* Any number of selectors get their judge or die in one step, as when one  *)
(* wrapper serves several of them.                                          *)
Next ==
  /\ judge' \in [Selector -> Impl \cup {None}]
  /\ \A s \in Selector : judge[s] # None => judge'[s] = judge[s]
  /\ dead' \in SUBSET Selector
  /\ dead \subseteq dead'

Spec == Init /\ [][Next]_vars
=============================================================================
