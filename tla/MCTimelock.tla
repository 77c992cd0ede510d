----------------------------- MODULE MCTimelock -----------------------------
(***************************************************************************)
(* A small timelock: two accounts; a router operation that waits for one   *)
(* of the timelock's own, which change the delay and hand the admin over;  *)
(* and what an admin may do directly.                                      *)
(***************************************************************************)
EXTENDS Timelock, TLC

CONSTANTS a1, a2, first, faster, promote

MCPred == [op \in Op |-> IF op = first THEN promote ELSE None]

SetDelay(d) == [fn |-> "update_delay", delay |-> d]
Grant(r, a) == [fn |-> "grant_role", role |-> r, account |-> a]
Revoke(r, a) == [fn |-> "revoke_role", role |-> r, account |-> a]
Transfer(a) == [fn |-> "transfer_admin_role", account |-> a]
Renounce == [fn |-> "renounce_admin"]
Rule(r, b) == [fn |-> "set_role_admin", role |-> r, by |-> b]

MCSelfCall == [op \in SelfOp |->
  CASE op = faster -> SetDelay(0)
    [] OTHER       -> Transfer(a2)]

MCDirectCall == {Grant("canceller", a2), Revoke("proposer", a1), SetDelay(1), Renounce, Rule("proposer", "canceller")}

\* One proposer; with or without executor and bootstrap admin.
MCDeployment ==
  {[min_delay |-> 1, proposers |-> {a1}, executors |-> e, admin |-> b] : e \in {{}, {a2}}, b \in {a2, None}}
=============================================================================
