---------------------------- MODULE MCGovernance ----------------------------
(***************************************************************************)
(* A small governed router: one selector for two verifiers, wanted by two  *)
(* operations of which one is a batch; a removal; a change of owner.       *)
(***************************************************************************)
EXTENDS Governance, TLC

CONSTANTS a1, a2, swap, rival, leave, faster, router, s1, s2, v1, v2

Add(s, v) == [fn |-> "add_verifier", selector |-> s, verifier |-> v]
Remove(s) == [fn |-> "remove_verifier", selector |-> s]
HandOver(a) == [fn |-> "transfer_ownership", account |-> a]
Accept == [fn |-> "accept_ownership"]
Elsewhere == [fn |-> "other"]

MCCalls == [op \in External |->
  CASE op = swap  -> <<Add(s1, v1), Elsewhere, Remove(s2)>>
    [] op = rival -> <<Add(s1, v2), Add(s2, v2)>>
    [] op = leave -> <<HandOver(a2), Remove(s1)>>]

MCPred == [op \in Op |-> IF op = swap THEN faster ELSE None]

MCSelfCall == [op \in SelfOp |-> [fn |-> "update_delay", delay |-> 0]]

MCDirectCall == {}

MCAccountCall == {Accept, Remove(s1), [fn |-> "renounce_ownership"]}

MCDeployment == {[min_delay |-> 1, proposers |-> {a1}, executors |-> {a2}, admin |-> None]}
=============================================================================
