----------------------------- MODULE Governance -----------------------------
(***************************************************************************)
(* The timelock as the router's owner: an operation, single or batch, is   *)
(* marked done and then makes its calls on the router one by one.  The     *)
(* host runs one transaction at a time and undoes one that fails.          *)
(***************************************************************************)
EXTENDS Timelock, Sequences

CONSTANTS
  Router,
  Selector, Verifier, Unset, Tombstone,  \* as in VerifierRouter
  Calls,       \* [External -> sequences of RouterCall]: the calls in the hash
  AccountCall  \* the router calls that accounts make themselves

RouterCall ==
  [fn : {"add_verifier"}, selector : Selector, verifier : Verifier]
    \cup [fn : {"remove_verifier"}, selector : Selector]
    \cup [fn : {"transfer_ownership"}, account : Account]
    \cup [fn : {"accept_ownership", "renounce_ownership"}]
    \cup [fn : {"other"}]  \* a function of another contract

(* A transaction under way: the operation, the number of its next call, and *)
(* the state to undo it to.                                                 *)
TxType ==
  [op : External, at : Nat \ {0}, ready : [Op -> Nat], doneAt : [Op -> Nat],
   owner : [{Router} -> Account \cup {Self, None}], pendingOwner : [{Router} -> Account \cup {Self, None}],
   entry : [Selector -> Verifier \cup {Unset, Tombstone}], lapsed : SUBSET Selector,
   route : [Selector -> Verifier \cup {None}]]

ASSUME GovernanceAssumption ==
  /\ Calls \in [External -> Seq(RouterCall)]
  /\ AccountCall \subseteq RouterCall
  /\ Unset \notin Verifier /\ Tombstone \notin Verifier /\ Unset # Tombstone
  /\ None \notin Verifier \cup TxType

VARIABLES
  owner, pendingOwner, entry, lapsed, route,  \* the router, see VerifierRouter
  tx       \* the execution under way and what to undo it to, None between transactions

routerVars == <<owner, pendingOwner, entry, lapsed, route>>
vars == <<timelockVars, routerVars, tx>>

R == INSTANCE VerifierRouter WITH Contract <- {Router}, Account <- Account \cup {Self}

(* The operator's deployment makes the timelock the owner of the router. *)
GovernanceInit ==
  /\ Init
  /\ R!RouterInit
  /\ owner[Router] = Self
  /\ tx = None

(* One call on the router or elsewhere, where it does not fail. *)
Call(caller, c) ==
  \/ c.fn = "add_verifier" /\ R!AddVerifier(caller, c.selector, c.verifier)
  \/ c.fn = "remove_verifier" /\ R!RemoveVerifier(caller, c.selector)
  \/ /\ \/ c.fn = "transfer_ownership" /\ R!TransferOwnership(caller, Router, c.account)
        \/ c.fn = "accept_ownership" /\ R!AcceptOwnership(caller, Router)
        \/ c.fn = "renounce_ownership" /\ R!RenounceOwnership(caller, Router)
     /\ UNCHANGED <<entry, lapsed, route>>
  \/ c.fn = "other" /\ UNCHANGED routerVars

Snapshot(op) ==
  [op |-> op, at |-> 1, ready |-> ready, doneAt |-> doneAt, owner |-> owner,
   pendingOwner |-> pendingOwner, entry |-> entry, lapsed |-> lapsed, route |-> route]

(* Mutant: the operation need not be ready. *)
BeginEarly(caller, op) ==
  /\ op \in External
  /\ MayExecute(caller)
  /\ IsPending(op)
  /\ ready' = [ready EXCEPT ![op] = DONE]
  /\ doneAt' = [doneAt EXCEPT ![op] = now]
  /\ tx' = Snapshot(op)
  /\ UNCHANGED <<power, now, noticeEnds, routerVars>>

(* execute_op and execute_batch, up to the first call. *)
Begin(caller, op) ==
  /\ op \in External
  /\ MayExecute(caller)
  /\ MarkDone(op)
  /\ tx' = Snapshot(op)
  /\ UNCHANGED <<power, routerVars>>

(* The loop over the calls, signed by the timelock as their invoker. *)
CallNext ==
  /\ tx.at <= Len(Calls[tx.op])
  /\ Call(Self, Calls[tx.op][tx.at])
  /\ tx' = [tx EXCEPT !.at = @ + 1]
  /\ UNCHANGED timelockVars

Commit ==
  /\ tx.at > Len(Calls[tx.op])
  /\ tx' = None
  /\ UNCHANGED <<timelockVars, routerVars>>

(* Mutant: what the calls did is undone, the mark is not. *)
RevertCallsOnly ==
  /\ tx' = None
  /\ owner' = tx.owner /\ pendingOwner' = tx.pendingOwner
  /\ entry' = tx.entry /\ lapsed' = tx.lapsed /\ route' = tx.route
  /\ UNCHANGED timelockVars

(* A call is refused, another contract fails or the budget is used up. *)
Revert ==
  /\ tx' = None
  /\ ready' = tx.ready /\ doneAt' = tx.doneAt
  /\ owner' = tx.owner /\ pendingOwner' = tx.pendingOwner
  /\ entry' = tx.entry /\ lapsed' = tx.lapsed /\ route' = tx.route
  /\ UNCHANGED <<power, now, noticeEnds>>

(* Everything the timelock does but execute. *)
TimelockStep ==
  \/ \E caller \in Account, op \in Op :
       \/ \E delay \in Delay : Schedule(caller, op, delay)
       \/ Cancel(caller, op)
       \/ SelfExecute(caller, op)
  \/ \E caller \in Account :
       \/ \E c \in DirectCall : Administer(caller, c)
       \/ \E r \in Role : RenounceRole(caller, r)
       \/ AcceptAdminTransfer(caller)
  \/ OfferLapses
  \/ Tick

(* What reaches the router without the timelock. *)
RouterStep ==
  \/ \E caller \in Account, c \in AccountCall : Call(caller, c)
  \/ R!OfferLapses(Router) /\ UNCHANGED <<entry, lapsed, route>>
  \/ \E s \in Selector : R!ArchiveEntry(s) \/ R!RestoreEntry(s)

GovernanceNext ==
  \/ /\ tx = None
     /\ \/ TimelockStep /\ UNCHANGED <<routerVars, tx>>
        \/ RouterStep /\ UNCHANGED <<timelockVars, tx>>
        \/ \E caller \in Account, op \in Op : Begin(caller, op)
  \/ tx # None /\ (CallNext \/ Commit \/ Revert)

GovernanceSpec == GovernanceInit /\ [][GovernanceNext]_vars

-----------------------------------------------------------------------------
(* Properties.  What others see during a transaction is the state before it. *)

Committed(field, value) == IF tx = None THEN value ELSE tx[field]

(* What a call leaves behind for good. *)
InForce(c, own, ent, rt) ==
  CASE c.fn = "add_verifier"       -> rt[c.selector] = c.verifier
    [] c.fn = "remove_verifier"    -> ent[c.selector] = Tombstone
    [] c.fn = "renounce_ownership" -> own[Router] = None
    [] OTHER                       -> TRUE

AllInForce(rdy, own, ent, rt) ==
  \A op \in External : rdy[op] = DONE => \A k \in DOMAIN Calls[op] : InForce(Calls[op][k], own, ent, rt)

(* An operation that reads as done has taken effect with every one of its   *)
(* calls, and no later operation, owner or rollback takes that back.  Of    *)
(* two operations that give one selector to different verifiers at most one *)
(* is ever done.                                                            *)
DoneMeansApplied == tx = None => AllInForce(ready, owner, entry, route)

(* While the timelock owns the router, a selector's entry changes only by   *)
(* an operation that names the selector and was on display for its notice.  *)
RouterGoverned ==
  [][\A s \in Selector :
       Committed("entry", entry)'[s] # Committed("entry", entry)[s] /\ Committed("owner", owner)[Router] = Self =>
         \E op \in External :
           /\ Committed("ready", ready)[op] > DONE /\ IsDone(op)'
           /\ noticeEnds[op] <= now
           /\ \E k \in DOMAIN Calls[op] :
                Calls[op][k].fn \in {"add_verifier", "remove_verifier"} /\ Calls[op][k].selector = s]_vars

(* A frozen timelock that owns the router, with no transfer on offer,       *)
(* freezes the router with it: no selector is ever given or removed again.  *)
RouterFrozen == tx = None /\ Frozen /\ owner[Router] = Self /\ pendingOwner[Router] = None

RouterFrozenToo == [][RouterFrozen => RouterFrozen' /\ entry' = entry]_vars

(* Call by call, with rollback, this is still the timelock whose execute is *)
(* one step.                                                                *)
T == INSTANCE Timelock WITH ready <- Committed("ready", ready), doneAt <- Committed("doneAt", doneAt)

ImplementsTimelock == T!Spec

(* And the router it owns goes on keeping what an application relies on:    *)
(* a batch that is rolled back, a rival operation or a later owner moves no *)
(* selector to another verifier and revives none that was removed.          *)
Promise == INSTANCE SelectorPromise WITH
  Impl  <- Verifier,
  judge <- Committed("route", route),
  dead  <- {s \in Selector : Committed("entry", entry)[s] = Tombstone}

ImplementsPromise == Promise!Spec
=============================================================================
