------------------------------ MODULE Timelock ------------------------------
(***************************************************************************)
(* The timelock controller, reference-verifier/contracts/timelock: roles,  *)
(* delayed operations and self-administration.  An operation is its id;    *)
(* what the id is the hash of (calls, predecessor, salt) is constant.      *)
(* Calls that fail a check roll back and are stuttering steps.             *)
(***************************************************************************)
EXTENDS Integers

CONSTANTS
  Account,    \* who may hold roles
  Self,       \* the timelock's own address
  None,
  Op,         \* operation ids, single or batch
  External,   \* those all of whose targets are other contracts
  SelfOp,     \* single operations that target the timelock
  Pred,       \* [Op -> Op \cup {None}]: the predecessor in the hash
  SelfCall,   \* [SelfOp -> CallType]: the call in the hash
  DirectCall, \* the calls an admin or role admin may make itself
  Delay,      \* the delays proposers ask for
  Deployment, \* arguments the constructor may get
  Genesis,    \* the ledger's time at deployment
  MaxTime     \* bound on the ledger's time in TLC runs

Role == {"proposer", "executor", "canceller", "bootstrap"}

UNSET == 0
DONE == 1  \* DONE_TIMESTAMP

DeploymentType ==
  [min_delay : Nat, proposers : SUBSET Account, executors : SUBSET Account, admin : Account \cup {None}]

CallType ==
  [fn : {"update_delay"}, delay : Nat]
    \cup [fn : {"grant_role", "revoke_role"}, role : Role, account : Account]
    \cup [fn : {"set_role_admin"}, role : Role, by : Role]
    \cup [fn : {"transfer_admin_role"}, account : Account]
    \cup [fn : {"renounce_admin"}]

ASSUME TimelockAssumption ==
  /\ Self \notin Account
  /\ None \notin Account \cup Op \cup Role \cup Nat \cup {Self}
  /\ External \subseteq Op
  /\ SelfOp \subseteq Op \ External
  /\ Pred \in [Op -> Op \cup {None}]
  /\ SelfCall \in [SelfOp -> CallType]
  /\ DirectCall \subseteq CallType
  /\ Delay \subseteq Nat
  /\ Deployment \subseteq DeploymentType
  /\ Genesis \in Nat /\ Genesis > DONE
  /\ MaxTime \in Nat

VARIABLES
  minDelay,     \* get_min_delay
  role,         \* the members of each role
  roleAdmin,    \* the role that may grant and revoke a role, None if only the admin may
  admin,        \* Self, an account after a transfer, None once renounced
  pendingAdmin, \* whom the admin role is offered to
  ready,        \* TimelockStorageKey::Timestamp of each operation, UNSET if absent
  now,          \* the ledger's timestamp
  noticeEnds,   \* history: when the notice due at its last scheduling was over
  doneAt        \* history: when each operation was executed

power == <<minDelay, role, roleAdmin, admin, pendingAdmin>>
operations == <<ready, noticeEnds, doneAt>>
timelockVars == <<power, operations, now>>

TypeOK ==
  /\ minDelay \in Nat
  /\ role \in [Role -> SUBSET Account]
  /\ roleAdmin \in [Role -> Role \cup {None}]
  /\ admin \in Account \cup {Self, None}
  /\ pendingAdmin \in Account \cup {None}
  /\ ready \in [Op -> Nat]
  /\ now \in Nat
  /\ noticeEnds \in [Op -> Nat]
  /\ doneAt \in [Op -> Nat]

(* __constructor: proposers are cancellers too, and with a bootstrap admin *)
(* its role manages the other three.                                       *)
Init ==
  /\ \E d \in Deployment :
       /\ minDelay = d.min_delay
       /\ role = [r \in Role |->
            CASE r = "executor"  -> d.executors
              [] r = "bootstrap" -> {d.admin} \ {None}
              [] OTHER           -> d.proposers]
       /\ roleAdmin = [r \in Role |-> IF d.admin # None /\ r # "bootstrap" THEN "bootstrap" ELSE None]
  /\ admin = Self
  /\ pendingAdmin = None
  /\ ready = [op \in Op |-> UNSET]
  /\ now = Genesis
  /\ noticeEnds = [op \in Op |-> 0]
  /\ doneAt = [op \in Op |-> 0]

IsPending(op) == ready[op] > DONE
IsReady(op) == IsPending(op) /\ ready[op] <= now
IsDone(op) == ready[op] = DONE

(* Mutant: a pending operation may be scheduled anew. *)
ScheduleIdAgain(op, delay) ==
  /\ ~IsDone(op)
  /\ delay >= minDelay
  /\ ready' = [ready EXCEPT ![op] = now + delay]
  /\ noticeEnds' = [noticeEnds EXCEPT ![op] = now + minDelay]

(* Mutant: the minimum delay is not enforced. *)
ScheduleIdAtOnce(op, delay) ==
  /\ ready[op] = UNSET
  /\ ready' = [ready EXCEPT ![op] = now + delay]
  /\ noticeEnds' = [noticeEnds EXCEPT ![op] = now + minDelay]

(* schedule_operation_id_inner. *)
ScheduleId(op, delay) ==
  /\ ready[op] = UNSET
  /\ delay >= minDelay
  /\ ready' = [ready EXCEPT ![op] = now + delay]
  /\ noticeEnds' = [noticeEnds EXCEPT ![op] = now + minDelay]

(* Mutant: cancellers schedule. *)
ScheduleByCanceller(canceller, op, delay) ==
  /\ canceller \in role["canceller"]
  /\ ScheduleId(op, delay)
  /\ UNCHANGED <<power, now, doneAt>>

(* schedule_op and schedule_batch. *)
Schedule(proposer, op, delay) ==
  /\ proposer \in role["proposer"]
  /\ ScheduleId(op, delay)
  /\ UNCHANGED <<power, now, doneAt>>

(* Mutant: a done operation may be cancelled. *)
CancelScheduled(canceller, op) ==
  /\ canceller \in role["canceller"]
  /\ ready[op] # UNSET
  /\ ready' = [ready EXCEPT ![op] = UNSET]
  /\ UNCHANGED <<power, now, noticeEnds, doneAt>>

Cancel(canceller, op) ==
  /\ canceller \in role["canceller"]
  /\ IsPending(op)
  /\ ready' = [ready EXCEPT ![op] = UNSET]
  /\ UNCHANGED <<power, now, noticeEnds, doneAt>>

(* Without executors anyone may execute. *)
MayExecute(caller) == role["executor"] = {} \/ caller \in role["executor"]

(* set_execute_operation and its copy for batches. *)
MarkDone(op) ==
  /\ IsReady(op)
  /\ Pred[op] # None => IsDone(Pred[op])
  /\ ready' = [ready EXCEPT ![op] = DONE]
  /\ doneAt' = [doneAt EXCEPT ![op] = now]
  /\ UNCHANGED <<now, noticeEnds>>

(* execute_op and execute_batch: if any call reverts, so does everything.   *)
(* An operation with a call to the timelock itself always does, by the      *)
(* host's ban on re-entrancy.                                               *)
Execute(caller, op) ==
  /\ op \in External
  /\ MayExecute(caller)
  /\ MarkDone(op)
  /\ UNCHANGED power

(* The effect of each admin function, where it does not fail. *)
UpdateDelay(c) ==
  /\ c.fn = "update_delay"
  /\ minDelay' = c.delay
  /\ UNCHANGED <<role, roleAdmin, admin, pendingAdmin>>

GrantRole(c) ==
  /\ c.fn = "grant_role"
  /\ role' = [role EXCEPT ![c.role] = @ \cup {c.account}]
  /\ UNCHANGED <<minDelay, roleAdmin, admin, pendingAdmin>>

RevokeRole(c) ==
  /\ c.fn = "revoke_role"
  /\ c.account \in role[c.role]
  /\ role' = [role EXCEPT ![c.role] = @ \ {c.account}]
  /\ UNCHANGED <<minDelay, roleAdmin, admin, pendingAdmin>>

SetRoleAdmin(c) ==
  /\ c.fn = "set_role_admin"
  /\ roleAdmin' = [roleAdmin EXCEPT ![c.role] = c.by]
  /\ UNCHANGED <<minDelay, role, admin, pendingAdmin>>

TransferAdminRole(c) ==
  /\ c.fn = "transfer_admin_role"
  /\ pendingAdmin' = c.account
  /\ UNCHANGED <<minDelay, role, roleAdmin, admin>>

RenounceAdmin(c) ==
  /\ c.fn = "renounce_admin"
  /\ pendingAdmin = None
  /\ admin' = None
  /\ UNCHANGED <<minDelay, role, roleAdmin, pendingAdmin>>

Perform(c) ==
  UpdateDelay(c) \/ GrantRole(c) \/ RevokeRole(c) \/ SetRoleAdmin(c) \/ TransferAdminRole(c) \/ RenounceAdmin(c)

(* An admin function called directly, with __check_auth standing for the    *)
(* timelock's signature.                                                    *)
SelfExecute(caller, op) ==
  /\ op \in SelfOp
  /\ admin = Self
  /\ MayExecute(caller)
  /\ MarkDone(op)
  /\ Perform(SelfCall[op])

(* Mutant: a role without an admin role is everybody's. *)
ManagesOpenly(caller, r) == roleAdmin[r] = None \/ caller \in role[roleAdmin[r]]

(* caller holds the admin role of r. *)
Manages(caller, r) == roleAdmin[r] # None /\ caller \in role[roleAdmin[r]]

(* The same functions signed by an account: the bootstrap admin, or one the *)
(* admin role was transferred to.                                           *)
Administer(caller, c) ==
  /\ c \in DirectCall
  /\ caller = admin \/ (c.fn \in {"grant_role", "revoke_role"} /\ Manages(caller, c.role))
  /\ Perform(c)
  /\ UNCHANGED <<operations, now>>

RenounceRole(caller, r) ==
  /\ caller \in role[r]
  /\ role' = [role EXCEPT ![r] = @ \ {caller}]
  /\ UNCHANGED <<minDelay, roleAdmin, admin, pendingAdmin, operations, now>>

AcceptAdminTransfer(caller) ==
  /\ caller = pendingAdmin
  /\ admin' = caller
  /\ pendingAdmin' = None
  /\ UNCHANGED <<minDelay, role, roleAdmin, operations, now>>

OfferLapses ==
  /\ pendingAdmin # None
  /\ pendingAdmin' = None
  /\ UNCHANGED <<minDelay, role, roleAdmin, admin, operations, now>>

(* A ledger closes. *)
Tick ==
  /\ now < MaxTime
  /\ now' = now + 1
  /\ UNCHANGED <<power, operations>>

Next ==
  \/ \E caller \in Account, op \in Op :
       \/ \E delay \in Delay : Schedule(caller, op, delay)
       \/ Cancel(caller, op)
       \/ Execute(caller, op)
       \/ SelfExecute(caller, op)
  \/ \E caller \in Account :
       \/ \E c \in DirectCall : Administer(caller, c)
       \/ \E r \in Role : RenounceRole(caller, r)
       \/ AcceptAdminTransfer(caller)
  \/ OfferLapses
  \/ Tick

Spec == Init /\ [][Next]_timelockVars

-----------------------------------------------------------------------------
(* Properties. *)

(* What was executed had its full notice, whatever became of the minimum    *)
(* delay, and came after its predecessor, which stays executed.             *)
ExecutedAfterNotice ==
  \A op \in Op : IsDone(op) =>
    /\ doneAt[op] >= noticeEnds[op]
    /\ Pred[op] # None => IsDone(Pred[op]) /\ doneAt[Pred[op]] <= doneAt[op]

(* No account rules: neither the admin role nor a role over other roles is  *)
(* in anyone's hands or on offer.                                           *)
SelfRuled ==
  /\ admin \in {Self, None}
  /\ pendingAdmin = None
  /\ \A r \in Role : roleAdmin[r] # None => role[roleAdmin[r]] = {}

(* Power grows: the delay changes, a role gains a member, or the rules for  *)
(* either are rewritten.                                                    *)
PowerChanges ==
  \/ <<minDelay, roleAdmin, admin, pendingAdmin>>' # <<minDelay, roleAdmin, admin, pendingAdmin>>
  \/ \E r \in Role : ~(role'[r] \subseteq role[r])

(* While no account rules, the delay and the roles change only by an        *)
(* operation executed in that step, on display for its full notice.         *)
SelfGoverned ==
  [][SelfRuled /\ PowerChanges =>
       \E op \in SelfOp : ~IsDone(op) /\ IsDone(op)' /\ noticeEnds[op] <= now]_timelockVars

(* Nobody rules, nobody proposes, nothing is pending: then it stays so, and *)
(* the timelock is inoperable for good.                                     *)
Frozen ==
  /\ SelfRuled
  /\ role["proposer"] = {}
  /\ \A op \in Op : ~IsPending(op)

FrozenForever == [][Frozen => Frozen' /\ UNCHANGED <<minDelay, ready>>]_timelockVars

(* A pending operation cannot be ready before its notice is over, and what  *)
(* is done was done in the past.                                            *)
Dates ==
  /\ now > DONE
  /\ \A op \in Op :
       /\ IsPending(op) => ready[op] >= noticeEnds[op]
       /\ IsDone(op) => doneAt[op] <= now

(* The inductive invariant of GovernanceProofs. *)
IInv == TypeOK /\ Dates /\ ExecutedAfterNotice

(* The timelock implements ReviewBoard. *)
Board == INSTANCE ReviewBoard WITH
  Item      <- Op,
  clock     <- now,
  due       <- [op \in Op |-> IF IsPending(op) THEN ready[op] ELSE None],
  performed <- {op \in Op : IsDone(op)}

ImplementsBoard == Board!Spec
=============================================================================
