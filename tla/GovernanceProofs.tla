-------------------------- MODULE GovernanceProofs --------------------------
(***************************************************************************)
(* Proofs about Timelock, and about Governance, which extends it, for any  *)
(* operations, batches, accounts, delays and selectors.  A step of the     *)
(* timelock is looked at twice: for what it does to the operations         *)
(* (OpSteps) and for what it does to the power over them (PowerSteps).     *)
(* The invariant of the governed router describes the router twice, as it  *)
(* is and as it would be after a rollback, and how far a transaction has   *)
(* come.                                                                   *)
(***************************************************************************)
EXTENDS Governance, TLAPS

-----------------------------------------------------------------------------
(* The timelock. *)

(* What a step may do to the operations. *)
LEMMA OpSteps ==
  ASSUME [Next]_timelockVars
  PROVE  \/ \E a \in Account, op \in Op, delay \in Delay : Schedule(a, op, delay)
         \/ \E a \in Account, op \in Op : Cancel(a, op)
         \/ \E op \in Op : MarkDone(op)
         \/ UNCHANGED operations /\ (now' = now \/ now' = now + 1)
BY DEF Next, Execute, SelfExecute, Administer, RenounceRole, AcceptAdminTransfer, OfferLapses, Tick,
  timelockVars

(* A performed admin call keeps the types of what it governs by. *)
LEMMA PerformTypes ==
  ASSUME TypeOK, NEW c \in CallType, Perform(c)
  PROVE  /\ minDelay' \in Nat
         /\ role' \in [Role -> SUBSET Account]
         /\ roleAdmin' \in [Role -> Role \cup {None}]
         /\ admin' \in Account \cup {Self, None}
         /\ pendingAdmin' \in Account \cup {None}
<1>1. CASE UpdateDelay(c)
  BY <1>1 DEF UpdateDelay, TypeOK, CallType
<1>2. CASE GrantRole(c)
  BY <1>2 DEF GrantRole, TypeOK, CallType
<1>3. CASE RevokeRole(c)
  BY <1>3 DEF RevokeRole, TypeOK
<1>4. CASE SetRoleAdmin(c)
  BY <1>4 DEF SetRoleAdmin, TypeOK, CallType
<1>5. CASE TransferAdminRole(c)
  BY <1>5 DEF TransferAdminRole, TypeOK, CallType
<1>6. CASE RenounceAdmin(c)
  BY <1>6 DEF RenounceAdmin, TypeOK
<1> QED
  BY <1>1, <1>2, <1>3, <1>4, <1>5, <1>6 DEF Perform

(* What a step may do to the power. *)
LEMMA PowerSteps ==
  ASSUME [Next]_timelockVars
  PROVE  \/ UNCHANGED power
         \/ \E op \in SelfOp : admin = Self /\ MarkDone(op) /\ Perform(SelfCall[op])
         \/ \E a \in Account, c \in DirectCall : Administer(a, c)
         \/ \E a \in Account, r \in Role : RenounceRole(a, r)
         \/ \E a \in Account : AcceptAdminTransfer(a)
         \/ OfferLapses
BY DEF Next, Schedule, ScheduleId, Cancel, Execute, SelfExecute, Tick, timelockVars

(* Types are kept. *)
LEMMA TypesKept ==
  ASSUME TypeOK, [Next]_timelockVars
  PROVE  TypeOK'
<1> USE TimelockAssumption
<1>1. /\ ready' \in [Op -> Nat]
      /\ noticeEnds' \in [Op -> Nat]
      /\ doneAt' \in [Op -> Nat]
      /\ now' \in Nat
  <2>1. CASE \E a \in Account, op \in Op, delay \in Delay : Schedule(a, op, delay)
    <3>1. PICK a \in Account, op \in Op, delay \in Delay : Schedule(a, op, delay)
      BY <2>1
    <3>2. now + delay \in Nat /\ now + minDelay \in Nat
      BY DEF TypeOK
    <3> QED
      BY <3>1, <3>2 DEF TypeOK, Schedule, ScheduleId
  <2>2. CASE \E a \in Account, op \in Op : Cancel(a, op)
    BY <2>2 DEF TypeOK, Cancel, UNSET
  <2>3. CASE \E op \in Op : MarkDone(op)
    BY <2>3 DEF TypeOK, MarkDone, DONE
  <2>4. CASE UNCHANGED operations /\ (now' = now \/ now' = now + 1)
    BY <2>4 DEF TypeOK, operations
  <2> QED
    BY <2>1, <2>2, <2>3, <2>4, OpSteps
<1>2. /\ minDelay' \in Nat
      /\ role' \in [Role -> SUBSET Account]
      /\ roleAdmin' \in [Role -> Role \cup {None}]
      /\ admin' \in Account \cup {Self, None}
      /\ pendingAdmin' \in Account \cup {None}
  <2>1. CASE UNCHANGED power
    BY <2>1 DEF TypeOK, power
  <2>2. CASE \E op \in SelfOp : Perform(SelfCall[op])
    BY <2>2, PerformTypes
  <2>3. CASE \E a \in Account, c \in DirectCall : Administer(a, c)
    BY <2>3, PerformTypes DEF Administer
  <2>4. CASE \E a \in Account, r \in Role : RenounceRole(a, r)
    BY <2>4 DEF TypeOK, RenounceRole
  <2>5. CASE (\E a \in Account : AcceptAdminTransfer(a)) \/ OfferLapses
    BY <2>5 DEF TypeOK, AcceptAdminTransfer, OfferLapses
  <2> QED
    BY <2>1, <2>2, <2>3, <2>4, <2>5, PowerSteps
<1> QED
  BY <1>1, <1>2 DEF TypeOK

(* The dates and the record of what was executed are kept. *)
LEMMA RecordKept ==
  ASSUME IInv, [Next]_timelockVars
  PROVE  Dates' /\ ExecutedAfterNotice'
<1> USE TimelockAssumption DEF UNSET, DONE, IsPending, IsDone
<1>T. TypeOK /\ Dates /\ ExecutedAfterNotice
  BY DEF IInv
<1>1. ASSUME NEW a \in Account, NEW op \in Op, NEW delay \in Delay, Schedule(a, op, delay)
      PROVE  Dates' /\ ExecutedAfterNotice'
  <2>1. Dates'
    <3>1. /\ ready' = [ready EXCEPT ![op] = now + delay]
          /\ noticeEnds' = [noticeEnds EXCEPT ![op] = now + minDelay]
          /\ delay >= minDelay /\ now' = now /\ doneAt' = doneAt
      BY <1>1 DEF Schedule, ScheduleId, power
    <3>2. now \in Nat /\ now > DONE /\ delay \in Nat /\ minDelay \in Nat
      BY <1>T DEF TypeOK, Dates
    <3>3. now + delay >= now + minDelay /\ now + delay # DONE
      BY <3>1, <3>2
    <3> QED
      BY <1>T, <3>1, <3>2, <3>3 DEF TypeOK, Dates
  <2>2. ready'[op] # DONE /\ \A x \in Op \ {op} : ready'[x] = ready[x] /\ noticeEnds'[x] = noticeEnds[x]
    BY <1>T, <1>1 DEF TypeOK, Dates, Schedule, ScheduleId
  <2>3. ASSUME NEW x \in Op, IsDone(x)'
        PROVE  /\ doneAt'[x] >= noticeEnds'[x]
               /\ Pred[x] # None => IsDone(Pred[x])' /\ doneAt'[Pred[x]] <= doneAt'[x]
    BY <1>T, <1>1, <2>2, <2>3 DEF TypeOK, ExecutedAfterNotice, Schedule, ScheduleId
  <2> QED
    BY <2>1, <2>3 DEF ExecutedAfterNotice
<1>2. ASSUME NEW a \in Account, NEW op \in Op, Cancel(a, op)
      PROVE  Dates' /\ ExecutedAfterNotice'
  <2>1. Dates'
    BY <1>T, <1>2 DEF TypeOK, Dates, Cancel
  <2>2. \A x \in Op : IsDone(x)' <=> IsDone(x)
    BY <1>T, <1>2 DEF TypeOK, Cancel
  <2> QED
    BY <1>T, <1>2, <2>1, <2>2 DEF ExecutedAfterNotice, Cancel
<1>3. ASSUME NEW op \in Op, MarkDone(op)
      PROVE  Dates' /\ ExecutedAfterNotice'
  <2>1. Dates'
    BY <1>T, <1>3 DEF TypeOK, Dates, MarkDone, IsReady
  <2>2. \A x \in Op : IsDone(x)' <=> IsDone(x) \/ x = op
    BY <1>T, <1>3 DEF TypeOK, MarkDone
  <2>3. doneAt'[op] = now /\ \A x \in Op \ {op} : doneAt'[x] = doneAt[x]
    BY <1>T, <1>3 DEF TypeOK, MarkDone
  <2>4. now >= noticeEnds[op] /\ UNCHANGED noticeEnds
    BY <1>T, <1>3 DEF TypeOK, Dates, MarkDone, IsReady
  <2>5. ASSUME NEW x \in Op, IsDone(x)'
        PROVE  doneAt'[x] >= noticeEnds'[x]
    BY <1>T, <2>2, <2>3, <2>4, <2>5 DEF ExecutedAfterNotice
  <2>6. ASSUME NEW x \in Op, IsDone(x)', Pred[x] # None
        PROVE  IsDone(Pred[x])' /\ doneAt'[Pred[x]] <= doneAt'[x]
    <3>1. Pred[x] \in Op /\ IsDone(Pred[x])
      BY <1>T, <1>3, <2>2, <2>6 DEF ExecutedAfterNotice, MarkDone
    <3>2. ~IsDone(op)
      BY <1>3 DEF MarkDone, IsReady
    <3>3. doneAt'[Pred[x]] = doneAt[Pred[x]]
      BY <2>3, <3>1, <3>2
    <3>4. CASE x = op
      BY <1>T, <2>2, <2>3, <3>1, <3>3, <3>4 DEF Dates, TypeOK
    <3>5. CASE x # op
      BY <1>T, <2>2, <2>3, <2>6, <3>1, <3>3, <3>5 DEF ExecutedAfterNotice
    <3> QED
      BY <3>4, <3>5
  <2> QED
    BY <2>1, <2>5, <2>6 DEF ExecutedAfterNotice
<1>4. CASE UNCHANGED operations /\ (now' = now \/ now' = now + 1)
  BY <1>T, <1>4 DEF TypeOK, Dates, ExecutedAfterNotice, operations
<1> QED
  BY <1>1, <1>2, <1>3, <1>4, OpSteps

(* Types, dates and record hold in every reachable state. *)
THEOREM Invariance == Spec => []IInv
<1>1. Init => IInv
  <2> SUFFICES ASSUME Init PROVE IInv
    OBVIOUS
  <2> USE TimelockAssumption DEF Init, UNSET, DONE, IsPending, IsDone
  <2>1. PICK d \in Deployment :
          /\ minDelay = d.min_delay
          /\ role = [r \in Role |->
               CASE r = "executor"  -> d.executors
                 [] r = "bootstrap" -> {d.admin} \ {None}
                 [] OTHER           -> d.proposers]
          /\ roleAdmin = [r \in Role |-> IF d.admin # None /\ r # "bootstrap" THEN "bootstrap" ELSE None]
    OBVIOUS
  <2>2. d \in DeploymentType
    OBVIOUS
  <2>3. minDelay \in Nat /\ role \in [Role -> SUBSET Account]
    BY <2>1, <2>2 DEF DeploymentType, Role
  <2>4. roleAdmin \in [Role -> Role \cup {None}]
    BY <2>1 DEF Role
  <2>5. TypeOK
    BY <2>3, <2>4 DEF TypeOK
  <2>6. Dates /\ ExecutedAfterNotice
    BY DEF Dates, ExecutedAfterNotice
  <2> QED
    BY <2>5, <2>6 DEF IInv
<1>2. IInv /\ [Next]_timelockVars => IInv'
  BY TypesKept, RecordKept DEF IInv
<1> QED
  BY <1>1, <1>2, PTL DEF Spec

(* Nothing is executed before its notice is over or before its predecessor. *)
THEOREM NoticeKept == Spec => []ExecutedAfterNotice
BY Invariance, PTL DEF IInv

(* While no account rules, an account can change the power only by giving   *)
(* up a role.                                                               *)
LEMMA AccountsOnlyGiveUp ==
  ASSUME TypeOK, [Next]_timelockVars, SelfRuled, PowerChanges
  PROVE  \E op \in SelfOp : admin = Self /\ MarkDone(op) /\ Perform(SelfCall[op])
<1> USE TimelockAssumption
<1>1. CASE UNCHANGED power
  BY <1>1 DEF PowerChanges, power
<1>2. ASSUME NEW a \in Account, NEW c \in DirectCall, Administer(a, c)
      PROVE  FALSE
  <2>1. a # admin
    BY DEF SelfRuled
  <2>2. c.fn \in {"grant_role", "revoke_role"} /\ Manages(a, c.role)
    BY <1>2, <2>1 DEF Administer
  <2>3. c.role \in Role
    BY <2>2 DEF CallType
  <2> QED
    BY <2>2, <2>3 DEF Manages, SelfRuled
<1>3. ASSUME NEW a \in Account, NEW r \in Role, RenounceRole(a, r)
      PROVE  FALSE
  BY <1>3 DEF RenounceRole, PowerChanges, TypeOK
<1>4. CASE (\E a \in Account : AcceptAdminTransfer(a)) \/ OfferLapses
  BY <1>4 DEF AcceptAdminTransfer, OfferLapses, SelfRuled
<1> QED
  BY <1>1, <1>2, <1>3, <1>4, PowerSteps

(* A timelock no account rules changes its delay and roles only through its *)
(* own operations, after their notice.                                      *)
THEOREM GovernsItself == Spec => SelfGoverned
<1>1. ASSUME IInv, [Next]_timelockVars, SelfRuled, PowerChanges
      PROVE  \E op \in SelfOp : ~IsDone(op) /\ IsDone(op)' /\ noticeEnds[op] <= now
  <2>1. PICK op \in SelfOp : MarkDone(op)
    BY <1>1, AccountsOnlyGiveUp DEF IInv
  <2>2. op \in Op
    BY TimelockAssumption
  <2> QED
    BY <1>1, <2>1, <2>2 DEF IInv, TypeOK, Dates, MarkDone, IsReady, IsPending, IsDone, DONE
<1>2. IInv /\ [Next]_timelockVars =>
        [SelfRuled /\ PowerChanges =>
           \E op \in SelfOp : ~IsDone(op) /\ IsDone(op)' /\ noticeEnds[op] <= now]_timelockVars
  BY <1>1
<1> QED
  BY Invariance, <1>2, PTL DEF Spec, SelfGoverned

(* Nobody rules, nobody proposes, nothing is pending: no step changes that. *)
LEMMA FrozenStays ==
  ASSUME TypeOK, [Next]_timelockVars, Frozen
  PROVE  Frozen' /\ UNCHANGED <<minDelay, ready>>
<1> USE TimelockAssumption
<1>1. SelfRuled
  BY DEF Frozen
<1>2. ~\E op \in Op : MarkDone(op)
  BY DEF Frozen, MarkDone, IsReady
<1>3. ~PowerChanges
  BY <1>1, <1>2, AccountsOnlyGiveUp
<1>4. UNCHANGED ready
  BY <1>2, OpSteps DEF Frozen, Schedule, ScheduleId, Cancel, operations, TypeOK
<1>5. \A r \in Role : role[r] = {} => role'[r] = {}
  BY <1>3 DEF PowerChanges
<1>6. UNCHANGED <<minDelay, roleAdmin, admin, pendingAdmin>>
  BY <1>3 DEF PowerChanges
<1>7. SelfRuled'
  BY <1>1, <1>5, <1>6 DEF SelfRuled, TypeOK
<1> QED
  BY <1>4, <1>5, <1>6, <1>7 DEF Frozen, IsPending, Role

(* A timelock that nobody rules, in which nobody proposes and nothing is    *)
(* pending, never does anything again.                                      *)
THEOREM NothingThaws == Spec => FrozenForever
<1>1. IInv /\ [Next]_timelockVars => [Frozen => Frozen' /\ UNCHANGED <<minDelay, ready>>]_timelockVars
  BY FrozenStays DEF IInv
<1> QED
  BY Invariance, <1>1, PTL DEF Spec, FrozenForever

(* The timelock implements ReviewBoard. *)
THEOREM KeepsTheBoard == Spec => ImplementsBoard
<1> DEFINE Due == [op \in Op |-> IF IsPending(op) THEN ready[op] ELSE None]
           Performed == {op \in Op : IsDone(op)}
<1>1. Init => Board!Init
  BY TimelockAssumption DEF Init, Board!Init, IsPending, IsDone, UNSET, DONE
<1>2. ASSUME IInv, IInv', [Next]_timelockVars
      PROVE  [Board!Next]_(Board!vars)
  <2> USE TimelockAssumption DEF UNSET, DONE, IsPending, IsDone
  <2>T. TypeOK /\ TypeOK' /\ Dates
    BY <1>2 DEF IInv
  <2>D. \A x \in Op : /\ Due[x] = IF ready[x] > 1 THEN ready[x] ELSE None
                     /\ Due'[x] = IF ready'[x] > 1 THEN ready'[x] ELSE None
    OBVIOUS
  <2>E. ASSUME NEW op \in Op, \A x \in Op : x # op => ready'[x] = ready[x]
        PROVE  Due' = [Due EXCEPT ![op] = Due'[op]]
    BY <2>E
  <2>1. ASSUME NEW a \in Account, NEW op \in Op, NEW delay \in Delay, Schedule(a, op, delay)
        PROVE  Board!Announce(op)
    <3>0. ready[op] = 0 /\ ready'[op] = now + delay
      BY <2>1, <2>T DEF TypeOK, Schedule, ScheduleId
    <3>1. ready[op] = 0 /\ ready'[op] = now + delay /\ ready'[op] > 1 /\ ready'[op] \in Nat
      BY <3>0, <2>T DEF TypeOK, Dates
    <3>2. Due[op] = None /\ op \notin Performed
      BY <3>1
    <3>3. Due'[op] = ready'[op] /\ ready'[op] >= now
      BY <2>D, <3>1, <2>T DEF TypeOK
    <3>4. Due' = [Due EXCEPT ![op] = Due'[op]]
      <4>1. \A x \in Op : x # op => ready'[x] = ready[x]
        BY <2>1, <2>T DEF TypeOK, Schedule, ScheduleId
      <4> QED
        BY <2>E, <4>1
    <3>5. Performed' = Performed /\ now' = now
      BY <2>1, <3>1, <2>T DEF TypeOK, Schedule, ScheduleId
    <3>6. Due'[op] \in Nat /\ Due'[op] >= now
      BY <3>1, <3>3
    <3> QED
      BY <3>2, <3>4, <3>5, <3>6, Zenon DEF Board!Announce
  <2>2. ASSUME NEW a \in Account, NEW op \in Op, Cancel(a, op)
        PROVE  Board!Withdraw(op)
    <3>1. ready[op] > 1 /\ ready'[op] = 0 /\ ready[op] \in Nat /\ now' = now
      BY <2>2, <2>T DEF TypeOK, Cancel
    <3>2. Due[op] # None
      BY <3>1
    <3>3. Due' = [Due EXCEPT ![op] = None]
      <4>1. \A x \in Op : x # op => ready'[x] = ready[x]
        BY <2>2, <2>T DEF TypeOK, Cancel
      <4> QED
        BY <2>D, <2>E, <3>1, <4>1
    <3>4. Performed' = Performed
      BY <2>2, <3>1, <2>T DEF TypeOK, Cancel
    <3> QED
      BY <3>1, <3>2, <3>3, <3>4 DEF Board!Withdraw
  <2>3. ASSUME NEW op \in Op, MarkDone(op)
        PROVE  Board!Carry(op)
    <3>1. ready[op] > 1 /\ ready[op] <= now /\ ready'[op] = 1 /\ ready[op] \in Nat /\ now' = now
      BY <2>3, <2>T DEF TypeOK, MarkDone, IsReady
    <3>2. Due[op] # None /\ Due[op] <= now
      BY <3>1
    <3>3. Pred[op] # None => Pred[op] \in Performed
      BY <2>3 DEF MarkDone
    <3>4. Due' = [Due EXCEPT ![op] = None]
      <4>1. \A x \in Op : x # op => ready'[x] = ready[x]
        BY <2>3, <2>T DEF TypeOK, MarkDone
      <4> QED
        BY <2>D, <2>E, <3>1, <4>1
    <3>5. Performed' = Performed \cup {op}
      BY <2>3, <3>1, <2>T DEF TypeOK, MarkDone
    <3> QED
      BY <3>1, <3>2, <3>3, <3>4, <3>5 DEF Board!Carry
  <2>4. CASE UNCHANGED operations /\ (now' = now \/ now' = now + 1)
    BY <2>4 DEF operations, Board!Next, Board!vars
  <2> QED
    BY <1>2, <2>1, <2>2, <2>3, <2>4, OpSteps DEF Board!Next
<1>3. IInv /\ IInv' /\ [Next]_timelockVars => [Board!Next]_(Board!vars)
  BY <1>2
<1> QED
  BY Invariance, <1>1, <1>3, PTL DEF Spec, ImplementsBoard, Board!Spec

-----------------------------------------------------------------------------
(* The governed router. *)

Owner == [{Router} -> Account \cup {Self, None}]

(* How owner, offer, entries and routes of the router fit together. *)
RouterFits(own, pend, ent, rt) ==
  /\ own \in Owner
  /\ pend \in Owner
  /\ ent \in [Selector -> Verifier \cup {Unset, Tombstone}]
  /\ rt \in [Selector -> Verifier \cup {None}]
  /\ own[Router] = None => pend[Router] = None
  /\ \A s \in Selector : ent[s] \in Verifier => rt[s] = ent[s]
  /\ \A s \in Selector : ent[s] = Unset <=> rt[s] = None

(* Nothing is ready before its notice is over. *)
NoticeDue(rdy) == \A op \in Op : rdy[op] > DONE => rdy[op] >= noticeEnds[op]

(* The calls of every done operation but one are in force. *)
OthersInForce(except) ==
  \A op \in External \ {except} : ready[op] = DONE =>
    \A k \in DOMAIN Calls[op] : InForce(Calls[op][k], owner, entry, route)

Idle == AllInForce(ready, owner, entry, route)

(* The transaction of tx.op: what it may be undone to, its mark, the calls  *)
(* it has made and what they changed.                                       *)
Underway ==
  /\ tx \in TxType
  /\ tx.at <= Len(Calls[tx.op]) + 1
  /\ RouterFits(tx.owner, tx.pendingOwner, tx.entry, tx.route)
  /\ NoticeDue(tx.ready)
  /\ AllInForce(tx.ready, tx.owner, tx.entry, tx.route)
  /\ \E a \in Account : MayExecute(a)
  /\ tx.ready[tx.op] > DONE /\ tx.ready[tx.op] <= now
  /\ Pred[tx.op] # None => tx.ready[Pred[tx.op]] = DONE
  /\ ready = [tx.ready EXCEPT ![tx.op] = DONE]
  /\ doneAt = [tx.doneAt EXCEPT ![tx.op] = now]
  /\ OthersInForce(tx.op)
  /\ \A k \in 1..(tx.at - 1) : InForce(Calls[tx.op][k], owner, entry, route)
  /\ \A s \in Selector : entry[s] # tx.entry[s] =>
       \E k \in DOMAIN Calls[tx.op] :
         Calls[tx.op][k].fn \in {"add_verifier", "remove_verifier"} /\ Calls[tx.op][k].selector = s

GInv ==
  /\ TypeOK
  /\ now > DONE
  /\ RouterFits(owner, pendingOwner, entry, route)
  /\ lapsed \subseteq Selector
  /\ NoticeDue(ready)
  /\ tx = None => Idle
  /\ tx # None => Underway

-----------------------------------------------------------------------------
(* Calls. *)

(* The calls of an operation are numbered calls on the router.             *)
LEMMA CallsTyped ==
  ASSUME NEW op \in External
  PROVE  /\ Len(Calls[op]) \in Nat
         /\ DOMAIN Calls[op] = 1..Len(Calls[op])
         /\ \A k \in 1..Len(Calls[op]) : Calls[op][k] \in RouterCall
<1>1. Calls[op] \in Seq(RouterCall)
  BY GovernanceAssumption
<1> QED
  BY <1>1

(* What no call on the router takes back, and what a call achieves.         *)
LEMMA CallKeeps ==
  ASSUME RouterFits(owner, pendingOwner, entry, route), None \notin Account, Self # None,
         NEW caller \in Account \cup {Self}, NEW c \in RouterCall, Call(caller, c)
  PROVE  /\ RouterFits(owner, pendingOwner, entry, route)'
         /\ lapsed' = lapsed
         /\ \A d \in RouterCall :
              InForce(d, owner, entry, route) => InForce(d, owner', entry', route')
         /\ InForce(c, owner', entry', route')
         /\ \A s \in Selector : entry'[s] # entry[s] =>
              c.fn \in {"add_verifier", "remove_verifier"} /\ c.selector = s /\ caller = owner[Router]
<1> USE GovernanceAssumption
<1>1. CASE c.fn = "add_verifier" /\ R!AddVerifier(caller, c.selector, c.verifier)
  <2>1. c.selector \in Selector /\ c.verifier \in Verifier
    BY <1>1 DEF RouterCall
  <2>2. /\ entry' = [entry EXCEPT ![c.selector] = c.verifier]
        /\ route' = [route EXCEPT ![c.selector] = c.verifier]
        /\ entry[c.selector] = Unset /\ lapsed' = lapsed /\ owner' = owner /\ pendingOwner' = pendingOwner
        /\ caller = owner[Router]
    BY <1>1 DEF R!AddVerifier, R!OwnerSigned, R!ownership
  <2>3. RouterFits(owner, pendingOwner, entry, route)'
    BY <2>1, <2>2 DEF RouterFits
  <2>4. ASSUME NEW d \in RouterCall, InForce(d, owner, entry, route)
        PROVE  InForce(d, owner', entry', route')
    BY <2>1, <2>2, <2>4 DEF RouterFits, InForce, RouterCall
  <2>5. InForce(c, owner', entry', route')
    BY <1>1, <2>1, <2>2 DEF RouterFits, InForce
  <2> QED
    BY <1>1, <2>1, <2>2, <2>3, <2>4, <2>5 DEF RouterFits
<1>2. CASE c.fn = "remove_verifier" /\ R!RemoveVerifier(caller, c.selector)
  <2>1. c.selector \in Selector
    BY <1>2 DEF RouterCall
  <2>2. /\ entry' = [entry EXCEPT ![c.selector] = Tombstone]
        /\ entry[c.selector] # Unset /\ lapsed' = lapsed /\ route' = route /\ owner' = owner /\ pendingOwner' = pendingOwner
        /\ caller = owner[Router]
    BY <1>2 DEF R!RemoveVerifier, R!OwnerSigned, R!ownership
  <2>3. RouterFits(owner, pendingOwner, entry, route)'
    BY <2>1, <2>2 DEF RouterFits
  <2>4. ASSUME NEW d \in RouterCall, InForce(d, owner, entry, route)
        PROVE  InForce(d, owner', entry', route')
    BY <2>1, <2>2, <2>4 DEF RouterFits, InForce, RouterCall
  <2>5. InForce(c, owner', entry', route')
    BY <1>2, <2>1, <2>2 DEF RouterFits, InForce
  <2> QED
    BY <1>2, <2>1, <2>2, <2>3, <2>4, <2>5 DEF RouterFits
<1>3. CASE /\ \/ c.fn = "transfer_ownership" /\ R!TransferOwnership(caller, Router, c.account)
              \/ c.fn = "accept_ownership" /\ R!AcceptOwnership(caller, Router)
              \/ c.fn = "renounce_ownership" /\ R!RenounceOwnership(caller, Router)
           /\ UNCHANGED <<entry, lapsed, route>>
  <2>1. c.fn = "transfer_ownership" => c.account \in Account
    BY <1>3 DEF RouterCall
  <2>2. owner' \in Owner /\ pendingOwner' \in Owner
    BY <1>3, <2>1 DEF RouterFits, Owner, R!TransferOwnership, R!AcceptOwnership, R!RenounceOwnership
  <2>3. owner'[Router] = None => pendingOwner'[Router] = None
    BY <1>3 DEF RouterFits, Owner, R!OwnerSigned, R!TransferOwnership, R!AcceptOwnership, R!RenounceOwnership
  <2>4. owner[Router] = None => owner'[Router] = None
    BY <1>3 DEF RouterFits, Owner, R!OwnerSigned, R!TransferOwnership, R!AcceptOwnership, R!RenounceOwnership
  <2>5. RouterFits(owner, pendingOwner, entry, route)'
    BY <1>3, <2>2, <2>3 DEF RouterFits
  <2>6. ASSUME NEW d \in RouterCall, InForce(d, owner, entry, route)
        PROVE  InForce(d, owner', entry', route')
    BY <1>3, <2>4, <2>6 DEF InForce
  <2>7. InForce(c, owner', entry', route')
    BY <1>3 DEF InForce, RouterFits, Owner, R!RenounceOwnership
  <2> QED
    BY <1>3, <2>5, <2>6, <2>7
<1>4. CASE c.fn = "other" /\ UNCHANGED routerVars
  BY <1>4 DEF routerVars, InForce
<1> QED
  BY <1>1, <1>2, <1>3, <1>4 DEF Call

-----------------------------------------------------------------------------
(* Steps. *)

(* A fresh deployment satisfies the invariant.                             *)
LEMMA InitGInv == GovernanceInit => GInv
<1> SUFFICES ASSUME GovernanceInit PROVE GInv
  OBVIOUS
<1> USE TimelockAssumption, GovernanceAssumption
<1>1. TypeOK
  <2>1. Init
    BY DEF GovernanceInit
  <2>2. PICK d \in Deployment :
          /\ minDelay = d.min_delay
          /\ role = [r \in Role |->
               CASE r = "executor"  -> d.executors
                 [] r = "bootstrap" -> {d.admin} \ {None}
                 [] OTHER           -> d.proposers]
          /\ roleAdmin = [r \in Role |-> IF d.admin # None /\ r # "bootstrap" THEN "bootstrap" ELSE None]
    BY <2>1 DEF Init
  <2>3. d \in DeploymentType
    OBVIOUS
  <2>4. minDelay \in Nat /\ role \in [Role -> SUBSET Account]
    BY <2>2, <2>3 DEF DeploymentType, Role
  <2>5. roleAdmin \in [Role -> Role \cup {None}]
    BY <2>2 DEF Role
  <2> QED
    BY <2>1, <2>4, <2>5 DEF Init, TypeOK, UNSET
<1>2. RouterFits(owner, pendingOwner, entry, route)
  BY DEF GovernanceInit, R!RouterInit, RouterFits, Owner
<1>3. \A op \in Op : ready[op] = 0
  BY DEF GovernanceInit, Init, UNSET
<1>4. NoticeDue(ready)
  BY <1>3 DEF NoticeDue, DONE
<1>5. Idle
  BY <1>3 DEF Idle, AllInForce, DONE
<1> QED
  BY <1>1, <1>2, <1>4, <1>5 DEF GInv, GovernanceInit, Init, R!RouterInit

(* The timelock's own steps, between transactions.                          *)
LEMMA TimelockStepKeeps ==
  ASSUME GInv, tx = None, TimelockStep, UNCHANGED <<routerVars, tx>>
  PROVE  GInv' /\ \A op \in External : ready'[op] = DONE => ready[op] = DONE
<1> USE TimelockAssumption
<1>T. TypeOK /\ now > DONE /\ NoticeDue(ready) /\ Idle /\ RouterFits(owner, pendingOwner, entry, route)
    /\ lapsed \subseteq Selector
  BY DEF GInv
<1>1. [Next]_timelockVars
  BY DEF TimelockStep, Next
<1>2. TypeOK'
  BY <1>T, <1>1, TypesKept
<1>3. \/ \E a \in Account, op \in Op, delay \in Delay : Schedule(a, op, delay)
      \/ \E a \in Account, op \in Op : Cancel(a, op)
      \/ \E op \in SelfOp : MarkDone(op)
      \/ UNCHANGED operations
  BY DEF TimelockStep, SelfExecute, Administer, RenounceRole, AcceptAdminTransfer, OfferLapses, Tick
<1>4. NoticeDue(ready)' /\ \A op \in External : ready'[op] = DONE => ready[op] = DONE
  <2>1. ASSUME NEW a \in Account, NEW op \in Op, NEW delay \in Delay, Schedule(a, op, delay)
        PROVE  NoticeDue(ready)' /\ \A x \in External : ready'[x] = DONE => ready[x] = DONE
    <3>1. /\ ready' = [ready EXCEPT ![op] = now + delay]
          /\ noticeEnds' = [noticeEnds EXCEPT ![op] = now + minDelay]
          /\ delay >= minDelay
      BY <2>1 DEF Schedule, ScheduleId
    <3>2. now + delay \in Nat /\ now + minDelay \in Nat /\ now + delay >= now + minDelay /\ now \in Nat
      BY <1>T, <3>1 DEF TypeOK
    <3>3. NoticeDue(ready)'
      BY <1>T, <3>1, <3>2 DEF NoticeDue, TypeOK, DONE
    <3>4. now + delay # DONE
      BY <1>T, <3>2 DEF DONE, TypeOK
    <3> QED
      BY <1>T, <3>1, <3>3, <3>4 DEF TypeOK
  <2>2. ASSUME NEW a \in Account, NEW op \in Op, Cancel(a, op)
        PROVE  NoticeDue(ready)' /\ \A x \in External : ready'[x] = DONE => ready[x] = DONE
    BY <1>T, <2>2 DEF Cancel, NoticeDue, TypeOK, UNSET, DONE
  <2>3. ASSUME NEW op \in SelfOp, MarkDone(op)
        PROVE  NoticeDue(ready)' /\ \A x \in External : ready'[x] = DONE => ready[x] = DONE
    BY <1>T, <2>3 DEF MarkDone, NoticeDue, TypeOK, DONE
  <2>4. CASE UNCHANGED operations
    BY <1>T, <2>4 DEF operations, NoticeDue
  <2> QED
    BY <1>3, <2>1, <2>2, <2>3, <2>4
<1>5. UNCHANGED routerVars
  OBVIOUS
<1>N. now' > DONE
  <2>1. now' = now \/ now' = now + 1
    BY <1>1, OpSteps DEF Schedule, Cancel, MarkDone
  <2> QED
    BY <1>T, <2>1 DEF TypeOK, DONE
<1>6. Idle' /\ RouterFits(owner, pendingOwner, entry, route)'
  BY <1>T, <1>4, <1>5 DEF Idle, AllInForce, routerVars
<1> QED
  BY <1>T, <1>2, <1>4, <1>5, <1>6, <1>N DEF GInv, routerVars

(* Calls that reach the router from elsewhere, and the host's archival.     *)
LEMMA RouterStepKeeps ==
  ASSUME GInv, tx = None, RouterStep, UNCHANGED <<timelockVars, tx>>
  PROVE  /\ GInv'
         /\ \A d \in RouterCall : InForce(d, owner, entry, route) => InForce(d, owner', entry', route')
         /\ \A s \in Selector : entry'[s] # entry[s] => owner[Router] # Self
<1> USE TimelockAssumption
<1>T. TypeOK /\ now > DONE /\ NoticeDue(ready) /\ Idle /\ RouterFits(owner, pendingOwner, entry, route)
    /\ lapsed \subseteq Selector
  BY DEF GInv
<1>1. [Next]_timelockVars /\ UNCHANGED <<ready, noticeEnds, now>>
  BY DEF timelockVars, operations
<1>2. TypeOK' /\ now' > DONE /\ NoticeDue(ready)'
  BY <1>T, <1>1, TypesKept DEF NoticeDue
<1>3. /\ RouterFits(owner, pendingOwner, entry, route)'
      /\ lapsed' \subseteq Selector
      /\ \A d \in RouterCall : InForce(d, owner, entry, route) => InForce(d, owner', entry', route')
      /\ \A s \in Selector : entry'[s] # entry[s] => owner[Router] # Self
  <2>1. ASSUME NEW a \in Account, NEW c \in AccountCall, Call(a, c)
        PROVE  /\ RouterFits(owner, pendingOwner, entry, route)'
               /\ lapsed' \subseteq Selector
               /\ \A d \in RouterCall : InForce(d, owner, entry, route) => InForce(d, owner', entry', route')
               /\ \A t \in Selector : entry'[t] # entry[t] => owner[Router] # Self
    <3>1. c \in RouterCall /\ a # Self
      BY GovernanceAssumption
    <3> QED
      BY <1>T, <2>1, <3>1, CallKeeps
  <2>2. CASE R!OfferLapses(Router) /\ UNCHANGED <<entry, lapsed, route>>
    <3>1. RouterFits(owner, pendingOwner, entry, route)'
      BY <1>T, <2>2 DEF R!OfferLapses, RouterFits, Owner
    <3>2. owner' = owner /\ entry' = entry /\ route' = route /\ lapsed' = lapsed
      BY <2>2 DEF R!OfferLapses
    <3> QED
      BY <1>T, <3>1, <3>2
  <2>3. ASSUME NEW s \in Selector, R!ArchiveEntry(s) \/ R!RestoreEntry(s)
        PROVE  /\ RouterFits(owner, pendingOwner, entry, route)'
               /\ lapsed' \subseteq Selector
               /\ \A d \in RouterCall : InForce(d, owner, entry, route) => InForce(d, owner', entry', route')
               /\ \A t \in Selector : entry'[t] # entry[t] => owner[Router] # Self
    <3>1. owner' = owner /\ pendingOwner' = pendingOwner /\ entry' = entry /\ route' = route
          /\ lapsed' \subseteq Selector
      BY <1>T, <2>3 DEF R!ArchiveEntry, R!RestoreEntry, R!ownership
    <3> QED
      BY <1>T, <3>1
  <2> QED
    BY <2>1, <2>2, <2>3 DEF RouterStep
<1>4. Idle'
  <2>1. ASSUME NEW op \in External, ready[op] = DONE, NEW k \in DOMAIN Calls[op]
        PROVE  InForce(Calls[op][k], owner', entry', route')
    BY <1>T, <1>3, <2>1, CallsTyped DEF Idle, AllInForce
  <2> QED
    BY <1>1, <2>1 DEF Idle, AllInForce
<1> QED
  BY <1>2, <1>3, <1>4 DEF GInv

(* The mark, which opens a transaction.                                     *)
LEMMA BeginKeeps ==
  ASSUME GInv, tx = None, NEW caller \in Account, NEW op \in Op, Begin(caller, op)
  PROVE  GInv' /\ tx' # None
<1> USE TimelockAssumption
<1>T. TypeOK /\ now > DONE /\ NoticeDue(ready) /\ Idle /\ RouterFits(owner, pendingOwner, entry, route)
    /\ lapsed \subseteq Selector
  BY DEF GInv
<1>1. /\ op \in External /\ MayExecute(caller)
      /\ ready[op] > DONE /\ ready[op] <= now
      /\ Pred[op] # None => ready[Pred[op]] = DONE
      /\ ready' = [ready EXCEPT ![op] = DONE]
      /\ doneAt' = [doneAt EXCEPT ![op] = now]
      /\ UNCHANGED <<now, noticeEnds, power, owner, pendingOwner, entry, lapsed, route>>
  BY DEF Begin, MarkDone, IsReady, IsPending, IsDone, routerVars
<1>2. /\ tx'.op = op /\ tx'.at = 1 /\ tx'.ready = ready /\ tx'.doneAt = doneAt
      /\ tx'.owner = owner /\ tx'.pendingOwner = pendingOwner /\ tx'.entry = entry /\ tx'.route = route
  BY DEF Begin, Snapshot
<1>3. [Next]_timelockVars
  BY <1>1 DEF Begin, Next, Execute
<1>4. TypeOK'
  BY <1>T, <1>3, TypesKept
<1>5. NoticeDue(ready)' /\ now' > DONE
  BY <1>T, <1>1 DEF NoticeDue, DONE, TypeOK
<1>6. RouterFits(owner, pendingOwner, entry, route)'
  BY <1>T, <1>1
<1>7. OthersInForce(op)'
  BY <1>T, <1>1 DEF OthersInForce, Idle, AllInForce, TypeOK
<1>8. Underway'
  <2>1. tx'.at <= Len(Calls[op]) + 1
    BY <1>1, <1>2, CallsTyped
  <2>2. tx' \in TxType
    BY <1>T, <1>1 DEF Begin, Snapshot, TxType, TypeOK, RouterFits, Owner
  <2>3. RouterFits(tx'.owner, tx'.pendingOwner, tx'.entry, tx'.route)
    BY <1>T, <1>2
  <2>4. NoticeDue(tx.ready)'
    BY <1>T, <1>1, <1>2 DEF NoticeDue
  <2>5. AllInForce(tx'.ready, tx'.owner, tx'.entry, tx'.route)
    BY <1>T, <1>2 DEF Idle
  <2>6. MayExecute(caller)'
    BY <1>1 DEF MayExecute, power
  <2>7. \A k \in 1..(tx'.at - 1) : InForce(Calls[tx'.op][k], owner', entry', route')
    BY <1>2
  <2>8. \A s \in Selector : entry'[s] = tx'.entry[s]
    BY <1>1, <1>2
  <2> QED
    BY <1>1, <1>2, <1>7, <2>1, <2>2, <2>3, <2>4, <2>5, <2>6, <2>7, <2>8 DEF Underway
<1>9. tx' # None
  BY <1>8, GovernanceAssumption DEF Underway
<1> QED
  BY <1>T, <1>1, <1>4, <1>5, <1>6, <1>8, <1>9 DEF GInv

(* A call moves on in the batch and keeps what the transaction goes back to. *)
LEMMA TxAdvances ==
  ASSUME tx \in TxType, CallNext
  PROVE  /\ tx' \in TxType /\ tx'.at = tx.at + 1
         /\ tx'.op = tx.op /\ tx'.ready = tx.ready /\ tx'.doneAt = tx.doneAt
         /\ tx'.owner = tx.owner /\ tx'.pendingOwner = tx.pendingOwner /\ tx'.entry = tx.entry /\ tx'.route = tx.route
<1>1. tx' = [tx EXCEPT !.at = tx.at + 1]
  BY DEF CallNext
<1>2. tx.at + 1 \in Nat \ {0}
  BY DEF TxType
<1>3. tx' \in TxType
  BY <1>1, <1>2 DEF TxType
<1>4. tx'.at = tx.at + 1
  BY <1>1 DEF TxType
<1> QED
  BY <1>1, <1>3, <1>4

(* The next call of the batch.                                              *)
LEMMA CallNextKeeps ==
  ASSUME GInv, tx # None, CallNext
  PROVE  GInv'
<1> USE TimelockAssumption
<1> DEFINE op == tx.op
           c == Calls[op][tx.at]
<1>T. TypeOK /\ now > DONE /\ NoticeDue(ready) /\ Underway /\ RouterFits(owner, pendingOwner, entry, route)
    /\ lapsed \subseteq Selector
  BY DEF GInv
<1>U. /\ tx \in TxType /\ tx.at \in Nat \ {0} /\ op \in External
  BY <1>T DEF Underway, TxType
<1>1. tx.at <= Len(Calls[op]) /\ Call(Self, c) /\ c \in RouterCall
  BY <1>U, CallsTyped DEF CallNext
<1>2. /\ tx' \in TxType /\ tx'.at = tx.at + 1
      /\ tx'.op = op /\ tx'.ready = tx.ready /\ tx'.doneAt = tx.doneAt
      /\ tx'.owner = tx.owner /\ tx'.pendingOwner = tx.pendingOwner /\ tx'.entry = tx.entry /\ tx'.route = tx.route
  BY <1>U, TxAdvances
<1>3. /\ RouterFits(owner, pendingOwner, entry, route)'
      /\ lapsed' = lapsed
      /\ \A d \in RouterCall : InForce(d, owner, entry, route) => InForce(d, owner', entry', route')
      /\ InForce(c, owner', entry', route')
      /\ \A s \in Selector : entry'[s] # entry[s] => c.fn \in {"add_verifier", "remove_verifier"} /\ c.selector = s
  <2> HIDE DEF c
  <2> QED
    BY <1>T, <1>1, CallKeeps
<1>4. [Next]_timelockVars /\ UNCHANGED <<ready, doneAt, noticeEnds, now, role, power>>
  BY DEF CallNext, timelockVars, operations, power
<1>5. TypeOK' /\ now' > DONE /\ NoticeDue(ready)' /\ NoticeDue(tx.ready)'
  BY <1>T, <1>2, <1>4, TypesKept DEF NoticeDue, Underway
<1>6. OthersInForce(tx.op)'
  <2>1. ASSUME NEW x \in External \ {op}, ready[x] = DONE, NEW k \in DOMAIN Calls[x]
        PROVE  InForce(Calls[x][k], owner', entry', route')
    <3>1. Calls[x][k] \in RouterCall
      BY CallsTyped
    <3>2. InForce(Calls[x][k], owner, entry, route)
      BY <1>T, <2>1 DEF Underway, OthersInForce
    <3> QED
      BY <1>3, <3>1, <3>2
  <2> QED
    BY <1>2, <1>4, <2>1 DEF OthersInForce
<1>7. ASSUME NEW k \in 1..(tx'.at - 1)
      PROVE  InForce(Calls[op][k], owner', entry', route')
  <2>1. k \in 1..tx.at /\ k \in 1..Len(Calls[op])
    BY <1>U, <1>1, <1>2, <1>7, CallsTyped
  <2>2. Calls[op][k] \in RouterCall
    BY <1>U, <2>1, CallsTyped
  <2>3. CASE k = tx.at
    BY <1>3, <2>3
  <2>4. CASE k # tx.at
    <3>1. k \in 1..(tx.at - 1)
      BY <1>U, <2>1, <2>4
    <3>2. InForce(Calls[op][k], owner, entry, route)
      BY <1>T, <3>1 DEF Underway
    <3> QED
      BY <1>3, <2>2, <3>2
  <2> QED
    BY <2>3, <2>4
<1>8. ASSUME NEW s \in Selector, entry'[s] # tx.entry[s]
      PROVE  \E k \in DOMAIN Calls[op] :
               Calls[op][k].fn \in {"add_verifier", "remove_verifier"} /\ Calls[op][k].selector = s
  <2>1. CASE entry'[s] # entry[s]
    <3>1. tx.at \in DOMAIN Calls[op]
      BY <1>U, <1>1, CallsTyped
    <3> QED
      BY <1>3, <2>1, <3>1
  <2>2. CASE entry'[s] = entry[s]
    BY <1>T, <1>8, <2>2 DEF Underway
  <2> QED
    BY <2>1, <2>2
<1>9. Underway'
  <2>1. tx'.at <= Len(Calls[op]) + 1
    BY <1>U, <1>1, <1>2, CallsTyped
  <2>2. AllInForce(tx'.ready, tx'.owner, tx'.entry, tx'.route) /\ RouterFits(tx'.owner, tx'.pendingOwner, tx'.entry, tx'.route)
    BY <1>T, <1>2 DEF Underway
  <2>3. \E a \in Account : MayExecute(a)'
    BY <1>T, <1>4 DEF Underway, MayExecute
  <2>4. /\ tx'.ready[op] > DONE /\ tx'.ready[op] <= now'
        /\ Pred[op] # None => tx'.ready[Pred[op]] = DONE
        /\ ready' = [tx'.ready EXCEPT ![op] = DONE]
        /\ doneAt' = [tx'.doneAt EXCEPT ![op] = now']
    BY <1>T, <1>2, <1>4 DEF Underway
  <2> HIDE DEF op, c
  <2> QED
    BY <1>2, <1>5, <1>6, <1>7, <1>8, <2>1, <2>2, <2>3, <2>4 DEF Underway
<1> QED
  BY <1>T, <1>2, <1>3, <1>5, <1>9, GovernanceAssumption DEF GInv

(* All calls have been made: the operation joins those in force.            *)
LEMMA CommitKeeps ==
  ASSUME GInv, tx # None, Commit
  PROVE  GInv'
<1> USE TimelockAssumption
<1>T. TypeOK /\ now > DONE /\ NoticeDue(ready) /\ Underway /\ RouterFits(owner, pendingOwner, entry, route)
    /\ lapsed \subseteq Selector
  BY DEF GInv
<1>1. UNCHANGED <<timelockVars, routerVars>> /\ tx' = None /\ tx.at > Len(Calls[tx.op])
  BY DEF Commit
<1>2. [Next]_timelockVars /\ UNCHANGED <<ready, noticeEnds, now>>
  BY <1>1 DEF timelockVars, operations
<1>3. TypeOK' /\ now' > DONE /\ NoticeDue(ready)'
  BY <1>T, <1>2, TypesKept DEF NoticeDue
<1>4. Idle
  <2>1. ASSUME NEW x \in External, ready[x] = DONE, NEW k \in DOMAIN Calls[x]
        PROVE  InForce(Calls[x][k], owner, entry, route)
    <3>1. CASE x = tx.op
      <4>1. k \in 1..(tx.at - 1)
        BY <1>T, <1>1, <2>1, <3>1, CallsTyped DEF Underway, TxType
      <4> QED
        BY <1>T, <3>1, <4>1 DEF Underway
    <3>2. CASE x # tx.op
      BY <1>T, <2>1, <3>2 DEF Underway, OthersInForce
    <3> QED
      BY <3>1, <3>2
  <2> QED
    BY <2>1 DEF Idle, AllInForce
<1>5. Idle' /\ RouterFits(owner, pendingOwner, entry, route)' /\ lapsed' \subseteq Selector
  BY <1>T, <1>1, <1>2, <1>4 DEF Idle, AllInForce, routerVars
<1> QED
  BY <1>1, <1>3, <1>5 DEF GInv

(* A call failed: everything is as before the mark.                         *)
LEMMA RevertKeeps ==
  ASSUME GInv, tx # None, Revert
  PROVE  GInv'
<1> USE TimelockAssumption
<1>T. TypeOK /\ now > DONE /\ NoticeDue(ready) /\ Underway
  BY DEF GInv
<1>1. /\ tx' = None /\ ready' = tx.ready /\ doneAt' = tx.doneAt
      /\ owner' = tx.owner /\ pendingOwner' = tx.pendingOwner
      /\ entry' = tx.entry /\ lapsed' = tx.lapsed /\ route' = tx.route
      /\ UNCHANGED <<power, now, noticeEnds>>
  BY DEF Revert
<1>2. TypeOK'
  BY <1>T, <1>1 DEF TypeOK, Underway, TxType, power
<1>3. NoticeDue(ready)' /\ now' > DONE
  BY <1>T, <1>1 DEF NoticeDue, Underway
<1>4. Idle' /\ RouterFits(owner, pendingOwner, entry, route)'
  BY <1>T, <1>1 DEF Underway, Idle
<1>5. lapsed' \subseteq Selector
  BY <1>T, <1>1 DEF Underway, TxType
<1> QED
  BY <1>1, <1>2, <1>3, <1>4, <1>5 DEF GInv

(* Every step keeps it, within a transaction or not.                       *)
LEMMA StepGInv ==
  ASSUME GInv, [GovernanceNext]_vars
  PROVE  GInv'
<1>1. CASE UNCHANGED vars
  BY <1>1 DEF vars, timelockVars, operations, power, routerVars, GInv, TypeOK, NoticeDue, Idle, Underway,
    OthersInForce, MayExecute
<1> QED
  BY <1>1, TimelockStepKeeps, RouterStepKeeps, BeginKeeps, CallNextKeeps, CommitKeeps, RevertKeeps
    DEF GovernanceNext

(* Router, clock and transaction always fit together.                       *)
THEOREM GovernanceInvariance == GovernanceSpec => []GInv
<1>1. GInv /\ [GovernanceNext]_vars => GInv'
  BY StepGInv
<1> QED
  BY InitGInv, <1>1, PTL DEF GovernanceSpec

(* Between transactions a done operation has taken effect with every call,  *)
(* and nothing takes that back.                                             *)
THEOREM DoneIsApplied == GovernanceSpec => []DoneMeansApplied
<1>1. GInv => DoneMeansApplied
  BY DEF GInv, Idle, DoneMeansApplied
<1> QED
  BY GovernanceInvariance, <1>1, PTL

-----------------------------------------------------------------------------
(* What the router's owner guarantees. *)

(* A router the timelock owns changes only by an operation whose notice was *)
(* over, when it is complete.                                               *)
THEOREM RouterIsGoverned == GovernanceSpec => RouterGoverned
<1> DEFINE Governed ==
      \A s \in Selector :
        Committed("entry", entry)'[s] # Committed("entry", entry)[s] /\ Committed("owner", owner)[Router] = Self =>
          \E op \in External :
            /\ Committed("ready", ready)[op] > DONE /\ IsDone(op)'
            /\ noticeEnds[op] <= now
            /\ \E k \in DOMAIN Calls[op] :
                 Calls[op][k].fn \in {"add_verifier", "remove_verifier"} /\ Calls[op][k].selector = s
<1>1. ASSUME GInv, GInv', GovernanceNext
      PROVE  Governed
  <2>1. CASE tx = None /\ tx' = None
    <3>1. Committed("entry", entry) = entry /\ Committed("entry", entry)' = entry' /\ Committed("owner", owner) = owner
      BY <2>1 DEF Committed
    <3>2. CASE RouterStep /\ UNCHANGED <<timelockVars, tx>>
      BY <1>1, <2>1, <3>1, <3>2, RouterStepKeeps
    <3>3. CASE UNCHANGED routerVars
      BY <3>1, <3>3 DEF routerVars
    <3> QED
      BY <1>1, <2>1, <3>2, <3>3 DEF GovernanceNext, Begin
  <2>2. CASE tx = None /\ tx' # None
    <3>1. PICK caller \in Account, op \in Op : Begin(caller, op)
      BY <1>1, <2>2 DEF GovernanceNext
    <3>2. tx'.entry = entry
      BY <3>1 DEF Begin, Snapshot
    <3>3. Committed("entry", entry)' = Committed("entry", entry)
      BY <2>2, <3>2 DEF Committed
    <3> QED
      BY <3>3
  <2>3. CASE tx # None /\ CallNext
    <3>1. tx' # None /\ tx'.entry = tx.entry
      BY <1>1, <2>3, TxAdvances, GovernanceAssumption DEF GInv, Underway
    <3>2. Committed("entry", entry)' = Committed("entry", entry)
      BY <2>3, <3>1 DEF Committed
    <3> QED
      BY <3>2
  <2>4. CASE tx # None /\ Revert
    <3>1. Committed("entry", entry)' = Committed("entry", entry)
      BY <2>4 DEF Committed, Revert
    <3> QED
      BY <3>1
  <2>5. CASE tx # None /\ Commit
    <3>1. Underway /\ NoticeDue(tx.ready) /\ TypeOK
      BY <1>1, <2>5 DEF GInv, Underway
    <3>2. Committed("entry", entry)' = entry /\ Committed("entry", entry) = tx.entry /\ Committed("ready", ready) = tx.ready
      BY <2>5 DEF Committed, Commit, routerVars
    <3>3. tx.op \in External /\ tx.op \in Op /\ tx.ready \in [Op -> Nat]
      BY <3>1, TimelockAssumption DEF Underway, TxType
    <3>4. IsDone(tx.op) /\ ready' = ready
      BY <2>5, <3>1, <3>3 DEF Underway, IsDone, Commit, timelockVars, operations
    <3>5. tx.ready[tx.op] > DONE /\ noticeEnds[tx.op] <= now
      BY <3>1, <3>3 DEF Underway, NoticeDue, TypeOK
    <3>6. \A s \in Selector : entry[s] # tx.entry[s] =>
            \E k \in DOMAIN Calls[tx.op] :
              Calls[tx.op][k].fn \in {"add_verifier", "remove_verifier"} /\ Calls[tx.op][k].selector = s
      BY <3>1 DEF Underway
    <3>7. ready'[tx.op] = DONE
      BY <3>4 DEF IsDone
    <3> QED
      BY <3>2, <3>3, <3>5, <3>6, <3>7 DEF IsDone
  <2> QED
    BY <1>1, <2>1, <2>2, <2>3, <2>4, <2>5 DEF GovernanceNext
<1>2. GInv /\ GInv' /\ [GovernanceNext]_vars => [Governed]_vars
  BY <1>1
<1> QED
  BY GovernanceInvariance, <1>2, PTL DEF GovernanceSpec, RouterGoverned

(* A timelock that can do nothing more leaves its router as it is.          *)
THEOREM FrozenTogether == GovernanceSpec => RouterFrozenToo
<1>1. ASSUME GInv, GovernanceNext, RouterFrozen
      PROVE  RouterFrozen' /\ entry' = entry
  <2> USE TimelockAssumption
  <2>1. TypeOK /\ tx = None /\ Frozen /\ owner[Router] = Self /\ pendingOwner[Router] = None
    BY <1>1 DEF RouterFrozen, GInv
  <2>2. CASE TimelockStep /\ UNCHANGED <<routerVars, tx>>
    <3>1. [Next]_timelockVars
      BY <2>2 DEF TimelockStep, Next
    <3>2. Frozen'
      BY <2>1, <3>1, FrozenStays
    <3> QED
      BY <2>1, <2>2, <3>2 DEF RouterFrozen, routerVars
  <2>3. CASE RouterStep /\ UNCHANGED <<timelockVars, tx>>
    <3>1. Frozen'
      BY <2>1, <2>3 DEF Frozen, SelfRuled, IsPending, timelockVars, power, operations
    <3>2. UNCHANGED <<owner, pendingOwner, entry>>
      <4>1. ASSUME NEW a \in Account, NEW c \in AccountCall, Call(a, c)
            PROVE  UNCHANGED <<owner, pendingOwner, entry>>
        <5>1. a # Self /\ a # None
          OBVIOUS
        <5> QED
          BY <2>1, <4>1, <5>1 DEF Call, R!AddVerifier, R!RemoveVerifier, R!OwnerSigned, R!TransferOwnership,
            R!AcceptOwnership, R!RenounceOwnership, routerVars
      <4>2. ~R!OfferLapses(Router)
        BY <2>1 DEF R!OfferLapses
      <4>3. ASSUME NEW s \in Selector, R!ArchiveEntry(s) \/ R!RestoreEntry(s)
            PROVE  UNCHANGED <<owner, pendingOwner, entry>>
        BY <4>3 DEF R!ArchiveEntry, R!RestoreEntry, R!ownership
      <4> QED
        BY <2>3, <4>1, <4>2, <4>3 DEF RouterStep
    <3> QED
      BY <2>1, <2>3, <3>1, <3>2 DEF RouterFrozen
  <2>4. ASSUME NEW caller \in Account, NEW op \in Op, Begin(caller, op)
        PROVE  FALSE
    BY <2>1, <2>4 DEF Frozen, Begin, MarkDone, IsReady
  <2> QED
    BY <1>1, <2>1, <2>2, <2>3, <2>4 DEF GovernanceNext
<1>2. GInv /\ [GovernanceNext]_vars => [RouterFrozen => RouterFrozen' /\ entry' = entry]_vars
  BY <1>1
<1> QED
  BY GovernanceInvariance, <1>2, PTL DEF GovernanceSpec, RouterFrozenToo

-----------------------------------------------------------------------------
(* Seen between transactions, this is the timelock. *)

(* A call of the timelock on itself reads nothing that Committed hides.     *)
LEMMA SamePerform ==
  ASSUME NEW c, Perform(c)
  PROVE  T!Perform(c)
BY DEF Perform, UpdateDelay, GrantRole, RevokeRole, SetRoleAdmin, TransferAdminRole, RenounceAdmin,
  T!Perform, T!UpdateDelay, T!GrantRole, T!RevokeRole, T!SetRoleAdmin, T!TransferAdminRole, T!RenounceAdmin

(* Where nothing is under way, its own steps are the timelock's steps.      *)
LEMMA SameSteps ==
  ASSUME tx = None, tx' = None, TimelockStep
  PROVE  T!Next
<1>1. /\ Committed("ready", ready) = ready /\ Committed("ready", ready)' = ready'
      /\ Committed("doneAt", doneAt) = doneAt /\ Committed("doneAt", doneAt)' = doneAt'
  BY DEF Committed
<1>2. ASSUME NEW a \in Account, NEW op \in Op, NEW delay \in Delay, Schedule(a, op, delay)
      PROVE  T!Schedule(a, op, delay)
  BY <1>1, <1>2 DEF Schedule, ScheduleId, power, UNSET, T!Schedule, T!ScheduleId, T!power, T!UNSET
<1>3. ASSUME NEW a \in Account, NEW op \in Op, Cancel(a, op)
      PROVE  T!Cancel(a, op)
  BY <1>1, <1>3 DEF Cancel, IsPending, power, UNSET, DONE, T!Cancel, T!IsPending, T!power, T!UNSET, T!DONE
<1>4. ASSUME NEW a \in Account, NEW op \in Op, SelfExecute(a, op)
      PROVE  T!SelfExecute(a, op)
  <2>1. T!Perform(SelfCall[op])
    BY <1>4, SamePerform DEF SelfExecute
  <2>2. T!MarkDone(op)
    BY <1>1, <1>4 DEF SelfExecute, MarkDone, IsReady, IsPending, IsDone, DONE,
      T!MarkDone, T!IsReady, T!IsPending, T!IsDone, T!DONE
  <2> QED
    BY <1>4, <2>1, <2>2 DEF SelfExecute, MayExecute, T!SelfExecute, T!MayExecute
<1>5. ASSUME NEW a \in Account, NEW c \in DirectCall, Administer(a, c)
      PROVE  T!Administer(a, c)
  <2>1. T!Perform(c)
    BY <1>5, SamePerform DEF Administer
  <2> QED
    BY <1>1, <1>5, <2>1 DEF Administer, Manages, operations, T!Administer, T!Manages, T!operations
<1>6. ASSUME NEW a \in Account, NEW r \in Role, RenounceRole(a, r)
      PROVE  T!RenounceRole(a, r)
  BY <1>1, <1>6 DEF RenounceRole, operations, T!RenounceRole, T!operations
<1>7. ASSUME NEW a \in Account, AcceptAdminTransfer(a)
      PROVE  T!AcceptAdminTransfer(a)
  BY <1>1, <1>7 DEF AcceptAdminTransfer, operations, T!AcceptAdminTransfer, T!operations
<1>8. OfferLapses => T!OfferLapses
  BY <1>1 DEF OfferLapses, operations, T!OfferLapses, T!operations
<1>9. Tick => T!Tick
  BY <1>1 DEF Tick, power, operations, T!Tick, T!power, T!operations
<1> QED
  BY <1>2, <1>3, <1>4, <1>5, <1>6, <1>7, <1>8, <1>9 DEF TimelockStep, T!Next, Role, T!Role

(* What is committed is a ready operation executed, in one step.            *)
LEMMA CommitExecutes ==
  ASSUME GInv, tx # None, Commit
  PROVE  T!Next
<1>1. Underway /\ TypeOK
  BY DEF GInv
<1>2. /\ Committed("ready", ready) = tx.ready /\ Committed("ready", ready)' = ready
      /\ Committed("doneAt", doneAt) = tx.doneAt /\ Committed("doneAt", doneAt)' = doneAt
  BY DEF Committed, Commit, timelockVars, operations
<1>3. PICK a \in Account : MayExecute(a)
  BY <1>1 DEF Underway
<1>4. tx.op \in External /\ tx.op \in Op
  BY <1>1, TimelockAssumption DEF Underway, TxType
<1>5. UNCHANGED <<power, now, noticeEnds>>
  BY DEF Commit, timelockVars, operations
<1>6. T!MarkDone(tx.op)
  BY <1>1, <1>2, <1>5 DEF Underway, DONE, T!MarkDone, T!IsReady, T!IsPending, T!IsDone, T!DONE
<1>7. T!Execute(a, tx.op)
  BY <1>3, <1>4, <1>5, <1>6 DEF MayExecute, power, T!Execute, T!MayExecute, T!power
<1> QED
  BY <1>4, <1>7 DEF T!Next

(* The governed timelock implements the timelock: opening a transaction,    *)
(* its calls and its rollback are invisible, its commit executes.           *)
THEOREM OneStepForOthers == GovernanceSpec => ImplementsTimelock
<1>1. GovernanceInit => T!Init
  <2> SUFFICES ASSUME GovernanceInit PROVE T!Init
    OBVIOUS
  <2>1. Committed("ready", ready) = ready /\ Committed("doneAt", doneAt) = doneAt
    BY DEF GovernanceInit, Committed
  <2>2. Init
    BY DEF GovernanceInit
  <2> QED
    BY <2>1, <2>2 DEF Init, Role, UNSET, T!Init, T!Role, T!UNSET
<1>2. ASSUME GInv, [GovernanceNext]_vars
      PROVE  [T!Next]_(T!timelockVars)
  <2> USE DEF T!timelockVars, T!power, T!operations
  <2>1. CASE UNCHANGED vars
    <3>1. /\ Committed("ready", ready)' = Committed("ready", ready)
          /\ Committed("doneAt", doneAt)' = Committed("doneAt", doneAt)
      BY <2>1 DEF vars, timelockVars, operations, Committed
    <3> QED
      BY <2>1, <3>1 DEF vars, timelockVars, operations, power
  <2>2. CASE tx = None /\ TimelockStep /\ UNCHANGED <<routerVars, tx>>
    BY <2>2, SameSteps
  <2>3. CASE tx = None /\ RouterStep /\ UNCHANGED <<timelockVars, tx>>
    <3>1. /\ Committed("ready", ready)' = Committed("ready", ready)
          /\ Committed("doneAt", doneAt)' = Committed("doneAt", doneAt)
      BY <2>3 DEF timelockVars, operations, Committed
    <3> QED
      BY <2>3, <3>1 DEF timelockVars, operations, power
  <2>4. ASSUME tx = None, NEW caller \in Account, NEW op \in Op, Begin(caller, op)
        PROVE  UNCHANGED T!timelockVars
    <3>1. tx' # None /\ tx'.ready = ready /\ tx'.doneAt = doneAt
      BY <1>2, <2>4, BeginKeeps DEF Begin, Snapshot
    <3>2. /\ Committed("ready", ready)' = Committed("ready", ready)
          /\ Committed("doneAt", doneAt)' = Committed("doneAt", doneAt)
      BY <2>4, <3>1 DEF Committed
    <3> QED
      BY <2>4, <3>2 DEF Begin, MarkDone, power
  <2>5. CASE tx # None /\ CallNext
    <3>1. tx' # None /\ tx'.ready = tx.ready /\ tx'.doneAt = tx.doneAt
      BY <1>2, <2>5, TxAdvances, GovernanceAssumption DEF GInv, Underway
    <3>2. /\ Committed("ready", ready)' = Committed("ready", ready)
          /\ Committed("doneAt", doneAt)' = Committed("doneAt", doneAt)
      BY <2>5, <3>1 DEF Committed
    <3> QED
      BY <2>5, <3>2 DEF CallNext, timelockVars, power, operations
  <2>6. CASE tx # None /\ Revert
    <3>1. /\ Committed("ready", ready)' = Committed("ready", ready)
          /\ Committed("doneAt", doneAt)' = Committed("doneAt", doneAt)
      BY <2>6 DEF Committed, Revert
    <3> QED
      BY <2>6, <3>1 DEF Revert, power
  <2>7. CASE tx # None /\ Commit
    BY <1>2, <2>7, CommitExecutes
  <2> QED
    BY <1>2, <2>1, <2>2, <2>3, <2>4, <2>5, <2>6, <2>7 DEF GovernanceNext
<1>3. GInv /\ [GovernanceNext]_vars => [T!Next]_(T!timelockVars)
  BY <1>2
<1> QED
  BY GovernanceInvariance, <1>1, <1>3, PTL DEF GovernanceSpec, ImplementsTimelock, T!Spec

-----------------------------------------------------------------------------
(* Seen between transactions, the router keeps its promise. *)

(* What was in force when the transaction began still is. *)
NothingTakenBack ==
  tx # None =>
    \A d \in RouterCall : InForce(d, tx.owner, tx.entry, tx.route) => InForce(d, owner, entry, route)

(* No call takes back what was in force before the transaction.             *)
LEMMA StepTakesNothingBack ==
  ASSUME GInv, NothingTakenBack, [GovernanceNext]_vars
  PROVE  NothingTakenBack'
<1>1. CASE UNCHANGED vars
  BY <1>1 DEF NothingTakenBack, vars, routerVars
<1>2. CASE tx' = None
  BY <1>2 DEF NothingTakenBack
<1>3. ASSUME tx = None, NEW caller \in Account, NEW op \in Op, Begin(caller, op)
      PROVE  NothingTakenBack'
  <2>1. tx'.owner = owner /\ tx'.entry = entry /\ tx'.route = route
    BY <1>3 DEF Begin, Snapshot
  <2> QED
    BY <1>3, <2>1 DEF NothingTakenBack, Begin, routerVars
<1>4. CASE tx # None /\ CallNext
  <2>1. Underway /\ RouterFits(owner, pendingOwner, entry, route)
    BY <1>4 DEF GInv
  <2>2. tx \in TxType /\ tx.at \in Nat \ {0} /\ tx.op \in External
    BY <2>1 DEF Underway, TxType
  <2>3. Call(Self, Calls[tx.op][tx.at]) /\ Calls[tx.op][tx.at] \in RouterCall
    BY <1>4, <2>2, CallsTyped DEF CallNext
  <2>4. \A d \in RouterCall : InForce(d, owner, entry, route) => InForce(d, owner', entry', route')
    BY <2>1, <2>3, CallKeeps, TimelockAssumption
  <2>5. tx'.owner = tx.owner /\ tx'.entry = tx.entry /\ tx'.route = tx.route
    BY <1>4, <2>2, TxAdvances
  <2> QED
    BY <1>4, <2>4, <2>5 DEF NothingTakenBack
<1> QED
  BY <1>1, <1>2, <1>3, <1>4 DEF GovernanceNext, Commit, Revert

(* Of a router two states fit, with nothing taken back from one to the      *)
(* other, that makes the step the promise allows.                           *)
LEMMA PromiseStep ==
  ASSUME NEW own, NEW pend, NEW ent, NEW rt, NEW own2, NEW pend2, NEW ent2, NEW rt2,
         RouterFits(own, pend, ent, rt), RouterFits(own2, pend2, ent2, rt2),
         \A d \in RouterCall : InForce(d, own, ent, rt) => InForce(d, own2, ent2, rt2)
  PROVE  /\ rt2 \in [Selector -> Verifier \cup {None}]
         /\ \A s \in Selector : rt[s] # None => rt2[s] = rt[s]
         /\ {s \in Selector : ent[s] = Tombstone} \subseteq {s \in Selector : ent2[s] = Tombstone}
<1>1. ASSUME NEW s \in Selector, rt[s] # None
      PROVE  rt2[s] = rt[s]
  <2> DEFINE d == [fn |-> "add_verifier", selector |-> s, verifier |-> rt[s]]
  <2>1. rt[s] \in Verifier
    BY <1>1 DEF RouterFits
  <2>2. d \in RouterCall /\ InForce(d, own, ent, rt)
    BY <2>1 DEF RouterCall, InForce
  <2>3. InForce(d, own2, ent2, rt2)
    BY <2>2
  <2> QED
    BY <2>3 DEF InForce
<1>2. ASSUME NEW s \in Selector, ent[s] = Tombstone
      PROVE  ent2[s] = Tombstone
  <2> DEFINE d == [fn |-> "remove_verifier", selector |-> s]
  <2>1. d \in RouterCall /\ InForce(d, own, ent, rt)
    BY <1>2 DEF RouterCall, InForce
  <2>2. InForce(d, own2, ent2, rt2)
    BY <2>1
  <2> QED
    BY <2>2 DEF InForce
<1> QED
  BY <1>1, <1>2 DEF RouterFits

(* Batches, rollbacks and changes of owner included, the governed router    *)
(* keeps SelectorPromise: no selector ever moves to another verifier, and   *)
(* none that was removed comes back.                                        *)
THEOREM GovernedRouterKeepsPromise == GovernanceSpec => ImplementsPromise
<1>1. GovernanceInit => NothingTakenBack /\ Promise!Init
  <2> SUFFICES ASSUME GovernanceInit
               PROVE  NothingTakenBack /\ Promise!Init
    OBVIOUS
  <2>1. /\ tx = None
        /\ route = [s \in Selector |-> None]
        /\ entry = [s \in Selector |-> Unset]
    BY DEF GovernanceInit, R!RouterInit
  <2> QED
    BY <2>1, GovernanceAssumption DEF NothingTakenBack, Committed, Promise!Init
<1>2. ASSUME GInv, GInv', NothingTakenBack, GovernanceNext
      PROVE  Promise!Next \/ UNCHANGED Promise!vars
  <2>1. CASE tx = None /\ tx' = None
    <3>1. /\ Committed("route", route) = route /\ Committed("route", route)' = route'
          /\ Committed("entry", entry) = entry /\ Committed("entry", entry)' = entry'
      BY <2>1 DEF Committed
    <3>2. CASE UNCHANGED routerVars
      BY <3>1, <3>2 DEF routerVars, Promise!vars
    <3>3. CASE RouterStep /\ UNCHANGED <<timelockVars, tx>>
      <4>1. /\ RouterFits(owner, pendingOwner, entry, route)
            /\ RouterFits(owner', pendingOwner', entry', route')
        BY <1>2 DEF GInv, RouterFits
      <4>2. \A d \in RouterCall : InForce(d, owner, entry, route) => InForce(d, owner', entry', route')
        BY <1>2, <2>1, <3>3, RouterStepKeeps
      <4>3. /\ route' \in [Selector -> Verifier \cup {None}]
            /\ \A s \in Selector : route[s] # None => route'[s] = route[s]
            /\ {s \in Selector : entry[s] = Tombstone} \subseteq {s \in Selector : entry'[s] = Tombstone}
        BY <4>1, <4>2, PromiseStep
      <4> QED
        BY <3>1, <4>3 DEF Promise!Next
    <3> QED
      BY <1>2, <2>1, <3>2, <3>3 DEF GovernanceNext, Begin
  <2>2. ASSUME tx = None, NEW caller \in Account, NEW op \in Op, Begin(caller, op)
        PROVE  UNCHANGED Promise!vars
    <3>1. tx' # None /\ tx'.route = route /\ tx'.entry = entry
      BY <1>2, <2>2, BeginKeeps DEF Begin, Snapshot
    <3>2. /\ Committed("route", route)' = Committed("route", route)
          /\ Committed("entry", entry)' = Committed("entry", entry)
      BY <2>2, <3>1 DEF Committed
    <3> QED
      BY <3>2 DEF Promise!vars
  <2>3. CASE tx # None /\ CallNext
    <3>1. tx' # None /\ tx'.route = tx.route /\ tx'.entry = tx.entry
      BY <1>2, <2>3, TxAdvances, GovernanceAssumption DEF GInv, Underway
    <3>2. /\ Committed("route", route)' = Committed("route", route)
          /\ Committed("entry", entry)' = Committed("entry", entry)
      BY <2>3, <3>1 DEF Committed
    <3> QED
      BY <3>2 DEF Promise!vars
  <2>4. CASE tx # None /\ Revert
    <3>1. /\ Committed("route", route)' = Committed("route", route)
          /\ Committed("entry", entry)' = Committed("entry", entry)
      BY <2>4 DEF Committed, Revert
    <3> QED
      BY <3>1 DEF Promise!vars
  <2>5. CASE tx # None /\ Commit
    <3>1. /\ Committed("route", route)' = route /\ Committed("route", route) = tx.route
          /\ Committed("entry", entry)' = entry /\ Committed("entry", entry) = tx.entry
      BY <2>5 DEF Committed, Commit, routerVars
    <3>2. /\ RouterFits(tx.owner, tx.pendingOwner, tx.entry, tx.route)
          /\ RouterFits(owner, pendingOwner, entry, route)
      BY <1>2, <2>5 DEF GInv, Underway
    <3>3. /\ route \in [Selector -> Verifier \cup {None}]
          /\ \A s \in Selector : tx.route[s] # None => route[s] = tx.route[s]
          /\ {s \in Selector : tx.entry[s] = Tombstone} \subseteq {s \in Selector : entry[s] = Tombstone}
      BY <1>2, <2>5, <3>2, PromiseStep DEF NothingTakenBack
    <3> QED
      BY <3>1, <3>3 DEF Promise!Next
  <2> QED
    BY <1>2, <2>1, <2>2, <2>3, <2>4, <2>5 DEF GovernanceNext
<1>3. GInv /\ GInv' /\ NothingTakenBack /\ [GovernanceNext]_vars => [Promise!Next]_(Promise!vars)
  <2>1. UNCHANGED vars => UNCHANGED Promise!vars
    BY DEF vars, routerVars, Promise!vars, Committed
  <2> QED
    BY <1>2, <2>1
<1>4. GInv /\ NothingTakenBack /\ [GovernanceNext]_vars => NothingTakenBack'
  BY StepTakesNothingBack
<1> QED
  BY GovernanceInvariance, <1>1, <1>3, <1>4, PTL DEF GovernanceSpec, ImplementsPromise, Promise!Spec
=============================================================================
