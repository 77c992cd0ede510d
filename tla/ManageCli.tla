------------------------------ MODULE ManageCli ------------------------------
(***************************************************************************)
(* The operator's scripts, reference-verifier/scripts: manage.sh changes   *)
(* the chain by one transaction at a time and then rewrites                *)
(* deployment.toml, from which later commands take their addresses.  No    *)
(* lock is held, the file is not replaced atomically, and a command may be *)
(* killed or miss the answer to a transaction that went through.           *)
(*                                                                         *)
(* The chain is the router and the emergency stops of their own modules    *)
(* and the timelock as far as a command sees it: the state of each         *)
(* operation.  The operator holds the roles the commands check.            *)
(***************************************************************************)
EXTENDS VerifierRouter, EmergencyStop, Integers, Sequences

CONSTANTS
  Shell,       \* terminals of the operators
  Timelock,    \* the router's owner
  Operator,    \* the account that deploys, proposes, executes and guards
  Mock,        \* the verifiers deploy-mock-verifier may deploy
  Named,       \* the addresses operators give in flags
  Torn,        \* a file short of its content, which no command can read
  MaxCommands  \* bound on the commands started

ASSUME ManageAssumption ==
  /\ {Timelock, Operator} \subseteq Account
  /\ Mock \subseteq Impl
  /\ Named \subseteq Verifier
  /\ Verifier = Wrapper \cup Impl
  /\ Wrapper \cap Impl = {}
  /\ None \notin Selector
  /\ OwnSelector \in [Impl -> Selector]
  /\ MaxCommands \in Nat

OpType ==
  [fn : {"add_verifier"}, selector : Selector, target : Verifier]
    \cup [fn : {"remove_verifier"}, selector : Selector]

AddOp(s, v) == [fn |-> "add_verifier", selector |-> s, target |-> v]
RemoveOp(s) == [fn |-> "remove_verifier", selector |-> s]

VARIABLES
  mocks,     \* mock verifiers deployed
  state,     \* get_operation_state of each operation
  file,      \* deployment.toml: the chain's verifier list
  pc, job,   \* each shell's next step, and its command with what it has read
  commands,  \* commands started
  calm,      \* history: no command was killed, left unanswered or overlapped
  alone      \* history: no command overlapped another

chain == <<ownership, entry, lapsed, route, wrapped, paused, mocks, state>>
history == <<calm, alone>>
vars == <<chain, file, pc, job, commands, history>>

Idle(sh) == pc[sh] = "idle"
NoJob == [cmd |-> "none", selector |-> None, target |-> None, op |-> None, copy |-> None]

Init ==
  /\ RouterInit
  /\ owner[Router] = Timelock
  /\ StopInit
  /\ mocks = {}
  /\ state = [op \in OpType |-> "Unset"]
  /\ file = <<>>
  /\ pc = [sh \in Shell |-> "idle"]
  /\ job = [sh \in Shell |-> NoJob]
  /\ commands = 0
  /\ calm = TRUE
  /\ alone = TRUE

-----------------------------------------------------------------------------
(* deployment.toml. *)

EntryType ==
  [selector : Selector, verifier : Impl, estop : Wrapper \cup {None}, unroutable : BOOLEAN]

ASSUME TornAssumption == Torn \notin Seq(EntryType)

(* Mutant: an entry without the flag, which reads as routable. *)
EntryUnflagged(s, i, w) == [selector |-> s, verifier |-> i, estop |-> w, unroutable |-> FALSE]

Entry(s, i, w) == [selector |-> s, verifier |-> i, estop |-> w, unroutable |-> TRUE]

(* find_verifier: the first entry for the selector, 0 if there is none. *)
FindVerifier(f, s) ==
  LET hits == {k \in DOMAIN f : f[k].selector = s} IN
  IF hits = {} THEN 0 ELSE CHOOSE k \in hits : \A j \in hits : k <= j

(* What config_get_verifier_field finds, None where the helper fails: the   *)
(* file cannot be read, the selector has no entry or the entry no such      *)
(* field.                                                                   *)
Listed(f, s) == f # Torn /\ FindVerifier(f, s) # 0

ContractFromConfig(f, s) == IF Listed(f, s) THEN f[FindVerifier(f, s)].verifier ELSE None

(* Mutant: the wrong field is asked for. *)
EstopMistaken(f, s) == ContractFromConfig(f, s)

EstopFromConfig(f, s) == IF Listed(f, s) THEN f[FindVerifier(f, s)].estop ELSE None

-----------------------------------------------------------------------------
(* Steps of a command. *)

Go(sh, step, j) ==
  /\ pc' = [pc EXCEPT ![sh] = step]
  /\ job' = [job EXCEPT ![sh] = j]

Leave(sh) == Go(sh, "idle", NoJob)

Adding == {"schedule-add-verifier", "execute-add-verifier"}
Removing == {"schedule-remove-verifier", "execute-remove-verifier"}
Deploying == {"deploy-verifier", "deploy-mock-verifier"}

(* The verifiers that are deployed behind a wrapper. *)
Bare == Impl \ Mock

(* The addresses the deployments printed. *)
Deployed ==
  LET wrappers == {w \in Wrapper : wrapped[w] # None} IN
  mocks \cup wrappers \cup {wrapped[w] : w \in wrappers}

(* The commands an operator may type, None where a flag is left out.        *)
Command ==
  [cmd : Adding, selector : Selector, target : (Named \cap Deployed) \cup {None}]
    \cup [cmd : Removing \cup {"activate-estop"}, selector : Selector, target : {None}]
    \cup [cmd : {"activate-estop"}, selector : {None}, target : Named \cap Deployed]
    \cup [cmd : Deploying, selector : {None}, target : {None}]

(* A command begins, beside others or not. *)
Start(sh, step, j) ==
  /\ Idle(sh)
  /\ commands < MaxCommands
  /\ commands' = commands + 1
  /\ calm' = (calm /\ \A o \in Shell : Idle(o))
  /\ alone' = (alone /\ \A o \in Shell : Idle(o))
  /\ Go(sh, step, j)
  /\ UNCHANGED <<chain, file>>

(* Deployments and a stop by address read no address from the file, a stop  *)
(* by selector only the one it stops.                                       *)
Type(sh, c) ==
  Start(sh, IF c.selector = None THEN "submit" ELSE IF c.cmd = "activate-estop" THEN "estop" ELSE "config",
        [NoJob EXCEPT !.cmd = c.cmd, !.selector = c.selector, !.target = c.target])

(* cancel-operation takes the operation's id. *)
TypeCancel(sh, op) ==
  /\ state[op] # "Unset"
  /\ Start(sh, "config", [NoJob EXCEPT !.cmd = "cancel-operation", !.op = op])

(* load_config and require_router: without the addresses of timelock and    *)
(* router, which never change, the command ends, whichever of the two reads *)
(* fails.  What a command then knows of its operation.                      *)
LoadConfig(sh) ==
  /\ pc[sh] = "config"
  /\ LET j == job[sh] IN
       CASE file = Torn -> Leave(sh)
         [] file # Torn /\ j.cmd \in Removing ->
              Go(sh, "check", [j EXCEPT !.op = RemoveOp(j.selector)])
         [] file # Torn /\ j.cmd \in Adding /\ j.target # None ->
              Go(sh, "check", [j EXCEPT !.op = AddOp(j.selector, j.target)])
         [] file # Torn /\ j.cmd \in Adding /\ j.target = None -> Go(sh, "estop", j)
         [] OTHER -> Go(sh, "submit", j)
  /\ UNCHANGED <<chain, file, commands, history>>

(* The address v was found in the file: to be stopped, or to be added.      *)
Found(sh, v) ==
  IF job[sh].cmd = "activate-estop"
    THEN Go(sh, "submit", [job[sh] EXCEPT !.target = v])
    ELSE Go(sh, "check", [job[sh] EXCEPT !.op = AddOp(job[sh].selector, v)])

(* The first look-up of require_verifier_estop, and the only one of         *)
(* activate-estop.  A file that cannot be read looks like one without an    *)
(* emergency stop.                                                          *)
FindEstop(sh) ==
  /\ pc[sh] = "estop"
  /\ LET v == EstopFromConfig(file, job[sh].selector) IN
       IF v # None THEN Found(sh, v)
       ELSE IF job[sh].cmd = "activate-estop" THEN Leave(sh)
       ELSE Go(sh, "contract", job[sh])
  /\ UNCHANGED <<chain, file, commands, history>>

(* The second, of a file that may be another by now.                        *)
FindContract(sh) ==
  /\ pc[sh] = "contract"
  /\ LET v == ContractFromConfig(file, job[sh].selector) IN
       IF v = None THEN Leave(sh) ELSE Found(sh, v)
  /\ UNCHANGED <<chain, file, commands, history>>

(* check_selector_available, check_selector_exists, check_operation_ready. *)
Precondition(j) ==
  CASE j.cmd = "schedule-add-verifier"    -> entry[j.selector] = Unset
    [] j.cmd = "schedule-remove-verifier" -> entry[j.selector] \in Verifier
    [] OTHER                              -> state[j.op] = "Ready"

Check(sh) ==
  /\ pc[sh] = "check"
  /\ IF Precondition(job[sh]) THEN Go(sh, "submit", job[sh]) ELSE Leave(sh)
  /\ UNCHANGED <<chain, file, commands, history>>

(* The transaction of a command, where the chain accepts it.  The verifier  *)
(* a deployment wraps has no state; its contract and the wrapper's are one  *)
(* step here.                                                               *)
Schedule(op) ==
  /\ state[op] = "Unset"
  /\ state' = [state EXCEPT ![op] = "Waiting"]
  /\ UNCHANGED <<ownership, entry, lapsed, route, wrapped, paused, mocks>>

Execute(op) ==
  /\ state[op] = "Ready"
  /\ state' = [state EXCEPT ![op] = "Done"]
  /\ IF op.fn = "add_verifier"
       THEN AddVerifier(Timelock, op.selector, op.target)
       ELSE RemoveVerifier(Timelock, op.selector)
  /\ UNCHANGED <<wrapped, paused, mocks>>

Cancel(op) ==
  /\ state[op] \in {"Waiting", "Ready"}
  /\ state' = [state EXCEPT ![op] = "Unset"]
  /\ UNCHANGED <<ownership, entry, lapsed, route, wrapped, paused, mocks>>

Stop(w) ==
  /\ w \in Wrapper
  /\ Estop(Operator, w)
  /\ UNCHANGED <<entry, lapsed, route, mocks, state>>

DeployWrapper(w, i) ==
  /\ ConstructWrapper(w, i, Operator)
  /\ UNCHANGED <<entry, lapsed, route, mocks, state>>

DeployMock(i) ==
  /\ i \notin mocks
  /\ mocks' = mocks \cup {i}
  /\ UNCHANGED <<ownership, entry, lapsed, route, wrapped, paused, state>>

Apply(j) ==
  \/ j.cmd \in {"schedule-add-verifier", "schedule-remove-verifier"} /\ Schedule(j.op)
  \/ j.cmd \in {"execute-add-verifier", "execute-remove-verifier"} /\ Execute(j.op)
  \/ j.cmd = "cancel-operation" /\ Cancel(j.op)
  \/ j.cmd = "activate-estop" /\ Stop(j.target)

(* Mutant: the file is brought up to date only after an addition. *)
UpdatesOnAdd(j) == j.cmd = "execute-add-verifier"

(* The commands that bring the file up to date when the chain has accepted. *)
Updates(j) == j.cmd \in {"execute-add-verifier", "execute-remove-verifier"}

(* Mutant: the file is brought up to date whether or not it went through. *)
SubmitAndHope(sh) ==
  /\ pc[sh] = "submit"
  /\ Apply(job[sh]) \/ UNCHANGED chain
  /\ IF Updates(job[sh]) THEN Go(sh, "load", job[sh]) ELSE Leave(sh)
  /\ UNCHANGED <<file, commands, history>>

(* run_stellar_op and schedule_timelock_op: on a failure, real or only an   *)
(* answer that did not arrive, the script exits.                            *)
Submit(sh) ==
  /\ pc[sh] = "submit"
  /\ \/ /\ Apply(job[sh])
        /\ IF Updates(job[sh]) THEN Go(sh, "load", job[sh]) ELSE Leave(sh)
        /\ UNCHANGED calm
     \/ /\ Apply(job[sh])
        /\ Leave(sh)
        /\ calm' = FALSE
     \/ /\ Leave(sh)
        /\ UNCHANGED <<chain, calm>>
  /\ UNCHANGED <<file, commands, alone>>

(* The deployments; when the new verifier cannot be asked for its selector, *)
(* the file is not written.                                                 *)
SubmitDeployment(sh) ==
  /\ pc[sh] = "submit"
  /\ \E i \in Impl, w \in Wrapper \cup {None} :
       /\ \/ job[sh].cmd = "deploy-verifier" /\ i \notin Mock /\ w # None /\ DeployWrapper(w, i)
          \/ job[sh].cmd = "deploy-mock-verifier" /\ i \in Mock /\ w = None /\ DeployMock(i)
       /\ \/ Go(sh, "load", [job[sh] EXCEPT !.copy = <<Entry(OwnSelector[i], i, w)>>]) /\ UNCHANGED calm
          \/ Leave(sh) /\ calm' = FALSE
  /\ UNCHANGED <<file, commands, alone>>

(* cmd_add_verifier and cmd_update_verifier on the list read_toml returned; *)
(* Torn if they give up.                                                    *)
Rewritten(f, j) ==
  LET k == FindVerifier(f, j.selector) IN
  CASE ~Updates(j) -> f \o j.copy
    [] Updates(j) /\ k = 0 -> Torn
    [] OTHER       -> [f EXCEPT ![k].unroutable = (j.cmd = "execute-remove-verifier")]

Load(sh) ==
  /\ pc[sh] = "load"
  /\ IF file = Torn \/ Rewritten(file, job[sh]) = Torn
       THEN Leave(sh)
       ELSE Go(sh, "truncate", [job[sh] EXCEPT !.copy = Rewritten(file, job[sh])])
  /\ UNCHANGED <<chain, file, commands, history>>

(* write_toml opens the file empty and then fills it. *)
Truncate(sh) ==
  /\ pc[sh] = "truncate"
  /\ file' = Torn
  /\ Go(sh, "fill", job[sh])
  /\ UNCHANGED <<chain, commands, history>>

(* Where another command filled the file in between and wrote more, a tail  *)
(* of it remains: whole entries, or a piece that makes it unreadable.       *)
Mixtures(copy) ==
  {copy \o SubSeq(file, k + 1, Len(file)) : k \in 1..(Len(file) - 1)} \cup {Torn}

Fill(sh) ==
  /\ pc[sh] = "fill"
  /\ file' = job[sh].copy \/ (file # Torn /\ file' \in Mixtures(job[sh].copy))
  /\ Leave(sh)
  /\ UNCHANGED <<chain, commands, history>>

(* The terminal is closed; nothing is rolled back. *)
Kill(sh) ==
  /\ ~Idle(sh)
  /\ Leave(sh)
  /\ calm' = FALSE
  /\ UNCHANGED <<chain, file, commands, alone>>

(* The delay of a scheduled operation passes. *)
Ripen(op) ==
  /\ state[op] = "Waiting"
  /\ state' = [state EXCEPT ![op] = "Ready"]
  /\ UNCHANGED <<ownership, entry, lapsed, route, wrapped, paused, mocks, file, pc, job, commands, history>>

(* The script goes on. *)
Proceed(sh) ==
  \/ LoadConfig(sh) \/ FindEstop(sh) \/ FindContract(sh) \/ Check(sh)
  \/ Submit(sh) \/ SubmitDeployment(sh)
  \/ Load(sh) \/ Truncate(sh) \/ Fill(sh)

Next ==
  \/ \E sh \in Shell :
       \/ \E c \in Command : Type(sh, c)
       \/ \E op \in OpType : TypeCancel(sh, op)
       \/ Proceed(sh)
       \/ Kill(sh)
  \/ \E op \in OpType : Ripen(op)

Spec == Init /\ [][Next]_vars

(* bash runs a script on until it exits; nothing makes an operator type the *)
(* next command or a delay pass.                                            *)
FairSpec == Spec /\ \A sh \in Shell : WF_vars(Proceed(sh))

-----------------------------------------------------------------------------
(* Properties. *)

(* Whatever overlaps, fails or dies: the file calls a selector routable     *)
(* only if a verifier was added for it.                                     *)
RoutableWasAdded ==
  file # Torn => \A k \in DOMAIN file : ~file[k].unroutable => route[file[k].selector] # None

(* Stopping stays possible: scripts/README.md:129, "the estop address is    *)
(* resolved from deployment.toml automatically".  As long as commands do    *)
(* not overlap, however they fail, die or go unanswered, the router uses a  *)
(* verifier that was deployed behind a wrapper only through the wrapper,    *)
(* unless operators name the verifier itself.  With an overlap this is      *)
(* false: the first look-up may find the file empty and the second full.    *)
Stoppable == alone => \A s \in Selector : entry[s] \in Bare => entry[s] \in Named

(* The selector a deployed verifier answers to. *)
Built(v) == OwnSelector[IF v \in Wrapper THEN wrapped[v] ELSE v]

(* The list f tells the truth: it has what was deployed, and the first      *)
(* entry for a selector is routable exactly while the router has an active  *)
(* verifier for it.  A verifier added under a selector it was not built for *)
(* may be missing, its own entry being under another.                       *)
Truthful(f) ==
  /\ f # Torn
  /\ \A v \in Deployed :
       \E k \in DOMAIN f : f[k].selector = Built(v) /\ v \in {f[k].estop, f[k].verifier}
  /\ \A s \in Selector :
       LET k == FindVerifier(f, s) IN
       IF entry[s] \in Verifier
         THEN Built(entry[s]) = s => k # 0 /\ ~f[k].unroutable
         ELSE k # 0 => f[k].unroutable

(* As long as no command was killed, unanswered or overlapped, the file     *)
(* tells the truth between commands.                                        *)
FileTrue == calm /\ (\A sh \in Shell : Idle(sh)) => Truthful(file)

(* Changes of the routes the file does not have yet.                        *)
Unrecorded ==
  \E s \in Selector :
    /\ entry[s] # Unset
    /\ Built(route[s]) = s
    /\ file # Torn => ~ \E k \in DOMAIN file :
         file[k].selector = s /\ file[k].unroutable = (entry[s] = Tombstone)

(* A change of the routes reaches the file, provided nothing disturbs the   *)
(* commands and the verifier was added under its own selector.              *)
ChangesRecorded == Unrecorded ~> (~Unrecorded \/ ~calm)

(* scripts/README.md, "Activate the emergency stop": by selector, the       *)
(* address is resolved from the file and the verifier permanently paused.   *)
(* So a stop by selector stops what the router routes the selector to, at   *)
(* least as long as nothing disturbed the commands.                         *)
StopsTheSelector ==
  [][\A sh \in Shell :
       LET s == job[sh].selector IN
       /\ pc[sh] = "submit" /\ job[sh].cmd = "activate-estop"
       /\ paused' # paused
       /\ calm
       /\ s \in Selector
       /\ entry[s] \in Wrapper
       => paused'[entry[s]]]_vars

-----------------------------------------------------------------------------
(* The inductive invariant of ManageCliProofs. *)

Job ==
  [cmd : Adding \cup Removing \cup Deploying \cup {"activate-estop", "cancel-operation", "none"},
   selector : Selector \cup {None}, target : Verifier \cup {None}, op : OpType \cup {None},
   copy : Seq(EntryType) \cup {None}]

Steps == {"idle", "config", "estop", "contract", "check", "submit", "load", "truncate", "fill"}

TypeOK ==
  /\ RouterTypeOK
  /\ StopTypeOK
  /\ mocks \subseteq Impl
  /\ state \in [OpType -> {"Unset", "Waiting", "Ready", "Done"}]
  /\ file \in Seq(EntryType) \cup {Torn}
  /\ pc \in [Shell -> Steps]
  /\ job \in [Shell -> Job]
  /\ commands \in Nat
  /\ calm \in BOOLEAN
  /\ alone \in BOOLEAN

(* Every entry of a list is of a deployment, and a routable one of a        *)
(* selector that was added.                                                 *)
Recorded(f) ==
  \A k \in DOMAIN f :
    /\ f[k].selector = OwnSelector[f[k].verifier]
    /\ IF f[k].estop = None THEN f[k].verifier \in mocks ELSE wrapped[f[k].estop] = f[k].verifier
    /\ ~f[k].unroutable => route[f[k].selector] # None

(* What a command carries at each step. *)
Carries(j, step) ==
  /\ j.target # None => j.target \in Deployed
  /\ step = "config" => j.cmd \notin Deploying \cup {"none"}
  /\ step = "estop" => j.cmd \in Adding \cup {"activate-estop"}
  /\ step = "contract" => j.cmd \in Adding
  /\ j.cmd \in Adding \cup Removing /\ step # "idle" => j.selector \in Selector
  /\ j.cmd \in Adding /\ step \in {"check", "submit"} =>
       \E v \in Deployed : j.op = AddOp(j.selector, v)
  /\ j.cmd \in Removing /\ step \in {"check", "submit"} => j.op = RemoveOp(j.selector)
  /\ step = "load" => (j.cmd \in Deploying \/ Updates(j))
  /\ step = "load" /\ Updates(j) =>
       IF j.cmd = "execute-add-verifier" THEN route[j.selector] # None ELSE entry[j.selector] = Tombstone
  /\ step = "load" /\ j.cmd \in Deploying =>
       /\ j.copy \in Seq(EntryType)
       /\ Len(j.copy) = 1
       /\ j.copy[1].unroutable
  /\ (step = "load" /\ j.cmd \in Deploying) \/ step \in {"truncate", "fill"} =>
       j.copy \in Seq(EntryType) /\ Recorded(j.copy)

Records ==
  /\ \A s \in Selector : entry[s] = Unset <=> route[s] = None
  /\ \A s \in Selector : entry[s] \in Verifier => entry[s] \in Deployed
  /\ file # Torn => Recorded(file)
  /\ \A sh \in Shell : Carries(job[sh], pc[sh])

(* An undisturbed command is the only one, and leads from one true file to  *)
(* another.                                                                 *)
Leads(j, step) ==
  CASE step = "load"     ->
         file # Torn /\ Truthful(IF Rewritten(file, j) = Torn THEN file ELSE Rewritten(file, j))
    [] step = "truncate" -> Truthful(j.copy)
    [] step = "fill"     -> Truthful(j.copy) /\ file = Torn
    [] OTHER             -> Truthful(file)

Undisturbed ==
  calm =>
    /\ \A a, b \in Shell : ~Idle(a) /\ ~Idle(b) => a = b
    /\ (\A sh \in Shell : Idle(sh)) => Truthful(file)
    /\ \A sh \in Shell : ~Idle(sh) => Leads(job[sh], pc[sh])

(* The verifiers the look-up may take for themselves. *)
Stopped(v) == v \in Bare => v \in Named

(* A command that is alone finds the file the second time as it found it    *)
(* the first.                                                               *)
Finds(f, j, step) ==
  /\ j.cmd \in Adding => Stopped(j.target)
  /\ step = "contract" => EstopFromConfig(f, j.selector) = None
  /\ step \in {"check", "submit"} /\ j.cmd \in Adding => Stopped(j.op.target)

StopsInPlace ==
  alone =>
    /\ \A a, b \in Shell : ~Idle(a) /\ ~Idle(b) => a = b
    /\ \A sh \in Shell : Finds(file, job[sh], pc[sh])
    /\ \A s \in Selector : entry[s] \in Verifier => Stopped(entry[s])

IInv == TypeOK /\ Records /\ Undisturbed /\ mocks \subseteq Mock /\ StopsInPlace
=============================================================================
