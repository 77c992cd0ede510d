------------------------------ MODULE IssuerCli ------------------------------
(***************************************************************************)
(* The issuer's command line (issuer/src/lib.rs): keygen writes a key pair *)
(* to two files, sign reads the key back and writes a statement and its    *)
(* signature to two more.  No file is written atomically, no lock is held, *)
(* and any command may fail or be killed at any point, so the directory is *)
(* shared state between commands that overlap.                             *)
(*                                                                         *)
(* fs::write opens the file empty and then fills it.  A statement filled   *)
(* over another, longer or shorter, one may be left with a tail of it.     *)
(***************************************************************************)
EXTENDS Naturals, Sequences

CONSTANTS
  Proc,         \* commands that may run at the same time
  Key,          \* Ed25519 key pairs the generator may return
  Request,      \* what sign is asked for: a name and the raw monthly values
  Bad,          \* a monthly value that is no u64
  Torn,         \* a file left short, empty or with a foreign tail
  None,         \* no file
  MaxCommands   \* bound on the commands started

ASSUME IssuerAssumption ==
  /\ \A r \in Request : r.incomes \in Seq(Nat \cup {Bad})
  /\ Bad \notin Nat
  /\ Torn \notin Key /\ None \notin Key
  /\ MaxCommands \in Nat

EXPECTED_MONTHS == 3

(* The members serde_json writes, and those the guest's Statement needs. *)
StatementFields == {"schema", "subject_id", "issuer", "currency", "issued_at",
                    "period_months", "monthly_net_income"}
GuestFields == {"schema", "subject_id", "issuer", "currency", "issued_at",
                "period", "period_months", "monthly_net_income"}

File == {"issuer_signing", "issuer_pubkey", "statement", "signature"}

VARIABLES
  dir,        \* what each file holds; the pair's two halves are both its key
  pc,         \* the step each command is at
  open,       \* has the command truncated the file it is writing
  job,        \* the key and the statement the command holds
  generated,  \* keys handed out by the generator
  commands,   \* commands started
  signed,     \* history: the signatures made, as key and statement
  alone,      \* history: has no other command overlapped this one
  trail       \* history: what the last finished commands leave behind

vars == <<dir, pc, open, job, generated, commands, signed, alone, trail>>

-----------------------------------------------------------------------------
parse_incomes(raw) == Len(raw) = EXPECTED_MONTHS /\ \A m \in DOMAIN raw : raw[m] # Bad

build_statement(r) ==
  [fields |-> StatementFields, subject |-> r.subject,
   period_months |-> Len(r.incomes), monthly_net_income |-> r.incomes]

Statement == {build_statement(r) : r \in {q \in Request : parse_incomes(q.incomes)}}

Signature == [key : Key, doc : Statement]

WriteStep == {"write_key", "write_pubkey", "write_statement", "write_signature"}

Target(step) ==
  CASE step = "write_key"       -> "issuer_signing"
    [] step = "write_pubkey"    -> "issuer_pubkey"
    [] step = "write_statement" -> "statement"
    [] step = "write_signature" -> "signature"

(* Mutant: keygen returns before it writes the public key. *)
AfterWritingKeyOnly(step) ==
  IF step = "write_statement" THEN "write_signature" ELSE "idle"

After(step) ==
  CASE step = "write_key"       -> "restrict"
    [] step = "write_statement" -> "write_signature"
    [] OTHER                    -> "idle"

Content(p) ==
  CASE pc[p] \in {"write_key", "write_pubkey"} -> job[p].key
    [] pc[p] = "write_statement" -> job[p].doc
    [] OTHER -> job[p]

Idle(p) == pc[p] = "idle"

-----------------------------------------------------------------------------
Init ==
  /\ dir = [f \in File |-> None]
  /\ pc = [p \in Proc |-> "idle"]
  /\ open = [p \in Proc |-> FALSE]
  /\ job = [p \in Proc |-> [key |-> None, doc |-> None]]
  /\ generated = {}
  /\ commands = 0
  /\ signed = {}
  /\ alone = [p \in Proc |-> FALSE]
  /\ trail = "unknown"

Start(p, step) ==
  /\ Idle(p)
  /\ commands < MaxCommands
  /\ commands' = commands + 1
  /\ pc' = [pc EXCEPT ![p] = step]
  /\ alone' = [q \in Proc |-> q = p /\ \A o \in Proc : Idle(o)]

(* run_keygen draws a key no generator returned before. *)
StartKeygen(p, k) ==
  /\ k \notin generated
  /\ Start(p, "write_key")
  /\ generated' = generated \cup {k}
  /\ job' = [job EXCEPT ![p] = [key |-> k, doc |-> None]]
  /\ UNCHANGED <<dir, open, signed, trail>>

(* run_sign parses its arguments first; on an error no command starts. *)
StartSign(p, r) ==
  /\ parse_incomes(r.incomes)
  /\ Start(p, "read_key")
  /\ job' = [job EXCEPT ![p] = [key |-> None, doc |-> build_statement(r)]]
  /\ UNCHANGED <<dir, open, generated, signed, trail>>

(* Mutant: sign starts on a key file it could not read in full. *)
ReadKeyAnyLength(p) ==
  /\ pc[p] = "read_key"
  /\ dir["issuer_signing"] # None
  /\ job' = [job EXCEPT ![p].key = dir["issuer_signing"]]
  /\ signed' = signed \cup {[key |-> dir["issuer_signing"], doc |-> job[p].doc]}
  /\ pc' = [pc EXCEPT ![p] = "write_statement"]
  /\ UNCHANGED <<dir, open, generated, commands, alone, trail>>

(* read_file, the length check, and the signature made in memory. *)
ReadKey(p) ==
  /\ pc[p] = "read_key"
  /\ dir["issuer_signing"] \in Key
  /\ job' = [job EXCEPT ![p].key = dir["issuer_signing"]]
  /\ signed' = signed \cup {[key |-> dir["issuer_signing"], doc |-> job[p].doc]}
  /\ pc' = [pc EXCEPT ![p] = "write_statement"]
  /\ UNCHANGED <<dir, open, generated, commands, alone, trail>>

(* What a truncation makes of the files. *)
TrailOnTruncate(step) ==
  IF step \in {"write_key", "write_pubkey"} THEN "unknown"
  ELSE IF trail = "settled" THEN "paired" ELSE trail

Truncate(p) ==
  /\ pc[p] \in WriteStep
  /\ ~open[p]
  /\ dir' = [dir EXCEPT ![Target(pc[p])] = Torn]
  /\ open' = [open EXCEPT ![p] = TRUE]
  /\ trail' = TrailOnTruncate(pc[p])
  /\ UNCHANGED <<pc, job, generated, commands, signed, alone>>

(* What a command that returns Ok makes of them. *)
TrailOnFill(p) ==
  IF After(pc[p]) # "idle" \/ ~alone[p] THEN trail
  ELSE IF pc[p] \in {"write_key", "write_pubkey"} THEN "paired"
  ELSE IF trail = "paired" THEN "settled" ELSE trail

Fill(p) ==
  /\ pc[p] \in WriteStep
  /\ open[p]
  /\ LET f == Target(pc[p]) IN
       \/ dir' = [dir EXCEPT ![f] = Content(p)]
       \/ f = "statement" /\ dir[f] # Torn /\ dir' = [dir EXCEPT ![f] = Torn]
  /\ open' = [open EXCEPT ![p] = FALSE]
  /\ pc' = [pc EXCEPT ![p] = After(pc[p])]
  /\ trail' = TrailOnFill(p)
  /\ UNCHANGED <<job, generated, commands, signed, alone>>

RestrictPermissions(p) ==
  /\ pc[p] = "restrict"
  /\ pc' = [pc EXCEPT ![p] = "write_pubkey"]
  /\ UNCHANGED <<dir, open, job, generated, commands, signed, alone, trail>>

(* Mutant: an error while writing is dropped and the command goes on. *)
FailSilently(p) ==
  /\ pc[p] \in WriteStep
  /\ pc' = [pc EXCEPT ![p] = After(pc[p])]
  /\ open' = [open EXCEPT ![p] = FALSE]
  /\ trail' = IF open[p] THEN TrailOnFill(p) ELSE trail
  /\ UNCHANGED <<dir, job, generated, commands, signed, alone>>

(* Any IssuerError, and the death of the process, at any point: nothing is  *)
(* rolled back.                                                             *)
Fail(p) ==
  /\ ~Idle(p)
  /\ pc' = [pc EXCEPT ![p] = "idle"]
  /\ open' = [open EXCEPT ![p] = FALSE]
  /\ UNCHANGED <<dir, job, generated, commands, signed, alone, trail>>

Keygen(p) == (\E k \in Key : StartKeygen(p, k)) \/ RestrictPermissions(p)

Sign(p) == (\E r \in Request : StartSign(p, r)) \/ ReadKey(p)

Next == \E p \in Proc : Keygen(p) \/ Sign(p) \/ Truncate(p) \/ Fill(p) \/ Fail(p)

Spec == Init /\ [][Next]_vars

-----------------------------------------------------------------------------
(* Properties. *)

TypeOK ==
  /\ dir \in [File -> Key \cup Statement \cup Signature \cup {None, Torn}]
  /\ pc \in [Proc -> WriteStep \cup {"idle", "read_key", "restrict"}]
  /\ open \in [Proc -> BOOLEAN]
  /\ job \in [Proc -> [key : Key \cup {None}, doc : Statement \cup {None}]]
  /\ generated \subseteq Key
  /\ commands \in 0 .. MaxCommands
  /\ signed \subseteq Signature
  /\ alone \in [Proc -> BOOLEAN]
  /\ trail \in {"unknown", "paired", "settled"}

(* After a keygen that returned Ok with no other command beside it, the two *)
(* key files stay one pair, until a keygen writes again.                    *)
KeysPaired ==
  trail # "unknown" =>
    dir["issuer_signing"] \in Key /\ dir["issuer_pubkey"] = dir["issuer_signing"]

(* Whatever earlier commands left behind, failed or overlapping: a keygen   *)
(* and then a sign that each returned Ok with nothing beside them leave a   *)
(* public key, a statement and a signature that the guest's signature and   *)
(* month checks accept, and commands that are refused before they write do  *)
(* not disturb it.  The guest's parser is the matter of the next property.  *)
SettledSetVerifies ==
  trail = "settled" =>
    /\ dir["signature"] = [key |-> dir["issuer_pubkey"], doc |-> dir["statement"]]
    /\ dir["signature"] \in signed
    /\ dir["statement"].period_months = Len(dir["statement"].monthly_net_income)

(* issuer/src/lib.rs:3-8: what sign writes is what the guest deserializes.  *)
SignedStatementsParse == \A s \in signed : GuestFields \subseteq s.doc.fields

(* Commands past their first write, and what they hold. *)
Holds(p) ==
  /\ pc[p] \in {"write_key", "restrict", "write_pubkey"} => job[p].key \in generated
  /\ pc[p] \in {"read_key", "write_statement", "write_signature"} => job[p].doc \in Statement
  /\ pc[p] \in {"write_statement", "write_signature"} => job[p] \in signed
  /\ open[p] => pc[p] \in WriteStep

(* A command nobody overlapped finds the files as it left them. *)
Undisturbed(p) ==
  alone[p] /\ ~Idle(p) =>
    /\ \A q \in Proc : q # p => Idle(q)
    /\ open[p] => dir[Target(pc[p])] = Torn
    /\ pc[p] \in {"restrict", "write_pubkey", "write_statement", "write_signature"} =>
         dir["issuer_signing"] = job[p].key
    /\ pc[p] = "write_signature" => dir["statement"] = job[p].doc

(* Nobody is about to overwrite what the trail relies on. *)
Stable(p) ==
  /\ trail # "unknown" =>
       pc[p] \notin {"restrict", "write_pubkey"} /\ (pc[p] = "write_key" => ~open[p])
  /\ trail = "settled" =>
       pc[p] # "write_signature" /\ (pc[p] = "write_statement" => ~open[p])

(* The inductive invariant of IssuerCliProofs. *)
IInv ==
  /\ TypeOK
  /\ \A p \in Proc : Holds(p) /\ Undisturbed(p) /\ Stable(p)
  /\ KeysPaired
  /\ SettledSetVerifies
=============================================================================
