---------------------------- MODULE IncomeProver ----------------------------
(***************************************************************************)
(* The borrower's side: the host (zkvm/host/src/main.rs) reads three files *)
(* and a threshold and runs the guest (zkvm/methods/guest/src/main.rs),    *)
(* which commits a journal or panics.  A panic yields no receipt.          *)
(*                                                                         *)
(* The files come from the issuer over a channel nobody controls: each     *)
(* read may return any document, any signature an issuer ever made, any    *)
(* key.  SHA-256 is collision free and Ed25519 is unforgeable: a digest is *)
(* its preimage and a signature is a pair <<key, document>> of Signed.     *)
(***************************************************************************)
EXTENDS IncomeStatement, FiniteSets

CONSTANTS
  Key,            \* issuer public keys
  Doc,            \* contents statement.json may have
  Signed,         \* <<key, doc>>: the signatures issuers made
  Thresholds,     \* THRESHOLD values the host may pass
  MaxRuns,        \* bound on proving runs
  None

ASSUME ProverAssumption ==
  /\ Doc \subseteq DocType
  /\ Signed \subseteq Key \X Doc
  /\ Thresholds \subseteq 0 .. Word - 1
  /\ MaxRuns \in Nat

VARIABLES
  checks,     \* does the guest's build panic on overflow; the release build wraps
  pc,         \* the next step of host and guest
  doc,        \* statement.json as read
  sig,        \* signature.bin as read
  pubkey,     \* issuer_pubkey.bin as read
  threshold,  \* THRESHOLD
  month,      \* months already added
  sum,        \* the guest's u64 accumulator
  total,      \* history: the same sum over the integers
  runs,       \* proving runs started
  claims      \* history: what each committed journal was computed from

inputs == <<doc, sig, pubkey, threshold>>
vars   == <<checks, pc, inputs, month, sum, total, runs, claims>>

-----------------------------------------------------------------------------
Claim ==
  [doc : Doc, key : Key, total : Nat,
   journal : [issuer : Key, threshold : Thresholds, meets : {0, 1},
              nullifier : Seq(Nat), period : 0 .. Word - 1]]

(* Mutant: any well-formed signature will do. *)
AcceptedUnsigned ==
  /\ doc.fields = StatementFields
  /\ doc.period_months = Len(doc.monthly_net_income)

(* Signature, parse and the period_months assertion. *)
Accepted ==
  /\ sig = <<pubkey, doc>>
  /\ doc.fields = StatementFields
  /\ doc.period_months = Len(doc.monthly_net_income)

Income(n) == doc.monthly_net_income[n]

(* Mutant: the carry is noticed one too late. *)
WrapsLate == sum + Income(month + 1) > Word

Wraps == sum + Income(month + 1) >= Word

-----------------------------------------------------------------------------
Init ==
  /\ checks \in BOOLEAN
  /\ pc = "read_statement"
  /\ doc = None
  /\ sig = None
  /\ pubkey = None
  /\ threshold = 0
  /\ month = 0
  /\ sum = 0
  /\ total = 0
  /\ runs = 1
  /\ claims = {}

ReadStatement(d) ==
  /\ pc = "read_statement"
  /\ doc' = d
  /\ pc' = "read_signature"
  /\ UNCHANGED <<sig, pubkey, threshold, month, sum, total, checks, runs, claims>>

ReadSignature(s) ==
  /\ pc = "read_signature"
  /\ sig' = s
  /\ pc' = "read_pubkey"
  /\ UNCHANGED <<doc, pubkey, threshold, month, sum, total, checks, runs, claims>>

ReadPubkey(k, t) ==
  /\ pc = "read_pubkey"
  /\ pubkey' = k
  /\ threshold' = t
  /\ pc' = "verify"
  /\ UNCHANGED <<doc, sig, month, sum, total, checks, runs, claims>>

Verify ==
  /\ pc = "verify"
  /\ Accepted
  /\ month' = 0
  /\ sum' = 0
  /\ total' = 0
  /\ pc' = "sum"
  /\ UNCHANGED <<inputs, checks, runs, claims>>

AddMonth ==
  /\ pc = "sum"
  /\ month < Len(doc.monthly_net_income)
  /\ checks => ~Wraps
  /\ sum' = (sum + Income(month + 1)) % Word
  /\ total' = total + Income(month + 1)
  /\ month' = month + 1
  /\ UNCHANGED <<pc, inputs, checks, runs, claims>>

Commit ==
  /\ pc = "sum"
  /\ month = Len(doc.monthly_net_income)
  /\ doc.period_months # 0
  /\ claims' = claims \cup
       {[doc |-> doc, key |-> pubkey, total |-> total,
         journal |-> JournalOf(doc, pubkey, sum, threshold)]}
  /\ pc' = "committed"
  /\ UNCHANGED <<inputs, month, sum, total, checks, runs>>

(* expect, assert_eq!, checked addition and division by zero. *)
Panic ==
  /\ \/ pc = "verify" /\ ~Accepted
     \/ pc = "sum" /\ month < Len(doc.monthly_net_income) /\ checks /\ Wraps
     \/ pc = "sum" /\ doc.period_months = 0
  /\ pc' = "panicked"
  /\ UNCHANGED <<inputs, month, sum, total, checks, runs, claims>>

(* The borrower runs the host again, on whatever the files hold then. *)
RunAgain ==
  /\ pc \in {"committed", "panicked"}
  /\ runs < MaxRuns
  /\ runs' = runs + 1
  /\ pc' = "read_statement"
  /\ UNCHANGED <<inputs, month, sum, total, checks, claims>>

Host ==
  \/ \E d \in Doc : ReadStatement(d)
  \/ \E s \in Signed : ReadSignature(s)
  \/ \E k \in Key, t \in Thresholds : ReadPubkey(k, t)
  \/ RunAgain

Guest == Verify \/ AddMonth \/ Commit \/ Panic

Next == Host \/ Guest

Spec == Init /\ [][Next]_vars

-----------------------------------------------------------------------------
(* Properties. *)

TypeOK ==
  /\ checks \in BOOLEAN
  /\ pc \in {"read_statement", "read_signature", "read_pubkey", "verify", "sum",
             "committed", "panicked"}
  /\ doc \in Doc \cup {None}
  /\ sig \in Signed \cup {None}
  /\ pubkey \in Key \cup {None}
  /\ threshold \in Nat
  /\ month \in Nat
  /\ sum \in 0 .. Word - 1
  /\ total \in Nat
  /\ runs \in Nat
  /\ claims \subseteq Claim

Qualifies(c) ==
  /\ Recurring(c.doc)
  /\ c.total >= c.journal.threshold * c.doc.period_months

(* A journal that says the income meets the threshold is right about the    *)
(* income over the integers, however the u64 sum wrapped on the way.        *)
MeetsSound == \A c \in claims : c.journal.meets = 1 => Qualifies(c)

(* A journal that denies it is right too, unless the sum left the u64       *)
(* range, which a build with overflow checks never lets through.            *)
MeetsComplete ==
  \A c \in claims :
    /\ checks => c.total < Word
    /\ Qualifies(c) /\ c.total < Word => c.journal.meets = 1

SameIdentity(d, e) ==
  d.subject_id = e.subject_id /\ d.issuer = e.issuer /\ d.period = e.period

(* Over any runs, on any files, keys and thresholds, two journals carry the *)
(* same nullifier exactly when their statements name the same subject,      *)
(* issuer and period: nobody can mint a second nullifier for a statement,   *)
(* and no two borrowers can collide.                                        *)
NullifierNamesIdentity ==
  \A c, d \in claims :
    c.journal.nullifier = d.journal.nullifier <=> SameIdentity(c.doc, d.doc)

(* The three files are read one after the other and may change in between;  *)
(* still a journal's issuer is one that signed the very statement that all  *)
(* of the journal but the threshold comes from, of which no month was left  *)
(* out: it is the journal of the guest in one step, as LenderSystem has it. *)
ClaimsAttested ==
  \A c \in claims :
    /\ <<c.journal.issuer, c.doc>> \in Signed
    /\ Completes(c.doc)
    /\ c.total = Total(c.doc)
    /\ c.journal =
         JournalOf(c.doc, c.journal.issuer, Total(c.doc) % Word, c.journal.threshold)

(* What has been read by each step. *)
Loaded ==
  /\ pc # "read_statement" => doc \in Doc
  /\ pc \notin {"read_statement", "read_signature"} => sig \in Signed
  /\ pc \notin {"read_statement", "read_signature", "read_pubkey"} =>
       pubkey \in Key /\ threshold \in Thresholds

(* The guest's accumulator against the integers. *)
Accumulates ==
  pc = "sum" =>
    /\ Accepted
    /\ month <= Len(doc.monthly_net_income)
    /\ total = SumOfMonths(doc)[month]
    /\ sum = total % Word
    /\ sum <= total
    /\ checks \/ total < Word => sum = total

(* The inductive invariant of IncomeProverProofs. *)
IInv == TypeOK /\ Loaded /\ Accumulates /\ MeetsSound /\ MeetsComplete /\ ClaimsAttested
=============================================================================
