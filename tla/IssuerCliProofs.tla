--------------------------- MODULE IssuerCliProofs ---------------------------
(***************************************************************************)
(* What a settled directory holds, for any number of commands, keys and    *)
(* requests.  The argument is about exclusion without a lock: a command    *)
(* that nobody overlapped is the only writer, so it finds its own writes   *)
(* in place when it returns Ok (Undisturbed); and once it has returned, no *)
(* other command is past its first write (Stable), so the next change is a *)
(* truncation, which the trail records.                                    *)
(***************************************************************************)
EXTENDS IssuerCli, TLAPS

USE IssuerAssumption

(* A request sign accepts becomes a statement whose month count is right.   *)
LEMMA StatementsCounted ==
  \A d \in Statement : d.period_months = Len(d.monthly_net_income)
BY DEF Statement, build_statement

(* No write step leads into another command's steps.                        *)
LEMMA Steps ==
  /\ After("write_key") = "restrict"
  /\ After("write_pubkey") = "idle"
  /\ After("write_statement") = "write_signature"
  /\ After("write_signature") = "idle"
  /\ Target("write_key") = "issuer_signing"
  /\ Target("write_pubkey") = "issuer_pubkey"
  /\ Target("write_statement") = "statement"
  /\ Target("write_signature") = "signature"
BY DEF After, Target

(* An empty directory satisfies the invariant.                             *)
LEMMA Initially == Init => IInv
BY DEF Init, IInv, TypeOK, Holds, Undisturbed, Stable, KeysPaired,
       SettledSetVerifies, Idle, File, WriteStep

(* A command starts: the files stay, and whoever is running has company.    *)
LEMMA StartPreserves ==
  ASSUME IInv, NEW p \in Proc, NEW step \in {"write_key", "read_key"},
         Start(p, step), UNCHANGED <<dir, open, signed, trail>>,
         NEW k \in Key \cup {None}, NEW d \in Statement \cup {None},
         job' = [job EXCEPT ![p] = [key |-> k, doc |-> d]],
         generated' \in SUBSET Key, generated \subseteq generated',
         step = "write_key" => k \in generated',
         step = "read_key" => d \in Statement
  PROVE  IInv'
<1> USE DEF IInv
<1>1. TypeOK'
  <2>1. job' \in [Proc -> [key : Key \cup {None}, doc : Statement \cup {None}]]
    BY DEF TypeOK
  <2>2. pc' \in [Proc -> WriteStep \cup {"idle", "read_key", "restrict"}]
    BY DEF TypeOK, Start, WriteStep
  <2>3. alone' \in [Proc -> BOOLEAN]
    BY DEF Start
  <2>4. commands' \in 0 .. MaxCommands
    BY DEF TypeOK, Start
  <2>. QED  BY <2>1, <2>2, <2>3, <2>4 DEF TypeOK
<1>2. ASSUME NEW q \in Proc PROVE Holds(q)'
  <2>1. CASE q = p
    BY <2>1 DEF TypeOK, Holds, Start, Idle, WriteStep
  <2>2. CASE q # p
    <3>1. pc'[q] = pc[q] /\ job'[q] = job[q] /\ open'[q] = open[q]
      BY <2>2 DEF TypeOK, Start
    <3>. QED  BY <3>1 DEF Holds
  <2>. QED  BY <2>1, <2>2
<1>3. ASSUME NEW q \in Proc PROVE Undisturbed(q)'
  <2>1. alone'[q] => q = p /\ \A o \in Proc : Idle(o)
    BY DEF Start
  <2>2. alone'[q] => pc'[p] \in {"write_key", "read_key"} /\ ~open'[p]
    BY <2>1 DEF TypeOK, Start, Holds, Idle, WriteStep
  <2>3. alone'[q] => \A o \in Proc : o # q => Idle(o)'
    BY <2>1 DEF TypeOK, Start, Idle
  <2>. QED  BY <2>1, <2>2, <2>3 DEF Undisturbed
<1>4. ASSUME NEW q \in Proc PROVE Stable(q)'
  <2>1. CASE q = p
    BY <2>1 DEF TypeOK, Stable, Start, Idle, Holds, WriteStep
  <2>2. CASE q # p
    <3>1. pc'[q] = pc[q] /\ open'[q] = open[q] /\ trail' = trail
      BY <2>2 DEF TypeOK, Start
    <3>. QED  BY <3>1 DEF Stable
  <2>. QED  BY <2>1, <2>2
<1>5. KeysPaired' /\ SettledSetVerifies'
  BY DEF KeysPaired, SettledSetVerifies
<1>. QED  BY <1>1, <1>2, <1>3, <1>4, <1>5

(* Starting a keygen keeps it.                                             *)
LEMMA StartKeygenPreserves ==
  ASSUME IInv, NEW p \in Proc, NEW k \in Key, StartKeygen(p, k)
  PROVE  IInv'
<1>1. /\ Start(p, "write_key") /\ UNCHANGED <<dir, open, signed, trail>>
      /\ job' = [job EXCEPT ![p] = [key |-> k, doc |-> None]]
      /\ generated' = generated \cup {k}
  BY DEF StartKeygen
<1>2. generated' \in SUBSET Key /\ generated \subseteq generated' /\ k \in generated'
  BY <1>1 DEF IInv, TypeOK
<1>. QED  BY <1>1, <1>2, StartPreserves

(* So does starting a sign, whose statement is built but not yet written.  *)
LEMMA StartSignPreserves ==
  ASSUME IInv, NEW p \in Proc, NEW r \in Request, StartSign(p, r)
  PROVE  IInv'
<1>1. build_statement(r) \in Statement
  BY DEF StartSign, Statement
<1>2. /\ Start(p, "read_key") /\ UNCHANGED <<dir, open, generated, signed, trail>>
      /\ job' = [job EXCEPT ![p] = [key |-> None, doc |-> build_statement(r)]]
  BY DEF StartSign
<1>3. generated' \in SUBSET Key /\ generated \subseteq generated'
  BY <1>2 DEF IInv, TypeOK
<1>. QED  BY <1>1, <1>2, <1>3, StartPreserves

(* sign takes the key into memory: the file it read is the one it signs by. *)
LEMMA ReadKeyPreserves ==
  ASSUME IInv, NEW p \in Proc, ReadKey(p)
  PROVE  IInv'
<1> USE DEF IInv
<1> DEFINE k == dir["issuer_signing"]
<1>1. k \in Key /\ job[p].doc \in Statement /\ ~open[p]
  BY DEF ReadKey, Holds, WriteStep
<1>2. job'[p] = [key |-> k, doc |-> job[p].doc]
  BY DEF TypeOK, ReadKey
<1>3. job'[p] \in Signature /\ job'[p] \in signed'
  BY <1>1, <1>2 DEF ReadKey, Signature
<1>4. TypeOK'
  BY <1>1, <1>3 DEF TypeOK, ReadKey, WriteStep, Signature
<1>5. \A q \in Proc : q # p => pc'[q] = pc[q] /\ job'[q] = job[q]
  BY DEF TypeOK, ReadKey
<1>6. pc'[p] = "write_statement" /\ open' = open /\ dir' = dir /\ trail' = trail /\ alone' = alone
  BY DEF TypeOK, ReadKey
<1>7. signed \subseteq signed' /\ generated' = generated
  BY DEF ReadKey
<1>8. ASSUME NEW q \in Proc PROVE Holds(q)'
  <2>1. CASE q = p
    BY <1>1, <1>2, <1>3, <1>6, <2>1 DEF Holds, WriteStep
  <2>2. CASE q # p
    BY <1>5, <1>6, <1>7, <2>2 DEF Holds
  <2>. QED  BY <2>1, <2>2
<1>9. ASSUME NEW q \in Proc PROVE Undisturbed(q)'
  <2>1. CASE q = p
    <3>1. ~Idle(p)
      BY DEF ReadKey, Idle
    <3>. QED  BY <1>1, <1>2, <1>5, <1>6, <2>1, <3>1 DEF Undisturbed, Idle
  <2>2. CASE q # p
    <3>1. ~Idle(p)
      BY DEF ReadKey, Idle
    <3>. QED  BY <1>5, <1>6, <2>2, <3>1 DEF Undisturbed, Idle
  <2>. QED  BY <2>1, <2>2
<1>10. ASSUME NEW q \in Proc PROVE Stable(q)'
  BY <1>1, <1>5, <1>6 DEF Stable
<1>11. KeysPaired' /\ SettledSetVerifies'
  BY <1>6, <1>7 DEF KeysPaired, SettledSetVerifies
<1>. QED  BY <1>4, <1>8, <1>9, <1>10, <1>11

(* The first half of a write: the trail forgets what the file stood for.    *)
LEMMA TruncatePreserves ==
  ASSUME IInv, NEW p \in Proc, Truncate(p)
  PROVE  IInv'
<1> USE DEF IInv
<1> DEFINE f == Target(pc[p])
<1>1. f \in File
  BY Steps DEF Truncate, WriteStep, File
<1>2. dir'[f] = Torn /\ \A g \in File : g # f => dir'[g] = dir[g]
  BY <1>1 DEF TypeOK, Truncate
<1>3. open'[p] /\ \A q \in Proc : q # p => open'[q] = open[q]
  BY DEF TypeOK, Truncate
<1>4. UNCHANGED <<pc, job, alone, generated, signed>>
  BY DEF Truncate
<1>5. trail' = TrailOnTruncate(pc[p]) /\ pc[p] \in WriteStep /\ ~Idle(p)
  BY DEF Truncate, WriteStep, Idle
<1>6. TypeOK'
  BY DEF TypeOK, Truncate, TrailOnTruncate
<1>7. ASSUME NEW q \in Proc PROVE Holds(q)'
  BY <1>3, <1>4, <1>5 DEF Holds
<1>8. ASSUME NEW q \in Proc PROVE Undisturbed(q)'
  <2>1. CASE q = p
    <3>1. pc[p] \in {"write_pubkey", "write_statement", "write_signature"} =>
            dir'["issuer_signing"] = dir["issuer_signing"]
      BY <1>2, Steps DEF File
    <3>2. pc[p] = "write_signature" => dir'["statement"] = dir["statement"]
      BY <1>2, Steps DEF File
    <3>3. dir'[Target(pc'[p])] = Torn
      BY <1>2, <1>4
    <3>4. pc[p] # "restrict"
      BY <1>5 DEF WriteStep
    <3>. QED  BY <1>4, <2>1, <3>1, <3>2, <3>3, <3>4 DEF Undisturbed, Idle
  <2>2. CASE q # p
    BY <1>4, <1>5, <2>2 DEF Undisturbed, Idle
  <2>. QED  BY <2>1, <2>2
<1>9. ASSUME NEW q \in Proc PROVE Stable(q)'
  <2>1. CASE q = p
    BY <1>4, <1>5, <2>1 DEF Stable, TrailOnTruncate, WriteStep, TypeOK
  <2>2. CASE q # p
    BY <1>3, <1>4, <1>5, <2>2 DEF Stable, TrailOnTruncate, WriteStep, TypeOK
  <2>. QED  BY <2>1, <2>2
<1>10. KeysPaired'
  BY <1>2, <1>5, Steps DEF KeysPaired, TrailOnTruncate, WriteStep, File
<1>11. SettledSetVerifies'
  BY <1>5 DEF SettledSetVerifies, TrailOnTruncate
<1>. QED  BY <1>6, <1>7, <1>8, <1>9, <1>10, <1>11

(* So does the change of the key file's permissions.                       *)
LEMMA RestrictPreserves ==
  ASSUME IInv, NEW p \in Proc, RestrictPermissions(p)
  PROVE  IInv'
<1> USE DEF IInv
<1>1. pc'[p] = "write_pubkey" /\ \A q \in Proc : q # p => pc'[q] = pc[q]
  BY DEF TypeOK, RestrictPermissions
<1>2. UNCHANGED <<dir, open, job, generated, signed, alone, trail>> /\ ~Idle(p) /\ ~open[p]
  BY DEF RestrictPermissions, Idle, Holds, WriteStep
<1>3. TypeOK'
  BY DEF TypeOK, RestrictPermissions, WriteStep
<1>4. ASSUME NEW q \in Proc PROVE Holds(q)'
  <2>1. CASE q = p
    BY <1>1, <1>2, <2>1 DEF Holds, RestrictPermissions, WriteStep
  <2>2. CASE q # p
    BY <1>1, <1>2, <2>2 DEF Holds
  <2>. QED  BY <2>1, <2>2
<1>5. ASSUME NEW q \in Proc PROVE Undisturbed(q)'
  BY <1>1, <1>2 DEF Undisturbed, RestrictPermissions, Idle
<1>6. ASSUME NEW q \in Proc PROVE Stable(q)'
  BY <1>1, <1>2 DEF Stable, RestrictPermissions, TypeOK
<1>7. KeysPaired' /\ SettledSetVerifies'
  BY <1>2 DEF KeysPaired, SettledSetVerifies
<1>. QED  BY <1>3, <1>4, <1>5, <1>6, <1>7

(* So does a command that fails or is killed where it stands.              *)
LEMMA FailPreserves ==
  ASSUME IInv, NEW p \in Proc, Fail(p)
  PROVE  IInv'
<1> USE DEF IInv
<1>1. pc'[p] = "idle" /\ \A q \in Proc : q # p => pc'[q] = pc[q] /\ open'[q] = open[q]
  BY DEF TypeOK, Fail
<1>2. UNCHANGED <<dir, job, generated, signed, alone, trail>> /\ ~Idle(p) /\ ~open'[p]
  BY DEF Fail, TypeOK
<1>3. TypeOK'
  BY DEF TypeOK, Fail
<1>4. ASSUME NEW q \in Proc PROVE Holds(q)'
  BY <1>1, <1>2 DEF Holds
<1>5. ASSUME NEW q \in Proc PROVE Undisturbed(q)'
  BY <1>1, <1>2 DEF Undisturbed, Idle
<1>6. ASSUME NEW q \in Proc PROVE Stable(q)'
  BY <1>1, <1>2 DEF Stable
<1>7. KeysPaired' /\ SettledSetVerifies'
  BY <1>2 DEF KeysPaired, SettledSetVerifies
<1>. QED  BY <1>3, <1>4, <1>5, <1>6, <1>7

(* The second half of a write, and with the last one a command's Ok.        *)
LEMMA FillPreserves ==
  ASSUME IInv, NEW p \in Proc, Fill(p)
  PROVE  IInv'
<1> USE DEF IInv
<1> DEFINE f == Target(pc[p])
<1>1. pc[p] \in WriteStep /\ open[p] /\ ~Idle(p)
  BY DEF Fill, WriteStep, Idle
<1>2. f \in File
  BY <1>1, Steps DEF WriteStep, File
<1>3. \A g \in File : g # f => dir'[g] = dir[g]
  BY <1>2 DEF TypeOK, Fill
<1>4. \/ dir'[f] = Content(p)
      \/ f = "statement" /\ dir[f] # Torn /\ dir'[f] = Torn
  BY <1>2 DEF TypeOK, Fill
<1>5. UNCHANGED <<job, alone, generated, signed>> /\ trail' = TrailOnFill(p)
  BY DEF Fill
<1>6. /\ pc'[p] = After(pc[p]) /\ ~open'[p]
      /\ \A q \in Proc : q # p => pc'[q] = pc[q] /\ open'[q] = open[q]
  BY DEF TypeOK, Fill
<1>7. alone[p] => (\A q \in Proc : q # p => Idle(q)) /\ dir'[f] = Content(p)
  BY <1>1, <1>4 DEF Undisturbed
<1>8. CASE pc[p] \in {"write_key", "write_pubkey"}
  <2>1. trail = "unknown"
    BY <1>1, <1>8 DEF Stable
  <2>2. Content(p) = job[p].key /\ f \in {"issuer_signing", "issuer_pubkey"}
    BY <1>8, Steps DEF Content
  <2>3. dir'[f] = job[p].key /\ job[p].key \in Key
    BY <1>4, <1>8, <2>2 DEF Holds, TypeOK
  <2>4. trail' = IF pc[p] = "write_pubkey" /\ alone[p] THEN "paired" ELSE trail
    BY <1>5, <1>8, Steps DEF TrailOnFill
  <2>5. pc'[p] = IF pc[p] = "write_key" THEN "restrict" ELSE "idle"
    BY <1>6, <1>8, Steps
  <2>6. TypeOK'
    <3>1. dir' \in [File -> Key \cup Statement \cup Signature \cup {None, Torn}]
      BY <2>3 DEF TypeOK, Fill
    <3>2. pc' \in [Proc -> WriteStep \cup {"idle", "read_key", "restrict"}]
      BY <1>6, <2>5 DEF TypeOK, Fill
    <3>. QED  BY <1>5, <2>1, <2>4, <3>1, <3>2 DEF TypeOK, Fill
  <2>7. ASSUME NEW q \in Proc PROVE Holds(q)'
    <3>1. CASE q = p
      BY <1>5, <1>6, <1>8, <2>5, <3>1 DEF Holds
    <3>2. CASE q # p
      BY <1>5, <1>6, <3>2 DEF Holds
    <3>. QED  BY <3>1, <3>2
  <2>8. ASSUME NEW q \in Proc PROVE Undisturbed(q)'
    <3>1. CASE q = p
      <4>1. pc[p] = "write_key" => f = "issuer_signing"
        BY Steps
      <4>. QED  BY <1>5, <1>6, <1>7, <2>3, <2>5, <3>1, <4>1 DEF Undisturbed, Idle
    <3>2. CASE q # p
      BY <1>1, <1>5, <1>6, <3>2 DEF Undisturbed, Idle
    <3>. QED  BY <3>1, <3>2
  <2>9. ASSUME NEW q \in Proc PROVE Stable(q)'
    BY <1>6, <1>7, <2>1, <2>4, <2>5 DEF Stable, Idle
  <2>10. KeysPaired'
    <3>1. ASSUME trail' # "unknown"
          PROVE  dir'["issuer_signing"] \in Key /\ dir'["issuer_pubkey"] = dir'["issuer_signing"]
      <4>1. pc[p] = "write_pubkey" /\ alone[p]
        BY <2>1, <2>4, <3>1
      <4>2. f = "issuer_pubkey" /\ dir'["issuer_signing"] = dir["issuer_signing"]
        BY <1>3, <4>1, Steps DEF File
      <4>3. dir["issuer_signing"] = job[p].key
        BY <1>1, <4>1 DEF Undisturbed
      <4>. QED  BY <2>3, <4>2, <4>3
    <3>. QED  BY <3>1 DEF KeysPaired
  <2>11. SettledSetVerifies'
    BY <2>1, <2>4 DEF SettledSetVerifies
  <2>. QED  BY <2>6, <2>7, <2>8, <2>9, <2>10, <2>11
<1>9. CASE pc[p] = "write_statement"
  <2>1. f = "statement" /\ Content(p) = job[p].doc /\ job[p].doc \in Statement
    BY <1>9, Steps DEF Content, Holds
  <2>2. trail' = trail /\ trail # "settled"
    BY <1>1, <1>5, <1>9, Steps DEF TrailOnFill, Stable
  <2>3. pc'[p] = "write_signature"
    BY <1>6, <1>9, Steps
  <2>4. TypeOK'
    <3>1. dir' \in [File -> Key \cup Statement \cup Signature \cup {None, Torn}]
      BY <2>1 DEF TypeOK, Fill
    <3>2. pc' \in [Proc -> WriteStep \cup {"idle", "read_key", "restrict"}]
      BY <1>6, <2>3 DEF TypeOK, Fill, WriteStep
    <3>. QED  BY <1>5, <2>2, <3>1, <3>2 DEF TypeOK, Fill
  <2>5. ASSUME NEW q \in Proc PROVE Holds(q)'
    <3>1. CASE q = p
      BY <1>5, <1>6, <1>9, <2>3, <3>1 DEF Holds, WriteStep
    <3>2. CASE q # p
      BY <1>5, <1>6, <3>2 DEF Holds
    <3>. QED  BY <3>1, <3>2
  <2>6. ASSUME NEW q \in Proc PROVE Undisturbed(q)'
    <3>1. CASE q = p
      <4>1. dir'["issuer_signing"] = dir["issuer_signing"]
        BY <1>3, <2>1 DEF File
      <4>2. alone[p] => dir["issuer_signing"] = job[p].key
        BY <1>1, <1>9 DEF Undisturbed
      <4>. QED  BY <1>5, <1>6, <1>7, <2>1, <2>3, <3>1, <4>1, <4>2 DEF Undisturbed, Idle
    <3>2. CASE q # p
      BY <1>1, <1>5, <1>6, <3>2 DEF Undisturbed, Idle
    <3>. QED  BY <3>1, <3>2
  <2>7. ASSUME NEW q \in Proc PROVE Stable(q)'
    <3>1. CASE q = p
      BY <2>2, <2>3, <3>1 DEF Stable
    <3>2. CASE q # p
      BY <1>6, <2>2, <3>2 DEF Stable
    <3>. QED  BY <3>1, <3>2
  <2>8. KeysPaired'
    BY <1>3, <2>1, <2>2 DEF KeysPaired, File
  <2>9. SettledSetVerifies'
    BY <2>2 DEF SettledSetVerifies
  <2>. QED  BY <2>4, <2>5, <2>6, <2>7, <2>8, <2>9
<1>10. CASE pc[p] = "write_signature"
  <2>1. f = "signature" /\ dir'[f] = job[p] /\ job[p] \in signed /\ job[p] \in Signature
    BY <1>4, <1>10, Steps DEF Content, Holds, TypeOK
  <2>2. /\ trail' = IF alone[p] /\ trail = "paired" THEN "settled" ELSE trail
        /\ trail # "settled"
    BY <1>1, <1>5, <1>10, Steps DEF TrailOnFill, Stable
  <2>3. pc'[p] = "idle"
    BY <1>6, <1>10, Steps
  <2>4. TypeOK'
    <3>1. dir' \in [File -> Key \cup Statement \cup Signature \cup {None, Torn}]
      BY <2>1 DEF TypeOK, Fill
    <3>2. pc' \in [Proc -> WriteStep \cup {"idle", "read_key", "restrict"}]
      BY <1>6, <2>3 DEF TypeOK, Fill, WriteStep
    <3>. QED  BY <1>5, <2>2, <3>1, <3>2 DEF TypeOK, Fill
  <2>5. ASSUME NEW q \in Proc PROVE Holds(q)'
    <3>1. CASE q = p
      BY <1>6, <2>3, <3>1 DEF Holds, WriteStep
    <3>2. CASE q # p
      BY <1>5, <1>6, <3>2 DEF Holds
    <3>. QED  BY <3>1, <3>2
  <2>6. ASSUME NEW q \in Proc PROVE Undisturbed(q)'
    BY <1>1, <1>5, <1>6, <2>3 DEF Undisturbed, Idle
  <2>7. ASSUME NEW q \in Proc PROVE Stable(q)'
    <3>1. CASE q = p
      BY <2>3, <3>1 DEF Stable
    <3>2. CASE q # p
      BY <1>6, <1>7, <2>2, <3>2 DEF Stable, Idle, TypeOK
    <3>. QED  BY <3>1, <3>2
  <2>8. /\ dir'["issuer_signing"] = dir["issuer_signing"]
        /\ dir'["issuer_pubkey"] = dir["issuer_pubkey"]
        /\ dir'["statement"] = dir["statement"]
    BY <1>3, <2>1 DEF File
  <2>9. KeysPaired'
    BY <2>2, <2>8 DEF KeysPaired
  <2>10. SettledSetVerifies'
    <3>1. ASSUME trail' = "settled"
          PROVE  /\ dir'["signature"] = [key |-> dir'["issuer_pubkey"], doc |-> dir'["statement"]]
                 /\ dir'["signature"] \in signed'
                 /\ dir'["statement"] \in Statement
      <4>1. alone[p] /\ trail = "paired"
        BY <2>2, <3>1
      <4>2. dir["issuer_signing"] = job[p].key /\ dir["statement"] = job[p].doc
        BY <1>1, <1>10, <4>1 DEF Undisturbed
      <4>3. dir["issuer_pubkey"] = job[p].key
        BY <4>1, <4>2 DEF KeysPaired
      <4>4. job[p] = [key |-> job[p].key, doc |-> job[p].doc] /\ job[p].doc \in Statement
        BY <2>1 DEF Signature
      <4>. QED  BY <1>5, <2>1, <2>8, <4>2, <4>3, <4>4
    <3>. QED  BY <3>1, StatementsCounted DEF SettledSetVerifies
  <2>. QED  BY <2>4, <2>5, <2>6, <2>7, <2>9, <2>10
<1>. QED  BY <1>1, <1>8, <1>9, <1>10 DEF WriteStep

(* Every step keeps the invariant.                                         *)
LEMMA NextPreserves == IInv /\ [Next]_vars => IInv'
<1> SUFFICES ASSUME IInv, [Next]_vars PROVE IInv'
  OBVIOUS
<1>1. CASE Next
  <2>1. PICK p \in Proc : Keygen(p) \/ Sign(p) \/ Truncate(p) \/ Fill(p) \/ Fail(p)
    BY <1>1 DEF Next
  <2>2. CASE Keygen(p)
    BY <2>2, StartKeygenPreserves, RestrictPreserves DEF Keygen
  <2>3. CASE Sign(p)
    BY <2>3, StartSignPreserves, ReadKeyPreserves DEF Sign
  <2>. QED  BY <2>1, <2>2, <2>3, TruncatePreserves, FillPreserves, FailPreserves
<1>2. CASE UNCHANGED vars
  BY <1>2 DEF IInv, vars, TypeOK, Holds, Undisturbed, Stable, KeysPaired,
              SettledSetVerifies, Idle, Content
<1>. QED  BY <1>1, <1>2

(* Types, exclusion and the two promises below, in every reachable state.   *)
THEOREM Invariance == Spec => []IInv
BY Initially, NextPreserves, PTL DEF Spec

(* keygen: both halves on disk belong together, until a keygen writes.      *)
THEOREM KeysStayPaired == Spec => []KeysPaired
<1>1. IInv => KeysPaired  BY DEF IInv
<1>. QED  BY <1>1, Invariance, PTL

(* keygen then sign, each with nothing beside it: the signature on disk is  *)
(* of the statement on disk, by the key published beside it, and the        *)
(* months are as many as claimed.  Whether the guest can parse the          *)
(* statement is another matter: SignedStatementsParse is violated.          *)
THEOREM SettledSetsVerify == Spec => []SettledSetVerifies
<1>1. IInv => SettledSetVerifies  BY DEF IInv
<1>. QED  BY <1>1, Invariance, PTL
=============================================================================
