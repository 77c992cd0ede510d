--------------------------- MODULE ManageCliProofs ---------------------------
(***************************************************************************)
(* What deployment.toml says, for any number of terminals, verifiers,      *)
(* selectors and commands.  A list of verifiers is looked at as a value:   *)
(* the lemmas say what appending an entry and setting a flag do to it, and *)
(* the steps only carry such lists from the file to a command and back.    *)
(***************************************************************************)
EXTENDS ManageCli, SequenceTheorems, WellFoundedInduction, TLAPS

USE ManageAssumption, RouterAssumption, StopAssumption, TornAssumption

-----------------------------------------------------------------------------
(* Lists. *)

(* A set of numbers that is not empty has a least element.                  *)
LEMMA LeastNatural ==
  ASSUME NEW T \in SUBSET Nat, T # {}
  PROVE  \E x \in T : \A y \in T : x <= y
<1> DEFINE R == OpToRel(<, Nat)
<1>1. \A x, y \in Nat : <<x, y>> \in R <=> x < y
  BY DEF OpToRel
<1>2. IsWellFoundedOn(R, Nat)
  BY NatLessThanWellFounded
<1> HIDE DEF R
<1>3. PICK x \in T : \A y \in T : ~ (<<y, x>> \in R)
  BY <1>2, WFMin
<1>4. ASSUME NEW y \in T
      PROVE  x <= y
  <2>1. x \in Nat /\ y \in Nat /\ ~ (<<y, x>> \in R)
    BY <1>3
  <2>2. ~ (y < x)
    BY <1>1, <2>1
  <2> QED
    BY <2>1, <2>2
<1> QED
  BY <1>4

(* find_verifier returns the first entry for a selector, if there is one.   *)
LEMMA FirstHit ==
  ASSUME NEW f \in Seq(EntryType), NEW s
  PROVE  \/ FindVerifier(f, s) = 0 /\ \A j \in DOMAIN f : f[j].selector # s
         \/ /\ FindVerifier(f, s) \in DOMAIN f
            /\ FindVerifier(f, s) # 0
            /\ f[FindVerifier(f, s)].selector = s
            /\ \A j \in DOMAIN f : f[j].selector = s => FindVerifier(f, s) <= j
<1> DEFINE hits == {k \in DOMAIN f : f[k].selector = s}
<1>1. CASE hits = {}
  BY <1>1 DEF FindVerifier
<1>2. CASE hits # {}
  <2>1. DOMAIN f \subseteq Nat \ {0}
    OBVIOUS
  <2>2. PICK x \in hits : \A y \in hits : x <= y
    <3>1. hits \in SUBSET Nat
      BY <2>1
    <3> HIDE DEF hits
    <3> QED
      BY <1>2, <3>1, LeastNatural
  <2> DEFINE k == CHOOSE k \in hits : \A y \in hits : k <= y
  <2>3. k \in hits /\ \A y \in hits : k <= y
    BY <2>2
  <2>4. FindVerifier(f, s) = k
    BY <1>2 DEF FindVerifier
  <2> QED
    BY <2>1, <2>3, <2>4
<1> QED
  BY <1>1, <1>2

(* What it returns is determined by what it must be.                        *)
LEMMA FirstHitIs ==
  ASSUME NEW f \in Seq(EntryType), NEW s, NEW k \in DOMAIN f, f[k].selector = s,
         \A j \in DOMAIN f : f[j].selector = s => k <= j
  PROVE  FindVerifier(f, s) = k
<1>1. FindVerifier(f, s) \in DOMAIN f /\ f[FindVerifier(f, s)].selector = s /\ FindVerifier(f, s) <= k
  BY FirstHit
<1>2. k <= FindVerifier(f, s)
  BY <1>1
<1>3. k \in Nat /\ FindVerifier(f, s) \in Nat
  BY <1>1
<1> QED
  BY <1>1, <1>2, <1>3

(* An entry at the end is found only where nothing was found before.        *)
LEMMA FirstHitAppended ==
  ASSUME NEW f \in Seq(EntryType), NEW g \in Seq(EntryType), Len(g) = 1, NEW s
  PROVE  /\ f \o g \in Seq(EntryType)
         /\ \A k \in DOMAIN f : k \in DOMAIN (f \o g) /\ (f \o g)[k] = f[k]
         /\ Len(f) + 1 \in DOMAIN (f \o g)
         /\ (f \o g)[Len(f) + 1] = g[1]
         /\ \A k \in DOMAIN (f \o g) : k \in DOMAIN f \/ k = Len(f) + 1
         /\ FindVerifier(f \o g, s) =
              IF FindVerifier(f, s) # 0 THEN FindVerifier(f, s)
              ELSE IF g[1].selector = s THEN Len(f) + 1 ELSE 0
<1> DEFINE h == f \o g
<1>1. h \in Seq(EntryType) /\ Len(h) = Len(f) + 1 /\ Len(f) \in Nat
  <2>1. Len(f) \in Nat
    OBVIOUS
  <2>2. f \o g \in Seq(EntryType) /\ Len(f \o g) = Len(f) + Len(g)
    BY ConcatProperties, Zenon
  <2> QED
    BY <2>1, <2>2
<1>2. /\ \A k \in DOMAIN f : k \in DOMAIN h /\ h[k] = f[k]
      /\ Len(f) + 1 \in DOMAIN h
      /\ h[Len(f) + 1] = g[1]
      /\ \A k \in DOMAIN h : k \in DOMAIN f \/ k = Len(f) + 1
  BY <1>1, ConcatProperties
<1> HIDE DEF h
<1>3. CASE FindVerifier(f, s) # 0
  <2>1. /\ FindVerifier(f, s) \in DOMAIN f
        /\ f[FindVerifier(f, s)].selector = s
        /\ \A j \in DOMAIN f : f[j].selector = s => FindVerifier(f, s) <= j
    BY <1>3, FirstHit
  <2>2. FindVerifier(f, s) <= Len(f) + 1
    BY <2>1, <1>1
  <2> DEFINE k == FindVerifier(f, s)
  <2>3. k \in DOMAIN h /\ h[k].selector = s /\ \A j \in DOMAIN h : h[j].selector = s => k <= j
    BY <1>2, <2>1, <2>2
  <2> HIDE DEF k
  <2>4. FindVerifier(h, s) = k
    <3>1. h \in Seq(EntryType)
      BY <1>1
    <3> QED
      BY <2>3, <3>1, FirstHitIs, Zenon
  <2> QED
    BY <1>1, <1>2, <1>3, <2>4 DEF h, k
<1>4. CASE FindVerifier(f, s) = 0 /\ g[1].selector = s
  <2>1. \A j \in DOMAIN f : f[j].selector # s
    BY <1>4, FirstHit
  <2>2. \A j \in DOMAIN h : h[j].selector = s => Len(f) + 1 <= j
    BY <1>1, <1>2, <2>1
  <2> DEFINE k == Len(f) + 1
  <2>3. /\ h \in Seq(EntryType) /\ k \in DOMAIN h /\ h[k].selector = s
        /\ \A j \in DOMAIN h : h[j].selector = s => k <= j
    BY <1>1, <1>2, <1>4, <2>2
  <2> HIDE DEF k
  <2>4. FindVerifier(h, s) = k
    BY <2>3, FirstHitIs, Zenon
  <2> QED
    BY <1>1, <1>2, <1>4, <2>4 DEF h, k
<1>5. CASE FindVerifier(f, s) = 0 /\ g[1].selector # s
  <2>1. \A j \in DOMAIN f : f[j].selector # s
    BY <1>5, FirstHit
  <2>2. FindVerifier(h, s) = 0
    BY <1>1, <1>2, <1>5, <2>1, FirstHit
  <2> QED
    BY <1>1, <1>2, <1>5, <2>2 DEF h
<1> QED
  BY <1>3, <1>4, <1>5

(* Setting a flag moves no entry.                                           *)
LEMMA FirstHitFlagged ==
  ASSUME NEW f \in Seq(EntryType), NEW k \in DOMAIN f, NEW b \in BOOLEAN, NEW s
  PROVE  /\ [f EXCEPT ![k].unroutable = b] \in Seq(EntryType)
         /\ DOMAIN [f EXCEPT ![k].unroutable = b] = DOMAIN f
         /\ \A j \in DOMAIN f :
              LET e == [f EXCEPT ![k].unroutable = b][j] IN
              /\ e.selector = f[j].selector
              /\ e.verifier = f[j].verifier
              /\ e.estop = f[j].estop
              /\ e.unroutable = IF j = k THEN b ELSE f[j].unroutable
         /\ FindVerifier([f EXCEPT ![k].unroutable = b], s) = FindVerifier(f, s)
<1> DEFINE g == [f EXCEPT ![k].unroutable = b]
<1>1. DOMAIN g = DOMAIN f
  OBVIOUS
<1>2. \A j \in DOMAIN f : f[j] \in EntryType
  OBVIOUS
<1>3. \A j \in DOMAIN f : g[j] = IF j = k THEN [f[j] EXCEPT !.unroutable = b] ELSE f[j]
  OBVIOUS
<1>4. \A j \in DOMAIN f :
        /\ g[j] \in EntryType
        /\ g[j].selector = f[j].selector
        /\ g[j].verifier = f[j].verifier
        /\ g[j].estop = f[j].estop
        /\ g[j].unroutable = IF j = k THEN b ELSE f[j].unroutable
  BY <1>2, <1>3 DEF EntryType
<1>5. g \in Seq(EntryType)
  <2>1. DOMAIN f = 1..Len(f) /\ Len(f) \in Nat
    OBVIOUS
  <2>2. g \in [1..Len(f) -> EntryType]
    BY <1>1, <1>4, <2>1
  <2> HIDE DEF g
  <2> QED
    BY <2>1, <2>2
<1> HIDE DEF g
<1>6. FindVerifier(g, s) = FindVerifier(f, s)
  <2> DEFINE i == FindVerifier(f, s)
  <2>1. CASE i = 0
    BY <1>1, <1>4, <1>5, <2>1, FirstHit
  <2>2. CASE i # 0
    <3>1. i \in DOMAIN f /\ f[i].selector = s /\ \A j \in DOMAIN f : f[j].selector = s => i <= j
      BY <2>2, FirstHit
    <3> HIDE DEF i
    <3>2. i \in DOMAIN g /\ g[i].selector = s /\ \A j \in DOMAIN g : g[j].selector = s => i <= j
      BY <1>1, <1>4, <3>1
    <3>3. FindVerifier(g, s) = i
      BY <1>5, <3>2, FirstHitIs
    <3> QED
      BY <3>3 DEF i
  <2> QED
    BY <2>1, <2>2
<1> QED
  BY <1>1, <1>4, <1>5, <1>6 DEF g

-----------------------------------------------------------------------------
(* What a list says, as a fact about values: f the list, m the mocks, wr    *)
(* what is wrapped, rt the routes and en the router's entries.              *)

RecordedIn(f, m, wr, rt) ==
  \A k \in DOMAIN f :
    /\ f[k].selector = OwnSelector[f[k].verifier]
    /\ IF f[k].estop = None THEN f[k].verifier \in m ELSE wr[f[k].estop] = f[k].verifier
    /\ ~f[k].unroutable => rt[f[k].selector] # None

DeployedIn(m, wr) ==
  LET wrappers == {w \in Wrapper : wr[w] # None} IN
  m \cup wrappers \cup {wr[w] : w \in wrappers}

BuiltIn(wr, v) == OwnSelector[IF v \in Wrapper THEN wr[v] ELSE v]

ListedIn(f, m, wr) ==
  \A v \in DeployedIn(m, wr) :
    \E k \in DOMAIN f : f[k].selector = BuiltIn(wr, v) /\ v \in {f[k].estop, f[k].verifier}

(* The flag of the entry found for s. *)
AgreesOn(s, f, wr, en) ==
  IF en[s] \in Verifier
    THEN BuiltIn(wr, en[s]) = s => FindVerifier(f, s) # 0 /\ ~f[FindVerifier(f, s)].unroutable
    ELSE FindVerifier(f, s) # 0 => f[FindVerifier(f, s)].unroutable

TruthfulIn(f, m, wr, en) ==
  f # Torn /\ ListedIn(f, m, wr) /\ \A s \in Selector : AgreesOn(s, f, wr, en)

(* An entry stays right while the chain grows.                              *)
LEMMA RecordedKept ==
  ASSUME NEW f \in Seq(EntryType), NEW m, NEW wr, NEW rt, NEW m2, NEW wr2, NEW rt2,
         RecordedIn(f, m, wr, rt), m \subseteq m2,
         \A w \in Wrapper : wr[w] # None => wr2[w] = wr[w],
         \A s \in Selector : rt[s] # None => rt2[s] = rt[s]
  PROVE  RecordedIn(f, m2, wr2, rt2)
<1> SUFFICES ASSUME NEW k \in DOMAIN f
             PROVE  /\ f[k].selector = OwnSelector[f[k].verifier]
                    /\ IF f[k].estop = None THEN f[k].verifier \in m2 ELSE wr2[f[k].estop] = f[k].verifier
                    /\ ~f[k].unroutable => rt2[f[k].selector] # None
  BY DEF RecordedIn
<1>1. f[k] \in EntryType
  OBVIOUS
<1>2. f[k].verifier # None /\ f[k].selector \in Selector /\ f[k].estop \in Wrapper \cup {None}
  BY <1>1 DEF EntryType
<1> QED
  BY <1>2 DEF RecordedIn

(* So does one appended to right entries.                                   *)
LEMMA RecordedAppended ==
  ASSUME NEW f \in Seq(EntryType), NEW g \in Seq(EntryType), Len(g) = 1, NEW m, NEW wr, NEW rt,
         RecordedIn(f, m, wr, rt), RecordedIn(g, m, wr, rt)
  PROVE  RecordedIn(f \o g, m, wr, rt)
<1> DEFINE h == f \o g
<1>1. \A k \in DOMAIN h : (k \in DOMAIN f /\ h[k] = f[k]) \/ h[k] = g[1]
  BY FirstHitAppended
<1>2. 1 \in DOMAIN g
  OBVIOUS
<1> HIDE DEF h
<1>3. RecordedIn(h, m, wr, rt)
  BY <1>1, <1>2 DEF RecordedIn
<1> QED
  BY <1>3 DEF h

(* A flag may be cleared for a selector that was added.                     *)
LEMMA RecordedFlagged ==
  ASSUME NEW f \in Seq(EntryType), NEW k \in DOMAIN f, NEW b \in BOOLEAN, NEW m, NEW wr, NEW rt,
         RecordedIn(f, m, wr, rt), ~b => rt[f[k].selector] # None
  PROVE  RecordedIn([f EXCEPT ![k].unroutable = b], m, wr, rt)
<1> DEFINE g == [f EXCEPT ![k].unroutable = b]
<1>1. /\ DOMAIN g = DOMAIN f
      /\ \A j \in DOMAIN f :
           /\ g[j].selector = f[j].selector
           /\ g[j].verifier = f[j].verifier
           /\ g[j].estop = f[j].estop
           /\ g[j].unroutable = IF j = k THEN b ELSE f[j].unroutable
  BY FirstHitFlagged
<1> HIDE DEF g
<1>2. RecordedIn(g, m, wr, rt)
  BY <1>1 DEF RecordedIn
<1> QED
  BY <1>2 DEF g

(* Setting the flag of the entry for s makes the list agree with what has   *)
(* become of s, and says nothing about any other selector.                  *)
LEMMA TruthFlagged ==
  ASSUME NEW f \in Seq(EntryType), NEW m, NEW wr, NEW en, NEW s \in Selector, NEW b \in BOOLEAN, NEW en2,
         TruthfulIn(f, m, wr, en), FindVerifier(f, s) # 0,
         b <=> en2[s] \notin Verifier,
         \A t \in Selector \ {s} : en2[t] = en[t]
  PROVE  TruthfulIn([f EXCEPT ![FindVerifier(f, s)].unroutable = b], m, wr, en2)
<1> DEFINE k == FindVerifier(f, s)
           g == [f EXCEPT ![k].unroutable = b]
<1>1. k \in DOMAIN f /\ f[k].selector = s
  BY FirstHit
<1>2. /\ g \in Seq(EntryType)
      /\ DOMAIN g = DOMAIN f
      /\ \A j \in DOMAIN f :
           /\ g[j].selector = f[j].selector
           /\ g[j].verifier = f[j].verifier
           /\ g[j].estop = f[j].estop
           /\ g[j].unroutable = IF j = k THEN b ELSE f[j].unroutable
      /\ \A t \in Selector : FindVerifier(g, t) = FindVerifier(f, t)
  BY <1>1, FirstHitFlagged
<1>3. g # Torn
  BY <1>2
<1> HIDE DEF g
<1>4. ListedIn(g, m, wr)
  BY <1>2 DEF TruthfulIn, ListedIn
<1>5. AgreesOn(s, g, wr, en2)
  BY <1>1, <1>2 DEF AgreesOn
<1>6. ASSUME NEW t \in Selector \ {s}
      PROVE  AgreesOn(t, g, wr, en2)
  <2>1. AgreesOn(t, f, wr, en) /\ en2[t] = en[t]
    BY DEF TruthfulIn
  <2>2. FindVerifier(f, t) # 0 => FindVerifier(f, t) \in DOMAIN f /\ f[FindVerifier(f, t)].selector = t
    BY FirstHit
  <2>3. FindVerifier(f, t) # 0 => FindVerifier(f, t) # k
    BY <1>1, <2>2
  <2> QED
    BY <1>2, <2>1, <2>2, <2>3 DEF AgreesOn
<1> QED
  BY <1>3, <1>4, <1>5, <1>6 DEF TruthfulIn, g

(* A list without an entry for s goes on telling the truth when s is        *)
(* removed, or added for a verifier that was deployed.                      *)
LEMMA TruthUnlisted ==
  ASSUME NEW f \in Seq(EntryType), NEW m, NEW wr, NEW en, NEW s \in Selector, NEW en2,
         TruthfulIn(f, m, wr, en), FindVerifier(f, s) = 0,
         en2[s] \in Verifier => en2[s] \in DeployedIn(m, wr),
         \A t \in Selector \ {s} : en2[t] = en[t]
  PROVE  TruthfulIn(f, m, wr, en2)
<1>1. \A j \in DOMAIN f : f[j].selector # s
  BY FirstHit
<1>2. en2[s] \in Verifier => BuiltIn(wr, en2[s]) # s
  BY <1>1 DEF TruthfulIn, ListedIn
<1>3. AgreesOn(s, f, wr, en2)
  BY <1>2 DEF AgreesOn
<1>4. \A t \in Selector \ {s} : AgreesOn(t, f, wr, en2)
  BY DEF TruthfulIn, AgreesOn
<1> QED
  BY <1>3, <1>4 DEF TruthfulIn

(* A deployment, of a mock or of a wrapper and the verifier behind it, once *)
(* its entry is at the end.                                                 *)
LEMMA TruthAppended ==
  ASSUME NEW f \in Seq(EntryType), NEW g \in Seq(EntryType), Len(g) = 1,
         NEW m, NEW wr, NEW m2, NEW wr2, NEW en, NEW X,
         TruthfulIn(f, m, wr, en),
         DeployedIn(m2, wr2) = DeployedIn(m, wr) \cup X,
         \A v \in DeployedIn(m, wr) : BuiltIn(wr2, v) = BuiltIn(wr, v),
         \A s \in Selector : en[s] \in Verifier => en[s] \in DeployedIn(m, wr),
         \A x \in X : g[1].selector = BuiltIn(wr2, x) /\ x \in {g[1].estop, g[1].verifier},
         g[1].unroutable
  PROVE  TruthfulIn(f \o g, m2, wr2, en)
<1> DEFINE h == f \o g
<1>1. /\ h \in Seq(EntryType)
      /\ \A k \in DOMAIN f : k \in DOMAIN h /\ h[k] = f[k]
      /\ Len(f) + 1 \in DOMAIN h
      /\ h[Len(f) + 1] = g[1]
  BY FirstHitAppended
<1>2. ASSUME NEW s \in Selector
      PROVE  FindVerifier(h, s) = IF FindVerifier(f, s) # 0 THEN FindVerifier(f, s)
                                  ELSE IF g[1].selector = s THEN Len(f) + 1 ELSE 0
  BY FirstHitAppended
<1>3. h # Torn
  BY <1>1
<1> HIDE DEF h
<1>4. ListedIn(h, m2, wr2)
  <2> SUFFICES ASSUME NEW v \in DeployedIn(m2, wr2)
               PROVE  \E k \in DOMAIN h : h[k].selector = BuiltIn(wr2, v) /\ v \in {h[k].estop, h[k].verifier}
    BY DEF ListedIn
  <2>1. CASE v \in DeployedIn(m, wr)
    <3>1. PICK k \in DOMAIN f : f[k].selector = BuiltIn(wr, v) /\ v \in {f[k].estop, f[k].verifier}
      BY <2>1 DEF TruthfulIn, ListedIn
    <3> QED
      BY <1>1, <2>1, <3>1
  <2>2. CASE v \in X
    BY <1>1, <2>2
  <2> QED
    BY <2>1, <2>2
<1>5. ASSUME NEW s \in Selector
      PROVE  AgreesOn(s, h, wr2, en)
  <2>1. AgreesOn(s, f, wr, en)
    BY DEF TruthfulIn
  <2>2. en[s] \in Verifier => BuiltIn(wr2, en[s]) = BuiltIn(wr, en[s])
    OBVIOUS
  <2>3. CASE FindVerifier(f, s) # 0
    <3>1. FindVerifier(f, s) \in DOMAIN f
      BY <2>3, FirstHit
    <3> QED
      BY <1>1, <1>2, <2>1, <2>2, <2>3, <3>1 DEF AgreesOn
  <2>4. CASE FindVerifier(f, s) = 0
    BY <1>1, <1>2, <2>1, <2>2, <2>4 DEF AgreesOn
  <2> QED
    BY <2>3, <2>4
<1> QED
  BY <1>3, <1>4, <1>5 DEF TruthfulIn, h

-----------------------------------------------------------------------------
(* The invariant has two halves, each kept by every step: what file, router *)
(* and commands say of each other, and what a command that is alone does to *)
(* the router.                                                              *)

Books == TypeOK /\ Records /\ Undisturbed

Placed == mocks \subseteq Mock /\ StopsInPlace

(* The initial state. *)

(* An empty list is true of a router without verifiers.                     *)
LEMMA InitIInv == Init => IInv
<1> SUFFICES ASSUME Init
             PROVE  IInv
  OBVIOUS
<1> USE DEF Init, RouterInit, StopInit
<1>1. NoJob \in Job
  BY DEF NoJob, Job
<1>2. TypeOK
  BY <1>1 DEF TypeOK, RouterTypeOK, StopTypeOK, Entries, Steps
<1>3. Records
  <2>1. Recorded(file)
    BY DEF Recorded
  <2>2. \A sh \in Shell : Carries(job[sh], pc[sh])
    BY DEF Carries, NoJob, Adding, Removing, Deploying, Updates
  <2> QED
    BY <2>1, <2>2 DEF Records
<1>4. Undisturbed
  <2>1. \A s \in Selector : FindVerifier(file, s) = 0
    BY DEF FindVerifier
  <2>2. Deployed = {} /\ \A s \in Selector : entry[s] \notin Verifier
    BY DEF Deployed
  <2>3. file # Torn
    <3>1. << >> \in Seq(EntryType)
      OBVIOUS
    <3> QED
      BY <3>1
  <2>4. Truthful(file)
    BY <2>1, <2>2, <2>3 DEF Truthful
  <2> QED
    BY <2>4 DEF Undisturbed, Idle
<1>5. mocks \subseteq Mock /\ StopsInPlace
  BY DEF StopsInPlace, Finds, NoJob, Adding, Idle
<1> QED
  BY <1>2, <1>3, <1>4, <1>5 DEF IInv

-----------------------------------------------------------------------------
(* Types. *)

(* Deployments are of verifiers. *)
LEMMA DeployedVerifiers ==
  ASSUME TypeOK
  PROVE  Deployed \subseteq Verifier
BY DEF Deployed, TypeOK, StopTypeOK

(* What is typed at a terminal.                                             *)
LEMMA TypedJob ==
  ASSUME TypeOK, NEW c \in Command
  PROVE  /\ [NoJob EXCEPT !.cmd = c.cmd, !.selector = c.selector, !.target = c.target] \in Job
         /\ c.target # None => c.target \in Deployed
         /\ c.cmd \in Adding \cup Removing => c.selector \in Selector
         /\ c.selector # None => c.cmd \in Adding \cup Removing \cup {"activate-estop"}
<1>1. Deployed \subseteq Verifier
  BY DeployedVerifiers
<1>2. /\ c.cmd \in Adding \cup Removing \cup Deploying \cup {"activate-estop"}
      /\ c.selector \in Selector \cup {None}
      /\ c.target \in Deployed \cup {None}
      /\ c.cmd \in Adding \cup Removing => c.selector \in Selector
      /\ c.selector # None => c.cmd \in Adding \cup Removing \cup {"activate-estop"}
  BY DEF Command, Adding, Removing, Deploying
<1> QED
  BY <1>1, <1>2 DEF Job, NoJob

(* The entry of the file for a selector names a wrapper that was deployed   *)
(* and the verifier behind it, or a mock.                                   *)
LEMMA FromConfig ==
  ASSUME TypeOK, Records, NEW s
  PROVE  /\ EstopFromConfig(file, s) \in (Wrapper \cap Deployed) \cup {None}
         /\ ContractFromConfig(file, s) \in Deployed \cup {None}
         /\ EstopFromConfig(file, s) = None => ContractFromConfig(file, s) \in mocks \cup {None}
<1> DEFINE k == FindVerifier(file, s)
<1>1. CASE ~Listed(file, s)
  BY <1>1 DEF EstopFromConfig, ContractFromConfig
<1>2. CASE Listed(file, s)
  <2>1. file # Torn /\ k # 0 /\ file \in Seq(EntryType) /\ k \in DOMAIN file
    BY <1>2, FirstHit DEF Listed, TypeOK
  <2>2. file[k].estop \in Wrapper \cup {None} /\ file[k].verifier \in Impl
    <3>1. file[k] \in EntryType
      BY <2>1
    <3> QED
      BY <3>1 DEF EntryType
  <2>3. IF file[k].estop = None THEN file[k].verifier \in mocks ELSE wrapped[file[k].estop] = file[k].verifier
    BY <2>1 DEF Records, Recorded
  <2>4. EstopFromConfig(file, s) = file[k].estop /\ ContractFromConfig(file, s) = file[k].verifier
    BY <1>2 DEF EstopFromConfig, ContractFromConfig
  <2> HIDE DEF k
  <2> QED
    BY <2>2, <2>3, <2>4 DEF Deployed
<1> QED
  BY <1>1, <1>2

-----------------------------------------------------------------------------
(* The chain. *)

(* What no step takes back. *)
Grows ==
  /\ mocks \subseteq mocks'
  /\ \A w \in Wrapper : wrapped[w] # None => wrapped'[w] = wrapped[w]
  /\ \A s \in Selector : route[s] # None => route'[s] = route[s]
  /\ \A s \in Selector : entry[s] = Tombstone => entry'[s] = Tombstone

(* The chain's variables have their types. *)
ChainTypes ==
  /\ RouterTypeOK
  /\ StopTypeOK
  /\ mocks \subseteq Impl
  /\ state \in [OpType -> {"Unset", "Waiting", "Ready", "Done"}]

(* The router uses what was deployed. *)
RoutesDeployed ==
  /\ \A s \in Selector : entry[s] = Unset <=> route[s] = None
  /\ \A s \in Selector : entry[s] \in Verifier => entry[s] \in Deployed

(* What the transaction of a command j does to router and deployments. *)
Added(j) ==
  /\ j.cmd = "execute-add-verifier"
  /\ j.selector \in Selector
  /\ UNCHANGED <<wrapped, mocks>>
  /\ \E v \in Deployed :
       /\ j.op.target = v
       /\ entry[j.selector] = Unset
       /\ entry' = [entry EXCEPT ![j.selector] = v]
       /\ route' = [route EXCEPT ![j.selector] = v]

Removed(j) ==
  /\ j.cmd = "execute-remove-verifier"
  /\ j.selector \in Selector
  /\ UNCHANGED <<wrapped, mocks, route>>
  /\ entry[j.selector] # Unset
  /\ entry' = [entry EXCEPT ![j.selector] = Tombstone]

Elsewhere(j) == ~Updates(j) /\ UNCHANGED <<entry, route, wrapped, mocks>>

(* The cases of a transaction.                                              *)
LEMMA ApplyCases ==
  ASSUME TypeOK, Records, NEW sh \in Shell, pc[sh] = "submit", Apply(job[sh])
  PROVE  /\ Added(job[sh]) \/ Removed(job[sh]) \/ Elsewhere(job[sh])
         /\ lapsed' = lapsed
         /\ paused' \in [Wrapper -> BOOLEAN]
         /\ state' \in [OpType -> {"Unset", "Waiting", "Ready", "Done"}]
<1> DEFINE j == job[sh]
<1>1. /\ j.cmd \in Adding \cup Removing => j.selector \in Selector
      /\ j.cmd \in Adding => \E v \in Deployed : j.op = AddOp(j.selector, v)
      /\ j.cmd \in Removing => j.op = RemoveOp(j.selector)
  BY DEF Records, Carries
<1>2. /\ paused \in [Wrapper -> BOOLEAN]
      /\ state \in [OpType -> {"Unset", "Waiting", "Ready", "Done"}]
  BY DEF TypeOK, StopTypeOK
<1> HIDE DEF j
<1>3. CASE j.cmd \in {"schedule-add-verifier", "schedule-remove-verifier"} /\ Schedule(j.op)
  BY <1>2, <1>3 DEF Schedule, Elsewhere, Updates, j
<1>4. CASE j.cmd = "execute-add-verifier" /\ Execute(j.op)
  <2>1. PICK v \in Deployed : j.op = AddOp(j.selector, v)
    BY <1>1, <1>4 DEF Adding
  <2>2. j.op.fn = "add_verifier" /\ j.op.selector = j.selector /\ j.op.target = v
    BY <2>1 DEF AddOp
  <2>3. j.selector \in Selector
    BY <1>1, <1>4 DEF Adding
  <2>4. /\ AddVerifier(Timelock, j.selector, v)
        /\ UNCHANGED <<wrapped, paused, mocks>>
        /\ state' = [state EXCEPT ![j.op] = "Done"]
    BY <1>4, <2>2 DEF Execute
  <2>5. Added(j) /\ lapsed' = lapsed
    BY <1>4, <2>2, <2>3, <2>4 DEF Added, AddVerifier
  <2> QED
    BY <1>2, <2>4, <2>5 DEF j
<1>5. CASE j.cmd = "execute-remove-verifier" /\ Execute(j.op)
  <2>1. j.op.fn = "remove_verifier" /\ j.op.selector = j.selector
    BY <1>1, <1>5 DEF Removing, RemoveOp
  <2>2. j.selector \in Selector
    BY <1>1, <1>5 DEF Removing
  <2>3. /\ RemoveVerifier(Timelock, j.selector)
        /\ UNCHANGED <<wrapped, paused, mocks>>
        /\ state' = [state EXCEPT ![j.op] = "Done"]
    BY <1>5, <2>1 DEF Execute
  <2>4. Removed(j) /\ lapsed' = lapsed
    BY <1>5, <2>2, <2>3 DEF Removed, RemoveVerifier
  <2> QED
    BY <1>2, <2>3, <2>4 DEF j
<1>6. CASE j.cmd = "cancel-operation" /\ Cancel(j.op)
  BY <1>2, <1>6 DEF Cancel, Elsewhere, Updates, j
<1>7. CASE j.cmd = "activate-estop" /\ Stop(j.target)
  BY <1>2, <1>7 DEF Stop, Estop, ownership, Elsewhere, Updates, j
<1> QED
  BY <1>3, <1>4, <1>5, <1>6, <1>7 DEF Apply, j

(* A transaction leaves the chain in order.                                 *)
LEMMA ApplyKeeps ==
  ASSUME TypeOK, Records, NEW sh \in Shell, pc[sh] = "submit", Apply(job[sh])
  PROVE  ChainTypes' /\ Grows /\ RoutesDeployed'
<1>1. /\ RouterTypeOK /\ StopTypeOK /\ mocks \subseteq Impl
      /\ RoutesDeployed /\ Deployed \subseteq Verifier
  BY DeployedVerifiers DEF TypeOK, Records, RoutesDeployed
<1>2. /\ lapsed' = lapsed
      /\ paused' \in [Wrapper -> BOOLEAN]
      /\ state' \in [OpType -> {"Unset", "Waiting", "Ready", "Done"}]
  BY ApplyCases
<1>3. CASE Elsewhere(job[sh])
  BY <1>1, <1>2, <1>3 DEF Elsewhere, ChainTypes, Grows, RoutesDeployed, RouterTypeOK, StopTypeOK, Deployed
<1>4. CASE Added(job[sh])
  <2> DEFINE s == job[sh].selector
  <2>1. PICK v \in Deployed : /\ entry[s] = Unset
                             /\ entry' = [entry EXCEPT ![s] = v]
                             /\ route' = [route EXCEPT ![s] = v]
    BY <1>4 DEF Added
  <2>2. s \in Selector /\ wrapped' = wrapped /\ mocks' = mocks /\ v \in Verifier
    BY <1>1, <1>4 DEF Added
  <2>3. Deployed' = Deployed
    BY <2>2 DEF Deployed
  <2> HIDE DEF s
  <2>4. ChainTypes'
    BY <1>1, <1>2, <2>1, <2>2 DEF ChainTypes, RouterTypeOK, StopTypeOK, Entries
  <2>5. Grows
    BY <1>1, <2>1, <2>2 DEF Grows, RouterTypeOK, RoutesDeployed
  <2>6. RoutesDeployed'
    BY <1>1, <2>1, <2>2, <2>3 DEF RoutesDeployed, RouterTypeOK
  <2> QED
    BY <2>4, <2>5, <2>6
<1>5. CASE Removed(job[sh])
  <2> DEFINE s == job[sh].selector
  <2>1. /\ s \in Selector /\ wrapped' = wrapped /\ mocks' = mocks /\ route' = route
        /\ entry[s] # Unset /\ entry' = [entry EXCEPT ![s] = Tombstone]
    BY <1>5 DEF Removed
  <2>2. Deployed' = Deployed
    BY <2>1 DEF Deployed
  <2> HIDE DEF s
  <2>3. ChainTypes'
    BY <1>1, <1>2, <2>1 DEF ChainTypes, RouterTypeOK, StopTypeOK, Entries
  <2>4. Grows
    BY <1>1, <2>1 DEF Grows, RouterTypeOK
  <2>5. RoutesDeployed'
    BY <1>1, <2>1, <2>2 DEF RoutesDeployed, RouterTypeOK
  <2> QED
    BY <2>3, <2>4, <2>5
<1> QED
  BY <1>3, <1>4, <1>5, ApplyCases

(* A deployment: what was deployed stays what it is, and what is new        *)
(* answers to the selector the verifier was built with.                     *)
NewlyDeployed(i, w) == IF w = None THEN {i} ELSE {w, i}

LEMMA DeploySteps ==
  ASSUME TypeOK, Records, NEW i \in Impl, NEW w \in Wrapper \cup {None},
         (w # None /\ DeployWrapper(w, i)) \/ (w = None /\ DeployMock(i))
  PROVE  /\ ChainTypes' /\ Grows /\ RoutesDeployed'
         /\ entry' = entry
         /\ Deployed' = Deployed \cup NewlyDeployed(i, w)
         /\ \A v \in Deployed : BuiltIn(wrapped', v) = BuiltIn(wrapped, v)
         /\ \A x \in NewlyDeployed(i, w) : OwnSelector[i] = BuiltIn(wrapped', x)
         /\ IF w = None THEN i \in mocks' ELSE wrapped'[w] = i
<1>1. /\ RouterTypeOK /\ StopTypeOK /\ mocks \subseteq Impl
      /\ state \in [OpType -> {"Unset", "Waiting", "Ready", "Done"}]
      /\ RoutesDeployed
  BY DEF TypeOK, Records, RoutesDeployed
<1>2. CASE w # None /\ DeployWrapper(w, i)
  <2>1. /\ w \in Wrapper /\ wrapped[w] = None /\ wrapped' = [wrapped EXCEPT ![w] = i]
        /\ paused' = paused /\ entry' = entry /\ lapsed' = lapsed /\ route' = route
        /\ mocks' = mocks /\ state' = state
    BY <1>2 DEF DeployWrapper, ConstructWrapper
  <2>2. ChainTypes' /\ Grows
    BY <1>1, <2>1 DEF ChainTypes, Grows, RouterTypeOK, StopTypeOK
  <2>3. Deployed' = Deployed \cup {w, i}
    <3>1. wrapped \in [Wrapper -> Impl \cup {None}] /\ i # None
      BY <1>1 DEF StopTypeOK
    <3>2. \A u \in Wrapper : wrapped'[u] = IF u = w THEN i ELSE wrapped[u]
      BY <2>1, <3>1
    <3> QED
      BY <2>1, <3>1, <3>2 DEF Deployed
  <2>4. RoutesDeployed'
    BY <1>1, <2>1, <2>3 DEF RoutesDeployed
  <2>5. /\ \A v \in Deployed : BuiltIn(wrapped', v) = BuiltIn(wrapped, v)
        /\ OwnSelector[i] = BuiltIn(wrapped', w)
        /\ OwnSelector[i] = BuiltIn(wrapped', i)
        /\ wrapped'[w] = i
    BY <1>1, <2>1 DEF BuiltIn, Deployed, StopTypeOK
  <2> QED
    BY <1>2, <2>1, <2>2, <2>3, <2>4, <2>5 DEF NewlyDeployed
<1>3. CASE w = None /\ DeployMock(i)
  <2>1. /\ mocks' = mocks \cup {i} /\ wrapped' = wrapped
        /\ paused' = paused /\ entry' = entry /\ lapsed' = lapsed /\ route' = route
        /\ state' = state
    BY <1>3 DEF DeployMock
  <2>2. ChainTypes' /\ Grows
    BY <1>1, <2>1 DEF ChainTypes, Grows, RouterTypeOK, StopTypeOK
  <2>3. Deployed' = Deployed \cup {i}
    BY <2>1 DEF Deployed
  <2>4. RoutesDeployed'
    BY <1>1, <2>1, <2>3 DEF RoutesDeployed
  <2>5. /\ \A v \in Deployed : BuiltIn(wrapped', v) = BuiltIn(wrapped, v)
        /\ OwnSelector[i] = BuiltIn(wrapped', i)
        /\ i \in mocks'
    BY <2>1 DEF BuiltIn
  <2> QED
    BY <1>3, <2>1, <2>2, <2>3, <2>4, <2>5 DEF NewlyDeployed
<1> QED
  BY <1>2, <1>3

-----------------------------------------------------------------------------
(* A step of one terminal. *)

(* The steps before a transaction. *)
Early == {"config", "estop", "contract", "check", "submit"}

(* What Truthful and Recorded say of the file and of a copy, as facts about *)
(* values, before and after a step.                                         *)
LEMMA FileAsValues ==
  /\ Truthful(file) <=> TruthfulIn(file, mocks, wrapped, entry)
  /\ Truthful(file)' <=> TruthfulIn(file', mocks', wrapped', entry')
  /\ Recorded(file) <=> RecordedIn(file, mocks, wrapped, route)
  /\ Recorded(file)' <=> RecordedIn(file', mocks', wrapped', route')
BY DEF Truthful, TruthfulIn, ListedIn, AgreesOn, Deployed, DeployedIn, Built, BuiltIn, Recorded, RecordedIn

(* The same of the copy a command carries.                                  *)
LEMMA CopyAsValues ==
  ASSUME NEW sh \in Shell
  PROVE  /\ Truthful(job[sh].copy) <=> TruthfulIn(job[sh].copy, mocks, wrapped, entry)
         /\ Truthful(job[sh].copy)' <=> TruthfulIn(job'[sh].copy, mocks', wrapped', entry')
         /\ Recorded(job[sh].copy) <=> RecordedIn(job[sh].copy, mocks, wrapped, route)
         /\ Recorded(job[sh].copy)' <=> RecordedIn(job'[sh].copy, mocks', wrapped', route')
BY DEF Truthful, TruthfulIn, ListedIn, AgreesOn, Deployed, DeployedIn, Built, BuiltIn, Recorded, RecordedIn

(* The list a command past its transaction is about to write.               *)
NewList(f, j) == IF Rewritten(f, j) = Torn THEN f ELSE Rewritten(f, j)

(* What a command past its transaction leads to is that list.               *)
LEMMA NewListAsValues ==
  ASSUME NEW sh \in Shell
  PROVE  /\ pc[sh] = "load" =>
              (Leads(job[sh], pc[sh]) <=>
                 file # Torn /\ TruthfulIn(NewList(file, job[sh]), mocks, wrapped, entry))
         /\ pc'[sh] = "load" =>
              (Leads(job[sh], pc[sh])' <=>
                 file' # Torn /\ TruthfulIn(NewList(file', job'[sh]), mocks', wrapped', entry'))
BY DEF Leads, NewList, Truthful, TruthfulIn, ListedIn, AgreesOn, Deployed, DeployedIn, Built, BuiltIn

(* While the chain grows, a right entry of the file stays right.            *)
LEMMA FileStaysRecorded ==
  ASSUME TypeOK, Records, Grows, file' = file
  PROVE  file' # Torn => Recorded(file)'
<1> SUFFICES ASSUME file' # Torn
             PROVE  Recorded(file)'
  OBVIOUS
<1>1. file \in Seq(EntryType) /\ RecordedIn(file, mocks, wrapped, route)
  BY FileAsValues DEF TypeOK, Records
<1>2. RecordedIn(file, mocks', wrapped', route')
  BY <1>1, RecordedKept DEF Grows
<1> QED
  BY <1>2, FileAsValues

(* So does an entry of the copy of a command that keeps its job.            *)
LEMMA CopyStaysRecorded ==
  ASSUME TypeOK, Grows, NEW sh \in Shell, job'[sh].copy = job[sh].copy,
         job[sh].copy \in Seq(EntryType), Recorded(job[sh].copy)
  PROVE  Recorded(job[sh].copy)'
<1>1. RecordedIn(job[sh].copy, mocks, wrapped, route)
  BY CopyAsValues
<1>2. RecordedIn(job[sh].copy, mocks', wrapped', route')
  BY <1>1, RecordedKept DEF Grows
<1> QED
  BY <1>2, CopyAsValues

(* A terminal that does nothing carries what it carried.                    *)
LEMMA OthersCarry ==
  ASSUME TypeOK, Records, Grows, NEW sh \in Shell, job'[sh] = job[sh], pc'[sh] = pc[sh]
  PROVE  Carries(job[sh], pc[sh])'
<1> DEFINE j == job[sh]
<1>1. Carries(j, pc[sh])
  BY DEF Records
<1>2. Deployed \subseteq Deployed'
  BY DEF Grows, Deployed
<1>3. (pc[sh] = "load" /\ j.cmd \in Deploying) \/ pc[sh] \in {"truncate", "fill"} =>
        j.copy \in Seq(EntryType) /\ Recorded(job[sh].copy)'
  BY <1>1, CopyStaysRecorded DEF Carries
<1>4. pc[sh] = "load" /\ Updates(j) =>
        IF j.cmd = "execute-add-verifier" THEN route'[j.selector] # None ELSE entry'[j.selector] = Tombstone
  <2> SUFFICES ASSUME pc[sh] = "load", Updates(j)
               PROVE  IF j.cmd = "execute-add-verifier" THEN route'[j.selector] # None
                      ELSE entry'[j.selector] = Tombstone
    OBVIOUS
  <2>1. j.selector \in Selector
    BY <1>1 DEF Carries, Updates, Adding, Removing
  <2>2. IF j.cmd = "execute-add-verifier" THEN route[j.selector] # None ELSE entry[j.selector] = Tombstone
    BY <1>1 DEF Carries
  <2> QED
    BY <2>1, <2>2 DEF Grows
<1> QED
  BY <1>1, <1>2, <1>3, <1>4 DEF Carries, Updates

(* What a step of a terminal must show to keep the invariant.               *)
LEMMA ShellStep ==
  ASSUME Books, NEW sh \in Shell, NEW step \in Steps,
         ChainTypes', RoutesDeployed', Grows,
         file' \in Seq(EntryType) \cup {Torn}, file' # Torn => Recorded(file)',
         commands' \in Nat, calm' \in BOOLEAN, alone' \in BOOLEAN,
         pc' = [pc EXCEPT ![sh] = step],
         job' = [job EXCEPT ![sh] = job'[sh]], job'[sh] \in Job,
         Carries(job[sh], pc[sh])',
         calm' => calm /\ \A o \in Shell \ {sh} : Idle(o),
         calm' => IF step = "idle" THEN Truthful(file)' ELSE Leads(job[sh], pc[sh])'
  PROVE  Books'
<1> USE DEF Books
<1>1. /\ pc \in [Shell -> Steps] /\ job \in [Shell -> Job]
      /\ pc'[sh] = step
      /\ \A o \in Shell \ {sh} : pc'[o] = pc[o] /\ job'[o] = job[o]
  BY DEF TypeOK, Steps
<1>2. TypeOK'
  BY <1>1 DEF TypeOK, ChainTypes, Steps
<1>3. Records'
  <2>1. \A o \in Shell : Carries(job[o], pc[o])'
    BY <1>1, OthersCarry
  <2> QED
    BY <2>1 DEF Records, RoutesDeployed
<1>4. Undisturbed'
  <2> SUFFICES ASSUME calm'
               PROVE  /\ \A a, b \in Shell : ~Idle(a)' /\ ~Idle(b)' => a = b
                      /\ (\A o \in Shell : Idle(o)') => Truthful(file)'
                      /\ \A o \in Shell : ~Idle(o)' => Leads(job[o], pc[o])'
    BY DEF Undisturbed
  <2>1. \A o \in Shell \ {sh} : Idle(o)'
    BY <1>1 DEF Idle
  <2>2. Idle(sh)' <=> step = "idle"
    BY <1>1 DEF Idle
  <2> QED
    BY <2>1, <2>2
<1> QED
  BY <1>2, <1>3, <1>4

(* A step off the chain leaves it in order.                                 *)
LEMMA ChainUntouched ==
  ASSUME TypeOK, Records, UNCHANGED chain
  PROVE  ChainTypes' /\ RoutesDeployed' /\ Grows
BY DEF chain, TypeOK, Records, ChainTypes, RoutesDeployed, Grows, RouterTypeOK, StopTypeOK, Deployed

(* What the file says stays as true as it was, when it and what it is about *)
(* stay.                                                                    *)
LEMMA TruthUntouched ==
  ASSUME UNCHANGED <<file, mocks, wrapped, entry>>
  PROVE  Truthful(file)' <=> Truthful(file)
BY FileAsValues

(* Before the transaction is through, a command leads to the file as it is. *)
LEMMA EarlySteps ==
  ASSUME NEW sh \in Shell
  PROVE  /\ pc[sh] \in Early => (Leads(job[sh], pc[sh]) <=> Truthful(file))
         /\ pc'[sh] \in Early => (Leads(job[sh], pc[sh])' <=> Truthful(file)')
BY DEF Leads, Early

(* A command under way is alone while nothing has been disturbed.           *)
LEMMA BusyIsAlone ==
  ASSUME Undisturbed, NEW sh \in Shell, pc[sh] # "idle", calm
  PROVE  (\A o \in Shell \ {sh} : Idle(o)) /\ Leads(job[sh], pc[sh])
BY DEF Undisturbed, Idle

(* Leaving carries nothing.                                                 *)
LEMMA IdleCarries ==
  ASSUME TypeOK, NEW sh \in Shell, Leave(sh)
  PROVE  /\ Carries(job[sh], pc[sh])'
         /\ job'[sh] = NoJob /\ NoJob \in Job
         /\ job' = [job EXCEPT ![sh] = job'[sh]]
         /\ pc' = [pc EXCEPT ![sh] = "idle"]
<1>1. job'[sh] = NoJob /\ pc'[sh] = "idle"
  BY DEF Leave, Go, TypeOK
<1>2. Carries(job[sh], pc[sh])'
  BY <1>1 DEF Carries, NoJob, Adding, Removing, Deploying, Updates
<1>3. NoJob \in Job
  BY DEF NoJob, Job
<1> QED
  BY <1>1, <1>2, <1>3 DEF Leave, Go

(* Going on to another step.                                                *)
LEMMA Goes ==
  ASSUME TypeOK, NEW sh \in Shell, NEW step, NEW j, Go(sh, step, j)
  PROVE  /\ job'[sh] = j /\ pc'[sh] = step
         /\ job' = [job EXCEPT ![sh] = job'[sh]]
         /\ pc' = [pc EXCEPT ![sh] = step]
BY DEF Go, TypeOK

(* What a command carries before its transaction depends on deployments.    *)
LEMMA EarlyCarries ==
  ASSUME NEW sh \in Shell, UNCHANGED chain, NEW step \in Early, NEW j, Carries(j, step),
         job'[sh] = j, pc'[sh] = step
  PROVE  Carries(job[sh], pc[sh])'
<1>1. Deployed' = Deployed
  BY DEF Deployed, chain
<1> QED
  BY <1>1 DEF Carries, Early

(* A command begins.                                                        *)
LEMMA StartKeeps ==
  ASSUME Books, NEW sh \in Shell, NEW step \in Early, NEW j \in Job, Start(sh, step, j), Carries(j, step)
  PROVE  Books'
<1>1. TypeOK /\ Records /\ Undisturbed
  BY DEF Books
<1>2. /\ pc[sh] = "idle" /\ commands' = commands + 1 /\ file' = file /\ UNCHANGED chain
      /\ calm' = (calm /\ \A o \in Shell : Idle(o))
      /\ alone' = (alone /\ \A o \in Shell : Idle(o))
      /\ Go(sh, step, j)
  BY DEF Start, Idle
<1>3. /\ job'[sh] = j /\ pc'[sh] = step
      /\ job' = [job EXCEPT ![sh] = job'[sh]]
      /\ pc' = [pc EXCEPT ![sh] = step]
  BY <1>1, <1>2, Goes
<1>4. ChainTypes' /\ RoutesDeployed' /\ Grows
  BY <1>1, <1>2, ChainUntouched
<1>5. Carries(job[sh], pc[sh])'
  BY <1>2, <1>3, EarlyCarries
<1>6. calm' => calm /\ (\A o \in Shell \ {sh} : Idle(o)) /\ Leads(job[sh], pc[sh])'
  <2>1. calm' => calm /\ Truthful(file) /\ \A o \in Shell : Idle(o)
    BY <1>1, <1>2 DEF Undisturbed
  <2>2. Truthful(file)' <=> Truthful(file)
    BY <1>2, TruthUntouched DEF chain
  <2> QED
    BY <1>3, <2>1, <2>2, EarlySteps
<1>7. file' # Torn => Recorded(file)'
  BY <1>1, <1>2, <1>4, FileStaysRecorded
<1>8. /\ commands' \in Nat /\ calm' \in BOOLEAN /\ alone' \in BOOLEAN
      /\ file' \in Seq(EntryType) \cup {Torn} /\ step \in Steps /\ step # "idle"
  BY <1>1, <1>2 DEF TypeOK, Steps, Early
<1> QED
  BY <1>3, <1>4, <1>5, <1>6, <1>7, <1>8, ShellStep

(* A command goes on without having touched chain or file.                  *)
LEMMA GoesOnKeeps ==
  ASSUME Books, NEW sh \in Shell, pc[sh] \in Early, UNCHANGED <<chain, file, commands, history>>,
         NEW step \in Early, NEW j \in Job, Go(sh, step, j), Carries(j, step)
  PROVE  Books'
<1>1. TypeOK /\ Records /\ Undisturbed
  BY DEF Books
<1>2. UNCHANGED <<chain, file, commands, calm, alone>>
  BY DEF history
<1>3. /\ job'[sh] = j /\ pc'[sh] = step
      /\ job' = [job EXCEPT ![sh] = job'[sh]]
      /\ pc' = [pc EXCEPT ![sh] = step]
  BY <1>1, Goes
<1>4. ChainTypes' /\ RoutesDeployed' /\ Grows
  BY <1>1, <1>2, ChainUntouched
<1>5. Carries(job[sh], pc[sh])'
  BY <1>2, <1>3, EarlyCarries
<1>6. calm' => calm /\ (\A o \in Shell \ {sh} : Idle(o)) /\ Leads(job[sh], pc[sh])'
  <2>1. Truthful(file)' <=> Truthful(file)
    BY <1>2, TruthUntouched DEF chain
  <2>2. calm => Truthful(file) /\ \A o \in Shell \ {sh} : Idle(o)
    BY <1>1, BusyIsAlone, EarlySteps DEF Early
  <2> QED
    BY <1>2, <1>3, <2>1, <2>2, EarlySteps
<1>7. file' # Torn => Recorded(file)'
  BY <1>1, <1>2, <1>4, FileStaysRecorded
<1>8. /\ commands' \in Nat /\ calm' \in BOOLEAN /\ alone' \in BOOLEAN
      /\ file' \in Seq(EntryType) \cup {Torn} /\ step \in Steps /\ step # "idle"
  BY <1>1, <1>2 DEF TypeOK, Steps, Early
<1> QED
  BY <1>3, <1>4, <1>5, <1>6, <1>7, <1>8, ShellStep

(* A command that leaves without having touched the chain or the file.      *)
LEMMA LeavesKeeps ==
  ASSUME Books, NEW sh \in Shell, pc[sh] # "idle", Leave(sh), UNCHANGED <<chain, file, commands, alone>>,
         calm' \in BOOLEAN, calm' => calm /\ Truthful(file)
  PROVE  Books'
<1>1. TypeOK /\ Records /\ Undisturbed
  BY DEF Books
<1>2. /\ Carries(job[sh], pc[sh])'
      /\ job'[sh] \in Job
      /\ job' = [job EXCEPT ![sh] = job'[sh]]
      /\ pc' = [pc EXCEPT ![sh] = "idle"]
  BY <1>1, IdleCarries
<1>3. ChainTypes' /\ RoutesDeployed' /\ Grows
  BY <1>1, ChainUntouched
<1>4. file' # Torn => Recorded(file)'
  BY <1>1, <1>3, FileStaysRecorded
<1>5. calm' => calm /\ (\A o \in Shell \ {sh} : Idle(o)) /\ Truthful(file)'
  <2>1. Truthful(file)' <=> Truthful(file)
    BY TruthUntouched DEF chain
  <2> QED
    BY <1>1, <2>1, BusyIsAlone
<1>6. /\ commands' \in Nat /\ calm' \in BOOLEAN /\ alone' \in BOOLEAN
      /\ file' \in Seq(EntryType) \cup {Torn} /\ "idle" \in Steps
  BY <1>1 DEF TypeOK, Steps
<1> QED
  BY <1>2, <1>3, <1>4, <1>5, <1>6, ShellStep

(* A command that gives up before its transaction.                          *)
LEMMA GivesUpKeeps ==
  ASSUME Books, NEW sh \in Shell, pc[sh] \in Early, Leave(sh), UNCHANGED <<chain, file, commands, history>>
  PROVE  Books'
<1>1. TypeOK /\ Undisturbed /\ pc[sh] # "idle" /\ calm' = calm /\ alone' = alone
  BY DEF Books, Early, history
<1>2. calm' \in BOOLEAN /\ (calm' => calm /\ Truthful(file))
  BY <1>1, BusyIsAlone, EarlySteps DEF TypeOK
<1> QED
  BY <1>1, <1>2, LeavesKeeps

(* Commands are typed.                                                      *)
LEMMA TypeKeeps ==
  ASSUME Books, NEW sh \in Shell, NEW c \in Command, Type(sh, c)
  PROVE  Books'
<1> DEFINE step == IF c.selector = None THEN "submit" ELSE IF c.cmd = "activate-estop" THEN "estop" ELSE "config"
           j == [NoJob EXCEPT !.cmd = c.cmd, !.selector = c.selector, !.target = c.target]
<1>1. /\ j \in Job
      /\ c.target # None => c.target \in Deployed
      /\ c.cmd \in Adding \cup Removing => c.selector \in Selector
      /\ c.selector # None => c.cmd \in Adding \cup Removing \cup {"activate-estop"}
  BY TypedJob DEF Books
<1>2. j.cmd = c.cmd /\ j.selector = c.selector /\ j.target = c.target
  BY DEF NoJob
<1>3. Start(sh, step, j)
  BY DEF Type
<1>4. step \in Early /\ (step = "submit" <=> c.selector = None)
      /\ (step = "config" => c.selector # None /\ c.cmd # "activate-estop")
      /\ (step = "estop" => c.cmd = "activate-estop")
      /\ step \in {"config", "estop", "submit"}
  BY DEF Early
<1> HIDE DEF step, j
<1>5. /\ step = "config" => c.cmd \notin Deploying \cup {"none"}
      /\ c.cmd \in Adding \cup Removing => step = "config"
      /\ step \notin {"load", "truncate", "fill"}
  <2>1. (c.cmd \in Adding \cup Removing \cup {"activate-estop"} => c.cmd \notin Deploying \cup {"none"})
        /\ "activate-estop" \notin Adding \cup Removing
    BY DEF Adding, Removing, Deploying
  <2> QED
    BY <1>1, <1>4, <2>1 DEF Early
<1>6. Carries(j, step)
  BY <1>1, <1>2, <1>4, <1>5 DEF Carries
<1> QED
  BY <1>1, <1>3, <1>4, <1>6, StartKeeps

(* Cancellations are typed.                                                 *)
LEMMA TypeCancelKeeps ==
  ASSUME Books, NEW sh \in Shell, NEW op \in OpType, TypeCancel(sh, op)
  PROVE  Books'
<1> DEFINE j == [NoJob EXCEPT !.cmd = "cancel-operation", !.op = op]
<1>1. Start(sh, "config", j) /\ "config" \in Early
  BY DEF TypeCancel, Early
<1>2. j \in Job
  BY DEF NoJob, Job
<1>3. Carries(j, "config")
  BY DEF Carries, NoJob, Adding, Removing, Deploying
<1> HIDE DEF j
<1> QED
  BY <1>1, <1>2, <1>3, StartKeeps

(* What a command carries once it knows its operation.                      *)
LEMMA KnowsOperation ==
  ASSUME Books, NEW sh \in Shell, pc[sh] \in {"config", "estop", "contract"}, NEW op \in OpType,
         \/ job[sh].cmd \in Adding /\ \E v \in Deployed : op = AddOp(job[sh].selector, v)
         \/ job[sh].cmd \in Removing /\ op = RemoveOp(job[sh].selector)
  PROVE  [job[sh] EXCEPT !.op = op] \in Job /\ Carries([job[sh] EXCEPT !.op = op], "check")
<1> DEFINE j == [job[sh] EXCEPT !.op = op]
<1>1. job[sh] \in Job /\ Carries(job[sh], pc[sh])
  BY DEF Books, TypeOK, Records
<1>2. /\ j \in Job /\ j.op = op
      /\ j.cmd = job[sh].cmd /\ j.selector = job[sh].selector /\ j.target = job[sh].target
  BY <1>1 DEF Job
<1> HIDE DEF j
<1>3. Adding \cap Removing = {}
  BY DEF Adding, Removing
<1>4. Carries(j, "check")
  BY <1>1, <1>2, <1>3 DEF Carries
<1> QED
  BY <1>2, <1>4 DEF j

(* The operation of an addition.                                            *)
LEMMA AdditionTyped ==
  ASSUME Books, NEW sh \in Shell, pc[sh] # "idle", job[sh].cmd \in Adding, NEW v \in Deployed
  PROVE  AddOp(job[sh].selector, v) \in OpType
<1>1. job[sh].selector \in Selector /\ v \in Verifier
  BY DeployedVerifiers DEF Books, Records, Carries
<1> QED
  BY <1>1 DEF AddOp, OpType

(* load_config.                                                             *)
LEMMA LoadConfigKeeps ==
  ASSUME Books, NEW sh \in Shell, LoadConfig(sh)
  PROVE  Books'
<1> DEFINE j == job[sh]
<1>1. pc[sh] = "config" /\ UNCHANGED <<chain, file, commands, history>> /\ pc[sh] \in Early
  BY DEF LoadConfig, Early
<1>2. j \in Job /\ Carries(j, "config")
  BY <1>1 DEF Books, TypeOK, Records
<1>3. CASE Leave(sh)
  BY <1>1, <1>3, GivesUpKeeps
<1>4. CASE j.cmd \in Removing /\ Go(sh, "check", [j EXCEPT !.op = RemoveOp(j.selector)])
  <2>1. RemoveOp(j.selector) \in OpType
    BY <1>2, <1>4 DEF Carries, RemoveOp, OpType
  <2>2. [j EXCEPT !.op = RemoveOp(j.selector)] \in Job /\ Carries([j EXCEPT !.op = RemoveOp(j.selector)], "check")
    BY <1>1, <1>4, <2>1, KnowsOperation
  <2>3. "check" \in Early
    BY DEF Early
  <2> QED
    BY <1>1, <1>4, <2>2, <2>3, GoesOnKeeps
<1>5. CASE j.cmd \in Adding /\ j.target # None /\ Go(sh, "check", [j EXCEPT !.op = AddOp(j.selector, j.target)])
  <2>1. j.target \in Deployed
    BY <1>2, <1>5 DEF Carries
  <2>2. AddOp(j.selector, j.target) \in OpType
    BY <1>1, <1>5, <2>1, AdditionTyped
  <2>3. /\ [j EXCEPT !.op = AddOp(j.selector, j.target)] \in Job
        /\ Carries([j EXCEPT !.op = AddOp(j.selector, j.target)], "check")
    BY <1>1, <1>5, <2>1, <2>2, KnowsOperation
  <2>4. "check" \in Early
    BY DEF Early
  <2> QED
    BY <1>1, <1>5, <2>3, <2>4, GoesOnKeeps
<1>6. CASE j.cmd \in Adding /\ j.target = None /\ Go(sh, "estop", j)
  <2>1. Carries(j, "estop")
    BY <1>2, <1>6 DEF Carries
  <2>2. "estop" \in Early
    BY DEF Early
  <2> QED
    BY <1>1, <1>2, <1>6, <2>1, <2>2, GoesOnKeeps
<1>7. CASE j.cmd \notin Adding \cup Removing /\ Go(sh, "submit", j)
  <2>1. Carries(j, "submit")
    BY <1>2, <1>7 DEF Carries
  <2>2. "submit" \in Early
    BY DEF Early
  <2> QED
    BY <1>1, <1>2, <1>7, <2>1, <2>2, GoesOnKeeps
<1> QED
  BY <1>3, <1>4, <1>5, <1>6, <1>7 DEF LoadConfig

(* The address that was found.                                              *)
LEMMA FoundKeeps ==
  ASSUME Books, NEW sh \in Shell, pc[sh] \in {"estop", "contract"}, NEW v \in Deployed, Found(sh, v),
         UNCHANGED <<chain, file, commands, history>>
  PROVE  Books'
<1> DEFINE j == job[sh]
<1>1. pc[sh] # "idle" /\ pc[sh] \in Early /\ "submit" \in Early /\ "check" \in Early
  BY DEF Early
<1>2. j \in Job /\ Carries(j, pc[sh])
  BY DEF Books, TypeOK, Records
<1>3. CASE j.cmd = "activate-estop" /\ Go(sh, "submit", [j EXCEPT !.target = v])
  <2> DEFINE j2 == [j EXCEPT !.target = v]
  <2>1. v \in Verifier
    BY DeployedVerifiers DEF Books
  <2>2. j2 \in Job /\ j2.target = v /\ j2.cmd = "activate-estop"
    BY <1>2, <1>3, <2>1 DEF Job
  <2> HIDE DEF j2
  <2>3. Carries(j2, "submit")
    BY <2>2 DEF Carries, Adding, Removing
  <2> QED
    BY <1>1, <1>3, <2>2, <2>3, GoesOnKeeps DEF j2
<1>4. CASE j.cmd # "activate-estop" /\ Go(sh, "check", [j EXCEPT !.op = AddOp(j.selector, v)])
  <2>1. j.cmd \in Adding
    BY <1>2, <1>4 DEF Carries
  <2>2. AddOp(j.selector, v) \in OpType
    BY <1>1, <2>1, AdditionTyped
  <2>3. [j EXCEPT !.op = AddOp(j.selector, v)] \in Job /\ Carries([j EXCEPT !.op = AddOp(j.selector, v)], "check")
    BY <2>1, <2>2, KnowsOperation
  <2> QED
    BY <1>1, <1>4, <2>3, GoesOnKeeps
<1> QED
  BY <1>3, <1>4 DEF Found

(* The first look-up.                                                       *)
LEMMA FindEstopKeeps ==
  ASSUME Books, NEW sh \in Shell, FindEstop(sh)
  PROVE  Books'
<1> DEFINE v == EstopFromConfig(file, job[sh].selector)
<1>1. pc[sh] = "estop" /\ UNCHANGED <<chain, file, commands, history>> /\ pc[sh] \in Early /\ "contract" \in Early
  BY DEF FindEstop, Early
<1>2. CASE v # None /\ Found(sh, v)
  <2>1. v \in Deployed
    BY <1>2, FromConfig DEF Books
  <2> QED
    BY <1>1, <1>2, <2>1, FoundKeeps
<1>3. CASE Leave(sh)
  BY <1>1, <1>3, GivesUpKeeps
<1>4. CASE job[sh].cmd # "activate-estop" /\ Go(sh, "contract", job[sh])
  <2>1. job[sh] \in Job /\ Carries(job[sh], "estop")
    BY <1>1 DEF Books, TypeOK, Records
  <2>2. Carries(job[sh], "contract")
    BY <1>4, <2>1 DEF Carries
  <2> QED
    BY <1>1, <1>4, <2>1, <2>2, GoesOnKeeps
<1> QED
  BY <1>2, <1>3, <1>4 DEF FindEstop

(* The second.                                                              *)
LEMMA FindContractKeeps ==
  ASSUME Books, NEW sh \in Shell, FindContract(sh)
  PROVE  Books'
<1> DEFINE v == ContractFromConfig(file, job[sh].selector)
<1>1. pc[sh] = "contract" /\ UNCHANGED <<chain, file, commands, history>> /\ pc[sh] \in Early
  BY DEF FindContract, Early
<1>2. CASE v # None /\ Found(sh, v)
  <2>1. v \in Deployed
    BY <1>2, FromConfig DEF Books
  <2> QED
    BY <1>1, <1>2, <2>1, FoundKeeps
<1>3. CASE Leave(sh)
  BY <1>1, <1>3, GivesUpKeeps
<1> QED
  BY <1>2, <1>3 DEF FindContract

(* The precondition checks.                                                 *)
LEMMA CheckKeeps ==
  ASSUME Books, NEW sh \in Shell, Check(sh)
  PROVE  Books'
<1>1. pc[sh] = "check" /\ UNCHANGED <<chain, file, commands, history>> /\ pc[sh] \in Early /\ "submit" \in Early
  BY DEF Check, Early
<1>2. CASE Leave(sh)
  BY <1>1, <1>2, GivesUpKeeps
<1>3. CASE Go(sh, "submit", job[sh])
  <2>1. job[sh] \in Job /\ Carries(job[sh], "check")
    BY <1>1 DEF Books, TypeOK, Records
  <2>2. Carries(job[sh], "submit")
    BY <2>1 DEF Carries
  <2> QED
    BY <1>1, <1>3, <2>1, <2>2, GoesOnKeeps
<1> QED
  BY <1>2, <1>3 DEF Check

(* What a command that has added or removed a verifier will write is true.  *)
LEMMA UpdateLeads ==
  ASSUME TypeOK, Records, NEW sh \in Shell, Truthful(file), file' = file,
         Added(job[sh]) \/ Removed(job[sh])
  PROVE  TruthfulIn(NewList(file', job[sh]), mocks', wrapped', entry')
<1> DEFINE j == job[sh]
           s == j.selector
           k == FindVerifier(file, s)
           b == j.cmd = "execute-remove-verifier"
<1>1. TruthfulIn(file, mocks, wrapped, entry) /\ file \in Seq(EntryType)
  BY FileAsValues DEF TypeOK, TruthfulIn
<1>2. Deployed = DeployedIn(mocks, wrapped) /\ Deployed \subseteq Verifier
  BY DeployedVerifiers DEF Deployed, DeployedIn
<1>3. /\ s \in Selector /\ mocks' = mocks /\ wrapped' = wrapped /\ Updates(j)
      /\ \A t \in Selector \ {s} : entry'[t] = entry[t]
      /\ entry'[s] \in Verifier => entry'[s] \in Deployed
      /\ b <=> entry'[s] \notin Verifier
  <2>1. entry \in [Selector -> Entries]
    BY DEF TypeOK, RouterTypeOK
  <2> QED
    BY <1>2, <2>1 DEF Added, Removed, Updates
<1>4. CASE k = 0
  <2>1. Rewritten(file, j) = Torn
    BY <1>3, <1>4 DEF Rewritten
  <2>2. TruthfulIn(file, mocks, wrapped, entry')
    BY <1>1, <1>2, <1>3, <1>4, TruthUnlisted
  <2> QED
    BY <1>3, <2>1, <2>2 DEF NewList
<1>5. CASE k # 0
  <2>1. Rewritten(file, j) = [file EXCEPT ![k].unroutable = b]
    BY <1>3, <1>5 DEF Rewritten
  <2>2. TruthfulIn([file EXCEPT ![k].unroutable = b], mocks, wrapped, entry')
    BY <1>1, <1>3, <1>5, TruthFlagged
  <2>3. [file EXCEPT ![k].unroutable = b] # Torn
    BY <2>2 DEF TruthfulIn
  <2> QED
    BY <1>3, <2>1, <2>2, <2>3 DEF NewList
<1> QED
  BY <1>4, <1>5

(* The transactions of the commands that are no deployment.                 *)
LEMMA SubmitKeeps ==
  ASSUME Books, NEW sh \in Shell, Submit(sh)
  PROVE  Books'
<1>1. TypeOK /\ Records /\ Undisturbed
  BY DEF Books
<1>2. pc[sh] = "submit" /\ file' = file /\ commands' = commands /\ alone' = alone
  BY DEF Submit
<1>3. calm => (\A o \in Shell \ {sh} : Idle(o)) /\ Truthful(file)
  BY <1>1, <1>2, BusyIsAlone, EarlySteps DEF Early
<1>4. CASE Leave(sh) /\ UNCHANGED <<chain, calm>>
  <2>1. calm' \in BOOLEAN /\ (calm' => calm /\ Truthful(file))
    BY <1>1, <1>3, <1>4 DEF TypeOK
  <2> QED
    BY <1>2, <1>4, <2>1, LeavesKeeps
<1>5. ASSUME Apply(job[sh])
      PROVE  /\ ChainTypes' /\ RoutesDeployed' /\ Grows
             /\ file' # Torn => Recorded(file)'
             /\ commands' \in Nat /\ alone' \in BOOLEAN /\ file' \in Seq(EntryType) \cup {Torn}
             /\ "idle" \in Steps /\ "load" \in Steps
  <2>1. ChainTypes' /\ RoutesDeployed' /\ Grows
    BY <1>1, <1>2, <1>5, ApplyKeeps
  <2> QED
    BY <1>1, <1>2, <2>1, FileStaysRecorded DEF TypeOK, Steps
<1>6. CASE Apply(job[sh]) /\ Leave(sh) /\ calm' = FALSE
  <2>1. /\ Carries(job[sh], pc[sh])'
        /\ job'[sh] \in Job
        /\ job' = [job EXCEPT ![sh] = job'[sh]]
        /\ pc' = [pc EXCEPT ![sh] = "idle"]
    BY <1>1, <1>6, IdleCarries
  <2> QED
    BY <1>5, <1>6, <2>1, ShellStep
<1>7. CASE Apply(job[sh]) /\ ~Updates(job[sh]) /\ Leave(sh) /\ calm' = calm
  <2>1. /\ Carries(job[sh], pc[sh])'
        /\ job'[sh] \in Job
        /\ job' = [job EXCEPT ![sh] = job'[sh]]
        /\ pc' = [pc EXCEPT ![sh] = "idle"]
    BY <1>1, <1>7, IdleCarries
  <2>2. UNCHANGED <<entry, route, wrapped, mocks>>
    BY <1>1, <1>2, <1>7, ApplyCases DEF Elsewhere, Added, Removed, Updates
  <2>3. Truthful(file)' <=> Truthful(file)
    BY <1>2, <2>2, TruthUntouched
  <2>4. calm' \in BOOLEAN
    BY <1>1, <1>7 DEF TypeOK
  <2> QED
    BY <1>3, <1>5, <1>7, <2>1, <2>3, <2>4, ShellStep
<1>8. CASE Apply(job[sh]) /\ Updates(job[sh]) /\ Go(sh, "load", job[sh]) /\ calm' = calm
  <2>1. /\ job'[sh] = job[sh] /\ pc'[sh] = "load"
        /\ job' = [job EXCEPT ![sh] = job'[sh]]
        /\ pc' = [pc EXCEPT ![sh] = "load"]
    BY <1>1, <1>8, Goes
  <2>2. Added(job[sh]) \/ Removed(job[sh])
    BY <1>1, <1>2, <1>8, ApplyCases DEF Elsewhere
  <2>3. Carries(job[sh], pc[sh])'
    <3>1. Carries(job[sh], "submit")
      BY <1>1, <1>2 DEF Records
    <3>2. Deployed' = Deployed
      BY <2>2 DEF Added, Removed, Deployed
    <3>3. job[sh].cmd \notin Deploying /\ job[sh].selector \in Selector
      BY <2>2 DEF Added, Removed, Deploying
    <3>4. IF job[sh].cmd = "execute-add-verifier" THEN route'[job[sh].selector] # None
          ELSE entry'[job[sh].selector] = Tombstone
      <4>1. Deployed \subseteq Verifier /\ entry \in [Selector -> Entries]
            /\ route \in [Selector -> Verifier \cup {None}]
        BY <1>1, DeployedVerifiers DEF TypeOK, RouterTypeOK
      <4> QED
        BY <2>2, <4>1 DEF Added, Removed
    <3> QED
      BY <1>8, <2>1, <3>1, <3>2, <3>3, <3>4 DEF Carries, Updates
  <2>4. calm' => Leads(job[sh], pc[sh])'
    <3> SUFFICES ASSUME calm
                 PROVE  Leads(job[sh], pc[sh])'
      BY <1>8
    <3>1. TruthfulIn(NewList(file', job'[sh]), mocks', wrapped', entry')
      BY <1>1, <1>2, <1>3, <2>1, <2>2, UpdateLeads
    <3>2. file' # Torn
      BY <1>2, <1>3 DEF Truthful
    <3> QED
      BY <2>1, <3>1, <3>2, NewListAsValues
  <2>5. calm' \in BOOLEAN /\ job'[sh] \in Job
    BY <1>1, <1>8, <2>1 DEF TypeOK
  <2> QED
    BY <1>3, <1>5, <1>8, <2>1, <2>3, <2>4, <2>5, ShellStep
<1> QED
  BY <1>4, <1>6, <1>7, <1>8 DEF Submit

(* The deployments.                                                         *)
LEMMA SubmitDeploymentKeeps ==
  ASSUME Books, NEW sh \in Shell, SubmitDeployment(sh)
  PROVE  Books'
<1>1. TypeOK /\ Records /\ Undisturbed
  BY DEF Books
<1>2. pc[sh] = "submit" /\ file' = file /\ commands' = commands /\ alone' = alone
  BY DEF SubmitDeployment
<1>3. PICK i \in Impl, w \in Wrapper \cup {None} :
        /\ job[sh].cmd \in Deploying
        /\ (w # None /\ DeployWrapper(w, i)) \/ (w = None /\ DeployMock(i))
        /\ \/ Go(sh, "load", [job[sh] EXCEPT !.copy = <<Entry(OwnSelector[i], i, w)>>]) /\ calm' = calm
           \/ Leave(sh) /\ calm' = FALSE
  BY DEF SubmitDeployment, Deploying
<1> DEFINE X == NewlyDeployed(i, w)
           g == <<Entry(OwnSelector[i], i, w)>>
           j == [job[sh] EXCEPT !.copy = g]
<1>4. /\ ChainTypes' /\ Grows /\ RoutesDeployed'
      /\ entry' = entry
      /\ Deployed' = Deployed \cup X
      /\ \A v \in Deployed : BuiltIn(wrapped', v) = BuiltIn(wrapped, v)
      /\ \A x \in X : OwnSelector[i] = BuiltIn(wrapped', x)
      /\ IF w = None THEN i \in mocks' ELSE wrapped'[w] = i
  BY <1>1, <1>3, DeploySteps
<1>5. /\ file' # Torn => Recorded(file)'
      /\ commands' \in Nat /\ alone' \in BOOLEAN /\ file' \in Seq(EntryType) \cup {Torn}
      /\ "idle" \in Steps /\ "load" \in Steps
  BY <1>1, <1>2, <1>4, FileStaysRecorded DEF TypeOK, Steps
<1>6. CASE Leave(sh) /\ calm' = FALSE
  <2>1. /\ Carries(job[sh], pc[sh])'
        /\ job'[sh] \in Job
        /\ job' = [job EXCEPT ![sh] = job'[sh]]
        /\ pc' = [pc EXCEPT ![sh] = "idle"]
    BY <1>1, <1>6, IdleCarries
  <2> QED
    BY <1>4, <1>5, <1>6, <2>1, ShellStep
<1>7. CASE Go(sh, "load", j) /\ calm' = calm
  <2>1. /\ job'[sh] = j /\ pc'[sh] = "load"
        /\ job' = [job EXCEPT ![sh] = job'[sh]]
        /\ pc' = [pc EXCEPT ![sh] = "load"]
    BY <1>1, <1>7, Goes
  <2>2. Entry(OwnSelector[i], i, w) \in EntryType
    BY DEF Entry, EntryType
  <2>3. /\ g \in Seq(EntryType) /\ Len(g) = 1 /\ DOMAIN g = {1}
        /\ g[1].selector = OwnSelector[i] /\ g[1].verifier = i /\ g[1].estop = w /\ g[1].unroutable
    BY <2>2 DEF Entry
  <2>4. j \in Job /\ j.copy = g /\ j.cmd = job[sh].cmd /\ j.target = job[sh].target
    <3>1. job[sh] \in Job
      BY <1>1 DEF TypeOK
    <3> HIDE DEF g
    <3> QED
      BY <2>3, <3>1 DEF Job
  <2> HIDE DEF g, j
  <2>5. RecordedIn(g, mocks', wrapped', route')
    BY <1>4, <2>3 DEF RecordedIn
  <2>6. Carries(job[sh], pc[sh])'
    <3>1. Carries(job[sh], "submit")
      BY <1>1, <1>2 DEF Records
    <3>2. Recorded(job[sh].copy)'
      BY <2>1, <2>4, <2>5, CopyAsValues
    <3>3. j.target # None => j.target \in Deployed'
      BY <1>4, <2>4, <3>1 DEF Carries
    <3>4. j.cmd \in Deploying /\ j.cmd \notin Adding \cup Removing /\ ~Updates(j)
      BY <1>3, <2>4 DEF Deploying, Adding, Removing, Updates
    <3> QED
      BY <2>1, <2>3, <2>4, <3>2, <3>3, <3>4 DEF Carries, Updates
  <2>7. calm' => calm /\ (\A o \in Shell \ {sh} : Idle(o)) /\ Leads(job[sh], pc[sh])'
    <3> SUFFICES ASSUME calm
                 PROVE  (\A o \in Shell \ {sh} : Idle(o)) /\ Leads(job[sh], pc[sh])'
      BY <1>7
    <3>1. (\A o \in Shell \ {sh} : Idle(o)) /\ Truthful(file)
      BY <1>1, <1>2, BusyIsAlone, EarlySteps DEF Early
    <3>2. TruthfulIn(file, mocks, wrapped, entry) /\ file # Torn /\ file \in Seq(EntryType)
      BY <1>1, <3>1, FileAsValues DEF TypeOK, Truthful
    <3>3. /\ Deployed = DeployedIn(mocks, wrapped) /\ Deployed' = DeployedIn(mocks', wrapped')
          /\ \A s \in Selector : entry[s] \in Verifier => entry[s] \in Deployed
      BY <1>1 DEF Deployed, DeployedIn, Records
    <3>4. \A x \in X : x \in {g[1].estop, g[1].verifier}
      BY <2>3 DEF NewlyDeployed
    <3> HIDE DEF X
    <3>5. TruthfulIn(file \o g, mocks', wrapped', entry)
      BY <1>4, <2>3, <3>2, <3>3, <3>4, TruthAppended
    <3>6. Rewritten(file, j) = file \o g
      BY <1>3, <2>4 DEF Rewritten, Updates, Deploying
    <3>7. NewList(file', job'[sh]) = file \o g
      BY <1>2, <2>1, <3>5, <3>6 DEF NewList, TruthfulIn
    <3> QED
      BY <1>2, <1>4, <2>1, <3>1, <3>2, <3>5, <3>7, NewListAsValues
  <2>8. calm' \in BOOLEAN
    BY <1>1, <1>7 DEF TypeOK
  <2> QED
    BY <1>4, <1>5, <2>1, <2>4, <2>6, <2>7, <2>8, ShellStep
<1> QED
  BY <1>3, <1>6, <1>7

(* What cmd_add_verifier and cmd_update_verifier make of the file.          *)
LEMMA RewrittenRecorded ==
  ASSUME TypeOK, Records, NEW sh \in Shell, pc[sh] = "load",
         file # Torn, Rewritten(file, job[sh]) # Torn
  PROVE  /\ Rewritten(file, job[sh]) \in Seq(EntryType)
         /\ RecordedIn(Rewritten(file, job[sh]), mocks, wrapped, route)
<1> DEFINE j == job[sh]
           k == FindVerifier(file, j.selector)
           b == j.cmd = "execute-remove-verifier"
<1>1. file \in Seq(EntryType) /\ RecordedIn(file, mocks, wrapped, route)
  BY FileAsValues DEF TypeOK, Records
<1>2. Carries(j, "load")
  BY DEF Records
<1>3. CASE j.cmd \in Deploying
  <2>1. ~Updates(j)
    BY <1>3 DEF Deploying, Updates
  <2>2. j.copy \in Seq(EntryType) /\ Len(j.copy) = 1 /\ RecordedIn(j.copy, mocks, wrapped, route)
    BY <1>2, <1>3, CopyAsValues DEF Carries
  <2>3. Rewritten(file, j) = file \o j.copy
    BY <2>1 DEF Rewritten
  <2> QED
    BY <1>1, <2>2, <2>3, RecordedAppended, FirstHitAppended
<1>4. CASE Updates(j)
  <2>1. k # 0 /\ Rewritten(file, j) = [file EXCEPT ![k].unroutable = b]
    BY <1>4 DEF Rewritten
  <2>2. k \in DOMAIN file /\ file[k].selector = j.selector
    BY <1>1, <2>1, FirstHit
  <2>3. ~b => route[file[k].selector] # None
    BY <1>2, <1>4, <2>2 DEF Carries, Updates
  <2> HIDE DEF k, b, j
  <2>4. b \in BOOLEAN
    BY DEF b
  <2>5. [file EXCEPT ![k].unroutable = b] \in Seq(EntryType)
    BY <1>1, <2>2, <2>4, FirstHitFlagged
  <2>6. RecordedIn([file EXCEPT ![k].unroutable = b], mocks, wrapped, route)
    BY <1>1, <2>2, <2>3, <2>4, RecordedFlagged
  <2> QED
    BY <2>1, <2>5, <2>6 DEF j
<1> QED
  BY <1>2, <1>3, <1>4 DEF Carries

(* The file is read back and the list rewritten.                            *)
LEMMA LoadKeeps ==
  ASSUME Books, NEW sh \in Shell, Load(sh)
  PROVE  Books'
<1> DEFINE new == Rewritten(file, job[sh])
           j == [job[sh] EXCEPT !.copy = new]
<1>1. TypeOK /\ Records /\ Undisturbed
  BY DEF Books
<1>2. pc[sh] = "load" /\ UNCHANGED <<chain, file, commands, calm, alone>>
  BY DEF Load, history
<1>3. calm => /\ \A o \in Shell \ {sh} : Idle(o)
              /\ file # Torn
              /\ TruthfulIn(NewList(file, job[sh]), mocks, wrapped, entry)
  BY <1>1, <1>2, BusyIsAlone, NewListAsValues
<1>4. CASE (file = Torn \/ new = Torn) /\ Leave(sh)
  <2>1. calm => Truthful(file)
    BY <1>3, <1>4, FileAsValues DEF NewList
  <2>2. calm' \in BOOLEAN /\ (calm' => calm /\ Truthful(file))
    BY <1>1, <1>2, <2>1 DEF TypeOK
  <2> QED
    BY <1>2, <1>4, <2>2, LeavesKeeps
<1>5. CASE file # Torn /\ new # Torn /\ Go(sh, "truncate", j)
  <2>1. new \in Seq(EntryType) /\ RecordedIn(new, mocks, wrapped, route)
    BY <1>1, <1>2, <1>5, RewrittenRecorded
  <2>2. calm => TruthfulIn(new, mocks, wrapped, entry)
    BY <1>3, <1>5 DEF NewList
  <2> HIDE DEF new
  <2>3. /\ j \in Job /\ j.copy = new
        /\ j.cmd = job[sh].cmd /\ j.selector = job[sh].selector /\ j.target = job[sh].target
    <3>1. job[sh] \in Job
      BY <1>1 DEF TypeOK
    <3> QED
      BY <2>1, <3>1 DEF Job
  <2>4. /\ job'[sh] = j /\ pc'[sh] = "truncate"
        /\ job' = [job EXCEPT ![sh] = job'[sh]]
        /\ pc' = [pc EXCEPT ![sh] = "truncate"]
    BY <1>1, <1>5, Goes
  <2> HIDE DEF j
  <2>5. ChainTypes' /\ RoutesDeployed' /\ Grows
    BY <1>1, <1>2, ChainUntouched
  <2>6. Carries(job[sh], pc[sh])'
    <3>1. Deployed' = Deployed
      BY <1>2 DEF Deployed, chain
    <3>2. Carries(job[sh], "load")
      BY <1>1, <1>2 DEF Records
    <3>3. Recorded(job[sh].copy)'
      BY <1>2, <2>1, <2>3, <2>4, CopyAsValues DEF chain
    <3> QED
      BY <2>1, <2>3, <2>4, <3>1, <3>2, <3>3 DEF Carries
  <2>7. calm' => calm /\ (\A o \in Shell \ {sh} : Idle(o)) /\ Leads(job[sh], pc[sh])'
    <3>1. calm => Truthful(job[sh].copy)'
      BY <1>2, <2>2, <2>3, <2>4, CopyAsValues DEF chain
    <3> QED
      BY <1>2, <1>3, <2>4, <3>1 DEF Leads
  <2>8. file' # Torn => Recorded(file)'
    BY <1>1, <1>2, <2>5, FileStaysRecorded
  <2>9. /\ commands' \in Nat /\ calm' \in BOOLEAN /\ alone' \in BOOLEAN
        /\ file' \in Seq(EntryType) \cup {Torn} /\ "truncate" \in Steps
    BY <1>1, <1>2 DEF TypeOK, Steps
  <2> QED
    BY <2>3, <2>4, <2>5, <2>6, <2>7, <2>8, <2>9, ShellStep
<1> QED
  BY <1>4, <1>5 DEF Load

(* The file is opened empty.                                                *)
LEMMA TruncateKeeps ==
  ASSUME Books, NEW sh \in Shell, Truncate(sh)
  PROVE  Books'
<1>1. TypeOK /\ Records /\ Undisturbed
  BY DEF Books
<1>2. /\ pc[sh] = "truncate" /\ file' = Torn /\ Go(sh, "fill", job[sh])
      /\ UNCHANGED <<chain, commands, calm, alone>>
  BY DEF Truncate, history
<1>3. /\ job'[sh] = job[sh] /\ pc'[sh] = "fill"
      /\ job' = [job EXCEPT ![sh] = job'[sh]]
      /\ pc' = [pc EXCEPT ![sh] = "fill"]
  BY <1>1, <1>2, Goes
<1>4. ChainTypes' /\ RoutesDeployed' /\ Grows
  BY <1>1, <1>2, ChainUntouched
<1>5. Carries(job[sh], "truncate")
  BY <1>1, <1>2 DEF Records
<1>6. Carries(job[sh], pc[sh])'
  <2>1. Deployed' = Deployed
    BY <1>2 DEF Deployed, chain
  <2>2. Recorded(job[sh].copy)'
    BY <1>1, <1>3, <1>4, <1>5, CopyStaysRecorded DEF Carries
  <2> QED
    BY <1>3, <1>5, <2>1, <2>2 DEF Carries
<1>7. calm' => calm /\ (\A o \in Shell \ {sh} : Idle(o)) /\ Leads(job[sh], pc[sh])'
  <2>1. calm => (\A o \in Shell \ {sh} : Idle(o)) /\ Truthful(job[sh].copy)
    BY <1>1, <1>2, BusyIsAlone DEF Leads
  <2>2. Truthful(job[sh].copy) => Truthful(job[sh].copy)'
    BY <1>2, <1>3, CopyAsValues DEF chain
  <2> QED
    BY <1>2, <1>3, <2>1, <2>2 DEF Leads
<1>8. /\ commands' \in Nat /\ calm' \in BOOLEAN /\ alone' \in BOOLEAN /\ file' \in Seq(EntryType) \cup {Torn}
      /\ (file' # Torn => Recorded(file)') /\ "fill" \in Steps /\ job'[sh] \in Job
  BY <1>1, <1>2, <1>3 DEF TypeOK, Steps
<1> QED
  BY <1>3, <1>4, <1>6, <1>7, <1>8, ShellStep

(* What two commands leave between them is made of the entries of both.     *)
LEMMA MixturesRecorded ==
  ASSUME TypeOK, Records, file # Torn, NEW copy \in Seq(EntryType), RecordedIn(copy, mocks, wrapped, route),
         NEW mix \in Mixtures(copy), mix # Torn
  PROVE  mix \in Seq(EntryType) /\ RecordedIn(mix, mocks, wrapped, route)
<1>1. file \in Seq(EntryType) /\ RecordedIn(file, mocks, wrapped, route) /\ Len(file) \in Nat
  BY FileAsValues DEF TypeOK, Records
<1>2. PICK k \in 1..(Len(file) - 1) : mix = copy \o SubSeq(file, k + 1, Len(file))
  BY DEF Mixtures
<1> DEFINE tail == SubSeq(file, k + 1, Len(file))
<1>3. /\ tail \in Seq(EntryType)
      /\ \A n \in DOMAIN tail : k + n \in DOMAIN file /\ tail[n] = file[k + n]
  BY <1>1
<1> HIDE DEF tail
<1>4. mix \in Seq(EntryType) /\ Len(mix) = Len(copy) + Len(tail)
  BY <1>2, <1>3, ConcatProperties, Zenon DEF tail
<1>5. \A n \in DOMAIN mix :
        \/ n \in DOMAIN copy /\ mix[n] = copy[n]
        \/ n - Len(copy) \in DOMAIN tail /\ mix[n] = tail[n - Len(copy)]
  <2>1. mix = copy \o tail
    BY <1>2 DEF tail
  <2>2. \A n \in 1..(Len(copy) + Len(tail)) :
          mix[n] = IF n <= Len(copy) THEN copy[n] ELSE tail[n - Len(copy)]
    BY <1>3, <2>1, ConcatProperties
  <2>3. Len(copy) \in Nat /\ Len(tail) \in Nat /\ DOMAIN copy = 1..Len(copy) /\ DOMAIN tail = 1..Len(tail)
        /\ DOMAIN mix = 1..(Len(copy) + Len(tail))
    BY <1>3, <1>4
  <2> QED
    BY <2>2, <2>3
<1>6. RecordedIn(mix, mocks, wrapped, route)
  <2> SUFFICES ASSUME NEW n \in DOMAIN mix
               PROVE  /\ mix[n].selector = OwnSelector[mix[n].verifier]
                      /\ IF mix[n].estop = None THEN mix[n].verifier \in mocks
                         ELSE wrapped[mix[n].estop] = mix[n].verifier
                      /\ ~mix[n].unroutable => route[mix[n].selector] # None
    BY DEF RecordedIn
  <2>1. (\E i \in DOMAIN copy : mix[n] = copy[i]) \/ (\E i \in DOMAIN file : mix[n] = file[i])
    BY <1>3, <1>5
  <2> QED
    BY <1>1, <2>1 DEF RecordedIn
<1> QED
  BY <1>4, <1>6

(* The file is filled: undisturbed, with nothing left of another command's. *)
LEMMA FillKeeps ==
  ASSUME Books, NEW sh \in Shell, Fill(sh)
  PROVE  Books'
<1>1. TypeOK /\ Records /\ Undisturbed
  BY DEF Books
<1>2. /\ pc[sh] = "fill" /\ Leave(sh) /\ UNCHANGED <<chain, commands, calm, alone>>
      /\ file' = job[sh].copy \/ (file # Torn /\ file' \in Mixtures(job[sh].copy))
  BY DEF Fill, history
<1>3. /\ Carries(job[sh], pc[sh])'
      /\ job'[sh] \in Job
      /\ job' = [job EXCEPT ![sh] = job'[sh]]
      /\ pc' = [pc EXCEPT ![sh] = "idle"]
  BY <1>1, <1>2, IdleCarries
<1>4. ChainTypes' /\ RoutesDeployed' /\ Grows
  BY <1>1, <1>2, ChainUntouched
<1>5. job[sh].copy \in Seq(EntryType) /\ RecordedIn(job[sh].copy, mocks, wrapped, route)
  BY <1>1, <1>2, CopyAsValues DEF Records, Carries
<1>6. file' \in Seq(EntryType) \cup {Torn} /\ (file' # Torn => Recorded(file)')
  <2>1. CASE file' = job[sh].copy
    BY <1>2, <1>5, <2>1, FileAsValues DEF chain
  <2>2. CASE file # Torn /\ file' \in Mixtures(job[sh].copy)
    <3>1. /\ file' \in Seq(EntryType) \cup {Torn}
          /\ file' # Torn => RecordedIn(file', mocks, wrapped, route)
      BY <1>1, <1>5, <2>2, MixturesRecorded
    <3> QED
      BY <1>2, <3>1, FileAsValues DEF chain
  <2> QED
    BY <1>2, <2>1, <2>2
<1>7. calm' => calm /\ (\A o \in Shell \ {sh} : Idle(o)) /\ Truthful(file)'
  <2>1. calm => (\A o \in Shell \ {sh} : Idle(o)) /\ Truthful(job[sh].copy) /\ file = Torn
    BY <1>1, <1>2, BusyIsAlone DEF Leads
  <2>2. calm => file' = job[sh].copy /\ TruthfulIn(job[sh].copy, mocks, wrapped, entry)
    BY <1>2, <2>1, CopyAsValues
  <2> QED
    BY <1>2, <2>1, <2>2, FileAsValues DEF chain
<1>8. commands' \in Nat /\ calm' \in BOOLEAN /\ alone' \in BOOLEAN /\ "idle" \in Steps
  BY <1>1, <1>2 DEF TypeOK, Steps
<1> QED
  BY <1>3, <1>4, <1>6, <1>7, <1>8, ShellStep

(* A killed command is a disturbance.                                       *)
LEMMA KillKeeps ==
  ASSUME Books, NEW sh \in Shell, Kill(sh)
  PROVE  Books'
BY LeavesKeeps DEF Kill, Idle

(* Delays pass, and nothing else happens.                                   *)
LEMMA RipenKeeps ==
  ASSUME Books, NEW op \in OpType, Ripen(op)
  PROVE  Books'
<1>1. TypeOK /\ Records /\ Undisturbed
  BY DEF Books
<1>2. /\ UNCHANGED <<ownership, entry, lapsed, route, wrapped, paused, mocks, file, pc, job, commands, calm, alone>>
      /\ state' = [state EXCEPT ![op] = "Ready"]
  BY DEF Ripen, history
<1>3. TypeOK'
  BY <1>1, <1>2 DEF TypeOK, RouterTypeOK, StopTypeOK
<1>4. Records'
  BY <1>1, <1>2 DEF Records, Recorded, Carries, Deployed
<1>5. Undisturbed'
  BY <1>1, <1>2 DEF Undisturbed, Leads, Truthful, Deployed, Built, Idle
<1> QED
  BY <1>3, <1>4, <1>5 DEF Books

(* A step of nobody.                                                        *)
LEMMA StutterKeeps ==
  ASSUME Books, UNCHANGED vars
  PROVE  Books'
<1>1. TypeOK /\ Records /\ Undisturbed
  BY DEF Books
<1>2. UNCHANGED <<entry, lapsed, route, wrapped, paused, mocks, state, file, pc, job, commands, calm, alone>>
  BY DEF vars, chain, history
<1>3. TypeOK'
  BY <1>1, <1>2 DEF TypeOK, RouterTypeOK, StopTypeOK
<1>4. Records'
  BY <1>1, <1>2 DEF Records, Recorded, Carries, Deployed
<1>5. Undisturbed'
  BY <1>1, <1>2 DEF Undisturbed, Leads, Truthful, Deployed, Built, Idle
<1> QED
  BY <1>3, <1>4, <1>5 DEF Books

-----------------------------------------------------------------------------
(* What a command that is alone does to the router. *)

(* What a step of a terminal must show.                                     *)
LEMMA PlacedStep ==
  ASSUME TypeOK, Placed, NEW sh \in Shell, NEW step, NEW j, Go(sh, step, j), mocks' \subseteq Mock,
         alone' => alone,
         alone' => \A o \in Shell \ {sh} : Idle(o),
         alone' => Finds(file', j, step),
         alone' => \A s \in Selector : entry'[s] \in Verifier => Stopped(entry'[s])
  PROVE  Placed'
<1> SUFFICES ASSUME alone'
             PROVE  /\ \A a, b \in Shell : ~Idle(a)' /\ ~Idle(b)' => a = b
                    /\ \A o \in Shell : Finds(file', job'[o], pc'[o])
                    /\ \A s \in Selector : entry'[s] \in Verifier => Stopped(entry'[s])
  BY DEF Placed, StopsInPlace, Stopped
<1>1. /\ job'[sh] = j /\ pc'[sh] = step
      /\ \A o \in Shell \ {sh} : pc'[o] = pc[o] /\ job'[o] = job[o]
  BY DEF Go, TypeOK
<1>2. \A o \in Shell \ {sh} : Idle(o) /\ Idle(o)'
  BY <1>1 DEF Idle
<1>3. \A o \in Shell \ {sh} : Finds(file', job'[o], pc'[o])
  <2> SUFFICES ASSUME NEW o \in Shell \ {sh}
               PROVE  Finds(file', job'[o], pc'[o])
    OBVIOUS
  <2>1. Finds(file, job[o], pc[o])
    BY DEF Placed, StopsInPlace
  <2>2. pc'[o] = "idle" /\ job'[o] = job[o]
    BY <1>1, <1>2 DEF Idle
  <2> QED
    BY <2>1, <2>2 DEF Finds, Stopped
<1> QED
  BY <1>1, <1>2, <1>3

(* A command under way that does not change the router has only to show     *)
(* what it finds.                                                           *)
LEMMA PlacedOnward ==
  ASSUME TypeOK, Placed, NEW sh \in Shell, pc[sh] # "idle", NEW step, NEW j, Go(sh, step, j),
         UNCHANGED <<mocks, entry, alone>>, Finds(file', j, step)
  PROVE  Placed'
<1>1. alone => \A o \in Shell \ {sh} : Idle(o)
  BY DEF Placed, StopsInPlace, Idle
<1>2. /\ mocks' \subseteq Mock
      /\ alone => \A s \in Selector : entry'[s] \in Verifier => Stopped(entry'[s])
  BY DEF Placed, StopsInPlace
<1> QED
  BY <1>1, <1>2, PlacedStep

(* A command that leaves takes nothing along.                               *)
LEMMA PlacedLeaving ==
  ASSUME TypeOK, Placed, NEW sh \in Shell, pc[sh] # "idle", Leave(sh), UNCHANGED <<mocks, entry, alone>>
  PROVE  Placed'
<1>1. Go(sh, "idle", NoJob)
  BY DEF Leave
<1>2. Finds(file', NoJob, "idle")
  BY DEF Finds, NoJob, Adding
<1> QED
  BY <1>1, <1>2, PlacedOnward

(* Commands are typed: what an operator names may be added.                 *)
LEMMA StartPlaces ==
  ASSUME TypeOK, Placed, NEW sh \in Shell, NEW step, NEW j, Start(sh, step, j), Finds(file', j, step)
  PROVE  Placed'
<1>1. /\ Go(sh, step, j) /\ alone' = (alone /\ \A o \in Shell : Idle(o))
      /\ mocks' = mocks /\ entry' = entry
  BY DEF Start, chain
<1>2. mocks' \subseteq Mock /\ (alone => \A s \in Selector : entry'[s] \in Verifier => Stopped(entry'[s]))
  BY <1>1 DEF Placed, StopsInPlace
<1>3. (alone' => alone) /\ (alone' => \A o \in Shell \ {sh} : Idle(o))
  BY <1>1
<1> QED
  BY <1>1, <1>2, <1>3, PlacedStep

LEMMA TypePlaces ==
  ASSUME TypeOK, Placed, NEW sh \in Shell, NEW c \in Command, Type(sh, c)
  PROVE  Placed'
<1> DEFINE step == IF c.selector = None THEN "submit" ELSE IF c.cmd = "activate-estop" THEN "estop" ELSE "config"
           j == [NoJob EXCEPT !.cmd = c.cmd, !.selector = c.selector, !.target = c.target]
<1>1. Start(sh, step, j)
  BY DEF Type
<1>2. /\ c.cmd \in Adding => c.target \in Named \cup {None} /\ c.selector \in Selector
      /\ j.cmd = c.cmd /\ j.target = c.target
  BY DEF Command, Adding, Removing, Deploying, NoJob
<1>3. step \in {"submit", "estop", "config"} /\ (step = "submit" => c.selector = None)
  OBVIOUS
<1> HIDE DEF step, j
<1>4. Finds(file', j, step)
  BY <1>2, <1>3 DEF Finds, Stopped, Bare
<1> QED
  BY <1>1, <1>4, StartPlaces

LEMMA TypeCancelPlaces ==
  ASSUME TypeOK, Placed, NEW sh \in Shell, NEW op, TypeCancel(sh, op)
  PROVE  Placed'
<1> DEFINE j == [NoJob EXCEPT !.cmd = "cancel-operation", !.op = op]
<1>1. Start(sh, "config", j)
  BY DEF TypeCancel
<1>2. Finds(file', j, "config")
  BY DEF Finds, NoJob, Adding
<1> HIDE DEF j
<1> QED
  BY <1>1, <1>2, StartPlaces

(* What operators name may be added, and removals and cancellations name    *)
(* nothing.                                                                 *)
LEMMA LoadConfigPlaces ==
  ASSUME Books, Placed, NEW sh \in Shell, LoadConfig(sh)
  PROVE  Placed'
<1> DEFINE j == job[sh]
<1>1. TypeOK /\ pc[sh] # "idle" /\ UNCHANGED <<mocks, entry, alone>>
  BY DEF Books, LoadConfig, chain, history
<1>2. j \in Job
  BY <1>1 DEF TypeOK
<1>3. CASE Leave(sh)
  BY <1>1, <1>3, PlacedLeaving
<1>4. CASE j.cmd \in Removing /\ Go(sh, "check", [j EXCEPT !.op = RemoveOp(j.selector)])
  <2> DEFINE j2 == [j EXCEPT !.op = RemoveOp(j.selector)]
  <2>1. j2.cmd \notin Adding
    BY <1>2, <1>4 DEF Job, Adding, Removing
  <2> HIDE DEF j2
  <2>2. Finds(file', j2, "check")
    BY <2>1 DEF Finds
  <2> QED
    BY <1>1, <1>4, <2>2, PlacedOnward DEF j2
<1>5. CASE ~alone
  BY <1>1, <1>5 DEF LoadConfig, Placed, StopsInPlace
<1>6. ASSUME alone, j.cmd \in Adding, Go(sh, "check", [j EXCEPT !.op = AddOp(j.selector, j.target)])
      PROVE  Placed'
  <2> DEFINE j2 == [j EXCEPT !.op = AddOp(j.selector, j.target)]
  <2>1. Stopped(j.target)
    BY <1>6 DEF Placed, StopsInPlace, Finds
  <2>2. j2.target = j.target /\ j2.op.target = j.target
    BY <1>2 DEF Job, AddOp
  <2> HIDE DEF j2, j
  <2>3. Finds(file', j2, "check")
    BY <2>1, <2>2 DEF Finds, Stopped
  <2> QED
    BY <1>1, <1>6, <2>3, PlacedOnward DEF j2
<1>7. ASSUME alone, Go(sh, "estop", j)
      PROVE  Placed'
  <2>1. Finds(file', j, "estop")
    BY <1>7 DEF Placed, StopsInPlace, Finds, Stopped
  <2> QED
    BY <1>1, <1>7, <2>1, PlacedOnward
<1>8. ASSUME j.cmd \notin Adding, Go(sh, "submit", j)
      PROVE  Placed'
  <2>1. Finds(file', j, "submit")
    BY <1>8 DEF Finds
  <2> QED
    BY <1>1, <1>8, <2>1, PlacedOnward
<1> QED
  BY <1>3, <1>4, <1>5, <1>6, <1>7, <1>8 DEF LoadConfig

(* What the file gives may be added, if it is no bare verifier.             *)
LEMMA FoundPlaces ==
  ASSUME TypeOK, Placed, NEW sh \in Shell, pc[sh] # "idle", NEW v, Stopped(v), Found(sh, v),
         UNCHANGED <<mocks, entry, alone>>, alone
  PROVE  Placed'
<1> DEFINE j == job[sh]
           j1 == [j EXCEPT !.target = v]
           j2 == [j EXCEPT !.op = AddOp(j.selector, v)]
<1>1. j \in Job /\ (j.cmd \in Adding => Stopped(j.target))
  BY DEF TypeOK, Placed, StopsInPlace, Finds
<1>2. j1.cmd = j.cmd /\ j2.cmd = j.cmd /\ j2.target = j.target /\ j2.op.target = v
  BY <1>1 DEF Job, AddOp
<1>3. CASE j.cmd = "activate-estop" /\ Go(sh, "submit", j1)
  <2> HIDE DEF j1, j2
  <2>1. Finds(file', j1, "submit")
    BY <1>2, <1>3 DEF Finds, Adding
  <2> QED
    BY <1>3, <2>1, PlacedOnward
<1>4. CASE Go(sh, "check", j2)
  <2> HIDE DEF j1, j2
  <2>1. Finds(file', j2, "check")
    BY <1>1, <1>2 DEF Finds, Stopped
  <2> QED
    BY <1>4, <2>1, PlacedOnward
<1> QED
  BY <1>3, <1>4 DEF Found

(* A wrapper is found first.                                                *)
LEMMA FindEstopPlaces ==
  ASSUME Books, Placed, NEW sh \in Shell, FindEstop(sh)
  PROVE  Placed'
<1> DEFINE v == EstopFromConfig(file, job[sh].selector)
<1>1. /\ TypeOK /\ pc[sh] # "idle" /\ UNCHANGED <<mocks, entry, alone>> /\ file' = file
  BY DEF Books, FindEstop, chain, history
<1>2. CASE ~alone
  BY <1>1, <1>2 DEF Placed, StopsInPlace
<1>3. ASSUME alone, v # None, Found(sh, v)
      PROVE  Placed'
  <2>1. v \in Wrapper
    BY <1>3, FromConfig DEF Books
  <2>2. Stopped(v)
    BY <2>1 DEF Stopped, Bare
  <2> QED
    BY <1>1, <1>3, <2>2, FoundPlaces
<1>4. CASE Leave(sh)
  BY <1>1, <1>4, PlacedLeaving
<1>5. ASSUME alone, v = None, Go(sh, "contract", job[sh])
      PROVE  Placed'
  <2>1. Finds(file', job[sh], "contract")
    BY <1>1, <1>5 DEF Placed, StopsInPlace, Finds, Stopped, EstopFromConfig, Listed
  <2> QED
    BY <1>1, <1>5, <2>1, PlacedOnward
<1> QED
  BY <1>2, <1>3, <1>4, <1>5 DEF FindEstop

(* A verifier is found second only where it is a mock: in the same file     *)
(* there was no wrapper.                                                    *)
LEMMA FindContractPlaces ==
  ASSUME Books, Placed, NEW sh \in Shell, FindContract(sh)
  PROVE  Placed'
<1> DEFINE v == ContractFromConfig(file, job[sh].selector)
<1>1. TypeOK /\ pc[sh] = "contract" /\ UNCHANGED <<mocks, entry, alone>>
  BY DEF Books, FindContract, chain, history
<1>2. CASE ~alone
  BY <1>1, <1>2 DEF Placed, StopsInPlace
<1>3. ASSUME alone, v # None, Found(sh, v)
      PROVE  Placed'
  <2>1. EstopFromConfig(file, job[sh].selector) = None
    BY <1>1, <1>3 DEF Placed, StopsInPlace, Finds
  <2>2. v \in Mock
    BY <1>3, <2>1, FromConfig DEF Books, Placed
  <2>3. Stopped(v)
    BY <2>2 DEF Stopped, Bare
  <2> QED
    BY <1>1, <1>3, <2>3, FoundPlaces
<1>4. CASE Leave(sh)
  BY <1>1, <1>4, PlacedLeaving
<1> QED
  BY <1>2, <1>3, <1>4 DEF FindContract

LEMMA CheckPlaces ==
  ASSUME Books, Placed, NEW sh \in Shell, Check(sh)
  PROVE  Placed'
<1>1. TypeOK /\ pc[sh] = "check" /\ UNCHANGED <<mocks, entry, alone>>
  BY DEF Books, Check, chain, history
<1>2. CASE ~alone
  BY <1>1, <1>2 DEF Placed, StopsInPlace
<1>3. CASE Leave(sh)
  BY <1>1, <1>3, PlacedLeaving
<1>4. ASSUME alone, Go(sh, "submit", job[sh])
      PROVE  Placed'
  <2>1. Finds(file', job[sh], "submit")
    BY <1>1, <1>4 DEF Placed, StopsInPlace, Finds, Stopped
  <2> QED
    BY <1>1, <1>4, <2>1, PlacedOnward
<1> QED
  BY <1>2, <1>3, <1>4 DEF Check

(* The router is given what the command found.                              *)
LEMMA SubmitPlaces ==
  ASSUME Books, Placed, NEW sh \in Shell, Submit(sh)
  PROVE  Placed'
<1>1. TypeOK /\ Records /\ pc[sh] = "submit" /\ alone' = alone
  BY DEF Books, Submit
<1>2. CASE Leave(sh) /\ UNCHANGED chain
  <2>1. UNCHANGED <<mocks, entry>>
    BY <1>2 DEF chain
  <2> QED
    BY <1>1, <1>2, <2>1, PlacedLeaving
<1>3. ASSUME Apply(job[sh])
      PROVE  /\ mocks' = mocks
             /\ alone => \A s \in Selector : entry'[s] \in Verifier => Stopped(entry'[s])
  <2>1. Added(job[sh]) \/ Removed(job[sh]) \/ Elsewhere(job[sh])
    BY <1>1, <1>3, ApplyCases
  <2>2. mocks' = mocks
    BY <2>1 DEF Added, Removed, Elsewhere
  <2>3. ASSUME alone, NEW s \in Selector, entry'[s] \in Verifier
        PROVE  Stopped(entry'[s])
    <3>1. entry[s] \in Verifier => Stopped(entry[s])
      BY <2>3 DEF Placed, StopsInPlace
    <3>2. entry \in [Selector -> Entries]
      BY <1>1 DEF TypeOK, RouterTypeOK
    <3>3. CASE Added(job[sh])
      <4>1. job[sh].cmd \in Adding
        BY <3>3 DEF Added, Adding
      <4>2. Stopped(job[sh].op.target)
        BY <1>1, <2>3, <4>1 DEF Placed, StopsInPlace, Finds
      <4>3. entry' = [entry EXCEPT ![job[sh].selector] = job[sh].op.target]
        BY <3>3 DEF Added
      <4> QED
        BY <2>3, <3>1, <3>2, <4>2, <4>3
    <3>4. CASE Removed(job[sh])
      BY <2>3, <3>1, <3>2, <3>4 DEF Removed
    <3>5. CASE Elsewhere(job[sh])
      BY <2>3, <3>1, <3>5 DEF Elsewhere
    <3> QED
      BY <2>1, <3>3, <3>4, <3>5
  <2> QED
    BY <2>2, <2>3
<1>4. ASSUME Apply(job[sh]), NEW step, NEW j, Go(sh, step, j), alone => Finds(file', j, step)
      PROVE  Placed'
  <2>1. mocks' \subseteq Mock
    BY <1>3, <1>4 DEF Placed
  <2>2. alone => \A o \in Shell \ {sh} : Idle(o)
    BY <1>1 DEF Placed, StopsInPlace, Idle
  <2> QED
    BY <1>1, <1>3, <1>4, <2>1, <2>2, PlacedStep
<1>5. CASE Apply(job[sh]) /\ Leave(sh)
  <2>1. Go(sh, "idle", NoJob) /\ Finds(file', NoJob, "idle")
    BY <1>5 DEF Leave, Finds, NoJob, Adding
  <2> QED
    BY <1>4, <1>5, <2>1
<1>6. CASE Apply(job[sh]) /\ Go(sh, "load", job[sh])
  <2>1. alone => Finds(file', job[sh], "load")
    <3> SUFFICES ASSUME alone
                 PROVE  job'[sh] = job[sh] => Finds(file', job[sh], "load")
      BY <1>1, <1>6, Goes
    <3>1. Finds(file, job[sh], "submit")
      BY <1>1 DEF Placed, StopsInPlace
    <3> QED
      BY <3>1 DEF Finds, Stopped
  <2> QED
    BY <1>1, <1>4, <1>6, <2>1, Goes
<1> QED
  BY <1>2, <1>5, <1>6 DEF Submit

(* Deployments add mocks and nothing to the router.                         *)
LEMMA SubmitDeploymentPlaces ==
  ASSUME Books, Placed, NEW sh \in Shell, SubmitDeployment(sh)
  PROVE  Placed'
<1>1. TypeOK /\ pc[sh] = "submit" /\ alone' = alone
  BY DEF Books, SubmitDeployment
<1>2. PICK i \in Impl, w \in Wrapper \cup {None} :
        /\ job[sh].cmd \in Deploying
        /\ DeployWrapper(w, i) \/ (i \in Mock /\ DeployMock(i))
        /\ \/ Go(sh, "load", [job[sh] EXCEPT !.copy = <<Entry(OwnSelector[i], i, w)>>])
           \/ Leave(sh)
  BY DEF SubmitDeployment, Deploying
<1>3. mocks' \subseteq Mock /\ entry' = entry
  BY <1>2 DEF Placed, DeployWrapper, DeployMock
<1>4. alone' => (\A o \in Shell \ {sh} : Idle(o)) /\ \A s \in Selector : entry'[s] \in Verifier => Stopped(entry'[s])
  BY <1>1, <1>3 DEF Placed, StopsInPlace, Idle
<1>5. ASSUME NEW step, NEW j, Go(sh, step, j), j.cmd \notin Adding, step \in {"idle", "load"}
      PROVE  Placed'
  <2>1. Finds(file', j, step)
    BY <1>5 DEF Finds
  <2> QED
    BY <1>1, <1>3, <1>4, <1>5, <2>1, PlacedStep
<1>6. CASE Leave(sh)
  <2>1. Go(sh, "idle", NoJob) /\ NoJob.cmd \notin Adding
    BY <1>6 DEF Leave, NoJob, Adding
  <2> QED
    BY <1>5, <2>1
<1>7. CASE Go(sh, "load", [job[sh] EXCEPT !.copy = <<Entry(OwnSelector[i], i, w)>>])
  <2> DEFINE j == [job[sh] EXCEPT !.copy = <<Entry(OwnSelector[i], i, w)>>]
  <2>1. job[sh] \in Job
    BY <1>1 DEF TypeOK
  <2>2. j.cmd \notin Adding
    BY <1>2, <2>1 DEF Job, Adding, Deploying
  <2> HIDE DEF j
  <2> QED
    BY <1>5, <1>7, <2>2 DEF j
<1> QED
  BY <1>2, <1>6, <1>7

(* Writing the file gives the router nothing.                               *)
LEMMA WritingPlaces ==
  ASSUME Books, Placed, NEW sh \in Shell, Load(sh) \/ Truncate(sh) \/ Fill(sh)
  PROVE  Placed'
<1>1. TypeOK /\ pc[sh] \in {"load", "truncate", "fill"} /\ UNCHANGED <<mocks, entry, alone>>
  BY DEF Books, Load, Truncate, Fill, chain, history
<1>2. job[sh] \in Job
  BY <1>1 DEF TypeOK
<1>3. CASE ~alone
  BY <1>1, <1>3 DEF Placed, StopsInPlace
<1>4. CASE Leave(sh)
  BY <1>1, <1>4, PlacedLeaving
<1>5. ASSUME alone, NEW step, NEW j, Go(sh, step, j), j.cmd = job[sh].cmd, j.target = job[sh].target,
             step \in {"truncate", "fill"}
      PROVE  Placed'
  <2>1. Finds(file, job[sh], pc[sh])
    BY <1>5 DEF Placed, StopsInPlace
  <2>2. Finds(file', j, step)
    BY <1>5, <2>1 DEF Finds, Stopped
  <2> QED
    BY <1>1, <1>5, <2>2, PlacedOnward
<1>6. ASSUME alone, Go(sh, "truncate", [job[sh] EXCEPT !.copy = Rewritten(file, job[sh])])
      PROVE  Placed'
  <2> DEFINE j == [job[sh] EXCEPT !.copy = Rewritten(file, job[sh])]
  <2>1. j.cmd = job[sh].cmd /\ j.target = job[sh].target
    BY <1>2 DEF Job
  <2> HIDE DEF j
  <2> QED
    BY <1>5, <1>6, <2>1 DEF j
<1>7. ASSUME alone, Go(sh, "fill", job[sh])
      PROVE  Placed'
  BY <1>5, <1>7
<1> QED
  BY <1>3, <1>4, <1>6, <1>7 DEF Load, Truncate, Fill

(* A command that is killed, a delay that passes and a step of nobody.      *)
LEMMA IdlePlaces ==
  ASSUME Books, Placed,
         \/ \E sh \in Shell : Kill(sh)
         \/ \E op \in OpType : Ripen(op)
         \/ UNCHANGED vars
  PROVE  Placed'
<1>1. ASSUME NEW sh \in Shell, Kill(sh)
      PROVE  Placed'
  <2>1. TypeOK /\ pc[sh] # "idle" /\ Leave(sh) /\ UNCHANGED <<mocks, entry, alone>>
    BY <1>1 DEF Books, Kill, Idle, chain
  <2> QED
    BY <2>1, PlacedLeaving
<1>2. CASE UNCHANGED <<mocks, entry, alone, file, pc, job>>
  BY <1>2 DEF Placed, StopsInPlace, Finds, Stopped, Idle, EstopFromConfig, Listed
<1> QED
  BY <1>1, <1>2 DEF Ripen, vars, chain, history

-----------------------------------------------------------------------------
(* Theorems. *)

(* Every step keeps what file, router and commands say of each other.       *)
LEMMA NextBooks ==
  ASSUME Books, [Next]_vars
  PROVE  Books'
<1>1. CASE \E sh \in Shell, c \in Command : Type(sh, c)
  BY <1>1, TypeKeeps
<1>2. CASE \E sh \in Shell, op \in OpType : TypeCancel(sh, op)
  BY <1>2, TypeCancelKeeps
<1>3. CASE \E sh \in Shell : Proceed(sh)
  BY <1>3, LoadConfigKeeps, FindEstopKeeps, FindContractKeeps, CheckKeeps, SubmitKeeps,
     SubmitDeploymentKeeps, LoadKeeps, TruncateKeeps, FillKeeps
     DEF Proceed
<1>4. CASE \E sh \in Shell : Kill(sh)
  BY <1>4, KillKeeps
<1>5. CASE \E op \in OpType : Ripen(op)
  BY <1>5, RipenKeeps
<1>6. CASE UNCHANGED vars
  BY <1>6, StutterKeeps
<1> QED
  BY <1>1, <1>2, <1>3, <1>4, <1>5, <1>6 DEF Next

(* Every step keeps what a command that is alone does to the router.        *)
LEMMA NextPlaced ==
  ASSUME Books, Placed, [Next]_vars
  PROVE  Placed'
<1>1. TypeOK
  BY DEF Books
<1>2. CASE \E sh \in Shell, c \in Command : Type(sh, c)
  BY <1>1, <1>2, TypePlaces
<1>3. CASE \E sh \in Shell, op \in OpType : TypeCancel(sh, op)
  BY <1>1, <1>3, TypeCancelPlaces
<1>4. CASE \E sh \in Shell : Proceed(sh)
  BY <1>4, LoadConfigPlaces, FindEstopPlaces, FindContractPlaces, CheckPlaces, SubmitPlaces,
     SubmitDeploymentPlaces, WritingPlaces
     DEF Proceed
<1>5. CASE (\E sh \in Shell : Kill(sh)) \/ (\E op \in OpType : Ripen(op)) \/ UNCHANGED vars
  BY <1>5, IdlePlaces
<1> QED
  BY <1>2, <1>3, <1>4, <1>5 DEF Next

(* The inductive invariant holds of every run of the scripts: what the file *)
(* and the commands under way carry was printed by a deployment, whenever   *)
(* they read the file and however it was rewritten in between; a command    *)
(* that nothing disturbs leads from one true file to the next; and one that *)
(* is alone finds no verifier where it first found no wrapper.              *)
THEOREM InvariantHolds == Spec => []IInv
<1>1. Init => IInv
  BY InitIInv
<1>2. IInv <=> Books /\ Placed
  BY DEF IInv, Books, Placed
<1>3. IInv /\ [Next]_vars => IInv'
  <2>1. IInv' <=> Books' /\ Placed'
    BY DEF IInv, Books, Placed
  <2> QED
    BY <1>2, <2>1, NextBooks, NextPlaced
<1> QED
  BY <1>1, <1>3, PTL DEF Spec

(* Whatever overlaps, fails or dies, the file calls a selector routable only *)
(* if a verifier was added for it: every entry a command carries through    *)
(* load_config, the transaction and write_toml is one, and routes are never *)
(* forgotten.                                                               *)
THEOREM RoutableWereAdded == Spec => []RoutableWasAdded
<1>1. IInv => RoutableWasAdded
  BY DEF IInv, Records, Recorded, RoutableWasAdded
<1> QED
  BY <1>1, InvariantHolds, PTL

(* With no command killed, unanswered or overlapped, deployment.toml tells  *)
(* the truth about the router whenever no command is under way.             *)
THEOREM FileIsTrue == Spec => []FileTrue
<1>1. IInv => FileTrue
  BY DEF IInv, Undisturbed, FileTrue
<1> QED
  BY <1>1, InvariantHolds, PTL

(* As long as commands do not overlap, the router never uses a verifier     *)
(* past the wrapper it was deployed behind, unless operators named it: both *)
(* look-ups of require_verifier_estop then see one file, and an entry that  *)
(* names no wrapper is a mock's.                                            *)
THEOREM RoutesAreStoppable == Spec => []Stoppable
<1>1. IInv => Stoppable
  <2>1. Bare \subseteq Verifier
    BY DEF Bare
  <2> QED
    BY <2>1 DEF IInv, StopsInPlace, Stopped, Stoppable
<1> QED
  BY <1>1, InvariantHolds, PTL

=============================================================================
