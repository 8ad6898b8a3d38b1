---------------------------- MODULE LifecycleProof ----------------------------
(***************************************************************************)
(* Proofs about Lifecycle: whatever crashes, power cycles, startups of     *)
(* every kind and roll overs of Clock there are, for any update interval   *)
(* and any banks.                                                          *)
(***************************************************************************)
EXTENDS Lifecycle, FiniteSetTheorems, TLAPS

Shutdowns == {"none", "clear", "state"}
Bank == [Pcrs -> Int \X Int]
PcrSets == UNION {[B -> Bank] : B \in SUBSET Algs}

Memory ==
  [started : BOOLEAN, shutdown : Shutdowns, orderly : BOOLEAN, ever_started : BOOLEAN,
   clock : Nat, elapsed : Nat, safe : BOOLEAN, resets : Nat, restarts : Nat,
   allocation : Seq(Algs), pending : BOOLEAN, pcr : PcrSets,
   hcrtm : BOOLEAN, sequence : BOOLEAN, hcrtm_last : BOOLEAN, locality : Nat]

Record ==
  [shutdown : Shutdowns, orderly : BOOLEAN, ever_started : BOOLEAN,
   clock : Nat, safe : BOOLEAN, resets : Nat, restarts : Nat,
   allocation : Seq(Algs), pcr : PcrSets, hcrtm_last : BOOLEAN, locality : Nat]

TypeOK ==
  /\ bounds \in Bounds /\ powered \in BOOLEAN
  /\ tpm \in Memory /\ file \in Record
  /\ reported \in Nat /\ boot \in Nat
  /\ identities \subseteq Nat \X Nat \X Nat
  /\ orphan \in BOOLEAN /\ rebuilt \in BOOLEAN /\ undone \in BOOLEAN

\* The file holds the shutdown that the memory has not undone, and both have
\* heard of the first startup.
Linked ==
  /\ tpm.shutdown # "none" => file.shutdown = tpm.shutdown
  /\ tpm.started => tpm.ever_started
  /\ tpm.ever_started => file.ever_started

\* The file is behind Clock by no more than the time since the last roll over,
\* and what was reported is less than an interval ahead of that roll over.
Lagging ==
  /\ file.clock <= tpm.clock
  /\ tpm.clock <= file.clock + tpm.elapsed
  /\ tpm.elapsed < Interval
  /\ reported + tpm.elapsed < tpm.clock + Interval
  /\ reported > 0 => tpm.ever_started

\* A Clock that says safe, or is about to, has reported nothing later, in the
\* memory and in the file.
SafeSaysSo ==
  ~undone =>
    /\ tpm.safe /\ (tpm.started \/ tpm.shutdown # "none") => reported <= tpm.clock
    /\ file.safe /\ tpm.shutdown # "none" => reported <= file.clock

\* The reset counters only go up, and those of a boot are its own.
Counting ==
  /\ file.resets = tpm.resets
  /\ \A x \in identities : x[1] <= tpm.resets
  /\ ~undone =>
       /\ tpm.started \/ tpm.shutdown # "none" =>
            \A x \in identities : x[1] = tpm.resets => x[2] <= tpm.restarts
       /\ tpm.started =>
            \A x \in identities : x[1] = tpm.resets /\ x[2] = tpm.restarts => x[3] = boot
       /\ tpm.shutdown # "none" =>
            \A x \in identities : x[1] = file.resets => x[2] <= file.restarts

\* The banks are those of the allocation, but for one that is pending.
Matches(t) == Banks(t.allocation) = DOMAIN t.pcr

Allocated ==
  /\ powered /\ ~tpm.pending => Matches(tpm)
  /\ powered /\ ~tpm.started => ~tpm.pending
  /\ tpm.shutdown = "state" => Matches(tpm)
  /\ file.shutdown = "state" => Matches(file)

\* PCR 0 begins as the startup said it would.
Pcr0Is(p, base) == \A a \in DOMAIN p : p[a][HCRTM_PCR][1] = base
Method(t) == Pcr0Is(t.pcr, IF t.hcrtm_last THEN 4 ELSE t.locality)

Measured ==
  /\ tpm.hcrtm => orphan /\ ~tpm.started /\ Pcr0Is(tpm.pcr, 4)
  /\ ~orphan /\ ~rebuilt =>
       /\ tpm.started \/ tpm.shutdown = "state" => Method(tpm)
       /\ file.shutdown = "state" => Method(file)

\* The PCR are what TPM2_Shutdown found, for as long as a resume is to come.
Keeps(p) ==
  \A a \in DOMAIN at_shutdown, i \in Pcrs :
    IsSaved(i) /\ (i = HCRTM_PCR => ~orphan) => a \in DOMAIN p /\ p[a][i] = at_shutdown[a][i]

Resumable ==
  ~rebuilt =>
    /\ tpm.shutdown = "state" => Keeps(tpm.pcr)
    /\ file.shutdown = "state" => Keeps(file.pcr)

IInv ==
  /\ TypeOK /\ Linked
  /\ Lagging /\ SafeSaysSo
  /\ Counting /\ IdentityNamesOneBoot
  /\ Allocated /\ Measured /\ Resumable

-----------------------------------------------------------------------------
(* The banks in order.                                                     *)

\* Of the finite sets of numbers that a set holds one contains no other.
LEMMA Smallest ==
  ASSUME NEW Sets \in SUBSET FiniteSubsetsOf(Nat), Sets # {}
  PROVE  \E B \in Sets : \A A \in Sets : A \subseteq B => A = B
<1>1. IsWellFoundedOn(StrictSubsetOrdering(Nat), FiniteSubsetsOf(Nat))
  BY FS_StrictSubsetOrderingWellFounded
<1>2. PICK B \in Sets : \A A \in Sets : ~(<<A, B>> \in StrictSubsetOrdering(Nat))
  BY <1>1, WFMin
<1>3. ASSUME NEW A \in Sets, A \subseteq B, A # B PROVE FALSE
  <2>1. A \in SUBSET Nat /\ B \in SUBSET Nat
    BY DEF FiniteSubsetsOf
  <2> QED
    BY <1>2, <1>3, <2>1 DEF StrictSubsetOrdering
<1> QED
  BY <1>3

\* A finite set of numbers has a greatest.
LEMMA Greatest ==
  ASSUME NEW S \in SUBSET Nat, IsFiniteSet(S), S # {}
  PROVE  \E m \in S : \A n \in S : n <= m
<1> DEFINE Sets == {B \in FiniteSubsetsOf(Nat) : B # {} /\ ~ \E m \in B : \A n \in B : n <= m}
<1> SUFFICES ASSUME Sets # {} PROVE FALSE
  BY DEF FiniteSubsetsOf
<1>1. PICK B \in Sets : \A A \in Sets : A \subseteq B => A = B
  <2>1. Sets \in SUBSET FiniteSubsetsOf(Nat)
    OBVIOUS
  <2> HIDE DEF Sets
  <2> QED
    BY <2>1, Smallest
<1>2. B \in SUBSET Nat /\ IsFiniteSet(B) /\ B # {}
  BY DEF FiniteSubsetsOf
<1>3. PICK x \in B : TRUE
  BY <1>2
<1> DEFINE A == B \ {x}
<1>4. A \in FiniteSubsetsOf(Nat) /\ A \subseteq B /\ A # B
  BY <1>2, <1>3, FS_RemoveElement DEF FiniteSubsetsOf
<1>5. A \notin Sets
  BY <1>1, <1>4
<1>6. CASE A = {}
  <2>1. \A n \in B : n <= x
    BY <1>2, <1>3, <1>6
  <2> QED
    BY <1>3, <2>1
<1>7. CASE A # {}
  <2>1. PICK m \in A : \A n \in A : n <= m
    BY <1>4, <1>5, <1>7
  <2>2. m \in Nat /\ x \in Nat /\ m \in B
    BY <1>2, <1>3
  <2>3. CASE x <= m
    BY <1>2, <2>1, <2>2, <2>3
  <2>4. CASE m <= x
    <3>1. \A n \in B : n <= x
      BY <1>2, <2>1, <2>2, <2>4
    <3> QED
      BY <1>3, <3>1
  <2> QED
    BY <2>2, <2>3, <2>4
<1> QED
  BY <1>6, <1>7

IsInOrder(s, S) ==
  /\ s \in [1 .. Cardinality(S) -> S]
  /\ \A j, k \in DOMAIN s : j < k => s[j] < s[k]

\* A finite set of numbers can be listed in order.
LEMMA Listing ==
  ASSUME NEW S \in SUBSET Nat, IsFiniteSet(S)
  PROVE  \E s : IsInOrder(s, S)
<1> DEFINE Sets == {B \in FiniteSubsetsOf(Nat) : ~ \E s : IsInOrder(s, B)}
<1> SUFFICES ASSUME Sets # {} PROVE FALSE
  BY DEF FiniteSubsetsOf
<1>1. PICK B \in Sets : \A A \in Sets : A \subseteq B => A = B
  <2>1. Sets \in SUBSET FiniteSubsetsOf(Nat)
    OBVIOUS
  <2> HIDE DEF Sets
  <2> QED
    BY <2>1, Smallest
<1>2. B \in SUBSET Nat /\ IsFiniteSet(B) /\ ~ \E s : IsInOrder(s, B)
  BY DEF FiniteSubsetsOf
<1>3. B # {}
  <2> SUFFICES ASSUME B = {} PROVE FALSE
    OBVIOUS
  <2>1. Cardinality(B) = 0
    BY FS_EmptySet
  <2>2. [i \in 1 .. 0 |-> 0] \in [1 .. 0 -> B]
    OBVIOUS
  <2>3. IsInOrder([i \in 1 .. 0 |-> 0], B)
    BY <2>1, <2>2 DEF IsInOrder
  <2> QED
    BY <1>2, <2>3
<1>4. PICK m \in B : \A n \in B : n <= m
  BY <1>2, <1>3, Greatest
<1> DEFINE A == B \ {m}
           c == Cardinality(A)
<1>5. /\ IsFiniteSet(A) /\ c \in Nat /\ Cardinality(B) = c + 1
      /\ A \in FiniteSubsetsOf(Nat) /\ A \subseteq B /\ A # B
  <2>1. IsFiniteSet(A) /\ Cardinality(A) = Cardinality(B) - 1
    BY <1>2, <1>4, FS_RemoveElement
  <2>2. Cardinality(B) \in Nat /\ Cardinality(A) \in Nat
    BY <1>2, <2>1, FS_CardinalityType
  <2> QED
    BY <1>2, <1>4, <2>1, <2>2 DEF FiniteSubsetsOf
<1>6. A \notin Sets
  BY <1>1, <1>5
<1>7. PICK s : IsInOrder(s, A)
  BY <1>5, <1>6
<1> HIDE DEF c
<1>8. s \in [1 .. c -> A] /\ \A j, k \in 1 .. c : j < k => s[j] < s[k]
  BY <1>7 DEF IsInOrder, c
<1> DEFINE t == [i \in 1 .. c + 1 |-> IF i = c + 1 THEN m ELSE s[i]]
<1>9. \A i \in 1 .. c + 1 : i = c + 1 \/ i \in 1 .. c
  BY <1>5
<1>10. t \in [1 .. c + 1 -> B]
  <2>1. \A i \in 1 .. c : s[i] \in B
    BY <1>8
  <2> QED
    BY <1>4, <1>9, <2>1
<1>11. ASSUME NEW j \in 1 .. c + 1, NEW k \in 1 .. c + 1, j < k PROVE t[j] < t[k]
  <2>1. j \in 1 .. c
    BY <1>5, <1>11
  <2>2. t[j] = s[j] /\ s[j] \in A
    BY <1>5, <1>8, <2>1
  <2>3. CASE k = c + 1
    <3>1. s[j] \in Nat /\ m \in Nat /\ s[j] # m /\ s[j] <= m /\ t[k] = m
      BY <1>2, <1>4, <2>2, <2>3
    <3> QED
      BY <2>2, <3>1
  <2>4. CASE k \in 1 .. c
    <3>1. t[k] = s[k]
      BY <1>5, <2>4
    <3> QED
      BY <1>8, <1>11, <2>1, <2>2, <2>4, <3>1
  <2> QED
    BY <1>9, <2>3, <2>4
<1>12. DOMAIN t = 1 .. c + 1
  OBVIOUS
<1> HIDE DEF t
<1>13. IsInOrder(t, B)
  BY <1>5, <1>10, <1>11, <1>12 DEF IsInOrder
<1> QED
  BY <1>2, <1>13

\* PcrBanks::allocation lists every bank, and once.
LEMMA InOrderLists ==
  ASSUME NEW S \in SUBSET Nat, IsFiniteSet(S)
  PROVE  InOrder(S) \in Seq(S) /\ Banks(InOrder(S)) = S
<1> DEFINE s == InOrder(S)
           c == Cardinality(S)
<1>1. IsInOrder(s, S)
  BY Listing DEF InOrder, IsInOrder
<1>2. c \in Nat
  BY FS_CardinalityType
<1> HIDE DEF s, c
<1>3. s \in [1 .. c -> S] /\ \A j, k \in 1 .. c : j < k => s[j] < s[k]
  BY <1>1 DEF IsInOrder, c
<1>4. s \in Injection(1 .. c, S)
  <2>1. ASSUME NEW j \in 1 .. c, NEW k \in 1 .. c, s[j] = s[k] PROVE j = k
    <3>1. s[j] \in Nat /\ s[k] \in Nat
      BY <1>3
    <3> QED
      BY <1>2, <1>3, <2>1, <3>1
  <2> QED
    BY <1>3, <2>1 DEF Injection, IsInjective
<1>5. Cardinality(1 .. c) = c
  BY <1>2, FS_Interval
<1>6. s \in Surjection(1 .. c, S)
  BY <1>4, <1>5, FS_Injection DEF c
<1>7. Banks(s) = S
  BY <1>3, <1>6 DEF Banks, Surjection
<1>8. s \in Seq(S)
  BY <1>2, <1>3
<1> QED
  BY <1>7, <1>8 DEF s

-----------------------------------------------------------------------------
(* What every command does to the memory.                                  *)

\* A set of banks by what each of them holds.
LEMMA PcrSetsAre ==
  ASSUME NEW p
  PROVE  p \in PcrSets <=> DOMAIN p \subseteq Algs /\ p \in [DOMAIN p -> Bank]
BY DEF PcrSets

LEMMA AlgsAre ==
  ASSUME bounds \in Bounds
  PROVE  Algs \subseteq Nat /\ IsFiniteSet(Algs)
BY LifecycleAssumption DEF LifecycleAssumption, Algs

LEMMA SameTypes ==
  ASSUME bounds' = bounds
  PROVE  Memory' = Memory /\ Record' = Record
<1>1. Algs' = Algs
  BY DEF Algs
<1>2. PcrSets' = PcrSets
  BY <1>1 DEF PcrSets, Bank
<1> QED
  BY <1>1, <1>2 DEF Memory, Record

LEMMA SavedType ==
  ASSUME NEW t \in Memory
  PROVE  Saved(t) \in Record
BY DEF Memory, Record, Saved

\* The fields that tell Clock and the boots, after e has been credited.
Timed(t, e) ==
  /\ t.clock = tpm.clock + e
  /\ t.elapsed = IF Rolled(tpm, e) THEN 0 ELSE tpm.elapsed + e
  /\ t.safe <=> tpm.safe \/ Rolled(tpm, e)
  /\ t.started = tpm.started /\ t.ever_started = tpm.ever_started
  /\ t.resets = tpm.resets /\ t.restarts = tpm.restarts

\* The fields that tell the PCR, as they were.
Banked(t) ==
  /\ t.pcr = tpm.pcr /\ t.allocation = tpm.allocation /\ t.pending = tpm.pending
  /\ t.hcrtm = tpm.hcrtm /\ t.hcrtm_last = tpm.hcrtm_last /\ t.locality = tpm.locality

\* The time is credited, and Clock may roll over.
LEMMA AdvanceTimeIs ==
  ASSUME tpm \in Memory, NEW e \in Nat, NEW m \in Memory,
         NEW q \in BOOLEAN, m = [tpm EXCEPT !.sequence = q]
  PROVE  LET t == AdvanceTime(m, e) IN
         /\ t \in Memory /\ Timed(t, e) /\ Banked(t) /\ t.shutdown = tpm.shutdown
<1> DEFINE t == AdvanceTime(m, e)
<1>1. Rolled(m, e) = Rolled(tpm, e)
  BY DEF Rolled, Memory
<1>2. CASE Rolled(tpm, e)
  <2>1. t = [m EXCEPT !.clock = @ + e, !.elapsed = 0, !.safe = TRUE]
    BY <1>1, <1>2 DEF AdvanceTime
  <2>2. m.clock + e \in Nat
    BY DEF Memory
  <2> HIDE DEF t
  <2>3. t \in Memory
    BY <2>1, <2>2 DEF Memory
  <2>4. Timed(t, e) /\ Banked(t) /\ t.shutdown = tpm.shutdown
    BY <1>2, <2>1 DEF Memory, Timed, Banked
  <2> QED
    BY <2>3, <2>4 DEF t
<1>3. CASE ~Rolled(tpm, e)
  <2>1. t = [m EXCEPT !.clock = @ + e, !.elapsed = @ + e]
    BY <1>1, <1>3 DEF AdvanceTime
  <2>2. m.clock + e \in Nat /\ m.elapsed + e \in Nat
    BY DEF Memory
  <2> HIDE DEF t
  <2>3. t \in Memory
    BY <2>1, <2>2 DEF Memory
  <2>4. Timed(t, e) /\ Banked(t) /\ t.shutdown = tpm.shutdown
    BY <1>3, <2>1 DEF Memory, Timed, Banked
  <2> QED
    BY <2>3, <2>4 DEF t
<1> QED
  BY <1>2, <1>3

LEMMA CreditedIs ==
  ASSUME tpm \in Memory, NEW e \in Nat
  PROVE  LET t == Credited(e) IN
         /\ t \in Memory /\ Timed(t, e) /\ Banked(t) /\ t.shutdown = tpm.shutdown
<1>1. [tpm EXCEPT !.sequence = FALSE] \in Memory
  BY DEF Memory
<1> QED
  BY <1>1, AdvanceTimeIs DEF Credited

\* A command other than TPM2_Shutdown takes the shutdown back.
LEMMA UndoIs ==
  ASSUME tpm \in Memory, NEW e \in Nat
  PROVE  LET t == Undo(Credited(e)) IN
         /\ t \in Memory /\ Timed(t, e) /\ Banked(t)
         /\ t.shutdown = IF tpm.started THEN "none" ELSE tpm.shutdown
<1> DEFINE c == Credited(e)
           t == Undo(c)
<1>1. c \in Memory /\ Timed(c, e) /\ Banked(c) /\ c.shutdown = tpm.shutdown
  BY CreditedIs
<1>2. c.started = tpm.started
  BY <1>1 DEF Timed
<1> HIDE DEF c
<1>3. CASE c.started /\ c.shutdown # "none"
  <2>1. t = [c EXCEPT !.shutdown = "none", !.orderly = FALSE]
    BY <1>3 DEF Undo
  <2>2. "none" \in Shutdowns
    BY DEF Shutdowns
  <2> HIDE DEF t
  <2>3. t \in Memory /\ t.shutdown = "none"
    BY <1>1, <2>1, <2>2 DEF Memory
  <2>4. Timed(t, e)
    BY <1>1, <2>1 DEF Memory, Timed
  <2>5. Banked(t)
    BY <1>1, <2>1 DEF Memory, Banked
  <2> QED
    BY <1>2, <1>3, <2>3, <2>4, <2>5 DEF t, c
<1>4. CASE ~(c.started /\ c.shutdown # "none")
  BY <1>1, <1>2, <1>4 DEF Undo, c
<1> QED
  BY <1>3, <1>4

-----------------------------------------------------------------------------
(* Clock and the reset counters.                                           *)

\* What is written is all of it; only a roll over has to be.
Written(e) == file' = Saved(tpm') \/ (file' = file /\ ~Rolled(tpm, e))

\* The part of the invariant that tells Clock and the boots.
Times == Linked /\ Lagging /\ SafeSaysSo /\ Counting /\ IdentityNamesOneBoot

\* What TypeOK says of the fields, without the records.
LEMMA Numbers ==
  ASSUME TypeOK
  PROVE  /\ tpm.clock \in Nat /\ tpm.elapsed \in Nat /\ tpm.resets \in Nat
         /\ tpm.restarts \in Nat /\ file.clock \in Nat /\ file.resets \in Nat
         /\ file.restarts \in Nat /\ reported \in Nat /\ boot \in Nat
         /\ Interval \in Nat \ {0}
         /\ \A x \in identities : x[1] \in Nat /\ x[2] \in Nat /\ x[3] \in Nat
<1>1. /\ tpm.clock \in Nat /\ tpm.elapsed \in Nat /\ tpm.resets \in Nat
      /\ tpm.restarts \in Nat
  BY DEF TypeOK, Memory
<1>2. file.clock \in Nat /\ file.resets \in Nat /\ file.restarts \in Nat
  BY DEF TypeOK, Record
<1> QED
  BY <1>1, <1>2, LifecycleAssumption DEF TypeOK, LifecycleAssumption

\* What is written has the fields of the memory.
LEMMA SavedIs ==
  ASSUME NEW t
  PROVE  /\ Saved(t).shutdown = t.shutdown /\ Saved(t).ever_started = t.ever_started
         /\ Saved(t).clock = t.clock /\ Saved(t).safe = t.safe
         /\ Saved(t).resets = t.resets /\ Saved(t).restarts = t.restarts
         /\ Saved(t).allocation = t.allocation /\ Saved(t).pcr = t.pcr
         /\ Saved(t).hcrtm_last = t.hcrtm_last /\ Saved(t).locality = t.locality
BY DEF Saved

\* Time is credited, and a shutdown may be taken back.
LEMMA TimePasses ==
  ASSUME IInv, NEW e \in Nat, Timed(tpm', e), Written(e),
         tpm'.shutdown \in {tpm.shutdown, "none"},
         UNCHANGED <<reported, boot, identities, undone>>
  PROVE  Times'
<1> USE Numbers, SavedIs DEF IInv
<1>1. Linked'
  BY DEF Linked, Timed, Written
<1>2. Lagging'
  <2>1. CASE Rolled(tpm, e)
    BY <2>1 DEF Lagging, Timed, Written, Rolled
  <2>2. CASE ~Rolled(tpm, e)
    BY <2>2 DEF Lagging, Timed, Written, Rolled
  <2> QED
    BY <2>1, <2>2
<1>3. SafeSaysSo'
  <2> SUFFICES ASSUME ~undone
               PROVE  /\ tpm'.safe /\ (tpm'.started \/ tpm'.shutdown # "none")
                           => reported <= tpm'.clock
                      /\ file'.safe /\ tpm'.shutdown # "none" => reported <= file'.clock
    BY DEF SafeSaysSo
  <2>1. tpm'.safe /\ (tpm'.started \/ tpm'.shutdown # "none") => reported <= tpm'.clock
    <3>1. CASE Rolled(tpm, e)
      BY <3>1 DEF Lagging, Timed, Rolled
    <3>2. CASE ~Rolled(tpm, e)
      BY <3>2 DEF SafeSaysSo, Timed
    <3> QED
      BY <3>1, <3>2
  <2>2. file'.safe /\ tpm'.shutdown # "none" => reported <= file'.clock
    <3>1. CASE file' = Saved(tpm')
      BY <2>1, <3>1
    <3>2. CASE file' = file
      BY <3>2 DEF SafeSaysSo
    <3> QED
      BY <3>1, <3>2 DEF Written
  <2> QED
    BY <2>1, <2>2
<1>4. Counting'
  <2>1. tpm'.resets = tpm.resets /\ tpm'.restarts = tpm.restarts /\ tpm'.started = tpm.started
    BY DEF Timed
  <2>2. \/ file' = file
        \/ file'.resets = tpm.resets /\ file'.restarts = tpm.restarts
    BY <2>1 DEF Written
  <2> QED
    BY <2>1, <2>2 DEF Counting
<1>5. IdentityNamesOneBoot'
  BY DEF IdentityNamesOneBoot
<1> QED
  BY <1>1, <1>2, <1>3, <1>4, <1>5 DEF Times

\* Clock and the reset counters are reported.
LEMMA ReportTimes ==
  ASSUME IInv, NEW e \in Nat, Timed(tpm', e), file' = file \/ file' = Saved(tpm'),
         Rolled(tpm, e) => file' = Saved(tpm'),
         tpm.started, tpm'.shutdown = "none",
         reported' = IF tpm'.clock > reported THEN tpm'.clock ELSE reported,
         identities' = identities \cup {<<tpm'.resets, tpm'.restarts, boot>>},
         UNCHANGED <<boot, undone>>
  PROVE  Times'
<1> USE Numbers, SavedIs DEF IInv
<1>1. Linked'
  BY DEF Linked, Timed
<1>2. Lagging'
  <2>1. CASE Rolled(tpm, e)
    BY <2>1 DEF Linked, Lagging, Timed, Rolled
  <2>2. CASE ~Rolled(tpm, e)
    BY <2>2 DEF Linked, Lagging, Timed, Rolled
  <2> QED
    BY <2>1, <2>2
<1>3. SafeSaysSo'
  <2>1. ~undone => (tpm'.safe => reported <= tpm'.clock)
    <3>1. CASE Rolled(tpm, e)
      BY <3>1 DEF Lagging, Timed, Rolled
    <3>2. CASE ~Rolled(tpm, e)
      BY <3>2 DEF SafeSaysSo, Timed
    <3> QED
      BY <3>1, <3>2
  <2>2. tpm'.clock \in Nat
    BY DEF Timed
  <2> QED
    BY <2>1, <2>2 DEF SafeSaysSo
<1> DEFINE id == <<tpm.resets, tpm.restarts, boot>>
<1>4. /\ tpm'.resets = tpm.resets /\ tpm'.restarts = tpm.restarts
      /\ tpm'.started = tpm.started /\ file'.resets = tpm.resets
      /\ identities' = identities \cup {id}
      /\ id[1] = tpm.resets /\ id[2] = tpm.restarts /\ id[3] = boot
  BY DEF Timed, Counting
<1> HIDE DEF id
<1>5. Counting'
  BY <1>4 DEF Counting
<1>6. IdentityNamesOneBoot'
  <2> SUFFICES ASSUME ~undone, NEW x \in identities \cup {id}, NEW y \in identities \cup {id},
                      x[1] = y[1], x[2] = y[2]
               PROVE  x[3] = y[3]
    BY <1>4 DEF IdentityNamesOneBoot
  <2>1. \A z \in identities : z[1] = id[1] /\ z[2] = id[2] => z[3] = id[3]
    BY <1>4 DEF Counting
  <2> QED
    BY <2>1 DEF IdentityNamesOneBoot
<1> QED
  BY <1>1, <1>2, <1>3, <1>5, <1>6 DEF Times

\* TPM2_Clear forgets everything.
LEMMA ClearTimes ==
  ASSUME IInv, tpm.started, tpm'.started = tpm.started,
         tpm'.ever_started = tpm.ever_started,
         tpm'.clock = 0, tpm'.elapsed = 0, tpm'.resets = 0, tpm'.restarts = 0,
         tpm'.shutdown = "none", file' = Saved(tpm'), reported' = 0, identities' = {}
  PROVE  Times'
<1> USE Numbers, SavedIs DEF IInv
<1>1. Linked' /\ Lagging'
  BY DEF Linked, Lagging
<1>2. SafeSaysSo'
  BY DEF SafeSaysSo
<1>3. Counting' /\ IdentityNamesOneBoot'
  BY DEF Counting, IdentityNamesOneBoot
<1> QED
  BY <1>1, <1>2, <1>3 DEF Times

\* TPM2_ClockSet moves Clock on from t, and it may roll over.
LEMMA ClockSetTimes ==
  ASSUME IInv, NEW e \in Nat, NEW t, Timed(t, e), NEW new \in Nat, new >= t.clock,
         tpm.started,
         LET jump == new - t.clock
             over == t.elapsed + jump >= Interval
         IN  /\ tpm'.clock = new
             /\ tpm'.elapsed = IF over THEN 0 ELSE t.elapsed + jump
             /\ tpm'.safe <=> t.safe \/ over,
         tpm'.started = tpm.started, tpm'.ever_started = tpm.ever_started,
         tpm'.resets = tpm.resets, tpm'.restarts = tpm.restarts,
         tpm'.shutdown = "none", file' = Saved(tpm'),
         UNCHANGED <<reported, boot, identities, undone>>
  PROVE  Times'
<1> USE Numbers, SavedIs DEF IInv
<1>1. Linked'
  BY DEF Linked
<1>2. t.clock \in Nat /\ t.elapsed \in Nat /\ t.clock >= tpm.clock
  BY DEF Timed
<1>3. t.elapsed < Interval /\ reported + t.elapsed < t.clock + Interval
  <2>1. CASE Rolled(tpm, e)
    BY <2>1 DEF Lagging, Timed, Rolled
  <2>2. CASE ~Rolled(tpm, e)
    BY <2>2 DEF Lagging, Timed, Rolled
  <2> QED
    BY <2>1, <2>2
<1>4. Lagging'
  BY <1>2, <1>3 DEF Lagging
<1>5. SafeSaysSo'
  <2> SUFFICES ASSUME ~undone, tpm'.safe PROVE reported <= new
    BY DEF SafeSaysSo
  <2>1. CASE t.elapsed + (new - t.clock) >= Interval
    BY <1>2, <1>3, <2>1
  <2>2. CASE ~(t.elapsed + (new - t.clock) >= Interval)
    <3>1. t.safe
      BY <2>2
    <3>2. CASE Rolled(tpm, e)
      BY <3>2 DEF Lagging, Timed, Rolled
    <3>3. CASE ~Rolled(tpm, e)
      BY <1>2, <3>1, <3>3 DEF SafeSaysSo, Timed
    <3> QED
      BY <3>2, <3>3
  <2> QED
    BY <2>1, <2>2
<1>6. Counting' /\ IdentityNamesOneBoot'
  BY DEF Counting, IdentityNamesOneBoot
<1> QED
  BY <1>1, <1>4, <1>5, <1>6 DEF Times

\* TPM2_Shutdown records itself, and the memory is written.
LEMMA ShutdownTimes ==
  ASSUME IInv, NEW e \in Nat, Timed(tpm', e), tpm.started, file' = Saved(tpm'),
         UNCHANGED <<reported, boot, identities, undone>>
  PROVE  Times'
<1> USE Numbers, SavedIs DEF IInv
<1>1. Linked'
  BY DEF Linked, Timed
<1>2. Lagging' /\ (~undone => (tpm'.safe => reported <= tpm'.clock))
  <2>1. CASE Rolled(tpm, e)
    BY <2>1 DEF Lagging, Timed, Rolled
  <2>2. CASE ~Rolled(tpm, e)
    BY <2>2 DEF Lagging, SafeSaysSo, Timed, Rolled
  <2> QED
    BY <2>1, <2>2
<1>3. SafeSaysSo'
  BY <1>2 DEF SafeSaysSo
<1>4. Counting' /\ IdentityNamesOneBoot'
  BY DEF Counting, IdentityNamesOneBoot, Timed
<1> QED
  BY <1>1, <1>2, <1>3, <1>4 DEF Times

\* TPM2_Startup: a shutdown that is none takes the safe flag, unless nothing was
\* ever reported, and the reset counters have not been seen.
LEMMA StartupTimes ==
  ASSUME IInv, NEW e \in Nat, NEW t, Timed(t, e), ~tpm.started,
         tpm'.clock = t.clock, tpm'.elapsed \in {t.elapsed, 0},
         tpm'.safe => t.safe /\ (tpm.shutdown = "none" => ~tpm.ever_started),
         tpm'.started, tpm'.ever_started, tpm'.shutdown = "none",
         \/ tpm'.resets = tpm.resets + 1
         \/ /\ tpm.shutdown # "none"
            /\ tpm'.resets = tpm.resets /\ tpm'.restarts = tpm.restarts + 1,
         file' = Saved(tpm'),
         UNCHANGED <<reported, identities, undone>>
  PROVE  Times'
<1> USE Numbers, SavedIs DEF IInv
<1>1. Linked'
  BY DEF Linked
<1>2. t.clock \in Nat /\ t.elapsed \in Nat
  BY DEF Timed
<1>3. Lagging'
  <2>1. CASE Rolled(tpm, e)
    BY <1>2, <2>1 DEF Lagging, Timed, Rolled
  <2>2. CASE ~Rolled(tpm, e)
    BY <1>2, <2>2 DEF Lagging, Timed, Rolled
  <2> QED
    BY <2>1, <2>2
<1>4. SafeSaysSo'
  <2> SUFFICES ASSUME ~undone, tpm'.safe PROVE reported <= t.clock
    BY DEF SafeSaysSo
  <2>1. CASE tpm.shutdown = "none"
    BY <1>2, <2>1 DEF Lagging
  <2>2. CASE Rolled(tpm, e)
    BY <2>2 DEF Lagging, Timed, Rolled
  <2>3. CASE tpm.shutdown # "none" /\ ~Rolled(tpm, e)
    BY <2>3 DEF SafeSaysSo, Timed
  <2> QED
    BY <2>1, <2>2, <2>3
<1>5. Counting'
  BY DEF Counting
<1>6. IdentityNamesOneBoot'
  BY DEF IdentityNamesOneBoot
<1> QED
  BY <1>1, <1>3, <1>4, <1>5, <1>6 DEF Times

\* A D-RTM sequence counts as a restart, which is not written.
LEMMA DrtmTimes ==
  ASSUME IInv, tpm.started, tpm'.started, tpm'.ever_started = tpm.ever_started,
         tpm'.clock = tpm.clock, tpm'.elapsed = tpm.elapsed, tpm'.safe = tpm.safe,
         tpm'.resets = tpm.resets, tpm'.restarts = tpm.restarts + 1,
         tpm'.shutdown = tpm.shutdown,
         UNCHANGED <<file, reported, identities, undone>>
  PROVE  Times'
<1> USE Numbers DEF IInv
<1>1. Linked' /\ Lagging' /\ SafeSaysSo'
  BY DEF Linked, Lagging, SafeSaysSo
<1>2. Counting' /\ IdentityNamesOneBoot'
  BY DEF Counting, IdentityNamesOneBoot
<1> QED
  BY <1>1, <1>2 DEF Times

\* Power and the other signals: no time, and at most the TPM is not started any more.
LEMMA SignalTimes ==
  ASSUME IInv, tpm'.started => tpm.started, tpm'.ever_started = tpm.ever_started,
         tpm'.clock = tpm.clock, tpm'.elapsed = tpm.elapsed, tpm'.safe = tpm.safe,
         tpm'.resets = tpm.resets, tpm'.restarts = tpm.restarts,
         tpm'.shutdown = tpm.shutdown,
         file' = file \/ file' = Saved(tpm'),
         UNCHANGED <<reported, boot, identities, undone>>
  PROVE  Times'
<1> USE Numbers, SavedIs DEF IInv
<1>1. Linked' /\ Lagging'
  BY DEF Linked, Lagging
<1>2. SafeSaysSo'
  BY DEF SafeSaysSo
<1>3. Counting' /\ IdentityNamesOneBoot'
  BY DEF Counting, IdentityNamesOneBoot
<1> QED
  BY <1>1, <1>2, <1>3 DEF Times

\* The process starts again on what was last written.
LEMMA CrashTimes ==
  ASSUME IInv, tpm' = Load(file), file' = file,
         undone' = (undone \/ (file.shutdown # "none" /\ tpm.shutdown = "none")),
         UNCHANGED <<reported, boot, identities>>
  PROVE  Times'
<1> USE Numbers DEF IInv
<1>1. /\ tpm'.started = FALSE /\ tpm'.shutdown = file.shutdown
      /\ tpm'.ever_started = file.ever_started /\ tpm'.clock = file.clock
      /\ tpm'.elapsed = 0 /\ tpm'.safe = file.safe /\ tpm'.resets = file.resets
      /\ tpm'.restarts = file.restarts
  BY DEF Load
<1>2. Linked'
  BY <1>1 DEF Linked
<1>3. Lagging'
  BY <1>1 DEF Lagging, Linked
<1>4. SafeSaysSo'
  BY <1>1 DEF SafeSaysSo
<1>5. Counting'
  BY <1>1 DEF Counting
<1>6. IdentityNamesOneBoot'
  BY DEF IdentityNamesOneBoot
<1> QED
  BY <1>2, <1>3, <1>4, <1>5, <1>6 DEF Times

-----------------------------------------------------------------------------
(* The PCR.                                                                *)

\* The part of the invariant that tells the PCR.
Registers == Allocated /\ Measured /\ Resumable

\* The file is written with what is true of the memory, or stays.
LEMMA RegistersWritten ==
  ASSUME IInv,
         \/ file' = Saved(tpm')
         \/ /\ file' = file /\ at_shutdown' = at_shutdown
            /\ orphan => orphan'
            /\ rebuilt => rebuilt',
         powered' /\ ~tpm'.pending => Matches(tpm'),
         powered' /\ ~tpm'.started => ~tpm'.pending,
         tpm'.shutdown = "state" => Matches(tpm'),
         tpm'.hcrtm => orphan' /\ ~tpm'.started /\ Pcr0Is(tpm'.pcr, 4),
         ~orphan' /\ ~rebuilt' /\ (tpm'.started \/ tpm'.shutdown = "state") => Method(tpm'),
         ~rebuilt' /\ tpm'.shutdown = "state" => Keeps(tpm.pcr)'
  PROVE  Registers'
<1>1. CASE file' = Saved(tpm')
  <2>1. Allocated'
    BY <1>1, SavedIs DEF Allocated, Matches
  <2>2. Measured'
    <3>1. Method(file') <=> Method(tpm')
      BY <1>1, SavedIs DEF Method, Pcr0Is
    <3> QED
      BY <1>1, <3>1, SavedIs DEF Measured
  <2>3. Resumable'
    <3>1. file'.pcr = tpm'.pcr
      BY <1>1, SavedIs
    <3>2. Keeps(file.pcr)' <=> Keeps(tpm.pcr)'
      BY <3>1 DEF Keeps
    <3> QED
      BY <1>1, <3>2, SavedIs DEF Resumable
  <2> QED
    BY <2>1, <2>2, <2>3 DEF Registers
<1>2. CASE /\ file' = file /\ at_shutdown' = at_shutdown
           /\ orphan => orphan'
           /\ rebuilt => rebuilt'
  <2>1. Allocated'
    BY <1>2 DEF IInv, Allocated
  <2>2. Measured'
    BY <1>2 DEF IInv, Measured
  <2>3. Resumable'
    <3>1. Keeps(file.pcr) => Keeps(file.pcr)'
      BY <1>2 DEF Keeps
    <3> QED
      BY <1>2, <3>1 DEF IInv, Resumable
  <2> QED
    BY <2>1, <2>2, <2>3 DEF Registers
<1> QED
  BY <1>1, <1>2

\* Commands and signals that leave the PCR alone.
LEMMA SameRegisters ==
  ASSUME IInv, Banked(tpm'), tpm'.started = tpm.started,
         tpm'.shutdown \in {tpm.shutdown, "none"},
         file' = file \/ file' = Saved(tpm'),
         UNCHANGED <<powered, at_shutdown, orphan, rebuilt>>
  PROVE  Registers'
<1>1. /\ tpm'.pcr = tpm.pcr /\ tpm'.allocation = tpm.allocation /\ tpm'.pending = tpm.pending
      /\ tpm'.hcrtm = tpm.hcrtm /\ tpm'.hcrtm_last = tpm.hcrtm_last
      /\ tpm'.locality = tpm.locality
  BY DEF Banked
<1>2. Matches(tpm') = Matches(tpm) /\ Method(tpm') = Method(tpm)
  BY <1>1 DEF Matches, Method, Pcr0Is
<1>3. Keeps(tpm.pcr)' <=> Keeps(tpm.pcr)
  BY <1>1 DEF Keeps
<1>4. /\ powered' /\ ~tpm'.pending => Matches(tpm')
      /\ powered' /\ ~tpm'.started => ~tpm'.pending
      /\ tpm'.shutdown = "state" => Matches(tpm')
  BY <1>1, <1>2 DEF IInv, Allocated
<1>5. tpm'.hcrtm => orphan' /\ ~tpm'.started /\ Pcr0Is(tpm'.pcr, 4)
  BY <1>1 DEF IInv, Measured
<1>6. ~orphan' /\ ~rebuilt' /\ (tpm'.started \/ tpm'.shutdown = "state") => Method(tpm')
  BY <1>2 DEF IInv, Measured
<1>7. ~rebuilt' /\ tpm'.shutdown = "state" => Keeps(tpm.pcr)'
  BY <1>3 DEF IInv, Resumable
<1> QED
  BY <1>4, <1>5, <1>6, <1>7, RegistersWritten

\* Commands and signals of a TPM that is started, which extend or reset
\* registers but never set PCR 0 anew.
LEMMA StartedRegisters ==
  ASSUME IInv, tpm.started, tpm'.started,
         DOMAIN tpm'.pcr = DOMAIN tpm.pcr,
         \A a \in DOMAIN tpm.pcr : tpm'.pcr[a][HCRTM_PCR][1] = tpm.pcr[a][HCRTM_PCR][1],
         \/ tpm'.shutdown = "none"
         \/ /\ tpm'.shutdown = tpm.shutdown /\ tpm'.allocation = tpm.allocation
            /\ \A a \in DOMAIN tpm.pcr, i \in Pcrs : IsSaved(i) => tpm'.pcr[a][i] = tpm.pcr[a][i],
         \/ tpm'.pending
         \/ tpm'.pending = tpm.pending /\ tpm'.allocation = tpm.allocation,
         tpm'.hcrtm = tpm.hcrtm, tpm'.hcrtm_last = tpm.hcrtm_last,
         tpm'.locality = tpm.locality,
         file' = file \/ file' = Saved(tpm'),
         UNCHANGED <<powered, at_shutdown, orphan, rebuilt>>
  PROVE  Registers'
<1>1. \A base : Pcr0Is(tpm.pcr, base) => Pcr0Is(tpm'.pcr, base)
  BY DEF Pcr0Is
<1>2. Method(tpm) => Method(tpm')
  BY <1>1 DEF Method
<1>3. /\ powered' /\ ~tpm'.pending => Matches(tpm')
      /\ powered' /\ ~tpm'.started => ~tpm'.pending
      /\ tpm'.shutdown = "state" => Matches(tpm')
  BY DEF IInv, Allocated, Matches
<1>4. ~tpm'.hcrtm
  BY DEF IInv, Measured
<1>5. ~orphan' /\ ~rebuilt' => Method(tpm')
  BY <1>2 DEF IInv, Measured
<1>6. ~rebuilt' /\ tpm'.shutdown = "state" => Keeps(tpm.pcr)'
  <2> SUFFICES ASSUME ~rebuilt, tpm'.shutdown = "state" PROVE Keeps(tpm.pcr)'
    OBVIOUS
  <2>1. Keeps(tpm.pcr)
    BY DEF IInv, Resumable
  <2> QED
    BY <2>1 DEF Keeps
<1> QED
  BY <1>3, <1>4, <1>5, <1>6, RegistersWritten

\* TPM2_Shutdown finds the PCR and leaves them as they are.
LEMMA ShutdownRegisters ==
  ASSUME IInv, Banked(tpm'), tpm.started, tpm'.started, powered,
         tpm'.shutdown = "state" => ~tpm.pending /\ at_shutdown' = SavedPcrs(tpm.pcr),
         file' = Saved(tpm'), UNCHANGED <<powered, orphan, rebuilt>>
  PROVE  Registers'
<1>1. /\ tpm'.pcr = tpm.pcr /\ tpm'.allocation = tpm.allocation /\ tpm'.pending = tpm.pending
      /\ tpm'.hcrtm = tpm.hcrtm /\ tpm'.hcrtm_last = tpm.hcrtm_last
      /\ tpm'.locality = tpm.locality
  BY DEF Banked
<1>2. Matches(tpm') = Matches(tpm) /\ Method(tpm') = Method(tpm)
  BY <1>1 DEF Matches, Method, Pcr0Is
<1>3. /\ powered' /\ ~tpm'.pending => Matches(tpm')
      /\ powered' /\ ~tpm'.started => ~tpm'.pending
      /\ tpm'.shutdown = "state" => Matches(tpm')
  BY <1>1, <1>2 DEF IInv, Allocated
<1>4. ~tpm'.hcrtm /\ (~orphan' /\ ~rebuilt' => Method(tpm'))
  BY <1>1, <1>2 DEF IInv, Measured
<1>5. tpm'.shutdown = "state" => Keeps(tpm.pcr)'
  <2> SUFFICES ASSUME tpm'.shutdown = "state" PROVE Keeps(tpm.pcr)'
    OBVIOUS
  <2>1. at_shutdown' = SavedPcrs(tpm.pcr)
    OBVIOUS
  <2>2. DOMAIN at_shutdown' = DOMAIN tpm.pcr
    BY <2>1 DEF SavedPcrs
  <2>3. \A a \in DOMAIN tpm.pcr, i \in Pcrs :
          IsSaved(i) => at_shutdown'[a][i] = tpm.pcr[a][i]
    BY <2>1 DEF SavedPcrs
  <2> QED
    BY <1>1, <2>2, <2>3 DEF Keeps
<1> QED
  BY <1>3, <1>4, <1>5, RegistersWritten

\* TPM2_Startup(TPM_SU_CLEAR) resets every register but an H-CRTM PCR.
LEMMA StartupClearRegisters ==
  ASSUME IInv, NEW locality, powered, ~tpm.started, tpm'.started, ~tpm'.pending,
         tpm'.shutdown = "none", ~tpm'.hcrtm, tpm'.hcrtm_last = tpm.hcrtm,
         tpm'.locality = locality, tpm'.allocation = tpm.allocation,
         tpm'.pcr = [a \in DOMAIN tpm.pcr |->
                       ResetAllBut(tpm.pcr[a], IF tpm.hcrtm THEN {HCRTM_PCR} ELSE {}, locality)],
         file' = Saved(tpm'), powered' = powered, ~orphan', ~rebuilt'
  PROVE  Registers'
<1>1. DOMAIN tpm'.pcr = DOMAIN tpm.pcr
  OBVIOUS
<1>2. Method(tpm')
  <2> SUFFICES ASSUME NEW a \in DOMAIN tpm.pcr
               PROVE  tpm'.pcr[a][HCRTM_PCR][1] = IF tpm.hcrtm THEN 4 ELSE locality
    BY <1>1 DEF Method, Pcr0Is
  <2>1. HCRTM_PCR \in Pcrs
    BY DEF Pcrs
  <2>2. CASE tpm.hcrtm
    <3>1. tpm'.pcr[a][HCRTM_PCR] = tpm.pcr[a][HCRTM_PCR]
      BY <2>1, <2>2 DEF ResetAllBut
    <3>2. tpm.pcr[a][HCRTM_PCR][1] = 4
      BY <2>2 DEF IInv, Measured, Pcr0Is
    <3> QED
      BY <2>2, <3>1, <3>2
  <2>3. CASE ~tpm.hcrtm
    <3>1. tpm'.pcr[a][HCRTM_PCR] = <<locality, 0>>
      BY <2>1, <2>3 DEF ResetAllBut
    <3> QED
      BY <2>3, <3>1
  <2> QED
    BY <2>2, <2>3
<1>3. Matches(tpm')
  BY <1>1 DEF IInv, Allocated, Matches
<1> QED
  BY <1>2, <1>3, RegistersWritten

\* TPM2_Startup(TPM_SU_STATE) keeps the registers that the shutdown saved.
LEMMA StartupStateRegisters ==
  ASSUME IInv, powered, ~tpm.started, tpm.shutdown = "state", tpm.hcrtm = tpm.hcrtm_last,
         tpm'.started, ~tpm'.pending,
         tpm'.shutdown = "none", ~tpm'.hcrtm, tpm'.hcrtm_last = tpm.hcrtm_last,
         tpm'.locality = tpm.locality, tpm'.allocation = tpm.allocation,
         tpm'.pcr = [a \in DOMAIN tpm.pcr |-> OnResume(tpm.pcr[a])],
         file' = Saved(tpm'), orphan' = (orphan /\ ~tpm.hcrtm),
         UNCHANGED <<powered, rebuilt>>
  PROVE  Registers'
<1>1. DOMAIN tpm'.pcr = DOMAIN tpm.pcr
  OBVIOUS
<1>2. \A a \in DOMAIN tpm.pcr : tpm'.pcr[a][HCRTM_PCR] = tpm.pcr[a][HCRTM_PCR]
  BY DEF OnResume, IsSaved, Pcrs
<1>3. ~orphan' /\ ~rebuilt' => Method(tpm')
  <2>1. CASE tpm.hcrtm
    BY <1>1, <1>2, <2>1 DEF IInv, Measured, Method, Pcr0Is
  <2>2. CASE ~tpm.hcrtm
    BY <1>1, <1>2, <2>2 DEF IInv, Measured, Method, Pcr0Is
  <2> QED
    BY <2>1, <2>2
<1>4. Matches(tpm')
  BY <1>1 DEF IInv, Allocated, Matches
<1> QED
  BY <1>3, <1>4, RegistersWritten

\* _TPM_Hash_End before TPM2_Startup sets PCR 0, and no startup has claimed it.
LEMMA HashEndRegisters ==
  ASSUME IInv, ~tpm.started, tpm'.hcrtm, ~tpm'.started,
         tpm'.shutdown = tpm.shutdown, tpm'.allocation = tpm.allocation,
         tpm'.pending = tpm.pending,
         tpm'.pcr = [a \in DOMAIN tpm.pcr |->
                       [tpm.pcr[a] EXCEPT ![HCRTM_PCR] = <<4, 1>>]],
         orphan', UNCHANGED <<powered, file, at_shutdown, rebuilt>>
  PROVE  Registers'
<1>1. DOMAIN tpm'.pcr = DOMAIN tpm.pcr
  OBVIOUS
<1>2. \A a \in DOMAIN tpm.pcr : tpm.pcr[a] \in Bank
  BY PcrSetsAre DEF IInv, TypeOK, Memory
<1>3. ASSUME NEW a \in DOMAIN tpm.pcr PROVE tpm'.pcr[a][HCRTM_PCR][1] = 4
  <2>1. tpm'.pcr[a][HCRTM_PCR] = <<4, 1>>
    BY <1>2 DEF Bank, Pcrs
  <2> QED
    BY <2>1
<1>4. Pcr0Is(tpm'.pcr, 4)
  BY <1>1, <1>3 DEF Pcr0Is
<1>5. \A a \in DOMAIN tpm.pcr, i \in Pcrs : i # HCRTM_PCR => tpm'.pcr[a][i] = tpm.pcr[a][i]
  BY <1>2 DEF Bank
<1>6. ~rebuilt' /\ tpm'.shutdown = "state" => Keeps(tpm.pcr)'
  <2> SUFFICES ASSUME ~rebuilt, tpm.shutdown = "state" PROVE Keeps(tpm.pcr)'
    OBVIOUS
  <2>1. Keeps(tpm.pcr)
    BY DEF IInv, Resumable
  <2>2. \A a \in DOMAIN at_shutdown : a \in DOMAIN tpm.pcr
    <3>1. 1 \in Pcrs /\ IsSaved(1) /\ 1 # HCRTM_PCR
      BY DEF Pcrs, IsSaved, HCRTM_PCR
    <3> QED
      BY <2>1, <3>1 DEF Keeps
  <2> QED
    BY <1>1, <1>5, <2>1, <2>2 DEF Keeps
<1>7. /\ powered' /\ ~tpm'.pending => Matches(tpm')
      /\ powered' /\ ~tpm'.started => ~tpm'.pending
      /\ tpm'.shutdown = "state" => Matches(tpm')
  BY <1>1 DEF IInv, Allocated, Matches
<1> QED
  BY <1>4, <1>6, <1>7, RegistersWritten

\* _TPM_Init builds the banks again when the allocation is not in order, and
\* leaves the values alone when it is.
LEMMA PowerOnRegisters ==
  ASSUME IInv, powered', tpm' = OnInit([tpm EXCEPT !.started = FALSE]),
         rebuilt' = (rebuilt \/ Rebuilds(tpm)),
         UNCHANGED <<file, at_shutdown, orphan, bounds>>
  PROVE  Registers'
<1> DEFINE t == [tpm EXCEPT !.started = FALSE]
<1>1. /\ t.pcr = tpm.pcr /\ t.allocation = tpm.allocation /\ t.shutdown = tpm.shutdown
      /\ t.hcrtm_last = tpm.hcrtm_last /\ t.locality = tpm.locality
      /\ t.started = FALSE /\ t \in Memory
  BY DEF IInv, TypeOK, Memory
<1> HIDE DEF t
<1>2. /\ tpm'.pcr = IF Rebuilds(tpm)
                    THEN [a \in Banks(tpm.allocation) |-> FreshBank] ELSE tpm.pcr
      /\ tpm'.allocation = tpm.allocation /\ tpm'.shutdown = tpm.shutdown
      /\ tpm'.hcrtm_last = tpm.hcrtm_last /\ tpm'.locality = tpm.locality
      /\ tpm'.started = FALSE /\ tpm'.pending = FALSE /\ tpm'.hcrtm = FALSE
  <2>1. tpm' = OnInit(t)
    BY DEF t
  <2>2. Rebuilds(t) = Rebuilds(tpm)
    BY <1>1 DEF Rebuilds
  <2> QED
    BY <1>1, <2>1, <2>2 DEF OnInit, Memory
<1>3. Matches(tpm')
  <2>1. CASE Rebuilds(tpm)
    BY <1>2, <2>1 DEF Matches
  <2>2. CASE ~Rebuilds(tpm)
    <3>1. DOMAIN tpm.pcr \in SUBSET Nat /\ IsFiniteSet(DOMAIN tpm.pcr)
      <4>1. DOMAIN tpm.pcr \subseteq Algs
        BY PcrSetsAre DEF IInv, TypeOK, Memory
      <4> QED
        BY <4>1, AlgsAre, FS_Subset DEF IInv, TypeOK
    <3>2. tpm.allocation = InOrder(DOMAIN tpm.pcr)
      BY <2>2 DEF Rebuilds
    <3> QED
      BY <1>2, <2>2, <3>1, <3>2, InOrderLists DEF Matches
  <2> QED
    BY <2>1, <2>2
<1>4. ~rebuilt' => tpm'.pcr = tpm.pcr
  BY <1>2
<1>5. ~orphan' /\ ~rebuilt' /\ tpm'.shutdown = "state" => Method(tpm')
  BY <1>2, <1>4 DEF IInv, Measured, Method, Pcr0Is
<1>6. ~rebuilt' /\ tpm'.shutdown = "state" => Keeps(tpm.pcr)'
  BY <1>2, <1>4 DEF IInv, Resumable, Keeps
<1> QED
  BY <1>2, <1>3, <1>5, <1>6, RegistersWritten

\* TpmInner::power_off writes what is in memory.
LEMMA PowerOffRegisters ==
  ASSUME IInv, ~powered', tpm' = [tpm EXCEPT !.started = FALSE], file' = Saved(tpm),
         UNCHANGED <<at_shutdown, orphan, rebuilt>>
  PROVE  Registers'
<1>1. /\ tpm'.pcr = tpm.pcr /\ tpm'.allocation = tpm.allocation /\ tpm'.shutdown = tpm.shutdown
      /\ tpm'.hcrtm = tpm.hcrtm /\ tpm'.hcrtm_last = tpm.hcrtm_last
      /\ tpm'.locality = tpm.locality /\ tpm'.started = FALSE
  BY DEF IInv, TypeOK, Memory
<1>2. file' = Saved(tpm')
  BY DEF IInv, TypeOK, Memory, Saved
<1>3. Matches(tpm') = Matches(tpm) /\ Method(tpm') = Method(tpm)
  BY <1>1 DEF Matches, Method, Pcr0Is
<1>4. tpm'.shutdown = "state" => Matches(tpm')
  BY <1>1, <1>3 DEF IInv, Allocated
<1>5. tpm'.hcrtm => orphan' /\ ~tpm'.started /\ Pcr0Is(tpm'.pcr, 4)
  BY <1>1 DEF IInv, Measured
<1>6. ~orphan' /\ ~rebuilt' /\ tpm'.shutdown = "state" => Method(tpm')
  BY <1>1, <1>3 DEF IInv, Measured
<1>7. ~rebuilt' /\ tpm'.shutdown = "state" => Keeps(tpm.pcr)'
  BY <1>1 DEF IInv, Resumable, Keeps
<1> QED
  BY <1>1, <1>2, <1>4, <1>5, <1>6, <1>7, RegistersWritten

\* TpmState::load finds every bank that TPM2_Shutdown saved.
LEMMA CrashRegisters ==
  ASSUME IInv, ~powered', tpm' = Load(file),
         UNCHANGED <<file, at_shutdown, orphan, rebuilt>>
  PROVE  Registers'
<1>1. /\ tpm'.started = FALSE /\ tpm'.shutdown = file.shutdown
      /\ tpm'.allocation = file.allocation /\ tpm'.hcrtm = FALSE
      /\ tpm'.hcrtm_last = file.hcrtm_last /\ tpm'.locality = file.locality
      /\ tpm'.pcr = [a \in Banks(file.allocation) |->
                       IF a \in DOMAIN file.pcr THEN file.pcr[a] ELSE FreshBank]
  BY DEF Load
<1>2. file.shutdown = "state" =>
        /\ DOMAIN tpm'.pcr = DOMAIN file.pcr
        /\ \A a \in DOMAIN file.pcr : tpm'.pcr[a] = file.pcr[a]
  BY <1>1 DEF IInv, Allocated, Matches
<1>3. tpm'.shutdown = "state" => Matches(tpm')
  BY <1>1 DEF Matches
<1>4. ~orphan' /\ ~rebuilt' /\ tpm'.shutdown = "state" => Method(tpm')
  BY <1>1, <1>2 DEF IInv, Measured, Method, Pcr0Is
<1>5. ~rebuilt' /\ tpm'.shutdown = "state" => Keeps(tpm.pcr)'
  BY <1>1, <1>2 DEF IInv, Resumable, Keeps
<1> QED
  BY <1>1, <1>3, <1>4, <1>5, RegistersWritten

-----------------------------------------------------------------------------
(* The actions.                                                            *)

LEMMA Together ==
  ASSUME TypeOK', Times', Registers'
  PROVE  IInv'
BY DEF IInv, Times, Registers

\* The memory has its type, and what is written is the memory.
LEMMA Types ==
  ASSUME IInv, powered' \in BOOLEAN, tpm' \in Memory,
         file' = file \/ file' = Saved(tpm'),
         reported' \in Nat, boot' \in Nat, identities' \subseteq Nat \X Nat \X Nat,
         orphan' \in BOOLEAN, rebuilt' \in BOOLEAN, undone' \in BOOLEAN, bounds' = bounds
  PROVE  TypeOK'
<1>1. Memory' = Memory /\ Record' = Record
  BY SameTypes
<1>2. file' \in Record
  BY SavedType DEF IInv, TypeOK
<1>3. bounds' \in Bounds
  BY DEF IInv, TypeOK
<1> QED
  BY <1>1, <1>2, <1>3 DEF TypeOK

LEMMA StepsAre ==
  ASSUME NEW e \in Steps
  PROVE  e \in Nat
BY LifecycleAssumption DEF Steps, LifecycleAssumption

LEMMA FinishIs ==
  ASSUME IInv, NEW t \in Memory, NEW e \in Nat, NEW w \in BOOLEAN, Finish(t, e, w)
  PROVE  /\ powered /\ powered' = powered /\ powered' \in BOOLEAN
         /\ tpm' = t /\ Written(e)
         /\ file' = file \/ file' = Saved(tpm')
         /\ w \/ Rolled(tpm, e) => file' = Saved(tpm')
BY DEF Finish, Written, IInv, TypeOK

LEMMA OtherCommandKeeps ==
  ASSUME IInv, NEW e \in Nat, NEW w \in BOOLEAN, OtherCommand(e, w)
  PROVE  IInv'
<1> DEFINE t == Undo(Credited(e))
<1>1. /\ t \in Memory /\ Timed(t, e) /\ Banked(t)
      /\ t.shutdown = IF tpm.started THEN "none" ELSE tpm.shutdown
  BY UndoIs DEF IInv, TypeOK
<1>2. Finish(t, e, w) /\ UNCHANGED history
  BY DEF OtherCommand
<1> HIDE DEF t
<1>3. /\ powered' = powered /\ powered' \in BOOLEAN /\ tpm' = t /\ Written(e)
      /\ file' = file \/ file' = Saved(tpm')
  BY <1>1, <1>2, FinishIs
<1>4. UNCHANGED <<reported, boot, identities, at_shutdown, orphan, rebuilt, undone, bounds>>
  BY <1>2 DEF history
<1>5. TypeOK'
  BY <1>1, <1>3, <1>4, Types DEF IInv, TypeOK
<1>6. Timed(tpm', e) /\ Banked(tpm') /\ tpm'.shutdown \in {tpm.shutdown, "none"}
  BY <1>1, <1>3
<1>7. Times'
  BY <1>3, <1>4, <1>6, TimePasses
<1>8. tpm'.started = tpm.started
  BY <1>6 DEF Timed
<1>9. Registers'
  BY <1>3, <1>4, <1>6, <1>8, SameRegisters
<1> QED
  BY <1>5, <1>7, <1>9, Together

LEMMA ReportKeeps ==
  ASSUME IInv, NEW e \in Nat, Report(e)
  PROVE  IInv'
<1> DEFINE t == Undo(Credited(e))
<1>1. /\ t \in Memory /\ Timed(t, e) /\ Banked(t) /\ tpm.started
      /\ t.shutdown = "none"
  BY UndoIs DEF IInv, TypeOK, Report
<1>2. Finish(t, e, FALSE)
  BY DEF Report
<1>3. /\ reported' = IF t.clock > reported THEN t.clock ELSE reported
      /\ identities' = identities \cup {<<t.resets, t.restarts, boot>>}
      /\ UNCHANGED <<boot, at_shutdown, orphan, rebuilt, undone, bounds>>
  BY DEF Report
<1> HIDE DEF t
<1>4. /\ powered' = powered /\ powered' \in BOOLEAN /\ tpm' = t
      /\ file' = file \/ file' = Saved(tpm')
      /\ Rolled(tpm, e) => file' = Saved(tpm')
  BY <1>1, <1>2, FinishIs
<1>5. t.clock \in Nat /\ t.resets \in Nat /\ t.restarts \in Nat
  BY <1>1 DEF Memory
<1>6. reported' \in Nat /\ identities' \subseteq Nat \X Nat \X Nat
  BY <1>3, <1>5 DEF IInv, TypeOK
<1>7. TypeOK'
  BY <1>1, <1>3, <1>4, <1>6, Types DEF IInv, TypeOK
<1>8. Times'
  BY <1>1, <1>3, <1>4, ReportTimes
<1>9. tpm'.started = tpm.started
  BY <1>1, <1>4 DEF Timed
<1>10. Registers'
  BY <1>1, <1>3, <1>4, <1>9, SameRegisters
<1> QED
  BY <1>7, <1>8, <1>10, Together

\* Banks of registers that a command writes.
LEMMA PcrSetsWritten ==
  ASSUME NEW p \in PcrSets, NEW q, DOMAIN q = DOMAIN p, q \in [DOMAIN p -> Bank]
  PROVE  q \in PcrSets
BY PcrSetsAre

LEMMA FillIs ==
  ASSUME NEW i
  PROVE  Fill(i) \in Int
BY DEF Fill, Ones

LEMMA ResetType ==
  ASSUME NEW b \in Bank, NEW keep, NEW locality \in Nat
  PROVE  ResetAllBut(b, keep, locality) \in Bank
<1>1. ASSUME NEW i \in Pcrs
      PROVE  (IF i \in keep THEN b[i]
              ELSE IF i = HCRTM_PCR THEN <<locality, 0>> ELSE <<Fill(i), 0>>) \in Int \X Int
  <2>1. b[i] \in Int \X Int
    BY DEF Bank
  <2>2. <<Fill(i), 0>> \in Int \X Int
    BY FillIs
  <2>3. <<locality, 0>> \in Int \X Int
    OBVIOUS
  <2> QED
    BY <2>1, <2>2, <2>3
<1> QED
  BY <1>1 DEF ResetAllBut, Bank

LEMMA ResumeType ==
  ASSUME NEW b \in Bank
  PROVE  OnResume(b) \in Bank
<1>1. ASSUME NEW i \in Pcrs
      PROVE  (IF IsSaved(i) THEN b[i] ELSE <<Fill(i), 0>>) \in Int \X Int
  <2>1. b[i] \in Int \X Int
    BY DEF Bank
  <2>2. <<Fill(i), 0>> \in Int \X Int
    BY FillIs
  <2> QED
    BY <2>1, <2>2
<1> QED
  BY <1>1 DEF OnResume, Bank

LEMMA FreshType == FreshBank \in Bank
<1>1. \A i \in Pcrs : <<Fill(i), 0>> \in Int \X Int
  BY FillIs
<1> QED
  BY <1>1 DEF FreshBank, Bank

LEMMA StartupClearKeeps ==
  ASSUME IInv, NEW locality \in Nat, NEW e \in Nat, StartupClear(locality, e)
  PROVE  IInv'
<1> DEFINE c == Credited(e)
           keep == IF c.hcrtm THEN {HCRTM_PCR} ELSE {}
           p == [a \in DOMAIN c.pcr |-> ResetAllBut(c.pcr[a], keep, locality)]
           resets == IF c.shutdown = "state" THEN c.resets ELSE c.resets + 1
           restarts == IF c.shutdown = "state" THEN c.restarts + 1 ELSE 0
           ever == c.ever_started \/ c.resets > 0 \/ c.restarts > 0
           safe == c.safe /\ ~(c.shutdown = "none" /\ ever)
           t == OnStartupClear(c, locality)
<1>1. c \in Memory /\ Timed(c, e) /\ Banked(c) /\ c.shutdown = tpm.shutdown
  BY CreditedIs DEF IInv, TypeOK
<1>2. Finish(t, e, TRUE) /\ ~tpm.started
  BY DEF StartupClear
<1>3. /\ boot' = boot + 1 /\ orphan' = FALSE /\ rebuilt' = FALSE
      /\ UNCHANGED <<reported, identities, undone, bounds>>
  BY DEF StartupClear
<1> HIDE DEF c
<1>4. p \in PcrSets
  <2>1. c.pcr \in PcrSets /\ c.pcr \in [DOMAIN c.pcr -> Bank]
    BY <1>1, PcrSetsAre DEF Memory
  <2>2. \A a \in DOMAIN c.pcr : ResetAllBut(c.pcr[a], keep, locality) \in Bank
    BY <2>1, ResetType
  <2> QED
    BY <2>1, <2>2, PcrSetsWritten
<1>5. resets \in Nat /\ restarts \in Nat /\ safe \in BOOLEAN
  BY <1>1 DEF Memory
<1>6. t = Begin([c EXCEPT !.pcr = p, !.hcrtm_last = c.hcrtm, !.locality = locality,
                          !.hcrtm = FALSE, !.resets = resets, !.restarts = restarts,
                          !.elapsed = 0, !.safe = safe],
                c.shutdown # "none")
  BY <1>1 DEF OnStartupClear, Memory
<1> DEFINE m == [c EXCEPT !.pcr = p, !.hcrtm_last = c.hcrtm, !.locality = locality,
                          !.hcrtm = FALSE, !.resets = resets, !.restarts = restarts,
                          !.elapsed = 0, !.safe = safe]
<1> HIDE DEF t, p, resets, restarts, safe
<1>7. /\ m \in Memory
      /\ m.clock = c.clock /\ m.elapsed = 0 /\ m.safe = safe /\ m.pcr = p
      /\ m.resets = resets /\ m.restarts = restarts /\ m.allocation = c.allocation
      /\ m.hcrtm = FALSE /\ m.hcrtm_last = c.hcrtm /\ m.locality = locality
  BY <1>1, <1>4, <1>5 DEF Memory
<1> HIDE DEF m
<1>8. /\ t \in Memory
      /\ t.clock = c.clock /\ t.elapsed = 0 /\ t.safe = safe /\ t.pcr = p
      /\ t.resets = resets /\ t.restarts = restarts /\ t.allocation = c.allocation
      /\ t.hcrtm = FALSE /\ t.hcrtm_last = c.hcrtm /\ t.locality = locality
      /\ t.started = TRUE /\ t.ever_started = TRUE /\ t.pending = FALSE
      /\ t.shutdown = "none"
  <2>1. t = Begin(m, c.shutdown # "none")
    BY <1>6 DEF m
  <2>2. "none" \in Shutdowns /\ (c.shutdown # "none") \in BOOLEAN
    BY DEF Shutdowns
  <2> QED
    BY <1>7, <2>1, <2>2 DEF Begin, Memory
<1>9. /\ powered /\ powered' = powered /\ powered' \in BOOLEAN /\ tpm' = t
      /\ file' = Saved(tpm')
  BY <1>2, <1>8, FinishIs
<1>10. TypeOK'
  <2>1. boot' \in Nat /\ reported' \in Nat /\ identities' \subseteq Nat \X Nat \X Nat
    BY <1>3 DEF IInv, TypeOK
  <2>2. orphan' \in BOOLEAN /\ rebuilt' \in BOOLEAN /\ undone' \in BOOLEAN
    BY <1>3 DEF IInv, TypeOK
  <2> QED
    BY <1>3, <1>8, <1>9, <2>1, <2>2, Types
<1>11. Times'
  <2>1. tpm'.safe => c.safe /\ (tpm.shutdown = "none" => ~tpm.ever_started)
    BY <1>1, <1>8, <1>9 DEF safe, Timed
  <2>2. \/ tpm'.resets = tpm.resets + 1
        \/ /\ tpm.shutdown # "none"
           /\ tpm'.resets = tpm.resets /\ tpm'.restarts = tpm.restarts + 1
    BY <1>1, <1>8, <1>9 DEF resets, restarts, Timed
  <2> QED
    BY <1>1, <1>2, <1>3, <1>8, <1>9, <2>1, <2>2, StartupTimes
<1>12. Registers'
  <2>1. /\ c.hcrtm = tpm.hcrtm /\ c.pcr = tpm.pcr /\ c.allocation = tpm.allocation
    BY <1>1 DEF Banked
  <2>2. tpm'.pcr = [a \in DOMAIN tpm.pcr |->
                     ResetAllBut(tpm.pcr[a], IF tpm.hcrtm THEN {HCRTM_PCR} ELSE {}, locality)]
    BY <1>8, <1>9, <2>1 DEF p
  <2> QED
    BY <1>2, <1>3, <1>8, <1>9, <2>1, <2>2, StartupClearRegisters
<1> QED
  BY <1>10, <1>11, <1>12, Together

LEMMA StartupStateKeeps ==
  ASSUME IInv, NEW locality \in Nat, NEW e \in Nat, StartupState(locality, e)
  PROVE  IInv'
<1> DEFINE c == Credited(e)
           p == [a \in DOMAIN c.pcr |-> OnResume(c.pcr[a])]
           t == OnStartupState(c)
<1>1. c \in Memory /\ Timed(c, e) /\ Banked(c) /\ c.shutdown = tpm.shutdown
  BY CreditedIs DEF IInv, TypeOK
<1>2. Finish(t, e, TRUE) /\ ~tpm.started
  BY DEF StartupState
<1>3. /\ boot' = boot + 1 /\ orphan' = (orphan /\ ~tpm.hcrtm)
      /\ UNCHANGED <<reported, identities, rebuilt, undone, bounds>>
  BY DEF StartupState
<1>4. tpm.shutdown = "state" /\ tpm.hcrtm = tpm.hcrtm_last
  BY DEF StartupState, MayResume
<1> HIDE DEF c
<1>5. p \in PcrSets
  <2>1. c.pcr \in PcrSets /\ c.pcr \in [DOMAIN c.pcr -> Bank]
    BY <1>1, PcrSetsAre DEF Memory
  <2>2. \A a \in DOMAIN c.pcr : OnResume(c.pcr[a]) \in Bank
    BY <2>1, ResumeType
  <2> QED
    BY <2>1, <2>2, PcrSetsWritten
<1> DEFINE m == [c EXCEPT !.hcrtm = FALSE, !.pcr = p, !.restarts = @ + 1]
<1>6. t = Begin(m, TRUE)
  BY DEF OnStartupState
<1> HIDE DEF t, p
<1>7. /\ m \in Memory
      /\ m.clock = c.clock /\ m.elapsed = c.elapsed /\ m.safe = c.safe /\ m.pcr = p
      /\ m.resets = c.resets /\ m.restarts = c.restarts + 1
      /\ m.allocation = c.allocation
      /\ m.hcrtm = FALSE /\ m.hcrtm_last = c.hcrtm_last /\ m.locality = c.locality
  <2>1. c.restarts + 1 \in Nat
    BY <1>1 DEF Memory
  <2> QED
    BY <1>1, <1>5, <2>1 DEF Memory
<1> HIDE DEF m
<1>8. /\ t \in Memory
      /\ t.clock = c.clock /\ t.elapsed = c.elapsed /\ t.safe = c.safe /\ t.pcr = p
      /\ t.resets = c.resets /\ t.restarts = c.restarts + 1
      /\ t.allocation = c.allocation
      /\ t.hcrtm = FALSE /\ t.hcrtm_last = c.hcrtm_last /\ t.locality = c.locality
      /\ t.started = TRUE /\ t.ever_started = TRUE /\ t.pending = FALSE
      /\ t.shutdown = "none"
  <2>1. "none" \in Shutdowns
    BY DEF Shutdowns
  <2> QED
    BY <1>6, <1>7, <2>1 DEF Begin, Memory
<1>9. /\ powered /\ powered' = powered /\ powered' \in BOOLEAN /\ tpm' = t
      /\ file' = Saved(tpm')
  BY <1>2, <1>8, FinishIs
<1>10. TypeOK'
  <2>1. boot' \in Nat /\ reported' \in Nat /\ identities' \subseteq Nat \X Nat \X Nat
    BY <1>3 DEF IInv, TypeOK
  <2>2. rebuilt' \in BOOLEAN /\ undone' \in BOOLEAN
    BY <1>3 DEF IInv, TypeOK
  <2>3. orphan' \in BOOLEAN
    BY <1>3
  <2> QED
    BY <1>3, <1>8, <1>9, <2>1, <2>2, <2>3, Types
<1>11. Times'
  <2>1. tpm'.safe => c.safe /\ (tpm.shutdown = "none" => ~tpm.ever_started)
    BY <1>4, <1>8, <1>9
  <2>2. /\ tpm.shutdown # "none"
        /\ tpm'.resets = tpm.resets /\ tpm'.restarts = tpm.restarts + 1
    BY <1>1, <1>4, <1>8, <1>9 DEF Timed
  <2> QED
    BY <1>1, <1>2, <1>3, <1>8, <1>9, <2>1, <2>2, StartupTimes
<1>12. Registers'
  <2>1. /\ c.hcrtm_last = tpm.hcrtm_last /\ c.pcr = tpm.pcr
        /\ c.allocation = tpm.allocation /\ c.locality = tpm.locality
    BY <1>1 DEF Banked
  <2>2. tpm'.pcr = [a \in DOMAIN tpm.pcr |-> OnResume(tpm.pcr[a])]
    BY <1>8, <1>9, <2>1 DEF p
  <2> QED
    BY <1>2, <1>3, <1>4, <1>8, <1>9, <2>1, <2>2, StartupStateRegisters
<1> QED
  BY <1>10, <1>11, <1>12, Together

LEMMA ShutdownKeeps ==
  ASSUME IInv, NEW type \in {"clear", "state"}, NEW e \in Nat, Shutdown(type, e)
  PROVE  IInv'
<1> DEFINE c == Credited(e)
           t == [c EXCEPT !.shutdown = type, !.orderly = TRUE]
<1>1. c \in Memory /\ Timed(c, e) /\ Banked(c)
  BY CreditedIs DEF IInv, TypeOK
<1>2. Finish(t, e, TRUE) /\ tpm.started /\ (type = "state" => ~tpm.pending)
  BY DEF Shutdown
<1>3. /\ at_shutdown' = IF type = "state" THEN SavedPcrs(tpm.pcr) ELSE <<>>
      /\ UNCHANGED <<reported, boot, identities, orphan, rebuilt, undone, bounds>>
  BY DEF Shutdown
<1> HIDE DEF c
<1>4. t \in Memory /\ t.shutdown = type
  <2>1. type \in Shutdowns
    BY DEF Shutdowns
  <2> QED
    BY <1>1, <2>1 DEF Memory
<1>5. Timed(t, e) /\ Banked(t)
  BY <1>1 DEF Memory, Timed, Banked
<1> HIDE DEF t
<1>6. /\ powered /\ powered' = powered /\ powered' \in BOOLEAN /\ tpm' = t
      /\ file' = Saved(tpm')
  BY <1>2, <1>4, FinishIs
<1>7. TypeOK'
  BY <1>3, <1>4, <1>6, Types DEF IInv, TypeOK
<1>8. Times'
  BY <1>2, <1>3, <1>5, <1>6, ShutdownTimes
<1>9. Registers'
  <2>1. tpm'.started
    BY <1>2, <1>5, <1>6 DEF Timed
  <2> QED
    BY <1>2, <1>3, <1>4, <1>5, <1>6, <2>1, ShutdownRegisters
<1> QED
  BY <1>7, <1>8, <1>9, Together

LEMMA ClearKeeps ==
  ASSUME IInv, NEW e \in Nat, Clear(e)
  PROVE  IInv'
<1> DEFINE c == Undo(Credited(e))
           t == [c EXCEPT !.clock = 0, !.elapsed = 0, !.resets = 0, !.restarts = 0,
                          !.safe = TRUE]
<1>1. c \in Memory /\ Timed(c, e) /\ Banked(c) /\ c.shutdown = "none" /\ tpm.started
  BY UndoIs DEF IInv, TypeOK, Clear
<1>2. Finish(t, e, TRUE)
  BY DEF Clear
<1>3. /\ reported' = 0 /\ identities' = {}
      /\ UNCHANGED <<boot, at_shutdown, orphan, rebuilt, undone, bounds>>
  BY DEF Clear
<1> HIDE DEF c
<1>4. /\ t \in Memory /\ Banked(t)
      /\ t.clock = 0 /\ t.elapsed = 0 /\ t.resets = 0 /\ t.restarts = 0
      /\ t.shutdown = "none"
      /\ t.started = tpm.started /\ t.ever_started = tpm.ever_started
  BY <1>1 DEF Memory, Timed, Banked
<1> HIDE DEF t
<1>5. /\ powered /\ powered' = powered /\ powered' \in BOOLEAN /\ tpm' = t
      /\ file' = Saved(tpm')
  BY <1>2, <1>4, FinishIs
<1>6. TypeOK'
  BY <1>3, <1>4, <1>5, Types DEF IInv, TypeOK
<1>7. Times'
  BY <1>1, <1>3, <1>4, <1>5, ClearTimes
<1>8. Registers'
  BY <1>3, <1>4, <1>5, SameRegisters
<1> QED
  BY <1>6, <1>7, <1>8, Together

LEMMA ClockSetKeeps ==
  ASSUME IInv, NEW new \in Nat, NEW e \in Nat, ClockSet(new, e)
  PROVE  IInv'
<1> DEFINE c == Undo(Credited(e))
           jump == new - c.clock
           over == c.elapsed + jump >= Interval
           t == [c EXCEPT !.clock = new, !.elapsed = IF over THEN 0 ELSE @ + jump,
                          !.safe = @ \/ over]
<1>1. c \in Memory /\ Timed(c, e) /\ Banked(c) /\ c.shutdown = "none" /\ tpm.started
  BY UndoIs DEF IInv, TypeOK, ClockSet
<1>2. Finish(t, e, TRUE) /\ new >= c.clock /\ UNCHANGED history
  BY DEF ClockSet
<1>3. UNCHANGED <<reported, boot, identities, at_shutdown, orphan, rebuilt, undone, bounds>>
  BY <1>2 DEF history
<1> HIDE DEF c
<1>4. /\ t \in Memory /\ Banked(t)
      /\ t.clock = new /\ t.elapsed = IF over THEN 0 ELSE c.elapsed + jump
      /\ t.safe = (c.safe \/ over) /\ t.resets = tpm.resets /\ t.restarts = tpm.restarts
      /\ t.shutdown = "none"
      /\ t.started = tpm.started /\ t.ever_started = tpm.ever_started
  <2>1. (IF over THEN 0 ELSE c.elapsed + jump) \in Nat
    BY <1>1, <1>2 DEF Memory
  <2>2. (c.safe \/ over) \in BOOLEAN
    OBVIOUS
  <2>3. t = [c EXCEPT !.clock = new, !.elapsed = IF over THEN 0 ELSE c.elapsed + jump,
                      !.safe = c.safe \/ over]
    BY <1>1 DEF Memory
  <2> HIDE DEF t, jump, over
  <2>4. t \in Memory
    BY <1>1, <2>1, <2>2, <2>3 DEF Memory
  <2> QED
    BY <1>1, <2>3, <2>4 DEF Memory, Timed, Banked
<1> HIDE DEF t
<1>5. /\ powered /\ powered' = powered /\ powered' \in BOOLEAN /\ tpm' = t
      /\ file' = Saved(tpm')
  BY <1>2, <1>4, FinishIs
<1>6. TypeOK'
  BY <1>3, <1>4, <1>5, Types DEF IInv, TypeOK
<1>7. Times'
  BY <1>1, <1>2, <1>3, <1>4, <1>5, ClockSetTimes
<1>8. Registers'
  BY <1>3, <1>4, <1>5, SameRegisters
<1> QED
  BY <1>6, <1>7, <1>8, Together

\* A PCR command of a TPM that is started: it takes a shutdown back, and the
\* allocation that it changes is pending.
LEMMA PcrCommandKeeps ==
  ASSUME IInv, NEW e \in Nat, tpm.started, NEW t \in Memory, Finish(t, e, TRUE),
         UNCHANGED history, Timed(t, e), t.shutdown = "none",
         DOMAIN t.pcr = DOMAIN tpm.pcr,
         \A a \in DOMAIN tpm.pcr : t.pcr[a][HCRTM_PCR][1] = tpm.pcr[a][HCRTM_PCR][1],
         \/ t.pending
         \/ t.pending = tpm.pending /\ t.allocation = tpm.allocation,
         t.hcrtm = tpm.hcrtm, t.hcrtm_last = tpm.hcrtm_last, t.locality = tpm.locality
  PROVE  IInv'
<1>1. /\ powered' = powered /\ powered' \in BOOLEAN /\ tpm' = t /\ Written(e)
      /\ file' = Saved(tpm')
  BY FinishIs
<1>2. UNCHANGED <<reported, boot, identities, at_shutdown, orphan, rebuilt, undone, bounds>>
  BY DEF history
<1>3. TypeOK'
  BY <1>1, <1>2, Types DEF IInv, TypeOK
<1>4. Times'
  BY <1>1, <1>2, TimePasses
<1>5. tpm'.started
  BY <1>1 DEF Timed
<1>6. Registers'
  BY <1>1, <1>2, <1>5, StartedRegisters
<1> QED
  BY <1>3, <1>4, <1>6, Together

\* A register is extended, and begins as it did.
LEMMA ExtendedIs ==
  ASSUME NEW b \in Bank, NEW i \in Pcrs
  PROVE  LET x == [b EXCEPT ![i] = Extended(@)] IN
         x \in Bank /\ x[HCRTM_PCR][1] = b[HCRTM_PCR][1]
<1>1. b[i] \in Int \X Int
  BY DEF Bank
<1>2. Extended(b[i]) \in Int \X Int /\ Extended(b[i])[1] = b[i][1]
  BY <1>1 DEF Extended
<1> HIDE DEF Extended
<1> DEFINE x == [b EXCEPT ![i] = Extended(b[i])]
<1>3. x \in Bank
  BY <1>2 DEF Bank
<1>4. HCRTM_PCR \in Pcrs
  BY DEF Pcrs
<1>5. x[HCRTM_PCR][1] = b[HCRTM_PCR][1]
  BY <1>2, <1>4 DEF Bank
<1> QED
  BY <1>3, <1>5

LEMMA PcrExtendKeeps ==
  ASSUME IInv, NEW i \in Pcrs, NEW S, NEW e \in Nat, PcrExtend(i, S, e)
  PROVE  IInv'
<1> DEFINE c == Undo(Credited(e))
           p == [a \in DOMAIN c.pcr |->
                   IF a \in S \cap DOMAIN c.pcr THEN [c.pcr[a] EXCEPT ![i] = Extended(@)]
                   ELSE c.pcr[a]]
           t == [c EXCEPT !.pcr = p]
<1>1. c \in Memory /\ Timed(c, e) /\ Banked(c) /\ c.shutdown = "none" /\ tpm.started
  BY UndoIs DEF IInv, TypeOK, PcrExtend
<1>2. Finish(t, e, TRUE) /\ UNCHANGED history
  BY DEF PcrExtend
<1> HIDE DEF c
<1>3. c.pcr = tpm.pcr /\ c.pcr \in PcrSets /\ c.pcr \in [DOMAIN c.pcr -> Bank]
  BY <1>1, PcrSetsAre DEF Memory, Banked
<1>4. \A a \in DOMAIN c.pcr : p[a] \in Bank /\ p[a][HCRTM_PCR][1] = c.pcr[a][HCRTM_PCR][1]
  BY <1>3, ExtendedIs
<1>5. DOMAIN p = DOMAIN c.pcr /\ p \in [DOMAIN c.pcr -> Bank]
  BY <1>4
<1> HIDE DEF p
<1>6. p \in PcrSets
  BY <1>3, <1>5, PcrSetsWritten
<1>7. t \in Memory /\ Timed(t, e) /\ t.shutdown = "none" /\ t.pcr = p
  BY <1>1, <1>6 DEF Memory, Timed
<1>8. /\ t.pending = tpm.pending /\ t.allocation = tpm.allocation /\ t.hcrtm = tpm.hcrtm
      /\ t.hcrtm_last = tpm.hcrtm_last /\ t.locality = tpm.locality
  BY <1>1 DEF Memory, Banked
<1> HIDE DEF t
<1> QED
  BY <1>1, <1>2, <1>3, <1>4, <1>5, <1>7, <1>8, PcrCommandKeeps

LEMMA PcrResetKeeps ==
  ASSUME IInv, NEW i \in Pcrs, NEW e \in Nat, PcrReset(i, e)
  PROVE  IInv'
<1> DEFINE c == Undo(Credited(e))
           p == [a \in DOMAIN c.pcr |-> [c.pcr[a] EXCEPT ![i] = <<0, 0>>]]
           t == [c EXCEPT !.pcr = p]
<1>1. c \in Memory /\ Timed(c, e) /\ Banked(c) /\ c.shutdown = "none" /\ tpm.started
  BY UndoIs DEF IInv, TypeOK, PcrReset
<1>2. Finish(t, e, TRUE) /\ UNCHANGED history /\ i # HCRTM_PCR
  <2>1. Finish(t, e, TRUE) /\ UNCHANGED history
    BY DEF PcrReset
  <2>2. i # HCRTM_PCR
    BY DEF PcrReset, Resettable, HCRTM_PCR
  <2> QED
    BY <2>1, <2>2
<1> HIDE DEF c
<1>3. c.pcr = tpm.pcr /\ c.pcr \in PcrSets /\ c.pcr \in [DOMAIN c.pcr -> Bank]
  BY <1>1, PcrSetsAre DEF Memory, Banked
<1>4. <<0, 0>> \in Int \X Int /\ HCRTM_PCR \in Pcrs
  BY DEF Pcrs
<1>5. \A a \in DOMAIN c.pcr : p[a] \in Bank /\ p[a][HCRTM_PCR] = c.pcr[a][HCRTM_PCR]
  BY <1>2, <1>3, <1>4 DEF Bank
<1>6. DOMAIN p = DOMAIN c.pcr /\ p \in [DOMAIN c.pcr -> Bank]
  BY <1>5
<1> HIDE DEF p
<1>7. p \in PcrSets
  BY <1>3, <1>6, PcrSetsWritten
<1>8. t \in Memory /\ Timed(t, e) /\ t.shutdown = "none" /\ t.pcr = p
  BY <1>1, <1>7 DEF Memory, Timed
<1>9. /\ t.pending = tpm.pending /\ t.allocation = tpm.allocation /\ t.hcrtm = tpm.hcrtm
      /\ t.hcrtm_last = tpm.hcrtm_last /\ t.locality = tpm.locality
  BY <1>1 DEF Memory, Banked
<1> HIDE DEF t
<1> QED
  BY <1>1, <1>2, <1>3, <1>5, <1>6, <1>8, <1>9, PcrCommandKeeps

\* An allocation is of banks that are implemented, with one of them less.
LEMMA WithoutIs ==
  ASSUME NEW S, NEW s \in Seq(S), NEW a
  PROVE  Without(s, a) \in Seq(S)
<1>1. CASE a \in Banks(s)
  <2> DEFINE k == CHOOSE j \in DOMAIN s : s[j] = a
  <2>1. k \in DOMAIN s
    BY <1>1 DEF Banks
  <2> HIDE DEF k
  <2>2. k \in 1 .. Len(s) /\ Len(s) \in Nat
    BY <2>1
  <2>3. SubSeq(s, 1, k - 1) \in Seq(S)
    BY <2>2
  <2>4. SubSeq(s, k + 1, Len(s)) \in Seq(S)
    BY <2>2
  <2>5. Without(s, a) = SubSeq(s, 1, k - 1) \o SubSeq(s, k + 1, Len(s))
    BY <1>1 DEF Without, k
  <2> QED
    BY <2>3, <2>4, <2>5
<1>2. CASE a \notin Banks(s)
  BY <1>2 DEF Without
<1> QED
  BY <1>1, <1>2

LEMMA PcrAllocateKeeps ==
  ASSUME IInv, NEW a \in Algs, NEW selected \in BOOLEAN, NEW e \in Nat,
         PcrAllocate(a, selected, e)
  PROVE  IInv'
<1> DEFINE c == Undo(Credited(e))
           rest == Without(c.allocation, a)
           new == IF selected THEN Append(rest, a) ELSE rest
           t == [c EXCEPT !.allocation = new, !.pending = TRUE]
<1>1. c \in Memory /\ Timed(c, e) /\ Banked(c) /\ c.shutdown = "none" /\ tpm.started
  BY UndoIs DEF IInv, TypeOK, PcrAllocate
<1>2. Finish(t, e, TRUE) /\ UNCHANGED history
  BY DEF PcrAllocate
<1> HIDE DEF c
<1>3. new \in Seq(Algs)
  <2>1. rest \in Seq(Algs)
    BY <1>1, WithoutIs DEF Memory
  <2> HIDE DEF rest
  <2>2. Append(rest, a) \in Seq(Algs)
    BY <2>1
  <2> QED
    BY <2>1, <2>2
<1> HIDE DEF new
<1>4. t \in Memory /\ Timed(t, e) /\ t.shutdown = "none" /\ t.pending
  BY <1>1, <1>3 DEF Memory, Timed
<1>5. /\ t.pcr = tpm.pcr /\ t.hcrtm = tpm.hcrtm
      /\ t.hcrtm_last = tpm.hcrtm_last /\ t.locality = tpm.locality
  BY <1>1 DEF Memory, Banked
<1> HIDE DEF t
<1> QED
  BY <1>1, <1>2, <1>4, <1>5, PcrCommandKeeps

LEMMA ActGetSignaledKeeps ==
  ASSUME IInv, NEW e \in Nat, ActGetSignaled(e)
  PROVE  IInv'
<1> DEFINE t == AdvanceTime(tpm, e)
<1>1. /\ tpm' = t /\ powered' = powered
      /\ file' = IF Rolled(tpm, e) THEN Saved(t) ELSE file
      /\ UNCHANGED <<reported, boot, identities, at_shutdown, orphan, rebuilt, undone, bounds>>
  BY DEF ActGetSignaled, history
<1>2. t \in Memory /\ Timed(t, e) /\ Banked(t) /\ t.shutdown = tpm.shutdown
  <2>1. tpm \in Memory /\ tpm.sequence \in BOOLEAN /\ tpm = [tpm EXCEPT !.sequence = tpm.sequence]
    BY DEF IInv, TypeOK, Memory
  <2> QED
    BY <2>1, AdvanceTimeIs
<1> HIDE DEF t
<1>3. Written(e) /\ (file' = file \/ file' = Saved(tpm'))
  BY <1>1 DEF Written
<1>4. TypeOK'
  BY <1>1, <1>2, <1>3, Types DEF IInv, TypeOK
<1>5. Times'
  BY <1>1, <1>2, <1>3, TimePasses
<1>6. tpm'.started = tpm.started
  BY <1>1, <1>2 DEF Timed
<1>7. Registers'
  BY <1>1, <1>2, <1>3, <1>6, SameRegisters
<1> QED
  BY <1>4, <1>5, <1>7, Together

LEMMA HashStartKeeps ==
  ASSUME IInv, HashStart
  PROVE  IInv'
<1>1. /\ tpm' = [tpm EXCEPT !.sequence = TRUE]
      /\ UNCHANGED <<powered, file, reported, boot, identities, at_shutdown,
                     orphan, rebuilt, undone, bounds>>
  BY DEF HashStart, history
<1>2. /\ tpm' \in Memory /\ Banked(tpm') /\ tpm'.started = tpm.started
      /\ tpm'.shutdown = tpm.shutdown /\ tpm'.ever_started = tpm.ever_started
      /\ tpm'.clock = tpm.clock /\ tpm'.elapsed = tpm.elapsed /\ tpm'.safe = tpm.safe
      /\ tpm'.resets = tpm.resets /\ tpm'.restarts = tpm.restarts
  BY <1>1 DEF IInv, TypeOK, Memory, Banked
<1>3. TypeOK'
  BY <1>1, <1>2, Types DEF IInv, TypeOK
<1>4. Times'
  BY <1>1, <1>2, SignalTimes
<1>5. Registers'
  BY <1>1, <1>2, SameRegisters
<1> QED
  BY <1>3, <1>4, <1>5, Together

\* The banks with one register set.
LEMMA SetIs ==
  ASSUME NEW p \in PcrSets, NEW i \in Pcrs, NEW v \in Int \X Int
  PROVE  LET q == [a \in DOMAIN p |-> [p[a] EXCEPT ![i] = v]] IN
         /\ q \in PcrSets
         /\ \A a \in DOMAIN p, j \in Pcrs : j # i => q[a][j] = p[a][j]
<1> DEFINE q == [a \in DOMAIN p |-> [p[a] EXCEPT ![i] = v]]
<1>1. p \in [DOMAIN p -> Bank]
  BY PcrSetsAre
<1>2. \A a \in DOMAIN p : q[a] \in Bank /\ \A j \in Pcrs : j # i => q[a][j] = p[a][j]
  BY <1>1 DEF Bank
<1>3. DOMAIN q = DOMAIN p /\ q \in [DOMAIN p -> Bank]
  BY <1>2
<1> HIDE DEF q
<1>4. q \in PcrSets
  BY <1>3, PcrSetsWritten
<1> QED
  BY <1>2, <1>4 DEF q

LEMMA HashEndStartedKeeps ==
  ASSUME IInv, HashEndStarted
  PROVE  IInv'
<1> DEFINE p == [a \in DOMAIN tpm.pcr |-> [tpm.pcr[a] EXCEPT ![DRTM_PCR] = <<0, 1>>]]
<1>1. /\ tpm.started
      /\ tpm' = [tpm EXCEPT !.sequence = FALSE, !.restarts = @ + 1, !.pcr = p]
      /\ boot' = boot + 1
      /\ UNCHANGED <<powered, file, reported, identities, at_shutdown,
                     orphan, rebuilt, undone, bounds>>
  BY DEF HashEndStarted
<1>2. /\ p \in PcrSets /\ DOMAIN p = DOMAIN tpm.pcr
      /\ \A a \in DOMAIN tpm.pcr, j \in Pcrs : j # DRTM_PCR => p[a][j] = tpm.pcr[a][j]
  <2>1. tpm.pcr \in PcrSets /\ DRTM_PCR \in Pcrs /\ <<0, 1>> \in Int \X Int
    BY DEF IInv, TypeOK, Memory, Pcrs
  <2> QED
    BY <2>1, SetIs
<1>3. tpm.restarts + 1 \in Nat
  BY DEF IInv, TypeOK, Memory
<1> HIDE DEF p
<1>4. /\ tpm' \in Memory /\ tpm'.pcr = p /\ tpm'.started = tpm.started
      /\ tpm'.shutdown = tpm.shutdown /\ tpm'.ever_started = tpm.ever_started
      /\ tpm'.clock = tpm.clock /\ tpm'.elapsed = tpm.elapsed /\ tpm'.safe = tpm.safe
      /\ tpm'.resets = tpm.resets /\ tpm'.restarts = tpm.restarts + 1
      /\ tpm'.allocation = tpm.allocation /\ tpm'.pending = tpm.pending
      /\ tpm'.hcrtm = tpm.hcrtm /\ tpm'.hcrtm_last = tpm.hcrtm_last
      /\ tpm'.locality = tpm.locality
  BY <1>1, <1>2, <1>3 DEF IInv, TypeOK, Memory
<1>5. TypeOK'
  <2>1. boot' \in Nat
    BY <1>1 DEF IInv, TypeOK
  <2> QED
    BY <1>1, <1>4, <2>1, Types DEF IInv, TypeOK
<1>6. Times'
  BY <1>1, <1>4, DrtmTimes
<1>7. Registers'
  <2>1. HCRTM_PCR \in Pcrs /\ HCRTM_PCR # DRTM_PCR /\ \A i \in Pcrs : IsSaved(i) => i # DRTM_PCR
    BY DEF Pcrs, HCRTM_PCR, DRTM_PCR, IsSaved
  <2>2. /\ \A a \in DOMAIN tpm.pcr : tpm'.pcr[a][HCRTM_PCR][1] = tpm.pcr[a][HCRTM_PCR][1]
        /\ \A a \in DOMAIN tpm.pcr, i \in Pcrs :
             IsSaved(i) => tpm'.pcr[a][i] = tpm.pcr[a][i]
    BY <1>2, <1>4, <2>1
  <2> QED
    BY <1>1, <1>2, <1>4, <2>2, StartedRegisters
<1> QED
  BY <1>5, <1>6, <1>7, Together

LEMMA HashEndUnstartedKeeps ==
  ASSUME IInv, HashEndUnstarted
  PROVE  IInv'
<1> DEFINE p == [a \in DOMAIN tpm.pcr |-> [tpm.pcr[a] EXCEPT ![HCRTM_PCR] = <<4, 1>>]]
<1>1. /\ ~tpm.started
      /\ tpm' = [tpm EXCEPT !.sequence = FALSE, !.hcrtm = TRUE, !.pcr = p]
      /\ orphan' = TRUE
      /\ UNCHANGED <<powered, file, reported, boot, identities, at_shutdown,
                     rebuilt, undone, bounds>>
  BY DEF HashEndUnstarted
<1>2. p \in PcrSets
  <2>1. tpm.pcr \in PcrSets /\ HCRTM_PCR \in Pcrs /\ <<4, 1>> \in Int \X Int
    BY DEF IInv, TypeOK, Memory, Pcrs
  <2> QED
    BY <2>1, SetIs
<1> HIDE DEF p
<1>3. /\ tpm' \in Memory /\ tpm'.pcr = p /\ tpm'.started = tpm.started
      /\ tpm'.shutdown = tpm.shutdown /\ tpm'.ever_started = tpm.ever_started
      /\ tpm'.clock = tpm.clock /\ tpm'.elapsed = tpm.elapsed /\ tpm'.safe = tpm.safe
      /\ tpm'.resets = tpm.resets /\ tpm'.restarts = tpm.restarts
      /\ tpm'.allocation = tpm.allocation /\ tpm'.pending = tpm.pending
      /\ tpm'.hcrtm = TRUE
  BY <1>1, <1>2 DEF IInv, TypeOK, Memory
<1>4. TypeOK'
  BY <1>1, <1>3, Types DEF IInv, TypeOK
<1>5. Times'
  BY <1>1, <1>3, SignalTimes
<1>6. Registers'
  <2>1. tpm'.pcr = [a \in DOMAIN tpm.pcr |-> [tpm.pcr[a] EXCEPT ![HCRTM_PCR] = <<4, 1>>]]
    BY <1>3 DEF p
  <2> QED
    BY <1>1, <1>3, <2>1, HashEndRegisters
<1> QED
  BY <1>4, <1>5, <1>6, Together

\* Banks that are built anew.
LEMMA FreshBanks ==
  ASSUME NEW s \in Seq(Algs)
  PROVE  /\ Banks(s) \subseteq Algs
         /\ [a \in Banks(s) |-> FreshBank] \in PcrSets
<1>1. Banks(s) \subseteq Algs
  BY DEF Banks
<1> DEFINE q == [a \in Banks(s) |-> FreshBank]
<1>2. DOMAIN q = Banks(s) /\ q \in [Banks(s) -> Bank]
  BY FreshType
<1> HIDE DEF q
<1>3. q \in PcrSets
  BY <1>1, <1>2, PcrSetsAre
<1> QED
  BY <1>1, <1>3 DEF q

LEMMA PowerOnKeeps ==
  ASSUME IInv, PowerOn
  PROVE  IInv'
<1> DEFINE t == [tpm EXCEPT !.started = FALSE]
           p == IF Rebuilds(t) THEN [a \in Banks(t.allocation) |-> FreshBank] ELSE t.pcr
<1>1. /\ tpm' = OnInit(t) /\ powered' = TRUE
      /\ rebuilt' = (rebuilt \/ Rebuilds(tpm))
      /\ UNCHANGED <<file, reported, boot, identities, at_shutdown, orphan, undone, bounds>>
  BY DEF PowerOn
<1>2. Registers'
  BY <1>1, PowerOnRegisters
<1>3. /\ t \in Memory /\ t.started = FALSE
      /\ t.shutdown = tpm.shutdown /\ t.ever_started = tpm.ever_started
      /\ t.clock = tpm.clock /\ t.elapsed = tpm.elapsed /\ t.safe = tpm.safe
      /\ t.resets = tpm.resets /\ t.restarts = tpm.restarts
  BY DEF IInv, TypeOK, Memory
<1> HIDE DEF t
<1>4. p \in PcrSets
  BY <1>3, FreshBanks DEF Memory
<1>5. tpm' = [t EXCEPT !.pcr = p, !.hcrtm = FALSE, !.sequence = FALSE, !.pending = FALSE]
  BY <1>1, <1>3 DEF OnInit, Memory
<1> HIDE DEF p
<1>6. /\ tpm' \in Memory /\ tpm'.started = FALSE
      /\ tpm'.shutdown = tpm.shutdown /\ tpm'.ever_started = tpm.ever_started
      /\ tpm'.clock = tpm.clock /\ tpm'.elapsed = tpm.elapsed /\ tpm'.safe = tpm.safe
      /\ tpm'.resets = tpm.resets /\ tpm'.restarts = tpm.restarts
  BY <1>3, <1>4, <1>5 DEF Memory
<1>7. TypeOK'
  <2>1. powered' \in BOOLEAN /\ rebuilt' \in BOOLEAN
    BY <1>1
  <2> QED
    BY <1>1, <1>6, <2>1, Types DEF IInv, TypeOK
<1>8. Times'
  BY <1>1, <1>6, SignalTimes
<1> QED
  BY <1>2, <1>7, <1>8, Together

LEMMA PowerOffKeeps ==
  ASSUME IInv, PowerOff
  PROVE  IInv'
<1>1. /\ tpm' = [tpm EXCEPT !.started = FALSE] /\ powered' = FALSE /\ file' = Saved(tpm)
      /\ UNCHANGED <<reported, boot, identities, at_shutdown, orphan, rebuilt, undone, bounds>>
  BY DEF PowerOff, history
<1>2. /\ tpm' \in Memory /\ tpm'.started = FALSE
      /\ tpm'.shutdown = tpm.shutdown /\ tpm'.ever_started = tpm.ever_started
      /\ tpm'.clock = tpm.clock /\ tpm'.elapsed = tpm.elapsed /\ tpm'.safe = tpm.safe
      /\ tpm'.resets = tpm.resets /\ tpm'.restarts = tpm.restarts
  BY <1>1 DEF IInv, TypeOK, Memory
<1>3. file' = Saved(tpm')
  BY <1>1 DEF IInv, TypeOK, Memory, Saved
<1>4. TypeOK'
  BY <1>1, <1>2, <1>3, Types DEF IInv, TypeOK
<1>5. Times'
  BY <1>1, <1>2, <1>3, SignalTimes
<1>6. Registers'
  BY <1>1, PowerOffRegisters
<1> QED
  BY <1>4, <1>5, <1>6, Together

\* What the file holds makes a memory.
LEMMA LoadType ==
  ASSUME NEW f \in Record
  PROVE  Load(f) \in Memory
<1> DEFINE p == [a \in Banks(f.allocation) |->
                   IF a \in DOMAIN f.pcr THEN f.pcr[a] ELSE FreshBank]
<1>1. Banks(f.allocation) \subseteq Algs
  BY FreshBanks DEF Record
<1>2. f.pcr \in [DOMAIN f.pcr -> Bank]
  BY PcrSetsAre DEF Record
<1>3. DOMAIN p = Banks(f.allocation) /\ p \in [Banks(f.allocation) -> Bank]
  BY <1>2, FreshType
<1> HIDE DEF p
<1>4. p \in PcrSets
  BY <1>1, <1>3, PcrSetsAre
<1>5. Load(f) =
        [started |-> FALSE, shutdown |-> f.shutdown, orderly |-> f.orderly,
         ever_started |-> f.ever_started,
         clock |-> f.clock, elapsed |-> 0, safe |-> f.safe,
         resets |-> f.resets, restarts |-> f.restarts,
         allocation |-> f.allocation, pending |-> FALSE, pcr |-> p,
         hcrtm |-> FALSE, sequence |-> FALSE,
         hcrtm_last |-> f.hcrtm_last, locality |-> f.locality]
  BY DEF Load, p
<1> QED
  BY <1>4, <1>5 DEF Record, Memory

LEMMA CrashKeeps ==
  ASSUME IInv, Crash
  PROVE  IInv'
<1>1. /\ tpm' = Load(file) /\ powered' = FALSE
      /\ undone' = (undone \/ (file.shutdown # "none" /\ tpm.shutdown = "none"))
      /\ UNCHANGED <<file, reported, boot, identities, at_shutdown, orphan, rebuilt, bounds>>
  BY DEF Crash
<1>2. tpm' \in Memory
  BY <1>1, LoadType DEF IInv, TypeOK
<1>3. TypeOK'
  <2>1. powered' \in BOOLEAN /\ undone' \in BOOLEAN
    BY <1>1
  <2> QED
    BY <1>1, <1>2, <2>1, Types DEF IInv, TypeOK
<1>4. Times'
  BY <1>1, CrashTimes
<1>5. Registers'
  BY <1>1, CrashRegisters
<1> QED
  BY <1>3, <1>4, <1>5, Together

LEMMA InitIInv == Init => IInv
<1> SUFFICES ASSUME Init PROVE IInv
  OBVIOUS
<1> DEFINE p == [a \in Algs |-> FreshBank]
           f == Manufactured
<1>1. /\ bounds \in Bounds /\ powered = FALSE /\ file = f /\ tpm = Load(f)
      /\ reported = 0 /\ boot = 0 /\ identities = {}
      /\ orphan = FALSE /\ rebuilt = FALSE /\ undone = FALSE
  BY DEF Init
<1>2. InOrder(Algs) \in Seq(Algs)
  <2>1. Algs \in SUBSET Nat /\ IsFiniteSet(Algs)
    BY <1>1, AlgsAre
  <2> QED
    BY <2>1, InOrderLists
<1>3. p \in PcrSets
  <2>1. DOMAIN p = Algs /\ p \in [Algs -> Bank]
    BY FreshType
  <2> HIDE DEF p
  <2> QED
    BY <2>1, PcrSetsAre
<1>4. "none" \in Shutdowns
  BY DEF Shutdowns
<1>5. f = [shutdown |-> "none", orderly |-> FALSE, ever_started |-> FALSE,
           clock |-> 0, safe |-> TRUE, resets |-> 0, restarts |-> 0,
           allocation |-> InOrder(Algs), pcr |-> p, hcrtm_last |-> FALSE, locality |-> 0]
  BY DEF Manufactured
<1> HIDE DEF f, p
<1>6. f \in Record
  BY <1>2, <1>3, <1>4, <1>5 DEF Record
<1>7. TypeOK
  <2>1. tpm \in Memory /\ file \in Record
    BY <1>1, <1>6, LoadType
  <2> QED
    BY <1>1, <2>1 DEF TypeOK
<1>8. /\ tpm.started = FALSE /\ tpm.shutdown = "none" /\ tpm.ever_started = FALSE
      /\ tpm.clock = 0 /\ tpm.elapsed = 0 /\ tpm.resets = 0 /\ tpm.hcrtm = FALSE
      /\ tpm.pending = FALSE
      /\ file.shutdown = "none" /\ file.clock = 0 /\ file.resets = 0
  BY <1>1, <1>5 DEF Load
<1>9. Linked /\ Lagging
  BY <1>1, <1>8, LifecycleAssumption DEF Linked, Lagging, LifecycleAssumption
<1>10. SafeSaysSo /\ Counting /\ IdentityNamesOneBoot
  BY <1>1, <1>8 DEF SafeSaysSo, Counting, IdentityNamesOneBoot
<1>11. Allocated /\ Measured /\ Resumable
  BY <1>1, <1>8 DEF Allocated, Measured, Resumable
<1> QED
  BY <1>7, <1>9, <1>10, <1>11 DEF IInv

LEMMA StutterKeeps == IInv /\ UNCHANGED vars => IInv'
<1> SUFFICES ASSUME IInv, UNCHANGED vars PROVE IInv'
  OBVIOUS
<1>1. UNCHANGED <<powered, tpm, file, reported, boot, identities, at_shutdown,
                  orphan, rebuilt, undone, bounds>>
  BY DEF vars, history
<1>2. TypeOK'
  BY <1>1, SameTypes DEF IInv, TypeOK
<1>3. Times'
  BY <1>1 DEF IInv, Times, Linked, Lagging, SafeSaysSo, Counting, IdentityNamesOneBoot
<1>4. Registers'
  <2>1. Keeps(tpm.pcr)' = Keeps(tpm.pcr) /\ Keeps(file.pcr)' = Keeps(file.pcr)
    BY <1>1 DEF Keeps
  <2> QED
    BY <1>1, <2>1 DEF IInv, Registers, Allocated, Measured, Resumable
<1> QED
  BY <1>2, <1>3, <1>4, Together

LEMMA NextIInv == IInv /\ [Next]_vars => IInv'
<1> SUFFICES ASSUME IInv, [Next]_vars PROVE IInv'
  OBVIOUS
<1>1. CASE UNCHANGED vars
  BY <1>1, StutterKeeps
<1>2. ASSUME NEW e \in Steps, NEW writes_nv \in BOOLEAN, OtherCommand(e, writes_nv)
      PROVE  IInv'
  BY <1>2, StepsAre, OtherCommandKeeps
<1>3. ASSUME NEW e \in Steps, Report(e) PROVE IInv'
  BY <1>3, StepsAre, ReportKeeps
<1>4. ASSUME NEW e \in Steps, NEW locality \in {0, 3},
             StartupClear(locality, e) \/ StartupState(locality, e)
      PROVE  IInv'
  <2>1. locality \in Nat /\ e \in Nat
    BY StepsAre
  <2>2. CASE StartupClear(locality, e)
    BY <2>1, <2>2, StartupClearKeeps
  <2>3. CASE StartupState(locality, e)
    BY <2>1, <2>3, StartupStateKeeps
  <2> QED
    BY <1>4, <2>2, <2>3
<1>5. ASSUME NEW e \in Steps, NEW type \in {"clear", "state"}, Shutdown(type, e) PROVE IInv'
  BY <1>5, StepsAre, ShutdownKeeps
<1>6. ASSUME NEW e \in Steps, Clear(e) PROVE IInv'
  BY <1>6, StepsAre, ClearKeeps
<1>7. ASSUME NEW e \in Steps, NEW new \in 0 .. bounds.clock, ClockSet(new, e) PROVE IInv'
  <2>1. new \in Nat
    BY LifecycleAssumption DEF IInv, TypeOK, LifecycleAssumption
  <2> QED
    BY <1>7, <2>1, StepsAre, ClockSetKeeps
<1>8. ASSUME NEW e \in Steps, NEW i \in Pcrs, NEW S \in SUBSET Algs, PcrExtend(i, S, e)
      PROVE  IInv'
  BY <1>8, StepsAre, PcrExtendKeeps
<1>9. ASSUME NEW e \in Steps, NEW i \in Pcrs, PcrReset(i, e) PROVE IInv'
  BY <1>9, StepsAre, PcrResetKeeps
<1>10. ASSUME NEW e \in Steps, NEW a \in Algs, NEW selected \in BOOLEAN,
              PcrAllocate(a, selected, e)
       PROVE  IInv'
  BY <1>10, StepsAre, PcrAllocateKeeps
<1>11. ASSUME NEW e \in Steps, ActGetSignaled(e) PROVE IInv'
  BY <1>11, StepsAre, ActGetSignaledKeeps
<1>12. CASE HashStart
  BY <1>12, HashStartKeeps
<1>13. CASE HashEndStarted
  BY <1>13, HashEndStartedKeeps
<1>14. CASE HashEndUnstarted
  BY <1>14, HashEndUnstartedKeeps
<1>15. CASE PowerOn
  BY <1>15, PowerOnKeeps
<1>16. CASE PowerOff
  BY <1>16, PowerOffKeeps
<1>17. CASE Crash
  BY <1>17, CrashKeeps
<1> QED
  BY <1>1, <1>2, <1>3, <1>4, <1>5, <1>6, <1>7, <1>8, <1>9, <1>10, <1>11, <1>12,
     <1>13, <1>14, <1>15, <1>16, <1>17 DEF Next

\* The inductive invariant: how far the file and what was reported may be from
\* Clock, which boots the reset counters have named, and what each bank holds
\* while a shutdown waits for its resume.
THEOREM LifecycleIInv == Spec => []IInv
BY InitIInv, NextIInv, PTL DEF Spec

\* A started TPM whose safe flag is SET has never reported a later Clock,
\* whatever crashes, roll overs and TPM2_ClockSet there were since TPM2_Clear
\* (advance_time, on_startup_clear), for every update interval.
THEOREM LifecycleClockNeverRepeats == Spec => []ClockNeverRepeats
<1>1. IInv => ClockNeverRepeats
  <2> SUFFICES ASSUME IInv, tpm.started, tpm.safe, ~undone PROVE tpm.clock >= reported
    BY DEF ClockNeverRepeats
  <2> QED
    BY Numbers DEF IInv, SafeSaysSo
<1> QED
  BY <1>1, LifecycleIInv, PTL

\* resetCount and restartCount never name two boots, nor two D-RTM launches of
\* one, in what is reported between two TPM2_Clear (on_startup_clear,
\* on_startup_state, drtm_restart).
THEOREM LifecycleIdentityNamesOneBoot == Spec => []IdentityNamesOneBoot
<1>1. IInv => IdentityNamesOneBoot
  BY DEF IInv
<1> QED
  BY <1>1, LifecycleIInv, PTL

\* PCR 0 of every bank starts from 4 after an H-CRTM sequence and from the
\* locality of the TPM2_Startup otherwise, through resumes (reset_all_but,
\* on_resume, h_crtm).
THEOREM LifecyclePcr0TellsMethod == Spec => []Pcr0TellsMethod
<1>1. IInv => Pcr0TellsMethod
  BY DEF IInv, Measured, Method, Pcr0Is, Pcr0TellsMethod
<1> QED
  BY <1>1, LifecycleIInv, PTL

\* A TPM Resume brings back the PCR that TPM2_Shutdown(TPM_SU_STATE) found, in
\* every bank, whatever signals, power cycles and crashes came between
\* (on_startup_state, TpmState::load).
THEOREM LifecycleResumeRestores == Spec => ResumeRestores
<1>1. ASSUME IInv, [Next]_vars, NEW locality \in {0, 3}, NEW e \in Steps,
             StartupState(locality, e), ~rebuilt,
             NEW a \in DOMAIN at_shutdown, NEW i \in Pcrs,
             IsSaved(i), i = HCRTM_PCR => ~orphan
      PROVE  a \in DOMAIN tpm'.pcr /\ tpm'.pcr[a][i] = at_shutdown[a][i]
  <2>1. tpm.shutdown = "state"
    BY <1>1 DEF StartupState, MayResume
  <2>2. a \in DOMAIN tpm.pcr /\ tpm.pcr[a][i] = at_shutdown[a][i]
    BY <1>1, <2>1 DEF IInv, Resumable, Keeps
  <2>3. tpm'.pcr = [b \in DOMAIN tpm.pcr |-> OnResume(tpm.pcr[b])]
    <3> DEFINE c == Credited(e)
    <3>1. c \in Memory /\ Banked(c)
      BY <1>1, StepsAre, CreditedIs DEF IInv, TypeOK
    <3>2. tpm' = OnStartupState(c)
      BY <1>1 DEF StartupState, Finish
    <3> HIDE DEF c
    <3>3. tpm'.pcr = [b \in DOMAIN c.pcr |-> OnResume(c.pcr[b])]
      BY <3>1, <3>2 DEF OnStartupState, Begin, Memory
    <3> QED
      BY <3>1, <3>3 DEF Banked
  <2>4. OnResume(tpm.pcr[a])[i] = tpm.pcr[a][i]
    BY <1>1 DEF OnResume
  <2> QED
    BY <2>2, <2>3, <2>4
<1>2. IInv /\ [Next]_vars =>
        [\A locality \in {0, 3}, e \in Steps :
           StartupState(locality, e) /\ ~rebuilt =>
             \A a \in DOMAIN at_shutdown, i \in Pcrs :
               IsSaved(i) /\ (i = HCRTM_PCR => ~orphan) =>
                 a \in DOMAIN tpm'.pcr /\ tpm'.pcr[a][i] = at_shutdown[a][i]]_vars
  BY <1>1
<1> QED
  BY <1>2, LifecycleIInv, PTL DEF Spec, ResumeRestores
=============================================================================
