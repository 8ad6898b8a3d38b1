---------------------------- MODULE LockoutProof -----------------------------
(***************************************************************************)
(* Proofs about Lockout: for any parameters and bounds, and any order of   *)
(* guesses, writes, failures, power cycles and startups, no guess is       *)
(* forgotten that is not excused, recovery is paid for with time, and a    *)
(* wrong lockoutAuth keeps the next one away.                              *)
(*                                                                         *)
(* And about Authorization, whose refusals Lockout counts: for any callers,*)
(* any values that they know and any number of sessions, no delivery of the*)
(* requests makes one HMAC work twice, lets a caller past a value it does  *)
(* not know, or leaves a command out of an exclusive audit.                *)
(***************************************************************************)
EXTENDS Lockout, Authorization, FiniteSetTheorems, TLAPS

Record ==
  [failed : Nat, p : Params, special : BOOLEAN, next : Nat,
   shutdown : {"NONE", "CLEAR", "STATE"}, ever : BOOLEAN, pin : Nat]

TypeOK ==
  /\ mem \in Record /\ file \in Record
  /\ until \in Nat /\ time \in Nat /\ lived \in Nat /\ wait \in Nat
  /\ tries \in Nat /\ recovered \in Nat /\ least \in Nat
  /\ unsaved \in Nat /\ lost \in Nat /\ excused \in Nat
  /\ early \in BOOLEAN

\* Every guess is in memory or in the file, or a history has it: memory may
\* become the file and the file memory at any moment.
Accounted ==
  /\ tries <= mem.failed + recovered + lost + excused
  /\ tries <= file.failed + recovered + lost + unsaved + excused

\* The parameters and the deadline of a record that holds tries are no less
\* than the least recovery time.
Slow(m) ==
  /\ least <= m.p.recovery
  /\ m.failed > 0 => least <= m.next

\* The next try comes off only when it has been paid for.
Earned ==
  /\ recovered * least <= lived
  /\ mem.failed > 0 => recovered * least + least <= lived + mem.next - time
  /\ Slow(mem) /\ Slow(file)

\* While lockoutAuth is to be left alone the special lockout is on, and its
\* deadline, if it has one, is not before the end of the wait.
Held ==
  /\ ~early
  /\ wait > 0 => mem.special /\ (until # 0 => time + wait <= until)

IInv == TypeOK /\ Accounted /\ Earned /\ Held

-----------------------------------------------------------------------------
(* Arithmetic.                                                             *)

\* The lesser of two numbers.
LEMMA MinOfTwo ==
  ASSUME NEW a \in Nat, NEW b \in Nat
  PROVE  Min({a, b}) \in {a, b} /\ Min({a, b}) <= a /\ Min({a, b}) <= b
<1>1. \E x \in {a, b} : \A y \in {a, b} : x <= y
  <2>1. CASE a <= b
    BY <2>1
  <2>2. CASE b <= a
    BY <2>2
  <2> QED
    BY <2>1, <2>2
<1>2. Min({a, b}) = CHOOSE x \in {a, b} : \A y \in {a, b} : x <= y
  BY DEF Min
<1> QED
  BY <1>1, <1>2

\* Products of natural numbers.
LEMMA Products ==
  ASSUME NEW a \in Nat, NEW b \in Nat, NEW c \in Nat
  PROVE  /\ a * c \in Nat
         /\ (a + b) * c = a * c + b * c
         /\ a <= b => a * c <= b * c
         /\ a <= b => c * a <= c * b
<1>1. a * c \in Nat /\ b * c \in Nat
  BY Z3
<1>2. (a + b) * c = a * c + b * c
  BY Z3
<1>3. ASSUME a <= b PROVE a * c <= b * c /\ c * a <= c * b
  <2>1. b - a \in Nat
    BY <1>3
  <2>2. (b - a) * c >= 0
    BY <2>1, Z3
  <2>3. (b - a) * c = b * c - a * c
    BY Z3
  <2>4. c * a = a * c /\ c * b = b * c
    BY Z3
  <2> QED
    BY <1>1, <2>2, <2>3, <2>4
<1> QED
  BY <1>1, <1>2, <1>3

\* Whole intervals fit in the time they divide.
LEMMA Intervals ==
  ASSUME NEW n \in Nat, NEW r \in Nat, r > 0
  PROVE  n \div r \in Nat /\ (n \div r) * r <= n
<1>1. n \div r \in Nat
  BY Z3
<1>2. n = (n \div r) * r + (n % r)
  BY Z3
<1>3. n % r \in Nat
  BY Z3
<1>4. (n \div r) * r \in Nat
  BY <1>1, Products
<1> QED
  BY <1>1, <1>2, <1>3, <1>4

-----------------------------------------------------------------------------
(* The operators.                                                          *)

\* on_time: all but the first of the tries it takes off have waited a whole
\* interval after the deadline, and the deadline moves on by as many.
LEMMA OnTimeFacts ==
  ASSUME NEW m \in Record, NEW t \in Nat
  PROVE  LET n == OnTime(m, t)
             k == m.failed - n.failed
         IN  /\ n \in Record /\ k \in Nat
             /\ n.p = m.p /\ n.special = m.special /\ n.shutdown = m.shutdown
             /\ n.ever = m.ever
             /\ k > 0 => /\ m.failed > 0 /\ m.next <= t
                         /\ (k - 1) * m.p.recovery <= t - m.next
             /\ n.failed > 0 => n.next = m.next + k * m.p.recovery
<1> DEFINE n == OnTime(m, t)
           r == m.p.recovery
           q == (t - m.next) \div r + 1
           k == IF ProtectionOff(m) \/ m.failed = 0 \/ t < m.next THEN 0
                ELSE Min({m.failed, q})
           x == IF ProtectionOff(m) THEN m.next
                ELSE IF m.failed = k THEN 0 ELSE m.next + k * r
<1>1. m.failed \in Nat /\ m.next \in Nat /\ r \in Nat
  BY LockoutAssumption DEF Record
<1>2. n = [m EXCEPT !.failed = m.failed - k, !.next = x]
  BY DEF OnTime
<1>3. /\ k \in 0 .. m.failed
      /\ k > 0 => m.failed > 0 /\ m.next <= t /\ ~ProtectionOff(m) /\ (k - 1) * r <= t - m.next
  <2>1. CASE ProtectionOff(m) \/ m.failed = 0 \/ t < m.next
    BY <1>1, <2>1
  <2>2. CASE ~(ProtectionOff(m) \/ m.failed = 0 \/ t < m.next)
    <3>1. r > 0 /\ t - m.next \in Nat /\ m.failed > 0
      BY <1>1, <2>2 DEF ProtectionOff
    <3>2. (t - m.next) \div r \in Nat /\ ((t - m.next) \div r) * r <= t - m.next
      BY <1>1, <3>1, Intervals
    <3>3. k = Min({m.failed, q}) /\ q \in Nat /\ q >= 1
      BY <2>2, <3>2
    <3>4. k \in {m.failed, q} /\ k <= m.failed /\ k <= q
      BY <1>1, <3>3, MinOfTwo
    <3> DEFINE w == (t - m.next) \div r
    <3>5. k - 1 \in Nat /\ k - 1 <= w /\ w \in Nat
      BY <1>1, <3>1, <3>2, <3>3, <3>4
    <3>6. (k - 1) * r <= w * r /\ (k - 1) * r \in Nat /\ w * r \in Nat
      <4> HIDE DEF k, w
      <4> QED
        BY <1>1, <3>5, Products
    <3>7. (k - 1) * r <= t - m.next
      <4> HIDE DEF k
      <4> QED
        BY <3>1, <3>2, <3>6
    <3> HIDE DEF k, q
    <3> QED
      BY <1>1, <2>2, <3>1, <3>3, <3>4, <3>5, <3>7
  <2> QED
    BY <2>1, <2>2
<1> HIDE DEF k
<1>4. k * r \in Nat
  BY <1>1, <1>3, Products
<1>5. x \in Nat /\ m.failed - k \in Nat
  <2>1. m.failed - k \in Nat
    BY <1>1, <1>3
  <2>2. m.next + k * r \in Nat
    BY <1>1, <1>4
  <2> QED
    BY <1>1, <2>1, <2>2
<1>6. m.failed - k > 0 => x = m.next + k * r
  <2>1. CASE ProtectionOff(m)
    <3>1. ~(k > 0)
      BY <1>3, <2>1
    <3>2. k = 0
      BY <1>1, <1>3, <3>1
    <3> QED
      BY <1>1, <2>1, <3>2
  <2>2. CASE ~ProtectionOff(m)
    BY <1>1, <1>3, <2>2
  <2> QED
    BY <2>1, <2>2
<1> HIDE DEF x, n
<1>7. /\ n \in Record /\ n.failed = m.failed - k /\ n.next = x /\ n.p = m.p
      /\ n.special = m.special /\ n.shutdown = m.shutdown /\ n.ever = m.ever
  BY <1>2, <1>5 DEF Record
<1>8. m.failed - n.failed = k /\ k \in Nat
  BY <1>1, <1>3, <1>7
<1> QED
  BY <1>3, <1>6, <1>7, <1>8 DEF n

\* advance_time: tries that came off have been paid for, the next one will be,
\* and the special lockout is on for as long as lockoutAuth is to be left alone.
LEMMA AdvancedFacts ==
  ASSUME IInv, NEW d \in Nat
  PROVE  LET m == Advanced(d)
             k == Down(d)
         IN  /\ m \in Record /\ k \in Nat /\ m.failed + k = mem.failed
             /\ m.p = mem.p /\ m.shutdown = mem.shutdown /\ m.ever = mem.ever
             /\ (recovered + k) * least \in Nat
             /\ (recovered + k) * least <= lived + d
             /\ m.failed > 0 => /\ least <= m.next
                                /\ (recovered + k) * least + least <= lived + m.next - time
             /\ wait > d => /\ m.special
                            /\ UntilAfter(d) # 0 => time + wait <= UntilAfter(d)
             /\ UntilAfter(d) \in Nat
<1> DEFINE m == Advanced(d)
           n == Elapsed(d)
           k == Down(d)
           r == mem.p.recovery
<1>1. /\ mem \in Record /\ time \in Nat /\ lived \in Nat /\ recovered \in Nat /\ least \in Nat
      /\ until \in Nat /\ wait \in Nat /\ time + d \in Nat
      /\ mem.failed \in Nat /\ mem.next \in Nat /\ r \in Nat
  BY LockoutAssumption DEF IInv, TypeOK, Record
<1>2. /\ n \in Record /\ k \in Nat
      /\ n.p = mem.p /\ n.special = mem.special /\ n.shutdown = mem.shutdown
      /\ n.ever = mem.ever
      /\ k > 0 => /\ mem.failed > 0 /\ mem.next <= time + d
                  /\ (k - 1) * r <= time + d - mem.next
      /\ n.failed > 0 => n.next = mem.next + k * r
  <2> DEFINE e == OnTime(mem, time + d)
             j == mem.failed - e.failed
  <2>1. /\ e \in Record /\ j \in Nat
        /\ e.p = mem.p /\ e.special = mem.special /\ e.shutdown = mem.shutdown
        /\ e.ever = mem.ever
        /\ j > 0 => /\ mem.failed > 0 /\ mem.next <= time + d
                    /\ (j - 1) * mem.p.recovery <= (time + d) - mem.next
        /\ e.failed > 0 => e.next = mem.next + j * mem.p.recovery
    <3> HIDE DEF n, k, r, m
    <3> QED
      BY <1>1, OnTimeFacts
  <2>2. e = n /\ j = k /\ mem.p.recovery = r
    BY DEF Elapsed, Down
  <2> HIDE DEF n, k, r, m, e, j
  <2> QED
    BY <1>1, <2>1, <2>2
<1>3. k = mem.failed - n.failed
  BY DEF Down
<1>4. m = [n EXCEPT !.special = n.special /\ ~SpecialEnds(d)]
  BY DEF Advanced
<1> HIDE DEF n, k, m
<1>5. /\ m \in Record /\ m.failed = n.failed /\ m.next = n.next /\ m.p = n.p
      /\ m.shutdown = n.shutdown /\ m.ever = n.ever
      /\ m.special <=> (n.special /\ ~SpecialEnds(d))
  <2>1. (n.special /\ ~SpecialEnds(d)) \in BOOLEAN
    BY Zenon
  <2> DEFINE b == n.special /\ ~SpecialEnds(d)
  <2>2. m = [n EXCEPT !.special = b] /\ b \in BOOLEAN
    BY <1>4, <2>1
  <2> HIDE DEF b
  <2>3. /\ m \in Record /\ m.failed = n.failed /\ m.next = n.next /\ m.p = n.p
        /\ m.shutdown = n.shutdown /\ m.ever = n.ever /\ m.special = b
    BY <1>2, <2>2 DEF Record
  <2> QED
    BY <2>3 DEF b
<1>6. m.failed \in Nat /\ m.next \in Nat
  BY <1>5 DEF Record
<1>7. m.failed + k = mem.failed
  BY <1>1, <1>3, <1>5, <1>6
<1>8. recovered * least \in Nat /\ k * least \in Nat /\ k * r \in Nat /\ k * least <= k * r
      /\ (recovered + k) * least = recovered * least + k * least
  <2>1. least <= r
    BY DEF IInv, Earned, Slow
  <2> QED
    BY <1>1, <1>2, <2>1, Products
<1>9. (recovered + k) * least <= lived + d
  <2>1. CASE k = 0
    BY <1>1, <1>8, <2>1 DEF IInv, Earned
  <2>2. CASE k > 0
    <3>1. k - 1 \in Nat /\ 1 \in Nat /\ (k - 1) + 1 = k
      BY <1>2, <2>2
    <3>2. least <= r
      BY DEF IInv, Earned, Slow
    <3>3. (k - 1) * least <= (k - 1) * r /\ (k - 1) * least \in Nat /\ (k - 1) * r \in Nat
      BY <1>1, <3>1, <3>2, Products
    <3>4. k * least = (k - 1) * least + least
      <4>1. ((k - 1) + 1) * least = (k - 1) * least + 1 * least
        BY <1>1, <3>1, Products
      <4> QED
        BY <1>1, <3>1, <4>1
    <3>5. recovered * least + least <= lived + mem.next - time
      BY <1>2, <2>2 DEF IInv, Earned
    <3> QED
      BY <1>1, <1>2, <1>8, <2>2, <3>3, <3>4, <3>5
  <2> QED
    BY <1>2, <2>1, <2>2
<1>10. ASSUME m.failed > 0
       PROVE  least <= m.next /\ (recovered + k) * least + least <= lived + m.next - time
  <2>1. mem.failed > 0
    BY <1>1, <1>2, <1>6, <1>7, <1>10
  <2>2. least <= mem.next /\ recovered * least + least <= lived + mem.next - time
    BY <2>1 DEF IInv, Earned, Slow
  <2>3. m.next = mem.next + k * r
    BY <1>2, <1>5, <1>10
  <2> QED
    BY <1>1, <1>8, <2>2, <2>3
<1>11. ASSUME wait > d
       PROVE  m.special /\ (UntilAfter(d) # 0 => time + wait <= UntilAfter(d))
  <2>1. mem.special /\ (until # 0 => time + wait <= until)
    BY <1>1, <1>11 DEF IInv, Held
  <2>2. ~SpecialEnds(d)
    BY <1>1, <1>11, <2>1 DEF SpecialEnds
  <2> QED
    BY <1>2, <1>5, <2>1, <2>2 DEF UntilAfter
<1>12. UntilAfter(d) \in Nat
  BY <1>1 DEF UntilAfter
<1>13. (recovered + k) * least \in Nat
  BY <1>8
<1>14. m.p = mem.p /\ m.shutdown = mem.shutdown /\ m.ever = mem.ever
  BY <1>2, <1>5
<1> QED
  BY <1>2, <1>5, <1>7, <1>9, <1>10, <1>11, <1>12, <1>13, <1>14, Zenon DEF m, k

-----------------------------------------------------------------------------
(* The steps.                                                              *)

\* What IInv says of the types, in a form the arithmetic needs.
LEMMA Numbers ==
  ASSUME IInv
  PROVE  /\ mem \in Record /\ file \in Record
         /\ mem.failed \in Nat /\ mem.next \in Nat /\ mem.p \in Params
         /\ file.failed \in Nat /\ file.next \in Nat /\ file.p \in Params
         /\ until \in Nat /\ time \in Nat /\ lived \in Nat /\ wait \in Nat
         /\ tries \in Nat /\ recovered \in Nat /\ least \in Nat
         /\ unsaved \in Nat /\ lost \in Nat /\ excused \in Nat
         /\ recovered * least \in Nat
<1>1. recovered * least \in Nat
  BY Products DEF IInv, TypeOK
<1> QED
  BY <1>1 DEF IInv, TypeOK, Record

\* A command that counts g new failures, or none, after the time before it.
LEMMA CommandKeeps ==
  ASSUME IInv, NEW d \in Nat, NEW g \in Nat,
         mem' \in Record, until' \in Nat, wait' \in Nat, early' \in BOOLEAN,
         time' = time + d, lived' = lived + d, recovered' = recovered + Down(d),
         mem'.failed = Advanced(d).failed + g,
         tries' = tries + g, unsaved' = unsaved + g,
         least' \in Nat, least' <= least, least' <= mem'.p.recovery,
         \/ g = 0 /\ mem'.next = Advanced(d).next
         \/ mem'.next = time + d + mem'.p.recovery,
         UNCHANGED <<file, lost, excused>>, Held'
  PROVE  IInv'
<1> DEFINE m == Advanced(d)
           k == Down(d)
           r == mem'.p.recovery
<1>1. /\ m \in Record /\ k \in Nat /\ m.failed + k = mem.failed
      /\ (recovered + k) * least \in Nat
      /\ (recovered + k) * least <= lived + d
      /\ m.failed > 0 => /\ least <= m.next
                         /\ (recovered + k) * least + least <= lived + m.next - time
  BY AdvancedFacts
<1> HIDE DEF m, k
<1>2. /\ m.failed \in Nat /\ m.next \in Nat /\ mem'.failed \in Nat /\ mem'.next \in Nat
      /\ r \in Nat
  BY <1>1, LockoutAssumption DEF Record
<1>3. TypeOK'
  BY <1>1 DEF IInv, TypeOK, k
<1>4. Accounted'
  <2>1. mem'.failed = m.failed + g /\ recovered' = recovered + k
    BY DEF m, k
  <2>2. tries <= mem.failed + recovered + lost + excused
        /\ tries <= file.failed + recovered + lost + unsaved + excused
    BY DEF IInv, Accounted
  <2> QED
    BY <1>1, <1>2, <2>1, <2>2, Numbers DEF Accounted
<1>5. (recovered * least)' \in Nat /\ (recovered * least)' <= (recovered + k) * least
  BY <1>1, Numbers, Products DEF k
<1>6. (recovered * least)' <= lived'
  BY <1>1, <1>5, Numbers
<1>7. Slow(file)'
  BY Numbers, LockoutAssumption DEF IInv, Earned, Slow
<1>8. ASSUME mem'.failed > 0
      PROVE  /\ least' <= mem'.next
             /\ (recovered * least)' + least' <= lived' + mem'.next - time'
  <2>1. CASE g = 0 /\ mem'.next = Advanced(d).next
    <3>1. m.failed > 0 /\ mem'.next = m.next
      BY <1>2, <1>8, <2>1 DEF m
    <3> QED
      BY <1>1, <1>2, <1>5, <3>1, Numbers
  <2>2. CASE mem'.next = time + d + mem'.p.recovery
    BY <1>2, <1>5, <1>6, <2>2, Numbers
  <2> QED
    BY <2>1, <2>2
<1>9. Earned'
  BY <1>6, <1>7, <1>8 DEF Earned, Slow
<1> QED
  BY <1>3, <1>4, <1>9 DEF IInv

\* Passing time keeps the special lockout on for as long as it has to be.
LEMMA PassedHeld ==
  ASSUME IInv, NEW d \in Nat, early' = early, time' = time + d,
         mem'.special = Advanced(d).special, until' = UntilAfter(d),
         wait' = IF wait > d THEN wait - d ELSE 0
  PROVE  Held' /\ wait' \in Nat /\ until' \in Nat /\ early' \in BOOLEAN
<1>1. /\ wait > d => Advanced(d).special /\ (UntilAfter(d) # 0 => time + wait <= UntilAfter(d))
      /\ UntilAfter(d) \in Nat
  BY AdvancedFacts
<1>2. ~early /\ early \in BOOLEAN
  BY DEF IInv, Held, TypeOK
<1>3. CASE wait > d
  <2>1. wait' = wait - d
    BY <1>3
  <2>2. wait \in Nat /\ time \in Nat
    BY Numbers
  <2>3. wait' \in Nat /\ time' + wait' = time + wait
    BY <1>3, <2>1, <2>2
  <2> QED
    BY <1>1, <1>2, <1>3, <2>3 DEF Held
<1>4. CASE ~(wait > d)
  <2>1. wait' = 0
    BY <1>4
  <2> QED
    BY <1>1, <1>2, <2>1 DEF Held
<1> QED
  BY <1>3, <1>4

\* A command that counts nothing and leaves the parameters alone.
LEMMA QuietKeeps ==
  ASSUME IInv, NEW d \in Nat,
         mem' \in Record, mem'.p = mem.p,
         mem'.failed = Advanced(d).failed, mem'.next = Advanced(d).next,
         mem'.special = Advanced(d).special, until' = UntilAfter(d), time' = time + d,
         Passed(d, Down(d)),
         UNCHANGED <<file, tries, least, unsaved, lost, excused, early>>
  PROVE  IInv'
<1>1. /\ lived' = lived + d /\ recovered' = recovered + Down(d)
      /\ wait' = IF wait > d THEN wait - d ELSE 0
  BY DEF Passed
<1>2. Held' /\ wait' \in Nat /\ until' \in Nat /\ early' \in BOOLEAN
  BY <1>1, PassedHeld
<1>3. least' \in Nat /\ least' <= least /\ least' <= mem'.p.recovery
  BY Numbers DEF IInv, Earned, Slow
<1>4. Advanced(d) \in Record
  BY AdvancedFacts
<1>5. /\ mem'.failed = Advanced(d).failed + 0 /\ tries' = tries + 0
      /\ unsaved' = unsaved + 0 /\ 0 \in Nat
  BY <1>4, Numbers DEF Record
<1> QED
  BY <1>1, <1>2, <1>3, <1>5, CommandKeeps

\* The counter starts again.
LEMMA ResetKeeps ==
  ASSUME IInv, mem' \in Record, mem'.failed = 0, until' = 0, time' \in Nat,
         file' = file, Reset(mem')
  PROVE  IInv'
<1>1. /\ tries' = 0 /\ recovered' = 0 /\ unsaved' = 0 /\ excused' = 0 /\ lived' = 0
      /\ wait' = 0 /\ lost' = lost /\ early' = early
      /\ least' = Min({least, mem'.p.recovery})
  BY DEF Reset
<1>2. mem'.p.recovery \in Nat
  BY LockoutAssumption DEF Record
<1>3. least' \in Nat /\ least' <= least /\ least' <= mem'.p.recovery
  BY <1>1, <1>2, Numbers, MinOfTwo
<1>4. TypeOK'
  BY <1>1, <1>3 DEF IInv, TypeOK
<1>5. Accounted'
  BY <1>1, Numbers DEF Accounted
<1>6. Held'
  BY <1>1 DEF IInv, Held
<1>7. Slow(file)'
  BY <1>3, Numbers, LockoutAssumption DEF IInv, Earned, Slow
<1>8. Earned'
  BY <1>1, <1>3, <1>7 DEF Earned, Slow
<1> QED
  BY <1>4, <1>5, <1>6, <1>8 DEF IInv

\* Memory becomes the file: the tries it does not hold are lost, and the
\* deadlines count from the Time that starts with the power.
LEMMA ReloadKeeps ==
  ASSUME IInv, Reload, time' = 0,
         UNCHANGED <<file, lived, tries, recovered, least, excused, early>>
  PROVE  IInv'
<1>1. /\ mem' = file /\ until' = 0 /\ lost' = lost + unsaved /\ unsaved' = 0
      /\ wait' = IF file.special THEN wait ELSE 0
  BY DEF Reload
<1>2. TypeOK'
  BY <1>1, Numbers DEF IInv, TypeOK
<1>3. Accounted'
  BY <1>1, Numbers DEF IInv, Accounted
<1>4. Earned'
  BY <1>1, Numbers DEF IInv, Earned, Slow
<1>5. Held'
  BY <1>1 DEF IInv, Held
<1> QED
  BY <1>2, <1>3, <1>4, <1>5 DEF IInv

\* What memory has is written, or nothing is; Time may start again.
LEMMA WriteKeeps ==
  ASSUME IInv, time' = time \/ time' = 0,
         \/ file' = mem /\ unsaved' = 0
         \/ UNCHANGED <<file, unsaved>>,
         UNCHANGED <<mem, until, lived, tries, recovered, least, lost, excused, wait, early>>
  PROVE  IInv'
<1>1. TypeOK'
  BY DEF IInv, TypeOK
<1>2. Accounted'
  BY Numbers DEF IInv, Accounted
<1>3. Earned'
  BY Numbers DEF IInv, Earned, Slow
<1>4. Held'
  BY Numbers DEF IInv, Held
<1> QED
  BY <1>1, <1>2, <1>3, <1>4 DEF IInv

\* A wrong value: it is counted, and one for lockoutAuth is compared only when
\* the wait is over.
LEMMA GuessKeeps ==
  ASSUME IInv, NEW d \in Nat, NEW target \in Targets, Guess(target, d)
  PROVE  IInv'
<1> DEFINE a  == Advanced(d)
           m0 == Undone(a)
           m1 == RecordFailure(m0, time + d)
           enters == target \in {"lockout", "reset"}
<1>1. /\ a \in Record /\ a.p = mem.p /\ UntilAfter(d) \in Nat
      /\ wait > d => a.special
  BY AdvancedFacts
<1> HIDE DEF a
<1>2. /\ m0 \in Record /\ m0.p = mem.p /\ m0.failed = a.failed /\ m0.next = a.next
      /\ m0.special = a.special
  BY <1>1 DEF Undone, Record
<1> HIDE DEF m0
<1>3. time + d \in Nat /\ m0.failed \in Nat /\ m0.next \in Nat /\ m0.p \in Params
      /\ m0.p.recovery \in Nat /\ m0.p.lockout \in Nat
  BY <1>2, Numbers, LockoutAssumption DEF Record
<1>4. least \in Nat /\ least <= mem.p.recovery
  BY Numbers DEF IInv, Earned, Slow
<1>5. UNCHANGED <<least, lost, excused>>
  BY DEF Guess
<1>6. CASE Barred(m0, target)
  <2>1. /\ Command(d, FALSE, m0, UntilAfter(d)) /\ Passed(d, Down(d))
        /\ UNCHANGED <<tries, unsaved, early, guesses>>
    BY <1>6 DEF Guess, m0, a
  <2>2. /\ mem' = m0 /\ until' = UntilAfter(d) /\ time' = time + d /\ file' = file
    BY <2>1 DEF Command
  <2> QED
    BY <1>2, <1>5, <2>1, <2>2, QuietKeeps DEF a
<1>7. CASE ~Barred(m0, target)
  <2> DEFINE u == IF ~enters THEN UntilAfter(d)
                  ELSE IF m1.p.lockout = 0 THEN 0 ELSE time + d + m1.p.lockout
             g == m1.failed - m0.failed
             n == [m1 EXCEPT !.special = m1.special \/ enters]
  <2>1. /\ Command(d, FALSE, n, u)
        /\ lived' = lived + d /\ recovered' = recovered + Down(d)
        /\ tries' = tries + g /\ unsaved' = unsaved + g
        /\ early' = (early \/ (target = "lockout" /\ wait > d))
        /\ wait' = IF enters THEN m1.p.lockout ELSE IF wait > d THEN wait - d ELSE 0
    BY <1>7 DEF Guess, m0, a
  <2>2. mem' = n /\ until' = u /\ time' = time + d /\ file' = file
    BY <2>1 DEF Command
  <2>3. /\ m1 \in Record /\ m1.p = m0.p /\ m1.special = m0.special
        /\ \/ m1.failed = m0.failed /\ m1.next = m0.next
           \/ m1.failed = m0.failed + 1 /\ m1.next = time + d + m0.p.recovery
    <3>1. CASE ProtectionOff(m0)
      BY <1>2, <3>1 DEF RecordFailure
    <3>2. CASE ~ProtectionOff(m0)
      <4>1. m0.failed + 1 \in Nat /\ time + d + m0.p.recovery \in Nat
        BY <1>3
      <4> QED
        BY <1>2, <3>2, <4>1 DEF RecordFailure, Record
    <3> QED
      BY <3>1, <3>2
  <2> HIDE DEF m1
  <2>4. /\ n \in Record /\ n.failed = m1.failed /\ n.next = m1.next /\ n.p = m1.p
        /\ n.special <=> m1.special \/ enters
    <3>1. (m1.special \/ enters) \in BOOLEAN
      BY Zenon
    <3> DEFINE b == m1.special \/ enters
    <3>2. n = [m1 EXCEPT !.special = b] /\ b \in BOOLEAN
      BY <3>1
    <3> HIDE DEF b, n
    <3>3. /\ n \in Record /\ n.failed = m1.failed /\ n.next = m1.next /\ n.p = m1.p
          /\ n.special = b
      BY <2>3, <3>2 DEF Record
    <3> QED
      BY <3>3 DEF b
  <2> HIDE DEF n
  <2>5. g \in Nat /\ m1.failed = m0.failed + g
        /\ ((g = 0 /\ m1.next = m0.next) \/ m1.next = time + d + m0.p.recovery)
    BY <1>3, <2>3
  <2> HIDE DEF g
  <2>6. ~early' /\ early' \in BOOLEAN
    <3>1. ~(target = "lockout" /\ wait > d)
      BY <1>1, <1>2, <1>7 DEF Barred
    <3> QED
      BY <2>1, <3>1 DEF IInv, Held
  <2>7. Held' /\ wait' \in Nat /\ until' \in Nat
    <3>1. CASE enters
      <4>1. /\ wait' = m0.p.lockout
            /\ until' = IF m0.p.lockout = 0 THEN 0 ELSE time + d + m0.p.lockout
        BY <2>1, <2>2, <2>3, <3>1
      <4>2. mem'.special
        BY <2>2, <2>4, <3>1
      <4> QED
        BY <1>3, <2>2, <2>6, <4>1, <4>2 DEF Held
    <3>2. CASE ~enters
      <4>1. until' = UntilAfter(d) /\ wait' = IF wait > d THEN wait - d ELSE 0
        BY <2>1, <2>2, <3>2
      <4>2. mem'.special = Advanced(d).special
        <5>1. mem'.special <=> m1.special
          BY <2>2, <2>4, <3>2
        <5>2. mem'.special \in BOOLEAN /\ m1.special \in BOOLEAN
          BY <2>2, <2>3, <2>4 DEF Record
        <5> QED
          BY <1>2, <2>3, <5>1, <5>2 DEF a
      <4>3. early' = early
        BY <2>6 DEF IInv, Held, TypeOK
      <4> QED
        BY <2>2, <4>1, <4>2, <4>3, PassedHeld
    <3> QED
      BY <3>1, <3>2
  <2>8. least' \in Nat /\ least' <= least /\ least' <= mem'.p.recovery
    BY <1>2, <1>4, <1>5, <2>2, <2>3, <2>4
  <2>9. /\ mem' \in Record /\ mem'.failed = Advanced(d).failed + g
        /\ \/ g = 0 /\ mem'.next = Advanced(d).next
           \/ mem'.next = time + d + mem'.p.recovery
    BY <1>2, <2>2, <2>3, <2>4, <2>5 DEF a
  <2> QED
    BY <1>5, <2>1, <2>2, <2>5, <2>6, <2>7, <2>8, <2>9, CommandKeeps
<1> QED
  BY <1>6, <1>7

\* TPM2_DictionaryAttackParameters: from here on recovery may be faster, and
\* the deadline that is running stays.
LEMMA SetParametersKeeps ==
  ASSUME IInv, NEW d \in Nat, NEW p \in Params, SetParameters(p, d)
  PROVE  IInv'
<1> DEFINE a == Advanced(d)
           m == [Undone(a) EXCEPT !.p = p]
<1>1. a \in Record
  BY AdvancedFacts
<1>2. /\ mem' = m /\ until' = UntilAfter(d) /\ time' = time + d /\ file' = file
      /\ lived' = lived + d /\ recovered' = recovered + Down(d)
      /\ wait' = IF wait > d THEN wait - d ELSE 0
      /\ least' = Min({least, p.recovery})
      /\ UNCHANGED <<tries, unsaved, lost, excused, early>>
  BY DEF SetParameters, Command, Passed
<1>3. /\ m \in Record /\ m.p = p /\ m.failed = a.failed /\ m.next = a.next
      /\ m.special = a.special
  <2> HIDE DEF a
  <2> QED
    BY <1>1 DEF Undone, Record
<1> HIDE DEF m
<1>4. Held' /\ wait' \in Nat /\ until' \in Nat /\ early' \in BOOLEAN
  BY <1>2, <1>3, PassedHeld
<1>5. p.recovery \in Nat
  BY LockoutAssumption
<1>6. least' \in Nat /\ least' <= least /\ least' <= mem'.p.recovery
  BY <1>2, <1>3, <1>5, Numbers, MinOfTwo
<1>7. /\ mem'.failed = Advanced(d).failed + 0 /\ tries' = tries + 0
      /\ unsaved' = unsaved + 0 /\ 0 \in Nat
  <2>1. a.failed \in Nat
    BY <1>1 DEF Record
  <2> QED
    BY <1>2, <1>3, <2>1, Numbers
<1>8. mem' \in Record /\ mem'.next = Advanced(d).next
  BY <1>2, <1>3
<1> QED
  BY <1>2, <1>4, <1>6, <1>7, <1>8, CommandKeeps

\* TPM2_Startup: the deadlines start again, and one lost try is made up for.
LEMMA StartupKeeps ==
  ASSUME IInv, NEW d \in Nat, NEW type \in {"CLEAR", "STATE"}, Startup(type, d)
  PROVE  IInv'
<1> DEFINE m0 == Advanced(d)
           m1 == IF type = "CLEAR" /\ m0.shutdown = "NONE" /\ m0.ever
                 THEN CountPendingFailure(m0) ELSE m0
           o  == OnStartup(m1)
           m2 == [o EXCEPT !.shutdown = "NONE", !.ever = TRUE]
           k  == Down(d)
           e  == IF MakesUp(m0) /\ lost > 0 THEN 1 ELSE 0
<1>1. /\ m0 \in Record /\ k \in Nat /\ m0.failed + k = mem.failed /\ m0.p = mem.p
      /\ (recovered + k) * least \in Nat
      /\ (recovered + k) * least <= lived + d
      /\ wait > d => m0.special
  BY AdvancedFacts
<1>2. /\ mem' = m2 /\ time' = 0
      /\ until' = (IF m2.special THEN m2.p.lockout ELSE 0)
      /\ lost' = 0
      /\ lived' = lived + d /\ recovered' = recovered + k
      /\ wait' = IF wait > d THEN m2.p.lockout ELSE 0
      /\ UNCHANGED <<file, tries, least, early>>
  BY DEF Startup
<1>3. excused' = excused + (IF MakesUp(m0) /\ lost > 0 THEN lost - 1 ELSE lost)
      /\ unsaved' = unsaved + (IF MakesUp(m0) /\ lost > 0 THEN 1 ELSE 0)
  BY DEF Startup
<1>4. type = "STATE" => m0.shutdown = "STATE"
  BY DEF Startup
<1> HIDE DEF m0, k
<1>5. m0.failed \in Nat /\ m0.next \in Nat /\ m0.p \in Params
      /\ m0.p.recovery \in Nat /\ m0.p.lockout \in Nat
  BY <1>1, LockoutAssumption DEF Record
<1>6. excused' = excused + lost - e /\ unsaved' = unsaved + e /\ e \in {0, 1} /\ e <= lost
  BY <1>3, Numbers
<1>7. /\ m1 \in Record /\ m1.p = m0.p /\ m1.special = m0.special
      /\ m1.failed \in Nat /\ m1.failed >= m0.failed + e
  <2>1. CASE m1 = m0
    <3>1. ~MakesUp(m0)
      <4>1. SUFFICES ASSUME MakesUp(m0) PROVE FALSE
        OBVIOUS
      <4>2. type = "CLEAR" /\ m0.shutdown = "NONE" /\ m0.ever
        BY <1>4, <4>1 DEF MakesUp
      <4>3. m1 = [m0 EXCEPT !.failed = @ + 1]
        BY <4>1, <4>2 DEF MakesUp, CountPendingFailure
      <4>4. m1.failed = m0.failed + 1
        BY <1>1, <4>3 DEF Record
      <4> QED
        BY <1>5, <2>1, <4>4
    <3>2. e = 0
      BY <3>1
    <3> QED
      BY <1>1, <1>5, <2>1, <3>2
  <2>2. CASE m1 # m0
    <3>1. m1 = [m0 EXCEPT !.failed = @ + 1]
      BY <2>2 DEF CountPendingFailure
    <3>2. m0.failed + 1 \in Nat
      BY <1>5
    <3> HIDE DEF m1, e
    <3>3. /\ m1 \in Record /\ m1.p = m0.p /\ m1.special = m0.special
          /\ m1.failed = m0.failed + 1
      BY <1>1, <3>1, <3>2 DEF Record
    <3> QED
      BY <1>5, <1>6, <3>2, <3>3
  <2> QED
    BY <2>1, <2>2
<1> HIDE DEF m1, e
<1>8. /\ m2 \in Record /\ m2.failed = m1.failed /\ m2.p = m1.p
      /\ m2.failed > 0 => m2.next = m1.p.recovery
      /\ m2.special <=> m1.special /\ m1.p.lockout # 0
  <2> DEFINE b == m1.special /\ m1.p.lockout # 0
             x == IF m1.failed > 0 THEN m1.p.recovery ELSE 0
  <2>1. b \in BOOLEAN
    BY Zenon
  <2>2. x \in Nat
    BY <1>5, <1>7
  <2>3. o = [m1 EXCEPT !.next = x, !.special = b]
    BY DEF OnStartup
  <2> HIDE DEF b, x, o
  <2>4. /\ o \in Record /\ o.failed = m1.failed /\ o.p = m1.p /\ o.next = x
        /\ o.special = b
    BY <1>7, <2>1, <2>2, <2>3 DEF Record
  <2>5. /\ m2 \in Record /\ m2.failed = o.failed /\ m2.p = o.p /\ m2.next = o.next
        /\ m2.special = o.special
    BY <2>4 DEF Record
  <2> HIDE DEF m2
  <2> QED
    BY <2>4, <2>5 DEF b, x
<1> HIDE DEF m2
<1>9. m2.p.lockout \in Nat /\ m2.p = mem.p /\ m2.failed \in Nat /\ m2.p.recovery \in Nat
  BY <1>1, <1>5, <1>7, <1>8
<1>10. TypeOK'
  <2>1. excused' \in Nat /\ unsaved' \in Nat
    BY <1>6, Numbers
  <2>2. until' \in Nat /\ wait' \in Nat
    BY <1>2, <1>9
  <2>3. lived' \in Nat /\ recovered' \in Nat
    BY <1>1, <1>2, Numbers
  <2> QED
    BY <1>2, <1>8, <2>1, <2>2, <2>3 DEF IInv, TypeOK
<1>11. Accounted'
  <2>1. tries <= mem.failed + recovered + lost + excused
        /\ tries <= file.failed + recovered + lost + unsaved + excused
    BY DEF IInv, Accounted
  <2>2. mem'.failed >= m0.failed + e /\ mem'.failed \in Nat
    BY <1>2, <1>7, <1>8, <1>9
  <2> QED
    BY <1>1, <1>2, <1>5, <1>6, <2>1, <2>2, Numbers DEF Accounted
<1>12. Earned'
  <2>1. (recovered * least)' = (recovered + k) * least
    BY <1>2
  <2>2. least <= mem.p.recovery /\ Slow(file)
    BY DEF IInv, Earned, Slow
  <2>3. least' <= mem'.p.recovery /\ (mem'.failed > 0 => mem'.next = mem'.p.recovery)
    BY <1>2, <1>7, <1>8, <1>9, <2>2 DEF IInv, Earned, Slow
  <2>4. Slow(file)'
    BY <1>2, <2>2 DEF Slow
  <2>5. mem'.p.recovery \in Nat
    BY <1>2, <1>9
  <2> QED
    BY <1>1, <1>2, <2>1, <2>3, <2>4, <2>5, Numbers DEF Earned, Slow
<1>13. Held'
  <2>1. ~early'
    BY <1>2 DEF IInv, Held
  <2>2. ASSUME wait' > 0
        PROVE  mem'.special /\ (until' # 0 => time' + wait' <= until')
    <3>1. wait > d /\ wait' = m2.p.lockout
      BY <1>2, <2>2
    <3>2. m2.special
      BY <1>1, <1>7, <1>8, <1>9, <2>2, <3>1
    <3> QED
      BY <1>2, <1>9, <3>1, <3>2
  <2> QED
    BY <2>1, <2>2 DEF Held
<1> QED
  BY <1>10, <1>11, <1>12, <1>13 DEF IInv

\* The initial state.
LEMMA InitIInv == Init => IInv
<1> SUFFICES ASSUME Init PROVE IInv
  OBVIOUS
<1>1. Default \in Params /\ Default.recovery \in Nat
  BY LockoutAssumption
<1>2. Manufactured \in Record /\ Manufactured.failed = 0 /\ Manufactured.p = Default
  BY <1>1 DEF Manufactured, Record
<1>3. 0 * Default.recovery = 0
  BY <1>1
<1>4. TypeOK
  BY <1>1, <1>2 DEF Init, TypeOK
<1>5. Accounted
  BY <1>2 DEF Init, Accounted
<1>6. Earned
  BY <1>1, <1>2, <1>3 DEF Init, Earned, Slow
<1>7. Held
  BY DEF Init, Held
<1> QED
  BY <1>4, <1>5, <1>6, <1>7 DEF IInv

\* Every command, write, failure, power cycle and crash keeps IInv.
LEMMA NextIInv == IInv /\ [Next]_vars => IInv'
<1> SUFFICES ASSUME IInv, [Next]_vars PROVE IInv'
  OBVIOUS
<1>1. \A d \in 0 .. MaxStep :
        d \in Nat /\ Advanced(d) \in Record /\ Advanced(d).p = mem.p /\ time + d \in Nat
  <2>1. MaxStep \in Nat
    BY LockoutAssumption
  <2> SUFFICES ASSUME NEW d \in 0 .. MaxStep
               PROVE  d \in Nat /\ Advanced(d) \in Record /\ Advanced(d).p = mem.p
                      /\ time + d \in Nat
    OBVIOUS
  <2>2. d \in Nat
    BY <2>1
  <2>3. Advanced(d) \in Record /\ Advanced(d).p = mem.p
    BY <2>2, AdvancedFacts
  <2> QED
    BY <2>2, <2>3, Numbers
<1>2. \A m \in Record :
        /\ Undone(m) \in Record /\ Undone(m).failed = m.failed /\ Undone(m).next = m.next
        /\ Undone(m).p = m.p /\ Undone(m).special = m.special /\ Undone(m).pin = m.pin
  BY DEF Undone, Record
<1>3. ASSUME NEW d \in 0 .. MaxStep, Other(d)
      PROVE  IInv'
  <2>1. /\ mem' = Undone(Advanced(d)) /\ until' = UntilAfter(d) /\ time' = time + d
        /\ Passed(d, Down(d))
        /\ UNCHANGED <<file, tries, least, unsaved, lost, excused, early>>
    BY <1>3 DEF Other, Command
  <2> QED
    BY <1>1, <1>2, <2>1, QuietKeeps
<1>4. ASSUME NEW d \in 0 .. MaxStep, LockReset(d)
      PROVE  IInv'
  <2> DEFINE m == [Undone(Advanced(d)) EXCEPT !.failed = 0, !.next = 0, !.special = FALSE]
  <2>1. mem' = m /\ until' = 0 /\ time' = time + d /\ file' = file /\ Reset(mem')
    BY <1>4 DEF LockReset, Command
  <2>2. Undone(Advanced(d)) \in Record
    BY <1>1, <1>2
  <2>3. m \in Record /\ m.failed = 0
    BY <2>2 DEF Record
  <2> QED
    BY <1>1, <2>1, <2>3, ResetKeeps
<1>5. ASSUME NEW d \in 0 .. MaxStep, Clear(d)
      PROVE  IInv'
  <2> DEFINE m == [Undone(Advanced(d)) EXCEPT !.failed = 0, !.next = 0, !.special = FALSE,
                                              !.p = Default]
  <2>1. mem' = m /\ until' = 0 /\ time' = time + d /\ file' = file /\ Reset(mem')
    BY <1>5 DEF Clear, Command
  <2>2. Undone(Advanced(d)) \in Record
    BY <1>1, <1>2
  <2>3. m \in Record /\ m.failed = 0
    BY <2>2, LockoutAssumption DEF Record
  <2> QED
    BY <1>1, <2>1, <2>3, ResetKeeps
<1>6. ASSUME NEW d \in 0 .. MaxStep, NEW right \in BOOLEAN, UsePin(right, d)
      PROVE  IInv'
  <2> DEFINE m0 == Undone(Advanced(d))
             pin == IF right THEN 0 ELSE m0.pin + 1
             m == [m0 EXCEPT !.pin = pin]
  <2>1. /\ mem' = m /\ until' = UntilAfter(d) /\ time' = time + d
        /\ Passed(d, Down(d))
        /\ UNCHANGED <<file, tries, least, unsaved, lost, excused, early>>
    BY <1>6 DEF UsePin, Command
  <2>2. /\ m0 \in Record /\ m0.failed = Advanced(d).failed /\ m0.next = Advanced(d).next
        /\ m0.p = mem.p /\ m0.special = Advanced(d).special
    BY <1>1, <1>2
  <2> HIDE DEF m0
  <2>3. pin \in Nat
    BY <2>2 DEF Record
  <2> HIDE DEF pin
  <2>4. /\ m \in Record /\ m.p = mem.p /\ m.failed = Advanced(d).failed
        /\ m.next = Advanced(d).next /\ m.special = Advanced(d).special
    BY <2>2, <2>3 DEF Record
  <2> QED
    BY <1>1, <2>1, <2>4, QuietKeeps
<1>7. ASSUME NEW d \in 0 .. MaxStep, NEW type \in {"CLEAR", "STATE"}, Shutdown(type, d)
      PROVE  IInv'
  <2> DEFINE m == [Advanced(d) EXCEPT !.shutdown = type]
  <2>1. /\ mem' = m /\ until' = UntilAfter(d) /\ time' = time + d
        /\ Passed(d, Down(d))
        /\ UNCHANGED <<file, tries, least, unsaved, lost, excused, early>>
    BY <1>7 DEF Shutdown, Command
  <2>2. /\ m \in Record /\ m.p = mem.p /\ m.failed = Advanced(d).failed
        /\ m.next = Advanced(d).next /\ m.special = Advanced(d).special
    BY <1>1 DEF Record
  <2> QED
    BY <1>1, <2>1, <2>2, QuietKeeps
<1>8. CASE Write \/ WriteFails
  <2>1. /\ \/ file' = mem /\ unsaved' = 0
           \/ UNCHANGED <<file, unsaved>>
        /\ UNCHANGED <<time, mem, until, lived, tries, recovered, least, lost, excused, wait,
                       early>>
    BY <1>8 DEF Write, WriteFails, ghosts
  <2> QED
    BY <2>1, WriteKeeps
<1>9. ASSUME NEW written \in BOOLEAN, PowerCycle(written)
      PROVE  IInv'
  <2>1. CASE broken
    <3>1. /\ Reload /\ time' = 0
          /\ UNCHANGED <<file, lived, tries, recovered, least, excused, early>>
      BY <1>9, <2>1 DEF PowerCycle
    <3> QED
      BY <3>1, ReloadKeeps
  <2>2. CASE ~broken
    <3>1. /\ time' = 0
          /\ \/ file' = mem /\ unsaved' = 0
             \/ UNCHANGED <<file, unsaved>>
          /\ UNCHANGED <<mem, until, lived, tries, recovered, least, lost, excused, wait, early>>
      BY <1>9, <2>2 DEF PowerCycle
    <3> QED
      BY <3>1, WriteKeeps
  <2> QED
    BY <2>1, <2>2
<1>10. CASE Crash
  <2>1. /\ Reload /\ time' = 0
        /\ UNCHANGED <<file, lived, tries, recovered, least, excused, early>>
    BY <1>10 DEF Crash
  <2> QED
    BY <2>1, ReloadKeeps
<1>11. CASE UNCHANGED vars
  BY <1>11, WriteKeeps DEF vars, ghosts
<1> QED
  BY <1>1, <1>3, <1>4, <1>5, <1>6, <1>7, <1>8, <1>9, <1>10, <1>11, GuessKeeps,
     SetParametersKeeps, StartupKeeps DEF Next

-----------------------------------------------------------------------------
\* The inductive invariant holds in every state.
THEOREM LockoutIInv == Spec => []IInv
  BY InitIInv, NextIInv, PTL DEF Spec

\* A guess stays counted through any order of writes, failures, power cycles,
\* crashes and startups, but for what time takes off and what is excused
\* (state.rs, record_failure and count_pending_failure).
THEOREM LockoutNoGuessForgotten == Spec => []NoGuessForgotten
<1>1. IInv => NoGuessForgotten
  BY DEF IInv, Accounted, NoGuessForgotten
<1> QED
  BY <1>1, LockoutIInv, PTL

\* Restarting Time with every power cycle, changing the parameters and counting
\* new failures never bring a try back sooner than the least recovery time
\* (state.rs, on_time and on_startup).
THEOREM LockoutRecoveryIsEarned == Spec => []RecoveryIsEarned
<1>1. IInv => RecoveryIsEarned
  BY DEF IInv, Earned, RecoveryIsEarned
<1> QED
  BY <1>1, LockoutIInv, PTL

\* lockoutAuth is not compared again before lockoutRecovery has passed
\* (state.rs, record_lockout_failure; dispatch.rs, check_lockout).
THEOREM LockoutAuthIsLeftAlone == Spec => []LockoutAuthLeftAlone
<1>1. IInv => LockoutAuthLeftAlone
  BY DEF IInv, Held, LockoutAuthLeftAlone
<1> QED
  BY <1>1, LockoutIInv, PTL

-----------------------------------------------------------------------------
(* Authorization.  The invariant.                                          *)

Session ==
  [by : Callers \cup {"anyone", "nobody"}, key : Nat, bind : SUBSET (Entities \X Nat),
   nonce : Nat, audit : BOOLEAN, missed : BOOLEAN]

AuthorizationTypeOK ==
  /\ sessions \in [Handles -> Session]
  /\ auth \in [Entities -> Nat]
  /\ exclusive \in Handles \cup {None}
  /\ nonces \in Nat
  /\ redeemed \subseteq 1 .. nonces

\* No two sessions have a nonce or a key in common, and no session has a nonce that was used.
Apart ==
  \A h \in Handles :
    /\ sessions[h].nonce \in 0 .. nonces \ redeemed
    /\ sessions[h].key \in 0 .. nonces
    /\ h \in Loaded => sessions[h].nonce # 0
    /\ sessions[h].bind # {} => sessions[h].key # 0
    /\ \A g \in Handles \ {h} :
         /\ sessions[g].nonce = sessions[h].nonce => sessions[h].nonce = 0
         /\ sessions[g].key = sessions[h].key => sessions[h].key = 0

Requester(m) ==
  /\ m.by \in Callers /\ m.e \in Entities
  /\ m.new \in Nat /\ m.keep \in BOOLEAN
  /\ m.h \in Handles \cup {None, PW} /\ m.h2 \in Handles \cup {None}
  /\ m.h = PW => m.value \in Knows[m.by]
  /\ m.why \in Purposes(m.h2)
  /\ m.h \notin Handles => m.mac = {}
  /\ m.h2 = None => m.mac2 = {}

\* Whoever made an HMAC knows the value and can compute the key in it.
Makes(c, x) ==
  /\ x.key[1] \in 0 .. nonces /\ x.key[2] \in Knows[c]
  /\ \A h \in Handles : sessions[h].key = x.key[1] => CanKey(c, sessions[h])

Honest(m) == Requester(m) /\ \A x \in m.mac \cup m.mac2 : Makes(m.by, x)

\* The exclusive session is loaded, and nothing has come after its last entry.
Unbroken == exclusive # None => exclusive \in Loaded /\ ~sessions[exclusive].missed

AuthorizationIInv ==
  /\ AuthorizationTypeOK /\ Apart
  /\ \A m \in net : Honest(m)
  /\ Unbroken
  /\ ~replayed /\ blind = {} /\ ~gapped

LEMMA AuthorizationInitHolds == AuthorizationInit => AuthorizationIInv
<1> SUFFICES ASSUME AuthorizationInit PROVE AuthorizationIInv
  OBVIOUS
<1>1. NoSession \in Session /\ NoSession.nonce = 0 /\ NoSession.key = 0 /\ NoSession.bind = {}
  BY DEF NoSession, Session
<1>2. AuthorizationTypeOK
  BY <1>1 DEF AuthorizationInit, AuthorizationTypeOK, Empty
<1>3. Apart
  BY <1>1 DEF AuthorizationInit, Apart, Loaded
<1> QED
  BY <1>2, <1>3 DEF AuthorizationInit, AuthorizationIInv, Unbroken

LEMMA HandlesAre == None \notin Handles /\ PW \notin Handles /\ PW # None
BY AuthorizationAssumption DEF AuthorizationAssumption, None, PW, Handles

\* A later entry of somebody else touches nothing but the mark.
LEMMA MissingIs ==
  ASSUME sessions \in [Handles -> Session]
  PROVE  /\ Missing(sessions) \in [Handles -> Session]
         /\ \A h \in Handles :
              LET s == sessions[h]
                  t == Missing(sessions)[h]
              IN  /\ t.by = s.by /\ t.key = s.key /\ t.bind = s.bind /\ t.nonce = s.nonce
                  /\ t.audit = s.audit
                  /\ h \notin Loaded => t = NoSession
<1>1. ASSUME NEW h \in Handles
      PROVE  LET s == sessions[h]
                 t == [s EXCEPT !.missed = s.audit]
             IN  t \in Session /\ t.by = s.by /\ t.key = s.key /\ t.bind = s.bind
                   /\ t.nonce = s.nonce /\ t.audit = s.audit
  BY DEF Session
<1>2. [NoSession EXCEPT !.missed = NoSession.audit] = NoSession
  <2>1. NoSession \in Session /\ NoSession.missed = NoSession.audit
    BY DEF NoSession, Session
  <2>2. \A s \in Session : s.missed = s.audit => [s EXCEPT !.missed = s.audit] = s
    BY DEF Session
  <2> QED
    BY <2>1, <2>2
<1> QED
  BY <1>1, <1>2 DEF Missing, Loaded

\* A session that stays has its key, its maker and what is left of its binding; one that is
\* new has a key that no request knows of.
LEMMA HonestOn ==
  ASSUME nonces \in Nat, nonces' \in Nat, nonces <= nonces',
         sessions \in [Handles -> Session], sessions' \in [Handles -> Session],
         \A h \in Handles :
           \/ sessions'[h].key = 0
           \/ sessions'[h].key > nonces
           \/ /\ sessions'[h].by = sessions[h].by /\ sessions'[h].key = sessions[h].key
              /\ sessions'[h].bind \subseteq sessions[h].bind,
         NEW m, Honest(m)
  PROVE  Honest(m)'
<1>1. Requester(m)'
  BY DEF Honest, Requester
<1>2. ASSUME NEW x \in m.mac \cup m.mac2 PROVE Makes(m.by, x)'
  <2>1. /\ x.key[1] \in 0 .. nonces /\ x.key[2] \in Knows[m.by]
        /\ \A h \in Handles : sessions[h].key = x.key[1] => CanKey(m.by, sessions[h])
    BY DEF Honest, Makes
  <2>2. ASSUME NEW h \in Handles, sessions'[h].key = x.key[1] PROVE CanKey(m.by, sessions'[h])
    <3>1. CASE sessions'[h].key = 0
      BY <3>1 DEF CanKey
    <3>2. CASE sessions'[h].key > nonces
      BY <2>1, <2>2, <3>2
    <3>3. CASE /\ sessions'[h].by = sessions[h].by /\ sessions'[h].key = sessions[h].key
               /\ sessions'[h].bind \subseteq sessions[h].bind
      BY <2>1, <2>2, <3>3 DEF CanKey
    <3> QED
      BY <3>1, <3>2, <3>3
  <2>3. x.key[1] \in 0 .. nonces'
    BY <2>1
  <2> QED
    BY <2>1, <2>2, <2>3 DEF Makes
<1> QED
  BY <1>1, <1>2 DEF Honest

\* Whatever a caller prepares it can key, and holds only values that it knows.
LEMMA PreparedIs ==
  ASSUME AuthorizationIInv, NEW c \in Callers, NEW code, NEW e \in Entities, Prepare(c, code, e)
  PROVE  \E m : Honest(m) /\ (Keep(m) \/ Deliver(m))
<1> DEFINE usable == {h \in Loaded : nonces < MaxNonces /\ CanKey(c, sessions[h])}
<1>1. PICK h2 \in {None} \cup usable :
        \E why \in Purposes(h2), mac2 \in Hmacs(h2, {Empty}, 0),
           new \in IF code = "ChangeAuth" THEN Knows[c] \ {Empty} ELSE {Empty},
           h \in IF code = "ReadClock" THEN {None} ELSE {PW} \cup usable :
        \E mac \in Hmacs(h, Knows[c], Auxiliary(h2, why)),
           value \in IF h = PW THEN Knows[c] ELSE {Empty},
           keep \in IF (h \in Handles) = (h2 # None) THEN {TRUE} ELSE BOOLEAN :
          LET m == [by |-> c, code |-> code, e |-> e, new |-> new, keep |-> keep, h |-> h,
                    value |-> value, mac |-> mac, h2 |-> h2, why |-> why, mac2 |-> mac2]
          IN  Keep(m) \/ Deliver(m)
  BY DEF Prepare
<1>2. PICK why \in Purposes(h2), mac2 \in Hmacs(h2, {Empty}, 0),
           new \in IF code = "ChangeAuth" THEN Knows[c] \ {Empty} ELSE {Empty},
           h \in IF code = "ReadClock" THEN {None} ELSE {PW} \cup usable :
        \E mac \in Hmacs(h, Knows[c], Auxiliary(h2, why)),
           value \in IF h = PW THEN Knows[c] ELSE {Empty},
           keep \in IF (h \in Handles) = (h2 # None) THEN {TRUE} ELSE BOOLEAN :
          LET m == [by |-> c, code |-> code, e |-> e, new |-> new, keep |-> keep, h |-> h,
                    value |-> value, mac |-> mac, h2 |-> h2, why |-> why, mac2 |-> mac2]
          IN  Keep(m) \/ Deliver(m)
  BY <1>1
<1>3. PICK mac \in Hmacs(h, Knows[c], Auxiliary(h2, why)),
           value \in IF h = PW THEN Knows[c] ELSE {Empty},
           keep \in IF (h \in Handles) = (h2 # None) THEN {TRUE} ELSE BOOLEAN :
          LET m == [by |-> c, code |-> code, e |-> e, new |-> new, keep |-> keep, h |-> h,
                    value |-> value, mac |-> mac, h2 |-> h2, why |-> why, mac2 |-> mac2]
          IN  Keep(m) \/ Deliver(m)
  BY <1>2
<1> DEFINE m == [by |-> c, code |-> code, e |-> e, new |-> new, keep |-> keep, h |-> h,
                 value |-> value, mac |-> mac, h2 |-> h2, why |-> why, mac2 |-> mac2]
<1>4. Empty \in Knows[c] /\ Knows[c] \subseteq Nat /\ Empty \in Nat
  BY AuthorizationAssumption DEF AuthorizationAssumption, Empty
<1>5. usable \subseteq Handles /\ \A g \in usable : CanKey(c, sessions[g])
  BY DEF Loaded
<1>6. ASSUME NEW g, NEW values \in SUBSET Knows[c], NEW aux, NEW y \in Hmacs(g, values, aux),
             g \in Handles => g \in usable
      PROVE  /\ g \notin Handles => y = {}
             /\ \A x \in y : Makes(c, x)
  <2>1. CASE g \notin Handles
    BY <1>6, <2>1 DEF Hmacs
  <2>2. CASE g \in Handles
    <3>1. y = {} \/ \E v \in values : y = {Hmac(<<sessions[g].key, v>>, sessions[g].nonce, aux)}
      BY <1>6, <2>2 DEF Hmacs
    <3>2. ASSUME NEW x \in y PROVE Makes(c, x)
      <4>1. PICK v \in values : x = Hmac(<<sessions[g].key, v>>, sessions[g].nonce, aux)
        BY <3>1, <3>2
      <4>2. x.key[1] = sessions[g].key /\ x.key[2] = v
        BY <4>1 DEF Hmac
      <4>3. sessions[g].key \in 0 .. nonces
        BY <2>2 DEF AuthorizationIInv, Apart
      <4>4. ASSUME NEW f \in Handles, sessions[f].key = sessions[g].key
            PROVE  CanKey(c, sessions[f])
        <5>1. CASE f = g
          BY <1>5, <1>6, <2>2, <5>1
        <5>2. CASE f # g
          <6>1. sessions[f].key = 0
            BY <2>2, <4>4, <5>2 DEF AuthorizationIInv, Apart
          <6> QED
            BY <6>1 DEF CanKey
        <5> QED
          BY <5>1, <5>2
      <4> QED
        BY <1>6, <4>2, <4>3, <4>4 DEF Makes
    <3> QED
      BY <2>2, <3>2
  <2> QED
    BY <2>1, <2>2
<1>7. h2 \in Handles => h2 \in usable
  BY HandlesAre
<1>8. h \in Handles => h \in usable
  <2>1. h \in {None, PW} \cup usable
    BY <1>2
  <2> QED
    BY <2>1, HandlesAre
<1>9. /\ h2 \notin Handles => mac2 = {}
      /\ \A x \in mac2 : Makes(c, x)
  BY <1>2, <1>4, <1>6, <1>7
<1>10. /\ h \notin Handles => mac = {}
       /\ \A x \in mac : Makes(c, x)
  BY <1>3, <1>6, <1>8
<1>11. new \in Nat
  <2>1. new \in Knows[c] \cup {Empty}
    BY <1>2
  <2> QED
    BY <1>4, <2>1
<1>12. keep \in BOOLEAN
  BY <1>3
<1>13. h = PW => value \in Knows[c]
  BY <1>3
<1>14. h \in Handles \cup {None, PW} /\ h2 \in Handles \cup {None}
  <2>1. h \in {None, PW} \cup usable
    BY <1>2
  <2> QED
    BY <1>5, <2>1
<1> HIDE DEF usable
<1>15. Requester(m)
  BY <1>2, <1>9, <1>10, <1>11, <1>12, <1>13, <1>14, HandlesAre DEF Requester
<1>16. \A x \in m.mac \cup m.mac2 : Makes(m.by, x)
  BY <1>9, <1>10
<1>17. Keep(m) \/ Deliver(m)
  BY <1>3
<1> HIDE DEF m
<1> QED
  BY <1>15, <1>16, <1>17 DEF Honest

-----------------------------------------------------------------------------
(* Authorization.  A request that is carried out.                          *)

\* A request is carried out only for a caller that knows the value there is.
LEMMA KnowsTheValue ==
  ASSUME AuthorizationIInv, NEW m, Honest(m), Deliver(m), m.h # None
  PROVE  auth[m.e] \in Knows[m.by]
<1>1. Requester(m) /\ CheckAuthorization(m)
  BY DEF Honest, Deliver
<1>2. CASE m.h = PW
  BY <1>1, <1>2, HandlesAre DEF Requester, CheckAuthorization, EntityAuth
<1>3. CASE m.h \in Handles
  <2> DEFINE s == sessions[m.h]
             key == HmacKey(s, m.e)
             expected == Hmac(key, s.nonce, Auxiliary(m.h2, m.why))
  <2>1. Accepted(key, expected, m.mac)
    BY <1>1, <1>3, HandlesAre DEF CheckAuthorization
  <2>2. key[1] = s.key /\ key[2] = IF IsBoundTo(s, m.e) THEN Empty ELSE auth[m.e]
    BY DEF HmacKey, EntityAuth
  <2>3. Empty \in Knows[m.by]
    BY <1>1, AuthorizationAssumption DEF AuthorizationAssumption, Requester
  <2>4. s.bind # {} => s.key # 0
    BY <1>3 DEF AuthorizationIInv, Apart
  <2>5. IsBoundTo(s, m.e) => <<m.e, auth[m.e]>> \in s.bind
    BY DEF IsBoundTo, EntityAuth
  <2> HIDE DEF s
  <2>6. CASE m.mac = {expected}
    <3>1. Makes(m.by, expected)
      BY <2>6 DEF Honest
    <3>2. expected.key = key
      BY DEF Hmac
    <3>3. key[2] \in Knows[m.by] /\ CanKey(m.by, s)
      BY <1>3, <2>2, <3>1, <3>2 DEF Makes, s
    <3>4. CASE IsBoundTo(s, m.e)
      <4>1. \A b \in s.bind : b[2] \in Knows[m.by]
        BY <2>4, <2>5, <3>3, <3>4 DEF CanKey
      <4> QED
        BY <2>5, <3>4, <4>1
    <3> QED
      BY <2>2, <3>3, <3>4
  <2>7. CASE m.mac = {} /\ key = <<0, Empty>>
    <3>1. s.key = 0 /\ key[2] = Empty
      BY <2>2, <2>7
    <3>2. ~IsBoundTo(s, m.e)
      BY <2>4, <2>5, <3>1
    <3> QED
      BY <2>2, <2>3, <3>1, <3>2
  <2> QED
    BY <2>1, <2>6, <2>7 DEF Accepted
<1> QED
  BY <1>1, <1>2, <1>3 DEF Requester

Used(m) == {x.nonce : x \in m.mac \cup m.mac2}

\* Every HMAC that is accepted holds the nonce of a session of the area.
LEMMA UsedAreRolled ==
  ASSUME AuthorizationIInv, NEW m, Honest(m), Deliver(m)
  PROVE  \A n \in Used(m) : \E h \in Rolled(m) \cap Loaded : n = sessions[h].nonce
<1>1. Requester(m) /\ CheckAuthorization(m) /\ CheckUnauthorized(m) /\ SessionsLoaded(m)
  BY DEF Honest, Deliver
<1>2. \A h \in {m.h, m.h2} \cap Handles : h \in Rolled(m) \cap Loaded
  BY <1>1 DEF SessionsLoaded, Rolled
<1>3. ASSUME NEW x \in m.mac
      PROVE  \E h \in Rolled(m) \cap Loaded : x.nonce = sessions[h].nonce
  <2>1. m.h \in Handles
    BY <1>1, <1>3 DEF Requester
  <2>2. x = Hmac(HmacKey(sessions[m.h], m.e), sessions[m.h].nonce, Auxiliary(m.h2, m.why))
    BY <1>1, <1>3, <2>1, HandlesAre DEF CheckAuthorization, Accepted
  <2> QED
    BY <1>2, <2>1, <2>2 DEF Hmac
<1>4. ASSUME NEW x \in m.mac2
      PROVE  \E h \in Rolled(m) \cap Loaded : x.nonce = sessions[h].nonce
  <2>1. m.h2 \in Handles
    BY <1>1, <1>4 DEF Requester
  <2>2. x = Hmac(<<sessions[m.h2].key, Empty>>, sessions[m.h2].nonce, 0)
    BY <1>1, <1>4, <2>1, HandlesAre DEF CheckUnauthorized, Accepted
  <2> QED
    BY <1>2, <2>1, <2>2 DEF Hmac
<1> QED
  BY <1>3, <1>4 DEF Used

\* How many nonces are drawn.
LEMMA RolledAre ==
  ASSUME NEW m
  PROVE  LET n == Cardinality(Rolled(m)) IN
         /\ n \in Nat
         /\ Rolled(m) # {} => n >= 1
         /\ m.h \in Rolled(m) /\ m.h2 \in Rolled(m) /\ m.h # m.h2 => n = 2
<1> DEFINE R == Rolled(m)
<1>1. R \subseteq {m.h, m.h2}
  BY DEF Rolled
<1>2. Cardinality({}) = 0 /\ Cardinality({m.h}) = 1 /\ Cardinality({m.h2}) = 1
  BY FS_EmptySet, FS_Singleton
<1>3. m.h # m.h2 => Cardinality({m.h, m.h2}) = 2
  <2>1. IsFiniteSet({m.h}) /\ {m.h, m.h2} = {m.h} \cup {m.h2}
    BY FS_Singleton
  <2>2. m.h # m.h2 => Cardinality({m.h} \cup {m.h2}) = Cardinality({m.h}) + 1
    BY <2>1, FS_AddElement
  <2> QED
    BY <1>2, <2>1, <2>2
<1>4. R = {} \/ R = {m.h} \/ R = {m.h2} \/ (R = {m.h, m.h2} /\ m.h # m.h2)
  BY <1>1
<1> HIDE DEF R
<1> QED
  BY <1>2, <1>3, <1>4 DEF R

\* What is left of a session.
LEMMA SessionAfter ==
  ASSUME AuthorizationIInv, NEW m, Honest(m), Deliver(m), NEW h \in Handles
  PROVE  LET s == sessions[h]
             t == sessions'[h]
         IN  \/ t = NoSession /\ (h \in Loaded => h \in Rolled(m) /\ ~m.keep)
             \/ /\ h \in Loaded /\ (h \in Rolled(m) => m.keep)
                /\ t \in Session
                /\ t.by = s.by /\ t.key = s.key /\ t.bind \in {s.bind, {}}
                /\ t.nonce = IF h \notin Rolled(m) THEN s.nonce
                             ELSE IF h = m.h THEN nonces + 1 ELSE nonces'
                /\ h = m.h2 /\ Audits(m) => ~t.missed
                /\ m.code = "ReadClock" /\ ~Audits(m) => t.missed = s.missed
<1> DEFINE rolled == Rolled(m)
           before == IF m.code = "ReadClock" /\ ~Audits(m) THEN sessions ELSE Missing(sessions)
           b == before[h]
           r == IF h = m.h /\ h \in rolled THEN [b EXCEPT !.nonce = nonces + 1]
                ELSE IF h \in rolled THEN [b EXCEPT !.nonce = nonces']
                ELSE b
           s == sessions[h]
           t == sessions'[h]
<1>1. sessions \in [Handles -> Session] /\ nonces \in Nat
  BY DEF AuthorizationIInv, AuthorizationTypeOK
<1>2. /\ b \in Session /\ b.by = s.by /\ b.key = s.key /\ b.bind = s.bind /\ b.nonce = s.nonce
      /\ m.code = "ReadClock" /\ ~Audits(m) => b.missed = s.missed
      /\ h \notin Loaded => b = NoSession
  BY <1>1, MissingIs DEF Loaded
<1>3. nonces' = nonces + Cardinality(rolled) /\ t = Closed(m, h, r)
  BY DEF Deliver
<1>4. nonces' \in Nat
  BY <1>1, <1>3, RolledAre
<1> HIDE DEF before, b
<1>5. /\ r \in Session /\ r.by = s.by /\ r.key = s.key /\ r.bind = s.bind
      /\ r.nonce = IF h \notin rolled THEN s.nonce ELSE IF h = m.h THEN nonces + 1 ELSE nonces'
      /\ m.code = "ReadClock" /\ ~Audits(m) => r.missed = s.missed
  <2> HIDE DEF rolled, s
  <2>1. CASE h \notin rolled
    BY <1>2, <2>1
  <2>2. CASE h \in rolled /\ h = m.h
    BY <1>1, <1>2, <2>2 DEF Session
  <2>3. CASE h \in rolled /\ h # m.h
    BY <1>2, <1>4, <2>3 DEF Session
  <2> QED
    BY <2>1, <2>2, <2>3
<1> HIDE DEF r
<1>6. /\ h \in rolled <=> h \in {m.h, m.h2}
      /\ h \in rolled => h \in Loaded
  BY DEF Rolled, Deliver, SessionsLoaded
<1>10. CASE h \notin Loaded
  <2>1. h \notin rolled /\ b = NoSession /\ r = b
    BY <1>2, <1>6, <1>10 DEF r
  <2>2. t = NoSession
    BY <1>3, <1>6, <2>1 DEF Closed
  <2> QED
    BY <1>10, <2>2
<1>7. CASE h \in {m.h, m.h2} /\ ~m.keep
  BY <1>3, <1>6, <1>7 DEF Closed
<1>8. CASE h \in Loaded /\ ~(h \in {m.h, m.h2} /\ ~m.keep) /\ h = m.h2 /\ Audits(m)
  <2> DEFINE w == [r EXCEPT !.bind = {}, !.audit = TRUE, !.missed = FALSE]
  <2>1. t = w
    BY <1>3, <1>8 DEF Closed
  <2>2. /\ w \in Session /\ w.by = s.by /\ w.key = s.key /\ w.bind = {} /\ ~w.missed
        /\ w.nonce = r.nonce
    BY <1>5 DEF Session
  <2> HIDE DEF w, t, s
  <2> QED
    BY <1>5, <1>6, <1>8, <2>1, <2>2 DEF t, s
<1>9. CASE h \in Loaded /\ ~(h \in {m.h, m.h2} /\ ~m.keep) /\ ~(h = m.h2 /\ Audits(m))
  <2>1. t = r
    BY <1>3, <1>9 DEF Closed
  <2> QED
    BY <1>5, <1>6, <1>9, <2>1
<1> QED
  BY <1>7, <1>8, <1>9, <1>10

LEMMA DeliverKeeps ==
  ASSUME AuthorizationIInv, NEW m, Honest(m), Deliver(m)
  PROVE  AuthorizationIInv'
<1> DEFINE rolled == Rolled(m)
           n == Cardinality(rolled)
<1>1. AuthorizationTypeOK /\ Apart /\ Unbroken /\ Requester(m)
  BY DEF AuthorizationIInv, Honest
<1>2. /\ nonces' = nonces + n /\ rolled = {m.h, m.h2} \cap Handles
      /\ redeemed' \subseteq redeemed \cup Used(m)
      /\ replayed' = (replayed \/ Used(m) \cap redeemed # {})
      /\ sessions' = [h \in Handles |-> sessions'[h]]
      /\ UNCHANGED net
  BY DEF Deliver, Rolled, Used
<1>3. /\ n \in Nat /\ (rolled # {} => n >= 1)
      /\ m.h \in rolled /\ m.h2 \in rolled /\ m.h # m.h2 => n = 2
  BY RolledAre
<1>4. nonces \in Nat /\ nonces' \in Nat /\ nonces <= nonces' /\ redeemed \subseteq 1 .. nonces
  BY <1>1, <1>2, <1>3 DEF AuthorizationTypeOK
<1>5. \A x \in Used(m) : \E h \in rolled \cap Loaded : x = sessions[h].nonce
  BY UsedAreRolled
<1>6. \A h \in Handles :
        LET s == sessions[h]
            t == sessions'[h]
        IN  \/ t = NoSession /\ (h \in Loaded => h \in rolled /\ ~m.keep)
            \/ /\ h \in Loaded /\ (h \in rolled => m.keep)
               /\ t \in Session
               /\ t.by = s.by /\ t.key = s.key /\ t.bind \in {s.bind, {}}
               /\ t.nonce = IF h \notin rolled THEN s.nonce
                            ELSE IF h = m.h THEN nonces + 1 ELSE nonces'
               /\ h = m.h2 /\ Audits(m) => ~t.missed
               /\ m.code = "ReadClock" /\ ~Audits(m) => t.missed = s.missed
  BY SessionAfter
<1>7. /\ NoSession \in Session /\ NoSession.nonce = 0 /\ NoSession.key = 0 /\ NoSession.bind = {}
  BY DEF NoSession, Session
<1>8. \A h \in Handles :
        /\ sessions[h].nonce \in 0 .. nonces /\ sessions[h].nonce \notin redeemed
        /\ sessions[h].key \in 0 .. nonces
        /\ h \in Loaded => sessions[h].nonce # 0
        /\ sessions[h].bind # {} => sessions[h].key # 0
        /\ \A g \in Handles \ {h} :
             /\ sessions[g].nonce = sessions[h].nonce => sessions[h].nonce = 0
             /\ sessions[g].key = sessions[h].key => sessions[h].key = 0
  BY <1>1 DEF Apart
<1>9. \A h \in rolled : h \in Handles /\ (h = m.h \/ h = m.h2)
  BY <1>2
<1> HIDE DEF rolled, n
<1>10. \A x \in Used(m) : x \in 1 .. nonces /\ x \notin redeemed
  BY <1>4, <1>5, <1>8, <1>9
<1>11. Used(m) \cap redeemed = {} /\ redeemed' \subseteq 1 .. nonces'
  <2>1. redeemed' \subseteq 1 .. nonces
    BY <1>2, <1>4, <1>10
  <2>2. 1 .. nonces \subseteq 1 .. nonces'
    BY <1>4
  <2> QED
    BY <1>10, <2>1, <2>2
<1>12. AuthorizationTypeOK'
  <2>1. sessions' \in [Handles -> Session]
    BY <1>2, <1>6, <1>7
  <2>2. auth' \in [Entities -> Nat]
    BY <1>1 DEF Deliver, ChangeAuth, AuthorizationTypeOK, Requester
  <2>3. exclusive' \in Handles \cup {None}
    <3>1. exclusive' \in {exclusive, m.h2, None}
      BY DEF Deliver, ExclusiveAfter
    <3> QED
      BY <1>1, <3>1 DEF AuthorizationTypeOK, Requester
  <2> QED
    BY <1>4, <1>11, <2>1, <2>2, <2>3 DEF AuthorizationTypeOK
<1>13. ASSUME NEW h \in Handles
       PROVE  \/ sessions'[h].nonce = 0
              \/ /\ sessions'[h].nonce \in nonces + 1 .. nonces' /\ h \in rolled
                 /\ h = m.h => sessions'[h].nonce = nonces + 1
                 /\ h # m.h => sessions'[h].nonce = nonces' /\ h = m.h2
              \/ sessions'[h].nonce = sessions[h].nonce /\ h \notin rolled
  <2>1. CASE h \in rolled
    <3>1. n >= 1 /\ (h = m.h \/ h = m.h2)
      BY <1>3, <1>9, <2>1
    <3>2. nonces + 1 \in nonces + 1 .. nonces' /\ nonces' \in nonces + 1 .. nonces'
      BY <1>2, <1>3, <1>4, <3>1
    <3> QED
      BY <1>6, <1>7, <2>1, <3>1, <3>2
  <2>2. CASE h \notin rolled
    BY <1>6, <1>7, <2>2
  <2> QED
    BY <2>1, <2>2
<1>14. ASSUME NEW h \in Handles PROVE sessions'[h].nonce \in 0 .. nonces' \ redeemed'
  <2>1. CASE sessions'[h].nonce = 0
    BY <1>4, <1>11, <2>1
  <2>2. CASE sessions'[h].nonce \in nonces + 1 .. nonces'
    <3>1. redeemed' \subseteq 1 .. nonces
      BY <1>2, <1>4, <1>10
    <3> QED
      BY <1>4, <2>2, <3>1
  <2>3. CASE sessions'[h].nonce = sessions[h].nonce /\ h \notin rolled /\ sessions[h].nonce # 0
    <3>1. sessions[h].nonce \notin Used(m)
      <4>1. ASSUME NEW g \in rolled \cap Loaded PROVE sessions[h].nonce # sessions[g].nonce
        BY <1>8, <1>9, <2>3, <4>1
      <4> QED
        BY <1>5, <4>1
    <3>2. sessions[h].nonce \in 0 .. nonces' /\ sessions[h].nonce \notin redeemed
      BY <1>4, <1>8
    <3> QED
      BY <1>2, <2>3, <3>1, <3>2
  <2> QED
    BY <1>13, <2>1, <2>2, <2>3
<1>15. ASSUME NEW h \in Handles, NEW g \in Handles \ {h}, sessions'[g].nonce = sessions'[h].nonce
       PROVE  sessions'[h].nonce = 0
  <2> DEFINE a == sessions'[h].nonce
             b == sessions'[g].nonce
  <2>1. CASE h \in rolled /\ g \in rolled
    <3>1. n = 2 => nonces' = nonces + 2
      BY <1>2
    <3>2. {h, g} = {m.h, m.h2} /\ n = 2
      BY <1>3, <1>9, <2>1
    <3> HIDE DEF n
    <3>3. nonces' # nonces + 1
      BY <1>4, <3>1, <3>2
    <3> QED
      BY <1>13, <1>15, <2>1, <3>2, <3>3
  <2>2. CASE h \in rolled /\ g \notin rolled
    BY <1>4, <1>8, <1>13, <1>15, <2>2
  <2>3. CASE h \notin rolled /\ g \in rolled
    BY <1>4, <1>8, <1>13, <1>15, <2>3
  <2>4. CASE h \notin rolled /\ g \notin rolled
    BY <1>8, <1>13, <1>15, <2>4
  <2> QED
    BY <2>1, <2>2, <2>3, <2>4
<1>16. ASSUME NEW h \in Handles
       PROVE  /\ sessions'[h].key \in 0 .. nonces' /\ sessions'[h].key \in {0, sessions[h].key}
              /\ sessions'[h].bind # {} => sessions'[h].key # 0
              /\ h \in Loaded' => sessions'[h].nonce # 0
  <2>1. CASE sessions'[h] = NoSession
    BY <1>4, <1>7, <2>1 DEF Loaded
  <2>2. CASE sessions'[h] # NoSession
    <3>1. /\ sessions'[h].key = sessions[h].key /\ sessions'[h].bind \in {sessions[h].bind, {}}
          /\ sessions[h].key \in 0 .. nonces
      BY <1>6, <1>8, <2>2
    <3>2. sessions'[h].nonce # 0
      <4>1. CASE h \in rolled
        BY <1>2, <1>3, <1>4, <1>6, <2>2, <4>1
      <4>2. CASE h \notin rolled
        <5>1. sessions'[h].nonce = sessions[h].nonce
          BY <1>6, <2>2, <4>2
        <5>2. h \in Loaded
          BY <1>6, <2>2
        <5> QED
          BY <1>8, <5>1, <5>2
      <4> QED
        BY <4>1, <4>2
    <3> QED
      BY <1>4, <1>8, <3>1, <3>2
  <2> QED
    BY <2>1, <2>2
<1>17. Apart'
  <2>1. ASSUME NEW h \in Handles, NEW g \in Handles \ {h}, sessions'[g].key = sessions'[h].key
        PROVE  sessions'[h].key = 0
    BY <1>8, <1>16, <2>1
  <2> QED
    BY <1>14, <1>15, <1>16, <2>1 DEF Apart
<1>18. \A h \in Handles :
         \/ sessions'[h].key = 0
         \/ /\ sessions'[h].by = sessions[h].by /\ sessions'[h].key = sessions[h].key
            /\ sessions'[h].bind \subseteq sessions[h].bind
  BY <1>6, <1>7
<1>19. (\A x \in net : Honest(x))'
  <2> SUFFICES ASSUME NEW x \in net' PROVE Honest(x)'
    OBVIOUS
  <2>1. Honest(x)
    BY <1>2 DEF AuthorizationIInv
  <2> QED
    BY <1>1, <1>4, <1>12, <1>18, <2>1, HonestOn DEF AuthorizationTypeOK
<1>20. Audits(m) => m.h2 \in Handles
  BY <1>1 DEF Requester, Audits, Purposes
<1>21. Unbroken'
  <2> SUFFICES ASSUME exclusive' # None PROVE exclusive' \in Loaded' /\ ~sessions'[exclusive'].missed
    BY DEF Unbroken
  <2>1. /\ exclusive' = ExclusiveAfter(m)
        /\ exclusive' \in {m.h, m.h2} => m.keep
    BY <1>1 DEF Deliver, Requester
  <2>2. CASE Audits(m)
    <3>1. exclusive' = m.h2 /\ m.h2 \in Handles /\ m.h2 \in rolled /\ m.keep /\ m.h2 \in Loaded
      BY <1>2, <1>20, <2>1, <2>2 DEF ExclusiveAfter, rolled, Deliver, SessionsLoaded
    <3>2. sessions'[m.h2].nonce # 0 /\ ~sessions'[m.h2].missed
      BY <1>2, <1>3, <1>4, <1>6, <2>2, <3>1
    <3> QED
      BY <1>7, <3>1, <3>2 DEF Loaded
  <2>3. CASE ~Audits(m)
    <3>1. m.code = "ReadClock" /\ exclusive' = exclusive
      BY <2>1, <2>3 DEF ExclusiveAfter
    <3>2. exclusive \in Loaded /\ ~sessions[exclusive].missed /\ exclusive \in Handles
      BY <1>1, <3>1 DEF Unbroken, Loaded
    <3>3. exclusive \in rolled => m.keep
      BY <1>9, <2>1, <3>1
    <3>4. sessions'[exclusive].nonce # 0 /\ ~sessions'[exclusive].missed
      BY <1>2, <1>3, <1>4, <1>6, <1>8, <2>3, <3>1, <3>2, <3>3
    <3> QED
      BY <1>7, <3>1, <3>2, <3>4 DEF Loaded
  <2> QED
    BY <2>2, <2>3
<1>22. ~replayed' /\ blind' = {} /\ ~gapped'
  <2>1. ~replayed'
    BY <1>2, <1>11 DEF AuthorizationIInv
  <2>2. blind' = {}
    BY KnowsTheValue DEF Deliver, AuthorizationIInv
  <2>3. m.why = "exclusive" => ~sessions[m.h2].missed
    <3>1. m.why = "exclusive" => m.h2 \in Handles /\ exclusive = m.h2
      BY <1>20 DEF Deliver, CheckAuditSession, Audits
    <3> QED
      BY <1>1, <3>1, HandlesAre DEF Unbroken
  <2>4. ~gapped'
    BY <2>3 DEF Deliver, AuthorizationIInv
  <2> QED
    BY <2>1, <2>2, <2>4
<1> QED
  BY <1>12, <1>17, <1>19, <1>21, <1>22 DEF AuthorizationIInv

-----------------------------------------------------------------------------
(* Authorization.  The other steps, and the theorems.                      *)

LEMMA StartKeeps ==
  ASSUME AuthorizationIInv, NEW c \in Callers \cup {"anyone"}, NEW bind \in SUBSET Entities,
         StartAuthSession(c, bind)
  PROVE  AuthorizationIInv'
<1>1. /\ AuthorizationTypeOK /\ Apart
      /\ UNCHANGED <<auth, net, redeemed, replayed, blind, gapped>>
      /\ nonces' = nonces + 1 /\ exclusive' = None
  BY DEF AuthorizationIInv, StartAuthSession, history
<1> DEFINE x == [NoSession EXCEPT !.by = c, !.nonce = nonces + 1,
                                  !.bind = {<<e, EntityAuth(e)>> : e \in bind},
                                  !.key = IF bind = {} THEN 0 ELSE nonces + 1]
           b == Missing(sessions)
<1>2. PICK n \in Handles \ Loaded : sessions' = [b EXCEPT ![n] = x]
  BY DEF StartAuthSession
<1>3. nonces \in Nat /\ nonces' \in Nat /\ nonces <= nonces' /\ redeemed \subseteq 1 .. nonces
  BY <1>1 DEF AuthorizationTypeOK
<1>4. /\ x \in Session /\ x.nonce = nonces + 1 /\ x.key \in {0, nonces + 1}
      /\ x.bind # {} => x.key # 0
  <2> DEFINE B == {<<e, EntityAuth(e)>> : e \in bind}
             k == IF bind = {} THEN 0 ELSE nonces + 1
  <2>1. B \in SUBSET (Entities \X Nat) /\ k \in Nat /\ nonces + 1 \in Nat
    BY <1>1, <1>3 DEF AuthorizationTypeOK, EntityAuth
  <2>2. B # {} => k # 0
    BY <1>3
  <2>3. k \in {0, nonces + 1}
    OBVIOUS
  <2> HIDE DEF B, k
  <2>4. x = [NoSession EXCEPT !.by = c, !.nonce = nonces + 1, !.bind = B, !.key = k]
    BY DEF B, k
  <2> QED
    BY <2>1, <2>2, <2>3, <2>4 DEF NoSession, Session
<1> HIDE DEF x
<1>5. /\ b \in [Handles -> Session]
      /\ \A h \in Handles :
           /\ b[h].by = sessions[h].by /\ b[h].key = sessions[h].key
           /\ b[h].bind = sessions[h].bind /\ b[h].nonce = sessions[h].nonce
           /\ h \notin Loaded => b[h] = NoSession
  BY <1>1, MissingIs DEF AuthorizationTypeOK
<1> HIDE DEF b
<1>6. /\ sessions' \in [Handles -> Session] /\ sessions'[n] = x
      /\ \A h \in Handles \ {n} : sessions'[h] = b[h]
  BY <1>2, <1>4, <1>5
<1>7. AuthorizationTypeOK'
  <2>1. redeemed' \subseteq 1 .. nonces'
    BY <1>1, <1>3
  <2> QED
    BY <1>1, <1>3, <1>6, <2>1 DEF AuthorizationTypeOK
<1>8. \A h \in Handles :
        /\ sessions[h].nonce \in 0 .. nonces /\ sessions[h].nonce \notin redeemed
        /\ sessions[h].key \in 0 .. nonces
        /\ h \in Loaded => sessions[h].nonce # 0
        /\ sessions[h].bind # {} => sessions[h].key # 0
        /\ \A g \in Handles \ {h} :
             /\ sessions[g].nonce = sessions[h].nonce => sessions[h].nonce = 0
             /\ sessions[g].key = sessions[h].key => sessions[h].key = 0
  BY <1>1 DEF Apart
<1>9. \A h \in Handles :
        \/ h = n /\ sessions'[h].nonce = nonces + 1 /\ sessions'[h].key \in {0, nonces + 1}
        \/ /\ h # n /\ sessions'[h].nonce = sessions[h].nonce
           /\ sessions'[h].key = sessions[h].key
  BY <1>4, <1>5, <1>6
<1>10. Apart'
  <2>1. ASSUME NEW h \in Handles
        PROVE  /\ sessions'[h].nonce \in 0 .. nonces' \ redeemed'
               /\ sessions'[h].key \in 0 .. nonces'
    BY <1>1, <1>3, <1>8, <1>9
  <2>2. ASSUME NEW h \in Handles
        PROVE  /\ h \in Loaded' => sessions'[h].nonce # 0
               /\ sessions'[h].bind # {} => sessions'[h].key # 0
    <3>1. CASE h = n
      BY <1>3, <1>4, <1>6, <3>1
    <3>2. CASE h # n
      BY <1>5, <1>6, <1>8, <3>2 DEF Loaded
    <3> QED
      BY <3>1, <3>2
  <2>3. ASSUME NEW h \in Handles, NEW g \in Handles \ {h}
        PROVE  /\ sessions'[g].nonce = sessions'[h].nonce => sessions'[h].nonce = 0
               /\ sessions'[g].key = sessions'[h].key => sessions'[h].key = 0
    BY <1>3, <1>8, <1>9
  <2> QED
    BY <2>1, <2>2, <2>3 DEF Apart
<1>11. (\A m \in net : Honest(m))'
  <2>1. \A h \in Handles :
          \/ sessions'[h].key = 0
          \/ sessions'[h].key > nonces
          \/ /\ sessions'[h].by = sessions[h].by /\ sessions'[h].key = sessions[h].key
             /\ sessions'[h].bind \subseteq sessions[h].bind
    <3>1. ASSUME NEW h \in Handles, h = n PROVE sessions'[h].key = 0 \/ sessions'[h].key > nonces
      BY <1>3, <1>9, <3>1
    <3> QED
      BY <1>5, <1>6, <3>1
  <2> SUFFICES ASSUME NEW m \in net' PROVE Honest(m)'
    OBVIOUS
  <2>2. Honest(m)
    BY <1>1 DEF AuthorizationIInv
  <2> QED
    BY <1>1, <1>3, <1>6, <2>1, <2>2, HonestOn DEF AuthorizationTypeOK
<1> QED
  BY <1>1, <1>7, <1>10, <1>11 DEF AuthorizationIInv, Unbroken

LEMMA FlushKeeps ==
  ASSUME AuthorizationIInv, NEW n \in Handles, FlushContext(n)
  PROVE  AuthorizationIInv'
<1>1. /\ AuthorizationTypeOK /\ Apart /\ Unbroken
      /\ UNCHANGED <<auth, nonces, net, redeemed, replayed, blind, gapped>>
      /\ sessions' = [sessions EXCEPT ![n] = NoSession]
      /\ exclusive' = IF exclusive = n THEN None ELSE exclusive
  BY DEF AuthorizationIInv, FlushContext, history
<1>2. /\ NoSession \in Session /\ NoSession.nonce = 0 /\ NoSession.key = 0 /\ NoSession.bind = {}
  BY DEF NoSession, Session
<1>3. /\ sessions' \in [Handles -> Session] /\ sessions'[n] = NoSession
      /\ \A h \in Handles \ {n} : sessions'[h] = sessions[h]
  BY <1>1, <1>2 DEF AuthorizationTypeOK
<1>4. AuthorizationTypeOK'
  BY <1>1, <1>3 DEF AuthorizationTypeOK
<1>5. Apart'
  <2>1. 0 \in 0 .. nonces /\ 0 \notin redeemed
    BY <1>1 DEF AuthorizationTypeOK
  <2>2. ASSUME NEW h \in Handles
        PROVE  /\ sessions'[h].nonce \in 0 .. nonces \ redeemed
               /\ sessions'[h].key \in 0 .. nonces
               /\ h \in Loaded' => sessions'[h].nonce # 0
               /\ sessions'[h].bind # {} => sessions'[h].key # 0
    BY <1>1, <1>2, <1>3, <2>1 DEF Apart, Loaded
  <2>3. ASSUME NEW h \in Handles, NEW g \in Handles \ {h}
        PROVE  /\ sessions'[g].nonce = sessions'[h].nonce => sessions'[h].nonce = 0
               /\ sessions'[g].key = sessions'[h].key => sessions'[h].key = 0
    BY <1>1, <1>2, <1>3 DEF Apart
  <2> QED
    BY <1>1, <2>2, <2>3 DEF Apart
<1>6. (\A m \in net : Honest(m))'
  <2>1. nonces \in Nat /\ nonces <= nonces'
    BY <1>1 DEF AuthorizationTypeOK
  <2>2. \A h \in Handles :
          \/ sessions'[h].key = 0
          \/ /\ sessions'[h].by = sessions[h].by /\ sessions'[h].key = sessions[h].key
             /\ sessions'[h].bind \subseteq sessions[h].bind
    BY <1>2, <1>3
  <2> SUFFICES ASSUME NEW m \in net' PROVE Honest(m)'
    OBVIOUS
  <2>3. Honest(m)
    BY <1>1 DEF AuthorizationIInv
  <2> QED
    BY <1>1, <1>3, <2>1, <2>2, <2>3, HonestOn DEF AuthorizationTypeOK
<1>7. Unbroken'
  BY <1>1, <1>3 DEF Unbroken, Loaded
<1> QED
  BY <1>1, <1>4, <1>5, <1>6, <1>7 DEF AuthorizationIInv

\* The transport keeps a request, or loses it.
LEMMA CarriedKeeps ==
  ASSUME AuthorizationIInv, net' \subseteq net \cup {m \in net' : Honest(m)},
         UNCHANGED <<sessions, auth, exclusive, nonces, history>>
  PROVE  AuthorizationIInv'
<1>1. \A m \in net' : Honest(m)
  BY DEF AuthorizationIInv
<1>2. (\A m \in net : Honest(m))'
  <2> SUFFICES ASSUME NEW m \in net' PROVE Honest(m)'
    OBVIOUS
  <2>1. Honest(m)
    BY <1>1
  <2> QED
    BY <2>1 DEF Honest, Makes, Requester
<1>3. AuthorizationTypeOK' /\ Apart' /\ Unbroken' /\ ~replayed' /\ blind' = {} /\ ~gapped'
  BY DEF AuthorizationIInv, AuthorizationTypeOK, Apart, Loaded, Unbroken, history
<1> QED
  BY <1>2, <1>3 DEF AuthorizationIInv

\* The invariant: no nonce and no key belongs to two sessions, and none that a session has was
\* used; what is under way was made by a caller that can compute its key (execute.rs); and the
\* exclusive session is loaded with nothing after its last entry (dispatch.rs).
THEOREM AuthorizationHolds == AuthorizationSpec => []AuthorizationIInv
<1>1. AuthorizationInit => AuthorizationIInv
  BY AuthorizationInitHolds
<1>2. AuthorizationIInv /\ [AuthorizationNext]_authorizationVars => AuthorizationIInv'
  <2> SUFFICES ASSUME AuthorizationIInv, [AuthorizationNext]_authorizationVars
               PROVE  AuthorizationIInv'
    OBVIOUS
  <2>1. ASSUME NEW c \in Callers, NEW e \in Entities, StartAuthSession(c, {e})
        PROVE  AuthorizationIInv'
    BY <2>1, StartKeeps
  <2>2. CASE StartAuthSession("anyone", {})
    BY <2>2, StartKeeps
  <2>3. ASSUME NEW h \in Handles, FlushContext(h) PROVE AuthorizationIInv'
    BY <2>3, FlushKeeps
  <2>4. ASSUME NEW m, Honest(m), Keep(m) PROVE AuthorizationIInv'
    BY <2>4, CarriedKeeps DEF Keep
  <2>5. ASSUME NEW c \in Callers, NEW code, NEW e \in Entities, Prepare(c, code, e)
        PROVE  AuthorizationIInv'
    BY <2>4, <2>5, PreparedIs, DeliverKeeps
  <2>6. ASSUME NEW m \in net, Lose(m) PROVE AuthorizationIInv'
    BY <2>6, CarriedKeeps DEF Lose
  <2>7. ASSUME NEW m \in net, Deliver(m) PROVE AuthorizationIInv'
    BY <2>7, DeliverKeeps DEF AuthorizationIInv
  <2>8. CASE UNCHANGED authorizationVars
    BY <2>8, CarriedKeeps DEF authorizationVars
  <2> QED
    BY <2>1, <2>2, <2>3, <2>5, <2>6, <2>7, <2>8 DEF AuthorizationNext
<1> QED
  BY <1>1, <1>2, PTL DEF AuthorizationSpec

\* However a request is delivered, an HMAC leads to one command at most: success rolls the
\* nonces of every session in its area (roll_response_nonces in dispatch.rs).
THEOREM NoReplayEver == AuthorizationSpec => []NoReplay
<1>1. AuthorizationIInv => NoReplay
  BY DEF AuthorizationIInv, NoReplay
<1> QED
  BY <1>1, AuthorizationHolds, PTL

\* A command on an entity runs only for a caller that knows the authValue the entity has then
\* (hmac_key and is_bound_to).
THEOREM OldValueIsCutOff == AuthorizationSpec => []OldValueCutOff
<1>1. AuthorizationIInv => OldValueCutOff
  BY DEF AuthorizationIInv, OldValueCutOff
<1> QED
  BY <1>1, AuthorizationHolds, PTL

\* A command audited with auditExclusive follows the session's entry before it with no other
\* auditable command in between (update_audit in dispatch.rs).
THEOREM LogIsUnbroken == AuthorizationSpec => []LogUnbroken
<1>1. AuthorizationIInv => LogUnbroken
  BY DEF AuthorizationIInv, LogUnbroken
<1> QED
  BY <1>1, AuthorizationHolds, PTL
=============================================================================
