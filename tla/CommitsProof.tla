----------------------------- MODULE CommitsProof -----------------------------
(***************************************************************************)
(* For every array size and counter width where the first divides the      *)
(* second: a commit value is used at most once, an unused one in the       *)
(* window stays usable, and the implementation refines one-time tokens.    *)
(* The same holds under every command that spends a commit or signs, and   *)
(* no restricted key signs a message that could be taken for the TPM's.    *)
(***************************************************************************)
EXTENDS Signing, TLAPS

-----------------------------------------------------------------------------
(* Remainders.                                                             *)

\* The defining facts of \div and %.
LEMMA DivMod ==
  ASSUME NEW a \in Int, NEW b \in Nat \ {0}
  PROVE  /\ a \div b \in Int
         /\ a % b \in 0 .. b - 1
         /\ a = b * (a \div b) + (a % b)
  OBVIOUS

\* Two multiples of n less than n apart are equal.
LEMMA MultiplesApart ==
  ASSUME NEW n \in Nat \ {0}, NEW p \in Int, NEW q \in Int, NEW d \in Int,
         -n < d, d < n, n * p = n * q + d
  PROVE  p = q /\ d = 0
<1>1. CASE p > q
  <2>1. PICK k \in Nat \ {0} : p = q + k
    BY <1>1, p = q + (p - q)
  <2>2. n * p = n * q + n * k  BY <2>1
  <2>3. n * k >= n             BY <2>1
  <2> QED  BY <2>2, <2>3
<1>2. CASE p < q
  <2>1. PICK k \in Nat \ {0} : q = p + k
    BY <1>2, q = p + (q - p)
  <2>2. n * q = n * p + n * k  BY <2>1
  <2>3. n * k >= n             BY <2>1
  <2> QED  BY <2>2, <2>3
<1>3. CASE p = q  BY <1>3
<1> QED  BY <1>1, <1>2, <1>3

\* A quotient and a remainder that fit are the quotient and the remainder.
LEMMA ModUnique ==
  ASSUME NEW n \in Nat \ {0}, NEW a \in Int, NEW q \in Int, NEW r \in 0 .. n - 1,
         a = n * q + r
  PROVE  a % n = r
<1> DEFINE p == a \div n
           s == a % n
<1>1. p \in Int /\ s \in 0 .. n - 1 /\ a = n * p + s
  BY DivMod
<1> HIDE DEF p, s
<1>2. n * p = n * q + (r - s)
  BY <1>1
<1>3. r - s \in Int /\ -n < r - s /\ r - s < n
  BY <1>1
<1>4. r - s = 0
  BY <1>1, <1>2, <1>3, MultiplesApart
<1> QED  BY <1>1, <1>4 DEF s

\* Two different numbers less than n apart have different remainders.
LEMMA ModApart ==
  ASSUME NEW n \in Nat \ {0}, NEW a \in Int, NEW b \in Int,
         a - b < n, b - a < n, a # b
  PROVE  a % n # b % n
<1> SUFFICES ASSUME a % n = b % n PROVE FALSE
  OBVIOUS
<1> DEFINE p == a \div n
           q == b \div n
<1>1. p \in Int /\ q \in Int /\ a - b = n * p - n * q
  BY DivMod
<1> HIDE DEF p, q
<1>2. n * p = n * q + (a - b)  BY <1>1
<1>3. a - b \in Int /\ -n < a - b /\ a - b < n /\ a - b # 0  OBVIOUS
<1> QED  BY <1>1, <1>2, <1>3, MultiplesApart

\* Going down from wide to narrow remainders loses nothing, because the
\* narrow width divides the wide one.
LEMMA ModOfMod ==
  ASSUME NEW n \in Nat \ {0}, NEW w \in Nat \ {0}, w % n = 0, NEW a \in Int
  PROVE  (a % w) % n = a % n
<1> DEFINE k == w \div n
           p == a \div w
           r == a % w
           q == r \div n
           s == r % n
<1>1. k \in Int /\ w = n * k  BY DivMod
<1>2. p \in Int /\ r \in Int /\ a = w * p + r  BY DivMod
<1>3. q \in Int /\ s \in 0 .. n - 1 /\ r = n * q + s  BY <1>2, DivMod
<1> HIDE DEF k, p, q, s
<1>4. a = n * (k * p + q) + s
  BY <1>1, <1>2, <1>3
<1>5. k * p + q \in Int  BY <1>1, <1>2, <1>3
<1> HIDE DEF r
<1>6. a % n = s  BY <1>3, <1>4, <1>5, ModUnique
<1> QED  BY <1>6 DEF s, r

-----------------------------------------------------------------------------
(* What the window computes.                                               *)

\* The counter full_counter rebuilds has the sixteen bits the caller gave,
\* so it shares their slot.
LEMMA FullCounterFacts ==
  ASSUME SizesAssumption, NEW c \in 0 .. W - 1, count \in Nat, Names(c)
  PROVE  /\ FullCounter(c) \in Nat
         /\ FullCounter(c) < count
         /\ count - FullCounter(c) < N
         /\ FullCounter(c) % W = c
         /\ Index(FullCounter(c)) = Index(c)
<1> USE SizesAssumption DEF SizesAssumption
<1> DEFINE m == count % W
           g == Age(c)
           q == (m - c) \div W
           p == count \div W
<1>1. m \in 0 .. W - 1 /\ p \in Int /\ count = W * p + m
  BY DivMod
<1>2. m - c \in Int  BY <1>1
<1>3. g \in 0 .. W - 1 /\ q \in Int /\ m - c = W * q + g
  BY <1>2, DivMod DEF Age
<1>4. g # 0 /\ g < N /\ g <= count  BY DEF Names, InWindow
<1>5. FullCounter(c) = count - g  BY DEF FullCounter
<1> HIDE DEF m, g, q, p
<1>6. count - g = W * (p + q) + c
  BY <1>1, <1>3
<1>7. p + q \in Int /\ count - g \in Int  BY <1>1, <1>3
<1>8. (count - g) % W = c
  BY <1>6, <1>7, ModUnique
<1>9. ((count - g) % W) % N = (count - g) % N
  BY <1>7, ModOfMod
<1> QED  BY <1>3, <1>4, <1>5, <1>8, <1>9 DEF Index

\* Conversely the sixteen bits of a recent counter name exactly that counter.
LEMMA RecentIsNamed ==
  ASSUME SizesAssumption, count \in Nat,
         NEW k \in Nat, k < count, count - k < N, Index(k) \in used
  PROVE  Names(k % W) /\ FullCounter(k % W) = k
<1> USE SizesAssumption DEF SizesAssumption
<1> DEFINE m == count % W
           p == count \div W
           r == k % W
           q == k \div W
           d == count - k
<1>1. m \in 0 .. W - 1 /\ p \in Int /\ count = W * p + m  BY DivMod
<1>2. r \in 0 .. W - 1 /\ q \in Int /\ k = W * q + r      BY DivMod
<1>3. d \in Nat /\ 0 < d /\ d < N  OBVIOUS
<1>4. N <= W
  <2> DEFINE j == W \div N
  <2>1. j \in Int /\ W = N * j  BY DivMod
  <2> HIDE DEF j
  <2>2. j >= 1
    <3> SUFFICES ASSUME j <= 0 PROVE FALSE  BY <2>1
    <3>1. N * j <= 0  BY <2>1
    <3> QED  BY <2>1, <3>1
  <2>3. N * j >= N  BY <2>1, <2>2
  <2> QED  BY <2>1, <2>3
<1>5. r % N = k % N
  <2>1. k \in Int  OBVIOUS
  <2>2. W % N = 0 /\ N \in Nat \ {0} /\ W \in Nat \ {0}  OBVIOUS
  <2> QED  BY <2>1, <2>2, ModOfMod
<1>6. m - r = W * (q - p) + d
  <2>1. d = (W * p + m) - (W * q + r)  BY <1>1, <1>2
  <2>2. W * (q - p) = W * q - W * p  BY <1>1, <1>2
  <2> QED  BY <1>1, <1>2, <1>3, <2>1, <2>2
<1>7. m - r \in Int /\ q - p \in Int /\ d \in 0 .. W - 1
  BY <1>1, <1>2, <1>3, <1>4
<1>8. (m - r) % W = d
  BY <1>6, <1>7, ModUnique
<1>9. Age(k % W) = d  BY <1>8 DEF Age
<1> QED  BY <1>3, <1>5, <1>9 DEF Names, InWindow, IsSet, Index, FullCounter

-----------------------------------------------------------------------------
(* The inductive invariant.                                                *)

LEMMA InitIInv == Init => IInv
  BY SizesAssumption
  DEF SizesAssumption, Init, IInv, TypeOK, SlotsTrackUse, NoStraySlot, SingleUse, OnlyIssued,
      Epochs, Counters, Slots

LEMMA ResetIInv == IInv /\ Reset => IInv'
<1> SUFFICES ASSUME IInv, Reset PROVE IInv'
  OBVIOUS
<1> USE SizesAssumption DEF SizesAssumption, IInv, Reset
<1>1. TypeOK'         BY DEF TypeOK, Epochs, Counters
<1>2. SlotsTrackUse'  BY DEF SlotsTrackUse, TypeOK, Counters
<1>3. NoStraySlot'    BY DEF NoStraySlot
<1>4. SingleUse'      BY DEF SingleUse
<1>5. OnlyIssued'     BY DEF OnlyIssued, TypeOK, Epochs
<1> QED  BY <1>1, <1>2, <1>3, <1>4, <1>5

LEMMA CommitIInv == IInv /\ Commit => IInv'
<1> SUFFICES ASSUME IInv, Commit PROVE IInv'
  OBVIOUS
<1> USE SizesAssumption DEF SizesAssumption, IInv, Commit
<1>1. count \in Nat /\ Index(count) \in Slots /\ Index(count) <= count
  <2>1. count \in Nat  BY DEF TypeOK, Counters
  <2>2. count % N \in 0 .. N - 1  BY <2>1, DivMod
  <2>3. count % N <= count
    <3>1. CASE count < N
      <4>1. count = N * 0 + count /\ count \in 0 .. N - 1 /\ count \in Int  BY <2>1, <3>1
      <4> QED  BY <4>1, ModUnique
    <3>2. CASE count >= N  BY <2>1, <2>2, <3>2
    <3> QED  BY <2>1, <3>1, <3>2
  <2> QED  BY <2>1, <2>2, <2>3 DEF Index, Slots
<1>2. TypeOK'  BY <1>1 DEF TypeOK, Counters
<1>3. SlotsTrackUse'
  <2> SUFFICES ASSUME NEW k \in Counters, k < count', count' - k <= N
               PROVE  Index(k) \in used' <=> uses'[<<random', k>>] = 0
    BY DEF SlotsTrackUse
  <2>1. k \in Nat  BY DEF Counters
  <2>2. CASE k = count
    <3>1. <<random, count>> \in Epochs \X Counters  BY DEF TypeOK
    <3>2. uses[<<random, count>>] \in Nat  BY <3>1 DEF TypeOK
    <3>3. ~(uses[<<random, count>>] > 0)
      <4>1. <<random, count>>[1] = random /\ <<random, count>>[2] = count  OBVIOUS
      <4>2. random \in Nat  BY DEF TypeOK, Epochs
      <4> QED  BY <1>1, <3>1, <4>1, <4>2 DEF OnlyIssued
    <3> QED  BY <2>2, <3>2, <3>3
  <2>3. CASE k # count
    <3>1. k < count /\ count - k < N  BY <1>1, <2>1, <2>3
    <3>2. k % N # count % N
      <4>1. k \in Int /\ count \in Int /\ N \in Nat \ {0}  BY <1>1, <2>1
      <4>2. k - count < N /\ count - k < N  BY <1>1, <2>1, <3>1
      <4> QED  BY <2>3, <4>1, <4>2, ModApart
    <3>3. Index(k) \in used' <=> Index(k) \in used  BY <3>2 DEF Index
    <3> QED  BY <1>1, <2>1, <3>1, <3>3 DEF SlotsTrackUse
  <2> QED  BY <2>2, <2>3
<1>4. NoStraySlot'
  <2> SUFFICES ASSUME NEW i \in used' PROVE i < count + 1
    BY DEF NoStraySlot
  <2>1. CASE i = Index(count)  BY <1>1, <2>1 DEF Slots
  <2>2. CASE i \in used
    <3>1. i < count /\ i \in Int  BY <2>2 DEF NoStraySlot, TypeOK, Slots
    <3> QED  BY <1>1, <3>1
  <2> QED  BY <2>1, <2>2
<1>5. SingleUse'  BY DEF SingleUse
<1>6. OnlyIssued'
  <2> SUFFICES ASSUME NEW v \in Epochs \X Counters, uses[v] > 0
               PROVE  v[1] < random \/ (v[1] = random /\ v[2] < count + 1)
    BY DEF OnlyIssued
  <2>1. v[2] \in Nat  BY DEF Counters
  <2> QED  BY <1>1, <2>1 DEF OnlyIssued
<1> QED  BY <1>2, <1>3, <1>4, <1>5, <1>6

LEMMA UseCounterIInv ==
  ASSUME NEW c \in 0 .. W - 1, IInv, UseCounter(c)
  PROVE  IInv' /\ uses[<<random, FullCounter(c)>>] = 0
               /\ <<random, FullCounter(c)>> \in Epochs \X Counters
<1> USE SizesAssumption DEF SizesAssumption, IInv
<1> DEFINE f == FullCounter(c)
           v == <<random, f>>
<1>1. count \in Nat /\ random \in Nat /\ Names(c)
  BY DEF UseCounter, TypeOK, Counters, Epochs
<1>2. /\ f \in Nat /\ f < count /\ count - f < N
      /\ Index(f) = Index(c)
  BY <1>1, FullCounterFacts
<1>3. Index(f) \in used  BY <1>1, <1>2 DEF Names, IsSet
<1>4. /\ uses' = [uses EXCEPT ![v] = @ + 1]
      /\ used' = used \ {Index(f)}
      /\ random' = random /\ count' = count
  BY DEF UseCounter
<1> HIDE DEF f
<1>5. f \in Counters  BY <1>1, <1>2 DEF TypeOK, Counters
<1>6. v \in Epochs \X Counters  BY <1>5 DEF TypeOK
<1>7. uses[v] = 0
  <2>1. count - f <= N  BY <1>1, <1>2
  <2> QED  BY <1>2, <1>3, <1>5, <2>1 DEF SlotsTrackUse
<1>8. TypeOK'  BY <1>4, <1>6 DEF TypeOK
<1>9. uses'[v] = 1 /\ \A u \in Epochs \X Counters : u # v => uses'[u] = uses[u]
  BY <1>4, <1>6, <1>7 DEF TypeOK
<1>10. SlotsTrackUse'
  <2> SUFFICES ASSUME NEW k \in Counters, k < count, count - k <= N
               PROVE  Index(k) \in used' <=> uses'[<<random, k>>] = 0
    BY <1>4 DEF SlotsTrackUse
  <2>1. k \in Nat  BY DEF Counters
  <2>2. CASE k = f  BY <1>4, <1>9, <2>2
  <2>3. CASE k # f
    <3>1. k % N # f % N
      <4>1. k \in Int /\ f \in Int /\ N \in Nat \ {0}  BY <1>2, <2>1
      <4>2. k - f < N /\ f - k < N  BY <1>1, <1>2, <2>1
      <4> QED  BY <2>3, <4>1, <4>2, ModApart
    <3>2. Index(k) \in used' <=> Index(k) \in used  BY <1>4, <3>1 DEF Index
    <3>3. <<random, k>> \in Epochs \X Counters /\ <<random, k>> # v  BY <2>3 DEF TypeOK
    <3>4. uses'[<<random, k>>] = uses[<<random, k>>]  BY <1>9, <3>3
    <3> QED  BY <3>2, <3>4 DEF SlotsTrackUse
  <2> QED  BY <2>2, <2>3
<1>11. NoStraySlot'  BY <1>4 DEF NoStraySlot
<1>12. SingleUse'  BY <1>9 DEF SingleUse
<1>13. OnlyIssued'
  <2> SUFFICES ASSUME NEW u \in Epochs \X Counters, uses'[u] > 0
               PROVE  u[1] < random \/ (u[1] = random /\ u[2] < count)
    BY <1>4 DEF OnlyIssued
  <2>1. CASE u = v  BY <1>2, <2>1
  <2>2. CASE u # v  BY <1>9, <2>2 DEF OnlyIssued
  <2> QED  BY <2>1, <2>2
<1> QED  BY <1>6, <1>7, <1>8, <1>10, <1>11, <1>12, <1>13 DEF f

LEMMA NextIInv == IInv /\ [Next]_vars => IInv'
<1> SUFFICES ASSUME IInv, [Next]_vars PROVE IInv'
  OBVIOUS
<1>1. CASE Reset    BY <1>1, ResetIInv
<1>2. CASE Commit   BY <1>2, CommitIInv
<1>3. CASE \E c \in 0 .. W - 1 : UseCounter(c)  BY <1>3, UseCounterIInv
<1>4. CASE UNCHANGED vars
  BY <1>4 DEF vars, IInv, TypeOK, SlotsTrackUse, NoStraySlot, SingleUse, OnlyIssued, Index
<1> QED  BY <1>1, <1>2, <1>3, <1>4 DEF Next

\* The bit array is the record of the unused commits, in every behaviour.
THEOREM CommitsIInv == Spec => []IInv
  BY InitIInv, NextIInv, PTL DEF Spec

\* No commit value is used twice: for every array size, counter width and
\* number of commits, however often the narrow counter wraps.
THEOREM CommitsSingleUse == Spec => []SingleUse
<1>1. IInv => SingleUse  BY DEF IInv
<1> QED  BY <1>1, CommitsIInv, PTL

\* The window check refuses nothing it should accept: an unused commit among
\* the last N - 1 is always named by its sixteen bits.
THEOREM CommitsStillUsable == Spec => []StillUsable
<1>1. IInv => StillUsable
  <2> SUFFICES ASSUME IInv, NEW k \in Counters,
                      k < count, count - k < N, uses[<<random, k>>] = 0
               PROVE  Names(k % W) /\ FullCounter(k % W) = k
    BY DEF StillUsable
  <2>1. count \in Nat /\ k \in Nat /\ N \in Nat
    BY SizesAssumption DEF SizesAssumption, IInv, TypeOK, Counters
  <2>2. Index(k) \in used  BY <2>1 DEF IInv, SlotsTrackUse
  <2> QED  BY SizesAssumption, <2>1, <2>2, RecentIsNamed
<1> QED  BY <1>1, CommitsIInv, PTL

-----------------------------------------------------------------------------
(* The refinement of one-time tokens.                                      *)

LEMMA InitRefines == Init => OneTime!OTInit
  BY SizesAssumption
  DEF SizesAssumption, Init, OneTime!OTInit, Outstanding, Redeemed, Epochs, Counters

LEMMA ResetRefines == IInv /\ Reset => OneTime!Expire
<1> SUFFICES ASSUME IInv, Reset PROVE OneTime!Expire
  OBVIOUS
<1>1. Outstanding' = {}  BY DEF Reset, Outstanding
<1>2. Redeemed' = Redeemed  BY DEF Reset, Redeemed
<1> QED  BY <1>1, <1>2 DEF OneTime!Expire

\* The commit takes the slot of the one a whole turn behind it, which expires.
LEMMA CommitRefines ==
  ASSUME IInv, Commit
  PROVE  \E t \in Epochs \X Counters : OneTime!Issue(t)
<1> USE SizesAssumption DEF SizesAssumption
<1> DEFINE t == <<random, count>>
<1>1. count \in Nat /\ random \in Nat /\ t \in Epochs \X Counters
  BY DEF IInv, TypeOK, Counters, Epochs
<1>2. /\ random' = random /\ count' = count + 1 /\ uses' = uses
      /\ used' = used \cup {Index(count)}
  BY DEF Commit
<1>3. t \notin Outstanding  BY <1>1 DEF Outstanding
<1>4. t \notin Redeemed
  <2>1. t[1] = random /\ t[2] = count  OBVIOUS
  <2> QED  BY <1>1, <2>1 DEF Redeemed, IInv, OnlyIssued
<1>5. t \in Outstanding'
  BY <1>1, <1>2 DEF Outstanding
<1>6. ASSUME NEW v \in Outstanding', v # t PROVE v \in Outstanding
  <2>1. /\ v \in Epochs \X Counters /\ v[1] = random
        /\ v[2] < count + 1 /\ count + 1 - v[2] <= N /\ Index(v[2]) \in used'
    <3>1. v \in {u \in Epochs \X Counters :
                   /\ u[1] = random' /\ u[2] < count' /\ count' - u[2] <= N
                   /\ Index(u[2]) \in used'}
      BY <1>6 DEF Outstanding, Index
    <3>2. v \in Epochs \X Counters /\ v[2] \in Int  BY <3>1 DEF Counters
    <3> QED  BY <1>1, <1>2, <3>1, <3>2
  <2>2. v[2] \in Nat  BY <2>1 DEF Counters
  <2>3. v = <<v[1], v[2]>>  BY <2>1
  <2>4. v[2] # count  BY <1>6, <2>1, <2>3
  <2>5. v[2] < count /\ count - v[2] < N /\ count - v[2] <= N  BY <1>1, <2>1, <2>2, <2>4
  <2>6. v[2] % N # count % N
    <3>1. v[2] \in Int /\ count \in Int /\ N \in Nat \ {0}  BY <1>1, <2>2
    <3>2. v[2] - count < N /\ count - v[2] < N  BY <1>1, <2>2, <2>5
    <3> QED  BY <2>4, <3>1, <3>2, ModApart
  <2>7. Index(v[2]) \in used  BY <1>2, <2>1, <2>6 DEF Index
  <2> QED  BY <2>1, <2>5, <2>7 DEF Outstanding
<1>7. Redeemed' = Redeemed  BY <1>2 DEF Redeemed
<1>8. OneTime!Issue(t)
  BY <1>3, <1>4, <1>5, <1>6, <1>7 DEF OneTime!Issue
<1> QED  BY <1>1, <1>8

LEMMA UseCounterRefines ==
  ASSUME NEW c \in 0 .. W - 1, IInv, UseCounter(c)
  PROVE  \E t \in Epochs \X Counters : OneTime!Redeem(t)
<1> USE SizesAssumption DEF SizesAssumption
<1> DEFINE f == FullCounter(c)
           t == <<random, f>>
<1>1. count \in Nat /\ random \in Nat /\ Names(c)
  BY DEF IInv, UseCounter, TypeOK, Counters, Epochs
<1>2. /\ f \in Nat /\ f < count /\ count - f < N
      /\ Index(f) = Index(c)
  BY <1>1, FullCounterFacts
<1>3. Index(f) \in used  BY <1>1, <1>2 DEF Names, IsSet
<1>4. uses[t] = 0 /\ t \in Epochs \X Counters  BY UseCounterIInv
<1>5. /\ uses' = [uses EXCEPT ![t] = @ + 1]
      /\ used' = used \ {Index(f)}
      /\ random' = random /\ count' = count
  BY DEF UseCounter
<1> HIDE DEF f
<1>6. t \in Outstanding
  <2>1. count - f <= N  BY <1>1, <1>2
  <2> QED  BY <1>2, <1>3, <1>4, <2>1 DEF Outstanding
<1>7. t \notin Redeemed  BY <1>4 DEF Redeemed
<1>8. \A v \in Epochs \X Counters :
         v # t => (v[1] = random /\ v[2] < count /\ count - v[2] <= N
                     => Index(v[2]) # Index(f))
  <2> SUFFICES ASSUME NEW v \in Epochs \X Counters, v # t,
                      v[1] = random, v[2] < count, count - v[2] <= N
               PROVE  v[2] % N # f % N
    BY DEF Index
  <2>1. v[2] \in Nat /\ v = <<v[1], v[2]>>  BY DEF Counters
  <2>2. v[2] # f  BY <2>1
  <2>3. v[2] \in Int /\ f \in Int /\ N \in Nat \ {0}  BY <1>2, <2>1
  <2>4. v[2] - f < N /\ f - v[2] < N  BY <1>1, <1>2, <2>1
  <2> QED  BY <2>2, <2>3, <2>4, ModApart
<1>9. Outstanding' = Outstanding \ {t}
  <2>1. ASSUME NEW v \in Epochs \X Counters, v # t
        PROVE  v \in Outstanding' <=> v \in Outstanding
    BY <1>5, <1>8, <2>1 DEF Outstanding
  <2>2. t \notin Outstanding'  BY <1>5 DEF Outstanding
  <2>3. Outstanding \subseteq Epochs \X Counters /\ Outstanding' \subseteq Epochs \X Counters
    BY DEF Outstanding
  <2> QED  BY <2>1, <2>2, <2>3
<1>10. Redeemed' = Redeemed \cup {t}
  <2>1. uses'[t] = 1 /\ \A u \in Epochs \X Counters : u # t => uses'[u] = uses[u]
    BY <1>4, <1>5 DEF IInv, TypeOK
  <2> QED  BY <1>4, <2>1 DEF Redeemed
<1>11. OneTime!Redeem(t)
  BY <1>6, <1>7, <1>9, <1>10 DEF OneTime!Redeem
<1> QED  BY <1>4, <1>11

LEMMA NextRefines == IInv /\ [Next]_vars => [OneTime!OTNext]_(OneTime!otVars)
<1> SUFFICES ASSUME IInv, [Next]_vars PROVE [OneTime!OTNext]_(OneTime!otVars)
  OBVIOUS
<1>1. CASE Reset   BY <1>1, ResetRefines DEF OneTime!OTNext
<1>2. CASE Commit  BY <1>2, CommitRefines DEF OneTime!OTNext
<1>3. CASE \E c \in 0 .. W - 1 : UseCounter(c)
  BY <1>3, UseCounterRefines DEF OneTime!OTNext
<1>4. CASE UNCHANGED vars
  BY <1>4 DEF vars, OneTime!otVars, Outstanding, Redeemed, Index
<1> QED  BY <1>1, <1>2, <1>3, <1>4 DEF Next

\* Counters, window and bit array implement one-time tokens, for every size.
THEOREM CommitsImplementOneTime == Spec => ImplementsOneTime
<1>1. Spec => [][OneTime!OTNext]_(OneTime!otVars)
  BY CommitsIInv, NextRefines, PTL DEF Spec
<1> QED  BY <1>1, InitRefines, PTL DEF Spec, ImplementsOneTime, OneTime!OTSpec

-----------------------------------------------------------------------------
(* The commands that spend commits and sign.                               *)

\* What is kept of a buffer loses nothing of what its message begins with.
LEMMA FirstOfAll ==
  ASSUME NEW u \in Seq({"g", "x"}), NEW p \in Seq({"g", "x"})
  PROVE  First(First(u) \o p) = First(u \o p)
<1>1. CASE Len(u) < 2
  BY <1>1 DEF First
<1>2. CASE Len(u) >= 2
  <2>1. ASSUME NEW v \in Seq({"g", "x"}), Len(v) >= 2
        PROVE  First(v) = IF v[1] = "x" THEN <<"x", "x">> ELSE <<v[1], v[2]>>
    <3>1. Head(v) = v[1] /\ ~(Len(v) < 2)
      BY <2>1
    <3>2. SubSeq(v, 1, 2) = <<v[1], v[2]>>
      <4>1. SubSeq(v, 1, 2) = [i \in 1 .. 2 |-> v[i]]
        BY <2>1
      <4> DEFINE t == <<v[1], v[2]>>
      <4>2. t = [i \in 1 .. 2 |-> t[i]] /\ t[1] = v[1] /\ t[2] = v[2]
        OBVIOUS
      <4> HIDE DEF t
      <4>3. \A i \in 1 .. 2 : t[i] = v[i]
        <5>1. \A i \in 1 .. 2 : i = 1 \/ i = 2
          OBVIOUS
        <5> QED
          BY <4>2, <5>1
      <4>4. [i \in 1 .. 2 |-> t[i]] = [i \in 1 .. 2 |-> v[i]]
        BY <4>3
      <4> QED
        BY <4>1, <4>2, <4>4 DEF t
    <3> QED
      BY <3>1, <3>2 DEF First
  <2>2. /\ u \o p \in Seq({"g", "x"}) /\ Len(u \o p) >= 2
        /\ (u \o p)[1] = u[1] /\ (u \o p)[2] = u[2]
    BY <1>2
  <2>3. First(u \o p) = First(u)
    BY <1>2, <2>1, <2>2
  <2>4. PICK a, b \in {"g", "x"} : First(u) = <<a, b>> /\ (a = "x" => b = "x")
    <3>1. u[1] \in {"g", "x"} /\ u[2] \in {"g", "x"}
      BY <1>2
    <3> QED
      BY <1>2, <2>1, <3>1
  <2>5. <<a, b>> \in Seq({"g", "x"})
    OBVIOUS
  <2>6. /\ <<a, b>> \o p \in Seq({"g", "x"}) /\ Len(<<a, b>> \o p) >= 2
        /\ (<<a, b>> \o p)[1] = a /\ (<<a, b>> \o p)[2] = b
    BY <2>5
  <2>7. First(<<a, b>> \o p) = <<a, b>>
    BY <2>1, <2>4, <2>6
  <2> QED
    BY <2>3, <2>4, <2>7
<1> QED
  BY <1>1, <1>2

\* A ticket that says a message is safe to sign is over one that is.
TicketsHonest == kept.tag = "hashcheck" => ~Generated(kept.over)

\* A header holds a counter, in the sequence and in a saved one.
Headed(s) == s.kind = "bound" => s.counter \in Counts \cup {None}
HeadersTyped == Headed(sequence) /\ (kept.tag = "context" => Headed(kept.over))

SigningIInv == IInv /\ HeadersTyped /\ TicketsHonest /\ NothingPassedOff

\* A signature spends the commit its counter names, or none.
LEMMA SignDigestSteps ==
  ASSUME NEW c \in Counts \cup {None}, SignDigest(c)
  PROVE  [Next]_vars
BY DEF SignDigest, commits, vars, Counts, None, Next

\* The counters that come with a key, from the caller or from a header.
LEMMA CountersType ==
  ASSUME NEW k, NEW c \in CountersOf(k)
  PROVE  c \in Counts \cup {None}
BY DEF CountersOf

LEMMA HeaderCounters ==
  ASSUME HeadersTyped, NEW b \in Bindings, NEW k
  PROVE  SchemeWithCounter(k, b.counter) \in Counts \cup {None}
<1>1. 0 \in Counts
  BY SizesAssumption DEF SizesAssumption, Counts
<1>2. b.counter \in Counts \cup {None}
  <2>1. CASE sequence.kind = "bound"
    <3>1. b = [counter |-> sequence.counter, rest |-> sequence.data]
      BY <2>1 DEF Bindings
    <3> QED
      BY <2>1, <3>1 DEF HeadersTyped, Headed
  <2>2. CASE sequence.kind # "bound"
    <3>1. b \in [counter : Counts \cup {None}, rest : Pieces]
      BY <2>2 DEF Bindings
    <3> QED
      BY <3>1
  <2> QED
    BY <2>1, <2>2
<1> QED
  BY <1>1, <1>2 DEF SchemeWithCounter

\* What a command with a signature keeps: k signs the caller's message m.
LEMMA SignedKeeps ==
  ASSUME NothingPassedOff, NEW k, NEW m, Signed(k, m), ~(k.restricted /\ Generated(m))
  PROVE  NothingPassedOff'
BY DEF Signed, NothingPassedOff

\* Every command keeps what is kept honest, and spends commits as Commits does.
LEMMA SigningKeeps ==
  ASSUME SigningIInv, [SigningNext]_<<signing, commits>>
  PROVE  [Next]_vars /\ HeadersTyped' /\ TicketsHonest' /\ NothingPassedOff'
<1> USE DEF SigningIInv
<1> DEFINE Goal == [Next]_vars /\ HeadersTyped' /\ TicketsHonest' /\ NothingPassedOff'
<1>1. Headed(NoSequence) /\ \A kind \in {"hash", "hmac", "event"} : \A c : Headed(Sequence(kind, c))
  BY DEF Headed, NoSequence, Sequence
<1>2. ASSUME UNCHANGED commits PROVE [Next]_vars
  BY <1>2 DEF commits, vars
<1>3. ASSUME UNCHANGED passedOff PROVE NothingPassedOff'
  BY <1>3 DEF NothingPassedOff
<1>4. ASSUME UNCHANGED kept, Headed(sequence') PROVE HeadersTyped' /\ TicketsHonest'
  BY <1>4 DEF HeadersTyped, TicketsHonest, Headed
<1>5. ASSUME kept'.tag # "context", Headed(sequence'),
             kept'.tag = "hashcheck" => ~Generated(kept'.over)
      PROVE  HeadersTyped' /\ TicketsHonest'
  BY <1>5 DEF HeadersTyped, TicketsHonest, Headed
<1>6. Headed(sequence)
  BY DEF HeadersTyped
<1>7. Nothing.tag = "null" /\ \A m : VerifiedTicket(m).tag = "verified"
  BY DEF Nothing, VerifiedTicket
<1>8. ASSUME NEW m, Hash(m) PROVE Goal
  <2>1. kept'.tag # "context" /\ (kept'.tag = "hashcheck" => ~Generated(kept'.over))
    BY <1>8, <1>7 DEF Hash, HashTicket
  <2> QED
    BY <1>2, <1>3, <1>5, <1>6, <1>8, <2>1 DEF Hash
<1>9. ASSUME NEW p, SequenceUpdate(p) PROVE Goal
  <2>1. Headed(sequence')
    BY <1>6, <1>9 DEF SequenceUpdate, Headed
  <2> QED
    BY <1>2, <1>3, <1>4, <1>9, <2>1 DEF SequenceUpdate
<1>10. ASSUME NEW p, SequenceComplete(p) PROVE Goal
  <2>1. kept'.tag # "context" /\ (kept'.tag = "hashcheck" => ~Generated(kept'.over))
    BY <1>7, <1>10 DEF SequenceComplete, SafeToSign
  <2>2. Headed(sequence')
    BY <1>1, <1>10 DEF SequenceComplete
  <2> QED
    BY <1>2, <1>3, <1>5, <1>10, <2>1, <2>2 DEF SequenceComplete
<1>11. ASSUME NEW m, VerifySignature(m) \/ VerifyDigestSignature(m) PROVE Goal
  <2>1. kept'.tag = "verified" /\ UNCHANGED <<commits, sequence, passedOff>>
    BY <1>7, <1>11 DEF VerifySignature, VerifyDigestSignature
  <2> QED
    BY <1>2, <1>3, <1>5, <1>6, <2>1
<1>12. ASSUME NEW k \in Keys, NEW m, HmacCommand(k, m) PROVE Goal
  BY <1>2, <1>4, <1>6, <1>12, SignedKeeps DEF HmacCommand, HmacKeys
<1>13. CASE Create
  <2>1. kept'.tag = "creation"
    BY <1>13 DEF Create
  <2> QED
    BY <1>2, <1>3, <1>5, <1>6, <1>13, <2>1 DEF Create
<1>14. ASSUME NEW kind \in {"hash", "hmac", "event"}, SequenceStart(kind) PROVE Goal
  BY <1>1, <1>2, <1>3, <1>4, <1>14 DEF SequenceStart
<1>15. CASE EventSequenceComplete
  BY <1>1, <1>2, <1>3, <1>4, <1>15 DEF EventSequenceComplete
<1>16. CASE VerifySequenceStart
  <2>1. Headed(Sequence("bound", None))
    BY DEF Headed, Sequence
  <2> QED
    BY <1>2, <1>3, <1>4, <1>16, <2>1 DEF VerifySequenceStart
<1>17. ASSUME NEW k \in Keys, NEW c \in CountersOf(k), SignSequenceStart(k, c) PROVE Goal
  <2>1. Headed(Sequence("bound", c))
    BY CountersType DEF Headed, Sequence
  <2> QED
    BY <1>2, <1>3, <1>4, <1>17, <2>1 DEF SignSequenceStart
<1>18. ASSUME NEW k \in Keys, NEW c \in CountersOf(k), CertifyX509(k, c) PROVE Goal
  <2>1. [Next]_vars
    BY <1>18, CountersType, SignDigestSteps DEF CertifyX509
  <2>2. ~Generated(<<"x", "x">>)
    BY DEF Generated
  <2> QED
    BY <1>4, <1>6, <1>18, <2>1, <2>2, SignedKeeps DEF CertifyX509
<1>19. ASSUME NEW k \in Keys, NEW c \in CountersOf(k), AttestAndSign(k, c) PROVE Goal
  <2>1. [Next]_vars
    BY <1>19, CountersType, SignDigestSteps DEF AttestAndSign
  <2> QED
    BY <1>3, <1>4, <1>6, <1>19, <2>1 DEF AttestAndSign, signing
<1>20. ASSUME NEW k \in Keys, NEW c \in CountersOf(k), NEW m, Sign(k, m, c) PROVE Goal
  <2>1. [Next]_vars
    BY <1>20, CountersType, SignDigestSteps DEF Sign
  <2>2. k.restricted => ~Generated(m)
    BY <1>20 DEF Sign, VerifyHashTicket, TicketsHonest
  <2> QED
    BY <1>4, <1>6, <1>20, <2>1, <2>2, SignedKeeps DEF Sign
<1>21. ASSUME NEW b \in Bindings, VerifySequenceComplete(b) PROVE Goal
  BY <1>1, <1>2, <1>3, <1>5, <1>7, <1>21 DEF VerifySequenceComplete
<1>22. ASSUME NEW b \in Bindings, NEW k \in Keys, NEW p, SignSequenceComplete(k, b, p) PROVE Goal
  <2> DEFINE c == SchemeWithCounter(k, b.counter)
             m == First(b.rest \o p)
  <2>1. /\ SignDigest(c) /\ Signed(k, m) /\ (k.restricted => ~Generated(m))
        /\ sequence' = NoSequence /\ UNCHANGED kept
    BY <1>22 DEF SignSequenceComplete, SignMessage
  <2>2. c \in Counts \cup {None}
    BY HeaderCounters
  <2> HIDE DEF c, m
  <2> QED
    BY <1>1, <1>4, <2>1, <2>2, SignDigestSteps, SignedKeeps
<1>23. CASE Ephemeral
  BY <1>3, <1>4, <1>6, <1>23 DEF Ephemeral, signing, Next
<1>24. ASSUME NEW c \in Counts, ZGen2Phase(c) PROVE Goal
  BY <1>3, <1>4, <1>6, <1>24 DEF ZGen2Phase, signing, Next, Counts
<1>25. CASE ContextSave
  <2>1. kept'.tag = "context" /\ kept'.over = sequence /\ UNCHANGED <<commits, sequence, passedOff>>
    BY <1>25 DEF ContextSave
  <2>2. HeadersTyped' /\ TicketsHonest'
    BY <1>6, <2>1 DEF HeadersTyped, TicketsHonest, Headed
  <2> QED
    BY <1>2, <1>3, <2>1, <2>2
<1>26. CASE ContextLoad
  <2>1. Headed(sequence')
    BY <1>26 DEF ContextLoad, HeadersTyped
  <2> QED
    BY <1>2, <1>3, <1>4, <1>26, <2>1 DEF ContextLoad
<1>27. CASE TpmReset
  <2>1. [Next]_vars
    BY <1>27 DEF TpmReset, Next
  <2>2. kept'.tag # "context" /\ (kept'.tag = "hashcheck" => ~Generated(kept'.over))
    BY <1>7, <1>27 DEF TpmReset, TicketsHonest
  <2> QED
    BY <1>1, <1>3, <1>5, <1>27, <2>1, <2>2 DEF TpmReset
<1>28. CASE Flush
  BY <1>1, <1>2, <1>3, <1>4, <1>28 DEF Flush
<1>29. CASE Clear
  BY <1>2, <1>3, <1>5, <1>6, <1>7, <1>29 DEF Clear
<1>30. CASE UNCHANGED <<signing, commits>>
  BY <1>2, <1>3, <1>4, <1>6, <1>30 DEF signing
<1> HIDE DEF Goal
<1>31. ASSUME NEW k \in Keys, NEW c \in CountersOf(k),
              \/ Certify(k, c) \/ CertifyCreation(k, c) \/ Quote(k, c) \/ GetTime(k, c)
              \/ NvCertify(k, c) \/ GetSessionAuditDigest(k, c) \/ GetCommandAuditDigest(k, c)
       PROVE  Goal
  BY <1>19, <1>31 DEF Certify, CertifyCreation, Quote, GetTime, NvCertify,
                      GetSessionAuditDigest, GetCommandAuditDigest
<1>32. ASSUME NEW k \in Keys, NEW c \in CountersOf(k), NEW m,
              Sign(k, m, c) \/ SignDigestCommand(k, m, c)
       PROVE  Goal
  BY <1>20, <1>32 DEF SignDigestCommand
<1>33. ASSUME NEW m \in Pieces,
              \/ Hash(m) \/ SequenceUpdate(m) \/ SequenceComplete(m)
              \/ VerifySignature(m) \/ VerifyDigestSignature(m)
              \/ \E k \in Keys : HmacCommand(k, m)
       PROVE  Goal
  BY <1>8, <1>9, <1>10, <1>11, <1>12, <1>33
<1>34. ASSUME NEW k \in Keys, NEW c \in CountersOf(k),
              \/ SignSequenceStart(k, c) \/ CertifyX509(k, c)
              \/ Certify(k, c) \/ CertifyCreation(k, c) \/ Quote(k, c) \/ GetTime(k, c)
              \/ NvCertify(k, c) \/ GetSessionAuditDigest(k, c) \/ GetCommandAuditDigest(k, c)
              \/ \E m \in Pieces : Sign(k, m, c) \/ SignDigestCommand(k, m, c)
       PROVE  Goal
  BY <1>17, <1>18, <1>31, <1>32, <1>34
<1>35. ASSUME NEW b \in Bindings,
              \/ VerifySequenceComplete(b)
              \/ \E k \in Keys, p \in Endings : SignSequenceComplete(k, b, p)
       PROVE  Goal
  BY <1>21, <1>22, <1>35
<1>36. CASE SigningNext
  BY <1>13, <1>14, <1>15, <1>16, <1>23, <1>24, <1>25, <1>26, <1>27, <1>28, <1>29,
     <1>33, <1>34, <1>35, <1>36 DEF SigningNext, Goal
<1> QED
  BY <1>30, <1>36

\* The invariant of the commits and of what the caller keeps, for any keys.
THEOREM SigningInvariant == SigningSpec => []SigningIInv
<1>1. SigningInit => SigningIInv
  BY InitIInv
     DEF SigningInit, SigningIInv, HeadersTyped, Headed, TicketsHonest, NothingPassedOff,
         NoSequence, Nothing
<1>2. SigningIInv /\ [SigningNext]_<<signing, commits>> => SigningIInv'
  <2> SUFFICES ASSUME SigningIInv, [SigningNext]_<<signing, commits>> PROVE SigningIInv'
    OBVIOUS
  <2>1. [Next]_vars /\ HeadersTyped' /\ TicketsHonest' /\ NothingPassedOff'
    BY SigningKeeps
  <2>2. IInv'
    BY <2>1, NextIInv DEF SigningIInv
  <2> QED
    BY <2>1, <2>2 DEF SigningIInv
<1> QED
  BY <1>1, <1>2, PTL DEF SigningSpec

\* Whatever signs, attests or computes a point, the commits are spent as
\* use_counter spends them: the composition implements Commits.
THEOREM SigningImplementsCommits == SigningSpec => Spec
<1>1. SigningInit => Init
  BY DEF SigningInit
<1>2. SigningIInv /\ [SigningNext]_<<signing, commits>> => [Next]_vars
  BY SigningKeeps
<1> QED
  BY <1>1, <1>2, SigningInvariant, PTL DEF SigningSpec, Spec

\* No commit value is used twice, whichever commands spend them.
THEOREM SigningSingleUse == SigningSpec => []SingleUse
  BY SigningImplementsCommits, CommitsSingleUse, PTL

\* An unused commit can be used, whichever commands came between.
THEOREM SigningStillUsable == SigningSpec => []StillUsable
  BY SigningImplementsCommits, CommitsStillUsable, PTL

\* Every command that spends a commit redeems a one-time token.
THEOREM SigningImplementsOneTime == SigningSpec => ImplementsOneTime
  BY SigningImplementsCommits, CommitsImplementOneTime, PTL

\* A restricted key signs no message of a caller that begins with
\* TPM_GENERATED_VALUE, whatever keys there are and whatever ticket, sequence
\* or saved context the caller comes with.
THEOREM SigningNothingPassedOff == SigningSpec => []NothingPassedOff
<1>1. SigningIInv => NothingPassedOff
  BY DEF SigningIInv
<1> QED
  BY <1>1, SigningInvariant, PTL
=============================================================================
