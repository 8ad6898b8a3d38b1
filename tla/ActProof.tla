------------------------------ MODULE ActProof -------------------------------
(***************************************************************************)
(* Proofs about Act: whatever the length of a second, the timeouts asked   *)
(* for and the number of faults, no order of shutdowns, startups, power    *)
(* cycles and failed writes makes a timer run on.                          *)
(*                                                                         *)
(* And about Policy, whose sessions count their limits in Time as well:    *)
(* for any policies, requests and bounds, a command runs only while all    *)
(* that was asserted holds, under a policy all of which was asserted, and  *)
(* once for each nonce it was authorized with.                             *)
(***************************************************************************)
EXTENDS Act, Policy, TLAPS

Timer ==
  [timeout : Nat, signaled : BOOLEAN, preserve : BOOLEAN, fraction : 0 .. Second - 1,
   written : BOOLEAN, set : Nat, ran : Nat]

\* How much longer than it was set to the timer will have run when it stops.
Excess(a) == a.ran + a.timeout * Second - a.fraction - a.set * Second

\* The fractions that may have been left out of a timer that has t seconds to
\* go: none since it was set; otherwise one with each of the saves and the
\* resumes that the halving lets through.
Slack(a, down) ==
  CASE a.written -> 0
    [] ~a.written /\ down = "STATE" /\ a.timeout >= 2 -> Second - 1
    [] ~a.written /\ (down = "STATE" <=> a.timeout < 2) -> 2 * (Second - 1)
    [] ~a.written /\ down # "STATE" /\ a.timeout < 2 -> 3 * (Second - 1)

Bounded(a, down) == a.timeout > 0 => Excess(a) <= Slack(a, down)

\* The fraction is time that was counted.
Counted(a) == a.fraction <= a.ran

IInv ==
  /\ TypeOK
  /\ Counted(act) /\ Counted(file.act)
  /\ Bounded(act, shutdown) /\ Bounded(file.act, file.shutdown)

-----------------------------------------------------------------------------
\* Quotient and remainder.
LEMMA DivMod ==
  ASSUME NEW n \in Nat
  PROVE  /\ n \div Second \in Nat /\ n % Second \in 0 .. Second - 1
         /\ n = (n \div Second) * Second + (n % Second)
<1>1. Second \in Nat /\ Second > 0
  BY ActAssumption
<1>2. n = (n \div Second) * Second + (n % Second)
  BY <1>1, Z3
<1>3. n % Second \in 0 .. Second - 1
  BY <1>1, Z3
<1>4. n \div Second \in Nat
  BY <1>1, Z3
<1> QED
  BY <1>2, <1>3, <1>4

\* Seconds taken off, in units of time.
LEMMA Distribute ==
  ASSUME NEW t \in Nat, NEW k \in Nat
  PROVE  /\ t * Second \in Nat
         /\ (t - k) * Second = t * Second - k * Second
         /\ t < k => t * Second + Second <= k * Second
<1>1. Second \in Nat /\ Second > 0
  BY ActAssumption
<1>2. t * Second \in Nat
  BY <1>1, Z3
<1>3. (t - k) * Second = t * Second - k * Second
  BY <1>1, Z3
<1>4. ASSUME t < k PROVE t * Second + Second <= k * Second
  <2>1. k - t - 1 \in Nat
    BY <1>4
  <2>2. (k - t - 1) * Second >= 0
    BY <1>1, <2>1, Z3
  <2>3. (k - t - 1) * Second = k * Second - t * Second - Second
    BY <1>1, Z3
  <2>4. k * Second \in Nat
    BY <1>1, Z3
  <2> QED
    BY <1>1, <1>2, <2>2, <2>3, <2>4
<1> QED
  BY <1>2, <1>3, <1>4

\* Counting leaves alone when the timer will stop.
LEMMA AdvanceKeeps ==
  ASSUME NEW a \in Timer, Counted(a), NEW d \in Nat
  PROVE  LET b == Advance(a, d) IN
         /\ b \in Timer /\ Counted(b) /\ b.written = a.written
         /\ b.timeout > 0 => a.timeout > 0 /\ b.timeout <= a.timeout /\ Excess(b) = Excess(a)
<1> DEFINE f == a.fraction + d
           k == f \div Second
           r == f % Second
           b == Advance(a, d)
<1>1. f \in Nat /\ Second \in Nat \ {0}
  BY ActAssumption DEF Timer
<1>2. k \in Nat /\ r \in 0 .. Second - 1 /\ f = k * Second + r
  BY <1>1, DivMod
<1>3. r <= a.ran + d
  <2>1. k * Second \in Nat
    BY <1>2, Distribute
  <2> QED
    BY <1>2, <2>1 DEF Timer, Counted
<1>4. CASE a.timeout = 0
  BY <1>4 DEF Advance, Timer
<1>5. CASE a.timeout # 0 /\ k >= a.timeout
  <2>1. b = [a EXCEPT !.timeout = 0, !.signaled = TRUE, !.fraction = r, !.ran = a.ran + d]
    BY <1>5 DEF Advance
  <2> HIDE DEF b, r, k
  <2>2. /\ b \in Timer /\ b.timeout = 0 /\ b.fraction = r /\ b.ran = a.ran + d
        /\ b.written = a.written
    <3>1. a.ran + d \in Nat
      BY DEF Timer
    <3> QED
      BY <2>1, <1>1, <1>2, <3>1 DEF Timer
  <2> QED
    BY <1>3, <2>2 DEF Counted, b
<1>6. CASE a.timeout # 0 /\ k < a.timeout
  <2>1. b = [a EXCEPT !.timeout = a.timeout - k, !.fraction = r, !.ran = a.ran + d]
    <3>1. ~(k >= a.timeout)
      BY <1>2, <1>6 DEF Timer
    <3> QED
      BY <1>6, <3>1 DEF Advance
  <2> HIDE DEF b, r, k
  <2>2. /\ b \in Timer /\ b.timeout = a.timeout - k /\ b.fraction = r /\ b.ran = a.ran + d
        /\ b.written = a.written /\ b.set = a.set
    <3>1. a.timeout - k \in Nat /\ a.ran + d \in Nat
      BY <1>2, <1>6 DEF Timer
    <3> QED
      BY <2>1, <1>1, <1>2, <3>1 DEF Timer
  <2>3. b.timeout <= a.timeout /\ a.timeout > 0
    BY <1>2, <1>6, <2>2 DEF Timer
  <2>4. b.timeout * Second = a.timeout * Second - k * Second
    BY <1>2, <2>2, Distribute DEF Timer
  <2>5. k * Second \in Nat /\ a.timeout * Second \in Nat /\ a.set * Second \in Nat
    BY <1>2, Distribute DEF Timer
  <2>6. Excess(b) = Excess(a)
    BY <1>1, <1>2, <2>2, <2>4, <2>5 DEF Excess, Timer
  <2> QED
    BY <1>3, <2>2, <2>3, <2>6 DEF Counted, b
<1> QED
  BY <1>2, <1>4, <1>5, <1>6 DEF Timer

\* Slack grows as the timer goes down, and when a shutdown is undone.
LEMMA SlackGrows ==
  ASSUME NEW a \in Timer, NEW b \in Timer, NEW down, NEW other,
         b.timeout <= a.timeout, b.written => a.written,
         other = down \/ other # "STATE"
  PROVE  /\ Slack(a, down) \in Int /\ Slack(a, down) >= 0
         /\ Slack(a, down) <= Slack(b, other)
         /\ Slack(a, down) <= 3 * (Second - 1)
BY ActAssumption DEF Slack, Timer

\* Time alone keeps the bound, also when the shutdown is undone with it.
LEMMA BoundedAdvance ==
  ASSUME NEW a \in Timer, Counted(a), NEW d \in Nat, NEW down, NEW other,
         Bounded(a, down), other = down \/ other # "STATE"
  PROVE  Bounded(Advance(a, d), other)
<1> DEFINE b == Advance(a, d)
<1>1. /\ b \in Timer /\ b.written = a.written
      /\ b.timeout > 0 => a.timeout > 0 /\ b.timeout <= a.timeout /\ Excess(b) = Excess(a)
  BY AdvanceKeeps
<1> HIDE DEF b
<1>2. SUFFICES ASSUME b.timeout > 0 PROVE Excess(b) <= Slack(b, other)
  BY DEF Bounded, b
<1>3. a.timeout > 0 /\ Excess(b) = Excess(a) /\ Excess(a) <= Slack(a, down)
  BY <1>1, <1>2 DEF Bounded
<1>4. /\ Slack(a, down) <= Slack(b, other) /\ Slack(a, down) \in Int
  BY <1>1, <1>2, SlackGrows
<1>5. Slack(b, other) \in Int
  BY <1>1, ActAssumption DEF Slack, Timer
<1>6. Excess(a) \in Int
  BY ActAssumption, Distribute DEF Excess, Timer
<1> QED
  BY <1>3, <1>4, <1>5, <1>6

\* Saving leaves out at most a fraction, and takes off half of a timer that was
\* not just set.
LEMMA BoundedShutdown ==
  ASSUME NEW a \in Timer, Counted(a), NEW down, Bounded(a, down)
  PROVE  LET b == OnShutdownState(a) IN b \in Timer /\ Counted(b) /\ Bounded(b, "STATE")
<1> DEFINE b == OnShutdownState(a)
           h == a.timeout \div 2
           S == Second
<1>1. S \in Nat /\ S >= 1
  BY ActAssumption
<1>2. h \in Nat /\ a.timeout - 1 <= 2 * h /\ 2 * h <= a.timeout
  BY DEF Timer
<1>3. a.timeout * S \in Nat /\ h * S \in Nat /\ a.set * S \in Nat
  BY <1>2, Distribute DEF Timer
<1>4. CASE a.written
  <2>1. b = [a EXCEPT !.timeout = a.timeout, !.written = FALSE, !.fraction = 0]
    BY <1>4 DEF OnShutdownState, SavedTimeout
  <2> HIDE DEF b
  <2>2. /\ b \in Timer /\ b.timeout = a.timeout /\ b.fraction = 0 /\ ~b.written
        /\ b.ran = a.ran /\ b.set = a.set
    <3>1. 0 \in 0 .. Second - 1
      BY <1>1
    <3> QED
      BY <2>1, <3>1 DEF Timer
  <2>3. a.timeout > 0 => Excess(a) <= 0
    BY <1>4 DEF Bounded, Slack, Timer
  <2>4. b.timeout > 0 => Excess(b) <= S - 1
    BY <1>1, <1>3, <2>2, <2>3 DEF Excess, Timer
  <2>5. Slack(b, "STATE") = S - 1 \/ Slack(b, "STATE") = 2 * (S - 1)
    BY <2>2 DEF Slack, Timer
  <2>6. Excess(b) \in Int
    BY <1>1, <1>3, <2>2 DEF Excess, Timer
  <2> QED
    BY <1>1, <2>2, <2>4, <2>5, <2>6 DEF Bounded, Counted, Timer, b
<1>5. CASE ~a.written
  <2>1. b = [a EXCEPT !.timeout = h, !.written = FALSE, !.fraction = 0]
    BY <1>5 DEF OnShutdownState, SavedTimeout
  <2> HIDE DEF b
  <2>2. /\ b \in Timer /\ b.timeout = h /\ b.fraction = 0 /\ ~b.written
        /\ b.ran = a.ran /\ b.set = a.set
    <3>1. 0 \in 0 .. Second - 1
      BY <1>1
    <3> QED
      BY <2>1, <1>2, <3>1 DEF Timer
  <2>3. Counted(b)
    BY <2>2 DEF Counted, Timer
  <2>4. SUFFICES ASSUME h > 0 PROVE Excess(b) <= Slack(b, "STATE")
    BY <2>2, <2>3 DEF Bounded, b
  <2>5. a.timeout >= 2
    BY <1>2, <2>4 DEF Timer
  <2>6. Excess(a) <= 2 * (S - 1)
    <3>1. Slack(a, down) = S - 1 \/ Slack(a, down) = 2 * (S - 1)
      BY <1>5, <2>5 DEF Slack, Timer
    <3>2. Excess(a) \in Int /\ Excess(a) <= Slack(a, down)
      BY <1>1, <1>3, <2>5 DEF Bounded, Excess, Timer
    <3> QED
      BY <1>1, <3>1, <3>2
  <2>7. h * S + S <= a.timeout * S
    BY <1>2, <2>4, <2>5, Distribute DEF Timer
  <2>8. CASE h = 1
    <3>1. Slack(b, "STATE") = 2 * (S - 1)
      BY <2>2, <2>8 DEF Slack
    <3>2. Excess(b) <= 2 * (S - 1)
      BY <1>1, <1>3, <2>2, <2>6, <2>7 DEF Excess, Timer
    <3> QED
      BY <3>1, <3>2
  <2>9. CASE h >= 2
    <3>1. Slack(b, "STATE") = S - 1
      BY <1>2, <2>2, <2>9 DEF Slack
    <3>2. (h + 1) * S = h * S + S /\ (h + 1) * S + S <= a.timeout * S
      <4>1. h + 1 \in Nat /\ h + 1 < a.timeout
        BY <1>2, <2>9 DEF Timer
      <4>2. (h + 1) * S + S <= a.timeout * S
        BY <4>1, Distribute DEF Timer
      <4>3. (h + 1) * S = h * S + S
        BY <1>1, <1>2, Z3
      <4> QED
        BY <4>2, <4>3
    <3>3. Excess(b) <= S - 1
      BY <1>1, <1>3, <2>2, <2>6, <3>2 DEF Excess, Timer
    <3> QED
      BY <3>1, <3>3
  <2> QED
    BY <1>2, <2>4, <2>8, <2>9
<1> QED
  BY <1>4, <1>5 DEF Timer

\* A resume leaves out at most one more fraction.
LEMMA BoundedResume ==
  ASSUME NEW a \in Timer, Counted(a), Bounded(a, "STATE")
  PROVE  LET b == OnResume(a) IN b \in Timer /\ Counted(b) /\ Bounded(b, "NONE")
<1> DEFINE b == OnResume(a)
           S == Second
<1>1. S \in Nat /\ S >= 1 /\ 0 \in 0 .. S - 1
  BY ActAssumption
<1>2. a.timeout * S \in Nat /\ a.set * S \in Nat
  BY Distribute DEF Timer
<1>3. /\ b \in Timer /\ b.timeout = a.timeout /\ b.fraction = 0 /\ ~b.written
      /\ b.ran = a.ran /\ b.set = a.set
  BY <1>1 DEF OnResume, Timer
<1> HIDE DEF b
<1>4. SUFFICES ASSUME a.timeout > 0 PROVE Excess(b) <= Slack(b, "NONE")
  BY <1>3 DEF Bounded, Counted, Timer, b
<1>5. Excess(a) \in Int /\ Excess(a) <= Slack(a, "STATE")
  BY <1>1, <1>2, <1>4 DEF Bounded, Excess, Timer
<1>6. Excess(b) <= Excess(a) + S - 1 /\ Excess(b) \in Int
  BY <1>1, <1>2, <1>3 DEF Excess, Timer
<1>7. CASE a.timeout >= 2
  BY <1>1, <1>3, <1>5, <1>6, <1>7 DEF Slack, Timer
<1>8. CASE a.timeout < 2
  BY <1>1, <1>3, <1>5, <1>6, <1>8 DEF Slack, Timer
<1> QED
  BY <1>7, <1>8 DEF Timer

\* A timer that is set has nothing left out.
LEMMA BoundedSet ==
  ASSUME NEW a \in Timer, NEW start \in Timeouts, NEW down
  PROVE  LET b == SetTo(a, start) IN b \in Timer /\ Counted(b) /\ Bounded(b, down)
<1> DEFINE b == SetTo(a, start)
           clears == start = CLEAR_SIGNALED /\ a.timeout = 0 /\ a.signaled
           raises == a.timeout # 0 /\ start = 0
           t == IF clears THEN 0 ELSE start
           sig == IF clears \/ start # 0 THEN FALSE ELSE raises \/ a.signaled
<1>1. t \in Nat /\ sig \in BOOLEAN /\ Second \in Nat /\ 0 \in 0 .. Second - 1
  <2>1. sig \in BOOLEAN
    <3>1. a.signaled \in BOOLEAN
      BY DEF Timer
    <3>2. (raises \/ a.signaled) \in BOOLEAN
      BY <3>1, Zenon
    <3> HIDE DEF raises, clears
    <3> QED
      BY <3>2
  <2>2. t \in Nat
    BY ActAssumption
  <2>3. Second \in Nat /\ 0 \in 0 .. Second - 1
    BY ActAssumption
  <2> HIDE DEF t, sig
  <2> QED
    BY <2>1, <2>2, <2>3
<1>2. b = [a EXCEPT !.written = TRUE, !.fraction = 0, !.preserve = FALSE, !.timeout = t,
                    !.signaled = sig, !.set = t, !.ran = 0]
  BY DEF SetTo
<1> HIDE DEF b, t, sig
<1>3. /\ b \in Timer /\ b.timeout = t /\ b.set = t /\ b.fraction = 0 /\ b.ran = 0
      /\ b.written
  BY <1>1, <1>2 DEF Timer
<1>4. t * Second \in Nat
  BY <1>1, Distribute
<1>5. Excess(b) = 0
  BY <1>3, <1>4 DEF Excess
<1>6. Slack(b, down) = 0
  BY <1>3 DEF Slack
<1> QED
  BY <1>3, <1>5, <1>6 DEF Bounded, Counted, b

\* A file that is read again has no fraction, and the timer is not taken for one
\* just set.
LEMMA BoundedReload ==
  ASSUME NEW a \in Timer, Counted(a), NEW down, Bounded(a, down)
  PROVE  LET b == [a EXCEPT !.preserve = FALSE, !.fraction = 0, !.written = FALSE,
                            !.ran = @ - a.fraction]
         IN  b \in Timer /\ Counted(b) /\ Bounded(b, down)
<1> DEFINE b == [a EXCEPT !.preserve = FALSE, !.fraction = 0, !.written = FALSE,
                          !.ran = @ - a.fraction]
<1>1. Second \in Nat /\ 0 \in 0 .. Second - 1 /\ a.ran - a.fraction \in Nat
  BY ActAssumption DEF Timer, Counted
<1>2. /\ b \in Timer /\ b.timeout = a.timeout /\ b.set = a.set /\ b.fraction = 0
      /\ b.ran = a.ran - a.fraction /\ ~b.written
  BY <1>1 DEF Timer
<1> HIDE DEF b
<1>3. a.timeout * Second \in Nat /\ a.set * Second \in Nat
  BY Distribute DEF Timer
<1>4. Excess(b) = Excess(a) /\ Excess(a) \in Int
  BY <1>1, <1>2, <1>3 DEF Excess, Timer
<1>5. /\ Slack(a, down) \in Int /\ Slack(b, down) \in Int
      /\ Slack(a, down) <= Slack(b, down)
  BY <1>2, ActAssumption DEF Slack, Timer
<1> QED
  BY <1>1, <1>2, <1>4, <1>5 DEF Bounded, Counted, b

-----------------------------------------------------------------------------
\* A step that leaves a bounded timer, and a file that is what it was or what
\* memory has now.
LEMMA StepKeeps ==
  ASSUME IInv,
         act' \in Timer, Counted(act'), Bounded(act', shutdown'),
         shutdown' \in {"NONE", "CLEAR", "STATE"},
         started' \in BOOLEAN, broken' \in BOOLEAN,
         sets' \in 0 .. MaxSets, faults' \in 0 .. MaxFaults,
         \/ file' = file
         \/ file' = [act |-> act', shutdown |-> shutdown']
         \/ file' = [act |-> act, shutdown |-> shutdown]
  PROVE  IInv'
<1>1. /\ act \in Timer /\ file.act \in Timer /\ shutdown \in {"NONE", "CLEAR", "STATE"}
      /\ file \in [act : Timer, shutdown : {"NONE", "CLEAR", "STATE"}]
  BY DEF IInv, TypeOK, Timer
<1>2. /\ file' \in [act : Timer, shutdown : {"NONE", "CLEAR", "STATE"}]
      /\ Counted(file'.act) /\ Bounded(file'.act, file'.shutdown)
  <2>1. CASE file' = file
    BY <1>1, <2>1 DEF IInv
  <2>2. CASE file' = [act |-> act', shutdown |-> shutdown']
    BY <2>2
  <2>3. CASE file' = [act |-> act, shutdown |-> shutdown]
    BY <1>1, <2>3 DEF IInv
  <2> QED
    BY <2>1, <2>2, <2>3
<1>3. Timer' = Timer
  BY DEF Timer
<1>4. TypeOK'
  BY <1>1, <1>2 DEF TypeOK, Timer
<1>5. /\ Counted(act)' /\ Counted(file.act)'
      /\ Bounded(act, shutdown)' /\ Bounded(file.act, file.shutdown)'
  BY <1>2 DEF Counted, Bounded, Excess, Slack
<1> QED
  BY <1>4, <1>5 DEF IInv

\* What follows a command: the file, and the record of a write that failed.
LEMMA WrittenKeeps ==
  ASSUME IInv, Written(act', shutdown')
  PROVE  /\ broken' \in BOOLEAN /\ faults' \in 0 .. MaxFaults
         /\ \/ file' = file
            \/ file' = [act |-> act', shutdown |-> shutdown']
<1>1. broken \in BOOLEAN /\ faults \in 0 .. MaxFaults /\ MaxFaults \in Nat
  BY ActAssumption DEF IInv, TypeOK
<1>2. CASE file' = [act |-> act', shutdown |-> shutdown'] /\ UNCHANGED <<broken, faults>>
  BY <1>1, <1>2
<1>3. CASE faults < MaxFaults /\ faults' = faults + 1 /\ broken' = TRUE /\ UNCHANGED file
  BY <1>1, <1>3
<1> QED
  BY <1>2, <1>3 DEF Written

\* The initial state.
LEMMA InitIInv == Init => IInv
<1> SUFFICES ASSUME Init PROVE IInv
  OBVIOUS
<1>1. 0 \in 0 .. Second - 1 /\ 0 \in 0 .. MaxSets /\ 0 \in 0 .. MaxFaults
  BY ActAssumption
<1>2. Stopped \in Timer /\ Counted(Stopped)
  BY <1>1 DEF Stopped, Timer, Counted
<1>3. \A down : Bounded(Stopped, down)
  BY DEF Stopped, Bounded
<1> QED
  BY <1>1, <1>2, <1>3 DEF Init, IInv, TypeOK, Timer

\* Every command, poll, power cycle and crash keeps IInv.
LEMMA NextIInv == IInv /\ [Next]_vars => IInv'
<1> SUFFICES ASSUME IInv, [Next]_vars PROVE IInv'
  OBVIOUS
<1>1. /\ act \in Timer /\ file.act \in Timer /\ shutdown \in {"NONE", "CLEAR", "STATE"}
      /\ file.shutdown \in {"NONE", "CLEAR", "STATE"}
      /\ started \in BOOLEAN /\ broken \in BOOLEAN
      /\ sets \in 0 .. MaxSets /\ faults \in 0 .. MaxFaults
      /\ Counted(act) /\ Counted(file.act)
      /\ Bounded(act, shutdown) /\ Bounded(file.act, file.shutdown)
  BY DEF IInv, TypeOK, Timer
<1>2. MaxSets \in Nat /\ MaxFaults \in Nat /\ MaxStep \in Nat
  BY ActAssumption
<1>3. \A d \in 0 .. MaxStep :
        /\ d \in Nat
        /\ Advance(act, d) \in Timer /\ Counted(Advance(act, d))
        /\ Bounded(Advance(act, d), shutdown)
        /\ Bounded(Advance(act, d), "NONE") /\ Bounded(Advance(act, d), "CLEAR")
  <2> SUFFICES ASSUME NEW d \in 0 .. MaxStep
               PROVE  /\ d \in Nat
                      /\ Advance(act, d) \in Timer /\ Counted(Advance(act, d))
                      /\ Bounded(Advance(act, d), shutdown)
                      /\ Bounded(Advance(act, d), "NONE") /\ Bounded(Advance(act, d), "CLEAR")
    OBVIOUS
  <2>1. d \in Nat
    BY <1>2
  <2>2. Advance(act, d) \in Timer /\ Counted(Advance(act, d))
    BY <1>1, <2>1, AdvanceKeeps
  <2>3. Bounded(Advance(act, d), shutdown)
    BY <1>1, <2>1, BoundedAdvance
  <2>4. Bounded(Advance(act, d), "NONE")
    BY <1>1, <2>1, BoundedAdvance, "NONE" # "STATE"
  <2>5. Bounded(Advance(act, d), "CLEAR")
    BY <1>1, <2>1, BoundedAdvance, "CLEAR" # "STATE"
  <2> QED
    BY <2>1, <2>2, <2>3, <2>4, <2>5
<1>4. ASSUME NEW d \in 0 .. MaxStep, NEW start \in Timeouts, SetTimeout(start, d)
      PROVE  IInv'
  <2>1. /\ act' = SetTo(Advance(act, d), start) /\ shutdown' = "NONE" /\ file' = file
        /\ started' \in BOOLEAN /\ broken' \in BOOLEAN
        /\ sets' \in 0 .. MaxSets /\ faults' \in 0 .. MaxFaults
    BY <1>1, <1>2, <1>4 DEF SetTimeout
  <2>2. act' \in Timer /\ Counted(act') /\ Bounded(act', shutdown')
    BY <1>3, <2>1, BoundedSet
  <2> QED
    BY <2>1, <2>2, StepKeeps
<1>5. ASSUME NEW d \in 0 .. MaxStep, Poll(d)
      PROVE  IInv'
  <2>1. /\ act' = Advance(act, d) /\ shutdown' = shutdown /\ file' = file
        /\ UNCHANGED <<started, broken, sets, faults>>
    BY <1>5 DEF Poll
  <2> QED
    BY <1>1, <1>3, <2>1, StepKeeps
<1>6. ASSUME NEW d \in 0 .. MaxStep, NEW written \in BOOLEAN, Other(written, d)
      PROVE  IInv'
  <2>1. act' = Advance(act, d) /\ shutdown' = "NONE" /\ UNCHANGED <<started, sets>>
    BY <1>6 DEF Other
  <2>2. Written(act', shutdown') \/ UNCHANGED <<file, broken, faults>>
    BY <1>6, <2>1 DEF Other
  <2>3. /\ broken' \in BOOLEAN /\ faults' \in 0 .. MaxFaults
        /\ file' = file \/ file' = [act |-> act', shutdown |-> shutdown']
    BY <1>1, <2>2, WrittenKeeps
  <2> QED
    BY <1>1, <1>3, <2>1, <2>3, StepKeeps
<1>7. ASSUME NEW d \in 0 .. MaxStep, NEW type \in {"CLEAR", "STATE"}, Shutdown(type, d)
      PROVE  IInv'
  <2>1. shutdown' = type /\ UNCHANGED <<started, sets>> /\ Written(act', shutdown')
    BY <1>7 DEF Shutdown
  <2>2. act' \in Timer /\ Counted(act') /\ Bounded(act', shutdown')
    <3>1. CASE type = "STATE"
      <4>1. act' = OnShutdownState(Advance(act, d))
        BY <1>7, <3>1 DEF Shutdown
      <4> QED
        BY <1>3, <2>1, <3>1, <4>1, BoundedShutdown
    <3>2. CASE type = "CLEAR"
      <4>1. act' = Advance(act, d)
        BY <1>7, <3>2 DEF Shutdown
      <4> QED
        BY <1>3, <2>1, <3>2, <4>1
    <3> QED
      BY <3>1, <3>2
  <2>3. /\ broken' \in BOOLEAN /\ faults' \in 0 .. MaxFaults
        /\ file' = file \/ file' = [act |-> act', shutdown |-> shutdown']
    BY <2>1, WrittenKeeps
  <2> QED
    BY <1>1, <2>1, <2>2, <2>3, StepKeeps
<1>8. ASSUME NEW d \in 0 .. MaxStep, NEW type \in {"CLEAR", "STATE"}, Startup(type, d)
      PROVE  IInv'
  <2>1. /\ shutdown' = "NONE" /\ sets' = sets /\ started' = TRUE
        /\ Written(act', shutdown')
    BY <1>8 DEF Startup
  <2>2. act' \in Timer /\ Counted(act') /\ Bounded(act', "NONE")
    <3>1. CASE type = "STATE"
      <4>1. act' = OnResume(Advance(act, d)) /\ shutdown = "STATE"
        BY <1>8, <3>1 DEF Startup
      <4>2. Bounded(Advance(act, d), "STATE")
        BY <1>3, <4>1
      <4> QED
        BY <1>3, <4>1, <4>2, BoundedResume
    <3>2. CASE type = "CLEAR"
      <4>1. act' = Stopped /\ 0 \in 0 .. Second - 1
        BY <1>8, <3>2, ActAssumption DEF Startup, OnReset
      <4> QED
        BY <4>1 DEF Stopped, Timer, Counted, Bounded
    <3> QED
      BY <3>1, <3>2
  <2>3. /\ broken' \in BOOLEAN /\ faults' \in 0 .. MaxFaults
        /\ file' = file \/ file' = [act |-> act', shutdown |-> shutdown']
    BY <2>1, WrittenKeeps
  <2> QED
    BY <1>1, <2>1, <2>2, <2>3, StepKeeps
<1>9. ASSUME Reload
      PROVE  /\ act' \in Timer /\ Counted(act') /\ Bounded(act', shutdown')
             /\ shutdown' \in {"NONE", "CLEAR", "STATE"}
  <2>1. shutdown' = file.shutdown
        /\ act' = [file.act EXCEPT !.preserve = FALSE, !.fraction = 0, !.written = FALSE,
                                   !.ran = @ - file.act.fraction]
    BY <1>9 DEF Reload
  <2> QED
    BY <1>1, <2>1, BoundedReload
<1>10. ASSUME NEW saved \in BOOLEAN, PowerCycle(saved)
       PROVE  IInv'
  <2>1. /\ started' = FALSE /\ broken' = FALSE /\ UNCHANGED <<sets, faults>>
        /\ file' = file \/ file' = [act |-> act, shutdown |-> shutdown]
        /\ Reload \/ UNCHANGED <<act, shutdown>>
    BY <1>10 DEF PowerCycle
  <2>2. /\ act' \in Timer /\ Counted(act') /\ Bounded(act', shutdown')
        /\ shutdown' \in {"NONE", "CLEAR", "STATE"}
    BY <1>1, <1>9, <2>1
  <2> QED
    BY <1>1, <2>1, <2>2, StepKeeps
<1>11. ASSUME Crash
       PROVE  IInv'
  <2>1. /\ started' = FALSE /\ broken' = FALSE /\ UNCHANGED <<file, sets>> /\ Reload
        /\ faults' \in 0 .. MaxFaults
    BY <1>1, <1>2, <1>11 DEF Crash
  <2> QED
    BY <1>1, <1>9, <2>1, StepKeeps
<1>12. CASE UNCHANGED vars
  BY <1>1, <1>12, StepKeeps DEF vars
<1> QED
  BY <1>4, <1>5, <1>6, <1>7, <1>8, <1>10, <1>11, <1>12 DEF Next

-----------------------------------------------------------------------------
\* The inductive invariant holds in every state.
THEOREM ActIInv == Spec => []IInv
  BY InitIInv, NextIInv, PTL DEF Spec

\* No timer outlives what it was set to by three seconds (act.rs, saved_timeout
\* and on_shutdown_state), whatever the order of shutdowns, startups, power
\* cycles and failed writes.
THEOREM ActNotExtended == Spec => []NotExtended
<1>1. IInv => NotExtended
  <2> SUFFICES ASSUME IInv, act.timeout > 0
               PROVE  act.ran + act.timeout * Second - act.fraction
                        <= act.set * Second + 3 * (Second - 1)
    BY DEF NotExtended
  <2>1. act \in Timer /\ Excess(act) <= Slack(act, shutdown)
    BY DEF IInv, TypeOK, Timer, Bounded
  <2>2. Slack(act, shutdown) \in Int /\ Slack(act, shutdown) <= 3 * (Second - 1)
    BY <2>1, ActAssumption DEF Slack, Timer
  <2>3. act.timeout * Second \in Nat /\ act.set * Second \in Nat
    BY <2>1, Distribute DEF Timer
  <2> QED
    BY <2>1, <2>2, <2>3, ActAssumption DEF Excess, Timer
<1> QED
  BY <1>1, ActIInv, PTL

-----------------------------------------------------------------------------
(* Policy.  The invariant.                                                 *)

Shaped(p) ==
  p = [digest |-> p.digest, cc |-> p.cc, cp |-> p.cp, name |-> p.name, template |-> p.template,
       parameters |-> p.parameters, locality |-> p.locality, pcr |-> p.pcr, need |-> p.need,
       written |-> p.written, pp |-> p.pp, channel |-> p.channel, exp |-> p.exp]

\* What may be absent, and is a number otherwise.
MaybeNumber(t) == t = None \/ \E n \in Nat : t = {n}

WellFormed(x) ==
  /\ x = [trial |-> x.trial, bound |-> x.bound, start |-> x.start, epoch |-> x.epoch,
          nonce |-> x.nonce, p |-> x.p, made |-> x.made]
  /\ Shaped(x.p) /\ MaybeNumber(x.p.exp)
  /\ x.trial \in BOOLEAN /\ x.start \in Nat /\ x.epoch \in 0 .. epoch

\* The restriction p has of each assertion, in the way check_policy will ask for it: it may
\* have become stricter, and is never lost.
Restricts(p, made, a) ==
  /\ a[1] = "CC" => p.cc = {a[2]} \/ \E b \in made : b[1] = "SELECT"
  /\ a[1] = "SELECT" => p.cc = {a[2][1]} /\ p.name = {a[2][2]} /\ a[2] = <<a[2][1], a[2][2]>>
  /\ a[1] = "CP" => p.cp = {a[2]}
  /\ a[1] = "NAME" => p.name = {a[2]}
  /\ a[1] = "TEMPLATE" => p.template = {a[2]}
  /\ a[1] = "PARAMETERS" => p.parameters = {a[2]}
  /\ a[1] = "LOCALITY" => p.locality # None /\ p.locality \subseteq a[2]
  /\ a[1] = "WRITTEN" => p.written = {a[2]}
  /\ a[1] = "PP" => p.pp
  /\ a[1] = "AUTH" => p.need # None

\* The register has the value it was compared with while the counter is the one recorded, and
\* the session is of this run of Time.
Measures(p, a) ==
  a[1] = "PCR" =>
    /\ p.pcr # None
    /\ s.epoch = epoch =>
         \A c \in p.pcr : c \in 0 .. pcr.counter /\ (c = pcr.counter => pcr.value = a[2])

\* The limit that is kept is the earliest, and of no run of Time before that of the session.
Expires(p, a) ==
  a[1] = "UNTIL" =>
    /\ a[2][1] \in Nat /\ \E e \in p.exp : e <= a[2][1]
    /\ a[2][2] \in s.epoch .. epoch

Nonced(a) == a[1] = "NONCE" => a[2] = s.nonce

\* One of the digests that it stands for was there in full.
Founded(made, a) == a[1] \in Replacing => \E d \in Behind(a) : ToSet(d) \subseteq made

Stands(p, made, a) ==
  Restricts(p, made, a) /\ Measures(p, a) /\ Expires(p, a) /\ Nonced(a) /\ Founded(made, a)

\* What the session asserted is in its digest, and each assertion stands.
Asserts ==
  /\ s.p.digest \in Seq(s.made)
  /\ \A a \in s.made : Stands(s.p, s.made, a)

SoundTicket(k) ==
  /\ k.kind \in {"SIGNED", "SECRET"}
  /\ k.cp = None \/ \E h : k.cp = {h}
  /\ MaybeNumber(k.until)

PolicyTypes ==
  /\ {time, epoch, nonces} \subseteq Nat
  /\ pcr = [value |-> pcr.value, counter |-> pcr.counter] /\ pcr.counter \in Nat
  /\ place \in {"nowhere", "memory", "saved"}
  /\ spent \subseteq 1 .. nonces

PolicyIInv ==
  /\ PolicyTypes
  /\ WellFormed(s)
  /\ place # "nowhere" => s.nonce \in (1 .. nonces) \ spent
  /\ ~s.trial => Asserts
  /\ \A k \in tickets : SoundTicket(k)
  /\ AssertionsHold /\ PolicyMet /\ TiedOnce

LEMMA PolicyInitHolds == PolicyInit => PolicyIInv
<1> SUFFICES ASSUME PolicyInit PROVE PolicyIInv
  OBVIOUS
<1>1. PolicyTypes
  BY DEF PolicyInit, PolicyTypes
<1>2. WellFormed(s)
  BY DEF PolicyInit, WellFormed, NoSession, EmptyPolicy, Shaped, MaybeNumber, None
<1>3. Asserts
  <2>1. s.p.digest = <<>> /\ s.made = {}
    BY DEF PolicyInit, NoSession, EmptyPolicy
  <2> QED
    BY <2>1 DEF Asserts
<1> QED
  BY <1>1, <1>2, <1>3 DEF PolicyInit, PolicyIInv, AssertionsHold, PolicyMet, TiedOnce

-----------------------------------------------------------------------------
(* Policy.  Assertions.                                                    *)

\* An assertion that is recorded so that everything asserted stands.
LEMMA AssertedKeeps ==
  ASSUME PolicyIInv, NEW p, NEW d, NEW made, Asserted(p, d, made),
         Shaped(p), MaybeNumber(p.exp),
         ~s.trial => d \in Seq(s.made \cup made),
         ~s.trial => \A a \in s.made \cup made : Stands(p, s.made \cup made, a),
         \A k \in tickets' : SoundTicket(k)
  PROVE  PolicyIInv'
<1> DEFINE q == [p EXCEPT !.digest = d]
           x == [s EXCEPT !.p = q, !.made = @ \cup made]
<1>1. s' = x /\ place = "memory" /\ UNCHANGED <<place, env, nonces, history>>
  BY DEF Asserted
<1>2. /\ q.digest = d /\ q.cc = p.cc /\ q.cp = p.cp /\ q.name = p.name
      /\ q.template = p.template /\ q.parameters = p.parameters /\ q.locality = p.locality
      /\ q.pcr = p.pcr /\ q.need = p.need /\ q.written = p.written /\ q.pp = p.pp
      /\ q.exp = p.exp /\ Shaped(q)
  BY DEF Shaped
<1> HIDE DEF q
<1>3. WellFormed(s)
  BY DEF PolicyIInv
<1>4. x = [trial |-> s.trial, bound |-> s.bound, start |-> s.start, epoch |-> s.epoch,
           nonce |-> s.nonce, p |-> q, made |-> s.made \cup made]
  <2> DEFINE m == s.made \cup made
  <2>1. x = [s EXCEPT !.p = q, !.made = m]
    OBVIOUS
  <2> HIDE DEF m, x
  <2>2. x = [trial |-> s.trial, bound |-> s.bound, start |-> s.start, epoch |-> s.epoch,
             nonce |-> s.nonce, p |-> q, made |-> m]
    BY <1>3, <2>1 DEF WellFormed
  <2> QED
    BY <2>2 DEF m
<1> HIDE DEF x
<1>5. /\ s'.trial = s.trial /\ s'.start = s.start /\ s'.epoch = s.epoch /\ s'.nonce = s.nonce
      /\ s'.p = q /\ s'.made = s.made \cup made
      /\ s' = [trial |-> s'.trial, bound |-> s'.bound, start |-> s'.start, epoch |-> s'.epoch,
               nonce |-> s'.nonce, p |-> s'.p, made |-> s'.made]
  BY <1>1, <1>4
<1>6. /\ UNCHANGED <<policy, pcr, time, epoch, place, nonces>>
      /\ UNCHANGED <<spent, twice, stale, unmet>>
  BY <1>1 DEF env, history
<1>7. WellFormed(s)'
  BY <1>2, <1>3, <1>5, <1>6 DEF WellFormed
<1>8. ASSUME ~s.trial PROVE Asserts'
  <2>1. s'.p.digest \in Seq(s'.made)
    BY <1>2, <1>5, <1>8
  <2>2. ASSUME NEW a \in s'.made PROVE Stands(s.p, s.made, a)'
    <3>1. Stands(p, s'.made, a)
      BY <1>5, <1>8
    <3>2. Restricts(s.p, s.made, a)'
      BY <1>2, <1>5, <3>1 DEF Stands, Restricts
    <3>3. Measures(s.p, a)'
      BY <1>2, <1>5, <1>6, <3>1 DEF Stands, Measures
    <3>4. Expires(s.p, a)'
      BY <1>2, <1>5, <1>6, <3>1 DEF Stands, Expires
    <3>5. Nonced(a)' /\ Founded(s.made, a)'
      BY <1>5, <3>1 DEF Stands, Nonced, Founded
    <3> QED
      BY <3>2, <3>3, <3>4, <3>5 DEF Stands
  <2> QED
    BY <2>1, <2>2 DEF Asserts
<1>9. PolicyTypes'
  BY <1>6 DEF PolicyIInv, PolicyTypes
<1> QED
  BY <1>5, <1>6, <1>7, <1>8, <1>9 DEF PolicyIInv, AssertionsHold, PolicyMet, TiedOnce

\* An entry at the end of the digest.
LEMMA ExtendedDigest ==
  ASSUME PolicyIInv, ~s.trial, NEW made, NEW entry \in made
  PROVE  Append(s.p.digest, entry) \in Seq(s.made \cup made)
<1> DEFINE d == s.p.digest
           S == s.made
           T == S \cup made
<1>1. d \in Seq(S)
  BY DEF PolicyIInv, Asserts
<1>2. entry \in T
  OBVIOUS
<1> HIDE DEF d, S
<1>3. d \in Seq(T)
  BY <1>1
<1> HIDE DEF T
<1>4. Append(d, entry) \in Seq(T)
  BY <1>2, <1>3
<1> QED
  BY <1>4 DEF d, S, T

\* The assertions that measure nothing and do not expire.
Plain(e) == e[1] \notin {"PCR", "UNTIL", "NONCE"} \cup Replacing

LEMMA RestrictionKeeps ==
  ASSUME PolicyIInv, NEW p, NEW e, ExtendPolicy(p, e), UNCHANGED tickets,
         Shaped(p), p.exp = s.p.exp, p.pcr = s.p.pcr, Plain(e),
         ~s.trial => \A a \in s.made \cup {e} : Restricts(p, s.made \cup {e}, a)
  PROVE  PolicyIInv'
<1> DEFINE d == Append(s.p.digest, e)
<1>1. Asserted(p, d, {e})
  BY DEF ExtendPolicy
<1>2. MaybeNumber(p.exp) /\ \A k \in tickets' : SoundTicket(k)
  BY DEF PolicyIInv, WellFormed
<1>3. ~s.trial => d \in Seq(s.made \cup {e})
  BY ExtendedDigest
<1>4. ASSUME ~s.trial, NEW a \in s.made \cup {e} PROVE Stands(p, s.made \cup {e}, a)
  <2>1. CASE a = e
    BY <1>4, <2>1 DEF Stands, Plain, Measures, Expires, Nonced, Founded
  <2>2. CASE a \in s.made
    <3>1. Stands(s.p, s.made, a)
      BY <1>4, <2>2 DEF PolicyIInv, Asserts
    <3>2. Measures(p, a) /\ Expires(p, a) /\ Nonced(a)
      BY <3>1 DEF Stands, Measures, Expires
    <3>3. Founded(s.made \cup {e}, a)
      BY <3>1 DEF Stands, Founded
    <3> QED
      BY <1>4, <3>2, <3>3 DEF Stands
  <2> QED
    BY <1>4, <2>1, <2>2
<1> HIDE DEF d
<1> QED
  BY <1>1, <1>2, <1>3, <1>4, AssertedKeeps

LEMMA WhatRestricts ==
  ASSUME PolicyIInv
  PROVE  /\ Shaped(s.p)
         /\ ~s.trial => \A a \in s.made : Restricts(s.p, s.made, a)
BY DEF PolicyIInv, WellFormed, Asserts, Stands

\* What a restriction leaves alone.
LEMMA WithField ==
  ASSUME NEW p, Shaped(p), NEW v
  PROVE  /\ [p EXCEPT !.locality = v] =
              [digest |-> p.digest, cc |-> p.cc, cp |-> p.cp, name |-> p.name,
               template |-> p.template, parameters |-> p.parameters, locality |-> v,
               pcr |-> p.pcr, need |-> p.need, written |-> p.written, pp |-> p.pp,
               channel |-> p.channel, exp |-> p.exp]
         /\ [p EXCEPT !.pp = v] =
              [digest |-> p.digest, cc |-> p.cc, cp |-> p.cp, name |-> p.name,
               template |-> p.template, parameters |-> p.parameters,
               locality |-> p.locality, pcr |-> p.pcr, need |-> p.need,
               written |-> p.written, pp |-> v, channel |-> p.channel, exp |-> p.exp]
         /\ [p EXCEPT !.channel = v] =
              [digest |-> p.digest, cc |-> p.cc, cp |-> p.cp, name |-> p.name,
               template |-> p.template, parameters |-> p.parameters,
               locality |-> p.locality, pcr |-> p.pcr, need |-> p.need,
               written |-> p.written, pp |-> p.pp, channel |-> v, exp |-> p.exp]
         /\ [p EXCEPT !.pcr = v] =
              [digest |-> p.digest, cc |-> p.cc, cp |-> p.cp, name |-> p.name,
               template |-> p.template, parameters |-> p.parameters,
               locality |-> p.locality, pcr |-> v, need |-> p.need, written |-> p.written,
               pp |-> p.pp, channel |-> p.channel, exp |-> p.exp]
         /\ [p EXCEPT !.cp = v] =
              [digest |-> p.digest, cc |-> p.cc, cp |-> v, name |-> p.name,
               template |-> p.template, parameters |-> p.parameters,
               locality |-> p.locality, pcr |-> p.pcr, need |-> p.need,
               written |-> p.written, pp |-> p.pp, channel |-> p.channel, exp |-> p.exp]
         /\ [p EXCEPT !.exp = v] =
              [digest |-> p.digest, cc |-> p.cc, cp |-> p.cp, name |-> p.name,
               template |-> p.template, parameters |-> p.parameters,
               locality |-> p.locality, pcr |-> p.pcr, need |-> p.need,
               written |-> p.written, pp |-> p.pp, channel |-> p.channel, exp |-> v]
<1>1. p = [digest |-> p.digest, cc |-> p.cc, cp |-> p.cp, name |-> p.name,
           template |-> p.template, parameters |-> p.parameters, locality |-> p.locality,
           pcr |-> p.pcr, need |-> p.need, written |-> p.written, pp |-> p.pp,
           channel |-> p.channel, exp |-> p.exp]
  BY DEF Shaped
<1>2. [p EXCEPT !.locality = v] =
     [digest |-> p.digest, cc |-> p.cc, cp |-> p.cp, name |-> p.name,
      template |-> p.template, parameters |-> p.parameters, locality |-> v,
      pcr |-> p.pcr, need |-> p.need, written |-> p.written, pp |-> p.pp,
      channel |-> p.channel, exp |-> p.exp]
  BY <1>1
<1>3. [p EXCEPT !.pp = v] =
     [digest |-> p.digest, cc |-> p.cc, cp |-> p.cp, name |-> p.name,
      template |-> p.template, parameters |-> p.parameters,
      locality |-> p.locality, pcr |-> p.pcr, need |-> p.need,
      written |-> p.written, pp |-> v, channel |-> p.channel, exp |-> p.exp]
  BY <1>1
<1>4. [p EXCEPT !.channel = v] =
     [digest |-> p.digest, cc |-> p.cc, cp |-> p.cp, name |-> p.name,
      template |-> p.template, parameters |-> p.parameters,
      locality |-> p.locality, pcr |-> p.pcr, need |-> p.need,
      written |-> p.written, pp |-> p.pp, channel |-> v, exp |-> p.exp]
  BY <1>1
<1>5. [p EXCEPT !.pcr = v] =
     [digest |-> p.digest, cc |-> p.cc, cp |-> p.cp, name |-> p.name,
      template |-> p.template, parameters |-> p.parameters, locality |-> p.locality,
      pcr |-> v, need |-> p.need, written |-> p.written, pp |-> p.pp,
      channel |-> p.channel, exp |-> p.exp]
  BY <1>1
<1>6. [p EXCEPT !.cp = v] =
     [digest |-> p.digest, cc |-> p.cc, cp |-> v, name |-> p.name, template |-> p.template,
      parameters |-> p.parameters, locality |-> p.locality, pcr |-> p.pcr, need |-> p.need,
      written |-> p.written, pp |-> p.pp, channel |-> p.channel, exp |-> p.exp]
  BY <1>1
<1>7. [p EXCEPT !.exp = v] =
     [digest |-> p.digest, cc |-> p.cc, cp |-> p.cp, name |-> p.name,
      template |-> p.template, parameters |-> p.parameters, locality |-> p.locality,
      pcr |-> p.pcr, need |-> p.need, written |-> p.written, pp |-> p.pp,
      channel |-> p.channel, exp |-> v]
  BY <1>1
<1> QED
  BY <1>2, <1>3, <1>4, <1>5, <1>6, <1>7

LEMMA WithSelection ==
  ASSUME NEW p, Shaped(p), NEW v, NEW w
  PROVE  [p EXCEPT !.name = v, !.cc = w] =
              [digest |-> p.digest, cc |-> w, cp |-> p.cp, name |-> v,
               template |-> p.template, parameters |-> p.parameters,
               locality |-> p.locality, pcr |-> p.pcr, need |-> p.need,
               written |-> p.written, pp |-> p.pp, channel |-> p.channel, exp |-> p.exp]
<1>1. p = [digest |-> p.digest, cc |-> p.cc, cp |-> p.cp, name |-> p.name,
           template |-> p.template, parameters |-> p.parameters, locality |-> p.locality,
           pcr |-> p.pcr, need |-> p.need, written |-> p.written, pp |-> p.pp,
           channel |-> p.channel, exp |-> p.exp]
  BY DEF Shaped
<1> DEFINE q == [p EXCEPT !.name = v]
<1>2. q = [digest |-> p.digest, cc |-> p.cc, cp |-> p.cp, name |-> v,
           template |-> p.template, parameters |-> p.parameters,
           locality |-> p.locality, pcr |-> p.pcr, need |-> p.need,
           written |-> p.written, pp |-> p.pp, channel |-> p.channel, exp |-> p.exp]
  BY <1>1
<1>3. [p EXCEPT !.name = v, !.cc = w] = [q EXCEPT !.cc = w]
  OBVIOUS
<1> HIDE DEF q
<1> QED
  BY <1>2, <1>3

LEMMA PolicyCpHashKeeps ==
  ASSUME PolicyIInv, NEW h, PolicyCpHash(h)
  PROVE  PolicyIInv'
<1> DEFINE p == [s.p EXCEPT !.cp = {h}]
           e == <<"CP", h>>
<1>1. Shaped(s.p) /\ (~s.trial => \A a \in s.made : Restricts(s.p, s.made, a))
  BY WhatRestricts
<1>2. Shaped(p) /\ p.exp = s.p.exp /\ p.pcr = s.p.pcr
  BY <1>1 DEF Shaped
<1>3. ~s.trial => s.p.cp = None \/ s.p.cp = {h}
  BY DEF PolicyCpHash, SharedCpHashTaken
<1>4. ASSUME ~s.trial, NEW a \in s.made \cup {e} PROVE Restricts(p, s.made \cup {e}, a)
  BY <1>1, <1>3, <1>4 DEF Restricts, Shaped, None
<1>5. Plain(e) /\ ExtendPolicy(p, e) /\ UNCHANGED tickets
  BY DEF PolicyCpHash, Plain, Replacing
<1> HIDE DEF p, e
<1> QED
  BY <1>2, <1>4, <1>5, RestrictionKeeps

LEMMA PolicyNameHashKeeps ==
  ASSUME PolicyIInv, NEW n, PolicyNameHash(n)
  PROVE  PolicyIInv'
<1> DEFINE p == [s.p EXCEPT !.name = {n}]
           e == <<"NAME", n>>
<1>1. Shaped(s.p) /\ (~s.trial => \A a \in s.made : Restricts(s.p, s.made, a))
  BY WhatRestricts
<1>2. Shaped(p) /\ p.exp = s.p.exp /\ p.pcr = s.p.pcr
  BY <1>1 DEF Shaped
<1>3. ~s.trial => s.p.name = None
  BY DEF PolicyNameHash, SharedCpHashTaken
<1>4. ASSUME ~s.trial, NEW a \in s.made \cup {e} PROVE Restricts(p, s.made \cup {e}, a)
  BY <1>1, <1>3, <1>4 DEF Restricts, Shaped, None
<1>5. Plain(e) /\ ExtendPolicy(p, e) /\ UNCHANGED tickets
  BY DEF PolicyNameHash, Plain, Replacing
<1> HIDE DEF p, e
<1> QED
  BY <1>2, <1>4, <1>5, RestrictionKeeps

LEMMA PolicyTemplateKeeps ==
  ASSUME PolicyIInv, NEW t, PolicyTemplate(t)
  PROVE  PolicyIInv'
<1> DEFINE p == [s.p EXCEPT !.template = {t}]
           e == <<"TEMPLATE", t>>
<1>1. Shaped(s.p) /\ (~s.trial => \A a \in s.made : Restricts(s.p, s.made, a))
  BY WhatRestricts
<1>2. Shaped(p) /\ p.exp = s.p.exp /\ p.pcr = s.p.pcr
  BY <1>1 DEF Shaped
<1>3. ~s.trial => s.p.template = None \/ s.p.template = {t}
  BY DEF PolicyTemplate
<1>4. ASSUME ~s.trial, NEW a \in s.made \cup {e} PROVE Restricts(p, s.made \cup {e}, a)
  BY <1>1, <1>3, <1>4 DEF Restricts, Shaped, None
<1>5. Plain(e) /\ ExtendPolicy(p, e) /\ UNCHANGED tickets
  BY DEF PolicyTemplate, Plain, Replacing
<1> HIDE DEF p, e
<1> QED
  BY <1>2, <1>4, <1>5, RestrictionKeeps

LEMMA PolicyParametersKeeps ==
  ASSUME PolicyIInv, NEW h, PolicyParameters(h)
  PROVE  PolicyIInv'
<1> DEFINE p == [s.p EXCEPT !.parameters = {h}]
           e == <<"PARAMETERS", h>>
<1>1. Shaped(s.p) /\ (~s.trial => \A a \in s.made : Restricts(s.p, s.made, a))
  BY WhatRestricts
<1>2. Shaped(p) /\ p.exp = s.p.exp /\ p.pcr = s.p.pcr
  BY <1>1 DEF Shaped
<1>3. ~s.trial => s.p.parameters = None
  BY DEF PolicyParameters, SharedCpHashTaken
<1>4. ASSUME ~s.trial, NEW a \in s.made \cup {e} PROVE Restricts(p, s.made \cup {e}, a)
  BY <1>1, <1>3, <1>4 DEF Restricts, Shaped, None
<1>5. Plain(e) /\ ExtendPolicy(p, e) /\ UNCHANGED tickets
  BY DEF PolicyParameters, Plain, Replacing
<1> HIDE DEF p, e
<1> QED
  BY <1>2, <1>4, <1>5, RestrictionKeeps

LEMMA PolicyCommandCodeKeeps ==
  ASSUME PolicyIInv, NEW c, PolicyCommandCode(c)
  PROVE  PolicyIInv'
<1> DEFINE p == [s.p EXCEPT !.cc = {c}]
           e == <<"CC", c>>
<1>1. Shaped(s.p) /\ (~s.trial => \A a \in s.made : Restricts(s.p, s.made, a))
  BY WhatRestricts
<1>2. Shaped(p) /\ p.exp = s.p.exp /\ p.pcr = s.p.pcr
  BY <1>1 DEF Shaped
<1>3. ~s.trial => s.p.cc \subseteq {c}
  BY DEF PolicyCommandCode
<1>4. ASSUME ~s.trial, NEW a \in s.made \cup {e} PROVE Restricts(p, s.made \cup {e}, a)
  BY <1>1, <1>3, <1>4 DEF Restricts, Shaped, None
<1>5. Plain(e) /\ ExtendPolicy(p, e) /\ UNCHANGED tickets
  BY DEF PolicyCommandCode, Plain, Replacing
<1> HIDE DEF p, e
<1> QED
  BY <1>2, <1>4, <1>5, RestrictionKeeps

LEMMA SelectKeeps ==
  ASSUME PolicyIInv, NEW c, NEW n, Select(c, n)
  PROVE  PolicyIInv'
<1> DEFINE p == [s.p EXCEPT !.name = {n}, !.cc = {c}]
           e == <<"SELECT", <<c, n>> >>
<1>1. Shaped(s.p) /\ (~s.trial => \A a \in s.made : Restricts(s.p, s.made, a))
  BY WhatRestricts
<1>2. p = [digest |-> s.p.digest, cc |-> {c}, cp |-> s.p.cp, name |-> {n},
           template |-> s.p.template, parameters |-> s.p.parameters,
           locality |-> s.p.locality, pcr |-> s.p.pcr, need |-> s.p.need,
           written |-> s.p.written, pp |-> s.p.pp, channel |-> s.p.channel, exp |-> s.p.exp]
  BY <1>1, WithSelection
<1>3. ~s.trial => s.p.name = None
  BY DEF Select, SharedCpHashTaken
<1>4. Plain(e) /\ ExtendPolicy(p, e) /\ UNCHANGED tickets
  BY DEF Select, Plain, Replacing
<1> HIDE DEF p
<1>5. /\ p.cc = {c} /\ p.name = {n} /\ p.cp = s.p.cp /\ p.template = s.p.template
      /\ p.parameters = s.p.parameters /\ p.locality = s.p.locality /\ p.need = s.p.need
      /\ p.written = s.p.written /\ p.pp = s.p.pp /\ p.exp = s.p.exp /\ p.pcr = s.p.pcr
      /\ Shaped(p)
  BY <1>2 DEF Shaped
<1>6. ASSUME ~s.trial, NEW a \in s.made \cup {e} PROVE Restricts(p, s.made \cup {e}, a)
  <2>1. CASE a = e
    <3>1. a[1] = "SELECT" /\ a[2] = <<c, n>>
      BY <2>1
    <3> HIDE DEF e
    <3> QED
      BY <1>5, <3>1 DEF Restricts
  <2>2. CASE a \in s.made
    <3>1. Restricts(s.p, s.made, a)
      BY <1>1, <1>6, <2>2
    <3>2. e[1] = "SELECT" /\ e \in s.made \cup {e}
      OBVIOUS
    <3> HIDE DEF e
    <3> QED
      BY <1>3, <1>5, <1>6, <3>1, <3>2 DEF Restricts, None
  <2> QED
    BY <1>6, <2>1, <2>2
<1> HIDE DEF e
<1> QED
  BY <1>4, <1>5, <1>6, RestrictionKeeps

LEMMA PolicyLocalityKeeps ==
  ASSUME PolicyIInv, NEW mask, PolicyLocality(mask)
  PROVE  PolicyIInv'
<1> DEFINE both == IF s.p.locality = None THEN mask ELSE s.p.locality \cap mask
           p == [s.p EXCEPT !.locality = both]
           e == <<"LOCALITY", mask>>
<1>1. Shaped(s.p) /\ (~s.trial => \A a \in s.made : Restricts(s.p, s.made, a))
  BY WhatRestricts
<1>2. /\ Plain(e) /\ ExtendPolicy(p, e) /\ UNCHANGED tickets
      /\ ~s.trial => both # {}
  BY DEF PolicyLocality, Plain, Replacing
<1>3. both \subseteq mask /\ (s.p.locality # None => both \subseteq s.p.locality)
  OBVIOUS
<1> HIDE DEF both
<1>4. p = [digest |-> s.p.digest, cc |-> s.p.cc, cp |-> s.p.cp, name |-> s.p.name,
           template |-> s.p.template, parameters |-> s.p.parameters,
           locality |-> both, pcr |-> s.p.pcr, need |-> s.p.need,
           written |-> s.p.written, pp |-> s.p.pp, channel |-> s.p.channel, exp |-> s.p.exp]
  BY <1>1, WithField
<1> HIDE DEF p
<1>5. Shaped(p) /\ p.exp = s.p.exp /\ p.pcr = s.p.pcr
  BY <1>4 DEF Shaped
<1>6. ASSUME ~s.trial, NEW a \in s.made \cup {e} PROVE Restricts(p, s.made \cup {e}, a)
  BY <1>1, <1>2, <1>3, <1>4, <1>6 DEF Restricts, None
<1> HIDE DEF e
<1> QED
  BY <1>2, <1>5, <1>6, RestrictionKeeps

LEMMA PolicyNvWrittenKeeps ==
  ASSUME PolicyIInv, NEW b, PolicyNvWritten(b)
  PROVE  PolicyIInv'
<1> DEFINE p == [s.p EXCEPT !.written = {b}]
           e == <<"WRITTEN", b>>
<1>1. Shaped(s.p) /\ (~s.trial => \A a \in s.made : Restricts(s.p, s.made, a))
  BY WhatRestricts
<1>2. p = [digest |-> s.p.digest, cc |-> s.p.cc, cp |-> s.p.cp, name |-> s.p.name,
           template |-> s.p.template, parameters |-> s.p.parameters,
           locality |-> s.p.locality, pcr |-> s.p.pcr, need |-> s.p.need, written |-> {b},
           pp |-> s.p.pp, channel |-> s.p.channel, exp |-> s.p.exp]
  BY <1>1 DEF Shaped
<1> HIDE DEF p
<1>3. ~s.trial => s.p.written \subseteq {b}
  BY DEF PolicyNvWritten
<1>4. ASSUME ~s.trial, NEW a \in s.made \cup {e} PROVE Restricts(p, s.made \cup {e}, a)
  BY <1>1, <1>2, <1>3, <1>4 DEF Restricts, None
<1>5. Plain(e) /\ ExtendPolicy(p, e) /\ UNCHANGED tickets
  BY DEF PolicyNvWritten, Plain, Replacing, p
<1> HIDE DEF e
<1>6. Shaped(p) /\ p.exp = s.p.exp /\ p.pcr = s.p.pcr
  BY <1>2 DEF Shaped
<1> QED
  BY <1>4, <1>5, <1>6, RestrictionKeeps

\* What is added to the digest and restricts nothing that was restricted.
LEMMA OthersKeep ==
  ASSUME PolicyIInv,
         \/ \E kind \in {"TIMER", "NV", "CAPABILITY"} : \E holds, x : Compared(holds, <<kind, x>>)
         \/ PolicyPhysicalPresence
         \/ \E need \in {"auth", "password"} : PolicyAuthValue(need)
         \/ PolicyTransportSPDM
  PROVE  PolicyIInv'
<1>1. Shaped(s.p) /\ (~s.trial => \A a \in s.made : Restricts(s.p, s.made, a))
  BY WhatRestricts
<1>2. ASSUME NEW holds, NEW kind \in {"TIMER", "NV", "CAPABILITY"}, NEW x,
             Compared(holds, <<kind, x>>)
      PROVE  PolicyIInv'
  <2> DEFINE e == <<kind, x>>
  <2>1. ASSUME ~s.trial, NEW a \in s.made \cup {e} PROVE Restricts(s.p, s.made \cup {e}, a)
    BY <1>1, <2>1 DEF Restricts
  <2>2. Plain(e) /\ ExtendPolicy(s.p, e) /\ UNCHANGED tickets
    BY <1>2 DEF Compared, Plain, Replacing
  <2> HIDE DEF e
  <2> QED
    BY <1>1, <2>1, <2>2, RestrictionKeeps
<1>3. ASSUME PolicyPhysicalPresence PROVE PolicyIInv'
  <2> DEFINE p == [s.p EXCEPT !.pp = TRUE]
             e == <<"PP", TRUE>>
  <2>1. p = [digest |-> s.p.digest, cc |-> s.p.cc, cp |-> s.p.cp, name |-> s.p.name,
             template |-> s.p.template, parameters |-> s.p.parameters,
             locality |-> s.p.locality, pcr |-> s.p.pcr, need |-> s.p.need,
             written |-> s.p.written, pp |-> TRUE, channel |-> s.p.channel, exp |-> s.p.exp]
    BY <1>1, WithField
  <2> HIDE DEF p
  <2>2. ASSUME ~s.trial, NEW a \in s.made \cup {e} PROVE Restricts(p, s.made \cup {e}, a)
    <3>1. /\ p.cc = s.p.cc /\ p.name = s.p.name /\ p.cp = s.p.cp /\ p.template = s.p.template
          /\ p.parameters = s.p.parameters /\ p.locality = s.p.locality
          /\ p.written = s.p.written /\ p.need = s.p.need /\ p.pp
      BY <2>1
    <3>2. e[1] = "PP"
      OBVIOUS
    <3> HIDE DEF e
    <3>3. CASE a = e
      BY <3>1, <3>2, <3>3 DEF Restricts, None
    <3>4. CASE a \in s.made
      <4>1. Restricts(s.p, s.made, a)
        BY <1>1, <2>2, <3>4
      <4> QED
        BY <3>1, <4>1 DEF Restricts, None
    <3> QED
      BY <2>2, <3>3, <3>4
  <2>3. Plain(e) /\ ExtendPolicy(p, e) /\ UNCHANGED tickets
    BY <1>3 DEF PolicyPhysicalPresence, Plain, Replacing, p
  <2> HIDE DEF e
  <2>4. Shaped(p) /\ p.exp = s.p.exp /\ p.pcr = s.p.pcr
    BY <2>1 DEF Shaped
  <2> QED
    BY <2>2, <2>3, <2>4, RestrictionKeeps
<1>4. ASSUME NEW need, PolicyAuthValue(need) PROVE PolicyIInv'
  <2> DEFINE p == [s.p EXCEPT !.need = {need}]
             e == <<"AUTH", TRUE>>
  <2>1. p = [digest |-> s.p.digest, cc |-> s.p.cc, cp |-> s.p.cp, name |-> s.p.name,
             template |-> s.p.template, parameters |-> s.p.parameters,
             locality |-> s.p.locality, pcr |-> s.p.pcr, need |-> {need},
             written |-> s.p.written, pp |-> s.p.pp, channel |-> s.p.channel,
             exp |-> s.p.exp]
    BY <1>1 DEF Shaped
  <2> HIDE DEF p
  <2>2. ASSUME ~s.trial, NEW a \in s.made \cup {e} PROVE Restricts(p, s.made \cup {e}, a)
    <3>1. /\ p.cc = s.p.cc /\ p.name = s.p.name /\ p.cp = s.p.cp /\ p.template = s.p.template
          /\ p.parameters = s.p.parameters /\ p.locality = s.p.locality
          /\ p.written = s.p.written /\ p.need # None /\ p.pp = s.p.pp
      BY <2>1 DEF None
    <3>2. e[1] = "AUTH"
      OBVIOUS
    <3> HIDE DEF e
    <3>3. CASE a = e
      BY <3>1, <3>2, <3>3 DEF Restricts, None
    <3>4. CASE a \in s.made
      <4>1. Restricts(s.p, s.made, a)
        BY <1>1, <2>2, <3>4
      <4> QED
        BY <3>1, <4>1 DEF Restricts, None
    <3> QED
      BY <2>2, <3>3, <3>4
  <2>3. Plain(e) /\ ExtendPolicy(p, e) /\ UNCHANGED tickets
    BY <1>4 DEF PolicyAuthValue, Plain, Replacing, p
  <2> HIDE DEF e
  <2>4. Shaped(p) /\ p.exp = s.p.exp /\ p.pcr = s.p.pcr
    BY <2>1 DEF Shaped
  <2> QED
    BY <2>2, <2>3, <2>4, RestrictionKeeps
<1>5. ASSUME PolicyTransportSPDM PROVE PolicyIInv'
  <2> DEFINE p == [s.p EXCEPT !.channel = TRUE]
             e == <<"CHANNEL", TRUE>>
  <2>1. p = [digest |-> s.p.digest, cc |-> s.p.cc, cp |-> s.p.cp, name |-> s.p.name,
             template |-> s.p.template, parameters |-> s.p.parameters,
             locality |-> s.p.locality, pcr |-> s.p.pcr, need |-> s.p.need,
             written |-> s.p.written, pp |-> s.p.pp, channel |-> TRUE, exp |-> s.p.exp]
    BY <1>1, WithField
  <2> HIDE DEF p
  <2>2. ASSUME ~s.trial, NEW a \in s.made \cup {e} PROVE Restricts(p, s.made \cup {e}, a)
    <3>1. /\ p.cc = s.p.cc /\ p.name = s.p.name /\ p.cp = s.p.cp /\ p.template = s.p.template
          /\ p.parameters = s.p.parameters /\ p.locality = s.p.locality
          /\ p.written = s.p.written /\ p.need = s.p.need /\ p.pp = s.p.pp
      BY <2>1
    <3>2. e[1] = "CHANNEL"
      OBVIOUS
    <3> HIDE DEF e
    <3>3. CASE a = e
      BY <3>1, <3>2, <3>3 DEF Restricts, None
    <3>4. CASE a \in s.made
      <4>1. Restricts(s.p, s.made, a)
        BY <1>1, <2>2, <3>4
      <4> QED
        BY <3>1, <4>1 DEF Restricts, None
    <3> QED
      BY <2>2, <3>3, <3>4
  <2>3. Plain(e) /\ ExtendPolicy(p, e) /\ UNCHANGED tickets
    BY <1>5 DEF PolicyTransportSPDM, Plain, Replacing, p
  <2> HIDE DEF e
  <2>4. Shaped(p) /\ p.exp = s.p.exp /\ p.pcr = s.p.pcr
    BY <2>1 DEF Shaped
  <2> QED
    BY <2>2, <2>3, <2>4, RestrictionKeeps
<1> QED
  BY <1>2, <1>3, <1>4, <1>5

LEMMA PolicyPCRKeeps ==
  ASSUME PolicyIInv, NEW v, PolicyPCR(v)
  PROVE  PolicyIInv'
<1> DEFINE w == IF s.trial THEN s.p.pcr ELSE {pcr.counter}
           p == [s.p EXCEPT !.pcr = w]
           e == <<"PCR", v>>
<1>1. Shaped(s.p) /\ (~s.trial => \A a \in s.made : Stands(s.p, s.made, a))
  BY DEF PolicyIInv, WellFormed, Asserts
<1>2. pcr.counter \in Nat /\ MaybeNumber(s.p.exp) /\ \A k \in tickets : SoundTicket(k)
  BY DEF PolicyIInv, PolicyTypes, WellFormed
<1>3. /\ Asserted(p, Append(s.p.digest, e), {e}) /\ UNCHANGED tickets
      /\ ~s.trial => pcr.value = v /\ s.p.pcr \subseteq {pcr.counter}
  BY DEF PolicyPCR, ExtendPolicy
<1>4. ~s.trial => w = {pcr.counter}
  OBVIOUS
<1>5. p = [digest |-> s.p.digest, cc |-> s.p.cc, cp |-> s.p.cp, name |-> s.p.name,
           template |-> s.p.template, parameters |-> s.p.parameters,
           locality |-> s.p.locality, pcr |-> w, need |-> s.p.need,
           written |-> s.p.written, pp |-> s.p.pp, channel |-> s.p.channel, exp |-> s.p.exp]
  BY <1>1, WithField
<1> HIDE DEF p, w
<1>6. /\ p.cc = s.p.cc /\ p.name = s.p.name /\ p.cp = s.p.cp /\ p.template = s.p.template
      /\ p.parameters = s.p.parameters /\ p.locality = s.p.locality /\ p.need = s.p.need
      /\ p.written = s.p.written /\ p.pp = s.p.pp /\ p.exp = s.p.exp /\ p.pcr = w
      /\ Shaped(p)
  BY <1>5 DEF Shaped
<1>7. e[1] = "PCR" /\ e[2] = v
  OBVIOUS
<1>8. ~s.trial => Append(s.p.digest, e) \in Seq(s.made \cup {e})
  BY ExtendedDigest
<1> HIDE DEF e
<1>9. ASSUME ~s.trial, NEW a \in s.made \cup {e} PROVE Stands(p, s.made \cup {e}, a)
  <2>1. CASE a = e
    BY <1>2, <1>3, <1>4, <1>6, <1>7, <1>9, <2>1
    DEF Stands, Restricts, Measures, Expires, Nonced, Founded, Replacing, None
  <2>2. CASE a \in s.made
    <3>1. Stands(s.p, s.made, a)
      BY <1>1, <1>9, <2>2
    <3>2. Restricts(p, s.made \cup {e}, a)
      BY <1>6, <3>1 DEF Stands, Restricts
    <3>3. Measures(p, a)
      <4>1. a[1] = "PCR" => s.p.pcr = {pcr.counter} /\ p.pcr = {pcr.counter}
        BY <1>3, <1>4, <1>6, <1>9, <3>1 DEF Stands, Measures, None
      <4> QED
        BY <3>1, <4>1 DEF Stands, Measures
    <3>4. Expires(p, a) /\ Nonced(a) /\ Founded(s.made \cup {e}, a)
      BY <1>6, <3>1 DEF Stands, Expires, Founded
    <3> QED
      BY <3>2, <3>3, <3>4 DEF Stands
  <2> QED
    BY <1>9, <2>1, <2>2
<1>10. MaybeNumber(p.exp)
  BY <1>2, <1>6
<1>11. \A k \in tickets' : SoundTicket(k)
  BY <1>2, <1>3
<1> DEFINE d == Append(s.p.digest, e)
<1> HIDE DEF d
<1> QED
  BY <1>3, <1>6, <1>8, <1>9, <1>10, <1>11, AssertedKeeps DEF d

\* The earlier of two limits, either of which may be absent.
LEMMA EarlierIs ==
  ASSUME NEW a, NEW b, MaybeNumber(a), MaybeNumber(b)
  PROVE  /\ MaybeNumber(Earlier(a, b))
         /\ \A n \in a \cup b : n \in Nat /\ \E e \in Earlier(a, b) : e \in Nat /\ e <= n
<1>1. CASE a \cup b = None
  BY <1>1 DEF Earlier, MaybeNumber, None
<1>2. CASE a \cup b # None
  <2>1. \A n \in a \cup b : n \in Nat
    BY DEF MaybeNumber, None
  <2>2. \E x \in a \cup b : \A y \in a \cup b : x <= y
    <3>1. CASE a = None
      <4>1. PICK m \in Nat : b = {m}
        BY <1>2, <3>1 DEF MaybeNumber, None
      <4>2. m \in a \cup b /\ \A y \in a \cup b : m <= y
        BY <3>1, <4>1 DEF None
      <4> QED
        BY <4>2
    <3>2. CASE b = None
      <4>1. PICK m \in Nat : a = {m}
        BY <1>2, <3>2 DEF MaybeNumber, None
      <4>2. m \in a \cup b /\ \A y \in a \cup b : m <= y
        BY <3>2, <4>1 DEF None
      <4> QED
        BY <4>2
    <3>3. CASE a # None /\ b # None
      <4>1. PICK m \in Nat : a = {m}
        BY <3>3 DEF MaybeNumber
      <4>2. PICK n \in Nat : b = {n}
        BY <3>3 DEF MaybeNumber
      <4>3. CASE m <= n
        <5>1. m \in a \cup b /\ \A y \in a \cup b : m <= y
          BY <4>1, <4>2, <4>3
        <5> QED
          BY <5>1
      <4>4. CASE ~(m <= n)
        <5>1. n \in a \cup b /\ \A y \in a \cup b : n <= y
          BY <4>1, <4>2, <4>4
        <5> QED
          BY <5>1
      <4> QED
        BY <4>3, <4>4
    <3> QED
      BY <3>1, <3>2, <3>3
  <2> DEFINE least == Min(a \cup b)
  <2>3. least \in a \cup b /\ \A y \in a \cup b : least <= y
    BY <2>2 DEF Min
  <2>4. Earlier(a, b) = {least}
    BY <1>2 DEF Earlier
  <2> HIDE DEF least
  <2> QED
    BY <2>1, <2>3, <2>4 DEF MaybeNumber
<1> QED
  BY <1>1, <1>2

\* An authorization: it may restrict the command, and brings the limit forward.
LEMMA AuthorizedKeeps ==
  ASSUME PolicyIInv, NEW kind \in {"SIGNED", "SECRET"}, NEW nonce, nonce \subseteq {s.nonce},
         NEW cp, NEW t, MaybeNumber(t), CpHashFits(cp), cp = None \/ \E h : cp = {h},
         Asserted(RecordExpiration(WithCpHash(s.p, cp), t), Append(s.p.digest, <<kind, "by">>),
                  Obligations(kind, nonce, cp, t)),
         \A k \in tickets' : SoundTicket(k)
  PROVE  PolicyIInv'
<1> DEFINE q == WithCpHash(s.p, cp)
           w == Earlier(s.p.exp, t)
           p == RecordExpiration(q, t)
           e == <<kind, "by">>
           made == Obligations(kind, nonce, cp, t)
           all == s.made \cup made
<1>1. Shaped(s.p) /\ (~s.trial => \A a \in s.made : Stands(s.p, s.made, a))
  BY DEF PolicyIInv, WellFormed, Asserts
<1>2. {epoch, s.epoch} \subseteq Nat /\ s.epoch \in 0 .. epoch /\ MaybeNumber(s.p.exp)
  BY DEF PolicyIInv, PolicyTypes, WellFormed
<1>3. ~s.trial => Append(s.p.digest, e) \in Seq(all)
  BY ExtendedDigest DEF Obligations
<1>4. /\ MaybeNumber(w)
      /\ \A n \in s.p.exp \cup t : n \in Nat /\ \E x \in w : x \in Nat /\ x <= n
  BY <1>2, EarlierIs
<1>5. q = [digest |-> s.p.digest, cc |-> s.p.cc, cp |-> IF cp = None THEN s.p.cp ELSE cp,
           name |-> s.p.name, template |-> s.p.template, parameters |-> s.p.parameters,
           locality |-> s.p.locality, pcr |-> s.p.pcr, need |-> s.p.need,
           written |-> s.p.written, pp |-> s.p.pp, channel |-> s.p.channel, exp |-> s.p.exp]
  <2>1. CASE cp = None
    BY <1>1, <2>1 DEF WithCpHash, Shaped
  <2>2. CASE cp # None
    BY <1>1, <2>2, WithField DEF WithCpHash
  <2> QED
    BY <2>1, <2>2
<1>6. p = [q EXCEPT !.exp = Earlier(q.exp, t)]
  BY DEF RecordExpiration
<1> HIDE DEF p, q, w, made, e
<1>7. /\ q.cc = s.p.cc /\ q.name = s.p.name /\ q.template = s.p.template
      /\ q.parameters = s.p.parameters /\ q.locality = s.p.locality /\ q.need = s.p.need
      /\ q.written = s.p.written /\ q.pp = s.p.pp /\ q.exp = s.p.exp /\ q.pcr = s.p.pcr
      /\ Shaped(q) /\ q.cp = IF cp = None THEN s.p.cp ELSE cp
  BY <1>5 DEF Shaped
<1>8. /\ p.cc = s.p.cc /\ p.name = s.p.name /\ p.template = s.p.template
      /\ p.parameters = s.p.parameters /\ p.locality = s.p.locality /\ p.need = s.p.need
      /\ p.written = s.p.written /\ p.pp = s.p.pp /\ p.pcr = s.p.pcr
      /\ p.cp = q.cp /\ p.exp = w /\ Shaped(p)
  <2>1. p = [q EXCEPT !.exp = w]
    BY <1>6, <1>7 DEF w
  <2>2. p = [digest |-> q.digest, cc |-> q.cc, cp |-> q.cp, name |-> q.name,
             template |-> q.template, parameters |-> q.parameters,
             locality |-> q.locality, pcr |-> q.pcr, need |-> q.need,
             written |-> q.written, pp |-> q.pp, channel |-> q.channel, exp |-> w]
    BY <1>7, <2>1, WithField
  <2> QED
    BY <1>7, <2>2 DEF Shaped
<1>9. ASSUME ~s.trial, NEW a \in made PROVE Stands(p, all, a)
  <2>1. CASE a = <<kind, "by">>
    BY <2>1 DEF Stands, Restricts, Measures, Expires, Nonced, Founded, Replacing
  <2>2. CASE \E n \in nonce : a = <<"NONCE", n>>
    BY <2>2 DEF Stands, Restricts, Measures, Expires, Nonced, Founded, Replacing
  <2>3. CASE \E h \in cp : a = <<"CP", h>>
    <3>1. PICK h \in cp : a = <<"CP", h>>
      BY <2>3
    <3>2. p.cp = {h}
      BY <1>7, <1>8, <3>1 DEF None
    <3> QED
      BY <3>1, <3>2 DEF Stands, Restricts, Measures, Expires, Nonced, Founded, Replacing
  <2>4. CASE \E n \in t : a = <<"UNTIL", <<n, epoch>> >>
    <3>1. PICK n \in t : a = <<"UNTIL", <<n, epoch>> >>
      BY <2>4
    <3>2. n \in Nat /\ \E x \in p.exp : x <= n
      BY <1>4, <1>8, <3>1
    <3>3. a[1] = "UNTIL" /\ a[2][1] = n /\ a[2][2] = epoch
      BY <3>1
    <3>4. Expires(p, a)
      BY <1>2, <3>2, <3>3 DEF Expires
    <3> QED
      BY <3>3, <3>4 DEF Stands, Restricts, Measures, Nonced, Founded, Replacing
  <2> QED
    BY <2>1, <2>2, <2>3, <2>4 DEF made, Obligations
<1>10. ASSUME ~s.trial, NEW a \in s.made PROVE Stands(p, all, a)
  <2>1. Stands(s.p, s.made, a)
    BY <1>1, <1>10
  <2>2. a[1] = "CP" => p.cp = {a[2]}
    <3>1. a[1] = "CP" => s.p.cp = {a[2]}
      BY <2>1 DEF Stands, Restricts
    <3>2. cp # None => s.p.cp \subseteq cp
      BY <1>10 DEF CpHashFits
    <3> QED
      BY <1>7, <1>8, <3>1, <3>2
  <2>3. Restricts(p, all, a)
    BY <1>8, <2>1, <2>2 DEF Stands, Restricts
  <2>4. Measures(p, a) /\ Nonced(a) /\ Founded(all, a)
    BY <1>8, <2>1 DEF Stands, Measures, Founded
  <2>5. Expires(p, a)
    <3> SUFFICES ASSUME a[1] = "UNTIL" PROVE Expires(p, a)
      BY DEF Expires
    <3>1. PICK n \in s.p.exp : n <= a[2][1]
      BY <2>1 DEF Stands, Expires
    <3>2. PICK x \in w : x \in Nat /\ x <= n
      BY <1>4, <3>1
    <3>3. n \in Nat /\ a[2][1] \in Nat /\ a[2][2] \in s.epoch .. epoch
      BY <1>4, <2>1, <3>1 DEF Stands, Expires
    <3>4. x <= a[2][1]
      BY <3>1, <3>2, <3>3
    <3> QED
      BY <1>8, <3>2, <3>3, <3>4 DEF Expires
  <2> QED
    BY <2>3, <2>4, <2>5 DEF Stands
<1>11. Asserted(p, Append(s.p.digest, e), made)
  BY DEF p, q, e, made
<1> DEFINE d == Append(s.p.digest, e)
<1> HIDE DEF d
<1> QED
  BY <1>3, <1>4, <1>8, <1>9, <1>10, <1>11, AssertedKeeps DEF d

LEMMA TimeoutIs ==
  ASSUME PolicyIInv, NEW exp, NEW tied
  PROVE  MaybeNumber(Timeout(exp, tied))
<1>1. s.start \in Nat /\ Limit \in Nat
  BY PolicyAssumption DEF PolicyAssumption, PolicyIInv, WellFormed
<1> QED
  BY <1>1 DEF Timeout, MaybeNumber

LEMMA AuthorizationKeeps ==
  ASSUME PolicyIInv, NEW kind \in {"SIGNED", "SECRET"}, NEW tied \in BOOLEAN,
         NEW cp, cp = None \/ \E h : cp = {h}, NEW t, NEW kept, MaybeNumber(t),
         kept \in {None, t}, Authorization(kind, tied, cp, t, kept)
  PROVE  PolicyIInv'
<1> DEFINE nonce == IF tied THEN {s.nonce} ELSE None
<1>1. nonce \subseteq {s.nonce} /\ MaybeNumber(kept)
  BY DEF None, MaybeNumber
<1>2. /\ CpHashFits(cp)
      /\ Asserted(RecordExpiration(WithCpHash(s.p, cp), kept), Append(s.p.digest, <<kind, "by">>),
                  Obligations(kind, nonce, cp, kept))
  BY DEF Authorization
<1>3. \A k \in tickets' : k \in tickets \/ k = AuthorizationTicket(kind, tied, cp, t)
  BY DEF Authorization
<1>4. SoundTicket(AuthorizationTicket(kind, tied, cp, t))
  BY DEF SoundTicket, AuthorizationTicket
<1>5. \A k \in tickets' : SoundTicket(k)
  BY <1>3, <1>4 DEF PolicyIInv
<1> HIDE DEF nonce
<1> QED
  BY <1>1, <1>2, <1>5, AuthorizedKeeps

LEMMA PolicyTicketKeeps ==
  ASSUME PolicyIInv, NEW k \in tickets, PolicyTicket(k)
  PROVE  PolicyIInv'
<1>1. SoundTicket(k) /\ (\A j \in tickets' : SoundTicket(j)) /\ None \subseteq {s.nonce}
  BY DEF PolicyIInv, PolicyTicket, None
<1> QED
  BY <1>1, AuthorizedKeeps DEF PolicyTicket, SoundTicket

\* An entry that stands for a digest takes its place once the digest is there.
LEMMA ReplacedKeeps ==
  ASSUME PolicyIInv, NEW e, e[1] \in Replacing, Replaced(e), UNCHANGED tickets,
         ~s.trial => s.p.digest \in Behind(e)
  PROVE  PolicyIInv'
<1> DEFINE made == {e}
           all == s.made \cup made
           d == <<e>>
<1>1. Shaped(s.p) /\ MaybeNumber(s.p.exp) /\ \A k \in tickets' : SoundTicket(k)
  BY DEF PolicyIInv, WellFormed
<1>2. Asserted(s.p, d, made)
  BY DEF Replaced
<1>3. d \in Seq(all)
  <2>1. e \in all
    OBVIOUS
  <2> HIDE DEF all
  <2> QED
    BY <2>1
<1>4. ASSUME ~s.trial, NEW a \in all PROVE Stands(s.p, all, a)
  <2>1. CASE a = e
    <3>1. ToSet(s.p.digest) \subseteq s.made
      BY <1>4 DEF PolicyIInv, Asserts, ToSet
    <3>2. Founded(all, a)
      BY <1>4, <2>1, <3>1 DEF Founded
    <3> QED
      BY <2>1, <3>2 DEF Stands, Restricts, Measures, Expires, Nonced, Replacing
  <2>2. CASE a \in s.made
    <3>1. Stands(s.p, s.made, a)
      BY <1>4, <2>2 DEF PolicyIInv, Asserts
    <3>2. Restricts(s.p, all, a) /\ Founded(all, a)
      BY <3>1 DEF Stands, Restricts, Founded
    <3> QED
      BY <3>1, <3>2 DEF Stands
  <2> QED
    BY <1>4, <2>1, <2>2
<1> HIDE DEF d, made
<1> QED
  BY <1>1, <1>2, <1>3, <1>4, AssertedKeeps

LEMMA AssertionKeeps ==
  ASSUME PolicyIInv, Assertion
  PROVE  PolicyIInv'
<1>1. ASSUME NEW r \in Requests,
             \/ PolicyCpHash(CpHash(r)) \/ PolicyNameHash(r.names) \/ PolicyTemplate(Template(r))
             \/ PolicyParameters(PHash(r)) \/ PolicyCommandCode(r.code)
             \/ PolicyDuplicationSelect(r.names) \/ PolicyACSendSelect(r.names)
             \/ PolicyLocality({r.locality})
      PROVE  PolicyIInv'
  BY <1>1, PolicyCpHashKeeps, PolicyNameHashKeeps, PolicyTemplateKeeps, PolicyParametersKeeps,
     PolicyCommandCodeKeeps, SelectKeeps, PolicyLocalityKeeps
  DEF PolicyDuplicationSelect, PolicyACSendSelect
<1>2. CASE \/ \E v \in 0 .. 1 : PolicyPCR(v)
           \/ \E b \in BOOLEAN : PolicyNvWritten(b)
  BY <1>2, PolicyPCRKeeps, PolicyNvWrittenKeeps
<1>3. CASE \/ \E k \in 1 .. MaxTime : PolicyCounterTimer(k)
           \/ \E v \in 0 .. 1 : PolicyNV(v)
           \/ \E op \in {"eq", "neq"} : PolicyCapability(op)
  <2>1. \E kind \in {"TIMER", "NV", "CAPABILITY"} : \E holds, x : Compared(holds, <<kind, x>>)
    BY <1>3 DEF PolicyCounterTimer, PolicyNV, PolicyCapability
  <2> QED
    BY <2>1, OthersKeep
<1>4. CASE \/ PolicyPhysicalPresence
           \/ \E need \in {"auth", "password"} : PolicyAuthValue(need)
           \/ PolicyTransportSPDM
  BY <1>4, OthersKeep
<1>5. ASSUME NEW tied \in BOOLEAN, NEW exp \in 0 .. 1,
             NEW cp \in {None} \cup {{CpHash(r)} : r \in Restricted},
             PolicySigned(tied, cp, exp) \/ PolicySecret(tied, cp, exp, FALSE)
      PROVE  PolicyIInv'
  <2>1. cp = None \/ \E h : cp = {h}
    OBVIOUS
  <2> DEFINE t == Timeout(exp, tied)
  <2>2. MaybeNumber(t)
    BY TimeoutIs
  <2>3. Authorization("SIGNED", tied, cp, t, t) \/ Authorization("SECRET", tied, cp, t, t)
    BY <1>5 DEF PolicySigned, PolicySecret
  <2> HIDE DEF t
  <2> QED
    BY <2>1, <2>2, <2>3, AuthorizationKeeps
<1>6. ASSUME NEW exp \in 0 .. 1, PolicySecret(FALSE, None, exp, TRUE)
      PROVE  PolicyIInv'
  <2> DEFINE t == Timeout(exp, FALSE)
  <2>1. MaybeNumber(t)
    BY TimeoutIs
  <2>2. Authorization("SECRET", FALSE, None, t, None)
    BY <1>6 DEF PolicySecret
  <2> HIDE DEF t
  <2> QED
    BY <2>1, <2>2, AuthorizationKeeps
<1>7. CASE \E k \in tickets : PolicyTicket(k)
  BY <1>7, PolicyTicketKeeps
<1>8. ASSUME NEW list, PolicyOR(list) PROVE PolicyIInv'
  <2> DEFINE e == <<"OR", list>>
  <2>1. Behind(e) = list /\ e[1] \in Replacing
    BY DEF Behind, Replacing
  <2>2. Replaced(e) /\ UNCHANGED tickets /\ (~s.trial => s.p.digest \in Behind(e))
    BY <1>8, <2>1 DEF PolicyOR
  <2> HIDE DEF e
  <2> QED
    BY <2>1, <2>2, ReplacedKeeps
<1>9. CASE PolicyAuthorize
  <2> DEFINE e == <<"AUTHORIZE", "key">>
  <2>1. Behind(e) = Approved /\ e[1] \in Replacing
    BY DEF Behind, Replacing
  <2>2. Replaced(e) /\ UNCHANGED tickets /\ (~s.trial => s.p.digest \in Behind(e))
    BY <1>9, <2>1 DEF PolicyAuthorize
  <2> HIDE DEF e
  <2> QED
    BY <2>1, <2>2, ReplacedKeeps
<1>10. CASE PolicyAuthorizeNV
  <2> DEFINE e == <<"AUTHORIZENV", "index">>
  <2>1. Behind(e) = {NvPolicy} /\ e[1] \in Replacing
    BY DEF Behind, Replacing
  <2>2. Replaced(e) /\ UNCHANGED tickets /\ (~s.trial => s.p.digest \in Behind(e))
    BY <1>10, <2>1 DEF PolicyAuthorizeNV
  <2> HIDE DEF e
  <2> QED
    BY <2>1, <2>2, ReplacedKeeps
<1> QED
  BY <1>1, <1>2, <1>3, <1>4, <1>5, <1>6, <1>7, <1>8, <1>9, <1>10 DEF Assertion

-----------------------------------------------------------------------------
(* Policy.  The session.                                                   *)

LEMMA EmptyIs ==
  /\ Shaped(EmptyPolicy) /\ MaybeNumber(EmptyPolicy.exp) /\ EmptyPolicy.digest = <<>>
  /\ NoSession = [trial |-> FALSE, bound |-> FALSE, start |-> 0, epoch |-> 0, nonce |-> 0,
                  p |-> EmptyPolicy, made |-> {}]
BY DEF EmptyPolicy, Shaped, MaybeNumber, None, NoSession

\* A session in which nothing was asserted, or none.
LEMMA FreshKeeps ==
  ASSUME PolicyIInv, PolicyTypes', NEW trial \in BOOLEAN, NEW bound, NEW start \in Nat,
         NEW run \in 0 .. epoch', NEW nonce,
         s' = [trial |-> trial, bound |-> bound, start |-> start, epoch |-> run, nonce |-> nonce,
               p |-> EmptyPolicy, made |-> {}],
         place' # "nowhere" => nonce \in (1 .. nonces') \ spent',
         \A k \in tickets' : SoundTicket(k),
         AssertionsHold', PolicyMet', TiedOnce'
  PROVE  PolicyIInv'
<1>1. /\ s'.trial = trial /\ s'.start = start /\ s'.epoch = run /\ s'.nonce = nonce
      /\ s'.p = EmptyPolicy /\ s'.made = {}
      /\ s' = [trial |-> s'.trial, bound |-> s'.bound, start |-> s'.start, epoch |-> s'.epoch,
               nonce |-> s'.nonce, p |-> s'.p, made |-> s'.made]
  OBVIOUS
<1>2. WellFormed(s)'
  BY <1>1, EmptyIs DEF WellFormed
<1>3. Asserts'
  <2>1. s'.p.digest = <<>> /\ s'.made = {}
    BY <1>1, EmptyIs
  <2>2. <<>> \in Seq({})
    OBVIOUS
  <2> QED
    BY <2>1, <2>2 DEF Asserts
<1> QED
  BY <1>1, <1>2, <1>3 DEF PolicyIInv

LEMMA NoSessionKeeps ==
  ASSUME PolicyIInv, PolicyTypes', s' = NoSession, place' = "nowhere", UNCHANGED tickets,
         AssertionsHold', PolicyMet', TiedOnce'
  PROVE  PolicyIInv'
<1>1. 0 \in 0 .. epoch' /\ \A k \in tickets' : SoundTicket(k)
  BY DEF PolicyIInv, PolicyTypes
<1> QED
  BY <1>1, EmptyIs, FreshKeeps

\* What moves while the session stays as it is.
LEMMA MoveKeeps ==
  ASSUME PolicyIInv, UNCHANGED <<s, nonces, tickets, spent, twice, stale, unmet>>, PolicyTypes',
         place' # "nowhere" => place # "nowhere",
         epoch' >= epoch,
         epoch' = epoch => pcr' = pcr \/ pcr'.counter = pcr.counter + 1,
         epoch' # epoch => epoch' = epoch + 1
  PROVE  PolicyIInv'
<1>1. {epoch, epoch', pcr.counter} \subseteq Nat /\ s.epoch \in 0 .. epoch
  BY DEF PolicyIInv, PolicyTypes, WellFormed
<1>2. WellFormed(s)'
  BY <1>1 DEF PolicyIInv, WellFormed
<1>3. ASSUME ~s.trial PROVE Asserts'
  <2>1. ASSUME NEW a \in s.made PROVE Stands(s.p, s.made, a)'
    <3>1. Stands(s.p, s.made, a)
      BY <1>3 DEF PolicyIInv, Asserts
    <3>2. Measures(s.p, a)'
      <4>1. CASE epoch' = epoch
        BY <1>1, <3>1, <4>1 DEF Stands, Measures
      <4>2. CASE epoch' = epoch + 1
        BY <1>1, <3>1, <4>2 DEF Stands, Measures
      <4> QED
        BY <4>1, <4>2
    <3>3. Expires(s.p, a)'
      BY <1>1, <3>1 DEF Stands, Expires
    <3> QED
      BY <3>1, <3>2, <3>3 DEF Stands, Restricts, Nonced, Founded
  <2> QED
    BY <1>3, <2>1 DEF PolicyIInv, Asserts
<1> QED
  BY <1>2, <1>3 DEF PolicyIInv, AssertionsHold, PolicyMet, TiedOnce

-----------------------------------------------------------------------------
(* Policy.  A command that the session authorizes.                         *)

\* check_policy lets a command through only if what was asserted holds of it, but for the PCR
\* of a session older than the last startup and a command code that a selection replaced.
LEMMA CheckedHolds ==
  ASSUME PolicyIInv, ~s.trial, NEW r, NEW given, CheckPolicy(r, given),
         NEW a \in s.made, ~Holds(a, r, given)
  PROVE  \/ a[1] = "PCR" /\ s.epoch # epoch
         \/ a[1] = "CC" /\ \E b \in s.made : b[1] = "SELECT"
<1>1. Stands(s.p, s.made, a)
  BY DEF PolicyIInv, Asserts
<1>2. {epoch, time, pcr.counter} \subseteq Nat /\ s.epoch \in 0 .. epoch /\ MaybeNumber(s.p.exp)
  BY DEF PolicyIInv, PolicyTypes, WellFormed
<1>3. /\ s.p.cc \subseteq {r.code} /\ s.p.cp \subseteq {CpHash(r)}
      /\ s.p.locality # None => r.locality \in s.p.locality
      /\ s.p.pcr \subseteq {pcr.counter}
      /\ \A e \in s.p.exp : s.epoch = epoch /\ time <= e
      /\ s.p.pp => pp
      /\ s.p.written \subseteq {nv.written} /\ s.p.name \subseteq {r.names}
      /\ s.p.template \subseteq {Template(r)} /\ s.p.parameters \subseteq {PHash(r)}
      /\ s.p.need # None => given = auth
  BY DEF CheckPolicy
<1>4. Restricts(s.p, s.made, a) /\ Measures(s.p, a) /\ Expires(s.p, a)
  BY <1>1 DEF Stands
<1>5. CASE a[1] = "CC"
  <2>1. Holds(a, r, given) <=> r.code = a[2]
    BY <1>5 DEF Holds
  <2> QED
    BY <1>3, <1>4, <1>5, <2>1 DEF Restricts
<1>6. CASE a[1] \in {"CP", "NAME", "TEMPLATE", "PARAMETERS"}
  <2>1. CASE a[1] = "CP"
    BY <1>3, <1>4, <2>1 DEF Holds, Restricts
  <2>2. CASE a[1] = "NAME"
    BY <1>3, <1>4, <2>2 DEF Holds, Restricts
  <2>3. CASE a[1] = "TEMPLATE"
    BY <1>3, <1>4, <2>3 DEF Holds, Restricts
  <2>4. CASE a[1] = "PARAMETERS"
    BY <1>3, <1>4, <2>4 DEF Holds, Restricts
  <2> QED
    BY <1>6, <2>1, <2>2, <2>3, <2>4
<1>7. CASE a[1] = "SELECT"
  <2>1. Holds(a, r, given) <=> <<r.code, r.names>> = a[2]
    BY <1>7 DEF Holds
  <2>2. a[2][1] = r.code /\ a[2][2] = r.names /\ a[2] = <<a[2][1], a[2][2]>>
    BY <1>3, <1>4, <1>7 DEF Restricts
  <2> QED
    BY <2>1, <2>2
<1>8. CASE a[1] = "LOCALITY"
  BY <1>3, <1>4, <1>8 DEF Holds, Restricts
<1>9. CASE a[1] = "PCR"
  <2>1. Holds(a, r, given) <=> pcr.value = a[2]
    BY <1>9 DEF Holds
  <2>2. pcr.counter \in s.p.pcr
    BY <1>3, <1>4, <1>9 DEF Measures, None
  <2>3. s.epoch = epoch => pcr.value = a[2]
    BY <1>4, <1>9, <2>2 DEF Measures
  <2> QED
    BY <1>9, <2>1, <2>3
<1>10. CASE a[1] = "WRITTEN"
  BY <1>3, <1>4, <1>10 DEF Holds, Restricts
<1>11. CASE a[1] = "PP"
  BY <1>3, <1>4, <1>11 DEF Holds, Restricts
<1>12. CASE a[1] = "AUTH"
  BY <1>3, <1>4, <1>12 DEF Holds, Restricts
<1>13. CASE a[1] = "UNTIL"
  <2>1. Holds(a, r, given) <=> time <= a[2][1] /\ epoch = a[2][2]
    BY <1>13 DEF Holds
  <2>2. a[2][1] \in Nat /\ a[2][2] \in s.epoch .. epoch
    BY <1>4, <1>13 DEF Expires
  <2>3. PICK e \in s.p.exp : e <= a[2][1]
    BY <1>4, <1>13 DEF Expires
  <2>4. e \in Nat /\ s.epoch = epoch /\ time <= e
    BY <1>2, <1>3, <2>3 DEF MaybeNumber, None
  <2> QED
    BY <1>2, <2>1, <2>2, <2>3, <2>4
<1>14. CASE a[1] \notin {"CC", "CP", "NAME", "TEMPLATE", "PARAMETERS", "SELECT", "LOCALITY", "PCR",
                         "WRITTEN", "PP", "AUTH", "UNTIL"}
  BY <1>14 DEF Holds
<1> QED
  BY <1>5, <1>6, <1>7, <1>8, <1>9, <1>10, <1>11, <1>12, <1>13, <1>14

LEMMA RestartIs ==
  ASSUME WellFormed(s)
  PROVE  RestartPolicy(s) = [trial |-> s.trial, bound |-> s.bound, start |-> s.start,
                             epoch |-> s.epoch, nonce |-> s.nonce, p |-> EmptyPolicy, made |-> {}]
<1>1. s = [trial |-> s.trial, bound |-> s.bound, start |-> s.start, epoch |-> s.epoch,
           nonce |-> s.nonce, p |-> s.p, made |-> s.made]
  BY DEF WellFormed
<1> DEFINE q == [s EXCEPT !.p = EmptyPolicy]
<1>2. q = [trial |-> s.trial, bound |-> s.bound, start |-> s.start, epoch |-> s.epoch,
           nonce |-> s.nonce, p |-> EmptyPolicy, made |-> s.made]
  BY <1>1
<1>3. RestartPolicy(s) = [q EXCEPT !.made = {}]
  BY DEF RestartPolicy
<1> HIDE DEF q
<1> QED
  BY <1>2, <1>3

LEMMA ExecuteKeeps ==
  ASSUME PolicyIInv, NEW r, NEW given, NEW keep \in BOOLEAN, Execute(r, given, keep)
  PROVE  PolicyIInv'
<1> DEFINE tied == {a[2] : a \in {b \in s.made : b[1] = "NONCE"}}
<1>1. /\ place = "memory" /\ ~s.trial /\ CheckPolicy(r, given)
      /\ nonces' = IF keep THEN nonces + 1 ELSE nonces
      /\ CloseSession(keep)
      /\ spent' = spent \cup tied /\ twice' = (twice \/ tied \cap spent # {})
      /\ stale' = stale \cup
           {[kind |-> a[1], old |-> s.epoch # epoch,
             replaced |-> \E b \in s.made : b[1] = "SELECT"] :
               a \in {b \in s.made : ~Holds(b, r, given)}}
      /\ unmet' = (unmet \/ ~Met(s.made))
      /\ UNCHANGED <<env, tickets>>
  BY DEF Execute
<1>2. /\ Asserts /\ WellFormed(s) /\ PolicyTypes /\ s.nonce \in (1 .. nonces) \ spent
      /\ AssertionsHold /\ PolicyMet /\ TiedOnce
  BY <1>1 DEF PolicyIInv
<1>3. tied \subseteq {s.nonce}
  BY <1>2 DEF Asserts, Stands, Nonced
<1>4. AssertionsHold'
  <2> DEFINE old == s.epoch # epoch
             replaced == \E b \in s.made : b[1] = "SELECT"
  <2>1. ASSUME NEW x \in stale' PROVE (x.kind = "PCR" /\ x.old) \/ (x.kind = "CC" /\ x.replaced)
    <3>1. CASE x \in stale
      BY <1>2, <3>1 DEF AssertionsHold
    <3>2. CASE x \notin stale
      <4>1. PICK a \in s.made : /\ ~Holds(a, r, given)
                                /\ x = [kind |-> a[1], old |-> old, replaced |-> replaced]
        BY <1>1, <3>2
      <4>2. (a[1] = "PCR" /\ old) \/ (a[1] = "CC" /\ replaced)
        BY <1>1, <4>1, CheckedHolds
      <4> HIDE DEF old, replaced
      <4>3. x.kind = a[1] /\ x.old = old /\ x.replaced = replaced
        BY <4>1
      <4> QED
        BY <4>2, <4>3
    <3> QED
      BY <3>1, <3>2
  <2> QED
    BY <2>1 DEF AssertionsHold
<1>5. Met(s.made)
  <2>1. s.p.digest = policy
    BY <1>1 DEF CheckPolicy
  <2>2. ToSet(policy) \subseteq s.made
    BY <1>2, <2>1 DEF Asserts, ToSet
  <2> QED
    BY <1>2, <2>2 DEF Met, Asserts, Stands, Founded
<1>6. PolicyMet'
  BY <1>1, <1>2, <1>5 DEF PolicyMet
<1>7. TiedOnce'
  BY <1>1, <1>2, <1>3 DEF TiedOnce
<1>8. spent' \subseteq 1 .. nonces /\ nonces \in Nat
  BY <1>1, <1>2, <1>3 DEF PolicyTypes
<1> HIDE DEF tied
<1>9. CASE keep
  <2>1. nonces' = nonces + 1 /\ place' = place /\ s' = [RestartPolicy(s) EXCEPT !.nonce = nonces']
    BY <1>1, <1>9 DEF CloseSession
  <2>2. RestartPolicy(s) = [trial |-> s.trial, bound |-> s.bound, start |-> s.start,
                            epoch |-> s.epoch, nonce |-> s.nonce, p |-> EmptyPolicy, made |-> {}]
    BY <1>2, RestartIs
  <2>3. s' = [trial |-> s.trial, bound |-> s.bound, start |-> s.start, epoch |-> s.epoch,
              nonce |-> nonces', p |-> EmptyPolicy, made |-> {}]
    BY <2>1, <2>2
  <2>4. PolicyTypes'
    BY <1>1, <1>2, <1>8, <2>1 DEF PolicyTypes, env
  <2>5. nonces' \in (1 .. nonces') \ spent'
    BY <1>8, <2>1
  <2>6. epoch' = epoch /\ \A k \in tickets' : SoundTicket(k)
    BY <1>1 DEF env, PolicyIInv
  <2>7. s.trial \in BOOLEAN /\ s.start \in Nat /\ s.epoch \in 0 .. epoch'
    BY <1>2, <2>6 DEF WellFormed
  <2> QED
    BY <1>4, <1>6, <1>7, <2>3, <2>4, <2>5, <2>6, <2>7, FreshKeeps
<1>10. CASE ~keep
  <2>1. nonces' = nonces /\ place' = "nowhere" /\ s' = NoSession
    BY <1>1, <1>10 DEF CloseSession
  <2>2. PolicyTypes'
    BY <1>1, <1>2, <1>8, <2>1 DEF PolicyTypes, env
  <2> QED
    BY <1>1, <1>4, <1>6, <1>7, <2>1, <2>2, NoSessionKeeps
<1> QED
  BY <1>9, <1>10

LEMMA SessionKeeps ==
  ASSUME PolicyIInv,
         \/ \E trial, bound \in BOOLEAN : StartAuthSession(trial, bound)
         \/ PolicyRestart \/ ContextSave \/ ContextLoad \/ FlushContext
  PROVE  PolicyIInv'
<1>1. /\ PolicyTypes /\ WellFormed(s) /\ AssertionsHold /\ PolicyMet /\ TiedOnce
      /\ \A k \in tickets : SoundTicket(k)
  BY DEF PolicyIInv
<1>2. ASSUME NEW trial \in BOOLEAN, NEW bound \in BOOLEAN, StartAuthSession(trial, bound)
      PROVE  PolicyIInv'
  <2>1. /\ nonces' = nonces + 1 /\ place' = "memory"
        /\ UNCHANGED <<env, tickets, history>>
        /\ s' = [NoSession EXCEPT !.trial = trial, !.bound = bound, !.nonce = nonces + 1,
                                  !.start = time, !.epoch = epoch]
    BY <1>2 DEF StartAuthSession
  <2>2. s' = [trial |-> trial, bound |-> bound, start |-> time, epoch |-> epoch,
              nonce |-> nonces', p |-> EmptyPolicy, made |-> {}]
    BY <2>1, EmptyIs
  <2>3. UNCHANGED <<pcr, time, epoch>> /\ UNCHANGED <<spent, twice, stale, unmet>>
    BY <2>1 DEF env, history
  <2>4. PolicyTypes'
    BY <1>1, <2>1, <2>3 DEF PolicyTypes
  <2>5. /\ nonces' \in (1 .. nonces') \ spent' /\ epoch \in 0 .. epoch' /\ time \in Nat
        /\ \A k \in tickets' : SoundTicket(k)
    BY <1>1, <2>1, <2>3 DEF PolicyTypes
  <2>6. AssertionsHold' /\ PolicyMet' /\ TiedOnce'
    BY <1>1, <2>3 DEF AssertionsHold, PolicyMet, TiedOnce
  <2> QED
    BY <2>2, <2>4, <2>5, <2>6, FreshKeeps
<1>3. ASSUME PolicyRestart PROVE PolicyIInv'
  <2>1. /\ s' = RestartPolicy(s) /\ place = "memory"
        /\ UNCHANGED <<place, env, tickets, nonces, history>>
    BY <1>3 DEF PolicyRestart
  <2>2. s' = [trial |-> s.trial, bound |-> s.bound, start |-> s.start, epoch |-> s.epoch,
              nonce |-> s.nonce, p |-> EmptyPolicy, made |-> {}]
    BY <1>1, <2>1, RestartIs
  <2>3. UNCHANGED <<pcr, time, epoch>> /\ UNCHANGED <<spent, twice, stale, unmet>>
    BY <2>1 DEF env, history
  <2>4. PolicyTypes'
    BY <1>1, <2>1, <2>3 DEF PolicyTypes
  <2>5. /\ s.nonce \in (1 .. nonces') \ spent'
        /\ s.trial \in BOOLEAN /\ s.start \in Nat /\ s.epoch \in 0 .. epoch'
        /\ \A k \in tickets' : SoundTicket(k)
    BY <1>1, <2>1, <2>3 DEF PolicyIInv, WellFormed
  <2>6. AssertionsHold' /\ PolicyMet' /\ TiedOnce'
    BY <1>1, <2>3 DEF AssertionsHold, PolicyMet, TiedOnce
  <2> QED
    BY <2>2, <2>4, <2>5, <2>6, FreshKeeps
<1>4. ASSUME ContextSave \/ ContextLoad PROVE PolicyIInv'
  <2>1. /\ place # "nowhere" /\ place' \in {"memory", "saved"}
        /\ UNCHANGED <<s, env, tickets, nonces, history>>
    BY <1>4 DEF ContextSave, ContextLoad
  <2>2. UNCHANGED <<pcr, time, epoch>> /\ UNCHANGED <<spent, twice, stale, unmet>>
    BY <2>1 DEF env, history
  <2>3. PolicyTypes' /\ epoch \in Nat
    BY <1>1, <2>1, <2>2 DEF PolicyTypes
  <2> QED
    BY <2>1, <2>2, <2>3, MoveKeeps
<1>5. ASSUME FlushContext PROVE PolicyIInv'
  <2>1. s' = NoSession /\ place' = "nowhere" /\ UNCHANGED <<env, tickets, nonces, history>>
    BY <1>5 DEF FlushContext
  <2>2. UNCHANGED <<pcr, time, epoch>> /\ UNCHANGED <<spent, twice, stale, unmet>>
    BY <2>1 DEF env, history
  <2>3. PolicyTypes'
    BY <1>1, <2>1, <2>2 DEF PolicyTypes
  <2>4. AssertionsHold' /\ PolicyMet' /\ TiedOnce'
    BY <1>1, <2>2 DEF AssertionsHold, PolicyMet, TiedOnce
  <2> QED
    BY <2>1, <2>3, <2>4, NoSessionKeeps
<1> QED
  BY <1>2, <1>3, <1>4, <1>5

-----------------------------------------------------------------------------
(* Policy.  What moves in between.                                         *)

LEMMA EnvironmentKeeps ==
  ASSUME PolicyIInv, Tick \/ ChangePcr \/ ChangeOther \/ Clear
  PROVE  PolicyIInv'
<1>1. PolicyTypes
  BY DEF PolicyIInv
<1>2. UNCHANGED <<s, nonces, tickets, spent, twice, stale, unmet, place, epoch>>
  BY DEF Tick, ChangePcr, ChangeOther, Clear, history
<1>3. time' \in Nat
  BY <1>1 DEF Tick, ChangePcr, ChangeOther, Clear, PolicyTypes
<1>4. /\ pcr' = pcr \/ pcr'.counter = pcr.counter + 1
      /\ pcr' = [value |-> pcr'.value, counter |-> pcr'.counter] /\ pcr'.counter \in Nat
  <2>1. CASE Tick \/ ChangeOther
    <3>1. pcr' = pcr
      BY <2>1 DEF Tick, ChangeOther
    <3> QED
      BY <1>1, <3>1 DEF PolicyTypes
  <2>2. CASE ChangePcr
    <3>1. pcr' = [value |-> 1 - pcr.value, counter |-> pcr.counter + 1]
      BY <2>2 DEF ChangePcr
    <3> QED
      BY <1>1, <3>1 DEF PolicyTypes
  <2>3. CASE Clear
    <3>1. pcr' = [pcr EXCEPT !.counter = @ + 1]
      BY <2>3 DEF Clear
    <3>2. pcr' = [value |-> pcr.value, counter |-> pcr.counter + 1]
      BY <1>1, <3>1 DEF PolicyTypes
    <3> QED
      BY <1>1, <3>2 DEF PolicyTypes
  <2> QED
    BY <2>1, <2>2, <2>3
<1>5. PolicyTypes' /\ epoch \in Nat
  BY <1>1, <1>2, <1>3, <1>4 DEF PolicyTypes
<1> QED
  BY <1>2, <1>4, <1>5, MoveKeeps

LEMMA TpmStartupKeeps ==
  ASSUME PolicyIInv, NEW type, TpmStartup(type)
  PROVE  PolicyIInv'
<1>1. PolicyTypes /\ AssertionsHold /\ PolicyMet /\ TiedOnce
  BY DEF PolicyIInv
<1>2. /\ epoch' = epoch + 1 /\ time' = 0
      /\ pcr' = [value |-> 0, counter |-> IF type = "RESET" THEN 0 ELSE pcr.counter]
      /\ UNCHANGED <<nonces, tickets, spent, twice, stale, unmet>>
      /\ (place' = "nowhere" /\ s' = NoSession) \/ UNCHANGED <<place, s>>
  BY DEF TpmStartup, history
<1>3. pcr'.counter \in Nat /\ pcr' = [value |-> pcr'.value, counter |-> pcr'.counter]
  BY <1>1, <1>2 DEF PolicyTypes
<1>4. PolicyTypes' /\ epoch \in Nat
  BY <1>1, <1>2, <1>3 DEF PolicyTypes
<1>5. CASE place' = "nowhere" /\ s' = NoSession
  <2>1. AssertionsHold' /\ PolicyMet' /\ TiedOnce'
    BY <1>1, <1>2 DEF AssertionsHold, PolicyMet, TiedOnce
  <2> QED
    BY <1>2, <1>4, <1>5, <2>1, NoSessionKeeps
<1>6. CASE UNCHANGED <<place, s>>
  BY <1>2, <1>4, <1>6, MoveKeeps
<1> QED
  BY <1>2, <1>5, <1>6

LEMMA PolicyStep == PolicyIInv /\ [PolicyNext]_policyVars => PolicyIInv'
<1> SUFFICES ASSUME PolicyIInv, [PolicyNext]_policyVars PROVE PolicyIInv'
  OBVIOUS
<1>1. CASE \/ \E bound \in BOOLEAN : StartAuthSession(FALSE, bound)
           \/ StartAuthSession(TRUE, FALSE)
           \/ PolicyRestart \/ ContextSave \/ ContextLoad \/ FlushContext
  BY <1>1, SessionKeeps
<1>2. CASE Assertion
  BY <1>2, AssertionKeeps
<1>3. CASE \E r \in Requests, given \in 0 .. 1, keep \in BOOLEAN : Execute(r, given, keep)
  BY <1>3, ExecuteKeeps
<1>4. CASE Tick \/ ChangePcr \/ ChangeOther \/ Clear
  BY <1>4, EnvironmentKeeps
<1>5. CASE \E type \in {"RESET", "RESTART", "RESUME"} : TpmStartup(type)
  BY <1>5, TpmStartupKeeps
<1>6. CASE UNCHANGED policyVars
  <2>1. UNCHANGED <<s, place, nonces, tickets>> /\ UNCHANGED <<pcr, time, epoch>>
          /\ UNCHANGED <<spent, twice, stale, unmet>>
    BY <1>6 DEF policyVars, env, history
  <2>2. PolicyTypes' /\ epoch \in Nat
    BY <2>1 DEF PolicyIInv, PolicyTypes
  <2> QED
    BY <2>1, <2>2, MoveKeeps
<1> QED
  BY <1>1, <1>2, <1>3, <1>4, <1>5, <1>6 DEF PolicyNext

-----------------------------------------------------------------------------
(* Policy.  What holds.                                                    *)

\* Each assertion of policy.rs leaves its restriction in the session, none loosens that of
\* another, and the session is emptied of both together.
THEOREM PolicyHolds == PolicySpec => []PolicyIInv
BY PolicyInitHolds, PolicyStep, PTL DEF PolicySpec

\* check_policy (dispatch.rs): what was asserted still holds when the command is carried out,
\* for any requests, policies and order of assertions, uses, saves, loads and startups.
THEOREM WhatWasAssertedHolds == PolicySpec => []AssertionsHold
<1>1. PolicyIInv => AssertionsHold
  BY DEF PolicyIInv
<1> QED
  BY <1>1, PolicyHolds, PTL

\* policy_or, policy_authorize and policy_authorize_nv put an entry in the place of a digest
\* only when the digest was there: what a command ran under was asserted, all of it.
THEOREM PolicyIsMet == PolicySpec => []PolicyMet
<1>1. PolicyIInv => PolicyMet
  BY DEF PolicyIInv
<1> QED
  BY <1>1, PolicyHolds, PTL

\* roll_response_nonces draws another nonce with each use, and start_auth_session with each
\* session: an authorization that is tied to one works for one command.
THEOREM TiedToOneUse == PolicySpec => []TiedOnce
<1>1. PolicyIInv => TiedOnce
  BY DEF PolicyIInv
<1> QED
  BY <1>1, PolicyHolds, PTL
=============================================================================
