--------------------------- MODULE TransportsProof ---------------------------
(***************************************************************************)
(* Proofs about Transports: for any number of clients, any limit and any   *)
(* backlog, the limit holds, no slot is lost, and a command of the data    *)
(* channel runs at a locality that was in force.                           *)
(*                                                                         *)
(* And about Execution, which the transports hand the commands to: for any *)
(* NV handles, any list of audited commands and pages of any size, signed  *)
(* audit reports chain, a client that pages misses nothing, and a TPM in   *)
(* trouble is silent.                                                      *)
(***************************************************************************)
EXTENDS Transports, Execution, FiniteSetTheorems, TLAPS

LoopPlaces == {"accept", "reserve", "spawn", "give_back", "check", "done"}
ThreadPlaces == {"new", "queued", "refused", "open", "closed", "gone"}

\* The steps of a request, and those a control channel takes.
Quiet == {"device", "reply", "close", "flag", "wake_command", "wake_platform", "set"}
StepNames == Quiet \cup {"load", "execute"}
Connection == [pc : ThreadPlaces, port : Listeners, todo : Seq(StepNames), at : Nat]

TypeOK ==
  /\ interface \in Interfaces
  /\ queue \in [Listeners -> Seq(Conns \cup {Wake})]
  /\ loop \in [Listeners -> [pc : LoopPlaces, conn : Conns \cup {Wake}]]
  /\ active \in Int
  /\ thread \in [Conns -> Connection]
  /\ locality \in Nat
  /\ window \in [Conns -> SUBSET Nat]

Waits(c, l) == thread[c].pc = "queued" /\ thread[c].port = l

\* A client in a backlog waits there, once.
Queued ==
  \A l \in Listeners : \A i \in 1 .. Len(queue[l]) :
    queue[l][i] \in Conns =>
      /\ Waits(queue[l][i], l)
      /\ \A j \in 1 .. Len(queue[l]) : queue[l][j] = queue[l][i] => j = i

\* A client that a loop holds waits for that loop and is in its backlog no more.
Held ==
  \A l \in Listeners : loop[l].pc \in {"reserve", "spawn", "give_back"} =>
    /\ loop[l].conn \in Conns
    /\ Waits(loop[l].conn, l)
    /\ \A i \in 1 .. Len(queue[l]) : queue[l][i] # loop[l].conn

Spawning == {l \in Listeners : loop[l].pc = "spawn"}
Reserving == {l \in Listeners : loop[l].pc \in {"spawn", "give_back"}}

\* Those that serve and those about to keep to the limit.
Counted ==
  /\ active = Cardinality(Serving) + Cardinality(Reserving)
  /\ Cardinality(Serving) + Cardinality(Spawning) <= Limit

\* What a thread of a virtual machine's channels has left to do, and the
\* localities a command that has not run yet may run at.
Planned(c) ==
  LET me == thread[c] IN
  IF me.port = "platform"
  THEN me.todo \in Seq(Quiet)
  ELSE \/ me.todo \in {<<>>, <<"reply">>, <<"close">>}
       \/ me.todo = <<"execute", "reply">> /\ me.at \in window[c]
       \/ me.todo = <<"load", "execute", "reply">> /\ locality \in window[c]

InForce == misplaced = {} /\ (interface = "qemu" => \A c \in Conns : Planned(c))

IInv == TypeOK /\ Queued /\ Held /\ Counted /\ InForce

-----------------------------------------------------------------------------
(* Counting.                                                               *)

\* There are two listeners.
LEMMA TwoListeners == Listeners = {"command", "platform"}
<1>1. DOMAIN Ports = {1, 2} /\ Ports[1] = "command" /\ Ports[2] = "platform"
  BY DEF Ports
<1> QED
  BY <1>1 DEF Listeners, Range

\* What is counted is finite.
LEMMA Finite ==
  /\ IsFiniteSet(Serving) /\ Cardinality(Serving) \in Nat
  /\ IsFiniteSet(Reserving) /\ Cardinality(Reserving) \in Nat
  /\ IsFiniteSet(Spawning) /\ Cardinality(Spawning) \in Nat
<1>1. IsFiniteSet(Conns)
  BY TransportsAssumption
<1>2. IsFiniteSet(Listeners)
  <2>1. IsFiniteSet({"command"})
    BY FS_Singleton
  <2>2. IsFiniteSet({"command"} \cup {"platform"})
    BY <2>1, FS_AddElement
  <2>3. Listeners = {"command"} \cup {"platform"}
    BY TwoListeners
  <2> QED
    BY <2>2, <2>3
<1>3. Serving \in SUBSET Conns /\ Reserving \in SUBSET Listeners /\ Spawning \in SUBSET Listeners
  BY DEF Serving, Reserving, Spawning
<1>4. IsFiniteSet(Serving) /\ IsFiniteSet(Reserving) /\ IsFiniteSet(Spawning)
  BY <1>1, <1>2, <1>3, FS_Subset
<1> QED
  BY <1>4, FS_CardinalityType

\* One more, and one less.
LEMMA OneMore ==
  ASSUME NEW S, IsFiniteSet(S), NEW x, x \notin S
  PROVE  Cardinality(S \cup {x}) = Cardinality(S) + 1
BY FS_AddElement

LEMMA OneLess ==
  ASSUME NEW S, IsFiniteSet(S), NEW x \in S
  PROVE  Cardinality(S \ {x}) = Cardinality(S) - 1
BY FS_RemoveElement

\* A step that moves no slot keeps the count.
LEMMA SameCount ==
  ASSUME IInv, active' = active, Serving' = Serving, Reserving' = Reserving,
         Spawning' = Spawning
  PROVE  Counted'
BY DEF IInv, Counted

\* Threads that wait go on waiting: backlogs and loops keep what they hold.
LEMMA StillWaiting ==
  ASSUME IInv, UNCHANGED <<queue, loop>>,
         \A c \in Conns : \A l \in Listeners : Waits(c, l) => Waits(c, l)'
  PROVE  Queued' /\ Held'
BY DEF IInv, Queued, Held

\* Plans that do not change, while the localities do not change either.
LEMMA SamePlans ==
  ASSUME IInv, UNCHANGED <<interface, locality, window, misplaced>>,
         \A c \in Conns :
           /\ thread'[c].port \in Listeners
           /\ \/ thread'[c].todo = <<>>
              \/ /\ thread'[c].port = thread[c].port /\ thread'[c].at = thread[c].at
                 /\ thread'[c].todo = thread[c].todo
  PROVE  InForce'
<1>1. <<>> \in Seq(Quiet)
  OBVIOUS
<1> SUFFICES ASSUME interface = "qemu", NEW c \in Conns PROVE Planned(c)'
  BY DEF IInv, InForce
<1>2. Planned(c)
  BY DEF IInv, InForce
<1>3. CASE thread'[c].todo = <<>>
  BY <1>1, <1>3 DEF Planned
<1>4. CASE thread'[c].todo # <<>>
  <2>1. /\ thread'[c].port = thread[c].port /\ thread'[c].at = thread[c].at
        /\ thread'[c].todo = thread[c].todo
    BY <1>4
  <2> QED
    BY <1>2, <2>1 DEF Planned
<1> QED
  BY <1>3, <1>4

-----------------------------------------------------------------------------
(* accept_loop.                                                            *)

\* A new client goes to the end of a backlog that does not hold it.
LEMMA ConnectKeeps ==
  ASSUME IInv, NEW c \in Conns, NEW l \in Listeners, Connect(c, l)
  PROVE  IInv'
<1> DEFINE q == queue[l]
           t == [Thread("queued") EXCEPT !.port = l]
<1>1. /\ queue' = [queue EXCEPT ![l] = Append(q, c)] /\ thread' = [thread EXCEPT ![c] = t]
      /\ UNCHANGED <<interface, loop, active, locality, window, misplaced>>
      /\ thread[c].pc = "new"
  BY DEF Connect
<1>2. /\ queue \in [Listeners -> Seq(Conns \cup {Wake})] /\ q \in Seq(Conns \cup {Wake})
      /\ thread \in [Conns -> Connection]
  BY DEF IInv, TypeOK
<1>3. t \in Connection /\ t.pc = "queued" /\ t.port = l /\ t.todo = <<>>
  <2>1. <<>> \in Seq(StepNames) /\ "queued" \in ThreadPlaces /\ "command" \in Listeners
    BY TwoListeners DEF ThreadPlaces
  <2>2. t = [pc |-> "queued", port |-> l, todo |-> <<>>, at |-> 0]
    BY DEF Thread
  <2> HIDE DEF t
  <2> QED
    BY <2>1, <2>2 DEF Connection
<1> HIDE DEF t
<1>4. /\ thread' \in [Conns -> Connection] /\ thread'[c] = t
      /\ \A d \in Conns \ {c} : thread'[d] = thread[d]
  BY <1>1, <1>2, <1>3
<1>5. /\ queue' \in [Listeners -> Seq(Conns \cup {Wake})] /\ queue'[l] = Append(q, c)
      /\ \A k \in Listeners \ {l} : queue'[k] = queue[k]
  BY <1>1, <1>2
<1>6. /\ Len(q) \in Nat /\ Len(queue'[l]) = Len(q) + 1 /\ queue'[l][Len(q) + 1] = c
      /\ \A i \in 1 .. Len(q) : queue'[l][i] = q[i]
  BY <1>2, <1>5
<1>7. \A d \in Conns : \A k \in Listeners :
        Waits(d, k) => d # c /\ thread'[d].pc = "queued" /\ thread'[d].port = k
  BY <1>1, <1>4 DEF Waits
<1>8. TypeOK'
  BY <1>1, <1>4, <1>5 DEF IInv, TypeOK
<1>9. Queued'
  <2> SUFFICES ASSUME NEW k \in Listeners, NEW i \in 1 .. Len(queue'[k]),
                      queue'[k][i] \in Conns
               PROVE  /\ thread'[queue'[k][i]].pc = "queued"
                      /\ thread'[queue'[k][i]].port = k
                      /\ \A j \in 1 .. Len(queue'[k]) : queue'[k][j] = queue'[k][i] => j = i
    BY DEF Queued, Waits
  <2>1. CASE k # l
    <3>1. queue'[k] = queue[k]
      BY <1>5, <2>1
    <3>2. /\ Waits(queue[k][i], k)
          /\ \A j \in 1 .. Len(queue[k]) : queue[k][j] = queue[k][i] => j = i
      BY <3>1 DEF IInv, Queued
    <3> QED
      BY <1>7, <3>1, <3>2
  <2>2. CASE k = l
    <3>1. \A j \in 1 .. Len(q) : q[j] # c
      BY <1>7 DEF IInv, Queued
    <3>2. Len(q) \in Nat
      BY <1>2
    <3>3. CASE i = Len(q) + 1
      BY <1>3, <1>4, <1>6, <2>2, <3>1, <3>2, <3>3
    <3>4. CASE i \in 1 .. Len(q)
      <4>1. q[i] \in Conns /\ queue'[k][i] = q[i]
        BY <1>6, <2>2, <3>4
      <4>2. Waits(q[i], l) /\ \A j \in 1 .. Len(q) : q[j] = q[i] => j = i
        BY <3>4, <4>1 DEF IInv, Queued
      <4> QED
        BY <1>6, <1>7, <2>2, <3>1, <3>2, <3>4, <4>1, <4>2
    <3> QED
      BY <1>6, <2>2, <3>2, <3>3, <3>4
  <2> QED
    BY <2>1, <2>2
<1>10. Held'
  <2> SUFFICES ASSUME NEW k \in Listeners, loop'[k].pc \in {"reserve", "spawn", "give_back"}
               PROVE  /\ loop'[k].conn \in Conns
                      /\ thread'[loop'[k].conn].pc = "queued"
                      /\ thread'[loop'[k].conn].port = k
                      /\ \A i \in 1 .. Len(queue'[k]) : queue'[k][i] # loop'[k].conn
    BY DEF Held, Waits
  <2> DEFINE h == loop[k].conn
  <2>1. loop'[k] = loop[k]
    BY <1>1
  <2>2. h \in Conns /\ Waits(h, k) /\ \A i \in 1 .. Len(queue[k]) : queue[k][i] # h
    BY <2>1 DEF IInv, Held
  <2> HIDE DEF h
  <2>3. h # c /\ thread'[h].pc = "queued" /\ thread'[h].port = k
    BY <1>7, <2>2
  <2>4. \A i \in 1 .. Len(queue'[k]) : queue'[k][i] # h
    <3>1. CASE k # l
      BY <1>5, <2>2, <3>1
    <3>2. CASE k = l
      <4>1. \A i \in 1 .. Len(q) : q[i] # h
        BY <2>2, <3>2
      <4> HIDE DEF q
      <4>2. \A n \in Nat : \A i \in 1 .. n + 1 : i \in 1 .. n \/ i = n + 1
        OBVIOUS
      <4>3. \A i \in 1 .. Len(q) + 1 : i \in 1 .. Len(q) \/ i = Len(q) + 1
        BY <1>6, <4>2
      <4>4. \A i \in 1 .. Len(q) + 1 : queue'[l][i] # h
        BY <1>6, <2>3, <4>1, <4>3
      <4> QED
        BY <1>6, <3>2, <4>4
    <3> QED
      BY <3>1, <3>2
  <2>5. loop'[k].conn = h
    BY <2>1 DEF h
  <2> QED
    BY <2>2, <2>3, <2>4, <2>5
<1>11. Counted'
  <2>1. Serving' = Serving
    BY <1>1, <1>3, <1>4 DEF Serving
  <2>2. Reserving' = Reserving /\ Spawning' = Spawning
    BY <1>1 DEF Reserving, Spawning
  <2> QED
    BY <1>1, <2>1, <2>2, SameCount
<1>12. InForce'
  <2>1. \A d \in Conns : thread'[d].port \in Listeners
    BY <1>4 DEF Connection
  <2> QED
    BY <1>1, <1>3, <1>4, <2>1, SamePlans
<1> QED
  BY <1>8, <1>9, <1>10, <1>11, <1>12 DEF IInv

\* A loop that returns leaves alone whoever is served and whoever waits for the
\* other loop.
LEMMA LeaveKeeps ==
  ASSUME IInv, NEW l \in Listeners, loop[l].pc \in {"accept", "check"}, Leave(l, {}),
         UNCHANGED <<interface, active, locality, window, misplaced>>
  PROVE  IInv'
<1> DEFINE gone == {c \in Conns : c \in Range(queue[l])}
<1>1. /\ loop' = [loop EXCEPT ![l] = [pc |-> "done", conn |-> Wake]]
      /\ queue' = [queue EXCEPT ![l] = <<>>]
      /\ thread' = [c \in Conns |-> IF c \in gone THEN Thread("refused") ELSE thread[c]]
  BY DEF Leave
<1>2. /\ queue \in [Listeners -> Seq(Conns \cup {Wake})] /\ thread \in [Conns -> Connection]
      /\ loop \in [Listeners -> [pc : LoopPlaces, conn : Conns \cup {Wake}]]
  BY DEF IInv, TypeOK
<1>3. \A c \in gone : Waits(c, l)
  <2> SUFFICES ASSUME NEW c \in gone PROVE Waits(c, l)
    OBVIOUS
  <2>1. PICK i \in DOMAIN queue[l] : c = queue[l][i]
    BY DEF Range
  <2>2. DOMAIN queue[l] = 1 .. Len(queue[l])
    BY <1>2
  <2> QED
    BY <2>1, <2>2 DEF IInv, Queued
<1> HIDE DEF gone
<1>4. /\ Thread("refused") \in Connection /\ Thread("refused").pc = "refused"
      /\ Thread("refused").todo = <<>>
  BY TwoListeners DEF Thread, Connection, ThreadPlaces
<1>5. /\ thread' \in [Conns -> Connection]
      /\ \A c \in Conns : thread'[c] = IF c \in gone THEN Thread("refused") ELSE thread[c]
  BY <1>1, <1>2, <1>4
<1>6. /\ queue' \in [Listeners -> Seq(Conns \cup {Wake})] /\ Len(queue'[l]) = 0
      /\ \A k \in Listeners \ {l} : queue'[k] = queue[k]
  <2>1. <<>> \in Seq(Conns \cup {Wake}) /\ Len(<<>>) = 0
    OBVIOUS
  <2> QED
    BY <1>1, <1>2, <2>1
<1>7. /\ loop' \in [Listeners -> [pc : LoopPlaces, conn : Conns \cup {Wake}]]
      /\ loop'[l].pc = "done" /\ \A k \in Listeners \ {l} : loop'[k] = loop[k]
  BY <1>1, <1>2 DEF LoopPlaces
<1>8. \A c \in Conns : \A k \in Listeners \ {l} : Waits(c, k) => Waits(c, k)'
  <2>1. \A c \in Conns : \A k \in Listeners \ {l} : Waits(c, k) => c \notin gone
    BY <1>3 DEF Waits
  <2> QED
    BY <1>5, <2>1 DEF Waits
<1>9. TypeOK'
  BY <1>5, <1>6, <1>7 DEF IInv, TypeOK
<1>10. Queued'
  BY <1>6, <1>8 DEF IInv, Queued
<1>11. Held'
  <2> SUFFICES ASSUME NEW k \in Listeners, loop'[k].pc \in {"reserve", "spawn", "give_back"}
               PROVE  /\ loop'[k].conn \in Conns
                      /\ thread'[loop'[k].conn].pc = "queued"
                      /\ thread'[loop'[k].conn].port = k
                      /\ \A i \in 1 .. Len(queue'[k]) : queue'[k][i] # loop'[k].conn
    BY DEF Held, Waits
  <2>1. k # l /\ loop'[k] = loop[k] /\ queue'[k] = queue[k]
    BY <1>6, <1>7
  <2> DEFINE h == loop[k].conn
  <2>2. h \in Conns /\ Waits(h, k) /\ \A i \in 1 .. Len(queue[k]) : queue[k][i] # h
    BY <2>1 DEF IInv, Held
  <2>3. loop'[k].conn = h
    BY <2>1
  <2> HIDE DEF h
  <2>4. thread'[h].pc = "queued" /\ thread'[h].port = k
    <3>1. h \notin gone
      BY <1>3, <2>1, <2>2 DEF Waits
    <3> QED
      BY <1>5, <2>2, <3>1 DEF Waits
  <2> QED
    BY <2>1, <2>2, <2>3, <2>4
<1>12. Counted'
  <2>1. Serving' = Serving
    BY <1>3, <1>4, <1>5 DEF Serving, Waits
  <2>2. Reserving' = Reserving /\ Spawning' = Spawning
    BY <1>7 DEF Reserving, Spawning
  <2> QED
    BY <2>1, <2>2, SameCount
<1>13. InForce'
  <2>1. \A c \in Conns : thread'[c].port \in Listeners
    BY <1>5 DEF Connection
  <2> QED
    BY <1>4, <1>5, <2>1, SamePlans
<1> QED
  BY <1>9, <1>10, <1>11, <1>12, <1>13 DEF IInv

\* accept takes the first of the backlog, or leaves.
LEMMA AcceptKeeps ==
  ASSUME IInv, NEW l \in Listeners, Accept(l)
  PROVE  IInv'
<1> DEFINE q == queue[l]
           h == Head(q)
           place == IF h = Wake THEN "accept" ELSE "reserve"
<1>1. /\ loop[l].pc = "accept" /\ q # <<>>
      /\ UNCHANGED <<interface, active, locality, window, misplaced>>
  BY DEF Accept
<1>2. CASE flag
  <2>1. Leave(l, {})
    BY <1>2 DEF Accept
  <2> QED
    BY <1>1, <2>1, LeaveKeeps
<1>3. CASE ~flag
  <2>1. /\ queue' = [queue EXCEPT ![l] = Tail(q)]
        /\ loop' = [loop EXCEPT ![l] = [pc |-> place, conn |-> h]]
        /\ UNCHANGED thread
    BY <1>3 DEF Accept
  <2>2. /\ queue \in [Listeners -> Seq(Conns \cup {Wake})] /\ q \in Seq(Conns \cup {Wake})
        /\ loop \in [Listeners -> [pc : LoopPlaces, conn : Conns \cup {Wake}]]
    BY DEF IInv, TypeOK
  <2>3. /\ h \in Conns \cup {Wake} /\ h = q[1] /\ Len(q) \in Nat /\ Len(q) >= 1
        /\ Tail(q) \in Seq(Conns \cup {Wake}) /\ Len(Tail(q)) = Len(q) - 1
        /\ \A i \in 1 .. Len(q) - 1 : Tail(q)[i] = q[i + 1]
    BY <1>1, <2>2
  <2> DEFINE t == Tail(q)
  <2> HIDE DEF h, t
  <2>4. /\ queue' \in [Listeners -> Seq(Conns \cup {Wake})] /\ queue'[l] = t
        /\ \A k \in Listeners \ {l} : queue'[k] = queue[k]
    BY <2>1, <2>2, <2>3 DEF t
  <2>5. /\ loop' \in [Listeners -> [pc : LoopPlaces, conn : Conns \cup {Wake}]]
        /\ loop'[l].pc = place /\ loop'[l].conn = h
        /\ \A k \in Listeners \ {l} : loop'[k] = loop[k]
    BY <2>1, <2>2, <2>3 DEF LoopPlaces
  <2>6. TypeOK'
    BY <1>1, <2>1, <2>4, <2>5 DEF IInv, TypeOK
  <2>7. \A i \in 1 .. Len(q) :
          q[i] \in Conns => /\ Waits(q[i], l)
                           /\ \A j \in 1 .. Len(q) : q[j] = q[i] => j = i
    BY DEF IInv, Queued
  <2> HIDE DEF q
  <2>8. Queued'
    <3> SUFFICES ASSUME NEW k \in Listeners, NEW i \in 1 .. Len(queue'[k]),
                        queue'[k][i] \in Conns
                 PROVE  /\ thread[queue'[k][i]].pc = "queued"
                        /\ thread[queue'[k][i]].port = k
                        /\ \A j \in 1 .. Len(queue'[k]) : queue'[k][j] = queue'[k][i] => j = i
      BY <2>1 DEF Queued, Waits
    <3>1. CASE k # l
      <4>1. queue'[k] = queue[k]
        BY <2>4, <3>1
      <4> QED
        BY <4>1 DEF IInv, Queued, Waits
    <3>2. CASE k = l
      <4>1. i + 1 \in 1 .. Len(q) /\ queue'[k] = t /\ t[i] = q[i + 1]
        BY <2>3, <2>4, <3>2 DEF t
      <4>2. \A j \in 1 .. Len(t) : j + 1 \in 1 .. Len(q) /\ t[j] = q[j + 1]
        BY <2>3 DEF t
      <4>3. Waits(q[i + 1], l) /\ \A j \in 1 .. Len(q) : q[j] = q[i + 1] => j = i + 1
        BY <2>7, <4>1
      <4> QED
        BY <3>2, <4>1, <4>2, <4>3 DEF Waits
    <3> QED
      BY <3>1, <3>2
  <2>9. Held'
    <3> SUFFICES ASSUME NEW k \in Listeners,
                        loop'[k].pc \in {"reserve", "spawn", "give_back"}
                 PROVE  /\ loop'[k].conn \in Conns
                        /\ thread[loop'[k].conn].pc = "queued"
                        /\ thread[loop'[k].conn].port = k
                        /\ \A i \in 1 .. Len(queue'[k]) : queue'[k][i] # loop'[k].conn
      BY <2>1 DEF Held, Waits
    <3>1. CASE k # l
      <4>1. queue'[k] = queue[k] /\ loop'[k] = loop[k]
        BY <2>4, <2>5, <3>1
      <4>2. /\ loop[k].conn \in Conns /\ Waits(loop[k].conn, k)
            /\ \A i \in 1 .. Len(queue[k]) : queue[k][i] # loop[k].conn
        BY <4>1 DEF IInv, Held
      <4> QED
        BY <4>1, <4>2 DEF Waits
    <3>2. CASE k = l
      <4>1. h # Wake /\ h \in Conns
        BY <2>3, <2>5, <3>2
      <4>2. 1 \in 1 .. Len(q) /\ q[1] = h
        BY <2>3
      <4>3. Waits(h, l) /\ \A j \in 1 .. Len(q) : q[j] = h => j = 1
        BY <2>7, <4>1, <4>2
      <4>4. \A j \in 1 .. Len(t) : j + 1 \in 1 .. Len(q) /\ t[j] = q[j + 1]
        BY <2>3 DEF t
      <4>5. \A j \in 1 .. Len(t) : j + 1 # 1
        OBVIOUS
      <4>6. \A j \in 1 .. Len(t) : t[j] # h
        BY <4>3, <4>4, <4>5
      <4> QED
        BY <2>4, <2>5, <3>2, <4>1, <4>3, <4>6 DEF Waits
    <3> QED
      BY <3>1, <3>2
  <2>10. Counted'
    <3>1. Serving' = Serving
      BY <2>1 DEF Serving
    <3>2. loop'[l].pc \notin {"spawn", "give_back"} /\ loop[l].pc \notin {"spawn", "give_back"}
      BY <1>1, <2>5
    <3>3. Reserving' = Reserving /\ Spawning' = Spawning
      BY <2>5, <3>2 DEF Reserving, Spawning
    <3> QED
      BY <1>1, <3>1, <3>3, SameCount
  <2>11. InForce'
    <3>1. \A c \in Conns : thread[c].port \in Listeners
      BY DEF IInv, TypeOK, Connection
    <3> QED
      BY <1>1, <2>1, <3>1, SamePlans
  <2> QED
    BY <2>6, <2>8, <2>9, <2>10, <2>11 DEF IInv
<1> QED
  BY <1>2, <1>3

\* A loop that moves on with the client it holds, or lets go of nobody.
LEMMA LoopMoves ==
  ASSUME IInv, NEW l \in Listeners, NEW pc \in LoopPlaces,
         loop' = [loop EXCEPT ![l].pc = pc],
         \/ loop[l].pc = "reserve" /\ pc \in {"spawn", "give_back"}
         \/ pc = "accept",
         active' \in Int,
         UNCHANGED <<interface, queue, thread, locality, window, misplaced>>
  PROVE  /\ TypeOK' /\ Queued' /\ Held' /\ InForce'
         /\ Serving' = Serving /\ loop'[l].pc = pc
         /\ \A k \in Listeners \ {l} : loop'[k] = loop[k]
<1>1. loop \in [Listeners -> [pc : LoopPlaces, conn : Conns \cup {Wake}]]
  BY DEF IInv, TypeOK
<1>2. /\ loop' \in [Listeners -> [pc : LoopPlaces, conn : Conns \cup {Wake}]]
      /\ loop'[l].pc = pc /\ loop'[l].conn = loop[l].conn
      /\ \A k \in Listeners \ {l} : loop'[k] = loop[k]
  BY <1>1
<1>3. TypeOK'
  BY <1>2 DEF IInv, TypeOK
<1>4. Queued' /\ Serving' = Serving
  BY DEF IInv, Queued, Waits, Serving
<1>5. Held'
  <2> SUFFICES ASSUME NEW k \in Listeners,
                      loop'[k].pc \in {"reserve", "spawn", "give_back"}
               PROVE  /\ loop'[k].conn \in Conns
                      /\ thread[loop'[k].conn].pc = "queued"
                      /\ thread[loop'[k].conn].port = k
                      /\ \A i \in 1 .. Len(queue[k]) : queue[k][i] # loop'[k].conn
    BY DEF Held, Waits
  <2>1. loop[k].pc \in {"reserve", "spawn", "give_back"} /\ loop'[k].conn = loop[k].conn
    BY <1>2
  <2>2. /\ loop[k].conn \in Conns /\ Waits(loop[k].conn, k)
        /\ \A i \in 1 .. Len(queue[k]) : queue[k][i] # loop[k].conn
    BY <2>1 DEF IInv, Held
  <2> QED
    BY <2>1, <2>2 DEF Waits
<1>6. InForce'
  <2>1. \A c \in Conns : thread[c].port \in Listeners
    BY DEF IInv, TypeOK, Connection
  <2> QED
    BY <2>1, SamePlans
<1> QED
  BY <1>2, <1>3, <1>4, <1>5, <1>6

\* fetch_add: the loop takes the way to the thread only below the limit.
LEMMA ReserveKeeps ==
  ASSUME IInv, NEW l \in Listeners, Reserve(l)
  PROVE  IInv'
<1> DEFINE place == IF Room THEN "spawn" ELSE "give_back"
<1>1. /\ loop[l].pc = "reserve" /\ active' = active + 1
      /\ loop' = [loop EXCEPT ![l].pc = place]
      /\ UNCHANGED <<interface, queue, thread, locality, window, misplaced>>
  BY DEF Reserve
<1>2. active \in Int /\ place \in {"spawn", "give_back"} /\ place \in LoopPlaces
  BY DEF IInv, TypeOK, LoopPlaces
<1>3. place = "spawn" => active < Limit
  BY DEF Room
<1> HIDE DEF place
<1>4. /\ TypeOK' /\ Queued' /\ Held' /\ InForce'
      /\ Serving' = Serving /\ loop'[l].pc = place
      /\ \A k \in Listeners \ {l} : loop'[k] = loop[k]
  <2>1. active' \in Int
    BY <1>1, <1>2
  <2> QED
    BY <1>1, <1>2, <2>1, LoopMoves
<1>5. Reserving' = Reserving \cup {l} /\ l \notin Reserving
      /\ Spawning' = (IF place = "spawn" THEN Spawning \cup {l} ELSE Spawning) /\ l \notin Spawning
      /\ Spawning \subseteq Reserving
  BY <1>1, <1>2, <1>4 DEF Reserving, Spawning
<1>6. Cardinality(Reserving') = Cardinality(Reserving) + 1
  BY <1>5, OneMore, Finite
<1>7. Cardinality(Spawning') =
        IF place = "spawn" THEN Cardinality(Spawning) + 1 ELSE Cardinality(Spawning)
  BY <1>5, OneMore, Finite
<1>8. Cardinality(Spawning) <= Cardinality(Reserving)
  BY <1>5, Finite, FS_Subset
<1>9. Counted'
  BY <1>1, <1>3, <1>4, <1>6, <1>7, <1>8, Finite, TransportsAssumption DEF IInv, Counted
<1> QED
  BY <1>4, <1>9 DEF IInv

\* The flag is looked at, and the loop goes back to accept.
LEMMA CheckKeeps ==
  ASSUME IInv, NEW l \in Listeners, Check(l)
  PROVE  IInv'
<1>1. /\ loop[l].pc = "check" /\ UNCHANGED <<interface, active, locality, window, misplaced>>
  BY DEF Check
<1>2. CASE flag
  <2>1. Leave(l, {})
    BY <1>2 DEF Check
  <2> QED
    BY <1>1, <2>1, LeaveKeeps
<1>3. CASE ~flag
  <2>1. loop' = [loop EXCEPT ![l].pc = "accept"] /\ UNCHANGED <<queue, thread>>
    BY <1>3 DEF Check
  <2>2. /\ TypeOK' /\ Queued' /\ Held' /\ InForce'
        /\ Serving' = Serving /\ loop'[l].pc = "accept"
        /\ \A k \in Listeners \ {l} : loop'[k] = loop[k]
    <3>1. active' \in Int /\ "accept" \in LoopPlaces
      BY <1>1 DEF IInv, TypeOK, LoopPlaces
    <3> QED
      BY <1>1, <2>1, <3>1, LoopMoves
  <2>3. Reserving' = Reserving /\ Spawning' = Spawning
    BY <1>1, <2>2 DEF Reserving, Spawning
  <2>4. Counted'
    BY <1>1, <2>2, <2>3, SameCount
  <2> QED
    BY <2>2, <2>4 DEF IInv
<1> QED
  BY <1>2, <1>3

\* A loop that lets go of the client it held, which waits no more.
LEMMA LetGo ==
  ASSUME IInv, NEW l \in Listeners, loop[l].pc \in {"spawn", "give_back"},
         NEW place \in {"accept", "check"}, NEW x \in Connection,
         loop' = [loop EXCEPT ![l] = [pc |-> place, conn |-> Wake]],
         thread' = [thread EXCEPT ![loop[l].conn] = x],
         \/ x.todo = <<>>
         \/ LET y == thread[loop[l].conn]
            IN  x.todo = y.todo /\ x.port = y.port /\ x.at = y.at,
         active' \in Int,
         UNCHANGED <<interface, queue, locality, window, misplaced>>
  PROVE  /\ TypeOK' /\ Queued' /\ Held' /\ InForce'
         /\ Reserving' = Reserving \ {l} /\ Spawning' = Spawning \ {l}
         /\ loop[l].conn \in Conns /\ thread[loop[l].conn].pc = "queued"
         /\ thread'[loop[l].conn] = x
         /\ \A c \in Conns \ {loop[l].conn} : thread'[c] = thread[c]
<1> DEFINE h == loop[l].conn
<1>1. h \in Conns /\ Waits(h, l) /\ \A i \in 1 .. Len(queue[l]) : queue[l][i] # h
  BY DEF IInv, Held
<1>2. /\ thread \in [Conns -> Connection]
      /\ loop \in [Listeners -> [pc : LoopPlaces, conn : Conns \cup {Wake}]]
  BY DEF IInv, TypeOK
<1>3. loop' = [loop EXCEPT ![l] = [pc |-> place, conn |-> Wake]]
      /\ thread' = [thread EXCEPT ![h] = x]
  OBVIOUS
<1>4. /\ thread' \in [Conns -> Connection] /\ thread'[h] = x
      /\ \A c \in Conns \ {h} : thread'[c] = thread[c]
  BY <1>1, <1>2, <1>3
<1> HIDE DEF h
<1>5. /\ loop' \in [Listeners -> [pc : LoopPlaces, conn : Conns \cup {Wake}]]
      /\ loop'[l].pc = place /\ \A k \in Listeners \ {l} : loop'[k] = loop[k]
  BY <1>2, <1>3 DEF LoopPlaces
<1>6. TypeOK'
  BY <1>4, <1>5 DEF IInv, TypeOK
<1>7. Queued'
  <2> SUFFICES ASSUME NEW k \in Listeners, NEW i \in 1 .. Len(queue[k]),
                      queue[k][i] \in Conns
               PROVE  /\ thread'[queue[k][i]].pc = "queued" /\ thread'[queue[k][i]].port = k
                      /\ \A j \in 1 .. Len(queue[k]) : queue[k][j] = queue[k][i] => j = i
    BY DEF Queued, Waits
  <2>1. /\ Waits(queue[k][i], k)
        /\ \A j \in 1 .. Len(queue[k]) : queue[k][j] = queue[k][i] => j = i
    BY DEF IInv, Queued
  <2>2. queue[k][i] # h
    BY <1>1, <2>1 DEF Waits
  <2> QED
    BY <1>4, <2>1, <2>2 DEF Waits
<1>8. Held'
  <2> SUFFICES ASSUME NEW k \in Listeners,
                      loop'[k].pc \in {"reserve", "spawn", "give_back"}
               PROVE  /\ loop'[k].conn \in Conns
                      /\ thread'[loop'[k].conn].pc = "queued"
                      /\ thread'[loop'[k].conn].port = k
                      /\ \A i \in 1 .. Len(queue[k]) : queue[k][i] # loop'[k].conn
    BY DEF Held, Waits
  <2>1. k # l /\ loop'[k] = loop[k]
    BY <1>5
  <2>2. /\ loop[k].conn \in Conns /\ Waits(loop[k].conn, k)
        /\ \A i \in 1 .. Len(queue[k]) : queue[k][i] # loop[k].conn
    BY <2>1 DEF IInv, Held
  <2>3. loop[k].conn # h
    BY <1>1, <2>1, <2>2 DEF Waits
  <2> QED
    BY <1>4, <2>1, <2>2, <2>3 DEF Waits
<1>9. InForce'
  <2>1. \A c \in Conns : thread'[c].port \in Listeners
    BY <1>4 DEF Connection
  <2> QED
    BY <1>1, <1>4, <2>1, SamePlans DEF h
<1>10. Reserving' = Reserving \ {l} /\ Spawning' = Spawning \ {l}
  BY <1>5 DEF Reserving, Spawning
<1> QED
  BY <1>1, <1>4, <1>6, <1>7, <1>8, <1>9, <1>10 DEF h, Waits

\* One connection too many: the slot goes back.
LEMMA GiveBackKeeps ==
  ASSUME IInv, NEW l \in Listeners, GiveBack(l)
  PROVE  IInv'
<1> DEFINE h == loop[l].conn
           x == Thread("refused")
<1>1. /\ loop[l].pc = "give_back" /\ active' = active - 1
      /\ thread' = [thread EXCEPT ![h] = x]
      /\ loop' = [loop EXCEPT ![l] = [pc |-> "accept", conn |-> Wake]]
      /\ UNCHANGED <<interface, queue, locality, window, misplaced>>
  BY DEF GiveBack
<1>2. x \in Connection /\ x.pc = "refused" /\ x.todo = <<>>
  BY TwoListeners DEF Thread, Connection, ThreadPlaces
<1> HIDE DEF x
<1>3. active' \in Int
  BY <1>1 DEF IInv, TypeOK
<1>4. /\ TypeOK' /\ Queued' /\ Held' /\ InForce'
      /\ Reserving' = Reserving \ {l} /\ Spawning' = Spawning \ {l}
      /\ h \in Conns /\ thread[h].pc = "queued" /\ thread'[h] = x
      /\ \A c \in Conns \ {h} : thread'[c] = thread[c]
  BY <1>1, <1>2, <1>3, LetGo
<1> HIDE DEF h
<1>5. Serving' = Serving
  BY <1>2, <1>4 DEF Serving
<1>6. l \in Reserving /\ l \notin Spawning
  BY <1>1 DEF Reserving, Spawning
<1>7. Cardinality(Reserving') = Cardinality(Reserving) - 1
  BY <1>4, <1>6, OneLess, Finite
<1>8. Spawning' = Spawning
  BY <1>4, <1>6
<1>9. Counted'
  BY <1>1, <1>5, <1>7, <1>8, Finite DEF IInv, Counted
<1> QED
  BY <1>4, <1>9 DEF IInv

\* The thread takes the slot over, or the slot goes back.
LEMMA SpawnKeeps ==
  ASSUME IInv, NEW l \in Listeners, NEW spawned \in BOOLEAN, Spawn(l, spawned)
  PROVE  IInv'
<1> DEFINE h == loop[l].conn
           place == IF spawned THEN "open" ELSE "refused"
           x == [thread[h] EXCEPT !.pc = place]
<1>1. /\ loop[l].pc = "spawn" /\ active' = IF spawned THEN active ELSE active - 1
      /\ thread' = [thread EXCEPT ![h] = x]
      /\ loop' = [loop EXCEPT ![l] = [pc |-> "check", conn |-> Wake]]
      /\ UNCHANGED <<interface, queue, locality, window, misplaced>>
  BY DEF Spawn
<1>2. h \in Conns /\ thread \in [Conns -> Connection]
  BY <1>1 DEF IInv, Held, TypeOK
<1>3. place \in ThreadPlaces
  BY DEF ThreadPlaces
<1>4. /\ x \in Connection /\ x.pc = place /\ x.todo = thread[h].todo
      /\ x.port = thread[h].port /\ x.at = thread[h].at
  <2> HIDE DEF place, h
  <2> QED
    BY <1>2, <1>3 DEF Connection
<1>5. active' \in Int /\ active \in Int
  BY <1>1 DEF IInv, TypeOK
<1> HIDE DEF x
<1>6. /\ TypeOK' /\ Queued' /\ Held' /\ InForce'
      /\ Reserving' = Reserving \ {l} /\ Spawning' = Spawning \ {l}
      /\ h \in Conns /\ thread[h].pc = "queued" /\ thread'[h] = x
      /\ \A c \in Conns \ {h} : thread'[c] = thread[c]
  BY <1>1, <1>4, <1>5, LetGo
<1> HIDE DEF h
<1>7. h \notin Serving /\ Serving' = IF spawned THEN Serving \cup {h} ELSE Serving
  BY <1>4, <1>6 DEF Serving
<1>8. l \in Reserving /\ l \in Spawning
  BY <1>1 DEF Reserving, Spawning
<1>9. /\ Cardinality(Reserving') = Cardinality(Reserving) - 1
      /\ Cardinality(Spawning') = Cardinality(Spawning) - 1
  BY <1>6, <1>8, OneLess, Finite
<1>10. Cardinality(Serving') =
         IF spawned THEN Cardinality(Serving) + 1 ELSE Cardinality(Serving)
  BY <1>7, OneMore, Finite
<1>11. Counted'
  BY <1>1, <1>5, <1>9, <1>10, Finite, TransportsAssumption DEF IInv, Counted
<1> QED
  BY <1>6, <1>11 DEF IInv

-----------------------------------------------------------------------------
(* The threads.                                                            *)

\* The thread ends, and its slot goes back.
LEMMA ReleaseKeeps ==
  ASSUME IInv, NEW c \in Conns, Release(c)
  PROVE  IInv'
<1> DEFINE x == Thread("gone")
<1>1. /\ thread[c].pc = "closed" /\ active' = active - 1
      /\ thread' = [thread EXCEPT ![c] = x]
      /\ UNCHANGED <<interface, queue, loop, locality, window, misplaced>>
  BY DEF Release
<1>2. x \in Connection /\ x.pc = "gone" /\ x.todo = <<>>
  BY TwoListeners DEF Thread, Connection, ThreadPlaces
<1> HIDE DEF x
<1>3. thread \in [Conns -> Connection] /\ active \in Int
  BY DEF IInv, TypeOK
<1>4. /\ thread' \in [Conns -> Connection] /\ thread'[c] = x
      /\ \A d \in Conns \ {c} : thread'[d] = thread[d]
  BY <1>1, <1>2, <1>3
<1>5. TypeOK'
  BY <1>1, <1>3, <1>4 DEF IInv, TypeOK
<1>6. Queued' /\ Held'
  <2>1. \A d \in Conns : \A l \in Listeners : Waits(d, l) => Waits(d, l)'
    BY <1>1, <1>4 DEF Waits
  <2> QED
    BY <1>1, <2>1, StillWaiting
<1>7. c \in Serving /\ Serving' = Serving \ {c}
  BY <1>1, <1>2, <1>4 DEF Serving
<1>8. Cardinality(Serving') = Cardinality(Serving) - 1
  BY <1>7, OneLess, Finite
<1>9. Reserving' = Reserving /\ Spawning' = Spawning
  BY <1>1 DEF Reserving, Spawning
<1>10. Counted'
  BY <1>1, <1>8, <1>9, Finite, TransportsAssumption DEF IInv, Counted
<1>11. InForce'
  <2>1. \A d \in Conns : thread'[d].port \in Listeners
    BY <1>4 DEF Connection
  <2> QED
    BY <1>1, <1>2, <1>4, <2>1, SamePlans
<1> QED
  BY <1>5, <1>6, <1>10, <1>11 DEF IInv

\* Short sequences of what a set holds, and sequences one after the other.
LEMMA Tuples ==
  ASSUME NEW S, NEW a \in S, NEW b \in S, NEW c \in S
  PROVE  /\ <<a>> \in Seq(S) /\ <<a, b>> \in Seq(S) /\ <<a, b, c>> \in Seq(S)
         /\ \A u, v \in Seq(S) : u \o v \in Seq(S)
<1>1. <<a>> \in Seq(S)
  OBVIOUS
<1>2. <<a, b>> \in Seq(S)
  OBVIOUS
<1>3. <<a, b, c>> \in Seq(S)
  OBVIOUS
<1>4. \A u, v \in Seq(S) : u \o v \in Seq(S)
  OBVIOUS
<1> QED
  BY <1>1, <1>2, <1>3, <1>4

\* What a request asks of a thread is steps; the control channel runs no command.
LEMMA StepsType ==
  ASSUME NEW l \in Listeners, NEW r \in Requests, interface \in Interfaces
  PROVE  /\ Steps(l, r) \in Seq(StepNames)
         /\ ControlSteps(r) \in Seq(Quiet)
<1>1. /\ "device" \in Quiet /\ "reply" \in Quiet /\ "close" \in Quiet /\ "set" \in Quiet
      /\ "flag" \in Quiet /\ "wake_command" \in Quiet /\ "wake_platform" \in Quiet
  BY DEF Quiet
<1>2. "load" \in StepNames /\ "execute" \in StepNames /\ Quiet \subseteq StepNames
  BY DEF StepNames
<1>3. \A u \in Seq(Quiet) : u \in Seq(StepNames)
  BY <1>2
<1>4. RequestStop \in Seq(Quiet)
  BY <1>1, Tuples DEF RequestStop
<1>5. <<"device", "reply">> \in Seq(Quiet) /\ <<"set", "reply">> \in Seq(Quiet)
      /\ <<"reply", "close">> \in Seq(Quiet)
  BY <1>1, Tuples
<1>6. <<"close">> \in Seq(Quiet) /\ <<"reply">> \in Seq(Quiet)
  BY <1>1, Tuples
<1>7. <<"device", "device", "reply">> \in Seq(Quiet)
  BY <1>1, Tuples
<1>8. \A u, v \in Seq(Quiet) : u \o v \in Seq(Quiet)
  BY <1>1, Tuples
<1>9. <<"execute", "reply">> \in Seq(StepNames) /\ <<"load", "execute", "reply">> \in Seq(StepNames)
  BY <1>1, <1>2, Tuples
<1>10. /\ <<"device", "reply">> \o RequestStop \o <<"close">> \in Seq(Quiet)
       /\ RequestStop \o <<"reply", "close">> \in Seq(Quiet)
  BY <1>4, <1>5, <1>6, <1>8
<1>11. ControlSteps(r) \in Seq(Quiet)
  BY <1>5, <1>6, <1>10 DEF ControlSteps
<1>12. SocketSteps(r) \in Seq(StepNames)
  BY <1>3, <1>5, <1>6, <1>7, <1>9, <1>10 DEF SocketSteps
<1>13. PipeSteps(r) \in Seq(StepNames) /\ DataSteps(r) \in Seq(StepNames)
  BY <1>3, <1>6, <1>9 DEF PipeSteps, DataSteps
<1>14. Steps(l, r) \in {SocketSteps(r), PipeSteps(r), DataSteps(r), ControlSteps(r)}
  BY TwoListeners DEF Steps, Interfaces
<1> QED
  BY <1>3, <1>11, <1>12, <1>13, <1>14

\* A thread in the middle of its requests serves, and nobody else is touched.
LEMMA ServingMoves ==
  ASSUME IInv, NEW c \in Conns, thread[c].pc = "open",
         NEW x \in Connection, x.pc \in {"open", "closed"},
         thread' = [thread EXCEPT ![c] = x],
         UNCHANGED <<loop, active>>
  PROVE  /\ thread' \in [Conns -> Connection] /\ thread'[c] = x
         /\ \A d \in Conns \ {c} : thread'[d] = thread[d]
         /\ \A d \in Conns : \A l \in Listeners : Waits(d, l) => Waits(d, l)'
         /\ Counted'
<1>1. thread \in [Conns -> Connection]
  BY DEF IInv, TypeOK
<1>2. /\ thread' \in [Conns -> Connection] /\ thread'[c] = x
      /\ \A d \in Conns \ {c} : thread'[d] = thread[d]
  BY <1>1
<1>3. \A d \in Conns : \A l \in Listeners : Waits(d, l) => Waits(d, l)'
  BY <1>2 DEF Waits
<1>4. Serving' = Serving
  BY <1>2 DEF Serving
<1>5. Reserving' = Reserving /\ Spawning' = Spawning
  BY DEF Reserving, Spawning
<1> QED
  BY <1>2, <1>3, <1>4, <1>5, SameCount

\* A request is taken up; a command of the data channel opens its window.
LEMMA SendKeeps ==
  ASSUME IInv, NEW c \in Conns, NEW r \in Requests, Send(c, r)
  PROVE  IInv'
<1> DEFINE todo == Steps(thread[c].port, r)
           at == IF r.op = "locality" THEN r.at ELSE thread[c].at
           x == [thread[c] EXCEPT !.todo = todo, !.at = at]
           w == IF interface = "qemu" /\ r.op = "command" THEN {locality} ELSE {}
<1>1. /\ thread[c].pc = "open"
      /\ thread' = [thread EXCEPT ![c] = x]
      /\ window' = [window EXCEPT ![c] = w]
      /\ UNCHANGED <<interface, queue, loop, active, locality, misplaced>>
  BY DEF Send
<1>2. /\ thread \in [Conns -> Connection] /\ thread[c].port \in Listeners
      /\ thread[c].at \in Nat /\ interface \in Interfaces /\ locality \in Nat
      /\ window \in [Conns -> SUBSET Nat]
  BY DEF IInv, TypeOK, Connection
<1>3. todo \in Seq(StepNames) /\ ControlSteps(r) \in Seq(Quiet)
  BY <1>2, StepsType
<1>4. at \in Nat
  BY <1>2 DEF Requests, MaxLocality
<1>5. interface = "qemu" =>
        todo = IF thread[c].port = "command" THEN DataSteps(r) ELSE ControlSteps(r)
  BY <1>2, TwoListeners DEF Steps
<1> HIDE DEF todo, at
<1>6. /\ x \in Connection /\ x.pc = "open" /\ x.todo = todo /\ x.port = thread[c].port
      /\ x.at = at
  BY <1>1, <1>2, <1>3, <1>4 DEF Connection
<1> HIDE DEF x
<1>7. /\ thread' \in [Conns -> Connection] /\ thread'[c] = x
      /\ \A d \in Conns \ {c} : thread'[d] = thread[d]
      /\ \A d \in Conns : \A l \in Listeners : Waits(d, l) => Waits(d, l)'
      /\ Counted'
  BY <1>1, <1>6, ServingMoves
<1>8. /\ window' \in [Conns -> SUBSET Nat] /\ window'[c] = w
      /\ \A d \in Conns \ {c} : window'[d] = window[d]
  BY <1>1, <1>2
<1>9. TypeOK'
  BY <1>1, <1>7, <1>8 DEF IInv, TypeOK
<1>10. Queued' /\ Held'
  BY <1>1, <1>7, StillWaiting
<1>11. InForce'
  <2> SUFFICES ASSUME interface = "qemu", NEW d \in Conns PROVE Planned(d)'
    BY <1>1 DEF IInv, InForce
  <2>1. CASE d # c
    <3>1. Planned(d)
      BY DEF IInv, InForce
    <3> QED
      BY <1>1, <1>7, <1>8, <2>1, <3>1 DEF Planned
  <2>2. CASE d = c /\ x.port = "platform"
    BY <1>3, <1>5, <1>6, <1>7, <2>2 DEF Planned
  <2>3. CASE d = c /\ x.port = "command"
    <3>1. todo = DataSteps(r)
      BY <1>5, <1>6, <2>3
    <3>2. \/ todo = <<"close">>
          \/ todo = <<"load", "execute", "reply">> /\ w = {locality}
      BY <3>1 DEF DataSteps
    <3> QED
      BY <1>1, <1>6, <1>7, <1>8, <2>3, <3>2 DEF Planned
  <2> QED
    BY <1>2, <1>6, <2>1, <2>2, <2>3, TwoListeners
<1> QED
  BY <1>7, <1>9, <1>10, <1>11 DEF IInv

\* A reply that cannot be written leaves the connection to be closed.
LEMMA ReplyFailsKeeps ==
  ASSUME IInv, NEW c \in Conns, ReplyFails(c)
  PROVE  IInv'
<1> DEFINE x == [thread[c] EXCEPT !.todo = <<"close">>]
<1>1. /\ thread[c].pc = "open" /\ thread' = [thread EXCEPT ![c] = x]
      /\ UNCHANGED <<interface, queue, loop, active, locality, window, misplaced>>
  BY DEF ReplyFails
<1>2. thread \in [Conns -> Connection]
  BY DEF IInv, TypeOK
<1>3. <<"close">> \in Seq(StepNames) /\ <<"close">> \in Seq(Quiet)
  <2>1. "close" \in Quiet /\ "close" \in StepNames
    BY DEF Quiet, StepNames
  <2> QED
    BY <2>1, Tuples
<1>4. /\ x \in Connection /\ x.pc = "open" /\ x.todo = <<"close">>
      /\ x.port = thread[c].port /\ x.at = thread[c].at
  BY <1>1, <1>2, <1>3 DEF Connection
<1> HIDE DEF x
<1>5. /\ thread' \in [Conns -> Connection] /\ thread'[c] = x
      /\ \A d \in Conns \ {c} : thread'[d] = thread[d]
      /\ \A d \in Conns : \A l \in Listeners : Waits(d, l) => Waits(d, l)'
      /\ Counted'
  BY <1>1, <1>4, ServingMoves
<1>6. TypeOK'
  BY <1>1, <1>5 DEF IInv, TypeOK
<1>7. Queued' /\ Held'
  BY <1>1, <1>5, StillWaiting
<1>8. InForce'
  <2> SUFFICES ASSUME interface = "qemu", NEW d \in Conns PROVE Planned(d)'
    BY <1>1 DEF IInv, InForce
  <2>1. CASE d # c
    <3>1. Planned(d)
      BY DEF IInv, InForce
    <3> QED
      BY <1>1, <1>5, <2>1, <3>1 DEF Planned
  <2>2. CASE d = c
    BY <1>3, <1>4, <1>5, <2>2 DEF Planned
  <2> QED
    BY <2>1, <2>2
<1> QED
  BY <1>5, <1>6, <1>7, <1>8 DEF IInv

\* A loop that is woken finds one more connection, which is nobody's.
LEMMA KnockAdds ==
  ASSUME IInv, NEW l \in Listeners, Knock(l)
  PROVE  /\ queue' \in [Listeners -> Seq(Conns \cup {Wake})]
         /\ \A k \in Listeners : \A i \in 1 .. Len(queue'[k]) :
              \/ queue'[k][i] = Wake
              \/ i \in 1 .. Len(queue[k]) /\ queue'[k][i] = queue[k][i]
<1>1. queue \in [Listeners -> Seq(Conns \cup {Wake})]
  BY DEF IInv, TypeOK
<1>2. CASE queue' = queue
  BY <1>1, <1>2
<1>3. CASE queue' = [queue EXCEPT ![l] = Append(@, Wake)]
  <2>1. queue[l] \in Seq(Conns \cup {Wake})
    BY <1>1
  <2>2. /\ queue' \in [Listeners -> Seq(Conns \cup {Wake})]
        /\ queue'[l] = Append(queue[l], Wake)
        /\ \A k \in Listeners \ {l} : queue'[k] = queue[k]
    BY <1>1, <1>3
  <2>3. \A i \in 1 .. Len(queue'[l]) :
          \/ queue'[l][i] = Wake
          \/ i \in 1 .. Len(queue[l]) /\ queue'[l][i] = queue[l][i]
    BY <2>1, <2>2
  <2> QED
    BY <2>2, <2>3
<1> QED
  BY <1>2, <1>3 DEF Knock

\* Throwaway connections leave the clients that wait as they are.
LEMMA WokenStillWaiting ==
  ASSUME IInv, UNCHANGED loop,
         \A k \in Listeners : \A i \in 1 .. Len(queue'[k]) :
           \/ queue'[k][i] = Wake
           \/ i \in 1 .. Len(queue[k]) /\ queue'[k][i] = queue[k][i],
         \A c \in Conns : \A l \in Listeners : Waits(c, l) => Waits(c, l)'
  PROVE  Queued' /\ Held'
<1>1. Wake \notin Conns
  BY TransportsAssumption
<1>2. Queued'
  BY <1>1 DEF IInv, Queued
<1>3. Held'
  BY <1>1 DEF IInv, Held
<1> QED
  BY <1>2, <1>3

\* A plan goes on as it is for a client that another's step does not touch.
LEMMA OthersPlan ==
  ASSUME IInv, interface' = interface, interface = "qemu",
         NEW d \in Conns, thread'[d] = thread[d],
         \/ locality' = locality /\ window'[d] = window[d]
         \/ window'[d] = IF window[d] = {} THEN {} ELSE window[d] \cup {locality'}
  PROVE  Planned(d)'
<1>1. Planned(d)
  BY DEF IInv, InForce
<1>2. CASE thread[d].port = "platform"
  BY <1>1, <1>2 DEF Planned
<1>3. CASE thread[d].port # "platform"
  BY <1>1, <1>3 DEF Planned
<1> QED
  BY <1>2, <1>3

\* One step of a request.
LEMMA StepKeeps ==
  ASSUME IInv, NEW c \in Conns, Step(c)
  PROVE  IInv'
<1> DEFINE me == thread[c]
           s == Head(me.todo)
           place == IF s = "close" THEN "closed" ELSE me.pc
           at == CASE s = "load" -> locality
                   [] s \in {"reply", "close"} -> 0
                   [] OTHER -> me.at
           rest == Tail(me.todo)
           x == [me EXCEPT !.todo = rest, !.pc = place, !.at = at]
<1>1. me.pc = "open" /\ me.todo # <<>>
  BY DEF Step
<1>2. thread' = [thread EXCEPT ![c] = x]
  BY DEF Step
<1>3. /\ UNCHANGED <<interface, loop, active>>
      /\ locality' = IF s = "set" THEN me.at ELSE locality
      /\ misplaced' = IF s = "execute" /\ interface = "qemu" /\ me.at \notin window[c]
                      THEN misplaced \cup {c} ELSE misplaced
  BY DEF Step
<1>4. window' = CASE s = "set" -> [d \in Conns |-> IF window[d] = {} THEN {}
                                                   ELSE window[d] \cup {me.at}]
                  [] s = "execute" -> [window EXCEPT ![c] = {}]
                  [] OTHER -> window
  BY DEF Step
<1>5. Knock("command") \/ Knock("platform") \/ UNCHANGED queue
  BY DEF Step
<1>6. /\ thread \in [Conns -> Connection] /\ me \in Connection
      /\ me.todo \in Seq(StepNames) /\ me.at \in Nat /\ me.port \in Listeners
      /\ locality \in Nat /\ window \in [Conns -> SUBSET Nat]
  BY DEF IInv, TypeOK, Connection
<1>7. s \in StepNames /\ rest \in Seq(StepNames)
  BY <1>1, <1>6
<1>8. place \in {"open", "closed"} /\ place \in ThreadPlaces
  BY <1>1 DEF ThreadPlaces
<1>9. at \in Nat
  BY <1>6
<1>10. /\ x \in Connection /\ x.pc = place /\ x.todo = rest /\ x.port = me.port
       /\ x.at = at
  <2> HIDE DEF place, at, rest, me
  <2> QED
    BY <1>6, <1>7, <1>8, <1>9 DEF Connection
<1> HIDE DEF x
<1>11. /\ thread' \in [Conns -> Connection] /\ thread'[c] = x
       /\ \A d \in Conns \ {c} : thread'[d] = thread[d]
       /\ \A d \in Conns : \A l \in Listeners : Waits(d, l) => Waits(d, l)'
       /\ Counted'
  BY <1>1, <1>2, <1>3, <1>8, <1>10, ServingMoves
<1>12. /\ queue' \in [Listeners -> Seq(Conns \cup {Wake})]
       /\ \A k \in Listeners : \A i \in 1 .. Len(queue'[k]) :
            \/ queue'[k][i] = Wake
            \/ i \in 1 .. Len(queue[k]) /\ queue'[k][i] = queue[k][i]
  <2>1. CASE UNCHANGED queue
    BY <2>1 DEF IInv, TypeOK
  <2>2. CASE ~ UNCHANGED queue
    BY <1>5, <2>2, KnockAdds, TwoListeners
  <2> QED
    BY <2>1, <2>2
<1>13. Queued' /\ Held'
  BY <1>3, <1>11, <1>12, WokenStillWaiting
<1> HIDE DEF s, at, place, rest, me
<1>14. locality' \in Nat /\ window' \in [Conns -> SUBSET Nat]
  BY <1>3, <1>4, <1>6
<1>15. TypeOK'
  BY <1>3, <1>11, <1>12, <1>14 DEF IInv, TypeOK
<1>16. InForce'
  <2>1. CASE interface # "qemu"
    BY <1>3, <2>1 DEF IInv, InForce
  <2>2. CASE interface = "qemu" /\ me.port = "platform"
    <3>1. me.todo \in Seq(Quiet)
      BY <2>2 DEF IInv, InForce, Planned, me
    <3>2. s \in Quiet /\ rest \in Seq(Quiet)
      BY <1>1, <3>1 DEF s, rest
    <3>3. s # "execute" /\ misplaced' = misplaced
      BY <1>3, <3>2 DEF Quiet
    <3>4. Planned(c)'
      BY <1>10, <1>11, <2>2, <3>2 DEF Planned
    <3>5. ASSUME NEW d \in Conns \ {c} PROVE Planned(d)'
      <4>1. \/ locality' = locality /\ window'[d] = window[d]
            \/ window'[d] = IF window[d] = {} THEN {} ELSE window[d] \cup {locality'}
        BY <1>3, <1>4, <3>3
      <4> QED
        BY <1>3, <1>11, <2>2, <4>1, OthersPlan
    <3> QED
      BY <3>3, <3>4, <3>5 DEF IInv, InForce
  <2>3. CASE interface = "qemu" /\ me.port # "platform"
    <3>1. \/ me.todo \in {<<>>, <<"reply">>, <<"close">>}
          \/ me.todo = <<"execute", "reply">> /\ me.at \in window[c]
          \/ me.todo = <<"load", "execute", "reply">> /\ locality \in window[c]
      BY <2>3 DEF IInv, InForce, Planned, me
    <3>2. \/ s \in {"reply", "close"} /\ rest = <<>>
          \/ s = "execute" /\ rest = <<"reply">> /\ me.at \in window[c]
          \/ s = "load" /\ rest = <<"execute", "reply">> /\ locality \in window[c]
      <4>1. CASE me.todo = <<"reply">>
        BY <4>1 DEF s, rest
      <4>2. CASE me.todo = <<"close">>
        BY <4>2 DEF s, rest
      <4>3. CASE me.todo = <<"execute", "reply">> /\ me.at \in window[c]
        BY <4>3 DEF s, rest
      <4>4. CASE me.todo = <<"load", "execute", "reply">> /\ locality \in window[c]
        <5>1. s = "load" /\ rest = <<"execute", "reply">>
          BY <4>4 DEF s, rest
        <5> QED
          BY <4>4, <5>1
      <4> QED
        BY <1>1, <3>1, <4>1, <4>2, <4>3, <4>4
    <3>3. misplaced' = misplaced /\ locality' = locality
      BY <1>3, <3>2
    <3>4. /\ \A d \in Conns \ {c} : window'[d] = window[d]
          /\ s # "execute" => window'[c] = window[c]
      BY <1>4, <1>6, <3>2
    <3>5. s = "load" => at = locality
      BY DEF at
    <3>6. Planned(c)'
      BY <1>10, <1>11, <2>3, <3>2, <3>3, <3>4, <3>5 DEF Planned
    <3>7. ASSUME NEW d \in Conns \ {c} PROVE Planned(d)'
      BY <1>3, <1>11, <2>3, <3>3, <3>4, OthersPlan
    <3> QED
      BY <3>3, <3>6, <3>7 DEF IInv, InForce
  <2> QED
    BY <2>1, <2>2, <2>3
<1> QED
  BY <1>11, <1>13, <1>15, <1>16 DEF IInv

-----------------------------------------------------------------------------
(* The theorems.                                                           *)

\* Before anything connects.
LEMMA InitIInv == Init => IInv
<1> SUFFICES ASSUME Init PROVE IInv
  OBVIOUS
<1>1. /\ queue = [l \in Listeners |-> <<>>] /\ active = 0 /\ locality = 0
      /\ thread = [c \in Conns |-> Thread("new")] /\ window = [c \in Conns |-> {}]
      /\ misplaced = {} /\ interface \in Interfaces
  BY DEF Init
<1>2. \A l \in Listeners : loop[l].pc \in {"accept", "done"} /\ loop[l].conn = Wake
  BY DEF Init
<1>3. loop \in [Listeners -> [pc : LoopPlaces, conn : Conns \cup {Wake}]]
  BY DEF Init, LoopPlaces
<1>4. /\ Thread("new") \in Connection /\ Thread("new").todo = <<>>
      /\ Thread("new").port = "command" /\ Thread("new").pc = "new"
  BY TwoListeners DEF Thread, Connection, ThreadPlaces
<1>5. TypeOK
  BY <1>1, <1>3, <1>4 DEF TypeOK
<1>6. Queued /\ Held
  BY <1>1, <1>2 DEF Queued, Held
<1>7. Counted
  <2>1. Serving = {} /\ Reserving = {} /\ Spawning = {}
    BY <1>1, <1>2, <1>4 DEF Serving, Reserving, Spawning
  <2> QED
    BY <1>1, <2>1, FS_EmptySet, TransportsAssumption DEF Counted
<1>8. InForce
  BY <1>1, <1>4 DEF InForce, Planned
<1> QED
  BY <1>5, <1>6, <1>7, <1>8 DEF IInv

\* Every step of a loop, a thread or a client keeps the invariant.
LEMMA NextIInv == IInv /\ [Next]_vars => IInv'
<1> SUFFICES ASSUME IInv, [Next]_vars PROVE IInv'
  OBVIOUS
<1>1. ASSUME NEW l \in Listeners, LoopStep(l) PROVE IInv'
  BY <1>1, AcceptKeeps, ReserveKeeps, GiveBackKeeps, CheckKeeps, SpawnKeeps DEF LoopStep
<1>2. ASSUME NEW c \in Conns, NEW l \in Listeners, Connect(c, l) PROVE IInv'
  BY <1>2, ConnectKeeps
<1>3. ASSUME NEW c \in Conns, NEW r \in Requests, Send(c, r) PROVE IInv'
  BY <1>3, SendKeeps
<1>4. ASSUME NEW c \in Conns, ThreadStep(c) PROVE IInv'
  BY <1>4, StepKeeps, ReplyFailsKeeps, ReleaseKeeps DEF ThreadStep
<1>5. ASSUME UNCHANGED <<interface, queue, loop, active, thread, locality, window, misplaced>>
      PROVE  IInv'
  BY <1>5 DEF IInv, TypeOK, Queued, Held, Waits, Counted, Serving, Reserving, Spawning,
              InForce, Planned
<1>6. CASE Exit
  BY <1>5, <1>6 DEF Exit
<1>7. CASE UNCHANGED vars
  BY <1>5, <1>7 DEF vars
<1> QED
  BY <1>1, <1>2, <1>3, <1>4, <1>6, <1>7 DEF Next

\* The invariant holds of every behaviour, for any clients, limit and backlog.
THEOREM TransportsIInv == Spec => []IInv
<1>1. Init => IInv
  BY InitIInv
<1>2. IInv /\ [Next]_vars => IInv'
  BY NextIInv
<1> QED
  BY <1>1, <1>2, PTL DEF Spec

\* accept_loop never lets more than MAX_CONNECTIONS threads serve, however the
\* two loops and the threads that end interleave.
THEOREM TransportsServedWithinLimit == Spec => []ServedWithinLimit
<1>1. IInv => ServedWithinLimit
  BY Finite, TransportsAssumption DEF IInv, Counted, ServedWithinLimit
<1> QED
  BY <1>1, TransportsIInv, PTL

\* Every slot that fetch_add takes is held by one thread or one loop, and goes
\* back once, whatever ends the connection.
THEOREM TransportsNoSlotLost == Spec => []NoSlotLost
<1>1. IInv => NoSlotLost
  BY DEF IInv, Counted, NoSlotLost, Reserving
<1> QED
  BY <1>1, TransportsIInv, PTL

\* serve_data reads the locality after the command has come, so it runs at one
\* that was in force while it was under way.
THEOREM TransportsLocalityInForce == Spec => []LocalityInForce
<1>1. IInv => LocalityInForce
  BY DEF IInv, InForce, LocalityInForce
<1> QED
  BY <1>1, TransportsIInv, PTL

-----------------------------------------------------------------------------
(* Execution.  What every command does to the memory.                      *)

\* The codes are numbers, and none that failure mode lets through is refused in it.
LEMMA CodesAreNumbers ==
  /\ {GetRandom, StirRandom, SetCommandCodeAuditStatus, GetCommandAuditDigest, NV_DefineSpace,
      NV_DefineSpace2, NV_UndefineSpace, ReadOnlyControl, GetTestResult, Shutdown, Startup,
      Clear, SelfTest, IncrementalSelfTest, GetCapability} \subseteq Nat
  /\ {GetRandom, StirRandom, SetCommandCodeAuditStatus, GetCommandAuditDigest, NV_DefineSpace,
      NV_DefineSpace2, NV_UndefineSpace, ReadOnlyControl, Shutdown, Startup,
      Clear, SelfTest, IncrementalSelfTest} \cap AllowedInFailureMode = {}
  /\ Auditable \subseteq Nat
BY ExecutionAssumption
   DEF ExecutionAssumption, AllowedInFailureMode, GetRandom, StirRandom,
     SetCommandCodeAuditStatus, GetCommandAuditDigest, NV_DefineSpace, NV_DefineSpace2,
     NV_UndefineSpace, ReadOnlyControl, GetTestResult, Shutdown, Startup, Clear, SelfTest,
     IncrementalSelfTest, GetCapability

\* The audit is as it was.
SameLog(m) == m.digest = mem.digest /\ m.counter = mem.counter

LEMMA UndoneIs ==
  ASSUME mem \in Stores, NEW code
  PROVE  Undone(code) \in Stores /\ SameLog(Undone(code)) /\ Undone(code).nv = mem.nv
BY DEF Undone, Stores, SameLog

\* update_audit leaves the log as it was, or makes it one entry longer.
LEMMA UpdateAuditIs ==
  ASSUME NEW m \in Stores, NEW code \in Nat
  PROVE  LET m2 == UpdateAudit(code, m) IN
         /\ m2 \in Stores /\ m2.nv = m.nv
         /\ ~AuditApplies(code, m) => m2 = m
         /\ AuditApplies(code, m) =>
              /\ m2.digest = Append(m.digest, code)
              /\ m2.counter = IF m.digest = NoDigest THEN m.counter + 1 ELSE m.counter
<1>1. CASE ~AuditApplies(code, m)
  BY <1>1 DEF UpdateAudit
<1>2. CASE AuditApplies(code, m)
  <2> DEFINE c == IF m.digest = NoDigest THEN m.counter + 1 ELSE m.counter
             d == Append(m.digest, code)
             m2 == [m EXCEPT !.counter = c, !.digest = d]
  <2>1. c \in Nat /\ d \in Seq(Nat)
    BY DEF Stores
  <2>2. UpdateAudit(code, m) = m2
    BY <1>2 DEF UpdateAudit
  <2> HIDE DEF c, d
  <2>3. m2 \in Stores /\ m2.nv = m.nv /\ m2.digest = d /\ m2.counter = c
    BY <2>1 DEF Stores
  <2> HIDE DEF m2
  <2> QED
    BY <1>2, <2>2, <2>3 DEF c, d
<1> QED
  BY <1>1, <1>2

-----------------------------------------------------------------------------
(* Types.                                                                  *)

Client == [next : Nat, seen : Seq(Handles), done : BOOLEAN, stable : SUBSET Handles]
Verifier == [last : Nat \cup {None}, missed : Seq(Nat), dropped : BOOLEAN]

LEMMA TrackType ==
  ASSUME NEW m \in Stores, client = Idle \/ client \in Client
  PROVE  Track(client, m) = Idle \/ Track(client, m) \in Client
BY DEF Track, Stores, Client

LEMMA WrittenType ==
  ASSUME ExecutionTypeOK, NEW m \in Stores, NEW code, Written(code, m)
  PROVE  /\ mem' \in Stores /\ file' \in Stores /\ (client' = Idle \/ client' \in Client)
         /\ {powered', broken'} \subseteq BOOLEAN
BY TrackType DEF ExecutionTypeOK, Client, Written

LEMMA WriteFailsType ==
  ASSUME ExecutionTypeOK, NEW m \in Stores, NEW code, WriteFails(code, m),
         UNCHANGED started \/ started' = TRUE
  PROVE  ExecutionTypeOK'
BY TrackType DEF ExecutionTypeOK, Client, WriteFails, Failing

LEMMA MissedType ==
  ASSUME verifier \in Verifier, NEW code \in Nat, NEW m, NEW m2
  PROVE  Missed(code, m, m2) \in Verifier
<1> DEFINE dropped == mem.digest # NoDigest /\ m.digest = NoDigest
           before == IF dropped THEN <<>> ELSE verifier.missed
           now == IF AuditApplies(code, m) THEN Append(before, code) ELSE before
<1>1. before \in Seq(Nat) /\ dropped \in BOOLEAN
  BY DEF Verifier
<1>2. now \in Seq(Nat)
  BY <1>1
<1>3. Missed(code, m, m2) = verifier
        \/ Missed(code, m, m2) = [verifier EXCEPT !.dropped = @ \/ dropped, !.missed = now]
  BY DEF Missed
<1> HIDE DEF before, dropped, now
<1>4. verifier.dropped \/ dropped \in BOOLEAN
  BY <1>1 DEF Verifier
<1> QED
  BY <1>2, <1>3, <1>4 DEF Verifier

LEMMA AnsweredType ==
  ASSUME ExecutionTypeOK, NEW m \in Stores, NEW code \in Nat, Answered(code, m),
         UNCHANGED started \/ started' = TRUE, spoke' \in BOOLEAN
  PROVE  ExecutionTypeOK'
<1> DEFINE m2 == UpdateAudit(code, m)
<1>1. m2 \in Stores
  BY UpdateAuditIs
<1>2. CASE Written(code, m2) /\ verifier' = Missed(code, m, m2) /\ UNCHANGED <<health, deceived, trouble>>
  <2>1. verifier' \in Verifier
    BY <1>2, MissedType DEF ExecutionTypeOK, Verifier
  <2> HIDE DEF m2
  <2> QED
    BY <1>1, <1>2, <2>1, WrittenType DEF ExecutionTypeOK, Client, Verifier
<1>3. CASE WriteFails(code, m2)
  BY <1>1, <1>3, WriteFailsType
<1> QED
  BY <1>2, <1>3 DEF Answered

LEMMA PlainType ==
  ASSUME ExecutionTypeOK, NEW m \in Stores, NEW code \in Nat, Plain(code, m)
  PROVE  ExecutionTypeOK'
BY AnsweredType DEF Plain, ExecutionTypeOK

InIncreasingOrder(q, S) ==
  /\ q \in [1 .. Cardinality(S) -> S]
  /\ \A i, j \in DOMAIN q : i < j => q[i] < q[j]

\* How many are below x.
Rank(S, x) == Cardinality({y \in S : y < x})

\* A finite set of numbers can be put in increasing order: its elements have different ranks,
\* as many as there are places.
LEMMA OrderExists ==
  ASSUME NEW S \in SUBSET Nat, IsFiniteSet(S)
  PROVE  \E q : InIncreasingOrder(q, S)
<1> DEFINE c == Cardinality(S)
           f == [x \in S |-> Rank(S, x) + 1]
<1>1. c \in Nat
  BY FS_CardinalityType
<1>2. ASSUME NEW x \in S PROVE Rank(S, x) \in Nat /\ Rank(S, x) + 1 \in 1 .. c
  <2> DEFINE B == {y \in S : y < x}
  <2>1. B \in SUBSET S /\ x \notin B
    OBVIOUS
  <2>2. IsFiniteSet(B) /\ Cardinality(B) <= c /\ Cardinality(B) # c
    BY <2>1, FS_Subset
  <2>3. Cardinality(B) \in Nat
    BY <2>2, FS_CardinalityType
  <2> HIDE DEF c, B
  <2>4. Cardinality(B) + 1 \in 1 .. c
    BY <1>1, <2>2, <2>3
  <2> QED
    BY <2>3, <2>4 DEF Rank, B
<1>3. ASSUME NEW x \in S, NEW y \in S, x < y PROVE Rank(S, x) < Rank(S, y)
  <2> DEFINE A == {z \in S : z < x}
             B == {z \in S : z < y}
  <2>1. A \in SUBSET B /\ x \in B /\ x \notin A /\ B \in SUBSET S
    <3>1. x \in Nat /\ y \in Nat /\ \A z \in S : z \in Nat
      OBVIOUS
    <3>2. \A z \in S : z < x => z < y
      BY <1>3, <3>1
    <3>3. ~(x < x)
      BY <3>1
    <3> QED
      BY <1>3, <3>2, <3>3
  <2>2. IsFiniteSet(B)
    BY <2>1, FS_Subset
  <2>3. IsFiniteSet(A) /\ Cardinality(A) <= Cardinality(B) /\ Cardinality(A) # Cardinality(B)
    BY <2>1, <2>2, FS_Subset
  <2>4. Cardinality(A) \in Nat /\ Cardinality(B) \in Nat
    BY <2>2, <2>3, FS_CardinalityType
  <2> HIDE DEF A, B
  <2>5. Cardinality(A) < Cardinality(B)
    BY <2>3, <2>4
  <2> QED
    BY <2>5 DEF Rank, A, B
<1> HIDE DEF c
<1>4. f \in [S -> 1 .. c]
  BY <1>2
<1>5. f \in Injection(S, 1 .. c)
  <2>1. ASSUME NEW x \in S, NEW y \in S, f[x] = f[y] PROVE x = y
    <3>1. Rank(S, x) = Rank(S, y)
      BY <1>2, <2>1
    <3> QED
      BY <1>2, <1>3, <3>1
  <2> HIDE DEF f
  <2> QED
    BY <1>4, <2>1 DEF Injection, IsInjective
<1>6. IsFiniteSet(1 .. c) /\ Cardinality(1 .. c) = c
  BY <1>1, FS_Interval
<1>7. f \in Surjection(S, 1 .. c)
  BY <1>5, <1>6, FS_Injection DEF c
<1> DEFINE q == [i \in 1 .. c |-> CHOOSE x \in S : f[x] = i]
<1>8. ASSUME NEW i \in 1 .. c PROVE q[i] \in S /\ f[q[i]] = i
  <2> HIDE DEF f
  <2>1. \E x \in S : f[x] = i
    BY <1>7 DEF Surjection
  <2> QED
    BY <2>1
<1>9. ASSUME NEW i \in 1 .. c, NEW j \in 1 .. c, i < j PROVE q[i] < q[j]
  <2> DEFINE x == q[i]
             y == q[j]
  <2>1. x \in S /\ y \in S /\ f[x] = i /\ f[y] = j
    BY <1>8
  <2> HIDE DEF x, y, q
  <2>2. Rank(S, x) < Rank(S, y)
    BY <1>2, <1>9, <2>1
  <2>3. x \in Nat /\ y \in Nat
    BY <2>1
  <2>4. ~(y < x)
    BY <1>2, <1>3, <2>1, <2>2
  <2>5. x # y
    BY <1>2, <2>1, <2>2
  <2> QED
    BY <2>3, <2>4, <2>5 DEF x, y
<1>10. q \in [1 .. c -> S] /\ DOMAIN q = 1 .. c
  BY <1>8
<1> HIDE DEF q
<1> QED
  BY <1>9, <1>10 DEF InIncreasingOrder, c

\* What the capability holds from a property on: each handle, in increasing order.
LEMMA FromPropertyIs ==
  ASSUME mem \in Stores, NEW p \in Nat
  PROVE  LET q == FromProperty(mem, p) IN
         /\ q \in Seq(Handles)
         /\ \A i \in 1 .. Len(q) : q[i] \in mem.nv /\ q[i] >= p
         /\ \A i, j \in 1 .. Len(q) : i < j => q[i] < q[j]
         /\ \A h \in mem.nv : h >= p => \E i \in 1 .. Len(q) : q[i] = h
<1> DEFINE S == HandlesInRange(mem, p)
           c == Cardinality(S)
           q == FromProperty(mem, p)
<1>1. S \in SUBSET Nat /\ S \in SUBSET Handles /\ S \in SUBSET mem.nv /\ IsFiniteSet(S)
  <2>1. S \in SUBSET Handles /\ Handles \subseteq Nat /\ S \in SUBSET mem.nv
    BY ExecutionAssumption DEF ExecutionAssumption, Stores, HandlesInRange
  <2> QED
    BY <2>1, ExecutionAssumption, FS_Subset DEF ExecutionAssumption
<1>2. InIncreasingOrder(q, S)
  BY <1>1, OrderExists DEF FromProperty, InOrder, InIncreasingOrder
<1>3. c \in Nat
  BY <1>1, FS_CardinalityType
<1> HIDE DEF c, q
<1>4. q \in [1 .. c -> S] /\ \A i, j \in 1 .. c : i < j => q[i] < q[j]
  BY <1>2 DEF InIncreasingOrder, c
<1> HIDE DEF S
<1>5. q \in Seq(S) /\ Len(q) = c
  BY <1>3, <1>4
<1>6. q \in Seq(Handles)
  <2>1. q \in [1 .. c -> Handles]
    BY <1>1, <1>4
  <2> QED
    BY <1>3, <2>1
<1>7. q \in Injection(1 .. c, S)
  <2>1. ASSUME NEW i \in 1 .. c, NEW j \in 1 .. c, q[i] = q[j] PROVE i = j
    <3>1. q[i] \in Nat /\ q[j] \in Nat
      BY <1>1, <1>4
    <3> QED
      BY <1>3, <1>4, <2>1, <3>1
  <2> QED
    BY <1>4, <2>1 DEF Injection, IsInjective
<1>8. q \in Surjection(1 .. c, S)
  <2>1. Cardinality(1 .. c) = c
    BY <1>3, FS_Interval
  <2> QED
    BY <1>1, <1>7, <2>1, FS_Injection DEF c
<1>9. \A h \in S : \E i \in 1 .. c : q[i] = h
  BY <1>8 DEF Surjection
<1>10. \A i \in 1 .. c : q[i] \in S
  BY <1>4
<1>11. \A h : h \in S <=> h \in mem.nv /\ h >= p
  BY DEF S, HandlesInRange
<1> QED
  BY <1>4, <1>5, <1>6, <1>9, <1>10, <1>11 DEF q

LEMMA ExecutionInitType == ExecutionInit => ExecutionTypeOK
<1>1. Manufactured \in Stores
  BY CodesAreNumbers DEF Manufactured, Stores, NoDigest
<1>2. NoReport \in Verifier
  <2>1. <<>> \in Seq(Nat)
    OBVIOUS
  <2> QED
    BY <2>1 DEF NoReport, Verifier
<1> QED
  <2> SUFFICES ASSUME ExecutionInit PROVE ExecutionTypeOK
    OBVIOUS
  <2>1. mem \in Stores /\ file \in Stores /\ verifier \in Verifier /\ client = Idle
    BY <1>1, <1>2 DEF ExecutionInit
  <2>2. /\ {started, powered, broken, deceived, trouble, spoke} \subseteq BOOLEAN
        /\ health \in [failed : BOOLEAN, done : BOOLEAN]
    BY DEF ExecutionInit
  <2> QED
    BY <2>1, <2>2 DEF ExecutionTypeOK, Verifier

\* The changes that handlers make of their own.
LEMMA HandlersType ==
  ASSUME ExecutionTypeOK, NEW m \in Stores
  PROVE  /\ \A set \in SUBSET Auditable, clear \in SUBSET Auditable :
              [m EXCEPT !.codes = (@ \cup (set \ {Shutdown})) \ (clear \ {SetCommandCodeAuditStatus})]
                \in Stores
         /\ [m EXCEPT !.digest = NoDigest] \in Stores
         /\ \A h \in Handles : /\ [m EXCEPT !.nv = @ \cup {h}] \in Stores
                               /\ [m EXCEPT !.nv = @ \ {h}] \in Stores
         /\ [m EXCEPT !.nv = {}, !.counter = 0] \in Stores
         /\ \A on \in BOOLEAN : [m EXCEPT !.readOnly = on] \in Stores
         /\ \A type \in {"clear", "state"} : [m EXCEPT !.shutdown = type] \in Stores
<1>1. \A set \in SUBSET Auditable, clear \in SUBSET Auditable :
        (m.codes \cup (set \ {Shutdown})) \ (clear \ {SetCommandCodeAuditStatus}) \in SUBSET Nat
  BY CodesAreNumbers DEF Stores
<1>2. NoDigest \in Seq(Nat) /\ {} \in SUBSET Handles
  BY DEF NoDigest
<1>3. \A h \in Handles : m.nv \cup {h} \in SUBSET Handles /\ m.nv \ {h} \in SUBSET Handles
  BY DEF Stores
<1> QED
  BY <1>1, <1>2, <1>3 DEF Stores

\* What TPM2_Startup leaves.
AfterStartup(type) ==
  [mem EXCEPT !.shutdown = "none", !.readOnly = @ /\ type = "state",
              !.digest = IF mem.shutdown = "state" THEN @ ELSE NoDigest]

LEMMA AfterStartupIs ==
  ASSUME mem \in Stores, NEW type \in {"clear", "state"}
  PROVE  /\ AfterStartup(type) \in Stores /\ AfterStartup(type).nv = mem.nv
         /\ AfterStartup(type).counter = mem.counter
         /\ AfterStartup(type).digest \in {mem.digest, NoDigest}
<1> DEFINE d == IF mem.shutdown = "state" THEN mem.digest ELSE NoDigest
           r == mem.readOnly /\ type = "state"
<1>1. d \in Seq(Nat) /\ d \in {mem.digest, NoDigest} /\ r \in BOOLEAN
  BY DEF Stores, NoDigest
<1>2. AfterStartup(type) = [mem EXCEPT !.shutdown = "none", !.readOnly = r, !.digest = d]
  BY DEF AfterStartup
<1> HIDE DEF d, r
<1> QED
  BY <1>1, <1>2 DEF Stores

\* take.
LEMMA ItemsAre ==
  ASSUME NEW all \in Seq(Handles), NEW n \in Nat \ {0}
  PROVE  /\ Items(all, n) \in Seq(Handles)
         /\ Len(Items(all, n)) = IF Len(all) < n THEN Len(all) ELSE n
         /\ \A i \in 1 .. Len(Items(all, n)) : Items(all, n)[i] = all[i]
<1> DEFINE k == IF Len(all) < n THEN Len(all) ELSE n
<1>1. k \in Nat /\ k <= Len(all)
  OBVIOUS
<1>2. Items(all, n) = SubSeq(all, 1, k)
  BY DEF Items
<1> HIDE DEF k
<1>3. /\ SubSeq(all, 1, k) \in Seq(Handles) /\ Len(SubSeq(all, 1, k)) = k
      /\ \A i \in 1 .. k : SubSeq(all, 1, k)[i] = all[i]
  BY <1>1
<1> QED
  BY <1>2, <1>3 DEF k

\* Where the next page begins.
Onward(next, items) == IF items = <<>> THEN next ELSE Last(items) + 1

LEMMA OnwardType ==
  ASSUME NEW next \in Nat, NEW items \in Seq(Handles)
  PROVE  Onward(next, items) \in Nat
<1>1. Handles \subseteq Nat
  BY ExecutionAssumption DEF ExecutionAssumption
<1>2. CASE items # <<>>
  <2>1. Len(items) \in 1 .. Len(items)
    BY <1>2
  <2>2. items[Len(items)] \in Handles
    BY <2>1
  <2>3. Last(items) \in Nat
    BY <1>1, <2>2 DEF Last
  <2> QED
    BY <1>2, <2>3 DEF Onward
<1> QED
  BY <1>2 DEF Onward

LEMMA PageType ==
  ASSUME ExecutionTypeOK, NEW n \in Pages, Page(n)
  PROVE  ExecutionTypeOK'
<1> DEFINE all == FromProperty(mem, client.next)
           items == Items(all, n)
<1>1. client \in Client /\ mem \in Stores /\ file \in Stores
  BY DEF ExecutionTypeOK, Client, Page
<1>2. client.next \in Nat /\ client.seen \in Seq(Handles)
  BY <1>1 DEF Client
<1>3. all \in Seq(Handles) /\ n \in Nat \ {0}
  BY <1>1, <1>2, FromPropertyIs, ExecutionAssumption DEF ExecutionAssumption
<1>4. items \in Seq(Handles)
  BY <1>3, ItemsAre
<1>5. client' = [client EXCEPT !.seen = @ \o items, !.next = Onward(client.next, items),
                               !.done = ~More(all, n)]
  BY <1>1 DEF Page, Onward, Client
<1>6. mem' = Undone(GetCapability)
  BY DEF Page
<1> HIDE DEF all, items
<1>7. client' \in Client
  <2>1. client.seen \o items \in Seq(Handles)
    BY <1>2, <1>4
  <2>2. Onward(client.next, items) \in Nat
    BY <1>2, <1>4, OnwardType
  <2>3. (~More(all, n)) \in BOOLEAN
    BY DEF More
  <2> QED
    BY <1>1, <1>5, <2>1, <2>2, <2>3 DEF Client
<1>8. mem' \in Stores
  BY <1>1, <1>6, UndoneIs
<1>9. UNCHANGED <<file, started, powered, health, broken, verifier, deceived, trouble, spoke>>
  BY DEF Page, history
<1> QED
  BY <1>7, <1>8, <1>9 DEF ExecutionTypeOK, Client

LEMMA ExecutionNextType ==
  ASSUME ExecutionTypeOK, [ExecutionNext]_executionVars
  PROVE  ExecutionTypeOK'
<1>1. mem \in Stores /\ file \in Stores /\ health \in [failed : BOOLEAN, done : BOOLEAN]
  BY DEF ExecutionTypeOK
<1>2. \A code : Undone(code) \in Stores
  BY <1>1, UndoneIs
<1>3. ASSUME NEW code \in Commands, Refused(code) PROVE ExecutionTypeOK'
  <2> DEFINE m == IF Admitted(code) THEN Undone(code) ELSE mem
  <2>1. m \in Stores /\ (Written(code, m) \/ WriteFails(code, m)) /\ UNCHANGED started
    BY <1>1, <1>2, <1>3 DEF Refused
  <2>2. Written(code, m) => UNCHANGED <<health, history>>
    BY <1>3 DEF Refused, WriteFails, Written
  <2> HIDE DEF m
  <2>3. CASE Written(code, m)
    BY <2>1, <2>2, <2>3, WrittenType DEF ExecutionTypeOK, Client, history
  <2> QED
    BY <2>1, <2>3, WriteFailsType
<1>4. ASSUME NEW code, CommandFails(code) PROVE ExecutionTypeOK'
  <2>1. Written(code, Undone(code)) /\ UNCHANGED <<started, verifier, deceived, spoke>>
          /\ health' = Failing /\ trouble' = TRUE
    BY <1>4 DEF CommandFails
  <2> QED
    BY <1>2, <2>1, WrittenType DEF ExecutionTypeOK, Client, Failing
<1>5. CASE GetRandomCommand
  <2>1. Answered(GetRandom, Undone(GetRandom)) /\ UNCHANGED started /\ spoke' \in BOOLEAN
    BY <1>5 DEF GetRandomCommand, Speaks, ExecutionTypeOK
  <2> QED
    BY <1>2, <2>1, AnsweredType, CodesAreNumbers
<1>6. ASSUME NEW set \in SUBSET Auditable, NEW clear \in SUBSET Auditable,
             SetAuditStatus(set, clear)
      PROVE  ExecutionTypeOK'
  BY <1>2, <1>6, HandlersType, PlainType, CodesAreNumbers DEF SetAuditStatus
<1>7. CASE SetAuditAlgorithm
  <2> DEFINE m == [Undone(SetCommandCodeAuditStatus) EXCEPT !.digest = NoDigest]
  <2>1. m \in Stores
    BY <1>2, HandlersType
  <2>2. CASE WriteFails(SetCommandCodeAuditStatus, m)
    BY <1>7, <2>1, <2>2, WriteFailsType DEF SetAuditAlgorithm
  <2>3. CASE Written(SetCommandCodeAuditStatus, m) /\ ~WriteFails(SetCommandCodeAuditStatus, m)
    <3>1. UNCHANGED <<health, deceived, trouble, started, spoke>>
      BY <1>7, <2>3 DEF SetAuditAlgorithm
    <3>2. verifier' \in Verifier
      <4>1. \/ verifier' = verifier
            \/ verifier' = [verifier EXCEPT !.dropped = TRUE, !.missed = <<>>]
        BY <1>7, <2>3 DEF SetAuditAlgorithm
      <4>2. <<>> \in Seq(Nat) /\ verifier \in Verifier
        BY DEF ExecutionTypeOK, Verifier
      <4> QED
        BY <4>1, <4>2 DEF Verifier
    <3> HIDE DEF m
    <3> QED
      BY <2>1, <2>3, <3>1, <3>2, WrittenType DEF ExecutionTypeOK, Client, Verifier
  <2> QED
    BY <1>7, <2>2, <2>3 DEF SetAuditAlgorithm
<1>8. ASSUME NEW signed \in BOOLEAN, AuditDigest(signed) PROVE ExecutionTypeOK'
  <2> DEFINE code == GetCommandAuditDigest
             m == EndOfLog(Undone(code), signed)
             m2 == UpdateAudit(code, m)
  <2>1. m \in Stores /\ code \in Nat
    BY <1>2, HandlersType, CodesAreNumbers DEF EndOfLog
  <2>2. m2 \in Stores
    BY <2>1, UpdateAuditIs
  <2>3. CASE WriteFails(code, m2)
    BY <1>8, <2>2, <2>3, WriteFailsType DEF AuditDigest
  <2>4. CASE Written(code, m2) /\ ~WriteFails(code, m2)
    <3>1. UNCHANGED <<health, trouble, started>>
      BY <1>8, <2>4 DEF AuditDigest
    <3>2. CASE ~signed
      <4>1. verifier' = Missed(code, mem, m2) /\ UNCHANGED <<deceived, spoke>>
        BY <1>8, <2>4, <3>2 DEF AuditDigest
      <4>2. verifier' \in Verifier
        BY <2>1, <4>1, MissedType DEF ExecutionTypeOK, Verifier
      <4> HIDE DEF m2, code
      <4> QED
        BY <2>2, <2>4, <3>1, <4>1, <4>2, WrittenType DEF ExecutionTypeOK, Client, Verifier
    <3>3. CASE signed
      <4>1. /\ Speaks
            /\ deceived' = (deceived \/ (verifier.last # None
                               /\ ~Chains(mem.counter, mem.digest, verifier)))
            /\ verifier' = [last |-> mem.counter, dropped |-> FALSE,
                            missed |-> IF AuditApplies(code, m) THEN <<code>> ELSE <<>>]
        BY <1>8, <2>4, <3>3 DEF AuditDigest
      <4>2. spoke' \in BOOLEAN /\ deceived' \in BOOLEAN
        BY <4>1 DEF Speaks, ExecutionTypeOK
      <4>3. verifier' \in Verifier
        <5>1. mem.counter \in Nat /\ <<code>> \in Seq(Nat) /\ <<>> \in Seq(Nat)
          BY <1>1, <2>1 DEF Stores
        <5> HIDE DEF code, m
        <5> QED
          BY <4>1, <5>1 DEF Verifier
      <4> HIDE DEF m2, code
      <4> QED
        BY <2>2, <2>4, <3>1, <4>2, <4>3, WrittenType DEF ExecutionTypeOK, Client, Verifier
    <3> QED
      BY <3>2, <3>3
  <2> QED
    BY <1>8, <2>3, <2>4 DEF AuditDigest
<1>9. ASSUME NEW h \in Handles, NEW code \in {NV_DefineSpace, NV_DefineSpace2},
             DefineSpace(code, h)
      PROVE  ExecutionTypeOK'
  <2>1. code \in Nat
    BY CodesAreNumbers
  <2> QED
    BY <1>2, <1>9, <2>1, HandlersType, PlainType DEF DefineSpace
<1>10. ASSUME NEW h \in Handles, UndefineSpace(h) PROVE ExecutionTypeOK'
  BY <1>2, <1>10, HandlersType, PlainType, CodesAreNumbers DEF UndefineSpace
<1>11. CASE ClearCommand
  <2> DEFINE m == [Undone(Clear) EXCEPT !.nv = {}, !.counter = 0]
  <2>1. m \in Stores
    BY <1>2, HandlersType
  <2>2. CASE WriteFails(Clear, m)
    BY <1>11, <2>1, <2>2, WriteFailsType DEF ClearCommand
  <2>3. CASE Written(Clear, m) /\ ~WriteFails(Clear, m)
    <3>1. verifier' = NoReport /\ UNCHANGED <<health, deceived, trouble, spoke, started>>
      BY <1>11, <2>3 DEF ClearCommand
    <3>2. verifier' \in Verifier
      BY <3>1 DEF NoReport, Verifier, None
    <3> HIDE DEF m
    <3> QED
      BY <2>1, <2>3, <3>1, <3>2, WrittenType DEF ExecutionTypeOK, Client, Verifier
  <2> QED
    BY <1>11, <2>2, <2>3 DEF ClearCommand
<1>12. ASSUME NEW on \in BOOLEAN, ReadOnly(on) PROVE ExecutionTypeOK'
  BY <1>2, <1>12, HandlersType, PlainType, CodesAreNumbers DEF ReadOnly
<1>13. CASE Stir
  BY <1>2, <1>13, PlainType, CodesAreNumbers DEF Stir
<1>14. CASE TestResult
  BY <1>2, <1>14, PlainType, CodesAreNumbers DEF TestResult
<1>15. ASSUME NEW type \in {"clear", "state"}, ShutdownCommand(type) PROVE ExecutionTypeOK'
  BY <1>1, <1>15, HandlersType, PlainType, CodesAreNumbers DEF ShutdownCommand
<1>16. ASSUME NEW type \in {"clear", "state"}, StartupCommand(type) PROVE ExecutionTypeOK'
  <2>1. Answered(Startup, AfterStartup(type)) /\ started' = TRUE /\ UNCHANGED spoke
    BY <1>16 DEF StartupCommand, AfterStartup
  <2> QED
    BY <1>1, <2>1, AfterStartupIs, AnsweredType, CodesAreNumbers DEF ExecutionTypeOK
<1>17. ASSUME NEW code, NEW full \in BOOLEAN, SelfTests(code, full) PROVE ExecutionTypeOK'
  <2>1. CASE WriteFails(code, Undone(code))
    BY <1>2, <1>17, <2>1, WriteFailsType DEF SelfTests
  <2>2. CASE Written(code, Undone(code)) /\ ~WriteFails(code, Undone(code))
    <3>1. UNCHANGED <<verifier, deceived, spoke, started>>
      BY <1>17, <2>2 DEF SelfTests
    <3>2. health' \in [failed : BOOLEAN, done : BOOLEAN] /\ trouble' \in BOOLEAN
      <4>1. \/ health' \in {health, Passed(health)} /\ UNCHANGED trouble
            \/ health' = Failing /\ trouble' = TRUE
        BY <1>17, <2>2 DEF SelfTests
      <4> QED
        <5>1. Passed(health) \in [failed : BOOLEAN, done : BOOLEAN]
          BY <1>1 DEF Passed
        <5>2. Failing \in [failed : BOOLEAN, done : BOOLEAN]
          BY DEF Failing
        <5>3. trouble \in BOOLEAN
          BY DEF ExecutionTypeOK
        <5> QED
          BY <1>1, <4>1, <5>1, <5>2, <5>3
    <3> QED
      BY <1>2, <2>2, <3>1, <3>2, WrittenType DEF ExecutionTypeOK, Client
  <2> QED
    BY <1>17, <2>1, <2>2 DEF SelfTests
<1>18. CASE BeginPages
  <2>1. client' \in Client
    BY <1>1, <1>18 DEF BeginPages, Client, Stores
  <2> QED
    BY <1>18, <2>1 DEF BeginPages, ExecutionTypeOK, Client, tpm, history
<1>19. ASSUME NEW n \in Pages, Page(n) PROVE ExecutionTypeOK'
  BY <1>19, PageType
<1>20. CASE EndPages
  BY <1>20 DEF EndPages, ExecutionTypeOK, tpm, history
<1>21. CASE PowerOn
  <2>1. mem' \in Stores /\ client' = Track(client, mem') /\ powered' = TRUE /\ started' = FALSE
          /\ UNCHANGED <<file, verifier, deceived, spoke>>
    BY <1>1, <1>21 DEF PowerOn
  <2>2. /\ {broken', trouble'} \subseteq BOOLEAN
        /\ health' \in [failed : BOOLEAN, done : BOOLEAN]
    BY <1>21 DEF PowerOn, Outcomes, AfterInit, ExecutionTypeOK
  <2> QED
    BY <2>1, <2>2, TrackType DEF ExecutionTypeOK, Client
<1>22. CASE PowerOff
  BY <1>1, <1>22 DEF PowerOff, ExecutionTypeOK, history
<1>23. CASE Restart
  <2>1. client' = Idle \/ client' \in Client
    BY <1>1, <1>23, TrackType DEF Restart, ExecutionTypeOK, Client
  <2> QED
    BY <1>1, <1>23, <2>1 DEF Restart, ExecutionTypeOK, Client, history
<1>24. CASE UNCHANGED executionVars
  BY <1>24 DEF executionVars, tpm, history, ExecutionTypeOK
<1> QED
  BY <1>3, <1>4, <1>5, <1>6, <1>7, <1>8, <1>9, <1>10, <1>11, <1>12, <1>13, <1>14, <1>15, <1>16,
     <1>17, <1>18, <1>19, <1>20, <1>21, <1>22, <1>23, <1>24 DEF ExecutionNext

-----------------------------------------------------------------------------
(* The invariant.                                                          *)

\* While power is on, trouble means failure mode, and so does a write that failed.
Silent ==
  /\ powered /\ (trouble \/ broken) => health.failed
  /\ ~spoke

\* Unless a write has failed the file has the log that the memory has.
Recorded == ~broken => SameLog(file)

\* A verifier v of the reports on the log of m: nothing is lost without the counter going on.
Follows(m, v) ==
  IF v.dropped THEN m.counter > v.last + (IF m.digest = NoDigest THEN 0 ELSE 1)
  ELSE m.digest = v.missed /\ m.counter = v.last + (IF v.missed = <<>> THEN 0 ELSE 1)

Linked == /\ verifier.last # None => Follows(file, verifier)
          /\ ~deceived

\* The client has seen, in order, every Index before the place it goes on from.
Increasing(q) == \A i, j \in 1 .. Len(q) : i < j => q[i] < q[j]
Seen(q, h) == \E i \in 1 .. Len(q) : q[i] = h

Paging ==
  client # Idle =>
    /\ client.stable \subseteq mem.nv
    /\ Increasing(client.seen)
    /\ \A i \in 1 .. Len(client.seen) : client.seen[i] < client.next
    /\ \A h \in client.stable : h < client.next \/ client.done => Seen(client.seen, h)

ExecutionIInv == ExecutionTypeOK /\ Silent /\ Recorded /\ Linked /\ Paging

LEMMA ExecutionInitHolds == ExecutionInit => ExecutionIInv
<1> SUFFICES ASSUME ExecutionInit PROVE ExecutionIInv
  OBVIOUS
<1>1. ExecutionTypeOK
  BY ExecutionInitType
<1>2. Silent /\ Recorded /\ Linked
  BY DEF ExecutionInit, Silent, Recorded, SameLog, Linked, NoReport
<1>3. Paging
  BY DEF ExecutionInit, Paging
<1> QED
  BY <1>1, <1>2, <1>3 DEF ExecutionIInv

\* A command that failure mode does not let through finds the TPM sound.
LEMMA SoundWhenPermitted ==
  ASSUME Silent, NEW code, Permitted(code), code \notin AllowedInFailureMode
  PROVE  powered /\ ~broken /\ ~trouble /\ ~health.failed
BY DEF Silent, Permitted, Admitted

LEMMA FailedWriteKeeps ==
  ASSUME Linked, Silent, NEW code, NEW m, WriteFails(code, m)
  PROVE  Silent' /\ Recorded' /\ Linked' /\ client' = Track(client, mem')
BY DEF Linked, Silent, Recorded, Follows, WriteFails, Failing

\* What is not written has not moved the log.
LEMMA WrittenLog ==
  ASSUME ~broken, Recorded, NEW code, NEW m, Written(code, m)
  PROVE  Recorded' /\ mem' = m /\ client' = Track(client, mem')
BY DEF Recorded, SameLog, Written, WritesNv

\* The log is where it was, for the verifier as well.
LEMMA SameLogKeeps ==
  ASSUME Linked, Recorded, NEW code, NEW m, SameLog(m), Written(code, m),
         broken => ~Table[code].nv, UNCHANGED <<verifier, deceived>>
  PROVE  Recorded' /\ Linked' /\ client' = Track(client, mem')
<1>1. CASE ~broken
  <2>1. Recorded' /\ mem' = m /\ client' = Track(client, mem') /\ ~broken'
    BY <1>1, WrittenLog DEF Written
  <2>2. file'.digest = file.digest /\ file'.counter = file.counter
    BY <1>1, <2>1 DEF Recorded, SameLog
  <2> QED
    BY <2>1, <2>2 DEF Linked, Follows
<1>2. CASE broken
  <2>1. file' = file /\ broken'
    BY <1>2 DEF Written, WritesNv, SameLog
  <2> QED
    BY <2>1 DEF Linked, Follows, Recorded, Written
<1> QED
  BY <1>1, <1>2

\* A verifier follows the log over one more command.
LEMMA FollowsOn ==
  ASSUME mem \in Stores, verifier \in Verifier, verifier.last # None, Follows(mem, verifier),
         NEW m \in Stores, NEW code \in Nat, NEW m2, m2 = UpdateAudit(code, m),
         m.counter = mem.counter, m.digest \in {mem.digest, NoDigest}
  PROVE  Follows(m2, Missed(code, m, m2)) /\ Missed(code, m, m2).last = verifier.last
<1> DEFINE dropped == mem.digest # NoDigest /\ m.digest = NoDigest
           before == IF dropped THEN <<>> ELSE verifier.missed
           now == IF AuditApplies(code, m) THEN Append(before, code) ELSE before
           v == Missed(code, m, m2)
<1>1. verifier.last \in Nat /\ verifier.missed \in Seq(Nat) /\ verifier.dropped \in BOOLEAN
  BY DEF Verifier
<1>2. mem.counter \in Nat /\ mem.digest \in Seq(Nat) /\ m.digest \in Seq(Nat)
  BY DEF Stores
<1>3. v.last = verifier.last /\ v.missed = now /\ (v.dropped <=> verifier.dropped \/ dropped)
  BY DEF Missed, Verifier
<1>4. /\ ~AuditApplies(code, m) => m2 = m
      /\ AuditApplies(code, m) =>
           /\ m2.digest = Append(m.digest, code)
           /\ m2.counter = IF m.digest = NoDigest THEN m.counter + 1 ELSE m.counter
  BY UpdateAuditIs
<1>5. before \in Seq(Nat)
  BY <1>1
<1>6. Append(before, code) # <<>> /\ Append(m.digest, code) # NoDigest
  <2>1. ASSUME NEW q \in Seq(Nat) PROVE Append(q, code) # <<>>
    <3>1. Len(Append(q, code)) = Len(q) + 1 /\ Len(q) \in Nat
      OBVIOUS
    <3> QED
      BY <3>1
  <2> QED
    BY <1>2, <1>5, <2>1 DEF NoDigest
<1>7. CASE v.dropped
  <2>1. mem.counter > verifier.last + (IF m.digest = NoDigest THEN 0 ELSE 1)
    <3>1. CASE verifier.dropped
      BY <1>1, <1>2, <3>1 DEF Follows
    <3>2. CASE ~verifier.dropped
      BY <1>1, <1>2, <1>3, <1>7, <3>2 DEF Follows, NoDigest
    <3> QED
      BY <3>1, <3>2
  <2> QED
    BY <1>1, <1>2, <1>3, <1>4, <1>6, <1>7, <2>1 DEF Follows
<1>8. CASE ~v.dropped
  <2>1. /\ ~dropped /\ m.digest = verifier.missed /\ before = m.digest
        /\ m.counter = verifier.last + (IF verifier.missed = <<>> THEN 0 ELSE 1)
    BY <1>1, <1>2, <1>3, <1>8 DEF Follows
  <2> HIDE DEF before, dropped
  <2>2. CASE AuditApplies(code, m)
    BY <1>1, <1>2, <1>3, <1>4, <1>6, <1>8, <2>1, <2>2 DEF Follows, NoDigest
  <2>3. CASE ~AuditApplies(code, m)
    BY <1>1, <1>2, <1>3, <1>4, <1>8, <2>1, <2>3 DEF Follows
  <2> QED
    BY <2>2, <2>3
<1> QED
  BY <1>3, <1>7, <1>8

LEMMA AnsweredKeeps ==
  ASSUME ExecutionTypeOK, Silent, Recorded, Linked,
         NEW m \in Stores, NEW code \in Nat, Permitted(code), Answered(code, m),
         m.counter = mem.counter, m.digest \in {mem.digest, NoDigest},
         code \in AllowedInFailureMode => SameLog(m), UNCHANGED spoke
  PROVE  Silent' /\ Recorded' /\ Linked' /\ client' = Track(client, mem')
<1> DEFINE m2 == UpdateAudit(code, m)
<1>1. CASE WriteFails(code, m2)
  BY <1>1, FailedWriteKeeps
<1>2. CASE Written(code, m2) /\ verifier' = Missed(code, m, m2) /\ UNCHANGED <<health, deceived, trouble>>
  <2>1. Silent'
    BY <1>2 DEF Silent, Written
  <2>2. mem \in Stores /\ verifier \in Verifier
    BY DEF ExecutionTypeOK, Verifier
  <2>3. CASE broken
    <3>1. code \in AllowedInFailureMode /\ health.failed /\ ~Table[code].nv
      BY <2>3, SoundWhenPermitted DEF Silent, Permitted, Admitted
    <3>2. ~AuditApplies(code, m) /\ m2 = m /\ SameLog(m)
      BY <3>1, UpdateAuditIs DEF AuditApplies
    <3>3. verifier' = verifier
      BY <1>2, <2>2, <3>2 DEF Missed, SameLog, Verifier
    <3> QED
      BY <1>2, <2>1, <3>1, <3>2, <3>3, SameLogKeeps
  <2>4. CASE ~broken
    <3>1. Recorded' /\ mem' = m2 /\ client' = Track(client, mem') /\ ~broken'
      BY <1>2, <2>4, WrittenLog DEF Written
    <3>2. SameLog(file)
      BY <2>4 DEF Recorded
    <3>3. SameLog(file)'
      BY <3>1 DEF Recorded
    <3> HIDE DEF m2
    <3>4. CASE verifier.last = None
      <4>1. verifier' = verifier
        BY <1>2, <3>4 DEF Missed
      <4> QED
        BY <1>2, <2>1, <3>1, <3>4, <4>1 DEF Linked
    <3>5. CASE verifier.last # None
      <4>1. Follows(mem, verifier)
        BY <3>2, <3>5 DEF Linked, Follows, SameLog
      <4>2. Follows(m2, Missed(code, m, m2))
        BY <2>2, <3>5, <4>1, FollowsOn DEF m2
      <4>3. Follows(file, verifier)'
        BY <1>2, <3>1, <3>3, <4>2 DEF Follows, SameLog
      <4> QED
        BY <1>2, <2>1, <3>1, <4>3 DEF Linked
    <3> QED
      BY <3>4, <3>5
  <2> QED
    BY <2>3, <2>4
<1> QED
  BY <1>1, <1>2 DEF Answered

LEMMA PlainKeeps ==
  ASSUME ExecutionTypeOK, Silent, Recorded, Linked,
         NEW m \in Stores, NEW code \in Nat, Plain(code, m), SameLog(m)
  PROVE  Silent' /\ Recorded' /\ Linked' /\ client' = Track(client, mem')
BY AnsweredKeeps DEF Plain, SameLog

\* A signed report ends the log, and chains to the report before it.
LEMMA SignedReportKeeps ==
  ASSUME ExecutionTypeOK, Silent, Recorded, Linked, AuditDigest(TRUE)
  PROVE  Silent' /\ Recorded' /\ Linked' /\ client' = Track(client, mem')
<1> DEFINE code == GetCommandAuditDigest
           m == EndOfLog(Undone(code), TRUE)
           m2 == UpdateAudit(code, m)
<1>1. mem \in Stores /\ verifier \in Verifier /\ code \in Nat
  BY CodesAreNumbers DEF ExecutionTypeOK, Verifier
<1>2. m \in Stores /\ m.digest = <<>> /\ m.counter = mem.counter
  <2>1. Undone(code) \in Stores /\ SameLog(Undone(code))
    BY <1>1, UndoneIs
  <2>2. m = [Undone(code) EXCEPT !.digest = NoDigest]
    BY DEF EndOfLog
  <2>3. <<>> \in Seq(Nat)
    OBVIOUS
  <2> DEFINE u == Undone(code)
  <2> HIDE DEF u
  <2>4. LET w == [u EXCEPT !.digest = <<>>] IN
        u \in Stores /\ SameLog(u) => w \in Stores /\ w.digest = <<>> /\ w.counter = mem.counter
    BY <2>3 DEF Stores, SameLog
  <2> QED
    BY <2>1, <2>2, <2>4 DEF u, NoDigest
<1>3. powered /\ ~broken /\ ~trouble /\ ~health.failed
  <2>1. Permitted(code) /\ code \notin AllowedInFailureMode
    BY CodesAreNumbers DEF AuditDigest
  <2> QED
    BY <2>1, SoundWhenPermitted
<1>4. CASE WriteFails(code, m2)
  BY <1>4, FailedWriteKeeps
<1>5. CASE Written(code, m2) /\ ~WriteFails(code, m2)
  <2>1. /\ UNCHANGED <<health, trouble>> /\ spoke' = (spoke \/ trouble)
        /\ deceived' = (deceived \/ (verifier.last # None
                           /\ ~Chains(mem.counter, mem.digest, verifier)))
        /\ verifier' = [last |-> mem.counter, dropped |-> FALSE,
                        missed |-> IF AuditApplies(code, m) THEN <<code>> ELSE <<>>]
    BY <1>5 DEF AuditDigest, Speaks
  <2>2. Silent'
    BY <1>3, <1>5, <2>1 DEF Silent, Written
  <2>3. Recorded' /\ mem' = m2 /\ client' = Track(client, mem') /\ ~broken'
    BY <1>3, <1>5, WrittenLog DEF Written
  <2>4. verifier.last # None => Chains(mem.counter, mem.digest, verifier)
    <3> SUFFICES ASSUME verifier.last # None PROVE Chains(mem.counter, mem.digest, verifier)
      OBVIOUS
    <3>1. Follows(mem, verifier)
      BY <1>3 DEF Recorded, SameLog, Linked, Follows
    <3>2. verifier.last \in Nat /\ verifier.dropped \in BOOLEAN /\ mem.counter \in Nat
      BY <1>1 DEF Verifier, Stores
    <3>3. CASE verifier.dropped
      BY <3>1, <3>2, <3>3 DEF Follows, Chains
    <3>4. CASE ~verifier.dropped
      BY <3>1, <3>2, <3>4 DEF Follows, Chains, NoDigest
    <3> QED
      BY <3>3, <3>4
  <2>5. ~deceived'
    BY <2>1, <2>4 DEF Linked
  <2>6. /\ ~AuditApplies(code, m) => m2 = m
        /\ AuditApplies(code, m) => m2.digest = <<code>> /\ m2.counter = mem.counter + 1
    <3>1. Append(<<>>, code) = <<code>>
      BY <1>1
    <3> HIDE DEF m, code
    <3> QED
      BY <1>1, <1>2, <3>1, UpdateAuditIs DEF NoDigest
  <2> HIDE DEF m2, m, code
  <2>7. Follows(m2, verifier')
    <3>1. <<code>> # <<>> /\ mem.counter \in Nat
      BY <1>1 DEF Stores
    <3>2. verifier'.last = mem.counter /\ verifier'.dropped = FALSE
            /\ verifier'.missed = IF AuditApplies(code, m) THEN <<code>> ELSE <<>>
      BY <2>1
    <3>3. CASE AuditApplies(code, m)
      BY <2>6, <3>1, <3>2, <3>3 DEF Follows
    <3>4. CASE ~AuditApplies(code, m)
      BY <1>2, <2>6, <3>1, <3>2, <3>4 DEF Follows
    <3> QED
      BY <3>3, <3>4
  <2>8. file'.digest = m2.digest /\ file'.counter = m2.counter
    BY <2>3 DEF Recorded, SameLog
  <2>9. Follows(file, verifier)'
    BY <2>7, <2>8 DEF Follows
  <2> QED
    BY <2>2, <2>3, <2>5, <2>9 DEF Linked
<1> QED
  BY <1>4, <1>5 DEF AuditDigest

LEMMA UnsignedReportKeeps ==
  ASSUME ExecutionTypeOK, Silent, Recorded, Linked, AuditDigest(FALSE)
  PROVE  Silent' /\ Recorded' /\ Linked' /\ client' = Track(client, mem')
<1> DEFINE code == GetCommandAuditDigest
           m == Undone(code)
           m2 == UpdateAudit(code, m)
<1>1. m \in Stores /\ SameLog(m) /\ code \in Nat
  BY UndoneIs, CodesAreNumbers DEF ExecutionTypeOK
<1>2. EndOfLog(m, FALSE) = m
  BY DEF EndOfLog
<1>3. Permitted(code) /\ code \notin AllowedInFailureMode
  BY CodesAreNumbers DEF AuditDigest
<1>4. CASE WriteFails(code, m2)
  BY <1>4, FailedWriteKeeps
<1>5. CASE Written(code, m2) /\ ~WriteFails(code, m2)
  <2>1. /\ UNCHANGED <<health, trouble, deceived, spoke>>
        /\ verifier' = Missed(code, mem, m2) /\ Bounded(m2)
    BY <1>2, <1>5 DEF AuditDigest
  <2>2. Missed(code, mem, m2) = Missed(code, m, m2)
    <3>1. AuditApplies(code, mem) = AuditApplies(code, m)
      BY DEF AuditApplies, Undone
    <3> QED
      BY <1>1, <3>1 DEF Missed, SameLog
  <2>3. Answered(code, m)
    BY <1>5, <2>1, <2>2 DEF Answered
  <2> HIDE DEF m, code
  <2> QED
    BY <1>1, <1>3, <2>1, <2>3, AnsweredKeeps DEF SameLog
<1> QED
  BY <1>2, <1>4, <1>5 DEF AuditDigest

\* A change of algorithm drops the log, and the counter goes on from it.
LEMMA AlgorithmKeeps ==
  ASSUME ExecutionTypeOK, Silent, Recorded, Linked, SetAuditAlgorithm
  PROVE  Silent' /\ Recorded' /\ Linked' /\ client' = Track(client, mem')
<1> DEFINE code == SetCommandCodeAuditStatus
           m == [Undone(code) EXCEPT !.digest = NoDigest]
<1>1. mem \in Stores /\ verifier \in Verifier
  BY DEF ExecutionTypeOK, Verifier
<1>2. m.digest = <<>> /\ m.counter = mem.counter
  <2>1. Undone(code) \in Stores /\ SameLog(Undone(code))
    BY <1>1, UndoneIs
  <2> HIDE DEF code
  <2> QED
    BY <2>1 DEF Stores, SameLog, NoDigest
<1>3. powered /\ ~broken /\ ~trouble /\ ~health.failed
  <2>1. Permitted(code) /\ code \notin AllowedInFailureMode
    BY CodesAreNumbers DEF SetAuditAlgorithm
  <2> QED
    BY <2>1, SoundWhenPermitted
<1>4. CASE WriteFails(code, m)
  BY <1>4, FailedWriteKeeps
<1>5. CASE Written(code, m) /\ ~WriteFails(code, m)
  <2>1. /\ verifier' = IF verifier.last = None \/ mem.digest = NoDigest THEN verifier
                       ELSE [verifier EXCEPT !.dropped = TRUE, !.missed = <<>>]
        /\ UNCHANGED <<health, deceived, trouble, spoke>>
    BY <1>5 DEF SetAuditAlgorithm
  <2>2. Silent'
    BY <1>5, <2>1 DEF Silent, Written
  <2>3. Recorded' /\ mem' = m /\ client' = Track(client, mem') /\ ~broken'
    BY <1>3, <1>5, WrittenLog DEF Written
  <2> HIDE DEF m
  <2>4. file'.digest = <<>> /\ file'.counter = mem.counter
    BY <1>2, <2>3 DEF Recorded, SameLog
  <2>5. verifier'.last # None => Follows(file, verifier)'
    <3> SUFFICES ASSUME verifier'.last # None PROVE Follows(file, verifier)'
      OBVIOUS
    <3>1. verifier.last # None /\ verifier.last \in Nat /\ verifier.dropped \in BOOLEAN
            /\ mem.counter \in Nat
      BY <1>1, <2>1 DEF Verifier, Stores
    <3>2. Follows(mem, verifier)
      BY <1>3, <3>1 DEF Recorded, SameLog, Linked, Follows
    <3>3. CASE mem.digest = NoDigest
      <4>1. verifier' = verifier
        BY <2>1, <3>3
      <4>2. Follows(file', verifier)
        BY <2>4, <3>2, <3>3 DEF Follows, NoDigest
      <4> QED
        BY <4>1, <4>2 DEF Follows
    <3>4. CASE mem.digest # NoDigest
      <4>1. verifier'.last = verifier.last /\ verifier'.dropped = TRUE
        BY <1>1, <2>1, <3>1, <3>4 DEF Verifier
      <4>2. mem.counter > verifier.last
        BY <3>1, <3>2, <3>4 DEF Follows, NoDigest
      <4> QED
        BY <2>4, <3>1, <4>1, <4>2 DEF Follows, NoDigest
    <3> QED
      BY <3>3, <3>4
  <2> QED
    BY <2>1, <2>2, <2>3, <2>5 DEF Linked
<1> QED
  BY <1>4, <1>5 DEF SetAuditAlgorithm

\* Power, and another process.
LEMMA PowerKeeps ==
  ASSUME ExecutionTypeOK, Silent, Recorded, Linked, PowerOn \/ PowerOff \/ Restart
  PROVE  Silent' /\ Recorded' /\ Linked'
<1>1. CASE PowerOn
  <2>1. /\ broken' => broken
        /\ ~broken' => mem' = IF broken THEN file ELSE mem
        /\ trouble' \/ broken' => health'.failed
        /\ UNCHANGED <<file, verifier, deceived, spoke>>
    <3>1. PICK reads \in BOOLEAN, passes \in Outcomes :
            /\ mem' = IF broken /\ reads THEN file ELSE mem
            /\ broken' = (broken /\ ~reads)
            /\ health' = AfterInit(broken', passes)
            /\ trouble' = (~passes \/ broken')
      BY <1>1 DEF PowerOn
    <3>2. health'.failed = (broken' \/ ~passes)
      BY <3>1 DEF AfterInit
    <3>3. UNCHANGED <<file, verifier, deceived, spoke>>
      BY <1>1 DEF PowerOn
    <3> QED
      BY <3>1, <3>2, <3>3
  <2>2. Recorded'
    BY <2>1 DEF Recorded, SameLog
  <2> QED
    BY <2>1, <2>2 DEF Silent, Linked, Follows
<1>2. CASE PowerOff
  <2>1. file' = file \/ (~broken /\ file' = mem)
    <3>1. CASE broken
      BY <1>2, <3>1 DEF PowerOff
    <3>2. CASE ~broken
      BY <1>2, <3>2 DEF PowerOff
    <3> QED
      BY <3>1, <3>2
  <2>2. file'.digest = file.digest /\ file'.counter = file.counter
    BY <2>1 DEF Recorded, SameLog
  <2> QED
    BY <1>2, <2>1, <2>2 DEF PowerOff, Silent, Recorded, SameLog, Linked, Follows, history
<1>3. CASE Restart
  BY <1>3 DEF Restart, Silent, Recorded, SameLog, Linked, Follows, history
<1> QED
  BY <1>1, <1>2, <1>3

LEMMA LoggedStep ==
  ASSUME ExecutionTypeOK, Silent, Recorded, Linked, [ExecutionNext]_executionVars
  PROVE  /\ Silent' /\ Recorded' /\ Linked'
         /\ \/ client' = Track(client, mem')
            \/ BeginPages \/ EndPages \/ \E n \in Pages : Page(n)
            \/ UNCHANGED <<client, mem>>
<1> DEFINE Good == Silent' /\ Recorded' /\ Linked' /\ client' = Track(client, mem')
<1>1. mem \in Stores
  BY DEF ExecutionTypeOK
<1>2. \A code : Undone(code) \in Stores /\ SameLog(Undone(code)) /\ Undone(code).nv = mem.nv
  BY <1>1, UndoneIs
<1>3. ASSUME NEW code \in Commands, Refused(code) PROVE Good
  <2> DEFINE m == IF Admitted(code) THEN Undone(code) ELSE mem
  <2>1. SameLog(m) /\ (Written(code, m) \/ WriteFails(code, m)) /\ ~broken
    BY <1>2, <1>3 DEF Refused, SameLog
  <2>2. Written(code, m) => UNCHANGED <<health, history>>
    BY <1>3 DEF Refused, WriteFails, Written
  <2> HIDE DEF m
  <2>3. CASE Written(code, m)
    <3>1. Recorded' /\ Linked' /\ client' = Track(client, mem')
      BY <2>1, <2>2, <2>3, SameLogKeeps DEF history
    <3>2. Silent'
      BY <2>2, <2>3 DEF Silent, Written, history
    <3> QED
      BY <3>1, <3>2
  <2> QED
    BY <2>1, <2>3, FailedWriteKeeps
<1>4. ASSUME NEW code \in {GetRandom, StirRandom}, CommandFails(code) PROVE Good
  <2>1. ~broken
    BY <1>4, CodesAreNumbers, SoundWhenPermitted DEF CommandFails
  <2>2. Recorded' /\ Linked' /\ client' = Track(client, mem')
    BY <1>2, <1>4, <2>1, SameLogKeeps DEF CommandFails
  <2> QED
    BY <1>4, <2>2 DEF CommandFails, Silent, Failing
<1>5. CASE GetRandomCommand
  <2>1. ~trouble /\ spoke' = spoke
    BY <1>5, CodesAreNumbers, SoundWhenPermitted DEF GetRandomCommand, Speaks, ExecutionTypeOK
  <2> QED
    BY <1>2, <1>5, <2>1, CodesAreNumbers, AnsweredKeeps DEF GetRandomCommand, SameLog
<1>6. ASSUME NEW set \in SUBSET Auditable, NEW clear \in SUBSET Auditable,
             SetAuditStatus(set, clear)
      PROVE  Good
  <2> DEFINE u == Undone(SetCommandCodeAuditStatus)
             m == [u EXCEPT !.codes = (@ \cup (set \ {Shutdown})) \ (clear \ {SetCommandCodeAuditStatus})]
  <2>1. u \in Stores /\ SameLog(u)
    BY <1>2
  <2>2. m \in Stores
    BY <2>1, HandlersType
  <2> HIDE DEF u
  <2>3. SameLog(m)
    BY <2>1 DEF SameLog, Stores
  <2> QED
    BY <1>6, <2>2, <2>3, PlainKeeps, CodesAreNumbers DEF SetAuditStatus, u
<1>7. CASE SetAuditAlgorithm
  BY <1>7, AlgorithmKeeps
<1>8. ASSUME NEW signed \in BOOLEAN, AuditDigest(signed) PROVE Good
  <2>1. CASE signed = TRUE
    BY <1>8, <2>1, SignedReportKeeps
  <2>2. CASE signed = FALSE
    BY <1>8, <2>2, UnsignedReportKeeps
  <2> QED
    BY <2>1, <2>2
<1>9. ASSUME NEW h \in Handles, NEW code \in {NV_DefineSpace, NV_DefineSpace2},
             DefineSpace(code, h)
      PROVE  Good
  <2> DEFINE m == [Undone(code) EXCEPT !.nv = @ \cup {h}]
  <2>1. m \in Stores
    BY <1>2, HandlersType
  <2>2. SameLog(m)
    BY <1>2 DEF SameLog, Stores
  <2>3. code \in Nat
    BY CodesAreNumbers
  <2> QED
    BY <1>9, <2>1, <2>2, <2>3, PlainKeeps DEF DefineSpace
<1>10. ASSUME NEW h \in Handles, UndefineSpace(h) PROVE Good
  <2> DEFINE m == [Undone(NV_UndefineSpace) EXCEPT !.nv = @ \ {h}]
  <2>1. m \in Stores
    BY <1>2, HandlersType
  <2>2. SameLog(m)
    BY <1>2 DEF SameLog, Stores
  <2> QED
    BY <1>10, <2>1, <2>2, PlainKeeps, CodesAreNumbers DEF UndefineSpace
<1>11. CASE ClearCommand
  <2> DEFINE m == [Undone(Clear) EXCEPT !.nv = {}, !.counter = 0]
  <2>1. ~broken
    BY <1>11, CodesAreNumbers, SoundWhenPermitted DEF ClearCommand
  <2>2. CASE WriteFails(Clear, m)
    BY <2>2, FailedWriteKeeps
  <2>3. CASE Written(Clear, m) /\ ~WriteFails(Clear, m)
    <3>1. verifier' = NoReport /\ UNCHANGED <<health, deceived, trouble, spoke>>
      BY <1>11, <2>3 DEF ClearCommand
    <3>2. Recorded' /\ mem' = m /\ client' = Track(client, mem')
      BY <2>1, <2>3, WrittenLog
    <3>3. Silent'
      BY <2>3, <3>1 DEF Silent, Written
    <3> QED
      BY <3>1, <3>2, <3>3 DEF Linked, NoReport
  <2> QED
    BY <1>11, <2>2, <2>3 DEF ClearCommand
<1>12. ASSUME NEW on \in BOOLEAN, ReadOnly(on) PROVE Good
  <2> DEFINE m == [Undone(ReadOnlyControl) EXCEPT !.readOnly = on]
  <2>1. m \in Stores
    BY <1>2, HandlersType
  <2>2. SameLog(m)
    BY <1>2 DEF SameLog, Stores
  <2> QED
    BY <1>12, <2>1, <2>2, PlainKeeps, CodesAreNumbers DEF ReadOnly
<1>13. CASE Stir
  BY <1>2, <1>13, PlainKeeps, CodesAreNumbers DEF Stir
<1>14. CASE TestResult
  BY <1>2, <1>14, PlainKeeps, CodesAreNumbers DEF TestResult
<1>15. ASSUME NEW type \in {"clear", "state"}, ShutdownCommand(type) PROVE Good
  <2> DEFINE m == [mem EXCEPT !.shutdown = type]
  <2>1. m \in Stores
    BY <1>1, HandlersType
  <2>2. SameLog(m)
    BY <1>1 DEF SameLog, Stores
  <2> QED
    BY <1>15, <2>1, <2>2, PlainKeeps, CodesAreNumbers DEF ShutdownCommand
<1>16. ASSUME NEW type \in {"clear", "state"}, StartupCommand(type) PROVE Good
  <2>1. /\ Permitted(Startup) /\ Answered(Startup, AfterStartup(type)) /\ UNCHANGED spoke
    BY <1>16 DEF StartupCommand, AfterStartup
  <2> QED
    BY <1>1, <2>1, AfterStartupIs, AnsweredKeeps, CodesAreNumbers
<1>17. ASSUME NEW code \in {SelfTest, IncrementalSelfTest}, NEW full \in BOOLEAN,
              SelfTests(code, full)
       PROVE  Good
  <2>1. ~broken /\ ~trouble
    BY <1>17, CodesAreNumbers, SoundWhenPermitted DEF SelfTests
  <2>2. CASE WriteFails(code, Undone(code))
    BY <2>2, FailedWriteKeeps
  <2>3. CASE Written(code, Undone(code)) /\ ~WriteFails(code, Undone(code))
    <3>1. UNCHANGED <<verifier, deceived, spoke>>
      BY <1>17, <2>3 DEF SelfTests
    <3>2. Recorded' /\ Linked' /\ client' = Track(client, mem')
      BY <1>2, <2>1, <2>3, <3>1, SameLogKeeps
    <3>3. health'.failed \/ UNCHANGED trouble
      <4>1. health' = Failing \/ UNCHANGED trouble
        BY <1>17, <2>3 DEF SelfTests
      <4> QED
        BY <4>1 DEF Failing
    <3>4. Silent'
      BY <2>1, <2>3, <3>1, <3>3 DEF Silent, Written
    <3> QED
      BY <3>2, <3>4
  <2> QED
    BY <1>17, <2>2, <2>3 DEF SelfTests
<1>18. CASE BeginPages \/ EndPages \/ UNCHANGED executionVars
  <2>1. UNCHANGED <<tpm, history>>
    BY <1>18 DEF BeginPages, EndPages, executionVars
  <2> QED
    BY <1>18, <2>1
      DEF Silent, Recorded, SameLog, Linked, Follows, tpm, history, executionVars
<1>19. ASSUME NEW n \in Pages, Page(n) PROVE Silent' /\ Recorded' /\ Linked'
  <2>1. mem' = Undone(GetCapability) /\ UNCHANGED <<file, powered, health, broken, history>>
    BY <1>19 DEF Page
  <2>2. mem'.digest = mem.digest /\ mem'.counter = mem.counter
    BY <1>2, <2>1 DEF SameLog
  <2> QED
    BY <2>1, <2>2 DEF Silent, Recorded, SameLog, Linked, Follows, history
<1>20. CASE PowerOn
  BY <1>20, PowerKeeps DEF PowerOn
<1>21. CASE PowerOff
  BY <1>21, PowerKeeps DEF PowerOff
<1>22. CASE Restart
  BY <1>22, PowerKeeps DEF Restart
<1> HIDE DEF Good
<1>23. Good => /\ Silent' /\ Recorded' /\ Linked'
               /\ client' = Track(client, mem')
  BY DEF Good
<1> QED
  BY <1>3, <1>4, <1>5, <1>6, <1>7, <1>8, <1>9, <1>10, <1>11, <1>12, <1>13, <1>14, <1>15, <1>16,
     <1>17, <1>18, <1>19, <1>20, <1>21, <1>22, <1>23 DEF ExecutionNext

-----------------------------------------------------------------------------
(* Paging.                                                                 *)

\* What of the promised Indices is still there has been seen as before.
LEMMA TrackKeeps ==
  ASSUME ExecutionTypeOK, Paging, mem' \in Stores, client' = Track(client, mem')
  PROVE  Paging'
<1>1. CASE client = Idle
  BY <1>1 DEF Track, Paging
<1>2. CASE client # Idle
  <2>1. client \in Client
    BY <1>2 DEF ExecutionTypeOK, Client
  <2>2. client' = [client EXCEPT !.stable = @ \cap mem'.nv]
    BY <1>2 DEF Track
  <2>3. /\ client'.stable = client.stable \cap mem'.nv /\ client'.seen = client.seen
        /\ client'.next = client.next /\ client'.done = client.done
    BY <2>1, <2>2 DEF Client
  <2> QED
    BY <1>2, <2>3 DEF Paging
<1> QED
  BY <1>1, <1>2

\* One page more.
LEMMA PageKeeps ==
  ASSUME ExecutionTypeOK, Paging, NEW n \in Pages, Page(n)
  PROVE  Paging'
<1> DEFINE all == FromProperty(mem, client.next)
           items == Items(all, n)
           seen == client.seen \o items
           L == Len(client.seen)
           K == Len(items)
<1>1. client \in Client /\ client # Idle /\ ~client.done /\ mem \in Stores
  BY DEF ExecutionTypeOK, Client, Page
<1>2. client.next \in Nat /\ client.seen \in Seq(Handles) /\ client.stable \subseteq mem.nv
  BY <1>1 DEF Client, Paging
<1>3. n \in Nat \ {0} /\ Handles \subseteq Nat
  BY ExecutionAssumption DEF ExecutionAssumption
<1>4. /\ all \in Seq(Handles)
      /\ \A i \in 1 .. Len(all) : all[i] >= client.next
      /\ \A i, j \in 1 .. Len(all) : i < j => all[i] < all[j]
      /\ \A h \in mem.nv : h >= client.next => \E i \in 1 .. Len(all) : all[i] = h
  BY <1>1, <1>2, FromPropertyIs
<1>5. /\ client'.seen = seen /\ client'.next = Onward(client.next, items)
      /\ client'.done = ~More(all, n) /\ client'.stable = client.stable
  BY <1>1 DEF Page, Onward, Client
<1>6. mem'.nv = mem.nv
  BY <1>1, UndoneIs DEF Page
<1> HIDE DEF all
<1>7. /\ items \in Seq(Handles) /\ K = IF Len(all) < n THEN Len(all) ELSE n
      /\ \A i \in 1 .. K : items[i] = all[i]
  BY <1>3, <1>4, ItemsAre
<1> HIDE DEF items
<1>8. L \in Nat /\ K \in Nat /\ K <= Len(all) /\ Len(all) \in Nat
  BY <1>2, <1>3, <1>4, <1>7
<1>9. \A i \in 1 .. K : items[i] \in Nat /\ items[i] >= client.next
  <2> SUFFICES ASSUME NEW i \in 1 .. K PROVE items[i] \in Nat /\ items[i] >= client.next
    OBVIOUS
  <2>1. i \in 1 .. Len(all) /\ items[i] = all[i]
    BY <1>7, <1>8
  <2>2. all[i] \in Handles
    BY <1>4, <2>1
  <2> QED
    BY <1>3, <1>4, <2>1, <2>2
<1>10. /\ Len(seen) = L + K
       /\ \A i \in 1 .. L : seen[i] = client.seen[i]
       /\ \A i \in L + 1 .. L + K : i - L \in 1 .. K /\ seen[i] = items[i - L]
       /\ \A i \in 1 .. K : i + L \in 1 .. L + K /\ seen[i + L] = items[i]
  BY <1>2, <1>7, <1>8
<1>11. /\ \A i \in 1 .. L : client.seen[i] \in Nat /\ client.seen[i] < client.next
       /\ \A i, j \in 1 .. L : i < j => client.seen[i] < client.seen[j]
       /\ \A h \in client.stable : h < client.next => \E i \in 1 .. L : client.seen[i] = h
  <2>1. \A i \in 1 .. L : client.seen[i] \in Handles
    BY <1>2
  <2> QED
    BY <1>1, <1>3, <2>1 DEF Paging, Increasing, Seen
<1>12. \A i, j \in 1 .. K : i < j => items[i] < items[j]
  BY <1>4, <1>7, <1>8
<1>13. \A i \in 1 .. L + K : i \in 1 .. L \/ i \in L + 1 .. L + K
  BY <1>8
<1>14. Increasing(seen)
  <2> SUFFICES ASSUME NEW i \in 1 .. L + K, NEW j \in 1 .. L + K, i < j PROVE seen[i] < seen[j]
    BY <1>10 DEF Increasing
  <2> HIDE DEF seen, L, K
  <2>1. CASE i \in 1 .. L /\ j \in 1 .. L
    BY <1>10, <1>11, <2>1
  <2>2. CASE i \in 1 .. L /\ j \in L + 1 .. L + K
    <3>1. seen[i] \in Nat /\ seen[i] < client.next
      BY <1>10, <1>11, <2>2
    <3>2. seen[j] \in Nat /\ seen[j] >= client.next
      BY <1>9, <1>10, <2>2
    <3> QED
      BY <1>2, <3>1, <3>2
  <2>3. CASE i \in L + 1 .. L + K /\ j \in L + 1 .. L + K
    <3>1. i - L \in 1 .. K /\ j - L \in 1 .. K /\ i - L < j - L
      BY <1>8, <1>10, <2>3
    <3> QED
      BY <1>10, <1>12, <2>3, <3>1
  <2> QED
    BY <1>8, <1>13, <2>1, <2>2, <2>3
<1>15. K # 0 => Last(items) = items[K] /\ items # <<>> /\ K \in 1 .. K
  BY <1>7, <1>8 DEF Last
<1>16. K = 0 => items = <<>>
  BY <1>7
<1>17. /\ K = 0 => client'.next = client.next
       /\ K # 0 => client'.next = items[K] + 1
  BY <1>5, <1>15, <1>16 DEF Onward
<1> HIDE DEF seen, L, K
<1>18. \A i \in 1 .. L + K : seen[i] < client'.next
  <2> SUFFICES ASSUME NEW i \in 1 .. L + K PROVE seen[i] < client'.next
    OBVIOUS
  <2>1. CASE K = 0
    BY <1>8, <1>10, <1>11, <1>17, <2>1
  <2>2. CASE K # 0
    <3>1. items[K] \in Nat /\ items[K] >= client.next
      BY <1>9, <1>15, <2>2
    <3>2. CASE i \in 1 .. L
      <4>1. seen[i] \in Nat /\ seen[i] < client.next
        BY <1>10, <1>11, <3>2
      <4> QED
        BY <1>2, <1>17, <2>2, <3>1, <4>1
    <3>3. CASE i \in L + 1 .. L + K
      <4>1. i - L \in 1 .. K /\ seen[i] = items[i - L] /\ items[i - L] \in Nat
        BY <1>9, <1>10, <3>3
      <4>2. items[i - L] <= items[K]
        <5>1. CASE i - L = K
          BY <3>1, <4>1, <5>1
        <5>2. CASE i - L # K
          <6>1. i - L < K
            BY <1>8, <4>1, <5>2
          <6>2. items[i - L] < items[K]
            BY <1>12, <1>15, <2>2, <4>1, <6>1
          <6> QED
            BY <3>1, <4>1, <6>2
        <5> QED
          BY <5>1, <5>2
      <4> QED
        BY <1>17, <2>2, <3>1, <4>1, <4>2
    <3> QED
      BY <1>13, <3>2, <3>3
  <2> QED
    BY <2>1, <2>2
<1>19. ASSUME NEW h \in client.stable, h < client'.next \/ client'.done
       PROVE  \E i \in 1 .. L + K : seen[i] = h
  <2>1. h \in mem.nv /\ h \in Nat
    BY <1>1, <1>2, <1>3 DEF Stores
  <2>2. CASE h < client.next
    <3>1. PICK i \in 1 .. L : client.seen[i] = h
      BY <1>11, <2>2
    <3>2. i \in 1 .. L + K
      BY <1>8
    <3> QED
      BY <1>10, <3>1, <3>2
  <2>3. CASE h >= client.next
    <3>1. PICK i \in 1 .. Len(all) : all[i] = h
      BY <1>4, <2>1, <2>3
    <3>2. CASE i \in 1 .. K
      BY <1>7, <1>10, <3>1, <3>2
    <3>3. CASE i \notin 1 .. K
      <4>1. i > K /\ K < Len(all)
        BY <1>8, <3>3
      <4>2. K = n /\ Len(all) > n /\ K \in 1 .. K /\ K # 0
        BY <1>3, <1>7, <1>8, <4>1
      <4>3. ~client'.done
        BY <1>5, <4>2 DEF More
      <4>4. K \in 1 .. Len(all) /\ items[K] = all[K] /\ all[K] < all[i]
        BY <1>4, <1>7, <1>8, <4>1, <4>2
      <4>5. client'.next = all[K] + 1 /\ all[K] \in Nat
        BY <1>9, <1>17, <4>2, <4>4
      <4> QED
        BY <1>19, <2>1, <3>1, <4>3, <4>4, <4>5
    <3> QED
      BY <3>2, <3>3
  <2> QED
    BY <1>2, <2>1, <2>2, <2>3
<1> QED
  BY <1>2, <1>5, <1>6, <1>10, <1>14, <1>18, <1>19 DEF Paging, Seen

LEMMA PagingStep ==
  ASSUME ExecutionIInv, [ExecutionNext]_executionVars
  PROVE  Paging'
<1>1. ExecutionTypeOK /\ Paging /\ ExecutionTypeOK'
  BY ExecutionNextType DEF ExecutionIInv
<1>2. mem' \in Stores
  BY <1>1 DEF ExecutionTypeOK
<1>3. \/ client' = Track(client, mem')
      \/ BeginPages \/ EndPages \/ \E n \in Pages : Page(n)
      \/ UNCHANGED <<client, mem>>
  BY LoggedStep DEF ExecutionIInv
<1>4. CASE BeginPages
  <2>1. /\ client' = [next |-> 0, seen |-> <<>>, done |-> FALSE, stable |-> mem.nv]
        /\ mem' = mem /\ mem.nv \subseteq Nat
    BY <1>1, <1>4, ExecutionAssumption
      DEF BeginPages, tpm, ExecutionTypeOK, Stores, ExecutionAssumption
  <2>2. \A h \in mem.nv : ~(h < 0)
    BY <2>1
  <2> QED
    BY <2>1, <2>2 DEF Paging, Increasing
<1>5. CASE EndPages
  BY <1>5 DEF EndPages, Paging
<1>6. CASE UNCHANGED <<client, mem>>
  BY <1>1, <1>6 DEF Paging
<1> QED
  BY <1>1, <1>2, <1>3, <1>4, <1>5, <1>6, TrackKeeps, PageKeeps

\* The invariant: types; failure mode while there is trouble (execute.rs:231); a file that has
\* the log of the memory unless a write failed (device.rs:306); a verifier that follows that
\* log; and a client that has seen all that comes before the place it goes on from.
THEOREM ExecutionHolds == ExecutionSpec => []ExecutionIInv
<1>1. ExecutionInit => ExecutionIInv
  BY ExecutionInitHolds
<1>2. ExecutionIInv /\ [ExecutionNext]_executionVars => ExecutionIInv'
  <2> SUFFICES ASSUME ExecutionIInv, [ExecutionNext]_executionVars PROVE ExecutionIInv'
    OBVIOUS
  <2>1. ExecutionTypeOK'
    BY ExecutionNextType DEF ExecutionIInv
  <2>2. Silent' /\ Recorded' /\ Linked'
    BY LoggedStep DEF ExecutionIInv
  <2> QED
    BY <2>1, <2>2, PagingStep DEF ExecutionIInv
<1> QED
  BY <1>1, <1>2, PTL DEF ExecutionSpec

\* A verifier of the signed audit reports is never deceived (attest.rs:505, device.rs:306): a
\* report that chains to the one before hides no audited command and no lost log.
THEOREM ReportsAlwaysChain == ExecutionSpec => []ReportsChain
<1>1. ExecutionIInv => ReportsChain
  BY DEF ExecutionIInv, Linked, ReportsChain
<1> QED
  BY <1>1, ExecutionHolds, PTL

\* A client that pages through the NV handles until there are no more has seen each Index that
\* was there all along, once and in order (management.rs:677).
THEOREM PagesAreComplete == ExecutionSpec => []PagesComplete
<1>1. ExecutionIInv => PagesComplete
  <2> SUFFICES ASSUME ExecutionIInv, client # Idle, client.done
               PROVE  /\ client.stable \subseteq ToSet(client.seen)
                      /\ \A i, j \in 1 .. Len(client.seen) : i < j => client.seen[i] < client.seen[j]
    BY DEF PagesComplete
  <2>1. client.seen \in Seq(Handles)
    BY DEF ExecutionIInv, ExecutionTypeOK
  <2>2. \A h \in client.stable : \E i \in 1 .. Len(client.seen) : client.seen[i] = h
    BY DEF ExecutionIInv, Paging, Seen
  <2> QED
    BY <2>1, <2>2 DEF ExecutionIInv, Paging, Increasing, ToSet
<1> QED
  BY <1>1, ExecutionHolds, PTL

\* No random octets and no signature leave a TPM of which a test or a write has failed, until
\* power has been applied again and every test has passed (execute.rs:231, device.rs:448).
THEOREM QuietWhileInTrouble == ExecutionSpec => []QuietInTrouble
<1>1. ExecutionIInv => QuietInTrouble
  BY DEF ExecutionIInv, Silent, QuietInTrouble
<1> QED
  BY <1>1, ExecutionHolds, PTL
=============================================================================
