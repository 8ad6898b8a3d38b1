------------------------------- MODULE NvProof -------------------------------
(***************************************************************************)
(* Proofs about Nv: for any set of handles and public areas, and any       *)
(* bounds, an increment never repeats, a counter never goes back and a     *)
(* write lock holds.                                                       *)
(***************************************************************************)
EXTENDS Nv, TLAPS

Index ==
  [type : Types, attributes : SUBSET Attributes, written : BOOLEAN, data : Seq(Nat),
   read_locked : BOOLEAN, write_locked : BOOLEAN]

\* A counter keeps its data; a counter and a bit field, once written, hold one
\* number.
Shape(i) ==
  /\ IsCounter(i) => ~Has(i, "CLEAR_STCLEAR")
  /\ i.type \in {"counter", "bits"} /\ i.written => Len(i.data) = 1

TypeOK ==
  /\ Defined \subseteq Handles
  /\ indices \in [Defined -> Index]
  /\ highest_counter \in Nat
  /\ started \in BOOLEAN
  /\ counted \in [Handles -> Nat]

\* A written counter is at least as far as the last increment at its handle.
Reached(i, h) == IsCounter(i) /\ i.written => counted[h] <= i.data[1]

\* The mark covers every increment, and so does each counter those at its handle.
IInv ==
  /\ TypeOK
  /\ \A h \in Handles : counted[h] <= highest_counter
  /\ \A h \in Defined : Shape(indices[h]) /\ Reached(indices[h], h)

-----------------------------------------------------------------------------
\* The jump of an orderly counter goes forward.
LEMMA JumpForward ==
  ASSUME NEW v \in Nat
  PROVE  OrderlyJump(v) \in Nat /\ OrderlyJump(v) >= v
<1>1. v % OrderlyStep \in 0 .. (OrderlyStep - 1)
  BY NvAssumption
<1>2. v % OrderlyStep <= v
  BY NvAssumption, Z3
<1> QED
  BY <1>1, <1>2, NvAssumption DEF OrderlyJump

\* A startup keeps a lock that is permanent, and touches nothing but locks.
LEMMA UnlockKeeps ==
  ASSUME NEW i \in Index
  PROVE  /\ Unlock(i) \in Index
         /\ Unlock(i).type = i.type /\ Unlock(i).attributes = i.attributes
         /\ Unlock(i).written = i.written /\ Unlock(i).data = i.data
         /\ Sealed(i) => Unlock(i).write_locked
BY DEF Unlock, Index, Permanent, Sealed, Has

\* No startup takes the data of a counter or of a sealed Index.
LEMMA ResetKeeps ==
  ASSUME NEW i \in Index, NEW restart \in BOOLEAN
  PROVE  LET j == ResetData(i, restart) IN
         /\ j \in Index
         /\ j.type = i.type /\ j.attributes = i.attributes
         /\ j.write_locked = i.write_locked
         /\ Shape(i) => Shape(j) /\ (IsCounter(i) => j = i)
         /\ Sealed(i) => j = i
<1>1. CASE (Has(i, "ORDERLY") /\ ~IsCounter(i) /\ ~restart) \/ Has(i, "CLEAR_STCLEAR")
  <2>1. ResetData(i, restart) = [i EXCEPT !.data = <<>>, !.written = FALSE]
    BY <1>1 DEF ResetData
  <2>2. ~(Shape(i) /\ IsCounter(i)) /\ ~Sealed(i)
    BY <1>1 DEF Shape, Sealed
  <2>3. <<>> \in Seq(Nat)
    OBVIOUS
  <2>4. [i EXCEPT !.data = <<>>, !.written = FALSE] \in Index
    BY <2>3 DEF Index
  <2> QED
    BY <2>1, <2>2, <2>4 DEF Index, Shape, IsCounter, Has
<1>2. CASE ~((Has(i, "ORDERLY") /\ ~IsCounter(i) /\ ~restart) \/ Has(i, "CLEAR_STCLEAR"))
  BY <1>2 DEF ResetData
<1> QED
  BY <1>1, <1>2

\* The repair after a disorderly shutdown only moves an orderly counter on.
LEMMA RepairKeeps ==
  ASSUME NEW i \in Index, Shape(i), NEW disorderly \in BOOLEAN
  PROVE  LET j == Repaired(i, disorderly) IN
         /\ j \in Index
         /\ j.type = i.type /\ j.attributes = i.attributes
         /\ j.write_locked = i.write_locked /\ j.written = i.written
         /\ Shape(j)
         /\ IsCounter(i) /\ i.written => j.data[1] >= i.data[1]
         /\ Sealed(i) => j = i
<1>1. CASE disorderly /\ Has(i, "ORDERLY") /\ IsCounter(i) /\ i.written
  <2>1. i.data[1] \in Nat
    BY <1>1 DEF Shape, Index, IsCounter
  <2>2. OrderlyJump(i.data[1]) \in Nat /\ OrderlyJump(i.data[1]) >= i.data[1]
    BY <2>1, JumpForward
  <2> DEFINE d == <<OrderlyJump(i.data[1])>>
  <2>3. Repaired(i, disorderly) = [i EXCEPT !.data = d]
    BY <1>1 DEF Repaired
  <2>4. ~Sealed(i)
    BY <1>1 DEF Sealed
  <2>5. d \in Seq(Nat) /\ Len(d) = 1 /\ d[1] >= i.data[1]
    BY <2>2
  <2> HIDE DEF d
  <2> QED
    BY <1>1, <2>3, <2>4, <2>5 DEF Index, Shape, IsCounter, Has
<1>2. CASE ~(disorderly /\ Has(i, "ORDERLY") /\ IsCounter(i) /\ i.written)
  <2>1. Repaired(i, disorderly) = i
    BY <1>2 DEF Repaired
  <2>2. IsCounter(i) /\ i.written => i.data[1] \in Nat /\ Len(i.data) = 1
    BY DEF Shape, Index, IsCounter
  <2> QED
    BY <2>1, <2>2
<1> QED
  BY <1>1, <1>2

\* What on_startup_clear_with does to one Index.
LEMMA StartupKeeps ==
  ASSUME NEW i \in Index, Shape(i), NEW restart \in BOOLEAN, NEW disorderly \in BOOLEAN
  PROVE  LET j == OnStartup(i, restart, disorderly) IN
         /\ j \in Index
         /\ Shape(j)
         /\ j.type = i.type
         /\ IsCounter(i) => j.written = i.written
         /\ IsCounter(i) /\ i.written => j.data[1] >= i.data[1]
         /\ Sealed(i) => j.write_locked /\ j.data = i.data /\ j.written = i.written
<1> DEFINE a == Unlock(i)
           b == ResetData(a, restart)
           j == Repaired(b, disorderly)
<1>1. /\ a \in Index
      /\ a.type = i.type /\ a.attributes = i.attributes
      /\ a.written = i.written /\ a.data = i.data
      /\ Sealed(i) => a.write_locked
  BY UnlockKeeps
<1> HIDE DEF a
<1>2. Shape(a) /\ (Sealed(i) => Sealed(a))
  BY <1>1 DEF Shape, IsCounter, Has, Sealed, Permanent
<1>3. /\ b \in Index /\ Shape(b)
      /\ b.type = a.type /\ b.attributes = a.attributes
      /\ IsCounter(a) => b = a
      /\ Sealed(a) => b = a
  BY <1>1, <1>2, ResetKeeps
<1> HIDE DEF b
<1>4. Sealed(a) => Sealed(b)
  BY <1>3
<1>5. /\ j \in Index
      /\ j.type = b.type /\ j.attributes = b.attributes
      /\ j.write_locked = b.write_locked /\ j.written = b.written
      /\ Shape(j)
      /\ IsCounter(b) /\ b.written => j.data[1] >= b.data[1]
      /\ Sealed(b) => j = b
  BY <1>3, RepairKeeps
<1>6. OnStartup(i, restart, disorderly) = j
  BY DEF OnStartup, a, b
<1> HIDE DEF j
<1>7. IsCounter(i) => IsCounter(a) /\ IsCounter(b) /\ b = a
  BY <1>1, <1>3 DEF IsCounter
<1>8. Sealed(i) => j = a
  BY <1>2, <1>3, <1>4, <1>5
<1> QED
  BY <1>1, <1>3, <1>5, <1>6, <1>7, <1>8

-----------------------------------------------------------------------------
\* The invariant, where no increment is made.
LEMMA Keeps ==
  ASSUME IInv, NEW new,
         indices' = new, DOMAIN new \subseteq Handles, new \in [DOMAIN new -> Index],
         \A h \in DOMAIN new : Shape(new[h]) /\ Reached(new[h], h),
         highest_counter' \in Nat, highest_counter' >= highest_counter,
         counted' = counted, started' \in BOOLEAN
  PROVE  IInv'
<1>1. TypeOK'
  BY DEF IInv, TypeOK, Defined
<1>2. \A h \in Handles : counted'[h] <= highest_counter'
  BY DEF IInv, TypeOK
<1>3. \A h \in Defined' : Shape(indices[h])' /\ Reached(indices[h], h)'
  BY DEF Defined, Reached, Shape, IsCounter, Has
<1> QED
  BY <1>1, <1>2, <1>3 DEF IInv

\* An Index is put in place of the one at its handle.
LEMMA PutKeeps ==
  ASSUME IInv, NEW h \in Handles, NEW i \in Index, Shape(i), Reached(i, h),
         indices' = With(h, i), started' \in BOOLEAN,
         UNCHANGED <<highest_counter, counted>>
  PROVE  IInv'
<1> DEFINE new == With(h, i)
<1>1. DOMAIN new = Defined \union {h}
  BY DEF With
<1>2. \A g \in Defined \union {h} : new[g] = IF g = h THEN i ELSE indices[g]
  BY DEF With
<1> HIDE DEF new
<1>3. \A g \in DOMAIN new : new[g] \in Index /\ Shape(new[g]) /\ Reached(new[g], g)
  BY <1>1, <1>2 DEF IInv, TypeOK
<1>4. new \in [DOMAIN new -> Index]
  <2>1. new = [g \in Defined \union {h} |-> IF g = h THEN i ELSE indices[g]]
    BY DEF new, With
  <2> QED
    BY <2>1, <1>1, <1>2, <1>3
<1>5. DOMAIN new \subseteq Handles
  BY <1>1 DEF IInv, TypeOK
<1>6. indices' = new
  BY DEF new
<1> QED
  BY <1>3, <1>4, <1>5, <1>6, Keeps DEF IInv, TypeOK

\* Indices are taken away.
LEMMA TakeKeeps ==
  ASSUME IInv, NEW S \in SUBSET Defined,
         indices' = Only(S), started' \in BOOLEAN, counted' = counted,
         highest_counter' \in Nat, highest_counter' >= highest_counter
  PROVE  IInv'
<1> DEFINE new == Only(S)
<1>1. new = [g \in S |-> indices[g]]
  BY DEF Only
<1>2. DOMAIN new = S /\ \A g \in S : new[g] = indices[g]
  BY <1>1
<1> HIDE DEF new
<1>3. \A g \in DOMAIN new : new[g] \in Index /\ Shape(new[g]) /\ Reached(new[g], g)
  BY <1>2 DEF IInv, TypeOK
<1>4. new \in [DOMAIN new -> Index] /\ DOMAIN new \subseteq Handles
  BY <1>1, <1>2, <1>3 DEF IInv, TypeOK
<1>5. indices' = new
  BY DEF new
<1> QED
  BY <1>3, <1>4, <1>5, Keeps

\* The value that raises the mark when an Index is removed.
LEMMA RaisedUp ==
  ASSUME IInv, NEW h \in Defined
  PROVE  Raised(indices[h]) \in Nat /\ Raised(indices[h]) >= highest_counter
<1>1. Value(indices[h]) \in Nat
  BY DEF IInv, TypeOK, Value, Shape, Index, IsCounter
<1> QED
  BY <1>1 DEF Raised, Max2, IInv, TypeOK

LEMMA CommandFacts ==
  ASSUME IInv, Command
  PROVE  started /\ started' = started /\ started' \in BOOLEAN
BY DEF Command, IInv, TypeOK

LEMMA DefineKeeps ==
  ASSUME IInv, NEW h \in Handles, NEW p \in Publics, NEW auth, DefineSpace(h, p, auth)
  PROVE  IInv'
<1>1. Fresh(p) \in Index /\ Shape(Fresh(p)) /\ Reached(Fresh(p), h)
  <2>1. p \in [type : Types, attributes : SUBSET Attributes]
    BY NvAssumption
  <2>2. <<>> \in Seq(Nat)
    OBVIOUS
  <2> QED
    BY <2>1, <2>2 DEF DefineSpace, ValidPublic, Fresh, Index, Shape, Reached, IsCounter, Has
<1> QED
  BY <1>1, CommandFacts, PutKeeps DEF DefineSpace, Leaves

LEMMA UndefineKeeps ==
  ASSUME IInv, NEW h \in Handles, NEW auth,
         UndefineSpace(h, auth) \/ UndefineSpaceSpecial(h)
  PROVE  IInv'
<1>1. /\ Command /\ h \in Defined
      /\ highest_counter' = Raised(indices[h])
      /\ indices' = Only(Defined \ {h})
      /\ counted' = counted
  BY DEF UndefineSpace, UndefineSpaceSpecial, Leaves
<1> QED
  BY <1>1, CommandFacts, RaisedUp, TakeKeeps

\* A write through Stored.
LEMMA StoredFacts ==
  ASSUME NEW i \in Index, NEW data \in Seq(Nat)
  PROVE  /\ Stored(i, data) \in Index
         /\ Stored(i, data).type = i.type /\ Stored(i, data).attributes = i.attributes
         /\ Stored(i, data).written /\ Stored(i, data).data = data
BY DEF Stored, Index

LEMMA WritesKeep ==
  ASSUME IInv, NEW h \in Handles, NEW octet \in 0 .. 1,
         Write(h, octet) \/ Extend(h, octet) \/ SetBits(h, octet)
  PROVE  IInv'
<1>1. /\ Command /\ h \in Defined /\ ~IsCounter(indices[h])
      /\ UNCHANGED <<highest_counter, counted>>
  BY DEF Write, Extend, SetBits, Writable, IsCounter
<1>2. indices[h] \in Index /\ indices[h].data \in Seq(Nat)
  BY <1>1 DEF IInv, TypeOK, Index
<1>3. PICK data \in Seq(Nat) :
        /\ indices' = With(h, Stored(indices[h], data))
        /\ indices[h].type = "bits" => Len(data) = 1
  <2>1. CASE Write(h, octet)
    <3>1. <<octet>> \in Seq(Nat)
      OBVIOUS
    <3> QED
      BY <2>1, <3>1 DEF Write, Leaves, Writable
  <2>2. CASE Extend(h, octet)
    <3>1. Append(indices[h].data, octet) \in Seq(Nat)
      BY <1>2
    <3> QED
      BY <2>2, <3>1 DEF Extend, Leaves, Writable
  <2>3. CASE SetBits(h, octet)
    <3> DEFINE current == IF indices[h].written THEN indices[h].data[1] ELSE 0
    <3>1. current \in Nat
      BY <1>1, <1>2, <2>3 DEF SetBits, IInv, Shape
    <3>2. <<Max2(current, octet)>> \in Seq(Nat)
      BY <3>1 DEF Max2
    <3> QED
      BY <2>3, <3>2 DEF SetBits, Leaves
  <2> QED
    BY <2>1, <2>2, <2>3
<1>4. LET i == Stored(indices[h], data) IN i \in Index /\ Shape(i) /\ Reached(i, h)
  BY <1>1, <1>2, <1>3, StoredFacts DEF Shape, Reached, IsCounter
<1> QED
  BY <1>1, <1>3, <1>4, CommandFacts, PutKeeps

LEMMA IncrementKeeps ==
  ASSUME IInv, NEW h \in Handles, Increment(h)
  PROVE  /\ IInv'
         /\ Value(indices'[h]) > counted[h]
         /\ Value(indices'[h]) >= Value(indices[h])
<1> DEFINE next == NextCount(indices[h], highest_counter)
           i    == Stored(indices[h], <<next>>)
<1>1. /\ Command /\ h \in Defined /\ IsCounter(indices[h])
      /\ highest_counter' = Max2(highest_counter, next)
      /\ indices' = With(h, i)
      /\ counted' = [counted EXCEPT ![h] = Max2(@, next)]
  BY DEF Increment, Writable, Leaves
<1>2. indices[h] \in Index /\ Shape(indices[h]) /\ Reached(indices[h], h)
  BY <1>1 DEF IInv, TypeOK
<1>3. indices[h].written => indices[h].data[1] \in Nat
  BY <1>1, <1>2 DEF Shape, Index, IsCounter
<1>4. next \in Nat /\ next > counted[h] /\ next > Value(indices[h])
  BY <1>1, <1>2, <1>3 DEF NextCount, Value, Reached, IInv, TypeOK
<1> HIDE DEF next
<1>5. <<next>> \in Seq(Nat) /\ Len(<<next>>) = 1 /\ <<next>>[1] = next
  BY <1>4
<1>6. /\ i \in Index /\ i.written /\ i.data = <<next>>
      /\ i.type = indices[h].type /\ i.attributes = indices[h].attributes
  BY <1>2, <1>5, StoredFacts
<1> HIDE DEF i
<1>7. Shape(i) /\ IsCounter(i) /\ Value(i) = next
  BY <1>1, <1>2, <1>5, <1>6 DEF Shape, IsCounter, Has, Value
<1>8. indices' = [g \in Defined |-> IF g = h THEN i ELSE indices[g]]
  <2>1. Defined \union {h} = Defined
    BY <1>1
  <2> QED
    BY <1>1, <2>1 DEF With
<1>9. Defined' = Defined /\ indices'[h] = i
  BY <1>1, <1>8 DEF Defined
<1>10. TypeOK'
  <2>1. indices' \in [Defined' -> Index]
    BY <1>6, <1>8, <1>9 DEF IInv, TypeOK
  <2>2. highest_counter' \in Nat /\ counted' \in [Handles -> Nat]
    BY <1>1, <1>4 DEF IInv, TypeOK, Max2
  <2>3. started' \in BOOLEAN
    BY <1>1, CommandFacts
  <2> QED
    BY <2>1, <2>2, <2>3, <1>9 DEF TypeOK, IInv
<1>11. \A g \in Handles : counted'[g] <= highest_counter'
  BY <1>1, <1>4 DEF IInv, TypeOK, Max2
<1>12. \A g \in Defined' : Shape(indices[g])' /\ Reached(indices[g], g)'
  <2> SUFFICES ASSUME NEW g \in Defined
               PROVE  Shape(indices'[g]) /\ (Reached(indices[g], g)')
    BY <1>9 DEF Shape, IsCounter, Has
  <2>1. CASE g = h
    <3>1. counted'[h] = next
      BY <1>1, <1>4 DEF IInv, TypeOK, Max2
    <3> QED
      BY <2>1, <3>1, <1>4, <1>5, <1>6, <1>7, <1>9 DEF Reached, IsCounter
  <2>2. CASE g # h
    <3>1. indices'[g] = indices[g] /\ counted'[g] = counted[g]
      BY <2>2, <1>1, <1>8 DEF IInv, TypeOK
    <3> QED
      BY <3>1 DEF IInv, Reached, IsCounter
  <2> QED
    BY <2>1, <2>2
<1>13. IInv'
  BY <1>10, <1>11, <1>12 DEF IInv
<1>14. Value(indices[h]) \in Nat /\ counted[h] \in Nat
  BY <1>2, <1>3 DEF Value, IInv, TypeOK
<1> QED
  BY <1>4, <1>7, <1>9, <1>13, <1>14

\* An Index with other locks.
LEMMA LockFacts ==
  ASSUME NEW i \in Index, NEW w \in BOOLEAN, NEW r \in BOOLEAN
  PROVE  LET j == [i EXCEPT !.write_locked = w]
             k == [i EXCEPT !.read_locked = r]
         IN  /\ j \in Index /\ j.type = i.type /\ j.attributes = i.attributes
             /\ j.written = i.written /\ j.data = i.data /\ j.write_locked = w
             /\ k \in Index /\ k.type = i.type /\ k.attributes = i.attributes
             /\ k.written = i.written /\ k.data = i.data /\ k.write_locked = i.write_locked
BY DEF Index

LEMMA LockKeeps ==
  ASSUME IInv, NEW h \in Handles, WriteLock(h) \/ ReadLock(h)
  PROVE  IInv'
<1>1. /\ Command /\ h \in Defined
      /\ UNCHANGED <<highest_counter, counted>>
  BY DEF WriteLock, ReadLock
<1>2. indices[h] \in Index /\ Shape(indices[h]) /\ Reached(indices[h], h)
  BY <1>1 DEF IInv, TypeOK
<1>3. PICK i \in Index :
        /\ indices' = With(h, i)
        /\ i.type = indices[h].type /\ i.attributes = indices[h].attributes
        /\ i.written = indices[h].written /\ i.data = indices[h].data
  <2>1. CASE WriteLock(h)
    <3> DEFINE i == [indices[h] EXCEPT !.write_locked = TRUE]
    <3>1. indices' = With(h, i)
      BY <2>1 DEF WriteLock, Leaves
    <3>2. /\ i \in Index
          /\ i.type = indices[h].type /\ i.attributes = indices[h].attributes
          /\ i.written = indices[h].written /\ i.data = indices[h].data
      BY <1>2, LockFacts
    <3> HIDE DEF i
    <3> QED
      BY <3>1, <3>2
  <2>2. CASE ReadLock(h)
    <3> DEFINE i == [indices[h] EXCEPT !.read_locked = TRUE]
    <3>1. indices' = With(h, i)
      BY <2>2 DEF ReadLock, Leaves
    <3>2. /\ i \in Index
          /\ i.type = indices[h].type /\ i.attributes = indices[h].attributes
          /\ i.written = indices[h].written /\ i.data = indices[h].data
      BY <1>2, LockFacts
    <3> HIDE DEF i
    <3> QED
      BY <3>1, <3>2
  <2> QED
    BY <2>1, <2>2
<1>4. Shape(i) /\ Reached(i, h)
  BY <1>2, <1>3 DEF Shape, Reached, IsCounter, Has
<1> QED
  BY <1>1, <1>3, <1>4, CommandFacts, PutKeeps

\* Every Index is replaced, at its own handle.
LEMMA MapKeeps ==
  ASSUME IInv, DOMAIN indices' = Defined, indices' \in [Defined -> Index],
         \A h \in Defined : Shape(indices'[h]) /\ Reached(indices'[h], h),
         started' \in BOOLEAN, UNCHANGED <<highest_counter, counted>>
  PROVE  IInv'
BY Keeps DEF IInv, TypeOK

LEMMA GlobalLockFacts ==
  ASSUME NEW i \in Index
  PROVE  LET j == GlobalLocked(i)
         IN  /\ j \in Index /\ j.type = i.type /\ j.attributes = i.attributes
             /\ j.written = i.written /\ j.data = i.data
             /\ i.write_locked => j.write_locked
BY DEF Index, GlobalLocked

LEMMA GlobalLockKeeps ==
  ASSUME IInv, GlobalWriteLock
  PROVE  IInv'
<1> DEFINE new(h) == GlobalLocked(indices[h])
<1>1. indices' = [h \in Defined |-> new(h)]
  BY DEF GlobalWriteLock, Leaves
<1>2. ASSUME NEW h \in Defined
      PROVE  new(h) \in Index /\ Shape(new(h)) /\ Reached(new(h), h)
  <2>1. indices[h] \in Index /\ Shape(indices[h]) /\ Reached(indices[h], h)
    BY DEF IInv, TypeOK
  <2>2. /\ new(h) \in Index
        /\ new(h).type = indices[h].type /\ new(h).attributes = indices[h].attributes
        /\ new(h).written = indices[h].written /\ new(h).data = indices[h].data
    BY <2>1, GlobalLockFacts
  <2> HIDE DEF new
  <2> QED
    BY <2>1, <2>2 DEF Shape, Reached, IsCounter, Has
<1> HIDE DEF new
<1>3. DOMAIN indices' = Defined /\ indices' \in [Defined -> Index]
  BY <1>1, <1>2
<1>4. \A h \in Defined : Shape(indices'[h]) /\ Reached(indices'[h], h)
  BY <1>1, <1>2
<1> QED
  BY <1>3, <1>4, CommandFacts, MapKeeps DEF GlobalWriteLock

LEMMA StartupClearKeeps ==
  ASSUME IInv, StartupClear
  PROVE  IInv'
<1> DEFINE restart    == shutdown = "state"
           disorderly == shutdown = "none"
           new(h)     == OnStartup(indices[h], restart, disorderly)
<1>1. indices' = [h \in Defined |-> new(h)]
  BY DEF StartupClear, Leaves
<1>2. ASSUME NEW h \in Defined
      PROVE  new(h) \in Index /\ Shape(new(h)) /\ Reached(new(h), h)
  <2>1. indices[h] \in Index /\ Shape(indices[h]) /\ Reached(indices[h], h) /\ counted[h] \in Nat
    BY DEF IInv, TypeOK
  <2>2. restart \in BOOLEAN /\ disorderly \in BOOLEAN
    OBVIOUS
  <2>3. /\ new(h) \in Index /\ Shape(new(h))
        /\ new(h).type = indices[h].type
        /\ IsCounter(indices[h]) => new(h).written = indices[h].written
        /\ IsCounter(indices[h]) /\ indices[h].written => new(h).data[1] >= indices[h].data[1]
    BY <2>1, <2>2, StartupKeeps
  <2> HIDE DEF new
  <2>4. ASSUME IsCounter(new(h)), new(h).written
        PROVE  counted[h] <= new(h).data[1]
    <3>1. IsCounter(indices[h]) /\ indices[h].written
      BY <2>3, <2>4 DEF IsCounter
    <3>2. indices[h].data[1] \in Nat /\ new(h).data[1] \in Nat
      BY <2>1, <2>3, <2>4, <3>1 DEF Shape, Index, IsCounter
    <3> QED
      BY <2>1, <2>3, <3>1, <3>2 DEF Reached
  <2> QED
    BY <2>3, <2>4 DEF Reached
<1> HIDE DEF new
<1>3. DOMAIN indices' = Defined /\ indices' \in [Defined -> Index]
  BY <1>1, <1>2
<1>4. \A h \in Defined : Shape(indices'[h]) /\ Reached(indices'[h], h)
  BY <1>1, <1>2
<1> QED
  BY <1>3, <1>4, MapKeeps DEF StartupClear, Begin

\* The steps that leave the Indices, or take some away.
LEMMA OthersKeep ==
  ASSUME IInv,
         \/ Plain \/ Clear \/ StartupState \/ Crash
         \/ \E type \in {"clear", "state"} : Shutdown(type)
         \/ \E off \in BOOLEAN : PowerCycle(off)
         \/ UNCHANGED vars
  PROVE  IInv'
<1>1. CASE Clear
  <2>1. /\ indices' = Only({h \in Defined : Has(indices[h], "PLATFORMCREATE")})
        /\ UNCHANGED <<highest_counter, counted>> /\ Command
    BY <1>1 DEF Clear, Leaves
  <2>2. {h \in Defined : Has(indices[h], "PLATFORMCREATE")} \in SUBSET Defined
    OBVIOUS
  <2> QED
    BY <2>1, <2>2, CommandFacts, TakeKeeps DEF IInv, TypeOK
<1>2. CASE Crash
  <2>1. /\ UNCHANGED <<indices, counted>>
        /\ started' = FALSE
        /\ highest_counter' \in Marks
        /\ highest_counter <= highest_counter'
    BY <1>2 DEF Crash, Marks
  <2>2. \A h \in Defined : Value(indices[h]) \in Nat
    BY DEF IInv, TypeOK, Value, Shape, Index, IsCounter
  <2>3. highest_counter' \in Nat
    BY <2>1, <2>2 DEF Marks, IInv, TypeOK
  <2> QED
    BY <2>1, <2>3, Keeps DEF IInv, TypeOK, Defined
<1>3. CASE ~Clear /\ ~Crash
  <2>1. UNCHANGED <<indices, counted, highest_counter>> /\ started' \in BOOLEAN
    BY <1>3 DEF Plain, StartupState, Begin, Shutdown, PowerCycle, vars, IInv, TypeOK, history
  <2> QED
    BY <2>1, Keeps DEF IInv, TypeOK, Defined
<1> QED
  BY <1>1, <1>2, <1>3

\* Every step of the store keeps the invariant.
LEMMA NextKeeps ==
  ASSUME IInv, [Next]_vars
  PROVE  IInv'
BY DefineKeeps, UndefineKeeps, WritesKeep, IncrementKeeps, LockKeeps, GlobalLockKeeps,
   StartupClearKeeps, OthersKeep DEF Next

\* The invariant of the store, for every constant: each counter and the mark
\* cover the increments made so far (nv.rs, NvStore::increment).
THEOREM NvIInv == Spec => []IInv
<1>1. ASSUME Init PROVE IInv
  <2>1. Defined = {} /\ indices \in [{} -> Index]
    BY <1>1 DEF Init, Defined
  <2> QED
    <3>1. highest_counter = 0 /\ started = FALSE /\ counted = [h \in Handles |-> 0]
      BY <1>1 DEF Init
    <3>2. TypeOK
      BY <2>1, <3>1 DEF TypeOK
    <3>3. \A h \in Handles : counted[h] <= highest_counter
      BY <3>1
    <3> QED
      BY <2>1, <3>2, <3>3 DEF IInv
<1>2. IInv /\ [Next]_vars => IInv'
  BY NextKeeps
<1> QED
  BY <1>1, <1>2, PTL DEF Spec

\* No handle is ever given the same count twice, for any number of handles,
\* public areas, crashes and startups (nv.rs, highest_counter).
THEOREM NvIncrementsNeverRepeat == Spec => IncrementsNeverRepeat
<1>1. IInv /\ [Next]_vars
        => [\A h \in Handles : Increment(h) => Value(indices'[h]) > counted[h]]_vars
  BY IncrementKeeps
<1> QED
  BY <1>1, NvIInv, PTL DEF Spec, IncrementsNeverRepeat

-----------------------------------------------------------------------------
\* What a step may do to an Index that stays defined.
Kept(i, j) ==
  (i.write_locked /\ started) \/ Sealed(i)
    => j.write_locked /\ j.data = i.data /\ j.written = i.written

LEMMA WithFacts ==
  ASSUME NEW h, NEW i, indices' = With(h, i), NEW g \in Defined
  PROVE  indices'[g] = IF g = h THEN i ELSE indices[g]
BY DEF With

LEMMA ValueNat ==
  ASSUME NEW i \in Index, Shape(i)
  PROVE  Value(i) \in Nat
BY DEF Value, Shape, Index, IsCounter

LEMMA StoredType ==
  ASSUME NEW i \in Index, NEW data
  PROVE  Stored(i, data).type = i.type
BY DEF Stored, Index

LEMMA LockOn ==
  ASSUME NEW i \in Index, NEW k,
         \/ k = [i EXCEPT !.write_locked = TRUE]
         \/ k = [i EXCEPT !.read_locked = TRUE]
  PROVE  /\ k.type = i.type /\ k.written = i.written /\ k.data = i.data
         /\ i.write_locked => k.write_locked
BY DEF Index

LEMMA StepOfIndex ==
  ASSUME IInv, Next, NEW g \in Defined \intersect DOMAIN indices'
  PROVE  Value(indices'[g]) >= Value(indices[g]) /\ Kept(indices[g], indices'[g])
<1> DEFINE i == indices[g]
           j == indices'[g]
<1>1. i \in Index /\ Shape(i) /\ Value(i) \in Nat /\ g \in Handles
  BY ValueNat DEF IInv, TypeOK
<1>2. j = i => Value(j) >= Value(i) /\ Kept(i, j)
  BY <1>1 DEF Kept, Sealed
<1>3. ASSUME NEW h \in Handles, NEW p \in Publics, NEW auth, DefineSpace(h, p, auth)
      PROVE  j = i
  BY <1>3, WithFacts DEF DefineSpace, Leaves
<1>4. ASSUME NEW h \in Handles, NEW auth, UndefineSpace(h, auth) \/ UndefineSpaceSpecial(h)
      PROVE  j = i
  BY <1>4 DEF UndefineSpace, UndefineSpaceSpecial, Leaves, Only
<1>5. ASSUME NEW h \in Handles, NEW octet \in 0 .. 1,
             Write(h, octet) \/ Extend(h, octet) \/ SetBits(h, octet)
      PROVE  Value(j) >= Value(i) /\ Kept(i, j)
  <2>1. PICK data : indices' = With(h, Stored(indices[h], data))
    BY <1>5 DEF Write, Extend, SetBits, Leaves
  <2>2. CASE g # h
    BY <2>1, <2>2, <1>2, WithFacts
  <2>3. CASE g = h
    <3>1. ~IsCounter(i) /\ ~i.write_locked
      BY <1>5, <2>3 DEF Write, Extend, SetBits, Writable, IsCounter
    <3>2. j.type = i.type
      BY <2>1, <2>3, <1>1, WithFacts, StoredType
    <3> QED
      BY <3>1, <3>2 DEF Value, IsCounter, Kept, Sealed
  <2> QED
    BY <2>2, <2>3
<1>6. ASSUME NEW h \in Handles, Increment(h)
      PROVE  Value(j) >= Value(i) /\ Kept(i, j)
  <2>1. CASE g # h
    BY <1>6, <2>1, <1>2, WithFacts DEF Increment, Leaves
  <2>2. CASE g = h
    BY <1>6, <2>2, IncrementKeeps DEF Increment, Writable, Kept, Sealed
  <2> QED
    BY <2>1, <2>2
<1>7. ASSUME NEW h \in Handles, WriteLock(h) \/ ReadLock(h)
      PROVE  Value(j) >= Value(i) /\ Kept(i, j)
  <2>1. PICK k : /\ indices' = With(h, k)
                 /\ \/ k = [indices[h] EXCEPT !.write_locked = TRUE]
                    \/ k = [indices[h] EXCEPT !.read_locked = TRUE]
    BY <1>7 DEF WriteLock, ReadLock, Leaves
  <2>2. CASE g # h
    BY <2>1, <2>2, <1>2, WithFacts
  <2>3. CASE g = h
    <3>1. j = k
      BY <2>1, <2>3, WithFacts
    <3>2. /\ k.type = i.type /\ k.written = i.written /\ k.data = i.data
          /\ i.write_locked => k.write_locked
      BY <2>1, <2>3, <1>1, LockOn
    <3> QED
      BY <1>1, <3>1, <3>2 DEF Value, IsCounter, Kept, Sealed
  <2> QED
    BY <2>2, <2>3
<1>8. CASE GlobalWriteLock
  <2>1. j = GlobalLocked(i)
    BY <1>8 DEF GlobalWriteLock, Leaves
  <2> QED
    BY <1>1, <2>1, GlobalLockFacts DEF Value, IsCounter, Kept, Sealed
<1>9. CASE StartupClear
  <2> DEFINE restart    == shutdown = "state"
             disorderly == shutdown = "none"
  <2>1. j = OnStartup(i, restart, disorderly) /\ ~started
    BY <1>9 DEF StartupClear, Leaves, Begin
  <2>2. /\ j \in Index /\ Shape(j) /\ j.type = i.type
        /\ IsCounter(i) => j.written = i.written
        /\ IsCounter(i) /\ i.written => j.data[1] >= i.data[1]
        /\ Sealed(i) => j.write_locked /\ j.data = i.data /\ j.written = i.written
    <3>1. restart \in BOOLEAN /\ disorderly \in BOOLEAN
      OBVIOUS
    <3> HIDE DEF restart, disorderly, i, j
    <3> QED
      BY <1>1, <2>1, <3>1, StartupKeeps
  <2>3. Value(j) \in Nat
    BY <2>2, ValueNat
  <2> QED
    BY <1>1, <2>1, <2>2, <2>3 DEF Value, IsCounter, Kept
<1>10. CASE Clear
  BY <1>2, <1>10 DEF Clear, Leaves, Only
<1>11. CASE \/ Plain \/ StartupState \/ Crash
            \/ \E type \in {"clear", "state"} : Shutdown(type)
            \/ \E off \in BOOLEAN : PowerCycle(off)
  BY <1>2, <1>11 DEF Plain, StartupState, Crash, Shutdown, PowerCycle
<1> QED
  BY <1>2, <1>3, <1>4, <1>5, <1>6, <1>7, <1>8, <1>9, <1>10, <1>11 DEF Next

\* A counter that stays defined never goes back, for every public area and
\* every sequence of startups (nv.rs, on_startup_clear_with).
THEOREM NvCounterOnlyGrows == Spec => CounterOnlyGrows
<1>1. IInv /\ [Next]_vars
        => [\A h \in Defined \intersect DOMAIN indices' :
              Value(indices'[h]) >= Value(indices[h])]_vars
  BY StepOfIndex
<1> QED
  BY <1>1, NvIInv, PTL DEF Spec, CounterOnlyGrows

\* A write lock holds until the next startup, and for good on a sealed Index,
\* for every public area (nv.rs, on_startup_clear_with and set_write_lock).
THEOREM NvWriteLockHolds == Spec => WriteLockHolds
<1>1. IInv /\ [Next]_vars
        => [\A h \in Defined \intersect DOMAIN indices' :
              (indices[h].write_locked /\ started) \/ Sealed(indices[h])
                => /\ indices'[h].write_locked
                   /\ indices'[h].data = indices[h].data
                   /\ indices'[h].written = indices[h].written]_vars
  BY StepOfIndex DEF Kept
<1> QED
  BY <1>1, NvIInv, PTL DEF Spec, WriteLockHolds

=============================================================================
