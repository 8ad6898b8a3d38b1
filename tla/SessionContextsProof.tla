------------------------- MODULE SessionContextsProof -------------------------
(***************************************************************************)
(* For every number of sessions, every gap and every width of the          *)
(* counters: a session context is loaded at most once, and the context of  *)
(* a saved session never falls out of the range TPM2_ContextLoad accepts.  *)
(***************************************************************************)
EXTENDS SessionContexts, TLAPS

LEMMA TypesOfHandles ==
  /\ Handles = Types \X Indices
  /\ Unassigned \notin Handles
  BY DEF Handles, Unassigned, Types

LEMMA StepFacts ==
  ASSUME BoundsAssumption, NEW n \in 1 .. U64Max
  PROVE  /\ Step(n) \in 1 .. U64Max
         /\ Step(n) >= n /\ Step(n) <= n + 1
         /\ n < U64Max => Step(n) = n + 1
         /\ Step(n) < U64Max => n < U64Max
  BY DEF Step, BoundsAssumption

-----------------------------------------------------------------------------
(* The initial state, and the steps that hand out no number.               *)

LEMMA InitIInv == Init => IInv
<1> SUFFICES ASSUME Init PROVE IInv
  OBVIOUS
<1> USE BoundsAssumption DEF BoundsAssumption, Init, NoIds
<1>1. TypeOK
  BY DEF TypeOK, Ids, Epochs
<1>2. SlotsAgree /\ IdsBehindCounter /\ IdsDistinct /\ IdsInWindow
  BY DEF SlotsAgree, IdsBehindCounter, IdsDistinct, IdsInWindow
<1>3. LoadedIsStale /\ NoReplay
  BY DEF LoadedIsStale, NoReplay
<1> QED  BY <1>1, <1>2, <1>3 DEF IInv

\* Removing numbers from handles, with the counter left alone, keeps every
\* clause about numbers.
LEMMA ForgettingIsSafe ==
  ASSUME IInv, TypeOK', SlotsAgree',
         context_counter' = context_counter, epoch' = epoch, loads' = loads,
         \A h \in Handles : saved'[h] \in {0, saved[h]} /\ version'[h] \in {0, version[h]}
  PROVE  IInv'
<1> USE BoundsAssumption DEF BoundsAssumption
<1>1. IdsBehindCounter'  BY DEF IInv, IdsBehindCounter
<1>2. IdsDistinct'
  <2> SUFFICES ASSUME context_counter < U64Max, NEW g \in Handles, NEW h \in Handles
               PROVE  /\ g # h /\ saved'[g] # 0 => saved'[g] # saved'[h]
                      /\ g # h /\ version'[g] # 0 => version'[g] # version'[h]
                      /\ saved'[g] # 0 => saved'[g] # version'[h]
    BY DEF IdsDistinct
  <2> QED  BY DEF IInv, IdsDistinct
<1>3. IdsInWindow'  BY DEF IInv, IdsInWindow
<1>4. LoadedIsStale'
  <2> SUFFICES ASSUME NEW b \in Blobs, loads[b] > 0
               PROVE  /\ b.id # 0 /\ b.epoch <= epoch
                      /\ b.epoch = epoch =>
                           /\ b.id < context_counter /\ b.id # saved'[b.h]
                           /\ b.id # version'[b.h] \/ context_counter = U64Max
    BY DEF LoadedIsStale
  <2>1. b.h \in Handles  BY DEF Blobs
  <2> QED  BY <2>1 DEF IInv, LoadedIsStale
<1>5. NoReplay'  BY DEF IInv, NoReplay
<1> QED  BY <1>1, <1>2, <1>3, <1>4, <1>5 DEF IInv

LEMMA FlushContextIInv ==
  ASSUME IInv, NEW c \in Handles, Drop(c),
         is_audit' \in SUBSET Handles, exclusive' \in Handles \cup {Unassigned}
  PROVE  IInv'
<1> USE BoundsAssumption DEF BoundsAssumption, Drop
<1>1. TypeOK'      BY DEF IInv, TypeOK, Ids
<1>2. SlotsAgree'  BY DEF IInv, TypeOK, SlotsAgree
<1>3. \A h \in Handles : saved'[h] \in {0, saved[h]} /\ version'[h] \in {0, version[h]}
  BY DEF IInv, TypeOK
<1> QED  BY <1>1, <1>2, <1>3, ForgettingIsSafe

LEMMA AuditorsFacts ==
  ASSUME IInv, NEW a \in Auditors, NEW keeps \in BOOLEAN
  PROVE  /\ a \in Handles \cup {Unassigned}
         /\ ExclusiveAfter(a, keeps) \in Handles \cup {Unassigned}
         /\ AuditsAfter(a) \in SUBSET Handles
  BY TypesOfHandles DEF IInv, TypeOK, Auditors, ExclusiveAfter, AuditsAfter

LEMMA SuspendIInv ==
  ASSUME IInv, NEW a \in Auditors, Suspend(a)
  PROVE  IInv'
<1> USE BoundsAssumption DEF BoundsAssumption, Suspend, NoIds
<1>0. a \in Handles \cup {Unassigned}  BY AuditorsFacts
<1>1. TypeOK'      BY <1>0 DEF IInv, TypeOK, Ids
<1>2. SlotsAgree'  BY DEF IInv, TypeOK, SlotsAgree
<1>3. \A h \in Handles : saved'[h] \in {0, saved[h]} /\ version'[h] \in {0, version[h]}
  BY DEF IInv, TypeOK
<1> QED  BY <1>1, <1>2, <1>3, ForgettingIsSafe

LEMMA ResetIInv == IInv /\ Reset => IInv'
<1> SUFFICES ASSUME IInv, Reset PROVE IInv'
  OBVIOUS
<1> USE BoundsAssumption DEF BoundsAssumption, Reset, NoIds
<1>1. TypeOK'  BY DEF IInv, TypeOK, Ids, Epochs
<1>2. SlotsAgree' /\ IdsBehindCounter' /\ IdsDistinct' /\ IdsInWindow'
  BY DEF SlotsAgree, IdsBehindCounter, IdsDistinct, IdsInWindow
<1>3. LoadedIsStale'
  <2> SUFFICES ASSUME NEW b \in Blobs, loads[b] > 0
               PROVE  b.id # 0 /\ b.epoch <= epoch + 1 /\ b.epoch # epoch + 1
    BY DEF LoadedIsStale
  <2>1. b.epoch \in Int /\ epoch \in Int  BY DEF Blobs, IInv, TypeOK, Epochs
  <2> QED  BY <2>1 DEF IInv, LoadedIsStale
<1>4. NoReplay'  BY DEF IInv, NoReplay
<1> QED  BY <1>1, <1>2, <1>3, <1>4 DEF IInv

\* The commands that touch neither numbers nor contexts.
LEMMA QuietIInv ==
  ASSUME IInv, UNCHANGED <<sessions, version, saved, context_counter, epoch, blobs, loads>>,
         object_counter' \in 1 .. U64Max,
         is_audit' \in SUBSET Handles, exclusive' \in Handles \cup {Unassigned}
  PROVE  IInv'
<1>1. TypeOK'      BY DEF IInv, TypeOK
<1>2. SlotsAgree'  BY DEF IInv, SlotsAgree
<1> QED  BY <1>1, <1>2, ForgettingIsSafe

-----------------------------------------------------------------------------
(* TPM2_ContextSave moves a number from a loaded session to a saved one.   *)

LEMMA ContextSaveIInv ==
  ASSUME IInv, NEW h \in Handles, ContextSave(h)
  PROVE  IInv'
<1> USE BoundsAssumption DEF BoundsAssumption
<1>0. context_counter < U64Max
  <2>1. context_counter # U64Max  BY DEF ContextSave, CountersExhausted
  <2> QED  BY <2>1 DEF IInv, TypeOK
<1>1. /\ context_counter < U64Max /\ context_counter' = context_counter
      /\ epoch' = epoch /\ loads' = loads
      /\ h \in sessions /\ sessions' = sessions \ {h}
      /\ saved' = [saved EXCEPT ![h] = version[h]]
      /\ version' = [version EXCEPT ![h] = 0]
  BY <1>0 DEF ContextSave
<1>2. version[h] # 0 /\ saved[h] = 0 /\ version[h] \in Ids
  BY <1>1 DEF IInv, SlotsAgree, TypeOK
<1>3. /\ saved'[h] = version[h] /\ version'[h] = 0
      /\ \A g \in Handles : g # h => saved'[g] = saved[g] /\ version'[g] = version[g]
  BY <1>1 DEF IInv, TypeOK
<1>4. TypeOK'
  <2> DEFINE blob == [h |-> h, id |-> version[h], epoch |-> epoch, audit |-> h \in is_audit]
  <2>1. blob \in Blobs
    <3>1. (h \in is_audit) \in BOOLEAN  OBVIOUS
    <3>2. epoch \in Epochs  BY DEF IInv, TypeOK
    <3> HIDE DEF blob
    <3>3. \A q \in BOOLEAN : [h |-> h, id |-> version[h], epoch |-> epoch, audit |-> q] \in Blobs
      BY <1>2, <3>2 DEF Blobs
    <3> QED  BY <3>1, <3>3, Zenon DEF blob
  <2>2. blobs' \in SUBSET Blobs
    <3> HIDE DEF blob
    <3>1. blobs' = blobs \cup {blob}  BY Zenon DEF ContextSave, blob
    <3> QED  BY <2>1, <3>1 DEF IInv, TypeOK
  <2>3. object_counter' = object_counter /\ is_audit' = is_audit \ {h} /\ exclusive' = exclusive
    BY DEF ContextSave
  <2> HIDE DEF blob
  <2> QED  BY <1>1, <1>2, <2>2, <2>3 DEF IInv, TypeOK, Ids
<1>5. SlotsAgree'
  BY <1>1, <1>2, <1>3 DEF IInv, SlotsAgree
<1>6. IdsBehindCounter'
  <2> SUFFICES ASSUME NEW g \in Handles
               PROVE  /\ saved'[g] # 0 => saved'[g] < context_counter
                      /\ version'[g] # 0 => version'[g] < context_counter
    BY <1>1 DEF IdsBehindCounter
  <2>1. context_counter # U64Max  BY <1>1 DEF IInv, TypeOK
  <2> QED  BY <1>3, <2>1 DEF IInv, IdsBehindCounter
<1>7. IdsDistinct'
  <2> SUFFICES ASSUME NEW f \in Handles, NEW g \in Handles
               PROVE  /\ f # g /\ saved'[f] # 0 => saved'[f] # saved'[g]
                      /\ f # g /\ version'[f] # 0 => version'[f] # version'[g]
                      /\ saved'[f] # 0 => saved'[f] # version'[g]
    BY DEF IdsDistinct
  <2>1. \A x, y \in Handles :
           /\ x # y /\ saved[x] # 0 => saved[x] # saved[y]
           /\ x # y /\ version[x] # 0 => version[x] # version[y]
           /\ saved[x] # 0 => saved[x] # version[y]
    BY <1>1 DEF IInv, IdsDistinct
  <2> QED  BY <1>2, <1>3, <2>1
<1>8. IdsInWindow'
  BY <1>1, <1>2, <1>3 DEF IInv, IdsInWindow
<1>9. LoadedIsStale'
  <2> SUFFICES ASSUME NEW b \in Blobs, loads[b] > 0
               PROVE  /\ b.id # 0 /\ b.epoch <= epoch
                      /\ b.epoch = epoch =>
                           /\ b.id < context_counter /\ b.id # saved'[b.h]
                           /\ b.id # version'[b.h]
    BY <1>1 DEF LoadedIsStale
  <2>1. b.h \in Handles  BY DEF Blobs
  <2>2. context_counter # U64Max  BY <1>1 DEF IInv, TypeOK
  <2> QED  BY <1>2, <1>3, <2>1, <2>2 DEF IInv, LoadedIsStale
<1>10. NoReplay'  BY <1>1 DEF IInv, NoReplay
<1> QED  BY <1>4, <1>5, <1>6, <1>7, <1>8, <1>9, <1>10 DEF IInv

-----------------------------------------------------------------------------
(* TPM2_StartAuthSession and TPM2_ContextLoad give a session the counter's *)
(* value and step the counter.                                             *)

\* A fresh number keeps the invariant when every other active session is
\* within the gap, and the blob that was loaded, if one was, was the blob of
\* a saved session and had not been loaded.
LEMMA AssignIInv ==
  ASSUME IInv, TypeOK', NEW h \in Handles, h \notin sessions,
         sessions' = sessions \cup {h},
         version' = [version EXCEPT ![h] = context_counter],
         saved' = [saved EXCEPT ![h] = 0],
         context_counter' = Step(context_counter), epoch' = epoch,
         context_counter < U64Max =>
           \A g \in Handles : g # h =>
             /\ saved[g] # 0 => context_counter - saved[g] <= Gap
             /\ version[g] # 0 => context_counter - version[g] <= Gap,
         \A b \in Blobs :
           \/ loads'[b] = loads[b]
           \/ /\ b.h = h /\ b.id = saved[h] /\ saved[h] # 0 /\ b.epoch = epoch
              /\ loads[b] = 0 /\ loads'[b] = 1
  PROVE  IInv'
<1> USE BoundsAssumption DEF BoundsAssumption
<1>1. /\ context_counter \in 1 .. U64Max /\ context_counter \in Int /\ epoch \in Int
      /\ U64Max \in Int /\ Gap \in Int /\ Gap >= 1
      /\ \A g \in Handles : saved[g] \in Int /\ version[g] \in Int
  BY DEF IInv, TypeOK, Ids, Epochs
<1>2. /\ context_counter' \in Int /\ context_counter' >= context_counter
      /\ context_counter' <= context_counter + 1
      /\ context_counter' < U64Max => context_counter < U64Max
      /\ context_counter < U64Max => context_counter' = context_counter + 1
      /\ context_counter = U64Max => context_counter' = U64Max
  <2>1. context_counter = U64Max => Step(context_counter) = U64Max  BY <1>1 DEF Step
  <2> QED  BY <1>1, <2>1, StepFacts
<1>3. /\ saved'[h] = 0 /\ version'[h] = context_counter /\ context_counter # 0
      /\ \A g \in Handles : g # h => saved'[g] = saved[g] /\ version'[g] = version[g]
  BY <1>1 DEF IInv, TypeOK
<1>4. SlotsAgree'
  BY <1>3 DEF IInv, SlotsAgree
<1>5. IdsBehindCounter'
  <2> SUFFICES ASSUME NEW g \in Handles
               PROVE  /\ saved'[g] # 0 => saved'[g] < context_counter'
                      /\ version'[g] # 0 => version'[g] < context_counter' \/ context_counter' = U64Max
    BY DEF IdsBehindCounter
  <2>1. CASE g = h
    BY <1>1, <1>2, <1>3, <2>1
  <2>2. CASE g # h
    <3>1. saved'[g] = saved[g] /\ version'[g] = version[g]  BY <1>3, <2>2
    <3>2. /\ saved[g] # 0 => saved[g] < context_counter
          /\ version[g] # 0 => version[g] < context_counter \/ context_counter = U64Max
      BY DEF IInv, IdsBehindCounter
    <3> QED  BY <1>1, <1>2, <3>1, <3>2
  <2> QED  BY <2>1, <2>2
<1>6. IdsDistinct'
  <2> SUFFICES ASSUME context_counter' < U64Max, NEW f \in Handles, NEW g \in Handles
               PROVE  /\ f # g /\ saved'[f] # 0 => saved'[f] # saved'[g]
                      /\ f # g /\ version'[f] # 0 => version'[f] # version'[g]
                      /\ saved'[f] # 0 => saved'[f] # version'[g]
    BY DEF IdsDistinct
  <2>1. context_counter < U64Max  BY <1>2
  <2>2. \A x, y \in Handles :
           /\ x # y /\ saved[x] # 0 => saved[x] # saved[y]
           /\ x # y /\ version[x] # 0 => version[x] # version[y]
           /\ saved[x] # 0 => saved[x] # version[y]
    BY <2>1 DEF IInv, IdsDistinct
  <2>3. \A x \in Handles : saved[x] # context_counter /\ version[x] # context_counter
    <3> SUFFICES ASSUME NEW x \in Handles
                 PROVE  saved[x] # context_counter /\ version[x] # context_counter
      OBVIOUS
    <3>1. saved[x] # 0 => saved[x] < context_counter
      BY DEF IInv, IdsBehindCounter
    <3>2. version[x] # 0 => version[x] < context_counter
      BY <2>1, <1>1 DEF IInv, IdsBehindCounter
    <3> QED  BY <1>1, <1>3, <3>1, <3>2
  <2> QED  BY <1>3, <2>2, <2>3
<1>7. IdsInWindow'
  <2> SUFFICES ASSUME NEW g \in Handles
               PROVE  /\ saved'[g] # 0 => context_counter' - saved'[g] <= Gap + 1
                      /\ version'[g] # 0 => context_counter' - version'[g] <= Gap + 1
    BY DEF IdsInWindow
  <2>1. CASE g = h
    BY <1>1, <1>2, <1>3, <2>1
  <2>2. CASE g # h /\ context_counter < U64Max
    BY <1>1, <1>2, <1>3, <2>2
  <2>3. CASE g # h /\ ~(context_counter < U64Max)
    <3>1. context_counter' = context_counter  BY <1>1, <1>2, <2>3
    <3> QED  BY <1>1, <1>3, <2>3, <3>1 DEF IInv, IdsInWindow
  <2> QED  BY <2>1, <2>2, <2>3
<1>8. LoadedIsStale'
  <2> SUFFICES ASSUME NEW b \in Blobs, loads'[b] > 0
               PROVE  /\ b.id # 0 /\ b.epoch <= epoch
                      /\ b.epoch = epoch =>
                           /\ b.id < context_counter' /\ b.id # saved'[b.h]
                           /\ b.id # version'[b.h] \/ context_counter' = U64Max
    BY DEF LoadedIsStale
  <2>1. b.h \in Handles /\ b.id \in Int /\ b.epoch \in Int  BY DEF Blobs, Ids, Epochs
  <2>2. CASE loads'[b] = loads[b]
    <3>1. /\ b.id # 0 /\ b.epoch <= epoch
          /\ b.epoch = epoch =>
               /\ b.id < context_counter /\ b.id # saved[b.h]
               /\ b.id # version[b.h] \/ context_counter = U64Max
      BY <2>2 DEF IInv, LoadedIsStale
    <3>2. CASE b.h = h
      BY <1>1, <1>2, <1>3, <2>1, <3>1, <3>2
    <3>3. CASE b.h # h
      BY <1>1, <1>2, <1>3, <2>1, <3>1, <3>3
    <3> QED  BY <3>2, <3>3
  <2>3. CASE b.h = h /\ b.id = saved[h] /\ saved[h] # 0 /\ b.epoch = epoch
    <3>1. saved[h] < context_counter  BY <2>3 DEF IInv, IdsBehindCounter
    <3> QED  BY <1>1, <1>2, <1>3, <2>1, <2>3, <3>1
  <2> QED  BY <2>2, <2>3
<1>9. NoReplay'
  <2> SUFFICES ASSUME NEW b \in Blobs PROVE loads'[b] <= 1
    BY DEF NoReplay
  <2>1. loads[b] <= 1  BY DEF IInv, NoReplay
  <2> QED  BY <2>1
<1> QED  BY <1>4, <1>5, <1>6, <1>7, <1>8, <1>9 DEF IInv

\* Below the gap every active session is within it.
LEMMA BelowGap ==
  ASSUME IInv, ~AtContextGap, NEW g \in Handles
  PROVE  /\ saved[g] # 0 => context_counter - saved[g] <= Gap
         /\ version[g] # 0 => context_counter - version[g] <= Gap
<1> USE BoundsAssumption DEF BoundsAssumption
<1>1. context_counter \in Int /\ saved[g] \in Int /\ version[g] \in Int
  BY DEF IInv, TypeOK, Ids
<1>2. saved[g] # 0 => saved[g] \in ActiveIds  BY DEF ActiveIds, SavedHandles
<1>3. version[g] # 0 => version[g] \in ActiveIds
  BY DEF ActiveIds, IInv, SlotsAgree
<1> QED  BY <1>1, <1>2, <1>3 DEF AtContextGap

LEMMA StartAuthSessionIInv ==
  ASSUME IInv, NEW h \in Handles, NEW a \in Auditors, StartAuthSession(h, a)
  PROVE  IInv'
<1> USE BoundsAssumption DEF BoundsAssumption
<1>1. /\ ExclusiveAfter(a, FALSE) \in Handles \cup {Unassigned}
      /\ AuditsAfter(a) \in SUBSET Handles
  BY AuditorsFacts
<1>2. h \notin sessions /\ saved[h] = 0
  <2>1. h = <<h[1], h[2]>> /\ h[1] \in Types  BY DEF Handles
  <2>2. h[2] \in FreeIndices  BY DEF StartAuthSession, LowestFree
  <2>3. <<h[1], h[2]>> \notin ActiveHandles  BY <2>1, <2>2 DEF FreeIndices
  <2> QED  BY <2>1, <2>3 DEF ActiveHandles, SavedHandles
<1>3. /\ sessions' = sessions \cup {h} /\ epoch' = epoch /\ loads' = loads
      /\ version' = [version EXCEPT ![h] = context_counter]
      /\ context_counter' = Step(context_counter)
      /\ saved' = saved /\ object_counter' = object_counter /\ blobs' = blobs
      /\ exclusive' = ExclusiveAfter(a, FALSE) /\ is_audit' = AuditsAfter(a)
      /\ ~AtContextGap
  BY DEF StartAuthSession
<1>4. saved' = [saved EXCEPT ![h] = 0]  BY <1>2, <1>3 DEF IInv, TypeOK
<1>5. context_counter \in 1 .. U64Max /\ context_counter \in Ids
  BY DEF IInv, TypeOK, Ids
<1>6. context_counter' \in 1 .. U64Max  BY <1>3, <1>5, StepFacts
<1>7. TypeOK'  BY <1>1, <1>3, <1>5, <1>6 DEF IInv, TypeOK
<1>8. \A g \in Handles : g # h =>
        /\ saved[g] # 0 => context_counter - saved[g] <= Gap
        /\ version[g] # 0 => context_counter - version[g] <= Gap
  BY <1>3, BelowGap
<1> QED  BY <1>2, <1>3, <1>4, <1>7, <1>8, AssignIInv

LEMMA ContextLoadIInv ==
  ASSUME IInv, NEW b \in blobs, ContextLoad(b)
  PROVE  IInv'
<1> USE BoundsAssumption DEF BoundsAssumption
<1>1. b \in Blobs /\ b.h \in Handles  BY DEF IInv, TypeOK, Blobs
<1>2. /\ sessions' = sessions \cup {b.h} /\ epoch' = epoch
      /\ version' = [version EXCEPT ![b.h] = context_counter]
      /\ context_counter' = Step(context_counter)
      /\ saved' = [saved EXCEPT ![b.h] = 0]
      /\ object_counter' = object_counter /\ blobs' = blobs /\ exclusive' = exclusive
      /\ loads' = [loads EXCEPT ![b] = @ + 1]
      /\ saved[b.h] # 0 /\ saved[b.h] = b.id /\ b.epoch = epoch
      /\ AtContextGap => IsOldestActive(b.id)
  BY DEF ContextLoad, LoadAccepted
<1>3. b.h \notin sessions  BY <1>1, <1>2 DEF IInv, SlotsAgree
<1>4. is_audit' \in SUBSET Handles
  BY <1>1 DEF ContextLoad, IInv, TypeOK
<1>5. context_counter \in 1 .. U64Max /\ context_counter \in Ids
  BY DEF IInv, TypeOK, Ids
<1>6. context_counter' \in 1 .. U64Max  BY <1>2, <1>5, StepFacts
<1>7. loads[b] = 0 /\ loads'[b] = 1 /\ \A c \in Blobs : c # b => loads'[c] = loads[c]
  <2>1. loads[b] \in Nat  BY <1>1 DEF IInv, TypeOK
  <2>2. ~(loads[b] > 0)  BY <1>1, <1>2 DEF IInv, LoadedIsStale
  <2> QED  BY <1>1, <1>2, <2>1, <2>2 DEF IInv, TypeOK
<1>8. loads' \in [Blobs -> Nat]  BY <1>1, <1>2 DEF IInv, TypeOK
<1>9. TypeOK'  BY <1>1, <1>2, <1>4, <1>5, <1>6, <1>8 DEF IInv, TypeOK, Ids
<1>10. ASSUME context_counter < U64Max, NEW g \in Handles, g # b.h
       PROVE  /\ saved[g] # 0 => context_counter - saved[g] <= Gap
              /\ version[g] # 0 => context_counter - version[g] <= Gap
  <2>1. CASE ~AtContextGap
    BY <2>1, BelowGap
  <2>2. CASE AtContextGap
    <3>1. /\ context_counter \in Int /\ saved[g] \in Int /\ version[g] \in Int
          /\ b.id \in Int /\ Gap \in Int
      BY <1>1 DEF IInv, TypeOK, Ids, Blobs
    <3>2. saved[g] # 0 => b.id <= saved[g]
      BY <1>2, <2>2 DEF IsOldestActive, ActiveIds, SavedHandles
    <3>3. version[g] # 0 => b.id <= version[g]
      <4>1. version[g] # 0 => g \in sessions  BY DEF IInv, SlotsAgree
      <4> QED  BY <1>2, <2>2, <4>1 DEF IsOldestActive, ActiveIds
    <3>4. b.id # saved[g] /\ b.id # version[g]
      BY <1>1, <1>2, <1>10 DEF IInv, IdsDistinct
    <3>5. context_counter - b.id <= Gap + 1
      BY <1>1, <1>2 DEF IInv, IdsInWindow
    <3> QED  BY <3>1, <3>2, <3>3, <3>4, <3>5
  <2> QED  BY <2>1, <2>2
<1>11. \A c \in Blobs :
         \/ loads'[c] = loads[c]
         \/ /\ c.h = b.h /\ c.id = saved[b.h] /\ saved[b.h] # 0 /\ c.epoch = epoch
            /\ loads[c] = 0 /\ loads'[c] = 1
  BY <1>2, <1>7
<1> QED  BY <1>1, <1>2, <1>3, <1>9, <1>10, <1>11, AssignIInv

-----------------------------------------------------------------------------
(* Every step, and the theorems.                                           *)

LEMMA NextIInv == IInv /\ [Next]_vars => IInv'
<1> SUFFICES ASSUME IInv, [Next]_vars PROVE IInv'
  OBVIOUS
<1> USE BoundsAssumption DEF BoundsAssumption
<1>1. ASSUME NEW h \in Handles, NEW a \in Auditors, StartAuthSession(h, a) PROVE IInv'
  BY <1>1, StartAuthSessionIInv
<1>2. ASSUME NEW h \in Handles, ContextSave(h) PROVE IInv'
  BY <1>2, ContextSaveIInv
<1>3. ASSUME NEW h \in Handles, FlushContext(h) PROVE IInv'
  <2>1. PICK c \in FlushCandidates(h) : /\ Drop(c)
                                        /\ is_audit' = is_audit \ {c}
                                        /\ exclusive' = WithoutHandle(exclusive, c)
    BY <1>3 DEF FlushContext
  <2>2. c \in Handles
    BY DEF FlushCandidates, ActiveHandles, SavedHandles, IInv, TypeOK
  <2>3. is_audit' \in SUBSET Handles /\ exclusive' \in Handles \cup {Unassigned}
    BY <2>1 DEF IInv, TypeOK, WithoutHandle
  <2> QED  BY <2>1, <2>2, <2>3, FlushContextIInv
<1>4. ASSUME ContextSaveObject PROVE IInv'
  <2>1. object_counter' \in 1 .. U64Max
    BY <1>4, StepFacts DEF ContextSaveObject, IInv, TypeOK
  <2> QED  BY <1>4, <2>1, QuietIInv DEF ContextSaveObject, IInv, TypeOK
<1>5. ASSUME NEW b \in blobs, ContextLoad(b) PROVE IInv'
  BY <1>5, ContextLoadIInv
<1>6. ASSUME NEW a \in Auditors, NEW keeps \in BOOLEAN, Command(a, keeps) PROVE IInv'
  <2>1. is_audit' \in SUBSET Handles /\ exclusive' \in Handles \cup {Unassigned}
    BY <1>6, AuditorsFacts DEF Command
  <2>2. object_counter' \in 1 .. U64Max
    BY <1>6 DEF Command, IInv, TypeOK
  <2> QED  BY <1>6, <2>1, <2>2, QuietIInv DEF Command
<1>7. ASSUME NEW h \in sessions, NEW a \in Auditors, NEW keeps \in BOOLEAN,
             CloseSession(h, a, keeps)
      PROVE  IInv'
  <2>1. h \in Handles  BY DEF IInv, TypeOK
  <2>2. is_audit' \in SUBSET Handles /\ exclusive' \in Handles \cup {Unassigned}
    BY <1>7, AuditorsFacts DEF CloseSession, WithoutHandle
  <2> QED  BY <1>7, <2>1, <2>2, FlushContextIInv DEF CloseSession
<1>8. ASSUME NEW a \in Auditors, Suspend(a) PROVE IInv'
  BY <1>8, SuspendIInv
<1>9. ASSUME Reset PROVE IInv'
  BY <1>9, ResetIInv
<1>10. ASSUME UNCHANGED vars PROVE IInv'
  BY <1>10, QuietIInv DEF vars, IInv, TypeOK
<1> QED  BY <1>1, <1>2, <1>3, <1>4, <1>5, <1>6, <1>7, <1>8, <1>9, <1>10 DEF Next

\* The inductive invariant: loaded and saved sessions are disjoint, their
\* numbers are distinct, behind the counter and within one of the gap, and
\* a blob that was loaded is stale for good.
THEOREM SessionsIInv == Spec => []IInv
  BY InitIInv, NextIInv, PTL DEF Spec

\* restore's promise (session.rs:854): whatever is saved, flushed, reset and
\* presented again, no session context is ever loaded twice.
THEOREM SessionsNoReplay == Spec => []NoReplay
<1>1. IInv => NoReplay  BY DEF IInv
<1> QED  BY <1>1, SessionsIInv, PTL

\* A saved session always passes context_load's range check, and is refused
\* only while the window is full and an older session stands before it.
THEOREM SessionsSavedStaysLoadable == Spec => []SavedStaysLoadable
<1>1. IInv => SavedStaysLoadable
  <2> USE BoundsAssumption DEF BoundsAssumption
  <2> SUFFICES ASSUME IInv, NEW b \in blobs,
                      b.epoch = epoch, saved[b.h] # 0, b.id = saved[b.h]
               PROVE  /\ Viable(b.id)
                      /\ (~AtContextGap \/ IsOldestActive(b.id)) => LoadAccepted(b)
    BY DEF SavedStaysLoadable
  <2>1. b.h \in Handles  BY DEF IInv, TypeOK, Blobs
  <2>2. context_counter \in Int /\ saved[b.h] \in Int /\ Gap \in Int
    BY <2>1 DEF IInv, TypeOK, Ids
  <2>3. saved[b.h] < context_counter /\ context_counter - saved[b.h] <= Gap + 1
    BY <2>1 DEF IInv, IdsBehindCounter, IdsInWindow
  <2>4. Viable(b.id)  BY <2>2, <2>3 DEF Viable
  <2> QED  BY <2>4 DEF LoadAccepted
<1> QED  BY <1>1, SessionsIInv, PTL

\* TPM2_ContextSave gave every saved session's context to a caller: it is among
\* those that may be presented, under the resetValue in force.
Held ==
  \A h \in Handles : saved[h] # 0 => \E b \in blobs : b.h = h /\ b.id = saved[h] /\ b.epoch = epoch

LEMMA NextHeld == IInv /\ Held /\ [Next]_vars => Held'
<1> SUFFICES ASSUME IInv, Held, [Next]_vars PROVE Held'
  OBVIOUS
\* A step that saves nothing, and forgets no context.
<1>1. ASSUME blobs \subseteq blobs', epoch' = epoch,
             \A h \in Handles : saved'[h] \in {0, saved[h]}
      PROVE  Held'
  BY <1>1 DEF Held
<1>2. ASSUME NEW h \in Handles, NEW a \in Auditors, StartAuthSession(h, a) PROVE Held'
  BY <1>1, <1>2 DEF StartAuthSession
<1>3. ASSUME NEW h \in Handles, ContextSave(h) PROVE Held'
  <2> DEFINE blob == [h |-> h, id |-> version[h], epoch |-> epoch, audit |-> h \in is_audit]
  <2>1. blobs' = blobs \cup {blob} /\ saved' = [saved EXCEPT ![h] = version[h]] /\ epoch' = epoch
    BY <1>3, Zenon DEF ContextSave
  <2>2. blob.h = h /\ blob.id = version[h] /\ blob.epoch = epoch
    OBVIOUS
  <2> HIDE DEF blob
  <2>3. ASSUME NEW g \in Handles, saved'[g] # 0
        PROVE  \E b \in blobs' : b.h = g /\ b.id = saved'[g] /\ b.epoch = epoch'
    <3>1. CASE g = h
      <4>1. saved'[h] = version[h]
        BY <2>1 DEF IInv, TypeOK
      <4> QED
        BY <2>1, <2>2, <3>1, <4>1
    <3>2. CASE g # h
      <4>1. saved'[g] = saved[g]
        BY <2>1, <3>2 DEF IInv, TypeOK
      <4> QED
        BY <2>1, <2>3, <4>1 DEF Held
    <3> QED
      BY <3>1, <3>2
  <2> QED
    BY <2>3 DEF Held
<1>4. ASSUME NEW c, Drop(c) PROVE Held'
  BY <1>1, <1>4 DEF Drop, IInv, TypeOK
<1>5. ASSUME NEW h \in Handles, FlushContext(h) PROVE Held'
  BY <1>4, <1>5 DEF FlushContext
<1>6. ASSUME ContextSaveObject PROVE Held'
  BY <1>1, <1>6 DEF ContextSaveObject
<1>7. ASSUME NEW b \in blobs, ContextLoad(b) PROVE Held'
  BY <1>1, <1>7 DEF ContextLoad, IInv, TypeOK
<1>8. ASSUME NEW a \in Auditors, NEW keeps \in BOOLEAN, Command(a, keeps) PROVE Held'
  BY <1>1, <1>8 DEF Command
<1>9. ASSUME NEW h \in sessions, NEW a \in Auditors, NEW keeps \in BOOLEAN,
             CloseSession(h, a, keeps)
      PROVE  Held'
  BY <1>4, <1>9 DEF CloseSession
<1>10. ASSUME NEW a \in Auditors, Suspend(a) PROVE Held'
  BY <1>1, <1>10 DEF Suspend
<1>11. ASSUME Reset PROVE Held'
  BY <1>11 DEF Reset, NoIds, Held
<1>12. ASSUME UNCHANGED vars PROVE Held'
  BY <1>1, <1>12 DEF vars
<1> QED
  BY <1>2, <1>3, <1>5, <1>6, <1>7, <1>8, <1>9, <1>10, <1>11, <1>12 DEF Next

\* At the context gap the oldest session is exactly one past the gap, which is
\* as far back as context_load takes it: it is loaded, or a caller can load it.
THEOREM SessionsGapHasRemedy == Spec => []GapHasRemedy
<1>1. Init => Held
  BY DEF Init, NoIds, Held
<1>2. IInv /\ Held => GapHasRemedy
  <2> SUFFICES ASSUME IInv, Held, AtContextGap
               PROVE  \/ \E h \in sessions : IsOldestActive(version[h])
                      \/ \E b \in blobs : LoadAccepted(b)
    BY DEF GapHasRemedy
  <2>1. /\ context_counter \in Int /\ Gap \in Int
        /\ \A h \in Handles : saved[h] \in Int /\ version[h] \in Int
    BY BoundsAssumption DEF BoundsAssumption, IInv, TypeOK, Ids
  <2>2. sessions \subseteq Handles /\ \A h \in sessions : version[h] # 0
    BY DEF IInv, TypeOK, SlotsAgree
  <2>3. \A other \in ActiveIds : other \in Int /\ context_counter - other <= Gap + 1
    BY <2>1, <2>2 DEF ActiveIds, SavedHandles, IInv, IdsInWindow
  <2>4. PICK id \in ActiveIds : context_counter - id > Gap
    BY DEF AtContextGap
  <2>5. id = context_counter - Gap - 1 /\ IsOldestActive(id)
    BY <2>1, <2>3, <2>4 DEF IsOldestActive
  <2>6. CASE \E h \in sessions : id = version[h]
    BY <2>5, <2>6
  <2>7. CASE \E h \in SavedHandles : id = saved[h]
    <3>1. PICK h \in SavedHandles : id = saved[h]
      BY <2>7
    <3>2. PICK b \in blobs : b.h = h /\ b.id = saved[h] /\ b.epoch = epoch
      BY DEF Held, SavedHandles
    <3>3. saved[h] < context_counter
      BY DEF SavedHandles, IInv, IdsBehindCounter
    <3>4. Viable(b.id)
      BY <2>1, <2>5, <3>1, <3>2, <3>3 DEF Viable, SavedHandles
    <3>5. LoadAccepted(b)
      BY <2>5, <3>1, <3>2, <3>4 DEF LoadAccepted, SavedHandles
    <3> QED
      BY <3>5
  <2> QED
    BY <2>6, <2>7 DEF ActiveIds
<1> QED
  BY <1>1, <1>2, InitIInv, NextIInv, NextHeld, PTL DEF Spec

=============================================================================
