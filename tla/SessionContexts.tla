--------------------------- MODULE SessionContexts ---------------------------
(***************************************************************************)
(* The sessions a TPM tracks, loaded or saved: SessionSlots of             *)
(* src/src/tpm/core/session.rs, with the commands that move a session in   *)
(* and out of memory (TPM2_StartAuthSession, TPM2_ContextSave,             *)
(* TPM2_ContextLoad, TPM2_FlushContext, the continueSession flag) and the  *)
(* exclusive audit session they carry along.                               *)
(*                                                                         *)
(* A saved context leaves the TPM: the caller keeps the blob and may       *)
(* present any blob it was ever given, in any order and as often as it     *)
(* likes.  A blob is what open_context authenticates: the handle, the      *)
(* sequence number, the resetValue it was sealed under, and the session    *)
(* (here, whether it is an audit session).  Blobs are never forged.        *)
(***************************************************************************)
EXTENDS Integers, FiniteSets

CONSTANTS
  MaxLoaded,   \* MAX_LOADED_SESSIONS (32)
  MaxActive,   \* MAX_ACTIVE_SESSIONS (64)
  Gap,         \* CONTEXT_GAP_MAX (2^16 - 1)
  U64Max,      \* where both 64-bit counters stop
  MaxEpoch     \* bound: TPM Resets

ASSUME BoundsAssumption ==
  /\ MaxLoaded \in Nat \ {0}
  /\ MaxActive \in Nat \ {0}
  /\ Gap \in Nat \ {0}
  /\ U64Max \in Nat \ {0}
  /\ MaxEpoch \in Nat \ {0}

Types      == {"hmac", "policy"}          \* the upper octet of a handle
Indices    == 0 .. MaxActive - 1          \* the low order three octets
Handles    == Types \X Indices
Ids        == 0 .. U64Max                 \* 0 means "not assigned"
Epochs     == 1 .. MaxEpoch
Blobs      == [h : Handles, id : Ids, epoch : Epochs, audit : BOOLEAN]
Unassigned == <<"unassigned", 0>>

VARIABLES
  sessions,         \* the handles of the loaded sessions
  version,          \* SessionSlots.version: the id of a loaded session, else 0
  saved,            \* SessionSlots.saved: the id of a saved session, else 0
  context_counter,
  object_counter,
  is_audit,         \* the loaded sessions that have audited a command
  exclusive,        \* AuditState.exclusive_session
  epoch,            \* clock.reset_value, drawn anew at each TPM Reset
  blobs,            \* the session contexts callers hold
  loads             \* history: how often each blob was loaded

vars == <<sessions, version, saved, context_counter, object_counter,
          is_audit, exclusive, epoch, blobs, loads>>

TypeOK ==
  /\ sessions \in SUBSET Handles
  /\ version \in [Handles -> Ids]
  /\ saved \in [Handles -> Ids]
  /\ context_counter \in 1 .. U64Max
  /\ object_counter \in 1 .. U64Max
  /\ is_audit \in SUBSET Handles
  /\ exclusive \in Handles \cup {Unassigned}
  /\ epoch \in Epochs
  /\ blobs \in SUBSET Blobs
  /\ loads \in [Blobs -> Nat]

NoIds == [h \in Handles |-> 0]

Init ==
  /\ sessions = {}
  /\ version = NoIds
  /\ saved = NoIds
  /\ context_counter = 1
  /\ object_counter = 1
  /\ is_audit = {}
  /\ exclusive = Unassigned
  /\ epoch = 1
  /\ blobs = {}
  /\ loads = [b \in Blobs |-> 0]

-----------------------------------------------------------------------------
SavedHandles  == {h \in Handles : saved[h] # 0}
ActiveHandles == sessions \cup SavedHandles
ActiveIds     == {version[h] : h \in sessions} \cup {saved[h] : h \in SavedHandles}

\* saturating_add
Step(counter) == IF counter < U64Max THEN counter + 1 ELSE counter

CountersExhausted == context_counter = U64Max \/ object_counter = U64Max

\* The lowest numbered active session is further from the counter than the
\* gap allows.
AtContextGap == \E id \in ActiveIds : context_counter - id > Gap

\* at the gap the only context that may be loaded is that of oldest_active
IsOldestActive(id) == id \in ActiveIds /\ \A other \in ActiveIds : id <= other

\* The identifier pool is shared by both handle ranges; allocate_handle takes
\* the lowest one that is free.
FreeIndices == {i \in Indices : \A t \in Types : <<t, i>> \notin ActiveHandles}

LowestFree(i) == i \in FreeIndices /\ \A j \in FreeIndices : i <= j

-----------------------------------------------------------------------------
\* The session a command names for audit, if any: check_audit_session takes
\* loaded HMAC sessions only.
Auditors == {h \in sessions : h[1] = "hmac"} \cup {Unassigned}

\* What update_audit makes of the exclusive session when a command succeeds:
\* the session that audited it, or none, except that a command that keeps
\* exclusivity (TPM2_ReadClock) without auditing leaves it alone.
ExclusiveAfter(a, keeps) ==
  IF a = Unassigned /\ keeps THEN exclusive ELSE a

AuditsAfter(a) == is_audit \cup ({a} \ {Unassigned})

\* TPM2_StartAuthSession: allocate_handle, then insert, which may still refuse.
StartAuthSession(h, a) ==
  /\ a \in Auditors
  /\ LowestFree(h[2])
  /\ Cardinality(sessions) < MaxLoaded
  /\ Cardinality(sessions) + Cardinality(SavedHandles) < MaxActive
  /\ ~AtContextGap
  /\ ~CountersExhausted
  /\ sessions' = sessions \cup {h}
  /\ version' = [version EXCEPT ![h] = context_counter]
  /\ context_counter' = Step(context_counter)
  /\ exclusive' = ExclusiveAfter(a, FALSE)
  /\ is_audit' = AuditsAfter(a)
  /\ UNCHANGED <<saved, object_counter, epoch, blobs, loads>>

\* TPM2_ContextSave of a session.  The id it carries was taken when it was
\* created or last loaded.
ContextSave(h) ==
  /\ ~CountersExhausted
  /\ h \in sessions
  /\ sessions' = sessions \ {h}
  /\ saved' = [saved EXCEPT ![h] = version[h]]
  /\ version' = [version EXCEPT ![h] = 0]
  /\ is_audit' = is_audit \ {h}
  /\ blobs' = blobs \cup
       {[h |-> h, id |-> version[h], epoch |-> epoch, audit |-> h \in is_audit]}
  /\ UNCHANGED <<context_counter, object_counter, exclusive, epoch, loads>>

\* TPM2_ContextSave of a transient object or a sequence takes a number of its own.
ContextSaveObject ==
  /\ ~CountersExhausted
  /\ object_counter' = Step(object_counter)
  /\ UNCHANGED <<sessions, version, saved, context_counter, is_audit, exclusive,
                 epoch, blobs, loads>>

\* Mutant: The range check takes the counter itself for the current value.
ViableOffByOne(id) ==
  /\ id <= context_counter - 1
  /\ id + Gap >= context_counter

\* The range of sequence numbers context_load takes for a session.
Viable(id) ==
  /\ id <= context_counter - 1
  /\ id + Gap >= context_counter - 1

\* Mutant: a full window refuses every context, the oldest one too.
LoadAcceptedBelowGap(b) ==
  /\ Viable(b.id)
  /\ ~AtContextGap
  /\ b.epoch = epoch
  /\ saved[b.h] # 0 /\ saved[b.h] = b.id

\* Mutant: restore does not compare the version.
LoadAcceptedAnyVersion(b) ==
  /\ Viable(b.id)
  /\ AtContextGap => IsOldestActive(b.id)
  /\ b.epoch = epoch
  /\ saved[b.h] # 0

\* The checks context_load and restore make before anything changes: the
\* range, the gap, the integrity value (which covers resetValue), and that
\* this is the version of the session the TPM put away.
LoadAccepted(b) ==
  /\ Viable(b.id)
  /\ AtContextGap => IsOldestActive(b.id)
  /\ b.epoch = epoch
  /\ saved[b.h] # 0 /\ saved[b.h] = b.id

\* TPM2_ContextLoad of a session context.
ContextLoad(b) ==
  /\ LoadAccepted(b)
  /\ Cardinality(sessions) < MaxLoaded
  /\ sessions' = sessions \cup {b.h}
  /\ version' = [version EXCEPT ![b.h] = context_counter]
  /\ context_counter' = Step(context_counter)
  /\ saved' = [saved EXCEPT ![b.h] = 0]
  /\ is_audit' = IF b.audit THEN is_audit \cup {b.h} ELSE is_audit
  /\ loads' = [loads EXCEPT ![b] = @ + 1]
  /\ UNCHANGED <<object_counter, exclusive, epoch, blobs>>

\* What flush and remove take away: the session, loaded or saved, with its number.
Drop(h) ==
  /\ sessions' = sessions \ {h}
  /\ version' = [version EXCEPT ![h] = 0]
  /\ saved' = [saved EXCEPT ![h] = 0]
  /\ UNCHANGED <<context_counter, object_counter, epoch, blobs, loads>>

WithoutHandle(e, h) == IF e = h THEN Unassigned ELSE e

\* TPM2_FlushContext ignores the upper octet, trying the handle as written first.
FlushCandidates(h) ==
  IF h \in ActiveHandles THEN {h} ELSE {c \in ActiveHandles : c[2] = h[2]}

FlushContext(h) ==
  \E c \in FlushCandidates(h) :
    /\ Drop(c)
    /\ is_audit' = is_audit \ {c}
    /\ exclusive' = WithoutHandle(exclusive, c)

\* Any other command that succeeds and keeps the sessions it carried: audited
\* by one of them or by none.
Command(a, keeps) ==
  /\ a \in Auditors
  /\ exclusive' = ExclusiveAfter(a, keeps)
  /\ is_audit' = AuditsAfter(a)
  /\ UNCHANGED <<sessions, version, saved, context_counter, object_counter,
                 epoch, blobs, loads>>

\* The same with continueSession CLEAR in the session of h, which
\* close_sessions removes after the audit has been brought up to date.
CloseSession(h, a, keeps) ==
  /\ a \in Auditors
  /\ h \in sessions
  /\ Drop(h)
  /\ exclusive' = WithoutHandle(ExclusiveAfter(a, keeps), h)
  /\ is_audit' = AuditsAfter(a) \ {h}

\* TPM2_Shutdown(TPM_SU_STATE), which a session may audit, a power cycle, and
\* the TPM Restart or Resume that follows: flush_loaded at every one of them.
Suspend(a) ==
  /\ a \in Auditors
  /\ sessions' = {}
  /\ version' = NoIds
  /\ is_audit' = {}
  /\ exclusive' = a
  /\ UNCHANGED <<saved, context_counter, object_counter, epoch, blobs, loads>>

\* A TPM Reset: sessions.clear, a new resetValue, no exclusive session.
Reset ==
  /\ epoch < MaxEpoch
  /\ sessions' = {}
  /\ version' = NoIds
  /\ saved' = NoIds
  /\ context_counter' = 1
  /\ object_counter' = 1
  /\ is_audit' = {}
  /\ exclusive' = Unassigned
  /\ epoch' = epoch + 1
  /\ UNCHANGED <<blobs, loads>>

Next ==
  \/ \E h \in Handles, a \in Auditors : StartAuthSession(h, a)
  \/ \E h \in Handles : ContextSave(h) \/ FlushContext(h)
  \/ ContextSaveObject
  \/ \E b \in blobs : ContextLoad(b)
  \/ \E a \in Auditors, keeps \in BOOLEAN : Command(a, keeps)
  \/ \E h \in sessions, a \in Auditors, keeps \in BOOLEAN : CloseSession(h, a, keeps)
  \/ \E a \in Auditors : Suspend(a)
  \/ Reset

Spec == Init /\ [][Next]_vars

-----------------------------------------------------------------------------
(* Correctness.                                                            *)

\* "a saved session context may only be loaded once" (session.rs:854): no
\* blob is ever loaded twice, whatever order old blobs of reused handles, of
\* earlier saves and of earlier resets are presented in.
NoReplay == \A b \in Blobs : loads[b] <= 1

\* The gap rules never strand a saved session: its context is always inside
\* the range context_load accepts, so as long as the window is not full it
\* can be loaded, and while it is full the one it waits for can.
SavedStaysLoadable ==
  \A b \in blobs :
    /\ b.epoch = epoch /\ saved[b.h] # 0 /\ b.id = saved[b.h]
    => /\ Viable(b.id)
       /\ (~AtContextGap \/ IsOldestActive(b.id)) => LoadAccepted(b)

\* A full window always has a remedy: the oldest session is loaded, so it can
\* be saved and loaded again, or it is saved and its blob is one a caller holds.
GapHasRemedy ==
  AtContextGap =>
    \/ \E h \in sessions : IsOldestActive(version[h])
    \/ \E b \in blobs : LoadAccepted(b)

-----------------------------------------------------------------------------
(* The inductive invariant behind them.                                    *)

\* Loaded and versioned are the same sessions, and none of them is also saved.
SlotsAgree ==
  \A h \in Handles :
    /\ h \in sessions <=> version[h] # 0
    /\ h \in sessions => saved[h] = 0
    /\ saved[h] # 0 => version[h] = 0

\* Every number handed out is behind the counter, until the counter stops.
IdsBehindCounter ==
  \A h \in Handles :
    /\ saved[h] # 0 => saved[h] < context_counter
    /\ version[h] # 0 => version[h] < context_counter \/ context_counter = U64Max

\* No two active sessions carry the same number, until the counter stops.
IdsDistinct ==
  context_counter < U64Max =>
    \A g, h \in Handles :
      /\ g # h /\ saved[g] # 0 => saved[g] # saved[h]
      /\ g # h /\ version[g] # 0 => version[g] # version[h]
      /\ saved[g] # 0 => saved[g] # version[h]

\* No active session is further back than one past the gap.
IdsInWindow ==
  \A h \in Handles :
    /\ saved[h] # 0 => context_counter - saved[h] <= Gap + 1
    /\ version[h] # 0 => context_counter - version[h] <= Gap + 1

\* A blob that was loaded is older than anything its handle can carry again.
LoadedIsStale ==
  \A b \in Blobs :
    loads[b] > 0 =>
      /\ b.id # 0 /\ b.epoch <= epoch
      /\ b.epoch = epoch =>
           /\ b.id < context_counter /\ b.id # saved[b.h]
           /\ b.id # version[b.h] \/ context_counter = U64Max

IInv ==
  /\ TypeOK
  /\ SlotsAgree
  /\ IdsBehindCounter
  /\ IdsDistinct
  /\ IdsInWindow
  /\ LoadedIsStale
  /\ NoReplay
=============================================================================
