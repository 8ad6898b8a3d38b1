--------------------------------- MODULE Nv ---------------------------------
(***************************************************************************)
(* NV Indices: NvStore and NvIndex (src/src/tpm/core/nv.rs), the TPM2_NV_* *)
(* commands (src/src/tpm/commands/nv.rs), and what TPM2_Clear and the two  *)
(* startups do to them (src/src/tpm/core/state.rs).                        *)
(*                                                                         *)
(* Every command here but TPM2_NV_Read is marked nv in the command table,  *)
(* so the file holds the same Indices as memory and differs from it only   *)
(* in the shutdown type, which any command undoes in memory.  Module       *)
(* Device takes the write of the file apart.                               *)
(*                                                                         *)
(* An Index that passes validate_new_public has a reader and a writer; an  *)
(* authorisation that fails, a disabled hierarchy and a lack of space      *)
(* refuse a command and change nothing here.  The data of an Index is a    *)
(* sequence: the value of a counter, the octet of an ordinary Index, the   *)
(* one bit of a bit field, or what an extend Index was extended with.      *)
(***************************************************************************)
EXTENDS Integers, Sequences, FiniteSets

CONSTANTS
  Handles,      \* NV Index handles
  Publics,      \* the public areas a caller asks for: [type, attributes]
  Counters,     \* MIN_COUNTER_INDICES, which is the most there may be
  OrderlyStep,  \* MAX_ORDERLY_COUNT + 1, a power of two
  MaxCount,     \* bound: the value of a counter
  MaxBoots      \* bound: power cycles and crashes

Types      == {"counter", "ordinary", "bits", "extend"}
Attributes == {"ORDERLY", "PLATFORMCREATE", "WRITEDEFINE", "WRITE_STCLEAR",
               "READ_STCLEAR", "CLEAR_STCLEAR", "GLOBALLOCK", "POLICY_DELETE"}

ASSUME NvAssumption ==
  /\ Publics \subseteq [type : Types, attributes : SUBSET Attributes]
  /\ Counters \in Nat /\ OrderlyStep \in Nat \ {0}
  /\ MaxCount \in Nat /\ MaxBoots \in Nat

VARIABLES
  indices,          \* NvStore.indices
  highest_counter,  \* NvStore.highest_counter
  started,          \* TpmState.started
  shutdown,         \* TpmState.shutdown_type
  file_shutdown,    \* the shutdown type in the file
  boots,            \* power cycles and crashes so far
  counted           \* history: the highest value TPM2_NV_Increment gave each handle

vars == <<indices, highest_counter, started, shutdown, file_shutdown, boots, counted>>
history == <<boots, counted>>

-----------------------------------------------------------------------------
(* NvIndex *)

Max2(a, b) == IF a > b THEN a ELSE b

Fresh(p) ==
  [type |-> p.type, attributes |-> p.attributes, written |-> FALSE, data |-> <<>>,
   read_locked |-> FALSE, write_locked |-> FALSE]

Has(i, a) == a \in i.attributes

IsCounter(i) == i.type = "counter"

\* set_written, after the data is replaced
Stored(i, data) == [i EXCEPT !.data = data, !.written = TRUE]

\* The value of a written counter, and zero for any other Index.
Value(i) == IF IsCounter(i) /\ i.written THEN i.data[1] ELSE 0

\* Mutant: a counter starts at one, whatever an earlier one had reached.
NextCountFromOne(i, floor) == IF i.written THEN i.data[1] + 1 ELSE 1

\* NvIndex::increment.  wrapping_add and saturating_add are out of reach of a
\* 64-bit count.
NextCount(i, floor) == IF i.written THEN i.data[1] + 1 ELSE floor + 1

\* v | MAX_ORDERLY_COUNT
OrderlyJump(v) == v - (v % OrderlyStep) + (OrderlyStep - 1)

Permanent(i) == Has(i, "WRITEDEFINE") /\ i.written

-----------------------------------------------------------------------------
(* NvStore *)

Defined == DOMAIN indices

With(h, i) == [g \in Defined \union {h} |-> IF g = h THEN i ELSE indices[g]]

Only(S) == [g \in S |-> indices[g]]

\* The mark define, undefine and increment keep up with a written counter.
Raised(i) == Max2(highest_counter, Value(i))

\* The values TpmState::load raises the mark to, one by one: those of the
\* Indices as it defines them, and the mark in the file.
Marks == {highest_counter} \union {Value(indices[h]) : h \in Defined}

\* Mutant: a Reset takes the data of every orderly Index.
ResetDataOfAll(i, restart) ==
  IF (Has(i, "ORDERLY") /\ ~restart) \/ Has(i, "CLEAR_STCLEAR")
  THEN [i EXCEPT !.data = <<>>, !.written = FALSE]
  ELSE i

\* What a Reset or a Restart takes from an orderly or CLEAR_STCLEAR Index.
ResetData(i, restart) ==
  IF (Has(i, "ORDERLY") /\ ~IsCounter(i) /\ ~restart) \/ Has(i, "CLEAR_STCLEAR")
  THEN [i EXCEPT !.data = <<>>, !.written = FALSE]
  ELSE i

\* Mutant: every write lock goes with the startup.
UnlockAll(i) == [i EXCEPT !.read_locked = FALSE, !.write_locked = FALSE]

\* The locks a startup drops: looked at before the data is taken.
Unlock(i) ==
  [i EXCEPT !.read_locked  = @ /\ ~Has(i, "READ_STCLEAR"),
            !.write_locked = @ /\ Permanent(i)]

\* An orderly counter after a shutdown that saved nothing.
Repaired(i, disorderly) ==
  IF disorderly /\ Has(i, "ORDERLY") /\ IsCounter(i) /\ i.written
  THEN [i EXCEPT !.data = <<OrderlyJump(i.data[1])>>]
  ELSE i

\* on_startup_clear_with, for one Index
OnStartup(i, restart, disorderly) ==
  Repaired(ResetData(Unlock(i), restart), disorderly)

-----------------------------------------------------------------------------
Init ==
  /\ indices = [h \in {} |-> <<>>]
  /\ highest_counter = 0
  /\ started = FALSE
  /\ shutdown = "none" /\ file_shutdown = "none"
  /\ boots = 0
  /\ counted = [h \in Handles |-> 0]

\* run, then persist: a command undoes the shutdown before anything else.
Command ==
  /\ started
  /\ shutdown' = "none" /\ file_shutdown' = "none"
  /\ UNCHANGED <<started, boots>>

\* The Indices a command leaves.
Leaves(new) == indices' = new

\* validate_new_public and the checks of define that this state tells apart
ValidPublic(p, auth) ==
  /\ ~(p.type = "counter" /\ "CLEAR_STCLEAR" \in p.attributes)
  /\ ("PLATFORMCREATE" \in p.attributes) = (auth = "platform")
  /\ "POLICY_DELETE" \in p.attributes => auth = "platform"

CounterCount == Cardinality({h \in Defined : IsCounter(indices[h])})

\* TPM2_NV_DefineSpace and TPM2_NV_DefineSpace2
DefineSpace(h, p, auth) ==
  /\ Command
  /\ h \notin Defined
  /\ ValidPublic(p, auth)
  /\ p.type = "counter" => CounterCount < Counters
  /\ Leaves(With(h, Fresh(p)))
  /\ UNCHANGED <<highest_counter, counted>>

\* TPM2_NV_UndefineSpace
UndefineSpace(h, auth) ==
  /\ Command
  /\ h \in Defined
  /\ ~Has(indices[h], "POLICY_DELETE")
  /\ Has(indices[h], "PLATFORMCREATE") => auth = "platform"
  /\ highest_counter' = Raised(indices[h])
  /\ Leaves(Only(Defined \ {h}))
  /\ UNCHANGED counted

\* TPM2_NV_UndefineSpaceSpecial
UndefineSpaceSpecial(h) ==
  /\ Command
  /\ h \in Defined
  /\ Has(indices[h], "POLICY_DELETE")
  /\ highest_counter' = Raised(indices[h])
  /\ Leaves(Only(Defined \ {h}))
  /\ UNCHANGED counted

\* writable, and the command it lets in
Writable(h) ==
  /\ Command
  /\ h \in Defined
  /\ ~indices[h].write_locked

\* TPM2_NV_Write
Write(h, octet) ==
  /\ Writable(h)
  /\ indices[h].type = "ordinary"
  /\ Leaves(With(h, Stored(indices[h], <<octet>>)))
  /\ UNCHANGED <<highest_counter, counted>>

\* TPM2_NV_Increment
Increment(h) ==
  LET next == NextCount(indices[h], highest_counter) IN
  /\ Writable(h)
  /\ IsCounter(indices[h])
  /\ next <= MaxCount
  /\ highest_counter' = Max2(highest_counter, next)
  /\ Leaves(With(h, Stored(indices[h], <<next>>)))
  /\ counted' = [counted EXCEPT ![h] = Max2(@, next)]

\* TPM2_NV_Extend
Extend(h, octet) ==
  /\ Writable(h)
  /\ indices[h].type = "extend"
  /\ Len(indices[h].data) < MaxCount
  /\ Leaves(With(h, Stored(indices[h], Append(indices[h].data, octet))))
  /\ UNCHANGED <<highest_counter, counted>>

\* TPM2_NV_SetBits, on a field of one bit
SetBits(h, bit) ==
  LET current == IF indices[h].written THEN indices[h].data[1] ELSE 0 IN
  /\ Writable(h)
  /\ indices[h].type = "bits"
  /\ Leaves(With(h, Stored(indices[h], <<Max2(current, bit)>>)))
  /\ UNCHANGED <<highest_counter, counted>>

\* TPM2_NV_WriteLock
WriteLock(h) ==
  /\ Command
  /\ h \in Defined
  /\ Has(indices[h], "WRITEDEFINE") \/ Has(indices[h], "WRITE_STCLEAR")
  /\ Leaves(With(h, [indices[h] EXCEPT !.write_locked = TRUE]))
  /\ UNCHANGED <<highest_counter, counted>>

\* global_write_lock, for one Index
GlobalLocked(i) == [i EXCEPT !.write_locked = @ \/ Has(i, "GLOBALLOCK")]

\* TPM2_NV_GlobalWriteLock
GlobalWriteLock ==
  /\ Command
  /\ Leaves([h \in Defined |-> GlobalLocked(indices[h])])
  /\ UNCHANGED <<highest_counter, counted>>

\* TPM2_NV_ReadLock
ReadLock(h) ==
  /\ Command
  /\ h \in Defined
  /\ Has(indices[h], "READ_STCLEAR")
  /\ Leaves(With(h, [indices[h] EXCEPT !.read_locked = TRUE]))
  /\ UNCHANGED <<highest_counter, counted>>

\* TPM2_NV_Read, and any other command that is not marked nv: the shutdown is
\* undone in memory and not in the file.
Plain ==
  /\ started
  /\ shutdown' = "none"
  /\ UNCHANGED <<indices, highest_counter, started, file_shutdown, history>>

\* TPM2_Clear: on_clear calls clear_owner_indices
Clear ==
  /\ Command
  /\ Leaves(Only({h \in Defined : Has(indices[h], "PLATFORMCREATE")}))
  /\ UNCHANGED <<highest_counter, counted>>

\* TPM2_Shutdown
Shutdown(type) ==
  /\ started
  /\ shutdown' = type /\ file_shutdown' = type
  /\ UNCHANGED <<indices, highest_counter, started, history>>

\* begin_operation: the startup is written with no shutdown recorded.
Begin ==
  /\ ~started
  /\ started' = TRUE
  /\ shutdown' = "none" /\ file_shutdown' = "none"
  /\ UNCHANGED <<highest_counter, counted, boots>>

\* TPM2_Startup(TPM_SU_CLEAR)
StartupClear ==
  /\ Begin
  /\ Leaves([h \in Defined |-> OnStartup(indices[h], shutdown = "state", shutdown = "none")])

\* TPM2_Startup(TPM_SU_STATE): a Resume leaves the Indices as they are.
StartupState ==
  /\ Begin
  /\ shutdown = "state"
  /\ UNCHANGED indices

\* _TPM_Init, with or without the write a power off makes.
PowerCycle(off) ==
  /\ boots < MaxBoots
  /\ boots' = boots + 1
  /\ started' = FALSE
  /\ file_shutdown' = IF off THEN shutdown ELSE file_shutdown
  /\ UNCHANGED <<indices, highest_counter, shutdown, counted>>

\* The process ends and Tpm::new loads the file.
Crash ==
  /\ boots < MaxBoots
  /\ boots' = boots + 1
  /\ started' = FALSE
  /\ shutdown' = file_shutdown
  /\ \E mark \in Marks : (\A m \in Marks : m <= mark) /\ highest_counter' = mark
  /\ UNCHANGED <<indices, file_shutdown, counted>>

Next ==
  \/ \E h \in Handles :
       \/ \E auth \in {"owner", "platform"} :
            (\E p \in Publics : DefineSpace(h, p, auth)) \/ UndefineSpace(h, auth)
       \/ UndefineSpaceSpecial(h)
       \/ \E octet \in 0 .. 1 : Write(h, octet) \/ Extend(h, octet) \/ SetBits(h, octet)
       \/ Increment(h)
       \/ WriteLock(h) \/ ReadLock(h)
  \/ GlobalWriteLock \/ Plain \/ Clear
  \/ \E type \in {"clear", "state"} : Shutdown(type)
  \/ StartupClear \/ StartupState
  \/ \E off \in BOOLEAN : PowerCycle(off)
  \/ Crash

Spec == Init /\ [][Next]_vars

-----------------------------------------------------------------------------
\* TPM2_NV_Increment never gives a handle a value it has given it before, over
\* undefinitions, TPM2_Clear, crashes and startups of every kind: the mark of
\* NvStore (nv.rs, highest_counter) is carried past the Index that raised it.
IncrementsNeverRepeat ==
  [][\A h \in Handles : Increment(h) => Value(indices'[h]) > counted[h]]_vars

\* A counter that stays defined never goes back and is never unwritten again,
\* whatever its attributes and whichever startup comes (on_startup_clear_with
\* takes the data of orderly and CLEAR_STCLEAR Indices).
CounterOnlyGrows ==
  [][\A h \in Defined \intersect DOMAIN indices' :
       Value(indices'[h]) >= Value(indices[h])]_vars

Sealed(i) ==
  /\ i.write_locked /\ Permanent(i)
  /\ ~Has(i, "ORDERLY") /\ ~Has(i, "CLEAR_STCLEAR")

\* Data behind a write lock does not change until the next startup, and never
\* when the Index has TPMA_NV_WRITEDEFINE and keeps its data: its lock outlives
\* every startup and crash, until the Index is undefined.
WriteLockHolds ==
  [][\A h \in Defined \intersect DOMAIN indices' :
       (indices[h].write_locked /\ started) \/ Sealed(indices[h])
         => /\ indices'[h].write_locked
            /\ indices'[h].data = indices[h].data
            /\ indices'[h].written = indices[h].written]_vars

=============================================================================
