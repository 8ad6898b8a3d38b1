------------------------------- MODULE Objects -------------------------------
(***************************************************************************)
(* The hierarchies and the objects under them: what is in a transient slot *)
(* or persistent, and what a caller keeps outside and may bring back (a    *)
(* saved context, a private area, a duplicate).  A seed or a proof is      *)
(* modelled by the number of times it was drawn.                           *)
(*                                                                         *)
(* A key is modelled by its identity and by the history of that identity:  *)
(* `root`, the seed its Primary Object came from, and `tied`, that neither *)
(* it nor a key above it may be duplicated.  A Name is the key with its    *)
(* public area, a Qualified Name the Names from the hierarchy down.        *)
(***************************************************************************)
EXTENDS Integers, Sequences, FiniteSets

CONSTANTS
  Primaries,   \* the Primary Objects callers ask for: a hierarchy and a public area
  Children,    \* the public areas they ask for under a parent
  Externals,   \* what they load: the same, and whether with the sensitive area
  MaxLoaded,   \* MAX_LOADED_OBJECTS
  MaxKept,     \* bound: what callers keep of it outside
  MaxMade,     \* bound: objects made
  MaxTurns     \* bound: changes of the hierarchies and startups

Bases == {"owner", "endorsement", "platform", "null"}

\* The base of a firmware-limited or SVN-limited hierarchy.
LimitedBase ==
  [fw_owner |-> "owner", fw_endorsement |-> "endorsement", fw_platform |-> "platform",
   fw_null |-> "null"]

IsLimited(h) == h \in DOMAIN LimitedBase
BaseOf(h) == IF IsLimited(h) THEN LimitedBase[h] ELSE h

Publics ==
  [kind : {"storage", "derivation", "leaf"}, fixedTPM : BOOLEAN, fixedParent : BOOLEAN,
   stClear : BOOLEAN, limited : BOOLEAN]

ASSUME ObjectsAssumption ==
  /\ Primaries \subseteq (Bases \cup DOMAIN LimitedBase) \X Publics
  /\ Children \subseteq Publics
  /\ Externals \subseteq (Bases \cup DOMAIN LimitedBase) \X Publics \X BOOLEAN
  /\ {MaxLoaded, MaxKept, MaxMade, MaxTurns} \subseteq Nat

\* The persistent handles: one of the owner's half of the range, one of the platform's.
Persistent == {"lower", "upper"}
PLATFORM_PERSISTENT == {"upper"}

VARIABLES
  enabled,     \* the enables of the three hierarchies that have one
  seed, proof, \* by base hierarchy
  reset,       \* clock.reset_value
  cleared,     \* clock.clear_count
  loaded,      \* the objects in transient slots; two slots with one object in
               \* both differ by nothing a command does
  persistent,  \* by persistent handle, a set of at most one object
  kept,        \* what callers keep outside: contexts, private areas, duplicates
  made, turns,
  boots        \* history: how many times the TPM started with TPM_SU_CLEAR

hierarchies == <<enabled, seed, proof>>
clocks == <<reset, cleared, boots>>
objectsVars == <<hierarchies, clocks, loaded, persistent, kept, made, turns>>

contexts == {k \in kept : k.is = "context"}
privates == {k \in kept : k.is = "private"}
duplicates == {k \in kept : k.is = "duplicate"}

Resident == loaded \cup UNION {persistent[p] : p \in Persistent}

ObjectsTypeOK ==
  /\ enabled \in [Bases \ {"null"} -> BOOLEAN]
  /\ seed \in [Bases -> Nat] /\ proof \in [Bases -> Nat]
  /\ {reset, cleared, made, turns, boots} \subseteq Nat
  /\ Cardinality(loaded) <= MaxLoaded
  /\ DOMAIN persistent = Persistent
  /\ \A o \in Resident :
       /\ o.public \in Publics
       /\ BaseOf(o.hierarchy) \in Bases
       /\ {o.sensitive, o.state_clear, o.tpm_generated} \subseteq BOOLEAN

ObjectsInit ==
  /\ enabled = [b \in Bases \ {"null"} |-> TRUE]
  /\ seed = [b \in Bases |-> 0] /\ proof = [b \in Bases |-> 0]
  /\ reset = 0 /\ cleared = 0 /\ boots = 0
  /\ loaded = {} /\ persistent = [p \in Persistent |-> {}]
  /\ kept = {}
  /\ made = 0 /\ turns = 0

-----------------------------------------------------------------------------
(* The hierarchies.                                                        *)

IsEnabled(h) == BaseOf(h) # "null" => enabled[BaseOf(h)]

\* Mutant: only the objects that name the hierarchy itself.
BelongsByHandle(o, h) == o.hierarchy = h

\* An object of a limited hierarchy belongs to its base as well.
Belongs(o, h) == o.hierarchy = h \/ (IsLimited(o.hierarchy) /\ BaseOf(o.hierarchy) = h)

FlushHierarchy(os, h) == {o \in os : ~Belongs(o, h)}

\* TPM2_HierarchyControl: the owner may turn itself off, and so may the endorser.
HierarchyControl(auth, h, on) ==
  /\ turns < MaxTurns
  /\ auth \in {"platform", h} /\ IsEnabled(auth)
  /\ on \/ h = "platform" => auth = "platform"
  /\ enabled' = [enabled EXCEPT ![h] = on]
  /\ loaded' = IF on THEN loaded ELSE FlushHierarchy(loaded, h)
  /\ turns' = turns + 1
  /\ UNCHANGED <<seed, proof, clocks, persistent, kept, made>>

\* TPM2_ChangePPS drops what is in the platform's half of the persistent range.
ChangePPS ==
  /\ turns < MaxTurns /\ IsEnabled("platform")
  /\ seed' = [seed EXCEPT !["platform"] = @ + 1]
  /\ proof' = [proof EXCEPT !["platform"] = @ + 1]
  /\ loaded' = FlushHierarchy(loaded, "platform")
  /\ persistent' = [p \in Persistent |-> IF p \in PLATFORM_PERSISTENT THEN {} ELSE persistent[p]]
  /\ turns' = turns + 1
  /\ UNCHANGED <<enabled, clocks, kept, made>>

\* TPM2_ChangeEPS drops the persistent objects that name the hierarchy.
ChangeEPS ==
  /\ turns < MaxTurns /\ IsEnabled("platform")
  /\ seed' = [seed EXCEPT !["endorsement"] = @ + 1]
  /\ proof' = [proof EXCEPT !["endorsement"] = @ + 1]
  /\ enabled' = [enabled EXCEPT !["endorsement"] = TRUE]
  /\ loaded' = FlushHierarchy(loaded, "endorsement")
  /\ persistent' = [p \in Persistent |-> {o \in persistent[p] : o.hierarchy # "endorsement"}]
  /\ turns' = turns + 1
  /\ UNCHANGED <<clocks, kept, made>>

\* A new storage seed, new proofs of storage and endorsement, and both on again.
OnClear ==
  /\ seed' = [seed EXCEPT !["owner"] = @ + 1]
  /\ proof' = [proof EXCEPT !["owner"] = @ + 1, !["endorsement"] = @ + 1]
  /\ enabled' = [enabled EXCEPT !["owner"] = TRUE, !["endorsement"] = TRUE]

\* TPM2_Clear drops what the owner's half of the persistent range holds.  disableClear only
\* takes steps away.
Clear ==
  /\ turns < MaxTurns
  /\ OnClear
  /\ loaded' = FlushHierarchy(FlushHierarchy(loaded, "owner"), "endorsement")
  /\ persistent' = [p \in Persistent |-> IF p \in PLATFORM_PERSISTENT THEN persistent[p] ELSE {}]
  /\ turns' = turns + 1
  /\ UNCHANGED <<clocks, kept, made>>

-----------------------------------------------------------------------------
(* Objects.                                                                *)

Name(o) == [key |-> o.key, public |-> o.public]
QualifiedName(parentName, name) == Append(parentName, name)

NewObject(key, public, sensitive, h, parentName, generated) ==
  [key |-> key, public |-> public, sensitive |-> sensitive, hierarchy |-> h,
   qualified_name |-> QualifiedName(parentName, [key |-> key, public |-> public]),
   tpm_generated |-> generated, state_clear |-> public.stClear,
   since |-> proof[BaseOf(h)], boot |-> boots]

\* Slots are taken while there is one.
Insert(o) ==
  /\ Cardinality(loaded) < MaxLoaded
  /\ loaded' = loaded \cup {o}

\* A caller gets one thing more to keep, and may lose any other.
Keep(x) == kept' \in {s \in SUBSET (kept \cup {x}) : x \in s /\ Cardinality(s) <= MaxKept}

\* A handle may be used while the hierarchy of its object is enabled.
Usable == {o \in Resident : IsEnabled(o.hierarchy)}

IsStorageKey(o) == o.public.kind = "storage" /\ o.sensitive
IsDerivationParent(o) == o.public.kind = "derivation" /\ o.sensitive

ValidatePublic(t) == t.fixedTPM => t.fixedParent

ValidateTemplate(t, parentLimited) ==
  /\ ValidatePublic(t)
  /\ t.limited => t.fixedTPM /\ parentLimited

PrimaryKey(h, t) ==
  LET root == <<BaseOf(h), seed[BaseOf(h)]>>
  IN  [id |-> <<h, root, t>>, root |-> root, tied |-> t.fixedParent]

\* A fresh key, and one computed from the sensitive value of a derivation parent.
ChildKey(p, t) ==
  [id |-> <<"child", made>>, root |-> p.key.root, tied |-> p.key.tied /\ t.fixedParent]
DerivedKey(p, t) == [ChildKey(p, t) EXCEPT !.id = <<"derived", p.key.id, t>>]

Makes == made < MaxMade /\ made' = made + 1

\* TPM2_CreatePrimary, and TPM2_CreateLoaded under a hierarchy.
CreatePrimary(h, t) ==
  /\ Makes
  /\ IsEnabled(h)
  /\ ValidateTemplate(t, IsLimited(h))
  /\ Insert(NewObject(PrimaryKey(h, t), t, TRUE, h, <<h>>, TRUE))
  /\ UNCHANGED <<hierarchies, clocks, persistent, kept, turns>>

\* The private area of a key under its parent, and the parent whose seed opens it.
Wrap(p, key, public) == [is |-> "private", under |-> p.key, key |-> key, public |-> public]
Unwraps(p, b) == b.under = p.key

\* TPM2_Create.
Create(p, t) ==
  /\ Makes
  /\ p \in Usable /\ IsStorageKey(p)
  /\ ValidateTemplate(t, p.public.limited)
  /\ Keep(Wrap(p, ChildKey(p, t), t))
  /\ UNCHANGED <<hierarchies, clocks, loaded, persistent, turns>>

\* Mutant: the property is the object's own alone.
ChildAlone(p, key, public, generated) ==
  NewObject(key, public, TRUE, p.hierarchy, p.qualified_name, generated)

\* A child in the place its parent gives it.
Child(p, key, public, generated) ==
  LET o == NewObject(key, public, TRUE, p.hierarchy, p.qualified_name, generated)
  IN  [o EXCEPT !.state_clear = @ \/ p.state_clear]

\* What TPM2_CreateLoaded makes under a derivation parent: it can only be derived again.
DeriveObject(p, t) ==
  /\ Insert(Child(p, DerivedKey(p, t), t, TRUE))
  /\ UNCHANGED kept

\* TPM2_CreateLoaded under a storage key, and under a derivation parent.
CreateLoaded(p, t) ==
  /\ Makes
  /\ p \in Usable
  /\ ValidateTemplate(t, p.public.limited)
  /\ \/ IsDerivationParent(p) /\ DeriveObject(p, t)
     \/ /\ IsStorageKey(p)
        /\ Insert(Child(p, ChildKey(p, t), t, TRUE))
        /\ Keep(Wrap(p, ChildKey(p, t), t))
  /\ UNCHANGED <<hierarchies, clocks, persistent, turns>>

\* TPM2_Load.
Load(p, b) ==
  /\ p \in Usable /\ IsStorageKey(p)
  /\ b \in privates /\ Unwraps(p, b)
  /\ ValidatePublic(b.public)
  /\ Insert(Child(p, b.key, b.public, FALSE))
  /\ UNCHANGED <<hierarchies, clocks, persistent, kept, made, turns>>

\* TPM2_LoadExternal: of the caller's own key, under the NULL hierarchy with the sensitive
\* area, or the public area alone under any.
LoadExternal(h, t, sensitive) ==
  /\ Makes
  /\ ValidatePublic(t)
  /\ sensitive => ~t.fixedTPM /\ ~t.fixedParent /\ t.kind = "leaf" /\ ~t.limited /\ h = "null"
  /\ IsEnabled(h)
  /\ LET key == [id |-> <<"external">>, root |-> <<"outside", 0>>, tied |-> FALSE]
     IN  Insert(NewObject(key, t, sensitive, h, <<h>>, FALSE))
  /\ UNCHANGED <<hierarchies, clocks, persistent, kept, turns>>

\* TPM2_ObjectChangeAuth: the private area again, with another authorization value.
ObjectChangeAuth(o, p) ==
  /\ o \in Usable /\ p \in Usable /\ IsStorageKey(p)
  /\ o.qualified_name = QualifiedName(p.qualified_name, Name(o))
  /\ o.sensitive
  /\ Keep(Wrap(p, o.key, o.public))
  /\ UNCHANGED <<hierarchies, clocks, loaded, persistent, made, turns>>

\* TPM2_FlushContext.
FlushContext(o) ==
  /\ o \in loaded
  /\ loaded' = loaded \ {o}
  /\ UNCHANGED <<hierarchies, clocks, persistent, kept, made, turns>>

-----------------------------------------------------------------------------
(* Duplication.  A duplicate with no new parent leaves in the clear.       *)

\* TPM2_Duplicate.
Duplicate(o, to) ==
  /\ o \in Usable /\ ~o.public.fixedParent /\ o.sensitive
  /\ Keep([is |-> "duplicate", to |-> to, key |-> o.key, public |-> o.public])
  /\ UNCHANGED <<hierarchies, clocks, loaded, persistent, made, turns>>

NewParents == {{}} \cup {{p.key} : p \in {o \in Usable : o.public.kind = "storage"}}

\* TPM2_Rewrap.
Rewrap(d, to) ==
  /\ d \in duplicates
  /\ d.to \subseteq {p.key : p \in {o \in Usable : IsStorageKey(o)}}
  /\ Keep([d EXCEPT !.to = to])
  /\ UNCHANGED <<hierarchies, clocks, loaded, persistent, made, turns>>

\* TPM2_Import: what comes out is a private area of the new parent.
Import(p, d) ==
  /\ p \in Usable /\ p.public.kind = "storage" /\ d \in duplicates
  /\ ValidatePublic(d.public)
  /\ ~d.public.fixedTPM /\ ~d.public.fixedParent /\ ~d.public.limited
  /\ d.to # {} => d.to = {p.key} /\ p.sensitive
  /\ Keep(Wrap(p, d.key, d.public))
  /\ UNCHANGED <<hierarchies, clocks, loaded, persistent, made, turns>>

-----------------------------------------------------------------------------
(* Contexts and persistent objects.                                        *)

\* What the integrity value of a context takes in beside the proof.
ContextCounters(stateClear) == IF stateClear THEN <<reset, cleared>> ELSE <<reset>>

\* The body of a context is the object less its stateClear property, which the handle of the
\* context says.
MarshalObject(o) == [f \in DOMAIN o \ {"state_clear"} |-> o[f]]
UnmarshalObject(body, stateClear) ==
  [f \in DOMAIN body \cup {"state_clear"} |-> IF f = "state_clear" THEN stateClear ELSE body[f]]

\* A context, and when it is still one of this TPM's.
SealContext(o) ==
  [is |-> "context", body |-> MarshalObject(o), state_clear |-> o.state_clear,
   hierarchy |-> o.hierarchy, proof |-> proof[BaseOf(o.hierarchy)],
   counters |-> ContextCounters(o.state_clear)]
OpensContext(c) ==
  /\ c.proof = proof[BaseOf(c.hierarchy)]
  /\ c.counters = ContextCounters(c.state_clear)

\* TPM2_ContextSave.
ContextSave(o) ==
  /\ o \in loaded /\ IsEnabled(o.hierarchy)
  /\ Keep(SealContext(o))
  /\ UNCHANGED <<hierarchies, clocks, loaded, persistent, made, turns>>

\* TPM2_ContextLoad.
ContextLoad(c) ==
  /\ c \in contexts
  /\ IsEnabled(c.hierarchy)
  /\ OpensContext(c)
  /\ Insert(UnmarshalObject(c.body, c.state_clear))
  /\ UNCHANGED <<hierarchies, clocks, persistent, kept, made, turns>>

\* Mutant: the half of the range is the caller's choice.
ProperAnywhere(auth, o, p) ==
  o.hierarchy \in (IF auth = "platform" THEN {"platform"} ELSE {"owner", "endorsement"})

\* The half of the range, and the hierarchies, an authorization speaks for.
Proper(auth, o, p) ==
  /\ p \in PLATFORM_PERSISTENT <=> auth = "platform"
  /\ o.hierarchy \in (IF auth = "platform" THEN {"platform"} ELSE {"owner", "endorsement"})

\* TPM2_EvictControl of a transient object.
MakePersistent(auth, o, p) ==
  /\ IsEnabled(auth) /\ o \in loaded /\ IsEnabled(o.hierarchy)
  /\ Proper(auth, o, p)
  /\ ~o.state_clear
  /\ persistent[p] = {}
  /\ persistent' = [persistent EXCEPT ![p] = {o}]
  /\ UNCHANGED <<hierarchies, clocks, loaded, kept, made, turns>>

\* TPM2_EvictControl of a persistent one: the platform may remove any.
RemovePersistent(auth, p) ==
  /\ IsEnabled(auth)
  /\ persistent[p] # {} /\ persistent[p] \subseteq Usable
  /\ auth = "owner" => p \notin PLATFORM_PERSISTENT
  /\ persistent' = [persistent EXCEPT ![p] = {}]
  /\ UNCHANGED <<hierarchies, clocks, loaded, kept, made, turns>>

-----------------------------------------------------------------------------
(* Startups.                                                               *)

\* What an object is after the state file was read again: its Qualified Name is computed from
\* its hierarchy.
Reread(o) == [o EXCEPT !.qualified_name = <<o.hierarchy, Name(o)>>]

\* The NULL hierarchy is another after a Reset, and TPM_SU_CLEAR turns every hierarchy on; a
\* Resume leaves the owner and the endorser as they were.
HierarchiesStart(kind) ==
  /\ seed' = [seed EXCEPT !["null"] = IF kind = "reset" THEN @ + 1 ELSE @]
  /\ proof' = [proof EXCEPT !["null"] = IF kind = "reset" THEN @ + 1 ELSE @]
  /\ enabled' = IF kind = "resume" THEN [enabled EXCEPT !["platform"] = TRUE]
                                   ELSE [b \in DOMAIN enabled |-> TRUE]

\* Power, then TPM2_Startup: a Reset, a Restart or a Resume; in the same process, or in one
\* that read the state file.
Startup(kind, reread) ==
  /\ turns < MaxTurns
  /\ loaded' = {}
  /\ persistent' = [p \in Persistent |->
                      {IF reread THEN Reread(o) ELSE o : o \in persistent[p]}]
  /\ HierarchiesStart(kind)
  /\ reset' = IF kind = "reset" THEN reset + 1 ELSE reset
  /\ cleared' = CASE kind = "reset"   -> 0
                  [] kind = "restart" -> cleared + 1
                  [] kind = "resume"  -> cleared
  /\ boots' = IF kind = "resume" THEN boots ELSE boots + 1
  /\ turns' = turns + 1
  /\ UNCHANGED <<kept, made>>

-----------------------------------------------------------------------------
ObjectsNext ==
  \/ \E auth \in DOMAIN enabled, h \in DOMAIN enabled, on \in BOOLEAN :
       HierarchyControl(auth, h, on)
  \/ ChangePPS
  \/ ChangeEPS
  \/ Clear
  \/ \E a \in Primaries : CreatePrimary(a[1], a[2])
  \/ \E p \in Resident, t \in Children : Create(p, t) \/ CreateLoaded(p, t)
  \/ \E p \in Resident, b \in privates : Load(p, b)
  \/ \E a \in Externals : LoadExternal(a[1], a[2], a[3])
  \/ \E o \in Resident, p \in Resident : ObjectChangeAuth(o, p)
  \/ \E o \in loaded : FlushContext(o) \/ ContextSave(o)
  \/ \E o \in Resident, to \in NewParents : Duplicate(o, to)
  \/ \E d \in duplicates, to \in NewParents : Rewrap(d, to)
  \/ \E p \in Resident, d \in duplicates : Import(p, d)
  \/ \E c \in contexts : ContextLoad(c)
  \/ \E auth \in {"owner", "platform"}, o \in loaded, p \in Persistent : MakePersistent(auth, o, p)
  \/ \E auth \in {"owner", "platform"}, p \in Persistent : RemovePersistent(auth, p)
  \/ \E kind \in {"reset", "restart", "resume"}, reread \in BOOLEAN : Startup(kind, reread)

ObjectsSpec == ObjectsInit /\ [][ObjectsNext]_objectsVars

-----------------------------------------------------------------------------
(* What TPM2_Clear, TPM2_ChangePPS and TPM2_ChangeEPS end: an object that  *)
(* is resident entered under the proof its hierarchy has now, and a key    *)
(* that may not leave its parent came from the seed it has now.  No        *)
(* context, private area or persistent handle brings one back.             *)
NothingOutlivesItsHierarchy ==
  \A o \in Resident :
    /\ o.since = proof[BaseOf(o.hierarchy)]
    /\ o.key.tied => o.key.root = <<BaseOf(o.hierarchy), seed[BaseOf(o.hierarchy)]>>

\* The stateClear property of core/object.rs:26 read off the Qualified Name.
StateClear(o) == \E i \in 2 .. Len(o.qualified_name) : o.qualified_name[i].public.stClear

(* An object with stClear in it or above it is gone with the next Restart  *)
(* or Reset, whatever was saved of it, and never becomes persistent.       *)
StateClearEnds ==
  /\ \A o \in loaded : StateClear(o) => o.boot = boots
  /\ \A p \in Persistent : \A o \in persistent[p] : ~StateClear(o)

(* While a hierarchy is off no slot holds an object of it or of a          *)
(* hierarchy derived from it, so turning it on again finds none.           *)
OffMeansEmpty == \A o \in loaded : IsEnabled(o.hierarchy)

==============================================================================
