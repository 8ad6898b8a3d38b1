# A TLA+ specification of swtrust

swtrust is a software TPM 2.0. This directory holds TLA+ modules for the parts of
it that keep state, TLC configurations that check them on small instances, and
TLAPS proofs of what matters most for every size. Source paths below are relative
to `src/src/`.

## The system

    transports (server/*)          socket, simulator, qemu, pipe: one thread per connection,
        |                          plus the platform port: power, NV, hash and ACT signals
        v
    Tpm (tpm/device.rs)            powered flag, Mutex<TpmState>, clock crediting, persist
        |
        v
    execute / dispatch             order of checks, authorization, audit, undo of a shutdown
        |
        v
    TpmState (tpm/core/state.rs)   clock, PCR, NV, sessions, objects, commits, lockout, ACT
        |
        v
    persist (tpm/persist.rs)       the whole state in one file: temporary file, then rename

Every connection thread calls `Tpm::execute`, which takes the state mutex several
times for one command: the witness of what NV holds, the command itself, the second
witness, the write of the file, and the record of a write that failed. Commands are
therefore atomic one by one, and a command together with its write is not. The
platform port calls `power_on`, `power_off`, the NV signals and the `_TPM_Hash_*`
signals from another thread, without any lock that spans them.

`TpmState` is memory. It reaches the file after a command that the command table
marks as writing NV, after one whose witness changed, after a roll over of Clock
and at power off. Everything else is lost when the process ends, including the fact
that a command undid a `TPM2_Shutdown`.

### Inventory

| Component | State | Operations | What is hard | What makes it correct |
|---|---|---|---|---|
| Commit values, `core/commit.rs` | random value, 64-bit counter, bit array of used commits | commit, use by 16 bits of the counter, reset | the 16 bits and the array slot are reused | a commit value is used at most once; a young one is usable |
| Session contexts, `core/session.rs`, `commands/context.rs` | loaded sessions, saved session versions, context counter | start, save, load, flush, close, restart, reset | callers keep old contexts; the gap window; reused handles | no context loads twice; no saved session is stranded |
| Startup, shutdown, Clock, PCR, `core/state.rs`, `core/pcr.rs` | Clock, safe, reset counters, shutdown type, banks, allocation, H-CRTM flags | Startup, Shutdown, Clear, ClockSet, PCR commands, hash signals, power | crash anywhere; memory and file differ | safe is honest; a resume restores; counters name a boot; PCR 0 tells the startup method |
| Device and persistence, `device.rs`, `persist.rs` | powered, failure mode, write failed, NV available, file | execute, persist, power on and off, NV signals | interleaving at every lock; failing writes | an acknowledged write is in the file; a refused one never gets there |
| NV Indices, `core/nv.rs`, `commands/nv.rs` | Indices with attributes and data, highest counter, orderly data in memory | define, undefine, write, increment, extend, set bits, locks, startup rules | eight attributes and four kinds of startup; crash; redefinition | a counter never repeats; a write lock holds |
| Dictionary attack protection, `core/state.rs`, `dispatch.rs` | failedTries, parameters, recovery and lockout times | failure, recovery, reset, parameters, startup | Time restarts with power; failures in flight; failed writes | no guess is forgotten; tries come back no faster than the parameters say |
| Authorization and audit sessions, `dispatch.rs`, `core/session.rs` | session keys, bindings, nonces, exclusive session | every authorized command | late, repeated and reordered requests; values that change | an HMAC leads to one command; an old value is cut off; an exclusive log is unbroken |
| Policy sessions, `commands/policy.rs` | policy digest and what the assertions left to check | the assertions, tickets, check_policy, restart | assertions age; sessions are saved over startups | what was asserted holds when the command runs; the policy was met; a tied authorization is spent once |
| Hierarchies and objects, `core/hierarchy.rs`, `core/object.rs`, `commands/object.rs`, `duplication.rs` | enables, seeds, proofs, slots, persistent objects | create, load, save, evict, duplicate, import, clear, change seeds | callers keep contexts, private areas and duplicates | nothing outlives its hierarchy; stClear ends with a startup; off means empty |
| Signing and sequences, `commands/crypto.rs`, `signing.rs`, `attest.rs` | sequence contents, tickets | sign, verify, sequences, attestation | messages split over buffers; sequences moved and completed by other commands | no restricted key signs what looks like an attestation |
| Command execution, `execute.rs`, `management.rs`, `attest.rs` | failure mode, self tests, Read-Only mode, audit list, log and counter | every command, self tests, audit reports, capabilities | log moves without an NV command; a list changes while it is paged | reports chain honestly; pages are complete; nothing leaves a TPM in trouble |
| Countdown timer, `core/act.rs` | timeout, fraction, written, preserve | set, poll, shutdown, startup | two shutdowns, resume, reload | it is not extended, and it runs out |
| Transports, `server/*` | connection count, stop flag, locality | accept, serve, release, stop | thread ends, wake up of listeners, two channels | slots are neither lost nor exceeded; stop stops |
| Cryptography, marshalling, tables, command line | none, or constants | pure functions | big numbers, bytes | out of reach or without state |

## The modules

| Module | Models | State | Bounds |
|---|---|---|---|
| `OneTimeTokens` | what commits promise: a token is issued, live for a while, and used at most once | `outstanding`, `redeemed` | the values of `Commits` |
| `Commits` | `core/commit.rs`, with `TPM2_Commit` and `TPM2_EC_Ephemeral`, and the commands that use a commit | `random`, `count`, `used` as in the code, and the history `uses` | `MaxCount`, `MaxEpoch` |
| `Signing` | extends `Commits`: sequences, tickets, every signing, verifying and attesting command | one sequence, one ticket or context that the caller keeps, and what was passed off | those of `Commits` |
| `SessionContexts` | `SessionSlots` and the commands that move sessions in and out | the maps of loaded and saved sessions, the context counter, the exclusive audit session, every context ever handed out | `MaxEpoch`, `U64Max` |
| `Lifecycle` | power, Startup and Shutdown, Clock, reset counters, PCR banks, H-CRTM and D-RTM | `tpm` (memory), `file`, `powered`, histories | `Bounds`, `MaxStep` |
| `Device` | `Tpm::execute`, one lock section per action, for several connections; power and NV signals; failing writes; crash | a program counter per connection and per platform signal, memory and file as sets of marks | `MaxCommands` |
| `Nv` | `NvStore`, every `TPM2_NV_*` command that changes an Index, what startups, clear and reload do | `indices`, `highest_counter`, shutdown type in memory and file, what each handle has counted | `MaxCount`, `MaxBoots` |
| `Lockout` | `LockoutState`, the checks that record a failure, the counter of a PIN Fail Index | memory and file, lockout time, commands that ran and have not written; histories | `MaxStep`, `MaxLived`, `MaxGuesses`, `MaxBusy` |
| `Act` | `core/act.rs` with the commands and signals that reach it | the timer, its file, failure mode | `MaxStep`, `MaxSets`, `MaxFaults` |
| `Policy` | the assertions of `commands/policy.rs`, tickets, `check_policy` | one policy session, the entity, and what assertions are about (PCR, Time, presence, NV, authValue) | `MaxTime`, `MaxBoots`, `MaxNonces`, `MaxMoves` |
| `Authorization` | passwords, HMAC sessions, bindings, audit and encrypting sessions | sessions, authValues, the exclusive session, requests under way | `MaxNonces`, `MaxNet` |
| `Objects` | hierarchies, objects, contexts, private areas, duplicates, persistent handles | enables, seeds, proofs, loaded and persistent objects, what callers keep | `MaxKept`, `MaxMade`, `MaxTurns` |
| `Execution` | checks around a command, command audit, self tests, Read-Only mode, capability paging | memory and file, failure mode, a paging client, a verifier of reports | `MaxLog`, `MaxCounter` |
| `Transports` | accept loops, connection threads, STOP, locality, for the three interfaces | loop and thread positions, backlogs, count, flag | `Backlog`, `MaxRequests` |
| `MC*` | the parameters of the runs that a configuration file cannot write | | |
| `*Proof` | the theorems | | |

Actions carry the names of the functions or commands they model. Where one command
does several things before and after its own work (time is credited, an H-CRTM
sequence is dropped, a shutdown is undone, the file is written), the action has all
of them: `Credited`, `Undo` and `Finish` in `Lifecycle`, `Command` in `Nv` and
`Lockout`, `Answered` in `Execution`.

Variables marked `history` in the modules are not in the program. They record what a
caller has been told, because the properties are about what a caller can compare.

What is abstracted, module by module:

- `Commits`: the array has `N` bits and callers see `counter % W`; the code has
  powers of two for both, the model needs only that `W` is a multiple of `N`. A commit
  value is the pair of the random value's epoch and the counter.
- `Signing`: a message is a sequence of half words that are or are not half of
  `TPM_GENERATED_VALUE`; one key stands for each way the commands tell keys apart.
- `SessionContexts`: a context is the record of its handle, its version and the
  session it holds. Its protection is assumed: a caller presents only
  contexts it was given, in any order and as often as it likes.
- `Lifecycle`: a PCR is the value of its last reset and the number of extends.
  Four registers stand for the kinds the PCR table has. Commands run one at
  a time and writes succeed; `Device` is about the rest.
- `Device`: what a command does is a mark of its own, in NV data or in the values
  that `NvWitness` compares.
- `Nv`: the value of a counter is a number; of every other type the model keeps only
  a sequence of the values it was given. The orderly jump `v | MAX_ORDERLY_COUNT` goes
  to the last value of the block of `OrderlyStep` that `v` is in.
- `Lockout`, `Act`: time passes in units with every command; intervals are whole
  multiples of a unit, seconds are whole numbers of units.
- `Policy`: a digest is the sequence of what was hashed into it; an entry that stands for
  other digests has them in it, so what is behind it can be asked for.
- `Authorization`: a nonce is the number of its draw, an HMAC the record of what it is
  computed over; it can be made by who knows its key.
- `Objects`: a seed or a proof is the number of times it was drawn; a public area is
  the attributes that decide where an object may live.
- `Execution`: the audit digest is the sequence of the audited codes; of NV, which
  handles exist.
- `Transports`: a request is the sequence of steps its arm of the code takes.

## The runs

| Run | Shows | Instance and why it is enough |
|---|---|---|
| `signing` | `SingleUse`, `StillUsable`, `NothingPassedOff`, the refinement of `OneTimeTokens` | two bits, four names, five commits: the array turns more than twice and the names once, with a reset; messages of up to two pieces on either side of a sequence's first buffer |
| `sessions` | `NoReplay`, `SavedStaysLoadable`, `GapHasRemedy` | two loaded and two active sessions, the smallest gap and a counter that runs out: the gap, the full slots and the exhausted counter are all reached, before and after a TPM Reset |
| `lifecycle` | `ClockNeverRepeats`, `Pcr0TellsMethod`, `IdentityNamesOneBoot`, `ResumeRestores` | one of four bounds per behaviour: Clock over two intervals of two ticks and two boots; extends and H-CRTM or D-RTM over two boots; the hash sequences over three boots; two banks that come and go over three boots |
| `device` | `RefusedStaysOut`, `AckedIsDurable`, `NothingSeenLate`, `QuietIsSaved` | two connections and three commands: one to start the TPM and two that interleave, with the platform signal and failing writes between any two lock sections |
| `nv` | `IncrementsNeverRepeat`, `CounterOnlyGrows`, `WriteLockHolds` | two handles, one public area for each rule of the startup, two boots after the first: define, use, lose, define again, with a jump and a crash |
| `transports` | `ServedWithinLimit`, `NoSlotLost`, `LocalityInForce`, `FlagStops`, `NobodyWaitsForEver` | three clients over two slots and a backlog of one on two listeners: a refused connection, a full backlog when a listener is to be woken, two requests that interleave |
| `lockout` | `NoGuessForgotten`, `RecoveryIsEarned`, `LockoutAuthLeftAlone` | three guesses with two under way, two sets of parameters, one of which has no lockoutRecovery; time enough for a recovery under either |
| `act` | `NotExtended`, `StopsInTheEnd` | a second of three units and steps of up to three: fractions that carry, and the bound of three lost ones is met; two sets and two faults |
| `policy` | `AssertionsHold`, `PolicyMet`, `TiedOnce` | eleven policies, so that every assertion is part of one; one change of the environment and one startup between assertion and use, and a session used twice |
| `authorization` | `NoReplay`, `OldValueCutOff`, `LogUnbroken` | two callers of whom one knows the new value, two sessions, four nonces: a session used and used again with a request under way, or two sessions in one request |
| `objects` | `NothingOutlivesItsHierarchy`, `StateClearEnds`, `OffMeansEmpty` | three objects in two slots, one thing kept outside, two changes of the hierarchies or startups: parent, child and grandchild, saved before a change and brought back after it |
| `execution` | `ReportsChain`, `PagesComplete`, `QuietInTrouble` | two audited codes, one of them the report; logs of two entries; two Indices and pages of one |

Each of these instances was also explored at random with every bound two to four times
as large, 10^6 to 10^7 states a run.

Some properties leave out by name a case the code does not keep (see the next
section). `ClockNeverRepeats` and `IdentityNamesOneBoot` leave out a crash that
forgets that a shutdown was undone (`undone`); `Pcr0TellsMethod` and `ResumeRestores`
an H-CRTM sequence that no startup took up (`orphan`) and banks that `_TPM_Init` built
again (`rebuilt`); `AckedIsDurable` a file that is read again under a command
(`overtaken`); `NoGuessForgotten` a second guess that was in no file (`excused`);
`AssertionsHold` a PCR assertion older than the last startup and a command code that a
selection replaced.

`CHECK_DEADLOCK FALSE` is in every configuration: the bounds stop every behaviour,
and a TPM that nobody calls may stay as it is.

### Fairness

`Transports` assumes weak fairness of each accept loop, of each connection thread in the
middle of a request, and of the end of `serve`. These are operating system threads that
block only in `accept` and in `read`; the model's steps are disabled there, so fairness
asks nothing of a client: a client that stalls keeps its thread for ever, and both
liveness properties hold all the same.

`Act` assumes that the platform polls the signal again and again with some time in
between (`WF_vars(Poll(1))`), which is how the signal is watched at all: the timer has no
thread, and time reaches it only with a call.

Nothing else assumes fairness. `GapHasRemedy` states as an invariant what would otherwise
be a liveness question: at the context gap there is always a command that the caller can
give and that opens it.

## Where the code and its comments disagree

Met while modelling. Each is in the models as the code has it.

Persistence and crashes:

- `execute.rs:72-79`: a command after `TPM2_Shutdown` undoes it in memory only. After a
  crash the file still says orderly: a repeated Clock is reported as safe
  (`state.rs:707-709` says the flag is then CLEAR), reset counters repeat, commit values
  and context counters start from what was saved, and a wrong authorization is not made
  up for.
- `device.rs:377-378` says of a command whose write failed "nothing is allowed to observe
  it"; the mutex is released before the failure is recorded, and another connection can.
- `device.rs:356-357` says a command "is followed by a write so the state file matches";
  a power on that reads the file again between a command and its write makes the write
  one of the old state, and the command is answered with success.
- `power_off` and `act_get_signaled` ignore a `persist` that fails; `STOP` on the socket
  transport ends the process without one.
- A power on whose reload fails records `nv write` as the test failure, and the self tests
  that follow clear the record; failure mode stays.

Startup and PCR:

- `state.rs:827-829`: an H-CRTM sequence writes PCR 0 before any startup; a power cycle
  drops the flag and keeps the register; a resume then finds the method unchanged.
- `state.rs:801-802` says only a request that differs rebuilds the banks;
  `TPM2_PCR_Allocate` of a bank that is there already moves it to the end of the stored
  list, which `on_init` compares with a sorted one: every `_TPM_Init` from then on
  rebuilds the banks, also before a resume.
- `core/act.rs:179`: a second `TPM2_Shutdown(TPM_SU_STATE)` halves the timer again.

NV, lockout and authorization:

- `nv.rs:208-211` says a counter starts past any value a counter of the same Name has had;
  the jump of an orderly counter does not reach `highest_counter`, and `TPM2_Clear` drops
  Indices without raising it. `IncrementsNeverRepeat` is about values that increments
  gave, and holds.
- An Index with `WRITEDEFINE` and `CLEAR_STCLEAR` stays write locked with its data gone.
- `device.rs:327-332`: the count of a PIN Index is not in the witness, so a wrong PIN is
  not followed by a write.
- `state.rs:176-182`: a startup makes up for one failure; two connections may each have
  had one in flight.
- `dispatch.rs:1217` says recorded assertions must still hold; `pcrUpdateCounter` does not
  move over a Restart or a Resume, so a PCR assertion of a saved session survives the
  reset of the register.
- `policy.rs:1308, 1648` overwrite the command code of an earlier
  `TPM2_PolicyCommandCode` where a comparison would be expected.
- `state.rs:1366`: the Qualified Name of a persistent object is rebuilt from its hierarchy
  on reload, without the parents it had.

Commands:

- `management.rs:760`: the list of authorization policies is not in the order of its
  handles; a client that pages from the last handle never sees the one of LOCKOUT, and
  `TPM2_PolicyCapability` for it says that it does not exist.
- `management.rs:690-722`: the list of saved sessions is always empty.
- `execute.rs:43`: a TPM whose power-on test fails refuses `TPM2_Startup` with FAILURE and
  `TPM2_GetTestResult` with INITIALIZE, so it cannot say why.
- `table.rs:442`: `TPM2_NV_DefineSpace2` is missing from the commands that Read-Only mode
  refuses; `table.rs:436-441` says otherwise.
- `TPM2_ReadOnlyControl` is not marked as writing NV, so a crash and a resume can take the
  mode back.
- `rand.rs:5` says the generator is reseeded by `TPM2_StirRandom`, which does not reset its
  counter.
- `context.rs:351` speaks of the proof of the storage hierarchy; the code takes that of
  the NULL hierarchy.
- `signing.rs:197-198`: a signing sequence is bound to its key by handle alone; any plain,
  HMAC or event sequence that begins with a header can be completed by
  `TPM2_SignSequenceComplete`.

Transports:

- `qemu.rs:361`: a SHUTDOWN whose reply cannot be written returns before the stop is
  requested.
- A connection thread that panics does not give its slot back; a loop that counts a
  connection it then refuses can make the other loop refuse one below the limit.

## What is proved

The constants range over everything their assumptions allow; no bound of the
configurations is used. All invariants and action properties of the runs are proved.

A component's theorems are in the proof module of its own name, but for five that are
with a neighbour: `Signing` with `Commits`, which it extends; `Authorization` with
`Lockout`, which counts its refusals; `Objects` with `Device`, which keeps them; `Policy`
with `Act`, which counts in Time as its limits do; `Execution` with `Transports`, which
hand it the commands. The last four pairs have no variable in common, so nothing proved
of one component there is used for the other. Where two modules would have used one name,
one of them has it with its own name in front: `PolicyInit`, `ObjectsNext`.

**`CommitsProof`**, from `SizesAssumption` (the sizes are positive and `W` is a multiple
of `N`). `SingleUse` says nothing about the bits, so it is not inductive. The invariant
`IInv` adds `SlotsTrackUse`: for the last `N` counters of the present epoch, the bit is
set exactly when that commit has not been used; `NoStraySlot`: no bit is set before a
counter has reached it; and `OnlyIssued`. The step that matters is that a counter
recovered from its low order bits is inside the window, so its bit is its own.
`CommitsSingleUse`, `CommitsStillUsable` and `CommitsImplementOneTime` follow; the last
maps initial states and every step to `OneTimeTokens`.

The same module has the composition with the commands that sign, from `KeysAssumption` as
well. `SigningImplementsCommits` is a refinement: with the keys, sequences, tickets and
messages hidden, every command of `Signing` is a step of `Commits` or stutters, so
`SigningSingleUse`, `SigningStillUsable` and `SigningImplementsOneTime` follow from what
is proved of `Commits`. A step only refines if the counter that `SignSequenceComplete`
reads back from a sequence's header is a counter; `HeadersTyped` says so of the sequence
in memory and of one that was saved. `SigningNothingPassedOff` needs `TicketsHonest`: no
ticket that vouches for a message was made for one that begins like an attestation.

**`SessionContextsProof`**, from `BoundsAssumption`. `IInv` has `SlotsAgree` (a handle
is loaded or saved, not both), `IdsBehindCounter`, `IdsDistinct`, `IdsInWindow` (no
active session is further back than one past the gap) and `LoadedIsStale` (a context
that was loaded is older than anything its handle can carry again). The cases to get
right are those where the counter has stopped at its limit: the clauses about numbers
are weaker there, and saves are refused. `SessionsNoReplay` and
`SessionsSavedStaysLoadable` follow. `SessionsGapHasRemedy` needs one more invariant,
`Held`: the context of every saved session is among those a caller was given. At the gap
the window puts the oldest session exactly one past it, and that is as far back as
`context_load` reaches.

**`NvProof`**, from `NvAssumption`. `IInv` says that no increment has gone past
`highest_counter`, that a written counter is at least as far as the last increment at its
handle (`Reached`), and that a counter once written keeps one number (`Shape`).
`NvIncrementsNeverRepeat` needs all three: an Index can be redefined, and then the mark
is all that is left of the earlier one; `NvCounterOnlyGrows` and `NvWriteLockHolds` are
action properties proved from the same invariant.

**`LifecycleProof`**, from `LifecycleAssumption`: any update interval and any finite set
of banks. The properties relate memory, file and what a caller has seen, and a crash
makes the file the memory, so the invariant speaks of both. `Linked`: a shutdown in
memory is the one in the file. `Lagging`: the file is behind Clock by no more than the
time since the last roll over, which is less than the interval, and reports are less
than an interval ahead of that roll over; so the roll over that sets `safe` again comes
after the repeat is over. `SafeSaysSo` is `ClockNeverRepeats` for a TPM that has
not started yet and for the file. `Counting`: `resetCount` never goes down, and with an
orderly shutdown in the file no counter that was reported is ahead of it. `Allocated`,
`Measured` and `Resumable` say what the banks of memory and file hold as long as a
resume may come. The steps are proved in three parts each, types, times and registers
(`TimePasses`, `StartupTimes`, `RegistersWritten` and their like), which the lemma of each
action puts together. `on_init` compares the banks with an ordered list of them; that a
finite set of numbers has one (`Listing`) is proved by a smallest counterexample, with
the library's theorem that strict inclusion of finite sets is well founded.

**`DeviceProof`**, from `DeviceAssumption`: any finite number of connections.
`OwnNumber`: a thread in a command has a number nobody else has. `NotYet` and
`Remembered`: its mark is nowhere before it ran, and in memory from then to its write.
`Contained` has `RefusedStaysOut` and says where a refused mark may be: in memory only
while the failure is recorded, but for those in `early`, which the write of another
connection had put in the file before the refusal. `DirtyHasWriter` is what makes
`QuietIsSaved` inductive: while the file is not the memory and no failure is recorded,
some thread is on its way to `persist`. A thread that compares its witness and finds no
change may rely on that only because another thread, the one that did change it, does
not.

The same module has `Objects`, from `ObjectsAssumption`: any templates, slots, and
whatever is kept outside. The properties are about the slots, but objects come back from
contexts, private areas, duplicates and persistent handles, so `ObjectsIInv` has a part
for each. `InSlot` and `InNv` say that the object is `Current`: loaded under the proof
there is, and, if it may not leave its parent, rooted in the seed there is.
`SoundContext` is an implication for what may never be loaded again: if the proof is
still that of the context, the object in it is current; and if the counters are those it
was saved with, no startup has come in between. `SoundPrivate` passes the root of a
parent on to a child that may not leave it; its key is then that of a parent which may
not leave either (`WellNamed`), without which a key that was moved could bring back one
that was not to be. `SoundDuplicate`: what is duplicated may leave. `OffMeansEmpty`
needs `FlushHierarchy` to reach the limited hierarchies by their base.

**`LockoutProof`**, from `LockoutAssumption`: any parameters. `Accounted` keeps two
accounts of the guesses, one for memory and one for the file, because either may become
the other. `Earned` says of a record with tries that its next recovery is not due before
it has been paid for in time, with `Slow`, that no deadline or parameter in memory or
file is below the least recovery time. `Held`: the special lockout is on while
lockoutAuth must wait, with a deadline no earlier than the end of the wait.

The same module has `Authorization`, from `AuthorizationAssumption`: any callers, each
with any values it knows, and any number of sessions, nonces and requests under way.
`NoReplay` says of a history variable that nothing was accepted twice; `Apart` is why.
No two loaded sessions share a nonce or a key, and no nonce of a session has been
redeemed, because `roll_response_nonces` draws one for every session of an area when the
command succeeds, also when it names one session in both places. For `OldValueCutOff`,
`Honest` says of each request under way that its caller can compute the session key of
any HMAC in it and knows the value that is in the key. A session bound to an entity
leaves the value out only while it is the one the session was bound with
(`is_bound_to`), and whoever can compute the key of such a session knew that one.
`Unbroken`: the exclusive session is loaded and nothing auditable has run since its last
entry.

**`ActProof`**, from `ActAssumption`: any length of a second. `NotExtended` allows three
fractions of a second, and is not inductive: how many may still be lost depends on the
phase. `Slack` is that number for each phase (just set; saved; one second to go), and
`Bounded` states the bound with it for the timer and for the file's copy of it. Each
halving pays for the fraction it drops with the time it takes off.

The same module has `Policy`, from `PolicyAssumption`: any policies, approved digests,
requests and limit. Assertion and use are many steps apart, and the session keeps not
the assertions but the restrictions that are left of them. So `PolicyIInv` says of every
assertion in the history `made` what is left of it (`Stands`): `Restricts`, a field that
holds its restriction or a stricter one; `Measures`, for a PCR, that the recorded
counter is not the present one, or the register has the value; `Expires`, that the limit
kept is no later, and of no earlier run of Time; `Nonced`, that its nonce is that of the
session; and `Founded`, that an entry that stands for a digest has one behind it all of
which was asserted before. `PolicyMet` follows from this and from the digest of a
session being a sequence of its assertions. `Restricts` allows for a command code that a
selection overwrites, and nothing else. `SoundTicket` says of the tickets outside that
redeeming one leaves a session of this form. `TiedOnce` needs only that the nonce of a
session is not among those spent, in memory or saved.

**`TransportsProof`**, from `TransportsAssumption`: any clients, limit and backlog.
`Queued` and `Held` say that a client is in one backlog once, or with one loop, so that
taking it from a queue and handing it to a thread moves one connection; `Counted` then
relates `active` to the threads that serve and the loops that hold a slot. `InForce`
follows a request of a virtual machine's channel step by step (`Planned`): the locality a
command has loaded was one of those in force since it was sent.

The same module has `Execution`, from `ExecutionAssumption`: any finite set of NV
handles, any list of the codes the model has to audit, pages of any size.
`ExecutionIInv` has four parts. `Silent`: while power is on, trouble and a failed
write on record mean failure mode. `Recorded`: the file has the log of the memory unless a write
failed. That is not because every audited command is followed by a write for the table's
sake, but because the witness compares the counter and the digest. `Linked` follows a
verifier: the log is what it missed, with the counter one further if that is not empty;
and if something was lost, by a new algorithm or a restart, the counter is already
beyond what would chain. `Paging`: what the client has seen is increasing and below the
property it goes on from, and holds every Index below it that was there since it began.
`take` cuts a list in order, so the last item shown and the first one left out have
nothing between them; that a finite set of handles has such a list is the lemma
`OrderExists`.

### Only model-checked

Liveness: `FlagStops`, `NobodyWaitsForEver` and `StopsInTheEnd`. They rest on fairness,
and what is enabled, which these proofs do not reach. TLC checks them at the sizes
above.

## What is not modelled, and why

- Cryptography and marshalling: arithmetic over large numbers and bytes is out of reach
  of TLC; the models take digests, nonces and seals as opaque.
- Handle and parameter checks, structures, constants: no state. What the command table
  says of a command is used where it matters.
- Encryption and decryption commands, `TPM2_ClockRateAdjust`, the attached component
  commands, the contents of most capabilities: nothing else depends on them.
- Console, command line, logging: I/O.
- The order of a file's bytes on the disk: `persist` writes a temporary file and renames
  it, which the models take as one step that happens or not.
