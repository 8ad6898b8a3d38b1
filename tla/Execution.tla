------------------------------ MODULE Execution ------------------------------
(***************************************************************************)
(* What every command goes through (src/src/tpm/commands/execute.rs and    *)
(* dispatch.rs): the checks before it runs, the command audit after it,    *)
(* the write of the state file around it (device.rs), and the commands     *)
(* that manage and report that machinery: the self tests, Read-Only mode,  *)
(* the audit list and its report, and TPM2_GetCapability.                  *)
(*                                                                         *)
(* A command is its code.  The audit digest is the sequence of the audited *)
(* codes it was extended with.  Of NV only which handles exist is kept;    *)
(* all of them belong to the owner.                                        *)
(***************************************************************************)
EXTENDS Integers, Sequences, FiniteSets, SequencesExt

CONSTANTS
  Handles,       \* NV handles an Index may be defined at
  Auditable,     \* codes that TPM2_SetCommandCodeAuditStatus is called with
  Pages,         \* how many items a client asks for at a time
  MaxLog,        \* bound: length of an audit log
  MaxCounter     \* bound: the audit counter

\* TPM_CC values (constants.rs).
NV_UndefineSpace == \h122
Clear == \h126
NV_DefineSpace == \h12A
GetCommandAuditDigest == \h133
SetCommandCodeAuditStatus == \h140
IncrementalSelfTest == \h142
SelfTest == \h143
Startup == \h144
Shutdown == \h145
StirRandom == \h146
GetCapability == \h17A
GetRandom == \h17B
GetTestResult == \h17C
NV_DefineSpace2 == \h19D
ReadOnlyControl == \h1A0

ASSUME ExecutionAssumption ==
  /\ Handles \subseteq Nat /\ IsFiniteSet(Handles)
  /\ Auditable \subseteq {GetRandom, GetCommandAuditDigest, Startup, Shutdown,
                          SetCommandCodeAuditStatus, NV_DefineSpace, NV_DefineSpace2,
                          NV_UndefineSpace, StirRandom, ReadOnlyControl, GetTestResult}
  /\ Pages \subseteq Nat \ {0}

VARIABLES
  mem,        \* the state in memory that the file holds too
  file,       \* what the state file holds
  started,    \* TPM2_Startup has been received since power was applied
  powered,
  health,     \* failure_mode and self_test_done
  broken,     \* nv_write_failed
  client,     \* a client that pages through a capability
  verifier,   \* history: what a verifier of the signed audit reports holds
  deceived,   \* history: a report chained to the one before and hid a command
  trouble,    \* history: a test or a write failed and power has not cured it
  spoke       \* history: random octets or a signature left the TPM in trouble

tpm == <<mem, file, started, powered, health, broken>>
history == <<verifier, deceived, trouble, spoke>>
executionVars == <<tpm, client, history>>

-----------------------------------------------------------------------------
(* The command table.                                                      *)

Row(nv, auth) == [nv |-> nv, auth |-> auth]

\* COMMANDS: whether a command is marked as one that writes NV, and how many
\* of its handles carry an authorization.
Table ==
  (NV_UndefineSpace :> Row(TRUE, 1)) @@ (Clear :> Row(TRUE, 1))
  @@ (NV_DefineSpace :> Row(TRUE, 1)) @@ (NV_DefineSpace2 :> Row(TRUE, 1))
  @@ (GetCommandAuditDigest :> Row(TRUE, 2)) @@ (SetCommandCodeAuditStatus :> Row(TRUE, 1))
  @@ (IncrementalSelfTest :> Row(TRUE, 0)) @@ (SelfTest :> Row(TRUE, 0))
  @@ (Startup :> Row(TRUE, 0)) @@ (Shutdown :> Row(TRUE, 0)) @@ (StirRandom :> Row(TRUE, 0))
  @@ (GetCapability :> Row(FALSE, 0)) @@ (GetRandom :> Row(FALSE, 0))
  @@ (GetTestResult :> Row(FALSE, 0)) @@ (ReadOnlyControl :> Row(FALSE, 1))

Commands == DOMAIN Table

\* refused_when_read_only.  NV_DefineSpace2 is not in the list.
RefusedWhenReadOnly ==
  {SetCommandCodeAuditStatus, Clear, NV_DefineSpace, NV_UndefineSpace}

\* allowed_in_failure_mode, allowed_before_startup.
AllowedInFailureMode == {GetTestResult, GetCapability}
AllowedBeforeStartup == {Startup}

-----------------------------------------------------------------------------
NoDigest == <<>>

Manufactured ==
  [codes |-> {SetCommandCodeAuditStatus}, digest |-> NoDigest, counter |-> 0,
   nv |-> {}, readOnly |-> FALSE, shutdown |-> "none"]

Idle == [next |-> -1]

None == -1
NoReport == [last |-> None, missed |-> <<>>, dropped |-> FALSE]

ExecutionInit ==
  /\ mem = Manufactured
  /\ file = Manufactured
  /\ started = FALSE
  /\ powered = FALSE
  /\ health = [failed |-> FALSE, done |-> FALSE]
  /\ broken = FALSE
  /\ client = Idle
  /\ verifier = NoReport
  /\ deceived = FALSE /\ trouble = FALSE /\ spoke = FALSE

-----------------------------------------------------------------------------
(* Capabilities.                                                           *)

\* handles_in_range, for the NV Indices: those it retains, and then sorts.
HandlesInRange(m, property) == {h \in m.nv : h >= property}
InOrder(S) ==
  CHOOSE q \in [1 .. Cardinality(S) -> S] : \A i, j \in DOMAIN q : i < j => q[i] < q[j]

\* Mutant: the answer begins after the property the caller named.
AfterProperty(m, property) == InOrder(HandlesInRange(m, property + 1))

\* build_capability: what the capability holds from the property on.
FromProperty(m, property) == InOrder(HandlesInRange(m, property))

\* take.
Items(all, n) == SubSeq(all, 1, IF Len(all) < n THEN Len(all) ELSE n)
More(all, n) == Len(all) > n

\* What the client was told to be there when it began, and still is.
Track(c, m) ==
  IF c = Idle THEN c ELSE [c EXCEPT !.stable = @ \cap m.nv]

-----------------------------------------------------------------------------
(* Before the command runs.                                                *)

\* The checks up to the one that undoes a shutdown.
Admitted(code) ==
  /\ powered
  /\ health.failed => code \in AllowedInFailureMode
  /\ ~started => code \in AllowedBeforeStartup
  /\ broken => ~Table[code].nv /\ Table[code].auth = 0
  /\ started => code # Startup

\* Any command but TPM2_Shutdown undoes a shutdown.
Undone(code) ==
  IF started /\ code # Shutdown THEN [mem EXCEPT !.shutdown = "none"] ELSE mem

\* Read-Only mode is looked at before any authorization.
Permitted(code) ==
  /\ Admitted(code)
  /\ mem.readOnly => code \notin RefusedWhenReadOnly

-----------------------------------------------------------------------------
(* After the command has run.                                              *)

\* command_audit_applies, with the list as the command left it.
AuditApplies(code, m) ==
  /\ code # Shutdown /\ ~health.failed
  /\ code = SetCommandCodeAuditStatus \/ code \in m.codes

\* update_audit: the counter counts logs, and moves with the first entry.
UpdateAudit(code, m) ==
  IF ~AuditApplies(code, m) THEN m
  ELSE [m EXCEPT !.counter = IF m.digest = NoDigest THEN @ + 1 ELSE @,
                 !.digest = Append(@, code)]

\* Mutant: only what the table marks is written.
WitnessNone(code, m) == Table[code].nv

\* What the command changed is compared (NvWitness) besides its marking.
WritesNv(code, m) == Table[code].nv \/ m.counter # mem.counter \/ m.digest # mem.digest

Failing == [failed |-> TRUE, done |-> FALSE]

\* The memory becomes m and is written where the device writes it.
Written(code, m) ==
  /\ mem' = m
  /\ file' = IF WritesNv(code, m) THEN m ELSE file
  /\ client' = Track(client, m)
  /\ UNCHANGED <<powered, broken>>

\* The write fails: the answer is replaced, nothing more is written until the
\* file has been read again, and the TPM is in failure mode.
WriteFails(code, m) ==
  /\ WritesNv(code, m)
  /\ mem' = m
  /\ client' = Track(client, m)
  /\ broken' = TRUE
  /\ health' = Failing
  /\ trouble' = TRUE
  /\ UNCHANGED <<file, powered, verifier, deceived, spoke>>

Bounded(m) == Len(m.digest) <= MaxLog /\ m.counter <= MaxCounter

-----------------------------------------------------------------------------
(* What a verifier makes of the signed reports: the history.               *)

\* A report says that nothing was missed since the one before, or names all of
\* what was missed, or shows by its counter that a log is gone; and it shows
\* a loss only if there was one.
Chains(counter, digest, v) ==
  /\ digest # NoDigest /\ counter = v.last + 1 => ~v.dropped /\ digest = v.missed
  /\ digest = NoDigest /\ counter = v.last => ~v.dropped /\ v.missed = <<>>
  /\ ~v.dropped => counter = v.last + (IF v.missed = <<>> THEN 0 ELSE 1)

\* An answered command that is no signed report: m before, m2 after the audit.
Missed(code, m, m2) ==
  IF verifier.last = None THEN verifier
  ELSE LET dropped == mem.digest # NoDigest /\ m.digest = NoDigest
           before == IF dropped THEN <<>> ELSE verifier.missed
       IN  [verifier EXCEPT !.dropped = @ \/ dropped,
                            !.missed = IF AuditApplies(code, m) THEN Append(before, code)
                                       ELSE before]

-----------------------------------------------------------------------------
(* Commands.                                                               *)

\* The command left m behind and says yes.
Answered(code, m) ==
  LET m2 == UpdateAudit(code, m)
  IN  /\ Bounded(m2)
      /\ \/ /\ Written(code, m2)
            /\ verifier' = Missed(code, m, m2)
            /\ UNCHANGED <<health, deceived, trouble>>
         \/ WriteFails(code, m2)

\* A command that leaves nothing but its own handler's changes.
Plain(code, m) ==
  /\ Permitted(code)
  /\ Answered(code, m)
  /\ UNCHANGED <<started, spoke>>

\* A command that ends with an error, wherever in its checks: the handles, the
\* authorizations, physical presence, the parameters.  One that is marked is
\* followed by a write all the same.
Refused(code) ==
  LET m == IF Admitted(code) THEN Undone(code) ELSE mem
  IN  /\ powered
      /\ ~broken
      /\ m # mem \/ m # file
      /\ \/ Written(code, m) /\ UNCHANGED <<health, history>>
         \/ WriteFails(code, m)
      /\ UNCHANGED started

\* run_command answers TPM_RC_FAILURE: a generator that is exhausted, a pair-
\* wise test, a library call.
CommandFails(code) ==
  /\ Permitted(code)
  /\ Written(code, Undone(code))
  /\ health' = Failing
  /\ trouble' = TRUE
  /\ UNCHANGED <<started, verifier, deceived, spoke>>

\* Random octets and signatures are what a failed test must keep in.
Speaks == spoke' = (spoke \/ trouble)

GetRandomCommand ==
  /\ Permitted(GetRandom)
  /\ Answered(GetRandom, Undone(GetRandom))
  /\ Speaks
  /\ UNCHANGED started

\* TPM2_SetCommandCodeAuditStatus with a set and a clear list.
SetAuditStatus(set, clear) ==
  LET m == Undone(SetCommandCodeAuditStatus)
  IN  Plain(SetCommandCodeAuditStatus,
        [m EXCEPT !.codes = (@ \cup (set \ {Shutdown})) \ (clear \ {SetCommandCodeAuditStatus})])

\* The same with another algorithm: the log is gone and the command keeps
\* itself out of the audit.
SetAuditAlgorithm ==
  LET m == [Undone(SetCommandCodeAuditStatus) EXCEPT !.digest = NoDigest]
  IN  /\ Permitted(SetCommandCodeAuditStatus)
      /\ \/ /\ Written(SetCommandCodeAuditStatus, m)
            /\ verifier' = IF verifier.last = None \/ mem.digest = NoDigest THEN verifier
                           ELSE [verifier EXCEPT !.dropped = TRUE, !.missed = <<>>]
            /\ UNCHANGED <<health, deceived, trouble>>
         \/ WriteFails(SetCommandCodeAuditStatus, m)
      /\ UNCHANGED <<started, spoke>>

EndOfLog(m, signed) == IF signed THEN [m EXCEPT !.digest = NoDigest] ELSE m

\* TPM2_GetCommandAuditDigest, signed or with the null handle.
AuditDigest(signed) ==
  LET code == GetCommandAuditDigest
      m == EndOfLog(Undone(code), signed)
      m2 == UpdateAudit(code, m)
  IN  /\ Permitted(code)
      /\ Bounded(m2)
      /\ \/ /\ Written(code, m2)
            /\ UNCHANGED <<health, trouble>>
            /\ IF ~signed THEN verifier' = Missed(code, mem, m2) /\ UNCHANGED <<deceived, spoke>>
               ELSE /\ Speaks
                    /\ deceived' = (deceived \/ (verifier.last # None
                                       /\ ~Chains(mem.counter, mem.digest, verifier)))
                    /\ verifier' = [last |-> mem.counter, dropped |-> FALSE,
                                    missed |-> IF AuditApplies(code, m) THEN <<code>> ELSE <<>>]
         \/ WriteFails(code, m2)
      /\ UNCHANGED started

\* TPM2_NV_DefineSpace and its newer form, TPM2_NV_UndefineSpace.
DefineSpace(code, h) ==
  /\ h \notin mem.nv
  /\ Plain(code, [Undone(code) EXCEPT !.nv = @ \cup {h}])

UndefineSpace(h) ==
  /\ h \in mem.nv
  /\ Plain(NV_UndefineSpace, [Undone(NV_UndefineSpace) EXCEPT !.nv = @ \ {h}])

\* TPM2_Clear resets the counter and nothing else of the audit: the verifier
\* has to begin again.
ClearCommand ==
  LET m == [Undone(Clear) EXCEPT !.nv = {}, !.counter = 0]
  IN  /\ Permitted(Clear)
      /\ \/ Written(Clear, m) /\ verifier' = NoReport
            /\ UNCHANGED <<health, deceived, trouble, spoke>>
         \/ WriteFails(Clear, m)
      /\ UNCHANGED started

\* TPM2_ReadOnlyControl.
ReadOnly(on) ==
  Plain(ReadOnlyControl, [Undone(ReadOnlyControl) EXCEPT !.readOnly = on])

\* TPM2_StirRandom.
Stir == Plain(StirRandom, Undone(StirRandom))

\* TPM2_GetTestResult reads; in failure mode it answers as long as the TPM had
\* been started.
TestResult == Plain(GetTestResult, Undone(GetTestResult))

\* TPM2_Shutdown.
ShutdownCommand(type) == Plain(Shutdown, [mem EXCEPT !.shutdown = type])

\* TPM2_Startup: a TPM Reset, a TPM Restart or a TPM Resume.
StartupCommand(type) ==
  LET m == [mem EXCEPT !.shutdown = "none",
                       !.readOnly = @ /\ type = "state",
                       !.digest = IF mem.shutdown = "state" THEN @ ELSE NoDigest]
  IN  /\ Permitted(Startup)
      /\ type = "state" => mem.shutdown = "state"
      /\ started' = TRUE
      /\ Answered(Startup, m)
      /\ UNCHANGED spoke

-----------------------------------------------------------------------------
(* Self tests.                                                             *)

\* known_answer_tests: the first of the nine that fails ends them.
KnownAnswers == {"agree", "differ"}

\* integrity_test: a module that was never packaged has nothing to compare.
Integrity == {"passed", "not performed", "failed"}

\* What run_self_tests comes to.
Outcomes ==
  {passes \in BOOLEAN : \E k \in KnownAnswers, i \in Integrity :
                         passes <=> k = "agree" /\ i # "failed"}

Passed(h) == [h EXCEPT !.done = TRUE]

\* TPM2_SelfTest, full or not, and TPM2_IncrementalSelfTest: run_self_tests
\* where there is something to test.
SelfTests(code, full) ==
  LET tests == full \/ ~health.done
      m == Undone(code)
  IN  /\ Permitted(code)
      /\ \/ /\ Written(code, m)
            /\ health' = IF tests THEN Passed(health) ELSE health
            /\ UNCHANGED <<verifier, deceived, trouble, spoke>>
         \/ /\ tests /\ FALSE \in Outcomes
            /\ Written(code, m)
            /\ health' = Failing
            /\ trouble' = TRUE
            /\ UNCHANGED <<verifier, deceived, spoke>>
         \/ WriteFails(code, m)
      /\ UNCHANGED started

-----------------------------------------------------------------------------
(* A client of TPM2_GetCapability.                                         *)

BeginPages ==
  /\ client = Idle
  /\ client' = [next |-> 0, seen |-> <<>>, done |-> FALSE, stable |-> mem.nv]
  /\ UNCHANGED <<tpm, history>>

\* TPM2_GetCapability for n items, which goes on after the last one it had.
Page(n) ==
  LET all == FromProperty(mem, client.next)
      items == Items(all, n)
  IN  /\ client # Idle /\ ~client.done
      /\ Permitted(GetCapability)
      /\ mem' = Undone(GetCapability)
      /\ client' = [client EXCEPT !.seen = @ \o items,
                                  !.next = IF items = <<>> THEN @ ELSE Last(items) + 1,
                                  !.done = ~More(all, n)]
      /\ UNCHANGED <<file, started, powered, health, broken, history>>

EndPages ==
  /\ client # Idle
  /\ client.done
  /\ client' = Idle
  /\ UNCHANGED <<tpm, history>>

-----------------------------------------------------------------------------
(* Power.                                                                  *)

\* Mutant: the tests run before failure mode is left.
AfterInitTests(b, passes) ==
  [failed |-> b, done |-> passes]

\* Failure mode is left, unless the file could not be read again after a write
\* that failed; then the tests run, and a failure puts it back.
AfterInit(b, passes) ==
  [failed |-> b \/ ~passes, done |-> passes]

\* power_on.
PowerOn ==
  /\ powered' = TRUE
  /\ started' = FALSE
  /\ \E reads \in BOOLEAN, passes \in Outcomes :
       /\ ~reads => broken
       /\ mem' = IF broken /\ reads THEN file ELSE mem
       /\ broken' = (broken /\ ~reads)
       /\ health' = AfterInit(broken', passes)
       /\ trouble' = (~passes \/ broken')
  /\ client' = Track(client, mem')
  /\ UNCHANGED <<file, verifier, deceived, spoke>>

\* power_off: a write that fails is not noticed.
PowerOff ==
  /\ powered
  /\ powered' = FALSE
  /\ started' = FALSE
  /\ file' \in IF broken THEN {file} ELSE {file, mem}
  /\ UNCHANGED <<mem, health, broken, client, history>>

\* The process ends, and another one reads the file.
Restart ==
  /\ mem' = file
  /\ started' = FALSE
  /\ powered' = FALSE
  /\ broken' = FALSE
  /\ health' = [failed |-> FALSE, done |-> FALSE]
  /\ client' = Track(client, file)
  /\ UNCHANGED <<file, history>>

ExecutionNext ==
  \/ \E code \in Commands : Refused(code)
  \/ \E code \in {GetRandom, StirRandom} : CommandFails(code)
  \/ GetRandomCommand
  \/ \E set, clear \in SUBSET Auditable : SetAuditStatus(set, clear)
  \/ SetAuditAlgorithm
  \/ \E signed \in BOOLEAN : AuditDigest(signed)
  \/ \E h \in Handles :
       \/ \E code \in {NV_DefineSpace, NV_DefineSpace2} : DefineSpace(code, h)
       \/ UndefineSpace(h)
  \/ ClearCommand
  \/ \E on \in BOOLEAN : ReadOnly(on)
  \/ Stir
  \/ TestResult
  \/ \E type \in {"clear", "state"} : ShutdownCommand(type) \/ StartupCommand(type)
  \/ \E full \in BOOLEAN : SelfTests(SelfTest, full)
  \/ SelfTests(IncrementalSelfTest, FALSE)
  \/ BeginPages
  \/ \E n \in Pages : Page(n)
  \/ EndPages
  \/ PowerOn
  \/ PowerOff
  \/ Restart

ExecutionSpec == ExecutionInit /\ [][ExecutionNext]_executionVars

-----------------------------------------------------------------------------
Stores ==
  [codes : SUBSET Nat, digest : Seq(Nat), counter : Nat,
   nv : SUBSET Handles, readOnly : BOOLEAN, shutdown : {"none", "clear", "state"}]

ExecutionTypeOK ==
  /\ mem \in Stores /\ file \in Stores
  /\ {started, powered, broken, deceived, trouble, spoke} \subseteq BOOLEAN
  /\ health \in [failed : BOOLEAN, done : BOOLEAN]
  /\ verifier \in [last : Nat \cup {None}, missed : Seq(Nat), dropped : BOOLEAN]
  /\ client = Idle \/ client \in [next : Nat, seen : Seq(Handles), done : BOOLEAN,
                                  stable : SUBSET Handles]

\* A verifier that keeps the signed audit reports is never deceived: a report
\* whose counter goes on from the report before names every audited command
\* that was answered in between, in order, and an interruption of the log, by
\* a TPM Reset or a change of algorithm, shows in the counter.  The log lives
\* across crashes and power cycles because a command that moved it is followed
\* by a write (device.rs:306), and starts over only with a signature
\* (attest.rs:505) or with TPM2_Clear.
ReportsChain == ~deceived

\* A client that pages through the NV handles, each time from the handle after
\* the last it had, until it is told there is no more (management.rs:677), has
\* seen every Index that was there the whole time, once and in increasing
\* order, while others define and undefine Indices and power comes and goes.
PagesComplete ==
  client # Idle /\ client.done =>
    /\ client.stable \subseteq ToSet(client.seen)
    /\ \A i, j \in 1 .. Len(client.seen) : i < j => client.seen[i] < client.seen[j]

\* Once a self test, a conditional test or the write of the state has failed,
\* no random octets and no signature leave the TPM until power is applied
\* again, the state has been read again and every test has passed
\* (execute.rs:231, device.rs:448).
QuietInTrouble == ~spoke
=============================================================================
