------------------------------ MODULE Lifecycle ------------------------------
(***************************************************************************)
(* Power, startup and shutdown of the TPM, and the state they keep or      *)
(* throw away: Clock and its safe flag, the two reset counters, the PCR    *)
(* banks and the H-CRTM sequence (src/src/tpm/core/state.rs, core/pcr.rs,  *)
(* commands/management.rs, commands/pcr.rs, device.rs).                    *)
(*                                                                         *)
(* tpm is TpmState in memory and file is what the last persist wrote.  A   *)
(* command that the command table marks nv is followed by a persist; any   *)
(* other command is not, unless Clock rolled over.  A crash ends the       *)
(* process: Tpm::new starts from the file.  Commands run one at a time     *)
(* here and every write succeeds; module Device takes both apart.          *)
(*                                                                         *)
(* A PCR value is <<base, n>>: the value its last reset gave it, extended  *)
(* n times.  A bank is allocated whole.                                    *)
(***************************************************************************)
EXTENDS Integers, Sequences, FiniteSets

CONSTANTS
  Interval,     \* NV_CLOCK_UPDATE_INTERVAL (2^17 ms)
  MaxStep,      \* bound: time credited to one command
  Bounds        \* bounds, one of which holds in a behaviour: on Clock, on TPM
                \* Resets, Restarts, Resumes and D-RTM launches, and on extends
                \* of one PCR since its reset; which banks there are, and
                \* whether there are _TPM_Hash_* signals

ASSUME LifecycleAssumption ==
  /\ Interval \in Nat \ {0}
  /\ MaxStep \in Nat
  /\ \A b \in Bounds :
       /\ b.clock \in Nat /\ b.boots \in Nat /\ b.extends \in Nat /\ b.hash \in BOOLEAN
       /\ b.banks \subseteq Nat /\ b.banks # {} /\ IsFiniteSet(b.banks)

VARIABLES
  powered,      \* Tpm.powered
  tpm,          \* TpmState in memory
  file,         \* the state file
  reported,     \* history: the highest Clock reported since TPM2_Clear
  boot,         \* history: startups and D-RTM launches so far
  identities,   \* history: <<resetCount, restartCount, boot>> as reported since TPM2_Clear
  at_shutdown,  \* history: what TPM2_Shutdown(TPM_SU_STATE) found in the saved PCR
  orphan,       \* history: an H-CRTM sequence set PCR 0 and no startup has claimed it
  rebuilt,      \* history: _TPM_Init built the banks again since the last startup that resets them
  undone,       \* history: a crash forgot that a command had undone a shutdown
  bounds        \* the bounds of this behaviour

history == <<reported, boot, identities, at_shutdown, orphan, rebuilt, undone, bounds>>
vars == <<powered, tpm, file, history>>

-----------------------------------------------------------------------------
(* PCR banks, core/pcr.rs.  Four registers stand for the four kinds: the   *)
(* H-CRTM PCR, the other saved ones, the debug PCR and the D-RTM PCR.      *)

HCRTM_PCR == 0
DRTM_PCR  == 17
Pcrs      == {HCRTM_PCR, 1, 16, DRTM_PCR}
Ones      == -1                             \* every octet 0xff

IsSaved(i)      == i \in {HCRTM_PCR, 1}
StartsAtOnes(i) == i = DRTM_PCR
Resettable(i)   == i = 16                   \* from locality 0
Extendable(i)   == i # DRTM_PCR             \* from locality 0

Fill(i) == IF StartsAtOnes(i) THEN Ones ELSE 0

\* reset_all_but: every register but the one kept, PCR 0 to the locality.
ResetAllBut(bank, keep, locality) ==
  [i \in Pcrs |->
     IF i \in keep THEN bank[i]
     ELSE IF i = HCRTM_PCR THEN <<locality, 0>> ELSE <<Fill(i), 0>>]

\* on_resume: what TPM2_Shutdown(TPM_SU_STATE) does not save starts over.
OnResume(bank) == [i \in Pcrs |-> IF IsSaved(i) THEN bank[i] ELSE <<Fill(i), 0>>]

FreshBank == [i \in Pcrs |-> <<Fill(i), 0>>]

Banks(allocation) == {allocation[k] : k \in DOMAIN allocation}

\* An allocation without a bank, which it lists once at most.
Without(allocation, a) ==
  IF a \in Banks(allocation)
  THEN LET k == CHOOSE j \in DOMAIN allocation : allocation[j] = a
       IN  SubSeq(allocation, 1, k - 1) \o SubSeq(allocation, k + 1, Len(allocation))
  ELSE allocation

\* PcrBanks::allocation lists the banks in the order of a BTreeMap.
InOrder(banks) ==
  CHOOSE s \in [1 .. Cardinality(banks) -> banks] :
    \A j, k \in DOMAIN s : j < k => s[j] < s[k]

SavedPcrs(banks) == [a \in DOMAIN banks |-> [i \in {j \in Pcrs : IsSaved(j)} |-> banks[a][i]]]

Extended(v) == <<v[1], v[2] + 1>>

-----------------------------------------------------------------------------
Saved(t) ==
  [shutdown |-> t.shutdown, orderly |-> t.orderly, ever_started |-> t.ever_started,
   clock |-> t.clock, safe |-> t.safe, resets |-> t.resets, restarts |-> t.restarts,
   allocation |-> t.allocation, pcr |-> t.pcr,
   hcrtm_last |-> t.hcrtm_last, locality |-> t.locality]

\* TpmState::load: the banks are those of the stored allocation, with the
\* values of the ones the file also has values for.
Load(f) ==
  [started |-> FALSE, shutdown |-> f.shutdown, orderly |-> f.orderly,
   ever_started |-> f.ever_started,
   clock |-> f.clock, elapsed |-> 0, safe |-> f.safe,
   resets |-> f.resets, restarts |-> f.restarts,
   allocation |-> f.allocation, pending |-> FALSE,
   pcr |-> [a \in Banks(f.allocation) |->
              IF a \in DOMAIN f.pcr THEN f.pcr[a] ELSE FreshBank],
   hcrtm |-> FALSE, sequence |-> FALSE,
   hcrtm_last |-> f.hcrtm_last, locality |-> f.locality]

\* implemented_pcr_banks: algorithm identifiers, which are numbers.
Algs == bounds.banks

Manufactured ==
  [shutdown |-> "none", orderly |-> FALSE, ever_started |-> FALSE,
   clock |-> 0, safe |-> TRUE, resets |-> 0, restarts |-> 0,
   allocation |-> InOrder(Algs), pcr |-> [a \in Algs |-> FreshBank],
   hcrtm_last |-> FALSE, locality |-> 0]

Init ==
  /\ bounds \in Bounds
  /\ powered = FALSE
  /\ file = Manufactured
  /\ tpm = Load(Manufactured)
  /\ reported = 0
  /\ boot = 0
  /\ identities = {}
  /\ at_shutdown = <<>>
  /\ orphan = FALSE
  /\ rebuilt = FALSE
  /\ undone = FALSE

-----------------------------------------------------------------------------
(* What every command does: credit the time, abandon an H-CRTM sequence,   *)
(* undo a shutdown, and afterwards persist.                                *)

Rolled(t, e) == e > 0 /\ t.elapsed + e >= Interval

AdvanceTime(t, e) ==
  IF Rolled(t, e)
  THEN [t EXCEPT !.clock = @ + e, !.elapsed = 0, !.safe = TRUE]
  ELSE [t EXCEPT !.clock = @ + e, !.elapsed = @ + e]

Steps == {e \in 0 .. MaxStep : tpm.clock + e <= bounds.clock}

Credited(e) == AdvanceTime([tpm EXCEPT !.sequence = FALSE], e)

\* Mutant: only TPM2_Startup clears the record of a shutdown.
UndoDropped(t) == t

\* Any command but TPM2_Shutdown, once the TPM is started.
Undo(t) ==
  IF t.started /\ t.shutdown # "none"
  THEN [t EXCEPT !.shutdown = "none", !.orderly = FALSE]
  ELSE t

\* Mutant: a roll over of Clock is not followed by a write.
FinishWithoutRollover(t, e, writes_nv) ==
  /\ powered
  /\ tpm' = t
  /\ file' = IF writes_nv THEN Saved(t) ELSE file
  /\ UNCHANGED powered

\* persist, after a command that the table marks nv or that the clock rolled
\* over in.
Finish(t, e, writes_nv) ==
  /\ powered
  /\ tpm' = t
  /\ file' = IF writes_nv \/ Rolled(tpm, e) THEN Saved(t) ELSE file
  /\ UNCHANGED powered

\* A command with no effect on this state: one that is refused, nv or not,
\* and every command of the other components.
OtherCommand(e, writes_nv) ==
  /\ Finish(Undo(Credited(e)), e, writes_nv)
  /\ UNCHANGED history

\* A command that reports Clock and the reset counters: TPM2_ReadClock, and
\* the attestation commands.
Report(e) ==
  LET t == Undo(Credited(e)) IN
  /\ tpm.started
  /\ Finish(t, e, FALSE)
  /\ reported' = IF t.clock > reported THEN t.clock ELSE reported
  /\ identities' = identities \cup {<<t.resets, t.restarts, boot>>}
  /\ UNCHANGED <<boot, at_shutdown, orphan, rebuilt, undone, bounds>>

-----------------------------------------------------------------------------
(* Startup and shutdown.                                                   *)

\* begin_operation
Begin(t, orderly) ==
  [t EXCEPT !.pending = FALSE, !.orderly = orderly, !.started = TRUE,
            !.ever_started = TRUE, !.shutdown = "none"]

\* on_startup_clear
OnStartupClear(t, locality) ==
  LET restart    == t.shutdown = "state"
      disorderly == t.shutdown = "none"
      ever       == t.ever_started \/ t.resets > 0 \/ t.restarts > 0
      keep       == IF t.hcrtm THEN {HCRTM_PCR} ELSE {}
  IN  Begin([t EXCEPT
              !.pcr = [a \in DOMAIN t.pcr |-> ResetAllBut(t.pcr[a], keep, locality)],
              !.hcrtm_last = t.hcrtm, !.locality = locality, !.hcrtm = FALSE,
              !.resets = IF restart THEN @ ELSE @ + 1,
              !.restarts = IF restart THEN @ + 1 ELSE 0,
              !.elapsed = 0,
              !.safe = @ /\ ~(disorderly /\ ever)],
            ~disorderly)

StartupClear(locality, e) ==
  /\ powered /\ ~tpm.started
  /\ boot < bounds.boots
  /\ Finish(OnStartupClear(Credited(e), locality), e, TRUE)
  /\ boot' = boot + 1
  /\ orphan' = FALSE /\ rebuilt' = FALSE
  /\ at_shutdown' = <<>>
  /\ UNCHANGED <<reported, identities, undone, bounds>>

\* Mutant: the H-CRTM method is not compared.
MayResumeAnyMethod(t, locality) ==
  /\ t.shutdown = "state"
  /\ t.hcrtm \/ locality = t.locality

\* on_startup_state may resume only what TPM2_Shutdown(TPM_SU_STATE) saved,
\* by the same H-CRTM method, and without one from the same locality.
MayResume(t, locality) ==
  /\ t.shutdown = "state"
  /\ t.hcrtm = t.hcrtm_last
  /\ t.hcrtm \/ locality = t.locality

\* Mutant: a resume does not count as a restart.
OnStartupStateUncounted(t) ==
  Begin([t EXCEPT
           !.hcrtm = FALSE,
           !.pcr = [a \in DOMAIN t.pcr |-> OnResume(t.pcr[a])]],
        TRUE)

OnStartupState(t) ==
  Begin([t EXCEPT
           !.hcrtm = FALSE,
           !.pcr = [a \in DOMAIN t.pcr |-> OnResume(t.pcr[a])],
           !.restarts = @ + 1],
        TRUE)

StartupState(locality, e) ==
  /\ powered /\ ~tpm.started
  /\ boot < bounds.boots
  /\ MayResume(tpm, locality)
  /\ Finish(OnStartupState(Credited(e)), e, TRUE)
  /\ boot' = boot + 1
  /\ orphan' = (orphan /\ ~tpm.hcrtm)
  /\ at_shutdown' = <<>>
  /\ UNCHANGED <<reported, identities, rebuilt, undone, bounds>>

\* TPM2_Shutdown.  After TPM2_PCR_Allocate only TPM_SU_CLEAR is taken.
Shutdown(type, e) ==
  /\ tpm.started
  /\ type = "state" => ~tpm.pending
  /\ Finish([Credited(e) EXCEPT !.shutdown = type, !.orderly = TRUE], e, TRUE)
  /\ at_shutdown' = IF type = "state" THEN SavedPcrs(tpm.pcr) ELSE <<>>
  /\ UNCHANGED <<reported, boot, identities, orphan, rebuilt, undone, bounds>>

\* TPM2_Clear sets Clock and both counters to zero.
Clear(e) ==
  /\ tpm.started
  /\ Finish([Undo(Credited(e)) EXCEPT
              !.clock = 0, !.elapsed = 0, !.resets = 0, !.restarts = 0, !.safe = TRUE], e, TRUE)
  /\ reported' = 0
  /\ identities' = {}
  /\ UNCHANGED <<boot, at_shutdown, orphan, rebuilt, undone, bounds>>

\* TPM2_ClockSet moves Clock forward; the step counts as time that passed.
ClockSet(new, e) ==
  LET t    == Undo(Credited(e))
      jump == new - t.clock
      over == t.elapsed + jump >= Interval
  IN  /\ tpm.started
      /\ new >= t.clock
      /\ Finish([t EXCEPT !.clock = new,
                          !.elapsed = IF over THEN 0 ELSE @ + jump,
                          !.safe = @ \/ over], e, TRUE)
      /\ UNCHANGED history

-----------------------------------------------------------------------------
(* PCR commands.                                                           *)

CanExtend(t, i) == \A a \in DOMAIN t.pcr : t.pcr[a][i][2] < bounds.extends

\* TPM2_PCR_Extend with a digest for each bank of S, and TPM2_PCR_Event with
\* one for every bank: a bank that is not allocated is passed over.
PcrExtend(i, S, e) ==
  LET t       == Undo(Credited(e))
      changed == S \cap DOMAIN t.pcr
  IN  /\ tpm.started
      /\ Extendable(i)
      /\ CanExtend(t, i)
      /\ Finish([t EXCEPT
                  !.pcr = [a \in DOMAIN t.pcr |->
                             IF a \in changed THEN [t.pcr[a] EXCEPT ![i] = Extended(@)]
                             ELSE t.pcr[a]]], e, TRUE)
      /\ UNCHANGED history

PcrReset(i, e) ==
  LET t == Undo(Credited(e)) IN
  /\ tpm.started
  /\ Resettable(i)
  /\ Finish([t EXCEPT
              !.pcr = [a \in DOMAIN t.pcr |-> [t.pcr[a] EXCEPT ![i] = <<0, 0>>]]], e, TRUE)
  /\ UNCHANGED history

\* TPM2_PCR_Allocate of one bank: the bank is taken out of the list and, when
\* anything of it is selected, put back at the end.  PCR 0 and 17 must remain
\* in some bank.
PcrAllocate(a, selected, e) ==
  LET t    == Undo(Credited(e))
      rest == Without(t.allocation, a)
      new  == IF selected THEN Append(rest, a) ELSE rest
  IN  /\ tpm.started
      /\ new # <<>>
      /\ Finish([t EXCEPT !.allocation = new, !.pending = TRUE], e, TRUE)
      /\ UNCHANGED history

-----------------------------------------------------------------------------
(* Platform signals.                                                       *)

HashStart ==
  /\ bounds.hash
  /\ tpm' = [tpm EXCEPT !.sequence = TRUE]
  /\ UNCHANGED <<powered, file, history>>

\* _TPM_Hash_End after TPM2_Startup: drtm_reset, restartCount, and the
\* measurement goes into PCR 17.  Nothing is persisted.
HashEndStarted ==
  /\ tpm.sequence /\ tpm.started
  /\ boot < bounds.boots
  /\ tpm' = [tpm EXCEPT
               !.sequence = FALSE,
               !.restarts = @ + 1,
               !.pcr = [a \in DOMAIN tpm.pcr |->
                          [tpm.pcr[a] EXCEPT ![DRTM_PCR] = <<0, 1>>]]]
  /\ boot' = boot + 1
  /\ UNCHANGED <<powered, file, reported, identities, at_shutdown, orphan, rebuilt, undone, bounds>>

\* _TPM_Hash_End before it: PCR 0 becomes 4 and takes the measurement.
HashEndUnstarted ==
  /\ tpm.sequence /\ ~tpm.started
  /\ tpm' = [tpm EXCEPT
               !.sequence = FALSE,
               !.hcrtm = TRUE,
               !.pcr = [a \in DOMAIN tpm.pcr |->
                          [tpm.pcr[a] EXCEPT ![HCRTM_PCR] = <<4, 1>>]]]
  /\ orphan' = TRUE
  /\ UNCHANGED <<powered, file, reported, boot, identities, at_shutdown, rebuilt, undone, bounds>>

\* on_init: the banks are built again when they are not the stored allocation,
\* which TPM2_PCR_Allocate may have left out of order.
Rebuilds(t) == InOrder(DOMAIN t.pcr) # t.allocation

OnInit(t) ==
  [t EXCEPT
     !.pcr = IF Rebuilds(t)
             THEN [a \in Banks(t.allocation) |-> FreshBank]
             ELSE @,
     !.hcrtm = FALSE, !.sequence = FALSE, !.pending = FALSE]

PowerOn ==
  /\ powered' = TRUE
  /\ tpm' = OnInit([tpm EXCEPT !.started = FALSE])
  /\ rebuilt' = (rebuilt \/ Rebuilds(tpm))
  /\ UNCHANGED <<file, reported, boot, identities, at_shutdown, orphan, undone, bounds>>

PowerOff ==
  /\ file' = Saved(tpm)
  /\ powered' = FALSE
  /\ tpm' = [tpm EXCEPT !.started = FALSE]
  /\ UNCHANGED history

\* ACT_GET_SIGNALED credits time as a command does, and persists on a rollover.
ActGetSignaled(e) ==
  /\ powered
  /\ tpm' = AdvanceTime(tpm, e)
  /\ file' = IF Rolled(tpm, e) THEN Saved(AdvanceTime(tpm, e)) ELSE file
  /\ UNCHANGED <<powered, history>>

\* The process ends, and a new one is started on the file.
Crash ==
  /\ powered' = FALSE
  /\ tpm' = Load(file)
  /\ undone' = (undone \/ (file.shutdown # "none" /\ tpm.shutdown = "none"))
  /\ UNCHANGED <<file, reported, boot, identities, at_shutdown, orphan, rebuilt, bounds>>

Next ==
  \/ \E e \in Steps :
       \/ \E writes_nv \in BOOLEAN : OtherCommand(e, writes_nv)
       \/ Report(e)
       \/ \E locality \in {0, 3} : StartupClear(locality, e) \/ StartupState(locality, e)
       \/ \E type \in {"clear", "state"} : Shutdown(type, e)
       \/ Clear(e)
       \/ \E new \in 0 .. bounds.clock : ClockSet(new, e)
       \/ \E i \in Pcrs, S \in SUBSET Algs : PcrExtend(i, S, e)
       \/ \E i \in Pcrs : PcrReset(i, e)
       \/ \E a \in Algs, selected \in BOOLEAN : PcrAllocate(a, selected, e)
       \/ ActGetSignaled(e)
  \/ HashStart \/ HashEndStarted \/ HashEndUnstarted
  \/ PowerOn \/ PowerOff \/ Crash

Spec == Init /\ [][Next]_vars

-----------------------------------------------------------------------------
(* Correctness.                                                            *)

\* "a flag (safe) is CLEAR after a non-orderly shutdown" (state.rs:703-709):
\* while the TPM says safe, it has never reported a later Clock, across any
\* number of crashes, restarts, roll overs and TPM2_ClockSet; all but the
\* crash that forgets that a shutdown was undone.
ClockNeverRepeats ==
  tpm.started /\ tpm.safe /\ ~undone => tpm.clock >= reported

\* resetCount and restartCount name one boot, and one D-RTM launch within
\* it, in everything the TPM reports between two TPM2_Clear.
IdentityNamesOneBoot ==
  ~undone => \A x, y \in identities : x[1] = y[1] /\ x[2] = y[2] => x[3] = y[3]

\* PCR 0 tells how the TPM was started: 4 below an H-CRTM measurement, or
\* else the locality of the TPM2_Startup (state.rs:633-640), after a resume
\* too; unless an H-CRTM sequence ran that no startup took up, or the banks
\* were built again before the resume.
Pcr0TellsMethod ==
  tpm.started /\ ~orphan /\ ~rebuilt =>
    \A a \in DOMAIN tpm.pcr :
      tpm.pcr[a][HCRTM_PCR][1] = IF tpm.hcrtm_last THEN 4 ELSE tpm.locality

\* A TPM Resume comes back with the PCR that TPM2_Shutdown(TPM_SU_STATE)
\* saved, through power cycles and crashes (state.rs:801-804); PCR 0 unless
\* an H-CRTM sequence has measured into it again.  Left out are banks
\* that _TPM_Init built again because the allocation was stored out of order.
ResumeRestores ==
  [][\A locality \in {0, 3}, e \in Steps :
       StartupState(locality, e) /\ ~rebuilt =>
         \A a \in DOMAIN at_shutdown, i \in Pcrs :
           IsSaved(i) /\ (i = HCRTM_PCR => ~orphan) =>
             a \in DOMAIN tpm'.pcr /\ tpm'.pcr[a][i] = at_shutdown[a][i]]_vars

=============================================================================
