------------------------------- MODULE Device --------------------------------
(***************************************************************************)
(* The device every connection drives (src/src/tpm/device.rs): one thread  *)
(* per connection calls execute, and platform signals come in from         *)
(* another.  The state mutex is taken anew for each part of a command -    *)
(* the witness, the command itself, the second witness, the write, the     *)
(* record of a write that failed - so the parts of two commands and of a   *)
(* power cycle interleave.                                                 *)
(*                                                                         *)
(* What a command does to the TPM is its mark: an nv command leaves its    *)
(* own number in the NV data, and a command whose authorization fails      *)
(* leaves it in the values NvWitness compares.  The file holds both.       *)
(***************************************************************************)
EXTENDS Integers, FiniteSets

CONSTANTS
  Clients,      \* connections
  MaxCommands   \* bound: commands that are sent

ASSUME DeviceAssumption == IsFiniteSet(Clients) /\ MaxCommands \in Nat

\* What the command table says of a command: startup and nv are marked nv,
\* auth names a handle that needs authorization, plain neither.
Kinds == {"startup", "nv", "auth", "plain"}
Marks == 1 .. MaxCommands

VARIABLES
  powered,         \* Tpm.powered
  started,
  nv_available,
  nv_write_failed,
  failure_mode,
  mem,             \* the NV data and the witnessed values in memory
  file,            \* the same in the state file
  issued,          \* commands sent so far
  thread,          \* what each connection is in the middle of
  platform,        \* what the platform signal is in the middle of
  acked,           \* history: nv commands that were answered with success
  refused,         \* history: commands whose write failed, answered NV_UNAVAILABLE
  early,           \* history: the refused whose mark had reached the file all the same
  late,            \* history: marks seen by plain commands run after their refusal
  overtaken        \* history: commands that were under way when the file was read again

state   == <<powered, started, nv_available, nv_write_failed, failure_mode, mem, file>>
history == <<acked, refused, early, late, overtaken>>
vars    == <<state, issued, thread, platform, history>>

Nothing == [nv |-> {}, witness |-> {}]

Idle == [pc |-> "idle", kind |-> "plain", mark |-> 0, before |-> {}, ok |-> FALSE,
         rolled |-> FALSE, writes_nv |-> FALSE]

Init ==
  /\ powered = FALSE
  /\ started = FALSE
  /\ nv_available = TRUE
  /\ nv_write_failed = FALSE
  /\ failure_mode = FALSE
  /\ mem = Nothing
  /\ file = Nothing
  /\ issued = 0
  /\ thread = [c \in Clients |-> Idle]
  /\ platform = "idle"
  /\ acked = {} /\ refused = {} /\ early = {} /\ late = {}
  /\ overtaken = {}

At(c, pc) == thread[c].pc = pc

Goto(c, pc) == thread' = [thread EXCEPT ![c].pc = pc]

-----------------------------------------------------------------------------
(* Tpm::execute, one lock section at a time.                               *)

\* The power check, which takes no lock.
Receive(c, kind) ==
  /\ At(c, "idle")
  /\ issued < MaxCommands
  /\ powered
  /\ issued' = issued + 1
  /\ thread' = [thread EXCEPT ![c] = [Idle EXCEPT !.pc = "before", !.kind = kind,
                                                  !.mark = issued + 1]]
  /\ UNCHANGED <<state, platform, history>>

\* NvWitness before.
Witness(c) ==
  /\ At(c, "before")
  /\ thread' = [thread EXCEPT ![c].pc = "run", ![c].before = mem.witness]
  /\ UNCHANGED <<state, issued, platform, history>>

\* Mutant: a failed write does not stop the commands that need no NV.
AcceptedInFailure(kind) ==
  /\ ~started => kind = "startup"
  /\ ~nv_available \/ nv_write_failed => kind = "plain"
  /\ started => kind # "startup"

\* The refusals that come before a command has any effect, execute.rs.
Accepted(kind) ==
  /\ ~failure_mode
  /\ ~started => kind = "startup"
  /\ ~nv_available \/ nv_write_failed => kind = "plain"
  /\ started => kind # "startup"

\* advance_time, then execute::run.  An authorization that fails is an answer
\* other than success; a plain command sees the state as it is.
Run(c, rolled) ==
  LET me  == thread[c]
      acc == Accepted(me.kind)
  IN  /\ At(c, "run")
      /\ mem' = [mem EXCEPT
                   !.nv = IF acc /\ me.kind \in {"startup", "nv"} THEN @ \cup {me.mark} ELSE @,
                   !.witness = IF acc /\ me.kind = "auth" THEN @ \cup {me.mark} ELSE @]
      /\ started' = (started \/ (acc /\ me.kind = "startup"))
      /\ thread' = [thread EXCEPT ![c].pc = "after", ![c].rolled = rolled,
                      ![c].ok = acc /\ me.kind # "auth"]
      /\ late' = IF acc /\ me.kind = "plain" THEN late \cup (mem.nv \cap (refused \ early))
                 ELSE late
      /\ UNCHANGED <<powered, nv_available, nv_write_failed, failure_mode, file, issued,
                     platform, acked, refused, early, overtaken>>

\* Mutant: only the table says whether a command writes NV.
WritesNvByTable(c) == thread[c].kind \in {"startup", "nv"}

\* Whether the command may have changed what NV holds: the table says so, or
\* the witness does.
WritesNv(c) == thread[c].kind \in {"startup", "nv"} \/ mem.witness # thread[c].before

\* The thread sends its answer; nothing of the TPM is touched any more.
Answer(c) ==
  LET me == thread[c] IN
  /\ acked' = IF me.ok /\ me.kind = "nv" THEN acked \cup {me.mark} ELSE acked
  /\ thread' = [thread EXCEPT ![c] = Idle]

Compare(c) ==
  /\ At(c, "after")
  /\ IF WritesNv(c) \/ thread[c].rolled
     THEN /\ thread' = [thread EXCEPT ![c].pc = "persist", ![c].writes_nv = WritesNv(c)]
          /\ UNCHANGED acked
     ELSE Answer(c)
  /\ UNCHANGED <<state, issued, platform, refused, early, late, overtaken>>

\* Mutant: persist does not look at the record of a failed write.
MayWriteAgain == TRUE

\* persist refuses once a write has failed, and the write itself may fail.
MayWrite == ~nv_write_failed

\* Mutant: the answer does not wait for the write to succeed.
PersistUnchecked(c) ==
  /\ At(c, "persist")
  /\ \/ MayWrite /\ file' = mem
     \/ UNCHANGED file
  /\ Answer(c)
  /\ UNCHANGED <<powered, started, nv_available, nv_write_failed, failure_mode, mem,
                 issued, platform, refused, early, late, overtaken>>

Persist(c) ==
  /\ At(c, "persist")
  /\ \/ MayWrite /\ file' = mem /\ Answer(c)
     \/ UNCHANGED <<file, acked>> /\ Goto(c, "failed")
  /\ UNCHANGED <<powered, started, nv_available, nv_write_failed, failure_mode, mem,
                 issued, platform, refused, early, late, overtaken>>

\* The record of the failure.  A command that writes NV is refused; one that
\* only met a roll over of Clock keeps its answer.
Fail(c) ==
  LET me == thread[c] IN
  /\ At(c, "failed")
  /\ nv_available' = FALSE
  /\ nv_write_failed' = TRUE
  /\ failure_mode' = TRUE
  /\ IF me.writes_nv
     THEN /\ thread' = [thread EXCEPT ![c] = Idle]
          /\ refused' = refused \cup {me.mark}
          /\ early' = IF me.mark \in file.nv \cup file.witness
                      THEN early \cup {me.mark} ELSE early
          /\ UNCHANGED acked
     ELSE Answer(c) /\ UNCHANGED <<refused, early>>
  /\ UNCHANGED <<powered, started, mem, file, issued, platform, late, overtaken>>

-----------------------------------------------------------------------------
(* Platform signals.                                                       *)

UnderWay == {thread[c].mark : c \in {d \in Clients : ~At(d, "idle")}}

\* power_on stores powered, and then _TPM_Init runs in one lock section.
PowerOn ==
  /\ platform = "idle"
  /\ powered' = TRUE
  /\ platform' = "init"
  /\ UNCHANGED <<started, nv_available, nv_write_failed, failure_mode, mem, file,
                 issued, thread, history>>

\* Nothing is read again unless a write failed; then the file may still not
\* be readable, and the TPM stays in failure mode.
TpmInit(readable) ==
  /\ platform = "init"
  /\ platform' = "idle"
  /\ started' = FALSE
  /\ IF nv_write_failed /\ readable
     THEN /\ mem' = file
          /\ nv_write_failed' = FALSE
          /\ nv_available' = TRUE
          /\ overtaken' = overtaken \cup UnderWay
     ELSE UNCHANGED <<mem, nv_write_failed, nv_available, overtaken>>
  /\ failure_mode' = nv_write_failed'
  /\ UNCHANGED <<powered, file, issued, thread, acked, refused, early, late>>

\* power_off persists, whether that works or not, then stores powered, then
\* ends the TPM's operation.
PowerOffPersist ==
  /\ platform = "idle"
  /\ platform' = "off"
  /\ \/ MayWrite /\ file' = mem
     \/ UNCHANGED file
  /\ UNCHANGED <<powered, started, nv_available, nv_write_failed, failure_mode, mem,
                 issued, thread, history>>

PowerOffStore ==
  /\ platform = "off"
  /\ platform' = "stop"
  /\ powered' = FALSE
  /\ UNCHANGED <<started, nv_available, nv_write_failed, failure_mode, mem, file,
                 issued, thread, history>>

PowerOffStop ==
  /\ platform = "stop"
  /\ platform' = "idle"
  /\ started' = FALSE
  /\ UNCHANGED <<powered, nv_available, nv_write_failed, failure_mode, mem, file,
                 issued, thread, history>>

\* SIGNAL_NV_ON and SIGNAL_NV_OFF.
Nv(on) ==
  /\ platform = "idle"
  /\ nv_available' = on
  /\ UNCHANGED <<powered, started, nv_write_failed, failure_mode, mem, file, issued,
                 thread, platform, history>>

\* The process ends with whatever was under way, and Tpm::new reads the file.
Crash ==
  /\ powered' = FALSE /\ started' = FALSE
  /\ nv_available' = TRUE /\ nv_write_failed' = FALSE /\ failure_mode' = FALSE
  /\ mem' = file
  /\ thread' = [c \in Clients |-> Idle]
  /\ platform' = "idle"
  /\ UNCHANGED <<file, issued, history>>

Next ==
  \/ \E c \in Clients :
       \/ \E kind \in Kinds : Receive(c, kind)
       \/ Witness(c)
       \/ \E rolled \in BOOLEAN : Run(c, rolled)
       \/ Compare(c) \/ Persist(c) \/ Fail(c)
  \/ PowerOn
  \/ \E readable \in BOOLEAN : TpmInit(readable)
  \/ PowerOffPersist \/ PowerOffStore \/ PowerOffStop
  \/ \E on \in BOOLEAN : Nv(on)
  \/ Crash

Spec == Init /\ [][Next]_vars

-----------------------------------------------------------------------------
(* Correctness.                                                            *)

\* "Nothing more is written until a restart reads the file again, so what the
\* failed command did cannot become permanent after the caller was told it
\* had not" (device.rs:367-370): what had not reached the file when the
\* failure was recorded never does.
RefusedStaysOut ==
  (refused \ early) \cap (file.nv \cup file.witness) = {}

\* An nv command that was answered with success is in the file, whatever
\* other connections, power cycles and crashes did, unless the file was read
\* again between its effect and its write.
AckedIsDurable == (acked \ overtaken) \subseteq file.nv

\* Once its refusal has been sent, no command sees what a refused command
\* did: failure mode keeps everything out until the file is read again.
NothingSeenLate == late = {}

\* Between commands the file is what the TPM reports, also after commands
\* that changed NV without the table saying so.
QuietIsSaved ==
  /\ \A c \in Clients : At(c, "idle")
  /\ ~nv_write_failed
  => file = mem

=============================================================================
