------------------------------- MODULE Lockout -------------------------------
(***************************************************************************)
(* Dictionary attack protection (LockoutState of src/src/tpm/core/state.rs *)
(* and the authorization checks of src/src/tpm/commands/dispatch.rs), and  *)
(* the counter of a PIN Index.  A wrong value is counted in memory when    *)
(* the command runs and written to the state file afterwards, with the     *)
(* lock released in between, so several connections can have counted       *)
(* failures that no file holds when the write fails or the process ends.   *)
(*                                                                         *)
(* Time is in units of which the intervals are whole multiples.            *)
(***************************************************************************)
EXTENDS Integers, FiniteSetsExt

CONSTANTS
  Params,       \* what TPM2_DictionaryAttackParameters may set
  Default,      \* LockoutState::default
  PinLimit,     \* pinLimit of the PIN Fail Index
  MaxStep,      \* bound: time that passes between two commands
  MaxLived,     \* bound: Time, and time with power since the counter was last reset
  MaxGuesses,   \* bound: wrong values that are compared
  MaxBusy       \* bound: commands that ran and have not written yet

ASSUME LockoutAssumption ==
  /\ Params \subseteq [max : Nat, recovery : Nat, lockout : Nat]
  /\ Default \in Params
  /\ {PinLimit, MaxStep, MaxLived, MaxGuesses, MaxBusy} \subseteq Nat

VARIABLES
  mem,       \* what NV holds, as the TPM has it
  file,      \* the same, as the state file has it
  until,     \* lockout_until, which no record carries
  time,      \* Time, since the power came on or the startup after it
  started,
  broken,    \* nv_write_failed, which brings failure mode
  busy,      \* commands that ran and have not written yet
  lived,     \* history: all the time with power since the counter was last reset
  tries,     \* history: wrong values compared since then, on protected entities
  recovered, \* history: tries that time took off since then
  least,     \* history: the least recovery time that was ever in force
  unsaved,   \* history: the tries that are in no file
  lost,      \* history: the tries a reload threw away and no startup has made up for
  excused,   \* history: the tries a reload threw away and a startup need not make up for
  wait,      \* history: time lockoutAuth is still to be left alone, or 0
  early,     \* history: lockoutAuth was compared while it was to be left alone
  guesses    \* wrong values that were compared in all

ghosts == <<lived, tries, recovered, least, unsaved, lost, excused, wait, early, guesses>>
vars == <<mem, file, until, time, started, broken, busy, ghosts>>

\* A manufactured TPM, LockoutState::default.
Manufactured ==
  [failed |-> 0, p |-> Default, special |-> FALSE, next |-> 0,
   shutdown |-> "NONE", ever |-> FALSE, pin |-> 0]

Init ==
  /\ mem = Manufactured /\ file = Manufactured
  /\ until = 0 /\ time = 0
  /\ started = FALSE /\ broken = FALSE /\ busy = 0
  /\ lived = 0 /\ tries = 0 /\ recovered = 0 /\ least = Default.recovery
  /\ unsaved = 0 /\ lost = 0 /\ excused = 0 /\ wait = 0 /\ early = FALSE
  /\ guesses = 0

-----------------------------------------------------------------------------
(* LockoutState.                                                           *)

LockedOut(m) == m.p.max = 0 \/ m.failed >= m.p.max

ProtectionOff(m) == m.p.recovery = 0

\* Mutant: the deadline moves on from now, and the failures that came before
\* it are all forgiven.
OnTimeAtOnce(m, t) ==
  LET k == IF ProtectionOff(m) \/ m.failed = 0 \/ t < m.next THEN 0 ELSE m.failed
  IN  [m EXCEPT !.failed = @ - k,
                !.next = IF ProtectionOff(m) THEN @
                         ELSE IF m.failed = k THEN 0 ELSE @ + k * m.p.recovery]

\* on_time: one try for each interval that has gone by since the deadline.
OnTime(m, t) ==
  LET k == IF ProtectionOff(m) \/ m.failed = 0 \/ t < m.next THEN 0
           ELSE Min({m.failed, (t - m.next) \div m.p.recovery + 1})
  IN  [m EXCEPT !.failed = @ - k,
                !.next = IF ProtectionOff(m) THEN @
                         ELSE IF m.failed = k THEN 0 ELSE @ + k * m.p.recovery]

\* Mutant: a disorderly startup is not counted.
PendingForgotten(m) == m

\* count_pending_failure.
CountPendingFailure(m) ==
  IF ~ProtectionOff(m) /\ m.failed < m.p.max THEN [m EXCEPT !.failed = @ + 1] ELSE m

\* The deadlines begin again with Time.
OnStartup(m) ==
  [m EXCEPT !.next = IF m.failed > 0 THEN m.p.recovery ELSE 0,
            !.special = @ /\ m.p.lockout # 0]

\* record_failure and record_lockout_failure.
RecordFailure(m, t) ==
  IF ProtectionOff(m) THEN m ELSE [m EXCEPT !.failed = @ + 1, !.next = t + m.p.recovery]

-----------------------------------------------------------------------------
(* A command: the time since the last one, then what it does.              *)

Undone(m) == IF started THEN [m EXCEPT !.shutdown = "NONE"] ELSE m

\* advance_time, of which what the special lockout holds is kept beside mem.
Elapsed(d) == OnTime(mem, time + d)
SpecialEnds(d) == mem.special /\ until # 0 /\ time + d >= until

Advanced(d) == [Elapsed(d) EXCEPT !.special = @ /\ ~SpecialEnds(d)]

\* The writes that follow a command: its table says so, or the witness does.
\* A command runs only while writes have not failed.
Command(d, nv, m, u) ==
  /\ ~broken
  /\ lived + d <= MaxLived /\ time + d <= MaxLived
  /\ time' = time + d
  /\ mem' = m
  /\ until' = u
  /\ LET writes == nv \/ m.failed # mem.failed \/ m.special # mem.special
     IN  /\ writes => busy < MaxBusy
         /\ busy' = IF writes THEN busy + 1 ELSE busy
  /\ UNCHANGED <<file, broken>>

UntilAfter(d) == IF SpecialEnds(d) THEN 0 ELSE until

\* The histories after d units of time in which the counter went down by k.
Passed(d, k) ==
  /\ lived' = lived + d
  /\ recovered' = recovered + k
  /\ wait' = IF wait > d THEN wait - d ELSE 0

Down(d) == mem.failed - Elapsed(d).failed

\* Any command that has nothing to do with the counters.
Other(d) ==
  /\ Command(d, FALSE, Undone(Advanced(d)), UntilAfter(d))
  /\ Passed(d, Down(d))
  /\ UNCHANGED <<started, tries, least, unsaved, lost, excused, early, guesses>>

\* Mutant: the special lockout does not stop lockoutAuth.
BarredByCount(m, target) == target # "reset" /\ LockedOut(m)

\* check_lockout, for a use of a protected value.  lockoutAuth is one of them,
\* and the special lockout stops it alone; TPM2_DictionaryAttackLockReset is
\* let through by both.
Barred(m, target) ==
  target # "reset" /\ (LockedOut(m) \/ (m.special /\ target # "object"))

\* What a wrong value may be compared with: a protected object or a bound
\* session; lockoutAuth as a password or in an HMAC; lockoutAuth of
\* TPM2_DictionaryAttackLockReset; lockoutAuth folded into a policy session by
\* TPM2_PolicyAuthValue, which enters no special lockout.
Targets == {"object", "lockout", "reset", "policy"}

Guess(target, d) ==
  LET m0 == Undone(Advanced(d))
      m1 == RecordFailure(m0, time + d)
      enters == target \in {"lockout", "reset"}
  IN  /\ started
      /\ guesses < MaxGuesses
      /\ IF Barred(m0, target)
         THEN /\ Command(d, FALSE, m0, UntilAfter(d))
              /\ Passed(d, Down(d))
              /\ UNCHANGED <<tries, unsaved, early, guesses>>
         ELSE /\ Command(d, FALSE, [m1 EXCEPT !.special = @ \/ enters],
                         IF ~enters THEN UntilAfter(d)
                         ELSE IF m1.p.lockout = 0 THEN 0 ELSE time + d + m1.p.lockout)
              /\ lived' = lived + d
              /\ recovered' = recovered + Down(d)
              /\ tries' = tries + (m1.failed - m0.failed)
              /\ unsaved' = unsaved + (m1.failed - m0.failed)
              /\ early' = (early \/ (target = "lockout" /\ wait > d))
              /\ wait' = IF enters THEN m1.p.lockout ELSE IF wait > d THEN wait - d ELSE 0
              /\ guesses' = guesses + 1
      /\ UNCHANGED <<started, least, lost, excused>>

\* The counter starts again, by an authorization that was proved.
Reset(m) ==
  /\ tries' = 0 /\ recovered' = 0 /\ unsaved' = 0 /\ excused' = 0
  /\ lived' = 0 /\ wait' = 0
  /\ least' = Min({least, m.p.recovery})
  /\ UNCHANGED <<started, lost, early, guesses>>

\* TPM2_DictionaryAttackLockReset.
LockReset(d) ==
  LET m == [Undone(Advanced(d)) EXCEPT !.failed = 0, !.next = 0, !.special = FALSE]
  IN  started /\ Command(d, TRUE, m, 0) /\ Reset(m)

\* TPM2_Clear, by the platform or by lockoutAuth.
Clear(d) ==
  LET m == [Undone(Advanced(d)) EXCEPT !.failed = 0, !.next = 0, !.special = FALSE,
                                       !.p = Default]
  IN  started /\ Command(d, TRUE, m, 0) /\ Reset(m)

\* TPM2_DictionaryAttackParameters changes the parameters and nothing else.
SetParameters(p, d) ==
  LET m == [Undone(Advanced(d)) EXCEPT !.p = p]
  IN  /\ started
      /\ ~Barred(Advanced(d), "lockout")
      /\ Command(d, TRUE, m, UntilAfter(d))
      /\ Passed(d, Down(d))
      /\ least' = Min({least, p.recovery})
      /\ UNCHANGED <<started, tries, unsaved, lost, excused, early, guesses>>

\* A PIN Fail Index: check_pin_available, the comparison, record_pin_attempt.
\* What it changes is not among the values the witness compares.
UsePin(right, d) ==
  LET m0 == Undone(Advanced(d))
  IN  /\ started
      /\ m0.pin < PinLimit
      /\ guesses < MaxGuesses
      /\ Command(d, FALSE, [m0 EXCEPT !.pin = IF right THEN 0 ELSE @ + 1], UntilAfter(d))
      /\ Passed(d, Down(d))
      /\ guesses' = IF right THEN guesses ELSE guesses + 1
      /\ UNCHANGED <<started, tries, least, unsaved, lost, excused, early>>

Shutdown(type, d) ==
  /\ started
  /\ Command(d, TRUE, [Advanced(d) EXCEPT !.shutdown = type], UntilAfter(d))
  /\ Passed(d, Down(d))
  /\ UNCHANGED <<started, tries, least, unsaved, lost, excused, early, guesses>>

-----------------------------------------------------------------------------
(* TPM2_Startup.                                                           *)

\* A startup that follows no shutdown makes up for one try the reload may
\* have thrown away, if there is room below maxTries, the protection is on and
\* the file knows of a startup; one that follows a shutdown for none.
MakesUp(m) ==
  m.shutdown = "NONE" /\ m.ever /\ ~ProtectionOff(m) /\ m.failed < m.p.max

Startup(type, d) ==
  LET m0 == Advanced(d)
      m1 == IF type = "CLEAR" /\ m0.shutdown = "NONE" /\ m0.ever
            THEN CountPendingFailure(m0) ELSE m0
      m2 == [OnStartup(m1) EXCEPT !.shutdown = "NONE", !.ever = TRUE]
  IN  /\ ~started
      /\ type = "STATE" => m0.shutdown = "STATE"
      /\ ~broken
      /\ lived + d <= MaxLived /\ time + d <= MaxLived
      /\ busy < MaxBusy
      /\ mem' = m2
      /\ time' = 0
      /\ until' = IF m2.special THEN m2.p.lockout ELSE 0
      /\ started' = TRUE
      /\ busy' = busy + 1
      /\ excused' = excused + IF MakesUp(m0) /\ lost > 0 THEN lost - 1 ELSE lost
      /\ lost' = 0
      /\ unsaved' = unsaved + IF MakesUp(m0) /\ lost > 0 THEN 1 ELSE 0
      /\ lived' = lived + d
      /\ recovered' = recovered + Down(d)
      /\ wait' = IF wait > d THEN m2.p.lockout ELSE 0
      /\ UNCHANGED <<file, broken, tries, least, early, guesses>>

-----------------------------------------------------------------------------
(* Writing, and losing what was not written.                               *)

Write ==
  /\ busy > 0
  /\ busy' = busy - 1
  /\ IF broken
     THEN UNCHANGED <<file, unsaved>>
     ELSE file' = mem /\ unsaved' = 0
  /\ UNCHANGED <<mem, until, time, started, broken, lived, tries, recovered, least, lost,
                 excused, wait, early, guesses>>

WriteFails ==
  /\ busy > 0
  /\ busy' = busy - 1
  /\ broken' = TRUE
  /\ UNCHANGED <<mem, file, until, time, started, ghosts>>

\* What memory held and the file does not is gone: the special lockout with
\* it, if it was not written.
Reload ==
  /\ mem' = file
  /\ until' = 0
  /\ lost' = lost + unsaved
  /\ unsaved' = 0
  /\ wait' = IF file.special THEN wait ELSE 0

\* power_off, whose write may fail unseen, and power_on, which reads the file
\* again only after a write that failed.
PowerCycle(written) ==
  /\ written => ~broken
  /\ started' = FALSE
  /\ time' = 0
  /\ broken' = FALSE
  /\ file' = IF written THEN mem ELSE file
  /\ IF broken
     THEN Reload
     ELSE /\ unsaved' = IF written THEN 0 ELSE unsaved
          /\ UNCHANGED <<mem, until, lost, wait>>
  /\ UNCHANGED <<busy, lived, tries, recovered, least, excused, early, guesses>>

\* The process ends, with whatever was under way, and Tpm::new reads the file.
Crash ==
  /\ started' = FALSE /\ broken' = FALSE
  /\ time' = 0
  /\ busy' = 0
  /\ Reload
  /\ UNCHANGED <<file, lived, tries, recovered, least, excused, early, guesses>>

Next ==
  \/ \E d \in 0 .. MaxStep :
       \/ Other(d)
       \/ \E target \in Targets : Guess(target, d)
       \/ LockReset(d)
       \/ Clear(d)
       \/ \E p \in Params : SetParameters(p, d)
       \/ \E right \in BOOLEAN : UsePin(right, d)
       \/ \E type \in {"CLEAR", "STATE"} : Shutdown(type, d) \/ Startup(type, d)
  \/ Write \/ WriteFails
  \/ \E written \in BOOLEAN : PowerCycle(written)
  \/ Crash

Spec == Init /\ [][Next]_vars

-----------------------------------------------------------------------------
(* Correctness.                                                            *)

\* "So that an attacker cannot try an authorization while NV cannot be
\* written and then reset the TPM to forget it" (state.rs:176-182): every
\* wrong value is in failedTries or was let off by time, through any sequence
\* of failed writes, crashes, power cycles and startups, except those that
\* `excused` names: the second and further that no file held when it was read
\* again, and one that followed a shutdown whose undoing no file held.
NoGuessForgotten ==
  started => tries <= mem.failed + recovered + lost + excused

\* Tries come back one for each recoveryTime with power and no faster, however
\* often Time is restarted and whichever parameters were in force in between.
RecoveryIsEarned == recovered * least <= lived

\* After a wrong lockoutAuth, no other command compares it until
\* lockoutRecovery has passed in one epoch or, when that is zero, a startup
\* has come, or it was reset; power cycles, writes and crashes do not help.
LockoutAuthLeftAlone == ~early

=============================================================================
