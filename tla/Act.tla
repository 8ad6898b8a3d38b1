--------------------------------- MODULE Act ---------------------------------
(***************************************************************************)
(* The authenticated countdown timer (src/src/tpm/core/act.rs) across      *)
(* shutdowns, startups, power cycles and crashes.  Time with power reaches *)
(* it only with a command or a poll of its signal, TPM2_ACT_SetTimeout is  *)
(* not a command that writes NV, and the state file has of it the timeout  *)
(* and the signal alone.                                                   *)
(***************************************************************************)
EXTENDS Integers

CONSTANTS
  Second,     \* units of time in a second
  Timeouts,   \* what TPM2_ACT_SetTimeout is asked for
  MaxStep,    \* bound: time that passes between two calls
  MaxSets,    \* bound: uses of TPM2_ACT_SetTimeout
  MaxFaults   \* bound: writes that fail and processes that end

\* The value that clears a signal is the largest that fits.
CLEAR_SIGNALED == CHOOSE t \in Timeouts : \A u \in Timeouts : u <= t

ASSUME ActAssumption ==
  /\ Second \in Nat \ {0}
  /\ Timeouts \subseteq Nat /\ 0 \in Timeouts
  /\ \E t \in Timeouts : \A u \in Timeouts : u <= t
  /\ {MaxStep, MaxSets, MaxFaults} \subseteq Nat

VARIABLES
  act,       \* the timer; `set` and `ran` are history: what it was last set
             \* to, and the time with power it has been counting since
  shutdown,  \* shutdown_type
  file,      \* what the state file has of both
  started,
  broken,    \* nv_write_failed, which brings failure mode
  sets, faults

vars == <<act, shutdown, file, started, broken, sets, faults>>

Stopped ==
  [timeout |-> 0, signaled |-> FALSE, preserve |-> FALSE, fraction |-> 0, written |-> FALSE,
   set |-> 0, ran |-> 0]

TypeOK ==
  /\ act \in [timeout : Nat, signaled : BOOLEAN, preserve : BOOLEAN, fraction : 0 .. Second - 1,
              written : BOOLEAN, set : Nat, ran : Nat]
  /\ shutdown \in {"NONE", "CLEAR", "STATE"}
  /\ file \in [act : [timeout : Nat, signaled : BOOLEAN, preserve : BOOLEAN,
                      fraction : 0 .. Second - 1, written : BOOLEAN,
                      set : Nat, ran : Nat],
               shutdown : {"NONE", "CLEAR", "STATE"}]
  /\ started \in BOOLEAN /\ broken \in BOOLEAN
  /\ sets \in 0 .. MaxSets /\ faults \in 0 .. MaxFaults

-----------------------------------------------------------------------------
(* The timer.                                                              *)

\* Mutant: what does not make a second is dropped.
AdvanceWhole(a, d) ==
  LET s == d \div Second
  IN  IF a.timeout = 0 THEN a
      ELSE IF s >= a.timeout
      THEN [a EXCEPT !.timeout = 0, !.signaled = TRUE, !.ran = @ + s * Second]
      ELSE [a EXCEPT !.timeout = @ - s, !.ran = @ + s * Second]

\* advance: a timer that stands at zero stays put, fraction and all.
Advance(a, d) ==
  LET f == a.fraction + d
      s == f \div Second
  IN  IF a.timeout = 0 THEN a
      ELSE IF s >= a.timeout
      THEN [a EXCEPT !.timeout = 0, !.signaled = TRUE, !.fraction = f % Second,
                     !.ran = @ + d]
      ELSE [a EXCEPT !.timeout = @ - s, !.fraction = f % Second, !.ran = @ + d]

\* set_timeout: the value that clears a signal asks a stopped timer to stay
\* stopped, and any other timer to count that long.
SetTo(a, start) ==
  LET clears == start = CLEAR_SIGNALED /\ a.timeout = 0 /\ a.signaled
      raises == a.timeout # 0 /\ start = 0
  IN  [a EXCEPT !.written = TRUE, !.fraction = 0, !.preserve = FALSE,
                !.timeout = IF clears THEN 0 ELSE start,
                !.signaled = IF clears \/ start # 0 THEN FALSE ELSE raises \/ @,
                !.set = IF clears THEN 0 ELSE start, !.ran = 0]

SavedTimeout(a) == IF a.written THEN a.timeout ELSE a.timeout \div 2

\* Mutant: only the copy that is written out is halved.
OnShutdownWhole(a) == [a EXCEPT !.written = FALSE, !.fraction = 0]

OnShutdownState(a) ==
  [a EXCEPT !.timeout = SavedTimeout(a), !.written = FALSE, !.fraction = 0]

OnReset(a) == Stopped

OnResume(a) ==
  [a EXCEPT !.preserve = a.signaled, !.written = FALSE, !.fraction = 0]

-----------------------------------------------------------------------------
(* Commands: time first, then what the command does.                       *)

Init ==
  /\ act = Stopped /\ shutdown = "NONE"
  /\ file = [act |-> Stopped, shutdown |-> "NONE"]
  /\ started = FALSE /\ broken = FALSE /\ sets = 0 /\ faults = 0

\* A command that writes NV leaves what memory holds in the file, or fails to.
Written(a, down) ==
  \/ file' = [act |-> a, shutdown |-> down] /\ UNCHANGED <<broken, faults>>
  \/ /\ faults < MaxFaults
     /\ faults' = faults + 1 /\ broken' = TRUE
     /\ UNCHANGED file

SetTimeout(start, d) ==
  /\ started /\ ~broken
  /\ sets < MaxSets
  /\ sets' = sets + 1
  /\ act' = SetTo(Advance(act, d), start)
  /\ shutdown' = "NONE"
  /\ UNCHANGED <<file, started, broken, faults>>

\* act_get_signaled, or a command that is refused in failure mode or before
\* TPM2_Startup.
Poll(d) ==
  /\ act' = Advance(act, d)
  /\ UNCHANGED <<shutdown, file, started, broken, sets, faults>>

\* Any other command, which undoes a shutdown; nv tells whether it writes.
Other(nv, d) ==
  /\ started /\ ~broken
  /\ act' = Advance(act, d)
  /\ shutdown' = "NONE"
  /\ IF nv THEN Written(act', "NONE") ELSE UNCHANGED <<file, broken, faults>>
  /\ UNCHANGED <<started, sets>>

Shutdown(type, d) ==
  /\ started /\ ~broken
  /\ act' = IF type = "STATE" THEN OnShutdownState(Advance(act, d)) ELSE Advance(act, d)
  /\ shutdown' = type
  /\ Written(act', type)
  /\ UNCHANGED <<started, sets>>

Startup(type, d) ==
  /\ ~started /\ ~broken
  /\ type = "STATE" => shutdown = "STATE"
  /\ started' = TRUE
  /\ act' = IF type = "STATE" THEN OnResume(Advance(act, d)) ELSE OnReset(act)
  /\ shutdown' = "NONE"
  /\ Written(act', "NONE")
  /\ UNCHANGED sets

-----------------------------------------------------------------------------
(* Power, and a process that ends.                                         *)

\* load, and restore: the file has no attribute but the signal.  The fraction
\* it does not have goes from the history of the time that was counted too.
Reload ==
  /\ act' = [file.act EXCEPT !.preserve = FALSE, !.fraction = 0, !.written = FALSE,
                             !.ran = @ - file.act.fraction]
  /\ shutdown' = file.shutdown

\* Off, with a write of its own that may fail unseen, and on again.
PowerCycle(saved) ==
  /\ saved => ~broken
  /\ started' = FALSE /\ broken' = FALSE
  /\ file' = IF saved THEN [act |-> act, shutdown |-> shutdown] ELSE file
  /\ IF broken THEN Reload ELSE UNCHANGED <<act, shutdown>>
  /\ UNCHANGED <<sets, faults>>

Crash ==
  /\ faults < MaxFaults
  /\ faults' = faults + 1
  /\ started' = FALSE /\ broken' = FALSE
  /\ Reload
  /\ UNCHANGED <<file, sets>>

Next ==
  \/ \E d \in 0 .. MaxStep :
       \/ \E start \in Timeouts : SetTimeout(start, d)
       \/ Poll(d)
       \/ \E nv \in BOOLEAN : Other(nv, d)
       \/ \E type \in {"CLEAR", "STATE"} : Shutdown(type, d) \/ Startup(type, d)
  \/ \E saved \in BOOLEAN : PowerCycle(saved)
  \/ Crash

\* The platform that watches the signal goes on asking for it, and time passes
\* between two of its questions.
Spec == Init /\ [][Next]_vars /\ WF_vars(Poll(1))

-----------------------------------------------------------------------------
(* Correctness.                                                            *)

\* The halving "stops a caller extending the timer for ever by shutting down
\* and starting up again" (act.rs:161-165): whatever the order of shutdowns,
\* startups, power cycles and failed writes, a timer that still counts has
\* been running for less than it was set to and three seconds: saving a timer
\* just set, the resume after it, and one more such resume where halving two
\* seconds leaves one, may each leave out its fraction.  The time before a
\* file is read again is not the timer's to count.
NotExtended ==
  act.timeout > 0 =>
    act.ran + act.timeout * Second - act.fraction <= act.set * Second + 3 * (Second - 1)

\* "If it stops doing so the timer expires" (act.rs:5-6): a timer that nobody
\* sets any more comes to a stop, even if the platform goes on shutting down,
\* starting up and cutting the power for ever.
StopsInTheEnd == []<>(act.timeout = 0)
=============================================================================
