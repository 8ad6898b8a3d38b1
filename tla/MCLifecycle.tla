----------------------------- MODULE MCLifecycle -----------------------------
(***************************************************************************)
(* Bounds for model checking: behaviours in which Clock runs over more     *)
(* than one interval, in which PCR are extended between a boot and the     *)
(* next, in which H-CRTM and D-RTM sequences fall between three boots, and *)
(* in which banks come and go over three.  All of it at once has many      *)
(* times the states.                                                       *)
(***************************************************************************)
EXTENDS Lifecycle

Bound(clock, boots, extends, banks, hash) ==
  [clock |-> clock, boots |-> boots, extends |-> extends, banks |-> banks, hash |-> hash]

MCBounds ==
  {Bound(4, 2, 0, {11}, FALSE), Bound(0, 2, 1, {11}, TRUE),
   Bound(0, 3, 0, {11}, TRUE), Bound(0, 3, 0, {11, 12}, FALSE)}
=============================================================================
