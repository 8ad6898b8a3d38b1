------------------------------ MODULE MCLockout ------------------------------
(***************************************************************************)
(* Parameters for model checking: the default, and a set with slower       *)
(* recovery and a special lockout that only a startup ends.                *)
(***************************************************************************)
EXTENDS Lockout

MCDefault == [max |-> 2, recovery |-> 1, lockout |-> 2]
MCParams == {MCDefault, [max |-> 1, recovery |-> 2, lockout |-> 0]}
=============================================================================
