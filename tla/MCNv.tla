-------------------------------- MODULE MCNv --------------------------------
(***************************************************************************)
(* Public areas for the runs of Nv.                                        *)
(***************************************************************************)
EXTENDS Nv, TLC

\* Handles are compared for equality only.
Symmetry == Permutations(Handles)

Area(type, attributes) == [type |-> type, attributes |-> attributes]

\* One area for each rule of on_startup_clear_with, a counter of either
\* creator, and a counter that validate_new_public refuses.
Areas ==
  {Area("counter", {"ORDERLY"}),
   Area("counter", {"PLATFORMCREATE", "WRITEDEFINE"}),
   Area("counter", {"CLEAR_STCLEAR"}),
   Area("ordinary", {"WRITEDEFINE", "READ_STCLEAR"}),
   Area("ordinary", {"CLEAR_STCLEAR", "GLOBALLOCK"}),
   Area("bits", {"ORDERLY", "WRITE_STCLEAR"}),
   Area("extend", {"PLATFORMCREATE", "POLICY_DELETE", "WRITEDEFINE", "GLOBALLOCK"})}

=============================================================================
