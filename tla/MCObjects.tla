------------------------------ MODULE MCObjects ------------------------------
(* What callers ask for in the small instance of Objects.                  *)
EXTENDS Objects

Area(kind, fixed, stClear) ==
  [kind |-> kind, fixedTPM |-> fixed, fixedParent |-> fixed, stClear |-> stClear,
   limited |-> FALSE]

Fixed == Area("storage", TRUE, FALSE)
Leaf == Area("leaf", TRUE, FALSE)
Movable == Area("leaf", FALSE, FALSE)

MCPrimaries ==
  {<<"owner", Fixed>>, <<"fw_owner", Fixed>>,
   <<"owner", Area("storage", TRUE, TRUE)>>, <<"platform", Area("derivation", TRUE, FALSE)>>}
MCChildren == {Leaf, Movable}
MCExternals == {<<"null", Movable, TRUE>>, <<"owner", Fixed, FALSE>>}
==============================================================================
