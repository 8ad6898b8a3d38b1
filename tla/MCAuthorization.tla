---------------------------- MODULE MCAuthorization ----------------------------
(***************************************************************************)
(* Two callers for model checking, one of whom knows the value that the    *)
(* other does not.                                                         *)
(***************************************************************************)
EXTENDS Authorization

MCKnows == [c \in Callers |-> IF c = "new" THEN {0, 1} ELSE {0}]
=============================================================================
