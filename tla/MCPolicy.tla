------------------------------ MODULE MCPolicy -------------------------------
(***************************************************************************)
(* Policies for model checking: each kind of assertion is part of one.     *)
(***************************************************************************)
EXTENDS Policy

Use == [code |-> "Use", names |-> 1, params |-> 1, locality |-> 0]
Duplicate == [code |-> "Duplicate", names |-> 2, params |-> 2, locality |-> 1]
MCRequests == {Use, Duplicate}
MCRestricted == {Use}

Measured == << <<"PCR", 1>>, <<"CC", "Use">> >>
Signed == << <<"SIGNED", "by">> >>

MCApproved == {<< <<"PP", TRUE>>, <<"WRITTEN", TRUE>> >>}
MCNvPolicy == << <<"AUTH", TRUE>>, <<"NV", 1>> >>

MCPolicies ==
  {<< <<"OR", {Measured, Signed}>> >>,
   << <<"SIGNED", "by">>, <<"SECRET", "by">> >>,
   << <<"AUTHORIZE", "key">> >>,
   << <<"AUTHORIZENV", "index">> >>,
   << <<"CP", CpHash(Use)>> >>,
   << <<"CC", "Use">>, <<"SELECT", <<"Duplicate", 2>> >> >>,
   << <<"LOCALITY", {0}>>, <<"TEMPLATE", 1>> >>,
   << <<"NAME", 1>>, <<"TIMER", 1>> >>,
   << <<"PARAMETERS", PHash(Use)>>, <<"CAPABILITY", "neq">> >>,
   << <<"SELECT", <<"AC_Send", 1>> >> >>,
   << <<"CHANNEL", TRUE>> >>}
=============================================================================
