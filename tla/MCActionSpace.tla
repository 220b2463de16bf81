---------------------------- MODULE MCActionSpace ----------------------------
(***************************************************************************)
(* A platform with a two-way stick and two buttons that may be pressed     *)
(* together, and a scenario that allows one of them alone.                 *)
(***************************************************************************)
EXTENDS ActionSpace

Stick == {{}, {0}, {1}}
Both == {{}, {2}, {3}, {2, 3}}

MCCoreFiles == {<<Stick, Both>>, <<Both, Stick>>}
MCScenarios == {<<>>, <<{{}, {3}}, Stick>>, <<{{}, {0, 2}}>>}
MCKinds ==
  {"ALL", "FILTERED", "DISCRETE"} \X {1, 2} \cup {<<"MULTI_DISCRETE", 1>>}
=============================================================================
