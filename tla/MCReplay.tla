------------------------------ MODULE MCReplay ------------------------------
(***************************************************************************)
(* Replay on one player and two buttons, one of which has no key name and  *)
(* is not pressed.                                                         *)
(***************************************************************************)
EXTENDS Replay

CONSTANTS p1, a, reset

MCPlayers == {p1}
MCButtons == {a, reset}
OneNamed == {a}
MCInputs == {[p \in MCPlayers |-> {a}], [p \in MCPlayers |-> {}]}
=============================================================================
