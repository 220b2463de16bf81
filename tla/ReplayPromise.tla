---------------------------- MODULE ReplayPromise ----------------------------
(***************************************************************************)
(* What docs/python.md promises of a movie: "Because the emulators are     *)
(* deterministic, you will see the same output each time you play back     *)
(* this file."  A player picks a tape, shows it frame by frame, and stops  *)
(* when all of it has been shown.                                          *)
(***************************************************************************)
EXTENDS Naturals, Sequences

CONSTANT Output

VARIABLES tape, shown, playing

vars == <<tape, shown, playing>>

Init == tape = <<>> /\ shown = <<>> /\ ~playing

Pick ==
  /\ ~playing
  /\ tape' \in Seq(Output)
  /\ shown' = <<>>
  /\ playing' = TRUE

Show ==
  /\ playing
  /\ Len(shown) < Len(tape)
  /\ shown' = Append(shown, tape[Len(shown) + 1])
  /\ UNCHANGED <<tape, playing>>

Stop ==
  /\ playing
  /\ shown = tape
  /\ playing' = FALSE
  /\ UNCHANGED <<tape, shown>>

Next == Pick \/ Show \/ Stop

Spec == Init /\ [][Next]_vars /\ WF_vars(Show \/ Stop)
=============================================================================
