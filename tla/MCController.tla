----------------------------- MODULE MCController -----------------------------
(***************************************************************************)
(* EmulatorController on one game that loads and one ROM that does not,    *)
(* with a movie of RetroEnv that names the game and one that does not.     *)
(* Player 2 is in those movies only.                                       *)
(***************************************************************************)
EXTENDS EmulatorController

CONSTANTS r1, bad, g1, g2, s1, p1, p2, a

MCRoms == {r1, bad}
MCPlayers == {p1, p2}
MCGameOf == (r1 :> g1) @@ (bad :> g2)
MCRomsOf == (g1 :> <<r1>>) @@ (g2 :> <<>>)
MCOutcome == (r1 :> "loaded") @@ (bad :> "refused")
MCNoLibrary == (r1 :> "loaded") @@ (bad :> "noLibrary")
MCRomOf == (s1 :> r1)
MCEnding == {{a}}

Press == [p \in MCPlayers |-> IF p = p1 THEN {} ELSE {a}]
Frames == <<[p \in MCPlayers |-> {}], Press>>
Movie == [log |-> Frames, header |-> TRUE, core |-> s1,
          outs |-> [i \in 1 .. 2 |-> [rom |-> r1, from |-> s1,
                                      frames |-> SubSeq(Frames, 1, i)]]]
MCSeeds == [t \in {g1, NoGame} |-> [file |-> Movie, title |-> t]]
=============================================================================
