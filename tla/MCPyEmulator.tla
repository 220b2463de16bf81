---------------------------- MODULE MCPyEmulator ----------------------------
(***************************************************************************)
(* Two environments that take turns on the one core, over one ROM for    *)
(* every kind of core.                                                     *)
(***************************************************************************)
EXTENDS PyEmulator, TLC

CONSTANTS e1, e2, nes, gba, a26, txt, Nes, Gba, Atari

MCCoreOf == nes :> Nes @@ gba :> Gba @@ a26 :> Atari @@ txt :> NoCore @@
            NoRom :> NoCore

MCDataOf == e1 :> 1 @@ e2 :> 2
=============================================================================
