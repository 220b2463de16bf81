----------------------------- MODULE MCEmulator -----------------------------
(***************************************************************************)
(* Two emulators, one data object and one ROM for every kind of core: one *)
(* that maps its memory when it loads, one that maps it when it first      *)
(* runs, Stella, and a path whose extension no core claims.                *)
(***************************************************************************)
EXTENDS Emulator, TLC

CONSTANTS e1, e2, d1, nes, gba, a26, txt, Nes, Gba, Atari

MCCoreOf == nes :> Nes @@ gba :> Gba @@ a26 :> Atari @@ txt :> NoCore @@
            NoRom :> NoCore

MCSymmetry == Permutations({e1, e2})
=============================================================================
