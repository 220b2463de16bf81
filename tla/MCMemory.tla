------------------------------- MODULE MCMemory -------------------------------
(***************************************************************************)
(* Two cores: one with two blocks and an overlay of words, one without an  *)
(* overlay that gave no pointer to its memory.                             *)
(***************************************************************************)
EXTENDS Memory

CONSTANTS work, cart, name, genesis, snes, b1, b2, b3, b4, b5, b6, b7, b8

MCCores == {genesis, snes}
MCRegions == {work, cart}
MCPool == {b1, b2, b3, b4, b5, b6, b7, b8}

Region(buffer, size) == [buffer |-> buffer, size |-> size]
MCMaps ==
  genesis :> (0 :> Region(work, 4) @@ 8 :> Region(cart, 2)) @@
  snes    :> (0 :> Region(NoBuffer, 2))
MCOverlayOf ==
  genesis :> [backing |-> "=", real |-> ">", width |-> 2] @@ snes :> NoOverlay

Bytewise(bytes) == [k \in 0 .. Len(bytes) - 1 |-> bytes[k + 1]]
MCImages ==
  {work :> Bytewise(<<1, 2, 4, 9>>) @@ cart :> Bytewise(<<6, 8>>),
   work :> Bytewise(<<15, 0, 7, 12>>) @@ cart :> Bytewise(<<0, 5>>)}

Number(endian, repr, width) == [endian |-> endian, repr |-> repr, width |-> width]
MCTypes ==
  {Number("|", "u", 1), Number("=", "i", 1), Number("<", "u", 2), Number(">", "i", 2),
   Number(">", "d", 2), Number("<", "n", 2), Number(">", "u", 3),
   Number("<>", "u", 4), Number("><", "d", 4), Number("<=", "i", 4)}
MCMasks == {AllBits, {1, 2}}

MCWritten ==
  {[var |-> [type |-> Number("|", "i", 1), address |-> 1, mask |-> AllBits], value |-> -3]}
MCValues == {-3, 0, 11, 700}
=============================================================================
