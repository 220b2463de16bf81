------------------------------- MODULE DataTypes -------------------------------
(***************************************************************************)
(* Numbers in the memory of a console: DataType and MemoryOverlay of       *)
(* src/src/memory.cpp.  A number is the bytes 0 .. width - 1 at its        *)
(* address; a type says in which order they count and what their digits    *)
(* are.  An overlay says that a core keeps the bytes of a word in another  *)
(* order than its console did.                                             *)
(***************************************************************************)
EXTENDS Integers, Numbers, Functions, SequencesExt, TLC

CONSTANTS
  Nib,   \* the values of four bits: 16
  Ten,   \* what a decimal digit counts to: 10
  Word   \* the values of an int64_t: 2^64

Byte == Nib * Nib
Bytes == 0 .. Byte - 1

ASSUME DataTypesAssumption ==
  /\ {Nib, Ten, Word} \subseteq Nat
  /\ 1 < Ten /\ Ten <= Nib /\ Byte < Word /\ Word % Byte = 0

\* Type strings like "><d4": what comes before the letter, which is for signed,
\* unsigned, packed decimal and unpacked decimal numbers, and the width.
Endians == {"|", "=", "<", ">", "<>", "><", "<=", ">="}
DataType == [endian : Endians, repr : {"i", "u", "d", "n"}, width : Nat \ {0}]

\* The overlay of a core; it is "=", "=", 1 unless the core has one.
Overlay == [backing : {"=", "<", ">"}, real : {"=", "<", ">"}, width : {1, 2, 4}]
Plain == [backing |-> "=", real |-> "=", width |-> 1]
-----------------------------------------------------------------------------
\* What an int64_t, or one cut to a shorter width, holds of a number.
Signed(number, values) ==
  LET low == number % values IN IF 2 * low < values THEN low ELSE low - values

Reduce(endian) ==
  CASE endian \in {"|", "=", "<", "<="} -> "little"
    [] endian = ">"                     -> "big"
    [] endian = "<>"                    -> "mixedLB"
    [] endian \in {"><", ">="}          -> "mixedBL"

\* How many bytes count less than byte i: the order in which the constructor
\* walks over the bytes, shift[i] growing with every one.
Rank(type, i) ==
  LET w == type.width
      half == w \div 2
      order == Reduce(type.endian)
  IN  CASE order = "little"                -> i
        [] order = "big"                   -> w - 1 - i
        [] order = "mixedLB" /\ i < half   -> half - 1 - i
        [] order = "mixedLB" /\ i >= half  -> half + (w - 1 - i)
        [] order = "mixedBL" /\ i >= half  -> i - half
        [] order = "mixedBL" /\ i < half   -> (w - half) + i

\* The values of one byte of the type.
Span(type) == CASE type.repr = "d" -> Ten * Ten
                [] type.repr = "n" -> Ten
                [] OTHER           -> Byte

Shift(type, i) == Power(Span(type), Rank(type, i))

\* What a byte counts: the digits of a decimal type are cut to Ten each.
Digit(type, byte) ==
  CASE type.repr = "d" -> ((byte % Nib) % Ten) + ((byte \div Nib) % Ten) * Ten
    [] type.repr = "n" -> (byte % Nib) % Ten
    [] OTHER           -> byte

Decode(type, bytes) ==
  LET datum == SumFunction([i \in 0 .. type.width - 1 |->
                              Digit(type, bytes[i]) * Shift(type, i)])
  IN  Signed(datum, IF type.repr = "i" THEN Power(Byte, type.width) ELSE Word)

\* Fault: the rest of the number is not cut off the byte of a decimal digit.
EncodeUncut(type, value) ==
  [i \in 0 .. type.width - 1 |->
    LET b == (value % Word) \div Shift(type, i)
    IN  CASE type.repr = "d" -> ((b % Ten) + (b \div Ten) * Nib) % Byte
          [] type.repr = "n" -> b % Byte
          [] OTHER           -> b % Byte]

Encode(type, value) ==
  [i \in 0 .. type.width - 1 |->
    LET b == (value % Word) \div Shift(type, i)
    IN  CASE type.repr = "d" -> (b % Ten) + ((b \div Ten) % Ten) * Nib
          [] type.repr = "n" -> b % Ten
          [] OTHER           -> b % Byte]
-----------------------------------------------------------------------------
(***************************************************************************)
(* Overlays.  A number need not begin or end with a word: parse turns the  *)
(* words around it into a buffer, the number beginning Edge bytes later.   *)
(***************************************************************************)
Edge(overlay, offset) == offset % overlay.width
WordType(endian, overlay) ==
  [endian |-> endian, repr |-> "u", width |-> overlay.width]

\* The offsets of the words that hold the size bytes from offset on.
Touched(overlay, offset, size) ==
  LET first == offset - Edge(overlay, offset)
      last == offset + size - 1
  IN  first .. last - Edge(overlay, last) + overlay.width - 1

\* All of the words of bytes, each from one byte order to the other.
Convert(overlay, from, to, bytes) ==
  [k \in DOMAIN bytes |->
    LET i == Edge(overlay, k)
        word == [j \in 0 .. overlay.width - 1 |-> bytes[k - i + j]]
        value == Decode(WordType(from, overlay), word)
    IN  Encode(WordType(to, overlay), value)[i]]

\* Fault: the size is not enlarged by the edge, so a last word may be left out.
ParseShort(overlay, block, offset, size) ==
  LET words == [k \in Touched(overlay, offset, size) |-> block[k]]
      first == offset - Edge(overlay, offset)
      all == Convert(overlay, overlay.backing, overlay.real, words)
  IN  [k \in DOMAIN words |->
        IF k - Edge(overlay, k) < first + size THEN all[k] ELSE 0]

Parse(overlay, block, offset, size) ==
  LET words == [k \in Touched(overlay, offset, size) |-> block[k]]
  IN  Convert(overlay, overlay.backing, overlay.real, words)

\* What f says, and g where f says nothing.
Over(f, g) ==
  [x \in DOMAIN f \cup DOMAIN g |-> IF x \in DOMAIN f THEN f[x] ELSE g[x]]

\* The block after the buffer was written back to it.
Unparse(overlay, block, buffer) ==
  Over(Convert(overlay, overlay.real, overlay.backing, buffer), block)

\* The size bytes of a buffer, or of a block, from offset on.
Cut(buffer, offset, size) == [i \in 0 .. size - 1 |-> buffer[offset + i]]
-----------------------------------------------------------------------------
(***************************************************************************)
(* The same by the meaning of the type: its digits from the highest one    *)
(* on, and the number that they write.                                     *)
(***************************************************************************)
HighestFirst(type, bytes) ==
  LET listed == [k \in 1 .. type.width |-> bytes[k - 1]]
      half == type.width \div 2
      front == SubSeq(listed, 1, half)
      back == SubSeq(listed, half + 1, type.width)
      order == Reduce(type.endian)
  IN  CASE order = "little"  -> Reverse(listed)
        [] order = "big"     -> listed
        [] order = "mixedLB" -> back \o front
        [] order = "mixedBL" -> Reverse(front) \o Reverse(back)

Numeral(type, bytes) ==
  LET number == FoldLeft(LAMBDA high, byte : high * Span(type) + Digit(type, byte),
                         0, HighestFirst(type, bytes))
  IN  IF type.repr = "i" THEN Signed(number, Power(Byte, type.width))
      ELSE Signed(number, Word)

\* What is left of a value written as a number of the type.
Wrapped(type, value) ==
  LET left == (value % Word) % Power(Span(type), type.width)
  IN  Signed(left, IF type.repr = "i" THEN Power(Byte, type.width) ELSE Word)
=============================================================================
