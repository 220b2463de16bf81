-------------------------------- MODULE Memory --------------------------------
(***************************************************************************)
(* The memories of a GameData (src/src/data.cpp): the address space whose  *)
(* blocks lie in the memory of the core, and the copies of it that deltas  *)
(* and searches look back at.  MemoryView and AddressSpace                 *)
(* (src/src/memory.h, src/src/memory.cpp) own the buffers of the copies    *)
(* and hand them on by moving; DataTypes says what their bytes mean.       *)
(***************************************************************************)
EXTENDS DataTypes

CONSTANTS
  Cores,        \* cores, loaded with a ROM
  Regions,      \* buffers in the memory of the cores
  Maps,         \* what a core maps: base to [size, buffer]; NoBuffer is a null pointer
  OverlayOf,    \* the overlay of a core, or NoOverlay
  Images,       \* bound: what the regions may hold, region to bytes
  Pool,         \* bound: the buffers that mmap may give
  Names,        \* names of searches
  Written,      \* bound: what is written, [var, value]
  Types, Masks, \* bound: types and masks of the variables, and the values, that
  Values,       \*        the properties of numbers look at
  NoBuffer, NoOverlay, Freed, AllBits

ASSUME MemoryAssumption ==
  /\ Pool \cap Regions = {} /\ {NoBuffer, Freed} \cap (Pool \cup Regions) = {}
  /\ \A image \in Images :
       /\ DOMAIN image = Regions
       /\ \A r \in Regions :
            /\ image[r] # Freed /\ IsFiniteSet(DOMAIN image[r])
            /\ image[r] \in [0 .. Cardinality(DOMAIN image[r]) - 1 -> Bytes]
  /\ \A core \in Cores : \A base \in DOMAIN Maps[core] :
       /\ base \in Nat /\ Maps[core][base].size \in Nat
       /\ Maps[core][base].buffer \in Regions \cup {NoBuffer}
  /\ OverlayOf \in [Cores -> Overlay \cup {NoOverlay}]
  /\ \A overlay \in Overlay : Power(Byte, overlay.width) <= Word
  /\ Names \cap {"mem", "clone", "last"} = {}
  /\ \A w \in Written : w.var.type \in DataType /\ w.value \in Int
  /\ Values \subseteq Int /\ Types \subseteq DataType
  /\ \A type \in Types : Power(Byte, type.width) <= Word

VARIABLES
  heap,    \* what every buffer holds
  mem,     \* m_mem
  clone,   \* m_cloneMem
  last,    \* m_lastMem
  olds     \* m_searchOldMem

vars == <<heap, mem, clone, last, olds>>

\* An address space has blocks by their base, and an overlay that is not there
\* after the space was moved from; a block is a view of a buffer.
NewSpace == [blocks |-> <<>>, overlay |-> Plain]
Spaces == {mem, clone, last} \cup {olds[n] : n \in DOMAIN olds}

Init ==
  /\ heap \in {Over(image, [b \in Pool |-> Freed]) : image \in Images}
  /\ mem = NewSpace /\ clone = NewSpace /\ last = NewSpace
  /\ olds = <<>>
-----------------------------------------------------------------------------
(***************************************************************************)
(* MemoryView and AddressSpace.                                            *)
(***************************************************************************)
\* The buffers that go when the blocks of a space are destroyed.
Owned(space) == {space.blocks[b].buffer : b \in {b \in DOMAIN space.blocks :
                                                   space.blocks[b].managed}}
Release(h, space) == [b \in DOMAIN h |-> IF b \in Owned(space) THEN Freed ELSE h[b]]

\* mmap: buffers for blocks, by their base.  Bound: a step for which the pool has
\* no room is not taken.
Free(h) == {b \in Pool : h[b] = Freed}
Room(h, bases) == ExistsInjection(bases, Free(h))
Fresh(h, bases) == CHOOSE f \in Injection(bases, Free(h)) : TRUE

\* AddressSpace::clone.
\* Fault: the blocks of the copy are views of the same buffers.
CloneShallow(h, space, from) ==
  [heap |-> Release(h, space),
   space |-> [from EXCEPT !.blocks =
                [b \in DOMAIN from.blocks |->
                   [from.blocks[b] EXCEPT !.managed = FALSE]]]]

Clone(h, space, from) ==
  LET cleared == Release(h, space)
      fresh == Fresh(cleared, DOMAIN from.blocks)
      copies == [c \in {fresh[b] : b \in DOMAIN from.blocks} |->
                   cleared[from.blocks[CHOOSE b \in DOMAIN fresh : fresh[b] = c].buffer]]
  IN  [heap |-> Over(copies, cleared),
       space |-> [blocks |-> [b \in DOMAIN fresh |->
                                [buffer |-> fresh[b], managed |-> TRUE]],
                  overlay |-> from.overlay]]

\* What moving leaves behind before it is cleared: views that own nothing.
\* Fault: they still own their buffers.
LeftManaged(space) == [space EXCEPT !.overlay = NoOverlay]

Left(space) ==
  [blocks |-> [b \in DOMAIN space.blocks |->
                 [space.blocks[b] EXCEPT !.managed = FALSE]],
   overlay |-> NoOverlay]

\* AddressSpace::operator= with what is left of the other space, cleared too.
Move(h, space, from) ==
  [heap |-> Release(Release(h, space), Left(from)),
   space |-> from,
   from |-> [blocks |-> <<>>, overlay |-> Left(from).overlay]]

\* The block of an address; there is none where the code throws out_of_range.
SizeOf(h, view) == IF h[view.buffer] = Freed THEN 0 ELSE Cardinality(DOMAIN h[view.buffer])
At(h, space, address) ==
  LET around == {b \in DOMAIN space.blocks :
                   address \in b .. b + SizeOf(h, space.blocks[b]) - 1}
  IN  IF around = {} THEN {} ELSE {CHOOSE b \in around : \A c \in around : b <= c}
-----------------------------------------------------------------------------
(***************************************************************************)
(* Reading and writing numbers.  The functions below take the base of the  *)
(* block that At found.                                                    *)
(***************************************************************************)
\* value & mask, the mask being the set of its bits or all of them.
Masked(value, mask) ==
  IF mask = AllBits THEN value
  ELSE Signed(SumFunction([k \in mask |->
                ((((value % Word) \div (2 ^ k)) % 2) * (2 ^ k))]), Word)

Block(h, space, base) == h[space.blocks[base].buffer]

\* operator[](size_t) const.
ReadByte(h, space, base, address) ==
  Parse(space.overlay, Block(h, space, base), address - base, 1)[address - base]

\* operator[](const Variable&) const: a plain overlay is passed over.
ReadConst(h, space, base, var) ==
  LET block == Block(h, space, base)
      offset == var.address - base
      from == IF space.overlay.width > 1
              THEN Parse(space.overlay, block, offset, var.type.width) ELSE block
  IN  Masked(Decode(var.type, Cut(from, offset, var.type.width)), var.mask)

\* operator[](const Variable&), which makes a Datum, and its conversion.
Straight(overlay, offset) == overlay.width = 1 /\ offset = 0

ReadDatum(h, space, base, var) ==
  LET block == Block(h, space, base)
      offset == var.address - base
      from == IF Straight(space.overlay, offset) THEN block
              ELSE Parse(space.overlay, block, offset, var.type.width)
  IN  Masked(Decode(var.type, Cut(from, offset, var.type.width)), var.mask)

\* Datum::operator=, which does not look at the mask.
Placed(type, offset, value) ==
  [k \in offset .. offset + type.width - 1 |-> Encode(type, value)[k - offset]]

\* Fault: the words around the number are not read before they are written.
WriteOverZeros(h, space, base, var, value) ==
  LET offset == var.address - base
      number == Placed(var.type, offset, value)
      zeros == [k \in Touched(space.overlay, offset, var.type.width) |-> 0]
  IN  [h EXCEPT ![space.blocks[base].buffer] =
         Unparse(space.overlay, @, Over(number, zeros))]

Write(h, space, base, var, value) ==
  LET offset == var.address - base
      number == Placed(var.type, offset, value)
  IN  [h EXCEPT ![space.blocks[base].buffer] =
         IF Straight(space.overlay, offset) THEN Over(number, @)
         ELSE LET words == Parse(space.overlay, @, offset, var.type.width)
              IN  Unparse(space.overlay, @, Over(number, words))]
-----------------------------------------------------------------------------
(***************************************************************************)
(* The steps.                                                              *)
(***************************************************************************)
CoreRuns ==
  /\ \E image \in Images : heap' = Over(image, heap)
  /\ UNCHANGED <<mem, clone, last, olds>>

\* Emulator::configureData, for a core that mapped its memory and for one whose
\* only memory is its RAM.
Configure(core) ==
  LET map == Maps[core]
      cleared == Release(heap, mem)
      null == {b \in DOMAIN map : map[b].buffer = NoBuffer}
      fresh == Fresh(cleared, null)
      zeros == [c \in {fresh[b] : b \in null} |->
                  LET b == CHOOSE b \in null : fresh[b] = c
                  IN  [k \in 0 .. map[b].size - 1 |-> 0]]
  IN  /\ Room(cleared, null)
      /\ heap' = Over(zeros, cleared)
      /\ mem' = [blocks |-> [b \in DOMAIN map |->
                   IF b \in null THEN [buffer |-> fresh[b], managed |-> TRUE]
                   ELSE [buffer |-> map[b].buffer, managed |-> FALSE]],
                 overlay |-> IF OverlayOf[core] = NoOverlay THEN mem.overlay
                             ELSE OverlayOf[core]]
      /\ UNCHANGED <<clone, last, olds>>

\* Fault: the memory of the frame before is moved away and not taken again.
UpdateRamMoves ==
  LET moved == Move(heap, last, clone)
  IN  /\ heap' = moved.heap /\ last' = moved.space /\ clone' = moved.from
      /\ UNCHANGED <<mem, olds>>

UpdateRam ==
  LET moved == Move(heap, last, clone)
      taken == Clone(moved.heap, moved.from, mem)
  IN  /\ Room(moved.heap, DOMAIN mem.blocks)
      /\ heap' = taken.heap /\ last' = moved.space /\ clone' = taken.space
      /\ UNCHANGED <<mem, olds>>

Old(n) == IF n \in DOMAIN olds THEN olds[n] ELSE NewSpace
Known(n, space) == [m \in DOMAIN olds \cup {n} |-> IF m = n THEN space ELSE olds[m]]

Search(n) ==
  LET taken == Clone(heap, Old(n), mem)
  IN  /\ Room(Release(heap, Old(n)), DOMAIN mem.blocks)
      /\ heap' = taken.heap /\ olds' = Known(n, taken.space)
      /\ UNCHANGED <<mem, clone, last>>

\* The first delta of a name takes the baseline before it compares.
DeltaSearch(n) ==
  LET known == IF n \in DOMAIN olds THEN [heap |-> heap, space |-> olds[n]]
               ELSE Clone(heap, NewSpace, mem)
      taken == Clone(known.heap, known.space, mem)
  IN  /\ Room(Release(heap, Old(n)), DOMAIN mem.blocks)
      /\ heap' = taken.heap /\ olds' = Known(n, taken.space)
      /\ UNCHANGED <<mem, clone, last>>

\* The words of a variable lie in its block.  The code looks only where the first
\* byte is; what it does beyond the end of the block is undefined.
Inside(h, space, base, var) ==
  Touched(space.overlay, var.address - base, var.type.width) \subseteq
    DOMAIN Block(h, space, base)

\* GameData::setValue, PyMemoryView::assign and a value edited in the window.
Assign(var, value) ==
  /\ \E base \in At(heap, mem, var.address) :
       /\ Inside(heap, mem, base, var)
       /\ heap' = Write(heap, mem, base, var, value)
  /\ UNCHANGED <<mem, clone, last, olds>>

ReleaseAll(h, spaces) ==
  [b \in DOMAIN h |-> IF b \in UNION {Owned(s) : s \in spaces} THEN Freed ELSE h[b]]

\* GameData::reset; the overlays stay.
Reset ==
  /\ heap' = ReleaseAll(heap, {clone, last} \cup {olds[n] : n \in DOMAIN olds})
  /\ clone' = [clone EXCEPT !.blocks = <<>>] /\ last' = [last EXCEPT !.blocks = <<>>]
  /\ olds' = <<>> /\ UNCHANGED mem

\* The game data is destroyed and another one made.
Renew ==
  /\ heap' = ReleaseAll(heap, Spaces)
  /\ mem' = NewSpace /\ clone' = NewSpace /\ last' = NewSpace /\ olds' = <<>>

Next ==
  \/ CoreRuns
  \/ \E core \in Cores : Configure(core)
  \/ UpdateRam
  \/ \E n \in Names : Search(n) \/ DeltaSearch(n)
  \/ \E w \in Written : Assign(w.var, w.value)
  \/ Reset \/ Renew

Spec == Init /\ [][Next]_vars
-----------------------------------------------------------------------------
View == [buffer : Regions \cup Pool, managed : BOOLEAN]
Space == [blocks : UNION {[B -> View] : B \in SUBSET UNION {DOMAIN Maps[c] : c \in Cores}},
          overlay : Overlay]

\* Every buffer holds bytes or is free, and every memory has blocks of known
\* bases and an overlay: none is left in the state of one moved from.
TypeOK ==
  /\ \A b \in Regions \cup Pool :
       heap[b] = Freed \/ \A k \in DOMAIN heap[b] : heap[b][k] \in Bytes
  /\ {mem, clone, last} \subseteq Space
  /\ DOMAIN olds \subseteq Names /\ \A n \in DOMAIN olds : olds[n] \in Space

\* A view of a memory is named by its place; only mem may look into the core.
Places == {"mem", "clone", "last"} \cup DOMAIN olds
SpaceAt(p) == CASE p = "mem" -> mem [] p = "clone" -> clone
                [] p = "last" -> last [] OTHER -> olds[p]
Slots == {s \in Places \X UNION {DOMAIN Maps[c] : c \in Cores} :
            s[2] \in DOMAIN SpaceAt(s[1]).blocks}
ViewAt(s) == SpaceAt(s[1]).blocks[s[2]]

\* A copy is moved from one memory to the next and closed by its destructor;
\* every buffer that is not free is owned by exactly one view, so none leaks,
\* is freed twice or read after it was freed, and the copies own all of theirs
\* (MemoryView::operator= and close, src/src/memory.h).
OwnedOnce ==
  /\ \A s, t \in Slots : s # t /\ ViewAt(s).managed => ViewAt(s).buffer # ViewAt(t).buffer
  /\ {b \in Pool : heap[b] # Freed} = {ViewAt(s).buffer : s \in {s \in Slots : ViewAt(s).managed}}
  /\ \A s \in Slots : s[1] # "mem" => ViewAt(s).managed

-----------------------------------------------------------------------------
\* What a space holds: the bytes of its blocks and how they are to be seen.
Held(h, space) ==
  [b \in DOMAIN space.blocks |-> <<h[space.blocks[b].buffer], space.overlay>>]

Promise == INSTANCE MemoryPromise WITH
  now <- Held(heap, mem), current <- Held(heap, clone), previous <- Held(heap, last),
  baseline <- [n \in DOMAIN olds |-> Held(heap, olds[n])]

\* The memories kept for deltas and searches are those of the moment they were
\* taken, however their blocks are copied, moved and reused and whatever overlay
\* comes later (GameData::updateRam, search, deltaSearch, reset).
KeepsMemories == Promise!Spec
-----------------------------------------------------------------------------
(***************************************************************************)
(* Numbers of the memory of the console.  They are the same in a copy, so  *)
(* it is enough to look at them before one is taken.                       *)
(***************************************************************************)
\* What the console would read of a space, address by address, where the word
\* that is read lies in the block.
Seen(h, space) ==
  LET addresses == UNION {b .. b + SizeOf(h, space.blocks[b]) - 1 : b \in DOMAIN space.blocks}
      whole(a) == \E b \in At(h, space, a) :
                    Touched(space.overlay, a - b, 1) \subseteq DOMAIN Block(h, space, b)
  IN  [a \in {a \in addresses : whole(a)} |->
        ReadByte(h, space, CHOOSE b \in At(h, space, a) : TRUE, a)]

NoCopies == DOMAIN clone.blocks = {} /\ DOMAIN last.blocks = {} /\ olds = <<>>

Variables ==
  {v \in [type : Types, address : DOMAIN Seen(heap, mem), mask : Masks] :
     \E base \in At(heap, mem, v.address) : Inside(heap, mem, base, v)}

BaseOf(v) == CHOOSE base \in At(heap, mem, v.address) : TRUE

\* A number is what its type says of the bytes the console would read one by one,
\* wherever it begins in a word of the overlay, and the two ways to read it agree
\* (AddressSpace::operator[], MemoryOverlay::parse, DataType::decode).
ReadsAsBytes ==
  NoCopies =>
    LET seen == Seen(heap, mem) IN
    \A v \in Variables :
      LET bytes == Cut(seen, v.address, v.type.width)
          number == Masked(Numeral(v.type, bytes), v.mask)
      IN  /\ ReadConst(heap, mem, BaseOf(v), v) = number
          /\ ReadDatum(heap, mem, BaseOf(v), v) = number

\* A value that is written reads back, cut to the width of its type, also when it
\* is below zero or has more digits than the type (Datum::operator=,
\* DataType::encode, MemoryOverlay::unparse).
WriteReads ==
  NoCopies =>
    \A v \in Variables, value \in Values :
      LET written == Write(heap, mem, BaseOf(v), v, value)
      IN  ReadConst(written, mem, BaseOf(v), v) = Masked(Wrapped(v.type, value), v.mask)

\* Writing a number changes no byte that the console would not read as a part of
\* it, although whole words are written (MemoryOverlay::unparse).
OnlyItsBytes ==
  NoCopies =>
    LET seen == Seen(heap, mem) IN
    \A v \in Variables, value \in Values :
      LET written == Seen(Write(heap, mem, BaseOf(v), v, value), mem)
      IN  \A a \in DOMAIN seen \ (v.address .. v.address + v.type.width - 1) :
            written[a] = seen[a]
=============================================================================
