-------------------------------- MODULE Search --------------------------------
(***************************************************************************)
(* Looking for a variable in the memory of the console: Retro::Search      *)
(* (src/src/search.cpp), the searches of GameData (src/src/data.cpp) and   *)
(* performSearch of the integration UI (src/src/ui/MainWindow.cpp).        *)
(*                                                                         *)
(* A result says that the number of some type at an address, scaled and    *)
(* biased, is what is looked for.  The memory is in blocks; the numbers    *)
(* are binary, the packed decimal ones being left out.                     *)
(***************************************************************************)
EXTENDS Operation, Numbers, Lists, FiniteSetsExt, SequencesExt

CONSTANTS
  Blocks,      \* the blocks of the memory, [base, size], in their order
  Memories,    \* bound: what the memory may hold
  Turned,      \* the bytes of a word that the overlay of the core turns
               \* round: 1 for a core that keeps them as its console does
  Byte,        \* values of a byte: 256
  Nibble, Ten, \* what a stored number may be short of: 16 and 10
  Types,       \* m_types of GameData: records [width, big, signed]
  Wanted,      \* bound: the numbers the user looks for
  Deltas,      \* bound: the operations and references of delta searches
  None         \* no search, no baseline or no variable

Within(block) == block.base .. block.base + block.size - 1
Addresses == UNION {Within(Blocks[k]) : k \in DOMAIN Blocks}

ASSUME SearchAssumption ==
  /\ Blocks \in Seq([base : Nat, size : Nat])
  /\ Types \in Seq([width : Nat \ {0}, big : BOOLEAN, signed : BOOLEAN])
  /\ Memories \subseteq [Addresses -> 0 .. Byte - 1]
  /\ \A k \in 2 .. Len(Blocks) :
       Blocks[k - 1].base + Blocks[k - 1].size <= Blocks[k].base
  /\ Wanted \subseteq Int /\ Wanted # {}
  /\ {Byte, Nibble, Ten} \subseteq Nat \ {0, 1}
  /\ \A i, j \in DOMAIN Types : i # j => Types[i] # Types[j]
  /\ Turned \in {1, 2, 4} /\ \A k \in DOMAIN Blocks : Blocks[k].size % Turned = 0

\* The binary types of s_defaultTypes and of every core.
ASSUME WidthAssumption == \A i \in DOMAIN Types : Types[i].width \in {1, 2, 4}

VARIABLES
  mem,      \* m_mem, as its overlay shows it: what the console has there
  search,   \* the Search of one name, or None
  baseline, \* m_searchOldMem of that name, or None
  found,    \* the variable that the UI took from the last search, or None
  open      \* history: the results that fit all that was seen in the search

vars == <<mem, search, baseline, found, open>>
-----------------------------------------------------------------------------
(***************************************************************************)
(* Numbers.                                                                *)
(***************************************************************************)
\* DataType::decode through the overlay, the bytes lying at address, address + 1 and so on.
Decode(m, address, type) ==
  LET weight(i) == Power(Byte, IF type.big THEN type.width - 1 - i ELSE i)
      raw == SumFunction([i \in 0 .. type.width - 1 |-> m[address + i] * weight(i)])
      values == Power(Byte, type.width)
  IN  IF type.signed /\ 2 * raw >= values THEN raw - values ELSE raw

\* How a stored number may stand for another one; the division by mult is of
\* unsigned numbers and makes huge ones of those below zero.
Direct == [mult |-> 1, div |-> 1, bias |-> 0]
Reads(result, number, value) ==
  /\ result.mult > 1 => number >= 0
  /\ (number \div result.mult) * result.div - result.bias = value

Powers(base, value) ==
  {n \in (2 .. value) \cup (2 .. -value) :
     value % n = 0 /\ \E k \in 1 .. 8 : n = Power(base, k)}

\* The ways search() tries, and the number that is then in the memory.
Ways(value) ==
  {<<Direct, value>>}
  \cup {<<[Direct EXCEPT !.div = n], value \div n>> :
          n \in Powers(Ten, value) \cup Powers(Nibble, value)}
  \cup {<<[Direct EXCEPT !.mult = n], value * n>> : n \in IF value = 0 THEN {} ELSE {2, 4}}
  \cup {<<[Direct EXCEPT !.bias = b], value + b>> : b \in {-1, 1}}
-----------------------------------------------------------------------------
(***************************************************************************)
(* Where the bytes of a number are, in either order: searchValue.          *)
(***************************************************************************)
\* A byte of a block is what the console has at the other end of the word.
Stored(a) ==
  LET k == CHOOSE k \in DOMAIN Blocks : a \in Within(Blocks[k])
      i == (a - Blocks[k].base) % Turned
  IN  a - i + (Turned - 1 - i)

\* searchByte without addresses looks at the blocks, searchByte with addresses
\* and an offset through the overlay, as DynamicMemoryView does (Decode).
Holding(b) == {a \in Addresses : mem[Stored(a)] = b}
Beside(b, froms, step) ==
  {a \in Addresses : a - step \in froms /\ mem[a] = b}

Unsigned(n) ==
  IF n >= 0 THEN n
  ELSE n % Power(Byte, CHOOSE w \in {1, 2, 4} :
                         /\ n > -Power(Byte, w)
                         /\ \A u \in {1, 2} : u < w => n <= -Power(Byte, u))

ByteCount(n) ==
  CHOOSE k \in 1 .. 8 : n < Power(Byte, k) /\ (k > 1 => n >= Power(Byte, k - 1))

\* The byte number k of n, the lowest one being the first.
Low(n, k) == (n \div Power(Byte, k - 1)) % Byte

\* Fault: the runs only grow upwards.
RunsUpwards(n) ==
  LET runs[k \in 1 .. ByteCount(n)] ==
        IF k = 1 THEN [start |-> Holding(Low(n, k)), end |-> Holding(Low(n, k))]
        ELSE [start |-> runs[1].start,
              end |-> Beside(Low(n, k), runs[k - 1].end, 1)]
  IN  runs[ByteCount(n)]

\* The places the runs of the low k bytes of n begin and end at, the byte that
\* is found first being the lowest one that is in the memory at all.
Runs(n) ==
  LET runs[k \in 0 .. ByteCount(n)] ==
        IF k = 0 THEN [start |-> {}, end |-> {}]
        ELSE LET run == runs[k - 1]
             IN  IF run.start = {}
                 THEN [start |-> Holding(Low(n, k)), end |-> Holding(Low(n, k))]
                 ELSE [start |-> run.start \cup Beside(Low(n, k), run.start, -1),
                       end |-> run.end \cup Beside(Low(n, k), run.end, 1)]
  IN  runs[ByteCount(n)]

\* Zeros before a number may be a part of it, up to four bytes.
ZerosBefore(starts, bytes) ==
  LET zeros[k \in 0 .. 4] ==
        IF k = 0 THEN {}
        ELSE LET wide == zeros[k - 1]
             IN  wide \cup Beside(0, IF k = 1 THEN starts ELSE wide, -1)
  IN  zeros[Max({4 - bytes, 0})]

SearchValue(value) ==
  LET n == Unsigned(value)
      runs == Runs(n)
  IN  {a \in Addresses :
         \/ a \in runs.start /\ a + ByteCount(n) - 1 \in runs.end
         \/ a \in ZerosBefore(runs.start, ByteCount(n))}
-----------------------------------------------------------------------------
(***************************************************************************)
(* The results: sequences in the order of addresses, and in that of the    *)
(* types for one address and one way.                                      *)
(***************************************************************************)
At(address, way) ==
  [address |-> address, mult |-> way.mult, div |-> way.div, bias |-> way.bias]
Untyped(r) == At(r.address, r)
Typed(result, type) ==
  [address |-> result.address, mult |-> result.mult, div |-> result.div,
   bias |-> result.bias, type |-> type]

\* SearchResult::operator<
Less(r, s) ==
  LET key(x) == <<x.address, x.mult, x.div, x.bias>>
  IN  \E i \in 1 .. 4 : /\ key(r)[i] < key(s)[i]
                        /\ \A j \in 1 .. i - 1 : key(r)[j] = key(s)[j]

Before(r, s) ==
  Less(r, s) \/ (/\ Untyped(r) = Untyped(s)
                 /\ \E i, j \in DOMAIN Types : i < j /\ Types[i] = r.type /\ Types[j] = s.type)

\* Fault: all the results of one type, then those of the next.
InOrderOfTypes(results) ==
  LET earlier(q, r) == \E i, j \in DOMAIN Types :
        i < j /\ Types[i] = q.type /\ Types[j] = r.type
  IN  Listed([r \in results |->
        {q \in results : earlier(q, r) \/ (q.type = r.type /\ Less(q, r))}])

InOrder(results) ==
  Listed([r \in results |-> {q \in results : Before(q, r)}])

\* The elements of a sequence at some of its positions.
Kept(sequence, positions) ==
  LET at == Listed([i \in positions |-> {j \in positions : j < i}])
  IN  [k \in DOMAIN at |-> sequence[at[k]]]

\* intersectCurrent walks over both sequences at the same time: the positions in
\* current that result j leaves behind.
Passed(current, results) ==
  LET passed[j \in 0 .. Len(results)] ==
        IF j = 0 THEN {}
        ELSE LET behind == passed[j - 1]
             IN  {p \in DOMAIN current :
                    \A q \in (1 .. p) \ behind : Less(current[q], results[j])}
  IN  passed

\* One position serves all the results of an address.
IntersectCurrent(current, results) ==
  LET passed == Passed(current, results)
      match(j) ==
        LET ahead == DOMAIN current \ passed[j]
        IN  \E q \in ahead :
              /\ current[q] = results[j]
              /\ \A p \in ahead : p <= q => current[p].address = results[j].address
  IN  Kept(results, {j \in DOMAIN results : match(j)})

\* Fault: the results of a search take the place of those before.
IntersectForgets(s, results) == [s EXCEPT !.started = TRUE, !.current = results]

Intersect(s, results) ==
  [s EXCEPT !.started = TRUE,
            !.current = IF s.started THEN IntersectCurrent(s.current, results) ELSE results]

\* reduceOnTypes: one iterator over the candidates serves all the blocks, and
\* it stops at one that does not fit; addresses below the base wrap around.
Fits(type, address, block) ==
  type.width + address - block.base \in 0 .. block.size

\* The addresses that are left behind with block k, the candidates being in
\* their order, and those the iterator gets to in a block.
Left(type, addresses) ==
  LET left[k \in 0 .. Len(Blocks)] ==
        IF k = 0 THEN {}
        ELSE LET behind == left[k - 1]
             IN  {a \in addresses : \A b \in addresses \ behind :
                    b <= a => Fits(type, b, Blocks[k])}
  IN  left

Reached(type, addresses) ==
  LET left == Left(type, addresses)
  IN  {a \in addresses : \E k \in DOMAIN Blocks :
         a \in left[k] \ left[k - 1] /\ a >= Blocks[k].base}

Hits(candidates, type, value) ==
  LET reached == Reached(type, {c.address : c \in candidates})
  IN  {Typed(c, type) : c \in {c \in candidates :
         c.address \in reached /\ Reads(c, Decode(mem, c.address, type), value)}}

ReduceOnTypes(s, candidates, value) ==
  InOrder(UNION {Hits(candidates, type, value) : type \in s.types})

\* Search::search
Candidates(value) ==
  UNION {{At(a, way[1]) : a \in SearchValue(way[2])} : way \in Ways(value)}

SearchFor(s, value) == Intersect(s, ReduceOnTypes(s, Candidates(value), value))

\* Search::delta, whose results are all direct ones.
Inside(address, type) ==
  \E k \in DOMAIN Blocks : address \in Within(Blocks[k]) /\ Fits(type, address, Blocks[k])

Differs(old, address, type, change) ==
  Calculate(change[1], change[2],
            Decode(mem, address, type) - Decode(old, address, type)) # 0

Changes(s, old, type, change) ==
  LET places == IF s.started THEN {r.address : r \in {q \in ToSet(s.current) : q.type = type}}
                ELSE Addresses
  IN  {Typed(At(a, Direct), type) : a \in {a \in places :
         Inside(a, type) /\ Differs(old, a, type, change)}}

Delta(s, old, change) ==
  LET hits(type) == Changes(s, old, type, change)
  IN  Intersect([s EXCEPT !.types = {type \in @ : hits(type) # {}}],
                InOrder(UNION {hits(type) : type \in s.types}))

End(r) == r.address + r.type.width - 1

\* Fault: results that overlap count as one.
HasUniqueOverlap(s) ==
  /\ s.current # <<>>
  /\ \A r \in ToSet(s.current) :
       r.address <= End(Head(s.current)) /\ Head(s.current).address <= End(r)

HasUniqueResult(s) ==
  /\ s.current # <<>>
  /\ \A r \in ToSet(s.current) :
       Untyped(r) = Untyped(Head(s.current)) \/ End(r) = End(Head(s.current))
-----------------------------------------------------------------------------
(***************************************************************************)
(* The searches of GameData: a name that is new gets a search of its own,  *)
(* every search leaves the memory of its moment behind for the next delta. *)
(***************************************************************************)
\* The types of a search stay in the order of Types.
NewSearch == [started |-> FALSE, types |-> ToSet(Types), current |-> <<>>]
Current == IF search = None THEN NewSearch ELSE search
Since == IF baseline = None THEN mem ELSE baseline

\* History: every result there is, and those that fit one more search.
Everything ==
  {Typed(At(a, way[1]), Types[i]) :
     way \in UNION {Ways(v) : v \in Wanted}, a \in Addresses, i \in DOMAIN Types}
Unrefuted ==
  IF search = None THEN {r \in Everything : Inside(r.address, r.type)} ELSE open

Searched(value) ==
  [search |-> SearchFor(Current, value),
   open |-> {r \in Unrefuted : Reads(r, Decode(mem, r.address, r.type), value)}]

DeltaSearched(change) ==
  [search |-> Delta(Current, Since, change),
   open |-> {r \in Unrefuted : /\ Untyped(r) = At(r.address, Direct)
                               /\ Differs(Since, r.address, r.type, change)}]

Init ==
  /\ mem \in Memories
  /\ search = None /\ baseline = None /\ found = None
  /\ open = {}

\* The game runs on.
Frame ==
  /\ mem' \in Memories
  /\ UNCHANGED <<search, baseline, found, open>>

Concludes(after, unique) ==
  /\ search' = IF unique THEN None ELSE after.search
  /\ found' = IF unique THEN Head(after.search.current) ELSE None
  /\ open' = after.open
  /\ baseline' = mem
  /\ UNCHANGED mem

\* Through env.data the result of a search stays.
Search(value) == Concludes(Searched(value), FALSE)
DeltaSearch(change) == Concludes(DeltaSearched(change), FALSE)

\* performSearch: a unique result becomes the variable, and the search goes.
PerformSearch(after) == Concludes(after, HasUniqueResult(after.search))

RemoveSearch ==
  /\ search # None
  /\ search' = None /\ found' = None /\ open' = {}
  /\ UNCHANGED <<mem, baseline>>

Next ==
  \/ Frame \/ RemoveSearch
  \/ \E value \in Wanted : Search(value) \/ PerformSearch(Searched(value))
  \/ \E change \in Deltas : DeltaSearch(change) \/ PerformSearch(DeltaSearched(change))

Spec == Init /\ [][Next]_vars
-----------------------------------------------------------------------------
\* search.cpp: "Invariant: always stored ordered by address", which the walk of
\* intersectCurrent relies on, and no result twice.
OrderedByAddress ==
  search # None =>
    \A i, j \in DOMAIN search.current : i < j =>
      /\ search.current[i].address <= search.current[j].address
      /\ search.current[i] # search.current[j]

\* What a search shows fits everything the user has said since it began.
NothingRefuted == search # None => ToSet(search.current) \subseteq open

\* The variable the user looks for is never lost: as itself or off by one, of a
\* type of one byte anywhere, or of any type in the first block.  (After a
\* candidate that does not fit in its block, reduceOnTypes sees no block any
\* more; numbers below zero are not found in wide types of the higher byte.)
\* A core whose overlay turns words round does not keep this: searchByte looks
\* for the first byte in the blocks, and for the others through the overlay.
Owed(r) ==
  /\ r.mult = 1 /\ r.div = 1
  /\ r.type.width = 1 \/ (r.address \in Within(Blocks[1]) /\ ~(r.type.big /\ r.type.signed))

NothingLost ==
  search # None => {r \in open : Owed(r)} \subseteq ToSet(search.current)

\* When the UI takes a variable there was no other place left to look at, if the
\* overlay of the core turns no words round.
TakenIsLast ==
  found # None => \A r \in open :
    Owed(r) => r.address = found.address \/ End(r) = End(found)
=============================================================================
