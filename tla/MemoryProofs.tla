----------------------------- MODULE MemoryProofs -----------------------------
(***************************************************************************)
(* For every number of cores, blocks, buffers and searches: every buffer   *)
(* of a copy has one owner, the memories kept are those of the moment they *)
(* were taken, and a number is read and written as its bytes, through an   *)
(* overlay or not.                                                         *)
(*                                                                         *)
(* The memories are seen as one family of spaces by the place they are     *)
(* kept in.  Owns says of a heap and a family that every view is live, and *)
(* that a buffer of the pool that is not free is owned by exactly one      *)
(* view.  Every step puts a new space into one or two places, or empties   *)
(* some; the lemmas Replaced, Swapped and Emptied show that Owns goes on   *)
(* to hold, and that no other place of the family sees the difference.     *)
(*                                                                         *)
(* A number is what its digits, lowest first, add up to (Makes): Decode    *)
(* sums them in the order of the bytes (DecodeIs), Numeral from the        *)
(* highest (NumeralsAreSums), Encode takes them from the number            *)
(* (EncodedReadsBack).  A word is turned by decoding it in one order and   *)
(* encoding it in another, so a byte comes from one place of its word      *)
(* (TurnedAt), and back (TurnsBack); what reads and writes do to a block   *)
(* is said by the bytes seen through the overlay (ReadIs, WrittenIs).      *)
(***************************************************************************)
EXTENDS Memory, ListProofs

Kept == {"clone", "last"} \cup Names
All == {"mem"} \cup Kept
Bases == UNION {DOMAIN Maps[c] : c \in Cores}

Family ==
  [p \in All |-> IF p = "mem" THEN mem ELSE IF p = "clone" THEN clone
                 ELSE IF p = "last" THEN last ELSE Old(p)]

\* A view of a copy owns its buffer, which is in use; only the memory of the
\* console looks into the core.
Lives(h, p, view) ==
  /\ "managed" \in DOMAIN view
  /\ \/ view.managed = TRUE /\ view.buffer \in Pool /\ h[view.buffer] # Freed
     \/ view.managed = FALSE /\ view.buffer \in Regions /\ p = "mem"

Sound(h, p, space) ==
  /\ "blocks" \in DOMAIN space
  /\ DOMAIN space.blocks \subseteq Bases
  /\ \A b \in DOMAIN space.blocks : Lives(h, p, space.blocks[b])
  /\ \A b, c \in DOMAIN space.blocks :
       /\ space.blocks[b].managed /\ space.blocks[c].managed
       /\ space.blocks[b].buffer = space.blocks[c].buffer
       => b = c

HeapOk(h) == DOMAIN h = Regions \cup Pool /\ \A r \in Regions : h[r] # Freed

Owns(h, sp) ==
  /\ HeapOk(h)
  /\ \A p \in All : Sound(h, p, sp[p])
  /\ \A p, q \in All : p # q => Owned(sp[p]) \cap Owned(sp[q]) = {}
  /\ \A x \in Pool \ Free(h) : \E p \in All : x \in Owned(sp[p])

\* A step that puts another space into one place, and what the others see.
Put(sp, p, s) == [sp EXCEPT ![p] = s]

\* The buffers of the new space were free or owned by the old one, and those the
\* old one had and the new one has not are freed.
Hands(h, k, sp, p, s) ==
  /\ HeapOk(k) /\ Sound(k, p, s)
  /\ Owned(s) \subseteq Free(h) \cup Owned(sp[p])
  /\ \A x \in Owned(sp[p]) \ Owned(s) : k[x] = Freed
  /\ \A x \in Pool : x \notin Owned(s) \cup Owned(sp[p]) => k[x] = h[x]
  /\ p # "mem" => \A r \in Regions : k[r] = h[r]

OthersKeep(h, k, sp, p) == \A q \in All \ {p} : Held(k, sp[q]) = Held(h, sp[q])

OwnInv == DOMAIN olds \subseteq Names /\ Owns(heap, Family)

\* The value that marks a free buffer is not the contents of one.
FreedIsNoFunction == \A S, T : Freed \notin [S -> T]
-----------------------------------------------------------------------------
(***************************************************************************)
(* Spaces and heaps.                                                       *)
(***************************************************************************)
LEMMA Names3 == Names \cap {"mem", "clone", "last"} = {}
  BY MemoryAssumption

LEMMA PoolApart == Pool \cap Regions = {}
  BY MemoryAssumption

\* The buffers a sound space owns are buffers of the pool in use, and it sees
\* only those and the regions of the core, and a copy only those.
LEMMA OwnedLive ==
  ASSUME NEW h, NEW p, NEW s, Sound(h, p, s)
  PROVE  /\ Owned(s) \subseteq Pool \ Free(h)
         /\ \A b \in DOMAIN s.blocks :
              s.blocks[b].buffer \in Owned(s) \/ (p = "mem" /\ s.blocks[b].buffer \in Regions)
  BY DEF Sound, Lives, Owned, Free

\* A space without blocks is sound, owns nothing and holds nothing.
LEMMA NoBlocks ==
  ASSUME NEW h, NEW p, NEW s, "blocks" \in DOMAIN s, DOMAIN s.blocks = {}
  PROVE  Sound(h, p, s) /\ Owned(s) = {} /\ Held(h, s) = <<>>
<1>1. Sound(h, p, s)
  BY DEF Sound
<1>2. Owned(s) = {}
  BY DEF Owned
<1>3. Held(h, s) = <<>>
  BY DEF Held
<1> QED BY <1>1, <1>2, <1>3

\* Who owns a buffer is no matter of what it holds.
LEMMA Unseen ==
  ASSUME NEW h, NEW k, NEW p, NEW s, Sound(h, p, s),
         \A x \in Owned(s) : k[x] = h[x],
         p = "mem" => \A r \in Regions : k[r] = h[r]
  PROVE  Sound(k, p, s) /\ Held(k, s) = Held(h, s)
<1>1. \A b \in DOMAIN s.blocks : k[s.blocks[b].buffer] = h[s.blocks[b].buffer]
  BY OwnedLive
<1>2. Sound(k, p, s)
  BY <1>1 DEF Sound, Lives
<1>3. Held(k, s) = Held(h, s)
  BY <1>1 DEF Held
<1> QED BY <1>2, <1>3

\* One place gets another space, whose buffers were free or its own, and the
\* buffers it had before and has no more are freed.
LEMMA Replaced ==
  ASSUME NEW h, NEW sp, NEW k, NEW p \in All, NEW s,
         Owns(h, sp), DOMAIN sp = All, Hands(h, k, sp, p, s)
  PROVE  Owns(k, Put(sp, p, s)) /\ OthersKeep(h, k, sp, p)
<1> USE DEF Hands
<1> DEFINE tp == [sp EXCEPT ![p] = s]
<1>0. tp[p] = s /\ \A q \in All \ {p} : tp[q] = sp[q]
  OBVIOUS
<1> HIDE DEF tp
<1>1. ASSUME NEW q \in All \ {p}
      PROVE  Owned(s) \cap Owned(sp[q]) = {}
  <2>1. Owned(sp[q]) \subseteq Pool \ Free(h)
    BY OwnedLive DEF Owns
  <2>2. Owned(sp[p]) \cap Owned(sp[q]) = {}
    BY DEF Owns
  <2> QED BY <2>1, <2>2
<1>2. ASSUME NEW q \in All \ {p}
      PROVE  Sound(k, q, sp[q]) /\ Held(k, sp[q]) = Held(h, sp[q])
  <2>1. Sound(h, q, sp[q])
    BY DEF Owns
  <2>2. Owned(sp[q]) \subseteq Pool
    BY <2>1, OwnedLive
  <2>3. Owned(sp[q]) \cap Owned(sp[p]) = {}
    BY DEF Owns
  <2>4. \A x \in Owned(sp[q]) : k[x] = h[x]
    BY <1>1, <2>2, <2>3
  <2>5. q = "mem" => \A r \in Regions : k[r] = h[r]
    OBVIOUS
  <2> QED BY <2>1, <2>4, <2>5, Unseen
<1>3. \A q \in All : Sound(k, q, tp[q])
  BY <1>0, <1>2
<1>4. ASSUME NEW q \in All, NEW r \in All, q # r
      PROVE  Owned(tp[q]) \cap Owned(tp[r]) = {}
  <2>1. CASE q = p
    <3>1. r \in All \ {p} /\ tp[q] = s /\ tp[r] = sp[r]
      BY <1>0, <1>4, <2>1
    <3> QED BY <1>1, <3>1
  <2>2. CASE r = p
    <3>1. q \in All \ {p} /\ tp[r] = s /\ tp[q] = sp[q]
      BY <1>0, <1>4, <2>2
    <3>2. Owned(s) \cap Owned(sp[q]) = {}
      BY <1>1, <3>1
    <3> QED BY <3>1, <3>2
  <2>3. CASE q # p /\ r # p
    <3>1. tp[r] = sp[r] /\ tp[q] = sp[q]
      BY <1>0, <2>3
    <3>2. Owned(sp[q]) \cap Owned(sp[r]) = {}
      BY <1>4 DEF Owns
    <3> QED BY <3>1, <3>2
  <2> QED BY <2>1, <2>2, <2>3
<1>5. ASSUME NEW x \in Pool \ Free(k)
      PROVE  \E q \in All : x \in Owned(tp[q])
  <2>0. k[x] # Freed
    BY DEF Free
  <2>1. CASE x \in Owned(s)
    BY <1>0, <2>1
  <2>2. CASE x \notin Owned(s)
    <3>1. x \notin Owned(sp[p])
      BY <2>0, <2>2
    <3>2. h[x] # Freed
      BY <2>0, <2>2, <3>1
    <3>3. PICK q \in All : x \in Owned(sp[q])
      BY <3>2 DEF Owns, Free
    <3> QED BY <1>0, <3>1, <3>3
  <2> QED BY <2>1, <2>2
<1>6. Owns(k, tp)
  BY <1>3, <1>4, <1>5 DEF Owns
<1> QED BY <1>2, <1>6 DEF tp, Put, OthersKeep

LEMMA ReleaseIs ==
  ASSUME NEW h, NEW s
  PROVE  /\ DOMAIN Release(h, s) = DOMAIN h
         /\ \A x \in DOMAIN h : Release(h, s)[x] = IF x \in Owned(s) THEN Freed ELSE h[x]
  BY DEF Release

\* The place of a memory that is closed.
LEMMA Released ==
  ASSUME NEW h, NEW sp, NEW p \in Kept, NEW s,
         Owns(h, sp), DOMAIN sp = All, "blocks" \in DOMAIN s, DOMAIN s.blocks = {}
  PROVE  Owns(Release(h, sp[p]), Put(sp, p, s)) /\ OthersKeep(h, Release(h, sp[p]), sp, p)
<1> DEFINE k == Release(h, sp[p])
<1>1. p \in All /\ p # "mem"
  BY Names3 DEF All, Kept
<1>2. Owned(sp[p]) \subseteq Pool /\ HeapOk(h)
  BY <1>1, OwnedLive DEF Owns
<1>3. DOMAIN k = DOMAIN h /\ \A x \in DOMAIN h : k[x] = IF x \in Owned(sp[p]) THEN Freed ELSE h[x]
  BY ReleaseIs
<1>4. Sound(k, p, s) /\ Owned(s) = {}
  BY NoBlocks
<1> HIDE DEF k
<1>5. \A r \in Regions : k[r] = h[r]
  BY <1>2, <1>3, PoolApart DEF HeapOk
<1>6. HeapOk(k)
  BY <1>2, <1>3, <1>5 DEF HeapOk
<1>7. \A x \in Owned(sp[p]) \ Owned(s) : k[x] = Freed
  BY <1>2, <1>3 DEF HeapOk
<1>8. \A x \in Pool : x \notin Owned(s) \cup Owned(sp[p]) => k[x] = h[x]
  BY <1>2, <1>3 DEF HeapOk
<1>9. Owned(s) \subseteq Free(h) \cup Owned(sp[p])
  BY <1>4
<1>10. Hands(h, k, sp, p, s)
  BY <1>4, <1>5, <1>6, <1>7, <1>8, <1>9 DEF Hands
<1>11. Owns(k, Put(sp, p, s)) /\ OthersKeep(h, k, sp, p)
  BY <1>1, <1>10, Replaced
<1> QED BY <1>11 DEF k

\* Two copies change places.
LEMMA Swapped ==
  ASSUME NEW h, NEW sp, NEW p \in Kept, NEW q \in Kept, Owns(h, sp), DOMAIN sp = All
  PROVE  Owns(h, [sp EXCEPT ![p] = sp[q], ![q] = sp[p]])
<1> DEFINE tp == [sp EXCEPT ![p] = sp[q], ![q] = sp[p]]
           from(r) == IF r = q THEN p ELSE IF r = p THEN q ELSE r
<1>1. p \in All /\ q \in All /\ p # "mem" /\ q # "mem"
  BY Names3 DEF All, Kept
<1>2. \A r \in All : tp[r] = sp[from(r)] /\ from(r) \in All /\ from(from(r)) = r
  BY <1>1
<1>3. \A r \in All : from(r) = "mem" <=> r = "mem"
  BY <1>1
<1>4. \A r, t \in All : r # t => from(r) # from(t)
  BY <1>2
<1> HIDE DEF tp, from
<1>5. \A r \in All : Sound(h, r, tp[r])
  <2> TAKE r \in All
  <2>1. Sound(h, from(r), sp[from(r)])
    BY <1>2 DEF Owns
  <2>2. Sound(h, r, sp[from(r)])
    BY <2>1, <1>3 DEF Sound, Lives
  <2> QED BY <2>2, <1>2
<1>6. ASSUME NEW r \in All, NEW t \in All, r # t
      PROVE  Owned(tp[r]) \cap Owned(tp[t]) = {}
  <2>1. Owned(sp[from(r)]) \cap Owned(sp[from(t)]) = {}
    BY <1>2, <1>4, <1>6 DEF Owns
  <2>2. tp[r] = sp[from(r)] /\ tp[t] = sp[from(t)]
    BY <1>2
  <2> QED BY <2>1, <2>2
<1>7. ASSUME NEW x \in Pool \ Free(h)
      PROVE  \E r \in All : x \in Owned(tp[r])
  <2>1. PICK r \in All : x \in Owned(sp[r])
    BY DEF Owns
  <2>2. from(r) \in All /\ tp[from(r)] = sp[r]
    <3>1. from(r) \in All /\ from(from(r)) = r
      BY <1>2
    <3>2. tp[from(r)] = sp[from(from(r))]
      BY <3>1, <1>2
    <3> QED BY <3>1, <3>2
  <2> QED BY <2>1, <2>2
<1>8. Owns(h, tp)
  BY <1>5, <1>6, <1>7 DEF Owns
<1> QED BY <1>8 DEF tp
-----------------------------------------------------------------------------
(***************************************************************************)
(* AddressSpace::clone.                                                    *)
(***************************************************************************)
LEMMA FreshIs ==
  ASSUME NEW h, NEW S, Room(h, S)
  PROVE  /\ Fresh(h, S) \in [S -> Free(h)]
         /\ \A b, c \in S : Fresh(h, S)[b] = Fresh(h, S)[c] => b = c
<1>1. Fresh(h, S) \in Injection(S, Free(h))
  BY DEF Fresh, Room, ExistsInjection
<1> QED BY <1>1 DEF Injection, IsInjective

\* The copy has the bytes and the overlay of the memory of the console, in new
\* buffers, and nothing else sees that it was taken.
LEMMA Cloned ==
  ASSUME NEW h, NEW sp, NEW p \in Kept, NEW t, t = Clone(h, sp[p], sp["mem"]),
         Owns(h, sp), DOMAIN sp = All,
         Room(Release(h, sp[p]), DOMAIN sp["mem"].blocks)
  PROVE  /\ Owns(t.heap, Put(sp, p, t.space)) /\ OthersKeep(h, t.heap, sp, p)
         /\ Held(t.heap, t.space) = Held(h, sp["mem"])
         /\ Room(Release(t.heap, t.space), DOMAIN sp["mem"].blocks)
<1> DEFINE from == sp["mem"]
           S == DOMAIN from.blocks
           cleared == Release(h, sp[p])
           fresh == Fresh(cleared, S)
           F == {fresh[b] : b \in S}
           copies == [c \in F |->
                       cleared[from.blocks[CHOOSE b \in DOMAIN fresh : fresh[b] = c].buffer]]
<1>1. /\ t.heap = Over(copies, cleared)
      /\ t.space.blocks = [b \in DOMAIN fresh |-> [buffer |-> fresh[b], managed |-> TRUE]]
      /\ t.space.overlay = from.overlay /\ "blocks" \in DOMAIN t.space
  BY DEF Clone
<1>2. /\ fresh \in [S -> Free(cleared)]
      /\ \A b, c \in S : fresh[b] = fresh[c] => b = c
  BY FreshIs
<1>3. /\ p \in All /\ p # "mem" /\ "mem" \in All
      /\ HeapOk(h) /\ Sound(h, "mem", from) /\ Sound(h, p, sp[p])
      /\ Owned(sp[p]) \cap Owned(from) = {}
  BY Names3 DEF All, Kept, Owns
<1>4. /\ DOMAIN cleared = Regions \cup Pool
      /\ \A x \in Regions \cup Pool : cleared[x] = IF x \in Owned(sp[p]) THEN Freed ELSE h[x]
  BY <1>3, ReleaseIs DEF HeapOk
<1>5. Owned(sp[p]) \subseteq Pool /\ Owned(from) \subseteq Pool
  BY <1>3, OwnedLive
<1>6. \A r \in Regions : cleared[r] = h[r]
  BY <1>4, <1>5, PoolApart
<1>7. Sound(cleared, "mem", from) /\ Held(cleared, from) = Held(h, from)
  <2>1. \A x \in Owned(from) : cleared[x] = h[x]
    BY <1>3, <1>4, <1>5
  <2> QED BY <2>1, <1>3, <1>6, Unseen
<1>8. F \subseteq Free(cleared)
  BY <1>2
<1>9. \A b \in S : copies[fresh[b]] = cleared[from.blocks[b].buffer]
  <2> TAKE b \in S
  <2>1. fresh[b] \in F
    OBVIOUS
  <2>2. DOMAIN fresh = S
    BY <1>2
  <2>3. (CHOOSE c \in DOMAIN fresh : fresh[c] = fresh[b]) = b
    BY <1>2, <2>2
  <2> QED BY <2>1, <2>3
<1>10. \A b \in S : from.blocks[b].buffer \in Regions \cup Pool /\ cleared[from.blocks[b].buffer] # Freed
  <2>1. \A b \in S : Lives(cleared, "mem", from.blocks[b])
    BY <1>7 DEF Sound
  <2>2. \A r \in Regions : cleared[r] # Freed
    BY <1>3, <1>6 DEF HeapOk
  <2> QED BY <2>1, <2>2 DEF Lives
<1>11. DOMAIN copies = F /\ DOMAIN fresh = S
  BY <1>2
<1> HIDE DEF copies, fresh, cleared
<1>12. /\ DOMAIN t.heap = F \cup Regions \cup Pool
       /\ \A b \in S : t.heap[fresh[b]] = cleared[from.blocks[b].buffer]
       /\ \A x \in (Regions \cup Pool) \ F : t.heap[x] = cleared[x]
  BY <1>1, <1>4, <1>9, <1>11 DEF Over
<1>13. F \subseteq Pool /\ F \cap Regions = {}
  BY <1>8, PoolApart DEF Free
<1>14. Owned(t.space) = F
  BY <1>1, <1>11 DEF Owned
<1>15. HeapOk(t.heap) /\ \A r \in Regions : t.heap[r] = h[r]
  BY <1>3, <1>6, <1>12, <1>13 DEF HeapOk
<1>16. Sound(t.heap, p, t.space)
  <2>1. /\ DOMAIN t.space.blocks = S
        /\ \A b \in S : /\ t.space.blocks[b].buffer = fresh[b] /\ t.space.blocks[b].managed = TRUE
                       /\ "managed" \in DOMAIN t.space.blocks[b]
    BY <1>1, <1>11
  <2>2. S \subseteq Bases
    BY <1>3 DEF Sound
  <2>3. \A b \in S : fresh[b] \in Pool /\ t.heap[fresh[b]] # Freed
    BY <1>10, <1>12, <1>13
  <2>4. \A b \in S : Lives(t.heap, p, t.space.blocks[b])
    BY <2>1, <2>3 DEF Lives
  <2>5. \A b, c \in S : t.space.blocks[b].buffer = t.space.blocks[c].buffer => b = c
    BY <1>2, <2>1
  <2> QED BY <1>1, <2>1, <2>2, <2>4, <2>5 DEF Sound
<1>17. F \subseteq Free(h) \cup Owned(sp[p])
  BY <1>4, <1>8, <1>13 DEF Free
<1>18. \A x \in Owned(sp[p]) \ F : t.heap[x] = Freed
  BY <1>4, <1>5, <1>12
<1>19. \A x \in Pool : x \notin F \cup Owned(sp[p]) => t.heap[x] = h[x]
  BY <1>4, <1>12
<1>20. Held(t.heap, t.space) = Held(h, from)
  <2>1. DOMAIN t.space.blocks = S /\ \A b \in S : t.space.blocks[b].buffer = fresh[b]
    BY <1>1, <1>11
  <2>2. \A b \in S : t.heap[t.space.blocks[b].buffer] = cleared[from.blocks[b].buffer]
    BY <1>12, <2>1
  <2>3. Held(t.heap, t.space) = Held(cleared, from)
    BY <1>1, <2>1, <2>2 DEF Held
  <2> QED BY <2>3, <1>7
<1>21. Room(Release(t.heap, t.space), S)
  <2> DEFINE k == Release(t.heap, t.space)
  <2>1. \A x \in Pool : k[x] = IF x \in F THEN Freed ELSE t.heap[x]
    BY <1>12, <1>14, ReleaseIs
  <2> HIDE DEF k
  <2>2. Free(cleared) \subseteq Free(k)
    BY <1>12, <2>1 DEF Free
  <2>3. fresh \in [S -> Free(k)]
    BY <1>2, <2>2
  <2>4. fresh \in Injection(S, Free(k))
    BY <1>2, <2>3 DEF Injection, IsInjective
  <2> QED BY <2>4 DEF k, Room, ExistsInjection
<1>22. Hands(h, t.heap, sp, p, t.space)
  BY <1>3, <1>14, <1>15, <1>16, <1>17, <1>18, <1>19 DEF Hands
<1>23. Owns(t.heap, Put(sp, p, t.space)) /\ OthersKeep(h, t.heap, sp, p)
  BY <1>3, <1>22, Replaced
<1> QED BY <1>20, <1>21, <1>23
-----------------------------------------------------------------------------
(***************************************************************************)
(* The family and the variables.                                           *)
(***************************************************************************)
LEMMA FamilyIs ==
  ASSUME DOMAIN olds \subseteq Names
  PROVE  /\ DOMAIN Family = All /\ {"mem", "clone", "last"} \cup Names \subseteq All
         /\ Family["mem"] = mem /\ Family["clone"] = clone /\ Family["last"] = last
         /\ \A n \in Names : Family[n] = Old(n) /\ n \in Kept
         /\ \A n \in DOMAIN olds : Family[n] = olds[n]
         /\ "clone" \in Kept /\ "last" \in Kept /\ "mem" \notin Kept
  BY Names3 DEF Family, All, Kept, Old

\* The steps of the console: the copies and their heap are left alone.
LEMMA LiveStep ==
  ASSUME OwnInv, UNCHANGED <<clone, last, olds>>,
         Hands(heap, heap', Family, "mem", mem')
  PROVE  OwnInv' /\ Promise!Live
<1>1. DOMAIN olds \subseteq Names /\ Owns(heap, Family)
  BY DEF OwnInv
<1>2. Family' = Put(Family, "mem", mem')
  BY <1>1, Names3 DEF Family, Put, All, Kept, Old
<1>3. "mem" \in All /\ DOMAIN Family = All
  BY <1>1, FamilyIs
<1>4. Owns(heap', Family') /\ OthersKeep(heap, heap', Family, "mem")
  BY <1>1, <1>2, <1>3, Replaced
<1>5. OwnInv'
  BY <1>1, <1>4 DEF OwnInv
<1>6. Held(heap', clone) = Held(heap, clone) /\ Held(heap', last) = Held(heap, last)
  BY <1>1, <1>4, FamilyIs DEF OthersKeep, All
<1>7. \A n \in DOMAIN olds : Held(heap', olds[n]) = Held(heap, olds[n])
  <2> TAKE n \in DOMAIN olds
  <2>1. n \in All /\ n # "mem" /\ Family[n] = olds[n]
    BY <1>1, FamilyIs DEF Kept
  <2> QED BY <2>1, <1>4 DEF OthersKeep
<1>8. UNCHANGED Held(heap, clone) /\ UNCHANGED Held(heap, last)
  BY <1>6
<1>9. UNCHANGED [n \in DOMAIN olds |-> Held(heap, olds[n])]
  BY <1>7
<1> QED BY <1>5, <1>8, <1>9 DEF Promise!Live

\* The contents of buffers the console may change: its own.
LEMMA Contents ==
  ASSUME NEW k, OwnInv, DOMAIN k = DOMAIN heap, \A r \in Regions : k[r] # Freed,
         \A x \in Pool : IF x \in Owned(mem) THEN k[x] # Freed ELSE k[x] = heap[x]
  PROVE  Hands(heap, k, Family, "mem", mem)
<1>1. /\ Family["mem"] = mem /\ "mem" \in All /\ Sound(heap, "mem", mem) /\ HeapOk(heap)
  BY FamilyIs DEF OwnInv, Owns
<1>2. Owned(mem) \subseteq Pool
  BY <1>1, OwnedLive
<1>3. \A b \in DOMAIN mem.blocks : mem.blocks[b].managed = TRUE => mem.blocks[b].buffer \in Owned(mem)
  BY DEF Owned
<1>4. Sound(k, "mem", mem)
  BY <1>1, <1>2, <1>3 DEF Sound, Lives
<1>5. HeapOk(k)
  BY <1>1 DEF HeapOk
<1> QED BY <1>1, <1>2, <1>4, <1>5 DEF Hands

LEMMA RunsStep ==
  ASSUME OwnInv, CoreRuns
  PROVE  OwnInv' /\ Promise!Live
<1>1. PICK image \in Images : heap' = Over(image, heap)
  BY DEF CoreRuns
<1>2. DOMAIN image = Regions /\ \A r \in Regions : image[r] # Freed
  BY MemoryAssumption
<1>3. DOMAIN heap = Regions \cup Pool
  BY DEF OwnInv, Owns, HeapOk
<1>4. DOMAIN heap' = DOMAIN heap /\ \A r \in Regions : heap'[r] # Freed
  BY <1>1, <1>2, <1>3 DEF Over
<1>5. \A x \in Pool : heap'[x] = heap[x]
  BY <1>1, <1>2, <1>3, PoolApart DEF Over
<1>6. \A x \in Owned(mem) : heap[x] # Freed
  BY FamilyIs, OwnedLive DEF OwnInv, Owns, Free
<1>7. Hands(heap, heap', Family, "mem", mem)
  BY <1>4, <1>5, <1>6, Contents
<1>8. UNCHANGED <<mem, clone, last, olds>>
  BY DEF CoreRuns
<1>9. Hands(heap, heap', Family, "mem", mem')
  BY <1>7, <1>8
<1> QED BY <1>8, <1>9, LiveStep
-----------------------------------------------------------------------------
(***************************************************************************)
(* Datum::operator=: it writes into the first block around its address.    *)
(***************************************************************************)
LEMMA AtBlock ==
  ASSUME NEW h, NEW space, NEW address, DOMAIN space.blocks \subseteq Nat
  PROVE  At(h, space, address) \subseteq DOMAIN space.blocks
<1> DEFINE around == {b \in DOMAIN space.blocks :
                        address \in b .. b + SizeOf(h, space.blocks[b]) - 1}
<1>1. CASE around = {}
  BY <1>1 DEF At
<1>2. CASE around # {}
  <2>1. around \subseteq DOMAIN space.blocks
    OBVIOUS
  <2> HIDE DEF around
  <2>2. \E b \in around : \A c \in around : b <= c
    BY <1>2, <2>1, Least
  <2>3. (CHOOSE b \in around : \A c \in around : b <= c) \in around
    BY <2>2
  <2>4. At(h, space, address) = {CHOOSE b \in around : \A c \in around : b <= c}
    BY <1>2 DEF At, around
  <2> QED BY <2>1, <2>3, <2>4
<1> QED BY <1>1, <1>2

LEMMA OverIsBuffer ==
  ASSUME FreedIsNoFunction, NEW f, NEW g
  PROVE  Over(f, g) # Freed
<1>1. Over(f, g) \in [DOMAIN f \cup DOMAIN g -> {Over(f, g)[x] : x \in DOMAIN f \cup DOMAIN g}]
  BY DEF Over
<1> QED BY <1>1, ZenonT(30) DEF FreedIsNoFunction

\* One buffer holds other bytes.
Rewritten(h, buffer, k) == \E bytes : bytes # Freed /\ k = [h EXCEPT ![buffer] = bytes]

LEMMA WriteIs ==
  ASSUME FreedIsNoFunction, NEW h, NEW space, NEW base, NEW var, NEW value
  PROVE  Rewritten(h, space.blocks[base].buffer, Write(h, space, base, var, value))
<1> DEFINE offset == var.address - base
           number == Placed(var.type, offset, value)
           block == h[space.blocks[base].buffer]
           words == Parse(space.overlay, block, offset, var.type.width)
           plain == Over(number, block)
           back == Unparse(space.overlay, block, Over(number, words))
<1>1. plain # Freed
  BY OverIsBuffer
<1>2. back # Freed
  BY OverIsBuffer DEF Unparse
<1>3. Write(h, space, base, var, value) =
        [h EXCEPT ![space.blocks[base].buffer] =
           IF Straight(space.overlay, offset) THEN plain ELSE back]
  BY DEF Write
<1> HIDE DEF plain, back, offset
<1> QED BY <1>1, <1>2, <1>3 DEF Rewritten

LEMMA AssignStep ==
  ASSUME FreedIsNoFunction, OwnInv, NEW var, NEW value, Assign(var, value)
  PROVE  OwnInv' /\ Promise!Live
<1>1. /\ Family["mem"] = mem /\ "mem" \in All /\ Sound(heap, "mem", mem) /\ HeapOk(heap)
  BY FamilyIs DEF OwnInv, Owns
<1>2. UNCHANGED <<mem, clone, last, olds>>
  BY DEF Assign
<1>3. PICK base \in At(heap, mem, var.address) : heap' = Write(heap, mem, base, var, value)
  BY DEF Assign
<1>4. Bases \subseteq Nat
  BY MemoryAssumption DEF Bases
<1>5. base \in DOMAIN mem.blocks
  BY <1>1, <1>3, <1>4, AtBlock DEF Sound
<1> DEFINE buffer == mem.blocks[base].buffer
<1>6. PICK bytes : bytes # Freed /\ heap' = [heap EXCEPT ![buffer] = bytes]
  <2>1. Rewritten(heap, buffer, Write(heap, mem, base, var, value))
    BY WriteIs
  <2> QED BY <1>3, <2>1 DEF Rewritten
<1>7. buffer \in Owned(mem) \/ buffer \in Regions
  BY <1>1, <1>5, OwnedLive
<1>8. Owned(mem) \subseteq Pool /\ \A x \in Owned(mem) : heap[x] # Freed
  BY <1>1, OwnedLive DEF Free
<1> HIDE DEF buffer
<1>9. DOMAIN heap' = DOMAIN heap
  BY <1>6
<1>10. \A r \in Regions : heap'[r] # Freed
  BY <1>1, <1>6 DEF HeapOk
<1>11. \A x \in Pool : IF x \in Owned(mem) THEN heap'[x] # Freed ELSE heap'[x] = heap[x]
  BY <1>1, <1>6, <1>7, <1>8, PoolApart DEF HeapOk
<1>12. Hands(heap, heap', Family, "mem", mem')
  BY <1>2, <1>9, <1>10, <1>11, Contents
<1> QED BY <1>2, <1>12, LiveStep
-----------------------------------------------------------------------------
(***************************************************************************)
(* Emulator::configureData: the memory of another core.                    *)
(***************************************************************************)
LEMMA ConfigureStep ==
  ASSUME FreedIsNoFunction, OwnInv, NEW core \in Cores, Configure(core)
  PROVE  OwnInv' /\ Promise!Live
<1> DEFINE map == Maps[core]
           cleared == Release(heap, mem)
           null == {b \in DOMAIN map : map[b].buffer = NoBuffer}
           fresh == Fresh(cleared, null)
           F == {fresh[b] : b \in null}
           zeros == [c \in F |->
                      [k \in 0 .. map[CHOOSE b \in null : fresh[b] = c].size - 1 |-> 0]]
<1>1. /\ Family["mem"] = mem /\ "mem" \in All /\ Sound(heap, "mem", mem) /\ HeapOk(heap)
  BY FamilyIs DEF OwnInv, Owns
<1>2. Owned(mem) \subseteq Pool
  BY <1>1, OwnedLive
<1>3. /\ Room(cleared, null) /\ UNCHANGED <<clone, last, olds>>
      /\ heap' = Over(zeros, cleared)
      /\ mem'.blocks = [b \in DOMAIN map |->
                          IF b \in null THEN [buffer |-> fresh[b], managed |-> TRUE]
                          ELSE [buffer |-> map[b].buffer, managed |-> FALSE]]
      /\ "blocks" \in DOMAIN mem'
  BY DEF Configure
<1>4. /\ fresh \in [null -> Free(cleared)]
      /\ \A b, c \in null : fresh[b] = fresh[c] => b = c
  BY <1>3, FreshIs
<1>5. /\ DOMAIN cleared = Regions \cup Pool
      /\ \A x \in Regions \cup Pool : cleared[x] = IF x \in Owned(mem) THEN Freed ELSE heap[x]
  BY <1>1, ReleaseIs DEF HeapOk
<1>6. DOMAIN map \subseteq Bases /\ \A b \in DOMAIN map \ null : map[b].buffer \in Regions
  BY MemoryAssumption DEF Bases
<1>7. DOMAIN zeros = F /\ \A c \in F : zeros[c] # Freed
  <2>1. ASSUME NEW c \in F PROVE zeros[c] # Freed
    <3> DEFINE top == map[CHOOSE b \in null : fresh[b] = c].size - 1
    <3>1. zeros[c] = [k \in 0 .. top |-> 0]
      OBVIOUS
    <3> HIDE DEF top, zeros
    <3>2. zeros[c] \in [0 .. top -> {0}]
      BY <3>1
    <3>3. Freed \notin [0 .. top -> {0}]
      BY Zenon DEF FreedIsNoFunction
    <3> QED BY <3>2, <3>3
  <2> QED BY <2>1
<1> HIDE DEF zeros, fresh, cleared, map
<1>8. F \subseteq Pool /\ F \cap Regions = {}
  BY <1>4, PoolApart DEF Free
<1>9. /\ DOMAIN heap' = Regions \cup Pool
      /\ \A c \in F : heap'[c] # Freed
      /\ \A x \in (Regions \cup Pool) \ F : heap'[x] = cleared[x]
  BY <1>3, <1>5, <1>7, <1>8 DEF Over
<1>10. HeapOk(heap')
  BY <1>1, <1>2, <1>5, <1>8, <1>9, PoolApart DEF HeapOk
<1>11. /\ DOMAIN mem'.blocks = DOMAIN map
       /\ \A b \in null : mem'.blocks[b].buffer = fresh[b] /\ mem'.blocks[b].managed = TRUE
       /\ \A b \in DOMAIN map \ null : /\ mem'.blocks[b].buffer = map[b].buffer
                                      /\ mem'.blocks[b].managed = FALSE
       /\ \A b \in DOMAIN map : "managed" \in DOMAIN mem'.blocks[b]
  BY <1>3
<1>12. Owned(mem') = F
  BY <1>11 DEF Owned
<1>13. Sound(heap', "mem", mem')
  <2>1. \A b \in null : Lives(heap', "mem", mem'.blocks[b])
    BY <1>8, <1>9, <1>11 DEF Lives
  <2>2. \A b \in DOMAIN map \ null : Lives(heap', "mem", mem'.blocks[b])
    BY <1>6, <1>11 DEF Lives
  <2>3. \A b, c \in DOMAIN map :
          /\ mem'.blocks[b].managed /\ mem'.blocks[c].managed
          /\ mem'.blocks[b].buffer = mem'.blocks[c].buffer
          => b = c
    BY <1>4, <1>11
  <2> QED BY <1>3, <1>6, <1>11, <2>1, <2>2, <2>3 DEF Sound
<1>14. F \subseteq Free(heap) \cup Owned(mem)
  BY <1>4, <1>5, <1>8 DEF Free
<1>15. /\ \A x \in Owned(mem) \ F : heap'[x] = Freed
       /\ \A x \in Pool : x \notin F \cup Owned(mem) => heap'[x] = heap[x]
  BY <1>2, <1>5, <1>9
<1>16. Hands(heap, heap', Family, "mem", mem')
  BY <1>1, <1>10, <1>12, <1>13, <1>14, <1>15 DEF Hands
<1> QED BY <1>3, <1>16, LiveStep
-----------------------------------------------------------------------------
(***************************************************************************)
(* Searches.                                                               *)
(***************************************************************************)
LEMMA Looked ==
  ASSUME OwnInv, NEW n \in Names, NEW t,
         Owns(t.heap, Put(Family, n, t.space)), OthersKeep(heap, t.heap, Family, n),
         Held(t.heap, t.space) = Held(heap, mem),
         heap' = t.heap, olds' = Known(n, t.space), UNCHANGED <<mem, clone, last>>
  PROVE  OwnInv' /\ Promise!Look(n)
<1>1. DOMAIN olds \subseteq Names
  BY DEF OwnInv
<1>2. DOMAIN olds' = DOMAIN olds \cup {n} /\ olds'[n] = t.space
  BY DEF Known
<1>3. \A m \in DOMAIN olds \ {n} : olds'[m] = olds[m]
  BY DEF Known
<1>4. Family' = Put(Family, n, t.space)
  BY <1>1, <1>2, <1>3, Names3 DEF Family, Put, All, Kept, Old
<1>5. OwnInv'
  BY <1>1, <1>2, <1>4 DEF OwnInv
<1>6. /\ Held(heap', mem) = Held(heap, mem) /\ Held(heap', clone) = Held(heap, clone)
      /\ Held(heap', last) = Held(heap, last)
  BY <1>1, FamilyIs, Names3 DEF OthersKeep, All
<1>7. \A m \in DOMAIN olds \ {n} : Held(heap', olds[m]) = Held(heap, olds[m])
  <2> TAKE m \in DOMAIN olds \ {n}
  <2>1. m \in All \ {n} /\ Family[m] = olds[m]
    BY <1>1, FamilyIs
  <2> QED BY <2>1 DEF OthersKeep
<1> DEFINE baseline == [m \in DOMAIN olds |-> Held(heap, olds[m])]
<1>8. [m \in DOMAIN olds' |-> Held(heap', olds'[m])] =
        [m \in DOMAIN olds \cup {n} |-> IF m = n THEN Held(heap, mem) ELSE Held(heap, olds[m])]
  BY <1>2, <1>3, <1>7
<1>9. baseline' = [m \in DOMAIN baseline \cup {n} |->
                     IF m = n THEN Held(heap, mem) ELSE baseline[m]]
  BY <1>8
<1>10. UNCHANGED <<Held(heap, clone), Held(heap, last), Held(heap, mem)>>
  BY <1>6
<1>11. Promise!Look(n)
  BY <1>9, <1>10 DEF Promise!Look
<1> QED BY <1>5, <1>11

LEMMA SearchStep ==
  ASSUME OwnInv, NEW n \in Names, Search(n)
  PROVE  OwnInv' /\ Promise!Look(n)
<1> DEFINE t == Clone(heap, Old(n), mem)
<1>1. /\ Room(Release(heap, Old(n)), DOMAIN mem.blocks)
      /\ heap' = t.heap /\ olds' = Known(n, t.space) /\ UNCHANGED <<mem, clone, last>>
  BY DEF Search
<1>2. /\ Owns(heap, Family) /\ DOMAIN Family = All /\ n \in Kept
      /\ Family[n] = Old(n) /\ Family["mem"] = mem
  BY FamilyIs DEF OwnInv
<1>3. t = Clone(heap, Family[n], Family["mem"])
  BY <1>2
<1>4. Room(Release(heap, Family[n]), DOMAIN Family["mem"].blocks)
  BY <1>1, <1>2
<1> HIDE DEF t
<1>5. /\ Owns(t.heap, Put(Family, n, t.space)) /\ OthersKeep(heap, t.heap, Family, n)
      /\ Held(t.heap, t.space) = Held(heap, Family["mem"])
  BY <1>2, <1>3, <1>4, Cloned
<1> QED BY <1>1, <1>2, <1>5, Looked

\* The first delta search of a name takes the memory twice.
LEMMA DeltaStep ==
  ASSUME OwnInv, NEW n \in Names, DeltaSearch(n)
  PROVE  OwnInv' /\ Promise!Look(n)
<1>1. CASE n \in DOMAIN olds
  <2>1. Search(n)
    BY <1>1 DEF DeltaSearch, Search, Old
  <2> QED BY <2>1, SearchStep
<1>2. CASE n \notin DOMAIN olds
  <2> DEFINE k == Clone(heap, NewSpace, mem)
             t == Clone(k.heap, k.space, mem)
             sp == Put(Family, n, k.space)
  <2>1. /\ Room(Release(heap, NewSpace), DOMAIN mem.blocks)
        /\ heap' = t.heap /\ olds' = Known(n, t.space) /\ UNCHANGED <<mem, clone, last>>
    BY <1>2 DEF DeltaSearch, Old
  <2>2. /\ Owns(heap, Family) /\ DOMAIN Family = All /\ n \in Kept /\ n # "mem" /\ n \in All
        /\ Family[n] = NewSpace /\ Family["mem"] = mem /\ "mem" \in All
    BY <1>2, FamilyIs DEF OwnInv, Old, All
  <2>3. k = Clone(heap, Family[n], Family["mem"])
    BY <2>2
  <2>4. Room(Release(heap, Family[n]), DOMAIN Family["mem"].blocks)
    BY <2>1, <2>2
  <2> HIDE DEF k
  <2>5. /\ Owns(k.heap, sp) /\ OthersKeep(heap, k.heap, Family, n)
        /\ Room(Release(k.heap, k.space), DOMAIN Family["mem"].blocks)
    BY <2>2, <2>3, <2>4, Cloned
  <2>6. /\ DOMAIN sp = All /\ sp[n] = k.space /\ sp["mem"] = mem
        /\ \A q \in All \ {n} : sp[q] = Family[q]
        /\ \A s : Put(sp, n, s) = Put(Family, n, s)
    BY <2>2 DEF Put
  <2>7. t = Clone(k.heap, sp[n], sp["mem"])
    BY <2>6
  <2>8. Room(Release(k.heap, sp[n]), DOMAIN sp["mem"].blocks)
    BY <2>2, <2>5, <2>6
  <2> HIDE DEF t, sp
  <2>9. /\ Owns(t.heap, Put(sp, n, t.space)) /\ OthersKeep(k.heap, t.heap, sp, n)
        /\ Held(t.heap, t.space) = Held(k.heap, sp["mem"])
    BY <2>2, <2>5, <2>6, <2>7, <2>8, Cloned
  <2>10. Owns(t.heap, Put(Family, n, t.space))
    BY <2>6, <2>9
  <2>11. OthersKeep(heap, t.heap, Family, n)
    BY <2>5, <2>6, <2>9 DEF OthersKeep
  <2>12. Held(t.heap, t.space) = Held(heap, mem)
    BY <2>2, <2>5, <2>6, <2>9 DEF OthersKeep
  <2> QED BY <2>1, <2>10, <2>11, <2>12, Looked
<1> QED BY <1>1, <1>2
-----------------------------------------------------------------------------
(***************************************************************************)
(* GameData::updateRam: the copy becomes the one before, and a new one is  *)
(* taken where it was moved from.                                          *)
(***************************************************************************)
LEMMA UpdateStep ==
  ASSUME OwnInv, UpdateRam
  PROVE  OwnInv' /\ Promise!Update
<1> DEFINE E == [blocks |-> <<>>, overlay |-> NoOverlay]
           h == Release(heap, last)
           t == Clone(h, E, mem)
           sp == Put(Family, "last", E)
           tp == [sp EXCEPT !["clone"] = sp["last"], !["last"] = sp["clone"]]
<1>1. /\ DOMAIN olds \subseteq Names /\ Owns(heap, Family) /\ DOMAIN Family = All
      /\ Family["mem"] = mem /\ Family["clone"] = clone /\ Family["last"] = last
      /\ {"mem", "clone", "last"} \subseteq All /\ "clone" \in Kept /\ "last" \in Kept
  BY FamilyIs DEF OwnInv
<1>2. "blocks" \in DOMAIN E /\ DOMAIN E.blocks = {}
  OBVIOUS
<1>3. Owned(E) = {} /\ Owned(Left(clone)) = {}
  <2>1. Owned(E) = {}
    BY <1>2 DEF Owned
  <2>2. Sound(heap, "clone", clone)
    BY <1>1 DEF Owns
  <2>3. \A b \in DOMAIN clone.blocks : "managed" \in DOMAIN clone.blocks[b]
    BY <2>2 DEF Sound, Lives
  <2>4. /\ DOMAIN Left(clone).blocks = DOMAIN clone.blocks
        /\ \A b \in DOMAIN clone.blocks : Left(clone).blocks[b].managed = FALSE
    BY <2>3 DEF Left
  <2>5. Owned(Left(clone)) = {}
    BY <2>4 DEF Owned
  <2> QED BY <2>1, <2>5
<1>4. Release(h, E) = h /\ Release(h, Left(clone)) = h
  BY <1>3 DEF Release
<1>5. Move(heap, last, clone) = [heap |-> h, space |-> clone, from |-> E]
  BY <1>4 DEF Move, Left
<1>6. /\ Room(h, DOMAIN mem.blocks)
      /\ heap' = t.heap /\ last' = clone /\ clone' = t.space /\ UNCHANGED <<mem, olds>>
  BY <1>5 DEF UpdateRam
<1> HIDE DEF E, h
<1>7. Owns(h, sp) /\ OthersKeep(heap, h, Family, "last")
  BY <1>1, <1>2, Released DEF h
<1>8. /\ DOMAIN sp = All /\ sp["last"] = E /\ sp["clone"] = clone
      /\ \A q \in All \ {"last"} : sp[q] = Family[q]
  BY <1>1 DEF Put
<1> HIDE DEF sp
<1>9. Owns(h, tp)
  BY <1>1, <1>7, <1>8, Swapped
<1>10. /\ DOMAIN tp = All /\ tp["clone"] = E /\ tp["last"] = clone /\ tp["mem"] = mem
       /\ \A q \in All \ {"clone", "last"} : tp[q] = Family[q]
  BY <1>1, <1>8
<1> HIDE DEF tp
<1>11. t = Clone(h, tp["clone"], tp["mem"])
  BY <1>10
<1>12. Room(Release(h, tp["clone"]), DOMAIN tp["mem"].blocks)
  BY <1>4, <1>6, <1>10
<1> HIDE DEF t
<1>13. /\ Owns(t.heap, Put(tp, "clone", t.space)) /\ OthersKeep(h, t.heap, tp, "clone")
       /\ Held(t.heap, t.space) = Held(h, tp["mem"])
  BY <1>1, <1>9, <1>10, <1>11, <1>12, Cloned
<1>14. Family' = Put(tp, "clone", t.space)
  <2>1. DOMAIN Family' = All /\ DOMAIN Put(tp, "clone", t.space) = All
    BY <1>10 DEF Family, Put
  <2>2. /\ Family'["clone"] = t.space /\ Family'["last"] = clone
        /\ \A q \in All \ {"clone", "last"} : Family'[q] = Family[q]
    BY <1>1, <1>6 DEF Family, Old
  <2>3. /\ Put(tp, "clone", t.space)["clone"] = t.space
        /\ Put(tp, "clone", t.space)["last"] = clone
        /\ \A q \in All \ {"clone", "last"} : Put(tp, "clone", t.space)[q] = Family[q]
    BY <1>1, <1>10 DEF Put
  <2>4. \A q \in All : Family'[q] = Put(tp, "clone", t.space)[q]
    BY <2>2, <2>3
  <2> QED BY <2>1, <2>4 DEF Family, Put
<1>15. OwnInv'
  BY <1>1, <1>6, <1>13, <1>14 DEF OwnInv
<1>16. ASSUME NEW q \in All \ {"clone", "last"}
       PROVE  Held(heap', Family[q]) = Held(heap, Family[q])
  <2>1. Held(t.heap, tp[q]) = Held(h, tp[q])
    BY <1>13 DEF OthersKeep
  <2>2. Held(h, Family[q]) = Held(heap, Family[q])
    BY <1>7 DEF OthersKeep
  <2> QED BY <1>6, <1>10, <2>1, <2>2
<1>17. Held(heap', mem) = Held(heap, mem)
  BY <1>1, <1>16
<1>18. Held(heap', clone') = Held(heap, mem)
  <2>1. Held(h, Family["mem"]) = Held(heap, Family["mem"])
    BY <1>1, <1>7 DEF OthersKeep
  <2> QED BY <1>1, <1>6, <1>10, <1>13, <2>1
<1>19. Held(heap', last') = Held(heap, clone)
  <2>1. Held(h, Family["clone"]) = Held(heap, Family["clone"])
    BY <1>1, <1>7 DEF OthersKeep
  <2>2. Held(t.heap, tp["last"]) = Held(h, tp["last"])
    BY <1>1, <1>13 DEF OthersKeep
  <2> QED BY <1>1, <1>6, <1>10, <2>1, <2>2
<1>20. \A n \in DOMAIN olds : Held(heap', olds[n]) = Held(heap, olds[n])
  <2> TAKE n \in DOMAIN olds
  <2>1. n \in All \ {"clone", "last"} /\ Family[n] = olds[n]
    BY <1>1, FamilyIs, Names3
  <2> QED BY <2>1, <1>16
<1>21. UNCHANGED [n \in DOMAIN olds |-> Held(heap, olds[n])]
  BY <1>6, <1>20
<1>22. UNCHANGED Held(heap, mem)
  BY <1>6, <1>17
<1> QED BY <1>15, <1>18, <1>19, <1>21, <1>22 DEF Promise!Update
-----------------------------------------------------------------------------
(***************************************************************************)
(* GameData::reset, and a game data that is destroyed.                     *)
(***************************************************************************)
LEMMA Emptied ==
  ASSUME NEW h, NEW sp, NEW Q \in SUBSET All, NEW k, NEW tp, Owns(h, sp),
         k = [x \in DOMAIN h |-> IF x \in UNION {Owned(sp[p]) : p \in Q} THEN Freed ELSE h[x]],
         \A p \in Q : "blocks" \in DOMAIN tp[p] /\ DOMAIN tp[p].blocks = {},
         \A p \in All \ Q : tp[p] = sp[p]
  PROVE  /\ Owns(k, tp)
         /\ \A p \in All \ Q : Held(k, sp[p]) = Held(h, sp[p])
<1> DEFINE X == UNION {Owned(sp[p]) : p \in Q}
<1>1. HeapOk(h) /\ \A p \in All : Sound(h, p, sp[p]) /\ Owned(sp[p]) \subseteq Pool
  BY OwnedLive DEF Owns
<1>2. X \subseteq Pool
  BY <1>1
<1>3. \A x \in X : \E p \in Q : x \in Owned(sp[p])
  OBVIOUS
<1>4. \A p \in Q : Owned(sp[p]) \subseteq X
  OBVIOUS
<1>5. DOMAIN k = DOMAIN h /\ \A x \in DOMAIN h : k[x] = IF x \in X THEN Freed ELSE h[x]
  OBVIOUS
<1> HIDE DEF X
<1>6. HeapOk(k) /\ \A r \in Regions : k[r] = h[r]
  BY <1>1, <1>2, <1>5, PoolApart DEF HeapOk
<1>7. ASSUME NEW p \in All \ Q
      PROVE  Owned(sp[p]) \cap X = {}
  BY <1>3 DEF Owns
<1>8. ASSUME NEW p \in All \ Q
      PROVE  Sound(k, p, sp[p]) /\ Held(k, sp[p]) = Held(h, sp[p])
  <2>1. \A x \in Owned(sp[p]) : k[x] = h[x]
    BY <1>1, <1>5, <1>7 DEF HeapOk
  <2> QED BY <1>1, <1>6, <2>1, Unseen, SMTT(20)
<1>9. \A p \in Q : Sound(k, p, tp[p]) /\ Owned(tp[p]) = {}
  BY NoBlocks
<1>10. \A p \in All : Sound(k, p, tp[p])
  BY <1>8, <1>9
<1>11. ASSUME NEW p \in All, NEW q \in All, p # q
       PROVE  Owned(tp[p]) \cap Owned(tp[q]) = {}
  <2>1. CASE p \in Q \/ q \in Q
    BY <1>9, <2>1
  <2>2. CASE p \notin Q /\ q \notin Q
    <3>1. tp[p] = sp[p] /\ tp[q] = sp[q]
      BY <2>2
    <3>2. Owned(sp[p]) \cap Owned(sp[q]) = {}
      BY <1>11 DEF Owns
    <3> QED BY <3>1, <3>2
  <2> QED BY <2>1, <2>2
<1>12. ASSUME NEW x \in Pool \ Free(k)
       PROVE  \E p \in All : x \in Owned(tp[p])
  <2>1. k[x] # Freed /\ x \in DOMAIN h
    BY <1>1 DEF Free, HeapOk
  <2>2. x \notin X /\ h[x] # Freed
    BY <1>5, <2>1
  <2>3. PICK p \in All : x \in Owned(sp[p])
    BY <2>2 DEF Owns, Free
  <2>4. p \notin Q
    BY <1>4, <2>2, <2>3
  <2>5. tp[p] = sp[p]
    BY <2>4
  <2> QED BY <2>3, <2>5
<1>13. Owns(k, tp)
  BY <1>6, <1>10, <1>11, <1>12 DEF Owns
<1> QED BY <1>8, <1>13

LEMMA ResetStep ==
  ASSUME OwnInv, Reset
  PROVE  OwnInv' /\ Promise!Forget
<1>1. /\ DOMAIN olds \subseteq Names /\ Owns(heap, Family) /\ DOMAIN Family = All
      /\ Family["mem"] = mem /\ Family["clone"] = clone /\ Family["last"] = last
      /\ "mem" \in All /\ "mem" \notin Kept /\ "clone" \in Kept /\ "last" \in Kept
  BY FamilyIs DEF OwnInv, All
<1>2. /\ heap' = ReleaseAll(heap, {clone, last} \cup {olds[n] : n \in DOMAIN olds})
      /\ clone' = [clone EXCEPT !.blocks = <<>>] /\ last' = [last EXCEPT !.blocks = <<>>]
      /\ olds' = <<>> /\ mem' = mem
  BY DEF Reset
<1> DEFINE X == UNION {Owned(Family[p]) : p \in Kept}
           Y == UNION {Owned(s) : s \in {clone, last} \cup {olds[n] : n \in DOMAIN olds}}
<1>3. X = Y
  <2>1. \A n \in DOMAIN olds : n \in Kept /\ Family[n] = olds[n]
    BY <1>1, FamilyIs
  <2>2. Y \subseteq X
    BY <1>1, <2>1
  <2>3. \A p \in Kept : \/ Family[p] \in {clone, last} \cup {olds[n] : n \in DOMAIN olds}
                        \/ Family[p] = NewSpace
    BY <1>1, FamilyIs DEF Kept, Old
  <2>4. Owned(NewSpace) = {}
    BY DEF Owned, NewSpace
  <2>5. X \subseteq Y
    BY <2>3, <2>4
  <2> QED BY <2>2, <2>5
<1>4. heap' = [x \in DOMAIN heap |-> IF x \in X THEN Freed ELSE heap[x]]
  BY <1>2, <1>3 DEF ReleaseAll
<1>5. "blocks" \in DOMAIN clone /\ "blocks" \in DOMAIN last
  <2>1. Sound(heap, "clone", Family["clone"]) /\ Sound(heap, "last", Family["last"])
    BY <1>1 DEF Owns, All
  <2> QED BY <1>1, <2>1 DEF Sound
<1>6. /\ "blocks" \in DOMAIN clone' /\ DOMAIN clone'.blocks = {}
      /\ "blocks" \in DOMAIN last' /\ DOMAIN last'.blocks = {}
  BY <1>2, <1>5
<1>7. DOMAIN Family' = All /\ Family'["mem"] = mem
  BY <1>1, <1>2 DEF Family
<1>8. \A p \in Kept : "blocks" \in DOMAIN Family'[p] /\ DOMAIN Family'[p].blocks = {}
  <2>1. "blocks" \in DOMAIN NewSpace /\ DOMAIN NewSpace.blocks = {}
    BY DEF NewSpace
  <2>2. Family'["clone"] = clone' /\ Family'["last"] = last'
    BY <1>1 DEF Family, All
  <2>3. DOMAIN olds' = {}
    BY <1>2
  <2>4. \A p \in Kept \ {"clone", "last"} : Family'[p] = NewSpace
    BY <1>1, <2>3 DEF Family, Old, All
  <2> QED BY <1>6, <2>1, <2>2, <2>4
<1>9. Kept \in SUBSET All /\ All \ Kept = {"mem"}
  BY <1>1 DEF All
<1> HIDE DEF X
<1>10. Owns(heap', Family') /\ \A p \in All \ Kept : Held(heap', Family[p]) = Held(heap, Family[p])
  <2>1. \A p \in All \ Kept : Family'[p] = Family[p]
    BY <1>1, <1>7, <1>9
  <2> QED BY <1>1, <1>4, <1>8, <1>9, <2>1, Emptied DEF X
<1>11. OwnInv'
  BY <1>2, <1>10 DEF OwnInv
<1>12. UNCHANGED Held(heap, mem)
  BY <1>1, <1>2, <1>9, <1>10
<1>13. Held(heap', clone') = <<>> /\ Held(heap', last') = <<>>
  BY <1>6, NoBlocks
<1>14. [n \in DOMAIN olds' |-> Held(heap', olds'[n])] = <<>>
  BY <1>2
<1> QED BY <1>11, <1>12, <1>13, <1>14 DEF Promise!Forget, Promise!Nowhere

LEMMA RenewStep ==
  ASSUME OwnInv, Renew
  PROVE  OwnInv' /\ Promise!Forget
<1>1. /\ DOMAIN olds \subseteq Names /\ Owns(heap, Family) /\ DOMAIN Family = All
      /\ Family["mem"] = mem /\ Family["clone"] = clone /\ Family["last"] = last
      /\ {"mem", "clone", "last"} \subseteq All
  BY FamilyIs DEF OwnInv
<1>2. /\ heap' = ReleaseAll(heap, Spaces)
      /\ mem' = NewSpace /\ clone' = NewSpace /\ last' = NewSpace /\ olds' = <<>>
  BY DEF Renew
<1> DEFINE X == UNION {Owned(Family[p]) : p \in All}
           Y == UNION {Owned(s) : s \in Spaces}
<1>3. X = Y
  <2>1. \A n \in DOMAIN olds : n \in All /\ Family[n] = olds[n]
    BY <1>1, FamilyIs
  <2>2. Y \subseteq X
    BY <1>1, <2>1 DEF Spaces
  <2>3. \A p \in All : Family[p] \in Spaces \/ Family[p] = NewSpace
    BY <1>1, FamilyIs DEF Kept, All, Old, Spaces
  <2>4. Owned(NewSpace) = {}
    BY DEF Owned, NewSpace
  <2>5. X \subseteq Y
    BY <2>3, <2>4
  <2> QED BY <2>2, <2>5
<1>4. heap' = [x \in DOMAIN heap |-> IF x \in X THEN Freed ELSE heap[x]]
  BY <1>2, <1>3 DEF ReleaseAll
<1>5. "blocks" \in DOMAIN NewSpace /\ DOMAIN NewSpace.blocks = {}
  BY DEF NewSpace
<1>6. \A p \in All : Family'[p] = NewSpace
  BY <1>2 DEF Family, Old
<1> HIDE DEF X
<1>7. Owns(heap', Family')
  <2>1. \A p \in All : "blocks" \in DOMAIN Family'[p] /\ DOMAIN Family'[p].blocks = {}
    BY <1>5, <1>6
  <2>2. All \in SUBSET All /\ \A p \in All \ All : Family'[p] = Family[p]
    OBVIOUS
  <2> QED BY <1>1, <1>4, <2>1, <2>2, Emptied DEF X
<1>8. OwnInv'
  BY <1>2, <1>7 DEF OwnInv
<1>9. Held(heap', NewSpace) = <<>>
  BY <1>5, NoBlocks
<1>10. [n \in DOMAIN olds' |-> Held(heap', olds'[n])] = <<>>
  BY <1>2
<1> QED BY <1>2, <1>8, <1>9, <1>10 DEF Promise!Forget, Promise!Nowhere
-----------------------------------------------------------------------------
(***************************************************************************)
(* The invariant, and what it gives.                                       *)
(***************************************************************************)
LEMMA InitOwns ==
  ASSUME Init
  PROVE  OwnInv /\ Promise!Init
<1>1. PICK image \in Images : heap = Over(image, [b \in Pool |-> Freed])
  BY DEF Init
<1>2. /\ mem = NewSpace /\ clone = NewSpace /\ last = NewSpace /\ olds = <<>>
      /\ DOMAIN olds = {}
  BY DEF Init
<1>3. DOMAIN image = Regions /\ \A r \in Regions : image[r] # Freed
  BY MemoryAssumption
<1>4. HeapOk(heap) /\ \A x \in Pool : heap[x] = Freed
  BY <1>1, <1>3, PoolApart DEF HeapOk, Over
<1>5. \A p \in All : Family[p] = NewSpace
  BY <1>2 DEF Family, Old
<1>6. "blocks" \in DOMAIN NewSpace /\ DOMAIN NewSpace.blocks = {}
  BY DEF NewSpace
<1>7. \A p \in All : Sound(heap, p, Family[p]) /\ Owned(Family[p]) = {}
  BY <1>5, <1>6, NoBlocks
<1>8. Owns(heap, Family)
  BY <1>4, <1>7 DEF Owns, Free
<1>9. Held(heap, NewSpace) = <<>>
  BY <1>6, NoBlocks
<1>10. [n \in DOMAIN olds |-> Held(heap, olds[n])] = <<>>
  BY <1>2
<1> QED BY <1>2, <1>8, <1>9, <1>10 DEF OwnInv, Promise!Init, Promise!Nowhere

LEMMA NextOwns ==
  ASSUME FreedIsNoFunction, OwnInv, [Next]_vars
  PROVE  OwnInv' /\ [Promise!Next]_(Promise!vars)
<1>1. CASE CoreRuns
  BY <1>1, RunsStep DEF Promise!Next
<1>2. ASSUME NEW core \in Cores, Configure(core)
      PROVE  OwnInv' /\ Promise!Next
  BY <1>2, ConfigureStep DEF Promise!Next
<1>3. CASE UpdateRam
  BY <1>3, UpdateStep DEF Promise!Next
<1>4. ASSUME NEW n \in Names, Search(n) \/ DeltaSearch(n)
      PROVE  OwnInv' /\ Promise!Next
  BY <1>4, SearchStep, DeltaStep DEF Promise!Next
<1>5. ASSUME NEW w \in Written, Assign(w.var, w.value)
      PROVE  OwnInv' /\ Promise!Next
  BY <1>5, AssignStep DEF Promise!Next
<1>6. CASE Reset
  BY <1>6, ResetStep DEF Promise!Next
<1>7. CASE Renew
  BY <1>7, RenewStep DEF Promise!Next
<1>8. CASE UNCHANGED vars
  <2>1. UNCHANGED <<heap, mem, clone, last, olds>>
    BY <1>8 DEF vars
  <2>2. OwnInv'
    BY <2>1 DEF OwnInv, Family, Old
  <2>3. /\ UNCHANGED Held(heap, mem) /\ UNCHANGED Held(heap, clone)
        /\ UNCHANGED Held(heap, last)
        /\ UNCHANGED [n \in DOMAIN olds |-> Held(heap, olds[n])]
    BY <2>1
  <2> QED BY <2>2, <2>3 DEF Promise!vars
<1> QED BY <1>1, <1>2, <1>3, <1>4, <1>5, <1>6, <1>7, <1>8 DEF Next

\* What the family says of the places the property speaks of.
LEMMA OwnsOnce ==
  ASSUME OwnInv
  PROVE  OwnedOnce
<1>1. /\ DOMAIN olds \subseteq Names /\ Owns(heap, Family) /\ DOMAIN Family = All
      /\ Family["mem"] = mem /\ Family["clone"] = clone /\ Family["last"] = last
      /\ {"mem", "clone", "last"} \subseteq All
  BY FamilyIs DEF OwnInv
<1>2. \A p \in Places : p \in All /\ SpaceAt(p) = Family[p]
  <2>1. \A n \in DOMAIN olds : n \notin {"mem", "clone", "last"} /\ n \in All /\ Family[n] = olds[n]
    BY <1>1, FamilyIs, Names3
  <2> QED BY <1>1, <2>1 DEF Places, SpaceAt
<1>3. \A p \in All \ Places : Owned(Family[p]) = {}
  <2>1. \A p \in All \ Places : Family[p] = NewSpace
    BY <1>1, FamilyIs DEF Places, All, Kept, Old
  <2>2. Owned(NewSpace) = {}
    BY DEF NewSpace, Owned
  <2> QED BY <2>1, <2>2
<1>4. \A s \in Slots : /\ s[1] \in All /\ s[1] \in Places
                      /\ s[2] \in DOMAIN Family[s[1]].blocks
                      /\ ViewAt(s) = Family[s[1]].blocks[s[2]]
                      /\ s = <<s[1], s[2]>>
  BY <1>2 DEF Slots, ViewAt
<1>5. \A p \in Places : \A b \in DOMAIN Family[p].blocks :
        <<p, b>> \in Slots /\ ViewAt(<<p, b>>) = Family[p].blocks[b]
  <2> TAKE p \in Places
  <2> TAKE b \in DOMAIN Family[p].blocks
  <2>1. p \in All /\ SpaceAt(p) = Family[p]
    BY <1>2
  <2>2. b \in Bases
    BY <1>1, <2>1 DEF Owns, Sound
  <2> QED BY <2>1, <2>2 DEF Slots, ViewAt, Bases
<1>6. \A s \in Slots : Lives(heap, s[1], ViewAt(s))
  BY <1>1, <1>4 DEF Owns, Sound
<1>7. \A s \in Slots : ViewAt(s).managed => ViewAt(s).buffer \in Owned(Family[s[1]])
  BY <1>4 DEF Owned
<1>8. ASSUME NEW s \in Slots, NEW t \in Slots, s # t, ViewAt(s).managed
      PROVE  ViewAt(s).buffer # ViewAt(t).buffer
  <2>1. CASE ~ ViewAt(t).managed
    BY <1>6, <1>8, <2>1, PoolApart DEF Lives
  <2>2. CASE ViewAt(t).managed /\ s[1] # t[1]
    <3>1. Owned(Family[s[1]]) \cap Owned(Family[t[1]]) = {}
      BY <1>1, <1>4, <2>2 DEF Owns
    <3> QED BY <1>7, <1>8, <2>2, <3>1
  <2>3. CASE ViewAt(t).managed /\ s[1] = t[1]
    <3>1. s[2] # t[2]
      BY <1>4, <1>8, <2>3
    <3>2. Sound(heap, s[1], Family[s[1]])
      BY <1>1, <1>4 DEF Owns
    <3>3. /\ s[2] \in DOMAIN Family[s[1]].blocks /\ t[2] \in DOMAIN Family[s[1]].blocks
          /\ ViewAt(s) = Family[s[1]].blocks[s[2]] /\ ViewAt(t) = Family[s[1]].blocks[t[2]]
      BY <1>4, <2>3
    <3> QED BY <1>8, <2>3, <3>1, <3>2, <3>3 DEF Sound
  <2> QED BY <2>1, <2>2, <2>3
<1>9. ASSUME NEW x \in Pool, heap[x] # Freed
      PROVE  \E s \in Slots : ViewAt(s).managed /\ ViewAt(s).buffer = x
  <2>1. PICK p \in All : x \in Owned(Family[p])
    BY <1>1, <1>9 DEF Owns, Free
  <2>2. p \in Places
    BY <1>3, <2>1
  <2>3. PICK b \in DOMAIN Family[p].blocks :
          Family[p].blocks[b].managed /\ Family[p].blocks[b].buffer = x
    BY <2>1 DEF Owned
  <2> QED BY <1>5, <2>2, <2>3
<1>10. \A s \in Slots : ViewAt(s).managed => ViewAt(s).buffer \in Pool /\ heap[ViewAt(s).buffer] # Freed
  BY <1>6 DEF Lives
<1>11. {b \in Pool : heap[b] # Freed} =
         {ViewAt(s).buffer : s \in {s \in Slots : ViewAt(s).managed}}
  BY <1>9, <1>10
<1>12. \A s \in Slots : s[1] # "mem" => ViewAt(s).managed
  BY <1>6 DEF Lives
<1> QED BY <1>8, <1>11, <1>12 DEF OwnedOnce

\* Every buffer of a copy that is in use has exactly one owner, however the
\* spaces are cloned, moved and cleared: none leaks, none is freed twice and
\* none is read after it was freed (MemoryView and AddressSpace).
THEOREM BuffersOwnedOnce ==
  ASSUME FreedIsNoFunction
  PROVE  Spec => []OwnedOnce
<1>1. Init => OwnInv
  BY InitOwns
<1>2. OwnInv /\ [Next]_vars => OwnInv'
  BY NextOwns
<1>3. OwnInv => OwnedOnce
  BY OwnsOnce
<1> QED BY <1>1, <1>2, <1>3, PTL DEF Spec

\* GameData implements what it promises: the memories for deltas and searches
\* are those of the moment they were taken, whatever the console, another core,
\* an overlay or another copy does afterwards (GameData::updateRam, search,
\* deltaSearch, reset).
THEOREM MemoriesKept ==
  ASSUME FreedIsNoFunction
  PROVE  Spec => KeepsMemories
<1>1. Init => OwnInv /\ Promise!Init
  BY InitOwns
<1>2. OwnInv /\ [Next]_vars => OwnInv' /\ [Promise!Next]_(Promise!vars)
  BY NextOwns
<1> QED BY <1>1, <1>2, PTL DEF Spec, KeepsMemories, Promise!Spec

-----------------------------------------------------------------------------
(***************************************************************************)
(* The order of the bytes.                                                 *)
(***************************************************************************)
\* The byte of a rank: Rank backwards.
ByteOf(type, r) ==
  LET w == type.width
      half == w \div 2
      order == Reduce(type.endian)
  IN  CASE order = "little"                   -> r
        [] order = "big"                      -> w - 1 - r
        [] order = "mixedLB" /\ r < half      -> half - 1 - r
        [] order = "mixedLB" /\ r >= half     -> half + (w - 1 - r)
        [] order = "mixedBL" /\ r < w - half  -> r + half
        [] order = "mixedBL" /\ r >= w - half -> r - (w - half)

LEMMA TypeIs ==
  ASSUME NEW type \in DataType
  PROVE  /\ type.width \in Nat \ {0} /\ type.endian \in Endians
         /\ type.repr \in {"i", "u", "d", "n"}
         /\ type.width \div 2 \in 0 .. type.width
         /\ Reduce(type.endian) \in {"little", "big", "mixedLB", "mixedBL"}
<1>1. /\ type.width \in Nat \ {0} /\ type.endian \in Endians
      /\ type.repr \in {"i", "u", "d", "n"}
  BY DEF DataType
<1>2. Reduce(type.endian) \in {"little", "big", "mixedLB", "mixedBL"}
  BY <1>1 DEF Endians, Reduce
<1>3. type.width \div 2 \in 0 .. type.width
  BY <1>1
<1> QED BY <1>1, <1>2, <1>3

\* Every rank belongs to one byte.
LEMMA RankIs ==
  ASSUME NEW type \in DataType, NEW i \in 0 .. type.width - 1
  PROVE  /\ Rank(type, i) \in 0 .. type.width - 1 /\ ByteOf(type, Rank(type, i)) = i
         /\ ByteOf(type, i) \in 0 .. type.width - 1 /\ Rank(type, ByteOf(type, i)) = i
<1> DEFINE w == type.width
           half == w \div 2
           order == Reduce(type.endian)
<1>1. w \in Nat \ {0} /\ half \in 0 .. w /\ order \in {"little", "big", "mixedLB", "mixedBL"}
  BY TypeIs
<1>2. \A k : Rank(type, k) =
        CASE order = "little"                -> k
          [] order = "big"                   -> w - 1 - k
          [] order = "mixedLB" /\ k < half   -> half - 1 - k
          [] order = "mixedLB" /\ k >= half  -> half + (w - 1 - k)
          [] order = "mixedBL" /\ k >= half  -> k - half
          [] order = "mixedBL" /\ k < half   -> (w - half) + k
  BY DEF Rank
<1>3. \A r : ByteOf(type, r) =
        CASE order = "little"                   -> r
          [] order = "big"                      -> w - 1 - r
          [] order = "mixedLB" /\ r < half      -> half - 1 - r
          [] order = "mixedLB" /\ r >= half     -> half + (w - 1 - r)
          [] order = "mixedBL" /\ r < w - half  -> r + half
          [] order = "mixedBL" /\ r >= w - half -> r - (w - half)
  BY DEF ByteOf
<1> HIDE DEF half, order
<1>4. CASE order = "little"
  BY <1>1, <1>2, <1>3, <1>4
<1>5. CASE order = "big"
  BY <1>1, <1>2, <1>3, <1>5
<1>6. CASE order = "mixedLB"
  <2>1. \A k \in 0 .. w - 1 :
          /\ Rank(type, k) = IF k < half THEN half - 1 - k ELSE half + (w - 1 - k)
          /\ ByteOf(type, k) = IF k < half THEN half - 1 - k ELSE half + (w - 1 - k)
    BY <1>1, <1>2, <1>3, <1>6
  <2> QED BY <1>1, <2>1
<1>7. CASE order = "mixedBL"
  <2>1. \A k \in 0 .. w - 1 :
          /\ Rank(type, k) = IF k >= half THEN k - half ELSE (w - half) + k
          /\ ByteOf(type, k) = IF k < w - half THEN k + half ELSE k - (w - half)
    BY <1>1, <1>2, <1>3, <1>7
  <2> QED BY <1>1, <2>1
<1> QED BY <1>1, <1>4, <1>5, <1>6, <1>7

\* The constants of the numbers.
LEMMA NumbersAre ==
  /\ Nib \in Nat /\ Ten \in Nat /\ Word \in Nat /\ 1 < Ten /\ Ten <= Nib
  /\ Byte = Nib * Nib /\ Byte \in Nat /\ Nib <= Byte /\ 1 < Byte /\ Byte < Word
  /\ Ten * Ten \in Nat /\ Ten * Ten <= Byte /\ Ten <= Byte
<1>1. /\ Nib \in Nat /\ Ten \in Nat /\ Word \in Nat /\ 1 < Ten /\ Ten <= Nib
      /\ Byte < Word /\ Byte = Nib * Nib
  BY DataTypesAssumption DEF Byte
<1>2. Nib * Nib \in Nat /\ Nib <= Nib * Nib /\ Ten * Ten \in Nat /\ Ten * Ten <= Nib * Nib
  <2>1. Nib * 1 <= Nib * Nib
    BY <1>1
  <2>2. Ten * Ten <= Nib * Ten /\ Nib * Ten <= Nib * Nib
    BY <1>1
  <2> QED BY <1>1, <2>1, <2>2
<1> QED BY <1>1, <1>2

LEMMA SpanIs ==
  ASSUME NEW type \in DataType
  PROVE  Span(type) \in Nat \ {0} /\ Span(type) <= Byte
<1>1. Span(type) \in {Ten * Ten, Ten, Byte}
  BY TypeIs DEF Span
<1>2. Ten * Ten >= 1
  BY NumbersAre
<1> QED BY <1>1, <1>2, NumbersAre

LEMMA DigitIs ==
  ASSUME NEW type \in DataType, NEW byte \in Bytes
  PROVE  Digit(type, byte) \in 0 .. Span(type) - 1
<1>1. byte \in Int /\ byte >= 0 /\ byte < Byte
  BY NumbersAre DEF Bytes
<1> DEFINE low == (byte % Nib) % Ten
           high == (byte \div Nib) % Ten
<1>2. Nib \in Nat \ {0} /\ Ten \in Nat \ {0}
  BY NumbersAre
<1>3. low \in 0 .. Ten - 1 /\ high \in 0 .. Ten - 1
  <2>1. byte % Nib \in Int /\ byte \div Nib \in Int
    BY <1>1, <1>2, DivMod
  <2> QED BY <1>2, <2>1, DivMod
<1>4. /\ Digit(type, byte) = CASE type.repr = "d" -> low + high * Ten
                               [] type.repr = "n" -> low
                               [] OTHER           -> byte
      /\ Span(type) = CASE type.repr = "d" -> Ten * Ten
                        [] type.repr = "n" -> Ten
                        [] OTHER           -> Byte
  BY DEF Digit, Span
<1> HIDE DEF low, high
<1>5. low + high * Ten \in 0 .. Ten * Ten - 1
  <2>1. high * Ten <= (Ten - 1) * Ten /\ high * Ten \in Nat
        /\ (Ten - 1) * Ten = Ten * Ten - Ten
    BY <1>3, NumbersAre
  <2> QED BY <1>3, <2>1, NumbersAre
<1> QED BY <1>1, <1>3, <1>4, <1>5, NumbersAre

\* What the bytes of a number say.
LEMMA DecodeIs ==
  ASSUME NEW type \in DataType, NEW bytes,
         \A i \in 0 .. type.width - 1 : bytes[i] \in Bytes
  PROVE  \E T :
           /\ Makes(type.width, Span(type),
                    [r \in 0 .. type.width - 1 |-> Digit(type, bytes[ByteOf(type, r)])], T)
           /\ Decode(type, bytes)
                = Signed(T[type.width],
                         IF type.repr = "i" THEN Power(Byte, type.width) ELSE Word)
<1> DEFINE w == type.width
           s == Span(type)
           d == [i \in 0 .. w - 1 |-> Digit(type, bytes[i])]
           f == [i \in 0 .. w - 1 |-> Digit(type, bytes[i]) * Shift(type, i)]
           c == [r \in 0 .. w - 1 |-> Digit(type, bytes[ByteOf(type, r)])]
           rank == [i \in 0 .. w - 1 |-> Rank(type, i)]
           byte == [i \in 0 .. w - 1 |-> ByteOf(type, i)]
<1>1. d \in [0 .. w - 1 -> 0 .. s - 1]
  BY DigitIs
<1>2. s \in Nat \ {0} /\ w \in Nat
  BY SpanIs, TypeIs
<1>3. f = [i \in 0 .. w - 1 |-> d[i] * Power(s, rank[i])]
  BY DEF Shift
<1>4. c = [r \in 0 .. w - 1 |-> d[byte[r]]]
  BY RankIs
<1>5. Decode(type, bytes)
        = Signed(SumFunction(f), IF type.repr = "i" THEN Power(Byte, w) ELSE Word)
  BY DEF Decode
<1>6. Reorders(w, rank, byte)
  BY RankIs DEF Reorders
<1> HIDE DEF d, f, c, s, w, rank, byte
<1>7. PICK T : Makes(w, s, c, T) /\ SumFunction(f) = T[w]
  <2>1. Summed(w, s, c, SumFunction(f))
    BY <1>1, <1>2, <1>3, <1>4, <1>6, SumInOrder, Zenon
  <2> QED BY <2>1 DEF Summed
<1> QED BY <1>5, <1>7 DEF c, s, w

-----------------------------------------------------------------------------
(***************************************************************************)
(* The meaning of a type.  Numeral folds the digits from the highest one   *)
(* on; the fold of the library takes the elements by Max from the end.     *)
(***************************************************************************)
LEMMA MaxIs ==
  ASSUME NEW n \in Nat, NEW S \in SUBSET (1 .. n), S # {}
  PROVE  Max(S) \in S /\ \A y \in S : Max(S) >= y
<1> DEFINE T == {n - y : y \in S}
<1>1. T \subseteq Nat /\ T # {}
  <2>1. \A y \in S : y \in 1 .. n /\ n - y \in Nat
    OBVIOUS
  <2> QED BY <2>1
<1>2. PICK k \in T : \A l \in T : k <= l
  <2> HIDE DEF T
  <2> QED BY <1>1, Least
<1>3. PICK x \in S : k = n - x
  BY <1>2
<1>4. \A y \in S : x >= y
  <2> SUFFICES ASSUME NEW y \in S PROVE x >= y
    OBVIOUS
  <2>1. n - x <= n - y
    BY <1>2, <1>3
  <2> QED BY <2>1
<1> QED BY <1>4 DEF Max

FoldsUp(w, s, e, fold) ==
  fold = [S \in SUBSET (1 .. w) |-> IF S = {} THEN 0
                                    ELSE fold[S \ {Max(S)}] * s + e[Max(S)]]

LEMMA FoldExists ==
  ASSUME NEW w \in Nat, NEW s \in Nat, NEW e \in [1 .. w -> Int]
  PROVE  \E fold : FoldsUp(w, s, e, fold)
<1> DEFINE D == SUBSET (1 .. w)
           n == Cardinality(1 .. w)
           parts == [S \in D |-> IF S = {} THEN {} ELSE {S \ {Max(S)}}]
           depth == [S \in D |-> Cardinality(S)]
           value(S, low) == IF S = {} \/ low = {} THEN 0 ELSE Pick(low) * s + e[Max(S)]
           body == [S \in D |-> [low \in SUBSET Int |-> value(S, low)]]
<1>1. \A S \in D : S # {} => Max(S) \in S /\ S \ {Max(S)} \in D /\ e[Max(S)] \in Int
  <2> SUFFICES ASSUME NEW S \in D, S # {}
               PROVE  Max(S) \in S /\ S \ {Max(S)} \in D /\ e[Max(S)] \in Int
    OBVIOUS
  <2>1. Max(S) \in S
    BY MaxIs
  <2> QED BY <2>1
<1>2. n \in Nat /\ NestedIn(D, parts, depth, n)
  <2>1. parts \in [D -> SUBSET D]
    BY <1>1
  <2>2. \A S \in D : \A t \in parts[S] : \E x \in S : t = S \ {x}
    BY <1>1
  <2>3. IsFiniteSet(1 .. w)
    BY FS_Interval
  <2> HIDE DEF parts
  <2> QED BY <2>1, <2>2, <2>3, SubsetsNest
<1>3. body \in [D -> [SUBSET Int -> Int]]
  <2>1. ASSUME NEW S \in D, NEW low \in SUBSET Int PROVE value(S, low) \in Int
    <3>1. low # {} => Pick(low) \in Int
      BY DEF Pick
    <3>2. low # {} => Pick(low) * s \in Int
      BY <3>1
    <3> QED BY <1>1, <3>2
  <2> HIDE DEF value, D
  <2> QED BY <2>1
<1> HIDE DEF parts, depth, body, n, D
<1>4. PICK g : Climbs(D, parts, Int, body, g)
  BY <1>2, <1>3, ClimbExists
<1>5. g \in [D -> Int]
  BY <1>4 DEF Climbs
<1>6. ASSUME NEW S \in D
      PROVE  g[S] = IF S = {} THEN 0 ELSE g[S \ {Max(S)}] * s + e[Max(S)]
  <2> DEFINE below == {g[t] : t \in parts[S]}
  <2>1. g[S] = body[S][below]
    BY <1>4 DEF Climbs
  <2>2. below \in SUBSET Int
    <3>1. parts[S] \subseteq D
      BY <1>2 DEF NestedIn
    <3> QED BY <1>5, <3>1
  <2>3. body[S][below] = value(S, below)
    <3> HIDE DEF below, value
    <3> QED BY <2>2 DEF body
  <2>4. CASE S = {}
    BY <2>1, <2>3, <2>4
  <2>5. CASE S # {}
    <3>1. parts[S] = {S \ {Max(S)}}
      BY <2>5 DEF parts
    <3>2. below = {g[S \ {Max(S)}]}
      BY <3>1
    <3>3. Pick(below) = g[S \ {Max(S)}] /\ below # {}
      BY <3>2 DEF Pick
    <3> HIDE DEF below
    <3> QED BY <2>1, <2>3, <2>5, <3>3
  <2> QED BY <2>4, <2>5
<1>7. FoldsUp(w, s, e, g)
  BY <1>5, <1>6 DEF FoldsUp, D
<1> QED BY <1>7

\* The bytes of a number, the highest first.
LEMMA HighestFirstIs ==
  ASSUME NEW type \in DataType, NEW bytes,
         \A i \in 0 .. type.width - 1 : bytes[i] \in Bytes
  PROVE  /\ DOMAIN HighestFirst(type, bytes) = 1 .. type.width
         /\ \A m \in 1 .. type.width :
              HighestFirst(type, bytes)[m] = bytes[ByteOf(type, type.width - m)]
<1> DEFINE w == type.width
           half == w \div 2
           order == Reduce(type.endian)
           listed == [k \in 1 .. w |-> bytes[k - 1]]
           front == SubSeq(listed, 1, half)
           back == SubSeq(listed, half + 1, w)
           all == HighestFirst(type, bytes)
<1>1. w \in Nat \ {0} /\ half \in 0 .. w /\ order \in {"little", "big", "mixedLB", "mixedBL"}
  BY TypeIs
<1>2. all = CASE order = "little"  -> Reverse(listed)
              [] order = "big"     -> listed
              [] order = "mixedLB" -> back \o front
              [] order = "mixedBL" -> Reverse(front) \o Reverse(back)
  BY DEF HighestFirst
<1>3. \A r : ByteOf(type, r) =
        CASE order = "little"                   -> r
          [] order = "big"                      -> w - 1 - r
          [] order = "mixedLB" /\ r < half      -> half - 1 - r
          [] order = "mixedLB" /\ r >= half     -> half + (w - 1 - r)
          [] order = "mixedBL" /\ r < w - half  -> r + half
          [] order = "mixedBL" /\ r >= w - half -> r - (w - half)
  BY DEF ByteOf
<1> HIDE DEF half, order, all
<1>4. /\ listed \in Seq(Bytes) /\ Len(listed) = w
      /\ \A k \in 1 .. w : listed[k] = bytes[k - 1]
  <2>1. \A k \in 1 .. w : k - 1 \in 0 .. w - 1 /\ bytes[k - 1] \in Bytes
    BY <1>1
  <2> QED BY <1>1, <2>1
<1> HIDE DEF listed
<1>5. /\ front \in Seq(Bytes) /\ Len(front) = half
      /\ \A k \in 1 .. half : front[k] = bytes[k - 1]
  <2>1. front \in Seq(Bytes) /\ Len(front) = half /\ \A k \in 1 .. half : front[k] = listed[k]
    BY <1>1, <1>4
  <2> HIDE DEF front
  <2>2. \A k \in 1 .. half : k \in 1 .. w
    BY <1>1
  <2> QED BY <1>4, <2>1, <2>2
<1>6. /\ back \in Seq(Bytes) /\ Len(back) = w - half
      /\ \A k \in 1 .. w - half : back[k] = bytes[half + k - 1]
  <2>1. /\ back \in Seq(Bytes) /\ Len(back) = w - half
        /\ \A k \in 1 .. w - half : back[k] = listed[half + k]
    BY <1>1, <1>4
  <2> HIDE DEF back
  <2>2. \A k \in 1 .. w - half : half + k \in 1 .. w /\ (half + k) - 1 = half + k - 1
    BY <1>1
  <2> QED BY <1>1, <1>4, <2>1, <2>2
<1> HIDE DEF front, back, w
<1> DEFINE Good(m) == all[m] = bytes[ByteOf(type, w - m)]
<1>7. CASE order = "little"
  <2>1. all = [i \in 1 .. w |-> listed[(w - i) + 1]]
    BY <1>2, <1>4, <1>7 DEF Reverse
  <2>2. ASSUME NEW m \in 1 .. w PROVE Good(m)
    <3>1. all[m] = listed[(w - m) + 1] /\ (w - m) + 1 \in 1 .. w /\ ((w - m) + 1) - 1 = w - m
      BY <1>1, <2>1
    <3> QED BY <1>3, <1>4, <1>7, <3>1
  <2> QED BY <2>1, <2>2 DEF w, all
<1>8. CASE order = "big"
  <2>1. all = listed
    BY <1>2, <1>8
  <2>2. ASSUME NEW m \in 1 .. w PROVE Good(m)
    <3>1. ByteOf(type, w - m) = m - 1
      BY <1>1, <1>3, <1>8
    <3> QED BY <1>4, <2>1, <3>1
  <2>3. DOMAIN all = 1 .. w
    BY <1>4, <2>1
  <2> QED BY <2>2, <2>3 DEF w, all
<1>9. CASE order = "mixedLB"
  <2>1. all = back \o front
    BY <1>2, <1>9
  <2>2. /\ DOMAIN all = 1 .. w
        /\ \A m \in 1 .. w : all[m] = IF m <= w - half THEN back[m] ELSE front[m - (w - half)]
    BY <1>1, <1>5, <1>6, <2>1
  <2>3. ASSUME NEW m \in 1 .. w PROVE Good(m)
    <3>1. ByteOf(type, w - m) = IF m <= w - half THEN half + m - 1 ELSE m - (w - half) - 1
      BY <1>1, <1>3, <1>9
    <3>2. CASE m <= w - half
      <4>1. m \in 1 .. w - half
        BY <1>1, <3>2
      <4>2. all[m] = back[m] /\ ByteOf(type, w - m) = half + m - 1
        BY <2>2, <3>1, <3>2
      <4> QED BY <1>6, <4>1, <4>2
    <3>3. CASE m > w - half
      <4>1. m - (w - half) \in 1 .. half
        BY <1>1, <3>3
      <4> QED BY <1>1, <1>5, <2>2, <3>1, <3>3, <4>1
    <3> QED BY <1>1, <3>2, <3>3
  <2> QED BY <2>2, <2>3 DEF w, all
<1>10. CASE order = "mixedBL"
  <2> DEFINE tnorf == Reverse(front)
             kcab == Reverse(back)
  <2>1. all = tnorf \o kcab
    BY <1>2, <1>10
  <2>2. /\ tnorf \in Seq(Bytes) /\ Len(tnorf) = half
        /\ \A k \in 1 .. half : tnorf[k] = bytes[half - k]
    <3>1. tnorf = [i \in 1 .. half |-> front[(half - i) + 1]]
      BY <1>5 DEF Reverse
    <3>2. \A k \in 1 .. half : front[(half - k) + 1] \in Bytes
                               /\ front[(half - k) + 1] = bytes[half - k]
      <4> SUFFICES ASSUME NEW k \in 1 .. half
                   PROVE  front[(half - k) + 1] \in Bytes
                          /\ front[(half - k) + 1] = bytes[half - k]
        OBVIOUS
      <4>1. (half - k) + 1 \in 1 .. half /\ ((half - k) + 1) - 1 = half - k
        BY <1>1
      <4> QED BY <1>5, <4>1
    <3> HIDE DEF tnorf
    <3>3. half \in Nat
      BY <1>1
    <3> QED BY <3>1, <3>2, <3>3
  <2>3. /\ kcab \in Seq(Bytes) /\ Len(kcab) = w - half
        /\ \A k \in 1 .. w - half : kcab[k] = bytes[w - k]
    <3>1. kcab = [i \in 1 .. w - half |-> back[((w - half) - i) + 1]]
      BY <1>6 DEF Reverse
    <3>2. \A k \in 1 .. w - half : back[((w - half) - k) + 1] \in Bytes
                                   /\ back[((w - half) - k) + 1] = bytes[w - k]
      <4> SUFFICES ASSUME NEW k \in 1 .. w - half
                   PROVE  back[((w - half) - k) + 1] \in Bytes
                          /\ back[((w - half) - k) + 1] = bytes[w - k]
        OBVIOUS
      <4> DEFINE j == ((w - half) - k) + 1
      <4>1. j \in 1 .. w - half /\ half + j - 1 = w - k
        BY <1>1
      <4> HIDE DEF j
      <4>2. back[j] \in Bytes /\ back[j] = bytes[w - k]
        BY <1>1, <1>6, <4>1
      <4> QED BY <4>2 DEF j
    <3> HIDE DEF kcab
    <3>3. w - half \in Nat
      BY <1>1
    <3> QED BY <3>1, <3>2, <3>3
  <2> HIDE DEF tnorf, kcab
  <2>4. /\ DOMAIN all = 1 .. w
        /\ \A m \in 1 .. w : all[m] = IF m <= half THEN tnorf[m] ELSE kcab[m - half]
    BY <1>1, <2>1, <2>2, <2>3
  <2>5. ASSUME NEW m \in 1 .. w PROVE Good(m)
    <3>1. ByteOf(type, w - m) = IF m <= half THEN half - m ELSE w - (m - half)
      BY <1>1, <1>3, <1>10
    <3>2. CASE m <= half
      BY <1>1, <2>2, <2>4, <3>1, <3>2
    <3>3. CASE m > half
      <4>1. m - half \in 1 .. w - half /\ ~(m <= half)
        BY <1>1, <3>3
      <4>2. all[m] = kcab[m - half] /\ ByteOf(type, w - m) = w - (m - half)
        BY <2>4, <3>1, <4>1
      <4> QED BY <2>3, <4>1, <4>2
    <3> QED BY <1>1, <3>2, <3>3
  <2> QED BY <2>4, <2>5 DEF w, all
<1> QED BY <1>1, <1>7, <1>8, <1>9, <1>10

\* The fold that Numeral makes.
NumeralFolds(type, all, fold) ==
  fold = [S \in SUBSET DOMAIN all |->
            IF S = {} THEN 0
            ELSE fold[S \ {Max(S)}] * Span(type) + Digit(type, all[Max(S)])]

NumeralFold(type, all) == CHOOSE fold : NumeralFolds(type, all, fold)

LEMMA NumeralByFold ==
  ASSUME NEW type, NEW bytes
  PROVE  Numeral(type, bytes)
           = Signed(NumeralFold(type, HighestFirst(type, bytes))
                      [DOMAIN HighestFirst(type, bytes)],
                    IF type.repr = "i" THEN Power(Byte, type.width) ELSE Word)
BY DEF Numeral, FoldLeft, MapThenFoldSet, NumeralFold, NumeralFolds

\* What the loop over the bytes sums up is the number that one reads by writing
\* its digits highest first, for every width and order of the bytes
\* (DataType::DataType, DataType::decode).
THEOREM NumeralsAreSums ==
  ASSUME NEW type \in DataType, NEW bytes,
         \A i \in 0 .. type.width - 1 : bytes[i] \in Bytes
  PROVE  Numeral(type, bytes) = Decode(type, bytes)
<1> DEFINE w == type.width
           s == Span(type)
           all == HighestFirst(type, bytes)
           e == [k \in 1 .. w |-> Digit(type, all[k])]
           c == [r \in 0 .. w - 1 |-> Digit(type, bytes[ByteOf(type, r)])]
           fold == NumeralFold(type, all)
<1>1. w \in Nat \ {0} /\ s \in Nat \ {0}
  BY TypeIs, SpanIs
<1>2. /\ DOMAIN all = 1 .. w
      /\ \A m \in 1 .. w : all[m] = bytes[ByteOf(type, w - m)]
  BY HighestFirstIs
<1>3. c \in [0 .. w - 1 -> 0 .. s - 1]
  BY RankIs, DigitIs
<1>4. \A m \in 1 .. w : w - m \in 0 .. w - 1 /\ e[m] = c[w - m]
  <2> SUFFICES ASSUME NEW m \in 1 .. w PROVE w - m \in 0 .. w - 1 /\ e[m] = c[w - m]
    OBVIOUS
  <2>1. w - m \in 0 .. w - 1
    BY <1>1
  <2> QED BY <1>2, <2>1
<1>5. e \in [1 .. w -> Int]
  <2> HIDE DEF c
  <2>1. ASSUME NEW m \in 1 .. w PROVE e[m] \in Int
    <3>1. c[w - m] \in 0 .. s - 1 /\ e[m] = c[w - m]
      BY <1>3, <1>4
    <3> HIDE DEF e
    <3> QED BY <1>1, <3>1
  <2> QED BY <2>1
<1>6. \A S \in SUBSET (1 .. w) : S # {} => Max(S) \in 1 .. w
  <2> SUFFICES ASSUME NEW S \in SUBSET (1 .. w), S # {} PROVE Max(S) \in 1 .. w
    OBVIOUS
  <2>1. Max(S) \in S
    BY <1>1, MaxIs
  <2> QED BY <2>1
<1>7. \A S \in SUBSET (1 .. w) : S # {} => e[Max(S)] = Digit(type, all[Max(S)])
  BY <1>6
<1> HIDE DEF e, c
<1>8. PICK g : FoldsUp(w, s, e, g)
  BY <1>1, <1>5, FoldExists
<1>9. NumeralFolds(type, all, g)
  <2> HIDE DEF all, w
  <2>1. g = [S \in SUBSET (1 .. w) |-> IF S = {} THEN 0 ELSE g[S \ {Max(S)}] * s + e[Max(S)]]
    BY <1>8 DEF FoldsUp
  <2>2. [S \in SUBSET (1 .. w) |-> IF S = {} THEN 0 ELSE g[S \ {Max(S)}] * s + e[Max(S)]]
          = [S \in SUBSET (1 .. w) |-> IF S = {} THEN 0
                ELSE g[S \ {Max(S)}] * s + Digit(type, all[Max(S)])]
    BY <1>7
  <2> QED BY <1>2, <2>1, <2>2 DEF NumeralFolds
<1>10. NumeralFolds(type, all, fold)
  BY <1>9 DEF NumeralFold
<1> HIDE DEF fold, all, w, s
<1>11. /\ fold[{}] = 0
       /\ \A S \in SUBSET (1 .. w) : S # {} => fold[S] = fold[S \ {Max(S)}] * s + e[Max(S)]
  <2>1. \A S \in SUBSET (1 .. w) :
          fold[S] = IF S = {} THEN 0 ELSE fold[S \ {Max(S)}] * s + Digit(type, all[Max(S)])
    BY <1>2, <1>10 DEF NumeralFolds, s
  <2> QED BY <1>7, <2>1
<1> DEFINE H == [n \in 0 .. w |-> fold[1 .. n]]
<1>12. H[0] = 0 /\ \A n \in 1 .. w : H[n] = H[n - 1] * s + c[w - n]
  <2>1. H[0] = 0
    <3>1. 0 \in 0 .. w /\ 1 .. 0 = {}
      BY <1>1
    <3> QED BY <1>11, <3>1
  <2>2. ASSUME NEW n \in 1 .. w PROVE H[n] = H[n - 1] * s + c[w - n]
    <3> DEFINE S == 1 .. n
    <3>1. S \in SUBSET (1 .. w) /\ S # {} /\ n \in S /\ S \ {n} = 1 .. n - 1
          /\ n - 1 \in 0 .. w /\ n \in 0 .. w /\ n \in Nat
      BY <1>1
    <3>2. Max(S) = n
      <4>1. Max(S) \in S /\ \A y \in S : Max(S) >= y
        BY <3>1, MaxIs
      <4> QED BY <3>1, <4>1
    <3>3. fold[S] = fold[1 .. n - 1] * s + e[n]
      BY <1>11, <3>1, <3>2
    <3> QED BY <1>4, <3>1, <3>3
  <2> QED BY <2>1, <2>2
<1>13. PICK T : Makes(w, s, c, T)
                /\ Decode(type, bytes)
                     = Signed(T[w], IF type.repr = "i" THEN Power(Byte, w) ELSE Word)
  BY DecodeIs DEF w, s, c
<1> HIDE DEF H
<1>14. H[w] = T[w]
  <2>1. w \in Nat /\ s \in Nat \ {0}
    BY <1>1
  <2>2. MakesDown(w, s, c, H)
    BY <1>12 DEF MakesDown
  <2>3. Makes(w, s, c, T)
    BY <1>13
  <2> QED BY <1>3, <2>1, <2>2, <2>3, FromTheHighest
<1>15. fold[1 .. w] = T[w]
  BY <1>1, <1>14 DEF H
<1>16. Numeral(type, bytes)
         = Signed(fold[1 .. w], IF type.repr = "i" THEN Power(Byte, w) ELSE Word)
  BY <1>2, NumeralByFold DEF fold, all, w
<1> QED BY <1>13, <1>15, <1>16

-----------------------------------------------------------------------------
(***************************************************************************)
(* Encoding.                                                               *)
(***************************************************************************)
LEMMA SignedIs ==
  ASSUME NEW n \in Int, NEW m \in Nat \ {0}
  PROVE  Signed(n, m) \in Int /\ Signed(n, m) % m = n % m
<1> DEFINE low == n % m
<1>1. low \in 0 .. m - 1
  BY DivMod
<1>2. Signed(n, m) = IF 2 * low < m THEN low ELSE low - m
  BY DEF Signed
<1> HIDE DEF low
<1>3. low % m = low /\ (low - m) % m = low
  <2>1. (m * 0 + low) % m = low /\ (m * (-1) + low) % m = low
    <3>1. 0 \in Int /\ -1 \in Int
      OBVIOUS
    <3> QED BY <1>1, <3>1, DivModIs, Zenon
  <2>2. m * 0 + low = low /\ m * (-1) + low = low - m
    BY <1>1
  <2> QED BY <2>1, <2>2
<1> QED BY <1>1, <1>2, <1>3 DEF low

\* What is divided for a byte: a number that is not below zero.
LEMMA PartIs ==
  ASSUME NEW type \in DataType, NEW value \in Int, NEW i \in 0 .. type.width - 1
  PROVE  /\ Shift(type, i) \in Nat \ {0} /\ value % Word \in Nat
         /\ (value % Word) \div Shift(type, i) \in Int
<1>1. Rank(type, i) \in Nat
  <2>1. Rank(type, i) \in 0 .. type.width - 1
    BY RankIs
  <2> QED BY <2>1, TypeIs
<1>2. Shift(type, i) \in Nat \ {0}
  BY <1>1, SpanIs, PowerIs DEF Shift
<1>3. Word \in Nat \ {0}
  BY NumbersAre
<1>4. value % Word \in Nat
  <2>1. value % Word \in 0 .. Word - 1
    BY <1>3, DivMod
  <2> QED BY <2>1
<1> DEFINE v == value % Word
           p == Shift(type, i)
<1>5. v \in Int /\ p \in Nat \ {0}
  BY <1>2, <1>4
<1> HIDE DEF v, p
<1>6. v \div p \in Int
  BY <1>5, DivMod
<1> QED BY <1>2, <1>4, <1>6 DEF v, p

\* A byte that is written counts the digit that division finds.
LEMMA EncodeIs ==
  ASSUME NEW type \in DataType, NEW value \in Int, NEW i \in 0 .. type.width - 1
  PROVE  /\ Encode(type, value)[i] \in Bytes
         /\ Digit(type, Encode(type, value)[i])
              = ((value % Word) \div Shift(type, i)) % Span(type)
<1> DEFINE b == (value % Word) \div Shift(type, i)
           e == Encode(type, value)[i]
           low == b % Ten
           high == (b \div Ten) % Ten
<1>1. b \in Int
  BY PartIs
<1>2. e = CASE type.repr = "d" -> low + high * Nib
            [] type.repr = "n" -> low
            [] OTHER           -> b % Byte
  BY DEF Encode
<1>3. /\ \A byte : Digit(type, byte) = CASE type.repr = "d" -> ((byte % Nib) % Ten) + ((byte \div Nib) % Ten) * Ten
                               [] type.repr = "n" -> (byte % Nib) % Ten
                               [] OTHER           -> byte
      /\ Span(type) = CASE type.repr = "d" -> Ten * Ten
                        [] type.repr = "n" -> Ten
                        [] OTHER           -> Byte
  BY DEF Digit, Span
<1> HIDE DEF b, e
<1>4. /\ Nib \in Nat \ {0} /\ Ten \in Nat \ {0} /\ Byte \in Nat \ {0}
      /\ Ten <= Nib /\ Byte = Nib * Nib
  BY NumbersAre
<1>5. low \in 0 .. Ten - 1 /\ high \in 0 .. Ten - 1 /\ b \div Ten \in Int
  <2>1. b \div Ten \in Int
    BY <1>1, <1>4, DivMod
  <2> QED BY <1>1, <1>4, <2>1, DivMod
<1>6. b % (Ten * Ten) = Ten * high + low
  BY <1>1, <1>4, ModProduct
<1> HIDE DEF low, high
<1>7. low % Ten = low /\ high % Ten = high
  <2>1. Ten * 0 + low = low /\ Ten * 0 + high = high /\ 0 \in Int
    BY <1>4, <1>5
  <2>2. (Ten * 0 + low) % Ten = low /\ (Ten * 0 + high) % Ten = high
    BY <1>4, <1>5, <2>1, DivModIs, Zenon
  <2> QED BY <2>1, <2>2
<1>8. low \in 0 .. Nib - 1 /\ low \in Int /\ high \in Int
  BY <1>4, <1>5
<1>9. CASE type.repr = "d"
  <2>1. e = low + high * Nib /\ Span(type) = Ten * Ten
    BY <1>2, <1>3, <1>9
  <2>2. low + high * Nib = Nib * high + low
    BY <1>4, <1>8
  <2>3. (Nib * high + low) % Nib = low /\ (Nib * high + low) \div Nib = high
    BY <1>4, <1>8, DivModIs, Zenon
  <2>4. Digit(type, e) = low + high * Ten
    BY <1>3, <1>7, <1>9, <2>1, <2>2, <2>3
  <2>5. Digit(type, e) = b % Span(type)
    <3>1. low + high * Ten = Ten * high + low
      BY <1>4, <1>8
    <3> QED BY <1>6, <2>1, <2>4, <3>1
  <2>6. e \in Bytes
    <3>1. high * Nib <= (Nib - 1) * Nib /\ high * Nib \in Nat
          /\ (Nib - 1) * Nib = Nib * Nib - Nib
      BY <1>4, <1>5
    <3> QED BY <1>4, <1>8, <2>1, <3>1 DEF Bytes
  <2> QED BY <2>5, <2>6 DEF b, e
<1>10. CASE type.repr = "n"
  <2>1. e = low /\ Span(type) = Ten /\ Digit(type, e) = (low % Nib) % Ten
    BY <1>2, <1>3, <1>10
  <2>2. low % Nib = low
    <3>1. Nib * 0 + low = low /\ 0 \in Int
      BY <1>4, <1>8
    <3>2. (Nib * 0 + low) % Nib = low
      BY <1>4, <1>8, <3>1, DivModIs, Zenon
    <3> QED BY <3>1, <3>2
  <2>3. Digit(type, e) = b % Span(type)
    BY <1>7, <2>1, <2>2 DEF low
  <2>4. e \in Bytes
    BY <1>4, <1>5, <2>1, NumbersAre DEF Bytes
  <2> QED BY <2>3, <2>4 DEF b, e
<1>11. CASE type.repr \notin {"d", "n"}
  <2>1. e = b % Byte /\ Span(type) = Byte /\ Digit(type, e) = e
    BY <1>2, <1>3, <1>11
  <2>2. b % Byte \in 0 .. Byte - 1
    BY <1>1, <1>4, DivMod
  <2> QED BY <2>1, <2>2 DEF b, e, Bytes
<1> QED BY <1>9, <1>10, <1>11

\* What is encoded decodes as the value, cut to the width of its type
\* (DataType::encode, DataType::decode).
THEOREM EncodedReadsBack ==
  ASSUME NEW type \in DataType, NEW value \in Int
  PROVE  Decode(type, Encode(type, value)) = Wrapped(type, value)
<1> DEFINE w == type.width
           s == Span(type)
           bytes == Encode(type, value)
           c == [r \in 0 .. w - 1 |-> Digit(type, bytes[ByteOf(type, r)])]
           v == value % Word
<1>1. \A i \in 0 .. w - 1 : bytes[i] \in Bytes
  BY EncodeIs
<1>2. PICK T : Makes(w, s, c, T)
               /\ Decode(type, bytes)
                    = Signed(T[w], IF type.repr = "i" THEN Power(Byte, w) ELSE Word)
  <2> HIDE DEF bytes
  <2> QED BY <1>1, DecodeIs
<1>3. \A r \in 0 .. w - 1 : c[r] = (v \div Power(s, r)) % s
  <2> SUFFICES ASSUME NEW r \in 0 .. w - 1 PROVE c[r] = (v \div Power(s, r)) % s
    OBVIOUS
  <2> DEFINE i == ByteOf(type, r)
  <2>1. i \in 0 .. w - 1 /\ Rank(type, i) = r
    BY RankIs
  <2>2. Digit(type, bytes[i]) = (v \div Shift(type, i)) % s
    <3> HIDE DEF i
    <3> QED BY <2>1, EncodeIs
  <2> QED BY <2>1, <2>2 DEF Shift
<1>4. w \in Nat /\ s \in Nat \ {0} /\ v \in Nat
  <2>1. 0 \in 0 .. w - 1
    BY TypeIs
  <2> QED BY <2>1, TypeIs, SpanIs, PartIs
<1>5. T[w] = v % Power(s, w)
  <2> HIDE DEF c, v, w, s
  <2> QED BY <1>2, <1>3, <1>4, RestOf
<1> QED BY <1>2, <1>5 DEF Wrapped

\* The numbers that the words of an overlay hold.
WordTypes == {type \in DataType : type.repr = "u" /\ Power(Byte, type.width) <= Word}

LEMMA WordDecodes ==
  ASSUME NEW type \in WordTypes, NEW bytes,
         \A i \in 0 .. type.width - 1 : bytes[i] \in Bytes
  PROVE  /\ Decode(type, bytes) \in Int
         /\ Decode(type, bytes) % Word < Power(Byte, type.width)
         /\ Decode(type, bytes) = Signed(Decode(type, bytes) % Word, Word)
         /\ \A i \in 0 .. type.width - 1 : Encode(type, Decode(type, bytes))[i] = bytes[i]
<1> DEFINE w == type.width
           c == [r \in 0 .. w - 1 |-> Digit(type, bytes[ByteOf(type, r)])]
           value == Decode(type, bytes)
<1>1. type \in DataType /\ type.repr = "u" /\ Power(Byte, w) <= Word
  BY DEF WordTypes
<1>2. Span(type) = Byte /\ \A byte : Digit(type, byte) = byte
  BY <1>1 DEF Span, Digit
<1>3. PICK T : Makes(w, Byte, c, T) /\ value = Signed(T[w], Word)
  BY <1>1, <1>2, DecodeIs
<1>4. w \in Nat /\ Byte \in Nat \ {0} /\ Word \in Nat \ {0}
  BY <1>1, TypeIs, NumbersAre
<1>5. c \in [0 .. w - 1 -> 0 .. Byte - 1]
  BY <1>1, <1>2, RankIs DEF Bytes
<1>6. T[w] \in 0 .. Power(Byte, w) - 1 /\ Power(Byte, w) \in Nat
  <2> HIDE DEF c, w
  <2>1. w \in 0 .. w
    BY <1>4
  <2>2. \A n \in 0 .. w : T[n] \in 0 .. Power(Byte, n) - 1
    BY <1>3, <1>4, <1>5, BelowPower
  <2> QED BY <1>4, <2>1, <2>2, PowerIs
<1>7. T[w] % Word = T[w] /\ T[w] \in Int /\ T[w] < Power(Byte, w)
  <2> DEFINE t == T[w]
             p == Power(Byte, w)
  <2>1. t \in 0 .. p - 1 /\ p \in Nat /\ p <= Word
    BY <1>1, <1>6
  <2> HIDE DEF t, p
  <2>2. t \in Int /\ t \in 0 .. Word - 1 /\ t < p
    BY <1>4, <2>1
  <2>3. t % Word = t
    <3>1. Word * 0 + t = t /\ 0 \in Int
      BY <1>4, <2>2
    <3>2. (Word * 0 + t) % Word = t
      BY <1>4, <2>2, <3>1, DivModIs, Zenon
    <3> QED BY <3>1, <3>2
  <2> QED BY <2>2, <2>3 DEF t, p
<1>8. value \in Int /\ value % Word = T[w]
  <2> HIDE DEF value, w
  <2> QED BY <1>3, <1>4, <1>7, SignedIs
<1>9. ASSUME NEW i \in 0 .. w - 1 PROVE Encode(type, value)[i] = bytes[i]
  <2>1. Rank(type, i) \in 0 .. w - 1 /\ ByteOf(type, Rank(type, i)) = i
    BY <1>1, RankIs
  <2>2. Encode(type, value)[i] = (T[w] \div Power(Byte, Rank(type, i))) % Byte
    <3> HIDE DEF value
    <3> QED BY <1>1, <1>2, <1>8 DEF Encode, Shift
  <2>3. (T[w] \div Power(Byte, Rank(type, i))) % Byte = c[Rank(type, i)]
    <3>1. Makes(w, Byte, c, T)
      BY <1>3
    <3> HIDE DEF c, w
    <3> QED BY <1>4, <1>5, <2>1, <3>1, DigitOf, SMTT(20)
  <2>4. c[Rank(type, i)] = bytes[i]
    BY <1>2, <2>1
  <2> QED BY <2>2, <2>3, <2>4
<1> HIDE DEF value
<1> QED BY <1>3, <1>7, <1>8, <1>9 DEF value

\* A word in one byte order and back.
LEMMA WordTurnsBack ==
  ASSUME NEW one \in WordTypes, NEW other \in WordTypes, one.width = other.width,
         NEW bytes, \A i \in 0 .. one.width - 1 : bytes[i] \in Bytes,
         NEW turned, \A i \in 0 .. one.width - 1 :
                       turned[i] = Encode(other, Decode(one, bytes))[i]
  PROVE  /\ \A i \in 0 .. one.width - 1 :
              turned[i] \in Bytes /\ Encode(one, Decode(other, turned))[i] = bytes[i]
<1> DEFINE w == one.width
           value == Decode(one, bytes)
           enc == Encode(other, value)
<1>1. /\ value \in Int /\ value % Word < Power(Byte, w)
      /\ value = Signed(value % Word, Word)
      /\ \A i \in 0 .. w - 1 : Encode(one, value)[i] = bytes[i]
  BY WordDecodes
<1>2. other \in DataType /\ other.repr = "u" /\ other.width = w
  BY DEF WordTypes
<1> HIDE DEF value
<1>3. \A i \in 0 .. w - 1 : enc[i] \in Bytes
  BY <1>1, <1>2, EncodeIs
<1>4. Decode(other, turned) = Decode(other, enc)
  <2>1. \A i \in 0 .. other.width - 1 : turned[i] = enc[i]
    BY <1>2 DEF value
  <2> HIDE DEF enc
  <2>2. [i \in 0 .. other.width - 1 |-> Digit(other, turned[i]) * Shift(other, i)]
          = [i \in 0 .. other.width - 1 |-> Digit(other, enc[i]) * Shift(other, i)]
    BY <2>1
  <2> QED BY <2>2 DEF Decode
<1>5. Decode(other, enc) = value
  <2>1. Decode(other, enc) = Wrapped(other, value)
    BY <1>1, <1>2, EncodedReadsBack
  <2>2. Wrapped(other, value) = Signed((value % Word) % Power(Byte, w), Word)
    BY <1>2 DEF Wrapped, Span
  <2>3. (value % Word) % Power(Byte, w) = value % Word
    <3> DEFINE v == value % Word
               p == Power(Byte, w)
    <3>1. w \in Nat /\ Word \in Nat \ {0} /\ Byte \in Nat \ {0}
      BY <1>2, TypeIs, NumbersAre
    <3>2. p \in Nat \ {0}
      BY <3>1, PowerIs
    <3>3. v \in 0 .. Word - 1
      BY <1>1, <3>1, DivMod
    <3>4. v < p
      BY <1>1
    <3> HIDE DEF v, p
    <3>5. v \in 0 .. p - 1 /\ 0 \in Int /\ p * 0 + v = v
      BY <3>1, <3>2, <3>3, <3>4
    <3>6. (p * 0 + v) % p = v
      BY <3>2, <3>5, DivModIs, Zenon
    <3>7. v % p = v
      BY <3>5, <3>6
    <3> QED BY <3>7 DEF v, p
  <2> QED BY <1>1, <2>1, <2>2, <2>3
<1> QED BY <1>1, <1>2, <1>3, <1>4, <1>5 DEF value

\* A word of one byte is the byte in every order.
LEMMA OneByteIsItself ==
  ASSUME NEW one \in WordTypes, NEW other \in WordTypes, one.width = 1, other.width = 1,
         NEW bytes, bytes[0] \in Bytes
  PROVE  Encode(other, Decode(one, bytes))[0] = bytes[0]
<1>1. /\ one \in DataType /\ other \in DataType /\ one.repr = "u" /\ other.repr = "u"
      /\ 0 \in 0 .. one.width - 1
  BY DEF WordTypes
<1>2. \A i \in 0 .. 0 : Rank(one, i) = 0 /\ Rank(other, i) = 0
  <2>1. 0 \in 0 .. one.width - 1 /\ 0 \in 0 .. other.width - 1
    OBVIOUS
  <2>2. Rank(one, 0) \in 0 .. 1 - 1 /\ Rank(other, 0) \in 0 .. 1 - 1
    BY <1>1, <2>1, RankIs
  <2> QED BY <2>2
<1>3. /\ \A i \in 0 .. 0 : Shift(one, i) = Shift(other, i)
      /\ \A byte : Digit(one, byte) = Digit(other, byte)
  BY <1>1, <1>2 DEF Shift, Span, Digit
<1>4. Decode(one, bytes) = Decode(other, bytes)
  <2>1. [i \in 0 .. 0 |-> Digit(one, bytes[i]) * Shift(one, i)]
          = [i \in 0 .. 0 |-> Digit(other, bytes[i]) * Shift(other, i)]
    BY <1>3
  <2>2. one.width - 1 = 0 /\ other.width - 1 = 0
    OBVIOUS
  <2> QED BY <1>1, <2>1, <2>2 DEF Decode
<1>5. \A i \in 0 .. other.width - 1 : bytes[i] \in Bytes
  OBVIOUS
<1>6. 0 \in 0 .. other.width - 1
  OBVIOUS
<1>7. Encode(other, Decode(other, bytes))[0] = bytes[0]
  BY <1>5, <1>6, WordDecodes
<1> QED BY <1>4, <1>7

-----------------------------------------------------------------------------
(***************************************************************************)
(* Words of a block.                                                       *)
(***************************************************************************)
\* The word around byte k of a block, and the byte it gives for k in the other
\* byte order.
WordAt(overlay, block, k) ==
  [j \in 0 .. overlay.width - 1 |-> block[k - Edge(overlay, k) + j]]

TurnedAt(overlay, from, to, block, k) ==
  Encode(WordType(to, overlay),
         Decode(WordType(from, overlay), WordAt(overlay, block, k)))[Edge(overlay, k)]

WordOf(overlay, k) == (k - Edge(overlay, k)) .. (k - Edge(overlay, k) + overlay.width - 1)

LEMMA OverlayIs ==
  ASSUME NEW overlay \in Overlay
  PROVE  /\ overlay.width \in {1, 2, 4}
         /\ WordType(overlay.backing, overlay) \in WordTypes
         /\ WordType(overlay.real, overlay) \in WordTypes
         /\ \A e : WordType(e, overlay).width = overlay.width
<1>1. /\ overlay.width \in {1, 2, 4}
      /\ overlay.backing \in {"=", "<", ">"} /\ overlay.real \in {"=", "<", ">"}
  BY DEF Overlay
<1>2. Power(Byte, overlay.width) <= Word
  BY MemoryAssumption
<1>3. ASSUME NEW e \in {"=", "<", ">"} PROVE WordType(e, overlay) \in WordTypes
  <2>1. e \in Endians /\ overlay.width \in Nat \ {0}
    BY <1>1 DEF Endians
  <2>2. WordType(e, overlay) \in DataType
    BY <2>1 DEF WordType, DataType
  <2> QED BY <1>2, <2>2 DEF WordType, WordTypes
<1> QED BY <1>1, <1>3 DEF WordType

\* A byte has a place in its word, and every byte of the word has the same word.
LEMMA WordIs ==
  ASSUME NEW overlay \in Overlay, NEW k \in Nat
  PROVE  /\ Edge(overlay, k) \in 0 .. overlay.width - 1 /\ k - Edge(overlay, k) \in Nat
         /\ k \in WordOf(overlay, k) /\ WordOf(overlay, k) \subseteq Nat
         /\ Touched(overlay, k, 1) = WordOf(overlay, k)
         /\ \A j \in 0 .. overlay.width - 1 :
              /\ k - Edge(overlay, k) + j \in WordOf(overlay, k)
              /\ Edge(overlay, k - Edge(overlay, k) + j) = j
         /\ \A m \in WordOf(overlay, k) : WordOf(overlay, m) = WordOf(overlay, k)
<1> DEFINE w == overlay.width
<1>1. w \in {1, 2, 4}
  BY OverlayIs
<1>2. k + 1 - 1 = k
  OBVIOUS
<1>3. Touched(overlay, k, 1) = WordOf(overlay, k)
  BY <1>2 DEF Touched, WordOf
<1>4. \A m : Edge(overlay, m) = m % w
  BY DEF Edge
<1>5. k % w \in 0 .. w - 1 /\ k - (k % w) \in Nat
  BY <1>1
<1>6. \A j \in 0 .. w - 1 : (k - (k % w) + j) % w = j
  <2>1. w = 1 => \A j \in 0 .. 0 : (k - (k % 1) + j) % 1 = j
    OBVIOUS
  <2>2. w = 2 => \A j \in 0 .. 1 : (k - (k % 2) + j) % 2 = j
    OBVIOUS
  <2>3. w = 4 => \A j \in 0 .. 3 : (k - (k % 4) + j) % 4 = j
    OBVIOUS
  <2> QED BY <1>1, <2>1, <2>2, <2>3
<1>7. ASSUME NEW m \in (k - (k % w)) .. (k - (k % w) + w - 1)
      PROVE  m - (m % w) = k - (k % w)
  <2>1. CASE w = 1
    BY <2>1
  <2>2. CASE w = 2
    BY <2>2
  <2>3. CASE w = 4
    BY <2>3
  <2> QED BY <1>1, <2>1, <2>2, <2>3
<1>8. \A m : WordOf(overlay, m) = (m - (m % w)) .. (m - (m % w) + w - 1)
  BY <1>4 DEF WordOf
<1>9. \A m \in WordOf(overlay, k) : WordOf(overlay, m) = WordOf(overlay, k)
  BY <1>7, <1>8
<1> DEFINE e == k % w
<1>10. e \in 0 .. w - 1 /\ k - e \in Nat /\ w \in Nat
  BY <1>1, <1>5
<1>11. WordOf(overlay, k) = (k - e) .. (k - e + w - 1) /\ Edge(overlay, k) = e
  BY <1>4, <1>8
<1>12. \A j \in 0 .. w - 1 : Edge(overlay, k - e + j) = j
  BY <1>4, <1>6
<1> HIDE DEF e, w
<1>13. k \in WordOf(overlay, k) /\ WordOf(overlay, k) \subseteq Nat
  BY <1>10, <1>11
<1>14. \A j \in 0 .. w - 1 : k - e + j \in WordOf(overlay, k)
  BY <1>10, <1>11
<1> QED BY <1>3, <1>9, <1>10, <1>11, <1>12, <1>13, <1>14 DEF w

\* The words that a number touches are whole, and hold it.
LEMMA TouchedIs ==
  ASSUME NEW overlay \in Overlay, NEW offset \in Nat, NEW size \in Nat \ {0}
  PROVE  /\ offset .. offset + size - 1 \subseteq Touched(overlay, offset, size)
         /\ Touched(overlay, offset, size) \subseteq Nat
         /\ \A k \in Touched(overlay, offset, size) :
              WordOf(overlay, k) \subseteq Touched(overlay, offset, size)
         /\ overlay.width = 1 =>
              Touched(overlay, offset, size) = offset .. offset + size - 1
<1> DEFINE w == overlay.width
           end == offset + size - 1
<1>1. w \in {1, 2, 4} /\ end \in Nat /\ offset <= end
  BY OverlayIs
<1>2. Touched(overlay, offset, size) = (offset - (offset % w)) .. (end - (end % w) + w - 1)
  BY DEF Touched, Edge
<1>3. \A k : WordOf(overlay, k) = (k - (k % w)) .. (k - (k % w) + w - 1)
  BY DEF WordOf, Edge
<1> HIDE DEF end
<1>4. CASE w = 1
  BY <1>1, <1>2, <1>3, <1>4 DEF end
<1>5. CASE w = 2
  <2>1. offset % 2 \in 0 .. 1 /\ offset - (offset % 2) \in Nat /\ end % 2 \in 0 .. 1
    BY <1>1
  <2>2. \A k \in (offset - (offset % 2)) .. (end - (end % 2) + 1) :
          k - (k % 2) >= offset - (offset % 2) /\ k - (k % 2) <= end - (end % 2)
    BY <1>1
  <2> QED BY <1>1, <1>2, <1>3, <1>5, <2>1, <2>2 DEF end
<1>6. CASE w = 4
  <2>1. offset % 4 \in 0 .. 3 /\ offset - (offset % 4) \in Nat /\ end % 4 \in 0 .. 3
    BY <1>1
  <2>2. \A k \in (offset - (offset % 4)) .. (end - (end % 4) + 3) :
          k - (k % 4) >= offset - (offset % 4) /\ k - (k % 4) <= end - (end % 4)
    BY <1>1
  <2> QED BY <1>1, <1>2, <1>3, <1>6, <2>1, <2>2 DEF end
<1> QED BY <1>1, <1>4, <1>5, <1>6

\* Only the word counts.
LEMMA SameWord ==
  ASSUME NEW overlay \in Overlay, NEW k \in Nat, NEW block, NEW other, NEW from, NEW to,
         \A m \in WordOf(overlay, k) : block[m] = other[m]
  PROVE  TurnedAt(overlay, from, to, block, k) = TurnedAt(overlay, from, to, other, k)
<1>1. \A j \in 0 .. overlay.width - 1 : k - Edge(overlay, k) + j \in WordOf(overlay, k)
  BY WordIs
<1>2. WordAt(overlay, block, k) = WordAt(overlay, other, k)
  BY <1>1 DEF WordAt
<1> QED BY <1>2 DEF TurnedAt

LEMMA ConvertAt ==
  ASSUME NEW overlay, NEW from, NEW to, NEW bytes
  PROVE  /\ DOMAIN Convert(overlay, from, to, bytes) = DOMAIN bytes
         /\ \A k \in DOMAIN bytes :
              Convert(overlay, from, to, bytes)[k] = TurnedAt(overlay, from, to, bytes, k)
  BY DEF Convert, TurnedAt, WordAt

\* A buffer that was parsed gives for every byte what its word gives.
LEMMA ParseAt ==
  ASSUME NEW overlay \in Overlay, NEW offset \in Nat, NEW size \in Nat \ {0}, NEW block
  PROVE  /\ DOMAIN Parse(overlay, block, offset, size) = Touched(overlay, offset, size)
         /\ \A k \in Touched(overlay, offset, size) :
              Parse(overlay, block, offset, size)[k]
                = TurnedAt(overlay, overlay.backing, overlay.real, block, k)
<1> DEFINE T == Touched(overlay, offset, size)
           words == [k \in T |-> block[k]]
           b == overlay.backing
           r == overlay.real
<1>1. Parse(overlay, block, offset, size) = Convert(overlay, b, r, words)
  BY DEF Parse
<1>2. \A k \in T : k \in Nat /\ \A m \in WordOf(overlay, k) : words[m] = block[m]
  BY TouchedIs
<1>3. DOMAIN words = T
  OBVIOUS
<1> HIDE DEF words, T
<1>4. ASSUME NEW k \in T PROVE TurnedAt(overlay, b, r, words, k) = TurnedAt(overlay, b, r, block, k)
  BY <1>2, SameWord
<1> QED BY <1>1, <1>3, <1>4, ConvertAt DEF T

\* The two orders of an overlay.
Orders(overlay) == {overlay.backing, overlay.real}

LEMMA TurnedIsByte ==
  ASSUME NEW overlay \in Overlay, NEW k \in Nat, NEW block,
         NEW from \in Orders(overlay), NEW to \in Orders(overlay),
         \A m \in WordOf(overlay, k) : block[m] \in Bytes
  PROVE  TurnedAt(overlay, from, to, block, k) \in Bytes
<1> DEFINE word == WordAt(overlay, block, k)
           one == WordType(from, overlay)
           other == WordType(to, overlay)
<1>1. one \in WordTypes /\ other \in WordTypes /\ one.width = overlay.width
      /\ other.width = overlay.width
  BY OverlayIs DEF Orders
<1>2. \A j \in 0 .. overlay.width - 1 : word[j] \in Bytes
  BY WordIs DEF WordAt
<1>3. Edge(overlay, k) \in 0 .. overlay.width - 1
  BY WordIs
<1> HIDE DEF word, one, other
<1>4. Decode(one, word) \in Int
  BY <1>1, <1>2, WordDecodes
<1>5. other \in DataType
  BY <1>1 DEF WordTypes
<1>6. Encode(other, Decode(one, word))[Edge(overlay, k)] \in Bytes
  BY <1>1, <1>3, <1>4, <1>5, EncodeIs
<1> QED BY <1>6 DEF TurnedAt, word, one, other

\* What is turned to the other order turns back.
LEMMA TurnsBack ==
  ASSUME NEW overlay \in Overlay, NEW k \in Nat, NEW block, NEW turned,
         NEW from \in Orders(overlay), NEW to \in Orders(overlay),
         \A m \in WordOf(overlay, k) :
           block[m] \in Bytes /\ turned[m] = TurnedAt(overlay, from, to, block, m)
  PROVE  TurnedAt(overlay, to, from, turned, k) = block[k]
<1> DEFINE word == WordAt(overlay, block, k)
           drow == WordAt(overlay, turned, k)
           one == WordType(from, overlay)
           other == WordType(to, overlay)
           i == Edge(overlay, k)
           w == overlay.width
<1>1. one \in WordTypes /\ other \in WordTypes /\ one.width = w /\ other.width = w
  BY OverlayIs DEF Orders
<1>2. i \in 0 .. w - 1 /\ k - i \in Nat
  BY WordIs
<1>3. \A j \in 0 .. w - 1 : k - i + j \in WordOf(overlay, k) /\ Edge(overlay, k - i + j) = j
                            /\ k - i + j \in Nat
  BY WordIs
<1>4. \A j \in 0 .. w - 1 : word[j] = block[k - i + j] /\ drow[j] = turned[k - i + j]
  BY DEF WordAt
<1>5. ASSUME NEW j \in 0 .. w - 1 PROVE drow[j] = Encode(other, Decode(one, word))[j]
  <2> DEFINE m == k - i + j
  <2>1. drow[j] = TurnedAt(overlay, from, to, block, m) /\ Edge(overlay, m) = j
    BY <1>3, <1>4
  <2>2. WordAt(overlay, block, m) = word
    <3>1. m - j = k - i
      BY <1>2
    <3> HIDE DEF m
    <3> QED BY <2>1, <3>1 DEF WordAt
  <2> HIDE DEF m, word, drow
  <2> QED BY <2>1, <2>2 DEF TurnedAt
<1>6. \A j \in 0 .. w - 1 : word[j] \in Bytes
  BY <1>3, <1>4
<1>7. word[i] = block[k]
  <2>1. k - i + i = k
    BY <1>2
  <2> QED BY <1>2, <1>4, <2>1
<1>8. TurnedAt(overlay, to, from, turned, k) = Encode(one, Decode(other, drow))[i]
  BY DEF TurnedAt
<1> HIDE DEF word, drow, one, other, i, w
<1>9. \A j \in 0 .. w - 1 : Encode(one, Decode(other, drow))[j] = word[j]
  BY <1>1, <1>5, <1>6, WordTurnsBack
<1> QED BY <1>2, <1>7, <1>8, <1>9

\* A word of one byte is as it is.
LEMMA TurnedOne ==
  ASSUME NEW overlay \in Overlay, overlay.width = 1, NEW k \in Nat, NEW block, block[k] \in Bytes,
         NEW from \in Orders(overlay), NEW to \in Orders(overlay)
  PROVE  TurnedAt(overlay, from, to, block, k) = block[k]
<1> DEFINE word == WordAt(overlay, block, k)
           one == WordType(from, overlay)
           other == WordType(to, overlay)
<1>1. one \in WordTypes /\ other \in WordTypes /\ one.width = 1 /\ other.width = 1
  BY OverlayIs DEF Orders
<1>2. Edge(overlay, k) = 0
  <2>1. Edge(overlay, k) \in 0 .. 1 - 1
    BY WordIs
  <2> QED BY <2>1
<1>3. word[0] = block[k]
  <2>1. 0 \in 0 .. overlay.width - 1 /\ k - 0 + 0 = k
    OBVIOUS
  <2> QED BY <1>2, <2>1 DEF WordAt
<1>4. TurnedAt(overlay, from, to, block, k) = Encode(other, Decode(one, word))[0]
  BY <1>2 DEF TurnedAt
<1> HIDE DEF word, one, other
<1> QED BY <1>1, <1>3, <1>4, OneByteIsItself

-----------------------------------------------------------------------------
(***************************************************************************)
(* Reading and writing numbers.                                            *)
(***************************************************************************)
\* Byte k of a block as the console sees it.
SeenAt(overlay, block, k) == TurnedAt(overlay, overlay.backing, overlay.real, block, k)

\* A variable whose words lie in a block of bytes.
Fits(overlay, block, n, offset, type) ==
  /\ overlay \in Overlay /\ n \in Nat /\ block \in [0 .. n - 1 -> Bytes]
  /\ offset \in Nat /\ type \in DataType
  /\ Touched(overlay, offset, type.width) \subseteq 0 .. n - 1

LEMMA FitsIs ==
  ASSUME NEW overlay, NEW block, NEW n, NEW offset, NEW type,
         Fits(overlay, block, n, offset, type)
  PROVE  /\ type.width \in Nat \ {0}
         /\ \A k \in Touched(overlay, offset, type.width) :
              /\ k \in Nat /\ SeenAt(overlay, block, k) \in Bytes
              /\ WordOf(overlay, k) \subseteq Touched(overlay, offset, type.width)
              /\ \A m \in WordOf(overlay, k) : block[m] \in Bytes
              /\ overlay.width = 1 => SeenAt(overlay, block, k) = block[k]
         /\ \A i \in 0 .. type.width - 1 :
              offset + i \in Touched(overlay, offset, type.width)
<1> DEFINE T == Touched(overlay, offset, type.width)
<1>1. /\ overlay \in Overlay /\ n \in Nat /\ block \in [0 .. n - 1 -> Bytes]
      /\ offset \in Nat /\ type \in DataType /\ T \subseteq 0 .. n - 1
  BY DEF Fits
<1>2. type.width \in Nat \ {0}
  BY <1>1, TypeIs
<1>3. /\ offset .. offset + type.width - 1 \subseteq T /\ T \subseteq Nat
      /\ \A k \in T : WordOf(overlay, k) \subseteq T
  BY <1>1, <1>2, TouchedIs
<1>4. \A i \in 0 .. type.width - 1 : offset + i \in T
  <2>1. \A i \in 0 .. type.width - 1 : offset + i \in offset .. offset + type.width - 1
    BY <1>1, <1>2
  <2> QED BY <1>3, <2>1
<1> HIDE DEF T
<1>5. ASSUME NEW k \in T
      PROVE  /\ k \in Nat /\ SeenAt(overlay, block, k) \in Bytes
             /\ \A m \in WordOf(overlay, k) : block[m] \in Bytes
             /\ overlay.width = 1 => SeenAt(overlay, block, k) = block[k]
  <2>1. k \in Nat /\ \A m \in WordOf(overlay, k) : block[m] \in Bytes
    BY <1>1, <1>3
  <2>2. overlay.backing \in Orders(overlay) /\ overlay.real \in Orders(overlay)
    BY DEF Orders
  <2>3. SeenAt(overlay, block, k) \in Bytes
    BY <1>1, <2>1, <2>2, TurnedIsByte DEF SeenAt
  <2>4. block[k] \in Bytes
    BY <1>1
  <2>5. overlay.width = 1 => SeenAt(overlay, block, k) = block[k]
    BY <1>1, <2>1, <2>2, <2>4, TurnedOne DEF SeenAt
  <2> QED BY <2>1, <2>3, <2>5
<1> QED BY <1>2, <1>3, <1>4, <1>5 DEF T

\* The bytes of a number as the console sees them.
Sees(overlay, block, offset, type, bytes) ==
  bytes = [i \in 0 .. type.width - 1 |-> SeenAt(overlay, block, offset + i)]

BothRead(h, space, base, var, number) ==
  ReadConst(h, space, base, var) = number /\ ReadDatum(h, space, base, var) = number

\* Both ways to read a number read the bytes the console sees.
LEMMA ReadIs ==
  ASSUME NEW h, NEW space, NEW base, NEW var, NEW n, NEW offset, NEW bytes,
         offset = var.address - base,
         Fits(space.overlay, Block(h, space, base), n, offset, var.type),
         Sees(space.overlay, Block(h, space, base), offset, var.type, bytes)
  PROVE  BothRead(h, space, base, var, Masked(Decode(var.type, bytes), var.mask))
<1> DEFINE overlay == space.overlay
           block == Block(h, space, base)
           w == var.type.width
           parsed == Parse(overlay, block, offset, w)
<1>1. w \in Nat \ {0} /\ overlay \in Overlay /\ offset \in Nat
  BY FitsIs DEF Fits
<1>2. \A i \in 0 .. w - 1 : offset + i \in Touched(overlay, offset, w)
  BY FitsIs
<1>11. bytes = [i \in 0 .. w - 1 |-> SeenAt(overlay, block, offset + i)]
  BY DEF Sees
<1>3. overlay.width = 1 => \A i \in 0 .. w - 1 : block[offset + i] = bytes[i]
  BY <1>2, <1>11, FitsIs
<1>4. \A i \in 0 .. w - 1 : parsed[offset + i] = bytes[i]
  <2> HIDE DEF overlay, block, w
  <2>1. \A k \in Touched(overlay, offset, w) : parsed[k] = SeenAt(overlay, block, k)
    BY <1>1, ParseAt DEF SeenAt
  <2> HIDE DEF parsed
  <2>2. \A i \in 0 .. w - 1 : parsed[offset + i] = SeenAt(overlay, block, offset + i)
    BY <1>2, <2>1
  <2> QED BY <1>11, <2>2 DEF overlay, block, w
<1>5. \A from : (\A i \in 0 .. w - 1 : from[offset + i] = bytes[i]) => Cut(from, offset, w) = bytes
  BY <1>11 DEF Cut
<1>6. ~ overlay.width > 1 => overlay.width = 1
  BY <1>1, OverlayIs
<1>7. Cut(IF overlay.width > 1 THEN parsed ELSE block, offset, w) = bytes
  BY <1>3, <1>4, <1>5, <1>6
<1>8. Cut(IF Straight(overlay, offset) THEN block ELSE parsed, offset, w) = bytes
  BY <1>3, <1>4, <1>5 DEF Straight
<1>9. ReadConst(h, space, base, var) =
        Masked(Decode(var.type, Cut(IF overlay.width > 1 THEN parsed ELSE block, offset, w)), var.mask)
  BY DEF ReadConst
<1>10. ReadDatum(h, space, base, var) =
        Masked(Decode(var.type, Cut(IF Straight(overlay, offset) THEN block ELSE parsed, offset, w)),
               var.mask)
  BY DEF ReadDatum
<1> HIDE DEF overlay, block, w, parsed
<1> QED BY <1>7, <1>8, <1>9, <1>10 DEF BothRead

\* What a write leaves in the block: the console sees the number at its place and
\* every other byte as before.
WrittenAs(overlay, block, n, offset, type, value, new) ==
  /\ new \in [0 .. n - 1 -> Bytes]
  /\ \A k \in Touched(overlay, offset, type.width) :
       SeenAt(overlay, new, k) = IF k \in offset .. offset + type.width - 1
                                 THEN Encode(type, value)[k - offset]
                                 ELSE SeenAt(overlay, block, k)
  /\ \A k \in 0 .. n - 1 :
       k \notin Touched(overlay, offset, type.width) => new[k] = block[k]

LEMMA StraightWrite ==
  ASSUME NEW overlay, NEW block, NEW n, NEW offset, NEW type, NEW value \in Int,
         Fits(overlay, block, n, offset, type), overlay.width = 1
  PROVE  WrittenAs(overlay, block, n, offset, type, value,
                   Over(Placed(type, offset, value), block))
<1> DEFINE T == Touched(overlay, offset, type.width)
           number == Placed(type, offset, value)
           new == Over(number, block)
<1>1. /\ overlay \in Overlay /\ n \in Nat /\ block \in [0 .. n - 1 -> Bytes]
      /\ offset \in Nat /\ type \in DataType /\ T \subseteq 0 .. n - 1
      /\ type.width \in Nat \ {0}
  BY FitsIs DEF Fits
<1>2. T = offset .. offset + type.width - 1
  BY <1>1, TouchedIs
<1>3. \A k \in T : k - offset \in 0 .. type.width - 1
  BY <1>1, <1>2
<1>4. DOMAIN number = T /\ \A k \in T : number[k] = Encode(type, value)[k - offset]
  BY <1>2 DEF Placed
<1>5. \A k \in T : number[k] \in Bytes
  BY <1>1, <1>3, <1>4, EncodeIs
<1> HIDE DEF T, number
<1>6. /\ new \in [0 .. n - 1 -> Bytes]
      /\ \A k \in T : new[k] = number[k]
      /\ \A k \in 0 .. n - 1 : k \notin T => new[k] = block[k]
  <2>1. DOMAIN number \cup DOMAIN block = 0 .. n - 1
    BY <1>1, <1>4
  <2>2. new = [k \in 0 .. n - 1 |-> IF k \in T THEN number[k] ELSE block[k]]
    BY <1>4, <2>1 DEF Over
  <2>3. \A k \in 0 .. n - 1 : (IF k \in T THEN number[k] ELSE block[k]) \in Bytes
    BY <1>1, <1>5
  <2> HIDE DEF new
  <2> QED BY <1>1, <2>2, <2>3
<1> HIDE DEF new
<1>7. Fits(overlay, new, n, offset, type)
  BY <1>1, <1>6 DEF Fits, T
<1>8. \A k \in T : SeenAt(overlay, new, k) = new[k]
  BY <1>7, FitsIs DEF T
<1> QED BY <1>2, <1>4, <1>6, <1>8 DEF WrittenAs, T, new, number

LEMMA WordWrite ==
  ASSUME NEW overlay, NEW block, NEW n, NEW offset, NEW type, NEW value \in Int,
         Fits(overlay, block, n, offset, type)
  PROVE  WrittenAs(overlay, block, n, offset, type, value,
                   Unparse(overlay, block, Over(Placed(type, offset, value),
                                            Parse(overlay, block, offset, type.width))))
<1> DEFINE T == Touched(overlay, offset, type.width)
           N == offset .. offset + type.width - 1
           number == Placed(type, offset, value)
           words == Parse(overlay, block, offset, type.width)
           buffer == Over(number, words)
           b == overlay.backing
           r == overlay.real
           back == Convert(overlay, r, b, buffer)
           new == Unparse(overlay, block, buffer)
<1>1. /\ overlay \in Overlay /\ n \in Nat /\ block \in [0 .. n - 1 -> Bytes]
      /\ offset \in Nat /\ type \in DataType /\ T \subseteq 0 .. n - 1
      /\ type.width \in Nat \ {0}
  BY FitsIs DEF Fits
<1>2. \A k \in T : /\ k \in Nat /\ SeenAt(overlay, block, k) \in Bytes
                   /\ WordOf(overlay, k) \subseteq T
  BY FitsIs
<1>3. N \subseteq T /\ \A k \in N : k - offset \in 0 .. type.width - 1
  BY <1>1, TouchedIs
<1>4. DOMAIN number = N /\ \A k \in N : number[k] = Encode(type, value)[k - offset]
  BY DEF Placed
<1>5. \A k \in N : number[k] \in Bytes
  BY <1>1, <1>3, <1>4, EncodeIs
<1>6. DOMAIN words = T /\ \A k \in T : words[k] = SeenAt(overlay, block, k)
  BY <1>1, ParseAt DEF SeenAt
<1> HIDE DEF T, N, number, words
<1>7. /\ DOMAIN buffer = T
      /\ \A k \in T : /\ buffer[k] \in Bytes
                      /\ buffer[k] = IF k \in N THEN number[k] ELSE SeenAt(overlay, block, k)
  <2>1. DOMAIN number \cup DOMAIN words = T
    BY <1>3, <1>4, <1>6
  <2>2. buffer = [k \in T |-> IF k \in N THEN number[k] ELSE words[k]]
    BY <1>4, <2>1 DEF Over
  <2> QED BY <1>2, <1>5, <1>6, <2>2
<1> HIDE DEF buffer
<1>8. DOMAIN back = T /\ \A k \in T : back[k] = TurnedAt(overlay, r, b, buffer, k)
  BY <1>7, ConvertAt
<1>9. b \in Orders(overlay) /\ r \in Orders(overlay)
  BY DEF Orders
<1> HIDE DEF back, b, r
<1>10. \A k \in T : back[k] \in Bytes
  <2> SUFFICES ASSUME NEW k \in T PROVE back[k] \in Bytes
    OBVIOUS
  <2>1. k \in Nat /\ \A m \in WordOf(overlay, k) : buffer[m] \in Bytes
    BY <1>2, <1>7
  <2> QED BY <1>1, <1>8, <1>9, <2>1, TurnedIsByte
<1>11. /\ new \in [0 .. n - 1 -> Bytes]
       /\ \A k \in T : new[k] = back[k]
       /\ \A k \in 0 .. n - 1 : k \notin T => new[k] = block[k]
  <2>1. DOMAIN back \cup DOMAIN block = 0 .. n - 1
    BY <1>1, <1>8
  <2>2. new = Over(back, block)
    BY DEF Unparse, back, b, r
  <2>3. new = [k \in 0 .. n - 1 |-> IF k \in T THEN back[k] ELSE block[k]]
    BY <1>8, <2>1, <2>2 DEF Over
  <2>4. \A k \in 0 .. n - 1 : (IF k \in T THEN back[k] ELSE block[k]) \in Bytes
    BY <1>1, <1>10
  <2> HIDE DEF new
  <2> QED BY <1>1, <2>3, <2>4
<1> HIDE DEF new
<1>12. ASSUME NEW k \in T PROVE SeenAt(overlay, new, k) = buffer[k]
  <2>1. k \in Nat
    BY <1>2
  <2>2. \A m \in WordOf(overlay, k) :
          buffer[m] \in Bytes /\ new[m] = TurnedAt(overlay, r, b, buffer, m)
    BY <1>2, <1>7, <1>8, <1>11
  <2>3. TurnedAt(overlay, b, r, new, k) = buffer[k]
    BY <1>1, <1>9, <2>1, <2>2, TurnsBack
  <2> QED BY <2>3 DEF SeenAt, b, r
<1>13. \A k \in T : SeenAt(overlay, new, k)
                      = IF k \in N THEN Encode(type, value)[k - offset]
                        ELSE SeenAt(overlay, block, k)
  BY <1>4, <1>7, <1>12
<1> QED BY <1>11, <1>13 DEF WrittenAs, T, N, new, buffer, number, words

LEMMA WrittenIs ==
  ASSUME NEW h, NEW space, NEW base, NEW var, NEW value \in Int, NEW n,
         Fits(space.overlay, Block(h, space, base), n, var.address - base, var.type)
  PROVE  \E new :
           /\ Write(h, space, base, var, value) = [h EXCEPT ![space.blocks[base].buffer] = new]
           /\ WrittenAs(space.overlay, Block(h, space, base), n, var.address - base,
                        var.type, value, new)
<1> DEFINE overlay == space.overlay
           block == Block(h, space, base)
           offset == var.address - base
           type == var.type
           number == Placed(type, offset, value)
           plain == Over(number, block)
           back == Unparse(overlay, block, Over(number, Parse(overlay, block, offset, type.width)))
           new == IF Straight(overlay, offset) THEN plain ELSE back
<1>1. Write(h, space, base, var, value) = [h EXCEPT ![space.blocks[base].buffer] = new]
  BY DEF Write, Block
<1>2. Straight(overlay, offset) =>
        WrittenAs(overlay, block, n, offset, type, value, plain)
  BY StraightWrite DEF Straight
<1>3. WrittenAs(overlay, block, n, offset, type, value, back)
  BY WordWrite
<1> HIDE DEF overlay, block, offset, type, plain, back
<1>4. WrittenAs(overlay, block, n, offset, type, value, new)
  BY <1>2, <1>3
<1> QED BY <1>1, <1>4 DEF overlay, block, offset, type

-----------------------------------------------------------------------------
(***************************************************************************)
(* Types: the buffers hold bytes, and every space has blocks of known      *)
(* bases and an overlay.                                                   *)
(***************************************************************************)
BufferOk(c) == \E n \in Nat : c \in [0 .. n - 1 -> Bytes]

HeapTyped(h) ==
  DOMAIN h = Regions \cup Pool /\ \A x \in Regions \cup Pool : h[x] = Freed \/ BufferOk(h[x])

\* No core maps a region twice.
NoMirrors ==
  \A core \in Cores : \A b, c \in DOMAIN Maps[core] :
    Maps[core][b].buffer = Maps[core][c].buffer /\ Maps[core][b].buffer # NoBuffer => b = c

Apart(space) ==
  \A b, c \in DOMAIN space.blocks : space.blocks[b].buffer = space.blocks[c].buffer => b = c

SpacesTyped ==
  /\ mem \in Space /\ clone \in Space /\ last \in Space
  /\ DOMAIN olds \subseteq Names /\ \A n \in DOMAIN olds : olds[n] \in Space

TypeInv == HeapTyped(heap) /\ SpacesTyped /\ (NoMirrors => Apart(mem))

LEMMA SpaceIs ==
  ASSUME NEW space \in Space
  PROVE  /\ space.overlay \in Overlay /\ DOMAIN space.blocks \subseteq Bases
         /\ \A b \in DOMAIN space.blocks :
              /\ space.blocks[b].buffer \in Regions \cup Pool
              /\ space.blocks[b].managed \in BOOLEAN
<1>1. PICK B \in SUBSET Bases : space.blocks \in [B -> View]
  BY DEF Space, Bases
<1> QED BY <1>1 DEF Space, View

LEMMA MakesSpace ==
  ASSUME NEW B \in SUBSET Bases, NEW blocks \in [B -> View], NEW overlay \in Overlay
  PROVE  [blocks |-> blocks, overlay |-> overlay] \in Space
  BY DEF Space, Bases

LEMMA EmptySpace ==
  /\ NewSpace \in Space
  /\ \A space \in Space : [space EXCEPT !.blocks = <<>>] \in Space
<1>1. <<>> \in [{} -> View] /\ {} \in SUBSET Bases
  OBVIOUS
<1>2. Plain \in Overlay
  BY DEF Plain, Overlay
<1>3. ASSUME NEW space \in Space PROVE [space EXCEPT !.blocks = <<>>] \in Space
  <2>1. [space EXCEPT !.blocks = <<>>] = [blocks |-> <<>>, overlay |-> space.overlay]
    BY DEF Space
  <2>2. space.overlay \in Overlay
    BY SpaceIs
  <2>3. [blocks |-> <<>>, overlay |-> space.overlay] \in Space
    BY <1>1, <2>2, MakesSpace, Zenon
  <2> QED BY <2>1, <2>3
<1> QED BY <1>1, <1>2, <1>3, MakesSpace DEF NewSpace

LEMMA TypedRelease ==
  ASSUME NEW h, NEW space, HeapTyped(h)
  PROVE  HeapTyped(Release(h, space))
  BY ReleaseIs DEF HeapTyped

LEMMA TypedClone ==
  ASSUME NEW h, NEW space, NEW from \in Space, NEW t, t = Clone(h, space, from),
         HeapTyped(h), Room(Release(h, space), DOMAIN from.blocks)
  PROVE  HeapTyped(t.heap) /\ t.space \in Space
<1> DEFINE cleared == Release(h, space)
           B == DOMAIN from.blocks
           fresh == Fresh(cleared, B)
           F == {fresh[b] : b \in B}
           copies == [c \in F |->
                       cleared[from.blocks[CHOOSE b \in DOMAIN fresh : fresh[b] = c].buffer]]
           blocks == [b \in DOMAIN fresh |-> [buffer |-> fresh[b], managed |-> TRUE]]
<1>1. HeapTyped(cleared)
  BY TypedRelease
<1>2. /\ B \subseteq Bases /\ from.overlay \in Overlay
      /\ \A b \in B : from.blocks[b].buffer \in Regions \cup Pool
  BY SpaceIs
<1>3. fresh \in [B -> Free(cleared)]
  BY FreshIs
<1>4. t.heap = Over(copies, cleared) /\ t.space = [blocks |-> blocks, overlay |-> from.overlay]
  BY DEF Clone
<1> HIDE DEF cleared, B, fresh
<1>5. F \subseteq Pool
  BY <1>3 DEF Free
<1>6. DOMAIN copies = F /\ \A c \in F : copies[c] = Freed \/ BufferOk(copies[c])
  <2> SUFFICES ASSUME NEW c \in F PROVE copies[c] = Freed \/ BufferOk(copies[c])
    OBVIOUS
  <2> DEFINE b == CHOOSE b \in DOMAIN fresh : fresh[b] = c
  <2>1. b \in B
    BY <1>3
  <2>2. copies[c] = cleared[from.blocks[b].buffer]
    OBVIOUS
  <2> HIDE DEF b, copies
  <2> QED BY <1>1, <1>2, <2>1, <2>2 DEF HeapTyped
<1>7. blocks \in [B -> View]
  BY <1>3 DEF Free, View
<1> HIDE DEF copies, blocks, F
<1>8. HeapTyped(t.heap)
  BY <1>1, <1>4, <1>5, <1>6 DEF HeapTyped, Over
<1> QED BY <1>2, <1>4, <1>7, <1>8, MakesSpace

\* The first block around an address.
LEMMA AtIs ==
  ASSUME FreedIsNoFunction, TypeInv, NEW address, NEW base \in At(heap, mem, address)
  PROVE  /\ base \in DOMAIN mem.blocks /\ base \in Nat /\ address - base \in Nat
         /\ address \in Int
         /\ \E n \in Nat : /\ Block(heap, mem, base) \in [0 .. n - 1 -> Bytes]
                           /\ SizeOf(heap, mem.blocks[base]) = n
                           /\ address - base \in 0 .. n - 1
<1> DEFINE size(b) == SizeOf(heap, mem.blocks[b])
           around == {b \in DOMAIN mem.blocks : address \in b .. b + size(b) - 1}
<1>1. mem \in Space /\ HeapTyped(heap)
  BY DEF TypeInv, SpacesTyped
<1>2. Bases \subseteq Nat
  BY MemoryAssumption DEF Bases
<1>3. \A b \in DOMAIN mem.blocks : b \in Nat /\ mem.blocks[b].buffer \in Regions \cup Pool
  BY <1>1, <1>2, SpaceIs
<1>4. base \in around
  <2>1. DOMAIN mem.blocks \subseteq Nat
    BY <1>3
  <2>2. around # {}
    BY DEF At
  <2>3. around \subseteq Nat
    BY <2>1
  <2>4. \E b \in around : \A c \in around : b <= c
    <3> HIDE DEF around
    <3> QED BY <2>2, <2>3, Least
  <2>5. base = CHOOSE b \in around : \A c \in around : b <= c
    BY <2>2 DEF At
  <2> HIDE DEF around
  <2> QED BY <2>4, <2>5
<1>5. base \in DOMAIN mem.blocks /\ base \in Nat /\ address \in base .. base + size(base) - 1
  BY <1>3, <1>4
<1> DEFINE block == heap[mem.blocks[base].buffer]
<1>6. block = Freed \/ BufferOk(block)
  BY <1>1, <1>3, <1>5 DEF HeapTyped
<1>7. block # Freed
  <2> SUFFICES ASSUME block = Freed PROVE FALSE
    OBVIOUS
  <2>1. size(base) = 0
    BY DEF SizeOf
  <2> QED BY <1>5, <2>1
<1>8. PICK n \in Nat : block \in [0 .. n - 1 -> Bytes]
  BY <1>6, <1>7 DEF BufferOk
<1>9. size(base) = n
  <2>1. Cardinality(0 .. n - 1) = n
    BY <1>8, FS_Interval
  <2>2. DOMAIN block = 0 .. n - 1
    BY <1>8
  <2>3. size(base) = Cardinality(DOMAIN block)
    BY <1>7 DEF SizeOf
  <2> QED BY <2>1, <2>2, <2>3
<1> HIDE DEF block, size
<1>10. address \in Int /\ address - base \in 0 .. n - 1
  BY <1>5, <1>9
<1>11. address - base \in Nat
  BY <1>10
<1>12. Block(heap, mem, base) = block /\ SizeOf(heap, mem.blocks[base]) = size(base)
  BY DEF Block, block, size
<1> QED BY <1>5, <1>8, <1>9, <1>10, <1>11, <1>12

\* Where a variable is, its words lie in a block of bytes.
LEMMA FitsAt ==
  ASSUME FreedIsNoFunction, TypeInv, NEW var, var.type \in DataType,
         NEW base \in At(heap, mem, var.address), Inside(heap, mem, base, var)
  PROVE  \E n \in Nat :
           /\ SizeOf(heap, mem.blocks[base]) = n
           /\ Fits(mem.overlay, Block(heap, mem, base), n, var.address - base, var.type)
<1>1. PICK n \in Nat : /\ Block(heap, mem, base) \in [0 .. n - 1 -> Bytes]
                       /\ SizeOf(heap, mem.blocks[base]) = n
  BY AtIs
<1>2. var.address - base \in Nat
  BY AtIs
<1>3. mem.overlay \in Overlay
  BY SpaceIs DEF TypeInv, SpacesTyped
<1>4. Touched(mem.overlay, var.address - base, var.type.width) \subseteq 0 .. n - 1
  BY <1>1 DEF Inside
<1> QED BY <1>1, <1>2, <1>3, <1>4 DEF Fits

LEMMA AssignTypes ==
  ASSUME FreedIsNoFunction, TypeInv, NEW w \in Written, Assign(w.var, w.value)
  PROVE  TypeInv'
<1> DEFINE var == w.var
<1>1. var.type \in DataType /\ w.value \in Int
  BY MemoryAssumption
<1>2. PICK base \in At(heap, mem, var.address) :
        /\ Inside(heap, mem, base, var)
        /\ heap' = Write(heap, mem, base, var, w.value)
  BY DEF Assign
<1>3. UNCHANGED <<mem, clone, last, olds>>
  BY DEF Assign
<1> HIDE DEF var
<1>4. PICK n \in Nat :
        Fits(mem.overlay, Block(heap, mem, base), n, var.address - base, var.type)
  BY <1>1, <1>2, FitsAt
<1>5. PICK new :
        /\ Write(heap, mem, base, var, w.value)
             = [heap EXCEPT ![mem.blocks[base].buffer] = new]
        /\ WrittenAs(mem.overlay, Block(heap, mem, base), n, var.address - base,
                     var.type, w.value, new)
  BY <1>1, <1>4, WrittenIs
<1>6. HeapTyped(heap')
  <2>1. new \in [0 .. n - 1 -> Bytes]
    BY <1>5 DEF WrittenAs
  <2>2. heap' = [heap EXCEPT ![mem.blocks[base].buffer] = new]
    BY <1>2, <1>5
  <2> QED BY <2>1, <2>2 DEF HeapTyped, TypeInv, BufferOk
<1> QED BY <1>3, <1>6 DEF TypeInv, SpacesTyped

LEMMA ConfigureTypes ==
  ASSUME TypeInv, NEW core \in Cores, Configure(core)
  PROVE  TypeInv'
<1> DEFINE map == Maps[core]
           cleared == Release(heap, mem)
           null == {b \in DOMAIN map : map[b].buffer = NoBuffer}
           fresh == Fresh(cleared, null)
           F == {fresh[b] : b \in null}
           zeros == [c \in F |->
                      LET b == CHOOSE b \in null : fresh[b] = c
                      IN  [k \in 0 .. map[b].size - 1 |-> 0]]
           blocks == [b \in DOMAIN map |->
                        IF b \in null THEN [buffer |-> fresh[b], managed |-> TRUE]
                        ELSE [buffer |-> map[b].buffer, managed |-> FALSE]]
           overlay == IF OverlayOf[core] = NoOverlay THEN mem.overlay ELSE OverlayOf[core]
<1>1. /\ Room(cleared, null) /\ UNCHANGED <<clone, last, olds>>
      /\ heap' = Over(zeros, cleared)
      /\ mem' = [blocks |-> blocks, overlay |-> overlay]
  BY DEF Configure
<1>2. /\ fresh \in [null -> Free(cleared)]
      /\ \A b, c \in null : fresh[b] = fresh[c] => b = c
  BY <1>1, FreshIs
<1>3. HeapTyped(cleared)
  BY TypedRelease DEF TypeInv
<1>4. /\ DOMAIN map \subseteq Bases
      /\ \A b \in DOMAIN map : map[b].size \in Nat /\ map[b].buffer \in Regions \cup {NoBuffer}
  BY MemoryAssumption DEF Bases
<1>5. overlay \in Overlay
  <2>1. OverlayOf[core] \in Overlay \cup {NoOverlay}
    BY MemoryAssumption
  <2>2. mem.overlay \in Overlay
    BY SpaceIs DEF TypeInv, SpacesTyped
  <2> QED BY <2>1, <2>2
<1>6. 0 \in Bytes
  BY NumbersAre DEF Bytes
<1>7. ASSUME NEW c \in F PROVE BufferOk(zeros[c])
  <2> DEFINE b == CHOOSE b \in null : fresh[b] = c
  <2>1. b \in null
    OBVIOUS
  <2>2. zeros[c] = [k \in 0 .. map[b].size - 1 |-> 0]
    OBVIOUS
  <2> HIDE DEF b, zeros
  <2>3. map[b].size \in Nat
    BY <1>4, <2>1
  <2>4. zeros[c] \in [0 .. map[b].size - 1 -> Bytes]
    BY <1>6, <2>2
  <2> QED BY <2>3, <2>4 DEF BufferOk
<1>8. F \subseteq Pool
  BY <1>2 DEF Free
<1>9. HeapTyped(heap')
  <2>1. DOMAIN zeros = F
    OBVIOUS
  <2> HIDE DEF zeros, F, cleared
  <2> QED BY <1>1, <1>3, <1>7, <1>8, <2>1 DEF HeapTyped, Over
<1>10. mem' \in Space
  <2>1. blocks \in [DOMAIN map -> View]
    <3> SUFFICES ASSUME NEW b \in DOMAIN map
                 PROVE  (IF b \in null THEN [buffer |-> fresh[b], managed |-> TRUE]
                         ELSE [buffer |-> map[b].buffer, managed |-> FALSE]) \in View
      OBVIOUS
    <3>1. CASE b \in null
      BY <1>2, <3>1 DEF Free, View
    <3>2. CASE b \notin null
      BY <1>4, <3>2 DEF View
    <3> QED BY <3>1, <3>2
  <2> HIDE DEF blocks, overlay, map
  <2> QED BY <1>1, <1>4, <1>5, <2>1, MakesSpace
<1>11. ASSUME NoMirrors PROVE Apart(mem')
  <2> SUFFICES ASSUME NEW b \in DOMAIN map, NEW c \in DOMAIN map,
                      blocks[b].buffer = blocks[c].buffer
               PROVE  b = c
    <3>1. mem'.blocks = blocks /\ DOMAIN blocks = DOMAIN map
      BY <1>1
    <3> HIDE DEF blocks, map
    <3> QED BY <3>1 DEF Apart
  <2>1. \A d \in DOMAIN map : blocks[d].buffer = IF d \in null THEN fresh[d] ELSE map[d].buffer
    OBVIOUS
  <2>2. \A d \in null : fresh[d] \in Pool
    BY <1>2 DEF Free
  <2>3. \A d \in DOMAIN map \ null : map[d].buffer \in Regions /\ map[d].buffer # NoBuffer
    BY <1>4
  <2>4. (b \in null) <=> (c \in null)
    BY <2>1, <2>2, <2>3, PoolApart
  <2>5. CASE b \in null
    BY <1>2, <2>1, <2>4, <2>5
  <2>6. CASE b \notin null
    BY <1>11, <2>1, <2>3, <2>4, <2>6 DEF NoMirrors
  <2> QED BY <2>5, <2>6
<1> HIDE DEF blocks, overlay, zeros, map
<1> QED BY <1>1, <1>9, <1>10, <1>11 DEF TypeInv, SpacesTyped

LEMMA InitTypes ==
  ASSUME Init
  PROVE  TypeInv
<1>1. PICK image \in Images : heap = Over(image, [b \in Pool |-> Freed])
  BY DEF Init
<1>2. DOMAIN image = Regions /\ \A r \in Regions : BufferOk(image[r])
  <2>1. /\ DOMAIN image = Regions
        /\ \A r \in Regions : /\ IsFiniteSet(DOMAIN image[r])
                              /\ image[r] \in [0 .. Cardinality(DOMAIN image[r]) - 1 -> Bytes]
    BY MemoryAssumption
  <2>2. \A r \in Regions : Cardinality(DOMAIN image[r]) \in Nat
    BY <2>1, FS_CardinalityType
  <2> QED BY <2>1, <2>2 DEF BufferOk
<1>3. HeapTyped(heap)
  BY <1>1, <1>2 DEF HeapTyped, Over
<1>4. mem = NewSpace /\ clone = NewSpace /\ last = NewSpace /\ olds = <<>>
  BY DEF Init
<1>5. SpacesTyped
  BY <1>4, EmptySpace DEF SpacesTyped
<1>6. Apart(mem)
  BY <1>4 DEF Apart, NewSpace
<1> QED BY <1>3, <1>5, <1>6 DEF TypeInv

LEMMA NextTypes ==
  ASSUME FreedIsNoFunction, OwnInv, TypeInv, [Next]_vars
  PROVE  TypeInv'
<1>1. HeapTyped(heap) /\ SpacesTyped /\ (NoMirrors => Apart(mem))
  BY DEF TypeInv
<1>2. mem \in Space /\ clone \in Space /\ last \in Space /\ DOMAIN olds \subseteq Names
      /\ \A n \in DOMAIN olds : olds[n] \in Space
  BY <1>1 DEF SpacesTyped
<1>3. CASE CoreRuns
  <2>1. PICK image \in Images : heap' = Over(image, heap)
    BY <1>3 DEF CoreRuns
  <2>2. DOMAIN image = Regions /\ \A r \in Regions : BufferOk(image[r])
    <3>1. /\ DOMAIN image = Regions
          /\ \A r \in Regions : /\ IsFiniteSet(DOMAIN image[r])
                                /\ image[r] \in [0 .. Cardinality(DOMAIN image[r]) - 1 -> Bytes]
      BY MemoryAssumption
    <3>2. \A r \in Regions : Cardinality(DOMAIN image[r]) \in Nat
      BY <3>1, FS_CardinalityType
    <3> QED BY <3>1, <3>2 DEF BufferOk
  <2>3. HeapTyped(heap')
    BY <1>1, <2>1, <2>2 DEF HeapTyped, Over
  <2>4. UNCHANGED <<mem, clone, last, olds>>
    BY <1>3 DEF CoreRuns
  <2> QED BY <1>1, <2>3, <2>4 DEF TypeInv, SpacesTyped
<1>4. ASSUME NEW core \in Cores, Configure(core) PROVE TypeInv'
  BY <1>4, ConfigureTypes
<1>5. CASE UpdateRam
  <2> DEFINE E == [blocks |-> <<>>, overlay |-> NoOverlay]
             h == Release(Release(heap, last), Left(clone))
             t == Clone(h, E, mem)
  <2>1. /\ Room(h, DOMAIN mem.blocks) /\ heap' = t.heap /\ last' = clone
        /\ clone' = t.space /\ UNCHANGED <<mem, olds>>
    BY <1>5 DEF UpdateRam, Move, Left
  <2>2. HeapTyped(h)
    BY <1>1, TypedRelease
  <2>3. Release(h, E) = h
    <3>1. Owned(E) = {} /\ DOMAIN h = Regions \cup Pool
      BY <2>2 DEF Owned, HeapTyped
    <3>2. h = [x \in DOMAIN h |-> h[x]]
      BY DEF Release
    <3> HIDE DEF h, E
    <3> QED BY <3>1, <3>2 DEF Release
  <2> HIDE DEF h, E
  <2>4. HeapTyped(t.heap) /\ t.space \in Space
    BY <1>2, <2>1, <2>2, <2>3, TypedClone
  <2> QED BY <1>1, <1>2, <2>1, <2>4 DEF TypeInv, SpacesTyped
<1>6. ASSUME NEW n \in Names, NEW h, NEW s, HeapTyped(h), Room(Release(h, s), DOMAIN mem.blocks),
             heap' = Clone(h, s, mem).heap, olds' = Known(n, Clone(h, s, mem).space),
             UNCHANGED <<mem, clone, last>>
      PROVE  TypeInv'
  <2>1. HeapTyped(heap') /\ Clone(h, s, mem).space \in Space
    BY <1>2, <1>6, TypedClone
  <2>2. DOMAIN olds' \subseteq Names /\ \A m \in DOMAIN olds' : olds'[m] \in Space
    BY <1>2, <1>6, <2>1 DEF Known
  <2> QED BY <1>1, <1>2, <1>6, <2>1, <2>2 DEF TypeInv, SpacesTyped
<1>7. ASSUME NEW n \in Names, Search(n) PROVE TypeInv'
  BY <1>1, <1>6, <1>7 DEF Search
<1>8. ASSUME NEW n \in Names, DeltaSearch(n) PROVE TypeInv'
  <2> DEFINE known == IF n \in DOMAIN olds THEN [heap |-> heap, space |-> olds[n]]
                      ELSE Clone(heap, NewSpace, mem)
  <2>1. /\ Room(Release(heap, Old(n)), DOMAIN mem.blocks)
        /\ heap' = Clone(known.heap, known.space, mem).heap
        /\ olds' = Known(n, Clone(known.heap, known.space, mem).space)
        /\ UNCHANGED <<mem, clone, last>>
    BY <1>8 DEF DeltaSearch
  <2> HIDE DEF known
  <2>2. HeapTyped(known.heap) /\ Room(Release(known.heap, known.space), DOMAIN mem.blocks)
    <3>1. CASE n \in DOMAIN olds
      BY <1>1, <2>1, <3>1 DEF known, Old
    <3>2. CASE n \notin DOMAIN olds
      <4>1. /\ Owns(heap, Family) /\ DOMAIN Family = All /\ n \in Kept
            /\ Family[n] = NewSpace /\ Family["mem"] = mem
        BY <3>2, FamilyIs DEF OwnInv, Old
      <4>2. known = Clone(heap, NewSpace, mem) /\ Old(n) = NewSpace
        BY <3>2 DEF known, Old
      <4>3. known = Clone(heap, Family[n], Family["mem"])
            /\ Room(Release(heap, Family[n]), DOMAIN Family["mem"].blocks)
        BY <2>1, <4>1, <4>2
      <4>4. Room(Release(known.heap, known.space), DOMAIN Family["mem"].blocks)
        BY <4>1, <4>3, Cloned
      <4> QED BY <1>1, <1>2, <2>1, <4>1, <4>2, <4>4, TypedClone
    <3> QED BY <3>1, <3>2
  <2> QED BY <1>6, <2>1, <2>2
<1>9. ASSUME NEW w \in Written, Assign(w.var, w.value) PROVE TypeInv'
  BY <1>9, AssignTypes
<1>10. ASSUME NEW spaces, heap' = ReleaseAll(heap, spaces) PROVE HeapTyped(heap')
  BY <1>1, <1>10 DEF HeapTyped, ReleaseAll
<1>11. CASE Reset
  <2>1. /\ \E spaces : heap' = ReleaseAll(heap, spaces)
        /\ clone' = [clone EXCEPT !.blocks = <<>>] /\ last' = [last EXCEPT !.blocks = <<>>]
        /\ olds' = <<>> /\ UNCHANGED mem
    BY <1>11 DEF Reset
  <2>2. clone' \in Space /\ last' \in Space
    BY <1>2, <2>1, EmptySpace
  <2> QED BY <1>1, <1>2, <1>10, <2>1, <2>2 DEF TypeInv, SpacesTyped
<1>12. CASE Renew
  <2>1. /\ \E spaces : heap' = ReleaseAll(heap, spaces)
        /\ mem' = NewSpace /\ clone' = NewSpace /\ last' = NewSpace /\ olds' = <<>>
    BY <1>12 DEF Renew
  <2>2. SpacesTyped'
    BY <2>1, EmptySpace DEF SpacesTyped
  <2>3. Apart(mem')
    BY <2>1 DEF Apart, NewSpace
  <2> QED BY <1>10, <2>1, <2>2, <2>3 DEF TypeInv
<1>13. CASE UNCHANGED vars
  BY <1>13 DEF TypeInv, SpacesTyped, vars
<1> QED BY <1>3, <1>4, <1>5, <1>7, <1>8, <1>9, <1>11, <1>12, <1>13 DEF Next

LEMMA TypesAre ==
  ASSUME OwnInv, TypeInv
  PROVE  TypeOK
<1>1. HeapTyped(heap) /\ SpacesTyped
  BY DEF TypeInv
<1>2. ASSUME NEW b \in Regions \cup Pool
      PROVE  heap[b] = Freed \/ \A k \in DOMAIN heap[b] : heap[b][k] \in Bytes
  BY <1>1 DEF HeapTyped, BufferOk
<1> QED BY <1>1, <1>2 DEF TypeOK, SpacesTyped

-----------------------------------------------------------------------------
(***************************************************************************)
(* What the console sees of its memory.                                    *)
(***************************************************************************)
\* There is one first block around an address.
LEMMA AtOne ==
  ASSUME NEW h, NEW space, NEW address, NEW b \in At(h, space, address)
  PROVE  At(h, space, address) = {b}
<1> DEFINE around == {c \in DOMAIN space.blocks :
                        address \in c .. c + SizeOf(h, space.blocks[c]) - 1}
<1>1. At(h, space, address) =
        IF around = {} THEN {} ELSE {CHOOSE c \in around : \A d \in around : c <= d}
  BY DEF At
<1> HIDE DEF around
<1> QED BY <1>1

LEMMA SizeIs ==
  ASSUME TypeInv, NEW b \in DOMAIN mem.blocks
  PROVE  SizeOf(heap, mem.blocks[b]) \in Nat
<1> DEFINE block == heap[mem.blocks[b].buffer]
<1>1. block = Freed \/ BufferOk(block)
  <2>1. mem.blocks[b].buffer \in Regions \cup Pool
    BY SpaceIs DEF TypeInv, SpacesTyped
  <2> QED BY <2>1 DEF TypeInv, HeapTyped
<1>2. SizeOf(heap, mem.blocks[b]) = IF block = Freed THEN 0 ELSE Cardinality(DOMAIN block)
  BY DEF SizeOf
<1> HIDE DEF block
<1>3. ASSUME BufferOk(block) PROVE Cardinality(DOMAIN block) \in Nat
  <2>1. PICK n \in Nat : block \in [0 .. n - 1 -> Bytes]
    BY <1>3 DEF BufferOk
  <2>2. DOMAIN block = 0 .. n - 1 /\ IsFiniteSet(0 .. n - 1)
    BY <2>1, FS_Interval
  <2> QED BY <2>2, FS_CardinalityType
<1> QED BY <1>1, <1>2, <1>3

\* A later address of the block has no other block before it.
LEMMA AtLater ==
  ASSUME FreedIsNoFunction, TypeInv, NEW address, NEW base \in At(heap, mem, address),
         NEW a \in Int, a >= address, a - base < SizeOf(heap, mem.blocks[base])
  PROVE  At(heap, mem, a) = {base}
<1> DEFINE size(b) == SizeOf(heap, mem.blocks[b])
           around(x) == {b \in DOMAIN mem.blocks : x \in b .. b + size(b) - 1}
<1>1. /\ base \in DOMAIN mem.blocks /\ base \in Nat /\ address - base \in Nat
      /\ address \in Int /\ size(base) \in Nat
  BY AtIs
<1>2. DOMAIN mem.blocks \subseteq Nat
  BY SpaceIs, MemoryAssumption DEF TypeInv, SpacesTyped, Bases
<1>3. \A x : around(x) # {} => At(heap, mem, x) = {CHOOSE b \in around(x) : \A c \in around(x) : b <= c}
  BY DEF At
<1>4. base \in around(address) /\ \A c \in around(address) : base <= c
  <2>1. around(address) # {}
    BY DEF At
  <2>2. around(address) \subseteq Nat
    BY <1>2
  <2>3. \E b \in around(address) : \A c \in around(address) : b <= c
    <3> HIDE DEF around
    <3> QED BY <2>1, <2>2, Least
  <2>4. base = CHOOSE b \in around(address) : \A c \in around(address) : b <= c
    BY <1>3, <2>1
  <2> HIDE DEF around
  <2> QED BY <2>3, <2>4
<1> HIDE DEF size
<1>5. base \in around(a)
  BY <1>1 DEF size
<1>6. ASSUME NEW c \in around(a) PROVE base <= c
  <2>1. c \in Nat /\ c \in DOMAIN mem.blocks /\ a \in c .. c + size(c) - 1
    BY <1>2
  <2>3. size(c) \in Nat
    BY <2>1, SizeIs DEF size
  <2>2. CASE c < base
    <3>1. address \in c .. c + size(c) - 1
      BY <1>1, <2>1, <2>2, <2>3
    <3>2. c \in around(address)
      BY <2>1, <3>1
    <3> QED BY <1>4, <3>2
  <2> QED BY <1>1, <2>1, <2>2
<1>7. \A b \in around(a) : (\A c \in around(a) : b <= c) => b = base
  BY <1>1, <1>2, <1>5, <1>6
<1>8. (CHOOSE b \in around(a) : \A c \in around(a) : b <= c) = base
  <2> HIDE DEF around
  <2> QED BY <1>5, <1>6, <1>7
<1> QED BY <1>3, <1>5, <1>8

LEMMA SeenIs ==
  ASSUME NEW h, NEW space, NEW a, NEW base, At(h, space, a) = {base},
         base \in DOMAIN space.blocks, a \in base .. base + SizeOf(h, space.blocks[base]) - 1,
         space.overlay \in Overlay, a - base \in Nat,
         WordOf(space.overlay, a - base) \subseteq DOMAIN Block(h, space, base)
  PROVE  /\ a \in DOMAIN Seen(h, space)
         /\ Seen(h, space)[a] = SeenAt(space.overlay, Block(h, space, base), a - base)
<1> DEFINE addresses == UNION {b .. b + SizeOf(h, space.blocks[b]) - 1 : b \in DOMAIN space.blocks}
           whole(x) == \E b \in At(h, space, x) :
                         Touched(space.overlay, x - b, 1) \subseteq DOMAIN Block(h, space, b)
           k == a - base
<1>1. Touched(space.overlay, k, 1) = WordOf(space.overlay, k) /\ k \in WordOf(space.overlay, k)
  BY WordIs
<1>2. a \in addresses /\ whole(a)
  BY <1>1
<1>3. (CHOOSE b \in At(h, space, a) : TRUE) = base
  OBVIOUS
<1>4. Seen(h, space) = [x \in {x \in addresses : whole(x)} |->
                          ReadByte(h, space, CHOOSE b \in At(h, space, x) : TRUE, x)]
  BY DEF Seen
<1> HIDE DEF addresses, whole
<1>5. a \in DOMAIN Seen(h, space)
      /\ Seen(h, space)[a] = ReadByte(h, space, base, a)
  BY <1>2, <1>3, <1>4
<1>6. ReadByte(h, space, base, a) = Parse(space.overlay, Block(h, space, base), k, 1)[k]
  BY DEF ReadByte
<1>7. Parse(space.overlay, Block(h, space, base), k, 1)[k]
        = SeenAt(space.overlay, Block(h, space, base), k)
  <2>1. 1 \in Nat \ {0} /\ k \in Nat
    OBVIOUS
  <2> HIDE DEF k
  <2> QED BY <1>1, <2>1, ParseAt DEF SeenAt
<1> QED BY <1>5, <1>6, <1>7

\* The variables of the properties of numbers.
LEMMA VariableIs ==
  ASSUME FreedIsNoFunction, TypeInv, NEW v \in Variables
  PROVE  /\ v.type \in DataType /\ BaseOf(v) \in At(heap, mem, v.address)
         /\ \E n \in Nat :
              /\ SizeOf(heap, mem.blocks[BaseOf(v)]) = n
              /\ Fits(mem.overlay, Block(heap, mem, BaseOf(v)), n, v.address - BaseOf(v), v.type)
<1>1. v.type \in DataType
  BY MemoryAssumption DEF Variables
<1>2. PICK base \in At(heap, mem, v.address) : Inside(heap, mem, base, v)
  BY DEF Variables
<1>3. BaseOf(v) = base
  BY <1>2, AtOne DEF BaseOf
<1> QED BY <1>1, <1>2, <1>3, FitsAt

\* A number is what its type says of the bytes the console would read one by one,
\* and the two ways to read it agree.
LEMMA NumbersRead ==
  ASSUME FreedIsNoFunction, TypeInv
  PROVE  ReadsAsBytes
<1> SUFFICES ASSUME NEW v \in Variables,
                    NEW bytes, bytes = Cut(Seen(heap, mem), v.address, v.type.width)
             PROVE  /\ ReadConst(heap, mem, BaseOf(v), v) = Masked(Numeral(v.type, bytes), v.mask)
                    /\ ReadDatum(heap, mem, BaseOf(v), v) = Masked(Numeral(v.type, bytes), v.mask)
  BY DEF ReadsAsBytes
<1> DEFINE base == BaseOf(v)
           overlay == mem.overlay
           block == Block(heap, mem, base)
           offset == v.address - base
           w == v.type.width
<1>1. v.type \in DataType /\ base \in At(heap, mem, v.address)
  BY VariableIs
<1>2. PICK n \in Nat : /\ SizeOf(heap, mem.blocks[base]) = n
                       /\ Fits(overlay, block, n, offset, v.type)
  BY VariableIs
<1>3. base \in DOMAIN mem.blocks /\ base \in Nat /\ v.address \in Int /\ offset \in Nat
  BY <1>1, AtIs
<1>4. /\ w \in Nat \ {0} /\ overlay \in Overlay /\ DOMAIN block = 0 .. n - 1
      /\ Touched(overlay, offset, w) \subseteq 0 .. n - 1
  BY <1>2, FitsIs DEF Fits
<1>5. ASSUME NEW i \in 0 .. w - 1
      PROVE  /\ Seen(heap, mem)[v.address + i] = SeenAt(overlay, block, offset + i)
             /\ SeenAt(overlay, block, offset + i) \in Bytes
  <2> DEFINE a == v.address + i
  <2>1. offset + i \in Touched(overlay, offset, w)
    BY <1>2, FitsIs
  <2>2. /\ SeenAt(overlay, block, offset + i) \in Bytes /\ offset + i \in Nat
        /\ WordOf(overlay, offset + i) \subseteq Touched(overlay, offset, w)
    BY <1>2, <2>1, FitsIs
  <2>3. offset + i \in 0 .. n - 1 /\ a - base = offset + i /\ a \in Int /\ a >= v.address
    BY <1>3, <1>4, <2>1
  <2> HIDE DEF overlay, block, w, base, offset, a
  <2>4. At(heap, mem, a) = {base} /\ a \in base .. base + n - 1
    <3>1. a - base < n /\ a \in base .. base + n - 1
      BY <1>3, <2>3
    <3> QED BY <1>1, <1>2, <2>3, <3>1, AtLater
  <2>5. WordOf(overlay, a - base) \subseteq DOMAIN block
    BY <1>4, <2>2, <2>3
  <2>6. Seen(heap, mem)[a] = SeenAt(overlay, block, a - base)
    <3>1. a - base \in Nat /\ a \in base .. base + SizeOf(heap, mem.blocks[base]) - 1
      BY <1>2, <2>2, <2>3, <2>4
    <3>2. /\ mem.overlay \in Overlay /\ base \in DOMAIN mem.blocks
          /\ WordOf(mem.overlay, a - base) \subseteq DOMAIN Block(heap, mem, base)
      BY <1>3, <1>4, <2>5 DEF overlay, block
    <3>3. Seen(heap, mem)[a] = SeenAt(mem.overlay, Block(heap, mem, base), a - base)
      BY <2>4, <3>1, <3>2, SeenIs
    <3> QED BY <3>3 DEF overlay, block
  <2> QED BY <2>2, <2>3, <2>6 DEF a
<1>6. /\ bytes = [i \in 0 .. w - 1 |-> SeenAt(overlay, block, offset + i)]
      /\ \A i \in 0 .. w - 1 : bytes[i] \in Bytes
  BY <1>5 DEF Cut
<1>7. BothRead(heap, mem, base, v, Masked(Decode(v.type, bytes), v.mask))
  <2>1. Sees(mem.overlay, Block(heap, mem, base), offset, v.type, bytes)
    BY <1>6 DEF Sees
  <2>2. Fits(mem.overlay, Block(heap, mem, base), n, offset, v.type)
        /\ offset = v.address - base
    BY <1>2
  <2> HIDE DEF base, overlay, block, offset, w
  <2> QED BY <2>1, <2>2, ReadIs
<1>8. Numeral(v.type, bytes) = Decode(v.type, bytes)
  BY <1>1, <1>6, NumeralsAreSums
<1> QED BY <1>7, <1>8 DEF BothRead

\* The heap after a write to a variable: the buffer of its block, of n bytes,
\* becomes new.
Puts(v, value, n, new) ==
  LET base == BaseOf(v)
      offset == v.address - base
      written == Write(heap, mem, base, v, value)
  IN  /\ SizeOf(heap, mem.blocks[base]) = n
      /\ written = [heap EXCEPT ![mem.blocks[base].buffer] = new]
      /\ Fits(mem.overlay, Block(heap, mem, base), n, offset, v.type)
      /\ WrittenAs(mem.overlay, Block(heap, mem, base), n, offset, v.type, value, new)
      /\ Fits(mem.overlay, new, n, offset, v.type)
      /\ Block(written, mem, base) = new

LEMMA VariableWritten ==
  ASSUME FreedIsNoFunction, TypeInv, NEW v \in Variables, NEW value \in Values
  PROVE  \E n \in Nat : \E new : Puts(v, value, n, new)
<1> DEFINE base == BaseOf(v)
           overlay == mem.overlay
           block == Block(heap, mem, base)
           offset == v.address - base
<1>1. PICK n \in Nat : /\ SizeOf(heap, mem.blocks[base]) = n
                       /\ Fits(overlay, block, n, offset, v.type)
  BY VariableIs
<1>2. value \in Int
  BY MemoryAssumption
<1>3. PICK new :
        /\ Write(heap, mem, base, v, value) = [heap EXCEPT ![mem.blocks[base].buffer] = new]
        /\ WrittenAs(overlay, block, n, offset, v.type, value, new)
  BY <1>1, <1>2, WrittenIs
<1>4. Fits(overlay, new, n, offset, v.type)
  BY <1>1, <1>3 DEF Fits, WrittenAs
<1>5. mem.blocks[base].buffer \in DOMAIN heap
  <2>1. base \in DOMAIN mem.blocks
    BY VariableIs, AtIs
  <2> QED BY <2>1, SpaceIs DEF TypeInv, SpacesTyped, HeapTyped
<1>6. Block(Write(heap, mem, base, v, value), mem, base) = new
  BY <1>3, <1>5 DEF Block
<1> QED BY <1>1, <1>3, <1>4, <1>6 DEF Puts

\* A value that is written reads back, cut to the width of its type.
LEMMA NumbersWritten ==
  ASSUME FreedIsNoFunction, TypeInv
  PROVE  WriteReads
<1> SUFFICES ASSUME NEW v \in Variables, NEW value \in Values
             PROVE  ReadConst(Write(heap, mem, BaseOf(v), v, value), mem, BaseOf(v), v)
                      = Masked(Wrapped(v.type, value), v.mask)
  BY DEF WriteReads
<1> DEFINE base == BaseOf(v)
           overlay == mem.overlay
           offset == v.address - base
           w == v.type.width
           written == Write(heap, mem, base, v, value)
           bytes == Encode(v.type, value)
<1>0. PICK n \in Nat : \E new : Puts(v, value, n, new)
  BY VariableWritten
<1>1. PICK new :
        /\ Fits(overlay, new, n, offset, v.type) /\ Block(written, mem, base) = new
        /\ WrittenAs(overlay, Block(heap, mem, base), n, offset, v.type, value, new)
  BY <1>0 DEF Puts
<1>2. v.type \in DataType /\ value \in Int
  BY VariableIs, MemoryAssumption
<1>3. bytes = [i \in 0 .. w - 1 |-> bytes[i]]
  BY DEF Encode
<1>4. w \in Nat \ {0} /\ offset \in Nat
  BY <1>1, FitsIs DEF Fits
<1>5. ASSUME NEW i \in 0 .. w - 1 PROVE SeenAt(overlay, new, offset + i) = bytes[i]
  <2>1. offset + i \in Touched(overlay, offset, w)
    BY <1>1, FitsIs
  <2>2. \A k \in Touched(overlay, offset, w) :
          SeenAt(overlay, new, k) = IF k \in offset .. offset + w - 1
                                    THEN bytes[k - offset]
                                    ELSE SeenAt(overlay, Block(heap, mem, base), k)
    BY <1>1 DEF WrittenAs
  <2> DEFINE k == offset + i
  <2> HIDE DEF overlay, offset, w, bytes, base
  <2>3. k \in Touched(overlay, offset, w)
    BY <2>1
  <2>4. k \in offset .. offset + w - 1 /\ k - offset = i
    BY <1>4
  <2> HIDE DEF k
  <2>5. SeenAt(overlay, new, k) = bytes[k - offset]
    BY <2>2, <2>3, <2>4
  <2> QED BY <2>4, <2>5 DEF k
<1> HIDE DEF bytes
<1>6. bytes = [i \in 0 .. w - 1 |-> SeenAt(overlay, new, offset + i)]
  BY <1>3, <1>5
<1>7. BothRead(written, mem, base, v, Masked(Decode(v.type, bytes), v.mask))
  <2>1. Sees(mem.overlay, Block(written, mem, base), offset, v.type, bytes)
    BY <1>1, <1>6 DEF Sees
  <2>2. Fits(mem.overlay, Block(written, mem, base), n, offset, v.type)
        /\ offset = v.address - base
    BY <1>1
  <2> HIDE DEF base, written, overlay, offset, w
  <2> QED BY <2>1, <2>2, ReadIs
<1>8. Decode(v.type, bytes) = Wrapped(v.type, value)
  BY <1>2, EncodedReadsBack DEF bytes
<1> QED BY <1>7, <1>8 DEF BothRead

\* Writing a number changes no byte that the console would not read as a part of
\* it, when no region is mapped twice.
LEMMA NumbersApart ==
  ASSUME FreedIsNoFunction, NoMirrors, TypeInv
  PROVE  OnlyItsBytes
<1> SUFFICES ASSUME NEW v \in Variables, NEW value \in Values,
                    NEW a \in DOMAIN Seen(heap, mem),
                    a \notin v.address .. v.address + v.type.width - 1
             PROVE  Seen(Write(heap, mem, BaseOf(v), v, value), mem)[a] = Seen(heap, mem)[a]
  BY DEF OnlyItsBytes
<1> DEFINE base == BaseOf(v)
           overlay == mem.overlay
           block == Block(heap, mem, base)
           buffer == mem.blocks[base].buffer
           offset == v.address - base
           w == v.type.width
           written == Write(heap, mem, base, v, value)
<1>0. PICK n \in Nat : \E new : Puts(v, value, n, new)
  BY VariableWritten
<1>1. PICK new :
        /\ SizeOf(heap, mem.blocks[base]) = n
        /\ written = [heap EXCEPT ![buffer] = new]
        /\ Fits(overlay, block, n, offset, v.type)
        /\ WrittenAs(overlay, block, n, offset, v.type, value, new)
        /\ Block(written, mem, base) = new
  BY <1>0 DEF Puts
<1>2. /\ base \in DOMAIN mem.blocks /\ base \in Nat /\ v.address \in Int /\ offset \in Nat
      /\ base \in At(heap, mem, v.address)
  BY VariableIs, AtIs
<1>3. PICK near \in At(heap, mem, a) :
        Touched(overlay, a - near, 1) \subseteq DOMAIN Block(heap, mem, near)
  BY DEF Seen
<1>4. /\ near \in DOMAIN mem.blocks /\ near \in Nat /\ a - near \in Nat /\ a \in Int
      /\ \E m \in Nat : /\ SizeOf(heap, mem.blocks[near]) = m
                        /\ a - near \in 0 .. m - 1
  BY <1>3, AtIs
<1>5. At(heap, mem, a) = {near}
  BY <1>3, AtOne
<1>6. overlay \in Overlay /\ DOMAIN block = 0 .. n - 1 /\ DOMAIN new = 0 .. n - 1
      /\ block \in [0 .. n - 1 -> Bytes] /\ new \in [0 .. n - 1 -> Bytes]
      /\ w \in Nat \ {0}
  BY <1>1, FitsIs DEF Fits, WrittenAs
<1>7. Freed # block /\ Freed # new /\ v.type.width = w
  <2>1. Freed \notin [0 .. n - 1 -> Bytes]
    BY Zenon DEF FreedIsNoFunction
  <2> QED BY <1>6, <2>1
<1> HIDE DEF overlay, w, written
<1>8. \A b \in DOMAIN mem.blocks :
        /\ mem.blocks[b].buffer \in DOMAIN heap
        /\ mem.blocks[b].buffer = buffer => b = base
  <2>1. Apart(mem) /\ mem \in Space /\ DOMAIN heap = Regions \cup Pool
    BY DEF TypeInv, SpacesTyped, HeapTyped
  <2> QED BY <1>2, <2>1, SpaceIs DEF Apart
<1>9. \A b \in DOMAIN mem.blocks :
        Block(written, mem, b) = IF b = base THEN new ELSE Block(heap, mem, b)
  <2> SUFFICES ASSUME NEW b \in DOMAIN mem.blocks
               PROVE  Block(written, mem, b) = IF b = base THEN new ELSE Block(heap, mem, b)
    OBVIOUS
  <2>1. CASE b = base
    BY <1>1, <2>1
  <2>2. CASE b # base
    <3>1. mem.blocks[b].buffer # buffer
      BY <1>8, <2>2
    <3> HIDE DEF buffer
    <3> QED BY <1>1, <2>2, <3>1 DEF Block
  <2> QED BY <2>1, <2>2
<1>10. \A b \in DOMAIN mem.blocks : SizeOf(written, mem.blocks[b]) = SizeOf(heap, mem.blocks[b])
  <2> SUFFICES ASSUME NEW b \in DOMAIN mem.blocks
               PROVE  SizeOf(written, mem.blocks[b]) = SizeOf(heap, mem.blocks[b])
    OBVIOUS
  <2>1. written[mem.blocks[b].buffer] = IF b = base THEN new ELSE heap[mem.blocks[b].buffer]
    BY <1>9 DEF Block
  <2>2. CASE b = base
    <3>1. written[mem.blocks[base].buffer] = new /\ heap[mem.blocks[base].buffer] = block
      BY <2>1, <2>2 DEF Block
    <3> HIDE DEF block, base
    <3> QED BY <1>6, <1>7, <2>2, <3>1 DEF SizeOf
  <2>3. CASE b # base
    BY <2>1, <2>3 DEF SizeOf
  <2> QED BY <2>2, <2>3
<1>11. At(written, mem, a) = {near}
  <2>1. {b \in DOMAIN mem.blocks : a \in b .. b + SizeOf(written, mem.blocks[b]) - 1}
          = {b \in DOMAIN mem.blocks : a \in b .. b + SizeOf(heap, mem.blocks[b]) - 1}
    BY <1>10
  <2>2. At(written, mem, a) = At(heap, mem, a)
    BY <2>1 DEF At
  <2> QED BY <1>5, <2>2
<1> DEFINE k == a - near
<1>12. a \in near .. near + SizeOf(heap, mem.blocks[near]) - 1
  BY <1>4
<1>13. WordOf(overlay, k) \subseteq DOMAIN Block(heap, mem, near) /\ k \in WordOf(overlay, k)
       /\ WordOf(overlay, k) \subseteq Nat
  BY <1>3, <1>4, <1>6, WordIs
<1>14. Seen(heap, mem)[a] = SeenAt(overlay, Block(heap, mem, near), k)
  BY <1>4, <1>5, <1>6, <1>12, <1>13, SeenIs DEF overlay
<1>15. DOMAIN Block(written, mem, near) = DOMAIN Block(heap, mem, near)
  BY <1>4, <1>6, <1>9
<1>16. Seen(written, mem)[a] = SeenAt(overlay, Block(written, mem, near), k)
  <2>1. a \in near .. near + SizeOf(written, mem.blocks[near]) - 1
    BY <1>4, <1>10, <1>12
  <2>2. WordOf(overlay, k) \subseteq DOMAIN Block(written, mem, near)
    BY <1>13, <1>15
  <2> QED BY <1>4, <1>6, <1>11, <2>1, <2>2, SeenIs, SMTT(20) DEF overlay
<1>17. SeenAt(overlay, Block(written, mem, near), k) = SeenAt(overlay, Block(heap, mem, near), k)
  <2>1. CASE near # base
    BY <1>4, <1>9, <2>1
  <2>2. CASE near = base
    <3> DEFINE T == Touched(overlay, offset, w)
    <3>1. Block(written, mem, near) = new /\ Block(heap, mem, near) = block /\ k \in 0 .. n - 1
      BY <1>4, <1>6, <1>9, <1>13, <2>2
    <3>2. k \notin offset .. offset + w - 1
      <4>1. a \notin v.address .. v.address + w - 1
        BY <1>7
      <4> HIDE DEF base
      <4>2. k = a - base /\ offset = v.address - base
        BY <2>2
      <4> QED BY <1>2, <1>4, <1>6, <4>1, <4>2
    <3>3. CASE k \in T
      <4>1. SeenAt(overlay, new, k) = SeenAt(overlay, block, k)
        <5> HIDE DEF block, offset, k
        <5> QED BY <1>1, <3>2, <3>3 DEF WrittenAs, w
      <4> QED BY <3>1, <4>1
    <3>4. CASE k \notin T
      <4>1. ASSUME NEW m \in WordOf(overlay, k) PROVE new[m] = block[m]
        <5>1. m \in 0 .. n - 1 /\ m \in Nat
          BY <1>6, <1>13, <3>1
        <5>2. WordOf(overlay, m) = WordOf(overlay, k)
          BY <1>4, <1>6, WordIs
        <5>3. m \notin T
          <6>1. ASSUME m \in T PROVE WordOf(overlay, m) \subseteq T
            BY <1>1, <6>1, FitsIs DEF w
          <6> QED BY <1>13, <3>4, <5>2, <6>1
        <5> QED BY <1>1, <5>1, <5>3 DEF WrittenAs, w
      <4>2. k \in Nat
        BY <1>4
      <4>3. SeenAt(overlay, new, k) = SeenAt(overlay, block, k)
        BY <1>6, <4>1, <4>2, SameWord DEF SeenAt
      <4> QED BY <3>1, <4>3
    <3> QED BY <3>3, <3>4
  <2> QED BY <2>1, <2>2
<1> QED BY <1>14, <1>16, <1>17 DEF written

\* The types of the memories: no space is left without an overlay, and every
\* buffer that is not free holds bytes, whatever is written, cloned or moved
\* (GameData, AddressSpace, Datum::operator=).
THEOREM MemoriesTyped ==
  ASSUME FreedIsNoFunction
  PROVE  Spec => []TypeOK
<1>1. Init => OwnInv /\ TypeInv
  BY InitOwns, InitTypes
<1>2. (OwnInv /\ TypeInv) /\ [Next]_vars => (OwnInv /\ TypeInv)'
  BY NextOwns, NextTypes
<1>3. OwnInv /\ TypeInv => TypeOK
  BY TypesAre
<1> QED BY <1>1, <1>2, <1>3, PTL DEF Spec

\* A number is what its type says of the bytes the console would read one by one,
\* for every type, overlay and address (AddressSpace::operator[],
\* MemoryOverlay::parse, DataType::decode).
THEOREM NumbersReadAsBytes ==
  ASSUME FreedIsNoFunction
  PROVE  Spec => []ReadsAsBytes
<1>1. Init => OwnInv /\ TypeInv
  BY InitOwns, InitTypes
<1>2. (OwnInv /\ TypeInv) /\ [Next]_vars => (OwnInv /\ TypeInv)'
  BY NextOwns, NextTypes
<1>3. OwnInv /\ TypeInv => ReadsAsBytes
  BY NumbersRead
<1> QED BY <1>1, <1>2, <1>3, PTL DEF Spec

\* A value that is written reads back, cut to what its type can hold
\* (Datum::operator=, DataType::encode, MemoryOverlay::unparse).
THEOREM WrittenReadsBack ==
  ASSUME FreedIsNoFunction
  PROVE  Spec => []WriteReads
<1>1. Init => OwnInv /\ TypeInv
  BY InitOwns, InitTypes
<1>2. (OwnInv /\ TypeInv) /\ [Next]_vars => (OwnInv /\ TypeInv)'
  BY NextOwns, NextTypes
<1>3. OwnInv /\ TypeInv => WriteReads
  BY NumbersWritten
<1> QED BY <1>1, <1>2, <1>3, PTL DEF Spec

\* Writing a number changes no byte that the console would not read as a part of
\* it, when no core maps a region twice (MemoryOverlay::unparse).
THEOREM WritesKeepOtherBytes ==
  ASSUME FreedIsNoFunction, NoMirrors
  PROVE  Spec => []OnlyItsBytes
<1>1. Init => OwnInv /\ TypeInv
  BY InitOwns, InitTypes
<1>2. (OwnInv /\ TypeInv) /\ [Next]_vars => (OwnInv /\ TypeInv)'
  BY NextOwns, NextTypes
<1>3. OwnInv /\ TypeInv => OnlyItsBytes
  BY NumbersApart
<1> QED BY <1>1, <1>2, <1>3, PTL DEF Spec
=============================================================================
