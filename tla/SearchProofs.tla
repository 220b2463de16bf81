----------------------------- MODULE SearchProofs -----------------------------
(***************************************************************************)
(* Searches, for every memory, number and list of types: the results stay  *)
(* in their order, whatever is searched for; what a search shows fits      *)
(* everything that was said since it began; and what the user looks for    *)
(* is not lost.                                                            *)
(*                                                                         *)
(* The first two belong together: the walk of intersectCurrent finds what  *)
(* two lists have in common because both are in one order, and what it     *)
(* finds is in that order again (IntersectionIsExact).  The third needs    *)
(* that a number is found where it is, by its bytes (SearchFinds), and     *)
(* that the iterator of reduceOnTypes gets there (OwedReached).            *)
(***************************************************************************)
EXTENDS Search, ListProofs

(***************************************************************************)
(* The order of results.                                                   *)
(***************************************************************************)
Result ==
  [address : Int, mult : Int, div : Int, bias : Int, type : ToSet(Types)]

Ascends(s) == \A i, j \in DOMAIN s : i < j => Before(s[i], s[j])
Sorted(s) == s \in Seq(Result) /\ Ascends(s)

LEMMA LessIs ==
  ASSUME NEW r, NEW s
  PROVE  Less(r, s) <=>
           \/ r.address < s.address
           \/ r.address = s.address /\ r.mult < s.mult
           \/ r.address = s.address /\ r.mult = s.mult /\ r.div < s.div
           \/ /\ r.address = s.address /\ r.mult = s.mult /\ r.div = s.div
              /\ r.bias < s.bias
<1> DEFINE key(x) == <<x.address, x.mult, x.div, x.bias>>
<1>1. /\ key(r)[1] = r.address /\ key(r)[2] = r.mult
      /\ key(r)[3] = r.div /\ key(r)[4] = r.bias
      /\ key(s)[1] = s.address /\ key(s)[2] = s.mult
      /\ key(s)[3] = s.div /\ key(s)[4] = s.bias
  OBVIOUS
<1>2. Less(r, s) <=> \E i \in 1 .. 4 : /\ key(r)[i] < key(s)[i]
                                       /\ \A j \in 1 .. i - 1 : key(r)[j] = key(s)[j]
  BY DEF Less
<1> HIDE DEF key
<1>3. \A i : i \in 1 .. 4 <=> i = 1 \/ i = 2 \/ i = 3 \/ i = 4
  OBVIOUS
<1>4. /\ \A j : j \notin 1 .. 1 - 1
      /\ \A j : j \in 1 .. 2 - 1 <=> j = 1
      /\ \A j : j \in 1 .. 3 - 1 <=> j = 1 \/ j = 2
      /\ \A j : j \in 1 .. 4 - 1 <=> j = 1 \/ j = 2 \/ j = 3
  OBVIOUS
<1>5. Less(r, s) <=>
        \/ key(r)[1] < key(s)[1] /\ \A j \in 1 .. 1 - 1 : key(r)[j] = key(s)[j]
        \/ key(r)[2] < key(s)[2] /\ \A j \in 1 .. 2 - 1 : key(r)[j] = key(s)[j]
        \/ key(r)[3] < key(s)[3] /\ \A j \in 1 .. 3 - 1 : key(r)[j] = key(s)[j]
        \/ key(r)[4] < key(s)[4] /\ \A j \in 1 .. 4 - 1 : key(r)[j] = key(s)[j]
  BY <1>2, <1>3, Zenon
<1>6. /\ \A j \in 1 .. 1 - 1 : key(r)[j] = key(s)[j]
      /\ (\A j \in 1 .. 2 - 1 : key(r)[j] = key(s)[j]) <=> key(r)[1] = key(s)[1]
      /\ (\A j \in 1 .. 3 - 1 : key(r)[j] = key(s)[j])
           <=> key(r)[1] = key(s)[1] /\ key(r)[2] = key(s)[2]
      /\ (\A j \in 1 .. 4 - 1 : key(r)[j] = key(s)[j])
           <=> /\ key(r)[1] = key(s)[1] /\ key(r)[2] = key(s)[2]
               /\ key(r)[3] = key(s)[3]
  BY <1>4
<1> QED BY <1>1, <1>5, <1>6

LEMMA UntypedIs ==
  ASSUME NEW r, NEW s
  PROVE  Untyped(r) = Untyped(s) <=>
           /\ r.address = s.address /\ r.mult = s.mult
           /\ r.div = s.div /\ r.bias = s.bias
  BY DEF Untyped, At

\* Before is a strict total order on results.
LEMMA BeforeIs ==
  ASSUME NEW r \in Result, NEW s \in Result
  PROVE  /\ ~Before(r, r)
         /\ r # s => Before(r, s) \/ Before(s, r)
         /\ \A q \in Result : Before(q, r) /\ Before(r, s) => Before(q, s)
<1>1. Types \in Seq([width : Nat \ {0}, big : BOOLEAN, signed : BOOLEAN])
  BY SearchAssumption
<1>2. DOMAIN Types = 1 .. Len(Types) /\ Len(Types) \in Nat
  BY <1>1
<1>3. \A i, j \in DOMAIN Types : Types[i] = Types[j] => i = j
  BY SearchAssumption
<1> DEFINE Earlier(a, b) ==
             \E i, j \in DOMAIN Types : i < j /\ Types[i] = a /\ Types[j] = b
<1>4. \A a : ~Earlier(a, a)
  BY <1>2, <1>3
<1>5. \A a, b, c : Earlier(a, b) /\ Earlier(b, c) => Earlier(a, c)
  BY <1>2, <1>3
<1>6. \A a, b \in ToSet(Types) : a # b => Earlier(a, b) \/ Earlier(b, a)
  <2> SUFFICES ASSUME NEW a \in ToSet(Types), NEW b \in ToSet(Types), a # b
               PROVE  Earlier(a, b) \/ Earlier(b, a)
    OBVIOUS
  <2>1. PICK i \in DOMAIN Types : Types[i] = a
    BY DEF ToSet
  <2>2. PICK j \in DOMAIN Types : Types[j] = b
    BY DEF ToSet
  <2>3. i < j \/ j < i
    BY <1>2, <2>1, <2>2
  <2> QED BY <2>1, <2>2, <2>3
<1>7. \A x, y : Before(x, y) <=>
                  Less(x, y) \/ (Untyped(x) = Untyped(y) /\ Earlier(x.type, y.type))
  BY DEF Before
<1>8. \A x \in Result : /\ x.address \in Int /\ x.mult \in Int /\ x.div \in Int
                        /\ x.bias \in Int /\ x.type \in ToSet(Types)
  BY DEF Result
<1>9. \A x, y \in Result : Untyped(x) = Untyped(y) /\ x.type = y.type => x = y
  BY UntypedIs DEF Result
<1> HIDE DEF Earlier
<1>10. ~Before(r, r)
  BY <1>4, <1>7, <1>8, LessIs
<1>11. r # s => Before(r, s) \/ Before(s, r)
  <2>1. Untyped(r) # Untyped(s) => Less(r, s) \/ Less(s, r)
    BY <1>8, LessIs, UntypedIs
  <2>2. Untyped(r) = Untyped(s) /\ r # s
          => Earlier(r.type, s.type) \/ Earlier(s.type, r.type)
    BY <1>6, <1>8, <1>9
  <2> QED BY <1>7, <2>1, <2>2
<1>12. ASSUME NEW q \in Result, Before(q, r), Before(r, s)
       PROVE  Before(q, s)
  <2>1. CASE Less(q, r) /\ Less(r, s)
    <3>1. Less(q, s)
      BY <1>8, <2>1, LessIs
    <3> QED BY <1>7, <3>1
  <2>2. CASE Less(q, r) /\ Untyped(r) = Untyped(s)
    <3>1. Less(q, s)
      BY <1>8, <2>2, LessIs, UntypedIs
    <3> QED BY <1>7, <3>1
  <2>3. CASE Untyped(q) = Untyped(r) /\ Less(r, s)
    <3>1. Less(q, s)
      BY <1>8, <2>3, LessIs, UntypedIs
    <3> QED BY <1>7, <3>1
  <2>4. CASE /\ Untyped(q) = Untyped(r) /\ Earlier(q.type, r.type)
             /\ Untyped(r) = Untyped(s) /\ Earlier(r.type, s.type)
    <3>1. Untyped(q) = Untyped(s) /\ Earlier(q.type, s.type)
      BY <1>5, <2>4
    <3> QED BY <1>7, <3>1
  <2> QED BY <1>7, <1>12, <2>1, <2>2, <2>3, <2>4
<1> QED BY <1>10, <1>11, <1>12

\* What stands before, is not less the other way round.
LEMMA BeforeNotLess ==
  ASSUME NEW r \in Result, NEW s \in Result, Before(r, s)
  PROVE  ~Less(s, r)
<1>1. ~Before(r, r)
  BY BeforeIs
<1>2. ~Before(s, r)
  BY <1>1, BeforeIs
<1> QED BY <1>2 DEF Before

LEMMA BeforeAddress ==
  ASSUME NEW r \in Result, NEW s \in Result, Before(r, s)
  PROVE  r.address <= s.address /\ r # s
<1>1. r # s
  BY BeforeIs
<1>2. r.address \in Int /\ s.address \in Int
  BY DEF Result
<1>3. Less(r, s) \/ Untyped(r) = Untyped(s)
  BY DEF Before
<1> QED BY <1>1, <1>2, <1>3, LessIs, UntypedIs

\* Any finite set of results can be put in order.
LEMMA InOrderIs ==
  ASSUME NEW results \in SUBSET Result, IsFiniteSet(results)
  PROVE  Sorted(InOrder(results)) /\ ToSet(InOrder(results)) = results
<1> DEFINE below == [r \in results |-> {q \in results : Before(q, r)}]
           n == Cardinality(results)
           s == InOrder(results)
<1>1. DOMAIN below = results /\ s = Listed(below)
  BY DEF InOrder
<1>2. \A x, y \in results : x \in below[y] <=> Before(x, y)
  OBVIOUS
<1>3. \A x \in results : below[x] \subseteq results
  OBVIOUS
<1> HIDE DEF below
<1>4. Chain(below)
  <2>1. \A x \in results : below[x] \subseteq results \ {x}
    BY <1>2, <1>3, BeforeIs
  <2>2. \A x, y \in results : x # y => x \in below[y] \/ y \in below[x]
    BY <1>2, BeforeIs
  <2>3. \A x, y \in results : x \in below[y] => below[x] \subseteq below[y]
    BY <1>2, <1>3, BeforeIs
  <2> QED BY <1>1, <2>1, <2>2, <2>3 DEF Chain
<1>5. /\ s \in [1 .. n -> results] /\ n \in Nat
      /\ \A x \in results : \E i \in 1 .. n : s[i] = x
      /\ \A i, j \in 1 .. n : i < j => s[i] \in below[s[j]]
  BY <1>1, <1>4, ListedIs
<1> HIDE DEF s, n
<1>6. s \in Seq(Result) /\ DOMAIN s = 1 .. n
  BY <1>5
<1>7. \A i, j \in 1 .. n : i < j => Before(s[i], s[j])
  BY <1>2, <1>5
<1>8. ToSet(s) = results
  BY <1>5, <1>6 DEF ToSet
<1> QED BY <1>6, <1>7, <1>8 DEF Sorted, Ascends, s

\* What is kept of a list in order is in order.
LEMMA KeptIs ==
  ASSUME NEW s, Sorted(s), NEW positions \in SUBSET DOMAIN s
  PROVE  /\ Sorted(Kept(s, positions))
         /\ ToSet(Kept(s, positions)) = {s[i] : i \in positions}
<1> DEFINE below == [i \in positions |-> {j \in positions : j < i}]
           at == Listed(below)
           n == Cardinality(positions)
           kept == Kept(s, positions)
<1>1. DOMAIN s = 1 .. Len(s) /\ Len(s) \in Nat /\ \A i \in DOMAIN s : s[i] \in Result
  BY DEF Sorted
<1>2. kept = [k \in DOMAIN at |-> s[at[k]]]
  BY DEF Kept
<1>3. DOMAIN below = positions
  OBVIOUS
<1>4. \A i, j \in positions : i \in below[j] <=> i < j
  OBVIOUS
<1>5. \A i \in positions : below[i] \subseteq positions
  OBVIOUS
<1> HIDE DEF below
<1>6. Chain(below)
  <2>1. \A i \in positions : i \in Int
    BY <1>1
  <2>2. IsFiniteSet(positions)
    <3>1. IsFiniteSet(1 .. Len(s))
      BY <1>1, FS_Interval
    <3> QED BY <1>1, <3>1, FS_Subset
  <2>3. \A i \in positions : below[i] \subseteq positions \ {i}
    BY <1>4, <1>5, <2>1
  <2>4. \A i, j \in positions : i # j => i \in below[j] \/ j \in below[i]
    BY <1>4, <2>1
  <2>5. \A i, j \in positions : i \in below[j] => below[i] \subseteq below[j]
    BY <1>4, <1>5, <2>1
  <2> QED BY <1>3, <2>2, <2>3, <2>4, <2>5 DEF Chain
<1>7. /\ at \in [1 .. n -> positions] /\ n \in Nat
      /\ \A i \in positions : \E k \in 1 .. n : at[k] = i
      /\ \A k, l \in 1 .. n : k < l => at[k] \in below[at[l]]
  BY <1>3, <1>6, ListedIs
<1> HIDE DEF at, n, kept
<1>8. DOMAIN kept = 1 .. n /\ \A k \in 1 .. n : kept[k] = s[at[k]]
  BY <1>2, <1>7
<1>9. kept \in Seq(Result)
  <2>1. \A k \in 1 .. n : kept[k] \in Result
    BY <1>1, <1>7, <1>8
  <2>2. kept = [k \in 1 .. n |-> kept[k]]
    BY <1>2, <1>7, <1>8
  <2> QED BY <1>7, <2>1, <2>2
<1>10. \A k, l \in 1 .. n : k < l => Before(kept[k], kept[l])
  BY <1>4, <1>7, <1>8 DEF Sorted, Ascends
<1>11. ToSet(kept) = {s[i] : i \in positions}
  BY <1>7, <1>8 DEF ToSet
<1> QED BY <1>8, <1>9, <1>10, <1>11 DEF Sorted, Ascends, kept
-----------------------------------------------------------------------------
(***************************************************************************)
(* intersectCurrent.                                                       *)
(***************************************************************************)
LEMMA PassedIs ==
  ASSUME NEW current, NEW results, Len(results) \in Nat
  PROVE  LET passed == Passed(current, results)
         IN  /\ passed[0] = {}
             /\ \A j \in 1 .. Len(results) :
                  passed[j] = {p \in DOMAIN current :
                    \A q \in (1 .. p) \ passed[j - 1] : Less(current[q], results[j])}
<1> DEFINE n == Len(results)
           W == SUBSET DOMAIN current
           Later(j, behind) == {p \in DOMAIN current :
             \A q \in (1 .. p) \ behind : Less(current[q], results[j])}
           step == [j \in 1 .. n |-> [behind \in W |-> Later(j, behind)]]
           Solves(g) == g = [j \in 0 .. n |-> IF j = 0 THEN {} ELSE Later(j, g[j - 1])]
           passed == Passed(current, results)
<1>1. step \in [1 .. n -> [W -> W]] /\ {} \in W
  OBVIOUS
<1>2. \A j \in 1 .. n : \A behind \in W : step[j][behind] = Later(j, behind)
  OBVIOUS
<1>3. passed = CHOOSE g : Solves(g)
  BY DEF Passed
<1> HIDE DEF step, W, Later
<1>4. PICK g : Walk(n, W, {}, step, g)
  BY <1>1, WalkExists
<1>5. Solves(g)
  <2> USE DEF Walk
  <2>1. \A j \in 0 .. n : g[j] = IF j = 0 THEN {} ELSE Later(j, g[j - 1])
    <3> SUFFICES ASSUME NEW j \in 0 .. n
                 PROVE  g[j] = IF j = 0 THEN {} ELSE Later(j, g[j - 1])
      OBVIOUS
    <3>1. CASE j = 0
      BY <1>4, <3>1
    <3>2. CASE j # 0
      <4>1. j \in 1 .. n /\ j - 1 \in 0 .. n
        BY <3>2
      <4> QED BY <1>2, <1>4, <3>2, <4>1
    <3> QED BY <3>1, <3>2
  <2>2. g = [j \in 0 .. n |-> g[j]]
    BY <1>4
  <2> QED BY <2>1, <2>2
<1>6. Solves(passed)
  <2> HIDE DEF Solves
  <2> QED BY <1>3, <1>5
<1> HIDE DEF passed
<1>7. passed[0] = {}
  BY <1>6
<1>8. \A j \in 1 .. n : passed[j] = Later(j, passed[j - 1])
  <2>1. \A j \in 0 .. n : passed[j] = IF j = 0 THEN {} ELSE Later(j, passed[j - 1])
    BY <1>6
  <2>2. \A j \in 1 .. n : j \in 0 .. n /\ j # 0
    OBVIOUS
  <2> QED BY <2>1, <2>2
<1> QED BY <1>7, <1>8 DEF Later, passed

\* What the walk has left behind is less than the result it is at.
LEMMA PassedLess ==
  ASSUME NEW current, Sorted(current), NEW results, Sorted(results)
  PROVE  \A j \in 1 .. Len(results) : \A p \in Passed(current, results)[j] :
           p \in DOMAIN current /\ Less(current[p], results[j])
<1> DEFINE n == Len(results)
           passed == Passed(current, results)
           Behind(j) == \A p \in passed[j] :
             j \in 1 .. n /\ p \in DOMAIN current /\ Less(current[p], results[j])
           S == {j \in 0 .. n : Behind(j)}
<1>1. /\ n \in Nat /\ DOMAIN results = 1 .. n
      /\ \A j \in 1 .. n : results[j] \in Result
      /\ \A p \in DOMAIN current : current[p] \in Result
      /\ \A p \in DOMAIN current : p \in 1 .. p /\ p \in Nat
  BY DEF Sorted
<1>2. /\ passed[0] = {}
      /\ \A j \in 1 .. n :
           passed[j] = {p \in DOMAIN current :
             \A q \in (1 .. p) \ passed[j - 1] : Less(current[q], results[j])}
  BY <1>1, PassedIs
<1> HIDE DEF passed
<1>3. 0 \in S
  BY <1>1, <1>2
<1>4. \A j \in 1 .. n : j - 1 \in S => j \in S
  <2> SUFFICES ASSUME NEW j \in 1 .. n, j - 1 \in S, NEW p \in passed[j]
               PROVE  p \in DOMAIN current /\ Less(current[p], results[j])
    OBVIOUS
  <2>1. /\ p \in DOMAIN current
        /\ \A q \in (1 .. p) \ passed[j - 1] : Less(current[q], results[j])
    BY <1>2
  <2>2. CASE p \notin passed[j - 1]
    BY <1>1, <2>1, <2>2
  <2>3. CASE p \in passed[j - 1]
    <3>1. j - 1 \in 1 .. n /\ Less(current[p], results[j - 1])
      BY <2>3
    <3>2. Before(current[p], results[j - 1])
      BY <3>1 DEF Before
    <3>3. Before(results[j - 1], results[j])
      BY <1>1, <3>1 DEF Sorted, Ascends
    <3>4. ~Less(results[j], results[j - 1])
      BY <1>1, <3>1, <3>3, BeforeNotLess
    <3>5. /\ current[p] \in Result /\ results[j - 1] \in Result
          /\ results[j] \in Result
      BY <1>1, <2>1, <3>1
    <3>6. Less(current[p], results[j])
      BY <3>1, <3>4, <3>5, LessIs, SMTT(20) DEF Result
    <3> QED BY <2>1, <3>6
  <2> QED BY <2>2, <2>3
<1> HIDE DEF S
<1>5. 0 .. n \subseteq S
  BY <1>1, <1>3, <1>4, UpTo
<1> QED BY <1>5 DEF S, passed

\* The walk finds all that two lists in order have in common and nothing else,
\* and the outcome is in order again (intersectCurrent).
THEOREM IntersectionIsExact ==
  ASSUME NEW current, Sorted(current), NEW results, Sorted(results)
  PROVE  LET common == IntersectCurrent(current, results)
         IN  /\ Sorted(common)
             /\ ToSet(common) = ToSet(current) \cap ToSet(results)
<1> DEFINE passed == Passed(current, results)
           Ahead(j) == DOMAIN current \ passed[j]
           Match(j) == \E q \in Ahead(j) :
             /\ current[q] = results[j]
             /\ \A p \in Ahead(j) : p <= q => current[p].address = results[j].address
           matches == {j \in DOMAIN results : Match(j)}
           common == IntersectCurrent(current, results)
<1>1. common = Kept(results, matches)
  BY DEF IntersectCurrent
<1>2. /\ DOMAIN results = 1 .. Len(results) /\ DOMAIN current = 1 .. Len(current)
      /\ Len(current) \in Nat
      /\ \A j \in DOMAIN results : results[j] \in Result
      /\ \A p \in DOMAIN current : current[p] \in Result
  BY DEF Sorted
<1>3. \A j \in DOMAIN results : \A p \in passed[j] :
        p \in DOMAIN current /\ Less(current[p], results[j])
  BY <1>2, PassedLess
<1>4. \A j \in 1 .. Len(results) :
        passed[j] = {p \in DOMAIN current :
          \A q \in (1 .. p) \ passed[j - 1] : Less(current[q], results[j])}
  <2>1. Len(results) \in Nat
    BY DEF Sorted
  <2> QED BY <2>1, PassedIs
<1> HIDE DEF passed
<1>5. \A j \in DOMAIN results : results[j] \in ToSet(current) => Match(j)
  <2> SUFFICES ASSUME NEW j \in DOMAIN results, results[j] \in ToSet(current)
               PROVE  Match(j)
    OBVIOUS
  <2>1. PICK q \in DOMAIN current : current[q] = results[j]
    BY DEF ToSet
  <2>2. \A r \in Result : ~Less(r, r)
    BY BeforeIs DEF Before
  <2>3. q \in Ahead(j)
    BY <1>2, <1>3, <2>1, <2>2
  <2>4. ASSUME NEW p \in Ahead(j), p <= q
        PROVE  current[p].address = results[j].address
    <3>1. p \in DOMAIN current /\ current[p] \in Result
      BY <1>2
    <3>2. CASE p = q
      BY <2>1, <3>2
    <3>3. CASE p # q
      <4>1. \A l \in 1 .. p : l \in DOMAIN current
        BY <1>2, <3>1
      <4>2. PICK l \in (1 .. p) \ passed[j - 1] : ~Less(current[l], results[j])
        <5>1. p \notin passed[j] /\ j \in 1 .. Len(results)
          BY <1>2
        <5> QED BY <1>4, <3>1, <5>1
      <4>3. current[l] \in Result /\ results[j] \in Result
        BY <1>2, <4>1
      <4>4. l < q /\ (l = p \/ l < p) /\ p < q
        BY <1>2, <2>4, <3>1, <3>3
      <4>5. Before(current[p], current[q])
        BY <3>1, <4>4 DEF Sorted, Ascends
      <4>6. current[p].address <= results[j].address
        BY <2>1, <3>1, <4>3, <4>5, BeforeAddress
      <4>7. current[l].address <= current[p].address
        <5>1. CASE l = p
          BY <4>3, <5>1 DEF Result
        <5>2. CASE l < p
          <6>1. Before(current[l], current[p])
            BY <3>1, <4>1, <5>2 DEF Sorted, Ascends
          <6> QED BY <3>1, <4>3, <6>1, BeforeAddress
        <5> QED BY <4>4, <5>1, <5>2
      <4>8. ~(current[l].address < results[j].address)
        BY <4>2, LessIs
      <4>9. /\ current[l].address \in Int /\ current[p].address \in Int
            /\ results[j].address \in Int
        BY <3>1, <4>3 DEF Result
      <4> QED BY <4>6, <4>7, <4>8, <4>9
    <3> QED BY <3>2, <3>3
  <2> QED BY <2>1, <2>3, <2>4
<1>6. \A j \in DOMAIN results : Match(j) => results[j] \in ToSet(current)
  BY DEF ToSet
<1> HIDE DEF Match
<1>7. Sorted(common) /\ ToSet(common) = {results[j] : j \in matches}
  BY <1>1, KeptIs
<1>8. {results[j] : j \in matches} = ToSet(current) \cap ToSet(results)
  BY <1>5, <1>6 DEF ToSet
<1> QED BY <1>7, <1>8
-----------------------------------------------------------------------------
(***************************************************************************)
(* What there is to find.                                                  *)
(***************************************************************************)
LEMMA BlocksAre ==
  /\ DOMAIN Blocks = 1 .. Len(Blocks) /\ Len(Blocks) \in Nat
  /\ \A k \in DOMAIN Blocks : Blocks[k].base \in Nat /\ Blocks[k].size \in Nat
<1> DEFINE R == [base : Nat, size : Nat]
<1>1. Blocks \in Seq(R)
  BY SearchAssumption
<1> HIDE DEF R
<1>2. /\ DOMAIN Blocks = 1 .. Len(Blocks) /\ Len(Blocks) \in Nat
      /\ \A k \in DOMAIN Blocks : Blocks[k] \in R
  BY <1>1
<1>3. \A block \in R : block.base \in Nat /\ block.size \in Nat
  BY DEF R
<1> QED BY <1>2, <1>3

LEMMA TypesAre ==
  /\ IsFiniteSet(ToSet(Types))
  /\ \A type \in ToSet(Types) : type.width \in Nat \ {0}
<1>1. Types \in Seq([width : Nat \ {0}, big : BOOLEAN, signed : BOOLEAN])
  BY SearchAssumption
<1>2. DOMAIN Types = 1 .. Len(Types) /\ Len(Types) \in Nat
  BY <1>1
<1>3. Types \in Surjection(DOMAIN Types, ToSet(Types))
  <2>1. Types = [i \in DOMAIN Types |-> Types[i]]
    BY <1>1
  <2>2. Types \in [DOMAIN Types -> ToSet(Types)]
    BY <2>1 DEF ToSet
  <2>3. \A t \in ToSet(Types) : \E i \in DOMAIN Types : Types[i] = t
    BY DEF ToSet
  <2> QED BY <2>2, <2>3 DEF Surjection
<1>4. IsFiniteSet(DOMAIN Types)
  BY <1>2, FS_Interval
<1>5. IsFiniteSet(ToSet(Types))
  BY <1>3, <1>4, FS_Surjection
<1>6. \A i \in DOMAIN Types :
        Types[i] \in [width : Nat \ {0}, big : BOOLEAN, signed : BOOLEAN]
  <2> DEFINE R == [width : Nat \ {0}, big : BOOLEAN, signed : BOOLEAN]
  <2>1. Types \in Seq(R)
    BY <1>1
  <2> HIDE DEF R
  <2>2. \A i \in DOMAIN Types : Types[i] \in R
    BY <2>1
  <2> QED BY <2>2 DEF R
<1>7. \A type \in ToSet(Types) : type.width \in Nat \ {0}
  BY <1>6 DEF ToSet
<1> QED BY <1>5, <1>7

LEMMA AddressesAre == Addresses \subseteq Nat /\ IsFiniteSet(Addresses)
<1> DEFINE within == [k \in DOMAIN Blocks |-> Within(Blocks[k])]
           parts == {Within(Blocks[k]) : k \in DOMAIN Blocks}
<1>1. \A k \in DOMAIN Blocks :
        Within(Blocks[k]) \subseteq Nat /\ IsFiniteSet(Within(Blocks[k]))
  <2> SUFFICES ASSUME NEW k \in DOMAIN Blocks
               PROVE  Within(Blocks[k]) \subseteq Nat /\ IsFiniteSet(Within(Blocks[k]))
    OBVIOUS
  <2>1. /\ Blocks[k].base \in Int /\ 0 <= Blocks[k].base
        /\ Blocks[k].base + Blocks[k].size - 1 \in Int
    BY BlocksAre
  <2>2. Within(Blocks[k]) = Blocks[k].base .. Blocks[k].base + Blocks[k].size - 1
    BY DEF Within
  <2>3. IsFiniteSet(Within(Blocks[k]))
    BY <2>1, <2>2, FS_Interval
  <2>4. Within(Blocks[k]) \subseteq Nat
    BY <2>1, <2>2
  <2> QED BY <2>3, <2>4
<1>2. within \in Surjection(DOMAIN Blocks, parts)
  BY DEF Surjection
<1>3. IsFiniteSet(DOMAIN Blocks)
  BY BlocksAre, FS_Interval
<1>4. IsFiniteSet(parts)
  <2> HIDE DEF within, parts
  <2> QED BY <1>2, <1>3, FS_Surjection
<1>5. Addresses = UNION parts
  BY DEF Addresses
<1>6. \A part \in parts : IsFiniteSet(part) /\ part \subseteq Nat
  BY <1>1
<1> HIDE DEF parts
<1>7. IsFiniteSet(Addresses)
  BY <1>4, <1>5, <1>6, FS_UNION
<1> QED BY <1>5, <1>6, <1>7

Divisors(value) == {1} \cup (2 .. value) \cup (2 .. -value)

\* The results that a search for a value may have, whatever the memory holds.
Possible(value) ==
  [address : Addresses, mult : {1, 2, 4}, div : Divisors(value), bias : {-1, 0, 1},
   type : ToSet(Types)]

LEMMA PossibleIs ==
  ASSUME NEW value \in Int
  PROVE  Possible(value) \subseteq Result /\ IsFiniteSet(Possible(value))
<1> DEFINE D == Divisors(value)
           M == {1, 2, 4}
           B == {-1, 0, 1}
           T == ToSet(Types)
           all == ((Addresses \X M) \X (D \X B)) \X T
           f == [x \in all |->
                  [address |-> x[1][1][1], mult |-> x[1][1][2], div |-> x[1][2][1],
                   bias |-> x[1][2][2], type |-> x[2]]]
<1>1. D \subseteq Int /\ IsFiniteSet(D)
  <2>0. 2 \in Int /\ -value \in Int
    OBVIOUS
  <2>1. IsFiniteSet(2 .. value) /\ IsFiniteSet(2 .. -value) /\ IsFiniteSet({1})
    <3>1. IsFiniteSet(2 .. value)
      BY <2>0, FS_Interval
    <3>2. IsFiniteSet(2 .. -value)
      BY <2>0, FS_Interval
    <3> QED BY <3>1, <3>2, FS_Singleton
  <2>2. IsFiniteSet({1} \cup (2 .. value))
    BY <2>1, FS_Union
  <2>3. IsFiniteSet(D)
    BY <2>1, <2>2, FS_Union DEF Divisors
  <2> QED BY <2>3 DEF Divisors
<1>2. IsFiniteSet(M) /\ IsFiniteSet(B)
  <2>1. IsFiniteSet(1 .. 4) /\ IsFiniteSet(-1 .. 1)
    <3>1. 1 \in Int /\ 4 \in Int /\ -1 \in Int
      OBVIOUS
    <3> QED BY <3>1, FS_Interval
  <2>2. M \in SUBSET (1 .. 4) /\ B \in SUBSET (-1 .. 1)
    OBVIOUS
  <2> HIDE DEF M, B
  <2> QED BY <2>1, <2>2, FS_Subset
<1>3. Possible(value) \subseteq Result
  <2> SUFFICES ASSUME NEW r \in Possible(value) PROVE r \in Result
    OBVIOUS
  <2>1. /\ r.address \in Addresses /\ r.mult \in {1, 2, 4} /\ r.div \in D
        /\ r.bias \in {-1, 0, 1} /\ r.type \in ToSet(Types)
        /\ r = [address |-> r.address, mult |-> r.mult, div |-> r.div,
                bias |-> r.bias, type |-> r.type]
    BY DEF Possible
  <2>2. r.address \in Int /\ r.mult \in Int /\ r.div \in Int /\ r.bias \in Int
    BY <1>1, <2>1, AddressesAre
  <2> QED BY <2>1, <2>2 DEF Result
<1>4. IsFiniteSet(all)
  <2> HIDE DEF D, M, B, T
  <2>1. IsFiniteSet(Addresses \X M) /\ IsFiniteSet(D \X B)
    BY <1>1, <1>2, AddressesAre, FS_Product
  <2>2. IsFiniteSet((Addresses \X M) \X (D \X B))
    BY <2>1, FS_Product
  <2>3. IsFiniteSet(T)
    BY TypesAre DEF T
  <2> QED BY <2>2, <2>3, FS_Product
<1>5. f \in Surjection(all, Possible(value))
  <2>1. f \in [all -> Possible(value)]
    <3>1. \A x \in all : f[x] \in Possible(value)
      BY DEF Possible
    <3> QED BY <3>1
  <2>2. ASSUME NEW r \in Possible(value)
        PROVE  \E x \in all : f[x] = r
    <3>1. /\ r.address \in Addresses /\ r.mult \in M /\ r.div \in D
          /\ r.bias \in B /\ r.type \in T
          /\ r = [address |-> r.address, mult |-> r.mult, div |-> r.div,
                  bias |-> r.bias, type |-> r.type]
      BY DEF Possible
    <3> DEFINE x == <<<<<<r.address, r.mult>>, <<r.div, r.bias>>>>, r.type>>
    <3>2. x \in all
      BY <3>1
    <3>3. f[x] = [address |-> r.address, mult |-> r.mult, div |-> r.div,
                  bias |-> r.bias, type |-> r.type]
      BY <3>2
    <3> QED BY <3>1, <3>2, <3>3
  <2> QED BY <2>1, <2>2 DEF Surjection
<1>6. IsFiniteSet(Possible(value))
  <2> HIDE DEF f, all
  <2> QED BY <1>4, <1>5, FS_Surjection
<1> QED BY <1>3, <1>6

LEMMA WaysAre ==
  ASSUME NEW value \in Int, NEW way \in Ways(value)
  PROVE  way[1] \in [mult : {1, 2, 4}, div : Divisors(value), bias : {-1, 0, 1}]
<1>1. Direct \in [mult : {1, 2, 4}, div : Divisors(value), bias : {-1, 0, 1}]
  BY DEF Direct, Divisors
<1>2. \A n \in Powers(Ten, value) \cup Powers(Nibble, value) : n \in Divisors(value)
  BY DEF Powers, Divisors
<1>3. \/ way[1] = Direct
      \/ \E n \in Divisors(value) : way[1] = [Direct EXCEPT !.div = n]
      \/ \E n \in {2, 4} : way[1] = [Direct EXCEPT !.mult = n]
      \/ \E b \in {-1, 1} : way[1] = [Direct EXCEPT !.bias = b]
  BY <1>2 DEF Ways
<1>4. CASE way[1] = Direct
  BY <1>1, <1>4
<1>5. CASE \E n \in Divisors(value) : way[1] = [Direct EXCEPT !.div = n]
  BY <1>1, <1>5 DEF Direct
<1>6. CASE \E n \in {2, 4} : way[1] = [Direct EXCEPT !.mult = n]
  BY <1>1, <1>6 DEF Direct
<1>7. CASE \E b \in {-1, 1} : way[1] = [Direct EXCEPT !.bias = b]
  BY <1>1, <1>7 DEF Direct
<1> QED BY <1>3, <1>4, <1>5, <1>6, <1>7

\* A candidate is some way to store the value at some address.
LEMMA CandidatesAre ==
  ASSUME NEW value, NEW c \in Candidates(value)
  PROVE  \E a \in Addresses, way \in Ways(value) : c = At(a, way[1])
<1>1. PICK way \in Ways(value) : \E a \in SearchValue(way[2]) : c = At(a, way[1])
  BY DEF Candidates
<1>2. SearchValue(way[2]) \subseteq Addresses
  BY DEF SearchValue
<1> QED BY <1>1, <1>2
-----------------------------------------------------------------------------
(***************************************************************************)
(* reduceOnTypes and delta.                                                *)
(***************************************************************************)
Leaves(left, type, addresses) ==
  /\ left[0] = {}
  /\ \A k \in DOMAIN Blocks : left[k] =
       {x \in addresses : \A b \in addresses \ left[k - 1] :
          b <= x => Fits(type, b, Blocks[k])}

LEMMA LeftIs ==
  ASSUME NEW type, NEW addresses
  PROVE  Leaves(Left(type, addresses), type, addresses)
<1> DEFINE n == Len(Blocks)
           W == SUBSET addresses
           Later(k, behind) == {x \in addresses : \A b \in addresses \ behind :
                                 b <= x => Fits(type, b, Blocks[k])}
           step == [k \in 1 .. n |-> [behind \in W |-> Later(k, behind)]]
           Solves(g) == g = [k \in 0 .. n |-> IF k = 0 THEN {} ELSE Later(k, g[k - 1])]
           left == Left(type, addresses)
<1>0. n \in Nat /\ DOMAIN Blocks = 1 .. n
  BY BlocksAre
<1>1. step \in [1 .. n -> [W -> W]] /\ {} \in W
  OBVIOUS
<1>2. \A k \in 1 .. n : \A behind \in W : step[k][behind] = Later(k, behind)
  OBVIOUS
<1>3. left = CHOOSE g : Solves(g)
  BY DEF Left
<1> HIDE DEF step, W, Later, n
<1>4. PICK g : Walk(n, W, {}, step, g)
  BY <1>0, <1>1, WalkExists
<1>5. Solves(g)
  <2> USE DEF Walk
  <2>1. \A k \in 0 .. n : g[k] = IF k = 0 THEN {} ELSE Later(k, g[k - 1])
    <3> SUFFICES ASSUME NEW k \in 0 .. n
                 PROVE  g[k] = IF k = 0 THEN {} ELSE Later(k, g[k - 1])
      OBVIOUS
    <3>1. CASE k = 0
      BY <1>4, <3>1
    <3>2. CASE k # 0
      <4>1. k \in 1 .. n /\ k - 1 \in 0 .. n
        BY <1>0, <3>2
      <4> QED BY <1>2, <1>4, <3>2, <4>1
    <3> QED BY <3>1, <3>2
  <2>2. g = [k \in 0 .. n |-> g[k]]
    BY <1>4
  <2> QED BY <2>1, <2>2
<1>6. Solves(left)
  <2> HIDE DEF Solves
  <2> QED BY <1>3, <1>5
<1> HIDE DEF left
<1>7. \A k \in 1 .. n : left[k] = Later(k, left[k - 1])
  <2>1. \A k \in 0 .. n : left[k] = IF k = 0 THEN {} ELSE Later(k, left[k - 1])
    BY <1>6
  <2>2. \A k \in 1 .. n : k \in 0 .. n /\ k # 0
    BY <1>0
  <2> QED BY <2>1, <2>2
<1>8. left[0] = {}
  <2>1. 0 \in 0 .. n
    BY <1>0
  <2> QED BY <1>6, <2>1
<1> QED BY <1>0, <1>7, <1>8 DEF Later, left, Leaves

\* What the iterator gets to is in a block, with all its bytes.
LEMMA ReachedIs ==
  ASSUME NEW type \in ToSet(Types), NEW addresses \in SUBSET Int,
         NEW a \in Reached(type, addresses)
  PROVE  Inside(a, type)
<1> DEFINE left == Left(type, addresses)
<1>1. PICK k \in DOMAIN Blocks : a \in left[k] \ left[k - 1] /\ a >= Blocks[k].base
  BY DEF Reached
<1>2. a \in addresses
  BY DEF Reached
<1>3. left[k] = {x \in addresses : \A b \in addresses \ left[k - 1] :
                   b <= x => Fits(type, b, Blocks[k])}
  <2>1. Leaves(left, type, addresses)
    BY LeftIs
  <2> HIDE DEF left
  <2> QED BY <2>1, Zenon DEF Leaves
<1> HIDE DEF left
<1>4. Fits(type, a, Blocks[k])
  <2>1. a <= a
    BY <1>2
  <2> QED BY <1>1, <1>2, <1>3, <2>1
<1>5. a \in Within(Blocks[k])
  <2>1. Blocks[k].base \in Nat /\ Blocks[k].size \in Nat /\ type.width \in Nat \ {0} /\ a \in Int
    BY <1>2, BlocksAre, TypesAre
  <2> QED BY <1>1, <1>4, <2>1 DEF Fits, Within
<1> QED BY <1>4, <1>5 DEF Inside

\* What a search for a value finds of a type.
LEMMA HitsAre ==
  ASSUME NEW value \in Int, NEW type \in ToSet(Types),
         NEW r \in Hits(Candidates(value), type, value)
  PROVE  /\ r \in Possible(value) /\ r.type = type
         /\ \E a \in Addresses, way \in Ways(value) : r = Typed(At(a, way[1]), type)
         /\ Inside(r.address, r.type)
         /\ Reads(r, Decode(mem, r.address, r.type), value)
<1> DEFINE addresses == {c.address : c \in Candidates(value)}
<1>1. PICK c \in Candidates(value) :
        /\ r = Typed(c, type) /\ c.address \in Reached(type, addresses)
        /\ Reads(c, Decode(mem, c.address, type), value)
  BY DEF Hits
<1>2. PICK a \in Addresses, way \in Ways(value) : c = At(a, way[1])
  BY CandidatesAre
<1>3. way[1] \in [mult : {1, 2, 4}, div : Divisors(value), bias : {-1, 0, 1}]
  BY WaysAre
<1>4. /\ c = [address |-> a, mult |-> way[1].mult, div |-> way[1].div,
              bias |-> way[1].bias]
      /\ r = [address |-> c.address, mult |-> c.mult, div |-> c.div, bias |-> c.bias,
              type |-> type]
  BY <1>1, <1>2 DEF At, Typed
<1>5. r \in Possible(value)
  BY <1>3, <1>4 DEF Possible
<1>6. addresses \subseteq Int
  <2> SUFFICES ASSUME NEW d \in Candidates(value) PROVE d.address \in Int
    OBVIOUS
  <2>1. PICK b \in Addresses, other \in Ways(value) : d = At(b, other[1])
    BY CandidatesAre
  <2> QED BY <2>1, AddressesAre DEF At
<1> HIDE DEF addresses
<1>7. Inside(c.address, type)
  BY <1>1, <1>6, ReachedIs
<1>8. r.address = c.address /\ r.type = type /\ r.mult = c.mult /\ r.div = c.div
      /\ r.bias = c.bias
  BY <1>4
<1>9. Reads(r, Decode(mem, r.address, r.type), value)
  BY <1>1, <1>8 DEF Reads
<1> QED BY <1>1, <1>2, <1>5, <1>7, <1>8, <1>9

\* What a search for a change finds of a type.
LEMMA ChangesAre ==
  ASSUME NEW s, NEW old, NEW change, NEW type \in ToSet(Types),
         NEW r \in Changes(s, old, type, change)
  PROVE  /\ r = Typed(At(r.address, Direct), type)
         /\ r \in Possible(0) /\ r.type = type /\ r.address \in Addresses
         /\ Untyped(r) = At(r.address, Direct)
         /\ Inside(r.address, r.type)
         /\ Differs(old, r.address, r.type, change)
<1>1. PICK a : /\ r = Typed(At(a, Direct), type)
               /\ Inside(a, type) /\ Differs(old, a, type, change)
  BY DEF Changes
<1>2. a \in Addresses
  BY <1>1 DEF Inside, Addresses
<1>3. r = [address |-> a, mult |-> 1, div |-> 1, bias |-> 0, type |-> type]
  BY <1>1 DEF Typed, At, Direct
<1>4. r \in Possible(0)
  BY <1>2, <1>3 DEF Possible, Divisors
<1>5. Untyped(r) = At(r.address, Direct)
  BY <1>3 DEF Untyped, At, Direct
<1>6. r.address = a /\ r.type = type
  BY <1>3
<1> QED BY <1>1, <1>2, <1>4, <1>5, <1>6
-----------------------------------------------------------------------------
(***************************************************************************)
(* Searches.                                                               *)
(***************************************************************************)
SearchState ==
  [started : BOOLEAN, types : SUBSET ToSet(Types), current : Seq(Result)]

Fine(s) == s \in SearchState /\ s.started /\ Sorted(s.current)

\* A search as it is before the next step, with what is not refuted then.
Ready(s, unrefuted) ==
  /\ s \in SearchState /\ Sorted(s.current)
  /\ s.started => ToSet(s.current) \subseteq unrefuted
  /\ ~s.started => {r \in Everything : Inside(r.address, r.type)} \subseteq unrefuted

\* The invariant: a search shows, in order, results that fit all that was said.
SearchInv ==
  search # None => Fine(search) /\ ToSet(search.current) \subseteq open

Shows(after) ==
  Fine(after.search) /\ ToSet(after.search.current) \subseteq after.open

LEMMA CurrentReady ==
  ASSUME SearchInv
  PROVE  Ready(Current, Unrefuted)
<1>1. CASE search = None
  <2>1. /\ Current = NewSearch
        /\ Unrefuted = {r \in Everything : Inside(r.address, r.type)}
    BY <1>1 DEF Current, Unrefuted
  <2>2. NewSearch \in SearchState /\ ~NewSearch.started /\ NewSearch.current = <<>>
    BY DEF NewSearch, SearchState
  <2>3. Sorted(<<>>)
    BY DEF Sorted, Ascends
  <2> QED BY <2>1, <2>2, <2>3 DEF Ready
<1>2. CASE search # None
  BY <1>2 DEF Current, Unrefuted, SearchInv, Fine, Ready
<1> QED BY <1>1, <1>2

LEMMA IntersectIs ==
  ASSUME NEW s \in SearchState, Sorted(s.current), NEW results, Sorted(results)
  PROVE  /\ Fine(Intersect(s, results))
         /\ ToSet(Intersect(s, results).current) =
              IF s.started THEN ToSet(s.current) \cap ToSet(results) ELSE ToSet(results)
<1> DEFINE current == IF s.started THEN IntersectCurrent(s.current, results)
                      ELSE results
           x == Intersect(s, results)
<1>1. s = [started |-> s.started, types |-> s.types, current |-> s.current]
      /\ s.started \in BOOLEAN /\ s.types \in SUBSET ToSet(Types)
  BY DEF SearchState
<1>2. x = [s EXCEPT !.started = TRUE, !.current = current]
  BY DEF Intersect
<1>3. Sorted(current) /\ ToSet(current) =
        IF s.started THEN ToSet(s.current) \cap ToSet(results) ELSE ToSet(results)
  BY IntersectionIsExact
<1> HIDE DEF current, x
<1>4. x = [started |-> TRUE, types |-> s.types, current |-> current]
  BY <1>1, <1>2
<1>5. x.current = current /\ x.started
  BY <1>4
<1>6. current \in Seq(Result)
  BY <1>3 DEF Sorted
<1>7. x \in SearchState
  BY <1>1, <1>4, <1>6 DEF SearchState
<1> QED BY <1>3, <1>5, <1>7 DEF Fine, x

\* A search for a value, with the results that may still be meant.
LEMMA SearchedShows ==
  ASSUME SearchInv, NEW value \in Wanted
  PROVE  Shows(Searched(value))
<1> DEFINE s == Current
           hits == UNION {Hits(Candidates(value), type, value) : type \in s.types}
           results == InOrder(hits)
           after == Searched(value)
<1>1. Ready(s, Unrefuted)
  BY CurrentReady
<1>2. /\ s \in SearchState /\ Sorted(s.current) /\ s.types \subseteq ToSet(Types)
      /\ s.started \in BOOLEAN
  BY <1>1 DEF Ready, SearchState
<1>3. value \in Int
  BY SearchAssumption
<1>4. \A r \in hits :
        /\ r \in Possible(value)
        /\ \E a \in Addresses, way \in Ways(value) : r = Typed(At(a, way[1]), r.type)
        /\ r.type \in ToSet(Types) /\ Inside(r.address, r.type)
        /\ Reads(r, Decode(mem, r.address, r.type), value)
  <2> SUFFICES ASSUME NEW type \in s.types, NEW r \in Hits(Candidates(value), type, value)
               PROVE  /\ r \in Possible(value)
                      /\ \E a \in Addresses, way \in Ways(value) :
                           r = Typed(At(a, way[1]), r.type)
                      /\ r.type \in ToSet(Types) /\ Inside(r.address, r.type)
                      /\ Reads(r, Decode(mem, r.address, r.type), value)
    OBVIOUS
  <2>1. type \in ToSet(Types)
    BY <1>2
  <2> QED BY <1>3, <2>1, HitsAre
<1>5. /\ after.search = Intersect(s, results)
      /\ after.open = {r \in Unrefuted : Reads(r, Decode(mem, r.address, r.type), value)}
  BY DEF Searched, SearchFor, ReduceOnTypes
<1> HIDE DEF s, hits, after
<1>6. hits \in SUBSET Result /\ IsFiniteSet(hits)
  <2>1. hits \in SUBSET Possible(value)
    BY <1>4
  <2> QED BY <1>3, <2>1, PossibleIs, FS_Subset
<1>7. Sorted(results) /\ ToSet(results) = hits
  BY <1>6, InOrderIs
<1> HIDE DEF results
<1>8. /\ Fine(after.search)
      /\ ToSet(after.search.current) =
           IF s.started THEN ToSet(s.current) \cap hits ELSE hits
  BY <1>2, <1>5, <1>7, IntersectIs
<1>9. \A r \in hits : r \in Everything
  <2> SUFFICES ASSUME NEW r \in hits PROVE r \in Everything
    OBVIOUS
  <2>1. PICK a \in Addresses, way \in Ways(value) : r = Typed(At(a, way[1]), r.type)
    BY <1>4
  <2>2. PICK i \in DOMAIN Types : r.type = Types[i]
    BY <1>4 DEF ToSet
  <2>3. way \in UNION {Ways(v) : v \in Wanted}
    OBVIOUS
  <2> QED BY <2>1, <2>2, <2>3 DEF Everything
<1>10. ToSet(after.search.current) \subseteq Unrefuted
  BY <1>1, <1>2, <1>4, <1>8, <1>9 DEF Ready
<1>11. ToSet(after.search.current) \subseteq hits
  BY <1>2, <1>8
<1>12. ToSet(after.search.current) \subseteq after.open
  BY <1>4, <1>5, <1>10, <1>11
<1> QED BY <1>8, <1>12 DEF Shows, after

LEMMA DeltaShows ==
  ASSUME SearchInv, NEW change
  PROVE  Shows(DeltaSearched(change))
<1> DEFINE s == Current
           old == Since
           changed == UNION {Changes(s, old, type, change) : type \in s.types}
           results == InOrder(changed)
           left == [s EXCEPT !.types = {type \in @ : Changes(s, old, type, change) # {}}]
           after == DeltaSearched(change)
<1>1. Ready(s, Unrefuted)
  BY CurrentReady
<1>2. /\ s \in SearchState /\ Sorted(s.current) /\ s.types \subseteq ToSet(Types)
      /\ s.started \in BOOLEAN
      /\ s = [started |-> s.started, types |-> s.types, current |-> s.current]
  BY <1>1 DEF Ready, SearchState
<1>3. \A r \in changed :
        /\ r = Typed(At(r.address, Direct), r.type)
        /\ r \in Possible(0) /\ r.type \in ToSet(Types) /\ r.address \in Addresses
        /\ Untyped(r) = At(r.address, Direct)
        /\ Inside(r.address, r.type) /\ Differs(old, r.address, r.type, change)
  <2> SUFFICES ASSUME NEW type \in s.types, NEW r \in Changes(s, old, type, change)
               PROVE  /\ r = Typed(At(r.address, Direct), r.type)
                      /\ r \in Possible(0) /\ r.type \in ToSet(Types)
                      /\ r.address \in Addresses
                      /\ Untyped(r) = At(r.address, Direct)
                      /\ Inside(r.address, r.type)
                      /\ Differs(old, r.address, r.type, change)
    OBVIOUS
  <2>1. type \in ToSet(Types)
    BY <1>2
  <2> HIDE DEF s, old
  <2> QED BY <2>1, ChangesAre
<1>4. /\ after.search = Intersect(left, results)
      /\ after.open = {r \in Unrefuted : /\ Untyped(r) = At(r.address, Direct)
                                         /\ Differs(old, r.address, r.type, change)}
  BY DEF DeltaSearched, Delta
<1>5. /\ left \in SearchState /\ left.current = s.current
      /\ left.started = s.started
  <2> HIDE DEF s, old
  <2> QED BY <1>2 DEF SearchState
<1> HIDE DEF s, old, changed, after, left
<1>6. changed \in SUBSET Result /\ IsFiniteSet(changed)
  <2>1. changed \in SUBSET Possible(0)
    BY <1>3
  <2> QED BY <2>1, PossibleIs, FS_Subset
<1>7. Sorted(results) /\ ToSet(results) = changed
  BY <1>6, InOrderIs
<1> HIDE DEF results
<1>8. /\ Fine(after.search)
      /\ ToSet(after.search.current) =
           IF s.started THEN ToSet(s.current) \cap changed ELSE changed
  BY <1>2, <1>4, <1>5, <1>7, IntersectIs
<1>9. \A r \in changed : r \in Everything
  <2> SUFFICES ASSUME NEW r \in changed PROVE r \in Everything
    OBVIOUS
  <2>1. PICK value \in Wanted : TRUE
    BY SearchAssumption
  <2> DEFINE way == <<Direct, value>>
  <2>2. way \in UNION {Ways(v) : v \in Wanted} /\ way[1] = Direct
    BY <2>1 DEF Ways
  <2>3. PICK i \in DOMAIN Types : r.type = Types[i]
    BY <1>3 DEF ToSet
  <2>4. r = Typed(At(r.address, way[1]), Types[i]) /\ r.address \in Addresses
    BY <1>3, <2>2, <2>3
  <2> HIDE DEF way
  <2> QED BY <2>2, <2>4 DEF Everything
<1>10. ToSet(after.search.current) \subseteq Unrefuted
  BY <1>1, <1>2, <1>3, <1>8, <1>9 DEF Ready
<1>11. ToSet(after.search.current) \subseteq changed
  BY <1>2, <1>8
<1>12. ToSet(after.search.current) \subseteq after.open
  BY <1>3, <1>4, <1>10, <1>11
<1> QED BY <1>8, <1>12 DEF Shows, after

LEMMA ConcludesInv ==
  ASSUME NEW after, Shows(after), NEW unique, Concludes(after, unique)
  PROVE  SearchInv'
<1>1. search' = None \/ search' = after.search
  BY DEF Concludes
<1>2. open' = after.open
  BY DEF Concludes
<1>3. search' = after.search => Fine(search') /\ ToSet(search'.current) \subseteq open'
  BY <1>2 DEF Shows
<1> QED BY <1>1, <1>3 DEF SearchInv, Fine, Sorted, Ascends, Before, SearchState, Result
-----------------------------------------------------------------------------
LEMMA SearchStarts == Init => SearchInv
  BY DEF Init, SearchInv

LEMMA SearchStays == SearchInv /\ [Next]_vars => SearchInv'
<1> SUFFICES ASSUME SearchInv, [Next]_vars PROVE SearchInv'
  OBVIOUS
<1>1. CASE Frame
  BY <1>1 DEF Frame, SearchInv
<1>2. CASE RemoveSearch
  BY <1>2 DEF RemoveSearch, SearchInv
<1>3. ASSUME NEW value \in Wanted, Search(value) \/ PerformSearch(Searched(value))
      PROVE  SearchInv'
  <2>1. Shows(Searched(value))
    BY SearchedShows
  <2> QED BY <1>3, <2>1, ConcludesInv DEF Search, PerformSearch
<1>4. ASSUME NEW change \in Deltas,
             DeltaSearch(change) \/ PerformSearch(DeltaSearched(change))
      PROVE  SearchInv'
  <2>1. Shows(DeltaSearched(change))
    BY DeltaShows
  <2> QED BY <1>4, <2>1, ConcludesInv DEF DeltaSearch, PerformSearch
<1>5. CASE UNCHANGED vars
  BY <1>5 DEF vars, SearchInv
<1> QED BY <1>1, <1>2, <1>3, <1>4, <1>5 DEF Next

LEMMA SearchAlways == Spec => []SearchInv
  BY SearchStarts, SearchStays, PTL DEF Spec

\* "Invariant: always stored ordered by address" (search.cpp), and no result is
\* there twice, whatever is searched for and in whatever memory.
THEOREM ResultsStayOrdered == Spec => []OrderedByAddress
<1>1. SearchInv => OrderedByAddress
  <2> SUFFICES ASSUME SearchInv, search # None,
                      NEW i \in DOMAIN search.current, NEW j \in DOMAIN search.current,
                      i < j
               PROVE  /\ search.current[i].address <= search.current[j].address
                      /\ search.current[i] # search.current[j]
    BY DEF OrderedByAddress
  <2>1. Sorted(search.current)
    BY DEF SearchInv, Fine
  <2>2. search.current[i] \in Result /\ search.current[j] \in Result
    BY <2>1 DEF Sorted
  <2>3. Before(search.current[i], search.current[j])
    BY <2>1 DEF Sorted, Ascends
  <2> QED BY <2>2, <2>3, BeforeAddress
<1> QED BY <1>1, SearchAlways, PTL

\* Every result that is shown is a whole number inside a block and fits every
\* value and every change that was searched for since the search began.
THEOREM ResultsFitTheSearch == Spec => []NothingRefuted
<1>1. SearchInv => NothingRefuted
  BY DEF SearchInv, NothingRefuted
<1> QED BY <1>1, SearchAlways, PTL
-----------------------------------------------------------------------------
(***************************************************************************)
(* What the search for a number needs to know of it: its bytes.            *)
(***************************************************************************)
LEMMA WidthsAre == \A type \in ToSet(Types) : type.width \in {1, 2, 4}
  BY WidthAssumption DEF ToSet

\* The bytes of a number, the lowest one first.
Place(type, r) == IF type.big THEN type.width - 1 - r ELSE r
BytesAt(m, a, type) == [r \in 0 .. type.width - 1 |-> m[a + Place(type, r)]]

LEMMA NumbersAre ==
  /\ Byte \in Nat \ {0} /\ Byte > 1
  /\ \A m \in Memories : m \in [Addresses -> 0 .. Byte - 1]
  BY SearchAssumption

LEMMA PowerGrows ==
  ASSUME NEW i \in Nat, NEW j \in Nat, i <= j
  PROVE  /\ Power(Byte, i) \in Nat \ {0} /\ Power(Byte, j) \in Nat \ {0}
         /\ Power(Byte, i) <= Power(Byte, j)
         /\ Power(Byte, j) = Power(Byte, i) * Power(Byte, j - i)
<1>1. Byte \in Nat \ {0} /\ j - i \in Nat /\ i + (j - i) = j
  BY NumbersAre
<1> DEFINE p == Power(Byte, i)
           q == Power(Byte, j - i)
<1>2. Power(Byte, j) = p * q
  BY <1>1, PowerAdds
<1>3. p \in Nat \ {0} /\ q \in Nat \ {0}
  BY <1>1, PowerIs
<1> HIDE DEF p, q
<1>4. p * q \in Nat \ {0} /\ p * 1 <= p * q
  BY <1>3
<1> QED BY <1>2, <1>3, <1>4 DEF p, q

\* The addresses of a number that is inside a block.
LEMMA InsideIs ==
  ASSUME NEW type \in ToSet(Types), NEW a, Inside(a, type)
  PROVE  a \in Nat /\ \A i \in 0 .. type.width - 1 : a + i \in Addresses
<1>1. PICK k \in DOMAIN Blocks : a \in Within(Blocks[k]) /\ Fits(type, a, Blocks[k])
  BY DEF Inside
<1>2. /\ Blocks[k].base \in Nat /\ Blocks[k].size \in Nat /\ type.width \in Nat \ {0}
  BY BlocksAre, TypesAre
<1>3. a \in Nat
  BY <1>1, <1>2 DEF Within
<1>4. \A i \in 0 .. type.width - 1 : a + i \in Within(Blocks[k])
  BY <1>1, <1>2, <1>3 DEF Within, Fits
<1> QED BY <1>3, <1>4 DEF Addresses

LEMMA PlaceIs ==
  ASSUME NEW type \in ToSet(Types)
  PROVE  /\ type.width \in Nat \ {0}
         /\ Reorders(type.width, [i \in 0 .. type.width - 1 |-> Place(type, i)],
                     [i \in 0 .. type.width - 1 |-> Place(type, i)])
<1>1. type.width \in Nat \ {0}
  BY TypesAre
<1> QED BY <1>1 DEF Reorders, Place

LEMMA BytesAre ==
  ASSUME NEW m \in Memories, NEW type \in ToSet(Types), NEW a, Inside(a, type)
  PROVE  BytesAt(m, a, type) \in [0 .. type.width - 1 -> 0 .. Byte - 1]
<1> SUFFICES ASSUME NEW r \in 0 .. type.width - 1
             PROVE  m[a + Place(type, r)] \in 0 .. Byte - 1
  BY DEF BytesAt
<1>1. Place(type, r) \in 0 .. type.width - 1
  BY TypesAre DEF Place
<1>2. a + Place(type, r) \in Addresses
  BY <1>1, InsideIs
<1> QED BY <1>2, NumbersAre

\* Decode adds the bytes up.
LEMMA DecodeIs ==
  ASSUME NEW m \in Memories, NEW type \in ToSet(Types), NEW a, Inside(a, type)
  PROVE  \E T : /\ Makes(type.width, Byte, BytesAt(m, a, type), T)
                /\ Decode(m, a, type) =
                     IF type.signed /\ 2 * T[type.width] >= Power(Byte, type.width)
                     THEN T[type.width] - Power(Byte, type.width) ELSE T[type.width]
<1> DEFINE w == type.width
           d == [i \in 0 .. w - 1 |-> m[a + i]]
           rank == [i \in 0 .. w - 1 |-> Place(type, i)]
           f == [i \in 0 .. w - 1 |-> m[a + i] * Power(Byte, IF type.big THEN w - 1 - i ELSE i)]
           c == BytesAt(m, a, type)
<1>1. d \in [0 .. w - 1 -> 0 .. Byte - 1]
  BY InsideIs, NumbersAre
<1>2. Byte \in Nat \ {0} /\ w \in Nat /\ Reorders(w, rank, rank)
  BY NumbersAre, PlaceIs
<1>3. f = [i \in 0 .. w - 1 |-> d[i] * Power(Byte, rank[i])]
  BY DEF Place
<1>4. c = [r \in 0 .. w - 1 |-> d[rank[r]]]
  <2>1. \A r \in 0 .. w - 1 : Place(type, r) \in 0 .. w - 1
    BY TypesAre DEF Place
  <2> QED BY <2>1 DEF BytesAt
<1>5. Decode(m, a, type) =
        IF type.signed /\ 2 * SumFunction(f) >= Power(Byte, w)
        THEN SumFunction(f) - Power(Byte, w) ELSE SumFunction(f)
  BY DEF Decode
<1> HIDE DEF d, f, c, w, rank
<1>6. Summed(w, Byte, c, SumFunction(f))
  BY <1>1, <1>2, <1>3, <1>4, SumInOrder, Zenon
<1>7. PICK T : Makes(w, Byte, c, T) /\ SumFunction(f) = T[w]
  BY <1>6 DEF Summed
<1> QED BY <1>5, <1>7 DEF c, w

\* How many bytes a number has.
LEMMA ByteCountIs ==
  ASSUME NEW n \in Nat, NEW w \in 1 .. 8, n < Power(Byte, w)
  PROVE  ByteCount(n) \in 1 .. w /\ n < Power(Byte, ByteCount(n))
<1> DEFINE P(k) == n < Power(Byte, k) /\ (k > 1 => n >= Power(Byte, k - 1))
           S == {k \in 1 .. 8 : n < Power(Byte, k)}
           b == ByteCount(n)
<1>1. PICK x \in S : \A y \in S : x <= y
  <2>1. w \in S /\ S \subseteq Nat
    OBVIOUS
  <2> HIDE DEF S
  <2> QED BY <2>1, Least
<1>2. P(x) /\ x \in 1 .. 8
  <2>1. x > 1 => x - 1 \notin S /\ x - 1 \in 1 .. 8
    BY <1>1
  <2>2. x > 1 => ~(n < Power(Byte, x - 1)) /\ Power(Byte, x - 1) \in Nat
    <3>1. x > 1 => x - 1 \in Nat
      BY <2>1
    <3> QED BY <2>1, <3>1, NumbersAre, PowerIs
  <2> QED BY <1>1, <2>2
<1>3. b = CHOOSE k \in 1 .. 8 : P(k)
  BY DEF ByteCount
<1>4. b \in 1 .. 8 /\ P(b)
  <2> HIDE DEF P, b
  <2> QED BY <1>2, <1>3
<1>5. b <= w
  <2> SUFFICES ASSUME b > w PROVE FALSE
    BY <1>4
  <2>1. b - 1 \in Nat /\ w \in Nat /\ w <= b - 1 /\ b > 1
    BY <1>4
  <2>2. Power(Byte, w) <= Power(Byte, b - 1) /\ Power(Byte, w) \in Nat
        /\ Power(Byte, b - 1) \in Nat
    BY <2>1, PowerGrows
  <2>3. n >= Power(Byte, b - 1)
    BY <1>4, <2>1
  <2> HIDE DEF P, b
  <2> QED BY <2>2, <2>3
<1> QED BY <1>4, <1>5

\* A number below zero is looked for as the bytes of the least width it fits.
LEMMA UnsignedIs ==
  ASSUME NEW n \in Int, n < 0, NEW w \in {1, 2, 4}, -Power(Byte, w) < n
  PROVE  \E u \in {1, 2, 4} : u <= w /\ Unsigned(n) = n % Power(Byte, u)
<1> DEFINE P(x) == n > -Power(Byte, x) /\ \A u \in {1, 2} : u < x => n <= -Power(Byte, u)
           u == CHOOSE x \in {1, 2, 4} : P(x)
<1>1. \A x \in {1, 2, 4} : Power(Byte, x) \in Nat
  BY NumbersAre, PowerIs
<1>2. \E x \in {1, 2, 4} : P(x)
  <2>1. CASE n > -Power(Byte, 1)
    <3>1. P(1)
      BY <2>1
    <3> QED BY <3>1
  <2>2. CASE n <= -Power(Byte, 1) /\ n > -Power(Byte, 2)
    <3>1. P(2)
      BY <2>2
    <3> QED BY <3>1
  <2>3. CASE n <= -Power(Byte, 1) /\ n <= -Power(Byte, 2)
    <3>1. P(4)
      BY <1>1, <2>3
    <3> QED BY <3>1
  <2> QED BY <1>1, <2>1, <2>2, <2>3
<1>3. u \in {1, 2, 4} /\ P(u)
  <2> HIDE DEF P
  <2> QED BY <1>2
<1>4. Unsigned(n) = n % Power(Byte, u)
  BY DEF Unsigned
<1> HIDE DEF u
<1>5. u <= w
  BY <1>1, <1>3
<1> QED BY <1>3, <1>4, <1>5

HasDigits(n, w, c) == \A k \in 0 .. w - 1 : (n \div Power(Byte, k)) % Byte = c[k]

LEMMA HasDigitsIs ==
  ASSUME NEW w \in Nat, NEW c \in [0 .. w - 1 -> 0 .. Byte - 1], NEW T, Makes(w, Byte, c, T)
  PROVE  HasDigits(T[w], w, c)
<1> SUFFICES ASSUME NEW k \in 0 .. w - 1 PROVE (T[w] \div Power(Byte, k)) % Byte = c[k]
  BY DEF HasDigits
<1> QED BY NumbersAre, DigitOf, SMTT(20)

\* The lowest u bytes of a number.
LEMMA RestIs ==
  ASSUME NEW w \in Nat, NEW c \in [0 .. w - 1 -> 0 .. Byte - 1],
         NEW T, Makes(w, Byte, c, T), NEW u \in 0 .. w
  PROVE  /\ T[w] \in Nat /\ T[w] < Power(Byte, w)
         /\ T[u] \in 0 .. Power(Byte, u) - 1
         /\ T[u] = T[w] % Power(Byte, u)
         /\ \A k \in 0 .. u - 1 : (T[u] \div Power(Byte, k)) % Byte = c[k]
<1>1. Byte \in Nat \ {0} /\ u \in Nat /\ w \in 0 .. w
  BY NumbersAre
<1>2. /\ T[w] \in 0 .. Power(Byte, w) - 1 /\ T[u] \in 0 .. Power(Byte, u) - 1
      /\ Power(Byte, w) \in Nat
  BY <1>1, BelowPower, PowerIs
<1>3. T[w] \in Nat /\ T[w] < Power(Byte, w)
  BY <1>2
<1> DEFINE low == [k \in 0 .. u - 1 |-> c[k]]
<1>4. Makes(u, Byte, low, T) /\ low \in [0 .. u - 1 -> 0 .. Byte - 1]
  BY <1>1 DEF Makes
<1>5. \A k \in 0 .. u - 1 : (T[w] \div Power(Byte, k)) % Byte = low[k]
  <2> SUFFICES ASSUME NEW k \in 0 .. u - 1
               PROVE  (T[w] \div Power(Byte, k)) % Byte = c[k]
    OBVIOUS
  <2>1. k \in 0 .. w - 1
    BY <1>1
  <2> HIDE DEF low
  <2> QED BY <1>1, <2>1, DigitOf
<1> HIDE DEF low
<1>6. T[u] = T[w] % Power(Byte, u)
  BY <1>1, <1>3, <1>4, <1>5, RestOf
<1>7. HasDigits(T[u], u, low)
  BY <1>1, <1>4, HasDigitsIs
<1> QED BY <1>2, <1>3, <1>6, <1>7 DEF low, HasDigits

\* What is looked for has the bytes of the number: all that are not zero, or at
\* least those that a number below zero needs.
Shown(w, c, n) ==
  /\ n \in Nat /\ ByteCount(n) \in 1 .. w
  /\ \A k \in 1 .. ByteCount(n) : Low(n, k) = c[k - 1]

LEMMA ShownIs ==
  ASSUME NEW w \in {1, 2, 4}, NEW c \in [0 .. w - 1 -> 0 .. Byte - 1],
         NEW T, Makes(w, Byte, c, T), NEW u \in 1 .. w
  PROVE  /\ Shown(w, c, T[u]) /\ ByteCount(T[u]) <= u
         /\ \A r \in ByteCount(T[w]) .. w - 1 : c[r] = 0
<1>1. w \in Nat /\ u \in 0 .. w /\ w \in 0 .. w /\ Byte \in Nat \ {0} /\ u \in 1 .. 8
      /\ w \in 1 .. 8
  BY NumbersAre
<1>2. /\ T[u] \in 0 .. Power(Byte, u) - 1 /\ T[w] \in 0 .. Power(Byte, w) - 1
      /\ \A k \in 0 .. u - 1 : (T[u] \div Power(Byte, k)) % Byte = c[k]
      /\ \A k \in 0 .. w - 1 : (T[w] \div Power(Byte, k)) % Byte = c[k]
      /\ Power(Byte, u) \in Nat /\ Power(Byte, w) \in Nat
  <2>1. Power(Byte, u) \in Nat /\ Power(Byte, w) \in Nat
    <3>1. u \in Nat
      BY <1>1
    <3> QED BY <1>1, <3>1, PowerIs
  <2> QED BY <1>1, <2>1, RestIs, SMTT(20)
<1>3. T[u] \in Nat /\ T[u] < Power(Byte, u) /\ T[w] \in Nat /\ T[w] < Power(Byte, w)
  BY <1>2
<1>4. ByteCount(T[u]) \in 1 .. u
  BY <1>1, <1>3, ByteCountIs
<1>5. ByteCount(T[w]) \in 1 .. w /\ T[w] < Power(Byte, ByteCount(T[w]))
  BY <1>1, <1>3, ByteCountIs
<1>6. \A k \in 1 .. ByteCount(T[u]) : Low(T[u], k) = c[k - 1]
  BY <1>1, <1>2, <1>4 DEF Low
<1>7. ASSUME NEW r \in ByteCount(T[w]) .. w - 1 PROVE c[r] = 0
  <2>1. r \in 0 .. w - 1 /\ r \in Nat /\ ByteCount(T[w]) \in Nat /\ ByteCount(T[w]) <= r
    BY <1>1, <1>5
  <2> DEFINE p == Power(Byte, r)
             t == T[w]
  <2>2. t < p /\ p \in Nat \ {0} /\ t \in Nat
    <3>1. /\ Power(Byte, ByteCount(T[w])) <= p /\ p \in Nat \ {0}
          /\ Power(Byte, ByteCount(T[w])) \in Nat
      BY <2>1, PowerGrows
    <3> HIDE DEF p
    <3> QED BY <1>3, <1>5, <3>1
  <2>3. c[r] = (t \div p) % Byte
    BY <1>2, <2>1
  <2> HIDE DEF p, t
  <2>4. t \div p = 0
    <3>1. (p * 0 + t) \div p = 0
      <4>1. 0 \in Int /\ t \in 0 .. p - 1
        BY <2>2
      <4> QED BY <2>2, <4>1, DivModIs, Zenon
    <3>2. p * 0 + t = t
      BY <2>2
    <3> QED BY <3>1, <3>2
  <2>5. 0 % Byte = 0
    BY NumbersAre
  <2> QED BY <2>3, <2>4, <2>5
<1> QED BY <1>1, <1>3, <1>4, <1>6, <1>7 DEF Shown
-----------------------------------------------------------------------------
(***************************************************************************)
(* searchValue: the runs of bytes, in both orders.                         *)
(***************************************************************************)
RunAfter(n, k, run) ==
  IF run.start = {}
  THEN [start |-> Holding(Low(n, k)), end |-> Holding(Low(n, k))]
  ELSE [start |-> run.start \cup Beside(Low(n, k), run.start, -1),
        end |-> run.end \cup Beside(Low(n, k), run.end, 1)]

\* On a core that turns no words round the blocks hold what their overlay shows.
LEMMA HoldingShown ==
  ASSUME Turned = 1, NEW b
  PROVE  Holding(b) = {a \in Addresses : mem[a] = b}
<1> SUFFICES ASSUME NEW a \in Addresses PROVE Stored(a) = a
  BY DEF Holding
<1> DEFINE k == CHOOSE k \in DOMAIN Blocks : a \in Within(Blocks[k])
           d == a - Blocks[k].base
<1>1. k \in DOMAIN Blocks /\ a \in Nat
  BY AddressesAre DEF Addresses
<1>2. Blocks[k].base \in Nat
  BY <1>1, BlocksAre
<1> HIDE DEF k
<1>3. d \in Int
  BY <1>1, <1>2
<1> HIDE DEF d
<1>4. d % 1 = 0
  BY <1>3
<1> QED BY <1>1, <1>4 DEF Stored, k, d

LEMMA RunsAre ==
  ASSUME NEW n, ByteCount(n) \in Nat
  PROVE  \E runs : /\ Runs(n) = runs[ByteCount(n)] /\ runs[0] = [start |-> {}, end |-> {}]
                   /\ \A k \in 1 .. ByteCount(n) : runs[k] = RunAfter(n, k, runs[k - 1])
<1> DEFINE b == ByteCount(n)
           W == [start : SUBSET Addresses, end : SUBSET Addresses]
           none == [start |-> {}, end |-> {}]
           step == [k \in 1 .. b |-> [run \in W |-> RunAfter(n, k, run)]]
           Solves(g) == g = [k \in 0 .. b |-> IF k = 0 THEN none ELSE RunAfter(n, k, g[k - 1])]
           runs == CHOOSE g : Solves(g)
<1>1. step \in [1 .. b -> [W -> W]] /\ none \in W
  <2>1. \A k, run : RunAfter(n, k, run) \in W \/ ~(run \in W)
    BY DEF RunAfter, Holding, Beside
  <2> HIDE DEF W
  <2>2. step \in [1 .. b -> [W -> W]]
    BY <2>1
  <2> QED BY <2>2 DEF W
<1>2. \A k \in 1 .. b : \A run \in W : step[k][run] = RunAfter(n, k, run)
  OBVIOUS
<1>3. Runs(n) = runs[b]
  BY DEF Runs, RunAfter
<1> HIDE DEF step, W, none
<1>4. PICK g : Walk(b, W, none, step, g)
  <2> HIDE DEF b
  <2>1. b \in Nat
    BY DEF b
  <2> QED BY <1>1, <2>1, WalkExists
<1>5. Solves(g)
  <2>1. /\ g \in [0 .. b -> W] /\ g[0] = none
        /\ \A k \in 1 .. b : g[k] = step[k][g[k - 1]]
    BY <1>4 DEF Walk
  <2> HIDE DEF b
  <2>2. \A k \in 0 .. b : g[k] = IF k = 0 THEN none ELSE RunAfter(n, k, g[k - 1])
    <3> SUFFICES ASSUME NEW k \in 0 .. b, k # 0 PROVE g[k] = RunAfter(n, k, g[k - 1])
      BY <2>1
    <3>1. k \in 1 .. b /\ k - 1 \in 0 .. b
      BY DEF b
    <3> QED BY <1>2, <2>1, <3>1
  <2> QED BY <2>1, <2>2
<1>6. Solves(runs)
  <2> HIDE DEF Solves
  <2> QED BY <1>5
<1> HIDE DEF runs
<1>7. runs[0] = none /\ \A k \in 1 .. b : runs[k] = RunAfter(n, k, runs[k - 1])
  BY <1>6
<1> QED BY <1>3, <1>7 DEF none

\* The bytes from the lowest one on, upwards.
LEMMA RunUp ==
  ASSUME Turned = 1, NEW n, ByteCount(n) \in Nat \ {0}, NEW a \in Nat,
         \A k \in 1 .. ByteCount(n) : a + (k - 1) \in Holding(Low(n, k))
  PROVE  a \in Runs(n).start /\ a + (ByteCount(n) - 1) \in Runs(n).end
<1> DEFINE b == ByteCount(n)
<1>1. PICK runs : /\ Runs(n) = runs[b] /\ runs[0] = [start |-> {}, end |-> {}]
                  /\ \A k \in 1 .. b : runs[k] = RunAfter(n, k, runs[k - 1])
  BY RunsAre
<1> DEFINE S == {k \in 0 .. b : k # 0 => a \in runs[k].start /\ a + (k - 1) \in runs[k].end}
<1>2. 0 \in S /\ b \in Nat \ {0}
  OBVIOUS
<1>3. ASSUME NEW k \in 1 .. b, k - 1 \in S PROVE k \in S
  <2>1. runs[k] = RunAfter(n, k, runs[k - 1]) /\ a + (k - 1) \in Holding(Low(n, k))
    BY <1>1
  <2>2. CASE runs[k - 1].start = {}
    <3>1. k = 1
      BY <1>3, <2>2
    <3>2. runs[k].start = Holding(Low(n, k)) /\ runs[k].end = Holding(Low(n, k))
      BY <2>1, <2>2 DEF RunAfter
    <3> QED BY <2>1, <3>1, <3>2
  <2>3. CASE runs[k - 1].start # {}
    <3>1. k # 1
      BY <1>1, <2>3
    <3>2. a \in runs[k - 1].start /\ a + (k - 2) \in runs[k - 1].end
      BY <1>3, <3>1
    <3>3. /\ runs[k].start = runs[k - 1].start \cup Beside(Low(n, k), runs[k - 1].start, -1)
          /\ runs[k].end = runs[k - 1].end \cup Beside(Low(n, k), runs[k - 1].end, 1)
      BY <2>1, <2>3 DEF RunAfter
    <3>4. a + (k - 1) - 1 = a + (k - 2)
      OBVIOUS
    <3>5. a + (k - 1) \in Beside(Low(n, k), runs[k - 1].end, 1)
      BY <2>1, <3>2, <3>4, HoldingShown DEF Beside
    <3> QED BY <3>2, <3>3, <3>5
  <2> QED BY <2>2, <2>3
<1>4. b \in S
  <2> HIDE DEF S, b
  <2>1. 0 .. b \subseteq S
    BY <1>2, <1>3, UpTo
  <2> QED BY <1>2, <2>1
<1> QED BY <1>1, <1>2, <1>4

\* And downwards.
LEMMA RunDown ==
  ASSUME Turned = 1, NEW n, ByteCount(n) \in Nat \ {0}, NEW e \in Nat,
         \A k \in 1 .. ByteCount(n) : e - (k - 1) \in Holding(Low(n, k))
  PROVE  e - (ByteCount(n) - 1) \in Runs(n).start /\ e \in Runs(n).end
<1> DEFINE b == ByteCount(n)
<1>1. PICK runs : /\ Runs(n) = runs[b] /\ runs[0] = [start |-> {}, end |-> {}]
                  /\ \A k \in 1 .. b : runs[k] = RunAfter(n, k, runs[k - 1])
  BY RunsAre
<1> DEFINE S == {k \in 0 .. b : k # 0 => e - (k - 1) \in runs[k].start /\ e \in runs[k].end}
<1>2. 0 \in S /\ b \in Nat \ {0}
  OBVIOUS
<1>3. ASSUME NEW k \in 1 .. b, k - 1 \in S PROVE k \in S
  <2>1. runs[k] = RunAfter(n, k, runs[k - 1]) /\ e - (k - 1) \in Holding(Low(n, k))
    BY <1>1
  <2>2. CASE runs[k - 1].start = {}
    <3>1. k = 1
      BY <1>3, <2>2
    <3>2. runs[k].start = Holding(Low(n, k)) /\ runs[k].end = Holding(Low(n, k))
      BY <2>1, <2>2 DEF RunAfter
    <3> QED BY <2>1, <3>1, <3>2
  <2>3. CASE runs[k - 1].start # {}
    <3>1. k # 1
      BY <1>1, <2>3
    <3>2. e - (k - 2) \in runs[k - 1].start /\ e \in runs[k - 1].end
      BY <1>3, <3>1
    <3>3. /\ runs[k].start = runs[k - 1].start \cup Beside(Low(n, k), runs[k - 1].start, -1)
          /\ runs[k].end = runs[k - 1].end \cup Beside(Low(n, k), runs[k - 1].end, 1)
      BY <2>1, <2>3 DEF RunAfter
    <3>4. e - (k - 1) - (-1) = e - (k - 2)
      OBVIOUS
    <3>5. e - (k - 1) \in Beside(Low(n, k), runs[k - 1].start, -1)
      BY <2>1, <3>2, <3>4, HoldingShown DEF Beside
    <3> QED BY <3>2, <3>3, <3>5
  <2> QED BY <2>2, <2>3
<1>4. b \in S
  <2> HIDE DEF S, b
  <2>1. 0 .. b \subseteq S
    BY <1>2, <1>3, UpTo
  <2> QED BY <1>2, <2>1
<1> QED BY <1>1, <1>2, <1>4

\* Zeros before a run, as many as a number of four bytes may have.
LEMMA ZerosAre ==
  ASSUME Turned = 1, NEW starts, NEW s \in starts, s \in Nat,
         NEW b \in 1 .. 4, NEW j \in 1 .. 4 - b,
         \A i \in 1 .. j : s - i \in Holding(0)
  PROVE  s - j \in ZerosBefore(starts, b)
<1> DEFINE W == SUBSET Addresses
           After(k, wide) == wide \cup Beside(0, IF k = 1 THEN starts ELSE wide, -1)
           step == [k \in 1 .. 4 |-> [wide \in W |-> After(k, wide)]]
           Solves(g) == g = [k \in 0 .. 4 |-> IF k = 0 THEN {} ELSE After(k, g[k - 1])]
           zeros == CHOOSE g : Solves(g)
<1>1. step \in [1 .. 4 -> [W -> W]] /\ {} \in W
  <2>1. \A k, wide : After(k, wide) \in W \/ ~(wide \in W)
    BY DEF Beside
  <2> HIDE DEF W, After
  <2>2. step \in [1 .. 4 -> [W -> W]]
    BY <2>1
  <2> QED BY <2>2 DEF W
<1>2. \A k \in 1 .. 4 : \A wide \in W : step[k][wide] = After(k, wide)
  OBVIOUS
<1>3. ZerosBefore(starts, b) = zeros[4 - b]
  <2>1. Max({4 - b, 0}) = 4 - b
    BY DEF Max
  <2> QED BY <2>1 DEF ZerosBefore
<1> HIDE DEF step, W
<1>4. PICK g : Walk(4, W, {}, step, g)
  BY <1>1, WalkExists
<1>5. Solves(g)
  <2>1. /\ g \in [0 .. 4 -> W] /\ g[0] = {}
        /\ \A k \in 1 .. 4 : g[k] = step[k][g[k - 1]]
    BY <1>4 DEF Walk
  <2> HIDE DEF After
  <2>2. \A k \in 0 .. 4 : g[k] = IF k = 0 THEN {} ELSE After(k, g[k - 1])
    <3> SUFFICES ASSUME NEW k \in 0 .. 4, k # 0 PROVE g[k] = After(k, g[k - 1])
      BY <2>1
    <3>1. k \in 1 .. 4 /\ k - 1 \in 0 .. 4
      OBVIOUS
    <3> QED BY <1>2, <2>1, <3>1
  <2> QED BY <2>1, <2>2
<1>6. Solves(zeros)
  <2> HIDE DEF Solves
  <2> QED BY <1>5
<1> HIDE DEF zeros
<1>7. \A k \in 1 .. 4 : zeros[k] = After(k, zeros[k - 1])
  <2> HIDE DEF After
  <2> QED BY <1>6
<1> DEFINE at(k) == IF k <= j THEN s - k ELSE s - j
           S == {k \in 0 .. 4 - b : k # 0 => at(k) \in zeros[k]}
<1>8. ASSUME NEW k \in 1 .. 4 - b, k - 1 \in S PROVE k \in S
  <2>1. zeros[k] = zeros[k - 1] \cup Beside(0, IF k = 1 THEN starts ELSE zeros[k - 1], -1)
    BY <1>7
  <2>2. CASE k <= j
    <3>1. s - k \in Holding(0) /\ s - k - (-1) = s - (k - 1)
      BY <2>2
    <3>2. s - (k - 1) \in IF k = 1 THEN starts ELSE zeros[k - 1]
      BY <1>8, <2>2
    <3>3. s - k \in Beside(0, IF k = 1 THEN starts ELSE zeros[k - 1], -1)
      BY <3>1, <3>2, HoldingShown DEF Beside
    <3> QED BY <2>1, <2>2, <3>3
  <2>3. CASE k > j
    <3>1. at(k - 1) = s - j /\ at(k) = s - j /\ k # 1
      BY <2>3
    <3>2. at(k - 1) \in zeros[k - 1]
      BY <1>8, <3>1
    <3> QED BY <2>1, <3>1, <3>2
  <2> QED BY <2>2, <2>3
<1>9. 0 \in S /\ 4 - b \in Nat \ {0} /\ at(4 - b) = s - j
  OBVIOUS
<1>10. 4 - b \in S
  <2> HIDE DEF S, at
  <2>1. 0 .. 4 - b \subseteq S
    BY <1>8, <1>9, UpTo
  <2> QED BY <1>9, <2>1
<1> QED BY <1>3, <1>9, <1>10

\* What search() looks for, when it looks for a number as it is in the memory.
StandsFor(w, T, number) ==
  number = T[w] \/ (number = T[w] - Power(Byte, w) /\ 2 * T[w] >= Power(Byte, w))

LooksFor(w, T, number) ==
  \E u \in 1 .. w : Unsigned(number) = T[u] /\ (u = w \/ number # T[w])

LEMMA LookedFor ==
  ASSUME NEW w \in {1, 2, 4}, NEW c \in [0 .. w - 1 -> 0 .. Byte - 1],
         NEW T, Makes(w, Byte, c, T), NEW number, StandsFor(w, T, number)
  PROVE  LooksFor(w, T, number)
<1>1. w \in Nat /\ w \in 0 .. w /\ Power(Byte, w) \in Nat \ {0}
  <2>1. w \in Nat
    OBVIOUS
  <2> QED BY <2>1, NumbersAre, PowerIs
<1>2. T[w] \in Nat /\ T[w] < Power(Byte, w)
  BY <1>1, RestIs
<1>3. CASE number = T[w]
  <2>1. Unsigned(number) = T[w]
    BY <1>2, <1>3 DEF Unsigned
  <2> QED BY <1>1, <2>1 DEF LooksFor
<1>4. CASE number = T[w] - Power(Byte, w) /\ 2 * T[w] >= Power(Byte, w)
  <2>1. number \in Int /\ number < 0 /\ -Power(Byte, w) < number /\ number # T[w]
    BY <1>1, <1>2, <1>4
  <2>2. PICK u \in {1, 2, 4} : u <= w /\ Unsigned(number) = number % Power(Byte, u)
    BY <2>1, UnsignedIs
  <2> DEFINE p == Power(Byte, u)
             r == Power(Byte, w - u)
             t == T[u]
             q == T[w] \div p
  <2>3. p \in Nat \ {0} /\ r \in Nat \ {0} /\ Power(Byte, w) = p * r
    <3>1. u \in Nat /\ w - u \in Nat
      BY <2>2
    <3> QED BY <2>2, <3>1, <1>1, NumbersAre, PowerGrows, PowerIs
  <2>4. t \in 0 .. p - 1 /\ t = T[w] % p
    <3>1. u \in 0 .. w
      BY <2>2
    <3> QED BY <1>1, <3>1, RestIs
  <2>5. q \in Int /\ T[w] = p * q + t
    <3> HIDE DEF p, r, t
    <3>1. T[w] \in Int
      BY <1>2
    <3>2. T[w] = p * (T[w] \div p) + (T[w] % p) /\ T[w] \div p \in Int
      BY <2>3, <3>1, DivMod
    <3> QED BY <2>4, <3>2
  <2> HIDE DEF p, r, t, q
  <2>6. number = p * (q - r) + t /\ q - r \in Int
    <3> DEFINE x == p * q
               y == p * r
    <3>1. number = (x + t) - y
      BY <1>4, <2>3, <2>5
    <3>2. p * (q - r) = x - y /\ x \in Int /\ y \in Int /\ q - r \in Int
      BY <2>3, <2>5
    <3>3. t \in Int
      BY <2>3, <2>4
    <3> HIDE DEF x, y
    <3> QED BY <3>1, <3>2, <3>3
  <2>7. (p * (q - r) + t) % p = t
    BY <2>3, <2>4, <2>6, DivModIs, Zenon
  <2>8. Unsigned(number) = T[u]
    BY <2>2, <2>6, <2>7 DEF p, t
  <2>9. u \in 1 .. w
    BY <2>2
  <2> QED BY <2>1, <2>8, <2>9 DEF LooksFor
<1> QED BY <1>3, <1>4 DEF StandsFor

\* On a core that turns no words round a number is found where it is: in any type
\* of a byte and in every wider one, but numbers below zero in types of the
\* higher byte.
THEOREM SearchFinds ==
  ASSUME Turned = 1, mem \in Memories, NEW type \in ToSet(Types), NEW a, Inside(a, type),
         type.width = 1 \/ ~(type.big /\ type.signed)
  PROVE  a \in SearchValue(Decode(mem, a, type))
<1> DEFINE w == type.width
           c == BytesAt(mem, a, type)
           number == Decode(mem, a, type)
<1>1. w \in {1, 2, 4}
  BY WidthsAre
<1>2. c \in [0 .. w - 1 -> 0 .. Byte - 1]
  BY BytesAre
<1>3. PICK T : /\ Makes(w, Byte, c, T)
               /\ number = IF type.signed /\ 2 * T[w] >= Power(Byte, w)
                           THEN T[w] - Power(Byte, w) ELSE T[w]
  BY DecodeIs
<1>4. a \in Nat /\ \A i \in 0 .. w - 1 : a + i \in Addresses
  BY InsideIs
<1>5. \A r \in 0 .. w - 1 : /\ c[r] = mem[a + Place(type, r)]
                            /\ a + Place(type, r) \in Addresses
  <2>1. \A r \in 0 .. w - 1 : Place(type, r) \in 0 .. w - 1
    BY <1>1 DEF Place
  <2> QED BY <1>4, <2>1 DEF BytesAt
<1> HIDE DEF w, c, number
<1>6. LooksFor(w, T, number)
  <2>1. StandsFor(w, T, number)
    BY <1>3 DEF StandsFor
  <2> QED BY <1>1, <1>2, <1>3, <2>1, LookedFor
<1>7. PICK u \in 1 .. w : Unsigned(number) = T[u] /\ (u = w \/ number # T[w])
  BY <1>6 DEF LooksFor
<1> DEFINE n == T[u]
           b == ByteCount(n)
<1>8. Shown(w, c, n) /\ b <= u /\ \A r \in ByteCount(T[w]) .. w - 1 : c[r] = 0
  BY <1>1, <1>2, <1>3, ShownIs
<1>9. b \in 1 .. w /\ \A k \in 1 .. b : Low(n, k) = c[k - 1]
  <2> HIDE DEF n
  <2> QED BY <1>8 DEF Shown
<1>10. SearchValue(number) =
         {x \in Addresses : \/ x \in Runs(n).start /\ x + b - 1 \in Runs(n).end
                            \/ x \in ZerosBefore(Runs(n).start, b)}
  BY <1>7 DEF SearchValue
<1>11. a \in Addresses
  <2>1. 0 \in 0 .. w - 1 /\ a + 0 = a
    BY <1>1, <1>4
  <2> QED BY <1>4, <2>1
<1> HIDE DEF n, b
<1>12. b \in Nat \ {0} /\ b = ByteCount(n) /\ b \in 1 .. 4
  BY <1>1, <1>9 DEF b
<1>13. CASE ~type.big
  <2>1. ASSUME NEW k \in 1 .. b PROVE a + (k - 1) \in Holding(Low(n, k))
    <3>1. k - 1 \in 0 .. w - 1 /\ Place(type, k - 1) = k - 1
      BY <1>1, <1>9, <1>13 DEF Place
    <3> QED BY <1>5, <1>9, <3>1, HoldingShown
  <2>2. a \in Runs(n).start /\ a + (b - 1) \in Runs(n).end
    BY <1>4, <1>12, <2>1, RunUp
  <2>3. a + (b - 1) = a + b - 1
    BY <1>4, <1>12
  <2> QED BY <1>10, <1>11, <2>2, <2>3 DEF number
<1>14. CASE type.big
  <2> DEFINE e == a + (w - 1)
  <2>1. u = w
    <3>1. CASE w = 1
      BY <1>7, <3>1
    <3>2. CASE ~type.signed
      BY <1>3, <1>7, <3>2
    <3> QED BY <1>14, <3>1, <3>2 DEF w
  <2>2. ASSUME NEW r \in 0 .. w - 1 PROVE Place(type, r) = w - 1 - r
    BY <1>14 DEF Place, w
  <2>3. ASSUME NEW k \in 1 .. b PROVE e - (k - 1) \in Holding(Low(n, k))
    <3>1. k - 1 \in 0 .. w - 1
      BY <1>1, <1>9
    <3>2. a + Place(type, k - 1) = e - (k - 1)
      BY <1>1, <1>4, <2>2, <3>1
    <3> QED BY <1>5, <1>9, <3>1, <3>2, HoldingShown
  <2>4. e \in Nat
    BY <1>1, <1>4
  <2> HIDE DEF e
  <2>5. e - (b - 1) \in Runs(n).start /\ e \in Runs(n).end
    BY <1>12, <2>3, <2>4, RunDown
  <2>6. CASE b = w
    <3>1. e - (b - 1) = a /\ a + b - 1 = e
      BY <1>1, <1>4, <2>6 DEF e
    <3> QED BY <1>10, <1>11, <2>5, <3>1 DEF number
  <2>7. CASE b # w
    <3> DEFINE s == e - (b - 1)
               j == w - b
    <3>1. s \in Nat /\ j \in 1 .. 4 - b /\ s - j = a
      BY <1>1, <1>4, <1>9, <2>7 DEF e
    <3>2. ASSUME NEW i \in 1 .. j PROVE s - i \in Holding(0)
      <4> DEFINE r == b + i - 1
      <4>1. r \in b .. w - 1 /\ r \in 0 .. w - 1 /\ s - i = a + (w - 1 - r)
        BY <1>1, <1>4, <1>9, <2>7 DEF e
      <4>2. c[r] = 0
        BY <1>8, <2>1, <4>1 DEF b, n
      <4> HIDE DEF r, s
      <4>3. s - i = a + Place(type, r)
        BY <2>2, <4>1
      <4> QED BY <1>5, <4>1, <4>2, <4>3, HoldingShown
    <3>3. s \in Runs(n).start
      BY <2>5
    <3> HIDE DEF s, j
    <3>4. s - j \in ZerosBefore(Runs(n).start, b)
      BY <1>12, <3>1, <3>2, <3>3, ZerosAre
    <3> QED BY <1>10, <1>11, <3>1, <3>4 DEF number
  <2> QED BY <2>6, <2>7
<1> QED BY <1>13, <1>14
-----------------------------------------------------------------------------
(***************************************************************************)
(* The iterator of reduceOnTypes gets to what is owed.                     *)
(***************************************************************************)
LEMMA BlocksApart ==
  ASSUME NEW j \in DOMAIN Blocks, NEW k \in DOMAIN Blocks, j < k
  PROVE  Blocks[j].base + Blocks[j].size <= Blocks[k].base
<1> DEFINE ends == Blocks[j].base + Blocks[j].size
           S == {i \in 0 .. Len(Blocks) : i > j => ends <= Blocks[i].base}
<1>1. 0 \in S /\ Len(Blocks) \in Nat
  BY BlocksAre
<1>2. ASSUME NEW i \in 1 .. Len(Blocks), i - 1 \in S PROVE i \in S
  <2>1. i \in DOMAIN Blocks /\ Blocks[i].base \in Nat /\ ends \in Nat
    BY BlocksAre
  <2>2. CASE i = j + 1
    <3>1. i \in 2 .. Len(Blocks) /\ i - 1 = j
      BY <2>2, BlocksAre
    <3>2. Blocks[i - 1].base + Blocks[i - 1].size <= Blocks[i].base
      BY <3>1, SearchAssumption
    <3> QED BY <3>1, <3>2
  <2>3. CASE i > j + 1
    <3>1. i \in 2 .. Len(Blocks) /\ i - 1 \in DOMAIN Blocks /\ i - 1 > j
      BY <2>3, BlocksAre
    <3>2. Blocks[i - 1].base + Blocks[i - 1].size <= Blocks[i].base
      BY <3>1, SearchAssumption
    <3>3. ends <= Blocks[i - 1].base
      BY <1>2, <3>1
    <3>4. Blocks[i - 1].base \in Nat /\ Blocks[i - 1].size \in Nat
      BY <3>1, BlocksAre
    <3> HIDE DEF ends
    <3>5. ends <= Blocks[i].base
      BY <2>1, <3>2, <3>3, <3>4
    <3> QED BY <3>5
  <2>4. CASE i <= j
    BY <2>4, BlocksAre
  <2> QED BY <2>2, <2>3, <2>4, BlocksAre
<1>3. k \in S
  <2> HIDE DEF S
  <2>1. 0 .. Len(Blocks) \subseteq S
    BY <1>1, <1>2, UpTo
  <2> QED BY <2>1, BlocksAre
<1> QED BY <1>3

LEMMA InOneBlock ==
  ASSUME NEW j \in DOMAIN Blocks, NEW k \in DOMAIN Blocks,
         NEW a \in Within(Blocks[j]), NEW b \in Within(Blocks[k]), j < k
  PROVE  a < b /\ a < Blocks[k].base
<1>1. Blocks[j].base + Blocks[j].size <= Blocks[k].base
  BY BlocksApart
<1>2. /\ Blocks[j].base \in Nat /\ Blocks[j].size \in Nat
      /\ Blocks[k].base \in Nat /\ Blocks[k].size \in Nat
  BY BlocksAre
<1> QED BY <1>1, <1>2 DEF Within

\* Types of a byte: a block leaves behind all that is in it.
LEMMA LeftOfBytes ==
  ASSUME NEW type \in ToSet(Types), type.width = 1, NEW addresses \in SUBSET Addresses
  PROVE  \A k \in 0 .. Len(Blocks) : Left(type, addresses)[k] =
           {x \in addresses : \E j \in 1 .. k : x \in Within(Blocks[j])}
<1> DEFINE n == Len(Blocks)
           left == Left(type, addresses)
           Behind(k) == {x \in addresses : \E j \in 1 .. k : x \in Within(Blocks[j])}
           S == {k \in 0 .. n : left[k] = Behind(k)}
<1>1. Leaves(left, type, addresses)
  BY LeftIs
<1> HIDE DEF left
<1>2. DOMAIN Blocks = 1 .. n /\ n \in Nat
  BY BlocksAre
<1>3. \A x \in addresses : x \in Nat /\ \E j \in DOMAIN Blocks : x \in Within(Blocks[j])
  BY AddressesAre DEF Addresses
<1>4. ASSUME NEW k \in 1 .. n, k - 1 \in S PROVE k \in S
  <2>1. /\ k \in DOMAIN Blocks /\ Blocks[k].base \in Nat /\ Blocks[k].size \in Nat
        /\ left[k - 1] = Behind(k - 1)
    BY <1>2, <1>4, BlocksAre
  <2>2. left[k] = {x \in addresses : \A b \in addresses \ Behind(k - 1) :
                     b <= x => Fits(type, b, Blocks[k])}
    BY <1>1, <2>1 DEF Leaves
  <2>3. ASSUME NEW b \in addresses \ Behind(k - 1)
        PROVE  b >= Blocks[k].base /\ (Fits(type, b, Blocks[k]) <=> b \in Within(Blocks[k]))
    <3>1. PICK j \in DOMAIN Blocks : b \in Within(Blocks[j])
      BY <1>3
    <3>2. b \in Nat /\ b \in addresses
      BY <1>3
    <3>3. j \notin 1 .. k - 1
      BY <2>3, <3>1
    <3>4. j = k \/ k < j
      BY <1>2, <3>3
    <3>5. b >= Blocks[k].base
      <4>1. CASE j = k
        BY <2>1, <3>1, <4>1 DEF Within
      <4>2. CASE k < j
        <5>1. Blocks[k].base + Blocks[k].size <= Blocks[j].base
          BY <2>1, <4>2, BlocksApart
        <5>2. Blocks[j].base \in Nat /\ Blocks[j].size \in Nat /\ b >= Blocks[j].base
          BY <3>1, BlocksAre DEF Within
        <5> QED BY <2>1, <3>2, <5>1, <5>2
      <4> QED BY <3>4, <4>1, <4>2
    <3> QED BY <2>1, <3>2, <3>5, SMTT(20) DEF Fits, Within
  <2>4. left[k] = {x \in addresses : \A b \in addresses \ Behind(k - 1) :
                     b <= x => b \in Within(Blocks[k])}
    <3> HIDE DEF Behind
    <3> QED BY <2>2, <2>3
  <2>5. ASSUME NEW x \in addresses, \A b \in addresses \ Behind(k - 1) :
                                      b <= x => b \in Within(Blocks[k])
        PROVE  x \in Behind(k)
    <3>1. CASE x \in Behind(k - 1)
      <4>1. PICK j \in 1 .. k - 1 : x \in Within(Blocks[j])
        BY <3>1
      <4>2. j \in 1 .. k
        OBVIOUS
      <4> QED BY <4>1, <4>2
    <3>2. CASE x \notin Behind(k - 1)
      <4>1. x <= x
        BY <1>3
      <4>2. x \in Within(Blocks[k])
        BY <2>5, <3>2, <4>1
      <4>3. k \in 1 .. k
        OBVIOUS
      <4> QED BY <4>2, <4>3
    <3> QED BY <3>1, <3>2
  <2>6. ASSUME NEW x \in Behind(k), NEW b \in addresses \ Behind(k - 1), b <= x
        PROVE  b \in Within(Blocks[k])
    <3>1. PICK j \in 1 .. k : x \in Within(Blocks[j])
      OBVIOUS
    <3>2. x \in Nat /\ b \in Nat /\ b >= Blocks[k].base /\ j \in DOMAIN Blocks
      BY <1>2, <1>3, <2>3
    <3>3. CASE j = k
      BY <2>1, <2>6, <3>1, <3>2, <3>3 DEF Within
    <3>4. CASE j < k
      <4>1. Blocks[j].base + Blocks[j].size <= Blocks[k].base
        BY <2>1, <3>2, <3>4, BlocksApart
      <4>2. Blocks[j].base \in Nat /\ Blocks[j].size \in Nat
        BY <3>2, BlocksAre
      <4>3. x <= Blocks[j].base + Blocks[j].size - 1
        BY <3>1 DEF Within
      <4> QED BY <2>1, <2>6, <3>2, <4>1, <4>2, <4>3
    <3> QED BY <3>3, <3>4
  <2>7. left[k] = Behind(k)
    <3>1. Behind(k) \subseteq addresses
      OBVIOUS
    <3> HIDE DEF Behind
    <3> QED BY <2>4, <2>5, <2>6, <3>1
  <2> QED BY <2>7
<1>5. 0 \in S
  BY <1>1, <1>2 DEF Leaves
<1>6. 0 .. n \subseteq S
  <2> HIDE DEF S
  <2> QED BY <1>2, <1>4, <1>5, UpTo
<1> QED BY <1>6 DEF left

\* An address that is inside a block is reached in it, for a type of a byte
\* wherever it is, for a wider one in the first block.
LEMMA OwedReached ==
  ASSUME NEW type \in ToSet(Types), NEW addresses \in SUBSET Addresses,
         NEW a \in addresses, Inside(a, type),
         type.width = 1 \/ a \in Within(Blocks[1])
  PROVE  a \in Reached(type, addresses)
<1> DEFINE left == Left(type, addresses)
<1>1. PICK k \in DOMAIN Blocks : a \in Within(Blocks[k]) /\ Fits(type, a, Blocks[k])
  BY DEF Inside
<1>2. /\ DOMAIN Blocks = 1 .. Len(Blocks) /\ Len(Blocks) \in Nat
      /\ Blocks[k].base \in Nat /\ Blocks[k].size \in Nat /\ type.width \in Nat \ {0}
  BY BlocksAre, TypesAre
<1>3. a \in Nat /\ a >= Blocks[k].base
  BY <1>1, <1>2 DEF Within
<1>4. CASE type.width = 1
  <2>1. k \in 0 .. Len(Blocks) /\ k - 1 \in 0 .. Len(Blocks)
    BY <1>2
  <2>2. /\ left[k] = {x \in addresses : \E j \in 1 .. k : x \in Within(Blocks[j])}
        /\ left[k - 1] = {x \in addresses : \E j \in 1 .. k - 1 : x \in Within(Blocks[j])}
    BY <1>4, <2>1, LeftOfBytes
  <2> HIDE DEF left
  <2>3. a \in left[k]
    <3>1. k \in 1 .. k
      BY <1>2
    <3> QED BY <1>1, <2>2, <3>1
  <2>4. a \notin left[k - 1]
    <3> SUFFICES ASSUME NEW j \in 1 .. k - 1, a \in Within(Blocks[j]) PROVE FALSE
      BY <2>2
    <3>1. j \in DOMAIN Blocks /\ j < k
      BY <1>2
    <3>2. a < a
      BY <1>1, <3>1, InOneBlock
    <3> QED BY <1>3, <3>2
  <2> QED BY <1>3, <2>3, <2>4 DEF Reached, left
<1>5. CASE a \in Within(Blocks[1])
  <2>1. 1 \in DOMAIN Blocks /\ k = 1
    <3>1. 1 \in DOMAIN Blocks
      BY <1>2
    <3>2. CASE 1 < k
      <4>1. a < a
        BY <1>1, <1>5, <3>1, <3>2, InOneBlock
      <4> QED BY <1>3, <4>1
    <3> QED BY <1>2, <3>1, <3>2
  <2>2. left[0] = {} /\ left[1] = {x \in addresses : \A b \in addresses \ left[1 - 1] :
                                      b <= x => Fits(type, b, Blocks[1])}
    <3>1. Leaves(left, type, addresses)
      BY LeftIs
    <3> HIDE DEF left
    <3> QED BY <2>1, <3>1 DEF Leaves
  <2> HIDE DEF left
  <2>3. ASSUME NEW b \in addresses, b <= a PROVE Fits(type, b, Blocks[1])
    <3>1. PICK j \in DOMAIN Blocks : b \in Within(Blocks[j])
      BY DEF Addresses
    <3>2. b \in Nat /\ Blocks[j].base \in Nat /\ Blocks[j].size \in Nat
          /\ b >= Blocks[j].base
      BY <3>1, BlocksAre, AddressesAre DEF Within
    <3>3. b >= Blocks[1].base
      <4>1. CASE j = 1
        BY <3>2, <4>1
      <4>2. CASE 1 < j
        <5>1. Blocks[1].base + Blocks[1].size <= Blocks[j].base
          BY <2>1, <4>2, BlocksApart
        <5> QED BY <1>2, <2>1, <3>2, <5>1
      <4> QED BY <1>2, <4>1, <4>2
    <3> QED BY <1>1, <1>2, <1>3, <2>1, <2>3, <3>2, <3>3, SMTT(20) DEF Fits
  <2>4. a \in left[1] \ left[1 - 1]
    BY <2>2, <2>3
  <2> QED BY <1>3, <2>1, <2>4 DEF Reached, left
<1> QED BY <1>4, <1>5
-----------------------------------------------------------------------------
(***************************************************************************)
(* Nothing that is owed goes missing.                                      *)
(***************************************************************************)
LEMMA DecodesWhole ==
  ASSUME mem \in Memories, NEW type \in ToSet(Types), NEW a, Inside(a, type)
  PROVE  Decode(mem, a, type) \in Int
<1> DEFINE w == type.width
           c == BytesAt(mem, a, type)
<1>1. w \in Nat /\ c \in [0 .. w - 1 -> 0 .. Byte - 1] /\ w \in 0 .. w
  BY TypesAre, BytesAre
<1>2. Power(Byte, w) \in Nat
  BY <1>1, NumbersAre, PowerIs
<1>3. PICK T : /\ Makes(w, Byte, c, T)
               /\ Decode(mem, a, type) =
                    IF type.signed /\ 2 * T[w] >= Power(Byte, w)
                    THEN T[w] - Power(Byte, w) ELSE T[w]
  BY DecodeIs
<1> HIDE DEF w, c
<1>4. T[w] \in Nat
  BY <1>1, <1>3, RestIs
<1> QED BY <1>2, <1>3, <1>4

\* A result that is owed is the number itself, or one more, or one less.
LEMMA OwedIs ==
  ASSUME NEW r \in Everything, Owed(r)
  PROVE  /\ r.address \in Addresses /\ r.type \in ToSet(Types)
         /\ r.mult = 1 /\ r.div = 1 /\ r.bias \in {-1, 0, 1}
         /\ r = [address |-> r.address, mult |-> 1, div |-> 1, bias |-> r.bias,
                 type |-> r.type]
<1>1. PICK way \in UNION {Ways(v) : v \in Wanted}, a \in Addresses, i \in DOMAIN Types :
        r = Typed(At(a, way[1]), Types[i])
  BY DEF Everything
<1>2. PICK v \in Wanted : way \in Ways(v)
  OBVIOUS
<1>3. v \in Int
  BY SearchAssumption
<1>4. way[1].bias \in {-1, 0, 1}
  BY <1>2, <1>3, WaysAre
<1>5. r = [address |-> a, mult |-> way[1].mult, div |-> way[1].div, bias |-> way[1].bias,
           type |-> Types[i]]
  BY <1>1 DEF Typed, At
<1>6. Types[i] \in ToSet(Types)
  BY DEF ToSet
<1>7. r.mult = 1 /\ r.div = 1
  BY DEF Owed
<1> QED BY <1>4, <1>5, <1>6, <1>7

\* It is among what a search for a value finds, when it fits the value.
LEMMA OwedIsHit ==
  ASSUME Turned = 1, mem \in Memories, NEW value \in Int,
         NEW r \in Everything, Owed(r), Inside(r.address, r.type),
         Reads(r, Decode(mem, r.address, r.type), value)
  PROVE  r \in Hits(Candidates(value), r.type, value)
<1> DEFINE a == r.address
           type == r.type
           number == Decode(mem, a, type)
           way == [Direct EXCEPT !.bias = r.bias]
           c == At(a, way)
           addresses == {d.address : d \in Candidates(value)}
<1>1. /\ type \in ToSet(Types) /\ r.mult = 1 /\ r.div = 1 /\ r.bias \in {-1, 0, 1}
      /\ r = [address |-> a, mult |-> 1, div |-> 1, bias |-> r.bias, type |-> type]
  BY OwedIs
<1>2. number \in Int
  BY <1>1, DecodesWhole
<1>3. number = value + r.bias
  <2>1. (number \div 1) * 1 - r.bias = value
    BY <1>1 DEF Reads
  <2> HIDE DEF number
  <2> QED BY <1>1, <1>2, <2>1
<1>4. a \in SearchValue(number)
  BY <1>1, SearchFinds DEF Owed
<1> HIDE DEF number
<1>5. <<way, number>> \in Ways(value)
  <2>1. CASE r.bias = 0
    <3>1. way = Direct /\ number = value
      BY <1>3, <2>1 DEF Direct
    <3> QED BY <3>1 DEF Ways
  <2>2. CASE r.bias \in {-1, 1}
    BY <1>3, <2>2 DEF Ways
  <2> QED BY <1>1, <2>1, <2>2
<1>6. c \in Candidates(value)
  <2> DEFINE pair == <<way, number>>
  <2>1. pair \in Ways(value) /\ a \in SearchValue(pair[2]) /\ c = At(a, pair[1])
    BY <1>4, <1>5
  <2> HIDE DEF pair, c
  <2> QED BY <2>1 DEF Candidates
<1>7. c = [address |-> a, mult |-> 1, div |-> 1, bias |-> r.bias]
  BY DEF At, Direct
<1> HIDE DEF c, a, type
<1>8. addresses \subseteq Addresses
  <2> SUFFICES ASSUME NEW d \in Candidates(value) PROVE d.address \in Addresses
    OBVIOUS
  <2>1. PICK x \in Addresses, other \in Ways(value) : d = At(x, other[1])
    BY CandidatesAre
  <2> QED BY <2>1 DEF At
<1>9. a \in addresses
  BY <1>6, <1>7
<1> HIDE DEF addresses
<1>10. a \in Reached(type, addresses)
  <2>1. type.width = 1 \/ a \in Within(Blocks[1])
    BY DEF Owed, a, type
  <2>2. Inside(a, type)
    BY DEF a, type
  <2> QED BY <1>1, <1>8, <1>9, <2>1, <2>2, OwedReached
<1>11. Reads(c, Decode(mem, c.address, type), value)
  <2>1. Reads(r, Decode(mem, a, type), value) /\ c.address = a
    BY <1>7 DEF a, type
  <2> QED BY <1>1, <1>7, <2>1 DEF Reads
<1>12. r = Typed(c, type)
  BY <1>1, <1>7 DEF Typed
<1>13. c.address = a
  BY <1>7
<1>14. r \in Hits(Candidates(value), type, value)
  BY <1>6, <1>10, <1>11, <1>12, <1>13 DEF Hits, addresses
<1> QED BY <1>14 DEF type

\* It is among what a search for a change finds, when it changed so.
LEMMA OwedIsChange ==
  ASSUME NEW s, NEW old, NEW change, NEW r \in Everything, Owed(r),
         Inside(r.address, r.type), s.started => r \in ToSet(s.current),
         Untyped(r) = At(r.address, Direct), Differs(old, r.address, r.type, change)
  PROVE  r \in Changes(s, old, r.type, change)
<1> DEFINE places == IF s.started
                     THEN {x.address : x \in {q \in ToSet(s.current) : q.type = r.type}}
                     ELSE Addresses
<1>1. r.address \in places
  BY OwedIs
<1>2. r.bias = 0
  BY DEF Untyped, At, Direct
<1>3. r = Typed(At(r.address, Direct), r.type)
  <2>1. r = [address |-> r.address, mult |-> 1, div |-> 1, bias |-> r.bias,
             type |-> r.type]
    BY OwedIs
  <2> QED BY <1>2, <2>1 DEF Typed, At, Direct
<1>4. Changes(s, old, r.type, change) =
        {Typed(At(a, Direct), r.type) : a \in {a \in places :
           Inside(a, r.type) /\ Differs(old, a, r.type, change)}}
  BY DEF Changes
<1> HIDE DEF places
<1> QED BY <1>1, <1>3, <1>4

LEMMA IntersectTypes ==
  ASSUME NEW s \in SearchState, NEW results
  PROVE  Intersect(s, results).types = s.types
<1> DEFINE current == IF s.started THEN IntersectCurrent(s.current, results)
                      ELSE results
<1>1. s = [started |-> s.started, types |-> s.types, current |-> s.current]
  BY DEF SearchState
<1>2. Intersect(s, results) = [s EXCEPT !.started = TRUE, !.current = current]
  BY DEF Intersect
<1> HIDE DEF current
<1> QED BY <1>1, <1>2

\* A search has what is owed of all that is not refuted: no type of it is given
\* up, and once there are results, it is among them.
Keeps(s, unrefuted) ==
  /\ \A r \in unrefuted : r \in Everything /\ Inside(r.address, r.type)
  /\ \A r \in unrefuted : Owed(r) =>
       r.type \in s.types /\ (s.started => r \in ToSet(s.current))

LostInv ==
  /\ mem \in Memories
  /\ search # None => Keeps(search, open)
  /\ TakenIsLast

LEMMA CurrentKeeps ==
  ASSUME LostInv
  PROVE  Keeps(Current, Unrefuted)
<1>1. CASE search = None
  <2>1. /\ Current = NewSearch
        /\ Unrefuted = {r \in Everything : Inside(r.address, r.type)}
    BY <1>1 DEF Current, Unrefuted
  <2>2. NewSearch.types = ToSet(Types) /\ ~NewSearch.started
    BY DEF NewSearch
  <2>3. \A r \in Everything : Owed(r) => r.type \in ToSet(Types)
    BY OwedIs
  <2> QED BY <2>1, <2>2, <2>3 DEF Keeps
<1>2. CASE search # None
  BY <1>2 DEF Current, Unrefuted, LostInv
<1> QED BY <1>1, <1>2

LEMMA SearchedKeeps ==
  ASSUME Turned = 1, SearchInv, LostInv, NEW value \in Wanted
  PROVE  /\ Keeps(Searched(value).search, Searched(value).open)
         /\ Searched(value).search.started
<1> DEFINE s == Current
           hits == UNION {Hits(Candidates(value), type, value) : type \in s.types}
           results == InOrder(hits)
           after == Searched(value)
<1>1. Ready(s, Unrefuted) /\ Keeps(s, Unrefuted) /\ mem \in Memories
  BY CurrentReady, CurrentKeeps DEF LostInv
<1>2. s \in SearchState /\ Sorted(s.current) /\ s.types \subseteq ToSet(Types)
  BY <1>1 DEF Ready, SearchState
<1>3. value \in Int
  BY SearchAssumption
<1>4. /\ after.search = Intersect(s, results)
      /\ after.open = {r \in Unrefuted : Reads(r, Decode(mem, r.address, r.type), value)}
  BY DEF Searched, SearchFor, ReduceOnTypes
<1>5. hits \in SUBSET Result /\ IsFiniteSet(hits)
  <2>1. hits \in SUBSET Possible(value)
    <3> SUFFICES ASSUME NEW type \in s.types, NEW r \in Hits(Candidates(value), type, value)
                 PROVE  r \in Possible(value)
      OBVIOUS
    <3>1. type \in ToSet(Types)
      BY <1>2
    <3> HIDE DEF s
    <3> QED BY <1>3, <3>1, HitsAre
  <2> QED BY <1>3, <2>1, PossibleIs, FS_Subset
<1> HIDE DEF s, hits, after
<1>6. Sorted(results) /\ ToSet(results) = hits
  BY <1>5, InOrderIs
<1> HIDE DEF results
<1>7. /\ Fine(after.search) /\ after.search.types = s.types
      /\ ToSet(after.search.current) =
           IF s.started THEN ToSet(s.current) \cap hits ELSE hits
  BY <1>2, <1>4, <1>6, IntersectIs, IntersectTypes
<1>8. ASSUME NEW r \in after.open, Owed(r)
      PROVE  r.type \in after.search.types /\ r \in ToSet(after.search.current)
  <2>1. /\ r \in Unrefuted /\ Reads(r, Decode(mem, r.address, r.type), value)
        /\ r \in Everything /\ Inside(r.address, r.type)
        /\ r.type \in s.types /\ (s.started => r \in ToSet(s.current))
    BY <1>1, <1>4, <1>8 DEF Keeps
  <2>2. r \in Hits(Candidates(value), r.type, value)
    BY <1>1, <1>3, <1>8, <2>1, OwedIsHit
  <2>3. r \in hits
    BY <2>1, <2>2 DEF hits
  <2> QED BY <1>7, <2>1, <2>3
<1>9. \A r \in after.open : r \in Everything /\ Inside(r.address, r.type)
  BY <1>1, <1>4 DEF Keeps
<1>10. Keeps(after.search, after.open)
  BY <1>8, <1>9 DEF Keeps
<1>11. after.search.started
  BY <1>7 DEF Fine
<1> QED BY <1>10, <1>11 DEF after

LEMMA DeltaKeeps ==
  ASSUME SearchInv, LostInv, NEW change
  PROVE  /\ Keeps(DeltaSearched(change).search, DeltaSearched(change).open)
         /\ DeltaSearched(change).search.started
<1> DEFINE s == Current
           old == Since
           changed == UNION {Changes(s, old, type, change) : type \in s.types}
           results == InOrder(changed)
           left == [s EXCEPT !.types = {type \in @ : Changes(s, old, type, change) # {}}]
           after == DeltaSearched(change)
<1>1. Ready(s, Unrefuted) /\ Keeps(s, Unrefuted)
  BY CurrentReady, CurrentKeeps
<1>2. /\ s \in SearchState /\ Sorted(s.current) /\ s.types \subseteq ToSet(Types)
      /\ s = [started |-> s.started, types |-> s.types, current |-> s.current]
  BY <1>1 DEF Ready, SearchState
<1>3. /\ after.search = Intersect(left, results)
      /\ after.open = {r \in Unrefuted : /\ Untyped(r) = At(r.address, Direct)
                                         /\ Differs(old, r.address, r.type, change)}
  BY DEF DeltaSearched, Delta
<1> HIDE DEF s, old
<1>4. changed \in SUBSET Result /\ IsFiniteSet(changed)
  <2>1. changed \in SUBSET Possible(0)
    <3> SUFFICES ASSUME NEW type \in s.types, NEW r \in Changes(s, old, type, change)
                 PROVE  r \in Possible(0)
      OBVIOUS
    <3>1. type \in ToSet(Types)
      BY <1>2
    <3> QED BY <3>1, ChangesAre
  <2> QED BY <2>1, PossibleIs, FS_Subset
<1>5. /\ left \in SearchState /\ left.current = s.current /\ left.started = s.started
      /\ left.types = {type \in s.types : Changes(s, old, type, change) # {}}
  BY <1>2 DEF SearchState
<1> HIDE DEF changed, after, left
<1>6. Sorted(results) /\ ToSet(results) = changed
  BY <1>4, InOrderIs
<1> HIDE DEF results
<1>7. /\ Fine(after.search) /\ after.search.types = left.types
      /\ ToSet(after.search.current) =
           IF s.started THEN ToSet(s.current) \cap changed ELSE changed
  BY <1>2, <1>3, <1>5, <1>6, IntersectIs, IntersectTypes
<1>8. ASSUME NEW r \in after.open, Owed(r)
      PROVE  r.type \in after.search.types /\ r \in ToSet(after.search.current)
  <2>1. /\ r \in Unrefuted /\ Untyped(r) = At(r.address, Direct)
        /\ Differs(old, r.address, r.type, change)
        /\ r \in Everything /\ Inside(r.address, r.type)
        /\ r.type \in s.types /\ (s.started => r \in ToSet(s.current))
    BY <1>1, <1>3, <1>8 DEF Keeps
  <2>2. r \in Changes(s, old, r.type, change)
    BY <1>8, <2>1, OwedIsChange
  <2>3. r \in changed
    BY <2>1, <2>2 DEF changed
  <2>4. r.type \in left.types
    BY <1>5, <2>1, <2>2
  <2> QED BY <1>7, <2>1, <2>3, <2>4
<1>9. \A r \in after.open : r \in Everything /\ Inside(r.address, r.type)
  BY <1>1, <1>3 DEF Keeps
<1>10. Keeps(after.search, after.open)
  BY <1>8, <1>9 DEF Keeps
<1>11. after.search.started
  BY <1>7 DEF Fine
<1> QED BY <1>10, <1>11 DEF after

LEMMA ConcludesKeeps ==
  ASSUME LostInv, NEW after, Keeps(after.search, after.open), after.search.started,
         NEW unique, unique => HasUniqueResult(after.search), Concludes(after, unique)
  PROVE  LostInv'
<1>1. /\ search' = IF unique THEN None ELSE after.search
      /\ found' = IF unique THEN Head(after.search.current) ELSE None
      /\ open' = after.open /\ mem' = mem
  BY DEF Concludes
<1>2. search' # None => Keeps(search', open')
  BY <1>1
<1>3. ASSUME found' # None, NEW r \in open', Owed(r)
      PROVE  r.address = found'.address \/ End(r) = End(found')
  <2>1. unique /\ found' = Head(after.search.current)
    BY <1>1, <1>3
  <2>2. r \in ToSet(after.search.current)
    BY <1>1, <1>3 DEF Keeps
  <2>3. \/ Untyped(r) = Untyped(Head(after.search.current))
        \/ End(r) = End(Head(after.search.current))
    BY <2>1, <2>2 DEF HasUniqueResult
  <2> QED BY <2>1, <2>3, UntypedIs
<1>4. TakenIsLast'
  BY <1>3 DEF TakenIsLast
<1>5. (search # None => Keeps(search, open))'
  BY <1>2 DEF Keeps
<1> QED BY <1>1, <1>4, <1>5 DEF LostInv

LEMMA LostStarts == Init => LostInv
  BY DEF Init, LostInv, TakenIsLast

LEMMA LostStays ==
  ASSUME Turned = 1
  PROVE  SearchInv /\ LostInv /\ [Next]_vars => LostInv'
<1> SUFFICES ASSUME SearchInv, LostInv, [Next]_vars PROVE LostInv'
  OBVIOUS
<1>1. CASE Frame
  BY <1>1 DEF Frame, LostInv, TakenIsLast
<1>2. CASE RemoveSearch
  BY <1>2 DEF RemoveSearch, LostInv, TakenIsLast
<1>3. ASSUME NEW value \in Wanted, Search(value) \/ PerformSearch(Searched(value))
      PROVE  LostInv'
  <2>1. Keeps(Searched(value).search, Searched(value).open) /\ Searched(value).search.started
    BY SearchedKeeps
  <2>2. CASE Search(value)
    BY <2>1, <2>2, ConcludesKeeps DEF Search
  <2>3. CASE PerformSearch(Searched(value))
    BY <2>1, <2>3, ConcludesKeeps DEF PerformSearch
  <2> QED BY <1>3, <2>2, <2>3
<1>4. ASSUME NEW change \in Deltas,
             DeltaSearch(change) \/ PerformSearch(DeltaSearched(change))
      PROVE  LostInv'
  <2>1. /\ Keeps(DeltaSearched(change).search, DeltaSearched(change).open)
        /\ DeltaSearched(change).search.started
    BY DeltaKeeps
  <2>2. CASE DeltaSearch(change)
    BY <2>1, <2>2, ConcludesKeeps DEF DeltaSearch
  <2>3. CASE PerformSearch(DeltaSearched(change))
    BY <2>1, <2>3, ConcludesKeeps DEF PerformSearch
  <2> QED BY <1>4, <2>2, <2>3
<1>5. CASE UNCHANGED vars
  BY <1>5 DEF vars, LostInv, TakenIsLast
<1> QED BY <1>1, <1>2, <1>3, <1>4, <1>5 DEF Next

LEMMA LostAlways ==
  ASSUME Turned = 1
  PROVE  Spec => []LostInv
<1>1. SearchInv /\ LostInv /\ [Next]_vars => LostInv'
  BY LostStays
<1> QED BY <1>1, LostStarts, SearchAlways, PTL DEF Spec

\* What the user looks for is never lost on a core whose overlay turns no words
\* round: a number that fits all the values and all the changes that were
\* searched for is among the results, as itself or off by one, when it is of one
\* byte or is in the first block and is not of a type that may be below zero with
\* the higher byte first.
THEOREM NothingIsLost ==
  ASSUME Turned = 1
  PROVE  Spec => []NothingLost
<1>1. SearchInv /\ LostInv => NothingLost
  BY DEF SearchInv, Fine, LostInv, Keeps, NothingLost
<1> QED BY <1>1, SearchAlways, LostAlways, PTL

\* When the UI takes a variable on such a core, no other place fits what was
\* searched for.
THEOREM TakenWasTheLast ==
  ASSUME Turned = 1
  PROVE  Spec => []TakenIsLast
<1>1. LostInv => TakenIsLast
  BY DEF LostInv
<1> QED BY <1>1, LostAlways, PTL
===============================================================================
