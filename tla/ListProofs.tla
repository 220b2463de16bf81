----------------------------- MODULE ListProofs -----------------------------
(***************************************************************************)
(* What the proofs about several components share: the least number of a   *)
(* set, counting and walking up to a number, that a set in a strict order  *)
(* is listed without a loss, the prefixes of sequences, division, and sums *)
(* over finite sets.                                                       *)
(***************************************************************************)
EXTENDS Sequences, Numbers, Functions, Lists, FiniteSetTheorems, WellFoundedInduction, TLAPS

(***************************************************************************)
(* Numbers.                                                                *)
(***************************************************************************)
LEMMA Least ==
  ASSUME NEW T, T \subseteq Nat, T # {}
  PROVE  \E x \in T : \A y \in T : x <= y
<1>1. PICK x \in T : \A y \in T : ~ (<<y, x>> \in OpToRel(<, Nat))
  BY WFMin, NatLessThanWellFounded, Zenon
<1>2. \A y, z \in Nat : y < z => <<y, z>> \in OpToRel(<, Nat)
  BY Zenon DEF OpToRel
<1>3. \A y \in T : ~ (y < x)
  BY <1>1, <1>2, Zenon
<1> QED BY <1>3

\* What holds of 0, and of a number when it holds of the one before.
LEMMA UpTo ==
  ASSUME NEW n \in Nat, NEW S, 0 \in S, \A i \in 1 .. n : i - 1 \in S => i \in S
  PROVE  0 .. n \subseteq S
<1> DEFINE T == (0 .. n) \ S
<1> SUFFICES ASSUME T # {} PROVE FALSE
  OBVIOUS
<1>1. T \subseteq Nat
  OBVIOUS
<1> HIDE DEF T
<1>2. PICK i \in T : \A j \in T : i <= j
  BY <1>1, Least
<1>3. i \in 1 .. n /\ i - 1 \in 0 .. n
  BY <1>2 DEF T
<1>4. i - 1 \notin T
  BY <1>1, <1>2, <1>3
<1>5. i - 1 \in S
  BY <1>3, <1>4 DEF T
<1> QED BY <1>2, <1>3, <1>5 DEF T

\* Numbers without a gap are counted by the one that is next.
LEMMA Counted ==
  ASSUME NEW n \in Nat, NEW S \in SUBSET (0 .. n),
         \A i \in S : 0 .. i - 1 \subseteq S
  PROVE  S = 0 .. Cardinality(S) - 1
<1> DEFINE T == Nat \ S
<1>1. T \subseteq Nat /\ n + 1 \in T
  OBVIOUS
<1> HIDE DEF T
<1>2. PICK k \in T : \A j \in T : k <= j
  BY <1>1, Least
<1>3. S \subseteq 0 .. k - 1
  <2> SUFFICES ASSUME NEW i \in S, ~ (i < k) PROVE FALSE
    BY <1>1, <1>2
  <2>1. k \notin S /\ k \in Nat
    BY <1>2 DEF T
  <2>2. k # i /\ k \in 0 .. i - 1
    BY <2>1
  <2> QED BY <2>1, <2>2
<1>4. 0 .. k - 1 \subseteq S
  BY <1>1, <1>2 DEF T
<1>5. Cardinality(0 .. k - 1) = k
  <2>1. k \in Nat
    BY <1>1, <1>2
  <2> QED BY <2>1, FS_Interval
<1>6. S = 0 .. k - 1
  BY <1>3, <1>4
<1> QED BY <1>5, <1>6

\* A walk over n elements: step[i][w] is what w becomes at element i.
Walk(n, W, first, step, g) ==
  /\ g \in [0 .. n -> W] /\ g[0] = first
  /\ \A k \in 1 .. n : g[k] = step[k][g[k - 1]]

LEMMA WalkExists ==
  ASSUME NEW n \in Nat, NEW W, NEW first \in W, NEW step \in [1 .. n -> [W -> W]]
  PROVE  \E g : Walk(n, W, first, step, g)
<1> DEFINE Walks(i, g) ==
             /\ g \in [0 .. i -> W] /\ g[0] = first
             /\ \A k \in 1 .. i : g[k] = step[k][g[k - 1]]
           S == {i \in 0 .. n : \E g : Walks(i, g)}
<1>1. 0 \in S
  <2>1. Walks(0, [k \in 0 .. 0 |-> first])
    OBVIOUS
  <2> HIDE DEF Walks
  <2> QED BY <2>1
<1>2. \A i \in 1 .. n : i - 1 \in S => i \in S
  <2> SUFFICES ASSUME NEW i \in 1 .. n, i - 1 \in S PROVE i \in S
    OBVIOUS
  <2>1. PICK g : Walks(i - 1, g)
    OBVIOUS
  <2> DEFINE h == [k \in 0 .. i |-> IF k = i THEN step[i][g[i - 1]] ELSE g[k]]
  <2>2. \A k \in 0 .. i - 1 : h[k] = g[k] /\ g[k] \in W
    BY <2>1
  <2>3. h[i] = step[i][g[i - 1]] /\ g[i - 1] \in W
    BY <2>1
  <2>4. h \in [0 .. i -> W]
    <3>1. \A k \in 0 .. i : h[k] \in W
      <4> SUFFICES ASSUME NEW k \in 0 .. i PROVE h[k] \in W
        OBVIOUS
      <4>1. step[i][g[i - 1]] \in W
        BY <2>3
      <4>2. k = i \/ k \in 0 .. i - 1
        OBVIOUS
      <4> HIDE DEF h
      <4> QED BY <2>2, <2>3, <4>1, <4>2
    <3>2. h = [k \in 0 .. i |-> h[k]]
      OBVIOUS
    <3> HIDE DEF h
    <3> QED BY <3>1, <3>2
  <2>5. \A k \in 1 .. i : h[k] = step[k][h[k - 1]]
    <3> SUFFICES ASSUME NEW k \in 1 .. i PROVE h[k] = step[k][h[k - 1]]
      OBVIOUS
    <3>1. k - 1 \in 0 .. i - 1
      OBVIOUS
    <3>2. CASE k = i
      BY <2>2, <2>3, <3>1, <3>2
    <3>3. CASE k # i
      <4>1. k \in 1 .. i - 1
        BY <3>3
      <4>2. g[k] = step[k][g[k - 1]]
        BY <2>1, <4>1
      <4> QED BY <2>2, <3>1, <4>1, <4>2
    <3> QED BY <3>2, <3>3
  <2>6. h[0] = first
    BY <2>1, <2>2
  <2>7. Walks(i, h)
    BY <2>4, <2>5, <2>6
  <2> HIDE DEF Walks, h
  <2> QED BY <2>7
<1> HIDE DEF S, Walks
<1>3. n \in S
  <2>1. 0 .. n \subseteq S
    BY <1>1, <1>2, UpTo
  <2> QED BY <2>1
<1> QED BY <1>3 DEF S, Walks, Walk
-----------------------------------------------------------------------------
(***************************************************************************)
(* Things nested in each other: parts[i] are those of i, which lie less    *)
(* deep.                                                                   *)
(***************************************************************************)
NestedIn(D, parts, depth, n) ==
  /\ depth \in [D -> 0 .. n] /\ parts \in [D -> SUBSET D]
  /\ \A i \in D : \A j \in parts[i] : depth[j] < depth[i]

\* What holds of a thing when it holds of its parts holds of all.
LEMMA NestedInduction ==
  ASSUME NEW n \in Nat, NEW D, NEW parts, NEW depth, NestedIn(D, parts, depth, n),
         NEW S, \A i \in D : parts[i] \subseteq S => i \in S
  PROVE  D \subseteq S
<1> SUFFICES ASSUME NEW x \in D, x \notin S PROVE FALSE
  OBVIOUS
<1> DEFINE T == {depth[i] : i \in D \ S}
<1>1. T \subseteq Nat /\ T # {}
  BY DEF NestedIn
<1>2. PICK k \in T : \A l \in T : k <= l
  <2> HIDE DEF T
  <2> QED BY <1>1, Least
<1>3. PICK i \in D \ S : k = depth[i]
  BY <1>2
<1>4. PICK j \in parts[i] : j \notin S
  BY <1>3
<1>5. j \in D \ S /\ depth[j] < depth[i] /\ depth[i] \in Int /\ depth[j] \in Int
  BY <1>3, <1>4 DEF NestedIn
<1>6. depth[i] <= depth[j]
  BY <1>2, <1>3, <1>5
<1> QED BY <1>5, <1>6

\* A value for everything, given by the values of its parts.
Climbs(D, parts, R, body, g) ==
  /\ g \in [D -> R]
  /\ \A i \in D : g[i] = body[i][{g[j] : j \in parts[i]}]

LEMMA ClimbExists ==
  ASSUME NEW n \in Nat, NEW D, NEW parts, NEW depth, NestedIn(D, parts, depth, n),
         NEW R, NEW body \in [D -> [SUBSET R -> R]]
  PROVE  \E g : Climbs(D, parts, R, body, g)
<1> DEFINE Low(k) == {i \in D : depth[i] <= k}
           Good(k) == \E g : Climbs(Low(k), parts, R, body, g)
           S == {k \in 0 .. n : Good(k)}
<1>1. \A k \in 0 .. n : \A i \in Low(k) : \A j \in parts[i] :
        j \in Low(k) /\ j \in Low(k - 1)
  BY DEF NestedIn
<1>2. 0 \in S
  <2> DEFINE g == [i \in Low(0) |-> body[i][{}]]
  <2>1. \A i \in Low(0) : parts[i] = {} /\ body[i][{}] \in R
    <3> SUFFICES ASSUME NEW i \in Low(0) PROVE parts[i] = {} /\ body[i][{}] \in R
      OBVIOUS
    <3>1. body[i] \in [SUBSET R -> R] /\ {} \in SUBSET R
      OBVIOUS
    <3>2. parts[i] = {}
      BY DEF NestedIn
    <3> QED BY <3>1, <3>2
  <2>2. g \in [Low(0) -> R]
    BY <2>1
  <2>3. \A i \in Low(0) : {g[j] : j \in parts[i]} = {}
    BY <2>1
  <2>4. Climbs(Low(0), parts, R, body, g)
    BY <2>2, <2>3 DEF Climbs
  <2>5. Good(0)
    <3> HIDE DEF g, Low
    <3> QED BY <2>4
  <2> HIDE DEF Good
  <2> QED BY <2>5
<1>3. \A k \in 1 .. n : k - 1 \in S => k \in S
  <2> SUFFICES ASSUME NEW k \in 1 .. n, Good(k - 1) PROVE Good(k)
    <3> HIDE DEF Good
    <3> QED OBVIOUS
  <2>1. PICK g : Climbs(Low(k - 1), parts, R, body, g)
    OBVIOUS
  <2> DEFINE below(i) == {g[j] : j \in parts[i]}
             h == [i \in Low(k) |-> body[i][below(i)]]
  <2>2. \A i \in Low(k) : \A j \in parts[i] : j \in Low(k - 1) /\ j \in Low(k)
    BY <1>1
  <2>3. \A i \in Low(k) : below(i) \in SUBSET R
    BY <2>1, <2>2 DEF Climbs
  <2>4. \A i \in Low(k) : body[i] \in [SUBSET R -> R]
    OBVIOUS
  <2>5. \A i \in Low(k - 1) : g[i] = body[i][below(i)]
    BY <2>1 DEF Climbs
  <2>6. \A i \in Low(k - 1) : i \in Low(k)
    BY DEF NestedIn
  <2> HIDE DEF below
  <2>7. h \in [Low(k) -> R]
    BY <2>3, <2>4
  <2>8. \A i \in Low(k - 1) : h[i] = g[i]
    BY <2>5, <2>6
  <2>9. ASSUME NEW i \in Low(k) PROVE h[i] = body[i][{h[j] : j \in parts[i]}]
    <3> HIDE DEF Low, h
    <3>1. {h[j] : j \in parts[i]} = below(i)
      BY <2>2, <2>8 DEF below
    <3> QED BY <3>1 DEF h
  <2>10. Climbs(Low(k), parts, R, body, h)
    <3> HIDE DEF h, Low
    <3> QED BY <2>7, <2>9 DEF Climbs
  <2> HIDE DEF h, Low
  <2> QED BY <2>10
<1> HIDE DEF S
<1>4. n \in S
  BY <1>2, <1>3, UpTo
<1>5. Low(n) = D
  BY DEF NestedIn
<1> QED BY <1>4, <1>5 DEF S
-----------------------------------------------------------------------------
(***************************************************************************)
(* Lists.                                                                  *)
(***************************************************************************)
\* below says of every element which ones are before it, all in one chain.
Chain(below) ==
  LET all == DOMAIN below
  IN  /\ IsFiniteSet(all)
      /\ \A x \in all : below[x] \subseteq all \ {x}
      /\ \A x, y \in all : x # y => x \in below[y] \/ y \in below[x]
      /\ \A x, y \in all : x \in below[y] => below[x] \subseteq below[y]

\* Listed has every element once, those before it earlier.
LEMMA ListedIs ==
  ASSUME NEW below, Chain(below)
  PROVE  /\ Listed(below) \in [1 .. Cardinality(DOMAIN below) -> DOMAIN below]
         /\ Cardinality(DOMAIN below) \in Nat
         /\ \A x \in DOMAIN below :
              \E i \in 1 .. Cardinality(DOMAIN below) : Listed(below)[i] = x
         /\ \A i, j \in 1 .. Cardinality(DOMAIN below) :
              i < j => Listed(below)[i] \in below[Listed(below)[j]]
<1> DEFINE all == DOMAIN below
           n == Cardinality(all)
           rank == [x \in all |-> Cardinality(below[x])]
           place == [x \in all |-> rank[x] + 1]
           listed == Listed(below)
<1>1. IsFiniteSet(all) /\ n \in Nat
  BY FS_CardinalityType DEF Chain
<1>2. \A x \in all : /\ IsFiniteSet(below[x]) /\ Cardinality(below[x]) \in Nat
                     /\ Cardinality(below[x]) < n
  <2> SUFFICES ASSUME NEW x \in all
               PROVE  /\ IsFiniteSet(below[x]) /\ Cardinality(below[x]) \in Nat
                      /\ Cardinality(below[x]) < n
    OBVIOUS
  <2>1. IsFiniteSet(all \ {x}) /\ Cardinality(all \ {x}) = n - 1
    BY <1>1, FS_RemoveElement
  <2>2. below[x] \in SUBSET (all \ {x})
    BY DEF Chain
  <2>3. IsFiniteSet(below[x]) /\ Cardinality(below[x]) <= n - 1
    <3> HIDE DEF all, n
    <3> QED BY <2>1, <2>2, FS_Subset
  <2>4. Cardinality(below[x]) \in Nat
    BY <2>3, FS_CardinalityType
  <2> QED BY <1>1, <2>3, <2>4
<1>3. \A x, y \in all : x \in below[y] => rank[x] < rank[y]
  <2> SUFFICES ASSUME NEW x \in all, NEW y \in all, x \in below[y]
               PROVE  rank[x] < rank[y]
    OBVIOUS
  <2>1. below[x] \in SUBSET below[y] /\ below[x] # below[y]
    BY DEF Chain
  <2>2. /\ Cardinality(below[x]) <= Cardinality(below[y])
        /\ Cardinality(below[x]) # Cardinality(below[y])
    BY <1>2, <2>1, FS_Subset
  <2> QED BY <1>2, <2>2
<1>4. rank \in [all -> 0 .. n - 1]
  BY <1>1, <1>2
<1>5. \A x, y \in all : rank[x] = rank[y] => x = y
  <2> SUFFICES ASSUME NEW x \in all, NEW y \in all, rank[x] = rank[y], x # y
               PROVE  FALSE
    OBVIOUS
  <2>1. rank[x] < rank[y] \/ rank[y] < rank[x]
    BY <1>3 DEF Chain
  <2>2. rank[x] \in Int /\ rank[y] \in Int
    BY <1>4
  <2> HIDE DEF rank
  <2> QED BY <2>1, <2>2
<1> HIDE DEF rank
<1>6. place \in [all -> 1 .. n]
  BY <1>1, <1>4
<1>7. place \in Injection(all, 1 .. n)
  <2>1. \A x, y \in all : place[x] = place[y] => rank[x] = rank[y]
    BY <1>4
  <2>2. \A x, y \in all : place[x] = place[y] => x = y
    BY <1>5, <2>1
  <2> HIDE DEF place, all, n
  <2> QED BY <1>6, <2>2 DEF Injection, IsInjective
<1>8. IsFiniteSet(1 .. n) /\ Cardinality(1 .. n) = n
  BY <1>1, FS_Interval
<1>9. place \in Surjection(all, 1 .. n)
  <2> HIDE DEF place, all
  <2>1. n = Cardinality(all)
    OBVIOUS
  <2> HIDE DEF n
  <2> QED BY <1>7, <1>8, <2>1, FS_Injection
<1>10. \A k \in 1 .. n : \E x \in all : rank[x] = k - 1
  <2> SUFFICES ASSUME NEW k \in 1 .. n PROVE \E x \in all : rank[x] = k - 1
    OBVIOUS
  <2>1. PICK x \in all : place[x] = k
    BY <1>9 DEF Surjection
  <2>2. rank[x] + 1 = k /\ rank[x] \in Int
    BY <1>4, <2>1
  <2> QED BY <2>2
<1>11. listed = [k \in 1 .. n |-> CHOOSE x \in all : rank[x] = k - 1]
  BY DEF Listed, rank
<1> HIDE DEF listed, place
<1>12. \A k \in 1 .. n : listed[k] \in all /\ rank[listed[k]] = k - 1
  BY <1>10, <1>11
<1>13. listed \in [1 .. n -> all]
  BY <1>11, <1>12
<1>14. \A x \in all : \E i \in 1 .. n : listed[i] = x
  <2> SUFFICES ASSUME NEW x \in all PROVE \E i \in 1 .. n : listed[i] = x
    OBVIOUS
  <2>1. rank[x] + 1 \in 1 .. n /\ rank[x] \in Int
    BY <1>1, <1>4
  <2>2. listed[rank[x] + 1] \in all /\ rank[listed[rank[x] + 1]] = rank[x]
    BY <1>12, <2>1
  <2> QED BY <1>5, <2>1, <2>2
<1>15. \A i, j \in 1 .. n : i < j => listed[i] \in below[listed[j]]
  <2> SUFFICES ASSUME NEW i \in 1 .. n, NEW j \in 1 .. n, i < j
               PROVE  listed[i] \in below[listed[j]]
    OBVIOUS
  <2>1. /\ listed[i] \in all /\ rank[listed[i]] = i - 1
        /\ listed[j] \in all /\ rank[listed[j]] = j - 1
    BY <1>12
  <2>2. listed[i] # listed[j]
    BY <2>1
  <2>3. listed[j] \notin below[listed[i]]
    BY <1>3, <2>1
  <2> QED BY <2>1, <2>2, <2>3 DEF Chain
<1> QED BY <1>1, <1>13, <1>14, <1>15 DEF listed
-----------------------------------------------------------------------------
(***************************************************************************)
(* Prefixes of sequences.                                                  *)
(***************************************************************************)
\* A line more does not change what came before it.
LEMMA PrefixOfAppend ==
  ASSUME NEW S, NEW s \in Seq(S), NEW k \in S, NEW j \in 1 .. Len(s)
  PROVE  SubSeq(Append(s, k), 1, j) = SubSeq(s, 1, j)
  OBVIOUS

\* The next line makes the next prefix.
LEMMA PrefixGrows ==
  ASSUME NEW S, NEW s \in Seq(S), NEW i \in 0 .. Len(s), i < Len(s)
  PROVE  Append(SubSeq(s, 1, i), s[i + 1]) = SubSeq(s, 1, i + 1)
  OBVIOUS

LEMMA WholePrefix ==
  ASSUME NEW S, NEW s \in Seq(S)
  PROVE  SubSeq(s, 1, Len(s)) = s /\ SubSeq(s, 1, 0) = <<>>
  OBVIOUS

LEMMA AppendParts ==
  ASSUME NEW S, NEW s \in Seq(S), NEW k \in S
  PROVE /\ Append(s, k) \in Seq(S) /\ Append(s, k) # <<>>
        /\ Len(Append(s, k)) = Len(s) + 1
        /\ Append(s, k)[Len(s) + 1] = k
        /\ \A i \in 1 .. Len(s) : Append(s, k)[i] = s[i]
  OBVIOUS

-----------------------------------------------------------------------------
(***************************************************************************)
(* Division.                                                               *)
(***************************************************************************)
LEMMA DivMod ==
  ASSUME NEW a \in Int, NEW b \in Nat \ {0}
  PROVE  /\ a \div b \in Int /\ a % b \in 0 .. b - 1
         /\ a = b * (a \div b) + (a % b)
  OBVIOUS

\* The only multiple of b between -b and b is 0.
LEMMA SmallMultiple ==
  ASSUME NEW b \in Nat \ {0}, NEW k \in Int, b * k < b, 0 - b < b * k
  PROVE  k = 0
<1>1. CASE k >= 1
  <2>1. b * k >= b * 1
    BY <1>1
  <2> QED BY <2>1
<1>2. CASE k <= -1
  <2>1. b * k <= b * (-1)
    BY <1>2
  <2> QED BY <2>1
<1> QED BY <1>1, <1>2

\* The quotient and the remainder are the only ones.
LEMMA DivModIs ==
  ASSUME NEW b \in Nat \ {0}, NEW q \in Int, NEW r \in 0 .. b - 1
  PROVE  (b * q + r) \div b = q /\ (b * q + r) % b = r
<1> DEFINE a == b * q + r
           p == a \div b
           s == a % b
<1>1. a \in Int
  OBVIOUS
<1>2. /\ p \in Int /\ s \in 0 .. b - 1
      /\ a = b * p + s
  <2> HIDE DEF a
  <2> QED BY <1>1, DivMod
<1>3. a = b * q + r
  OBVIOUS
<1> HIDE DEF a, p, s
<1>4. b * (p - q) = r - s
  <2>1. b * (p - q) = b * p - b * q
    BY <1>2
  <2>2. b * p \in Int /\ b * q \in Int
    BY <1>2
  <2> QED BY <1>1, <1>2, <1>3, <2>1, <2>2
<1>5. p - q = 0
  <2>1. p - q \in Int /\ r - s < b /\ 0 - b < r - s
    BY <1>2
  <2> QED BY <1>4, <2>1, SmallMultiple
<1>6. p = q
  BY <1>2, <1>5
<1>7. s = r
  BY <1>2, <1>4, <1>6
<1> QED BY <1>6, <1>7 DEF a, p, s

\* What is left of a product: a digit of base s over what is left of p.
LEMMA ModProduct ==
  ASSUME NEW a \in Int, NEW p \in Nat \ {0}, NEW s \in Nat \ {0}
  PROVE  a % (p * s) = p * ((a \div p) % s) + (a % p)
<1> DEFINE q == a \div p
           r == a % p
           t == q \div s
           e == q % s
<1>1. /\ q \in Int /\ r \in 0 .. p - 1
      /\ a = p * q + r
  BY DivMod
<1> HIDE DEF q, r
<1>2. /\ t \in Int /\ e \in 0 .. s - 1
      /\ q = s * t + e
  BY <1>1, DivMod
<1> HIDE DEF t, e
<1>3. p * q = (p * s) * t + p * e
  <2>1. p * (s * t + e) = p * (s * t) + p * e
    BY <1>2
  <2>2. p * (s * t) = (p * s) * t
    BY <1>2
  <2> QED BY <1>2, <2>1, <2>2
<1>4. p * e + r \in 0 .. p * s - 1 /\ p * s \in Nat \ {0}
  <2>1. p * e <= p * (s - 1) /\ p * e \in Nat
    BY <1>2
  <2>2. p * (s - 1) = p * s - p /\ p * s \in Nat \ {0}
    OBVIOUS
  <2> QED BY <1>1, <2>1, <2>2
<1>5. a = (p * s) * t + (p * e + r)
  <2>1. (p * s) * t \in Int /\ p * e \in Int /\ p * q \in Int
    BY <1>1, <1>2
  <2> QED BY <1>1, <1>3, <2>1
<1>6. a % (p * s) = p * e + r
  BY <1>2, <1>4, <1>5, DivModIs
<1> QED BY <1>6 DEF e, q, r

-----------------------------------------------------------------------------
(***************************************************************************)
(* Sums over finite sets.  The folds of the library take one element after *)
(* the other, by CHOOSE; a sum does not depend on which is taken first.    *)
(***************************************************************************)
Pick(s) == CHOOSE x \in s : TRUE

SumsTo(S, f, iter) ==
  iter = [s \in SUBSET S |-> IF s = {} THEN 0 ELSE f[Pick(s)] + iter[s \ {Pick(s)}]]

SumTable(S, f) == CHOOSE iter : SumsTo(S, f, iter)

\* The subsets of a set, each with those of one element less.
LEMMA SubsetsNest ==
  ASSUME NEW S, IsFiniteSet(S),
         NEW parts \in [SUBSET S -> SUBSET SUBSET S],
         \A s \in SUBSET S : \A t \in parts[s] : \E x \in s : t = s \ {x}
  PROVE  /\ Cardinality(S) \in Nat
         /\ NestedIn(SUBSET S, parts, [s \in SUBSET S |-> Cardinality(s)], Cardinality(S))
<1> DEFINE D == SUBSET S
           n == Cardinality(S)
           depth == [s \in D |-> Cardinality(s)]
<1>1. n \in Nat /\ \A s \in D : IsFiniteSet(s) /\ Cardinality(s) \in 0 .. n
  <2>1. n \in Nat
    BY FS_CardinalityType
  <2>2. ASSUME NEW s \in D PROVE IsFiniteSet(s) /\ Cardinality(s) \in 0 .. n
    <3>1. IsFiniteSet(s) /\ Cardinality(s) <= n
      BY FS_Subset
    <3>2. Cardinality(s) \in Nat
      BY <3>1, FS_CardinalityType
    <3> QED BY <2>1, <3>1, <3>2
  <2> QED BY <2>1, <2>2
<1>2. ASSUME NEW s \in D, NEW t \in parts[s] PROVE depth[t] < depth[s]
  <2>1. PICK x \in s : t = s \ {x}
    OBVIOUS
  <2>2. Cardinality(t) = Cardinality(s) - 1
    BY <1>1, <2>1, FS_RemoveElement
  <2>3. t \in D /\ Cardinality(s) \in Int
    BY <1>1, <2>1
  <2> QED BY <2>2, <2>3
<1>3. depth \in [D -> 0 .. n]
  BY <1>1
<1> HIDE DEF depth, n
<1> QED BY <1>1, <1>2, <1>3 DEF NestedIn, depth, n

LEMMA SumsAre ==
  ASSUME NEW S, IsFiniteSet(S), NEW f, \A x \in S : f[x] \in Int
  PROVE  SumsTo(S, f, SumTable(S, f)) /\ SumTable(S, f) \in [SUBSET S -> Int]
<1> DEFINE D == SUBSET S
           n == Cardinality(S)
           parts == [s \in D |-> IF s = {} THEN {} ELSE {s \ {Pick(s)}}]
           depth == [s \in D |-> Cardinality(s)]
           sum(s, sums) == IF s = {} \/ sums = {} THEN 0 ELSE f[Pick(s)] + Pick(sums)
           body == [s \in D |-> [sums \in SUBSET Int |-> sum(s, sums)]]
           total == SumTable(S, f)
<1>1. \A s \in D : s # {} => Pick(s) \in s /\ s \ {Pick(s)} \in D /\ f[Pick(s)] \in Int
  BY DEF Pick
<1>2. n \in Nat /\ NestedIn(D, parts, depth, n)
  <2>1. parts \in [D -> SUBSET D]
    BY <1>1
  <2>2. \A s \in D : \A t \in parts[s] : \E x \in s : t = s \ {x}
    BY <1>1
  <2> HIDE DEF parts
  <2> QED BY <2>1, <2>2, SubsetsNest
<1>3. body \in [D -> [SUBSET Int -> Int]]
  <2>1. ASSUME NEW s \in D, NEW sums \in SUBSET Int PROVE sum(s, sums) \in Int
    <3>1. sums # {} => Pick(sums) \in Int
      BY DEF Pick
    <3> QED BY <1>1, <3>1
  <2> HIDE DEF sum, D
  <2> QED BY <2>1
<1> HIDE DEF parts, depth, body, n, D
<1>4. PICK g : Climbs(D, parts, Int, body, g)
  BY <1>2, <1>3, ClimbExists
<1>5. g \in [D -> Int]
  BY <1>4 DEF Climbs
<1>6. SumsTo(S, f, g)
  <2>1. ASSUME NEW s \in D
        PROVE  g[s] = IF s = {} THEN 0 ELSE f[Pick(s)] + g[s \ {Pick(s)}]
    <3> DEFINE below == {g[t] : t \in parts[s]}
    <3>1. g[s] = body[s][below]
      BY <1>4 DEF Climbs
    <3>2. below \in SUBSET Int
      <4>1. parts[s] \subseteq D
        BY <1>2 DEF NestedIn
      <4> QED BY <1>5, <4>1
    <3>3. body[s][below] = sum(s, below)
      <4> HIDE DEF below, sum
      <4> QED BY <3>2 DEF body
    <3>4. CASE s = {}
      BY <3>1, <3>3, <3>4
    <3>5. CASE s # {}
      <4>1. parts[s] = {s \ {Pick(s)}}
        BY <3>5 DEF parts
      <4>2. below = {g[s \ {Pick(s)}]}
        BY <4>1
      <4>3. Pick(below) = g[s \ {Pick(s)}] /\ below # {}
        BY <4>2 DEF Pick
      <4> HIDE DEF below
      <4> QED BY <3>1, <3>3, <3>5, <4>3
    <3> QED BY <3>4, <3>5
  <2> QED BY <1>5, <2>1 DEF SumsTo, D
<1>7. SumsTo(S, f, total)
  BY <1>6 DEF SumTable
<1> HIDE DEF total
<1>8. total \in [D -> Int]
  \* Every sum is the one of g: the equation has one solution.
  <2> DEFINE T == {s \in D : total[s] \in Int}
  <2>1. ASSUME NEW s \in D, parts[s] \subseteq T PROVE s \in T
    <3>1. total[s] = IF s = {} THEN 0 ELSE f[Pick(s)] + total[s \ {Pick(s)}]
      BY <1>7 DEF SumsTo, D
    <3>2. CASE s = {}
      BY <3>1, <3>2
    <3>3. CASE s # {}
      <4>1. parts[s] = {s \ {Pick(s)}}
        BY <3>3 DEF parts
      <4> QED BY <1>1, <2>1, <3>1, <3>3, <4>1
    <3> QED BY <3>2, <3>3
  <2> HIDE DEF T
  <2>2. D \subseteq T
    BY <1>2, <2>1, NestedInduction
  <2>3. total = [s \in D |-> total[s]]
    BY <1>7 DEF SumsTo, D
  <2> QED BY <2>2, <2>3 DEF T
<1> QED BY <1>7, <1>8 DEF total, D

\* Two tables agree where both have a sum.
LEMMA SumsAgree ==
  ASSUME NEW S, IsFiniteSet(S), NEW T \in SUBSET S, NEW f, NEW g, NEW h,
         SumsTo(S, f, g), SumsTo(T, f, h)
  PROVE  g[T] = h[T]
<1> DEFINE D == SUBSET T
           parts == [s \in D |-> IF s = {} THEN {} ELSE {s \ {Pick(s)}}]
           A == {s \in D : g[s] = h[s]}
<1>1. \A s \in D : s # {} => Pick(s) \in s /\ s \ {Pick(s)} \in D
  BY DEF Pick
<1>2. /\ Cardinality(T) \in Nat
      /\ NestedIn(D, parts, [s \in D |-> Cardinality(s)], Cardinality(T))
  <2>1. parts \in [D -> SUBSET D]
    BY <1>1
  <2>2. \A s \in D : \A t \in parts[s] : \E x \in s : t = s \ {x}
    BY <1>1
  <2>3. IsFiniteSet(T)
    BY FS_Subset
  <2> HIDE DEF parts
  <2> QED BY <2>1, <2>2, <2>3, SubsetsNest
<1>3. ASSUME NEW s \in D, parts[s] \subseteq A PROVE s \in A
  <2>1. /\ g[s] = IF s = {} THEN 0 ELSE f[Pick(s)] + g[s \ {Pick(s)}]
        /\ h[s] = IF s = {} THEN 0 ELSE f[Pick(s)] + h[s \ {Pick(s)}]
    BY DEF SumsTo
  <2>2. s # {} => s \ {Pick(s)} \in A
    BY <1>3
  <2> HIDE DEF D, parts
  <2> QED BY <2>1, <2>2
<1> HIDE DEF A, parts
<1>4. D \subseteq A
  BY <1>2, <1>3, NestedInduction
<1> QED BY <1>4 DEF A

LEMMA SumByTable ==
  ASSUME NEW S, NEW f
  PROVE  SumFunctionOnSet(f, S) = SumTable(S, f)[S]
BY DEF SumFunctionOnSet, FoldFunctionOnSet, MapThenFoldSet, SumTable, SumsTo, Pick

\* A sum is a number; the first element that is taken may be any one.
LEMMA SumIs ==
  ASSUME NEW S, IsFiniteSet(S), NEW f, \A x \in S : f[x] \in Int
  PROVE  /\ SumFunctionOnSet(f, S) \in Int
         /\ S = {} => SumFunctionOnSet(f, S) = 0
         /\ S # {} => SumFunctionOnSet(f, S)
                        = f[Pick(S)] + SumFunctionOnSet(f, S \ {Pick(S)})
<1> DEFINE g == SumTable(S, f)
           T == S \ {Pick(S)}
<1>1. SumsTo(S, f, g) /\ g \in [SUBSET S -> Int]
  BY SumsAre
<1>2. T \in SUBSET S /\ IsFiniteSet(T) /\ \A x \in T : f[x] \in Int
  BY FS_Subset
<1>3. SumFunctionOnSet(f, S) = g[S]
  BY SumByTable
<1>4. SumsTo(T, f, SumTable(T, f)) /\ SumFunctionOnSet(f, T) = SumTable(T, f)[T]
  <2> HIDE DEF T
  <2> QED BY <1>2, SumsAre, SumByTable
<1>5. g[T] = SumFunctionOnSet(f, T)
  <2> HIDE DEF T, g
  <2> QED BY <1>1, <1>2, <1>4, SumsAgree
<1>6. g[S] = IF S = {} THEN 0 ELSE f[Pick(S)] + g[T]
  <2> HIDE DEF g
  <2> QED BY <1>1 DEF SumsTo
<1> HIDE DEF g, T
<1> QED BY <1>1, <1>3, <1>5, <1>6 DEF T

LEMMA SumOne ==
  ASSUME NEW S, IsFiniteSet(S), NEW f, \A x \in S : f[x] \in Int, NEW x \in S
  PROVE  SumFunctionOnSet(f, S) = f[x] + SumFunctionOnSet(f, S \ {x})
<1> DEFINE D == SUBSET S
           parts == [s \in D |-> {s \ {y} : y \in s}]
           sum(s) == SumFunctionOnSet(f, s)
           A == {s \in D : \A y \in s : sum(s) = f[y] + sum(s \ {y})}
<1>1. /\ Cardinality(S) \in Nat
      /\ NestedIn(D, parts, [s \in D |-> Cardinality(s)], Cardinality(S))
  <2>1. parts \in [D -> SUBSET D]
    OBVIOUS
  <2>2. \A s \in D : \A t \in parts[s] : \E y \in s : t = s \ {y}
    OBVIOUS
  <2> HIDE DEF parts
  <2> QED BY <2>1, <2>2, SubsetsNest
<1>2. \A s \in D : /\ sum(s) \in Int
                   /\ s # {} => sum(s) = f[Pick(s)] + sum(s \ {Pick(s)})
  <2> SUFFICES ASSUME NEW s \in D
               PROVE  /\ sum(s) \in Int
                      /\ s # {} => sum(s) = f[Pick(s)] + sum(s \ {Pick(s)})
    OBVIOUS
  <2>1. IsFiniteSet(s) /\ \A y \in s : f[y] \in Int
    BY FS_Subset
  <2> QED BY <2>1, SumIs
<1> HIDE DEF sum
<1>3. ASSUME NEW s \in D, parts[s] \subseteq A PROVE s \in A
  <2> SUFFICES ASSUME NEW y \in s PROVE sum(s) = f[y] + sum(s \ {y})
    OBVIOUS
  <2> DEFINE p == Pick(s)
  <2>1. p \in s /\ f[p] \in Int /\ f[y] \in Int
    BY DEF Pick
  <2>2. sum(s) = f[p] + sum(s \ {p})
    BY <1>2, <2>1
  <2> HIDE DEF p
  <2>3. CASE y = p
    BY <2>2, <2>3
  <2>4. CASE y # p
    <3>1. s \ {p} \in A /\ s \ {y} \in A
      BY <1>3, <2>1
    <3>2. /\ sum(s \ {p}) = f[y] + sum((s \ {p}) \ {y})
          /\ sum(s \ {y}) = f[p] + sum((s \ {y}) \ {p})
      BY <2>1, <2>4, <3>1
    <3>3. (s \ {p}) \ {y} = (s \ {y}) \ {p} /\ (s \ {p}) \ {y} \in D
      OBVIOUS
    <3>4. sum((s \ {p}) \ {y}) \in Int
      BY <1>2, <3>3
    <3> DEFINE rest == sum((s \ {p}) \ {y})
    <3>5. sum(s \ {p}) = f[y] + rest /\ sum(s \ {y}) = f[p] + rest /\ rest \in Int
      BY <3>2, <3>3, <3>4
    <3> HIDE DEF rest
    <3> QED BY <2>1, <2>2, <3>5
  <2> QED BY <2>3, <2>4
<1> HIDE DEF A, parts
<1>4. D \subseteq A
  BY <1>1, <1>3, NestedInduction
<1> QED BY <1>4 DEF A, sum
-----------------------------------------------------------------------------
(***************************************************************************)
(* Powers, and the digits of a number.                                     *)
(***************************************************************************)
PowersTo(b, n, p) == p = [k \in 0 .. n |-> IF k = 0 THEN 1 ELSE b * p[k - 1]]

LEMMA PowersExist ==
  ASSUME NEW b \in Nat \ {0}, NEW n \in Nat
  PROVE  \E p : PowersTo(b, n, p) /\ p \in [0 .. n -> Nat \ {0}]
<1> DEFINE W == Nat \ {0}
           step == [k \in 1 .. n |-> [x \in W |-> b * x]]
<1>1. step \in [1 .. n -> [W -> W]] /\ 1 \in W
  <2>1. \A x \in W : b * x \in W
    OBVIOUS
  <2> QED BY <2>1
<1>2. PICK p : Walk(n, W, 1, step, p)
  <2> HIDE DEF step, W
  <2> QED BY <1>1, WalkExists
<1>3. p \in [0 .. n -> W] /\ p[0] = 1 /\ \A k \in 1 .. n : p[k] = step[k][p[k - 1]]
  BY <1>2 DEF Walk
<1>4. \A k \in 0 .. n : p[k] = IF k = 0 THEN 1 ELSE b * p[k - 1]
  <2> SUFFICES ASSUME NEW k \in 1 .. n PROVE p[k] = b * p[k - 1]
    BY <1>3
  <2>1. k - 1 \in 0 .. n
    OBVIOUS
  <2>2. p[k - 1] \in W
    BY <1>3, <2>1
  <2> HIDE DEF W
  <2> QED BY <1>3, <2>2
<1> HIDE DEF step, W
<1>5. p = [k \in 0 .. n |-> IF k = 0 THEN 1 ELSE b * p[k - 1]]
  BY <1>3, <1>4
<1> QED BY <1>3, <1>5 DEF PowersTo, W

LEMMA PowersAgree ==
  ASSUME NEW b, NEW n \in Nat, NEW m \in 0 .. n, NEW p, NEW q,
         PowersTo(b, n, p), PowersTo(b, m, q)
  PROVE  p[m] = q[m]
<1> DEFINE S == {k \in 0 .. m : p[k] = q[k]}
<1>1. \A k \in 0 .. m : /\ p[k] = IF k = 0 THEN 1 ELSE b * p[k - 1]
                        /\ q[k] = IF k = 0 THEN 1 ELSE b * q[k - 1]
  BY DEF PowersTo
<1>2. 0 \in S /\ \A k \in 1 .. m : k - 1 \in S => k \in S
  BY <1>1
<1> HIDE DEF S
<1>3. 0 .. m \subseteq S
  BY <1>2, UpTo
<1> QED BY <1>3 DEF S

LEMMA PowerIs ==
  ASSUME NEW b \in Nat \ {0}, NEW n \in Nat
  PROVE  /\ Power(b, n) \in Nat \ {0} /\ Power(b, 0) = 1
         /\ Power(b, n + 1) = b * Power(b, n)
<1> DEFINE power(m) == CHOOSE p : PowersTo(b, m, p)
<1>1. \A m \in Nat : Power(b, m) = power(m)[m]
  BY DEF Power, PowersTo
<1>2. \A m \in Nat : PowersTo(b, m, power(m))
  BY PowersExist
<1> HIDE DEF power
<1>3. \A m \in Nat : Power(b, m) \in Nat \ {0}
  <2> SUFFICES ASSUME NEW m \in Nat PROVE Power(b, m) \in Nat \ {0}
    OBVIOUS
  <2>1. PICK p : PowersTo(b, m, p) /\ p \in [0 .. m -> Nat \ {0}]
    BY PowersExist
  <2>2. power(m)[m] = p[m]
    BY <1>2, <2>1, PowersAgree
  <2> QED BY <1>1, <2>1, <2>2
<1>4. Power(b, 0) = 1
  <2>1. power(0) = [k \in 0 .. 0 |-> IF k = 0 THEN 1 ELSE b * power(0)[k - 1]]
    BY <1>2 DEF PowersTo
  <2> QED BY <1>1, <2>1
<1>5. Power(b, n + 1) = b * Power(b, n)
  <2>1. power(n + 1)[n + 1] = b * power(n + 1)[n]
    <3>1. PowersTo(b, n + 1, power(n + 1))
      BY <1>2
    <3>2. n + 1 \in 0 .. n + 1 /\ n + 1 # 0 /\ (n + 1) - 1 = n
      OBVIOUS
    <3> QED BY <3>1, <3>2 DEF PowersTo
  <2>2. power(n + 1)[n] = power(n)[n]
    <3>1. n + 1 \in Nat /\ n \in 0 .. n + 1
      OBVIOUS
    <3> QED BY <1>2, <3>1, PowersAgree
  <2> QED BY <1>1, <2>1, <2>2
<1> QED BY <1>3, <1>4, <1>5

LEMMA PowerAdds ==
  ASSUME NEW b \in Nat \ {0}, NEW m \in Nat, NEW n \in Nat
  PROVE  Power(b, m + n) = Power(b, m) * Power(b, n)
<1> DEFINE S == {k \in 0 .. n : Power(b, m + k) = Power(b, m) * Power(b, k)}
<1>1. 0 \in S
  <2>1. Power(b, m) \in Nat /\ Power(b, 0) = 1
    BY PowerIs
  <2> QED BY <2>1
<1>2. ASSUME NEW k \in 1 .. n, k - 1 \in S PROVE k \in S
  <2> DEFINE p == Power(b, m)
             q == Power(b, k - 1)
  <2>1. Power(b, m + (k - 1)) = p * q
    BY <1>2
  <2>2. /\ Power(b, k) = b * q /\ q \in Nat
        /\ Power(b, m + k) = b * Power(b, m + (k - 1)) /\ p \in Nat
    <3>1. k - 1 \in Nat /\ (k - 1) + 1 = k /\ m + (k - 1) \in Nat
          /\ (m + (k - 1)) + 1 = m + k
      OBVIOUS
    <3> QED BY <3>1, PowerIs
  <2> HIDE DEF p, q
  <2>3. b * (p * q) = p * (b * q)
    BY <2>2
  <2> QED BY <2>1, <2>2, <2>3 DEF p
<1> HIDE DEF S
<1>3. 0 .. n \subseteq S
  BY <1>1, <1>2, UpTo
<1> QED BY <1>3 DEF S

\* The number whose digits are c, the lowest first, of base s: T[n] is what the
\* n lowest ones make.
Makes(w, s, c, T) ==
  /\ T[0] = 0
  /\ \A n \in 0 .. w - 1 : T[n + 1] = T[n] + c[n] * Power(s, n)

LEMMA BelowPower ==
  ASSUME NEW w \in Nat, NEW s \in Nat \ {0}, NEW c \in [0 .. w - 1 -> 0 .. s - 1],
         NEW T, Makes(w, s, c, T)
  PROVE  \A n \in 0 .. w : T[n] \in 0 .. Power(s, n) - 1
<1> DEFINE S == {n \in 0 .. w : T[n] \in 0 .. Power(s, n) - 1}
<1>1. 0 \in S
  <2>1. Power(s, 0) = 1 /\ T[0] = 0
    BY PowerIs DEF Makes
  <2> QED BY <2>1
<1>2. ASSUME NEW n \in 1 .. w, n - 1 \in S PROVE n \in S
  <2> DEFINE p == Power(s, n - 1)
             t == T[n - 1]
             d == c[n - 1]
  <2>1. n - 1 \in Nat /\ (n - 1) + 1 = n /\ n - 1 \in 0 .. w - 1
    OBVIOUS
  <2>2. T[n] = t + d * p /\ d \in 0 .. s - 1
    BY <2>1 DEF Makes
  <2>3. p \in Nat \ {0} /\ Power(s, n) = s * p
    BY <2>1, PowerIs
  <2>4. t \in 0 .. p - 1
    BY <1>2
  <2> HIDE DEF p, t, d
  <2>5. d * p <= (s - 1) * p /\ d * p \in Nat /\ (s - 1) * p = s * p - p /\ s * p \in Nat
    BY <2>2, <2>3
  <2>6. t + d * p \in 0 .. s * p - 1
    BY <2>3, <2>4, <2>5
  <2> QED BY <2>2, <2>3, <2>6
<1> HIDE DEF S
<1>3. 0 .. w \subseteq S
  BY <1>1, <1>2, UpTo
<1> QED BY <1>3 DEF S

\* Division finds the digits again.
LEMMA DigitOf ==
  ASSUME NEW w \in Nat, NEW s \in Nat \ {0}, NEW c \in [0 .. w - 1 -> 0 .. s - 1],
         NEW T, Makes(w, s, c, T), NEW k \in 0 .. w - 1
  PROVE  (T[w] \div Power(s, k)) % s = c[k]
<1> DEFINE p == Power(s, k)
           low == T[k]
           d == c[k]
           S == {n \in 0 .. w : n > k => \E q \in Nat : T[n] = p * (s * q + d) + low}
<1>1. /\ p \in Nat \ {0} /\ low \in 0 .. p - 1 /\ d \in 0 .. s - 1
      /\ k \in Nat /\ k \in 0 .. w
  <2>1. k \in Nat /\ k \in 0 .. w
    OBVIOUS
  <2>2. p \in Nat \ {0}
    BY <2>1, PowerIs
  <2>3. low \in 0 .. p - 1
    BY <2>1, BelowPower
  <2> HIDE DEF p, low, S
  <2> QED BY <2>1, <2>2, <2>3
<1>2. 0 \in S
  OBVIOUS
<1>3. ASSUME NEW n \in 1 .. w, n - 1 \in S PROVE n \in S
  <2> SUFFICES ASSUME n > k PROVE \E q \in Nat : T[n] = p * (s * q + d) + low
    OBVIOUS
  <2>1. n - 1 \in 0 .. w - 1 /\ (n - 1) + 1 = n
    OBVIOUS
  <2>2. T[n] = T[n - 1] + c[n - 1] * Power(s, n - 1) /\ c[n - 1] \in 0 .. s - 1
    BY <2>1 DEF Makes
  <2>3. CASE n - 1 = k
    <3>1. T[n] = low + d * p
      BY <2>2, <2>3
    <3> HIDE DEF p, low, d, S
    <3>2. p * (s * 0 + d) + low = low + d * p
      BY <1>1
    <3> QED BY <3>1, <3>2
  <2>4. CASE n - 1 > k
    <3>1. PICK q \in Nat : T[n - 1] = p * (s * q + d) + low
      BY <1>3, <2>4
    <3> DEFINE m == n - 1 - (k + 1)
               u == Power(s, m)
               e == c[n - 1]
    <3>2. m \in Nat /\ n - 1 = (k + 1) + m /\ k + 1 \in Nat
      BY <2>4, <1>1
    <3>3. Power(s, n - 1) = Power(s, k + 1) * u
      <4> HIDE DEF m
      <4> QED BY <3>2, PowerAdds
    <3>4. Power(s, k + 1) = s * p /\ u \in Nat
      <4> HIDE DEF m
      <4> QED BY <1>1, <3>2, PowerIs
    <3>5. T[n] = p * (s * q + d) + low + e * ((s * p) * u) /\ e \in 0 .. s - 1
      BY <2>2, <3>1, <3>3, <3>4
    <3> HIDE DEF p, low, d, S, m, u, e
    <3>6. e * ((s * p) * u) = p * (s * (e * u))
      BY <1>1, <3>4, <3>5
    <3>7. e * u \in Nat /\ q + e * u \in Nat
      BY <3>4, <3>5
    <3>8. p * (s * (q + e * u) + d) = p * (s * q + d) + p * (s * (e * u))
      <4> DEFINE x == e * u
      <4>1. x \in Nat
        BY <3>7
      <4> HIDE DEF x
      <4>2. s * (q + x) + d = (s * q + d) + s * x
        BY <1>1, <4>1
      <4>3. p * ((s * q + d) + s * x) = p * (s * q + d) + p * (s * x)
        BY <1>1, <4>1
      <4> QED BY <4>2, <4>3 DEF x
    <3>9. T[n] = p * (s * (q + e * u) + d) + low
      <4> DEFINE x == p * (s * q + d)
                 y == p * (s * (e * u))
      <4>1. x \in Int /\ y \in Int /\ low \in Int
        BY <1>1, <3>7
      <4>2. T[n] = x + low + y /\ p * (s * (q + e * u) + d) = x + y
        BY <3>5, <3>6, <3>8
      <4> HIDE DEF x, y
      <4> QED BY <4>1, <4>2
    <3> QED BY <3>7, <3>9
  <2> QED BY <2>3, <2>4, <1>1
<1>4. w \in S
  <2> HIDE DEF S
  <2>1. 0 .. w \subseteq S
    BY <1>2, <1>3, UpTo
  <2> QED BY <2>1
<1>5. PICK q \in Nat : T[w] = p * (s * q + d) + low
  BY <1>4
<1> HIDE DEF p, low, d, S
<1>6. T[w] \div p = s * q + d
  <2>1. s * q + d \in Int
    BY <1>1
  <2>2. (p * (s * q + d) + low) \div p = s * q + d
    BY <1>1, <2>1, DivModIs, Zenon
  <2> QED BY <1>5, <2>2
<1>7. (s * q + d) % s = d
  <2>1. q \in Int
    OBVIOUS
  <2> QED BY <1>1, <2>1, DivModIs, Zenon
<1> QED BY <1>6, <1>7 DEF p, d

\* The digits that division finds are those of what is left of the number.
LEMMA RestOf ==
  ASSUME NEW w \in Nat, NEW s \in Nat \ {0}, NEW v \in Nat, NEW c, NEW T,
         Makes(w, s, c, T),
         \A k \in 0 .. w - 1 : c[k] = (v \div Power(s, k)) % s
  PROVE  T[w] = v % Power(s, w)
<1> DEFINE S == {n \in 0 .. w : T[n] = v % Power(s, n)}
<1>1. 0 \in S
  <2>1. Power(s, 0) = 1
    BY PowerIs
  <2> QED BY <2>1 DEF Makes
<1>2. ASSUME NEW n \in 1 .. w, n - 1 \in S PROVE n \in S
  <2> DEFINE p == Power(s, n - 1)
             e == (v \div p) % s
             r == v % p
  <2>1. n - 1 \in Nat /\ (n - 1) + 1 = n /\ n - 1 \in 0 .. w - 1
    OBVIOUS
  <2>2. T[n] = T[n - 1] + e * p /\ T[n - 1] = r
    BY <1>2, <2>1 DEF Makes
  <2>3. p \in Nat \ {0} /\ Power(s, n) = s * p
    BY <2>1, PowerIs
  <2> HIDE DEF p
  <2>4. v % (p * s) = p * e + r /\ p * s = s * p /\ e \in Int /\ r \in Int
    <3>1. v \in Int /\ p * s = s * p
      BY <2>3
    <3>2. v % (p * s) = p * e + r
      BY <2>3, <3>1, ModProduct, Zenon
    <3>3. e \in Int /\ r \in Int
      BY <2>3, <3>1, DivMod
    <3> QED BY <3>1, <3>2, <3>3
  <2> HIDE DEF e, r
  <2>5. e * p = p * e /\ p * e \in Int
    BY <2>3, <2>4
  <2> QED BY <2>2, <2>3, <2>4, <2>5
<1> HIDE DEF S
<1>3. 0 .. w \subseteq S
  BY <1>1, <1>2, UpTo
<1> QED BY <1>3 DEF S

\* The same from the highest digit on.
MakesDown(w, s, c, H) ==
  /\ H[0] = 0
  /\ \A n \in 1 .. w : H[n] = H[n - 1] * s + c[w - n]

LEMMA FromTheHighest ==
  ASSUME NEW w \in Nat, NEW s \in Nat \ {0}, NEW c \in [0 .. w - 1 -> 0 .. s - 1],
         NEW T, Makes(w, s, c, T),
         NEW H, MakesDown(w, s, c, H)
  PROVE  H[w] = T[w]
<1> DEFINE S == {n \in 0 .. w : H[n] \in Int /\ T[w] = T[w - n] + Power(s, w - n) * H[n]}
<1>1. \A n \in 0 .. w : T[n] \in Int /\ Power(s, n) \in Nat
  <2> SUFFICES ASSUME NEW n \in 0 .. w PROVE T[n] \in Int /\ Power(s, n) \in Nat
    OBVIOUS
  <2> HIDE DEF S
  <2>1. n \in Nat /\ Power(s, n) \in Nat \ {0}
    <3>1. n \in Nat
      OBVIOUS
    <3> QED BY <3>1, PowerIs
  <2>2. T[n] \in 0 .. Power(s, n) - 1
    BY BelowPower
  <2> QED BY <2>1, <2>2
<1>2. 0 \in S
  <2>1. w - 0 = w /\ 0 \in Int /\ w \in 0 .. w
    OBVIOUS
  <2>2. Power(s, w) * 0 = 0 /\ T[w] + 0 = T[w]
    BY <1>1, <2>1
  <2>3. H[0] = 0
    BY DEF MakesDown
  <2> QED BY <2>1, <2>2, <2>3
<1>3. ASSUME NEW n \in 1 .. w, n - 1 \in S PROVE n \in S
  <2> DEFINE p == Power(s, w - n)
             t == T[w - n]
             d == c[w - n]
             h == H[n - 1]
  <2>1. w - n \in 0 .. w - 1 /\ (w - n) + 1 = w - (n - 1) /\ w - n \in 0 .. w
    OBVIOUS
  <2>2. H[n] = h * s + d /\ d \in 0 .. s - 1 /\ h \in Int
    <3>1. h \in Int
      BY <1>3
    <3>2. d \in 0 .. s - 1
      BY <2>1
    <3>3. H[n] = h * s + d
      BY DEF MakesDown
    <3> QED BY <3>1, <3>2, <3>3
  <2>3. T[w - (n - 1)] = t + d * p
    BY <2>1 DEF Makes
  <2>4. Power(s, w - (n - 1)) = s * p /\ p \in Nat /\ t \in Int
    <3>1. w - n \in Nat
      OBVIOUS
    <3>2. p \in Nat /\ Power(s, (w - n) + 1) = s * p
      BY <3>1, PowerIs
    <3>3. t \in Int
      BY <1>1, <2>1
    <3> QED BY <2>1, <3>2, <3>3
  <2>5. T[w] = (t + d * p) + (s * p) * h
    BY <1>3, <2>3, <2>4
  <2> HIDE DEF p, t, d, h
  <2>6. p * (h * s + d) = d * p + (s * p) * h
    BY <2>2, <2>4
  <2>7. T[w] = t + p * (h * s + d) /\ h * s + d \in Int
    <3> DEFINE x == d * p
               y == (s * p) * h
    <3>1. x \in Int /\ y \in Int
      BY <2>2, <2>4
    <3>2. T[w] = (t + x) + y /\ p * (h * s + d) = x + y
      BY <2>5, <2>6
    <3>3. h * s + d \in Int
      BY <2>2
    <3> HIDE DEF x, y
    <3> QED BY <2>4, <3>1, <3>2, <3>3
  <2> QED BY <2>2, <2>7 DEF p, t
<1> HIDE DEF S
<1>4. w \in S
  <2>1. 0 .. w \subseteq S
    BY <1>2, <1>3, UpTo
  <2> QED BY <2>1
<1>5. H[w] \in Int /\ T[w] = T[0] + Power(s, 0) * H[w] /\ T[0] = 0 /\ Power(s, 0) = 1
  <2>1. w - w = 0
    OBVIOUS
  <2> QED BY <1>4, <2>1, PowerIs DEF S, Makes
<1> QED BY <1>5

\* The bytes of a number, each with the rank its digit has.
Reorders(w, rank, byte) ==
  /\ rank \in [0 .. w - 1 -> 0 .. w - 1] /\ byte \in [0 .. w - 1 -> 0 .. w - 1]
  /\ \A i \in 0 .. w - 1 : byte[rank[i]] = i /\ rank[byte[i]] = i

LEMMA RankedAre ==
  ASSUME NEW w, NEW rank, NEW byte, Reorders(w, rank, byte), NEW i \in 0 .. w - 1
  PROVE  /\ rank[i] \in 0 .. w - 1 /\ byte[rank[i]] = i
         /\ byte[i] \in 0 .. w - 1 /\ rank[byte[i]] = i
  BY DEF Reorders

\* The digits c make the number.
Summed(w, s, c, number) == \E T : Makes(w, s, c, T) /\ number = T[w]

\* The sum over the bytes is the number of their digits in the order of the ranks.
LEMMA SumInOrder ==
  ASSUME NEW w \in Nat, NEW s \in Nat \ {0}, NEW rank, NEW byte, Reorders(w, rank, byte),
         NEW d \in [0 .. w - 1 -> 0 .. s - 1],
         NEW f, f = [i \in 0 .. w - 1 |-> d[i] * Power(s, rank[i])],
         NEW c, c = [r \in 0 .. w - 1 |-> d[byte[r]]]
  PROVE  Summed(w, s, c, SumFunction(f))
<1> DEFINE low(n) == {i \in 0 .. w - 1 : rank[i] < n}
           T == [n \in 0 .. w |-> SumFunctionOnSet(f, low(n))]
<1>1. w \in Nat
  OBVIOUS
<1>2. \A i \in 0 .. w - 1 : f[i] \in Int /\ f[i] = d[i] * Power(s, rank[i])
  <2> SUFFICES ASSUME NEW i \in 0 .. w - 1
               PROVE  f[i] \in Int /\ f[i] = d[i] * Power(s, rank[i])
    OBVIOUS
  <2>1. rank[i] \in Nat
    BY <1>1, RankedAre
  <2>2. Power(s, rank[i]) \in Nat
    BY <2>1, PowerIs
  <2>3. d[i] \in Nat
    OBVIOUS
  <2> QED BY <2>2, <2>3
<1>3. \A n \in 0 .. w : IsFiniteSet(low(n)) /\ \A i \in low(n) : f[i] \in Int
  <2> SUFFICES ASSUME NEW n \in 0 .. w PROVE IsFiniteSet(low(n))
    BY <1>2
  <2>1. IsFiniteSet(0 .. w - 1)
    BY <1>1, FS_Interval
  <2> QED BY <2>1, FS_Subset
<1>4. T[0] = 0
  <2>1. low(0) = {} /\ 0 \in 0 .. w
    BY <1>1, RankedAre
  <2> QED BY <1>3, <2>1, SumIs
<1>5. ASSUME NEW n \in 0 .. w - 1 PROVE T[n + 1] = T[n] + c[n] * Power(s, n)
  <2> DEFINE x == byte[n]
  <2>1. x \in 0 .. w - 1 /\ rank[x] = n
    BY RankedAre
  <2>2. \A i \in 0 .. w - 1 : rank[i] \in Int /\ (rank[i] = n => i = x)
    BY <1>1, RankedAre
  <2>3. c[n] = d[x]
    OBVIOUS
  <2> HIDE DEF x
  <2>4. x \in low(n + 1) /\ low(n + 1) \ {x} = low(n) /\ n + 1 \in 0 .. w /\ n \in 0 .. w
    BY <1>1, <2>1, <2>2
  <2>5. SumFunctionOnSet(f, low(n + 1)) = f[x] + SumFunctionOnSet(f, low(n))
    <3>1. IsFiniteSet(low(n + 1)) /\ \A i \in low(n + 1) : f[i] \in Int
      BY <1>3, <2>4
    <3> DEFINE L == low(n + 1)
    <3>2. x \in L /\ L \ {x} = low(n) /\ IsFiniteSet(L) /\ \A i \in L : f[i] \in Int
      BY <2>4, <3>1
    <3> HIDE DEF L, low
    <3>3. SumFunctionOnSet(f, L) = f[x] + SumFunctionOnSet(f, L \ {x})
      BY <3>2, SumOne, ZenonT(60)
    <3> QED BY <3>2, <3>3 DEF L
  <2>6. T[n] \in Int
    <3> DEFINE L == low(n)
    <3>1. T[n] = SumFunctionOnSet(f, L) /\ IsFiniteSet(L) /\ \A i \in L : f[i] \in Int
      BY <1>3, <2>4
    <3> HIDE DEF L, T
    <3> QED BY <3>1, SumIs
  <2>7. f[x] = c[n] * Power(s, n) /\ f[x] \in Int
    <3> HIDE DEF T, low
    <3> QED BY <1>2, <2>1, <2>3
  <2>8. T[n + 1] = f[x] + T[n]
    BY <2>4, <2>5
  <2> HIDE DEF T
  <2> QED BY <2>6, <2>7, <2>8
<1>6. SumFunction(f) = T[w]
  <2>1. low(w) = 0 .. w - 1 /\ DOMAIN f = 0 .. w - 1 /\ w \in 0 .. w
    BY <1>1, RankedAre
  <2> QED BY <2>1 DEF SumFunction
<1> HIDE DEF T
<1>7. Makes(w, s, c, T)
  BY <1>4, <1>5 DEF Makes
<1> QED BY <1>6, <1>7 DEF Summed
=============================================================================
