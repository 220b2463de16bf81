-------------------------- MODULE ActionSpaceProofs --------------------------
(***************************************************************************)
(* No pad holds what the scenario does not allow, for every list of        *)
(* groups, number of buttons and players, and every action of the space.   *)
(* The three filtered spaces come to it on different ways: one filters     *)
(* what the client pressed, two put together one combination per group.    *)
(* For the latter it matters that no two groups of button_combos are the   *)
(* same and that every digit is one of its own group.  And no joint action *)
(* of the players is missing: every choice of digits is that of a number.  *)
(***************************************************************************)
EXTENDS ActionSpace, ListProofs, SequenceTheorems

(***************************************************************************)
(* The order of masks.                                                     *)
(***************************************************************************)
LEMMA ButtonsAre ==
  /\ Buttons \subseteq Nat /\ IsFiniteSet(SUBSET Buttons)
<1>1. IsFiniteSet(Buttons)
  <2>1. 0 \in Int /\ NumButtons - 1 \in Int
    BY ActionAssumption
  <2> QED BY <2>1, FS_Interval DEF Buttons
<1>2. IsFiniteSet(SUBSET Buttons)
  BY <1>1, FS_SUBSET
<1> QED BY <1>2, ActionAssumption DEF Buttons

LEMMA Highest ==
  ASSUME NEW S \in SUBSET Buttons, S # {}
  PROVE  \E b \in S : \A c \in S : c <= b
<1> DEFINE T == {NumButtons - b : b \in S}
<1>1. T \subseteq Nat /\ T # {}
  BY ActionAssumption DEF Buttons
<1> HIDE DEF T
<1>2. PICK t \in T : \A u \in T : t <= u
  BY <1>1, Least
<1>3. PICK b \in S : t = NumButtons - b
  BY <1>2 DEF T
<1>4. \A c \in S : NumButtons - b <= NumButtons - c
  BY <1>2, <1>3 DEF T
<1> QED BY <1>4, ActionAssumption DEF Buttons

\* What differs in the highest of two buttons that differ is ordered by it.
LEMMA BelowOrders ==
  ASSUME NEW m \in SUBSET Buttons, NEW n \in SUBSET Buttons
  PROVE  /\ ~ Below(m, m)
         /\ m # n => Below(m, n) \/ Below(n, m)
         /\ \A o \in SUBSET Buttons : Below(o, m) /\ Below(m, n) => Below(o, n)
<1>1. ~ Below(m, m)
  BY DEF Below
<1>2. ASSUME m # n PROVE Below(m, n) \/ Below(n, m)
  <2>1. (m \ n) \cup (n \ m) \in SUBSET Buttons /\ (m \ n) \cup (n \ m) # {}
    BY <1>2
  <2>2. PICK b \in (m \ n) \cup (n \ m) : \A c \in (m \ n) \cup (n \ m) : c <= b
    BY <2>1, Highest
  <2>3. \A c \in (m \ n) \cup (n \ m) : c # b => c < b
    BY <2>2, ButtonsAre
  <2>4. CASE b \in n \ m
    <3>1. \A c \in m \ n : c < b
      BY <2>3, <2>4
    <3> QED BY <2>4, <3>1 DEF Below
  <2>5. CASE b \in m \ n
    <3>1. \A c \in n \ m : c < b
      BY <2>3, <2>5
    <3> QED BY <2>5, <3>1 DEF Below
  <2> QED BY <2>4, <2>5
<1>3. ASSUME NEW o \in SUBSET Buttons, Below(o, m), Below(m, n)
      PROVE  Below(o, n)
  <2>1. PICK b \in m \ o : \A c \in o \ m : c < b
    BY <1>3 DEF Below
  <2>2. PICK d \in n \ m : \A c \in m \ n : c < d
    BY <1>3 DEF Below
  <2>3. b \in Nat /\ d \in Nat /\ \A c \in o : c \in Nat
    BY ButtonsAre
  <2>4. CASE b < d
    <3>1. d \in n \ o
      BY <2>1, <2>2, <2>3, <2>4
    <3>2. \A c \in o \ n : c < d
      BY <2>1, <2>2, <2>3, <2>4
    <3> QED BY <3>1, <3>2 DEF Below
  <2>5. CASE d < b
    <3>1. b \in n \ o
      BY <2>1, <2>2, <2>3, <2>5
    <3>2. \A c \in o \ n : c < b
      BY <2>1, <2>2, <2>3, <2>5
    <3> QED BY <3>1, <3>2 DEF Below
  <2>6. b # d
    BY <2>1, <2>2
  <2> QED BY <2>3, <2>4, <2>5, <2>6
<1> QED BY <1>1, <1>2, <1>3

LEMMA OrderedIs ==
  ASSUME NEW masks \in SUBSET SUBSET Buttons
  PROVE  /\ Ordered(masks) \in Seq(masks)
         /\ Len(Ordered(masks)) = Cardinality(masks)
         /\ \A m \in masks : \E i \in DOMAIN Ordered(masks) : Ordered(masks)[i] = m
         /\ \A i, j \in DOMAIN Ordered(masks) :
              Ordered(masks)[i] = Ordered(masks)[j] => i = j
<1> DEFINE below == [m \in masks |-> {n \in masks : Below(n, m)}]
           n == Cardinality(masks)
           listed == Listed(below)
<1>0. DOMAIN below = masks
  OBVIOUS
<1>1. Chain(below)
  <2>1. IsFiniteSet(masks)
    BY ButtonsAre, FS_Subset
  <2>2. \A m \in masks : below[m] \subseteq masks \ {m}
    BY BelowOrders
  <2>3. \A m, o \in masks : m # o => m \in below[o] \/ o \in below[m]
    BY BelowOrders
  <2>4. \A m, o \in masks : m \in below[o] => below[m] \subseteq below[o]
    BY BelowOrders
  <2> HIDE DEF below
  <2> QED BY <1>0, <2>1, <2>2, <2>3, <2>4 DEF Chain
<1>2. \A m \in masks : m \notin below[m]
  BY BelowOrders
<1>3. Ordered(masks) = listed
  BY DEF Ordered
<1> HIDE DEF below
<1>4. /\ listed \in [1 .. n -> masks] /\ n \in Nat
      /\ \A m \in masks : \E i \in 1 .. n : listed[i] = m
      /\ \A i, j \in 1 .. n : i < j => listed[i] \in below[listed[j]]
  BY <1>0, <1>1, ListedIs
<1> HIDE DEF listed, n
<1>5. listed \in Seq(masks) /\ Len(listed) = n /\ DOMAIN listed = 1 .. n
  BY <1>4
<1>6. ASSUME NEW i \in 1 .. n, NEW j \in 1 .. n, listed[i] = listed[j], i # j
      PROVE  FALSE
  <2>1. i < j \/ j < i
    BY <1>4, <1>6
  <2>2. listed[i] \in masks /\ listed[i] \in below[listed[i]]
    BY <1>4, <1>6, <2>1
  <2> QED BY <1>2, <2>2
<1> QED BY <1>3, <1>4, <1>5, <1>6 DEF n
-----------------------------------------------------------------------------
(***************************************************************************)
(* The table of actions and button_combos.                                 *)
(***************************************************************************)
\* Groups that share no button, each with its own combinations only.
TableOk(t) ==
  /\ DOMAIN t \subseteq SUBSET Buttons
  /\ Cardinality(DOMAIN t) <= NumButtons
  /\ \A m \in DOMAIN t : t[m] \subseteq SUBSET m /\ {} \in t[m]
  /\ \A m, n \in DOMAIN t : m # n => m \cap n = {}

LEMMA SetActionsOk ==
  ASSUME NEW list \in CoreFiles \cup Scenarios
  PROVE  TableOk(SetActions(list))
<1> DEFINE mask(i) == UNION list[i]
           masks == {mask(i) : i \in DOMAIN list}
           first(m) == Min({i \in DOMAIN list : mask(i) = m})
           t == SetActions(list)
<1>1. /\ list \in Seq(SUBSET SUBSET Buttons) /\ Len(list) <= NumButtons
      /\ \A i, j \in DOMAIN list :
           {} \in list[i] /\ (i # j => mask(i) \cap mask(j) = {})
  <2> DEFINE R == SUBSET SUBSET Buttons
  <2>1. list \in Seq(R)
    BY ActionAssumption
  <2>2. /\ Len(list) <= NumButtons
        /\ \A i, j \in DOMAIN list :
             {} \in list[i] /\ (i # j => (UNION list[i]) \cap (UNION list[j]) = {})
    BY ActionAssumption, Zenon
  <2> QED BY <2>1, <2>2
<1>2. DOMAIN list = 1 .. Len(list) /\ Len(list) \in Nat
  BY <1>1
<1>3. \A i \in DOMAIN list : list[i] \subseteq SUBSET Buttons
  BY <1>1, <1>2
<1>4. t = [m \in masks |-> list[first(m)]]
  BY Zenon DEF SetActions
<1>5. ASSUME NEW m \in masks
      PROVE  first(m) \in DOMAIN list /\ mask(first(m)) = m
  <2> DEFINE I == {i \in DOMAIN list : mask(i) = m}
  <2>1. I \subseteq Nat /\ I # {}
    BY <1>2
  <2> HIDE DEF I
  <2>2. \E x \in I : \A y \in I : x <= y
    BY <2>1, Least
  <2>3. Min(I) \in I
    BY <2>2 DEF Min
  <2> QED BY <2>3 DEF I
<1>6. DOMAIN t = masks
  BY <1>4
<1>7. masks \subseteq SUBSET Buttons
  BY <1>3
<1>8. Cardinality(masks) <= NumButtons
  <2>1. IsFiniteSet(DOMAIN list) /\ Cardinality(DOMAIN list) = Len(list)
    <3> DEFINE n == Len(list)
    <3>1. n \in Nat
      BY <1>2
    <3> HIDE DEF n
    <3>2. IsFiniteSet(1 .. n) /\ Cardinality(1 .. n) = n
      BY <3>1, FS_Interval
    <3> QED BY <1>2, <3>2 DEF n
  <2>2. IsFiniteSet(masks) /\ Cardinality(masks) <= Cardinality(DOMAIN list)
    <3> DEFINE f == [i \in DOMAIN list |-> mask(i)]
    <3>1. f \in [DOMAIN list -> masks] /\ \A m \in masks : \E i \in DOMAIN list : f[i] = m
      OBVIOUS
    <3> HIDE DEF f, masks
    <3>2. f \in Surjection(DOMAIN list, masks)
      BY <3>1 DEF Surjection
    <3> QED BY <2>1, <3>2, FS_Surjection
  <2>3. Cardinality(masks) \in Nat
    BY <2>2, FS_CardinalityType
  <2> HIDE DEF masks
  <2> QED BY <1>1, <1>2, <2>1, <2>2, <2>3, ActionAssumption
<1>9. \A m \in masks : t[m] \subseteq SUBSET m /\ {} \in t[m]
  <2> SUFFICES ASSUME NEW m \in masks PROVE t[m] \subseteq SUBSET m /\ {} \in t[m]
    OBVIOUS
  <2>1. t[m] = list[first(m)]
    BY <1>4
  <2>2. first(m) \in DOMAIN list /\ UNION list[first(m)] = m
    BY <1>5
  <2> HIDE DEF first, t, masks
  <2> QED BY <1>1, <2>1, <2>2
<1>10. \A m, n \in masks : m # n => m \cap n = {}
  BY <1>1
<1> QED BY <1>6, <1>7, <1>8, <1>9, <1>10 DEF TableOk

\* Every entry of button_combos has the combinations of a group of its own.
Entries(c, t, group) ==
  /\ DOMAIN c = 1 .. Len(c) /\ Len(c) \in Nat /\ Len(c) <= NumButtons
  /\ group \in [DOMAIN c -> DOMAIN t]
  /\ \A i, j \in DOMAIN c : group[i] = group[j] => i = j
  /\ \A i \in DOMAIN c : /\ DOMAIN c[i] = 1 .. Len(c[i]) /\ Len(c[i]) \in Nat \ {0}
                         /\ \A k \in DOMAIN c[i] : c[i][k] \in t[group[i]]

\* Every group has an entry, and every combination one place in it.
Complete(c, t, group) ==
  /\ \A m \in DOMAIN t : \E i \in DOMAIN c : group[i] = m
  /\ \A i \in DOMAIN c :
       /\ \A m \in t[group[i]] : \E k \in DOMAIN c[i] : c[i][k] = m
       /\ \A j, k \in DOMAIN c[i] : c[i][j] = c[i][k] => j = k

LEMMA CombosAre ==
  ASSUME NEW t, TableOk(t)
  PROVE  \E group : Entries(ValidActions(t), t, group)
                    /\ Complete(ValidActions(t), t, group)
<1> DEFINE group == Ordered(DOMAIN t)
           c == ValidActions(t)
<1>1. /\ DOMAIN t \in SUBSET SUBSET Buttons
      /\ Cardinality(DOMAIN t) <= NumButtons
  BY DEF TableOk
<1>2. /\ group \in Seq(DOMAIN t) /\ Len(group) = Cardinality(DOMAIN t)
      /\ \A i, j \in DOMAIN group : group[i] = group[j] => i = j
      /\ \A m \in DOMAIN t : \E i \in DOMAIN group : group[i] = m
  BY <1>1, OrderedIs
<1>3. /\ DOMAIN group = 1 .. Len(group) /\ Len(group) \in Nat
      /\ Len(group) <= NumButtons
      /\ group \in [DOMAIN group -> DOMAIN t]
  BY <1>1, <1>2
<1>4. c = [i \in DOMAIN group |-> Ordered(t[group[i]])]
  BY DEF ValidActions
<1> HIDE DEF group, c
<1>5. DOMAIN c = DOMAIN group /\ Len(c) = Len(group)
  BY <1>3, <1>4
<1>6. ASSUME NEW i \in DOMAIN c
      PROVE  /\ DOMAIN c[i] = 1 .. Len(c[i]) /\ Len(c[i]) \in Nat \ {0}
             /\ \A k \in DOMAIN c[i] : c[i][k] \in t[group[i]]
             /\ \A m \in t[group[i]] : \E k \in DOMAIN c[i] : c[i][k] = m
             /\ \A j, k \in DOMAIN c[i] : c[i][j] = c[i][k] => j = k
  <2> DEFINE all == t[group[i]]
  <2>1. all \in SUBSET SUBSET Buttons /\ {} \in all
    BY <1>3, <1>5 DEF TableOk
  <2>2. c[i] = Ordered(all)
    BY <1>4, <1>5
  <2> HIDE DEF all
  <2>3. /\ c[i] \in Seq(all)
        /\ \A m \in all : \E k \in DOMAIN c[i] : c[i][k] = m
        /\ \A j, k \in DOMAIN c[i] : c[i][j] = c[i][k] => j = k
    BY <2>1, <2>2, OrderedIs
  <2>4. DOMAIN c[i] = 1 .. Len(c[i]) /\ Len(c[i]) \in Nat
    BY <2>3
  <2>5. Len(c[i]) # 0
    BY <2>1, <2>3, <2>4
  <2>6. \A k \in DOMAIN c[i] : c[i][k] \in all
    BY <2>3, <2>4
  <2> QED BY <2>3, <2>4, <2>5, <2>6 DEF all
<1>7. Entries(c, t, group)
  BY <1>2, <1>3, <1>5, <1>6 DEF Entries
<1>8. Complete(c, t, group)
  BY <1>2, <1>5, <1>6 DEF Complete
<1> QED BY <1>7, <1>8 DEF c
-----------------------------------------------------------------------------
(***************************************************************************)
(* What the spaces make of an action.                                      *)
(***************************************************************************)
LEMMA NothingAllowed ==
  ASSUME TableOk(table)
  PROVE  Allowed({})
  BY DEF TableOk, Allowed

\* filterAction lets whole groups through or nothing of them.
LEMMA FilterAllows ==
  ASSUME TableOk(table), NEW held
  PROVE  Allowed(FilterAction(held))
<1> DEFINE passes == {m \in DOMAIN table : held \cap m \in table[m]}
           kept == FilterAction(held)
<1>1. kept = UNION {held \cap m : m \in passes}
  BY DEF FilterAction
<1> HIDE DEF kept
<1>2. kept \subseteq UNION DOMAIN table
  BY <1>1
<1>3. ASSUME NEW m \in DOMAIN table
      PROVE  kept \cap m \in table[m]
  <2>1. \A n \in passes : n # m => n \cap m = {}
    BY DEF TableOk
  <2>2. CASE m \in passes
    <3>1. kept \cap m = held \cap m
      <4>1. kept \cap m \subseteq held \cap m
        BY <1>1
      <4>2. held \cap m \subseteq kept \cap m
        BY <1>1, <2>2
      <4> QED BY <4>1, <4>2
    <3> QED BY <2>2, <3>1
  <2>3. CASE m \notin passes
    <3>1. kept \cap m = {}
      <4> SUFFICES ASSUME NEW b \in kept, b \in m PROVE FALSE
        OBVIOUS
      <4>1. PICK n \in passes : b \in held \cap n
        BY <1>1
      <4> QED BY <2>1, <2>3, <4>1
    <3> QED BY <3>1 DEF TableOk
  <2> QED BY <2>2, <2>3
<1> QED BY <1>2, <1>3 DEF Allowed, kept

\* One combination of each of some entries of button_combos is allowed.
LEMMA JoinAllowed ==
  ASSUME TableOk(table), NEW group, Entries(combos, table, group),
         NEW I \in SUBSET Groups, NEW digit, \A i \in I : digit[i] \in DOMAIN combos[i]
  PROVE  Allowed(UNION {combos[i][digit[i]] : i \in I})
<1> DEFINE held == UNION {combos[i][digit[i]] : i \in I}
<1>1. \A i \in I : /\ group[i] \in DOMAIN table
                   /\ combos[i][digit[i]] \in table[group[i]]
                   /\ combos[i][digit[i]] \subseteq group[i]
  <2> SUFFICES ASSUME NEW i \in I
               PROVE  /\ group[i] \in DOMAIN table
                      /\ combos[i][digit[i]] \in table[group[i]]
                      /\ combos[i][digit[i]] \subseteq group[i]
    OBVIOUS
  <2>1. i \in DOMAIN combos /\ digit[i] \in DOMAIN combos[i]
    BY DEF Groups
  <2>2. group[i] \in DOMAIN table /\ combos[i][digit[i]] \in table[group[i]]
    BY <2>1 DEF Entries
  <2>3. table[group[i]] \subseteq SUBSET group[i]
    BY <2>2 DEF TableOk
  <2> QED BY <2>2, <2>3
<1>2. held \subseteq UNION DOMAIN table
  BY <1>1
<1>3. ASSUME NEW m \in DOMAIN table
      PROVE  held \cap m \in table[m]
  <2>1. CASE \E i \in I : group[i] = m
    <3>1. PICK i \in I : group[i] = m
      BY <2>1
    <3>2. \A j \in I : j # i => combos[j][digit[j]] \cap m = {}
      <4> SUFFICES ASSUME NEW j \in I, j # i PROVE combos[j][digit[j]] \cap m = {}
        OBVIOUS
      <4>1. i \in DOMAIN combos /\ j \in DOMAIN combos
        BY DEF Groups
      <4>2. group[j] # m
        BY <3>1, <4>1 DEF Entries
      <4>3. group[j] \cap m = {}
        BY <1>1, <4>2 DEF TableOk
      <4> QED BY <1>1, <4>3
    <3>3. combos[i][digit[i]] \subseteq m
      BY <1>1, <3>1
    <3>4. held \cap m = combos[i][digit[i]]
      BY <3>2, <3>3
    <3> QED BY <1>1, <3>1, <3>4
  <2>2. CASE \A i \in I : group[i] # m
    <3>1. \A i \in I : combos[i][digit[i]] \cap m = {}
      BY <1>1, <2>2 DEF TableOk
    <3>2. held \cap m = {}
      BY <3>1
    <3>3. {} \in table[m]
      BY DEF TableOk
    <3> QED BY <3>2, <3>3
  <2> QED BY <2>1, <2>2
<1> QED BY <1>2, <1>3 DEF Allowed

LEMMA ModIs ==
  ASSUME NEW n \in Nat \ {0}, NEW q \in Nat, NEW r \in 0 .. n - 1
  PROVE  (n * q + r) % n = r
<1> DEFINE x == n * q + r
           d == x \div n
<1>1. n * q \in Nat
  OBVIOUS
<1>2. x \in Nat /\ d \in Int /\ x % n \in 0 .. n - 1 /\ x = n * d + (x % n)
  <2> HIDE DEF x
  <2>1. x \in Nat
    BY <1>1 DEF x
  <2> QED BY <2>1
<1> HIDE DEF d
<1>3. n * (q - d) = (x % n) - r
  <2>1. n * d \in Int
    BY <1>2
  <2>2. n * (q - d) = n * q - n * d
    BY <1>2
  <2> QED BY <1>1, <1>2, <2>1, <2>2
<1>4. q - d = 0
  <2> DEFINE e == q - d
  <2>1. e \in Int
    BY <1>2
  <2>2. n * e < n /\ n * e > -n
    BY <1>2, <1>3
  <2> HIDE DEF e
  <2>3. CASE e >= 1
    BY <2>1, <2>2, <2>3
  <2>4. CASE e <= -1
    BY <2>1, <2>2, <2>4
  <2> QED BY <2>1, <2>3, <2>4 DEF e
<1> QED BY <1>2, <1>3, <1>4

\* Digit k is one of its group, and player p has the digits n * (p - 1) + i.
LEMMA SizeIs ==
  ASSUME NEW group, Entries(combos, table, group), players \in Nat,
         NEW k \in 1 .. Len(combos) * players
  PROVE  ((k - 1) % Len(combos)) + 1 \in Groups /\ Size(k) \in Nat \ {0}
<1> DEFINE n == Len(combos)
<1>1. n \in Nat /\ Groups = 1 .. n
  BY DEF Entries, Groups
<1>2. n # 0
  BY <1>1
<1>3. (k - 1) % n \in 0 .. n - 1
  <2> HIDE DEF n
  <2> QED BY <1>1, <1>2
<1>4. ((k - 1) % n) + 1 \in Groups
  <2> HIDE DEF n
  <2> QED BY <1>1, <1>3
<1> QED BY <1>4 DEF Entries, Groups, Size

LEMMA PlaceIs ==
  ASSUME NEW group, Entries(combos, table, group), players \in Nat,
         NEW p \in 1 .. players, NEW i \in Groups
  PROVE  /\ Len(combos) * (p - 1) + i \in 1 .. Len(combos) * players
         /\ ((Len(combos) * (p - 1) + i - 1) % Len(combos)) + 1 = i
         /\ Size(Len(combos) * (p - 1) + i) = Len(combos[i])
<1> DEFINE n == Len(combos)
           k == n * (p - 1) + i
<1>1. n \in Nat \ {0} /\ i \in 1 .. n
  BY DEF Entries, Groups
<1>2. p - 1 \in Nat /\ players - p \in Nat
  OBVIOUS
<1>3. k \in 1 .. n * players
  <2>1. n * (p - 1) \in Nat /\ n * (players - p) \in Nat
    <3> HIDE DEF n
    <3> QED BY <1>1, <1>2
  <2>2. n * players = n * (p - 1) + n + n * (players - p)
    <3> HIDE DEF n
    <3> QED BY <1>1
  <2> HIDE DEF n
  <2> QED BY <1>1, <2>1, <2>2
<1>4. ((k - 1) % n) + 1 = i
  <2> HIDE DEF n
  <2>1. (n * (p - 1) + (i - 1)) % n = i - 1
    BY <1>1, <1>2, ModIs
  <2>2. k - 1 = n * (p - 1) + (i - 1)
    BY <1>1, <1>2
  <2> QED BY <1>1, <2>1, <2>2
<1> HIDE DEF k
<1>5. Size(k) = Len(combos[i])
  BY <1>4 DEF Size
<1> QED BY <1>3, <1>4, <1>5 DEF k

\* What is left of a number.
LEMMA RestIs ==
  ASSUME NEW group, Entries(combos, table, group), players \in Nat, NEW a \in Int
  PROVE  /\ Rest(a)[0] = a
         /\ \A k \in 0 .. Len(combos) * players : Rest(a)[k] \in Int
         /\ \A k \in 1 .. Len(combos) * players :
              Rest(a)[k] = Rest(a)[k - 1] \div Size(k)
<1> DEFINE l == Len(combos) * players
           step == [k \in 1 .. l |-> [x \in Int |-> x \div Size(k)]]
           Solves(g) == g = [k \in 0 .. l |-> IF k = 0 THEN a ELSE g[k - 1] \div Size(k)]
           rest == Rest(a)
<1>1. l \in Nat
  BY DEF Entries
<1>2. \A k \in 1 .. l : Size(k) \in Nat \ {0}
  BY SizeIs
<1>3. rest = CHOOSE g : Solves(g)
  BY DEF Rest
<1> HIDE DEF l
<1>4. step \in [1 .. l -> [Int -> Int]]
  <2>1. \A k \in 1 .. l : \A x \in Int : x \div Size(k) \in Int
    BY <1>2
  <2> QED BY <2>1
<1>5. \A k \in 1 .. l : \A x \in Int : step[k][x] = x \div Size(k)
  OBVIOUS
<1> HIDE DEF step
<1>6. PICK g : Walk(l, Int, a, step, g)
  BY <1>1, <1>4, WalkExists
<1>7. Solves(g)
  <2> USE DEF Walk
  <2>1. \A k \in 0 .. l : g[k] = IF k = 0 THEN a ELSE g[k - 1] \div Size(k)
    <3> SUFFICES ASSUME NEW k \in 0 .. l
                 PROVE  g[k] = IF k = 0 THEN a ELSE g[k - 1] \div Size(k)
      OBVIOUS
    <3>1. CASE k = 0
      BY <1>6, <3>1
    <3>2. CASE k # 0
      <4>1. k \in 1 .. l /\ k - 1 \in 0 .. l
        BY <1>1, <3>2
      <4>2. g[k] = step[k][g[k - 1]] /\ g[k - 1] \in Int
        BY <1>6, <4>1
      <4>3. step[k][g[k - 1]] = g[k - 1] \div Size(k)
        BY <1>5, <4>1, <4>2
      <4> QED BY <3>2, <4>2, <4>3
    <3> QED BY <3>1, <3>2
  <2>2. g = [k \in 0 .. l |-> g[k]]
    BY <1>6
  <2> QED BY <2>1, <2>2
<1>8. Solves(rest)
  <2> HIDE DEF Solves
  <2> QED BY <1>3, <1>7
<1> HIDE DEF rest
<1>9. /\ rest[0] = a
      /\ \A k \in 1 .. l : rest[k] = rest[k - 1] \div Size(k)
  BY <1>1, <1>8
<1> DEFINE S == {k \in 0 .. l : rest[k] \in Int}
<1>10. 0 \in S
  BY <1>1, <1>9
<1>11. \A k \in 1 .. l : k - 1 \in S => k \in S
  <2> SUFFICES ASSUME NEW k \in 1 .. l, rest[k - 1] \in Int PROVE rest[k] \in Int
    BY <1>1
  <2>1. rest[k] = rest[k - 1] \div Size(k)
    BY <1>9
  <2> QED BY <1>2, <2>1
<1>12. 0 .. l \subseteq S
  <2> HIDE DEF S
  <2> QED BY <1>1, <1>10, <1>11, UpTo
<1> QED BY <1>9, <1>12 DEF l, rest

\* The digits of a number are digits of their groups.
LEMMA DigitsAre ==
  ASSUME NEW group, Entries(combos, table, group), players \in Nat, NEW a \in Int,
         NEW p \in 1 .. players, NEW i \in Groups
  PROVE  Digits(a, p, i) + 1 \in DOMAIN combos[i]
<1> DEFINE l == Len(combos) * players
           k == Len(combos) * (p - 1) + i - 1
<1>1. k + 1 \in 1 .. l /\ l \in Nat
  <2>1. k + 1 = Len(combos) * (p - 1) + i
    BY DEF Entries, Groups
  <2>2. Len(combos) * (p - 1) + i \in 1 .. l
    BY PlaceIs
  <2>3. l \in Nat
    BY DEF Entries
  <2> HIDE DEF l, k
  <2> QED BY <2>1, <2>2, <2>3
<1>2. k \in 0 .. l
  <2>1. k \in Int
    BY DEF Entries, Groups
  <2> HIDE DEF k, l
  <2> QED BY <1>1, <2>1
<1>3. Rest(a)[k] \in Int
  BY <1>2, RestIs
<1>4. Len(combos[i]) \in Nat \ {0} /\ DOMAIN combos[i] = 1 .. Len(combos[i])
  BY DEF Entries, Groups
<1> HIDE DEF k
<1>5. Rest(a)[k] % Len(combos[i]) \in 0 .. Len(combos[i]) - 1
  BY <1>3, <1>4
<1> QED BY <1>4, <1>5 DEF Digits, k

LEMMA DigitsInt ==
  ASSUME NEW group, Entries(combos, table, group), players \in Nat, NEW a \in Int,
         NEW p \in 1 .. players, NEW i \in Groups
  PROVE  Digits(a, p, i) \in Int
<1> DEFINE k == Len(combos) * (p - 1) + i - 1
           l == Len(combos) * players
<1>1. k + 1 \in 1 .. l /\ l \in Nat
  <2>1. k + 1 = Len(combos) * (p - 1) + i
    BY DEF Entries, Groups
  <2>2. Len(combos) * (p - 1) + i \in 1 .. l
    BY PlaceIs
  <2>3. l \in Nat
    BY DEF Entries
  <2> HIDE DEF l, k
  <2> QED BY <2>1, <2>2, <2>3
<1>2. k \in 0 .. l
  <2>1. k \in Int
    BY DEF Entries, Groups
  <2> HIDE DEF k, l
  <2> QED BY <1>1, <2>1
<1>3. Rest(a)[k] \in Int
  BY <1>2, RestIs
<1>4. Len(combos[i]) \in Nat \ {0}
  BY DEF Entries, Groups
<1> HIDE DEF k
<1>5. Rest(a)[k] % Len(combos[i]) \in Int
  BY <1>3, <1>4
<1> QED BY <1>5 DEF Digits, k

\* Every digit is one of some player and group.
LEMMA PlaceOf ==
  ASSUME NEW group, Entries(combos, table, group), players \in Nat,
         NEW k \in 1 .. Len(combos) * players
  PROVE  \E p \in 1 .. players, i \in Groups : k = Len(combos) * (p - 1) + i
<1> DEFINE n == Len(combos)
           q == (k - 1) \div n
           r == (k - 1) % n
<1>1. n \in Nat /\ Groups = 1 .. n
  BY DEF Entries, Groups
<1>2. n # 0 /\ k - 1 \in Nat /\ k - 1 < n * players
  BY <1>1
<1> HIDE DEF n
<1>3. q \in Nat /\ r \in 0 .. n - 1 /\ k - 1 = n * q + r
  BY <1>1, <1>2
<1> HIDE DEF q, r
<1>4. n * q \in Nat /\ n * q <= k - 1
  BY <1>1, <1>3
<1>5. q < players
  <2> SUFFICES ASSUME q >= players PROVE FALSE
    BY <1>3
  <2>1. n * (q - players) \in Nat /\ n * q = n * players + n * (q - players)
    BY <1>1, <1>3
  <2>2. n * players \in Nat
    BY <1>1
  <2> QED BY <1>2, <1>4, <2>1, <2>2
<1>6. q + 1 \in 1 .. players /\ r + 1 \in Groups
  BY <1>1, <1>3, <1>5
<1>7. k = n * ((q + 1) - 1) + (r + 1)
  <2>1. (q + 1) - 1 = q
    BY <1>3
  <2> QED BY <1>3, <1>4, <2>1
<1> QED BY <1>6, <1>7 DEF n

LEMMA MinIs ==
  ASSUME NEW x \in Int, NEW y \in Int
  PROVE  Min({x, y}) = IF x <= y THEN x ELSE y
  BY DEF Min

\* The part of player q of an action with l entries: what is before it, where it
\* ends, and how long it is.
Start(q) == NumButtons * (q - 1)
End(l, q) == IF NumButtons * q <= l THEN NumButtons * q ELSE l
Cut(l, q) == IF Start(q) + 1 <= End(l, q) THEN End(l, q) - Start(q) ELSE 0

LEMMA PartCuts ==
  ASSUME NEW l \in Nat, NEW a \in [1 .. l -> Int], NEW q \in Nat \ {0}
  PROVE  /\ Start(q) \in Nat /\ End(l, q) \in Nat /\ End(l, q) <= l
         /\ DOMAIN Part(a, q) = 1 .. Cut(l, q) /\ Len(Part(a, q)) = Cut(l, q)
         /\ \A i \in 1 .. Cut(l, q) : Part(a, q)[i] = a[Start(q) + i]
<1> DEFINE first == NumButtons * (q - 1)
           end == IF NumButtons * q <= l THEN NumButtons * q ELSE l
           size == IF first + 1 <= end THEN end - first ELSE 0
           part == Part(a, q)
<1>0. first = Start(q) /\ end = End(l, q) /\ size = Cut(l, q)
  BY DEF Start, End, Cut
<1>1. NumButtons \in Nat
  BY ActionAssumption
<1>2. first \in Nat /\ NumButtons * q \in Nat /\ NumButtons * q = first + NumButtons
  <2>1. q - 1 \in Nat
    OBVIOUS
  <2> QED BY <1>1, <2>1
<1>3. Len(a) = l
  OBVIOUS
<1>4. Min({NumButtons * q, Len(a)}) = end
  <2> HIDE DEF end
  <2>1. Min({NumButtons * q, l}) = IF NumButtons * q <= l THEN NumButtons * q ELSE l
    BY <1>2, MinIs
  <2> QED BY <1>3, <2>1 DEF end
<1>5. part = SubSeq(a, first + 1, end)
  BY <1>4 DEF Part
<1>6. end \in Nat /\ end <= l /\ end <= first + NumButtons
  BY <1>1, <1>2
<1> HIDE DEF first, end, part
<1> DEFINE m == first + 1
<1>7. m \in Int /\ end \in Int /\ \A i \in m .. end : a[i] \in Int
  BY <1>2, <1>6
<1> HIDE DEF m
<1>8. /\ SubSeq(a, m, end) \in Seq(Int)
      /\ Len(SubSeq(a, m, end)) = IF m <= end THEN end - m + 1 ELSE 0
      /\ \A i \in 1 .. end - m + 1 : SubSeq(a, m, end)[i] = a[m + i - 1]
  BY <1>7, SubSeqProperties, SMTT(30)
<1>9. /\ part \in Seq(Int)
      /\ Len(part) = IF first + 1 <= end THEN end - (first + 1) + 1 ELSE 0
      /\ \A i \in 1 .. end - (first + 1) + 1 : part[i] = a[first + 1 + i - 1]
  BY <1>5, <1>8 DEF m
<1>10. Len(part) = size /\ DOMAIN part = 1 .. size
  BY <1>2, <1>6, <1>9
<1>11. \A i \in 1 .. size : part[i] = a[first + i]
  <2> SUFFICES ASSUME NEW i \in 1 .. size PROVE part[i] = a[first + i]
    OBVIOUS
  <2>1. i \in 1 .. end - (first + 1) + 1 /\ first + 1 + i - 1 = first + i
    BY <1>2, <1>6
  <2> QED BY <1>9, <2>1
<1> QED BY <1>0, <1>2, <1>6, <1>10, <1>11 DEF part

\* Every group has its own place in the part of a player: the parts are cut at
\* the number of buttons, so with several players either an index is too high or
\* there are as many groups as buttons.
LEMMA PartIs ==
  ASSUME NEW group, Entries(combos, table, group), players \in Nat,
         kind = "MULTI_DISCRETE", NEW a \in Space, ~ IndexError(a),
         NEW p \in 1 .. players, NEW i \in DOMAIN Part(a, p)
  PROVE  i \in Groups /\ Part(a, p)[i] + 1 \in DOMAIN combos[i]
<1> DEFINE n == Len(combos)
           l == n * players
           most == Max({Len(combos[j]) : j \in Groups})
           first == Start(p)
<1>1. /\ n \in Nat /\ NumButtons \in Nat /\ n <= NumButtons /\ l \in Nat
      /\ Groups = 1 .. n
  BY ActionAssumption DEF Entries, Groups
<1>2. a \in [1 .. l -> 0 .. most - 1] /\ \A j \in DOMAIN a : a[j] < Size(j)
  <2>1. Space = {b \in [1 .. l -> 0 .. most - 1] : \A j \in DOMAIN b : b[j] < Size(j)}
    BY DEF Space
  <2> HIDE DEF l, most
  <2> QED BY <2>1
<1> HIDE DEF most, l
<1>3. a \in [1 .. l -> Int] /\ \A j \in 1 .. l : a[j] >= 0 /\ a[j] < Size(j)
  BY <1>2
<1>4. \A q \in 1 .. players : Len(Part(a, q)) <= n
  <2> SUFFICES ASSUME NEW q \in 1 .. players, Len(Part(a, q)) > n PROVE FALSE
    <3>1. \A q \in 1 .. players : Len(Part(a, q)) \in Nat
      BY <1>1, <1>3, PartCuts
    <3> QED BY <1>1, <3>1
  <2> QED BY DEF IndexError
<1>5. /\ first \in Nat /\ i \in 1 .. n /\ first + i \in 1 .. l
      /\ Part(a, p)[i] = a[first + i]
  <2>1. p \in Nat \ {0}
    BY <1>1
  <2>2. /\ first \in Nat /\ End(l, p) \in Nat /\ End(l, p) <= l
        /\ DOMAIN Part(a, p) = 1 .. Cut(l, p) /\ Len(Part(a, p)) = Cut(l, p)
        /\ \A j \in 1 .. Cut(l, p) : Part(a, p)[j] = a[first + j]
    BY <1>1, <1>3, <2>1, PartCuts
  <2>3. Len(Part(a, p)) <= n
    BY <1>4
  <2>4. Cut(l, p) = IF first + 1 <= End(l, p) THEN End(l, p) - first ELSE 0
    BY DEF Cut
  <2> HIDE DEF first
  <2>5. i \in 1 .. Cut(l, p) /\ Cut(l, p) <= n
    BY <2>2, <2>3
  <2> QED BY <1>1, <2>2, <2>4, <2>5
<1>6. (first + i - 1) % n = i - 1
  <2>1. CASE p = 1
    <3>1. first = 0
      BY <1>1, <2>1 DEF Start
    <3>2. n \in Nat \ {0} /\ i - 1 \in 0 .. n - 1
      BY <1>1, <1>5
    <3>3. (n * 0 + (i - 1)) % n = i - 1
      <4> HIDE DEF n
      <4> QED BY <3>2, ModIs
    <3>4. first + i - 1 = n * 0 + (i - 1)
      BY <1>5, <3>1, <3>2
    <3> QED BY <3>3, <3>4
  <2>2. CASE p # 1
    <3>1. n = NumButtons
      <4>1. 1 \in 1 .. players /\ players >= 2
        BY <2>2
      <4>2. Len(Part(a, 1)) = Cut(l, 1)
        BY <1>1, <1>3, PartCuts, SMTT(30)
      <4>3. Cut(l, 1) = IF NumButtons <= l THEN NumButtons ELSE l
        BY <1>1 DEF Cut, Start, End
      <4>4. l > n
        <5>1. n * (players - 2) \in Nat
          BY <1>1, <4>1
        <5>2. n * players = n * (players - 2) + n + n
          BY <1>1, <4>1
        <5> QED BY <1>1, <1>5, <5>1, <5>2 DEF l
      <4> QED BY <1>1, <1>4, <4>1, <4>2, <4>3, <4>4
    <3>2. (n * (p - 1) + (i - 1)) % n = i - 1
      <4>1. n \in Nat \ {0} /\ p - 1 \in Nat /\ i - 1 \in 0 .. n - 1
        BY <1>1, <1>5
      <4> HIDE DEF n
      <4> QED BY <4>1, ModIs
    <3>3. first + i - 1 = n * (p - 1) + (i - 1)
      BY <1>1, <1>5, <3>1 DEF Start
    <3> QED BY <3>2, <3>3
  <2> QED BY <2>1, <2>2
<1>7. Size(first + i) = Len(combos[i])
  <2>1. ((first + i - 1) % n) + 1 = i
    BY <1>5, <1>6
  <2> DEFINE k == first + i
  <2>2. first + i - 1 = k - 1
    <3> HIDE DEF first
    <3> QED BY <1>5
  <2>3. ((k - 1) % n) + 1 = i
    <3> HIDE DEF k, first
    <3> QED BY <2>1, <2>2
  <2> HIDE DEF k
  <2>4. Size(k) = Len(combos[i])
    BY <2>3 DEF Size
  <2> QED BY <2>4 DEF k
<1>8. a[first + i] \in 0 .. Len(combos[i]) - 1
  <2>1. a[first + i] \in Int /\ a[first + i] >= 0 /\ a[first + i] < Size(first + i)
    BY <1>3, <1>5
  <2>2. Len(combos[i]) \in Nat
    BY <1>1, <1>5 DEF Entries
  <2> HIDE DEF first
  <2> QED BY <1>7, <2>1, <2>2
<1>9. DOMAIN combos[i] = 1 .. Len(combos[i]) /\ Len(combos[i]) \in Nat
  BY <1>1, <1>5 DEF Entries
<1> QED BY <1>1, <1>5, <1>8, <1>9
-----------------------------------------------------------------------------
(***************************************************************************)
(* The spaces have every joint action of the players.                      *)
(***************************************************************************)
\* How many numbers have k digits.
LEMMA NumbersAre ==
  ASSUME NEW group, Entries(combos, table, group), players \in Nat
  PROVE  /\ Numbers[0] = 1
         /\ \A k \in 0 .. Len(combos) * players : Numbers[k] \in Nat \ {0}
         /\ \A k \in 1 .. Len(combos) * players : Numbers[k] = Numbers[k - 1] * Size(k)
<1> DEFINE l == Len(combos) * players
           P == Nat \ {0}
           step == [k \in 1 .. l |-> [x \in P |-> x * Size(k)]]
           Solves(g) == g = [k \in 0 .. l |-> IF k = 0 THEN 1 ELSE g[k - 1] * Size(k)]
           numbers == Numbers
<1>1. l \in Nat
  BY DEF Entries
<1>2. \A k \in 1 .. l : Size(k) \in P
  BY SizeIs
<1>3. numbers = CHOOSE g : Solves(g)
  BY DEF Numbers
<1> HIDE DEF l
<1>4. step \in [1 .. l -> [P -> P]]
  <2>1. ASSUME NEW k \in 1 .. l, NEW x \in P PROVE x * Size(k) \in P
    <3> DEFINE y == Size(k)
    <3>1. y \in P
      BY <1>2
    <3> HIDE DEF y
    <3>2. x * y \in Nat /\ x * y # 0
      BY <3>1
    <3> QED BY <3>2 DEF y
  <2> QED BY <2>1
<1>5. \A k \in 1 .. l : \A x \in P : step[k][x] = x * Size(k)
  OBVIOUS
<1>6. 1 \in P
  OBVIOUS
<1> HIDE DEF step, P
<1>7. PICK g : Walk(l, P, 1, step, g)
  BY <1>1, <1>4, <1>6, WalkExists
<1>8. Solves(g)
  <2> USE DEF Walk
  <2>1. \A k \in 0 .. l : g[k] = IF k = 0 THEN 1 ELSE g[k - 1] * Size(k)
    <3> SUFFICES ASSUME NEW k \in 0 .. l
                 PROVE  g[k] = IF k = 0 THEN 1 ELSE g[k - 1] * Size(k)
      OBVIOUS
    <3>1. CASE k = 0
      BY <1>7, <3>1
    <3>2. CASE k # 0
      <4>1. k \in 1 .. l /\ k - 1 \in 0 .. l
        BY <1>1, <3>2
      <4>2. g[k] = step[k][g[k - 1]] /\ g[k - 1] \in P
        BY <1>7, <4>1
      <4>3. step[k][g[k - 1]] = g[k - 1] * Size(k)
        BY <1>5, <4>1, <4>2
      <4> QED BY <3>2, <4>2, <4>3
    <3> QED BY <3>1, <3>2
  <2>2. g = [k \in 0 .. l |-> g[k]]
    BY <1>7
  <2> QED BY <2>1, <2>2
<1>9. Solves(numbers)
  <2> HIDE DEF Solves
  <2> QED BY <1>3, <1>8
<1> HIDE DEF numbers
<1>10. /\ numbers[0] = 1
       /\ \A k \in 1 .. l : numbers[k] = numbers[k - 1] * Size(k)
  BY <1>1, <1>9
<1> DEFINE S == {k \in 0 .. l : numbers[k] \in P}
<1>11. 0 \in S
  BY <1>1, <1>6, <1>10
<1>12. \A k \in 1 .. l : k - 1 \in S => k \in S
  <2> SUFFICES ASSUME NEW k \in 1 .. l, numbers[k - 1] \in P PROVE numbers[k] \in P
    BY <1>1
  <2>1. numbers[k] = numbers[k - 1] * Size(k)
    BY <1>10
  <2> DEFINE x == numbers[k - 1]
             y == Size(k)
  <2>2. x \in P /\ y \in P
    BY <1>2
  <2> HIDE DEF x, y
  <2>3. x * y \in P
    BY <2>2 DEF P
  <2> QED BY <2>1, <2>3 DEF x, y
<1>13. 0 .. l \subseteq S
  <2> HIDE DEF S
  <2> QED BY <1>1, <1>11, <1>12, UpTo
<1> QED BY <1>10, <1>13 DEF l, numbers, P

LEMMA DivIs ==
  ASSUME NEW n \in Nat \ {0}, NEW q \in Nat, NEW r \in 0 .. n - 1
  PROVE  (n * q + r) \div n = q
<1> DEFINE x == n * q + r
           d == x \div n
<1>1. n * q \in Nat
  OBVIOUS
<1>2. x \in Nat /\ d \in Int /\ x = n * d + (x % n)
  <2> HIDE DEF x
  <2>1. x \in Nat
    BY <1>1 DEF x
  <2> QED BY <2>1
<1>3. x % n = r
  BY ModIs
<1> HIDE DEF d
<1>4. n * d = n * q
  <2>1. n * d \in Int
    BY <1>2
  <2> QED BY <1>1, <1>2, <1>3, <2>1
<1>5. d = q
  <2>1. n * (d - q) = 0
    BY <1>1, <1>2, <1>4
  <2>2. d - q = 0
    BY <1>2, <2>1
  <2> QED BY <1>2, <2>2
<1> QED BY <1>5 DEF d

\* A number made of another one and a digit is below what follows.
LEMMA DigitBelow ==
  ASSUME NEW h \in Nat, NEW s \in Nat \ {0}, NEW d \in 0 .. s - 1,
         NEW w \in Nat, NEW t \in Nat, (h + 1) * (w * s) <= t
  PROVE  s * h + d \in Nat /\ (s * h + d + 1) * w <= t
<1>1. s * h \in Nat /\ (h + 1) * s \in Nat /\ (h + 1) * s = s * h + s
  OBVIOUS
<1> DEFINE x == s * h + d + 1
           y == (h + 1) * s
<1>2. x \in Nat /\ y \in Nat /\ x <= y
  BY <1>1
<1>3. y * w = (h + 1) * (w * s)
  OBVIOUS
<1> HIDE DEF y
<1>4. x * w <= y * w
  <2> HIDE DEF x
  <2>1. y - x \in Nat /\ (y - x) * w \in Nat
    BY <1>2
  <2>2. y * w = x * w + (y - x) * w
    BY <1>2
  <2>3. x * w \in Nat /\ y * w \in Nat
    BY <1>2
  <2> QED BY <2>1, <2>2, <2>3
<1>5. x * w \in Nat /\ y * w \in Nat
  BY <1>2
<1>6. s * h + d \in Nat
  BY <1>1
<1> HIDE DEF x
<1>7. x * w <= t
  BY <1>3, <1>4, <1>5
<1> QED BY <1>6, <1>7 DEF x

\* Some number has any digits.
LEMMA DigitsGive ==
  ASSUME NEW group, Entries(combos, table, group), players \in Nat,
         NEW d \in [1 .. Len(combos) * players -> Nat],
         \A k \in 1 .. Len(combos) * players : d[k] < Size(k)
  PROVE  \E a \in 0 .. Numbers[Len(combos) * players] - 1 :
           \A k \in 1 .. Len(combos) * players : Rest(a)[k - 1] % Size(k) = d[k]
<1> DEFINE l == Len(combos) * players
           step == [j \in 1 .. l |->
                      [x \in Nat |-> Size(l - j + 1) * x + d[l - j + 1]]]
<1>1. l \in Nat
  BY DEF Entries
<1>2. \A k \in 1 .. l : Size(k) \in Nat \ {0}
  BY SizeIs
<1>3. /\ Numbers[0] = 1 /\ \A k \in 0 .. l : Numbers[k] \in Nat
      /\ \A k \in 1 .. l : Numbers[k] = Numbers[k - 1] * Size(k)
  BY NumbersAre
<1>4. \A a \in Int : /\ Rest(a)[0] = a
                     /\ \A k \in 1 .. l : Rest(a)[k] = Rest(a)[k - 1] \div Size(k)
  BY RestIs
<1>5. d \in [1 .. l -> Nat] /\ \A k \in 1 .. l : d[k] < Size(k)
  OBVIOUS
<1> HIDE DEF l
<1>6. ASSUME NEW k \in 1 .. l PROVE d[k] \in 0 .. Size(k) - 1
  <2> DEFINE s == Size(k)
  <2>1. s \in Nat \ {0} /\ d[k] \in Nat /\ d[k] < s
    BY <1>2, <1>5
  <2> HIDE DEF s
  <2>2. d[k] \in 0 .. s - 1
    BY <2>1
  <2> QED BY <2>2 DEF s
<1>7. step \in [1 .. l -> [Nat -> Nat]]
  <2>1. ASSUME NEW j \in 1 .. l, NEW x \in Nat
        PROVE  Size(l - j + 1) * x + d[l - j + 1] \in Nat
    <3> DEFINE k == l - j + 1
    <3>1. k \in 1 .. l
      BY <1>1
    <3> HIDE DEF k
    <3>2. Size(k) \in Nat /\ d[k] \in Nat
      BY <1>2, <1>5, <3>1
    <3>3. Size(k) * x \in Nat
      BY <3>2
    <3>4. Size(k) * x + d[k] \in Nat
      BY <3>2, <3>3
    <3> QED BY <3>4 DEF k
  <2> QED BY <2>1
<1>8. \A j \in 1 .. l : \A x \in Nat :
        step[j][x] = Size(l - j + 1) * x + d[l - j + 1]
  OBVIOUS
<1> HIDE DEF step
<1>9. PICK g : Walk(l, Nat, 0, step, g)
  BY <1>1, <1>7, WalkExists
<1>10. /\ g \in [0 .. l -> Nat] /\ g[0] = 0
       /\ \A k \in 1 .. l : g[l - k + 1] = Size(k) * g[l - k] + d[k]
  <2>1. g \in [0 .. l -> Nat] /\ g[0] = 0 /\ \A j \in 1 .. l : g[j] = step[j][g[j - 1]]
    BY <1>9 DEF Walk
  <2>2. ASSUME NEW k \in 1 .. l PROVE g[l - k + 1] = Size(k) * g[l - k] + d[k]
    <3> DEFINE j == l - k + 1
    <3>1. j \in 1 .. l /\ j - 1 = l - k /\ j - 1 \in 0 .. l /\ l - j + 1 = k
      BY <1>1
    <3> HIDE DEF j
    <3>2. g[j] = step[j][g[j - 1]] /\ g[j - 1] \in Nat
      BY <2>1, <3>1
    <3>3. g[j] = Size(k) * g[j - 1] + d[k]
      BY <1>8, <3>1, <3>2
    <3> QED BY <3>1, <3>3 DEF j
  <2> QED BY <2>1, <2>2
<1> DEFINE a == g[l]
<1>11. a \in 0 .. Numbers[l] - 1
  <2> DEFINE S == {j \in 0 .. l : (g[j] + 1) * Numbers[l - j] <= Numbers[l]}
  <2>1. 0 \in S
    BY <1>1, <1>3, <1>10
  <2>2. ASSUME NEW j \in 1 .. l, j - 1 \in S PROVE j \in S
    <3> DEFINE k == l - j + 1
               h == g[l - k]
               s == Size(k)
               w == Numbers[k - 1]
    <3>1. k \in 1 .. l /\ l - k = j - 1 /\ l - k + 1 = j /\ k - 1 = l - j /\ k = l - (j - 1)
      BY <1>1
    <3> HIDE DEF k
    <3>2. /\ h \in Nat /\ s \in Nat \ {0} /\ d[k] \in 0 .. s - 1 /\ w \in Nat
          /\ Numbers[l] \in Nat /\ Numbers[k] = w * s /\ g[j] = s * h + d[k]
      <4>1. l - k \in 0 .. l /\ k - 1 \in 0 .. l /\ l \in 0 .. l
        BY <1>1, <3>1
      <4>2. h \in Nat /\ w \in Nat /\ Numbers[l] \in Nat
        BY <1>3, <1>10, <4>1
      <4>3. s \in Nat \ {0} /\ d[k] \in 0 .. s - 1 /\ Numbers[k] = w * s
        BY <1>2, <1>3, <1>6, <3>1
      <4>4. g[j] = s * h + d[k]
        BY <1>10, <3>1
      <4> QED BY <4>2, <4>3, <4>4
    <3>3. (h + 1) * Numbers[k] <= Numbers[l]
      BY <2>2, <3>1
    <3> HIDE DEF h, s, w
    <3>4. (s * h + d[k] + 1) * w <= Numbers[l]
      BY <3>2, <3>3, DigitBelow
    <3>5. (g[j] + 1) * Numbers[l - j] <= Numbers[l]
      BY <3>1, <3>2, <3>4 DEF w
    <3> QED BY <3>5
  <2>3. 0 .. l \subseteq S
    <3> HIDE DEF S
    <3> QED BY <1>1, <2>1, <2>2, UpTo
  <2>4. l \in S
    BY <1>1, <2>3
  <2>5. (g[l] + 1) * Numbers[0] <= Numbers[l] /\ g[l] \in Nat /\ Numbers[l] \in Nat
    BY <1>1, <1>3, <1>10, <2>4
  <2>6. g[l] + 1 <= Numbers[l]
    BY <1>3, <2>5
  <2> QED BY <2>5, <2>6
<1>12. ASSUME NEW k \in 1 .. l
       PROVE  /\ (Size(k) * g[l - k] + d[k]) \div Size(k) = g[l - k]
              /\ (Size(k) * g[l - k] + d[k]) % Size(k) = d[k]
  <2> DEFINE s == Size(k)
             h == g[l - k]
  <2>1. l - k \in 0 .. l
    BY <1>1
  <2>2. s \in Nat \ {0} /\ h \in Nat /\ d[k] \in 0 .. s - 1
    BY <1>2, <1>6, <1>10, <2>1
  <2> HIDE DEF s, h
  <2>3. (s * h + d[k]) \div s = h /\ (s * h + d[k]) % s = d[k]
    BY <2>2, DivIs, ModIs
  <2> QED BY <2>3 DEF s, h
<1>13. \A k \in 0 .. l : Rest(a)[k] = g[l - k]
  <2> DEFINE S == {k \in 0 .. l : Rest(a)[k] = g[l - k]}
  <2>0. a \in Int
    BY <1>11
  <2>1. 0 \in S
    BY <1>1, <1>4, <2>0
  <2>2. ASSUME NEW k \in 1 .. l, k - 1 \in S PROVE k \in S
    <3>1. l - (k - 1) = l - k + 1
      BY <1>1
    <3>2. Rest(a)[k] = Rest(a)[k - 1] \div Size(k) /\ Rest(a)[k - 1] = g[l - (k - 1)]
      BY <1>4, <2>0, <2>2
    <3>3. Rest(a)[k - 1] = Size(k) * g[l - k] + d[k]
      BY <1>10, <3>1, <3>2
    <3>4. Rest(a)[k] = g[l - k]
      BY <1>12, <3>2, <3>3
    <3> QED BY <3>4
  <2> HIDE DEF S, a
  <2>3. 0 .. l \subseteq S
    BY <1>1, <2>1, <2>2, UpTo
  <2> QED BY <2>3 DEF S
<1>14. \A k \in 1 .. l : Rest(a)[k - 1] % Size(k) = d[k]
  <2> SUFFICES ASSUME NEW k \in 1 .. l PROVE Rest(a)[k - 1] % Size(k) = d[k]
    OBVIOUS
  <2> HIDE DEF a
  <2>1. k - 1 \in 0 .. l /\ l - (k - 1) = l - k + 1
    BY <1>1
  <2>2. Rest(a)[k - 1] = g[l - k + 1]
    BY <1>13, <2>1
  <2>3. Rest(a)[k - 1] = Size(k) * g[l - k] + d[k]
    BY <1>10, <2>2
  <2> QED BY <1>12, <2>3
<1> HIDE DEF a
<1> QED BY <1>11, <1>14 DEF l

\* Nothing is left of a number that is not too high when all digits are taken.
LEMMA NothingLeft ==
  ASSUME NEW group, Entries(combos, table, group), players \in Nat,
         NEW a \in 0 .. Numbers[Len(combos) * players] - 1
  PROVE  Rest(a)[Len(combos) * players] = 0
<1> DEFINE l == Len(combos) * players
           S == {k \in 0 .. l : Rest(a)[k] \in Nat /\ Rest(a)[k] * Numbers[k] <= a}
<1>1. l \in Nat
  BY DEF Entries
<1>2. \A k \in 1 .. l : Size(k) \in Nat \ {0}
  BY SizeIs
<1>3. /\ Numbers[0] = 1 /\ \A k \in 0 .. l : Numbers[k] \in Nat \ {0}
      /\ \A k \in 1 .. l : Numbers[k] = Numbers[k - 1] * Size(k)
  BY NumbersAre
<1>4. a \in Nat /\ a < Numbers[l]
  <2> HIDE DEF l
  <2>1. Numbers[l] \in Nat
    BY <1>1, <1>3
  <2> QED BY <2>1 DEF l
<1>5. Rest(a)[0] = a /\ \A k \in 1 .. l : Rest(a)[k] = Rest(a)[k - 1] \div Size(k)
  BY <1>4, RestIs
<1> HIDE DEF l
<1>6. 0 \in S
  BY <1>1, <1>3, <1>4, <1>5
<1>7. ASSUME NEW k \in 1 .. l, k - 1 \in S PROVE k \in S
  <2> DEFINE s == Size(k)
             r == Rest(a)[k - 1]
             q == r \div s
             w == Numbers[k - 1]
  <2>1. k - 1 \in 0 .. l
    BY <1>1
  <2>2. s \in Nat \ {0} /\ r \in Nat /\ w \in Nat /\ r * w <= a
    BY <1>2, <1>3, <1>7, <2>1
  <2>3. Rest(a)[k] = q /\ Numbers[k] = w * s
    BY <1>3, <1>5
  <2> HIDE DEF s, r, w
  <2>4. q \in Nat /\ r = s * q + (r % s) /\ r % s \in 0 .. s - 1
    BY <2>2
  <2> HIDE DEF q
  <2>5. q * (w * s) <= r * w
    <3>1. q * s \in Nat /\ q * s <= r
      BY <2>2, <2>4
    <3>2. (r - q * s) * w \in Nat
      BY <2>2, <3>1
    <3>3. r * w = (q * s) * w + (r - q * s) * w
      BY <2>2, <2>4
    <3>4. (q * s) * w = q * (w * s) /\ (q * s) * w \in Nat
      BY <2>2, <2>4
    <3> QED BY <3>2, <3>3, <3>4
  <2>6. q * (w * s) \in Nat /\ r * w \in Nat
    BY <2>2, <2>4
  <2>7. q * (w * s) <= a
    BY <1>4, <2>2, <2>5, <2>6
  <2> QED BY <2>3, <2>4, <2>7
<1>8. 0 .. l \subseteq S
  <2> HIDE DEF S
  <2> QED BY <1>1, <1>6, <1>7, UpTo
<1>9. Rest(a)[l] \in Nat /\ Rest(a)[l] * Numbers[l] <= a
  BY <1>1, <1>8
<1> DEFINE r == Rest(a)[l]
           n == Numbers[l]
<1>10. r \in Nat /\ n \in Nat /\ r * n < n
  <2>1. r \in Nat /\ n \in Nat
    BY <1>1, <1>3, <1>9
  <2>2. r * n <= a /\ a < n
    BY <1>4, <1>9
  <2> HIDE DEF r, n
  <2>3. r * n \in Nat
    BY <2>1
  <2> QED BY <1>4, <2>1, <2>2, <2>3
<1> HIDE DEF r, n
<1>11. r = 0
  <2> SUFFICES ASSUME r >= 1 PROVE FALSE
    BY <1>10
  <2>1. (r - 1) * n \in Nat /\ r * n = (r - 1) * n + n
    BY <1>10
  <2> QED BY <1>10, <2>1
<1> QED BY <1>11 DEF r, l

\* A number is told by its digits.
LEMMA DigitsTell ==
  ASSUME NEW group, Entries(combos, table, group), players \in Nat,
         NEW a \in 0 .. Numbers[Len(combos) * players] - 1,
         NEW b \in 0 .. Numbers[Len(combos) * players] - 1,
         \A k \in 1 .. Len(combos) * players :
           Rest(a)[k - 1] % Size(k) = Rest(b)[k - 1] % Size(k)
  PROVE  a = b
<1> DEFINE l == Len(combos) * players
           S == {j \in 0 .. l : Rest(a)[l - j] = Rest(b)[l - j]}
<1>1. l \in Nat
  BY DEF Entries
<1>2. \A k \in 1 .. l : Size(k) \in Nat \ {0}
  BY SizeIs
<1>3. ASSUME NEW x \in 0 .. Numbers[Len(combos) * players] - 1
      PROVE  /\ Rest(x)[0] = x /\ Rest(x)[l] = 0
             /\ \A k \in 0 .. l : Rest(x)[k] \in Int
             /\ \A k \in 1 .. l : Rest(x)[k] = Rest(x)[k - 1] \div Size(k)
  <2>1. Numbers[l] \in Nat
    <3>1. \A k \in 0 .. l : Numbers[k] \in Nat \ {0}
      BY NumbersAre
    <3> HIDE DEF l
    <3> QED BY <1>1, <3>1
  <2>2. x \in Int
    <3> HIDE DEF l
    <3> QED BY <2>1 DEF l
  <2> QED BY <2>2, RestIs, NothingLeft
<1>4. /\ Rest(a)[0] = a /\ Rest(a)[l] = 0
      /\ \A k \in 0 .. l : Rest(a)[k] \in Int
      /\ \A k \in 1 .. l : Rest(a)[k] = Rest(a)[k - 1] \div Size(k)
  BY <1>3
<1>5. /\ Rest(b)[0] = b /\ Rest(b)[l] = 0
      /\ \A k \in 0 .. l : Rest(b)[k] \in Int
      /\ \A k \in 1 .. l : Rest(b)[k] = Rest(b)[k - 1] \div Size(k)
  BY <1>3
<1>6. \A k \in 1 .. l : Rest(a)[k - 1] % Size(k) = Rest(b)[k - 1] % Size(k)
  OBVIOUS
<1> HIDE DEF l
<1>7. 0 \in S
  BY <1>1, <1>4, <1>5
<1>8. ASSUME NEW j \in 1 .. l, j - 1 \in S PROVE j \in S
  <2> DEFINE k == l - j + 1
             x == Rest(a)[k - 1]
             y == Rest(b)[k - 1]
             s == Size(k)
  <2>1. k \in 1 .. l /\ k = l - (j - 1) /\ k - 1 = l - j /\ k - 1 \in 0 .. l
    BY <1>1
  <2> HIDE DEF k
  <2>2. /\ x \in Int /\ y \in Int /\ s \in Nat \ {0} /\ x % s = y % s
        /\ x \div s = y \div s
    <3>1. Rest(a)[k] = Rest(b)[k]
      BY <1>8, <2>1
    <3> QED BY <1>2, <1>4, <1>5, <1>6, <2>1, <3>1
  <2> HIDE DEF x, y, s
  <2>3. x = y
    <3>1. x = s * (x \div s) + (x % s)
      BY <2>2
    <3>2. y = s * (y \div s) + (y % s)
      BY <2>2
    <3> QED BY <2>2, <3>1, <3>2
  <2> QED BY <2>1, <2>3 DEF x, y
<1>9. 0 .. l \subseteq S
  <2> HIDE DEF S
  <2> QED BY <1>1, <1>7, <1>8, UpTo
<1>10. Rest(a)[l - l] = Rest(b)[l - l] /\ l - l = 0
  BY <1>1, <1>9
<1> QED BY <1>4, <1>5, <1>10
-----------------------------------------------------------------------------
(***************************************************************************)
(* Decoding reaches every joint action, and a number tells its own.        *)
(***************************************************************************)
LEMMA AllowedButtons ==
  ASSUME TableOk(table), NEW held, Allowed(held)
  PROVE  held \in SUBSET Buttons
  BY DEF TableOk, Allowed

\* filterAction leaves an allowed action as it is.
LEMMA FilterKeeps ==
  ASSUME NEW held, Allowed(held)
  PROVE  FilterAction(held) = held
<1>1. {n \in DOMAIN table : held \cap n \in table[n]} = DOMAIN table
  BY DEF Allowed
<1>2. FilterAction(held) = UNION {held \cap m : m \in DOMAIN table}
  BY <1>1 DEF FilterAction
<1> QED BY <1>2 DEF Allowed

\* The combinations that were put together are those that are held.
LEMMA JoinKeeps ==
  ASSUME TableOk(table), NEW group, Entries(combos, table, group),
         NEW digit, \A i \in Groups : digit[i] \in DOMAIN combos[i], NEW i \in Groups
  PROVE  (UNION {combos[j][digit[j]] : j \in Groups}) \cap group[i] = combos[i][digit[i]]
<1>1. ASSUME NEW j \in Groups
      PROVE  group[j] \in DOMAIN table /\ combos[j][digit[j]] \subseteq group[j]
  <2>1. j \in DOMAIN combos /\ digit[j] \in DOMAIN combos[j]
    BY DEF Groups
  <2>2. group[j] \in DOMAIN table /\ combos[j][digit[j]] \in table[group[j]]
    BY <2>1 DEF Entries
  <2>3. table[group[j]] \subseteq SUBSET group[j]
    BY <2>2 DEF TableOk
  <2> QED BY <2>2, <2>3
<1>2. ASSUME NEW j \in Groups, j # i PROVE combos[j][digit[j]] \cap group[i] = {}
  <2>1. group[j] # group[i]
    BY <1>2 DEF Entries, Groups
  <2>2. group[j] \cap group[i] = {}
    BY <1>1, <2>1 DEF TableOk
  <2> QED BY <1>1, <2>2
<1> QED BY <1>1, <1>2

\* What is allowed is one combination of every entry of button_combos.
LEMMA AllowedIsJoin ==
  ASSUME NEW group, Entries(combos, table, group), Complete(combos, table, group),
         NEW held, Allowed(held),
         NEW digit, \A i \in Groups : combos[i][digit[i]] = held \cap group[i]
  PROVE  held = UNION {combos[i][digit[i]] : i \in Groups}
<1>1. \A b \in held : \E i \in Groups : b \in group[i]
  <2> SUFFICES ASSUME NEW b \in held PROVE \E i \in Groups : b \in group[i]
    OBVIOUS
  <2>1. PICK m \in DOMAIN table : b \in m
    BY DEF Allowed
  <2>2. PICK i \in DOMAIN combos : group[i] = m
    BY DEF Complete
  <2> QED BY <2>1, <2>2 DEF Groups
<1> QED BY <1>1

LEMMA AllowedDigit ==
  ASSUME NEW group, Entries(combos, table, group), Complete(combos, table, group),
         NEW held, Allowed(held), NEW i \in Groups
  PROVE  \E d \in 0 .. Len(combos[i]) - 1 : combos[i][d + 1] = held \cap group[i]
<1>1. i \in DOMAIN combos /\ group[i] \in DOMAIN table
  BY DEF Entries, Groups
<1>2. held \cap group[i] \in table[group[i]]
  BY <1>1 DEF Allowed
<1>3. PICK k \in DOMAIN combos[i] : combos[i][k] = held \cap group[i]
  BY <1>1, <1>2 DEF Complete
<1>4. DOMAIN combos[i] = 1 .. Len(combos[i]) /\ Len(combos[i]) \in Nat
  BY <1>1 DEF Entries
<1>5. k - 1 \in 0 .. Len(combos[i]) - 1 /\ (k - 1) + 1 = k
  <2> HIDE DEF Groups
  <2> QED BY <1>3, <1>4
<1> QED BY <1>3, <1>5

\* A Discrete space.
LEMMA DiscreteReaches ==
  ASSUME NEW group, Entries(combos, table, group), Complete(combos, table, group),
         players \in Nat, kind = "DISCRETE", NEW h, \A p \in 1 .. players : Allowed(h[p])
  PROVE  \E a \in Space : \A p \in 1 .. players : Decoded(a, p) = h[p]
<1> DEFINE n == Len(combos)
           l == n * players
           player(k) == ((k - 1) \div n) + 1
           at(k) == ((k - 1) % n) + 1
           Fitting(k, x) == combos[at(k)][x + 1] = h[player(k)] \cap group[at(k)]
           fitting(k) == CHOOSE x \in 0 .. Size(k) - 1 : Fitting(k, x)
           d == [k \in 1 .. l |-> fitting(k)]
<1>1. n \in Nat /\ Groups = 1 .. n
  BY DEF Entries, Groups
<1>2. ASSUME NEW k \in 1 .. l PROVE player(k) \in 1 .. players /\ at(k) \in Groups
  <2>1. n # 0 /\ k - 1 \in Nat /\ k - 1 < n * players
    BY <1>1
  <2>2. at(k) \in Groups
    BY SizeIs
  <2> DEFINE q == (k - 1) \div n
  <2> HIDE DEF n
  <2>3. q \in Nat /\ n * q <= k - 1
    BY <1>1, <2>1
  <2> HIDE DEF q
  <2>4. q < players
    <3> SUFFICES ASSUME q >= players PROVE FALSE
      BY <2>3
    <3>1. n * (q - players) \in Nat /\ n * q = n * players + n * (q - players)
      BY <1>1, <2>3
    <3>2. n * players \in Nat /\ n * q \in Nat
      BY <1>1, <2>3
    <3> QED BY <2>1, <2>3, <3>1, <3>2
  <2>5. q + 1 \in 1 .. players
    BY <2>3, <2>4
  <2> QED BY <2>2, <2>5 DEF q
<1>3. ASSUME NEW k \in 1 .. l PROVE d[k] \in 0 .. Size(k) - 1 /\ Fitting(k, d[k])
  <2>1. at(k) \in Groups /\ Allowed(h[player(k)]) /\ Size(k) = Len(combos[at(k)])
    BY <1>2 DEF Size
  <2> HIDE DEF at, player
  <2>2. \E x \in 0 .. Size(k) - 1 : Fitting(k, x)
    BY <2>1, AllowedDigit
  <2>3. d[k] = fitting(k)
    OBVIOUS
  <2> HIDE DEF Fitting, d
  <2> QED BY <2>2, <2>3
<1> HIDE DEF fitting
<1>4. d \in [1 .. l -> Nat] /\ \A k \in 1 .. l : d[k] < Size(k)
  <2>1. ASSUME NEW k \in 1 .. l PROVE d[k] \in Nat /\ d[k] < Size(k)
    <3>1. d[k] \in 0 .. Size(k) - 1 /\ Size(k) \in Nat
      BY <1>3, SizeIs
    <3> HIDE DEF d
    <3> QED BY <3>1
  <2>2. d = [k \in 1 .. l |-> d[k]]
    OBVIOUS
  <2> HIDE DEF d
  <2> QED BY <2>1, <2>2
<1> HIDE DEF d
<1>5. PICK a \in 0 .. Numbers[l] - 1 :
        \A k \in 1 .. l : Rest(a)[k - 1] % Size(k) = d[k]
  BY <1>4, DigitsGive
<1>6. a \in Space
  BY DEF Space
<1>7. ASSUME NEW p \in 1 .. players PROVE Decoded(a, p) = h[p]
  <2> DEFINE digit == [i \in Groups |-> Digits(a, p, i) + 1]
  <2>1. ASSUME NEW i \in Groups PROVE combos[i][digit[i]] = h[p] \cap group[i]
    <3> DEFINE k == n * (p - 1) + i
    <3>1. k \in 1 .. l /\ at(k) = i /\ Size(k) = Len(combos[i])
      <4>1. n * (p - 1) + i - 1 = k - 1
        <5> HIDE DEF n
        <5> QED BY <1>1
      <4>2. ((n * (p - 1) + i - 1) % n) + 1 = i
        BY PlaceIs
      <4>3. at(k) = i
        <5> HIDE DEF n, k
        <5> QED BY <4>1, <4>2
      <4> QED BY <4>3, PlaceIs
    <3>2. player(k) = p
      <4>1. k - 1 = n * (p - 1) + (i - 1)
        <5> HIDE DEF n
        <5> QED BY <1>1
      <4>2. n \in Nat \ {0} /\ p - 1 \in Nat /\ i - 1 \in 0 .. n - 1
        BY <1>1
      <4> HIDE DEF n, k
      <4>3. (n * (p - 1) + (i - 1)) \div n = p - 1
        BY <4>2, DivIs
      <4>4. (k - 1) \div n = p - 1
        BY <4>1, <4>3
      <4>5. (p - 1) + 1 = p
        OBVIOUS
      <4> QED BY <4>4, <4>5
    <3>3. Digits(a, p, i) = Rest(a)[k - 1] % Size(k)
      <4>1. n * (p - 1) + i - 1 = k - 1
        <5> HIDE DEF n
        <5> QED BY <1>1
      <4> QED BY <3>1, <4>1 DEF Digits
    <3> HIDE DEF k, at, player
    <3>4. Digits(a, p, i) = d[k] /\ Fitting(k, d[k])
      BY <1>3, <1>5, <3>1, <3>3
    <3> QED BY <3>1, <3>2, <3>4
  <2>2. Decoded(a, p) = UNION {combos[i][Digits(a, p, i) + 1] : i \in Groups}
    BY DEF Decoded
  <2>3. Decoded(a, p) = UNION {combos[i][digit[i]] : i \in Groups}
    BY <2>2
  <2>4. Allowed(h[p])
    OBVIOUS
  <2> DEFINE held == h[p]
  <2>5. Allowed(held) /\ \A i \in Groups : combos[i][digit[i]] = held \cap group[i]
    BY <2>1, <2>4
  <2> HIDE DEF digit, held
  <2>6. held = UNION {combos[i][digit[i]] : i \in Groups}
    BY <2>5, AllowedIsJoin
  <2> QED BY <2>3, <2>6 DEF held
<1> QED BY <1>6, <1>7

LEMMA DiscreteTells ==
  ASSUME TableOk(table), NEW group, Entries(combos, table, group),
         Complete(combos, table, group), players \in Nat, kind = "DISCRETE",
         NEW a \in Space, NEW b \in Space,
         \A p \in 1 .. players : Decoded(a, p) = Decoded(b, p)
  PROVE  a = b
<1> DEFINE n == Len(combos)
           l == n * players
<1>1. a \in 0 .. Numbers[l] - 1 /\ b \in 0 .. Numbers[l] - 1
  BY DEF Space
<1>2. ASSUME NEW p \in 1 .. players, NEW i \in Groups
      PROVE  Digits(a, p, i) = Digits(b, p, i)
  <2> DEFINE x == [j \in Groups |-> Digits(a, p, j) + 1]
             y == [j \in Groups |-> Digits(b, p, j) + 1]
  <2>1. /\ \A j \in Groups : x[j] \in DOMAIN combos[j]
        /\ \A j \in Groups : y[j] \in DOMAIN combos[j]
    BY <1>1, DigitsAre
  <2>2. /\ Decoded(a, p) = UNION {combos[j][Digits(a, p, j) + 1] : j \in Groups}
        /\ Decoded(b, p) = UNION {combos[j][Digits(b, p, j) + 1] : j \in Groups}
    BY DEF Decoded
  <2>3. /\ Decoded(a, p) = UNION {combos[j][x[j]] : j \in Groups}
        /\ Decoded(b, p) = UNION {combos[j][y[j]] : j \in Groups}
    BY <2>2
  <2>4. x[i] = Digits(a, p, i) + 1 /\ y[i] = Digits(b, p, i) + 1
    OBVIOUS
  <2> HIDE DEF x, y
  <2>5. combos[i][x[i]] = Decoded(a, p) \cap group[i]
    BY <2>1, <2>3, JoinKeeps
  <2>6. combos[i][y[i]] = Decoded(b, p) \cap group[i]
    BY <2>1, <2>3, JoinKeeps
  <2>7. x[i] = y[i]
    <3>1. Decoded(a, p) = Decoded(b, p)
      OBVIOUS
    <3>2. x[i] \in DOMAIN combos[i] /\ y[i] \in DOMAIN combos[i]
      BY <2>1
    <3>3. combos[i][x[i]] = combos[i][y[i]]
      BY <2>5, <2>6, <3>1
    <3> QED BY <3>2, <3>3 DEF Complete, Groups
  <2>8. x[i] \in Nat /\ y[i] \in Nat
    BY <2>1 DEF Entries, Groups
  <2>9. Digits(a, p, i) \in Int /\ Digits(b, p, i) \in Int
    BY <1>1, DigitsInt
  <2> QED BY <2>4, <2>7, <2>9
<1>3. ASSUME NEW k \in 1 .. l
      PROVE  Rest(a)[k - 1] % Size(k) = Rest(b)[k - 1] % Size(k)
  <2>1. PICK p \in 1 .. players, i \in Groups : k = n * (p - 1) + i
    BY PlaceOf
  <2>2. Size(k) = Len(combos[i])
    BY <2>1, PlaceIs
  <2>3. n * (p - 1) + i - 1 = k - 1
    <3>1. n \in Nat /\ i \in Nat
      BY DEF Entries, Groups
    <3> HIDE DEF n
    <3> QED BY <2>1, <3>1
  <2>4. /\ Digits(a, p, i) = Rest(a)[k - 1] % Size(k)
        /\ Digits(b, p, i) = Rest(b)[k - 1] % Size(k)
    BY <2>2, <2>3 DEF Digits
  <2> QED BY <1>2, <2>4
<1> QED BY <1>1, <1>3, DigitsTell

\* A space of buttons, of which an allowed action passes filterAction.
LEMMA FilteredReaches ==
  ASSUME players \in Nat, kind = "FILTERED", TableOk(table),
         NEW h, \A p \in 1 .. players : Allowed(h[p])
  PROVE  \E a \in Space : \A p \in 1 .. players : Decoded(a, p) = h[p]
<1> DEFINE n == NumButtons
           l == n * players
           Pressed(k) == (k - 1) % n \in h[((k - 1) \div n) + 1]
           a == [k \in 1 .. l |-> IF Pressed(k) THEN 1 ELSE 0]
<1>1. n \in Nat /\ l \in Nat /\ Buttons = 0 .. n - 1
  BY ActionAssumption DEF Buttons
<1>2. a \in [1 .. l -> {0, 1}]
  OBVIOUS
<1>3. a \in Space
  BY <1>2 DEF Space
<1>4. \A k \in 1 .. l : a[k] = 1 <=> Pressed(k)
  OBVIOUS
<1> HIDE DEF a
<1>5. ASSUME NEW p \in 1 .. players PROVE Decoded(a, p) = h[p]
  <2> DEFINE pressed == {b \in Buttons : Part(a, p)[b + 1] = 1}
  <2>1. Allowed(h[p]) /\ h[p] \in SUBSET Buttons
    BY AllowedButtons
  <2>2. ASSUME NEW b \in Buttons
        PROVE  Part(a, p)[b + 1] = 1 <=> b \in h[p]
    <3> DEFINE k == n * (p - 1) + (b + 1)
    <3>1. n \in Nat \ {0} /\ b \in 0 .. n - 1 /\ p - 1 \in Nat /\ players - p \in Nat
      BY <1>1
    <3>2. n * (p - 1) \in Nat /\ n * p = n * (p - 1) + n /\ n * p <= l
      <4> HIDE DEF n
      <4>1. n * (p - 1) \in Nat /\ n * (players - p) \in Nat
        BY <3>1
      <4>2. n * p = n * (p - 1) + n /\ n * players = n * p + n * (players - p)
        BY <3>1
      <4>3. n * p \in Nat
        BY <3>1
      <4> QED BY <4>1, <4>2, <4>3
    <3>3. k \in 1 .. l /\ b + 1 \in 1 .. n
      <4> HIDE DEF n, l
      <4> QED BY <1>1, <3>1, <3>2
    <3>4. Part(a, p)[b + 1] = a[k]
      <4>1. p \in Nat \ {0} /\ a \in [1 .. l -> Int]
        BY <1>2
      <4> HIDE DEF l, n
      <4>2. \A i \in 1 .. Cut(l, p) : Part(a, p)[i] = a[Start(p) + i]
        BY <1>1, <4>1, PartCuts
      <4>3. Start(p) = n * (p - 1) /\ End(l, p) = n * p
        BY <1>1, <3>2 DEF Start, End, n
      <4>4. Cut(l, p) = n
        BY <3>1, <3>2, <4>3 DEF Cut
      <4> QED BY <3>3, <4>2, <4>3, <4>4
    <3>5. (k - 1) % n = b /\ ((k - 1) \div n) + 1 = p
      <4> HIDE DEF n
      <4>1. (n * (p - 1) + b) % n = b /\ (n * (p - 1) + b) \div n = p - 1
        BY <3>1, ModIs, DivIs
      <4>2. k - 1 = n * (p - 1) + b
        BY <3>1, <3>2
      <4>3. (p - 1) + 1 = p
        OBVIOUS
      <4> HIDE DEF k
      <4> QED BY <4>1, <4>2, <4>3
    <3> HIDE DEF k
    <3> QED BY <1>4, <3>3, <3>4, <3>5
  <2>3. pressed = h[p]
    BY <2>1, <2>2
  <2>4. Decoded(a, p) = FilterAction(pressed)
    BY DEF Decoded
  <2> HIDE DEF pressed
  <2> QED BY <2>1, <2>3, <2>4, FilterKeeps
<1> QED BY <1>3, <1>5

\* Max of a list of numbers is one of them and no one is higher.
LEMMA MaxIs ==
  ASSUME NEW n \in Nat \ {0}, NEW f \in [1 .. n -> Int]
  PROVE  LET most == Max({f[i] : i \in 1 .. n})
         IN  most \in Int /\ \A i \in 1 .. n : f[i] <= most
<1> DEFINE S == {k \in 0 .. n : k = 0 \/ \E j \in 1 .. k : \A i \in 1 .. k : f[i] <= f[j]}
           all == {f[i] : i \in 1 .. n}
<1>1. 0 \in S
  OBVIOUS
<1>2. ASSUME NEW k \in 1 .. n, k - 1 \in S PROVE k \in S
  <2>1. \A i \in 1 .. n : f[i] \in Int
    OBVIOUS
  <2>2. \A i \in 1 .. k : i \in 1 .. n /\ (i = k \/ i \in 1 .. k - 1)
    OBVIOUS
  <2>3. CASE k - 1 = 0
    BY <2>1, <2>2, <2>3
  <2>4. CASE k - 1 # 0
    <3>1. PICK j \in 1 .. k - 1 : \A i \in 1 .. k - 1 : f[i] <= f[j]
      BY <1>2, <2>4
    <3>2. j \in 1 .. k /\ k \in 1 .. k
      OBVIOUS
    <3>3. CASE f[k] <= f[j]
      <4>1. \A i \in 1 .. k : f[i] <= f[j]
        BY <2>2, <3>1, <3>3
      <4> QED BY <3>2, <4>1
    <3>4. CASE ~ (f[k] <= f[j])
      <4>1. \A i \in 1 .. k : f[i] <= f[k]
        BY <2>1, <2>2, <3>1, <3>2, <3>4
      <4> QED BY <3>2, <4>1
    <3> QED BY <3>3, <3>4
  <2> QED BY <2>3, <2>4
<1>3. n \in S
  <2> HIDE DEF S
  <2>1. 0 .. n \subseteq S
    BY <1>1, <1>2, UpTo
  <2> QED BY <2>1
<1>4. PICK j \in 1 .. n : \A i \in 1 .. n : f[i] <= f[j]
  BY <1>3
<1>5. f[j] \in all /\ f[j] \in Int /\ \A x \in all : x <= f[j]
  BY <1>4
<1>6. Max(all) = CHOOSE x \in all : \A y \in all : x >= y
  BY DEF Max
<1> HIDE DEF all
<1>7. all \subseteq Int
  BY DEF all
<1>8. \E x \in all : \A y \in all : x >= y
  BY <1>5, <1>7
<1>9. Max(all) \in all /\ \A y \in all : Max(all) >= y
  BY <1>6, <1>8
<1> QED BY <1>7, <1>9 DEF all

\* A MultiDiscrete space of one player.
LEMMA MultiReaches ==
  ASSUME NEW group, Entries(combos, table, group), Complete(combos, table, group),
         players = 1, kind = "MULTI_DISCRETE", NEW h, Allowed(h[1])
  PROVE  \E a \in Space : Decoded(a, 1) = h[1]
<1> DEFINE n == Len(combos)
           Fitting(i, x) == combos[i][x + 1] = h[1] \cap group[i]
           fitting(i) == CHOOSE x \in 0 .. Len(combos[i]) - 1 : Fitting(i, x)
           a == [i \in 1 .. n |-> fitting(i)]
           lengths == {Len(combos[i]) : i \in Groups}
           most == Max(lengths)
<1>1. /\ n \in Nat /\ Groups = 1 .. n /\ n <= NumButtons /\ NumButtons \in Nat
      /\ n * players = n
  <2>1. n \in Nat /\ Groups = 1 .. n /\ n <= NumButtons
    BY DEF Entries, Groups
  <2> HIDE DEF n
  <2>2. n * players = n
    BY <2>1
  <2> QED BY <2>1, <2>2, ActionAssumption
<1>2. ASSUME NEW i \in 1 .. n
      PROVE  a[i] \in 0 .. Len(combos[i]) - 1 /\ Fitting(i, a[i])
  <2>1. \E x \in 0 .. Len(combos[i]) - 1 : Fitting(i, x)
    BY <1>1, AllowedDigit
  <2>2. a[i] = fitting(i)
    OBVIOUS
  <2> HIDE DEF Fitting, a
  <2> QED BY <2>1, <2>2
<1> HIDE DEF fitting
<1>3. \A i \in 1 .. n : Len(combos[i]) \in Nat \ {0} /\ Size(i) = Len(combos[i])
  <2> SUFFICES ASSUME NEW i \in 1 .. n
               PROVE  Len(combos[i]) \in Nat \ {0} /\ Size(i) = Len(combos[i])
    OBVIOUS
  <2>1. players \in Nat /\ 1 \in 1 .. players /\ i \in Groups
    BY <1>1
  <2>2. Size(n * (1 - 1) + i) = Len(combos[i])
    BY <2>1, PlaceIs
  <2>3. n * (1 - 1) + i = i
    <3> HIDE DEF n
    <3> QED BY <1>1
  <2> QED BY <2>1, <2>2, <2>3 DEF Entries, Groups
<1>4. \A i \in 1 .. n : most \in Int /\ Len(combos[i]) <= most
  <2> SUFFICES ASSUME NEW i \in 1 .. n PROVE most \in Int /\ Len(combos[i]) <= most
    OBVIOUS
  <2> DEFINE f == [j \in 1 .. n |-> Len(combos[j])]
  <2>1. f \in [1 .. n -> Int] /\ n \in Nat \ {0}
    BY <1>1, <1>3
  <2>2. lengths = {f[j] : j \in 1 .. n} /\ f[i] = Len(combos[i])
    BY <1>1
  <2> HIDE DEF f, n
  <2>3. Max({f[j] : j \in 1 .. n}) \in Int /\ f[i] <= Max({f[j] : j \in 1 .. n})
    BY <2>1, MaxIs
  <2> QED BY <2>2, <2>3
<1>5. a \in [1 .. n -> 0 .. most - 1] /\ \A i \in 1 .. n : a[i] < Size(i)
  <2>1. ASSUME NEW i \in 1 .. n PROVE a[i] \in 0 .. most - 1 /\ a[i] < Size(i)
    <3> HIDE DEF a, most
    <3> QED BY <1>2, <1>3, <1>4
  <2>2. a = [i \in 1 .. n |-> a[i]]
    OBVIOUS
  <2> HIDE DEF a, most
  <2> QED BY <2>1, <2>2
<1>6. a \in Space
  <2>1. Space = {b \in [1 .. n * players -> 0 .. most - 1] :
                   \A i \in DOMAIN b : b[i] < Size(i)}
    BY DEF Space
  <2>2. Space = {b \in [1 .. n -> 0 .. most - 1] : \A i \in DOMAIN b : b[i] < Size(i)}
    BY <1>1, <2>1
  <2>3. DOMAIN a = 1 .. n
    OBVIOUS
  <2> HIDE DEF a, most
  <2> QED BY <1>5, <2>2, <2>3
<1>7. DOMAIN Part(a, 1) = 1 .. n /\ \A i \in 1 .. n : Part(a, 1)[i] = a[i]
  <2>1. n \in Nat /\ a \in [1 .. n -> Int] /\ 1 \in Nat \ {0}
    <3>1. a = [i \in 1 .. n |-> a[i]]
      OBVIOUS
    <3> HIDE DEF a, n
    <3>2. \A i \in 1 .. n : a[i] \in Int
      BY <1>2
    <3>3. a \in [1 .. n -> Int]
      BY <3>1, <3>2
    <3> QED BY <1>1, <3>3
  <2> HIDE DEF a, n, most
  <2>2. /\ DOMAIN Part(a, 1) = 1 .. Cut(n, 1)
        /\ \A i \in 1 .. Cut(n, 1) : Part(a, 1)[i] = a[Start(1) + i]
    BY <2>1, PartCuts
  <2>3. Start(1) = 0 /\ End(n, 1) = n
    BY <1>1 DEF Start, End
  <2>4. Cut(n, 1) = n
    BY <1>1, <2>3 DEF Cut
  <2> QED BY <1>1, <2>2, <2>3, <2>4
<1>8. Decoded(a, 1) = h[1]
  <2> DEFINE digit == [i \in Groups |-> Part(a, 1)[i] + 1]
             held == h[1]
  <2>1. Decoded(a, 1) = UNION {combos[i][Part(a, 1)[i] + 1] : i \in DOMAIN Part(a, 1)}
    BY DEF Decoded
  <2>2. Decoded(a, 1) = UNION {combos[i][digit[i]] : i \in Groups}
    BY <1>1, <1>7, <2>1
  <2>3. Allowed(held) /\ \A i \in Groups : combos[i][digit[i]] = held \cap group[i]
    <3> HIDE DEF a
    <3> QED BY <1>1, <1>2, <1>7
  <2> HIDE DEF digit, held, a
  <2>4. held = UNION {combos[i][digit[i]] : i \in Groups}
    BY <2>3, AllowedIsJoin
  <2> QED BY <2>2, <2>4 DEF held
<1> QED BY <1>6, <1>8
-----------------------------------------------------------------------------
(***************************************************************************)
(* The environment.                                                        *)
(***************************************************************************)
\* The invariant: the table and its reading stay those of a scenario, and the
\* pads hold what it allows.
ActionInv ==
  /\ players \in Pads
  /\ kind \in {"ALL", "FILTERED", "DISCRETE", "MULTI_DISCRETE"}
  /\ TableOk(table)
  /\ combos = ValidActions(table)
  /\ OnlyFiltered

LEMMA DecodedAllowed ==
  ASSUME ActionInv, kind # "ALL", NEW a \in Space, ~ IndexError(a), NEW p \in 1 .. players
  PROVE  Allowed(Decoded(a, p))
<1>1. TableOk(table) /\ players \in Nat /\ p \in Nat
  BY ActionAssumption DEF ActionInv, Pads
<1>2. PICK group : Entries(combos, table, group)
  BY CombosAre DEF ActionInv
<1>3. CASE kind = "FILTERED"
  <2>1. Decoded(a, p) = FilterAction({b \in Buttons : Part(a, p)[b + 1] = 1})
    BY <1>3 DEF Decoded
  <2> QED BY <1>1, <2>1, FilterAllows
<1>4. CASE kind = "DISCRETE"
  <2> DEFINE digit == [i \in Groups |-> Digits(a, p, i) + 1]
  <2>1. Decoded(a, p) = UNION {combos[i][Digits(a, p, i) + 1] : i \in Groups}
    BY <1>4 DEF Decoded
  <2>2. a \in Int
    BY <1>4 DEF Space
  <2>3. \A i \in Groups : digit[i] \in DOMAIN combos[i]
    BY <1>1, <1>2, <2>2, DigitsAre
  <2>4. Decoded(a, p) = UNION {combos[i][digit[i]] : i \in Groups}
    BY <2>1
  <2> HIDE DEF digit
  <2> QED BY <1>1, <1>2, <2>3, <2>4, JoinAllowed, SMTT(30)
<1>5. CASE kind = "MULTI_DISCRETE"
  <2> DEFINE places == DOMAIN Part(a, p)
             digit == [i \in places |-> Part(a, p)[i] + 1]
  <2>1. Decoded(a, p) = UNION {combos[i][Part(a, p)[i] + 1] : i \in places}
    BY <1>5 DEF Decoded
  <2>2. places \subseteq Groups /\ \A i \in places : digit[i] \in DOMAIN combos[i]
    BY <1>1, <1>2, <1>5, PartIs
  <2>3. Decoded(a, p) = UNION {combos[i][digit[i]] : i \in places}
    BY <2>1
  <2> HIDE DEF digit, places
  <2> QED BY <1>1, <1>2, <2>2, <2>3, JoinAllowed
<1> QED BY <1>3, <1>4, <1>5 DEF ActionInv

LEMMA ActionsStart == Init => ActionInv
<1> SUFFICES ASSUME Init PROVE ActionInv
  OBVIOUS
<1>1. PICK core \in CoreFiles, scenario \in Scenarios : table = ActionsOf(core, scenario)
  BY DEF Init
<1>2. TableOk(table)
  <2>1. PICK list \in CoreFiles \cup Scenarios : table = SetActions(list)
    BY <1>1 DEF ActionsOf
  <2> QED BY <2>1, SetActionsOk
<1>3. PICK made \in Kinds : kind = made[1] /\ players = made[2]
  BY DEF Init
<1>4. /\ players \in Pads
      /\ kind \in {"ALL", "FILTERED", "DISCRETE", "MULTI_DISCRETE"}
  BY <1>3, ActionAssumption
<1>5. OnlyFiltered
  BY <1>2, NothingAllowed DEF Init, Released, OnlyFiltered
<1> QED BY <1>2, <1>4, <1>5 DEF Init, ActionInv

LEMMA ActionsStay == ActionInv /\ [Next]_vars => ActionInv'
<1> SUFFICES ASSUME ActionInv, [Next]_vars PROVE ActionInv'
  OBVIOUS
<1>2. CASE Reset
  <2>1. UNCHANGED <<kind, players, table, combos>> /\ pads' = [p \in Pads |-> {}]
    BY <1>2 DEF Reset, Released
  <2>2. Allowed({})
    BY NothingAllowed DEF ActionInv
  <2>3. OnlyFiltered'
    BY <2>1, <2>2 DEF OnlyFiltered, Allowed
  <2> QED BY <2>1, <2>3 DEF ActionInv, TableOk, ValidActions
<1>3. ASSUME NEW a \in Space, Step(a) PROVE ActionInv'
  <2>1. UNCHANGED <<kind, players, table, combos>>
    BY <1>3 DEF Step
  <2>2. OnlyFiltered'
    <3>1. CASE IndexError(a)
      BY <1>3, <2>1, <3>1 DEF Step, ActionInv, OnlyFiltered, Allowed
    <3>2. CASE ~ IndexError(a)
      <4> SUFFICES ASSUME kind # "ALL", NEW p \in Pads PROVE Allowed(pads'[p])
        BY <2>1 DEF OnlyFiltered, Allowed
      <4>1. pads'[p] = IF p <= players THEN Decoded(a, p) ELSE {}
        BY <1>3, <3>2 DEF Step
      <4>2. CASE p <= players
        <5>1. p \in 1 .. players
          BY <4>2, ActionAssumption DEF ActionInv, Pads
        <5> QED BY <3>2, <4>1, <4>2, <5>1, DecodedAllowed
      <4>3. CASE ~ (p <= players)
        BY <4>1, <4>3, NothingAllowed DEF ActionInv
      <4> QED BY <4>2, <4>3
    <3> QED BY <3>1, <3>2
  <2> QED BY <2>1, <2>2 DEF ActionInv, TableOk, ValidActions
<1>4. CASE UNCHANGED vars
  BY <1>4 DEF vars, ActionInv, TableOk, ValidActions, OnlyFiltered, Allowed
<1> QED BY <1>2, <1>3, <1>4 DEF Next

\* In the filtered spaces no pad ever holds what the scenario does not allow
\* (OnlyFiltered): by filterAction, whatever the buttons, and by action_to_array,
\* whatever the number and the numbers, for all players.
THEOREM OnlyFilteredReaches == Spec => []OnlyFiltered
<1>1. ActionInv => OnlyFiltered
  BY DEF ActionInv
<1> QED BY <1>1, ActionsStart, ActionsStay, PTL DEF Spec
-----------------------------------------------------------------------------
(***************************************************************************)
(* The filtered spaces write the joint actions of the players.             *)
(***************************************************************************)
\* A MultiDiscrete space of several players has actions that cannot be played.
OnePlayer == \A made \in Kinds : made[1] = "MULTI_DISCRETE" => made[2] = 1

SpaceInv == ActionInv /\ (kind = "MULTI_DISCRETE" => players = 1)

Played(a) == [p \in 1 .. players |-> Decoded(a, p)]

\* The part of the one player has an entry per group.
LEMMA OnePlayerPlays ==
  ASSUME SpaceInv, NEW a \in Space
  PROVE  ~ IndexError(a)
<1> SUFFICES ASSUME kind = "MULTI_DISCRETE", NEW p \in 1 .. players
             PROVE  ~ (Len(Part(a, p)) > Len(combos))
  BY DEF IndexError
<1> DEFINE n == Len(combos)
           most == Max({Len(combos[j]) : j \in Groups})
<1>1. PICK group : Entries(combos, table, group)
  BY CombosAre DEF SpaceInv, ActionInv
<1>2. n \in Nat /\ n <= NumButtons /\ NumButtons \in Nat /\ players = 1 /\ p = 1
  BY <1>1, ActionAssumption DEF Entries, SpaceInv
<1>3. a \in [1 .. n -> 0 .. most - 1]
  <2>1. Space = {b \in [1 .. n * players -> 0 .. most - 1] :
                   \A j \in DOMAIN b : b[j] < Size(j)}
    BY DEF Space
  <2> HIDE DEF n, most
  <2>2. n * players = n
    BY <1>2
  <2> QED BY <2>1, <2>2
<1> HIDE DEF n, most
<1>4. a \in [1 .. n -> Int] /\ 1 \in Nat \ {0}
  BY <1>3
<1>5. Len(Part(a, 1)) = Cut(n, 1)
  BY <1>2, <1>4, PartCuts
<1>6. Start(1) = 0 /\ End(n, 1) = n
  BY <1>2 DEF Start, End
<1> QED BY <1>2, <1>5, <1>6 DEF Cut, n

LEMMA SpaceWrites ==
  ASSUME SpaceInv
  PROVE  SpaceIsFiltered
<1> SUFFICES ASSUME kind # "ALL"
             PROVE  /\ {Played(a) : a \in Space} = Joint
                    /\ kind = "DISCRETE" => Cardinality(Space) = Cardinality(Joint)
  BY DEF SpaceIsFiltered, Played
<1>1. TableOk(table) /\ players \in Nat /\ ActionInv
  BY ActionAssumption DEF SpaceInv, ActionInv, Pads
<1>2. PICK group : Entries(combos, table, group) /\ Complete(combos, table, group)
  BY CombosAre DEF SpaceInv, ActionInv
<1>3. ASSUME NEW a \in Space PROVE Played(a) \in Joint
  <2>1. ASSUME NEW p \in 1 .. players
        PROVE  Decoded(a, p) \in {held \in SUBSET Buttons : Allowed(held)}
    <3>1. Allowed(Decoded(a, p))
      BY <1>1, OnePlayerPlays, DecodedAllowed
    <3> QED BY <1>1, <3>1, AllowedButtons
  <2> QED BY <2>1 DEF Played, Joint
<1>4. ASSUME NEW h \in Joint PROVE \E a \in Space : Played(a) = h
  <2>1. h \in [1 .. players -> {held \in SUBSET Buttons : Allowed(held)}]
    BY DEF Joint
  <2>2. \A p \in 1 .. players : Allowed(h[p])
    BY <2>1
  <2>3. \E a \in Space : \A p \in 1 .. players : Decoded(a, p) = h[p]
    <3>1. CASE kind = "DISCRETE"
      BY <1>1, <1>2, <2>2, <3>1, DiscreteReaches
    <3>2. CASE kind = "FILTERED"
      BY <1>1, <2>2, <3>2, FilteredReaches
    <3>3. CASE kind = "MULTI_DISCRETE"
      <4>1. players = 1 /\ 1 \in 1 .. players /\ 1 .. players = {1}
        BY <3>3 DEF SpaceInv
      <4>2. Allowed(h[1])
        BY <2>2, <4>1
      <4>3. \E a \in Space : Decoded(a, 1) = h[1]
        BY <1>2, <3>3, <4>1, <4>2, MultiReaches
      <4> QED BY <4>1, <4>3
    <3> QED BY <1>1, <3>1, <3>2, <3>3 DEF ActionInv
  <2>4. PICK a \in Space : \A p \in 1 .. players : Decoded(a, p) = h[p]
    BY <2>3
  <2>5. Played(a) = h
    BY <2>1, <2>4 DEF Played
  <2> QED BY <2>5
<1>5. {Played(a) : a \in Space} = Joint
  BY <1>3, <1>4
<1>6. ASSUME kind = "DISCRETE" PROVE Cardinality(Space) = Cardinality(Joint)
  <2> DEFINE l == Len(combos) * players
             last == Numbers[l] - 1
             f == [a \in Space |-> Played(a)]
  <2>1. last \in Int
    <3>1. l \in Nat
      BY <1>1, <1>2 DEF Entries
    <3>2. \A k \in 0 .. l : Numbers[k] \in Nat \ {0}
      BY <1>1, <1>2, NumbersAre
    <3> HIDE DEF l
    <3> QED BY <3>1, <3>2
  <2>2. Space = 0 .. last
    BY <1>6 DEF Space
  <2>3. IsFiniteSet(Space)
    <3> HIDE DEF last
    <3>1. 0 \in Int
      OBVIOUS
    <3> QED BY <2>1, <2>2, <3>1, FS_Interval
  <2>4. ASSUME NEW a \in Space, NEW b \in Space, f[a] = f[b] PROVE a = b
    <3>1. Played(a) = Played(b)
      BY <2>4
    <3>2. ASSUME NEW p \in 1 .. players PROVE Decoded(a, p) = Decoded(b, p)
      <4>1. Played(a)[p] = Decoded(a, p) /\ Played(b)[p] = Decoded(b, p)
        BY DEF Played
      <4> QED BY <3>1, <4>1
    <3> QED BY <1>1, <1>2, <1>6, <3>2, DiscreteTells
  <2>5. f \in Injection(Space, Joint) /\ f \in Surjection(Space, Joint)
    <3>1. f \in [Space -> Joint] /\ \A h \in Joint : \E a \in Space : f[a] = h
      BY <1>3, <1>4
    <3> HIDE DEF f
    <3> QED BY <2>4, <3>1 DEF Injection, IsInjective, Surjection
  <2> HIDE DEF f
  <2> QED BY <2>3, <2>5, FS_Surjection
<1> QED BY <1>5, <1>6

\* The three filtered spaces write every joint action of the players and no
\* other, and a Discrete space has one number for each (SpaceIsFiltered): the
\* sizes of the spaces in __init__ fit the decoding in action_to_array, when a
\* MultiDiscrete space is made for one player.
THEOREM SpacesAreFiltered ==
  ASSUME OnePlayer
  PROVE  Spec => []SpaceIsFiltered
<1>1. Init => SpaceInv
  <2> SUFFICES ASSUME Init PROVE SpaceInv
    OBVIOUS
  <2>1. ActionInv
    BY ActionsStart
  <2>2. PICK made \in Kinds : kind = made[1] /\ players = made[2]
    BY DEF Init
  <2> QED BY <2>1, <2>2 DEF SpaceInv, OnePlayer
<1>2. SpaceInv /\ [Next]_vars => SpaceInv'
  <2> SUFFICES ASSUME SpaceInv, [Next]_vars PROVE SpaceInv'
    OBVIOUS
  <2>1. ActionInv'
    BY ActionsStay DEF SpaceInv
  <2>2. UNCHANGED <<kind, players>>
    BY DEF Next, Reset, Step, vars
  <2> QED BY <2>1, <2>2 DEF SpaceInv
<1>3. SpaceInv => SpaceIsFiltered
  BY SpaceWrites
<1> QED BY <1>1, <1>2, <1>3, PTL DEF Spec
=============================================================================
