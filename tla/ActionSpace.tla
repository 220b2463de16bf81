----------------------------- MODULE ActionSpace -----------------------------
(***************************************************************************)
(* From an action of gym to the pads of the console: the "actions" of the  *)
(* platform or of the scenario file (src/src/data.cpp), the action space   *)
(* RetroEnv makes of them and action_to_array (src/retro/retro_env.py).    *)
(*                                                                         *)
(* A mask of buttons is the set of the buttons it holds.  A list of        *)
(* actions is a sequence of groups, a group a set of combinations, of      *)
(* which at most one is pressed at a time.                                 *)
(***************************************************************************)
EXTENDS Integers, Lists, FiniteSetsExt, SequencesExt

CONSTANTS
  NumButtons, \* buttons of the platform
  NumPads,    \* bound: pads of the console
  CoreFiles,  \* lists of actions of platforms
  Scenarios,  \* lists of actions of scenario files, <<>> for none
  Kinds       \* the pairs of Actions and number of players that are made

Buttons == 0 .. NumButtons - 1
Pads == 1 .. NumPads

(***************************************************************************)
(* The lists that are shipped (src/cores, src/retro/data): no two groups   *)
(* share a button, every group has the combination of no button, and there *)
(* are no more groups than buttons.                                        *)
(***************************************************************************)
ASSUME ActionAssumption ==
  /\ NumButtons \in Nat /\ NumPads \in Nat
  /\ CoreFiles \cup Scenarios \subseteq Seq(SUBSET SUBSET Buttons)
  /\ \A list \in CoreFiles \cup Scenarios :
       /\ Len(list) <= NumButtons
       /\ \A i, j \in DOMAIN list :
            {} \in list[i] /\ (i # j => (UNION list[i]) \cap (UNION list[j]) = {})
  /\ Kinds \subseteq {"ALL", "FILTERED", "DISCRETE", "MULTI_DISCRETE"} \X Pads

VARIABLES
  kind,    \* use_restricted_actions
  players,
  table,   \* m_actions: the combinations by the mask of their group
  combos,  \* button_combos
  pads,    \* what every pad of the console holds
  ret      \* what step did with the last action

vars == <<kind, players, table, combos, pads, ret>>
-----------------------------------------------------------------------------
(***************************************************************************)
(* data.cpp.                                                               *)
(***************************************************************************)
\* setActions: of two groups with the same mask the first one stays.
SetActions(list) ==
  LET mask(i) == UNION list[i]
      first(m) == Min({i \in DOMAIN list : mask(i) = m})
  IN  [m \in {mask(i) : i \in DOMAIN list} |-> list[first(m)]]

\* The actions of the scenario, or those of the platform when it has none.
ActionsOf(core, scenario) ==
  SetActions(IF scenario = <<>> THEN core ELSE scenario)

\* Fault: the whole action passes when one group of it does.
FilterActionWhole(action) ==
  IF \E m \in DOMAIN table : action \cap m \in table[m] THEN action ELSE {}

FilterAction(action) ==
  UNION {action \cap m : m \in {n \in DOMAIN table : action \cap n \in table[n]}}

\* A mask is less than another one as an integer: of the buttons in which they
\* differ the other one has the highest.
Below(m, n) == \E b \in n \ m : \A c \in m \ n : c < b

\* validActions: maps and sets of integers are read in their order.
Ordered(masks) == Listed([m \in masks |-> {n \in masks : Below(n, m)}])

ValidActions(actions) ==
  LET masks == Ordered(DOMAIN actions)
  IN  [i \in DOMAIN masks |-> Ordered(actions[masks[i]])]
-----------------------------------------------------------------------------
(***************************************************************************)
(* retro_env.py.  An action of a Discrete space is a number whose digits   *)
(* are the combinations of all players, the first group of the first       *)
(* player being the lowest; one of the other spaces is a sequence.         *)
(***************************************************************************)
Groups == DOMAIN combos

\* The combinations of the group of a digit.
Size(k) == Len(combos[((k - 1) % Len(combos)) + 1])

\* How many numbers have k digits; with the digits of all players it is
\* combos**players.
Numbers[k \in 0 .. Len(combos) * players] ==
  IF k = 0 THEN 1 ELSE Numbers[k - 1] * Size(k)

Space ==
  CASE kind = "DISCRETE" -> 0 .. Numbers[Len(combos) * players] - 1
    [] kind = "MULTI_DISCRETE" ->
         LET most == Max({Len(combos[i]) : i \in Groups})
         IN  {a \in [1 .. Len(combos) * players -> 0 .. most - 1] :
                \A k \in DOMAIN a : a[k] < Size(k)}
    [] OTHER -> [1 .. NumButtons * players -> {0, 1}]

\* What is left of a when k of its digits have been taken.
Rest(a) ==
  LET rest[k \in 0 .. Len(combos) * players] ==
        IF k = 0 THEN a ELSE rest[k - 1] \div Size(k)
  IN  rest

\* Fault: every player takes the same digits.
DigitsShared(a, p, i) == Rest(a)[i - 1] % Len(combos[i])
Digits(a, p, i) == Rest(a)[Len(combos) * (p - 1) + i - 1] % Len(combos[i])

\* The part of a sequence that is taken for a player.
Part(a, p) ==
  SubSeq(a, NumButtons * (p - 1) + 1, Min({NumButtons * p, Len(a)}))

\* action_to_array indexes button_combos by the position in the part.
IndexError(a) ==
  kind = "MULTI_DISCRETE" /\ \E p \in 1 .. players : Len(Part(a, p)) > Len(combos)

Decoded(a, p) ==
  CASE kind = "DISCRETE" ->
         UNION {combos[i][Digits(a, p, i) + 1] : i \in Groups}
    [] kind = "MULTI_DISCRETE" ->
         UNION {combos[i][Part(a, p)[i] + 1] : i \in DOMAIN Part(a, p)}
    [] OTHER ->
         LET held == {b \in Buttons : Part(a, p)[b + 1] = 1}
         IN  IF kind = "FILTERED" THEN FilterAction(held) ELSE held

Released == [p \in Pads |-> {}]
-----------------------------------------------------------------------------
\* __init__
Init ==
  /\ \E made \in Kinds : kind = made[1] /\ players = made[2]
  /\ \E core \in CoreFiles, scenario \in Scenarios :
       table = ActionsOf(core, scenario)
  /\ combos = ValidActions(table)
  /\ pads = Released
  /\ ret = "none"

Step(a) ==
  /\ IF IndexError(a)
     THEN ret' = "IndexError" /\ UNCHANGED pads
     ELSE /\ ret' = "stepped"
          /\ pads' = [p \in Pads |-> IF p <= players THEN Decoded(a, p) ELSE {}]
  /\ UNCHANGED <<kind, players, table, combos>>

Reset ==
  /\ pads' = Released
  /\ UNCHANGED <<kind, players, table, combos, ret>>

Next == Reset \/ \E a \in Space : Step(a)

Spec == Init /\ [][Next]_vars
-----------------------------------------------------------------------------
\* What the lists of actions mean: of every group one combination is held, and
\* no button that is in none of them.
Allowed(held) ==
  /\ held \subseteq UNION DOMAIN table
  /\ \A group \in DOMAIN table : held \cap group \in table[group]

Joint == [1 .. players -> {held \in SUBSET Buttons : Allowed(held)}]

\* In a filtered space no pad ever holds what the scenario does not allow,
\* neither alone nor as parts of several groups, whatever the client plays
\* (filterAction and action_to_array).
OnlyFiltered == kind # "ALL" => \A p \in Pads : Allowed(pads[p])

\* The three filtered spaces are three ways to write the same joint actions of
\* the players, none is missing, and a Discrete space has no two numbers for
\* one (retro_env.py's sizes of the spaces against its decoding).
SpaceIsFiltered ==
  kind # "ALL" =>
    /\ {[p \in 1 .. players |-> Decoded(a, p)] : a \in Space} = Joint
    /\ kind = "DISCRETE" => Cardinality(Space) = Cardinality(Joint)
=============================================================================
