------------------------------ MODULE Scenario ------------------------------
(***************************************************************************)
(* Retro::Scenario (src/src/data.cpp, src/src/script*.cpp): what one frame *)
(* is worth to every player, and whether the episode is over.              *)
(*                                                                         *)
(* A scenario file f is a record                                           *)
(*   rewards  the set of reward specs of every player                      *)
(*   time     the spec of every player that measures 1 at each step        *)
(*   nodes    the done nodes by name, "done" being the section itself; a   *)
(*            node has tests, the names of its sub-nodes, and a condition  *)
(*   lua      which of "reward" (of the first player) and "done" is the    *)
(*            function of a script instead                                 *)
(*   base     the lives xpos_done starts from                              *)
(***************************************************************************)
EXTENDS GameData, Operation, FiniteSetsExt

CONSTANTS
  NumPlayers,  \* MAX_PLAYERS
  Score, Lives, Position, \* the variables the scripts read
  Prev,         \* the custom variable xpos_done keeps the lives in
  LevelEnd,     \* level_max_x of the level
  FrameLimit    \* frame_limit

ASSUME ScenarioAssumption ==
  NumPlayers \in Nat \ {0} /\ LevelEnd \in Int /\ FrameLimit \in Nat

Players == 1 .. NumPlayers

\* The sections of a file are nested in each other: no section is in itself.
Nested(nodes) ==
  /\ IsFiniteSet(DOMAIN nodes) /\ "done" \in DOMAIN nodes
  /\ \E depth \in [DOMAIN nodes -> 0 .. Cardinality(DOMAIN nodes)] :
       \A i \in DOMAIN nodes : \A j \in nodes[i].nodes :
         j \in DOMAIN nodes /\ depth[j] < depth[i]

ScenarioFile(f) ==
  /\ \A p \in Players :
       /\ IsFiniteSet(f.rewards[p])
       /\ \A spec \in f.rewards[p] \cup {f.time[p]} :
            /\ spec.op \in Operations
            /\ {spec.reference, spec.reward, spec.penalty} \subseteq Int
  /\ Nested(f.nodes)
  /\ f.base \in Values

Measure(spec, value, delta) ==
  Calculate(spec.op, spec.reference,
            IF spec.measurement = "delta" THEN delta ELSE value)

\* RewardSpec::calculate.
Weigh(measured, spec) ==
  IF measured < 0 THEN measured * spec.penalty
  ELSE IF measured > 0 THEN measured * spec.reward
  ELSE 0

\* The measures a spec may answer: one, or none when a look-up throws.
Measures(d, ram, spec) ==
  {Measure(spec, v, dv) : v \in LookupValue(d, ram, spec.name),
                          dv \in LookupDelta(d, spec.name)}

TimeReward(time) == Weigh(Measure(time, 1, 1), time)

Readable(d, ram, specs) == \A spec \in specs : Measures(d, ram, spec) # {}

Total(worth) == LET at(spec) == worth[spec] IN MapThenSumSet(at, DOMAIN worth)

\* What the variables of one player are worth, all of them being readable.
VarReward(d, ram, specs) ==
  Total([spec \in specs |->
           Weigh(CHOOSE m \in Measures(d, ram, spec) : TRUE, spec)])
-----------------------------------------------------------------------------
(***************************************************************************)
(* The scripts.  A context is loaded or blank; calling a function of a     *)
(* blank one throws.  Two scripts stand for those of src/retro/data:       *)
(* correct_score keeps the most points so far in a global of its context,  *)
(* xpos_done keeps the lives in a custom variable.                         *)
(***************************************************************************)
Blank == [loaded |-> FALSE, previous |-> 0]
Fresh == [loaded |-> TRUE, previous |-> 0]

\* reloadScripts: a new context, and the text of the script runs in it.
ReloadScripts(f, d) ==
  IF f.lua = {} THEN [lua |-> Blank, data |-> d]
  ELSE [lua |-> Fresh,
        data |-> IF "done" \in f.lua
                 THEN [d EXCEPT !.customs = With(@, Prev, f.base)] ELSE d]

Read(d, ram, n) == CHOOSE v \in LookupValue(d, ram, n) : TRUE

\* A life lost leaves the older lives in the variable.
XposDone(d, ram, frame) ==
  LET lives == Read(d, ram, Lives)
      past == frame >= FrameLimit \/ Read(d, ram, Position) > LevelEnd
  IN  IF lives < d.customs[Prev] THEN [out |-> "yes", data |-> d]
      ELSE [out |-> IF past THEN "yes" ELSE "no",
            data |-> [d EXCEPT !.customs = With(@, Prev, lives)]]

CorrectScore(d, ram, lua) ==
  IF Read(d, ram, Score) > lua.previous
  THEN Read(d, ram, Score) - lua.previous ELSE 0
-----------------------------------------------------------------------------
(***************************************************************************)
(* calculateDone and isDone.  The tests of a node are visited in the order *)
(* of an unordered_map and the first decisive one ends the visit, so which *)
(* of a decisive test and a throw comes first is left open: the answer is  *)
(* a set of possible outcomes.                                             *)
(***************************************************************************)
TestOutcome(d, ram, spec) ==
  IF Measures(d, ram, spec) = {} THEN {"throws"}
  ELSE IF \E m \in Measures(d, ram, spec) : m > 0 THEN {"yes"} ELSE {"no"}

\* Visiting some tests, or the sub-nodes, whose outcomes are os.
Stops(os, ending) == (UNION os) \cap ending
Passes(os, ending) == \A o \in os : o \ ending # {}

\* Fault: a node that combines with "all" ends at its first true test.
NodeEndingAny(node) == {"yes", "throws"}
NodeEnding(node) == {IF node.all THEN "no" ELSE "yes", "throws"}

NodeOutcomes(f, d, ram) ==
  LET outcomes[i \in DOMAIN f.nodes] ==
        LET node == f.nodes[i]
            ending == NodeEnding(node)
            tests == {TestOutcome(d, ram, t) : t \in node.tests}
            subs == {outcomes[j] : j \in node.nodes}
            default == {IF node.all THEN "yes" ELSE "no"}
        IN  Stops(tests, ending) \cup
            IF ~Passes(tests, ending) THEN {}
            ELSE Stops(subs, ending) \cup
                 IF Passes(subs, ending) THEN default ELSE {}
  IN  outcomes

DoneOutcomes(f, d, ram, lua, frame) ==
  IF "done" \notin f.lua
  THEN [out : NodeOutcomes(f, d, ram)["done"], data : {d}]
  ELSE IF lua.loaded THEN {XposDone(d, ram, frame)}
  ELSE {[out |-> "throws", data |-> d]}
-----------------------------------------------------------------------------
(***************************************************************************)
(* update: whether it is over, then the players in turn; a throw leaves    *)
(* what was computed before it.                                            *)
(***************************************************************************)
Scripted(f, p) == p = 1 /\ "reward" \in f.lua

Payable(f, d, ram, lua, p) ==
  IF Scripted(f, p) THEN lua.loaded ELSE Readable(d, ram, f.rewards[p])

Reward(f, d, ram, lua, p) ==
  IF Scripted(f, p) THEN CorrectScore(d, ram, lua)
  ELSE TimeReward(f.time[p]) + VarReward(d, ram, f.rewards[p])

PayPlayers(f, s, d, ram, lua) ==
  LET paid == {p \in Players : \A q \in 1 .. p : Payable(f, d, ram, lua, q)}
      all == paid = Players
  IN  [scen |-> [s EXCEPT
         !.reward = [p \in Players |->
           IF p \in paid THEN Reward(f, d, ram, lua, p) ELSE @[p]],
         !.total = [p \in Players |->
           IF p \in paid THEN @[p] + Reward(f, d, ram, lua, p) ELSE @[p]],
         !.frame = IF all THEN @ + 1 ELSE @],
       data |-> d,
       lua |-> IF "reward" \in f.lua /\ 1 \in paid
               THEN [lua EXCEPT !.previous = @ + CorrectScore(d, ram, lua)]
               ELSE lua,
       ok |-> all]

Update(f, s, d, ram, lua) ==
  {IF o.out = "throws"
   THEN [scen |-> s, data |-> d, lua |-> lua, ok |-> FALSE]
   ELSE PayPlayers(f, [s EXCEPT !.done = (o.out = "yes")], o.data, ram, lua) :
     o \in DoneOutcomes(f, d, ram, lua, s.frame)}

RestartScenario(s) ==
  [reward |-> [p \in Players |-> 0], total |-> [p \in Players |-> 0],
   done |-> FALSE, frame |-> 0]
=============================================================================
