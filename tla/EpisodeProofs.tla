---------------------------- MODULE EpisodeProofs ----------------------------
(***************************************************************************)
(* In every environment, whatever its scenario file and its data.json, no  *)
(* custom variable hides a variable of the memory in an episode in which   *)
(* the client changes no variable; and rewards on the score, or on its     *)
(* change, add up over the episode to the score that was reached.          *)
(*                                                                         *)
(* HiddenInv is the invariant with the two facts it rests on: the name the *)
(* script keeps its own custom variable under is no variable of the        *)
(* memory, and GameData has its four members.  RewardInv adds what was     *)
(* earned so far: told by the best score the script has kept, or by the    *)
(* memory from which the next delta will be taken.                         *)
(*                                                                         *)
(* Every report is then shown to be the one of EpisodePromise, variable by *)
(* variable, spec by spec and node by node.  PromiseInv adds to the types  *)
(* that the clone is a memory of the console while an episode goes on, and *)
(* what the script of the done section keeps of it.                        *)
(***************************************************************************)
EXTENDS Episode, ListProofs

Shaped(d) == DOMAIN d = {"vars", "customs", "clone", "last"}

\* At most the script adds a custom variable, under its own name.
Keeps(before, after) ==
  /\ Shaped(after)
  /\ after.vars = before.vars
  /\ DOMAIN after.customs \subseteq DOMAIN before.customs \cup {Prev}

Apart(d) == DOMAIN d.customs \cap DOMAIN d.vars = {}

HiddenInv ==
  /\ Shaped(data)
  /\ Prev \notin DOMAIN data.vars
  /\ phase = "running" => Apart(data)
-----------------------------------------------------------------------------
(***************************************************************************)
(* What the operations of GameData and Scenario do to the two tables.      *)
(***************************************************************************)
\* A table that is written has one more name, at most.
LEMMA WithDomain ==
  ASSUME NEW table, NEW n, NEW x
  PROVE  DOMAIN With(table, n, x) = DOMAIN table \cup {n}
BY DEF With

\* A table from which names are taken (removeVariable, load) has no new ones.
LEMMA WithoutDomain ==
  ASSUME NEW table, NEW N
  PROVE  DOMAIN Without(table, N) = DOMAIN table \ N
BY DEF Without

\* updateRam leaves the tables alone.
LEMMA UpdateRamKeeps ==
  ASSUME NEW d, Shaped(d), NEW mem
  PROVE  /\ Shaped(UpdateRam(d, mem))
         /\ UpdateRam(d, mem).vars = d.vars
         /\ UpdateRam(d, mem).customs = d.customs
BY DEF Shaped, UpdateRam

\* The script of the done section writes its own variable only.
LEMMA XposDoneKeeps ==
  ASSUME NEW d, Shaped(d), NEW mem, NEW frame
  PROVE  Keeps(d, XposDone(d, mem, frame).data)
<1> DEFINE lives == Read(d, mem, Lives)
           table == With(d.customs, Prev, lives)
<1>1. DOMAIN table = DOMAIN d.customs \cup {Prev}
  BY WithDomain
<1>2. Keeps(d, [d EXCEPT !.customs = table])
  <2> HIDE DEF table
  <2> QED BY <1>1 DEF Keeps, Shaped
<1>3. Keeps(d, [d EXCEPT !.customs = With(@, Prev, lives)])
  BY <1>2
<1>4. Keeps(d, d)
  BY DEF Keeps
<1> HIDE DEF lives
<1>5. CASE lives < d.customs[Prev]
  BY <1>4, <1>5 DEF XposDone, lives
<1>6. CASE ~(lives < d.customs[Prev])
  BY <1>3, <1>6 DEF XposDone, lives
<1> QED BY <1>5, <1>6

\* Whatever a report does, it adds no name but the script's.
LEMMA UpdateKeeps ==
  ASSUME NEW f, NEW s, NEW d, Shaped(d), NEW mem, NEW l,
         NEW after \in Update(f, s, d, mem, l)
  PROVE  Keeps(d, after.data)
<1>1. Keeps(d, d)
  BY DEF Keeps
<1>2. ASSUME NEW o \in DoneOutcomes(f, d, mem, l, s.frame)
      PROVE  Keeps(d, o.data)
  <2>1. CASE "done" \notin f.lua
    BY <1>1, <2>1 DEF DoneOutcomes
  <2>2. CASE "done" \in f.lua /\ l.loaded
    BY <2>2, XposDoneKeeps DEF DoneOutcomes
  <2>3. CASE "done" \in f.lua /\ ~l.loaded
    BY <1>1, <2>3 DEF DoneOutcomes
  <2> QED BY <2>1, <2>2, <2>3
<1>3. PICK o \in DoneOutcomes(f, d, mem, l, s.frame) :
        after = IF o.out = "throws"
                THEN [scen |-> s, data |-> d, lua |-> l, ok |-> FALSE]
                ELSE PayPlayers(f, [s EXCEPT !.done = (o.out = "yes")],
                                o.data, mem, l)
  BY DEF Update
<1>4. ASSUME NEW t, NEW u PROVE PayPlayers(f, t, u, mem, l).data = u
  BY DEF PayPlayers
<1>5. CASE o.out = "throws"
  BY <1>1, <1>3, <1>5
<1>6. CASE o.out # "throws"
  BY <1>2, <1>3, <1>4, <1>6
<1> QED BY <1>5, <1>6

\* A report of the environment: the memory is rotated and then looked at.
LEMMA DataUpdateRamKeeps ==
  ASSUME NEW s, NEW d, Shaped(d), NEW l, NEW mem,
         NEW after \in DataUpdateRam(s, d, l, mem)
  PROVE  Keeps(d, after.data)
<1>1. Keeps(UpdateRam(d, mem), after.data)
  BY UpdateRamKeeps, UpdateKeeps DEF DataUpdateRam
<1> QED BY <1>1, UpdateRamKeeps DEF Keeps

\* A script that is run again brings its own variable along.
LEMMA ReloadScriptsKeeps ==
  ASSUME NEW f, NEW d, Shaped(d)
  PROVE  Keeps(d, ReloadScripts(f, d).data)
<1> DEFINE table == With(d.customs, Prev, f.base)
<1>1. DOMAIN table = DOMAIN d.customs \cup {Prev}
  BY WithDomain
<1>2. Keeps(d, [d EXCEPT !.customs = table])
  <2> HIDE DEF table
  <2> QED BY <1>1 DEF Keeps, Shaped
<1>3. Keeps(d, [d EXCEPT !.customs = With(@, Prev, f.base)])
  BY <1>2
<1>4. Keeps(d, d)
  BY DEF Keeps
<1> QED BY <1>3, <1>4 DEF ReloadScripts

\* load gives a table of the file, or leaves the old one.
LEMMA LoadVarsKeeps ==
  ASSUME NEW d, Shaped(d), Prev \notin DOMAIN d.vars, NEW table \in InfoFiles
  PROVE  Shaped(LoadVars(d, table)) /\ Prev \notin DOMAIN LoadVars(d, table).vars
<1> DEFINE bad == {n \in DOMAIN table : table[n] = "bad"}
           left == Without(table, bad)
<1>1. DOMAIN left \subseteq DOMAIN table
  <2>1. DOMAIN left = DOMAIN table \ bad
    BY WithoutDomain
  <2> QED BY <2>1
<1>2. Prev \notin DOMAIN table
  BY EpisodeAssumption
<1>3. /\ Shaped([d EXCEPT !.vars = left])
      /\ Prev \notin DOMAIN [d EXCEPT !.vars = left].vars
  <2> HIDE DEF left
  <2> QED BY <1>1, <1>2 DEF Shaped
<1> HIDE DEF left
<1>4. LoadVars(d, table) = IF Loads(table) THEN [d EXCEPT !.vars = left] ELSE d
  BY DEF LoadVars, left
<1> QED BY <1>3, <1>4
-----------------------------------------------------------------------------
(***************************************************************************)
(* The invariant.                                                          *)
(***************************************************************************)
\* A reset: the custom variables go, the script brings its own, one report.
LEMMA ResetKeepsApart ==
  ASSUME Shaped(data), Prev \notin DOMAIN data.vars,
         NEW s, NEW mem,
         NEW after \in DataUpdateRam(s, DataReset.data, DataReset.lua, mem)
  PROVE  /\ Shaped(after.data)
         /\ Prev \notin DOMAIN after.data.vars
         /\ Apart(after.data)
         /\ after.data.vars = data.vars
         /\ DOMAIN after.data.customs \subseteq {Prev}
<1>1. /\ Shaped(Restart(data))
      /\ Restart(data).vars = data.vars
      /\ DOMAIN Restart(data).customs = {}
  BY DEF Shaped, Restart, NoTable
<1>2. Keeps(Restart(data), DataReset.data)
  BY <1>1, ReloadScriptsKeeps DEF DataReset
<1>3. Keeps(DataReset.data, after.data)
  BY <1>2, DataUpdateRamKeeps DEF Keeps
<1> QED BY <1>1, <1>2, <1>3 DEF Keeps, Apart

\* __init__ establishes the invariant.
LEMMA HiddenInit == Init => HiddenInv
<1> SUFFICES ASSUME Init PROVE HiddenInv
  OBVIOUS
<1>1. Shaped(NewData) /\ Prev \notin DOMAIN NewData.vars
  BY DEF Shaped, NewData, NoTable
<1>2. PICK table \in InfoFiles :
        data = ReloadScripts(file, LoadVars(NewData, table)).data
  BY DEF Init
<1>3. /\ Shaped(LoadVars(NewData, table))
      /\ Prev \notin DOMAIN LoadVars(NewData, table).vars
  BY <1>1, LoadVarsKeeps
<1>4. Keeps(LoadVars(NewData, table), data)
  BY <1>2, <1>3, ReloadScriptsKeeps
<1>5. phase # "running"
  BY DEF Init
<1> QED BY <1>3, <1>4, <1>5 DEF Keeps, HiddenInv

\* Every step keeps it.
LEMMA HiddenStep == HiddenInv /\ [Next]_vars => HiddenInv'
<1> SUFFICES ASSUME HiddenInv, [Next]_vars PROVE HiddenInv'
  OBVIOUS
<1>1. CASE Reset
  <2>1. PICK now \in Memory :
          \E after \in DataUpdateRam(ZeroScenario, DataReset.data,
                                     DataReset.lua, now) : data' = after.data
    BY <1>1 DEF Reset
  <2>2. PICK after \in DataUpdateRam(ZeroScenario, DataReset.data,
                                     DataReset.lua, now) : data' = after.data
    BY <2>1
  <2> QED BY <2>2, ResetKeepsApart DEF HiddenInv, Apart
<1>2. CASE ResetFails
  BY <1>2 DEF ResetFails, HiddenInv, Apart
<1>3. CASE Step
  <2>0. PICK now \in Memory :
          \E after \in DataUpdateRam(scen, data, lua, now) :
            data' = after.data /\ phase' = IF after.ok THEN phase ELSE "broken"
    BY <1>3 DEF Step
  <2>1. PICK after \in DataUpdateRam(scen, data, lua, now) :
          data' = after.data /\ phase' = IF after.ok THEN phase ELSE "broken"
    BY <2>0
  <2>2. Keeps(data, data')
    BY <2>1, DataUpdateRamKeeps DEF HiddenInv
  <2>3. phase' = "running" => phase = "running"
    BY <2>1
  <2> QED BY <2>2, <2>3 DEF HiddenInv, Keeps, Apart
<1>4. CASE SetAValue
  <2>1. PICK n \in Written, v \in Values : data' = SetValue(data, ram, n, v).data
    BY <1>4 DEF SetAValue
  <2>2. phase' = phase
    BY <1>4 DEF SetAValue
  <2>3. CASE InMemory(data, n)
    BY <2>1, <2>2, <2>3 DEF SetValue, HiddenInv, Apart
  <2>4. CASE ~InMemory(data, n)
    <3> DEFINE table == With(data.customs, n, v)
    <3>1. data' = [data EXCEPT !.customs = table]
      BY <2>1, <2>4 DEF SetValue
    <3>2. DOMAIN table = DOMAIN data.customs \cup {n}
      BY WithDomain
    <3> HIDE DEF table
    <3>3. /\ Shaped(data') /\ data'.vars = data.vars
          /\ DOMAIN data'.customs = DOMAIN data.customs \cup {n}
      BY <3>1, <3>2 DEF HiddenInv, Shaped
    <3>4. n \in DOMAIN data.customs \/ n \notin DOMAIN data.vars
      BY <2>4 DEF InMemory
    <3> QED BY <2>2, <3>3, <3>4 DEF HiddenInv, Apart
  <2> QED BY <2>3, <2>4
<1>5. ASSUME Moved PROVE phase' # "running"
  BY <1>5 DEF Moved
<1>6. CASE SetAVariable
  <2>1. PICK n \in Edited, place \in Places : data' = SetVariable(data, n, place)
    BY <1>6 DEF SetAVariable
  <2> DEFINE table == With(data.vars, n, place)
  <2>2. data' = [data EXCEPT !.vars = table]
    BY <2>1 DEF SetVariable
  <2>3. DOMAIN table = DOMAIN data.vars \cup {n}
    BY WithDomain
  <2>4. n # Prev
    BY EpisodeAssumption
  <2> HIDE DEF table
  <2>5. Shaped(data') /\ Prev \notin DOMAIN data'.vars
    BY <2>2, <2>3, <2>4 DEF HiddenInv, Shaped
  <2> QED BY <1>5, <1>6, <2>5 DEF SetAVariable, HiddenInv
<1>7. CASE RemoveAVariable
  <2>1. PICK n \in Edited \cap DOMAIN data.vars : data' = RemoveVariable(data, n)
    BY <1>7 DEF RemoveAVariable
  <2> DEFINE table == Without(data.vars, {n})
  <2>2. data' = [data EXCEPT !.vars = table]
    BY <2>1 DEF RemoveVariable
  <2>3. DOMAIN table = DOMAIN data.vars \ {n}
    BY WithoutDomain
  <2> HIDE DEF table
  <2>4. Shaped(data') /\ Prev \notin DOMAIN data'.vars
    BY <2>2, <2>3 DEF HiddenInv, Shaped
  <2> QED BY <1>5, <1>7, <2>4 DEF RemoveAVariable, HiddenInv
<1>8. CASE LoadInfo
  <2>1. PICK table \in InfoFiles : data' = LoadVars(data, table)
    BY <1>8 DEF LoadInfo
  <2>2. Shaped(data') /\ Prev \notin DOMAIN data'.vars
    BY <2>1, LoadVarsKeeps DEF HiddenInv
  <2> QED BY <1>5, <1>8, <2>2 DEF LoadInfo, HiddenInv
<1>9. CASE UNCHANGED vars
  BY <1>9 DEF vars, HiddenInv, Apart
<1> QED BY <1>1, <1>2, <1>3, <1>4, <1>6, <1>7, <1>8, <1>9 DEF Next

\* A custom variable that hides one of the memory does not outlive the reset,
\* and none comes up in an episode in which the client changes no variable
\* (GameData::restart, Scenario::reloadScripts, GameData::setValue).
THEOREM NothingStaysHidden == Spec => []NothingHidden
<1>1. HiddenInv => NothingHidden
  BY DEF HiddenInv, NothingHidden, Apart
<1> QED BY <1>1, HiddenInit, HiddenStep, PTL DEF Spec
-----------------------------------------------------------------------------
(***************************************************************************)
(* What the rewards of an episode add up to.  First what one report of the *)
(* environment does: it looks at the memory of this frame and at the one   *)
(* before, and pays every player or raises.                                *)
(***************************************************************************)
SameClones(before, after) ==
  after.clone = before.clone /\ after.last = before.last

\* The scenario leaves the clones of the memory alone.
LEMMA XposDoneClones ==
  ASSUME NEW d, Shaped(d), NEW mem, NEW frame
  PROVE  SameClones(d, XposDone(d, mem, frame).data)
<1> DEFINE lives == Read(d, mem, Lives)
           table == With(d.customs, Prev, lives)
<1>1. SameClones(d, [d EXCEPT !.customs = table]) /\ SameClones(d, d)
  <2> HIDE DEF table
  <2> QED BY DEF SameClones, Shaped
<1> HIDE DEF lives
<1>2. CASE lives < d.customs[Prev]
  BY <1>1, <1>2 DEF XposDone, lives
<1>3. CASE ~(lives < d.customs[Prev])
  BY <1>1, <1>3 DEF XposDone, lives
<1> QED BY <1>2, <1>3

Tallies(s) == DOMAIN s = {"reward", "total", "done", "frame"}
Context(l) == DOMAIN l = {"loaded", "previous"}

\* A report that does not raise paid all of the players, by the memory that
\* is there and the variables as the report leaves them.
Pays(f, after, mem, l) ==
  /\ \A p \in Players :
       /\ Payable(f, after.data, mem, l, p)
       /\ after.scen.reward[p] = Reward(f, after.data, mem, l, p)
  /\ "reward" \in f.lua =>
       after.lua.previous = l.previous + CorrectScore(after.data, mem, l)

LEMMA PayPlayersPays ==
  ASSUME NEW f, NEW s, Tallies(s), NEW d, NEW mem, NEW l, Context(l),
         NEW after, after = PayPlayers(f, s, d, mem, l)
  PROVE /\ Tallies(after.scen) /\ Context(after.lua) /\ after.data = d
        /\ after.ok => Pays(f, after, mem, l)
<1> DEFINE paid == {p \in Players : \A q \in 1 .. p : Payable(f, d, mem, l, q)}
           all == paid = Players
           reward == [p \in Players |->
                       IF p \in paid THEN Reward(f, d, mem, l, p) ELSE s.reward[p]]
           total == [p \in Players |->
                      IF p \in paid THEN s.total[p] + Reward(f, d, mem, l, p)
                      ELSE s.total[p]]
           frame == IF all THEN s.frame + 1 ELSE s.frame
           previous == l.previous + CorrectScore(d, mem, l)
<1>1. /\ after.data = d
      /\ after.ok = all
      /\ after.scen = [s EXCEPT !.reward = reward, !.total = total, !.frame = frame]
      /\ after.lua = IF "reward" \in f.lua /\ 1 \in paid
                     THEN [l EXCEPT !.previous = previous] ELSE l
  BY DEF PayPlayers, Tallies, Context
<1>2. ASSUME all
      PROVE  /\ \A p \in Players : Payable(f, d, mem, l, p)
             /\ \A p \in Players : reward[p] = Reward(f, d, mem, l, p)
             /\ 1 \in paid
  <2>1. \A p \in Players : p \in 1 .. p /\ 1 \in Players
    BY ScenarioAssumption DEF Players
  <2>2. \A p \in Players : p \in paid
    BY <1>2
  <2>3. 1 \in paid
    BY <1>2, ScenarioAssumption DEF Players
  <2> QED BY <2>1, <2>2, <2>3
<1> HIDE DEF paid, all, reward, total, frame, previous
<1>3. Tallies(after.scen) /\ after.scen.reward = reward
  BY <1>1 DEF Tallies
<1>4. Context(after.lua)
  BY <1>1 DEF Context
<1>5. ASSUME all PROVE Pays(f, after, mem, l)
  <2>1. "reward" \in f.lua => after.lua.previous = previous
    BY <1>1, <1>2, <1>5 DEF Context
  <2> QED BY <1>1, <1>2, <1>3, <1>5, <2>1 DEF Pays, previous
<1> QED BY <1>1, <1>3, <1>4, <1>5

LEMMA UpdatePays ==
  ASSUME NEW f, NEW s, Tallies(s), NEW d, Shaped(d), NEW mem,
         NEW l, Context(l), NEW after \in Update(f, s, d, mem, l)
  PROVE /\ Tallies(after.scen) /\ Context(after.lua)
        /\ SameClones(d, after.data)
        /\ after.ok => Pays(f, after, mem, l)
<1>1. SameClones(d, d)
  BY DEF SameClones
<1>2. ASSUME NEW o \in DoneOutcomes(f, d, mem, l, s.frame)
      PROVE  SameClones(d, o.data)
  <2>1. CASE "done" \notin f.lua
    BY <1>1, <2>1 DEF DoneOutcomes
  <2>2. CASE "done" \in f.lua /\ l.loaded
    BY <2>2, XposDoneClones DEF DoneOutcomes
  <2>3. CASE "done" \in f.lua /\ ~l.loaded
    BY <1>1, <2>3 DEF DoneOutcomes
  <2> QED BY <2>1, <2>2, <2>3
<1>3. PICK o \in DoneOutcomes(f, d, mem, l, s.frame) :
        after = IF o.out = "throws"
                THEN [scen |-> s, data |-> d, lua |-> l, ok |-> FALSE]
                ELSE PayPlayers(f, [s EXCEPT !.done = (o.out = "yes")],
                                o.data, mem, l)
  BY DEF Update
<1>4. CASE o.out = "throws"
  BY <1>1, <1>3, <1>4
<1>5. CASE o.out # "throws"
  <2> DEFINE t == [s EXCEPT !.done = (o.out = "yes")]
  <2>1. Tallies(t)
    BY DEF Tallies
  <2>2. after = PayPlayers(f, t, o.data, mem, l)
    BY <1>3, <1>5
  <2> HIDE DEF t
  <2> QED BY <1>2, <2>1, <2>2, PayPlayersPays
<1> QED BY <1>4, <1>5

\* updateRam keeps this memory and the one before.
LEMMA ReportPays ==
  ASSUME NEW s, Tallies(s), NEW d, Shaped(d), NEW l, Context(l), NEW mem,
         NEW after \in DataUpdateRam(s, d, l, mem)
  PROVE /\ Tallies(after.scen) /\ Context(after.lua)
        /\ after.data.clone = mem /\ after.data.last = d.clone
        /\ after.ok => Pays(file, after, mem, l)
<1>1. /\ Shaped(UpdateRam(d, mem))
      /\ UpdateRam(d, mem).clone = mem /\ UpdateRam(d, mem).last = d.clone
  BY DEF Shaped, UpdateRam
<1>2. after \in Update(file, s, UpdateRam(d, mem), mem, l)
  BY DEF DataUpdateRam
<1> QED BY <1>1, <1>2, UpdatePays DEF SameClones
-----------------------------------------------------------------------------
\* The score of a memory, where it is a variable that nothing hides.
ScoreSeen(d) ==
  /\ Score \in DOMAIN d.vars /\ d.vars[Score] \in Addresses
  /\ Score \notin DOMAIN d.customs

LEMMA ScoreAt ==
  ASSUME NEW d, ScoreSeen(d), NEW mem \in Memory
  PROVE /\ mem[d.vars[Score]] \in Int
        /\ LookupValue(d, mem, Score) = {mem[d.vars[Score]]}
        /\ Read(d, mem, Score) = mem[d.vars[Score]]
        /\ PointsIn(d, mem) = mem[d.vars[Score]]
<1>1. mem[d.vars[Score]] \in Values /\ DOMAIN mem = Addresses
  BY DEF ScoreSeen, Memory
<1>2. LookupValue(d, mem, Score) = {mem[d.vars[Score]]}
  BY <1>1 DEF LookupValue, At, ScoreSeen
<1>3. Read(d, mem, Score) = mem[d.vars[Score]]
  BY <1>2 DEF Read
<1> QED BY <1>1, <1>2, <1>3, GameDataAssumption DEF PointsIn

\* Where the table keeps its places, what is seen stays seen.
LEMMA ScoreStaysSeen ==
  ASSUME NEW d, NEW e, ScoreSeen(d), e.vars = d.vars,
         Score \notin DOMAIN e.customs
  PROVE  ScoreSeen(e)
BY DEF ScoreSeen

LEMMA MaxOfTwo ==
  ASSUME NEW a \in Int, NEW b \in Int
  PROVE  Max({a, b}) = IF a >= b THEN a ELSE b
<1>1. CASE a >= b
  <2>1. \A x \in {a, b} : (\A y \in {a, b} : x >= y) => x = a
    BY <1>1
  <2>2. \A y \in {a, b} : a >= y
    BY <1>1
  <2> QED BY <1>1, <2>1, <2>2 DEF Max
<1>2. CASE ~(a >= b)
  <2>1. \A x \in {a, b} : (\A y \in {a, b} : x >= y) => x = b
    BY <1>2
  <2>2. \A y \in {a, b} : b >= y
    BY <1>2
  <2> QED BY <1>2, <2>1, <2>2 DEF Max
<1> QED BY <1>1, <1>2

\* The sum over one element.
LEMMA OneTotal ==
  ASSUME NEW spec, NEW worth, DOMAIN worth = {spec}, worth[spec] \in Int
  PROVE  Total(worth) = worth[spec]
<1> DEFINE Sums(iter) ==
             iter = [s \in SUBSET {spec} |->
                      IF s = {} THEN 0
                      ELSE worth[CHOOSE x \in s : TRUE]
                           + iter[s \ {CHOOSE x \in s : TRUE}]]
           sums == CHOOSE iter : Sums(iter)
           w == [s \in SUBSET {spec} |-> IF s = {} THEN 0 ELSE worth[spec]]
<1>1. Total(worth) = sums[{spec}]
  BY DEF Total, MapThenSumSet, MapThenFoldSet
<1>2. SUBSET {spec} = {{}, {spec}}
  OBVIOUS
<1>3. (CHOOSE x \in {spec} : TRUE) = spec /\ {spec} \ {spec} = {}
      /\ {spec} # {}
  OBVIOUS
<1>4. Sums(w)
  <2>1. w[{}] = 0 /\ w[{spec}] = worth[spec] + w[{}]
    BY <1>2, <1>3
  <2> QED BY <1>2, <1>3, <2>1
<1>5. Sums(sums)
  <2> HIDE DEF Sums, w
  <2> QED BY <1>4
<1>6. sums[{}] = 0 /\ sums[{spec}] = worth[spec] + sums[{}]
  <2> HIDE DEF sums
  <2> QED BY <1>2, <1>3, <1>5
<1> QED BY <1>1, <1>6

\* A scenario of one variable pays what that variable is worth.
LEMMA OneVarReward ==
  ASSUME NEW d, NEW mem, NEW spec,
         Weigh(CHOOSE m \in Measures(d, mem, spec) : TRUE, spec) \in Int
  PROVE  VarReward(d, mem, {spec})
           = Weigh(CHOOSE m \in Measures(d, mem, spec) : TRUE, spec)
<1> DEFINE worth == [x \in {spec} |->
                      Weigh(CHOOSE m \in Measures(d, mem, x) : TRUE, x)]
<1>1. VarReward(d, mem, {spec}) = Total(worth)
  BY DEF VarReward
<1>2. DOMAIN worth = {spec}
      /\ worth[spec] = Weigh(CHOOSE m \in Measures(d, mem, spec) : TRUE, spec)
  OBVIOUS
<1> HIDE DEF worth
<1> QED BY <1>1, <1>2, OneTotal
-----------------------------------------------------------------------------
(***************************************************************************)
(* The invariant of the rewards.  The variables the script reads stay in   *)
(* the memory, an episode has the clone of its last report, and what it    *)
(* earned so far is told by the context of its script, and by that clone.  *)
(***************************************************************************)
\* correct_score has kept the best score of the episode.
PeakTold ==
  "reward" \in file.lua =>
    /\ peak \in Int /\ start \in Int
    /\ lua.previous = Max({peak, 0})
    /\ earned[1] = lua.previous - Max({start, 0})

\* The delta of the score spans the clone and the memory of the next report.
ProgressTold ==
  \A p \in Players, k \in {1, 2} :
    PaysScore(p, k) =>
      /\ ScoreSeen(data) /\ start \in Int
      /\ earned[p] = k * (data.clone[data.vars[Score]] - start)

RewardTold ==
  /\ Tallies(scen) /\ Context(lua)
  /\ ScriptsServed(data)
  /\ phase = "running" => data.clone \in Memory /\ PeakTold /\ ProgressTold

RewardInv == HiddenInv /\ RewardTold

LEMMA MaxWithZero ==
  ASSUME NEW a \in Int
  PROVE  Max({a, 0}) = (IF a >= 0 THEN a ELSE 0) /\ Max({a, 0}) \in Int
BY MaxOfTwo

\* What correct_score pays, and what it keeps: the best score so far.
LEMMA CorrectScoreKeepsPeak ==
  ASSUME NEW d, ScoreSeen(d), NEW mem \in Memory, NEW l, NEW best \in Int,
         l.previous = Max({best, 0})
  PROVE  l.previous + CorrectScore(d, mem, l) = Max({Max({best, PointsIn(d, mem)}), 0})
         /\ CorrectScore(d, mem, l) \in Int
<1> DEFINE v == mem[d.vars[Score]]
<1>1. v \in Int /\ Read(d, mem, Score) = v /\ PointsIn(d, mem) = v
  BY ScoreAt
<1>2. CorrectScore(d, mem, l) = IF v > l.previous THEN v - l.previous ELSE 0
  BY <1>1 DEF CorrectScore
<1>3. l.previous = IF best >= 0 THEN best ELSE 0
  BY MaxWithZero
<1> HIDE DEF v
<1>4. Max({best, v}) = IF best >= v THEN best ELSE v
  BY <1>1, MaxOfTwo
<1> DEFINE m == Max({best, v})
<1>5. m \in Int /\ Max({m, 0}) = IF m >= 0 THEN m ELSE 0
  <2>1. m \in Int
    BY <1>1, <1>4
  <2> HIDE DEF m
  <2> QED BY <2>1, MaxWithZero
<1> HIDE DEF m
<1>6. m = IF best >= v THEN best ELSE v
  BY <1>4 DEF m
<1>7. l.previous + CorrectScore(d, mem, l) = Max({m, 0})
  BY <1>1, <1>2, <1>3, <1>5, <1>6
<1>8. CorrectScore(d, mem, l) \in Int
  BY <1>1, <1>2, <1>3
<1> QED BY <1>1, <1>7, <1>8 DEF m

\* Where the score can be paid it is seen.
LEMMA PaidScoreSeen ==
  ASSUME NEW p \in Players, NEW k \in {1, 2}, PaysScore(p, k),
         NEW d, NEW mem \in Memory, NEW l, Payable(file, d, mem, l, p),
         Score \notin DOMAIN d.customs
  PROVE  ScoreSeen(d)
<1> DEFINE spec == [name |-> Score, measurement |-> "delta", op |-> "none",
                    reference |-> 0, reward |-> k, penalty |-> k]
<1>1. Measures(d, mem, spec) # {}
  BY DEF PaysScore, Payable, Readable
<1>2. LookupValue(d, mem, Score) # {}
  BY <1>1 DEF Measures
<1>3. DOMAIN mem = Addresses
  BY DEF Memory
<1> QED BY <1>2, <1>3 DEF LookupValue, At, ScoreSeen

\* What the score pays from one report to the next.
LEMMA ScoreReward ==
  ASSUME NEW p \in Players, NEW k \in {1, 2}, PaysScore(p, k),
         NEW d, ScoreSeen(d), NEW mem \in Memory, d.clone = mem,
         d.last \in Memory, NEW l
  PROVE  Reward(file, d, mem, l, p) = k * (mem[d.vars[Score]] - d.last[d.vars[Score]])
<1> DEFINE spec == [name |-> Score, measurement |-> "delta", op |-> "none",
                    reference |-> 0, reward |-> k, penalty |-> k]
           place == d.vars[Score]
           dv == mem[place] - d.last[place]
<1>1. mem[place] \in Int /\ LookupValue(d, mem, Score) = {mem[place]}
      /\ d.last[place] \in Int /\ dv \in Int
  BY ScoreAt
<1>2. DOMAIN mem = Addresses /\ DOMAIN d.last = Addresses
      /\ place \in Addresses /\ Score \in DOMAIN d.vars
  BY DEF Memory, ScoreSeen
<1>3. Ok(d.last)
  BY <1>2 DEF Ok, NoMem
<1>4. At(d.clone, place) = {mem[place]} /\ At(d.last, place) = {d.last[place]}
  BY <1>2 DEF At
<1>5. LookupDelta(d, Score) = {dv}
  BY <1>2, <1>3, <1>4 DEF LookupDelta
<1>6. \A v : Measure(spec, v, dv) = dv
  BY DEF Measure, Calculate
<1> HIDE DEF dv, place
<1>7. Measures(d, mem, spec) = {dv}
  <2>1. Measures(d, mem, spec)
          = {Measure(spec, v, x) : v \in LookupValue(d, mem, Score),
                                   x \in LookupDelta(d, Score)}
    BY DEF Measures
  <2> HIDE DEF spec
  <2> QED BY <1>1, <1>5, <1>6, <2>1
<1>8. Weigh(dv, spec) = k * dv
  <2>1. CASE k = 1
    BY <1>1, <2>1 DEF Weigh
  <2>2. CASE k = 2
    BY <1>1, <2>2 DEF Weigh
  <2> QED BY <2>1, <2>2
<1>9. (CHOOSE m \in Measures(d, mem, spec) : TRUE) = dv
  BY <1>7
<1>10. k * dv \in Int
  BY <1>1
<1>11. VarReward(d, mem, {spec}) = k * dv
  <2> HIDE DEF spec
  <2> QED BY <1>8, <1>9, <1>10, OneVarReward
<1>12. file.rewards[p] = {spec} /\ TimeReward(file.time[p]) = 0
       /\ ~Scripted(file, p)
  BY DEF PaysScore
<1> HIDE DEF spec
<1>13. Reward(file, d, mem, l, p) = 0 + k * dv
  BY <1>11, <1>12 DEF Reward
<1> QED BY <1>10, <1>13 DEF dv, place

LEMMA RewardInit == Init => RewardInv
<1> SUFFICES ASSUME Init PROVE RewardInv
  OBVIOUS
<1>1. HiddenInv
  BY HiddenInit
<1>2. ScriptsServed(data) /\ phase = "none"
  BY DEF Init
<1>3. Tallies(scen)
  BY DEF Init, ZeroScenario, RestartScenario, Tallies
<1>4. \A d : Context(ReloadScripts(file, d).lua)
  BY DEF ReloadScripts, Blank, Fresh, Context
<1>5. Context(lua)
  BY <1>4 DEF Init
<1> QED BY <1>1, <1>2, <1>3, <1>5 DEF RewardInv, RewardTold

\* The context of a script, and the data of a reset before its report.
LEMMA DataResetFresh ==
  ASSUME Shaped(data)
  PROVE /\ Shaped(DataReset.data) /\ Context(DataReset.lua)
        /\ DataReset.lua.previous = 0
<1>1. /\ Shaped(Restart(data))
      /\ Restart(data).vars = data.vars
      /\ DOMAIN Restart(data).customs = {}
  BY DEF Shaped, Restart, NoTable
<1>2. Keeps(Restart(data), DataReset.data)
  BY <1>1, ReloadScriptsKeeps DEF DataReset
<1>3. \A d : /\ Context(ReloadScripts(file, d).lua)
             /\ ReloadScripts(file, d).lua.previous = 0
  BY DEF ReloadScripts, Blank, Fresh, Context
<1> QED BY <1>2, <1>3 DEF DataReset, Keeps

\* A script finds the score: it is served, and nothing of the file hides it.
LEMMA ServedSeen ==
  ASSUME NEW d, ScriptsServed(d), file.lua # {}, Score \notin DOMAIN d.customs
  PROVE  ScoreSeen(d)
BY DEF ScriptsServed, ScoreSeen

LEMMA ResetTold ==
  ASSUME RewardInv, Reset
  PROVE  RewardTold'
<1>1. PICK now \in Memory :
        \E after \in DataUpdateRam(ZeroScenario, DataReset.data, DataReset.lua, now) :
          /\ data' = after.data /\ scen' = after.scen /\ lua' = after.lua
          /\ phase' = IF after.ok THEN "running" ELSE "broken"
          /\ start' = PointsIn(data', now)
          /\ earned' = [p \in Players |-> 0]
          /\ peak' = IF "reward" \in file.lua THEN start' ELSE 0
  BY DEF Reset
<1>2. PICK after \in DataUpdateRam(ZeroScenario, DataReset.data, DataReset.lua, now) :
          /\ data' = after.data /\ scen' = after.scen /\ lua' = after.lua
          /\ phase' = IF after.ok THEN "running" ELSE "broken"
          /\ start' = PointsIn(data', now)
          /\ earned' = [p \in Players |-> 0]
          /\ peak' = IF "reward" \in file.lua THEN start' ELSE 0
  BY <1>1
<1>3. file' = file
  BY DEF Reset
<1>4. Shaped(data) /\ Prev \notin DOMAIN data.vars /\ ScriptsServed(data)
  BY DEF RewardInv, HiddenInv, RewardTold
<1>5. Tallies(ZeroScenario)
  BY DEF ZeroScenario, RestartScenario, Tallies
<1>6. /\ Tallies(scen') /\ Context(lua') /\ data'.clone = now
      /\ after.ok => Pays(file, after, now, DataReset.lua)
  BY <1>2, <1>4, <1>5, DataResetFresh, ReportPays
<1>7. data'.vars = data.vars /\ DOMAIN data'.customs \subseteq {Prev}
  BY <1>2, <1>4, ResetKeepsApart
<1>8. ScriptsServed(data)'
  BY <1>3, <1>4, <1>7 DEF ScriptsServed
<1>9. Score \notin DOMAIN data'.customs
  BY <1>7, EpisodeAssumption
<1>10. ASSUME phase' = "running" PROVE PeakTold'
  <2> SUFFICES ASSUME "reward" \in file.lua
               PROVE  /\ peak' \in Int /\ start' \in Int
                      /\ lua'.previous = Max({peak', 0})
                      /\ earned'[1] = lua'.previous - Max({start', 0})
    BY <1>3 DEF PeakTold
  <2>1. ScoreSeen(data')
    BY <1>4, <1>7, <1>9 DEF ScriptsServed, ScoreSeen
  <2>2. start' \in Int /\ peak' = start'
    BY <1>2, <2>1, ScoreAt
  <2>3. lua'.previous = DataReset.lua.previous
                        + CorrectScore(data', now, DataReset.lua)
    BY <1>2, <1>6, <1>10 DEF Pays
  <2>4. Max({0, 0}) = 0
    BY MaxWithZero
  <2>5. lua'.previous = Max({Max({0, start'}), 0})
    BY <1>2, <1>4, <2>1, <2>3, <2>4, DataResetFresh, CorrectScoreKeepsPeak
  <2>6. Max({0, start'}) = Max({start', 0})
    <3>1. {0, start'} = {start', 0}
      OBVIOUS
    <3> QED BY <3>1
  <2> DEFINE m == Max({start', 0})
  <2>7. m = (IF start' >= 0 THEN start' ELSE 0) /\ m \in Int
    BY <2>2, MaxWithZero
  <2>8. Max({m, 0}) = IF m >= 0 THEN m ELSE 0
    <3> HIDE DEF m
    <3> QED BY <2>7, MaxWithZero
  <2>9. lua'.previous = Max({m, 0})
    BY <2>5, <2>6
  <2> HIDE DEF m
  <2>10. lua'.previous = m
    BY <2>2, <2>7, <2>8, <2>9
  <2>11. earned'[1] = 0
    BY <1>2, ScenarioAssumption DEF Players
  <2> QED BY <2>2, <2>7, <2>10, <2>11 DEF m
<1>11. ASSUME phase' = "running" PROVE ProgressTold'
  <2> SUFFICES ASSUME NEW p \in Players, NEW k \in {1, 2}, PaysScore(p, k)
               PROVE  /\ ScoreSeen(data') /\ start' \in Int
                      /\ earned'[p] = k * (data'.clone[data'.vars[Score]] - start')
    BY <1>3 DEF ProgressTold, PaysScore, Scripted, ScoreSeen
  <2>1. Payable(file, data', now, DataReset.lua, p)
    BY <1>2, <1>6, <1>11 DEF Pays
  <2>2. ScoreSeen(data')
    BY <1>9, <2>1, PaidScoreSeen
  <2>3. start' \in Int /\ start' = now[data'.vars[Score]]
    BY <1>2, <2>2, ScoreAt
  <2>4. data'.clone[data'.vars[Score]] - start' = 0
    BY <1>6, <2>3
  <2>5. k * 0 = 0
    OBVIOUS
  <2> QED BY <1>2, <2>2, <2>3, <2>4, <2>5
<1> QED BY <1>6, <1>8, <1>10, <1>11 DEF RewardTold

LEMMA StepTold ==
  ASSUME RewardInv, Step
  PROVE  RewardTold'
<1>1. PICK now \in Memory :
        \E after \in DataUpdateRam(scen, data, lua, now) :
          /\ data' = after.data /\ scen' = after.scen /\ lua' = after.lua
          /\ phase' = IF after.ok THEN phase ELSE "broken"
          /\ earned' = IF after.ok
                       THEN [p \in Players |-> earned[p] + scen'.reward[p]]
                       ELSE earned
          /\ peak' = IF "reward" \in file.lua
                     THEN Max({peak, PointsIn(data', now)}) ELSE 0
  BY DEF Step
<1>2. PICK after \in DataUpdateRam(scen, data, lua, now) :
          /\ data' = after.data /\ scen' = after.scen /\ lua' = after.lua
          /\ phase' = IF after.ok THEN phase ELSE "broken"
          /\ earned' = IF after.ok
                       THEN [p \in Players |-> earned[p] + scen'.reward[p]]
                       ELSE earned
          /\ peak' = IF "reward" \in file.lua
                     THEN Max({peak, PointsIn(data', now)}) ELSE 0
  BY <1>1
<1>3. file' = file /\ start' = start
  BY DEF Step
<1>4. /\ Shaped(data) /\ ScriptsServed(data) /\ Tallies(scen) /\ Context(lua)
      /\ phase = "running" => /\ Apart(data) /\ data.clone \in Memory
                              /\ PeakTold /\ ProgressTold
  BY DEF RewardInv, HiddenInv, RewardTold
<1>5. /\ Tallies(scen') /\ Context(lua') /\ data'.clone = now
      /\ data'.last = data.clone
      /\ after.ok => Pays(file, after, now, lua)
  BY <1>2, <1>4, ReportPays
<1>6. data'.vars = data.vars
      /\ DOMAIN data'.customs \subseteq DOMAIN data.customs \cup {Prev}
  <2>1. Keeps(data, after.data)
    BY <1>4, DataUpdateRamKeeps
  <2> QED BY <1>2, <2>1 DEF Keeps
<1>7. ScriptsServed(data)'
  BY <1>3, <1>4, <1>6 DEF ScriptsServed
<1>8. ASSUME phase' = "running"
      PROVE /\ after.ok /\ Apart(data) /\ data.clone \in Memory
            /\ PeakTold /\ ProgressTold
            /\ earned' = [p \in Players |-> earned[p] + scen'.reward[p]]
            /\ \A p \in Players : scen'.reward[p] = Reward(file, data', now, lua, p)
  BY <1>2, <1>4, <1>5, <1>8 DEF Pays
<1>9. ASSUME phase' = "running", Score \in DOMAIN data.vars
      PROVE  Score \notin DOMAIN data'.customs
  BY <1>6, <1>8, <1>9, EpisodeAssumption DEF Apart
<1>10. ASSUME phase' = "running" PROVE PeakTold'
  <2> SUFFICES ASSUME "reward" \in file.lua
               PROVE  /\ peak' \in Int /\ start' \in Int
                      /\ lua'.previous = Max({peak', 0})
                      /\ earned'[1] = lua'.previous - Max({start', 0})
    BY <1>3 DEF PeakTold
  <2>1. Score \in DOMAIN data.vars /\ data.vars[Score] \in Addresses
    BY <1>4 DEF ScriptsServed
  <2>2. ScoreSeen(data')
    BY <1>6, <1>9, <1>10, <2>1 DEF ScoreSeen
  <2>3. /\ peak \in Int /\ start \in Int /\ lua.previous = Max({peak, 0})
        /\ earned[1] = lua.previous - Max({start, 0})
    BY <1>8, <1>10 DEF PeakTold
  <2> DEFINE points == PointsIn(data', now)
             paid == CorrectScore(data', now, lua)
  <2>4. points \in Int
    BY <2>2, ScoreAt
  <2>5. lua.previous + paid = Max({Max({peak, points}), 0}) /\ paid \in Int
    BY <2>2, <2>3, CorrectScoreKeepsPeak
  <2>6. lua'.previous = lua.previous + paid
    BY <1>2, <1>5, <1>8, <1>10 DEF Pays
  <2>7. 1 \in Players
    BY ScenarioAssumption DEF Players
  <2>8. earned'[1] = earned[1] + paid
    <3>1. Reward(file, data', now, lua, 1) = paid
      BY DEF Reward, Scripted
    <3> QED BY <1>8, <1>10, <2>7, <3>1
  <2>9. peak' = Max({peak, points})
    BY <1>2
  <2> HIDE DEF points, paid
  <2>10. peak' \in Int
    BY <2>3, <2>4, <2>9, MaxOfTwo
  <2>11. lua.previous \in Int /\ Max({start, 0}) \in Int
    BY <2>3, MaxWithZero
  <2> QED BY <1>3, <2>3, <2>5, <2>6, <2>8, <2>9, <2>10, <2>11
<1>11. ASSUME phase' = "running" PROVE ProgressTold'
  <2> SUFFICES ASSUME NEW p \in Players, NEW k \in {1, 2}, PaysScore(p, k)
               PROVE  /\ ScoreSeen(data') /\ start' \in Int
                      /\ earned'[p] = k * (data'.clone[data'.vars[Score]] - start')
    BY <1>3 DEF ProgressTold, PaysScore, Scripted, ScoreSeen
  <2> DEFINE place == data.vars[Score]
             old == data.clone[place]
             new == now[place]
  <2>1. ScoreSeen(data) /\ start \in Int /\ earned[p] = k * (old - start)
    BY <1>8, <1>11 DEF ProgressTold
  <2>2. ScoreSeen(data')
    BY <1>6, <1>9, <1>11, <2>1 DEF ScoreSeen
  <2>3. data'.last \in Memory
    BY <1>5, <1>8, <1>11
  <2>4. Reward(file, data', now, lua, p)
          = k * (now[data'.vars[Score]] - data'.last[data'.vars[Score]])
    BY <1>5, <2>2, <2>3, ScoreReward, ZenonT(30)
  <2>5. Reward(file, data', now, lua, p) = k * (new - old)
    BY <1>5, <1>6, <2>4
  <2>6. new \in Int /\ old \in Int
    BY <1>8, <1>11, <2>1, ScoreAt
  <2>7. earned'[p] = earned[p] + scen'.reward[p]
        /\ scen'.reward[p] = Reward(file, data', now, lua, p)
    BY <1>8, <1>11
  <2>8. data'.clone[data'.vars[Score]] = new
    BY <1>5, <1>6
  <2> HIDE DEF new, old
  <2>9. k * (old - start) + k * (new - old) = k * (new - start)
    <3>1. CASE k = 1
      BY <2>1, <2>6, <3>1
    <3>2. CASE k = 2
      BY <2>1, <2>6, <3>2
    <3> QED BY <3>1, <3>2
  <2> QED BY <1>3, <2>1, <2>2, <2>5, <2>7, <2>8, <2>9
<1> QED BY <1>5, <1>7, <1>8, <1>10, <1>11 DEF RewardTold

\* The other calls: a value of the client lies in the memory or among the
\* custom variables; a changed variable ends what is told of the episode.
LEMMA OtherTold ==
  ASSUME RewardInv,
         \/ ResetFails \/ SetAValue \/ SetAVariable \/ RemoveAVariable
         \/ LoadInfo \/ UNCHANGED vars
  PROVE  RewardTold'
<1>1. RewardTold /\ HiddenInv
  BY DEF RewardInv
<1>2. CASE SetAValue
  <2>1. PICK n \in Written, v \in Values : data' = SetValue(data, ram, n, v).data
    BY <1>2 DEF SetAValue
  <2>2. n # Prev
    BY EpisodeAssumption
  <2>3. UNCHANGED <<file, scen, lua, phase, start, earned, peak>>
    BY <1>2 DEF SetAValue
  <2>4. data'.vars = data.vars /\ data'.clone = data.clone
        /\ DOMAIN data'.customs \cap DOMAIN data.vars
             \subseteq DOMAIN data.customs \cap DOMAIN data.vars
    <3>1. CASE InMemory(data, n)
      BY <2>1, <3>1 DEF SetValue
    <3>2. CASE ~InMemory(data, n)
      <4> DEFINE table == With(data.customs, n, v)
      <4>1. data' = [data EXCEPT !.customs = table]
        BY <2>1, <3>2 DEF SetValue
      <4>2. DOMAIN table = DOMAIN data.customs \cup {n}
        BY WithDomain
      <4> HIDE DEF table
      <4>3. n \in DOMAIN data.customs \/ n \notin DOMAIN data.vars
        BY <3>2 DEF InMemory
      <4>4. Shaped(data)
        BY <1>1 DEF HiddenInv
      <4> QED BY <4>1, <4>2, <4>3, <4>4 DEF Shaped
    <3> QED BY <3>1, <3>2
  <2>5. ScriptsServed(data)'
    BY <1>1, <2>3, <2>4 DEF RewardTold, ScriptsServed
  <2>6. ScoreSeen(data) => ScoreSeen(data')
    BY <2>4 DEF ScoreSeen
  <2>7. ProgressTold => ProgressTold'
    BY <2>3, <2>4, <2>6 DEF ProgressTold, PaysScore, Scripted
  <2>8. PeakTold => PeakTold'
    BY <2>3 DEF PeakTold
  <2> QED BY <1>1, <2>3, <2>4, <2>5, <2>7, <2>8 DEF RewardTold
<1>3. CASE SetAVariable \/ RemoveAVariable \/ LoadInfo
  <2>1. Moved /\ Context(lua')
    BY <1>1, <1>3
    DEF SetAVariable, RemoveAVariable, LoadInfo, RewardTold, Context, Blank
  <2>2. phase' # "running" /\ scen' = scen /\ file' = file /\ ScriptsServed(data')
    BY <2>1 DEF Moved
  <2>3. ScriptsServed(data)'
    BY <2>2 DEF ScriptsServed
  <2> QED BY <1>1, <2>1, <2>2, <2>3 DEF RewardTold
<1>4. CASE ResetFails
  <2>1. phase' = "broken" /\ UNCHANGED <<file, data, scen, lua>>
    BY <1>4 DEF ResetFails
  <2> QED BY <1>1, <2>1 DEF RewardTold, ScriptsServed
<1>5. CASE UNCHANGED vars
  <2>1. UNCHANGED <<file, data, scen, lua, phase, start, earned, peak>>
    BY <1>5 DEF vars
  <2>2. ScriptsServed(data)' <=> ScriptsServed(data)
    BY <2>1 DEF ScriptsServed
  <2>3. PeakTold => PeakTold'
    BY <2>1 DEF PeakTold
  <2>4. ProgressTold => ProgressTold'
    BY <2>1 DEF ProgressTold, PaysScore, Scripted, ScoreSeen
  <2> QED BY <1>1, <2>1, <2>2, <2>3, <2>4 DEF RewardTold
<1> QED BY <1>2, <1>3, <1>4, <1>5

LEMMA RewardInvariant == Spec => []RewardInv
<1>1. RewardInv /\ [Next]_vars => RewardInv'
  <2> SUFFICES ASSUME RewardInv, [Next]_vars PROVE RewardTold'
    BY HiddenStep DEF RewardInv
  <2> QED BY ResetTold, StepTold, OtherTold DEF Next
<1> QED BY <1>1, RewardInit, PTL DEF Spec

\* With correct_score the rewards of an episode add up to how far its best
\* score is above the one it began with: no episode sees the best of another
\* (Scenario::reloadScripts under PyGameData::reset).
THEOREM BestScoreIsPaid == Spec => []EarnedIsPeak
<1>1. RewardInv => EarnedIsPeak
  BY DEF RewardInv, RewardTold, PeakTold, EarnedIsPeak
<1> QED BY <1>1, RewardInvariant, PTL

\* The rewards of an episode add up to the progress of the score since its
\* reset, whatever the client writes to the memory: no delta is lost, counted
\* twice or taken over a reset (GameData::updateRam, RetroEnv.reset and step).
THEOREM ProgressIsPaid == Spec => []EarnedIsProgress
<1>1. RewardInv => EarnedIsProgress
  <2> SUFFICES ASSUME RewardInv, NEW p \in Players, NEW k \in {1, 2},
                      phase = "running", PaysScore(p, k)
               PROVE  earned[p] = k * (PointsIn(data, data.clone) - start)
    BY DEF EarnedIsProgress
  <2>1. /\ ScoreSeen(data) /\ data.clone \in Memory
        /\ earned[p] = k * (data.clone[data.vars[Score]] - start)
    BY DEF RewardInv, RewardTold, ProgressTold
  <2> QED BY <2>1, ScoreAt
<1> QED BY <1>1, RewardInvariant, PTL
-----------------------------------------------------------------------------
(***************************************************************************)
(* Types: what the operations of Scenario and GameData give.               *)
(***************************************************************************)
\* A sum over finitely many numbers is one.
LEMMA TotalInt ==
  ASSUME NEW S, IsFiniteSet(S), NEW worth \in [S -> Int]
  PROVE  Total(worth) \in Int
<1> DEFINE pick(s) == CHOOSE x \in s : TRUE
           n == Cardinality(S)
           D == SUBSET S
           parts == [s \in D |-> IF s = {} THEN {} ELSE {s \ {pick(s)}}]
           depth == [s \in D |-> Cardinality(s)]
           sum(s, sums) == IF s = {} \/ sums = {} THEN 0
                           ELSE worth[pick(s)] + pick(sums)
           body == [s \in D |-> [sums \in SUBSET Int |-> sum(s, sums)]]
           Sums(iter) == iter = [s \in D |-> IF s = {} THEN 0
                                   ELSE worth[pick(s)] + iter[s \ {pick(s)}]]
           total == CHOOSE iter : Sums(iter)
<1>1. \A s \in D : s # {} => pick(s) \in s /\ s \ {pick(s)} \in D
                               /\ worth[pick(s)] \in Int
  OBVIOUS
<1>2. n \in Nat /\ \A s \in D : /\ IsFiniteSet(s)
                               /\ Cardinality(s) \in 0 .. n
  <2>1. n \in Nat
    BY FS_CardinalityType
  <2>2. ASSUME NEW s \in D PROVE IsFiniteSet(s) /\ Cardinality(s) \in 0 .. n
    <3>1. IsFiniteSet(s) /\ Cardinality(s) <= n
      BY FS_Subset
    <3>2. Cardinality(s) \in Nat
      BY <3>1, FS_CardinalityType
    <3> QED BY <2>1, <3>1, <3>2
  <2> QED BY <2>1, <2>2
<1>3. ASSUME NEW s \in D, s # {}
      PROVE  Cardinality(s \ {pick(s)}) < Cardinality(s)
  <2>1. pick(s) \in s /\ Cardinality(s) \in Nat /\ IsFiniteSet(s)
    BY <1>1, <1>2, <1>3
  <2> HIDE DEF pick
  <2>2. Cardinality(s \ {pick(s)}) = Cardinality(s) - 1
    BY <2>1, FS_RemoveElement
  <2> QED BY <2>1, <2>2
<1>4. NestedIn(D, parts, depth, n)
  <2> HIDE DEF pick, n
  <2>1. depth \in [D -> 0 .. n]
    BY <1>2
  <2>2. parts \in [D -> SUBSET D]
    BY <1>1
  <2>3. ASSUME NEW s \in D, NEW t \in parts[s] PROVE depth[t] < depth[s]
    <3>1. s # {} /\ t = s \ {pick(s)} /\ t \in D
      BY <1>1
    <3> QED BY <1>3, <3>1
  <2> HIDE DEF D, parts, depth
  <2> QED BY <2>1, <2>2, <2>3 DEF NestedIn
<1>5. body \in [D -> [SUBSET Int -> Int]]
  <2>1. ASSUME NEW s \in D, NEW sums \in SUBSET Int PROVE sum(s, sums) \in Int
    <3>1. sums # {} => pick(sums) \in Int
      OBVIOUS
    <3> HIDE DEF pick
    <3> QED BY <1>1, <3>1
  <2> HIDE DEF sum, D
  <2> QED BY <2>1
<1> HIDE DEF parts, depth, body, n, D
<1>6. PICK g : Climbs(D, parts, Int, body, g)
  BY <1>2, <1>4, <1>5, ClimbExists
<1>7. Sums(g)
  <2>1. g \in [D -> Int]
    BY <1>6 DEF Climbs
  <2>2. ASSUME NEW s \in D
        PROVE  g[s] = IF s = {} THEN 0 ELSE worth[pick(s)] + g[s \ {pick(s)}]
    <3> DEFINE below == {g[t] : t \in parts[s]}
    <3>1. g[s] = body[s][below]
      BY <1>6 DEF Climbs
    <3>2. below \in SUBSET Int
      <4>1. parts[s] \subseteq D
        BY <1>4 DEF NestedIn
      <4> QED BY <2>1, <4>1
    <3>3. body[s][below] = sum(s, below)
      <4> HIDE DEF below, sum
      <4> QED BY <3>2 DEF body
    <3>4. CASE s = {}
      BY <3>1, <3>3, <3>4
    <3>5. CASE s # {}
      <4>1. parts[s] = {s \ {pick(s)}}
        <5> HIDE DEF pick
        <5> QED BY <3>5 DEF parts
      <4>2. below = {g[s \ {pick(s)}]}
        <5> HIDE DEF pick
        <5> QED BY <4>1
      <4>3. pick(below) = g[s \ {pick(s)}] /\ below # {}
        BY <4>2
      <4> HIDE DEF pick, below
      <4> QED BY <3>1, <3>3, <3>5, <4>3
    <3> QED BY <3>4, <3>5
  <2> HIDE DEF pick
  <2> QED BY <2>1, <2>2
<1>8. Sums(total)
  <2> HIDE DEF Sums
  <2> QED BY <1>7
<1>9. Total(worth) = total[S]
  BY DEF Total, MapThenSumSet, MapThenFoldSet, D
<1> HIDE DEF total
<1>10. total \in [D -> Int]
  \* Every sum is the one of g: the equation has one solution.
  <2> DEFINE T == {s \in D : total[s] \in Int}
  <2>1. ASSUME NEW s \in D, parts[s] \subseteq T PROVE s \in T
    <3>1. total[s] = IF s = {} THEN 0 ELSE worth[pick(s)] + total[s \ {pick(s)}]
      <4> HIDE DEF pick
      <4> QED BY <1>8
    <3>2. s # {} => s \ {pick(s)} \in T
      <4> HIDE DEF pick, T
      <4> QED BY <2>1 DEF parts
    <3> HIDE DEF pick
    <3> QED BY <1>1, <3>1, <3>2 DEF D
  <2> HIDE DEF T
  <2>2. D \subseteq T
    BY <1>2, <1>4, <2>1, NestedInduction
  <2>3. total = [s \in D |-> total[s]]
    <3> HIDE DEF pick
    <3> QED BY <1>8
  <2> QED BY <2>2, <2>3 DEF T
<1> QED BY <1>9, <1>10 DEF D

LEMMA CalculateInt ==
  ASSUME NEW op \in Operations, NEW r \in Int, NEW v \in Int
  PROVE  Calculate(op, r, v) \in Int
<1>1. \A b \in BOOLEAN : Bit(b) \in {0, 1}
  BY DEF Bit
<1>2. Calculate(op, r, v) \in {v} \cup {0, 1} \cup {-1}
  BY DEF Calculate, Bit, Operations
<1> QED BY <1>2

LEMMA WeighInt ==
  ASSUME NEW m \in Int, NEW spec, spec.reward \in Int, spec.penalty \in Int
  PROVE  Weigh(m, spec) \in Int
<1>1. m * spec.reward \in Int /\ m * spec.penalty \in Int
  OBVIOUS
<1> QED BY <1>1 DEF Weigh

LEMMA TimeRewardInt ==
  ASSUME NEW time, time.op \in Operations,
         {time.reference, time.reward, time.penalty} \subseteq Int
  PROVE  TimeReward(time) \in Int
<1>1. Measure(time, 1, 1) = Calculate(time.op, time.reference, 1)
  BY DEF Measure
<1>2. Measure(time, 1, 1) \in Int
  BY <1>1, CalculateInt
<1> QED BY <1>2, WeighInt DEF TimeReward

\* Tables of names.
LEMMA TableOf ==
  ASSUME NEW S, NEW table \in Tables(S)
  PROVE /\ DOMAIN table \subseteq Names /\ table = [n \in DOMAIN table |-> table[n]]
        /\ \A n \in DOMAIN table : table[n] \in S
BY DEF Tables

LEMMA TableIs ==
  ASSUME NEW S, NEW N \in SUBSET Names, NEW table \in [N -> S]
  PROVE  table \in Tables(S)
BY DEF Tables

LEMMA WithIs ==
  ASSUME NEW S, NEW table \in Tables(S), NEW n \in Names, NEW x \in S
  PROVE  With(table, n, x) \in Tables(S)
<1> DEFINE N == DOMAIN table \cup {n}
<1>1. N \in SUBSET Names /\ With(table, n, x) \in [N -> S]
  BY TableOf DEF With
<1> QED BY <1>1, TableIs

LEMMA WithoutIs ==
  ASSUME NEW S, NEW table, DOMAIN table \subseteq Names, NEW gone,
         \A n \in DOMAIN table \ gone : table[n] \in S
  PROVE  Without(table, gone) \in Tables(S)
<1> DEFINE N == DOMAIN table \ gone
<1>1. N \in SUBSET Names /\ Without(table, gone) \in [N -> S]
  BY DEF Without
<1> QED BY <1>1, TableIs

LEMMA NoTableIs ==
  ASSUME NEW S PROVE NoTable \in Tables(S)
<1>1. NoTable \in [{} -> S]
  BY DEF NoTable
<1> QED BY <1>1, TableIs

\* GameData keeps its types: one member changes at a time.
LEMMA DataOf ==
  ASSUME NEW d \in GameDataState
  PROVE /\ Shaped(d) /\ d.vars \in Tables(Places) /\ d.customs \in Tables(Values)
        /\ d.clone \in Memory \cup {NoMem} /\ d.last \in Memory \cup {NoMem}
<1> DEFINE A == Tables(Places)
           B == Tables(Values)
           C == Memory \cup {NoMem}
<1> HIDE DEF A, B, C
<1>1. GameDataState = [vars : A, customs : B, clone : C, last : C]
  BY DEF GameDataState, A, B, C
<1>2. d.vars \in A /\ d.customs \in B /\ d.clone \in C /\ d.last \in C
      /\ DOMAIN d = {"vars", "customs", "clone", "last"}
  BY <1>1
<1> QED BY <1>2 DEF A, B, C, Shaped

LEMMA DataIs ==
  ASSUME NEW d \in GameDataState
  PROVE /\ \A x \in Tables(Places) : [d EXCEPT !.vars = x] \in GameDataState
        /\ \A x \in Tables(Values) : [d EXCEPT !.customs = x] \in GameDataState
        /\ \A x, y \in Memory \cup {NoMem} :
             [d EXCEPT !.last = x, !.clone = y] \in GameDataState
<1> DEFINE A == Tables(Places)
           B == Tables(Values)
           C == Memory \cup {NoMem}
<1> HIDE DEF A, B, C
<1>1. GameDataState = [vars : A, customs : B, clone : C, last : C]
  BY DEF GameDataState, A, B, C
<1>2. /\ \A x \in A : [d EXCEPT !.vars = x] \in GameDataState
      /\ \A x \in B : [d EXCEPT !.customs = x] \in GameDataState
      /\ \A x, y \in C : [d EXCEPT !.last = x, !.clone = y] \in GameDataState
  BY <1>1
<1> QED BY <1>2 DEF A, B, C

\* What a look-up may answer.
LEMMA LookedUp ==
  ASSUME NEW d \in GameDataState, NEW mem \in Memory, NEW n
  PROVE  LookupValue(d, mem, n) \subseteq Values /\ LookupDelta(d, n) \subseteq Int
<1>1. ASSUME NEW m \in Memory \cup {NoMem}, NEW place
      PROVE  At(m, place) \subseteq Values
  BY DEF At, Memory, NoMem
<1>2. \A x \in DOMAIN d.customs : d.customs[x] \in Values
  BY DataOf, TableOf
<1>3. LookupValue(d, mem, n) \subseteq Values
  BY <1>1, <1>2 DEF LookupValue
<1>4. d.clone \in Memory \cup {NoMem} /\ d.last \in Memory \cup {NoMem}
  BY DataOf
<1>5. /\ At(d.clone, d.vars[n]) \subseteq Int /\ At(d.last, d.vars[n]) \subseteq Int
  BY <1>1, <1>4, GameDataAssumption
<1>6. LookupDelta(d, n) \subseteq Int
  BY <1>5 DEF LookupDelta
<1> QED BY <1>3, <1>6

LEMMA MeasuresInt ==
  ASSUME NEW d \in GameDataState, NEW mem \in Memory, NEW spec,
         spec.op \in Operations, spec.reference \in Int
  PROVE  Measures(d, mem, spec) \subseteq Int
<1>1. LookupValue(d, mem, spec.name) \subseteq Int
      /\ LookupDelta(d, spec.name) \subseteq Int
  BY LookedUp, GameDataAssumption
<1>2. \A v, dv \in Int : Measure(spec, v, dv) \in Int
  BY CalculateInt DEF Measure
<1> QED BY <1>1, <1>2 DEF Measures

LEMMA VarRewardInt ==
  ASSUME NEW d \in GameDataState, NEW mem \in Memory, NEW specs, IsFiniteSet(specs),
         \A spec \in specs :
           spec.op \in Operations
           /\ {spec.reference, spec.reward, spec.penalty} \subseteq Int,
         Readable(d, mem, specs)
  PROVE  VarReward(d, mem, specs) \in Int
<1> DEFINE worth == [spec \in specs |->
                      Weigh(CHOOSE m \in Measures(d, mem, spec) : TRUE, spec)]
<1>1. ASSUME NEW spec \in specs
      PROVE  Weigh(CHOOSE m \in Measures(d, mem, spec) : TRUE, spec) \in Int
  <2>1. Measures(d, mem, spec) \subseteq Int /\ Measures(d, mem, spec) # {}
    BY MeasuresInt DEF Readable
  <2>2. (CHOOSE m \in Measures(d, mem, spec) : TRUE) \in Int
    BY <2>1
  <2> QED BY <2>2, WeighInt
<1>2. worth \in [specs -> Int]
  BY <1>1
<1> HIDE DEF worth
<1>3. Total(worth) \in Int
  BY <1>2, TotalInt
<1> QED BY <1>3 DEF worth, VarReward

\* A variable that is served to the scripts can be read.
LEMMA ServedReads ==
  ASSUME NEW d, ScriptsServed(d), file.lua # {}, NEW mem \in Memory,
         NEW n \in {Score, Lives, Position}
  PROVE  LookupValue(d, mem, n) # {}
BY DEF ScriptsServed, LookupValue, At, Memory

LEMMA ServedRead ==
  ASSUME NEW d \in GameDataState, ScriptsServed(d), file.lua # {},
         NEW mem \in Memory, NEW n \in {Score, Lives, Position}
  PROVE  Read(d, mem, n) \in Values
<1>1. LookupValue(d, mem, n) \subseteq Values /\ LookupValue(d, mem, n) # {}
  BY ServedReads, LookedUp
<1> QED BY <1>1 DEF Read

\* The names of Scenario's state.
LEMMA ScenarioOf ==
  ASSUME NEW s \in ScenarioState
  PROVE /\ s.reward \in [Players -> Int] /\ s.total \in [Players -> Int]
        /\ s.done \in BOOLEAN /\ s.frame \in 0 .. MaxFrames
<1> DEFINE A == [Players -> Int]
<1> HIDE DEF A
<1>1. ScenarioState = [reward : A, total : A, done : BOOLEAN, frame : 0 .. MaxFrames]
  BY DEF ScenarioState, A
<1>2. s.reward \in A /\ s.total \in A /\ s.done \in BOOLEAN /\ s.frame \in 0 .. MaxFrames
  BY <1>1
<1> QED BY <1>2 DEF A

LEMMA ScenarioIs ==
  ASSUME NEW s \in ScenarioState, NEW done \in BOOLEAN,
         NEW reward \in [Players -> Int], NEW total \in [Players -> Int],
         NEW frame \in 0 .. MaxFrames
  PROVE /\ [s EXCEPT !.done = done] \in ScenarioState
        /\ [s EXCEPT !.reward = reward, !.total = total, !.frame = frame]
             \in ScenarioState
<1> DEFINE A == [Players -> Int]
<1>0. reward \in A /\ total \in A
  OBVIOUS
<1> HIDE DEF A
<1>1. ScenarioState = [reward : A, total : A, done : BOOLEAN, frame : 0 .. MaxFrames]
  BY DEF ScenarioState, A
<1> QED BY <1>0, <1>1

\* The script of the done section writes a value it has read.
LEMMA XposDoneIs ==
  ASSUME NEW d \in GameDataState, ScriptsServed(d), file.lua # {},
         NEW mem \in Memory, NEW frame
  PROVE /\ XposDone(d, mem, frame).data \in GameDataState
        /\ XposDone(d, mem, frame).data.vars = d.vars
<1> DEFINE lives == Read(d, mem, Lives)
           table == With(d.customs, Prev, lives)
<1>1. lives \in Values
  BY ServedRead
<1>2. d.customs \in Tables(Values) /\ Prev \in Names /\ Shaped(d)
  BY DataOf, EpisodeAssumption
<1> HIDE DEF lives
<1>3. table \in Tables(Values)
  BY <1>1, <1>2, WithIs
<1>4. [d EXCEPT !.customs = With(@, Prev, lives)] = [d EXCEPT !.customs = table]
  OBVIOUS
<1> HIDE DEF table
<1>5. /\ [d EXCEPT !.customs = table] \in GameDataState
      /\ [d EXCEPT !.customs = table].vars = d.vars
  BY <1>2, <1>3, DataIs DEF Shaped
<1>6. CASE lives < d.customs[Prev]
  BY <1>6 DEF XposDone, lives
<1>7. CASE ~(lives < d.customs[Prev])
  <2>1. XposDone(d, mem, frame).data = [d EXCEPT !.customs = With(@, Prev, lives)]
    BY <1>7 DEF XposDone, lives
  <2> QED BY <1>4, <1>5, <2>1
<1> QED BY <1>6, <1>7

LEMMA DoneIs ==
  ASSUME NEW d \in GameDataState, ScriptsServed(d), NEW mem \in Memory,
         NEW l, NEW frame, NEW o \in DoneOutcomes(file, d, mem, l, frame)
  PROVE  o.data \in GameDataState /\ o.data.vars = d.vars
<1>1. CASE "done" \notin file.lua
  BY <1>1 DEF DoneOutcomes
<1>2. CASE "done" \in file.lua /\ l.loaded
  BY <1>2, XposDoneIs DEF DoneOutcomes
<1>3. CASE "done" \in file.lua /\ ~l.loaded
  BY <1>3 DEF DoneOutcomes
<1> QED BY <1>1, <1>2, <1>3

LEMMA RewardInt ==
  ASSUME file \in Files, NEW d \in GameDataState, ScriptsServed(d),
         NEW mem \in Memory, NEW l \in LuaState, NEW p \in Players,
         Payable(file, d, mem, l, p)
  PROVE  Reward(file, d, mem, l, p) \in Int
<1>1. ScenarioFile(file)
  BY EpisodeAssumption
<1>2. CASE Scripted(file, p)
  <2>1. Read(d, mem, Score) \in Int
    BY <1>2, ServedRead, GameDataAssumption DEF Scripted
  <2> QED BY <1>2, <2>1 DEF Reward, CorrectScore, LuaState
<1>3. CASE ~Scripted(file, p)
  <2>1. TimeReward(file.time[p]) \in Int
    <3>1. file.time[p].op \in Operations
          /\ {file.time[p].reference, file.time[p].reward, file.time[p].penalty}
               \subseteq Int
      BY <1>1 DEF ScenarioFile
    <3> QED BY <3>1, TimeRewardInt
  <2>2. VarReward(d, mem, file.rewards[p]) \in Int
    <3>1. IsFiniteSet(file.rewards[p])
          /\ \A spec \in file.rewards[p] :
               spec.op \in Operations
               /\ {spec.reference, spec.reward, spec.penalty} \subseteq Int
      BY <1>1 DEF ScenarioFile
    <3>2. Readable(d, mem, file.rewards[p])
      BY <1>3 DEF Payable
    <3> QED BY <3>1, <3>2, VarRewardInt
  <2> QED BY <1>3, <2>1, <2>2 DEF Reward
<1> QED BY <1>2, <1>3

LEMMA PayPlayersIs ==
  ASSUME file \in Files, NEW s \in ScenarioState, s.frame < MaxFrames,
         NEW d \in GameDataState, ScriptsServed(d),
         NEW mem \in Memory, NEW l \in LuaState,
         NEW after, after = PayPlayers(file, s, d, mem, l)
  PROVE  after.scen \in ScenarioState /\ after.lua \in LuaState
<1> DEFINE paid == {p \in Players : \A q \in 1 .. p : Payable(file, d, mem, l, q)}
           reward == [p \in Players |->
                       IF p \in paid THEN Reward(file, d, mem, l, p) ELSE s.reward[p]]
           total == [p \in Players |->
                      IF p \in paid THEN s.total[p] + Reward(file, d, mem, l, p)
                      ELSE s.total[p]]
           frame == IF paid = Players THEN s.frame + 1 ELSE s.frame
           previous == l.previous + CorrectScore(d, mem, l)
<1>1. /\ after.scen = [s EXCEPT !.reward = reward, !.total = total, !.frame = frame]
      /\ after.lua = IF "reward" \in file.lua /\ 1 \in paid
                     THEN [l EXCEPT !.previous = previous] ELSE l
  BY DEF PayPlayers, ScenarioState, LuaState
<1>2. ASSUME NEW p \in paid PROVE Reward(file, d, mem, l, p) \in Int
  <2>1. p \in Players /\ p \in 1 .. p
    BY DEF Players
  <2>2. Payable(file, d, mem, l, p)
    BY <2>1
  <2> QED BY <2>1, <2>2, RewardInt
<1>3. s.reward \in [Players -> Int] /\ s.total \in [Players -> Int]
      /\ s.frame \in 0 .. MaxFrames
  BY ScenarioOf
<1> HIDE DEF paid
<1>4. reward \in [Players -> Int]
  BY <1>2, <1>3
<1>5. total \in [Players -> Int]
  BY <1>2, <1>3
<1>6. frame \in 0 .. MaxFrames
  BY <1>3, EpisodeAssumption
<1>7. "reward" \in file.lua => previous \in Int
  <2> SUFFICES ASSUME "reward" \in file.lua PROVE previous \in Int
    OBVIOUS
  <2>1. Read(d, mem, Score) \in Int
    BY ServedRead, GameDataAssumption
  <2> QED BY <2>1 DEF CorrectScore, LuaState
<1> HIDE DEF reward, total, frame, previous
<1>8. [s EXCEPT !.reward = reward, !.total = total, !.frame = frame]
        \in ScenarioState
  BY <1>4, <1>5, <1>6, ScenarioIs
<1> QED BY <1>1, <1>7, <1>8 DEF LuaState

\* One report: the types stay, and the variables are the same.
LEMMA ReportIs ==
  ASSUME file \in Files, NEW s \in ScenarioState, s.frame < MaxFrames,
         NEW d \in GameDataState, ScriptsServed(d),
         NEW mem \in Memory, NEW l \in LuaState,
         NEW after \in DataUpdateRam(s, d, l, mem)
  PROVE  /\ after.scen \in ScenarioState /\ after.lua \in LuaState
         /\ after.data \in GameDataState /\ after.data.vars = d.vars
<1> DEFINE e == UpdateRam(d, mem)
<1>1. e \in GameDataState /\ e.vars = d.vars
  <2>1. d.clone \in Memory \cup {NoMem} /\ mem \in Memory \cup {NoMem} /\ Shaped(d)
    BY DataOf
  <2>2. [d EXCEPT !.last = d.clone, !.clone = mem] \in GameDataState
    BY <2>1, DataIs
  <2> QED BY <2>1, <2>2 DEF UpdateRam, Shaped
<1>2. after \in Update(file, s, e, mem, l)
  BY DEF DataUpdateRam
<1> HIDE DEF e
<1>3. ScriptsServed(e)
  BY <1>1 DEF ScriptsServed
<1>4. PICK o \in DoneOutcomes(file, e, mem, l, s.frame) :
        after = IF o.out = "throws"
                THEN [scen |-> s, data |-> e, lua |-> l, ok |-> FALSE]
                ELSE PayPlayers(file, [s EXCEPT !.done = (o.out = "yes")],
                                o.data, mem, l)
  BY <1>2 DEF Update
<1>5. o.data \in GameDataState /\ o.data.vars = e.vars
  BY <1>1, <1>3, DoneIs
<1>6. CASE o.out = "throws"
  BY <1>1, <1>4, <1>6
<1>7. CASE o.out # "throws"
  <2> DEFINE t == [s EXCEPT !.done = (o.out = "yes")]
             u == o.data
  <2>1. t \in ScenarioState /\ t.frame < MaxFrames
    <3>1. t \in ScenarioState
      BY ScenarioOf, ScenarioIs
    <3>2. t.frame = s.frame
      BY DEF ScenarioState
    <3> QED BY <3>1, <3>2
  <2>2. after = PayPlayers(file, t, u, mem, l)
    BY <1>4, <1>7
  <2>3. ScriptsServed(u)
    BY <1>3, <1>5 DEF ScriptsServed
  <2>4. after.data = u
    BY <2>2 DEF PayPlayers
  <2>5. u \in GameDataState
    BY <1>5
  <2> HIDE DEF t, u
  <2>6. after.scen \in ScenarioState /\ after.lua \in LuaState
    BY <2>1, <2>2, <2>3, <2>5, PayPlayersIs
  <2> QED BY <1>1, <1>5, <2>4, <2>6 DEF u
<1> QED BY <1>6, <1>7

LEMMA NewDataIs == NewData \in GameDataState
<1> DEFINE A == Tables(Places)
           B == Tables(Values)
           C == Memory \cup {NoMem}
<1>1. NoTable \in A /\ NoTable \in B /\ NoMem \in C
  BY NoTableIs
<1> HIDE DEF A, B, C
<1>2. GameDataState = [vars : A, customs : B, clone : C, last : C]
  BY DEF GameDataState, A, B, C
<1> QED BY <1>1, <1>2 DEF NewData

LEMMA LoadVarsIs ==
  ASSUME NEW d \in GameDataState, NEW table \in InfoFiles
  PROVE  LoadVars(d, table) \in GameDataState
<1> DEFINE bad == {n \in DOMAIN table : table[n] = "bad"}
           left == Without(table, bad)
<1>1. CASE Loads(table)
  <2>1. DOMAIN table \subseteq Names
        /\ \A n \in DOMAIN table \ bad : table[n] \in Places
    BY <1>1, EpisodeAssumption DEF Loads
  <2> HIDE DEF bad
  <2>2. left \in Tables(Places)
    BY <2>1, WithoutIs
  <2> HIDE DEF left
  <2>3. [d EXCEPT !.vars = left] \in GameDataState
    BY <2>2, DataIs
  <2> QED BY <1>1, <2>3 DEF LoadVars, left, bad
<1>2. CASE ~Loads(table)
  BY <1>2 DEF LoadVars
<1> QED BY <1>1, <1>2

LEMMA ReloadScriptsIs ==
  ASSUME file \in Files, NEW d \in GameDataState
  PROVE /\ ReloadScripts(file, d).data \in GameDataState
        /\ ReloadScripts(file, d).lua \in LuaState
<1> DEFINE table == With(d.customs, Prev, file.base)
<1>1. d.customs \in Tables(Values) /\ file.base \in Values /\ Prev \in Names
  BY DataOf, EpisodeAssumption DEF ScenarioFile
<1>2. table \in Tables(Values)
  BY <1>1, WithIs
<1>3. [d EXCEPT !.customs = With(@, Prev, file.base)] = [d EXCEPT !.customs = table]
  OBVIOUS
<1> HIDE DEF table
<1>4. [d EXCEPT !.customs = table] \in GameDataState
  BY <1>2, DataIs
<1>5. Blank \in LuaState /\ Fresh \in LuaState
  BY DEF Blank, Fresh, LuaState
<1> QED BY <1>3, <1>4, <1>5 DEF ReloadScripts

LEMMA DataResetIs ==
  ASSUME file \in Files, data \in GameDataState
  PROVE /\ DataReset.data \in GameDataState /\ DataReset.lua \in LuaState
        /\ DataReset.data.vars = data.vars
<1>1. Restart(data) \in GameDataState
  BY NoTableIs, DataIs DEF Restart
<1>2. Shaped(data) /\ Shaped(Restart(data))
  BY <1>1, DataOf
<1>3. Keeps(Restart(data), DataReset.data)
  BY <1>2, ReloadScriptsKeeps DEF DataReset
<1>4. Restart(data).vars = data.vars
  BY <1>2 DEF Restart, Shaped
<1> QED BY <1>1, <1>3, <1>4, ReloadScriptsIs DEF DataReset, Keeps

LEMMA PointsInt ==
  ASSUME NEW d \in GameDataState, NEW mem \in Memory
  PROVE  PointsIn(d, mem) \in Int
<1>1. LookupValue(d, mem, Score) \subseteq Int
  BY LookedUp, GameDataAssumption
<1> QED BY <1>1 DEF PointsIn, Read

LEMMA ZeroScenarioIs ==
  ZeroScenario \in ScenarioState /\ ZeroScenario.frame < MaxFrames
<1> DEFINE A == [Players -> Int]
           zero == [p \in Players |-> 0]
<1>1. zero \in A /\ 0 \in 0 .. MaxFrames /\ 0 < MaxFrames
  BY EpisodeAssumption
<1>2. ZeroScenario = [reward |-> zero, total |-> zero, done |-> FALSE, frame |-> 0]
  BY DEF ZeroScenario, RestartScenario
<1> HIDE DEF A, zero
<1>3. ScenarioState = [reward : A, total : A, done : BOOLEAN, frame : 0 .. MaxFrames]
  BY DEF ScenarioState, A
<1> QED BY <1>1, <1>2, <1>3
-----------------------------------------------------------------------------
TypeInv == TypeOK /\ ScriptsServed(data)

LEMMA TypeInit == Init => TypeInv
<1> SUFFICES ASSUME Init PROVE TypeInv
  OBVIOUS
<1>1. PICK table \in InfoFiles :
        /\ data = ReloadScripts(file, LoadVars(NewData, table)).data
        /\ ScriptsServed(data)
        /\ lua = ReloadScripts(file, LoadVars(NewData, table)).lua
  BY DEF Init
<1>2. file \in Files /\ ram \in Memory
  BY DEF Init
<1>3. data \in GameDataState /\ lua \in LuaState
  BY <1>1, <1>2, NewDataIs, LoadVarsIs, ReloadScriptsIs
<1>4. scen \in ScenarioState
  BY ZeroScenarioIs DEF Init
<1>5. earned \in [Players -> Int]
  BY DEF Init
<1>6. /\ began \in BOOLEAN /\ start \in Int /\ peak \in Int
      /\ ret.kind = "none" /\ phase = "none"
  <2>1. began = FALSE /\ start = 0 /\ peak = 0 /\ phase = "none"
        /\ ret = [kind |-> "none"]
    BY DEF Init
  <2>2. [kind |-> "none"].kind = "none"
    OBVIOUS
  <2>3. 0 \in Int /\ FALSE \in BOOLEAN
    OBVIOUS
  <2> QED BY <2>1, <2>2, <2>3
<1> QED BY <1>1, <1>2, <1>3, <1>4, <1>5, <1>6 DEF TypeInv, TypeOK

LEMMA ResetIs ==
  ASSUME TypeInv, Reset
  PROVE  TypeInv'
<1>1. PICK now, after :
        /\ now \in Memory
        /\ after \in DataUpdateRam(ZeroScenario, DataReset.data, DataReset.lua, now)
        /\ ram' = now /\ data' = after.data /\ scen' = after.scen /\ lua' = after.lua
        /\ began' = (began \/ after.ok)
        /\ ret' = IF after.ok THEN Observation ELSE Error
        /\ phase' = IF after.ok THEN "running" ELSE "broken"
        /\ start' = PointsIn(data', now)
        /\ earned' = [p \in Players |-> 0]
        /\ peak' = IF "reward" \in file.lua THEN start' ELSE 0
  BY DEF Reset
<1>2. /\ file' = file /\ file \in Files /\ data \in GameDataState
      /\ ScriptsServed(data)
  BY DEF Reset, TypeInv, TypeOK
<1>3. ScriptsServed(DataReset.data)
  BY <1>2, DataResetIs DEF ScriptsServed
<1>4. /\ scen' \in ScenarioState /\ lua' \in LuaState
      /\ data' \in GameDataState /\ data'.vars = data.vars
  BY <1>1, <1>2, <1>3, ReportIs, DataResetIs, ZeroScenarioIs
<1>5. start' \in Int /\ peak' \in Int
  BY <1>1, <1>4, PointsInt
<1>6. earned' \in [Players -> Int]
  BY <1>1
<1>7. ret'.kind \in {"observation", "error"} /\ phase' \in {"running", "broken"}
  BY <1>1 DEF Observation, Error
<1>8. ScriptsServed(data)'
  BY <1>2, <1>4 DEF ScriptsServed
<1>9. began' \in BOOLEAN /\ ram' \in Memory
  BY <1>1
<1> QED BY <1>2, <1>4, <1>5, <1>6, <1>7, <1>8, <1>9 DEF TypeInv, TypeOK

LEMMA StepIs ==
  ASSUME TypeInv, Step
  PROVE  TypeInv'
<1>1. PICK now, after :
        /\ now \in Memory /\ after \in DataUpdateRam(scen, data, lua, now)
        /\ ram' = now /\ data' = after.data /\ scen' = after.scen /\ lua' = after.lua
        /\ ret' = IF after.ok THEN Returned(scen', data', now) ELSE Error
        /\ phase' = IF after.ok THEN phase ELSE "broken"
        /\ earned' = IF after.ok
                     THEN [p \in Players |-> earned[p] + scen'.reward[p]]
                     ELSE earned
        /\ peak' = IF "reward" \in file.lua
                   THEN Max({peak, PointsIn(data', now)}) ELSE 0
  BY DEF Step
<1>2. /\ UNCHANGED <<file, began, start>> /\ scen.frame < MaxFrames
  BY DEF Step
<1>3. /\ file \in Files /\ data \in GameDataState /\ scen \in ScenarioState
      /\ lua \in LuaState /\ ScriptsServed(data) /\ began \in BOOLEAN
      /\ phase \in {"none", "running", "moved", "broken"}
      /\ start \in Int /\ peak \in Int
  BY DEF TypeInv, TypeOK
<1>4. /\ scen' \in ScenarioState /\ lua' \in LuaState
      /\ data' \in GameDataState /\ data'.vars = data.vars
  BY <1>1, <1>2, <1>3, ReportIs
<1>5. peak' \in Int
  <2>1. PointsIn(data', now) \in Int
    BY <1>1, <1>4, PointsInt
  <2>2. Max({peak, PointsIn(data', now)}) \in Int
    <3> DEFINE points == PointsIn(data', now)
    <3> HIDE DEF points
    <3>1. points \in Int
      BY <2>1 DEF points
    <3>2. Max({peak, points}) \in Int
      BY <1>3, <3>1, MaxOfTwo
    <3> QED BY <3>2 DEF points
  <2> QED BY <1>1, <2>2
<1>6. earned' \in [Players -> Int]
  <2>1. scen'.reward \in [Players -> Int]
    BY <1>4, ScenarioOf
  <2>2. earned \in [Players -> Int]
    BY DEF TypeInv, TypeOK
  <2> QED BY <1>1, <2>1, <2>2
<1>7. ret'.kind \in {"step", "error"}
      /\ phase' \in {"none", "running", "moved", "broken"}
  BY <1>1, <1>3 DEF Returned, Error
<1>8. ScriptsServed(data)'
  BY <1>2, <1>3, <1>4 DEF ScriptsServed
<1> QED BY <1>1, <1>2, <1>3, <1>4, <1>5, <1>6, <1>7, <1>8 DEF TypeInv, TypeOK

LEMMA SetAValueIs ==
  ASSUME TypeInv, SetAValue
  PROVE /\ TypeInv' /\ data'.vars = data.vars
        /\ Prev \in DOMAIN data.customs => /\ Prev \in DOMAIN data'.customs
                                           /\ data'.customs[Prev] = data.customs[Prev]
        /\ data'.clone = data.clone
<1>1. PICK n \in Written, v \in Values :
        /\ Writable(data, ram, n)
        /\ data' = SetValue(data, ram, n, v).data
        /\ ram' = SetValue(data, ram, n, v).ram
  BY DEF SetAValue
<1>2. UNCHANGED <<file, scen, lua, began, ret, phase, start, earned, peak>>
  BY DEF SetAValue
<1>3. n \in Names /\ n # Prev /\ data \in GameDataState /\ ram \in Memory
  BY EpisodeAssumption DEF TypeInv, TypeOK
<1>4. Shaped(data) /\ data.customs \in Tables(Values)
  BY <1>3, DataOf
<1>5. /\ data' \in GameDataState /\ ram' \in Memory /\ data'.vars = data.vars
      /\ data'.clone = data.clone
      /\ Prev \in DOMAIN data.customs => /\ Prev \in DOMAIN data'.customs
                                         /\ data'.customs[Prev] = data.customs[Prev]
  <2>1. CASE InMemory(data, n)
    <3> DEFINE a == data.vars[n]
    <3>1. data' = data /\ ram' = [ram EXCEPT ![a] = v]
      BY <1>1, <2>1 DEF SetValue
    <3>2. a \in Addresses
      BY <1>1, <1>3, <2>1 DEF Writable, Memory
    <3>3. ram' \in Memory
      <4> HIDE DEF a
      <4> QED BY <1>3, <3>1, <3>2 DEF Memory
    <3> QED BY <1>3, <3>1, <3>3
  <2>2. CASE ~InMemory(data, n)
    <3> DEFINE table == With(data.customs, n, v)
    <3>1. data' = [data EXCEPT !.customs = table] /\ ram' = ram
      BY <1>1, <2>2 DEF SetValue
    <3>2. table \in Tables(Values)
      BY <1>3, <1>4, WithIs
    <3>3. Prev \in DOMAIN data.customs => /\ Prev \in DOMAIN table
                                         /\ table[Prev] = data.customs[Prev]
      BY <1>3 DEF With
    <3> HIDE DEF table
    <3>4. [data EXCEPT !.customs = table] \in GameDataState
      BY <1>3, <3>2, DataIs
    <3> QED BY <1>3, <1>4, <3>1, <3>3, <3>4 DEF Shaped
  <2> QED BY <2>1, <2>2
<1>6. ScriptsServed(data)'
  BY <1>2, <1>5 DEF TypeInv, ScriptsServed
<1> QED BY <1>2, <1>5, <1>6 DEF TypeInv, TypeOK

LEMMA ChangeIs ==
  ASSUME TypeInv, SetAVariable \/ RemoveAVariable \/ LoadInfo
  PROVE  TypeInv'
<1>1. data \in GameDataState /\ data.vars \in Tables(Places)
  BY DataOf DEF TypeInv, TypeOK
<1>2. data' \in GameDataState
  <2>1. CASE SetAVariable
    <3>1. PICK n \in Edited, place \in Places : data' = SetVariable(data, n, place)
      BY <2>1 DEF SetAVariable
    <3> DEFINE table == With(data.vars, n, place)
    <3>2. n \in Names
      BY EpisodeAssumption
    <3>3. table \in Tables(Places)
      BY <1>1, <3>2, WithIs
    <3>4. data' = [data EXCEPT !.vars = table]
      BY <3>1 DEF SetVariable
    <3> HIDE DEF table
    <3> QED BY <1>1, <3>3, <3>4, DataIs
  <2>2. CASE RemoveAVariable
    <3>1. PICK n \in Edited : data' = RemoveVariable(data, n)
      BY <2>2 DEF RemoveAVariable
    <3> DEFINE table == Without(data.vars, {n})
    <3>2. table \in Tables(Places)
      BY <1>1, TableOf, WithoutIs
    <3>3. data' = [data EXCEPT !.vars = table]
      BY <3>1 DEF RemoveVariable
    <3> HIDE DEF table
    <3> QED BY <1>1, <3>2, <3>3, DataIs
  <2>3. CASE LoadInfo
    BY <1>1, <2>3, LoadVarsIs DEF LoadInfo
  <2> QED BY <2>1, <2>2, <2>3
<1>3. lua' \in LuaState
  <2>1. lua' \in {lua, Blank}
    BY DEF SetAVariable, RemoveAVariable, LoadInfo
  <2>2. lua \in LuaState /\ Blank \in LuaState
    BY DEF TypeInv, TypeOK, Blank, LuaState
  <2> QED BY <2>1, <2>2
<1>4. Moved
  BY DEF SetAVariable, RemoveAVariable, LoadInfo
<1>5. /\ UNCHANGED <<file, ram, scen, began, ret, start, earned, peak>>
      /\ ScriptsServed(data') /\ phase' \in {"moved", phase}
  BY <1>4 DEF Moved
<1>6. ScriptsServed(data)'
  BY <1>5 DEF ScriptsServed
<1> QED BY <1>2, <1>3, <1>5, <1>6 DEF TypeInv, TypeOK

LEMMA TypeStep == TypeInv /\ [Next]_vars => TypeInv'
<1> SUFFICES ASSUME TypeInv, [Next]_vars PROVE TypeInv'
  OBVIOUS
<1>1. CASE ResetFails
  <2>1. /\ ram' \in Memory /\ ret'.kind = "error" /\ phase' = "broken"
        /\ UNCHANGED <<file, data, scen, lua, began, start, earned, peak>>
    BY <1>1 DEF ResetFails, Error
  <2> QED BY <2>1 DEF TypeInv, TypeOK, ScriptsServed
<1>2. CASE UNCHANGED vars
  BY <1>2 DEF vars, TypeInv, TypeOK, ScriptsServed
<1> QED BY <1>1, <1>2, ResetIs, StepIs, SetAValueIs, ChangeIs DEF Next

\* In every state the data names places the loader or the client gave it, the
\* memories are those of the console, rewards are numbers, and no more frames
\* are counted than were reported (GameData, Scenario, RetroEnv).
THEOREM EpisodeTypes == Spec => []TypeOK
<1>1. TypeInv => TypeOK
  BY DEF TypeInv
<1> QED BY <1>1, TypeInit, TypeStep, PTL DEF Spec
-----------------------------------------------------------------------------
(***************************************************************************)
(* The promise of the docs.  Its operators speak of the same names, places *)
(* and values, through the instance.                                       *)
(***************************************************************************)
LEMMA SamePlaces ==
  /\ Promise!Places = Places /\ Promise!Memory = Memory /\ Promise!NoMem = NoMem
  /\ Promise!Players = Players
  /\ \A S : Promise!Tables(S) = Tables(S)
BY DEF Promise!Places, Places, Promise!Memory, Memory, Promise!NoMem, NoMem,
       Promise!Players, Players, Promise!Tables, Tables

LEMMA SameLookups ==
  ASSUME NEW d, NEW mem, NEW n
  PROVE  Promise!LookupValue(d, mem, n) = LookupValue(d, mem, n)
         /\ Promise!LookupAll(d, mem) = LookupAll(d, mem)
BY DEF Promise!LookupValue, LookupValue, Promise!At, At, Promise!LookupAll, LookupAll

LEMMA SameCalculate ==
  ASSUME NEW op, NEW r, NEW v
  PROVE  Promise!Calculate(op, r, v) = Calculate(op, r, v)
BY DEF Promise!Calculate, Calculate, Promise!Bit, Bit

LEMMA SameMeasure ==
  ASSUME NEW spec, NEW v, NEW dv
  PROVE  Promise!Measure(spec, v, dv) = Measure(spec, v, dv)
BY SameCalculate DEF Promise!Measure, Measure

LEMMA SameWeigh ==
  ASSUME NEW m, NEW spec
  PROVE  Promise!Weigh(m, spec) = Weigh(m, spec)
BY DEF Promise!Weigh, Weigh

LEMMA SameTotal ==
  ASSUME NEW worth
  PROVE  Promise!Total(worth) = Total(worth)
BY DEF Promise!Total, Total, Promise!MapThenSumSet, MapThenSumSet,
       Promise!MapThenFoldSet, MapThenFoldSet

\* A plain time is worth its reward.
LEMMA TimePromised ==
  ASSUME PlainTimes, file \in Files, NEW p \in Players
  PROVE  TimeReward(file.time[p]) = Promise!TimeWorth(file.time[p])
<1> DEFINE time == file.time[p]
<1>1. time.op = "none" /\ time.penalty = 0
  BY DEF PlainTimes
<1>2. time.reward \in Int
  BY EpisodeAssumption DEF ScenarioFile
<1> HIDE DEF time
<1>3. Measure(time, 1, 1) = 1
  BY <1>1 DEF Measure, Calculate
<1>4. TimeReward(time) = time.reward
  BY <1>2, <1>3 DEF TimeReward, Weigh
<1>5. Promise!TimeWorth(time) = time.reward
  BY <1>1, <1>2 DEF Promise!TimeWorth
<1> QED BY <1>4, <1>5 DEF time
-----------------------------------------------------------------------------
(***************************************************************************)
(* A report sees its memory and the one before.                            *)
(***************************************************************************)
Sees(d, now, before) ==
  /\ now \in Memory /\ before \in Memory
  /\ d.clone = now /\ d.last = before

Legible(d, now, n) ==
  /\ LookupValue(d, now, n) # {}
  /\ n \in DOMAIN d.vars => d.vars[n] \in DOMAIN now

\* lookupDelta answers the difference between the two memories.
LEMMA DeltaSeen ==
  ASSUME NEW d, NEW now, NEW before, Sees(d, now, before), NEW n
  PROVE  LookupDelta(d, n) = IF n \in DOMAIN d.vars /\ d.vars[n] \notin DOMAIN now
                             THEN {} ELSE {Promise!TheDelta(d, now, before, n)}
<1>1. DOMAIN now = Addresses /\ DOMAIN before = Addresses
  BY DEF Sees, Memory
<1>2. CASE n \notin DOMAIN d.vars
  BY <1>2 DEF LookupDelta, Promise!TheDelta
<1>3. CASE n \in DOMAIN d.vars /\ d.vars[n] \notin DOMAIN now
  BY <1>1, <1>3 DEF LookupDelta, Sees, At
<1>4. CASE n \in DOMAIN d.vars /\ d.vars[n] \in DOMAIN now
  <2> DEFINE place == d.vars[n]
  <2>1. Ok(before)
    BY <1>1, <1>4 DEF Ok, NoMem
  <2>2. At(d.clone, place) = {now[place]} /\ At(d.last, place) = {before[place]}
    BY <1>1, <1>4 DEF At, Sees
  <2>3. LookupDelta(d, n) = {now[place] - before[place]}
    BY <1>4, <2>1, <2>2 DEF LookupDelta, Sees
  <2>4. Promise!TheDelta(d, now, before, n) = now[place] - before[place]
    BY <1>4 DEF Promise!TheDelta
  <2> QED BY <1>4, <2>3, <2>4
<1> QED BY <1>2, <1>3, <1>4

\* lookupValue answers one value, or throws.
LEMMA ValueSeen ==
  ASSUME NEW d, NEW now, NEW n, LookupValue(d, now, n) # {}
  PROVE  LookupValue(d, now, n) = {Promise!TheValue(d, now, n)}
         /\ Read(d, now, n) = Promise!TheValue(d, now, n)
<1>1. PICK v : LookupValue(d, now, n) = {v}
  BY DEF LookupValue, At
<1>2. Promise!LookupValue(d, now, n) = {v}
  BY <1>1, SameLookups
<1>3. (CHOOSE x \in {v} : TRUE) = v
  OBVIOUS
<1>4. Promise!TheValue(d, now, n) = v
  BY <1>2, <1>3 DEF Promise!TheValue
<1>5. Read(d, now, n) = v
  BY <1>1, <1>3 DEF Read
<1> QED BY <1>1, <1>4, <1>5

\* What a spec measures is the promised worth, unless it throws.
LEMMA MeasuresSeen ==
  ASSUME NEW d, NEW now, NEW before, Sees(d, now, before), NEW spec
  PROVE  Measures(d, now, spec) = IF Legible(d, now, spec.name)
                                  THEN {Promise!Worth(d, now, before, spec)} ELSE {}
<1> DEFINE n == spec.name
           delta == Promise!TheDelta(d, now, before, n)
           value == Promise!TheValue(d, now, n)
<1>1. Promise!Worth(d, now, before, spec) = Measure(spec, value, delta)
  BY SameMeasure DEF Promise!Worth
<1>2. Measures(d, now, spec)
        = {Measure(spec, v, dv) : v \in LookupValue(d, now, n),
                                  dv \in LookupDelta(d, n)}
  BY DEF Measures
<1>3. LookupDelta(d, n) = IF n \in DOMAIN d.vars /\ d.vars[n] \notin DOMAIN now
                          THEN {} ELSE {delta}
  BY DeltaSeen
<1>4. LookupValue(d, now, n) # {} => LookupValue(d, now, n) = {value}
  BY ValueSeen
<1> HIDE DEF n, delta, value
<1>5. CASE Legible(d, now, n)
  <2>1. LookupDelta(d, n) = {delta} /\ LookupValue(d, now, n) = {value}
    BY <1>3, <1>4, <1>5 DEF Legible
  <2>2. Measures(d, now, spec) = {Measure(spec, value, delta)}
    BY <1>2, <2>1
  <2> QED BY <1>1, <1>5, <2>2 DEF n
<1>6. CASE ~Legible(d, now, n)
  <2>1. LookupDelta(d, n) = {} \/ LookupValue(d, now, n) = {}
    BY <1>3, <1>6 DEF Legible
  <2>2. Measures(d, now, spec) = {}
    BY <1>2, <2>1
  <2> QED BY <1>6, <2>2 DEF n
<1> QED BY <1>5, <1>6

\* The promise sees the tables of GameData only.
SameTables(d, e) == e.vars = d.vars /\ e.customs = d.customs

LEMMA SameWorth ==
  ASSUME NEW d, NEW e, SameTables(d, e), NEW now, NEW before, NEW spec
  PROVE /\ Promise!Worth(e, now, before, spec) = Promise!Worth(d, now, before, spec)
        /\ Legible(e, now, spec.name) <=> Legible(d, now, spec.name)
<1>1. \A n : LookupValue(e, now, n) = LookupValue(d, now, n)
  BY DEF SameTables, LookupValue
<1>2. \A n : Promise!LookupValue(e, now, n) = Promise!LookupValue(d, now, n)
  BY <1>1, SameLookups
<1>3. \A n : Promise!TheValue(e, now, n) = Promise!TheValue(d, now, n)
  BY <1>2 DEF Promise!TheValue
<1>4. \A n : Promise!TheDelta(e, now, before, n) = Promise!TheDelta(d, now, before, n)
  BY DEF SameTables, Promise!TheDelta
<1>5. Promise!Worth(e, now, before, spec) = Promise!Worth(d, now, before, spec)
  BY <1>3, <1>4 DEF Promise!Worth
<1> QED BY <1>1, <1>5 DEF SameTables, Legible

\* The variables of a player are worth what is promised.
LEMMA VarWorthSeen ==
  ASSUME NEW d, NEW now, NEW before, Sees(d, now, before), NEW specs,
         Readable(d, now, specs), NEW e, SameTables(d, e)
  PROVE  VarReward(d, now, specs) = Promise!VarWorth(e, now, before, specs)
<1>1. ASSUME NEW spec \in specs
      PROVE  Weigh(CHOOSE m \in Measures(d, now, spec) : TRUE, spec)
               = Promise!Weigh(Promise!Worth(e, now, before, spec), spec)
  <2> DEFINE w == Promise!Worth(e, now, before, spec)
  <2>1. Measures(d, now, spec) = {w}
    BY MeasuresSeen, SameWorth DEF Readable
  <2> HIDE DEF w
  <2>2. (CHOOSE m \in Measures(d, now, spec) : TRUE) = w
    BY <2>1
  <2> QED BY <2>2, SameWeigh DEF w
<1>2. [spec \in specs |-> Weigh(CHOOSE m \in Measures(d, now, spec) : TRUE, spec)]
        = [spec \in specs |->
            Promise!Weigh(Promise!Worth(e, now, before, spec), spec)]
  BY <1>1
<1> QED BY <1>2, SameTotal DEF VarReward, Promise!VarWorth
-----------------------------------------------------------------------------
(***************************************************************************)
(* The done nodes: the visit in any order agrees with "any" and "all".     *)
(***************************************************************************)
Outs == {"yes", "no", "throws"}

\* What g says of the nodes of N.
Given(g, N) == {g[j] : j \in N}

\* The outcomes of a node, from those of its sub-nodes.
Visit(node, d, now, subs) ==
  Stops({TestOutcome(d, now, t) : t \in node.tests}, NodeEnding(node)) \cup
  IF ~Passes({TestOutcome(d, now, t) : t \in node.tests}, NodeEnding(node)) THEN {}
  ELSE Stops(subs, NodeEnding(node)) \cup
       IF Passes(subs, NodeEnding(node))
       THEN {IF node.all THEN "yes" ELSE "no"} ELSE {}

LEMMA VisitIs ==
  ASSUME NEW node, NEW d, NEW now, NEW subs \in SUBSET SUBSET Outs
  PROVE  Visit(node, d, now, subs) \in SUBSET Outs
<1>1. NodeEnding(node) \subseteq Outs
  BY DEF NodeEnding, Outs
<1>2. \A os : Stops(os, NodeEnding(node)) \subseteq Outs
  BY <1>1 DEF Stops
<1> QED BY <1>2 DEF Visit, Outs

\* The names of a file and how deep they are nested.
Subs(f) == [i \in DOMAIN f.nodes |-> f.nodes[i].nodes]

LEMMA NodesNest ==
  ASSUME NEW f, Nested(f.nodes)
  PROVE  \E n \in Nat : \E depth : NestedIn(DOMAIN f.nodes, Subs(f), depth, n)
<1> DEFINE D == DOMAIN f.nodes
           n == Cardinality(D)
<1>1. n \in Nat
  BY FS_CardinalityType DEF Nested
<1>2. PICK depth \in [D -> 0 .. n] :
        \A i \in D : \A j \in f.nodes[i].nodes : j \in D /\ depth[j] < depth[i]
  BY DEF Nested
<1>3. Subs(f) \in [D -> SUBSET D]
  BY <1>2 DEF Subs
<1>4. \A i \in D : Subs(f)[i] = f.nodes[i].nodes
  BY DEF Subs
<1> HIDE DEF D, n
<1>5. NestedIn(D, Subs(f), depth, n)
  BY <1>2, <1>3, <1>4 DEF NestedIn
<1> QED BY <1>1, <1>5 DEF D

\* The recursion over the nodes has a solution, and so is what it says.
LEMMA NodeOutcomesAre ==
  ASSUME NEW f, Nested(f.nodes), NEW d, NEW now, NEW i \in DOMAIN f.nodes
  PROVE  NodeOutcomes(f, d, now)[i]
           = Visit(f.nodes[i], d, now,
                   Given(NodeOutcomes(f, d, now), f.nodes[i].nodes))
<1> DEFINE D == DOMAIN f.nodes
           R == SUBSET Outs
           parts == Subs(f)
           visit(k, subs) == Visit(f.nodes[k], d, now, subs)
           body == [k \in D |-> [subs \in SUBSET R |-> visit(k, subs)]]
           Solves(g) == g = [k \in D |-> visit(k, {g[j] : j \in f.nodes[k].nodes})]
           outcomes == CHOOSE g : Solves(g)
<1>1. NodeOutcomes(f, d, now) = outcomes
  BY DEF NodeOutcomes, Visit
<1>2. PICK n \in Nat : \E depth : NestedIn(D, parts, depth, n)
  BY NodesNest
<1>3. PICK depth : NestedIn(D, parts, depth, n)
  BY <1>2
<1>4. body \in [D -> [SUBSET R -> R]]
  <2>1. \A k \in D : \A subs \in SUBSET R : visit(k, subs) \in R
    BY VisitIs
  <2> HIDE DEF D, R, visit
  <2> QED BY <2>1
<1> HIDE DEF body, R
<1>5. PICK g : Climbs(D, parts, R, body, g)
  BY <1>3, <1>4, ClimbExists
<1>6. Solves(g)
  <2>1. g \in [D -> R]
    BY <1>5 DEF Climbs
  <2>2. ASSUME NEW k \in D
        PROVE  g[k] = visit(k, {g[j] : j \in f.nodes[k].nodes})
    <3> DEFINE below == {g[j] : j \in f.nodes[k].nodes}
    <3>1. parts[k] = f.nodes[k].nodes /\ parts[k] \subseteq D
      BY <1>3 DEF Subs, NestedIn
    <3>2. g[k] = body[k][below]
      BY <1>5, <3>1 DEF Climbs
    <3>3. below \in SUBSET R
      BY <2>1, <3>1
    <3> HIDE DEF below, visit
    <3>4. body[k][below] = visit(k, below)
      BY <3>3 DEF body
    <3> QED BY <3>2, <3>4 DEF below
  <2> HIDE DEF visit
  <2> QED BY <2>1, <2>2
<1>7. Solves(outcomes)
  <2> HIDE DEF Solves
  <2> QED BY <1>6
<1> HIDE DEF outcomes, visit
<1>8. outcomes[i] = visit(i, {outcomes[j] : j \in f.nodes[i].nodes})
  BY <1>7
<1> QED BY <1>1, <1>8 DEF visit, Given

\* "any" and "all" of the conditions of a section, as the docs say it.
Promised(node, d, now, before, subs) ==
  IF node.all
  THEN /\ \A t \in node.tests : /\ Legible(d, now, t.name)
                                /\ Promise!Worth(d, now, before, t) > 0
       /\ \A b \in subs : b
  ELSE \/ \E t \in node.tests : /\ Legible(d, now, t.name)
                                /\ Promise!Worth(d, now, before, t) > 0
       \/ \E b \in subs : b

PromisedNodes(f, d, now, before, g) ==
  /\ DOMAIN g = DOMAIN f.nodes
  /\ \A i \in DOMAIN f.nodes :
       g[i] = Promised(f.nodes[i], d, now, before, Given(g, f.nodes[i].nodes))

LEMMA HoldsAre ==
  ASSUME NEW f, Nested(f.nodes), NEW d, NEW now, NEW before
  PROVE  \E g : /\ PromisedNodes(f, d, now, before, g)
                /\ Promise!Holds(f, d, now, before) = g["done"]
<1> DEFINE D == DOMAIN f.nodes
           parts == Subs(f)
           legible(n) == /\ Promise!LookupValue(d, now, n) # {}
                         /\ n \in DOMAIN d.vars => d.vars[n] \in DOMAIN now
           true(t) == legible(t.name) /\ Promise!Worth(d, now, before, t) > 0
           answer(k, subs) == Promised(f.nodes[k], d, now, before, subs)
           body == [k \in D |-> [subs \in SUBSET BOOLEAN |-> answer(k, subs)]]
           Solves(h) == h = [k \in D |->
             IF f.nodes[k].all
             THEN (\A t \in f.nodes[k].tests : true(t))
                  /\ \A j \in f.nodes[k].nodes : h[j]
             ELSE (\E t \in f.nodes[k].tests : true(t))
                  \/ \E j \in f.nodes[k].nodes : h[j]]
           holds == CHOOSE h : Solves(h)
<1>1. Promise!Holds(f, d, now, before) = holds["done"]
  BY DEF Promise!Holds
<1>2. PICK n \in Nat : \E depth : NestedIn(D, parts, depth, n)
  BY NodesNest
<1>3. PICK depth : NestedIn(D, parts, depth, n)
  BY <1>2
<1>4. body \in [D -> [SUBSET BOOLEAN -> BOOLEAN]]
  <2>1. \A k \in D : \A subs \in SUBSET BOOLEAN : answer(k, subs) \in BOOLEAN
    BY DEF Promised
  <2> HIDE DEF D, answer
  <2> QED BY <2>1
<1> HIDE DEF body
<1>5. PICK g : Climbs(D, parts, BOOLEAN, body, g)
  BY <1>3, <1>4, ClimbExists
<1>6. ASSUME NEW h \in [D -> BOOLEAN], NEW k \in D
      PROVE  answer(k, {h[j] : j \in f.nodes[k].nodes})
             = (IF f.nodes[k].all
                THEN (\A t \in f.nodes[k].tests : true(t))
                     /\ \A j \in f.nodes[k].nodes : h[j]
                ELSE (\E t \in f.nodes[k].tests : true(t))
                     \/ \E j \in f.nodes[k].nodes : h[j])
  <2> DEFINE passed(t) == /\ Legible(d, now, t.name)
                          /\ Promise!Worth(d, now, before, t) > 0
             N == f.nodes[k].nodes
             T == f.nodes[k].tests
             subs == {h[j] : j \in N}
  <2>1. \A t : passed(t) <=> true(t)
    BY SameLookups DEF Legible
  <2>2. (\A b \in subs : b) <=> (\A j \in N : h[j])
    OBVIOUS
  <2>3. (\E b \in subs : b) <=> (\E j \in N : h[j])
    OBVIOUS
  <2>4. answer(k, subs)
          <=> IF f.nodes[k].all THEN (\A t \in T : passed(t)) /\ \A b \in subs : b
              ELSE (\E t \in T : passed(t)) \/ \E b \in subs : b
    BY DEF Promised
  <2>5. answer(k, subs) \in BOOLEAN
    BY DEF Promised
  <2> HIDE DEF answer, passed, true, subs
  <2>6. CASE f.nodes[k].all
    <3>1. answer(k, subs) <=> (\A t \in T : true(t)) /\ \A j \in N : h[j]
      BY <2>1, <2>2, <2>4, <2>6
    <3> QED BY <2>5, <2>6, <3>1 DEF subs
  <2>7. CASE ~f.nodes[k].all
    <3>1. answer(k, subs) <=> (\E t \in T : true(t)) \/ \E j \in N : h[j]
      BY <2>1, <2>3, <2>4, <2>7
    <3> QED BY <2>5, <2>7, <3>1 DEF subs
  <2> QED BY <2>6, <2>7
<1>7. Solves(g)
  <2>1. g \in [D -> BOOLEAN]
    BY <1>5 DEF Climbs
  <2>2. ASSUME NEW k \in D
        PROVE  g[k] = answer(k, {g[j] : j \in f.nodes[k].nodes})
    <3> DEFINE below == {g[j] : j \in f.nodes[k].nodes}
    <3>1. parts[k] = f.nodes[k].nodes /\ parts[k] \subseteq D
      BY <1>3 DEF Subs, NestedIn
    <3>2. g[k] = body[k][below]
      BY <1>5, <3>1 DEF Climbs
    <3>3. below \in SUBSET BOOLEAN
      BY <2>1, <3>1
    <3> HIDE DEF below, answer
    <3>4. body[k][below] = answer(k, below)
      BY <3>3 DEF body
    <3> QED BY <3>2, <3>4 DEF below
  <2> HIDE DEF answer, true
  <2> QED BY <1>6, <2>1, <2>2
<1>8. Solves(holds)
  <2> HIDE DEF Solves
  <2> QED BY <1>7
<1>9. PromisedNodes(f, d, now, before, holds)
  <2> HIDE DEF holds, answer, true
  <2>1. DOMAIN holds = D /\ holds \in [D -> BOOLEAN]
    <3> DEFINE value(k) == IF f.nodes[k].all
                           THEN (\A t \in f.nodes[k].tests : true(t))
                                /\ \A j \in f.nodes[k].nodes : holds[j]
                           ELSE (\E t \in f.nodes[k].tests : true(t))
                                \/ \E j \in f.nodes[k].nodes : holds[j]
    <3>1. holds = [k \in D |-> value(k)]
      BY <1>8
    <3>2. \A k \in D : value(k) \in BOOLEAN
      OBVIOUS
    <3> HIDE DEF value
    <3> QED BY <3>1, <3>2
  <2>2. ASSUME NEW k \in D
        PROVE  holds[k] = answer(k, {holds[j] : j \in f.nodes[k].nodes})
    BY <1>6, <1>8, <2>1
  <2> QED BY <2>1, <2>2 DEF PromisedNodes, answer, Given
<1> HIDE DEF holds
<1> QED BY <1>1, <1>9

LEMMA TestSeen ==
  ASSUME NEW d, NEW now, NEW before, Sees(d, now, before), NEW t,
         NEW e, SameTables(d, e)
  PROVE /\ TestOutcome(d, now, t) \in SUBSET Outs
        /\ "yes" \in TestOutcome(d, now, t) =>
             Legible(e, now, t.name) /\ Promise!Worth(e, now, before, t) > 0
        /\ "no" \in TestOutcome(d, now, t) =>
             ~(Legible(e, now, t.name) /\ Promise!Worth(e, now, before, t) > 0)
<1> DEFINE w == Promise!Worth(e, now, before, t)
<1>1. Measures(d, now, t) = IF Legible(e, now, t.name) THEN {w} ELSE {}
  BY MeasuresSeen, SameWorth
<1> HIDE DEF w
<1>2. CASE Legible(e, now, t.name)
  BY <1>1, <1>2 DEF TestOutcome, Outs, w
<1>3. CASE ~Legible(e, now, t.name)
  BY <1>1, <1>3 DEF TestOutcome, Outs
<1> QED BY <1>2, <1>3

\* A node that is visited to the end is decided as promised.
NodeSeen(out, promised) ==
  /\ out \in SUBSET Outs /\ promised \in BOOLEAN
  /\ "yes" \in out => promised
  /\ "no" \in out => ~promised

LEMMA VisitSeen ==
  ASSUME NEW d, NEW now, NEW before, Sees(d, now, before), NEW e, SameTables(d, e), NEW node,
         NEW N, NEW outs, NEW g, \A j \in N : NodeSeen(outs[j], g[j])
  PROVE  NodeSeen(Visit(node, d, now, Given(outs, N)),
                  Promised(node, e, now, before, Given(g, N)))
<1> DEFINE subs == Given(outs, N)
           bits == Given(g, N)
           tests == {TestOutcome(d, now, t) : t \in node.tests}
           true(t) == /\ Legible(e, now, t.name)
                      /\ Promise!Worth(e, now, before, t) > 0
           ending == NodeEnding(node)
           visit == Visit(node, d, now, subs)
           promised == Promised(node, e, now, before, bits)
<1>1. visit \in SUBSET Outs
  <2>1. subs \in SUBSET SUBSET Outs
    BY DEF NodeSeen, Given
  <2> HIDE DEF subs
  <2> QED BY <2>1, VisitIs
<1>2. promised \in BOOLEAN
  BY DEF Promised
<1>3. visit = Stops(tests, ending) \cup
              IF ~Passes(tests, ending) THEN {}
              ELSE Stops(subs, ending) \cup
                   IF Passes(subs, ending)
                   THEN {IF node.all THEN "yes" ELSE "no"} ELSE {}
  BY DEF Visit
<1>4. promised <=> IF node.all THEN (\A t \in node.tests : true(t)) /\ \A b \in bits : b
                   ELSE (\E t \in node.tests : true(t)) \/ \E b \in bits : b
  BY DEF Promised
<1>5. /\ \A o \in tests : o \in SUBSET Outs
      /\ (\E o \in tests : "yes" \in o) => \E t \in node.tests : true(t)
      /\ (\E o \in tests : "no" \in o) => \E t \in node.tests : ~true(t)
      /\ (\A o \in tests : "yes" \in o) => \A t \in node.tests : true(t)
      /\ (\A o \in tests : "no" \in o) => \A t \in node.tests : ~true(t)
  BY TestSeen
<1>6. /\ \A o \in subs : o \in SUBSET Outs
      /\ (\E o \in subs : "yes" \in o) => \E b \in bits : b
      /\ (\E o \in subs : "no" \in o) => \E b \in bits : ~b
      /\ (\A o \in subs : "yes" \in o) => \A b \in bits : b
      /\ (\A o \in subs : "no" \in o) => \A b \in bits : ~b
  BY DEF NodeSeen, Given
<1> HIDE DEF subs, bits, tests, visit, promised, true
<1>7. CASE node.all
  <2>1. ending = {"no", "throws"}
    BY <1>7 DEF NodeEnding
  <2>2. "yes" \in visit => promised
    <3> SUFFICES ASSUME "yes" \in visit PROVE promised
      OBVIOUS
    <3>1. Passes(tests, ending) /\ Passes(subs, ending)
      BY <1>3, <2>1 DEF Stops
    <3>2. (\A o \in tests : "yes" \in o) /\ (\A o \in subs : "yes" \in o)
      BY <1>5, <1>6, <2>1, <3>1 DEF Passes, Outs
    <3> QED BY <1>4, <1>5, <1>6, <1>7, <3>2
  <2>3. "no" \in visit => ~promised
    <3> SUFFICES ASSUME "no" \in visit PROVE ~promised
      OBVIOUS
    <3>1. "no" \in Stops(tests, ending) \/ "no" \in Stops(subs, ending)
      BY <1>3, <1>7
    <3>2. (\E o \in tests : "no" \in o) \/ (\E o \in subs : "no" \in o)
      BY <3>1 DEF Stops
    <3> QED BY <1>4, <1>5, <1>6, <1>7, <3>2
  <2> QED BY <1>1, <1>2, <2>2, <2>3 DEF NodeSeen, subs, bits, visit, promised
<1>8. CASE ~node.all
  <2>1. ending = {"yes", "throws"}
    BY <1>8 DEF NodeEnding
  <2>2. "no" \in visit => ~promised
    <3> SUFFICES ASSUME "no" \in visit PROVE ~promised
      OBVIOUS
    <3>1. Passes(tests, ending) /\ Passes(subs, ending)
      BY <1>3, <2>1 DEF Stops
    <3>2. (\A o \in tests : "no" \in o) /\ (\A o \in subs : "no" \in o)
      BY <1>5, <1>6, <2>1, <3>1 DEF Passes, Outs
    <3> QED BY <1>4, <1>5, <1>6, <1>8, <3>2
  <2>3. "yes" \in visit => promised
    <3> SUFFICES ASSUME "yes" \in visit PROVE promised
      OBVIOUS
    <3>1. "yes" \in Stops(tests, ending) \/ "yes" \in Stops(subs, ending)
      BY <1>3, <1>8
    <3>2. (\E o \in tests : "yes" \in o) \/ (\E o \in subs : "yes" \in o)
      BY <3>1 DEF Stops
    <3> QED BY <1>4, <1>5, <1>6, <1>8, <3>2
  <2> QED BY <1>1, <1>2, <2>2, <2>3 DEF NodeSeen, subs, bits, visit, promised
<1> QED BY <1>7, <1>8

\* isDone, when no look-up throws, is what the docs promise.
LEMMA DoneSeen ==
  ASSUME NEW f, Nested(f.nodes), NEW d, NEW now, NEW before, Sees(d, now, before),
         NEW e, SameTables(d, e),
         NEW out \in NodeOutcomes(f, d, now)["done"], out # "throws"
  PROVE  (out = "yes") = Promise!Holds(f, e, now, before)
<1> DEFINE D == DOMAIN f.nodes
           outs == NodeOutcomes(f, d, now)
<1>1. PICK g : /\ PromisedNodes(f, e, now, before, g)
               /\ Promise!Holds(f, e, now, before) = g["done"]
  BY HoldsAre
<1>2. \A i \in D : outs[i] = Visit(f.nodes[i], d, now, Given(outs, f.nodes[i].nodes))
  BY NodeOutcomesAre
<1>3. \A i \in D : g[i] = Promised(f.nodes[i], e, now, before,
                                   Given(g, f.nodes[i].nodes))
  BY <1>1 DEF PromisedNodes
<1> HIDE DEF outs
<1> DEFINE T == {i \in D : NodeSeen(outs[i], g[i])}
<1>4. PICK n \in Nat : \E depth : NestedIn(D, Subs(f), depth, n)
  BY NodesNest
<1>5. PICK depth : NestedIn(D, Subs(f), depth, n)
  BY <1>4
<1>6. ASSUME NEW i \in D, Subs(f)[i] \subseteq T PROVE i \in T
  <2>1. \A j \in f.nodes[i].nodes : NodeSeen(outs[j], g[j])
    BY <1>6 DEF Subs
  <2>2. NodeSeen(Visit(f.nodes[i], d, now, Given(outs, f.nodes[i].nodes)),
                 Promised(f.nodes[i], e, now, before, Given(g, f.nodes[i].nodes)))
    BY <2>1, VisitSeen
  <2> QED BY <1>2, <1>3, <2>2
<1> HIDE DEF T, D
<1>7. D \subseteq T
  BY <1>5, <1>6, NestedInduction
<1>8. NodeSeen(outs["done"], g["done"])
  BY <1>7 DEF T, D, Nested
<1>9. out \in {"yes", "no"}
  BY <1>8 DEF NodeSeen, Outs, outs
<1> QED BY <1>1, <1>8, <1>9 DEF NodeSeen, outs
-----------------------------------------------------------------------------
(***************************************************************************)
(* Every step of an episode is one of the promise.                         *)
(***************************************************************************)
\* The lives are fewer than those kept, or the script finds another end.
Past(d, mem, frame) == frame >= FrameLimit \/ Read(d, mem, Position) > LevelEnd
Ended(d, mem, frame) ==
  Read(d, mem, Lives) < d.customs[Prev] \/ Past(d, mem, frame)

\* A report that does not throw is over when its nodes or its script say so,
\* and is one more report of the episode.
LEMMA ReportDone ==
  ASSUME NEW s \in ScenarioState, NEW d, NEW mem, NEW l,
         NEW after \in DataUpdateRam(s, d, l, mem), after.ok
  PROVE /\ "done" \notin file.lua =>
             \E out \in NodeOutcomes(file, after.data, mem)["done"] :
               out # "throws" /\ after.scen.done = (out = "yes")
        /\ after.scen.frame = s.frame + 1
        /\ "done" \in file.lua =>
             /\ after.scen.done = Ended(UpdateRam(d, mem), mem, s.frame)
             /\ after.data = XposDone(UpdateRam(d, mem), mem, s.frame).data
<1> DEFINE e == UpdateRam(d, mem)
<1>1. after \in Update(file, s, e, mem, l)
  BY DEF DataUpdateRam
<1> HIDE DEF e
<1>2. PICK o \in DoneOutcomes(file, e, mem, l, s.frame) :
        after = IF o.out = "throws"
                THEN [scen |-> s, data |-> e, lua |-> l, ok |-> FALSE]
                ELSE PayPlayers(file, [s EXCEPT !.done = (o.out = "yes")],
                                o.data, mem, l)
  BY <1>1 DEF Update
<1>3. o.out # "throws"
  BY <1>2
<1> DEFINE t == [s EXCEPT !.done = (o.out = "yes")]
<1>4. after = PayPlayers(file, t, o.data, mem, l)
  BY <1>2, <1>3
<1>5. DOMAIN t = {"reward", "total", "done", "frame"} /\ t.done = (o.out = "yes")
      /\ t.frame = s.frame
  BY DEF ScenarioState
<1> HIDE DEF t
<1>6. /\ after.data = o.data /\ after.scen.done = (o.out = "yes")
      /\ after.scen.frame = s.frame + 1
  BY <1>4, <1>5 DEF PayPlayers
<1>7. CASE "done" \notin file.lua
  <2>1. o \in [out : NodeOutcomes(file, e, mem)["done"], data : {e}]
    BY <1>7 DEF DoneOutcomes
  <2>2. o.out \in NodeOutcomes(file, e, mem)["done"] /\ o.data = e
    BY <2>1
  <2> QED BY <1>3, <1>6, <1>7, <2>2
<1>8. CASE "done" \in file.lua
  <2>1. o = XposDone(e, mem, s.frame)
    BY <1>3, <1>8 DEF DoneOutcomes
  <2>2. (o.out = "yes") = Ended(e, mem, s.frame)
    BY <2>1 DEF XposDone, Ended, Past
  <2> QED BY <1>6, <1>8, <2>1, <2>2 DEF e
<1> QED BY <1>7, <1>8

\* The script compares the lives with those of the last report, which it keeps
\* in its variable unless it has just said that the episode is over.
LivesKept ==
  phase = "running" /\ "done" \in file.lua /\ ~scen.done =>
    /\ Prev \in DOMAIN data.customs
    /\ data.customs[Prev] = data.clone[data.vars[Lives]]

PromiseInv ==
  /\ TypeInv /\ HiddenInv
  /\ began => ret.kind # "none"
  /\ phase \in {"running", "moved"} => data.clone \in Memory
  /\ LivesKept

\* The lives and the position of a memory, where the script finds them in it.
LEMMA ServedAt ==
  ASSUME NEW d, ScriptsServed(d), file.lua # {},
         NEW n \in {Lives, Position}, n \notin DOMAIN d.customs,
         NEW mem \in Memory
  PROVE /\ Read(d, mem, n) = mem[d.vars[n]]
        /\ Promise!TheValue(d, mem, n) = mem[d.vars[n]]
<1>1. LookupValue(d, mem, n) = {mem[d.vars[n]]}
  BY DEF LookupValue, At, ScriptsServed, Memory
<1>2. LookupValue(d, mem, n) = {Promise!TheValue(d, mem, n)}
      /\ Read(d, mem, n) = Promise!TheValue(d, mem, n)
  BY <1>1, ValueSeen
<1> QED BY <1>1, <1>2

\* What xpos_done says and keeps, when nothing hides what it reads.
Unhidden(d) == Lives \notin DOMAIN d.customs /\ Position \notin DOMAIN d.customs
EndSeen(d, mem, frame) ==
  \/ mem[d.vars[Lives]] < d.customs[Prev]
  \/ mem[d.vars[Position]] > LevelEnd
  \/ frame >= FrameLimit

LEMMA LivesReported ==
  ASSUME NEW s \in ScenarioState, NEW d \in GameDataState, NEW mem \in Memory,
         NEW l, NEW after \in DataUpdateRam(s, d, l, mem), after.ok,
         ScriptsServed(d), "done" \in file.lua, Unhidden(d)
  PROVE /\ after.scen.done = EndSeen(d, mem, s.frame)
        /\ ~after.scen.done => /\ Prev \in DOMAIN after.data.customs
                               /\ after.data.customs[Prev] = mem[d.vars[Lives]]
<1> DEFINE e == UpdateRam(d, mem)
           lives == mem[d.vars[Lives]]
<1>1. Shaped(d)
  BY DataOf
<1>2. Shaped(e) /\ e.vars = d.vars /\ e.customs = d.customs
  BY <1>1, UpdateRamKeeps
<1> HIDE DEF e
<1>3. ScriptsServed(e)
  BY <1>2 DEF ScriptsServed
<1>4. Read(e, mem, Lives) = lives
      /\ Read(e, mem, Position) = mem[d.vars[Position]]
  BY <1>2, <1>3, ServedAt DEF Unhidden
<1>5. after.scen.done = Ended(e, mem, s.frame)
      /\ after.data = XposDone(e, mem, s.frame).data
  BY ReportDone DEF e
<1> HIDE DEF lives
<1>6. ASSUME ~after.scen.done
      PROVE  Prev \in DOMAIN after.data.customs /\ after.data.customs[Prev] = lives
  <2> DEFINE table == With(e.customs, Prev, lives)
  <2>1. after.data = [e EXCEPT !.customs = With(@, Prev, lives)]
    BY <1>4, <1>5, <1>6 DEF XposDone, Ended, Past
  <2>2. after.data = [e EXCEPT !.customs = table]
    BY <2>1
  <2>3. Prev \in DOMAIN table /\ table[Prev] = lives
    BY DEF With
  <2> HIDE DEF table
  <2> QED BY <1>2, <2>2, <2>3 DEF Shaped
<1>7. Ended(e, mem, s.frame) = EndSeen(d, mem, s.frame)
  BY <1>2, <1>4 DEF lives, Ended, Past, EndSeen
<1> QED BY <1>5, <1>6, <1>7 DEF lives

\* The tables of GameData, as the promise sees them.
Shown(d) == [vars |-> d.vars, customs |-> d.customs]

LEMMA ShownIs ==
  ASSUME NEW d \in GameDataState
  PROVE /\ Shown(d) \in [vars : Promise!Tables(Promise!Places),
                        customs : Promise!Tables(Values)]
        /\ SameTables(d, Shown(d))
<1> DEFINE A == Tables(Places)
           B == Tables(Values)
<1>1. d.vars \in A /\ d.customs \in B
  BY DataOf
<1>2. Promise!Tables(Promise!Places) = A /\ Promise!Tables(Values) = B
  BY SamePlaces
<1> HIDE DEF A, B
<1> QED BY <1>1, <1>2 DEF Shown, SameTables

\* A report keeps its memory and the one before.
LEMMA ReportSees ==
  ASSUME NEW s \in ScenarioState, NEW d \in GameDataState, NEW l \in LuaState,
         NEW mem \in Memory, NEW after \in DataUpdateRam(s, d, l, mem)
  PROVE /\ after.data.clone = mem /\ after.data.last = d.clone
        /\ after.ok => Pays(file, after, mem, l)
<1>1. Tallies(s)
  BY DEF Tallies, ScenarioState
<1>2. Context(l)
  BY DEF Context, LuaState
<1>3. Shaped(d)
  BY DataOf
<1> QED BY <1>1, <1>2, <1>3, ReportPays

LEMMA ResetPromised ==
  ASSUME PromiseInv, Reset
  PROVE  PromiseInv' /\ (Promise!Begin \/ Promise!Raise)
<1>1. PICK now, after :
        /\ now \in Memory
        /\ after \in DataUpdateRam(ZeroScenario, DataReset.data, DataReset.lua, now)
        /\ ram' = now /\ data' = after.data /\ scen' = after.scen
        /\ began' = (began \/ after.ok)
        /\ ret' = IF after.ok THEN Observation ELSE Error
        /\ phase' = IF after.ok THEN "running" ELSE "broken"
  BY DEF Reset
<1>2. /\ file' = file /\ file \in Files /\ data \in GameDataState
      /\ ScriptsServed(data) /\ Prev \notin DOMAIN data.vars
  BY DEF Reset, PromiseInv, TypeInv, TypeOK, HiddenInv
<1> DEFINE d == DataReset.data
           l == DataReset.lua
<1>3. d \in GameDataState /\ l \in LuaState /\ d.vars = data.vars
      /\ ZeroScenario \in ScenarioState
  BY <1>2, DataResetIs, ZeroScenarioIs
<1>4. ScriptsServed(d)
  BY <1>2, <1>3 DEF ScriptsServed
<1>5. DOMAIN d.customs \subseteq {Prev}
  <2>1. /\ Shaped(data) /\ Shaped(Restart(data)) /\ DOMAIN Restart(data).customs = {}
    BY <1>2, DataOf DEF Restart, Shaped, NoTable
  <2>2. Keeps(Restart(data), d)
    BY <2>1, ReloadScriptsKeeps DEF DataReset
  <2> QED BY <2>1, <2>2 DEF Keeps
<1>6. TypeInv' /\ HiddenInv'
  <2>1. TypeInv /\ HiddenInv /\ [Next]_vars
    BY DEF PromiseInv, Next
  <2> QED BY <2>1, TypeStep, HiddenStep
<1> HIDE DEF d, l
<1>7. data'.clone = now
  BY <1>1, <1>3, ReportSees DEF d, l
<1>8. began' => ret'.kind # "none"
  BY <1>1 DEF Observation, Error
<1>9. LivesKept'
  <2> SUFFICES ASSUME after.ok, "done" \in file.lua, ~scen'.done
               PROVE  /\ Prev \in DOMAIN data'.customs
                      /\ data'.customs[Prev] = data'.clone[data'.vars[Lives]]
    BY <1>1, <1>2 DEF LivesKept
  <2>1. Unhidden(d)
    BY <1>5, EpisodeAssumption DEF Unhidden
  <2>2. Prev \in DOMAIN after.data.customs /\ after.data.customs[Prev] = now[d.vars[Lives]]
    BY <1>1, <1>3, <1>4, <2>1, LivesReported DEF d, l
  <2>3. data'.vars = d.vars
    BY <1>1, <1>2, <1>3, <1>4, ReportIs, ZeroScenarioIs DEF d, l
  <2> QED BY <1>1, <1>7, <2>2, <2>3
<1>10. PromiseInv'
  BY <1>1, <1>6, <1>7, <1>8, <1>9 DEF PromiseInv
<1>11. /\ Shown(data') \in [vars : Promise!Tables(Promise!Places),
                            customs : Promise!Tables(Values)]
       /\ ram' \in Promise!Memory /\ scen'.done \in BOOLEAN
       /\ scen'.frame \in Nat
  BY <1>1, <1>6, ShownIs, SamePlaces, ScenarioOf DEF TypeInv, TypeOK
<1>12. CASE after.ok
  <2>1. Going' /\ ret' = [kind |-> "observation"]
    BY <1>1, <1>12 DEF Going, Observation
  <2>3. scen'.frame = 1
    <3>1. after.scen.frame = ZeroScenario.frame + 1
      BY <1>1, <1>3, <1>12, ReportDone DEF d, l
    <3> QED BY <1>1, <3>1 DEF ZeroScenario, RestartScenario
  <2>2. Promise!Begin
    BY <1>1, <1>2, <1>7, <1>11, <2>1, <2>3 DEF Promise!Begin, Shown
  <2> QED BY <1>10, <2>2
<1>13. CASE ~after.ok
  <2>1. ~Going' /\ ret' = [kind |-> "error"]
    BY <1>1, <1>13 DEF Going, Error
  <2>2. Promise!Raise
    BY <1>2, <1>11, <2>1, SamePlaces DEF Promise!Raise, Shown
  <2> QED BY <1>10, <2>2
<1> QED BY <1>12, <1>13

\* The end of an episode with xpos_done, as the promise has it.
EndTold(e, now, before) ==
  \/ Promise!TheValue(e, now, Lives) < Promise!TheValue(e, before, Lives)
  \/ Promise!TheValue(e, now, Position) > LevelEnd
  \/ scen.frame >= FrameLimit

\* The rewards, the end and the info of a report are the promised ones.
LEMMA StepKept ==
  ASSUME PlainTimes, PromiseInv, Going, NEW now \in Memory,
         NEW after \in DataUpdateRam(scen, data, lua, now), after.ok
  PROVE /\ \A p \in Players : ~Scripted(file, p) =>
             after.scen.reward[p]
               = Promise!TimeWorth(file.time[p])
                 + Promise!VarWorth(Shown(after.data), now, data.clone, file.rewards[p])
        /\ IF "done" \notin file.lua
           THEN after.scen.done
                  = Promise!Holds(file, Shown(after.data), now, data.clone)
           ELSE ~scen.done =>
                  after.scen.done = EndTold(Shown(after.data), now, data.clone)
        /\ LookupAll(after.data, now) = Promise!LookupAll(Shown(after.data), now)
<1> DEFINE d == after.data
           e == Shown(d)
           before == data.clone
<1>1. /\ file \in Files /\ data \in GameDataState /\ scen \in ScenarioState
      /\ lua \in LuaState /\ ScriptsServed(data)
      /\ before \in Memory /\ ScenarioFile(file)
  BY EpisodeAssumption DEF PromiseInv, TypeInv, TypeOK, Going
<1>2. SameTables(d, e) /\ Sees(d, now, before) /\ Pays(file, after, now, lua)
  BY <1>1, ReportSees DEF SameTables, Shown, Sees
<1>3. ASSUME NEW p \in Players, ~Scripted(file, p)
      PROVE  after.scen.reward[p]
               = Promise!TimeWorth(file.time[p])
                 + Promise!VarWorth(e, now, before, file.rewards[p])
  <2>1. Payable(file, d, now, lua, p)
        /\ after.scen.reward[p] = Reward(file, d, now, lua, p)
    BY <1>2 DEF Pays
  <2>2. Readable(d, now, file.rewards[p])
    BY <1>3, <2>1 DEF Payable
  <2> HIDE DEF d, e, before
  <2>3. VarReward(d, now, file.rewards[p])
          = Promise!VarWorth(e, now, before, file.rewards[p])
    BY <1>2, <2>2, VarWorthSeen
  <2> QED BY <1>1, <1>3, <2>1, <2>3, TimePromised DEF Reward
<1>4. ASSUME "done" \notin file.lua
      PROVE  after.scen.done = Promise!Holds(file, e, now, before)
  <2>1. PICK out \in NodeOutcomes(file, d, now)["done"] :
          out # "throws" /\ after.scen.done = (out = "yes")
    BY <1>1, <1>4, ReportDone
  <2>2. Nested(file.nodes)
    BY <1>1 DEF ScenarioFile
  <2> HIDE DEF d, e, before
  <2>3. (out = "yes") = Promise!Holds(file, e, now, before)
    BY <1>2, <2>1, <2>2, DoneSeen
  <2> QED BY <2>1, <2>3
<1>5. ASSUME "done" \in file.lua, ~scen.done
      PROVE  after.scen.done = EndTold(e, now, before)
  <2>1. phase = "running"
    BY <1>5 DEF Going
  <2>2. Shaped(data) /\ Unhidden(data) /\ data.customs[Prev] = before[data.vars[Lives]]
    BY <1>1, <1>5, <2>1
    DEF PromiseInv, HiddenInv, Apart, ScriptsServed, LivesKept, Unhidden
  <2>3. after.scen.done = EndSeen(data, now, scen.frame)
    BY <1>1, <1>5, <2>2, LivesReported
  <2>4. Keeps(data, d)
    BY <2>2, DataUpdateRamKeeps
  <2>5. e.vars = data.vars /\ Unhidden(e)
    BY <2>2, <2>4, EpisodeAssumption DEF Keeps, Shown, Unhidden
  <2> HIDE DEF e, d, before
  <2>6. ScriptsServed(e)
    BY <1>1, <2>5 DEF ScriptsServed
  <2>7. /\ Promise!TheValue(e, now, Lives) = now[data.vars[Lives]]
        /\ Promise!TheValue(e, before, Lives) = before[data.vars[Lives]]
        /\ Promise!TheValue(e, now, Position) = now[data.vars[Position]]
    BY <1>1, <1>5, <2>5, <2>6, ServedAt DEF Unhidden
  <2> QED BY <2>2, <2>3, <2>7 DEF EndSeen, EndTold
<1>6. LookupAll(d, now) = Promise!LookupAll(e, now)
  <2>1. LookupAll(d, now) = LookupAll(e, now)
    BY <1>2 DEF LookupAll, SameTables
  <2> QED BY <2>1, SameLookups
<1> QED BY <1>3, <1>4, <1>5, <1>6

LEMMA StepPromised ==
  ASSUME PlainTimes, PromiseInv, Step
  PROVE  PromiseInv' /\ (Promise!Step \/ Promise!Unpromised \/ Promise!Raise)
<1>1. PICK now, after :
        /\ now \in Memory /\ after \in DataUpdateRam(scen, data, lua, now)
        /\ ram' = now /\ data' = after.data /\ scen' = after.scen
        /\ ret' = IF after.ok THEN Returned(scen', data', now) ELSE Error
        /\ phase' = IF after.ok THEN phase ELSE "broken"
  BY DEF Step
<1>2. /\ file' = file /\ file \in Files /\ data \in GameDataState
      /\ ScriptsServed(data) /\ scen \in ScenarioState /\ lua \in LuaState
      /\ began /\ began' = began /\ ret.kind # "none" /\ scen.frame < MaxFrames
  BY DEF Step, StepAllowed, PromiseInv, TypeInv, TypeOK
<1>3. TypeInv' /\ HiddenInv'
  <2>1. TypeInv /\ HiddenInv /\ [Next]_vars
    BY DEF PromiseInv, Next
  <2> QED BY <2>1, TypeStep, HiddenStep
<1>4. data'.clone = now /\ data'.vars = data.vars
  BY <1>1, <1>2, ReportSees, ReportIs
<1>5. after.ok => /\ ret'.kind = "step" /\ ret'.reward = scen'.reward
                  /\ ret'.done = scen'.done /\ ret'.info = LookupAll(data', now)
  BY <1>1 DEF Returned
<1>6. ~after.ok => ret' = [kind |-> "error"]
  BY <1>1 DEF Error
<1>7. ret'.kind # "none"
  BY <1>5, <1>6
<1>8. LivesKept'
  <2> SUFFICES ASSUME after.ok, phase = "running", "done" \in file.lua, ~scen'.done
               PROVE  /\ Prev \in DOMAIN data'.customs
                      /\ data'.customs[Prev] = data'.clone[data'.vars[Lives]]
    BY <1>1, <1>2 DEF LivesKept
  <2>1. Unhidden(data)
    BY <1>2 DEF PromiseInv, HiddenInv, Apart, ScriptsServed, Unhidden
  <2>2. /\ Prev \in DOMAIN after.data.customs
        /\ after.data.customs[Prev] = now[data.vars[Lives]]
    BY <1>1, <1>2, <2>1, LivesReported
  <2> QED BY <1>1, <1>4, <2>2
<1>9. PromiseInv'
  BY <1>1, <1>3, <1>4, <1>7, <1>8 DEF PromiseInv
<1>10. /\ Shown(data') \in [vars : Promise!Tables(Promise!Places),
                            customs : Promise!Tables(Values)]
       /\ ram' \in Promise!Memory /\ scen'.done \in BOOLEAN
       /\ scen'.frame \in Nat
  BY <1>1, <1>3, ShownIs, SamePlaces, ScenarioOf DEF TypeInv, TypeOK
<1>11. CASE ~after.ok
  <2>1. ~Going'
    BY <1>1, <1>11 DEF Going
  <2>2. Promise!Raise
    BY <1>2, <1>6, <1>10, <1>11, <2>1, SamePlaces DEF Promise!Raise, Shown
  <2> QED BY <1>9, <2>2
<1>12. CASE after.ok /\ ~Going
  <2>1. ~Going'
    BY <1>1, <1>2, <1>12 DEF Going
  <2>2. Going = FALSE /\ Going' = FALSE
    BY <1>12, <2>1 DEF Going
  <2>3. UNCHANGED <<file, IF Going THEN data.clone ELSE NoMem, Going>>
    BY <1>2, <2>2
  <2>4. Promise!Unpromised
    BY <1>2, <1>5, <1>10, <1>12, <2>3 DEF Promise!Unpromised, Shown
  <2> QED BY <1>9, <2>4
<1>13. CASE after.ok /\ Going
  <2>1. Going'
    BY <1>1, <1>2, <1>13 DEF Going
  <2>2. /\ \A p \in Players : ~Scripted(file, p) =>
             ret'.reward[p]
               = Promise!TimeWorth(file.time[p])
                 + Promise!VarWorth(Shown(data'), ram', data.clone, file.rewards[p])
        /\ IF "done" \notin file.lua
           THEN ret'.done = Promise!Holds(file, Shown(data'), ram', data.clone)
           ELSE ~scen.done => ret'.done = EndTold(Shown(data'), ram', data.clone)
        /\ ret'.info = Promise!LookupAll(Shown(data'), ram')
    BY <1>1, <1>5, <1>13, StepKept
  <2>3. Promise!Players = Players
        /\ \A p : Promise!Scripted(file, p) <=> Scripted(file, p)
    BY SamePlaces DEF Promise!Scripted, Scripted
  <2> DEFINE seen == IF Going THEN data.clone ELSE NoMem
             e == [vars |-> data'.vars, customs |-> data'.customs]
  <2>4. seen = data.clone /\ Shown(data') = e
    BY <1>13 DEF Shown
  <2>5. /\ \A p \in Promise!Players : ~Promise!Scripted(file, p) =>
             ret'.reward[p] = Promise!TimeWorth(file.time[p])
                 + Promise!VarWorth(e, ram', seen, file.rewards[p])
        /\ IF "done" \notin file.lua
           THEN ret'.done = Promise!Holds(file, e, ram', seen)
           ELSE ~scen.done => ret'.done = EndTold(e, ram', seen)
        /\ ret'.info = Promise!LookupAll(e, ram')
    <3> HIDE DEF e, seen
    <3> QED BY <2>2, <2>3, <2>4
  <2>6. /\ Going /\ Going' /\ data'.clone = ram' /\ scen'.done = ret'.done
        /\ ret'.kind = "step" /\ file' = file /\ scen'.frame = scen.frame + 1
        /\ e \in [vars : Promise!Tables(Promise!Places), customs : Promise!Tables(Values)]
        /\ ram' \in Promise!Memory
    BY <1>1, <1>2, <1>4, <1>5, <1>10, <1>13, <2>1, <2>4, ReportDone
  <2>7. Promise!Step
    BY <2>5, <2>6 DEF Promise!Step, EndTold
  <2> QED BY <1>9, <2>7
<1> QED BY <1>11, <1>12, <1>13

LEMMA ChangeKeepsClone ==
  ASSUME TypeInv, SetAVariable \/ RemoveAVariable \/ LoadInfo
  PROVE  data'.clone = data.clone
<1>1. Shaped(data)
  BY DataOf DEF TypeInv, TypeOK
<1>2. ASSUME NEW vars_1 PROVE [data EXCEPT !.vars = vars_1].clone = data.clone
  BY <1>1 DEF Shaped
<1>3. CASE SetAVariable
  BY <1>2, <1>3 DEF SetAVariable, SetVariable
<1>4. CASE RemoveAVariable
  BY <1>2, <1>4 DEF RemoveAVariable, RemoveVariable
<1>5. CASE LoadInfo
  BY <1>2, <1>5 DEF LoadInfo, LoadVars
<1> QED BY <1>3, <1>4, <1>5

LEMMA OtherPromised ==
  ASSUME PromiseInv,
         \/ ResetFails \/ SetAValue \/ SetAVariable \/ RemoveAVariable
         \/ LoadInfo \/ UNCHANGED vars
  PROVE  PromiseInv' /\ [Promise!Next]_(Promise!vars)
<1>1. TypeInv' /\ HiddenInv'
  <2>1. TypeInv /\ HiddenInv /\ [Next]_vars
    BY DEF PromiseInv, Next
  <2> QED BY <2>1, TypeStep, HiddenStep
<1>types. TypeInv
  BY DEF PromiseInv
<1>lives. LivesKept
  BY DEF PromiseInv
<1>2. /\ began => ret.kind # "none"
      /\ phase \in {"running", "moved"} => data.clone \in Memory
  BY DEF PromiseInv
<1>3. /\ Shown(data') \in [vars : Promise!Tables(Promise!Places),
                            customs : Promise!Tables(Values)]
      /\ ram' \in Promise!Memory /\ scen'.done \in BOOLEAN
      /\ scen'.frame \in Nat
  BY <1>1, ShownIs, SamePlaces, ScenarioOf DEF TypeInv, TypeOK
<1>4. CASE ResetFails
  <2>1. /\ ret' = [kind |-> "error"] /\ phase' = "broken" /\ ~Going'
        /\ UNCHANGED <<file, data, scen, began>>
    BY <1>4 DEF ResetFails, Error, Going
  <2>2. Promise!Raise
    BY <1>3, <2>1, SamePlaces DEF Promise!Raise, Shown
  <2>3. PromiseInv'
    BY <1>1, <2>1 DEF PromiseInv, LivesKept
  <2> QED BY <2>2, <2>3 DEF Promise!Next
<1>5. CASE SetAValue
  <2>1. UNCHANGED <<file, scen, began, ret, phase>>
    BY <1>5 DEF SetAValue
  <2>2. /\ data'.vars = data.vars /\ data'.clone = data.clone
        /\ Prev \in DOMAIN data.customs => /\ Prev \in DOMAIN data'.customs
                                           /\ data'.customs[Prev] = data.customs[Prev]
    BY <1>types, <1>5, SetAValueIs
  <2>3. UNCHANGED Going
    BY <2>1 DEF Going
  <2>4. UNCHANGED <<file, IF Going THEN data.clone ELSE NoMem, scen.frame, Going,
                    scen.done, ret>>
    BY <2>1, <2>2, <2>3
  <2>5. Promise!Touch
    BY <1>3, <2>4 DEF Promise!Touch, Shown
  <2>6. LivesKept'
    BY <1>lives, <2>1, <2>2 DEF LivesKept
  <2>7. PromiseInv'
    BY <1>1, <1>2, <2>1, <2>2, <2>6 DEF PromiseInv
  <2> QED BY <2>5, <2>7 DEF Promise!Next
<1>6. CASE SetAVariable \/ RemoveAVariable \/ LoadInfo
  <2>1. Moved
    BY <1>6 DEF SetAVariable, RemoveAVariable, LoadInfo
  <2>2. /\ UNCHANGED <<file, ram, scen, began, ret>>
        /\ phase' = IF phase = "running" THEN "moved" ELSE phase
    BY <2>1 DEF Moved
  <2>3. data'.clone = data.clone
    BY <1>types, <1>6, ChangeKeepsClone
  <2>4. phase' # "running"
    BY <2>2
  <2>5. PromiseInv'
    BY <1>1, <1>2, <2>2, <2>3, <2>4 DEF PromiseInv, LivesKept
  <2>6. CASE Going' = Going
    <3>1. UNCHANGED <<file, IF Going THEN data.clone ELSE NoMem, scen.frame, Going,
                    scen.done, ret>>
      BY <2>2, <2>3, <2>6
    <3>2. Promise!Touch
      BY <1>3, <3>1 DEF Promise!Touch, Shown
    <3> QED BY <2>5, <3>2 DEF Promise!Next
  <2>7. CASE Going' # Going
    <3>1. Going /\ ~Going'
      BY <2>2, <2>7 DEF Going
    <3>2. Promise!Disown
      BY <1>3, <2>2, <3>1, SamePlaces DEF Promise!Disown, Shown
    <3> QED BY <2>5, <3>2 DEF Promise!Next
  <2> QED BY <2>6, <2>7
<1>7. CASE UNCHANGED vars
  <2>1. UNCHANGED <<file, ram, data, scen, began, ret, phase>>
    BY <1>7 DEF vars
  <2>2. UNCHANGED Going
    BY <2>1 DEF Going
  <2>3. UNCHANGED Promise!vars
    BY <2>1, <2>2 DEF Promise!vars
  <2>4. PromiseInv'
    BY <1>1, <1>2, <1>lives, <2>1 DEF PromiseInv, LivesKept
  <2> QED BY <2>3, <2>4
<1> QED BY <1>4, <1>5, <1>6, <1>7

LEMMA PromisedInit == Init => PromiseInv /\ Promise!Init
<1> SUFFICES ASSUME Init PROVE PromiseInv /\ Promise!Init
  OBVIOUS
<1>1. TypeInv /\ HiddenInv
  BY TypeInit, HiddenInit
<1>2. /\ phase = "none" /\ began = FALSE /\ ret = [kind |-> "none"]
      /\ scen = ZeroScenario /\ file \in Files /\ ram \in Memory
  BY DEF Init
<1>3. ~Going /\ scen.done = FALSE /\ scen.frame = 0
  BY <1>2 DEF Going, ZeroScenario, RestartScenario
<1>4. PromiseInv
  BY <1>1, <1>2 DEF PromiseInv, LivesKept
<1>5. Shown(data) \in [vars : Promise!Tables(Promise!Places),
                       customs : Promise!Tables(Values)]
      /\ ram \in Promise!Memory
  BY <1>1, ShownIs, SamePlaces DEF TypeInv, TypeOK
<1>6. Promise!Init
  BY <1>2, <1>3, <1>5, SamePlaces DEF Promise!Init, Shown
<1> QED BY <1>4, <1>6

\* Every report of every episode is the one docs/integration.md promises:
\* rewards, deltas, done conditions and info come from the memory of this
\* report and of the one before (RetroEnv.step, GameData::updateRam,
\* Scenario::update), whatever the client does between two of them, when no
\* scenario file has an op or a penalty for its time.
THEOREM ReportsArePromised ==
  ASSUME PlainTimes
  PROVE  Spec => ReportsKept
<1>1. PromiseInv /\ [Next]_vars => PromiseInv' /\ [Promise!Next]_(Promise!vars)
  <2> SUFFICES ASSUME PromiseInv, [Next]_vars
               PROVE  PromiseInv' /\ [Promise!Next]_(Promise!vars)
    OBVIOUS
  <2> QED BY ResetPromised, StepPromised, OtherPromised DEF Next, Promise!Next
<1> QED BY <1>1, PromisedInit, PTL DEF Spec, ReportsKept, Promise!Spec
=============================================================================
