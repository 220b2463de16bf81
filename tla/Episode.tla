------------------------------ MODULE Episode ------------------------------
(***************************************************************************)
(* The episodes of a RetroEnv (src/retro/retro_env.py): reset() and step() *)
(* over PyGameData (src/src/retro.cpp), which owns the GameData, the       *)
(* Scenario and the context of its script, while the console changes the   *)
(* memory from frame to frame and the client calls the methods of env and  *)
(* env.data between them.                                                  *)
(***************************************************************************)
EXTENDS Scenario

CONSTANTS
  Files,      \* the scenario files, one of which the environment is made with
  InfoFiles,  \* data.json files, one of which is loaded first
  StateNamed, \* whether the environment has a state name
  Written,    \* bound: the names the client writes
  Edited,     \* bound: the names whose address the client changes
  MaxFrames   \* bound: frames of an episode

ASSUME EpisodeAssumption ==
  /\ Written \cup Edited \subseteq Names \ {Prev}
  /\ {Score, Lives, Position, Prev} \subseteq Names
  /\ Prev \notin {Score, Lives, Position}
  /\ \A table \in InfoFiles :
       /\ DOMAIN table \subseteq Names \ {Prev}
       /\ \A n \in DOMAIN table : table[n] \in Places \cup {"missing", "bad"}
  /\ \A f \in Files : ScenarioFile(f)
  /\ MaxFrames \in Nat \ {0}

VARIABLES
  file,   \* the scenario file
  ram,    \* the memory of the console
  data,   \* GameData
  scen,   \* Scenario: m_reward, m_totalReward, m_done, m_frame
  lua,    \* the script context
  began,  \* img or ram is set: a reset has succeeded
  ret,    \* what the last reset or step gave
  \* History, of the episode that goes on:
  phase,  \* "none", "running", "moved" (the client changed the variables) or
          \* "broken" (a reset or a step raised)
  start,  \* the score at its reset
  earned, \* the sum of the rewards of its steps
  peak    \* the best score of its reports, when correct_score is used

vars == <<file, ram, data, scen, lua, began, ret,
          phase, start, earned, peak>>

Observation == [kind |-> "observation"]
Error == [kind |-> "error"]

\* The client leaves the variables of the script in the memory.
ScriptsServed(d) ==
  file.lua # {} => \A n \in {Score, Lives, Position} :
                     n \in DOMAIN d.vars /\ d.vars[n] \in Addresses

\* History: the score in a memory, 0 where it cannot be read.
PointsIn(d, mem) ==
  IF LookupValue(d, mem, Score) = {} THEN 0 ELSE Read(d, mem, Score)

ZeroScenario == RestartScenario([frame |-> 0])

\* __init__: a data.json that does not load raises.
Init ==
  /\ file \in Files
  /\ ram \in Memory
  /\ \E table \in InfoFiles :
       LET loaded == ReloadScripts(file, LoadVars(NewData, table))
       IN  /\ Loads(table)
           /\ data = loaded.data
           /\ ScriptsServed(data)
           /\ lua = loaded.lua
  /\ scen = ZeroScenario
  /\ began = FALSE
  /\ ret = [kind |-> "none"]
  /\ phase = "none"
  /\ start = 0
  /\ earned = [p \in Players |-> 0]
  /\ peak = 0
-----------------------------------------------------------------------------
(***************************************************************************)
(* PyGameData.                                                             *)
(***************************************************************************)
\* updateRam: the memory is cloned first, then the scenario looks at it.
DataUpdateRam(s, d, l, now) == Update(file, s, UpdateRam(d, now), now, l)

\* Fault: the context of the script stays.
DataResetKeepsScripts ==
  [lua |-> lua, data |-> [Restart(data) EXCEPT !.customs =
     [n \in DOMAIN data.customs \cap {Prev} |-> data.customs[n]]]]

\* reset: custom variables go before the script makes its own.
DataReset == ReloadScripts(file, Restart(data))
-----------------------------------------------------------------------------
(***************************************************************************)
(* RetroEnv.  The console runs a frame from the initial state, or from     *)
(* where it is, and its memory is anything afterwards.                     *)
(***************************************************************************)
Reset ==
  /\ \E now \in Memory :
       LET fresh == DataReset
       IN  \E after \in DataUpdateRam(ZeroScenario, fresh.data, fresh.lua, now) :
             /\ ram' = now
             /\ data' = after.data
             /\ scen' = after.scen
             /\ lua' = after.lua
             /\ began' = (began \/ after.ok)
             /\ ret' = IF after.ok THEN Observation ELSE Error
             /\ phase' = IF after.ok THEN "running" ELSE "broken"
             /\ start' = PointsIn(data', now)
             /\ earned' = [p \in Players |-> 0]
             /\ peak' = IF "reward" \in file.lua THEN start' ELSE 0
  /\ UNCHANGED file

\* A movie of every episode is wanted and there is no state name for its path:
\* the frame has run and the data is not reset.
ResetFails ==
  /\ ~StateNamed
  /\ ram' \in Memory
  /\ ret' = Error
  /\ phase' = "broken"
  /\ UNCHANGED <<file, data, scen, lua, began, start, earned, peak>>

StepAllowed == began

\* What compute_step returns; the rewards of all players are at hand.
Returned(s, d, now) ==
  [kind |-> "step", reward |-> s.reward, done |-> s.done,
   info |-> LookupAll(d, now)]

Step ==
  /\ StepAllowed
  /\ scen.frame < MaxFrames
  /\ \E now \in Memory :
       \E after \in DataUpdateRam(scen, data, lua, now) :
         /\ ram' = now
         /\ data' = after.data
         /\ scen' = after.scen
         /\ lua' = after.lua
         /\ ret' = IF after.ok THEN Returned(scen', data', now) ELSE Error
         /\ phase' = IF after.ok THEN phase ELSE "broken"
         /\ earned' = IF after.ok
                      THEN [p \in Players |-> earned[p] + scen'.reward[p]]
                      ELSE earned
         /\ peak' = IF "reward" \in file.lua
                    THEN Max({peak, PointsIn(data', now)}) ELSE 0
  /\ UNCHANGED <<file, began, start>>
-----------------------------------------------------------------------------
(***************************************************************************)
(* What the client does between steps.                                     *)
(***************************************************************************)
SetAValue ==
  /\ \E n \in Written, v \in Values :
       /\ Writable(data, ram, n)
       /\ data' = SetValue(data, ram, n, v).data
       /\ ram' = SetValue(data, ram, n, v).ram
  /\ UNCHANGED <<file, scen, lua, began, ret, phase, start, earned, peak>>

Moved ==
  /\ ScriptsServed(data')
  /\ phase' = IF phase = "running" THEN "moved" ELSE phase
  /\ UNCHANGED <<file, ram, scen, began, ret, start, earned, peak>>

SetAVariable ==
  /\ \E n \in Edited, place \in Places : data' = SetVariable(data, n, place)
  /\ Moved
  /\ UNCHANGED lua

RemoveAVariable ==
  /\ \E n \in Edited \cap DOMAIN data.vars : data' = RemoveVariable(data, n)
  /\ Moved
  /\ UNCHANGED lua

\* load() of a data.json, by this object or another one of the process: the
\* contexts of all scripts are dropped first.
LoadInfo ==
  /\ \E table \in InfoFiles : data' = LoadVars(data, table)
  /\ lua' = Blank
  /\ Moved

Next ==
  \/ Reset \/ ResetFails \/ Step
  \/ SetAValue \/ SetAVariable \/ RemoveAVariable \/ LoadInfo

Spec == Init /\ [][Next]_vars
-----------------------------------------------------------------------------
ScenarioState == [reward : [Players -> Int], total : [Players -> Int],
                  done : BOOLEAN, frame : 0 .. MaxFrames]
LuaState == [loaded : BOOLEAN, previous : Int]

\* The data only names places the loader or the client gave it, and the
\* scenario counts no more frames than were reported.
TypeOK ==
  /\ file \in Files
  /\ began \in BOOLEAN
  /\ ram \in Memory
  /\ data \in GameDataState
  /\ scen \in ScenarioState
  /\ lua \in LuaState
  /\ ret.kind \in {"none", "observation", "step", "error"}
  /\ phase \in {"none", "running", "moved", "broken"}
  /\ start \in Int
  /\ earned \in [Players -> Int] /\ peak \in Int

\* A reward of k points per point of the score, and nothing else.
PaysScore(p, k) ==
  /\ file.rewards[p] = {[name |-> Score, measurement |-> "delta", op |-> "none",
                         reference |-> 0, reward |-> k, penalty |-> k]}
  /\ TimeReward(file.time[p]) = 0
  /\ ~Scripted(file, p)

\* The rewards of the steps of an episode add up to what the score grew by
\* since its reset, whatever the client wrote to the memory in between:
\* updateRam keeps two clones and reset() makes one report of its own.
EarnedIsProgress ==
  \A p \in Players, k \in {1, 2} :
    phase = "running" /\ PaysScore(p, k) =>
      earned[p] = k * (PointsIn(data, data.clone) - start)

\* With correct_score they add up to how far the best score of the episode
\* is above the one it began with: no episode sees the best of another.
EarnedIsPeak ==
  phase = "running" /\ "reward" \in file.lua =>
    earned[1] = Max({peak, 0}) - Max({start, 0})

\* A custom variable that hides one of the memory, which takes set_value and
\* then set_variable of the same name, is gone after the reset; an episode in
\* which the client changes no variable has none.
NothingHidden ==
  phase = "running" => DOMAIN data.customs \cap DOMAIN data.vars = {}

\* Every report of an episode is the one docs/integration.md promises: from
\* the memory of this report and of the one before, in this episode.
Going == phase = "running" \/ (phase = "moved" /\ file.lua = {})

Promise == INSTANCE EpisodePromise WITH
  data <- [vars |-> data.vars, customs |-> data.customs],
  seen <- IF Going THEN data.clone ELSE NoMem,
  frame <- scen.frame, going <- Going, over <- scen.done

ReportsKept == Promise!Spec

\* The time of every file is a plain reward per step, as in the docs: the
\* penalty they have beside it is never charged.
PlainTimes ==
  \A f \in Files, p \in Players :
    f.time[p].op = "none" /\ f.time[p].penalty = 0
=============================================================================
