--------------------------- MODULE EpisodePromise ---------------------------
(***************************************************************************)
(* What docs/integration.md promises of an episode, for the variables of   *)
(* a scenario: a reward is computed from "the current state of memory",    *)
(* a delta is "the difference between the current and previous value", a   *)
(* done condition holds if "any" or "all" of its conditions do, a step     *)
(* adds the reward of its "time" and subtracts the penalty.  seen is the   *)
(* memory at the previous report of the episode, frame the number of its   *)
(* reports.  Nothing is promised of an episode after a call that raised.   *)
(***************************************************************************)
EXTENDS Scenario

CONSTANTS Files

VARIABLES file, data, ram, seen, frame, going, over, ret

vars == <<file, data, ram, seen, frame, going, over, ret>>

TheValue(d, now, n) ==
  CHOOSE v \in LookupValue(d, now, n) : TRUE
TheDelta(d, now, before, n) ==
  IF n \in DOMAIN d.vars THEN now[d.vars[n]] - before[d.vars[n]] ELSE 0

Worth(d, now, before, spec) ==
  Measure(spec, TheValue(d, now, spec.name), TheDelta(d, now, before, spec.name))

VarWorth(d, now, before, specs) ==
  Total([spec \in specs |-> Weigh(Worth(d, now, before, spec), spec)])

\* "reward: A value to be added to the reward function every step. penalty: A
\* value to be subtracted from the reward function every step."
TimeWorth(time) == time.reward - time.penalty

\* "any" and "all" of the conditions of a section.
Holds(f, d, now, before) ==
  LET legible(n) == /\ LookupValue(d, now, n) # {}
                    /\ n \in DOMAIN d.vars => d.vars[n] \in DOMAIN now
      true(spec) == legible(spec.name) /\ Worth(d, now, before, spec) > 0
      holds[i \in DOMAIN f.nodes] ==
        IF f.nodes[i].all
        THEN (\A t \in f.nodes[i].tests : true(t))
             /\ \A j \in f.nodes[i].nodes : holds[j]
        ELSE (\E t \in f.nodes[i].tests : true(t))
             \/ \E j \in f.nodes[i].nodes : holds[j]
  IN  holds["done"]
-----------------------------------------------------------------------------
Init ==
  /\ file \in Files
  /\ data \in [vars : Tables(Places), customs : Tables(Values)]
  /\ ram \in Memory
  /\ seen = NoMem
  /\ frame = 0
  /\ ~going /\ ~over
  /\ ret = [kind |-> "none"]

\* The client writes variables, or changes what they are.
Touch ==
  /\ data' \in [vars : Tables(Places), customs : Tables(Values)]
  /\ ram' \in Memory
  /\ UNCHANGED <<file, seen, frame, going, over, ret>>

Begin ==
  /\ data' \in [vars : Tables(Places), customs : Tables(Values)]
  /\ ram' \in Memory
  /\ seen' = ram'
  /\ frame' = 1
  /\ going' = TRUE
  /\ over' \in BOOLEAN
  /\ ret' = [kind |-> "observation"]
  /\ UNCHANGED file

\* xpos_done promises less: that after a report that was not "over" it is over
\* if a life was lost since, the end of the level passed or the time up.
Step ==
  /\ going
  /\ data' \in [vars : Tables(Places), customs : Tables(Values)]
  /\ ram' \in Memory
  /\ seen' = ram'
  /\ frame' = frame + 1
  /\ over' = ret'.done
  /\ ret'.kind = "step"
  /\ ret'.info = LookupAll(data', ram')
  /\ \A p \in Players : ~Scripted(file, p) =>
       ret'.reward[p] = TimeWorth(file.time[p])
                        + VarWorth(data', ram', seen, file.rewards[p])
  /\ IF "done" \notin file.lua
     THEN ret'.done = Holds(file, data', ram', seen)
     ELSE ~over => ret'.done =
            \/ TheValue(data', ram', Lives) < TheValue(data', seen, Lives)
            \/ TheValue(data', ram', Position) > LevelEnd
            \/ frame >= FrameLimit
  /\ UNCHANGED <<file, going>>

Raise ==
  /\ data' \in [vars : Tables(Places), customs : Tables(Values)]
  /\ ram' \in Memory
  /\ seen' = NoMem
  /\ frame' \in Nat
  /\ over' \in BOOLEAN
  /\ ~going'
  /\ ret' = [kind |-> "error"]
  /\ UNCHANGED file

\* A step after a call that raised, but never before the first reset.
Unpromised ==
  /\ ~going /\ ret.kind # "none"
  /\ data' \in [vars : Tables(Places), customs : Tables(Values)]
  /\ ram' \in Memory
  /\ ret'.kind = "step"
  /\ over' = ret'.done
  /\ frame' \in Nat
  /\ UNCHANGED <<file, seen, going>>

\* The client changes a variable that a script keeps its own copy of.
Disown ==
  /\ going /\ ~going' /\ seen' = NoMem
  /\ data' \in [vars : Tables(Places), customs : Tables(Values)]
  /\ UNCHANGED <<file, ram, frame, over, ret>>

Next == Touch \/ Begin \/ Step \/ Raise \/ Unpromised \/ Disown

Spec == Init /\ [][Next]_vars
=============================================================================
