------------------------------ MODULE MCEpisode ------------------------------
(***************************************************************************)
(* Two variables that matter, one address each and one that is not mapped, *)
(* two players, and one scenario file per feature of the format.           *)
(***************************************************************************)
EXTENDS Episode

Spec1(name, measurement, op, k, penalty) ==
  [name |-> name, measurement |-> measurement, op |-> op, reference |-> 0,
   reward |-> k, penalty |-> penalty]
Test(name, measurement, op) ==
  [name |-> name, measurement |-> measurement, op |-> op, reference |-> 0]
Section(all, tests, nodes) == [all |-> all, tests |-> tests, nodes |-> nodes]
Time(k, penalty) == [measurement |-> "delta", op |-> "none", reference |-> 0,
                     reward |-> k, penalty |-> penalty]
NoTime == [p \in Players |-> Time(0, 0)]
Dead == Test("lives", "absolute", "zero")
Base == [rewards |-> [p \in Players |-> {}], time |-> NoTime,
         nodes |-> [i \in {"done"} |-> Section(FALSE, {Dead}, {})],
         lua |-> {}, base |-> 1]

Score1 == Spec1("score", "delta", "none", 1, 1)

\* The usual file: the score pays, no lives end the episode.
Plain == [Base EXCEPT !.rewards[1] = {Score1}]
\* Every other feature: penalties, absolute values, time, nested nodes.
Rich ==
  [Base EXCEPT
     !.rewards[1] = {Spec1("score", "delta", "sign", 2, 0),
                     Spec1("lives", "absolute", "nonzero", 1, 0)},
     !.rewards[2] = {Spec1("lives", "delta", "none", 0, -1)},
     !.time[2] = Time(1, 0),
     !.nodes = [done |-> Section(TRUE, {Test("lives", "delta", "not-equal")}, {"n"}),
                n |-> Section(FALSE, {Dead, Test("score", "absolute", "positive")}, {})]]
\* Scripts for the first player and for the end.
Scripts == [Base EXCEPT !.lua = {"reward", "done"}, !.rewards[2] = {Score1}]

\* A point per step for the first player, and one less for the second.
Timed == [Base EXCEPT !.time[1] = Time(1, 0), !.time[2] = Time(0, 1)]

MCFiles == {Plain, Rich, Scripts}
MCTimed == {Timed}

Good == [n \in {"score", "lives"} |-> IF n = "score" THEN "a" ELSE "b"]
MCInfoFiles == {Good, [Good EXCEPT !["lives"] = "bad"],
                [Good EXCEPT !["score"] = "missing"]}
\* What the properties and the later steps depend on: the history of the rewards
\* only while an episode runs on unchanged variables, in a file that pays the
\* score.  The next reset begins it anew.
Seen ==
  <<file, ram, data, scen, lua, began, ret, phase,
    IF phase = "running" /\ file # Rich THEN <<start, earned, peak>> ELSE <<>>>>
MCNames == {"score", "lives", "prev"}
=============================================================================
