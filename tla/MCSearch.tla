------------------------------- MODULE MCSearch -------------------------------
(***************************************************************************)
(* Search on two blocks with a gap, bytes of four values, and four pieces  *)
(* of memory in which numbers of one and of two bytes of every type, their *)
(* multiples, numbers below zero and ends of blocks lie across each other. *)
(***************************************************************************)
EXTENDS Search

MCBlocks == <<[base |-> 0, size |-> 3], [base |-> 5, size |-> 2]>>

T(width, big, signed) == [width |-> width, big |-> big, signed |-> signed]
MCTypes == <<T(2, FALSE, TRUE), T(2, TRUE, FALSE), T(2, TRUE, TRUE), T(1, FALSE, FALSE), T(1, FALSE, TRUE)>>

M(a, b, c, d, e) ==
  [i \in Addresses |-> CASE i = 0 -> a [] i = 1 -> b [] i = 2 -> c [] i = 5 -> d [] i = 6 -> e]

MCMemories == {M(0, 1, 1, 2, 1), M(1, 2, 0, 1, 0), M(0, 2, 1, 3, 3), M(3, 3, 1, 0, 2)}
\* The words of two bytes of an overlay like that of the Genesis.
MCWords == <<[base |-> 0, size |-> 4]>>
MCWordMemories ==
  {[i \in Addresses |-> CASE i = 0 -> 0 [] i = 1 -> 1 [] i = 2 -> 2 [] i = 3 -> 3],
   [i \in Addresses |-> IF i = 1 THEN 2 ELSE 1]}

MCWanted == {-2, 0, 1, 2, 6}
MCDeltas == {<<"equal", 0>>, <<"positive", 0>>, <<"negative", 0>>, <<"not-equal", 0>>, <<"equal", 1>>}
=============================================================================
