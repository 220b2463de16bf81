-------------------------------- MODULE Lists --------------------------------
(***************************************************************************)
(* The elements of a std::set or the keys of a std::map, as iterating over *)
(* it visits them.                                                         *)
(***************************************************************************)
EXTENDS Naturals, FiniteSets

\* below tells for each element which ones are before it in operator<.
Listed(below) ==
  LET rank == [x \in DOMAIN below |-> Cardinality(below[x])]
  IN  [k \in 1 .. Cardinality(DOMAIN below) |->
         CHOOSE x \in DOMAIN below : rank[x] = k - 1]
=============================================================================
