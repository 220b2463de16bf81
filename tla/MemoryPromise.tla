----------------------------- MODULE MemoryPromise -----------------------------
(***************************************************************************)
(* What GameData promises about the memories it keeps: a memory kept is    *)
(* the one of the moment it was taken, whatever happens to the console, to *)
(* its core or to another memory afterwards.  A memory is here just what   *)
(* can be read of it: nothing is shared between two of them.               *)
(***************************************************************************)
CONSTANT Names   \* of searches

VARIABLES
  now,      \* the memory of the console, and copies of it:
  current,  \* of the last update, and
  previous, \* of the one before it; empty when there was none
  baseline  \* name of a search to the memory it saw last

vars == <<now, current, previous, baseline>>
Nowhere == <<>>

Init == now = Nowhere /\ current = Nowhere /\ previous = Nowhere /\ baseline = <<>>

\* The console runs, or is written to, or is another one.
Live == UNCHANGED <<current, previous, baseline>>

Update == /\ previous' = current /\ current' = now
          /\ UNCHANGED <<now, baseline>>

Look(name) == /\ baseline' = [n \in DOMAIN baseline \cup {name} |->
                               IF n = name THEN now ELSE baseline[n]]
              /\ UNCHANGED <<now, current, previous>>

Forget == /\ current' = Nowhere /\ previous' = Nowhere /\ baseline' = <<>>
          /\ now' \in {now, Nowhere}

Next == Live \/ Update \/ Forget \/ \E name \in Names : Look(name)

Spec == Init /\ [][Next]_vars
=============================================================================
