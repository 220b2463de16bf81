-------------------------------- MODULE Movie --------------------------------
(***************************************************************************)
(* Retro::MovieBK2 (src/src/movie-bk2.cpp) over Retro::Zip                 *)
(* (src/src/zipfile.cpp): the .bk2 file, the object that writes one and    *)
(* the object that reads one.  A line of "Input Log.txt" is the set of     *)
(* buttons of every player that it names; the text of the line and of the  *)
(* headers is left out.  Everything a writer holds reaches the file inside *)
(* zip_close, so a writer that is never closed leaves the file as it was.  *)
(***************************************************************************)
EXTENDS Naturals, Sequences

CONSTANTS
  Players,   \* the players of the movie
  Buttons,   \* positions of the button list of the platform
  Named,     \* the positions whose name s_keyNames knows
  NoState    \* no savestate, the empty m_state

ASSUME MovieAssumption == Named \subseteq Buttons

Keys == [Players -> SUBSET Buttons]
NoKeys == [p \in Players |-> {}]

\* A path where no movie was written: none of the entries is there.
Absent == [log |-> <<>>, header |-> FALSE, core |-> NoState, outs |-> <<>>]

\* A writer.  base is the directory of the archive as zip_open found it: an
\* entry that is not written again stays.  outs is history: the consoles seen
\* at every line but the first.
OpenWrite(path, file) ==
  [path |-> path, base |-> file, log |-> <<>>, keys |-> NoKeys,
   state |-> NoState, outs |-> <<>>]

SetState(m, state) == [m EXCEPT !.state = state]

\* set_key for every button of every player.
SetKeys(m, keys) == [m EXCEPT !.keys = keys]

\* step() of a writer; the first one also writes Header.txt.
StepWrite(m) ==
  [m EXCEPT !.log = Append(@, [p \in Players |-> m.keys[p] \cap Named]),
            !.keys = NoKeys]

\* Fault: Core.bin is not written.
CloseDropsState(m) ==
  [log |-> m.log, header |-> m.log # <<>> \/ m.base.header,
   core |-> m.base.core, outs |-> m.outs]

\* The file that close() leaves at the path of a writer.
Close(m) ==
  [log |-> m.log, header |-> m.log # <<>> \/ m.base.header,
   core |-> IF m.state = NoState THEN m.base.core ELSE m.state,
   outs |-> m.outs]

\* Movie::load wants Input Log.txt, Header.txt and Core.bin; a file that has
\* Header.txt has an input log.
Loadable(file) == file.header /\ file.core # NoState

OpenRead(file) ==
  [log |-> file.log, pos |-> 0, keys |-> NoKeys, state |-> file.core]

\* step() of a reader answers false at the end and leaves the keys alone.
AtEnd(r) == r.pos = Len(r.log)

\* Fault: the end of the log reads as one more line without keys.
StepReadPastEnd(r) ==
  [r EXCEPT !.pos = @ + 1,
            !.keys = IF AtEnd(r) THEN NoKeys ELSE r.log[r.pos + 1]]

\* Fault: the keys of the previous line are kept.
StepReadKeepsKeys(r) ==
  IF AtEnd(r) THEN r
  ELSE [r EXCEPT !.pos = @ + 1,
                 !.keys = [p \in Players |-> @[p] \cup r.log[r.pos + 1][p]]]

StepRead(r) ==
  IF AtEnd(r) THEN r
  ELSE [r EXCEPT !.pos = @ + 1, !.keys = r.log[r.pos + 1]]
=============================================================================
