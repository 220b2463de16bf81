------------------------------ MODULE GameData ------------------------------
(***************************************************************************)
(* Retro::GameData (src/src/data.cpp): the variables of a game over the    *)
(* memory of the console.  A variable is named in data.json, or was made   *)
(* by set_value or a script and lives outside the memory (a custom one).   *)
(*                                                                         *)
(* A memory is a function from the addresses of its mapped bytes; the one  *)
(* that is not ok() has none.  How a value is laid out in bytes is left    *)
(* out: an address holds the value of the variable that is there.          *)
(* A look-up that throws is the empty set, one that answers v is {v}.      *)
(***************************************************************************)
EXTENDS Integers

CONSTANTS
  Names,     \* names of variables
  Addresses, \* the mapped addresses
  Unmapped,  \* an address outside every block
  Values     \* what an address can hold

ASSUME GameDataAssumption == Unmapped \notin Addresses /\ Values \subseteq Int

Memory == [Addresses -> Values]
NoMem == [a \in {} |-> 0]
NoTable == [n \in {} |-> 0]
Ok(mem) == mem # NoMem

\* A table that maps the names of some set to what is in S.
Tables(S) == UNION {[N -> S] : N \in SUBSET Names}
Places == Addresses \cup {Unmapped}
With(table, n, x) ==
  [m \in DOMAIN table \cup {n} |-> IF m = n THEN x ELSE table[m]]
Without(table, N) == [m \in DOMAIN table \ N |-> table[m]]

\* m_vars, m_customVars, m_cloneMem, m_lastMem.
GameDataState == [vars : Tables(Places), customs : Tables(Values),
                  clone : Memory \cup {NoMem}, last : Memory \cup {NoMem}]

NewData ==
  [vars |-> NoTable, customs |-> NoTable, clone |-> NoMem, last |-> NoMem]
-----------------------------------------------------------------------------
At(mem, place) == IF place \in DOMAIN mem THEN {mem[place]} ELSE {}

LookupValue(d, ram, n) ==
  IF n \in DOMAIN d.customs THEN {d.customs[n]}
  ELSE IF n \in DOMAIN d.vars THEN At(ram, d.vars[n])
  ELSE {}

\* Between the last two calls of updateRam; a custom variable has none.
LookupDelta(d, n) ==
  IF n \notin DOMAIN d.vars THEN {0}
  ELSE {new - old : new \in At(d.clone, d.vars[n]),
                    old \in IF Ok(d.last) THEN At(d.last, d.vars[n])
                            ELSE At(d.clone, d.vars[n])}

\* A variable that cannot be read is left out without a word.
LookupAll(d, ram) ==
  LET readable == {n \in DOMAIN d.vars : d.vars[n] \in DOMAIN ram}
  IN  [n \in readable \cup DOMAIN d.customs |->
        IF n \in readable THEN ram[d.vars[n]] ELSE d.customs[n]]
-----------------------------------------------------------------------------
(***************************************************************************)
(* setValue writes to a custom variable, else to the memory, else it makes *)
(* a custom variable; it throws when the variable is in no block.          *)
(***************************************************************************)
InMemory(d, n) == n \in DOMAIN d.vars \ DOMAIN d.customs
Writable(d, ram, n) == InMemory(d, n) => d.vars[n] \in DOMAIN ram
SetValue(d, ram, n, v) ==
  IF InMemory(d, n)
  THEN [data |-> d, ram |-> [ram EXCEPT ![d.vars[n]] = v]]
  ELSE [data |-> [d EXCEPT !.customs = With(@, n, v)], ram |-> ram]

SetVariable(d, n, place) == [d EXCEPT !.vars = With(@, n, place)]
RemoveVariable(d, n) == [d EXCEPT !.vars = Without(@, {n})]

(***************************************************************************)
(* load: file maps the names of data.json to their address, to "missing"   *)
(* for an entry without an address or a type, or to "bad" for one whose    *)
(* type is too short or unknown.  A missing one gives the old table back.  *)
(***************************************************************************)
Loads(file) == \A n \in DOMAIN file : file[n] # "missing"
\* Fault: an entry with a bad type is kept.
LoadVarsKeepsBad(d, file) ==
  IF Loads(file) THEN [d EXCEPT !.vars = file] ELSE d

LoadVars(d, file) ==
  IF Loads(file)
  THEN [d EXCEPT !.vars =
         Without(file, {n \in DOMAIN file : file[n] = "bad"})]
  ELSE d

\* Fault: the custom variables outlive the episode.
RestartKeepsCustoms(d) == d
Restart(d) == [d EXCEPT !.customs = NoTable]

\* Fault: the memory is cloned before the older clone is moved away.
UpdateRamClonesFirst(d, ram) == [d EXCEPT !.last = ram, !.clone = ram]
UpdateRam(d, ram) == [d EXCEPT !.last = d.clone, !.clone = ram]
=============================================================================
