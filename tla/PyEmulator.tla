----------------------------- MODULE PyEmulator -----------------------------
(***************************************************************************)
(* The Python side of the emulator: PyRetroEmulator (src/src/retro.cpp) as *)
(* RetroEnv (src/retro/retro_env.py) constructs, steps, resets, closes and *)
(* forgets it.  Every environment owns one Emulator and one GameData, so   *)
(* an environment is identified with its emulator.  Garbage that sits in a *)
(* reference cycle is freed when the interpreter collects it, at the       *)
(* latest by the gc.collect() of the next constructor.                     *)
(***************************************************************************)
EXTENDS Emulator

CONSTANT
  DataOf  \* the GameData of an environment

ASSUME PyAssumption ==
  /\ DataOf \in [Emulators -> Datas]
  /\ \A v, w \in Emulators : DataOf[v] = DataOf[w] => v = w

VARIABLES
  status,  \* what the program still holds of each environment
  screen   \* the last picture read: where m_imgData pointed, the library that
           \* was open, and whether RetroEnv itself read it for an observation

pyVars == <<host, status, screen>>

PyInit ==
  /\ Init
  /\ status = [v \in Emulators |-> "absent"]
  /\ screen = [img |-> 0, gen |-> 0, observed |-> TRUE]

\* getScreen copies the picture m_imgData points at.
Screen(s, v, observed) ==
  [img |-> s.em[v].img, gen |-> s.gen, observed |-> observed]

Garbage == {v \in Emulators : status[v] = "garbage"}

\* Objects die in no particular order; only the emulator that is loaded has
\* anything to release.
Collected(s, garbage) ==
  LET t == IF s.loaded \in garbage THEN Destroy(s, s.loaded) ELSE s
  IN [t EXCEPT !.em = [v \in Emulators |->
                         IF v \in garbage THEN FreshEmulator ELSE @[v]]]

\* Fault: the constructor does not run a frame.
ConstructNoFrame(s, v, rom, out) ==
  IF s.loaded # NoEmulator THEN s
  ELSE LET t == LoadRom(s, v, rom, out)
       IN IF t.em[v].romLoaded THEN t ELSE Destroy(t, v)

\* Fault: the constructor runs the frame before it looks at the answer.
ConstructRunsFirst(s, v, rom, out) ==
  IF s.loaded # NoEmulator THEN s
  ELSE LET t == LoadRom(s, v, rom, out)
           r == IF t.loaded = v THEN Run(t, v, t.gen) ELSE t
       IN IF t.em[v].romLoaded THEN r ELSE Destroy(r, v)

\* PyRetroEmulator's constructor: it throws when an emulator is loaded or when
\* the ROM is not, and otherwise runs one frame.  It is the first one of the
\* library, and what a library shows first it has to draw.
Construct(s, v, rom, out) ==
  IF s.loaded # NoEmulator THEN s
  ELSE LET t == LoadRom(s, v, rom, out)
       IN IF t.em[v].romLoaded THEN Run(t, v, t.gen) ELSE Destroy(t, v)

\* RetroEnv.__init__ after the constructor; parses is the answer of data.load.
Configured(s, v, data) == Run(ConfigureData(s, v, DataOf[v]), v, data)

Make(v) ==
  /\ status[v] = "absent"
  /\ \E rom \in Roms, out \in Outcome, parses \in BOOLEAN :
       LET idle == Collected(host, Garbage)
           em == Construct(idle, v, rom, out)
           rest == [w \in Emulators |->
                      IF w \in Garbage THEN "absent" ELSE status[w]]
       IN IF ~em.em[v].romLoaded
          THEN host' = em /\ status' = rest /\ UNCHANGED screen
          ELSE \E data \in Pictures(em, v) :
                 LET env == Configured(em, v, data)
                 IN IF ~parses
                    THEN host' = Destroy(env, v) /\ status' = rest /\ UNCHANGED screen
                    ELSE /\ host' = env
                         /\ status' = [rest EXCEPT ![v] = "open"]
                         /\ screen' = Screen(env, v, TRUE)

EnvStep(v) ==
  /\ status[v] = "open"
  /\ \E mask \in SUBSET Keys, data \in Pictures(host, v) :
       host' = Run([host EXCEPT !.em[v].mask = mask], v, data)
  /\ screen' = Screen(host', v, TRUE)
  /\ UNCHANGED status

\* set_state only when there is an initial state; a Stella that cannot be
\* reloaded ends the process inside set_state, before the frame is run.
EnvReset(v) ==
  /\ status[v] = "open"
  /\ \E stateful \in BOOLEAN, out \in Outcome :
       LET t == IF stateful THEN Unserialize(host, v, out) ELSE host
       IN IF Crashed(t) THEN host' = t
          ELSE \E data \in Pictures(t, v) :
                 host' = Run([t EXCEPT !.em[v].mask = {}], v, data)
  /\ screen' = IF Crashed(host') THEN screen ELSE Screen(host', v, TRUE)
  /\ UNCHANGED status

\* em.set_state, called by the client itself.
RawSetState(v) ==
  /\ status[v] = "open"
  /\ \E out \in Outcome : host' = Unserialize(host, v, out)
  /\ UNCHANGED <<status, screen>>

\* get_screen, called by the client, or by render() when the observations are
\* memory.
GetScreen(v) ==
  /\ status[v] = "open"
  /\ screen' = Screen(host, v, FALSE)
  /\ UNCHANGED <<host, status>>

\* em.get_state
GetState(v) ==
  /\ status[v] = "open"
  /\ host' = Serialize(host)
  /\ UNCHANGED <<status, screen>>

\* Fault: close() keeps the emulator.
CloseKeepsEmulator(v) ==
  /\ status[v] = "open"
  /\ status' = [status EXCEPT ![v] = "closed"]
  /\ UNCHANGED <<host, screen>>

\* close() drops the only reference to the emulator, which dies at once.
Close(v) ==
  /\ status[v] = "open"
  /\ host' = Destroy(host, v)
  /\ status' = [status EXCEPT ![v] = "closed"]
  /\ UNCHANGED screen

\* The program lets go of the environment without closing it: either it dies
\* with its last reference or it waits in a cycle.
Forget(v) ==
  /\ status[v] \in {"open", "closed"}
  /\ \/ /\ host' = Destroy(host, v)
        /\ status' = [status EXCEPT ![v] = "absent"]
     \/ /\ status[v] = "open"
        /\ status' = [status EXCEPT ![v] = "garbage"]
        /\ UNCHANGED host
  /\ UNCHANGED screen

Collect ==
  /\ Garbage # {}
  /\ host' = Collected(host, Garbage)
  /\ status' = [v \in Emulators |->
                  IF v \in Garbage THEN "absent" ELSE status[v]]
  /\ UNCHANGED screen

PyNext ==
  /\ ~Crashed(host)
  /\ \/ Collect
     \/ \E v \in Emulators :
          \/ Make(v) \/ EnvStep(v) \/ EnvReset(v) \/ RawSetState(v)
          \/ GetScreen(v) \/ GetState(v) \/ Close(v) \/ Forget(v)

PySpec == PyInit /\ [][PyNext]_pyVars
-----------------------------------------------------------------------------
\* An environment that is open or lies in a garbage cycle owns the one loaded
\* core, with its ROM running; every other one has released everything, so
\* that after close() a new environment can be made (the error message of
\* PyRetroEmulator's constructor, retro.cpp).
Holds(v) == status[v] \in {"open", "garbage"}

EnvOwnsCore ==
  ~Crashed(host) =>
    \A v \in Emulators :
      /\ Holds(v) => host.loaded = v /\ host.em[v].romLoaded
      /\ ~Holds(v) => host.em[v] = FreshEmulator

\* The library never sees a call libretro.h does not allow from Python, save
\* the dlclose under a running Stella and what follows when Stella cannot be
\* loaded again.
PythonCallsLegal ==
  ~Crashed(host) => host.misuse \subseteq {<<"dlclose", "game">>}

\* Because the constructor runs a frame before the data is configured, an
\* environment on a core with a memory map sees the map, also when the core
\* publishes it as late as its first frame, and one without sees its RAM.
DataSeesMap ==
  ~Crashed(host) =>
    \A v \in Emulators :
      status[v] = "open" =>
        host.spaces[DataOf[v]] =
          {[gen |-> host.gen,
            view |-> IF host.em[v].core \in MapsAtLoad \cup MapsAtRun
                     THEN "map" ELSE "ram"]}

\* "otherwise you get a segfault when you try to get screen for the first
\* time" (retro.cpp, PyRetroEmulator's constructor): an observation is read
\* from the library that is open, also when the core repeats a frame, after
\* states the client has set, and on a Stella that reset has reopened.
ScreenIsLive == screen.observed => screen.img = screen.gen
=============================================================================
