# Verification of stable-retro

stable-retro turns games of old consoles into gym environments: it loads a libretro core (the emulator of one
console) into the process, steps it frame by frame, reads variables out of its memory, computes rewards and
ends of episodes from them, and records and plays movies. This directory holds TLA+ models of that code, the
TLC runs that check them on small instances, and TLAPS proofs of the theorems that hold for every instance.
Paths below are relative to the repository, whose C++ code is in `src/` and whose Python package is in
`retro/`; the models' `map` in `PROJECT.json` gives the lines of every definition.

Run a model with `tlc -config MCEmulator.cfg MCEmulator` and check proofs with `tlapm EmulatorProofs.tla`.

## 1. Inventory

| component | code | state | modules |
|---|---|---|---|
| Emulator | `src/emulator.{h,cpp}`, `src/coreinfo.cpp` | the static `s_loadedEmulator` and `retro_*` pointers; per object `m_coreHandle`, `m_core`, `m_romLoaded`, `m_romPath`, `m_addressSpace`, `m_map`, `m_imgData`, `m_buttonMask` | `Emulator`, `EmulatorProofs` |
| Python binding and life cycle of RetroEnv | `src/retro.cpp`, `retro/retro_env.py` | which environments the program holds, has closed, or left in a reference cycle | `PyEmulator`, `EmulatorProofs` |
| Movies | `src/movie*.cpp`, `src/zipfile.cpp` | an open `.bk2` writer or reader, the entries of the archive | `Movie` |
| Recording and playback | `retro_env.py`, `retro/scripts/playback_movie.py` | `movie`, `movie_path`, `movie_id`, `auto_record`, the initial state; the player's loop | `Replay`, `ReplayPromise`, `ReplayProofs` |
| GameData and variables | `src/data.cpp` | `m_vars`, `m_customVars`, `m_cloneMem`, `m_lastMem` | `GameData` |
| Scenario and scripts | `src/data.cpp`, `src/script*.cpp` | `m_reward`, `m_totalReward`, `m_done`, `m_frame`; the globals of a Lua context | `Scenario`, `Operation` |
| Episodes | `retro_env.py` over `PyGameData` | what `reset` and `step` keep and return | `Episode`, `EpisodePromise`, `EpisodeProofs` |
| Search | `src/search.cpp`, searches of `GameData`, `performSearch` of the UI | the results of a search, its types, the baseline of the next delta | `Search`, `Operation`, `Numbers`, `Lists`, `SearchProofs` |
| Action spaces | `retro_env.py`, actions of `src/data.cpp` | the table of allowed combinations, what every pad holds | `ActionSpace`, `Lists`, `ActionSpaceProofs` |
| Memory | `src/memory.{h,cpp}`, the memories of `GameData` | blocks of the address spaces, who owns their buffers, overlays | `DataTypes`, `Numbers`, `Memory`, `MemoryPromise`, `MemoryProofs` |
| Integration UI | `src/ui/EmulatorController.{h,cpp}`, `MainWindow.{h,cpp}` | the running game, its timer, movie, initial state and episode | `EmulatorController`, `ControllerProofs` |
| Files of integrations | `retro/data/__init__.py`, `retro/testing/tools.py` | none: lookups in the file system | not modelled |
| Image operations, JSON, Cap'n Proto | `src/imageops.cpp`, `src/data-capnp.cpp` | none: conversions | not modelled |
| Cores and vendored code | `cores/`, `third-party/` | external | external |

### What each component does, what is hard in it, and when it is right

**Emulator.** Operations: `loadRom`, `loadCore`, `unloadRom`, `unloadCore`, the destructor, `run`, `reset`,
`serialize`, `unserialize`, `setKey`, `configureData`, and the memory map callback of the environment. All
`Emulator` objects share *one* library: the pointers to its functions are static. A Stella core is closed and
opened again inside `reset`, under its running game. GameData's blocks and `m_imgData` alias memory of the
library. Right when one object owns the library, the calls come in the order `libretro.h` asks for, and
nothing attached points into a library that is gone.

**Python binding and RetroEnv.** `RetroEnv.__init__` makes a `PyRetroEmulator`, whose constructor throws when
another one is loaded; `close()` drops it, or the garbage collector does, at a moment of its own. Right when
an environment that is open owns the core, one that is closed leaves it free for the next, and no frame is
read out of a closed library.

**Movies, recording and playback.** A movie is written entirely when it is closed (`zip_close`), on top of the
entries an older file has. `reset` writes the line of its own frame, which the player skips. Movies end
because of the next episode, `record_movie`, `stop_record`, garbage collection, or the end of the process.
Right when a movie that loads plays back to the same consoles and no movie is lost or half written.

**GameData, Scenario, scripts, Episode.** `updateRam` moves the current clone of the memory to the previous
one, clones the memory, and lets the scenario look at it; deltas are between the two. `reset` restarts the
data, runs the scripts in a new context and takes one report. Look-ups may throw in the middle of all this;
done conditions are visited in the order of a hash table; scripts keep their own memory between frames; the
client may write values and change the variables between any two steps. Right when every report is computed
from the memory of this frame and of the previous one *of this episode*, and nothing of an older episode is
left.

**Search.** `search` finds a number in any type, as itself or scaled or off by one; `delta` finds what
changed; each is intersected with the results before. Right when the results are ordered (the intersection
relies on it), are consistent with all that was said, and do not lose the variable. A search looks at the
memory in two ways, at the bytes of the core and through the overlay of its platform, which turns words on
Genesis, Sega CD, 32X and Saturn.

**Action spaces.** The four `retro.Actions` are four ways to write what pads hold. Right when a filtered space
has exactly the joint actions the scenario allows and every action can be played.

**Memory.** A `GameData` looks into the memory of the core through one address space, and keeps copies of it:
of the last two frames, and one per search. The copies own their buffers and hand them on by moving, so a view
that was moved from must not close what it gave away. Numbers have eight byte orders and four kinds of digits,
and on some platforms the core keeps the bytes of a word swapped: an overlay turns whole words, wherever a
number begins or ends in them. Right when a copy is the memory of its moment, every buffer is owned once, and
reading or writing a number touches just its bytes.

**Integration UI.** One thread runs menu entries, keys and the timer, and slots call slots: opening a movie
loads a game, which stops the movie before, starts, and updates the scenario, which in recording mode may
begin the next episode. A tick is one frame, or four. Loading may fail after half of it was done. Right when
frames are asked only of a core that runs a game, the memories of the reports belong to one episode, the timer
is on exactly when the game goes on, movies show what was recorded and end, and the movie of an episode is not
written over.

**Interactions.** RetroEnv calls the binding, the binding the C++ objects, all in one thread.
`Emulator::configureData` fills the `AddressSpace` of a `GameData` with pointers into the core; scripts call
back into `GameData` from inside `Scenario::update`; a recording process and a player share nothing but files.
There is no thread in the modelled code. What interleaves is the order of the calls of several clients of one
process, the garbage collector, the two processes of recording and playback, and, in the window, the user and
the timer.

## 2. The modules and the code

```
MCEmulator ─ Emulator
MCPyEmulator ─ PyEmulator ─ Emulator
MCReplay ─ Replay ─ Movie            Replay  implements  ReplayPromise
MCEpisode ─ Episode ─ Scenario ─ GameData, Operation
                                     Episode  implements  EpisodePromise
MCSearch ─ Search ─ Operation, Numbers, Lists
MCActionSpace ─ ActionSpace ─ Lists
MCController ─ EmulatorController ─ Movie, Emulator
MCMemory ─ Memory ─ DataTypes ─ Numbers
                                     Memory  implements  MemoryPromise

EmulatorProofs ─ PyEmulator ─ Emulator
ReplayProofs ─ Replay                        EpisodeProofs ─ Episode, ListProofs
MemoryProofs ─ Memory, ListProofs            ControllerProofs ─ EmulatorController, ListProofs
SearchProofs ─ Search, ListProofs            ActionSpaceProofs ─ ActionSpace, ListProofs
ListProofs ─ Lists, Numbers
```

**Emulator.** One record `host` is the static state, the objects and the attached address spaces; each member
function is an operator from host to host, so that calling another function is composition (`Destroy` is
`UnloadCore` after `UnloadRom`, `Unserialize` on Stella contains `Reset`, which contains `Reload`, which
contains `LoadRom`). An opened library gets a fresh generation number; a pointer into library memory is the
generation it points into, 0 for null. The library itself is external: `phase` is where it is in its life and
`misuse` collects every call made in a phase in which `libretro.h` does not allow it. `Outcome` says how far
one `loadRom` gets. A frame hands out a picture, or none when the core is one of `Dupes`, which repeat a
picture by sending NULL: `VideoRefresh` then keeps the old one, as `cbVideoRefresh` does, whose environment
tells cores that they may (`GET_CAN_DUPE`). A core has drawn something by its first frame, and Stella always
draws, which is how the cores of the repository behave. A call into a closed library ends the process
(`Crashed`). A caller keeps the assertions in the member functions (those that name the loaded emulator) and
is otherwise arbitrary.

**PyEmulator** drives the same record the way the binding and RetroEnv do: `Make` is the whole of
`RetroEnv.__init__` (the garbage collection, the constructor with its frame, the data, the second frame, and
the clean-up when the data does not load), `EnvStep`, `EnvReset`, `Close`, `Forget` the methods, `Collect` the
collector. `RawSetState` is a client that calls `em.set_state` itself. `screen` is the picture last read: the
generation it points into, the one open then, and whether it is an observation or the client read it itself.

**Movie / Replay.** `Movie` is the `.bk2` file with its writer and its reader. `Replay` has a recording
process (`Make`, `Reset`, `ResetAuto`, `ResetFails`, `Step`, `StartMovie`, `StopRecord`, `AutoRecord`,
`LoadState`, `CloseEnv`, `Collect`, `Die`) and a playing one (`LoadMovie`, `PlayFrame`, `PlayMore`,
`PlayEnd`). `PlayMore` is the frames that `--ending` adds after the last line (`Endings`). With several
players every frame of the player ends in a TypeError (`Failed`): `multi_rewards` is never set, so `score[p]
+= reward[p]` indexes a number. The console is deterministic: its state is where it started from and its
inputs since. `outs` and `tape` are history, the consoles that were there during the recording. `Habits` says
what the client may do.

**GameData / Scenario / Operation.** A memory maps addresses to values; the memory that is not `ok()` is the
empty function. Looking up is a set of at most one value, empty when the code throws. `Operation` is
`calculate` and the operators of rewards, conditions and delta searches. The done section gives the set of the
outcomes that some order of the hash table gives. Two scripts stand for those shipped: `CorrectScore` is
`correct_score` of Guardian Legend (a global of its context), and `XposDone` is `xpos_done` of the Sonic games
(a life lost, against the custom variable `Prev`; a position past the end of the level; the limit of frames).
The section of the time is a spec like those of the variables, with a measurement, an op and a reference
(`TimeReward`).

**Episode** is RetroEnv over PyGameData: `Reset`, `ResetFails` (automatic recording without a state name),
`Step`, and the client's `SetAValue`, `SetAVariable`, `RemoveAVariable`, `LoadInfo`. `phase`, `start`,
`earned` and `peak` are history variables: whether the variables were changed during the episode, the score at
its reset, the sum of its rewards, its best score. `EpisodePromise` is written from `docs/integration.md`,
with a count of frames of its own; it subtracts the penalty of the time at every step.

**Search** keeps the search of one name. A result is an address, a way (a multiplier, a divisor or a bias) and
a type. `Runs` and `ZerosBefore` are the byte by byte search of a number (`Low`, its bytes from the lowest one
on); `Left` is how far the one iterator of `reduceOnTypes` has come after each block, and `Reached` what it
stops at. `Passed` is how much of the new results `intersectCurrent` has walked over at each of the old ones,
`Kept` the old ones it keeps. `mem` is the memory as the console has it, which is what the overlay shows:
`Turned` is the size of its words, `Stored` the byte that lies at an address of the block. As in the code the
first byte of a number is compared with the block (`Holding`), its other bytes (`Beside`) and the number
itself (`Decode`) are read through the overlay. `Listed`, of the module `Lists`, is a set in the order of a
`std::set`: each element at the place given by the number of those before it. `open` is history: all results
consistent with what was said.

**ActionSpace.** A mask of buttons is the set of its buttons; `table` is the C++ map from the mask of a group
to its combinations, which `ValidActions` reads in the order of the integers (`Below`: of the buttons in which
two masks differ, the greater one has the highest). `Rest` is what `action_to_array` has left of a number
after each digit.

**EmulatorController** is the window: one record `app`, each slot an operator from it to the next, so that a
slot that calls others is their composition (`PlayMovie` is `LoadMovie`, in it `FindGame`, in it `LoadGame`,
`StopMovie`, `GameChanged` and `Start`, and then `UpdateScenario`). It instantiates `Emulator` for the core
with its legal calls and extends `Movie` for the files. `Tick` is the timer, `Step` the single step, `RunOnce`
up to four `RunOneStep`. The screen has the focus or not (`away`): `ClickScreen` and `ClickElsewhere` move it,
starting a game takes it, and it pauses the game or lets it go on (`SetFocus`, the event filter of `Screen`).
`Bound` are the players to whose pads the keyboard is bound. `tape`, `shown` and the `outs` of a movie are
history. With `Careful` the user opens no ROM that fails over a running game and records without a savestate
only on a new path; both faults are described below.

**DataTypes** is `DataType` and `MemoryOverlay` as operators on functions from offsets to bytes. `Rank` is the
order in which the constructor fills `shift`; `Decode` and `Encode` are the loops over it, and `Numeral` and
`Wrapped` say the same by writing the digits highest first and evaluating them.

**Memory** has a heap of buffers (regions of the cores, and what `mmap` gives) and the address spaces of
`GameData`. `Clone`, `Move` and `Release` are `AddressSpace::clone`, the move assignment and `close`, with
`Left` for the view that was moved from. `ReadByte`, `ReadConst`, `ReadDatum` and `Write` are the four ways to
a number. `MemoryPromise` knows no buffers: a copy there is a value. The pool of buffers is a bound: a step
that needs more of them than are free is not taken (`Room`).

Operators that begin with a comment "Fault:" are not used by any specification. They are wrong versions of the
operator below them, kept to show that each property notices one.

## 3. The runs

| run | result | states | what it shows |
|---|---|---|---|
| `emulator` | holds | 50,025 | any calls on two Emulator objects: types, one owner, live address space, legal life cycle, which calls reach a closed library, a second load is refused and changes nothing |
| `py_emulator` | holds | 2,960 | environments made, stepped, reset, closed, forgotten, collected in any order, with states set by the client and a core that repeats pictures: the open one owns the core, only the known misuse of Stella reaches the library, data sees the memory map, every observation is of the library that is open |
| `replay` | holds | 1,570,800 | every movie of one player that loads plays to the consoles recorded and to its end (`ReplayPromise` is implemented); no recording is lost except by the death of the process; an automatic movie is absent or complete |
| `episode` | holds | 269,608 | a usual scenario, a scripted one and one with nested conditions, operators, penalties and time, while the client writes values and adds, moves, removes and reloads variables: the rewards add up to the progress of the score (to its peak, with the script), every report is the promised one (`EpisodePromise` is implemented), no custom variable hides one of the memory |
| `actions` | holds | 1,265 | pads hold only what the filter allows; the filtered spaces contain exactly the allowed joint actions, a Discrete one without repetition |
| `search` | holds | 8,736 | on an overlay that turns no words: results stay ordered, fit everything said, keep the variable looked for, and a variable the UI takes was the only one left |
| `controller` | holds | 248,858 | the window with its user, its timer, its focus and its movies: frames only of a running core, reports of one episode, the timer against the pause, movies of player 0 played as recorded and to their end (also under fairness), no episode written over |
| `memory` | holds | 310,132 | the memories kept are those that were taken (`MemoryPromise` is implemented), every buffer has one owner, numbers of all orders and digits read and write through an overlay as byte by byte |
| `replay_mid_episode` | violated | | finding 1 |
| `episode_time_penalty` | violated | | finding 2 |
| `search_turned_words` | violated | | finding 3 |
| `controller_broken_rom` | violated | | finding 4 |

### Where code and documents disagree

1. **A movie that is not one episode.** `record_movie` takes the initial state for the start of the movie
   wherever the episode is, and `reset` goes on with a movie although it restores the savestate. The file has
   one savestate and no mark of a reset, so a second reset is a line without keys that the player runs from
   where the first one was, and a movie begun in an episode loses its first line to the one that is skipped;
   against `docs/python.md`: "you will see the same output each time you play back this file".
2. **The penalty of time.** `docs/integration.md` says it is subtracted from the reward at every step.
   `calculateReward` gives the time the constant measure 1, and a penalty counts only for a measure below
   zero, so it is never charged. In the run it is 1, and so is the difference.
3. **Searches under an overlay of words.** `searchByte` compares the first byte of a number with the block of
   the core, and the other bytes, as well as the numbers, are read through the overlay. On Genesis, Sega CD,
   32X and Saturn the first byte is found at the other end of its word, and unless the bytes of the word are
   equal the number is shown in no format, not even that of a single byte.
4. **A ROM that does not load.** `loadGame` unloads the running core first; when the new ROM does not load,
   `m_running` and the timer stay on, and the next tick runs an emulator without a core, against the assertion
   at `src/emulator.cpp:139`.

Seen while modelling, against a document, but without a run. The properties leave these cases out, each by the
constant that is named:

- `s_keyNames` of `src/movie-bk2.cpp` has no RESET, PAUSE, RUN and I to VI, so movies of Atari 2600, Master
  System and PC Engine drop them and play back something else (`Named`, `Inputs`).
- A movie of several players does not play: the first frame of `playback_movie.py` ends in the TypeError of
  section 2 (`Players`).
- A movie recorded without a savestate over an older file keeps the older savestate and plays from there (the
  habit `"stateless"`).
- The window records only the keys of player 0 though the keyboard may be bound to other players, so its
  movies lack them (`Bound`), and `stopMovie` releases only those of player 0; and a movie of the window has
  the keys of its first frame in the line that `load_movie` of `playback_movie.py` skips, so a key held at the
  start shifts nothing but is missing there.
- A MultiDiscrete space of several players has an entry per group and player, `action_to_array` cuts it in
  parts of `num_buttons`, and every action raises IndexError (`Kinds`).
- Results of wide types in later blocks are lost once a candidate crosses the end of a block, because
  `reduceOnTypes` uses one iterator for all blocks, while the format of one byte at the same place is shown
  (`Owed`).
- The constructor of the binding runs a frame so that reading the screen never touches a null pointer (the
  comment at `src/retro.cpp:44`), but on Stella `em.set_state` reopens the library, and `em.get_screen` before
  the next `em.step` reads a picture of the closed one (`observed`: `ScreenIsLive` is about observations).

About nothing a document says: negative numbers are not found in wide big-endian signed types; scaled and
biased results vanish with the first delta search, and the UI drops the scale of the result it takes; with
`State.NONE` `reset` does not go back to power-on; a variable that is not mapped is left out of `info` without
a word; `m_totalReward` includes the report that `reset` takes itself, whose delta spans two episodes;
`loadMovie` has replaced the initial state when it finds no ROM; opening a file of any kind that is a broken
ROM goes on to open it as a movie and as a savestate, whose name the next episode then bears; fast forward
runs up to three frames past the end of a movie; a write to a variable with a mask clears the bits of its byte
outside of the mask.

## 4. Bounds, and why they are enough

- `emulator`, `py_emulator`: two objects (the singleton has only "me" and "another one"), one core of each
  kind that the code treats differently (maps its memory at load, at the first frame, Stella, none for the
  path), one data object per emulator or one shared. `MaxOpens` bounds `dlopen`: 2 and 3 generations give a
  library before, the one now, and one after a reload; a further `dlopen` behaves like one that fails, which
  the code has to bear anyway. The two emulators are symmetric in `emulator`; the checked formulas name
  neither of them.
- `replay`: one player with two buttons, one of which has a key name and is pressed; two savestates; a player
  that adds one frame after the last line (`replay_mid_episode`: none); `MaxFrames = 3` frames since a
  savestate, so a movie has the line of reset and up to two of steps; `MaxMovies = 2`, so a movie is written
  over or next to an older one. Longer movies repeat the middle frame.
- `episode`: one variable that pays and one that ends the episode, values 0 and 1, two addresses and one in no
  block; `MaxFrames = 3` is the report of `reset` and two steps, enough for a delta within the episode and one
  over its beginning, and any number of episodes follow one another. `Files` has a file per feature,
  `InfoFiles` a good data.json, one with a bad type and one without an address. `Written` and `Edited` bound
  what the client touches. `VIEW Seen` drops the history of the rewards where neither a property nor a later
  step reads it: after the variables were changed, until the next reset, and in the file that does not pay the
  score alone. `episode_time_penalty` has a file with a penalty of time.
- `actions`: four buttons, two pads, a platform's list in both orders and three scenarios. All groups have the
  empty combination, share no button and are no more than the buttons, which is what the shipped lists satisfy
  (`ActionAssumption`); all 16 masks of every player are played.
- `search`: bytes of 4 values, with 2 and 3 in the place of 16 and 10 for the packed digits, keep carries,
  signs and scaling while the memory stays five bytes: two blocks with a gap, four contents, both byte orders,
  widths 1 and 2, signed and unsigned. The number of searches is not bounded. `search_turned_words` has two
  words of two bytes, turned.
- `controller`: one game that loads, one ROM that does not, one savestate, one button; two movies of RetroEnv,
  with and without the name of the game, and up to two recorded ones; `MaxFrames = 1` tick since the last
  start outside of playback, `Extra = 2` in the place of the 3 frames of fast forward, so recorded movies have
  one frame or the several of a fast tick, and a movie ends in the first, a middle or the last frame of a
  tick; two cores opened, so a game is replaced by another one. Episodes are done by one of the two pads, so
  they begin and end on their own.
- `memory`: bytes of 16 values (`Nib = 4`, `Ten = 3`, and 2^16 values of a full integer) keep the carries and
  the digits that are no decimal ones, with numbers of one to four bytes in all orders; a core with two blocks
  and an overlay of words, a core without a pointer; one search, two contents of the console and one write.
  `Pool` has a buffer for every block of every copy, so `Room` refuses no step. Numbers are looked at while no
  copy exists, since reads of the console's memory involve nothing else.

`CHECK_DEADLOCK FALSE` stands where the modelled process ends (a crash, a closed environment that used up its
`dlopen` calls or movies). The episode, action, search, window and memory models never stop, and deadlock is
checked.

Fairness: a player comes to the end of its movie. In `replay`, `WF(PlayFrame \/ PlayMore \/ PlayEnd)` is the
loop `while True` of `playback_movie.py`, a process of its own that waits for nothing. In `controller`,
`Fires` is the 16 ms timer of the window: a timer that stays on fires (weak fairness of `Tick`, written out
because TLC evaluates ENABLED of the composed slots slowly). Nothing is assumed of the recorder, which may
stop or be killed at any point, nor of the user, who may pause and stay away; hence `PlaybackEnds` speaks of a
playback that is not paused.

## 5. What is proved

Each theorem holds for all values of the constants that satisfy the named assumptions of the modules
(`CoreAssumption`, `PyAssumption`, ...), which say what TLC confirms of the instances: that the markers like
`NoMovie` are no values of what they mark the absence of, that bounds are numbers, and what is said below. TLC
has checked the inductive invariants, or the properties they imply, before they were proved.

| theorem | states | of |
|---|---|---|
| `TypeCorrect`, `OneOwner`, `LegalLifecycle` | `TypeOK`, `SingleOwner`, `LifecycleLegal` | `Emulator` |
| `AttachedNeverDangles`, `OnlyReloadReachesClosed`, `SecondLoadChangesNothing` | `AttachedIsLive`, `ClosedLibraryCalls`, `SecondLoadRefused` | `Emulator` |
| `EnvironmentOwnsCore`, `OnlyReloadMisuses`, `DataOverMap`, `FrameIsLive` | `EnvOwnsCore`, `PythonCallsLegal`, `DataSeesMap`, `ScreenIsLive` | `PyEmulator` |
| `MoviesTyped`, `AutoRecordedLoads`, `OnlyDeathLosesMovies`, `MoviesShowWhatWasPlayed` | `TypeOK`, `AutoMoviesLoad`, `NoMovieLost`, the safety part of `ReplayKept` | `Replay` |
| `NothingStaysHidden`, `BestScoreIsPaid`, `ProgressIsPaid` | `NothingHidden`, `EarnedIsPeak`, `EarnedIsProgress` | `Episode` |
| `EpisodeTypes`, `ReportsArePromised` | `TypeOK`, `ReportsKept` (the refinement of `EpisodePromise`) | `Episode` |
| `BuffersOwnedOnce`, `MemoriesKept` | `OwnedOnce`, `KeepsMemories` | `Memory` |
| `MemoriesTyped`, `NumbersReadAsBytes`, `WrittenReadsBack`, `WritesKeepOtherBytes` | `TypeOK`, `ReadsAsBytes`, `WriteReads`, `OnlyItsBytes` | `Memory` |
| `NumeralsAreSums`, `EncodedReadsBack` | (no property of a run) | `DataTypes` |
| `TimerFollowsPause`, `ReportsAreFresh`, `EpisodesAreKept`, `CarefulUserRunsLoaded` | `TimerMatches`, `ReportsFresh`, `EpisodesKept`, `RunsLoaded` | `EmulatorController` |
| `WindowTyped`, `MoviesShowTheirTapes`, `PlaybackReachesItsEnd` | `TypeOK`, `PlaysTheTape`, `EndsTheTape` | `EmulatorController` |
| `ResultsStayOrdered`, `ResultsFitTheSearch`, `IntersectionIsExact` | `OrderedByAddress`, `NothingRefuted`, (no property of a run) | `Search` |
| `NothingIsLost`, `TakenWasTheLast`, `SearchFinds` | `NothingLost`, `TakenIsLast`, (no property of a run) | `Search` |
| `OnlyFilteredReaches`, `SpacesAreFiltered` | `OnlyFiltered`, `SpaceIsFiltered` | `ActionSpace` |

**Emulator** (`EmulatorProofs`). `SingleOwner` alone is not inductive in a useful form: that `unloadRom` is
called in phase "game" follows from the owner's `m_romLoaded`, that the phase is the one of *this* object
follows from there being one owner, and both need the types. `OwnerInv` joins `Typed`, `OwnsCore` of every
object, the closed phase when nobody is loaded, and `Lifecycle`. There is one lemma per member function, "from
`OwnerInv(s)` to `OwnerInv(F(s))`", cited where the code calls that function; `reset` is the interesting one,
because the library is closed under a running game and the invariant holds again only after `s_loadedEmulator`
is cleared and `loadRom` has answered, whatever its answer.

**Address spaces** (part 2 of it). A block is live because the memory map it was made of is: `HostInv` ties
the memory map of every object to the generation of the open library, says that a core that maps no memory has
none, and which kinds of misuse there can be.

**Python** (part 3). `PyInv` is a predicate on the host, the status of the environments and the history, so
that it can follow a constructor or a `close` through the calls it makes. It says that the environment that is
held is the one loaded, with its game, its map and its data, and that nothing but the `dlclose` of a reload
was ever misused. No environment is loaded that is not held is what makes the collector harmless.

**Replay** (`ReplayProofs`). The types need that ids do not outrun the movies started; the files of automatic
recording need that such a writer has a savestate and has written a line (`AutoInv`).
`MoviesShowWhatWasPlayed` proves the initial condition and the step of `ReplayPromise` under `Faithful`: one
player, whose buttons are all named, with the habits `auto` and `manual`. Without any of the three the promise
is not kept (section 3). `ReplayInv` says of the writer, of every file and of the player that the console
after line *n* is the one computed from the savestate and the first *n* lines.

**Episode** (`EpisodeProofs`). That no custom variable hides one of the memory is not inductive, since the
script of the done section makes a custom variable inside the episode; `HiddenInv` adds that its name is never
a variable of the memory (by `EpisodeAssumption`, no client and no data.json uses the name the script took).
For the sums of rewards, `RewardInv` says what was earned until now in terms of what the next report will be
computed from: with the script, of the best score its context has kept; with a reward on a delta, of the score
in the clone of the memory. The sum itself is never unfolded there.

`ReportsArePromised` is the refinement, for every scenario file that loads (`ScenarioFile`: finitely many
variables with known operations and whole numbers, done nodes that are not in themselves, as JSON nests them)
and has no op and no penalty for its time (`PlainTimes`; with a penalty it is false, finding 2). `PromiseInv`
adds to the types (`TypeInv`) and to `HiddenInv` that in an episode that goes on the clone is a memory of the
console, and with the script of the done section that its custom variable holds the lives of that memory. Then
a report is taken apart. A delta by `LookupDelta`, between the current and the last buffer of the data, is the
one between this memory and the clone before (`DeltaSeen`), so every spec has the measure that was promised
(`MeasuresSeen`), and the two sums are sums of one function (`VarWorthSeen`, with `Total`, a number because
finitely many numbers are added: `TotalInt`). The done nodes are a recursive function over names; it exists
because the nodes are nested in finite depth (`ClimbExists`), and from the leaves up a node has the one
outcome that `Holds` promises, unless it may throw (`NodeOutcomesAre`, by `NestedInduction`), whatever the
order of the hash table.

**Memory** (`MemoryProofs`). All memories are seen as one family of address spaces. `OwnInv` says that every
view looks into a buffer in use, that a copy owns its buffers and the memory of the console does not, and that
a buffer of the pool is free or owned by exactly one view: of one space and one block. `Replaced`, `Swapped`
and `Emptied` show that a step on one or two places keeps this and that no other place sees the difference;
this is both `OwnedOnce` and the step of the refinement. All theorems about the memories assume
`FreedIsNoFunction`: the marker of a buffer that is not there is not the content of one.

The numbers come in three layers. First the digits: `Rank` is a permutation of the bytes, with `ByteOf`
backwards (`RankIs`), so the sum that `decode` makes in the order of the bytes is one from the lowest digit to
the highest (`SumInOrder`; sums do not depend on what `CHOOSE` takes first, `SumOne`). `Makes` is the table of
its partial sums, from which follow that the highest digit first gives the same number (`NumeralsAreSums`),
that a digit is got back by division (`DigitOf`), and, with every digit within the span of its type, that
decoding what was encoded gives the value cut to the type (`EncodedReadsBack`). Then the words: `parse`
decodes a word in the order of the core and encodes it in the console's. It loses nothing because a word fits
into an int64, which `MemoryAssumption` says of the overlays; hence the byte at an offset is the one
`TurnedAt` names, and turning it again gives it back (`TurnsBack`). A number that begins or ends inside a word
has the words around it turned with it, and its bytes are where they would be one by one (`ParseAt`,
`SeenAt`). Last the blocks: `TypeInv` says that a buffer not free holds bytes, as many as its size
(`BufferOk`), and every space has bases of the core and an overlay; it is inductive with `OwnInv`, because a
write through a view is into a buffer in use. `ReadIs` and `WrittenIs` say what the code's ways to a number do
to the bytes seen through the overlay, and the properties follow. `WritesKeepOtherBytes` needs `NoMirrors` on
top: a region mapped twice is changed in both places, as it should be. A number on the edge of a block whose
size is no multiple of the word is outside of `Seen`, as it is undefined behaviour in the code.

**The window** (`ControllerProofs`). A slot is the composition of those it calls, so there is a lemma per
slot, "from `Fine(w)` to `Fine(slot(w))`". `Fine` joins the clock (in a pause the timer is off, also before a
game runs, and a change of focus is a change of the pause at most), the two memories of the reports, and about
movies: the files of a game and a savestate are numbered without a gap, and a writer that is open has the next
number. The last is what makes counting files name a new one (`Counted`), and it is false in the middle of
`startEpisode`, until `stopMovie` has closed the writer. Loading a game breaks the reports until it is
started, so that lemma has them only for a ROM that does not load. Fast forward and the search for a ROM are
recursive functions; that they exist, and that what every frame keeps the whole tick keeps, is by a least
counterexample (`Least`, `UpTo`). `FilesAssumption`: the path the user picks and the files of RetroEnv have no
name of an episode. `CarefulUserRunsLoaded` adds that the host is legal and a game that runs is loaded
(`Runs`), and assumes `Careful` and `Playable`: the user opens no failing ROM over a running game, and of
every game the first ROM that is found loads. Without them the theorem is false (finding 4).

`WindowTyped` needs none of these: `Window` is the set of all records of the right types, and every slot leads
from one to another (`Members`, with `Film`: a reader has read no more lines than its movie has). The bound on
the movies recorded (`opened`, a counter of the model) follows from counting, slot by slot, how many one may
record (`Moves`): a tick in recording mode one per frame.

`MoviesShowTheirTapes` is about two uses of the window, the recording and the playback, with anything between
them. A console is its ROM, its savestate and its frames, so `Tape` says of every file that it *tells the
truth* (`Told`): on each ROM it may be played on, the console recorded after line *k* is the one of its
savestate and its first *k* lines. So would the file of an open writer, were it closed now (`Sealed`); while
the game runs, the writer is where the console is (`Rolling`), which `loadGame` breaks and nobody needs any
more after `stopMovie`. A reader has shown the part of the tape that it has read (`Reel`), and the ROM that
runs is the one the game's name stands for (`Stage`). `FrameTape` joins these for the one step where all of
them move. `PlaybackReachesItsEnd` counts on top of it: the console has as many frames as lines were read, and
one more per frame after the end (`FrameCounts`), also inside a tick of fast forward (`FastEnds`).

Both assume `MoviesAssumption`, each part of which is a way to lose the movie otherwise: `Careful` and
`Playable` as above; `OneRom`, since a movie names a game and the window takes the first ROM it finds for it;
the keyboard is bound to player 0 at most, since the window records no other player; `s_keyNames` has every
button; the movies that are there when the window opens tell the truth, as those of `Replay` do. The instance
of `controller` satisfies all of them.

**Search** (`SearchProofs`). The order of results is a strict total order (`BeforeIs`), and on a finite set of
them the ranks are a bijection onto 1 to *n* (`ListedIs`), so that what is listed is sorted and loses nothing.
The walk of `intersectCurrent` has one position for all results at an address, and compares addresses only;
since both lists are sorted, all that it has passed is less than the result it is at (`PassedLess`), hence
`IntersectionIsExact`: it keeps just what both lists have. `SearchInv` joins both properties: a search that is
kept has begun, shows sorted results, and these are among what nothing has refuted; that they are sorted is
what the walk needs, which is why the two theorems come from one invariant. That the walk and the iterator,
recursive functions, exist is `WalkExists`, again by a least counterexample.

`SearchFinds`, `NothingIsLost` and `TakenWasTheLast` assume `Turned = 1`: an overlay that turns no words, as
all cores but those of Genesis, Sega CD, 32X and Saturn have, on which the first byte is found where it lies
(`HoldingShown`). On the others they are false (finding 3). That nothing is lost has three parts. A number is
found where it lies (`SearchFinds`): `Decode` adds up its bytes in the order of their places (`DecodeIs`), so
the bytes that are looked for are those of the number from the lowest one on (`ShownIs`), and they make a run
upwards or downwards (`RunUp`, `RunDown`), before which the zeros of the higher byte are found too
(`ZerosAre`). A number below zero is looked for as the bytes of the least width it fits in (`UnsignedIs`),
fewer than its type may have; in a type of the lower byte that is a run from the same address, in a type of
the higher byte it is not, which is why `Owed` leaves these out. Then the iterator gets there (`OwedReached`):
for a type of one byte each block leaves behind just the addresses up to its end (`LeftOfBytes`, from the
order of the blocks); for a wider type that much is true of the first block only. Last, a result that is owed
has a way among those that are tried, since dividing by one and taking off the bias gives the value
(`OwedIsHit`), or shows the change (`OwedIsChange`). The invariant `LostInv` says in addition to `NothingLost`
that the types of what is owed are still searched for, for `delta` drops types, and that whatever is open lies
inside a block. It rests on `WidthAssumption`: binary numbers have one, two or four bytes, as the default
types and those of every core have.

**Action spaces** (`ActionSpaceProofs`). The order of the masks is a strict total order (`BelowOrders`), hence
every entry of `button_combos` has the combinations of a group of its own (`Entries`), and one combination per
entry is an allowed action (`JoinAllowed`). That the digits are those of their groups is `DigitsAre` for the
number of a Discrete space, by way of what is left of it. For MultiDiscrete it is `PartIs`, which is delicate:
the parts are cut at the number of buttons, so with several players they fit only when there are as many
groups as buttons; otherwise the first part is too long, and the action ends in the IndexError of section 3.

The converse is `SpacesAreFiltered`, for `OnePlayer`: a MultiDiscrete space is made for one player, since with
more the space has actions that do not decode at all. Every allowed action is one combination per entry
(`AllowedIsJoin`, which needs that `button_combos` leaves none out, `Complete`), so each space has to reach
any choice of digits. For a Discrete space, of which `__init__` says only the size, the number is built from
the last digit of the last player down to the first (`DigitsGive`) and stays below the product of the sizes
(`DigitBelow`). It is the only one, because nothing is left of a number of the space when its digits are taken
(`NothingLeft`), so that two numbers with the same digits are equal from there backwards (`DigitsTell`), and
no two digits join to the same action (`JoinKeeps`).

What these proofs share, least numbers, counting, walks, functions that climb a nesting, the order of lists,
the prefixes of sequences, division and sums over finite sets, powers and the digits of a number, is in
`ListProofs`.

**Model-checked only.**

- Liveness: `PlaybackEnds` and the fairness of `ReplayPromise`; it would need ENABLED.

## 6. What is not modelled, and why

- The emulator cores and other vendored code (`cores/`, `third-party/`): they are most of the lines of the
  repository, written elsewhere; the models have them as external, by how `src/` calls them.
- Memory: accesses beyond the end of a block, which are undefined behaviour; views over files. The model of
  `Search` has binary numbers and overlays of one byte or of whole words turned round, as the shipped cores
  have.
- Integration UI: cheats, audio, saving, editing of variables, scenarios and searches, the widgets. An episode
  that is done at its first frame, whose slots nest without end. Files deleted while the window is open.
- Cheats, audio, video conversion, rotation, the text of movie lines, `.fm2` movies, JSON and Cap'n Proto
  formats, the lookup of files: copies and conversions without control, or pure input and output.
- A crop, weights as floating point numbers, `stuff` and `remove` of searches.
- Undefined behaviour outside the program's own data: a C++ exception that passes through the frames of Lua
  (the client of `Episode` leaves the script's variables in memory).
- One GameData per process in `Episode`: the contexts of scripts are static and shared, so several GameData
  objects would see each other's.

## 7. Plan

Done: the Emulator with its Python binding; movies, recording and playback, against `ReplayPromise`; GameData,
Scenario and Episode, against `EpisodePromise`; action spaces; search; the integration window; memory, against
`MemoryPromise`; the theorems of section 5.

Next: zip reading and `.fm2`, loading and saving of data and scenarios.
