-------------------------- MODULE EmulatorController --------------------------
(***************************************************************************)
(* The integration window: src/src/ui/EmulatorController.cpp and the part  *)
(* of src/src/ui/MainWindow.cpp that drives it.  One thread runs menu      *)
(* entries, keys and the timer one after the other, so each of them is an  *)
(* operator from the record of the window to the next, and a slot that     *)
(* calls another, or emits a signal another is connected to, is the        *)
(* composition of the two.  Emulator gives the emulated library and what   *)
(* goes wrong when it is called without a core, Movie the .bk2 files.      *)
(*                                                                         *)
(* As in Replay the console is deterministic: its state is the ROM, the    *)
(* savestate it started from (NoState: just reset) and the pads of every   *)
(* frame since.                                                            *)
(***************************************************************************)
EXTENDS Movie, SequencesExt, FiniteSets

CONSTANTS
  Roms,         \* ROM files
  LoadOutcome,  \* what loadRom meets when it loads one, see Emulator
  Games,        \* the game names: directories of ROMs
  GameOf,       \* the game of a ROM
  RomsOf,       \* the ROMs found for a name in stable, experimental, contrib
  States,       \* savestate files
  RomOf,        \* the ROM a savestate belongs to
  Ending,       \* what pad of a frame makes the scenario done
  First,        \* player 0
  Bound,        \* the players whose pads the keyboard is bound to
  Seeds,        \* movies of RetroEnv, by path: a file and the name of its game
  Picked,       \* the path a file dialog answers
  Extra,        \* the frames fast forward adds to a tick: 3 in the code
  Careful,      \* whether the user keeps clear of two known faults, see below
  MaxFrames,    \* bound: frames since the last start, outside playback
  MaxMovies,    \* bound: movies recorded
  MaxOpens,     \* bound: cores opened
  Re, Ram, Con, Stella, NoEmulator, NoData, NoRom, NoCore,
  NoMovie, NoGame, NoName, Junk

VARIABLE app

CoreOf == [r \in Roms \cup {NoRom} |-> IF r = NoRom THEN NoCore ELSE Con]

Core ==
  INSTANCE Emulator WITH
    host <- app.host, Emulators <- {Re}, Datas <- {Ram}, Cores <- {Con, Stella},
    MapsAtLoad <- {}, MapsAtRun <- {}, Dupes <- {}, Keys <- Players \X Buttons

ASSUME ControllerAssumption ==
  /\ LoadOutcome \in [Roms -> Core!Outcome]
  /\ GameOf \in [Roms -> Games] /\ RomsOf \in [Games -> Seq(Roms)]
  /\ RomOf \in [States -> Roms] /\ NoState \notin States
  /\ Ending \subseteq SUBSET Buttons
  /\ First \in Players /\ Bound \subseteq Players
  /\ NoRom \notin Roms /\ NoGame \notin Games /\ NoCore # Con /\ Con # Stella
  /\ {Extra, MaxFrames, MaxMovies, MaxOpens} \subseteq Nat
  /\ Careful \in BOOLEAN

Good == {rom \in Roms : LoadOutcome[rom] = "loaded"}

\* m_stateName after a file that is no savestate was opened as one is Junk.
Names == States \cup {Junk}

\* Bound: the numbers of episodes.  A tick that may start one may start one in
\* each of its frames.
Numbers == 0 .. MaxMovies + Extra
Episodes == {GameOf[rom] : rom \in Good} \X Names \X Numbers
Paths == Episodes \cup {Picked} \cup DOMAIN Seeds

Console == [rom : Roms \cup {NoRom}, from : States \cup {NoState}, frames : Seq(Keys)]
File == [log : Seq(Keys), header : BOOLEAN, core : States \cup {NoState},
         outs : Seq(Console)]

\* What is on the disk when the window opens, and what the user picks, has not
\* the name of an episode.
ASSUME FilesAssumption ==
  /\ Episodes \cap ({Picked} \cup DOMAIN Seeds) = {}
  /\ \A path \in DOMAIN Seeds :
       Seeds[path].file \in File /\ Seeds[path].title \in Games \cup {NoGame}

Nothing == [rom |-> NoRom, from |-> NoState, frames |-> <<>>]

Init ==
  app = [host |-> [loaded |-> NoEmulator, gen |-> 0, phase |-> "closed",
                   misuse |-> {}, em |-> [e \in {Re} |-> Core!FreshEmulator],
                   spaces |-> [d \in {Ram} |-> {}]],
         console |-> Nothing, clone |-> Nothing, last |-> Nothing,
         running |-> FALSE, paused |-> FALSE, away |-> TRUE, timer |-> FALSE,
         ff |-> FALSE,
         movie |-> NoMovie, title |-> NoGame, recording |-> FALSE,
         initial |-> NoState, game |-> NoGame, name |-> NoName,
         recordMode |-> FALSE,
         disk |-> [p \in Paths |->
                     IF p \in DOMAIN Seeds THEN Seeds[p].file ELSE Absent],
         titles |-> [p \in Paths |->
                       IF p \in DOMAIN Seeds THEN Seeds[p].title ELSE NoGame],
         files |-> DOMAIN Seeds, opened |-> 0, tape |-> <<>>, shown |-> <<>>]
-----------------------------------------------------------------------------
(***************************************************************************)
(* Movies and keys of the controller.                                      *)
(***************************************************************************)
Mask(w) == w.host.em[Re].mask
Held(w) == [p \in Players |-> {b \in Buttons : <<p, b>> \in Mask(w)}]
Hold(w, mask) == [w EXCEPT !.host.em[Re].mask = mask]
PadsOf(keys) == UNION {{p} \X keys[p] : p \in Players}

Playing(w) == w.movie # NoMovie /\ ~w.recording
Recording(w) == w.movie # NoMovie /\ w.recording

\* m_movie is assigned: the movie before is destroyed, and a writer closed.
Assign(w, movie) ==
  LET next == [w EXCEPT !.movie = movie, !.tape = <<>>, !.shown = <<>>]
      path == w.movie.path
  IN IF ~Recording(w) THEN next
     ELSE [next EXCEPT
             !.disk[path] = Close(w.movie), !.files = @ \cup {path},
             !.titles[path] = IF w.movie.log = <<>> THEN @ ELSE w.title,
             !.title = NoGame]

\* Fault: m_recording is not reset.
StopMovieRecording(w) ==
  Hold(Assign(w, NoMovie), {k \in Mask(w) : k[1] # First})

StopMovie(w) ==
  Hold([Assign(w, NoMovie) EXCEPT !.recording = FALSE],
       {k \in Mask(w) : k[1] # First})

UpdateRam(w) == [w EXCEPT !.last = w.clone, !.clone = w.console]

\* Fault: the timer is started over a pause.
ScheduleAlways(w) == [w EXCEPT !.timer = TRUE]

Schedule(w) == IF w.paused THEN w ELSE [w EXCEPT !.timer = TRUE]

\* Fault: the timer is not started again.
SetPausedForgets(w, pause) ==
  [w EXCEPT !.paused = pause, !.timer = @ /\ ~pause]

SetPaused(w, pause) ==
  IF pause = w.paused THEN w
  ELSE IF pause THEN [w EXCEPT !.paused = TRUE, !.timer = FALSE]
  ELSE Schedule([w EXCEPT !.paused = FALSE])

\* The screen loses the focus, which pauses, or gets it, which ends a pause.
SetFocus(w, away) == [SetPaused(w, away) EXCEPT !.away = away]

\* A savestate of another game is refused, and so is an empty one: the console
\* stays as the reset left it.
Unserialize(w) ==
  LET rom == w.host.em[Re].romPath
  IN [w EXCEPT
        !.host = Core!Unserialize(@, Re, "loaded"),
        !.console = [rom |-> rom, frames |-> <<>>,
                     from |-> IF w.initial # NoState /\ RomOf[w.initial] = rom
                              THEN w.initial ELSE NoState]]

\* Fault: one update, so the memory before is of the last episode.
StartUpdatesOnce(w) ==
  LET reset == [w EXCEPT !.host = Core!Reset(@, Re, "loaded")]
      fresh == UpdateRam(Unserialize(StopMovie(reset)))
  IN Schedule([fresh EXCEPT !.running = TRUE, !.paused = @ /\ ~w.away,
                            !.away = FALSE])

\* start(): the memory is that of the new episode twice.  The signal started
\* gives the screen the focus, which ends a pause if the screen had lost it,
\* and resets the scenario, which is not done yet: were it, startEpisode would
\* call itself without end.
Start(w) ==
  LET reset == [w EXCEPT !.host = Core!Reset(@, Re, "loaded")]
      fresh == UpdateRam(UpdateRam(Unserialize(StopMovie(reset))))
  IN Schedule([fresh EXCEPT !.running = TRUE, !.paused = @ /\ ~w.away,
                            !.away = FALSE])
-----------------------------------------------------------------------------
(***************************************************************************)
(* The scenario of the window and the episodes it records.                 *)
(***************************************************************************)
Done(w) ==
  w.console.frames # <<>> /\ Last(w.console.frames)[First] \in Ending

CanStartEpisode(w) == w.game # NoGame /\ w.name # NoName

\* The writer was opened before the game started anew.
Recorded(w, writer) ==
  [Assign(w, SetState(writer, w.initial)) EXCEPT
     !.title = w.game, !.recording = TRUE, !.opened = @ + 1]

\* Fault: the game is not started anew.
RecordMovieMidGame(w, path) ==
  Recorded(w, OpenWrite(path, w.disk[path]))

RecordMovie(w, path) ==
  Recorded(IF w.running THEN Start(w) ELSE w, OpenWrite(path, w.disk[path]))

\* Fault: the files are counted before the last movie is closed.
StartEpisodeCountsFirst(w) ==
  LET taken == {i \in Numbers : <<w.game, w.name, i>> \in w.files}
  IN IF ~CanStartEpisode(w) THEN w
     ELSE RecordMovie(StopMovie(w), <<w.game, w.name, Cardinality(taken)>>)

StartEpisode(w) ==
  LET idle == StopMovie(w)
      taken == {i \in Numbers : <<w.game, w.name, i>> \in idle.files}
  IN IF ~CanStartEpisode(w) THEN w
     ELSE RecordMovie(idle, <<w.game, w.name, Cardinality(taken)>>)

\* What the window shows of the scenario is left out.
UpdateScenario(w) ==
  IF w.running /\ w.recordMode /\ Done(w) THEN StartEpisode(w) ELSE w

-----------------------------------------------------------------------------
(***************************************************************************)
(* A frame.                                                                *)
(***************************************************************************)
\* The movie's part of a frame.  Only the pad of player 0 is recorded.
Feed(w) ==
  IF Recording(w) THEN
    [w EXCEPT !.movie =
       StepWrite(SetKeys(@, [NoKeys EXCEPT ![First] = Held(w)[First]]))]
  ELSE IF ~Playing(w) THEN w
  ELSE IF AtEnd(w.movie) THEN StopMovie(SetPaused(w, TRUE))
  ELSE LET movie == StepRead(w.movie)
       IN Hold([w EXCEPT !.movie = movie], PadsOf(movie.keys))

\* tape and shown, and outs of a writer, are history: the consoles at every
\* line of the movie that plays, that was played so far, that is recorded.
Seen(w) ==
  IF Recording(w) THEN [w EXCEPT !.movie.outs = Append(@, w.console)]
  ELSE IF Playing(w) THEN [w EXCEPT !.shown = Append(@, w.console)]
  ELSE w

RunOneStep(w) ==
  LET fed == Feed(w)
      ran == [fed EXCEPT !.host = Core!Run(@, Re, @.gen),
                         !.console.frames = Append(@, Held(fed))]
  IN UpdateScenario(Seen(UpdateRam(ran)))

\* Fault: the frames of fast forward do not end at a pause.
RunOncePastPause(w) ==
  LET frames[n \in 0 .. Extra + 1] ==
        IF n = 0 THEN w ELSE RunOneStep(frames[n - 1])
  IN IF ~w.running THEN w
     ELSE frames[IF w.ff THEN Extra + 1 ELSE 1]

\* The rest of a tick.
RunFast(one) ==
  LET frames[n \in 0 .. Extra] ==
        IF n = 0 THEN one ELSE RunOneStep(frames[n - 1])
  IN IF one.ff /\ ~one.paused THEN frames[Extra] ELSE one

RunOnce(w) == IF w.running THEN RunFast(RunOneStep(w)) ELSE w
-----------------------------------------------------------------------------
(***************************************************************************)
(* Opening files.                                                          *)
(***************************************************************************)
GameChanged(w, game) == [w EXCEPT !.game = game, !.name = NoName]

\* loadGame of a ROM answers whether it is Good.
LoadGame(w, rom) ==
  LET host == Core!LoadRom(Core!UnloadCore(w.host, Re), Re, rom, LoadOutcome[rom])
      tried == [w EXCEPT !.host = host, !.initial = NoState]
      ready == [tried EXCEPT !.host = Core!ConfigureData(@, Re, Ram),
                             !.console = [Nothing EXCEPT !.rom = rom],
                             !.clone = Nothing, !.last = Nothing]
  IN IF rom \in Good THEN GameChanged(StopMovie(ready), GameOf[rom]) ELSE tried

\* Fault: the game is started whatever loadGame answers.
OpenGameUnasked(w, rom) ==
  GameChanged(Start(LoadGame(w, rom)), GameOf[rom])

OpenGame(w, rom) ==
  LET loaded == LoadGame(w, rom)
  IN IF rom \in Good THEN GameChanged(Start(loaded), GameOf[rom]) ELSE loaded

\* loadGame empties the initial state, which is put back when it succeeds.
TryRom(w, rom) ==
  LET loaded == LoadGame(w, rom)
      back == Start([loaded EXCEPT !.initial = w.initial])
  IN IF rom \in Good THEN [w |-> GameChanged(back, GameOf[rom]), found |-> TRUE]
     ELSE [w |-> loaded, found |-> FALSE]

\* The directories of a game are tried in order.
FindGame(w, roms) ==
  LET tried[n \in 0 .. Len(roms)] ==
        IF n = 0 THEN [w |-> w, found |-> FALSE]
        ELSE IF tried[n - 1].found THEN tried[n - 1]
        ELSE TryRom(tried[n - 1].w, roms[n])
  IN tried[Len(roms)]

\* loadMovie: whether it answers true, and the window it leaves.
WithReader(ready, file) ==
  IF ~ready.found THEN ready
  ELSE [ready EXCEPT
          !.w = [Assign(@, OpenRead(file)) EXCEPT
                   !.recording = FALSE, !.tape = file.outs]]

LoadMovie(w, path) ==
  LET file == w.disk[path]
      game == w.titles[path]
      asked == [w EXCEPT !.initial = file.core]
  IN IF ~Loadable(file) THEN [w |-> w, found |-> FALSE]
     ELSE WithReader(IF w.running /\ game = NoGame
                     THEN [w |-> Start(asked), found |-> TRUE]
                     ELSE FindGame(asked, IF game = NoGame THEN <<>> ELSE RomsOf[game]),
                     file)

\* loadState of the window: what cannot be inflated is an empty state.
LoadState(w, state, name) ==
  LET stopped == StopMovie([w EXCEPT !.initial = state])
      fresh == [IF w.running THEN Start(stopped) ELSE stopped EXCEPT !.name = name]
  IN IF w.recordMode THEN StartEpisode(fresh) ELSE fresh
-----------------------------------------------------------------------------
(***************************************************************************)
(* What the user and the timer do.                                         *)
(***************************************************************************)
\* A careful user opens no ROM that fails over a running game, and records
\* without a savestate only where no older movie is.
Safe(rom) == rom \in Good \/ ~(Careful /\ app.running)
SafeToRecord == app.initial # NoState \/ ~Careful \/ Picked \notin app.files
CanOpen == app.host.gen < MaxOpens
CanRecord == app.opened < MaxMovies
MayRecord == app.recordMode => CanRecord

OpenRom(rom) == Safe(rom) /\ CanOpen /\ app' = OpenGame(app, rom)

AfterMovie(loaded) ==
  IF loaded.found THEN UpdateScenario(loaded.w) ELSE loaded.w

PlayMovie(path) ==
  CanOpen /\ MayRecord /\ app' = AfterMovie(LoadMovie(app, path))

LoadStateFile(state) == CanRecord /\ app' = LoadState(app, state, state)

\* A file of any kind: a ROM, else a movie, else a savestate.
OpenAnyRom(rom) ==
  /\ Safe(rom) /\ CanOpen /\ CanRecord
  /\ app' = IF rom \in Good THEN OpenGame(app, rom)
            ELSE LoadState(LoadGame(app, rom), NoState, Junk)

AfterAnyMovie(loaded) ==
  IF loaded.found THEN AfterMovie(loaded) ELSE LoadState(loaded.w, NoState, Junk)

OpenAnyMovie(path) ==
  CanOpen /\ CanRecord /\ app' = AfterAnyMovie(LoadMovie(app, path))

RecordPicked ==
  /\ CanRecord /\ SafeToRecord
  /\ app' = UpdateScenario(RecordMovie(app, Picked))

ToggleRecording ==
  LET toggled == [app EXCEPT !.recordMode = ~@]
  IN /\ toggled.recordMode => CanRecord
     /\ app' = IF toggled.recordMode THEN StartEpisode(toggled) ELSE toggled

StopTheMovie == app' = StopMovie(app)

\* The entries that are enabled when the first game has started.
ResetGame ==
  LET fresh == Start(app)
  IN /\ app.running /\ CanRecord
     /\ app' = IF app.recordMode THEN StartEpisode(fresh) ELSE fresh

HardReset == app.running /\ CanRecord /\ app' = Start([app EXCEPT !.initial = NoState])

ResetTheScenario == CanRecord /\ app' = UpdateScenario(app)

\* The menu: the end of a pause gives the screen the focus.
TogglePause ==
  app' = IF app.paused THEN SetFocus(app, FALSE) ELSE SetPaused(app, TRUE)

\* Clicks: on the screen, or on another part of the window.
ClickScreen == app' = SetFocus(app, FALSE)
ClickElsewhere == ~app.away /\ app' = SetFocus(app, TRUE)

ToggleFastForward == app' = [app EXCEPT !.ff = ~@]

\* The keyboard is dead while a movie plays.
PressKey ==
  /\ ~Playing(app)
  /\ \E pad \in Bound \X Buttons :
       app' = Hold(app, SymDiff(Mask(app), {pad}))

\* Bound: a tick starts before MaxFrames, a fast one at the start of a game, and
\* may end an episode; after the last movie only movies are played.
CanRun ==
  /\ MayRecord
  /\ \/ Playing(app)
     \/ /\ CanRecord \/ Recording(app)
        /\ Len(app.console.frames) < IF app.ff THEN 1 ELSE MaxFrames

Step ==
  /\ app.running /\ CanRun
  /\ app' = RunOnce([app EXCEPT !.paused = TRUE, !.timer = FALSE])

Crashed == Core!Crashed(app.host)

CanTick == ~Crashed /\ app.timer /\ CanRun

Tick == CanTick /\ app' = RunOnce(app)

Open ==
  \/ \E rom \in Roms : OpenRom(rom) \/ OpenAnyRom(rom)
  \/ \E path \in Paths : PlayMovie(path) \/ OpenAnyMovie(path)
  \/ \E state \in States : LoadStateFile(state)

Next ==
  /\ ~Crashed
  /\ \/ Open \/ RecordPicked \/ ToggleRecording \/ StopTheMovie
     \/ ResetGame \/ HardReset \/ ResetTheScenario
     \/ TogglePause \/ ClickScreen \/ ClickElsewhere \/ ToggleFastForward
     \/ PressKey \/ Step \/ Tick

\* The timer fires as long as it is on: WF_app(Tick), written with the guard of
\* Tick, which is its ENABLED where a game runs.
Fires == []<>~CanTick \/ []<><<Tick>>_app

Spec == Init /\ [][Next]_app /\ Fires
-----------------------------------------------------------------------------
Writer == [path : Paths, base : File, log : Seq(Keys), keys : Keys,
           state : States \cup {NoState}, outs : Seq(Console)]
Reader == [log : Seq(Keys), pos : Nat, keys : Keys,
           state : States \cup {NoState}]

ASSUME NoMovieAssumption == NoMovie \notin Writer \cup Reader

\* The members of EmulatorController and MainWindow have their types, and
\* m_recording tells a writer from a reader.
TypeOK ==
  /\ Core!Typed(app.host)
  /\ {app.console, app.clone, app.last} \subseteq Console
  /\ {app.running, app.paused, app.away, app.timer, app.ff, app.recording,
      app.recordMode} \subseteq BOOLEAN
  /\ app.movie \in IF app.recording THEN Writer ELSE Reader \cup {NoMovie}
  /\ app.initial \in States \cup {NoState}
  /\ {app.title, app.game} \subseteq Games \cup {NoGame}
  /\ app.name \in Names \cup {NoName}
  /\ app.disk \in [Paths -> File] /\ app.files \subseteq Paths
  /\ app.titles \in [Paths -> Games \cup {NoGame}]
  /\ app.opened \in 0 .. MaxMovies + Extra + 1
  /\ {app.tape, app.shown} \subseteq Seq(Console)

\* A frame, a reset or a savestate is asked only of a core that has loaded a
\* game: assert(s_loadedEmulator == this) in emulator.cpp, and what libretro
\* asks of its callers (loadGame, m_running and the timer).
RunsLoaded == app.host.misuse = {}

\* While a game runs, the memory reports look at is the one after the last
\* frame, and the memory before it is of the frame before in the same episode,
\* or of its start: never of the episode before (start, runOneStep and
\* GameData::updateRam).
ReportsFresh ==
  app.running =>
    /\ app.clone = app.console
    /\ app.last = IF app.console.frames = <<>> THEN app.console
                  ELSE [app.console EXCEPT !.frames = Front(@)]

\* While a game runs the timer is on exactly when the window is not paused,
\* whatever start, step, setPaused and the end of a movie did (m_scheduler
\* against m_paused).
TimerMatches == app.running => (app.timer <=> ~app.paused)

\* A movie that plays shows the consoles of its recording, be it of this
\* window or of RetroEnv, from its savestate and its lines alone
\* (recordMovie and runOneStep against loadMovie and runOneStep).  That is so
\* where keys are bound to player 0 only, movies play on the ROM they are of and
\* the user is Careful: the keys of other players are held and not recorded.
PlaysTheTape == Playing(app) => IsPrefix(app.shown, app.tape)

\* A playback ends only when all of the movie was shown, and the console runs
\* past its end for that frame, or what is left of a tick of fast forward: unless
\* the game was over in recording mode (runOneStep, runOnce, startEpisode).
EndsTheTape ==
  [][Playing(app) /\ ~Playing(app') /\ (Tick \/ Step) =>
       LET past == Len(app'.console.frames) - Len(app.tape)
       IN app.recordMode \/ past = 1 \/ (app.ff /\ past \in 1 .. Extra)]_app

\* The movie of an episode is never changed again: the number in the name of
\* the next one is new (startEpisode counts files that stopMovie has closed).
EpisodesKept ==
  [][\A path \in Episodes \cap app.files :
       app'.disk[path] = app.disk[path]]_app

\* A movie that is opened begins, and once begun comes to its end, unless it is
\* opened anew or paused (the timer, fast forward, the end of the log in
\* runOneStep).
PlaybackEnds ==
  \A begun \in BOOLEAN :
    LET Stays == Playing(app) /\ ~app.paused /\ (app.shown # <<>>) = begun
    IN Stays ~> ~Stays
=============================================================================
