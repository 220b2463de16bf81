--------------------------- MODULE ControllerProofs ---------------------------
(***************************************************************************)
(* The integration window, for every set of ROMs, savestates and movies    *)
(* and whatever the user does: the timer is on exactly when a game runs    *)
(* that is not paused, the reports look at the two last frames of one      *)
(* episode, and the movie of an episode is never written over; the members *)
(* keep their types.  Of a careful user's window, a game that runs is      *)
(* loaded; and where in addition the movies can be played (MoviesAssumption*)
(* at its place), a playback shows the console of its recording after      *)
(* every line, and ends after all of them.                                 *)
(*                                                                         *)
(* There is one lemma for every slot, cited where another slot calls it.   *)
(* Fine(w) is what every slot keeps.  Of the timer it says that it is off  *)
(* in a pause also when no game runs yet; of the movies of episodes that   *)
(* they are numbered without a gap, so that their number is the next name, *)
(* and that the one being recorded has that name.                          *)
(***************************************************************************)
EXTENDS EmulatorController, ListProofs

Fields ==
  {"host", "console", "clone", "last", "running", "paused", "away", "timer", "ff",
   "movie", "title", "recording", "initial", "game", "name", "recordMode", "disk", "titles",
   "files", "opened", "tape", "shown"}

Shaped(w) == DOMAIN w = Fields

\* m_scheduler against m_paused.
Clock(w) ==
  /\ w.running \in BOOLEAN /\ w.paused \in BOOLEAN /\ w.timer \in BOOLEAN
  /\ w.paused => ~w.timer
  /\ w.running /\ ~w.paused => w.timer

Frames(w) ==
  /\ w.console = [rom |-> w.console.rom, from |-> w.console.from,
                  frames |-> w.console.frames]
  /\ w.console.frames \in Seq(Keys)

Titled(w) ==
  /\ w.titles \in [Paths -> Games \cup {NoGame}]
  /\ w.title \in Games \cup {NoGame} /\ w.game \in Games \cup {NoGame}

\* The movies of a game and a savestate are numbered without a gap.
Before(path) == {<<path[1], path[2], i>> : i \in 0 .. path[3] - 1}
Filed(files) == \A path \in Episodes \cap files : Before(path) \subseteq files
NextName(path, files) ==
  path \in Episodes => path \notin files /\ Before(path) \subseteq files

Pending(w) ==
  Recording(w) => "path" \in DOMAIN w.movie /\ NextName(w.movie.path, w.files)

Sound(w) ==
  Shaped(w) /\ Clock(w) /\ Frames(w) /\ Titled(w) /\ Filed(w.files) /\ Pending(w)

\* m_cloneMem and m_lastMem.
Reports(w) ==
  w.running =>
    /\ w.clone = w.console
    /\ w.last = IF w.console.frames = <<>> THEN w.console
                ELSE [w.console EXCEPT !.frames = Front(@)]

Fine(w) == Sound(w) /\ Reports(w)

\* The movies of episodes that were there still are.
Keeps(w, x) ==
  /\ w.files \subseteq x.files
  /\ \A path \in Episodes \cap w.files : x.disk[path] = w.disk[path]

Leads(w, x) == Fine(x) /\ Keeps(w, x)

\* What most slots leave alone.
Same(w, x) ==
  /\ x.running = w.running /\ x.paused = w.paused /\ x.timer = w.timer
  /\ x.console = w.console /\ x.clone = w.clone /\ x.last = w.last
  /\ x.game = w.game /\ x.name = w.name
-----------------------------------------------------------------------------
LEMMA KeepsSelf ==
  ASSUME NEW w, NEW x, x.files = w.files, x.disk = w.disk
  PROVE  Keeps(w, x)
  BY DEF Keeps

LEMMA KeepsOn ==
  ASSUME NEW w, NEW x, NEW y, Keeps(w, x), Keeps(x, y)
  PROVE  Keeps(w, y)
  BY DEF Keeps

LEMMA LeadsOn ==
  ASSUME NEW w, NEW x, NEW y, Keeps(w, x), Leads(x, y)
  PROVE  Leads(w, y)
  BY KeepsOn DEF Leads

LEMMA SameReports ==
  ASSUME NEW w, NEW x, Same(w, x), Reports(w)
  PROVE  Reports(x)
  BY DEF Same, Reports

LEMMA HoldIs ==
  ASSUME NEW w, NEW mask, Shaped(w)
  PROVE  /\ Shaped(Hold(w, mask))
         /\ \A f \in Fields \ {"host"} : Hold(w, mask)[f] = w[f]
  BY DEF Hold, Shaped, Fields

\* Only these fields matter to Sound.
LEMMA SoundIs ==
  ASSUME NEW w, NEW x, Sound(w), Shaped(x),
         x.running = w.running, x.paused = w.paused, x.timer = w.timer,
         x.console = w.console, x.titles = w.titles, x.title = w.title, x.game = w.game,
         x.files = w.files, x.movie = w.movie, x.recording = w.recording
  PROVE  Sound(x)
  BY DEF Sound, Clock, Frames, Titled, Pending, Recording
-----------------------------------------------------------------------------
(***************************************************************************)
(* Movies.                                                                 *)
(***************************************************************************)
\* A writer that is closed takes its number; the new movie is not judged yet.
LEMMA AssignIs ==
  ASSUME NEW w, NEW movie, NEW x, x = Assign(w, movie), Sound(w)
  PROVE  /\ Shaped(x) /\ Same(w, x) /\ Keeps(w, x)
         /\ x.movie = movie /\ x.recording = w.recording /\ x.initial = w.initial
         /\ Titled(x) /\ Filed(x.files)
         /\ ~Recording(w) => x.files = w.files
<1> DEFINE next == [w EXCEPT !.movie = movie, !.tape = <<>>, !.shown = <<>>]
           path == w.movie.path
<1>1. /\ Shaped(next) /\ Same(w, next) /\ next.movie = movie
      /\ next.recording = w.recording /\ next.initial = w.initial
      /\ next.title = w.title /\ next.titles = w.titles
      /\ next.files = w.files /\ next.disk = w.disk
  BY DEF Sound, Shaped, Fields, Same
<1>2. CASE ~Recording(w)
  <2>1. x = next
    BY <1>2 DEF Assign
  <2> HIDE DEF next
  <2>2. Titled(x) /\ Filed(x.files)
    BY <1>1, <2>1 DEF Sound, Titled, Same
  <2>3. Keeps(w, x)
    BY <1>1, <2>1, KeepsSelf
  <2> QED BY <1>1, <2>1, <2>2, <2>3
<1>3. CASE Recording(w)
  <2>1. x = [next EXCEPT
               !.disk[path] = Close(w.movie), !.files = @ \cup {path},
               !.titles[path] = IF w.movie.log = <<>> THEN @ ELSE w.title,
               !.title = NoGame]
    BY <1>3 DEF Assign
  <2> HIDE DEF next
  <2>2. /\ Shaped(x) /\ Same(w, x) /\ x.movie = movie /\ x.recording = w.recording
        /\ x.initial = w.initial /\ x.title = NoGame
        /\ x.files = w.files \cup {path}
        /\ x.disk = [w.disk EXCEPT ![path] = Close(w.movie)]
        /\ x.titles = [w.titles EXCEPT ![path] = IF w.movie.log = <<>> THEN @ ELSE w.title]
    BY <1>1, <2>1 DEF Shaped, Fields, Same
  <2> HIDE DEF path
  <2>3. NextName(path, w.files)
    BY <1>3 DEF Sound, Pending, path
  <2>4. Filed(x.files)
    BY <2>2, <2>3 DEF Sound, Filed, NextName
  <2>5. Titled(x)
    BY <2>2 DEF Sound, Titled, Same
  <2>6. Keeps(w, x)
    BY <2>2, <2>3 DEF Keeps, NextName
  <2> QED BY <1>3, <2>2, <2>4, <2>5, <2>6
<1> QED BY <1>2, <1>3

LEMMA StopMovieIs ==
  ASSUME NEW w, Sound(w)
  PROVE  /\ Sound(StopMovie(w)) /\ Same(w, StopMovie(w)) /\ Keeps(w, StopMovie(w))
         /\ ~Recording(StopMovie(w)) /\ StopMovie(w).initial = w.initial
         /\ ~Recording(w) => StopMovie(w).files = w.files
<1> DEFINE y == Assign(w, NoMovie)
           z == [y EXCEPT !.recording = FALSE]
           x == StopMovie(w)
<1>1. /\ Shaped(y) /\ Same(w, y) /\ Keeps(w, y) /\ y.movie = NoMovie
      /\ y.initial = w.initial /\ Titled(y) /\ Filed(y.files)
      /\ ~Recording(w) => y.files = w.files
  BY AssignIs
<1> HIDE DEF y
<1>2. Shaped(z) /\ z.recording = FALSE /\ \A f \in Fields \ {"recording"} : z[f] = y[f]
  BY <1>1 DEF Shaped, Fields
<1>3. x = Hold(z, {k \in Mask(w) : k[1] # First})
  BY DEF StopMovie, y
<1> HIDE DEF z, x
<1>4. Shaped(x) /\ \A f \in Fields \ {"host"} : x[f] = z[f]
  BY <1>2, <1>3, HoldIs
<1>5. /\ x.movie = NoMovie /\ x.recording = FALSE /\ x.initial = w.initial
      /\ x.files = y.files /\ x.disk = y.disk /\ x.titles = y.titles /\ x.title = y.title
      /\ x.running = y.running /\ x.paused = y.paused /\ x.timer = y.timer
      /\ x.console = y.console /\ x.clone = y.clone /\ x.last = y.last
      /\ x.game = y.game /\ x.name = y.name
  BY <1>1, <1>2, <1>4 DEF Fields
<1>6. Same(w, x)
  BY <1>1, <1>5 DEF Same
<1>7. Keeps(w, x)
  BY <1>1, <1>5 DEF Keeps
<1>8. ~Recording(x)
  BY <1>5 DEF Recording
<1>9. Sound(x)
  BY <1>1, <1>4, <1>5, <1>6, <1>8 DEF Sound, Same, Clock, Frames, Titled, Pending
<1> QED BY <1>1, <1>5, <1>6, <1>7, <1>8, <1>9 DEF x
-----------------------------------------------------------------------------
(***************************************************************************)
(* The timer and the start of a game.                                      *)
(***************************************************************************)
LEMMA ScheduleIs ==
  ASSUME NEW w, Shaped(w), w.running \in BOOLEAN, w.paused \in BOOLEAN,
         w.timer \in BOOLEAN, w.paused => ~w.timer
  PROVE  /\ Shaped(Schedule(w)) /\ Clock(Schedule(w))
         /\ \A f \in Fields \ {"timer"} : Schedule(w)[f] = w[f]
<1>1. CASE w.paused
  BY <1>1 DEF Schedule, Clock
<1>2. CASE ~w.paused
  BY <1>2 DEF Schedule, Clock, Shaped, Fields
<1> QED BY <1>1, <1>2

LEMMA SetPausedIs ==
  ASSUME NEW w, NEW pause \in BOOLEAN, Shaped(w), Clock(w)
  PROVE  /\ Shaped(SetPaused(w, pause)) /\ Clock(SetPaused(w, pause))
         /\ \A f \in Fields \ {"timer", "paused"} : SetPaused(w, pause)[f] = w[f]
<1>1. CASE pause = w.paused
  BY <1>1 DEF SetPaused
<1>2. CASE pause # w.paused /\ pause = TRUE
  BY <1>2 DEF SetPaused, Clock, Shaped, Fields
<1>3. CASE pause # w.paused /\ pause = FALSE
  <2> DEFINE y == [w EXCEPT !.paused = FALSE]
  <2>1. SetPaused(w, pause) = Schedule(y)
    BY <1>3 DEF SetPaused
  <2>2. /\ Shaped(y) /\ y.running \in BOOLEAN /\ y.paused = FALSE /\ y.timer \in BOOLEAN
        /\ \A f \in Fields \ {"paused"} : y[f] = w[f]
    BY DEF Shaped, Clock, Fields
  <2> HIDE DEF y
  <2>3. /\ Shaped(Schedule(y)) /\ Clock(Schedule(y))
        /\ \A f \in Fields \ {"timer"} : Schedule(y)[f] = y[f]
    BY <2>2, ScheduleIs
  <2> QED BY <2>1, <2>2, <2>3
<1> QED BY <1>1, <1>2, <1>3

LEMMA SetFocusIs ==
  ASSUME NEW w, NEW away \in BOOLEAN, Shaped(w), Clock(w)
  PROVE  /\ Shaped(SetFocus(w, away)) /\ Clock(SetFocus(w, away))
         /\ \A f \in Fields \ {"timer", "paused", "away"} : SetFocus(w, away)[f] = w[f]
<1> DEFINE y == SetPaused(w, away)
           x == [y EXCEPT !.away = away]
<1>1. /\ Shaped(y) /\ Clock(y)
      /\ \A f \in Fields \ {"timer", "paused"} : y[f] = w[f]
  BY SetPausedIs
<1>2. x = SetFocus(w, away)
  BY DEF SetFocus
<1> HIDE DEF y
<1>3. Shaped(x) /\ \A f \in Fields \ {"away"} : x[f] = y[f]
  BY <1>1 DEF Shaped, Fields
<1> HIDE DEF x
<1>4. x.running = y.running /\ x.paused = y.paused /\ x.timer = y.timer
  BY <1>3 DEF Fields
<1>5. Clock(x)
  BY <1>1, <1>4 DEF Clock
<1> QED BY <1>1, <1>2, <1>3, <1>5

\* The menu and the clicks pause, or set the focus of the screen.
LEMMA PausesIs ==
  ASSUME TogglePause \/ ClickScreen \/ ClickElsewhere
  PROVE  \E away \in BOOLEAN : app' = SetPaused(app, away) \/ app' = SetFocus(app, away)
  BY DEF TogglePause, ClickScreen, ClickElsewhere

\* A started game has no movie, and its two memories are those of its start.
LEMMA StartIs ==
  ASSUME NEW w, Sound(w)
  PROVE  /\ Leads(w, Start(w)) /\ ~Recording(Start(w)) /\ Start(w).running = TRUE
         /\ Start(w).initial = w.initial
         /\ Start(w).game = w.game /\ Start(w).name = w.name
         /\ ~Recording(w) => Start(w).files = w.files
<1> DEFINE reset == [w EXCEPT !.host = Core!Reset(@, Re, "loaded")]
           idle == StopMovie(reset)
           loaded == Unserialize(idle)
           twice == UpdateRam(UpdateRam(loaded))
           on == [twice EXCEPT !.running = TRUE, !.paused = @ /\ ~w.away, !.away = FALSE]
           x == Schedule(on)
<1>1. Shaped(reset) /\ \A f \in Fields \ {"host"} : reset[f] = w[f]
  BY DEF Sound, Shaped, Fields
<1> HIDE DEF reset
<1>2. Sound(reset) /\ Same(w, reset) /\ Keeps(w, reset)
  <2>1. /\ reset.running = w.running /\ reset.paused = w.paused /\ reset.timer = w.timer
        /\ reset.console = w.console /\ reset.titles = w.titles /\ reset.title = w.title
        /\ reset.game = w.game /\ reset.files = w.files /\ reset.movie = w.movie
        /\ reset.recording = w.recording /\ reset.disk = w.disk
        /\ reset.clone = w.clone /\ reset.last = w.last /\ reset.name = w.name
    BY <1>1 DEF Fields
  <2>2. Keeps(w, reset)
    BY <2>1, KeepsSelf
  <2> QED BY <1>1, <2>1, <2>2, SoundIs DEF Same
<1>3. /\ Sound(idle) /\ Same(reset, idle) /\ Keeps(reset, idle) /\ ~Recording(idle)
      /\ idle.initial = reset.initial
      /\ ~Recording(reset) => idle.files = reset.files
  BY <1>2, StopMovieIs
<1> HIDE DEF idle
<1>4. /\ Shaped(loaded)
      /\ \A f \in Fields \ {"host", "console"} : loaded[f] = idle[f]
      /\ Frames(loaded) /\ loaded.console.frames = <<>>
  <2>1. PICK rom, from, host :
          loaded = [idle EXCEPT !.host = host,
                                !.console = [rom |-> rom, frames |-> <<>>, from |-> from]]
    BY DEF Unserialize
  <2>2. <<>> \in Seq(Keys)
    OBVIOUS
  <2> HIDE DEF loaded
  <2>3. /\ Shaped(loaded) /\ loaded.console = [rom |-> rom, frames |-> <<>>, from |-> from]
        /\ \A f \in Fields \ {"host", "console"} : loaded[f] = idle[f]
    BY <1>3, <2>1 DEF Sound, Shaped, Fields
  <2> QED BY <2>2, <2>3 DEF Frames
<1> HIDE DEF loaded
<1>5. /\ Shaped(twice) /\ \A f \in Fields \ {"clone", "last"} : twice[f] = loaded[f]
      /\ twice.clone = loaded.console /\ twice.last = loaded.console
  BY <1>4 DEF UpdateRam, Shaped, Fields
<1> HIDE DEF twice
<1>6. /\ Shaped(on) /\ on.running = TRUE /\ on.paused = (twice.paused /\ ~w.away)
      /\ \A f \in Fields \ {"running", "paused", "away"} : on[f] = twice[f]
  BY <1>5 DEF Shaped, Fields
<1> HIDE DEF on
<1>7. /\ on.console = loaded.console /\ on.clone = loaded.console /\ on.last = loaded.console
      /\ on.paused = (idle.paused /\ ~w.away)
      /\ on.timer = idle.timer /\ on.movie = idle.movie
      /\ on.recording = idle.recording /\ on.files = idle.files /\ on.disk = idle.disk
      /\ on.titles = idle.titles /\ on.title = idle.title /\ on.initial = idle.initial
      /\ on.game = idle.game /\ on.name = idle.name
  BY <1>4, <1>5, <1>6 DEF Fields
<1>8. on.paused \in BOOLEAN /\ on.timer \in BOOLEAN /\ (on.paused => ~on.timer)
  BY <1>3, <1>7 DEF Sound, Clock
<1>9. Shaped(x) /\ Clock(x) /\ \A f \in Fields \ {"timer"} : x[f] = on[f]
  BY <1>6, <1>8, ScheduleIs
<1>10. x = Start(w)
  BY DEF Start, on, twice, loaded, idle, reset
<1> HIDE DEF x
<1>11. /\ x.console = loaded.console /\ x.clone = loaded.console /\ x.last = loaded.console
       /\ x.running = TRUE /\ x.movie = idle.movie /\ x.recording = idle.recording
       /\ x.files = idle.files /\ x.disk = idle.disk /\ x.titles = idle.titles
       /\ x.title = idle.title /\ x.initial = idle.initial
       /\ x.game = idle.game /\ x.name = idle.name
  BY <1>6, <1>7, <1>9 DEF Fields
<1>12. ~Recording(x)
  BY <1>3, <1>11 DEF Recording
<1>13. Sound(x)
  BY <1>3, <1>4, <1>9, <1>11, <1>12 DEF Sound, Frames, Titled, Pending
<1>14. Reports(x)
  BY <1>4, <1>11 DEF Reports
<1>15. Keeps(idle, x)
  BY <1>11, KeepsSelf
<1>16. Keeps(w, x)
  BY <1>2, <1>3, <1>15, KeepsOn
<1>17. x.initial = w.initial /\ x.game = w.game /\ x.name = w.name
  BY <1>1, <1>2, <1>3, <1>11 DEF Same, Fields
<1>18. ~Recording(w) => x.files = w.files
  <2>1. Recording(reset) <=> Recording(w)
    BY <1>1 DEF Recording, Fields
  <2>2. reset.files = w.files
    BY <1>1 DEF Fields
  <2> QED BY <1>3, <1>11, <2>1, <2>2
<1> QED BY <1>10, <1>11, <1>12, <1>13, <1>14, <1>16, <1>17, <1>18 DEF Leads, Fine
-----------------------------------------------------------------------------
(***************************************************************************)
(* Recording.                                                              *)
(***************************************************************************)
LEMMA RecordMovieIs ==
  ASSUME NEW w, NEW path, Fine(w),
         path \notin Episodes \/ (~Recording(w) /\ NextName(path, w.files))
  PROVE  Leads(w, RecordMovie(w, path))
<1> DEFINE begun == IF w.running THEN Start(w) ELSE w
           opened == OpenWrite(path, w.disk[path])
           movie == SetState(opened, begun.initial)
           y == Assign(begun, movie)
           x == [y EXCEPT !.title = begun.game, !.recording = TRUE, !.opened = @ + 1]
<1>1. Leads(w, begun) /\ (~Recording(w) => begun.files = w.files)
  <2>1. CASE w.running
    BY <2>1, StartIs DEF Fine
  <2>2. CASE ~w.running
    BY <2>2, KeepsSelf DEF Leads
  <2> QED BY <2>1, <2>2
<1>2. "path" \in DOMAIN movie /\ movie.path = path
  BY DEF SetState, OpenWrite
<1>3. RecordMovie(w, path) = x
  BY DEF RecordMovie, Recorded
<1> HIDE DEF begun, movie
<1>4. /\ Shaped(y) /\ Same(begun, y) /\ Keeps(begun, y) /\ y.movie = movie
      /\ Titled(y) /\ Filed(y.files)
      /\ ~Recording(begun) => y.files = begun.files
  BY <1>1, AssignIs DEF Leads, Fine
<1> HIDE DEF y
<1>5. /\ Shaped(x) /\ x.movie = movie /\ x.title = begun.game
      /\ \A f \in Fields \ {"title", "recording", "opened"} : x[f] = y[f]
  BY <1>4 DEF Shaped, Fields
<1> HIDE DEF x
<1>6. Same(begun, x) /\ x.files = y.files /\ x.disk = y.disk /\ x.titles = y.titles
  BY <1>4, <1>5 DEF Same, Fields
<1>7. NextName(path, x.files)
  <2>1. CASE path \notin Episodes
    BY <2>1 DEF NextName
  <2>2. CASE ~Recording(w) /\ NextName(path, w.files)
    <3>1. ~Recording(begun)
      <4>1. CASE w.running
        BY <4>1, StartIs DEF Fine, begun
      <4>2. CASE ~w.running
        BY <2>2, <4>2 DEF begun
      <4> QED BY <4>1, <4>2
    <3> QED BY <1>1, <1>4, <1>6, <2>2, <3>1
  <2> QED BY <2>1, <2>2
<1>8. Pending(x)
  BY <1>2, <1>5, <1>7 DEF Pending
<1>9. Titled(x)
  BY <1>1, <1>4, <1>5, <1>6 DEF Titled, Same, Leads, Fine, Sound
<1>10. Sound(x)
  BY <1>1, <1>4, <1>5, <1>6, <1>8, <1>9 DEF Sound, Same, Clock, Frames, Leads, Fine
<1>11. Reports(x)
  BY <1>1, <1>6, SameReports DEF Leads, Fine
<1>12. Keeps(begun, x)
  BY <1>4, <1>6 DEF Keeps
<1>13. Leads(begun, x)
  BY <1>10, <1>11, <1>12 DEF Leads, Fine
<1>14. Keeps(w, begun)
  BY <1>1 DEF Leads
<1> QED BY <1>3, <1>13, <1>14, LeadsOn

\* The path of the next episode.
Taken(w) == {i \in Numbers : <<w.game, w.name, i>> \in StopMovie(w).files}
NextPath(w) == <<w.game, w.name, Cardinality(Taken(w))>>

LEMMA EpisodeIs ==
  ASSUME NEW w, CanStartEpisode(w)
  PROVE  StartEpisode(w) = RecordMovie(StopMovie(w), NextPath(w))
  BY DEF StartEpisode, NextPath, Taken

\* The number of the files of an episode is the number of the next one.
LEMMA NextPathIs ==
  ASSUME NEW w, Fine(w)
  PROVE  NextName(NextPath(w), StopMovie(w).files)
<1> DEFINE idle == StopMovie(w)
           taken == Taken(w)
           path == NextPath(w)
<1>1. Sound(idle)
  BY StopMovieIs DEF Fine
<1>2. /\ taken = {i \in Numbers : <<w.game, w.name, i>> \in idle.files}
      /\ path = <<w.game, w.name, Cardinality(taken)>>
  BY DEF Taken, NextPath
<1> HIDE DEF idle, taken, path
<1>3. ASSUME path \in Episodes
      PROVE  path \notin idle.files /\ Before(path) \subseteq idle.files
  <2> DEFINE n == MaxMovies + Extra
  <2>1. n \in Nat /\ taken \in SUBSET (0 .. n) /\ Numbers = 0 .. n
    BY <1>2, ControllerAssumption DEF Numbers
  <2> HIDE DEF n
  <2>2. /\ w.game \in {GameOf[rom] : rom \in Good} /\ w.name \in Names
        /\ Cardinality(taken) \in 0 .. n
    BY <1>2, <1>3, <2>1 DEF Episodes
  <2>3. ASSUME NEW i \in taken
        PROVE  0 .. i - 1 \subseteq taken
    <3>1. <<w.game, w.name, i>> \in Episodes \cap idle.files
      BY <1>2, <2>1, <2>2 DEF Episodes
    <3>2. Before(<<w.game, w.name, i>>) \subseteq idle.files
      BY <1>1, <3>1 DEF Sound, Filed
    <3>3. \A j \in 0 .. i - 1 : <<w.game, w.name, j>> \in idle.files
      BY <3>2 DEF Before
    <3> QED BY <1>2, <2>1, <3>3
  <2>4. taken = 0 .. Cardinality(taken) - 1
    BY <2>1, <2>3, Counted
  <2> DEFINE k == Cardinality(taken)
  <2> HIDE DEF k
  <2>5. taken = 0 .. k - 1 /\ k \in 0 .. n
    BY <2>2, <2>4 DEF k
  <2>6. k \notin taken
    BY <2>1, <2>5
  <2>7. path = <<w.game, w.name, k>>
    BY <1>2 DEF k
  <2>8. path \notin idle.files
    BY <1>2, <2>1, <2>5, <2>6, <2>7
  <2>9. \A j \in 0 .. k - 1 : <<w.game, w.name, j>> \in idle.files
    BY <1>2, <2>5
  <2>10. Before(path) \subseteq idle.files
    BY <2>7, <2>9 DEF Before
  <2> QED BY <2>8, <2>10
<1> QED BY <1>3 DEF NextName, idle, path

LEMMA StartEpisodeIs ==
  ASSUME NEW w, Fine(w)
  PROVE  Leads(w, StartEpisode(w))
<1> DEFINE idle == StopMovie(w)
           path == NextPath(w)
<1>1. CASE ~CanStartEpisode(w)
  BY <1>1, KeepsSelf DEF StartEpisode, Leads
<1>2. CASE CanStartEpisode(w)
  <2>1. Sound(idle) /\ Same(w, idle) /\ Keeps(w, idle) /\ ~Recording(idle)
    BY StopMovieIs DEF Fine
  <2>2. Fine(idle)
    BY <2>1, SameReports DEF Fine
  <2>3. StartEpisode(w) = RecordMovie(idle, path) /\ NextName(path, idle.files)
    BY <1>2, EpisodeIs, NextPathIs
  <2> HIDE DEF idle, path
  <2>4. Leads(idle, RecordMovie(idle, path))
    BY <2>1, <2>2, <2>3, RecordMovieIs
  <2> QED BY <2>1, <2>3, <2>4, LeadsOn
<1> QED BY <1>1, <1>2

LEMMA UpdateScenarioIs ==
  ASSUME NEW w, Fine(w)
  PROVE  Leads(w, UpdateScenario(w))
<1>1. CASE UpdateScenario(w) = w
  BY <1>1, KeepsSelf DEF Leads
<1>2. CASE UpdateScenario(w) = StartEpisode(w)
  BY <1>2, StartEpisodeIs
<1> QED BY <1>1, <1>2 DEF UpdateScenario
-----------------------------------------------------------------------------
(***************************************************************************)
(* A frame.                                                                *)
(***************************************************************************)
\* The movie's part of a frame leaves the console and the memories alone.
LEMMA FeedIs ==
  ASSUME NEW w, Sound(w)
  PROVE  /\ Sound(Feed(w)) /\ Keeps(w, Feed(w))
         /\ Feed(w).running = w.running /\ Feed(w).console = w.console
         /\ Feed(w).clone = w.clone /\ Feed(w).last = w.last
<1>1. CASE Recording(w)
  <2> DEFINE keys == [NoKeys EXCEPT ![First] = Held(w)[First]]
             movie == StepWrite(SetKeys(w.movie, keys))
             x == [w EXCEPT !.movie = movie]
  <2>1. Feed(w) = x
    <3>1. "movie" \in DOMAIN w
      BY DEF Sound, Shaped, Fields
    <3> QED BY <1>1, <3>1 DEF Feed
  <2>2. "path" \in DOMAIN w.movie
    BY <1>1 DEF Sound, Pending
  <2>3. "path" \in DOMAIN movie /\ movie.path = w.movie.path
    BY <2>2 DEF StepWrite, SetKeys
  <2> HIDE DEF movie
  <2>4. Shaped(x) /\ x.movie = movie /\ \A f \in Fields \ {"movie"} : x[f] = w[f]
    BY DEF Sound, Shaped, Fields
  <2> HIDE DEF x
  <2>5. /\ x.running = w.running /\ x.paused = w.paused /\ x.timer = w.timer
        /\ x.console = w.console /\ x.titles = w.titles /\ x.title = w.title
        /\ x.game = w.game /\ x.files = w.files /\ x.recording = w.recording
        /\ x.disk = w.disk /\ x.clone = w.clone /\ x.last = w.last
    BY <2>4 DEF Fields
  <2>6. Pending(x)
    BY <1>1, <2>3, <2>4, <2>5 DEF Sound, Pending
  <2>7. Sound(x)
    BY <2>4, <2>5, <2>6 DEF Sound, Clock, Frames, Titled
  <2> QED BY <2>1, <2>5, <2>7, KeepsSelf
<1>2. CASE ~Recording(w) /\ ~Playing(w)
  BY <1>2, KeepsSelf DEF Feed
<1>3. CASE ~Recording(w) /\ Playing(w) /\ AtEnd(w.movie)
  <2> DEFINE y == SetPaused(w, TRUE)
  <2>1. Feed(w) = StopMovie(y)
    BY <1>3 DEF Feed
  <2>2. Shaped(y) /\ Clock(y) /\ \A f \in Fields \ {"timer", "paused"} : y[f] = w[f]
    BY SetPausedIs DEF Sound
  <2> HIDE DEF y
  <2>3. /\ y.running = w.running /\ y.console = w.console /\ y.clone = w.clone
        /\ y.last = w.last /\ y.titles = w.titles /\ y.title = w.title
        /\ y.game = w.game /\ y.files = w.files /\ y.movie = w.movie
        /\ y.recording = w.recording /\ y.disk = w.disk
    BY <2>2 DEF Fields
  <2>4. Sound(y)
    BY <2>2, <2>3 DEF Sound, Frames, Titled, Pending, Recording
  <2>5. Sound(StopMovie(y)) /\ Same(y, StopMovie(y)) /\ Keeps(y, StopMovie(y))
    BY <2>4, StopMovieIs
  <2>6. Keeps(w, y)
    BY <2>3, KeepsSelf
  <2> QED BY <2>1, <2>3, <2>5, <2>6, KeepsOn DEF Same
<1>4. CASE ~Recording(w) /\ Playing(w) /\ ~AtEnd(w.movie)
  <2> DEFINE movie == StepRead(w.movie)
             y == [w EXCEPT !.movie = movie]
             x == Hold(y, PadsOf(movie.keys))
  <2>1. Feed(w) = x
    BY <1>4 DEF Feed
  <2> HIDE DEF movie
  <2>2. Shaped(y) /\ \A f \in Fields \ {"movie"} : y[f] = w[f]
    BY DEF Sound, Shaped, Fields
  <2> HIDE DEF y
  <2>3. Shaped(x) /\ \A f \in Fields \ {"host"} : x[f] = y[f]
    BY <2>2, HoldIs
  <2> HIDE DEF x
  <2>4. /\ x.running = w.running /\ x.paused = w.paused /\ x.timer = w.timer
        /\ x.console = w.console /\ x.titles = w.titles /\ x.title = w.title
        /\ x.game = w.game /\ x.files = w.files /\ x.recording = w.recording
        /\ x.disk = w.disk /\ x.clone = w.clone /\ x.last = w.last
    BY <2>2, <2>3 DEF Fields
  <2>5. ~Recording(x)
    BY <1>4, <2>4 DEF Playing, Recording
  <2>6. Sound(x)
    BY <2>3, <2>4, <2>5 DEF Sound, Clock, Frames, Titled, Pending
  <2> QED BY <2>1, <2>4, <2>6, KeepsSelf
<1> QED BY <1>1, <1>2, <1>3, <1>4

LEMMA SeenIs ==
  ASSUME NEW w, Fine(w)
  PROVE  Leads(w, Seen(w))
<1>1. CASE Recording(w)
  <2> DEFINE x == [w EXCEPT !.movie.outs = Append(@, w.console)]
  <2>1. Seen(w) = x
    BY <1>1 DEF Seen
  <2>2. "path" \in DOMAIN w.movie /\ NextName(w.movie.path, w.files)
    BY <1>1 DEF Fine, Sound, Pending
  <2>3. /\ Shaped(x) /\ "path" \in DOMAIN x.movie /\ x.movie.path = w.movie.path
        /\ \A f \in Fields \ {"movie"} : x[f] = w[f]
    BY <2>2 DEF Fine, Sound, Shaped, Fields
  <2> HIDE DEF x
  <2>4. /\ x.running = w.running /\ x.paused = w.paused /\ x.timer = w.timer
        /\ x.console = w.console /\ x.titles = w.titles /\ x.title = w.title
        /\ x.game = w.game /\ x.files = w.files /\ x.recording = w.recording
        /\ x.disk = w.disk /\ x.clone = w.clone /\ x.last = w.last /\ x.name = w.name
    BY <2>3 DEF Fields
  <2>5. Pending(x)
    BY <2>2, <2>3, <2>4 DEF Pending
  <2>6. Sound(x)
    BY <2>3, <2>4, <2>5 DEF Fine, Sound, Clock, Frames, Titled
  <2>7. Reports(x)
    BY <2>4, SameReports DEF Fine, Same
  <2> QED BY <2>1, <2>4, <2>6, <2>7, KeepsSelf DEF Leads, Fine
<1>2. CASE ~Recording(w) /\ Playing(w)
  <2> DEFINE x == [w EXCEPT !.shown = Append(@, w.console)]
  <2>1. Seen(w) = x
    BY <1>2 DEF Seen
  <2>2. Shaped(x) /\ \A f \in Fields \ {"shown"} : x[f] = w[f]
    BY DEF Fine, Sound, Shaped, Fields
  <2> HIDE DEF x
  <2>3. /\ x.running = w.running /\ x.paused = w.paused /\ x.timer = w.timer
        /\ x.console = w.console /\ x.titles = w.titles /\ x.title = w.title
        /\ x.game = w.game /\ x.files = w.files /\ x.recording = w.recording
        /\ x.movie = w.movie
        /\ x.disk = w.disk /\ x.clone = w.clone /\ x.last = w.last /\ x.name = w.name
    BY <2>2 DEF Fields
  <2>4. Sound(x)
    BY <2>2, <2>3, SoundIs DEF Fine
  <2>5. Reports(x)
    BY <2>3, SameReports DEF Fine, Same
  <2> QED BY <2>1, <2>3, <2>4, <2>5, KeepsSelf DEF Leads, Fine
<1>3. CASE ~Recording(w) /\ ~Playing(w)
  BY <1>3, KeepsSelf DEF Seen, Leads
<1> QED BY <1>1, <1>2, <1>3

\* A frame, before the scenario looks at it.
Ran(w) ==
  LET fed == Feed(w)
  IN [fed EXCEPT !.host = Core!Run(@, Re, @.gen), !.console.frames = Append(@, Held(fed))]
Frame(w) == Seen(UpdateRam(Ran(w)))

LEMMA FrameOf ==
  ASSUME NEW w
  PROVE  RunOneStep(w) = UpdateScenario(Frame(w))
  BY DEF RunOneStep, Frame, Ran

\* The frame before the last one is what the two memories were of.
LEMMA FrameIs ==
  ASSUME NEW w, Fine(w)
  PROVE  Leads(w, Frame(w))
<1> DEFINE fed == Feed(w)
           pads == Held(fed)
           ran == [fed EXCEPT !.host = Core!Run(@, Re, @.gen),
                              !.console.frames = Append(@, pads)]
           x == UpdateRam(ran)
<1>1. /\ Sound(fed) /\ Keeps(w, fed) /\ fed.running = w.running
      /\ fed.console = w.console /\ fed.clone = w.clone /\ fed.last = w.last
  BY FeedIs DEF Fine
<1>2. pads \in Keys
  BY DEF Held, Keys
<1>3. Frame(w) = Seen(x)
  BY DEF Frame, Ran
<1> HIDE DEF fed, pads
<1> DEFINE f == fed.console.frames
           console == [rom |-> fed.console.rom, from |-> fed.console.from,
                       frames |-> Append(f, pads)]
<1>4. f \in Seq(Keys) /\ fed.console = [rom |-> fed.console.rom,
                                        from |-> fed.console.from, frames |-> f]
  BY <1>1 DEF Sound, Frames
<1>5. /\ Shaped(ran) /\ ran.console = console
      /\ \A g \in Fields \ {"host", "console"} : ran[g] = fed[g]
  BY <1>1, <1>4 DEF Sound, Shaped, Fields
<1> HIDE DEF ran, console
<1>6. /\ Shaped(x) /\ x.last = ran.clone /\ x.clone = ran.console
      /\ \A g \in Fields \ {"clone", "last"} : x[g] = ran[g]
  BY <1>5 DEF UpdateRam, Shaped, Fields
<1> HIDE DEF x
<1>7. /\ x.running = fed.running /\ x.paused = fed.paused /\ x.timer = fed.timer
      /\ x.console = console /\ x.titles = fed.titles /\ x.title = fed.title
      /\ x.game = fed.game /\ x.files = fed.files /\ x.recording = fed.recording
      /\ x.movie = fed.movie /\ x.disk = fed.disk
      /\ x.clone = console /\ x.last = fed.clone
  BY <1>5, <1>6 DEF Fields
<1> HIDE DEF f
<1>8. Append(f, pads) \in Seq(Keys) /\ Append(f, pads) # <<>> /\ Front(Append(f, pads)) = f
  BY <1>2, <1>4 DEF Front
<1>9. Sound(x)
  <2>1. Frames(x)
    BY <1>7, <1>8 DEF Frames, console
  <2> QED BY <1>1, <1>6, <1>7, <2>1 DEF Sound, Clock, Titled, Pending, Recording
<1>10. Reports(x)
  <2> SUFFICES ASSUME x.running
               PROVE  /\ x.clone = x.console
                      /\ x.last = IF x.console.frames = <<>> THEN x.console
                                  ELSE [x.console EXCEPT !.frames = Front(@)]
    BY DEF Reports
  <2>1. x.last = fed.console
    BY <1>1, <1>7 DEF Fine, Reports
  <2>2. console.frames = Append(f, pads)
    BY DEF console
  <2>3. [console EXCEPT !.frames = Front(@)] =
          [rom |-> fed.console.rom, from |-> fed.console.from, frames |-> f]
    BY <1>8 DEF console
  <2> QED BY <1>4, <1>7, <1>8, <2>1, <2>2, <2>3
<1>11. Keeps(fed, x)
  BY <1>7, KeepsSelf
<1>12. Leads(w, x)
  BY <1>1, <1>9, <1>10, <1>11, KeepsOn DEF Leads, Fine
<1>13. Leads(x, Seen(x))
  BY <1>9, <1>10, SeenIs DEF Fine
<1> QED BY <1>3, <1>12, <1>13, LeadsOn DEF Leads

LEMMA RunOneStepIs ==
  ASSUME NEW w, Fine(w)
  PROVE  Leads(w, RunOneStep(w))
<1>1. Leads(w, Frame(w))
  BY FrameIs
<1>2. Leads(Frame(w), UpdateScenario(Frame(w)))
  BY <1>1, UpdateScenarioIs DEF Leads
<1> QED BY <1>1, <1>2, FrameOf, LeadsOn DEF Leads

\* The frames of a tick are a function although they are defined by each other.
LEMMA FramesExist ==
  ASSUME NEW one, NEW n \in Nat
  PROVE  \E g : g = [k \in 0 .. n |-> IF k = 0 THEN one ELSE RunOneStep(g[k - 1])]
<1> DEFINE Solves(i, g) ==
             g = [k \in 0 .. i |-> IF k = 0 THEN one ELSE RunOneStep(g[k - 1])]
           S == {i \in Nat : \E g : Solves(i, g)}
<1>1. 0 \in S
  <2>1. Solves(0, [k \in 0 .. 0 |-> one])
    OBVIOUS
  <2> HIDE DEF Solves
  <2> QED BY <2>1
<1>2. \A i \in 1 .. n : i - 1 \in S => i \in S
  <2> SUFFICES ASSUME NEW i \in 1 .. n, i - 1 \in S PROVE i \in S
    OBVIOUS
  <2>1. PICK g : Solves(i - 1, g)
    OBVIOUS
  <2> DEFINE h == [k \in 0 .. i |-> IF k = i THEN RunOneStep(g[i - 1]) ELSE g[k]]
  <2>2. \A k \in 0 .. i - 1 : h[k] = g[k]
    OBVIOUS
  <2>3. \A k \in 0 .. i : h[k] = IF k = 0 THEN one ELSE RunOneStep(h[k - 1])
    <3> SUFFICES ASSUME NEW k \in 0 .. i
                 PROVE  h[k] = IF k = 0 THEN one ELSE RunOneStep(h[k - 1])
      OBVIOUS
    <3>1. CASE k = 0
      <4>1. 0 \in 0 .. i - 1 /\ g[0] = one
        BY <2>1
      <4> QED BY <2>2, <3>1, <4>1
    <3>2. CASE k # 0 /\ k # i
      <4>1. k \in 0 .. i - 1 /\ k - 1 \in 0 .. i - 1
        BY <3>2
      <4>2. g[k] = RunOneStep(g[k - 1])
        BY <2>1, <3>2, <4>1
      <4>3. h[k] = g[k] /\ h[k - 1] = g[k - 1]
        BY <2>2, <4>1
      <4> QED BY <3>2, <4>2, <4>3
    <3>3. CASE k # 0 /\ k = i
      <4>1. k - 1 \in 0 .. i - 1
        BY <3>3
      <4>2. h[k - 1] = g[i - 1]
        BY <2>2, <3>3, <4>1
      <4>3. h[k] = RunOneStep(g[i - 1])
        BY <3>3
      <4> QED BY <3>3, <4>2, <4>3
    <3> QED BY <3>1, <3>2, <3>3
  <2>4. h = [k \in 0 .. i |-> h[k]]
    OBVIOUS
  <2> HIDE DEF h
  <2>5. Solves(i, h)
    BY <2>3, <2>4
  <2> HIDE DEF Solves
  <2> QED BY <2>5
<1> HIDE DEF S, Solves
<1>3. 0 .. n \subseteq S
  BY <1>1, <1>2, UpTo
<1>4. n \in S
  BY <1>3
<1> QED BY <1>4 DEF S, Solves

LEMMA RunFastIs ==
  ASSUME NEW one, Fine(one)
  PROVE  Leads(one, RunFast(one))
<1> DEFINE frames == CHOOSE g :
             g = [n \in 0 .. Extra |-> IF n = 0 THEN one ELSE RunOneStep(g[n - 1])]
<1>1. Extra \in Nat
  BY ControllerAssumption
<1>2. frames = [n \in 0 .. Extra |-> IF n = 0 THEN one ELSE RunOneStep(frames[n - 1])]
  BY <1>1, FramesExist
<1>3. RunFast(one) = IF one.ff /\ ~one.paused THEN frames[Extra] ELSE one
  BY DEF RunFast
<1> HIDE DEF frames
<1> DEFINE S == {n \in 0 .. Extra : Leads(one, frames[n])}
<1>4. 0 \in S
  BY <1>1, <1>2, KeepsSelf DEF Leads
<1>5. \A i \in 1 .. Extra : i - 1 \in S => i \in S
  <2> SUFFICES ASSUME NEW i \in 1 .. Extra, Leads(one, frames[i - 1])
               PROVE  Leads(one, frames[i])
    BY <1>1
  <2>1. frames[i] = RunOneStep(frames[i - 1])
    BY <1>1, <1>2
  <2>2. Leads(frames[i - 1], RunOneStep(frames[i - 1]))
    BY RunOneStepIs DEF Leads
  <2> QED BY <2>1, <2>2, LeadsOn DEF Leads
<1>6. 0 .. Extra \subseteq S
  <2> HIDE DEF S
  <2> QED BY <1>1, <1>4, <1>5, UpTo
<1>7. Leads(one, frames[Extra])
  BY <1>1, <1>6
<1>8. Leads(one, one)
  BY KeepsSelf DEF Leads
<1> QED BY <1>3, <1>7, <1>8

LEMMA RunOnceIs ==
  ASSUME NEW w, Fine(w)
  PROVE  Leads(w, RunOnce(w))
<1>1. Leads(w, RunOneStep(w))
  BY RunOneStepIs
<1>2. Leads(RunOneStep(w), RunFast(RunOneStep(w)))
  BY <1>1, RunFastIs DEF Leads
<1>3. Leads(w, w)
  BY KeepsSelf DEF Leads
<1> QED BY <1>1, <1>2, <1>3, LeadsOn DEF RunOnce, Leads
-----------------------------------------------------------------------------
(***************************************************************************)
(* Opening files.                                                          *)
(***************************************************************************)
\* What neither the timer, the movies nor the reports look at.
LEMMA AsideIs ==
  ASSUME NEW w, NEW x, Fine(w), Shaped(x), x.game \in Games \cup {NoGame},
         \A f \in Fields \ {"host", "initial", "game", "name", "recordMode", "ff"} :
           x[f] = w[f]
  PROVE  Leads(w, x)
<1>1. /\ x.running = w.running /\ x.paused = w.paused /\ x.timer = w.timer
      /\ x.console = w.console /\ x.titles = w.titles /\ x.title = w.title
      /\ x.files = w.files /\ x.movie = w.movie /\ x.recording = w.recording
      /\ x.disk = w.disk /\ x.clone = w.clone /\ x.last = w.last
  BY DEF Fields
<1>2. Sound(x)
  BY <1>1 DEF Fine, Sound, Clock, Frames, Titled, Pending, Recording
<1>3. Reports(x)
  BY <1>1 DEF Fine, Reports
<1> QED BY <1>1, <1>2, <1>3, KeepsSelf DEF Leads, Fine

LEMMA GameChangedIs ==
  ASSUME NEW w, NEW game \in Games \cup {NoGame}, Fine(w)
  PROVE  Leads(w, GameChanged(w, game))
<1> DEFINE x == GameChanged(w, game)
<1>1. /\ Shaped(x) /\ x.game = game
      /\ \A f \in Fields \ {"game", "name"} : x[f] = w[f]
  BY DEF GameChanged, Fine, Sound, Shaped, Fields
<1> QED BY <1>1, AsideIs

\* A game that loads leaves the reports behind until it is started.
LEMMA LoadGameIs ==
  ASSUME NEW w, NEW rom \in Roms, Fine(w)
  PROVE  /\ Sound(LoadGame(w, rom)) /\ Keeps(w, LoadGame(w, rom))
         /\ rom \notin Good => Leads(w, LoadGame(w, rom))
<1> DEFINE host == Core!LoadRom(Core!UnloadCore(w.host, Re), Re, rom, LoadOutcome[rom])
           tried == [w EXCEPT !.host = host, !.initial = NoState]
           ready == [tried EXCEPT !.host = Core!ConfigureData(@, Re, Ram),
                                  !.console = [Nothing EXCEPT !.rom = rom],
                                  !.clone = Nothing, !.last = Nothing]
           idle == StopMovie(ready)
           x == GameChanged(idle, GameOf[rom])
<1>1. LoadGame(w, rom) = IF rom \in Good THEN x ELSE tried
  BY DEF LoadGame
<1> HIDE DEF host
<1>2. /\ Shaped(tried) /\ \A f \in Fields \ {"host", "initial"} : tried[f] = w[f]
  BY DEF Fine, Sound, Shaped, Fields
<1> HIDE DEF tried
<1>3. Leads(w, tried)
  <2>1. tried.game \in Games \cup {NoGame}
    BY <1>2 DEF Fine, Sound, Titled, Fields
  <2> QED BY <1>2, <2>1, AsideIs
<1>4. /\ Shaped(ready) /\ Frames(ready)
      /\ \A f \in Fields \ {"host", "console", "clone", "last"} : ready[f] = tried[f]
  <2>1. /\ Shaped(ready) /\ ready.console = [rom |-> rom, from |-> NoState, frames |-> <<>>]
        /\ \A f \in Fields \ {"host", "console", "clone", "last"} : ready[f] = tried[f]
    BY <1>2 DEF Shaped, Fields, Nothing
  <2>2. <<>> \in Seq(Keys)
    OBVIOUS
  <2>3. /\ ready.console.rom = rom /\ ready.console.from = NoState
        /\ ready.console.frames = <<>>
    BY <2>1
  <2> HIDE DEF ready
  <2>4. Frames(ready)
    BY <2>1, <2>2, <2>3 DEF Frames
  <2> QED BY <2>1, <2>4
<1> HIDE DEF ready
<1>5. Sound(ready) /\ Keeps(tried, ready)
  <2>1. /\ ready.running = tried.running /\ ready.paused = tried.paused
        /\ ready.timer = tried.timer /\ ready.titles = tried.titles
        /\ ready.title = tried.title /\ ready.game = tried.game
        /\ ready.files = tried.files /\ ready.disk = tried.disk
        /\ ready.movie = tried.movie /\ ready.recording = tried.recording
    BY <1>4 DEF Fields
  <2> QED BY <1>3, <1>4, <2>1, KeepsSelf
          DEF Leads, Fine, Sound, Clock, Titled, Pending, Recording
<1>6. Sound(idle) /\ Keeps(ready, idle)
  BY <1>5, StopMovieIs
<1> HIDE DEF idle
<1>7. /\ Shaped(x) /\ x.game = GameOf[rom]
      /\ \A f \in Fields \ {"game", "name"} : x[f] = idle[f]
  BY <1>6 DEF GameChanged, Sound, Shaped, Fields
<1> HIDE DEF x
<1>8. Sound(x) /\ Keeps(idle, x)
  <2>1. /\ x.running = idle.running /\ x.paused = idle.paused /\ x.timer = idle.timer
        /\ x.console = idle.console /\ x.titles = idle.titles /\ x.title = idle.title
        /\ x.files = idle.files /\ x.disk = idle.disk /\ x.movie = idle.movie
        /\ x.recording = idle.recording
    BY <1>7 DEF Fields
  <2>2. GameOf[rom] \in Games
    BY ControllerAssumption
  <2> QED BY <1>6, <1>7, <2>1, <2>2, KeepsSelf
          DEF Sound, Clock, Frames, Titled, Pending, Recording
<1>9. Keeps(w, x)
  BY <1>3, <1>5, <1>6, <1>8, KeepsOn DEF Leads
<1> QED BY <1>1, <1>3, <1>8, <1>9 DEF Leads, Fine

LEMMA OpenGameIs ==
  ASSUME NEW w, NEW rom \in Roms, Fine(w)
  PROVE  Leads(w, OpenGame(w, rom))
<1> DEFINE loaded == LoadGame(w, rom)
<1>1. Sound(loaded) /\ Keeps(w, loaded) /\ (rom \notin Good => Leads(w, loaded))
  BY LoadGameIs
<1>2. OpenGame(w, rom) = IF rom \in Good THEN GameChanged(Start(loaded), GameOf[rom])
                         ELSE loaded
  BY DEF OpenGame
<1> HIDE DEF loaded
<1>3. Leads(loaded, Start(loaded))
  BY <1>1, StartIs
<1>4. GameOf[rom] \in Games
  BY ControllerAssumption
<1>5. Leads(Start(loaded), GameChanged(Start(loaded), GameOf[rom]))
  BY <1>3, <1>4, GameChangedIs DEF Leads
<1> QED BY <1>1, <1>2, <1>3, <1>5, LeadsOn DEF Leads

Found(try) == DOMAIN try = {"w", "found"}

LEMMA TryRomIs ==
  ASSUME NEW w, NEW rom \in Roms, Fine(w)
  PROVE  Found(TryRom(w, rom)) /\ Leads(w, TryRom(w, rom).w)
<1> DEFINE loaded == LoadGame(w, rom)
           asked == [loaded EXCEPT !.initial = w.initial]
           back == Start(asked)
           x == GameChanged(back, GameOf[rom])
<1>1. Sound(loaded) /\ Keeps(w, loaded) /\ (rom \notin Good => Leads(w, loaded))
  BY LoadGameIs
<1>2. TryRom(w, rom) = IF rom \in Good THEN [w |-> x, found |-> TRUE]
                       ELSE [w |-> loaded, found |-> FALSE]
  BY DEF TryRom
<1> HIDE DEF loaded
<1>3. Sound(asked) /\ Keeps(loaded, asked)
  <2>1. Shaped(asked) /\ \A f \in Fields \ {"initial"} : asked[f] = loaded[f]
    BY <1>1 DEF Sound, Shaped, Fields
  <2> HIDE DEF asked
  <2>2. /\ asked.running = loaded.running /\ asked.paused = loaded.paused
        /\ asked.timer = loaded.timer /\ asked.console = loaded.console
        /\ asked.titles = loaded.titles /\ asked.title = loaded.title
        /\ asked.game = loaded.game /\ asked.files = loaded.files
        /\ asked.disk = loaded.disk /\ asked.movie = loaded.movie
        /\ asked.recording = loaded.recording
    BY <2>1 DEF Fields
  <2> QED BY <1>1, <2>1, <2>2, SoundIs, KeepsSelf
<1> HIDE DEF asked
<1>4. Leads(asked, back)
  BY <1>3, StartIs
<1> HIDE DEF back
<1>5. Leads(back, x)
  <2>1. GameOf[rom] \in Games
    BY ControllerAssumption
  <2> QED BY <1>4, <2>1, GameChangedIs DEF Leads
<1> HIDE DEF x
<1>6. Leads(w, x)
  BY <1>1, <1>3, <1>4, <1>5, KeepsOn, LeadsOn DEF Leads
<1> QED BY <1>1, <1>2, <1>6 DEF Found

Attempt(g, roms, n) ==
  IF g[n - 1].found THEN g[n - 1] ELSE TryRom(g[n - 1].w, roms[n])

LEMMA AttemptsExist ==
  ASSUME NEW try, NEW roms, NEW n \in Nat
  PROVE  \E g : g = [k \in 0 .. n |-> IF k = 0 THEN try ELSE Attempt(g, roms, k)]
<1> DEFINE Solves(i, g) ==
             g = [k \in 0 .. i |-> IF k = 0 THEN try ELSE Attempt(g, roms, k)]
           S == {i \in Nat : \E g : Solves(i, g)}
<1>1. 0 \in S
  <2>1. Solves(0, [k \in 0 .. 0 |-> try])
    OBVIOUS
  <2> HIDE DEF Solves
  <2> QED BY <2>1
<1>2. \A i \in 1 .. n : i - 1 \in S => i \in S
  <2> SUFFICES ASSUME NEW i \in 1 .. n, i - 1 \in S PROVE i \in S
    OBVIOUS
  <2>1. PICK g : Solves(i - 1, g)
    OBVIOUS
  <2> DEFINE h == [k \in 0 .. i |-> IF k = i THEN Attempt(g, roms, i) ELSE g[k]]
  <2>2. \A k \in 0 .. i - 1 : h[k] = g[k]
    OBVIOUS
  <2>3. \A k \in 0 .. i : h[k] = IF k = 0 THEN try ELSE Attempt(h, roms, k)
    <3> SUFFICES ASSUME NEW k \in 0 .. i
                 PROVE  h[k] = IF k = 0 THEN try ELSE Attempt(h, roms, k)
      OBVIOUS
    <3>1. CASE k = 0
      <4>1. 0 \in 0 .. i - 1 /\ g[0] = try
        BY <2>1
      <4> QED BY <2>2, <3>1, <4>1
    <3>2. CASE k # 0
      <4>1. k - 1 \in 0 .. i - 1
        BY <3>2
      <4>2. h[k - 1] = g[k - 1]
        BY <2>2, <4>1
      <4> HIDE DEF h
      <4>3. Attempt(h, roms, k) = Attempt(g, roms, k)
        BY <4>2 DEF Attempt
      <4>4. CASE k = i
        BY <3>2, <4>3, <4>4 DEF h
      <4>5. CASE k # i
        <5>1. k \in 0 .. i - 1 /\ g[k] = Attempt(g, roms, k)
          BY <2>1, <3>2, <4>5
        <5> QED BY <2>2, <3>2, <4>3, <5>1
      <4> QED BY <4>4, <4>5
    <3> QED BY <3>1, <3>2
  <2>4. h = [k \in 0 .. i |-> h[k]]
    OBVIOUS
  <2> HIDE DEF h
  <2>5. Solves(i, h)
    BY <2>3, <2>4
  <2> HIDE DEF Solves
  <2> QED BY <2>5
<1> HIDE DEF S, Solves
<1>3. 0 .. n \subseteq S
  BY <1>1, <1>2, UpTo
<1>4. n \in S
  BY <1>3
<1> QED BY <1>4 DEF S, Solves

LEMMA FindGameIs ==
  ASSUME NEW w, NEW roms \in Seq(Roms), Fine(w)
  PROVE  Found(FindGame(w, roms)) /\ Leads(w, FindGame(w, roms).w)
<1> DEFINE none == [w |-> w, found |-> FALSE]
           tried == CHOOSE g : g = [n \in 0 .. Len(roms) |->
             IF n = 0 THEN none ELSE Attempt(g, roms, n)]
<1>1. Len(roms) \in Nat
  OBVIOUS
<1>2. FindGame(w, roms) = tried[Len(roms)]
  BY DEF FindGame, Attempt
<1> HIDE DEF none
<1>3. tried = [n \in 0 .. Len(roms) |-> IF n = 0 THEN none ELSE Attempt(tried, roms, n)]
  BY <1>1, AttemptsExist
<1> HIDE DEF tried
<1> DEFINE S == {n \in 0 .. Len(roms) : Found(tried[n]) /\ Leads(w, tried[n].w)}
<1>4. 0 \in S
  <2>1. tried[0] = none
    BY <1>1, <1>3
  <2> QED BY <1>1, <2>1, KeepsSelf DEF none, Found, Leads
<1>5. \A i \in 1 .. Len(roms) : i - 1 \in S => i \in S
  <2> SUFFICES ASSUME NEW i \in 1 .. Len(roms),
                      Found(tried[i - 1]), Leads(w, tried[i - 1].w)
               PROVE  Found(tried[i]) /\ Leads(w, tried[i].w)
    BY <1>1
  <2>1. tried[i] = IF tried[i - 1].found THEN tried[i - 1]
                   ELSE TryRom(tried[i - 1].w, roms[i])
    BY <1>1, <1>3 DEF Attempt
  <2>2. roms[i] \in Roms
    OBVIOUS
  <2>3. /\ Found(TryRom(tried[i - 1].w, roms[i]))
        /\ Leads(tried[i - 1].w, TryRom(tried[i - 1].w, roms[i]).w)
    BY <2>2, TryRomIs DEF Leads
  <2> QED BY <2>1, <2>3, LeadsOn DEF Leads
<1>6. 0 .. Len(roms) \subseteq S
  <2> HIDE DEF S
  <2> QED BY <1>1, <1>4, <1>5, UpTo
<1>7. Len(roms) \in 0 .. Len(roms)
  BY <1>1
<1> QED BY <1>2, <1>6, <1>7

LEMMA WithReaderIs ==
  ASSUME NEW ready, NEW file, Found(ready), Fine(ready.w)
  PROVE  /\ Found(WithReader(ready, file))
         /\ Leads(ready.w, WithReader(ready, file).w)
<1> DEFINE w == ready.w
           reader == OpenRead(file)
           y == Assign(w, reader)
           x == [y EXCEPT !.recording = FALSE, !.tape = file.outs]
<1>1. CASE ~ready.found
  BY <1>1, KeepsSelf DEF WithReader, Leads
<1>2. CASE ready.found
  <2>1. WithReader(ready, file) = [ready EXCEPT !.w = x]
    BY <1>2 DEF WithReader, Found
  <2> HIDE DEF reader
  <2>2. /\ Shaped(y) /\ Same(w, y) /\ Keeps(w, y) /\ Titled(y) /\ Filed(y.files)
    BY AssignIs DEF Fine
  <2> HIDE DEF y
  <2>3. /\ Shaped(x) /\ x.recording = FALSE
        /\ \A f \in Fields \ {"recording", "tape"} : x[f] = y[f]
    BY <2>2 DEF Shaped, Fields
  <2> HIDE DEF x
  <2>4. /\ Same(w, x) /\ x.files = y.files /\ x.disk = y.disk /\ x.titles = y.titles
        /\ x.title = y.title
    BY <2>2, <2>3 DEF Same, Fields
  <2>5. ~Recording(x)
    BY <2>3 DEF Recording
  <2>6. Sound(x)
    BY <2>2, <2>3, <2>4, <2>5 DEF Fine, Sound, Same, Clock, Frames, Titled, Pending
  <2>7. Reports(x)
    BY <2>4, SameReports DEF Fine
  <2>8. Keeps(w, x)
    BY <2>2, <2>4 DEF Keeps
  <2> HIDE DEF w
  <2>9. Found(WithReader(ready, file)) /\ WithReader(ready, file).w = x
    BY <2>1 DEF Found
  <2> QED BY <2>6, <2>7, <2>8, <2>9 DEF Leads, Fine, w
<1> QED BY <1>1, <1>2

LEMMA LoadMovieIs ==
  ASSUME NEW w, NEW path \in Paths, Fine(w)
  PROVE  Found(LoadMovie(w, path)) /\ Leads(w, LoadMovie(w, path).w)
<1> DEFINE file == w.disk[path]
           game == w.titles[path]
           asked == [w EXCEPT !.initial = file.core]
           started == [w |-> Start(asked), found |-> TRUE]
           roms == IF game = NoGame THEN <<>> ELSE RomsOf[game]
           ready == IF w.running /\ game = NoGame THEN started ELSE FindGame(asked, roms)
<1>1. LoadMovie(w, path) = IF ~Loadable(file) THEN [w |-> w, found |-> FALSE]
                           ELSE WithReader(ready, file)
  BY DEF LoadMovie
<1>2. roms \in Seq(Roms)
  BY ControllerAssumption DEF Fine, Sound, Titled
<1> HIDE DEF file, game, roms
<1>3. Leads(w, asked)
  <2>1. /\ Shaped(asked) /\ asked.game = w.game
        /\ \A f \in Fields \ {"initial"} : asked[f] = w[f]
    BY DEF Fine, Sound, Shaped, Fields
  <2> HIDE DEF asked
  <2>2. asked.game \in Games \cup {NoGame}
    BY <2>1 DEF Fine, Sound, Titled
  <2> QED BY <2>1, <2>2, AsideIs
<1> HIDE DEF asked
<1>4. Found(ready) /\ Leads(asked, ready.w)
  <2>1. CASE ready = started
    <3>1. Leads(asked, Start(asked))
      BY <1>3, StartIs DEF Leads, Fine
    <3> QED BY <2>1, <3>1 DEF Found
  <2>2. CASE ready = FindGame(asked, roms)
    <3>1. Found(FindGame(asked, roms)) /\ Leads(asked, FindGame(asked, roms).w)
      BY <1>2, <1>3, FindGameIs DEF Leads
    <3> HIDE DEF ready
    <3> QED BY <2>2, <3>1
  <2> QED BY <2>1, <2>2
<1> HIDE DEF ready
<1>5. Leads(w, ready.w)
  BY <1>3, <1>4, LeadsOn DEF Leads
<1>6. Found(WithReader(ready, file)) /\ Leads(ready.w, WithReader(ready, file).w)
  BY <1>4, WithReaderIs DEF Leads
<1>7. Leads(w, WithReader(ready, file).w)
  BY <1>5, <1>6, LeadsOn DEF Leads
<1> QED BY <1>1, <1>6, <1>7, KeepsSelf DEF Found, Leads

LEMMA LoadStateIs ==
  ASSUME NEW w, NEW state, NEW name, Fine(w)
  PROVE  Leads(w, LoadState(w, state, name))
<1> DEFINE asked == [w EXCEPT !.initial = state]
           stopped == StopMovie(asked)
           begun == IF w.running THEN Start(stopped) ELSE stopped
           fresh == [begun EXCEPT !.name = name]
<1>1. LoadState(w, state, name) = IF w.recordMode THEN StartEpisode(fresh) ELSE fresh
  BY DEF LoadState
<1>2. Leads(w, asked)
  <2>1. /\ Shaped(asked) /\ asked.game = w.game
        /\ \A f \in Fields \ {"initial"} : asked[f] = w[f]
    BY DEF Fine, Sound, Shaped, Fields
  <2> HIDE DEF asked
  <2>2. asked.game \in Games \cup {NoGame}
    BY <2>1 DEF Fine, Sound, Titled
  <2> QED BY <2>1, <2>2, AsideIs
<1> HIDE DEF asked
<1>3. Leads(asked, stopped)
  <2>1. Sound(stopped) /\ Same(asked, stopped) /\ Keeps(asked, stopped)
    BY <1>2, StopMovieIs DEF Leads, Fine
  <2> QED BY <1>2, <2>1, SameReports DEF Leads, Fine
<1> HIDE DEF stopped
<1>4. Leads(stopped, begun)
  BY <1>3, StartIs, KeepsSelf DEF Leads, Fine
<1> HIDE DEF begun
<1>5. Leads(begun, fresh)
  <2>1. /\ Shaped(fresh) /\ fresh.game = begun.game
        /\ \A f \in Fields \ {"name"} : fresh[f] = begun[f]
    BY <1>4 DEF Leads, Fine, Sound, Shaped, Fields
  <2> HIDE DEF fresh
  <2>2. fresh.game \in Games \cup {NoGame}
    BY <1>4, <2>1 DEF Leads, Fine, Sound, Titled
  <2> QED BY <1>4, <2>1, <2>2, AsideIs DEF Leads
<1> HIDE DEF fresh
<1>6. Leads(w, fresh)
  BY <1>2, <1>3, <1>4, <1>5, KeepsOn, LeadsOn DEF Leads
<1>7. Leads(fresh, StartEpisode(fresh))
  BY <1>6, StartEpisodeIs DEF Leads
<1> QED BY <1>1, <1>6, <1>7, LeadsOn DEF Leads
-----------------------------------------------------------------------------
(***************************************************************************)
(* The window.                                                             *)
(***************************************************************************)
LEMMA PauseIs ==
  ASSUME NEW w, NEW x, Fine(w), Shaped(x), Clock(x),
         \A f \in Fields \ {"timer", "paused", "away"} : x[f] = w[f]
  PROVE  Leads(w, x)
<1>1. /\ x.running = w.running /\ x.console = w.console /\ x.titles = w.titles
      /\ x.title = w.title /\ x.game = w.game /\ x.files = w.files
      /\ x.movie = w.movie /\ x.recording = w.recording /\ x.disk = w.disk
      /\ x.clone = w.clone /\ x.last = w.last
  BY DEF Fields
<1>2. Sound(x)
  BY <1>1 DEF Fine, Sound, Frames, Titled, Pending, Recording
<1>3. Reports(x)
  BY <1>1 DEF Fine, Reports
<1> QED BY <1>1, <1>2, <1>3, KeepsSelf DEF Leads, Fine

LEMMA OpenIs ==
  ASSUME Fine(app), Open
  PROVE  Leads(app, app')
<1>1. ASSUME NEW rom \in Roms, OpenRom(rom)
      PROVE  Leads(app, app')
  BY <1>1, OpenGameIs DEF OpenRom
<1>2. ASSUME NEW rom \in Roms, OpenAnyRom(rom)
      PROVE  Leads(app, app')
  <2>1. CASE rom \in Good
    BY <1>2, <2>1, OpenGameIs DEF OpenAnyRom
  <2>2. CASE rom \notin Good
    <3>1. Leads(app, LoadGame(app, rom))
      BY <2>2, LoadGameIs
    <3>2. app' = LoadState(LoadGame(app, rom), NoState, Junk)
      BY <1>2, <2>2 DEF OpenAnyRom
    <3> QED BY <3>1, <3>2, LoadStateIs, LeadsOn DEF Leads
  <2> QED BY <2>1, <2>2
<1>3. ASSUME NEW path \in Paths
      PROVE  /\ Leads(app, AfterMovie(LoadMovie(app, path)))
             /\ Leads(app, AfterAnyMovie(LoadMovie(app, path)))
  <2> DEFINE loaded == LoadMovie(app, path)
  <2>1. Leads(app, loaded.w)
    BY LoadMovieIs
  <2> HIDE DEF loaded
  <2>2. Leads(loaded.w, UpdateScenario(loaded.w))
    BY <2>1, UpdateScenarioIs DEF Leads
  <2>3. Leads(loaded.w, LoadState(loaded.w, NoState, Junk))
    BY <2>1, LoadStateIs DEF Leads
  <2>4. Leads(app, AfterMovie(loaded))
    BY <2>1, <2>2, LeadsOn DEF AfterMovie, Leads
  <2>5. Leads(app, AfterAnyMovie(loaded))
    BY <2>1, <2>3, <2>4, LeadsOn DEF AfterAnyMovie, Leads
  <2> QED BY <2>4, <2>5 DEF loaded
<1>4. ASSUME NEW path \in Paths, PlayMovie(path) \/ OpenAnyMovie(path)
      PROVE  Leads(app, app')
  BY <1>3, <1>4 DEF PlayMovie, OpenAnyMovie
<1>5. ASSUME NEW state \in States, LoadStateFile(state)
      PROVE  Leads(app, app')
  BY <1>5, LoadStateIs DEF LoadStateFile
<1> QED BY <1>1, <1>2, <1>4, <1>5 DEF Open

LEMMA NextIs ==
  ASSUME Fine(app), Next
  PROVE  Leads(app, app')
<1>1. CASE Open
  BY <1>1, OpenIs
<1>2. CASE RecordPicked
  <2>1. Picked \notin Episodes
    BY FilesAssumption
  <2>2. Leads(app, RecordMovie(app, Picked))
    BY <2>1, RecordMovieIs
  <2>3. app' = UpdateScenario(RecordMovie(app, Picked))
    BY <1>2 DEF RecordPicked
  <2> QED BY <2>2, <2>3, UpdateScenarioIs, LeadsOn DEF Leads
<1>3. CASE ToggleRecording
  <2> DEFINE toggled == [app EXCEPT !.recordMode = ~@]
  <2>1. app' = toggled \/ app' = StartEpisode(toggled)
    BY <1>3 DEF ToggleRecording
  <2>2. /\ Shaped(toggled) /\ toggled.game = app.game
        /\ \A f \in Fields \ {"recordMode"} : toggled[f] = app[f]
    BY DEF Fine, Sound, Shaped, Fields
  <2> HIDE DEF toggled
  <2>3. Leads(app, toggled)
    <3>1. toggled.game \in Games \cup {NoGame}
      BY <2>2 DEF Fine, Sound, Titled
    <3> QED BY <2>2, <3>1, AsideIs
  <2>4. Leads(toggled, StartEpisode(toggled))
    BY <2>3, StartEpisodeIs DEF Leads
  <2> QED BY <2>1, <2>3, <2>4, LeadsOn DEF Leads
<1>4. CASE StopTheMovie
  <2>1. Sound(StopMovie(app)) /\ Same(app, StopMovie(app)) /\ Keeps(app, StopMovie(app))
    BY StopMovieIs DEF Fine
  <2> QED BY <1>4, <2>1, SameReports DEF StopTheMovie, Leads, Fine
<1>5. CASE ResetGame
  <2>1. Leads(app, Start(app))
    BY StartIs DEF Fine
  <2>2. Leads(Start(app), StartEpisode(Start(app)))
    BY <2>1, StartEpisodeIs DEF Leads
  <2> QED BY <1>5, <2>1, <2>2, LeadsOn DEF ResetGame, Leads
<1>6. CASE HardReset
  <2> DEFINE asked == [app EXCEPT !.initial = NoState]
  <2>1. /\ Shaped(asked) /\ asked.game = app.game
        /\ \A f \in Fields \ {"initial"} : asked[f] = app[f]
    BY DEF Fine, Sound, Shaped, Fields
  <2>2. app' = Start(asked)
    BY <1>6 DEF HardReset
  <2> HIDE DEF asked
  <2>3. Leads(app, asked)
    <3>1. asked.game \in Games \cup {NoGame}
      BY <2>1 DEF Fine, Sound, Titled
    <3> QED BY <2>1, <3>1, AsideIs
  <2> QED BY <2>2, <2>3, StartIs, LeadsOn DEF Leads, Fine
<1>7. CASE ResetTheScenario
  BY <1>7, UpdateScenarioIs DEF ResetTheScenario
<1>8. CASE TogglePause \/ ClickScreen \/ ClickElsewhere
  <2>1. PICK away \in BOOLEAN : app' = SetPaused(app, away) \/ app' = SetFocus(app, away)
    BY <1>8, PausesIs
  <2>2. /\ Shaped(app') /\ Clock(app')
        /\ \A f \in Fields \ {"timer", "paused", "away"} : app'[f] = app[f]
    <3>1. CASE app' = SetPaused(app, away)
      BY <3>1, SetPausedIs DEF Fine, Sound
    <3>2. CASE app' = SetFocus(app, away)
      BY <3>2, SetFocusIs DEF Fine, Sound
    <3> QED BY <2>1, <3>1, <3>2
  <2> QED BY <2>2, PauseIs
<1>9. CASE ToggleFastForward
  <2> DEFINE x == [app EXCEPT !.ff = ~@]
  <2>1. /\ Shaped(x) /\ x.game = app.game
        /\ \A f \in Fields \ {"ff"} : x[f] = app[f]
    BY DEF Fine, Sound, Shaped, Fields
  <2> HIDE DEF x
  <2>2. x.game \in Games \cup {NoGame}
    BY <2>1 DEF Fine, Sound, Titled
  <2>3. Leads(app, x)
    BY <2>1, <2>2, AsideIs
  <2> QED BY <1>9, <2>3 DEF ToggleFastForward, x
<1>10. CASE PressKey
  <2>1. PICK mask : app' = Hold(app, mask)
    BY <1>10 DEF PressKey
  <2> DEFINE x == Hold(app, mask)
  <2>2. Shaped(x) /\ \A f \in Fields \ {"host"} : x[f] = app[f]
    BY HoldIs DEF Fine, Sound
  <2> HIDE DEF x
  <2>3. x.game \in Games \cup {NoGame}
    BY <2>2 DEF Fine, Sound, Titled, Fields
  <2>4. Leads(app, x)
    BY <2>2, <2>3, AsideIs
  <2> QED BY <2>1, <2>4 DEF x
<1>11. CASE Step
  <2> DEFINE x == [app EXCEPT !.paused = TRUE, !.timer = FALSE]
  <2>1. app' = RunOnce(x)
    BY <1>11 DEF Step
  <2>2. /\ Shaped(x) /\ x.paused = TRUE /\ x.timer = FALSE /\ x.running = app.running
        /\ \A f \in Fields \ {"timer", "paused"} : x[f] = app[f]
    BY DEF Fine, Sound, Shaped, Fields
  <2> HIDE DEF x
  <2>3. Clock(x)
    BY <2>2 DEF Fine, Sound, Clock
  <2>4. Leads(app, x)
    BY <2>2, <2>3, PauseIs
  <2>5. Leads(x, RunOnce(x))
    BY <2>4, RunOnceIs DEF Leads
  <2> QED BY <2>1, <2>4, <2>5, LeadsOn DEF Leads
<1>12. CASE Tick
  BY <1>12, RunOnceIs DEF Tick
<1> QED BY <1>1, <1>2, <1>3, <1>4, <1>5, <1>6, <1>7, <1>8, <1>9, <1>10, <1>11, <1>12
        DEF Next

WindowInv == Fine(app)

LEMMA WindowStarts ==
  ASSUME Init
  PROVE  WindowInv
<1>1. Shaped(app)
  BY DEF Init, Shaped, Fields
<1>2. Clock(app) /\ Reports(app)
  BY DEF Init, Clock, Reports
<1>3. Frames(app)
  <2>1. app.console = [rom |-> NoRom, from |-> NoState, frames |-> <<>>]
    BY DEF Init, Nothing
  <2>2. <<>> \in Seq(Keys)
    OBVIOUS
  <2> QED BY <2>1, <2>2 DEF Frames
<1>4. Titled(app)
  <2>1. /\ app.title = NoGame /\ app.game = NoGame
        /\ app.titles = [p \in Paths |->
                           IF p \in DOMAIN Seeds THEN Seeds[p].title ELSE NoGame]
    BY DEF Init
  <2>2. \A p \in DOMAIN Seeds : Seeds[p].title \in Games \cup {NoGame}
    BY FilesAssumption
  <2> DEFINE named == [p \in Paths |->
                         IF p \in DOMAIN Seeds THEN Seeds[p].title ELSE NoGame]
  <2>3. named \in [Paths -> Games \cup {NoGame}]
    BY <2>2
  <2> QED BY <2>1, <2>3 DEF Titled
<1>5. Filed(app.files)
  <2>1. app.files = DOMAIN Seeds
    BY DEF Init
  <2>2. Episodes \cap DOMAIN Seeds = {}
    BY FilesAssumption
  <2> QED BY <2>1, <2>2 DEF Filed
<1>6. Pending(app)
  BY DEF Init, Pending, Recording
<1> QED BY <1>1, <1>2, <1>3, <1>4, <1>5, <1>6 DEF WindowInv, Fine, Sound

LEMMA WindowStays ==
  ASSUME WindowInv, [Next]_app
  PROVE  WindowInv'
<1>1. CASE Next
  BY <1>1, NextIs DEF WindowInv, Leads
<1>2. CASE UNCHANGED app
  BY <1>2 DEF WindowInv
<1> QED BY <1>1, <1>2

LEMMA WindowAlways == Spec => []WindowInv
  BY WindowStarts, WindowStays, PTL DEF Spec

\* While a game runs the timer is on exactly when the window is not paused,
\* through every pause, single step, fast forward and end of a movie.
THEOREM TimerFollowsPause == Spec => []TimerMatches
<1>1. WindowInv => TimerMatches
  BY DEF WindowInv, Fine, Sound, Clock, TimerMatches
<1> QED BY <1>1, WindowAlways, PTL

\* While a game runs, what the reports compare are the consoles after the last
\* frame and after the frame before it, or twice the start of the episode.
THEOREM ReportsAreFresh == Spec => []ReportsFresh
<1>1. WindowInv => ReportsFresh
  BY DEF WindowInv, Fine, Reports, ReportsFresh
<1> QED BY <1>1, WindowAlways, PTL

\* The movie of an episode, once closed, is never written over.
THEOREM EpisodesAreKept == Spec => EpisodesKept
<1> DEFINE Kept == \A path \in Episodes \cap app.files :
                     app'.disk[path] = app.disk[path]
<1>1. WindowInv /\ [Next]_app => [Kept]_app
  <2> SUFFICES ASSUME WindowInv, Next PROVE Kept
    OBVIOUS
  <2>1. Leads(app, app')
    BY NextIs DEF WindowInv
  <2> QED BY <2>1 DEF Leads, Keeps
<1>2. Spec => [][Kept]_app
  <2> HIDE DEF Kept
  <2> QED BY <1>1, WindowAlways, PTL DEF Spec
<1> QED BY <1>2 DEF EpisodesKept
-----------------------------------------------------------------------------
(***************************************************************************)
(* The core under the window.                                              *)
(***************************************************************************)
HostFields == {"loaded", "gen", "phase", "misuse", "em", "spaces"}
EmFields ==
  {"handle", "core", "romLoaded", "romPath", "space", "map", "img", "mask"}

\* The one emulator owns the library that is open, of the one core there is, and
\* no call was made that libretro forbids.
Legal(h) ==
  /\ DOMAIN h = HostFields /\ DOMAIN h.em = {Re} /\ DOMAIN h.em[Re] = EmFields
  /\ h.misuse = {} /\ h.gen \in Nat
  /\ h.em[Re].handle = 0 =>
       h.loaded = NoEmulator /\ h.phase = "closed" /\ h.em[Re].romLoaded = FALSE
  /\ h.em[Re].handle # 0 =>
       /\ h.em[Re].core = Con
       /\ h.phase = IF h.em[Re].romLoaded THEN "game" ELSE "ready"

Holds(h) == Legal(h) /\ h.em[Re].romLoaded

\* What a call that the phase allows leaves of the library.
LEMMA CallIs ==
  ASSUME NEW h, NEW fn, NEW phase, DOMAIN h = HostFields, h.misuse = {},
         h.phase \in Core!Allowed[fn]
  PROVE  /\ Core!Call(h, fn) = h
         /\ Core!CallTo(h, fn, phase) = [h EXCEPT !.phase = phase]
  BY DEF Core!Call, Core!CallTo

LEMMA PhasesAllowed ==
  /\ "game" \in Core!Allowed["retro_run"] /\ "game" \in Core!Allowed["retro_reset"]
  /\ "game" \in Core!Allowed["retro_unserialize"]
  /\ "game" \in Core!Allowed["retro_unload_game"]
  /\ "ready" \in Core!Allowed["retro_deinit"]
  /\ "ready" \in Core!Allowed["retro_load_game"]
  /\ "mapped" \in Core!Allowed["retro_init"] /\ "mapped" \in Core!Allowed["dlclose"]
  BY DEF Core!Allowed

\* A host that differs in what Legal does not look at.
LEMMA LegalIs ==
  ASSUME NEW h, NEW k, Legal(h),
         DOMAIN k = HostFields, DOMAIN k.em = {Re}, DOMAIN k.em[Re] = EmFields,
         k.misuse = h.misuse, k.gen = h.gen, k.loaded = h.loaded, k.phase = h.phase,
         k.em[Re].handle = h.em[Re].handle, k.em[Re].core = h.em[Re].core,
         k.em[Re].romLoaded = h.em[Re].romLoaded
  PROVE  Legal(k)
  BY DEF Legal

LEMMA MaskIs ==
  ASSUME NEW h, NEW mask, Legal(h)
  PROVE  /\ Legal([h EXCEPT !.em[Re].mask = mask])
         /\ [h EXCEPT !.em[Re].mask = mask].em[Re].romLoaded = h.em[Re].romLoaded
         /\ [h EXCEPT !.em[Re].mask = mask].em[Re].core = h.em[Re].core
         /\ [h EXCEPT !.em[Re].mask = mask].phase = h.phase
         /\ [h EXCEPT !.em[Re].mask = mask].gen = h.gen
<1> DEFINE k == [h EXCEPT !.em[Re].mask = mask]
<1>1. /\ DOMAIN k = HostFields /\ DOMAIN k.em = {Re} /\ DOMAIN k.em[Re] = EmFields
      /\ k.misuse = h.misuse /\ k.gen = h.gen /\ k.loaded = h.loaded /\ k.phase = h.phase
      /\ k.em[Re].handle = h.em[Re].handle /\ k.em[Re].core = h.em[Re].core
      /\ k.em[Re].romLoaded = h.em[Re].romLoaded
  BY DEF Legal, HostFields, EmFields
<1> HIDE DEF k
<1>2. Legal(k)
  BY <1>1, LegalIs
<1> QED BY <1>1, <1>2 DEF k

LEMMA ResetIs ==
  ASSUME NEW h, Holds(h)
  PROVE  /\ Holds(Core!Reset(h, Re, "loaded")) /\ Core!Reset(h, Re, "loaded").gen = h.gen
         /\ Core!Reset(h, Re, "loaded") = [h EXCEPT !.em[Re].mask = {}]
<1> DEFINE clear == [h EXCEPT !.em[Re].mask = {}]
<1>1. /\ Legal(clear) /\ clear.em[Re].romLoaded = h.em[Re].romLoaded
      /\ clear.em[Re].core = h.em[Re].core /\ clear.phase = h.phase
      /\ clear.gen = h.gen
  BY MaskIs DEF Holds
<1>2. h.em[Re].core = Con /\ h.phase = "game"
  BY DEF Holds, Legal
<1>3. h.em[Re].core # Stella
  BY <1>2, ControllerAssumption
<1>4. Core!MapAtReset(clear, Re) = clear
  BY DEF Core!MapAtReset
<1>5. Core!Reset(h, Re, "loaded") = Core!Call(clear, "retro_reset")
  BY <1>3, <1>4 DEF Core!Reset
<1> HIDE DEF clear
<1>6. Core!Call(clear, "retro_reset") = clear
  BY <1>1, <1>2, PhasesAllowed, CallIs DEF Legal
<1> QED BY <1>1, <1>5, <1>6 DEF Holds, clear

LEMMA UnserializeIs ==
  ASSUME NEW h, Holds(h)
  PROVE  Core!Unserialize(h, Re, "loaded") = h
<1>1. h.em[Re].core = Con /\ h.phase = "game"
  BY DEF Holds, Legal
<1>2. h.em[Re].core # Stella
  BY <1>1, ControllerAssumption
<1>3. Core!Call(h, "retro_unserialize") = h
  BY <1>1, PhasesAllowed, CallIs DEF Holds, Legal
<1> QED BY <1>2, <1>3 DEF Core!Unserialize

LEMMA RunIs ==
  ASSUME NEW h, Holds(h)
  PROVE  /\ Holds(Core!Run(h, Re, h.gen)) /\ Core!Run(h, Re, h.gen).gen = h.gen
         /\ Core!Run(h, Re, h.gen).em[Re].romPath = h.em[Re].romPath
         /\ Core!Run(h, Re, h.gen).em[Re].mask = h.em[Re].mask
<1>1. h.phase = "game"
  BY DEF Holds, Legal
<1>2. Core!Call(h, "retro_run") = h
  BY <1>1, PhasesAllowed, CallIs DEF Holds, Legal
<1> DEFINE img == IF h.gen # 0 THEN h.gen ELSE h.em[Re].img
           k == [h EXCEPT !.em[Re].img = img]
<1>3. Core!Run(h, Re, h.gen) = k
  BY <1>2 DEF Core!Run, Core!VideoRefresh
<1> HIDE DEF img
<1>4. /\ DOMAIN k = HostFields /\ DOMAIN k.em = {Re} /\ DOMAIN k.em[Re] = EmFields
      /\ k.misuse = h.misuse /\ k.gen = h.gen /\ k.loaded = h.loaded /\ k.phase = h.phase
      /\ k.em[Re].handle = h.em[Re].handle /\ k.em[Re].core = h.em[Re].core
      /\ k.em[Re].romLoaded = h.em[Re].romLoaded
      /\ k.em[Re].romPath = h.em[Re].romPath /\ k.em[Re].mask = h.em[Re].mask
  BY DEF Holds, Legal, HostFields, EmFields
<1> HIDE DEF k
<1>5. Legal(k)
  BY <1>4, LegalIs DEF Holds
<1> QED BY <1>3, <1>4, <1>5 DEF Holds

LEMMA ConfigureDataIs ==
  ASSUME NEW h, Holds(h)
  PROVE  /\ Holds(Core!ConfigureData(h, Re, Ram))
         /\ Core!ConfigureData(h, Re, Ram).gen = h.gen
         /\ Core!ConfigureData(h, Re, Ram).em[Re].romPath = h.em[Re].romPath
<1> DEFINE asked == [h EXCEPT !.em[Re].space = Ram, !.spaces[Ram] = {}]
           t == Core!ReconfigureAddressSpace(asked, Re)
           k == Core!ConfigureData(h, Re, Ram)
<1>1. /\ DOMAIN asked = HostFields /\ DOMAIN asked.em = {Re}
      /\ DOMAIN asked.em[Re] = EmFields
      /\ asked.misuse = h.misuse /\ asked.gen = h.gen /\ asked.loaded = h.loaded
      /\ asked.phase = h.phase
      /\ asked.em[Re].handle = h.em[Re].handle /\ asked.em[Re].core = h.em[Re].core
      /\ asked.em[Re].romLoaded = h.em[Re].romLoaded
      /\ asked.em[Re].romPath = h.em[Re].romPath
  BY DEF Holds, Legal, HostFields, EmFields
<1> HIDE DEF asked
<1>2. DOMAIN t = HostFields /\ \A f \in HostFields \ {"spaces"} : t[f] = asked[f]
  <2>1. CASE t = asked
    BY <1>1, <2>1
  <2>2. CASE t # asked
    <3>1. t = [asked EXCEPT !.spaces[asked.em[Re].space] =
                 {[gen |-> asked.em[Re].map, view |-> "map"]}]
      BY <2>2 DEF Core!ReconfigureAddressSpace
    <3> HIDE DEF t
    <3> QED BY <1>1, <3>1 DEF HostFields
  <2> QED BY <2>1, <2>2
<1>3. k = IF t.spaces[Ram] = {} /\ h.phase = "game"
          THEN [t EXCEPT !.spaces[Ram] = {[gen |-> h.gen, view |-> "ram"]}] ELSE t
  BY DEF Core!ConfigureData, asked
<1> HIDE DEF t, k
<1>4. DOMAIN k = HostFields /\ \A f \in HostFields \ {"spaces"} : k[f] = t[f]
  BY <1>2, <1>3 DEF HostFields
<1>5. /\ k.em = asked.em /\ k.misuse = asked.misuse /\ k.gen = asked.gen
      /\ k.loaded = asked.loaded /\ k.phase = asked.phase
  BY <1>2, <1>4 DEF HostFields
<1>6. Legal(k)
  BY <1>1, <1>4, <1>5, LegalIs DEF Holds
<1> QED BY <1>1, <1>5, <1>6 DEF Holds, k

\* The library is closed in the order of libretro.
LEMMA UnloadCoreIs ==
  ASSUME NEW h, Legal(h)
  PROVE  /\ Legal(Core!UnloadCore(h, Re))
         /\ Core!UnloadCore(h, Re).em[Re].handle = 0
         /\ Core!UnloadCore(h, Re).gen = h.gen
<1>1. CASE h.em[Re].handle = 0
  BY <1>1 DEF Core!UnloadCore
<1>2. CASE h.em[Re].handle # 0
  <2> DEFINE idle == Core!UnloadRom(h, Re)
             ready == [h EXCEPT !.phase = "ready"]
             deinit == [idle EXCEPT !.phase = "mapped"]
             shut == [deinit EXCEPT !.phase = "closed"]
             x == [shut EXCEPT !.em[Re].handle = 0, !.loaded = NoEmulator]
  <2>1. /\ DOMAIN idle = HostFields /\ DOMAIN idle.em = {Re}
        /\ DOMAIN idle.em[Re] = EmFields /\ idle.misuse = {} /\ idle.gen = h.gen
        /\ idle.phase = "ready" /\ idle.em[Re].romLoaded = FALSE
        /\ idle.em[Re].handle = h.em[Re].handle
    <3>1. CASE ~h.em[Re].romLoaded
      <4>1. idle = h
        BY <3>1 DEF Core!UnloadRom
      <4>2. h.phase = "ready"
        BY <1>2, <3>1 DEF Legal
      <4>3. h.em[Re].romLoaded = FALSE
        BY <3>1 DEF Legal
      <4> QED BY <1>2, <3>1, <4>1, <4>2 DEF Legal
    <3>2. CASE h.em[Re].romLoaded
      <4>1. h.phase = "game"
        BY <1>2, <3>2 DEF Legal
      <4>2. Core!CallTo(h, "retro_unload_game", "ready") = ready
        BY <4>1, PhasesAllowed, CallIs DEF Legal
      <4>3. idle = [ready EXCEPT !.em[Re] = [@ EXCEPT !.romLoaded = FALSE,
                      !.romPath = NoRom, !.space = NoData, !.map = 0]]
        BY <3>2, <4>2 DEF Core!UnloadRom
      <4> HIDE DEF idle
      <4> QED BY <4>3 DEF Legal, HostFields, EmFields
    <3> QED BY <3>1, <3>2
  <2>2. /\ Core!CallTo(idle, "retro_deinit", "mapped") = deinit
        /\ Core!CallTo(deinit, "dlclose", "closed") = shut
    <3>1. Core!CallTo(idle, "retro_deinit", "mapped") = deinit
      <4> HIDE DEF idle
      <4> QED BY <2>1, PhasesAllowed, CallIs
    <3>2. DOMAIN deinit = HostFields /\ deinit.misuse = {} /\ deinit.phase = "mapped"
      <4> HIDE DEF idle
      <4> QED BY <2>1 DEF HostFields
    <3> HIDE DEF deinit
    <3>3. Core!CallTo(deinit, "dlclose", "closed") = [deinit EXCEPT !.phase = "closed"]
      BY <3>2, PhasesAllowed, CallIs
    <3> QED BY <3>1, <3>3 DEF deinit
  <2>3. Core!UnloadCore(h, Re) = x
    BY <1>2, <2>2 DEF Core!UnloadCore
  <2> HIDE DEF idle
  <2>4. /\ DOMAIN x = HostFields /\ DOMAIN x.em = {Re} /\ DOMAIN x.em[Re] = EmFields
        /\ x.misuse = {} /\ x.gen = h.gen /\ x.phase = "closed"
        /\ x.loaded = NoEmulator /\ x.em[Re].handle = 0
        /\ x.em[Re].romLoaded = FALSE
    BY <2>1 DEF HostFields, EmFields
  <2> HIDE DEF x
  <2>5. Legal(x)
    BY <2>4 DEF Legal
  <2> QED BY <2>3, <2>4, <2>5
<1> QED BY <1>1, <1>2

\* loadRom with no library open: a ROM that loads is loaded while the bound lets
\* another library be opened.
LEMMA LoadRomIs ==
  ASSUME NEW h, NEW rom \in Roms, NEW out, Legal(h), h.em[Re].handle = 0
  PROVE  /\ Legal(Core!LoadRom(h, Re, rom, out))
         /\ out = "loaded" /\ h.gen # MaxOpens =>
              /\ Holds(Core!LoadRom(h, Re, rom, out))
              /\ Core!LoadRom(h, Re, rom, out).em[Re].romPath = rom
<1> DEFINE opened == [h EXCEPT !.gen = @ + 1, !.phase = "mapped", !.loaded = Re,
                        !.em[Re] = [@ EXCEPT !.handle = h.gen + 1, !.core = Con]]
           ready == [opened EXCEPT !.phase = "ready"]
           game == [ready EXCEPT !.phase = "game"]
           full == [game EXCEPT !.em[Re] = [@ EXCEPT !.romLoaded = TRUE, !.romPath = rom]]
           x == Core!LoadRom(h, Re, rom, out)
<1>1. CoreOf[rom] = Con /\ Con # NoCore
  BY ControllerAssumption DEF CoreOf
<1>2. h.loaded = NoEmulator /\ h.phase = "closed" /\ h.em[Re].romLoaded = FALSE
  BY DEF Legal
<1>3. Core!UnloadRom(h, Re) = h /\ Core!SwapCore(h, Re, Con) = h
  BY <1>2 DEF Core!UnloadRom, Core!SwapCore, Core!UnloadCore
<1>4. x = LET open == Core!LoadCore(h, Re, Con, out)
          IN IF open.em[Re].handle = 0 THEN open ELSE Core!LoadGame(open, Re, rom, out)
  BY <1>1, <1>3 DEF Core!LoadRom
<1>5. CASE out = "noLibrary" \/ h.gen = MaxOpens
  <2>1. Core!LoadCore(h, Re, Con, out) = h
    BY <1>5 DEF Core!LoadCore
  <2> QED BY <1>4, <1>5, <2>1
<1>6. CASE out # "noLibrary" /\ h.gen # MaxOpens
  <2>1. /\ DOMAIN opened = HostFields /\ DOMAIN opened.em = {Re}
        /\ DOMAIN opened.em[Re] = EmFields /\ opened.misuse = {}
        /\ opened.gen \in Nat /\ opened.phase = "mapped"
        /\ opened.em[Re].handle # 0 /\ opened.em[Re].core = Con
        /\ opened.em[Re].romLoaded = FALSE
    BY <1>2 DEF Legal, HostFields, EmFields
  <2>2. Core!LoadCore(h, Re, Con, out) = Core!CallTo(opened, "retro_init", "ready")
    BY <1>2, <1>6 DEF Core!LoadCore
  <2> HIDE DEF opened
  <2>3. Core!CallTo(opened, "retro_init", "ready") = ready
    BY <2>1, PhasesAllowed, CallIs
  <2>4. /\ DOMAIN ready = HostFields /\ DOMAIN ready.em = {Re}
        /\ DOMAIN ready.em[Re] = EmFields /\ ready.misuse = {}
        /\ ready.gen \in Nat /\ ready.phase = "ready"
        /\ ready.em[Re].handle # 0 /\ ready.em[Re].core = Con
        /\ ready.em[Re].romLoaded = FALSE
    BY <2>1 DEF HostFields
  <2>5. x = Core!LoadGame(ready, Re, rom, out)
    BY <1>4, <2>2, <2>3, <2>4
  <2> HIDE DEF ready, x
  <2>6. Legal(ready)
    BY <2>4 DEF Legal
  <2>7. CASE out # "loaded"
    <3>1. Core!Call(ready, "retro_load_game") = ready
      BY <2>4, PhasesAllowed, CallIs
    <3>2. x = ready
      BY <2>5, <2>7, <3>1 DEF Core!LoadGame
    <3> QED BY <2>6, <2>7, <3>2 DEF x
  <2>8. CASE out = "loaded"
    <3>1. Core!CallTo(ready, "retro_load_game", "game") = game
      BY <2>4, PhasesAllowed, CallIs
    <3>2. x = full
      BY <2>5, <2>8, <3>1 DEF Core!LoadGame
    <3>3. /\ DOMAIN full = HostFields /\ DOMAIN full.em = {Re}
          /\ DOMAIN full.em[Re] = EmFields /\ full.misuse = {}
          /\ full.gen \in Nat /\ full.phase = "game"
          /\ full.em[Re].handle # 0 /\ full.em[Re].core = Con
          /\ full.em[Re].romLoaded = TRUE /\ full.em[Re].romPath = rom
      BY <2>4 DEF HostFields, EmFields
    <3> HIDE DEF full
    <3>4. Holds(full)
      BY <3>3 DEF Legal, Holds
    <3> QED BY <3>2, <3>3, <3>4 DEF Holds, x
  <2> QED BY <2>7, <2>8
<1> QED BY <1>5, <1>6
-----------------------------------------------------------------------------
(***************************************************************************)
(* The window over its core: a game that runs is loaded.                   *)
(***************************************************************************)
Runs(w) ==
  Shaped(w) /\ Legal(w.host) /\ (w.running => w.host.em[Re].romLoaded)

Ready(w) == Shaped(w) /\ Holds(w.host)

Goes(w, x) == Runs(x) /\ (w.running => x.running)

\* The library and m_running are left as they are.
Stays(w, x) ==
  /\ Shaped(x) /\ x.running = w.running
  /\ Legal(x.host) /\ x.host.em[Re].romLoaded = w.host.em[Re].romLoaded

LEMMA StaysOn ==
  ASSUME NEW w, NEW x, NEW y, Stays(w, x), Stays(x, y)
  PROVE  Stays(w, y)
  BY DEF Stays

LEMMA GoesOn ==
  ASSUME NEW w, NEW x, NEW y, w.running => x.running, Goes(x, y)
  PROVE  Goes(w, y)
  BY DEF Goes

LEMMA StaysGoes ==
  ASSUME NEW w, NEW x, Runs(w), Stays(w, x)
  PROVE  Goes(w, x)
  BY DEF Stays, Runs, Goes

LEMMA EditStays ==
  ASSUME NEW w, NEW x, Legal(w.host), Shaped(x), x.running = w.running, x.host = w.host
  PROVE  Stays(w, x)
  BY DEF Stays

LEMMA HoldStays ==
  ASSUME NEW w, NEW mask, Shaped(w), Legal(w.host)
  PROVE  Stays(w, Hold(w, mask))
<1> DEFINE h == [w.host EXCEPT !.em[Re].mask = mask]
<1>1. Legal(h) /\ h.em[Re].romLoaded = w.host.em[Re].romLoaded
  BY MaskIs
<1>2. Hold(w, mask) = [w EXCEPT !.host = h]
  BY DEF Hold
<1> HIDE DEF h
<1>3. /\ Shaped(Hold(w, mask)) /\ Hold(w, mask).host = h
      /\ Hold(w, mask).running = w.running
  BY <1>2 DEF Shaped, Fields
<1> QED BY <1>1, <1>3 DEF Stays

LEMMA AssignStays ==
  ASSUME NEW w, NEW movie, Shaped(w), Legal(w.host)
  PROVE  Stays(w, Assign(w, movie))
<1> DEFINE next == [w EXCEPT !.movie = movie, !.tape = <<>>, !.shown = <<>>]
           path == w.movie.path
           x == Assign(w, movie)
<1>1. Shaped(next) /\ next.host = w.host /\ next.running = w.running
  BY DEF Shaped, Fields
<1>2. CASE ~Recording(w)
  <2>1. x = next
    BY <1>2 DEF Assign
  <2> HIDE DEF next, x
  <2> QED BY <1>1, <2>1, EditStays DEF x
<1>3. CASE Recording(w)
  <2>1. x = [next EXCEPT
               !.disk[path] = Close(w.movie), !.files = @ \cup {path},
               !.titles[path] = IF w.movie.log = <<>> THEN @ ELSE w.title,
               !.title = NoGame]
    BY <1>3 DEF Assign
  <2> HIDE DEF next, x
  <2>2. Shaped(x) /\ x.host = next.host /\ x.running = next.running
    BY <1>1, <2>1 DEF Shaped, Fields
  <2> QED BY <1>1, <2>2, EditStays DEF x
<1> QED BY <1>2, <1>3

LEMMA StopMovieStays ==
  ASSUME NEW w, Shaped(w), Legal(w.host)
  PROVE  Stays(w, StopMovie(w))
<1> DEFINE y == Assign(w, NoMovie)
           z == [y EXCEPT !.recording = FALSE]
           mask == {k \in Mask(w) : k[1] # First}
<1>1. Stays(w, y)
  BY AssignStays
<1>2. StopMovie(w) = Hold(z, mask)
  BY DEF StopMovie
<1> HIDE DEF y, mask
<1>3. Shaped(z) /\ z.host = y.host /\ z.running = y.running
  BY <1>1 DEF Stays, Shaped, Fields
<1> HIDE DEF z
<1>4. Stays(y, z)
  BY <1>1, <1>3, EditStays DEF Stays
<1>5. Stays(z, Hold(z, mask))
  BY <1>4, HoldStays DEF Stays
<1> QED BY <1>1, <1>2, <1>4, <1>5, StaysOn

LEMMA ScheduleStays ==
  ASSUME NEW w, Shaped(w)
  PROVE  /\ Shaped(Schedule(w)) /\ Schedule(w).host = w.host
         /\ Schedule(w).running = w.running
  BY DEF Schedule, Shaped, Fields

LEMMA SetPausedStays ==
  ASSUME NEW w, NEW pause, Shaped(w), Legal(w.host)
  PROVE  Stays(w, SetPaused(w, pause))
<1> DEFINE x == SetPaused(w, pause)
<1>1. Shaped(x) /\ x.host = w.host /\ x.running = w.running
  <2>1. CASE pause = w.paused
    BY <2>1 DEF SetPaused
  <2>2. CASE pause # w.paused /\ pause
    BY <2>2 DEF SetPaused, Shaped, Fields
  <2>3. CASE pause # w.paused /\ ~pause
    <3> DEFINE y == [w EXCEPT !.paused = FALSE]
    <3>1. x = Schedule(y)
      BY <2>3 DEF SetPaused
    <3>2. Shaped(y) /\ y.host = w.host /\ y.running = w.running
      BY DEF Shaped, Fields
    <3> HIDE DEF x, y
    <3> QED BY <3>1, <3>2, ScheduleStays
  <2> QED BY <2>1, <2>2, <2>3
<1> QED BY <1>1, EditStays

LEMMA SetFocusStays ==
  ASSUME NEW w, NEW away, Shaped(w), Legal(w.host)
  PROVE  Stays(w, SetFocus(w, away))
<1> DEFINE y == SetPaused(w, away)
           x == [y EXCEPT !.away = away]
<1>1. Stays(w, y)
  BY SetPausedStays
<1>2. x = SetFocus(w, away)
  BY DEF SetFocus
<1> HIDE DEF y
<1>3. Shaped(x) /\ x.host = y.host /\ x.running = y.running
  BY <1>1 DEF Stays, Shaped, Fields
<1> QED BY <1>1, <1>2, <1>3 DEF Stays

\* start() over a game that is loaded.
LEMMA StartReady ==
  ASSUME NEW w, Ready(w)
  PROVE  Ready(Start(w)) /\ Start(w).running = TRUE
<1> DEFINE host == Core!Reset(w.host, Re, "loaded")
           reset == [w EXCEPT !.host = host]
           idle == StopMovie(reset)
           loaded == Unserialize(idle)
           twice == UpdateRam(UpdateRam(loaded))
           on == [twice EXCEPT !.running = TRUE, !.paused = @ /\ ~w.away, !.away = FALSE]
<1>1. Holds(host)
  BY ResetIs DEF Ready
<1>2. Start(w) = Schedule(on)
  BY DEF Start
<1> HIDE DEF host
<1>3. Shaped(reset) /\ reset.host = host
  BY DEF Ready, Shaped, Fields
<1> HIDE DEF reset
<1>4. Stays(reset, idle)
  BY <1>1, <1>3, StopMovieStays DEF Holds
<1> HIDE DEF idle
<1>5. Shaped(idle) /\ Holds(idle.host)
  BY <1>1, <1>3, <1>4 DEF Stays, Holds
<1>6. Core!Unserialize(idle.host, Re, "loaded") = idle.host
  BY <1>5, UnserializeIs
<1>7. Shaped(loaded) /\ loaded.host = idle.host
  <2>1. PICK console :
          loaded = [idle EXCEPT !.host = Core!Unserialize(@, Re, "loaded"),
                                !.console = console]
    BY DEF Unserialize
  <2> HIDE DEF loaded
  <2> QED BY <1>5, <1>6, <2>1 DEF Shaped, Fields
<1> HIDE DEF loaded
<1>8. Shaped(twice) /\ twice.host = loaded.host
  BY <1>7 DEF UpdateRam, Shaped, Fields
<1> HIDE DEF twice
<1>9. Shaped(on) /\ on.host = twice.host /\ on.running = TRUE
  BY <1>8 DEF Shaped, Fields
<1> HIDE DEF on
<1>10. /\ Shaped(Schedule(on)) /\ Schedule(on).host = on.host
       /\ Schedule(on).running = on.running
  BY <1>9, ScheduleStays
<1> QED BY <1>2, <1>5, <1>7, <1>8, <1>9, <1>10 DEF Ready

LEMMA StartRuns ==
  ASSUME NEW w, Runs(w), w.running
  PROVE  Goes(w, Start(w))
<1>1. Ready(w)
  BY DEF Runs, Ready, Holds
<1> QED BY <1>1, StartReady DEF Goes, Runs, Ready, Holds

LEMMA RecordMovieRuns ==
  ASSUME NEW w, NEW path, Runs(w)
  PROVE  Goes(w, RecordMovie(w, path))
<1> DEFINE begun == IF w.running THEN Start(w) ELSE w
           movie == SetState(OpenWrite(path, w.disk[path]), begun.initial)
           y == Assign(begun, movie)
           x == [y EXCEPT !.title = begun.game, !.recording = TRUE, !.opened = @ + 1]
<1>1. Goes(w, begun)
  BY StartRuns DEF Goes
<1>2. RecordMovie(w, path) = x
  BY DEF RecordMovie, Recorded
<1> HIDE DEF begun, movie
<1>3. Stays(begun, y)
  BY <1>1, AssignStays DEF Goes, Runs
<1> HIDE DEF y
<1>4. Shaped(x) /\ x.host = y.host /\ x.running = y.running
  BY <1>3 DEF Stays, Shaped, Fields
<1> HIDE DEF x
<1>5. Stays(begun, x)
  BY <1>3, <1>4, EditStays, StaysOn DEF Stays
<1>6. Goes(begun, x)
  BY <1>1, <1>5, StaysGoes DEF Goes
<1> QED BY <1>1, <1>2, <1>6, GoesOn DEF Goes

LEMMA StartEpisodeRuns ==
  ASSUME NEW w, Runs(w)
  PROVE  Goes(w, StartEpisode(w))
<1>1. CASE ~CanStartEpisode(w)
  BY <1>1 DEF StartEpisode, Goes
<1>2. CASE CanStartEpisode(w)
  <2>1. PICK path : StartEpisode(w) = RecordMovie(StopMovie(w), path)
    BY <1>2 DEF StartEpisode
  <2>2. Goes(w, StopMovie(w))
    BY StopMovieStays, StaysGoes DEF Runs
  <2>3. Goes(StopMovie(w), RecordMovie(StopMovie(w), path))
    BY <2>2, RecordMovieRuns DEF Goes
  <2> QED BY <2>1, <2>2, <2>3, GoesOn DEF Goes
<1> QED BY <1>1, <1>2

LEMMA UpdateScenarioRuns ==
  ASSUME NEW w, Runs(w)
  PROVE  Goes(w, UpdateScenario(w))
  BY StartEpisodeRuns DEF UpdateScenario, Goes

LEMMA FeedStays ==
  ASSUME NEW w, Shaped(w), Legal(w.host)
  PROVE  Stays(w, Feed(w))
<1>1. CASE Recording(w)
  <2> DEFINE keys == [NoKeys EXCEPT ![First] = Held(w)[First]]
             movie == StepWrite(SetKeys(w.movie, keys))
             x == [w EXCEPT !.movie = movie]
  <2>1. Feed(w) = x
    <3>1. "movie" \in DOMAIN w
      BY DEF Shaped, Fields
    <3> QED BY <1>1, <3>1 DEF Feed
  <2> HIDE DEF movie
  <2>2. Shaped(x) /\ x.host = w.host /\ x.running = w.running
    BY DEF Shaped, Fields
  <2> HIDE DEF x
  <2> QED BY <2>1, <2>2, EditStays
<1>2. CASE ~Recording(w) /\ ~Playing(w)
  BY <1>2, EditStays DEF Feed
<1>3. CASE ~Recording(w) /\ Playing(w) /\ AtEnd(w.movie)
  <2> DEFINE y == SetPaused(w, TRUE)
  <2>1. Feed(w) = StopMovie(y)
    BY <1>3 DEF Feed
  <2>2. Stays(w, y)
    BY SetPausedStays
  <2> HIDE DEF y
  <2>3. Stays(y, StopMovie(y))
    BY <2>2, StopMovieStays DEF Stays
  <2> QED BY <2>1, <2>2, <2>3, StaysOn
<1>4. CASE ~Recording(w) /\ Playing(w) /\ ~AtEnd(w.movie)
  <2> DEFINE movie == StepRead(w.movie)
             y == [w EXCEPT !.movie = movie]
  <2>1. Feed(w) = Hold(y, PadsOf(movie.keys))
    BY <1>4 DEF Feed
  <2> HIDE DEF movie
  <2>2. Shaped(y) /\ y.host = w.host /\ y.running = w.running
    BY DEF Shaped, Fields
  <2> HIDE DEF y
  <2>3. Stays(w, y)
    BY <2>2, EditStays
  <2>4. Stays(y, Hold(y, PadsOf(movie.keys)))
    BY <2>3, HoldStays DEF Stays
  <2> QED BY <2>1, <2>3, <2>4, StaysOn
<1> QED BY <1>1, <1>2, <1>3, <1>4

LEMMA SeenStays ==
  ASSUME NEW w, Shaped(w), Legal(w.host)
  PROVE  Stays(w, Seen(w))
<1>1. /\ Shaped(Seen(w)) /\ Seen(w).host = w.host /\ Seen(w).running = w.running
  BY DEF Seen, Shaped, Fields
<1> QED BY <1>1, EditStays

\* A frame is asked of a game that runs.
LEMMA FrameRuns ==
  ASSUME NEW w, Runs(w), w.running
  PROVE  Goes(w, Frame(w))
<1> DEFINE fed == Feed(w)
           pads == Held(fed)
           host == Core!Run(fed.host, Re, fed.host.gen)
           ran == [fed EXCEPT !.host = host, !.console.frames = Append(@, pads)]
           x == UpdateRam(ran)
<1>1. Stays(w, fed)
  BY FeedStays DEF Runs
<1>2. Frame(w) = Seen(x)
  <2>1. "host" \in DOMAIN fed
    BY <1>1 DEF Stays, Shaped, Fields
  <2> QED BY <2>1 DEF Frame, Ran
<1> HIDE DEF fed, pads
<1>3. Holds(host)
  BY <1>1, RunIs DEF Runs, Stays, Holds
<1> HIDE DEF host
<1>4. Shaped(ran) /\ ran.host = host /\ ran.running = fed.running
  BY <1>1 DEF Stays, Shaped, Fields
<1> HIDE DEF ran
<1>5. Shaped(x) /\ x.host = host /\ x.running = fed.running
  BY <1>4 DEF UpdateRam, Shaped, Fields
<1> HIDE DEF x
<1>6. Goes(w, x)
  BY <1>1, <1>3, <1>5 DEF Goes, Runs, Holds, Stays
<1>7. Goes(x, Seen(x))
  BY <1>6, SeenStays, StaysGoes DEF Goes, Runs
<1> QED BY <1>2, <1>6, <1>7, GoesOn DEF Goes

LEMMA RunOneStepRuns ==
  ASSUME NEW w, Runs(w), w.running
  PROVE  Goes(w, RunOneStep(w))
<1>1. Goes(w, Frame(w))
  BY FrameRuns
<1>2. Goes(Frame(w), UpdateScenario(Frame(w)))
  BY <1>1, UpdateScenarioRuns DEF Goes
<1> QED BY <1>1, <1>2, FrameOf, GoesOn DEF Goes

LEMMA RunFastRuns ==
  ASSUME NEW one, Runs(one), one.running
  PROVE  Goes(one, RunFast(one))
<1> DEFINE frames == CHOOSE g :
             g = [n \in 0 .. Extra |-> IF n = 0 THEN one ELSE RunOneStep(g[n - 1])]
<1>1. Extra \in Nat
  BY ControllerAssumption
<1>2. frames = [n \in 0 .. Extra |-> IF n = 0 THEN one ELSE RunOneStep(frames[n - 1])]
  BY <1>1, FramesExist
<1>3. RunFast(one) = IF one.ff /\ ~one.paused THEN frames[Extra] ELSE one
  BY DEF RunFast
<1> HIDE DEF frames
<1> DEFINE S == {n \in 0 .. Extra : Goes(one, frames[n])}
<1>4. 0 \in S
  BY <1>1, <1>2 DEF Goes
<1>5. \A i \in 1 .. Extra : i - 1 \in S => i \in S
  <2> SUFFICES ASSUME NEW i \in 1 .. Extra, Goes(one, frames[i - 1])
               PROVE  Goes(one, frames[i])
    BY <1>1
  <2>1. frames[i] = RunOneStep(frames[i - 1])
    BY <1>1, <1>2
  <2>2. Goes(frames[i - 1], RunOneStep(frames[i - 1]))
    BY RunOneStepRuns DEF Goes
  <2> QED BY <2>1, <2>2, GoesOn DEF Goes
<1>6. 0 .. Extra \subseteq S
  <2> HIDE DEF S
  <2> QED BY <1>1, <1>4, <1>5, UpTo
<1>7. Goes(one, frames[Extra])
  BY <1>1, <1>6
<1> QED BY <1>3, <1>7 DEF Goes

LEMMA RunOnceRuns ==
  ASSUME NEW w, Runs(w)
  PROVE  Goes(w, RunOnce(w))
<1>1. CASE ~w.running
  BY <1>1 DEF RunOnce, Goes
<1>2. CASE w.running
  <2>1. Goes(w, RunOneStep(w))
    BY <1>2, RunOneStepRuns
  <2>2. Goes(RunOneStep(w), RunFast(RunOneStep(w)))
    BY <1>2, <2>1, RunFastRuns DEF Goes
  <2> QED BY <1>2, <2>1, <2>2, GoesOn DEF RunOnce, Goes
<1> QED BY <1>1, <1>2

LEMMA GameChangedStays ==
  ASSUME NEW w, NEW game, Shaped(w), Legal(w.host)
  PROVE  Stays(w, GameChanged(w, game))
<1>1. /\ Shaped(GameChanged(w, game)) /\ GameChanged(w, game).host = w.host
      /\ GameChanged(w, game).running = w.running
  BY DEF GameChanged, Shaped, Fields
<1> QED BY <1>1, EditStays

\* A ROM that loads is ready to be started; one that does not leaves no core.
LEMMA LoadGameRuns ==
  ASSUME NEW w, NEW rom \in Roms, Shaped(w), Legal(w.host), w.host.gen # MaxOpens
  PROVE  /\ rom \in Good => Ready(LoadGame(w, rom))
         /\ rom \notin Good =>
              /\ Shaped(LoadGame(w, rom)) /\ Legal(LoadGame(w, rom).host)
              /\ LoadGame(w, rom).running = w.running
<1> DEFINE shut == Core!UnloadCore(w.host, Re)
           host == Core!LoadRom(shut, Re, rom, LoadOutcome[rom])
           tried == [w EXCEPT !.host = host, !.initial = NoState]
           data == Core!ConfigureData(host, Re, Ram)
           console == [Nothing EXCEPT !.rom = rom]
           ready == [tried EXCEPT !.host = data, !.console = console,
                                  !.clone = Nothing, !.last = Nothing]
           idle == StopMovie(ready)
           x == GameChanged(idle, GameOf[rom])
<1>1. Legal(shut) /\ shut.em[Re].handle = 0 /\ shut.gen # MaxOpens
  BY UnloadCoreIs
<1>2. /\ Legal(host) /\ (rom \in Good => Holds(host))
  <2> HIDE DEF shut
  <2> QED BY <1>1, LoadRomIs DEF Good
<1>3. Shaped(tried) /\ tried.host = host /\ tried.running = w.running
  <2> HIDE DEF host
  <2> QED BY DEF Shaped, Fields
<1>4. CASE rom \notin Good
  <2>1. LoadGame(w, rom) = tried
    BY <1>4 DEF LoadGame
  <2> HIDE DEF tried, host
  <2> QED BY <1>2, <1>3, <1>4, <2>1
<1>5. CASE rom \in Good
  <2>1. LoadGame(w, rom) = x
    <3>1. ready = [tried EXCEPT !.host = Core!ConfigureData(@, Re, Ram),
                                !.console = [Nothing EXCEPT !.rom = rom],
                                !.clone = Nothing, !.last = Nothing]
      <4> HIDE DEF tried, host
      <4> QED BY <1>3 DEF Shaped, Fields
    <3> QED BY <1>5, <3>1 DEF LoadGame
  <2> HIDE DEF host
  <2>2. Holds(data)
    BY <1>2, <1>5, ConfigureDataIs
  <2> HIDE DEF data, tried, console
  <2>3. Shaped(ready) /\ ready.host = data
    BY <1>3 DEF Shaped, Fields
  <2> HIDE DEF ready
  <2>4. Stays(ready, idle)
    BY <2>2, <2>3, StopMovieStays DEF Holds
  <2> HIDE DEF idle
  <2>5. Stays(idle, x)
    BY <2>4, GameChangedStays DEF Stays
  <2> HIDE DEF x
  <2> QED BY <1>5, <2>1, <2>2, <2>3, <2>4, <2>5 DEF Ready, Holds, Stays
<1> QED BY <1>4, <1>5

LEMMA OpenGameRuns ==
  ASSUME NEW w, NEW rom \in Roms, Runs(w), w.host.gen # MaxOpens,
         rom \in Good \/ ~w.running
  PROVE  Runs(OpenGame(w, rom))
<1> DEFINE loaded == LoadGame(w, rom)
<1>1. /\ rom \in Good => Ready(loaded)
      /\ rom \notin Good =>
           Shaped(loaded) /\ Legal(loaded.host) /\ loaded.running = w.running
  BY LoadGameRuns DEF Runs
<1>2. OpenGame(w, rom) = IF rom \in Good THEN GameChanged(Start(loaded), GameOf[rom])
                         ELSE loaded
  BY DEF OpenGame
<1> HIDE DEF loaded
<1>3. CASE rom \notin Good
  BY <1>1, <1>2, <1>3 DEF Runs
<1>4. CASE rom \in Good
  <2>1. Ready(Start(loaded))
    BY <1>1, <1>4, StartReady
  <2>2. Stays(Start(loaded), GameChanged(Start(loaded), GameOf[rom]))
    BY <2>1, GameChangedStays DEF Ready, Holds
  <2> QED BY <1>2, <1>4, <2>1, <2>2 DEF Ready, Holds, Stays, Runs
<1> QED BY <1>3, <1>4

LEMMA TryRomRuns ==
  ASSUME NEW w, NEW rom \in Good, Runs(w), w.host.gen # MaxOpens
  PROVE  TryRom(w, rom).found /\ Runs(TryRom(w, rom).w)
<1> DEFINE loaded == LoadGame(w, rom)
           asked == [loaded EXCEPT !.initial = w.initial]
           back == Start(asked)
           x == GameChanged(back, GameOf[rom])
<1>1. Ready(loaded)
  BY LoadGameRuns DEF Runs, Good
<1>2. TryRom(w, rom) = [w |-> x, found |-> TRUE]
  BY DEF TryRom
<1> HIDE DEF loaded
<1>3. Ready(asked)
  <2>1. Shaped(asked) /\ asked.host = loaded.host
    BY <1>1 DEF Ready, Shaped, Fields
  <2> QED BY <1>1, <2>1 DEF Ready
<1> HIDE DEF asked
<1>4. Ready(back)
  BY <1>3, StartReady
<1> HIDE DEF back
<1>5. Stays(back, x)
  BY <1>4, GameChangedStays DEF Ready, Holds
<1> HIDE DEF x
<1>6. Runs(back)
  BY <1>4 DEF Ready, Holds, Runs
<1>7. Runs(x)
  BY <1>5, <1>6, StaysGoes DEF Goes
<1> QED BY <1>2, <1>7

\* The first ROM of a game is taken when it loads.
LEMMA FindGameRuns ==
  ASSUME NEW w, NEW roms \in Seq(Roms), Runs(w), w.host.gen # MaxOpens,
         roms = <<>> \/ roms[1] \in Good
  PROVE  Runs(FindGame(w, roms).w)
<1> DEFINE none == [w |-> w, found |-> FALSE]
           tried == CHOOSE g : g = [n \in 0 .. Len(roms) |->
             IF n = 0 THEN none ELSE Attempt(g, roms, n)]
<1>1. Len(roms) \in Nat
  OBVIOUS
<1>2. FindGame(w, roms) = tried[Len(roms)]
  BY DEF FindGame, Attempt
<1> HIDE DEF none
<1>3. tried = [n \in 0 .. Len(roms) |-> IF n = 0 THEN none ELSE Attempt(tried, roms, n)]
  BY <1>1, AttemptsExist
<1> HIDE DEF tried
<1>4. tried[0] = none /\ none.w = w /\ ~none.found
  BY <1>1, <1>3 DEF none
<1> DEFINE S == {n \in 0 .. Len(roms) : n = 0 \/ (tried[n].found /\ Runs(tried[n].w))}
<1>5. 0 \in S
  BY <1>1
<1>6. \A i \in 1 .. Len(roms) : i - 1 \in S => i \in S
  <2> SUFFICES ASSUME NEW i \in 1 .. Len(roms),
                      i = 1 \/ (tried[i - 1].found /\ Runs(tried[i - 1].w))
               PROVE  tried[i].found /\ Runs(tried[i].w)
    BY <1>1
  <2>1. tried[i] = IF tried[i - 1].found THEN tried[i - 1]
                   ELSE TryRom(tried[i - 1].w, roms[i])
    BY <1>1, <1>3 DEF Attempt
  <2>2. CASE i = 1
    <3>1. roms[1] \in Good
      BY <2>2
    <3>2. TryRom(w, roms[1]).found /\ Runs(TryRom(w, roms[1]).w)
      BY <3>1, TryRomRuns
    <3>3. tried[i - 1] = none /\ roms[i] = roms[1]
      BY <1>4, <2>2
    <3> QED BY <1>4, <2>1, <3>2, <3>3
  <2>3. CASE i # 1
    BY <2>1, <2>3
  <2> QED BY <2>2, <2>3
<1>7. 0 .. Len(roms) \subseteq S
  <2> HIDE DEF S
  <2> QED BY <1>1, <1>5, <1>6, UpTo
<1>8. Len(roms) \in 0 .. Len(roms)
  BY <1>1
<1>9. CASE Len(roms) = 0
  BY <1>2, <1>4, <1>9
<1>10. CASE Len(roms) # 0
  BY <1>2, <1>7, <1>8, <1>10
<1> QED BY <1>9, <1>10

LEMMA WithReaderRuns ==
  ASSUME NEW ready, NEW file, Found(ready), Runs(ready.w)
  PROVE  Runs(WithReader(ready, file).w)
<1> DEFINE w == ready.w
           reader == OpenRead(file)
           y == Assign(w, reader)
           x == [y EXCEPT !.recording = FALSE, !.tape = file.outs]
<1>1. CASE ~ready.found
  BY <1>1 DEF WithReader
<1>2. CASE ready.found
  <2>1. WithReader(ready, file) = [ready EXCEPT !.w = x]
    BY <1>2 DEF WithReader, Found
  <2> HIDE DEF reader
  <2>2. Stays(w, y)
    BY AssignStays DEF Runs
  <2> HIDE DEF y
  <2>3. Shaped(x) /\ x.host = y.host /\ x.running = y.running
    BY <2>2 DEF Stays, Shaped, Fields
  <2> HIDE DEF x
  <2>4. Stays(w, x)
    BY <2>2, <2>3, EditStays, StaysOn DEF Stays
  <2>5. Runs(x)
    BY <2>4, StaysGoes DEF Goes
  <2> HIDE DEF w
  <2>6. WithReader(ready, file).w = x
    BY <2>1 DEF Found
  <2> QED BY <2>5, <2>6
<1> QED BY <1>1, <1>2

\* For every game there is no ROM, or the first that is found loads.
Playable == \A game \in Games : RomsOf[game] = <<>> \/ RomsOf[game][1] \in Good

LEMMA LoadMovieRuns ==
  ASSUME Playable, NEW w, NEW path \in Paths, Runs(w), Fine(w),
         w.host.gen # MaxOpens
  PROVE  Runs(LoadMovie(w, path).w)
<1> DEFINE file == w.disk[path]
           game == w.titles[path]
           asked == [w EXCEPT !.initial = file.core]
           started == [w |-> Start(asked), found |-> TRUE]
           roms == IF game = NoGame THEN <<>> ELSE RomsOf[game]
           ready == IF w.running /\ game = NoGame THEN started ELSE FindGame(asked, roms)
<1>1. LoadMovie(w, path) = IF ~Loadable(file) THEN [w |-> w, found |-> FALSE]
                           ELSE WithReader(ready, file)
  BY DEF LoadMovie
<1>2. roms \in Seq(Roms) /\ (roms = <<>> \/ roms[1] \in Good)
  <2>1. game \in Games \cup {NoGame}
    BY DEF Fine, Sound, Titled
  <2> HIDE DEF game
  <2>2. CASE game = NoGame
    BY <2>2
  <2>3. CASE game # NoGame
    <3>1. game \in Games /\ roms = RomsOf[game]
      BY <2>1, <2>3
    <3>2. RomsOf[game] \in Seq(Roms)
      BY <3>1, ControllerAssumption
    <3> QED BY <3>1, <3>2 DEF Playable
  <2> QED BY <2>2, <2>3
<1> HIDE DEF file, game, roms
<1>3. Runs(asked) /\ asked.running = w.running /\ asked.host.gen # MaxOpens
  <2>1. Shaped(asked) /\ asked.host = w.host /\ asked.running = w.running
    BY DEF Runs, Shaped, Fields
  <2> HIDE DEF asked
  <2> QED BY <2>1 DEF Runs
<1>4. Leads(w, asked)
  <2>1. /\ Shaped(asked) /\ asked.game = w.game
        /\ \A f \in Fields \ {"initial"} : asked[f] = w[f]
    BY DEF Fine, Sound, Shaped, Fields
  <2> HIDE DEF asked
  <2>2. asked.game \in Games \cup {NoGame}
    BY <2>1 DEF Fine, Sound, Titled
  <2> QED BY <2>1, <2>2, AsideIs
<1> HIDE DEF asked
<1>5. Found(ready) /\ Runs(ready.w)
  <2>1. CASE w.running /\ game = NoGame
    <3>1. Runs(Start(asked))
      BY <1>3, <2>1, StartRuns DEF Goes
    <3> QED BY <2>1, <3>1 DEF Found
  <2>2. CASE ~ (w.running /\ game = NoGame)
    <3>1. ready = FindGame(asked, roms)
      BY <2>2
    <3> HIDE DEF ready
    <3>2. Found(FindGame(asked, roms))
      BY <1>2, <1>4, FindGameIs DEF Leads
    <3>3. Runs(FindGame(asked, roms).w)
      BY <1>2, <1>3, FindGameRuns
    <3> QED BY <3>1, <3>2, <3>3
  <2> QED BY <2>1, <2>2
<1> HIDE DEF ready
<1>6. Runs(WithReader(ready, file).w)
  BY <1>5, WithReaderRuns
<1> QED BY <1>1, <1>6

LEMMA LoadStateRuns ==
  ASSUME NEW w, NEW state, NEW name, Runs(w)
  PROVE  Goes(w, LoadState(w, state, name))
<1> DEFINE asked == [w EXCEPT !.initial = state]
           stopped == StopMovie(asked)
           begun == IF w.running THEN Start(stopped) ELSE stopped
           fresh == [begun EXCEPT !.name = name]
<1>1. LoadState(w, state, name) = IF w.recordMode THEN StartEpisode(fresh) ELSE fresh
  BY DEF LoadState
<1>2. Stays(w, asked)
  <2>1. Shaped(asked) /\ asked.host = w.host /\ asked.running = w.running
    BY DEF Runs, Shaped, Fields
  <2> HIDE DEF asked
  <2> QED BY <2>1, EditStays DEF Runs
<1> HIDE DEF asked
<1>3. Stays(w, stopped)
  BY <1>2, StopMovieStays, StaysOn DEF Stays
<1> HIDE DEF stopped
<1>4. Goes(w, stopped) /\ stopped.running = w.running
  BY <1>3, StaysGoes DEF Stays
<1>5. Goes(w, begun)
  BY <1>4, StartRuns, GoesOn DEF Goes
<1> HIDE DEF begun
<1>6. Stays(begun, fresh)
  <2>1. Shaped(fresh) /\ fresh.host = begun.host /\ fresh.running = begun.running
    BY <1>5 DEF Goes, Runs, Shaped, Fields
  <2> HIDE DEF fresh
  <2> QED BY <1>5, <2>1, EditStays DEF Goes, Runs
<1> HIDE DEF fresh
<1>7. Goes(w, fresh)
  BY <1>5, <1>6, StaysGoes, GoesOn DEF Goes
<1>8. Goes(fresh, StartEpisode(fresh))
  BY <1>7, StartEpisodeRuns DEF Goes
<1> QED BY <1>1, <1>7, <1>8, GoesOn DEF Goes

LEMMA OpenRuns ==
  ASSUME Careful, Playable, Fine(app), Runs(app), Open
  PROVE  Runs(app')
<1>1. CanOpen => app.host.gen # MaxOpens
  BY ControllerAssumption DEF CanOpen, Runs, Legal
<1>2. ASSUME NEW rom \in Roms, OpenRom(rom)
      PROVE  Runs(app')
  BY <1>1, <1>2, OpenGameRuns DEF OpenRom, Safe
<1>3. ASSUME NEW rom \in Roms, OpenAnyRom(rom)
      PROVE  Runs(app')
  <2>1. CASE rom \in Good
    BY <1>1, <1>3, <2>1, OpenGameRuns DEF OpenAnyRom
  <2>2. CASE rom \notin Good
    <3> DEFINE tried == LoadGame(app, rom)
    <3>1. ~app.running /\ app.host.gen # MaxOpens
      BY <1>1, <1>3, <2>2 DEF OpenAnyRom, Safe
    <3>2. Shaped(tried) /\ Legal(tried.host) /\ tried.running = app.running
      BY <2>2, <3>1, LoadGameRuns DEF Runs
    <3>3. app' = LoadState(tried, NoState, Junk)
      BY <1>3, <2>2 DEF OpenAnyRom
    <3> HIDE DEF tried
    <3>4. Runs(tried)
      BY <3>1, <3>2 DEF Runs
    <3> QED BY <3>3, <3>4, LoadStateRuns DEF Goes
  <2> QED BY <2>1, <2>2
<1>4. ASSUME NEW path \in Paths, CanOpen
      PROVE  /\ Runs(AfterMovie(LoadMovie(app, path)))
             /\ Runs(AfterAnyMovie(LoadMovie(app, path)))
  <2> DEFINE loaded == LoadMovie(app, path)
  <2>1. Runs(loaded.w)
    BY <1>1, <1>4, LoadMovieRuns
  <2> HIDE DEF loaded
  <2>2. Runs(UpdateScenario(loaded.w)) /\ Runs(LoadState(loaded.w, NoState, Junk))
    BY <2>1, UpdateScenarioRuns, LoadStateRuns DEF Goes
  <2>3. Runs(AfterMovie(loaded)) /\ Runs(AfterAnyMovie(loaded))
    BY <2>1, <2>2 DEF AfterMovie, AfterAnyMovie
  <2> QED BY <2>3 DEF loaded
<1>5. ASSUME NEW path \in Paths, PlayMovie(path) \/ OpenAnyMovie(path)
      PROVE  Runs(app')
  BY <1>4, <1>5 DEF PlayMovie, OpenAnyMovie
<1>6. ASSUME NEW state \in States, LoadStateFile(state)
      PROVE  Runs(app')
  BY <1>6, LoadStateRuns DEF LoadStateFile, Goes
<1> QED BY <1>2, <1>3, <1>5, <1>6 DEF Open

LEMMA NextRuns ==
  ASSUME Careful, Playable, Fine(app), Runs(app), Next
  PROVE  Runs(app')
<1>1. CASE Open
  BY <1>1, OpenRuns
<1>2. CASE RecordPicked
  <2>1. Runs(RecordMovie(app, Picked))
    BY RecordMovieRuns DEF Goes
  <2> QED BY <1>2, <2>1, UpdateScenarioRuns DEF RecordPicked, Goes
<1>3. CASE ToggleRecording
  <2> DEFINE toggled == [app EXCEPT !.recordMode = ~@]
  <2>1. app' = toggled \/ app' = StartEpisode(toggled)
    BY <1>3 DEF ToggleRecording
  <2>2. Shaped(toggled) /\ toggled.host = app.host /\ toggled.running = app.running
    BY DEF Runs, Shaped, Fields
  <2> HIDE DEF toggled
  <2>3. Runs(toggled)
    BY <2>2 DEF Runs
  <2> QED BY <2>1, <2>3, StartEpisodeRuns DEF Goes
<1>4. CASE StopTheMovie
  BY <1>4, StopMovieStays, StaysGoes DEF StopTheMovie, Runs, Goes
<1>5. CASE ResetGame
  <2>1. Runs(Start(app))
    BY <1>5, StartRuns DEF ResetGame, Goes
  <2> QED BY <1>5, <2>1, StartEpisodeRuns DEF ResetGame, Goes
<1>6. CASE HardReset
  <2> DEFINE asked == [app EXCEPT !.initial = NoState]
  <2>1. Shaped(asked) /\ asked.host = app.host /\ asked.running = app.running
    BY DEF Runs, Shaped, Fields
  <2>2. app' = Start(asked) /\ app.running
    BY <1>6 DEF HardReset
  <2> HIDE DEF asked
  <2>3. Runs(asked) /\ asked.running
    BY <2>1, <2>2 DEF Runs
  <2> QED BY <2>2, <2>3, StartRuns DEF Goes
<1>7. CASE ResetTheScenario
  BY <1>7, UpdateScenarioRuns DEF ResetTheScenario, Goes
<1>8. CASE TogglePause \/ ClickScreen \/ ClickElsewhere
  <2>1. PICK away \in BOOLEAN : app' = SetPaused(app, away) \/ app' = SetFocus(app, away)
    BY <1>8, PausesIs
  <2>2. Stays(app, app')
    BY <2>1, SetPausedStays, SetFocusStays DEF Runs
  <2> QED BY <2>2, StaysGoes DEF Goes
<1>9. CASE ToggleFastForward
  <2> DEFINE x == [app EXCEPT !.ff = ~@]
  <2>1. Shaped(x) /\ x.host = app.host /\ x.running = app.running
    BY DEF Runs, Shaped, Fields
  <2>2. app' = x
    BY <1>9 DEF ToggleFastForward
  <2> HIDE DEF x
  <2> QED BY <2>1, <2>2 DEF Runs
<1>10. CASE PressKey
  <2>1. PICK mask : app' = Hold(app, mask)
    BY <1>10 DEF PressKey
  <2>2. Goes(app, Hold(app, mask))
    BY HoldStays, StaysGoes DEF Runs
  <2> QED BY <2>1, <2>2 DEF Goes
<1>11. CASE Step
  <2> DEFINE x == [app EXCEPT !.paused = TRUE, !.timer = FALSE]
  <2>1. Shaped(x) /\ x.host = app.host /\ x.running = app.running
    BY DEF Runs, Shaped, Fields
  <2>2. app' = RunOnce(x)
    BY <1>11 DEF Step
  <2> HIDE DEF x
  <2>3. Runs(x)
    BY <2>1 DEF Runs
  <2> QED BY <2>2, <2>3, RunOnceRuns DEF Goes
<1>12. CASE Tick
  BY <1>12, RunOnceRuns DEF Tick, Goes
<1> QED BY <1>1, <1>2, <1>3, <1>4, <1>5, <1>6, <1>7, <1>8, <1>9, <1>10, <1>11, <1>12
        DEF Next

CoreInv == Runs(app)

LEMMA CoreStarts ==
  ASSUME Init
  PROVE  Runs(app)
<1>1. Shaped(app) /\ app.running = FALSE
  BY DEF Init, Shaped, Fields
<1>2. /\ app.host = [loaded |-> NoEmulator, gen |-> 0, phase |-> "closed",
                     misuse |-> {}, em |-> [e \in {Re} |-> Core!FreshEmulator],
                     spaces |-> [d \in {Ram} |-> {}]]
  BY DEF Init
<1>3. Legal(app.host)
  BY <1>2 DEF Legal, HostFields, EmFields, Core!FreshEmulator
<1> QED BY <1>1, <1>3 DEF Runs

\* A user who opens no ROM that fails over a running game, on a disk where the
\* first ROM of every game loads, never has a frame, a reset or a savestate asked
\* of an emulator without a game, and no other call comes out of its order.
THEOREM CarefulUserRunsLoaded ==
  ASSUME Careful, Playable
  PROVE  Spec => []RunsLoaded
<1>1. Init => CoreInv
  BY CoreStarts DEF CoreInv
<1>2. WindowInv /\ CoreInv /\ [Next]_app => CoreInv'
  <2>1. ASSUME WindowInv, CoreInv, Next PROVE CoreInv'
    BY <2>1, NextRuns DEF WindowInv, CoreInv
  <2>2. ASSUME CoreInv, UNCHANGED app PROVE CoreInv'
    BY <2>2 DEF CoreInv
  <2> QED BY <2>1, <2>2
<1>3. CoreInv => RunsLoaded
  BY DEF CoreInv, Runs, Legal, RunsLoaded
<1> QED BY <1>1, <1>2, <1>3, WindowAlways, PTL DEF Spec
-----------------------------------------------------------------------------
(***************************************************************************)
(* The types of the library under the window, whatever it is asked.        *)
(***************************************************************************)
\* A call changes the phase and the record of misuse only.
LEMMA CallTyped ==
  ASSUME NEW h, Core!Typed(h), NEW fn \in Core!Calls, NEW phase \in Core!Phases
  PROVE  /\ Core!Typed(Core!Call(h, fn)) /\ Core!Call(h, fn).em = h.em
         /\ Core!Typed(Core!CallTo(h, fn, phase)) /\ Core!CallTo(h, fn, phase).em = h.em
         /\ Core!CallTo(h, fn, phase).gen = h.gen
  BY DEF Core!Typed, Core!Call, Core!CallTo

LEMMA PutTyped ==
  ASSUME NEW h, Core!Typed(h), NEW r \in Core!EmulatorState
  PROVE  /\ Core!Typed([h EXCEPT !.em[Re] = r])
         /\ [h EXCEPT !.em[Re] = r].em[Re] = r /\ [h EXCEPT !.em[Re] = r].gen = h.gen
  BY DEF Core!Typed

LEMMA EmulatorTyped ==
  ASSUME NEW h, Core!Typed(h)
  PROVE  h.em[Re] \in Core!EmulatorState
  BY DEF Core!Typed

\* The calls and phases that the operators name.
LEMMA CallsNamed ==
  /\ {"retro_init", "retro_deinit", "retro_load_game", "retro_unload_game", "retro_run",
      "retro_reset", "retro_unserialize", "retro_get_memory", "dlclose"} \subseteq Core!Calls
  /\ {"closed", "mapped", "ready", "game"} \subseteq Core!Phases
  BY DEF Core!Calls, Core!Allowed, Core!Phases

LEMMA GenIs ==
  /\ 0 \in Core!Gen
  /\ \A g \in Core!Gen : g \in Nat /\ (g # MaxOpens => g + 1 \in Core!Gen)
  BY ControllerAssumption DEF Core!Gen

LEMMA MaskTyped ==
  ASSUME NEW h, Core!Typed(h), NEW mask \in SUBSET (Players \X Buttons)
  PROVE  Core!Typed([h EXCEPT !.em[Re].mask = mask])
<1> DEFINE r == [h.em[Re] EXCEPT !.mask = mask]
<1>1. r \in Core!EmulatorState
  BY EmulatorTyped DEF Core!EmulatorState
<1>2. [h EXCEPT !.em[Re].mask = mask] = [h EXCEPT !.em[Re] = r]
  BY DEF Core!Typed
<1> HIDE DEF r
<1> QED BY <1>1, <1>2, PutTyped

LEMMA RunTyped ==
  ASSUME NEW h, Core!Typed(h)
  PROVE  Core!Typed(Core!Run(h, Re, h.gen))
<1> DEFINE t == Core!Call(h, "retro_run")
           img == IF h.gen # 0 THEN h.gen ELSE t.em[Re].img
           r == [t.em[Re] EXCEPT !.img = img]
<1>1. Core!Typed(t)
  BY CallTyped, CallsNamed
<1>2. Core!Run(h, Re, h.gen) = [t EXCEPT !.em[Re].img = img]
  BY DEF Core!Run, Core!VideoRefresh
<1> HIDE DEF t
<1>3. r \in Core!EmulatorState
  <2>1. h.gen \in Core!Gen /\ t.em[Re].img \in Core!Gen
    BY <1>1, EmulatorTyped DEF Core!Typed, Core!EmulatorState
  <2> QED BY <1>1, <2>1, EmulatorTyped DEF Core!EmulatorState
<1> HIDE DEF img
<1>4. [t EXCEPT !.em[Re].img = img] = [t EXCEPT !.em[Re] = r]
  BY <1>1 DEF Core!Typed
<1> HIDE DEF r
<1> QED BY <1>1, <1>2, <1>3, <1>4, PutTyped

LEMMA UnloadRomTyped ==
  ASSUME NEW h, Core!Typed(h)
  PROVE  Core!Typed(Core!UnloadRom(h, Re))
<1> DEFINE t == Core!CallTo(h, "retro_unload_game", "ready")
           r == [t.em[Re] EXCEPT !.romLoaded = FALSE, !.romPath = NoRom,
                                 !.space = NoData, !.map = 0]
<1>1. CASE ~h.em[Re].romLoaded
  BY <1>1 DEF Core!UnloadRom
<1>2. CASE h.em[Re].romLoaded
  <2>1. Core!Typed(t)
    BY CallTyped, CallsNamed
  <2>2. Core!UnloadRom(h, Re) = [t EXCEPT !.em[Re] = r]
    <3>1. "em" \in DOMAIN t /\ Re \in DOMAIN t.em
      BY <2>1 DEF Core!Typed
    <3> HIDE DEF t
    <3> QED BY <1>2, <3>1 DEF Core!UnloadRom, t
  <2> HIDE DEF t
  <2>3. r \in Core!EmulatorState
    BY <2>1, EmulatorTyped, GenIs DEF Core!EmulatorState
  <2> HIDE DEF r
  <2> QED BY <2>1, <2>2, <2>3, PutTyped
<1> QED BY <1>1, <1>2

LEMMA UnloadCoreTyped ==
  ASSUME NEW h, Core!Typed(h)
  PROVE  Core!Typed(Core!UnloadCore(h, Re))
<1>1. CASE h.em[Re].handle = 0
  BY <1>1 DEF Core!UnloadCore
<1>2. CASE h.em[Re].handle # 0
  <2> DEFINE idle == Core!UnloadRom(h, Re)
             t == Core!CallTo(Core!CallTo(idle, "retro_deinit", "mapped"),
                              "dlclose", "closed")
             r == [t.em[Re] EXCEPT !.handle = 0]
             x == [t EXCEPT !.em[Re] = r]
  <2>1. Core!Typed(t)
    BY UnloadRomTyped, CallTyped, CallsNamed
  <2>2. Core!UnloadCore(h, Re) = [t EXCEPT !.em[Re].handle = 0, !.loaded = NoEmulator]
    BY <1>2 DEF Core!UnloadCore
  <2> HIDE DEF t
  <2>3. r \in Core!EmulatorState
    BY <2>1, EmulatorTyped, GenIs DEF Core!EmulatorState
  <2>4. [t EXCEPT !.em[Re].handle = 0, !.loaded = NoEmulator] =
          [x EXCEPT !.loaded = NoEmulator]
    BY <2>1 DEF Core!Typed
  <2> HIDE DEF r
  <2>5. Core!Typed(x)
    BY <2>1, <2>3, PutTyped
  <2> HIDE DEF x
  <2>6. Core!Typed([x EXCEPT !.loaded = NoEmulator])
    BY <2>5 DEF Core!Typed
  <2> QED BY <2>2, <2>4, <2>6
<1> QED BY <1>1, <1>2

LEMMA LoadCoreTyped ==
  ASSUME NEW h, Core!Typed(h), NEW core \in {Con, Stella}, NEW out
  PROVE  Core!Typed(Core!LoadCore(h, Re, core, out))
<1>1. CASE h.loaded # NoEmulator \/ out = "noLibrary" \/ h.gen = MaxOpens
  BY <1>1 DEF Core!LoadCore
<1>2. CASE ~ (h.loaded # NoEmulator \/ out = "noLibrary" \/ h.gen = MaxOpens)
  <2> DEFINE r == [h.em[Re] EXCEPT !.handle = h.gen + 1, !.core = core]
             put == [h EXCEPT !.em[Re] = r]
             t == [h EXCEPT !.gen = @ + 1, !.phase = "mapped", !.loaded = Re,
                            !.em[Re] = [@ EXCEPT !.handle = h.gen + 1, !.core = core]]
  <2>1. h.gen + 1 \in Core!Gen
    BY <1>2, GenIs DEF Core!Typed
  <2>2. r \in Core!EmulatorState
    BY <2>1, EmulatorTyped DEF Core!EmulatorState
  <2>3. t = [put EXCEPT !.gen = h.gen + 1, !.phase = "mapped", !.loaded = Re]
    BY DEF Core!Typed
  <2> HIDE DEF r
  <2>4. Core!Typed(put)
    BY <2>2, PutTyped
  <2> HIDE DEF put
  <2>5. Core!Typed([put EXCEPT !.gen = h.gen + 1, !.phase = "mapped", !.loaded = Re])
    BY <2>1, <2>4, CallsNamed DEF Core!Typed
  <2>6. Core!LoadCore(h, Re, core, out) = Core!CallTo(t, "retro_init", "ready")
    BY <1>2 DEF Core!LoadCore
  <2> HIDE DEF t
  <2> QED BY <2>3, <2>5, <2>6, CallTyped, CallsNamed
<1> QED BY <1>1, <1>2

LEMMA CoreLoadGameTyped ==
  ASSUME NEW h, Core!Typed(h), NEW rom \in Roms, NEW out
  PROVE  Core!Typed(Core!LoadGame(h, Re, rom, out))
<1> DEFINE t == Core!CallTo(h, "retro_load_game", "game")
           r == [t.em[Re] EXCEPT !.romLoaded = TRUE, !.romPath = rom]
<1>1. CASE out = "noFile"
  BY <1>1 DEF Core!LoadGame
<1>2. CASE out # "noFile" /\ out # "loaded"
  BY <1>2, CallTyped, CallsNamed DEF Core!LoadGame
<1>3. CASE out = "loaded"
  <2>1. Core!Typed(t)
    BY CallTyped, CallsNamed
  <2>2. Core!LoadGame(h, Re, rom, out) = [t EXCEPT !.em[Re] = r]
    <3>1. "em" \in DOMAIN t /\ Re \in DOMAIN t.em
      BY <2>1 DEF Core!Typed
    <3> HIDE DEF t
    <3> QED BY <1>3, <3>1 DEF Core!LoadGame, t
  <2> HIDE DEF t
  <2>3. r \in Core!EmulatorState
    BY <2>1, EmulatorTyped DEF Core!EmulatorState
  <2> HIDE DEF r
  <2> QED BY <2>1, <2>2, <2>3, PutTyped
<1> QED BY <1>1, <1>2, <1>3

LEMMA LoadRomTyped ==
  ASSUME NEW h, Core!Typed(h), NEW rom \in Roms \cup {NoRom}, NEW out
  PROVE  Core!Typed(Core!LoadRom(h, Re, rom, out))
<1> DEFINE core == CoreOf[rom]
           idle == Core!UnloadRom(h, Re)
           swapped == Core!SwapCore(idle, Re, core)
           open == IF swapped.em[Re].handle = 0
                   THEN Core!LoadCore(swapped, Re, core, out) ELSE swapped
<1>1. Core!LoadRom(h, Re, rom, out) =
        IF core = NoCore THEN idle
        ELSE IF open.em[Re].handle = 0 THEN open ELSE Core!LoadGame(open, Re, rom, out)
  BY DEF Core!LoadRom
<1>2. core = NoCore \/ (core = Con /\ rom \in Roms)
  BY DEF CoreOf
<1> HIDE DEF core
<1>3. Core!Typed(idle) /\ Core!Typed(swapped)
  BY UnloadRomTyped, UnloadCoreTyped DEF Core!SwapCore
<1> HIDE DEF idle, swapped
<1>4. core = Con => Core!Typed(open)
  BY <1>3, LoadCoreTyped
<1> HIDE DEF open
<1> QED BY <1>1, <1>2, <1>3, <1>4, CoreLoadGameTyped

LEMMA AttachRamTyped ==
  ASSUME NEW h, Core!Typed(h)
  PROVE  Core!Typed(Core!AttachRam(h, Re))
<1> DEFINE d == h.em[Re].space
           t == Core!Call(h, "retro_get_memory")
           blocks == {[gen |-> h.gen, view |-> "ram"]}
<1>1. d \in {Ram} \cup {NoData} /\ h.gen \in Core!Gen
  BY EmulatorTyped DEF Core!Typed, Core!EmulatorState
<1>2. Core!Typed(t)
  BY CallTyped, CallsNamed
<1>3. Core!AttachRam(h, Re) = IF d = NoData THEN h ELSE [t EXCEPT !.spaces[d] = blocks]
  BY DEF Core!AttachRam
<1>4. blocks \in SUBSET Core!Block
  BY <1>1 DEF Core!Block
<1> HIDE DEF d, t, blocks
<1>5. d # NoData => Core!Typed([t EXCEPT !.spaces[d] = blocks])
  BY <1>1, <1>2, <1>4 DEF Core!Typed
<1> QED BY <1>3, <1>5

LEMMA ReloadTyped ==
  ASSUME NEW h, Core!Typed(h), NEW out
  PROVE  Core!Typed(Core!Reload(h, Re, out))
<1> DEFINE t == Core!CallTo(h, "dlclose", "closed")
           r == [t.em[Re] EXCEPT !.handle = 0, !.romLoaded = FALSE]
           put == [t EXCEPT !.em[Re] = r]
           shut == [put EXCEPT !.loaded = NoEmulator]
<1>1. Core!Typed(t)
  BY CallTyped, CallsNamed
<1>2. Core!Reload(h, Re, out) =
        Core!AttachRam(Core!LoadRom([t EXCEPT
          !.em[Re] = [@ EXCEPT !.handle = 0, !.romLoaded = FALSE],
          !.loaded = NoEmulator], Re, h.em[Re].romPath, out), Re)
  BY DEF Core!Reload
<1> HIDE DEF t
<1>3. [t EXCEPT !.em[Re] = [@ EXCEPT !.handle = 0, !.romLoaded = FALSE],
                !.loaded = NoEmulator] = shut
  BY <1>1 DEF Core!Typed
<1>4. r \in Core!EmulatorState
  BY <1>1, EmulatorTyped, GenIs DEF Core!EmulatorState
<1> HIDE DEF r
<1>5. Core!Typed(put)
  BY <1>1, <1>4, PutTyped
<1> HIDE DEF put
<1>6. Core!Typed(shut)
  BY <1>5 DEF Core!Typed
<1> HIDE DEF shut
<1>7. h.em[Re].romPath \in Roms \cup {NoRom}
  BY EmulatorTyped DEF Core!EmulatorState
<1> QED BY <1>2, <1>3, <1>6, <1>7, LoadRomTyped, AttachRamTyped

LEMMA ResetTyped ==
  ASSUME NEW h, Core!Typed(h), NEW out
  PROVE  Core!Typed(Core!Reset(h, Re, out))
<1> DEFINE clear == [h EXCEPT !.em[Re].mask = {}]
           t == IF h.em[Re].core = Stella THEN Core!Reload(clear, Re, out) ELSE clear
<1>1. Core!Typed(clear)
  BY MaskTyped
<1>2. Core!Reset(h, Re, out) = Core!Call(t, "retro_reset")
  BY DEF Core!Reset, Core!MapAtReset
<1> HIDE DEF clear
<1>3. Core!Typed(t)
  BY <1>1, ReloadTyped
<1> HIDE DEF t
<1> QED BY <1>2, <1>3, CallTyped, CallsNamed

LEMMA UnserializeTyped ==
  ASSUME NEW h, Core!Typed(h), NEW out
  PROVE  Core!Typed(Core!Unserialize(h, Re, out))
<1> DEFINE t == IF h.em[Re].core = Stella THEN Core!Reset(h, Re, out) ELSE h
<1>1. Core!Typed(t)
  BY ResetTyped
<1>2. Core!Unserialize(h, Re, out) = Core!Call(t, "retro_unserialize")
  BY DEF Core!Unserialize
<1> HIDE DEF t
<1> QED BY <1>1, <1>2, CallTyped, CallsNamed

LEMMA ReconfigureTyped ==
  ASSUME NEW h, Core!Typed(h)
  PROVE  Core!Typed(Core!ReconfigureAddressSpace(h, Re))
<1> DEFINE d == h.em[Re].space
           blocks == {[gen |-> h.em[Re].map, view |-> "map"]}
<1>1. d \in {Ram} \cup {NoData} /\ h.em[Re].map \in Core!Gen
  BY EmulatorTyped DEF Core!EmulatorState
<1>2. blocks \in SUBSET Core!Block
  BY <1>1 DEF Core!Block
<1>3. \/ Core!ReconfigureAddressSpace(h, Re) = h
      \/ d # NoData /\ Core!ReconfigureAddressSpace(h, Re) = [h EXCEPT !.spaces[d] = blocks]
  BY DEF Core!ReconfigureAddressSpace
<1> HIDE DEF d, blocks
<1>4. d # NoData => Core!Typed([h EXCEPT !.spaces[d] = blocks])
  BY <1>1, <1>2 DEF Core!Typed
<1> QED BY <1>3, <1>4

LEMMA ConfigureDataTyped ==
  ASSUME NEW h, Core!Typed(h)
  PROVE  Core!Typed(Core!ConfigureData(h, Re, Ram))
<1> DEFINE r == [h.em[Re] EXCEPT !.space = Ram]
           put == [h EXCEPT !.em[Re] = r]
           asked == [h EXCEPT !.em[Re].space = Ram, !.spaces[Ram] = {}]
           t == Core!ReconfigureAddressSpace(asked, Re)
           blocks == {[gen |-> h.gen, view |-> "ram"]}
<1>1. Core!ConfigureData(h, Re, Ram) =
        IF t.spaces[Ram] = {} /\ h.phase = "game" THEN [t EXCEPT !.spaces[Ram] = blocks]
        ELSE t
  BY DEF Core!ConfigureData
<1>2. r \in Core!EmulatorState
  BY EmulatorTyped DEF Core!EmulatorState
<1>3. asked = [put EXCEPT !.spaces[Ram] = {}]
  BY DEF Core!Typed
<1> HIDE DEF r
<1>4. Core!Typed(put)
  BY <1>2, PutTyped
<1> HIDE DEF put
<1>5. Core!Typed(asked)
  <2>1. Core!Typed([put EXCEPT !.spaces[Ram] = {}])
    BY <1>4 DEF Core!Typed
  <2> QED BY <1>3, <2>1
<1> HIDE DEF asked
<1>6. Core!Typed(t)
  BY <1>5, ReconfigureTyped
<1> HIDE DEF t
<1>7. blocks \in SUBSET Core!Block
  BY DEF Core!Typed, Core!Block
<1> HIDE DEF blocks
<1>8. Core!Typed([t EXCEPT !.spaces[Ram] = blocks])
  BY <1>6, <1>7 DEF Core!Typed
<1> QED BY <1>1, <1>6, <1>8
-----------------------------------------------------------------------------
(***************************************************************************)
(* The types of the window.  The record alone does not keep its types: a   *)
(* reader must not be past its end when it is asked for a line, and the    *)
(* number of the next episode is bounded only by the number of movies that *)
(* were opened before.                                                     *)
(***************************************************************************)
Hosts ==
  [loaded : {Re} \cup {NoEmulator}, gen : Core!Gen, phase : Core!Phases,
   misuse : SUBSET (Core!Calls \X Core!Phases),
   em : [{Re} -> Core!EmulatorState], spaces : [{Ram} -> SUBSET Core!Block]]

Played == {GameOf[rom] : rom \in Good}

Window ==
  [host : Hosts, console : Console, clone : Console, last : Console,
   running : BOOLEAN, paused : BOOLEAN, away : BOOLEAN, timer : BOOLEAN, ff : BOOLEAN,
   movie : Writer \cup Reader \cup {NoMovie}, title : Games \cup {NoGame},
   recording : BOOLEAN, initial : States \cup {NoState},
   game : Played \cup {NoGame}, name : Names \cup {NoName}, recordMode : BOOLEAN,
   disk : [Paths -> File], titles : [Paths -> Games \cup {NoGame}],
   files : SUBSET Paths, opened : Nat, tape : Seq(Console), shown : Seq(Console)]

Film(w) ==
  /\ w.movie \in IF w.recording THEN Writer ELSE Reader \cup {NoMovie}
  /\ Playing(w) => w.movie.pos <= Len(w.movie.log)

\* A number was given to a movie that was opened.
Given(path, w) == path \in Episodes => path[3] < w.opened

Numbered(w) ==
  /\ \A path \in w.files : Given(path, w)
  /\ Recording(w) => Given(w.movie.path, w)

Members(w) == w \in Window /\ Film(w) /\ Numbered(w)

\* At most n movies are opened on the way from w to x.
Moves(w, x, n) ==
  /\ Members(x) /\ x.recordMode = w.recordMode
  /\ x.opened \in w.opened .. w.opened + n

\* The rest of what the slots leave alone.
SameGame(w, x) ==
  /\ x.running = w.running /\ x.initial = w.initial
  /\ x.game = w.game /\ x.name = w.name

LEMMA HostsAre == \A h : h \in Hosts <=> Core!Typed(h)
  BY DEF Hosts, Core!Typed

LEMMA MovesNone ==
  ASSUME NEW w, NEW x, Members(x), w.opened \in Nat, x.recordMode = w.recordMode,
         x.opened = w.opened
  PROVE  Moves(w, x, 0)
  BY DEF Moves

LEMMA MovesOn ==
  ASSUME NEW w, NEW x, NEW y, NEW m \in Nat, NEW n \in Nat, w.opened \in Nat,
         Moves(w, x, m), Moves(x, y, n)
  PROVE  Moves(w, y, m + n)
<1>1. /\ x.opened \in w.opened .. w.opened + m
      /\ y.opened \in x.opened .. x.opened + n
      /\ x.recordMode = w.recordMode /\ y.recordMode = x.recordMode /\ Members(y)
  BY DEF Moves
<1>2. y.opened \in w.opened .. w.opened + (m + n)
  BY <1>1
<1> QED BY <1>1, <1>2 DEF Moves

LEMMA MovesMore ==
  ASSUME NEW w, NEW x, NEW m \in Nat, NEW n \in Nat, m <= n, w.opened \in Nat,
         Moves(w, x, m)
  PROVE  Moves(w, x, n)
<1>1. x.opened \in w.opened .. w.opened + n
  BY DEF Moves
<1> QED BY <1>1 DEF Moves

LEMMA OpenedIs ==
  ASSUME NEW w, Members(w)
  PROVE  w.opened \in Nat /\ w.recordMode \in BOOLEAN /\ w.running \in BOOLEAN
  BY DEF Members, Window

\* An edit that leaves the movies alone.
LEMMA EditMoves ==
  ASSUME NEW w, NEW x, Members(w), x \in Window,
         x.movie = w.movie, x.recording = w.recording, x.files = w.files,
         x.opened = w.opened
  PROVE  Members(x)
  BY DEF Members, Film, Numbered, Given, Playing, Recording

LEMMA NoKeysTyped == NoKeys \in Keys
  BY DEF NoKeys, Keys

LEMMA MaskOf ==
  ASSUME NEW w, Members(w)
  PROVE  /\ Mask(w) \in SUBSET (Players \X Buttons) /\ Held(w) \in Keys
         /\ w.host.em[Re].romPath \in Roms \cup {NoRom}
<1>1. Core!Typed(w.host)
  BY HostsAre DEF Members, Window
<1>2. w.host.em[Re] \in Core!EmulatorState
  BY <1>1, EmulatorTyped
<1>3. w.host.em[Re].mask \in SUBSET (Players \X Buttons)
  BY <1>2 DEF Core!EmulatorState
<1>4. Held(w) \in Keys
  BY DEF Held, Keys
<1> QED BY <1>2, <1>3, <1>4 DEF Mask, Core!EmulatorState

LEMMA HoldMoves ==
  ASSUME NEW w, Members(w), NEW mask \in SUBSET (Players \X Buttons)
  PROVE  Moves(w, Hold(w, mask), 0) /\ SameGame(w, Hold(w, mask))
<1> DEFINE h == [w.host EXCEPT !.em[Re].mask = mask]
           x == Hold(w, mask)
<1>1. h \in Hosts
  BY HostsAre, MaskTyped DEF Members, Window
<1>2. x = [w EXCEPT !.host = h]
  BY DEF Hold, Members, Window
<1> HIDE DEF h, x
<1>3. /\ x \in Window /\ x.movie = w.movie /\ x.recording = w.recording
      /\ x.files = w.files /\ x.opened = w.opened /\ x.recordMode = w.recordMode
      /\ SameGame(w, x)
  BY <1>1, <1>2 DEF Members, Window, SameGame
<1>4. Members(x)
  BY <1>3, EditMoves
<1> QED BY <1>3, <1>4, OpenedIs, MovesNone DEF x
-----------------------------------------------------------------------------
LEMMA CloseTyped ==
  ASSUME NEW m \in Writer
  PROVE  Close(m) \in File /\ m.path \in Paths
<1>1. /\ m.path \in Paths /\ m.base \in File /\ m.log \in Seq(Keys)
      /\ m.state \in States \cup {NoState} /\ m.outs \in Seq(Console)
  BY DEF Writer
<1>2. m.base.header \in BOOLEAN /\ m.base.core \in States \cup {NoState}
  BY <1>1 DEF File
<1>3. (m.log # <<>> \/ m.base.header) \in BOOLEAN
  BY <1>2
<1> HIDE DEF Console
<1> QED BY <1>1, <1>2, <1>3 DEF Close, File

\* The new movie is not judged yet.
LEMMA AssignMoves ==
  ASSUME NEW w, Members(w), NEW movie \in Writer \cup Reader \cup {NoMovie}
  PROVE  LET x == Assign(w, movie) IN
         /\ x \in Window /\ x.movie = movie /\ x.recording = w.recording
         /\ x.recordMode = w.recordMode /\ x.opened = w.opened /\ SameGame(w, x)
         /\ \A path \in x.files : Given(path, x)
<1> DEFINE next == [w EXCEPT !.movie = movie, !.tape = <<>>, !.shown = <<>>]
           path == w.movie.path
           file == Close(w.movie)
           title == IF w.movie.log = <<>> THEN w.titles[path] ELSE w.title
           x == Assign(w, movie)
<1>1. <<>> \in Seq(Console)
  OBVIOUS
<1>2. /\ next \in Window /\ next.movie = movie /\ next.recording = w.recording
      /\ next.recordMode = w.recordMode /\ next.opened = w.opened
      /\ next.files = w.files /\ next.disk = w.disk /\ next.titles = w.titles
      /\ SameGame(w, next)
  BY <1>1, ZenonT(30) DEF Members, Window, SameGame
<1>3. CASE ~Recording(w)
  <2>1. x = next
    BY <1>3 DEF Assign
  <2> HIDE DEF next, x
  <2> QED BY <1>2, <2>1 DEF Members, Numbered, Given, x
<1>4. CASE Recording(w)
  <2>1. w.movie \in Writer
    BY <1>4 DEF Members, Film, Recording
  <2>2. file \in File /\ path \in Paths
    BY <2>1, CloseTyped
  <2>3. title \in Games \cup {NoGame}
    BY <2>2 DEF Members, Window
  <2>4. x = [next EXCEPT
               !.disk = [next.disk EXCEPT ![path] = file],
               !.files = next.files \cup {path},
               !.titles = [next.titles EXCEPT ![path] = title],
               !.title = NoGame]
    <3>1. x = [next EXCEPT
                 !.disk[path] = file, !.files = @ \cup {path},
                 !.titles[path] = IF w.movie.log = <<>> THEN @ ELSE w.title,
                 !.title = NoGame]
      BY <1>4 DEF Assign
    <3> HIDE DEF x, file, path
    <3> QED BY <1>2, <3>1 DEF Window
  <2> HIDE DEF x, next, file, title
  <2>5. Given(path, w)
    BY <1>4 DEF Members, Numbered
  <2> HIDE DEF path
  <2>6. /\ [next.disk EXCEPT ![path] = file] \in [Paths -> File]
        /\ [next.titles EXCEPT ![path] = title] \in [Paths -> Games \cup {NoGame}]
        /\ next.files \cup {path} \in SUBSET Paths
    BY <1>2, <2>2, <2>3 DEF Window
  <2>7. /\ x \in Window /\ x.movie = next.movie /\ x.recording = next.recording
        /\ x.recordMode = next.recordMode /\ x.opened = next.opened
        /\ x.files = next.files \cup {path} /\ SameGame(next, x)
    BY <1>2, <2>4, <2>6 DEF Window, SameGame
  <2>8. \A p \in x.files : Given(p, x)
    BY <1>2, <2>5, <2>7 DEF Members, Numbered, Given
  <2> QED BY <1>2, <2>7, <2>8 DEF SameGame, x
<1> QED BY <1>3, <1>4

LEMMA StopMovieMoves ==
  ASSUME NEW w, Members(w)
  PROVE  /\ Moves(w, StopMovie(w), 0) /\ SameGame(w, StopMovie(w))
         /\ ~Recording(StopMovie(w))
<1> DEFINE y == Assign(w, NoMovie)
           z == [y EXCEPT !.recording = FALSE]
           mask == {k \in Mask(w) : k[1] # First}
<1>1. /\ y \in Window /\ y.movie = NoMovie /\ y.recordMode = w.recordMode
      /\ y.opened = w.opened /\ SameGame(w, y) /\ \A path \in y.files : Given(path, y)
  BY AssignMoves
<1>2. StopMovie(w) = Hold(z, mask)
  BY DEF StopMovie
<1> HIDE DEF y
<1>3. /\ z \in Window /\ z.movie = NoMovie /\ z.recordMode = w.recordMode
      /\ z.opened = w.opened /\ z.files = y.files /\ z.recording = FALSE /\ SameGame(w, z)
  BY <1>1 DEF Window, SameGame
<1> HIDE DEF z
<1>4. ~Recording(z) /\ ~Playing(z)
  BY <1>3 DEF Recording, Playing
<1>5. Members(z)
  BY <1>1, <1>3, <1>4 DEF Members, Film, Numbered, Given
<1>6. mask \in SUBSET (Players \X Buttons)
  BY MaskOf
<1> HIDE DEF mask
<1>7. Moves(z, Hold(z, mask), 0) /\ SameGame(z, Hold(z, mask))
  BY <1>5, <1>6, HoldMoves
<1>8. ~Recording(Hold(z, mask))
  BY <1>3, <1>5 DEF Hold, Recording, Members, Window
<1> QED BY <1>2, <1>3, <1>7, <1>8, OpenedIs DEF Moves, SameGame
-----------------------------------------------------------------------------
\* An edit of what no movie depends on.
Aside(w, x) ==
  /\ x \in Window /\ x.movie = w.movie /\ x.recording = w.recording
  /\ x.files = w.files /\ x.opened = w.opened /\ x.recordMode = w.recordMode

LEMMA AsideMoves ==
  ASSUME NEW w, NEW x, Members(w), Aside(w, x)
  PROVE  Moves(w, x, 0) /\ (Recording(x) <=> Recording(w)) /\ (Playing(x) <=> Playing(w))
<1>1. Members(x)
  BY EditMoves DEF Aside
<1> QED BY <1>1, OpenedIs, MovesNone DEF Aside, Recording, Playing

LEMMA ScheduleMoves ==
  ASSUME NEW w, w \in Window
  PROVE  Aside(w, Schedule(w)) /\ SameGame(w, Schedule(w))
  BY ZenonT(30) DEF Schedule, Window, Aside, SameGame

LEMMA SetPausedMoves ==
  ASSUME NEW w, w \in Window, NEW pause \in BOOLEAN
  PROVE  Aside(w, SetPaused(w, pause)) /\ SameGame(w, SetPaused(w, pause))
<1>1. CASE pause = w.paused
  BY <1>1 DEF SetPaused, Aside, SameGame
<1>2. CASE pause # w.paused /\ pause
  BY <1>2 DEF SetPaused, Window, Aside, SameGame
<1>3. CASE pause # w.paused /\ ~pause
  <2> DEFINE y == [w EXCEPT !.paused = FALSE]
  <2>1. SetPaused(w, pause) = Schedule(y)
    BY <1>3 DEF SetPaused
  <2>2. Aside(w, y) /\ SameGame(w, y)
    BY ZenonT(30) DEF Window, Aside, SameGame
  <2> HIDE DEF y
  <2>3. Aside(y, Schedule(y)) /\ SameGame(y, Schedule(y))
    BY <2>2, ScheduleMoves DEF Aside
  <2> QED BY <2>1, <2>2, <2>3 DEF Aside, SameGame
<1> QED BY <1>1, <1>2, <1>3

LEMMA SetFocusMoves ==
  ASSUME NEW w, w \in Window, NEW away \in BOOLEAN
  PROVE  Aside(w, SetFocus(w, away)) /\ SameGame(w, SetFocus(w, away))
<1> DEFINE y == SetPaused(w, away)
           x == [y EXCEPT !.away = away]
<1>1. Aside(w, y) /\ SameGame(w, y)
  BY SetPausedMoves
<1>2. x = SetFocus(w, away)
  BY DEF SetFocus
<1> HIDE DEF y
<1>3. Aside(y, x) /\ SameGame(y, x)
  BY <1>1, ZenonT(30) DEF Window, Aside, SameGame
<1> HIDE DEF x
<1> QED BY <1>1, <1>2, <1>3 DEF Aside, SameGame

LEMMA UpdateRamMoves ==
  ASSUME NEW w, w \in Window
  PROVE  /\ Aside(w, UpdateRam(w)) /\ SameGame(w, UpdateRam(w))
         /\ UpdateRam(w).console = w.console
  BY DEF UpdateRam, Window, Aside, SameGame

LEMMA UnserializeMoves ==
  ASSUME NEW w, w \in Window
  PROVE  Aside(w, Unserialize(w)) /\ SameGame(w, Unserialize(w))
<1> DEFINE rom == w.host.em[Re].romPath
           host == Core!Unserialize(w.host, Re, "loaded")
           console == [rom |-> rom, frames |-> <<>>,
                       from |-> IF w.initial # NoState /\ RomOf[w.initial] = rom
                                THEN w.initial ELSE NoState]
           x == [w EXCEPT !.host = host, !.console = console]
<1>1. Core!Typed(w.host)
  BY HostsAre DEF Window
<1>2. host \in Hosts
  BY <1>1, HostsAre, UnserializeTyped
<1>3. rom \in Roms \cup {NoRom}
  BY <1>1, EmulatorTyped DEF Core!EmulatorState
<1>4. console \in Console
  <2>1. <<>> \in Seq(Keys)
    OBVIOUS
  <2> HIDE DEF rom
  <2> QED BY <1>3, <2>1 DEF Window, Console
<1>5. Unserialize(w) = x
  BY DEF Unserialize, Window
<1> HIDE DEF host, console
<1> QED BY <1>2, <1>4, <1>5 DEF Window, Aside, SameGame

LEMMA StartMoves ==
  ASSUME NEW w, Members(w)
  PROVE  /\ Moves(w, Start(w), 0) /\ ~Recording(Start(w))
         /\ Start(w).initial = w.initial
         /\ Start(w).game = w.game /\ Start(w).name = w.name
<1> DEFINE host == Core!Reset(w.host, Re, "loaded")
           reset == [w EXCEPT !.host = host]
           idle == StopMovie(reset)
           loaded == Unserialize(idle)
           once == UpdateRam(loaded)
           twice == UpdateRam(once)
           on == [twice EXCEPT !.running = TRUE, !.paused = @ /\ ~w.away, !.away = FALSE]
           x == Schedule(on)
<1>1. x = Start(w)
  BY DEF Start, Members, Window
<1>2. host \in Hosts
  BY HostsAre, ResetTyped DEF Members, Window
<1> HIDE DEF host
<1>3. Aside(w, reset) /\ SameGame(w, reset)
  BY <1>2 DEF Members, Window, Aside, SameGame
<1> HIDE DEF reset
<1>4. Moves(w, reset, 0)
  BY <1>3, AsideMoves
<1>5. Moves(reset, idle, 0) /\ SameGame(reset, idle) /\ ~Recording(idle)
  BY <1>4, StopMovieMoves DEF Moves
<1> HIDE DEF idle
<1>6. idle \in Window
  BY <1>5 DEF Moves, Members
<1>7. Aside(idle, loaded) /\ SameGame(idle, loaded)
  BY <1>6, UnserializeMoves
<1> HIDE DEF loaded
<1>8. Aside(loaded, once) /\ SameGame(loaded, once)
  BY <1>7, UpdateRamMoves DEF Aside
<1> HIDE DEF once
<1>9. Aside(once, twice) /\ SameGame(once, twice)
  BY <1>8, UpdateRamMoves DEF Aside
<1> HIDE DEF twice
<1>10. /\ Aside(twice, on)
       /\ on.initial = twice.initial /\ on.game = twice.game /\ on.name = twice.name
  <2> DEFINE paused == twice.paused /\ ~w.away
  <2>1. on = [twice EXCEPT !.running = TRUE, !.paused = paused, !.away = FALSE]
    BY <1>9 DEF Window, Aside
  <2>2. paused \in BOOLEAN
    OBVIOUS
  <2> HIDE DEF on, paused
  <2> QED BY <1>9, <2>1, <2>2 DEF Window, Aside
<1> HIDE DEF on
<1>11. Aside(on, x) /\ SameGame(on, x)
  BY <1>10, ScheduleMoves DEF Aside
<1> HIDE DEF x
<1>12. Aside(idle, x)
  BY <1>7, <1>8, <1>9, <1>10, <1>11 DEF Aside
<1>13. Members(idle)
  BY <1>5 DEF Moves
<1>14. Moves(idle, x, 0) /\ ~Recording(x)
  BY <1>5, <1>12, <1>13, AsideMoves
<1>15. x.initial = w.initial /\ x.game = w.game /\ x.name = w.name
  BY <1>3, <1>5, <1>7, <1>8, <1>9, <1>10, <1>11 DEF SameGame
<1>16. Moves(w, x, 0)
  BY <1>4, <1>5, <1>14, OpenedIs DEF Moves
<1> QED BY <1>1, <1>14, <1>15, <1>16
-----------------------------------------------------------------------------
LEMMA RecordedMoves ==
  ASSUME NEW w, NEW path \in Paths, Members(w),
         path \in Episodes => path[3] <= w.opened
  PROVE  Moves(w, RecordMovie(w, path), 1)
<1> DEFINE begun == IF w.running THEN Start(w) ELSE w
           movie == SetState(OpenWrite(path, w.disk[path]), begun.initial)
           y == Assign(begun, movie)
           x == [y EXCEPT !.title = begun.game, !.recording = TRUE, !.opened = @ + 1]
<1>1. Moves(w, begun, 0)
  BY StartMoves, OpenedIs, MovesNone
<1>2. RecordMovie(w, path) = x
  BY DEF RecordMovie, Recorded
<1> HIDE DEF begun
<1>3. movie \in Writer /\ movie.path = path
  <2>1. w.disk[path] \in File /\ begun.initial \in States \cup {NoState}
    BY <1>1 DEF Members, Window, Moves
  <2>2. <<>> \in Seq(Keys) /\ <<>> \in Seq(Console)
    OBVIOUS
  <2>3. movie = [path |-> path, base |-> w.disk[path], log |-> <<>>, keys |-> NoKeys,
                 state |-> begun.initial, outs |-> <<>>]
    BY DEF SetState, OpenWrite
  <2> HIDE DEF movie
  <2> QED BY <2>1, <2>2, <2>3, NoKeysTyped DEF Writer
<1> HIDE DEF movie
<1>4. /\ y \in Window /\ y.movie = movie /\ y.recordMode = begun.recordMode
      /\ y.opened = begun.opened /\ \A p \in y.files : Given(p, y)
  BY <1>1, <1>3, AssignMoves DEF Moves
<1> HIDE DEF y
<1>5. /\ begun.game \in Played \cup {NoGame} /\ begun.opened = w.opened
      /\ begun.recordMode = w.recordMode /\ w.opened \in Nat
  BY <1>1, OpenedIs DEF Moves, Members, Window
<1>6. begun.game \in Games \cup {NoGame} /\ y.opened + 1 \in Nat
  <2>1. Played \subseteq Games
    BY ControllerAssumption DEF Played, Good
  <2> QED BY <1>4, <1>5, <2>1
<1>7. /\ x \in Window /\ x.movie = movie /\ x.recording = TRUE /\ x.files = y.files
      /\ x.opened = w.opened + 1 /\ x.recordMode = w.recordMode
  <2> DEFINE game == begun.game
             count == y.opened + 1
  <2>1. x = [y EXCEPT !.title = game, !.recording = TRUE, !.opened = count]
    BY <1>4 DEF Window
  <2>2. y \in Window /\ game \in Games \cup {NoGame} /\ count \in Nat
    BY <1>4, <1>6
  <2> HIDE DEF x, game, count
  <2>3. /\ x \in Window /\ x.movie = y.movie /\ x.recording = TRUE /\ x.files = y.files
        /\ x.opened = count /\ x.recordMode = y.recordMode
    BY <2>1, <2>2 DEF Window
  <2> QED BY <1>4, <1>5, <2>3 DEF count
<1> HIDE DEF x
<1>8. Film(x)
  BY <1>3, <1>7 DEF Film, Playing
<1>9. Numbered(x)
  <2>1. ASSUME NEW p \in x.files PROVE Given(p, x)
    <3>1. p \in Episodes => p[3] \in Nat
      BY ControllerAssumption DEF Episodes, Numbers
    <3> QED BY <1>4, <1>5, <1>7, <2>1, <3>1 DEF Given
  <2>2. Given(x.movie.path, x)
    <3>1. path \in Episodes => path[3] \in Nat
      BY ControllerAssumption DEF Episodes, Numbers
    <3> QED BY <1>3, <1>5, <1>7, <3>1 DEF Given
  <2> QED BY <2>1, <2>2 DEF Numbered
<1>10. x.opened \in w.opened .. w.opened + 1
  BY <1>5, <1>7
<1> QED BY <1>2, <1>7, <1>8, <1>9, <1>10 DEF Moves, Members

\* The files of an episode are at most as many as movies were opened.
LEMMA NextPathMoves ==
  ASSUME NEW w, Members(w), w.opened <= MaxMovies + Extra, CanStartEpisode(w)
  PROVE  NextPath(w) \in Episodes /\ NextPath(w)[3] <= w.opened
<1> DEFINE idle == StopMovie(w)
           taken == Taken(w)
           path == NextPath(w)
<1>1. Moves(w, idle, 0)
  BY StopMovieMoves
<1>2. /\ taken = {i \in Numbers : <<w.game, w.name, i>> \in idle.files}
      /\ path = <<w.game, w.name, Cardinality(taken)>>
  BY DEF Taken, NextPath
<1> HIDE DEF idle, taken, path
<1>3. w.game \in Played /\ w.name \in Names
  BY DEF CanStartEpisode, Members, Window
<1>4. /\ idle.opened = w.opened /\ w.opened \in Nat /\ Members(idle)
      /\ MaxMovies + Extra \in Nat
  BY <1>1, OpenedIs, ControllerAssumption DEF Moves
<1>5. taken \subseteq 0 .. w.opened - 1
  <2> SUFFICES ASSUME NEW i \in taken PROVE i \in 0 .. w.opened - 1
    OBVIOUS
  <2>1. i \in Numbers /\ <<w.game, w.name, i>> \in idle.files
    BY <1>2
  <2>2. <<w.game, w.name, i>> \in Episodes
    BY <1>3, <2>1 DEF Episodes, Played
  <2>3. i < idle.opened
    BY <1>4, <2>1, <2>2 DEF Members, Numbered, Given
  <2>4. i \in Nat
    BY <1>4, <2>1 DEF Numbers
  <2> QED BY <1>4, <2>3, <2>4
<1>6. Cardinality(taken) \in Nat /\ Cardinality(taken) <= w.opened
  <2> DEFINE n == w.opened - 1
  <2>1. n \in Int /\ 0 \in Int
    BY <1>4
  <2> HIDE DEF n
  <2>2. /\ IsFiniteSet(0 .. n)
        /\ Cardinality(0 .. n) = IF 0 > n THEN 0 ELSE n - 0 + 1
    BY <2>1, FS_Interval
  <2>3. /\ IsFiniteSet(taken) /\ Cardinality(taken) <= Cardinality(0 .. n)
    BY <1>5, <2>2, FS_Subset DEF n
  <2>4. Cardinality(taken) \in Nat
    BY <2>3, FS_CardinalityType
  <2> QED BY <1>4, <2>2, <2>3, <2>4 DEF n
<1>7. path \in Episodes
  BY <1>2, <1>3, <1>4, <1>6 DEF Episodes, Numbers, Played
<1>8. path[3] <= w.opened
  BY <1>2, <1>6
<1> QED BY <1>7, <1>8 DEF path

LEMMA StartEpisodeMoves ==
  ASSUME NEW w, Members(w), w.opened <= MaxMovies + Extra
  PROVE  Moves(w, StartEpisode(w), 1)
<1> DEFINE idle == StopMovie(w)
           path == NextPath(w)
<1>1. CASE ~CanStartEpisode(w)
  BY <1>1, OpenedIs, MovesNone, MovesMore DEF StartEpisode
<1>2. CASE CanStartEpisode(w)
  <2>1. StartEpisode(w) = RecordMovie(idle, path)
    BY <1>2, EpisodeIs
  <2>2. Moves(w, idle, 0)
    BY StopMovieMoves
  <2>3. path \in Paths /\ path[3] <= w.opened
    BY <1>2, NextPathMoves DEF Paths
  <2> HIDE DEF idle, path
  <2>4. idle.opened = w.opened /\ w.opened \in Nat /\ Members(idle)
    BY <2>2, OpenedIs DEF Moves
  <2>5. Moves(idle, RecordMovie(idle, path), 1)
    BY <2>3, <2>4, RecordedMoves
  <2> QED BY <2>1, <2>2, <2>4, <2>5 DEF Moves
<1> QED BY <1>1, <1>2

\* How many movies a call may open: none unless it is recording mode.
At(w, n) == IF w.recordMode THEN n ELSE 0
Room(w) == w.recordMode => w.opened <= MaxMovies + Extra

LEMMA UpdateScenarioMoves ==
  ASSUME NEW w, Members(w), Room(w)
  PROVE  Moves(w, UpdateScenario(w), At(w, 1))
<1>1. CASE w.running /\ w.recordMode /\ Done(w)
  BY <1>1, StartEpisodeMoves DEF UpdateScenario, At, Room
<1>2. CASE ~ (w.running /\ w.recordMode /\ Done(w))
  <2>1. UpdateScenario(w) = w
    BY <1>2 DEF UpdateScenario
  <2>2. Moves(w, w, 0) /\ w.opened \in Nat
    BY OpenedIs, MovesNone
  <2> QED BY <2>1, <2>2, MovesMore DEF At
<1> QED BY <1>1, <1>2
-----------------------------------------------------------------------------
\* A line of the movie is written, or read before the end, so that it is there.
LEMMA FeedMoves ==
  ASSUME NEW w, Members(w)
  PROVE  Moves(w, Feed(w), 0)
<1>1. CASE Recording(w)
  <2> DEFINE keys == [NoKeys EXCEPT ![First] = Held(w)[First]]
             log == [p \in Players |-> keys[p] \cap Named]
             movie == StepWrite(SetKeys(w.movie, keys))
             x == [w EXCEPT !.movie = movie]
  <2>1. Feed(w) = x
    BY <1>1 DEF Feed, Members, Window
  <2>2. w.movie \in Writer /\ w.recording = TRUE
    BY <1>1 DEF Members, Film, Recording, Window
  <2>3. Held(w) \in Keys /\ First \in Players
    BY MaskOf, ControllerAssumption
  <2>4. keys \in Keys
    BY <2>3, NoKeysTyped DEF Keys
  <2> HIDE DEF keys
  <2>5. log \in Keys
    BY <2>4 DEF Keys
  <2>6. movie = [w.movie EXCEPT !.log = Append(w.movie.log, log), !.keys = NoKeys]
    BY <2>2 DEF StepWrite, SetKeys, Writer
  <2> HIDE DEF log, movie
  <2>7. Append(w.movie.log, log) \in Seq(Keys)
    BY <2>2, <2>5 DEF Writer
  <2>8. movie \in Writer /\ movie.path = w.movie.path
    BY <2>2, <2>6, <2>7, NoKeysTyped DEF Writer
  <2>9. /\ x \in Window /\ x.movie = movie /\ x.recording = TRUE /\ x.files = w.files
        /\ x.opened = w.opened /\ x.recordMode = w.recordMode
    BY <2>2, <2>8 DEF Members, Window
  <2> HIDE DEF x
  <2>10. Members(x)
    BY <1>1, <2>8, <2>9 DEF Members, Film, Numbered, Given, Playing, Recording
  <2> QED BY <2>1, <2>9, <2>10, OpenedIs, MovesNone
<1>2. CASE ~Recording(w) /\ ~Playing(w)
  BY <1>2, OpenedIs, MovesNone DEF Feed
<1>3. CASE ~Recording(w) /\ Playing(w) /\ AtEnd(w.movie)
  <2> DEFINE y == SetPaused(w, TRUE)
  <2>1. Feed(w) = StopMovie(y)
    BY <1>3 DEF Feed
  <2>2. Moves(w, y, 0)
    BY SetPausedMoves, AsideMoves DEF Members
  <2> HIDE DEF y
  <2>3. Moves(y, StopMovie(y), 0)
    BY <2>2, StopMovieMoves DEF Moves
  <2> QED BY <2>1, <2>2, <2>3, OpenedIs DEF Moves
<1>4. CASE ~Recording(w) /\ Playing(w) /\ ~AtEnd(w.movie)
  <2> DEFINE line == w.movie.log[w.movie.pos + 1]
             movie == StepRead(w.movie)
             y == [w EXCEPT !.movie = movie]
  <2>1. Feed(w) = Hold(y, PadsOf(movie.keys))
    BY <1>4 DEF Feed
  <2>2. w.recording = FALSE /\ w.movie \in Reader /\ w.movie.pos <= Len(w.movie.log)
    BY <1>4 DEF Members, Film, Playing, Window
  <2>3. /\ w.movie.pos \in Nat /\ w.movie.log \in Seq(Keys)
        /\ w.movie.pos # Len(w.movie.log)
    BY <1>4, <2>2 DEF Reader, AtEnd
  <2>4. line \in Keys /\ w.movie.pos + 1 \in Nat /\ w.movie.pos + 1 <= Len(w.movie.log)
    BY <2>2, <2>3
  <2>5. movie = [w.movie EXCEPT !.pos = w.movie.pos + 1, !.keys = line]
    BY <1>4, <2>2 DEF StepRead, Reader
  <2> HIDE DEF line, movie
  <2>6. movie \in Reader /\ movie.keys = line /\ movie.pos <= Len(movie.log)
    BY <2>2, <2>4, <2>5 DEF Reader
  <2>7. /\ y \in Window /\ y.movie = movie /\ y.recording = FALSE /\ y.files = w.files
        /\ y.opened = w.opened /\ y.recordMode = w.recordMode
    BY <2>2, <2>6 DEF Members, Window
  <2> HIDE DEF y
  <2>8. Members(y)
    BY <2>6, <2>7 DEF Members, Film, Numbered, Given, Playing, Recording
  <2>9. PadsOf(movie.keys) \in SUBSET (Players \X Buttons)
    BY <2>4, <2>6 DEF PadsOf, Keys
  <2>10. Moves(y, Hold(y, PadsOf(movie.keys)), 0)
    BY <2>8, <2>9, HoldMoves
  <2> QED BY <2>1, <2>7, <2>10, OpenedIs DEF Moves
<1> QED BY <1>1, <1>2, <1>3, <1>4

LEMMA SeenMoves ==
  ASSUME NEW w, Members(w)
  PROVE  Moves(w, Seen(w), 0)
<1>0. w.console \in Console
  BY DEF Members, Window
<1>1. CASE Recording(w)
  <2> DEFINE outs == Append(w.movie.outs, w.console)
             movie == [w.movie EXCEPT !.outs = outs]
             x == [w EXCEPT !.movie = movie]
  <2>1. w.movie \in Writer /\ w.recording = TRUE
    BY <1>1 DEF Members, Film, Recording, Window
  <2>2. outs \in Seq(Console)
    BY <1>0, <2>1 DEF Writer
  <2>3. Seen(w) = x
    BY <1>1, <2>1 DEF Seen, Writer, Members, Window
  <2> HIDE DEF outs
  <2>4. movie \in Writer /\ movie.path = w.movie.path
    BY <2>1, <2>2 DEF Writer
  <2> HIDE DEF movie
  <2>5. /\ x \in Window /\ x.movie = movie /\ x.recording = TRUE /\ x.files = w.files
        /\ x.opened = w.opened /\ x.recordMode = w.recordMode
    BY <2>1, <2>4 DEF Members, Window
  <2> HIDE DEF x
  <2>6. Members(x)
    BY <1>1, <2>4, <2>5 DEF Members, Film, Numbered, Given, Playing, Recording
  <2> QED BY <2>3, <2>5, <2>6, OpenedIs, MovesNone
<1>2. CASE ~Recording(w) /\ Playing(w)
  <2> DEFINE shown == Append(w.shown, w.console)
             x == [w EXCEPT !.shown = shown]
  <2>1. shown \in Seq(Console)
    BY <1>0 DEF Members, Window
  <2>2. Seen(w) = x
    BY <1>2 DEF Seen, Members, Window
  <2> HIDE DEF shown
  <2>3. Aside(w, x)
    BY <2>1 DEF Members, Window, Aside
  <2> QED BY <2>2, <2>3, AsideMoves
<1>3. CASE ~Recording(w) /\ ~Playing(w)
  BY <1>3, OpenedIs, MovesNone DEF Seen
<1> QED BY <1>1, <1>2, <1>3

LEMMA FrameMoves ==
  ASSUME NEW w, Members(w)
  PROVE  Moves(w, Frame(w), 0)
<1> DEFINE fed == Feed(w)
           pads == Held(fed)
           host == Core!Run(fed.host, Re, fed.host.gen)
           console == [fed.console EXCEPT !.frames = Append(fed.console.frames, pads)]
           ran == [fed EXCEPT !.host = host, !.console = console]
           y == UpdateRam(ran)
           x == Seen(y)
<1>1. Moves(w, fed, 0) /\ fed \in Window
  BY FeedMoves DEF Moves, Members
<1>2. pads \in Keys
  BY <1>1, MaskOf DEF Moves
<1>3. Frame(w) = x
  <2>1. [fed EXCEPT !.host = Core!Run(@, Re, @.gen), !.console.frames = Append(@, pads)] = ran
    <3> HIDE DEF fed, pads
    <3> QED BY <1>1 DEF Window, Console
  <2> QED BY <2>1 DEF Frame, Ran
<1>4. host \in Hosts
  BY <1>1, HostsAre, RunTyped DEF Window
<1> HIDE DEF fed, pads, host
<1>5. console \in Console
  <2>1. fed.console \in Console
    BY <1>1 DEF Window
  <2>2. Append(fed.console.frames, pads) \in Seq(Keys)
    BY <1>2, <2>1 DEF Console
  <2> QED BY <2>1, <2>2 DEF Console
<1> HIDE DEF console
<1>6. Aside(fed, ran)
  BY <1>1, <1>4, <1>5 DEF Window, Aside
<1> HIDE DEF ran
<1>7. Aside(ran, y)
  BY <1>6, UpdateRamMoves DEF Aside
<1> HIDE DEF y
<1>8. Aside(fed, y)
  BY <1>6, <1>7 DEF Aside
<1>9. Moves(fed, y, 0)
  BY <1>1, <1>8, AsideMoves DEF Moves
<1>10. Moves(y, x, 0)
  BY <1>9, SeenMoves DEF Moves
<1> HIDE DEF x
<1> QED BY <1>1, <1>3, <1>9, <1>10, OpenedIs DEF Moves

LEMMA RunOneStepMoves ==
  ASSUME NEW w, Members(w), Room(w)
  PROVE  Moves(w, RunOneStep(w), At(w, 1))
<1> DEFINE x == Frame(w)
<1>1. Moves(w, x, 0)
  BY FrameMoves
<1>2. RunOneStep(w) = UpdateScenario(x)
  BY FrameOf
<1> HIDE DEF x
<1>3. /\ Members(x) /\ x.opened = w.opened /\ x.recordMode = w.recordMode
      /\ w.opened \in Nat
  BY <1>1, OpenedIs DEF Moves
<1>4. Room(x) /\ At(x, 1) = At(w, 1)
  BY <1>3 DEF Room, At
<1>5. Moves(x, UpdateScenario(x), At(w, 1))
  BY <1>3, <1>4, UpdateScenarioMoves
<1> QED BY <1>2, <1>3, <1>5 DEF Moves

\* Room for a movie more than the frames that are left.
LEMMA RunFastMoves ==
  ASSUME NEW one, Members(one), one.recordMode => one.opened <= MaxMovies
  PROVE  Moves(one, RunFast(one), At(one, Extra))
<1> DEFINE frames == CHOOSE g :
             g = [n \in 0 .. Extra |-> IF n = 0 THEN one ELSE RunOneStep(g[n - 1])]
<1>1. Extra \in Nat /\ MaxMovies \in Nat /\ one.opened \in Nat
  BY ControllerAssumption, OpenedIs
<1>2. frames = [n \in 0 .. Extra |-> IF n = 0 THEN one ELSE RunOneStep(frames[n - 1])]
  BY <1>1, FramesExist
<1>3. RunFast(one) = IF one.ff /\ ~one.paused THEN frames[Extra] ELSE one
  BY DEF RunFast
<1> HIDE DEF frames
<1> DEFINE S == {n \in 0 .. Extra : Moves(one, frames[n], At(one, n))}
<1>4. Moves(one, one, 0)
  BY <1>1, MovesNone
<1>5. 0 \in S
  BY <1>1, <1>2, <1>4 DEF At
<1>6. \A i \in 1 .. Extra : i - 1 \in S => i \in S
  <2> SUFFICES ASSUME NEW i \in 1 .. Extra, Moves(one, frames[i - 1], At(one, i - 1))
               PROVE  Moves(one, frames[i], At(one, i))
    BY <1>1
  <2> DEFINE y == frames[i - 1]
  <2>1. frames[i] = RunOneStep(y)
    BY <1>1, <1>2
  <2>2. /\ Members(y) /\ y.recordMode = one.recordMode
        /\ y.opened \in one.opened .. one.opened + At(one, i - 1)
    BY DEF Moves
  <2> HIDE DEF y
  <2>3. Room(y)
    <3>1. CASE one.recordMode
      BY <1>1, <2>2, <3>1 DEF Room, At
    <3>2. CASE ~one.recordMode
      BY <2>2, <3>2 DEF Room
    <3> QED BY <3>1, <3>2
  <2>4. Moves(y, RunOneStep(y), At(one, 1))
    BY <2>2, <2>3, RunOneStepMoves DEF At
  <2>5. /\ At(one, i - 1) \in Nat /\ At(one, 1) \in Nat
        /\ At(one, i - 1) + At(one, 1) = At(one, i)
    BY DEF At
  <2>6. Moves(one, y, At(one, i - 1))
    BY DEF y
  <2> QED BY <1>1, <2>1, <2>4, <2>5, <2>6, MovesOn
<1>7. 0 .. Extra \subseteq S
  <2> HIDE DEF S
  <2> QED BY <1>1, <1>5, <1>6, UpTo
<1>8. Moves(one, frames[Extra], At(one, Extra))
  BY <1>1, <1>7
<1>9. Moves(one, one, At(one, Extra))
  BY <1>1, <1>4, MovesMore DEF At
<1> QED BY <1>3, <1>8, <1>9

LEMMA RunOnceMoves ==
  ASSUME NEW w, Members(w), w.recordMode => w.opened < MaxMovies
  PROVE  Moves(w, RunOnce(w), At(w, Extra + 1))
<1> DEFINE one == RunOneStep(w)
<1>1. Extra \in Nat /\ MaxMovies \in Nat /\ w.opened \in Nat
  BY ControllerAssumption, OpenedIs
<1>2. Room(w)
  BY <1>1 DEF Room
<1>3. Moves(w, one, At(w, 1))
  BY <1>2, RunOneStepMoves
<1>4. RunOnce(w) = IF w.running THEN RunFast(one) ELSE w
  BY DEF RunOnce
<1> HIDE DEF one
<1>5. one.recordMode => one.opened <= MaxMovies
  BY <1>1, <1>3 DEF Moves, At
<1>6. Moves(one, RunFast(one), At(w, Extra))
  BY <1>3, <1>5, RunFastMoves DEF Moves, At
<1>7. /\ At(w, 1) \in Nat /\ At(w, Extra) \in Nat /\ At(w, Extra + 1) \in Nat
      /\ At(w, 1) + At(w, Extra) = At(w, Extra + 1)
  BY <1>1 DEF At
<1>8. Moves(w, RunFast(one), At(w, Extra + 1))
  BY <1>1, <1>3, <1>6, <1>7, MovesOn
<1>9. Moves(w, w, 0)
  BY <1>1, MovesNone
<1>10. Moves(w, w, At(w, Extra + 1))
  BY <1>1, <1>7, <1>9, MovesMore
<1> QED BY <1>4, <1>8, <1>10
-----------------------------------------------------------------------------
LEMMA GameChangedMoves ==
  ASSUME NEW w, Members(w), NEW rom \in Good
  PROVE  Moves(w, GameChanged(w, GameOf[rom]), 0)
<1> DEFINE x == GameChanged(w, GameOf[rom])
<1>1. GameOf[rom] \in Played
  BY DEF Played
<1>2. Aside(w, x)
  BY <1>1 DEF GameChanged, Members, Window, Aside
<1> QED BY <1>2, AsideMoves

LEMMA NothingTyped == Nothing \in Console /\ \A rom \in Roms : [Nothing EXCEPT !.rom = rom] \in Console
<1>1. <<>> \in Seq(Keys)
  OBVIOUS
<1> QED BY <1>1 DEF Nothing, Console

LEMMA LoadGameMoves ==
  ASSUME NEW w, Members(w), NEW rom \in Roms
  PROVE  Moves(w, LoadGame(w, rom), 0)
<1> DEFINE host == Core!LoadRom(Core!UnloadCore(w.host, Re), Re, rom, LoadOutcome[rom])
           data == Core!ConfigureData(host, Re, Ram)
           console == [Nothing EXCEPT !.rom = rom]
           tried == [w EXCEPT !.host = host, !.initial = NoState]
           ready == [tried EXCEPT !.host = data, !.console = console,
                                  !.clone = Nothing, !.last = Nothing]
           idle == StopMovie(ready)
<1>1. Core!Typed(host) /\ Core!Typed(data)
  BY HostsAre, UnloadCoreTyped, LoadRomTyped, ConfigureDataTyped DEF Members, Window
<1>2. LoadGame(w, rom) = IF rom \in Good THEN GameChanged(idle, GameOf[rom]) ELSE tried
  <2>1. ready = [tried EXCEPT !.host = Core!ConfigureData(@, Re, Ram),
                              !.console = [Nothing EXCEPT !.rom = rom],
                              !.clone = Nothing, !.last = Nothing]
    <3> HIDE DEF host
    <3> QED BY DEF Members, Window
  <2> QED BY <2>1 DEF LoadGame
<1>3. host \in Hosts /\ data \in Hosts
  BY <1>1, HostsAre
<1> HIDE DEF host, data
<1>4. Aside(w, tried)
  BY <1>3 DEF Members, Window, Aside
<1> HIDE DEF tried
<1>5. Moves(w, tried, 0)
  BY <1>4, AsideMoves
<1>6. console \in Console /\ Nothing \in Console
  BY NothingTyped
<1> HIDE DEF console
<1>7. Aside(tried, ready)
  BY <1>3, <1>4, <1>6 DEF Window, Aside
<1> HIDE DEF ready
<1>8. Moves(tried, ready, 0)
  BY <1>5, <1>7, AsideMoves DEF Moves
<1>9. Moves(ready, idle, 0)
  BY <1>8, StopMovieMoves DEF Moves
<1> HIDE DEF idle
<1>10. rom \in Good => Moves(idle, GameChanged(idle, GameOf[rom]), 0)
  BY <1>9, GameChangedMoves DEF Moves
<1> QED BY <1>2, <1>5, <1>8, <1>9, <1>10, OpenedIs DEF Moves

LEMMA OpenGameMoves ==
  ASSUME NEW w, Members(w), NEW rom \in Roms
  PROVE  Moves(w, OpenGame(w, rom), 0)
<1> DEFINE loaded == LoadGame(w, rom)
           back == Start(loaded)
<1>1. Moves(w, loaded, 0)
  BY LoadGameMoves
<1>2. OpenGame(w, rom) = IF rom \in Good THEN GameChanged(back, GameOf[rom]) ELSE loaded
  BY DEF OpenGame
<1> HIDE DEF loaded
<1>3. Moves(loaded, back, 0)
  BY <1>1, StartMoves DEF Moves
<1> HIDE DEF back
<1>4. rom \in Good => Moves(back, GameChanged(back, GameOf[rom]), 0)
  BY <1>3, GameChangedMoves DEF Moves
<1> QED BY <1>1, <1>2, <1>3, <1>4, OpenedIs DEF Moves

LEMMA TryRomMoves ==
  ASSUME NEW w, Members(w), NEW rom \in Roms
  PROVE  Found(TryRom(w, rom)) /\ Moves(w, TryRom(w, rom).w, 0)
<1> DEFINE loaded == LoadGame(w, rom)
           asked == [loaded EXCEPT !.initial = w.initial]
           back == Start(asked)
           x == GameChanged(back, GameOf[rom])
<1>1. Moves(w, loaded, 0)
  BY LoadGameMoves
<1>2. TryRom(w, rom) = IF rom \in Good THEN [w |-> x, found |-> TRUE]
                       ELSE [w |-> loaded, found |-> FALSE]
  BY DEF TryRom
<1> HIDE DEF loaded
<1>3. Aside(loaded, asked)
  <2>1. w.initial \in States \cup {NoState} /\ loaded \in Window
    BY <1>1 DEF Moves, Members, Window
  <2> QED BY <2>1 DEF Window, Aside
<1> HIDE DEF asked
<1>4. Moves(loaded, asked, 0)
  BY <1>1, <1>3, AsideMoves DEF Moves
<1>5. Moves(asked, back, 0)
  BY <1>4, StartMoves DEF Moves
<1> HIDE DEF back
<1>6. rom \in Good => Moves(back, x, 0)
  BY <1>5, GameChangedMoves DEF Moves
<1> HIDE DEF x
<1>7. rom \in Good => Moves(w, x, 0)
  BY <1>1, <1>4, <1>5, <1>6, OpenedIs DEF Moves
<1> QED BY <1>1, <1>2, <1>7 DEF Found

LEMMA FindGameMoves ==
  ASSUME NEW w, Members(w), NEW roms \in Seq(Roms)
  PROVE  Found(FindGame(w, roms)) /\ Moves(w, FindGame(w, roms).w, 0)
<1> DEFINE none == [w |-> w, found |-> FALSE]
           tried == CHOOSE g : g = [n \in 0 .. Len(roms) |->
             IF n = 0 THEN none ELSE Attempt(g, roms, n)]
<1>1. Len(roms) \in Nat
  OBVIOUS
<1>2. FindGame(w, roms) = tried[Len(roms)]
  BY DEF FindGame, Attempt
<1> HIDE DEF none
<1>3. tried = [n \in 0 .. Len(roms) |-> IF n = 0 THEN none ELSE Attempt(tried, roms, n)]
  BY <1>1, AttemptsExist
<1> HIDE DEF tried
<1> DEFINE S == {n \in 0 .. Len(roms) : Found(tried[n]) /\ Moves(w, tried[n].w, 0)}
<1>4. 0 \in S
  <2>1. tried[0] = none
    BY <1>1, <1>3
  <2>2. Moves(w, w, 0)
    BY OpenedIs, MovesNone
  <2> QED BY <1>1, <2>1, <2>2 DEF none, Found
<1>5. \A i \in 1 .. Len(roms) : i - 1 \in S => i \in S
  <2> SUFFICES ASSUME NEW i \in 1 .. Len(roms),
                      Found(tried[i - 1]), Moves(w, tried[i - 1].w, 0)
               PROVE  Found(tried[i]) /\ Moves(w, tried[i].w, 0)
    BY <1>1
  <2> DEFINE y == tried[i - 1].w
  <2>1. tried[i] = IF tried[i - 1].found THEN tried[i - 1] ELSE TryRom(y, roms[i])
    BY <1>1, <1>3 DEF Attempt
  <2>2. roms[i] \in Roms
    OBVIOUS
  <2>3. Moves(w, y, 0)
    OBVIOUS
  <2> HIDE DEF y
  <2>4. Found(TryRom(y, roms[i])) /\ Moves(y, TryRom(y, roms[i]).w, 0)
    BY <2>2, <2>3, TryRomMoves DEF Moves
  <2>5. Moves(w, TryRom(y, roms[i]).w, 0)
    BY <2>3, <2>4, OpenedIs DEF Moves
  <2> QED BY <2>1, <2>4, <2>5
<1>6. 0 .. Len(roms) \subseteq S
  <2> HIDE DEF S
  <2> QED BY <1>1, <1>4, <1>5, UpTo
<1>7. Len(roms) \in 0 .. Len(roms)
  BY <1>1
<1> QED BY <1>2, <1>6, <1>7

LEMMA WithReaderMoves ==
  ASSUME NEW ready, Found(ready), Members(ready.w), NEW file \in File
  PROVE  Moves(ready.w, WithReader(ready, file).w, 0)
<1> DEFINE w == ready.w
           reader == OpenRead(file)
           y == Assign(w, reader)
           x == [y EXCEPT !.recording = FALSE, !.tape = file.outs]
<1>1. CASE ~ready.found
  BY <1>1, OpenedIs, MovesNone DEF WithReader
<1>2. CASE ready.found
  <2>1. WithReader(ready, file).w = x
    BY <1>2 DEF WithReader, Found
  <2>2. /\ file.log \in Seq(Keys) /\ file.core \in States \cup {NoState}
        /\ file.outs \in Seq(Console)
    BY DEF File
  <2>3. reader \in Reader /\ reader.pos <= Len(reader.log)
    BY <2>2, NoKeysTyped DEF OpenRead, Reader
  <2> HIDE DEF w, reader
  <2>4. /\ y \in Window /\ y.movie = reader /\ y.recordMode = w.recordMode
        /\ y.opened = w.opened /\ \A path \in y.files : Given(path, y)
    BY <2>3, AssignMoves DEF w
  <2> HIDE DEF y
  <2>5. /\ x \in Window /\ x.movie = reader /\ x.recording = FALSE /\ x.files = y.files
        /\ x.recordMode = w.recordMode /\ x.opened = w.opened
    <3> HIDE DEF Reader, Writer, Console, File
    <3> QED BY <2>2, <2>4 DEF Window
  <2> HIDE DEF x
  <2>6. Members(x)
    BY <2>3, <2>4, <2>5 DEF Members, Film, Numbered, Given, Recording
  <2> QED BY <2>1, <2>5, <2>6, OpenedIs, MovesNone DEF w
<1> QED BY <1>1, <1>2

LEMMA LoadMovieMoves ==
  ASSUME NEW w, Members(w), NEW path \in Paths
  PROVE  Found(LoadMovie(w, path)) /\ Moves(w, LoadMovie(w, path).w, 0)
<1> DEFINE file == w.disk[path]
           game == w.titles[path]
           asked == [w EXCEPT !.initial = file.core]
           started == [w |-> Start(asked), found |-> TRUE]
           roms == IF game = NoGame THEN <<>> ELSE RomsOf[game]
           ready == IF w.running /\ game = NoGame THEN started ELSE FindGame(asked, roms)
<1>1. LoadMovie(w, path) = IF ~Loadable(file) THEN [w |-> w, found |-> FALSE]
                           ELSE WithReader(ready, file)
  BY DEF LoadMovie
<1>2. file \in File /\ game \in Games \cup {NoGame}
  BY DEF Members, Window
<1>3. roms \in Seq(Roms)
  BY <1>2, ControllerAssumption
<1> HIDE DEF file, game, roms
<1>4. Aside(w, asked)
  <2>1. file.core \in States \cup {NoState}
    BY <1>2 DEF File
  <2> QED BY <2>1 DEF Members, Window, Aside
<1> HIDE DEF asked
<1>5. Moves(w, asked, 0)
  BY <1>4, AsideMoves
<1>6. Found(ready) /\ Moves(asked, ready.w, 0)
  <2>1. CASE ready = started
    BY <1>5, <2>1, StartMoves DEF Found, Moves
  <2>2. CASE ready = FindGame(asked, roms)
    <3>1. Found(FindGame(asked, roms)) /\ Moves(asked, FindGame(asked, roms).w, 0)
      BY <1>3, <1>5, FindGameMoves DEF Moves
    <3> HIDE DEF ready
    <3> QED BY <2>2, <3>1
  <2> QED BY <2>1, <2>2
<1> HIDE DEF ready
<1>7. Found(WithReader(ready, file))
  BY <1>6 DEF WithReader, Found
<1>8. Moves(ready.w, WithReader(ready, file).w, 0)
  BY <1>2, <1>6, WithReaderMoves DEF Moves
<1>9. Moves(w, WithReader(ready, file).w, 0)
  BY <1>5, <1>6, <1>8, OpenedIs DEF Moves
<1>10. Moves(w, w, 0)
  BY OpenedIs, MovesNone
<1> QED BY <1>1, <1>7, <1>9, <1>10 DEF Found

LEMMA LoadStateMoves ==
  ASSUME NEW w, Members(w), w.opened <= MaxMovies + Extra,
         NEW state \in States \cup {NoState}, NEW name \in Names
  PROVE  Moves(w, LoadState(w, state, name), 1)
<1> DEFINE asked == [w EXCEPT !.initial = state]
           stopped == StopMovie(asked)
           begun == IF w.running THEN Start(stopped) ELSE stopped
           fresh == [begun EXCEPT !.name = name]
<1>1. LoadState(w, state, name) = IF w.recordMode THEN StartEpisode(fresh) ELSE fresh
  BY DEF LoadState
<1>2. Aside(w, asked)
  BY DEF Members, Window, Aside
<1> HIDE DEF asked
<1>3. Moves(w, asked, 0)
  BY <1>2, AsideMoves
<1>4. Moves(asked, stopped, 0)
  BY <1>3, StopMovieMoves DEF Moves
<1> HIDE DEF stopped
<1>5. Moves(stopped, begun, 0)
  <2>1. Members(stopped)
    BY <1>4 DEF Moves
  <2>2. Moves(stopped, stopped, 0) /\ Moves(stopped, Start(stopped), 0)
    BY <2>1, StartMoves, OpenedIs, MovesNone
  <2> QED BY <2>2
<1> HIDE DEF begun
<1>6. Aside(begun, fresh)
  <2>1. begun \in Window
    BY <1>5 DEF Moves, Members
  <2> QED BY <2>1 DEF Window, Aside
<1> HIDE DEF fresh
<1>7. Moves(begun, fresh, 0)
  BY <1>5, <1>6, AsideMoves DEF Moves
<1>8. Moves(w, fresh, 0) /\ w.opened \in Nat
  BY <1>3, <1>4, <1>5, <1>7, OpenedIs DEF Moves
<1>9. fresh.opened = w.opened
  BY <1>8 DEF Moves
<1>10. Moves(fresh, StartEpisode(fresh), 1)
  BY <1>8, <1>9, StartEpisodeMoves DEF Moves
<1>11. Moves(w, StartEpisode(fresh), 1)
  BY <1>8, <1>9, <1>10 DEF Moves
<1> QED BY <1>1, <1>8, <1>11, MovesMore
-----------------------------------------------------------------------------
\* Every movie that the bounds allow to be opened, and no more.
TypeInv == Members(app) /\ app.opened <= MaxMovies + Extra + 1

LEMMA BoundsAre ==
  ASSUME Members(app)
  PROVE  /\ app.opened \in Nat /\ MaxMovies \in Nat /\ Extra \in Nat
         /\ CanRecord => app.opened < MaxMovies
         /\ app.recordMode \in BOOLEAN
  BY OpenedIs, ControllerAssumption DEF CanRecord

\* An action that opens no movie, or at most two where one may be recorded.
LEMMA TypeKept ==
  ASSUME TypeInv,
         \/ Moves(app, app', 0)
         \/ CanRecord /\ Moves(app, app', 2)
         \/ MayRecord /\ Moves(app, app', At(app, Extra + 1))
  PROVE  TypeInv'
<1>1. /\ app.opened \in Nat /\ MaxMovies \in Nat /\ Extra \in Nat
      /\ CanRecord => app.opened < MaxMovies
  BY BoundsAre DEF TypeInv
<1>2. CASE Moves(app, app', 0)
  BY <1>1, <1>2 DEF TypeInv, Moves
<1>3. CASE CanRecord /\ Moves(app, app', 2)
  BY <1>1, <1>3 DEF TypeInv, Moves
<1>4. CASE MayRecord /\ Moves(app, app', At(app, Extra + 1))
  BY <1>1, <1>4 DEF TypeInv, Moves, At, MayRecord
<1> QED BY <1>2, <1>3, <1>4

LEMMA OpenMoves ==
  ASSUME TypeInv, Open
  PROVE  TypeInv'
<1>1. /\ Members(app) /\ app.opened \in Nat
      /\ CanRecord => app.opened <= MaxMovies + Extra
  BY BoundsAre DEF TypeInv
<1>2. NoState \in States \cup {NoState} /\ Junk \in Names /\ States \subseteq Names
  BY DEF Names
<1>3. ASSUME NEW rom \in Roms
      PROVE  Moves(app, OpenGame(app, rom), 0)
  BY <1>1, OpenGameMoves
<1>4. ASSUME NEW rom \in Roms, OpenRom(rom)
      PROVE  TypeInv'
  BY <1>3, <1>4, TypeKept DEF OpenRom
<1>5. ASSUME NEW rom \in Roms, OpenAnyRom(rom)
      PROVE  TypeInv'
  <2>1. CASE rom \in Good
    BY <1>3, <1>5, <2>1, TypeKept DEF OpenAnyRom
  <2>2. CASE rom \notin Good
    <3> DEFINE tried == LoadGame(app, rom)
    <3>1. CanRecord /\ app' = LoadState(tried, NoState, Junk)
      BY <1>5, <2>2 DEF OpenAnyRom
    <3>2. Moves(app, tried, 0)
      BY <1>1, LoadGameMoves
    <3> HIDE DEF tried
    <3>3. Members(tried) /\ tried.opened = app.opened
      BY <1>1, <3>2 DEF Moves
    <3>4. Moves(tried, app', 1)
      BY <1>1, <1>2, <3>1, <3>3, LoadStateMoves
    <3>5. Moves(app, app', 2)
      BY <1>1, <3>2, <3>3, <3>4 DEF Moves
    <3> QED BY <3>1, <3>5, TypeKept
  <2> QED BY <2>1, <2>2
<1>6. ASSUME NEW path \in Paths, PlayMovie(path) \/ OpenAnyMovie(path)
      PROVE  TypeInv'
  <2> DEFINE loaded == LoadMovie(app, path)
             w == loaded.w
  <2>1. Moves(app, w, 0)
    BY <1>1, LoadMovieMoves
  <2>2. \/ MayRecord /\ app' = AfterMovie(loaded)
        \/ CanRecord /\ app' = AfterAnyMovie(loaded)
    BY <1>6 DEF PlayMovie, OpenAnyMovie
  <2>3. \/ app' = w
        \/ MayRecord /\ app' = UpdateScenario(w)
        \/ CanRecord /\ app' = LoadState(w, NoState, Junk)
    BY <2>2 DEF AfterMovie, AfterAnyMovie, MayRecord
  <2> HIDE DEF loaded, w
  <2>4. /\ Members(w) /\ w.opened = app.opened /\ w.recordMode = app.recordMode
    BY <1>1, <2>1 DEF Moves
  <2>5. CASE app' = w
    BY <2>1, <2>5, TypeKept
  <2>6. CASE MayRecord /\ app' = UpdateScenario(w)
    <3>1. Room(w)
      BY <1>1, <2>4, <2>6 DEF Room, MayRecord
    <3>2. Moves(w, app', At(w, 1))
      BY <2>4, <2>6, <3>1, UpdateScenarioMoves
    <3>3. Moves(app, app', At(app, 1))
      BY <1>1, <2>4, <3>2 DEF Moves, At
    <3>4. /\ At(app, 1) \in Nat /\ At(app, Extra + 1) \in Nat
          /\ At(app, 1) <= At(app, Extra + 1)
      BY <1>1, BoundsAre DEF At
    <3>5. Moves(app, app', At(app, Extra + 1))
      BY <1>1, <3>3, <3>4, MovesMore
    <3> QED BY <2>6, <3>5, TypeKept
  <2>7. CASE CanRecord /\ app' = LoadState(w, NoState, Junk)
    <3>1. Moves(w, app', 1)
      BY <1>1, <1>2, <2>4, <2>7, LoadStateMoves
    <3>2. Moves(app, app', 2)
      BY <1>1, <2>4, <3>1 DEF Moves
    <3> QED BY <2>7, <3>2, TypeKept
  <2> QED BY <2>3, <2>5, <2>6, <2>7
<1>7. ASSUME NEW state \in States, LoadStateFile(state)
      PROVE  TypeInv'
  <2>1. CanRecord /\ app' = LoadState(app, state, state)
    BY <1>7 DEF LoadStateFile
  <2>2. Moves(app, app', 1)
    BY <1>1, <1>2, <2>1, LoadStateMoves
  <2>3. Moves(app, app', 2)
    BY <1>1, <2>2, MovesMore
  <2> QED BY <2>1, <2>3, TypeKept
<1> QED BY <1>4, <1>5, <1>6, <1>7 DEF Open

LEMMA NextMoves ==
  ASSUME TypeInv, Next
  PROVE  TypeInv'
<1>1. /\ Members(app) /\ app.opened \in Nat /\ app.recordMode \in BOOLEAN
      /\ MaxMovies \in Nat /\ Extra \in Nat
      /\ CanRecord => app.opened < MaxMovies
  BY BoundsAre DEF TypeInv
<1>2. app \in Window
  BY <1>1 DEF Members
<1>3. CASE Open
  BY <1>3, OpenMoves
<1>4. CASE RecordPicked
  <2> DEFINE w == RecordMovie(app, Picked)
  <2>1. CanRecord /\ app' = UpdateScenario(w)
    BY <1>4 DEF RecordPicked
  <2>2. Picked \in Paths /\ Picked \notin Episodes
    BY FilesAssumption DEF Paths
  <2>3. Moves(app, w, 1)
    BY <1>1, <2>2, RecordedMoves
  <2> HIDE DEF w
  <2>4. Members(w) /\ Room(w) /\ At(w, 1) \in {0, 1}
    BY <1>1, <2>1, <2>3 DEF Moves, Room, At
  <2>5. Moves(w, app', At(w, 1))
    BY <2>1, <2>4, UpdateScenarioMoves
  <2>6. Moves(app, app', 1 + At(w, 1))
    BY <1>1, <2>3, <2>4, <2>5, MovesOn
  <2>7. Moves(app, app', 2)
    BY <1>1, <2>4, <2>6, MovesMore
  <2> QED BY <2>1, <2>7, TypeKept
<1>5. CASE ToggleRecording
  <2> DEFINE toggled == [app EXCEPT !.recordMode = ~@]
  <2>1. app' = toggled \/ (CanRecord /\ app' = StartEpisode(toggled))
    BY <1>5 DEF ToggleRecording
  <2>2. /\ toggled \in Window /\ toggled.movie = app.movie
        /\ toggled.recording = app.recording /\ toggled.files = app.files
        /\ toggled.opened = app.opened
    <3> DEFINE mode == ~app.recordMode
    <3>1. toggled = [app EXCEPT !.recordMode = mode]
      BY <1>2 DEF Window
    <3>2. mode \in BOOLEAN
      OBVIOUS
    <3> HIDE DEF toggled, mode
    <3> QED BY <1>2, <3>1, <3>2 DEF Window
  <2> HIDE DEF toggled
  <2>3. Members(toggled)
    BY <1>1, <2>2, EditMoves
  <2>4. CASE app' = toggled
    BY <2>2, <2>3, <2>4 DEF TypeInv
  <2>5. CASE CanRecord /\ app' = StartEpisode(toggled)
    <3>1. toggled.opened <= MaxMovies + Extra
      BY <1>1, <2>2, <2>5
    <3>2. Moves(toggled, app', 1)
      BY <2>3, <2>5, <3>1, StartEpisodeMoves
    <3> QED BY <1>1, <2>2, <2>5, <3>2 DEF Moves, TypeInv
  <2> QED BY <2>1, <2>4, <2>5
<1>6. CASE StopTheMovie
  BY <1>1, <1>6, StopMovieMoves, TypeKept DEF StopTheMovie
<1>7. CASE ResetGame
  <2> DEFINE w == Start(app)
  <2>1. CanRecord /\ (app' = w \/ app' = StartEpisode(w))
    BY <1>7 DEF ResetGame
  <2>2. Moves(app, w, 0)
    BY <1>1, StartMoves
  <2> HIDE DEF w
  <2>3. Members(w) /\ w.opened = app.opened /\ w.opened <= MaxMovies + Extra
    BY <1>1, <2>1, <2>2 DEF Moves
  <2>4. app' = StartEpisode(w) => Moves(w, app', 1)
    BY <2>3, StartEpisodeMoves
  <2>5. Moves(app, app', 2)
    BY <1>1, <2>1, <2>2, <2>3, <2>4 DEF Moves
  <2> QED BY <2>1, <2>5, TypeKept
<1>8. CASE HardReset
  <2> DEFINE asked == [app EXCEPT !.initial = NoState]
  <2>1. app' = Start(asked)
    BY <1>8 DEF HardReset
  <2>2. Aside(app, asked)
    BY <1>2 DEF Window, Aside
  <2> HIDE DEF asked
  <2>3. Moves(app, asked, 0)
    BY <1>1, <2>2, AsideMoves
  <2>4. Moves(asked, app', 0)
    BY <2>1, <2>3, StartMoves DEF Moves
  <2>5. Moves(app, app', 0)
    BY <1>1, <2>3, <2>4 DEF Moves
  <2> QED BY <2>5, TypeKept
<1>9. CASE ResetTheScenario
  <2>1. CanRecord /\ app' = UpdateScenario(app)
    BY <1>9 DEF ResetTheScenario
  <2>2. Room(app) /\ At(app, 1) \in {0, 1}
    BY <1>1, <2>1 DEF Room, At
  <2>3. Moves(app, app', At(app, 1))
    BY <1>1, <2>1, <2>2, UpdateScenarioMoves
  <2>4. Moves(app, app', 2)
    BY <1>1, <2>2, <2>3, MovesMore
  <2> QED BY <2>1, <2>4, TypeKept
<1>10. CASE TogglePause \/ ClickScreen \/ ClickElsewhere
  <2>1. PICK away \in BOOLEAN : app' = SetPaused(app, away) \/ app' = SetFocus(app, away)
    BY <1>10, PausesIs
  <2>2. Aside(app, app')
    BY <1>2, <2>1, SetPausedMoves, SetFocusMoves
  <2> QED BY <1>1, <2>2, AsideMoves, TypeKept
<1>11. CASE ToggleFastForward
  <2> DEFINE ff == ~app.ff
  <2>1. app' = [app EXCEPT !.ff = ff]
    BY <1>2, <1>11 DEF ToggleFastForward, Window
  <2>2. ff \in BOOLEAN
    OBVIOUS
  <2> HIDE DEF ff
  <2>3. Aside(app, app')
    BY <1>2, <2>1, <2>2 DEF Window, Aside
  <2> QED BY <1>1, <2>3, AsideMoves, TypeKept
<1>12. CASE PressKey
  <2>1. PICK pad \in Bound \X Buttons : app' = Hold(app, SymDiff(Mask(app), {pad}))
    BY <1>12 DEF PressKey
  <2>2. SymDiff(Mask(app), {pad}) \in SUBSET (Players \X Buttons)
    BY <1>1, MaskOf, ControllerAssumption DEF SymDiff
  <2>3. Moves(app, app', 0)
    BY <1>1, <2>1, <2>2, HoldMoves
  <2> QED BY <2>3, TypeKept
<1>13. CASE Step
  <2> DEFINE w == [app EXCEPT !.paused = TRUE, !.timer = FALSE]
  <2>1. MayRecord /\ app' = RunOnce(w)
    BY <1>13 DEF Step, CanRun
  <2>2. Aside(app, w)
    BY <1>2, ZenonT(30) DEF Window, Aside
  <2> HIDE DEF w
  <2>3. Moves(app, w, 0)
    BY <1>1, <2>2, AsideMoves
  <2>4. Members(w) /\ w.opened = app.opened /\ w.recordMode = app.recordMode
    BY <1>1, <2>3 DEF Moves
  <2>5. w.recordMode => w.opened < MaxMovies
    BY <1>1, <2>1, <2>4 DEF MayRecord
  <2>6. Moves(w, app', At(w, Extra + 1))
    BY <2>1, <2>4, <2>5, RunOnceMoves
  <2>7. Moves(app, app', At(app, Extra + 1))
    BY <2>4, <2>6 DEF Moves, At
  <2> QED BY <2>1, <2>7, TypeKept
<1>14. CASE Tick
  <2>1. MayRecord /\ app' = RunOnce(app)
    BY <1>14 DEF Tick, CanTick, CanRun
  <2>2. app.recordMode => app.opened < MaxMovies
    BY <1>1, <2>1 DEF MayRecord
  <2>3. Moves(app, app', At(app, Extra + 1))
    BY <1>1, <2>1, <2>2, RunOnceMoves
  <2> QED BY <2>1, <2>3, TypeKept
<1> QED BY <1>3, <1>4, <1>5, <1>6, <1>7, <1>8, <1>9, <1>10, <1>11, <1>12, <1>13, <1>14
        DEF Next

LEMMA TypeStarts ==
  ASSUME Init
  PROVE  TypeInv
<1>1. app.host \in Hosts
  <2>1. Core!FreshEmulator \in Core!EmulatorState
    BY GenIs DEF Core!FreshEmulator, Core!EmulatorState
  <2>2. [loaded |-> NoEmulator, gen |-> 0, phase |-> "closed", misuse |-> {},
         em |-> [e \in {Re} |-> Core!FreshEmulator],
         spaces |-> [d \in {Ram} |-> {}]] \in Hosts
    BY <2>1, GenIs, CallsNamed DEF Hosts
  <2> QED BY <2>2 DEF Init
<1>2. app.disk \in [Paths -> File]
  <2>1. Absent \in File
    <3>1. <<>> \in Seq(Keys) /\ <<>> \in Seq(Console)
      OBVIOUS
    <3> QED BY <3>1 DEF Absent, File
  <2>2. \A p \in DOMAIN Seeds : Seeds[p].file \in File
    BY FilesAssumption
  <2> DEFINE disk == [p \in Paths |-> IF p \in DOMAIN Seeds THEN Seeds[p].file ELSE Absent]
  <2>3. disk \in [Paths -> File]
    BY <2>1, <2>2
  <2>4. app.disk = disk
    BY DEF Init
  <2> QED BY <2>3, <2>4
<1>3. app.titles \in [Paths -> Games \cup {NoGame}]
  BY WindowStarts DEF WindowInv, Fine, Sound, Titled
<1>4. app.console = Nothing /\ app.clone = Nothing /\ app.last = Nothing
  BY DEF Init
<1>5. /\ app.running = FALSE /\ app.paused = FALSE /\ app.away = TRUE
      /\ app.timer = FALSE /\ app.ff = FALSE
      /\ app.movie = NoMovie /\ app.title = NoGame /\ app.recording = FALSE
      /\ app.initial = NoState /\ app.game = NoGame /\ app.name = NoName
      /\ app.recordMode = FALSE /\ app.files = DOMAIN Seeds /\ app.opened = 0
      /\ app.tape = <<>> /\ app.shown = <<>>
  BY DEF Init
<1>6. app.files \in SUBSET Paths /\ <<>> \in Seq(Console) /\ Nothing \in Console
  BY <1>5, NothingTyped DEF Paths
<1>7. app \in Window
  <2> DEFINE host == app.host
             disk == app.disk
             titles == app.titles
  <2>1. app = [host |-> host, console |-> Nothing, clone |-> Nothing, last |-> Nothing,
         running |-> FALSE, paused |-> FALSE, away |-> TRUE, timer |-> FALSE, ff |-> FALSE,
         movie |-> NoMovie, title |-> NoGame, recording |-> FALSE,
         initial |-> NoState, game |-> NoGame, name |-> NoName,
         recordMode |-> FALSE, disk |-> disk, titles |-> titles,
         files |-> DOMAIN Seeds, opened |-> 0, tape |-> <<>>, shown |-> <<>>]
    BY DEF Init
  <2> HIDE DEF host, disk, titles
  <2>2. host \in Hosts /\ disk \in [Paths -> File] /\ titles \in [Paths -> Games \cup {NoGame}]
    BY <1>1, <1>2, <1>3 DEF host, disk, titles
  <2> QED BY <1>5, <1>6, <2>1, <2>2 DEF Window
<1>8. Film(app) /\ Numbered(app)
  <2>1. Episodes \cap DOMAIN Seeds = {}
    BY FilesAssumption
  <2> QED BY <1>5, <2>1 DEF Film, Numbered, Given, Playing, Recording
<1>9. app.opened <= MaxMovies + Extra + 1
  BY <1>5, ControllerAssumption
<1> QED BY <1>7, <1>8, <1>9 DEF TypeInv, Members

\* The members of the window and of its controller keep their types, whatever
\* ROMs fail to load and whatever the library is asked in a phase that forbids
\* it: m_recording tells a writer from a reader, a line that is read is one of
\* the movie, and the names of the episodes stay in the bound on movies.
THEOREM WindowTyped == Spec => []TypeOK
<1>1. TypeInv /\ [Next]_app => TypeInv'
  <2>1. ASSUME TypeInv, Next PROVE TypeInv'
    BY <2>1, NextMoves
  <2>2. ASSUME TypeInv, UNCHANGED app PROVE TypeInv'
    BY <2>2 DEF TypeInv
  <2> QED BY <2>1, <2>2
<1>2. TypeInv => TypeOK
  <2> SUFFICES ASSUME TypeInv PROVE TypeOK
    OBVIOUS
  <2>1. app \in Window /\ Film(app)
    BY DEF TypeInv, Members
  <2>2. Core!Typed(app.host)
    BY <2>1, HostsAre DEF Window
  <2>3. app.opened \in 0 .. MaxMovies + Extra + 1
    BY <2>1, BoundsAre DEF TypeInv, Window
  <2>4. Played \subseteq Games
    BY ControllerAssumption DEF Played, Good
  <2>5. {app.title, app.game} \subseteq Games \cup {NoGame}
    BY <2>1, <2>4 DEF Window
  <2>6. /\ {app.console, app.clone, app.last} \subseteq Console
        /\ {app.running, app.paused, app.away, app.timer, app.ff, app.recording,
            app.recordMode} \subseteq BOOLEAN
        /\ app.initial \in States \cup {NoState} /\ app.name \in Names \cup {NoName}
        /\ app.disk \in [Paths -> File] /\ app.files \subseteq Paths
        /\ app.titles \in [Paths -> Games \cup {NoGame}]
        /\ {app.tape, app.shown} \subseteq Seq(Console)
    BY <2>1 DEF Window
  <2>7. app.movie \in IF app.recording THEN Writer ELSE Reader \cup {NoMovie}
    BY <2>1 DEF Film
  <2> QED BY <2>2, <2>3, <2>5, <2>6, <2>7 DEF TypeOK
<1> QED BY <1>1, <1>2, TypeStarts, PTL DEF Spec

-----------------------------------------------------------------------------
(***************************************************************************)
(* That a movie shows its recording.  A console is its ROM, the savestate  *)
(* it started from and its frames, so a file tells the truth about a ROM   *)
(* when its consoles are those of the savestate and the lines of the file; *)
(* and a movie is played on the first ROM of the game it names, or, when   *)
(* it names none, on the ROM that runs.                                    *)
(***************************************************************************)
Fits(rom, state) ==
  IF state # NoState /\ RomOf[state] = rom THEN state ELSE NoState

Shows(rom, state, log, k) ==
  [rom |-> rom, from |-> Fits(rom, state), frames |-> SubSeq(log, 1, k)]

Tells(rom, state, log, outs) ==
  /\ Len(outs) = Len(log)
  /\ \A k \in 1 .. Len(log) : outs[k] = Shows(rom, state, log, k)

PlayedOn(title) ==
  {rom \in Good : \/ title = NoGame
                  \/ RomsOf[title] # <<>> /\ RomsOf[title][1] = rom}

Told(file, title) ==
  file.core # NoState =>
    \A rom \in PlayedOn(title) : Tells(rom, file.core, file.log, file.outs)

\* Every file that can be played tells the truth.
Shelf(w) ==
  \A path \in Paths :
    /\ Told(w.disk[path], w.titles[path])
    /\ path \notin w.files => w.disk[path].core = NoState

\* So would the file of a writer, were it closed now, whatever became of the
\* console.
Sealed(w) ==
  Recording(w) =>
    /\ Told(Close(w.movie), w.title)
    /\ w.movie.log = <<>> => w.movie.outs = <<>>

\* A writer has written the frames of the console that runs.
Rolling(w) ==
  Recording(w) /\ w.running =>
    /\ w.movie.state = NoState => w.movie.base.core = NoState
    /\ w.title = w.game
    /\ Mask(w) \subseteq {First} \X Buttons
    /\ w.console = Shows(w.console.rom, w.movie.state, w.movie.log, Len(w.movie.log))
    /\ Tells(w.console.rom, w.movie.state, w.movie.log, w.movie.outs)

\* A reader has shown the frames up to its position.
Reel(w) ==
  Playing(w) =>
    /\ w.running
    /\ w.console = Shows(w.console.rom, w.movie.state, w.movie.log, w.movie.pos)
    /\ Tells(w.console.rom, w.movie.state, w.movie.log, w.tape)
    /\ w.shown = SubSeq(w.tape, 1, w.movie.pos)

RomPath(w) == w.host.em[Re].romPath

Stage(w) ==
  w.running =>
    /\ w.console.rom = RomPath(w) /\ RomPath(w) \in Good
    /\ w.game = GameOf[RomPath(w)]

Tape(w) == Shelf(w) /\ Sealed(w) /\ Rolling(w) /\ Reel(w) /\ Stage(w)

\* What Tape looks at.
Alike(w, x) ==
  /\ x.host = w.host /\ x.console = w.console /\ x.running = w.running
  /\ x.movie = w.movie /\ x.title = w.title /\ x.recording = w.recording
  /\ x.game = w.game /\ x.disk = w.disk /\ x.titles = w.titles
  /\ x.files = w.files /\ x.tape = w.tape /\ x.shown = w.shown

LEMMA AlikeTape ==
  ASSUME NEW w, NEW x, Alike(w, x), Tape(w)
  PROVE  Tape(x)
<1>1. (Recording(x) <=> Recording(w)) /\ (Playing(x) <=> Playing(w))
  BY DEF Alike, Recording, Playing
<1>2. Mask(x) = Mask(w) /\ RomPath(x) = RomPath(w)
  BY DEF Alike, Mask, RomPath
<1>3. Shelf(x) /\ Sealed(x)
  BY <1>1 DEF Tape, Alike, Shelf, Sealed
<1>4. Rolling(x) /\ Reel(x)
  BY <1>1, <1>2 DEF Tape, Alike, Rolling, Reel
<1>5. Stage(x)
  BY <1>2 DEF Tape, Alike, Stage
<1> QED BY <1>3, <1>4, <1>5 DEF Tape

\* Without a movie only the files and the game matter.
LEMMA IdleTape ==
  ASSUME NEW w, w.movie = NoMovie, Shelf(w), Stage(w)
  PROVE  Tape(w)
  BY DEF Tape, Sealed, Rolling, Reel, Recording, Playing
-----------------------------------------------------------------------------
\* What a slot leaves of the game that runs.
OnStage(w, x) ==
  /\ x.console = w.console /\ x.running = w.running /\ x.game = w.game
  /\ x.initial = w.initial /\ RomPath(x) = RomPath(w)

LEMMA HoldTape ==
  ASSUME NEW w, Members(w), NEW mask \in SUBSET (Players \X Buttons)
  PROVE  LET x == Hold(w, mask) IN
         /\ Mask(x) = mask /\ OnStage(w, x) /\ x.host = [w.host EXCEPT !.em[Re].mask = mask]
         /\ x.movie = w.movie /\ x.title = w.title /\ x.recording = w.recording
         /\ x.disk = w.disk /\ x.titles = w.titles /\ x.files = w.files
         /\ x.tape = w.tape /\ x.shown = w.shown
<1> DEFINE h == [w.host EXCEPT !.em[Re].mask = mask]
           x == Hold(w, mask)
<1>1. h.em[Re].mask = mask /\ h.em[Re].romPath = w.host.em[Re].romPath
  BY DEF Members, Window, Hosts, Core!EmulatorState
<1>2. x = [w EXCEPT !.host = h]
  BY DEF Hold, Members, Window
<1> HIDE DEF h
<1> QED BY <1>1, <1>2 DEF Members, Window, Mask, OnStage, RomPath, h

\* A writer that is closed leaves a file that tells the truth.
LEMMA AssignTape ==
  ASSUME NEW w, Members(w), NEW movie, Shelf(w), Sealed(w)
  PROVE  LET x == Assign(w, movie) IN
         /\ Shelf(x) /\ OnStage(w, x) /\ Mask(x) = Mask(w) /\ x.host = w.host
         /\ x.movie = movie /\ x.recording = w.recording
         /\ x.tape = <<>> /\ x.shown = <<>>
<1> DEFINE next == [w EXCEPT !.movie = movie, !.tape = <<>>, !.shown = <<>>]
           path == w.movie.path
           file == Close(w.movie)
           title == IF w.movie.log = <<>> THEN w.titles[path] ELSE w.title
           x == Assign(w, movie)
<1>1. /\ DOMAIN next = DOMAIN w /\ OnStage(w, next) /\ Mask(next) = Mask(w)
      /\ next.host = w.host /\ next.movie = movie /\ next.recording = w.recording
      /\ next.tape = <<>> /\ next.shown = <<>> /\ next.disk = w.disk
      /\ next.titles = w.titles /\ next.files = w.files
  BY DEF Members, Window, OnStage, Mask, RomPath
<1>2. CASE ~Recording(w)
  <2>1. x = next
    BY <1>2 DEF Assign
  <2> HIDE DEF x, next
  <2>2. Shelf(x)
    BY <1>1, <2>1 DEF Shelf
  <2> QED BY <1>1, <2>1, <2>2 DEF x
<1>3. CASE Recording(w)
  <2>1. x = [next EXCEPT
               !.disk = [next.disk EXCEPT ![path] = file],
               !.files = next.files \cup {path},
               !.titles = [next.titles EXCEPT ![path] = title],
               !.title = NoGame]
    <3>1. x = [next EXCEPT
                 !.disk[path] = file, !.files = @ \cup {path},
                 !.titles[path] = IF w.movie.log = <<>> THEN @ ELSE w.title,
                 !.title = NoGame]
      BY <1>3 DEF Assign
    <3>2. DOMAIN next = DOMAIN w
      BY <1>1
    <3> HIDE DEF x, next, file, path
    <3> QED BY <1>1, <3>1, <3>2 DEF Members, Window
  <2> HIDE DEF x, next
  <2>2. /\ x.disk = [w.disk EXCEPT ![path] = file] /\ x.files = w.files \cup {path}
        /\ x.titles = [w.titles EXCEPT ![path] = title]
        /\ OnStage(w, x) /\ Mask(x) = Mask(w) /\ x.host = w.host
        /\ x.movie = movie /\ x.recording = w.recording
        /\ x.tape = <<>> /\ x.shown = <<>>
    <3> HIDE DEF path, file, title
    <3> QED BY <1>1, <2>1 DEF Members, Window, OnStage, Mask, RomPath
  <2>3. Told(file, title)
    <3>1. CASE w.movie.log = <<>>
      <4>1. file.log = <<>> /\ file.outs = <<>>
        BY <1>3, <3>1 DEF Sealed, Close
      <4>2. ASSUME NEW rom PROVE Tells(rom, file.core, file.log, file.outs)
        BY <4>1 DEF Tells
      <4> QED BY <4>2 DEF Told
    <3>2. CASE w.movie.log # <<>>
      BY <1>3, <3>2 DEF Sealed
    <3> QED BY <3>1, <3>2
  <2>4. Shelf(x)
    <3> HIDE DEF path, file, title
    <3> QED BY <2>2, <2>3 DEF Members, Window, Shelf
  <2> QED BY <2>2, <2>4 DEF x
<1> QED BY <1>2, <1>3

LEMMA StopMovieTape ==
  ASSUME NEW w, Members(w), Shelf(w), Sealed(w)
  PROVE  LET x == StopMovie(w) IN
         /\ Shelf(x) /\ OnStage(w, x) /\ x.movie = NoMovie
         /\ Mask(x) = {k \in Mask(w) : k[1] # First}
         /\ Stage(w) => Tape(x)
<1> DEFINE y == Assign(w, NoMovie)
           z == [y EXCEPT !.recording = FALSE]
           mask == {k \in Mask(w) : k[1] # First}
           x == StopMovie(w)
<1>1. /\ y \in Window /\ y.movie = NoMovie /\ \A path \in y.files : Given(path, y)
      /\ Shelf(y) /\ OnStage(w, y)
  BY AssignMoves, AssignTape
<1>2. x = Hold(z, mask)
  BY DEF StopMovie
<1> HIDE DEF y, x
<1>3. /\ z \in Window /\ z.movie = NoMovie /\ z.recording = FALSE /\ z.files = y.files
      /\ z.disk = y.disk /\ z.titles = y.titles /\ OnStage(y, z) /\ z.opened = y.opened
  BY <1>1 DEF Window, OnStage, RomPath
<1> HIDE DEF z
<1>4. Shelf(z)
  BY <1>1, <1>3 DEF Shelf
<1>5. Members(z)
  BY <1>1, <1>3 DEF Members, Film, Numbered, Given, Recording, Playing
<1>6. mask \in SUBSET (Players \X Buttons)
  BY MaskOf
<1> HIDE DEF mask
<1>7. /\ Mask(x) = mask /\ OnStage(z, x) /\ x.movie = NoMovie
      /\ x.disk = z.disk /\ x.titles = z.titles /\ x.files = z.files
  BY <1>2, <1>3, <1>5, <1>6, HoldTape
<1>8. Shelf(x)
  BY <1>4, <1>7 DEF Shelf
<1>9. OnStage(w, x)
  BY <1>1, <1>3, <1>7 DEF OnStage
<1>10. Stage(w) => Tape(x)
  BY <1>7, <1>8, <1>9, IdleTape DEF Stage, OnStage
<1> QED BY <1>7, <1>8, <1>9, <1>10 DEF mask, x

\* The game starts anew from the initial state, with no key held.
Anew(w, x) ==
  /\ x.movie = NoMovie /\ x.running = TRUE /\ RomPath(x) = RomPath(w)
  /\ Mask(x) = {} /\ x.initial = w.initial /\ x.game = w.game
  /\ x.console = [rom |-> RomPath(w), from |-> Fits(RomPath(w), w.initial),
                  frames |-> <<>>]

LEMMA StartTape ==
  ASSUME NEW w, Members(w), Ready(w), Shelf(w), Sealed(w)
  PROVE  Shelf(Start(w)) /\ Anew(w, Start(w))
<1> DEFINE host == Core!Reset(w.host, Re, "loaded")
           reset == [w EXCEPT !.host = host]
           idle == StopMovie(reset)
           loaded == Unserialize(idle)
           twice == UpdateRam(UpdateRam(loaded))
           on == [twice EXCEPT !.running = TRUE, !.paused = @ /\ ~w.away, !.away = FALSE]
           x == Schedule(on)
<1>1. x = Start(w)
  BY DEF Start, Members, Window
<1>2. Holds(host) /\ host = [w.host EXCEPT !.em[Re].mask = {}]
  BY ResetIs DEF Ready
<1>3. host.em[Re].mask = {} /\ host.em[Re].romPath = w.host.em[Re].romPath
  <2> HIDE DEF host
  <2> QED BY <1>2 DEF Members, Window, Hosts, Core!EmulatorState
<1>4. host \in Hosts
  BY HostsAre, ResetTyped DEF Members, Window
<1> HIDE DEF host
<1>5. /\ Aside(w, reset) /\ reset.host = host /\ reset.initial = w.initial
      /\ reset.game = w.game /\ reset.disk = w.disk /\ reset.titles = w.titles
      /\ reset.title = w.title
  BY <1>4 DEF Members, Window, Aside
<1>6. Shaped(reset)
  BY DEF Ready, Shaped, Fields
<1> HIDE DEF reset
<1>7. Members(reset)
  BY <1>5, AsideMoves DEF Moves
<1>8. Shelf(reset) /\ Sealed(reset) /\ Mask(reset) = {} /\ RomPath(reset) = RomPath(w)
  <2>1. Recording(reset) <=> Recording(w)
    BY <1>5 DEF Aside, Recording
  <2> QED BY <1>3, <1>5, <2>1 DEF Aside, Shelf, Sealed, Mask, RomPath
<1>9. /\ Shelf(idle) /\ OnStage(reset, idle) /\ idle.movie = NoMovie
      /\ Mask(idle) = {} /\ idle \in Window
  <2>1. Members(idle)
    BY <1>7, StopMovieMoves DEF Moves
  <2> QED BY <1>7, <1>8, <2>1, StopMovieTape DEF Members
<1>10. Stays(reset, idle)
  BY <1>2, <1>5, <1>6, StopMovieStays DEF Holds
<1> HIDE DEF idle
<1>11. Holds(idle.host)
  BY <1>2, <1>5, <1>10 DEF Stays, Holds
<1>12. Core!Unserialize(idle.host, Re, "loaded") = idle.host
  BY <1>11, UnserializeIs
<1> DEFINE console == [rom |-> RomPath(idle), frames |-> <<>>,
                       from |-> Fits(RomPath(idle), idle.initial)]
<1>13. loaded = [idle EXCEPT !.host = idle.host, !.console = console]
  <2>1. loaded = [idle EXCEPT !.host = Core!Unserialize(@, Re, "loaded"),
                              !.console = console]
    BY DEF Unserialize, RomPath, Fits
  <2>2. DOMAIN idle = DOMAIN w
    BY <1>9 DEF Members, Window
  <2> HIDE DEF loaded, console
  <2> QED BY <1>9, <1>12, <2>1 DEF Window
<1> HIDE DEF loaded, console
<1>14. /\ loaded.host = idle.host /\ loaded.console = console
       /\ loaded.movie = idle.movie /\ loaded.disk = idle.disk
       /\ loaded.titles = idle.titles /\ loaded.files = idle.files
       /\ loaded.initial = idle.initial /\ loaded.game = idle.game
       /\ DOMAIN loaded = Fields
  BY <1>9, <1>13 DEF Window, Fields
<1>15. /\ twice.host = loaded.host /\ twice.console = loaded.console
       /\ twice.movie = loaded.movie /\ twice.disk = loaded.disk
       /\ twice.titles = loaded.titles /\ twice.files = loaded.files
       /\ twice.initial = loaded.initial /\ twice.game = loaded.game
       /\ DOMAIN twice = Fields
  BY <1>14 DEF UpdateRam, Fields
<1> HIDE DEF twice
<1>16. /\ on.host = twice.host /\ on.console = twice.console /\ on.running = TRUE
       /\ on.movie = twice.movie /\ on.disk = twice.disk
       /\ on.titles = twice.titles /\ on.files = twice.files
       /\ on.initial = twice.initial /\ on.game = twice.game
       /\ DOMAIN on = Fields
  BY <1>15 DEF Fields
<1> HIDE DEF on
<1>17. /\ x.host = on.host /\ x.console = on.console /\ x.running = TRUE
       /\ x.movie = on.movie /\ x.disk = on.disk
       /\ x.titles = on.titles /\ x.files = on.files
       /\ x.initial = on.initial /\ x.game = on.game
  BY <1>16 DEF Schedule, Fields
<1> HIDE DEF x
<1>18. /\ x.host = idle.host /\ x.console = console /\ x.movie = NoMovie
       /\ x.disk = idle.disk /\ x.titles = idle.titles /\ x.files = idle.files
       /\ x.initial = idle.initial /\ x.game = idle.game
  BY <1>9, <1>14, <1>15, <1>16, <1>17
<1>19. Shelf(x)
  BY <1>9, <1>18 DEF Shelf
<1>20. /\ Mask(x) = {} /\ RomPath(x) = RomPath(idle) /\ RomPath(idle) = RomPath(w)
       /\ idle.initial = w.initial /\ idle.game = w.game
  BY <1>5, <1>8, <1>9, <1>18 DEF OnStage, Mask, RomPath
<1>21. Anew(w, x)
  BY <1>17, <1>18, <1>20 DEF Anew, console
<1> QED BY <1>1, <1>19, <1>21

LEMMA AnewTape ==
  ASSUME NEW w, NEW x, Shelf(x), Anew(w, x), RomPath(w) \in Good,
         w.game = GameOf[RomPath(w)]
  PROVE  Tape(x)
<1>1. Stage(x)
  BY DEF Stage, Anew
<1> QED BY <1>1, IdleTape DEF Anew

-----------------------------------------------------------------------------
\* A movie is recorded from the frame on that is the first of its savestate.
LEMMA RecordTape ==
  ASSUME NEW w, Members(w), Runs(w), Tape(w), NEW path \in Paths,
         w.initial # NoState \/ w.disk[path].core = NoState
  PROVE  Tape(RecordMovie(w, path))
<1> DEFINE begun == IF w.running THEN Start(w) ELSE w
           movie == SetState(OpenWrite(path, w.disk[path]), begun.initial)
           y == Assign(begun, movie)
           x == [y EXCEPT !.title = begun.game, !.recording = TRUE, !.opened = @ + 1]
<1>1. RecordMovie(w, path) = x
  BY DEF RecordMovie, Recorded
<1>2. /\ Members(begun) /\ Shelf(begun) /\ Sealed(begun) /\ Stage(begun)
      /\ begun.initial = w.initial
      /\ begun.running => Anew(w, begun)
  <2>1. CASE ~w.running
    BY <2>1 DEF Tape
  <2>2. CASE w.running
    <3>1. Ready(w) /\ Shelf(w) /\ Sealed(w) /\ Stage(w)
      BY <2>2 DEF Ready, Holds, Runs, Tape
    <3>2. Shelf(Start(w)) /\ Anew(w, Start(w)) /\ Members(Start(w))
      BY <3>1, StartTape, StartMoves DEF Moves
    <3>3. Tape(Start(w))
      BY <2>2, <3>1, <3>2, AnewTape DEF Stage
    <3>4. begun = Start(w)
      BY <2>2
    <3> HIDE DEF begun
    <3> QED BY <3>2, <3>3, <3>4 DEF Tape, Anew
  <2> QED BY <2>1, <2>2
<1> HIDE DEF begun
<1>3. movie = [path |-> path, base |-> w.disk[path], log |-> <<>>, keys |-> NoKeys,
               state |-> begun.initial, outs |-> <<>>]
  BY DEF SetState, OpenWrite
<1> HIDE DEF movie
<1>4. /\ Shelf(y) /\ OnStage(begun, y) /\ Mask(y) = Mask(begun) /\ y.movie = movie
      /\ y.host = begun.host
  BY <1>2, AssignTape
<1>5. DOMAIN y = Fields
  <2>1. Shaped(begun)
    BY <1>2 DEF Members, Window, Shaped, Fields
  <2> DEFINE next == [begun EXCEPT !.movie = movie, !.tape = <<>>, !.shown = <<>>]
  <2>2. DOMAIN next = Fields
    BY <2>1 DEF Shaped
  <2> HIDE DEF next
  <2>3. \/ y = next
        \/ \E d, f, t, n : y = [next EXCEPT !.disk = d, !.files = f, !.titles = t, !.title = n]
    <3>1. CASE ~Recording(begun)
      BY <3>1 DEF Assign, next
    <3>2. CASE Recording(begun)
      <4>1. y = [next EXCEPT
                   !.disk[begun.movie.path] = Close(begun.movie),
                   !.files = @ \cup {begun.movie.path},
                   !.titles[begun.movie.path] =
                      IF begun.movie.log = <<>> THEN @ ELSE begun.title,
                   !.title = NoGame]
        BY <3>2 DEF Assign, next
      <4> HIDE DEF y
      <4> QED BY <2>2, <4>1 DEF Fields
    <3> QED BY <3>1, <3>2
  <2> HIDE DEF y
  <2> QED BY <2>2, <2>3
<1> HIDE DEF y
<1>6. /\ x.movie = movie /\ x.title = begun.game /\ x.recording = TRUE
      /\ x.disk = y.disk /\ x.titles = y.titles /\ x.files = y.files
      /\ OnStage(y, x) /\ Mask(x) = Mask(y)
  BY <1>4, <1>5 DEF Fields, OnStage, Mask, RomPath
<1> HIDE DEF x
<1>7. OnStage(begun, x) /\ Mask(x) = Mask(begun)
  BY <1>4, <1>6 DEF OnStage
<1>8. Shelf(x)
  BY <1>4, <1>6 DEF Shelf
<1>9. x.movie.log = <<>> /\ x.movie.outs = <<>> /\ x.movie.state = w.initial
      /\ x.movie.base = w.disk[path]
  BY <1>2, <1>3, <1>6
<1>10. \A rom, state : Tells(rom, state, <<>>, <<>>)
  BY DEF Tells
<1>11. Sealed(x)
  <2>1. Close(x.movie).log = <<>> /\ Close(x.movie).outs = <<>>
    BY <1>9 DEF Close
  <2> QED BY <1>9, <1>10, <2>1 DEF Sealed, Told
<1>12. Rolling(x)
  <2> SUFFICES ASSUME x.running PROVE Rolling(x)
    BY DEF Rolling
  <2>1. Anew(w, begun)
    BY <1>2, <1>7 DEF OnStage
  <2>2. SubSeq(<<>>, 1, 0) = <<>> /\ Len(<<>>) = 0
    OBVIOUS
  <2>3. x.console = Shows(x.console.rom, x.movie.state, x.movie.log, Len(x.movie.log))
    BY <1>7, <1>9, <2>1, <2>2 DEF Anew, OnStage, Shows
  <2>4. x.title = x.game /\ Mask(x) = {}
    BY <1>6, <1>7, <2>1 DEF Anew, OnStage
  <2> QED BY <1>9, <1>10, <2>3, <2>4 DEF Rolling
<1>13. Reel(x)
  BY <1>6 DEF Reel, Playing
<1>14. Stage(x)
  BY <1>2, <1>7 DEF Stage, OnStage
<1> QED BY <1>1, <1>8, <1>11, <1>12, <1>13, <1>14 DEF Tape

LEMMA StopKeeps ==
  ASSUME NEW w, Members(w), Runs(w), Tape(w)
  PROVE  /\ Members(StopMovie(w)) /\ Runs(StopMovie(w)) /\ Tape(StopMovie(w))
         /\ OnStage(w, StopMovie(w)) /\ StopMovie(w).movie = NoMovie
         /\ StopMovie(w).opened = w.opened
<1>1. /\ Moves(w, StopMovie(w), 0) /\ w.opened \in Nat
  BY StopMovieMoves, OpenedIs
<1>2. Runs(StopMovie(w))
  BY StopMovieStays, StaysGoes DEF Runs, Goes
<1>3. /\ Tape(StopMovie(w)) /\ OnStage(w, StopMovie(w)) /\ StopMovie(w).movie = NoMovie
  BY StopMovieTape DEF Tape
<1> QED BY <1>1, <1>2, <1>3 DEF Moves

\* No older movie is under the name of an episode.
LEMMA StartEpisodeTape ==
  ASSUME NEW w, Members(w), Runs(w), Fine(w), Tape(w), w.opened <= MaxMovies + Extra
  PROVE  Tape(StartEpisode(w))
<1> DEFINE idle == StopMovie(w)
           path == NextPath(w)
<1>1. CASE ~CanStartEpisode(w)
  BY <1>1 DEF StartEpisode
<1>2. CASE CanStartEpisode(w)
  <2>1. StartEpisode(w) = RecordMovie(idle, path) /\ NextName(path, idle.files)
    BY <1>2, EpisodeIs, NextPathIs
  <2>2. path \in Episodes
    BY <1>2, NextPathMoves
  <2>3. Members(idle) /\ Runs(idle) /\ Tape(idle)
    BY StopKeeps
  <2> HIDE DEF idle, path
  <2>4. path \in Paths /\ path \notin idle.files
    BY <2>1, <2>2 DEF NextName, Paths
  <2>5. idle.disk[path].core = NoState
    BY <2>3, <2>4 DEF Tape, Shelf
  <2> QED BY <2>1, <2>3, <2>4, <2>5, RecordTape
<1> QED BY <1>1, <1>2

LEMMA UpdateScenarioTape ==
  ASSUME NEW w, Members(w), Runs(w), Fine(w), Tape(w), Room(w)
  PROVE  Tape(UpdateScenario(w))
<1>1. CASE w.running /\ w.recordMode /\ Done(w)
  BY <1>1, StartEpisodeTape DEF UpdateScenario, Room
<1>2. CASE ~ (w.running /\ w.recordMode /\ Done(w))
  BY <1>2 DEF UpdateScenario
<1> QED BY <1>1, <1>2

-----------------------------------------------------------------------------
\* A game is recorded on the ROM it is played on.
OneRom ==
  \A rom \in Good : RomsOf[GameOf[rom]] # <<>> => RomsOf[GameOf[rom]][1] = rom

LEMMA TellsMore ==
  ASSUME NEW rom, NEW state, NEW log \in Seq(Keys), NEW outs \in Seq(Console),
         NEW line \in Keys, NEW console \in Console,
         console = Shows(rom, state, Append(log, line), Len(log) + 1),
         Tells(rom, state, log, outs)
  PROVE  Tells(rom, state, Append(log, line), Append(outs, console))
<1> DEFINE more == Append(log, line)
           seen == Append(outs, console)
<1>1. /\ Len(more) = Len(log) + 1 /\ Len(log) \in Nat
      /\ \A k \in 1 .. Len(log) : SubSeq(more, 1, k) = SubSeq(log, 1, k)
  BY AppendParts, PrefixOfAppend
<1>2. /\ Len(seen) = Len(outs) + 1 /\ seen[Len(outs) + 1] = console
      /\ \A k \in 1 .. Len(outs) : seen[k] = outs[k]
  <2> HIDE DEF Console
  <2> QED BY AppendParts
<1>3. Len(outs) = Len(log) /\ console = Shows(rom, state, more, Len(log) + 1)
  BY DEF Tells
<1> HIDE DEF more, seen
<1>4. ASSUME NEW k \in 1 .. Len(more) PROVE seen[k] = Shows(rom, state, more, k)
  <2>1. CASE k = Len(log) + 1
    BY <1>2, <1>3, <2>1
  <2>2. CASE k # Len(log) + 1
    <3>1. k \in 1 .. Len(log)
      BY <1>1, <2>2
    <3>2. outs[k] = Shows(rom, state, log, k)
      BY <3>1 DEF Tells
    <3> QED BY <1>1, <1>2, <1>3, <3>1, <3>2 DEF Shows
  <2> QED BY <2>1, <2>2
<1>5. Tells(rom, state, more, seen)
  BY <1>1, <1>2, <1>3, <1>4 DEF Tells
<1> QED BY <1>5 DEF more, seen

LEMMA ConsoleGrows ==
  ASSUME NEW c \in Console, NEW frames
  PROVE  [c EXCEPT !.frames = frames] = [rom |-> c.rom, from |-> c.from, frames |-> frames]
  BY DEF Console

\* The console after a frame, before it is seen.
LEMMA RanTape ==
  ASSUME NEW w, Members(w), Runs(w), w.running
  PROVE  LET fed == Feed(w)
             x == UpdateRam(Ran(w)) IN
         /\ Members(fed) /\ Members(x)
         /\ Mask(x) = Mask(fed) /\ RomPath(x) = RomPath(fed)
         /\ x.console = [rom |-> fed.console.rom, from |-> fed.console.from,
                         frames |-> Append(fed.console.frames, Held(fed))]
         /\ x.running = fed.running /\ x.game = fed.game
         /\ x.movie = fed.movie /\ x.title = fed.title /\ x.recording = fed.recording
         /\ x.disk = fed.disk /\ x.titles = fed.titles /\ x.files = fed.files
         /\ x.tape = fed.tape /\ x.shown = fed.shown
<1> DEFINE fed == Feed(w)
           pads == Held(fed)
           host == Core!Run(fed.host, Re, fed.host.gen)
           console == [rom |-> fed.console.rom, from |-> fed.console.from,
                       frames |-> Append(fed.console.frames, pads)]
           ran == [fed EXCEPT !.host = host, !.console = console]
           x == UpdateRam(ran)
<1>1. Moves(w, fed, 0) /\ Stays(w, fed)
  BY FeedMoves, FeedStays DEF Runs
<1>2. Members(fed) /\ fed \in Window /\ Holds(fed.host)
  BY <1>1 DEF Moves, Members, Stays, Holds, Runs
<1>3. pads \in Keys
  BY <1>2, MaskOf
<1>4. Ran(w) = ran
  <2>1. [fed EXCEPT !.host = Core!Run(@, Re, @.gen), !.console.frames = Append(@, pads)] = ran
    <3>1. fed.console \in Console
      BY <1>2 DEF Window
    <3> HIDE DEF fed, pads
    <3>2. [fed.console EXCEPT !.frames = Append(fed.console.frames, pads)] = console
      BY <3>1, ConsoleGrows
    <3> HIDE DEF console
    <3> QED BY <1>2, <3>2 DEF Window
  <2> QED BY <2>1 DEF Ran
<1>5. /\ host \in Hosts /\ host.em[Re].romPath = fed.host.em[Re].romPath
      /\ host.em[Re].mask = fed.host.em[Re].mask
  BY <1>2, HostsAre, RunTyped, RunIs DEF Window
<1> HIDE DEF fed, pads, host
<1>6. console \in Console
  <2>1. fed.console \in Console
    BY <1>2 DEF Window
  <2>2. Append(fed.console.frames, pads) \in Seq(Keys)
    BY <1>3, <2>1 DEF Console
  <2> QED BY <2>1, <2>2 DEF Console
<1> HIDE DEF console
<1>7. /\ Aside(fed, ran) /\ ran.host = host /\ ran.console = console
      /\ ran.running = fed.running /\ ran.game = fed.game /\ ran.title = fed.title
      /\ ran.disk = fed.disk /\ ran.titles = fed.titles /\ ran.tape = fed.tape
      /\ ran.shown = fed.shown
  BY <1>2, <1>5, <1>6 DEF Window, Aside
<1> HIDE DEF ran
<1>8. /\ Aside(ran, x) /\ x.host = ran.host /\ x.console = ran.console
      /\ x.running = ran.running /\ x.game = ran.game /\ x.title = ran.title
      /\ x.disk = ran.disk /\ x.titles = ran.titles /\ x.tape = ran.tape
      /\ x.shown = ran.shown
  BY <1>7 DEF UpdateRam, Window, Aside
<1> HIDE DEF x
<1>9. Aside(fed, x)
  BY <1>7, <1>8 DEF Aside
<1>10. Members(x)
  BY <1>2, <1>9, AsideMoves DEF Moves
<1>11. Mask(x) = Mask(fed) /\ RomPath(x) = RomPath(fed)
  BY <1>5, <1>7, <1>8 DEF Mask, RomPath
<1>12. x = UpdateRam(Ran(w))
  BY <1>4 DEF x
<1> QED BY <1>2, <1>7, <1>8, <1>9, <1>10, <1>11, <1>12 DEF Aside, fed, pads, console

\* The line a writer writes is what the pads hold: no other player has a key.
LEMMA LineIs ==
  ASSUME Buttons \subseteq Named, NEW w, Members(w), Mask(w) \subseteq {First} \X Buttons
  PROVE  LET keys == [NoKeys EXCEPT ![First] = Held(w)[First]] IN
         [p \in Players |-> keys[p] \cap Named] = Held(w)
<1> DEFINE held == Held(w)
           keys == [NoKeys EXCEPT ![First] = held[First]]
<1>1. held \in Keys /\ First \in Players
  BY MaskOf, ControllerAssumption
<1>2. held = [p \in Players |-> {b \in Buttons : <<p, b>> \in Mask(w)}]
  BY DEF Held
<1>3. ASSUME NEW p \in Players, p # First PROVE held[p] = {}
  BY <1>2, <1>3
<1> HIDE DEF held
<1>4. ASSUME NEW p \in Players PROVE keys[p] \cap Named = held[p]
  <2>1. held[p] \subseteq Buttons
    BY <1>1 DEF Keys
  <2>2. keys[p] = held[p]
    BY <1>1, <1>3 DEF NoKeys
  <2> QED BY <2>1, <2>2
<1>5. held = [p \in Players |-> held[p]]
  BY <1>1 DEF Keys
<1> HIDE DEF keys
<1>6. [p \in Players |-> keys[p] \cap Named] = held
  BY <1>4, <1>5
<1> QED BY <1>6 DEF keys, held

LEMMA RecordedFrame ==
  ASSUME OneRom, Buttons \subseteq Named,
         NEW w, Members(w), Runs(w), Tape(w), w.running, Recording(w)
  PROVE  Tape(Frame(w))
<1> DEFINE m == w.movie
           log == m.log
           rom == w.console.rom
           state == m.state
           line == Held(w)
           more == Append(log, line)
           fed == Feed(w)
           y == UpdateRam(Ran(w))
           outs == Append(m.outs, y.console)
           x == Frame(w)
<1>1. /\ m \in Writer /\ w.recording = TRUE /\ w.movie # NoMovie
  BY DEF Members, Film, Recording, Window
<1>2. /\ log \in Seq(Keys) /\ m.outs \in Seq(Console) /\ line \in Keys
      /\ state \in States \cup {NoState} /\ m.base \in File
  BY <1>1, MaskOf DEF Writer
<1>3. /\ state = NoState => m.base.core = NoState
      /\ w.title = w.game /\ Mask(w) \subseteq {First} \X Buttons
      /\ w.console = Shows(rom, state, log, Len(log))
      /\ Tells(rom, state, log, m.outs)
  BY DEF Tape, Rolling
<1>4. /\ fed = [w EXCEPT !.movie = [m EXCEPT !.log = more, !.keys = NoKeys]]
  <2>1. [p \in Players |-> [NoKeys EXCEPT ![First] = Held(w)[First]][p] \cap Named] = line
    BY <1>3, LineIs
  <2> DEFINE keys == [NoKeys EXCEPT ![First] = Held(w)[First]]
  <2>2. fed = [w EXCEPT !.movie = StepWrite(SetKeys(@, keys))]
    BY DEF Feed
  <2>3. [p \in Players |-> keys[p] \cap Named] = line
    BY <2>1
  <2> HIDE DEF keys, line, fed
  <2>4. StepWrite(SetKeys(m, keys)) = [m EXCEPT !.log = more, !.keys = NoKeys]
    BY <1>1, <2>3 DEF StepWrite, SetKeys, Writer
  <2> QED BY <2>2, <2>4 DEF Members, Window
<1> HIDE DEF fed
<1>5. /\ fed.host = w.host /\ fed.console = w.console /\ fed.running = w.running
      /\ fed.title = w.title /\ fed.recording = TRUE /\ fed.game = w.game
      /\ fed.disk = w.disk /\ fed.titles = w.titles /\ fed.files = w.files
      /\ fed.movie = [m EXCEPT !.log = more, !.keys = NoKeys]
  <2> HIDE DEF more, m
  <2> QED BY <1>1, <1>4 DEF Members, Window
<1>6. Held(fed) = line /\ Mask(fed) = Mask(w) /\ RomPath(fed) = RomPath(w)
  BY <1>5 DEF Held, Mask, RomPath
<1>7. /\ Members(y) /\ Mask(y) = Mask(w) /\ RomPath(y) = RomPath(w)
      /\ y.console = [rom |-> rom, from |-> w.console.from,
                      frames |-> Append(w.console.frames, line)]
      /\ y.running = w.running /\ y.game = w.game
      /\ y.movie = [m EXCEPT !.log = more, !.keys = NoKeys]
      /\ y.title = w.title /\ y.recording = TRUE
      /\ y.disk = w.disk /\ y.titles = w.titles /\ y.files = w.files
  <2>1. /\ Members(y) /\ Mask(y) = Mask(fed) /\ RomPath(y) = RomPath(fed)
        /\ y.console = [rom |-> fed.console.rom, from |-> fed.console.from,
                        frames |-> Append(fed.console.frames, Held(fed))]
        /\ y.running = fed.running /\ y.game = fed.game
        /\ y.movie = fed.movie /\ y.title = fed.title /\ y.recording = fed.recording
        /\ y.disk = fed.disk /\ y.titles = fed.titles /\ y.files = fed.files
    BY RanTape DEF fed
  <2> HIDE DEF y, m, more, line
  <2> QED BY <1>5, <1>6, <2>1
<1>8. y.console \in Console
  BY <1>7 DEF Members, Window
<1>9. x = Seen(y)
  BY DEF Frame
<1> HIDE DEF y, x
<1>10. y.movie # NoMovie /\ Recording(y)
  <2>1. y.movie \in Writer
    BY <1>7 DEF Members, Film
  <2> QED BY <1>7, <2>1, NoMovieAssumption DEF Recording
<1>11. x = [y EXCEPT !.movie = [m EXCEPT !.log = more, !.keys = NoKeys, !.outs = outs]]
  <2>1. x = [y EXCEPT !.movie.outs = Append(@, y.console)]
    BY <1>9, <1>10 DEF Seen
  <2>2. y.movie.outs = m.outs /\ DOMAIN y.movie = DOMAIN m
    BY <1>1, <1>7 DEF Writer
  <2>3. [y.movie EXCEPT !.outs = outs] =
          [m EXCEPT !.log = more, !.keys = NoKeys, !.outs = outs]
    <3> HIDE DEF more, outs
    <3> QED BY <1>1, <1>7 DEF Writer
  <2>4. x = [y EXCEPT !.movie = [y.movie EXCEPT !.outs = outs]]
    <3> HIDE DEF m
    <3> QED BY <1>7, <2>1, <2>2 DEF Members, Window
  <2> QED BY <2>3, <2>4
<1>12. /\ x.console = y.console /\ x.running = TRUE /\ x.game = w.game
       /\ x.title = w.title /\ x.recording = TRUE /\ x.disk = w.disk
       /\ x.titles = w.titles /\ x.files = w.files
       /\ Mask(x) = Mask(w) /\ RomPath(x) = RomPath(w)
       /\ x.movie.log = more /\ x.movie.outs = outs /\ x.movie.state = state
       /\ x.movie.base = m.base
  <2> HIDE DEF more, outs
  <2> QED BY <1>1, <1>7, <1>11 DEF Members, Window, Writer, Mask, RomPath
<1>13. /\ Len(log) \in Nat /\ Len(more) = Len(log) + 1 /\ more \in Seq(Keys) /\ more # <<>>
       /\ SubSeq(more, 1, Len(more)) = more /\ SubSeq(log, 1, Len(log)) = log
  BY <1>2, AppendParts, WholePrefix
<1>14. y.console = Shows(rom, state, more, Len(log) + 1)
  <2>1. w.console.frames = log /\ w.console.from = Fits(rom, state)
    <3> DEFINE console == w.console
    <3>1. console = Shows(rom, state, log, Len(log))
      BY <1>3
    <3> HIDE DEF console, m, log, rom, state
    <3>2. console.frames = log /\ console.from = Fits(rom, state)
      BY <3>1, <1>13 DEF Shows
    <3> QED BY <3>2 DEF console
  <2>2. SubSeq(more, 1, Len(log) + 1) = more
    BY <1>13
  <2> QED BY <1>7, <2>1, <2>2 DEF Shows
<1>15. Tells(rom, state, more, outs)
  <2> HIDE DEF m, log, line, rom, state
  <2> QED BY <1>2, <1>3, <1>8, <1>14, TellsMore
<1>16. y.console.rom = rom
  BY <1>7
<1> HIDE DEF m, log, line, rom, state, more, outs
<1>17. Rolling(x)
  BY <1>3, <1>12, <1>13, <1>14, <1>15, <1>16 DEF Rolling
<1>18. rom = RomPath(w) /\ rom \in Good /\ w.game = GameOf[rom]
  BY DEF Tape, Stage, rom
<1>19. PlayedOn(w.title) \subseteq {rom}
  <2>1. w.title \in Games /\ w.title # NoGame
    BY <1>3, <1>18, ControllerAssumption DEF Good
  <2> QED BY <1>3, <1>18, <2>1 DEF PlayedOn, OneRom
<1>20. Sealed(x)
  <2> DEFINE file == Close(x.movie)
  <2>1. /\ file.log = more /\ file.outs = outs
        /\ file.core = IF state = NoState THEN m.base.core ELSE state
    BY <1>12 DEF Close
  <2> HIDE DEF file
  <2>2. file.core # NoState => file.core = state
    BY <1>3, <2>1
  <2>3. Told(file, w.title)
    BY <1>15, <1>19, <2>1, <2>2 DEF Told
  <2> QED BY <1>12, <1>13, <2>3 DEF Sealed, file
<1>21. Shelf(x)
  BY <1>12 DEF Tape, Shelf
<1>22. Reel(x)
  BY <1>12 DEF Reel, Playing
<1>23. Stage(x)
  BY <1>12, <1>16, <1>18 DEF Stage
<1>24. Tape(x)
  BY <1>17, <1>20, <1>21, <1>22, <1>23 DEF Tape
<1> QED BY <1>24 DEF x

-----------------------------------------------------------------------------
\* The pads of a line are held, and no other.
LEMMA PadsHeld ==
  ASSUME NEW w, NEW line \in Keys, Mask(w) = PadsOf(line)
  PROVE  Held(w) = line
<1>1. ASSUME NEW p \in Players
      PROVE  {b \in Buttons : <<p, b>> \in Mask(w)} = line[p]
  <2>1. line[p] \subseteq Buttons
    BY DEF Keys
  <2>2. ASSUME NEW b PROVE <<p, b>> \in PadsOf(line) <=> b \in line[p]
    BY DEF PadsOf
  <2> QED BY <2>1, <2>2
<1>2. Held(w) = [p \in Players |-> line[p]]
  BY <1>1 DEF Held
<1> QED BY <1>2 DEF Keys

LEMMA PlayedFeed ==
  ASSUME NEW w, Members(w), Playing(w), ~AtEnd(w.movie)
  PROVE  LET m == w.movie
             line == m.log[m.pos + 1]
             fed == Feed(w) IN
         /\ m \in Reader /\ line \in Keys /\ m.pos \in 0 .. Len(m.log) /\ m.pos < Len(m.log)
         /\ Mask(fed) = PadsOf(line) /\ OnStage(w, fed)
         /\ fed.movie = [m EXCEPT !.pos = m.pos + 1, !.keys = line]
         /\ fed.movie \in Reader /\ fed.recording = FALSE
         /\ fed.title = w.title /\ fed.disk = w.disk /\ fed.titles = w.titles
         /\ fed.files = w.files /\ fed.tape = w.tape /\ fed.shown = w.shown
<1> DEFINE m == w.movie
           line == m.log[m.pos + 1]
           movie == [m EXCEPT !.pos = m.pos + 1, !.keys = line]
           y == [w EXCEPT !.movie = movie]
           fed == Feed(w)
<1>1. m \in Reader /\ w.recording = FALSE /\ m.pos <= Len(m.log)
  BY DEF Members, Film, Playing, Window
<1>2. m.pos \in Nat /\ m.log \in Seq(Keys) /\ m.pos # Len(m.log)
  BY <1>1 DEF Reader, AtEnd
<1>3. /\ line \in Keys /\ m.pos + 1 \in Nat /\ m.pos + 1 <= Len(m.log)
      /\ m.pos \in 0 .. Len(m.log) /\ m.pos < Len(m.log)
  BY <1>1, <1>2
<1>4. StepRead(m) = movie
  BY <1>1 DEF StepRead, Reader
<1> HIDE DEF line
<1>5. movie \in Reader /\ movie.keys = line /\ movie.pos <= Len(movie.log)
  BY <1>1, <1>3 DEF Reader
<1>6. fed = Hold(y, PadsOf(line))
  <2>1. ~Recording(w)
    BY DEF Playing, Recording
  <2> QED BY <1>4, <1>5, <2>1 DEF Feed
<1> HIDE DEF m, movie, fed
<1>7. /\ y \in Window /\ y.movie = movie /\ y.recording = FALSE /\ y.files = w.files
      /\ y.opened = w.opened /\ OnStage(w, y)
      /\ y.title = w.title /\ y.disk = w.disk /\ y.titles = w.titles
      /\ y.tape = w.tape /\ y.shown = w.shown
  BY <1>1, <1>5 DEF Members, Window, OnStage, RomPath
<1> HIDE DEF y
<1>8. Members(y)
  BY <1>5, <1>7 DEF Members, Film, Numbered, Given, Playing, Recording
<1>9. PadsOf(line) \in SUBSET (Players \X Buttons)
  BY <1>3 DEF PadsOf, Keys
<1>10. /\ Mask(fed) = PadsOf(line) /\ OnStage(y, fed)
       /\ fed.movie = movie /\ fed.title = y.title /\ fed.recording = FALSE
       /\ fed.disk = y.disk /\ fed.titles = y.titles /\ fed.files = y.files
       /\ fed.tape = y.tape /\ fed.shown = y.shown
  BY <1>6, <1>7, <1>8, <1>9, HoldTape
<1>11. OnStage(w, fed)
  BY <1>7, <1>10 DEF OnStage
<1> QED BY <1>1, <1>3, <1>5, <1>7, <1>10, <1>11 DEF m, line, movie, fed

\* A frame without a movie.
LEMMA IdleFrame ==
  ASSUME NEW w, Members(w), Runs(w), w.running,
         Feed(w).movie = NoMovie, Tape(Feed(w))
  PROVE  Tape(Frame(w))
<1> DEFINE fed == Feed(w)
           y == UpdateRam(Ran(w))
<1>1. /\ RomPath(y) = RomPath(fed) /\ y.console.rom = fed.console.rom
      /\ y.running = fed.running /\ y.game = fed.game /\ y.movie = NoMovie
      /\ y.disk = fed.disk /\ y.titles = fed.titles /\ y.files = fed.files
  <2>1. y.console = [rom |-> fed.console.rom, from |-> fed.console.from,
                     frames |-> Append(fed.console.frames, Held(fed))]
    BY RanTape
  <2>2. y.console.rom = fed.console.rom
    <3> HIDE DEF y, fed
    <3> QED BY <2>1
  <2> QED BY <2>2, RanTape
<1>2. Frame(w) = Seen(y)
  BY DEF Frame
<1>3. Shelf(fed) /\ Stage(fed)
  BY DEF Tape
<1> HIDE DEF fed, y
<1>4. Seen(y) = y
  BY <1>1 DEF Seen, Recording, Playing
<1>5. Shelf(y) /\ Stage(y)
  BY <1>1, <1>3 DEF Shelf, Stage
<1> QED BY <1>1, <1>2, <1>4, <1>5, IdleTape

LEMMA PlayedFrame ==
  ASSUME NEW w, Members(w), Runs(w), Tape(w), w.running, Playing(w), ~AtEnd(w.movie)
  PROVE  Tape(Frame(w))
<1> DEFINE m == w.movie
           log == m.log
           pos == m.pos
           rom == w.console.rom
           state == m.state
           line == log[pos + 1]
           tape == w.tape
           fed == Feed(w)
           y == UpdateRam(Ran(w))
           x == Frame(w)
<1>1. /\ m \in Reader /\ line \in Keys /\ pos \in 0 .. Len(log) /\ pos < Len(log)
      /\ log \in Seq(Keys) /\ tape \in Seq(Console)
  BY PlayedFeed DEF Reader, Members, Window
<1>2. /\ w.console = Shows(rom, state, log, pos)
      /\ Tells(rom, state, log, tape)
      /\ w.shown = SubSeq(tape, 1, pos)
  BY DEF Tape, Reel
<1>3. /\ Mask(fed) = PadsOf(line) /\ OnStage(w, fed)
      /\ fed.movie = [m EXCEPT !.pos = pos + 1, !.keys = line]
      /\ fed.movie \in Reader /\ fed.recording = FALSE
      /\ fed.disk = w.disk /\ fed.titles = w.titles
      /\ fed.files = w.files /\ fed.tape = tape /\ fed.shown = w.shown
  BY PlayedFeed
<1>4. /\ RomPath(y) = RomPath(fed)
      /\ y.console = [rom |-> fed.console.rom, from |-> fed.console.from,
                      frames |-> Append(fed.console.frames, Held(fed))]
      /\ y.running = fed.running /\ y.game = fed.game
      /\ y.movie = fed.movie /\ y.recording = fed.recording
      /\ y.disk = fed.disk /\ y.titles = fed.titles /\ y.files = fed.files
      /\ y.tape = fed.tape /\ y.shown = fed.shown /\ Members(y)
  BY RanTape
<1>5. x = Seen(y)
  BY DEF Frame
<1>6. Len(log) \in Nat
  BY <1>1
<1> HIDE DEF fed, y, x, line
<1>7. Held(fed) = line
  BY <1>1, <1>3, PadsHeld
<1>8. /\ y.movie \in Reader /\ y.recording = FALSE /\ y.movie # NoMovie
      /\ y.movie.log = log /\ y.movie.pos = pos + 1 /\ y.movie.state = state
  <2> HIDE DEF log, pos, state
  <2>1. y.movie = [m EXCEPT !.pos = pos + 1, !.keys = line]
    BY <1>3, <1>4
  <2>2. /\ y.movie.log = m.log /\ y.movie.pos = pos + 1 /\ y.movie.state = m.state
    <3> HIDE DEF m
    <3> QED BY <1>1, <2>1 DEF Reader
  <2> QED BY <1>3, <1>4, <2>2, NoMovieAssumption DEF log, state
<1>9. y.console = Shows(rom, state, log, pos + 1)
  <2> DEFINE console == w.console
  <2>1. console = Shows(rom, state, log, pos) /\ rom = console.rom
    BY <1>2
  <2>2. y.console = [rom |-> console.rom, from |-> console.from,
                     frames |-> Append(console.frames, line)]
    BY <1>3, <1>4, <1>7 DEF OnStage
  <2>3. Append(SubSeq(log, 1, pos), line) = SubSeq(log, 1, pos + 1)
    <3> HIDE DEF log, pos
    <3> QED BY <1>1, PrefixGrows DEF line
  <2> HIDE DEF console, rom, state, log, pos, m, line
  <2> QED BY <2>1, <2>2, <2>3 DEF Shows
<1>10. tape[pos + 1] = y.console /\ Len(tape) = Len(log)
  <2>1. pos + 1 \in 1 .. Len(log)
    BY <1>1, <1>6
  <2> HIDE DEF rom, state, log, pos, tape
  <2> QED BY <1>2, <1>9, <2>1 DEF Tells
<1>11. x = [y EXCEPT !.shown = Append(@, y.console)] /\ DOMAIN y = Fields
  BY <1>4, <1>5, <1>8 DEF Seen, Recording, Playing, Members, Window, Fields
<1>12. Append(w.shown, y.console) = SubSeq(tape, 1, pos + 1)
  <2>1. pos \in 0 .. Len(tape) /\ pos < Len(tape)
    BY <1>1, <1>10
  <2> HIDE DEF tape, pos, log
  <2> QED BY <1>1, <1>2, <1>10, <2>1, PrefixGrows
<1>13. /\ x.console = y.console /\ x.running = y.running /\ x.game = y.game
       /\ x.movie = y.movie /\ x.recording = FALSE /\ x.disk = y.disk
       /\ x.titles = y.titles /\ x.files = y.files /\ x.tape = tape
       /\ x.shown = SubSeq(tape, 1, pos + 1) /\ RomPath(x) = RomPath(y)
  <2>1. y.shown = w.shown /\ y.tape = tape
    BY <1>3, <1>4
  <2> HIDE DEF tape, pos
  <2> QED BY <1>8, <1>11, <1>12, <2>1 DEF Fields, RomPath
<1>14. /\ x.running /\ x.console.rom = rom /\ rom = RomPath(x) /\ rom \in Good
       /\ x.game = GameOf[rom]
  <2>1. /\ x.running = w.running /\ RomPath(x) = RomPath(w) /\ x.game = w.game
    BY <1>3, <1>4, <1>13 DEF OnStage
  <2>2. x.console.rom = rom
    <3> HIDE DEF rom, state, log, pos
    <3> QED BY <1>9, <1>13 DEF Shows
  <2> QED BY <2>1, <2>2 DEF Tape, Stage
<1>15. Stage(x)
  BY <1>14 DEF Stage
<1>16. Shelf(x)
  <2>1. x.disk = w.disk /\ x.titles = w.titles /\ x.files = w.files
    BY <1>3, <1>4, <1>13
  <2> QED BY <2>1 DEF Tape, Shelf
<1> HIDE DEF m, log, pos, rom, state, tape
<1>17. Reel(x)
  BY <1>2, <1>8, <1>9, <1>13, <1>14 DEF Reel
<1>18. Sealed(x) /\ Rolling(x)
  BY <1>13 DEF Sealed, Rolling, Recording
<1>19. Tape(x)
  BY <1>15, <1>16, <1>17, <1>18 DEF Tape
<1> QED BY <1>19 DEF x

LEMMA SetPausedAlike ==
  ASSUME NEW w, Members(w), NEW pause \in BOOLEAN
  PROVE  Alike(w, SetPaused(w, pause)) /\ Members(SetPaused(w, pause))
<1> DEFINE x == SetPaused(w, pause)
<1>1. Alike(w, x)
  <2>1. CASE pause = w.paused
    BY <2>1 DEF SetPaused, Alike
  <2>2. CASE pause # w.paused /\ pause
    BY <2>2 DEF SetPaused, Members, Window, Alike
  <2>3. CASE pause # w.paused /\ ~pause
    <3> DEFINE y == [w EXCEPT !.paused = FALSE]
    <3>1. x = Schedule(y)
      BY <2>3 DEF SetPaused
    <3>2. Alike(w, y) /\ y \in Window
      BY ZenonT(30) DEF Members, Window, Alike
    <3> HIDE DEF y
    <3>3. Alike(y, Schedule(y))
      BY <3>2 DEF Schedule, Window, Alike
    <3> QED BY <3>1, <3>2, <3>3 DEF Alike
  <2> QED BY <2>1, <2>2, <2>3
<1>2. Members(x)
  BY SetPausedMoves, AsideMoves DEF Members, Moves
<1> QED BY <1>1, <1>2

LEMMA SetFocusAlike ==
  ASSUME NEW w, Members(w), NEW away \in BOOLEAN
  PROVE  Alike(w, SetFocus(w, away)) /\ Members(SetFocus(w, away))
<1> DEFINE y == SetPaused(w, away)
           x == [y EXCEPT !.away = away]
<1>1. Alike(w, y) /\ y \in Window
  BY SetPausedAlike DEF Members
<1>2. x = SetFocus(w, away)
  BY DEF SetFocus
<1> HIDE DEF y
<1>3. Alike(y, x)
  BY <1>1 DEF Window, Alike
<1> HIDE DEF x
<1>4. Alike(w, x)
  BY <1>1, <1>3 DEF Alike
<1>5. Members(x)
  BY <1>2, SetFocusMoves, AsideMoves DEF Members, Moves
<1> QED BY <1>2, <1>4, <1>5

LEMMA FrameTape ==
  ASSUME OneRom, Buttons \subseteq Named,
         NEW w, Members(w), Runs(w), Tape(w), w.running
  PROVE  Tape(Frame(w))
<1>1. CASE Recording(w)
  BY <1>1, RecordedFrame
<1>2. CASE Playing(w) /\ ~AtEnd(w.movie)
  BY <1>2, PlayedFrame
<1>3. CASE Playing(w) /\ AtEnd(w.movie)
  <2> DEFINE y == SetPaused(w, TRUE)
  <2>1. Feed(w) = StopMovie(y)
    BY <1>3 DEF Feed, Playing, Recording
  <2>2. Members(y) /\ Tape(y)
    BY SetPausedAlike, AlikeTape
  <2> HIDE DEF y
  <2>3. Tape(StopMovie(y)) /\ StopMovie(y).movie = NoMovie
    BY <2>2, StopMovieTape DEF Tape
  <2> QED BY <2>1, <2>3, IdleFrame
<1>4. CASE ~Recording(w) /\ ~Playing(w)
  <2>1. Feed(w) = w
    BY <1>4 DEF Feed
  <2>2. w.movie = NoMovie
    BY <1>4 DEF Recording, Playing
  <2> QED BY <2>1, <2>2, IdleFrame
<1> QED BY <1>1, <1>2, <1>3, <1>4

\* What a frame, and so a tick, needs and leaves.
Films(w) == Members(w) /\ Runs(w) /\ Fine(w) /\ Tape(w) /\ w.running

LEMMA RunOneStepTape ==
  ASSUME OneRom, Buttons \subseteq Named, NEW w, Films(w), Room(w)
  PROVE  Films(RunOneStep(w)) /\ Moves(w, RunOneStep(w), At(w, 1))
<1> DEFINE x == Frame(w)
           y == RunOneStep(w)
<1>1. /\ Moves(w, x, 0) /\ w.opened \in Nat
      /\ Fine(x) /\ Runs(x) /\ x.running /\ Tape(x)
  BY FrameMoves, OpenedIs, FrameIs, FrameRuns, FrameTape DEF Films, Leads, Goes
<1>2. y = UpdateScenario(x)
  BY FrameOf
<1> HIDE DEF x
<1>3. Room(x) /\ Members(x)
  BY <1>1 DEF Moves, Room
<1>4. Tape(y)
  BY <1>1, <1>2, <1>3, UpdateScenarioTape
<1>5. Moves(w, y, At(w, 1))
  BY RunOneStepMoves DEF Films
<1>6. Runs(y) /\ y.running /\ Fine(y)
  BY RunOneStepRuns, RunOneStepIs DEF Films, Goes, Leads
<1> QED BY <1>4, <1>5, <1>6 DEF Films, Moves

LEMMA RunFastTape ==
  ASSUME OneRom, Buttons \subseteq Named,
         NEW one, Films(one), one.recordMode => one.opened <= MaxMovies
  PROVE  Films(RunFast(one))
<1> DEFINE frames == CHOOSE g :
             g = [n \in 0 .. Extra |-> IF n = 0 THEN one ELSE RunOneStep(g[n - 1])]
<1>1. Extra \in Nat /\ MaxMovies \in Nat /\ one.opened \in Nat
  BY ControllerAssumption, OpenedIs DEF Films
<1>2. frames = [n \in 0 .. Extra |-> IF n = 0 THEN one ELSE RunOneStep(frames[n - 1])]
  BY <1>1, FramesExist
<1>3. RunFast(one) = IF one.ff /\ ~one.paused THEN frames[Extra] ELSE one
  BY DEF RunFast
<1> HIDE DEF frames
<1> DEFINE S == {n \in 0 .. Extra :
                   Films(frames[n]) /\ Moves(one, frames[n], At(one, n))}
<1>4. Moves(one, one, 0)
  BY <1>1, MovesNone DEF Films
<1>5. 0 \in S
  BY <1>1, <1>2, <1>4 DEF At
<1>6. \A i \in 1 .. Extra : i - 1 \in S => i \in S
  <2> SUFFICES ASSUME NEW i \in 1 .. Extra, Films(frames[i - 1]),
                      Moves(one, frames[i - 1], At(one, i - 1))
               PROVE  Films(frames[i]) /\ Moves(one, frames[i], At(one, i))
    BY <1>1
  <2> DEFINE y == frames[i - 1]
  <2>1. frames[i] = RunOneStep(y)
    BY <1>1, <1>2
  <2>2. /\ Films(y) /\ y.recordMode = one.recordMode
        /\ y.opened \in one.opened .. one.opened + At(one, i - 1)
    BY DEF Moves
  <2>3. Moves(one, y, At(one, i - 1))
    OBVIOUS
  <2> HIDE DEF y
  <2>4. Room(y)
    <3>1. CASE one.recordMode
      BY <1>1, <2>2, <3>1 DEF Room, At
    <3>2. CASE ~one.recordMode
      BY <2>2, <3>2 DEF Room
    <3> QED BY <3>1, <3>2
  <2>5. Films(RunOneStep(y)) /\ Moves(y, RunOneStep(y), At(one, 1))
    BY <2>2, <2>4, RunOneStepTape DEF At
  <2>6. /\ At(one, i - 1) \in Nat /\ At(one, 1) \in Nat
        /\ At(one, i - 1) + At(one, 1) = At(one, i)
    BY DEF At
  <2> QED BY <1>1, <2>1, <2>3, <2>5, <2>6, MovesOn
<1>7. 0 .. Extra \subseteq S
  <2> HIDE DEF S
  <2> QED BY <1>1, <1>5, <1>6, UpTo
<1>8. Films(frames[Extra])
  BY <1>1, <1>7
<1> QED BY <1>3, <1>8

LEMMA RunOnceTape ==
  ASSUME OneRom, Buttons \subseteq Named,
         NEW w, Members(w), Runs(w), Fine(w), Tape(w),
         w.recordMode => w.opened < MaxMovies
  PROVE  Tape(RunOnce(w))
<1> DEFINE one == RunOneStep(w)
<1>1. Extra \in Nat /\ MaxMovies \in Nat /\ w.opened \in Nat
  BY ControllerAssumption, OpenedIs
<1>2. RunOnce(w) = IF w.running THEN RunFast(one) ELSE w
  BY DEF RunOnce
<1>3. CASE w.running
  <2>1. Films(one) /\ Moves(w, one, At(w, 1))
    BY <1>1, <1>3, RunOneStepTape DEF Films, Room
  <2> HIDE DEF one
  <2>2. one.recordMode => one.opened <= MaxMovies
    BY <1>1, <2>1 DEF Moves, At
  <2> QED BY <1>2, <1>3, <2>1, <2>2, RunFastTape DEF Films
<1> QED BY <1>2, <1>3

-----------------------------------------------------------------------------
\* The game of a ROM runs anew from a savestate.
Launched(x, rom, state) ==
  /\ x.movie = NoMovie /\ x.running = TRUE /\ x.initial = state
  /\ RomPath(x) = rom /\ x.game = GameOf[rom]
  /\ x.console = [rom |-> rom, from |-> Fits(rom, state), frames |-> <<>>]

LEMMA LaunchedTape ==
  ASSUME NEW x, NEW rom \in Good, NEW state, Shelf(x), Launched(x, rom, state)
  PROVE  Tape(x)
  BY IdleTape DEF Launched, Stage

LEMMA LoadGameTape ==
  ASSUME NEW w, NEW rom \in Roms, Members(w), Runs(w), Tape(w), w.host.gen # MaxOpens
  PROVE  LET x == LoadGame(w, rom) IN
         /\ Members(x)
         /\ rom \in Good =>
              /\ Ready(x) /\ Shelf(x) /\ x.movie = NoMovie
              /\ RomPath(x) = rom /\ x.game = GameOf[rom] /\ x.console.rom = rom
         /\ rom \notin Good /\ ~w.running =>
              Runs(x) /\ Tape(x) /\ x.recordMode = w.recordMode
<1> DEFINE shut == Core!UnloadCore(w.host, Re)
           host == Core!LoadRom(shut, Re, rom, LoadOutcome[rom])
           data == Core!ConfigureData(host, Re, Ram)
           console == [Nothing EXCEPT !.rom = rom]
           tried == [w EXCEPT !.host = host, !.initial = NoState]
           ready == [tried EXCEPT !.host = data, !.console = console,
                                  !.clone = Nothing, !.last = Nothing]
           idle == StopMovie(ready)
           game == GameChanged(idle, GameOf[rom])
           x == LoadGame(w, rom)
<1>1. Members(x) /\ x.recordMode = w.recordMode
  BY LoadGameMoves DEF Moves
<1>2. /\ rom \in Good => Ready(x)
      /\ rom \notin Good => Shaped(x) /\ Legal(x.host) /\ x.running = w.running
  BY LoadGameRuns DEF Runs
<1>3. x = IF rom \in Good THEN game ELSE tried
  <2>1. ready = [tried EXCEPT !.host = Core!ConfigureData(@, Re, Ram),
                              !.console = [Nothing EXCEPT !.rom = rom],
                              !.clone = Nothing, !.last = Nothing]
    <3> HIDE DEF host
    <3> QED BY DEF Members, Window
  <2> QED BY <2>1 DEF LoadGame
<1> HIDE DEF x
<1>4. Core!Typed(host) /\ Core!Typed(data)
  BY HostsAre, UnloadCoreTyped, LoadRomTyped, ConfigureDataTyped DEF Members, Window
<1>5. host \in Hosts /\ data \in Hosts
  BY <1>4, HostsAre
<1>6. rom \in Good => data.em[Re].romPath = rom
  <2>1. Legal(shut) /\ shut.em[Re].handle = 0 /\ shut.gen # MaxOpens
    BY UnloadCoreIs DEF Runs
  <2> HIDE DEF shut
  <2>2. rom \in Good => Holds(host) /\ host.em[Re].romPath = rom
    BY <2>1, LoadRomIs DEF Good
  <2> HIDE DEF host
  <2> QED BY <2>2, ConfigureDataIs
<1> HIDE DEF host, data
<1>7. /\ Aside(w, tried) /\ tried.title = w.title /\ tried.disk = w.disk
      /\ tried.titles = w.titles /\ tried.running = w.running
  BY <1>5 DEF Members, Window, Aside
<1> HIDE DEF tried
<1>8. Shelf(tried) /\ Sealed(tried)
  BY <1>7 DEF Tape, Shelf, Sealed, Aside, Recording
<1>9. console \in Console /\ Nothing \in Console /\ console.rom = rom
  BY NothingTyped DEF Nothing
<1> HIDE DEF console
<1>10. /\ Aside(tried, ready) /\ ready.title = tried.title /\ ready.disk = tried.disk
       /\ ready.titles = tried.titles /\ ready.host = data /\ ready.console = console
  BY <1>5, <1>7, <1>9 DEF Window, Aside
<1> HIDE DEF ready
<1>11. Members(tried) /\ Members(ready)
  BY <1>7, <1>10, AsideMoves DEF Moves
<1>12. Shelf(ready) /\ Sealed(ready)
  BY <1>8, <1>10 DEF Shelf, Sealed, Aside, Recording
<1>13. Shelf(idle) /\ OnStage(ready, idle) /\ idle.movie = NoMovie /\ Members(idle)
  BY <1>11, <1>12, StopMovieTape, StopMovieMoves DEF Moves
<1> HIDE DEF idle
<1>14. /\ Shelf(game) /\ game.movie = NoMovie /\ game.console = idle.console
       /\ game.host = idle.host /\ game.game = GameOf[rom]
  <2>1. /\ game.movie = idle.movie /\ game.console = idle.console
        /\ game.host = idle.host /\ game.game = GameOf[rom]
        /\ game.disk = idle.disk /\ game.titles = idle.titles /\ game.files = idle.files
    BY <1>13 DEF GameChanged, Members, Window
  <2> HIDE DEF game
  <2> QED BY <1>13, <2>1 DEF Shelf
<1> HIDE DEF game
<1>15. ASSUME rom \in Good
       PROVE  /\ Shelf(x) /\ x.movie = NoMovie /\ RomPath(x) = rom
              /\ x.game = GameOf[rom] /\ x.console.rom = rom
  <2>1. x = game
    BY <1>3, <1>15
  <2>2. RomPath(game) = rom
    BY <1>6, <1>10, <1>13, <1>14, <1>15 DEF OnStage, RomPath
  <2> QED BY <1>9, <1>10, <1>13, <1>14, <2>1, <2>2 DEF OnStage
<1>16. ASSUME rom \notin Good, ~w.running
       PROVE  Runs(x) /\ Tape(x)
  <2>1. x = tried /\ ~x.running
    BY <1>3, <1>7, <1>16
  <2>2. ~Playing(x)
    BY <1>7, <1>16, <2>1 DEF Tape, Reel, Playing, Aside
  <2>3. Tape(x)
    BY <1>8, <2>1, <2>2 DEF Tape, Rolling, Reel, Stage
  <2> QED BY <1>2, <1>16, <2>1, <2>3 DEF Runs
<1> QED BY <1>1, <1>2, <1>15, <1>16 DEF x

\* start() of a game that has just been loaded.
LEMMA LaunchTape ==
  ASSUME NEW w, NEW rom \in Good, Members(w), Ready(w), Shelf(w), w.movie = NoMovie,
         RomPath(w) = rom, w.game = GameOf[rom]
  PROVE  LET x == GameChanged(Start(w), GameOf[rom]) IN
         Shelf(x) /\ Launched(x, rom, w.initial)
<1> DEFINE back == Start(w)
           x == GameChanged(back, GameOf[rom])
<1>1. Shelf(back) /\ Anew(w, back) /\ Members(back)
  BY StartTape, StartMoves DEF Sealed, Recording, Moves
<1> HIDE DEF back
<1>2. /\ x.movie = back.movie /\ x.console = back.console /\ x.host = back.host
      /\ x.game = GameOf[rom] /\ x.running = back.running /\ x.initial = back.initial
      /\ x.disk = back.disk /\ x.titles = back.titles /\ x.files = back.files
  BY <1>1 DEF GameChanged, Members, Window
<1> HIDE DEF x
<1>3. Shelf(x) /\ RomPath(x) = RomPath(back)
  BY <1>1, <1>2 DEF Shelf, RomPath
<1>4. Launched(x, rom, w.initial)
  BY <1>1, <1>2, <1>3 DEF Launched, Anew
<1> QED BY <1>3, <1>4 DEF x, back

LEMMA OpenGameTape ==
  ASSUME NEW w, NEW rom \in Roms, Members(w), Runs(w), Tape(w), w.host.gen # MaxOpens,
         rom \in Good \/ ~w.running
  PROVE  Tape(OpenGame(w, rom))
<1> DEFINE loaded == LoadGame(w, rom)
           x == GameChanged(Start(loaded), GameOf[rom])
<1>1. /\ Members(loaded)
      /\ rom \in Good =>
           /\ Ready(loaded) /\ Shelf(loaded) /\ loaded.movie = NoMovie
           /\ RomPath(loaded) = rom /\ loaded.game = GameOf[rom]
      /\ rom \notin Good => Tape(loaded)
  BY LoadGameTape
<1>2. OpenGame(w, rom) = IF rom \in Good THEN x ELSE loaded
  BY DEF OpenGame
<1> HIDE DEF loaded
<1>3. rom \in Good => Shelf(x) /\ Launched(x, rom, loaded.initial)
  BY <1>1, LaunchTape
<1> HIDE DEF x
<1> QED BY <1>1, <1>2, <1>3, LaunchedTape

LEMMA TryRomTape ==
  ASSUME NEW w, NEW rom \in Good, Members(w), Runs(w), Tape(w), w.host.gen # MaxOpens
  PROVE  LET try == TryRom(w, rom) IN
         /\ Found(try) /\ try.found /\ Members(try.w)
         /\ Shelf(try.w) /\ Launched(try.w, rom, w.initial)
<1> DEFINE loaded == LoadGame(w, rom)
           asked == [loaded EXCEPT !.initial = w.initial]
           x == GameChanged(Start(asked), GameOf[rom])
           try == TryRom(w, rom)
<1>1. rom \in Roms
  BY DEF Good
<1>2. /\ Members(loaded) /\ Ready(loaded) /\ Shelf(loaded) /\ loaded.movie = NoMovie
      /\ RomPath(loaded) = rom /\ loaded.game = GameOf[rom]
  BY <1>1, LoadGameTape
<1>3. try = [w |-> x, found |-> TRUE]
  BY DEF TryRom
<1>4. Members(try.w) /\ Found(try)
  BY <1>1, TryRomMoves DEF Moves
<1> HIDE DEF loaded, try
<1>5. /\ Aside(loaded, asked) /\ asked.host = loaded.host /\ asked.game = loaded.game
      /\ asked.disk = loaded.disk /\ asked.titles = loaded.titles
      /\ asked.initial = w.initial
  <2>1. w.initial \in States \cup {NoState} /\ loaded \in Window
    BY <1>2 DEF Members, Window
  <2> QED BY <2>1 DEF Window, Aside
<1>6. Shaped(asked)
  BY <1>5 DEF Aside, Window, Shaped, Fields
<1> HIDE DEF asked
<1>7. Members(asked) /\ Ready(asked) /\ Shelf(asked) /\ RomPath(asked) = rom
  BY <1>2, <1>5, <1>6, AsideMoves DEF Moves, Ready, Shelf, RomPath, Aside
<1>8. Shelf(x) /\ Launched(x, rom, w.initial)
  BY <1>2, <1>5, <1>7, LaunchTape DEF Aside
<1> HIDE DEF x
<1> QED BY <1>3, <1>4, <1>8 DEF try

\* The first ROM of a game is taken when it loads, whatever the others are.
LEMMA FindGameTakes ==
  ASSUME NEW w, NEW roms \in Seq(Roms)
  PROVE  /\ roms = <<>> => FindGame(w, roms) = [w |-> w, found |-> FALSE]
         /\ roms # <<>> /\ TryRom(w, roms[1]).found =>
              FindGame(w, roms) = TryRom(w, roms[1])
<1> DEFINE none == [w |-> w, found |-> FALSE]
           try == TryRom(w, roms[1])
           tried == CHOOSE g : g = [n \in 0 .. Len(roms) |->
             IF n = 0 THEN none ELSE Attempt(g, roms, n)]
<1>1. Len(roms) \in Nat
  OBVIOUS
<1>2. FindGame(w, roms) = tried[Len(roms)]
  BY DEF FindGame, Attempt
<1>3. none.w = w /\ none.found = FALSE
  OBVIOUS
<1> HIDE DEF none
<1>4. tried = [n \in 0 .. Len(roms) |-> IF n = 0 THEN none ELSE Attempt(tried, roms, n)]
  BY <1>1, AttemptsExist
<1> HIDE DEF tried
<1>5. tried[0] = none
  BY <1>1, <1>4
<1>6. CASE roms = <<>>
  <2>1. Len(roms) = 0
    BY <1>6
  <2> QED BY <1>2, <1>5, <1>6, <2>1 DEF none
<1>7. CASE roms # <<>> /\ try.found
  <2> DEFINE S == {n \in 0 .. Len(roms) : n = 0 \/ tried[n] = try}
  <2>1. 0 \in S
    BY <1>1
  <2>2. \A i \in 1 .. Len(roms) : i - 1 \in S => i \in S
    <3> SUFFICES ASSUME NEW i \in 1 .. Len(roms), i = 1 \/ tried[i - 1] = try
                 PROVE  tried[i] = try
      BY <1>1
    <3>1. tried[i] = IF tried[i - 1].found THEN tried[i - 1]
                     ELSE TryRom(tried[i - 1].w, roms[i])
      BY <1>1, <1>4 DEF Attempt
    <3>2. CASE i = 1
      <4>1. tried[i - 1] = none /\ roms[i] = roms[1]
        BY <1>5, <3>2
      <4> QED BY <1>3, <3>1, <4>1
    <3>3. CASE i # 1
      <4> HIDE DEF try
      <4> QED BY <1>7, <3>1, <3>3
    <3> QED BY <3>2, <3>3
  <2>3. 0 .. Len(roms) \subseteq S
    <3> HIDE DEF S
    <3> QED BY <1>1, <2>1, <2>2, UpTo
  <2>4. Len(roms) \in 0 .. Len(roms) /\ Len(roms) # 0
    BY <1>1, <1>7
  <2> QED BY <1>2, <1>7, <2>3, <2>4
<1> QED BY <1>6, <1>7 DEF none

\* What a movie is given to play on, and what becomes of it.
LEMMA WithReaderTape ==
  ASSUME NEW ready, Found(ready), ready.found, NEW rom \in Good, NEW file \in File,
         Members(ready.w), Shelf(ready.w), Launched(ready.w, rom, file.core),
         Tells(rom, file.core, file.log, file.outs)
  PROVE  Tape(WithReader(ready, file).w)
<1> DEFINE w == ready.w
           reader == OpenRead(file)
           y == Assign(w, reader)
           x == [y EXCEPT !.recording = FALSE, !.tape = file.outs]
<1>1. WithReader(ready, file).w = x
  BY DEF WithReader, Found
<1>2. /\ reader.log = file.log /\ reader.pos = 0 /\ reader.state = file.core
      /\ reader \in Reader
  <2>1. file.log \in Seq(Keys) /\ file.core \in States \cup {NoState}
    BY DEF File
  <2> QED BY <2>1, NoKeysTyped DEF OpenRead, Reader
<1> HIDE DEF w, reader
<1>3. Sealed(w) /\ Members(w) /\ Shelf(w) /\ Launched(w, rom, file.core)
  BY DEF w, Launched, Sealed, Recording
<1>4. /\ Shelf(y) /\ OnStage(w, y) /\ y.movie = reader /\ y.shown = <<>>
  BY <1>3, AssignTape
<1>5. DOMAIN y = Fields
  <2>1. ~Recording(w)
    BY <1>3 DEF Launched, Recording
  <2>2. y = [w EXCEPT !.movie = reader, !.tape = <<>>, !.shown = <<>>]
    BY <2>1 DEF Assign
  <2>3. DOMAIN w = Fields
    BY <1>3 DEF Members, Window, Fields
  <2> HIDE DEF y
  <2> QED BY <2>2, <2>3
<1> HIDE DEF y
<1>6. /\ x.movie = reader /\ x.recording = FALSE /\ x.tape = file.outs
      /\ x.shown = <<>> /\ x.disk = y.disk /\ x.titles = y.titles /\ x.files = y.files
      /\ OnStage(y, x)
  BY <1>4, <1>5 DEF Fields, OnStage, RomPath
<1> HIDE DEF x
<1>7. OnStage(w, x) /\ Shelf(x)
  BY <1>4, <1>6 DEF OnStage, Shelf
<1>8. /\ x.running /\ RomPath(x) = rom /\ x.game = GameOf[rom]
      /\ x.console = [rom |-> rom, from |-> Fits(rom, file.core), frames |-> <<>>]
  BY <1>3, <1>7 DEF Launched, OnStage
<1>9. \A log : SubSeq(log, 1, 0) = <<>>
  OBVIOUS
<1>10. x.console.rom = rom
  BY <1>8
<1>11. Reel(x)
  BY <1>2, <1>6, <1>8, <1>9, <1>10 DEF Reel, Shows
<1>12. Sealed(x) /\ Rolling(x)
  BY <1>6 DEF Sealed, Rolling, Recording
<1>13. Stage(x)
  BY <1>8, <1>10 DEF Stage
<1> QED BY <1>1, <1>7, <1>11, <1>12, <1>13 DEF Tape

\* The initial state matters to what begins next only.
LEMMA AskedTape ==
  ASSUME NEW w, Members(w), Tape(w), Runs(w), NEW state \in States \cup {NoState}
  PROVE  LET x == [w EXCEPT !.initial = state] IN
         /\ Members(x) /\ Tape(x) /\ Runs(x) /\ x.initial = state
         /\ x.running = w.running /\ x.host = w.host /\ x.game = w.game
         /\ x.recordMode = w.recordMode /\ x.opened = w.opened
<1> DEFINE x == [w EXCEPT !.initial = state]
<1>1. /\ Aside(w, x) /\ Alike(w, x) /\ x.initial = state /\ x.running = w.running
      /\ x.host = w.host /\ x.game = w.game
  BY DEF Members, Window, Aside, Alike
<1>2. Shaped(x)
  BY DEF Runs, Shaped
<1> HIDE DEF x
<1>3. Members(x) /\ Tape(x)
  BY <1>1, AsideMoves, AlikeTape DEF Moves
<1>4. Runs(x)
  BY <1>1, <1>2 DEF Runs
<1> QED BY <1>1, <1>3, <1>4 DEF x, Aside

LEMMA LoadMovieTape ==
  ASSUME Playable, NEW w, NEW path \in Paths,
         Members(w), Runs(w), Tape(w), w.host.gen # MaxOpens
  PROVE  Tape(LoadMovie(w, path).w)
<1> DEFINE file == w.disk[path]
           game == w.titles[path]
           asked == [w EXCEPT !.initial = file.core]
           started == [w |-> Start(asked), found |-> TRUE]
           roms == IF game = NoGame THEN <<>> ELSE RomsOf[game]
           ready == IF w.running /\ game = NoGame THEN started ELSE FindGame(asked, roms)
           x == LoadMovie(w, path)
<1>1. x = IF ~Loadable(file) THEN [w |-> w, found |-> FALSE]
          ELSE WithReader(ready, file)
  BY DEF LoadMovie
<1>2. file \in File /\ game \in Games \cup {NoGame} /\ file.core \in States \cup {NoState}
  BY DEF Members, Window, File
<1>3. Told(file, game)
  BY DEF Tape, Shelf
<1>4. roms \in Seq(Roms)
  BY <1>2, ControllerAssumption
<1> SUFFICES Tape(x.w)
  OBVIOUS
<1> HIDE DEF x
<1>5. CASE ~Loadable(file)
  BY <1>1, <1>5
<1> HIDE DEF file
<1>6. /\ Members(asked) /\ Tape(asked) /\ Runs(asked) /\ asked.initial = file.core
      /\ asked.running = w.running /\ asked.host = w.host /\ asked.game = w.game
  BY <1>2, AskedTape
<1> HIDE DEF asked
<1>7. ASSUME Loadable(file), Found(ready), ready.found, NEW rom \in PlayedOn(game),
             Members(ready.w), Shelf(ready.w), Launched(ready.w, rom, file.core)
      PROVE  Tape(x.w)
  <2>1. rom \in Good /\ Tells(rom, file.core, file.log, file.outs)
    BY <1>3, <1>7 DEF Told, Loadable, PlayedOn
  <2> HIDE DEF ready
  <2>2. Tape(WithReader(ready, file).w)
    BY <1>2, <1>7, <2>1, WithReaderTape
  <2> QED BY <1>1, <1>7, <2>2
<1>8. CASE Loadable(file) /\ w.running /\ game = NoGame
  <2> DEFINE rom == RomPath(asked)
             back == Start(asked)
  <2>1. rom \in Good /\ asked.game = GameOf[rom]
    BY <1>6, <1>8 DEF Tape, Stage
  <2>2. Shelf(back) /\ Anew(asked, back) /\ Members(back)
    <3>1. Ready(asked) /\ Shelf(asked) /\ Sealed(asked)
      BY <1>6, <1>8 DEF Runs, Ready, Holds, Tape
    <3> QED BY <1>6, <3>1, StartTape, StartMoves DEF Moves
  <2>3. Launched(back, rom, file.core)
    BY <1>6, <2>1, <2>2 DEF Launched, Anew
  <2>4. rom \in PlayedOn(game)
    BY <1>8, <2>1 DEF PlayedOn
  <2>5. Found(ready) /\ ready.found /\ ready.w = back
    BY <1>8 DEF Found
  <2> HIDE DEF back, ready, rom
  <2> QED BY <1>7, <1>8, <2>2, <2>3, <2>4, <2>5
<1>9. CASE Loadable(file) /\ ~ (w.running /\ game = NoGame)
  <2>1. ready = FindGame(asked, roms)
    BY <1>9
  <2>2. CASE roms = <<>>
    <3>1. ready = [w |-> asked, found |-> FALSE]
      BY <1>4, <2>1, <2>2, FindGameTakes
    <3> HIDE DEF ready
    <3>2. WithReader(ready, file) = ready
      BY <3>1 DEF WithReader
    <3> QED BY <1>1, <1>6, <1>9, <3>1, <3>2
  <2>3. CASE roms # <<>>
    <3>1. game \in Games /\ game # NoGame /\ roms = RomsOf[game]
      BY <1>2, <2>3
    <3> DEFINE rom == roms[1]
               try == TryRom(asked, rom)
    <3>2. rom \in Good /\ rom \in PlayedOn(game)
      BY <2>3, <3>1 DEF Playable, PlayedOn
    <3> HIDE DEF rom
    <3>3. /\ Found(try) /\ try.found /\ Members(try.w) /\ Shelf(try.w)
          /\ Launched(try.w, rom, file.core)
      BY <1>6, <3>2, TryRomTape
    <3> HIDE DEF try
    <3>4. ready = try
      <4> HIDE DEF ready, roms
      <4> QED BY <1>4, <2>1, <2>3, <3>3, FindGameTakes DEF try, rom
    <3> HIDE DEF ready, game
    <3> QED BY <1>7, <1>9, <3>2, <3>3, <3>4
  <2> QED BY <2>2, <2>3
<1> QED BY <1>5, <1>8, <1>9

LEMMA StartKeeps ==
  ASSUME NEW w, Members(w), Runs(w), Tape(w), w.running
  PROVE  Members(Start(w)) /\ Runs(Start(w)) /\ Tape(Start(w)) /\ Start(w).running
<1>1. Ready(w) /\ Shelf(w) /\ Sealed(w) /\ Stage(w)
  BY DEF Ready, Holds, Runs, Tape
<1>2. Shelf(Start(w)) /\ Anew(w, Start(w)) /\ Members(Start(w)) /\ Runs(Start(w))
  BY <1>1, StartTape, StartMoves, StartRuns DEF Moves, Goes
<1>3. Tape(Start(w))
  BY <1>1, <1>2, AnewTape DEF Stage
<1> QED BY <1>2, <1>3 DEF Anew

-----------------------------------------------------------------------------
(***************************************************************************)
(* The slots over a window whose invariants hold.                          *)
(***************************************************************************)
Whole(w) == Members(w) /\ Runs(w) /\ Fine(w) /\ Tape(w)

\* An edit of what Tape does not look at.
LEMMA EditTape ==
  ASSUME NEW w, NEW x, Members(w), Runs(w), Tape(w),
         x \in Window, Alike(w, x), x.opened = w.opened
  PROVE  Members(x) /\ Runs(x) /\ Tape(x)
<1>1. Members(x)
  BY EditMoves DEF Alike
<1>2. Shaped(x)
  BY DEF Window, Shaped, Fields
<1>3. Runs(x)
  BY <1>2 DEF Runs, Alike
<1> QED BY <1>1, <1>3, AlikeTape

LEMMA LoadStateTape ==
  ASSUME NEW w, Whole(w), w.opened <= MaxMovies + Extra,
         NEW state \in States \cup {NoState}, NEW name \in Names
  PROVE  Tape(LoadState(w, state, name))
<1> DEFINE asked == [w EXCEPT !.initial = state]
           stopped == StopMovie(asked)
           begun == IF w.running THEN Start(stopped) ELSE stopped
           fresh == [begun EXCEPT !.name = name]
<1>1. LoadState(w, state, name) = IF w.recordMode THEN StartEpisode(fresh) ELSE fresh
  BY DEF LoadState
<1>2. /\ Members(asked) /\ Runs(asked) /\ Tape(asked) /\ asked.running = w.running
      /\ asked.opened = w.opened
  BY AskedTape DEF Whole
<1>3. Fine(asked)
  <2>1. /\ Shaped(asked) /\ asked.game = w.game
        /\ \A f \in Fields \ {"initial"} : asked[f] = w[f]
    BY DEF Whole, Fine, Sound, Shaped, Fields
  <2> HIDE DEF asked
  <2>2. asked.game \in Games \cup {NoGame}
    BY <2>1 DEF Whole, Fine, Sound, Titled
  <2> QED BY <2>1, <2>2, AsideIs DEF Whole, Leads
<1> HIDE DEF asked
<1>4. /\ Members(stopped) /\ Runs(stopped) /\ Tape(stopped)
      /\ stopped.running = w.running /\ stopped.opened = w.opened
  BY <1>2, StopKeeps DEF OnStage
<1>5. Fine(stopped)
  <2>1. Sound(stopped) /\ Same(asked, stopped)
    BY <1>3, StopMovieIs DEF Fine
  <2> QED BY <1>3, <2>1, SameReports DEF Fine
<1> HIDE DEF stopped
<1>6. Members(begun) /\ Runs(begun) /\ Tape(begun) /\ Fine(begun) /\ begun.opened = w.opened
  <2>1. CASE ~w.running
    BY <1>4, <1>5, <2>1
  <2>2. CASE w.running
    <3>1. begun = Start(stopped)
      BY <2>2
    <3> HIDE DEF begun
    <3>2. Moves(stopped, Start(stopped), 0) /\ stopped.opened \in Nat
      BY <1>4, StartMoves, OpenedIs
    <3>3. Start(stopped).opened = stopped.opened
      BY <3>2 DEF Moves
    <3>4. Fine(Start(stopped))
      BY <1>5, StartIs DEF Fine, Leads
    <3>5. stopped.running
      BY <1>4, <2>2
    <3> QED BY <1>4, <3>1, <3>3, <3>4, <3>5, StartKeeps
  <2> QED BY <2>1, <2>2
<1> HIDE DEF begun
<1>7. fresh \in Window /\ Alike(begun, fresh) /\ fresh.opened = begun.opened
  <2>1. begun \in Window
    BY <1>6 DEF Members
  <2> QED BY <2>1 DEF Window, Alike
<1>8. Fine(fresh)
  <2>1. /\ Shaped(fresh) /\ fresh.game = begun.game
        /\ \A f \in Fields \ {"name"} : fresh[f] = begun[f]
    BY <1>6 DEF Fine, Sound, Shaped, Fields
  <2> HIDE DEF fresh
  <2>2. fresh.game \in Games \cup {NoGame}
    BY <1>6, <2>1 DEF Fine, Sound, Titled
  <2> QED BY <1>6, <2>1, <2>2, AsideIs DEF Leads
<1> HIDE DEF fresh
<1>9. Members(fresh) /\ Runs(fresh) /\ Tape(fresh)
  BY <1>6, <1>7, EditTape
<1>10. Tape(StartEpisode(fresh))
  BY <1>6, <1>7, <1>8, <1>9, StartEpisodeTape
<1> QED BY <1>1, <1>9, <1>10

\* The assumptions under which a movie shows its recording: the user keeps clear
\* of the two faults, the first ROM of a game is the one that loads and the one
\* the game is recorded on, the keyboard is that of player 0, s_keyNames knows
\* every button, and the movies that are there when the window opens tell the
\* truth.
MoviesAssumption ==
  /\ Careful /\ Playable /\ OneRom
  /\ Bound \subseteq {First} /\ Buttons \subseteq Named
  /\ \A path \in DOMAIN Seeds : Told(Seeds[path].file, Seeds[path].title)

LEMMA OpenTape ==
  ASSUME MoviesAssumption, Whole(app), Open
  PROVE  Tape(app')
<1>1. CanOpen => app.host.gen # MaxOpens
  BY ControllerAssumption DEF CanOpen, Whole, Runs, Legal
<1>2. /\ Members(app) /\ Runs(app) /\ Fine(app) /\ Tape(app) /\ Careful /\ Playable
      /\ app.opened \in Nat /\ app.recordMode \in BOOLEAN
      /\ MaxMovies \in Nat /\ Extra \in Nat
      /\ CanRecord => app.opened < MaxMovies
  BY BoundsAre DEF Whole, MoviesAssumption
<1>3. NoState \in States \cup {NoState} /\ Junk \in Names /\ States \subseteq Names
  BY DEF Names
<1>4. ASSUME NEW rom \in Roms, OpenRom(rom)
      PROVE  Tape(app')
  BY <1>1, <1>2, <1>4, OpenGameTape DEF OpenRom, Safe
<1>5. ASSUME NEW rom \in Roms, OpenAnyRom(rom)
      PROVE  Tape(app')
  <2>1. CASE rom \in Good
    BY <1>1, <1>2, <1>5, <2>1, OpenGameTape DEF OpenAnyRom
  <2>2. CASE rom \notin Good
    <3> DEFINE tried == LoadGame(app, rom)
    <3>1. ~app.running /\ app.host.gen # MaxOpens /\ CanRecord
      BY <1>1, <1>2, <1>5, <2>2 DEF OpenAnyRom, Safe
    <3>2. Members(tried) /\ Runs(tried) /\ Tape(tried)
      BY <1>2, <2>2, <3>1, LoadGameTape
    <3>3. Fine(tried)
      BY <1>2, <2>2, LoadGameIs DEF Leads
    <3>4. tried.opened = app.opened
      BY <1>2, LoadGameMoves DEF Moves
    <3>5. app' = LoadState(tried, NoState, Junk)
      BY <1>5, <2>2 DEF OpenAnyRom
    <3> HIDE DEF tried
    <3> QED BY <1>2, <1>3, <3>1, <3>2, <3>3, <3>4, <3>5, LoadStateTape DEF Whole
  <2> QED BY <2>1, <2>2
<1>6. ASSUME NEW path \in Paths, PlayMovie(path) \/ OpenAnyMovie(path)
      PROVE  Tape(app')
  <2> DEFINE loaded == LoadMovie(app, path)
             w == loaded.w
  <2>1. app.host.gen # MaxOpens
    BY <1>1, <1>6 DEF PlayMovie, OpenAnyMovie
  <2>2. Members(w) /\ Runs(w) /\ Fine(w) /\ Tape(w)
    BY <1>2, <2>1, LoadMovieMoves, LoadMovieRuns, LoadMovieIs, LoadMovieTape
       DEF Moves, Leads
  <2>3. w.opened = app.opened /\ w.recordMode = app.recordMode
    BY <1>2, LoadMovieMoves DEF Moves
  <2>4. \/ MayRecord /\ app' = AfterMovie(loaded)
        \/ CanRecord /\ app' = AfterAnyMovie(loaded)
    BY <1>6 DEF PlayMovie, OpenAnyMovie
  <2>5. \/ app' = w
        \/ MayRecord /\ app' = UpdateScenario(w)
        \/ CanRecord /\ app' = LoadState(w, NoState, Junk)
    BY <2>4 DEF AfterMovie, AfterAnyMovie, MayRecord
  <2> HIDE DEF loaded, w
  <2>6. CASE app' = w
    BY <2>2, <2>6
  <2>7. CASE MayRecord /\ app' = UpdateScenario(w)
    <3>1. Room(w)
      BY <1>2, <2>3, <2>7 DEF Room, MayRecord
    <3> QED BY <2>2, <2>7, <3>1, UpdateScenarioTape
  <2>8. CASE CanRecord /\ app' = LoadState(w, NoState, Junk)
    <3>1. w.opened <= MaxMovies + Extra
      BY <1>2, <2>3, <2>8
    <3> QED BY <1>3, <2>2, <2>8, <3>1, LoadStateTape DEF Whole
  <2> QED BY <2>5, <2>6, <2>7, <2>8
<1>7. ASSUME NEW state \in States, LoadStateFile(state)
      PROVE  Tape(app')
  <2>1. CanRecord /\ app' = LoadState(app, state, state)
    BY <1>7 DEF LoadStateFile
  <2>2. app.opened <= MaxMovies + Extra
    BY <1>2, <2>1
  <2> QED BY <1>3, <2>1, <2>2, LoadStateTape
<1> QED BY <1>4, <1>5, <1>6, <1>7 DEF Open

\* A movie over the one at a path, if it had a savestate, has one of its own.
LEMMA PickedTape ==
  ASSUME MoviesAssumption, Whole(app), RecordPicked
  PROVE  Tape(app')
<1> DEFINE w == RecordMovie(app, Picked)
<1>1. CanRecord /\ SafeToRecord /\ app' = UpdateScenario(w)
  BY DEF RecordPicked
<1>2. Picked \in Paths /\ Picked \notin Episodes
  BY FilesAssumption DEF Paths
<1>3. /\ Members(app) /\ Runs(app) /\ Fine(app) /\ Tape(app)
      /\ app.opened \in Nat /\ MaxMovies \in Nat /\ Extra \in Nat
      /\ CanRecord => app.opened < MaxMovies
  BY BoundsAre DEF Whole
<1>4. app.initial # NoState \/ app.disk[Picked].core = NoState
  BY <1>1, <1>2, <1>3 DEF SafeToRecord, MoviesAssumption, Tape, Shelf
<1>5. Tape(w) /\ Moves(app, w, 1) /\ Runs(w) /\ Fine(w)
  BY <1>2, <1>3, <1>4, RecordTape, RecordedMoves, RecordMovieRuns, RecordMovieIs
     DEF Goes, Leads
<1> HIDE DEF w
<1>6. Members(w) /\ Room(w)
  BY <1>1, <1>3, <1>5 DEF Moves, Room
<1> QED BY <1>1, <1>5, <1>6, UpdateScenarioTape

LEMMA KeyTape ==
  ASSUME MoviesAssumption, Whole(app), PressKey
  PROVE  Tape(app')
<1>1. PICK pad \in Bound \X Buttons : app' = Hold(app, SymDiff(Mask(app), {pad}))
  BY DEF PressKey
<1> DEFINE mask == SymDiff(Mask(app), {pad})
           x == Hold(app, mask)
<1>2. mask \in SUBSET (Players \X Buttons)
  BY MaskOf, ControllerAssumption DEF SymDiff, Whole
<1>3. Mask(app) \subseteq {First} \X Buttons => mask \subseteq {First} \X Buttons
  BY DEF SymDiff, MoviesAssumption
<1> HIDE DEF mask
<1>4. /\ Mask(x) = mask /\ OnStage(app, x)
      /\ x.movie = app.movie /\ x.title = app.title /\ x.recording = app.recording
      /\ x.disk = app.disk /\ x.titles = app.titles /\ x.files = app.files
  BY <1>2, HoldTape DEF Whole
<1>5. ~Playing(app) /\ Tape(app)
  BY DEF PressKey, Whole
<1> HIDE DEF x
<1>6. Shelf(x) /\ Sealed(x) /\ Reel(x)
  BY <1>4, <1>5 DEF Tape, Shelf, Sealed, Reel, Recording, Playing
<1>7. Rolling(x) /\ Stage(x)
  BY <1>3, <1>4, <1>5 DEF Tape, Rolling, Stage, Recording, OnStage
<1>8. app' = x
  BY <1>1 DEF x, mask
<1>9. Tape(x)
  BY <1>6, <1>7 DEF Tape
<1> QED BY <1>8, <1>9

LEMMA StepFine ==
  ASSUME NEW w, Fine(w)
  PROVE  Fine([w EXCEPT !.paused = TRUE, !.timer = FALSE])
<1> DEFINE x == [w EXCEPT !.paused = TRUE, !.timer = FALSE]
<1>1. /\ Shaped(x) /\ x.timer = FALSE /\ x.paused = TRUE /\ x.running = w.running
      /\ \A f \in Fields \ {"timer", "paused"} : x[f] = w[f]
  BY DEF Fine, Sound, Shaped, Fields
<1> HIDE DEF x
<1>2. Clock(x)
  BY <1>1 DEF Clock, Fine, Sound
<1>3. Fine(x)
  BY <1>1, <1>2, PauseIs DEF Leads
<1> QED BY <1>3 DEF x

LEMMA NextTape ==
  ASSUME MoviesAssumption, Whole(app), Next
  PROVE  Tape(app')
<1>1. /\ Members(app) /\ Runs(app) /\ Fine(app) /\ Tape(app) /\ app \in Window
      /\ app.opened \in Nat /\ app.recordMode \in BOOLEAN
      /\ MaxMovies \in Nat /\ Extra \in Nat
      /\ CanRecord => app.opened < MaxMovies
  BY BoundsAre DEF Whole, Members
<1>2. CASE Open
  BY <1>2, OpenTape
<1>3. CASE RecordPicked
  BY <1>3, PickedTape
<1>4. CASE ToggleRecording
  <2> DEFINE toggled == [app EXCEPT !.recordMode = ~@]
  <2>1. app' = toggled \/ (CanRecord /\ app' = StartEpisode(toggled))
    BY <1>4 DEF ToggleRecording
  <2>2. toggled \in Window /\ Alike(app, toggled) /\ toggled.opened = app.opened
    <3> DEFINE mode == ~app.recordMode
    <3>1. toggled = [app EXCEPT !.recordMode = mode]
      BY <1>1 DEF Window
    <3>2. mode \in BOOLEAN
      OBVIOUS
    <3> HIDE DEF toggled, mode
    <3> QED BY <1>1, <3>1, <3>2 DEF Window, Alike
  <2>3. Fine(toggled)
    <3>1. /\ Shaped(toggled) /\ toggled.game = app.game
          /\ \A f \in Fields \ {"recordMode"} : toggled[f] = app[f]
      BY <1>1 DEF Fine, Sound, Shaped, Fields
    <3> HIDE DEF toggled
    <3>2. toggled.game \in Games \cup {NoGame}
      BY <1>1, <3>1 DEF Fine, Sound, Titled
    <3> QED BY <1>1, <3>1, <3>2, AsideIs DEF Leads
  <2> HIDE DEF toggled
  <2>4. Members(toggled) /\ Runs(toggled) /\ Tape(toggled)
    BY <1>1, <2>2, EditTape
  <2>5. CanRecord => toggled.opened <= MaxMovies + Extra
    BY <1>1, <2>2
  <2> QED BY <2>1, <2>3, <2>4, <2>5, StartEpisodeTape
<1>5. CASE StopTheMovie
  BY <1>1, <1>5, StopKeeps DEF StopTheMovie
<1>6. CASE ResetGame
  <2> DEFINE w == Start(app)
  <2>1. app.running /\ CanRecord /\ (app' = w \/ app' = StartEpisode(w))
    BY <1>6 DEF ResetGame
  <2>2. Members(w) /\ Runs(w) /\ Tape(w) /\ Fine(w) /\ Moves(app, w, 0)
    BY <1>1, <2>1, StartKeeps, StartMoves, StartIs DEF Leads, Fine
  <2> HIDE DEF w
  <2>3. w.opened <= MaxMovies + Extra
    BY <1>1, <2>1, <2>2 DEF Moves
  <2> QED BY <2>1, <2>2, <2>3, StartEpisodeTape
<1>7. CASE HardReset
  <2> DEFINE asked == [app EXCEPT !.initial = NoState]
  <2>1. app' = Start(asked) /\ app.running
    BY <1>7 DEF HardReset
  <2>2. Members(asked) /\ Tape(asked) /\ Runs(asked) /\ asked.running = app.running
    BY <1>1, AskedTape
  <2> HIDE DEF asked
  <2> QED BY <2>1, <2>2, StartKeeps
<1>8. CASE ResetTheScenario
  <2>1. CanRecord /\ app' = UpdateScenario(app)
    BY <1>8 DEF ResetTheScenario
  <2>2. Room(app)
    BY <1>1, <2>1 DEF Room
  <2> QED BY <1>1, <2>1, <2>2, UpdateScenarioTape
<1>9. CASE TogglePause \/ ClickScreen \/ ClickElsewhere
  <2>1. PICK away \in BOOLEAN : app' = SetPaused(app, away) \/ app' = SetFocus(app, away)
    BY <1>9, PausesIs
  <2>2. Alike(app, app')
    BY <1>1, <2>1, SetPausedAlike, SetFocusAlike
  <2> QED BY <1>1, <2>2, AlikeTape
<1>10. CASE ToggleFastForward
  <2> DEFINE x == [app EXCEPT !.ff = ~@]
  <2>1. app' = x
    BY <1>10 DEF ToggleFastForward
  <2>2. Alike(app, x)
    BY <1>1 DEF Window, Alike
  <2> HIDE DEF x
  <2> QED BY <1>1, <2>1, <2>2, AlikeTape
<1>11. CASE PressKey
  BY <1>11, KeyTape
<1>12. CASE Step
  <2> DEFINE w == [app EXCEPT !.paused = TRUE, !.timer = FALSE]
  <2>1. MayRecord /\ app' = RunOnce(w)
    BY <1>12 DEF Step, CanRun
  <2>2. w \in Window /\ Alike(app, w) /\ w.opened = app.opened /\ w.recordMode = app.recordMode
    BY <1>1, ZenonT(30) DEF Window, Alike
  <2>3. Fine(w)
    BY <1>1, StepFine
  <2> HIDE DEF w
  <2>4. Members(w) /\ Runs(w) /\ Tape(w)
    BY <1>1, <2>2, EditTape
  <2>5. w.recordMode => w.opened < MaxMovies
    BY <1>1, <2>1, <2>2 DEF MayRecord
  <2> QED BY <2>1, <2>3, <2>4, <2>5, RunOnceTape DEF MoviesAssumption
<1>13. CASE Tick
  <2>1. MayRecord /\ app' = RunOnce(app)
    BY <1>13 DEF Tick, CanTick, CanRun
  <2>2. app.recordMode => app.opened < MaxMovies
    BY <1>1, <2>1 DEF MayRecord
  <2> QED BY <1>1, <2>1, <2>2, RunOnceTape DEF MoviesAssumption
<1> QED BY <1>2, <1>3, <1>4, <1>5, <1>6, <1>7, <1>8, <1>9, <1>10, <1>11, <1>12, <1>13
        DEF Next

LEMMA TapeStarts ==
  ASSUME MoviesAssumption, Init
  PROVE  Tape(app)
<1>1. /\ app.movie = NoMovie /\ app.running = FALSE /\ app.files = DOMAIN Seeds
      /\ app.disk = [p \in Paths |->
                       IF p \in DOMAIN Seeds THEN Seeds[p].file ELSE Absent]
      /\ app.titles = [p \in Paths |->
                         IF p \in DOMAIN Seeds THEN Seeds[p].title ELSE NoGame]
  BY DEF Init
<1>2. Absent.core = NoState
  BY DEF Absent
<1>3. Shelf(app)
  <2> SUFFICES ASSUME NEW path \in Paths
               PROVE  /\ Told(app.disk[path], app.titles[path])
                      /\ path \notin app.files => app.disk[path].core = NoState
    BY DEF Shelf
  <2>1. CASE path \in DOMAIN Seeds
    <3>1. app.disk[path] = Seeds[path].file /\ app.titles[path] = Seeds[path].title
      BY <1>1, <2>1
    <3> QED BY <1>1, <2>1, <3>1 DEF MoviesAssumption
  <2>2. CASE path \notin DOMAIN Seeds
    BY <1>1, <1>2, <2>2 DEF Told
  <2> QED BY <2>1, <2>2
<1> QED BY <1>1, <1>3, IdleTape DEF Stage

LEMMA PrefixIs ==
  ASSUME NEW S, NEW s \in Seq(S), NEW i \in 0 .. Len(s)
  PROVE  IsPrefix(SubSeq(s, 1, i), s)
<1>1. Len(SubSeq(s, 1, i)) = i /\ i <= Len(s)
  OBVIOUS
<1>2. SubSeq(SubSeq(s, 1, i), 1, i) = SubSeq(s, 1, i)
  OBVIOUS
<1> QED BY <1>1, <1>2 DEF IsPrefix

TapeInv == WindowInv /\ CoreInv /\ TypeInv /\ Tape(app)

LEMMA TapeAlways ==
  ASSUME MoviesAssumption
  PROVE  Spec => []TapeInv
<1>1. Init => TapeInv
  <2>1. Init => WindowInv /\ TypeInv /\ Tape(app)
    BY WindowStarts, TypeStarts, TapeStarts
  <2>2. Init => CoreInv
    BY CoreStarts DEF CoreInv
  <2> QED BY <2>1, <2>2 DEF TapeInv
<1>2. TapeInv /\ [Next]_app => TapeInv'
  <2>1. ASSUME TapeInv, Next PROVE TapeInv'
    <3>1. Whole(app)
      BY <2>1 DEF TapeInv, WindowInv, CoreInv, TypeInv, Whole
    <3>2. WindowInv' /\ CoreInv' /\ TypeInv'
      BY <2>1, <3>1, WindowStays, NextRuns, NextMoves
         DEF TapeInv, CoreInv, Whole, MoviesAssumption
    <3>3. Tape(app')
      BY <2>1, <3>1, NextTape
    <3> QED BY <3>2, <3>3 DEF TapeInv
  <2>2. ASSUME TapeInv, UNCHANGED app PROVE TapeInv'
    BY <2>2 DEF TapeInv, WindowInv, CoreInv, TypeInv
  <2> QED BY <2>1, <2>2
<1> QED BY <1>1, <1>2, PTL DEF Spec

\* Under MoviesAssumption every movie of the window and of RetroEnv, whatever is
\* recorded, opened, paused, stopped or reset meanwhile, shows line by line the
\* consoles of its recording.
THEOREM MoviesShowTheirTapes ==
  ASSUME MoviesAssumption
  PROVE  Spec => []PlaysTheTape
<1>1. TapeInv => PlaysTheTape
  <2> SUFFICES ASSUME TapeInv, Playing(app) PROVE IsPrefix(app.shown, app.tape)
    BY DEF PlaysTheTape
  <2> DEFINE pos == app.movie.pos
  <2>1. app.tape \in Seq(Console)
    BY DEF TapeInv, TypeInv, Members, Window
  <2>2. app.shown = SubSeq(app.tape, 1, pos) /\ Len(app.tape) = Len(app.movie.log)
    BY DEF TapeInv, Tape, Reel, Tells
  <2>3. pos \in 0 .. Len(app.movie.log)
    <3>1. /\ app.movie \in Reader /\ pos <= Len(app.movie.log)
      BY DEF TapeInv, TypeInv, Members, Film, Playing, Window
    <3>2. pos \in Nat /\ app.movie.log \in Seq(Keys)
      BY <3>1 DEF Reader
    <3> QED BY <3>1, <3>2
  <2> HIDE DEF pos
  <2> QED BY <2>1, <2>2, <2>3, PrefixIs
<1> QED BY <1>1, TapeAlways, PTL

-----------------------------------------------------------------------------
(***************************************************************************)
(* Where a playback ends.                                                  *)
(***************************************************************************)
LEMMA FrameFf ==
  ASSUME NEW w, Members(w), Runs(w), w.running
  PROVE  Frame(w).ff = w.ff
<1> DEFINE fed == Feed(w)
           ran == Ran(w)
           y == UpdateRam(ran)
<1>1. ASSUME NEW v, NEW mask, Shaped(v)
      PROVE  Hold(v, mask).ff = v.ff
  BY <1>1 DEF Hold, Shaped, Fields
<1>2. ASSUME NEW v, NEW movie, Shaped(v)
      PROVE  Assign(v, movie).ff = v.ff /\ Shaped(Assign(v, movie))
  BY <1>2 DEF Assign, Shaped, Fields
<1>3. ASSUME NEW v, Shaped(v)
      PROVE  StopMovie(v).ff = v.ff
  <2> DEFINE idle == Assign(v, NoMovie)
             off == [idle EXCEPT !.recording = FALSE]
             mask == {k \in Mask(v) : k[1] # First}
  <2>1. Shaped(idle) /\ idle.ff = v.ff
    BY <1>2, <1>3
  <2>2. StopMovie(v) = Hold(off, mask)
    BY DEF StopMovie
  <2> HIDE DEF idle, mask
  <2>3. Shaped(off) /\ off.ff = idle.ff
    BY <2>1 DEF Shaped, Fields
  <2> HIDE DEF off
  <2> QED BY <1>1, <2>1, <2>2, <2>3
<1>4. ASSUME NEW v, Shaped(v)
      PROVE  SetPaused(v, TRUE).ff = v.ff /\ Shaped(SetPaused(v, TRUE))
  BY <1>4 DEF SetPaused, Shaped, Fields
<1>5. Shaped(w)
  BY DEF Runs
<1>6. fed.ff = w.ff
  <2>1. CASE Recording(w)
    BY <1>5, <2>1 DEF Feed, Shaped, Fields
  <2>2. CASE ~Recording(w) /\ ~Playing(w)
    BY <2>2 DEF Feed
  <2>3. CASE ~Recording(w) /\ Playing(w) /\ AtEnd(w.movie)
    BY <1>3, <1>4, <1>5, <2>3 DEF Feed
  <2>4. CASE ~Recording(w) /\ Playing(w) /\ ~AtEnd(w.movie)
    <3> DEFINE movie == StepRead(w.movie)
               v == [w EXCEPT !.movie = movie]
    <3>1. fed = Hold(v, PadsOf(movie.keys))
      BY <2>4 DEF Feed
    <3> HIDE DEF fed, movie
    <3>2. Shaped(v) /\ v.ff = w.ff
      BY <1>5 DEF Shaped, Fields
    <3> HIDE DEF v
    <3> QED BY <1>1, <3>1, <3>2
  <2> QED BY <2>1, <2>2, <2>3, <2>4
<1>7. Shaped(fed)
  BY FeedStays DEF Runs, Stays
<1>8. Shaped(ran) /\ ran.ff = fed.ff
  <2>1. ran = [fed EXCEPT !.host = Core!Run(@, Re, @.gen), !.console.frames = Append(@, Held(fed))]
    BY DEF Ran
  <2> HIDE DEF ran, fed
  <2> QED BY <1>7, <2>1 DEF Shaped, Fields
<1> HIDE DEF ran
<1>9. Shaped(y) /\ y.ff = ran.ff
  BY <1>8 DEF UpdateRam, Shaped, Fields
<1> HIDE DEF y, fed
<1>10. Seen(y).ff = y.ff
  BY <1>9 DEF Seen, Shaped, Fields
<1> QED BY <1>6, <1>8, <1>9, <1>10 DEF Frame, y, ran

\* A frame of a movie is one of its lines, or it is past its end.
LEMMA FrameCounts ==
  ASSUME NEW w, Films(w)
  PROVE  LET x == Frame(w) IN
         /\ Playing(w) =>
              \/ Playing(x) /\ x.tape = w.tape
              \/ /\ x.movie = NoMovie /\ x.paused
                 /\ Len(x.console.frames) = Len(w.tape) + 1
         /\ w.movie = NoMovie =>
              /\ x.movie = NoMovie
              /\ Len(x.console.frames) = Len(w.console.frames) + 1
<1> DEFINE fed == Feed(w)
           y == UpdateRam(Ran(w))
           x == Frame(w)
<1>1. /\ Members(w) /\ Runs(w) /\ Tape(w) /\ w.running /\ Members(fed) /\ Members(y)
  BY RanTape DEF Films
<1>2. /\ y.movie = fed.movie /\ y.recording = fed.recording /\ y.tape = fed.tape
      /\ y.console = [rom |-> fed.console.rom, from |-> fed.console.from,
                      frames |-> Append(fed.console.frames, Held(fed))]
  BY <1>1, RanTape
<1>3. x = Seen(y)
  BY DEF Frame
<1>4. y.paused = fed.paused
  <2>1. Shaped(fed)
    BY <1>1, FeedStays DEF Runs, Stays
  <2> DEFINE ran == Ran(w)
  <2>2. ran = [fed EXCEPT !.host = Core!Run(@, Re, @.gen), !.console.frames = Append(@, Held(fed))]
    BY DEF Ran
  <2>3. y = UpdateRam(ran)
    OBVIOUS
  <2> HIDE DEF ran, fed, y
  <2>4. Shaped(ran) /\ ran.paused = fed.paused
    BY <2>1, <2>2 DEF Shaped, Fields
  <2> QED BY <2>3, <2>4 DEF UpdateRam, Shaped, Fields
<1>5. fed.console.frames \in Seq(Keys)
  BY <1>1 DEF Members, Window, Console
<1>6. Len(y.console.frames) = Len(fed.console.frames) + 1
  <2>1. Held(fed) \in Keys
    BY <1>1, MaskOf
  <2>2. y.console.frames = Append(fed.console.frames, Held(fed))
    <3> HIDE DEF fed, y
    <3> QED BY <1>2
  <2> HIDE DEF fed, y
  <2> QED BY <1>5, <2>1, <2>2
<1>7. CASE Playing(w) /\ ~AtEnd(w.movie)
  <2>1. fed.movie \in Reader /\ fed.recording = FALSE /\ fed.tape = w.tape
    BY <1>1, <1>7, PlayedFeed
  <2> HIDE DEF fed, y, x
  <2>2. Playing(y)
    BY <1>2, <2>1, NoMovieAssumption DEF Playing
  <2>3. x = [y EXCEPT !.shown = Append(@, y.console)] /\ DOMAIN y = Fields
    BY <1>1, <1>3, <2>2 DEF Seen, Recording, Playing, Members, Window, Fields
  <2>4. x.movie = y.movie /\ x.recording = y.recording /\ x.tape = y.tape
    BY <2>3 DEF Fields
  <2>5. Playing(x) /\ x.tape = w.tape
    BY <1>2, <2>1, <2>2, <2>4 DEF Playing
  <2> QED BY <1>7, <2>5 DEF Playing, x
<1>8. CASE Playing(w) /\ AtEnd(w.movie)
  <2> DEFINE v == SetPaused(w, TRUE)
  <2>1. fed = StopMovie(v)
    BY <1>8 DEF Feed, Playing, Recording
  <2>2. Members(v) /\ Tape(v) /\ v.console = w.console /\ v.paused = TRUE
    <3>1. v.paused = TRUE
      BY <1>1 DEF SetPaused, Members, Window
    <3> QED BY <1>1, <3>1, SetPausedAlike, AlikeTape DEF Alike
  <2> HIDE DEF v
  <2>3. fed.movie = NoMovie /\ fed.console = w.console
    BY <2>1, <2>2, StopMovieTape DEF Tape, OnStage
  <2>4. fed.paused = TRUE
    <3>1. Sound(v)
      <4>1. Fine(w) /\ Shaped(w) /\ Clock(w)
        BY DEF Films, Fine, Sound
      <4>2. /\ Shaped(v) /\ Clock(v)
            /\ \A f \in Fields \ {"timer", "paused"} : v[f] = w[f]
        BY <4>1, SetPausedIs DEF v
      <4> QED BY <4>1, <4>2, PauseIs DEF Leads, Fine
    <3>2. Same(v, StopMovie(v))
      BY <3>1, StopMovieIs
    <3> QED BY <2>1, <2>2, <3>2 DEF Same
  <2> HIDE DEF fed, y
  <2>5. x = y
    BY <1>2, <1>3, <2>3 DEF Seen, Recording, Playing
  <2>6. Len(w.console.frames) = Len(w.tape)
    <3> DEFINE log == w.movie.log
    <3>1. /\ w.console = Shows(w.console.rom, w.movie.state, log, w.movie.pos)
          /\ Len(w.tape) = Len(log) /\ w.movie.pos = Len(log)
      BY <1>1, <1>8 DEF Tape, Reel, Tells, AtEnd
    <3>2. log \in Seq(Keys)
      BY <1>1, <1>8 DEF Members, Film, Window, Playing, Reader
    <3>3. SubSeq(log, 1, Len(log)) = log
      BY <3>2, WholePrefix
    <3> DEFINE console == w.console
               rom == console.rom
               state == w.movie.state
    <3>4. console = Shows(rom, state, log, Len(log))
      BY <3>1
    <3> HIDE DEF console, rom, state, log
    <3>5. console.frames = log
      BY <3>3, <3>4 DEF Shows
    <3> QED BY <3>1, <3>5 DEF console
  <2>7. x.movie = NoMovie /\ x.paused /\ Len(x.console.frames) = Len(w.tape) + 1
    BY <1>2, <1>4, <1>6, <2>3, <2>4, <2>5, <2>6
  <2> QED BY <1>8, <2>7 DEF Playing
<1>9. CASE ~Playing(w)
  <2> SUFFICES ASSUME w.movie = NoMovie
               PROVE  /\ x.movie = NoMovie
                      /\ Len(x.console.frames) = Len(w.console.frames) + 1
    BY <1>9
  <2>1. fed = w
    BY DEF Feed, Recording, Playing
  <2>2. y.movie = NoMovie /\ Len(y.console.frames) = Len(w.console.frames) + 1
    BY <1>2, <1>6, <2>1
  <2> HIDE DEF y, fed, x
  <2>3. x = y
    BY <1>3, <2>2 DEF Seen, Recording, Playing
  <2> QED BY <2>2, <2>3
<1> QED BY <1>7, <1>8, <1>9

\* So many frames, at most n, are past the end of the tape.
Past(x, tape, n) ==
  /\ x.movie = NoMovie
  /\ Len(x.console.frames) - Len(tape) \in 1 .. n

\* The movie plays on, or it ended within n frames.
PlaysOn(x, tape, n) ==
  \/ Playing(x) /\ x.tape = tape
  \/ Past(x, tape, n)

\* A frame of fast forward, the n-th after the first.
Going(x, tape, n) == Films(x) /\ ~x.recordMode /\ PlaysOn(x, tape, n)

LEMMA LengthsAre ==
  ASSUME NEW w, Members(w)
  PROVE  Len(w.console.frames) \in Nat /\ Len(w.tape) \in Nat
<1>1. w.console \in Console /\ w.tape \in Seq(Console)
  BY DEF Members, Window
<1>2. w.console.frames \in Seq(Keys)
  BY <1>1 DEF Console
<1> QED BY <1>1, <1>2

LEMMA PlainStep ==
  ASSUME OneRom, Buttons \subseteq Named, NEW w, Films(w), ~w.recordMode
  PROVE  LET x == RunOneStep(w) IN
         /\ x = Frame(w) /\ Films(x) /\ ~x.recordMode /\ x.ff = w.ff
<1> DEFINE x == RunOneStep(w)
<1>1. Films(x) /\ Moves(w, x, At(w, 1))
  BY RunOneStepTape DEF Room
<1>2. ~x.recordMode
  BY <1>1 DEF Moves
<1>3. x = Frame(w)
  <2>1. Moves(w, Frame(w), 0)
    BY FrameMoves DEF Films
  <2>2. ~Frame(w).recordMode
    BY <2>1 DEF Moves
  <2> QED BY <2>2, FrameOf DEF UpdateScenario
<1>4. Frame(w).ff = w.ff
  BY FrameFf DEF Films
<1> QED BY <1>1, <1>2, <1>3, <1>4

\* The frames of fast forward after one that was a line of the movie.
LEMMA FastEnds ==
  ASSUME OneRom, Buttons \subseteq Named,
         NEW one, Films(one), ~one.recordMode, Playing(one), one.ff /\ ~one.paused
  PROVE  LET x == RunFast(one) IN Playing(x) \/ Past(x, one.tape, Extra)
<1> DEFINE tape == one.tape
           frames == CHOOSE g :
             g = [n \in 0 .. Extra |-> IF n = 0 THEN one ELSE RunOneStep(g[n - 1])]
<1>1. Extra \in Nat
  BY ControllerAssumption
<1>2. frames = [n \in 0 .. Extra |-> IF n = 0 THEN one ELSE RunOneStep(frames[n - 1])]
  BY <1>1, FramesExist
<1>3. RunFast(one) = frames[Extra]
  BY DEF RunFast
<1> HIDE DEF frames
<1>4. tape \in Seq(Console)
  BY DEF Films, Members, Window
<1> DEFINE S == {n \in 0 .. Extra : Going(frames[n], tape, n)}
<1> HIDE DEF tape
<1>5. 0 \in S
  BY <1>1, <1>2 DEF tape, PlaysOn, Going
<1>6. \A i \in 1 .. Extra : i - 1 \in S => i \in S
  <2> SUFFICES ASSUME NEW i \in 1 .. Extra, Going(frames[i - 1], tape, i - 1)
               PROVE  Going(frames[i], tape, i)
    BY <1>1
  <2> DEFINE y == frames[i - 1]
             x == RunOneStep(y)
  <2>1. frames[i] = x
    BY <1>1, <1>2
  <2>2. x = Frame(y) /\ Films(x) /\ ~x.recordMode
    BY PlainStep DEF Going
  <2>3. Films(y) /\ PlaysOn(y, tape, i - 1)
    BY DEF Going
  <2>4. /\ Len(x.console.frames) \in Nat /\ Len(y.console.frames) \in Nat
        /\ Len(tape) \in Nat
    <3> HIDE DEF x, y
    <3> QED BY <1>4, <2>2, <2>3, LengthsAre DEF Films
  <2> HIDE DEF x, y
  <2>5. CASE Playing(y) /\ y.tape = tape
    <3>1. \/ Playing(x) /\ x.tape = tape
          \/ x.movie = NoMovie /\ Len(x.console.frames) = Len(tape) + 1
      BY <2>2, <2>3, <2>5, FrameCounts
    <3> QED BY <2>1, <2>2, <2>4, <3>1 DEF Past, PlaysOn, Going
  <2>6. CASE Past(y, tape, i - 1)
    <3>1. /\ x.movie = NoMovie
          /\ Len(x.console.frames) = Len(y.console.frames) + 1
      BY <2>2, <2>3, <2>6, FrameCounts DEF Past
    <3> DEFINE a == Len(x.console.frames)
               b == Len(y.console.frames)
               c == Len(tape)
    <3>2. b - c \in 1 .. i - 1
      BY <2>6 DEF Past
    <3> HIDE DEF a, b, c
    <3>3. a - c \in 1 .. i
      BY <2>4, <3>1, <3>2 DEF a, b, c
    <3> QED BY <2>1, <2>2, <3>1, <3>3 DEF Past, PlaysOn, Going, a, c
  <2> QED BY <2>3, <2>5, <2>6 DEF PlaysOn
<1>7. 0 .. Extra \subseteq S
  <2> HIDE DEF S
  <2> QED BY <1>1, <1>5, <1>6, UpTo
<1>8. PlaysOn(frames[Extra], tape, Extra)
  BY <1>1, <1>7 DEF Going
<1> QED BY <1>3, <1>8 DEF tape, PlaysOn

LEMMA RunOnceEnds ==
  ASSUME OneRom, Buttons \subseteq Named,
         NEW w, Films(w), ~w.recordMode, Playing(w), ~Playing(RunOnce(w))
  PROVE  LET past == Len(RunOnce(w).console.frames) - Len(w.tape)
         IN past = 1 \/ (w.ff /\ past \in 1 .. Extra)
<1> DEFINE one == RunOneStep(w)
           x == RunFast(one)
           tape == w.tape
<1>1. RunOnce(w) = x
  BY DEF RunOnce, Films
<1>2. one = Frame(w) /\ Films(one) /\ ~one.recordMode /\ one.ff = w.ff
  BY PlainStep
<1>3. \/ Playing(one) /\ one.tape = tape
      \/ /\ one.movie = NoMovie /\ one.paused
         /\ Len(one.console.frames) = Len(tape) + 1
  BY <1>2, FrameCounts
<1>4. x = one \/ (one.ff /\ ~one.paused)
  BY DEF RunFast
<1>5. Len(tape) \in Nat
  BY DEF Films, Members, Window
<1> HIDE DEF one, tape
<1>6. CASE Playing(one) /\ one.tape = tape
  <2>1. one.ff /\ ~one.paused
    BY <1>1, <1>4, <1>6
  <2>2. Past(x, tape, Extra)
    BY <1>1, <1>2, <1>6, <2>1, FastEnds
  <2>3. w.ff /\ Len(x.console.frames) - Len(tape) \in 1 .. Extra
    BY <1>2, <2>1, <2>2 DEF Past
  <2> QED BY <1>1, <2>3 DEF tape
<1>7. CASE /\ one.movie = NoMovie /\ one.paused
           /\ Len(one.console.frames) = Len(tape) + 1
  <2>1. x = one
    BY <1>4, <1>7
  <2> HIDE DEF x
  <2>2. Len(one.console.frames) - Len(tape) = 1
    BY <1>5, <1>7
  <2> QED BY <1>1, <2>1, <2>2 DEF tape
<1> QED BY <1>3, <1>6, <1>7

\* A playback in a plain window ends after all of its lines; it ends in recording
\* mode only where the game was over.
THEOREM PlaybackReachesItsEnd ==
  ASSUME MoviesAssumption
  PROVE  Spec => EndsTheTape
<1> DEFINE past == Len(app'.console.frames) - Len(app.tape)
           Ended == Playing(app) /\ ~Playing(app') /\ (Tick \/ Step) =>
                      app.recordMode \/ past = 1 \/ (app.ff /\ past \in 1 .. Extra)
<1>1. TapeInv => Ended
  <2> SUFFICES ASSUME TapeInv, Playing(app), ~Playing(app'), Tick \/ Step, ~app.recordMode
               PROVE  past = 1 \/ (app.ff /\ past \in 1 .. Extra)
    OBVIOUS
  <2>1. /\ OneRom /\ Buttons \subseteq Named
        /\ Members(app) /\ Runs(app) /\ Fine(app) /\ Tape(app) /\ app.running
        /\ app \in Window
    BY DEF MoviesAssumption, TapeInv, WindowInv, CoreInv, TypeInv, Tape, Reel, Members
  <2>2. CASE Tick
    <3>1. app' = RunOnce(app)
      BY <2>2 DEF Tick
    <3> QED BY <2>1, <3>1, RunOnceEnds DEF Films
  <2>3. CASE Step
    <3> DEFINE w == [app EXCEPT !.paused = TRUE, !.timer = FALSE]
    <3>1. app' = RunOnce(w)
      BY <2>3 DEF Step
    <3>2. /\ w \in Window /\ Alike(app, w) /\ w.opened = app.opened
          /\ w.recordMode = app.recordMode /\ w.ff = app.ff
      BY <2>1, ZenonT(30) DEF Window, Alike
    <3>3. Fine(w)
      BY <2>1, StepFine
    <3> HIDE DEF w
    <3>4. Films(w)
      BY <2>1, <3>2, <3>3, EditTape DEF Films, Alike
    <3>5. Playing(w) /\ w.tape = app.tape
      BY <3>2 DEF Alike, Playing
    <3> QED BY <2>1, <3>1, <3>2, <3>4, <3>5, RunOnceEnds
  <2> QED BY <2>2, <2>3
<1>2. Spec => [][Ended]_app
  <2>1. TapeInv /\ [Next]_app => [Ended]_app
    BY <1>1
  <2> HIDE DEF Ended
  <2> QED BY <2>1, TapeAlways, PTL DEF Spec
<1> QED BY <1>2 DEF EndsTheTape
=============================================================================
