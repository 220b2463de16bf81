-------------------------------- MODULE Replay --------------------------------
(***************************************************************************)
(* RetroEnv as a recorder of movies (src/retro/retro_env.py) and           *)
(* playback_movie.py as the player of them, over the files of Movie.  The  *)
(* recorder and the player are two processes that share the files.         *)
(*                                                                         *)
(* The emulated console is deterministic: its state is where it started    *)
(* from (a savestate, or NoState for power-on with the two frames that     *)
(* RetroEmulator and RetroEnv run) and the joypad input of every frame     *)
(* since; loading a savestate starts again from there.                     *)
(***************************************************************************)
EXTENDS Movie

CONSTANTS
  States,     \* savestates
  Inputs,     \* the button masks the client plays
  Habits,     \* what the client does, see below
  Endings,    \* how many frames --ending may add after the last line
  MaxFrames,  \* bound: frames since the last savestate, and see CanReset
  MaxMovies,  \* bound: movies started in a behaviour
  NoMovie

(***************************************************************************)
(* The client may ask for a movie of every episode ("auto"), or call       *)
(* record_movie and reset right after it, as examples/brute.py does        *)
(* ("manual").  "midEpisode" lets it start a movie in an episode, or reset *)
(* inside a movie; "stateless" lets it record without a savestate.         *)
(***************************************************************************)
ASSUME ReplayAssumption ==
  /\ Inputs \subseteq Keys
  /\ Habits \subseteq {"auto", "manual", "midEpisode", "stateless"}
  /\ NoState \notin States
  /\ Endings \subseteq Nat
  /\ MaxFrames \in Nat /\ MaxMovies \in Nat

VARIABLES
  env,   \* the RetroEnv of the recording process
  disk,  \* the movie files
  tv,    \* the playing process: playback_movie.py
  opened \* the movies started so far

vars == <<env, disk, tv, opened>>

Starts == States \cup {NoState}
Best == <<NoState, 0>>                        \* the path given to record_movie
Paths == (States \X (0 .. MaxMovies)) \cup {Best}
Console == [from : Starts, frames : Seq(Keys)]

PowerOn == [from |-> NoState, frames |-> <<>>]
Restored(state) == [from |-> state, frames |-> <<>>]
Frame(console, keys) == [console EXCEPT !.frames = Append(@, keys)]
Room(console) == Len(console.frames) < MaxFrames

NoEnv == [phase |-> "none", console |-> PowerOn, initial |-> NoState,
          auto |-> FALSE, id |-> 0, movie |-> NoMovie, started |-> FALSE]

Init ==
  /\ env = NoEnv
  /\ disk = [p \in Paths |-> Absent]
  /\ tv = [phase |-> "idle", movie |-> OpenRead(Absent), console |-> PowerOn,
           shown |-> <<>>, tape |-> <<>>, more |-> 0]
  /\ opened = 0
-----------------------------------------------------------------------------
(***************************************************************************)
(* The recorder.                                                           *)
(***************************************************************************)
Live == env.phase = "live"
Manual == env.movie # NoMovie /\ env.movie.path = Best
\* record_movie was called and nothing was recorded yet.
Pending == Manual /\ env.movie.log = <<>>

\* Dropping the last reference to a movie closes it.
Flushed(movie) ==
  IF movie = NoMovie THEN disk ELSE [disk EXCEPT ![movie.path] = Close(movie)]

\* record_movie: the new object is there before the old one goes.
RecordMovie(path) == SetState(OpenWrite(path, disk[path]), env.initial)

\* movie.step(), and the console the frame of that line ends in.
Recorded(movie, console) ==
  IF movie = NoMovie THEN NoMovie
  ELSE [StepWrite(movie) EXCEPT
          !.outs = IF movie.log = <<>> THEN @ ELSE Append(@, console)]

Make ==
  /\ env.phase = "none"
  /\ \E state \in Starts, auto \in {FALSE} \cup {"auto" \in Habits} :
       env' = [NoEnv EXCEPT !.phase = "live", !.initial = state, !.auto = auto]
  /\ UNCHANGED <<disk, tv, opened>>

\* The console a reset starts the episode on.
ResetConsole ==
  Frame(IF env.initial # NoState THEN Restored(env.initial) ELSE env.console,
        NoKeys)

\* Bound: a movie goes on over a reset while it is shorter than MaxFrames.
CanReset ==
  /\ Live
  /\ env.initial = NoState => Room(env.console)
  /\ Manual /\ ~Pending =>
       "midEpisode" \in Habits /\ Len(env.movie.log) < MaxFrames

Reset ==
  /\ CanReset
  /\ ~env.auto
  /\ env' = [env EXCEPT !.console = ResetConsole, !.started = TRUE,
                        !.movie = Recorded(@, ResetConsole)]
  /\ UNCHANGED <<disk, tv, opened>>

\* With a movie of its own for every episode.
ResetAuto ==
  /\ CanReset
  /\ env.auto /\ env.initial # NoState /\ opened < MaxMovies
  /\ env' = [env EXCEPT
               !.console = ResetConsole, !.started = TRUE, !.id = @ + 1,
               !.movie = Recorded(RecordMovie(<<env.initial, env.id>>),
                                  ResetConsole)]
  /\ disk' = Flushed(env.movie)
  /\ opened' = opened + 1
  /\ UNCHANGED tv

\* Without a state name the path cannot be made: TypeError after the frame.
ResetFails ==
  /\ CanReset
  /\ env.auto /\ env.initial = NoState
  /\ env' = [env EXCEPT !.console = ResetConsole]
  /\ UNCHANGED <<disk, tv, opened>>

Step(keys) ==
  /\ Live /\ env.started /\ Room(env.console)
  /\ Pending => "midEpisode" \in Habits
  /\ LET console == Frame(env.console, keys)
         movie == IF env.movie = NoMovie THEN NoMovie
                  ELSE SetKeys(env.movie, keys)
     IN env' = [env EXCEPT !.console = console,
                           !.movie = Recorded(movie, console)]
  /\ UNCHANGED <<disk, tv, opened>>

StartMovie ==
  /\ Live /\ "manual" \in Habits
  /\ env.initial # NoState \/ "stateless" \in Habits
  /\ opened < MaxMovies
  /\ env' = [env EXCEPT !.movie = RecordMovie(Best)]
  /\ disk' = Flushed(env.movie)
  /\ opened' = opened + 1
  /\ UNCHANGED tv

\* Fault: the movie is forgotten and not closed.
StopRecordDropsMovie ==
  /\ env.phase # "none"
  /\ env' = [env EXCEPT !.auto = FALSE, !.id = 0, !.movie = NoMovie]
  /\ UNCHANGED <<disk, tv, opened>>

StopRecord ==
  /\ env.phase # "none"
  /\ env' = [env EXCEPT !.auto = FALSE, !.id = 0, !.movie = NoMovie]
  /\ disk' = Flushed(env.movie)
  /\ UNCHANGED <<tv, opened>>

AutoRecord ==
  /\ Live /\ "auto" \in Habits
  /\ env' = [env EXCEPT !.auto = TRUE]
  /\ UNCHANGED <<disk, tv, opened>>

LoadState ==
  /\ Live
  /\ Pending => "midEpisode" \in Habits
  /\ \E state \in States : env' = [env EXCEPT !.initial = state]
  /\ UNCHANGED <<disk, tv, opened>>

\* close() drops the emulator; the movie stays with the environment.
CloseEnv ==
  /\ Live
  /\ env' = [env EXCEPT !.phase = "closed"]
  /\ UNCHANGED <<disk, tv, opened>>

\* The last reference to the environment goes.
Collect ==
  /\ env.phase # "none"
  /\ env' = NoEnv
  /\ disk' = Flushed(env.movie)
  /\ UNCHANGED <<tv, opened>>

\* The process is killed; nothing is destroyed in order.
Die ==
  /\ env.phase # "none"
  /\ env' = NoEnv
  /\ UNCHANGED <<disk, tv, opened>>
-----------------------------------------------------------------------------
(***************************************************************************)
(* The player: load_movie, which skips the line of the reset frame, and    *)
(* the loop of playback_movie.                                             *)
(***************************************************************************)
LoadMovie(path) ==
  /\ tv.phase # "playing"
  /\ Loadable(disk[path])
  /\ \E more \in Endings :
       tv' = [phase |-> "playing", movie |-> StepRead(OpenRead(disk[path])),
              console |-> Frame(Restored(disk[path].core), NoKeys),
              shown |-> <<>>, tape |-> disk[path].outs, more |-> more]
  /\ UNCHANGED <<env, disk, opened>>

Playing == tv.phase = "playing"

\* A movie of several players: the loop takes the reward of a step, which is
\* one number, for a list of one reward each.  That is a TypeError after the
\* frame was run and before it is sent; the console goes with the process.
Several == \E p, q \in Players : p # q
Failed == [tv EXCEPT !.phase = "failed"]

PlayFrame ==
  /\ Playing /\ ~AtEnd(tv.movie)
  /\ LET movie == StepRead(tv.movie)
         console == Frame(tv.console, movie.keys)
     IN tv' = IF Several THEN Failed
              ELSE [tv EXCEPT !.movie = movie, !.console = console,
                              !.shown = Append(@, console)]
  /\ UNCHANGED <<env, disk, opened>>

\* A frame past the last line, without keys; shown is of the lines alone.
PlayMore ==
  /\ Playing /\ AtEnd(tv.movie) /\ tv.more > 0
  /\ tv' = IF Several THEN Failed
           ELSE [tv EXCEPT !.console = Frame(@, NoKeys), !.more = @ - 1]
  /\ UNCHANGED <<env, disk, opened>>

PlayEnd ==
  /\ Playing /\ AtEnd(tv.movie) /\ tv.more = 0
  /\ tv' = [tv EXCEPT !.phase = "over"]
  /\ UNCHANGED <<env, disk, opened>>

Next ==
  \/ Make \/ Reset \/ ResetAuto \/ ResetFails
  \/ \E keys \in Inputs : Step(keys)
  \/ StartMovie \/ StopRecord \/ AutoRecord \/ LoadState
  \/ CloseEnv \/ Collect \/ Die
  \/ \E path \in Paths : LoadMovie(path)
  \/ PlayFrame \/ PlayMore \/ PlayEnd

\* The loop of the player runs on while there is something to do.
Spec ==
  /\ Init /\ [][Next]_vars
  /\ WF_vars(PlayFrame \/ PlayMore \/ PlayEnd)
-----------------------------------------------------------------------------
File == [log : Seq(Keys), header : BOOLEAN, core : Starts, outs : Seq(Console)]

Writer == [path : Paths, base : File, log : Seq(Keys), keys : Keys,
           state : Starts, outs : Seq(Console)]

ASSUME NoMovieAssumption == NoMovie \notin Writer

\* The members of RetroEnv, MovieBK2 and the player have their types, and a
\* reader stays inside its log.
TypeOK ==
  /\ env \in [phase : {"none", "live", "closed"}, console : Console,
              initial : Starts, auto : BOOLEAN, id : 0 .. MaxMovies,
              movie : Writer \cup {NoMovie}, started : BOOLEAN]
  /\ disk \in [Paths -> File]
  /\ opened \in 0 .. MaxMovies
  /\ tv \in [phase : {"idle", "playing", "over", "failed"}, console : Console,
             movie : [log : Seq(Keys), pos : Nat, keys : Keys, state : Starts],
             shown : Seq(Console), tape : Seq(Console), more : Nat]
  /\ tv.movie.pos <= Len(tv.movie.log)

\* A movie of one player that loads, recorded with a savestate and from the
\* start of an episode, shows from its savestate and its lines alone the
\* consoles that were there while it was recorded, all of them and in their
\* order, and the player comes to its end (step, reset and record_movie
\* against load_movie and playback_movie).
Promise ==
  INSTANCE ReplayPromise WITH
    Output <- Console, tape <- tv.tape, shown <- tv.shown,
    playing <- Playing

ReplayKept == Promise!Spec

\* The same movie, going on.
Continues(old, new) ==
  /\ new # NoMovie
  /\ new.path = old.path
  /\ Len(new.log) >= Len(old.log)

\* However a recording ends (the next episode, record_movie again, stop_record,
\* the environment collected before or after close()), all its lines are in
\* the file of its path; only the death of the process loses a movie.
NoMovieLost ==
  [][env.movie # NoMovie /\ ~Continues(env.movie, env'.movie) /\ ~Die =>
       disk'[env.movie.path].log = env.movie.log]_vars

\* A file that auto-recording left behind can be loaded, whatever the client
\* did and wherever the recorder was killed: it is absent or complete
\* (reset, record_movie and MovieBK2::close against MovieBK2::load).
AutoMoviesLoad ==
  \A p \in Paths \ {Best} : disk[p] # Absent => Loadable(disk[p])
=============================================================================
