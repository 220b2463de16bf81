---------------------------- MODULE ReplayProofs ----------------------------
(***************************************************************************)
(* What holds of movies for any number of players, buttons, savestates,    *)
(* frames and movies.  First the types, the files that auto-recording      *)
(* leaves and the movies no client can lose; these hold whatever the       *)
(* client does.  Then the promise of docs/python.md that a movie shows     *)
(* what was played, which needs a client that names all of its buttons and *)
(* starts its movies where an episode starts.                              *)
(***************************************************************************)
EXTENDS Replay, ListProofs

EnvState == [phase : {"none", "live", "closed"}, console : Console,
             initial : Starts, auto : BOOLEAN, id : 0 .. MaxMovies,
             movie : Writer \cup {NoMovie}, started : BOOLEAN]

Reader == [log : Seq(Keys), pos : Nat, keys : Keys, state : Starts]

TvState == [phase : {"idle", "playing", "over", "failed"}, console : Console,
            movie : Reader, shown : Seq(Console), tape : Seq(Console), more : Nat]

\* The ids of an environment do not outrun the movies it has started.
TypeInv == TypeOK /\ env.id <= opened
-----------------------------------------------------------------------------
(***************************************************************************)
(* The operations of Movie and of the console.                             *)
(***************************************************************************)
LEMMA NoKeysTyped == NoKeys \in Keys
  BY DEF NoKeys, Keys

LEMMA ConsoleTyped ==
  /\ PowerOn \in Console
  /\ \A state \in Starts : Restored(state) \in Console
  /\ \A c \in Console, keys \in Keys :
       /\ Frame(c, keys) \in Console
       /\ Frame(c, keys).from = c.from
       /\ Frame(c, keys).frames = Append(c.frames, keys)
  BY DEF PowerOn, Restored, Console, Frame, Starts

LEMMA OpenTyped ==
  ASSUME NEW path \in Paths, NEW file \in File, NEW state \in Starts,
         NEW m, m = SetState(OpenWrite(path, file), state)
  PROVE /\ m \in Writer /\ m.path = path /\ m.log = <<>> /\ m.outs = <<>>
        /\ m.state = state /\ m.keys = NoKeys
  <1>1. NoKeys \in Keys /\ <<>> \in Seq(Keys) /\ <<>> \in Seq(Console)
    BY NoKeysTyped
  <1>2. NoState \in Starts
    BY DEF Starts
  <1> QED BY <1>1, <1>2 DEF SetState, OpenWrite, Writer

LEMMA SetKeysTyped ==
  ASSUME NEW m \in Writer, NEW keys \in Keys, NEW n, n = SetKeys(m, keys)
  PROVE /\ n \in Writer /\ n.keys = keys /\ n.path = m.path
        /\ n.log = m.log /\ n.outs = m.outs /\ n.state = m.state
  BY DEF SetKeys, Writer

\* The line that step() writes: the buttons that have a name.
Line(keys) == [p \in Players |-> keys[p] \cap Named]

LEMMA LineTyped ==
  ASSUME NEW keys \in Keys
  PROVE Line(keys) \in Keys
  BY DEF Line, Keys

\* A recorded frame is one line, and one console after the first.
LEMMA RecordedTyped ==
  ASSUME NEW m \in Writer, NEW c \in Console, NEW n, n = Recorded(m, c)
  PROVE /\ n \in Writer /\ n # NoMovie /\ n.path = m.path
        /\ n.state = m.state /\ n.keys = NoKeys
        /\ n.log = Append(m.log, Line(m.keys))
        /\ m.log = <<>> => n.outs = m.outs
        /\ m.log # <<>> => n.outs = Append(m.outs, c)
  <1> DEFINE line == Line(m.keys)
             log == Append(m.log, line)
             outs == IF m.log = <<>> THEN m.outs ELSE Append(m.outs, c)
  <1>1. line \in Keys /\ NoKeys \in Keys
    BY LineTyped, NoKeysTyped DEF Writer
  <1>2. log \in Seq(Keys) /\ outs \in Seq(Console)
    BY <1>1 DEF Writer
  <1>3. m # NoMovie
    BY NoMovieAssumption
  <1>4. StepWrite(m) = [m EXCEPT !.log = log, !.keys = NoKeys]
    BY DEF StepWrite, Line
  <1>5. n = [m EXCEPT !.log = log, !.keys = NoKeys, !.outs = outs]
    BY <1>3, <1>4 DEF Recorded, Writer
  <1> HIDE DEF log, outs
  <1>6. /\ n \in Writer /\ n.path = m.path /\ n.state = m.state
        /\ n.keys = NoKeys /\ n.log = log /\ n.outs = outs
    BY <1>1, <1>2, <1>5 DEF Writer
  <1> QED BY <1>6, NoMovieAssumption DEF log, outs

LEMMA CloseTyped ==
  ASSUME NEW m \in Writer
  PROVE Close(m) \in File
  BY DEF Close, Writer, File

LEMMA FlushedTyped ==
  ASSUME NEW m \in Writer \cup {NoMovie}, disk \in [Paths -> File]
  PROVE /\ Flushed(m) \in [Paths -> File]
        /\ m # NoMovie => Flushed(m)[m.path] = Close(m)
        /\ m # NoMovie => \A p \in Paths \ {m.path} : Flushed(m)[p] = disk[p]
        /\ m = NoMovie => Flushed(m) = disk
  <1>1. CASE m = NoMovie
    BY <1>1 DEF Flushed
  <1>2. CASE m # NoMovie
    <2>1. m \in Writer /\ m.path \in Paths
      BY <1>2 DEF Writer
    <2>2. Close(m) \in File
      BY <2>1, CloseTyped
    <2> QED BY <1>2, <2>1, <2>2 DEF Flushed
  <1> QED BY <1>1, <1>2

LEMMA StepReadTyped ==
  ASSUME NEW r \in Reader, r.pos <= Len(r.log), NEW n, n = StepRead(r)
  PROVE /\ n \in Reader /\ n.pos <= Len(n.log) /\ n.log = r.log
        /\ n.state = r.state
        /\ AtEnd(r) => n = r
        /\ ~AtEnd(r) => n.pos = r.pos + 1 /\ n.keys = r.log[r.pos + 1]
  <1>1. CASE AtEnd(r)
    BY <1>1 DEF StepRead
  <1>2. CASE ~AtEnd(r)
    <2> DEFINE keys == r.log[r.pos + 1]
               pos == r.pos + 1
    <2>1. r.log \in Seq(Keys) /\ r.pos \in Nat /\ r.pos # Len(r.log)
      BY <1>2 DEF Reader, AtEnd
    <2>2. keys \in Keys /\ pos \in Nat /\ pos <= Len(r.log)
      BY <2>1
    <2>3. n = [r EXCEPT !.pos = pos, !.keys = keys]
      BY <1>2 DEF StepRead, Reader
    <2> HIDE DEF keys, pos
    <2> QED BY <1>2, <2>2, <2>3 DEF Reader, keys, pos
  <1> QED BY <1>1, <1>2
-----------------------------------------------------------------------------
(***************************************************************************)
(* The types.                                                              *)
(***************************************************************************)
LEMMA TypeParts ==
  TypeOK <=> /\ env \in EnvState /\ disk \in [Paths -> File]
             /\ opened \in 0 .. MaxMovies
             /\ tv \in TvState /\ tv.movie.pos <= Len(tv.movie.log)
  BY DEF TypeOK, EnvState, TvState, Reader

LEMMA NoEnvTyped == NoEnv \in EnvState
  BY ConsoleTyped, ReplayAssumption DEF NoEnv, EnvState, Starts

LEMMA AbsentTyped == Absent \in File
  BY DEF Absent, File, Starts

LEMMA BestPath == Best \in Paths
  BY DEF Paths

LEMMA ResetConsoleTyped ==
  ASSUME TypeInv
  PROVE /\ ResetConsole \in Console
        /\ env.initial # NoState =>
             ResetConsole = [from |-> env.initial, frames |-> <<NoKeys>>]
  <1>1. env \in EnvState
    BY TypeParts DEF TypeInv
  <1>2. env.initial \in Starts /\ env.console \in Console
    BY <1>1 DEF EnvState
  <1>3. ResetConsole \in Console
    BY <1>2, ConsoleTyped, NoKeysTyped DEF ResetConsole
  <1>4. Frame(Restored(env.initial), NoKeys)
          = [from |-> env.initial, frames |-> <<NoKeys>>]
    BY DEF Frame, Restored
  <1> QED BY <1>3, <1>4 DEF ResetConsole

LEMMA TypeInit == Init => TypeInv
  <1> SUFFICES ASSUME Init PROVE TypeInv
    OBVIOUS
  <1>1. env \in EnvState /\ env.id <= opened /\ opened \in 0 .. MaxMovies
    BY NoEnvTyped, ReplayAssumption DEF Init, NoEnv
  <1>2. disk \in [Paths -> File]
    BY AbsentTyped DEF Init
  <1>3. OpenRead(Absent) = [log |-> <<>>, pos |-> 0, keys |-> NoKeys, state |-> NoState]
    BY DEF OpenRead, Absent
  <1>4. OpenRead(Absent) \in Reader
    BY <1>3, NoKeysTyped DEF Reader, Starts
  <1>5. tv \in TvState /\ tv.movie.pos <= Len(tv.movie.log)
    BY <1>3, <1>4, ConsoleTyped DEF Init, TvState
  <1> QED BY <1>1, <1>2, <1>5, TypeParts DEF TypeInv

\* What a reset and a step make of the movie of the environment.
LEMMA MovieRecorded ==
  ASSUME NEW m \in Writer \cup {NoMovie}, NEW c \in Console
  PROVE  Recorded(m, c) \in Writer \cup {NoMovie}
  BY RecordedTyped DEF Recorded

\* The movie that record_movie opens.
LEMMA RecordMovieTyped ==
  ASSUME TypeInv, NEW path \in Paths, NEW m, m = RecordMovie(path)
  PROVE /\ m \in Writer /\ m # NoMovie /\ m.path = path
        /\ m.log = <<>> /\ m.outs = <<>>
        /\ m.state = env.initial /\ m.keys = NoKeys
  <1>1. env.initial \in Starts /\ disk[path] \in File
    BY TypeParts DEF TypeInv, EnvState
  <1>2. m = SetState(OpenWrite(path, disk[path]), env.initial)
    BY DEF RecordMovie
  <1> QED BY <1>1, <1>2, OpenTyped, NoMovieAssumption

LEMMA MakeType ==
  ASSUME TypeInv, Make
  PROVE  TypeInv'
  <1>1. PICK state \in Starts, auto \in {FALSE} \cup {"auto" \in Habits} :
          env' = [NoEnv EXCEPT !.phase = "live", !.initial = state, !.auto = auto]
    BY Zenon DEF Make
  <1>2. auto \in BOOLEAN
    <2>1. ("auto" \in Habits) \in BOOLEAN
      OBVIOUS
    <2> QED BY <2>1
  <1>3. env' \in EnvState /\ env'.id = 0
    BY <1>1, <1>2, NoEnvTyped DEF NoEnv, EnvState
  <1> QED BY <1>3, TypeParts DEF TypeInv, Make, TypeOK, EnvState, TvState, Reader

LEMMA ResetType ==
  ASSUME TypeInv, Reset
  PROVE  TypeInv'
  <1> DEFINE c == ResetConsole
             m == Recorded(env.movie, ResetConsole)
  <1>1. env \in EnvState
    BY TypeParts DEF TypeInv
  <1>2. c \in Console /\ m \in Writer \cup {NoMovie}
    BY <1>1, ResetConsoleTyped, MovieRecorded DEF EnvState
  <1>3. env' = [env EXCEPT !.console = c, !.started = TRUE, !.movie = m]
    BY <1>1 DEF Reset, EnvState
  <1> HIDE DEF c, m
  <1>4. env' \in EnvState /\ env'.id = env.id
    BY <1>1, <1>2, <1>3 DEF EnvState
  <1> QED BY <1>4, TypeParts DEF TypeInv, Reset, TypeOK, EnvState, TvState, Reader

LEMMA ResetAutoType ==
  ASSUME TypeInv, ResetAuto
  PROVE  TypeInv'
  <1> DEFINE c == ResetConsole
             path == <<env.initial, env.id>>
             m == RecordMovie(path)
             n == Recorded(m, ResetConsole)
             i == env.id + 1
  <1>1. env \in EnvState /\ env.id <= opened /\ opened \in Nat
        /\ opened < MaxMovies /\ env.initial # NoState
    BY TypeParts DEF TypeInv, ResetAuto
  <1>2. path \in Paths
    BY <1>1 DEF EnvState, Paths, Starts
  <1>3. m \in Writer
    <2> HIDE DEF path
    <2> QED BY <1>2, RecordMovieTyped
  <1>4. c \in Console /\ n \in Writer
    <2>1. c \in Console
      BY ResetConsoleTyped
    <2> HIDE DEF m
    <2> QED BY <1>3, <2>1, RecordedTyped
  <1>5. env' = [env EXCEPT !.console = c, !.started = TRUE, !.id = i, !.movie = n]
    BY <1>1 DEF ResetAuto, EnvState
  <1>6. i \in 0 .. MaxMovies /\ i <= opened'
        /\ opened' \in 0 .. MaxMovies
    BY <1>1, ReplayAssumption DEF EnvState, ResetAuto
  <1> HIDE DEF c, n, i
  <1>7. env' \in EnvState /\ env'.id = i
    BY <1>1, <1>4, <1>5, <1>6 DEF EnvState
  <1>8. disk' \in [Paths -> File]
    BY <1>1, FlushedTyped, TypeParts DEF EnvState, ResetAuto, TypeInv
  <1>9. tv' \in TvState /\ tv'.movie.pos <= Len(tv'.movie.log)
    BY TypeParts DEF TypeInv, ResetAuto
  <1> QED BY <1>6, <1>7, <1>8, <1>9 DEF TypeInv, TypeOK, EnvState, TvState, Reader

LEMMA ResetFailsType ==
  ASSUME TypeInv, ResetFails
  PROVE  TypeInv'
  <1>1. env \in EnvState
    BY TypeParts DEF TypeInv
  <1>2. env' \in EnvState /\ env'.id = env.id
    BY <1>1, ResetConsoleTyped DEF EnvState, ResetFails
  <1> QED BY <1>2, TypeParts DEF TypeInv, ResetFails, TypeOK, EnvState, TvState, Reader

LEMMA StepType ==
  ASSUME TypeInv, NEW keys \in Inputs, Step(keys)
  PROVE  TypeInv'
  <1> DEFINE c == Frame(env.console, keys)
             m == IF env.movie = NoMovie THEN NoMovie ELSE SetKeys(env.movie, keys)
             n == Recorded(m, c)
  <1>1. env \in EnvState /\ keys \in Keys
    BY TypeParts, ReplayAssumption DEF TypeInv
  <1>2. c \in Console /\ m \in Writer \cup {NoMovie}
    BY <1>1, ConsoleTyped, SetKeysTyped DEF EnvState
  <1>3. n \in Writer \cup {NoMovie}
    <2> HIDE DEF c, m
    <2> QED BY <1>2, MovieRecorded
  <1>4. env' = [env EXCEPT !.console = c, !.movie = n]
    BY DEF Step
  <1> HIDE DEF c, n
  <1>5. env' \in EnvState /\ env'.id = env.id
    BY <1>1, <1>2, <1>3, <1>4 DEF EnvState
  <1> QED BY <1>5, TypeParts DEF TypeInv, Step, TypeOK, EnvState, TvState, Reader

LEMMA StartMovieType ==
  ASSUME TypeInv, StartMovie
  PROVE  TypeInv'
  <1> DEFINE m == RecordMovie(Best)
  <1>1. env \in EnvState /\ opened \in 0 .. MaxMovies /\ env.id <= opened
        /\ opened < MaxMovies
    BY TypeParts DEF TypeInv, StartMovie
  <1>2. m \in Writer
    BY RecordMovieTyped, BestPath
  <1>3. env' = [env EXCEPT !.movie = m]
    BY DEF StartMovie
  <1> HIDE DEF m
  <1>4. env' \in EnvState /\ env'.id = env.id
    BY <1>1, <1>2, <1>3 DEF EnvState
  <1>5. disk' \in [Paths -> File]
    BY <1>1, FlushedTyped, TypeParts DEF EnvState, StartMovie, TypeInv
  <1>6. opened' \in 0 .. MaxMovies /\ env'.id <= opened'
    BY <1>1, <1>4, ReplayAssumption DEF StartMovie, EnvState
  <1>7. tv' \in TvState /\ tv'.movie.pos <= Len(tv'.movie.log)
    BY TypeParts DEF TypeInv, StartMovie
  <1> QED BY <1>4, <1>5, <1>6, <1>7 DEF TypeInv, TypeOK, EnvState, TvState, Reader

\* The other calls of the recorder.
LEMMA OthersType ==
  ASSUME TypeInv,
         StopRecord \/ AutoRecord \/ LoadState \/ CloseEnv \/ Collect \/ Die
  PROVE  TypeInv'
  <1>1. env \in EnvState /\ opened \in 0 .. MaxMovies /\ env.id <= opened
    BY TypeParts DEF TypeInv
  <1>2. disk' \in [Paths -> File]
    BY <1>1, FlushedTyped, TypeParts
    DEF EnvState, TypeInv, StopRecord, AutoRecord, LoadState, CloseEnv, Collect, Die
  <1>3. tv' \in TvState /\ tv'.movie.pos <= Len(tv'.movie.log) /\ opened' = opened
    BY TypeParts
    DEF TypeInv, StopRecord, AutoRecord, LoadState, CloseEnv, Collect, Die
  <1>4. env' \in EnvState /\ env'.id <= opened
    <2>1. CASE StopRecord
      <3>1. 0 \in 0 .. MaxMovies /\ 0 <= opened
        BY <1>1, ReplayAssumption
      <3>2. env' = [env EXCEPT !.auto = FALSE, !.id = 0, !.movie = NoMovie]
        BY <2>1 DEF StopRecord
      <3> QED BY <3>1, <3>2, <1>1 DEF EnvState
    <2>2. CASE AutoRecord
      BY <2>2, <1>1 DEF AutoRecord, EnvState
    <2>3. CASE LoadState
      BY <2>3, <1>1 DEF LoadState, EnvState, Starts
    <2>4. CASE CloseEnv
      BY <2>4, <1>1 DEF CloseEnv, EnvState
    <2>5. CASE Collect \/ Die
      <3>1. 0 <= opened
        BY <1>1, ReplayAssumption
      <3>2. env' = NoEnv /\ NoEnv.id = 0
        BY <2>5 DEF Collect, Die, NoEnv
      <3> QED BY <3>1, <3>2, NoEnvTyped
    <2> QED BY <2>1, <2>2, <2>3, <2>4, <2>5
  <1> QED BY <1>1, <1>2, <1>3, <1>4 DEF TypeInv, TypeOK, EnvState, TvState, Reader

LEMMA OpenReadTyped ==
  ASSUME NEW file \in File
  PROVE /\ OpenRead(file) \in Reader /\ OpenRead(file).pos = 0
        /\ OpenRead(file).log = file.log /\ OpenRead(file).state = file.core
  BY NoKeysTyped DEF OpenRead, File, Reader

LEMMA LoadMovieType ==
  ASSUME TypeInv, NEW path \in Paths, LoadMovie(path)
  PROVE  TypeInv'
  <1> DEFINE file == disk[path]
             r == OpenRead(file)
             n == StepRead(r)
             c == Frame(Restored(file.core), NoKeys)
             tape == file.outs
  <1>1. file \in File /\ file.core \in Starts /\ tape \in Seq(Console)
    BY TypeParts DEF TypeInv, File
  <1>2. r \in Reader /\ r.pos <= Len(r.log)
    BY <1>1, OpenReadTyped DEF Reader
  <1>3. n \in Reader /\ n.pos <= Len(n.log)
    <2> HIDE DEF r
    <2> QED BY <1>2, StepReadTyped
  <1>4. c \in Console
    BY <1>1, ConsoleTyped, NoKeysTyped
  <1>5. PICK more \in Endings :
          tv' = [phase |-> "playing", movie |-> n, console |-> c,
                 shown |-> <<>>, tape |-> tape, more |-> more]
    BY DEF LoadMovie
  <1> HIDE DEF n, c, tape
  <1>6. tv' \in TvState /\ tv'.movie = n
    BY <1>1, <1>3, <1>4, <1>5, ReplayAssumption DEF TvState
  <1> QED BY <1>3, <1>6, TypeParts
          DEF TypeInv, LoadMovie, TypeOK, EnvState, TvState, Reader

LEMMA FailedType ==
  ASSUME TypeInv, tv' = Failed, UNCHANGED <<env, disk, opened>>
  PROVE  TypeInv'
  <1>1. tv \in TvState /\ tv.movie.pos <= Len(tv.movie.log)
    BY TypeParts DEF TypeInv
  <1>2. tv' \in TvState /\ tv'.movie = tv.movie
    BY <1>1 DEF Failed, TvState
  <1> QED BY <1>1, <1>2, TypeParts
          DEF TypeInv, TypeOK, EnvState, TvState, Reader

LEMMA PlayFrameType ==
  ASSUME TypeInv, PlayFrame
  PROVE  TypeInv'
  <1>0. CASE Several
    BY <1>0, FailedType DEF PlayFrame
  <1> DEFINE n == StepRead(tv.movie)
             c == Frame(tv.console, n.keys)
             shown == Append(tv.shown, c)
  <1>1. tv \in TvState /\ tv.movie \in Reader /\ tv.movie.pos <= Len(tv.movie.log)
    BY TypeParts DEF TypeInv, TvState
  <1>2. n \in Reader /\ n.pos <= Len(n.log)
    BY <1>1, StepReadTyped
  <1>3. c \in Console /\ shown \in Seq(Console)
    <2> HIDE DEF n
    <2> QED BY <1>1, <1>2, ConsoleTyped DEF TvState, Reader
  <1>4. ~Several => tv' = [tv EXCEPT !.movie = n, !.console = c, !.shown = shown]
    BY <1>1 DEF PlayFrame, TvState
  <1> HIDE DEF n, c, shown
  <1>5. ~Several => tv' \in TvState /\ tv'.movie = n
    BY <1>1, <1>2, <1>3, <1>4 DEF TvState
  <1> QED BY <1>0, <1>2, <1>5, TypeParts
          DEF TypeInv, PlayFrame, TypeOK, EnvState, TvState, Reader

LEMMA PlayMoreType ==
  ASSUME TypeInv, PlayMore
  PROVE  TypeInv'
  <1>0. CASE Several
    BY <1>0, FailedType DEF PlayMore
  <1> DEFINE c == Frame(tv.console, NoKeys)
             more == tv.more - 1
  <1>1. tv \in TvState /\ tv.movie.pos <= Len(tv.movie.log)
    BY TypeParts DEF TypeInv
  <1>2. c \in Console
    BY <1>1, ConsoleTyped, NoKeysTyped DEF TvState
  <1>3. more \in Nat
    BY <1>1 DEF PlayMore, TvState
  <1>4. ~Several => tv' = [tv EXCEPT !.console = c, !.more = more]
    BY <1>1 DEF PlayMore, TvState
  <1> HIDE DEF c, more
  <1>5. ~Several => tv' \in TvState /\ tv'.movie = tv.movie
    BY <1>1, <1>2, <1>3, <1>4 DEF TvState
  <1> QED BY <1>0, <1>1, <1>5, TypeParts
          DEF TypeInv, PlayMore, TypeOK, EnvState, TvState, Reader

LEMMA PlayEndType ==
  ASSUME TypeInv, PlayEnd
  PROVE  TypeInv'
  <1>1. tv \in TvState /\ tv.movie.pos <= Len(tv.movie.log)
    BY TypeParts DEF TypeInv
  <1>2. tv' \in TvState /\ tv'.movie = tv.movie
    BY <1>1 DEF PlayEnd, TvState
  <1> QED BY <1>1, <1>2, TypeParts
          DEF TypeInv, PlayEnd, TypeOK, EnvState, TvState, Reader

LEMMA TypeNext ==
  ASSUME TypeInv, [Next]_vars
  PROVE  TypeInv'
  <1>1. CASE Make
    BY <1>1, MakeType
  <1>2. CASE Reset
    BY <1>2, ResetType
  <1>3. CASE ResetAuto
    BY <1>3, ResetAutoType
  <1>4. CASE ResetFails
    BY <1>4, ResetFailsType
  <1>5. ASSUME NEW keys \in Inputs, Step(keys) PROVE TypeInv'
    BY <1>5, StepType
  <1>6. CASE StartMovie
    BY <1>6, StartMovieType
  <1>7. CASE StopRecord \/ AutoRecord \/ LoadState \/ CloseEnv \/ Collect \/ Die
    BY <1>7, OthersType
  <1>8. ASSUME NEW path \in Paths, LoadMovie(path) PROVE TypeInv'
    BY <1>8, LoadMovieType
  <1>9. CASE PlayFrame
    BY <1>9, PlayFrameType
  <1>10. CASE PlayMore
    BY <1>10, PlayMoreType
  <1>11. CASE PlayEnd
    BY <1>11, PlayEndType
  <1>12. CASE UNCHANGED vars
    BY <1>12 DEF vars, TypeInv, TypeOK
  <1> QED BY <1>1, <1>2, <1>3, <1>4, <1>5, <1>6, <1>7, <1>8, <1>9, <1>10, <1>11,
             <1>12
          DEF Next

LEMMA TypeInvariant == Spec => []TypeInv
  BY TypeInit, TypeNext, PTL DEF Spec

\* RetroEnv, the movies and the player keep their types, and a reader stays
\* inside its log, whatever the client does (step, reset and record_movie of
\* RetroEnv, MovieBK2::step).
THEOREM MoviesTyped == Spec => []TypeOK
  <1>1. TypeInv => TypeOK
    BY DEF TypeInv
  <1> QED BY <1>1, TypeInvariant, PTL
-----------------------------------------------------------------------------
(***************************************************************************)
(* What becomes of the movies.  A movie that is not at the path given to   *)
(* record_movie was opened by a reset: there was a savestate, and its      *)
(* first line was written at once.                                         *)
(***************************************************************************)
AutoComplete ==
  env.movie # NoMovie /\ env.movie.path # Best =>
    env.movie.state # NoState /\ env.movie.log # <<>>

AutoInv ==
  /\ TypeInv
  /\ AutoMoviesLoad
  /\ AutoComplete
  /\ env.phase = "none" => env.movie = NoMovie

LEMMA ClosedLoads ==
  ASSUME NEW m \in Writer, m.state # NoState, m.log # <<>>
  PROVE  Loadable(Close(m))
  BY DEF Close, Loadable

\* The end of a recording leaves the other files and its own, complete.
LEMMA FlushLoads ==
  ASSUME AutoInv, NEW p \in Paths \ {Best},
         Flushed(env.movie)[p] # Absent
  PROVE  Loadable(Flushed(env.movie)[p])
  <1>1. env.movie \in Writer \cup {NoMovie} /\ disk \in [Paths -> File]
    BY TypeParts DEF AutoInv, TypeInv, EnvState
  <1>2. disk[p] # Absent => Loadable(disk[p])
    BY DEF AutoInv, AutoMoviesLoad
  <1>3. CASE env.movie = NoMovie
    BY <1>1, <1>2, <1>3, FlushedTyped
  <1>4. CASE env.movie # NoMovie /\ env.movie.path # p
    BY <1>1, <1>2, <1>4, FlushedTyped
  <1>5. CASE env.movie # NoMovie /\ env.movie.path = p
    <2>1. env.movie \in Writer /\ Loadable(Close(env.movie))
      BY <1>1, <1>5, ClosedLoads DEF AutoInv, AutoComplete
    <2> QED BY <1>1, <1>5, <2>1, FlushedTyped
  <1> QED BY <1>3, <1>4, <1>5

\* The lines of a movie that is closed are in its file.
LEMMA FlushKeepsLines ==
  ASSUME TypeInv, env.movie # NoMovie
  PROVE  Flushed(env.movie)[env.movie.path].log = env.movie.log
  <1>1. env.movie \in Writer \cup {NoMovie} /\ disk \in [Paths -> File]
    BY TypeParts DEF TypeInv, EnvState
  <1>2. Flushed(env.movie)[env.movie.path] = Close(env.movie)
    BY <1>1, FlushedTyped
  <1> QED BY <1>2 DEF Close

\* A frame that goes into the movie there was: it is the same movie, with one
\* more line.
Grows(old, new) ==
  /\ old = NoMovie => new = NoMovie
  /\ old # NoMovie => /\ new # NoMovie
                      /\ new.path = old.path /\ new.state = old.state
                      /\ \E line \in Keys : new.log = Append(old.log, line)

LEMMA RecordedGrows ==
  ASSUME NEW old \in Writer, NEW m \in Writer, NEW c \in Console,
         m.path = old.path, m.state = old.state, m.log = old.log
  PROVE  Grows(old, Recorded(m, c))
  <1>1. Line(m.keys) \in Keys
    BY LineTyped DEF Writer
  <1> DEFINE n == Recorded(m, c)
  <1>2. /\ n # NoMovie /\ n.path = m.path /\ n.state = m.state
        /\ n.log = Append(m.log, Line(m.keys))
    BY RecordedTyped
  <1> HIDE DEF n
  <1>3. Grows(old, n)
    BY <1>1, <1>2, NoMovieAssumption DEF Grows
  <1> QED BY <1>3 DEF n

LEMMA GrowsContinues ==
  ASSUME NEW old \in Writer, NEW new, Grows(old, new)
  PROVE  Continues(old, new)
  <1>1. old # NoMovie
    BY NoMovieAssumption
  <1>2. PICK line \in Keys : new.log = Append(old.log, line)
    BY <1>1 DEF Grows
  <1>3. old.log \in Seq(Keys)
    BY DEF Writer
  <1> QED BY <1>1, <1>2, <1>3 DEF Grows, Continues

\* Reset and step go on with the movie.
LEMMA ResetGrows ==
  ASSUME TypeInv, Reset
  PROVE  Grows(env.movie, env'.movie) /\ env'.phase = "live" /\ disk' = disk
  <1>1. env \in EnvState /\ env.movie \in Writer \cup {NoMovie}
    BY TypeParts DEF TypeInv, EnvState
  <1>2. /\ env'.movie = Recorded(env.movie, ResetConsole)
        /\ env'.phase = "live" /\ disk' = disk
    BY <1>1 DEF Reset, CanReset, Live, EnvState
  <1>3. CASE env.movie = NoMovie
    BY <1>2, <1>3 DEF Recorded, Grows
  <1>4. CASE env.movie # NoMovie
    <2>1. env.movie \in Writer /\ ResetConsole \in Console
      BY <1>1, <1>4, ResetConsoleTyped
    <2>2. Grows(env.movie, Recorded(env.movie, ResetConsole))
      BY <2>1, RecordedGrows
    <2> QED BY <1>2, <2>2
  <1> QED BY <1>3, <1>4

LEMMA StepGrows ==
  ASSUME TypeInv, NEW keys \in Inputs, Step(keys)
  PROVE  Grows(env.movie, env'.movie) /\ env'.phase = "live" /\ disk' = disk
  <1> DEFINE c == Frame(env.console, keys)
             m == SetKeys(env.movie, keys)
  <1>1. env \in EnvState /\ env.movie \in Writer \cup {NoMovie}
        /\ env.console \in Console /\ keys \in Keys
    BY TypeParts, ReplayAssumption DEF TypeInv, EnvState
  <1>2. /\ env.movie = NoMovie => env'.movie = Recorded(NoMovie, c)
        /\ env.movie # NoMovie => env'.movie = Recorded(m, c)
        /\ env'.phase = "live" /\ disk' = disk
    BY <1>1 DEF Step, Live, EnvState
  <1>3. CASE env.movie = NoMovie
    BY <1>2, <1>3 DEF Recorded, Grows
  <1>4. CASE env.movie # NoMovie
    <2>1. env.movie \in Writer /\ c \in Console
      BY <1>1, <1>4, ConsoleTyped
    <2>2. /\ m \in Writer /\ m.path = env.movie.path
          /\ m.log = env.movie.log /\ m.state = env.movie.state
      BY <1>1, <2>1, SetKeysTyped
    <2> HIDE DEF m, c
    <2>3. Grows(env.movie, Recorded(m, c))
      BY <2>1, <2>2, RecordedGrows
    <2> QED BY <1>2, <1>4, <2>3
  <1> QED BY <1>3, <1>4

\* The calls that leave the movie of the environment where it is.
LEMMA OthersKeepMovie ==
  ASSUME TypeInv, ResetFails \/ AutoRecord \/ LoadState \/ CloseEnv
  PROVE  env'.movie = env.movie /\ env'.phase # "none" /\ disk' = disk
  <1>1. env \in EnvState
    BY TypeParts DEF TypeInv
  <1> QED BY <1>1
          DEF ResetFails, CanReset, AutoRecord, LoadState, CloseEnv, Live, EnvState

\* The calls that end the recording.
LEMMA EndsFlush ==
  ASSUME TypeInv, StopRecord \/ Collect
  PROVE  env'.movie = NoMovie /\ disk' = Flushed(env.movie)
  <1>1. env \in EnvState
    BY TypeParts DEF TypeInv
  <1>2. CASE StopRecord
    BY <1>1, <1>2 DEF StopRecord, EnvState
  <1>3. CASE Collect
    BY <1>3 DEF Collect, NoEnv
  <1> QED BY <1>2, <1>3

\* The calls that open the next movie close the one there was.
LEMMA StartMovieOpens ==
  ASSUME TypeInv, StartMovie
  PROVE /\ env'.movie = RecordMovie(Best) /\ disk' = Flushed(env.movie)
        /\ env'.phase = "live"
  <1>1. env \in EnvState
    BY TypeParts DEF TypeInv
  <1> QED BY <1>1 DEF StartMovie, Live, EnvState

\* The movie of an episode has a savestate and, at once, its first line.
LEMMA ResetAutoOpens ==
  ASSUME TypeInv, ResetAuto
  PROVE /\ env'.movie \in Writer /\ env'.movie.path = <<env.initial, env.id>>
        /\ env'.movie.state = env.initial /\ env.initial # NoState
        /\ env'.movie.log = <<Line(NoKeys)>> /\ env'.movie.outs = <<>>
        /\ env'.movie.keys = NoKeys
        /\ env'.phase = "live" /\ disk' = Flushed(env.movie)
  <1> DEFINE path == <<env.initial, env.id>>
             m == RecordMovie(path)
             n == Recorded(m, ResetConsole)
  <1>1. env \in EnvState /\ env.id <= opened /\ opened \in Nat
        /\ opened < MaxMovies /\ env.initial # NoState
    BY TypeParts DEF TypeInv, ResetAuto
  <1>2. path \in Paths
    BY <1>1 DEF EnvState, Paths, Starts
  <1>3. /\ m \in Writer /\ m.path = path /\ m.log = <<>> /\ m.outs = <<>>
        /\ m.state = env.initial /\ m.keys = NoKeys
    <2> HIDE DEF path
    <2> QED BY <1>2, RecordMovieTyped
  <1>4. ResetConsole \in Console
    BY ResetConsoleTyped
  <1>5. /\ n \in Writer /\ n.path = path /\ n.state = env.initial
        /\ n.keys = NoKeys /\ n.log = Append(<<>>, Line(NoKeys))
        /\ n.outs = <<>>
    <2> HIDE DEF m, path
    <2> QED BY <1>3, <1>4, RecordedTyped
  <1>6. env'.movie = n /\ env'.phase = "live" /\ disk' = Flushed(env.movie)
    BY <1>1 DEF ResetAuto, CanReset, Live, EnvState
  <1>7. Append(<<>>, Line(NoKeys)) = <<Line(NoKeys)>>
    OBVIOUS
  <1> QED BY <1>1, <1>5, <1>6, <1>7

LEMMA MakeMovie ==
  ASSUME TypeInv, Make \/ Die
  PROVE  env'.movie = NoMovie /\ disk' = disk
  <1>1. CASE Make
    BY <1>1 DEF Make, NoEnv
  <1>2. CASE Die
    BY <1>2 DEF Die, NoEnv
  <1> QED BY <1>1, <1>2

LEMMA PlayerKeepsMovies ==
  ASSUME \/ \E path \in Paths : LoadMovie(path)
         \/ PlayFrame \/ PlayMore \/ PlayEnd \/ UNCHANGED vars
  PROVE  env' = env /\ disk' = disk
  BY DEF LoadMovie, PlayFrame, PlayMore, PlayEnd, vars
-----------------------------------------------------------------------------
LEMMA AutoInit == Init => AutoInv
  <1> SUFFICES ASSUME Init PROVE AutoInv
    OBVIOUS
  <1>1. TypeInv
    BY TypeInit
  <1>2. AutoMoviesLoad /\ env.movie = NoMovie
    BY DEF Init, AutoMoviesLoad, NoEnv
  <1> QED BY <1>1, <1>2 DEF AutoInv, AutoComplete

LEMMA GrowsComplete ==
  ASSUME TypeInv, AutoComplete, Grows(env.movie, env'.movie)
  PROVE  AutoComplete'
  <1>1. env.movie \in Writer \cup {NoMovie}
    BY TypeParts DEF TypeInv, EnvState
  <1> SUFFICES ASSUME env'.movie # NoMovie, env'.movie.path # Best
               PROVE  env'.movie.state # NoState /\ env'.movie.log # <<>>
    BY DEF AutoComplete
  <1>2. env.movie \in Writer /\ env.movie # NoMovie
    BY <1>1 DEF Grows
  <1>3. PICK line \in Keys : env'.movie.log = Append(env.movie.log, line)
    BY <1>2 DEF Grows
  <1>4. env.movie.log \in Seq(Keys)
    BY <1>2 DEF Writer
  <1>5. env'.movie.log # <<>>
    BY <1>3, <1>4
  <1> QED BY <1>2, <1>5 DEF Grows, AutoComplete

\* The files of a step that flushes load, and of one that leaves them.
LEMMA FlushedFilesLoad ==
  ASSUME AutoInv, disk' = Flushed(env.movie)
  PROVE  AutoMoviesLoad'
  BY FlushLoads DEF AutoMoviesLoad

LEMMA KeptFilesLoad ==
  ASSUME AutoInv, disk' = disk
  PROVE  AutoMoviesLoad'
  BY DEF AutoInv, AutoMoviesLoad

LEMMA AutoNext ==
  ASSUME AutoInv, [Next]_vars
  PROVE  AutoInv'
  <1>0. TypeInv /\ AutoComplete /\ TypeInv'
    BY TypeNext DEF AutoInv
  <1> DEFINE Rest == /\ AutoMoviesLoad' /\ AutoComplete'
                     /\ env'.phase = "none" => env'.movie = NoMovie
  <1> SUFFICES Rest
    BY <1>0 DEF AutoInv
  <1>1. CASE Make \/ Die
    <2>1. env'.movie = NoMovie /\ disk' = disk
      BY <1>0, <1>1, MakeMovie
    <2> QED BY <2>1, KeptFilesLoad DEF AutoComplete
  <1>2. CASE Reset
    BY <1>0, <1>2, ResetGrows, GrowsComplete, KeptFilesLoad
  <1>3. CASE ResetAuto
    <2>1. AutoMoviesLoad'
      BY <1>0, <1>3, ResetAutoOpens, FlushedFilesLoad
    <2>2. AutoComplete' /\ env'.phase = "live"
      <3>1. <<Line(NoKeys)>> # <<>>
        OBVIOUS
      <3> QED BY <1>0, <1>3, <3>1, ResetAutoOpens DEF AutoComplete
    <2> QED BY <2>1, <2>2
  <1>4. ASSUME NEW keys \in Inputs, Step(keys) PROVE Rest
    BY <1>0, <1>4, StepGrows, GrowsComplete, KeptFilesLoad
  <1>5. CASE StartMovie
    <2>1. AutoMoviesLoad'
      BY <1>0, <1>5, StartMovieOpens, FlushedFilesLoad
    <2>2. env'.movie.path = Best /\ env'.phase = "live"
      BY <1>0, <1>5, StartMovieOpens, RecordMovieTyped, BestPath
    <2> QED BY <2>1, <2>2 DEF AutoComplete
  <1>6. CASE StopRecord \/ Collect
    <2>1. env'.movie = NoMovie /\ disk' = Flushed(env.movie)
      BY <1>0, <1>6, EndsFlush
    <2> QED BY <2>1, FlushedFilesLoad DEF AutoComplete
  <1>7. CASE ResetFails \/ AutoRecord \/ LoadState \/ CloseEnv
    <2>1. env'.movie = env.movie /\ env'.phase # "none" /\ disk' = disk
      BY <1>0, <1>7, OthersKeepMovie
    <2> QED BY <1>0, <2>1, KeptFilesLoad DEF AutoComplete
  <1>8. CASE (\E path \in Paths : LoadMovie(path))
             \/ PlayFrame \/ PlayMore \/ PlayEnd \/ UNCHANGED vars
    <2>1. env' = env /\ disk' = disk
      BY <1>8, PlayerKeepsMovies
    <2> QED BY <1>0, <2>1, KeptFilesLoad DEF AutoInv, AutoComplete
  <1> QED BY <1>1, <1>2, <1>3, <1>4, <1>5, <1>6, <1>7, <1>8 DEF Next

LEMMA AutoInvariant == Spec => []AutoInv
  BY AutoInit, AutoNext, PTL DEF Spec

\* A file that auto-recording left is absent or loads, wherever the recorder
\* was killed, whatever the client did before (reset, record_movie and
\* MovieBK2::close against MovieBK2::load).
THEOREM AutoRecordedLoads == Spec => []AutoMoviesLoad
  <1>1. AutoInv => AutoMoviesLoad
    BY DEF AutoInv
  <1> QED BY <1>1, AutoInvariant, PTL

MovieKept ==
  env.movie # NoMovie /\ ~Continues(env.movie, env'.movie) /\ ~Die =>
    disk'[env.movie.path].log = env.movie.log

LEMMA MovieKeptNext ==
  ASSUME AutoInv, [Next]_vars
  PROVE  MovieKept
  <1> SUFFICES ASSUME env.movie # NoMovie,
                      ~Continues(env.movie, env'.movie), ~Die
               PROVE  disk'[env.movie.path].log = env.movie.log
    BY DEF MovieKept
  <1>0. TypeInv /\ env.phase # "none" /\ env.movie \in Writer
    BY TypeParts DEF AutoInv, TypeInv, EnvState
  <1>1. Continues(env.movie, env.movie)
    BY <1>0 DEF Continues, Writer
  <1>2. /\ ~ UNCHANGED vars /\ ~ PlayFrame /\ ~ PlayMore /\ ~ PlayEnd
        /\ ~ \E path \in Paths : LoadMovie(path)
    BY <1>1, PlayerKeepsMovies
  <1>3. ~ (ResetFails \/ AutoRecord \/ LoadState \/ CloseEnv)
    BY <1>0, <1>1, OthersKeepMovie
  <1>4. ~ Reset /\ \A keys \in Inputs : ~ Step(keys)
    BY <1>0, ResetGrows, StepGrows, GrowsContinues
  <1>5. ~ Make
    BY <1>0 DEF Make
  <1>6. ResetAuto \/ StartMovie \/ StopRecord \/ Collect
    BY <1>2, <1>3, <1>4, <1>5 DEF Next
  <1>7. disk' = Flushed(env.movie)
    BY <1>0, <1>6, ResetAutoOpens, StartMovieOpens, EndsFlush
  <1> QED BY <1>0, <1>7, FlushKeepsLines

\* However a recording ends, all its lines are in the file of its path: only
\* the death of the process loses a movie (the destructor of MovieBK2 under
\* reset, record_movie, stop_record and the end of the environment).
THEOREM OnlyDeathLosesMovies == Spec => NoMovieLost
  <1>1. AutoInv /\ [Next]_vars =>
          [env.movie # NoMovie /\ ~Continues(env.movie, env'.movie) /\ ~Die =>
             disk'[env.movie.path].log = env.movie.log]_vars
    BY MovieKeptNext DEF MovieKept
  <1> QED BY <1>1, AutoInvariant, PTL DEF Spec, NoMovieLost
-----------------------------------------------------------------------------
(***************************************************************************)
(* What a movie shows.  The client plays buttons that have a name, and     *)
(* starts its movies between the episodes and with a savestate, and there  *)
(* is one player.  Each of it is needed: the README names the movies that  *)
(* show something else, or nothing, without it.                            *)
(***************************************************************************)
Faithful ==
  /\ Inputs \subseteq [Players -> SUBSET Named]
  /\ Habits \subseteq {"auto", "manual"}
  /\ ~Several

\* The console that the first n lines of a log lead to.
Reached(state, log, n) == [from |-> state, frames |-> SubSeq(log, 1, n)]

\* The first line is the frame of the reset; every other line leads to the
\* console that was recorded with it.
Reproduces(state, log, outs) ==
  /\ log # <<>> /\ log[1] = NoKeys
  /\ Len(log) = Len(outs) + 1
  /\ \A i \in 1 .. Len(outs) : outs[i] = Reached(state, log, i + 1)

\* A movie that waits for its first frame waits at the savestate it names.
Waiting(m) == m.outs = <<>> /\ m.path = Best /\ env.initial = m.state

MovieTrue ==
  env.movie # NoMovie =>
    LET m == env.movie IN
    /\ m.state # NoState /\ m.keys = NoKeys
    /\ m.path # Best => env.auto
    /\ env.initial # NoState
    /\ m.log = <<>> => Waiting(m)
    /\ m.log # <<>> => Reproduces(m.state, m.log, m.outs)
    /\ m.log # <<>> /\ Live =>
         env.console = [from |-> m.state, frames |-> m.log]

FileTrue(file) ==
  \/ file.log = <<>> /\ file.outs = <<>>
  \/ Reproduces(file.core, file.log, file.outs)

FilesTrue == \A p \in Paths : Loadable(disk[p]) => FileTrue(disk[p])

\* The player is where the lines it has read lead to, until it has read all.
PlayerTrue ==
  Playing =>
    LET r == tv.movie IN
    \/ r.log = <<>> /\ r.pos = 0 /\ tv.tape = <<>> /\ tv.shown = <<>>
    \/ /\ Reproduces(r.state, r.log, tv.tape)
       /\ r.pos >= 1
       /\ r.pos < Len(r.log) => tv.console = Reached(r.state, r.log, r.pos)
       /\ tv.shown = SubSeq(tv.tape, 1, r.pos - 1)

ReplayInv == AutoInv /\ MovieTrue /\ FilesTrue /\ PlayerTrue
-----------------------------------------------------------------------------
(***************************************************************************)
(* Prefixes of sequences.                                                  *)
(***************************************************************************)
LEMMA FirstPrefix ==
  ASSUME NEW S, NEW s \in Seq(S), s # <<>>
  PROVE  SubSeq(s, 1, 1) = <<s[1]>>
  <1>1. Len(s) \in Nat /\ 0 < Len(s) /\ s[1] \in S
    OBVIOUS
  <1>2. Append(SubSeq(s, 1, 0), s[0 + 1]) = SubSeq(s, 1, 0 + 1)
    BY <1>1, PrefixGrows
  <1>3. Append(<<>>, s[1]) = <<s[1]>>
    BY <1>1
  <1>4. SubSeq(s, 1, 0) = <<>>
    BY WholePrefix
  <1>5. Append(<<>>, s[1]) = SubSeq(s, 1, 1)
    BY <1>2, <1>4
  <1> QED BY <1>3, <1>5

\* A movie of one line has shown nothing yet.
LEMMA FirstLine ==
  ASSUME NEW state
  PROVE  Reproduces(state, <<NoKeys>>, <<>>)
  <1>1. <<NoKeys>> # <<>> /\ <<NoKeys>>[1] = NoKeys /\ Len(<<NoKeys>>) = 1
        /\ Len(<<>>) = 0
    OBVIOUS
  <1> QED BY <1>1 DEF Reproduces

\* A step adds the console it leads to.
LEMMA NextLine ==
  ASSUME NEW state, NEW log \in Seq(Keys), NEW outs \in Seq(Console),
         Reproduces(state, log, outs), NEW keys \in Keys, NEW c \in Console,
         c = [from |-> state, frames |-> Append(log, keys)]
  PROVE  Reproduces(state, Append(log, keys), Append(outs, c))
  <1> DEFINE lines == Append(log, keys)
             seen == Append(outs, c)
  <1>1. /\ lines \in Seq(Keys) /\ lines # <<>> /\ Len(lines) = Len(log) + 1
        /\ \A i \in 1 .. Len(log) : lines[i] = log[i]
        /\ \A j \in 1 .. Len(log) : SubSeq(lines, 1, j) = SubSeq(log, 1, j)
        /\ SubSeq(lines, 1, Len(lines)) = lines
    BY AppendParts, PrefixOfAppend, WholePrefix
  <1>2. /\ seen \in Seq(Console) /\ Len(seen) = Len(outs) + 1
        /\ seen[Len(outs) + 1] = c
        /\ \A i \in 1 .. Len(outs) : seen[i] = outs[i]
    BY AppendParts
  <1>3. c = [from |-> state, frames |-> lines]
    OBVIOUS
  <1> HIDE DEF lines, seen
  <1>4. /\ Len(log) \in Nat /\ Len(outs) \in Nat /\ Len(log) = Len(outs) + 1
        /\ log[1] = NoKeys
    BY DEF Reproduces
  <1>5. ASSUME NEW i \in 1 .. Len(seen)
        PROVE  seen[i] = Reached(state, lines, i + 1)
    <2>1. CASE i = Len(outs) + 1
      <3>1. i + 1 = Len(lines)
        BY <1>1, <1>4, <2>1
      <3> QED BY <1>1, <1>2, <1>3, <2>1, <3>1 DEF Reached
    <2>2. CASE i # Len(outs) + 1
      <3>1. i \in 1 .. Len(outs) /\ i + 1 \in 1 .. Len(log)
        BY <1>2, <1>4, <2>2
      <3>2. seen[i] = Reached(state, log, i + 1)
        BY <1>2, <3>1 DEF Reproduces
      <3> QED BY <1>1, <3>1, <3>2 DEF Reached
    <2> QED BY <2>1, <2>2
  <1>6. Reproduces(state, lines, seen)
    BY <1>1, <1>2, <1>4, <1>5 DEF Reproduces
  <1> QED BY <1>6 DEF lines, seen
-----------------------------------------------------------------------------
(***************************************************************************)
(* The recorder keeps its movies and files true.                           *)
(***************************************************************************)
LEMMA NamedLine ==
  ASSUME NEW keys \in [Players -> SUBSET Named]
  PROVE  Line(keys) = keys
  <1>1. \A p \in Players : keys[p] \cap Named = keys[p]
    OBVIOUS
  <1> QED BY <1>1 DEF Line

LEMMA NoKeysLine == Line(NoKeys) = NoKeys
  BY DEF Line, NoKeys

\* The movie that waits is at the path of record_movie, and the client lets
\* it wait for the next reset only.
LEMMA PendingMovie ==
  ASSUME MovieTrue, env.movie # NoMovie, env.movie.log = <<>>
  PROVE  Pending
  BY DEF MovieTrue, Waiting, Pending, Manual

\* The file that a true movie leaves.
LEMMA ClosedTrue ==
  ASSUME MovieTrue, env.movie # NoMovie
  PROVE  FileTrue(Close(env.movie))
  BY DEF MovieTrue, Waiting, FileTrue, Close

LEMMA FlushedTrue ==
  ASSUME ReplayInv, disk' = Flushed(env.movie)
  PROVE  FilesTrue'
  <1>1. env.movie \in Writer \cup {NoMovie} /\ disk \in [Paths -> File]
    BY TypeParts DEF ReplayInv, AutoInv, TypeInv, EnvState
  <1>2. CASE env.movie = NoMovie
    BY <1>1, <1>2, FlushedTyped DEF ReplayInv, FilesTrue
  <1>3. CASE env.movie # NoMovie
    <2>1. FileTrue(Close(env.movie))
      BY <1>3, ClosedTrue DEF ReplayInv
    <2>2. ASSUME NEW p \in Paths, Loadable(disk'[p])
          PROVE  FileTrue(disk'[p])
      BY <1>1, <1>3, <2>1, <2>2, FlushedTyped DEF ReplayInv, FilesTrue
    <2> QED BY <2>2 DEF FilesTrue
  <1> QED BY <1>2, <1>3

\* A movie that starts on the frame of a reset.
LEMMA StartsTrue ==
  ASSUME NEW state, state # NoState,
         env'.movie # NoMovie, env'.movie.state = state,
         env'.movie.keys = NoKeys, env'.movie.outs = <<>>,
         env'.movie.log = <<NoKeys>>,
         env'.movie.path # Best => env'.auto,
         env'.initial # NoState,
         env'.console = [from |-> state, frames |-> <<NoKeys>>]
  PROVE  MovieTrue'
  <1>1. <<NoKeys>> # <<>>
    OBVIOUS
  <1>2. Reproduces(state, <<NoKeys>>, <<>>)
    BY FirstLine
  <1> QED BY <1>1, <1>2 DEF MovieTrue, Live

LEMMA ResetTrue ==
  ASSUME Faithful, ReplayInv, Reset
  PROVE  MovieTrue'
  <1>1. TypeInv /\ env \in EnvState /\ env.movie \in Writer \cup {NoMovie}
    BY TypeParts DEF ReplayInv, AutoInv, TypeInv, EnvState
  <1>2. /\ env'.movie = Recorded(env.movie, ResetConsole)
        /\ env'.console = ResetConsole /\ env'.auto = env.auto
        /\ env'.initial = env.initial
    BY <1>1 DEF Reset, EnvState
  <1>3. CASE env.movie = NoMovie
    BY <1>2, <1>3 DEF Recorded, MovieTrue
  <1>4. CASE env.movie # NoMovie
    <2> DEFINE m == env.movie
               n == Recorded(m, ResetConsole)
    <2>1. m.path = Best /\ Manual
      BY <1>4 DEF Reset, ReplayInv, MovieTrue, Manual
    <2>2. m.log = <<>>
      BY <2>1 DEF Reset, CanReset, Pending, Faithful
    <2>3. /\ m.outs = <<>> /\ env.initial = m.state /\ m.state # NoState
          /\ m.keys = NoKeys
      BY <1>4, <2>2 DEF ReplayInv, MovieTrue, Waiting
    <2>4. ResetConsole = [from |-> m.state, frames |-> <<NoKeys>>]
          /\ ResetConsole \in Console
      BY <1>1, <2>3, ResetConsoleTyped
    <2>5. /\ n # NoMovie /\ n.path = m.path /\ n.state = m.state
          /\ n.keys = NoKeys /\ n.log = Append(m.log, Line(m.keys))
          /\ n.outs = m.outs
      BY <1>1, <1>4, <2>2, <2>4, RecordedTyped
    <2>6. Append(<<>>, NoKeys) = <<NoKeys>>
      OBVIOUS
    <2>7. n.log = <<NoKeys>> /\ n.outs = <<>>
      BY <2>2, <2>3, <2>5, <2>6, NoKeysLine
    <2>8. env'.movie = n
      BY <1>2
    <2> HIDE DEF n, m
    <2> QED BY <1>2, <2>1, <2>3, <2>4, <2>5, <2>7, <2>8, StartsTrue
  <1> QED BY <1>3, <1>4

LEMMA ResetAutoTrue ==
  ASSUME ReplayInv, ResetAuto
  PROVE  MovieTrue' /\ FilesTrue'
  <1>1. TypeInv /\ env \in EnvState
    BY TypeParts DEF ReplayInv, AutoInv, TypeInv
  <1>2. /\ env'.console = ResetConsole /\ env'.auto = env.auto /\ env.auto
        /\ env'.initial = env.initial
    BY <1>1 DEF ResetAuto, EnvState
  <1>3. env'.movie \in Writer /\ env'.movie.state = env.initial
        /\ env.initial # NoState /\ env'.movie.log = <<NoKeys>>
        /\ env'.movie.outs = <<>> /\ env'.movie.keys = NoKeys
        /\ disk' = Flushed(env.movie)
    BY <1>1, ResetAutoOpens, NoKeysLine
  <1>4. ResetConsole = [from |-> env.initial, frames |-> <<NoKeys>>]
    BY <1>1, <1>3, ResetConsoleTyped
  <1>5. MovieTrue'
    BY <1>2, <1>3, <1>4, StartsTrue, NoMovieAssumption
  <1> QED BY <1>3, <1>5, FlushedTrue

LEMMA StepTrue ==
  ASSUME Faithful, ReplayInv, NEW keys \in Inputs, Step(keys)
  PROVE  MovieTrue'
  <1> DEFINE c == Frame(env.console, keys)
             m == SetKeys(env.movie, keys)
             n == Recorded(m, c)
  <1>1. TypeInv /\ env \in EnvState /\ env.movie \in Writer \cup {NoMovie}
        /\ env.console \in Console /\ keys \in Keys
    BY TypeParts, ReplayAssumption DEF ReplayInv, AutoInv, TypeInv, EnvState
  <1>2. /\ env.movie = NoMovie => env'.movie = Recorded(NoMovie, c)
        /\ env.movie # NoMovie => env'.movie = n
        /\ env'.console = c /\ env'.auto = env.auto /\ env'.initial = env.initial
    BY <1>1 DEF Step, EnvState
  <1>3. CASE env.movie = NoMovie
    BY <1>2, <1>3 DEF Recorded, MovieTrue
  <1>4. CASE env.movie # NoMovie
    <2> DEFINE old == env.movie
    <2>1. old \in Writer /\ c \in Console /\ c.from = env.console.from
          /\ c.frames = Append(env.console.frames, keys)
      BY <1>1, <1>4, ConsoleTyped
    <2>2. Live /\ old.log # <<>>
      BY <1>4, PendingMovie DEF Step, Faithful, ReplayInv
    <2>3. /\ old.state # NoState /\ env.initial # NoState
          /\ old.path # Best => env.auto
          /\ Reproduces(old.state, old.log, old.outs)
          /\ env.console = [from |-> old.state, frames |-> old.log]
      BY <1>4, <2>2 DEF ReplayInv, MovieTrue
    <2>4. /\ m \in Writer /\ m.keys = keys /\ m.path = old.path
          /\ m.log = old.log /\ m.outs = old.outs /\ m.state = old.state
      BY <1>1, <2>1, SetKeysTyped
    <2>5. Line(keys) = keys
      BY NamedLine DEF Faithful
    <2>6. c = [from |-> old.state, frames |-> Append(old.log, keys)]
      <3>1. c.from = old.state /\ c.frames = Append(old.log, keys)
        BY <2>1, <2>3
      <3> HIDE DEF c
      <3> QED BY <2>1, <3>1 DEF Console
    <2>7. /\ n # NoMovie /\ n.path = m.path /\ n.state = m.state
          /\ n.keys = NoKeys /\ n.log = Append(m.log, Line(m.keys))
          /\ n.outs = Append(m.outs, c)
      <3> HIDE DEF m, c
      <3> QED BY <2>1, <2>2, <2>4, RecordedTyped, SMTT(20)
    <2>8. old.log \in Seq(Keys) /\ old.outs \in Seq(Console)
      BY <2>1 DEF Writer
    <2> HIDE DEF m, c, n, old
    <2>9. Reproduces(old.state, Append(old.log, keys), Append(old.outs, c))
          /\ Append(old.log, keys) # <<>>
      BY <1>1, <2>1, <2>3, <2>6, <2>8, NextLine, AppendParts
    <2>10. /\ n.state = old.state /\ n.path = old.path
           /\ n.log = Append(old.log, keys) /\ n.outs = Append(old.outs, c)
      BY <2>4, <2>5, <2>7
    <2>11. env'.movie = n
      BY <1>2, <1>4
    <2> QED BY <1>2, <2>3, <2>6, <2>7, <2>9, <2>10, <2>11 DEF MovieTrue
  <1> QED BY <1>3, <1>4

\* The client of examples/brute.py starts its movies with a savestate.
LEMMA StartMovieTrue ==
  ASSUME Faithful, ReplayInv, StartMovie
  PROVE  MovieTrue' /\ FilesTrue'
  <1>1. TypeInv /\ env \in EnvState
    BY TypeParts DEF ReplayInv, AutoInv, TypeInv
  <1>2. env'.initial = env.initial /\ env.initial # NoState
    BY <1>1 DEF StartMovie, EnvState, Faithful
  <1>3. env'.movie = RecordMovie(Best) /\ disk' = Flushed(env.movie)
    BY <1>1, StartMovieOpens
  <1>4. /\ env'.movie.path = Best /\ env'.movie.log = <<>>
        /\ env'.movie.outs = <<>> /\ env'.movie.state = env.initial
        /\ env'.movie.keys = NoKeys
    BY <1>1, <1>3, RecordMovieTyped, BestPath
  <1>5. MovieTrue'
    BY <1>2, <1>4 DEF MovieTrue, Waiting
  <1> QED BY <1>3, <1>5, FlushedTrue

LEMMA OthersTrue ==
  ASSUME Faithful, ReplayInv, ResetFails \/ AutoRecord \/ LoadState \/ CloseEnv
  PROVE  MovieTrue' /\ FilesTrue'
  <1>1. TypeInv /\ env \in EnvState
    BY TypeParts DEF ReplayInv, AutoInv, TypeInv
  <1>2. env'.movie = env.movie /\ disk' = disk
    BY <1>1, OthersKeepMovie
  <1>3. ASSUME env.movie # NoMovie
        PROVE /\ env.auto => env'.auto
              /\ env'.initial # NoState
              /\ env.movie.log = <<>> => env'.initial = env.initial
              /\ Live' => Live /\ env'.console = env.console
    <2>1. CASE ResetFails
      BY <1>3, <2>1 DEF ResetFails, ReplayInv, MovieTrue
    <2>2. CASE AutoRecord
      BY <1>1, <1>3, <2>2 DEF AutoRecord, ReplayInv, MovieTrue, EnvState, Live
    <2>3. CASE LoadState
      <3>1. PICK state \in States : env' = [env EXCEPT !.initial = state]
        BY <2>3 DEF LoadState
      <3>2. env.movie.log # <<>>
        BY <1>3, <2>3, PendingMovie DEF LoadState, Faithful, ReplayInv
      <3> QED BY <1>1, <1>3, <3>1, <3>2, ReplayAssumption DEF EnvState, Live
    <2>4. CASE CloseEnv
      BY <1>1, <1>3, <2>4
      DEF CloseEnv, ReplayInv, MovieTrue, EnvState, Live
    <2> QED BY <2>1, <2>2, <2>3, <2>4
  <1>4. MovieTrue'
    BY <1>2, <1>3 DEF ReplayInv, MovieTrue, Waiting
  <1>5. FilesTrue'
    BY <1>2 DEF ReplayInv, FilesTrue
  <1> QED BY <1>4, <1>5
-----------------------------------------------------------------------------
(***************************************************************************)
(* The player keeps to the lines it has read, and each of its steps is one *)
(* of the promise.                                                         *)
(***************************************************************************)
LEMMA LoadMovieTrue ==
  ASSUME ReplayInv, NEW path \in Paths, LoadMovie(path)
  PROVE  PlayerTrue' /\ Promise!Pick
  <1> DEFINE file == disk[path]
             r == OpenRead(file)
             n == StepRead(r)
             c == Frame(Restored(file.core), NoKeys)
  <1>1. /\ file \in File /\ file.outs \in Seq(Console)
        /\ file.log \in Seq(Keys) /\ file.core \in Starts /\ FileTrue(file)
    BY TypeParts DEF ReplayInv, AutoInv, TypeInv, File, LoadMovie, FilesTrue
  <1>2. /\ r \in Reader /\ r.pos = 0 /\ r.log = file.log /\ r.state = file.core
        /\ r.pos <= Len(r.log)
    BY <1>1, OpenReadTyped
  <1>3. /\ n.log = r.log /\ n.state = r.state
        /\ AtEnd(r) => n = r
        /\ ~AtEnd(r) => n.pos = r.pos + 1
    <2> HIDE DEF r
    <2> QED BY <1>2, StepReadTyped
  <1>4. c = [from |-> file.core, frames |-> <<NoKeys>>]
    BY DEF Frame, Restored
  <1>5. PICK more \in Endings :
          tv' = [phase |-> "playing", movie |-> n, console |-> c,
                 shown |-> <<>>, tape |-> file.outs, more |-> more]
    BY DEF LoadMovie
  <1> HIDE DEF c, n, r
  <1>6. /\ tv'.phase = "playing" /\ tv'.movie = n /\ tv'.console = c
        /\ tv'.shown = <<>> /\ tv'.tape = file.outs
    BY <1>5
  <1>7. Promise!Pick
    BY <1>1, <1>6 DEF Promise!Pick, Playing, LoadMovie
  <1>8. CASE file.log = <<>>
    <2>1. file.outs = <<>>
      BY <1>1, <1>8 DEF FileTrue, Reproduces
    <2>2. n = r
      BY <1>2, <1>3, <1>8 DEF AtEnd
    <2> QED BY <1>2, <1>6, <1>7, <1>8, <2>1, <2>2 DEF PlayerTrue, Playing
  <1>9. CASE file.log # <<>>
    <2>1. Reproduces(file.core, file.log, file.outs)
      BY <1>1, <1>9 DEF FileTrue
    <2>2. ~AtEnd(r) /\ n.pos = 1
      BY <1>1, <1>2, <1>3, <1>9 DEF AtEnd
    <2>3. SubSeq(file.log, 1, 1) = <<NoKeys>>
      BY <1>1, <1>9, <2>1, FirstPrefix DEF Reproduces
    <2>4. SubSeq(file.outs, 1, 1 - 1) = <<>>
      BY <1>1, WholePrefix
    <2>5. c = Reached(n.state, n.log, n.pos)
      BY <1>2, <1>3, <1>4, <2>2, <2>3 DEF Reached
    <2> QED BY <1>2, <1>3, <1>6, <1>7, <2>1, <2>2, <2>4, <2>5 DEF PlayerTrue, Playing
  <1> QED BY <1>8, <1>9

LEMMA ReachedParts ==
  ASSUME NEW state, NEW log, NEW n
  PROVE /\ Reached(state, log, n).from = state
        /\ Reached(state, log, n).frames = SubSeq(log, 1, n)
  BY DEF Reached

LEMMA PlayFrameTrue ==
  ASSUME ReplayInv, PlayFrame, ~Several
  PROVE  PlayerTrue' /\ Promise!Show
  <1> DEFINE r == tv.movie
             n == StepRead(r)
             c == Frame(tv.console, n.keys)
  <1>1. /\ tv \in TvState /\ r \in Reader /\ r.pos <= Len(r.log)
        /\ tv.tape \in Seq(Console) /\ tv.shown \in Seq(Console)
        /\ tv.console \in Console /\ r.log \in Seq(Keys) /\ r.pos \in Nat
    BY TypeParts DEF ReplayInv, AutoInv, TypeInv, TvState, Reader
  <1>2. ~AtEnd(r) /\ r.pos < Len(r.log) /\ r.log # <<>>
    BY <1>1 DEF PlayFrame, AtEnd
  <1>3. /\ Reproduces(r.state, r.log, tv.tape) /\ r.pos >= 1
        /\ tv.console = Reached(r.state, r.log, r.pos)
        /\ tv.shown = SubSeq(tv.tape, 1, r.pos - 1)
    BY <1>2 DEF ReplayInv, PlayerTrue, Playing, PlayFrame
  <1>4. /\ n \in Reader /\ n.log = r.log /\ n.state = r.state
        /\ n.pos = r.pos + 1 /\ n.keys = r.log[r.pos + 1]
    BY <1>1, <1>2, StepReadTyped
  <1>5. /\ tv'.movie = n /\ tv'.console = c /\ tv'.shown = Append(tv.shown, c)
        /\ tv'.tape = tv.tape /\ tv'.phase = "playing" /\ tv.phase = "playing"
    BY <1>1 DEF PlayFrame, Playing, TvState
  <1>6. c \in Console /\ c.from = tv.console.from
        /\ c.frames = Append(tv.console.frames, n.keys)
    <2>1. n.keys \in Keys
      BY <1>4 DEF Reader
    <2> HIDE DEF n
    <2> QED BY <1>1, <2>1, ConsoleTyped
  <1>7. Append(SubSeq(r.log, 1, r.pos), r.log[r.pos + 1])
          = SubSeq(r.log, 1, r.pos + 1)
    BY <1>1, <1>2, PrefixGrows
  <1> HIDE DEF n, c, r
  <1>8. c = Reached(r.state, r.log, r.pos + 1)
    <2>1. c.from = r.state /\ c.frames = SubSeq(r.log, 1, r.pos + 1)
      <3>1. tv.console.from = r.state
            /\ tv.console.frames = SubSeq(r.log, 1, r.pos)
        BY <1>3, ReachedParts
      <3>2. c.frames = Append(SubSeq(r.log, 1, r.pos), r.log[r.pos + 1])
        BY <1>4, <1>6, <3>1
      <3> QED BY <1>6, <1>7, <3>1, <3>2
    <2> QED BY <1>6, <2>1 DEF Reached, Console
  <1>9. /\ Len(r.log) = Len(tv.tape) + 1 /\ r.pos \in 1 .. Len(tv.tape)
        /\ tv.tape[r.pos] = c
    <2>1. Len(r.log) = Len(tv.tape) + 1 /\ r.pos \in 1 .. Len(tv.tape)
      BY <1>1, <1>2, <1>3 DEF Reproduces
    <2> QED BY <1>3, <1>8, <2>1 DEF Reproduces
  <1>10. Len(tv.shown) = r.pos - 1
    BY <1>1, <1>3, <1>9
  <1>11. tv'.shown = SubSeq(tv.tape, 1, r.pos)
    <2>1. r.pos - 1 \in 0 .. Len(tv.tape) /\ r.pos - 1 < Len(tv.tape)
          /\ (r.pos - 1) + 1 = r.pos
      BY <1>1, <1>9
    <2> DEFINE i == r.pos - 1
    <2>2. i \in 0 .. Len(tv.tape) /\ i < Len(tv.tape) /\ i + 1 = r.pos
          /\ tv.shown = SubSeq(tv.tape, 1, i)
      BY <1>3, <2>1
    <2> HIDE DEF i
    <2>3. Append(SubSeq(tv.tape, 1, i), tv.tape[i + 1]) = SubSeq(tv.tape, 1, i + 1)
      BY <1>1, <2>2, PrefixGrows
    <2> QED BY <1>5, <1>9, <2>2, <2>3
  <1>12. Promise!Show
    <2>1. Len(tv.shown) < Len(tv.tape) /\ Len(tv.shown) + 1 = r.pos
      BY <1>1, <1>9, <1>10
    <2> QED BY <1>5, <1>9, <2>1 DEF Promise!Show, Playing
  <1>13. PlayerTrue'
    <2>1. n.pos >= 1 /\ n.pos - 1 = r.pos
      BY <1>1, <1>4
    <2> QED BY <1>3, <1>4, <1>5, <1>8, <1>11, <2>1 DEF PlayerTrue, Playing
  <1> QED BY <1>12, <1>13

\* A frame past the last line shows nothing.
LEMMA PlayMoreTrue ==
  ASSUME ReplayInv, PlayMore, ~Several
  PROVE  PlayerTrue' /\ UNCHANGED Promise!vars
  <1>1. tv \in TvState
    BY TypeParts DEF ReplayInv, AutoInv, TypeInv
  <1>2. /\ tv'.phase = tv.phase /\ tv'.movie = tv.movie /\ tv'.tape = tv.tape
        /\ tv'.shown = tv.shown
    BY <1>1 DEF PlayMore, TvState
  <1>3. tv.movie.pos = Len(tv.movie.log) /\ tv.movie.pos \in Nat
    BY <1>1 DEF PlayMore, AtEnd, TvState, Reader
  <1>4. UNCHANGED Promise!vars
    BY <1>2 DEF Promise!vars, Playing
  <1>5. PlayerTrue'
    BY <1>2, <1>3 DEF ReplayInv, PlayerTrue, Playing
  <1> QED BY <1>4, <1>5

LEMMA PlayEndTrue ==
  ASSUME ReplayInv, PlayEnd
  PROVE  PlayerTrue' /\ Promise!Stop
  <1>1. /\ tv \in TvState /\ tv.movie.pos \in Nat /\ tv.tape \in Seq(Console)
        /\ tv.movie.log \in Seq(Keys)
    BY TypeParts DEF ReplayInv, AutoInv, TypeInv, TvState, Reader
  <1>2. /\ tv.phase = "playing" /\ tv'.phase = "over" /\ tv'.tape = tv.tape
        /\ tv'.shown = tv.shown /\ tv.movie.pos = Len(tv.movie.log)
    BY <1>1 DEF PlayEnd, Playing, TvState, AtEnd
  <1>3. tv.shown = tv.tape
    <2>1. CASE tv.movie.log = <<>>
      BY <1>2, <2>1 DEF ReplayInv, PlayerTrue, Playing, Reproduces
    <2>2. CASE tv.movie.log # <<>>
      <3>1. Len(tv.movie.log) = Len(tv.tape) + 1
            /\ tv.shown = SubSeq(tv.tape, 1, tv.movie.pos - 1)
        BY <1>2, <2>2 DEF ReplayInv, PlayerTrue, Playing, Reproduces
      <3>2. tv.movie.pos - 1 = Len(tv.tape)
        BY <1>1, <1>2, <3>1
      <3> QED BY <1>1, <3>1, <3>2, WholePrefix
    <2> QED BY <2>1, <2>2
  <1>4. Promise!Stop
    BY <1>2, <1>3 DEF Promise!Stop, Playing
  <1> QED BY <1>2, <1>4 DEF PlayerTrue, Playing
-----------------------------------------------------------------------------
LEMMA ReplayInit == Init => ReplayInv /\ Promise!Init
  <1> SUFFICES ASSUME Init PROVE ReplayInv /\ Promise!Init
    OBVIOUS
  <1>1. AutoInv
    BY AutoInit
  <1>2. env.movie = NoMovie
    BY DEF Init, NoEnv
  <1>3. \A p \in Paths : ~Loadable(disk[p])
    BY DEF Init, Absent, Loadable
  <1>4. tv.phase = "idle" /\ tv.shown = <<>> /\ tv.tape = <<>>
    BY DEF Init
  <1> QED BY <1>1, <1>2, <1>3, <1>4
          DEF ReplayInv, MovieTrue, FilesTrue, PlayerTrue, Playing, Promise!Init

LEMMA RecorderTrue ==
  ASSUME Faithful, ReplayInv,
         \/ Make \/ Reset \/ ResetAuto \/ ResetFails
         \/ \E keys \in Inputs : Step(keys)
         \/ StartMovie \/ StopRecord \/ AutoRecord \/ LoadState
         \/ CloseEnv \/ Collect \/ Die
  PROVE  MovieTrue' /\ FilesTrue' /\ tv' = tv
  <1>0. TypeInv
    BY DEF ReplayInv, AutoInv
  <1>1. tv' = tv
    BY DEF Make, Reset, ResetAuto, ResetFails, Step, StartMovie, StopRecord,
           AutoRecord, LoadState, CloseEnv, Collect, Die
  <1> SUFFICES MovieTrue' /\ FilesTrue'
    BY <1>1
  <1>2. ASSUME disk' = disk PROVE FilesTrue'
    BY <1>2 DEF ReplayInv, FilesTrue
  <1>3. CASE Make \/ Die
    <2>1. env'.movie = NoMovie /\ disk' = disk
      BY <1>0, <1>3, MakeMovie
    <2> QED BY <1>2, <2>1 DEF MovieTrue
  <1>4. CASE Reset
    BY <1>0, <1>2, <1>4, ResetTrue, ResetGrows
  <1>5. CASE ResetAuto
    BY <1>5, ResetAutoTrue
  <1>6. ASSUME NEW keys \in Inputs, Step(keys)
        PROVE  MovieTrue' /\ FilesTrue'
    BY <1>0, <1>2, <1>6, StepTrue, StepGrows
  <1>7. CASE StartMovie
    BY <1>7, StartMovieTrue
  <1>8. CASE StopRecord \/ Collect
    <2>1. env'.movie = NoMovie /\ disk' = Flushed(env.movie)
      BY <1>0, <1>8, EndsFlush
    <2> QED BY <2>1, FlushedTrue DEF MovieTrue
  <1>9. CASE ResetFails \/ AutoRecord \/ LoadState \/ CloseEnv
    BY <1>9, OthersTrue
  <1> QED BY <1>3, <1>4, <1>5, <1>6, <1>7, <1>8, <1>9

LEMMA ReplayNext ==
  ASSUME Faithful, ReplayInv, [Next]_vars
  PROVE  ReplayInv' /\ [Promise!Next]_(Promise!vars)
  <1>1. AutoInv'
    BY AutoNext DEF ReplayInv
  <1> SUFFICES /\ MovieTrue' /\ FilesTrue' /\ PlayerTrue'
               /\ [Promise!Next]_(Promise!vars)
    BY <1>1 DEF ReplayInv
  <1>2. ASSUME tv' = tv PROVE PlayerTrue' /\ UNCHANGED Promise!vars
    BY <1>2 DEF ReplayInv, PlayerTrue, Playing, Promise!vars
  <1>3. CASE \/ Make \/ Reset \/ ResetAuto \/ ResetFails
             \/ \E keys \in Inputs : Step(keys)
             \/ StartMovie \/ StopRecord \/ AutoRecord \/ LoadState
             \/ CloseEnv \/ Collect \/ Die
    BY <1>2, <1>3, RecorderTrue
  <1>4. ASSUME env' = env, disk' = disk PROVE MovieTrue' /\ FilesTrue'
    BY <1>4 DEF ReplayInv, MovieTrue, FilesTrue, Live, Waiting
  <1>5. ASSUME NEW path \in Paths, LoadMovie(path)
        PROVE  /\ MovieTrue' /\ FilesTrue' /\ PlayerTrue'
               /\ [Promise!Next]_(Promise!vars)
    BY <1>4, <1>5, PlayerKeepsMovies, LoadMovieTrue DEF Promise!Next
  <1>6. CASE PlayFrame
    BY <1>4, <1>6, PlayerKeepsMovies, PlayFrameTrue DEF Faithful, Promise!Next
  <1>7. CASE PlayMore
    BY <1>4, <1>7, PlayerKeepsMovies, PlayMoreTrue DEF Faithful
  <1>8. CASE PlayEnd
    BY <1>4, <1>8, PlayerKeepsMovies, PlayEndTrue DEF Promise!Next
  <1>9. CASE UNCHANGED vars
    <2>1. tv' = tv /\ env' = env /\ disk' = disk
      BY <1>9 DEF vars
    <2> QED BY <1>2, <1>4, <2>1
  <1> QED BY <1>3, <1>5, <1>6, <1>7, <1>8, <1>9 DEF Next

\* The promise of docs/python.md without its liveness: the steps of the player
\* pick a tape, show its next console, and stop when all were shown.
PromiseSafety == Promise!Init /\ [][Promise!Next]_(Promise!vars)

\* A movie of one player that loads shows the consoles of its recording, in
\* their order, and the player stops when it has shown them all, however many
\* frames it adds to them, for every client that records with a savestate, plays
\* named buttons and starts its movies where an episode starts (step, reset
\* and record_movie against load_movie and playback_movie).
THEOREM MoviesShowWhatWasPlayed == ASSUME Faithful PROVE Spec => PromiseSafety
  <1>1. Init => ReplayInv /\ Promise!Init
    BY ReplayInit
  <1>2. ReplayInv /\ [Next]_vars => ReplayInv' /\ [Promise!Next]_(Promise!vars)
    BY ReplayNext
  <1> QED BY <1>1, <1>2, PTL DEF Spec, PromiseSafety
=============================================================================
