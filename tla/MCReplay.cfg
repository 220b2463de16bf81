SPECIFICATION Spec
CONSTANTS
  p1 = p1
  a = a
  reset = reset
  Players <- MCPlayers
  Buttons <- MCButtons
  Named <- OneNamed
  Inputs <- MCInputs
  States = {s1, s2}
  NoState = NoState
  NoMovie = NoMovie
  Habits = {"auto", "manual"}
  Endings = {1}
  MaxFrames = 3
  MaxMovies = 2
INVARIANTS TypeOK AutoMoviesLoad
PROPERTIES ReplayKept NoMovieLost
CHECK_DEADLOCK FALSE
