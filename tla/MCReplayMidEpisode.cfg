SPECIFICATION Spec
CONSTANTS
  p1 = p1
  a = a
  reset = reset
  Players <- MCPlayers
  Buttons <- MCButtons
  Named <- OneNamed
  Inputs <- MCInputs
  States = {s1}
  NoState = NoState
  NoMovie = NoMovie
  Habits = {"manual", "midEpisode"}
  Endings = {0}
  MaxFrames = 3
  MaxMovies = 2
PROPERTY ReplayKept
CHECK_DEADLOCK FALSE
