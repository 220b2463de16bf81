SPECIFICATION Spec
CONSTANTS
  Names <- MCNames
  Addresses = {"a", "b"}
  Unmapped = "hole"
  Values = {0, 1}
  NumPlayers = 2
  Score = "score"
  Lives = "lives"
  Position = "score"
  Prev = "prev"
  LevelEnd = 0
  FrameLimit = 2
  Files <- MCTimed
  InfoFiles <- MCInfoFiles
  StateNamed = FALSE
  Written = {"score", "lives"}
  Edited = {}
  MaxFrames = 3
PROPERTIES ReportsKept
