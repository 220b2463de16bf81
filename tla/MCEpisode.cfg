SPECIFICATION Spec
CONSTANTS
  Names <- MCNames
  Addresses = {"a", "b"}
  Unmapped = "hole"
  Values = {0, 1}
  NumPlayers = 2
  Score = "score"
  Lives = "lives"
  Position = "score"
  Prev = "prev"
  LevelEnd = 0
  FrameLimit = 2
  Files <- MCFiles
  InfoFiles <- MCInfoFiles
  StateNamed = FALSE
  Written = {"score", "lives"}
  Edited = {"lives"}
  MaxFrames = 3
INVARIANTS TypeOK EarnedIsProgress EarnedIsPeak NothingHidden
PROPERTIES ReportsKept
VIEW Seen
