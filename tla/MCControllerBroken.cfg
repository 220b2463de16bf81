SPECIFICATION Spec
CONSTANTS
  r1 = r1
  bad = bad
  g1 = g1
  g2 = g2
  s1 = s1
  p1 = p1
  p2 = p2
  a = a
  Players <- MCPlayers
  Buttons = {a}
  Named = {a}
  NoState = NoState
  Roms <- MCRoms
  LoadOutcome <- MCNoLibrary
  Games = {g1, g2}
  GameOf <- MCGameOf
  RomsOf <- MCRomsOf
  States = {s1}
  RomOf <- MCRomOf
  Ending <- MCEnding
  First = p1
  Bound = {p1}
  Seeds <- MCSeeds
  Picked = Picked
  Extra = 2
  Careful = FALSE
  MaxFrames = 2
  MaxMovies = 2
  MaxOpens = 2
  Re = Re
  Ram = Ram
  Con = Con
  Stella = Stella
  NoEmulator = NoEmulator
  NoData = NoData
  NoRom = NoRom
  NoCore = NoCore
  NoMovie = NoMovie
  NoGame = NoGame
  NoName = NoName
  Junk = Junk
INVARIANT RunsLoaded
