SPECIFICATION PySpec
CONSTANTS
  e1 = e1
  e2 = e2
  nes = nes
  gba = gba
  a26 = a26
  txt = txt
  Nes = Nes
  Gba = Gba
  Atari = Atari
  NoEmulator = NoEmulator
  NoData = NoData
  NoRom = NoRom
  NoCore = NoCore
  Emulators = {e1, e2}
  Datas = {1, 2}
  Roms = {nes, gba, a26, txt}
  Cores = {Nes, Gba, Atari}
  CoreOf <- MCCoreOf
  DataOf <- MCDataOf
  Stella = Atari
  MapsAtLoad = {Nes}
  MapsAtRun = {Gba}
  Dupes = {Gba}
  Keys = {0, 1}
  MaxOpens = 3
INVARIANTS EnvOwnsCore PythonCallsLegal DataSeesMap ScreenIsLive
CHECK_DEADLOCK FALSE
