SPECIFICATION Spec
CONSTANTS
  e1 = e1
  e2 = e2
  d1 = d1
  nes = nes
  gba = gba
  a26 = a26
  txt = txt
  Nes = Nes
  Gba = Gba
  Atari = Atari
  NoEmulator = NoEmulator
  NoData = NoData
  NoRom = NoRom
  NoCore = NoCore
  Emulators = {e1, e2}
  Datas = {d1}
  Roms = {nes, gba, a26, txt}
  Cores = {Nes, Gba, Atari}
  CoreOf <- MCCoreOf
  Stella = Atari
  MapsAtLoad = {Nes}
  MapsAtRun = {Gba}
  Dupes = {Gba}
  Keys = {0}
  MaxOpens = 2
SYMMETRY MCSymmetry
INVARIANTS TypeOK SingleOwner AttachedIsLive LifecycleLegal ClosedLibraryCalls
PROPERTY SecondLoadRefused
CHECK_DEADLOCK FALSE
