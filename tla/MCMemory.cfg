SPECIFICATION Spec
CONSTANTS
  work = work
  cart = cart
  genesis = genesis
  snes = snes
  b1 = b1
  b2 = b2
  b3 = b3
  b4 = b4
  b5 = b5
  b6 = b6
  b7 = b7
  b8 = b8
  name = name
  NoBuffer = NoBuffer
  NoOverlay = NoOverlay
  Freed = Freed
  AllBits = AllBits
  Nib = 4
  Ten = 3
  Word = 65536
  Names = {name}
  Cores <- MCCores
  Regions <- MCRegions
  Maps <- MCMaps
  OverlayOf <- MCOverlayOf
  Images <- MCImages
  Pool <- MCPool
  Types <- MCTypes
  Masks <- MCMasks
  Written <- MCWritten
  Values <- MCValues
INVARIANTS
  TypeOK
  OwnedOnce
  ReadsAsBytes
  WriteReads
  OnlyItsBytes
PROPERTY
  KeepsMemories
