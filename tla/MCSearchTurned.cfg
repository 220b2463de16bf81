SPECIFICATION Spec
CONSTANTS
  Blocks <- MCWords
  Memories <- MCWordMemories
  Turned = 2
  Byte = 4
  Nibble = 2
  Ten = 3
  Types <- MCTypes
  Wanted <- MCWanted
  Deltas <- MCDeltas
  None = None
INVARIANTS NothingLost
