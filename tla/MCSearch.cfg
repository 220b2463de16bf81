SPECIFICATION Spec
CONSTANTS
  Blocks <- MCBlocks
  Memories <- MCMemories
  Turned = 1
  Byte = 4
  Nibble = 2
  Ten = 3
  Types <- MCTypes
  Wanted <- MCWanted
  Deltas <- MCDeltas
  None = None
INVARIANTS OrderedByAddress NothingRefuted NothingLost TakenIsLast
