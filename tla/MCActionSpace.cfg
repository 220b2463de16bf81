SPECIFICATION Spec
CONSTANTS
  NumButtons = 4
  NumPads = 2
  CoreFiles <- MCCoreFiles
  Scenarios <- MCScenarios
  Kinds <- MCKinds
INVARIANTS OnlyFiltered SpaceIsFiltered
