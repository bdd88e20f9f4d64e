SPECIFICATION FairSpec
CONSTANTS
  Capacity = 1
  Faults = {"io"}
  MaxLines = 3
  MaxFiles = 3
  MaxTruncations = 1
  MaxCrashes = 1
INVARIANTS
  TypeOK
  EmittedInOrder
  EmittedAreLines
  PassedIsEmitted
PROPERTY CatchesUp
