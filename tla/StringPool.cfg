SPECIFICATION Spec
CONSTANTS
  Text <- MCText
  File <- MCFile
  HashOf <- MCHashOf
  InitialBuckets = 2
INVARIANTS
  RoomToGrow
  FoundOnce
PROPERTIES
  FileIndexes
  Interns
CHECK_DEADLOCK FALSE
