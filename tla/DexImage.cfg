SPECIFICATION Spec
CONSTANTS
  Jobs <- MCJobs
  Edits <- MCEdits
  Shorty <- MCShorty
  IndexLimit = 24
  LebLimit = 4
  ByteLimit = 4
INVARIANTS
  TypeOK
  NoCheckFails
  SameClasses
  FoundMethods
  WellOrdered
  PointersLand
