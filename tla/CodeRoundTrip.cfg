SPECIFICATION Spec
CONSTANTS
  Bits4 = 3
  Bits8 = 4
  Bits16 = 6
  Jobs <- MCJobs
INVARIANTS
  NoCheckFails
  SameFlow
  SameRegisters
  
  WellPlaced
  BlocksEnteredAtTop
