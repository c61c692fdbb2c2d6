CONSTANTS
  r1 = r1  r2 = r2  c1 = c1  c2 = c2
  Refs <- TwoRefs
  Classes <- TwoClasses
  ClassFor <- Apart
  Dumps = {d1, d2}
  Workers = {p1, p2}
  MaxFree = 0
  MaxTasks = 4
  AtLeastP = TRUE
  None = None
SPECIFICATION FairSpec
INVARIANTS PrintedOnce SizedBeforeReport OneOwner OwnFlag
PROPERTIES SizedPrinted
