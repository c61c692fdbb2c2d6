CONSTANTS
  w1 = w1  w2 = w2  w3 = w3
  o1 = o1  o2 = o2  o3 = o3
  c1 = c1  c2 = c2
  Offers <- TwoOffers
  Classes <- OneClass
  Objects <- TwoObjects
  Target <- TwoTargets
  ClassOf <- SameClass
  Handler = Handler
  None = None
  Dumps = {d1}
  Callers = {t1}
SPECIFICATION FairSpec
INVARIANTS FreshReport
PROPERTIES MonitorReleased
