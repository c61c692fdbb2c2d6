CONSTANTS
  w1 = w1  w2 = w2  w3 = w3
  o1 = o1  o2 = o2  o3 = o3
  c1 = c1  c2 = c2
  Offers <- ThreeOffers
  Classes <- TwoClasses
  Objects <- ThreeObjects
  Target <- ThreeTargets
  ClassOf <- SharedClass
  Handler = Handler
  None = None
  Dumps = {d1, d2}
  Callers = {}
SPECIFICATION FairSpec
INVARIANTS TypeOK NoLostRef NoEmptyList NoException
PROPERTIES ServiceSpec
