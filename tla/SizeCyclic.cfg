CONSTANTS
  a = a  b = b  c = c  s = s
  Objects <- CyclicObjects
  Strings <- OneString
  Fields <- CyclicFields
  Size <- CyclicSize
  Content <- Characters
  Interned = {}
  Threads = {t1, t2}
  Buffers = {1, 2, 3}
  MaxLeft = 1
  MaxAgents = 2
  Null = Null
SPECIFICATION FairSpec
INVARIANTS OneAgentPerLoad OneOwner ExactFromEmpty
PROPERTIES WalksEnd
