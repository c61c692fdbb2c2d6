CONSTANTS
  a = a  b = b  c = c  s = s
  Objects <- ApartObjects
  Strings = {}
  Fields <- ApartFields
  Size <- ApartSize
  Content <- NoStrings
  Interned = {}
  Threads = {t1}
  Buffers = {1, 2}
  MaxLeft = 2
  MaxAgents = 2
  Null = Null
SPECIFICATION FairSpec
INVARIANTS FullSizeExact
