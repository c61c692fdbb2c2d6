CONSTANTS
  jar = jar  act = act  v1 = v1
  Jars <- OneJar
  Files <- OneFile
  Weavable <- Woven
  Components <- Activities
  Variants <- OneVariant
  Name <- Debug
  Settings = {"DEBUG", "NEVER"}
  MaxVersion = 2
  None = None
SPECIFICATION Spec
INVARIANTS WovenIsFull EmptyCopies
