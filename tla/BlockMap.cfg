CONSTANTS
  f1 = f1
  f2 = f2
  File = {f1, f2}
  SIZE = 30
  META = 2
  NDIRECT = 1
  NINDIRECT = 2
  Word <- MCWord
  MaxSize <- MCMaxSize
  Counts <- MCCounts
  MaxTruncs = 2
SPECIFICATION Spec
INVARIANTS ReadiIsRight BlocksAreAccounted
CHECK_DEADLOCK FALSE
