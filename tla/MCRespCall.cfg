SPECIFICATION Spec
CONSTANTS
  c1 = c1
  c2 = c2
  o1 = o1
  o2 = o2
  Nil = Nil
  Blank = Blank
  Conns = {c1, c2}
  Objects = {o1, o2}
  Names <- MCNames
  Values <- MCValues
  Inputs <- MCInputs
  Infos <- MCInfos
  Codes <- MCCodes
  Bodies <- MCBodies
  ChainLen = 2
  MaxOps = 3
  MaxCalls = 2
SYMMETRY Symmetry
INVARIANTS
  TypeOK
  SeesOwnResponse
  
CHECK_DEADLOCK FALSE
