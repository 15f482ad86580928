SPECIFICATION Spec
CONSTANTS
  c1 = c1
  c2 = c2
  o1 = o1
  o2 = o2
  Nil = Nil
  Conns = {c1, c2}
  Objects = {o1, o2}
  Names <- MCNames
  Values <- MCValues
  Inputs <- MCInputs
  Infos <- MCInfos
  Paths <- MCPaths
  Codes <- MCCodes
  ChainLen = 2
  MaxOps = 2
  MaxCalls = 2
SYMMETRY Symmetry
INVARIANTS
  TypeOK
  SeesOwnRequest
PROPERTIES
  Implements
CHECK_DEADLOCK FALSE
