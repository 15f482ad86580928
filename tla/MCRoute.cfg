SPECIFICATION Spec
CONSTANTS
  Requests = {r1, r2}
  Kinds = {"rpc", "scan", "api"}
  Confs <- MCConfs
  Nets <- MCNets
  MaxMaps = 2
  Nil = Nil
INVARIANTS
  TypeOK
  AnswerIsOwn
  LengthFits
  ChargedAsOwn
  MiddlewareIsOwn
PROPERTIES
  WarmStaysWarm
SYMMETRY Symmetry
