SPECIFICATION FairSpec
CONSTANTS
  b1 = b1
  b2 = b2
  Nil = Nil
  NRunners = 2
  NConns = 2
  MaxActors = 3
  Builders = {b1, b2}
  Types = {2, 3}
  Handled = {2}
  LenMod = 2
  Sizes = {1, 2, 3}
  MaxCalls = 3
INVARIANTS
  TypeOK
  SocketFile
PROPERTIES
  ReplyIsOwn
  
CHECK_DEADLOCK FALSE
