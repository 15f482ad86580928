SPECIFICATION Spec
CONSTANTS
  c1 = c1
  c2 = c2
  confura = confura
  main = main
  test = test
  Conns = {c1, c2}
  Servers = {confura}
  CostTypes = {main, test}
  ServerOf <- MCServerOf
  MaxPlan = 2
SYMMETRY Symmetry
INVARIANTS
  TypeOK
  ServerLimitersFollowPlan
  CostLimitersFollowPlan
  
