SPECIFICATION Spec
CONSTANTS
  r1 = r1
  r2 = r2
  rainbow = rainbow
  confura = confura
  scan = scan
  Requests = {r1, r2}
  Keys = {rainbow, confura}
  KindOf <- MCKindBilling
  Costs = {1, 2}
  MaxCost = 2
  Quota <- MCQuotaBilling
  MaxInFlight = 2
  MaxFaults = 2
SYMMETRY Symmetry
INVARIANTS
  TypeOK
  
  PendingCoversInFlight
  PendingIsUnanswered
  NeverOverbilled
  BilledExactly
  OvershootBound
CHECK_DEADLOCK FALSE
