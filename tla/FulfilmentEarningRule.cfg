\* Two referred customers' orders complete at the same time.
SPECIFICATION Spec
CONSTANTS
  o1 = o1  o2 = o2  o3 = o3  c1 = c1  c2 = c2  c3 = c3  d1 = d1  d2 = d2
  p1 = p1  p2 = p2  x1 = x1  x2 = x2  Nobody = Nobody
  Procs = {p1, p2}
  Orders = {o1, o2}
  Customers = {c1, c2, c3}
  Drivers = {d1, d2}
  Products = {x1}
  Exchange = {x1}
  RewardProduct = x1
  Owner <- ReferredOwners
  Carts <- OneBottle
  Price <- UnitPrice
  DeliveryFee = 0
  CancelAllowed <- DefaultCancelAllowed
  Referrer <- ReferredByC1
  QualifyingMin = 0
  RewardEvery = 2
  InitialFilled <- Filled3
  Forms <- PaidForm
  MaxAttempts = 1
  MaxHistory = 7
  StaleAssign = FALSE
  StaleReconcile = FALSE
SYMMETRY Symmetry
INVARIANTS
  EarnedByRule
CHECK_DEADLOCK FALSE
