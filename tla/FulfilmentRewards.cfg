\* Two orders of a referred customer, one of the referrer, who may redeem.
SPECIFICATION Spec
CONSTANTS
  o1 = o1  o2 = o2  o3 = o3  c1 = c1  c2 = c2  c3 = c3  d1 = d1  d2 = d2
  p1 = p1  p2 = p2  x1 = x1  x2 = x2  Nobody = Nobody
  Procs = {p1, p2}
  Orders = {o1, o2, o3}
  Customers = {c1, c2}
  Drivers = {d1, d2}
  Products = {x1}
  Exchange = {x1}
  RewardProduct = x1
  Owner <- ReferredTwice
  Carts <- OneBottle
  Price <- UnitPrice
  DeliveryFee = 0
  CancelAllowed <- DefaultCancelAllowed
  Referrer <- ReferredByC1
  QualifyingMin = 0
  RewardEvery = 1
  InitialFilled <- Filled4
  Forms <- PaidForms
  MaxAttempts = 1
  MaxHistory = 7
  StaleAssign = FALSE
  StaleReconcile = FALSE
SYMMETRY Symmetry
INVARIANTS
  RewardsBalance
  QualifiedByPaidOrder
  LocksProtectCompletion
PROPERTIES
  QualifiesOnce
  ImplementsRewards
CHECK_DEADLOCK FALSE
