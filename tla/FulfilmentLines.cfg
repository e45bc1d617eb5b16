\* Orders with two exchange lines, counts above and below a line's quantity, and
\* assign forms that are submitted twice or out of date.
SPECIFICATION Spec
CONSTANTS
  o1 = o1  o2 = o2  o3 = o3  c1 = c1  c2 = c2  c3 = c3  d1 = d1  d2 = d2
  p1 = p1  p2 = p2  x1 = x1  x2 = x2  Nobody = Nobody
  Procs = {p1, p2}
  Orders = {o1, o2}
  Customers = {c1}
  Drivers = {d1}
  Products = {x1, x2}
  Exchange = {x1, x2}
  RewardProduct = x1
  Owner <- OneOwner
  Carts <- OneBottle
  Price <- UnitPrice
  DeliveryFee = 0
  CancelAllowed <- DefaultCancelAllowed
  Referrer <- NoReferrals
  QualifyingMin = 0
  RewardEvery = 1
  InitialFilled <- Filled2
  Forms <- LineForms
  MaxAttempts = 1
  MaxHistory = 7
  StaleAssign = TRUE
  StaleReconcile = FALSE
SYMMETRY Symmetry
INVARIANTS
  SurplusIsOwed
  BottlesConserved
  CancelledNeverDispatched
CHECK_DEADLOCK FALSE
