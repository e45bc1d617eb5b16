\* Settings, stored files, the inbox, a customer's account (two overlapping
\* requests, up to three addresses) and money, each part on its own.
SPECIFICATION Spec
CONSTANTS
  e1 = e1  e2 = e2  f1 = f1  f2 = f2  k1 = k1  k2 = k2  k3 = k3
  a1 = a1  a2 = a2  a3 = a3  q1 = q1  q2 = q2
  r1 = r1  r2 = r2  t1 = t1  t2 = t2  NoKey = NoKey
  Editors = {e1, e2}
  Keys <- OneOfEachType
  Editable <- AllButOne
  MaxEdits = 2
  Clients = {f1, f2}
  ObjectKeys = {k1, k2, k3}
  Recipients = {r1, r2}
  Tabs = {t1, t2}
  PageSize = 2
  MaxNotifications = 3
  MaxClock = 3
  Amounts <- SmallAmounts
  Counts <- FewParts
  Requests = {q1, q2}
  Ids = {a1, a2, a3}
  Phones = {"x", "y"}
  OpeningPhone = "x"
  MaxChanges = 5
SYMMETRY Symmetry
INVARIANTS
  SavedIsUsed
  RowsHaveObjects
  SplitLeavesNothing
PROPERTIES
  TrailChains
  ReadOnceByItsUser
  ChosenIsOnlyDefault
  AloneKeepsOneDefault
  RemovedStaysRemoved
CHECK_DEADLOCK FALSE
