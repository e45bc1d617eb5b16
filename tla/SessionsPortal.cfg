\* One user, who registers or has an account of some role, and two browsers.
SPECIFICATION FairSpec
CONSTANTS
  u1 = u1  b1 = b1  b2 = b2  NoCookie = NoCookie
  Users = {u1}
  Browsers = {b1, b2}
  OpeningUser <- NewOrOld
  Visited = {"/login", "/admin", "/manager", "/customer", "/notifications"}
  MaxAge = 1
  MaxTime = 2
  MaxSessions = 2
INVARIANTS
  TablesAgree
PROPERTIES
  ServedAsOfNow
  RefusedForAReason
  SignedOutForGood
  EveryVisitAnswered
CHECK_DEADLOCK FALSE
