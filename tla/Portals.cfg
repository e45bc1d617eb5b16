\* Lists cut to one row, so that rows drop out of both.
SPECIFICATION Spec
CONSTANTS
  Agents = {1}
  Drivers = {d1, d2}
  RegisteredBy <- TwoJoin
  ReferredBy <- FirstRefersSecond
  HeldBy <- OneInStock
  CancelAllowed = {"PENDING"}
  Redeeming = {1}
  Slots = {1}
  ListLength = 1
  OwnLength = 1
  GlanceLength = 1
  AddressRows <- TwoOrOneEach
  MaxOrders = 2
  MaxAttempts = 2
INVARIANTS
  OffersHonoured
  WorkIsReachable
PROPERTIES
  LinksLead
SYMMETRY AlikeDrivers
CHECK_DEADLOCK FALSE
