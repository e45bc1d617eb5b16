\* Four overlapping registrations, three of which claim the same phone.
SPECIFICATION FairSpec
CONSTANTS
  r1 = r1  r2 = r2  r3 = r3  r4 = r4  Nobody = Nobody
  Requests = {r1, r2, r3, r4}
  Email <- SentTwice
  Phone <- SharedPhone
  OpeningStaff = 1
  MaxStaff = 2
INVARIANTS
  TypeOK
  OneAccountEach
  NextCodeFree
  ReferrersCameFirst
PROPERTIES
  EveryRequestEnds
  ImplementsRegistry
CHECK_DEADLOCK FALSE
