---------------------------- MODULE MCFulfilment ----------------------------
(***************************************************************************)
(* Constants of Fulfilment for TLC.  Every cfg takes its instance from the *)
(* definitions here; each one names the bounds it sets.                    *)
(***************************************************************************)
EXTENDS Fulfilment, TLC

CONSTANTS o1, o2, o3, c1, c2, c3, d1, d2, p1, p2, x1, x2

\* All orders belong to c1; or one each to the two referred customers; or two
\* to a referred customer and one to the referrer.
OneOwner == [o \in Orders |-> c1]
ReferredOwners == o1 :> c2 @@ o2 :> c3
ReferredTwice == o1 :> c2 @@ o2 :> c2 @@ o3 :> c1

NoReferrals == [c \in Customers |-> Nobody]
ReferredByC1 == [c \in Customers |-> IF c = c1 THEN Nobody ELSE c1]

UnitPrice == [x \in Products |-> 1]

\* The fee is a setting and may be negative: clampAtZero is for that case.
Rebate == -2

DefaultCancelAllowed == {"PENDING", "CONFIRMED", "PROCESSING"}

CartOf(n) == [x \in Products |-> n]
OneBottle == {CartOf(1)}
TwoBottles == {CartOf(2)}

\* A bottle that is sold and not exchanged.
OneTakeAway == {[x \in Products |-> IF x \in Exchange THEN 0 ELSE 1]}

Stocked(n) == [x \in Products |-> n]
Filled2 == Stocked(2)
Filled3 == Stocked(3)
Filled4 == Stocked(4)

Form(b, e, g, cash) ==
  [delivered |-> b, empties |-> e, damaged |-> g, pays |-> cash > 0, cash |-> cash]

OneOrTwo == OneBottle \cup TwoBottles

\* Up to one bottle per line handed over, up to two empties back, one of them
\* perhaps damaged, with and without cash.
ExchangeForms ==
  {Form(1, 0, 0, 1), Form(1, 1, 0, 0), Form(1, 2, 0, 1), Form(1, 1, 1, 2),
   Form(0, 0, 1, 1)}

\* Counts above and below the quantity of a line.
LineForms == {Form(b, e, 0, 0) : b \in 0..2, e \in {0, 1, 3}}

\* Nothing counts as handed over, and an empty is given along.
EmptyBack == {Form(0, 1, 0, 0)}

\* Handed over or not, paid in full or not at all.
PaidForms == {Form(1, 0, 0, 1), Form(0, 0, 0, 1), Form(1, 0, 0, 0)}
PaidForm == {Form(1, 0, 0, 1)}
FullForm == {Form(1, 0, 0, 0)}

\* Requests, vans and order ids of one owner are interchangeable.
Symmetry == Permutations(Procs) \cup Permutations(Drivers)

\* All or nothing handed over, no empties, no cash.
PlainForms == {Form(0, 0, 0, 0), Form(1, 0, 0, 0)}

=============================================================================
