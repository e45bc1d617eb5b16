---------------------------- MODULE PortalsProofs ----------------------------
(***************************************************************************)
(* The portals, for any number of people, rows and pages.                  *)
(*                                                                         *)
(* Each page has a scope: which ids its address may carry, and for whom.   *)
(* Pages link within the scope of other pages, and a row once in a scope   *)
(* stays in it, except for an attempt that is given to another driver.     *)
(***************************************************************************)
EXTENDS Portals, SequenceTheorems, TLAPS

-----------------------------------------------------------------------------
(* Types.                                                                  *)

LEMMA ReplaceRow ==
  ASSUME NEW S, NEW s \in Seq(S), NEW i \in DOMAIN s, NEW e \in S
  PROVE  /\ [s EXCEPT ![i] = e] \in Seq(S)
         /\ DOMAIN [s EXCEPT ![i] = e] = DOMAIN s
         /\ \A j \in DOMAIN s : [s EXCEPT ![i] = e][j] = IF j = i THEN e ELSE s[j]
  OBVIOUS

LEMMA AppendRow ==
  ASSUME NEW S, NEW s \in Seq(S), NEW e \in S
  PROVE  /\ Append(s, e) \in Seq(S)
         /\ DOMAIN Append(s, e) = DOMAIN s \cup {Len(s) + 1}
         /\ Append(s, e)[Len(s) + 1] = e
         /\ \A j \in DOMAIN s : Append(s, e)[j] = s[j]
  OBVIOUS

\* Lists are parts of what they are taken from.
LEMMA ListsArePart ==
  ASSUME NEW rows, NEW n
  PROVE  Newest(rows, n) \subseteq rows /\ Soonest(rows, n) \subseteq rows
  BY DEF Newest, Soonest

\* Rows are never deleted, and stay whose they are.
Grown ==
  /\ AllCustomers \subseteq AllCustomers'
  /\ \A o \in AllOrders : o \in AllOrders' /\ order'[o].customer = order[o].customer
  /\ \A a \in AllDeliveries :
       a \in AllDeliveries' /\ delivery'[a].order = delivery[a].order

\* An order changes its status, and nothing else.
LEMMA StatusChanged ==
  ASSUME PortalsTypeOK, NEW o \in AllOrders, NEW status \in OrderStatus,
         order' = [order EXCEPT ![o].status = status]
  PROVE  /\ order' \in Seq(Order) /\ DOMAIN order' = DOMAIN order
         /\ \A p \in AllOrders : order'[p].customer = order[p].customer
  <1> DEFINE row == [order[o] EXCEPT !.status = status]
  <1>1. order \in Seq(Order) /\ o \in DOMAIN order /\ order[o] \in Order
    BY DEF PortalsTypeOK, AllOrders
  <1>2. row \in Order /\ row.customer = order[o].customer
    BY <1>1 DEF Order
  <1>3. order' = [order EXCEPT ![o] = row]
    BY <1>1
  <1> HIDE DEF row
  <1> QED
    BY <1>1, <1>2, <1>3, ReplaceRow DEF AllOrders

\* So does an attempt, with the note that its bottles are still to be returned.
LEMMA AttemptChanged ==
  ASSUME PortalsTypeOK, NEW a \in AllDeliveries, NEW row \in Delivery,
         row.order = delivery[a].order, delivery' = [delivery EXCEPT ![a] = row]
  PROVE  /\ delivery' \in Seq(Delivery) /\ DOMAIN delivery' = DOMAIN delivery
         /\ \A b \in AllDeliveries : delivery'[b].order = delivery[b].order
  <1>1. delivery \in Seq(Delivery) /\ a \in DOMAIN delivery
    BY DEF PortalsTypeOK, AllDeliveries
  <1> QED
    BY <1>1, ReplaceRow DEF AllDeliveries

\* The customers are numbered as they join.
LEMMA Customers ==
  ASSUME PortalsTypeOK
  PROVE  /\ joined \in Nat /\ joined <= Len(RegisteredBy) /\ Len(RegisteredBy) \in Nat
         /\ AllCustomers \subseteq Joinable /\ Joinable = 1..Len(RegisteredBy)
  BY PortalsAssumption DEF PortalsTypeOK, AllCustomers, Joinable

LEMMA RegisterGrows ==
  ASSUME PortalsTypeOK, Register
  PROVE  PortalsTypeOK' /\ Grown
  <1>1. joined' = joined + 1 /\ joined < Len(RegisteredBy)
        /\ UNCHANGED <<address, order, delivery, payment>>
    BY DEF Register
  <1>2. joined' \in 0..Len(RegisteredBy) /\ 1..joined \subseteq 1..joined'
    BY <1>1, Customers
  <1> QED
    BY <1>1, <1>2 DEF PortalsTypeOK, Grown, AllCustomers, AllOrders, AllDeliveries

LEMMA SaveGrows ==
  ASSUME PortalsTypeOK, NEW who \in People, NEW i \in AllAddresses \cup {0},
         NEW default \in BOOLEAN, SaveAddress(who, i, default)
  PROVE  PortalsTypeOK' /\ Grown
  <1> DEFINE c == who.id
             cleared == [j \in AllAddresses |->
                           IF default /\ j \in AddressesOf(c)
                             THEN [address[j] EXCEPT !.default = FALSE] ELSE address[j]]
             row == [customer |-> c, active |-> TRUE,
                     default |-> default \/ listCustomerAddresses(c) = {}]
  <1>1. address \in Seq(Address) /\ \A j \in DOMAIN address : address[j].customer \in 1..joined
    BY DEF PortalsTypeOK
  <1>2. \A j \in DOMAIN address :
          [address[j] EXCEPT !.default = FALSE] \in Address
          /\ [address[j] EXCEPT !.default = FALSE].customer = address[j].customer
    <2> SUFFICES ASSUME NEW j \in DOMAIN address, NEW a, a = address[j]
                 PROVE  /\ [a EXCEPT !.default = FALSE] \in Address
                        /\ [a EXCEPT !.default = FALSE].customer = a.customer
      OBVIOUS
    <2>1. a \in Address
      BY <1>1
    <2> QED
      BY <2>1 DEF Address
  <1>3. /\ cleared \in Seq(Address)
        /\ DOMAIN cleared = DOMAIN address
        /\ \A j \in DOMAIN cleared : cleared[j].customer \in 1..joined
    <2>1. \A j \in DOMAIN address :
            cleared[j] \in Address /\ cleared[j].customer \in 1..joined
      BY <1>1, <1>2 DEF AllAddresses
    <2>2. DOMAIN cleared = 1..Len(address) /\ DOMAIN address = 1..Len(address)
          /\ Len(address) \in Nat
      BY <1>1 DEF AllAddresses
    <2>3. cleared = [j \in 1..Len(address) |-> cleared[j]]
      BY <2>2 DEF AllAddresses
    <2> HIDE DEF cleared
    <2> QED
      BY <2>1, <2>2, <2>3
  <1>4. CASE i # 0 /\ address' = [cleared EXCEPT ![i].default = default]
    <2>1. i \in DOMAIN cleared /\ cleared[i] \in Address
      <3>1. i \in DOMAIN address
        BY <1>4 DEF AllAddresses
      <3> HIDE DEF cleared
      <3> QED
        BY <1>3, <3>1
    <2> DEFINE edited == [cleared[i] EXCEPT !.default = default]
    <2>2. edited \in Address /\ edited.customer = cleared[i].customer
      BY <2>1 DEF Address
    <2>3. address' = [cleared EXCEPT ![i] = edited]
      BY <1>4
    <2> HIDE DEF cleared, edited
    <2>4. /\ address' \in Seq(Address) /\ DOMAIN address' = DOMAIN cleared
          /\ \A j \in DOMAIN cleared :
               address'[j] = IF j = i THEN edited ELSE cleared[j]
      BY <1>3, <2>1, <2>2, <2>3, ReplaceRow
    <2>5. \A j \in DOMAIN address' : address'[j].customer \in 1..joined
      BY <1>3, <2>1, <2>2, <2>4
    <2> QED
      BY <2>4, <2>5 DEF SaveAddress, PortalsTypeOK, Grown, AllCustomers, AllOrders,
         AllDeliveries
  <1>5. CASE i = 0 /\ address' = Append(cleared, row)
    <2>1. c \in AllCustomers
      BY DEF SaveAddress, MaySaveAddress, RequireCustomer, People, Person, AllCustomers
    <2>2. row \in Address /\ row.customer \in 1..joined
      BY <2>1, Customers DEF Address, AllCustomers
    <2> HIDE DEF cleared, row
    <2>3. /\ address' \in Seq(Address)
          /\ DOMAIN address' = DOMAIN cleared \cup {Len(cleared) + 1}
          /\ address'[Len(cleared) + 1] = row
          /\ \A j \in DOMAIN cleared : address'[j] = cleared[j]
      BY <1>3, <1>5, <2>2, AppendRow
    <2>4. \A j \in DOMAIN address' : address'[j].customer \in 1..joined
      BY <1>3, <2>2, <2>3
    <2> QED
      BY <2>3, <2>4 DEF SaveAddress, PortalsTypeOK, Grown, AllCustomers, AllOrders,
         AllDeliveries
  <1> QED
    BY <1>4, <1>5 DEF SaveAddress

LEMMA RemoveGrows ==
  ASSUME PortalsTypeOK, NEW who, NEW i \in AllAddresses, RemoveAddress(who, i)
  PROVE  PortalsTypeOK' /\ Grown
  <1> DEFINE row == [address[i] EXCEPT !.active = FALSE, !.default = FALSE]
  <1>1. address \in Seq(Address) /\ i \in DOMAIN address /\ address[i] \in Address
        /\ \A j \in DOMAIN address : address[j].customer \in 1..joined
    BY DEF PortalsTypeOK, AllAddresses
  <1>2. row \in Address /\ row.customer = address[i].customer
    BY <1>1 DEF Address
  <1>3. address' = [address EXCEPT ![i] = row]
    BY <1>1 DEF RemoveAddress
  <1> HIDE DEF row
  <1>4. /\ address' \in Seq(Address) /\ DOMAIN address' = DOMAIN address
        /\ \A j \in DOMAIN address : address'[j] = IF j = i THEN row ELSE address[j]
    BY <1>1, <1>2, <1>3, ReplaceRow
  <1>5. \A j \in DOMAIN address' : address'[j].customer \in 1..joined
    BY <1>1, <1>2, <1>4
  <1> QED
    BY <1>4, <1>5 DEF RemoveAddress, PortalsTypeOK, Grown, AllCustomers, AllOrders,
       AllDeliveries

LEMMA PlaceGrows ==
  ASSUME PortalsTypeOK, NEW who, NEW c \in AllCustomers, PlaceOrder(who, c)
  PROVE  PortalsTypeOK' /\ Grown
  <1> DEFINE row == [customer |-> c, status |-> "PENDING"]
  <1>1. row \in Order /\ row.customer = c
    BY Customers DEF Order, OrderStatus
  <1>2. order \in Seq(Order) /\ order' = Append(order, row)
        /\ UNCHANGED <<joined, address, delivery, payment>>
    BY DEF PlaceOrder, PortalsTypeOK
  <1> HIDE DEF row
  <1>3. /\ order' \in Seq(Order) /\ DOMAIN order \subseteq DOMAIN order'
        /\ \A o \in DOMAIN order : order'[o] = order[o]
        /\ \A o \in DOMAIN order' : order'[o].customer \in 1..joined
    BY <1>1, <1>2, AppendRow DEF PortalsTypeOK, AllCustomers
  <1> QED
    BY <1>2, <1>3 DEF PortalsTypeOK, Grown, AllCustomers, AllOrders, AllDeliveries

LEMMA CancelGrows ==
  ASSUME PortalsTypeOK, NEW who, NEW o \in AllOrders, CancelOrder(who, o)
  PROVE  PortalsTypeOK' /\ Grown
  <1>1. /\ order' \in Seq(Order) /\ DOMAIN order' = DOMAIN order
        /\ \A p \in AllOrders : order'[p].customer = order[p].customer
    BY StatusChanged DEF CancelOrder, OrderStatus
  <1> QED
    BY <1>1 DEF CancelOrder, PortalsTypeOK, Grown, AllCustomers, AllOrders, AllDeliveries

LEMMA AssignGrows ==
  ASSUME PortalsTypeOK, NEW who, NEW o \in AllOrders, NEW d \in Drivers, NEW slot \in Slots,
         AssignDriver(who, o, d, slot)
  PROVE  PortalsTypeOK' /\ Grown
  <1> DEFINE row == [order |-> o, driver |-> d, due |-> slot, latched |-> FALSE,
                     status |-> "ASSIGNED"]
  <1>1. /\ order' \in Seq(Order) /\ DOMAIN order' = DOMAIN order
        /\ \A p \in AllOrders : order'[p].customer = order[p].customer
    BY StatusChanged DEF AssignDriver, OrderStatus
  <1>2. order \in Seq(Order) /\ delivery \in Seq(Delivery)
    BY DEF PortalsTypeOK
  <1>3. row \in Delivery /\ row.order = o /\ o \in DOMAIN order
    BY <1>2 DEF Delivery, AllOrders
  <1>4. /\ delivery' \in Seq(Delivery) /\ DOMAIN delivery \subseteq DOMAIN delivery'
        /\ \A a \in DOMAIN delivery : delivery'[a].order = delivery[a].order
        /\ \A a \in DOMAIN delivery' : delivery'[a].order \in DOMAIN order
    <2>1. CASE delivery' = Append(delivery, row)
      <3> HIDE DEF row
      <3>1. \A a \in DOMAIN delivery : delivery[a].order \in DOMAIN order
        BY DEF PortalsTypeOK
      <3>2. /\ delivery' \in Seq(Delivery)
            /\ DOMAIN delivery' = DOMAIN delivery \cup {Len(delivery) + 1}
            /\ delivery'[Len(delivery) + 1] = row
            /\ \A a \in DOMAIN delivery : delivery'[a] = delivery[a]
        BY <1>2, <1>3, <2>1, AppendRow
      <3> QED
        BY <1>3, <3>1, <3>2
    <2>2. ASSUME NEW a \in Newest(DeliveriesOf(o), 1), delivery' = [delivery EXCEPT ![a] = row]
          PROVE  /\ delivery' \in Seq(Delivery) /\ DOMAIN delivery' = DOMAIN delivery
                 /\ \A b \in DOMAIN delivery : delivery'[b].order = delivery[b].order
      <3>1. a \in AllDeliveries /\ delivery[a].order = o
        BY <2>2, ListsArePart DEF DeliveriesOf
      <3> HIDE DEF row
      <3> QED
        BY <1>3, <2>2, <3>1, AttemptChanged DEF AllDeliveries
    <2> QED
      BY <2>1, <2>2 DEF AssignDriver, PortalsTypeOK
  <1> QED
    BY <1>1, <1>4 DEF AssignDriver, PortalsTypeOK, Grown, AllCustomers, AllOrders, AllDeliveries

\* The attempt of a driver's or a manager's form, and its order.
LEMMA AttemptGrows ==
  ASSUME PortalsTypeOK, NEW who, NEW a \in AllDeliveries,
         \/ \E cash \in BOOLEAN : CompleteDelivery(who, a, cash)
         \/ FailDelivery(who, a) \/ ReconcileDelivery(who, a)
  PROVE  PortalsTypeOK' /\ Grown
  <1> DEFINE o == delivery[a].order
  <1>1. /\ delivery \in Seq(Delivery) /\ order \in Seq(Order) /\ payment \in Seq(Nat \ {0})
        /\ a \in DOMAIN delivery /\ delivery[a] \in Delivery /\ o \in DOMAIN order
        /\ o \in Nat \ {0}
    BY DEF PortalsTypeOK, AllDeliveries
  <1>2. PICK row \in Delivery : row.order = o /\ delivery' = [delivery EXCEPT ![a] = row]
    <2>1. CASE \E cash \in BOOLEAN : CompleteDelivery(who, a, cash)
      <3>1. [delivery[a] EXCEPT !.status = "DELIVERED"] \in Delivery
            /\ [delivery[a] EXCEPT !.status = "DELIVERED"].order = o
        BY <1>1 DEF Delivery
      <3>2. delivery' = [delivery EXCEPT ![a] = [delivery[a] EXCEPT !.status = "DELIVERED"]]
        BY <1>1, <2>1 DEF CompleteDelivery
      <3> QED
        BY <3>1, <3>2
    <2>2. CASE FailDelivery(who, a)
      <3> DEFINE row == [delivery[a] EXCEPT !.status = "FAILED", !.latched = TRUE]
      <3>1. row \in Delivery /\ row.order = o
        BY <1>1 DEF Delivery
      <3>2. delivery' = [delivery EXCEPT ![a] = row]
        BY <1>1, <2>2 DEF FailDelivery
      <3> QED
        BY <3>1, <3>2
    <2>3. CASE ReconcileDelivery(who, a)
      <3>1. [delivery[a] EXCEPT !.latched = FALSE] \in Delivery
            /\ [delivery[a] EXCEPT !.latched = FALSE].order = o
        BY <1>1 DEF Delivery
      <3>2. delivery' = [delivery EXCEPT ![a] = [delivery[a] EXCEPT !.latched = FALSE]]
        BY <1>1, <2>3 DEF ReconcileDelivery
      <3> QED
        BY <3>1, <3>2
    <2> QED
      BY <2>1, <2>2, <2>3
  <1>3. /\ delivery' \in Seq(Delivery) /\ DOMAIN delivery' = DOMAIN delivery
        /\ \A b \in AllDeliveries : delivery'[b].order = delivery[b].order
    BY <1>2, AttemptChanged
  <1>4. /\ order' \in Seq(Order) /\ DOMAIN order' = DOMAIN order
        /\ \A p \in AllOrders : order'[p].customer = order[p].customer
    <2>1. CASE order' = order
      BY <1>1, <2>1
    <2>2. CASE order' # order
      <3>1. PICK status \in OrderStatus : order' = [order EXCEPT ![o].status = status]
        BY <2>2 DEF CompleteDelivery, FailDelivery, ReconcileDelivery, OrderStatus
      <3> QED
        BY <1>1, <3>1, StatusChanged DEF AllOrders
    <2> QED
      BY <2>1, <2>2
  <1>5. payment' = payment \/ payment' = Append(payment, o)
    BY DEF CompleteDelivery, FailDelivery, ReconcileDelivery
  <1>6. /\ payment' \in Seq(Nat \ {0})
        /\ \A i \in DOMAIN payment' : payment'[i] \in DOMAIN order
    <2>1. CASE payment' = payment
      BY <2>1 DEF PortalsTypeOK
    <2>2. CASE payment' = Append(payment, o)
      <3>1. \A i \in DOMAIN payment : payment[i] \in DOMAIN order
        BY DEF PortalsTypeOK
      <3> HIDE DEF o
      <3>2. /\ payment' \in Seq(Nat \ {0})
            /\ DOMAIN payment' = DOMAIN payment \cup {Len(payment) + 1}
            /\ payment'[Len(payment) + 1] = o
            /\ \A i \in DOMAIN payment : payment'[i] = payment[i]
        <4>1. payment \in Seq(Nat \ {0}) /\ o \in Nat \ {0}
          BY <1>1
        <4>2. /\ Append(payment, o) \in Seq(Nat \ {0})
              /\ DOMAIN Append(payment, o) = DOMAIN payment \cup {Len(payment) + 1}
              /\ Append(payment, o)[Len(payment) + 1] = o
              /\ \A i \in DOMAIN payment : Append(payment, o)[i] = payment[i]
          BY <4>1, AppendRow
        <4> QED
          BY <2>2, <4>2
      <3>3. o \in DOMAIN order
        BY <1>1
      <3> QED
        BY <3>1, <3>2, <3>3
    <2> QED
      BY <1>5, <2>1, <2>2
  <1>7. UNCHANGED <<joined, address>>
    BY DEF CompleteDelivery, FailDelivery, ReconcileDelivery
  <1> QED
    BY <1>3, <1>4, <1>6, <1>7 DEF PortalsTypeOK, Grown, AllCustomers, AllOrders, AllDeliveries

LEMMA PortalsStep ==
  ASSUME PortalsTypeOK, [Next]_portalsVars
  PROVE  PortalsTypeOK' /\ Grown
  <1>1. CASE UNCHANGED portalsVars
    BY <1>1 DEF portalsVars, PortalsTypeOK, Grown, AllCustomers, AllOrders, AllDeliveries
  <1> QED
    BY <1>1, RegisterGrows, SaveGrows, RemoveGrows, PlaceGrows, CancelGrows, AssignGrows,
       AttemptGrows
       DEF Next

LEMMA PortalsStart == Init => PortalsTypeOK
  BY PortalsAssumption DEF Init, PortalsTypeOK

\* The rows of orders, deliveries and payments are well typed, and refer to rows
\* there are.
THEOREM PortalsTypeCorrect == Spec => []PortalsTypeOK
  BY PortalsStart, PortalsStep, PTL DEF Spec

-----------------------------------------------------------------------------
(* Scopes.                                                                 *)

\* The pages of a portal, and the ids that each page is for.
AdminScope(page, id) ==
  \/ page \in {"customers", "orders", "deliveries", "bottles", "dispensers", "payments",
               "referrals", "trackers", "", "inventory", "reports", "users", "drivers",
               "agents", "audit", "settings"}
  \/ page = "customers/[id]" /\ getCustomer(id)
  \/ page = "orders/[id]" /\ getOrder(id)
  \/ page = "deliveries/[id]" /\ getDelivery(id)
  \/ page = "dispensers/[id]" /\ getDispenser(id)

ManagerScope(page, id) ==
  \/ page \in {"", "orders", "deliveries", "customers", "bottles", "dispensers",
               "installments", "payments", "inventory", "reports"}
  \/ page = "orders/[id]" /\ getOrder(id)
  \/ page = "deliveries/[id]" /\ getDelivery(id)
  \/ page = "customers/[id]" /\ getCustomer(id)
  \/ page = "dispensers/[id]" /\ getDispenser(id)

AgentScope(g, page, id) ==
  \/ page \in {"", "customers", "customers/new", "orders", "referrals", "performance"}
  \/ page = "customers/[id]" /\ getAgentCustomer(g, id)
  \/ page = "orders/[id]" /\ getOrder(id) /\ RegisteredBy[order[id].customer] = g
  \/ page = "orders/new" /\ (id = 0 \/ getAgentCustomer(g, id))

DriverScope(d, page, id) ==
  \/ page \in {"", "assigned", "completed", "history", "stock"}
  \/ page = "assigned/[id]" /\ getDriverDelivery(d, id)

CustomerScope(c, page, id) ==
  \/ page \in {"", "order", "orders", "deliveries", "payments", "rewards", "addresses",
               "bottles", "dispensers", "referrals", "profile"}
  \/ page = "orders/[id]" /\ getCustomerOrder(c, id)
  \/ page = "deliveries/[id]" /\ getCustomerDelivery(c, id)

\* The paths that somebody may be led to.
Within(who, path) ==
  \/ path.portal \in {"/", "/notifications"}
  \/ path.portal = "/admin" /\ who.role = "ADMINISTRATOR" /\ AdminScope(path.page, path.id)
  \/ /\ path.portal = "/manager" /\ who.role \in {"ADMINISTRATOR", "MANAGER"}
     /\ ManagerScope(path.page, path.id)
  \/ path.portal = "/agent" /\ who.role = "AGENT" /\ AgentScope(who.id, path.page, path.id)
  \/ path.portal = "/driver" /\ who.role = "DRIVER" /\ DriverScope(who.id, path.page, path.id)
  \/ /\ path.portal = "/customer" /\ who.role = "CUSTOMER"
     /\ CustomerScope(who.id, path.page, path.id)

\* What a page should be: there, with links that lead somewhere and forms that
\* are accepted, or the removal of a default address.
Sound(who, shown) ==
  /\ shown.answer = "page"
  /\ \A path \in shown.links : Within(who, path)
  /\ \A form \in shown.forms : Accepted(who, form) \/ RefusedThough(form)

\* A row once in somebody's scope stays in it.
LEMMA ScopeLasts ==
  ASSUME PortalsTypeOK, Grown, NEW who, NEW path, Within(who, path)
  PROVE  Within(who, path)' \/ GivenAway(who, path)
  <1> DEFINE id == path.id
  <1>1. getCustomer(id) => getCustomer(id)'
    BY DEF Grown, getCustomer
  <1>2. getOrder(id) => getOrder(id)' /\ order'[id].customer = order[id].customer
    BY DEF Grown, getOrder
  <1>3. getDelivery(id) => getDelivery(id)' /\ delivery'[id].order = delivery[id].order
    BY DEF Grown, getDelivery
  <1>4. getDispenser(id) => getDispenser(id)'
    BY DEF Grown, getDispenser, listDispensers
  <1>5. getAgentCustomer(who.id, id) => getAgentCustomer(who.id, id)'
    BY DEF Grown, getAgentCustomer
  <1>6. getCustomerOrder(who.id, id) => getCustomerOrder(who.id, id)'
    BY <1>2 DEF getCustomerOrder
  <1>7. CASE path.portal = "/driver" /\ who.role = "DRIVER"
             /\ DriverScope(who.id, path.page, path.id)
    BY <1>3, <1>7 DEF Within, DriverScope, getDriverDelivery, GivenAway
  <1>8. CASE path.portal = "/customer" /\ who.role = "CUSTOMER"
             /\ CustomerScope(who.id, path.page, path.id)
    <2>1. CASE path.page = "deliveries/[id]" /\ getCustomerDelivery(who.id, id)
      <3>1. getDelivery(id)' /\ delivery'[id].order = delivery[id].order
        BY <1>3, <2>1 DEF getCustomerDelivery
      <3>2. order'[delivery[id].order].customer = order[delivery[id].order].customer
        BY <2>1 DEF getCustomerDelivery, getDelivery, PortalsTypeOK, Grown, AllOrders,
           AllDeliveries
      <3>3. getCustomerDelivery(who.id, id)'
        BY <2>1, <3>1, <3>2 DEF getCustomerDelivery, CustomerOfDelivery
      <3> QED
        BY <1>8, <2>1, <3>3 DEF Within, CustomerScope
    <2>2. CASE ~(path.page = "deliveries/[id]" /\ getCustomerDelivery(who.id, id))
      BY <1>6, <1>8, <2>2 DEF Within, CustomerScope
    <2> QED
      BY <2>1, <2>2
  <1>9. CASE path.portal = "/agent" /\ who.role = "AGENT"
             /\ AgentScope(who.id, path.page, path.id)
    BY <1>2, <1>5, <1>9 DEF Within, AgentScope
  <1>10. CASE path.portal \in {"/admin", "/manager", "/", "/notifications"}
    BY <1>1, <1>2, <1>3, <1>4, <1>10 DEF Within, AdminScope, ManagerScope
  <1> QED
    BY <1>7, <1>8, <1>9, <1>10 DEF Within

-----------------------------------------------------------------------------
(* Pages of each portal are sound for those they are for.                  *)

LEMMA SoundPage ==
  ASSUME NEW who, NEW links, NEW forms,
         \A path \in links : Within(who, path), \A form \in forms : Accepted(who, form)
  PROVE  Sound(who, Page(links, forms))
  BY DEF Sound, Page

LEMMA SoundPlain == ASSUME NEW who PROVE Sound(who, Plain)
  BY DEF Sound, Plain, Page

\* Links into a portal, to pages in its scope.
LEMMA AdminLinks ==
  ASSUME NEW who, who.role = "ADMINISTRATOR", NEW page, NEW ids,
         \A id \in ids : AdminScope(page, id)
  PROVE  \A path \in Links("/admin", page, ids) : Within(who, path)
  BY DEF Links, Link, Within

LEMMA ManagerLinks ==
  ASSUME NEW who, who.role \in {"ADMINISTRATOR", "MANAGER"}, NEW page, NEW ids,
         \A id \in ids : ManagerScope(page, id)
  PROVE  \A path \in Links("/manager", page, ids) : Within(who, path)
  BY DEF Links, Link, Within

LEMMA AgentLinks ==
  ASSUME NEW who, who.role = "AGENT", NEW page, NEW ids,
         \A id \in ids : AgentScope(who.id, page, id)
  PROVE  \A path \in Links("/agent", page, ids) : Within(who, path)
  BY DEF Links, Link, Within

LEMMA DriverLinks ==
  ASSUME NEW who, who.role = "DRIVER", NEW page, NEW ids,
         \A id \in ids : DriverScope(who.id, page, id)
  PROVE  \A path \in Links("/driver", page, ids) : Within(who, path)
  BY DEF Links, Link, Within

LEMMA CustomerLinks ==
  ASSUME NEW who, who.role = "CUSTOMER", NEW page, NEW ids,
         \A id \in ids : CustomerScope(who.id, page, id)
  PROVE  \A path \in Links("/customer", page, ids) : Within(who, path)
  BY DEF Links, Link, Within

\* The rows that rows refer to.
LEMMA Referred ==
  ASSUME PortalsTypeOK
  PROVE  /\ \A o \in AllOrders : order[o].customer \in AllCustomers
         /\ \A a \in AllDeliveries :
              delivery[a].order \in AllOrders /\ CustomerOfDelivery(a) \in AllCustomers
         /\ \A i \in DOMAIN payment : payment[i] \in AllOrders
         /\ \A i \in listDispensers : HoldersOf({i}) \subseteq AllCustomers
         /\ \A c \in listReferrals : ReferredBy[c] \in AllCustomers
  <1>1. \A i \in listDispensers : HoldersOf({i}) \subseteq AllCustomers
    BY DEF HoldersOf, listDispensers
  <1>2. ASSUME NEW c \in listReferrals PROVE ReferredBy[c] \in AllCustomers
    <2>1. c \in Joinable /\ c \in 1..joined /\ ReferredBy[c] # 0
      BY <1>2, Customers DEF listReferrals, AllCustomers
    <2>2. ReferredBy[c] \in Joinable \cup {0} /\ ReferredBy[c] < c
      BY <2>1, PortalsAssumption
    <2> QED
      BY <2>1, <2>2, Customers DEF AllCustomers
  <1> QED
    BY <1>1, <1>2 DEF PortalsTypeOK, AllOrders, AllDeliveries, AllCustomers, CustomerOfDelivery

\* What the services ask, form by form.
LEMMA FormsAccepted ==
  ASSUME NEW who, NEW id
  PROVE  /\ Accepted(who, Form("place", id)) <=> MayPlace(who, id)
         /\ Accepted(who, Form("cancel", id)) <=> MayCancel(who, id)
         /\ Accepted(who, Form("assign", id)) <=> MayAssign(who, id)
         /\ Accepted(who, Form("complete", id)) <=> MayComplete(who, id)
         /\ Accepted(who, Form("fail", id)) <=> MayFail(who, id)
         /\ Accepted(who, Form("reconcile", id)) <=> MayReconcile(who, id)
         /\ Accepted(who, Form("save address", id)) <=> MaySaveAddress(who, id)
         /\ Accepted(who, Form("remove address", id)) <=> MayRemoveAddress(who, id)
         /\ Accepted(who, Form("register", id)) <=> MayRegister(who)
  BY DEF Accepted, Form

LEMMA AdminSound ==
  ASSUME PortalsTypeOK, NEW who, who.role = "ADMINISTRATOR", NEW page, NEW id,
         AdminScope(page, id)
  PROVE  Sound(who, AdminPage(page, id))
  <1> USE AdminLinks, SoundPage
  <1>1. page = "customers" => Sound(who, AdminCustomers)
    BY ListsArePart DEF AdminCustomers, listCustomers, AdminScope, getCustomer
  <1>2. page = "customers/[id]" => Sound(who, AdminCustomer(id))
    BY ListsArePart DEF AdminCustomer, PageIf, OrdersOf, AdminScope, getOrder
  <1>3. page = "orders" => Sound(who, AdminOrders)
    BY ListsArePart DEF AdminOrders, listOrders, AdminScope, getOrder
  <1>4. page = "orders/[id]" => Sound(who, AdminOrder(id))
    BY DEF AdminOrder, PageIf, DeliveriesOf, AdminScope, getDelivery
  <1>5. page = "deliveries" => Sound(who, AdminDeliveries)
    BY ListsArePart DEF AdminDeliveries, listDeliveries, AdminScope, getDelivery
  <1>6. page = "deliveries/[id]" => Sound(who, AdminDelivery(id))
    <2>1. HAVE page = "deliveries/[id]"
    <2>2. /\ AdminScope("orders/[id]", delivery[id].order)
          /\ AdminScope("customers/[id]", CustomerOfDelivery(id))
      BY <2>1, Referred DEF AdminScope, getDelivery, getOrder, getCustomer
    <2>3. /\ Within(who, Link("/admin", "orders/[id]", delivery[id].order))
          /\ Within(who, Link("/admin", "customers/[id]", CustomerOfDelivery(id)))
      BY <2>2 DEF Within, Link
    <2> QED
      BY <2>1, <2>3 DEF AdminDelivery, PageIf, AdminScope
  <1>7. page = "bottles" => Sound(who, AdminBottles)
    BY DEF AdminBottles, listBottleBalances, AdminScope, getCustomer
  <1>8. page = "dispensers" => Sound(who, AdminDispensers)
    BY Referred DEF AdminDispensers, HoldersOf, AdminScope, getDispenser, getCustomer
  <1>9. page = "dispensers/[id]" => Sound(who, AdminDispenser(id))
    BY Referred DEF AdminDispenser, PageIf, AdminScope, getDispenser, getCustomer
  <1>10. page = "payments" => Sound(who, AdminPayments)
    <2>1. PaidOrders(listPayments) \subseteq AllOrders
      BY Referred, ListsArePart DEF PaidOrders, listPayments
    <2>2. /\ \A o \in PaidOrders(listPayments) : AdminScope("orders/[id]", o)
          /\ \A c \in {order[o].customer : o \in PaidOrders(listPayments)} :
               AdminScope("customers/[id]", c)
      BY <2>1, Referred DEF AdminScope, getOrder, getCustomer
    <2> QED
      BY <2>2 DEF AdminPayments
  <1>11. page = "referrals" => Sound(who, AdminReferrals)
    <2>1. PaidOrders(PaymentsBy(listReferrals)) \subseteq AllOrders
      BY Referred DEF PaidOrders, PaymentsBy
    <2>2. listReferrals \cup {ReferredBy[c] : c \in listReferrals} \cup listRewardBalances
            \subseteq AllCustomers
      BY Referred DEF listReferrals, listRewardBalances
    <2>3. /\ \A o \in AllOrders : AdminScope("orders/[id]", o)
          /\ \A c \in AllCustomers : AdminScope("customers/[id]", c)
      BY DEF AdminScope, getOrder, getCustomer
    <2> QED
      BY <2>1, <2>2, <2>3 DEF AdminReferrals
  <1>12. page = "trackers" => Sound(who, AdminTrackers)
    BY DEF AdminTrackers, listTrackerDevices, AdminScope, getDispenser
  <1>13. CASE page \in {"", "inventory", "reports", "users", "drivers", "agents",
                        "audit", "settings"}
    BY <1>13, SoundPlain DEF AdminPage
  <1>14. CASE page \in {"customers", "customers/[id]", "orders", "orders/[id]",
                        "deliveries", "deliveries/[id]"}
    BY <1>1, <1>2, <1>3, <1>4, <1>5, <1>6, <1>14 DEF AdminPage
  <1>15. CASE page \in {"bottles", "dispensers", "dispensers/[id]", "payments",
                        "referrals", "trackers"}
    BY <1>7, <1>8, <1>9, <1>10, <1>11, <1>12, <1>15 DEF AdminPage
  <1> QED
    BY <1>13, <1>14, <1>15 DEF AdminScope

LEMMA ManagerSound ==
  ASSUME PortalsTypeOK, NEW who, who.role \in {"ADMINISTRATOR", "MANAGER"}, NEW page, NEW id,
         ManagerScope(page, id)
  PROVE  Sound(who, ManagerPage(page, id))
  <1>l. \A p, ids : (\A x \in ids : ManagerScope(p, x)) =>
                     \A path \in Links("/manager", p, ids) : Within(who, path)
    BY ManagerLinks
  <1> USE <1>l, SoundPage
  <1>1. page = "" => Sound(who, ManagerHome)
    BY ListsArePart DEF ManagerHome, OpenDeliveries, ManagerScope, getDelivery
  <1>2. page = "orders" => Sound(who, ManagerOrders)
    BY ListsArePart DEF ManagerOrders, listOrders, ManagerScope, getOrder
  <1>3. page = "orders/[id]" => Sound(who, ManagerOrder(id))
    <2>1. HAVE page = "orders/[id]"
    <2>2. \A a \in AttemptsShown(id) : ManagerScope("deliveries/[id]", a)
      BY DEF AttemptsShown, DeliveriesOf, ManagerScope, getDelivery
    <2>3. \A form \in AssignDriverForm(IF CanAssign(id) THEN {id} ELSE {}) : Accepted(who, form)
      BY <2>1, FormsAccepted DEF AssignDriverForm, Forms, CanAssign, ManagerScope, MayAssign,
         RequireManager
    <2> QED
      BY <2>1, <2>2, <2>3 DEF ManagerOrder, PageIf, ManagerScope
  <1>4. page = "deliveries" => Sound(who, ManagerDeliveries)
    BY ListsArePart DEF ManagerDeliveries, listDeliveries, ManagerScope, getDelivery
  <1>5. page = "deliveries/[id]" => Sound(who, ManagerDelivery(id))
    <2>1. HAVE page = "deliveries/[id]"
    <2>2. /\ ManagerScope("orders/[id]", delivery[id].order)
          /\ ManagerScope("customers/[id]", CustomerOfDelivery(id))
      BY <2>1, Referred DEF ManagerScope, getDelivery, getOrder, getCustomer
    <2>3. /\ Within(who, Link("/manager", "orders/[id]", delivery[id].order))
          /\ Within(who, Link("/manager", "customers/[id]", CustomerOfDelivery(id)))
      BY <2>2 DEF Within, Link
    <2>4. \A form \in ReconcileForm(IF delivery[id].latched THEN {id} ELSE {}) :
            Accepted(who, form)
      BY <2>1, FormsAccepted DEF ReconcileForm, Forms, ManagerScope, MayReconcile,
         RequireManager
    <2> QED
      BY <2>1, <2>3, <2>4 DEF ManagerDelivery, PageIf, ManagerScope
  <1>6. page = "customers" => Sound(who, ManagerCustomers)
    BY ListsArePart DEF ManagerCustomers, listCustomers, ManagerScope, getCustomer
  <1>7. page = "customers/[id]" => Sound(who, ManagerCustomer(id))
    BY ListsArePart DEF ManagerCustomer, PageIf, OrdersOf, ManagerScope, getOrder
  <1>8. page = "bottles" => Sound(who, ManagerBottles)
    BY DEF ManagerBottles, listBottleBalances, ManagerScope, getCustomer
  <1>9. page = "dispensers" => Sound(who, ManagerDispensers)
    BY Referred DEF ManagerDispensers, HoldersOf, ManagerScope, getDispenser, getCustomer
  <1>10. page = "dispensers/[id]" => Sound(who, ManagerDispenser(id))
    BY Referred DEF ManagerDispenser, PageIf, ManagerScope, getDispenser, getCustomer
  <1>11. page = "installments" => Sound(who, ManagerInstallments)
    BY Referred DEF ManagerInstallments, listInstallmentPlans, HoldersOf, ManagerScope,
       getDispenser, getCustomer
  <1>12. page = "payments" => Sound(who, ManagerPayments)
    <2>1. PaidOrders(listPayments) \subseteq AllOrders
      BY Referred, ListsArePart DEF PaidOrders, listPayments
    <2>2. /\ \A o \in PaidOrders(listPayments) : ManagerScope("orders/[id]", o)
          /\ \A c \in {order[o].customer : o \in PaidOrders(listPayments)} :
               ManagerScope("customers/[id]", c)
      BY <2>1, Referred DEF ManagerScope, getOrder, getCustomer
    <2> QED
      BY <2>2 DEF ManagerPayments
  <1>13. CASE page \in {"inventory", "reports"}
    BY <1>13, SoundPlain DEF ManagerPage
  <1>14. CASE page \in {"", "orders", "orders/[id]", "deliveries", "deliveries/[id]",
                        "customers", "customers/[id]"}
    BY <1>1, <1>2, <1>3, <1>4, <1>5, <1>6, <1>7, <1>14 DEF ManagerPage
  <1>15. CASE page \in {"bottles", "dispensers", "dispensers/[id]", "installments",
                        "payments"}
    BY <1>8, <1>9, <1>10, <1>11, <1>12, <1>15 DEF ManagerPage
  <1> QED
    BY <1>13, <1>14, <1>15 DEF ManagerScope

LEMMA AgentSound ==
  ASSUME PortalsTypeOK, NEW who, who.role = "AGENT", NEW page, NEW id,
         AgentScope(who.id, page, id)
  PROVE  Sound(who, AgentPage(who.id, page, id))
  <1> DEFINE g == who.id
  <1> USE AgentLinks, SoundPage
  <1>1. page = "" => Sound(who, AgentHome(g))
    BY ListsArePart DEF AgentHome, AgentScope, getAgentCustomer
  <1>2. page = "customers" => Sound(who, AgentCustomers(g))
    <2>1. Within(who, Link("/agent", "customers/new", 0))
      BY DEF Within, Link, AgentScope
    <2> QED
      BY <2>1, ListsArePart DEF AgentCustomers, listAgentCustomers, AgentScope, getAgentCustomer
  <1>3. page = "customers/[id]" => Sound(who, AgentCustomer(g, id))
    <2>1. HAVE page = "customers/[id]"
    <2>2. getAgentCustomer(g, id)
      BY <2>1 DEF AgentScope
    <2>3. \A o \in Newest(OrdersOf({id}), GlanceLength) : AgentScope(g, "orders/[id]", o)
      BY <2>2, ListsArePart DEF OrdersOf, AgentScope, getOrder, getAgentCustomer
    <2>4. Within(who, Link("/agent", "orders/new", id))
      BY <2>2 DEF Within, Link, AgentScope
    <2> QED
      BY <2>2, <2>3, <2>4 DEF AgentCustomer
  <1>4. page = "customers/new" => Sound(who, AgentNewCustomer)
    BY FormsAccepted DEF AgentNewCustomer, AgentRegisterForm, MayRegister, RequireAgent
  <1>5. page = "orders" => Sound(who, AgentOrders(g))
    <2>1. Within(who, Link("/agent", "orders/new", 0))
      BY DEF Within, Link, AgentScope
    <2> QED
      BY <2>1, ListsArePart DEF AgentOrders, listAgentOrders, AgentScope, getOrder
  <1>6. page = "orders/[id]" => Sound(who, AgentOrder(g, id))
    BY SoundPlain DEF AgentOrder, AgentScope
  <1>7. page = "orders/new" => Sound(who, AgentNewOrder(g, id))
    <2>1. HAVE page = "orders/new"
    <2> DEFINE mine == listAgentCustomers(g)
               chosen == IF id # 0 THEN {id} ELSE Newest(mine, 1)
    <2>2. \A c \in mine : getAgentCustomer(g, c)
      BY ListsArePart DEF listAgentCustomers, getAgentCustomer
    <2>3. \A c \in chosen : getAgentCustomer(g, c)
      BY <2>1, <2>2, ListsArePart DEF AgentScope
    <2>4. \A path \in CustomerPicker(mine) : Within(who, path)
      BY <2>2 DEF CustomerPicker, AgentScope
    <2>5. ASSUME NEW c \in chosen, NEW form \in PlaceOrderForm(c, listCustomerAddresses(c))
          PROVE  Accepted(who, form)
      <3>1. listCustomerAddresses(c) # {} /\ form = Form("place", c)
        BY <2>5 DEF PlaceOrderForm, Forms
      <3>2. MayPlace(who, c)
        BY <2>3, <3>1 DEF MayPlace, RequireAgent, listCustomerAddresses
      <3> QED
        BY <3>1, <3>2, FormsAccepted
    <2>6. ~(id # 0 /\ ~getAgentCustomer(g, id))
      BY <2>3
    <2> QED
      BY <2>4, <2>5, <2>6, SoundPlain DEF AgentNewOrder
  <1> QED
    BY <1>1, <1>2, <1>3, <1>4, <1>5, <1>6, <1>7, SoundPlain DEF AgentPage, AgentScope

LEMMA DriverSound ==
  ASSUME PortalsTypeOK, NEW who, who.role = "DRIVER", NEW page, NEW id,
         DriverScope(who.id, page, id)
  PROVE  Sound(who, DriverPage(who.id, page, id))
  <1> DEFINE d == who.id
             mine(statuses) == DeliveriesBy(d, statuses)
  <1>1. ASSUME NEW deliveries, \A a \in deliveries : a \in AllDeliveries /\ delivery[a].driver = d
        PROVE  Sound(who, DeliveryCardList(deliveries))
    BY <1>1, DriverLinks, SoundPage
       DEF DeliveryCardList, DriverScope, getDriverDelivery, getDelivery
  <1>2. \A statuses : \A a \in mine(statuses) : a \in AllDeliveries /\ delivery[a].driver = d
    BY DEF DeliveriesBy
  <1>3. page = "" => Sound(who, DriverHome(d))
    BY <1>1, <1>2, ListsArePart DEF DriverHome, listAssignedDeliveries
  <1>4. page = "assigned" => Sound(who, DriverAssigned(d))
    BY <1>1, <1>2 DEF DriverAssigned, listAssignedDeliveries
  <1>5. page = "completed" => Sound(who, DriverCompleted(d))
    BY <1>1, <1>2, ListsArePart DEF DriverCompleted, listCompletedDeliveries
  <1>6. page = "history" => Sound(who, DriverHistory(d))
    BY <1>1, <1>2, ListsArePart DEF DriverHistory, listDriverHistory
  <1>7. page = "assigned/[id]" => Sound(who, DriverDelivery(d, id))
    <2>1. HAVE page = "assigned/[id]"
    <2>2. getDriverDelivery(d, id)
      BY <2>1 DEF DriverScope
    <2>3. ASSUME NEW form \in DriverDeliveryForms(IF delivery[id].status = "ASSIGNED"
                                                    THEN {id} ELSE {})
          PROVE  Accepted(who, form)
      <3>1. /\ delivery[id].status = "ASSIGNED"
            /\ form = Form("complete", id) \/ form = Form("fail", id)
        BY <2>3 DEF DriverDeliveryForms
      <3>2. MayComplete(who, id) /\ MayFail(who, id)
        BY <2>2, <3>1 DEF MayComplete, MayFail, RequireDriver, getDriverDelivery
      <3> QED
        BY <3>1, <3>2, FormsAccepted
    <2> QED
      BY <2>2, <2>3, SoundPage DEF DriverDelivery, PageIf
  <1> QED
    BY <1>3, <1>4, <1>5, <1>6, <1>7, SoundPlain DEF DriverPage, DriverScope

LEMMA CustomerSound ==
  ASSUME PortalsTypeOK, NEW who, who.role = "CUSTOMER", NEW page, NEW id,
         CustomerScope(who.id, page, id)
  PROVE  Sound(who, CustomerPage(who.id, page, id))
  <1> DEFINE c == who.id
  <1>a. ASSUME NEW orders, orders \subseteq OrdersOf({c})
        PROVE  \A path \in Links("/customer", "orders/[id]", orders) : Within(who, path)
    BY <1>a, CustomerLinks DEF OrdersOf, CustomerScope, getCustomerOrder, getOrder
  <1>b. ASSUME NEW deliveries, deliveries \subseteq DeliveriesTo(c)
        PROVE  \A path \in Links("/customer", "deliveries/[id]", deliveries) : Within(who, path)
    BY <1>b, CustomerLinks DEF DeliveriesTo, CustomerScope, getCustomerDelivery, getDelivery
  <1>c. /\ Within(who, Link("/customer", "order", 0))
        /\ Within(who, Link("/customer", "addresses", 0))
    BY DEF Within, Link, CustomerScope
  <1>d. \A form \in PlaceOrderForm(c, listCustomerAddresses(c)) : Accepted(who, form)
    BY FormsAccepted DEF PlaceOrderForm, Forms, listCustomerAddresses, MayPlace, RequireCustomer
  <1>1. page = "" => Sound(who, CustomerHome(c))
    BY <1>a, ListsArePart, SoundPage DEF CustomerHome
  <1>2. page = "order" => Sound(who, CustomerOrderWater(c))
    BY <1>c, <1>d, SoundPage DEF CustomerOrderWater
  <1>3. page = "orders" => Sound(who, CustomerOrders(c))
    BY <1>a, <1>c, ListsArePart, SoundPage DEF CustomerOrders, listCustomerOrders
  <1>4. page = "orders/[id]" => Sound(who, CustomerOrder(c, id))
    <2>1. HAVE page = "orders/[id]"
    <2>2. getCustomerOrder(c, id)
      BY <2>1 DEF CustomerScope
    <2>3. DeliveriesOf(id) \subseteq DeliveriesTo(c)
      BY <2>2 DEF getCustomerOrder, DeliveriesOf, DeliveriesTo, CustomerOfDelivery
    <2>4. \A form \in CancelOrderForm(IF order[id].status \in CancelAllowed THEN {id} ELSE {}) :
            Accepted(who, form)
      BY <2>2, FormsAccepted DEF CancelOrderForm, Forms, MayCancel, RequireCustomer
    <2> QED
      BY <1>b, <2>2, <2>3, <2>4, SoundPage DEF CustomerOrder, PageIf
  <1>5. page = "deliveries" => Sound(who, CustomerDeliveries(c))
    <2>1. listCustomerDeliveries(c) \subseteq DeliveriesTo(c)
      BY ListsArePart DEF listCustomerDeliveries
    <2>2. {delivery[a].order : a \in listCustomerDeliveries(c)} \subseteq OrdersOf({c})
      BY <2>1, Referred DEF DeliveriesTo, OrdersOf, CustomerOfDelivery
    <2> QED
      BY <1>a, <1>b, <2>1, <2>2, SoundPage DEF CustomerDeliveries
  <1>6. page = "deliveries/[id]" => Sound(who, CustomerDelivery(c, id))
    BY SoundPlain DEF CustomerDelivery, PageIf, CustomerScope
  <1>7. page = "payments" => Sound(who, CustomerPayments(c))
    <2>1. PaidOrders(listCustomerPayments(c)) \subseteq OrdersOf({c})
      BY Referred, ListsArePart DEF PaidOrders, listCustomerPayments, PaymentsBy, OrdersOf
    <2> QED
      BY <1>a, <2>1, SoundPage DEF CustomerPayments
  <1>8. page = "rewards" => Sound(who, CustomerRewards(c))
    <2>1. Redemptions(c) \subseteq OrdersOf({c})
      BY DEF Redemptions
    <2> QED
      BY <1>a, <1>c, <2>1, SoundPage DEF CustomerRewards
  <1>9. page = "addresses" => Sound(who, CustomerAddresses(c))
    <2> DEFINE mine == listCustomerAddresses(c)
    <2>1. ASSUME NEW form \in AddressForm(mine) \cup RemoveAddressForm(mine)
          PROVE  Accepted(who, form) \/ RefusedThough(form)
      <3>1. mine \subseteq AddressesOf(c)
        BY DEF listCustomerAddresses
      <3>2. CASE form \in AddressForm(mine)
        <4>1. PICK i \in mine \cup {0} : form = Form("save address", i)
          BY <3>2 DEF AddressForm, Forms
        <4>2. MaySaveAddress(who, i)
          BY <3>1, <4>1 DEF MaySaveAddress, RequireCustomer
        <4> QED
          BY <4>1, <4>2, FormsAccepted
      <3>3. CASE form \in RemoveAddressForm(mine)
        <4>1. PICK i \in mine : form = Form("remove address", i)
          BY <3>3 DEF RemoveAddressForm, Forms
        <4>2. CASE DefaultAmongOthers(i)
          BY <4>1, <4>2 DEF RefusedThough, Form
        <4>3. CASE ~DefaultAmongOthers(i)
          <5>1. MayRemoveAddress(who, i)
            BY <3>1, <4>1, <4>3 DEF MayRemoveAddress, RequireCustomer
          <5> QED
            BY <4>1, <5>1, FormsAccepted
        <4> QED
          BY <4>2, <4>3
      <3> QED
        BY <2>1, <3>2, <3>3
    <2> QED
      BY <2>1 DEF CustomerAddresses, Sound, Page
  <1> QED
    BY <1>1, <1>2, <1>3, <1>4, <1>5, <1>6, <1>7, <1>8, <1>9, SoundPlain
       DEF CustomerPage, CustomerScope

-----------------------------------------------------------------------------
(* What people are led to.                                                 *)

LEMMA RolesOfPeople ==
  ASSUME NEW who \in People
  PROVE  who.role \in {"ADMINISTRATOR", "MANAGER", "AGENT", "DRIVER", "CUSTOMER"}
  BY DEF People, Person

LEMMA HomeWithin ==
  ASSUME NEW who \in People
  PROVE  Within(who, Home(who))
  BY RolesOfPeople
     DEF Home, RoleHome, Link, Within, AdminScope, ManagerScope, AgentScope, DriverScope,
         CustomerScope

LEMMA ShellWithin ==
  ASSUME NEW who \in People, NEW path \in AppShell(who)
  PROVE  Within(who, path)
  <1>1. CASE path \in {Link("/notifications", "", 0), Link("/", "", 0)}
    <2>1. PICK portal \in {"/", "/notifications"} : path = Link(portal, "", 0)
      BY <1>1
    <2> QED
      BY <2>1 DEF Link, Within
  <1>2. CASE path \in navigationFor(who.role)
    <2>1. CASE who.role = "ADMINISTRATOR"
      <3>1. PICK page : path = Link("/admin", page, 0) /\ AdminScope(page, 0)
        BY <1>2, <2>1 DEF navigationFor, ADMIN, Menu, AdminScope
      <3> QED
        BY <2>1, <3>1 DEF Link, Within
    <2>2. CASE who.role = "MANAGER"
      <3>1. PICK page : path = Link("/manager", page, 0) /\ ManagerScope(page, 0)
        BY <1>2, <2>2 DEF navigationFor, MANAGER, Menu, ManagerScope
      <3> QED
        BY <2>2, <3>1 DEF Link, Within
    <2>3. CASE who.role = "AGENT"
      <3>1. PICK page : path = Link("/agent", page, 0) /\ AgentScope(who.id, page, 0)
        BY <1>2, <2>3 DEF navigationFor, AGENT, Menu, AgentScope
      <3> QED
        BY <2>3, <3>1 DEF Link, Within
    <2>4. CASE who.role = "DRIVER"
      <3>1. PICK page : path = Link("/driver", page, 0) /\ DriverScope(who.id, page, 0)
        BY <1>2, <2>4 DEF navigationFor, DRIVER, Menu, DriverScope
      <3> QED
        BY <2>4, <3>1 DEF Link, Within
    <2>5. CASE who.role = "CUSTOMER"
      <3>1. PICK page : path = Link("/customer", page, 0) /\ CustomerScope(who.id, page, 0)
        BY <1>2, <2>5 DEF navigationFor, CUSTOMER, Menu, CustomerScope
      <3> QED
        BY <2>5, <3>1 DEF Link, Within
    <2> QED
      BY <2>1, <2>2, <2>3, <2>4, <2>5, RolesOfPeople
  <1> QED
    BY <1>1, <1>2 DEF AppShell

LEMMA NotificationsSound ==
  ASSUME PortalsTypeOK, NEW who \in People
  PROVE  Sound(who, Notifications(who))
  <1>1. CASE who.role = "DRIVER"
    <2>1. Within(who, Link("/driver", "assigned", 0))
      BY <1>1 DEF Within, Link, DriverScope
    <2> QED
      BY <1>1, <2>1, SoundPage DEF Notifications
  <1>2. CASE who.role = "CUSTOMER"
    <2>1. /\ Within(who, Link("/customer", "addresses", 0))
          /\ Within(who, Link("/customer", "referrals", 0))
      BY <1>2 DEF Within, Link, CustomerScope
    <2>2. \A path \in Links("/customer", "orders/[id]", OrdersOf({who.id})) : Within(who, path)
      BY <1>2, CustomerLinks DEF OrdersOf, CustomerScope, getCustomerOrder, getOrder
    <2> QED
      BY <1>2, <2>1, <2>2, SoundPage DEF Notifications
  <1> QED
    BY <1>1, <1>2, SoundPlain DEF Notifications

LEMMA RenderedSound ==
  ASSUME PortalsTypeOK, NEW who \in People, NEW path, Within(who, path)
  PROVE  Sound(who, Rendered(who, path))
  <1>1. CASE path.portal = "/"
    BY <1>1, HomeWithin, SoundPage DEF Rendered, Landing, Home
  <1>2. CASE path.portal = "/notifications"
    <2>1. Rendered(who, path) = Notifications(who)
      BY <1>2, RolesOfPeople DEF Rendered, PageGuard, RequireActor, Roles, PortalPage
    <2> QED
      BY <2>1, NotificationsSound
  <1>3. CASE path.portal = "/admin"
    <2>1. who.role = "ADMINISTRATOR" /\ AdminScope(path.page, path.id)
      BY <1>3 DEF Within
    <2>2. Rendered(who, path) = AdminPage(path.page, path.id)
      BY <1>3, <2>1 DEF Rendered, PageGuard, RequireAdministrator, PortalPage
    <2> QED
      BY <2>1, <2>2, AdminSound
  <1>4. CASE path.portal = "/manager"
    <2>1. who.role \in {"ADMINISTRATOR", "MANAGER"} /\ ManagerScope(path.page, path.id)
      BY <1>4 DEF Within
    <2>2. Rendered(who, path) = ManagerPage(path.page, path.id)
      BY <1>4, <2>1 DEF Rendered, PageGuard, RequireManager, PortalPage
    <2> QED
      BY <2>1, <2>2, ManagerSound
  <1>5. CASE path.portal = "/agent"
    <2>1. who.role = "AGENT" /\ AgentScope(who.id, path.page, path.id)
      BY <1>5 DEF Within
    <2>2. Rendered(who, path) = AgentPage(who.id, path.page, path.id)
      BY <1>5, <2>1 DEF Rendered, PageGuard, RequireAgent, PortalPage
    <2> QED
      BY <2>1, <2>2, AgentSound
  <1>6. CASE path.portal = "/driver"
    <2>1. who.role = "DRIVER" /\ DriverScope(who.id, path.page, path.id)
      BY <1>6 DEF Within
    <2>2. Rendered(who, path) = DriverPage(who.id, path.page, path.id)
      BY <1>6, <2>1 DEF Rendered, PageGuard, RequireDriver, PortalPage
    <2> QED
      BY <2>1, <2>2, DriverSound
  <1>7. CASE path.portal = "/customer"
    <2>1. who.role = "CUSTOMER" /\ CustomerScope(who.id, path.page, path.id)
      BY <1>7 DEF Within
    <2>2. Rendered(who, path) = CustomerPage(who.id, path.page, path.id)
      BY <1>7, <2>1 DEF Rendered, PageGuard, RequireCustomer, PortalPage
    <2> QED
      BY <2>1, <2>2, CustomerSound
  <1> QED
    BY <1>1, <1>2, <1>3, <1>4, <1>5, <1>6, <1>7 DEF Within

\* Wherever somebody is led from home, in three clicks or more.
LEMMA FollowedWithin ==
  ASSUME PortalsTypeOK, NEW who \in People, NEW paths, \A path \in paths : Within(who, path),
         NEW link \in Follow(who, paths)
  PROVE  Within(who, link)
  <1>1. PICK path \in paths : link \in Rendered(who, path).links
    BY DEF Follow
  <1> QED
    BY <1>1, RenderedSound DEF Sound

LEMMA NearWithin ==
  ASSUME PortalsTypeOK, NEW who \in People, NEW path \in Near(who)
  PROVE  Within(who, path)
  <1> DEFINE one == {Home(who)} \cup AppShell(who) \cup Follow(who, {Home(who)})
             two == one \cup Follow(who, one \ {Home(who)})
  <1>1. \A p \in one : Within(who, p)
    BY HomeWithin, ShellWithin, FollowedWithin
  <1> HIDE DEF one
  <1>2. \A p \in two : Within(who, p)
    BY <1>1, FollowedWithin
  <1> HIDE DEF two
  <1>3. \A p \in Follow(who, two \ one) : Within(who, p)
    BY <1>2, FollowedWithin
  <1> USE DEF one, two
  <1> QED
    BY <1>2, <1>3 DEF Near

\* What RenderedSound says, as a formula: of this state and of the next one.
PagesSound ==
  PortalsTypeOK =>
    \A who \in People : \A path : Within(who, path) => Sound(who, Rendered(who, path))

LEMMA PagesStaySound == PagesSound'
  <1>1. PagesSound
    BY RenderedSound DEF PagesSound
  <1> QED
    BY <1>1, PTL

\* A page about a row that opens is in scope.
LEMMA OpenIsWithin ==
  ASSUME NEW who \in People, NEW path \in RowPaths[who.role], Opens(who, path)
  PROVE  Within(who, path)
  <1>0. PICK portal : portal = RoleHome(who.role)
    OBVIOUS
  <1>1. who.role \in {"ADMINISTRATOR", "MANAGER", "AGENT", "DRIVER", "CUSTOMER"}
    BY RolesOfPeople
  <1>2. PICK page \in RowPages[portal] : \E id : path = Link(portal, page, id)
    BY <1>0, <1>1 DEF RowPaths, Roles
  <1>3. PICK id : path = Link(portal, page, id)
    BY <1>2
  <1>4. path.portal = portal /\ path.page = page /\ path.id = id
    BY <1>3 DEF Link
  <1>5. \A found, shown : PageIf(found, shown).answer = "page" => found
    BY DEF PageIf, NotFound
  <1>f. Forbidden(Person("AGENT", who.id)).answer # "page" /\ NotFound.answer # "page"
    BY DEF Forbidden, NotFound
  <1>6. Rendered(who, path).answer = "page"
    BY DEF Opens
  <1>7. \/ who.role = "ADMINISTRATOR" /\ portal = "/admin"
        \/ who.role = "MANAGER" /\ portal = "/manager"
        \/ who.role = "AGENT" /\ portal = "/agent"
        \/ who.role = "DRIVER" /\ portal = "/driver"
        \/ who.role = "CUSTOMER" /\ portal = "/customer"
    BY <1>0, <1>1 DEF RoleHome
  <1>8. CASE portal = "/admin"
    <2>1. /\ page \in {"customers/[id]", "orders/[id]", "deliveries/[id]", "dispensers/[id]"}
          /\ who.role = "ADMINISTRATOR"
      BY <1>2, <1>7, <1>8 DEF RowPages
    <2>2. Rendered(who, path) = AdminPage(page, id)
      BY <1>4, <1>8, <2>1 DEF Rendered, PageGuard, RequireAdministrator, PortalPage
    <2>3. AdminScope(page, id)
      <3>1. page = "customers/[id]" => getCustomer(id)
        BY <1>5, <1>6, <2>2 DEF AdminPage, AdminCustomer
      <3>2. page = "orders/[id]" => getOrder(id)
        BY <1>5, <1>6, <2>2 DEF AdminPage, AdminOrder
      <3>3. page = "deliveries/[id]" => getDelivery(id)
        BY <1>5, <1>6, <2>2 DEF AdminPage, AdminDelivery
      <3>4. page = "dispensers/[id]" => getDispenser(id)
        BY <1>5, <1>6, <2>2 DEF AdminPage, AdminDispenser
      <3> QED
        BY <2>1, <3>1, <3>2, <3>3, <3>4 DEF AdminScope
    <2> QED
      BY <1>4, <1>8, <2>1, <2>3 DEF Within
  <1>9. CASE portal = "/manager"
    <2>1. /\ page \in {"customers/[id]", "orders/[id]", "deliveries/[id]", "dispensers/[id]"}
          /\ who.role = "MANAGER"
      BY <1>2, <1>7, <1>9 DEF RowPages
    <2>2. Rendered(who, path) = ManagerPage(page, id)
      BY <1>4, <1>9, <2>1 DEF Rendered, PageGuard, RequireManager, PortalPage
    <2>3. ManagerScope(page, id)
      <3>1. page = "customers/[id]" => getCustomer(id)
        BY <1>5, <1>6, <2>2 DEF ManagerPage, ManagerCustomer
      <3>2. page = "orders/[id]" => getOrder(id)
        BY <1>5, <1>6, <2>2 DEF ManagerPage, ManagerOrder
      <3>3. page = "deliveries/[id]" => getDelivery(id)
        BY <1>5, <1>6, <2>2 DEF ManagerPage, ManagerDelivery
      <3>4. page = "dispensers/[id]" => getDispenser(id)
        BY <1>5, <1>6, <2>2 DEF ManagerPage, ManagerDispenser
      <3> QED
        BY <2>1, <3>1, <3>2, <3>3, <3>4 DEF ManagerScope
    <2> QED
      BY <1>4, <1>9, <2>1, <2>3 DEF Within
  <1>10. CASE portal = "/agent"
    <2>1. /\ page \in {"customers/[id]", "orders/[id]", "orders/new"}
          /\ who.role = "AGENT"
      BY <1>2, <1>7, <1>10 DEF RowPages
    <2>2. Rendered(who, path) = AgentPage(who.id, page, id)
      BY <1>4, <1>10, <2>1 DEF Rendered, PageGuard, RequireAgent, PortalPage
    <2>3. AgentScope(who.id, page, id)
      <3>1. page = "customers/[id]" => getAgentCustomer(who.id, id)
        BY <1>6, <1>f, <2>2 DEF AgentPage, AgentCustomer
      <3>2. page = "orders/[id]" => getOrder(id) /\ RegisteredBy[order[id].customer] = who.id
        BY <1>6, <1>f, <2>2 DEF AgentPage, AgentOrder
      <3>3. page = "orders/new" => id = 0 \/ getAgentCustomer(who.id, id)
        BY <1>6, <1>f, <2>2 DEF AgentPage, AgentNewOrder
      <3> QED
        BY <2>1, <3>1, <3>2, <3>3 DEF AgentScope
    <2> QED
      BY <1>4, <1>10, <2>1, <2>3 DEF Within
  <1>11. CASE portal = "/driver"
    <2>1. page = "assigned/[id]" /\ who.role = "DRIVER"
      BY <1>2, <1>7, <1>11 DEF RowPages
    <2>2. Rendered(who, path) = DriverDelivery(who.id, id)
      BY <1>4, <1>11, <2>1 DEF Rendered, PageGuard, RequireDriver, PortalPage, DriverPage
    <2>3. getDriverDelivery(who.id, id)
      BY <1>5, <1>6, <2>2 DEF DriverDelivery
    <2> QED
      BY <1>4, <1>11, <2>1, <2>3 DEF Within, DriverScope
  <1>12. CASE portal = "/customer"
    <2>1. page \in {"orders/[id]", "deliveries/[id]"} /\ who.role = "CUSTOMER"
      BY <1>2, <1>7, <1>12 DEF RowPages
    <2>2. Rendered(who, path) = CustomerPage(who.id, page, id)
      BY <1>4, <1>12, <2>1 DEF Rendered, PageGuard, RequireCustomer, PortalPage
    <2>3. page = "orders/[id]" => getCustomerOrder(who.id, id)
      BY <1>5, <1>6, <2>2 DEF CustomerPage, CustomerOrder
    <2>4. page = "deliveries/[id]" => getCustomerDelivery(who.id, id)
      BY <1>5, <1>6, <2>2 DEF CustomerPage, CustomerDelivery
    <2> QED
      BY <1>4, <1>12, <2>1, <2>3, <2>4 DEF Within, CustomerScope
  <1> QED
    BY <1>7, <1>8, <1>9, <1>10, <1>11, <1>12

LEMMA LinksLast ==
  ASSUME PortalsTypeOK, PortalsTypeOK', Grown, NEW who \in People,
         NEW path \in RowPaths[who.role], Opens(who, path)
  PROVE  Opens(who, path)' \/ GivenAway(who, path)
  <1>1. Within(who, path)
    BY OpenIsWithin
  <1>2. CASE Within(who, path)'
    <2>1. who \in People'
      BY DEF People, Grown, AllCustomers
    <2>2. Sound(who, Rendered(who, path))'
      BY <1>2, <2>1, PagesStaySound DEF PagesSound
    <2> QED
      BY <2>2 DEF Opens, Sound
  <1> QED
    BY <1>1, <1>2, ScopeLasts

\* The links near home lead somewhere, and a page about a row that opens once opens
\* ever after, unless its attempt is given to another driver.
THEOREM LinksLeadSomewhere == Spec => LinksLead
  <1>1. PortalsTypeOK => \A who \in People : \A path \in Near(who) : Opens(who, path)
    BY NearWithin, RenderedSound DEF Opens, Sound
  <1>2. ASSUME PortalsTypeOK, [Next]_portalsVars
        PROVE  PortalsTypeOK' /\ Grown
    BY <1>2, PortalsStep
  <1>3. ASSUME PortalsTypeOK, PortalsTypeOK', [Next]_portalsVars
        PROVE  [\A who \in People : \A path \in RowPaths[who.role] :
                  Opens(who, path)' \/ ~Opens(who, path) \/ GivenAway(who, path)]_portalsVars
    BY <1>2, <1>3, LinksLast
  <1> QED
    BY <1>1, <1>3, PortalsStart, PortalsStep, PTL DEF Spec, LinksLead

-----------------------------------------------------------------------------
(* What waits is within reach.                                             *)

\* From the shell, which is on every page, one click and two.
LEMMA Clicks ==
  ASSUME NEW who, NEW path \in AppShell(who)
  PROVE  /\ path \in Near(who)
         /\ Rendered(who, path).links \subseteq Near(who)
         /\ \A next \in Rendered(who, path).links :
              Rendered(who, next).links \subseteq Near(who)
  <1> DEFINE links(p) == Rendered(who, p).links
             home == Home(who)
             one == {home} \cup AppShell(who) \cup Follow(who, {home})
             two == one \cup Follow(who, one \ {home})
  <1>1. \A paths : \A p \in paths : links(p) \subseteq Follow(who, paths)
    BY DEF Follow
  <1>2. Near(who) = two \cup Follow(who, two \ one)
    BY DEF Near
  <1>3. path \in one /\ links(home) \subseteq one
    BY <1>1
  <1> HIDE DEF links, home
  <1>4. \A p \in one : links(p) \subseteq two
    <2> SUFFICES ASSUME NEW p \in one PROVE links(p) \subseteq two
      OBVIOUS
    <2>1. CASE p = home
      BY <1>3, <2>1
    <2>2. CASE p # home
      <3> HIDE DEF one
      <3> QED
        BY <1>1, <2>2
    <2> QED
      BY <2>1, <2>2
  <1>5. ASSUME NEW p \in two PROVE links(p) \subseteq Near(who)
    <2>1. CASE p \in one
      BY <1>2, <1>4, <2>1
    <2>2. CASE p \notin one
      <3> HIDE DEF one, two
      <3> QED
        BY <1>1, <1>2, <1>5, <2>2
    <2> QED
      BY <2>1, <2>2
  <1> HIDE DEF one
  <1> QED
    BY <1>2, <1>3, <1>4, <1>5 DEF links

\* The pages of somebody's own portal.
LEMMA OwnPages ==
  ASSUME NEW who, NEW page, NEW id
  PROVE  /\ who.role \in {"ADMINISTRATOR", "MANAGER"} =>
              Rendered(who, Link("/manager", page, id)) = ManagerPage(page, id)
         /\ who.role = "AGENT" =>
              Rendered(who, Link("/agent", page, id)) = AgentPage(who.id, page, id)
         /\ who.role = "DRIVER" =>
              Rendered(who, Link("/driver", page, id)) = DriverPage(who.id, page, id)
         /\ who.role = "CUSTOMER" =>
              Rendered(who, Link("/customer", page, id)) = CustomerPage(who.id, page, id)
  <1>1. ASSUME who.role \in {"ADMINISTRATOR", "MANAGER"}
        PROVE  Rendered(who, Link("/manager", page, id)) = ManagerPage(page, id)
    <2> DEFINE path == Link("/manager", page, id)
    <2>1. path.portal = "/manager" /\ path.page = page /\ path.id = id
      BY DEF Link
    <2> HIDE DEF path
    <2>2. Rendered(who, path) = ManagerPage(page, id)
      BY <1>1, <2>1 DEF Rendered, PageGuard, RequireManager, PortalPage
    <2> QED
      BY <2>2 DEF path
  <1>2. ASSUME who.role = "AGENT"
        PROVE  Rendered(who, Link("/agent", page, id)) = AgentPage(who.id, page, id)
    <2> DEFINE path == Link("/agent", page, id)
    <2>1. path.portal = "/agent" /\ path.page = page /\ path.id = id
      BY DEF Link
    <2> HIDE DEF path
    <2>2. Rendered(who, path) = AgentPage(who.id, page, id)
      BY <1>2, <2>1 DEF Rendered, PageGuard, RequireAgent, PortalPage
    <2> QED
      BY <2>2 DEF path
  <1>3. ASSUME who.role = "DRIVER"
        PROVE  Rendered(who, Link("/driver", page, id)) = DriverPage(who.id, page, id)
    <2> DEFINE path == Link("/driver", page, id)
    <2>1. path.portal = "/driver" /\ path.page = page /\ path.id = id
      BY DEF Link
    <2> HIDE DEF path
    <2>2. Rendered(who, path) = DriverPage(who.id, page, id)
      BY <1>3, <2>1 DEF Rendered, PageGuard, RequireDriver, PortalPage
    <2> QED
      BY <2>2 DEF path
  <1>4. ASSUME who.role = "CUSTOMER"
        PROVE  Rendered(who, Link("/customer", page, id)) = CustomerPage(who.id, page, id)
    <2> DEFINE path == Link("/customer", page, id)
    <2>1. path.portal = "/customer" /\ path.page = page /\ path.id = id
      BY DEF Link
    <2> HIDE DEF path
    <2>2. Rendered(who, path) = CustomerPage(who.id, page, id)
      BY <1>4, <2>1 DEF Rendered, PageGuard, RequireCustomer, PortalPage
    <2> QED
      BY <2>2 DEF path
  <1> QED
    BY <1>1, <1>2, <1>3, <1>4

\* What is shown under some addresses.
LEMMA PageTable ==
  ASSUME NEW x, NEW id
  PROVE  /\ ManagerPage("orders", id) = ManagerOrders
         /\ ManagerPage("orders/[id]", id) = ManagerOrder(id)
         /\ ManagerPage("deliveries", id) = ManagerDeliveries
         /\ ManagerPage("deliveries/[id]", id) = ManagerDelivery(id)
         /\ AgentPage(x, "customers", id) = AgentCustomers(x)
         /\ AgentPage(x, "customers/[id]", id) = AgentCustomer(x, id)
         /\ AgentPage(x, "customers/new", id) = AgentNewCustomer
         /\ AgentPage(x, "orders/new", id) = AgentNewOrder(x, id)
         /\ DriverPage(x, "assigned", id) = DriverAssigned(x)
         /\ DriverPage(x, "assigned/[id]", id) = DriverDelivery(x, id)
         /\ CustomerPage(x, "order", id) = CustomerOrderWater(x)
         /\ CustomerPage(x, "orders", id) = CustomerOrders(x)
         /\ CustomerPage(x, "orders/[id]", id) = CustomerOrder(x, id)
         /\ CustomerPage(x, "addresses", id) = CustomerAddresses(x)
  <1>1. ManagerPage("orders", id) = ManagerOrders
    BY DEF ManagerPage
  <1>2. ManagerPage("orders/[id]", id) = ManagerOrder(id)
    BY DEF ManagerPage
  <1>3. ManagerPage("deliveries", id) = ManagerDeliveries
    BY DEF ManagerPage
  <1>4. ManagerPage("deliveries/[id]", id) = ManagerDelivery(id)
    BY DEF ManagerPage
  <1>5. AgentPage(x, "customers", id) = AgentCustomers(x)
    BY DEF AgentPage
  <1>6. AgentPage(x, "customers/[id]", id) = AgentCustomer(x, id)
    BY DEF AgentPage
  <1>7. AgentPage(x, "customers/new", id) = AgentNewCustomer
    BY DEF AgentPage
  <1>8. AgentPage(x, "orders/new", id) = AgentNewOrder(x, id)
    BY DEF AgentPage
  <1>9. DriverPage(x, "assigned", id) = DriverAssigned(x)
    BY DEF DriverPage
  <1>10. DriverPage(x, "assigned/[id]", id) = DriverDelivery(x, id)
    BY DEF DriverPage
  <1>11. CustomerPage(x, "order", id) = CustomerOrderWater(x)
    BY DEF CustomerPage
  <1>12. CustomerPage(x, "orders", id) = CustomerOrders(x)
    BY DEF CustomerPage
  <1>13. CustomerPage(x, "orders/[id]", id) = CustomerOrder(x, id)
    BY DEF CustomerPage
  <1>14. CustomerPage(x, "addresses", id) = CustomerAddresses(x)
    BY DEF CustomerPage
  <1> QED
    BY <1>1, <1>2, <1>3, <1>4, <1>5, <1>6, <1>7,
       <1>8, <1>9, <1>10, <1>11, <1>12, <1>13, <1>14

\* Some entries of the navigation.
LEMMA Entries ==
  ASSUME NEW who
  PROVE  /\ who.role = "MANAGER" =>
              \A page \in {"orders", "deliveries"} :
                Link("/manager", page, 0) \in AppShell(who)
         /\ who.role = "AGENT" => Link("/agent", "customers", 0) \in AppShell(who)
         /\ who.role = "DRIVER" => Link("/driver", "assigned", 0) \in AppShell(who)
         /\ who.role = "CUSTOMER" =>
              \A page \in {"orders", "order", "addresses"} :
                Link("/customer", page, 0) \in AppShell(who)
  <1>1. ASSUME who.role = "MANAGER", NEW page \in {"orders", "deliveries"}
        PROVE  Link("/manager", page, 0) \in AppShell(who)
    BY <1>1 DEF AppShell, navigationFor, MANAGER, Menu
  <1>2. ASSUME who.role = "AGENT"
        PROVE  Link("/agent", "customers", 0) \in AppShell(who)
    BY <1>2 DEF AppShell, navigationFor, AGENT, Menu
  <1>3. ASSUME who.role = "DRIVER"
        PROVE  Link("/driver", "assigned", 0) \in AppShell(who)
    BY <1>3 DEF AppShell, navigationFor, DRIVER, Menu
  <1>4. ASSUME who.role = "CUSTOMER", NEW page \in {"orders", "order", "addresses"}
        PROVE  Link("/customer", page, 0) \in AppShell(who)
    BY <1>4 DEF AppShell, navigationFor, CUSTOMER, Menu
  <1> QED
    BY <1>1, <1>2, <1>3, <1>4

\* A link of a list is one of its links.
LEMMA LinkOf ==
  ASSUME NEW portal, NEW page, NEW ids, NEW id \in ids
  PROVE  Link(portal, page, id) \in Links(portal, page, ids)
  BY DEF Links

\* A driver's attempts on the road are on the list of them, and their pages offer
\* both forms.
LEMMA DriverReaches ==
  ASSUME NEW who, who.role = "DRIVER", NEW a \in DeliveriesBy(who.id, {"ASSIGNED"}),
         NEW op \in {"complete", "fail"}
  PROVE  \E path \in Near(who) : Form(op, a) \in Rendered(who, path).forms
  <1> DEFINE path == Link("/driver", "assigned/[id]", a)
             list == Link("/driver", "assigned", 0)
  <1>1. Rendered(who, list) = DriverAssigned(who.id)
    BY OwnPages, PageTable
  <1>2. path \in Rendered(who, list).links
    BY <1>1, LinkOf DEF DriverAssigned, DeliveryCardList, Page, listAssignedDeliveries
  <1>3. path \in Near(who)
    BY <1>2, Clicks, Entries
  <1>4. Rendered(who, path) = DriverDelivery(who.id, a)
    BY OwnPages, PageTable
  <1>5. getDriverDelivery(who.id, a) /\ delivery[a].status = "ASSIGNED"
    BY DEF getDriverDelivery, getDelivery, DeliveriesBy
  <1>6. Form(op, a) \in Rendered(who, path).forms
    BY <1>4, <1>5 DEF DriverDelivery, PageIf, Page, DriverDeliveryForms
  <1> QED
    BY <1>3, <1>6

\* The pages of the newest orders and of the newest deliveries.
LEMMA ManagerReaches ==
  ASSUME NEW who, who.role = "MANAGER"
  PROVE  /\ \A o \in listOrders :
              LET path == Link("/manager", "orders/[id]", o)
              IN  /\ path \in Near(who) /\ Rendered(who, path) = ManagerOrder(o)
                  /\ getOrder(o)
                  /\ \A a \in DeliveriesOf(o) :
                       Link("/manager", "deliveries/[id]", a) \in Near(who)
         /\ \A a \in listDeliveries :
              Link("/manager", "deliveries/[id]", a) \in Near(who)
         /\ \A a : Rendered(who, Link("/manager", "deliveries/[id]", a))
                     = ManagerDelivery(a)
  <1>1. /\ Rendered(who, Link("/manager", "orders", 0)) = ManagerOrders
        /\ Rendered(who, Link("/manager", "deliveries", 0)) = ManagerDeliveries
    BY OwnPages, PageTable
  <1>2. \A id : /\ Rendered(who, Link("/manager", "orders/[id]", id)) = ManagerOrder(id)
                /\ Rendered(who, Link("/manager", "deliveries/[id]", id))
                     = ManagerDelivery(id)
    BY OwnPages, PageTable
  <1>3. ASSUME NEW o \in listOrders
        PROVE  LET path == Link("/manager", "orders/[id]", o)
               IN  /\ path \in Near(who)
                   /\ getOrder(o)
                   /\ \A a \in DeliveriesOf(o) :
                        Link("/manager", "deliveries/[id]", a) \in Near(who)
    <2> DEFINE path == Link("/manager", "orders/[id]", o)
               list == Link("/manager", "orders", 0)
    <2>1. path \in Rendered(who, list).links
      BY <1>1, LinkOf DEF ManagerOrders, Page
    <2>2. path \in Near(who) /\ Rendered(who, path).links \subseteq Near(who)
      BY <2>1, Clicks, Entries
    <2>3. getOrder(o)
      BY ListsArePart DEF listOrders, getOrder
    <2>4. \A a \in DeliveriesOf(o) :
            Link("/manager", "deliveries/[id]", a) \in Rendered(who, path).links
      <3>1. Rendered(who, path) = ManagerOrder(o)
        BY <1>2
      <3>2. ManagerOrder(o).links
              = Links("/manager", "deliveries/[id]", DeliveriesOf(o))
        BY <2>3 DEF ManagerOrder, PageIf, Page, AttemptsShown
      <3> QED
        BY <3>1, <3>2, LinkOf
    <2> QED
      BY <2>2, <2>3, <2>4
  <1>4. ASSUME NEW a \in listDeliveries
        PROVE  Link("/manager", "deliveries/[id]", a) \in Near(who)
    <2> DEFINE list == Link("/manager", "deliveries", 0)
    <2>1. Link("/manager", "deliveries/[id]", a) \in Rendered(who, list).links
      BY <1>1, LinkOf DEF ManagerDeliveries, Page
    <2> QED
      BY <2>1, Clicks, Entries
  <1> QED
    BY <1>2, <1>3, <1>4

\* A customer reaches the newest orders, and what an order needs.
LEMMA CustomerReaches ==
  ASSUME NEW who, who.role = "CUSTOMER"
  PROVE  /\ \A o \in Newest(OrdersOf({who.id}), OwnLength) :
              order[o].status \in CancelAllowed =>
                \E path \in Near(who) : Form("cancel", o) \in Rendered(who, path).forms
         /\ listCustomerAddresses(who.id) # {} =>
              \E path \in Near(who) : Form("place", who.id) \in Rendered(who, path).forms
         /\ \E path \in Near(who) :
              Form("save address", 0) \in Rendered(who, path).forms
  <1> DEFINE c == who.id
             orders == Link("/customer", "orders", 0)
             water == Link("/customer", "order", 0)
             addresses == Link("/customer", "addresses", 0)
  <1>1. /\ Rendered(who, orders) = CustomerOrders(c)
        /\ Rendered(who, water) = CustomerOrderWater(c)
        /\ Rendered(who, addresses) = CustomerAddresses(c)
        /\ \A o : Rendered(who, Link("/customer", "orders/[id]", o)) = CustomerOrder(c, o)
    BY OwnPages, PageTable
  <1>2. water \in Near(who) /\ addresses \in Near(who)
    BY Clicks, Entries
  <1>3. ASSUME NEW o \in Newest(OrdersOf({c}), OwnLength), order[o].status \in CancelAllowed
        PROVE  \E path \in Near(who) : Form("cancel", o) \in Rendered(who, path).forms
    <2> DEFINE path == Link("/customer", "orders/[id]", o)
    <2>1. path \in Rendered(who, orders).links
      <3>1. Rendered(who, orders) = CustomerOrders(c)
        BY <1>1
      <3>2. Links("/customer", "orders/[id]", Newest(OrdersOf({c}), OwnLength))
              \subseteq CustomerOrders(c).links
        BY DEF CustomerOrders, Page, listCustomerOrders
      <3>3. path \in Links("/customer", "orders/[id]",
                           Newest(OrdersOf({c}), OwnLength))
        BY <1>3, LinkOf
      <3> QED
        BY <3>1, <3>2, <3>3
    <2>2. path \in Near(who)
      BY <2>1, Clicks, Entries
    <2>3. getCustomerOrder(c, o)
      BY ListsArePart DEF OrdersOf, getCustomerOrder, getOrder
    <2>4. Form("cancel", o) \in Rendered(who, path).forms
      BY <1>1, <1>3, <2>3 DEF CustomerOrder, PageIf, Page, CancelOrderForm, Forms
    <2> QED
      BY <2>2, <2>4
  <1>4. ASSUME listCustomerAddresses(c) # {}
        PROVE  Form("place", c) \in Rendered(who, water).forms
    BY <1>1, <1>4 DEF CustomerOrderWater, Page, PlaceOrderForm, Forms
  <1>5. Form("save address", 0) \in Rendered(who, addresses).forms
    <2>1. CustomerAddresses(c).forms
            = AddressForm(listCustomerAddresses(c)) \cup RemoveAddressForm(listCustomerAddresses(c))
      BY DEF CustomerAddresses, Page
    <2>2. Form("save address", 0) \in AddressForm(listCustomerAddresses(c))
      BY DEF AddressForm, Forms
    <2> QED
      BY <1>1, <2>1, <2>2
  <1>6. listCustomerAddresses(who.id) # {} =>
          \E path \in Near(who) : Form("place", who.id) \in Rendered(who, path).forms
    BY <1>2, <1>4
  <1>7. \E path \in Near(who) :
          Form("save address", 0) \in Rendered(who, path).forms
    BY <1>2, <1>5
  <1> HIDE DEF c
  <1> QED
    BY <1>3, <1>6, <1>7 DEF c

\* An agent reaches the order form of each customer listed, and registration.
LEMMA AgentReaches ==
  ASSUME PortalsTypeOK, NEW who, who.role = "AGENT"
  PROVE  /\ \A c \in listAgentCustomers(who.id) :
              listCustomerAddresses(c) # {} =>
                \E path \in Near(who) : Form("place", c) \in Rendered(who, path).forms
         /\ \E path \in Near(who) : Form("register", 0) \in Rendered(who, path).forms
  <1> DEFINE g == who.id
             list == Link("/agent", "customers", 0)
  <1>1. Rendered(who, list) = AgentCustomers(g)
    BY OwnPages, PageTable
  <1>2. \E path \in Near(who) : Form("register", 0) \in Rendered(who, path).forms
    <2> DEFINE path == Link("/agent", "customers/new", 0)
    <2>1. path \in Rendered(who, list).links
      BY <1>1 DEF AgentCustomers, Page
    <2>2. Rendered(who, path) = AgentNewCustomer
      BY OwnPages, PageTable
    <2>3. Form("register", 0) \in Rendered(who, path).forms
      BY <2>2 DEF AgentNewCustomer, AgentRegisterForm, Page
    <2> QED
      BY <2>1, <2>3, Clicks, Entries
  <1>3. ASSUME NEW c \in listAgentCustomers(g), listCustomerAddresses(c) # {}
        PROVE  \E path \in Near(who) : Form("place", c) \in Rendered(who, path).forms
    <2> DEFINE card == Link("/agent", "customers/[id]", c)
               path == Link("/agent", "orders/new", c)
    <2>1. getAgentCustomer(g, c) /\ c # 0
      <3>1. c \in AllCustomers /\ RegisteredBy[c] = g
        BY ListsArePart DEF listAgentCustomers
      <3> QED
        BY <3>1, Customers DEF getAgentCustomer, AllCustomers
    <2>2. card \in Rendered(who, list).links
      BY <1>1, LinkOf DEF AgentCustomers, Page
    <2>3. Rendered(who, card) = AgentCustomer(g, c)
      BY OwnPages, PageTable
    <2>4. path \in Rendered(who, card).links
      BY <2>1, <2>3 DEF AgentCustomer, Page
    <2>5. path \in Near(who)
      BY <2>2, <2>4, Clicks, Entries
    <2>6. Rendered(who, path) = AgentNewOrder(g, c)
      BY OwnPages, PageTable
    <2>7. Form("place", c) \in PlaceOrderForm(c, listCustomerAddresses(c))
      BY <1>3 DEF PlaceOrderForm, Forms
    <2>8. Form("place", c) \in Rendered(who, path).forms
      BY <2>1, <2>6, <2>7 DEF AgentNewOrder, Page
    <2> QED
      BY <2>5, <2>8
  <1> QED
    BY <1>2, <1>3

\* WorkIsReachable of Portals: whatever waits for somebody is offered to them
\* within three clicks of home, however many rows there are and however short the
\* lists.
THEOREM WorkIsFound == Spec => []WorkIsReachable
  <1>1. ASSUME PortalsTypeOK, NEW who \in People, NEW form \in Awaiting(who)
        PROVE  \E path \in Near(who) : form \in Rendered(who, path).forms
    <2>1. CASE who.role = "DRIVER"
      BY <2>1, DriverReaches DEF Awaiting, DriverWork
    <2>2. CASE who.role = "MANAGER"
      <3>1. CASE form \in Forms("assign", {o \in Newest(AllOrders, ListLength) :
                                             order[o].status \in {"PENDING", "FAILED"}})
        <4>1. PICK o \in listOrders :
                form = Form("assign", o) /\ order[o].status \in Assignable
          BY <3>1 DEF Forms, listOrders, Assignable
        <4>2. form \in ManagerOrder(o).forms
          BY <2>2, <4>1, ManagerReaches
             DEF ManagerOrder, PageIf, Page, CanAssign, AssignDriverForm, Forms
        <4> QED
          BY <2>2, <4>1, <4>2, ManagerReaches
      <3>2. CASE form \in Forms("reconcile",
                            {a \in AllDeliveries :
                               /\ delivery[a].latched
                               /\ \/ a \in Newest(AllDeliveries, ListLength)
                                  \/ delivery[a].order \in Newest(AllOrders, ListLength)})
        <4>1. PICK a \in AllDeliveries :
                /\ form = Form("reconcile", a) /\ delivery[a].latched
                /\ a \in listDeliveries \/ delivery[a].order \in listOrders
          BY <3>2 DEF Forms, listDeliveries, listOrders
        <4>2. Link("/manager", "deliveries/[id]", a) \in Near(who)
          BY <2>2, <4>1, ManagerReaches DEF DeliveriesOf
        <4>3. form \in ManagerDelivery(a).forms
          BY <4>1 DEF ManagerDelivery, PageIf, Page, getDelivery, ReconcileForm, Forms
        <4> QED
          BY <2>2, <4>2, <4>3, ManagerReaches
      <3> QED
        BY <2>2, <3>1, <3>2 DEF Awaiting, ManagerWork
    <2>3. CASE who.role = "CUSTOMER"
      <3>1. CASE \E o \in Newest(OrdersOf({who.id}), OwnLength) :
                    form = Form("cancel", o) /\ order[o].status \in CancelAllowed
        BY <2>3, <3>1, CustomerReaches
      <3>2. CASE form = Form("place", who.id) /\ listCustomerAddresses(who.id) # {}
        BY <2>3, <3>2, CustomerReaches
      <3>3. CASE form = Form("save address", 0)
        BY <2>3, <3>3, CustomerReaches
      <3> DEFINE open == {o \in Newest(OrdersOf({who.id}), OwnLength) :
                            order[o].status \in CancelAllowed}
                 served == {c \in {who.id} : \E i \in AddressesOf(c) : address[i].active}
      <3>4. form \in Forms("cancel", open) =>
              \E o \in Newest(OrdersOf({who.id}), OwnLength) :
                form = Form("cancel", o) /\ order[o].status \in CancelAllowed
        BY DEF Forms
      <3>5. form \in Forms("place", served) =>
              form = Form("place", who.id) /\ listCustomerAddresses(who.id) # {}
        BY DEF Forms, listCustomerAddresses
      <3>6. \/ form \in Forms("cancel", open) \/ form \in Forms("place", served)
            \/ form = Form("save address", 0)
        <4>1. Awaiting(who) = Forms("cancel", open) \cup Forms("place", served)
                                \cup {Form("save address", 0)}
          BY <2>3 DEF Awaiting, CustomerWork
        <4> HIDE DEF open, served
        <4> QED
          BY <1>1, <4>1
      <3> HIDE DEF open, served
      <3> QED
        BY <3>1, <3>2, <3>3, <3>4, <3>5, <3>6
    <2>4. CASE who.role = "AGENT"
      <3> DEFINE served == {c \in listAgentCustomers(who.id) :
                              \E i \in AddressesOf(c) : address[i].active}
      <3>1. Awaiting(who) = Forms("place", served) \cup {Form("register", 0)}
        BY <2>4 DEF Awaiting, AgentWork, listAgentCustomers
      <3>2. CASE form \in Forms("place", served)
        <4>1. PICK c \in listAgentCustomers(who.id) :
                form = Form("place", c) /\ listCustomerAddresses(c) # {}
          BY <3>2 DEF Forms, listCustomerAddresses
        <4> QED
          BY <1>1, <2>4, <4>1, AgentReaches
      <3>3. CASE form = Form("register", 0)
        BY <1>1, <2>4, <3>3, AgentReaches
      <3> HIDE DEF served
      <3> QED
        BY <1>1, <3>1, <3>2, <3>3
    <2>5. CASE who.role = "ADMINISTRATOR"
      BY <2>5 DEF Awaiting
    <2> QED
      BY <2>1, <2>2, <2>3, <2>4, <2>5, RolesOfPeople
  <1>2. PortalsTypeOK => WorkIsReachable
    BY <1>1 DEF WorkIsReachable
  <1> QED
    BY <1>2, PortalsTypeCorrect, PTL

-----------------------------------------------------------------------------
(* What is taken is offered.                                               *)

LEMMA OfferedOn ==
  ASSUME NEW who, NEW form, NEW path \in PagesOf(who, form),
         form \in Rendered(who, path).forms
  PROVE  OffersOf(who, form)
  BY DEF OffersOf

\* A filled-in form is one of these.
LEMMA Kinds ==
  ASSUME NEW form \in FilledIn
  PROVE  \/ \E c \in AllCustomers : form = Form("place", c)
         \/ \E o \in AllOrders : form = Form("cancel", o) \/ form = Form("assign", o)
         \/ \E a \in AllDeliveries :
              \/ form = Form("complete", a) \/ form = Form("fail", a)
              \/ form = Form("reconcile", a)
         \/ \E i \in AllAddresses \cup {0} : form = Form("save address", i)
         \/ \E i \in AllAddresses : form = Form("remove address", i)
         \/ form = Form("register", 0)
  <1>1. \A op, ids : form \in Forms(op, ids) => \E id \in ids : form = Form(op, id)
    BY DEF Forms
  <1>2. form \in AgentRegisterForm => form = Form("register", 0)
    BY DEF AgentRegisterForm
  <1>3. \/ form \in Forms("place", AllCustomers)
        \/ form \in Forms("cancel", AllOrders) \/ form \in Forms("assign", AllOrders)
        \/ form \in Forms("complete", AllDeliveries) \/ form \in Forms("fail", AllDeliveries)
        \/ form \in Forms("reconcile", AllDeliveries)
        \/ form \in Forms("save address", AllAddresses \cup {0})
        \/ form \in Forms("remove address", AllAddresses) \/ form \in AgentRegisterForm
    BY DEF FilledIn
  <1>4. CASE form \in Forms("place", AllCustomers)
    <2>1. PICK c \in AllCustomers : form = Form("place", c)
      BY <1>1, <1>4
    <2> QED
      BY <2>1
  <1>5. CASE form \in Forms("cancel", AllOrders)
    <2>1. PICK o \in AllOrders : form = Form("cancel", o)
      BY <1>1, <1>5
    <2> QED
      BY <2>1
  <1>6. CASE form \in Forms("assign", AllOrders)
    <2>1. PICK o \in AllOrders : form = Form("assign", o)
      BY <1>1, <1>6
    <2> QED
      BY <2>1
  <1>7. CASE form \in Forms("complete", AllDeliveries)
    <2>1. PICK a \in AllDeliveries : form = Form("complete", a)
      BY <1>1, <1>7
    <2> QED
      BY <2>1
  <1>8. CASE form \in Forms("fail", AllDeliveries)
    <2>1. PICK a \in AllDeliveries : form = Form("fail", a)
      BY <1>1, <1>8
    <2> QED
      BY <2>1
  <1>9. CASE form \in Forms("reconcile", AllDeliveries)
    <2>1. PICK a \in AllDeliveries : form = Form("reconcile", a)
      BY <1>1, <1>9
    <2> QED
      BY <2>1
  <1>10. CASE form \in Forms("save address", AllAddresses \cup {0})
    <2>1. PICK i \in AllAddresses \cup {0} : form = Form("save address", i)
      BY <1>1, <1>10
    <2> QED
      BY <2>1
  <1>11. CASE form \in Forms("remove address", AllAddresses)
    <2>1. PICK i \in AllAddresses : form = Form("remove address", i)
      BY <1>1, <1>11
    <2> QED
      BY <2>1
  <1> QED
    BY <1>2, <1>3, <1>4, <1>5, <1>6, <1>7, <1>8, <1>9, <1>10, <1>11

LEMMA FormsHavePages ==
  ASSUME NEW who, NEW id
  PROVE  /\ PagesOf(who, Form("place", id))
              = {Link("/customer", "order", 0), Link("/agent", "orders/new", id)}
         /\ PagesOf(who, Form("cancel", id)) = {Link("/customer", "orders/[id]", id)}
         /\ PagesOf(who, Form("assign", id)) = {Link("/manager", "orders/[id]", id)}
         /\ PagesOf(who, Form("complete", id)) = {Link("/driver", "assigned/[id]", id)}
         /\ PagesOf(who, Form("fail", id)) = {Link("/driver", "assigned/[id]", id)}
         /\ PagesOf(who, Form("reconcile", id)) = {Link("/manager", "deliveries/[id]", id)}
         /\ PagesOf(who, Form("save address", id)) = {Link("/customer", "addresses", 0)}
         /\ PagesOf(who, Form("remove address", id)) = {Link("/customer", "addresses", 0)}
         /\ PagesOf(who, Form("register", id)) = {Link("/agent", "customers/new", 0)}
  BY DEF PagesOf, Form

LEMMA TakenIsOffered ==
  ASSUME PortalsTypeOK, NEW who \in People, NEW form \in FilledIn, Accepted(who, form)
  PROVE  OffersOf(who, form) \/ OutlivesItsOffer(form)
  <1>1. ASSUME NEW c \in AllCustomers, form = Form("place", c)
        PROVE  OffersOf(who, form) \/ OutlivesItsOffer(form)
    <2>1. MayPlace(who, c)
      BY <1>1, FormsAccepted
    <2>2. CASE listCustomerAddresses(c) = {}
      BY <1>1, <2>2 DEF OutlivesItsOffer, Form
    <2>3. form \in PlaceOrderForm(c, listCustomerAddresses(c)) \/ listCustomerAddresses(c) = {}
      BY <1>1 DEF PlaceOrderForm, Forms
    <2>4. CASE who.role = "CUSTOMER" /\ who.id = c /\ listCustomerAddresses(c) # {}
      <3>1. Rendered(who, Link("/customer", "order", 0)) = CustomerOrderWater(c)
        BY <2>4, OwnPages, PageTable
      <3>2. form \in CustomerOrderWater(c).forms
        BY <2>3, <2>4 DEF CustomerOrderWater, Page
      <3>p. Link("/customer", "order", 0) \in PagesOf(who, form)
        BY <1>1, FormsHavePages
      <3> QED
        BY <3>1, <3>2, <3>p, OfferedOn
    <2>5. CASE /\ who.role = "AGENT" /\ getAgentCustomer(who.id, c)
               /\ listCustomerAddresses(c) # {}
      <3>1. Rendered(who, Link("/agent", "orders/new", c)) = AgentNewOrder(who.id, c)
        BY <2>5, OwnPages, PageTable
      <3>2. c # 0
        BY Customers DEF AllCustomers
      <3>3. form \in AgentNewOrder(who.id, c).forms
        BY <2>3, <2>5, <3>2 DEF AgentNewOrder, Page
      <3>p. Link("/agent", "orders/new", c) \in PagesOf(who, form)
        BY <1>1, FormsHavePages
      <3> QED
        BY <3>1, <3>3, <3>p, OfferedOn
    <2> QED
      BY <2>1, <2>2, <2>4, <2>5 DEF MayPlace, RequireCustomer, RequireAgent
  <1>2. ASSUME NEW o \in AllOrders, form = Form("cancel", o)
        PROVE  OffersOf(who, form)
    <2>1. MayCancel(who, o)
      BY <1>2, FormsAccepted
    <2>2. who.role = "CUSTOMER" /\ getCustomerOrder(who.id, o) /\ order[o].status \in CancelAllowed
      BY <2>1 DEF MayCancel, RequireCustomer
    <2>3. Rendered(who, Link("/customer", "orders/[id]", o)) = CustomerOrder(who.id, o)
      BY <2>2, OwnPages, PageTable
    <2>4. form \in CustomerOrder(who.id, o).forms
      BY <1>2, <2>2 DEF CustomerOrder, PageIf, Page, CancelOrderForm, Forms
    <2>p. Link("/customer", "orders/[id]", o) \in PagesOf(who, form)
      BY <1>2, FormsHavePages
    <2> QED
      BY <2>3, <2>4, <2>p, OfferedOn
  <1>3. ASSUME NEW o \in AllOrders, form = Form("assign", o)
        PROVE  OffersOf(who, form) \/ OutlivesItsOffer(form)
    <2>1. MayAssign(who, o)
      BY <1>3, FormsAccepted
    <2>2. who.role \in {"ADMINISTRATOR", "MANAGER"} /\ getOrder(o)
      BY <2>1 DEF MayAssign, RequireManager
    <2>3. CASE order[o].status = "ASSIGNED"
      BY <1>3, <2>3 DEF OutlivesItsOffer, Form
    <2>4. CASE order[o].status \in Assignable
      <3>1. Rendered(who, Link("/manager", "orders/[id]", o)) = ManagerOrder(o)
        BY <2>2, OwnPages, PageTable
      <3>2. form \in ManagerOrder(o).forms
        BY <1>3, <2>2, <2>4 DEF ManagerOrder, PageIf, Page, CanAssign, AssignDriverForm, Forms
      <3>p. Link("/manager", "orders/[id]", o) \in PagesOf(who, form)
        BY <1>3, FormsHavePages
      <3> QED
        BY <3>1, <3>2, <3>p, OfferedOn
    <2> QED
      BY <2>1, <2>3, <2>4 DEF MayAssign
  <1>4. ASSUME NEW a \in AllDeliveries, form = Form("complete", a) \/ form = Form("fail", a)
        PROVE  OffersOf(who, form)
    <2>1. MayComplete(who, a) \/ MayFail(who, a)
      BY <1>4, FormsAccepted
    <2>2. /\ who.role = "DRIVER" /\ getDriverDelivery(who.id, a)
          /\ delivery[a].status = "ASSIGNED"
      BY <2>1 DEF MayComplete, MayFail, RequireDriver, getDriverDelivery
    <2>3. Rendered(who, Link("/driver", "assigned/[id]", a)) = DriverDelivery(who.id, a)
      BY <2>2, OwnPages, PageTable
    <2>4. form \in DriverDelivery(who.id, a).forms
      BY <1>4, <2>2 DEF DriverDelivery, PageIf, Page, DriverDeliveryForms
    <2>p. Link("/driver", "assigned/[id]", a) \in PagesOf(who, form)
      <3>1. CASE form = Form("complete", a)
        BY <3>1, FormsHavePages
      <3>2. CASE form = Form("fail", a)
        BY <3>2, FormsHavePages
      <3> QED
        BY <1>4, <3>1, <3>2
    <2> QED
      BY <2>3, <2>4, <2>p, OfferedOn
  <1>5. ASSUME NEW a \in AllDeliveries, form = Form("reconcile", a)
        PROVE  OffersOf(who, form)
    <2>1. MayReconcile(who, a)
      BY <1>5, FormsAccepted
    <2>2. /\ who.role \in {"ADMINISTRATOR", "MANAGER"}
          /\ getDelivery(a) /\ delivery[a].latched
      BY <2>1 DEF MayReconcile, RequireManager
    <2>3. Rendered(who, Link("/manager", "deliveries/[id]", a)) = ManagerDelivery(a)
      BY <2>2, OwnPages, PageTable
    <2>4. form \in ManagerDelivery(a).forms
      BY <1>5, <2>2 DEF ManagerDelivery, PageIf, Page, ReconcileForm, Forms
    <2>p. Link("/manager", "deliveries/[id]", a) \in PagesOf(who, form)
      BY <1>5, FormsHavePages
    <2> QED
      BY <2>3, <2>4, <2>p, OfferedOn
  <1>6. ASSUME NEW i,
               \/ form = Form("save address", i) /\ i \in AllAddresses \cup {0}
               \/ form = Form("remove address", i) /\ i \in AllAddresses
        PROVE  OffersOf(who, form) \/ OutlivesItsOffer(form)
    <2> DEFINE mine == listCustomerAddresses(who.id)
    <2>1. MaySaveAddress(who, i) \/ MayRemoveAddress(who, i)
      BY <1>6, FormsAccepted
    <2>2. who.role = "CUSTOMER" /\ (i = 0 \/ i \in AddressesOf(who.id))
      BY <2>1 DEF MaySaveAddress, MayRemoveAddress, RequireCustomer
    <2>3. CASE i \in AllAddresses /\ ~address[i].active
      <3>1. form.op \in {"save address", "remove address"} /\ form.id = i
        <4>1. CASE form = Form("save address", i)
          BY <4>1 DEF Form
        <4>2. CASE form = Form("remove address", i)
          BY <4>2 DEF Form
        <4> QED
          BY <1>6, <4>1, <4>2
      <3> QED
        BY <2>3, <3>1 DEF OutlivesItsOffer
    <2>4. CASE i \in mine \/ (i = 0 /\ form = Form("save address", i))
      <3>1. Rendered(who, Link("/customer", "addresses", 0)) = CustomerAddresses(who.id)
        BY <2>2, OwnPages, PageTable
      <3>2. CustomerAddresses(who.id).forms = AddressForm(mine) \cup RemoveAddressForm(mine)
        BY DEF CustomerAddresses, Page
      <3> HIDE DEF mine
      <3>3. form \in AddressForm(mine) \cup RemoveAddressForm(mine)
        BY <1>6, <2>4 DEF AddressForm, RemoveAddressForm, Forms
      <3>p. Link("/customer", "addresses", 0) \in PagesOf(who, form)
        <4>1. CASE form = Form("save address", i)
          BY <4>1, FormsHavePages
        <4>2. CASE form = Form("remove address", i)
          BY <4>2, FormsHavePages
        <4> QED
          BY <1>6, <4>1, <4>2
      <3> QED
        BY <3>1, <3>2, <3>3, <3>p, OfferedOn
    <2>5. AllAddresses \subseteq Nat \ {0} /\ AddressesOf(who.id) \subseteq AllAddresses
      BY DEF AllAddresses, AddressesOf, PortalsTypeOK
    <2>6. CASE i = 0
      <3>1. form = Form("save address", i)
        BY <1>6, <2>5, <2>6
      <3> QED
        BY <2>4, <2>6, <3>1
    <2>7. CASE i \in AddressesOf(who.id)
      <3>1. i \in mine \/ ~address[i].active
        BY <2>7 DEF listCustomerAddresses
      <3> HIDE DEF mine
      <3> QED
        BY <2>3, <2>4, <2>5, <2>7, <3>1
    <2> QED
      BY <2>2, <2>6, <2>7
  <1>7. ASSUME form = Form("register", 0)
        PROVE  OffersOf(who, form)
    <2>1. who.role = "AGENT"
      BY <1>7, FormsAccepted DEF MayRegister, RequireAgent
    <2>2. Rendered(who, Link("/agent", "customers/new", 0)) = AgentNewCustomer
      BY <2>1, OwnPages, PageTable
    <2>3. form \in AgentNewCustomer.forms
      BY <1>7 DEF AgentNewCustomer, AgentRegisterForm, Page
    <2>p. Link("/agent", "customers/new", 0) \in PagesOf(who, form)
      BY <1>7, FormsHavePages
    <2> QED
      BY <2>2, <2>3, <2>p, OfferedOn
  <1> QED
    <2>1. CASE \E i \in AllAddresses \cup {0} : form = Form("save address", i)
      BY <1>6, <2>1
    <2>2. CASE \E i \in AllAddresses : form = Form("remove address", i)
      BY <1>6, <2>2
    <2> QED
      BY <1>1, <1>2, <1>3, <1>4, <1>5, <1>7, <2>1, <2>2, Kinds

\* OffersHonoured of Portals.  A form near home is one its service accepts, or the
\* removal of a default address among others; and whatever the services accept, from
\* a page however old, its page would offer now, or it is one of the forms that
\* outlive their offer.
THEOREM FormsAreHonoured == Spec => []OffersHonoured
  <1>1. ASSUME PortalsTypeOK, NEW who \in People, NEW path \in Near(who),
               NEW form \in Rendered(who, path).forms
        PROVE  Accepted(who, form) \/ RefusedThough(form)
    BY <1>1, NearWithin, RenderedSound DEF Sound
  <1>2. PortalsTypeOK => OffersHonoured
    BY <1>1, TakenIsOffered DEF OffersHonoured
  <1> QED
    BY <1>2, PortalsTypeCorrect, PTL

=============================================================================
