------------------------------- MODULE Portals -------------------------------
(***************************************************************************)
(* The pages of the five portals: what each one lists, where its links     *)
(* lead and which forms it offers, and the server actions behind those     *)
(* forms, which decide again on their own.                                 *)
(*                                                                         *)
(* A page is a function of who asks and of the tables.  It is rendered     *)
(* when it is asked for and may be looked at for as long as its reader     *)
(* likes, so its links are followed and its forms submitted over tables    *)
(* that have changed: an action below is any request a service accepts,    *)
(* from a page however old.  Rows are numbered in the order of their       *)
(* createdAt.  Texts, figures and layout are left out; so are the forms    *)
(* for settings, the profile and notifications, which have modules of      *)
(* their own, stock and the contents of an order.                          *)
(***************************************************************************)
EXTENDS Integers, Sequences, FiniteSets, Permissions

CONSTANTS
  Agents, Drivers,
  RegisteredBy,  \* of each customer who may join, in that order: an agent or 0
  ReferredBy,    \* of each customer: another one, or 0
  HeldBy,        \* the customer who holds each dispenser, or 0
  CancelAllowed, \* setting order.cancellation_allowed_statuses
  Redeeming,     \* the orders that are placed with a reward bottle
  Slots,         \* the times a delivery may be scheduled for
  ListLength,    \* a list of staff shows the newest 100
  OwnLength,     \* a customer's or driver's own list, the newest 50 or 80
  GlanceLength,  \* a dashboard or a customer's page, from 5 to 10
  AddressRows,   \* bound: which rows of addresses a customer may come to own
  MaxOrders,     \* bound
  MaxAttempts    \* bound: deliveries

Joinable == DOMAIN RegisteredBy

ASSUME PortalsAssumption ==
  /\ Agents \subseteq Nat \ {0}
  /\ RegisteredBy \in Seq(Agents \cup {0})
  /\ ReferredBy \in [Joinable -> Joinable \cup {0}]
  /\ \A c \in Joinable : ReferredBy[c] < c
  /\ HeldBy \in Seq(Joinable \cup {0})
  /\ CancelAllowed \cap {"DELIVERED", "CANCELLED"} = {}
  /\ Slots \subseteq Nat /\ Redeeming \subseteq Nat
  /\ ListLength \in Nat /\ OwnLength \in Nat /\ GlanceLength \in Nat
  /\ AddressRows \in [Joinable -> SUBSET Nat]
  /\ MaxOrders \in Nat /\ MaxAttempts \in Nat

VARIABLES
  joined,   \* how many customers have registered
  address,  \* rows of addresses
  order,    \* rows of orders
  delivery, \* rows of deliveries
  payment   \* the order of each row of payments

portalsVars == <<joined, address, order, delivery, payment>>

OrderStatus == {"PENDING", "ASSIGNED", "FAILED", "DELIVERED", "CANCELLED"}
Assignable == {"PENDING", "FAILED"}

Address == [customer : Joinable, active : BOOLEAN, default : BOOLEAN]
Order == [customer : Joinable, status : OrderStatus]
Delivery == [order : Nat \ {0}, driver : Drivers, due : Slots, latched : BOOLEAN,
             status : {"ASSIGNED", "FAILED", "DELIVERED"}]

PortalsTypeOK ==
  /\ joined \in 0..Len(RegisteredBy)
  /\ address \in Seq(Address)
  /\ order \in Seq(Order)
  /\ delivery \in Seq(Delivery)
  /\ payment \in Seq(Nat \ {0})
  /\ \A i \in DOMAIN address : address[i].customer \in 1..joined
  /\ \A o \in DOMAIN order : order[o].customer \in 1..joined
  /\ \A a \in DOMAIN delivery : delivery[a].order \in DOMAIN order
  /\ \A i \in DOMAIN payment : payment[i] \in DOMAIN order

-----------------------------------------------------------------------------
(* People, links and forms.                                                *)

Person(role, id) == [role |-> role, id |-> id]

People ==
  {Person("ADMINISTRATOR", 1), Person("MANAGER", 1)}
    \cup {Person("AGENT", a) : a \in Agents}
    \cup {Person("DRIVER", d) : d \in Drivers}
    \cup {Person("CUSTOMER", c) : c \in 1..joined}

\* A path: the portal, the page in it, and the id or the query it is for, or 0.
Link(portal, page, id) == [portal |-> portal, page |-> page, id |-> id]
Links(portal, page, ids) == {Link(portal, page, id) : id \in ids}
Menu(portal, pages) == {Link(portal, page, 0) : page \in pages \cup {""}}

Form(op, id) == [op |-> op, id |-> id]
Forms(op, ids) == {Form(op, id) : id \in ids}

Page(links, forms) == [answer |-> "page", links |-> links, forms |-> forms]
\* Pages of figures.
Plain == Page({}, {})

\* not-found.tsx leads to the landing page, forbidden.tsx to the visitor's home.
NotFound == [answer |-> "not found", links |-> {Link("/", "", 0)}, forms |-> {}]

Forbidden(who) == [answer |-> "forbidden", forms |-> {},
                   links |-> {Link(RoleHome(who.role), "", 0)}]

PageIf(found, page) == IF found THEN page ELSE NotFound

\* The forms.  The button that places an order is disabled without an address.
PlaceOrderForm(c, addresses) == Forms("place", IF addresses = {} THEN {} ELSE {c})
CancelOrderForm(orders) == Forms("cancel", orders)
AssignDriverForm(orders) == Forms("assign", orders)
ReconcileForm(deliveries) == Forms("reconcile", deliveries)

DriverDeliveryForms(deliveries) ==
  {Form(op, a) : op \in {"complete", "fail"}, a \in deliveries}

\* One to fill in for each address listed, and an empty one.
AddressForm(addresses) == Forms("save address", addresses \cup {0})
RemoveAddressForm(addresses) == Forms("remove address", addresses)
AgentRegisterForm == {Form("register", 0)}

\* The n newest of some rows.
Newest(rows, n) == {i \in rows : Cardinality({j \in rows : j > i}) < n}

\* The n deliveries that are due first, the older one of two due together.
Soonest(rows, n) ==
  {a \in rows :
     Cardinality({b \in rows : \/ delivery[b].due < delivery[a].due
                               \/ delivery[b].due = delivery[a].due /\ b < a}) < n}

-----------------------------------------------------------------------------
(* Queries.                                                                *)

AllCustomers == 1..joined
AllAddresses == DOMAIN address
AllOrders == DOMAIN order
AllDeliveries == DOMAIN delivery

OrdersOf(customers) == {o \in AllOrders : order[o].customer \in customers}
DeliveriesOf(o) == {a \in AllDeliveries : delivery[a].order = o}
CustomerOfDelivery(a) == order[delivery[a].order].customer
DeliveriesTo(c) == {a \in AllDeliveries : CustomerOfDelivery(a) = c}
PaymentsBy(customers) == {i \in DOMAIN payment : order[payment[i]].customer \in customers}
PaidOrders(payments) == {payment[i] : i \in payments}
OpenDeliveries == {a \in AllDeliveries : delivery[a].status = "ASSIGNED"}
DeliveriesBy(d, statuses) ==
  {a \in AllDeliveries : delivery[a].driver = d /\ delivery[a].status \in statuses}

listCustomers == Newest(AllCustomers, ListLength)
getCustomer(c) == c \in AllCustomers

listOrders == Newest(AllOrders, ListLength)
getOrder(o) == o \in AllOrders

listDeliveries == Newest(AllDeliveries, ListLength)
getDelivery(a) == a \in AllDeliveries

listPayments == Newest(DOMAIN payment, ListLength)

\* Every customer has a bottle balance; the page shows the largest shortages, and
\* which ones those are makes no difference here.
listBottleBalances == AllCustomers

listReferrals == {c \in AllCustomers : ReferredBy[c] # 0}
listRewardBalances == AllCustomers

listDispensers == {i \in DOMAIN HeldBy : HeldBy[i] \in AllCustomers \cup {0}}
getDispenser(i) == i \in listDispensers
HoldersOf(dispensers) == {HeldBy[i] : i \in dispensers} \ {0}

\* A dispenser's plan, of the customer who holds it, and its tracker.
listInstallmentPlans == {i \in listDispensers : HeldBy[i] # 0}
listTrackerDevices == listDispensers

listAgentCustomers(g) ==
  Newest({c \in AllCustomers : RegisteredBy[c] = g}, ListLength)
getAgentCustomer(g, c) == c \in AllCustomers /\ RegisteredBy[c] = g

listAgentOrders(g) ==
  Newest({o \in AllOrders : RegisteredBy[order[o].customer] = g}, ListLength)

\* listAssignedDeliveries: no limit.
listAssignedDeliveries(d) == DeliveriesBy(d, {"ASSIGNED"})

\* Mutant of getDriverDelivery: a delivery is there until it is done.
getOpenDriverDelivery(d, a) == a \in listAssignedDeliveries(d)

getDriverDelivery(d, a) == getDelivery(a) /\ delivery[a].driver = d

listCompletedDeliveries(d) == Newest(DeliveriesBy(d, {"DELIVERED"}), OwnLength)
listDriverHistory(d) == Newest(DeliveriesBy(d, {"DELIVERED", "FAILED"}), OwnLength)

listCustomerOrders(c) == Newest(OrdersOf({c}), OwnLength)
getCustomerOrder(c, o) == getOrder(o) /\ order[o].customer = c
listCustomerDeliveries(c) == Newest(DeliveriesTo(c), OwnLength)
getCustomerDelivery(c, a) == getDelivery(a) /\ CustomerOfDelivery(a) = c
listCustomerPayments(c) == Newest(PaymentsBy({c}), OwnLength)
Redemptions(c) == {o \in OrdersOf({c}) : o \in Redeeming}
AddressesOf(c) == {i \in AllAddresses : address[i].customer = c}
listCustomerAddresses(c) == {i \in AddressesOf(c) : address[i].active}

-----------------------------------------------------------------------------
(* The shell around every page of a portal: the navigation of the role and *)
(* the bell.  The bar of the phone repeats some of the same entries.       *)

ADMIN == Menu("/admin", {"customers", "orders", "deliveries", "bottles", "inventory",
  "dispensers", "payments", "referrals", "reports", "users", "drivers", "agents",
  "trackers", "audit", "settings"})

MANAGER == Menu("/manager", {"orders", "deliveries", "customers", "inventory",
  "bottles", "dispensers", "installments", "payments", "reports"})

AGENT == Menu("/agent", {"customers", "orders", "referrals", "performance"})

DRIVER == Menu("/driver", {"assigned", "completed", "stock", "history"})

CUSTOMER == Menu("/customer", {"order", "orders", "deliveries", "bottles",
  "dispensers", "payments", "rewards", "referrals", "addresses", "profile"})

navigationFor(role) ==
  CASE role = "ADMINISTRATOR" -> ADMIN
    [] role = "MANAGER" -> MANAGER
    [] role = "AGENT" -> AGENT
    [] role = "DRIVER" -> DRIVER
    [] role = "CUSTOMER" -> CUSTOMER

AppShell(who) ==
  navigationFor(who.role) \cup {Link("/notifications", "", 0), Link("/", "", 0)}

-----------------------------------------------------------------------------
(* Pages of administrators: to look at.                                    *)

AdminCustomers == Page(Links("/admin", "customers/[id]", listCustomers), {})

AdminCustomer(c) == PageIf(getCustomer(c),
  Page(Links("/admin", "orders/[id]", Newest(OrdersOf({c}), GlanceLength)), {}))

AdminOrders == Page(Links("/admin", "orders/[id]", listOrders), {})

AdminOrder(o) == PageIf(getOrder(o),
  Page(Links("/admin", "deliveries/[id]", DeliveriesOf(o)), {}))

AdminDeliveries == Page(Links("/admin", "deliveries/[id]", listDeliveries), {})

AdminDelivery(a) == PageIf(getDelivery(a),
  Page({Link("/admin", "orders/[id]", delivery[a].order),
        Link("/admin", "customers/[id]", CustomerOfDelivery(a))}, {}))

AdminBottles == Page(Links("/admin", "customers/[id]", listBottleBalances), {})

AdminDispensers ==
  Page(Links("/admin", "dispensers/[id]", listDispensers)
         \cup Links("/admin", "customers/[id]", HoldersOf(listDispensers)), {})

AdminDispenser(i) == PageIf(getDispenser(i),
  Page(Links("/admin", "customers/[id]", HoldersOf({i})), {}))

AdminPayments ==
  LET paid == PaidOrders(listPayments)
  IN  Page(Links("/admin", "orders/[id]", paid)
             \cup Links("/admin", "customers/[id]", {order[o].customer : o \in paid}), {})

\* The order that qualified a referral is one the referred customer paid for.
AdminReferrals ==
  Page(Links("/admin", "customers/[id]",
             listReferrals \cup {ReferredBy[c] : c \in listReferrals}
               \cup listRewardBalances)
         \cup Links("/admin", "orders/[id]", PaidOrders(PaymentsBy(listReferrals))), {})

AdminTrackers == Page(Links("/admin", "dispensers/[id]", listTrackerDevices), {})

AdminPage(page, id) ==
  CASE page = "customers" -> AdminCustomers
    [] page = "customers/[id]" -> AdminCustomer(id)
    [] page = "orders" -> AdminOrders
    [] page = "orders/[id]" -> AdminOrder(id)
    [] page = "deliveries" -> AdminDeliveries
    [] page = "deliveries/[id]" -> AdminDelivery(id)
    [] page = "bottles" -> AdminBottles
    [] page = "dispensers" -> AdminDispensers
    [] page = "dispensers/[id]" -> AdminDispenser(id)
    [] page = "payments" -> AdminPayments
    [] page = "referrals" -> AdminReferrals
    [] page = "trackers" -> AdminTrackers
    [] page \in {"", "inventory", "reports", "users", "drivers",
                  "agents", "audit", "settings"} -> Plain
    [] OTHER -> NotFound

-----------------------------------------------------------------------------
(* Pages of managers, open to administrators as well.                      *)

ManagerHome ==
  Page(Links("/manager", "deliveries/[id]", Soonest(OpenDeliveries, GlanceLength)), {})

ManagerOrders == Page(Links("/manager", "orders/[id]", listOrders), {})

\* Mutant of CanAssign: whatever is not delivered yet.
CanAssignUndelivered(o) == order[o].status \notin {"ASSIGNED", "DELIVERED"}

\* Whether the page of an order offers its assignment.
CanAssign(o) == order[o].status \in Assignable

\* Mutant of AttemptsShown: the latest one.
AttemptsShownLatest(o) == Newest(DeliveriesOf(o), 1)

\* The attempts that the page of an order leads to.
AttemptsShown(o) == DeliveriesOf(o)

ManagerOrder(o) == PageIf(getOrder(o),
  Page(Links("/manager", "deliveries/[id]", AttemptsShown(o)),
       AssignDriverForm(IF CanAssign(o) THEN {o} ELSE {})))

ManagerDeliveries == Page(Links("/manager", "deliveries/[id]", listDeliveries), {})

ManagerDelivery(a) == PageIf(getDelivery(a),
  Page({Link("/manager", "orders/[id]", delivery[a].order),
        Link("/manager", "customers/[id]", CustomerOfDelivery(a))},
       ReconcileForm(IF delivery[a].latched THEN {a} ELSE {})))

ManagerCustomers == Page(Links("/manager", "customers/[id]", listCustomers), {})

ManagerCustomer(c) == PageIf(getCustomer(c),
  Page(Links("/manager", "orders/[id]", Newest(OrdersOf({c}), GlanceLength)), {}))

ManagerBottles == Page(Links("/manager", "customers/[id]", listBottleBalances), {})

ManagerDispensers ==
  Page(Links("/manager", "dispensers/[id]", listDispensers)
         \cup Links("/manager", "customers/[id]", HoldersOf(listDispensers)), {})

ManagerDispenser(i) == PageIf(getDispenser(i),
  Page(Links("/manager", "customers/[id]", HoldersOf({i})), {}))

ManagerInstallments ==
  Page(Links("/manager", "dispensers/[id]", listInstallmentPlans)
         \cup Links("/manager", "customers/[id]", HoldersOf(listInstallmentPlans)), {})

ManagerPayments ==
  LET paid == PaidOrders(listPayments)
  IN  Page(Links("/manager", "orders/[id]", paid)
             \cup Links("/manager", "customers/[id]", {order[o].customer : o \in paid}), {})

ManagerPage(page, id) ==
  CASE page = "" -> ManagerHome
    [] page = "orders" -> ManagerOrders
    [] page = "orders/[id]" -> ManagerOrder(id)
    [] page = "deliveries" -> ManagerDeliveries
    [] page = "deliveries/[id]" -> ManagerDelivery(id)
    [] page = "customers" -> ManagerCustomers
    [] page = "customers/[id]" -> ManagerCustomer(id)
    [] page = "bottles" -> ManagerBottles
    [] page = "dispensers" -> ManagerDispensers
    [] page = "dispensers/[id]" -> ManagerDispenser(id)
    [] page = "installments" -> ManagerInstallments
    [] page = "payments" -> ManagerPayments
    [] page \in {"inventory", "reports"} -> Plain
    [] OTHER -> NotFound

-----------------------------------------------------------------------------
(* Pages of agents.                                                        *)

AgentHome(g) ==
  Page(Links("/agent", "customers/[id]",
             Newest({c \in AllCustomers : RegisteredBy[c] = g}, GlanceLength)), {})

AgentCustomers(g) ==
  Page(Links("/agent", "customers/[id]", listAgentCustomers(g))
         \cup {Link("/agent", "customers/new", 0)}, {})

AgentCustomer(g, c) ==
  IF getAgentCustomer(g, c)
    THEN Page(Links("/agent", "orders/[id]", Newest(OrdersOf({c}), GlanceLength))
                \cup {Link("/agent", "orders/new", c)}, {})
    ELSE Forbidden(Person("AGENT", g))

AgentNewCustomer == Page({}, AgentRegisterForm)

AgentOrders(g) ==
  Page(Links("/agent", "orders/[id]", listAgentOrders(g))
         \cup {Link("/agent", "orders/new", 0)}, {})

AgentOrder(g, o) ==
  IF ~getOrder(o) THEN NotFound
  ELSE IF RegisteredBy[order[o].customer] # g THEN Forbidden(Person("AGENT", g))
  ELSE Plain

CustomerPicker(customers) == Links("/agent", "orders/new", customers)

\* For the customer in the query, or the agent's newest one, with a picker for the
\* others.
AgentNewOrder(g, query) ==
  LET mine == listAgentCustomers(g)
      chosen == IF query # 0 THEN {query} ELSE Newest(mine, 1)
  IN  IF query # 0 /\ ~getAgentCustomer(g, query) THEN Forbidden(Person("AGENT", g))
      ELSE IF chosen = {} THEN Plain
      ELSE Page(CustomerPicker(mine),
                UNION {PlaceOrderForm(c, listCustomerAddresses(c)) : c \in chosen})

AgentPage(g, page, id) ==
  CASE page = "" -> AgentHome(g)
    [] page = "customers" -> AgentCustomers(g)
    [] page = "customers/[id]" -> AgentCustomer(g, id)
    [] page = "customers/new" -> AgentNewCustomer
    [] page = "orders" -> AgentOrders(g)
    [] page = "orders/[id]" -> AgentOrder(g, id)
    [] page = "orders/new" -> AgentNewOrder(g, id)
    [] page \in {"referrals", "performance"} -> Plain
    [] OTHER -> NotFound

-----------------------------------------------------------------------------
(* Pages of drivers.                                                       *)

\* The cards of three of the pages.
DeliveryCardList(deliveries) == Page(Links("/driver", "assigned/[id]", deliveries), {})

DriverHome(d) == DeliveryCardList(Soonest(listAssignedDeliveries(d), GlanceLength))

DriverAssigned(d) == DeliveryCardList(listAssignedDeliveries(d))
DriverCompleted(d) == DeliveryCardList(listCompletedDeliveries(d))
DriverHistory(d) == DeliveryCardList(listDriverHistory(d))

DriverDelivery(d, a) == PageIf(getDriverDelivery(d, a),
  Page({}, DriverDeliveryForms(IF delivery[a].status = "ASSIGNED" THEN {a} ELSE {})))

DriverPage(d, page, id) ==
  CASE page = "" -> DriverHome(d)
    [] page = "assigned" -> DriverAssigned(d)
    [] page = "assigned/[id]" -> DriverDelivery(d, id)
    [] page = "completed" -> DriverCompleted(d)
    [] page = "history" -> DriverHistory(d)
    [] page \in {"stock"} -> Plain
    [] OTHER -> NotFound

-----------------------------------------------------------------------------
(* Pages of customers, and the one for everybody.                          *)

CustomerHome(c) ==
  Page(Links("/customer", "orders/[id]", Newest(OrdersOf({c}), GlanceLength)), {})

CustomerOrderWater(c) ==
  IF listCustomerAddresses(c) = {}
    THEN Page({Link("/customer", "addresses", 0)}, {})
    ELSE Page({}, PlaceOrderForm(c, listCustomerAddresses(c)))

CustomerOrders(c) ==
  Page(Links("/customer", "orders/[id]", listCustomerOrders(c))
         \cup {Link("/customer", "order", 0)}, {})

CustomerOrder(c, o) == PageIf(getCustomerOrder(c, o),
  Page(Links("/customer", "deliveries/[id]", DeliveriesOf(o)),
       CancelOrderForm(IF order[o].status \in CancelAllowed THEN {o} ELSE {})))

CustomerDeliveries(c) ==
  LET shown == listCustomerDeliveries(c)
  IN  Page(Links("/customer", "deliveries/[id]", shown)
             \cup Links("/customer", "orders/[id]", {delivery[a].order : a \in shown}), {})

CustomerDelivery(c, a) == PageIf(getCustomerDelivery(c, a), Plain)

CustomerPayments(c) ==
  Page(Links("/customer", "orders/[id]", PaidOrders(listCustomerPayments(c))), {})

CustomerRewards(c) ==
  Page(Links("/customer", "orders/[id]", Redemptions(c))
         \cup {Link("/customer", "order", 0)}, {})

CustomerAddresses(c) ==
  Page({}, AddressForm(listCustomerAddresses(c))
             \cup RemoveAddressForm(listCustomerAddresses(c)))

CustomerPage(c, page, id) ==
  CASE page = "" -> CustomerHome(c)
    [] page = "order" -> CustomerOrderWater(c)
    [] page = "orders" -> CustomerOrders(c)
    [] page = "orders/[id]" -> CustomerOrder(c, id)
    [] page = "deliveries" -> CustomerDeliveries(c)
    [] page = "deliveries/[id]" -> CustomerDelivery(c, id)
    [] page = "payments" -> CustomerPayments(c)
    [] page = "rewards" -> CustomerRewards(c)
    [] page = "addresses" -> CustomerAddresses(c)
    [] page \in {"bottles", "dispensers", "referrals", "profile"} -> Plain
    [] OTHER -> NotFound

\* The links that notifications carry: to the driver's list, and to a customer's
\* orders, addresses and referrals.
Notifications(who) ==
  CASE who.role = "DRIVER" -> Page({Link("/driver", "assigned", 0)}, {})
    [] who.role = "CUSTOMER" ->
         Page(Links("/customer", "orders/[id]", OrdersOf({who.id}))
                \cup {Link("/customer", "addresses", 0), Link("/customer", "referrals", 0)},
              {})
    [] OTHER -> Plain

\* The landing page knows who is signed in, and links to the dashboard.
Landing(who) == Page({Link(RoleHome(who.role), "", 0)}, {})

PortalPage(who, path) ==
  CASE path.portal = "/admin" -> AdminPage(path.page, path.id)
    [] path.portal = "/manager" -> ManagerPage(path.page, path.id)
    [] path.portal = "/agent" -> AgentPage(who.id, path.page, path.id)
    [] path.portal = "/driver" -> DriverPage(who.id, path.page, path.id)
    [] path.portal = "/customer" -> CustomerPage(who.id, path.page, path.id)
    [] path.portal = "/notifications" -> Notifications(who)

\* What a visitor who is signed in gets to see under a path, inside the shell.
Rendered(who, path) ==
  IF path.portal = "/" THEN Landing(who)
  ELSE IF who.role \in PageGuard[path.portal] THEN PortalPage(who, path)
  ELSE Forbidden(who)

-----------------------------------------------------------------------------
(* Server actions.                                                         *)

\* Whether the action behind a form, and the service it calls, take it.  Forms are
\* filled in correctly.  An address is asked only whose it is.

MayPlace(who, c) ==
  /\ \/ who.role \in RequireCustomer /\ who.id = c
     \/ who.role \in RequireAgent /\ getAgentCustomer(who.id, c)
  /\ AddressesOf(c) # {}

MayCancel(who, o) ==
  /\ who.role \in RequireCustomer
  /\ getCustomerOrder(who.id, o)
  /\ order[o].status \in CancelAllowed

MayAssign(who, o) ==
  /\ who.role \in RequireManager
  /\ getOrder(o)
  /\ order[o].status \in Assignable \cup {"ASSIGNED"}

MayComplete(who, a) ==
  /\ who.role \in RequireDriver
  /\ getDelivery(a)
  /\ delivery[a].driver = who.id
  /\ delivery[a].status = "ASSIGNED"

MayFail(who, a) ==
  /\ who.role \in RequireDriver
  /\ getDelivery(a)
  /\ delivery[a].driver = who.id
  /\ delivery[a].status = "ASSIGNED"

MayReconcile(who, a) ==
  who.role \in RequireManager /\ getDelivery(a) /\ delivery[a].latched

MaySaveAddress(who, i) ==
  who.role \in RequireCustomer /\ i \in AddressesOf(who.id) \cup {0}

DefaultAmongOthers(i) ==
  address[i].default /\ listCustomerAddresses(address[i].customer) \ {i} # {}

MayRemoveAddress(who, i) ==
  /\ who.role \in RequireCustomer
  /\ i \in AddressesOf(who.id)
  /\ ~DefaultAmongOthers(i)

MayRegister(who) == who.role \in RequireAgent

Accepted(who, form) ==
  CASE form.op = "place" -> MayPlace(who, form.id)
    [] form.op = "cancel" -> MayCancel(who, form.id)
    [] form.op = "assign" -> MayAssign(who, form.id)
    [] form.op = "complete" -> MayComplete(who, form.id)
    [] form.op = "fail" -> MayFail(who, form.id)
    [] form.op = "reconcile" -> MayReconcile(who, form.id)
    [] form.op = "save address" -> MaySaveAddress(who, form.id)
    [] form.op = "remove address" -> MayRemoveAddress(who, form.id)
    [] form.op = "register" -> MayRegister(who)

Register ==
  /\ joined < Len(RegisteredBy)
  /\ \/ RegisteredBy[joined + 1] = 0
     \/ MayRegister(Person("AGENT", RegisteredBy[joined + 1]))
  /\ joined' = joined + 1
  /\ UNCHANGED <<address, order, delivery, payment>>

\* The box for the default address, when it is ticked, unticks all others; the
\* first address becomes the default unasked.
SaveAddress(who, i, default) ==
  LET c == who.id
      cleared == [j \in AllAddresses |->
                    IF default /\ j \in AddressesOf(c)
                      THEN [address[j] EXCEPT !.default = FALSE] ELSE address[j]]
      first == listCustomerAddresses(c) = {}
  IN  /\ MaySaveAddress(who, i)
      /\ \/ i # 0 /\ address' = [cleared EXCEPT ![i].default = default]
         \/ /\ i = 0 /\ Len(address) + 1 \in AddressRows[c]
            /\ address' = Append(cleared, [customer |-> c, active |-> TRUE,
                                           default |-> default \/ first])
      /\ UNCHANGED <<joined, order, delivery, payment>>

RemoveAddress(who, i) ==
  /\ MayRemoveAddress(who, i)
  /\ address' = [address EXCEPT ![i].active = FALSE, ![i].default = FALSE]
  /\ UNCHANGED <<joined, order, delivery, payment>>

PlaceOrder(who, c) ==
  /\ MayPlace(who, c)
  /\ Len(order) < MaxOrders
  /\ order' = Append(order, [customer |-> c, status |-> "PENDING"])
  /\ UNCHANGED <<joined, address, delivery, payment>>

CancelOrder(who, o) ==
  /\ MayCancel(who, o)
  /\ order' = [order EXCEPT ![o].status = "CANCELLED"]
  /\ UNCHANGED <<joined, address, delivery, payment>>

\* The form of an order that has been assigned meanwhile gives the attempt there
\* is to another driver, unless its bottles are still to be returned.
AssignDriver(who, o, d, slot) ==
  LET reused == {a \in Newest(DeliveriesOf(o), 1) :
                   delivery[a].status = "ASSIGNED" /\ ~delivery[a].latched}
      row == [order |-> o, driver |-> d, due |-> slot, latched |-> FALSE,
              status |-> "ASSIGNED"]
  IN  /\ MayAssign(who, o)
      /\ \/ reused = {} /\ Len(delivery) < MaxAttempts /\ delivery' = Append(delivery, row)
         \/ \E a \in reused : delivery' = [delivery EXCEPT ![a] = row]
      /\ order' = [order EXCEPT ![o].status = "ASSIGNED"]
      /\ UNCHANGED <<joined, address, payment>>

\* The order is updated by its id, whatever has become of it.
CompleteDelivery(who, a, cash) ==
  LET o == delivery[a].order
  IN  /\ MayComplete(who, a)
      /\ delivery' = [delivery EXCEPT ![a].status = "DELIVERED"]
      /\ order' = [order EXCEPT ![o].status = "DELIVERED"]
      /\ payment' = IF cash THEN Append(payment, o) ELSE payment
      /\ UNCHANGED <<joined, address>>

FailDelivery(who, a) ==
  LET o == delivery[a].order
  IN  /\ MayFail(who, a)
      /\ delivery' = [delivery EXCEPT ![a].status = "FAILED", ![a].latched = TRUE]
      /\ order' = [order EXCEPT ![o].status = "FAILED"]
      /\ UNCHANGED <<joined, address, payment>>

ReconcileDelivery(who, a) ==
  /\ MayReconcile(who, a)
  /\ delivery' = [delivery EXCEPT ![a].latched = FALSE]
  /\ UNCHANGED <<joined, address, order, payment>>

Init ==
  /\ joined = 0 /\ address = <<>>
  /\ order = <<>> /\ delivery = <<>> /\ payment = <<>>

Next ==
  \/ Register
  \/ \E who \in People :
       \/ \E i \in AllAddresses \cup {0}, default \in BOOLEAN : SaveAddress(who, i, default)
       \/ \E i \in AllAddresses : RemoveAddress(who, i)
       \/ \E c \in AllCustomers : PlaceOrder(who, c)
       \/ \E o \in AllOrders :
            \/ CancelOrder(who, o)
            \/ \E d \in Drivers, slot \in Slots : AssignDriver(who, o, d, slot)
       \/ \E a \in AllDeliveries :
            \/ \E cash \in BOOLEAN : CompleteDelivery(who, a, cash)
            \/ FailDelivery(who, a) \/ ReconcileDelivery(who, a)

Spec == Init /\ [][Next]_portalsVars

-----------------------------------------------------------------------------
Opens(who, path) == Rendered(who, path).answer = "page"

Home(who) == Link(RoleHome(who.role), "", 0)

\* Where the links of some pages lead.
Follow(who, paths) == UNION {Rendered(who, path).links : path \in paths}

\* The pages within three clicks of a visitor's home.
Near(who) ==
  LET one == {Home(who)} \cup AppShell(who) \cup Follow(who, {Home(who)})
      two == one \cup Follow(who, one \ {Home(who)})
  IN  two \cup Follow(who, two \ one)

\* The pages of a portal that show a row, or a form for one: its path leads as long
\* as the row is the visitor's.  The other pages are there for whoever has the role.
RowPages == [portal \in {"/admin", "/manager", "/agent", "/driver", "/customer"} |->
  CASE portal \in {"/admin", "/manager"} ->
         {"customers/[id]", "orders/[id]", "deliveries/[id]", "dispensers/[id]"}
    [] portal = "/agent" -> {"customers/[id]", "orders/[id]", "orders/new"}
    [] portal = "/driver" -> {"assigned/[id]"}
    [] portal = "/customer" -> {"orders/[id]", "deliveries/[id]"}]

\* Their paths in the portal of a role.
RowPaths ==
  [role \in Roles |->
     {Link(RoleHome(role), page, id) :
        page \in RowPages[RoleHome(role)],
        id \in Joinable \cup 1..MaxOrders \cup 1..MaxAttempts \cup DOMAIN HeldBy}]

\* A driver's attempt that a step gives to somebody else.
GivenAway(who, path) ==
  /\ who.role = "DRIVER" /\ path.page = "assigned/[id]"
  /\ delivery'[path.id].driver # who.id

\* A link leads to a page and never to "not found" or "no access", at once and
\* however much later it is followed: each list applies the scope of the pages it
\* leads to (own customers, own orders, own attempts, the role), and a row once
\* linked stays within that scope.  Only an attempt that is given to another
\* driver leaves its driver's page.
LinksLead ==
  /\ [](\A who \in People : \A path \in Near(who) : Opens(who, path))
  /\ [][\A who \in People : \A path \in RowPaths[who.role] :
          Opens(who, path)' \/ ~Opens(who, path) \/ GivenAway(who, path)]_portalsVars

\* The pages a form is on.
PagesOf(who, form) ==
  CASE form.op = "place" -> {Link("/customer", "order", 0),
                             Link("/agent", "orders/new", form.id)}
    [] form.op = "cancel" -> {Link("/customer", "orders/[id]", form.id)}
    [] form.op = "assign" -> {Link("/manager", "orders/[id]", form.id)}
    [] form.op \in {"complete", "fail"} -> {Link("/driver", "assigned/[id]", form.id)}
    [] form.op = "reconcile" -> {Link("/manager", "deliveries/[id]", form.id)}
    [] form.op \in {"save address", "remove address"} -> {Link("/customer", "addresses", 0)}
    [] form.op = "register" -> {Link("/agent", "customers/new", 0)}

FilledIn ==
  Forms("place", AllCustomers)
    \cup Forms("cancel", AllOrders) \cup Forms("assign", AllOrders)
    \cup Forms("complete", AllDeliveries) \cup Forms("fail", AllDeliveries)
    \cup Forms("reconcile", AllDeliveries)
    \cup Forms("save address", AllAddresses \cup {0})
    \cup Forms("remove address", AllAddresses) \cup AgentRegisterForm

OffersOf(who, form) == \E path \in PagesOf(who, form) : form \in Rendered(who, path).forms

\* What the services take although no page offers it any more: to assign an order
\* that has been assigned meanwhile, and an order to, an edit of and the removal of
\* an address that has been removed.
OutlivesItsOffer(form) ==
  \/ form.op = "assign" /\ order[form.id].status = "ASSIGNED"
  \/ form.op = "place" /\ listCustomerAddresses(form.id) = {}
  \/ /\ form.op \in {"save address", "remove address"}
     /\ form.id \in AllAddresses /\ ~address[form.id].active

\* What the addresses page offers and the service refuses.
RefusedThough(form) == form.op = "remove address" /\ DefaultAmongOthers(form.id)

\* The pages and the services agree on what may be done, although each says it in
\* its own words.  A form that is offered is taken, except the button that removes
\* the default address while there are others.  A form of a page that is out of
\* date is taken only if that page would offer it now, except those that outlive
\* their offer.
OffersHonoured ==
  \A who \in People :
    /\ \A path \in Near(who) : \A form \in Rendered(who, path).forms :
         Accepted(who, form) \/ RefusedThough(form)
    /\ \A form \in FilledIn :
         Accepted(who, form) => OffersOf(who, form) \/ OutlivesItsOffer(form)

\* What waits for somebody: a driver's attempts on the road, however many; for a
\* manager the orders to assign among the newest and the attempts to reconcile
\* that are among the newest or belong to one of the newest orders; a customer's
\* newest orders that may be cancelled and, like an agent's customers, an order
\* as soon as there is an address to deliver it to.
DriverWork(d) ==
  {Form(op, a) : op \in {"complete", "fail"}, a \in DeliveriesBy(d, {"ASSIGNED"})}

ManagerWork ==
  Forms("assign", {o \in Newest(AllOrders, ListLength) :
                     order[o].status \in {"PENDING", "FAILED"}})
    \cup Forms("reconcile",
           {a \in AllDeliveries :
              /\ delivery[a].latched
              /\ \/ a \in Newest(AllDeliveries, ListLength)
                 \/ delivery[a].order \in Newest(AllOrders, ListLength)})

CustomerWork(c) ==
  Forms("cancel", {o \in Newest(OrdersOf({c}), OwnLength) :
                     order[o].status \in CancelAllowed})
    \cup Forms("place", {x \in {c} : \E i \in AddressesOf(x) : address[i].active})
    \cup {Form("save address", 0)}

AgentWork(g) ==
  Forms("place", {c \in Newest({x \in AllCustomers : RegisteredBy[x] = g}, ListLength) :
                    \E i \in AddressesOf(c) : address[i].active})
    \cup {Form("register", 0)}

Awaiting(who) ==
  CASE who.role = "DRIVER" -> DriverWork(who.id)
    [] who.role = "MANAGER" -> ManagerWork
    [] who.role = "CUSTOMER" -> CustomerWork(who.id)
    [] who.role = "AGENT" -> AgentWork(who.id)
    [] OTHER -> {}

\* Whoever has something to do finds the form for it within three clicks of home,
\* also the attempts that failed before the latest one and were not reconciled.
WorkIsReachable ==
  \A who \in People :
    Awaiting(who) \subseteq UNION {Rendered(who, path).forms : path \in Near(who)}

=============================================================================
