# F Net Water Hub: verification project

TLA+ models of F Net Water Hub (a Next.js application over PostgreSQL): its
order-to-delivery core, the registration of customers, sessions, the back office and
the pages of its five portals; the TLC runs that check them and the TLAPS proofs
about them. Paths below are relative to the repository root.

## 1. The system

Customers order water in returnable bottles. Managers assign a driver, which
loads bottles on a van; the driver completes the delivery (hands bottles over,
collects empties, damaged bottles and cash) or reports a failure; after a failure
a manager reconciles the load back into the warehouse and may assign the order
again. A referred customer's first fully paid order earns the referrer reward
bottles, which are redeemed as a free line of a later order.

There is no background job, queue or scheduler: every state change is a server
action (`app/**/actions.ts`) calling one service function (`services/**`) that
runs one interactive Prisma transaction over the shared database. Everything
hard about the system comes from such requests overlapping.

### Inventory

| Component | State it keeps | Operations | What makes it correct |
| --- | --- | --- | --- |
| Order placement `services/orders/place.ts` | orders, items, status history, redemptions, reward balance | `placeOrder` | a reward bottle is spent once; totals are not negative |
| Cancellation `services/orders/cancel.ts` | order status, history, reward balance | `cancelOrder` | never cancels what is dispatched; gives the reward back once |
| Assignment `services/deliveries/assign.ts` | deliveries (attempts), order status, history, stock | `assignDriver` | one active attempt; the van carries exactly what it was assigned |
| Completion `services/deliveries/complete.ts` | deliveries, orders, stock, bottle account and ledger, payments, referrals, rewards | `completeDelivery` | all or nothing; account, stock, payments and rewards agree |
| Failure `services/deliveries/fail.ts` | deliveries, order status | `failDelivery` | sets the reconciliation latch; the bottles stay accounted for |
| Reconciliation `services/deliveries/reconcile.ts` | stock, latch | `reconcileFailedDelivery` | returns each load once |
| Stock `services/inventory/move.ts` | positions, movement journal | `applyStockMove` | never negative, nothing made or lost |
| Registration `services/customers/register.ts` | users, profiles, balances, referrals | `registerCustomer` | unique codes, complete or absent |
| Addresses, profile `services/customer/account.ts` | addresses, users | upsert, deactivate, update profile | one default address; what is removed stays removed |
| Sessions `lib/auth/*`, `app/(auth)/actions.ts`, `proxy.ts` | sessions, cookie | login, register, logout, resolve | a revoked, expired or deactivated session gives no access; redirects end |
| Permissions `lib/permissions`, `lib/auth/dal.ts` | none | the matrix, the roles each action and page names, the proxy's prefixes | the tables agree |
| Settings `lib/settings`, `services/admin/settings.ts` | system settings, audit entries | read with default, update | services read what was typed; the audit trail is a chain |
| Money `lib/money` | none | rounding, sums, splitting | instalments add up to the total |
| Stored files `lib/storage` | objects, metadata rows | upload, delete, read | no row stands for an object that was never stored |
| Notifications `lib/notifications`, `app/notifications` | notification rows | notify, mark read | read once, and by its user |
| Audit trail `services/audit` | append-only rows | record | names what was replaced |
| Portals `app/{admin,manager,agent,driver,customer}` with their queries and server actions | what a visitor is looking at | render, follow a link, submit a form | links lead somewhere, forms offered are accepted, work can be found |
| Validation, errors, references | none | parsing | |
| Payment providers `lib/payments` | none | an interface nothing calls | |

Which components interact: the six fulfilment services share the rows of
orders, deliveries, stock positions, balances and referrals and never call one
another; all six write audit rows and notifications; they read the settings;
placement needs an address and a customer that the account and registration
services created. Every page and server action starts with the session (`requireRole`),
behind the proxy, which knows only the cookie. The portals read the rows of all of them
and offer the forms that call the services.

### What is hard here

* **Isolation.** `prisma.$transaction(async (tx) => ...)` is called without an
  isolation level, so transactions run at PostgreSQL's READ COMMITTED. Reads at the
  head of a handler may be stale at its writes. The guards are conditional
  `updateMany ... where status = <what was read>` statements, conditional stock
  decrements (`quantity >= n`), unique indexes, and row locks implied by
  updates. Some writes have no condition: `order.update` in `complete.ts` and
  `fail.ts`, `delivery.update` in `assign.ts` and `reconcile.ts`,
  `referral.update` in `complete.ts`.
* **Failure.** A guard that fails throws and rolls back; so do the transaction
  timeout, a deadlock, or a crash, at any point.
* **Redundant state.** The order's status repeats its attempts' statuses; the bottle
  account repeats stock positions; `amountPaid` repeats payments; the reward
  balance repeats ledger and redemptions; nothing but the handlers keeps them
  together.

* **Tables kept by hand.** Who may do what is written four times: in the permission
  matrix, in the roles a server action names, in the roles a portal's layout names and in
  the proxy's prefixes; and each page repeats the condition under which a service
  accepts its form.
* **Old pages.** A page may be looked at for hours. Its links and forms meet rows that
  have changed, another role, or another user.

`PROJECT.json` lists the hazards line by line.

## 2. Modules

| Module | Role |
| --- | --- |
| `Stock` | positions, the conditional decrement `Covers` and the move `Moved` of `applyStockMove` |
| `Fulfilment` | the six services over shared rows, concurrent, and their properties |
| `OrderLifecycle` | abstract specification: what one order may go through |
| `RewardProgram` | abstract specification: how reward bottles are earned, spent and given back |
| `MCFulfilment` | constants of the TLC runs |
| `FulfilmentProofs` | type correctness; cancelled orders; the invariant relating orders, attempts and open requests and three theorems from it; `Fulfilment` implements `OrderLifecycle` |
| `TransactionProofs` | the locks (stock, referrals) and the records (history, payments, referrals, rewards); the rule rewards are earned by; eight theorems; `Fulfilment` implements `RewardProgram` |
| `SumProofs` | sums over finite sets: what changing one or two terms does to them |
| `BottleProofs` | the vans and the bottle account; five theorems |
| `Registration` | overlapping registrations, statement by statement |
| `Registry` | abstract specification: one roster, customers enrolled one after another |
| `MCRegistration` | constants of its TLC runs |
| `RegistrationProofs` | its types and four theorems; `Registration` implements `Registry` |
| `Permissions` | the three tables of who may do what |
| `Sessions` | cookie, session row, proxy and pages, statement by statement |
| `MCSessions`, `SessionsProofs` | constants of its TLC run; its types and four theorems |
| `Settings` | a setting from the text typed to the value a service reads |
| `StoredFiles` | objects and metadata rows, with failures between them |
| `Inbox` | notifications, the page that lists them, its buttons |
| `Account` | a customer's addresses and phone number under overlapping requests |
| `Money` | rounding and `splitEvenly` on integers |
| `MCBackOffice` | the TLC run of the last five |
| `BackOfficeProofs` | types and theorems of the last five |
| `Portals` | pages, links, forms and the server actions behind them |
| `MCPortals`, `PortalsProofs` | constants of its TLC run; types and the theorems about links, forms and work that can be found |

`Sessions` and `Portals` both stand on `Permissions`: the same tables decide who is
served a page and whose form is accepted.

### The abstract specifications

Each says what a component promises without the machinery that keeps the promise, and is
joined to the detailed module by `INSTANCE ... WITH` at that module's end. TLC checks
the refinement in a run and section 4 names the theorem.

| Abstract | Its state, read off the rows | Its steps | What has disappeared |
| --- | --- | --- | --- |
| `OrderLifecycle` | an order's status, the number of its attempts, the failed ones still to be reconciled | place, cancel, dispatch, deliver, fail, reconcile | transactions, stale reads, vans, money |
| `RewardProgram` | `qualified`: customers whose referral is QUALIFIED; `earned` and `available`: columns of the balance; `funded` and `released`: orders with a reward line, not cancelled and cancelled | qualify, redeem, restore | locks, ledger, deliveries, who may do it when |
| `Registry` | `roster`: for each customer code in order, the form and its referrer | enrol | lookups before the transaction, counts, unique indexes, open and failed requests |

`RewardProgram` leaves open how many bottles a qualification is worth, because overlapping
completions may get the number wrong (`earning_rule`); `EarnedByRule` is about the number.
`Registry` gives codes one after another although two open registrations may have counted the same
rows: `Roster` lists the committed ones by code, and a refinement of it means that a commit
always adds the next code, whatever was read when.

### State of `Fulfilment`

| Variable | Rows |
| --- | --- |
| `order` | `orders` and `order_items`: status, quantities per product, whether there is a reward line, expected empties, total, amount paid, payment status |
| `delivery` | `deliveries` of an order in order of `attemptNumber`: status, driver, expected empties, `requiresReconciliation`, reported count |
| `stock` | `bottle_stock_positions`: a quantity per product and place, a place being a warehouse state, a van or a customer |
| `account` | `customer_bottle_balances` (held, outstanding) and the sum of the customer's `customer_bottle_ledger` |
| `collected` | the sum of an order's `payments` |
| `referral` | the `referrals` row of a referred customer |
| `reward` | `customer_reward_balances` and the sum of the `reward_ledger` |
| `history` | `order_status_history` as pairs (from, to) |
| `txn` | for each process, the transaction it has open and what that has read |

### How a request is modelled

`Begin...` is the handler's head: its reads and the early returns that depend on
them. `Commit...` is every write, in one step, with the handler's conditional writes
as guards on the committed state. Putting all writes into one step is sound at
READ COMMITTED because a statement that updates a row waits for the row's lock and
re-evaluates its condition on the committed version, the locks are kept until the
commit, and no other transaction sees uncommitted rows; two transactions that
write a common row are thus ordered by their commits. (A request waits where the
model has its commit disabled; a cycle of waits is a deadlock, which PostgreSQL
ends by aborting one: `Rollback`.) What a later read of the same transaction
returns is computed from the state at the commit, which is right for rows the
transaction has already locked.

`completeDelivery` is the exception: after its own writes it counts referrals and
reads the balance of *another* customer, rows it has not locked. It therefore has
two more steps, `QualifyReferral` and `ReadRewardBalance`, before
`CommitQualifying`. Between them the rows it has written stay locked:
`CompletionRows` names them and `Unlocked` keeps every other commit away from them.
`LocksProtectCompletion` checks that this set is large enough.

`Rollback` may end any open request without effect, at any time: it stands for
every thrown error, timeout, deadlock and crash. A request whose guard fails in
the code throws; in the model its commit is disabled and `Rollback` ends it.

The head of a handler reads an order and its deliveries with one Prisma call
that issues several SELECTs; the model takes them as one snapshot. A split read would
need a commit between two SELECTs of one call; a status read so is still guarded
by the same conditional writes.

### How a registration is modelled

`Registration` starts where a production database does, with staff and no customers
(`docs/COOLIFY_PRODUCTION_GUIDE.md` says not to seed it), and ends where `Fulfilment`
begins. A request is one submitted form; a second submission is another request with
the same email and phone. `step` is how far it has got, one value per statement
that another request can tell apart: `Check` and `Resolve` before the transaction,
`CountUsers`, `InsertUser`, `CountProfiles`, `InsertProfile` in it, `Register` for the
rest and the commit. `sequence` and `customerSequence` are the numbers in its two
codes, `referrer` whose referral code it gave, `staff` the users that
`prisma/create-admin.ts` makes.

Here the transaction is not one step, because both counts are plain reads: an INSERT
waits while another open transaction holds one of its keys (its guard ranges
over all rows, committed or not) and is refused once a committed row does (`Refuse`).
Only committed rows are counted. `Abort` ends a request at any point. A request
is never retried by the code.

Random referral codes are taken to be distinct (a collision is an `Abort`); user
codes of staff have another letter than customers', so only the count of
staff matters. A customer's later change of phone (`updateCustomerProfile`) is in
`Account`.

### How sessions are modelled

`now` is the day, `user` the rows of users, `session` the session rows by token,
`cookie` what each browser holds (token, user, role, expiry) and `browser` the request
it has on its way. A request for a page takes two steps, `Proxy` (which believes
the cookie: verify, role prefix, redirect of signed-in visitors from /login) and
`Authorize` (`requireRole`: the session row, the user row). A login takes three: the password
and status check, the session row, the cookie; a logout two, the first of which revokes
nothing if the cookie has expired since the proxy looked at it. Between any two steps the
account may be suspended, reactivated or promoted (a script or a database client does
that today), a day may pass, or the request be lost.

What the runs do not forbid, and the code does: a browser with a valid cookie of a
revoked session or a suspended account is redirected from /login to its portal and
refused there, until the cookie expires; a promoted user's cookie keeps the old role
until the next login; a logout that fails in the database keeps the cookie; a
suspended account that is reactivated resumes its sessions.

### How the back office is modelled

* `Settings`: one key at a time; `Editable` are the keys whose row has `isEditable`, a
  column nothing writes (the run has one key that is not). Text is a member of a small set; what JavaScript's
  `Number`, `trim` and `JSON.parse` make of each is a table. `BeginUpdate` reads the
  previous value, `CommitUpdate` is the transaction of row and audit entry. Remarks that the
  model makes visible: an empty text saved for a NUMBER is 0 (for
  `referral.successful_required_for_reward` that breaks every qualifying completion);
  `Infinity` is refused for a NUMBER and taken for a DECIMAL; JSON that is no array is
  accepted and silently ignored by the getter; a JSON string does not survive being saved
  again from its own form; two overlapping edits name the same previous value; and the
  seed writes a delivery fee and a commission rate other than the registry's defaults.
* `StoredFiles`: `PutObject` and `CreateRow`, `RemoveObject` and `DeleteRow` are separate
  steps, and `Fails` ends a request between them. Nothing calls upload or delete yet.
* `Inbox`: a tab keeps the buttons it was rendered with, also when somebody else signs in.
  Only the newest 50 are listed; with older unread ones the page may have nothing
  unread to show while the number in the navigation is not 0.
* `Account`: an upsert is one transaction of up to three statements and an audit row after
  the commit; a removal is two statements without a transaction. `cleared` are the
  rows an open transaction has locked. Two overlapping requests may leave two defaults;
  unchecking the box of the default leaves none; editing a removed address may mark an
  inactive row as the default. `placeOrder` asks whose the address is, not whether it is
  active. The audit row follows the commit, where `docs/API.md` puts it in the transaction.
* `Money`: values are integers of a tenth of a pesewa, enough to see a rounding.
  `splitEvenly` has no caller outside the tests yet.

### How the portals are modelled

A page is an operator: who asks and an id, to the set of links and the set of forms
on it, or "not found", or "no access". `Rendered` is what a signed-in visitor sees under
a path, with the shell's navigation beside it. Rows are numbered in the order of
`createdAt`, so a list of the newest n is `Newest(rows, n)`. `May...` is what a server action and its
service ask; the actions below it take any form a service accepts, from a page
however old. That a page was rendered in an earlier state needs no variable. `LinksLead`
says that links near home open a page, and that the path of a row, once it opens for
somebody, goes on opening whatever happens, except a driver's attempt that is given away.
`OffersHonoured` says that a form which is offered near home is accepted, with the one
exception below; and of every form that can be filled in, from a page however old, that
a service accepts it only if that page would offer it now or it outlives its offer.

`Portals` keeps of each order and attempt only what decides who sees it and which form
it has. Left out: stock (an assignment may fail for want of bottles), the contents
of forms and their validation, figures (pages that only show figures are `Plain`), which
bottle balances are the largest, which order of a referred customer qualified.

A customer has the addresses that `AddressRows` allows: `SaveAddress` adds or edits one and moves
the default, `RemoveAddress` asks what `deactivateCustomerAddress` asks. The addresses
page offers "Remove" for every active address (`app/customer/addresses/page.tsx:48-63`),
and the service refuses it for the default while others remain
(`services/customer/account.ts:242-250`): that button leads to an error and changes
nothing (`RefusedThough`). No document says what the page should show.

Forms that outlive their offer (`OutlivesItsOffer`) are taken because the service asks
less than the page: assigning an order that has been assigned meanwhile; ordering to,
editing and removing an address that has been removed (`placeOrder` and both address
services ask whose it is and not whether it is active).

Seen while modelling, and allowed by the properties: lists stop at the newest 100 without
paging, so an older pending order or an older unreconciled attempt of an older order
has no link left; managers are not notified of new orders; the assign service accepts an
ASSIGNED order though no page offers it; administrators may use /manager but no link
leads there; an agent cannot add an address for a customer, who must do it before the
agent can order.

### Abstractions

* Names, numbers, times, notes, addresses, audit rows, notifications and delivery
  status history are left out: nothing reads them back into a decision.
* A cart is a quantity per product (`placeOrder` rejects a product listed twice),
  the reward line a flag: it is one bottle of one product at price 0.
* Product, unit price and `requiresBottleExchange` are constants; the code copies
  them into the order's items when it is placed.
* Amounts are integers (of the smallest unit).
* `refill` is the product `items.find` returns: item order is not defined, so any
  exchange line of the order.
* Customers are registered already; their balances exist (`Init`).

### Assumptions about the users

* `StaleAssign`: the manager's page offers the assign form only for orders that
  are PENDING, CONFIRMED, PROCESSING or FAILED, but the service also accepts
  ASSIGNED. A form submitted twice, or from a page that is out of date, gets
  there. The constant says whether that happens.
* `StaleReconcile`: whether two reconcile requests for one delivery overlap (a form
  submitted twice or by two managers).

With both FALSE the promises below hold, for orders that have an exchange line (the run
`take_away` has one that does not); the violation runs show which ones depend on that, the run `lines`
what holds with `StaleAssign` TRUE. Stale completions, failures and cancellations are
always allowed.

## 3. Runs

The first four are runs of `MCFulfilment`; the cfg names the instance. Deadlock
checking is off: when every order is delivered or cancelled, every form answered or a
bound reached, the system has nothing left to do.

| Run | Instance | Shows |
| --- | --- | --- |
| `dispatch` | 2 orders of one customer, 2 vans, 2 overlapping requests, 2 attempts per order, 3 bottles, a negative fee | types; orders agree with attempts; the history is a path of the documented transitions and one other; vans hold exactly their loads; no negative stock; delivered and cancelled are final; refinement of `OrderLifecycle` |
| `accounts` | 2 orders of 1 or 2 bottles, five completion forms | bottle account = stock at the customer; amount paid = payments |
| `lines` | 2 orders with two exchange lines, 0 to 2 delivered, 0, 1 or 3 empties, stale assignments | bottles conserved; a surplus never exceeds what is owed; a cancelled order is never dispatched |
| `rewards` | 2 orders of a referred customer, 1 of the referrer, who may redeem | reward balance; a referral qualifies once, by a paid order; the locks suffice; refinement of `RewardProgram` |
| `registration` | `MCRegistration`. 4 requests: one form twice, one with the same phone, one unrelated; referring one another | one account each; `count() + 1` is free and codes have no gaps; referrals form no circle; refinement of `Registry`; every request ends |
| `portal` | `MCSessions`. 1 user, registering or of the staff, 2 browsers, 2 sessions, 2 days | nobody is served on outdated rights or refused without a reason; a cookie goes only with its session; every visit is answered; the tables agree |
| `backoffice` | `MCBackOffice`. 2 overlapping requests in each part, 3 addresses, 3 files, 3 notifications, a setting of each type and one that is not editable, amounts from -12 to 40 pesewas | what is typed is what services read; the trail is a chain; rows have objects; read once; one default; removals are final; splitting loses nothing |
| `pages` | `MCPortals`. 2 customers (one of the agent's, who referred the other), 2 drivers, 2 addresses (both the first customer's or one each), 2 orders, 2 attempts, lists of one row | links lead somewhere and a row's page goes on opening; forms that are offered are accepted, except one, and forms of old pages only if they are on offer still, except those named; work can be found |

Bounds. `MaxAttempts` limits attempts per order (2 in `dispatch`: a failed attempt
with its load unreconciled next to the one that follows it, which is where attempts
interact; attempts before the last one are all alike). `MaxHistory` limits
re-assignments of one order where stale forms could be submitted
for ever; elsewhere it is larger than any history. Two processes: each conflict
in the code is between two requests that read before either writes; the proofs
cover any number. Forms and carts are small sets chosen around the comparisons
in the code (count below, at and above a line; surplus and shortage; paid, part
paid, not paid). Requests and vans are interchangeable (`Symmetry`). Four
registrations are enough for two that wait on each other's user rows while two more
wait on profiles; `MaxStaff` bounds how many administrators are added meanwhile; the
proofs cover any number of both.

`portal`: two browsers, because all that two requests of different users share
is a user row and its sessions; `MaxAge` 1 and `MaxTime` 2, so that a cookie issued on the
first day expires and another one does not; `Visited` leaves out two portals that are
like /manager to the tables. `backoffice`: the five parts share no state, so a behaviour
is that of one part; a third address makes "another one" different from "the rest".
Money is checked for every amount of the interval and up to 7 parts, which includes all
remainders. `pages`: a list cut to one row loses a row as soon as there are two, which is
what a list of 100 does with 101; two addresses are a default and another one, or one of
each customer's, of which the first customer's is stored first (`AddressRows`: in which
order makes no difference to a page). The two drivers differ in nothing (`AlikeDrivers`).

Fairness. `registration` checks `EveryRequestEnds` under weak fairness of each
request's own next statement: a server action's `await` is answered, so a statement
that need not wait runs. `Abort` is not fair, so the property does not rest on
timeouts or on PostgreSQL's deadlock detection; it holds because waits go one way,
from profiles back to users and never in a circle. No symmetry is used there. `portal` checks
`EveryVisitAnswered` under weak fairness of `Proxy` or `Authorize` for each browser: the
server answers a request it has received, and a browser follows a redirect. It is
what could fail if the proxy sent a visitor from /login to a portal whose page sent him
or her back. For
fulfilment no liveness is stated: no code makes a manager or a driver act, and
nothing retries a request, so no fairness would be justified.

### Where the code and its documents differ

Each of these runs checks what a document says, and TLC finds the code doing
otherwise.

| Run | Document | What happens |
| --- | --- | --- |
| `terminal_broken` | `BUSINESS_RULES.md`: DELIVERED is terminal | an assign form for an ASSIGNED order completed meanwhile puts the attempt back on the road |
| `returned_twice` | `BUSINESS_RULES.md`: reconciliation asserts the flag is still set | overlapping reconciliations return another attempt's bottles |
| `take_away` | `BUSINESS_RULES.md`: a surplus beyond what is owed is recorded as an adjustment, not discarded | on an order of take-away bottles alone a reported empty is dropped |
| `earning_rule` | `BUSINESS_RULES.md`: earned = floor(qualified / required) | two completions each count only their own referral |

One disagreement is part of what the services are checked against, written out so that
nothing hides it: `docs/BUSINESS_RULES.md:97-108` lists the legal transitions of an order
and says "anything else is rejected by the service layer" (`docs/DATABASE.md:85-88` refers
to it). From ASSIGNED it allows OUT_FOR_DELIVERY, CANCELLED and FAILED. No service sets
OUT_FOR_DELIVERY, and `complete.ts` takes an ASSIGNED order to DELIVERED: every delivery
the program makes is a transition the table does not have. `Deliver` of `OrderLifecycle`
therefore starts from ASSIGNED too, and says so. `HistoryIsAPath` holds every row of every
status history against the table (`DocumentedTransitions`) and this one pair beside it
(`Transitions`): with current assign forms and the default cancellation statuses it is the
only one. With the table alone TLC finds it violated by the first delivery.

Three more disagreements were found the same way and have no run of their own: an assign
request that read ASSIGNED, overtaken by a failure and a new assignment, revives the
old attempt, where `BUSINESS_RULES.md` wants one active attempt; an order is DELIVERED with
bottles left on the van, where it says partial delivery is not supported; and the bottle
balance grows by more than was handed over when the reported count exceeds a line,
though `schema.prisma` calls the balance a cache of the ledger.

`take_away` was found by a proof: `SurplusIsOwed` could not be shown without the
hypothesis that bottles come back only on orders with an exchange line. Nothing in
`complete.ts` says so: without such a line it moves no stock for the empties that were
reported, while the balance of what the customer owes may still shrink.

The cause of the first also loads a van twice: the stock loop runs again for an
ASSIGNED order and nothing returns the first load (with `StaleAssign` TRUE
`NoStrandedBottles` does not hold).

## 4. Proofs

`TypeCorrect`, for all constants that satisfy the assumptions of `Stock` and
`Fulfilment`: any set of processes, finite sets of drivers, products, orders and
customers. The invariant adds two facts to `TypeOK`, without which a step's new values
could not be typed: the attempt an open request refers to exists (attempts
are never removed), and a customer whose referral a completion is qualifying has a
referrer, whose reward balance it then writes.

`CancelledStaysHome` needs no more than cancellation statuses before dispatch: however
old the assign forms are, a cancelled order never had an attempt. `HomeInv` says that an
order that has not left has none, and that an assignment that read ASSIGNED is about an order that
has left, which no step takes back (`OrdersLeave`); an assignment that read anything else is
stopped by its conditional update.

The theorems of the last part of `FulfilmentProofs` assume `CurrentForms` (no stale assign form,
cancellation only before dispatch, which is the default setting). The inductive invariant
`DispatchInv` has these parts:

1. `OrderFollowsAttempts`: all attempts but the last have failed, the last one
   agrees with the order's status, an undispatched order has none;
2. `ReadsAllow`: what an open request has read allowed it to begin;
3. `HeldStill`, `HeldApart`: a completion inside its referral step still
   has the delivery in the status it read, and no two such completions hold
   the same delivery.

Agreement alone is not inductive: `CommitComplete` and `CommitFail` set the order's
status unconditionally. It is kept because the delivery's conditional update
shows the attempt is still on the road, so it is the last one (the others have
failed), so the order is ASSIGNED and not terminal. The three parts above
carry that argument through interleavings. A lemma reduces each commit to its
effect on the two tables (`Effect`), and each effect is shown to keep agreement, to
leave terminal orders alone, and to be one step of `OrderLifecycle`.

* `AgreementHolds`, `OneActive`, `TerminalStatuses`: the
  consequences for any number of requests, orders, vans and attempts.
* `LifecycleImplemented`: `Fulfilment` implements `OrderLifecycle`.

`TransactionProofs` has two parts. The first needs no hypothesis beyond the assumptions
on the constants: `StockStaysNonNegative`, `LocksSuffice` and `ReferralsQualifyOnce`,
stale forms and any cancellation setting included. Its invariant `LockInv` has

1. `StockNeverNegative` and `LocksProtectCompletion` themselves;
2. `RowsHeldApart`: two completions in their referral step have written disjoint rows;
3. `PlacedFirst`: whatever has an attempt or is about to be assigned was placed, so no
   placement rewrites the lines a completion is working with.

Each commit is reduced to the rows it `Writes`; a completion whose rows are not among them
is spared (`Spares`). The stock part is needed for the locks and the locks for the stock: a
completion locks only the positions it moves bottles on, so of the others it
knows no more than that they are not negative, and its own three moves are covered
at its commit only because nobody touched the positions it locked.

The second part assumes `CurrentForms` and builds on both invariants: `HistoryUnbroken`,
`PaymentsMatch`, `ReferralsArePaid`, `RewardsSpentOnce`. `HistoryUnbroken` covers what each
row says, too: a commit records a documented transition, or ASSIGNED to DELIVERED, because
the status it records from is the order's own. The stale reads
of a completion are harmless for two reasons, which `RecordInv` states: the delivery's
conditional update shows the order still has the status that was read
(`ReadsOfOrder` with `OnTheRoadAgrees`), and an order is unpaid until it is delivered
(`UnpaidBeforeDelivery`), so the amount read was 0 and still is. Redemptions are counted
with the library's facts on cardinality.

`RewardsImplemented`: under the same hypothesis `Fulfilment` implements `RewardProgram`. Each
commit's effect on the records (`RecordEffect`) is one abstract step or none. That a
redemption finds a bottle is its conditional decrement; that a bottle comes back once is
that an order is cancelled once; that a referral which was read as PENDING still is
one when it is overwritten is `LockInv`.

The rule by which rewards are earned does not hold, as the run `earning_rule` shows, and
`RewardsFollowRule` says that the overlap it shows is the only reason: in behaviours
where no two completions are in the referral step of the same referrer (`[]ReferrersApart`),
whatever else overlaps, a referrer has earned one bottle for every `RewardEvery`
referrals whenever no request is open. No hypothesis on forms or settings is needed. `RuleInv` adds to
`LockInv` that every balance follows the rule between steps (`EarnedSoFar`) and that the
count and the balance a completion has read are still current (`CountsAreCurrent`): no step but
another completion for the same referrer changes them. An award brings a
balance up to date because one more referral is at most one more bottle (`RewardsGrow`). When
two overlap, a reward may be missed (each counts only its own referral) or granted twice (each
sees the count that completes it).

`SumProofs` makes sums provable. `SumFunction` of the community modules folds in
an order the definition chooses, and the library's induction over finite sets takes an
operator as its parameter. So subset induction is stated for a *set* of good
subsets instead (`SubsetInduction`), and everything else follows from it: a sum does not depend on which
term is taken out first, and `SumChange` says that changing one term changes the sum
by as much. `Fulfilment` states its sums with `SumFunction` over sets of attempts, places and
products.

`BottleProofs` has five theorems:

* `NoBottleLost` needs no hypothesis: every commit is a series of `Moved` whose decrement is
  covered, and `Moved` keeps the sum over the places.
* `LoadsAreThere` and `NothingStranded` assume `CurrentForms` and no overlapping
  reconciliations; the runs `terminal_broken` and `returned_twice` show that both are needed.
  The invariant `VanInv` adds to the two above: a van's position *is* the sum of what each of its
  attempts answers for (`VansCarry`); the driver an open completion or reconciliation has read is
  still the attempt's (`DriversStay`); the flag an open reconciliation has read still
  stands (`StillWaits`), because it is the only one of its attempt (`ReconciledOnce`).
* `NoSurplusDropped` assumes `[]BottlesReported`: bottles are reported back only on
  orders with an exchange line. `OwedInv` says that nobody holds more than they owe (`HeldIsOwed`), that what an
  order expects back is the sum over its exchange lines (`ExpectedIsLines`), and that
  the line a completion credits is one of them (`RefillIsLine`). What stock can take from a customer
  is at most what is held, hence at most what is owed.
* `AccountAgrees` assumes `[]FormsTell`: `BottlesReported`, and the one count a form reports is what the
  lines, each capped by what was ordered, add up to. The balance is written from the former and
  the stock from the latter; the third remark on documents above is what happens otherwise.

The hypotheses are about what drivers type, which no code enforces, so they are assumed of
the whole behaviour and not of the constants. Every cart of the instances `accounts` and `lines` has an
exchange line, and every form of `accounts` tells, so that TLC checks the properties there
without them.

`Registration`, for any finite set of forms: `CodesNeverRunInto`, `OneAccount`,
`NoReferralCircles`, `CodesDense` and type correctness. The invariant says of *open*
requests what the properties say of registered customers: a number read is at
most the count plus one (`NumbersBehind`; counts never shrink, and a commit adds
the one that was missing), rows share no key whether committed or not (`KeysApart`), and
whoever is named as a referrer is registered with a smaller number (`ReferrersKnown`).
`CodesDense` then is the pigeonhole principle: distinct codes between 1 and the count
are all of them.

`RegistryImplemented`, for any finite set of forms: `Registration` implements `Registry`. The
roster is chosen by code (`HolderOf`), so its lemmas are about any list of numbered customers
(`Listable`, `ListOf`) and are used for the rows before a step and after it: customers who keep
their numbers keep their entries, and one customer more, under the next number, is one entry
appended. That the number is the next one is not what the request checked, but a consequence:
codes have no gaps before the commit nor after it.

`Sessions`, for any numbers of users, browsers, days and sessions: `ServedByTheTables`,
`RefusalsHaveReasons`, `CookiesGoLast` and `TablesAlwaysAgree`. The
invariant `SessionsInv` ties a cookie, from the moment it is issued, to the session row it
names (same user, same expiry), a request past the proxy to a cookie whose role may
browse its path, and a browser about to drop its cookie to a session that is revoked or has ended; the tables
themselves are compared role by role.

`Account`, for any finite set of addresses and any number of requests: `ChosenIsAlone`,
`OneDefaultIsKept`, `RemovalIsFinal`. `AccountInv` says what a request that has been
alone since it began knows of the rows (`Knows`): every default is among those it has
found or cleared, a count it made still holds, and nobody else is at work. Without the
history bit `alone` this is false, as the interleavings above show.

`Settings`, for any set of keys and any number of administrators: `SettingsAreUsed` and
`TrailIsAChain`. `SettingsInv` says that whatever is stored or carried by a request is what
`ParseSettingValue` made of a text of the form, and that a request that has met no other one
read the value it is about to replace. The table of texts is part of the model; the
theorem covers all of it, type by type.

The other parts of `BackOfficeProofs`: `RowsKeepTheirObjects` and `DeletionsStick` from `FilesInv` (every
key in use was minted, the key of an upload is nobody else's until its row is there, a
dropped object is away); `ReadOnce` from `InboxInv` (its types, with the number of rows
within the bound the tabs are typed by); `RoundingCorrect`, `BalancesRestored` and `LastMakesUp` about the
arithmetic of `Money` for every amount, and with them `PlansLeaveNothing`: for every total
and count the instalments add up to the total, whose sum `SumProofs` takes apart into equal ones and
the last.

`Portals`, for any numbers of people and rows and lists of any length:
`FormsAreHonoured`, `LinksLeadSomewhere` and `WorkIsFound`. Each page has a scope, the ids its address
may carry and for whom (`Within`). `RenderedSound` shows page by page that a page
within scope opens, links only within scope and offers only forms that are accepted;
`FollowedWithin` then covers any number of clicks, not only three, and `ScopeLasts`
shows that rows never leave a scope (they are never deleted and stay whose they are, `Grown`)
except an attempt given to another driver. For the converse, `TakenIsOffered` shows form by
form that what a service accepts is on the page the form is from, or outlives its offer. The
assumption that a customer is referred by
one who joined before is what `Registration` proves of its referrals (`NoReferralCircles`).

`WorkIsFound` goes the other way, from the row that waits to the form: it is
in a list (of any length; what a cut list no longer shows is not counted as waiting), the list's page links to the row's page, the
navigation of the role links to the list, so three clicks are enough (`Clicks`).

Every invariant, every action property and every refinement of the passing runs is a theorem. Only
model-checked are the two liveness properties, `EveryRequestEnds` and `EveryVisitAnswered`,
which are out of the prover's reach (fairness, `ENABLED`), and what happens under stale
forms or untrue reports beyond the theorems that have no such hypothesis.

## 5. Not modelled, and the plan

Done: the order-to-delivery core, registration, sessions and permissions, the back
office and the portals, each with its proofs. What is left, most important first:

1. an abstract bottle circulation that `Stock` and the bottle account implement (its
   content is proved already, in pieces: `NoBottleLost`, `NothingStranded`,
   `AccountAgrees`);
2. figures: the reports and dashboard summaries as functions of the rows of
   `Fulfilment`, against the sums they claim to show;
3. `Settings` composed with `Fulfilment`: an edit between two requests, and cancellation
   statuses beyond the default.

Left out for good: payment providers (nothing calls them), the demonstration data of the
seed, formatting, validation messages, layout and the landing page's sections, and the parts of
the schema that no code writes (dispensers, instalments, trackers and support; `Portals`
reads dispensers as constants).
