----------------------------- MODULE Fulfilment -----------------------------
(***************************************************************************)
(* The order-to-delivery services of F Net Water Hub: placeOrder,          *)
(* cancelOrder, assignDriver, completeDelivery, failDelivery and           *)
(* reconcileFailedDelivery, running concurrently over one PostgreSQL       *)
(* database.                                                               *)
(*                                                                         *)
(* Every service opens one interactive transaction with no isolation       *)
(* level, hence READ COMMITTED.  A request is two steps of a process:      *)
(*                                                                         *)
(*   Begin...   the unlocked reads at the head of the handler and the      *)
(*              early returns that depend on them; what was read is kept   *)
(*              in txn[p];                                                 *)
(*   Commit...  all writes at once.  A conditional updateMany, a unique    *)
(*              index or a stock decrement is a guard on the committed     *)
(*              state, because the row is locked from that statement to    *)
(*              the commit.                                                *)
(*                                                                         *)
(* completeDelivery goes on to read other customers' rows after it has     *)
(* locked its own, so a completion that qualifies a referral takes two     *)
(* more steps, and the rows it has written block every other transaction.  *)
(* Rollback may end any open transaction: a guard that fails throws, and   *)
(* the 5 s transaction timeout, a deadlock or a crash ends one anywhere.   *)
(***************************************************************************)
EXTENDS Stock, Sequences, FiniteSets, Functions

CONSTANTS
  Procs,          \* concurrent requests (server action invocations)
  Orders,         \* order ids
  Owner,          \* the customer each order id is going to belong to
  Exchange,       \* products with requiresBottleExchange
  RewardProduct,  \* the product of setting referral.reward_product_sku
  Carts,          \* the carts a customer may submit: quantity per product
  Price,          \* unit price of each product
  DeliveryFee,    \* setting order.default_delivery_fee
  CancelAllowed,  \* setting order.cancellation_allowed_statuses
  Referrer,       \* referredByCustomerId of each customer, or Nobody
  QualifyingMin,  \* setting referral.qualifying_min_order_total
  RewardEvery,    \* setting referral.successful_required_for_reward
  InitialFilled,  \* filled bottles in the warehouse at the start
  Forms,          \* the completion forms a driver may submit
  MaxAttempts,    \* bound: delivery attempts per order
  MaxHistory,     \* bound: status changes an order has had when it is assigned
  StaleAssign,    \* may a manager submit the assign form of an ASSIGNED order?
  StaleReconcile, \* may two reconcile requests of one delivery overlap?
  Nobody          \* no customer, no product, no order

OrderStatus ==
  {"PENDING", "CONFIRMED", "PROCESSING", "ASSIGNED", "OUT_FOR_DELIVERY",
   "DELIVERED", "FAILED", "CANCELLED"}
DeliveryStatus ==
  {"PENDING", "ASSIGNED", "OUT_FOR_DELIVERY", "DELIVERED", "FAILED",
   "CANCELLED"}

Terminal == {"DELIVERED", "CANCELLED"}
Assignable == {"PENDING", "CONFIRMED", "PROCESSING", "FAILED"}
\* COMPLETABLE of complete.ts and FAILABLE of fail.ts are the same set.
OnTheRoad == {"ASSIGNED", "OUT_FOR_DELIVERY"}
PayStatus == {"UNPAID", "PARTIALLY_PAID", "PAID"}

Lesser(a, b) == IF a <= b THEN a ELSE b
Greater(a, b) == IF a >= b THEN a ELSE b

-----------------------------------------------------------------------------
(* What an order's lines imply.  The reward line is a line of its own, of  *)
(* quantity 1 and price 0, next to the line the cart may have for the same *)
(* product.                                                                *)

Bottles(load) == SumFunction(load)

RewardLine(bonus, p) == IF bonus /\ p = RewardProduct THEN 1 ELSE 0

\* The bottles that are loaded for, and expected back from, an order.
ExchangeLoad(lines, bonus) ==
  [p \in Products |->
     IF p \in Exchange THEN lines[p] + RewardLine(bonus, p) ELSE 0]

ExpectedEmpties(lines, bonus) == Bottles(ExchangeLoad(lines, bonus))

Subtotal(lines) == SumFunction([p \in Products |-> Price[p] * lines[p]])

\* Mutant of OrderTotal: clampAtZero left out.
OrderTotalUnclamped(lines) == Subtotal(lines) + DeliveryFee

OrderTotal(lines) == Greater(0, Subtotal(lines) + DeliveryFee)

\* Mutant of HandedOver: the whole line whatever was reported.
HandedOverWhole(lines, bonus, count) ==
  [p \in Products |->
     IF p \in Exchange THEN lines[p] + RewardLine(bonus, p) ELSE 0]

\* completeDelivery caps the one reported count by each line's quantity.
HandedOver(lines, bonus, count) ==
  [p \in Products |->
     IF p \in Exchange
       THEN Lesser(count, lines[p]) + Lesser(count, RewardLine(bonus, p))
       ELSE 0]

\* Order items come back in no particular order: any exchange line may be
\* the one items.find returns.
Refillable(lines, bonus) ==
  LET found == {p \in Products : ExchangeLoad(lines, bonus)[p] > 0}
  IN  IF found = {} THEN {Nobody} ELSE found

-----------------------------------------------------------------------------
ASSUME FulfilmentAssumption ==
  /\ IsFiniteSet(Orders) /\ IsFiniteSet(Customers)
  /\ IsFiniteSet(Drivers) /\ IsFiniteSet(Products)
  /\ Owner \in [Orders -> Customers]
  /\ Exchange \subseteq Products
  /\ Referrer \in [Customers -> Customers \cup {Nobody}]
  /\ Nobody \notin Products \cup Customers \cup Orders
  /\ CancelAllowed \subseteq OrderStatus
  /\ DeliveryFee \in Int
  /\ QualifyingMin \in Int
  /\ RewardEvery \in Nat \ {0}
  /\ InitialFilled \in Load
  /\ MaxAttempts \in Nat
  /\ MaxHistory \in Nat
  /\ StaleAssign \in BOOLEAN
  /\ StaleReconcile \in BOOLEAN

\* What the forms let through: nonNegativeIntSchema for the counts, any
\* amount for the cash.
ASSUME FormsAssumption ==
  Forms \subseteq [delivered : Nat, empties : Nat, damaged : Nat,
                   pays : BOOLEAN, cash : Int]

\* Quantities are natural numbers, prices integers.
ASSUME CartsAssumption == Carts \subseteq Load /\ Price \in [Products -> Int]

VARIABLES
  order,     \* Order rows with their items
  delivery,  \* Delivery rows of each order, by attemptNumber
  stock,     \* BottleStockPosition
  account,   \* CustomerBottleBalance, and the sum of the CustomerBottleLedger
  collected, \* sum of the Payment rows of each order
  referral,  \* Referral row by referredCustomerId
  reward,    \* CustomerRewardBalance, and the sum of the RewardLedger
  history,   \* OrderStatusHistory rows of each order, as <<from, to>>
  txn        \* the open transaction of each process and what it has read

vars == <<order, delivery, stock, account, collected, referral, reward,
          history, txn>>

Order == [status : OrderStatus \cup {"NONE"}, lines : Carts \cup {NoBottles},
          reward : BOOLEAN, expected : Nat, total : Nat,
          paid : Int, payStatus : PayStatus]

NoOrder == [status |-> "NONE", lines |-> NoBottles, reward |-> FALSE,
            expected |-> 0, total |-> 0, paid |-> 0, payStatus |-> "UNPAID"]

Delivery == [status : DeliveryStatus, driver : Drivers, expected : Nat,
             requiresReconciliation : BOOLEAN, delivered : Nat]

Account == [held : Int, outstanding : Int, ledger : Int]

Referral == [status : {"NONE", "PENDING", "QUALIFIED"},
             order : Orders \cup {Nobody}]

RewardBalance == [earned : Int, redeemed : Int, available : Int, ledger : Int]

Idle == [op |-> "idle"]

\* A completion is "counted" once it has counted the referrer's qualified
\* referrals and "granting" once it has read the referrer's balance.
Completing == {"complete", "counted", "granting"}

\* What a request of each kind has read.
Placing    == [op : {"place"}, order : Orders, lines : Carts, reward : BOOLEAN]
Cancelling == [op : {"cancel"}, order : Orders, status : OrderStatus]
Assigning  == [op : {"assign"}, order : Orders, driver : Drivers,
               status : OrderStatus, latest : Nat, reuse : BOOLEAN]
Failing    == [op : {"fail"}, order : Orders, attempt : Nat \ {0},
               status : DeliveryStatus, orderStatus : OrderStatus \cup {"NONE"}]
Reconciling == [op : {"reconcile"}, order : Orders, attempt : Nat \ {0},
                driver : Drivers]
Delivering == [op : Completing, order : Orders, attempt : Nat \ {0},
               driver : Drivers, status : DeliveryStatus,
               orderStatus : OrderStatus \cup {"NONE"}, paid : Int, form : Forms,
               refill : Products \cup {Nobody}, count : Nat, earned : Int]

Transaction == {Idle} \cup Placing \cup Cancelling \cup Assigning
                 \cup Failing \cup Reconciling \cup Delivering

TypeOK ==
  /\ order \in [Orders -> Order]
  /\ delivery \in [Orders -> Seq(Delivery)]
  /\ stock \in StockPositions
  /\ account \in [Customers -> Account]
  /\ collected \in [Orders -> Int]
  /\ referral \in [Customers -> Referral]
  /\ reward \in [Customers -> RewardBalance]
  /\ history \in [Orders -> Seq((OrderStatus \cup {"NONE"}) \X OrderStatus)]
  /\ txn \in [Procs -> Transaction]

\* Registration has created the balances, and a PENDING referral for a
\* customer who gave a referral code; the warehouse is stocked.
Init ==
  /\ order = [o \in Orders |-> NoOrder]
  /\ delivery = [o \in Orders |-> <<>>]
  /\ stock = [place \in Places |->
                IF place = "FILLED_WAREHOUSE" THEN InitialFilled ELSE NoBottles]
  /\ account = [c \in Customers |->
                  [held |-> 0, outstanding |-> 0, ledger |-> 0]]
  /\ collected = [o \in Orders |-> 0]
  /\ referral = [c \in Customers |->
                   [status |-> IF Referrer[c] = Nobody THEN "NONE" ELSE "PENDING",
                    order |-> Nobody]]
  /\ reward = [c \in Customers |->
                 [earned |-> 0, redeemed |-> 0, available |-> 0, ledger |-> 0]]
  /\ history = [o \in Orders |-> <<>>]
  /\ txn = [p \in Procs |-> Idle]

-----------------------------------------------------------------------------
(* Transactions and row locks.                                             *)

\* The bottles loaded for order o.
LoadOf(o) == ExchangeLoad(order[o].lines, order[o].reward)

StockRows(place, load) ==
  {<<"stock", place, p>> : p \in {x \in Products : load[x] > 0}}

\* What completion t moves: out of the van, and back to the warehouse.
Handed(t) ==
  HandedOver(order[t.order].lines, order[t.order].reward, t.form.delivered)

\* Mutant of Returned: no more empties are booked in than bottles handed over.
ReturnedCapped(t) == Only(t.refill, Lesser(t.form.empties, t.form.delivered))

Returned(t) == Only(t.refill, t.form.empties)
Broken(t) == Only(t.refill, t.form.damaged)

\* Mutant of CompletionRows: the bottle balance is not among them.
CompletionRowsNoAccount(t) ==
  {<<"order", t.order>>, <<"delivery", t.order, t.attempt>>}
    \cup StockRows(t.driver, Handed(t))
    \cup StockRows(Owner[t.order], Handed(t))

\* The rows a completion has written by the time it looks at referrals.
CompletionRows(t) ==
  LET c == Owner[t.order]
  IN  {<<"order", t.order>>, <<"delivery", t.order, t.attempt>>,
       <<"account", c>>}
        \cup StockRows(t.driver, Handed(t))
        \cup StockRows(c, Handed(t))
        \cup StockRows(c, Returned(t))
        \cup StockRows(c, Broken(t))
        \cup StockRows("EMPTY_WAREHOUSE", Returned(t))
        \cup StockRows("DAMAGED", Broken(t))

\* Mutant of Unlocked: rows are not locked until the commit.
UnlockedAlways(p, rows) == TRUE

\* No completion in the middle of its referral step has written any of rows.
Unlocked(p, rows) ==
  \A q \in Procs \ {p} :
    txn[q].op \in {"counted", "granting"} => CompletionRows(txn[q]) \cap rows = {}

Begin(p, t) ==
  /\ txn[p] = Idle
  /\ txn' = [txn EXCEPT ![p] = t]
  /\ UNCHANGED <<order, delivery, stock, account, collected, referral, reward,
                 history>>

Close(p) == txn' = [txn EXCEPT ![p] = Idle]

\* The transaction throws, times out, loses a deadlock or its connection.
Rollback(p) ==
  /\ txn[p] # Idle
  /\ Close(p)
  /\ UNCHANGED <<order, delivery, stock, account, collected, referral, reward,
                 history>>

\* Mutant of OrderStill: update by id instead of updateMany with a condition.
OrderExists(o, status) == TRUE

\* The conditional update of the order row still finds the status read.
OrderStill(o, status) == order[o].status = status

\* Mutant of DeliveryStill.
DeliveryExists(o, k, status) == TRUE

\* The conditional update of the delivery row still finds the status read.
DeliveryStill(o, k, status) == delivery[o][k].status = status

-----------------------------------------------------------------------------
(* placeOrder                                                              *)

\* A reward balance, and its ledger, with n more bottles redeemed; -1 gives
\* the bottle of a cancelled order back.
Redeemed(b, n) ==
  [earned |-> b.earned, redeemed |-> b.redeemed + n,
   available |-> b.available - n, ledger |-> b.ledger - n]

\* Lines are priced and checked against the warehouse and the reward
\* balance; nothing is reserved.
BeginPlace(p, o, cart, redeem) ==
  /\ order[o].status = "NONE"
  /\ \A x \in Exchange : stock["FILLED_WAREHOUSE"][x] >= cart[x]
  /\ redeem => RewardProduct \in Products /\ reward[Owner[o]].available >= 1
  /\ Begin(p, [op |-> "place", order |-> o, lines |-> cart, reward |-> redeem])

CommitPlace(p) ==
  LET t == txn[p]
      o == t.order
      c == Owner[o]
  IN  /\ t.op = "place"
      /\ order[o].status = "NONE"
      /\ t.reward => reward[c].available >= 1
      /\ order' = [order EXCEPT ![o] =
                     [status |-> "PENDING", lines |-> t.lines,
                      reward |-> t.reward,
                      expected |-> ExpectedEmpties(t.lines, t.reward),
                      total |-> OrderTotal(t.lines),
                      paid |-> 0, payStatus |-> "UNPAID"]]
      /\ history' = [history EXCEPT ![o] = Append(@, <<"NONE", "PENDING">>)]
      /\ reward' = IF t.reward THEN [reward EXCEPT ![c] = Redeemed(@, 1)]
                                ELSE reward
      /\ Close(p)
      /\ UNCHANGED <<delivery, stock, account, collected, referral>>

-----------------------------------------------------------------------------
(* cancelOrder, called for customers only (asCustomer: true)               *)

BeginCancel(p, o) ==
  /\ order[o].status \in CancelAllowed \ Terminal
  /\ Begin(p, [op |-> "cancel", order |-> o, status |-> order[o].status])

CommitCancel(p) ==
  LET t == txn[p]
      o == t.order
      c == Owner[o]
  IN  /\ t.op = "cancel"
      /\ OrderStill(o, t.status)
      /\ Unlocked(p, {<<"order", o>>})
      /\ order' = [order EXCEPT ![o].status = "CANCELLED"]
      /\ history' = [history EXCEPT ![o] = Append(@, <<t.status, "CANCELLED">>)]
      /\ reward' = IF order[o].reward THEN [reward EXCEPT ![c] = Redeemed(@, -1)]
                                       ELSE reward
      /\ Close(p)
      /\ UNCHANGED <<delivery, stock, account, collected, referral>>

-----------------------------------------------------------------------------
(* assignDriver                                                            *)

\* Mutant of NextStatuses: a re-attempt writes no history.
NextStatusesNoRetry(from) ==
  IF from = "PENDING" THEN <<"CONFIRMED", "PROCESSING", "ASSIGNED">>
  ELSE IF from = "CONFIRMED" THEN <<"PROCESSING", "ASSIGNED">>
  ELSE IF from = "PROCESSING" THEN <<"ASSIGNED">>
  ELSE <<>>

\* nextStatuses: the statuses the order passes through on its way to ASSIGNED.
NextStatuses(from) ==
  IF from = "PENDING" THEN <<"CONFIRMED", "PROCESSING", "ASSIGNED">>
  ELSE IF from = "CONFIRMED" THEN <<"PROCESSING", "ASSIGNED">>
  ELSE IF from \in {"PROCESSING", "FAILED"} THEN <<"ASSIGNED">>
  ELSE <<>>

\* One history row per status of path.
HistoryRows(from, path) ==
  [i \in 1..Len(path) |-> <<IF i = 1 THEN from ELSE path[i - 1], path[i]>>]

\* An attempt that has not left yet is assigned again rather than followed
\* by a new one.
Reusable(d) == d.status \in {"PENDING", "ASSIGNED"} /\ ~d.requiresReconciliation

\* The manager's page shows the form for Assignable orders only; the service
\* also accepts an ASSIGNED one, which a form submitted twice or from a page
\* that is out of date presents it with.
BeginAssign(p, o, d) ==
  LET latest == Len(delivery[o])
      reuse  == latest > 0 /\ Reusable(delivery[o][latest])
  IN  /\ order[o].status \in Assignable \cup {"ASSIGNED"}
      /\ order[o].status = "ASSIGNED" => StaleAssign
      /\ reuse \/ latest < MaxAttempts
      /\ Len(history[o]) <= MaxHistory
      /\ Begin(p, [op |-> "assign", order |-> o, driver |-> d,
                   status |-> order[o].status, latest |-> latest,
                   reuse |-> reuse])

CommitAssign(p) ==
  LET t == txn[p]
      o == t.order
      fresh == [status |-> "ASSIGNED", driver |-> t.driver,
                expected |-> order[o].expected,
                requiresReconciliation |-> FALSE, delivered |-> 0]
      load == LoadOf(o)
  IN  /\ t.op = "assign"
      /\ Unlocked(p, StockRows("FILLED_WAREHOUSE", load) \cup StockRows(t.driver, load))
      /\ \/ /\ t.reuse
            /\ Unlocked(p, {<<"delivery", o, t.latest>>})
            /\ delivery' = [delivery EXCEPT
                              ![o][t.latest].status = "ASSIGNED",
                              ![o][t.latest].driver = t.driver,
                              ![o][t.latest].expected = order[o].expected]
         \/ /\ ~t.reuse
            /\ Len(delivery[o]) = t.latest  \* attemptNumber is unique per order
            /\ delivery' = [delivery EXCEPT ![o] = Append(@, fresh)]
      /\ \/ /\ t.status = "ASSIGNED"
            /\ UNCHANGED <<order, history>>
         \/ /\ t.status # "ASSIGNED"
            /\ OrderStill(o, t.status)
            /\ Unlocked(p, {<<"order", o>>})
            /\ order' = [order EXCEPT ![o].status = "ASSIGNED"]
            /\ history' = [history EXCEPT
                             ![o] = @ \o HistoryRows(t.status, NextStatuses(t.status))]
      /\ Covers(stock, "FILLED_WAREHOUSE", load)
      /\ stock' = Moved(stock, "FILLED_WAREHOUSE", t.driver, load)
      /\ Close(p)
      /\ UNCHANGED <<account, collected, referral, reward>>

-----------------------------------------------------------------------------
(* completeDelivery                                                        *)

Held(t) == account[Owner[t.order]]

\* Positive: bottles missing; negative: more came back than was expected.
Shortage(t) ==
  delivery[t.order][t.attempt].expected - t.form.empties - t.form.damaged

\* The part of a surplus that an outstanding shortage absorbs; the rest is
\* dropped.
Applied(t) == Lesser(-Shortage(t), Held(t).outstanding)

\* Stock after the hand-over, then with the empties, then with the damaged
\* bottles booked in.
AfterHandOver(t) == Moved(stock, t.driver, Owner[t.order], Handed(t))
AfterReturn(t) ==
  Moved(AfterHandOver(t), Owner[t.order], "EMPTY_WAREHOUSE", Returned(t))
AfterDamaged(t) == Moved(AfterReturn(t), Owner[t.order], "DAMAGED", Broken(t))

\* paid is computed from the amount read at the head of the handler.
PaidAfter(t) == IF t.form.pays THEN t.paid + t.form.cash ELSE order[t.order].paid
PayStatusAfter(t) ==
  IF ~t.form.pays THEN order[t.order].payStatus
  ELSE IF PaidAfter(t) >= order[t.order].total THEN "PAID" ELSE "PARTIALLY_PAID"

BeginComplete(p, o, k, form, refill) ==
  LET d == delivery[o][k]
  IN  /\ d.status \in OnTheRoad
      /\ refill \in Refillable(order[o].lines, order[o].reward)
      /\ Begin(p, [op |-> "complete", order |-> o, attempt |-> k,
                   driver |-> d.driver, status |-> d.status,
                   orderStatus |-> order[o].status, paid |-> order[o].paid,
                   form |-> form, refill |-> refill,
                   count |-> 0, earned |-> 0])

\* Every conditional write of the completion goes through.
CanComplete(t) ==
  LET c == Owner[t.order]
  IN  /\ DeliveryStill(t.order, t.attempt, t.status)
      /\ Covers(stock, t.driver, Handed(t))
      /\ Covers(AfterHandOver(t), c, Returned(t))
      /\ Covers(AfterReturn(t), c, Broken(t))

CompleteWrites(t) ==
  LET o == t.order
      c == Owner[o]
      returned == t.form.empties + t.form.damaged
      owed == IF Shortage(t) >= 0 THEN Shortage(t) ELSE -Applied(t)
  IN  /\ order' = [order EXCEPT ![o].status = "DELIVERED",
                                ![o].paid = PaidAfter(t),
                                ![o].payStatus = PayStatusAfter(t)]
      /\ delivery' = [delivery EXCEPT ![o][t.attempt].status = "DELIVERED",
                                      ![o][t.attempt].delivered = t.form.delivered]
      /\ history' = [history EXCEPT ![o] = Append(@, <<t.orderStatus, "DELIVERED">>)]
      /\ stock' = AfterDamaged(t)
      /\ account' = [account EXCEPT
                       ![c].held = @ + t.form.delivered - returned,
                       ![c].outstanding = @ + owed,
                       ![c].ledger = @ + owed]
      /\ collected' = [collected EXCEPT
                         ![o] = @ + (IF t.form.pays THEN t.form.cash ELSE 0)]

\* Mutant of Qualifies: a part payment is enough.
QualifiesUnpaid(t) ==
  /\ order[t.order].total >= QualifyingMin
  /\ referral[Owner[t.order]].status = "PENDING"

\* The order just became paid and its customer's referral is still pending.
Qualifies(t) ==
  /\ PayStatusAfter(t) = "PAID"
  /\ order[t.order].total >= QualifyingMin
  /\ referral[Owner[t.order]].status = "PENDING"

CommitComplete(p) ==
  LET t == txn[p]
  IN  /\ t.op = "complete"
      /\ Unlocked(p, CompletionRows(t))
      /\ CanComplete(t)
      /\ ~Qualifies(t)
      /\ CompleteWrites(t)
      /\ Close(p)
      /\ UNCHANGED <<referral, reward>>

\* Referrals of customer r that others have committed as QUALIFIED.
Qualified(r) ==
  {c \in Customers : Referrer[c] = r /\ referral[c].status = "QUALIFIED"}

\* A reward balance, and its ledger, with n more bottles earned.
Earned(b, n) ==
  [earned |-> b.earned + n, redeemed |-> b.redeemed,
   available |-> b.available + n, ledger |-> b.ledger + n]

\* The referral is updated and the referrer's qualified referrals are
\* counted: this transaction's own and the committed ones.
QualifyReferral(p) ==
  LET t == txn[p]
  IN  /\ t.op = "complete"
      /\ Unlocked(p, CompletionRows(t))
      /\ CanComplete(t)
      /\ Qualifies(t)
      /\ txn' = [txn EXCEPT ![p].op = "counted",
                            ![p].count =
                              Cardinality(Qualified(Referrer[Owner[t.order]])) + 1]
      /\ UNCHANGED <<order, delivery, stock, account, collected, referral,
                     reward, history>>

ReadRewardBalance(p) ==
  LET t == txn[p]
  IN  /\ t.op = "counted"
      /\ txn' = [txn EXCEPT ![p].op = "granting",
                            ![p].earned = reward[Referrer[Owner[t.order]]].earned]
      /\ UNCHANGED <<order, delivery, stock, account, collected, referral,
                     reward, history>>

CommitQualifying(p) ==
  LET t == txn[p]
      c == Owner[t.order]
      r == Referrer[c]
      newlyEarned == Greater(t.count \div RewardEvery - t.earned, 0)
  IN  /\ t.op = "granting"
      /\ CompleteWrites(t)
      /\ referral' = [referral EXCEPT
                        ![c] = [status |-> "QUALIFIED", order |-> t.order]]
      /\ reward' = [reward EXCEPT ![r] = Earned(@, newlyEarned)]
      /\ Close(p)

-----------------------------------------------------------------------------
(* failDelivery                                                            *)

\* Mutant of Failed: the latch is not set.
FailedNoLatch(d) == [d EXCEPT !.status = "FAILED"]

Failed(d) == [d EXCEPT !.status = "FAILED", !.requiresReconciliation = TRUE]

BeginFail(p, o, k) ==
  /\ delivery[o][k].status \in OnTheRoad
  /\ Begin(p, [op |-> "fail", order |-> o, attempt |-> k,
               status |-> delivery[o][k].status,
               orderStatus |-> order[o].status])

CommitFail(p) ==
  LET t == txn[p]
      o == t.order
  IN  /\ t.op = "fail"
      /\ DeliveryStill(o, t.attempt, t.status)
      /\ Unlocked(p, {<<"delivery", o, t.attempt>>, <<"order", o>>})
      /\ delivery' = [delivery EXCEPT ![o][t.attempt] = Failed(@)]
      /\ order' = [order EXCEPT ![o].status = "FAILED"]
      /\ history' = [history EXCEPT ![o] = Append(@, <<t.orderStatus, "FAILED">>)]
      /\ Close(p)
      /\ UNCHANGED <<stock, account, collected, referral, reward>>

-----------------------------------------------------------------------------
(* reconcileFailedDelivery                                                 *)

\* Mutant of AwaitsReconciliation: the latch is not looked at.
IsFailed(d) == d.status = "FAILED"

AwaitsReconciliation(d) == d.requiresReconciliation

BeginReconcile(p, o, k) ==
  /\ AwaitsReconciliation(delivery[o][k])
  /\ StaleReconcile \/ \A q \in Procs : txn[q].op = "reconcile" =>
                                          <<txn[q].order, txn[q].attempt>> # <<o, k>>
  /\ Begin(p, [op |-> "reconcile", order |-> o, attempt |-> k,
               driver |-> delivery[o][k].driver])

\* The flag is cleared whatever it is by now.
CommitReconcile(p) ==
  LET t == txn[p]
      o == t.order
      load == LoadOf(o)
  IN  /\ t.op = "reconcile"
      /\ Unlocked(p, StockRows(t.driver, load) \cup StockRows("FILLED_WAREHOUSE", load)
                       \cup {<<"delivery", o, t.attempt>>})
      /\ Covers(stock, t.driver, load)
      /\ stock' = Moved(stock, t.driver, "FILLED_WAREHOUSE", load)
      /\ delivery' = [delivery EXCEPT ![o][t.attempt].requiresReconciliation = FALSE]
      /\ Close(p)
      /\ UNCHANGED <<order, account, collected, referral, reward, history>>

-----------------------------------------------------------------------------
Next ==
  \E p \in Procs :
    \/ \E o \in Orders, cart \in Carts, redeem \in BOOLEAN :
         BeginPlace(p, o, cart, redeem)
    \/ \E o \in Orders : BeginCancel(p, o)
    \/ \E o \in Orders, d \in Drivers : BeginAssign(p, o, d)
    \/ \E o \in Orders : \E k \in DOMAIN delivery[o] :
         \/ \E form \in Forms, refill \in Products \cup {Nobody} :
              BeginComplete(p, o, k, form, refill)
         \/ BeginFail(p, o, k)
         \/ BeginReconcile(p, o, k)
    \/ CommitPlace(p)
    \/ CommitCancel(p)
    \/ CommitAssign(p)
    \/ CommitComplete(p)
    \/ QualifyReferral(p)
    \/ ReadRewardBalance(p)
    \/ CommitQualifying(p)
    \/ CommitFail(p)
    \/ CommitReconcile(p)
    \/ Rollback(p)

Spec == Init /\ [][Next]_vars

-----------------------------------------------------------------------------
(* What the services promise.                                              *)

Active(o) ==
  {k \in DOMAIN delivery[o] : delivery[o][k].status \in {"PENDING"} \cup OnTheRoad}

Undispatched == {"NONE", "PENDING", "CONFIRMED", "PROCESSING", "CANCELLED"}

\* An order's status tells how its attempts went: none before dispatch, all
\* but the last failed afterwards, and the last one agrees with the order.
\* No foreign key or check enforces it: five services write the two tables,
\* two of them with unconditional updates of the order row.
OrderFollowsAttempts ==
  \A o \in Orders :
    LET n == Len(delivery[o])
    IN  /\ \A k \in 1..n : k < n => delivery[o][k].status = "FAILED"
        /\ order[o].status \in Undispatched => n = 0
        /\ order[o].status \notin Undispatched =>
             n > 0 /\ delivery[o][n].status = order[o].status

\* At most one attempt of an order is on its way, whatever assignments,
\* failures and completions overlap (assign.ts reuses or adds attempts).
OneActiveDelivery == \A o \in Orders : Cardinality(Active(o)) <= 1

\* A delivered or cancelled order stays so (TERMINAL of cancel.ts), although
\* complete.ts and fail.ts set the order's status without a condition.
TerminalOrders ==
  [][\A o \in Orders : order[o].status \in Terminal =>
                         order'[o].status = order[o].status]_vars

\* A customer's cancellation racing an assignment: a cancelled order never
\* has a delivery, and so never has bottles on a van.
CancelledNeverDispatched ==
  \A o \in Orders : order[o].status = "CANCELLED" => delivery[o] = <<>>

\* The legal transitions of docs/BUSINESS_RULES.md, section 4, from the order's
\* creation on, and the one the services make that the table does not have:
\* nothing sets OUT_FOR_DELIVERY, and complete.ts delivers an ASSIGNED order.
DocumentedTransitions ==
  {<<"NONE", "PENDING">>, <<"PENDING", "CONFIRMED">>, <<"CONFIRMED", "PROCESSING">>,
   <<"PROCESSING", "ASSIGNED">>, <<"FAILED", "ASSIGNED">>,
   <<"ASSIGNED", "OUT_FOR_DELIVERY">>, <<"ASSIGNED", "FAILED">>,
   <<"OUT_FOR_DELIVERY", "DELIVERED">>, <<"OUT_FOR_DELIVERY", "FAILED">>}
    \cup {"PENDING", "CONFIRMED", "PROCESSING", "ASSIGNED", "FAILED"} \X {"CANCELLED"}
Transitions == DocumentedTransitions \cup {<<"ASSIGNED", "DELIVERED">>}

\* The status history read in order is an unbroken path of such transitions to
\* the current status, although complete.ts and fail.ts record the status read
\* earlier and set the new one without a condition.
HistoryIsAPath ==
  \A o \in Orders :
    LET h == history[o]
    IN  /\ \A i \in 1..Len(h) : h[i] \in Transitions
        /\ \A i \in 1..Len(h) - 1 : h[i][2] = h[i + 1][1]
        /\ order[o].status = IF h = <<>> THEN "NONE" ELSE h[Len(h)][2]

\* What driver d's van answers for of product x because of attempt a of order o:
\* its load while it is active or waits for reconciliation, and what it did not
\* hand over once it is completed.
LeftOnVan(d, x, o, a) ==
  IF a.driver # d THEN 0
  ELSE IF a.status = "DELIVERED"
    THEN LoadOf(o)[x]
           - HandedOver(order[o].lines, order[o].reward, a.delivered)[x]
  ELSE IF a.status = "ASSIGNED" \/ a.requiresReconciliation THEN LoadOf(o)[x]
  ELSE 0

\* And because of all attempts of order o, and of all orders.
LeftOfOrder(d, x, o) ==
  SumFunction([k \in DOMAIN delivery[o] |-> LeftOnVan(d, x, o, delivery[o][k])])
AnswersFor(d, x) == SumFunction([o \in Orders |-> LeftOfOrder(d, x, o)])

\* A van holds every bottle its attempts answer for: no reconciliation gives
\* back bottles that belong to another attempt.
VansHoldTheirLoads ==
  \A d \in Drivers, x \in Products : stock[d][x] >= AnswersFor(d, x)

\* And holds no other: no bottle stays on a van that no attempt accounts for.
NoStrandedBottles ==
  \A d \in Drivers, x \in Products : stock[d][x] <= AnswersFor(d, x)

\* A move that would take a position below zero is rejected, never clamped
\* (the quantity condition of applyStockMove), also when several moves of one
\* transaction or of two depend on the same row.
StockNeverNegative == \A place \in Places, x \in Products : stock[place][x] >= 0

\* Every place a bottle can be: stock moves neither make nor lose bottles.
BottlesConserved ==
  \A x \in Products :
    SumFunction([place \in Places |-> stock[place][x]]) = InitialFilled[x]

\* complete.ts drops the part of a surplus that no outstanding shortage
\* absorbs.  No completion that can commit has such a part: a customer never
\* holds more bottles than are outstanding.
SurplusIsOwed ==
  \A p \in Procs :
    txn[p].op \in Completing /\ CanComplete(txn[p]) =>
      -Shortage(txn[p]) <= Held(txn[p]).outstanding

\* The bottle account and the stock positions are written by different
\* statements from different numbers, and still agree on what a customer has.
AccountMatchesStock ==
  \A c \in Customers :
    account[c].held = Bottles(stock[c])

\* An order's amountPaid, computed from an earlier read, is the sum of its
\* payments: no completion overwrites the amount of another one.
PaidMatchesPayments == \A o \in Orders : order[o].paid = collected[o]

\* Reward bottles are spent once: the balance never goes negative, is what
\* was earned minus what was redeemed, equals the ledger, and one redemption
\* stands for each order that has a reward line and was not cancelled.
RewardsBalance ==
  \A c \in Customers :
    /\ reward[c].available >= 0
    /\ reward[c].available = reward[c].earned - reward[c].redeemed
    /\ reward[c].available = reward[c].ledger
    /\ reward[c].redeemed =
         Cardinality({o \in Orders : /\ Owner[o] = c
                                     /\ order[o].reward
                                     /\ order[o].status # "CANCELLED"})

\* A customer's referral qualifies once: the referral row is updated by id
\* alone, and only the lock on the customer's bottle balance, taken earlier
\* in the same transaction, keeps a second completion from doing it again.
QualifiesOnce ==
  [][\A c \in Customers : referral[c].status = "QUALIFIED" =>
                            referral'[c] = referral[c]]_vars

\* A qualified referral names an order of that customer that was delivered
\* and paid in full.
QualifiedByPaidOrder ==
  \A c \in Customers :
    referral[c].status = "QUALIFIED" =>
      LET o == referral[c].order
      IN  /\ o \in Orders /\ Owner[o] = c
          /\ order[o].status = "DELIVERED"
          /\ order[o].payStatus = "PAID" /\ order[o].paid >= order[o].total

\* Between its referral step and its commit a completion's conditions stay
\* true: the rows it holds are all the rows they depend on.
LocksProtectCompletion ==
  \A p \in Procs : txn[p].op \in {"counted", "granting"} =>
                     CanComplete(txn[p]) /\ Qualifies(txn[p])

\* With no request open, a referrer has earned one reward bottle for every
\* RewardEvery qualified referrals (the earning rule complete.ts computes).
EarnedByRule ==
  (\A p \in Procs : txn[p] = Idle) =>
    \A r \in Customers :
      reward[r].earned = Cardinality(Qualified(r)) \div RewardEvery

-----------------------------------------------------------------------------
(* The abstract lifecycle of an order, read off the two tables.            *)

Latched(o) == {k \in DOMAIN delivery[o] : delivery[o][k].requiresReconciliation}

Lifecycle == INSTANCE OrderLifecycle WITH
  status   <- [o \in Orders |-> order[o].status],
  attempts <- [o \in Orders |-> Len(delivery[o])],
  latched  <- [o \in Orders |-> Latched(o)]

\* Overlapping requests, with their stale reads and unconditional updates,
\* leave every order on a path of the abstract lifecycle, one step at a time.
ImplementsLifecycle == Lifecycle!LifecycleSpec

-----------------------------------------------------------------------------
(* The abstract reward programme, read off the orders, the referrals and   *)
(* the reward balances.                                                    *)

Program == INSTANCE RewardProgram WITH
  qualified <- {c \in Customers : referral[c].status = "QUALIFIED"},
  earned    <- [c \in Customers |-> reward[c].earned],
  available <- [c \in Customers |-> reward[c].available],
  funded    <- {o \in Orders : order[o].reward /\ order[o].status # "CANCELLED"},
  released  <- {o \in Orders : order[o].reward /\ order[o].status = "CANCELLED"}

\* Placements, cancellations and completions of one customer and of the
\* customer who referred them may overlap in any way: a reward bottle is
\* earned only when a referral qualifies, is there when it is spent, and is
\* given back once.
ImplementsRewards == Program!RewardSpec

=============================================================================
