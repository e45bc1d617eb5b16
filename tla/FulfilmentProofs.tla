-------------------------- MODULE FulfilmentProofs --------------------------
(***************************************************************************)
(* Theorems about Fulfilment, for every value of its constants.            *)
(*                                                                         *)
(* First its types.  Then: orders and their delivery attempts agree, for   *)
(* every number of orders, requests, vans and attempts: the argument       *)
(* behind OrderFollowsAttempts, and from it that the fulfilment services   *)
(* implement OrderLifecycle.                                               *)
(***************************************************************************)
EXTENDS Fulfilment, SumProofs

-----------------------------------------------------------------------------
(* Type correctness.  TypeOK alone is not inductive: the balance a         *)
(* completion reads and increments exists only because its customer has a  *)
(* referrer, and the attempt it writes only because attempts are never     *)
(* deleted.                                                                *)

Referred ==
  /\ \A c \in Customers :
       referral[c].status # "NONE" => Referrer[c] \in Customers
  /\ \A p \in Procs :
       txn[p].op \in {"counted", "granting"} =>
         Referrer[Owner[txn[p].order]] \in Customers

AttemptsExist ==
  \A p \in Procs :
    /\ txn[p].op \in Completing \cup {"fail", "reconcile"} =>
         txn[p].attempt \in DOMAIN delivery[txn[p].order]
    /\ txn[p].op = "assign" /\ txn[p].reuse =>
         txn[p].latest \in DOMAIN delivery[txn[p].order]

TypeInv == TypeOK /\ Referred /\ AttemptsExist

\* Replacing an element of a sequence keeps its length and its type.
LEMMA ReplaceInSeq ==
  ASSUME NEW S, NEW s \in Seq(S), NEW i \in DOMAIN s, NEW e \in S
  PROVE  /\ [s EXCEPT ![i] = e] \in Seq(S)
         /\ Len([s EXCEPT ![i] = e]) = Len(s)
         /\ DOMAIN [s EXCEPT ![i] = e] = DOMAIN s
  OBVIOUS

\* A stock move yields stock positions, whichever places it joins.
LEMMA MovedType ==
  ASSUME NEW s \in StockPositions, NEW from \in Places, NEW to \in Places,
         NEW load \in [Products -> Int]
  PROVE  Moved(s, from, to, load) \in StockPositions
  BY DEF StockPositions, Moved

\* What an order's lines imply is well typed.
LEMMA LoadTypes ==
  ASSUME NEW lines \in Carts \cup {NoBottles}, NEW bonus \in BOOLEAN,
         NEW count \in Nat
  PROVE  /\ lines \in Load
         /\ ExchangeLoad(lines, bonus) \in Load
         /\ HandedOver(lines, bonus, count) \in Load
  <1>1. lines \in Load
    BY CartsAssumption DEF Load, NoBottles
  <1>2. ExchangeLoad(lines, bonus) \in Load
    BY <1>1 DEF Load, ExchangeLoad, RewardLine
  <1>3. HandedOver(lines, bonus, count) \in Load
    BY <1>1 DEF Load, HandedOver, RewardLine, Lesser
  <1> QED
    BY <1>1, <1>2, <1>3

\* The number of bottles of a load, the price of a cart and the empties expected
\* for it are numbers, since there are finitely many products.
LEMMA SumTypes ==
  ASSUME NEW lines \in Carts \cup {NoBottles}, NEW bonus \in BOOLEAN
  PROVE  /\ \A load \in Load : Bottles(load) \in Nat
         /\ Subtotal(lines) \in Int
         /\ ExpectedEmpties(lines, bonus) \in Nat
  <1>1. IsFiniteSet(Products)
    BY FulfilmentAssumption
  <1>2. ASSUME NEW load \in Load
        PROVE  Bottles(load) \in Nat
    <2>1. DOMAIN load = Products /\ \A x \in Products : load[x] \in Nat
      BY DEF Load
    <2> QED
      BY <1>1, <2>1, SumType DEF Bottles, SumFunction
  <1>3. Subtotal(lines) \in Int
    <2> DEFINE cost == [x \in Products |-> Price[x] * lines[x]]
    <2>1. \A x \in Products : cost[x] \in Int
      <3>1. lines \in [Products -> Nat] /\ Price \in [Products -> Int]
        BY CartsAssumption DEF Load, NoBottles
      <3> QED
        BY <3>1
    <2>2. DOMAIN cost = Products
      OBVIOUS
    <2>3. Subtotal(lines) = SumFunctionOnSet(cost, Products)
      BY <2>2 DEF Subtotal, SumFunction
    <2> HIDE DEF cost
    <2> QED
      BY <1>1, <2>1, <2>3, SumType
  <1>4. ExpectedEmpties(lines, bonus) \in Nat
    <2>1. ExchangeLoad(lines, bonus) \in Load
      BY LoadTypes, 0 \in Nat
    <2> QED
      BY <1>2, <2>1 DEF ExpectedEmpties
  <1> QED
    BY <1>2, <1>3, <1>4

\* Bottles of one product are a load.
LEMMA OnlyType ==
  ASSUME NEW x, NEW n \in Nat
  PROVE  Only(x, n) \in Load
  BY DEF Only, Load

\* What a process has read is what its kind of request reads.
LEMMA TxnTypes ==
  ASSUME TypeOK, NEW p \in Procs
  PROVE  LET t == txn[p]
         IN  /\ t.op = "idle" => t = Idle
             /\ t.op = "place" => t \in Placing
             /\ t.op = "cancel" => t \in Cancelling
             /\ t.op = "assign" => t \in Assigning
             /\ t.op = "fail" => t \in Failing
             /\ t.op = "reconcile" => t \in Reconciling
             /\ t.op \in Completing => t \in Delivering
             /\ t # Idle => t.order \in Orders
  <1> DEFINE t == txn[p]
  <1>1. t \in Transaction
    BY DEF TypeOK
  <1>2. /\ Idle.op = "idle"
        /\ t \in Placing => t.op = "place" /\ t.order \in Orders
        /\ t \in Cancelling => t.op = "cancel" /\ t.order \in Orders
        /\ t \in Assigning => t.op = "assign" /\ t.order \in Orders
        /\ t \in Failing => t.op = "fail" /\ t.order \in Orders
        /\ t \in Reconciling => t.op = "reconcile" /\ t.order \in Orders
        /\ t \in Delivering => t.op \in Completing /\ t.order \in Orders
    BY DEF Idle, Placing, Cancelling, Assigning, Failing, Reconciling, Delivering
  <1> HIDE DEF t
  <1>3. t \in {Idle} \cup Placing \cup Cancelling \cup Assigning
                \cup Failing \cup Reconciling \cup Delivering
    BY <1>1 DEF Transaction
  <1>4. /\ t.op = "idle" => t = Idle
        /\ t.op = "place" => t \in Placing
        /\ t.op = "cancel" => t \in Cancelling
        /\ t.op = "assign" => t \in Assigning
        /\ t.op = "fail" => t \in Failing
        /\ t.op = "reconcile" => t \in Reconciling
        /\ t.op \in Completing => t \in Delivering
        /\ t # Idle => t.order \in Orders
    BY <1>2, <1>3 DEF Completing
  <1> QED
    BY <1>4 DEF t

\* The statuses assignDriver walks through, and their history rows.
LEMMA NextStatusesType ==
  ASSUME NEW from \in OrderStatus
  PROVE  /\ NextStatuses(from) \in Seq(OrderStatus)
         /\ HistoryRows(from, NextStatuses(from))
              \in Seq((OrderStatus \cup {"NONE"}) \X OrderStatus)
  <1> DEFINE S == (OrderStatus \cup {"NONE"}) \X OrderStatus
  <1>1. ASSUME NEW path \in Seq(OrderStatus)
        PROVE  HistoryRows(from, path) \in Seq(S)
    <2>1. Len(path) \in Nat /\ \A i \in 1..Len(path) : path[i] \in OrderStatus
      BY <1>1
    <2>2. \A i \in 1..Len(path) : i # 1 => i - 1 \in 1..Len(path)
      BY <2>1
    <2>3. HistoryRows(from, path) \in [1..Len(path) -> S]
      BY <2>1, <2>2 DEF HistoryRows
    <2> QED
      BY <2>1, <2>3
  <1>2. NextStatuses(from) \in Seq(OrderStatus)
    <2>1. /\ <<"CONFIRMED", "PROCESSING", "ASSIGNED">> \in Seq(OrderStatus)
          /\ <<"PROCESSING", "ASSIGNED">> \in Seq(OrderStatus)
          /\ <<"ASSIGNED">> \in Seq(OrderStatus)
          /\ <<>> \in Seq(OrderStatus)
      BY DEF OrderStatus
    <2> QED
      BY <2>1, Zenon DEF NextStatuses
  <1> QED
    BY <1>1, <1>2

-----------------------------------------------------------------------------
(* One lemma per kind of step.                                             *)

\* Opening a transaction that has read an existing attempt.
LEMMA BeginKeepsTypes ==
  ASSUME TypeInv, NEW p \in Procs, NEW t \in Transaction, Begin(p, t),
         t.op \notin {"counted", "granting"},
         t.op \in Completing \cup {"fail", "reconcile"} =>
           t.attempt \in DOMAIN delivery[t.order],
         t.op = "assign" /\ t.reuse => t.latest \in DOMAIN delivery[t.order]
  PROVE  TypeInv'
  <1>1. TypeOK'
    BY DEF TypeInv, TypeOK, Begin
  <1>2. \A q \in Procs : txn'[q] = IF q = p THEN t ELSE txn[q]
    BY DEF TypeInv, TypeOK, Begin
  <1>3. Referred'
    BY <1>2 DEF TypeInv, Referred, Begin
  <1>4. AttemptsExist'
    BY <1>2 DEF TypeInv, AttemptsExist, Begin
  <1> QED
    BY <1>1, <1>3, <1>4 DEF TypeInv

\* Closing one, with attempts only added and referrals only qualified.
LEMMA CloseKeepsTypes ==
  ASSUME TypeInv, NEW p \in Procs, Close(p),
         \A o \in Orders : DOMAIN delivery[o] \subseteq DOMAIN delivery'[o],
         \A c \in Customers :
           referral'[c].status # "NONE" => Referrer[c] \in Customers
  PROVE  /\ txn' \in [Procs -> Transaction]
         /\ Referred'
         /\ AttemptsExist'
  <1>1. \A q \in Procs : txn'[q] = IF q = p THEN Idle ELSE txn[q]
    BY DEF TypeInv, TypeOK, Close
  <1>2. txn' \in [Procs -> Transaction]
    BY DEF TypeInv, TypeOK, Close, Transaction
  <1>3. Referred'
    BY <1>1 DEF TypeInv, Referred, Idle
  <1>4. AttemptsExist'
    <2>1. \A q \in Procs : txn[q].op # "idle" => txn[q].order \in Orders
      BY TxnTypes DEF TypeInv, Idle
    <2> QED
      BY <1>1, <2>1 DEF TypeInv, AttemptsExist, Idle, Completing
  <1> QED
    BY <1>2, <1>3, <1>4

\* Advancing a completion to its next referral step.
LEMMA AdvanceKeepsTypes ==
  ASSUME TypeInv, NEW p \in Procs, NEW u \in Delivering,
         txn[p].op \in Completing,
         u.order = txn[p].order, u.attempt = txn[p].attempt,
         Referrer[Owner[u.order]] \in Customers,
         txn' = [txn EXCEPT ![p] = u],
         UNCHANGED <<delivery, referral>>
  PROVE  /\ txn' \in [Procs -> Transaction]
         /\ Referred'
         /\ AttemptsExist'
  <1>1. \A q \in Procs : txn'[q] = IF q = p THEN u ELSE txn[q]
    BY DEF TypeInv, TypeOK
  <1>2. txn' \in [Procs -> Transaction]
    BY DEF TypeInv, TypeOK, Transaction
  <1>3. Referred'
    <2>1. \A q \in Procs : txn'[q].op \in {"counted", "granting"} =>
                             Referrer[Owner[txn'[q].order]] \in Customers
      BY <1>1 DEF TypeInv, Referred
    <2>2. \A c \in Customers :
            referral'[c].status # "NONE" => Referrer[c] \in Customers
      BY DEF TypeInv, Referred
    <2> QED
      BY <2>1, <2>2 DEF Referred
  <1>4. AttemptsExist'
    <2>1. txn[p].attempt \in DOMAIN delivery[txn[p].order]
      BY DEF TypeInv, AttemptsExist
    <2>2. u.op \in Completing
      BY DEF Delivering
    <2>3. ~(u.op = "assign")
      BY <2>2 DEF Completing
    <2>4. ASSUME NEW q \in Procs
          PROVE  /\ txn'[q].op \in Completing \cup {"fail", "reconcile"} =>
                      txn'[q].attempt \in DOMAIN delivery'[txn'[q].order]
                 /\ txn'[q].op = "assign" /\ txn'[q].reuse =>
                      txn'[q].latest \in DOMAIN delivery'[txn'[q].order]
      <3>1. CASE q = p
        <4>1. txn'[q] = u
          BY <1>1, <3>1
        <4> QED
          BY <2>1, <2>3, <4>1
      <3>2. CASE q # p
        <4>1. txn'[q] = txn[q]
          BY <1>1, <3>2
        <4> QED
          BY <4>1 DEF TypeInv, AttemptsExist
      <3> QED
        BY <3>1, <3>2
    <2> QED
      BY <2>4 DEF AttemptsExist
  <1> QED
    BY <1>2, <1>3, <1>4

\* The writes of a completion.
LEMMA CompleteKeepsTypes ==
  ASSUME TypeInv, NEW p \in Procs, txn[p].op \in Completing,
         CompleteWrites(txn[p])
  PROVE  /\ order' \in [Orders -> Order]
         /\ delivery' \in [Orders -> Seq(Delivery)]
         /\ \A o \in Orders : DOMAIN delivery'[o] = DOMAIN delivery[o]
         /\ stock' \in StockPositions
         /\ account' \in [Customers -> Account]
         /\ collected' \in [Orders -> Int]
         /\ history' \in [Orders -> Seq((OrderStatus \cup {"NONE"}) \X OrderStatus)]
  <1> DEFINE t == txn[p]
             o == t.order
             c == Owner[o]
  <1>1. t \in Delivering
    BY TxnTypes DEF TypeInv
  <1>2. /\ o \in Orders
        /\ t.attempt \in DOMAIN delivery[o]
        /\ t.driver \in Drivers
        /\ t.orderStatus \in OrderStatus \cup {"NONE"}
        /\ t.paid \in Int
        /\ t.form \in [delivered : Nat, empties : Nat, damaged : Nat,
                       pays : BOOLEAN, cash : Int]
        /\ c \in Customers
    BY <1>1, FormsAssumption, FulfilmentAssumption
    DEF Delivering, TypeInv, AttemptsExist
  <1> HIDE DEF t, o, c
  <1>3. /\ delivery[o] \in Seq(Delivery)
        /\ delivery[o][t.attempt] \in Delivery
        /\ order[o] \in Order
        /\ account[c] \in Account
        /\ collected[o] \in Int
        /\ history[o] \in Seq((OrderStatus \cup {"NONE"}) \X OrderStatus)
    <2>1. delivery[o] \in Seq(Delivery) /\ order[o] \in Order
      BY <1>2 DEF TypeInv, TypeOK
    <2>2. delivery[o][t.attempt] \in Delivery
      BY <1>2, <2>1
    <2> QED
      BY <1>2, <2>1, <2>2 DEF TypeInv, TypeOK
  <1>4. order' \in [Orders -> Order]
    <2>1. /\ PaidAfter(t) \in Int
          /\ PayStatusAfter(t) \in PayStatus
      <3>1. PaidAfter(t) \in Int
        BY <1>2, <1>3 DEF PaidAfter, Order, o
      <3>2. PayStatusAfter(t) \in PayStatus
        <4>1. order[o].payStatus \in PayStatus
          BY <1>3 DEF Order
        <4> QED
          BY <4>1 DEF PayStatusAfter, PayStatus, o
      <3> QED
        BY <3>1, <3>2
    <2>2. order' = [order EXCEPT ![o].status = "DELIVERED",
                                 ![o].paid = PaidAfter(t),
                                 ![o].payStatus = PayStatusAfter(t)]
      BY DEF CompleteWrites, t, o
    <2> QED
      BY <1>2, <1>3, <2>1, <2>2 DEF TypeInv, TypeOK, Order, OrderStatus
  <1>5. /\ delivery' \in [Orders -> Seq(Delivery)]
        /\ \A x \in Orders : DOMAIN delivery'[x] = DOMAIN delivery[x]
    <2> DEFINE e == [delivery[o][t.attempt] EXCEPT
                       !.status = "DELIVERED", !.delivered = t.form.delivered]
    <2>1. e \in Delivery
      BY <1>2, <1>3 DEF Delivery, DeliveryStatus
    <2>2. delivery' = [delivery EXCEPT ![o] = [delivery[o] EXCEPT ![t.attempt] = e]]
      BY <1>2, <1>3 DEF CompleteWrites, t, o, TypeInv, TypeOK
    <2> HIDE DEF e
    <2>3. /\ [delivery[o] EXCEPT ![t.attempt] = e] \in Seq(Delivery)
          /\ DOMAIN [delivery[o] EXCEPT ![t.attempt] = e] = DOMAIN delivery[o]
      BY <1>2, <1>3, <2>1, ReplaceInSeq
    <2> QED
      BY <1>2, <2>2, <2>3 DEF TypeInv, TypeOK
  <1>6. stock' \in StockPositions
    <2>1. /\ t.driver \in Places /\ c \in Places
          /\ "EMPTY_WAREHOUSE" \in Places /\ "DAMAGED" \in Places
      BY <1>2 DEF Places, Warehouse
    <2>2. /\ Handed(t) \in [Products -> Int]
          /\ Returned(t) \in [Products -> Int]
          /\ Broken(t) \in [Products -> Int]
      <3>1. order[o].lines \in Carts \cup {NoBottles} /\ order[o].reward \in BOOLEAN
        BY <1>3 DEF Order
      <3>2. /\ t.form.delivered \in Nat /\ t.form.empties \in Nat
            /\ t.form.damaged \in Nat
        BY <1>2
      <3>3. Load \subseteq [Products -> Int]
        BY DEF Load
      <3>4. Handed(t) \in Load
        BY <3>1, <3>2, LoadTypes DEF Handed, o
      <3>5. Returned(t) \in Load /\ Broken(t) \in Load
        BY <3>2, OnlyType DEF Returned, Broken
      <3> QED
        BY <3>3, <3>4, <3>5
    <2>3. AfterHandOver(t) \in StockPositions
      BY <2>1, <2>2, MovedType DEF AfterHandOver, TypeInv, TypeOK, c, o
    <2>4. AfterReturn(t) \in StockPositions
      BY <2>1, <2>2, <2>3, MovedType DEF AfterReturn, c, o
    <2>5. AfterDamaged(t) \in StockPositions
      BY <2>1, <2>2, <2>4, MovedType DEF AfterDamaged, c, o
    <2> QED
      BY <2>5 DEF CompleteWrites, t
  <1>7. account' \in [Customers -> Account]
    <2> DEFINE returned == t.form.empties + t.form.damaged
               owed == IF Shortage(t) >= 0 THEN Shortage(t) ELSE -Applied(t)
    <2>1. Shortage(t) \in Int
      <3>1. delivery[o][t.attempt].expected \in Nat
        BY <1>3 DEF Delivery
      <3> QED
        BY <1>2, <3>1 DEF Shortage, o
    <2>2. Applied(t) \in Int
      <3>1. account[c].outstanding \in Int
        BY <1>3 DEF Account
      <3> QED
        BY <2>1, <3>1 DEF Applied, Lesser, Held, c, o
    <2>3. returned \in Int /\ owed \in Int
      BY <1>2, <2>1, <2>2
    <2>4. account' = [account EXCEPT
                        ![c].held = @ + t.form.delivered - returned,
                        ![c].outstanding = @ + owed,
                        ![c].ledger = @ + owed]
      BY DEF CompleteWrites, t, o, c
    <2> HIDE DEF returned, owed
    <2> DEFINE a == [account[c] EXCEPT !.held = @ + t.form.delivered - returned,
                                       !.outstanding = @ + owed,
                                       !.ledger = @ + owed]
    <2>5. a \in Account
      <3> DEFINE x == account[c].held + t.form.delivered - returned
                 y == account[c].outstanding + owed
                 z == account[c].ledger + owed
      <3>1. x \in Int /\ y \in Int /\ z \in Int
        <4>1. /\ account[c].held \in Int
              /\ account[c].outstanding \in Int
              /\ account[c].ledger \in Int
          BY <1>3 DEF Account
        <4>2. t.form.delivered \in Int
          BY <1>2
        <4> QED
          BY <2>3, <4>1, <4>2
      <3> HIDE DEF x, y, z
      <3>2. [account[c] EXCEPT !.held = x, !.outstanding = y, !.ledger = z]
              \in Account
        BY <1>3, <3>1 DEF Account
      <3> QED
        BY <3>2, Zenon DEF x, y, z
    <2>6. account' = [account EXCEPT ![c] = a]
      BY <1>2, <2>4 DEF TypeInv, TypeOK
    <2> HIDE DEF a
    <2> QED
      BY <1>2, <2>5, <2>6 DEF TypeInv, TypeOK
  <1>8. collected' \in [Orders -> Int]
    <2>1. collected' = [collected EXCEPT
                          ![o] = @ + (IF t.form.pays THEN t.form.cash ELSE 0)]
      BY DEF CompleteWrites, t, o
    <2> QED
      BY <1>2, <1>3, <2>1 DEF TypeInv, TypeOK
  <1>9. history' \in [Orders -> Seq((OrderStatus \cup {"NONE"}) \X OrderStatus)]
    <2>1. history' = [history EXCEPT
                        ![o] = Append(@, <<t.orderStatus, "DELIVERED">>)]
      BY DEF CompleteWrites, t, o
    <2> QED
      BY <1>2, <1>3, <2>1 DEF TypeInv, TypeOK, OrderStatus
  <1> QED
    BY <1>4, <1>5, <1>6, <1>7, <1>8, <1>9

\* Every handler's head keeps the types.
LEMMA BeginsKeepTypes ==
  ASSUME TypeInv, NEW p \in Procs,
         \/ \E o \in Orders, cart \in Carts, redeem \in BOOLEAN :
              BeginPlace(p, o, cart, redeem)
         \/ \E o \in Orders : BeginCancel(p, o)
         \/ \E o \in Orders, d \in Drivers : BeginAssign(p, o, d)
         \/ \E o \in Orders : \E k \in DOMAIN delivery[o] :
              \/ \E form \in Forms, refill \in Products \cup {Nobody} :
                   BeginComplete(p, o, k, form, refill)
              \/ BeginFail(p, o, k)
              \/ BeginReconcile(p, o, k)
  PROVE  TypeInv'
  <1>1. ASSUME NEW o \in Orders, NEW cart \in Carts, NEW redeem \in BOOLEAN,
               BeginPlace(p, o, cart, redeem)
        PROVE  TypeInv'
    <2> DEFINE t == [op |-> "place", order |-> o, lines |-> cart, reward |-> redeem]
    <2>1. Begin(p, t)
      BY <1>1 DEF BeginPlace
    <2>2. t \in Transaction /\ t.op = "place"
      BY DEF Transaction, Placing
    <2> HIDE DEF t
    <2> QED
      BY <2>1, <2>2, BeginKeepsTypes DEF Completing
  <1>2. ASSUME NEW o \in Orders, BeginCancel(p, o)
        PROVE  TypeInv'
    <2> DEFINE t == [op |-> "cancel", order |-> o, status |-> order[o].status]
    <2>1. Begin(p, t)
      BY <1>2 DEF BeginCancel
    <2>2. order[o].status \in OrderStatus
      BY <1>2, FulfilmentAssumption DEF BeginCancel
    <2>3. t \in Transaction /\ t.op = "cancel"
      BY <2>2 DEF Transaction, Cancelling
    <2> HIDE DEF t
    <2> QED
      BY <2>1, <2>3, BeginKeepsTypes DEF Completing
  <1>3. ASSUME NEW o \in Orders, NEW d \in Drivers, BeginAssign(p, o, d)
        PROVE  TypeInv'
    <2> DEFINE latest == Len(delivery[o])
               reuse == latest > 0 /\ Reusable(delivery[o][latest])
               t == [op |-> "assign", order |-> o, driver |-> d,
                     status |-> order[o].status, latest |-> latest,
                     reuse |-> reuse]
    <2>1. Begin(p, t)
      BY <1>3 DEF BeginAssign
    <2>2. order[o].status \in OrderStatus
      BY <1>3 DEF BeginAssign, Assignable, OrderStatus
    <2>3. delivery[o] \in Seq(Delivery)
      BY DEF TypeInv, TypeOK
    <2>4. /\ latest \in Nat
          /\ reuse \in BOOLEAN
          /\ reuse => latest \in DOMAIN delivery[o]
      BY <2>3
    <2> HIDE DEF latest, reuse
    <2>5. t \in Transaction /\ t.op = "assign"
      BY <2>2, <2>4 DEF Transaction, Assigning
    <2>6. t.order = o /\ t.reuse = reuse /\ t.latest = latest
      OBVIOUS
    <2> HIDE DEF t
    <2> QED
      BY <2>1, <2>4, <2>5, <2>6, BeginKeepsTypes DEF Completing
  <1>4. ASSUME NEW o \in Orders, NEW k \in DOMAIN delivery[o],
               NEW form \in Forms, NEW refill \in Products \cup {Nobody},
               BeginComplete(p, o, k, form, refill)
        PROVE  TypeInv'
    <2> DEFINE d == delivery[o][k]
               t == [op |-> "complete", order |-> o, attempt |-> k,
                     driver |-> d.driver, status |-> d.status,
                     orderStatus |-> order[o].status, paid |-> order[o].paid,
                     form |-> form, refill |-> refill,
                     count |-> 0, earned |-> 0]
    <2>1. Begin(p, t)
      BY <1>4 DEF BeginComplete
    <2>2. delivery[o] \in Seq(Delivery) /\ order[o] \in Order
      BY DEF TypeInv, TypeOK
    <2>3. k \in Nat \ {0} /\ d \in Delivery
      BY <2>2
    <2>4. order[o].status \in OrderStatus \cup {"NONE"}
      BY <2>2 DEF Order
    <2>5. t \in Delivering /\ t.op = "complete" /\ t.order = o /\ t.attempt = k
      BY <2>2, <2>3, <2>4 DEF Delivering, Completing, Delivery, Order
    <2> HIDE DEF t
    <2> QED
      BY <2>1, <2>5, BeginKeepsTypes DEF Completing, Transaction
  <1>5. ASSUME NEW o \in Orders, NEW k \in DOMAIN delivery[o], BeginFail(p, o, k)
        PROVE  TypeInv'
    <2> DEFINE t == [op |-> "fail", order |-> o, attempt |-> k,
                     status |-> delivery[o][k].status,
                     orderStatus |-> order[o].status]
    <2>1. Begin(p, t)
      BY <1>5 DEF BeginFail
    <2>2. delivery[o] \in Seq(Delivery) /\ order[o] \in Order
      BY DEF TypeInv, TypeOK
    <2>3. k \in Nat \ {0} /\ delivery[o][k] \in Delivery
      BY <2>2
    <2>4. order[o].status \in OrderStatus \cup {"NONE"}
      BY <2>2 DEF Order
    <2>5. t \in Failing /\ t.op = "fail" /\ t.order = o /\ t.attempt = k
      BY <2>3, <2>4 DEF Failing, Delivery
    <2> HIDE DEF t
    <2> QED
      BY <2>1, <2>5, BeginKeepsTypes DEF Completing, Transaction
  <1>6. ASSUME NEW o \in Orders, NEW k \in DOMAIN delivery[o], BeginReconcile(p, o, k)
        PROVE  TypeInv'
    <2> DEFINE t == [op |-> "reconcile", order |-> o, attempt |-> k,
                     driver |-> delivery[o][k].driver]
    <2>1. Begin(p, t)
      BY <1>6 DEF BeginReconcile
    <2>2. delivery[o] \in Seq(Delivery)
      BY DEF TypeInv, TypeOK
    <2>3. k \in Nat \ {0} /\ delivery[o][k] \in Delivery
      BY <2>2
    <2>4. t \in Reconciling /\ t.op = "reconcile" /\ t.order = o /\ t.attempt = k
      BY <2>3 DEF Reconciling, Delivery
    <2> HIDE DEF t
    <2> QED
      BY <2>1, <2>4, BeginKeepsTypes DEF Completing, Transaction
  <1> QED
    BY <1>1, <1>2, <1>3, <1>4, <1>5, <1>6

\* Redeeming, restoring and earning rewards.
LEMMA RewardTypes ==
  ASSUME NEW b \in RewardBalance, NEW n \in Int
  PROVE  Redeemed(b, n) \in RewardBalance /\ Earned(b, n) \in RewardBalance
  BY DEF RewardBalance, Redeemed, Earned

\* Replacing one order's status.
LEMMA OrderStatusType ==
  ASSUME NEW f \in [Orders -> Order], NEW o \in Orders, NEW s \in OrderStatus
  PROVE  [f EXCEPT ![o].status = s] \in [Orders -> Order]
  BY DEF Order

\* Replacing one attempt by a well-typed one.
LEMMA DeliveryType ==
  ASSUME NEW f \in [Orders -> Seq(Delivery)], NEW o \in Orders,
         NEW k \in DOMAIN f[o], NEW d \in Delivery
  PROVE  /\ [f EXCEPT ![o][k] = d] \in [Orders -> Seq(Delivery)]
         /\ \A x \in Orders : DOMAIN [f EXCEPT ![o][k] = d][x] = DOMAIN f[x]
  <1>1. f[o] \in Seq(Delivery)
    OBVIOUS
  <1>2. /\ [f[o] EXCEPT ![k] = d] \in Seq(Delivery)
        /\ DOMAIN [f[o] EXCEPT ![k] = d] = DOMAIN f[o]
    BY <1>1, ReplaceInSeq
  <1> QED
    BY <1>2

\* Every commit, and a rollback, keeps the types.
LEMMA CommitsKeepTypes ==
  ASSUME TypeInv, NEW p \in Procs,
         \/ CommitPlace(p) \/ CommitCancel(p) \/ CommitAssign(p)
         \/ CommitComplete(p) \/ QualifyReferral(p) \/ ReadRewardBalance(p)
         \/ CommitQualifying(p) \/ CommitFail(p) \/ CommitReconcile(p)
         \/ Rollback(p)
  PROVE  TypeInv'
  <1> DEFINE t == txn[p]
             o == t.order
             c == Owner[o]
             r == Referrer[c]
             S == (OrderStatus \cup {"NONE"}) \X OrderStatus
  <1>a. \A x \in Customers : referral[x].status # "NONE" => Referrer[x] \in Customers
    BY DEF TypeInv, Referred
  <1>b. /\ order \in [Orders -> Order]
        /\ delivery \in [Orders -> Seq(Delivery)]
        /\ stock \in StockPositions
        /\ account \in [Customers -> Account]
        /\ collected \in [Orders -> Int]
        /\ referral \in [Customers -> Referral]
        /\ reward \in [Customers -> RewardBalance]
        /\ history \in [Orders -> Seq(S)]
        /\ txn \in [Procs -> Transaction]
    BY DEF TypeInv, TypeOK
  <1>c. /\ t.op = "place" => t \in Placing
        /\ t.op = "cancel" => t \in Cancelling
        /\ t.op = "assign" => t \in Assigning
        /\ t.op = "fail" => t \in Failing
        /\ t.op = "reconcile" => t \in Reconciling
        /\ t.op \in Completing => t \in Delivering
        /\ t.op # "idle" => o \in Orders
    BY TxnTypes DEF TypeInv, Idle
  <1>d. o \in Orders => /\ c \in Customers
                        /\ order[o] \in Order
                        /\ order[o].expected \in Nat
                        /\ order[o].status \in OrderStatus \cup {"NONE"}
                        /\ LoadOf(o) \in [Products -> Int]
    <2> SUFFICES ASSUME o \in Orders
                 PROVE  /\ c \in Customers
                        /\ order[o] \in Order
                        /\ order[o].expected \in Nat
                        /\ order[o].status \in OrderStatus \cup {"NONE"}
                        /\ LoadOf(o) \in [Products -> Int]
      OBVIOUS
    <2> HIDE DEF o
    <2>1. c \in Customers /\ order[o] \in Order
      BY <1>b, FulfilmentAssumption
    <2>2. /\ order[o].expected \in Nat
          /\ order[o].status \in OrderStatus \cup {"NONE"}
          /\ order[o].lines \in Carts \cup {NoBottles}
          /\ order[o].reward \in BOOLEAN
      BY <2>1 DEF Order
    <2>3. LoadOf(o) \in [Products -> Int]
      BY <2>2, LoadTypes, 0 \in Nat DEF LoadOf, Load
    <2> QED
      BY <2>1, <2>2, <2>3
  <1>e. /\ "FILLED_WAREHOUSE" \in Places
        /\ Drivers \subseteq Places
    BY DEF Places, Warehouse
  <1> HIDE DEF t, o, c, r, S
  <1>1. CASE CommitPlace(p)
    <2> DEFINE placed == [status |-> "PENDING", lines |-> t.lines,
                          reward |-> t.reward,
                          expected |-> ExpectedEmpties(t.lines, t.reward),
                          total |-> OrderTotal(t.lines),
                          paid |-> 0, payStatus |-> "UNPAID"]
    <2>1. /\ t.op = "place"
          /\ order' = [order EXCEPT ![o] = placed]
          /\ history' = [history EXCEPT ![o] = Append(@, <<"NONE", "PENDING">>)]
          /\ reward' = IF t.reward THEN [reward EXCEPT ![c] = Redeemed(@, 1)]
                                   ELSE reward
          /\ Close(p)
          /\ UNCHANGED <<delivery, stock, account, collected, referral>>
      BY <1>1 DEF CommitPlace, t, o, c
    <2>2. t \in Placing /\ o \in Orders
      BY <1>c, <2>1
    <2>3. /\ t.lines \in Carts /\ t.reward \in BOOLEAN
          /\ OrderTotal(t.lines) \in Nat
          /\ ExpectedEmpties(t.lines, t.reward) \in Nat
      <3>1. /\ t.lines \in Carts /\ t.reward \in BOOLEAN
            /\ Subtotal(t.lines) \in Int
            /\ ExpectedEmpties(t.lines, t.reward) \in Nat
        BY <2>2, SumTypes DEF Placing
      <3>2. DeliveryFee \in Int
        BY FulfilmentAssumption
      <3>3. OrderTotal(t.lines) \in Nat
        BY <3>1, <3>2 DEF OrderTotal, Greater
      <3> QED
        BY <3>1, <3>3
    <2>4. placed \in Order
      BY <2>3 DEF Order, OrderStatus, PayStatus
    <2> HIDE DEF placed
    <2>5. order' \in [Orders -> Order]
      BY <1>b, <2>1, <2>4
    <2>6. history' \in [Orders -> Seq(S)]
      <3>1. <<"NONE", "PENDING">> \in S
        BY DEF S, OrderStatus
      <3> QED
        BY <1>b, <2>1, <2>2, <3>1
    <2>7. reward' \in [Customers -> RewardBalance]
      <3>1. Redeemed(reward[c], 1) \in RewardBalance
        BY <1>b, <1>d, <2>2, RewardTypes
      <3> QED
        BY <1>b, <2>1, <3>1
    <2>8. txn' \in [Procs -> Transaction] /\ Referred' /\ AttemptsExist'
      BY <1>a, <2>1, CloseKeepsTypes
    <2> QED
      BY <1>b, <2>1, <2>5, <2>6, <2>7, <2>8 DEF TypeInv, TypeOK, S
  <1>2. CASE CommitCancel(p)
    <2>1. /\ t.op = "cancel"
          /\ order' = [order EXCEPT ![o].status = "CANCELLED"]
          /\ history' = [history EXCEPT ![o] = Append(@, <<t.status, "CANCELLED">>)]
          /\ reward' = IF order[o].reward
                         THEN [reward EXCEPT ![c] = Redeemed(@, -1)]
                         ELSE reward
          /\ Close(p)
          /\ UNCHANGED <<delivery, stock, account, collected, referral>>
      BY <1>2 DEF CommitCancel, t, o, c
    <2>2. t \in Cancelling /\ o \in Orders
      BY <1>c, <2>1
    <2>3. order' \in [Orders -> Order]
      BY <1>b, <2>1, <2>2, OrderStatusType DEF OrderStatus
    <2>4. history' \in [Orders -> Seq(S)]
      <3>1. <<t.status, "CANCELLED">> \in S
        BY <2>2 DEF S, OrderStatus, Cancelling
      <3> QED
        BY <1>b, <2>1, <2>2, <3>1
    <2>5. reward' \in [Customers -> RewardBalance]
      <3>1. Redeemed(reward[c], -1) \in RewardBalance
        BY <1>b, <1>d, <2>2, RewardTypes
      <3> QED
        BY <1>b, <2>1, <3>1
    <2>6. txn' \in [Procs -> Transaction] /\ Referred' /\ AttemptsExist'
      BY <1>a, <2>1, CloseKeepsTypes
    <2> QED
      BY <1>b, <2>1, <2>3, <2>4, <2>5, <2>6 DEF TypeInv, TypeOK, S
  <1>3. CASE CommitAssign(p)
    <2> DEFINE fresh == [status |-> "ASSIGNED", driver |-> t.driver,
                         expected |-> order[o].expected,
                         requiresReconciliation |-> FALSE, delivered |-> 0]
               again == [delivery[o][t.latest] EXCEPT
                           !.status = "ASSIGNED", !.driver = t.driver,
                           !.expected = order[o].expected]
    <2>1. /\ t.op = "assign"
          /\ stock' = Moved(stock, "FILLED_WAREHOUSE", t.driver, LoadOf(o))
          /\ Close(p)
          /\ UNCHANGED <<account, collected, referral, reward>>
      BY <1>3 DEF CommitAssign, t, o
    <2>2. /\ t \in Assigning /\ o \in Orders
          /\ t.driver \in Drivers /\ t.status \in OrderStatus
          /\ t.reuse => t.latest \in DOMAIN delivery[o]
      BY <1>c, <2>1 DEF Assigning, TypeInv, AttemptsExist, t, o
    <2>3. /\ delivery' \in [Orders -> Seq(Delivery)]
          /\ \A x \in Orders : DOMAIN delivery[x] \subseteq DOMAIN delivery'[x]
      <3>1. CASE t.reuse
        <4>1. delivery' = [delivery EXCEPT
                             ![o][t.latest].status = "ASSIGNED",
                             ![o][t.latest].driver = t.driver,
                             ![o][t.latest].expected = order[o].expected]
          BY <1>3, <3>1 DEF CommitAssign, t, o
        <4>2. delivery' = [delivery EXCEPT ![o][t.latest] = again]
          BY <1>b, <2>2, <3>1, <4>1
        <4>3. delivery[o][t.latest] \in Delivery
          BY <1>b, <2>2, <3>1
        <4>4. again \in Delivery
          BY <1>d, <2>2, <4>3 DEF Delivery, DeliveryStatus
        <4> HIDE DEF again
        <4> QED
          BY <1>b, <2>2, <3>1, <4>2, <4>4, DeliveryType
      <3>2. CASE ~t.reuse
        <4>1. delivery' = [delivery EXCEPT ![o] = Append(@, fresh)]
          BY <1>3, <3>2 DEF CommitAssign, t, o
        <4>2. fresh \in Delivery
          BY <1>d, <2>2 DEF Delivery, DeliveryStatus
        <4> HIDE DEF fresh
        <4>3. /\ delivery[o] \in Seq(Delivery)
              /\ Append(delivery[o], fresh) \in Seq(Delivery)
              /\ DOMAIN delivery[o] \subseteq DOMAIN Append(delivery[o], fresh)
          BY <1>b, <2>2, <4>2
        <4> QED
          BY <1>b, <2>2, <4>1, <4>3
      <3> QED
        BY <3>1, <3>2
    <2>4. /\ order' \in [Orders -> Order]
          /\ history' \in [Orders -> Seq(S)]
      <3>1. CASE t.status = "ASSIGNED"
        <4>1. UNCHANGED <<order, history>>
          BY <1>3, <3>1 DEF CommitAssign, t
        <4> QED
          BY <1>b, <4>1
      <3>2. CASE t.status # "ASSIGNED"
        <4> DEFINE rows == HistoryRows(t.status, NextStatuses(t.status))
        <4>1. /\ order' = [order EXCEPT ![o].status = "ASSIGNED"]
              /\ history' = [history EXCEPT ![o] = @ \o rows]
          BY <1>3, <3>2 DEF CommitAssign, t, o
        <4>2. rows \in Seq(S)
          BY <2>2, NextStatusesType DEF S
        <4> HIDE DEF rows
        <4>3. history[o] \o rows \in Seq(S)
          BY <1>b, <2>2, <4>2
        <4> QED
          BY <1>b, <2>2, <4>1, <4>3, OrderStatusType DEF OrderStatus
      <3> QED
        BY <3>1, <3>2
    <2>5. stock' \in StockPositions
      BY <1>b, <1>d, <1>e, <2>1, <2>2, MovedType
    <2>6. txn' \in [Procs -> Transaction] /\ Referred' /\ AttemptsExist'
      BY <1>a, <2>1, <2>3, CloseKeepsTypes
    <2> QED
      BY <1>b, <2>1, <2>3, <2>4, <2>5, <2>6 DEF TypeInv, TypeOK, S
  <1>4. CASE CommitComplete(p)
    <2>1. /\ t.op \in Completing
          /\ CompleteWrites(t)
          /\ Close(p)
          /\ UNCHANGED <<referral, reward>>
      BY <1>4 DEF CommitComplete, Completing, t
    <2>2. /\ order' \in [Orders -> Order]
          /\ delivery' \in [Orders -> Seq(Delivery)]
          /\ \A x \in Orders : DOMAIN delivery'[x] = DOMAIN delivery[x]
          /\ stock' \in StockPositions
          /\ account' \in [Customers -> Account]
          /\ collected' \in [Orders -> Int]
          /\ history' \in [Orders -> Seq(S)]
      BY <2>1, CompleteKeepsTypes DEF t, S
    <2>3. txn' \in [Procs -> Transaction] /\ Referred' /\ AttemptsExist'
      BY <1>a, <2>1, <2>2, CloseKeepsTypes
    <2> QED
      BY <1>b, <2>1, <2>2, <2>3 DEF TypeInv, TypeOK, S
  <1>5. CASE QualifyReferral(p)
    <2> DEFINE n == Cardinality(Qualified(r)) + 1
               u == [t EXCEPT !.op = "counted", !.count = n]
    <2>1. /\ t.op = "complete"
          /\ referral[c].status = "PENDING"
          /\ txn' = [txn EXCEPT ![p].op = "counted", ![p].count = n]
          /\ UNCHANGED <<order, delivery, stock, account, collected, referral,
                         reward, history>>
      BY <1>5 DEF QualifyReferral, Qualifies, t, o, c, r
    <2>2. t \in Delivering /\ o \in Orders /\ c \in Customers
      BY <1>c, <1>d, <2>1 DEF Completing
    <2>3. n \in Nat
      <3>1. IsFiniteSet(Qualified(r))
        BY FulfilmentAssumption, FS_Subset DEF Qualified
      <3> QED
        BY <3>1, FS_CardinalityType
    <2> HIDE DEF n
    <2>4. /\ u \in Delivering
          /\ u.op = "counted" /\ u.order = o /\ u.attempt = t.attempt
      BY <2>2, <2>3 DEF Delivering, Completing, o
    <2>5. txn' = [txn EXCEPT ![p] = u]
      BY <1>b, <2>1 DEF t
    <2> HIDE DEF u
    <2>6. t.op \in Completing
      BY <2>1 DEF Completing
    <2>7. Referrer[Owner[u.order]] \in Customers
      BY <2>1, <2>2, <2>4 DEF TypeInv, Referred, c
    <2>8. txn' \in [Procs -> Transaction] /\ Referred' /\ AttemptsExist'
      BY <1>a, <2>1, <2>4, <2>5, <2>6, <2>7, AdvanceKeepsTypes DEF t, o
    <2> QED
      BY <1>b, <2>1, <2>8 DEF TypeInv, TypeOK, S
  <1>6. CASE ReadRewardBalance(p)
    <2> DEFINE n == reward[r].earned
               u == [t EXCEPT !.op = "granting", !.earned = n]
    <2>1. /\ t.op = "counted"
          /\ txn' = [txn EXCEPT ![p].op = "granting", ![p].earned = n]
          /\ UNCHANGED <<order, delivery, stock, account, collected, referral,
                         reward, history>>
      BY <1>6 DEF ReadRewardBalance, t, o, c, r
    <2>2. t \in Delivering /\ r \in Customers
      BY <1>c, <2>1 DEF Completing, TypeInv, Referred, t, o, c, r
    <2>3. n \in Int
      <3>1. reward[r] \in RewardBalance
        BY <1>b, <2>2
      <3> QED
        BY <3>1 DEF RewardBalance
    <2> HIDE DEF n
    <2>4. /\ u \in Delivering
          /\ u.op = "granting" /\ u.order = o /\ u.attempt = t.attempt
      BY <2>2, <2>3 DEF Delivering, Completing, o
    <2>5. txn' = [txn EXCEPT ![p] = u]
      BY <1>b, <2>1 DEF t
    <2> HIDE DEF u
    <2>6. t.op \in Completing
      BY <2>1 DEF Completing
    <2>7. Referrer[Owner[u.order]] \in Customers
      BY <2>2, <2>4 DEF r, c
    <2>8. txn' \in [Procs -> Transaction] /\ Referred' /\ AttemptsExist'
      BY <1>a, <2>1, <2>4, <2>5, <2>6, <2>7, AdvanceKeepsTypes DEF t, o
    <2> QED
      BY <1>b, <2>1, <2>8 DEF TypeInv, TypeOK, S
  <1>7. CASE CommitQualifying(p)
    <2> DEFINE newlyEarned == Greater(t.count \div RewardEvery - t.earned, 0)
    <2>1. /\ t.op = "granting"
          /\ CompleteWrites(t)
          /\ referral' = [referral EXCEPT
                            ![c] = [status |-> "QUALIFIED", order |-> o]]
          /\ reward' = [reward EXCEPT ![r] = Earned(@, newlyEarned)]
          /\ Close(p)
      BY <1>7 DEF CommitQualifying, t, o, c, r
    <2>2. /\ t.op \in Completing /\ t \in Delivering
          /\ o \in Orders /\ c \in Customers /\ r \in Customers
      BY <1>c, <1>d, <2>1 DEF Completing, TypeInv, Referred, t, o, c, r
    <2>3. /\ order' \in [Orders -> Order]
          /\ delivery' \in [Orders -> Seq(Delivery)]
          /\ \A x \in Orders : DOMAIN delivery'[x] = DOMAIN delivery[x]
          /\ stock' \in StockPositions
          /\ account' \in [Customers -> Account]
          /\ collected' \in [Orders -> Int]
          /\ history' \in [Orders -> Seq(S)]
      BY <2>1, <2>2, CompleteKeepsTypes DEF t, S
    <2>4. newlyEarned \in Int
      <3>1. t.count \in Nat /\ t.earned \in Int
        BY <2>2 DEF Delivering
      <3>2. t.count \div RewardEvery \in Int
        BY <3>1, FulfilmentAssumption
      <3> QED
        BY <3>1, <3>2 DEF Greater
    <2> HIDE DEF newlyEarned
    <2>5. reward' \in [Customers -> RewardBalance]
      <3>1. Earned(reward[r], newlyEarned) \in RewardBalance
        BY <1>b, <2>2, <2>4, RewardTypes
      <3> QED
        BY <1>b, <2>1, <3>1
    <2>6. referral' \in [Customers -> Referral]
      <3>1. [status |-> "QUALIFIED", order |-> o] \in Referral
        BY <2>2 DEF Referral
      <3> QED
        BY <1>b, <2>1, <3>1
    <2>7. \A x \in Customers :
            referral'[x].status # "NONE" => Referrer[x] \in Customers
      BY <1>a, <1>b, <2>1, <2>2 DEF r
    <2>8. txn' \in [Procs -> Transaction] /\ Referred' /\ AttemptsExist'
      BY <2>1, <2>3, <2>7, CloseKeepsTypes
    <2> QED
      BY <2>3, <2>5, <2>6, <2>8 DEF TypeInv, TypeOK, S
  <1>8. CASE CommitFail(p)
    <2> DEFINE d == Failed(delivery[o][t.attempt])
    <2>1. /\ t.op = "fail"
          /\ delivery' = [delivery EXCEPT ![o][t.attempt] = d]
          /\ order' = [order EXCEPT ![o].status = "FAILED"]
          /\ history' = [history EXCEPT ![o] = Append(@, <<t.orderStatus, "FAILED">>)]
          /\ Close(p)
          /\ UNCHANGED <<stock, account, collected, referral, reward>>
      BY <1>8 DEF CommitFail, t, o
    <2>2. t \in Failing /\ o \in Orders /\ t.attempt \in DOMAIN delivery[o]
      BY <1>c, <2>1 DEF TypeInv, AttemptsExist, t, o
    <2>3. d \in Delivery
      <3>1. delivery[o][t.attempt] \in Delivery
        BY <1>b, <2>2
      <3> QED
        BY <3>1 DEF Failed, Delivery, DeliveryStatus
    <2> HIDE DEF d
    <2>4. /\ delivery' \in [Orders -> Seq(Delivery)]
          /\ \A x \in Orders : DOMAIN delivery'[x] = DOMAIN delivery[x]
      BY <1>b, <2>1, <2>2, <2>3, DeliveryType
    <2>5. order' \in [Orders -> Order]
      BY <1>b, <2>1, <2>2, OrderStatusType DEF OrderStatus
    <2>6. history' \in [Orders -> Seq(S)]
      <3>1. <<t.orderStatus, "FAILED">> \in S
        BY <2>2 DEF S, OrderStatus, Failing
      <3> QED
        BY <1>b, <2>1, <2>2, <3>1
    <2>7. txn' \in [Procs -> Transaction] /\ Referred' /\ AttemptsExist'
      BY <1>a, <2>1, <2>4, CloseKeepsTypes
    <2> QED
      BY <1>b, <2>1, <2>4, <2>5, <2>6, <2>7 DEF TypeInv, TypeOK, S
  <1>9. CASE CommitReconcile(p)
    <2> DEFINE d == [delivery[o][t.attempt] EXCEPT !.requiresReconciliation = FALSE]
    <2>1. /\ t.op = "reconcile"
          /\ stock' = Moved(stock, t.driver, "FILLED_WAREHOUSE", LoadOf(o))
          /\ delivery' = [delivery EXCEPT
                            ![o][t.attempt].requiresReconciliation = FALSE]
          /\ Close(p)
          /\ UNCHANGED <<order, account, collected, referral, reward, history>>
      BY <1>9 DEF CommitReconcile, t, o
    <2>2. /\ t \in Reconciling /\ o \in Orders /\ t.driver \in Drivers
          /\ t.attempt \in DOMAIN delivery[o]
      BY <1>c, <2>1 DEF Reconciling, TypeInv, AttemptsExist, t, o
    <2>3. d \in Delivery
      <3>1. delivery[o][t.attempt] \in Delivery
        BY <1>b, <2>2
      <3> QED
        BY <3>1 DEF Delivery
    <2>4. delivery' = [delivery EXCEPT ![o][t.attempt] = d]
      BY <1>b, <2>1, <2>2
    <2> HIDE DEF d
    <2>5. /\ delivery' \in [Orders -> Seq(Delivery)]
          /\ \A x \in Orders : DOMAIN delivery'[x] = DOMAIN delivery[x]
      BY <1>b, <2>2, <2>3, <2>4, DeliveryType
    <2>6. stock' \in StockPositions
      BY <1>b, <1>d, <1>e, <2>1, <2>2, MovedType
    <2>7. txn' \in [Procs -> Transaction] /\ Referred' /\ AttemptsExist'
      BY <1>a, <2>1, <2>5, CloseKeepsTypes
    <2> QED
      BY <1>b, <2>1, <2>5, <2>6, <2>7 DEF TypeInv, TypeOK, S
  <1>10. CASE Rollback(p)
    <2>1. /\ Close(p)
          /\ UNCHANGED <<order, delivery, stock, account, collected, referral,
                         reward, history>>
      BY <1>10 DEF Rollback
    <2>2. txn' \in [Procs -> Transaction] /\ Referred' /\ AttemptsExist'
      BY <1>a, <2>1, CloseKeepsTypes
    <2> QED
      BY <1>b, <2>1, <2>2 DEF TypeInv, TypeOK, S
  <1> QED
    BY <1>1, <1>2, <1>3, <1>4, <1>5, <1>6, <1>7, <1>8, <1>9, <1>10

\* The initial state is well typed.
LEMMA InitTypes == Init => TypeInv
  <1> SUFFICES ASSUME Init PROVE TypeInv
    OBVIOUS
  <1>1. NoOrder \in Order
    BY DEF NoOrder, Order, PayStatus
  <1>2. stock \in StockPositions
    BY FulfilmentAssumption DEF Init, StockPositions, NoBottles, Load
  <1>3. TypeOK
    BY <1>1, <1>2 DEF Init, TypeOK, Account, Referral, RewardBalance, Transaction
  <1>4. Referred
    BY FulfilmentAssumption DEF Init, Referred, Idle
  <1>5. AttemptsExist
    BY DEF Init, AttemptsExist, Idle, Completing
  <1> QED
    BY <1>3, <1>4, <1>5 DEF TypeInv

\* So is every state a step leads to.
LEMMA StepKeepsTypes == TypeInv /\ [Next]_vars => TypeInv'
  <1> SUFFICES ASSUME TypeInv, [Next]_vars PROVE TypeInv'
    OBVIOUS
  <1>1. CASE UNCHANGED vars
    BY <1>1 DEF vars, TypeInv, TypeOK, Referred, AttemptsExist
  <1>2. CASE Next
    BY <1>2, BeginsKeepTypes, CommitsKeepTypes DEF Next
  <1> QED
    BY <1>1, <1>2

\* The rows and the open transactions keep their types, with attempts that
\* exist and referrers that exist, through every interleaving of requests.
THEOREM TypeCorrect == Spec => []TypeOK
  <1>1. TypeInv => TypeOK
    BY DEF TypeInv
  <1> QED
    BY <1>1, InitTypes, StepKeepsTypes, PTL DEF Spec

-----------------------------------------------------------------------------
(* Cancelled orders.  This needs less than the rest: a stale assign form   *)
(* may do what it likes to an order that has left, as long as the          *)
(* cancellation setting names only statuses before dispatch.               *)

\* An order that has not left has no attempt; a cancellation under way has read
\* a status that allows it, and an assignment that has read anything but an
\* assignable status is about an order that has left and does not come back.
HomeInv ==
  /\ TypeInv
  /\ \A o \in Orders : order[o].status \in Undispatched => delivery[o] = <<>>
  /\ \A p \in Procs :
       LET t == txn[p]
       IN  /\ t.op = "cancel" => t.status \in CancelAllowed \ Terminal
           /\ t.op = "assign" /\ t.status \notin Assignable =>
                order[t.order].status \notin Undispatched

\* Orders only leave, and as long as they have not, get no attempts.
OrdersLeave ==
  \A o \in Orders :
    order'[o].status \in Undispatched =>
      order[o].status \in Undispatched /\ delivery'[o] = delivery[o]

\* Every commit lets orders leave only.
LEMMA CommitsLeave ==
  ASSUME HomeInv, CancelAllowed \subseteq {"PENDING", "CONFIRMED", "PROCESSING"},
         NEW p \in Procs,
         \/ CommitPlace(p) \/ CommitCancel(p) \/ CommitAssign(p)
         \/ CommitComplete(p) \/ QualifyReferral(p) \/ ReadRewardBalance(p)
         \/ CommitQualifying(p) \/ CommitFail(p) \/ CommitReconcile(p)
         \/ Rollback(p)
  PROVE  OrdersLeave
  <1> DEFINE t == txn[p]
             o == t.order
             k == t.attempt
  <1>1. /\ order \in [Orders -> Order] /\ delivery \in [Orders -> Seq(Delivery)]
        /\ TypeInv
    BY DEF HomeInv, TypeInv, TypeOK
  <1>2. CASE CommitPlace(p)
    BY <1>1, <1>2 DEF CommitPlace, OrdersLeave, Undispatched
  <1>3. CASE CommitCancel(p)
    <2>1. order[o].status \in Undispatched
      BY <1>3 DEF CommitCancel, HomeInv, OrderStill, Undispatched
    <2>2. UNCHANGED delivery /\ order' = [order EXCEPT ![o].status = "CANCELLED"]
      BY <1>3 DEF CommitCancel
    <2> QED
      BY <1>1, <2>1, <2>2 DEF OrdersLeave
  <1>4. CASE CommitAssign(p)
    <2>1. \A x \in Orders \ {o} : delivery'[x] = delivery[x]
      BY <1>1, <1>4 DEF CommitAssign
    <2>2. CASE t.status = "ASSIGNED"
      <3>1. UNCHANGED order /\ t.op = "assign"
        BY <1>4, <2>2 DEF CommitAssign
      <3>2. order[o].status \notin Undispatched
        BY <2>2, <3>1 DEF HomeInv, Assignable
      <3> QED
        BY <2>1, <3>1, <3>2 DEF OrdersLeave
    <2>3. CASE t.status # "ASSIGNED"
      <3>1. order' = [order EXCEPT ![o].status = "ASSIGNED"]
        BY <1>4, <2>3 DEF CommitAssign
      <3> QED
        BY <1>1, <2>1, <3>1 DEF OrdersLeave, Undispatched
    <2> QED
      BY <2>2, <2>3
  <1>5. CASE CommitComplete(p) \/ CommitQualifying(p)
    <2>1. CompleteWrites(t)
      BY <1>5 DEF CommitComplete, CommitQualifying
    <2>2. \A x \in Orders :
            /\ x # o => delivery'[x] = delivery[x] /\ order'[x] = order[x]
            /\ x = o => order'[x].status = "DELIVERED"
      BY <1>1, <2>1 DEF CompleteWrites, Order
    <2> QED
      BY <2>2 DEF OrdersLeave, Undispatched
  <1>6. CASE CommitFail(p)
    <2>1. \A x \in Orders :
            /\ x # o => delivery'[x] = delivery[x] /\ order'[x] = order[x]
            /\ x = o => order'[x].status = "FAILED"
      BY <1>1, <1>6 DEF CommitFail, Order
    <2> QED
      BY <2>1 DEF OrdersLeave, Undispatched
  <1>7. CASE CommitReconcile(p)
    <2>1. /\ UNCHANGED order /\ t.op = "reconcile"
          /\ \A x \in Orders \ {o} : delivery'[x] = delivery[x]
      BY <1>1, <1>7 DEF CommitReconcile
    <2>2. o \in Orders /\ k \in DOMAIN delivery[o]
      BY <1>1, <2>1, TxnTypes DEF TypeInv, AttemptsExist, Idle
    <2>3. order[o].status \notin Undispatched
      BY <2>2 DEF HomeInv
    <2> QED
      BY <2>1, <2>3 DEF OrdersLeave
  <1>8. CASE QualifyReferral(p) \/ ReadRewardBalance(p) \/ Rollback(p)
    BY <1>8 DEF QualifyReferral, ReadRewardBalance, Rollback, OrdersLeave
  <1> QED
    BY <1>2, <1>3, <1>4, <1>5, <1>6, <1>7, <1>8

\* A commit ends a request and a step of a completion leaves it one: no request
\* becomes a cancellation or an assignment but by beginning.
LEMMA CommitsBeginNothing ==
  ASSUME TypeInv, NEW p \in Procs,
         \/ CommitPlace(p) \/ CommitCancel(p) \/ CommitAssign(p)
         \/ CommitComplete(p) \/ QualifyReferral(p) \/ ReadRewardBalance(p)
         \/ CommitQualifying(p) \/ CommitFail(p) \/ CommitReconcile(p)
         \/ Rollback(p)
  PROVE  \A q \in Procs :
           txn'[q] = txn[q] \/ txn'[q].op \notin {"cancel", "assign"}
  <1>1. txn \in [Procs -> Transaction]
    BY DEF TypeInv, TypeOK
  <1>2. CASE QualifyReferral(p)
    <2> DEFINE n == Cardinality(Qualified(Referrer[Owner[txn[p].order]])) + 1
    <2>1. txn[p].op = "complete"
          /\ txn' = [txn EXCEPT ![p].op = "counted", ![p].count = n]
      BY <1>2 DEF QualifyReferral
    <2>2. txn[p] \in Delivering
      BY <2>1, TxnTypes DEF TypeInv, Completing
    <2> HIDE DEF n
    <2>3. txn'[p].op = "counted" /\ \A q \in Procs \ {p} : txn'[q] = txn[q]
      BY <1>1, <2>1, <2>2 DEF Delivering
    <2> QED
      BY <2>3
  <1>3. CASE ReadRewardBalance(p)
    <2> DEFINE n == reward[Referrer[Owner[txn[p].order]]].earned
    <2>1. txn[p].op = "counted"
          /\ txn' = [txn EXCEPT ![p].op = "granting", ![p].earned = n]
      BY <1>3 DEF ReadRewardBalance
    <2>2. txn[p] \in Delivering
      BY <2>1, TxnTypes DEF TypeInv, Completing
    <2> HIDE DEF n
    <2>3. txn'[p].op = "granting" /\ \A q \in Procs \ {p} : txn'[q] = txn[q]
      BY <1>1, <2>1, <2>2 DEF Delivering
    <2> QED
      BY <2>3
  <1>4. CASE ~QualifyReferral(p) /\ ~ReadRewardBalance(p)
    <2>1. Close(p)
      BY <1>4 DEF CommitPlace, CommitCancel, CommitAssign, CommitComplete,
                  CommitQualifying, CommitFail, CommitReconcile, Rollback
    <2> QED
      BY <1>1, <2>1 DEF Close, Idle
  <1> QED
    BY <1>2, <1>3, <1>4

\* A request that is no cancellation and no assignment begins as one of three kinds.
LEMMA BeginsAre ==
  ASSUME NEW p \in Procs, NEW o \in Orders, NEW k \in DOMAIN delivery[o],
         \/ \E form \in Forms, refill \in Products \cup {Nobody} :
              BeginComplete(p, o, k, form, refill)
         \/ BeginFail(p, o, k) \/ BeginReconcile(p, o, k)
  PROVE  \E t : Begin(p, t) /\ t.op \in {"complete", "fail", "reconcile"}
  <1>1. ASSUME NEW form \in Forms, NEW refill \in Products \cup {Nobody},
               BeginComplete(p, o, k, form, refill)
        PROVE  \E t : Begin(p, t) /\ t.op = "complete"
    <2> DEFINE t == [op |-> "complete", order |-> o, attempt |-> k,
                     driver |-> delivery[o][k].driver,
                     status |-> delivery[o][k].status,
                     orderStatus |-> order[o].status, paid |-> order[o].paid,
                     form |-> form, refill |-> refill, count |-> 0, earned |-> 0]
    <2>1. Begin(p, t)
      BY <1>1 DEF BeginComplete
    <2>2. t.op = "complete"
      OBVIOUS
    <2> HIDE DEF t
    <2> QED
      BY <2>1, <2>2
  <1>2. ASSUME BeginFail(p, o, k)
        PROVE  \E t : Begin(p, t) /\ t.op = "fail"
    <2> DEFINE t == [op |-> "fail", order |-> o, attempt |-> k,
                     status |-> delivery[o][k].status,
                     orderStatus |-> order[o].status]
    <2>1. Begin(p, t)
      BY <1>2 DEF BeginFail
    <2>2. t.op = "fail"
      OBVIOUS
    <2> HIDE DEF t
    <2> QED
      BY <2>1, <2>2
  <1>3. ASSUME BeginReconcile(p, o, k)
        PROVE  \E t : Begin(p, t) /\ t.op = "reconcile"
    <2> DEFINE t == [op |-> "reconcile", order |-> o, attempt |-> k,
                     driver |-> delivery[o][k].driver]
    <2>1. Begin(p, t)
      BY <1>3 DEF BeginReconcile
    <2>2. t.op = "reconcile"
      OBVIOUS
    <2> HIDE DEF t
    <2> QED
      BY <2>1, <2>2
  <1> QED
    BY <1>1, <1>2, <1>3

\* Every step keeps the invariant, stale forms included.
LEMMA StepKeepsHome ==
  ASSUME CancelAllowed \subseteq {"PENDING", "CONFIRMED", "PROCESSING"},
         HomeInv, [Next]_vars
  PROVE  HomeInv'
  <1>1. TypeInv'
    BY StepKeepsTypes DEF HomeInv
  <1>2. txn \in [Procs -> Transaction]
    BY DEF HomeInv, TypeInv, TypeOK
  <1>3. CASE UNCHANGED vars
    BY <1>1, <1>3 DEF vars, HomeInv
  <1>4. ASSUME NEW p \in Procs, NEW t, Begin(p, t),
               t.op = "cancel" => t.status \in CancelAllowed \ Terminal,
               t.op = "assign" /\ t.status \notin Assignable =>
                 order[t.order].status \notin Undispatched
        PROVE  HomeInv'
    <2>1. /\ UNCHANGED <<order, delivery>>
          /\ txn'[p] = t /\ \A q \in Procs \ {p} : txn'[q] = txn[q]
      BY <1>2, <1>4 DEF Begin
    <2> QED
      BY <1>1, <1>4, <2>1 DEF HomeInv
  <1>5. ASSUME NEW p \in Procs,
               \/ CommitPlace(p) \/ CommitCancel(p) \/ CommitAssign(p)
               \/ CommitComplete(p) \/ QualifyReferral(p) \/ ReadRewardBalance(p)
               \/ CommitQualifying(p) \/ CommitFail(p) \/ CommitReconcile(p)
               \/ Rollback(p)
        PROVE  HomeInv'
    <2>1. OrdersLeave
      BY <1>5, CommitsLeave
    <2>2. \A q \in Procs : txn'[q] = txn[q] \/ txn'[q].op \notin {"cancel", "assign"}
      BY <1>5, CommitsBeginNothing DEF HomeInv
    <2>3. \A q \in Procs : txn[q].op = "assign" => txn[q].order \in Orders
      BY TxnTypes DEF HomeInv, TypeInv, Idle
    <2>4. \A o \in Orders : order'[o].status \in Undispatched => delivery'[o] = <<>>
      BY <2>1 DEF OrdersLeave, HomeInv
    <2>5. ASSUME NEW q \in Procs
          PROVE  /\ txn'[q].op = "cancel" => txn'[q].status \in CancelAllowed \ Terminal
                 /\ txn'[q].op = "assign" /\ txn'[q].status \notin Assignable =>
                      order'[txn'[q].order].status \notin Undispatched
      <3>1. CASE txn'[q] = txn[q]
        BY <2>1, <2>3, <3>1 DEF OrdersLeave, HomeInv
      <3>2. CASE txn'[q].op \notin {"cancel", "assign"}
        BY <3>2
      <3> QED
        BY <2>2, <3>1, <3>2
    <2> QED
      BY <1>1, <2>4, <2>5 DEF HomeInv
  <1>6. CASE Next
    <2> DEFINE Starts(p) ==
          \E t : /\ Begin(p, t)
                 /\ t.op = "cancel" => t.status \in CancelAllowed \ Terminal
                 /\ t.op = "assign" /\ t.status \notin Assignable =>
                      order[t.order].status \notin Undispatched
    <2>1. PICK p \in Procs :
            \/ Starts(p)
            \/ CommitPlace(p) \/ CommitCancel(p) \/ CommitAssign(p)
            \/ CommitComplete(p) \/ QualifyReferral(p) \/ ReadRewardBalance(p)
            \/ CommitQualifying(p) \/ CommitFail(p) \/ CommitReconcile(p)
            \/ Rollback(p)
      <3>1. ASSUME NEW p \in Procs, NEW o \in Orders, NEW d \in Drivers,
                   BeginAssign(p, o, d)
            PROVE  Starts(p)
        <4> DEFINE latest == Len(delivery[o])
                   t == [op |-> "assign", order |-> o, driver |-> d,
                         status |-> order[o].status, latest |-> latest,
                         reuse |-> latest > 0 /\ Reusable(delivery[o][latest])]
        <4>1. Begin(p, t) /\ order[o].status \in Assignable \cup {"ASSIGNED"}
          BY <3>1 DEF BeginAssign
        <4>2. t.op = "assign" /\ t.order = o /\ t.status = order[o].status
          OBVIOUS
        <4> HIDE DEF t
        <4> QED
          BY <4>1, <4>2 DEF Undispatched
      <3>2. ASSUME NEW p \in Procs, NEW t, Begin(p, t),
                   t.op \notin {"cancel", "assign"}
            PROVE  Starts(p)
        BY <3>2
      <3>3. ASSUME NEW p \in Procs, NEW o \in Orders, NEW cart \in Carts,
                   NEW redeem \in BOOLEAN, BeginPlace(p, o, cart, redeem)
            PROVE  Starts(p)
        <4>1. Begin(p, [op |-> "place", order |-> o, lines |-> cart,
                        reward |-> redeem])
          BY <3>3 DEF BeginPlace
        <4> QED
          BY <3>2, <4>1
      <3>4. ASSUME NEW p \in Procs, NEW o \in Orders, BeginCancel(p, o)
            PROVE  Starts(p)
        <4> DEFINE t == [op |-> "cancel", order |-> o, status |-> order[o].status]
        <4>1. Begin(p, t) /\ order[o].status \in CancelAllowed \ Terminal
          BY <3>4 DEF BeginCancel
        <4>2. t.op = "cancel" /\ t.status = order[o].status
          OBVIOUS
        <4> HIDE DEF t
        <4> QED
          BY <4>1, <4>2
      <3>5. ASSUME NEW p \in Procs, NEW o \in Orders, NEW k \in DOMAIN delivery[o],
                   \/ \E form \in Forms, refill \in Products \cup {Nobody} :
                        BeginComplete(p, o, k, form, refill)
                   \/ BeginFail(p, o, k) \/ BeginReconcile(p, o, k)
            PROVE  Starts(p)
        <4>1. \E t : Begin(p, t) /\ t.op \in {"complete", "fail", "reconcile"}
          BY <3>5, BeginsAre
        <4> QED
          BY <3>2, <4>1
      <3> HIDE DEF Starts
      <3> QED
        BY <1>6, <3>1, <3>3, <3>4, <3>5 DEF Next
    <2> USE DEF Starts
    <2> QED
      BY <1>4, <1>5, <2>1
  <1> QED
    BY <1>3, <1>6

\* A cancelled order has never had a delivery, whichever of a cancellation and
\* an assignment that overlap commits first, and however old the assign form is.
THEOREM CancelledStaysHome ==
  ASSUME CancelAllowed \subseteq {"PENDING", "CONFIRMED", "PROCESSING"}
  PROVE  Spec => []CancelledNeverDispatched
  <1>1. Init => HomeInv
    BY InitTypes DEF Init, HomeInv, Idle
  <1>2. HomeInv /\ [Next]_vars => HomeInv'
    BY StepKeepsHome
  <1>3. HomeInv => CancelledNeverDispatched
    BY DEF HomeInv, CancelledNeverDispatched, Undispatched
  <1> QED
    BY <1>1, <1>2, <1>3, PTL DEF Spec

-----------------------------------------------------------------------------
(* Orders and attempts.  Two facts about the environment are hypotheses of *)
(* every theorem from here on, and a run of Fulfilment refutes             *)
(* TerminalOrders without the first: a manager only submits an assign form *)
(* for an order that is not ASSIGNED yet, and the cancellation setting     *)
(* names only statuses before dispatch.                                    *)

CurrentForms ==
  /\ ~StaleAssign
  /\ CancelAllowed \subseteq {"PENDING", "CONFIRMED", "PROCESSING"}

-----------------------------------------------------------------------------
(* The strengthening: what an open transaction has read is what its        *)
(* handler requires, and a completion in the middle of its referral step   *)
(* still has its delivery row as it read it, and to itself.                *)

Referring(p) == txn[p].op \in {"counted", "granting"}

ReadsAllow ==
  \A p \in Procs :
    LET t == txn[p]
    IN  /\ t.op = "cancel" => t.status \in CancelAllowed \ Terminal
        /\ t.op = "assign" => t.status \in Assignable /\ ~t.reuse
        /\ t.op \in Completing \cup {"fail"} => t.status \in OnTheRoad

HeldStill ==
  \A p \in Procs :
    Referring(p) => DeliveryStill(txn[p].order, txn[p].attempt, txn[p].status)

HeldApart ==
  \A p, q \in Procs :
    p # q /\ Referring(p) /\ Referring(q) =>
      txn[p].order # txn[q].order \/ txn[p].attempt # txn[q].attempt

DispatchInv == TypeInv /\ OrderFollowsAttempts /\ ReadsAllow /\ HeldStill /\ HeldApart

-----------------------------------------------------------------------------
(* What a step may do to the two tables.                                   *)

SetsOrder(o, s) ==
  \A x \in Orders : order'[x].status = IF x = o THEN s ELSE order[x].status

KeepsAttempts == \A x \in Orders : Len(delivery'[x]) = Len(delivery[x])

SetsAttempt(o, k, s) ==
  \A x \in Orders : \A i \in 1..Len(delivery[x]) :
    delivery'[x][i].status = IF x = o /\ i = k THEN s ELSE delivery[x][i].status

SetsLatch(o, k, b) ==
  \A x \in Orders : \A i \in 1..Len(delivery[x]) :
    delivery'[x][i].requiresReconciliation =
      IF x = o /\ i = k THEN b ELSE delivery[x][i].requiresReconciliation

KeepsLatches ==
  \A x \in Orders : \A i \in 1..Len(delivery[x]) :
    delivery'[x][i].requiresReconciliation = delivery[x][i].requiresReconciliation

AddsAttempt(o) ==
  LET n == Len(delivery[o])
  IN  /\ \A x \in Orders : x # o => delivery'[x] = delivery[x]
      /\ Len(delivery'[o]) = n + 1
      /\ \A i \in 1..n : delivery'[o][i] = delivery[o][i]
      /\ delivery'[o][n + 1].status = "ASSIGNED"
      /\ ~delivery'[o][n + 1].requiresReconciliation

PlaceEffect(o) ==
  order[o].status = "NONE" /\ SetsOrder(o, "PENDING") /\ UNCHANGED delivery
CancelEffect(o) ==
  /\ order[o].status \in CancelAllowed \ Terminal
  /\ SetsOrder(o, "CANCELLED") /\ UNCHANGED delivery
AssignEffect(o) ==
  order[o].status \in Assignable /\ SetsOrder(o, "ASSIGNED") /\ AddsAttempt(o)
CompleteEffect(o, k) ==
  /\ delivery[o][k].status \in OnTheRoad
  /\ SetsOrder(o, "DELIVERED")
  /\ KeepsAttempts /\ SetsAttempt(o, k, "DELIVERED") /\ KeepsLatches
FailEffect(o, k) ==
  /\ delivery[o][k].status \in OnTheRoad
  /\ SetsOrder(o, "FAILED")
  /\ KeepsAttempts /\ SetsAttempt(o, k, "FAILED") /\ SetsLatch(o, k, TRUE)
ReconcileEffect(o, k) ==
  /\ UNCHANGED order
  /\ KeepsAttempts /\ SetsAttempt(o, k, delivery[o][k].status)
  /\ SetsLatch(o, k, FALSE)

Effect ==
  \/ UNCHANGED <<order, delivery>>
  \/ \E o \in Orders :
       \/ PlaceEffect(o) \/ CancelEffect(o) \/ AssignEffect(o)
       \/ \E k \in 1..Len(delivery[o]) :
            CompleteEffect(o, k) \/ FailEffect(o, k) \/ ReconcileEffect(o, k)

\* Rewriting one attempt of one order, field by field.
LEMMA AttemptRewritten ==
  ASSUME TypeOK, NEW o \in Orders, NEW k \in DOMAIN delivery[o],
         NEW d \in Delivery, delivery' = [delivery EXCEPT ![o][k] = d]
  PROVE  /\ KeepsAttempts
         /\ SetsAttempt(o, k, d.status)
         /\ SetsLatch(o, k, d.requiresReconciliation)
  <1>1. delivery \in [Orders -> Seq(Delivery)]
    BY DEF TypeOK
  <1>2. \A x \in Orders :
          /\ Len(delivery'[x]) = Len(delivery[x])
          /\ \A i \in 1..Len(delivery[x]) :
               delivery'[x][i] = IF x = o /\ i = k THEN d ELSE delivery[x][i]
    BY <1>1
  <1> QED
    BY <1>2 DEF KeepsAttempts, SetsAttempt, SetsLatch

\* Replacing an order's record sets its status and no other order's.
LEMMA OrderRewritten ==
  ASSUME TypeOK, NEW o \in Orders, NEW r, order' = [order EXCEPT ![o] = r]
  PROVE  SetsOrder(o, r.status)
  BY DEF TypeOK, SetsOrder

\* A completion that commits.
LEMMA CompleteHasEffect ==
  ASSUME TypeInv, NEW p \in Procs, txn[p].op \in Completing,
         txn[p].status \in OnTheRoad,
         DeliveryStill(txn[p].order, txn[p].attempt, txn[p].status),
         CompleteWrites(txn[p])
  PROVE  /\ txn[p].order \in Orders
         /\ txn[p].attempt \in 1..Len(delivery[txn[p].order])
         /\ CompleteEffect(txn[p].order, txn[p].attempt)
  <1> DEFINE t == txn[p]
             o == t.order
             k == t.attempt
             d == [delivery[o][k] EXCEPT !.status = "DELIVERED",
                                         !.delivered = t.form.delivered]
             r == [order[o] EXCEPT !.status = "DELIVERED",
                                   !.paid = PaidAfter(t),
                                   !.payStatus = PayStatusAfter(t)]
  <1>1. /\ t \in Delivering /\ o \in Orders
        /\ k \in DOMAIN delivery[o] /\ t.form.delivered \in Nat
    <2>1. t \in Delivering
      BY TxnTypes DEF TypeInv
    <2>2. o \in Orders /\ t.form \in Forms
      BY <2>1 DEF Delivering
    <2> QED
      BY <2>1, <2>2, FormsAssumption DEF TypeInv, AttemptsExist
  <1>2. /\ order' = [order EXCEPT ![o].status = "DELIVERED",
                                  ![o].paid = PaidAfter(t),
                                  ![o].payStatus = PayStatusAfter(t)]
        /\ delivery' = [delivery EXCEPT ![o][k].status = "DELIVERED",
                                        ![o][k].delivered = t.form.delivered]
    BY DEF CompleteWrites
  <1>3. delivery[o] \in Seq(Delivery) /\ order[o] \in Order
    BY <1>1 DEF TypeInv, TypeOK
  <1> HIDE DEF t, o, k
  <1>4. k \in 1..Len(delivery[o]) /\ delivery[o][k] \in Delivery
    BY <1>1, <1>3
  <1>5. order' = [order EXCEPT ![o] = r]
    BY <1>1, <1>2 DEF TypeInv, TypeOK
  <1>6. r.status = "DELIVERED"
    BY <1>3 DEF Order
  <1>7. delivery' = [delivery EXCEPT ![o][k] = d]
    BY <1>1, <1>2 DEF TypeInv, TypeOK
  <1>8. /\ d \in Delivery
        /\ d.status = "DELIVERED"
        /\ d.requiresReconciliation = delivery[o][k].requiresReconciliation
    BY <1>1, <1>4 DEF Delivery, DeliveryStatus
  <1> HIDE DEF r, d
  <1>9. SetsOrder(o, "DELIVERED")
    BY <1>1, <1>5, <1>6, OrderRewritten DEF TypeInv
  <1>10. /\ KeepsAttempts
         /\ SetsAttempt(o, k, "DELIVERED")
         /\ SetsLatch(o, k, delivery[o][k].requiresReconciliation)
    BY <1>1, <1>7, <1>8, AttemptRewritten DEF TypeInv
  <1>11. KeepsLatches
    BY <1>10 DEF SetsLatch, KeepsLatches
  <1>12. delivery[o][k].status \in OnTheRoad
    BY DEF DeliveryStill, t, o, k
  <1> QED
    BY <1>1, <1>4, <1>9, <1>10, <1>11, <1>12 DEF CompleteEffect, t, o, k

\* An assignment that commits, with no attempt to reuse.
LEMMA AssignHasEffect ==
  ASSUME TypeInv, NEW p \in Procs, CommitAssign(p),
         txn[p].status \in Assignable, ~txn[p].reuse
  PROVE  txn[p].order \in Orders /\ AssignEffect(txn[p].order)
  <1> DEFINE t == txn[p]
             o == t.order
             n == Len(delivery[o])
             r == [order[o] EXCEPT !.status = "ASSIGNED"]
             fresh == [status |-> "ASSIGNED", driver |-> t.driver,
                       expected |-> order[o].expected,
                       requiresReconciliation |-> FALSE, delivered |-> 0]
  <1>1. o \in Orders
    <2>1. t.op = "assign"
      BY DEF CommitAssign
    <2> QED
      BY <2>1, TxnTypes DEF TypeInv, Idle
  <1>2. /\ OrderStill(o, t.status)
        /\ order' = [order EXCEPT ![o].status = "ASSIGNED"]
        /\ delivery' = [delivery EXCEPT ![o] = Append(@, fresh)]
    BY DEF CommitAssign, Assignable
  <1>3. delivery[o] \in Seq(Delivery) /\ order[o] \in Order
    BY <1>1 DEF TypeInv, TypeOK
  <1>4. order' = [order EXCEPT ![o] = r] /\ r.status = "ASSIGNED"
    BY <1>1, <1>2, <1>3 DEF TypeInv, TypeOK, Order
  <1>5. fresh.status = "ASSIGNED" /\ ~fresh.requiresReconciliation
    OBVIOUS
  <1> HIDE DEF t, o, r, fresh
  <1>6. SetsOrder(o, "ASSIGNED")
    BY <1>1, <1>4, OrderRewritten DEF TypeInv
  <1>7. AddsAttempt(o)
    <2>1. /\ \A x \in Orders : x # o => delivery'[x] = delivery[x]
          /\ delivery'[o] = Append(delivery[o], fresh)
      BY <1>1, <1>2 DEF TypeInv, TypeOK
    <2>2. /\ Len(Append(delivery[o], fresh)) = n + 1
          /\ \A i \in 1..n : Append(delivery[o], fresh)[i] = delivery[o][i]
          /\ Append(delivery[o], fresh)[n + 1] = fresh
      BY <1>3
    <2> QED
      BY <1>5, <2>1, <2>2 DEF AddsAttempt
  <1>8. order[o].status \in Assignable
    BY <1>2 DEF OrderStill, t
  <1> QED
    BY <1>1, <1>6, <1>7, <1>8 DEF AssignEffect, t, o

\* A failure that commits.
LEMMA FailHasEffect ==
  ASSUME TypeInv, NEW p \in Procs, CommitFail(p), txn[p].status \in OnTheRoad
  PROVE  /\ txn[p].order \in Orders
         /\ txn[p].attempt \in 1..Len(delivery[txn[p].order])
         /\ FailEffect(txn[p].order, txn[p].attempt)
  <1> DEFINE t == txn[p]
             o == t.order
             k == t.attempt
             d == Failed(delivery[o][k])
  <1>1. t.op = "fail"
    BY DEF CommitFail
  <1>2. o \in Orders /\ k \in DOMAIN delivery[o]
    BY <1>1, TxnTypes DEF TypeInv, AttemptsExist, Idle
  <1>3. /\ delivery[o][k].status \in OnTheRoad
        /\ delivery' = [delivery EXCEPT ![o][k] = d]
        /\ order' = [order EXCEPT ![o].status = "FAILED"]
    BY DEF CommitFail, DeliveryStill
  <1>4. delivery[o] \in Seq(Delivery) /\ order[o] \in Order
    BY <1>2 DEF TypeInv, TypeOK
  <1> HIDE DEF t, o, k
  <1>5. k \in 1..Len(delivery[o]) /\ delivery[o][k] \in Delivery
    BY <1>2, <1>4
  <1>6. d \in Delivery /\ d.status = "FAILED" /\ d.requiresReconciliation = TRUE
    BY <1>5 DEF Failed, Delivery, DeliveryStatus
  <1> HIDE DEF d
  <1>7. SetsOrder(o, "FAILED")
    BY <1>3, <1>4 DEF SetsOrder, TypeInv, TypeOK, Order
  <1>8. KeepsAttempts /\ SetsAttempt(o, k, "FAILED") /\ SetsLatch(o, k, TRUE)
    BY <1>2, <1>3, <1>6, AttemptRewritten DEF TypeInv
  <1> QED
    BY <1>2, <1>3, <1>5, <1>7, <1>8 DEF FailEffect, t, o, k

\* A reconciliation that commits.
LEMMA ReconcileHasEffect ==
  ASSUME TypeInv, NEW p \in Procs, CommitReconcile(p)
  PROVE  /\ txn[p].order \in Orders
         /\ txn[p].attempt \in 1..Len(delivery[txn[p].order])
         /\ ReconcileEffect(txn[p].order, txn[p].attempt)
  <1> DEFINE t == txn[p]
             o == t.order
             k == t.attempt
             d == [delivery[o][k] EXCEPT !.requiresReconciliation = FALSE]
  <1>1. t.op = "reconcile"
    BY DEF CommitReconcile
  <1>2. o \in Orders /\ k \in DOMAIN delivery[o]
    BY <1>1, TxnTypes DEF TypeInv, AttemptsExist, Idle
  <1>3. /\ delivery' = [delivery EXCEPT ![o][k].requiresReconciliation = FALSE]
        /\ UNCHANGED order
    BY DEF CommitReconcile
  <1>4. delivery[o] \in Seq(Delivery)
    BY <1>2 DEF TypeInv, TypeOK
  <1> HIDE DEF t, o, k
  <1>5. k \in 1..Len(delivery[o]) /\ delivery[o][k] \in Delivery
    BY <1>2, <1>4
  <1>6. /\ d \in Delivery /\ d.status = delivery[o][k].status
        /\ d.requiresReconciliation = FALSE
    BY <1>5 DEF Delivery
  <1>7. delivery' = [delivery EXCEPT ![o][k] = d]
    BY <1>2, <1>3 DEF TypeInv, TypeOK
  <1> HIDE DEF d
  <1>8. /\ KeepsAttempts /\ SetsAttempt(o, k, d.status)
        /\ SetsLatch(o, k, d.requiresReconciliation)
    BY <1>2, <1>6, <1>7, AttemptRewritten DEF TypeInv
  <1> QED
    BY <1>2, <1>3, <1>5, <1>6, <1>8 DEF ReconcileEffect, t, o, k

\* A step begins a request, ends one, or advances a completion.
LEMMA StepCases ==
  ASSUME Next
  PROVE  \E p \in Procs :
           \/ \E u : Begin(p, u) /\ u.op \notin {"counted", "granting"}
           \/ QualifyReferral(p) \/ ReadRewardBalance(p) \/ Rollback(p)
           \/ CommitPlace(p) \/ CommitCancel(p) \/ CommitAssign(p)
           \/ CommitComplete(p) \/ CommitQualifying(p) \/ CommitFail(p)
           \/ CommitReconcile(p)
  <1>1. PICK p \in Procs :
          \/ \E o \in Orders, cart \in Carts, redeem \in BOOLEAN :
               BeginPlace(p, o, cart, redeem)
          \/ \E o \in Orders : BeginCancel(p, o)
          \/ \E o \in Orders, d \in Drivers : BeginAssign(p, o, d)
          \/ \E o \in Orders : \E k \in DOMAIN delivery[o] :
               \/ \E form \in Forms, refill \in Products \cup {Nobody} :
                    BeginComplete(p, o, k, form, refill)
               \/ BeginFail(p, o, k)
               \/ BeginReconcile(p, o, k)
          \/ QualifyReferral(p) \/ ReadRewardBalance(p) \/ Rollback(p)
          \/ CommitPlace(p) \/ CommitCancel(p) \/ CommitAssign(p)
          \/ CommitComplete(p) \/ CommitQualifying(p) \/ CommitFail(p)
          \/ CommitReconcile(p)
    BY DEF Next
  <1>2. ASSUME NEW o \in Orders, NEW cart \in Carts, NEW redeem \in BOOLEAN,
               BeginPlace(p, o, cart, redeem)
        PROVE  \E u : Begin(p, u) /\ u.op \notin {"counted", "granting"}
    BY <1>2 DEF BeginPlace
  <1>3. ASSUME NEW o \in Orders, BeginCancel(p, o)
        PROVE  \E u : Begin(p, u) /\ u.op \notin {"counted", "granting"}
    BY <1>3 DEF BeginCancel
  <1>4. ASSUME NEW o \in Orders, NEW d \in Drivers, BeginAssign(p, o, d)
        PROVE  \E u : Begin(p, u) /\ u.op \notin {"counted", "granting"}
    BY <1>4 DEF BeginAssign
  <1>5. ASSUME NEW o \in Orders, NEW k \in DOMAIN delivery[o],
               \/ \E form \in Forms, refill \in Products \cup {Nobody} :
                    BeginComplete(p, o, k, form, refill)
               \/ BeginFail(p, o, k)
               \/ BeginReconcile(p, o, k)
        PROVE  \E u : Begin(p, u) /\ u.op \notin {"counted", "granting"}
    <2>1. ASSUME NEW form \in Forms, NEW refill \in Products \cup {Nobody},
                 BeginComplete(p, o, k, form, refill)
          PROVE  \E u : Begin(p, u) /\ u.op \notin {"counted", "granting"}
      BY <2>1 DEF BeginComplete
    <2>2. CASE BeginFail(p, o, k)
      BY <2>2 DEF BeginFail
    <2>3. CASE BeginReconcile(p, o, k)
      BY <2>3 DEF BeginReconcile
    <2> QED
      BY <1>5, <2>1, <2>2, <2>3
  <1>6. CASE \E o \in Orders, cart \in Carts, redeem \in BOOLEAN :
               BeginPlace(p, o, cart, redeem)
    BY <1>2, <1>6
  <1>7. CASE \E o \in Orders : BeginCancel(p, o)
    BY <1>3, <1>7
  <1>8. CASE \E o \in Orders, d \in Drivers : BeginAssign(p, o, d)
    BY <1>4, <1>8
  <1>9. CASE \E o \in Orders : \E k \in DOMAIN delivery[o] :
               \/ \E form \in Forms, refill \in Products \cup {Nobody} :
                    BeginComplete(p, o, k, form, refill)
               \/ BeginFail(p, o, k)
               \/ BeginReconcile(p, o, k)
    BY <1>5, <1>9
  <1>10. CASE \/ QualifyReferral(p) \/ ReadRewardBalance(p) \/ Rollback(p)
              \/ CommitPlace(p) \/ CommitCancel(p) \/ CommitAssign(p)
              \/ CommitComplete(p) \/ CommitQualifying(p) \/ CommitFail(p)
              \/ CommitReconcile(p)
    BY <1>10
  <1> QED
    BY <1>1, <1>6, <1>7, <1>8, <1>9, <1>10

\* Every step has one of the effects.
LEMMA StepHasEffect ==
  ASSUME DispatchInv, Next
  PROVE  Effect
  <1> USE DEF DispatchInv
  <1>1. PICK p \in Procs :
          \/ UNCHANGED <<order, delivery>>
          \/ CommitPlace(p) \/ CommitCancel(p) \/ CommitAssign(p)
          \/ CommitComplete(p) \/ CommitQualifying(p) \/ CommitFail(p)
          \/ CommitReconcile(p)
    <2>1. PICK p \in Procs :
            \/ \E u : Begin(p, u)
            \/ QualifyReferral(p) \/ ReadRewardBalance(p) \/ Rollback(p)
            \/ CommitPlace(p) \/ CommitCancel(p) \/ CommitAssign(p)
            \/ CommitComplete(p) \/ CommitQualifying(p) \/ CommitFail(p)
            \/ CommitReconcile(p)
      BY StepCases
    <2>2. \/ \E u : Begin(p, u)
          \/ QualifyReferral(p) \/ ReadRewardBalance(p) \/ Rollback(p)
          => UNCHANGED <<order, delivery>>
      BY DEF Begin, QualifyReferral, ReadRewardBalance, Rollback
    <2> QED
      BY <2>1, <2>2
  <1> DEFINE t == txn[p]
             o == t.order
             k == t.attempt
  <1>2. /\ t # Idle => o \in Orders
        /\ t.op \in Completing \cup {"fail", "reconcile"} =>
             k \in DOMAIN delivery[o]
    BY TxnTypes DEF TypeInv, AttemptsExist
  <1>3. \A x \in Orders : delivery[x] \in Seq(Delivery) /\ order[x] \in Order
    BY DEF TypeInv, TypeOK
  <1>4. CASE UNCHANGED <<order, delivery>>
    BY <1>4 DEF Effect
  <1>5. CASE CommitPlace(p)
    <2>1. o \in Orders /\ order[o].status = "NONE" /\ delivery' = delivery
      BY <1>2, <1>5 DEF CommitPlace, Idle
    <2>2. SetsOrder(o, "PENDING")
      BY <1>5, <2>1 DEF CommitPlace, SetsOrder, TypeInv, TypeOK
    <2> QED
      BY <2>1, <2>2 DEF Effect, PlaceEffect
  <1>6. CASE CommitCancel(p)
    <2>1. /\ o \in Orders /\ delivery' = delivery
          /\ order[o].status \in CancelAllowed \ Terminal
          /\ order' = [order EXCEPT ![o].status = "CANCELLED"]
      BY <1>2, <1>6 DEF CommitCancel, OrderStill, ReadsAllow, Idle
    <2>2. SetsOrder(o, "CANCELLED")
      BY <1>3, <2>1 DEF SetsOrder, TypeInv, TypeOK, Order
    <2> QED
      BY <2>1, <2>2 DEF Effect, CancelEffect
  <1>7. CASE CommitAssign(p)
    <2>1. t.status \in Assignable /\ ~t.reuse
      BY <1>7 DEF CommitAssign, ReadsAllow
    <2> QED
      BY <1>7, <2>1, AssignHasEffect DEF Effect
  <1>8. CASE CommitComplete(p) \/ CommitQualifying(p)
    <2>1. /\ t.op \in Completing /\ t.status \in OnTheRoad
          /\ DeliveryStill(o, k, t.status)
          /\ CompleteWrites(t)
      BY <1>8 DEF CommitComplete, CommitQualifying, CanComplete, Completing,
                  ReadsAllow, HeldStill, Referring
    <2> QED
      BY <2>1, CompleteHasEffect DEF Effect
  <1>9. CASE CommitFail(p)
    <2>1. t.status \in OnTheRoad
      BY <1>9 DEF CommitFail, ReadsAllow
    <2> QED
      BY <1>9, <2>1, FailHasEffect DEF Effect
  <1>10. CASE CommitReconcile(p)
    BY <1>10, ReconcileHasEffect DEF Effect
  <1> QED
    BY <1>1, <1>4, <1>5, <1>6, <1>7, <1>8, <1>9, <1>10

-----------------------------------------------------------------------------
(* Orders and attempts agree after every effect.                           *)

\* OrderFollowsAttempts for one order.
Agrees(x) ==
  LET n == Len(delivery[x])
  IN  /\ \A k \in 1..n : k < n => delivery[x][k].status = "FAILED"
      /\ order[x].status \in Undispatched => n = 0
      /\ order[x].status \notin Undispatched =>
           n > 0 /\ delivery[x][n].status = order[x].status

\* Each effect keeps the agreement.
LEMMA EffectKeepsAgreement ==
  ASSUME TypeOK, OrderFollowsAttempts, Effect,
         CancelAllowed \subseteq {"PENDING", "CONFIRMED", "PROCESSING"}
  PROVE  OrderFollowsAttempts'
  <1>1. \A x \in Orders : delivery[x] \in Seq(Delivery) /\ Len(delivery[x]) \in Nat
    BY DEF TypeOK
  <1>2. CASE UNCHANGED <<order, delivery>>
    BY <1>2 DEF OrderFollowsAttempts
  <1>3. ASSUME NEW o \in Orders, PlaceEffect(o) \/ CancelEffect(o)
        PROVE  OrderFollowsAttempts'
    <2>1. /\ UNCHANGED delivery
          /\ order[o].status \in Undispatched
          /\ \A x \in Orders : x # o => order'[x].status = order[x].status
          /\ order'[o].status \in Undispatched
      BY <1>3 DEF PlaceEffect, CancelEffect, SetsOrder, Undispatched
    <2> QED
      BY <2>1 DEF OrderFollowsAttempts
  <1>4. ASSUME NEW o \in Orders, AssignEffect(o)
        PROVE  OrderFollowsAttempts'
    <2> DEFINE n == Len(delivery[o])
    <2>1. /\ SetsOrder(o, "ASSIGNED") /\ AddsAttempt(o)
          /\ order[o].status \in Assignable
      BY <1>4 DEF AssignEffect
    <2>2. \A i \in 1..n : delivery[o][i].status = "FAILED"
      <3>1. CASE order[o].status \in Undispatched
        BY <1>1, <3>1 DEF OrderFollowsAttempts
      <3>2. CASE order[o].status \notin Undispatched
        <4>1. order[o].status = "FAILED"
          BY <2>1, <3>2 DEF Assignable, Undispatched
        <4>2. n > 0 /\ delivery[o][n].status = "FAILED"
          BY <3>2, <4>1 DEF OrderFollowsAttempts
        <4> QED
          BY <1>1, <4>2 DEF OrderFollowsAttempts
      <3> QED
        BY <3>1, <3>2
    <2>3. /\ Len(delivery'[o]) = n + 1
          /\ \A i \in 1..(n + 1) : i < n + 1 => delivery'[o][i].status = "FAILED"
          /\ delivery'[o][n + 1].status = "ASSIGNED"
          /\ order'[o].status = "ASSIGNED"
      BY <1>1, <2>1, <2>2 DEF AddsAttempt, SetsOrder
    <2>4. \A x \in Orders : x # o => /\ delivery'[x] = delivery[x]
                                     /\ order'[x].status = order[x].status
      BY <2>1 DEF AddsAttempt, SetsOrder
    <2>5. ASSUME NEW x \in Orders PROVE Agrees(x)'
      <3>1. CASE x = o
        BY <1>1, <2>3, <3>1 DEF Agrees, Undispatched
      <3>2. CASE x # o
        <4>1. Agrees(x)
          BY DEF OrderFollowsAttempts, Agrees
        <4> QED
          BY <2>4, <3>2, <4>1 DEF Agrees
      <3> QED
        BY <3>1, <3>2
    <2> QED
      BY <2>5 DEF OrderFollowsAttempts, Agrees
  <1>5. ASSUME NEW o \in Orders, NEW k \in 1..Len(delivery[o]),
               CompleteEffect(o, k) \/ FailEffect(o, k)
        PROVE  OrderFollowsAttempts'
    <2> DEFINE n == Len(delivery[o])
    <2>1. PICK s \in {"DELIVERED", "FAILED"} :
            SetsOrder(o, s) /\ KeepsAttempts /\ SetsAttempt(o, k, s)
      BY <1>5 DEF CompleteEffect, FailEffect
    <2>2. delivery[o][k].status \in OnTheRoad
      BY <1>5 DEF CompleteEffect, FailEffect
    <2>a. \A i \in 1..n : i < n => delivery[o][i].status = "FAILED"
      BY DEF OrderFollowsAttempts
    <2>3. k = n /\ n > 0
      BY <1>1, <2>2, <2>a DEF OnTheRoad
    <2>4. /\ Len(delivery'[o]) = n
          /\ \A i \in 1..n : i < n => delivery'[o][i].status = "FAILED"
          /\ delivery'[o][n].status = s /\ order'[o].status = s
      BY <1>1, <2>1, <2>3, <2>a DEF SetsOrder, KeepsAttempts, SetsAttempt
    <2>5. \A x \in Orders :
            x # o => /\ Len(delivery'[x]) = Len(delivery[x])
                     /\ order'[x].status = order[x].status
                     /\ \A i \in 1..Len(delivery[x]) :
                          delivery'[x][i].status = delivery[x][i].status
      BY <2>1 DEF SetsOrder, KeepsAttempts, SetsAttempt
    <2>6. ASSUME NEW x \in Orders PROVE Agrees(x)'
      <3>1. CASE x = o
        BY <2>3, <2>4, <3>1 DEF Agrees, Undispatched
      <3>2. CASE x # o
        <4>1. Agrees(x)
          BY DEF OrderFollowsAttempts, Agrees
        <4> QED
          BY <1>1, <2>5, <3>2, <4>1 DEF Agrees
      <3> QED
        BY <3>1, <3>2
    <2> QED
      BY <2>6 DEF OrderFollowsAttempts, Agrees
  <1>6. ASSUME NEW o \in Orders, NEW k \in 1..Len(delivery[o]), ReconcileEffect(o, k)
        PROVE  OrderFollowsAttempts'
    <2>1. /\ UNCHANGED order
          /\ \A x \in Orders :
               /\ Len(delivery'[x]) = Len(delivery[x])
               /\ \A i \in 1..Len(delivery[x]) :
                    delivery'[x][i].status = delivery[x][i].status
      BY <1>6 DEF ReconcileEffect, KeepsAttempts, SetsAttempt
    <2>2. ASSUME NEW x \in Orders PROVE Agrees(x)'
      <3>1. Agrees(x)
        BY DEF OrderFollowsAttempts, Agrees
      <3> QED
        BY <1>1, <2>1, <3>1 DEF Agrees
    <2> QED
      BY <2>2 DEF OrderFollowsAttempts, Agrees
  <1> QED
    BY <1>2, <1>3, <1>4, <1>5, <1>6 DEF Effect

-----------------------------------------------------------------------------
(* What the open transactions have read and hold.                          *)

\* Opening a request whose reads allow it disturbs no completion in progress.
LEMMA BeginKeepsHeld ==
  ASSUME TypeInv, ReadsAllow, HeldStill, HeldApart,
         NEW p \in Procs, NEW t, Begin(p, t),
         t.op \notin {"counted", "granting"},
         t.op = "cancel" => t.status \in CancelAllowed \ Terminal,
         t.op = "assign" => t.status \in Assignable /\ ~t.reuse,
         t.op \in Completing \cup {"fail"} => t.status \in OnTheRoad
  PROVE  ReadsAllow' /\ HeldStill' /\ HeldApart'
  <1>1. \A q \in Procs : txn'[q] = IF q = p THEN t ELSE txn[q]
    BY DEF TypeInv, TypeOK, Begin
  <1>2. UNCHANGED delivery
    BY DEF Begin
  <1>3. ReadsAllow'
    BY <1>1 DEF ReadsAllow
  <1>4. HeldStill'
    BY <1>1, <1>2 DEF HeldStill, Referring, DeliveryStill
  <1>5. HeldApart'
    BY <1>1 DEF HeldApart, Referring
  <1> QED
    BY <1>3, <1>4, <1>5

\* Ending a request neither, if it leaves the attempts they hold alone.
LEMMA CloseKeepsHeld ==
  ASSUME TypeInv, ReadsAllow, HeldStill, HeldApart,
         NEW p \in Procs, Close(p),
         \A q \in Procs \ {p} :
           Referring(q) =>
             delivery'[txn[q].order][txn[q].attempt].status
               = delivery[txn[q].order][txn[q].attempt].status
  PROVE  ReadsAllow' /\ HeldStill' /\ HeldApart'
  <1>1. \A q \in Procs : txn'[q] = IF q = p THEN Idle ELSE txn[q]
    BY DEF TypeInv, TypeOK, Close
  <1>2. Idle.op = "idle"
    BY DEF Idle
  <1>3. ReadsAllow'
    BY <1>1, <1>2 DEF ReadsAllow, Completing
  <1>4. HeldStill'
    BY <1>1, <1>2 DEF HeldStill, Referring, DeliveryStill
  <1>5. HeldApart'
    BY <1>1, <1>2 DEF HeldApart, Referring
  <1> QED
    BY <1>3, <1>4, <1>5

\* A row that p is free to write is not the delivery of a completion in the
\* middle of its referral step.
LEMMA UnlockedDelivery ==
  ASSUME NEW p \in Procs, NEW q \in Procs \ {p}, Referring(q),
         NEW rows, Unlocked(p, rows)
  PROVE  <<"delivery", txn[q].order, txn[q].attempt>> \notin rows
  <1>1. <<"delivery", txn[q].order, txn[q].attempt>> \in CompletionRows(txn[q])
    BY DEF CompletionRows
  <1> QED
    BY <1>1 DEF Unlocked, Referring

\* Rewriting another attempt leaves the status of a held one alone.
LEMMA OtherAttemptKept ==
  ASSUME TypeInv, NEW q \in Procs, Referring(q), NEW o, NEW k, NEW s,
         SetsAttempt(o, k, s),
         txn[q].order # o \/ txn[q].attempt # k
  PROVE  delivery'[txn[q].order][txn[q].attempt].status
           = delivery[txn[q].order][txn[q].attempt].status
  <1>1. /\ txn[q].order \in Orders
        /\ txn[q].attempt \in DOMAIN delivery[txn[q].order]
    BY TxnTypes DEF TypeInv, AttemptsExist, Referring, Completing, Idle
  <1>2. delivery[txn[q].order] \in Seq(Delivery)
    BY <1>1 DEF TypeInv, TypeOK
  <1>3. txn[q].attempt \in 1..Len(delivery[txn[q].order])
    BY <1>1, <1>2
  <1> QED
    BY <1>1, <1>3 DEF SetsAttempt

\* Every handler's head reads what allows it to begin.
LEMMA BeginsKeepHeld ==
  ASSUME DispatchInv, CurrentForms, NEW p \in Procs,
         \/ \E o \in Orders, cart \in Carts, redeem \in BOOLEAN :
              BeginPlace(p, o, cart, redeem)
         \/ \E o \in Orders : BeginCancel(p, o)
         \/ \E o \in Orders, d \in Drivers : BeginAssign(p, o, d)
         \/ \E o \in Orders : \E k \in DOMAIN delivery[o] :
              \/ \E form \in Forms, refill \in Products \cup {Nobody} :
                   BeginComplete(p, o, k, form, refill)
              \/ BeginFail(p, o, k)
              \/ BeginReconcile(p, o, k)
  PROVE  ReadsAllow' /\ HeldStill' /\ HeldApart'
  <1> USE DEF DispatchInv
  <1>1. ASSUME NEW o \in Orders, NEW cart \in Carts, NEW redeem \in BOOLEAN,
               BeginPlace(p, o, cart, redeem)
        PROVE  ReadsAllow' /\ HeldStill' /\ HeldApart'
    BY <1>1, BeginKeepsHeld DEF BeginPlace, Completing
  <1>2. ASSUME NEW o \in Orders, BeginCancel(p, o)
        PROVE  ReadsAllow' /\ HeldStill' /\ HeldApart'
    BY <1>2, BeginKeepsHeld DEF BeginCancel, Completing
  <1>3. ASSUME NEW o \in Orders, NEW d \in Drivers, BeginAssign(p, o, d)
        PROVE  ReadsAllow' /\ HeldStill' /\ HeldApart'
    <2> DEFINE latest == Len(delivery[o])
               reuse == latest > 0 /\ Reusable(delivery[o][latest])
               t == [op |-> "assign", order |-> o, driver |-> d,
                     status |-> order[o].status, latest |-> latest,
                     reuse |-> reuse]
    <2>1. Begin(p, t)
      BY <1>3 DEF BeginAssign
    <2>2. order[o].status \in Assignable
      BY <1>3 DEF BeginAssign, CurrentForms, Assignable
    <2>3. ~reuse
      <3>1. delivery[o] \in Seq(Delivery)
        BY DEF TypeInv, TypeOK
      <3>2. latest > 0 => delivery[o][latest].status = "FAILED"
        BY <2>2, <3>1 DEF OrderFollowsAttempts, Assignable, Undispatched
      <3> QED
        BY <3>2 DEF Reusable
    <2> HIDE DEF reuse
    <2>4. /\ t.op = "assign" /\ t.status = order[o].status /\ ~t.reuse
      BY <2>3
    <2> HIDE DEF t
    <2> QED
      BY <2>1, <2>2, <2>4, BeginKeepsHeld DEF Completing
  <1>4. ASSUME NEW o \in Orders, NEW k \in DOMAIN delivery[o],
               NEW form \in Forms, NEW refill \in Products \cup {Nobody},
               BeginComplete(p, o, k, form, refill)
        PROVE  ReadsAllow' /\ HeldStill' /\ HeldApart'
    BY <1>4, BeginKeepsHeld DEF BeginComplete, Completing
  <1>5. ASSUME NEW o \in Orders, NEW k \in DOMAIN delivery[o], BeginFail(p, o, k)
        PROVE  ReadsAllow' /\ HeldStill' /\ HeldApart'
    BY <1>5, BeginKeepsHeld DEF BeginFail, Completing
  <1>6. ASSUME NEW o \in Orders, NEW k \in DOMAIN delivery[o], BeginReconcile(p, o, k)
        PROVE  ReadsAllow' /\ HeldStill' /\ HeldApart'
    BY <1>6, BeginKeepsHeld DEF BeginReconcile, Completing
  <1> QED
    BY <1>1, <1>2, <1>3, <1>4, <1>5, <1>6

\* Every commit leaves the attempts that other completions hold alone.
LEMMA CommitsKeepHeld ==
  ASSUME DispatchInv, NEW p \in Procs,
         \/ CommitPlace(p) \/ CommitCancel(p) \/ CommitAssign(p)
         \/ CommitComplete(p) \/ QualifyReferral(p) \/ ReadRewardBalance(p)
         \/ CommitQualifying(p) \/ CommitFail(p) \/ CommitReconcile(p)
         \/ Rollback(p)
  PROVE  ReadsAllow' /\ HeldStill' /\ HeldApart'
  <1> USE DEF DispatchInv
  <1> DEFINE t == txn[p]
             o == t.order
             k == t.attempt
             KeepsHeld ==
               \A q \in Procs \ {p} :
                 Referring(q) =>
                   delivery'[txn[q].order][txn[q].attempt].status
                     = delivery[txn[q].order][txn[q].attempt].status
  <1>1. CASE CommitPlace(p) \/ CommitCancel(p) \/ Rollback(p)
    BY <1>1, CloseKeepsHeld DEF CommitPlace, CommitCancel, Rollback
  <1>2. CASE CommitAssign(p)
    <2>1. AddsAttempt(o)
      BY <1>2, AssignHasEffect DEF CommitAssign, ReadsAllow, AssignEffect
    <2>2. KeepsHeld
      <3> SUFFICES ASSUME NEW q \in Procs \ {p}, Referring(q)
                   PROVE  delivery'[txn[q].order][txn[q].attempt].status
                            = delivery[txn[q].order][txn[q].attempt].status
        OBVIOUS
      <3>1. /\ txn[q].order \in Orders
            /\ txn[q].attempt \in DOMAIN delivery[txn[q].order]
        BY TxnTypes DEF TypeInv, AttemptsExist, Referring, Completing, Idle
      <3>2. delivery[txn[q].order] \in Seq(Delivery)
        BY <3>1 DEF TypeInv, TypeOK
      <3>3. txn[q].attempt \in 1..Len(delivery[txn[q].order])
        BY <3>1, <3>2
      <3> QED
        BY <2>1, <3>1, <3>3 DEF AddsAttempt
    <2>3. Close(p)
      BY <1>2 DEF CommitAssign
    <2> QED
      BY <2>2, <2>3, CloseKeepsHeld
  <1>3. CASE CommitComplete(p)
    <2>1. /\ t.op \in Completing /\ DeliveryStill(o, k, t.status)
          /\ CompleteWrites(t) /\ Close(p)
          /\ Unlocked(p, CompletionRows(t))
      BY <1>3 DEF CommitComplete, CanComplete, Completing
    <2>2. SetsAttempt(o, k, "DELIVERED")
      BY <2>1, CompleteHasEffect DEF ReadsAllow, CompleteEffect
    <2>3. <<"delivery", o, k>> \in CompletionRows(t)
      BY DEF CompletionRows
    <2>4. KeepsHeld
      BY <2>1, <2>2, <2>3, UnlockedDelivery, OtherAttemptKept
    <2> QED
      BY <2>1, <2>4, CloseKeepsHeld
  <1>4. CASE QualifyReferral(p)
    <2> DEFINE n == Cardinality(Qualified(Referrer[Owner[o]])) + 1
    <2>1. /\ t.op = "complete"
          /\ DeliveryStill(o, k, t.status)
          /\ Unlocked(p, CompletionRows(t))
          /\ txn' = [txn EXCEPT ![p].op = "counted", ![p].count = n]
          /\ UNCHANGED delivery
      BY <1>4 DEF QualifyReferral, CanComplete
    <2>2. t \in Delivering
      BY <2>1, TxnTypes DEF TypeInv, Completing
    <2> HIDE DEF n
    <2>3. /\ txn'[p].op = "counted"
          /\ txn'[p].order = o /\ txn'[p].attempt = k /\ txn'[p].status = t.status
          /\ \A q \in Procs \ {p} : txn'[q] = txn[q]
      BY <2>1, <2>2 DEF TypeInv, TypeOK, Delivering
    <2>4. ReadsAllow'
      BY <2>1, <2>3 DEF ReadsAllow, Completing
    <2>5. HeldStill'
      <3>1. ASSUME NEW q \in Procs, Referring(q)'
            PROVE  DeliveryStill(txn[q].order, txn[q].attempt, txn[q].status)'
        <4>1. CASE q = p
          BY <2>1, <2>3, <4>1 DEF DeliveryStill
        <4>2. CASE q # p
          BY <2>1, <2>3, <3>1, <4>2 DEF HeldStill, Referring, DeliveryStill
        <4> QED
          BY <4>1, <4>2
      <3> QED
        BY <3>1 DEF HeldStill
    <2>6. \A q \in Procs \ {p} :
            Referring(q) => txn[q].order # o \/ txn[q].attempt # k
      <3>1. <<"delivery", o, k>> \in CompletionRows(t)
        BY DEF CompletionRows
      <3> QED
        BY <2>1, <3>1, UnlockedDelivery
    <2>7. HeldApart'
      BY <2>3, <2>6 DEF HeldApart, Referring
    <2> QED
      BY <2>4, <2>5, <2>7
  <1>5. CASE ReadRewardBalance(p)
    <2> DEFINE n == reward[Referrer[Owner[o]]].earned
    <2>1. /\ t.op = "counted"
          /\ txn' = [txn EXCEPT ![p].op = "granting", ![p].earned = n]
          /\ UNCHANGED delivery
      BY <1>5 DEF ReadRewardBalance
    <2>2. t \in Delivering
      BY <2>1, TxnTypes DEF TypeInv, Completing
    <2> HIDE DEF n
    <2>3. /\ txn'[p].op = "granting"
          /\ txn'[p].order = o /\ txn'[p].attempt = k /\ txn'[p].status = t.status
          /\ \A q \in Procs \ {p} : txn'[q] = txn[q]
      BY <2>1, <2>2 DEF TypeInv, TypeOK, Delivering
    <2>4. ReadsAllow'
      BY <2>1, <2>3 DEF ReadsAllow, Completing
    <2>5. \A q \in Procs : /\ Referring(q)' => Referring(q)
                           /\ txn'[q].order = txn[q].order
                           /\ txn'[q].attempt = txn[q].attempt
                           /\ txn'[q].status = txn[q].status
      BY <2>1, <2>3 DEF Referring
    <2>6. HeldStill'
      <3>1. ASSUME NEW q \in Procs, Referring(q)'
            PROVE  DeliveryStill(txn[q].order, txn[q].attempt, txn[q].status)'
        <4>1. DeliveryStill(txn[q].order, txn[q].attempt, txn[q].status)
          BY <2>5, <3>1 DEF HeldStill
        <4> QED
          BY <2>1, <2>5, <4>1 DEF DeliveryStill
      <3> QED
        BY <3>1 DEF HeldStill
    <2>7. HeldApart'
      BY <2>5 DEF HeldApart
    <2> QED
      BY <2>4, <2>6, <2>7
  <1>6. CASE CommitQualifying(p)
    <2>1. t.op = "granting" /\ CompleteWrites(t) /\ Close(p)
      BY <1>6 DEF CommitQualifying
    <2>2. Referring(p) /\ t.op \in Completing /\ DeliveryStill(o, k, t.status)
      BY <2>1 DEF Referring, Completing, HeldStill
    <2>3. SetsAttempt(o, k, "DELIVERED")
      BY <2>1, <2>2, CompleteHasEffect DEF ReadsAllow, CompleteEffect
    <2>4. KeepsHeld
      BY <2>2, <2>3, OtherAttemptKept DEF HeldApart
    <2> QED
      BY <2>1, <2>4, CloseKeepsHeld
  <1>7. CASE CommitFail(p)
    <2>1. /\ t.op = "fail" /\ Close(p)
          /\ Unlocked(p, {<<"delivery", o, k>>, <<"order", o>>})
      BY <1>7 DEF CommitFail
    <2>2. SetsAttempt(o, k, "FAILED")
      BY <1>7, <2>1, FailHasEffect DEF ReadsAllow, FailEffect
    <2>3. <<"delivery", o, k>> \in {<<"delivery", o, k>>, <<"order", o>>}
      OBVIOUS
    <2>4. KeepsHeld
      BY <2>1, <2>2, <2>3, UnlockedDelivery, OtherAttemptKept
    <2> QED
      BY <2>1, <2>4, CloseKeepsHeld
  <1>8. CASE CommitReconcile(p)
    <2>1. Close(p)
      BY <1>8 DEF CommitReconcile
    <2>2. SetsAttempt(o, k, delivery[o][k].status)
      BY <1>8, ReconcileHasEffect DEF ReconcileEffect
    <2>3. KeepsHeld
      <3> SUFFICES ASSUME NEW q \in Procs \ {p}, Referring(q)
                   PROVE  delivery'[txn[q].order][txn[q].attempt].status
                            = delivery[txn[q].order][txn[q].attempt].status
        OBVIOUS
      <3>1. /\ txn[q].order \in Orders
            /\ txn[q].attempt \in DOMAIN delivery[txn[q].order]
        BY TxnTypes DEF TypeInv, AttemptsExist, Referring, Completing, Idle
      <3>2. delivery[txn[q].order] \in Seq(Delivery)
        BY <3>1 DEF TypeInv, TypeOK
      <3>3. txn[q].attempt \in 1..Len(delivery[txn[q].order])
        BY <3>1, <3>2
      <3> QED
        BY <2>2, <3>1, <3>3 DEF SetsAttempt
    <2> QED
      BY <2>1, <2>3, CloseKeepsHeld
  <1> QED
    BY <1>1, <1>2, <1>3, <1>4, <1>5, <1>6, <1>7, <1>8

-----------------------------------------------------------------------------
(* The theorems.                                                           *)

\* At first there are no attempts and no open requests.
LEMMA InitDispatch == Init => DispatchInv
  <1> SUFFICES ASSUME Init PROVE DispatchInv
    OBVIOUS
  <1>1. TypeInv
    BY InitTypes
  <1>2. OrderFollowsAttempts
    BY DEF Init, OrderFollowsAttempts, NoOrder, Undispatched
  <1>3. ReadsAllow /\ HeldStill /\ HeldApart
    BY DEF Init, ReadsAllow, HeldStill, HeldApart, Referring, Idle, Completing
  <1> QED
    BY <1>1, <1>2, <1>3 DEF DispatchInv

\* Every step keeps the invariant when assign forms are current.
LEMMA StepKeepsDispatch ==
  ASSUME CurrentForms, DispatchInv, [Next]_vars
  PROVE  DispatchInv'
  <1>1. TypeInv'
    BY StepKeepsTypes DEF DispatchInv
  <1>2. CASE UNCHANGED vars
    <2>1. OrderFollowsAttempts'
      BY <1>2 DEF vars, DispatchInv, OrderFollowsAttempts
    <2>2. ReadsAllow' /\ HeldStill' /\ HeldApart'
      BY <1>2 DEF vars, DispatchInv, ReadsAllow, HeldStill, HeldApart, Referring,
                  DeliveryStill
    <2> QED
      BY <1>1, <2>1, <2>2 DEF DispatchInv
  <1>3. CASE Next
    <2>1. OrderFollowsAttempts'
      BY <1>3, StepHasEffect, EffectKeepsAgreement
      DEF DispatchInv, TypeInv, CurrentForms
    <2>2. ReadsAllow' /\ HeldStill' /\ HeldApart'
      BY <1>3, BeginsKeepHeld, CommitsKeepHeld DEF Next
    <2> QED
      BY <1>1, <2>1, <2>2 DEF DispatchInv
  <1> QED
    BY <1>2, <1>3

\* The invariant holds in every reachable state.
LEMMA DispatchInvariant ==
  ASSUME CurrentForms
  PROVE  Spec => []DispatchInv
  <1>1. DispatchInv /\ [Next]_vars => DispatchInv'
    BY StepKeepsDispatch
  <1> QED
    BY <1>1, InitDispatch, PTL DEF Spec

\* The orders table and the deliveries table agree, whatever requests overlap:
\* five services write them, two of them without a condition on the order row.
THEOREM AgreementHolds ==
  ASSUME CurrentForms
  PROVE  Spec => []OrderFollowsAttempts
  <1>1. DispatchInv => OrderFollowsAttempts
    BY DEF DispatchInv
  <1> QED
    BY <1>1, DispatchInvariant, PTL

\* An order never has two attempts on their way.
THEOREM OneActive ==
  ASSUME CurrentForms
  PROVE  Spec => []OneActiveDelivery
  <1>1. DispatchInv => OneActiveDelivery
    <2> SUFFICES ASSUME DispatchInv, NEW o \in Orders
                 PROVE  Cardinality(Active(o)) <= 1
      BY DEF OneActiveDelivery
    <2> DEFINE n == Len(delivery[o])
    <2>1. delivery[o] \in Seq(Delivery)
      BY DEF DispatchInv, TypeInv, TypeOK
    <2>2. Active(o) \subseteq {n}
      BY <2>1 DEF Active, OnTheRoad, DispatchInv, OrderFollowsAttempts
    <2>3. IsFiniteSet({n}) /\ Cardinality({n}) = 1
      BY FS_Singleton
    <2> QED
      BY <2>2, <2>3, FS_Subset
  <1> QED
    BY <1>1, DispatchInvariant, PTL

\* A delivered or cancelled order keeps its status for ever.
THEOREM TerminalStatuses ==
  ASSUME CurrentForms
  PROVE  Spec => TerminalOrders
  <1> DEFINE Kept == \A o \in Orders : order[o].status \in Terminal =>
                                         order'[o].status = order[o].status
  <1>1. DispatchInv /\ [Next]_vars => [Kept]_vars
    <2> SUFFICES ASSUME DispatchInv, Next PROVE Kept
      OBVIOUS
    <2>1. Effect
      BY StepHasEffect
    <2>2. \A x \in Orders : Len(delivery[x]) \in Nat
      BY DEF DispatchInv, TypeInv, TypeOK
    <2>3. ASSUME NEW o \in Orders, NEW k \in 1..Len(delivery[o]),
                 delivery[o][k].status \in OnTheRoad
          PROVE  order[o].status \notin Terminal
      BY <2>2, <2>3 DEF DispatchInv, OrderFollowsAttempts, OnTheRoad, Terminal,
                        Undispatched
    <2>4. \A o \in Orders : order[o].status \in Terminal =>
            /\ order[o].status # "NONE"
            /\ order[o].status \notin Assignable
      BY DEF Terminal, Assignable
    <2> QED
      BY <2>1, <2>3, <2>4 DEF Effect, PlaceEffect, CancelEffect, AssignEffect,
         CompleteEffect, FailEffect, ReconcileEffect, SetsOrder
  <1> QED
    BY <1>1, DispatchInvariant, PTL DEF Spec, TerminalOrders

-----------------------------------------------------------------------------
(* The fulfilment services implement OrderLifecycle: every step of theirs  *)
(* takes one order one step along its lifecycle, or leaves all as it was.  *)

\* The abstract variables, as functions of the two tables.
Statuses == [o \in Orders |-> order[o].status]
Attempts == [o \in Orders |-> Len(delivery[o])]
Latches == [o \in Orders |-> Latched(o)]

\* The latched attempts are indices of the attempts there are.
LEMMA LatchedSets ==
  ASSUME TypeOK, TypeOK', NEW x \in Orders
  PROVE  /\ Latched(x) = {k \in 1..Len(delivery[x]) :
                            delivery[x][k].requiresReconciliation}
         /\ Latched(x)' = {k \in 1..Len(delivery'[x]) :
                             delivery'[x][k].requiresReconciliation}
  <1>1. delivery[x] \in Seq(Delivery) /\ delivery'[x] \in Seq(Delivery)
    BY DEF TypeOK
  <1>2. /\ DOMAIN delivery[x] = 1..Len(delivery[x])
        /\ DOMAIN delivery'[x] = 1..Len(delivery'[x])
    BY <1>1
  <1> QED
    BY <1>2 DEF Latched

\* How the effects of a step look in the abstract variables.
LEMMA StatusesSet ==
  ASSUME NEW o \in Orders, NEW s, SetsOrder(o, s)
  PROVE  Statuses' = [Statuses EXCEPT ![o] = s]
  BY DEF Statuses, SetsOrder

\* A step that adds no attempt leaves the abstract count alone.
LEMMA AttemptsKept ==
  ASSUME KeepsAttempts
  PROVE  Attempts' = Attempts
  BY DEF Attempts, KeepsAttempts

\* A step that writes no latch leaves the abstract latches alone.
LEMMA LatchesKept ==
  ASSUME TypeOK, TypeOK', KeepsAttempts, KeepsLatches
  PROVE  Latches' = Latches
  <1>1. \A x \in Orders : Latched(x)' = Latched(x)
    BY LatchedSets DEF KeepsAttempts, KeepsLatches
  <1> QED
    BY <1>1 DEF Latches

\* Writing one latch adds or removes one abstract latch.
LEMMA LatchSet ==
  ASSUME TypeOK, TypeOK', KeepsAttempts, NEW o \in Orders,
         NEW k \in 1..Len(delivery[o]), NEW b \in BOOLEAN, SetsLatch(o, k, b)
  PROVE  Latches' = [Latches EXCEPT ![o] = IF b THEN @ \cup {k} ELSE @ \ {k}]
  <1>1. \A x \in Orders : x # o => Latched(x)' = Latched(x)
    BY LatchedSets DEF KeepsAttempts, SetsLatch
  <1>2. Latched(o)' = IF b THEN Latched(o) \cup {k} ELSE Latched(o) \ {k}
    BY LatchedSets DEF KeepsAttempts, SetsLatch
  <1> QED
    BY <1>1, <1>2 DEF Latches

-----------------------------------------------------------------------------

\* Each effect on the tables is one abstract action, or none.
LEMMA EffectIsAbstractStep ==
  ASSUME DispatchInv, DispatchInv', Effect
  PROVE  [Lifecycle!LifecycleNext]_(Lifecycle!lifecycleVars)
  <1> DEFINE Abstract(o) ==
        \/ Lifecycle!Place(o) \/ Lifecycle!Cancel(o) \/ Lifecycle!Dispatch(o)
        \/ Lifecycle!Deliver(o) \/ Lifecycle!Fail(o) \/ Lifecycle!Reconcile(o)
  <1>a. TypeOK /\ TypeOK'
    BY DEF DispatchInv, TypeInv
  <1>b. \A x \in Orders : Len(delivery[x]) \in Nat /\ delivery[x] \in Seq(Delivery)
    BY <1>a DEF TypeOK
  <1>c. UNCHANGED delivery => UNCHANGED <<Attempts, Latches>>
    BY DEF Attempts, Latches, Latched
  <1>d. \A o \in Orders : \A k \in 1..Len(delivery[o]) :
          delivery[o][k].status \in OnTheRoad =>
            k = Len(delivery[o]) /\ order[o].status \in OnTheRoad
    BY <1>b DEF DispatchInv, OrderFollowsAttempts, OnTheRoad, Undispatched
  <1>1. CASE UNCHANGED <<order, delivery>>
    <2>1. UNCHANGED Statuses
      BY <1>1 DEF Statuses
    <2> QED
      BY <1>1, <1>c, <2>1 DEF Lifecycle!lifecycleVars, Statuses, Attempts, Latches
  <1>2. ASSUME NEW o \in Orders, PlaceEffect(o)
        PROVE  Abstract(o)
    <2>1. /\ Statuses[o] = "NONE"
          /\ Statuses' = [Statuses EXCEPT ![o] = "PENDING"]
          /\ UNCHANGED <<Attempts, Latches>>
      BY <1>2, <1>c, StatusesSet DEF PlaceEffect, Statuses
    <2> QED
      BY <2>1 DEF Lifecycle!Place, Statuses, Attempts, Latches
  <1>3. ASSUME NEW o \in Orders, CancelEffect(o)
        PROVE  Abstract(o)
    <2>1. /\ Statuses[o] \in CancelAllowed \ Terminal
          /\ Statuses' = [Statuses EXCEPT ![o] = "CANCELLED"]
          /\ UNCHANGED <<Attempts, Latches>>
      BY <1>3, <1>c, StatusesSet DEF CancelEffect, Statuses
    <2> QED
      BY <2>1 DEF Lifecycle!Cancel, Statuses, Attempts, Latches, Terminal
  <1>4. ASSUME NEW o \in Orders, AssignEffect(o)
        PROVE  Abstract(o)
    <2>1. /\ Statuses[o] \in Assignable
          /\ Statuses' = [Statuses EXCEPT ![o] = "ASSIGNED"]
          /\ AddsAttempt(o)
      BY <1>4, StatusesSet DEF AssignEffect, Statuses
    <2>2. Attempts' = [Attempts EXCEPT ![o] = @ + 1]
      BY <2>1 DEF AddsAttempt, Attempts
    <2>3. Latches' = Latches
      <3> DEFINE n == Len(delivery[o])
      <3>1. /\ n \in Nat
            /\ Len(delivery'[o]) = n + 1
            /\ \A i \in 1..n : delivery'[o][i] = delivery[o][i]
            /\ ~delivery'[o][n + 1].requiresReconciliation
        BY <1>b, <2>1 DEF AddsAttempt
      <3>2. Latched(o)' = Latched(o)
        <4>1. /\ Latched(o) = {k \in 1..n : delivery[o][k].requiresReconciliation}
              /\ Latched(o)' = {k \in 1..(n + 1) :
                                  delivery'[o][k].requiresReconciliation}
          BY <1>a, <3>1, LatchedSets
        <4> HIDE DEF n
        <4>2. \A k \in 1..(n + 1) : k \in 1..n \/ k = n + 1
          BY <3>1
        <4>3. 1..n \subseteq 1..(n + 1)
          BY <3>1
        <4>4. \A k \in 1..(n + 1) :
                delivery'[o][k].requiresReconciliation <=>
                  k \in 1..n /\ delivery[o][k].requiresReconciliation
          BY <3>1, <4>2
        <4> QED
          BY <4>1, <4>3, <4>4
      <3>3. \A x \in Orders : x # o => Latched(x)' = Latched(x)
        BY <1>a, <2>1, LatchedSets DEF AddsAttempt
      <3> QED
        BY <3>2, <3>3 DEF Latches
    <2> QED
      BY <2>1, <2>2, <2>3 DEF Lifecycle!Dispatch, Statuses, Attempts, Latches,
                              Assignable
  <1>5. ASSUME NEW o \in Orders, NEW k \in 1..Len(delivery[o]), CompleteEffect(o, k)
        PROVE  Abstract(o)
    <2>1. /\ Statuses[o] \in OnTheRoad
          /\ Statuses' = [Statuses EXCEPT ![o] = "DELIVERED"]
          /\ UNCHANGED <<Attempts, Latches>>
      BY <1>5, <1>a, <1>d, StatusesSet, AttemptsKept, LatchesKept
      DEF CompleteEffect, Statuses
    <2> QED
      BY <2>1 DEF Lifecycle!Deliver, Statuses, Attempts, Latches, OnTheRoad
  <1>6. ASSUME NEW o \in Orders, NEW k \in 1..Len(delivery[o]), FailEffect(o, k)
        PROVE  Abstract(o)
    <2>1. k = Attempts[o]
      BY <1>6, <1>d DEF FailEffect, Attempts
    <2>2. /\ Statuses[o] \in OnTheRoad
          /\ Statuses' = [Statuses EXCEPT ![o] = "FAILED"]
          /\ UNCHANGED Attempts
      BY <1>6, <1>d, StatusesSet, AttemptsKept DEF FailEffect, Statuses
    <2>3. Latches' = [Latches EXCEPT ![o] = @ \cup {k}]
      BY <1>6, <1>a, LatchSet DEF FailEffect
    <2> QED
      BY <2>1, <2>2, <2>3 DEF Lifecycle!Fail, Statuses, Attempts, Latches, OnTheRoad
  <1>7. ASSUME NEW o \in Orders, NEW k \in 1..Len(delivery[o]), ReconcileEffect(o, k)
        PROVE  Abstract(o) \/ UNCHANGED <<Statuses, Attempts, Latches>>
    <2>1. UNCHANGED <<Statuses, Attempts>>
      BY <1>7, AttemptsKept DEF ReconcileEffect, Statuses
    <2>2. Latches' = [Latches EXCEPT ![o] = @ \ {k}]
      BY <1>7, <1>a, LatchSet DEF ReconcileEffect
    <2>3. CASE k \in Latches[o]
      BY <2>1, <2>2, <2>3 DEF Lifecycle!Reconcile, Statuses, Attempts, Latches
    <2>4. CASE k \notin Latches[o]
      <3>1. Latches' = Latches
        BY <2>2, <2>4 DEF Latches
      <3> QED
        BY <2>1, <3>1
    <2> QED
      BY <2>3, <2>4
  <1>8. UNCHANGED <<Statuses, Attempts, Latches>> =>
          UNCHANGED Lifecycle!lifecycleVars
    BY DEF Lifecycle!lifecycleVars, Statuses, Attempts, Latches
  <1>9. \A o \in Orders : Abstract(o) => Lifecycle!LifecycleNext
    BY DEF Lifecycle!LifecycleNext
  <1> HIDE DEF Abstract
  <1> QED
    BY <1>1, <1>2, <1>3, <1>4, <1>5, <1>6, <1>7, <1>8, <1>9 DEF Effect

\* Overlapping requests, stale reads and unconditional updates included, every
\* order follows the lifecycle that OrderLifecycle describes.
THEOREM LifecycleImplemented ==
  ASSUME CurrentForms
  PROVE  Spec => ImplementsLifecycle
  <1>1. Init => Lifecycle!LifecycleInit
    BY DEF Init, Lifecycle!LifecycleInit, NoOrder, Latched
  <1>2. DispatchInv /\ DispatchInv' /\ [Next]_vars
          => [Lifecycle!LifecycleNext]_(Lifecycle!lifecycleVars)
    <2>1. CASE UNCHANGED vars
      BY <2>1, EffectIsAbstractStep DEF vars, Effect
    <2>2. CASE Next
      BY <2>2, StepHasEffect, EffectIsAbstractStep
    <2> QED
      BY <2>1, <2>2
  <1> QED
    BY <1>1, <1>2, DispatchInvariant, PTL
    DEF Spec, ImplementsLifecycle, Lifecycle!LifecycleSpec

=============================================================================
