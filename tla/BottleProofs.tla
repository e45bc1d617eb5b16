---------------------------- MODULE BottleProofs ----------------------------
(***************************************************************************)
(* Bottles, for every value of the constants of Fulfilment: none is made   *)
(* or lost, a van holds what its attempts answer for, a customer holds no  *)
(* more than is outstanding, and the account agrees with the stock.        *)
(*                                                                         *)
(* These are equations between a sum over rows and a number that other     *)
(* statements write, so each commit is reduced to the summands it changes  *)
(* (SumChange, SumRemove).                                                 *)
(***************************************************************************)
EXTENDS TransactionProofs

-----------------------------------------------------------------------------
(* The moves of a step.                                                    *)

\* A completion about to commit: its conditional writes go through.
Completes(p) ==
  /\ txn[p].op \in Completing
  /\ CanComplete(txn[p]) /\ CompleteWrites(txn[p])
  /\ Close(p)

\* Stock is moved by assignments, reconciliations and completions only, and
\* whatever commits a completion, its conditions hold.
LEMMA StepMoves ==
  ASSUME LockInv, [Next]_vars
  PROVE  \/ UNCHANGED <<stock, account>>
         \/ \E p \in Procs : CommitAssign(p) \/ CommitReconcile(p) \/ Completes(p)
  <1>1. CASE UNCHANGED vars
    BY <1>1 DEF vars
  <1>2. CASE Next
    <2>1. PICK p \in Procs :
            \/ \E u : Begin(p, u)
            \/ QualifyReferral(p) \/ ReadRewardBalance(p) \/ Rollback(p)
            \/ CommitPlace(p) \/ CommitCancel(p) \/ CommitAssign(p)
            \/ CommitComplete(p) \/ CommitQualifying(p) \/ CommitFail(p)
            \/ CommitReconcile(p)
      BY <1>2, StepCases
    <2>2. CASE \/ \E u : Begin(p, u)
               \/ QualifyReferral(p) \/ ReadRewardBalance(p) \/ Rollback(p)
               \/ CommitPlace(p) \/ CommitCancel(p) \/ CommitFail(p)
      BY <2>2 DEF Begin, QualifyReferral, ReadRewardBalance, Rollback,
                  CommitPlace, CommitCancel, CommitFail
    <2>3. CASE CommitComplete(p)
      BY <2>3 DEF CommitComplete, Completes, Completing
    <2>4. CASE CommitQualifying(p)
      <3>1. txn[p].op = "granting" /\ CompleteWrites(txn[p]) /\ Close(p)
        BY <2>4 DEF CommitQualifying
      <3>2. CanComplete(txn[p])
        BY <3>1 DEF LockInv, LocksProtectCompletion
      <3> QED
        BY <3>1, <3>2 DEF Completes, Completing
    <2> QED
      BY <2>1, <2>2, <2>3, <2>4
  <1> QED
    BY <1>1, <1>2

\* Finitely many places.
LEMMA PlacesFinite == IsFiniteSet(Places)
  <1>1. IsFiniteSet(Warehouse)
    <2>1. /\ IsFiniteSet({"FILLED_WAREHOUSE"}) /\ IsFiniteSet({"EMPTY_WAREHOUSE"})
          /\ IsFiniteSet({"DAMAGED"})
      BY FS_Singleton
    <2>2. IsFiniteSet({"FILLED_WAREHOUSE"} \cup {"EMPTY_WAREHOUSE"})
      BY <2>1, FS_Union
    <2>3. IsFiniteSet(({"FILLED_WAREHOUSE"} \cup {"EMPTY_WAREHOUSE"}) \cup {"DAMAGED"})
      BY <2>1, <2>2, FS_Union
    <2>4. Warehouse =
            ({"FILLED_WAREHOUSE"} \cup {"EMPTY_WAREHOUSE"}) \cup {"DAMAGED"}
      BY DEF Warehouse
    <2> QED
      BY <2>3, <2>4
  <1>2. IsFiniteSet(Warehouse \cup Drivers)
    BY <1>1, FulfilmentAssumption, FS_Union
  <1> QED
    BY <1>2, FulfilmentAssumption, FS_Union DEF Places

-----------------------------------------------------------------------------
(* Nothing is made or lost.                                                *)

Everywhere(s, x) == SumFunction([place \in Places |-> s[place][x]])

\* A move takes from one summand what it adds to another, or to the same one.
LEMMA MoveConserves ==
  ASSUME NEW s \in StockPositions, NEW from \in Places, NEW to \in Places,
         NEW load \in Load, NEW x \in Products
  PROVE  Everywhere(Moved(s, from, to, load), x) = Everywhere(s, x)
  <1> DEFINE moved == Moved(s, from, to, load)
             f == [place \in Places |-> s[place][x]]
             g == [place \in Places |-> s[place][x]
                     - (IF place = from THEN load[x] ELSE 0)]
             h == [place \in Places |-> moved[place][x]]
  <1>1. \A place \in Places :
          /\ s[place][x] \in Int /\ load[x] \in Nat
          /\ moved[place][x] = s[place][x]
               - (IF place = from THEN load[x] ELSE 0)
               + (IF place = to THEN load[x] ELSE 0)
    BY MovedAt
  <1> HIDE DEF moved
  <1>2. \A place \in Places :
          /\ f[place] \in Int /\ g[place] \in Int /\ h[place] \in Int
          /\ g[place] = f[place] - (IF place = from THEN load[x] ELSE 0)
          /\ h[place] = g[place] + (IF place = to THEN load[x] ELSE 0)
    BY <1>1
  <1>3. load[x] \in Int
    BY <1>1
  <1>4. DOMAIN f = Places /\ DOMAIN g = Places /\ DOMAIN h = Places
    OBVIOUS
  <1>5. Everywhere(moved, x) = SumFunctionOnSet(h, Places)
    BY <1>4 DEF Everywhere, SumFunction
  <1>6. Everywhere(s, x) = SumFunctionOnSet(f, Places)
    BY <1>4 DEF Everywhere, SumFunction
  <1> HIDE DEF f, g, h
  <1>7. SumFunctionOnSet(g, Places) = SumFunctionOnSet(f, Places) + g[from] - f[from]
    <2>1. \A place \in Places \ {from} : f[place] = g[place]
      BY <1>2
    <2> QED
      BY <1>2, <2>1, PlacesFinite, SumChange
  <1>8. SumFunctionOnSet(h, Places) = SumFunctionOnSet(g, Places) + h[to] - g[to]
    <2>1. \A place \in Places \ {to} : g[place] = h[place]
      BY <1>2
    <2> QED
      BY <1>2, <2>1, PlacesFinite, SumChange
  <1>9. SumFunctionOnSet(f, Places) \in Int
    BY <1>2, PlacesFinite, SumType
  <1>10. g[from] - f[from] = -load[x] /\ h[to] - g[to] = load[x]
    BY <1>2, <1>3
  <1>11. f[from] \in Int /\ g[from] \in Int /\ g[to] \in Int /\ h[to] \in Int
    BY <1>2
  <1> QED
    BY <1>3, <1>5, <1>6, <1>7, <1>8, <1>9, <1>10, <1>11 DEF moved


\* A completion makes three moves.
LEMMA CompletionConserves ==
  ASSUME LockInv, NEW p \in Procs, Completes(p), NEW x \in Products
  PROVE  Everywhere(stock', x) = Everywhere(stock, x)
  <1> DEFINE t == txn[p]
             c == Owner[t.order]
  <1>1. /\ t.driver \in Places /\ c \in Places
        /\ Handed(t) \in Load /\ Returned(t) \in Load /\ Broken(t) \in Load
    BY CompletionTypes DEF LockInv, Completes
  <1>2. "EMPTY_WAREHOUSE" \in Places /\ "DAMAGED" \in Places
    BY DEF Places, Warehouse
  <1>3. stock \in StockPositions
    BY DEF LockInv, TypeInv, TypeOK
  <1>4. AfterHandOver(t) \in StockPositions /\ AfterReturn(t) \in StockPositions
    BY <1>1, <1>2, <1>3, MovedType DEF AfterHandOver, AfterReturn, Load
  <1>5. stock' = AfterDamaged(t)
    BY DEF Completes, CompleteWrites
  <1>6. Everywhere(AfterHandOver(t), x) = Everywhere(stock, x)
    BY <1>1, <1>3, MoveConserves DEF AfterHandOver
  <1>7. Everywhere(AfterReturn(t), x) = Everywhere(AfterHandOver(t), x)
    BY <1>1, <1>2, <1>4, MoveConserves DEF AfterReturn
  <1>8. Everywhere(AfterDamaged(t), x) = Everywhere(AfterReturn(t), x)
    BY <1>1, <1>2, <1>4, MoveConserves DEF AfterDamaged
  <1> QED
    BY <1>5, <1>6, <1>7, <1>8

\* An assignment and a reconciliation make one each.
LEMMA LoadMoves ==
  ASSUME TypeInv, NEW p \in Procs, CommitAssign(p) \/ CommitReconcile(p)
  PROVE  LET t == txn[p]
         IN  /\ t.order \in Orders /\ t.driver \in Drivers
             /\ LoadOf(t.order) \in Load
             /\ t.driver \in Places /\ "FILLED_WAREHOUSE" \in Places
             /\ t.driver # "FILLED_WAREHOUSE"
             /\ stock \in StockPositions
             /\ \/ stock' = Moved(stock, "FILLED_WAREHOUSE", t.driver, LoadOf(t.order))
                \/ stock' = Moved(stock, t.driver, "FILLED_WAREHOUSE", LoadOf(t.order))
  <1> DEFINE t == txn[p]
  <1>1. t.op \in {"assign", "reconcile"}
    BY DEF CommitAssign, CommitReconcile
  <1>2. t \in Assigning \/ t \in Reconciling
    BY <1>1, TxnTypes DEF TypeInv
  <1>3. t.order \in Orders /\ t.driver \in Drivers
    BY <1>2 DEF Assigning, Reconciling
  <1>4. LoadOf(t.order) \in Load
    BY <1>3, LoadTypesOf
  <1>5. /\ t.driver \in Places /\ "FILLED_WAREHOUSE" \in Places
        /\ t.driver # "FILLED_WAREHOUSE"
    BY <1>3, PlacesAssumption DEF Places, Warehouse
  <1>6. \/ stock' = Moved(stock, "FILLED_WAREHOUSE", t.driver, LoadOf(t.order))
        \/ stock' = Moved(stock, t.driver, "FILLED_WAREHOUSE", LoadOf(t.order))
    BY DEF CommitAssign, CommitReconcile
  <1> QED
    BY <1>3, <1>4, <1>5, <1>6 DEF TypeInv, TypeOK

\* At the start all bottles are in the warehouse.
LEMMA InitConserved == Init => BottlesConserved
  <1> SUFFICES ASSUME Init, NEW x \in Products
               PROVE  Everywhere(stock, x) = InitialFilled[x]
    BY DEF BottlesConserved, Everywhere
  <1> DEFINE w == "FILLED_WAREHOUSE"
             f == [place \in Places |-> stock[place][x]]
             none == [place \in Places |-> 0]
  <1>1. InitialFilled[x] \in Nat /\ w \in Places
    BY FulfilmentAssumption DEF Load, Places, Warehouse
  <1>2. \A place \in Places : f[place] = IF place = w THEN InitialFilled[x] ELSE 0
    BY DEF Init, NoBottles
  <1>3. Everywhere(stock, x) = SumFunctionOnSet(f, Places)
    BY DEF Everywhere, SumFunction
  <1>4. \A place \in Places : none[place] = 0
    OBVIOUS
  <1> HIDE DEF f, none
  <1>5. SumFunctionOnSet(f, Places) = SumFunctionOnSet(none, Places) + f[w] - none[w]
    <2>1. \A place \in Places : none[place] \in Int /\ f[place] \in Int
      BY <1>1, <1>2, <1>4
    <2>2. \A place \in Places \ {w} : none[place] = f[place]
      BY <1>2, <1>4
    <2> HIDE DEF w
    <2> QED
      BY <1>1, <2>1, <2>2, PlacesFinite, SumChange
  <1>6. SumFunctionOnSet(none, Places) = 0
    BY <1>4, PlacesFinite, SumZero
  <1> QED
    BY <1>1, <1>2, <1>3, <1>4, <1>5, <1>6

\* Bottles are neither made nor lost, whatever moves overlap: every service
\* takes from one position what it adds to another, with stale assign forms and
\* overlapping reconciliations included.
THEOREM NoBottleLost == Spec => []BottlesConserved
  <1>1. LockInv /\ BottlesConserved /\ [Next]_vars => BottlesConserved'
    <2> SUFFICES ASSUME LockInv, BottlesConserved, [Next]_vars, NEW x \in Products
                 PROVE  Everywhere(stock', x) = InitialFilled[x]
      BY DEF BottlesConserved, Everywhere
    <2>1. Everywhere(stock, x) = InitialFilled[x]
      BY DEF BottlesConserved, Everywhere
    <2>2. Everywhere(stock', x) = Everywhere(stock, x)
      <3>1. CASE UNCHANGED stock
        BY <3>1
      <3>2. ASSUME NEW p \in Procs, Completes(p)
            PROVE  Everywhere(stock', x) = Everywhere(stock, x)
        BY <3>2, CompletionConserves
      <3>3. ASSUME NEW p \in Procs, CommitAssign(p) \/ CommitReconcile(p)
            PROVE  Everywhere(stock', x) = Everywhere(stock, x)
        BY <3>3, LoadMoves, MoveConserves DEF LockInv
      <3> QED
        BY <3>1, <3>2, <3>3, StepMoves
    <2> QED
      BY <2>1, <2>2
  <1> QED
    BY <1>1, InitConserved, LockInvariant, PTL DEF Spec

-----------------------------------------------------------------------------
(* What a van answers for, as a function of the order rows and the attempts *)
(* of each order, and what it is after one of them has changed.             *)

LeftOf(d, x, r, a) ==
  IF a.driver # d THEN 0
  ELSE IF a.status = "DELIVERED"
    THEN ExchangeLoad(r.lines, r.reward)[x]
           - HandedOver(r.lines, r.reward, a.delivered)[x]
  ELSE IF a.status = "ASSIGNED" \/ a.requiresReconciliation
    THEN ExchangeLoad(r.lines, r.reward)[x]
  ELSE 0

LeftOfAll(d, x, r, s) == SumFunction([k \in DOMAIN s |-> LeftOf(d, x, r, s[k])])
Answers(d, x, rows, attempts) ==
  SumFunction([o \in Orders |-> LeftOfAll(d, x, rows[o], attempts[o])])

\* They are the operators of the model.
LEMMA AnswersNow ==
  ASSUME NEW d, NEW x
  PROVE  /\ AnswersFor(d, x) = Answers(d, x, order, delivery)
         /\ AnswersFor(d, x)' = Answers(d, x, order', delivery')
  BY DEF AnswersFor, LeftOfOrder, LeftOnVan, LoadOf, Answers, LeftOfAll, LeftOf

\* An attempt is answered for with a number of bottles.
LEMMA LeftType ==
  ASSUME NEW d, NEW x \in Products, NEW r \in Order, NEW a \in Delivery
  PROVE  LeftOf(d, x, r, a) \in Int
  <1>1. r.lines \in Carts \cup {NoBottles} /\ r.reward \in BOOLEAN
    BY DEF Order
  <1>2. a.delivered \in Nat
    BY DEF Delivery
  <1>3. /\ ExchangeLoad(r.lines, r.reward) \in Load
        /\ HandedOver(r.lines, r.reward, a.delivered) \in Load
    BY <1>1, <1>2, LoadTypes
  <1>4. /\ ExchangeLoad(r.lines, r.reward)[x] \in Int
        /\ HandedOver(r.lines, r.reward, a.delivered)[x] \in Int
    BY <1>3 DEF Load
  <1> QED
    BY <1>4 DEF LeftOf

\* So are all attempts of an order.
LEMMA LeftOfAllType ==
  ASSUME NEW d, NEW x \in Products, NEW r \in Order, NEW s \in Seq(Delivery)
  PROVE  LeftOfAll(d, x, r, s) \in Int
  <1> DEFINE f == [k \in DOMAIN s |-> LeftOf(d, x, r, s[k])]
  <1>1. IsFiniteSet(DOMAIN s)
    BY FS_Interval
  <1>2. \A k \in DOMAIN s : f[k] \in Int
    BY LeftType
  <1>3. LeftOfAll(d, x, r, s) = SumFunctionOnSet(f, DOMAIN s)
    BY DEF LeftOfAll, SumFunction
  <1> HIDE DEF f
  <1> QED
    BY <1>1, <1>2, <1>3, SumType

\* A list of attempts that differs in one of them.
LEMMA LeftChanged ==
  ASSUME NEW d, NEW x, NEW r, NEW s, NEW z, NEW k \in DOMAIN s,
         IsFiniteSet(DOMAIN s), DOMAIN z = DOMAIN s,
         \A i \in DOMAIN s :
           LeftOf(d, x, r, s[i]) \in Int /\ LeftOf(d, x, r, z[i]) \in Int,
         \A i \in DOMAIN s \ {k} : s[i] = z[i]
  PROVE  LeftOfAll(d, x, r, z) = LeftOfAll(d, x, r, s)
                                   + LeftOf(d, x, r, z[k]) - LeftOf(d, x, r, s[k])
  <1> DEFINE S == DOMAIN s
             f == [i \in S |-> LeftOf(d, x, r, s[i])]
             g == [i \in S |-> LeftOf(d, x, r, z[i])]
  <1>1. \A i \in S : f[i] \in Int /\ g[i] \in Int
    OBVIOUS
  <1>2. \A i \in S \ {k} : f[i] = g[i]
    OBVIOUS
  <1>3. f[k] = LeftOf(d, x, r, s[k]) /\ g[k] = LeftOf(d, x, r, z[k])
    OBVIOUS
  <1>4. /\ LeftOfAll(d, x, r, s) = SumFunctionOnSet(f, S)
        /\ LeftOfAll(d, x, r, z) = SumFunctionOnSet(g, S)
    BY DEF LeftOfAll, SumFunction
  <1>5. IsFiniteSet(S) /\ k \in S
    OBVIOUS
  <1> HIDE DEF f, g, S
  <1>6. SumFunctionOnSet(g, S) = SumFunctionOnSet(f, S) + g[k] - f[k]
    BY <1>1, <1>2, <1>5, SumChange
  <1> QED
    BY <1>3, <1>4, <1>6

\* One attempt rewritten.
LEMMA LeftRewritten ==
  ASSUME NEW d, NEW x \in Products, NEW r \in Order, NEW s \in Seq(Delivery),
         NEW k \in DOMAIN s, NEW e \in Delivery
  PROVE  LeftOfAll(d, x, r, [s EXCEPT ![k] = e])
           = LeftOfAll(d, x, r, s) + LeftOf(d, x, r, e) - LeftOf(d, x, r, s[k])
  <1> DEFINE z == [s EXCEPT ![k] = e]
  <1>1. IsFiniteSet(DOMAIN s) /\ DOMAIN z = DOMAIN s
    <2>1. DOMAIN s = 1..Len(s) /\ DOMAIN z = DOMAIN s
      OBVIOUS
    <2>2. IsFiniteSet(1..Len(s))
      BY FS_Interval
    <2> HIDE DEF z
    <2> QED
      BY <2>1, <2>2
  <1>2. z[k] = e /\ \A i \in DOMAIN s \ {k} : s[i] = z[i]
    OBVIOUS
  <1>3. \A i \in DOMAIN s : s[i] \in Delivery /\ z[i] \in Delivery
    OBVIOUS
  <1> HIDE DEF z
  <1>4. \A i \in DOMAIN s :
          LeftOf(d, x, r, s[i]) \in Int /\ LeftOf(d, x, r, z[i]) \in Int
    BY <1>3, LeftType
  <1>5. LeftOfAll(d, x, r, z)
          = LeftOfAll(d, x, r, s) + LeftOf(d, x, r, z[k]) - LeftOf(d, x, r, s[k])
    BY <1>1, <1>2, <1>4, LeftChanged
  <1> QED
    BY <1>2, <1>5 DEF z

\* One attempt added.
LEMMA LeftAdded ==
  ASSUME NEW d, NEW x \in Products, NEW r \in Order, NEW s \in Seq(Delivery),
         NEW e \in Delivery
  PROVE  LeftOfAll(d, x, r, Append(s, e))
           = LeftOfAll(d, x, r, s) + LeftOf(d, x, r, e)
  <1> DEFINE z == Append(s, e)
             n == Len(s) + 1
             f == [i \in DOMAIN s |-> LeftOf(d, x, r, s[i])]
             g == [i \in DOMAIN z |-> LeftOf(d, x, r, z[i])]
  <1>1. /\ IsFiniteSet(DOMAIN s) /\ IsFiniteSet(DOMAIN z)
        /\ n \in DOMAIN z /\ DOMAIN z \ {n} = DOMAIN s
    <2>1. DOMAIN s = 1..Len(s) /\ DOMAIN z = 1..n /\ n \in 1..n
      OBVIOUS
    <2>2. IsFiniteSet(1..Len(s)) /\ IsFiniteSet(1..n)
      BY FS_Interval
    <2>3. (1..n) \ {n} = 1..Len(s)
      OBVIOUS
    <2> QED
      BY <2>1, <2>2, <2>3
  <1>2. z[n] = e /\ \A i \in DOMAIN s : z[i] = s[i] /\ i \in DOMAIN z
    OBVIOUS
  <1>3. \A i \in DOMAIN z : z[i] \in Delivery
    OBVIOUS
  <1> HIDE DEF z, n
  <1>4. \A i \in DOMAIN z : g[i] \in Int
    BY <1>3, LeftType
  <1>5. g[n] = LeftOf(d, x, r, e) /\ \A i \in DOMAIN s : g[i] = f[i]
    BY <1>1, <1>2
  <1>6. /\ LeftOfAll(d, x, r, s) = SumFunctionOnSet(f, DOMAIN s)
        /\ LeftOfAll(d, x, r, z) = SumFunctionOnSet(g, DOMAIN z)
    BY DEF LeftOfAll, SumFunction
  <1>7. LeftOfAll(d, x, r, s) \in Int /\ LeftOf(d, x, r, e) \in Int
    BY LeftType, LeftOfAllType
  <1> HIDE DEF f, g
  <1>8. SumFunctionOnSet(g, DOMAIN z) = g[n] + SumFunctionOnSet(g, DOMAIN s)
    BY <1>1, <1>4, SumRemove
  <1>9. SumFunctionOnSet(g, DOMAIN s) = SumFunctionOnSet(f, DOMAIN s)
    BY <1>1, <1>5, SumEqual
  <1> QED
    BY <1>5, <1>6, <1>7, <1>8, <1>9 DEF z

\* Only the items of an order matter, and those only once it has attempts.
LEMMA LeftByItems ==
  ASSUME NEW d, NEW x, NEW r, NEW q, NEW s,
         s = <<>> \/ (r.lines = q.lines /\ r.reward = q.reward)
  PROVE  LeftOfAll(d, x, r, s) = LeftOfAll(d, x, q, s)
  <1> DEFINE f(row) == [k \in DOMAIN s |-> LeftOf(d, x, row, s[k])]
  <1>1. f(r) = f(q)
    BY DEF LeftOf
  <1> QED
    BY <1>1 DEF LeftOfAll

\* One order changed.
LEMMA AnswersChange ==
  ASSUME NEW d, NEW x \in Products, NEW o \in Orders,
         NEW rows, NEW rows2, NEW att, NEW att2,
         \A y \in Orders : /\ LeftOfAll(d, x, rows[y], att[y]) \in Int
                           /\ LeftOfAll(d, x, rows2[y], att2[y]) \in Int,
         \A y \in Orders \ {o} :
           LeftOfAll(d, x, rows2[y], att2[y]) = LeftOfAll(d, x, rows[y], att[y])
  PROVE  /\ Answers(d, x, rows, att) \in Int
         /\ Answers(d, x, rows2, att2)
              = Answers(d, x, rows, att)
                  + LeftOfAll(d, x, rows2[o], att2[o])
                  - LeftOfAll(d, x, rows[o], att[o])
  <1> DEFINE f == [y \in Orders |-> LeftOfAll(d, x, rows[y], att[y])]
             g == [y \in Orders |-> LeftOfAll(d, x, rows2[y], att2[y])]
  <1>1. IsFiniteSet(Orders)
    BY FulfilmentAssumption
  <1>2. \A y \in Orders : f[y] \in Int /\ g[y] \in Int
    OBVIOUS
  <1>3. \A y \in Orders \ {o} : f[y] = g[y]
    OBVIOUS
  <1>4. /\ f[o] = LeftOfAll(d, x, rows[o], att[o])
        /\ g[o] = LeftOfAll(d, x, rows2[o], att2[o])
    OBVIOUS
  <1>5. /\ Answers(d, x, rows, att) = SumFunctionOnSet(f, Orders)
        /\ Answers(d, x, rows2, att2) = SumFunctionOnSet(g, Orders)
    BY DEF Answers, SumFunction
  <1> HIDE DEF f, g
  <1>6. SumFunctionOnSet(g, Orders) = SumFunctionOnSet(f, Orders) + g[o] - f[o]
    BY <1>1, <1>2, <1>3, SumChange
  <1>7. SumFunctionOnSet(f, Orders) \in Int
    BY <1>1, <1>2, SumType
  <1> QED
    BY <1>4, <1>5, <1>6, <1>7

-----------------------------------------------------------------------------
(* What a step does to the attempts, to the vans and to what the open       *)
(* transactions have read.                                                  *)

\* The items of order o stay as they are, and the empties expected for them.
ItemsKept(o) ==
  /\ order'[o].lines = order[o].lines /\ order'[o].reward = order[o].reward
  /\ order'[o].expected = order[o].expected

\* Attempt k of order o becomes e, and no order's items change.
Rewrites(o, k, e) ==
  /\ o \in Orders /\ k \in DOMAIN delivery[o] /\ e \in Delivery
  /\ delivery' = [delivery EXCEPT ![o][k] = e]
  /\ \A y \in Orders : ItemsKept(y)

\* Order o gets the attempt e, and no order's items change.
Adds(o, e) ==
  /\ o \in Orders /\ e \in Delivery
  /\ delivery' = [delivery EXCEPT ![o] = Append(@, e)]
  /\ \A y \in Orders : ItemsKept(y)

\* No attempt changes, nor the items of an order that has attempts.
KeepsAnswers ==
  /\ UNCHANGED delivery
  /\ \A y \in Orders : delivery[y] = <<>> \/ ItemsKept(y)

\* So what the vans answer for changes by what that attempt is answered for.
LEMMA AnswersRewritten ==
  ASSUME TypeOK, TypeOK', NEW d \in Drivers, NEW x \in Products, NEW o, NEW k, NEW e,
         Rewrites(o, k, e)
  PROVE  AnswersFor(d, x)'
           = AnswersFor(d, x) + LeftOf(d, x, order[o], e)
                              - LeftOf(d, x, order[o], delivery[o][k])
  <1>1. /\ order \in [Orders -> Order] /\ order' \in [Orders -> Order]
        /\ delivery \in [Orders -> Seq(Delivery)]
        /\ delivery' \in [Orders -> Seq(Delivery)]
    BY DEF TypeOK
  <1>2. /\ o \in Orders /\ k \in DOMAIN delivery[o] /\ e \in Delivery
        /\ \A y \in Orders : ItemsKept(y)
    BY DEF Rewrites
  <1>3. /\ \A y \in Orders \ {o} : delivery'[y] = delivery[y]
        /\ delivery'[o] = [delivery[o] EXCEPT ![k] = e]
    BY <1>1, <1>2 DEF Rewrites
  <1>4. \A y \in Orders : \A s \in Seq(Delivery) :
          LeftOfAll(d, x, order'[y], s) = LeftOfAll(d, x, order[y], s)
    BY <1>2, LeftByItems DEF ItemsKept
  <1>5. \A y \in Orders \ {o} :
          LeftOfAll(d, x, order'[y], delivery'[y])
            = LeftOfAll(d, x, order[y], delivery[y])
    BY <1>1, <1>3, <1>4
  <1>6. LeftOfAll(d, x, order'[o], delivery'[o])
          = LeftOfAll(d, x, order[o], delivery'[o])
    BY <1>1, <1>2, <1>4
  <1>7. LeftOfAll(d, x, order[o], delivery'[o])
          = LeftOfAll(d, x, order[o], delivery[o]) + LeftOf(d, x, order[o], e)
              - LeftOf(d, x, order[o], delivery[o][k])
    <2>1. order[o] \in Order /\ delivery[o] \in Seq(Delivery)
      BY <1>1, <1>2
    <2> DEFINE s == delivery[o]
    <2>2. s \in Seq(Delivery) /\ k \in DOMAIN s /\ e \in Delivery
      BY <1>2, <2>1
    <2> HIDE DEF s
    <2>3. LeftOfAll(d, x, order[o], [s EXCEPT ![k] = e])
            = LeftOfAll(d, x, order[o], s) + LeftOf(d, x, order[o], e)
                - LeftOf(d, x, order[o], s[k])
      BY <2>1, <2>2, LeftRewritten, Zenon
    <2> QED
      BY <1>3, <2>3 DEF s
  <1>10. \A y \in Orders : /\ LeftOfAll(d, x, order[y], delivery[y]) \in Int
                           /\ LeftOfAll(d, x, order'[y], delivery'[y]) \in Int
    BY <1>1, LeftOfAllType
  <1>8. /\ Answers(d, x, order, delivery) \in Int
        /\ Answers(d, x, order', delivery')
             = Answers(d, x, order, delivery)
                 + LeftOfAll(d, x, order'[o], delivery'[o])
                 - LeftOfAll(d, x, order[o], delivery[o])
    BY <1>2, <1>5, <1>10, AnswersChange
  <1>9. /\ LeftOfAll(d, x, order[o], delivery[o]) \in Int
        /\ LeftOf(d, x, order[o], e) \in Int
        /\ LeftOf(d, x, order[o], delivery[o][k]) \in Int
    BY <1>1, <1>2, LeftType, LeftOfAllType
  <1> QED
    BY <1>6, <1>7, <1>8, <1>9, AnswersNow

\* A new attempt is answered for from then on.
LEMMA AnswersAdded ==
  ASSUME TypeOK, TypeOK', NEW d \in Drivers, NEW x \in Products, NEW o, NEW e,
         Adds(o, e)
  PROVE  AnswersFor(d, x)' = AnswersFor(d, x) + LeftOf(d, x, order[o], e)
  <1>1. /\ order \in [Orders -> Order] /\ order' \in [Orders -> Order]
        /\ delivery \in [Orders -> Seq(Delivery)]
        /\ delivery' \in [Orders -> Seq(Delivery)]
    BY DEF TypeOK
  <1>2. o \in Orders /\ e \in Delivery /\ \A y \in Orders : ItemsKept(y)
    BY DEF Adds
  <1>3. /\ \A y \in Orders \ {o} : delivery'[y] = delivery[y]
        /\ delivery'[o] = Append(delivery[o], e)
    BY <1>1, <1>2 DEF Adds
  <1>4. \A y \in Orders : \A s \in Seq(Delivery) :
          LeftOfAll(d, x, order'[y], s) = LeftOfAll(d, x, order[y], s)
    BY <1>2, LeftByItems DEF ItemsKept
  <1>5. \A y \in Orders \ {o} :
          LeftOfAll(d, x, order'[y], delivery'[y])
            = LeftOfAll(d, x, order[y], delivery[y])
    BY <1>1, <1>3, <1>4
  <1>6. LeftOfAll(d, x, order'[o], delivery'[o])
          = LeftOfAll(d, x, order[o], delivery'[o])
    BY <1>1, <1>2, <1>4
  <1>7. LeftOfAll(d, x, order[o], delivery'[o])
          = LeftOfAll(d, x, order[o], delivery[o]) + LeftOf(d, x, order[o], e)
    BY <1>1, <1>2, <1>3, LeftAdded
  <1>10. \A y \in Orders : /\ LeftOfAll(d, x, order[y], delivery[y]) \in Int
                           /\ LeftOfAll(d, x, order'[y], delivery'[y]) \in Int
    BY <1>1, LeftOfAllType
  <1>8. /\ Answers(d, x, order, delivery) \in Int
        /\ Answers(d, x, order', delivery')
             = Answers(d, x, order, delivery)
                 + LeftOfAll(d, x, order'[o], delivery'[o])
                 - LeftOfAll(d, x, order[o], delivery[o])
    BY <1>2, <1>5, <1>10, AnswersChange
  <1>9. /\ LeftOfAll(d, x, order[o], delivery[o]) \in Int
        /\ LeftOf(d, x, order[o], e) \in Int
    BY <1>1, <1>2, LeftType, LeftOfAllType
  <1> QED
    BY <1>6, <1>7, <1>8, <1>9, AnswersNow

\* Nothing else changes what a van answers for.
LEMMA AnswersKept ==
  ASSUME TypeOK, NEW d \in Drivers, NEW x \in Products, KeepsAnswers
  PROVE  AnswersFor(d, x)' = AnswersFor(d, x)
  <1>1. delivery' = delivery /\ \A y \in Orders : delivery[y] \in Seq(Delivery)
    BY DEF KeepsAnswers, TypeOK
  <1>2. \A y \in Orders : LeftOfAll(d, x, order'[y], delivery'[y])
                            = LeftOfAll(d, x, order[y], delivery[y])
    <2> SUFFICES ASSUME NEW y \in Orders
                 PROVE  LeftOfAll(d, x, order'[y], delivery[y])
                          = LeftOfAll(d, x, order[y], delivery[y])
      BY <1>1
    <2> DEFINE s == delivery[y]
               r == order'[y]
               q == order[y]
    <2>1. s = <<>> \/ (r.lines = q.lines /\ r.reward = q.reward)
      BY DEF KeepsAnswers, ItemsKept
    <2> HIDE DEF s, r, q
    <2>2. LeftOfAll(d, x, r, s) = LeftOfAll(d, x, q, s)
      BY <2>1, LeftByItems
    <2> QED
      BY <2>2 DEF s, r, q
  <1>3. Answers(d, x, order', delivery') = Answers(d, x, order, delivery)
    BY <1>2 DEF Answers
  <1> QED
    BY <1>3, AnswersNow

\* The rewritten attempt, and all the others.
LEMMA RewrittenAt ==
  ASSUME TypeOK, NEW o, NEW k, NEW e, Rewrites(o, k, e)
  PROVE  \A y \in Orders :
           /\ DOMAIN delivery'[y] = DOMAIN delivery[y]
           /\ \A i \in DOMAIN delivery[y] :
                delivery'[y][i] = IF y = o /\ i = k THEN e ELSE delivery[y][i]
  <1>1. delivery \in [Orders -> Seq(Delivery)]
    BY DEF TypeOK
  <1>2. /\ o \in Orders /\ k \in DOMAIN delivery[o]
        /\ delivery' = [delivery EXCEPT ![o][k] = e]
    BY DEF Rewrites
  <1> QED
    BY <1>1, <1>2

\* The added attempt, and all the others.
LEMMA AddedAt ==
  ASSUME TypeOK, NEW o, NEW e, Adds(o, e)
  PROVE  \A y \in Orders :
           /\ \A i \in DOMAIN delivery[y] :
                i \in DOMAIN delivery'[y] /\ delivery'[y][i] = delivery[y][i]
           /\ \A i \in DOMAIN delivery'[y] :
                i \in DOMAIN delivery[y] \/ delivery'[y][i] = e
  <1>1. delivery \in [Orders -> Seq(Delivery)]
    BY DEF TypeOK
  <1>2. /\ o \in Orders
        /\ delivery' = [delivery EXCEPT ![o] = Append(@, e)]
    BY DEF Adds
  <1>3. \A y \in Orders :
          delivery'[y] = IF y = o THEN Append(delivery[y], e) ELSE delivery[y]
    BY <1>1, <1>2
  <1>4. ASSUME NEW z \in Seq(Delivery)
        PROVE  /\ \A i \in DOMAIN z : i \in DOMAIN Append(z, e)
                                      /\ Append(z, e)[i] = z[i]
               /\ \A i \in DOMAIN Append(z, e) :
                    i \in DOMAIN z \/ Append(z, e)[i] = e
    OBVIOUS
  <1> SUFFICES ASSUME NEW y \in Orders
               PROVE  /\ \A i \in DOMAIN delivery[y] :
                           /\ i \in DOMAIN delivery'[y]
                           /\ delivery'[y][i] = delivery[y][i]
                      /\ \A i \in DOMAIN delivery'[y] :
                           i \in DOMAIN delivery[y] \/ delivery'[y][i] = e
    OBVIOUS
  <1>5. CASE y # o
    <2>1. delivery'[y] = delivery[y]
      BY <1>3, <1>5
    <2> QED
      BY <2>1
  <1>6. CASE y = o
    <2> DEFINE z == delivery[y]
    <2>1. z \in Seq(Delivery) /\ delivery'[y] = Append(z, e)
      BY <1>1, <1>3, <1>6
    <2> HIDE DEF z
    <2>2. /\ \A i \in DOMAIN z : i \in DOMAIN Append(z, e)
                                 /\ Append(z, e)[i] = z[i]
          /\ \A i \in DOMAIN Append(z, e) :
               i \in DOMAIN z \/ Append(z, e)[i] = e
      BY <2>1, <1>4, Zenon
    <2> QED
      BY <2>1, <2>2, Zenon DEF z
  <1> QED
    BY <1>5, <1>6

\* A failure that commits.
LEMMA FailRewrites ==
  ASSUME TypeInv, NEW p \in Procs, CommitFail(p)
  PROVE  LET t == txn[p]
             d == delivery[t.order][t.attempt]
         IN  /\ Rewrites(t.order, t.attempt, Failed(d))
             /\ d.status = t.status /\ Close(p) /\ UNCHANGED stock
  <1> DEFINE t == txn[p]
             o == t.order
             k == t.attempt
             d == Failed(delivery[o][k])
  <1>1. t.op = "fail"
    BY DEF CommitFail
  <1>2. o \in Orders /\ k \in DOMAIN delivery[o]
    BY <1>1, TxnTypes DEF TypeInv, AttemptsExist, Idle
  <1>3. /\ delivery[o][k].status = t.status /\ Close(p) /\ UNCHANGED stock
        /\ delivery' = [delivery EXCEPT ![o][k] = d]
        /\ order' = [order EXCEPT ![o].status = "FAILED"]
    BY DEF CommitFail, DeliveryStill
  <1>4. delivery[o] \in Seq(Delivery) /\ order \in [Orders -> Order]
    BY <1>2 DEF TypeInv, TypeOK
  <1> HIDE DEF t, o, k
  <1>5. delivery[o][k] \in Delivery
    BY <1>2, <1>4
  <1>6. d \in Delivery
    BY <1>5 DEF Failed, Delivery, DeliveryStatus
  <1>7. \A y \in Orders : ItemsKept(y)
    BY <1>2, <1>3, <1>4 DEF ItemsKept, Order
  <1> QED
    BY <1>2, <1>3, <1>6, <1>7 DEF Rewrites, t, o, k

\* A reconciliation that commits.
LEMMA ReconcileRewrites ==
  ASSUME TypeInv, NEW p \in Procs, CommitReconcile(p)
  PROVE  LET t == txn[p]
             d == delivery[t.order][t.attempt]
         IN  /\ Rewrites(t.order, t.attempt, [d EXCEPT !.requiresReconciliation = FALSE])
             /\ Close(p) /\ t.op = "reconcile"
             /\ stock' = Moved(stock, t.driver, "FILLED_WAREHOUSE", LoadOf(t.order))
  <1> DEFINE t == txn[p]
             o == t.order
             k == t.attempt
             d == [delivery[o][k] EXCEPT !.requiresReconciliation = FALSE]
  <1>1. t.op = "reconcile"
    BY DEF CommitReconcile
  <1>2. o \in Orders /\ k \in DOMAIN delivery[o]
    BY <1>1, TxnTypes DEF TypeInv, AttemptsExist, Idle
  <1>3. /\ delivery' = [delivery EXCEPT ![o][k].requiresReconciliation = FALSE]
        /\ UNCHANGED order /\ Close(p)
        /\ stock' = Moved(stock, t.driver, "FILLED_WAREHOUSE", LoadOf(o))
    BY DEF CommitReconcile
  <1>4. delivery[o] \in Seq(Delivery)
    BY <1>2 DEF TypeInv, TypeOK
  <1> HIDE DEF t, o, k
  <1>5. delivery[o][k] \in Delivery
    BY <1>2, <1>4
  <1>6. d \in Delivery
    BY <1>5 DEF Delivery
  <1>7. delivery' = [delivery EXCEPT ![o][k] = d]
    BY <1>2, <1>3 DEF TypeInv, TypeOK
  <1>8. \A y \in Orders : ItemsKept(y)
    BY <1>3 DEF ItemsKept
  <1> QED
    BY <1>1, <1>2, <1>3, <1>6, <1>7, <1>8 DEF Rewrites, t, o, k

\* A completion that commits.
LEMMA CompleteRewrites ==
  ASSUME TypeInv, NEW p \in Procs, Completes(p)
  PROVE  LET t == txn[p]
             d == delivery[t.order][t.attempt]
         IN  /\ Rewrites(t.order, t.attempt,
                         [d EXCEPT !.status = "DELIVERED",
                                   !.delivered = t.form.delivered])
             /\ d.status = t.status
  <1> DEFINE t == txn[p]
             o == t.order
             k == t.attempt
             d == [delivery[o][k] EXCEPT !.status = "DELIVERED",
                                         !.delivered = t.form.delivered]
  <1>1. o \in Orders /\ k \in DOMAIN delivery[o] /\ t.form \in Forms
    BY CompletionTypes DEF Completes, Delivering
  <1>2. /\ order' = [order EXCEPT ![o].status = "DELIVERED",
                                  ![o].paid = PaidAfter(t),
                                  ![o].payStatus = PayStatusAfter(t)]
        /\ delivery' = [delivery EXCEPT ![o][k].status = "DELIVERED",
                                        ![o][k].delivered = t.form.delivered]
        /\ delivery[o][k].status = t.status
    BY DEF Completes, CompleteWrites, CanComplete, DeliveryStill
  <1>3. delivery[o] \in Seq(Delivery) /\ order \in [Orders -> Order]
    BY <1>1 DEF TypeInv, TypeOK
  <1>4. t.form.delivered \in Nat
    BY <1>1, FormsAssumption
  <1> HIDE DEF t, o, k
  <1>5. delivery[o][k] \in Delivery
    BY <1>1, <1>3
  <1>6. d \in Delivery
    BY <1>4, <1>5 DEF Delivery, DeliveryStatus
  <1>7. delivery' = [delivery EXCEPT ![o][k] = d]
    BY <1>1, <1>2 DEF TypeInv, TypeOK
  <1>8. \A y \in Orders : ItemsKept(y)
    BY <1>1, <1>2, <1>3 DEF ItemsKept, Order
  <1> QED
    BY <1>1, <1>2, <1>6, <1>7, <1>8 DEF Rewrites, t, o, k

\* An assignment that commits, with no attempt to reuse.
LEMMA AssignAdds ==
  ASSUME TypeInv, NEW p \in Procs, CommitAssign(p), ~txn[p].reuse
  PROVE  LET t == txn[p]
         IN  /\ Adds(t.order,
                     [status |-> "ASSIGNED", driver |-> t.driver,
                      expected |-> order[t.order].expected,
                      requiresReconciliation |-> FALSE, delivered |-> 0])
             /\ Close(p)
             /\ stock' = Moved(stock, "FILLED_WAREHOUSE", t.driver, LoadOf(t.order))
  <1> DEFINE t == txn[p]
             o == t.order
             e == [status |-> "ASSIGNED", driver |-> t.driver,
                   expected |-> order[o].expected,
                   requiresReconciliation |-> FALSE, delivered |-> 0]
  <1>1. o \in Orders /\ t.driver \in Drivers
    BY LoadMoves
  <1>2. order \in [Orders -> Order] /\ order[o].expected \in Nat
    BY <1>1 DEF TypeInv, TypeOK, Order
  <1>3. e \in Delivery
    BY <1>1, <1>2 DEF Delivery, DeliveryStatus
  <1>4. /\ delivery' = [delivery EXCEPT ![o] = Append(@, e)]
        /\ stock' = Moved(stock, "FILLED_WAREHOUSE", t.driver, LoadOf(o))
        /\ Close(p)
        /\ UNCHANGED order \/ order' = [order EXCEPT ![o].status = "ASSIGNED"]
    BY DEF CommitAssign
  <1> HIDE DEF t, o, e
  <1>5. \A y \in Orders : ItemsKept(y)
    BY <1>1, <1>2, <1>4 DEF ItemsKept, Order
  <1> QED
    BY <1>1, <1>3, <1>4, <1>5 DEF Adds, t, o, e

-----------------------------------------------------------------------------
(* Vans.  The strengthening: what a van holds is exactly what its attempts  *)
(* answer for; attempts move from ASSIGNED to DELIVERED or FAILED and only  *)
(* a failed one waits for reconciliation; the driver a request has read is  *)
(* still the attempt's; and every open reconciliation is of a delivery of   *)
(* its own that still waits for it.                                         *)

GoesOn(a) ==
  /\ a.status \in {"ASSIGNED", "DELIVERED", "FAILED"}
  /\ a.requiresReconciliation => a.status = "FAILED"

AttemptsGoOn == \A o \in Orders : \A k \in DOMAIN delivery[o] : GoesOn(delivery[o][k])

Reconciles(p) == txn[p].op = "reconcile"
ReadsDriver(p) == txn[p].op \in Completing \cup {"reconcile"}

DriversStay ==
  \A p \in Procs :
    ReadsDriver(p) =>
      txn[p].driver = delivery[txn[p].order][txn[p].attempt].driver

StillWaits ==
  \A p \in Procs :
    Reconciles(p) =>
      delivery[txn[p].order][txn[p].attempt].requiresReconciliation

ReconciledOnce ==
  \A p, q \in Procs :
    p # q /\ Reconciles(p) /\ Reconciles(q) =>
      txn[p].order # txn[q].order \/ txn[p].attempt # txn[q].attempt

VansCarry == \A d \in Drivers, x \in Products : stock[d][x] = AnswersFor(d, x)

VanReads == DriversStay /\ StillWaits /\ ReconciledOnce
VanInv == LockInv /\ DispatchInv /\ AttemptsGoOn /\ VanReads /\ VansCarry

\* Attempts keep their drivers.
DriversKept ==
  \A o \in Orders : \A k \in DOMAIN delivery[o] :
    delivery'[o][k].driver = delivery[o][k].driver

\* A request that has read a driver is about an attempt that exists.
LEMMA ReaderTypes ==
  ASSUME TypeInv, NEW p \in Procs, ReadsDriver(p)
  PROVE  /\ txn[p].order \in Orders /\ txn[p].driver \in Drivers
         /\ txn[p].attempt \in DOMAIN delivery[txn[p].order]
  <1>1. txn[p].op \in Completing => txn[p] \in Delivering
    BY TxnTypes DEF TypeInv
  <1>2. txn[p].op = "reconcile" => txn[p] \in Reconciling
    BY TxnTypes DEF TypeInv
  <1>3. txn[p].order \in Orders /\ txn[p].driver \in Drivers
    BY <1>1, <1>2 DEF ReadsDriver, Delivering, Reconciling
  <1> QED
    BY <1>3 DEF ReadsDriver, TypeInv, AttemptsExist

\* Beginning a request: a completion or a reconciliation reads the attempt's
\* driver, and a reconciliation begins when no other is open for the delivery.
LEMMA BeginKeepsVanReads ==
  ASSUME TypeInv, VanReads, NEW p \in Procs, NEW t, Begin(p, t),
         t.op \in Completing \cup {"reconcile"} =>
           t.driver = delivery[t.order][t.attempt].driver,
         t.op = "reconcile" =>
           /\ delivery[t.order][t.attempt].requiresReconciliation
           /\ \A q \in Procs :
                Reconciles(q) => txn[q].order # t.order \/ txn[q].attempt # t.attempt
  PROVE  VanReads'
  <1>1. \A q \in Procs : txn'[q] = IF q = p THEN t ELSE txn[q]
    BY DEF TypeInv, TypeOK, Begin
  <1>2. UNCHANGED delivery
    BY DEF Begin
  <1>3. DriversStay'
    BY <1>1, <1>2 DEF VanReads, DriversStay, ReadsDriver
  <1>4. StillWaits'
    BY <1>1, <1>2 DEF VanReads, StillWaits, Reconciles
  <1>5. ReconciledOnce'
    BY <1>1 DEF VanReads, ReconciledOnce, Reconciles
  <1> QED
    BY <1>3, <1>4, <1>5 DEF VanReads

\* Ending one, if the deliveries that others reconcile still wait.
LEMMA CloseKeepsVanReads ==
  ASSUME TypeInv, VanReads, NEW p \in Procs, Close(p), DriversKept,
         \A q \in Procs \ {p} :
           Reconciles(q) =>
             delivery'[txn[q].order][txn[q].attempt].requiresReconciliation
  PROVE  VanReads'
  <1>1. \A q \in Procs : txn'[q] = IF q = p THEN Idle ELSE txn[q]
    BY DEF TypeInv, TypeOK, Close
  <1>2. Idle.op = "idle"
    BY DEF Idle
  <1>3. DriversStay'
    <2> SUFFICES ASSUME NEW q \in Procs, ReadsDriver(q)'
                 PROVE  txn'[q].driver
                          = delivery'[txn'[q].order][txn'[q].attempt].driver
      BY DEF DriversStay
    <2>1. q # p /\ txn'[q] = txn[q] /\ ReadsDriver(q)
      BY <1>1, <1>2 DEF ReadsDriver, Completing
    <2>2. txn[q].order \in Orders /\ txn[q].attempt \in DOMAIN delivery[txn[q].order]
      BY <2>1, ReaderTypes
    <2>3. txn[q].driver = delivery[txn[q].order][txn[q].attempt].driver
      BY <2>1 DEF VanReads, DriversStay
    <2> QED
      BY <2>1, <2>2, <2>3 DEF DriversKept
  <1>4. StillWaits'
    BY <1>1, <1>2 DEF StillWaits, Reconciles
  <1>5. ReconciledOnce'
    BY <1>1, <1>2 DEF VanReads, ReconciledOnce, Reconciles
  <1> QED
    BY <1>3, <1>4, <1>5 DEF VanReads

\* Rewriting an attempt that keeps its driver, and waits if it did or was p's.
LEMMA RewriteKeepsVanReads ==
  ASSUME TypeInv, VanReads, NEW p \in Procs, Close(p), NEW o, NEW k, NEW e,
         Rewrites(o, k, e), e.driver = delivery[o][k].driver,
         \/ delivery[o][k].requiresReconciliation => e.requiresReconciliation
         \/ Reconciles(p) /\ o = txn[p].order /\ k = txn[p].attempt
  PROVE  VanReads'
  <1>1. \A y \in Orders : \A i \in DOMAIN delivery[y] :
          delivery'[y][i] = IF y = o /\ i = k THEN e ELSE delivery[y][i]
    BY RewrittenAt DEF TypeInv
  <1>2. DriversKept
    BY <1>1 DEF DriversKept
  <1>3. ASSUME NEW q \in Procs \ {p}, Reconciles(q)
        PROVE  delivery'[txn[q].order][txn[q].attempt].requiresReconciliation
    <2>1. txn[q].order \in Orders /\ txn[q].attempt \in DOMAIN delivery[txn[q].order]
      BY <1>3, ReaderTypes DEF Reconciles, ReadsDriver
    <2>2. delivery[txn[q].order][txn[q].attempt].requiresReconciliation
      BY <1>3 DEF VanReads, StillWaits
    <2>3. Reconciles(p) => txn[p].order # txn[q].order \/ txn[p].attempt # txn[q].attempt
      BY <1>3 DEF VanReads, ReconciledOnce
    <2> QED
      BY <1>1, <2>1, <2>2, <2>3
  <1> QED
    BY <1>2, <1>3, CloseKeepsVanReads

\* Rewriting an attempt into one that may be, and adding one.
LEMMA RewriteGoesOn ==
  ASSUME TypeOK, AttemptsGoOn, NEW o, NEW k, NEW e, Rewrites(o, k, e), GoesOn(e)
  PROVE  AttemptsGoOn'
  <1>1. \A y \in Orders :
          /\ DOMAIN delivery'[y] = DOMAIN delivery[y]
          /\ \A i \in DOMAIN delivery[y] :
               delivery'[y][i] = IF y = o /\ i = k THEN e ELSE delivery[y][i]
    BY RewrittenAt
  <1>2. \A y \in Orders : \A i \in DOMAIN delivery'[y] : GoesOn(delivery'[y][i])
    BY <1>1 DEF AttemptsGoOn
  <1> QED
    BY <1>2 DEF AttemptsGoOn, GoesOn

\* The same for an attempt that is added.
LEMMA AddedGoesOn ==
  ASSUME TypeOK, AttemptsGoOn, NEW o, NEW e, Adds(o, e), GoesOn(e)
  PROVE  AttemptsGoOn'
  <1>1. \A y \in Orders :
          /\ \A i \in DOMAIN delivery[y] :
               i \in DOMAIN delivery'[y] /\ delivery'[y][i] = delivery[y][i]
          /\ \A i \in DOMAIN delivery'[y] :
               i \in DOMAIN delivery[y] \/ delivery'[y][i] = e
    BY AddedAt
  <1>2. \A y \in Orders : \A i \in DOMAIN delivery'[y] : GoesOn(delivery'[y][i])
    BY <1>1 DEF AttemptsGoOn
  <1> QED
    BY <1>2 DEF AttemptsGoOn, GoesOn

\* A failure: the van keeps its load, and the attempt waits with it.
LEMMA FailKeepsVans ==
  ASSUME VanInv, TypeOK', NEW p \in Procs, CommitFail(p)
  PROVE  AttemptsGoOn' /\ VanReads' /\ VansCarry'
  <1> DEFINE o == txn[p].order
             k == txn[p].attempt
             a == delivery[o][k]
             e == Failed(a)
  <1>1. Rewrites(o, k, e) /\ a.status = txn[p].status /\ Close(p) /\ UNCHANGED stock
    BY FailRewrites DEF VanInv, LockInv
  <1>2. txn[p].status \in OnTheRoad
    BY DEF CommitFail, VanInv, DispatchInv, ReadsAllow
  <1>3. o \in Orders /\ k \in DOMAIN delivery[o] /\ e \in Delivery
    BY <1>1 DEF Rewrites
  <1>4. a \in Delivery /\ a.status = "ASSIGNED"
    <2>1. delivery[o] \in Seq(Delivery)
      BY <1>3 DEF VanInv, LockInv, TypeInv, TypeOK
    <2>2. a \in Delivery
      BY <1>3, <2>1
    <2>3. GoesOn(a)
      BY <1>3 DEF VanInv, AttemptsGoOn
    <2> HIDE DEF a
    <2> QED
      BY <1>1, <1>2, <2>2, <2>3 DEF GoesOn, OnTheRoad
  <1> HIDE DEF o, k, a
  <1>5. e.driver = a.driver /\ e.status = "FAILED" /\ e.requiresReconciliation
    BY <1>4 DEF Failed, Delivery
  <1> HIDE DEF e
  <1>6. AttemptsGoOn'
    BY <1>1, <1>5, RewriteGoesOn DEF VanInv, LockInv, TypeInv, GoesOn
  <1>7. VanReads'
    BY <1>1, <1>5, RewriteKeepsVanReads DEF VanInv, LockInv, a
  <1>8. ASSUME NEW d \in Drivers, NEW x \in Products
        PROVE  stock'[d][x] = AnswersFor(d, x)'
    <2>1. AnswersFor(d, x)'
            = AnswersFor(d, x) + LeftOf(d, x, order[o], e) - LeftOf(d, x, order[o], a)
      BY <1>1, AnswersRewritten DEF VanInv, LockInv, TypeInv, a
    <2>2. LeftOf(d, x, order[o], e) = LeftOf(d, x, order[o], a)
      BY <1>4, <1>5 DEF LeftOf
    <2>3. LeftOf(d, x, order[o], a) \in Int
      BY <1>3, <1>4, LeftType DEF VanInv, LockInv, TypeInv, TypeOK
    <2>4. stock[d][x] = AnswersFor(d, x) /\ stock[d][x] \in Int
      BY DEF VanInv, VansCarry, LockInv, TypeInv, TypeOK, StockPositions, Places
    <2> QED
      BY <1>1, <2>1, <2>2, <2>3, <2>4
  <1> QED
    BY <1>6, <1>7, <1>8 DEF VansCarry

\* A reconciliation: the load leaves the van, and the attempt, which still
\* waited, does no more.
LEMMA ReconcileKeepsVans ==
  ASSUME VanInv, TypeOK', NEW p \in Procs, CommitReconcile(p)
  PROVE  AttemptsGoOn' /\ VanReads' /\ VansCarry'
  <1> DEFINE o == txn[p].order
             k == txn[p].attempt
             v == txn[p].driver
             w == "FILLED_WAREHOUSE"
             a == delivery[o][k]
             e == [a EXCEPT !.requiresReconciliation = FALSE]
  <1>1. /\ Rewrites(o, k, e) /\ Close(p) /\ Reconciles(p)
        /\ stock' = Moved(stock, v, w, LoadOf(o))
    BY ReconcileRewrites DEF VanInv, LockInv, Reconciles
  <1>2. o \in Orders /\ k \in DOMAIN delivery[o] /\ e \in Delivery
    BY <1>1 DEF Rewrites
  <1>3. a.requiresReconciliation /\ a.driver = v
    BY <1>1 DEF VanInv, VanReads, StillWaits, DriversStay, ReadsDriver, Reconciles
  <1>4. a \in Delivery /\ a.status = "FAILED"
    <2>1. delivery[o] \in Seq(Delivery)
      BY <1>2 DEF VanInv, LockInv, TypeInv, TypeOK
    <2>2. a \in Delivery
      BY <1>2, <2>1
    <2>3. GoesOn(a)
      BY <1>2 DEF VanInv, AttemptsGoOn
    <2> HIDE DEF a
    <2> QED
      BY <1>3, <2>2, <2>3 DEF GoesOn
  <1>5. /\ LoadOf(o) \in Load /\ v \in Drivers /\ v \in Places /\ w \in Places
        /\ w \notin Drivers /\ stock \in StockPositions
    BY LoadMoves, PlacesAssumption DEF VanInv, LockInv, Warehouse
  <1> HIDE DEF o, k, v, w, a
  <1>6. e.driver = v /\ e.status = "FAILED" /\ ~e.requiresReconciliation
    BY <1>3, <1>4 DEF Delivery
  <1> HIDE DEF e
  <1>7. AttemptsGoOn'
    BY <1>1, <1>6, RewriteGoesOn DEF VanInv, LockInv, TypeInv, GoesOn
  <1>8. VanReads'
    BY <1>1, <1>3, <1>6, RewriteKeepsVanReads DEF VanInv, LockInv, o, k, a
  <1>9. ASSUME NEW d \in Drivers, NEW x \in Products
        PROVE  stock'[d][x] = AnswersFor(d, x)'
    <2>1. AnswersFor(d, x)'
            = AnswersFor(d, x) + LeftOf(d, x, order[o], e) - LeftOf(d, x, order[o], a)
      BY <1>1, AnswersRewritten DEF VanInv, LockInv, TypeInv, a
    <2>2. /\ LeftOf(d, x, order[o], e) = 0
          /\ LeftOf(d, x, order[o], a) = IF v = d THEN LoadOf(o)[x] ELSE 0
      BY <1>3, <1>4, <1>6 DEF LeftOf, LoadOf
    <2>3. /\ stock[d][x] \in Int /\ LoadOf(o)[x] \in Nat
          /\ stock'[d][x] = stock[d][x] - IF d = v THEN LoadOf(o)[x] ELSE 0
      <3>1. d \in Places /\ d # w
        BY <1>5 DEF Places
      <3>2. /\ stock[d][x] \in Int /\ LoadOf(o)[x] \in Nat
            /\ stock'[d][x] = stock[d][x] - (IF d = v THEN LoadOf(o)[x] ELSE 0)
                                + (IF d = w THEN LoadOf(o)[x] ELSE 0)
        BY <1>1, <1>5, <3>1, MovedAt
      <3> QED
        BY <3>1, <3>2
    <2>4. stock[d][x] = AnswersFor(d, x)
      BY DEF VanInv, VansCarry
    <2> QED
      BY <2>1, <2>2, <2>3, <2>4
  <1> QED
    BY <1>7, <1>8, <1>9 DEF VansCarry

\* An assignment: a new attempt answers for the load.
LEMMA AssignKeepsVans ==
  ASSUME VanInv, TypeOK', NEW p \in Procs, CommitAssign(p)
  PROVE  AttemptsGoOn' /\ VanReads' /\ VansCarry'
  <1> DEFINE o == txn[p].order
             v == txn[p].driver
             w == "FILLED_WAREHOUSE"
             e == [status |-> "ASSIGNED", driver |-> v,
                   expected |-> order[o].expected,
                   requiresReconciliation |-> FALSE, delivered |-> 0]
  <1>1. ~txn[p].reuse
    BY DEF CommitAssign, VanInv, DispatchInv, ReadsAllow
  <1>2. /\ Adds(o, e) /\ Close(p)
        /\ stock' = Moved(stock, w, v, LoadOf(o))
    BY <1>1, AssignAdds DEF VanInv, LockInv
  <1>3. /\ LoadOf(o) \in Load /\ v \in Drivers /\ v \in Places /\ w \in Places
        /\ w \notin Drivers /\ stock \in StockPositions
    BY LoadMoves, PlacesAssumption DEF VanInv, LockInv, Warehouse
  <1>4. e.driver = v /\ e.status = "ASSIGNED" /\ ~e.requiresReconciliation
    OBVIOUS
  <1> HIDE DEF o, v, w, e
  <1>5. AttemptsGoOn'
    BY <1>2, <1>4, AddedGoesOn DEF VanInv, LockInv, TypeInv, GoesOn
  <1>6. \A y \in Orders : \A i \in DOMAIN delivery[y] : delivery'[y][i] = delivery[y][i]
    BY <1>2, AddedAt DEF VanInv, LockInv, TypeInv
  <1>7. VanReads'
    <2>1. DriversKept
      BY <1>6 DEF DriversKept
    <2>2. ASSUME NEW q \in Procs \ {p}, Reconciles(q)
          PROVE  delivery'[txn[q].order][txn[q].attempt].requiresReconciliation
      <3>1. /\ txn[q].order \in Orders
            /\ txn[q].attempt \in DOMAIN delivery[txn[q].order]
        BY <2>2, ReaderTypes DEF Reconciles, ReadsDriver, VanInv, LockInv
      <3>2. delivery[txn[q].order][txn[q].attempt].requiresReconciliation
        BY <2>2 DEF VanInv, VanReads, StillWaits
      <3> QED
        BY <1>6, <3>1, <3>2
    <2> QED
      BY <1>2, <2>1, <2>2, CloseKeepsVanReads DEF VanInv, LockInv
  <1>8. ASSUME NEW d \in Drivers, NEW x \in Products
        PROVE  stock'[d][x] = AnswersFor(d, x)'
    <2>1. AnswersFor(d, x)' = AnswersFor(d, x) + LeftOf(d, x, order[o], e)
      BY <1>2, AnswersAdded DEF VanInv, LockInv, TypeInv
    <2>2. LeftOf(d, x, order[o], e) = IF v = d THEN LoadOf(o)[x] ELSE 0
      BY <1>4 DEF LeftOf, LoadOf
    <2>3. /\ stock[d][x] \in Int /\ LoadOf(o)[x] \in Nat
          /\ stock'[d][x] = stock[d][x] + IF d = v THEN LoadOf(o)[x] ELSE 0
      <3>1. d \in Places /\ d # w
        BY <1>3 DEF Places
      <3>2. /\ stock[d][x] \in Int /\ LoadOf(o)[x] \in Nat
            /\ stock'[d][x] = stock[d][x] - (IF d = w THEN LoadOf(o)[x] ELSE 0)
                                + (IF d = v THEN LoadOf(o)[x] ELSE 0)
        BY <1>2, <1>3, <3>1, MovedAt
      <3> QED
        BY <3>1, <3>2
    <2>4. stock[d][x] = AnswersFor(d, x)
      BY DEF VanInv, VansCarry
    <2> QED
      BY <2>1, <2>2, <2>3, <2>4
  <1> QED
    BY <1>5, <1>7, <1>8 DEF VansCarry

\* Of a completion's three moves, only the first is from a van.
LEMMA HandedFromVan ==
  ASSUME TypeInv, NEW p \in Procs, txn[p].op \in Completing,
         NEW d \in Drivers, NEW x \in Products
  PROVE  /\ stock[d][x] \in Int /\ Handed(txn[p])[x] \in Nat
         /\ AfterDamaged(txn[p])[d][x]
              = stock[d][x] - IF d = txn[p].driver THEN Handed(txn[p])[x] ELSE 0
  <1> DEFINE t == txn[p]
             c == Owner[t.order]
             s1 == AfterHandOver(t)
             s2 == AfterReturn(t)
  <1>1. /\ t.driver \in Places /\ c \in Places /\ c \in Customers
        /\ Handed(t) \in Load /\ Returned(t) \in Load /\ Broken(t) \in Load
    BY CompletionTypes
  <1>2. "EMPTY_WAREHOUSE" \in Places /\ "DAMAGED" \in Places
    BY DEF Places, Warehouse
  <1>3. stock \in StockPositions
    BY DEF TypeInv, TypeOK
  <1>4. d \in Places /\ d # c /\ d # "EMPTY_WAREHOUSE" /\ d # "DAMAGED"
    BY <1>1, PlacesAssumption DEF Places, Warehouse
  <1> DEFINE s3 == AfterDamaged(t)
             v == t.driver
             h == Handed(t)
             r == Returned(t)
             b == Broken(t)
  <1>5. /\ s1 = Moved(stock, v, c, h)
        /\ s2 = Moved(s1, c, "EMPTY_WAREHOUSE", r)
        /\ s3 = Moved(s2, c, "DAMAGED", b)
    BY DEF AfterHandOver, AfterReturn, AfterDamaged
  <1>6. v \in Places /\ h \in Load /\ r \in Load /\ b \in Load
    BY <1>1
  <1> HIDE DEF t, c, s1, s2, s3, v, h, r, b
  <1>7. /\ stock[d][x] \in Int /\ h[x] \in Nat /\ s1 \in StockPositions
        /\ s1[d][x] = stock[d][x] - (IF d = v THEN h[x] ELSE 0)
                        + (IF d = c THEN h[x] ELSE 0)
    <2>1. /\ stock \in StockPositions /\ v \in Places /\ c \in Places
          /\ h \in Load /\ d \in Places
      BY <1>1, <1>3, <1>4, <1>6
    <2>2. /\ stock[d][x] \in Int /\ h[x] \in Nat
          /\ Moved(stock, v, c, h) \in StockPositions
          /\ Moved(stock, v, c, h)[d][x]
               = stock[d][x] - (IF d = v THEN h[x] ELSE 0)
                   + (IF d = c THEN h[x] ELSE 0)
      BY <2>1, MovedAt
    <2> QED
      BY <1>5, <2>2
  <1>9. /\ s1[d][x] \in Int /\ r[x] \in Nat /\ s2 \in StockPositions
        /\ s2[d][x] = s1[d][x] - (IF d = c THEN r[x] ELSE 0)
                        + (IF d = "EMPTY_WAREHOUSE" THEN r[x] ELSE 0)
    <2>1. /\ s1 \in StockPositions /\ c \in Places /\ "EMPTY_WAREHOUSE" \in Places
          /\ r \in Load /\ d \in Places
      BY <1>1, <1>2, <1>4, <1>6, <1>7
    <2>2. /\ s1[d][x] \in Int /\ r[x] \in Nat
          /\ Moved(s1, c, "EMPTY_WAREHOUSE", r) \in StockPositions
          /\ Moved(s1, c, "EMPTY_WAREHOUSE", r)[d][x]
               = s1[d][x] - (IF d = c THEN r[x] ELSE 0)
                   + (IF d = "EMPTY_WAREHOUSE" THEN r[x] ELSE 0)
      BY <2>1, MovedAt
    <2> QED
      BY <1>5, <2>2
  <1>10. /\ s2[d][x] \in Int /\ b[x] \in Nat
         /\ s3[d][x] = s2[d][x] - (IF d = c THEN b[x] ELSE 0)
                         + (IF d = "DAMAGED" THEN b[x] ELSE 0)
    <2>1. /\ s2 \in StockPositions /\ c \in Places /\ "DAMAGED" \in Places
          /\ b \in Load /\ d \in Places
      BY <1>1, <1>2, <1>4, <1>6, <1>9
    <2>2. /\ s2[d][x] \in Int /\ b[x] \in Nat
          /\ Moved(s2, c, "DAMAGED", b) \in StockPositions
          /\ Moved(s2, c, "DAMAGED", b)[d][x]
               = s2[d][x] - (IF d = c THEN b[x] ELSE 0)
                   + (IF d = "DAMAGED" THEN b[x] ELSE 0)
      BY <2>1, MovedAt
    <2> QED
      BY <1>5, <2>2
  <1>8. s3[d][x] = stock[d][x] - IF d = v THEN h[x] ELSE 0
    BY <1>4, <1>7, <1>9, <1>10
  <1> QED
    BY <1>7, <1>8 DEF s3, v, h, t

\* A completion: the attempt answers for what was not handed over.
LEMMA CompleteKeepsVans ==
  ASSUME VanInv, TypeOK', NEW p \in Procs, Completes(p)
  PROVE  AttemptsGoOn' /\ VanReads' /\ VansCarry'
  <1> DEFINE t == txn[p]
             o == t.order
             k == t.attempt
             v == t.driver
             n == t.form.delivered
             a == delivery[o][k]
             e == [a EXCEPT !.status = "DELIVERED", !.delivered = n]
  <1>1. /\ Rewrites(o, k, e) /\ a.status = t.status /\ Close(p)
        /\ stock' = AfterDamaged(t)
    BY CompleteRewrites DEF VanInv, LockInv, Completes, CompleteWrites
  <1>2. t.status \in OnTheRoad
    BY DEF Completes, VanInv, DispatchInv, ReadsAllow
  <1>3. o \in Orders /\ k \in DOMAIN delivery[o] /\ e \in Delivery
    BY <1>1 DEF Rewrites
  <1>4. a \in Delivery /\ a.status = "ASSIGNED" /\ ~a.requiresReconciliation
    <2>1. delivery[o] \in Seq(Delivery)
      BY <1>3 DEF VanInv, LockInv, TypeInv, TypeOK
    <2>2. a \in Delivery
      BY <1>3, <2>1
    <2>3. GoesOn(a)
      BY <1>3 DEF VanInv, AttemptsGoOn
    <2> HIDE DEF a, t
    <2> QED
      BY <1>1, <1>2, <2>2, <2>3 DEF GoesOn, OnTheRoad
  <1>5. a.driver = v
    BY DEF VanInv, VanReads, DriversStay, ReadsDriver, Completes
  <1>6. LoadOf(o) \in Load
    BY <1>3, LoadTypesOf DEF VanInv, LockInv
  <1>7. Handed(t) = HandedOver(order[o].lines, order[o].reward, n)
    BY DEF Handed
  <1> HIDE DEF o, k, v, n, a
  <1>8. /\ e.driver = v /\ e.status = "DELIVERED" /\ ~e.requiresReconciliation
        /\ e.delivered = n
    BY <1>4, <1>5 DEF Delivery
  <1> HIDE DEF e
  <1>9. AttemptsGoOn'
    BY <1>1, <1>8, RewriteGoesOn DEF VanInv, LockInv, TypeInv, GoesOn
  <1>10. VanReads'
    BY <1>1, <1>4, <1>5, <1>8, RewriteKeepsVanReads DEF VanInv, LockInv, a
  <1>11. ASSUME NEW d \in Drivers, NEW x \in Products
         PROVE  stock'[d][x] = AnswersFor(d, x)'
    <2>1. AnswersFor(d, x)'
            = AnswersFor(d, x) + LeftOf(d, x, order[o], e) - LeftOf(d, x, order[o], a)
      BY <1>1, AnswersRewritten DEF VanInv, LockInv, TypeInv, a
    <2>2. /\ LeftOf(d, x, order[o], a) = IF v = d THEN LoadOf(o)[x] ELSE 0
          /\ LeftOf(d, x, order[o], e)
               = IF v = d THEN LoadOf(o)[x] - Handed(t)[x] ELSE 0
      BY <1>4, <1>5, <1>7, <1>8 DEF LeftOf, LoadOf
    <2>3. LoadOf(o)[x] \in Nat
      BY <1>6 DEF Load
    <2>4. /\ stock[d][x] \in Int /\ Handed(t)[x] \in Nat
          /\ stock'[d][x] = stock[d][x] - IF d = v THEN Handed(t)[x] ELSE 0
      BY <1>1, HandedFromVan DEF VanInv, LockInv, Completes, v
    <2>5. stock[d][x] = AnswersFor(d, x)
      BY DEF VanInv, VansCarry
    <2> HIDE DEF t
    <2> QED
      BY <2>1, <2>2, <2>3, <2>4, <2>5
  <1> QED
    BY <1>9, <1>10, <1>11 DEF VansCarry

\* Beginning a request.
LEMMA BeginsKeepVanReads ==
  ASSUME VanInv, ~StaleReconcile, NEW p \in Procs,
         \/ \E o \in Orders, cart \in Carts, redeem \in BOOLEAN :
              BeginPlace(p, o, cart, redeem)
         \/ \E o \in Orders : BeginCancel(p, o)
         \/ \E o \in Orders, d \in Drivers : BeginAssign(p, o, d)
         \/ \E o \in Orders : \E k \in DOMAIN delivery[o] :
              \/ \E form \in Forms, refill \in Products \cup {Nobody} :
                   BeginComplete(p, o, k, form, refill)
              \/ BeginFail(p, o, k)
              \/ BeginReconcile(p, o, k)
  PROVE  VanReads'
  <1>0. TypeInv /\ VanReads
    BY DEF VanInv, LockInv
  <1>1. ASSUME NEW o \in Orders, NEW cart \in Carts, NEW redeem \in BOOLEAN,
               BeginPlace(p, o, cart, redeem)
        PROVE  VanReads'
    <2>1. PICK t : Begin(p, t) /\ t.op = "place"
      BY <1>1 DEF BeginPlace
    <2> QED
      BY <1>0, <2>1, BeginKeepsVanReads DEF Completing
  <1>2. ASSUME NEW o \in Orders, BeginCancel(p, o)
        PROVE  VanReads'
    <2>1. PICK t : Begin(p, t) /\ t.op = "cancel"
      BY <1>2 DEF BeginCancel
    <2> QED
      BY <1>0, <2>1, BeginKeepsVanReads DEF Completing
  <1>3. ASSUME NEW o \in Orders, NEW d \in Drivers, BeginAssign(p, o, d)
        PROVE  VanReads'
    <2>1. PICK t : Begin(p, t) /\ t.op = "assign"
      BY <1>3 DEF BeginAssign
    <2> QED
      BY <1>0, <2>1, BeginKeepsVanReads DEF Completing
  <1>4. ASSUME NEW o \in Orders, NEW k \in DOMAIN delivery[o],
               NEW form \in Forms, NEW refill \in Products \cup {Nobody},
               BeginComplete(p, o, k, form, refill)
        PROVE  VanReads'
    <2>1. PICK t : /\ Begin(p, t) /\ t.op = "complete"
                   /\ t.order = o /\ t.attempt = k
                   /\ t.driver = delivery[o][k].driver
      BY <1>4 DEF BeginComplete
    <2> QED
      BY <1>0, <2>1, BeginKeepsVanReads DEF Completing
  <1>5. ASSUME NEW o \in Orders, NEW k \in DOMAIN delivery[o], BeginFail(p, o, k)
        PROVE  VanReads'
    <2>1. PICK t : Begin(p, t) /\ t.op = "fail"
      BY <1>5 DEF BeginFail
    <2> QED
      BY <1>0, <2>1, BeginKeepsVanReads DEF Completing
  <1>6. ASSUME NEW o \in Orders, NEW k \in DOMAIN delivery[o], BeginReconcile(p, o, k)
        PROVE  VanReads'
    <2> DEFINE t == [op |-> "reconcile", order |-> o, attempt |-> k,
                     driver |-> delivery[o][k].driver]
    <2>1. /\ Begin(p, t) /\ delivery[o][k].requiresReconciliation
          /\ \A q \in Procs :
               Reconciles(q) => txn[q].order # o \/ txn[q].attempt # k
      BY <1>6 DEF BeginReconcile, AwaitsReconciliation, Reconciles
    <2>2. t.order = o /\ t.attempt = k /\ t.driver = delivery[o][k].driver
      OBVIOUS
    <2> HIDE DEF t
    <2> QED
      BY <1>0, <2>1, <2>2, BeginKeepsVanReads
  <1> QED
    BY <1>1, <1>2, <1>3, <1>4, <1>5, <1>6

\* A step that changes no attempt and moves no stock.
LEMMA QuietKeepsVans ==
  ASSUME VanInv, KeepsAnswers, UNCHANGED stock
  PROVE  AttemptsGoOn' /\ VansCarry'
  <1>1. UNCHANGED delivery
    BY DEF KeepsAnswers
  <1>2. AttemptsGoOn'
    BY <1>1 DEF VanInv, AttemptsGoOn, GoesOn
  <1>3. ASSUME NEW d \in Drivers, NEW x \in Products
        PROVE  stock'[d][x] = AnswersFor(d, x)'
    <2>1. AnswersFor(d, x)' = AnswersFor(d, x)
      BY AnswersKept DEF VanInv, LockInv, TypeInv
    <2>2. stock[d][x] = AnswersFor(d, x)
      BY DEF VanInv, VansCarry
    <2> QED
      BY <2>1, <2>2
  <1> QED
    BY <1>2, <1>3 DEF VansCarry

\* Placing rewrites an order that has no attempts, cancelling keeps the items,
\* and beginning, advancing or abandoning a request changes no row.
LEMMA QuietSteps ==
  ASSUME LockInv, NEW p \in Procs,
         \/ \E t : Begin(p, t)
         \/ QualifyReferral(p) \/ ReadRewardBalance(p) \/ Rollback(p)
         \/ CommitPlace(p) \/ CommitCancel(p)
  PROVE  KeepsAnswers /\ UNCHANGED stock
  <1>0. order \in [Orders -> Order] /\ (txn[p] # Idle => txn[p].order \in Orders)
    BY TxnTypes DEF LockInv, TypeInv, TypeOK
  <1>1. CASE \/ \E t : Begin(p, t)
             \/ QualifyReferral(p) \/ ReadRewardBalance(p) \/ Rollback(p)
    <2>1. UNCHANGED <<order, delivery, stock>>
      BY <1>1 DEF Begin, QualifyReferral, ReadRewardBalance, Rollback
    <2> QED
      BY <2>1 DEF KeepsAnswers, ItemsKept
  <1>2. CASE CommitPlace(p)
    <2> DEFINE o == txn[p].order
    <2>1. o \in Orders /\ order[o].status = "NONE"
      BY <1>0, <1>2 DEF CommitPlace, Idle
    <2>2. \A y \in Orders \ {o} : order'[y] = order[y]
      BY <1>0, <1>2 DEF CommitPlace
    <2>3. UNCHANGED <<delivery, stock>>
      BY <1>2 DEF CommitPlace
    <2>4. delivery[o] = <<>>
      BY <2>1 DEF LockInv, PlacedFirst
    <2> QED
      BY <2>2, <2>3, <2>4 DEF KeepsAnswers, ItemsKept
  <1>3. CASE CommitCancel(p)
    <2> DEFINE o == txn[p].order
    <2>1. o \in Orders /\ order' = [order EXCEPT ![o].status = "CANCELLED"]
      <3>1. /\ txn[p].op = "cancel"
            /\ order' = [order EXCEPT ![o].status = "CANCELLED"]
        BY <1>3 DEF CommitCancel
      <3> QED
        BY <1>0, <3>1 DEF Idle
    <2>2. UNCHANGED <<delivery, stock>>
      BY <1>3 DEF CommitCancel
    <2>3. \A y \in Orders : ItemsKept(y)
      <3>1. \A y \in Orders :
              order'[y] = IF y = o THEN [order[y] EXCEPT !.status = "CANCELLED"]
                                   ELSE order[y]
        BY <1>0, <2>1
      <3>2. \A y \in Orders : order[y] \in Order
        BY <1>0
      <3> QED
        BY <3>1, <3>2 DEF ItemsKept, Order
    <2> QED
      BY <2>2, <2>3 DEF KeepsAnswers
  <1> QED
    BY <1>1, <1>2, <1>3

\* Advancing, abandoning or ending a request that changes no attempt.
LEMMA QuietKeepsVanReads ==
  ASSUME TypeInv, VanReads, NEW p \in Procs,
         \/ QualifyReferral(p) \/ ReadRewardBalance(p) \/ Rollback(p)
         \/ CommitPlace(p) \/ CommitCancel(p)
  PROVE  VanReads'
  <1>1. UNCHANGED delivery
    BY DEF QualifyReferral, ReadRewardBalance, Rollback, CommitPlace, CommitCancel
  <1>2. CASE Close(p)
    <2>1. DriversKept
      BY <1>1 DEF DriversKept
    <2> QED
      BY <1>1, <1>2, <2>1, CloseKeepsVanReads DEF VanReads, StillWaits
  <1>3. CASE QualifyReferral(p) \/ ReadRewardBalance(p)
    <2>1. txn[p].op \in Completing /\ txn[p] \in Delivering
      BY <1>3, TxnTypes
      DEF QualifyReferral, ReadRewardBalance, Completing, TypeInv
    <2>2. /\ \A q \in Procs \ {p} : txn'[q] = txn[q]
          /\ txn'[p].op \in Completing /\ txn'[p].op # "reconcile"
          /\ txn'[p].order = txn[p].order /\ txn'[p].attempt = txn[p].attempt
          /\ txn'[p].driver = txn[p].driver
      <3>1. txn \in [Procs -> Transaction]
        BY DEF TypeInv, TypeOK
      <3>2. \/ txn' = [txn EXCEPT ![p].op = "counted",
                                  ![p].count = Cardinality(
                                     Qualified(Referrer[Owner[txn[p].order]])) + 1]
            \/ txn' = [txn EXCEPT ![p].op = "granting",
                                  ![p].earned = reward[Referrer[Owner[txn[p].order]]].earned]
        BY <1>3 DEF QualifyReferral, ReadRewardBalance
      <3> QED
        BY <2>1, <3>1, <3>2 DEF Delivering, Completing
    <2>3. DriversStay'
      BY <1>1, <2>1, <2>2 DEF VanReads, DriversStay, ReadsDriver
    <2>4. StillWaits'
      BY <1>1, <2>2 DEF VanReads, StillWaits, Reconciles
    <2>5. ReconciledOnce'
      BY <2>2 DEF VanReads, ReconciledOnce, Reconciles
    <2> QED
      BY <2>3, <2>4, <2>5 DEF VanReads
  <1> QED
    BY <1>2, <1>3 DEF Rollback, CommitPlace, CommitCancel

\* Every step keeps the invariant.
LEMMA StepKeepsVans ==
  ASSUME CurrentForms, ~StaleReconcile, VanInv, [Next]_vars
  PROVE  VanInv'
  <1>1. LockInv' /\ DispatchInv' /\ TypeOK'
    BY StepKeepsLocks, StepKeepsDispatch DEF VanInv, LockInv, TypeInv
  <1>2. CASE UNCHANGED vars
    <2>1. UNCHANGED <<order, delivery, stock, txn>>
      BY <1>2 DEF vars
    <2>2. KeepsAnswers
      BY <2>1 DEF KeepsAnswers, ItemsKept
    <2>3. VanReads'
      BY <2>1 DEF VanInv, VanReads, DriversStay, StillWaits, ReconciledOnce,
                  ReadsDriver, Reconciles
    <2> QED
      BY <1>1, <2>1, <2>2, <2>3, QuietKeepsVans DEF VanInv
  <1>3. CASE Next
    <2>1. PICK p \in Procs :
            \/ \E o \in Orders, cart \in Carts, redeem \in BOOLEAN :
                 BeginPlace(p, o, cart, redeem)
            \/ \E o \in Orders : BeginCancel(p, o)
            \/ \E o \in Orders, d \in Drivers : BeginAssign(p, o, d)
            \/ \E o \in Orders : \E k \in DOMAIN delivery[o] :
                 \/ \E form \in Forms, refill \in Products \cup {Nobody} :
                      BeginComplete(p, o, k, form, refill)
                 \/ BeginFail(p, o, k)
                 \/ BeginReconcile(p, o, k)
            \/ QualifyReferral(p) \/ ReadRewardBalance(p) \/ Rollback(p)
            \/ CommitPlace(p) \/ CommitCancel(p) \/ CommitAssign(p)
            \/ CommitComplete(p) \/ CommitQualifying(p) \/ CommitFail(p)
            \/ CommitReconcile(p)
      BY <1>3 DEF Next
    <2>2. CASE \/ \E o \in Orders, cart \in Carts, redeem \in BOOLEAN :
                    BeginPlace(p, o, cart, redeem)
               \/ \E o \in Orders : BeginCancel(p, o)
               \/ \E o \in Orders, d \in Drivers : BeginAssign(p, o, d)
               \/ \E o \in Orders : \E k \in DOMAIN delivery[o] :
                    \/ \E form \in Forms, refill \in Products \cup {Nobody} :
                         BeginComplete(p, o, k, form, refill)
                    \/ BeginFail(p, o, k)
                    \/ BeginReconcile(p, o, k)
      <3>1. \E t : Begin(p, t)
        BY <2>2 DEF BeginPlace, BeginCancel, BeginAssign, BeginComplete,
                    BeginFail, BeginReconcile
      <3>2. VanReads'
        BY <2>2, BeginsKeepVanReads
      <3>3. KeepsAnswers /\ UNCHANGED stock
        BY <3>1, QuietSteps DEF VanInv
      <3> QED
        BY <1>1, <3>2, <3>3, QuietKeepsVans DEF VanInv
    <2>3. CASE \/ QualifyReferral(p) \/ ReadRewardBalance(p) \/ Rollback(p)
               \/ CommitPlace(p) \/ CommitCancel(p)
      <3>1. KeepsAnswers /\ UNCHANGED stock
        BY <2>3, QuietSteps DEF VanInv
      <3>2. VanReads'
        BY <2>3, QuietKeepsVanReads DEF VanInv, LockInv
      <3> QED
        BY <1>1, <3>1, <3>2, QuietKeepsVans DEF VanInv
    <2>4. CASE CommitAssign(p)
      BY <1>1, <2>4, AssignKeepsVans DEF VanInv
    <2>5. CASE CommitComplete(p) \/ CommitQualifying(p)
      <3>1. Completes(p)
        BY <2>5 DEF VanInv, LockInv, LocksProtectCompletion, CommitComplete,
                    CommitQualifying, Completes, Completing
      <3> QED
        BY <1>1, <3>1, CompleteKeepsVans DEF VanInv
    <2>6. CASE CommitFail(p)
      BY <1>1, <2>6, FailKeepsVans DEF VanInv
    <2>7. CASE CommitReconcile(p)
      BY <1>1, <2>7, ReconcileKeepsVans DEF VanInv
    <2> QED
      BY <2>1, <2>2, <2>3, <2>4, <2>5, <2>6, <2>7
  <1> QED
    BY <1>2, <1>3

\* At the start the vans are empty and there are no attempts.
LEMMA InitVans == Init => VanInv
  <1> SUFFICES ASSUME Init PROVE VanInv
    OBVIOUS
  <1>1. LockInv /\ DispatchInv
    BY InitLocks, InitDispatch
  <1>2. \A o \in Orders : delivery[o] = <<>>
    BY DEF Init
  <1>3. \A p \in Procs : txn[p].op = "idle"
    BY DEF Init, Idle
  <1>4. AttemptsGoOn
    BY <1>2 DEF AttemptsGoOn
  <1>5. VanReads
    BY <1>3 DEF VanReads, DriversStay, StillWaits, ReconciledOnce, ReadsDriver,
                Reconciles, Completing
  <1>6. ASSUME NEW d \in Drivers, NEW x \in Products
        PROVE  stock[d][x] = AnswersFor(d, x)
    <2>1. stock[d][x] = 0
      <3>1. d \in Places /\ d # "FILLED_WAREHOUSE"
        BY PlacesAssumption DEF Places, Warehouse
      <3> QED
        BY <3>1 DEF Init, NoBottles
    <2> DEFINE f == [o \in Orders |-> LeftOfOrder(d, x, o)]
    <2>2. \A o \in Orders : LeftOfOrder(d, x, o) = 0
      <3> SUFFICES ASSUME NEW o \in Orders PROVE LeftOfOrder(d, x, o) = 0
        OBVIOUS
      <3> DEFINE g == [k \in DOMAIN delivery[o] |-> LeftOnVan(d, x, o, delivery[o][k])]
      <3>1. DOMAIN g = {}
        BY <1>2
      <3>2. LeftOfOrder(d, x, o) = SumFunctionOnSet(g, DOMAIN g)
        BY DEF LeftOfOrder, SumFunction
      <3> HIDE DEF g
      <3> QED
        BY <3>1, <3>2, SumEmpty
    <2>3. \A o \in Orders : f[o] = 0
      BY <2>2
    <2>4. AnswersFor(d, x) = SumFunctionOnSet(f, Orders)
      BY DEF AnswersFor, SumFunction
    <2>5. IsFiniteSet(Orders)
      BY FulfilmentAssumption
    <2> HIDE DEF f
    <2>6. SumFunctionOnSet(f, Orders) = 0
      BY <2>3, <2>5, SumZero
    <2> QED
      BY <2>1, <2>4, <2>6
  <1>7. VansCarry
    BY <1>6 DEF VansCarry
  <1> QED
    BY <1>1, <1>4, <1>5, <1>7 DEF VanInv

\* The invariant holds in every reachable state, unless two reconciliations of
\* one delivery overlap: both would give the load back.
LEMMA VanInvariant ==
  ASSUME CurrentForms, ~StaleReconcile
  PROVE  Spec => []VanInv
  <1>1. VanInv /\ [Next]_vars => VanInv'
    BY StepKeepsVans
  <1> QED
    BY <1>1, InitVans, PTL DEF Spec

\* Every number of vans, orders and requests: a van has the bottles of all
\* attempts that are on their way, wait for reconciliation, or were completed
\* with bottles left over.
THEOREM LoadsAreThere ==
  ASSUME CurrentForms, ~StaleReconcile
  PROVE  Spec => []VansHoldTheirLoads
  <1>1. VanInv => VansHoldTheirLoads
    <2> SUFFICES ASSUME VanInv, NEW d \in Drivers, NEW x \in Products
                 PROVE  stock[d][x] >= AnswersFor(d, x)
      BY DEF VansHoldTheirLoads
    <2>1. stock[d][x] = AnswersFor(d, x) /\ stock[d][x] \in Int
      BY DEF VanInv, VansCarry, LockInv, TypeInv, TypeOK, StockPositions, Places
    <2> QED
      BY <2>1
  <1> QED
    BY <1>1, VanInvariant, PTL

\* And no bottle is left on a van that no attempt accounts for: what comes off a
\* failed or a partial delivery is reconciled or remains the driver's.
THEOREM NothingStranded ==
  ASSUME CurrentForms, ~StaleReconcile
  PROVE  Spec => []NoStrandedBottles
  <1>1. VanInv => NoStrandedBottles
    <2> SUFFICES ASSUME VanInv, NEW d \in Drivers, NEW x \in Products
                 PROVE  stock[d][x] <= AnswersFor(d, x)
      BY DEF NoStrandedBottles
    <2>1. stock[d][x] = AnswersFor(d, x) /\ stock[d][x] \in Int
      BY DEF VanInv, VansCarry, LockInv, TypeInv, TypeOK, StockPositions, Places
    <2> QED
      BY <2>1
  <1> QED
    BY <1>1, VanInvariant, PTL

-----------------------------------------------------------------------------
(* Bottles as numbers.                                                      *)

\* The bottles of two loads together.
LEMMA BottlesAdd ==
  ASSUME NEW f \in [Products -> Int], NEW g \in [Products -> Int],
         NEW h \in [Products -> Int], \A x \in Products : h[x] = f[x] + g[x]
  PROVE  /\ Bottles(f) \in Int /\ Bottles(g) \in Int /\ Bottles(h) \in Int
         /\ Bottles(h) = Bottles(f) + Bottles(g)
  <1>1. IsFiniteSet(Products)
    BY FulfilmentAssumption
  <1>2. DOMAIN f = Products /\ DOMAIN g = Products /\ DOMAIN h = Products
    OBVIOUS
  <1>3. /\ Bottles(f) = SumFunctionOnSet(f, Products)
        /\ Bottles(g) = SumFunctionOnSet(g, Products)
        /\ Bottles(h) = SumFunctionOnSet(h, Products)
    BY <1>2 DEF Bottles, SumFunction
  <1>4. \A x \in Products : f[x] \in Int /\ g[x] \in Int /\ h[x] = f[x] + g[x]
    OBVIOUS
  <1>5. \A x \in Products : f[x] \in Int
    OBVIOUS
  <1>6. \A x \in Products : g[x] \in Int
    OBVIOUS
  <1>7. SumFunctionOnSet(f, Products) \in Int /\ SumFunctionOnSet(g, Products) \in Int
    BY <1>1, <1>5, <1>6, SumType
  <1>8. SumFunctionOnSet(h, Products)
          = SumFunctionOnSet(f, Products) + SumFunctionOnSet(g, Products)
    BY <1>1, <1>4, SumOfTwo
  <1> QED
    BY <1>3, <1>7, <1>8

\* Bottles of a quantity per product.
LEMMA BottlesType ==
  ASSUME NEW f \in [Products -> Int]
  PROVE  Bottles(f) \in Int
  <1> DEFINE none == [x \in Products |-> 0]
  <1>1. none \in [Products -> Int] /\ \A x \in Products : f[x] = f[x] + none[x]
    OBVIOUS
  <1> HIDE DEF none
  <1> QED
    BY <1>1, BottlesAdd

\* Bottles of one product are as many as they are; of no product, none.
LEMMA BottlesOnly ==
  ASSUME NEW r, NEW n \in Nat
  PROVE  Bottles(Only(r, n)) = IF r \in Products THEN n ELSE 0
  <1> DEFINE f == Only(r, n)
             none == [x \in Products |-> 0]
  <1>1. IsFiniteSet(Products)
    BY FulfilmentAssumption
  <1>2. DOMAIN f = Products /\ \A x \in Products : f[x] = IF x = r THEN n ELSE 0
    BY DEF Only
  <1>3. \A x \in Products : none[x] = 0
    OBVIOUS
  <1>4. Bottles(f) = SumFunctionOnSet(f, Products)
    BY <1>2 DEF Bottles, SumFunction
  <1> HIDE DEF f, none
  <1>5. SumFunctionOnSet(none, Products) = 0
    BY <1>1, <1>3, SumZero
  <1>6. CASE r \in Products
    <2>1. ASSUME NEW x \in Products
          PROVE  none[x] \in Int /\ f[x] \in Int
      <3>1. none[x] = 0 /\ f[x] = IF x = r THEN n ELSE 0
        BY <1>2, <1>3
      <3> QED
        BY <3>1
    <2>2. \A x \in Products \ {r} : none[x] = f[x]
      BY <1>2, <1>3
    <2>3. SumFunctionOnSet(f, Products)
            = SumFunctionOnSet(none, Products) + f[r] - none[r]
      BY <1>1, <1>6, <2>1, <2>2, SumChange
    <2> QED
      BY <1>2, <1>3, <1>4, <1>5, <1>6, <2>3 DEF f
  <1>7. CASE r \notin Products
    <2>1. \A x \in Products : f[x] = 0
      BY <1>2, <1>7
    <2>2. SumFunctionOnSet(f, Products) = 0
      BY <1>1, <2>1, SumZero
    <2> QED
      BY <1>4, <1>7, <2>2 DEF f
  <1> QED
    BY <1>6, <1>7

\* Some product's bottles are no more than all, and termwise fewer are fewer.
LEMMA BottlesAtMost ==
  ASSUME NEW f \in Load, NEW g \in Load
  PROVE  /\ \A x \in Products : f[x] <= Bottles(f)
         /\ (\A x \in Products : f[x] <= g[x]) => Bottles(f) <= Bottles(g)
         /\ (\A x \in Products : f[x] = 0) => Bottles(f) = 0
         /\ Bottles(f) \in Nat
  <1>1. IsFiniteSet(Products)
    BY FulfilmentAssumption
  <1>2. DOMAIN f = Products /\ DOMAIN g = Products
    BY DEF Load
  <1>3. /\ Bottles(f) = SumFunctionOnSet(f, Products)
        /\ Bottles(g) = SumFunctionOnSet(g, Products)
    BY <1>2 DEF Bottles, SumFunction
  <1>4. \A x \in Products : f[x] \in Nat
    BY DEF Load
  <1>5. \A x \in Products : g[x] \in Nat
    BY DEF Load
  <1>6. \A x \in Products : f[x] <= SumFunctionOnSet(f, Products)
    BY <1>1, <1>4, SumAtLeast
  <1>7. ASSUME \A x \in Products : f[x] <= g[x]
        PROVE  SumFunctionOnSet(f, Products) <= SumFunctionOnSet(g, Products)
    <2>1. ASSUME NEW x \in Products
          PROVE  f[x] \in Int /\ g[x] \in Int /\ f[x] <= g[x]
      <3>1. f[x] \in Nat /\ g[x] \in Nat /\ f[x] <= g[x]
        BY <1>4, <1>5, <1>7
      <3> QED
        BY <3>1
    <2> QED
      BY <1>1, <2>1, SumAtMost
  <1>8. ASSUME \A x \in Products : f[x] = 0
        PROVE  SumFunctionOnSet(f, Products) = 0
    BY <1>1, <1>8, SumZero
  <1>9. SumFunctionOnSet(f, Products) \in Nat
    BY <1>1, <1>4, SumType
  <1> QED
    BY <1>3, <1>6, <1>7, <1>8, <1>9

-----------------------------------------------------------------------------
(* What a customer has.  The strengthening behind SurplusIsOwed: the        *)
(* empties expected are those of the order's lines, also on its attempts;   *)
(* the refill a completion has read is still one of its order's lines; and  *)
(* no customer holds more bottles than are outstanding.                     *)
(*                                                                          *)
(* completeDelivery moves no stock for bottles that are reported back on an *)
(* order without any exchange line, but takes them off the balance all the  *)
(* same; that drivers do not report any there is a hypothesis about them.   *)

BottlesReported ==
  \A p \in Procs :
    txn[p].op \in Completing /\ txn[p].refill = Nobody =>
      txn[p].form.empties + txn[p].form.damaged = 0

\* The one reported count stands for the bottles of all lines together.
FormsTell ==
  /\ BottlesReported
  /\ \A p \in Procs :
       txn[p].op \in Completing => Bottles(Handed(txn[p])) = txn[p].form.delivered

ExpectedIsLines ==
  \A o \in Orders :
    /\ order[o].expected = ExpectedEmpties(order[o].lines, order[o].reward)
    /\ \A k \in DOMAIN delivery[o] : delivery[o][k].expected = order[o].expected

RefillIsLine ==
  \A p \in Procs :
    txn[p].op \in Completing =>
      txn[p].refill
        \in Refillable(order[txn[p].order].lines, order[txn[p].order].reward)

HeldIsOwed == \A c \in Customers : Bottles(stock[c]) <= account[c].outstanding

LineInv == LockInv /\ ExpectedIsLines /\ RefillIsLine
OwedInv == LineInv /\ HeldIsOwed

\* At a customer a completion adds what it hands over and takes what came back.
LEMMA CompletionAtCustomer ==
  ASSUME TypeInv, NEW p \in Procs, txn[p].op \in Completing,
         NEW cust \in Customers, NEW x \in Products
  PROVE  LET t == txn[p]
         IN  /\ stock[cust][x] \in Int
             /\ Handed(t)[x] \in Nat /\ Returned(t)[x] \in Nat /\ Broken(t)[x] \in Nat
             /\ AfterDamaged(t)[cust][x]
                  = stock[cust][x]
                      + IF cust = Owner[t.order]
                          THEN Handed(t)[x] - Returned(t)[x] - Broken(t)[x] ELSE 0
  <1> DEFINE t == txn[p]
             c == Owner[t.order]
             s1 == AfterHandOver(t)
             s2 == AfterReturn(t)
             s3 == AfterDamaged(t)
             v == t.driver
             h == Handed(t)
             r == Returned(t)
             b == Broken(t)
  <1>1. t.driver \in Places /\ c \in Places /\ t.driver \in Drivers
    BY CompletionTypes DEF Delivering
  <1>2. v \in Places /\ h \in Load /\ r \in Load /\ b \in Load
    BY CompletionTypes
  <1>3. "EMPTY_WAREHOUSE" \in Places /\ "DAMAGED" \in Places
    BY DEF Places, Warehouse
  <1>4. stock \in StockPositions
    BY DEF TypeInv, TypeOK
  <1>5. /\ cust \in Places /\ cust # v
        /\ cust # "EMPTY_WAREHOUSE" /\ cust # "DAMAGED"
    BY <1>1, PlacesAssumption DEF Places, Warehouse
  <1>6. /\ s1 = Moved(stock, v, c, h)
        /\ s2 = Moved(s1, c, "EMPTY_WAREHOUSE", r)
        /\ s3 = Moved(s2, c, "DAMAGED", b)
    BY DEF AfterHandOver, AfterReturn, AfterDamaged
  <1> HIDE DEF t, c, s1, s2, s3, v, h, r, b
  <1>7. /\ stock[cust][x] \in Int /\ h[x] \in Nat /\ s1 \in StockPositions
        /\ s1[cust][x] = stock[cust][x] - (IF cust = v THEN h[x] ELSE 0)
                           + (IF cust = c THEN h[x] ELSE 0)
    <2>1. /\ stock \in StockPositions /\ v \in Places /\ c \in Places
          /\ h \in Load /\ cust \in Places
      BY <1>1, <1>2, <1>4, <1>5
    <2>2. /\ stock[cust][x] \in Int /\ h[x] \in Nat
          /\ Moved(stock, v, c, h) \in StockPositions
          /\ Moved(stock, v, c, h)[cust][x]
               = stock[cust][x] - (IF cust = v THEN h[x] ELSE 0)
                   + (IF cust = c THEN h[x] ELSE 0)
      BY <2>1, MovedAt
    <2> QED
      BY <1>6, <2>2
  <1>8. /\ s1[cust][x] \in Int /\ r[x] \in Nat /\ s2 \in StockPositions
        /\ s2[cust][x] = s1[cust][x] - (IF cust = c THEN r[x] ELSE 0)
                           + (IF cust = "EMPTY_WAREHOUSE" THEN r[x] ELSE 0)
    <2>1. /\ s1 \in StockPositions /\ c \in Places
          /\ r \in Load /\ cust \in Places /\ "EMPTY_WAREHOUSE" \in Places
      BY <1>1, <1>2, <1>3, <1>5, <1>7
    <2>2. /\ s1[cust][x] \in Int /\ r[x] \in Nat
          /\ Moved(s1, c, "EMPTY_WAREHOUSE", r) \in StockPositions
          /\ Moved(s1, c, "EMPTY_WAREHOUSE", r)[cust][x]
               = s1[cust][x] - (IF cust = c THEN r[x] ELSE 0)
                   + (IF cust = "EMPTY_WAREHOUSE" THEN r[x] ELSE 0)
      BY <2>1, MovedAt
    <2> QED
      BY <1>6, <2>2
  <1>9. /\ s2[cust][x] \in Int /\ b[x] \in Nat
        /\ s3[cust][x] = s2[cust][x] - (IF cust = c THEN b[x] ELSE 0)
                           + (IF cust = "DAMAGED" THEN b[x] ELSE 0)
    <2>1. /\ s2 \in StockPositions /\ c \in Places
          /\ b \in Load /\ cust \in Places /\ "DAMAGED" \in Places
      BY <1>1, <1>2, <1>3, <1>5, <1>8
    <2>2. /\ s2[cust][x] \in Int /\ b[x] \in Nat
          /\ Moved(s2, c, "DAMAGED", b) \in StockPositions
          /\ Moved(s2, c, "DAMAGED", b)[cust][x]
               = s2[cust][x] - (IF cust = c THEN b[x] ELSE 0)
                   + (IF cust = "DAMAGED" THEN b[x] ELSE 0)
      BY <2>1, MovedAt
    <2> QED
      BY <1>6, <2>2
  <1>10. s3[cust][x] = stock[cust][x] + IF cust = c THEN h[x] - r[x] - b[x] ELSE 0
    BY <1>5, <1>7, <1>8, <1>9
  <1> QED
    BY <1>7, <1>8, <1>9, <1>10 DEF s3, c, h, r, b, t

\* What completion p finds at its customer and expects back.
LEMMA CompletionNumbers ==
  ASSUME LineInv, BottlesReported, NEW p \in Procs, txn[p].op \in Completing
  PROVE  LET t == txn[p]
             c == Owner[t.order]
         IN  /\ c \in Customers
             /\ stock[c] \in Load /\ Bottles(stock[c]) \in Nat
             /\ Bottles(Handed(t)) \in Nat
             /\ delivery[t.order][t.attempt].expected \in Nat
             /\ Bottles(Handed(t)) <= delivery[t.order][t.attempt].expected
             /\ t.form.delivered \in Nat
             /\ t.form.empties \in Nat /\ t.form.damaged \in Nat
             /\ Bottles(Returned(t)) + Bottles(Broken(t))
                  = t.form.empties + t.form.damaged
             /\ Bottles(Returned(t)) \in Nat /\ Bottles(Broken(t)) \in Nat
             /\ t.refill \notin Products =>
                  t.refill = Nobody /\ t.form.empties + t.form.damaged = 0
  <1> DEFINE t == txn[p]
             o == t.order
             k == t.attempt
             c == Owner[o]
             lines == order[o].lines
             bonus == order[o].reward
             full == ExchangeLoad(lines, bonus)
  <1>1. /\ t \in Delivering /\ o \in Orders /\ c \in Customers
        /\ k \in DOMAIN delivery[o]
        /\ Handed(t) \in Load /\ Returned(t) \in Load /\ Broken(t) \in Load
    BY CompletionTypes DEF LineInv, LockInv
  <1>2. t.form \in Forms /\ t.refill \in Products \cup {Nobody}
    BY <1>1 DEF Delivering
  <1>3. /\ t.form.delivered \in Nat /\ t.form.empties \in Nat
        /\ t.form.damaged \in Nat
    BY <1>2, FormsAssumption
  <1>4. stock[c] \in Load
    <2>1. stock \in StockPositions /\ c \in Places
      BY <1>1 DEF LineInv, LockInv, TypeInv, TypeOK, Places
    <2>2. stock[c] \in [Products -> Int] /\ \A x \in Products : stock[c][x] >= 0
      BY <2>1 DEF StockPositions, LineInv, LockInv, StockNeverNegative
    <2>3. ASSUME NEW x \in Products PROVE stock[c][x] \in Nat
      <3>1. stock[c][x] \in Int /\ stock[c][x] >= 0
        BY <2>2
      <3> QED
        BY <3>1
    <2>4. stock[c] = [x \in Products |-> stock[c][x]]
      BY <2>2
    <2> QED
      BY <2>3, <2>4 DEF Load
  <1>5. lines \in Carts \cup {NoBottles} /\ bonus \in BOOLEAN
    BY <1>1 DEF LineInv, LockInv, TypeInv, TypeOK, Order
  <1>6. full \in Load
    BY <1>5, LoadTypes, 0 \in Nat
  <1>7. delivery[o][k].expected = Bottles(full)
    BY <1>1 DEF LineInv, ExpectedIsLines, ExpectedEmpties
  <1>8. \A x \in Products : Handed(t)[x] <= full[x]
    <2> SUFFICES ASSUME NEW x \in Products PROVE Handed(t)[x] <= full[x]
      OBVIOUS
    <2>1. lines[x] \in Nat /\ RewardLine(bonus, x) \in Nat
      BY <1>5, CartsAssumption DEF Load, NoBottles, RewardLine
    <2>2. Handed(t)[x] = IF x \in Exchange
                           THEN Lesser(t.form.delivered, lines[x])
                                  + Lesser(t.form.delivered, RewardLine(bonus, x))
                           ELSE 0
      BY DEF Handed, HandedOver
    <2>3. full[x] = IF x \in Exchange THEN lines[x] + RewardLine(bonus, x) ELSE 0
      BY DEF ExchangeLoad
    <2> HIDE DEF t, lines, bonus, full
    <2> QED
      BY <1>3, <2>1, <2>2, <2>3 DEF Lesser
  <1>9. Bottles(Handed(t)) <= Bottles(full)
    BY <1>1, <1>6, <1>8, BottlesAtMost
  <1>10. /\ Bottles(Handed(t)) \in Nat /\ Bottles(full) \in Nat
         /\ Bottles(stock[c]) \in Nat
         /\ Bottles(Returned(t)) \in Nat /\ Bottles(Broken(t)) \in Nat
    BY <1>1, <1>4, <1>6, BottlesAtMost
  <1>11. /\ Bottles(Returned(t)) = IF t.refill \in Products THEN t.form.empties ELSE 0
         /\ Bottles(Broken(t)) = IF t.refill \in Products THEN t.form.damaged ELSE 0
    BY <1>3, BottlesOnly DEF Returned, Broken
  <1>12. t.refill \notin Products =>
           t.refill = Nobody /\ t.form.empties + t.form.damaged = 0
    BY <1>2 DEF BottlesReported
  <1> HIDE DEF t, o, k, c, full
  <1>13. Bottles(Returned(t)) + Bottles(Broken(t)) = t.form.empties + t.form.damaged
    BY <1>3, <1>11, <1>12
  <1> QED
    BY <1>1, <1>3, <1>4, <1>7, <1>9, <1>10, <1>12, <1>13 DEF t, o, k, c

\* A surplus is owed, given the invariant: the empties a completion can take
\* are the customer's, or handed over by it and then expected back.
LEMMA SurplusIsCovered ==
  ASSUME OwedInv, BottlesReported, NEW p \in Procs, txn[p].op \in Completing,
         CanComplete(txn[p])
  PROVE  -Shortage(txn[p]) <= Held(txn[p]).outstanding
  <1> DEFINE t == txn[p]
             c == Owner[t.order]
             h == Handed(t)
             s == stock[c]
             r == t.refill
             expected == delivery[t.order][t.attempt].expected
             owed == account[c].outstanding
             e == t.form.empties
             g == t.form.damaged
  <1>1. /\ c \in Customers
        /\ s \in Load /\ Bottles(s) \in Nat /\ Bottles(h) \in Nat
        /\ expected \in Nat /\ Bottles(h) <= expected
        /\ e \in Nat /\ g \in Nat
        /\ r \notin Products => e + g = 0
    BY CompletionNumbers DEF OwedInv
  <1>2. Bottles(s) <= owed /\ owed \in Int
    BY <1>1 DEF OwedInv, HeldIsOwed, LineInv, LockInv, TypeInv, TypeOK, Account
  <1>3. Shortage(t) = expected - e - g /\ Held(t).outstanding = owed
    BY DEF Shortage, Held
  <1>4. ASSUME r \in Products
        PROVE  e + g <= s[r] + h[r] /\ s[r] \in Nat /\ h[r] \in Nat
    <2>1. Covers(AfterReturn(t), c, Broken(t))
      BY DEF CanComplete
    <2>2. AfterReturn(t)[c][r] >= g
      BY <1>4, <2>1 DEF Covers, Broken, Only
    <2>3. AfterReturn(t)[c][r] = s[r] + h[r] - e
      <3>1. AfterDamaged(t)[c][r] = s[r] + (h[r] - Returned(t)[r] - Broken(t)[r])
        BY <1>1, <1>4, CompletionAtCustomer DEF OwedInv, LineInv, LockInv
      <3>2. Returned(t)[r] = e /\ Broken(t)[r] = g
        BY <1>4 DEF Returned, Broken, Only
      <3>3. AfterDamaged(t)[c][r] = AfterReturn(t)[c][r] - g /\ AfterReturn(t)[c][r] \in Int
        <4>1. /\ c \in Places /\ c # "DAMAGED" /\ "DAMAGED" \in Places
              /\ "EMPTY_WAREHOUSE" \in Places
          BY <1>1, PlacesAssumption DEF Places, Warehouse
        <4>2. /\ t.driver \in Places /\ c \in Places
              /\ h \in Load /\ Returned(t) \in Load /\ Broken(t) \in Load
          BY CompletionTypes DEF OwedInv, LineInv, LockInv
        <4>3. stock \in StockPositions
          BY DEF OwedInv, LineInv, LockInv, TypeInv, TypeOK
        <4>4. AfterReturn(t) \in StockPositions
          BY <4>1, <4>2, <4>3, MovedType DEF AfterHandOver, AfterReturn, Load
        <4>5. /\ AfterReturn(t)[c][r] \in Int
              /\ AfterDamaged(t)[c][r] = AfterReturn(t)[c][r] - Broken(t)[r] + 0
          BY <1>4, <4>1, <4>4 DEF AfterDamaged, Moved, StockPositions
        <4> HIDE DEF t, c, r, g
        <4> QED
          BY <1>1, <3>2, <4>5
      <3>4. s[r] \in Nat /\ h[r] \in Nat
        <4>1. h \in Load
          BY CompletionTypes DEF OwedInv, LineInv, LockInv
        <4> QED
          BY <1>1, <1>4, <4>1 DEF Load
      <3> HIDE DEF t, c, s, h, r, e, g
      <3> QED
        BY <1>1, <3>1, <3>2, <3>3, <3>4
    <2>4. s[r] \in Nat /\ h[r] \in Nat
      <3>1. h \in Load
        BY CompletionTypes DEF OwedInv, LineInv, LockInv
      <3> QED
        BY <1>1, <1>4, <3>1 DEF Load
    <2> HIDE DEF t, c, s, h, r, e, g
    <2> QED
      BY <1>1, <2>2, <2>3, <2>4
  <1>5. r \in Products => s[r] <= Bottles(s) /\ h[r] <= Bottles(h)
    <2>1. h \in Load
      BY CompletionTypes DEF OwedInv, LineInv, LockInv
    <2> QED
      BY <1>1, <2>1, BottlesAtMost
  <1> HIDE DEF t, c, h, s, r, expected, owed, e, g
  <1>6. -(expected - e - g) <= owed
    <2>1. CASE r \in Products
      BY <1>1, <1>2, <1>4, <1>5, <2>1
    <2>2. CASE r \notin Products
      BY <1>1, <1>2, <2>2
    <2> QED
      BY <2>1, <2>2
  <1> QED
    BY <1>3, <1>6 DEF t

\* An assignment that commits and takes the latest attempt again.
LEMMA AssignReuses ==
  ASSUME TypeInv, NEW p \in Procs, CommitAssign(p), txn[p].reuse
  PROVE  \E e : /\ Rewrites(txn[p].order, txn[p].latest, e)
                /\ e.expected = order[txn[p].order].expected
  <1> DEFINE t == txn[p]
             o == t.order
             k == t.latest
             e == [delivery[o][k] EXCEPT !.status = "ASSIGNED",
                                         !.driver = t.driver,
                                         !.expected = order[o].expected]
  <1>1. o \in Orders /\ t.driver \in Drivers
    BY LoadMoves
  <1>2. k \in DOMAIN delivery[o]
    BY DEF CommitAssign, TypeInv, AttemptsExist
  <1>3. /\ delivery[o] \in Seq(Delivery) /\ order \in [Orders -> Order]
        /\ order[o].expected \in Nat
    BY <1>1 DEF TypeInv, TypeOK, Order
  <1>4. /\ delivery' = [delivery EXCEPT ![o][k].status = "ASSIGNED",
                                        ![o][k].driver = t.driver,
                                        ![o][k].expected = order[o].expected]
    BY DEF CommitAssign
  <1>8. UNCHANGED order \/ order' = [order EXCEPT ![o].status = "ASSIGNED"]
    BY DEF CommitAssign
  <1>9. order \in [Orders -> Order]
    BY DEF TypeInv, TypeOK
  <1> HIDE DEF t, o, k
  <1>5. delivery[o][k] \in Delivery
    BY <1>2, <1>3
  <1>6. e \in Delivery /\ e.expected = order[o].expected
    BY <1>1, <1>3, <1>5 DEF Delivery, DeliveryStatus
  <1>7. delivery' = [delivery EXCEPT ![o][k] = e]
    BY <1>1, <1>2, <1>4 DEF TypeInv, TypeOK
  <1> HIDE DEF e
  <1>10. \A y \in Orders : ItemsKept(y)
    BY <1>1, <1>8, <1>9 DEF ItemsKept, Order
  <1> QED
    BY <1>1, <1>2, <1>6, <1>7, <1>10 DEF Rewrites, t, o, k

\* A step keeps the items of all orders and the empties expected on attempts,
\* or copies those of the order, or places an order.
LEMMA StepOnItems ==
  ASSUME LockInv, [Next]_vars
  PROVE  \/ UNCHANGED delivery /\ \A y \in Orders : ItemsKept(y)
         \/ \E p \in Procs : CommitPlace(p)
         \/ \E o, k, e : /\ Rewrites(o, k, e)
                         /\ e.expected \in {delivery[o][k].expected, order[o].expected}
         \/ \E o, e : Adds(o, e) /\ e.expected = order[o].expected
  <1>0. TypeInv /\ order \in [Orders -> Order]
    BY DEF LockInv, TypeInv, TypeOK
  <1>1. CASE UNCHANGED vars
    BY <1>1 DEF vars, ItemsKept
  <1>2. CASE Next
    <2>1. PICK p \in Procs :
            \/ \E u : Begin(p, u)
            \/ QualifyReferral(p) \/ ReadRewardBalance(p) \/ Rollback(p)
            \/ CommitPlace(p) \/ CommitCancel(p) \/ CommitAssign(p)
            \/ CommitComplete(p) \/ CommitQualifying(p) \/ CommitFail(p)
            \/ CommitReconcile(p)
      BY <1>2, StepCases
    <2>2. CASE \/ \E u : Begin(p, u)
               \/ QualifyReferral(p) \/ ReadRewardBalance(p) \/ Rollback(p)
      <3>1. UNCHANGED <<order, delivery>>
        BY <2>2 DEF Begin, QualifyReferral, ReadRewardBalance, Rollback
      <3> QED
        BY <3>1 DEF ItemsKept
    <2>3. CASE CommitCancel(p)
      <3> DEFINE o == txn[p].order
      <3>1. o \in Orders /\ order' = [order EXCEPT ![o].status = "CANCELLED"]
        BY <1>0, <2>3, TxnTypes DEF CommitCancel, Idle, TypeInv
      <3>2. UNCHANGED delivery
        BY <2>3 DEF CommitCancel
      <3>3. \A y \in Orders : ItemsKept(y)
        BY <1>0, <3>1 DEF ItemsKept, Order
      <3> QED
        BY <3>2, <3>3
    <2>4. CASE CommitAssign(p)
      <3>1. CASE txn[p].reuse
        <4>1. PICK e : /\ Rewrites(txn[p].order, txn[p].latest, e)
                       /\ e.expected = order[txn[p].order].expected
          BY <1>0, <2>4, <3>1, AssignReuses
        <4> QED
          BY <4>1
      <3>2. CASE ~txn[p].reuse
        <4> DEFINE e == [status |-> "ASSIGNED", driver |-> txn[p].driver,
                         expected |-> order[txn[p].order].expected,
                         requiresReconciliation |-> FALSE, delivered |-> 0]
        <4>1. Adds(txn[p].order, e)
          BY <1>0, <2>4, <3>2, AssignAdds
        <4>2. e.expected = order[txn[p].order].expected
          OBVIOUS
        <4> QED
          BY <4>1, <4>2
      <3> QED
        BY <3>1, <3>2
    <2>5. CASE CommitComplete(p) \/ CommitQualifying(p)
      <3> DEFINE t == txn[p]
                 o == t.order
                 k == t.attempt
                 e == [delivery[o][k] EXCEPT !.status = "DELIVERED",
                                             !.delivered = t.form.delivered]
      <3>1. Completes(p)
        BY <2>5 DEF LockInv, LocksProtectCompletion, CommitComplete,
                    CommitQualifying, Completes, Completing
      <3>2. Rewrites(o, k, e)
        BY <1>0, <3>1, CompleteRewrites
      <3>3. delivery[o][k] \in Delivery
        <4>1. o \in Orders /\ k \in DOMAIN delivery[o]
          BY <3>2 DEF Rewrites
        <4>2. delivery[o] \in Seq(Delivery)
          BY <1>0, <4>1 DEF TypeInv, TypeOK
        <4> QED
          BY <4>1, <4>2
      <3>4. e.expected = delivery[o][k].expected
        BY <3>3 DEF Delivery
      <3> QED
        BY <3>2, <3>4
    <2>6. CASE CommitFail(p)
      <3> DEFINE o == txn[p].order
                 k == txn[p].attempt
                 e == Failed(delivery[o][k])
      <3>1. Rewrites(o, k, e)
        BY <1>0, <2>6, FailRewrites
      <3>2. delivery[o][k] \in Delivery
        <4>1. o \in Orders /\ k \in DOMAIN delivery[o]
          BY <3>1 DEF Rewrites
        <4>2. delivery[o] \in Seq(Delivery)
          BY <1>0, <4>1 DEF TypeInv, TypeOK
        <4> QED
          BY <4>1, <4>2
      <3>3. e.expected = delivery[o][k].expected
        BY <3>2 DEF Delivery, Failed
      <3> QED
        BY <3>1, <3>3
    <2>7. CASE CommitReconcile(p)
      <3> DEFINE o == txn[p].order
                 k == txn[p].attempt
                 e == [delivery[o][k] EXCEPT !.requiresReconciliation = FALSE]
      <3>1. Rewrites(o, k, e)
        BY <1>0, <2>7, ReconcileRewrites
      <3>2. delivery[o][k] \in Delivery
        <4>1. o \in Orders /\ k \in DOMAIN delivery[o]
          BY <3>1 DEF Rewrites
        <4>2. delivery[o] \in Seq(Delivery)
          BY <1>0, <4>1 DEF TypeInv, TypeOK
        <4> QED
          BY <4>1, <4>2
      <3>3. e.expected = delivery[o][k].expected
        BY <3>2 DEF Delivery
      <3> QED
        BY <3>1, <3>3
    <2> QED
      BY <2>1, <2>2, <2>3, <2>4, <2>5, <2>6, <2>7
  <1> QED
    BY <1>1, <1>2

\* Expected empties stay those of the lines.
LEMMA StepKeepsExpected ==
  ASSUME LineInv, [Next]_vars
  PROVE  ExpectedIsLines'
  <1>0. LockInv /\ TypeOK /\ ExpectedIsLines
    BY DEF LineInv, LockInv, TypeInv
  <1> DEFINE Good(o) ==
        /\ order'[o].expected = ExpectedEmpties(order'[o].lines, order'[o].reward)
        /\ \A k \in DOMAIN delivery'[o] : delivery'[o][k].expected = order'[o].expected
  <1> SUFFICES ASSUME NEW o \in Orders PROVE Good(o)
    BY DEF ExpectedIsLines
  <1>1. ASSUME ItemsKept(o),
               \A k \in DOMAIN delivery'[o] :
                 delivery'[o][k].expected = order[o].expected
        PROVE  Good(o)
    BY <1>0, <1>1 DEF ExpectedIsLines, ItemsKept
  <1>2. CASE UNCHANGED delivery /\ \A y \in Orders : ItemsKept(y)
    BY <1>0, <1>1, <1>2 DEF ExpectedIsLines
  <1>3. ASSUME NEW p \in Procs, CommitPlace(p) PROVE Good(o)
    <2> DEFINE t == txn[p]
    <2>1. /\ t.order \in Orders /\ order[t.order].status = "NONE"
          /\ UNCHANGED delivery /\ order \in [Orders -> Order]
          /\ order' = [order EXCEPT ![t.order] =
                         [status |-> "PENDING", lines |-> t.lines,
                          reward |-> t.reward,
                          expected |-> ExpectedEmpties(t.lines, t.reward),
                          total |-> OrderTotal(t.lines),
                          paid |-> 0, payStatus |-> "UNPAID"]]
      BY <1>0, <1>3, TxnTypes DEF CommitPlace, Idle, TypeOK
    <2>2. CASE o # t.order
      <3>1. order'[o] = order[o]
        BY <2>1, <2>2
      <3> QED
        BY <1>0, <2>1, <3>1 DEF ExpectedIsLines
    <2>3. CASE o = t.order
      <3>1. delivery[o] = <<>>
        BY <1>0, <2>1, <2>3 DEF LockInv, PlacedFirst
      <3>2. order'[o].expected = ExpectedEmpties(order'[o].lines, order'[o].reward)
        BY <2>1, <2>3
      <3> QED
        BY <2>1, <3>1, <3>2
    <2> QED
      BY <2>2, <2>3
  <1>4. ASSUME NEW y, NEW k, NEW e, Rewrites(y, k, e),
               e.expected \in {delivery[y][k].expected, order[y].expected}
        PROVE  Good(o)
    <2>1. /\ DOMAIN delivery'[o] = DOMAIN delivery[o]
          /\ \A i \in DOMAIN delivery[o] :
               delivery'[o][i] = IF o = y /\ i = k THEN e ELSE delivery[o][i]
      BY <1>0, <1>4, RewrittenAt
    <2>2. \A i \in DOMAIN delivery[o] : delivery[o][i].expected = order[o].expected
      BY <1>0 DEF ExpectedIsLines
    <2>3. \A i \in DOMAIN delivery'[o] : delivery'[o][i].expected = order[o].expected
      BY <1>4, <2>1, <2>2
    <2> QED
      BY <1>1, <1>4, <2>3 DEF Rewrites
  <1>5. ASSUME NEW y, NEW e, Adds(y, e), e.expected = order[y].expected
        PROVE  Good(o)
    <2>1. /\ \A i \in DOMAIN delivery[o] :
               i \in DOMAIN delivery'[o] /\ delivery'[o][i] = delivery[o][i]
          /\ \A i \in DOMAIN delivery'[o] :
               i \in DOMAIN delivery[o] \/ delivery'[o][i] = e
      BY <1>0, <1>5, AddedAt
    <2>2. \A i \in DOMAIN delivery[o] : delivery[o][i].expected = order[o].expected
      BY <1>0 DEF ExpectedIsLines
    <2>3. o # y => delivery'[o] = delivery[o]
      BY <1>0, <1>5 DEF Adds, TypeOK
    <2>4. \A i \in DOMAIN delivery'[o] : delivery'[o][i].expected = order[o].expected
      BY <1>5, <2>1, <2>2, <2>3
    <2> QED
      BY <1>1, <1>5, <2>4 DEF Adds
  <1> QED
    BY <1>0, <1>2, <1>3, <1>4, <1>5, StepOnItems

\* No step changes the items of an order that has been dispatched.
LEMMA StepKeepsItems ==
  ASSUME LockInv, [Next]_vars, NEW o \in Orders
  PROVE  delivery[o] = <<>> \/ ItemsKept(o)
  <1>1. ASSUME NEW p \in Procs, CommitPlace(p)
        PROVE  delivery[o] = <<>> \/ ItemsKept(o)
    BY <1>1, QuietSteps DEF KeepsAnswers
  <1>2. ASSUME NEW y, NEW k, NEW e, Rewrites(y, k, e)
        PROVE  ItemsKept(o)
    BY <1>2 DEF Rewrites
  <1>3. ASSUME NEW y, NEW e, Adds(y, e)
        PROVE  ItemsKept(o)
    BY <1>3 DEF Adds
  <1> QED
    BY <1>1, <1>2, <1>3, StepOnItems

\* An open completion was open before and has read what it had read, or begins
\* and reads a line of its order.
LEMMA StepOnCompletions ==
  ASSUME TypeInv, [Next]_vars, NEW q \in Procs, txn'[q].op \in Completing
  PROVE  \/ /\ txn[q].op \in Completing
            /\ txn'[q].order = txn[q].order /\ txn'[q].refill = txn[q].refill
         \/ /\ txn'[q].order \in Orders
            /\ txn'[q].refill \in Refillable(order[txn'[q].order].lines,
                                             order[txn'[q].order].reward)
            /\ UNCHANGED order
  <1> DEFINE Kept == /\ txn[q].op \in Completing
                     /\ txn'[q].order = txn[q].order
                     /\ txn'[q].refill = txn[q].refill
             Read == /\ txn'[q].order \in Orders
                     /\ txn'[q].refill \in Refillable(order[txn'[q].order].lines,
                                                      order[txn'[q].order].reward)
                     /\ UNCHANGED order
  <1>0. txn \in [Procs -> Transaction] /\ Idle.op \notin Completing
    BY DEF TypeInv, TypeOK, Idle, Completing
  <1>1. ASSUME NEW p \in Procs, NEW t, txn' = [txn EXCEPT ![p] = t],
               t.op \notin Completing
        PROVE  Kept
    BY <1>0, <1>1
  <1>2. ASSUME NEW p \in Procs, NEW o \in Orders, NEW k \in DOMAIN delivery[o],
               NEW form \in Forms, NEW refill \in Products \cup {Nobody},
               BeginComplete(p, o, k, form, refill)
        PROVE  Kept \/ Read
    <2>1. PICK t : Begin(p, t) /\ t.order = o /\ t.refill = refill
      BY <1>2 DEF BeginComplete
    <2>2. refill \in Refillable(order[o].lines, order[o].reward)
      BY <1>2 DEF BeginComplete
    <2>3. txn' = [txn EXCEPT ![p] = t] /\ UNCHANGED order
      BY <2>1 DEF Begin
    <2> QED
      BY <1>0, <2>1, <2>2, <2>3
  <1>3. ASSUME NEW p \in Procs, QualifyReferral(p) \/ ReadRewardBalance(p)
        PROVE  Kept
    <2>1. txn[p].op \in Completing /\ txn[p] \in Delivering
      BY <1>3, TxnTypes
      DEF QualifyReferral, ReadRewardBalance, Completing, TypeInv
    <2>2. \/ txn' = [txn EXCEPT ![p].op = "counted",
                                ![p].count = Cardinality(
                                   Qualified(Referrer[Owner[txn[p].order]])) + 1]
          \/ txn' = [txn EXCEPT ![p].op = "granting",
                                ![p].earned = reward[Referrer[Owner[txn[p].order]]].earned]
      BY <1>3 DEF QualifyReferral, ReadRewardBalance
    <2> QED
      BY <1>0, <2>1, <2>2 DEF Delivering
  <1>4. ASSUME NEW p \in Procs,
               \/ Rollback(p) \/ CommitPlace(p) \/ CommitCancel(p)
               \/ CommitAssign(p) \/ CommitComplete(p) \/ CommitQualifying(p)
               \/ CommitFail(p) \/ CommitReconcile(p)
        PROVE  Kept
    <2>1. Close(p)
      BY <1>4 DEF Rollback, CommitPlace, CommitCancel, CommitAssign,
                  CommitComplete, CommitQualifying, CommitFail, CommitReconcile
    <2> QED
      BY <1>0, <1>1, <2>1 DEF Close
  <1>5. ASSUME NEW p \in Procs,
               \/ \E o \in Orders, cart \in Carts, redeem \in BOOLEAN :
                    BeginPlace(p, o, cart, redeem)
               \/ \E o \in Orders : BeginCancel(p, o)
               \/ \E o \in Orders, d \in Drivers : BeginAssign(p, o, d)
               \/ \E o \in Orders : \E k \in DOMAIN delivery[o] :
                    BeginFail(p, o, k) \/ BeginReconcile(p, o, k)
        PROVE  Kept
    <2>1. PICK t : Begin(p, t) /\ t.op \in {"place", "cancel", "assign", "fail",
                                             "reconcile"}
      <3>1. ASSUME NEW o \in Orders, NEW cart \in Carts, NEW redeem \in BOOLEAN,
                   BeginPlace(p, o, cart, redeem)
            PROVE  \E t : Begin(p, t) /\ t.op = "place"
        BY <3>1 DEF BeginPlace
      <3>2. ASSUME NEW o \in Orders, BeginCancel(p, o)
            PROVE  \E t : Begin(p, t) /\ t.op = "cancel"
        BY <3>2 DEF BeginCancel
      <3>3. ASSUME NEW o \in Orders, NEW d \in Drivers, BeginAssign(p, o, d)
            PROVE  \E t : Begin(p, t) /\ t.op = "assign"
        BY <3>3 DEF BeginAssign
      <3>4. ASSUME NEW o \in Orders, NEW k \in DOMAIN delivery[o],
                   BeginFail(p, o, k)
            PROVE  \E t : Begin(p, t) /\ t.op = "fail"
        BY <3>4 DEF BeginFail
      <3>5. ASSUME NEW o \in Orders, NEW k \in DOMAIN delivery[o],
                   BeginReconcile(p, o, k)
            PROVE  \E t : Begin(p, t) /\ t.op = "reconcile"
        BY <3>5 DEF BeginReconcile
      <3> QED
        BY <1>5, <3>1, <3>2, <3>3, <3>4, <3>5
    <2>2. t.op \notin Completing
      BY <2>1 DEF Completing
    <2>3. txn' = [txn EXCEPT ![p] = t]
      BY <2>1 DEF Begin
    <2> HIDE DEF Kept
    <2> QED
      BY <1>1, <2>2, <2>3
  <1>6. CASE UNCHANGED vars
    BY <1>6 DEF vars
  <1>7. ASSUME Next PROVE Kept \/ Read
    <2> HIDE DEF Kept, Read
    <2> QED
      BY <1>2, <1>3, <1>4, <1>5, <1>7 DEF Next
  <1> QED
    BY <1>6, <1>7

\* The refill a completion has read stays one of its order's lines.
LEMMA StepKeepsRefill ==
  ASSUME LineInv, [Next]_vars
  PROVE  RefillIsLine'
  <1> SUFFICES ASSUME NEW q \in Procs, txn'[q].op \in Completing
               PROVE  txn'[q].refill
                        \in Refillable(order'[txn'[q].order].lines,
                                       order'[txn'[q].order].reward)
    BY DEF RefillIsLine
  <1>0. TypeInv /\ LockInv
    BY DEF LineInv, LockInv
  <1>1. CASE /\ txn[q].op \in Completing
             /\ txn'[q].order = txn[q].order /\ txn'[q].refill = txn[q].refill
    <2> DEFINE o == txn[q].order
    <2>1. o \in Orders /\ txn[q].attempt \in DOMAIN delivery[o]
      BY <1>0, <1>1, CompletionTypes
    <2>2. delivery[o] # <<>>
      BY <2>1
    <2>3. ItemsKept(o)
      BY <1>0, <2>1, <2>2, StepKeepsItems
    <2>4. txn[q].refill \in Refillable(order[o].lines, order[o].reward)
      BY <1>1 DEF LineInv, RefillIsLine
    <2> QED
      BY <1>1, <2>3, <2>4 DEF ItemsKept
  <1>2. CASE /\ txn'[q].order \in Orders
             /\ txn'[q].refill \in Refillable(order[txn'[q].order].lines,
                                              order[txn'[q].order].reward)
             /\ UNCHANGED order
    BY <1>2
  <1> QED
    BY <1>0, <1>1, <1>2, StepOnCompletions

\* No bottles are expected for an order that has no lines.
LEMMA InitLines == Init => ExpectedIsLines /\ RefillIsLine
  <1> SUFFICES ASSUME Init PROVE ExpectedIsLines /\ RefillIsLine
    OBVIOUS
  <1> DEFINE none == ExchangeLoad(NoBottles, FALSE)
  <1>1. none \in Load /\ \A x \in Products : none[x] = 0
    BY DEF ExchangeLoad, NoBottles, RewardLine, Load
  <1>2. ExpectedEmpties(NoBottles, FALSE) = 0
    BY <1>1, BottlesAtMost DEF ExpectedEmpties
  <1>3. \A o \in Orders : order[o] = NoOrder /\ delivery[o] = <<>>
    BY DEF Init
  <1>4. \A p \in Procs : txn[p].op \notin Completing
    BY DEF Init, Idle, Completing
  <1>5. ExpectedIsLines
    <2> SUFFICES ASSUME NEW o \in Orders
                 PROVE  /\ order[o].expected
                             = ExpectedEmpties(order[o].lines, order[o].reward)
                        /\ DOMAIN delivery[o] = {}
      BY DEF ExpectedIsLines
    <2>1. order[o].expected = 0 /\ order[o].lines = NoBottles /\ ~order[o].reward
      BY <1>3 DEF NoOrder
    <2>2. order[o].reward = FALSE
      BY <1>3 DEF NoOrder
    <2>3. DOMAIN delivery[o] = {}
      BY <1>3
    <2> HIDE DEF none
    <2> QED
      BY <1>2, <2>1, <2>2, <2>3
  <1> QED
    BY <1>4, <1>5 DEF RefillIsLine

\* Every state agrees with the lines.
LEMMA LineInvariant == Spec => []LineInv
  <1>1. Init => LineInv
    BY InitLocks, InitLines DEF LineInv
  <1>2. LineInv /\ [Next]_vars => LineInv'
    BY StepKeepsLocks, StepKeepsExpected, StepKeepsRefill DEF LineInv
  <1> QED
    BY <1>1, <1>2, PTL DEF Spec

\* A customer's bottles after a completion.
LEMMA CustomerAfter ==
  ASSUME LineInv, BottlesReported, NEW p \in Procs, Completes(p),
         NEW cust \in Customers
  PROVE  LET t == txn[p]
         IN  Bottles(stock'[cust])
               = Bottles(stock[cust])
                   + IF cust = Owner[t.order]
                       THEN Bottles(Handed(t)) - t.form.empties - t.form.damaged
                       ELSE 0
  <1> DEFINE t == txn[p]
             c == Owner[t.order]
             e == t.form.empties
             g == t.form.damaged
             s == stock[cust]
             z == AfterDamaged(t)[cust]
             h == Handed(t)
             r == Returned(t)
             b == Broken(t)
             with == [x \in Products |-> s[x] + h[x]]
             less == [x \in Products |-> with[x] - r[x]]
  <1>0. TypeInv /\ t.op \in Completing /\ stock' = AfterDamaged(t)
    BY DEF LineInv, LockInv, Completes, CompleteWrites
  <1>1. \A x \in Products :
          /\ s[x] \in Int /\ h[x] \in Nat /\ r[x] \in Nat /\ b[x] \in Nat
          /\ z[x] = s[x] + IF cust = c THEN h[x] - r[x] - b[x] ELSE 0
    BY <1>0, CompletionAtCustomer
  <1>2. /\ t.driver \in Places /\ c \in Places /\ c \in Customers
        /\ h \in Load /\ r \in Load /\ b \in Load
    BY <1>0, CompletionTypes
  <1>3. s \in [Products -> Int] /\ z \in [Products -> Int]
    <2>1. stock \in StockPositions /\ cust \in Places
      BY <1>0 DEF TypeInv, TypeOK, Places
    <2>2. s = [x \in Products |-> s[x]]
      BY <2>1 DEF StockPositions
    <2>3. z = [x \in Products |-> z[x]]
      BY <2>1 DEF AfterDamaged, Moved
    <2> HIDE DEF s, z, h, r, b, c
    <2>4. ASSUME NEW x \in Products PROVE z[x] \in Int
      <3>1. /\ s[x] \in Int /\ h[x] \in Nat /\ r[x] \in Nat /\ b[x] \in Nat
            /\ z[x] = s[x] + IF cust = c THEN h[x] - r[x] - b[x] ELSE 0
        BY <1>1
      <3> QED
        BY <3>1
    <2> QED
      BY <1>1, <2>2, <2>3, <2>4
  <1>4. h \in [Products -> Int] /\ r \in [Products -> Int] /\ b \in [Products -> Int]
    BY <1>2 DEF Load
  <1>5. /\ Bottles(r) + Bottles(b) = e + g
        /\ Bottles(r) \in Nat /\ Bottles(b) \in Nat /\ e \in Nat /\ g \in Nat
        /\ Bottles(h) \in Nat
    BY <1>0, CompletionNumbers
  <1> HIDE DEF t, c, e, g, s, z, h, r, b
  <1>6. CASE cust = c
    <2>1. with \in [Products -> Int]
      BY <1>3, <1>4
    <2>2. less \in [Products -> Int]
      BY <1>4, <2>1
    <2>3. /\ \A x \in Products : with[x] = s[x] + h[x]
          /\ \A x \in Products : with[x] = less[x] + r[x]
          /\ \A x \in Products : less[x] = z[x] + b[x]
      BY <1>1, <1>3, <1>4, <1>6
    <2> HIDE DEF with, less
    <2>4. Bottles(with) = Bottles(s) + Bottles(h) /\ Bottles(s) \in Int
      BY <1>3, <1>4, <2>1, <2>3, BottlesAdd
    <2>5. Bottles(with) = Bottles(less) + Bottles(r)
      BY <1>4, <2>1, <2>2, <2>3, BottlesAdd
    <2>6. Bottles(less) = Bottles(z) + Bottles(b) /\ Bottles(z) \in Int
      <3>1. \A x \in Products : less[x] = z[x] + b[x]
        BY <2>3
      <3> QED
        BY <1>3, <1>4, <2>2, <3>1, BottlesAdd
    <2>7. Bottles(z) = Bottles(s) + (Bottles(h) - e - g)
      BY <1>5, <2>4, <2>5, <2>6
    <2> QED
      BY <1>0, <1>6, <2>7 DEF z, s, c, h, e, g, t
  <1>7. CASE cust # c
    <2>1. ASSUME NEW x \in Products PROVE z[x] = s[x]
      <3>1. s[x] \in Int /\ z[x] = s[x] + 0
        BY <1>1, <1>7
      <3> QED
        BY <3>1
    <2>2. z = s
      BY <1>3, <2>1
    <2>3. Bottles(s) \in Int
      BY <1>3, BottlesType
    <2> QED
      BY <1>0, <1>7, <2>2, <2>3 DEF z, s, c, t
  <1> QED
    BY <1>6, <1>7

\* An assignment or a reconciliation leaves the customers' bottles alone.
LEMMA LoadsSpareCustomers ==
  ASSUME TypeInv, NEW p \in Procs, CommitAssign(p) \/ CommitReconcile(p),
         NEW cust \in Customers
  PROVE  stock'[cust] = stock[cust]
  <1> DEFINE d == txn[p].driver
             w == "FILLED_WAREHOUSE"
             load == LoadOf(txn[p].order)
  <1>1. /\ load \in Load /\ stock \in StockPositions
        /\ d \in Drivers /\ d \in Places /\ w \in Places
        /\ \/ stock' = Moved(stock, w, d, load)
           \/ stock' = Moved(stock, d, w, load)
    BY LoadMoves
  <1>2. cust \in Places /\ cust # d /\ cust # w
    BY <1>1, PlacesAssumption DEF Places, Warehouse
  <1> HIDE DEF d, w, load
  <1>3. \A x \in Products : stock[cust][x] \in Int
    BY <1>1, <1>2 DEF StockPositions
  <1>4. stock'[cust] = [x \in Products |-> stock[cust][x] - 0 + 0]
    BY <1>1, <1>2 DEF Moved
  <1>5. stock[cust] = [x \in Products |-> stock[cust][x]]
    BY <1>1, <1>2 DEF StockPositions
  <1> QED
    BY <1>3, <1>4, <1>5

\* What a completion writes to the balances.
LEMMA BalanceAfter ==
  ASSUME TypeInv, NEW p \in Procs, Completes(p), NEW cust \in Customers
  PROVE  LET t == txn[p]
             shortage == Shortage(t)
             owing == account[cust].outstanding
             mine == cust = Owner[t.order]
         IN  /\ owing \in Int /\ account[cust].held \in Int
             /\ account'[cust].held
                  = IF mine
                      THEN account[cust].held + t.form.delivered
                             - (t.form.empties + t.form.damaged)
                      ELSE account[cust].held
             /\ account'[cust].outstanding
                  = IF mine
                      THEN owing + (IF shortage >= 0 THEN shortage
                                    ELSE -Lesser(-shortage, owing))
                      ELSE owing
  <1> DEFINE t == txn[p]
             c == Owner[t.order]
             owed == IF Shortage(t) >= 0 THEN Shortage(t) ELSE -Applied(t)
             h == t.form.delivered - (t.form.empties + t.form.damaged)
  <1>1. account \in [Customers -> Account]
    BY DEF TypeInv, TypeOK
  <1>2. account[cust].outstanding \in Int /\ account[cust].held \in Int
    BY <1>1 DEF Account
  <1>3. account' = [account EXCEPT
                      ![c].held = @ + t.form.delivered
                                    - (t.form.empties + t.form.damaged),
                      ![c].outstanding = @ + owed,
                      ![c].ledger = @ + owed]
    BY DEF Completes, CompleteWrites
  <1>4. owed = IF Shortage(t) >= 0 THEN Shortage(t)
               ELSE -Lesser(-Shortage(t), account[c].outstanding)
    BY DEF Applied, Held
  <1> HIDE DEF t, c, owed
  <1>5. cust = c =>
          /\ account'[cust].held = account[cust].held + t.form.delivered
                                     - (t.form.empties + t.form.damaged)
          /\ account'[cust].outstanding = account[cust].outstanding + owed
    BY <1>1, <1>3 DEF Account
  <1>6. cust # c => account'[cust] = account[cust]
    BY <1>1, <1>3
  <1> QED
    BY <1>2, <1>4, <1>5, <1>6 DEF t, c

\* No customer ever holds more bottles than are outstanding: what a completion
\* adds to the two numbers is what it hands over and what the order's lines
\* expect, less what came back.
LEMMA StepKeepsHeld ==
  ASSUME OwedInv, BottlesReported, [Next]_vars
  PROVE  HeldIsOwed'
  <1>0. TypeInv /\ LockInv /\ LineInv
    BY DEF OwedInv, LineInv, LockInv
  <1> SUFFICES ASSUME NEW cust \in Customers
               PROVE  Bottles(stock'[cust]) <= account'[cust].outstanding
    BY DEF HeldIsOwed
  <1>1. Bottles(stock[cust]) <= account[cust].outstanding
    BY DEF OwedInv, HeldIsOwed
  <1>2. CASE UNCHANGED <<stock, account>>
    BY <1>1, <1>2
  <1>3. ASSUME NEW p \in Procs, CommitAssign(p) \/ CommitReconcile(p)
        PROVE  Bottles(stock'[cust]) <= account'[cust].outstanding
    <2>1. stock'[cust] = stock[cust]
      BY <1>0, <1>3, LoadsSpareCustomers
    <2>2. UNCHANGED account
      BY <1>3 DEF CommitAssign, CommitReconcile
    <2> QED
      BY <1>1, <2>1, <2>2
  <1>4. ASSUME NEW p \in Procs, Completes(p)
        PROVE  Bottles(stock'[cust]) <= account'[cust].outstanding
    <2> DEFINE t == txn[p]
               c == Owner[t.order]
               e == t.form.empties
               g == t.form.damaged
               expected == delivery[t.order][t.attempt].expected
               shortage == Shortage(t)
               owing == account[cust].outstanding
               handed == Bottles(Handed(t))
               before == Bottles(stock[cust])
               after == Bottles(stock'[cust])
    <2>1. t.op \in Completing /\ CanComplete(t)
      BY <1>4 DEF Completes
    <2>2. after = before + IF cust = c THEN handed - e - g ELSE 0
      BY <1>0, <1>4, CustomerAfter
    <2>3. /\ owing \in Int
          /\ account'[cust].outstanding
               = IF cust = c
                   THEN owing + (IF shortage >= 0 THEN shortage
                                 ELSE -Lesser(-shortage, owing))
                   ELSE owing
      BY <1>0, <1>4, BalanceAfter
    <2>4. /\ handed \in Nat /\ expected \in Nat /\ handed <= expected
          /\ e \in Nat /\ g \in Nat
      BY <1>0, <2>1, CompletionNumbers
    <2>5. shortage = expected - e - g
      BY DEF Shortage
    <2>6. cust = c => -shortage <= owing
      BY <2>1, SurplusIsCovered DEF Held
    <2>7. before \in Int
      <3>1. stock[cust] \in [Products -> Int]
        BY <1>0 DEF TypeInv, TypeOK, StockPositions, Places
      <3> QED
        BY <3>1, BottlesType
    <2> HIDE DEF t, c, e, g, expected, shortage, owing, handed, before, after
    <2>8. CASE cust = c
      <3>1. account'[cust].outstanding = owing + shortage
        BY <2>3, <2>4, <2>5, <2>6, <2>8 DEF Lesser
      <3> QED
        BY <1>1, <2>2, <2>3, <2>4, <2>5, <2>7, <2>8, <3>1
        DEF before, after, owing
    <2>9. CASE cust # c
      BY <1>1, <2>2, <2>3, <2>7, <2>9 DEF before, after, owing
    <2> QED
      BY <2>8, <2>9
  <1> QED
    BY <1>0, <1>2, <1>3, <1>4, StepMoves

\* At the start customers have no bottles.
LEMMA InitHeld ==
  ASSUME Init, NEW c \in Customers
  PROVE  /\ Bottles(stock[c]) = 0
         /\ account[c].held = 0 /\ account[c].outstanding = 0
  <1>1. c \in Places /\ c # "FILLED_WAREHOUSE"
    BY PlacesAssumption DEF Places, Warehouse
  <1>2. stock[c] = NoBottles /\ NoBottles \in Load
    BY <1>1 DEF Init, NoBottles, Load
  <1>3. Bottles(NoBottles) = 0
    BY <1>2, BottlesAtMost DEF NoBottles
  <1> QED
    BY <1>2, <1>3 DEF Init

\* SurplusIsOwed of Fulfilment: the part of a surplus that complete.ts drops is
\* always empty, given that bottles are reported back only on orders that have
\* an exchange line.
THEOREM NoSurplusDropped == Spec /\ []BottlesReported => []SurplusIsOwed
  <1>1. Init => OwedInv
    <2> SUFFICES ASSUME Init PROVE OwedInv
      OBVIOUS
    <2>1. HeldIsOwed
      BY InitHeld DEF HeldIsOwed
    <2> QED
      BY <2>1, InitLocks, InitLines DEF OwedInv, LineInv
  <1>2. OwedInv /\ BottlesReported /\ [Next]_vars => OwedInv'
    BY StepKeepsLocks, StepKeepsExpected, StepKeepsRefill, StepKeepsHeld
    DEF OwedInv, LineInv
  <1>3. OwedInv /\ BottlesReported => SurplusIsOwed
    BY SurplusIsCovered DEF SurplusIsOwed
  <1> QED
    BY <1>1, <1>2, <1>3, PTL DEF Spec

\* AccountMatchesStock of Fulfilment: the bottles held on a customer's balance
\* are those in the stock positions, given that bottles are reported back only
\* where there is an exchange line, and that the one count a driver reports is
\* what the capped lines add up to.
THEOREM AccountAgrees == Spec /\ []FormsTell => []AccountMatchesStock
  <1>1. Init => AccountMatchesStock
    BY InitHeld DEF AccountMatchesStock
  <1>2. LineInv /\ FormsTell /\ AccountMatchesStock /\ [Next]_vars
          => AccountMatchesStock'
    <2> SUFFICES ASSUME LineInv, FormsTell, AccountMatchesStock, [Next]_vars,
                        NEW cust \in Customers
                 PROVE  account'[cust].held = Bottles(stock'[cust])
      BY DEF AccountMatchesStock
    <2>0. TypeInv /\ LockInv /\ BottlesReported
      BY DEF LineInv, LockInv, FormsTell
    <2>1. account[cust].held = Bottles(stock[cust])
      BY DEF AccountMatchesStock
    <2>2. CASE UNCHANGED <<stock, account>>
      BY <2>1, <2>2
    <2>3. ASSUME NEW p \in Procs, CommitAssign(p) \/ CommitReconcile(p)
          PROVE  account'[cust].held = Bottles(stock'[cust])
      <3>1. stock'[cust] = stock[cust]
        BY <2>0, <2>3, LoadsSpareCustomers
      <3>2. UNCHANGED account
        BY <2>3 DEF CommitAssign, CommitReconcile
      <3> QED
        BY <2>1, <3>1, <3>2
    <2>4. ASSUME NEW p \in Procs, Completes(p)
          PROVE  account'[cust].held = Bottles(stock'[cust])
      <3> DEFINE t == txn[p]
                 mine == cust = Owner[t.order]
                 e == t.form.empties
                 g == t.form.damaged
                 n == t.form.delivered
                 handed == Bottles(Handed(t))
                 held == account[cust].held
      <3>1. t.op \in Completing
        BY <2>4 DEF Completes
      <3>2. Bottles(stock'[cust])
              = Bottles(stock[cust]) + IF mine THEN handed - e - g ELSE 0
        BY <2>0, <2>4, CustomerAfter
      <3>3. /\ held \in Int
            /\ account'[cust].held = IF mine THEN held + n - (e + g) ELSE held
        BY <2>0, <2>4, BalanceAfter
      <3>4. handed = n
        BY <3>1 DEF FormsTell
      <3>5. n \in Nat /\ e \in Nat /\ g \in Nat
        BY <2>0, <3>1, CompletionNumbers
      <3>6. Bottles(stock[cust]) = held
        BY <2>1
      <3> HIDE DEF t, mine, e, g, n, handed, held
      <3> QED
        BY <3>2, <3>3, <3>4, <3>5, <3>6
    <2> QED
      BY <2>0, <2>2, <2>3, <2>4, StepMoves
  <1> QED
    BY <1>1, <1>2, LineInvariant, PTL DEF Spec

=============================================================================
