------------------------- MODULE TransactionProofs -------------------------
(***************************************************************************)
(* What the transactions of Fulfilment guarantee about the rows they read  *)
(* and write, for every value of the constants.                            *)
(*                                                                         *)
(* The first part needs no hypothesis about the environment: the locks a   *)
(* completion holds protect what it has checked until it commits, so stock *)
(* never goes below zero and a referral qualifies once.  The second part   *)
(* adds that orders and attempts agree (FulfilmentProofs, with its two     *)
(* hypotheses): the status history, the payments, the qualified referrals  *)
(* and the reward balances stay right although they are computed from      *)
(* earlier reads.                                                          *)
(***************************************************************************)
EXTENDS FulfilmentProofs

\* Completions in their referral step hold different rows.
RowsHeldApart ==
  \A p, q \in Procs :
    p # q /\ Referring(p) /\ Referring(q) =>
      CompletionRows(txn[p]) \cap CompletionRows(txn[q]) = {}

\* Only an order that has been placed is dispatched.
PlacedFirst ==
  /\ \A o \in Orders : delivery[o] # <<>> => order[o].status # "NONE"
  /\ \A p \in Procs : txn[p].op = "assign" => order[txn[p].order].status # "NONE"

LockInv ==
  TypeInv /\ StockNeverNegative /\ LocksProtectCompletion /\ RowsHeldApart
    /\ PlacedFirst

NonNegative(s) == \A place \in Places, x \in Products : s[place][x] >= 0

-----------------------------------------------------------------------------
(* Stock moves, row by row.                                                *)

\* The rows of a place that a move changes.
LEMMA MovedAt ==
  ASSUME NEW s \in StockPositions, NEW from \in Places, NEW to \in Places,
         NEW load \in Load, NEW place \in Places, NEW x \in Products
  PROVE  /\ s[place][x] \in Int /\ load[x] \in Nat
         /\ Moved(s, from, to, load) \in StockPositions
         /\ Moved(s, from, to, load)[place][x] =
              s[place][x] - (IF place = from THEN load[x] ELSE 0)
                          + (IF place = to THEN load[x] ELSE 0)
  BY DEF Moved, StockPositions, Load

\* A covered move leaves nothing below zero.
LEMMA CoveredMove ==
  ASSUME NEW s \in StockPositions, NonNegative(s), NEW from \in Places,
         NEW to \in Places, NEW load \in Load, Covers(s, from, load)
  PROVE  NonNegative(Moved(s, from, to, load))
  <1> SUFFICES ASSUME NEW place \in Places, NEW x \in Products
               PROVE  Moved(s, from, to, load)[place][x] >= 0
    BY DEF NonNegative
  <1>1. /\ s[place][x] \in Int /\ load[x] \in Nat
        /\ Moved(s, from, to, load)[place][x] =
             s[place][x] - (IF place = from THEN load[x] ELSE 0)
                         + (IF place = to THEN load[x] ELSE 0)
    BY MovedAt
  <1>2. s[place][x] >= 0 /\ s[from][x] >= load[x]
    BY DEF NonNegative, Covers
  <1> QED
    BY <1>1, <1>2

\* The conditions on the second and the third move of a completion, in terms
\* of the stock before the first.
LEMMA LaterMoves ==
  ASSUME NEW s \in StockPositions, NEW from \in Places, NEW c \in Places,
         NEW to \in Places, from # c, c # to,
         NEW h \in Load, NEW r \in Load, NEW b \in Load
  PROVE  LET s1 == Moved(s, from, c, h)
             s2 == Moved(s1, c, to, r)
         IN  /\ Covers(s1, c, r) <=>
                  \A x \in Products : s[c][x] + h[x] >= r[x]
             /\ Covers(s2, c, b) <=>
                  \A x \in Products : s[c][x] + h[x] - r[x] >= b[x]
  <1> DEFINE s1 == Moved(s, from, c, h)
             s2 == Moved(s1, c, to, r)
  <1>1. \A x \in Products : s1 \in StockPositions /\ s1[c][x] = s[c][x] + h[x]
    BY MovedAt, Z3
  <1>2. \A x \in Products : s2[c][x] = s[c][x] + h[x] - r[x]
    <2> SUFFICES ASSUME NEW x \in Products
                 PROVE  s2[c][x] = s[c][x] + h[x] - r[x]
      OBVIOUS
    <2>1. s1 \in StockPositions /\ s1[c][x] = s[c][x] + h[x]
      BY <1>1
    <2> HIDE DEF s1
    <2>2. /\ r[x] \in Nat /\ s1[c][x] \in Int
          /\ s2[c][x] = s1[c][x] - r[x] + 0
      BY <2>1, MovedAt
    <2>3. s[c][x] \in Int /\ h[x] \in Nat
      BY MovedAt
    <2> HIDE DEF s2
    <2> QED
      BY <2>1, <2>2, <2>3
  <1> HIDE DEF s1, s2
  <1>3. /\ Covers(s1, c, r) <=> \A x \in Products : s[c][x] + h[x] >= r[x]
        /\ Covers(s2, c, b) <=> \A x \in Products : s[c][x] + h[x] - r[x] >= b[x]
    BY <1>1, <1>2 DEF Covers
  <1> QED
    BY <1>3 DEF s1, s2

-----------------------------------------------------------------------------
(* What a step writes, and what it leaves to the completions that are in   *)
(* the middle of their referral step.                                      *)

\* The types of what completion p works with.
LEMMA CompletionTypes ==
  ASSUME TypeInv, NEW p \in Procs, txn[p].op \in Completing
  PROVE  LET t == txn[p]
         IN  /\ t \in Delivering
             /\ t.order \in Orders
             /\ Owner[t.order] \in Customers
             /\ t.attempt \in DOMAIN delivery[t.order]
             /\ t.driver \in Places /\ Owner[t.order] \in Places
             /\ t.driver # Owner[t.order]
             /\ Handed(t) \in Load /\ Returned(t) \in Load /\ Broken(t) \in Load
  <1> DEFINE t == txn[p]
             o == t.order
  <1>1. t \in Delivering
    BY TxnTypes DEF TypeInv
  <1>2. o \in Orders /\ t.driver \in Drivers /\ t.form \in Forms
    BY <1>1 DEF Delivering
  <1>3. Owner[o] \in Customers
    BY <1>2, FulfilmentAssumption
  <1>4. t.attempt \in DOMAIN delivery[o]
    BY DEF TypeInv, AttemptsExist
  <1>5. /\ t.driver \in Places /\ Owner[o] \in Places
        /\ t.driver # Owner[o]
    BY <1>2, <1>3, PlacesAssumption DEF Places
  <1>6. /\ t.form.delivered \in Nat /\ t.form.empties \in Nat
        /\ t.form.damaged \in Nat
    BY <1>2, FormsAssumption
  <1>7. order[o].lines \in Carts \cup {NoBottles} /\ order[o].reward \in BOOLEAN
    BY <1>2 DEF TypeInv, TypeOK, Order
  <1> HIDE DEF t, o
  <1>8. Handed(t) \in Load
    BY <1>6, <1>7, LoadTypes DEF Handed, o
  <1>9. Returned(t) \in Load /\ Broken(t) \in Load
    BY <1>6, OnlyType DEF Returned, Broken
  <1> QED
    BY <1>1, <1>2, <1>3, <1>4, <1>5, <1>8, <1>9 DEF t, o

\* The warehouse is no customer.
LEMMA WarehousePlaces ==
  /\ Warehouse \subseteq Places
  /\ \A c \in Customers : c \notin Warehouse
  /\ \A d \in Drivers : d \in Places /\ d \notin Warehouse
  BY PlacesAssumption DEF Places

\* A step changes no row but these.
Writes(rows) ==
  /\ \A o \in Orders : <<"order", o>> \notin rows => order'[o] = order[o]
  /\ \A o \in Orders : \A k \in DOMAIN delivery[o] :
       <<"delivery", o, k>> \notin rows => delivery'[o][k] = delivery[o][k]
  /\ \A c \in Customers :
       <<"account", c>> \notin rows => referral'[c] = referral[c]
  /\ \A place \in Places, x \in Products :
       <<"stock", place, x>> \notin rows => stock'[place][x] = stock[place][x]

\* A step leaves alone what completion t has checked.
Spares(t) ==
  /\ order'[t.order] = order[t.order]
  /\ delivery'[t.order][t.attempt].status = delivery[t.order][t.attempt].status
  /\ referral'[Owner[t.order]] = referral[Owner[t.order]]
  /\ \A place \in Places, x \in Products :
       <<"stock", place, x>> \in CompletionRows(t) =>
         stock'[place][x] = stock[place][x]

\* Rows that are not a completion's are none of those it has checked.
LEMMA OtherRowsSpare ==
  ASSUME TypeInv, NEW q \in Procs, Referring(q), NEW rows, Writes(rows),
         CompletionRows(txn[q]) \cap rows = {}
  PROVE  Spares(txn[q])
  <1> DEFINE t == txn[q]
             mine == CompletionRows(t)
  <1>1. /\ t.order \in Orders /\ Owner[t.order] \in Customers
        /\ t.attempt \in DOMAIN delivery[t.order]
    BY CompletionTypes DEF Referring, Completing
  <1>2. /\ <<"order", t.order>> \in mine
        /\ <<"delivery", t.order, t.attempt>> \in mine
        /\ <<"account", Owner[t.order]>> \in mine
    BY DEF CompletionRows
  <1> HIDE DEF t, mine
  <1>3. mine \cap rows = {}
    BY DEF mine, t
  <1>4. /\ <<"order", t.order>> \notin rows
        /\ <<"delivery", t.order, t.attempt>> \notin rows
        /\ <<"account", Owner[t.order]>> \notin rows
        /\ \A place \in Places, x \in Products :
             <<"stock", place, x>> \in mine => <<"stock", place, x>> \notin rows
    BY <1>2, <1>3
  <1>5. Spares(t)
    BY <1>1, <1>4 DEF Writes, Spares, mine
  <1> QED
    BY <1>5 DEF t

\* What p finds unlocked is no row of a completion in its referral step.
LEMMA UnlockedRows ==
  ASSUME NEW p \in Procs, NEW q \in Procs \ {p}, Referring(q), NEW rows,
         Unlocked(p, rows)
  PROVE  CompletionRows(txn[q]) \cap rows = {}
  BY DEF Unlocked, Referring

\* Spared, and with no stock below zero, a completion can still commit.
LEMMA SparedCanCommit ==
  ASSUME TypeInv, TypeInv', StockNeverNegative', NEW q \in Procs, Referring(q),
         CanComplete(txn[q]), Qualifies(txn[q]),
         Spares(txn[q]), txn'[q] = txn[q]
  PROVE  /\ CanComplete(txn[q])' /\ Qualifies(txn[q])'
         /\ CompletionRows(txn[q])' = CompletionRows(txn[q])
  <1> DEFINE t == txn[q]
             o == t.order
             c == Owner[o]
             h == Handed(t)
             r == Returned(t)
             b == Broken(t)
             Covering(s) ==
               /\ Covers(s, t.driver, h)
               /\ Covers(Moved(s, t.driver, c, h), c, r)
               /\ Covers(Moved(Moved(s, t.driver, c, h), c, "EMPTY_WAREHOUSE", r), c, b)
  <1>1. /\ t \in Delivering /\ o \in Orders /\ c \in Customers
        /\ t.driver \in Places /\ c \in Places /\ t.driver # c
        /\ h \in Load /\ r \in Load /\ b \in Load
    BY CompletionTypes DEF Referring, Completing
  <1>2. c # "EMPTY_WAREHOUSE" /\ "EMPTY_WAREHOUSE" \in Places
    BY <1>1, WarehousePlaces DEF Warehouse
  <1>3. stock \in StockPositions /\ stock' \in StockPositions
    BY DEF TypeInv, TypeOK
  <1>4. Handed(t)' = h /\ Returned(t)' = r /\ Broken(t)' = b
    BY DEF Spares, Handed, Returned, Broken
  <1>5. CompletionRows(t)' = CompletionRows(t)
    BY <1>4 DEF CompletionRows
  <1>6. Qualifies(t)'
    BY DEF Spares, Qualifies, PayStatusAfter, PaidAfter
  <1>7. DeliveryStill(o, t.attempt, t.status)'
    BY DEF Spares, CanComplete, DeliveryStill
  <1>8. Covering(stock)
    BY DEF CanComplete, AfterHandOver, AfterReturn
  <1>9. \A x \in Products :
          /\ h[x] > 0 => /\ <<"stock", t.driver, x>> \in CompletionRows(t)
                         /\ <<"stock", c, x>> \in CompletionRows(t)
          /\ r[x] > 0 => <<"stock", c, x>> \in CompletionRows(t)
          /\ b[x] > 0 => <<"stock", c, x>> \in CompletionRows(t)
    BY DEF CompletionRows, StockRows
  <1> HIDE DEF t, o, c, h, r, b
  <1>10. Covering(stock')
    <2>1. \A x \in Products :
            /\ stock[t.driver][x] >= h[x]
            /\ stock[c][x] + h[x] >= r[x]
            /\ stock[c][x] + h[x] - r[x] >= b[x]
      BY <1>1, <1>2, <1>3, <1>8, LaterMoves DEF Covers
    <2>2. \A x \in Products :
            /\ stock'[t.driver][x] >= h[x]
            /\ stock'[c][x] + h[x] >= r[x]
            /\ stock'[c][x] + h[x] - r[x] >= b[x]
      <3> SUFFICES ASSUME NEW x \in Products
                   PROVE  /\ stock'[t.driver][x] >= h[x]
                          /\ stock'[c][x] + h[x] >= r[x]
                          /\ stock'[c][x] + h[x] - r[x] >= b[x]
        OBVIOUS
      <3>1. /\ stock'[t.driver][x] \in Int /\ stock'[c][x] \in Int
            /\ h[x] \in Nat /\ r[x] \in Nat /\ b[x] \in Nat
        BY <1>1, <1>3 DEF StockPositions, Load
      <3>2. /\ stock'[t.driver][x] >= 0 /\ stock'[c][x] >= 0
        BY <1>1 DEF StockNeverNegative
      <3>3. /\ h[x] > 0 => stock'[t.driver][x] = stock[t.driver][x]
            /\ h[x] > 0 \/ r[x] > 0 \/ b[x] > 0 => stock'[c][x] = stock[c][x]
        BY <1>1, <1>9 DEF Spares, t
      <3> QED
        BY <2>1, <3>1, <3>2, <3>3
    <2> QED
      BY <1>1, <1>2, <1>3, <2>2, LaterMoves DEF Covers
  <1>11. CanComplete(t)'
    BY <1>4, <1>7, <1>10 DEF CanComplete, AfterHandOver, AfterReturn, t, o, c
  <1> QED
    BY <1>5, <1>6, <1>11 DEF t

\* A move writes the rows of its two places.
LEMMA MoveWrites ==
  ASSUME NEW s \in StockPositions, NEW from \in Places, NEW to \in Places,
         NEW load \in Load, NEW place \in Places, NEW x \in Products,
         <<"stock", place, x>> \notin StockRows(from, load) \cup StockRows(to, load)
  PROVE  Moved(s, from, to, load)[place][x] = s[place][x]
  <1>1. place = from \/ place = to => ~(load[x] > 0)
    BY DEF StockRows
  <1>2. load[x] \in Nat /\ s[place][x] \in Int
    BY MovedAt
  <1>3. place = from \/ place = to => load[x] = 0
    BY <1>1, <1>2
  <1> QED
    BY <1>2, <1>3, MovedAt

\* A completion writes CompletionRows and leaves no stock below zero.
LEMMA CompletionWritesRows ==
  ASSUME TypeInv, StockNeverNegative, NEW p \in Procs, txn[p].op \in Completing,
         CanComplete(txn[p]), CompleteWrites(txn[p]),
         \A c \in Customers :
           c # Owner[txn[p].order] => referral'[c] = referral[c]
  PROVE  Writes(CompletionRows(txn[p])) /\ StockNeverNegative'
  <1> DEFINE t == txn[p]
             o == t.order
             c == Owner[o]
             h == Handed(t)
             r == Returned(t)
             b == Broken(t)
             s1 == Moved(stock, t.driver, c, h)
             s2 == Moved(s1, c, "EMPTY_WAREHOUSE", r)
             mine == CompletionRows(t)
  <1>1. /\ o \in Orders /\ t.attempt \in DOMAIN delivery[o]
        /\ t.driver \in Places /\ c \in Places
        /\ h \in Load /\ r \in Load /\ b \in Load
    BY CompletionTypes
  <1>2. "EMPTY_WAREHOUSE" \in Places /\ "DAMAGED" \in Places
    BY WarehousePlaces DEF Warehouse
  <1>3. stock \in StockPositions /\ NonNegative(stock)
    BY DEF TypeInv, TypeOK, StockNeverNegative, NonNegative
  <1>4. /\ stock' = Moved(s2, c, "DAMAGED", b)
        /\ Covers(stock, t.driver, h)
        /\ Covers(s1, c, r)
        /\ Covers(s2, c, b)
    BY DEF CanComplete, CompleteWrites, AfterHandOver, AfterReturn, AfterDamaged
  <1>5. /\ \A x \in Orders : x # o => /\ order'[x] = order[x]
                                      /\ delivery'[x] = delivery[x]
        /\ \A k \in DOMAIN delivery[o] :
             k # t.attempt => delivery'[o][k] = delivery[o][k]
    <2>1. /\ order' = [order EXCEPT ![o].status = "DELIVERED",
                                    ![o].paid = PaidAfter(t),
                                    ![o].payStatus = PayStatusAfter(t)]
          /\ delivery' = [delivery EXCEPT
                            ![o][t.attempt].status = "DELIVERED",
                            ![o][t.attempt].delivered = t.form.delivered]
      BY DEF CompleteWrites
    <2> HIDE DEF t, o
    <2> QED
      BY <1>1, <2>1 DEF TypeInv, TypeOK
  <1>6. /\ <<"order", o>> \in mine
        /\ <<"delivery", o, t.attempt>> \in mine
        /\ <<"account", c>> \in mine
        /\ StockRows(t.driver, h) \cup StockRows(c, h) \subseteq mine
        /\ StockRows(c, r) \cup StockRows("EMPTY_WAREHOUSE", r) \subseteq mine
        /\ StockRows(c, b) \cup StockRows("DAMAGED", b) \subseteq mine
    BY DEF CompletionRows
  <1>7. \A x \in Customers : x # c => referral'[x] = referral[x]
    OBVIOUS
  <1> HIDE DEF t, o, c, h, r, b, s1, s2, mine
  <1>8. s1 \in StockPositions /\ NonNegative(s1)
    BY <1>1, <1>3, <1>4, MovedType, CoveredMove DEF s1, Load
  <1>9. s2 \in StockPositions /\ NonNegative(s2)
    BY <1>1, <1>2, <1>4, <1>8, MovedType, CoveredMove DEF s2, Load
  <1>10. StockNeverNegative'
    <2>1. NonNegative(stock')
      BY <1>1, <1>2, <1>4, <1>9, CoveredMove
    <2> QED
      BY <2>1 DEF NonNegative, StockNeverNegative
  <1>11. ASSUME NEW place \in Places, NEW x \in Products,
                <<"stock", place, x>> \notin mine
         PROVE  stock'[place][x] = stock[place][x]
    <2>1. stock'[place][x] = s2[place][x]
      BY <1>1, <1>2, <1>4, <1>6, <1>9, <1>11, MoveWrites
    <2>2. s2[place][x] = s1[place][x]
      BY <1>1, <1>2, <1>6, <1>8, <1>11, MoveWrites DEF s2
    <2>3. s1[place][x] = stock[place][x]
      BY <1>1, <1>3, <1>6, <1>11, MoveWrites DEF s1
    <2> QED
      BY <2>1, <2>2, <2>3
  <1>12. Writes(mine)
    BY <1>5, <1>6, <1>7, <1>11 DEF Writes
  <1> QED
    BY <1>10, <1>12 DEF mine, t

\* What is loaded for an order is a load.
LEMMA LoadTypesOf ==
  ASSUME TypeInv, NEW o \in Orders
  PROVE  LoadOf(o) \in Load
  <1>1. order[o].lines \in Carts \cup {NoBottles} /\ order[o].reward \in BOOLEAN
    BY DEF TypeInv, TypeOK, Order
  <1> QED
    BY <1>1, LoadTypes, 0 \in Nat DEF LoadOf

\* A commit leaves the completions that others are in the middle of alone.
LEMMA CommitsSpare ==
  ASSUME LockInv, NEW p \in Procs,
         \/ CommitPlace(p) \/ CommitCancel(p) \/ CommitAssign(p)
         \/ CommitComplete(p) \/ CommitQualifying(p) \/ CommitFail(p)
         \/ CommitReconcile(p),
         NEW q \in Procs \ {p}, Referring(q)
  PROVE  Spares(txn[q])
  <1> USE DEF LockInv
  <1> DEFINE t == txn[p]
             o == t.order
             u == txn[q]
  <1>1. /\ t # Idle => o \in Orders
        /\ t.op \in Completing \cup {"fail", "reconcile"} =>
             t.attempt \in DOMAIN delivery[o]
    BY TxnTypes DEF TypeInv, AttemptsExist
  <1>2. Idle.op = "idle"
    BY DEF Idle
  <1>3. u.order \in Orders /\ u.attempt \in DOMAIN delivery[u.order]
    BY CompletionTypes DEF Referring, Completing
  <1>4. \A x \in Orders : /\ delivery[x] \in Seq(Delivery)
                          /\ order[x] \in Order
    BY DEF TypeInv, TypeOK
  <1>5. CASE CommitPlace(p)
    <2>1. /\ t.op = "place" /\ order[o].status = "NONE"
          /\ \A x \in Orders : x # o => order'[x] = order[x]
          /\ UNCHANGED <<delivery, stock, referral>>
      BY <1>5 DEF CommitPlace, TypeInv, TypeOK
    <2>2. order[u.order].status # "NONE"
      BY <1>3, <1>4 DEF PlacedFirst
    <2>3. u.order # o
      BY <2>1, <2>2
    <2> QED
      BY <1>3, <2>1, <2>3 DEF Spares
  <1>6. CASE CommitCancel(p)
    <2>1. /\ t.op = "cancel" /\ Unlocked(p, {<<"order", o>>})
          /\ order' = [order EXCEPT ![o].status = "CANCELLED"]
          /\ UNCHANGED <<delivery, stock, referral>>
      BY <1>6 DEF CommitCancel
    <2>2. Writes({<<"order", o>>})
      BY <1>1, <1>2, <2>1 DEF Writes, TypeInv, TypeOK
    <2> QED
      BY <2>1, <2>2, UnlockedRows, OtherRowsSpare
  <1>7. CASE CommitAssign(p)
    <2> DEFINE load == LoadOf(o)
               moved == StockRows("FILLED_WAREHOUSE", load) \cup StockRows(t.driver, load)
               again == IF t.reuse THEN {<<"delivery", o, t.latest>>} ELSE {}
               set == IF t.status = "ASSIGNED" THEN {} ELSE {<<"order", o>>}
               rows == moved \cup again \cup set
    <2>1. /\ t.op = "assign" /\ Unlocked(p, moved)
          /\ stock' = Moved(stock, "FILLED_WAREHOUSE", t.driver, load)
          /\ UNCHANGED referral
      BY <1>7 DEF CommitAssign
    <2>2. /\ o \in Orders /\ t.driver \in Drivers
          /\ t.reuse \in BOOLEAN
          /\ t.reuse => t.latest \in DOMAIN delivery[o]
      BY <2>1, TxnTypes DEF TypeInv, AttemptsExist, Assigning
    <2>3. Unlocked(p, again)
      BY <1>7 DEF CommitAssign, Unlocked
    <2>4. Unlocked(p, set)
      BY <1>7 DEF CommitAssign, Unlocked
    <2>5. \A x \in Orders : \A k \in DOMAIN delivery[x] :
            <<"delivery", x, k>> \notin rows => delivery'[x][k] = delivery[x][k]
      <3>1. CASE t.reuse
        <4>1. delivery' = [delivery EXCEPT
                             ![o][t.latest].status = "ASSIGNED",
                             ![o][t.latest].driver = t.driver,
                             ![o][t.latest].expected = order[o].expected]
          BY <1>7, <3>1 DEF CommitAssign
        <4>2. <<"delivery", o, t.latest>> \in rows
          BY <3>1
        <4> HIDE DEF rows, o, t
        <4>3. \A x \in Orders : \A k \in DOMAIN delivery[x] :
                x # o \/ k # t.latest => delivery'[x][k] = delivery[x][k]
          BY <2>2, <4>1 DEF TypeInv, TypeOK
        <4> QED
          BY <4>2, <4>3
      <3>2. CASE ~t.reuse
        <4> DEFINE fresh == [status |-> "ASSIGNED", driver |-> t.driver,
                             expected |-> order[o].expected,
                             requiresReconciliation |-> FALSE, delivered |-> 0]
        <4>1. delivery' = [delivery EXCEPT ![o] = Append(@, fresh)]
          BY <1>7, <3>2 DEF CommitAssign
        <4> HIDE DEF fresh, rows, o, t
        <4>2. \A k \in DOMAIN delivery[o] :
                Append(delivery[o], fresh)[k] = delivery[o][k]
          BY <1>4, <2>2
        <4> QED
          BY <2>2, <4>1, <4>2 DEF TypeInv, TypeOK
      <3> QED
        BY <2>2, <3>1, <3>2
    <2>6. \A x \in Orders : <<"order", x>> \notin rows => order'[x] = order[x]
      <3>1. CASE t.status = "ASSIGNED"
        BY <1>7, <3>1 DEF CommitAssign
      <3>2. CASE t.status # "ASSIGNED"
        <4>1. order' = [order EXCEPT ![o].status = "ASSIGNED"]
          BY <1>7, <3>2 DEF CommitAssign
        <4>2. <<"order", o>> \in rows
          BY <3>2
        <4> HIDE DEF rows, o
        <4> QED
          BY <2>2, <4>1, <4>2 DEF TypeInv, TypeOK
      <3> QED
        BY <3>1, <3>2
    <2>7. \A place \in Places, x \in Products :
            <<"stock", place, x>> \notin rows => stock'[place][x] = stock[place][x]
      <3>1. /\ load \in Load /\ t.driver \in Places
            /\ "FILLED_WAREHOUSE" \in Places /\ stock \in StockPositions
        BY <2>2, LoadTypesOf, WarehousePlaces DEF Warehouse, TypeInv, TypeOK
      <3>2. moved \subseteq rows
        OBVIOUS
      <3> HIDE DEF rows, load, o, t
      <3> QED
        BY <2>1, <3>1, <3>2, MoveWrites
    <2>8. Writes(rows)
      BY <2>1, <2>5, <2>6, <2>7 DEF Writes
    <2>9. CompletionRows(u) \cap rows = {}
      <3>1. /\ CompletionRows(u) \cap moved = {}
            /\ CompletionRows(u) \cap again = {}
            /\ CompletionRows(u) \cap set = {}
        BY <2>1, <2>3, <2>4, UnlockedRows
      <3> QED
        BY <3>1
    <2> HIDE DEF rows
    <2> QED
      BY <2>8, <2>9, OtherRowsSpare
  <1>8. CASE CommitComplete(p)
    <2>1. /\ t.op \in Completing /\ CanComplete(t) /\ CompleteWrites(t)
          /\ Unlocked(p, CompletionRows(t)) /\ UNCHANGED referral
      BY <1>8 DEF CommitComplete, Completing
    <2>2. Writes(CompletionRows(t))
      BY <2>1, CompletionWritesRows
    <2> QED
      BY <2>1, <2>2, UnlockedRows, OtherRowsSpare
  <1>9. CASE CommitQualifying(p)
    <2>1. /\ Referring(p) /\ t.op \in Completing
          /\ CanComplete(t) /\ CompleteWrites(t)
          /\ referral' = [referral EXCEPT
                            ![Owner[o]] = [status |-> "QUALIFIED", order |-> o]]
      BY <1>9 DEF CommitQualifying, Referring, Completing, LocksProtectCompletion
    <2>2. \A c \in Customers : c # Owner[o] => referral'[c] = referral[c]
      BY <2>1 DEF TypeInv, TypeOK
    <2>3. Writes(CompletionRows(t))
      BY <2>1, <2>2, CompletionWritesRows
    <2>4. CompletionRows(u) \cap CompletionRows(t) = {}
      BY <2>1 DEF RowsHeldApart
    <2> QED
      BY <2>3, <2>4, OtherRowsSpare
  <1>10. CASE CommitFail(p)
    <2> DEFINE rows == {<<"delivery", o, t.attempt>>, <<"order", o>>}
    <2>1. /\ t.op = "fail" /\ Unlocked(p, rows)
          /\ delivery' = [delivery EXCEPT ![o][t.attempt] = Failed(@)]
          /\ order' = [order EXCEPT ![o].status = "FAILED"]
          /\ UNCHANGED <<stock, referral>>
      BY <1>10 DEF CommitFail
    <2>2. Writes(rows)
      <3> HIDE DEF o, t
      <3>1. /\ \A x \in Orders : x # o => order'[x] = order[x]
            /\ \A x \in Orders : \A k \in DOMAIN delivery[x] :
                 x # o \/ k # t.attempt => delivery'[x][k] = delivery[x][k]
        BY <1>1, <1>2, <2>1 DEF TypeInv, TypeOK
      <3> QED
        BY <2>1, <3>1 DEF Writes
    <2> QED
      BY <2>1, <2>2, UnlockedRows, OtherRowsSpare
  <1>11. CASE CommitReconcile(p)
    <2> DEFINE load == LoadOf(o)
               rows == StockRows(t.driver, load) \cup StockRows("FILLED_WAREHOUSE", load)
                         \cup {<<"delivery", o, t.attempt>>}
    <2>1. /\ t.op = "reconcile" /\ Unlocked(p, rows)
          /\ stock' = Moved(stock, t.driver, "FILLED_WAREHOUSE", load)
          /\ delivery' = [delivery EXCEPT
                            ![o][t.attempt].requiresReconciliation = FALSE]
          /\ UNCHANGED <<order, referral>>
      BY <1>11 DEF CommitReconcile
    <2>2. t \in Reconciling /\ o \in Orders /\ t.driver \in Places
      <3>1. t \in Reconciling
        BY <2>1, TxnTypes DEF TypeInv
      <3> QED
        BY <3>1, WarehousePlaces DEF Reconciling
    <2>3. Writes(rows)
      <3>1. /\ load \in Load /\ "FILLED_WAREHOUSE" \in Places
            /\ stock \in StockPositions
        BY <2>2, LoadTypesOf, WarehousePlaces DEF Warehouse, TypeInv, TypeOK
      <3> HIDE DEF o, t, load
      <3>2. \A x \in Orders : \A k \in DOMAIN delivery[x] :
              x # o \/ k # t.attempt => delivery'[x][k] = delivery[x][k]
        BY <2>1, <2>2 DEF TypeInv, TypeOK
      <3>3. \A place \in Places, x \in Products :
              <<"stock", place, x>> \notin rows => stock'[place][x] = stock[place][x]
        BY <2>1, <2>2, <3>1, MoveWrites
      <3> QED
        BY <2>1, <3>2, <3>3 DEF Writes
    <2> QED
      BY <2>1, <2>3, UnlockedRows, OtherRowsSpare
  <1> QED
    BY <1>5, <1>6, <1>7, <1>8, <1>9, <1>10, <1>11

-----------------------------------------------------------------------------
(* Every step keeps the invariant.                                         *)

\* The conditional decrements and the locks keep stock from going negative.
LEMMA CommitsKeepStock ==
  ASSUME LockInv, NEW p \in Procs,
         \/ CommitPlace(p) \/ CommitCancel(p) \/ CommitAssign(p)
         \/ CommitComplete(p) \/ CommitQualifying(p) \/ CommitFail(p)
         \/ CommitReconcile(p)
  PROVE  StockNeverNegative'
  <1> USE DEF LockInv
  <1> DEFINE t == txn[p]
             load == LoadOf(t.order)
  <1>1. stock \in StockPositions /\ NonNegative(stock)
    BY DEF TypeInv, TypeOK, StockNeverNegative, NonNegative
  <1>2. NonNegative(stock') => StockNeverNegative'
    BY DEF NonNegative, StockNeverNegative
  <1>3. "FILLED_WAREHOUSE" \in Places
    BY WarehousePlaces DEF Warehouse
  <1>4. CASE CommitPlace(p) \/ CommitCancel(p) \/ CommitFail(p)
    BY <1>1, <1>2, <1>4 DEF CommitPlace, CommitCancel, CommitFail
  <1>5. CASE CommitAssign(p)
    <2>1. /\ t.op = "assign"
          /\ Covers(stock, "FILLED_WAREHOUSE", load)
          /\ stock' = Moved(stock, "FILLED_WAREHOUSE", t.driver, load)
      BY <1>5 DEF CommitAssign
    <2>2. t.driver \in Places /\ load \in Load
      <3>1. t \in Assigning
        BY <2>1, TxnTypes DEF TypeInv
      <3> QED
        BY <3>1, LoadTypesOf, WarehousePlaces DEF Assigning
    <2> QED
      BY <1>1, <1>2, <1>3, <2>1, <2>2, CoveredMove
  <1>6. CASE CommitReconcile(p)
    <2>1. /\ t.op = "reconcile"
          /\ Covers(stock, t.driver, load)
          /\ stock' = Moved(stock, t.driver, "FILLED_WAREHOUSE", load)
      BY <1>6 DEF CommitReconcile
    <2>2. t.driver \in Places /\ load \in Load
      <3>1. t \in Reconciling
        BY <2>1, TxnTypes DEF TypeInv
      <3> QED
        BY <3>1, LoadTypesOf, WarehousePlaces DEF Reconciling
    <2> QED
      BY <1>1, <1>2, <1>3, <2>1, <2>2, CoveredMove
  <1>7. CASE CommitComplete(p)
    <2>1. /\ t.op \in Completing /\ CanComplete(t) /\ CompleteWrites(t)
          /\ UNCHANGED referral
      BY <1>7 DEF CommitComplete, Completing
    <2> QED
      BY <2>1, CompletionWritesRows
  <1>8. CASE CommitQualifying(p)
    <2>1. /\ t.op \in Completing /\ CanComplete(t) /\ CompleteWrites(t)
          /\ referral' = [referral EXCEPT ![Owner[t.order]] =
                            [status |-> "QUALIFIED", order |-> t.order]]
      BY <1>8 DEF CommitQualifying, Completing, LocksProtectCompletion
    <2>2. \A c \in Customers : c # Owner[t.order] => referral'[c] = referral[c]
      BY <2>1 DEF TypeInv, TypeOK
    <2> QED
      BY <2>1, <2>2, CompletionWritesRows
  <1> QED
    BY <1>4, <1>5, <1>6, <1>7, <1>8

\* A new status does not take an order off the books.
LEMMA StatusMoves ==
  ASSUME TypeOK, NEW o, NEW s, s # "NONE",
         UNCHANGED order \/ order' = [order EXCEPT ![o].status = s]
  PROVE  \A x \in Orders : order[x].status # "NONE" => order'[x].status # "NONE"
  <1>1. order \in [Orders -> Order] /\ \A x \in Orders : order[x] \in Order
    BY DEF TypeOK
  <1>2. CASE UNCHANGED order
    BY <1>2
  <1>3. CASE order' = [order EXCEPT ![o].status = s]
    <2>1. \A x \in Orders :
            order'[x] = IF x = o THEN [order[x] EXCEPT !.status = s] ELSE order[x]
      BY <1>1, <1>3
    <2> QED
      BY <1>1, <2>1 DEF Order
  <1> QED
    BY <1>2, <1>3

\* An order that is placed stays placed, and is so before it is dispatched.
LEMMA CommitsKeepPlaced ==
  ASSUME LockInv, NEW p \in Procs,
         \/ CommitPlace(p) \/ CommitCancel(p) \/ CommitAssign(p)
         \/ CommitComplete(p) \/ CommitQualifying(p) \/ CommitFail(p)
         \/ CommitReconcile(p)
  PROVE  PlacedFirst'
  <1> USE DEF LockInv
  <1> DEFINE t == txn[p]
             o == t.order
  <1>1. /\ t # Idle => o \in Orders
        /\ t.op \in Completing \cup {"fail", "reconcile"} =>
             t.attempt \in DOMAIN delivery[o]
        /\ t.op = "assign" => t.reuse \in BOOLEAN
    BY TxnTypes DEF TypeInv, AttemptsExist, Assigning
  <1>2. Idle.op = "idle"
    BY DEF Idle
  <1>3. \A q \in Procs : txn'[q] = IF q = p THEN Idle ELSE txn[q]
    BY DEF CommitPlace, CommitCancel, CommitAssign, CommitComplete,
           CommitQualifying, CommitFail, CommitReconcile, Close, TypeInv, TypeOK
  <1>4. \A q \in Procs : txn[q].op = "assign" => txn[q].order \in Orders
    BY <1>2, TxnTypes DEF TypeInv
  <1>5. ASSUME \A x \in Orders : order[x].status # "NONE" => order'[x].status # "NONE",
               \A x \in Orders :
                 delivery'[x] # <<>> => delivery[x] # <<>> \/ order[x].status # "NONE"
        PROVE  PlacedFirst'
    BY <1>2, <1>3, <1>4, <1>5 DEF PlacedFirst
  <1>6. CASE CommitPlace(p)
    <2>1. /\ o \in Orders /\ order[o].status = "NONE"
          /\ order'[o].status = "PENDING"
          /\ \A x \in Orders : x # o => order'[x] = order[x]
          /\ UNCHANGED delivery
      BY <1>1, <1>2, <1>6 DEF CommitPlace, TypeInv, TypeOK
    <2> QED
      BY <1>5, <2>1
  <1>7. CASE CommitCancel(p)
    <2>1. /\ UNCHANGED delivery
          /\ order' = [order EXCEPT ![o].status = "CANCELLED"]
      BY <1>7 DEF CommitCancel
    <2>2. \A x \in Orders : order[x].status # "NONE" => order'[x].status # "NONE"
      BY <2>1, StatusMoves DEF TypeInv
    <2> QED
      BY <1>5, <2>1, <2>2
  <1>8. CASE CommitAssign(p)
    <2>1. t.op = "assign" /\ o \in Orders
      BY <1>1, <1>2, <1>8 DEF CommitAssign
    <2>2. UNCHANGED order \/ order' = [order EXCEPT ![o].status = "ASSIGNED"]
      BY <1>8 DEF CommitAssign
    <2>3. \A x \in Orders : order[x].status # "NONE" => order'[x].status # "NONE"
      BY <2>2, StatusMoves DEF TypeInv
    <2>4. order[o].status # "NONE"
      BY <2>1 DEF PlacedFirst
    <2>5. \A x \in Orders : x # o => delivery'[x] = delivery[x]
      <3>1. delivery \in [Orders -> Seq(Delivery)]
        BY DEF TypeInv, TypeOK
      <3>2. \/ delivery' = [delivery EXCEPT
                             ![o][t.latest].status = "ASSIGNED",
                             ![o][t.latest].driver = t.driver,
                             ![o][t.latest].expected = order[o].expected]
            \/ \E d : delivery' = [delivery EXCEPT ![o] = Append(@, d)]
        BY <1>8 DEF CommitAssign
      <3>3. CASE delivery' = [delivery EXCEPT
                                ![o][t.latest].status = "ASSIGNED",
                                ![o][t.latest].driver = t.driver,
                                ![o][t.latest].expected = order[o].expected]
        BY <3>1, <3>3
      <3>4. CASE \E d : delivery' = [delivery EXCEPT ![o] = Append(@, d)]
        BY <3>1, <3>4
      <3> QED
        BY <3>2, <3>3, <3>4
    <2> QED
      BY <1>5, <2>3, <2>4, <2>5
  <1>9. CASE CommitComplete(p) \/ CommitQualifying(p)
    <2>1. t.op \in Completing /\ CompleteWrites(t)
      BY <1>9 DEF CommitComplete, CommitQualifying, Completing
    <2>2. \A x \in Orders : DOMAIN delivery'[x] = DOMAIN delivery[x]
      BY <2>1, CompleteKeepsTypes
    <2>3. order' = [order EXCEPT ![o].status = "DELIVERED",
                                 ![o].paid = PaidAfter(t),
                                 ![o].payStatus = PayStatusAfter(t)]
      BY <2>1 DEF CompleteWrites
    <2>4. \A x \in Orders : order[x].status # "NONE" => order'[x].status # "NONE"
      BY <2>3 DEF TypeInv, TypeOK, Order
    <2>5. \A x \in Orders : delivery'[x] # <<>> => delivery[x] # <<>>
      <3>1. TypeOK'
        BY <1>9, StepKeepsTypes DEF TypeInv, Next
      <3> QED
        BY <2>2, <3>1 DEF TypeInv, TypeOK
    <2> QED
      BY <1>5, <2>4, <2>5
  <1>10. CASE CommitFail(p) \/ CommitReconcile(p)
    <2>1. /\ o \in Orders /\ t.attempt \in DOMAIN delivery[o]
          /\ \A x \in Orders : x # o => delivery'[x] = delivery[x]
      BY <1>1, <1>2, <1>10 DEF CommitFail, CommitReconcile, TypeInv, TypeOK
    <2>2. UNCHANGED order \/ order' = [order EXCEPT ![o].status = "FAILED"]
      BY <1>10 DEF CommitFail, CommitReconcile
    <2>3. \A x \in Orders : order[x].status # "NONE" => order'[x].status # "NONE"
      BY <2>2, StatusMoves DEF TypeInv
    <2>4. delivery[o] # <<>>
      BY <2>1
    <2> QED
      BY <1>5, <2>1, <2>3, <2>4
  <1> QED
    BY <1>6, <1>7, <1>8, <1>9, <1>10

\* A commit or a rollback ends its own locks and disturbs no others.
LEMMA ClosingKeepsLocks ==
  ASSUME LockInv, TypeInv', StockNeverNegative', NEW p \in Procs, Close(p),
         \A q \in Procs \ {p} : Referring(q) => Spares(txn[q])
  PROVE  LocksProtectCompletion' /\ RowsHeldApart'
  <1> USE DEF LockInv
  <1>1. \A q \in Procs : txn'[q] = IF q = p THEN Idle ELSE txn[q]
    BY DEF TypeInv, TypeOK, Close
  <1>2. Idle.op = "idle"
    BY DEF Idle
  <1>3. \A q \in Procs : Referring(q)' => q # p /\ Referring(q) /\ txn'[q] = txn[q]
    BY <1>1, <1>2 DEF Referring
  <1>4. ASSUME NEW q \in Procs, Referring(q)'
        PROVE  /\ CanComplete(txn[q])' /\ Qualifies(txn[q])'
               /\ CompletionRows(txn[q])' = CompletionRows(txn[q])
    <2>1. /\ Spares(txn[q]) /\ txn'[q] = txn[q] /\ Referring(q)
          /\ CanComplete(txn[q]) /\ Qualifies(txn[q])
      BY <1>3, <1>4 DEF LocksProtectCompletion, Referring
    <2> QED
      BY <2>1, SparedCanCommit
  <1>5. LocksProtectCompletion'
    BY <1>4 DEF LocksProtectCompletion, Referring
  <1>6. RowsHeldApart'
    BY <1>3, <1>4 DEF RowsHeldApart
  <1> QED
    BY <1>5, <1>6

\* Advancing a completion to its next referral step changes nothing that its
\* conditions or its rows depend on.
LEMMA AdvancedStillCompletes ==
  ASSUME NEW p \in Procs,
         txn'[p].order = txn[p].order, txn'[p].attempt = txn[p].attempt,
         txn'[p].driver = txn[p].driver, txn'[p].status = txn[p].status,
         txn'[p].paid = txn[p].paid, txn'[p].form = txn[p].form,
         txn'[p].refill = txn[p].refill,
         UNCHANGED <<order, delivery, stock, referral>>,
         CanComplete(txn[p]), Qualifies(txn[p])
  PROVE  /\ CanComplete(txn[p])' /\ Qualifies(txn[p])'
         /\ CompletionRows(txn[p])' = CompletionRows(txn[p])
  <1>1. /\ Handed(txn[p])' = Handed(txn[p])
        /\ Returned(txn[p])' = Returned(txn[p])
        /\ Broken(txn[p])' = Broken(txn[p])
    BY DEF Handed, Returned, Broken
  <1>2. CanComplete(txn[p])'
    BY <1>1 DEF CanComplete, DeliveryStill, AfterHandOver, AfterReturn
  <1>3. Qualifies(txn[p])'
    BY DEF Qualifies, PayStatusAfter, PaidAfter
  <1>4. CompletionRows(txn[p])' = CompletionRows(txn[p])
    BY <1>1 DEF CompletionRows
  <1> QED
    BY <1>2, <1>3, <1>4

\* A step that writes no row leaves the completions of others as they are.
LEMMA NothingWritten ==
  ASSUME LockInv, TypeInv', UNCHANGED <<order, delivery, stock, referral>>,
         NEW q \in Procs, Referring(q), txn'[q] = txn[q]
  PROVE  /\ CanComplete(txn[q])' /\ Qualifies(txn[q])'
         /\ CompletionRows(txn[q])' = CompletionRows(txn[q])
  <1>1. Spares(txn[q])
    BY DEF Spares
  <1>2. StockNeverNegative'
    BY DEF LockInv, StockNeverNegative
  <1>3. CanComplete(txn[q]) /\ Qualifies(txn[q])
    BY DEF LockInv, LocksProtectCompletion, Referring
  <1> QED
    BY <1>1, <1>2, <1>3, SparedCanCommit DEF LockInv

\* Opening a request disturbs no completion.
LEMMA BeginKeepsLocks ==
  ASSUME LockInv, TypeInv', NEW p \in Procs, NEW t, Begin(p, t),
         t.op \notin {"counted", "granting"},
         t.op = "assign" => order[t.order].status # "NONE"
  PROVE  LockInv'
  <1> USE DEF LockInv
  <1>1. /\ \A q \in Procs : txn'[q] = IF q = p THEN t ELSE txn[q]
        /\ UNCHANGED <<order, delivery, stock, referral>>
    BY DEF Begin, TypeInv, TypeOK
  <1>2. \A q \in Procs : Referring(q)' => Referring(q) /\ txn'[q] = txn[q]
    BY <1>1 DEF Referring
  <1>3. ASSUME NEW q \in Procs, Referring(q)'
        PROVE  /\ CanComplete(txn[q])' /\ Qualifies(txn[q])'
               /\ CompletionRows(txn[q])' = CompletionRows(txn[q])
    BY <1>1, <1>2, <1>3, NothingWritten
  <1>4. LocksProtectCompletion'
    BY <1>3 DEF LocksProtectCompletion, Referring
  <1>5. RowsHeldApart'
    BY <1>2, <1>3 DEF RowsHeldApart
  <1>6. StockNeverNegative' /\ PlacedFirst'
    BY <1>1 DEF StockNeverNegative, PlacedFirst
  <1> QED
    BY <1>4, <1>5, <1>6

\* A completion that goes on holds rows that no other completion holds.
LEMMA AdvanceKeepsLocks ==
  ASSUME LockInv, TypeInv', NEW p \in Procs,
         QualifyReferral(p) \/ ReadRewardBalance(p)
  PROVE  LockInv'
  <1> USE DEF LockInv
  <1> DEFINE t == txn[p]
  <1>1. /\ t.op \in Completing
        /\ CanComplete(t) /\ Qualifies(t)
        /\ \A q \in Procs \ {p} :
             Referring(q) => CompletionRows(txn[q]) \cap CompletionRows(t) = {}
        /\ UNCHANGED <<order, delivery, stock, referral>>
    <2>1. CASE QualifyReferral(p)
      BY <2>1, UnlockedRows DEF QualifyReferral, Completing
    <2>2. CASE ReadRewardBalance(p)
      BY <2>2 DEF ReadRewardBalance, Completing, Referring, RowsHeldApart,
                  LocksProtectCompletion
    <2> QED
      BY <2>1, <2>2
  <1>2. /\ \A q \in Procs \ {p} : txn'[q] = txn[q]
        /\ txn'[p].op \in {"counted", "granting"}
        /\ txn'[p].order = t.order /\ txn'[p].attempt = t.attempt
        /\ txn'[p].driver = t.driver /\ txn'[p].status = t.status
        /\ txn'[p].paid = t.paid /\ txn'[p].form = t.form
        /\ txn'[p].refill = t.refill
    <2>1. t \in Delivering
      BY <1>1, CompletionTypes
    <2>2. CASE QualifyReferral(p)
      <3> DEFINE n == Cardinality(Qualified(Referrer[Owner[t.order]])) + 1
      <3>1. txn' = [txn EXCEPT ![p].op = "counted", ![p].count = n]
        BY <2>2 DEF QualifyReferral
      <3> HIDE DEF n
      <3> QED
        BY <2>1, <3>1 DEF TypeInv, TypeOK, Delivering
    <2>3. CASE ReadRewardBalance(p)
      <3> DEFINE n == reward[Referrer[Owner[t.order]]].earned
      <3>1. txn' = [txn EXCEPT ![p].op = "granting", ![p].earned = n]
        BY <2>3 DEF ReadRewardBalance
      <3> HIDE DEF n
      <3> QED
        BY <2>1, <3>1 DEF TypeInv, TypeOK, Delivering
    <2> QED
      BY <2>2, <2>3
  <1>3. /\ CanComplete(txn[p])' /\ Qualifies(txn[p])'
        /\ CompletionRows(txn[p])' = CompletionRows(txn[p])
    BY <1>1, <1>2, AdvancedStillCompletes
  <1>4. ASSUME NEW q \in Procs \ {p}, Referring(q)'
        PROVE  /\ Referring(q)
               /\ CanComplete(txn[q])' /\ Qualifies(txn[q])'
               /\ CompletionRows(txn[q])' = CompletionRows(txn[q])
    <2>1. Referring(q) /\ txn'[q] = txn[q]
      BY <1>2, <1>4 DEF Referring
    <2> QED
      BY <1>1, <2>1, NothingWritten
  <1>5. LocksProtectCompletion'
    BY <1>3, <1>4 DEF LocksProtectCompletion, Referring
  <1>6. RowsHeldApart'
    <2> SUFFICES ASSUME NEW q \in Procs, NEW r \in Procs, q # r,
                        Referring(q)', Referring(r)'
                 PROVE  CompletionRows(txn[q])' \cap CompletionRows(txn[r])' = {}
      BY DEF RowsHeldApart
    <2>1. CASE q = p
      BY <1>1, <1>3, <1>4, <2>1
    <2>2. CASE r = p
      BY <1>1, <1>3, <1>4, <2>2
    <2>3. CASE q # p /\ r # p
      BY <1>4, <2>3 DEF RowsHeldApart
    <2> QED
      BY <2>1, <2>2, <2>3
  <1>7. StockNeverNegative' /\ PlacedFirst'
    <2>1. StockNeverNegative'
      BY <1>1 DEF StockNeverNegative
    <2>2. \A q \in Procs : txn'[q].op = "assign" => q # p
      BY <1>2
    <2>3. PlacedFirst'
      BY <1>1, <1>2, <2>2 DEF PlacedFirst
    <2> QED
      BY <2>1, <2>3
  <1> QED
    BY <1>5, <1>6, <1>7

\* Every step keeps the invariant.
LEMMA StepKeepsLocks ==
  ASSUME LockInv, [Next]_vars
  PROVE  LockInv'
  <1> USE DEF LockInv
  <1>1. TypeInv'
    BY StepKeepsTypes
  <1>2. CASE UNCHANGED vars
    <2>1. UNCHANGED <<order, delivery, stock, referral, txn>>
      BY <1>2 DEF vars
    <2>2. ASSUME NEW q \in Procs, Referring(q)
          PROVE  /\ CanComplete(txn[q])' /\ Qualifies(txn[q])'
                 /\ CompletionRows(txn[q])' = CompletionRows(txn[q])
      BY <1>1, <2>1, <2>2, NothingWritten
    <2>3. LocksProtectCompletion' /\ RowsHeldApart'
      BY <2>1, <2>2 DEF LocksProtectCompletion, RowsHeldApart, Referring
    <2> QED
      BY <1>1, <2>1, <2>3 DEF StockNeverNegative, PlacedFirst
  <1>3. ASSUME NEW p \in Procs,
               \/ CommitPlace(p) \/ CommitCancel(p) \/ CommitAssign(p)
               \/ CommitComplete(p) \/ CommitQualifying(p) \/ CommitFail(p)
               \/ CommitReconcile(p)
        PROVE  LockInv'
    <2>1. StockNeverNegative' /\ PlacedFirst'
      BY <1>3, CommitsKeepStock, CommitsKeepPlaced
    <2>2. Close(p)
      BY <1>3 DEF CommitPlace, CommitCancel, CommitAssign, CommitComplete,
                  CommitQualifying, CommitFail, CommitReconcile
    <2>3. \A q \in Procs \ {p} : Referring(q) => Spares(txn[q])
      BY <1>3, CommitsSpare
    <2> QED
      BY <1>1, <2>1, <2>2, <2>3, ClosingKeepsLocks
  <1>4. ASSUME NEW p \in Procs, Rollback(p)
        PROVE  LockInv'
    <2>1. UNCHANGED <<order, delivery, stock, referral>> /\ Close(p)
      BY <1>4 DEF Rollback
    <2>2. StockNeverNegative'
      BY <2>1 DEF StockNeverNegative
    <2>3. PlacedFirst'
      BY <2>1 DEF PlacedFirst, Close, TypeInv, TypeOK, Idle
    <2>4. \A q \in Procs \ {p} : Referring(q) => Spares(txn[q])
      BY <2>1 DEF Spares
    <2> QED
      BY <1>1, <2>1, <2>2, <2>3, <2>4, ClosingKeepsLocks
  <1>5. ASSUME NEW p \in Procs, NEW o \in Orders,
               \/ \E cart \in Carts, redeem \in BOOLEAN :
                    BeginPlace(p, o, cart, redeem)
               \/ BeginCancel(p, o)
               \/ \E d \in Drivers : BeginAssign(p, o, d)
               \/ \E k \in DOMAIN delivery[o] :
                    \/ \E form \in Forms, refill \in Products \cup {Nobody} :
                         BeginComplete(p, o, k, form, refill)
                    \/ BeginFail(p, o, k)
                    \/ BeginReconcile(p, o, k)
        PROVE  LockInv'
    <2>1. ASSUME NEW cart \in Carts, NEW redeem \in BOOLEAN,
                 BeginPlace(p, o, cart, redeem)
          PROVE  LockInv'
      BY <1>1, <2>1, BeginKeepsLocks DEF BeginPlace
    <2>2. CASE BeginCancel(p, o)
      BY <1>1, <2>2, BeginKeepsLocks DEF BeginCancel
    <2>3. ASSUME NEW d \in Drivers, BeginAssign(p, o, d)
          PROVE  LockInv'
      BY <1>1, <2>3, BeginKeepsLocks DEF BeginAssign, Assignable
    <2>4. ASSUME NEW k \in DOMAIN delivery[o], NEW form \in Forms,
                 NEW refill \in Products \cup {Nobody},
                 BeginComplete(p, o, k, form, refill)
          PROVE  LockInv'
      BY <1>1, <2>4, BeginKeepsLocks DEF BeginComplete
    <2>5. ASSUME NEW k \in DOMAIN delivery[o], BeginFail(p, o, k)
          PROVE  LockInv'
      BY <1>1, <2>5, BeginKeepsLocks DEF BeginFail
    <2>6. ASSUME NEW k \in DOMAIN delivery[o], BeginReconcile(p, o, k)
          PROVE  LockInv'
      BY <1>1, <2>6, BeginKeepsLocks DEF BeginReconcile
    <2> QED
      BY <1>5, <2>1, <2>2, <2>3, <2>4, <2>5, <2>6
  <1>6. ASSUME NEW p \in Procs, QualifyReferral(p) \/ ReadRewardBalance(p)
        PROVE  LockInv'
    BY <1>1, <1>6, AdvanceKeepsLocks
  <1>7. CASE Next
    BY <1>3, <1>4, <1>5, <1>6, <1>7 DEF Next
  <1> QED
    BY <1>2, <1>7

\* At first nothing is open and nothing is below zero.
LEMMA InitLocks == Init => LockInv
  <1> SUFFICES ASSUME Init PROVE LockInv
    OBVIOUS
  <1>1. TypeInv
    BY InitTypes
  <1>2. StockNeverNegative
    BY FulfilmentAssumption DEF Init, StockNeverNegative, NoBottles, Load
  <1>3. /\ LocksProtectCompletion /\ RowsHeldApart /\ PlacedFirst
    BY DEF Init, LocksProtectCompletion, RowsHeldApart, PlacedFirst, Referring,
           Idle
  <1> QED
    BY <1>1, <1>2, <1>3 DEF LockInv

\* The invariant holds in every reachable state.
LEMMA LockInvariant == Spec => []LockInv
  <1>1. LockInv /\ [Next]_vars => LockInv'
    BY StepKeepsLocks
  <1> QED
    BY <1>1, InitLocks, PTL DEF Spec

\* No interleaving of moves, several of them in one transaction, takes a
\* position below zero.
THEOREM StockStaysNonNegative == Spec => []StockNeverNegative
  <1>1. LockInv => StockNeverNegative
    BY DEF LockInv
  <1> QED
    BY <1>1, LockInvariant, PTL

\* What a completion checked before its referral step is still so when it
\* commits: the rows it has written by then are all its conditions depend on.
THEOREM LocksSuffice == Spec => []LocksProtectCompletion
  <1>1. LockInv => LocksProtectCompletion
    BY DEF LockInv
  <1> QED
    BY <1>1, LockInvariant, PTL

\* A referral qualifies once, although its row is updated by id alone.
THEOREM ReferralsQualifyOnce == Spec => QualifiesOnce
  <1> DEFINE Kept == \A c \in Customers : referral[c].status = "QUALIFIED" =>
                                            referral'[c] = referral[c]
  <1>1. LockInv /\ [Next]_vars => [Kept]_vars
    <2> SUFFICES ASSUME LockInv, Next PROVE Kept
      OBVIOUS
    <2>1. CASE UNCHANGED referral
      BY <2>1
    <2>2. ASSUME NEW p \in Procs, CommitQualifying(p)
          PROVE  Kept
      <3>1. /\ txn[p].op = "granting"
            /\ referral' = [referral EXCEPT ![Owner[txn[p].order]] =
                              [status |-> "QUALIFIED", order |-> txn[p].order]]
        BY <2>2 DEF CommitQualifying
      <3>2. referral[Owner[txn[p].order]].status = "PENDING"
        BY <3>1 DEF LockInv, LocksProtectCompletion, Qualifies
      <3> QED
        BY <3>1, <3>2 DEF LockInv, TypeInv, TypeOK
    <2>3. UNCHANGED referral \/ \E p \in Procs : CommitQualifying(p)
      <3>1. PICK p \in Procs :
              \/ \E u : Begin(p, u)
              \/ QualifyReferral(p) \/ ReadRewardBalance(p) \/ Rollback(p)
              \/ CommitPlace(p) \/ CommitCancel(p) \/ CommitAssign(p)
              \/ CommitComplete(p) \/ CommitQualifying(p) \/ CommitFail(p)
              \/ CommitReconcile(p)
        BY StepCases
      <3>2. \/ \E u : Begin(p, u)
            \/ QualifyReferral(p) \/ ReadRewardBalance(p) \/ Rollback(p)
            => UNCHANGED referral
        BY DEF Begin, QualifyReferral, ReadRewardBalance, Rollback
      <3>3. /\ CommitPlace(p) => UNCHANGED referral
            /\ CommitCancel(p) => UNCHANGED referral
            /\ CommitAssign(p) => UNCHANGED referral
        BY DEF CommitPlace, CommitCancel, CommitAssign
      <3>4. /\ CommitComplete(p) => UNCHANGED referral
            /\ CommitFail(p) => UNCHANGED referral
            /\ CommitReconcile(p) => UNCHANGED referral
        BY DEF CommitComplete, CommitFail, CommitReconcile
      <3> QED
        BY <3>1, <3>2, <3>3, <3>4
    <2> QED
      BY <2>1, <2>2, <2>3
  <1> QED
    BY <1>1, LockInvariant, PTL DEF Spec, QualifiesOnce

-----------------------------------------------------------------------------
(* The earning rule.  A completion counts the referrer's qualified         *)
(* referrals and reads what the referrer has earned before it commits, and *)
(* holds no row of the referrer.  Only another completion for the same     *)
(* referrer can make the count or the reading untrue, so the rule holds    *)
(* wherever two such completions do not overlap: the run earning_rule      *)
(* shows what happens when they do.                                        *)

\* The customer who referred the one a completion is about.
ReferrerOf(p) == Referrer[Owner[txn[p].order]]

\* No two completions are in their referral step for one referrer.
ReferrersApart ==
  \A p, q \in Procs :
    p # q /\ Referring(p) /\ Referring(q) => ReferrerOf(p) # ReferrerOf(q)

\* How many referrals of each customer have qualified.
Tally == [r \in Customers |-> Cardinality(Qualified(r))]

\* The rule, of every state and not only of those with no request open.
EarnedSoFar == \A r \in Customers : reward[r].earned = Tally[r] \div RewardEvery

\* What a completion counted and read is still so.
CountsAreCurrent ==
  \A p \in Procs :
    /\ Referring(p) => txn[p].count = Tally[ReferrerOf(p)] + 1
    /\ txn[p].op = "granting" => txn[p].earned = reward[ReferrerOf(p)].earned

RuleInv == LockInv /\ EarnedSoFar /\ CountsAreCurrent

\* One more referral completes at most another reward.
LEMMA RewardsGrow ==
  ASSUME NEW n \in Nat
  PROVE  /\ n \div RewardEvery \in Nat /\ (n + 1) \div RewardEvery \in Nat
         /\ n \div RewardEvery <= (n + 1) \div RewardEvery
  <1>1. RewardEvery \in Nat /\ RewardEvery > 0
    BY FulfilmentAssumption
  <1> QED
    BY <1>1

\* Qualified referrals can be counted.
LEMMA QualifiedFinite ==
  ASSUME NEW r
  PROVE  IsFiniteSet(Qualified(r)) /\ Cardinality(Qualified(r)) \in Nat
  <1>1. IsFiniteSet(Qualified(r))
    BY FulfilmentAssumption, FS_Subset DEF Qualified
  <1> QED
    BY <1>1, FS_CardinalityType

\* A step that qualifies nobody and earns nobody anything, and takes no
\* completion into its referral step or on in it, leaves the counts true.
LEMMA OthersKeepRule ==
  ASSUME RuleInv, UNCHANGED referral,
         \A c \in Customers : reward'[c].earned = reward[c].earned,
         \A q \in Procs : Referring(q)' => Referring(q) /\ txn'[q] = txn[q]
  PROVE  EarnedSoFar' /\ CountsAreCurrent'
  <1> USE DEF RuleInv
  <1>1. Tally' = Tally
    BY DEF Tally, Qualified
  <1>2. EarnedSoFar'
    BY <1>1 DEF EarnedSoFar
  <1>3. \A q \in Procs : txn'[q].op = "granting" => Referring(q)'
    BY DEF Referring
  <1>4. \A q \in Procs :
          Referring(q)' => ReferrerOf(q)' = ReferrerOf(q) /\ ReferrerOf(q) \in Customers
    BY DEF ReferrerOf, LockInv, TypeInv, Referred, Referring
  <1> QED
    BY <1>1, <1>2, <1>3, <1>4 DEF CountsAreCurrent

\* Counting and reading are true when they happen.
LEMMA AdvanceKeepsRule ==
  ASSUME RuleInv, NEW p \in Procs, QualifyReferral(p) \/ ReadRewardBalance(p)
  PROVE  EarnedSoFar' /\ CountsAreCurrent'
  <1> USE DEF RuleInv
  <1>1. UNCHANGED <<referral, reward>>
    BY DEF QualifyReferral, ReadRewardBalance
  <1>2. Tally' = Tally
    BY <1>1 DEF Tally, Qualified
  <1>3. EarnedSoFar'
    BY <1>1, <1>2 DEF EarnedSoFar
  <1>4. /\ txn \in [Procs -> Transaction] /\ txn[p] \in Delivering
        /\ Owner[txn[p].order] \in Customers
    <2>1. txn[p].op \in Completing
      BY DEF QualifyReferral, ReadRewardBalance, Completing
    <2> QED
      BY <2>1, CompletionTypes DEF LockInv, TypeInv, TypeOK
  <1>5. /\ \A q \in Procs \ {p} : txn'[q] = txn[q]
        /\ txn'[p].order = txn[p].order
    BY <1>4 DEF QualifyReferral, ReadRewardBalance, Delivering
  <1>6. \A q \in Procs : ReferrerOf(q)' = ReferrerOf(q)
    BY <1>5 DEF ReferrerOf
  <1>7. \A q \in Procs \ {p} : Referring(q)' = Referring(q)
    BY <1>5 DEF Referring
  <1>8. /\ txn'[p].count = Tally[ReferrerOf(p)] + 1
        /\ txn'[p].op = "granting" => txn'[p].earned = reward[ReferrerOf(p)].earned
    <2>1. CASE QualifyReferral(p)
      <3>1. ReferrerOf(p) \in Customers
        BY <1>4, <2>1 DEF QualifyReferral, Qualifies, LockInv, TypeInv, Referred,
                          ReferrerOf
      <3>2. /\ txn'[p].op = "counted"
            /\ txn'[p].count = Cardinality(Qualified(ReferrerOf(p))) + 1
        BY <1>4, <2>1 DEF QualifyReferral, Delivering, ReferrerOf
      <3> QED
        BY <3>1, <3>2 DEF Tally
    <2>2. CASE ReadRewardBalance(p)
      <3>1. txn[p].count = Tally[ReferrerOf(p)] + 1
        BY <2>2 DEF ReadRewardBalance, CountsAreCurrent, Referring
      <3>2. /\ txn'[p].count = txn[p].count
            /\ txn'[p].earned = reward[ReferrerOf(p)].earned
        BY <1>4, <2>2 DEF ReadRewardBalance, Delivering, ReferrerOf
      <3> QED
        BY <3>1, <3>2
    <2> QED
      BY <2>1, <2>2
  <1>9. CountsAreCurrent'
    BY <1>1, <1>2, <1>5, <1>6, <1>7, <1>8 DEF CountsAreCurrent
  <1> QED
    BY <1>3, <1>9

\* One referral that qualifies is one more for its referrer.
LEMMA OneMoreQualifies ==
  ASSUME TypeOK, NEW c \in Customers, NEW r \in Customers, Referrer[c] = r,
         referral[c].status = "PENDING", NEW o,
         referral' = [referral EXCEPT ![c] = [status |-> "QUALIFIED", order |-> o]]
  PROVE  \A x \in Customers : Tally'[x] = IF x = r THEN Tally[x] + 1 ELSE Tally[x]
  <1>1. /\ referral'[c].status = "QUALIFIED"
        /\ \A x \in Customers : x # c => referral'[x] = referral[x]
    BY DEF TypeOK
  <1>2. Qualified(r)' = Qualified(r) \cup {c} /\ c \notin Qualified(r)
    BY <1>1 DEF Qualified
  <1>3. ASSUME NEW x \in Customers, x # r PROVE Qualified(x)' = Qualified(x)
    BY <1>1, <1>3 DEF Qualified
  <1>4. Cardinality(Qualified(r)') = Cardinality(Qualified(r)) + 1
    BY <1>2, QualifiedFinite, FS_AddElement
  <1> QED
    BY <1>3, <1>4 DEF Tally

\* The award brings what the referrer has earned up to the rule, and leaves
\* the completions for other referrers what they counted.
LEMMA AwardKeepsRule ==
  ASSUME RuleInv, ReferrersApart, NEW p \in Procs, CommitQualifying(p)
  PROVE  EarnedSoFar' /\ CountsAreCurrent'
  <1> USE DEF RuleInv
  <1> DEFINE t == txn[p]
             c == Owner[t.order]
             r == ReferrerOf(p)
             n == Greater(t.count \div RewardEvery - t.earned, 0)
  <1>1. /\ t.op = "granting" /\ Referring(p) /\ t \in Delivering
        /\ c \in Customers /\ r \in Customers
        /\ referral[c].status = "PENDING"
    <2>1. t.op = "granting" /\ Referring(p) /\ t.op \in Completing
      BY DEF CommitQualifying, Referring, Completing
    <2>2. t \in Delivering /\ c \in Customers
      BY <2>1, CompletionTypes DEF LockInv
    <2>3. referral[c].status = "PENDING"
      BY <2>1 DEF LockInv, LocksProtectCompletion, Qualifies
    <2>4. r \in Customers
      BY <2>1 DEF LockInv, TypeInv, Referred, ReferrerOf
    <2> QED
      BY <2>1, <2>2, <2>3, <2>4
  <1>2. /\ referral' = [referral EXCEPT
                          ![c] = [status |-> "QUALIFIED", order |-> t.order]]
        /\ reward' = [reward EXCEPT ![r] = Earned(@, n)]
        /\ \A q \in Procs : txn'[q] = IF q = p THEN Idle ELSE txn[q]
    BY DEF CommitQualifying, Close, ReferrerOf, LockInv, TypeInv, TypeOK
  <1>3. t.count = Tally[r] + 1 /\ t.earned = reward[r].earned
    BY <1>1 DEF CountsAreCurrent
  <1>4. referral \in [Customers -> Referral] /\ reward \in [Customers -> RewardBalance]
    BY DEF LockInv, TypeInv, TypeOK
  <1>5. Referrer[c] = r
    BY DEF ReferrerOf
  <1> HIDE DEF t, c, r, n
  <1>6. \A x \in Customers :
          Tally'[x] = IF x = r THEN Tally[x] + 1 ELSE Tally[x]
    BY <1>1, <1>2, <1>5, OneMoreQualifies DEF LockInv, TypeInv
  <1>7. Tally[r] \in Nat
    BY <1>1, QualifiedFinite DEF Tally
  <1>8. n = (Tally[r] + 1) \div RewardEvery - Tally[r] \div RewardEvery
    <2>1. t.earned = Tally[r] \div RewardEvery
      BY <1>1, <1>3 DEF EarnedSoFar
    <2> QED
      BY <1>3, <1>7, <2>1, RewardsGrow DEF n, Greater
  <1>9. EarnedSoFar'
    <2>1. reward'[r].earned = (Tally[r] + 1) \div RewardEvery
      <3>1. /\ reward[r].earned = Tally[r] \div RewardEvery
            /\ reward'[r].earned = reward[r].earned + n
        BY <1>1, <1>2, <1>4 DEF EarnedSoFar, Earned
      <3> QED
        BY <1>7, <1>8, <3>1, RewardsGrow
    <2>2. \A x \in Customers : x # r => reward'[x] = reward[x]
      BY <1>2, <1>4
    <2> QED
      BY <1>6, <2>1, <2>2 DEF EarnedSoFar
  <1>10. ASSUME NEW q \in Procs, Referring(q)'
         PROVE  /\ txn'[q] = txn[q] /\ Referring(q)
                /\ ReferrerOf(q)' = ReferrerOf(q)
                /\ ReferrerOf(q) \in Customers /\ ReferrerOf(q) # r
    <2>1. q # p /\ txn'[q] = txn[q] /\ Referring(q)
      BY <1>2, <1>10 DEF Referring, Idle
    <2> QED
      BY <1>1, <2>1 DEF ReferrersApart, ReferrerOf, LockInv, TypeInv, Referred, r,
                        Referring
  <1>11. CountsAreCurrent'
    <2>1. \A x \in Customers : x # r => reward'[x] = reward[x] /\ Tally'[x] = Tally[x]
      BY <1>2, <1>4, <1>6
    <2>2. \A q \in Procs : txn'[q].op = "granting" => Referring(q)'
      BY DEF Referring
    <2> QED
      BY <1>10, <2>1, <2>2 DEF CountsAreCurrent
  <1> QED
    BY <1>9, <1>11

\* Every step keeps the rule while completions for one referrer are apart.
LEMMA StepKeepsRule ==
  ASSUME RuleInv, ReferrersApart, [Next]_vars
  PROVE  RuleInv'
  <1>1. LockInv'
    BY StepKeepsLocks DEF RuleInv
  <1>2. CASE UNCHANGED vars
    <2>1. UNCHANGED <<referral, reward, txn>>
      BY <1>2 DEF vars
    <2>2. EarnedSoFar' /\ CountsAreCurrent'
      BY <2>1, OthersKeepRule DEF Referring
    <2> QED
      BY <1>1, <2>2 DEF RuleInv
  <1>3. CASE Next
    <2> SUFFICES EarnedSoFar' /\ CountsAreCurrent'
      BY <1>1 DEF RuleInv
    <2>1. PICK p \in Procs :
            \/ \E u : Begin(p, u) /\ u.op \notin {"counted", "granting"}
            \/ QualifyReferral(p) \/ ReadRewardBalance(p) \/ Rollback(p)
            \/ CommitPlace(p) \/ CommitCancel(p) \/ CommitAssign(p)
            \/ CommitComplete(p) \/ CommitQualifying(p) \/ CommitFail(p)
            \/ CommitReconcile(p)
      BY <1>3, StepCases
    <2>2. txn \in [Procs -> Transaction]
      BY DEF RuleInv, LockInv, TypeInv, TypeOK
    <2>3. ASSUME NEW u, u.op \notin {"counted", "granting"},
                 txn' = [txn EXCEPT ![p] = u], UNCHANGED referral,
                 \A c \in Customers : reward'[c].earned = reward[c].earned
          PROVE  EarnedSoFar' /\ CountsAreCurrent'
      <3>1. \A q \in Procs : txn'[q] = IF q = p THEN u ELSE txn[q]
        BY <2>2, <2>3
      <3>2. \A q \in Procs : Referring(q)' => Referring(q) /\ txn'[q] = txn[q]
        BY <2>3, <3>1 DEF Referring
      <3> QED
        BY <2>3, <3>2, OthersKeepRule
    <2>4. ASSUME Close(p), UNCHANGED referral,
                 \A c \in Customers : reward'[c].earned = reward[c].earned
          PROVE  EarnedSoFar' /\ CountsAreCurrent'
      BY <2>3, <2>4 DEF Close, Idle
    <2>5. CASE \E u : Begin(p, u) /\ u.op \notin {"counted", "granting"}
      BY <2>3, <2>5 DEF Begin
    <2>6. CASE QualifyReferral(p) \/ ReadRewardBalance(p)
      BY <2>6, AdvanceKeepsRule
    <2>7. CASE CommitPlace(p) \/ CommitCancel(p)
      <3>1. /\ Close(p) /\ UNCHANGED referral
            /\ \/ reward' = reward
               \/ \E c, n : reward' = [reward EXCEPT ![c] = Redeemed(@, n)]
        BY <2>7 DEF CommitPlace, CommitCancel
      <3>2. \A c \in Customers : reward'[c].earned = reward[c].earned
        BY <3>1 DEF Redeemed, RuleInv, LockInv, TypeInv, TypeOK
      <3> QED
        BY <2>4, <3>1, <3>2
    <2>8. CASE CommitAssign(p) \/ CommitComplete(p) \/ CommitFail(p)
      <3>1. Close(p) /\ UNCHANGED <<referral, reward>>
        BY <2>8 DEF CommitAssign, CommitComplete, CommitFail
      <3> QED
        BY <2>4, <3>1
    <2>9. CASE CommitReconcile(p) \/ Rollback(p)
      <3>1. Close(p) /\ UNCHANGED <<referral, reward>>
        BY <2>9 DEF CommitReconcile, Rollback
      <3> QED
        BY <2>4, <3>1
    <2>10. CASE CommitQualifying(p)
      BY <2>10, AwardKeepsRule
    <2> QED
      BY <2>1, <2>5, <2>6, <2>7, <2>8, <2>9, <2>10
  <1> QED
    BY <1>2, <1>3

\* At first nobody has qualified or earned anything.
LEMMA InitRule == Init => RuleInv
  <1> SUFFICES ASSUME Init PROVE RuleInv
    OBVIOUS
  <1>1. LockInv
    BY InitLocks
  <1>2. EarnedSoFar
    <2>1. ASSUME NEW r \in Customers
          PROVE  reward[r].earned = Tally[r] \div RewardEvery
      <3>1. Qualified(r) = {} /\ reward[r].earned = 0
        BY DEF Init, Qualified
      <3>2. Tally[r] = 0
        BY <3>1, FS_EmptySet DEF Tally
      <3> QED
        BY <3>1, <3>2, FulfilmentAssumption
    <2> QED
      BY <2>1 DEF EarnedSoFar
  <1>3. CountsAreCurrent
    BY DEF Init, CountsAreCurrent, Referring, Idle
  <1> QED
    BY <1>1, <1>2, <1>3 DEF RuleInv

\* In a run in which no two completions for one referrer are in their referral
\* step at once, a referrer has earned one reward for every RewardEvery
\* qualified referrals, however else requests overlap: what the run
\* earning_rule shows has no other cause.
THEOREM RewardsFollowRule == Spec /\ []ReferrersApart => []EarnedByRule
  <1>1. RuleInv /\ ReferrersApart /\ [Next]_vars => RuleInv'
    BY StepKeepsRule
  <1>2. RuleInv => EarnedByRule
    BY DEF RuleInv, EarnedSoFar, EarnedByRule, Tally
  <1> QED
    BY <1>1, <1>2, InitRule, PTL DEF Spec

-----------------------------------------------------------------------------
(* The records: history, payments, referrals and reward balances.  From    *)
(* here on assign forms are current (CurrentForms of FulfilmentProofs), so *)
(* that orders and attempts agree.  What makes the stale reads harmless is *)
(* that an attempt still on the road tells the order's status, and that    *)
(* nothing is paid before an order is delivered.                           *)

UnpaidBeforeDelivery ==
  \A o \in Orders :
    order[o].status # "DELIVERED" =>
      order[o].paid = 0 /\ order[o].payStatus = "UNPAID" /\ collected[o] = 0

NothingRedeemedYet == \A o \in Orders : order[o].status = "NONE" => ~order[o].reward

\* What a completion or a failure read of the order.
ReadsOfOrder ==
  \A p \in Procs :
    LET t == txn[p]
    IN  /\ t.op \in Completing \cup {"fail"} => t.orderStatus = t.status
        /\ t.op \in Completing => t.paid = 0

RecordsRight ==
  /\ HistoryIsAPath /\ PaidMatchesPayments /\ UnpaidBeforeDelivery
  /\ QualifiedByPaidOrder /\ RewardsBalance /\ NothingRedeemedYet

RecordInv == DispatchInv /\ LockInv /\ ReadsOfOrder /\ RecordsRight

\* What a step may do to the records of one order and its customer.
OthersKept(o) ==
  \A x \in Orders : x # o => /\ order'[x] = order[x]
                             /\ collected'[x] = collected[x]
                             /\ history'[x] = history[x]

\* The order moves to status s, and nothing else of it is written.
OnlyStatus(o, s) ==
  /\ OthersKept(o)
  /\ order'[o].status = s
  /\ order'[o].paid = order[o].paid /\ order'[o].payStatus = order[o].payStatus
  /\ order'[o].total = order[o].total /\ order'[o].reward = order[o].reward
  /\ collected'[o] = collected[o]

Recorded(o, s) == history'[o] = Append(history[o], <<order[o].status, s>>)

PlaceRecords(o) ==
  /\ order[o].status = "NONE"
  /\ OthersKept(o) /\ Recorded(o, "PENDING")
  /\ order'[o].status = "PENDING"
  /\ order'[o].paid = 0 /\ order'[o].payStatus = "UNPAID"
  /\ collected'[o] = collected[o]
  /\ order'[o].reward => reward[Owner[o]].available >= 1
  /\ reward' = IF order'[o].reward THEN [reward EXCEPT ![Owner[o]] = Redeemed(@, 1)]
                                   ELSE reward
  /\ UNCHANGED referral
CancelRecords(o) ==
  /\ order[o].status \in {"PENDING", "CONFIRMED", "PROCESSING"}
  /\ OnlyStatus(o, "CANCELLED") /\ Recorded(o, "CANCELLED")
  /\ reward' = IF order[o].reward THEN [reward EXCEPT ![Owner[o]] = Redeemed(@, -1)]
                                  ELSE reward
  /\ UNCHANGED referral
AssignRecords(o) ==
  /\ order[o].status \in Assignable
  /\ OnlyStatus(o, "ASSIGNED")
  /\ history'[o] =
       history[o] \o HistoryRows(order[o].status, NextStatuses(order[o].status))
  /\ UNCHANGED <<reward, referral>>
FailRecords(o) ==
  /\ order[o].status \in OnTheRoad
  /\ OnlyStatus(o, "FAILED") /\ Recorded(o, "FAILED")
  /\ UNCHANGED <<reward, referral>>
\* The order's customer, referred and pending until now, qualifies by it, and
\* the referrer earns so many bottles.
Awards(o) ==
  /\ referral[Owner[o]].status = "PENDING"
  /\ referral' = [referral EXCEPT ![Owner[o]] = [status |-> "QUALIFIED", order |-> o]]
  /\ Referrer[Owner[o]] \in Customers
  /\ \E n \in Nat : reward' = [reward EXCEPT ![Referrer[Owner[o]]] = Earned(@, n)]
CompleteRecords(o) ==
  /\ order[o].status \in OnTheRoad
  /\ OthersKept(o) /\ Recorded(o, "DELIVERED")
  /\ order'[o].status = "DELIVERED" /\ order'[o].reward = order[o].reward
  /\ order'[o].paid = collected'[o]
  /\ \/ UNCHANGED <<reward, referral>>
     \/ /\ order'[o].payStatus = "PAID" /\ order'[o].paid >= order'[o].total
        /\ Awards(o)

RecordEffect ==
  \/ UNCHANGED <<order, collected, history, reward, referral>>
  \/ \E o \in Orders :
       \/ PlaceRecords(o) \/ CancelRecords(o) \/ AssignRecords(o)
       \/ FailRecords(o) \/ CompleteRecords(o)

\* An attempt on the road is its order's last, and tells its status.
LEMMA OnTheRoadAgrees ==
  ASSUME DispatchInv, NEW o \in Orders, NEW k \in DOMAIN delivery[o],
         delivery[o][k].status \in OnTheRoad
  PROVE  order[o].status = delivery[o][k].status
  <1>1. delivery[o] \in Seq(Delivery)
    BY DEF DispatchInv, TypeInv, TypeOK
  <1>2. k \in 1..Len(delivery[o]) /\ Len(delivery[o]) \in Nat
    BY <1>1
  <1>3. k = Len(delivery[o])
    BY <1>2 DEF DispatchInv, OrderFollowsAttempts, OnTheRoad
  <1> QED
    BY <1>2, <1>3 DEF DispatchInv, OrderFollowsAttempts

\* A completion that commits records what was read as what is.
LEMMA CompletionRecords ==
  ASSUME RecordInv, NEW p \in Procs, txn[p].op \in Completing,
         DeliveryStill(txn[p].order, txn[p].attempt, txn[p].status),
         CompleteWrites(txn[p]),
         \/ UNCHANGED <<reward, referral>>
         \/ PayStatusAfter(txn[p]) = "PAID" /\ Awards(txn[p].order)
  PROVE  txn[p].order \in Orders /\ CompleteRecords(txn[p].order)
  <1> USE DEF RecordInv, RecordsRight
  <1> DEFINE t == txn[p]
             o == t.order
  <1>1. /\ t \in Delivering /\ o \in Orders /\ t.attempt \in DOMAIN delivery[o]
        /\ t.form \in Forms /\ t.form.cash \in Int
    <2>1. t \in Delivering /\ o \in Orders /\ t.attempt \in DOMAIN delivery[o]
      BY CompletionTypes DEF LockInv
    <2> QED
      BY <2>1, FormsAssumption DEF Delivering
  <1>2. /\ order[o].status = t.orderStatus /\ order[o].status \in OnTheRoad
        /\ t.paid = 0
    <2>1. t.status \in OnTheRoad /\ t.orderStatus = t.status /\ t.paid = 0
      BY DEF DispatchInv, ReadsAllow, ReadsOfOrder
    <2>2. delivery[o][t.attempt].status = t.status
      BY DEF DeliveryStill
    <2> QED
      BY <1>1, <2>1, <2>2, OnTheRoadAgrees
  <1>3. order[o].paid = 0 /\ order[o].payStatus = "UNPAID" /\ collected[o] = 0
    BY <1>1, <1>2 DEF UnpaidBeforeDelivery, OnTheRoad
  <1>4. /\ order' = [order EXCEPT ![o].status = "DELIVERED",
                                  ![o].paid = PaidAfter(t),
                                  ![o].payStatus = PayStatusAfter(t)]
        /\ history' = [history EXCEPT ![o] = Append(@, <<t.orderStatus, "DELIVERED">>)]
        /\ collected' = [collected EXCEPT
                           ![o] = @ + (IF t.form.pays THEN t.form.cash ELSE 0)]
    BY DEF CompleteWrites
  <1>5. /\ PaidAfter(t) = IF t.form.pays THEN t.form.cash ELSE 0
        /\ PayStatusAfter(t) = "PAID" => PaidAfter(t) >= order[o].total
    BY <1>1, <1>2, <1>3 DEF PaidAfter, PayStatusAfter
  <1>6. \/ UNCHANGED <<reward, referral>>
        \/ PayStatusAfter(t) = "PAID" /\ Awards(o)
    OBVIOUS
  <1>7. /\ order[o] \in Order
        /\ order \in [Orders -> Order] /\ collected \in [Orders -> Int]
        /\ history \in [Orders -> Seq((OrderStatus \cup {"NONE"}) \X OrderStatus)]
    BY <1>1 DEF LockInv, TypeInv, TypeOK
  <1> HIDE DEF t, o
  <1>8. /\ order'[o].status = "DELIVERED" /\ order'[o].reward = order[o].reward
        /\ order'[o].paid = PaidAfter(t) /\ order'[o].payStatus = PayStatusAfter(t)
        /\ order'[o].total = order[o].total
        /\ OthersKept(o)
    BY <1>1, <1>4, <1>7 DEF Order, OthersKept
  <1>9. /\ Recorded(o, "DELIVERED")
        /\ collected'[o] = IF t.form.pays THEN t.form.cash ELSE 0
    BY <1>1, <1>2, <1>3, <1>4, <1>7 DEF Recorded
  <1>10. CompleteRecords(o)
    BY <1>2, <1>5, <1>6, <1>8, <1>9 DEF CompleteRecords
  <1> QED
    BY <1>1, <1>10 DEF t, o

\* Setting the status of an order leaves its other columns alone.
LEMMA StatusWritten ==
  ASSUME TypeOK, NEW o \in Orders, NEW s,
         order' = [order EXCEPT ![o].status = s], UNCHANGED collected,
         \A x \in Orders : x # o => history'[x] = history[x]
  PROVE  OnlyStatus(o, s)
  <1>1. order \in [Orders -> Order] /\ order[o] \in Order
    BY DEF TypeOK
  <1> QED
    BY <1>1 DEF OnlyStatus, OthersKept, Order

\* Every step has one of the effects.
LEMMA StepHasRecordEffect ==
  ASSUME RecordInv, CurrentForms, Next
  PROVE  RecordEffect
  <1> USE DEF RecordInv, RecordsRight
  <1>1. PICK p \in Procs :
          \/ UNCHANGED <<order, collected, history, reward, referral>>
          \/ CommitPlace(p) \/ CommitCancel(p) \/ CommitAssign(p)
          \/ CommitComplete(p) \/ CommitQualifying(p) \/ CommitFail(p)
    <2>1. PICK p \in Procs :
            \/ \E u : Begin(p, u)
            \/ QualifyReferral(p) \/ ReadRewardBalance(p) \/ Rollback(p)
            \/ CommitPlace(p) \/ CommitCancel(p) \/ CommitAssign(p)
            \/ CommitComplete(p) \/ CommitQualifying(p) \/ CommitFail(p)
            \/ CommitReconcile(p)
      BY StepCases
    <2>2. \/ \E u : Begin(p, u)
          \/ QualifyReferral(p) \/ ReadRewardBalance(p) \/ Rollback(p)
          \/ CommitReconcile(p)
          => UNCHANGED <<order, collected, history, reward, referral>>
      BY DEF Begin, QualifyReferral, ReadRewardBalance, Rollback, CommitReconcile
    <2> QED
      BY <2>1, <2>2
  <1> DEFINE t == txn[p]
             o == t.order
             c == Owner[o]
  <1>2. t.op # "idle" => o \in Orders
    BY TxnTypes DEF LockInv, TypeInv, Idle
  <1>3. /\ TypeOK
        /\ order \in [Orders -> Order]
        /\ history \in [Orders -> Seq((OrderStatus \cup {"NONE"}) \X OrderStatus)]
    BY DEF LockInv, TypeInv, TypeOK
  <1>4. CASE UNCHANGED <<order, collected, history, reward, referral>>
    BY <1>4 DEF RecordEffect
  <1>5. CASE CommitPlace(p)
    <2>1. /\ t.op = "place" /\ o \in Orders
          /\ order[o].status = "NONE"
          /\ t.reward => reward[c].available >= 1
          /\ reward' = IF t.reward THEN [reward EXCEPT ![c] = Redeemed(@, 1)]
                                   ELSE reward
          /\ history' = [history EXCEPT ![o] = Append(@, <<"NONE", "PENDING">>)]
          /\ UNCHANGED <<collected, referral>>
      BY <1>2, <1>5 DEF CommitPlace
    <2>2. /\ order'[o].status = "PENDING" /\ order'[o].reward = t.reward
          /\ order'[o].paid = 0 /\ order'[o].payStatus = "UNPAID"
          /\ \A x \in Orders : x # o => order'[x] = order[x]
      BY <1>3, <1>5, <2>1 DEF CommitPlace
    <2> HIDE DEF t, o, c
    <2>3. OthersKept(o) /\ Recorded(o, "PENDING")
      BY <1>3, <2>1, <2>2 DEF OthersKept, Recorded
    <2>4. PlaceRecords(o)
      BY <2>1, <2>2, <2>3 DEF PlaceRecords, c
    <2> QED
      BY <2>1, <2>4 DEF RecordEffect
  <1>6. CASE CommitCancel(p)
    <2>1. /\ t.op = "cancel" /\ o \in Orders
          /\ order[o].status = t.status
          /\ order' = [order EXCEPT ![o].status = "CANCELLED"]
          /\ reward' = IF order[o].reward THEN [reward EXCEPT ![c] = Redeemed(@, -1)]
                                          ELSE reward
          /\ history' = [history EXCEPT ![o] = Append(@, <<t.status, "CANCELLED">>)]
          /\ UNCHANGED <<collected, referral>>
      BY <1>2, <1>6 DEF CommitCancel, OrderStill
    <2>2. order[o].status \in {"PENDING", "CONFIRMED", "PROCESSING"}
      BY <2>1 DEF DispatchInv, ReadsAllow, CurrentForms
    <2> HIDE DEF t, o, c
    <2>3. /\ Recorded(o, "CANCELLED")
          /\ \A x \in Orders : x # o => history'[x] = history[x]
      BY <1>3, <2>1 DEF Recorded
    <2>4. OnlyStatus(o, "CANCELLED")
      BY <1>3, <2>1, <2>3, StatusWritten
    <2>5. CancelRecords(o)
      BY <2>1, <2>2, <2>3, <2>4 DEF CancelRecords, c
    <2> QED
      BY <2>1, <2>5 DEF RecordEffect
  <1>7. CASE CommitAssign(p)
    <2>1. t.op = "assign" /\ t.status \in Assignable
      BY <1>7 DEF CommitAssign, DispatchInv, ReadsAllow
    <2>2. /\ o \in Orders
          /\ order[o].status = t.status
          /\ order' = [order EXCEPT ![o].status = "ASSIGNED"]
          /\ history' = [history EXCEPT
                           ![o] = @ \o HistoryRows(t.status, NextStatuses(t.status))]
          /\ UNCHANGED <<collected, referral, reward>>
      BY <1>2, <1>7, <2>1 DEF CommitAssign, OrderStill, Assignable
    <2> HIDE DEF t, o, c
    <2>3. /\ history'[o] =
               history[o] \o HistoryRows(order[o].status, NextStatuses(order[o].status))
          /\ \A x \in Orders : x # o => history'[x] = history[x]
      BY <1>3, <2>2
    <2>4. OnlyStatus(o, "ASSIGNED")
      BY <1>3, <2>2, <2>3, StatusWritten
    <2>5. AssignRecords(o)
      BY <2>1, <2>2, <2>3, <2>4 DEF AssignRecords
    <2> QED
      BY <2>2, <2>5 DEF RecordEffect
  <1>8. CASE CommitComplete(p)
    <2>1. /\ t.op \in Completing
          /\ DeliveryStill(o, t.attempt, t.status) /\ CompleteWrites(t)
          /\ UNCHANGED <<reward, referral>>
      BY <1>8 DEF CommitComplete, CanComplete, Completing
    <2> QED
      BY <2>1, CompletionRecords DEF RecordEffect
  <1>9. CASE CommitQualifying(p)
    <2> DEFINE r == Referrer[c]
               n == Greater(t.count \div RewardEvery - t.earned, 0)
    <2>1. /\ t.op = "granting" /\ t.op \in Completing
          /\ CompleteWrites(t)
          /\ referral' = [referral EXCEPT
                            ![c] = [status |-> "QUALIFIED", order |-> o]]
          /\ reward' = [reward EXCEPT ![r] = Earned(@, n)]
      BY <1>9 DEF CommitQualifying, Completing
    <2>2. /\ DeliveryStill(o, t.attempt, t.status)
          /\ PayStatusAfter(t) = "PAID" /\ referral[c].status = "PENDING"
      BY <2>1 DEF LockInv, LocksProtectCompletion, CanComplete, Qualifies
    <2>3. r \in Customers /\ n \in Nat
      <3>1. r \in Customers
        BY <2>1 DEF LockInv, TypeInv, Referred
      <3>2. t.count \in Nat /\ t.earned \in Int
        BY <2>1, CompletionTypes DEF LockInv, Delivering
      <3>3. t.count \div RewardEvery \in Int
        BY <3>2, FulfilmentAssumption
      <3>4. n \in Nat
        BY <3>2, <3>3 DEF Greater
      <3> QED
        BY <3>1, <3>4
    <2>4. Awards(o)
      <3> HIDE DEF n
      <3> QED
        BY <2>1, <2>2, <2>3 DEF Awards
    <2> HIDE DEF r, n
    <2> QED
      BY <2>1, <2>2, <2>4, CompletionRecords DEF RecordEffect
  <1>10. CASE CommitFail(p)
    <2>1. /\ t.op = "fail" /\ o \in Orders
          /\ delivery[o][t.attempt].status = t.status
          /\ order' = [order EXCEPT ![o].status = "FAILED"]
          /\ history' = [history EXCEPT ![o] = Append(@, <<t.orderStatus, "FAILED">>)]
          /\ UNCHANGED <<collected, referral, reward>>
      BY <1>2, <1>10 DEF CommitFail, DeliveryStill
    <2>2. /\ t.status \in OnTheRoad /\ t.orderStatus = t.status
          /\ t.attempt \in DOMAIN delivery[o]
      BY <2>1 DEF DispatchInv, ReadsAllow, ReadsOfOrder, TypeInv, AttemptsExist
    <2>3. order[o].status = t.orderStatus /\ order[o].status \in OnTheRoad
      BY <2>1, <2>2, OnTheRoadAgrees
    <2> HIDE DEF t, o, c
    <2>4. /\ Recorded(o, "FAILED")
          /\ \A x \in Orders : x # o => history'[x] = history[x]
      BY <1>3, <2>1, <2>3 DEF Recorded
    <2>5. OnlyStatus(o, "FAILED")
      BY <1>3, <2>1, <2>4, StatusWritten
    <2>6. FailRecords(o)
      BY <2>1, <2>3, <2>4, <2>5 DEF FailRecords
    <2> QED
      BY <2>1, <2>6 DEF RecordEffect
  <1> QED
    BY <1>1, <1>4, <1>5, <1>6, <1>7, <1>8, <1>9, <1>10

-----------------------------------------------------------------------------
(* Each effect keeps the records right.                                    *)

\* The history h leads to status s by transitions the services make.
LeadsTo(h, s) ==
  /\ \A i \in 1..Len(h) : h[i] \in Transitions
  /\ \A i \in 1..Len(h) - 1 : h[i][2] = h[i + 1][1]
  /\ s = IF h = <<>> THEN "NONE" ELSE h[Len(h)][2]

\* A history goes on with a change from the status it leads to.
LEMMA HistoryExtended ==
  ASSUME NEW S, NEW h \in Seq(S), NEW s, LeadsTo(h, s), NEW u, <<s, u>> \in S,
         <<s, u>> \in Transitions, h = <<>> => s = "NONE"
  PROVE  LeadsTo(Append(h, <<s, u>>), u)
  <1> DEFINE g == Append(h, <<s, u>>)
             n == Len(h)
  <1>1. /\ n \in Nat /\ Len(g) = n + 1 /\ g # <<>>
        /\ g[n + 1] = <<s, u>>
        /\ \A i \in 1..n : g[i] = h[i]
        /\ n > 0 => h # <<>>
    OBVIOUS
  <1> HIDE DEF g
  <1>2. ASSUME NEW i \in 1..Len(g) - 1
        PROVE  g[i][2] = g[i + 1][1]
    <2>1. CASE i < n
      <3>1. i \in 1..n - 1 /\ i \in 1..n /\ i + 1 \in 1..n
        BY <1>1, <2>1
      <3>2. h[i][2] = h[i + 1][1]
        BY <3>1 DEF LeadsTo
      <3> HIDE DEF n
      <3> QED
        BY <1>1, <3>1, <3>2
    <2>2. CASE i = n
      <3>1. n \in 1..n /\ h # <<>>
        BY <1>1, <2>2
      <3>2. h[n][2] = s
        BY <3>1 DEF LeadsTo
      <3> HIDE DEF n
      <3> QED
        BY <1>1, <2>2, <3>1, <3>2
    <2> QED
      BY <1>1, <2>1, <2>2
  <1>3. g[Len(g)][2] = u
    BY <1>1
  <1>4. \A i \in 1..Len(g) : g[i] \in Transitions
    <2>1. \A i \in 1..n : g[i] \in Transitions
      BY <1>1 DEF LeadsTo
    <2>2. g[n + 1] \in Transitions
      BY <1>1
    <2> HIDE DEF n
    <2>3. \A i \in 1..n + 1 : i \in 1..n \/ i = n + 1
      BY <1>1
    <2> QED
      BY <1>1, <2>1, <2>2, <2>3
  <1> QED
    BY <1>1, <1>2, <1>3, <1>4 DEF LeadsTo, g

\* And with a path of them.
LEMMA HistoryJoined ==
  ASSUME NEW S, NEW h \in Seq(S), NEW s, LeadsTo(h, s), h = <<>> => s = "NONE",
         NEW g \in Seq(S), g # <<>>, g[1][1] = s,
         \A i \in 1..Len(g) : g[i] \in Transitions,
         \A i \in 1..Len(g) - 1 : g[i][2] = g[i + 1][1]
  PROVE  LeadsTo(h \o g, g[Len(g)][2])
  <1> DEFINE j == h \o g
             n == Len(h)
             m == Len(g)
  <1>1. /\ n \in Nat /\ m \in Nat /\ m > 0 /\ Len(j) = n + m
        /\ \A i \in 1..n : j[i] = h[i]
        /\ \A i \in 1..m : j[n + i] = g[i]
        /\ n > 0 => h # <<>>
        /\ j # <<>>
    OBVIOUS
  <1> HIDE DEF j, n, m
  <1>2. ASSUME NEW i \in 1..(n + m) - 1
        PROVE  j[i][2] = j[i + 1][1]
    <2>1. CASE i < n
      <3>1. i \in 1..n /\ i + 1 \in 1..n /\ i \in 1..n - 1
        BY <1>1, <2>1
      <3>2. h[i][2] = h[i + 1][1]
        BY <3>1 DEF LeadsTo, n
      <3> QED
        BY <1>1, <3>1, <3>2
    <2>2. CASE i = n
      <3>1. n \in 1..n /\ 1 \in 1..m /\ h # <<>>
        BY <1>1, <2>2
      <3>2. h[n][2] = s
        BY <3>1 DEF LeadsTo, n
      <3>3. j[n] = h[n] /\ j[n + 1] = g[1]
        BY <1>1, <3>1
      <3> QED
        BY <2>2, <3>2, <3>3
    <2>3. CASE i > n
      <3> DEFINE k == i - n
      <3>1. /\ k \in 1..m - 1 /\ k \in 1..m /\ k + 1 \in 1..m
            /\ i = n + k /\ i + 1 = n + (k + 1)
        BY <1>1, <2>3
      <3> HIDE DEF k
      <3>2. g[k][2] = g[k + 1][1]
        BY <3>1 DEF m
      <3>3. j[n + k] = g[k] /\ j[n + (k + 1)] = g[k + 1]
        BY <1>1, <3>1
      <3> QED
        BY <3>1, <3>2, <3>3
    <2> QED
      BY <1>1, <2>1, <2>2, <2>3
  <1>3. j[n + m] = g[m]
    BY <1>1
  <1>4. ASSUME NEW i \in 1..n + m
        PROVE  j[i] \in Transitions
    <2>1. CASE i \in 1..n
      BY <1>1, <2>1 DEF LeadsTo, n
    <2>2. CASE i \notin 1..n
      <3> DEFINE k == i - n
      <3>1. k \in 1..m /\ i = n + k
        BY <1>1, <2>2
      <3> HIDE DEF k
      <3> QED
        BY <1>1, <3>1 DEF m
    <2> QED
      BY <2>1, <2>2
  <1> QED
    BY <1>1, <1>2, <1>3, <1>4 DEF LeadsTo, j, n, m

\* The rows assignDriver adds lead from the status it found to ASSIGNED.
LEMMA AssignmentRows ==
  ASSUME NEW from \in Assignable
  PROVE  LET g == HistoryRows(from, NextStatuses(from))
         IN  /\ g \in Seq((OrderStatus \cup {"NONE"}) \X OrderStatus)
             /\ g # <<>> /\ g[1][1] = from /\ g[Len(g)][2] = "ASSIGNED"
             /\ \A i \in 1..Len(g) : g[i] \in Transitions
             /\ \A i \in 1..Len(g) - 1 : g[i][2] = g[i + 1][1]
  <1> DEFINE path == NextStatuses(from)
             g == HistoryRows(from, path)
  <1>1. from \in OrderStatus
    BY DEF Assignable, OrderStatus
  <1>2. path \in Seq(OrderStatus) /\ g \in Seq((OrderStatus \cup {"NONE"}) \X OrderStatus)
    BY <1>1, NextStatusesType
  <1>3. Len(path) \in Nat /\ Len(path) > 0 /\ path[Len(path)] = "ASSIGNED"
    BY DEF Assignable, NextStatuses
  <1>9. \A i \in 1..Len(path) :
          <<IF i = 1 THEN from ELSE path[i - 1], path[i]>> \in Transitions
    <2>1. CASE from = "PENDING"
      BY <2>1 DEF NextStatuses, Transitions, DocumentedTransitions
    <2>2. CASE from = "CONFIRMED"
      BY <2>2 DEF NextStatuses, Transitions, DocumentedTransitions
    <2>3. CASE from \in {"PROCESSING", "FAILED"}
      BY <2>3 DEF NextStatuses, Transitions, DocumentedTransitions
    <2> QED
      BY <2>1, <2>2, <2>3 DEF Assignable
  <1> HIDE DEF path
  <1>4. \A i \in 1..Len(path) :
          g[i] = <<IF i = 1 THEN from ELSE path[i - 1], path[i]>>
    BY DEF HistoryRows
  <1>5. DOMAIN g = 1..Len(path)
    BY DEF HistoryRows
  <1> HIDE DEF g
  <1>6. Len(g) = Len(path)
    BY <1>2, <1>3, <1>5
  <1>7. g # <<>> /\ g[1][1] = from /\ g[Len(g)][2] = "ASSIGNED"
    BY <1>3, <1>4, <1>6
  <1>8. ASSUME NEW i \in 1..Len(g) - 1
        PROVE  g[i][2] = g[i + 1][1]
    <2>1. /\ i \in 1..Len(path) /\ i + 1 \in 1..Len(path)
          /\ i + 1 # 1 /\ (i + 1) - 1 = i
      BY <1>3, <1>6
    <2> QED
      BY <1>4, <2>1
  <1>10. \A i \in 1..Len(g) : g[i] \in Transitions
    BY <1>4, <1>6, <1>9
  <1> QED
    BY <1>2, <1>7, <1>8, <1>10 DEF g, path

\* The history of every order stays a path to its status.
LEMMA EffectKeepsHistory ==
  ASSUME TypeOK, HistoryIsAPath, RecordEffect
  PROVE  HistoryIsAPath'
  <1> DEFINE S == (OrderStatus \cup {"NONE"}) \X OrderStatus
  <1>1. \A x \in Orders : history[x] \in Seq(S) /\ order[x] \in Order
    BY DEF TypeOK
  <1>2. \A x \in Orders : LeadsTo(history[x], order[x].status)
    BY DEF HistoryIsAPath, LeadsTo
  <1>3. (\A x \in Orders : LeadsTo(history'[x], order'[x].status)) => HistoryIsAPath'
    BY DEF HistoryIsAPath, LeadsTo
  <1>4. \A x \in Orders : /\ order[x].status \in OrderStatus \cup {"NONE"}
                          /\ history[x] = <<>> => order[x].status = "NONE"
    BY <1>1, <1>2 DEF Order, LeadsTo
  <1>5. CASE UNCHANGED <<order, collected, history, reward, referral>>
    BY <1>2, <1>3, <1>5
  <1>6. ASSUME NEW o \in Orders, OthersKept(o), LeadsTo(history'[o], order'[o].status)
        PROVE  HistoryIsAPath'
    BY <1>2, <1>3, <1>6 DEF OthersKept
  <1>7. ASSUME NEW o \in Orders, NEW s \in OrderStatus, OthersKept(o),
               Recorded(o, s), order'[o].status = s,
               <<order[o].status, s>> \in Transitions
        PROVE  HistoryIsAPath'
    <2>1. <<order[o].status, s>> \in S
      BY <1>4
    <2>2. LeadsTo(Append(history[o], <<order[o].status, s>>), s)
      BY <1>1, <1>2, <1>4, <1>7, <2>1, HistoryExtended
    <2> QED
      BY <1>6, <1>7, <2>2 DEF Recorded
  <1>8. ASSUME NEW o \in Orders, AssignRecords(o)
        PROVE  HistoryIsAPath'
    <2> DEFINE g == HistoryRows(order[o].status, NextStatuses(order[o].status))
    <2>1. /\ g \in Seq(S) /\ g # <<>> /\ g[1][1] = order[o].status
          /\ g[Len(g)][2] = "ASSIGNED"
          /\ \A i \in 1..Len(g) : g[i] \in Transitions
          /\ \A i \in 1..Len(g) - 1 : g[i][2] = g[i + 1][1]
      BY <1>8, AssignmentRows DEF AssignRecords
    <2>2. /\ history'[o] = history[o] \o g
          /\ order'[o].status = "ASSIGNED" /\ OthersKept(o)
      BY <1>8 DEF AssignRecords, OnlyStatus
    <2> HIDE DEF g
    <2>3. LeadsTo(history[o] \o g, g[Len(g)][2])
      BY <1>1, <1>2, <1>4, <2>1, HistoryJoined
    <2> QED
      BY <1>6, <2>1, <2>2, <2>3
  <1>9. ASSUME NEW o \in Orders,
               \/ PlaceRecords(o) \/ CancelRecords(o) \/ FailRecords(o)
               \/ CompleteRecords(o)
        PROVE  HistoryIsAPath'
    <2>1. {"PENDING", "CANCELLED", "FAILED", "DELIVERED"} \subseteq OrderStatus
      BY DEF OrderStatus
    <2>2. CASE PlaceRecords(o)
      <3>1. <<order[o].status, "PENDING">> \in Transitions
        BY <2>2 DEF PlaceRecords, Transitions, DocumentedTransitions
      <3> QED
        BY <1>7, <2>1, <2>2, <3>1 DEF PlaceRecords
    <2>3. CASE CancelRecords(o)
      <3>1. <<order[o].status, "CANCELLED">> \in Transitions
        BY <2>3 DEF CancelRecords, Transitions, DocumentedTransitions
      <3> QED
        BY <1>7, <2>1, <2>3, <3>1 DEF CancelRecords, OnlyStatus
    <2>4. CASE FailRecords(o)
      <3>1. <<order[o].status, "FAILED">> \in Transitions
        BY <2>4 DEF FailRecords, OnTheRoad, Transitions, DocumentedTransitions
      <3> QED
        BY <1>7, <2>1, <2>4, <3>1 DEF FailRecords, OnlyStatus
    <2>5. CASE CompleteRecords(o)
      <3>1. <<order[o].status, "DELIVERED">> \in Transitions
        BY <2>5 DEF CompleteRecords, OnTheRoad, Transitions, DocumentedTransitions
      <3> QED
        BY <1>7, <2>1, <2>5, <3>1 DEF CompleteRecords
    <2> QED
      BY <1>9, <2>2, <2>3, <2>4, <2>5
  <1> QED
    BY <1>5, <1>8, <1>9 DEF RecordEffect

\* What is paid stays what was collected.
LEMMA EffectKeepsPayments ==
  ASSUME PaidMatchesPayments, UnpaidBeforeDelivery, NothingRedeemedYet, RecordEffect
  PROVE  PaidMatchesPayments' /\ UnpaidBeforeDelivery' /\ NothingRedeemedYet'
  <1> USE DEF PaidMatchesPayments, UnpaidBeforeDelivery, NothingRedeemedYet
  <1>1. CASE UNCHANGED <<order, collected, history, reward, referral>>
    BY <1>1
  <1>2. ASSUME NEW o \in Orders, OthersKept(o),
               order'[o].status # "NONE",
               order'[o].paid = collected'[o],
               order'[o].status # "DELIVERED" =>
                 /\ order'[o].paid = 0 /\ order'[o].payStatus = "UNPAID"
                 /\ collected'[o] = 0
        PROVE  PaidMatchesPayments' /\ UnpaidBeforeDelivery' /\ NothingRedeemedYet'
    BY <1>2 DEF OthersKept
  <1>3. ASSUME NEW o \in Orders, PlaceRecords(o)
        PROVE  PaidMatchesPayments' /\ UnpaidBeforeDelivery' /\ NothingRedeemedYet'
    BY <1>2, <1>3 DEF PlaceRecords
  <1>4. ASSUME NEW o \in Orders,
               CancelRecords(o) \/ AssignRecords(o) \/ FailRecords(o)
        PROVE  PaidMatchesPayments' /\ UnpaidBeforeDelivery' /\ NothingRedeemedYet'
    <2>1. /\ order[o].status # "DELIVERED"
          /\ \E s \in {"CANCELLED", "ASSIGNED", "FAILED"} : OnlyStatus(o, s)
      BY <1>4 DEF CancelRecords, AssignRecords, FailRecords, Terminal, Assignable,
                  OnTheRoad
    <2> QED
      BY <1>2, <2>1 DEF OnlyStatus
  <1>5. ASSUME NEW o \in Orders, CompleteRecords(o)
        PROVE  PaidMatchesPayments' /\ UnpaidBeforeDelivery' /\ NothingRedeemedYet'
    BY <1>2, <1>5 DEF CompleteRecords
  <1> QED
    BY <1>1, <1>3, <1>4, <1>5 DEF RecordEffect

\* A qualified referral keeps the delivered and paid order it names.
LEMMA EffectKeepsQualified ==
  ASSUME TypeOK, QualifiedByPaidOrder, RecordEffect
  PROVE  QualifiedByPaidOrder'
  <1>1. CASE UNCHANGED <<order, collected, history, reward, referral>>
    BY <1>1 DEF QualifiedByPaidOrder
  <1>2. ASSUME NEW o \in Orders, OthersKept(o), order[o].status # "DELIVERED",
               NEW c \in Customers, referral'[c] = referral[c],
               referral[c].status = "QUALIFIED"
        PROVE  LET x == referral'[c].order
               IN  /\ x \in Orders /\ Owner[x] = c
                   /\ order'[x].status = "DELIVERED"
                   /\ order'[x].payStatus = "PAID"
                   /\ order'[x].paid >= order'[x].total
    <2>1. /\ referral[c].order \in Orders /\ Owner[referral[c].order] = c
          /\ order[referral[c].order].status = "DELIVERED"
          /\ order[referral[c].order].payStatus = "PAID"
          /\ order[referral[c].order].paid >= order[referral[c].order].total
      BY <1>2 DEF QualifiedByPaidOrder
    <2>2. order'[referral[c].order] = order[referral[c].order]
      BY <1>2, <2>1 DEF OthersKept
    <2> QED
      BY <1>2, <2>1, <2>2
  <1>3. ASSUME NEW o \in Orders, OthersKept(o), order[o].status # "DELIVERED",
               UNCHANGED referral
        PROVE  QualifiedByPaidOrder'
    BY <1>2, <1>3 DEF QualifiedByPaidOrder
  <1>4. ASSUME NEW o \in Orders,
               \/ PlaceRecords(o) \/ CancelRecords(o) \/ AssignRecords(o)
               \/ FailRecords(o)
        PROVE  QualifiedByPaidOrder'
    <2>1. /\ OthersKept(o) /\ UNCHANGED referral
          /\ order[o].status # "DELIVERED"
      BY <1>4 DEF PlaceRecords, CancelRecords, AssignRecords, FailRecords, OnlyStatus,
                  Terminal, Assignable, OnTheRoad
    <2> QED
      BY <1>3, <2>1
  <1>5. ASSUME NEW o \in Orders, CompleteRecords(o)
        PROVE  QualifiedByPaidOrder'
    <2>1. OthersKept(o) /\ order[o].status # "DELIVERED"
      BY <1>5 DEF CompleteRecords, OnTheRoad
    <2>2. CASE UNCHANGED referral
      BY <1>3, <2>1, <2>2
    <2>3. CASE ~UNCHANGED referral
      <3>1. /\ referral' = [referral EXCEPT
                              ![Owner[o]] = [status |-> "QUALIFIED", order |-> o]]
            /\ order'[o].status = "DELIVERED"
            /\ order'[o].payStatus = "PAID" /\ order'[o].paid >= order'[o].total
        BY <1>5, <2>3 DEF CompleteRecords, Awards
      <3>2. /\ Owner[o] \in Customers
            /\ referral'[Owner[o]] = [status |-> "QUALIFIED", order |-> o]
            /\ \A c \in Customers : c # Owner[o] => referral'[c] = referral[c]
        BY <3>1, FulfilmentAssumption DEF TypeOK
      <3> QED
        BY <1>2, <2>1, <3>1, <3>2 DEF QualifiedByPaidOrder
    <2> QED
      BY <2>2, <2>3
  <1> QED
    BY <1>1, <1>4, <1>5 DEF RecordEffect

-----------------------------------------------------------------------------
(* Reward balances count the redemptions of orders that still stand.       *)

Redemptions(c) ==
  {o \in Orders : Owner[o] = c /\ order[o].reward /\ order[o].status # "CANCELLED"}

\* A reward balance, consistent, with n bottles redeemed.
Balanced(b, n) ==
  /\ b.available >= 0
  /\ b.available = b.earned - b.redeemed
  /\ b.available = b.ledger
  /\ b.redeemed = n

\* Redeeming a bottle there is, giving one back and earning some keep a
\* balance consistent.
LEMMA BalanceMoves ==
  ASSUME NEW b \in RewardBalance, NEW n, Balanced(b, n), NEW k \in Nat
  PROVE  /\ b.available >= 1 => Balanced(Redeemed(b, 1), n + 1)
         /\ Balanced(Redeemed(b, -1), n - 1)
         /\ Balanced(Earned(b, k), n)
  BY DEF RewardBalance, Balanced, Redeemed, Earned

\* The redemptions of a customer when one order changes.
LEMMA RedemptionsOf ==
  ASSUME NEW o \in Orders, OthersKept(o)
  PROVE  /\ \A c \in Customers : c # Owner[o] => Redemptions(c)' = Redemptions(c)
         /\ Redemptions(Owner[o])' =
              IF order'[o].reward /\ order'[o].status # "CANCELLED"
                THEN Redemptions(Owner[o]) \cup {o}
                ELSE Redemptions(Owner[o]) \ {o}
  BY DEF OthersKept, Redemptions

\* Redemptions can be counted.
LEMMA RedemptionsFinite ==
  ASSUME NEW c \in Customers
  PROVE  IsFiniteSet(Redemptions(c)) /\ Cardinality(Redemptions(c)) \in Nat
  <1>1. IsFiniteSet(Redemptions(c))
    BY FulfilmentAssumption, FS_Subset DEF Redemptions
  <1> QED
    BY <1>1, FS_CardinalityType

\* Reward bottles stay spent once.
LEMMA EffectKeepsRewards ==
  ASSUME TypeOK, RewardsBalance, NothingRedeemedYet, RecordEffect
  PROVE  RewardsBalance'
  <1> DEFINE N(c) == Cardinality(Redemptions(c))
  <1>1. \A c \in Customers : reward[c] \in RewardBalance /\ Balanced(reward[c], N(c))
    BY DEF TypeOK, RewardsBalance, Balanced, Redemptions
  <1>2. (\A c \in Customers : Balanced(reward'[c], Cardinality(Redemptions(c)')))
          => RewardsBalance'
    BY DEF RewardsBalance, Balanced, Redemptions
  <1>3. \A o \in Orders : Owner[o] \in Customers
    BY FulfilmentAssumption
  <1>4. CASE UNCHANGED <<order, collected, history, reward, referral>>
    <2>1. \A c \in Customers : Redemptions(c)' = Redemptions(c)
      BY <1>4 DEF Redemptions
    <2> QED
      BY <1>1, <1>2, <1>4, <2>1
  <1>5. ASSUME NEW o \in Orders, PlaceRecords(o)
        PROVE  RewardsBalance'
    <2> DEFINE c == Owner[o]
    <2>1. /\ OthersKept(o) /\ o \notin Redemptions(c) /\ c \in Customers
          /\ order'[o].status = "PENDING"
      BY <1>3, <1>5 DEF PlaceRecords, NothingRedeemedYet, Redemptions
    <2>2. CASE order'[o].reward
      <3>1. /\ reward[c].available >= 1
            /\ reward' = [reward EXCEPT ![c] = Redeemed(@, 1)]
        BY <1>5, <2>2 DEF PlaceRecords
      <3>2. Redemptions(c)' = Redemptions(c) \cup {o}
        BY <2>1, <2>2, RedemptionsOf
      <3>3. Cardinality(Redemptions(c)') = N(c) + 1
        BY <2>1, <3>2, RedemptionsFinite, FS_AddElement
      <3>4. Balanced(Redeemed(reward[c], 1), N(c) + 1)
        BY <1>1, <2>1, <3>1, BalanceMoves
      <3>5. /\ reward'[c] = Redeemed(reward[c], 1)
            /\ \A x \in Customers : x # c => reward'[x] = reward[x]
        BY <2>1, <3>1 DEF TypeOK
      <3>6. \A x \in Customers : x # c => Redemptions(x)' = Redemptions(x)
        BY <2>1, RedemptionsOf
      <3> QED
        BY <1>1, <1>2, <3>3, <3>4, <3>5, <3>6
    <2>3. CASE ~order'[o].reward
      <3>1. reward' = reward
        BY <1>5, <2>3 DEF PlaceRecords
      <3>2. Redemptions(c)' = Redemptions(c)
        BY <2>1, <2>3, RedemptionsOf
      <3>3. \A x \in Customers : Redemptions(x)' = Redemptions(x)
        BY <2>1, <3>2, RedemptionsOf
      <3> QED
        BY <1>1, <1>2, <3>1, <3>3
    <2> QED
      BY <2>2, <2>3
  <1>6. ASSUME NEW o \in Orders, CancelRecords(o)
        PROVE  RewardsBalance'
    <2> DEFINE c == Owner[o]
    <2>1. /\ OthersKept(o) /\ c \in Customers
          /\ order'[o].status = "CANCELLED" /\ order[o].status # "CANCELLED"
      BY <1>3, <1>6 DEF CancelRecords, OnlyStatus, Terminal
    <2>2. Redemptions(c)' = Redemptions(c) \ {o}
      BY <2>1, RedemptionsOf
    <2>3. \A x \in Customers : x # c => Redemptions(x)' = Redemptions(x)
      BY <2>1, RedemptionsOf
    <2>4. CASE order[o].reward
      <3>1. reward' = [reward EXCEPT ![c] = Redeemed(@, -1)]
        BY <1>6, <2>4 DEF CancelRecords
      <3>2. o \in Redemptions(c)
        BY <2>1, <2>4 DEF Redemptions
      <3>3. Cardinality(Redemptions(c)') = N(c) - 1
        BY <2>1, <2>2, <3>2, RedemptionsFinite, FS_RemoveElement
      <3>4. Balanced(Redeemed(reward[c], -1), N(c) - 1)
        BY <1>1, <2>1, BalanceMoves, 0 \in Nat
      <3>5. /\ reward'[c] = Redeemed(reward[c], -1)
            /\ \A x \in Customers : x # c => reward'[x] = reward[x]
        BY <2>1, <3>1 DEF TypeOK
      <3> QED
        BY <1>1, <1>2, <2>3, <3>3, <3>4, <3>5
    <2>5. CASE ~order[o].reward
      <3>1. reward' = reward
        BY <1>6, <2>5 DEF CancelRecords
      <3>2. Redemptions(c)' = Redemptions(c)
        BY <2>2, <2>5 DEF Redemptions
      <3> QED
        BY <1>1, <1>2, <2>3, <3>1, <3>2
    <2> QED
      BY <2>4, <2>5
  <1>7. ASSUME NEW o \in Orders,
               AssignRecords(o) \/ FailRecords(o) \/ CompleteRecords(o)
        PROVE  RewardsBalance'
    <2>1. /\ OthersKept(o)
          /\ order[o].status # "CANCELLED" /\ order'[o].status # "CANCELLED"
          /\ order'[o].reward = order[o].reward
      BY <1>7 DEF AssignRecords, FailRecords, CompleteRecords, OnlyStatus,
                  Assignable, OnTheRoad
    <2>2. \A c \in Customers : Redemptions(c)' = Redemptions(c)
      BY <2>1 DEF OthersKept, Redemptions
    <2>3. \/ reward' = reward
          \/ \E r \in Customers, n \in Nat : reward' = [reward EXCEPT ![r] = Earned(@, n)]
      BY <1>7 DEF AssignRecords, FailRecords, CompleteRecords, Awards
    <2>4. CASE reward' = reward
      BY <1>1, <1>2, <2>2, <2>4
    <2>5. ASSUME NEW r \in Customers, NEW n \in Nat,
                 reward' = [reward EXCEPT ![r] = Earned(@, n)]
          PROVE  RewardsBalance'
      <3>1. /\ reward'[r] = Earned(reward[r], n)
            /\ \A x \in Customers : x # r => reward'[x] = reward[x]
        BY <2>5 DEF TypeOK
      <3>2. Balanced(Earned(reward[r], n), N(r))
        BY <1>1, BalanceMoves
      <3> QED
        BY <1>1, <1>2, <2>2, <3>1, <3>2
    <2> QED
      BY <2>3, <2>4, <2>5
  <1> QED
    BY <1>4, <1>5, <1>6, <1>7 DEF RecordEffect

-----------------------------------------------------------------------------
(* The theorems about the records.                                         *)

\* A handler's head reads an order that is not delivered yet.
LEMMA StepKeepsReads ==
  ASSUME RecordInv, [Next]_vars
  PROVE  ReadsOfOrder'
  <1> USE DEF RecordInv, RecordsRight
  <1>1. ASSUME NEW p \in Procs, NEW t,
               \A q \in Procs : txn'[q] = IF q = p THEN t ELSE txn[q],
               t.op \in Completing \cup {"fail"} => t.orderStatus = t.status,
               t.op \in Completing => t.paid = 0
        PROVE  ReadsOfOrder'
    BY <1>1 DEF ReadsOfOrder
  <1>2. txn \in [Procs -> Transaction]
    BY DEF LockInv, TypeInv, TypeOK
  <1>3. ASSUME NEW p \in Procs, Close(p)
        PROVE  ReadsOfOrder'
    BY <1>1, <1>2, <1>3 DEF Close, Idle, Completing
  <1>4. ASSUME NEW p \in Procs, NEW t, Begin(p, t),
               t.op \in Completing \cup {"fail"} => t.orderStatus = t.status,
               t.op \in Completing => t.paid = 0
        PROVE  ReadsOfOrder'
    BY <1>1, <1>2, <1>4 DEF Begin
  <1>5. ASSUME NEW o \in Orders, NEW k \in DOMAIN delivery[o],
               delivery[o][k].status \in OnTheRoad
        PROVE  order[o].status = delivery[o][k].status /\ order[o].paid = 0
    <2>1. order[o].status = delivery[o][k].status
      BY <1>5, OnTheRoadAgrees
    <2> QED
      BY <1>5, <2>1 DEF UnpaidBeforeDelivery, OnTheRoad
  <1>6. ASSUME NEW p \in Procs, NEW o \in Orders,
               \/ \E cart \in Carts, redeem \in BOOLEAN :
                    BeginPlace(p, o, cart, redeem)
               \/ BeginCancel(p, o)
               \/ \E d \in Drivers : BeginAssign(p, o, d)
               \/ \E k \in DOMAIN delivery[o] : BeginReconcile(p, o, k)
        PROVE  ReadsOfOrder'
    <2>1. ASSUME NEW t, Begin(p, t),
                 t.op \in {"place", "cancel", "assign", "reconcile"}
          PROVE  ReadsOfOrder'
      <3>1. t.op \notin Completing \cup {"fail"}
        BY <2>1 DEF Completing
      <3> QED
        BY <1>4, <2>1, <3>1
    <2>2. ASSUME NEW cart \in Carts, NEW redeem \in BOOLEAN,
                 BeginPlace(p, o, cart, redeem)
          PROVE  ReadsOfOrder'
      BY <2>1, <2>2 DEF BeginPlace
    <2>3. CASE BeginCancel(p, o)
      BY <2>1, <2>3 DEF BeginCancel
    <2>4. ASSUME NEW d \in Drivers, BeginAssign(p, o, d)
          PROVE  ReadsOfOrder'
      BY <2>1, <2>4 DEF BeginAssign
    <2>5. ASSUME NEW k \in DOMAIN delivery[o], BeginReconcile(p, o, k)
          PROVE  ReadsOfOrder'
      BY <2>1, <2>5 DEF BeginReconcile
    <2> QED
      BY <1>6, <2>2, <2>3, <2>4, <2>5
  <1>7. ASSUME NEW p \in Procs, NEW o \in Orders, NEW k \in DOMAIN delivery[o],
               NEW form \in Forms, NEW refill \in Products \cup {Nobody},
               BeginComplete(p, o, k, form, refill)
        PROVE  ReadsOfOrder'
    BY <1>4, <1>5, <1>7 DEF BeginComplete
  <1>8. ASSUME NEW p \in Procs, NEW o \in Orders, NEW k \in DOMAIN delivery[o],
               BeginFail(p, o, k)
        PROVE  ReadsOfOrder'
    BY <1>4, <1>5, <1>8 DEF BeginFail, Completing
  <1>9. ASSUME NEW p \in Procs, QualifyReferral(p) \/ ReadRewardBalance(p)
        PROVE  ReadsOfOrder'
    <2>1. /\ txn[p].op \in Completing
          /\ txn[p].orderStatus = txn[p].status /\ txn[p].paid = 0
      BY <1>9 DEF QualifyReferral, ReadRewardBalance, Completing, ReadsOfOrder
    <2>2. txn[p] \in Delivering
      BY <2>1, CompletionTypes DEF LockInv
    <2>3. /\ \A q \in Procs \ {p} : txn'[q] = txn[q]
          /\ txn'[p].orderStatus = txn[p].orderStatus
          /\ txn'[p].status = txn[p].status /\ txn'[p].paid = txn[p].paid
      BY <1>2, <1>9, <2>2 DEF QualifyReferral, ReadRewardBalance, Delivering
    <2> QED
      BY <2>1, <2>3 DEF ReadsOfOrder
  <1>10. CASE UNCHANGED vars
    BY <1>10 DEF vars, ReadsOfOrder
  <1>11. CASE Next
    <2>1. PICK p \in Procs :
            \/ \E o \in Orders :
                 \/ \E cart \in Carts, redeem \in BOOLEAN :
                      BeginPlace(p, o, cart, redeem)
                 \/ BeginCancel(p, o)
                 \/ \E d \in Drivers : BeginAssign(p, o, d)
                 \/ \E k \in DOMAIN delivery[o] : BeginReconcile(p, o, k)
            \/ \E o \in Orders : \E k \in DOMAIN delivery[o] :
                 \/ \E form \in Forms, refill \in Products \cup {Nobody} :
                      BeginComplete(p, o, k, form, refill)
                 \/ BeginFail(p, o, k)
            \/ QualifyReferral(p) \/ ReadRewardBalance(p)
            \/ \/ CommitPlace(p) \/ CommitCancel(p) \/ CommitAssign(p)
               \/ CommitComplete(p) \/ CommitQualifying(p) \/ CommitFail(p)
               \/ CommitReconcile(p) \/ Rollback(p)
      BY <1>11 DEF Next
    <2>2. \/ CommitPlace(p) \/ CommitCancel(p) \/ CommitAssign(p)
          \/ CommitComplete(p) \/ CommitQualifying(p) \/ CommitFail(p)
          \/ CommitReconcile(p) \/ Rollback(p)
          => Close(p)
      BY DEF CommitPlace, CommitCancel, CommitAssign, CommitComplete,
             CommitQualifying, CommitFail, CommitReconcile, Rollback
    <2>3. CASE \E o \in Orders :
                 \/ \E cart \in Carts, redeem \in BOOLEAN :
                      BeginPlace(p, o, cart, redeem)
                 \/ BeginCancel(p, o)
                 \/ \E d \in Drivers : BeginAssign(p, o, d)
                 \/ \E k \in DOMAIN delivery[o] : BeginReconcile(p, o, k)
      BY <1>6, <2>3
    <2>4. CASE \E o \in Orders : \E k \in DOMAIN delivery[o] :
                 \/ \E form \in Forms, refill \in Products \cup {Nobody} :
                      BeginComplete(p, o, k, form, refill)
                 \/ BeginFail(p, o, k)
      BY <1>7, <1>8, <2>4
    <2>5. CASE QualifyReferral(p) \/ ReadRewardBalance(p)
      BY <1>9, <2>5
    <2> QED
      BY <1>3, <2>1, <2>2, <2>3, <2>4, <2>5
  <1> QED
    BY <1>10, <1>11

\* Every step keeps the records right when assign forms are current.
LEMMA StepKeepsRecords ==
  ASSUME CurrentForms, RecordInv, [Next]_vars
  PROVE  RecordInv'
  <1>1. DispatchInv' /\ LockInv' /\ ReadsOfOrder'
    BY StepKeepsDispatch, StepKeepsLocks, StepKeepsReads DEF RecordInv
  <1>2. RecordEffect
    <2>1. CASE UNCHANGED vars
      BY <2>1 DEF vars, RecordEffect
    <2>2. CASE Next
      BY <2>2, StepHasRecordEffect
    <2> QED
      BY <2>1, <2>2
  <1>3. TypeOK /\ RecordsRight
    BY DEF RecordInv, LockInv, TypeInv
  <1>4. RecordsRight'
    BY <1>2, <1>3, EffectKeepsHistory, EffectKeepsPayments, EffectKeepsQualified,
       EffectKeepsRewards DEF RecordsRight
  <1> QED
    BY <1>1, <1>4 DEF RecordInv

\* At first there is nothing to record.
LEMMA InitRecords == Init => RecordInv
  <1> SUFFICES ASSUME Init PROVE RecordInv
    OBVIOUS
  <1>1. DispatchInv /\ LockInv
    BY InitDispatch, InitLocks
  <1>2. ReadsOfOrder
    BY DEF Init, ReadsOfOrder, Idle, Completing
  <1>3. /\ HistoryIsAPath /\ PaidMatchesPayments /\ UnpaidBeforeDelivery
        /\ QualifiedByPaidOrder /\ NothingRedeemedYet
    BY DEF Init, NoOrder, HistoryIsAPath, PaidMatchesPayments, UnpaidBeforeDelivery,
           QualifiedByPaidOrder, NothingRedeemedYet
  <1>4. RewardsBalance
    <2>1. ASSUME NEW c \in Customers
          PROVE  Cardinality(Redemptions(c)) = 0
      <3>1. Redemptions(c) = {}
        BY DEF Init, NoOrder, Redemptions
      <3> QED
        BY <3>1, FS_EmptySet
    <2>2. \A c \in Customers :
            /\ reward[c].available = 0 /\ reward[c].earned = 0
            /\ reward[c].redeemed = 0 /\ reward[c].ledger = 0
      BY DEF Init
    <2> QED
      BY <2>1, <2>2 DEF RewardsBalance, Redemptions
  <1> QED
    BY <1>1, <1>2, <1>3, <1>4 DEF RecordInv, RecordsRight

\* The invariant holds in every reachable state.
LEMMA RecordInvariant ==
  ASSUME CurrentForms
  PROVE  Spec => []RecordInv
  <1>1. RecordInv /\ [Next]_vars => RecordInv'
    BY StepKeepsRecords
  <1> QED
    BY <1>1, InitRecords, PTL DEF Spec

\* The status history is an unbroken path to the current status, of transitions
\* of the documented table and ASSIGNED to DELIVERED, although completions and
\* failures record a status they read earlier.
THEOREM HistoryUnbroken ==
  ASSUME CurrentForms
  PROVE  Spec => []HistoryIsAPath
  <1>1. RecordInv => HistoryIsAPath
    BY DEF RecordInv, RecordsRight
  <1> QED
    BY <1>1, RecordInvariant, PTL

\* No payment is overwritten: what an order has been paid, computed from an
\* earlier read, is what was collected for it.
THEOREM PaymentsMatch ==
  ASSUME CurrentForms
  PROVE  Spec => []PaidMatchesPayments
  <1>1. RecordInv => PaidMatchesPayments
    BY DEF RecordInv, RecordsRight
  <1> QED
    BY <1>1, RecordInvariant, PTL

\* Only a delivered and fully paid order of its customer qualifies a referral.
THEOREM ReferralsArePaid ==
  ASSUME CurrentForms
  PROVE  Spec => []QualifiedByPaidOrder
  <1>1. RecordInv => QualifiedByPaidOrder
    BY DEF RecordInv, RecordsRight
  <1> QED
    BY <1>1, RecordInvariant, PTL

\* Reward bottles are spent once, whichever of a placement, a cancellation and
\* an award of the same customer commits first.
THEOREM RewardsSpentOnce ==
  ASSUME CurrentForms
  PROVE  Spec => []RewardsBalance
  <1>1. RecordInv => RewardsBalance
    BY DEF RecordInv, RecordsRight
  <1> QED
    BY <1>1, RecordInvariant, PTL

-----------------------------------------------------------------------------
(* The services implement RewardProgram: each effect on the records is one *)
(* of its actions, or leaves its variables alone.                          *)

\* Its variables, as functions of the tables.
QualifiedOnes == {c \in Customers : referral[c].status = "QUALIFIED"}
EarnedBy == [c \in Customers |-> reward[c].earned]
AvailableTo == [c \in Customers |-> reward[c].available]
Funded == {o \in Orders : order[o].reward /\ order[o].status # "CANCELLED"}
Released == {o \in Orders : order[o].reward /\ order[o].status = "CANCELLED"}

\* The orders with a reward bottle when one order changes.
LEMMA BottleOfOrder ==
  ASSUME NEW o \in Orders, OthersKept(o)
  PROVE  /\ Funded' = IF order'[o].reward /\ order'[o].status # "CANCELLED"
                        THEN Funded \cup {o} ELSE Funded \ {o}
         /\ Released' = IF order'[o].reward /\ order'[o].status = "CANCELLED"
                          THEN Released \cup {o} ELSE Released \ {o}
  BY DEF OthersKept, Funded, Released

\* The order's bottle stays where it is.
LEMMA BottleStays ==
  ASSUME NEW o \in Orders, OthersKept(o), order'[o].reward = order[o].reward,
         order[o].reward =>
           (order'[o].status = "CANCELLED" <=> order[o].status = "CANCELLED")
  PROVE  Funded' = Funded /\ Released' = Released
  BY DEF OthersKept, Funded, Released

\* Each effect on the records is one abstract action, or none.
LEMMA EffectIsRewardStep ==
  ASSUME TypeOK, NothingRedeemedYet, RecordEffect
  PROVE  [Program!RewardNext]_(Program!rewardVars)
  <1>1. (UNCHANGED <<reward, referral>> /\ Funded' = Funded /\ Released' = Released)
          => UNCHANGED Program!rewardVars
    BY DEF Program!rewardVars, Funded, Released
  <1>2. reward \in [Customers -> RewardBalance] /\ referral \in [Customers -> Referral]
    BY DEF TypeOK
  <1>3. \A o \in Orders : Owner[o] \in Customers
    BY FulfilmentAssumption
  <1>4. CASE UNCHANGED <<order, collected, history, reward, referral>>
    BY <1>1, <1>4 DEF Funded, Released
  <1>5. ASSUME NEW o \in Orders, PlaceRecords(o)
        PROVE  [Program!RewardNext]_(Program!rewardVars)
    <2>1. /\ OthersKept(o) /\ ~order[o].reward /\ UNCHANGED referral
          /\ order'[o].status = "PENDING"
      BY <1>5 DEF PlaceRecords, NothingRedeemedYet
    <2>2. CASE order'[o].reward
      <3>1. /\ reward[Owner[o]].available >= 1
            /\ reward' = [reward EXCEPT ![Owner[o]] = Redeemed(@, 1)]
        BY <1>5, <2>2 DEF PlaceRecords
      <3>2. Funded' = Funded \cup {o} /\ Released' = Released
        BY <2>1, <2>2, BottleOfOrder DEF Released
      <3>3. o \notin Funded \cup Released
        BY <2>1 DEF Funded, Released
      <3>4. /\ EarnedBy' = EarnedBy /\ QualifiedOnes' = QualifiedOnes
            /\ AvailableTo' = [AvailableTo EXCEPT ![Owner[o]] = @ - 1]
        BY <1>2, <1>3, <2>1, <3>1 DEF EarnedBy, QualifiedOnes, AvailableTo, Redeemed
      <3>5. AvailableTo[Owner[o]] >= 1
        BY <1>3, <3>1 DEF AvailableTo
      <3>6. Program!Redeem(o)
        BY <3>2, <3>3, <3>4, <3>5
           DEF Program!Redeem, Funded, Released, EarnedBy, QualifiedOnes, AvailableTo
      <3> QED
        BY <3>6 DEF Program!RewardNext
    <2>3. CASE ~order'[o].reward
      <3>1. Funded' = Funded /\ Released' = Released
        BY <2>1, <2>3, BottleStays DEF OthersKept, Funded, Released
      <3> QED
        BY <1>1, <1>5, <2>3, <3>1 DEF PlaceRecords
    <2> QED
      BY <2>2, <2>3
  <1>6. ASSUME NEW o \in Orders, CancelRecords(o)
        PROVE  [Program!RewardNext]_(Program!rewardVars)
    <2>1. /\ OthersKept(o) /\ order'[o].reward = order[o].reward
          /\ order[o].status # "CANCELLED" /\ order'[o].status = "CANCELLED"
          /\ UNCHANGED referral
      BY <1>6 DEF CancelRecords, OnlyStatus, Terminal
    <2>2. CASE order[o].reward
      <3>1. reward' = [reward EXCEPT ![Owner[o]] = Redeemed(@, -1)]
        BY <1>6, <2>2 DEF CancelRecords
      <3>2. Funded' = Funded \ {o} /\ Released' = Released \cup {o} /\ o \in Funded
        BY <2>1, <2>2, BottleOfOrder DEF Funded
      <3>3. /\ EarnedBy' = EarnedBy /\ QualifiedOnes' = QualifiedOnes
            /\ AvailableTo' = [AvailableTo EXCEPT ![Owner[o]] = @ + 1]
        <4>1. \A b \in RewardBalance : b.available - (-1) = b.available + 1
          BY DEF RewardBalance
        <4> QED
          BY <1>2, <1>3, <2>1, <3>1, <4>1 DEF EarnedBy, QualifiedOnes, AvailableTo, Redeemed
      <3>4. Program!Restore(o)
        BY <3>2, <3>3
           DEF Program!Restore, Funded, Released, EarnedBy, QualifiedOnes, AvailableTo
      <3> QED
        BY <3>4 DEF Program!RewardNext
    <2>3. CASE ~order[o].reward
      BY <1>1, <1>6, <2>1, <2>3, BottleStays DEF CancelRecords
    <2> QED
      BY <2>2, <2>3
  <1>7. ASSUME NEW o \in Orders, AssignRecords(o) \/ FailRecords(o)
        PROVE  [Program!RewardNext]_(Program!rewardVars)
    <2>1. /\ OthersKept(o) /\ order'[o].reward = order[o].reward
          /\ order[o].status # "CANCELLED" /\ order'[o].status # "CANCELLED"
          /\ UNCHANGED <<reward, referral>>
      BY <1>7 DEF AssignRecords, FailRecords, OnlyStatus, Assignable, OnTheRoad
    <2> QED
      BY <1>1, <2>1, BottleStays
  <1>8. ASSUME NEW o \in Orders, CompleteRecords(o)
        PROVE  [Program!RewardNext]_(Program!rewardVars)
    <2>1. Funded' = Funded /\ Released' = Released
      BY <1>8, BottleStays DEF CompleteRecords, OnTheRoad
    <2>2. CASE UNCHANGED <<reward, referral>>
      BY <1>1, <2>1, <2>2
    <2>3. CASE Awards(o)
      <3> DEFINE c == Owner[o]
      <3>1. PICK n \in Nat : reward' = [reward EXCEPT ![Referrer[c]] = Earned(@, n)]
        BY <2>3 DEF Awards
      <3>2. /\ c \in Customers /\ Referrer[c] \in Customers
            /\ c \notin QualifiedOnes /\ QualifiedOnes' = QualifiedOnes \cup {c}
        BY <1>2, <1>3, <2>3 DEF Awards, QualifiedOnes
      <3> DEFINE r == Referrer[c]
      <3> HIDE DEF c
      <3>3. /\ EarnedBy' = [EarnedBy EXCEPT ![r] = @ + n]
            /\ AvailableTo' = [AvailableTo EXCEPT ![r] = @ + n]
        BY <1>2, <3>1, <3>2 DEF EarnedBy, AvailableTo, Earned
      <3>4. n = EarnedBy'[r] - EarnedBy[r]
        <4>1. EarnedBy \in [Customers -> Int]
          BY <1>2 DEF EarnedBy, RewardBalance
        <4> QED
          BY <3>2, <3>3, <4>1
      <3>5. Program!Qualify(c)
        BY <2>1, <3>2, <3>3, <3>4
           DEF Program!Qualify, Funded, Released, EarnedBy, QualifiedOnes, AvailableTo
      <3> QED
        BY <3>2, <3>5 DEF Program!RewardNext
    <2> QED
      BY <1>8, <2>2, <2>3 DEF CompleteRecords
  <1> QED
    BY <1>4, <1>5, <1>6, <1>7, <1>8 DEF RecordEffect

\* However placements, cancellations and completions overlap, the reward bottles
\* follow the programme that RewardProgram describes.
THEOREM RewardsImplemented ==
  ASSUME CurrentForms
  PROVE  Spec => ImplementsRewards
  <1>1. Init => Program!RewardInit
    BY DEF Init, Program!RewardInit, NoOrder
  <1>2. RecordInv /\ [Next]_vars => [Program!RewardNext]_(Program!rewardVars)
    <2> SUFFICES ASSUME RecordInv, [Next]_vars
                 PROVE  [Program!RewardNext]_(Program!rewardVars)
      OBVIOUS
    <2>1. RecordEffect
      <3>1. CASE UNCHANGED vars
        BY <3>1 DEF vars, RecordEffect
      <3>2. CASE Next
        BY <3>2, StepHasRecordEffect
      <3> QED
        BY <3>1, <3>2
    <2> QED
      BY <2>1, EffectIsRewardStep DEF RecordInv, RecordsRight, LockInv, TypeInv
  <1> QED
    BY <1>1, <1>2, RecordInvariant, PTL
    DEF Spec, ImplementsRewards, Program!RewardSpec

=============================================================================
