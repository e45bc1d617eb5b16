-------------------------------- MODULE Stock --------------------------------
(***************************************************************************)
(* Bottle stock positions and the one function that changes them,          *)
(* applyStockMove of services/inventory/move.ts.                           *)
(*                                                                         *)
(* A position row is keyed by product, bottle state, holder type and       *)
(* holder id.  The services only ever use five kinds of key, so the three  *)
(* key columns other than the product collapse into one "place": a         *)
(* warehouse state, a driver (ASSIGNED_TO_DRIVER, DRIVER, id) or a         *)
(* customer (WITH_CUSTOMER, CUSTOMER, id).  A row that was never inserted  *)
(* reads as quantity 0.                                                    *)
(***************************************************************************)
EXTENDS Integers

CONSTANTS Products, Drivers, Customers

\* The states of bottles the warehouse itself holds.
Warehouse == {"FILLED_WAREHOUSE", "EMPTY_WAREHOUSE", "DAMAGED"}

Places == Warehouse \cup Drivers \cup Customers

\* Holder ids are cuids of different tables: no two kinds of place coincide.
ASSUME PlacesAssumption ==
  /\ Drivers \cap Customers = {}
  /\ Warehouse \cap (Drivers \cup Customers) = {}

\* A quantity for every product: what one handler moves between two places.
Load == [Products -> Nat]

\* The column is a plain integer: no constraint keeps it from going negative.
StockPositions == [Places -> [Products -> Int]]

NoBottles == [p \in Products |-> 0]

Only(product, n) == [p \in Products |-> IF p = product THEN n ELSE 0]

\* Mutant of Covers: the decrement has no quantity condition.
CoversAlways(stock, place, load) == TRUE

\* The conditional decrement finds every source row with enough on it.
Covers(stock, place, load) ==
  \A p \in Products : stock[place][p] >= load[p]

\* Mutant of Moved: the upsert sets the target quantity.
MovedOverwriting(stock, from, to, load) ==
  [place \in Places |->
     IF place = to THEN load
     ELSE [p \in Products |->
             stock[place][p] - (IF place = from THEN load[p] ELSE 0)]]

\* Decrement the source rows, upsert the target rows.
Moved(stock, from, to, load) ==
  [place \in Places |->
     [p \in Products |-> stock[place][p] - (IF place = from THEN load[p] ELSE 0)
                                        + (IF place = to THEN load[p] ELSE 0)]]

=============================================================================
