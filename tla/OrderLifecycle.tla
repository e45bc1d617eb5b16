--------------------------- MODULE OrderLifecycle ---------------------------
(***************************************************************************)
(* What the fulfilment services promise about one order, without           *)
(* transactions, locks, vans or money: the statuses an order goes through, *)
(* its numbered delivery attempts, and the latch a failed attempt leaves   *)
(* until a manager reconciles it.                                          *)
(***************************************************************************)
EXTENDS Naturals

CONSTANTS Orders, CancelAllowed

VARIABLES
  status,   \* the order's status
  attempts, \* how many attempts the order has had
  latched   \* the failed attempts whose load has not been reconciled

lifecycleVars == <<status, attempts, latched>>

LifecycleInit ==
  /\ status = [o \in Orders |-> "NONE"]
  /\ attempts = [o \in Orders |-> 0]
  /\ latched = [o \in Orders |-> {}]

Place(o) ==
  /\ status[o] = "NONE"
  /\ status' = [status EXCEPT ![o] = "PENDING"]
  /\ UNCHANGED <<attempts, latched>>

Cancel(o) ==
  /\ status[o] \in CancelAllowed \ {"DELIVERED", "CANCELLED"}
  /\ status' = [status EXCEPT ![o] = "CANCELLED"]
  /\ UNCHANGED <<attempts, latched>>

\* The first dispatch of an order, or a new attempt after a failed one.
Dispatch(o) ==
  /\ status[o] \in {"PENDING", "CONFIRMED", "PROCESSING", "FAILED"}
  /\ status' = [status EXCEPT ![o] = "ASSIGNED"]
  /\ attempts' = [attempts EXCEPT ![o] = @ + 1]
  /\ UNCHANGED latched

\* Straight from ASSIGNED, which the table of docs/BUSINESS_RULES.md (section 4,
\* "anything else is rejected by the service layer") does not allow: no service
\* sets OUT_FOR_DELIVERY, and complete.ts takes an order in either status.
Deliver(o) ==
  /\ status[o] \in {"ASSIGNED", "OUT_FOR_DELIVERY"}
  /\ status' = [status EXCEPT ![o] = "DELIVERED"]
  /\ UNCHANGED <<attempts, latched>>

Fail(o) ==
  /\ status[o] \in {"ASSIGNED", "OUT_FOR_DELIVERY"}
  /\ status' = [status EXCEPT ![o] = "FAILED"]
  /\ latched' = [latched EXCEPT ![o] = @ \cup {attempts[o]}]
  /\ UNCHANGED attempts

Reconcile(o) ==
  /\ \E k \in latched[o] : latched' = [latched EXCEPT ![o] = @ \ {k}]
  /\ UNCHANGED <<status, attempts>>

LifecycleNext ==
  \E o \in Orders : \/ Place(o) \/ Cancel(o) \/ Dispatch(o)
                    \/ Deliver(o) \/ Fail(o) \/ Reconcile(o)

LifecycleSpec == LifecycleInit /\ [][LifecycleNext]_lifecycleVars

=============================================================================
