----------------------------- MODULE Permissions -----------------------------
(***************************************************************************)
(* Who may do what.  Three tables that nothing keeps together: the RBAC    *)
(* matrix (src/lib/permissions/index.ts), the roles each portal's pages    *)
(* and server actions require (src/lib/auth/dal.ts and its callers), and   *)
(* the route prefixes the proxy lets each role browse.                     *)
(***************************************************************************)

Roles == {"ADMINISTRATOR", "MANAGER", "AGENT", "DRIVER", "CUSTOMER"}

-----------------------------------------------------------------------------
(* The matrix.                                                             *)

Common == {"user:read:own", "user:update:own", "product:read",
           "notification:read:own"}

Customer == Common \cup
  {"order:read:own", "order:create:own", "order:cancel:own",
   "delivery:read:own", "bottle:balance:read:own", "dispenser:read:own",
   "dispenser:report-fault", "installment:read:own", "payment:read:own",
   "payment:create:own", "referral:read:own", "reward:redeem:own"}

Driver == Common \cup
  {"customer:read:scope", "order:read:scope", "delivery:read:assigned",
   "delivery:update-status", "delivery:record-exchange",
   "delivery:record-failure", "inventory:read:assigned",
   "payment:record-cash"}

\* Mutant of Agent: orders for customers forgotten.
AgentWithoutOrders == Common \cup
  {"customer:read:scope", "customer:create", "order:read:scope",
   "referral:read:scope", "report:agent:own"}

Agent == Common \cup
  {"customer:read:scope", "customer:create", "order:read:scope",
   "order:create:for-customer", "referral:read:scope", "report:agent:own"}

Manager == Common \cup
  {"user:read:any", "customer:read:any", "customer:create",
   "customer:update:any", "product:manage", "order:read:any",
   "order:create:for-customer", "order:update-status", "order:cancel:any",
   "order:assign-driver", "delivery:read:any", "delivery:update-status",
   "delivery:record-exchange", "delivery:record-failure",
   "delivery:reconcile", "inventory:read", "inventory:adjust",
   "bottle:shortage:resolve", "dispenser:read:any", "dispenser:manage",
   "dispenser:install", "dispenser:report-fault", "installment:read:any",
   "installment:manage", "payment:read:any", "payment:record-cash",
   "payment:reconcile", "payment:reverse", "payment:refund",
   "referral:read:any", "report:operational", "report:financial",
   "settings:read", "audit:read", "tracker:read",
   "tracker:acknowledge-alert"}

AdminOnlyOperations ==
  {"user:create", "user:update:any", "user:deactivate",
   "inventory:adjust:approve", "bottle:shortage:write-off",
   "dispenser:transfer-ownership", "reward:adjust", "settings:manage"}

\* PERMISSIONS, written as what the other lists name: each one is listed for
\* some role or is one of AdminOnlyOperations.
AllPermissions ==
  Customer \cup Driver \cup Agent \cup Manager \cup AdminOnlyOperations

Matrix == [role \in Roles |-> CASE role = "ADMINISTRATOR" -> AllPermissions
                                [] role = "MANAGER" -> Manager
                                [] role = "AGENT" -> Agent
                                [] role = "DRIVER" -> Driver
                                [] role = "CUSTOMER" -> Customer]

MayPerform(role, permission) == permission \in Matrix[role]

-----------------------------------------------------------------------------
(* What the code asks for.  No server action asks the matrix: each one     *)
(* names roles, through a helper of the DAL.                               *)

RequireCustomer == {"CUSTOMER"}
RequireDriver == {"DRIVER"}
RequireAgent == {"AGENT"}

RequireManager == {"ADMINISTRATOR", "MANAGER"}
RequireAdministrator == {"ADMINISTRATOR"}
RequireActor == Roles

Act(guard, permission) == [guard |-> guard, permission |-> permission]

\* Each server action: the helper it calls, and the operation it performs.
ServerActions ==
  {Act(RequireCustomer, "order:create:own"),          \* order/actions.ts
   Act(RequireCustomer, "reward:redeem:own"),
   Act(RequireCustomer, "order:cancel:own"),          \* orders/actions.ts
   Act(RequireCustomer, "user:update:own"),           \* addresses, profile
   Act(RequireManager, "order:assign-driver"),        \* deliveries/actions.ts
   Act(RequireManager, "delivery:reconcile"),
   Act(RequireDriver, "delivery:record-exchange"),    \* driver/actions.ts
   Act(RequireDriver, "payment:record-cash"),
   Act(RequireDriver, "delivery:record-failure"),
   Act(RequireAgent, "order:create:for-customer"),    \* agent/orders
   Act(RequireAgent, "customer:create"),              \* agent/customers
   Act(RequireAdministrator, "settings:manage"),      \* admin/settings
   Act(RequireActor, "notification:read:own")}        \* notifications

\* What the layout and the pages under each prefix require.
PageGuard == [path \in {"/admin", "/manager", "/agent", "/driver",
                        "/customer", "/notifications"} |->
  CASE path = "/admin" -> RequireAdministrator
    [] path = "/manager" -> RequireManager
    [] path = "/agent" -> RequireAgent
    [] path = "/driver" -> RequireDriver
    [] path = "/customer" -> RequireCustomer
    [] path = "/notifications" -> RequireActor]

-----------------------------------------------------------------------------
(* What the proxy knows.                                                   *)

\* The portal a role lands on.
RoleHome(role) ==
  CASE role = "ADMINISTRATOR" -> "/admin"
    [] role = "MANAGER" -> "/manager"
    [] role = "AGENT" -> "/agent"
    [] role = "DRIVER" -> "/driver"
    [] role = "CUSTOMER" -> "/customer"

\* ROLE_ROUTE_PREFIX; a path without an entry is anybody's.
RouteRoles(path) ==
  CASE path = "/admin" -> {"ADMINISTRATOR"}
    [] path = "/manager" -> {"ADMINISTRATOR", "MANAGER"}
    [] path = "/agent" -> {"AGENT"}
    [] path = "/driver" -> {"DRIVER"}
    [] path = "/customer" -> {"CUSTOMER"}
    [] OTHER -> Roles

CanAccess(role, path) == role \in RouteRoles(path)

=============================================================================
