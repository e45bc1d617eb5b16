------------------------------- MODULE Account -------------------------------
(***************************************************************************)
(* A customer's addresses and profile (src/services/customer/account.ts).  *)
(*                                                                         *)
(* upsertCustomerAddress runs in one transaction, at READ COMMITTED, and   *)
(* writes its audit row after the commit; deactivateCustomerAddress runs   *)
(* in none: each of its statements commits by itself.  A statement that    *)
(* meets a row another open transaction has updated waits for it, and      *)
(* then looks at the committed row again; a row that was not among those   *)
(* it first found is not looked at.  What an open transaction has cleared  *)
(* is kept in its request until the commit.                                *)
(***************************************************************************)
EXTENDS Integers, FiniteSets

CONSTANTS
  Requests,      \* concurrent requests of the customer (two tabs, two devices)
  Ids,           \* address ids
  Phones,
  OpeningPhone,  \* the customer's
  MaxChanges     \* bound: committed changes

ASSUME AccountAssumption ==
  /\ IsFiniteSet(Ids)
  /\ OpeningPhone \in Phones
  /\ MaxChanges \in Nat

VARIABLES
  address,  \* the customer's address rows
  phone,    \* users.phone of the customer
  taken,    \* users.phone of everybody else
  changes,  \* how many changes of the customer's have been committed
  audits,   \* how many changes the audit log reports
  request   \* what each request has read and not yet committed

accountVars == <<address, phone, taken, changes, audits, request>>

New == "new"   \* the id of the form that adds an address

NoAddress == [exists |-> FALSE, active |-> FALSE, default |-> FALSE]

Address ==
  {a \in [exists : BOOLEAN, active : BOOLEAN, default : BOOLEAN] :
     a.active \/ a.default => a.exists}

Idle == [op |-> "idle"]

\* alone: no other request has been open since this one began.
Saving == [op : {"clear", "write"}, id : Ids \cup {New}, default : BOOLEAN,
           found : SUBSET Ids, cleared : SUBSET Ids, alone : BOOLEAN]
Creating == [op : {"create"}, default : BOOLEAN, cleared : SUBSET Ids,
             alone : BOOLEAN]
Removing == [op : {"count", "remove"}, id : Ids, default : BOOLEAN,
             alone : BOOLEAN]
Profile == [op : {"profile"}, phone : Phones, alone : BOOLEAN]
Auditing == [op : {"audit"}, alone : BOOLEAN]

AccountTypeOK ==
  /\ address \in [Ids -> Address]
  /\ phone \in Phones /\ taken \subseteq Phones
  /\ changes \in Nat /\ audits \in Nat
  /\ request \in [Requests -> {Idle} \cup Saving \cup Creating \cup Removing
                                \cup Profile \cup Auditing]

AccountInit ==
  /\ address = [i \in Ids |-> NoAddress]
  /\ phone = OpeningPhone /\ taken = {}
  /\ changes = 0 /\ audits = 0
  /\ request = [r \in Requests |-> Idle]

-----------------------------------------------------------------------------
Active == {i \in Ids : address[i].active}
Chosen == {i \in Ids : address[i].default}

\* Rows that an open transaction other than r's has updated.
Locked(r) ==
  UNION {request[q].cleared : q \in {q \in Requests \ {r} :
                                       request[q].op \in {"clear", "write", "create"}}}

\* A request opens: it is alone if it is the only one, and no other is now.
OpenRequest(r, t) ==
  LET others == {q \in Requests \ {r} : request[q] # Idle}
  IN  /\ request[r] = Idle
      /\ request' = [q \in Requests |->
                       IF q = r THEN [t EXCEPT !.alone = others = {}]
                       ELSE IF q \in others THEN [request[q] EXCEPT !.alone = FALSE]
                       ELSE request[q]]
      /\ UNCHANGED <<address, phone, taken, changes, audits>>

Advance(r, t) == request' = [request EXCEPT ![r] = t]

\* The rows are committed; the audit row is another statement.
CommitRows(r, rows) ==
  /\ changes < MaxChanges
  /\ address' = rows
  /\ changes' = changes + 1
  /\ Advance(r, [op |-> "audit", alone |-> request[r].alone])
  /\ UNCHANGED <<phone, taken, audits>>

\* Without the default flag on the rows of a set.
WithoutDefault(rows, ids) ==
  [i \in Ids |-> IF i \in ids THEN [rows[i] EXCEPT !.default = FALSE] ELSE rows[i]]

-----------------------------------------------------------------------------
(* upsertCustomerAddress.  The checkbox is always part of the form: not    *)
(* checked means FALSE, also for the default address.                      *)

\* Mutant of DefaultRows: only addresses that are still active are cleared.
DefaultRowsActive == Chosen \cap Active

\* The rows the clearing updateMany finds.
DefaultRows == Chosen

\* The customer has such an address, active or not.
Exists(id) == address[id].exists

BeginSave(r, id, default) ==
  /\ id # New => Exists(id)
  /\ LET found == IF default THEN DefaultRows ELSE {}
     IN  OpenRequest(r, [op |-> IF found = {} THEN "write" ELSE "clear", id |-> id,
                  default |-> default, found |-> found, cleared |-> {},
                  alone |-> TRUE])

\* The updateMany takes its rows one by one, and skips those that are no
\* longer default when it gets them.
Clear(r) ==
  /\ request[r].op = "clear"
  /\ \E i \in request[r].found \ Locked(r) :
       LET left == request[r].found \ {i}
       IN  Advance(r, [request[r] EXCEPT
                         !.op = IF left = {} THEN "write" ELSE "clear",
                         !.found = left,
                         !.cleared = @ \cup ({i} \cap Chosen)])
  /\ UNCHANGED <<address, phone, taken, changes, audits>>

\* Mutant of Edited: the whole row is written back as it was read.
EditedWhole(row, default) == [exists |-> TRUE, active |-> TRUE, default |-> default]

\* isActive is not among the columns of the update.
Edited(row, default) == [row EXCEPT !.default = default]

SaveEdit(r) ==
  LET t == request[r]
  IN  /\ t.op = "write" /\ t.id # New
      /\ t.id \notin Locked(r)
      /\ CommitRows(r, [WithoutDefault(address, t.cleared) EXCEPT
                          ![t.id] = Edited(@, t.default)])

\* The first address becomes the default unasked.
CountActive(r) ==
  LET t == request[r]
  IN  /\ t.op = "write" /\ t.id = New
      /\ Advance(r, [op |-> "create", default |-> t.default \/ Active = {},
                     cleared |-> t.cleared, alone |-> t.alone])
      /\ UNCHANGED <<address, phone, taken, changes, audits>>

SaveNew(r) ==
  /\ request[r].op = "create"
  /\ \E i \in Ids :
       /\ ~address[i].exists
       /\ CommitRows(r, [WithoutDefault(address, request[r].cleared) EXCEPT
                           ![i] = [exists |-> TRUE, active |-> TRUE,
                                   default |-> request[r].default]])

-----------------------------------------------------------------------------
(* deactivateCustomerAddress                                               *)

BeginRemove(r, id) ==
  /\ Exists(id)
  /\ OpenRequest(r, [op |-> "count", id |-> id, default |-> address[id].default,
              alone |-> TRUE])

\* Mutant of MayRemove: removed addresses are counted too.
MayRemoveCountingAll(id, default) ==
  default => {i \in Ids \ {id} : address[i].exists} # {}

\* The default address can only be removed as the last one.
MayRemove(id, default) == default => Active \ {id} = {}

CountRemaining(r) ==
  LET t == request[r]
  IN  /\ t.op = "count"
      /\ Advance(r, IF MayRemove(t.id, t.default) THEN [t EXCEPT !.op = "remove"]
                                                  ELSE Idle)
      /\ UNCHANGED <<address, phone, taken, changes, audits>>

Remove(r) ==
  LET t == request[r]
  IN  /\ t.op = "remove"
      /\ t.id \notin Locked(r)
      /\ CommitRows(r, [address EXCEPT ![t.id].active = FALSE, ![t.id].default = FALSE])

\* recordAudit, outside the transaction.
Audit(r) ==
  /\ request[r].op = "audit"
  /\ audits' = audits + 1
  /\ Advance(r, Idle)
  /\ UNCHANGED <<address, phone, taken, changes>>

-----------------------------------------------------------------------------
(* updateCustomerProfile, which audits inside its transaction.             *)

BeginProfile(r, new) ==
  /\ new \notin taken
  /\ OpenRequest(r, [op |-> "profile", phone |-> new, alone |-> TRUE])

\* The unique index on users.phone.
PhoneFree(new) == new \notin taken

SaveProfile(r) ==
  /\ request[r].op = "profile"
  /\ PhoneFree(request[r].phone)
  /\ changes < MaxChanges
  /\ phone' = request[r].phone
  /\ changes' = changes + 1 /\ audits' = audits + 1
  /\ Advance(r, Idle)
  /\ UNCHANGED <<address, taken>>

\* Another user registers with a number, or changes to it.
OthersTake(new) ==
  /\ new \notin taken \cup {phone}
  /\ taken' = taken \cup {new}
  /\ UNCHANGED <<address, phone, changes, audits, request>>

\* An error, a timeout, a broken deadlock or a crash: what is not committed is
\* undone, what is not audited stays so.
Abort(r) ==
  /\ request[r] # Idle
  /\ Advance(r, Idle)
  /\ UNCHANGED <<address, phone, taken, changes, audits>>

AccountNext ==
  \/ \E r \in Requests :
       \/ \E id \in Ids \cup {New}, default \in BOOLEAN : BeginSave(r, id, default)
       \/ Clear(r) \/ SaveEdit(r) \/ CountActive(r) \/ SaveNew(r)
       \/ \E id \in Ids : BeginRemove(r, id)
       \/ CountRemaining(r) \/ Remove(r) \/ Audit(r)
       \/ \E new \in Phones : BeginProfile(r, new)
       \/ SaveProfile(r) \/ Abort(r)
  \/ \E new \in Phones : OthersTake(new)

AccountSpec == AccountInit /\ [][AccountNext]_accountVars

-----------------------------------------------------------------------------
\* Request r commits a change of the addresses in this step.
Commits(r) == request[r].op # "audit" /\ request'[r].op = "audit"

\* What the forms of an account that is used from one device at a time rely on:
\* whatever overlapping requests or stale pages did to the flags before, a
\* request that marks an address as the default and meets no other one leaves
\* that address the only default.
ChosenIsOnlyDefault ==
  [][\A r \in Requests :
       LET t == request[r]
       IN  Commits(r) /\ t.op = "write" /\ t.default /\ t.alone =>
             \A i \in Ids : address'[i].default <=> i = t.id]_accountVars

OneDefaultOrNone == Active = {} \/ Cardinality(Active \cap Chosen) = 1

\* Adding, choosing and removing addresses one request at a time, an account
\* with addresses keeps exactly one default.  (Unchecking the box of the
\* default, and editing a removed address from an old page, do not keep it.)
AloneKeepsOneDefault ==
  [][\A r \in Requests :
       LET t == request[r]
           careful == t.op = "write" => t.default /\ t.id \in Active
       IN  Commits(r) /\ t.alone /\ careful /\ OneDefaultOrNone =>
             OneDefaultOrNone']_accountVars

\* An edit that overlaps a removal never brings the address back.
RemovedStaysRemoved ==
  [][\A i \in Ids : address[i].exists /\ ~address[i].active =>
                      ~address'[i].active]_accountVars

=============================================================================
