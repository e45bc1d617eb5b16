---------------------------- MODULE Registration ----------------------------
(***************************************************************************)
(* Customer registration (src/services/customers/register.ts), as many     *)
(* requests at a time as there are submitted forms.  registerCustomer      *)
(* looks for a taken email or phone, resolves the referral code, hashes    *)
(* the password, and only then opens the transaction that numbers and      *)
(* creates the user, numbers and creates the profile, and adds balances    *)
(* and the referral.  The numbers are count() + 1.                         *)
(*                                                                         *)
(* Transactions run at READ COMMITTED: a count sees committed rows; an     *)
(* INSERT with a key another open transaction has inserted waits for that  *)
(* transaction to end, and fails if the key is a committed one.            *)
(***************************************************************************)
EXTENDS Integers, FiniteSets

CONSTANTS
  Requests,    \* submitted registration forms, one registration each
  Email,       \* the form's email address
  Phone,       \* the form's phone number
  Nobody,      \* no referrer
  OpeningStaff,
  MaxStaff     \* bound: users created without registering

ASSUME RegistrationAssumption ==
  /\ IsFiniteSet(Requests)
  /\ Nobody \notin Requests
  /\ OpeningStaff \in Nat
  /\ MaxStaff \in Nat

VARIABLES
  step,        \* how far each request has got
  sequence,    \* the number in its user code
  customerSequence,  \* the number in its customer code
  referrer,    \* whose referral code it gave
  staff        \* how many users have registered in no form

vars == <<step, sequence, customerSequence, referrer, staff>>

Step == {"submitted", "checked", "resolved", "counted", "user", "numbered",
         "profile", "registered", "failed"}

TypeOK ==
  /\ step \in [Requests -> Step]
  /\ sequence \in [Requests -> Nat]
  /\ customerSequence \in [Requests -> Nat]
  /\ referrer \in [Requests -> Requests \cup {Nobody}]
  /\ staff \in Nat

-----------------------------------------------------------------------------
\* Rows: committed ones, and those an open transaction has inserted.
Registered == {r \in Requests : step[r] = "registered"}

HasUser(r) == step[r] \in {"user", "numbered", "profile", "registered"}

\* Mutant of HasProfile: the customer number is claimed as soon as it is read.
HasProfileEarly(r) == step[r] \in {"numbered", "profile", "registered"}

HasProfile(r) == step[r] \in {"profile", "registered"}

\* Mutant of UserCount: a counter, which rolled-back users leave advanced.
UserCountDirty == staff + Cardinality({r \in Requests : HasUser(r)})

UserCount == staff + Cardinality(Registered)

CustomerCount == Cardinality(Registered)

\* Mutant of SameUser: no unique index on the phone number.
SameUserButPhone(r, q) == sequence[r] = sequence[q] \/ Email[r] = Email[q]

\* The unique indexes of users.  Staff have neither the form's address nor a
\* code with the customers' letter.
SameUser(r, q) ==
  sequence[r] = sequence[q] \/ Email[r] = Email[q] \/ Phone[r] = Phone[q]

\* The unique index on the customer code; referral codes are random.
SameProfile(r, q) == customerSequence[r] = customerSequence[q]

-----------------------------------------------------------------------------
Init ==
  /\ step = [r \in Requests |-> "submitted"]
  /\ sequence = [r \in Requests |-> 0]
  /\ customerSequence = [r \in Requests |-> 0]
  /\ referrer = [r \in Requests |-> Nobody]
  /\ staff = OpeningStaff

\* Email and phone are looked up before the transaction, and are free.
Check(r) ==
  /\ step[r] = "submitted"
  /\ \A q \in Registered : Email[q] # Email[r] /\ Phone[q] # Phone[r]
  /\ step' = [step EXCEPT ![r] = "checked"]
  /\ UNCHANGED <<sequence, customerSequence, referrer, staff>>

\* Mutant of ReferralCodes: codes of profiles that are not committed yet.
ReferralCodesDirty == {q \in Requests : HasProfile(q)} \cup {Nobody}

\* Mutant of ReferralCodes: codes are looked up among all users.
ReferralCodesOfUsers == Registered \cup {Nobody, "staff"}

\* A form gives a customer's referral code or none.
ReferralCodes == Registered \cup {Nobody}

\* The referral code is resolved, still before the transaction.
Resolve(r) ==
  /\ step[r] = "checked"
  /\ \E q \in ReferralCodes : referrer' = [referrer EXCEPT ![r] = q]
  /\ step' = [step EXCEPT ![r] = "resolved"]
  /\ UNCHANGED <<sequence, customerSequence, staff>>

\* tx.user.count()
CountUsers(r) ==
  /\ step[r] = "resolved"
  /\ sequence' = [sequence EXCEPT ![r] = UserCount + 1]
  /\ step' = [step EXCEPT ![r] = "counted"]
  /\ UNCHANGED <<customerSequence, referrer, staff>>

\* tx.user.create()
InsertUser(r) ==
  /\ step[r] = "counted"
  /\ \A q \in Requests \ {r} : HasUser(q) => ~SameUser(r, q)
  /\ step' = [step EXCEPT ![r] = "user"]
  /\ UNCHANGED <<sequence, customerSequence, referrer, staff>>

\* tx.customerProfile.count()
CountProfiles(r) ==
  /\ step[r] = "user"
  /\ customerSequence' = [customerSequence EXCEPT ![r] = CustomerCount + 1]
  /\ step' = [step EXCEPT ![r] = "numbered"]
  /\ UNCHANGED <<sequence, referrer, staff>>

\* tx.customerProfile.create()
InsertProfile(r) ==
  /\ step[r] = "numbered"
  /\ \A q \in Requests \ {r} : HasProfile(q) => ~SameProfile(r, q)
  /\ step' = [step EXCEPT ![r] = "profile"]
  /\ UNCHANGED <<sequence, customerSequence, referrer, staff>>

\* The balances, the referral (PENDING, of a referrer who is not the customer)
\* and the commit.
Register(r) ==
  /\ step[r] = "profile"
  /\ referrer[r] # r
  /\ step' = [step EXCEPT ![r] = "registered"]
  /\ UNCHANGED <<sequence, customerSequence, referrer, staff>>

Fail(r) ==
  /\ step' = [step EXCEPT ![r] = "failed"]
  /\ UNCHANGED <<sequence, customerSequence, referrer, staff>>

\* An early return, or an INSERT that meets a committed row with its key.
Refuse(r) ==
  /\ \E q \in Registered :
       \/ /\ step[r] = "submitted"
          /\ Email[q] = Email[r] \/ Phone[q] = Phone[r]
       \/ step[r] = "counted" /\ SameUser(r, q)
       \/ step[r] = "numbered" /\ SameProfile(r, q)
  /\ Fail(r)

\* An unknown referral code, a lost connection, a timeout, a crash.
Abort(r) ==
  /\ step[r] \notin {"registered", "failed"}
  /\ Fail(r)

\* A user created without registering: prisma/create-admin.ts, which counts
\* nothing and numbers nothing in the customers' codes.
AddStaff ==
  /\ staff < MaxStaff
  /\ staff' = staff + 1
  /\ UNCHANGED <<step, sequence, customerSequence, referrer>>

\* What a request does next on its own.
Proceed(r) ==
  \/ Check(r) \/ Resolve(r) \/ CountUsers(r) \/ InsertUser(r)
  \/ CountProfiles(r) \/ InsertProfile(r) \/ Register(r) \/ Refuse(r)

Next == AddStaff \/ \E r \in Requests : Proceed(r) \/ Abort(r)

Spec == Init /\ [][Next]_vars

\* Every await of the handler is answered: a statement that need not wait runs.
FairSpec == Spec /\ \A r \in Requests : WF_vars(Proceed(r))

-----------------------------------------------------------------------------
\* Customer codes are numbered without a gap, in spite of failed registrations.
CodesWithoutGaps ==
  {customerSequence[r] : r \in Registered} = 1 .. CustomerCount

\* count() + 1 is never a code that is taken, whatever registrations overlapped
\* or failed before: no user code is above the number of users, and n customers
\* have the codes 1 to n.
NextCodeFree ==
  /\ \A r \in Registered : sequence[r] <= UserCount
  /\ CodesWithoutGaps

\* A customer has one account however often the form was sent, and nobody
\* shares a code: the checks before the transaction are stale when it commits,
\* the indexes decide.
OneAccountEach ==
  \A r, q \in Registered :
    r # q => /\ Email[r] # Email[q] /\ Phone[r] # Phone[q]
             /\ sequence[r] # sequence[q]
             /\ customerSequence[r] # customerSequence[q]

\* A referrer registered, with a smaller code, before those they referred: no
\* chain of referrals closes on itself, and nobody refers themselves.
ReferrersCameFirst ==
  \A r \in Registered :
    referrer[r] # Nobody =>
      /\ referrer[r] \in Registered
      /\ customerSequence[referrer[r]] < customerSequence[r]

\* Requests that wait for one another's keys never wait in a circle: each one
\* ends without the database having to break a deadlock.
EveryRequestEnds ==
  \A r \in Requests : <>(step[r] \in {"registered", "failed"})

-----------------------------------------------------------------------------
(* The abstract registry, read off the committed rows.                     *)

\* The registered request with customer code n.
HolderOf(n) == CHOOSE r \in Registered : customerSequence[r] = n

Roster ==
  [n \in 1 .. CustomerCount |->
    [form |-> HolderOf(n), referrer |-> referrer[HolderOf(n)]]]

Serial == INSTANCE Registry WITH roster <- Roster

\* Registrations that overlap, with the reads they make before and between
\* their inserts, have the effect of registering one after another in the order
\* of the customer codes.
ImplementsRegistry == Serial!RegistrySpec

=============================================================================
