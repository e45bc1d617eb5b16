------------------------- MODULE RegistrationProofs -------------------------
(***************************************************************************)
(* Registration for any set of forms: types, codes, accounts, referrals.   *)
(*                                                                         *)
(* What carries the argument is that rows are never removed: a number read *)
(* as count() + 1 is at most the count plus one for ever after, and at     *)
(* most the count once its own row is committed.                           *)
(***************************************************************************)
EXTENDS Registration, FiniteSetTheorems, SequenceTheorems, TLAPS

Counted(r) == step[r] \in {"counted", "user", "numbered", "profile"}
Numbered(r) == step[r] \in {"numbered", "profile"}

\* A number in use by an open request is behind the count plus one.
NumbersBehind ==
  \A r \in Requests :
    /\ Counted(r) => sequence[r] <= UserCount + 1
    /\ Numbered(r) => customerSequence[r] \in 1 .. CustomerCount + 1
    /\ r \in Registered => /\ sequence[r] <= UserCount
                           /\ customerSequence[r] \in 1 .. CustomerCount

\* No two rows, committed or not, share a key.
KeysApart ==
  \A r, q \in Requests :
    r # q => /\ HasUser(r) /\ HasUser(q) => ~SameUser(r, q)
             /\ HasProfile(r) /\ HasProfile(q) => ~SameProfile(r, q)

\* Whoever a request names has registered, and has a smaller number.
ReferrersKnown ==
  \A r \in Requests :
    referrer[r] # Nobody =>
      /\ referrer[r] \in Registered
      /\ Numbered(r) \/ step[r] = "registered" =>
           customerSequence[referrer[r]] < customerSequence[r]

RegistrationInv == TypeOK /\ NumbersBehind /\ KeysApart /\ ReferrersKnown

-----------------------------------------------------------------------------
\* The registered customers are finitely many, so the counts are numbers.
LEMMA CountsAreNumbers ==
  ASSUME TypeOK
  PROVE  /\ IsFiniteSet(Registered)
         /\ CustomerCount \in Nat /\ UserCount \in Nat
  <1>1. Registered \in SUBSET Requests
    BY DEF Registered
  <1>2. IsFiniteSet(Registered)
    BY <1>1, FS_Subset, RegistrationAssumption
  <1>3. Cardinality(Registered) \in Nat
    BY <1>2, FS_CardinalityType
  <1> QED
    BY <1>2, <1>3 DEF TypeOK, CustomerCount, UserCount

\* Steps of other requests leave a request alone.
LEMMA OthersKept ==
  ASSUME TypeOK, NEW r \in Requests, Proceed(r) \/ Abort(r),
         NEW q \in Requests, q # r
  PROVE  /\ step'[q] = step[q] /\ sequence'[q] = sequence[q]
         /\ customerSequence'[q] = customerSequence[q]
         /\ referrer'[q] = referrer[q]
  BY DEF TypeOK, Proceed, Abort, Check, Resolve, CountUsers, InsertUser,
         CountProfiles, InsertProfile, Register, Refuse, Fail

\* Each step keeps the variables' types.
LEMMA StepKeepsTypes ==
  ASSUME TypeOK, [Next]_vars
  PROVE  TypeOK'
  <1>0. CustomerCount + 1 \in Nat /\ UserCount + 1 \in Nat
    BY CountsAreNumbers
  <1>1. CASE AddStaff
    BY <1>1 DEF AddStaff, TypeOK
  <1>2. ASSUME NEW r \in Requests, Resolve(r)
        PROVE  TypeOK'
    <2>1. PICK q \in ReferralCodes :
            referrer' = [referrer EXCEPT ![r] = q]
      BY <1>2 DEF Resolve
    <2>2. q \in Requests \cup {Nobody}
      BY DEF ReferralCodes, Registered
    <2> QED
      BY <1>2, <2>1, <2>2 DEF Resolve, TypeOK, Step
  <1>3. ASSUME NEW r \in Requests, CountUsers(r)
        PROVE  TypeOK'
    BY <1>0, <1>3 DEF CountUsers, TypeOK, Step
  <1>4. ASSUME NEW r \in Requests, CountProfiles(r)
        PROVE  TypeOK'
    BY <1>0, <1>4 DEF CountProfiles, TypeOK, Step
  <1>5. ASSUME NEW r \in Requests,
               \/ Check(r) \/ InsertUser(r) \/ InsertProfile(r) \/ Register(r)
               \/ Refuse(r) \/ Abort(r)
        PROVE  TypeOK'
    BY <1>5 DEF Check, InsertUser, InsertProfile, Register, Refuse, Abort, Fail,
                TypeOK, Step
  <1>6. CASE UNCHANGED vars
    BY <1>6 DEF vars, TypeOK
  <1> QED
    BY <1>1, <1>2, <1>3, <1>4, <1>5, <1>6 DEF Next, Proceed

\* Only Register adds a customer.
LEMMA SameCustomers ==
  ASSUME TypeOK, NEW r \in Requests, Proceed(r) \/ Abort(r), ~Register(r)
  PROVE  Registered' = Registered /\ CustomerCount' = CustomerCount
         /\ UserCount' = UserCount
  <1>1. Registered' = Registered
    BY DEF Registered, TypeOK, Proceed, Abort, Check, Resolve, CountUsers,
           InsertUser, CountProfiles, InsertProfile, Refuse, Fail
  <1>2. staff' = staff
    BY DEF Proceed, Abort, Check, Resolve, CountUsers, InsertUser,
           CountProfiles, InsertProfile, Refuse, Fail
  <1> QED
    BY <1>1, <1>2 DEF CustomerCount, UserCount

\* Register adds the one it registers.
LEMMA OneCustomerMore ==
  ASSUME TypeOK, NEW r \in Requests, Register(r)
  PROVE  /\ Registered' = Registered \cup {r}
         /\ CustomerCount' = CustomerCount + 1
         /\ UserCount' = UserCount + 1
  <1>1. Registered' = Registered \cup {r} /\ r \notin Registered
    BY DEF Registered, TypeOK, Register
  <1>2. Cardinality(Registered') = Cardinality(Registered) + 1
    BY <1>1, CountsAreNumbers, FS_AddElement
  <1>3. Cardinality(Registered) \in Nat /\ staff \in Nat /\ staff' = staff
    BY CountsAreNumbers DEF CustomerCount, TypeOK, Register
  <1> QED
    BY <1>1, <1>2, <1>3 DEF CustomerCount, UserCount

\* Either way the counts do not shrink, and nobody stops being registered.
LEMMA CountsGrow ==
  ASSUME TypeOK, NEW r \in Requests, Proceed(r) \/ Abort(r)
  PROVE  /\ Registered \subseteq Registered'
         /\ CustomerCount <= CustomerCount' /\ UserCount <= UserCount'
         /\ CustomerCount' \in Nat /\ UserCount' \in Nat
  BY CountsAreNumbers, SameCustomers, OneCustomerMore

-----------------------------------------------------------------------------
\* What growing counts mean for numbers that were behind them.
LEMMA StaysBehind ==
  ASSUME NEW m \in Nat, NEW n \in Nat, m <= n
  PROVE  /\ m + 1 <= n + 1 /\ m + 1 \in 1 .. n + 1
         /\ \A k \in Nat : /\ k <= m + 1 => k <= n + 1
                           /\ k \in 1 .. m + 1 => k \in 1 .. n + 1
                           /\ k <= m => k <= n
                           /\ k \in 1 .. m => k \in 1 .. n
  OBVIOUS

\* A request's own step keeps its numbers behind the counts.
LEMMA OwnNumbersBehind ==
  ASSUME RegistrationInv, NEW r \in Requests, Proceed(r) \/ Abort(r)
  PROVE  /\ Counted(r)' => sequence'[r] <= UserCount' + 1
         /\ Numbered(r)' => customerSequence'[r] \in 1 .. CustomerCount' + 1
         /\ r \in Registered' => /\ sequence'[r] <= UserCount'
                                 /\ customerSequence'[r] \in 1 .. CustomerCount'
  <1>a. /\ TypeOK
        /\ CustomerCount \in Nat /\ UserCount \in Nat
        /\ CustomerCount <= CustomerCount' /\ UserCount <= UserCount'
        /\ CustomerCount' \in Nat /\ UserCount' \in Nat
    BY CountsAreNumbers, CountsGrow DEF RegistrationInv
  <1>b. sequence[r] \in Nat /\ customerSequence[r] \in Nat
    BY <1>a DEF TypeOK
  <1>c. /\ Counted(r) => sequence[r] <= UserCount + 1
        /\ Numbered(r) => customerSequence[r] \in 1 .. CustomerCount + 1
    BY DEF RegistrationInv, NumbersBehind
  <1>d. /\ UserCount + 1 <= UserCount' + 1
        /\ CustomerCount + 1 \in 1 .. CustomerCount' + 1
        /\ sequence[r] <= UserCount + 1 => sequence[r] <= UserCount' + 1
        /\ customerSequence[r] \in 1 .. CustomerCount + 1 =>
             customerSequence[r] \in 1 .. CustomerCount' + 1
    BY <1>a, <1>b, StaysBehind
  <1>1. CASE Check(r) \/ Resolve(r) \/ Refuse(r) \/ Abort(r)
    <2>1. step'[r] \in {"checked", "resolved", "failed"}
      BY <1>1, <1>a DEF TypeOK, Check, Resolve, Refuse, Abort, Fail
    <2> QED
      BY <2>1 DEF Counted, Numbered, Registered
  <1>2. CASE CountUsers(r)
    <2>1. step'[r] = "counted" /\ sequence'[r] = UserCount + 1
      BY <1>2, <1>a DEF TypeOK, CountUsers
    <2>2. ~Numbered(r)' /\ r \notin Registered'
      BY <2>1 DEF Numbered, Registered
    <2> QED
      BY <2>1, <2>2, <1>d
  <1>3. CASE InsertUser(r)
    <2>1. /\ step[r] = "counted" /\ step'[r] = "user"
          /\ sequence'[r] = sequence[r]
      BY <1>3, <1>a DEF TypeOK, InsertUser
    <2>2. Counted(r) /\ ~Numbered(r)' /\ r \notin Registered'
      BY <2>1 DEF Counted, Numbered, Registered
    <2> QED
      BY <2>1, <2>2, <1>c, <1>d
  <1>4. CASE CountProfiles(r)
    <2>1. /\ step[r] = "user" /\ step'[r] = "numbered"
          /\ sequence'[r] = sequence[r]
          /\ customerSequence'[r] = CustomerCount + 1
      BY <1>4, <1>a DEF TypeOK, CountProfiles
    <2>2. Counted(r) /\ r \notin Registered'
      BY <2>1 DEF Counted, Registered
    <2> QED
      BY <2>1, <2>2, <1>c, <1>d
  <1>5. CASE InsertProfile(r)
    <2>1. /\ step[r] = "numbered" /\ step'[r] = "profile"
          /\ sequence'[r] = sequence[r]
          /\ customerSequence'[r] = customerSequence[r]
      BY <1>5, <1>a DEF TypeOK, InsertProfile
    <2>2. Counted(r) /\ Numbered(r) /\ r \notin Registered'
      BY <2>1 DEF Counted, Numbered, Registered
    <2> QED
      BY <2>1, <2>2, <1>c, <1>d
  <1>6. CASE Register(r)
    <2>1. /\ step[r] = "profile" /\ step'[r] = "registered"
          /\ sequence'[r] = sequence[r]
          /\ customerSequence'[r] = customerSequence[r]
      BY <1>6, <1>a DEF TypeOK, Register
    <2>2. UserCount' = UserCount + 1 /\ CustomerCount' = CustomerCount + 1
      BY <1>6, <1>a, OneCustomerMore
    <2>3. /\ sequence[r] <= UserCount + 1
          /\ customerSequence[r] \in 1 .. CustomerCount + 1
      BY <2>1, <1>c DEF Counted, Numbered
    <2>4. ~Counted(r)' /\ ~Numbered(r)'
      BY <2>1 DEF Counted, Numbered
    <2> QED
      BY <2>1, <2>2, <2>3, <2>4
  <1> QED
    BY <1>1, <1>2, <1>3, <1>4, <1>5, <1>6 DEF Proceed

\* All numbers stay behind the counts.
LEMMA NumbersStayBehind ==
  ASSUME RegistrationInv, [Next]_vars
  PROVE  NumbersBehind'
  <1>a. TypeOK /\ NumbersBehind /\ CustomerCount \in Nat /\ UserCount \in Nat
    BY CountsAreNumbers DEF RegistrationInv
  <1>1. ASSUME NEW r \in Requests, Proceed(r) \/ Abort(r)
        PROVE  NumbersBehind'
    <2> SUFFICES ASSUME NEW q \in Requests
        PROVE  /\ Counted(q)' => sequence'[q] <= UserCount' + 1
               /\ Numbered(q)' => customerSequence'[q] \in 1 .. CustomerCount' + 1
               /\ q \in Registered' =>
                    /\ sequence'[q] <= UserCount'
                    /\ customerSequence'[q] \in 1 .. CustomerCount'
      BY DEF NumbersBehind
    <2>1. CASE q = r
      BY <1>1, <2>1, OwnNumbersBehind
    <2>2. CASE q # r
      <3>1. /\ step'[q] = step[q] /\ sequence'[q] = sequence[q]
            /\ customerSequence'[q] = customerSequence[q]
        BY <1>1, <1>a, <2>2, OthersKept
      <3>2. /\ CustomerCount <= CustomerCount' /\ UserCount <= UserCount'
            /\ CustomerCount' \in Nat /\ UserCount' \in Nat
        BY <1>1, <1>a, CountsGrow
      <3>3. /\ Counted(q)' = Counted(q) /\ Numbered(q)' = Numbered(q)
            /\ q \in Registered' <=> q \in Registered
        BY <3>1 DEF Counted, Numbered, Registered
      <3>4. sequence[q] \in Nat /\ customerSequence[q] \in Nat
        BY <1>a DEF TypeOK
      <3>5. /\ sequence[q] <= UserCount + 1 => sequence[q] <= UserCount' + 1
            /\ sequence[q] <= UserCount => sequence[q] <= UserCount'
        BY <1>a, <3>2, <3>4, StaysBehind
      <3>6. /\ customerSequence[q] \in 1 .. CustomerCount + 1 =>
                 customerSequence[q] \in 1 .. CustomerCount' + 1
            /\ customerSequence[q] \in 1 .. CustomerCount =>
                 customerSequence[q] \in 1 .. CustomerCount'
        BY <1>a, <3>2, <3>4, StaysBehind
      <3>7. /\ Counted(q) => sequence[q] <= UserCount + 1
            /\ Numbered(q) => customerSequence[q] \in 1 .. CustomerCount + 1
            /\ q \in Registered => /\ sequence[q] <= UserCount
                                   /\ customerSequence[q] \in 1 .. CustomerCount
        BY <1>a DEF NumbersBehind
      <3> QED
        BY <3>1, <3>3, <3>5, <3>6, <3>7
    <2> QED
      BY <2>1, <2>2
  <1>2. CASE AddStaff
    <2>1. /\ Registered' = Registered /\ CustomerCount' = CustomerCount
          /\ staff \in Nat /\ staff' = staff + 1
      BY <1>2, <1>a DEF AddStaff, Registered, CustomerCount, TypeOK
    <2>2. UserCount' = UserCount + 1
      BY <2>1, <1>a DEF UserCount, CustomerCount
    <2>3. /\ step' = step /\ sequence' = sequence
          /\ customerSequence' = customerSequence
      BY <1>2 DEF AddStaff
    <2>4. \A q \in Requests :
            /\ sequence[q] <= UserCount + 1 => sequence[q] <= UserCount' + 1
            /\ sequence[q] <= UserCount => sequence[q] <= UserCount'
      <3>1. UserCount <= UserCount' /\ UserCount' \in Nat
        BY <1>a, <2>2
      <3>2. \A q \in Requests : sequence[q] \in Nat
        BY <1>a DEF TypeOK
      <3> QED
        BY <1>a, <3>1, <3>2, StaysBehind
    <2> QED
      BY <1>a, <2>1, <2>3, <2>4 DEF NumbersBehind, Counted, Numbered
  <1>3. CASE UNCHANGED vars
    BY <1>3, <1>a DEF vars, NumbersBehind, Counted, Numbered, Registered,
                      UserCount, CustomerCount
  <1> QED
    BY <1>1, <1>2, <1>3 DEF Next

-----------------------------------------------------------------------------
\* The indexes keep the keys of all rows apart.
LEMMA KeysStayApart ==
  ASSUME RegistrationInv, [Next]_vars
  PROVE  KeysApart'
  <1>a. TypeOK /\ KeysApart
    BY DEF RegistrationInv
  <1>1. ASSUME NEW r \in Requests, Proceed(r) \/ Abort(r)
        PROVE  KeysApart'
    \* Two others keep their rows, so it is r against any other that counts.
    <2>1. ASSUME NEW q \in Requests, q # r
          PROVE  /\ HasUser(q)' = HasUser(q) /\ HasProfile(q)' = HasProfile(q)
                 /\ sequence'[q] = sequence[q]
                 /\ customerSequence'[q] = customerSequence[q]
      BY <1>1, <1>a, <2>1, OthersKept DEF HasUser, HasProfile
    <2>2. ASSUME NEW q \in Requests, q # r, HasUser(r)', HasUser(q)
          PROVE  sequence'[r] = sequence[r] /\ ~SameUser(r, q)
      <3>1. CASE InsertUser(r)
        BY <3>1, <2>2, <1>a DEF InsertUser
      <3>2. CASE ~InsertUser(r)
        <4>1. HasUser(r) /\ sequence'[r] = sequence[r]
          BY <1>1, <3>2, <2>2, <1>a
             DEF TypeOK, HasUser, Proceed, Abort, Check, Resolve, CountUsers,
                 CountProfiles, InsertProfile, Register, Refuse, Fail
        <4> QED
          BY <4>1, <2>2, <1>a DEF KeysApart
      <3> QED
        BY <3>1, <3>2
    <2>3. ASSUME NEW q \in Requests, q # r, HasProfile(r)', HasProfile(q)
          PROVE  customerSequence'[r] = customerSequence[r] /\ ~SameProfile(r, q)
      <3>1. CASE InsertProfile(r)
        BY <3>1, <2>3, <1>a DEF InsertProfile
      <3>2. CASE ~InsertProfile(r)
        <4>1. HasProfile(r) /\ customerSequence'[r] = customerSequence[r]
          BY <1>1, <3>2, <2>3, <1>a
             DEF TypeOK, HasProfile, Proceed, Abort, Check, Resolve, CountUsers,
                 InsertUser, CountProfiles, Register, Refuse, Fail
        <4> QED
          BY <4>1, <2>3, <1>a DEF KeysApart
      <3> QED
        BY <3>1, <3>2
    <2>4. ASSUME NEW p \in Requests, NEW q \in Requests, p # q
          PROVE  /\ HasUser(p)' /\ HasUser(q)' => ~SameUser(p, q)'
                 /\ HasProfile(p)' /\ HasProfile(q)' => ~SameProfile(p, q)'
      <3>1. CASE p = r
        BY <3>1, <2>1, <2>2, <2>3, <2>4 DEF SameUser, SameProfile
      <3>2. CASE q = r
        BY <3>2, <2>1, <2>2, <2>3, <2>4 DEF SameUser, SameProfile
      <3>3. CASE p # r /\ q # r
        BY <3>3, <2>1, <2>4, <1>a DEF SameUser, SameProfile, KeysApart
      <3> QED
        BY <3>1, <3>2, <3>3
    <2> QED
      BY <2>4 DEF KeysApart
  <1>2. CASE AddStaff \/ UNCHANGED vars
    BY <1>2, <1>a DEF AddStaff, vars, KeysApart, HasUser, HasProfile, SameUser,
                      SameProfile
  <1> QED
    BY <1>1, <1>2 DEF Next

\* Whom a request refers to was there when it was numbered.
LEMMA ReferrersStayKnown ==
  ASSUME RegistrationInv, [Next]_vars
  PROVE  ReferrersKnown'
  <1>a. TypeOK /\ NumbersBehind /\ ReferrersKnown /\ CustomerCount \in Nat
    BY CountsAreNumbers DEF RegistrationInv
  <1>1. ASSUME NEW r \in Requests, Proceed(r) \/ Abort(r)
        PROVE  ReferrersKnown'
    <2>1. \A q \in Registered :
             q \in Registered' /\ customerSequence'[q] = customerSequence[q]
      <3>1. Registered \subseteq Registered'
        BY <1>1, <1>a, CountsGrow
      <3>2. \A q \in Registered : q # r =>
               customerSequence'[q] = customerSequence[q]
        BY <1>1, <1>a, OthersKept DEF Registered
      <3>3. r \notin Registered
        BY <1>1 DEF Registered, Proceed, Abort, Check, Resolve, CountUsers,
                    InsertUser, CountProfiles, InsertProfile, Register, Refuse
      <3> QED
        BY <3>1, <3>2, <3>3
    <2>2. ASSUME referrer'[r] # Nobody
          PROVE  /\ referrer'[r] \in Registered
                 /\ Numbered(r)' \/ step'[r] = "registered" =>
                      customerSequence[referrer'[r]] < customerSequence'[r]
      <3>1. CASE Resolve(r)
        <4>1. step'[r] = "resolved" /\ referrer'[r] \in Registered \cup {Nobody}
          BY <3>1, <1>a DEF TypeOK, Resolve, ReferralCodes
        <4> QED
          BY <4>1, <2>2 DEF Numbered
      <3>2. CASE ~Resolve(r)
        <4>1. referrer'[r] = referrer[r]
          BY <1>1, <3>2
             DEF Proceed, Abort, Check, CountUsers, InsertUser, CountProfiles,
                 InsertProfile, Register, Refuse, Fail
        <4>2. referrer[r] \in Registered /\ referrer[r] \in Requests
          BY <4>1, <2>2, <1>a DEF ReferrersKnown, Registered
        <4>3. CASE CountProfiles(r)
          BY <4>1, <4>2, <4>3, <1>a
             DEF CountProfiles, TypeOK, NumbersBehind
        <4>4. CASE ~CountProfiles(r)
          <5>1. /\ customerSequence'[r] = customerSequence[r]
                /\ Numbered(r)' \/ step'[r] = "registered" => Numbered(r)
            BY <1>1, <1>a, <3>2, <4>4
               DEF TypeOK, Proceed, Abort, Check, CountUsers, InsertUser,
                   InsertProfile, Register, Refuse, Fail, Numbered
          <5> QED
            BY <5>1, <4>1, <4>2, <2>2, <1>a DEF ReferrersKnown
        <4> QED
          BY <4>3, <4>4
      <3> QED
        BY <3>1, <3>2
    <2>3. ASSUME NEW q \in Requests, q # r, referrer'[q] # Nobody
          PROVE  /\ referrer'[q] \in Registered
                 /\ Numbered(q)' \/ step'[q] = "registered" =>
                      customerSequence[referrer'[q]] < customerSequence'[q]
      <3>1. /\ step'[q] = step[q] /\ referrer'[q] = referrer[q]
            /\ customerSequence'[q] = customerSequence[q]
        BY <1>1, <1>a, <2>3, OthersKept
      <3> QED
        BY <3>1, <2>3, <1>a DEF ReferrersKnown, Numbered
    <2> QED
      BY <2>1, <2>2, <2>3 DEF ReferrersKnown
  <1>2. CASE AddStaff \/ UNCHANGED vars
    BY <1>2, <1>a DEF AddStaff, vars, ReferrersKnown, Registered, Numbered
  <1> QED
    BY <1>1, <1>2 DEF Next

-----------------------------------------------------------------------------
\* Every step keeps the invariant.
LEMMA StepKeepsInv ==
  ASSUME RegistrationInv, [Next]_vars
  PROVE  RegistrationInv'
  <1>1. TypeOK'
    BY StepKeepsTypes DEF RegistrationInv
  <1>2. NumbersBehind' /\ KeysApart' /\ ReferrersKnown'
    BY NumbersStayBehind, KeysStayApart, ReferrersStayKnown
  <1> QED
    BY <1>1, <1>2 DEF RegistrationInv

\* The invariant holds at first and always.
LEMMA RegistrationInduction == Spec => []RegistrationInv
  <1>1. Init => RegistrationInv
    BY RegistrationAssumption
       DEF Init, RegistrationInv, TypeOK, Step, NumbersBehind, KeysApart,
           ReferrersKnown, Counted, Numbered, Registered, HasUser, HasProfile
  <1>2. RegistrationInv /\ [Next]_vars => RegistrationInv'
    BY StepKeepsInv
  <1> QED
    BY <1>1, <1>2, PTL DEF Spec

\* Type correctness of registration.
THEOREM RegistrationTypes == Spec => []TypeOK
  <1>1. RegistrationInv => TypeOK
    BY DEF RegistrationInv
  <1> QED
    BY <1>1, RegistrationInduction, PTL

\* No two accounts share an address, a phone or a code.
THEOREM OneAccount == Spec => []OneAccountEach
  <1>1. RegistrationInv => OneAccountEach
    BY DEF RegistrationInv, KeysApart, OneAccountEach, Registered, HasUser,
           HasProfile, SameUser, SameProfile
  <1> QED
    BY <1>1, RegistrationInduction, PTL

\* Referrals lead from smaller customer codes to larger ones: no circles.
THEOREM NoReferralCircles == Spec => []ReferrersCameFirst
  <1>1. RegistrationInv => ReferrersCameFirst
    BY DEF RegistrationInv, ReferrersKnown, ReferrersCameFirst, Registered
  <1> QED
    BY <1>1, RegistrationInduction, PTL

\* Distinct numbers that do not exceed the count use up all of them.
LEMMA InvCodesDense ==
  ASSUME RegistrationInv
  PROVE  /\ \A r, q \in Registered :
               customerSequence[r] = customerSequence[q] => r = q
         /\ CodesWithoutGaps
  <1> DEFINE n == CustomerCount
             f == [r \in Registered |-> customerSequence[r]]
  <1>1. IsFiniteSet(Registered) /\ n \in Nat
    BY CountsAreNumbers DEF RegistrationInv
  <1>2. \A r \in Registered : customerSequence[r] \in 1 .. n
    BY DEF RegistrationInv, NumbersBehind, Registered
  <1>3. \A r, q \in Registered :
           customerSequence[r] = customerSequence[q] => r = q
    BY DEF RegistrationInv, KeysApart, Registered, HasProfile, SameProfile
  <1>4. f \in Injection(Registered, 1 .. n)
    BY <1>2, <1>3 DEF Injection, IsInjective
  <1>5. IsFiniteSet(1 .. n) /\ Cardinality(1 .. n) = n
    BY <1>1, FS_Interval
  <1>6. f \in Surjection(Registered, 1 .. n)
    <2>1. Cardinality(Registered) = Cardinality(1 .. n)
      BY <1>5 DEF CustomerCount
    <2> QED
      BY <2>1, <1>4, <1>5, FS_Injection
  <1>7. \A k \in 1 .. n : \E r \in Registered : customerSequence[r] = k
    BY <1>6 DEF Surjection
  <1> QED
    BY <1>2, <1>3, <1>7 DEF CodesWithoutGaps

\* count() + 1 is a free code, however many registrations overlap and fail.
THEOREM CodesNeverRunInto == Spec => []NextCodeFree
  <1>1. RegistrationInv => NextCodeFree
    BY InvCodesDense
       DEF NextCodeFree, RegistrationInv, NumbersBehind, Registered
  <1> QED
    BY <1>1, RegistrationInduction, PTL

\* n customers have the codes 1 to n.
THEOREM CodesDense == Spec => []CodesWithoutGaps
  <1>1. RegistrationInv => CodesWithoutGaps
    BY InvCodesDense
  <1> QED
    BY <1>1, RegistrationInduction, PTL

-----------------------------------------------------------------------------
(* The abstract registry.  ListOf is its roster for any numbering of any   *)
(* customers, so that what is shown of it once holds before and after a    *)
(* step.                                                                   *)

Holder(S, code, n) == CHOOSE r \in S : code[r] = n

ListOf(S, code, ref, m) ==
  [n \in 1 .. m |->
    [form |-> Holder(S, code, n), referrer |-> ref[Holder(S, code, n)]]]

\* S has the numbers 1 to m, one each.
NumberedTo(S, code, m) ==
  /\ \A r, q \in S : code[r] = code[q] => r = q
  /\ {code[r] : r \in S} = 1 .. m

Listable(S, code, ref, m) ==
  /\ S \in SUBSET Requests
  /\ ref \in [Requests -> Requests \cup {Nobody}]
  /\ m \in Nat
  /\ NumberedTo(S, code, m)

Entries == [form : Requests, referrer : Requests \cup {Nobody}]

\* The entry at a customer's number is the customer's.
LEMMA EntryOfCustomer ==
  ASSUME NEW S, NEW code, NEW ref, NEW m \in Nat, NumberedTo(S, code, m),
         NEW r \in S
  PROVE  /\ code[r] \in 1 .. m
         /\ ListOf(S, code, ref, m)[code[r]] = [form |-> r, referrer |-> ref[r]]
  <1>1. code[r] \in 1 .. m
    BY DEF NumberedTo
  <1>2. Holder(S, code, code[r]) = r
    <2>1. \E q \in S : code[q] = code[r]
      OBVIOUS
    <2>2. /\ Holder(S, code, code[r]) \in S
          /\ code[Holder(S, code, code[r])] = code[r]
      BY <2>1 DEF Holder
    <2> QED
      BY <2>2 DEF NumberedTo
  <1> QED
    BY <1>1, <1>2 DEF ListOf

\* Every number is some customer's.
LEMMA CustomerAt ==
  ASSUME NEW S, NEW code, NEW m \in Nat, NumberedTo(S, code, m),
         NEW n \in 1 .. m
  PROVE  \E r \in S : code[r] = n
  BY DEF NumberedTo

\* The roster is a sequence, and lists exactly the customers.
LEMMA ListIsRoster ==
  ASSUME NEW S, NEW code, NEW ref, NEW m, Listable(S, code, ref, m)
  PROVE  /\ ListOf(S, code, ref, m) \in Seq(Entries)
         /\ Len(ListOf(S, code, ref, m)) = m
         /\ DOMAIN ListOf(S, code, ref, m) = 1 .. m
         /\ {ListOf(S, code, ref, m)[n].form : n \in 1 .. m} = S
  <1> DEFINE list == ListOf(S, code, ref, m)
  <1>a. /\ S \in SUBSET Requests /\ m \in Nat
        /\ ref \in [Requests -> Requests \cup {Nobody}]
        /\ NumberedTo(S, code, m)
    BY DEF Listable
  <1>1. DOMAIN list = 1 .. m /\ list = [n \in 1 .. m |-> list[n]]
    BY DEF ListOf
  <1>2. ASSUME NEW n \in 1 .. m
        PROVE  list[n] \in Entries /\ list[n].form \in S
    <2>1. PICK r \in S : code[r] = n
      BY <1>a, CustomerAt
    <2>2. list[n] = [form |-> r, referrer |-> ref[r]]
      BY <1>a, <2>1, EntryOfCustomer
    <2> QED
      BY <1>a, <2>2 DEF Entries
  <1>3. \A r \in S : code[r] \in 1 .. m /\ list[code[r]].form = r
    <2> SUFFICES ASSUME NEW r \in S
                 PROVE  code[r] \in 1 .. m /\ list[code[r]].form = r
      OBVIOUS
    <2>1. /\ code[r] \in 1 .. m
          /\ list[code[r]] = [form |-> r, referrer |-> ref[r]]
      BY <1>a, EntryOfCustomer
    <2> QED
      BY <2>1
  <1> HIDE DEF list
  <1>4. list \in [1 .. m -> Entries]
    BY <1>1, <1>2
  <1>5. list \in Seq(Entries)
    BY <1>a, <1>4, SeqDef
  <1>6. Len(list) = m
    BY <1>a, <1>1, <1>5
  <1>7. {list[n].form : n \in 1 .. m} = S
    BY <1>2, <1>3
  <1> QED
    BY <1>1, <1>5, <1>6, <1>7 DEF list

\* Customers who keep their numbers and referrers keep their entries.
LEMMA EntriesStay ==
  ASSUME NEW S, NEW T, NEW c, NEW d, NEW f, NEW g, NEW m, NEW n,
         Listable(S, c, f, m), Listable(T, d, g, n), S \subseteq T,
         \A r \in S : d[r] = c[r] /\ g[r] = f[r]
  PROVE  \A k \in 1 .. m :
           k \in 1 .. n /\ ListOf(T, d, g, n)[k] = ListOf(S, c, f, m)[k]
  <1> SUFFICES ASSUME NEW k \in 1 .. m
               PROVE  /\ k \in 1 .. n
                      /\ ListOf(T, d, g, n)[k] = ListOf(S, c, f, m)[k]
    OBVIOUS
  <1>a. /\ m \in Nat /\ NumberedTo(S, c, m)
        /\ n \in Nat /\ NumberedTo(T, d, n)
    BY DEF Listable
  <1>1. PICK r \in S : c[r] = k
    BY <1>a, CustomerAt
  <1>2. ListOf(S, c, f, m)[k] = [form |-> r, referrer |-> f[r]]
    BY <1>a, <1>1, EntryOfCustomer
  <1>3. r \in T /\ d[r] = k /\ g[r] = f[r]
    BY <1>1
  <1>4. /\ k \in 1 .. n
        /\ ListOf(T, d, g, n)[k] = [form |-> r, referrer |-> g[r]]
    BY <1>a, <1>3, EntryOfCustomer
  <1> QED
    BY <1>2, <1>3, <1>4

\* Lists of the same entries are one list.
LEMMA SameList ==
  ASSUME NEW S, NEW m, NEW c, NEW d, NEW f, NEW g,
         Listable(S, c, f, m), Listable(S, d, g, m),
         \A r \in S : d[r] = c[r] /\ g[r] = f[r]
  PROVE  ListOf(S, d, g, m) = ListOf(S, c, f, m)
  <1> DEFINE old == ListOf(S, c, f, m)
             new == ListOf(S, d, g, m)
  <1>1. /\ old \in Seq(Entries) /\ Len(old) = m
        /\ new \in Seq(Entries) /\ Len(new) = m
    BY ListIsRoster
  <1>2. \A k \in 1 .. m : new[k] = old[k]
    BY EntriesStay
  <1> HIDE DEF old, new
  <1>3. new = old
    BY <1>1, <1>2, SeqEqual
  <1> QED
    BY <1>3 DEF old, new

\* A list with an entry more, at its end.
AppendedTo(list, e, old) == list = Append(old, e)

\* One customer more, with the next number, is one entry more.
LEMMA ListWithOneMore ==
  ASSUME NEW S, NEW T, NEW r, NEW m, NEW n, NEW c, NEW f,
         Listable(S, c, f, m), Listable(T, c, f, n),
         T = S \cup {r}, r \notin S, n = m + 1
  PROVE  AppendedTo(ListOf(T, c, f, n), [form |-> r, referrer |-> f[r]],
                    ListOf(S, c, f, m))
  <1> DEFINE e == [form |-> r, referrer |-> f[r]]
             old == ListOf(S, c, f, m)
             new == ListOf(T, c, f, n)
  <1>a. /\ m \in Nat /\ n \in Nat /\ n = m + 1
        /\ NumberedTo(S, c, m) /\ NumberedTo(T, c, n)
    BY DEF Listable
  <1>1. /\ old \in Seq(Entries) /\ Len(old) = m
        /\ new \in Seq(Entries) /\ Len(new) = m + 1
    BY ListIsRoster
  <1>2. \A k \in 1 .. m : new[k] = old[k]
    <2>1. S \subseteq T
      OBVIOUS
    <2> QED
      BY <2>1, EntriesStay
  <1>3. c[r] = m + 1
    <2>1. c[r] \in 1 .. m + 1
      BY <1>a DEF NumberedTo
    <2>2. ASSUME c[r] \in 1 .. m
          PROVE  FALSE
      <3>1. PICK q \in S : c[q] = c[r]
        BY <2>2, <1>a DEF NumberedTo
      <3> QED
        BY <3>1, <1>a DEF NumberedTo
    <2> QED
      BY <2>1, <2>2, <1>a
  <1>4. new[m + 1] = e
    <2>1. r \in T
      OBVIOUS
    <2>2. new[c[r]] = e
      BY <2>1, <1>a, EntryOfCustomer
    <2> QED
      BY <2>2, <1>3
  <1>5. e \in Entries
    BY DEF Entries, Listable
  <1> HIDE DEF old, new, e
  <1>6. /\ Append(old, e) \in Seq(Entries)
        /\ Len(Append(old, e)) = m + 1
        /\ \A k \in 1 .. m : Append(old, e)[k] = old[k]
        /\ Append(old, e)[m + 1] = e
    BY <1>1, <1>5, AppendProperties
  <1>7. \A k \in 1 .. m + 1 : new[k] = Append(old, e)[k]
    BY <1>a, <1>2, <1>4, <1>6
  <1>8. new = Append(old, e)
    BY <1>1, <1>6, <1>7, SeqEqual
  <1> QED
    BY <1>8 DEF old, new, e, AppendedTo

\* The roster is the list of the registered customers.
LEMMA RosterIsList ==
  Roster = ListOf(Registered, customerSequence, referrer, CustomerCount)
  BY DEF Roster, HolderOf, ListOf, Holder

\* The codes number the registered customers from 1.
CustomersNumbered ==
  Listable(Registered, customerSequence, referrer, CustomerCount)

LEMMA InvNumbers ==
  ASSUME RegistrationInv
  PROVE  CustomersNumbered
  <1>1. TypeOK /\ CustomerCount \in Nat
    BY CountsAreNumbers DEF RegistrationInv
  <1>2. NumberedTo(Registered, customerSequence, CustomerCount)
    BY InvCodesDense DEF NumberedTo, CodesWithoutGaps
  <1> QED
    BY <1>1, <1>2 DEF CustomersNumbered, Listable, TypeOK, Registered

\* The abstract registry's customers are the registered ones.
LEMMA EnrolledAreRegistered ==
  ASSUME CustomersNumbered
  PROVE  Serial!Enrolled = Registered
  <1>1. /\ DOMAIN Roster = 1 .. CustomerCount
        /\ {Roster[n].form : n \in 1 .. CustomerCount} = Registered
    BY ListIsRoster, RosterIsList DEF CustomersNumbered
  <1> QED
    BY <1>1 DEF Serial!Enrolled

\* The roster after a step.
LEMMA RosterAfter ==
  Roster' = ListOf(Registered', customerSequence', referrer', CustomerCount')
  BY DEF Roster, HolderOf, ListOf, Holder

\* A step that registers nobody leaves the roster.
LEMMA RosterStays ==
  ASSUME CustomersNumbered, CustomersNumbered',
         Registered' = Registered, CustomerCount' = CustomerCount,
         \A q \in Registered : /\ customerSequence'[q] = customerSequence[q]
                               /\ referrer'[q] = referrer[q]
  PROVE  Roster' = Roster
  <1>1. ListOf(Registered, customerSequence', referrer', CustomerCount)
          = ListOf(Registered, customerSequence, referrer, CustomerCount)
    BY SameList DEF CustomersNumbered
  <1> QED
    BY <1>1, RosterAfter, RosterIsList

\* Registering a customer is an enrolment: under keys nobody has, by a referrer
\* who is enrolled.
LEMMA RegisterEnrols ==
  ASSUME RegistrationInv, CustomersNumbered, CustomersNumbered',
         NEW r \in Requests, Register(r)
  PROVE  Serial!Enroll(r, referrer[r])
  <1>1. /\ step[r] = "profile" /\ r \notin Registered
        /\ customerSequence' = customerSequence /\ referrer' = referrer
    BY DEF Register, Registered
  <1>2. Registered' = Registered \cup {r} /\ CustomerCount' = CustomerCount + 1
    BY OneCustomerMore DEF RegistrationInv
  <1>3. Serial!Enrolled = Registered
    BY EnrolledAreRegistered
  <1>4. \A c \in Registered : Email[c] # Email[r] /\ Phone[c] # Phone[r]
    BY <1>1 DEF RegistrationInv, KeysApart, Registered, HasUser, SameUser
  <1>5. referrer[r] \in Registered \cup {Nobody}
    BY DEF RegistrationInv, ReferrersKnown
  <1>6. Roster' = Append(Roster, [form |-> r, referrer |-> referrer[r]])
    <2>1. /\ Listable(Registered, customerSequence, referrer, CustomerCount)
          /\ Listable(Registered', customerSequence, referrer, CustomerCount')
      BY <1>1 DEF CustomersNumbered
    <2>2. AppendedTo(
            ListOf(Registered', customerSequence, referrer, CustomerCount'),
            [form |-> r, referrer |-> referrer[r]],
            ListOf(Registered, customerSequence, referrer, CustomerCount))
      BY <1>1, <1>2, <2>1, ListWithOneMore
    <2> QED
      BY <2>2, <1>1, RosterAfter, RosterIsList DEF AppendedTo
  <1> QED
    BY <1>1, <1>3, <1>4, <1>5, <1>6 DEF Serial!Enroll

\* Every step enrols one customer or leaves the roster as it is.
LEMMA StepEnrols ==
  ASSUME RegistrationInv, CustomersNumbered, CustomersNumbered', [Next]_vars
  PROVE  [Serial!RegistryNext]_Roster
  <1>a. TypeOK
    BY DEF RegistrationInv
  <1>1. ASSUME NEW r \in Requests, Register(r)
        PROVE  Serial!RegistryNext
    <2>1. Serial!Enroll(r, referrer[r])
      BY <1>1, RegisterEnrols
    <2>2. referrer[r] \in Requests \cup {Nobody}
      BY <1>a DEF TypeOK
    <2> QED
      BY <2>1, <2>2 DEF Serial!RegistryNext
  <1>2. ASSUME NEW r \in Requests, Proceed(r) \/ Abort(r), ~Register(r)
        PROVE  Roster' = Roster
    <2>1. Registered' = Registered /\ CustomerCount' = CustomerCount
      BY <1>2, <1>a, SameCustomers
    <2>2. r \notin Registered
      BY <1>2 DEF Registered, Proceed, Abort, Check, Resolve, CountUsers,
                  InsertUser, CountProfiles, InsertProfile, Register, Refuse
    <2>3. \A q \in Registered : /\ customerSequence'[q] = customerSequence[q]
                                /\ referrer'[q] = referrer[q]
      BY <1>2, <1>a, <2>2, OthersKept DEF Registered
    <2> QED
      BY <2>1, <2>3, RosterStays
  <1>3. CASE AddStaff \/ UNCHANGED vars
    <2>1. /\ Registered' = Registered /\ CustomerCount' = CustomerCount
          /\ customerSequence' = customerSequence /\ referrer' = referrer
      BY <1>3 DEF AddStaff, vars, Registered, CustomerCount
    <2> QED
      BY <2>1, RosterStays
  <1> QED
    BY <1>1, <1>2, <1>3 DEF Next

\* Registrations that overlap have the effect of enrolling the customers one
\* after another in the order of their codes.
THEOREM RegistryImplemented == Spec => ImplementsRegistry
  <1>1. Init => Serial!RegistryInit
    <2> SUFFICES ASSUME Init
                 PROVE  Roster = <<>>
      BY DEF Serial!RegistryInit
    <2>1. Registered = {}
      BY DEF Init, Registered
    <2>2. CustomerCount = 0
      BY <2>1, FS_EmptySet DEF CustomerCount
    <2> QED
      BY <2>2 DEF Roster
  <1>2. RegistrationInv => CustomersNumbered
    BY InvNumbers
  <1>3. /\ RegistrationInv /\ CustomersNumbered /\ CustomersNumbered'
        /\ [Next]_vars
        => [Serial!RegistryNext]_Roster
    BY StepEnrols
  <1> QED
    BY <1>1, <1>2, <1>3, RegistrationInduction, PTL
       DEF Spec, ImplementsRegistry, Serial!RegistrySpec

=============================================================================
