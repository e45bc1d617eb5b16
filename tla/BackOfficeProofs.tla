-------------------------- MODULE BackOfficeProofs --------------------------
(***************************************************************************)
(* Stored files, the notification inbox, the arithmetic of money and a     *)
(* customer's addresses, for any number of requests, keys, recipients,     *)
(* tabs, rows, amounts and addresses.                                      *)
(*                                                                         *)
(* Stored files: the key of an upload belongs to that upload alone until   *)
(* its row is there, since keys are never generated twice and a deletion   *)
(* can only begin with a key that some row gave away.                      *)
(***************************************************************************)
EXTENDS StoredFiles, Inbox, Money, Account, Settings, SumProofs, SequenceTheorems

Uploading(c) == client[c].op \in {"checked", "put"}

\* Every key in use has been generated.
KeysAreMinted ==
  /\ object \subseteq minted /\ row \subseteq minted /\ dropped \subseteq minted
  /\ \A c \in Clients : client[c] \in Busy => client[c].key \in minted

\* Nobody else knows the key of an upload.
UploadsArePrivate ==
  \A c \in Clients : Uploading(c) =>
    /\ client[c].key \notin row \cup dropped
    /\ client[c].op = "put" => client[c].key \in object
    /\ \A other \in Clients \ {c} : client[other].key # client[c].key

\* An object that was removed is away, and whoever is about to delete its row
\* has removed it.
DroppedAreAway ==
  /\ dropped \cap object = {}
  /\ \A c \in Clients : client[c].op = "removed" => client[c].key \in dropped

FilesInv ==
  /\ FilesTypeOK
  /\ KeysAreMinted /\ UploadsArePrivate /\ DroppedAreAway /\ RowsHaveObjects

-----------------------------------------------------------------------------
\* What a client's record is made of.
LEMMA ClientFields ==
  ASSUME FilesTypeOK, NEW c \in Clients
  PROVE  /\ client[c] \in Rest <=> client[c].op \in {"idle", "done", "refused",
                                                     "read", "missing"}
         /\ client[c] \in Busy <=> client[c].op \in {"checked", "put", "removing",
                                                     "removed", "reading"}
         /\ client[c] \in Rest => client[c].key = NoKey
         /\ client[c] \in Busy => client[c].key \in ObjectKeys
  BY DEF FilesTypeOK, Rest, Busy

\* Each step keeps the variables' types.
LEMMA FilesStepKeepsTypes ==
  ASSUME FilesTypeOK, [FilesNext]_filesVars
  PROVE  FilesTypeOK'
  <1>1. ASSUME NEW c \in Clients, NEW file \in File, NEW category \in UploadCategory,
               BeginUpload(c, file, category)
        PROVE  FilesTypeOK'
    <2>1. CASE ~UploadAllowed(file, category)
      <3>1. Goes(c, "refused", NoKey) /\ UNCHANGED <<bucket, object, row, minted, dropped>>
        BY <1>1, <2>1 DEF BeginUpload
      <3> QED
        BY <3>1 DEF FilesTypeOK, Goes, Rest
    <2>2. CASE UploadAllowed(file, category)
      <3>1. PICK name \in FreshKeys :
              /\ bucket' = TRUE /\ minted' = minted \cup {name}
              /\ Goes(c, "checked", name) /\ UNCHANGED <<object, row, dropped>>
        BY <1>1, <2>2 DEF BeginUpload
      <3> QED
        BY <3>1 DEF FilesTypeOK, Goes, Busy, FreshKeys
    <2> QED
      BY <2>1, <2>2
  <1>2. ASSUME NEW c \in Clients, NEW name \in ObjectKeys,
               BeginDelete(c, name) \/ BeginRead(c, name)
        PROVE  FilesTypeOK'
    BY <1>2 DEF BeginDelete, BeginRead, FilesTypeOK, Goes, Rest, Busy
  <1>3. ASSUME NEW c \in Clients, PutObject(c) \/ CreateRow(c)
        PROVE  FilesTypeOK'
    BY <1>3 DEF PutObject, CreateRow, FilesTypeOK, Goes, Rest, Busy
  <1>4. ASSUME NEW c \in Clients, RemoveObject(c) \/ DeleteRow(c)
        PROVE  FilesTypeOK'
    BY <1>4 DEF RemoveObject, DeleteRow, FilesTypeOK, Goes, Rest, Busy
  <1>5. ASSUME NEW c \in Clients, Read(c) \/ Fails(c)
        PROVE  FilesTypeOK'
    BY <1>5 DEF Read, Fails, FilesTypeOK, Goes, Rest, Busy
  <1>6. CASE UNCHANGED filesVars
    BY <1>6 DEF filesVars, FilesTypeOK
  <1> QED
    BY <1>1, <1>2, <1>3, <1>4, <1>5, <1>6 DEF FilesNext

-----------------------------------------------------------------------------
\* An upload begins with a key that nothing knows.
LEMMA BeginUploadKeeps ==
  ASSUME FilesInv, FilesTypeOK', NEW c \in Clients, NEW file, NEW category,
         BeginUpload(c, file, category)
  PROVE  FilesInv'
  <1>1. CASE ~UploadAllowed(file, category)
    <2>1. Goes(c, "refused", NoKey) /\ UNCHANGED <<object, row, minted, dropped>>
      BY <1>1 DEF BeginUpload
    <2> QED
      BY <2>1, ObjectKeysAssumption
         DEF FilesInv, FilesTypeOK, KeysAreMinted, UploadsArePrivate, Uploading,
             DroppedAreAway, RowsHaveObjects, Goes, Rest, Busy
  <1>2. CASE UploadAllowed(file, category)
    <2>1. PICK name \in FreshKeys :
            /\ minted' = minted \cup {name}
            /\ Goes(c, "checked", name)
            /\ UNCHANGED <<object, row, dropped>>
      BY <1>2 DEF BeginUpload
    <2>2. \A other \in Clients : client[other].key # name
      BY <2>1, ObjectKeysAssumption
         DEF FilesInv, FilesTypeOK, KeysAreMinted, FreshKeys, Rest, Busy
    <2> QED
      BY <2>1, <2>2
         DEF FilesInv, FilesTypeOK, KeysAreMinted, UploadsArePrivate, Uploading,
             DroppedAreAway, RowsHaveObjects, Goes, FreshKeys, Busy
  <1> QED
    BY <1>1, <1>2

\* The two steps of an upload.
LEMMA UploadKeeps ==
  ASSUME FilesInv, FilesTypeOK', NEW c \in Clients, PutObject(c) \/ CreateRow(c)
  PROVE  FilesInv'
  <1>1. CASE PutObject(c)
    <2>1. /\ Uploading(c) /\ client[c] \in Busy
          /\ client'[c] = [op |-> "put", key |-> client[c].key]
          /\ \A other \in Clients \ {c} : client'[other] = client[other]
          /\ object' = object \cup {client[c].key}
          /\ UNCHANGED <<row, minted, dropped>>
      BY <1>1, ClientFields DEF PutObject, FilesInv, FilesTypeOK, Goes, Uploading
    <2>2. KeysAreMinted'
      BY <2>1 DEF FilesInv, KeysAreMinted
    <2>3. UploadsArePrivate'
      BY <2>1 DEF FilesInv, UploadsArePrivate, Uploading
    <2>4. DroppedAreAway'
      BY <2>1 DEF FilesInv, UploadsArePrivate, DroppedAreAway
    <2> QED
      BY <2>1, <2>2, <2>3, <2>4 DEF FilesInv, RowsHaveObjects
  <1>2. CASE CreateRow(c)
    BY <1>2, ObjectKeysAssumption
       DEF CreateRow, FilesInv, FilesTypeOK, KeysAreMinted, UploadsArePrivate,
           Uploading, DroppedAreAway, RowsHaveObjects, Goes, Rest, Busy
  <1> QED
    BY <1>1, <1>2

\* A deletion or a read begins with the key of a row.
LEMMA BeginKeeps ==
  ASSUME FilesInv, FilesTypeOK', NEW c \in Clients, NEW name \in ObjectKeys,
         BeginDelete(c, name) \/ BeginRead(c, name)
  PROVE  FilesInv'
  BY DEF BeginDelete, BeginRead, FilesInv, FilesTypeOK, KeysAreMinted,
         UploadsArePrivate, Uploading, DroppedAreAway, RowsHaveObjects, Goes, Busy

\* The two steps of a deletion.
LEMMA DeletionKeeps ==
  ASSUME FilesInv, FilesTypeOK', NEW c \in Clients, RemoveObject(c) \/ DeleteRow(c)
  PROVE  FilesInv'
  <1>1. CASE RemoveObject(c)
    <2>1. /\ ~Uploading(c) /\ client[c] \in Busy
          /\ client'[c] = [op |-> "removed", key |-> client[c].key]
          /\ \A other \in Clients \ {c} : client'[other] = client[other]
          /\ object' = object \ {client[c].key}
          /\ dropped' = dropped \cup {client[c].key}
          /\ UNCHANGED <<row, minted>>
      BY <1>1, ClientFields DEF RemoveObject, FilesInv, FilesTypeOK, Goes, Uploading
    <2>2. KeysAreMinted'
      BY <2>1 DEF FilesInv, KeysAreMinted
    <2>3. UploadsArePrivate'
      BY <2>1 DEF FilesInv, UploadsArePrivate, Uploading
    <2>4. DroppedAreAway'
      BY <2>1 DEF FilesInv, DroppedAreAway
    <2> QED
      BY <1>1, <2>1, <2>2, <2>3, <2>4 DEF FilesInv, RowsHaveObjects
  <1>2. CASE DeleteRow(c)
    BY <1>2, ObjectKeysAssumption
       DEF DeleteRow, FilesInv, FilesTypeOK, KeysAreMinted, UploadsArePrivate,
           Uploading, DroppedAreAway, RowsHaveObjects, Goes, Rest, Busy
  <1> QED
    BY <1>1, <1>2

\* A read that ends, and a request that fails.
LEMMA EndKeeps ==
  ASSUME FilesInv, FilesTypeOK', NEW c \in Clients, Read(c) \/ Fails(c)
  PROVE  FilesInv'
  <1>1. PICK op \in {"read", "missing", "idle"} :
          Goes(c, op, NoKey) /\ UNCHANGED <<object, row, minted, dropped>>
    BY DEF Read, Fails
  <1> QED
    BY <1>1, ObjectKeysAssumption
       DEF FilesInv, FilesTypeOK, KeysAreMinted, UploadsArePrivate, Uploading,
           DroppedAreAway, RowsHaveObjects, Goes, Rest, Busy

\* The invariant is inductive.
LEMMA FilesStep ==
  ASSUME FilesInv, [FilesNext]_filesVars
  PROVE  FilesInv'
  <1>1. FilesTypeOK'
    BY FilesStepKeepsTypes DEF FilesInv
  <1>2. CASE UNCHANGED filesVars
    BY <1>2 DEF filesVars, FilesInv, FilesTypeOK, KeysAreMinted, UploadsArePrivate,
                Uploading, DroppedAreAway, RowsHaveObjects
  <1>3. CASE FilesNext
    BY <1>1, <1>3, BeginUploadKeeps, UploadKeeps, BeginKeeps, DeletionKeeps, EndKeeps
       DEF FilesNext
  <1> QED
    BY <1>2, <1>3

\* It holds at the start.
LEMMA FilesStart ==
  ASSUME FilesInit
  PROVE  FilesInv
  <1>1. FilesTypeOK
    BY DEF FilesInit, FilesTypeOK, Rest
  <1>2. \A c \in Clients : client[c].op = "idle"
    BY DEF FilesInit
  <1>3. KeysAreMinted
    BY <1>1, <1>2, ClientFields DEF FilesInit, KeysAreMinted
  <1>4. UploadsArePrivate /\ DroppedAreAway /\ RowsHaveObjects
    BY <1>2 DEF FilesInit, UploadsArePrivate, Uploading, DroppedAreAway, RowsHaveObjects
  <1> QED
    BY <1>1, <1>3, <1>4 DEF FilesInv

-----------------------------------------------------------------------------
\* Types of the bucket, the rows and the requests of src/lib/storage.
THEOREM FilesTypeCorrect == FilesSpec => []FilesTypeOK
  <1>1. FilesInv => FilesTypeOK
    BY DEF FilesInv
  <1> QED
    BY <1>1, FilesStart, FilesStep, PTL DEF FilesSpec

\* However uploads, deletions, failures and reads of any number of requests
\* interleave, a row without its object is what a deletion left (uploadFile puts
\* the object before it inserts the row, deleteFile removes it before the row).
THEOREM RowsKeepTheirObjects == FilesSpec => []RowsHaveObjects
  <1>1. FilesInv => RowsHaveObjects
    BY DEF FilesInv
  <1> QED
    BY <1>1, FilesStart, FilesStep, PTL DEF FilesSpec

\* A file whose deletion has gone through in some request is not brought back by
\* a late step of another one.
THEOREM DeletionsStick == FilesSpec => DeletedForGood
  <1>1. ASSUME FilesInv, [FilesNext]_filesVars
        PROVE  [\A key \in dropped : /\ key \notin object'
                                     /\ key \notin row => key \notin row']_filesVars
    <2>1. SUFFICES ASSUME FilesNext, NEW name \in dropped
                   PROVE  name \notin object' /\ (name \notin row => name \notin row')
      BY <1>1
    <2>2. name \in dropped' /\ FilesInv'
      BY <1>1, <2>1, FilesStep
         DEF FilesNext, BeginUpload, PutObject, CreateRow, BeginDelete, BeginRead,
             RemoveObject, DeleteRow, Read, Fails
    <2>3. name \notin row => name \notin row'
      <3>1. ASSUME NEW c \in Clients, CreateRow(c)
            PROVE  name \notin row => name \notin row'
        BY <1>1, <3>1 DEF CreateRow, FilesInv, UploadsArePrivate, Uploading
      <3> QED
        BY <2>1, <3>1
           DEF FilesNext, BeginUpload, PutObject, BeginDelete, BeginRead,
               RemoveObject, DeleteRow, Read, Fails
    <2> QED
      BY <2>2, <2>3 DEF FilesInv, DroppedAreAway
  <1> QED
    BY <1>1, FilesStart, FilesStep, PTL DEF FilesSpec, DeletedForGood

-----------------------------------------------------------------------------
(* The inbox.                                                              *)

\* What a tab may show.
Shown == [unread : SUBSET (1..MaxNotifications), markAll : BOOLEAN]

\* The bound on rows is also one on what a tab can show.
InboxInv == InboxTypeOK /\ Len(notification) <= MaxNotifications

-----------------------------------------------------------------------------
\* Mapping the rows of a sequence keeps its length.
LEMMA MappedSeq ==
  ASSUME NEW S, NEW s \in Seq(S), NEW t, t = [i \in DOMAIN s |-> t[i]],
         \A i \in DOMAIN s : t[i] \in S
  PROVE  t \in Seq(S) /\ Len(t) = Len(s)
  OBVIOUS

\* What is shown to somebody are rows of his or hers.
LEMMA ShownAreRows ==
  ASSUME InboxInv
  PROVE  Listed(signedIn) \cap Unread(signedIn) \subseteq 1..MaxNotifications
  <1>1. DOMAIN notification \subseteq 1..MaxNotifications
    BY InboxAssumption DEF InboxInv, InboxTypeOK
  <1> QED
    BY <1>1 DEF Listed, Of

\* The rows that a button's update finds are unread, and the user's.
LEMMA MarkedRows ==
  ASSUME NEW t \in Tabs,
         MarkAllAsRead(t) \/ \E i \in tab[t].unread : MarkAsRead(t, i)
  PROVE  \E rows \in SUBSET Unread(signedIn) : Mark(t, rows)
  BY DEF MarkAllAsRead, MarkAsRead, Markable

\* What a tab is set to show.
LEMMA ShownFields ==
  ASSUME NEW unread \in SUBSET (1..MaxNotifications)
  PROVE  [unread |-> unread, markAll |-> unread # {}] \in Shown
  <1>1. (unread # {}) \in BOOLEAN
    OBVIOUS
  <1> QED
    BY <1>1 DEF Shown

\* Rows are added at the end.
LEMMA NotifyAppends ==
  ASSUME InboxInv, NEW users \in SUBSET Recipients, Notify(users)
  PROVE  /\ notification' \in Seq(Notification)
         /\ Len(notification') <= MaxNotifications
         /\ \A i \in DOMAIN notification : notification'[i] = notification[i]
  <1>1. Cardinality(users) \in Nat
    BY InboxAssumption, FS_Subset, FS_CardinalityType
  <1>2. PICK rows \in [1..Cardinality(users) -> [user : users, readAt : {0}]] :
          notification' = notification \o rows
    BY DEF Notify
  <1>3. rows \in Seq(Notification) /\ Len(rows) = Cardinality(users)
    <2>1. \A i \in 1..Cardinality(users) : rows[i] \in Notification
      BY <1>2 DEF Notification
    <2>2. rows \in [1..Cardinality(users) -> Notification]
      BY <1>2, <2>1
    <2> QED
      BY <1>1, <2>2
  <1>4. notification \in Seq(Notification)
    BY DEF InboxInv, InboxTypeOK
  <1>5. Len(notification) + Cardinality(users) <= MaxNotifications
    BY DEF Notify
  <1> QED
    <2>1. Len(notification) \in Nat /\ DOMAIN notification = 1..Len(notification)
      BY <1>4
    <2>2. /\ notification' \in Seq(Notification)
          /\ Len(notification') = Len(notification) + Cardinality(users)
      BY <1>2, <1>3, <1>4, ConcatProperties
    <2>3. ASSUME NEW i \in DOMAIN notification
          PROVE  notification'[i] = notification[i]
      BY <1>1, <1>2, <1>3, <1>4, <2>1, ConcatProperties
    <2> QED
      BY <1>5, <2>2, <2>3

\* A button changes the rows it finds, and no other.
LEMMA MarkKeeps ==
  ASSUME InboxInv, NEW t \in Tabs, NEW rows \in SUBSET Unread(signedIn),
         Mark(t, rows)
  PROVE  /\ InboxInv'
         /\ \A i \in DOMAIN notification :
              /\ i \notin rows => notification'[i] = notification[i]
              /\ i \in rows => notification'[i].readAt = clock + 1
  <1>1. /\ notification \in Seq(Notification) /\ clock \in Nat
        /\ Len(notification) <= MaxNotifications /\ signedIn \in Recipients
    BY DEF InboxInv, InboxTypeOK
  <1>2. notification' = [i \in DOMAIN notification |->
                           IF i \in rows
                             THEN [notification[i] EXCEPT !.readAt = clock + 1]
                             ELSE notification[i]]
    BY DEF Mark
  <1>3. \A i \in DOMAIN notification :
          /\ notification'[i] \in Notification
          /\ i \notin rows => notification'[i] = notification[i]
          /\ i \in rows => notification'[i].readAt = clock + 1
    <2> SUFFICES ASSUME NEW i \in DOMAIN notification
                 PROVE  /\ notification'[i] \in Notification
                        /\ i \notin rows => notification'[i] = notification[i]
                        /\ i \in rows => notification'[i].readAt = clock + 1
      OBVIOUS
    <2>1. notification[i] \in Notification /\ clock + 1 \in Nat
      BY <1>1
    <2>2. notification'[i] = IF i \in rows
                               THEN [notification[i] EXCEPT !.readAt = clock + 1]
                               ELSE notification[i]
      BY <1>2
    <2> QED
      BY <2>1, <2>2 DEF Notification
  <1>4. notification' \in Seq(Notification) /\ Len(notification') = Len(notification)
    BY <1>1, <1>2, <1>3, MappedSeq
  <1>5. tab' \in [Tabs -> Shown]
    <2>1. PICK unread \in SUBSET (1..MaxNotifications) :
            tab' = [tab EXCEPT ![t] = [unread |-> unread, markAll |-> unread # {}]]
      BY ShownAreRows DEF Mark
    <2>2. [unread |-> unread, markAll |-> unread # {}] \in Shown
      BY ShownFields
    <2> QED
      BY <2>1, <2>2 DEF InboxInv, InboxTypeOK, Shown
  <1> QED
    BY <1>1, <1>3, <1>4, <1>5 DEF Mark, InboxInv, InboxTypeOK, Shown

\* The invariant is inductive.
LEMMA InboxStep ==
  ASSUME InboxInv, [InboxNext]_inboxVars
  PROVE  InboxInv'
  <1>1. ASSUME NEW users \in SUBSET Recipients, Notify(users)
        PROVE  InboxInv'
    BY <1>1, NotifyAppends DEF Notify, InboxInv, InboxTypeOK
  <1>2. ASSUME NEW t \in Tabs, OpenInbox(t)
        PROVE  InboxInv'
    <2>1. PICK unread \in SUBSET (1..MaxNotifications) :
            tab' = [tab EXCEPT ![t] = [unread |-> unread, markAll |-> unread # {}]]
      BY <1>2, ShownAreRows DEF OpenInbox
    <2>2. [unread |-> unread, markAll |-> unread # {}] \in Shown
      BY ShownFields
    <2>3. tab' \in [Tabs -> Shown]
      BY <2>1, <2>2 DEF InboxInv, InboxTypeOK, Shown
    <2> QED
      BY <1>2, <2>3 DEF OpenInbox, InboxInv, InboxTypeOK, Shown
  <1>3. ASSUME NEW t \in Tabs,
               MarkAllAsRead(t) \/ \E i \in tab[t].unread : MarkAsRead(t, i)
        PROVE  InboxInv'
    BY <1>3, MarkedRows, MarkKeeps
  <1>4. ASSUME NEW user \in Recipients, SwitchUser(user)
        PROVE  InboxInv'
    BY <1>4 DEF SwitchUser, InboxInv, InboxTypeOK
  <1>5. CASE UNCHANGED inboxVars
    BY <1>5 DEF inboxVars, InboxInv, InboxTypeOK
  <1> QED
    BY <1>1, <1>2, <1>3, <1>4, <1>5 DEF InboxNext

\* It holds at the start.
LEMMA InboxStart == InboxInit => InboxInv
  BY InboxAssumption DEF InboxInit, InboxInv, InboxTypeOK, NotOpen

-----------------------------------------------------------------------------
\* Types of the notifications and of what the tabs show.
THEOREM InboxTypeCorrect == InboxSpec => []InboxTypeOK
  <1>1. InboxInv => InboxTypeOK
    BY DEF InboxInv
  <1> QED
    BY <1>1, InboxStart, InboxStep, PTL DEF InboxSpec

\* Whatever a tab still shows and whoever is signed in by now, a button changes
\* unread rows of that user only, and a row that was read keeps its time.
THEOREM ReadOnce == InboxSpec => ReadOnceByItsUser
  <1> DEFINE A == \A i \in DOMAIN notification :
                    notification'[i] # notification[i] =>
                      /\ notification[i].readAt = 0 /\ notification'[i].readAt # 0
                      /\ notification[i].user = signedIn
  <1>1. ASSUME InboxInv, [InboxNext]_inboxVars
        PROVE  [A]_inboxVars
    <2>1. ASSUME NEW users \in SUBSET Recipients, Notify(users)
          PROVE  A
      BY <1>1, <2>1, NotifyAppends
    <2>2. ASSUME NEW t \in Tabs,
                 MarkAllAsRead(t) \/ \E i \in tab[t].unread : MarkAsRead(t, i)
          PROVE  A
      <3>1. PICK rows \in SUBSET Unread(signedIn) : Mark(t, rows)
        BY <2>2, MarkedRows
      <3>2. clock \in Nat /\ clock + 1 # 0
        BY <1>1 DEF InboxInv, InboxTypeOK
      <3> QED
        BY <1>1, <3>1, <3>2, MarkKeeps DEF Unread, Of
    <2>3. ASSUME NEW t \in Tabs, OpenInbox(t)
          PROVE  A
      BY <2>3 DEF OpenInbox
    <2>4. ASSUME NEW user \in Recipients, SwitchUser(user)
          PROVE  A
      BY <2>4 DEF SwitchUser
    <2> QED
      BY <1>1, <2>1, <2>2, <2>3, <2>4 DEF InboxNext
  <1> QED
    BY <1>1, InboxStart, InboxStep, PTL DEF InboxSpec, ReadOnceByItsUser

-----------------------------------------------------------------------------
(* Money.                                                                  *)

\* Rounding, for credits and debts.
LEMMA RoundedCases ==
  ASSUME NEW v \in Int
  PROVE  /\ Rounded(v) \in Int
         /\ v >= 0 => Rounded(v) = ((v + 5) \div 10) * 10
         /\ v < 0 => Rounded(v) = -(((5 - v) \div 10) * 10)
         /\ v >= 0 => Rounded(v) >= 0
         /\ v <= 0 => Rounded(v) <= 0
  BY DEF Rounded, Pesewa

\* A whole number of pesewas is already round.
LEMMA WholePesewas ==
  ASSUME NEW k \in Int
  PROVE  Rounded(k * 10) = k * 10
  BY DEF Rounded, Pesewa

\* Every rounded amount is a whole number of pesewas.
LEMMA RoundedIsWhole ==
  ASSUME NEW v \in Int
  PROVE  /\ \E k \in Int : Rounded(v) = k * 10
         /\ v >= 0 => \E k \in Nat : Rounded(v) = k * 10
  BY DEF Rounded, Pesewa

\* Dividing by a count leaves less than the count.
LEMMA Quotient ==
  ASSUME NEW m \in Nat, NEW n \in Nat \ {0}
  PROVE  /\ m \div n \in Nat
         /\ (m \div n) * n <= m
         /\ m - (m \div n) * n < n
  OBVIOUS

-----------------------------------------------------------------------------
\* toMoney and the functions that end in it round to the nearest pesewa, debts
\* like credits, and rounding twice is rounding once.
THEOREM RoundingCorrect ==
  \A v \in Int :
    /\ Rounded(v) % Pesewa = 0
    /\ Abs(Rounded(v) - v) <= 5
    /\ Rounded(-v) = -Rounded(v)
    /\ Rounded(Rounded(v)) = Rounded(v)
  BY DEF Rounded, Pesewa, Abs

\* Taking a stored amount off a stored balance and putting it back restores it;
\* a whole number of stored prices needs no rounding; clampAtZero keeps what is
\* above nothing; the smaller and the larger of two amounts are both of them.
THEOREM BalancesRestored ==
  \A a, b \in Int, units \in Nat :
    /\ Add(Subtract(Rounded(a), Rounded(b)), Rounded(b)) = Rounded(a)
    /\ Multiply(Rounded(a), units) = Rounded(a) * units
    /\ ClampAtZero(a) = MoreOf(a, 0)
    /\ LessOf(a, b) + MoreOf(a, b) = Rounded(a) + Rounded(b)
  <1> SUFFICES ASSUME NEW a \in Int, NEW b \in Int, NEW units \in Nat
               PROVE  /\ Add(Subtract(Rounded(a), Rounded(b)), Rounded(b)) = Rounded(a)
                      /\ Multiply(Rounded(a), units) = Rounded(a) * units
                      /\ ClampAtZero(a) = MoreOf(a, 0)
                      /\ LessOf(a, b) + MoreOf(a, b) = Rounded(a) + Rounded(b)
    OBVIOUS
  <1>1. PICK k \in Int, n \in Int : Rounded(a) = k * 10 /\ Rounded(b) = n * 10
    BY RoundedIsWhole
  <1>2. Add(Subtract(Rounded(a), Rounded(b)), Rounded(b)) = Rounded(a)
    <2>1. Subtract(Rounded(a), Rounded(b)) = Rounded((k - n) * 10)
      BY <1>1 DEF Subtract
    <2>2. Rounded((k - n) * 10) = (k - n) * 10
      <3>1. k - n \in Int
        BY <1>1
      <3> QED
        BY <3>1, WholePesewas
    <2>3. Add((k - n) * 10, n * 10) = Rounded(k * 10)
      BY DEF Add
    <2> QED
      BY <1>1, <2>1, <2>2, <2>3, WholePesewas
  <1>3. ClampAtZero(a) = MoreOf(a, 0)
    <2>1. Rounded(0) = 0
      BY DEF Rounded, Pesewa
    <2> QED
      BY <2>1 DEF ClampAtZero, MoreOf
  <1>4. LessOf(a, b) + MoreOf(a, b) = Rounded(a) + Rounded(b)
    <2>1. Rounded(a) \in Int /\ Rounded(b) \in Int
      BY RoundedCases
    <2>2. CASE a < b
      BY <2>2 DEF LessOf, MoreOf
    <2>3. CASE ~(a < b)
      BY <2>1, <2>3 DEF LessOf, MoreOf
    <2> QED
      BY <2>2, <2>3
  <1>5. Multiply(Rounded(a), units) = Rounded(a) * units
    <2>1. k * units \in Int /\ k * 10 * units = k * units * 10
      OBVIOUS
    <2>2. Rounded(k * units * 10) = k * units * 10
      BY <2>1, WholePesewas
    <2> QED
      BY <1>1, <2>1, <2>2 DEF Multiply
  <1> QED
    BY <1>2, <1>3, <1>4, <1>5

\* In whole pesewas: the base is cut towards nothing, the last instalment is the
\* base and what is left, which is less than the number of instalments.
LEMMA SplitParts ==
  ASSUME NEW total \in Int, NEW parts \in Nat \ {0}
  PROVE  \E q, left \in Int :
           /\ Base(total, parts) = q * 10
           /\ Last(total, parts) = (q + left) * 10
           /\ Rounded(total) = (q * parts + left) * 10
           /\ -parts < left /\ left < parts
           /\ total >= 0 => 0 <= q /\ 0 <= left
  <1>1. PICK k \in Int : Rounded(total) = k * 10 /\ (total >= 0 => k >= 0)
    BY RoundedIsWhole
  <1> DEFINE m == IF k < 0 THEN -k ELSE k
             n == m \div parts
             q == IF k < 0 THEN -n ELSE n
             left == k - q * parts
  <1>2. n \in Nat /\ m - n * parts < parts /\ 0 <= m - n * parts
    <2>1. m \in Nat
      BY <1>1
    <2> HIDE DEF m
    <2> QED
      BY <2>1, Quotient
  <1>3. Base(total, parts) = q * 10
    <2>1. Abs(k * 10) = m * 10 /\ (m * 10) \div 10 = m /\ (k * 10 < 0 <=> k < 0)
      BY DEF Abs
    <2> HIDE DEF n
    <2>2. CASE k < 0
      BY <1>1, <2>1, <2>2 DEF Base, CutDown, Pesewa, n
    <2>3. CASE ~(k < 0)
      BY <1>1, <2>1, <2>3 DEF Base, CutDown, Pesewa, n
    <2> QED
      BY <2>2, <2>3
  <1>4. q \in Int /\ (k >= 0 => q >= 0)
    <2> HIDE DEF n
    <2> QED
      BY <1>2
  <1>5. left \in Int /\ -parts < left /\ left < parts /\ (k >= 0 => left >= 0)
    <2> HIDE DEF n
    <2>1. n * parts \in Nat /\ (-n) * parts = -(n * parts)
      BY <1>2
    <2> QED
      BY <1>2, <2>1
  <1> HIDE DEF q, n, m
  <1>6. k = q * parts + left
    BY <1>4
  <1>7. Last(total, parts) = (q + left) * 10
    <2>1. q * 10 + (k * 10 - (q * 10) * parts) = (q + left) * 10
      <3>1. q * 10 * parts = q * parts * 10
        BY <1>4
      <3>2. q * parts \in Int
        BY <1>4
      <3> QED
        BY <1>4, <3>1, <3>2
    <2>2. Rounded((q + left) * 10) = (q + left) * 10
      <3>1. q + left \in Int
        BY <1>4, <1>5
      <3> QED
        BY <3>1, WholePesewas
    <2> HIDE DEF left
    <2> QED
      BY <1>1, <1>3, <2>1, <2>2 DEF Last
  <1> HIDE DEF left
  <1> QED
    BY <1>1, <1>3, <1>4, <1>5, <1>6, <1>7

\* splitEvenly, for a total that is not negative: every instalment but the last
\* is the base, so that the plan asks for the rounded total and no more; the last
\* one makes up for less than a pesewa of each, and asks for no less than they.
THEOREM LastMakesUp ==
  ASSUME NEW total \in Nat, NEW parts \in Nat \ {0}
  PROVE  LET instalment == SplitEvenly(total, parts)
             base == Base(total, parts)
             last == instalment[parts]
         IN  /\ \A i \in 1..parts : i < parts => instalment[i] = base
             /\ (parts - 1) * base + last = Rounded(total)
             /\ 0 <= base /\ base <= last /\ last - base < parts * Pesewa
  <1>0. total \in Int /\ total >= 0
    OBVIOUS
  <1>1. PICK q \in Int, left \in Int :
          /\ Base(total, parts) = q * 10
          /\ Last(total, parts) = (q + left) * 10
          /\ Rounded(total) = (q * parts + left) * 10
          /\ -parts < left /\ left < parts
          /\ total >= 0 => 0 <= q /\ 0 <= left
    BY <1>0, SplitParts
  <1>2. (parts - 1) * (q * 10) + (q + left) * 10 = (q * parts + left) * 10
    <2>1. (parts - 1) * (q * 10) = q * parts * 10 - q * 10 /\ q * parts \in Int
      OBVIOUS
    <2> QED
      BY <2>1
  <1>3. /\ \A i \in 1..parts : i < parts =>
             SplitEvenly(total, parts)[i] = Base(total, parts)
        /\ SplitEvenly(total, parts)[parts] = Last(total, parts)
    BY DEF SplitEvenly
  <1> QED
    BY <1>0, <1>1, <1>2, <1>3 DEF Pesewa

\* SplitLeavesNothing of Money, for debts too: a plan for any total and any
\* number of instalments asks for the rounded total, neither more nor less.
THEOREM PlansLeaveNothing == MoneyInit => SplitLeavesNothing
  <1> SUFFICES ASSUME MoneyInit PROVE SplitLeavesNothing
    OBVIOUS
  <1> DEFINE total == plan.total
             parts == plan.parts
             instalment == SplitEvenly(total, parts)
             last == instalment[parts]
  <1>1. total \in Int /\ parts \in Nat \ {0}
    BY MoneyAssumption DEF MoneyInit
  <1> HIDE DEF total, parts
  <1>2. PICK q \in Int, left \in Int :
          /\ Base(total, parts) = q * 10
          /\ Last(total, parts) = (q + left) * 10
          /\ Rounded(total) = (q * parts + left) * 10
          /\ -parts < left /\ left < parts
          /\ total >= 0 => 0 <= q /\ 0 <= left
    BY <1>1, SplitParts
  <1>3. instalment = [i \in 1..parts |-> IF i < parts THEN q * 10 ELSE (q + left) * 10]
    BY <1>2 DEF SplitEvenly
  <1>4. SumFunction(instalment) = Rounded(total)
    <2> DEFINE S == 1..parts
               c == q * 10
    <2>1. DOMAIN instalment = S /\ instalment[parts] = (q + left) * 10
      BY <1>1, <1>3
    <2>2. \A i \in S \ {parts} : instalment[i] = c
      BY <1>1, <1>3
    <2>3. IsFiniteSet(S) /\ Cardinality(S) = parts /\ parts \in S
      BY <1>1, FS_Interval
    <2>4. c \in Int /\ (q + left) * 10 \in Int
      BY <1>2
    <2>5. SumFunction(instalment) = SumFunctionOnSet(instalment, S)
      BY <2>1 DEF SumFunction
    <2> HIDE DEF instalment, S, c
    <2>6. SumFunctionOnSet(instalment, S)
            = c * Cardinality(S) + instalment[parts] - c
      BY <2>1, <2>2, <2>3, <2>4, SumAllButOne
    <2>7. c * parts = (q * parts) * 10 /\ q * parts \in Int
      BY <1>1, <1>2 DEF c
    <2> QED
      BY <1>2, <2>1, <2>3, <2>4, <2>5, <2>6, <2>7 DEF c
  <1> HIDE DEF instalment
  <1>5. last = (q + left) * 10
    BY <1>1, <1>3
  <1>6. ASSUME NEW i \in 1..parts
        PROVE  /\ Abs(last - instalment[i]) < parts * Pesewa
               /\ total >= 0 => 0 <= instalment[i] /\ instalment[i] <= last
    <2>1. instalment[i] = q * 10 \/ instalment[i] = (q + left) * 10
      BY <1>3
    <2> HIDE DEF last
    <2> QED
      BY <1>1, <1>2, <1>5, <2>1 DEF Abs, Pesewa
  <1> QED
    BY <1>4, <1>6 DEF SplitLeavesNothing, total, parts, instalment, last

-----------------------------------------------------------------------------
(* A customer's addresses, whatever requests overlap.  A request that is   *)
(* alone has met no other one: whatever it found when it began is how      *)
(* things still are when it commits.                                       *)

ActiveIn(rows) == {i \in Ids : rows[i].active}
ChosenIn(rows) == {i \in Ids : rows[i].default}

\* The address a request is about is one the customer has had.
AboutOwnRow(rows, t) ==
  \/ t.op \in {"clear", "write"} /\ t.id # New
  \/ t.op \in {"count", "remove"}
  => rows[t.id].exists

\* What a request that is alone knows of the rows.
Knows(rows, t) ==
  /\ t.op \in {"clear", "write"} =>
       IF t.default THEN ChosenIn(rows) \subseteq t.found \cup t.cleared
                    ELSE t.cleared = {} /\ t.found = {}
  /\ t.op = "write" => t.found = {}
  /\ t.op = "create" =>
       \/ t.default /\ (ChosenIn(rows) \subseteq t.cleared \/ ActiveIn(rows) = {})
       \/ ~t.default /\ t.cleared = {} /\ ActiveIn(rows) # {}
  /\ t.op \in {"count", "remove"} => t.default = rows[t.id].default
  /\ t.op = "remove" /\ t.default => ActiveIn(rows) \ {t.id} = {}

Alone(r) == request[r] # Idle /\ request[r].alone

\* Nobody else is at work while a request is alone.
AloneIsAlone ==
  \A r \in Requests : Alone(r) => \A q \in Requests \ {r} : request[q] = Idle

AccountInv ==
  /\ AccountTypeOK
  /\ \A r \in Requests : AboutOwnRow(address, request[r])
  /\ AloneIsAlone
  /\ \A r \in Requests : Alone(r) => Knows(address, request[r])

Request == {Idle} \cup Saving \cup Creating \cup Removing \cup Profile \cup Auditing

-----------------------------------------------------------------------------
\* The operation of a request says which fields it has.
LEMMA Kinds ==
  ASSUME NEW t \in Request
  PROVE  /\ t = Idle <=> t.op = "idle"
         /\ t.op \in {"clear", "write"} => t \in Saving
         /\ t.op = "create" => t \in Creating
         /\ t.op \in {"count", "remove"} => t \in Removing
         /\ t.op = "profile" => t \in Profile
         /\ t.op = "audit" => t \in Auditing
  BY DEF Request, Idle, Saving, Creating, Removing, Profile, Auditing

\* Whether it is alone can be changed by itself.
LEMMA AloneChanged ==
  ASSUME NEW t \in Request, t # Idle, NEW b \in BOOLEAN
  PROVE  LET s == [t EXCEPT !.alone = b]
         IN  /\ s \in Request /\ s # Idle /\ s.alone = b /\ s.op = t.op
             /\ t.op \in {"clear", "write", "count", "remove"} =>
                  s.id = t.id /\ s.default = t.default
             /\ t.op \in {"clear", "write"} => s.found = t.found
             /\ t.op \in {"clear", "write", "create"} => s.cleared = t.cleared
             /\ t.op = "create" => s.default = t.default
  <1>1. CASE t \in Saving
    BY <1>1 DEF Request, Idle, Saving
  <1>2. CASE t \in Creating
    BY <1>2 DEF Request, Idle, Creating
  <1>3. CASE t \in Removing
    BY <1>3 DEF Request, Idle, Removing
  <1>4. CASE t \in Profile
    BY <1>4 DEF Request, Idle, Profile
  <1>5. CASE t \in Auditing
    BY <1>5 DEF Request, Idle, Auditing
  <1> QED
    BY <1>1, <1>2, <1>3, <1>4, <1>5 DEF Request

\* What opening a request does.
LEMMA Opened ==
  ASSUME AccountTypeOK, NEW r \in Requests, NEW t \in Request, t # Idle,
         OpenRequest(r, t)
  PROVE  /\ request' \in [Requests -> Request]
         /\ request[r] = Idle
         /\ \E b \in BOOLEAN : /\ request'[r] = [t EXCEPT !.alone = b]
                               /\ b => \A q \in Requests \ {r} : request[q] = Idle
         /\ \A q \in Requests \ {r} :
              /\ request[q] = Idle => request'[q] = Idle
              /\ request[q] # Idle => request'[q] = [request[q] EXCEPT !.alone = FALSE]
         /\ UNCHANGED <<address, phone, taken, changes, audits>>
  <1> DEFINE others == {q \in Requests \ {r} : request[q] # Idle}
  <1>0. request \in [Requests -> Request]
    BY DEF AccountTypeOK, Request
  <1>1. PICK b \in BOOLEAN : b <=> others = {}
    <2>1. (others = {}) \in BOOLEAN
      OBVIOUS
    <2> QED
      BY <2>1
  <1>2. request' = [q \in Requests |->
                      IF q = r THEN [t EXCEPT !.alone = b]
                      ELSE IF q \in others THEN [request[q] EXCEPT !.alone = FALSE]
                      ELSE request[q]]
    BY <1>1 DEF OpenRequest
  <1>3. \A q \in Requests : request'[q] \in Request
    BY <1>0, <1>2, AloneChanged
  <1> QED
    BY <1>1, <1>2, <1>3 DEF OpenRequest

\* A request that knows what it needs to may open.
LEMMA OpenKeeps ==
  ASSUME AccountInv, NEW r \in Requests, NEW t \in Request, t # Idle,
         OpenRequest(r, t), AboutOwnRow(address, t), Knows(address, t)
  PROVE  AccountInv'
  <1>0. AccountTypeOK /\ request \in [Requests -> Request]
    BY DEF AccountInv, AccountTypeOK, Request
  <1>1. UNCHANGED <<address, phone, taken, changes, audits>>
    BY <1>0, Opened
  <1>2. AccountTypeOK'
    BY <1>0, <1>1, Opened DEF AccountTypeOK, Request
  <1>3. PICK b \in BOOLEAN : /\ request'[r] = [t EXCEPT !.alone = b]
                             /\ b => \A q \in Requests \ {r} : request[q] = Idle
    BY <1>0, Opened
  <1>4. \A q \in Requests \ {r} :
          /\ request[q] = Idle => request'[q] = Idle
          /\ request[q] # Idle => /\ request'[q] = [request[q] EXCEPT !.alone = FALSE]
                                  /\ ~request'[q].alone
    <2>1. ASSUME NEW q \in Requests \ {r}, request[q] # Idle
          PROVE  /\ request'[q] = [request[q] EXCEPT !.alone = FALSE]
                 /\ ~request'[q].alone
      <3>1. request'[q] = [request[q] EXCEPT !.alone = FALSE]
        BY <1>0, <2>1, Opened
      <3>2. request[q] \in Request
        BY <1>0
      <3> QED
        BY <2>1, <3>1, <3>2, AloneChanged
    <2> QED
      BY <1>0, <2>1, Opened
  <1>5. \A q \in Requests : AboutOwnRow(address, request'[q])
    <2>1. AboutOwnRow(address, request'[r])
      BY <1>3, AloneChanged DEF AboutOwnRow
    <2>2. ASSUME NEW q \in Requests \ {r}
          PROVE  AboutOwnRow(address, request'[q])
      <3>1. AboutOwnRow(address, request[q]) /\ request[q] \in Request
        BY <1>0 DEF AccountInv
      <3>2. CASE request[q] = Idle
        <4>1. request'[q] = request[q]
          BY <1>4, <3>2
        <4> QED
          BY <3>1, <4>1
      <3>3. CASE request[q] # Idle
        <4>1. request'[q] = [request[q] EXCEPT !.alone = FALSE]
          BY <1>4, <3>3
        <4>2. /\ request'[q].op = request[q].op
              /\ request[q].op \in {"clear", "write", "count", "remove"} =>
                   request'[q].id = request[q].id
          BY <3>1, <3>3, <4>1, AloneChanged
        <4> QED
          BY <3>1, <4>2 DEF AboutOwnRow
      <3> QED
        BY <3>2, <3>3
    <2> QED
      BY <2>1, <2>2
  <1>6. \A q \in Requests \ {r} : ~(Alone(q)')
    BY <1>4 DEF Alone
  <1>7. Alone(r)' => /\ Knows(address, request'[r])
                     /\ \A q \in Requests \ {r} : request'[q] = Idle
    <2>1. request'[r].alone => b
      BY <1>3, AloneChanged
    <2>2. Knows(address, request'[r])
      BY <1>3, AloneChanged DEF Knows
    <2> QED
      BY <1>3, <1>4, <2>1, <2>2 DEF Alone
  <1> QED
    BY <1>1, <1>2, <1>5, <1>6, <1>7 DEF AccountInv, AloneIsAlone

\* What a request that goes on, commits or ends has to keep.
LEMMA AdvanceKeeps ==
  ASSUME AccountInv, NEW r \in Requests, request[r] # Idle, NEW t \in Request,
         Advance(r, t), t # Idle => t.alone = request[r].alone,
         address' \in [Ids -> Address], phone' \in Phones, taken' \subseteq Phones,
         changes' \in Nat, audits' \in Nat,
         \A i \in Ids : address[i].exists => address'[i].exists,
         AboutOwnRow(address', t), t # Idle /\ t.alone => Knows(address', t)
  PROVE  AccountInv'
  <1>0. request \in [Requests -> Request]
    BY DEF AccountInv, AccountTypeOK, Request
  <1>1. /\ request' \in [Requests -> Request] /\ request'[r] = t
        /\ \A q \in Requests \ {r} : request'[q] = request[q]
    BY <1>0 DEF Advance
  <1>2. AccountTypeOK'
    BY <1>1 DEF AccountTypeOK, Request
  <1>3. \A q \in Requests \ {r} : ~(Alone(q)')
    BY <1>1 DEF AccountInv, AloneIsAlone, Alone
  <1>4. Alone(r)' => Alone(r) /\ Knows(address', t)
    BY <1>1 DEF Alone
  <1>5. Alone(r) => \A q \in Requests \ {r} : request'[q] = Idle
    BY <1>1 DEF AccountInv, AloneIsAlone
  <1>6. ASSUME NEW q \in Requests
        PROVE  AboutOwnRow(address', request'[q])
    <2>1. CASE q = r
      BY <1>1, <2>1
    <2>2. CASE q # r
      <3>1. request'[q] = request[q] /\ request[q] \in Request
        BY <1>0, <1>1, <2>2
      <3>2. AboutOwnRow(address, request[q])
        BY DEF AccountInv
      <3> QED
        BY <3>1, <3>2, Kinds DEF AboutOwnRow, Saving, Removing
    <2> QED
      BY <2>1, <2>2
  <1> QED
    BY <1>1, <1>2, <1>3, <1>4, <1>5, <1>6 DEF AccountInv, AloneIsAlone

-----------------------------------------------------------------------------
\* The fields of a row.
LEMMA AddressFields ==
  ASSUME NEW a \in Address
  PROVE  /\ a.exists \in BOOLEAN /\ a.active \in BOOLEAN /\ a.default \in BOOLEAN
         /\ a.exists => a \in [exists : {TRUE}, active : BOOLEAN, default : BOOLEAN]
  BY DEF Address

\* The default flag can be taken from any row.
LEMMA UnflaggedRow ==
  ASSUME NEW a \in Address
  PROVE  LET b == [a EXCEPT !.default = FALSE]
         IN  /\ b \in Address /\ ~b.default
             /\ b.exists = a.exists /\ b.active = a.active
  BY DEF Address

\* Rows stay rows when flags are cleared, and keep all else.
LEMMA Cleared ==
  ASSUME AccountTypeOK, NEW ids \in SUBSET Ids
  PROVE  LET rows == WithoutDefault(address, ids)
         IN  /\ rows \in [Ids -> Address]
             /\ \A i \in Ids : /\ rows[i].exists = address[i].exists
                               /\ rows[i].active = address[i].active
                               /\ rows[i].default <=> address[i].default /\ i \notin ids
  <1> DEFINE rows == WithoutDefault(address, ids)
  <1>1. \A i \in Ids : rows[i] = IF i \in ids THEN [address[i] EXCEPT !.default = FALSE]
                                              ELSE address[i]
    BY DEF WithoutDefault
  <1>2. ASSUME NEW i \in Ids
        PROVE  /\ rows[i] \in Address
               /\ rows[i].exists = address[i].exists
               /\ rows[i].active = address[i].active
               /\ rows[i].default <=> address[i].default /\ i \notin ids
    <2>1. address[i] \in Address
      BY DEF AccountTypeOK
    <2> HIDE DEF rows
    <2>2. CASE i \in ids
      BY <1>1, <2>1, <2>2, UnflaggedRow
    <2>3. CASE i \notin ids
      BY <1>1, <2>1, <2>3
    <2> QED
      BY <2>2, <2>3
  <1> QED
    BY <1>2 DEF WithoutDefault

\* The form of an address is opened to be saved.
LEMMA BeginSaveKeeps ==
  ASSUME AccountInv, NEW r \in Requests, NEW id \in Ids \cup {New},
         NEW default \in BOOLEAN, BeginSave(r, id, default)
  PROVE  AccountInv'
  <1> DEFINE found == IF default THEN DefaultRows ELSE {}
             t == [op |-> IF found = {} THEN "write" ELSE "clear", id |-> id,
                   default |-> default, found |-> found, cleared |-> {}, alone |-> TRUE]
  <1>1. found \in SUBSET Ids /\ (default => found = Chosen) /\ (~default => found = {})
    BY DEF DefaultRows, Chosen
  <1>2. OpenRequest(r, t) /\ (id # New => Exists(id))
    BY DEF BeginSave
  <1> HIDE DEF found
  <1>3. t \in Saving
    BY <1>1 DEF Saving
  <1>4. t \in Request /\ t # Idle
    BY <1>3 DEF Request, Saving, Idle
  <1>5. AboutOwnRow(address, t)
    BY <1>2 DEF AboutOwnRow, Exists
  <1>6. Knows(address, t)
    BY <1>1 DEF Knows, ChosenIn, Chosen
  <1> QED
    BY <1>2, <1>4, <1>5, <1>6, OpenKeeps

\* A removal is opened.
LEMMA BeginRemoveKeeps ==
  ASSUME AccountInv, NEW r \in Requests, NEW id \in Ids, BeginRemove(r, id)
  PROVE  AccountInv'
  <1> DEFINE t == [op |-> "count", id |-> id, default |-> address[id].default,
                   alone |-> TRUE]
  <1>1. address[id].default \in BOOLEAN
    BY AddressFields DEF AccountInv, AccountTypeOK
  <1>2. t \in Request /\ t # Idle
    BY <1>1 DEF Request, Removing, Idle
  <1>3. AboutOwnRow(address, t) /\ OpenRequest(r, t)
    BY DEF BeginRemove, AboutOwnRow, Exists
  <1>4. Knows(address, t)
    BY DEF Knows
  <1> QED
    BY <1>2, <1>3, <1>4, OpenKeeps

\* A change of the profile is opened.
LEMMA BeginProfileKeeps ==
  ASSUME AccountInv, NEW r \in Requests, NEW new \in Phones, BeginProfile(r, new)
  PROVE  AccountInv'
  <1> DEFINE t == [op |-> "profile", phone |-> new, alone |-> TRUE]
  <1>1. t \in Request /\ t # Idle
    BY DEF Request, Profile, Idle
  <1>2. AboutOwnRow(address, t) /\ Knows(address, t) /\ OpenRequest(r, t)
    BY DEF BeginProfile, AboutOwnRow, Knows
  <1> QED
    BY <1>1, <1>2, OpenKeeps

\* While a request is alone no row is locked by another; the clearing update takes
\* its rows, and remembers those it cleared.
LEMMA ClearKeeps ==
  ASSUME AccountInv, NEW r \in Requests, Clear(r)
  PROVE  AccountInv'
  <1>1. request[r] \in Request /\ request[r].op = "clear"
    BY DEF Clear, AccountInv, AccountTypeOK, Request
  <1>2. request[r] \in Saving /\ request[r] # Idle
    BY <1>1, Kinds
  <1>3. PICK i \in request[r].found :
          Advance(r, [request[r] EXCEPT
                        !.op = IF request[r].found \ {i} = {} THEN "write" ELSE "clear",
                        !.found = request[r].found \ {i},
                        !.cleared = @ \cup ({i} \cap Chosen)])
    BY DEF Clear
  <1> DEFINE left == request[r].found \ {i}
             cleared == request[r].cleared \cup ({i} \cap Chosen)
             t == [request[r] EXCEPT !.op = IF left = {} THEN "write" ELSE "clear",
                                     !.found = left, !.cleared = cleared]
  <1>4. Advance(r, t)
    BY <1>2, <1>3 DEF Saving
  <1>5. left \in SUBSET Ids /\ cleared \in SUBSET Ids
    BY <1>2 DEF Saving, Chosen
  <1>6. /\ t \in Saving /\ t.id = request[r].id /\ t.default = request[r].default
        /\ t.found = left /\ t.cleared = cleared /\ t.alone = request[r].alone
        /\ t.op = IF left = {} THEN "write" ELSE "clear"
    BY <1>2, <1>5 DEF Saving
  <1> HIDE DEF t
  <1>7. t \in Request
    BY <1>6 DEF Request
  <1>8. AboutOwnRow(address, t)
    BY <1>1, <1>6 DEF AccountInv, AboutOwnRow
  <1>9. t # Idle /\ t.alone => Knows(address, t)
    <2> SUFFICES ASSUME t.alone
                 PROVE  Knows(address, t)
      OBVIOUS
    <2>1. Knows(address, request[r])
      BY <1>2, <1>6 DEF AccountInv, Alone
    <2>2. IF request[r].default
            THEN ChosenIn(address) \subseteq request[r].found \cup request[r].cleared
            ELSE request[r].found = {}
      BY <1>1, <2>1 DEF Knows
    <2>3. request[r].default /\ ChosenIn(address) = Chosen
      BY <2>2, <1>3 DEF ChosenIn, Chosen
    <2>4. ChosenIn(address) \subseteq left \cup cleared
      BY <2>2, <2>3
    <2> QED
      BY <1>6, <2>3, <2>4 DEF Knows
  <1>10. UNCHANGED <<address, phone, taken, changes, audits>>
    BY DEF Clear
  <1> QED
    BY <1>2, <1>4, <1>6, <1>7, <1>8, <1>9, <1>10, AdvanceKeeps
       DEF AccountInv, AccountTypeOK

\* The addresses are counted before one is added.
LEMMA CountActiveKeeps ==
  ASSUME AccountInv, NEW r \in Requests, CountActive(r)
  PROVE  AccountInv'
  <1>1. request[r] \in Request /\ request[r].op = "write"
    BY DEF CountActive, AccountInv, AccountTypeOK, Request
  <1>2. request[r] \in Saving /\ request[r] # Idle
    BY <1>1, Kinds
  <1>3. PICK d \in BOOLEAN : d <=> request[r].default \/ Active = {}
    <2>1. (request[r].default \/ Active = {}) \in BOOLEAN
      OBVIOUS
    <2> QED
      BY <2>1
  <1> DEFINE t == [op |-> "create", default |-> d, cleared |-> request[r].cleared,
                   alone |-> request[r].alone]
  <1>4. Advance(r, t)
    <2>1. d = (request[r].default \/ Active = {})
      BY <1>3
    <2> QED
      BY <2>1 DEF CountActive
  <1>5. t \in Creating
    BY <1>2 DEF Saving, Creating
  <1>6. t \in Request /\ t # Idle
    BY <1>5 DEF Request, Creating, Idle
  <1>7. AboutOwnRow(address, t)
    BY DEF AboutOwnRow
  <1>8. t.alone => Knows(address, t)
    <2> SUFFICES ASSUME t.alone
                 PROVE  Knows(address, t)
      OBVIOUS
    <2>1. Knows(address, request[r])
      BY <1>2 DEF AccountInv, Alone
    <2>2. IF request[r].default THEN ChosenIn(address) \subseteq request[r].cleared
                                ELSE request[r].cleared = {}
      BY <1>1, <2>1 DEF Knows
    <2>3. ActiveIn(address) = Active
      BY DEF ActiveIn, Active
    <2> QED
      BY <1>3, <2>2, <2>3 DEF Knows
  <1>9. UNCHANGED <<address, phone, taken, changes, audits>>
    BY DEF CountActive
  <1> HIDE DEF t
  <1>10. t.alone = request[r].alone
    BY DEF t
  <1> QED
    BY <1>2, <1>4, <1>6, <1>7, <1>8, <1>9, <1>10, AdvanceKeeps
       DEF AccountInv, AccountTypeOK

\* A commit leaves the request with its audit row to write.
LEMMA CommitKeeps ==
  ASSUME AccountInv, NEW r \in Requests, request[r] # Idle,
         NEW rows \in [Ids -> Address], CommitRows(r, rows),
         \A i \in Ids : address[i].exists => rows[i].exists
  PROVE  AccountInv'
  <1> DEFINE t == [op |-> "audit", alone |-> request[r].alone]
  <1>1. request[r] \in Request
    BY DEF AccountInv, AccountTypeOK, Request
  <1>2. request[r].alone \in BOOLEAN
    BY <1>1 DEF Request, Saving, Creating, Removing, Profile, Auditing
  <1>3. t \in Request /\ AboutOwnRow(rows, t) /\ Knows(rows, t)
    BY <1>2 DEF Request, Auditing, AboutOwnRow, Knows
  <1>4. Advance(r, t) /\ address' = rows /\ UNCHANGED <<phone, taken, audits>>
    BY DEF CommitRows
  <1>5. changes' \in Nat
    BY DEF CommitRows, AccountInv, AccountTypeOK
  <1> QED
    BY <1>3, <1>4, <1>5, AdvanceKeeps DEF AccountInv, AccountTypeOK

\* The address that SaveEdit writes, and all the others.
LEMMA SavedEdit ==
  ASSUME AccountInv, NEW r \in Requests, SaveEdit(r)
  PROVE  /\ request[r] \in Saving /\ request[r].op = "write" /\ request[r] # Idle
         /\ request[r].id \in Ids /\ request[r].cleared \in SUBSET Ids
         /\ CommitRows(r, address')
         /\ address' \in [Ids -> Address]
         /\ \A i \in Ids :
              /\ address'[i].exists = address[i].exists
              /\ address'[i].active = address[i].active
              /\ address'[i].default <=>
                   IF i = request[r].id THEN request[r].default
                   ELSE address[i].default /\ i \notin request[r].cleared
  <1> DEFINE t == request[r]
             kept == WithoutDefault(address, t.cleared)
  <1>1. t \in Request /\ t.op = "write" /\ t.id # New
    BY DEF SaveEdit, AccountInv, AccountTypeOK, Request
  <1>2. t \in Saving /\ t # Idle
    BY <1>1, Kinds
  <1>3. t.id \in Ids /\ t.cleared \in SUBSET Ids /\ t.default \in BOOLEAN
    BY <1>1, <1>2 DEF Saving
  <1>4. /\ kept \in [Ids -> Address]
        /\ \A i \in Ids : /\ kept[i].exists = address[i].exists
                          /\ kept[i].active = address[i].active
                          /\ kept[i].default <=> address[i].default /\ i \notin t.cleared
    BY <1>3, Cleared DEF AccountInv
  <1>5. kept[t.id] \in [exists : {TRUE}, active : BOOLEAN, default : BOOLEAN]
    <2>1. address[t.id].exists
      BY <1>1 DEF AccountInv, AboutOwnRow
    <2> HIDE DEF kept
    <2> QED
      BY <1>3, <1>4, <2>1, AddressFields
  <1> DEFINE saved == Edited(kept[t.id], t.default)
  <1>6. /\ saved \in Address /\ saved.exists = kept[t.id].exists
        /\ saved.active = kept[t.id].active /\ saved.default = t.default
    <2> HIDE DEF kept
    <2> QED
      BY <1>3, <1>5 DEF Edited, Address
  <1>7. CommitRows(r, [kept EXCEPT ![t.id] = saved])
    BY <1>3, <1>4 DEF SaveEdit
  <1>8. address' = [kept EXCEPT ![t.id] = saved]
    BY <1>7 DEF CommitRows
  <1> HIDE DEF kept, saved
  <1> QED
    BY <1>1, <1>2, <1>3, <1>4, <1>6, <1>7, <1>8

\* The address that SaveNew adds.
LEMMA SavedNew ==
  ASSUME AccountInv, NEW r \in Requests, SaveNew(r)
  PROVE  /\ request[r] \in Creating /\ request[r].op = "create" /\ request[r] # Idle
         /\ CommitRows(r, address')
         /\ address' \in [Ids -> Address]
         /\ \E added \in Ids :
              /\ ~address[added].exists
              /\ address'[added].exists /\ address'[added].active
              /\ address'[added].default = request[r].default
              /\ \A i \in Ids \ {added} :
                   /\ address'[i].exists = address[i].exists
                   /\ address'[i].active = address[i].active
                   /\ address'[i].default <=>
                        address[i].default /\ i \notin request[r].cleared
  <1> DEFINE t == request[r]
             kept == WithoutDefault(address, t.cleared)
             new == [exists |-> TRUE, active |-> TRUE, default |-> t.default]
  <1>1. t \in Request /\ t.op = "create"
    BY DEF SaveNew, AccountInv, AccountTypeOK, Request
  <1>2. t \in Creating /\ t # Idle
    BY <1>1, Kinds
  <1>3. t.cleared \in SUBSET Ids /\ t.default \in BOOLEAN
    BY <1>2 DEF Creating
  <1>4. /\ kept \in [Ids -> Address]
        /\ \A i \in Ids : /\ kept[i].exists = address[i].exists
                          /\ kept[i].active = address[i].active
                          /\ kept[i].default <=> address[i].default /\ i \notin t.cleared
    BY <1>3, Cleared DEF AccountInv
  <1>5. PICK added \in Ids : /\ ~address[added].exists
                             /\ CommitRows(r, [kept EXCEPT ![added] = new])
    BY DEF SaveNew
  <1>6. new \in Address /\ new.exists /\ new.active /\ new.default = t.default
    BY <1>3 DEF Address
  <1>7. address' = [kept EXCEPT ![added] = new]
    BY <1>5 DEF CommitRows
  <1> HIDE DEF kept, new
  <1> QED
    BY <1>1, <1>2, <1>4, <1>5, <1>6, <1>7

\* The address that Remove takes away.
LEMMA Removed ==
  ASSUME AccountInv, NEW r \in Requests, Remove(r)
  PROVE  /\ request[r] \in Removing /\ request[r].op = "remove" /\ request[r] # Idle
         /\ CommitRows(r, address')
         /\ address' \in [Ids -> Address]
         /\ \A i \in Ids :
              /\ address'[i].exists = address[i].exists
              /\ address'[i].active <=> address[i].active /\ i # request[r].id
              /\ address'[i].default <=> address[i].default /\ i # request[r].id
  <1> DEFINE t == request[r]
             gone == [address[t.id] EXCEPT !.active = FALSE, !.default = FALSE]
  <1>1. t \in Request /\ t.op = "remove"
    BY DEF Remove, AccountInv, AccountTypeOK, Request
  <1>2. t \in Removing /\ t # Idle
    BY <1>1, Kinds
  <1>3. t.id \in Ids /\ address[t.id].exists
    BY <1>1, <1>2 DEF Removing, AccountInv, AboutOwnRow
  <1>4. address \in [Ids -> Address]
    BY DEF AccountInv, AccountTypeOK
  <1>5. address[t.id] \in [exists : {TRUE}, active : BOOLEAN, default : BOOLEAN]
    BY <1>3, <1>4, AddressFields
  <1>6. /\ gone \in Address /\ gone.exists = address[t.id].exists
        /\ ~gone.active /\ ~gone.default
    BY <1>5 DEF Address
  <1>7. CommitRows(r, [address EXCEPT ![t.id] = gone])
    <2>1. [address EXCEPT ![t.id].active = FALSE, ![t.id].default = FALSE]
            = [address EXCEPT ![t.id] = gone]
      BY <1>3, <1>4, <1>5
    <2> QED
      BY <2>1 DEF Remove
  <1>8. address' = [address EXCEPT ![t.id] = gone]
    BY <1>7 DEF CommitRows
  <1> HIDE DEF gone
  <1> QED
    BY <1>1, <1>2, <1>3, <1>4, <1>6, <1>7, <1>8

-----------------------------------------------------------------------------
\* The three commits of addresses.
LEMMA AddressCommitsKeep ==
  ASSUME AccountInv, NEW r \in Requests, SaveEdit(r) \/ SaveNew(r) \/ Remove(r)
  PROVE  AccountInv'
  <1>1. CASE SaveEdit(r)
    BY <1>1, SavedEdit, CommitKeeps
  <1>2. CASE SaveNew(r)
    <2>1. /\ request[r] # Idle /\ CommitRows(r, address') /\ address' \in [Ids -> Address]
          /\ \A i \in Ids : address[i].exists => address'[i].exists
      BY <1>2, SavedNew
    <2> QED
      BY <2>1, CommitKeeps
  <1>3. CASE Remove(r)
    BY <1>3, Removed, CommitKeeps
  <1> QED
    BY <1>1, <1>2, <1>3

\* The other addresses are counted before one is removed.
LEMMA CountRemainingKeeps ==
  ASSUME AccountInv, NEW r \in Requests, CountRemaining(r)
  PROVE  AccountInv'
  <1> DEFINE t == request[r]
             next == [t EXCEPT !.op = "remove"]
  <1>1. t \in Request /\ t.op = "count"
    BY DEF CountRemaining, AccountInv, AccountTypeOK, Request
  <1>2. t \in Removing /\ t # Idle
    BY <1>1, Kinds
  <1>3. UNCHANGED <<address, phone, taken, changes, audits>>
    BY DEF CountRemaining
  <1>4. CASE MayRemove(t.id, t.default)
    <2>1. Advance(r, next)
      BY <1>4 DEF CountRemaining
    <2>2. /\ next \in Removing /\ next.id = t.id /\ next.default = t.default
          /\ next.alone = t.alone /\ next.op = "remove"
      BY <1>2 DEF Removing
    <2>3. next \in Request
      BY <2>2 DEF Request
    <2>4. AboutOwnRow(address, next)
      BY <1>1, <2>2 DEF AccountInv, AboutOwnRow
    <2>5. next.alone => Knows(address, next)
      BY <1>1, <1>2, <1>4, <2>2
         DEF AccountInv, Alone, Knows, MayRemove, Active, ActiveIn
    <2> HIDE DEF next
    <2> QED
      BY <1>2, <1>3, <2>1, <2>2, <2>3, <2>4, <2>5, AdvanceKeeps
         DEF AccountInv, AccountTypeOK
  <1>5. CASE ~MayRemove(t.id, t.default)
    <2>1. Advance(r, Idle)
      BY <1>5 DEF CountRemaining
    <2>2. Idle \in Request /\ AboutOwnRow(address, Idle)
      BY DEF Request, AboutOwnRow, Idle
    <2> QED
      BY <1>2, <1>3, <2>1, <2>2, AdvanceKeeps DEF AccountInv, AccountTypeOK
  <1> QED
    BY <1>4, <1>5

\* A request that ends, with its audit row, with its profile or with nothing.
LEMMA EndKeepsAccount ==
  ASSUME AccountInv, NEW r \in Requests, Audit(r) \/ SaveProfile(r) \/ Abort(r)
  PROVE  AccountInv'
  <1>1. request[r] \in Request
    BY DEF AccountInv, AccountTypeOK, Request
  <1>2. /\ request[r] # Idle /\ Advance(r, Idle)
        /\ address' = address /\ taken' = taken
    BY <1>1, Kinds DEF Audit, SaveProfile, Abort
  <1>3. phone' \in Phones
    BY <1>1, Kinds
       DEF Audit, SaveProfile, Abort, AccountInv, AccountTypeOK, Profile
  <1>4. changes' \in Nat /\ audits' \in Nat
    BY DEF Audit, SaveProfile, Abort, AccountInv, AccountTypeOK
  <1>5. Idle \in Request /\ AboutOwnRow(address', Idle)
    BY DEF Request, AboutOwnRow, Idle
  <1> QED
    BY <1>2, <1>3, <1>4, <1>5, AdvanceKeeps DEF AccountInv, AccountTypeOK

\* The invariant is inductive.
LEMMA AccountStep ==
  ASSUME AccountInv, [AccountNext]_accountVars
  PROVE  AccountInv'
  <1>1. ASSUME NEW new \in Phones, OthersTake(new)
        PROVE  AccountInv'
    BY <1>1 DEF OthersTake, AccountInv, AccountTypeOK, AloneIsAlone, Alone
  <1>2. CASE UNCHANGED accountVars
    BY <1>2 DEF accountVars, AccountInv, AccountTypeOK, AloneIsAlone, Alone
  <1>3. ASSUME NEW r \in Requests,
               \/ \E id \in Ids \cup {New}, default \in BOOLEAN : BeginSave(r, id, default)
               \/ \E id \in Ids : BeginRemove(r, id)
               \/ \E new \in Phones : BeginProfile(r, new)
        PROVE  AccountInv'
    BY <1>3, BeginSaveKeeps, BeginRemoveKeeps, BeginProfileKeeps
  <1>4. ASSUME NEW r \in Requests,
               \/ Clear(r) \/ CountActive(r) \/ CountRemaining(r)
               \/ SaveEdit(r) \/ SaveNew(r) \/ Remove(r)
               \/ Audit(r) \/ SaveProfile(r) \/ Abort(r)
        PROVE  AccountInv'
    BY <1>4, ClearKeeps, CountActiveKeeps, CountRemainingKeeps, AddressCommitsKeep,
       EndKeepsAccount
  <1> QED
    BY <1>1, <1>2, <1>3, <1>4 DEF AccountNext

\* It holds at the start.
LEMMA AccountStart ==
  ASSUME AccountInit
  PROVE  AccountInv
  <1>1. AccountTypeOK
    BY AccountAssumption DEF AccountInit, AccountTypeOK, Address, NoAddress
  <1>2. \A r \in Requests : request[r] = Idle /\ AboutOwnRow(address, Idle)
    BY DEF AccountInit, AboutOwnRow, Idle
  <1> QED
    BY <1>1, <1>2 DEF AccountInv, AloneIsAlone, Alone

-----------------------------------------------------------------------------
\* Only three actions commit a change of the addresses.
LEMMA Committing ==
  ASSUME AccountInv, [AccountNext]_accountVars, NEW r \in Requests, Commits(r)
  PROVE  SaveEdit(r) \/ SaveNew(r) \/ Remove(r)
  <1>0. AccountTypeOK /\ request \in [Requests -> Request]
    BY DEF AccountInv, AccountTypeOK, Request
  <1>1. ASSUME NEW q \in Requests, NEW t \in Request, t # Idle, t.op # "audit",
               OpenRequest(q, t)
        PROVE  FALSE
    <2>1. CASE q = r
      <3>1. PICK b \in BOOLEAN : request'[r] = [t EXCEPT !.alone = b]
        BY <1>0, <1>1, <2>1, Opened
      <3>2. request'[r].op = t.op
        BY <1>1, <3>1, AloneChanged
      <3> QED
        BY <1>1, <3>2 DEF Commits
    <2>2. CASE q # r
      <3>1. request[r] \in Request
        BY <1>0
      <3>2. CASE request[r] = Idle
        <4>1. request'[r] = request[r]
          BY <1>0, <1>1, <2>2, <3>2, Opened
        <4> QED
          BY <4>1 DEF Commits
      <3>3. CASE request[r] # Idle
        <4>1. request'[r] = [request[r] EXCEPT !.alone = FALSE]
          BY <1>0, <1>1, <2>2, <3>3, Opened
        <4>2. request'[r].op = request[r].op
          BY <3>1, <3>3, <4>1, AloneChanged
        <4> QED
          BY <4>2 DEF Commits
      <3> QED
        BY <3>2, <3>3
    <2> QED
      BY <2>1, <2>2
  <1>2. ASSUME NEW q \in Requests, NEW t, Advance(q, t), q # r \/ t.op # "audit"
        PROVE  FALSE
    BY <1>0, <1>2 DEF Advance, Commits
  <1>3. ASSUME NEW q \in Requests, NEW id \in Ids \cup {New}, NEW default \in BOOLEAN,
               BeginSave(q, id, default)
        PROVE  FALSE
    <2> DEFINE found == IF default THEN DefaultRows ELSE {}
               t == [op |-> IF found = {} THEN "write" ELSE "clear", id |-> id,
                     default |-> default, found |-> found, cleared |-> {},
                     alone |-> TRUE]
    <2>1. OpenRequest(q, t)
      BY <1>3 DEF BeginSave
    <2>2. found \in SUBSET Ids
      BY DEF DefaultRows, Chosen
    <2> HIDE DEF found
    <2>3. t \in Request /\ t # Idle /\ t.op # "audit"
      BY <2>2 DEF Request, Saving, Idle
    <2> QED
      BY <1>1, <2>1, <2>3
  <1>4. ASSUME NEW q \in Requests, NEW id \in Ids, BeginRemove(q, id)
        PROVE  FALSE
    <2> DEFINE t == [op |-> "count", id |-> id, default |-> address[id].default,
                     alone |-> TRUE]
    <2>1. address[id].default \in BOOLEAN
      BY <1>0, AddressFields DEF AccountTypeOK
    <2>2. t \in Request /\ t # Idle /\ t.op # "audit" /\ OpenRequest(q, t)
      BY <1>4, <2>1 DEF BeginRemove, Request, Removing, Idle
    <2> QED
      BY <1>1, <2>2
  <1>5. ASSUME NEW q \in Requests, NEW new \in Phones, BeginProfile(q, new)
        PROVE  FALSE
    <2> DEFINE t == [op |-> "profile", phone |-> new, alone |-> TRUE]
    <2>1. t \in Request /\ t # Idle /\ t.op # "audit" /\ OpenRequest(q, t)
      BY <1>5 DEF BeginProfile, Request, Profile, Idle
    <2> QED
      BY <1>1, <2>1
  <1>6. ASSUME NEW q \in Requests, Clear(q)
        PROVE  FALSE
    <2>1. request[q] \in Saving
      BY <1>0, <1>6, Kinds DEF Clear
    <2>2. PICK op \in {"write", "clear"}, found \in SUBSET Ids, cleared \in SUBSET Ids :
            Advance(q, [request[q] EXCEPT !.op = op, !.found = found,
                                          !.cleared = cleared])
      BY <1>6, <2>1 DEF Clear, Saving, Chosen
    <2>3. [request[q] EXCEPT !.op = op, !.found = found, !.cleared = cleared].op = op
      BY <2>1 DEF Saving
    <2> QED
      BY <1>2, <2>2, <2>3
  <1>7. ASSUME NEW q \in Requests, CountActive(q)
        PROVE  FALSE
    BY <1>2, <1>7 DEF CountActive
  <1>8. ASSUME NEW q \in Requests, CountRemaining(q)
        PROVE  FALSE
    <2>1. request[q] \in Removing
      BY <1>0, <1>8, Kinds DEF CountRemaining
    <2>2. [request[q] EXCEPT !.op = "remove"].op = "remove" /\ Idle.op = "idle"
      BY <2>1 DEF Removing, Idle
    <2>3. \/ Advance(q, [request[q] EXCEPT !.op = "remove"])
          \/ Advance(q, Idle)
      BY <1>8 DEF CountRemaining
    <2> QED
      BY <1>2, <2>2, <2>3
  <1>9. ASSUME NEW q \in Requests, Audit(q) \/ SaveProfile(q) \/ Abort(q)
        PROVE  FALSE
    <2>1. Advance(q, Idle) /\ Idle.op # "audit"
      BY <1>9 DEF Audit, SaveProfile, Abort, Idle
    <2> QED
      BY <1>2, <2>1
  <1>10. ASSUME NEW q \in Requests, q # r, SaveEdit(q) \/ SaveNew(q) \/ Remove(q)
         PROVE  FALSE
    <2>1. PICK t : Advance(q, t)
      BY <1>10 DEF SaveEdit, SaveNew, Remove, CommitRows
    <2> QED
      BY <1>2, <1>10, <2>1
  <1>11. ASSUME NEW new \in Phones, OthersTake(new)
         PROVE  FALSE
    BY <1>11 DEF OthersTake, Commits
  <1>12. CASE UNCHANGED accountVars
    BY <1>12 DEF accountVars, Commits
  <1> QED
    BY <1>3, <1>4, <1>5, <1>6, <1>7, <1>8, <1>9, <1>10, <1>11, <1>12 DEF AccountNext

\* A request that is alone and saves a default has cleared all the others.
LEMMA ChosenAlone ==
  ASSUME AccountInv, NEW r \in Requests, SaveEdit(r), Alone(r), request[r].default
  PROVE  \A i \in Ids : address'[i].default <=> i = request[r].id
  <1>1. /\ request[r].op = "write" /\ request[r].id \in Ids
        /\ \A i \in Ids : address'[i].default <=>
             IF i = request[r].id THEN request[r].default
             ELSE address[i].default /\ i \notin request[r].cleared
    BY SavedEdit
  <1>2. ChosenIn(address) \subseteq request[r].cleared
    BY <1>1 DEF AccountInv, Alone, Knows
  <1> QED
    BY <1>1, <1>2 DEF ChosenIn

\* The next state has one default when its one active default is known.
LEMMA OneDefaultNext ==
  ASSUME NEW i \in Ids, Active' \cap Chosen' = {i}
  PROVE  OneDefaultOrNone'
  <1>1. Cardinality(Active' \cap Chosen') = 1
    BY FS_Singleton
  <1> QED
    BY <1>1 DEF OneDefaultOrNone

\* A careful request that is alone saves an address that is active.
LEMMA EditKeepsOneDefault ==
  ASSUME AccountInv, NEW r \in Requests, SaveEdit(r), Alone(r),
         request[r].default, request[r].id \in Active
  PROVE  OneDefaultOrNone'
  <1>1. \A i \in Ids : address'[i].default <=> i = request[r].id
    BY ChosenAlone
  <1>2. \A i \in Ids : address'[i].active = address[i].active
    BY SavedEdit
  <1>3. Active' \cap Chosen' = {request[r].id} /\ request[r].id \in Ids
    BY <1>1, <1>2 DEF Active, Chosen
  <1> QED
    BY <1>3, OneDefaultNext

\* A new address is the default if the form says so or if it is the only one.
LEMMA NewKeepsOneDefault ==
  ASSUME AccountInv, NEW r \in Requests, SaveNew(r), Alone(r), OneDefaultOrNone
  PROVE  OneDefaultOrNone'
  <1> DEFINE t == request[r]
  <1>1. t \in Creating /\ t.op = "create"
    BY SavedNew
  <1>2. PICK added \in Ids :
          /\ ~address[added].exists
          /\ address'[added].active /\ address'[added].default = t.default
          /\ \A i \in Ids \ {added} :
               /\ address'[i].active = address[i].active
               /\ address'[i].default <=> address[i].default /\ i \notin t.cleared
    BY SavedNew
  <1>3. ~address[added].active /\ ~address[added].default
    BY <1>2, AddressFields DEF AccountInv, AccountTypeOK, Address
  <1>4. \/ t.default /\ (ChosenIn(address) \subseteq t.cleared \/ ActiveIn(address) = {})
        \/ ~t.default /\ t.cleared = {} /\ ActiveIn(address) # {}
    BY <1>1 DEF AccountInv, Alone, Knows
  <1>5. CASE t.default
    <2>1. Active' \cap Chosen' = {added}
      BY <1>2, <1>4, <1>5 DEF Active, Chosen, ActiveIn, ChosenIn
    <2> QED
      BY <2>1, OneDefaultNext
  <1>6. CASE ~t.default
    <2>1. Active # {} /\ Cardinality(Active \cap Chosen) = 1
      BY <1>4, <1>6 DEF OneDefaultOrNone, Active, ActiveIn
    <2>2. Active' \cap Chosen' = Active \cap Chosen
      BY <1>2, <1>3, <1>4, <1>6 DEF Active, Chosen
    <2> QED
      BY <2>1, <2>2 DEF OneDefaultOrNone
  <1> QED
    BY <1>5, <1>6

\* The default address is only removed as the last one.
LEMMA RemovalKeepsOneDefault ==
  ASSUME AccountInv, NEW r \in Requests, Remove(r), Alone(r), OneDefaultOrNone
  PROVE  OneDefaultOrNone'
  <1> DEFINE t == request[r]
  <1>1. /\ t \in Removing /\ t.op = "remove"
        /\ \A i \in Ids : /\ address'[i].active <=> address[i].active /\ i # t.id
                          /\ address'[i].default <=> address[i].default /\ i # t.id
    BY Removed
  <1>2. /\ t.default = address[t.id].default
        /\ t.default => ActiveIn(address) \ {t.id} = {}
    BY <1>1 DEF AccountInv, Alone, Knows
  <1>3. Active' = Active \ {t.id}
    BY <1>1 DEF Active
  <1>4. CASE t.default
    <2>1. Active' = {}
      BY <1>2, <1>3, <1>4 DEF Active, ActiveIn
    <2> QED
      BY <2>1 DEF OneDefaultOrNone
  <1>5. CASE ~t.default
    <2>1. Active' \cap Chosen' = Active \cap Chosen
      BY <1>1, <1>2, <1>3, <1>5 DEF Active, Chosen
    <2>2. Active = {} => Active' = {}
      BY <1>3
    <2> QED
      BY <2>1, <2>2 DEF OneDefaultOrNone
  <1> QED
    BY <1>4, <1>5

\* No step makes a removed address active.
LEMMA StaysRemoved ==
  ASSUME AccountInv, [AccountNext]_accountVars, NEW i \in Ids,
         address[i].exists, ~address[i].active
  PROVE  ~address'[i].active
  <1>1. ASSUME NEW r \in Requests, SaveEdit(r)
        PROVE  ~address'[i].active
    BY <1>1, SavedEdit
  <1>2. ASSUME NEW r \in Requests, SaveNew(r)
        PROVE  ~address'[i].active
    BY <1>2, SavedNew
  <1>3. ASSUME NEW r \in Requests, Remove(r)
        PROVE  ~address'[i].active
    BY <1>3, Removed
  <1>4. CASE address' = address
    BY <1>4
  <1> QED
    BY <1>1, <1>2, <1>3, <1>4
       DEF AccountNext, BeginSave, Clear, CountActive, BeginRemove, CountRemaining,
           Audit, BeginProfile, SaveProfile, Abort, OthersTake, OpenRequest, accountVars

-----------------------------------------------------------------------------
\* Types of the rows and of the requests of src/services/customer/account.ts.
THEOREM AccountTypeCorrect == AccountSpec => []AccountTypeOK
  <1>1. AccountInv => AccountTypeOK
    BY DEF AccountInv
  <1> QED
    BY <1>1, AccountStart, AccountStep, PTL DEF AccountSpec

\* upsertCustomerAddress, while no other request of the customer is open, leaves
\* the address it marks as the default the only one that is.
THEOREM ChosenIsAlone == AccountSpec => ChosenIsOnlyDefault
  <1> DEFINE A == \A r \in Requests :
                    LET t == request[r]
                    IN  Commits(r) /\ t.op = "write" /\ t.default /\ t.alone =>
                          \A i \in Ids : address'[i].default <=> i = t.id
  <1>1. ASSUME AccountInv, [AccountNext]_accountVars
        PROVE  A
    <2> SUFFICES ASSUME NEW r \in Requests, Commits(r), request[r].op = "write",
                        request[r].default, request[r].alone
                 PROVE  \A i \in Ids : address'[i].default <=> i = request[r].id
      OBVIOUS
    <2>1. SaveEdit(r)
      BY <1>1, Committing DEF SaveNew, Remove
    <2>2. Alone(r)
      BY DEF Alone, Idle
    <2> QED
      BY <1>1, <2>1, <2>2, ChosenAlone
  <1> QED
    BY <1>1, AccountStart, AccountStep, PTL DEF AccountSpec, ChosenIsOnlyDefault

\* Adding, choosing and removing addresses one request at a time, an account that
\* has addresses keeps exactly one default.
THEOREM OneDefaultIsKept == AccountSpec => AloneKeepsOneDefault
  <1> DEFINE A == \A r \in Requests :
                    LET t == request[r]
                        careful == t.op = "write" => t.default /\ t.id \in Active
                    IN  Commits(r) /\ t.alone /\ careful /\ OneDefaultOrNone =>
                          OneDefaultOrNone'
  <1>1. ASSUME AccountInv, [AccountNext]_accountVars
        PROVE  A
    <2> SUFFICES ASSUME NEW r \in Requests, Commits(r), request[r].alone,
                        request[r].op = "write" =>
                          request[r].default /\ request[r].id \in Active,
                        OneDefaultOrNone
                 PROVE  OneDefaultOrNone'
      OBVIOUS
    <2>1. SaveEdit(r) \/ SaveNew(r) \/ Remove(r)
      BY <1>1, Committing
    <2>2. CASE SaveEdit(r)
      <3>1. request[r].op = "write" /\ Alone(r)
        BY <1>1, <2>2, SavedEdit DEF Alone
      <3> QED
        BY <1>1, <2>2, <3>1, EditKeepsOneDefault
    <2>3. CASE SaveNew(r)
      <3>1. Alone(r)
        BY <1>1, <2>3, SavedNew DEF Alone
      <3> QED
        BY <1>1, <2>3, <3>1, NewKeepsOneDefault
    <2>4. CASE Remove(r)
      <3>1. Alone(r)
        BY <1>1, <2>4, Removed DEF Alone
      <3> QED
        BY <1>1, <2>4, <3>1, RemovalKeepsOneDefault
    <2> QED
      BY <2>1, <2>2, <2>3, <2>4
  <1> QED
    BY <1>1, AccountStart, AccountStep, PTL DEF AccountSpec, AloneKeepsOneDefault

\* deactivateCustomerAddress is final: an edit that overlaps it, or comes from an
\* old page, does not bring the address back.
THEOREM RemovalIsFinal == AccountSpec => RemovedStaysRemoved
  <1> DEFINE A == \A i \in Ids : address[i].exists /\ ~address[i].active =>
                                   ~address'[i].active
  <1>1. ASSUME AccountInv, [AccountNext]_accountVars
        PROVE  A
    BY <1>1, StaysRemoved
  <1> QED
    BY <1>1, AccountStart, AccountStep, PTL DEF AccountSpec, RemovedStaysRemoved

-----------------------------------------------------------------------------
(* Settings: what a text becomes when it is stored and read, and whose row *)
(* an audit entry names.                                                   *)

SettingTypes == {"NUMBER", "BOOLEAN", "STRING", "DECIMAL", "JSON"}

\* The type of a setting, and of its default, is one of the five.
LEMMA DefaultsTyped ==
  ASSUME NEW k \in SettingKeys
  PROVE  /\ Defaults[k].type \in SettingTypes
         /\ HasType(Defaults[k].value, Defaults[k].type)
  <1>1. \/ \E n : Defaults[k] = Default("NUMBER", Num(n))
        \/ \E s : Defaults[k] = Default("STRING", Str(s))
        \/ \E s : Defaults[k] = Default("DECIMAL", Str(s))
        \/ \E b : Defaults[k] = Default("BOOLEAN", Bool(b))
        \/ \E a : Defaults[k] = Default("JSON", Arr(a))
    BY DEF Defaults, SettingKeys
  <1>2. ASSUME NEW x PROVE HasType(Num(x), "NUMBER")
    BY DEF HasType, Num
  <1>3. ASSUME NEW x PROVE HasType(Str(x), "STRING") /\ HasType(Str(x), "DECIMAL")
    BY DEF HasType, Str
  <1>4. ASSUME NEW x PROVE HasType(Bool(x), "BOOLEAN")
    BY DEF HasType, Bool
  <1>5. ASSUME NEW x PROVE HasType(Arr(x), "JSON")
    BY DEF HasType, Arr
  <1>6. ASSUME NEW v, NEW type \in SettingTypes, HasType(v, type),
               Defaults[k] = Default(type, v)
        PROVE  /\ Defaults[k].type \in SettingTypes
               /\ HasType(Defaults[k].value, Defaults[k].type)
    BY <1>6 DEF Default
  <1>7. SettingTypes = {"NUMBER", "BOOLEAN", "STRING", "DECIMAL", "JSON"}
    BY DEF SettingTypes
  <1> QED
    BY <1>1, <1>2, <1>3, <1>4, <1>5, <1>6, <1>7

\* A text that is a number stays the same number without the blanks around it.
LEMMA Trimmed ==
  ASSUME NEW text \in Texts
  PROVE  Trim(Trim(text)) = Trim(text) /\ NumberOf(Trim(text)) = NumberOf(text)
  BY DEF Texts, Trim, NumberOf

\* What can become of a text as a number.
LEMMA Numbers ==
  ASSUME NEW text
  PROVE  NumberOf(text) \in {Num(0), Num(5), Num(7), Infinite, None}
  BY DEF NumberOf

\* A text that is JSON is of one of four kinds.
LEMMA Jsons ==
  ASSUME NEW text, JsonOf(text) # None
  PROVE  JsonOf(text)[1] \in {"number", "boolean", "string", "array"}
  BY DEF JsonOf, Num, Str, Bool, Arr, None

\* What is stored has the type of the setting.
LEMMA Parsed ==
  ASSUME NEW text \in Texts, NEW type \in SettingTypes,
         ParseSettingValue(text, type) # None
  PROVE  HasType(ParseSettingValue(text, type), type)
  <1> DEFINE value == ParseSettingValue(text, type)
  <1>1. CASE type = "NUMBER"
    <2>1. value \in {Num(0), Num(5), Num(7)}
      BY <1>1, Numbers DEF ParseSettingValue, ParseNumber
    <2> QED
      BY <1>1, <2>1 DEF HasType, Num
  <1>2. CASE type = "BOOLEAN"
    BY <1>2 DEF ParseSettingValue, HasType, Bool
  <1>3. CASE type = "STRING"
    BY <1>3 DEF ParseSettingValue, HasType, Str
  <1>4. CASE type = "DECIMAL"
    BY <1>4 DEF ParseSettingValue, ParseDecimal, HasType, Str
  <1>5. CASE type = "JSON"
    BY <1>5, Jsons DEF ParseSettingValue, HasType
  <1> QED
    BY <1>1, <1>2, <1>3, <1>4, <1>5 DEF SettingTypes

\* What is stored is read as it was meant.
LEMMA ReadBack ==
  ASSUME NEW text \in Texts, Type \in SettingTypes,
         setting = ParseSettingValue(text, Type), setting # None,
         Type = "JSON" => setting[1] = "array"
  PROVE  Setting = Meant(text, Type)
  <1>1. Raw = setting
    BY DEF Raw
  <1>2. CASE Type = "NUMBER"
    <2>1. setting = NumberOf(text) /\ setting \in {Num(0), Num(5), Num(7)}
      BY <1>2, Numbers DEF ParseSettingValue, ParseNumber
    <2>2. Numeric(setting) = setting /\ setting \notin {None, Infinite}
      <3>1. setting[1] = "number"
        BY <2>1 DEF Num
      <3>2. None[1] # "number" /\ Infinite[1] # "number"
        BY DEF None, Infinite
      <3>3. Numeric(setting) = setting
        <4>1. Arr(<<Num(5)>>)[1] = "array"
          BY DEF Arr
        <4>2. setting # Arr(<<Num(5)>>)
          BY <3>1, <4>1
        <4> QED
          BY <3>1, <4>2, ZenonT(30) DEF Numeric
      <3> QED
        BY <3>1, <3>2, <3>3
    <2>3. NumberSetting = setting
      BY <1>1, <2>2 DEF NumberSetting
    <2> QED
      BY <1>2, <2>1, <2>3 DEF Setting, Meant
  <1>3. CASE Type = "DECIMAL"
    <2>1. /\ setting = Str(Trim(text)) /\ Trim(text) # "" /\ NumberOf(text) # None
      BY <1>3 DEF ParseSettingValue, ParseDecimal
    <2>2. Raw[1] = "string" /\ Raw[2] = Trim(text)
      <3> DEFINE trimmed == Trim(text)
      <3>1. Raw = Str(trimmed)
        BY <1>1, <2>1
      <3> HIDE DEF trimmed
      <3>2. Raw[1] = "string" /\ Raw[2] = trimmed
        BY <3>1 DEF Str
      <3> QED
        BY <3>2 DEF trimmed
    <2>3. MoneySetting = NumberOf(text)
      BY <2>1, <2>2, Trimmed DEF MoneySetting
    <2> QED
      BY <1>3, <2>3 DEF Setting, Meant
  <1>4. CASE Type = "BOOLEAN"
    <2>1. setting = Bool(text \in {"true", "on"}) /\ setting[1] = "boolean"
      BY <1>4 DEF ParseSettingValue, Bool
    <2>2. BooleanSetting = setting
      BY <1>1, <2>1 DEF BooleanSetting
    <2> QED
      BY <1>4, <2>1, <2>2 DEF Setting, Meant
  <1>5. CASE Type = "STRING"
    <2>1. setting = Str(text) /\ setting[1] = "string"
      BY <1>5 DEF ParseSettingValue, Str
    <2>2. StringSetting = setting
      BY <1>1, <2>1 DEF StringSetting
    <2> QED
      BY <1>5, <2>1, <2>2 DEF Setting, Meant
  <1>6. CASE Type = "JSON"
    <2>1. setting = JsonOf(text) /\ setting[1] = "array"
      BY <1>6 DEF ParseSettingValue
    <2>2. StringArraySetting = Arr(StringsIn(setting[2]))
      BY <1>1, <2>1 DEF StringArraySetting
    <2> QED
      BY <1>6, <2>1, <2>2 DEF Setting, Meant
  <1> QED
    BY <1>2, <1>3, <1>4, <1>5, <1>6 DEF SettingTypes

\* A request under way: a value to be stored, which is what was made of a text of
\* the form, and, as long as it has met no other request, the value that is
\* stored now.
Requested(e) ==
  LET t == editor[e]
  IN  /\ t = [op |-> "updating", text |-> t.text, shown |-> t.shown,
              previous |-> t.previous, value |-> t.value, alone |-> t.alone]
      /\ t.text \in Texts
      /\ t.value = ParseSettingValue(t.text, Type) /\ t.value # None
      /\ t.alone => /\ t.previous = setting
                    /\ \A q \in Editors \ {e} : editor[q].op # "updating"

\* The text that was saved last is the one the value was made of.
SavedFrom(text) ==
  /\ typed = Str(text) /\ setting = ParseSettingValue(text, Type) /\ setting # None

SettingsInv ==
  /\ edited \in SettingKeys
  /\ setting # None => HasType(setting, Type)
  /\ typed = None \/ \E text \in Texts : SavedFrom(text)
  /\ \E entries : trail \in Seq(entries)
  /\ DOMAIN editor = Editors
  /\ \A e \in Editors : editor[e].op = "updating" => Requested(e)

\* At first nothing has been typed; there is no row or one of the default.
LEMMA SettingsStart == SettingsInit => SettingsInv
  <1> SUFFICES ASSUME SettingsInit PROVE SettingsInv
    OBVIOUS
  <1>1. edited \in SettingKeys /\ typed = None /\ trail = <<>>
        /\ editor = [e \in Editors |-> Away]
    BY SettingsAssumption DEF SettingsInit
  <1>2. setting # None => HasType(setting, Type)
    BY <1>1, DefaultsTyped DEF SettingsInit, Type
  <1>3. \A e \in Editors : editor[e].op # "updating"
    BY <1>1 DEF Away
  <1>4. trail \in Seq({}) /\ DOMAIN editor = Editors
    BY <1>1
  <1> QED
    BY <1>1, <1>2, <1>3, <1>4 DEF SettingsInv

\* A step that only changes what one administrator is about to do, other than
\* beginning a request.
LEMMA FormStep ==
  ASSUME SettingsInv, NEW e \in Editors, NEW next, next.op # "updating",
         editor' = [editor EXCEPT ![e] = next],
         UNCHANGED <<edited, setting, typed, trail>>
  PROVE  SettingsInv'
  <1>1. /\ DOMAIN editor' = Editors /\ editor'[e] = next
        /\ \A q \in Editors \ {e} : editor'[q] = editor[q]
    BY DEF SettingsInv
  <1>2. ASSUME NEW q \in Editors, editor'[q].op = "updating"
        PROVE  Requested(q)'
    <2>1. q # e /\ editor'[q] = editor[q] /\ Requested(q)
      BY <1>1, <1>2 DEF SettingsInv
    <2>2. Type' = Type
      BY DEF Type
    <2> QED
      BY <1>1, <2>1, <2>2 DEF Requested
  <1>3. (setting # None => HasType(setting, Type))'
    BY DEF SettingsInv, Type
  <1>4. (typed = None \/ \E text \in Texts : SavedFrom(text))'
    BY DEF SettingsInv, SavedFrom, Type
  <1> QED
    BY <1>1, <1>2, <1>3, <1>4 DEF SettingsInv

\* A request that meets another one differs only in being alone no longer.
LEMMA NotAlone ==
  ASSUME NEW r, NEW text, NEW shown, NEW previous, NEW value, NEW alone,
         r = [op |-> "updating", text |-> text, shown |-> shown,
              previous |-> previous, value |-> value, alone |-> alone]
  PROVE  [r EXCEPT !.alone = FALSE]
           = [op |-> "updating", text |-> text, shown |-> shown,
              previous |-> previous, value |-> value, alone |-> FALSE]
  <1>1. ASSUME NEW flag
        PROVE  [r EXCEPT !.alone = flag]
                 = [op |-> "updating", text |-> text, shown |-> shown,
                    previous |-> previous, value |-> value, alone |-> flag]
    OBVIOUS
  <1> QED
    BY <1>1

\* A request that begins while another is open is not alone, and neither is the
\* other one.
LEMMA BeginStep ==
  ASSUME SettingsInv, NEW e \in Editors, NEW text \in Texts, BeginUpdate(e, text)
  PROVE  SettingsInv'
  <1> DEFINE value == ParseSettingValue(text, Type)
             refused == edited \notin Editable \/ value = None
             others == {q \in Editors \ {e} : editor[q].op = "updating"}
             draft == [op |-> "updating", text |-> text, shown |-> editor[e].shown,
                       previous |-> setting, value |-> value, alone |-> others = {}]
  <1>1. UNCHANGED <<edited, setting, typed, trail>> /\ Type' = Type
    BY DEF BeginUpdate, Type
  <1>2. CASE refused
    <2> DEFINE next == [q \in Editors |-> IF q = e THEN Away ELSE editor[q]]
    <2>1. editor' = next
      BY <1>2 DEF BeginUpdate
    <2>2. /\ DOMAIN editor' = Editors
          /\ \A q \in Editors : editor'[q] = IF q = e THEN Away ELSE editor[q]
      BY <2>1
    <2>3. Away.op # "updating"
      BY DEF Away
    <2>4. ASSUME NEW q \in Editors, editor'[q].op = "updating"
          PROVE  Requested(q)'
      <3>1. q # e /\ editor'[q] = editor[q] /\ Requested(q)
        BY <2>2, <2>3, <2>4 DEF SettingsInv
      <3> QED
        BY <1>1, <2>2, <2>3, <3>1 DEF Requested
    <2> QED
      BY <1>1, <2>2, <2>4 DEF SettingsInv, SavedFrom
  <1>3. CASE ~refused
    <2> DEFINE next == [q \in Editors |->
                          IF q = e THEN draft
                          ELSE IF q \in others THEN [editor[q] EXCEPT !.alone = FALSE]
                          ELSE editor[q]]
    <2>1. editor' = next
      BY <1>3 DEF BeginUpdate, Previous
    <2>2. /\ DOMAIN editor' = Editors /\ editor'[e] = draft
          /\ \A q \in others : editor'[q] = [editor[q] EXCEPT !.alone = FALSE]
          /\ \A q \in Editors \ {e} : q \notin others => editor'[q] = editor[q]
      BY <2>1
    <2>3. Requested(e)'
      <3>1. ASSUME others = {}, NEW q \in Editors \ {e}
            PROVE  editor'[q].op # "updating"
        BY <2>2, <3>1
      <3> DEFINE first == others = {}
                 shown == editor[e].shown
      <3>2. editor'[e] = [op |-> "updating", text |-> text, shown |-> shown,
                          previous |-> setting, value |-> value, alone |-> first]
        BY <2>2
      <3>3. first => \A q \in Editors \ {e} : editor'[q].op # "updating"
        BY <3>1
      <3> HIDE DEF others, value, first, shown
      <3>4. /\ editor'[e].text = text /\ editor'[e].value = value
            /\ editor'[e].previous = setting /\ editor'[e].alone = first
            /\ editor'[e] = [op |-> "updating", text |-> editor'[e].text,
                             shown |-> editor'[e].shown,
                             previous |-> editor'[e].previous,
                             value |-> editor'[e].value, alone |-> editor'[e].alone]
        BY <3>2
      <3>5. value = ParseSettingValue(text, Type') /\ setting' = setting
        BY <1>1 DEF value
      <3> QED
        BY <1>3, <3>3, <3>4, <3>5 DEF Requested
    <2>4. ASSUME NEW q \in Editors \ {e}, editor'[q].op = "updating"
          PROVE  Requested(q)'
      <3>1. q \in others
        BY <2>2, <2>4
      <3>2. Requested(q)
        BY <3>1 DEF SettingsInv
      <3>3. editor'[q] = [editor[q] EXCEPT !.alone = FALSE]
        BY <2>2, <3>1
      <3>4. /\ editor'[q] = [op |-> "updating", text |-> editor[q].text,
                             shown |-> editor[q].shown, previous |-> editor[q].previous,
                             value |-> editor[q].value, alone |-> FALSE]
            /\ editor[q].text \in Texts
            /\ editor[q].value = ParseSettingValue(editor[q].text, Type)
            /\ editor[q].value # None
        BY <3>2, <3>3, NotAlone DEF Requested
      <3>5. ~editor'[q].alone
        BY <3>4
      <3> QED
        BY <1>1, <3>4, <3>5 DEF Requested
    <2>5. \A q \in Editors : editor'[q].op = "updating" => Requested(q)'
      BY <2>3, <2>4
    <2> HIDE DEF next, others, draft, value
    <2> QED
      BY <1>1, <2>2, <2>5 DEF SettingsInv, SavedFrom
  <1> QED
    BY <1>2, <1>3

\* A commit stores what its request was made of and ends it.
LEMMA CommitStep ==
  ASSUME SettingsInv, NEW e \in Editors, CommitUpdate(e)
  PROVE  SettingsInv'
  <1> DEFINE t == editor[e]
  <1>1. /\ setting' = t.value /\ typed' = Str(t.text) /\ edited' = edited
        /\ trail' = Append(trail, <<t.previous, t.value>>)
        /\ editor' = [editor EXCEPT ![e] = Away]
    BY DEF CommitUpdate
  <1>2. /\ t.op = "updating" /\ t.text \in Texts /\ t.value # None
        /\ t.value = ParseSettingValue(t.text, Type) /\ Requested(e)
    BY DEF CommitUpdate, SettingsInv, Requested
  <1>3. Type' = Type /\ Type \in SettingTypes
    BY <1>1, DefaultsTyped DEF Type, SettingsInv
  <1>4. HasType(setting', Type)
    BY <1>1, <1>2, <1>3, Parsed
  <1>5. (\E text \in Texts : SavedFrom(text))'
    <2>1. PICK text \in Texts : text = t.text
      BY <1>2
    <2>2. SavedFrom(text)'
      BY <1>1, <1>2, <1>3, <2>1 DEF SavedFrom
    <2> QED
      BY <2>2
  <1>6. \E entries : trail' \in Seq(entries)
    <2>1. PICK entries : trail \in Seq(entries)
      BY DEF SettingsInv
    <2> DEFINE entry == <<t.previous, t.value>>
    <2>2. trail \in Seq(entries \cup {entry}) /\ entry \in entries \cup {entry}
      BY <2>1
    <2> HIDE DEF entry
    <2>3. Append(trail, entry) \in Seq(entries \cup {entry})
      BY <2>2
    <2> QED
      BY <1>1, <2>3 DEF entry
  <1>7. /\ DOMAIN editor' = Editors /\ editor'[e] = Away
        /\ \A q \in Editors \ {e} : editor'[q] = editor[q]
    BY <1>1 DEF SettingsInv
  <1>8. ASSUME NEW q \in Editors, editor'[q].op = "updating"
        PROVE  Requested(q)'
    <2>1. q # e /\ editor'[q] = editor[q]
      BY <1>7, <1>8 DEF Away
    <2>2. Requested(q) /\ ~editor[q].alone
      BY <1>2, <1>8, <2>1 DEF SettingsInv, Requested
    <2> QED
      BY <1>3, <2>1, <2>2 DEF Requested
  <1> QED
    BY <1>1, <1>2, <1>3, <1>4, <1>5, <1>6, <1>7, <1>8 DEF SettingsInv

\* Every step of an edit keeps the invariant.
LEMMA SettingsStep == SettingsInv /\ [SettingsNext]_settingsVars => SettingsInv'
  <1> SUFFICES ASSUME SettingsInv, [SettingsNext]_settingsVars PROVE SettingsInv'
    OBVIOUS
  <1>1. CASE UNCHANGED settingsVars
    <2>1. Type' = Type
      BY <1>1 DEF settingsVars, Type
    <2> QED
      BY <1>1, <2>1 DEF settingsVars, SettingsInv, Requested, SavedFrom
  <1>2. ASSUME NEW e \in Editors, OpenForm(e)
        PROVE  SettingsInv'
    <2> DEFINE form == [op |-> "filling", shown |-> Display(setting)]
    <2>1. form.op # "updating" /\ editor' = [editor EXCEPT ![e] = form]
          /\ UNCHANGED <<edited, setting, typed, trail>>
      BY <1>2 DEF OpenForm
    <2> HIDE DEF form
    <2> QED
      BY <2>1, FormStep
  <1>3. ASSUME NEW e \in Editors, GiveUp(e)
        PROVE  SettingsInv'
    <2>1. Away.op # "updating"
      BY DEF Away
    <2> QED
      BY <1>3, <2>1, FormStep DEF GiveUp
  <1> QED
    BY <1>1, <1>2, <1>3, BeginStep, CommitStep DEF SettingsNext

\* SavedIsUsed of Settings: whatever is typed for whichever setting, what is stored
\* has the setting's type, and the getter of the services returns what was meant.
THEOREM SettingsAreUsed == SettingsSpec => []SavedIsUsed
  <1>1. SettingsInv => SavedIsUsed
    <2> SUFFICES ASSUME SettingsInv PROVE SavedIsUsed
      OBVIOUS
    <2>1. Type \in SettingTypes
      BY DefaultsTyped DEF SettingsInv, Type
    <2>2. ASSUME typed # None, Type = "JSON" => setting[1] = "array"
          PROVE  Setting = Meant(typed[2], Type)
      <3>1. PICK text \in Texts : SavedFrom(text)
        BY <2>2 DEF SettingsInv
      <3>2. Setting = Meant(text, Type)
        BY <2>1, <2>2, <3>1, ReadBack DEF SavedFrom
      <3>3. typed[2] = text
        BY <3>1 DEF SavedFrom, Str
      <3> QED
        BY <3>2, <3>3
    <2> QED
      BY <2>2 DEF SavedIsUsed, SettingsInv
  <1> QED
    BY <1>1, SettingsStart, SettingsStep, PTL DEF SettingsSpec

\* TrailChains of Settings: an edit that met no other names the value it replaces.
THEOREM TrailIsAChain == SettingsSpec => TrailChains
  <1> DEFINE A == \A e \in Editors :
                    LET t == editor[e]
                    IN  t.op = "updating" /\ trail' # trail /\ editor'[e] = Away /\ t.alone =>
                          trail'[Len(trail')] = <<setting, setting'>>
  <1>1. ASSUME SettingsInv, SettingsNext
        PROVE  A
    <2> SUFFICES ASSUME NEW e \in Editors, editor[e].op = "updating", trail' # trail,
                        editor[e].alone
                 PROVE  trail'[Len(trail')] = <<setting, setting'>>
      OBVIOUS
    <2>1. PICK q \in Editors : CommitUpdate(q)
      BY <1>1 DEF SettingsNext, OpenForm, BeginUpdate, GiveUp
    <2>2. Requested(e)
      BY <1>1 DEF SettingsInv
    <2>3. q = e /\ editor[e].previous = setting
      BY <2>1, <2>2 DEF CommitUpdate, Requested
    <2>4. trail' = Append(trail, <<setting, setting'>>)
      BY <2>1, <2>3 DEF CommitUpdate
    <2>5. PICK entries : trail \in Seq(entries)
      BY <1>1 DEF SettingsInv
    <2> DEFINE entry == <<setting, setting'>>
    <2>6. trail \in Seq(entries \cup {entry}) /\ entry \in entries \cup {entry}
      BY <2>5
    <2> HIDE DEF entry
    <2>7. trail' = Append(trail, entry)
      BY <2>4 DEF entry
    <2>8. trail'[Len(trail')] = entry
      BY <2>6, <2>7
    <2> QED
      BY <2>8 DEF entry
  <1>2. SettingsInv /\ [SettingsNext]_settingsVars => [A]_settingsVars
    BY <1>1
  <1> QED
    BY <1>2, SettingsStart, SettingsStep, PTL DEF SettingsSpec, TrailChains

=============================================================================
