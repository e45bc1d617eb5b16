-------------------------------- MODULE Inbox --------------------------------
(***************************************************************************)
(* In-app notifications (src/lib/notifications/index.ts), the page that    *)
(* lists them and its two buttons.  The page is rendered for whoever was   *)
(* signed in then; a button acts for whoever is signed in when it is       *)
(* pressed.  Each button is one UPDATE.                                    *)
(***************************************************************************)
EXTENDS Integers, Sequences, FiniteSets

CONSTANTS
  Recipients,
  Tabs,
  PageSize,          \* the page shows the newest 50
  MaxNotifications,  \* bound
  MaxClock           \* bound: presses of a button

ASSUME InboxAssumption ==
  /\ IsFiniteSet(Recipients)
  /\ PageSize \in Nat \ {0} /\ MaxNotifications \in Nat /\ MaxClock \in Nat

VARIABLES
  notification,  \* rows in order of createdAt: whose, and readAt (0 for null)
  clock,
  signedIn,      \* whose session the browser's cookie names
  tab            \* what each tab shows: unread notifications it has a button for

inboxVars == <<notification, clock, signedIn, tab>>

Notification == [user : Recipients, readAt : Nat]
NotOpen == [unread |-> {}, markAll |-> FALSE]

InboxTypeOK ==
  /\ notification \in Seq(Notification)
  /\ clock \in Nat
  /\ signedIn \in Recipients
  /\ tab \in [Tabs -> [unread : SUBSET (1..MaxNotifications), markAll : BOOLEAN]]

InboxInit ==
  /\ notification = <<>>
  /\ clock = 0
  /\ signedIn \in Recipients
  /\ tab = [t \in Tabs |-> NotOpen]

-----------------------------------------------------------------------------
Of(user) == {i \in DOMAIN notification : notification[i].user = user}
Unread(user) == {i \in Of(user) : notification[i].readAt = 0}

\* The newest rows, at most PageSize.
Listed(user) == {i \in Of(user) : Cardinality({j \in Of(user) : j > i}) < PageSize}

\* notify, and notifyMany for several: part of the caller's transaction.
Notify(users) ==
  /\ Len(notification) + Cardinality(users) <= MaxNotifications
  /\ \E rows \in [1..Cardinality(users) -> [user : users, readAt : {0}]] :
       /\ {rows[i].user : i \in DOMAIN rows} = users
       /\ notification' = notification \o rows
  /\ UNCHANGED <<clock, signedIn, tab>>

OpenInbox(t) ==
  /\ LET unread == Listed(signedIn) \cap Unread(signedIn)
     IN  tab' = [tab EXCEPT ![t] = [unread |-> unread, markAll |-> unread # {}]]
  /\ UNCHANGED <<notification, clock, signedIn>>

\* Mutant of Markable: the update's condition on readAt left out.
MarkableAgain(user) == Of(user)

\* The rows a button's update may find.
Markable(user) == Unread(user)

Mark(t, rows) ==
  /\ clock < MaxClock
  /\ clock' = clock + 1
  /\ notification' = [i \in DOMAIN notification |->
                        IF i \in rows THEN [notification[i] EXCEPT !.readAt = clock + 1]
                        ELSE notification[i]]
  /\ LET unread == {i \in Listed(signedIn) \cap Unread(signedIn) : i \notin rows}
     IN  tab' = [tab EXCEPT ![t] = [unread |-> unread, markAll |-> unread # {}]]
  /\ UNCHANGED signedIn

\* The action renders the page anew.
MarkAsRead(t, i) == i \in tab[t].unread /\ Mark(t, {i} \cap Markable(signedIn))

MarkAllAsRead(t) == tab[t].markAll /\ Mark(t, Markable(signedIn))

\* Somebody else signs in, in another tab of the browser.
SwitchUser(user) ==
  /\ signedIn' = user
  /\ UNCHANGED <<notification, clock, tab>>

InboxNext ==
  \/ \E users \in SUBSET Recipients \ {{}} : Notify(users)
  \/ \E t \in Tabs :
       OpenInbox(t) \/ MarkAllAsRead(t) \/ \E i \in tab[t].unread : MarkAsRead(t, i)
  \/ \E user \in Recipients : SwitchUser(user)

InboxSpec == InboxInit /\ [][InboxNext]_inboxVars

-----------------------------------------------------------------------------
\* The time a notification was read stays the time it was first read, and is
\* set for the user it was read by: pages that are out of date, or were shown
\* to somebody else, and buttons pressed twice change nothing.
ReadOnceByItsUser ==
  [][\A i \in DOMAIN notification :
       notification'[i] # notification[i] =>
         /\ notification[i].readAt = 0 /\ notification'[i].readAt # 0
         /\ notification[i].user = signedIn]_inboxVars

=============================================================================
