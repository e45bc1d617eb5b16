--------------------------- MODULE RewardProgram ---------------------------
(***************************************************************************)
(* What the fulfilment services promise about reward bottles, without      *)
(* transactions, locks, ledgers or deliveries: a referred customer         *)
(* qualifies once, and only that earns the referrer anything; a bottle is  *)
(* spent on an order only while its customer has one, once per order,      *)
(* and comes back at most once, when that order is cancelled.              *)
(*                                                                         *)
(* How many bottles a qualification is worth is left open: it may be any   *)
(* number.  EarnedByRule of Fulfilment is about the number.                *)
(***************************************************************************)
EXTENDS Integers

CONSTANTS Customers, Orders, Owner, Referrer

VARIABLES
  qualified, \* the referred customers who have qualified
  earned,    \* the bottles each customer has earned as a referrer
  available, \* the bottles each customer may still spend
  funded,    \* the orders that a bottle is spent on
  released   \* the orders whose bottle was given back

rewardVars == <<qualified, earned, available, funded, released>>

RewardInit ==
  /\ qualified = {}
  /\ earned = [c \in Customers |-> 0]
  /\ available = [c \in Customers |-> 0]
  /\ funded = {}
  /\ released = {}

\* What the referrer earns goes to the bottles that may be spent.
Qualify(c) ==
  LET r == Referrer[c]
      n == earned'[r] - earned[r]
  IN  /\ c \notin qualified
      /\ r \in Customers
      /\ qualified' = qualified \cup {c}
      /\ n >= 0
      /\ earned' = [earned EXCEPT ![r] = @ + n]
      /\ available' = [available EXCEPT ![r] = @ + n]
      /\ UNCHANGED <<funded, released>>

Redeem(o) ==
  /\ o \notin funded \cup released
  /\ available[Owner[o]] >= 1
  /\ available' = [available EXCEPT ![Owner[o]] = @ - 1]
  /\ funded' = funded \cup {o}
  /\ UNCHANGED <<qualified, earned, released>>

Restore(o) ==
  /\ o \in funded
  /\ available' = [available EXCEPT ![Owner[o]] = @ + 1]
  /\ funded' = funded \ {o}
  /\ released' = released \cup {o}
  /\ UNCHANGED <<qualified, earned>>

RewardNext ==
  \/ \E c \in Customers : Qualify(c)
  \/ \E o \in Orders : Redeem(o) \/ Restore(o)

RewardSpec == RewardInit /\ [][RewardNext]_rewardVars

=============================================================================
