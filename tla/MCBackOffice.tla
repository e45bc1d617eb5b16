---------------------------- MODULE MCBackOffice ----------------------------
(***************************************************************************)
(* The TLC run of the parts of the back office that share no state:        *)
(* settings, stored files, the notification inbox, a customer's account    *)
(* and the arithmetic of Money.  Steps of two parts commute, so            *)
(* interleaving them shows nothing that each part alone does not: a        *)
(* behaviour is that of one part, chosen at the start, with the others at  *)
(* rest.                                                                   *)
(***************************************************************************)
EXTENDS Settings, StoredFiles, Inbox, Account, Money, TLC

CONSTANTS a1, a2, a3, e1, e2, f1, f2, k1, k2, k3, q1, q2, r1, r2, t1, t2

VARIABLE part

\* One setting of each type, and one whose row is not editable.
OneOfEachType ==
  {"referral.successful_required_for_reward", "referral.reward_product_sku",
   "order.default_delivery_fee", "payment.cod_enabled",
   "order.cancellation_allowed_statuses", "tracker.low_water_level_percent"}
AllButOne == OneOfEachType \ {"tracker.low_water_level_percent"}

\* From twelve pesewas owed to forty, by tenths of a pesewa.
SmallAmounts == -120..400
FewParts == 1..7

Init ==
  /\ part \in {"settings", "files", "inbox", "account", "money"}
  /\ SettingsInit /\ FilesInit /\ InboxInit /\ AccountInit /\ MoneyInit
  /\ part # "money" => plan = [total |-> 0, parts |-> 1]
  /\ part # "settings" => edited = CHOOSE k \in Keys : TRUE
  /\ part # "settings" => setting = None

Next ==
  /\ \/ part = "settings" /\ SettingsNext
          /\ UNCHANGED <<filesVars, inboxVars, accountVars>>
     \/ part = "files" /\ FilesNext /\ UNCHANGED <<settingsVars, inboxVars, accountVars>>
     \/ part = "inbox" /\ InboxNext /\ UNCHANGED <<settingsVars, filesVars, accountVars>>
     \/ part = "account" /\ AccountNext /\ UNCHANGED <<settingsVars, filesVars, inboxVars>>
  /\ UNCHANGED <<part, plan>>

Spec == Init /\ [][Next]_<<part, settingsVars, filesVars, inboxVars, accountVars, plan>>

Symmetry == Permutations(Requests) \cup Permutations(Ids)

=============================================================================
