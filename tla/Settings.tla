------------------------------ MODULE Settings ------------------------------
(***************************************************************************)
(* Business settings: typed by an administrator as text, stored as JSON,   *)
(* read by the services as a number, an amount, a flag, a string or a      *)
(* list (src/services/admin/settings.ts, src/lib/settings/index.ts).       *)
(*                                                                         *)
(* Text is a member of Texts; what JavaScript makes of one is NumberOf,    *)
(* Trim and JsonOf.  An edit reads the row outside the transaction that    *)
(* writes the row and the audit entry, so two edits may overlap.           *)
(***************************************************************************)
EXTENDS Integers, Sequences

CONSTANTS
  Editors,  \* administrators' requests
  Keys,     \* the settings looked at
  Editable, \* those whose row has isEditable, a column that nothing writes
  MaxEdits  \* bound: edits of one setting

-----------------------------------------------------------------------------
(* Values and what they are made of.                                       *)

Num(n) == <<"number", n>>
Str(s) == <<"string", s>>
Bool(b) == <<"boolean", b>>
Arr(values) == <<"array", values>>

\* The texts typed in, and with them the texts shown for the defaults.
Texts == {"", "0", "5", "7", " 7 ", "Infinity", "true", "on", "false", "RB-18L",
          "0.00", "[\"PENDING\"]", "[\"PENDING\",\"CONFIRMED\",\"PROCESSING\"]", "[5]",
          "\"RB-18L\""}

\* What is not a number or not JSON.
None == <<"none">>
Infinite == <<"infinite">>

\* Number(text)
NumberOf(text) ==
  CASE text \in {"", "0", "0.00"} -> Num(0)
    [] text = "5" -> Num(5)
    [] text \in {"7", " 7 "} -> Num(7)
    [] text = "Infinity" -> Infinite
    [] OTHER -> None

Trim(text) == IF text = " 7 " THEN "7" ELSE text

\* JSON.parse(text)
JsonOf(text) ==
  CASE text \in {"0", "0.00"} -> Num(0)
    [] text = "5" -> Num(5)
    [] text \in {"7", " 7 "} -> Num(7)
    [] text = "true" -> Bool(TRUE)
    [] text = "false" -> Bool(FALSE)
    [] text = "[5]" -> Arr(<<Num(5)>>)
    [] text = "\"RB-18L\"" -> Str("RB-18L")
    [] text = "[\"PENDING\"]" -> Arr(<<Str("PENDING")>>)
    [] text = "[\"PENDING\",\"CONFIRMED\",\"PROCESSING\"]" ->
         Arr(<<Str("PENDING"), Str("CONFIRMED"), Str("PROCESSING")>>)
    [] OTHER -> None

-----------------------------------------------------------------------------
(* DEFAULTS                                                                *)

Default(type, value) == [type |-> type, value |-> value]

SettingKeys == {
  "referral.successful_required_for_reward", "referral.reward_product_sku",
  "referral.qualifying_min_order_total", "bottle.shortage_charge_per_unit",
  "bottle.shortage_grace_days", "bottle.auto_charge_shortage",
  "order.cancellation_allowed_statuses", "order.default_delivery_fee",
  "dispenser.installment_frequency_default", "dispenser.overdue_grace_days",
  "dispenser.due_soon_days", "dispenser.ownership_requires_approval",
  "inventory.adjustment_admin_threshold", "inventory.low_stock_threshold",
  "payment.cod_enabled", "agent.commission_rate", "tracker.low_water_level_percent"}

Defaults ==
  [k \in SettingKeys |->
     CASE k = "referral.successful_required_for_reward" ->
            Default("NUMBER", Num(5))
       [] k = "referral.reward_product_sku" -> Default("STRING", Str("RB-18L"))
       [] k = "referral.qualifying_min_order_total" ->
            Default("DECIMAL", Str("0.00"))
       [] k = "bottle.shortage_charge_per_unit" ->
            Default("DECIMAL", Str("80.00"))
       [] k = "bottle.shortage_grace_days" -> Default("NUMBER", Num(14))
       [] k = "bottle.auto_charge_shortage" -> Default("BOOLEAN", Bool(FALSE))
       [] k = "order.cancellation_allowed_statuses" ->
            Default("JSON", Arr(<<Str("PENDING"), Str("CONFIRMED"), Str("PROCESSING")>>))
       [] k = "order.default_delivery_fee" -> Default("DECIMAL", Str("0.00"))
       [] k = "dispenser.installment_frequency_default" ->
            Default("STRING", Str("MONTHLY"))
       [] k = "dispenser.overdue_grace_days" -> Default("NUMBER", Num(3))
       [] k = "dispenser.due_soon_days" -> Default("NUMBER", Num(5))
       [] k = "dispenser.ownership_requires_approval" ->
            Default("BOOLEAN", Bool(TRUE))
       [] k = "inventory.adjustment_admin_threshold" -> Default("NUMBER", Num(50))
       [] k = "inventory.low_stock_threshold" -> Default("NUMBER", Num(100))
       [] k = "payment.cod_enabled" -> Default("BOOLEAN", Bool(TRUE))
       [] k = "agent.commission_rate" -> Default("DECIMAL", Str("0.0000"))
       [] k = "tracker.low_water_level_percent" -> Default("NUMBER", Num(20))]

ASSUME SettingsAssumption == Keys \subseteq SettingKeys /\ MaxEdits \in Nat

VARIABLES
  edited,   \* the setting looked at; edits of two settings do not meet
  setting,  \* value of its system_settings row, or None without a row
  typed,    \* the text that the value was last saved from, or None
  trail,    \* its audit entries: <<previous, new>>
  editor    \* each administrator's form, with the text it was rendered with, or
            \* request, with the row it has read; alone: no other request has
            \* been open since this one began

settingsVars == <<edited, setting, typed, trail, editor>>

Type == Defaults[edited].type

\* Whether a value is one that is stored for settings of a type.
HasType(value, type) ==
  CASE type = "NUMBER" -> value[1] = "number"
    [] type = "BOOLEAN" -> value[1] = "boolean"
    [] type \in {"STRING", "DECIMAL"} -> value[1] = "string"
    [] type = "JSON" -> value[1] \in {"number", "boolean", "string", "array"}

Away == [op |-> "away"]

\* A database that has the row, or one to which it has not been added.
SettingsInit ==
  /\ edited \in Keys
  /\ setting \in {Defaults[edited].value, None}
  /\ typed = None
  /\ trail = <<>>
  /\ editor = [e \in Editors |-> Away]

-----------------------------------------------------------------------------
(* Reading: one operator per getter, on the row's value or the default.    *)

Raw == IF setting = None THEN Defaults[edited].value ELSE setting

\* Number(value) of a JSON value.
Numeric(value) ==
  CASE value[1] = "number" -> value
    [] value[1] = "string" -> NumberOf(value[2])
    [] value[1] = "boolean" -> Num(IF value[2] THEN 1 ELSE 0)
    [] value = Arr(<<Num(5)>>) -> Num(5)
    [] OTHER -> None

NumberSetting ==
  IF Numeric(Raw) \in {None, Infinite} THEN Numeric(Defaults[edited].value)
                                       ELSE Numeric(Raw)

\* new Decimal(value) knows infinity, but no blanks and no empty text.
MoneySetting ==
  LET decimal == CASE Raw[1] = "number" -> Raw
                   [] Raw[1] = "string" /\ Raw[2] # "" /\ Trim(Raw[2]) = Raw[2] ->
                        NumberOf(Raw[2])
                   [] OTHER -> None
  IN  IF decimal = None THEN Numeric(Defaults[edited].value) ELSE decimal

BooleanSetting ==
  CASE Raw[1] = "boolean" -> Raw
    [] Raw[1] = "string" -> Bool(Raw[2] = "true")
    [] OTHER -> Defaults[edited].value

StringSetting == IF Raw[1] = "string" THEN Raw ELSE Defaults[edited].value

IsString(value) == value[1] = "string"

StringsIn(values) == SelectSeq(values, IsString)

StringArraySetting ==
  IF Raw[1] = "array" THEN Arr(StringsIn(Raw[2])) ELSE Defaults[edited].value

\* The getter for a setting of the type, at every call of a service.
Setting ==
  CASE Type = "NUMBER" -> NumberSetting
    [] Type = "DECIMAL" -> MoneySetting
    [] Type = "BOOLEAN" -> BooleanSetting
    [] Type = "STRING" -> StringSetting
    [] Type = "JSON" -> StringArraySetting

-----------------------------------------------------------------------------
(* Editing.                                                                *)

\* displayValue: the text of the form.
Display(value) ==
  IF value[1] = "string" THEN value[2]
  ELSE CHOOSE text \in Texts \ {" 7 ", "0.00"} : JsonOf(text) = value

\* None: an error, and nothing is saved.  The empty text is the number 0.
ParseNumber(text) == IF NumberOf(text) = Infinite THEN None ELSE NumberOf(text)

\* Mutant of ParseDecimal: kept as it was typed.
ParseDecimalUntrimmed(text) ==
  IF Trim(text) = "" \/ NumberOf(text) = None THEN None ELSE Str(text)

ParseDecimal(text) ==
  IF Trim(text) = "" \/ NumberOf(text) = None THEN None ELSE Str(Trim(text))

ParseSettingValue(text, type) ==
  CASE type = "BOOLEAN" -> Bool(text \in {"true", "on"})
    [] type = "NUMBER" -> ParseNumber(text)
    [] type = "DECIMAL" -> ParseDecimal(text)
    [] type = "JSON" -> JsonOf(text)
    [] type = "STRING" -> Str(text)

\* The page lists the rows there are, with a form for each that is editable.
OpenForm(e) ==
  /\ editor[e] = Away /\ setting # None /\ edited \in Editable
  /\ editor' = [editor EXCEPT ![e] = [op |-> "filling", shown |-> Display(setting)]]
  /\ UNCHANGED <<edited, setting, typed, trail>>

\* A flag is chosen from a list; everything else is typed: the texts that a
\* setting of the type can tell apart.
Input ==
  CASE Type = "BOOLEAN" -> {"true", "false"}
    [] Type \in {"NUMBER", "DECIMAL"} -> {"", "0.00", "5", " 7 ", "Infinity", "true"}
    [] Type = "STRING" -> {"", " 7 ", "RB-18L"}
    [] Type = "JSON" -> {"", "5", "[5]", "[\"PENDING\"]", "\"RB-18L\""}

\* Mutant of Previous: the value the form was rendered with.
PreviousShown(shown) ==
  LET value == ParseSettingValue(shown, Type)
  IN  IF value = None THEN setting ELSE value

\* The row as it is when the request begins.
Previous(shown) == setting

BeginUpdate(e, text) ==
  LET form == editor[e]
      value == ParseSettingValue(text, Type)
      refused == edited \notin Editable \/ value = None
      others == {q \in Editors \ {e} : editor[q].op = "updating"}
      request == [op |-> "updating", text |-> text, shown |-> form.shown,
                  previous |-> Previous(form.shown), value |-> value,
                  alone |-> others = {}]
  IN  /\ form.op = "filling" /\ text \in Input \cup {form.shown}
      /\ editor' = [q \in Editors |->
                      IF q = e THEN IF refused THEN Away ELSE request
                      ELSE IF q \in others /\ ~refused
                        THEN [editor[q] EXCEPT !.alone = FALSE]
                      ELSE editor[q]]
      /\ UNCHANGED <<edited, setting, typed, trail>>

\* The row and its audit entry, in one transaction.
CommitUpdate(e) ==
  LET t == editor[e]
  IN  /\ t.op = "updating" /\ Len(trail) < MaxEdits
      /\ setting' = t.value
      /\ typed' = Str(t.text)
      /\ trail' = Append(trail, <<t.previous, t.value>>)
      /\ editor' = [editor EXCEPT ![e] = Away]
      /\ UNCHANGED edited

\* The page is left, or the request fails.
GiveUp(e) ==
  /\ editor[e] # Away
  /\ editor' = [editor EXCEPT ![e] = Away]
  /\ UNCHANGED <<edited, setting, typed, trail>>

SettingsNext ==
  \E e \in Editors :
    \/ OpenForm(e)
    \/ \E text \in Texts : BeginUpdate(e, text)
    \/ CommitUpdate(e) \/ GiveUp(e)

SettingsSpec == SettingsInit /\ [][SettingsNext]_settingsVars

-----------------------------------------------------------------------------
\* What an administrator means by a text.
Meant(text, type) ==
  CASE type \in {"NUMBER", "DECIMAL"} -> NumberOf(text)
    [] type = "BOOLEAN" -> Bool(text \in {"true", "on"})
    [] type = "STRING" -> Str(text)
    [] type = "JSON" -> Arr(StringsIn(JsonOf(text)[2]))

\* What is stored has the JSON type of the setting's declared type, whatever was
\* typed.  What was typed, stored as JSON and read by the getter of the services is
\* what was meant, and no getter falls back on the default unnoticed; except
\* for JSON that is no array, which the form accepts and the getter ignores.
SavedIsUsed ==
  /\ setting # None => HasType(setting, Type)
  /\ typed # None /\ (Type = "JSON" => setting[1] = "array") =>
       Setting = Meant(typed[2], Type)

\* The audit trail of a setting is a chain of values that ends at the current
\* one: an edit that overlaps no other names the value it replaces, however old
\* the page was it came from.  (Two that overlap both name the value that both
\* replaced.)
TrailChains ==
  [][\A e \in Editors :
       LET t == editor[e]
       IN  t.op = "updating" /\ trail' # trail /\ editor'[e] = Away /\ t.alone =>
             trail'[Len(trail')] = <<setting, setting'>>]_settingsVars

=============================================================================
