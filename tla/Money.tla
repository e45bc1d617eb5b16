-------------------------------- MODULE Money --------------------------------
(***************************************************************************)
(* Amounts of money (src/lib/money/index.ts).  An amount is counted in     *)
(* tenths of a pesewa, so that a rate or a price with more than two        *)
(* decimals can be told from the amount it is rounded to; a stored amount  *)
(* is a multiple of Pesewa.  Decimal's precision of 20 digits is more than *)
(* a Decimal(14, 2) column needs, so division by a count is exact as far   *)
(* as the rounding below can tell.                                         *)
(***************************************************************************)
EXTENDS Integers, Functions

CONSTANTS Amounts, Counts  \* the amounts and numbers of instalments looked at

ASSUME MoneyAssumption == Amounts \subseteq Int /\ Counts \subseteq Nat \ {0}

VARIABLE plan  \* the total and the number of instalments of a plan to draw up

MoneyInit == plan \in [total : Amounts, parts : Counts]

Pesewa == 10

Abs(value) == IF value < 0 THEN -value ELSE value

\* ROUND_HALF_UP: to the nearest pesewa, away from zero in the middle.
Rounded(value) ==
  IF value < 0 THEN -(((5 - value) \div Pesewa) * Pesewa)
               ELSE ((value + 5) \div Pesewa) * Pesewa

\* add, for the two amounts of each of its callers: rounded once, at the end.
Add(a, b) == Rounded(a + b)

Subtract(a, b) == Rounded(a - b)

\* multiply, by a whole number of units.
Multiply(value, factor) == Rounded(value * factor)

ClampAtZero(value) == IF value < 0 THEN 0 ELSE Rounded(value)

LessOf(a, b) == Rounded(IF a < b THEN a ELSE b)
MoreOf(a, b) == Rounded(IF a > b THEN a ELSE b)

\* Division by a positive count, cut to whole pesewas towards zero.
CutDown(value, parts) ==
  LET pesewas == (Abs(value) \div Pesewa) \div parts
  IN  (IF value < 0 THEN -pesewas ELSE pesewas) * Pesewa

\* Mutant of Base: the instalment is rounded like any other amount.
BaseRounded(total, parts) == Rounded(Rounded(total) \div parts)

\* The instalment of splitEvenly, before the last one takes what is left.
Base(total, parts) == CutDown(Rounded(total), parts)

Last(total, parts) ==
  Rounded(Base(total, parts) + (Rounded(total) - Base(total, parts) * parts))

SplitEvenly(total, parts) ==
  [i \in 1..parts |-> IF i < parts THEN Base(total, parts) ELSE Last(total, parts)]

-----------------------------------------------------------------------------
\* The instalments of a plan leave nothing of its total over and ask for nothing
\* more; the last one makes up for the others, by less than a pesewa for each,
\* and never asks for less than they do, nor for a negative amount.
SplitLeavesNothing ==
  LET instalment == SplitEvenly(plan.total, plan.parts)
      last == instalment[plan.parts]
  IN  /\ SumFunction(instalment) = Rounded(plan.total)
      /\ \A i \in 1..plan.parts :
           /\ Abs(last - instalment[i]) < plan.parts * Pesewa
           /\ plan.total >= 0 => 0 <= instalment[i] /\ instalment[i] <= last

=============================================================================
