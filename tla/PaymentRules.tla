---------------------------- MODULE PaymentRules ----------------------------
(***************************************************************************)
(* Pure rules of the transactions component: what a transfer costs, which  *)
(* period a report compares its own with, and the figures it states.       *)
(***************************************************************************)
EXTENDS Integers

MinAmount == 1
MaxAmount == 10000000

\* The amounts a transfer may have.
Amount == {amount \in Int : MinAmount <= amount /\ amount <= MaxAmount}

TransferType == {"MOMO_TO_MOMO", "MOMO_TO_EKASH", "MOMO_PAY"}

Band(min, max, fee) == [min |-> min, max |-> max, fee |-> fee]

\* The tariff of a transfer from one mobile money account to another.
Bands == {Band(1, 1000, 20), Band(1001, 10000, 100), Band(10001, 150000, 250),
          Band(150001, 2000000, 1500), Band(2000001, 5000000, 3000),
          Band(5000001, 10000000, 5000)}

Covers(band, amount) == band.min <= amount /\ amount <= band.max

\* find takes the first band that covers the amount; OneBand says there is
\* only one.
BandOf(amount) == CHOOSE band \in Bands : Covers(band, amount)

Fee(amount, type) ==
    CASE type = "MOMO_PAY" -> 0
      [] type = "MOMO_TO_EKASH" -> 20
      [] OTHER -> BandOf(amount).fee

\* The two ends of a period belong to it.
In(moment, period) == period.from <= moment /\ moment <= period.to

\* Mutant: the earlier period ends where the later one begins.
PreviousOverlapping(period) ==
    LET length == period.to - period.from + 1 IN
    [from |-> period.from - length, to |-> period.from]

Previous(period) ==
    LET length == period.to - period.from + 1 IN
    [from |-> period.from - length, to |-> period.from - 1]

-----------------------------------------------------------------------------
(* The figures of a report; percentages in hundredths.                     *)

\* The nearest hundredth of a per cent, the higher one of two.  The code
\* computes in floating point, which may miss by a last digit.
Rounded(part, whole) == (20000 * part + whole) \div (2 * whole)

Share(amount, total) == IF total = 0 THEN 0 ELSE Rounded(amount, total)

\* No change is stated from nothing to something.
Stated(current, previous) == previous = 0 => current = 0

Change(current, previous) ==
    IF previous = 0 THEN 0 ELSE Rounded(current - previous, previous)

\* The groups of a breakdown: by amount, then by payments, both falling, then
\* by name.
Ahead(group, other) ==
    \/ group.amount > other.amount
    \/ group.amount = other.amount /\ group.payments > other.payments
    \/ /\ group.amount = other.amount /\ group.payments = other.payments
       /\ group.name < other.name
=============================================================================
