---- MODULE CreditAccount ----
(***************************************************************************)
(* The credit_balances row of one account (app/models/credits.py) and what *)
(* each operation of CreditsService (app/services/credits.py) does to it.  *)
(* Every operator takes the row an operation has read and returns the row  *)
(* it wants stored; when the store happens is the business of the modules  *)
(* that use this one.                                                      *)
(***************************************************************************)
EXTENDS Integers

\* The integer columns of CreditBalance that operations change.
Columns == {"balance", "bonus", "received", "used", "purchased"}
BalanceRow == [Columns -> Nat]
EmptyRow == [c \in Columns |-> 0]

Lesser(a, b) == IF a <= b THEN a ELSE b
LessOrZero(a, b) == IF a >= b THEN a - b ELSE 0

\* CreditBalance.total_available and CreditBalance.can_afford
TotalAvailable(row) == row["balance"] + row["bonus"]
CanAfford(row, amount) == TotalAvailable(row) >= amount

\* Bonus credits go first, the regular balance pays the rest.
TakeBonusFirst(row, amount) ==
    LET fromBonus == Lesser(row["bonus"], amount)
    IN  [row EXCEPT !["bonus"] = @ - fromBonus,
                    !["balance"] = @ - (amount - fromBonus)]

\* CreditBalance.deduct, for an amount the row can afford
Deduct(row, amount) ==
    [TakeBonusFirst(row, amount) EXCEPT !["used"] = @ + amount]

\* The balance changes of CreditsService.apply_purchase_from_webhook
AddPurchase(row, credits) ==
    [row EXCEPT !["balance"] = @ + credits,
                !["received"] = @ + credits,
                !["purchased"] = @ + credits]

\* Mutant: what is left does not limit what is taken.
RecoverableUnclamped(row, credits) == credits

\* CreditsService.refund_purchase: clamped at what is left; the lifetime
\* counters move only when something could be taken back.
Recoverable(row, credits) == Lesser(credits, TotalAvailable(row))
ClawBack(row, credits) ==
    IF Recoverable(row, credits) = 0
    THEN row
    ELSE [TakeBonusFirst(row, Recoverable(row, credits)) EXCEPT
             !["purchased"] = LessOrZero(@, credits),
             !["received"] = LessOrZero(@, credits)]

\* CreditsService.process_payment: the regular balance is replaced
Allocate(row, monthly) ==
    [row EXCEPT !["balance"] = monthly, !["received"] = @ + monthly]

\* CreditsService.grant_bonus and _grant_admin_credits
Grant(row, column, amount) ==
    [row EXCEPT ![column] = @ + amount, !["received"] = @ + amount]
====
