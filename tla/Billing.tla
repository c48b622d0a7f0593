------------------------------- MODULE Billing -------------------------------
(***************************************************************************)
(* The arithmetic of app/services/billing.py.  A user row carries two      *)
(* credit columns (models.py: User); a charge spends the bonus column      *)
(* first and never charges part of an amount.  The operators are pure: the *)
(* modules that move credits apply them to the row their session loaded.   *)
(***************************************************************************)
EXTENDS Integers

\* The two credit columns of a users row.
Wallet == [paid : Int, bonus : Int]

\* What the CheckConstraints of the users table admit.
SolventWallet == [paid : Nat, bonus : Nat]

Total(w) == w.paid + w.bonus

\* Mutant: any credits at all will do.
CanAffordAny(w, amount) == Total(w) > 0

CanAfford(w, amount) == Total(w) >= amount

BonusUsed(w, amount) == IF w.bonus <= amount THEN w.bonus ELSE amount

\* Mutant: the bonus part is charged on top of the price.
PaidUsedInFull(w, amount) == amount

PaidUsed(w, amount) == amount - BonusUsed(w, amount)

\* The ValueError of a charge the row cannot pay is left out: the handler tests
\* CanAfford on the same copy of the row before it charges.
ChargeCredits(w, amount) ==
  IF amount <= 0 THEN w
  ELSE [paid  |-> w.paid  - PaidUsed(w, amount),
        bonus |-> w.bonus - BonusUsed(w, amount)]

\* What the worker's _refund assigns; billing.refund_credits, which nothing
\* calls, is the same sum.
RefundCredits(w, bonus, paid) ==
  [paid |-> w.paid + paid, bonus |-> w.bonus + bonus]

AddPaid(w, amount) ==
  IF amount <= 0 THEN w ELSE [w EXCEPT !.paid = @ + amount]

AddBonus(w, amount) ==
  IF amount <= 0 THEN w ELSE [w EXCEPT !.bonus = @ + amount]

(***************************************************************************)
(* The ORM flush: the code assigns plain attributes, so the UPDATE sets    *)
(* each column whose value differs from the loaded one to an absolute      *)
(* value, and leaves the other columns out: they stay as they are.         *)
(***************************************************************************)
WriteColumn(current, loaded, assigned) == IF assigned = loaded THEN current ELSE assigned

WriteBack(row, loaded, assigned) ==
  [paid  |-> WriteColumn(row.paid, loaded.paid, assigned.paid),
   bonus |-> WriteColumn(row.bonus, loaded.bonus, assigned.bonus)]
=============================================================================
