----------------------------- MODULE CreditMeter -----------------------------
(***************************************************************************)
(* The prepaid meter of one watch: what creating a watch, a day charge, a  *)
(* call charge and a top-up do to the billing columns of its row.          *)
(*                                                                         *)
(* Pure integer arithmetic, with the floors and clamps of the code.  The   *)
(* rates are the ones locked into the row when it is created: no code path *)
(* writes them afterwards, so they are constants here.  A row is any       *)
(* record that has at least the billing columns                            *)
(*   credit, topups, billed, lastBilled, expires, warned, dead             *)
(* and every operator returns the row it would leave behind.               *)
(***************************************************************************)
EXTENDS Integers

CONSTANTS
  DayMs,         \* milliseconds in a billing day (86 400 000 in the code)
  DayRate,       \* day_rate_atomic
  CallRate,      \* call_rate_atomic
  LowThreshold,  \* low_credit_threshold_atomic
  MaxLifetime    \* MAX_WATCH_LIFETIME_MS

ASSUME MeterAssumption ==
  /\ DayMs \in Nat \ {0}
  /\ DayRate \in Nat \ {0}
  /\ CallRate \in Nat \ {0}
  /\ LowThreshold \in Nat
  /\ MaxLifetime \in Nat \ {0}

\* Slip: the clamp is forgotten.
AtLeastZeroUnclamped(n) == n

AtLeastZero(n) == IF n < 0 THEN 0 ELSE n
Least(a, b)    == IF a < b THEN a ELSE b

\* How long `credit' keeps an idle watch alive.
IdleTime(credit) == (credit * DayMs) \div DayRate

\* The expiry a day or call charge recomputes: not capped.
ExpiryAfterCharge(credit, now) == now + IdleTime(credit)

\* The expiry createWatch and creditWatchRow compute: capped.
ExpiryAfterPayment(credit, now) == now + Least(IdleTime(credit), MaxLifetime)

-----------------------------------------------------------------------------
\* What has accrued since the last day charge that was worth a whole unit.
DayChargeDue(row, now) ==
  (AtLeastZero(now - row.lastBilled) * DayRate) \div DayMs

\* Slip: the day clock is not moved on.
DayChargedKeepsClock(row, now) ==
  LET charge == DayChargeDue(row, now)
      credit == AtLeastZero(row.credit - charge)
  IN  IF charge = 0 THEN row
      ELSE [row EXCEPT !.credit = credit, !.billed = row.billed + charge,
                       !.expires = ExpiryAfterCharge(credit, now)]

\* Slip: the expiry is not recomputed.
DayChargedKeepsExpiry(row, now) ==
  LET charge == DayChargeDue(row, now)
  IN  IF charge = 0 THEN row
      ELSE [row EXCEPT !.credit = AtLeastZero(row.credit - charge),
                       !.billed = row.billed + charge, !.lastBilled = now]

\* applyDayCharge: nothing moves, not even lastBilled, while less than one
\* unit is due; otherwise the whole charge is billed though the credit stops
\* at zero.
DayCharged(row, now) ==
  LET charge == DayChargeDue(row, now)
      credit == AtLeastZero(row.credit - charge)
  IN  IF charge = 0 THEN row
      ELSE [row EXCEPT !.credit     = credit,
                       !.billed     = row.billed + charge,
                       !.lastBilled = now,
                       !.expires    = ExpiryAfterCharge(credit, now)]

\* Slip: the call is deducted but not billed.
CallChargedUnbilled(row, now) ==
  LET credit == AtLeastZero(row.credit - CallRate)
  IN  [row EXCEPT !.credit = credit, !.expires = ExpiryAfterCharge(credit, now)]

\* applyCallCharge: one delivered webhook; the day clock is left alone.
CallCharged(row, now) ==
  LET credit == AtLeastZero(row.credit - CallRate)
  IN  [row EXCEPT !.credit  = credit,
                  !.billed  = row.billed + CallRate,
                  !.expires = ExpiryAfterCharge(credit, now)]

\* Slip: the payment replaces what was left.
ToppedUpReplacing(row, amount, now) ==
  [row EXCEPT !.credit = amount, !.topups = row.topups + amount,
              !.expires = ExpiryAfterPayment(amount, now),
              !.warned = row.warned /\ amount <= LowThreshold, !.dead = FALSE]

\* creditWatchRow: credit and topups grow, the low-credit latch re-arms above
\* the threshold, and a dead watch with credit is revived.
ToppedUp(row, amount, now) ==
  LET credit == row.credit + amount
  IN  [row EXCEPT !.credit  = credit,
                  !.topups  = row.topups + amount,
                  !.expires = ExpiryAfterPayment(credit, now),
                  !.warned  = row.warned /\ credit <= LowThreshold,
                  !.dead    = FALSE]

\* The guard of the one-shot warning.
LowCreditDue(row) == row.credit <= LowThreshold /\ row.credit > 0 /\ ~row.warned
=============================================================================
