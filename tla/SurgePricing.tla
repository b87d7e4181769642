------------------------------ MODULE SurgePricing ------------------------------
(***************************************************************************)
(* The rates of a new watch, from the number of watches active when they   *)
(* are computed (private-watch-pricing.js).  The factor                    *)
(* 1 + active / Divisor is kept as a fraction until it is rounded.         *)
(***************************************************************************)
EXTENDS Integers

CONSTANTS
  Base, CallBase,   \* what the first watch pays by the day and by the call
  Max, CallMax,     \* the documented cap of each
  Divisor,          \* SURGE_DIVISOR
  LowRatio          \* LOW_CREDIT_RATIO

\* What computeWatchRate and buildPricingConfig insist on.
ASSUME PricingAssumption ==
  /\ Base \in Nat \ {0} /\ CallBase \in Nat \ {0}
  /\ Max \in Nat /\ Max >= Base
  /\ CallMax \in Nat /\ CallMax >= CallBase
  /\ Divisor \in Nat \ {0} /\ LowRatio \in Nat \ {0}

\* Math.round of a non-negative quotient: halves go up.
Round(a, b) == (2 * a + b) \div (2 * b)

Surged(rate, active) == Round(rate * (Divisor + active), Divisor)

\* One rate at its cap takes the other with it.
Capped(day, callRate) == day >= Max \/ callRate >= CallMax

\* Slip: each rate stops at its own cap.
ComputeWatchRateApart(active) ==
  LET day == Surged(Base, active)
      callRate == Surged(CallBase, active)
  IN  [day |-> IF day >= Max THEN Max ELSE day,
       callRate |-> IF callRate >= CallMax THEN CallMax ELSE callRate,
       low |-> day * LowRatio]

\* computeWatchRate
ComputeWatchRate(active) ==
  LET surged   == [day |-> Surged(Base, active), callRate |-> Surged(CallBase, active)]
      top      == [day |-> Max, callRate |-> CallMax]
      rate     == IF Capped(surged.day, surged.callRate) THEN top ELSE surged
  IN  [day |-> rate.day, callRate |-> rate.callRate, low |-> rate.day * LowRatio]
=============================================================================
