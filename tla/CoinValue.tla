------------------------------- MODULE CoinValue -------------------------------
(***************************************************************************)
(* What coins are worth in a top-up: the amount a quote asks for           *)
(* (crypto-price.js) and the cents a payment of it is credited with        *)
(* (crypto-recv-poller.js).                                                *)
(*                                                                         *)
(* A price is in cents per coin.  Credits are computed in integers, as in  *)
(* the code.  Amounts, and the cents they read back as, are computed in    *)
(* doubles and then rounded: what is rounded is within one part in Sliver  *)
(* of the exact quotient, on either side, and every outcome of that is one *)
(* the code may come to.                                                   *)
(*                                                                         *)
(* createQuote refuses anything but positive cents and amounts; the amount *)
(* of a payment may be one that is no number.                              *)
(***************************************************************************)
EXTENDS Integers

CONSTANTS
  Unit,       \* atomic units per coin: 10^COIN_DECIMALS
  Bps,        \* basis points per whole (10 000 in the code)
  Tolerance,  \* CREDIT_TOLERANCE_BPS
  Sliver,     \* a few operations on doubles are good to one part in 2^50
  Unreadable  \* an amount that is no number

ASSUME ValueAssumption ==
  /\ Unit \in Nat \ {0}
  /\ Bps \in Nat \ {0}
  /\ Tolerance \in Nat /\ Tolerance < Bps
  /\ Sliver \in Nat /\ Sliver > 1
  /\ Unreadable \notin Int

\* Slip: Math.floor for Math.ceil.
CeilingFloored(a, b) == a \div b

\* Math.ceil of a quotient.
Ceiling(a, b) == (a + b - 1) \div b

\* usdCentsToCoinAtomic: the exact quotient, a sliver off, rounded up.
AmountsFor(cents, price, spread) ==
  LET paid   == cents * (Bps + spread) * Unit
      perAll == price * Bps
  IN  Ceiling(paid * (Sliver - 1), perAll * Sliver)
        .. Ceiling(paid * (Sliver + 1), perAll * Sliver)

\* coinAtomicToUsdCents: the exact quotient, a sliver off, rounded down.
CentsFor(atomic, price) ==
  (atomic * price * (Sliver - 1)) \div (Unit * Sliver)
    .. (atomic * price * (Sliver + 1)) \div (Unit * Sliver)

\* Just short of the quoted amount.
NearlyPaid(expected, received) ==
  received >= (expected * (Bps - Tolerance)) \div Bps /\ received < expected

\* Slip: whatever exceeds the quote is kept.
CreditCentsCapped(quoted, expected, received) ==
  IF received = Unreadable \/ received >= (expected * (Bps - Tolerance)) \div Bps
  THEN quoted
  ELSE (quoted * received) \div expected

\* creditCentsFor: an amount it cannot read counts as the one that was quoted.
CreditCents(quoted, expected, received) ==
  IF received = Unreadable \/ NearlyPaid(expected, received) THEN quoted
  ELSE (quoted * received) \div expected
=============================================================================
