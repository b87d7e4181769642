-------------------------------- MODULE Checkout --------------------------------
(***************************************************************************)
(* The two prices a customer is held to: the rates locked into a watch     *)
(* when it is created, and the coin price locked into a top-up quote.      *)
(*                                                                         *)
(* Each customer creates a watch at the surge rate of the moment, asks the *)
(* oracle for a price, gets a quote at it and pays the quote in any number *)
(* of instalments.  Requests of several customers interleave; the oracle   *)
(* is shared.  Crediting is one step here: TopUpQuotes has its workers,    *)
(* claims and crashes, and WatchPoller what becomes of the credit.         *)
(***************************************************************************)
EXTENDS PriceOracle, CoinValue, SurgePricing, FiniteSets

CONSTANTS
  Others,       \* how many watches other customers may have running
  Cents,        \* what a customer may ask a quote for
  Spread,       \* the spread added to a quote, in Bps
  Amounts,      \* what an instalment may be, or Unreadable
  MaxPayments,  \* bound of the exploration only
  NoOrder, NoWatch, NoQuote

ASSUME CheckoutAssumption ==
  /\ Others \subseteq Nat
  /\ Cents \subseteq Nat \ {0}
  /\ Spread \in Nat
  /\ Amounts \subseteq (Nat \ {0}) \cup {Unreadable}
  /\ MaxPayments \in Nat
  /\ IsFiniteSet(Callers)

Rates == [day: Nat, callRate: Nat, low: Nat]
Watch == [rates: Rates, cancelled: BOOLEAN]
Quote == [cents: Cents, price: Nat, expected: Nat, received: Nat, credited: Nat,
          payments: Nat, unread: Nat]

ASSUME CheckoutAbsenceAssumption ==
  NoOrder \notin Rates /\ NoWatch \notin Watch /\ NoQuote \notin Quote

VARIABLES
  order,   \* [Callers -> the rates computed for a watch not yet created]
  watch,   \* [Callers -> the customer's watch]
  quote    \* [Callers -> the customer's quote, with what was paid of it]

desk == <<order, watch, quote>>
vars == <<oracle, desk>>

Init ==
  /\ OracleInit
  /\ order = [u \in Callers |-> NoOrder]
  /\ watch = [u \in Callers |-> NoWatch]
  /\ quote = [u \in Callers |-> NoQuote]

-----------------------------------------------------------------------------
\* statsSnapshot's count of active watches
ActiveWatches(others) ==
  others + Cardinality({u \in Callers : watch[u] # NoWatch /\ ~watch[u].cancelled})

\* The request for a watch computes the rates ...
OrderWatch(u, others) ==
  /\ order[u] = NoOrder /\ watch[u] = NoWatch
  /\ order' = [order EXCEPT ![u] = ComputeWatchRate(ActiveWatches(others))]
  /\ UNCHANGED <<oracle, watch, quote>>

\* ... and, other requests later, locks them into the row.
CreateWatch(u) ==
  /\ order[u] # NoOrder
  /\ watch' = [watch EXCEPT ![u] = [rates |-> order[u], cancelled |-> FALSE]]
  /\ order' = [order EXCEPT ![u] = NoOrder]
  /\ UNCHANGED <<oracle, quote>>

CancelWatch(u) ==
  /\ watch[u] # NoWatch /\ ~watch[u].cancelled
  /\ watch' = [watch EXCEPT ![u].cancelled = TRUE]
  /\ UNCHANGED <<oracle, order, quote>>

\* The customer of a watch asks for a price.
AskPrice(u, coin) ==
  /\ watch[u] # NoWatch /\ quote[u] = NoQuote
  /\ Ask(u, coin)
  /\ UNCHANGED desk

\* The quote at the price the oracle came back with.
CreateQuote(u, cents) ==
  /\ got[u].source # "failed" /\ quote[u] = NoQuote
  /\ Collect(u)
  /\ \E expected \in AmountsFor(cents, got[u].usd, Spread) :
       quote' = [quote EXCEPT ![u] =
         [cents |-> cents, price |-> got[u].usd, expected |-> expected,
          received |-> 0, credited |-> 0, payments |-> 0, unread |-> 0]]
  /\ UNCHANGED <<order, watch>>

\* The oracle threw: no quote.
NoPrice(u) ==
  /\ got[u].source = "failed"
  /\ Collect(u)
  /\ UNCHANGED desk

\* A confirmed payment of the quote is credited, unless the watch refuses. Of an
\* amount that cannot be read nobody knows what was received.
PayInstalment(u, amount) ==
  /\ quote[u] # NoQuote /\ ~watch[u].cancelled
  /\ quote[u].payments < MaxPayments
  /\ quote' = [quote EXCEPT ![u].received = @ + IF amount = Unreadable THEN 0 ELSE amount,
                            ![u].payments = @ + 1,
                            ![u].unread = @ + IF amount = Unreadable THEN 1 ELSE 0,
                            ![u].credited = @ + CreditCents(quote[u].cents,
                                                            quote[u].expected, amount)]
  /\ UNCHANGED <<oracle, order, watch>>

\* The quote leaves its window; the customer may ask for another one.
QuoteEnds(u) ==
  /\ quote[u] # NoQuote
  /\ quote' = [quote EXCEPT ![u] = NoQuote]
  /\ UNCHANGED <<oracle, order, watch>>

-----------------------------------------------------------------------------
Serve(u) ==
  \/ \E others \in Others : OrderWatch(u, others)
  \/ CreateWatch(u) \/ CancelWatch(u)
  \/ \E coin \in Coins : AskPrice(u, coin)
  \/ \E cents \in Cents : CreateQuote(u, cents)
  \/ NoPrice(u)
  \/ \E amount \in Amounts : PayInstalment(u, amount)
  \/ QuoteEnds(u)

Next ==
  \/ \E u \in Callers : Serve(u) \/ (Fetch(u) /\ UNCHANGED desk)
  \/ Advance /\ UNCHANGED desk

Spec == Init /\ [][Next]_vars

-----------------------------------------------------------------------------
(* Properties *)

TypeOK ==
  /\ OracleTypeOK
  /\ order \in [Callers -> Rates \cup {NoOrder}]
  /\ watch \in [Callers -> Watch \cup {NoWatch}]
  /\ quote \in [Callers -> Quote \cup {NoQuote}]

\* The doubles tell one unit of the coin from the next, and one cent from the next.
Sensible(q) ==
  /\ 2 * q.cents <= Sliver
  /\ q.cents * (Bps + Spread) * Unit < q.price * Bps * Sliver

SpreadOutweighsSliver ==
  (Bps + Spread) * ((Sliver - 1) * (Sliver - 1)) >= Bps * (Sliver * Sliver)

\* "a payer can never under-fund the quoted USD value by a rounding sliver", as far
\* as doubles go: the amount a quote asks for is no more than one unit away from the
\* exact one, rounded up. Read back at the price of the quote it is worth the cents
\* of the quote whenever the spread outweighs the sliver, and a cent less at worst.
IsCovered(q) ==
  /\ (q.expected + 1) * (q.price * Bps) > q.cents * (Bps + Spread) * Unit
  /\ (q.expected - 2) * (q.price * Bps) < q.cents * (Bps + Spread) * Unit
  /\ \A c \in CentsFor(q.expected, q.price) :
       c >= IF SpreadOutweighsSliver THEN q.cents ELSE q.cents - 1

QuoteIsCovered ==
  \A u \in Callers : quote[u] # NoQuote /\ Sensible(quote[u]) => IsCovered(quote[u])

\* However a customer splits what they pay, they are credited its worth at
\* the locked price, but for less than a cent per payment ...
KeepsItsWorth(q) == q.cents * q.received <= (q.credited + q.payments) * q.expected

\* ... and no more than the tolerance allows: every payment may be short by
\* that fraction, and by the unit that the band is rounded down. One that cannot
\* be read is credited as the whole quote, whatever it was.
WithinTolerance(q) ==
  (q.credited - q.unread * q.cents) * q.expected * (Bps - Tolerance)
    <= q.cents * (q.received + q.payments) * Bps

\* The credit of a quote's payments is what they are worth, in both directions,
\* except that one with an unreadable amount is worth the quote.
InstalmentsKeepTheirWorth ==
  \A u \in Callers : quote[u] # NoQuote => KeepsItsWorth(quote[u]) /\ WithinTolerance(quote[u])

\* "The 4:1 day-to-call ratio is preserved by applying the same factor": up
\* to the rounding of each, or at the documented cap of both.  No customer
\* pays less than the entry tier or more than the cap.
InStep(r) ==
  LET skew == 2 * (r.day * CallBase - r.callRate * Base)
  IN  /\ r.day \in Base .. Max /\ r.callRate \in CallBase .. CallMax
      /\ \/ r.day = Max /\ r.callRate = CallMax
         \/ -(Base + CallBase) <= skew /\ skew <= Base + CallBase

RatesShareOneFactor == \A u \in Callers : watch[u] # NoWatch => InStep(watch[u].rates)
=============================================================================
