# A verification project for viewkey-watch

viewkey-watch is a prepaid, accountless service: a client leaves a view key,
the service has an upstream scanner (NFPT) follow the wallet, posts a signed
webhook when the balance changes, and bills the watch by the day and by the
delivered call. This directory holds TLA+ modules translated from that code,
TLC configurations that check them on small instances, and theorems that TLAPS
proves for every instance. Paths below are relative to the repository, whose
sources are in `src/`; `PROJECT.json` maps every definition to the lines it
stands for.

## 1. The system

| component | source | state | operations |
|---|---|---|---|
| credit meter | `src/private-watch.js` (`applyDayCharge`, `applyCallCharge`), `src/private-watch-store.js` (`creditWatchRow`) | the billing columns of a row | day charge, call charge, top-up, expiry |
| watch store | `src/private-watch-store.js` | table `private_watches` | create, cancel, list active, update, top up (by token, by id), purge |
| watch poller | `src/private-watch-poller.js` | local copies of rows during a tick | `runPollerTick`, `pollOne`, `maybeFireLowCredit`, `deliverWebhook` |
| snapshot diffing | `src/private-watch.js` (`isPrematureSnapshot`, `diffBalance`), `pickBetterKnown` | `last_known`, `last_delivered` | premature?, news?, delta |
| scanner client | `src/private-watch-nfpt.js` | none (jobs live upstream) | start, poll, cancel, normalise; `scanReceiving`, `scanHistorical` |
| receive poller | `src/crypto-recv-poller.js` | locals of a tick | scan, match, claim, credit, settle or release, sweep |
| quote store | `src/crypto-topup-store.js` | `crypto_topup_quotes`, `crypto_topup_payments` | open (backfill), create, cancel, list matchable, mark seen, claim, release, settle, expire |
| credit valuation | `src/crypto-recv-poller.js` (`creditCentsFor`), `src/crypto-price.js` (`usdCentsToCoinAtomic`, `coinAtomicToUsdCents`) | none | the amount a quote asks for, the cents a payment is worth |
| surge pricing | `src/private-watch-pricing.js` | the rates it locks into a new row | `computeWatchRate` of the active watches |
| price oracle | `src/crypto-price.js` (`createPriceOracle`) | one cache of all coins | `getUsdPrice`: cached, fetched, stale, fallback or error |
| Dash note scan | `src/dash-orchard-scan.js` | a cursor owned by the caller | chunked scan of a growing stream |
| scan tickets, validation, crypto, summaries | `src/scan-ticket.js`, `src/private-watch.js`, `src/private-watch-crypto.js` | none | pure functions of their arguments |

How they interact. Two timers run the two pollers; the REST calls of the
embedding server run between their awaits, in the same process or, for the
receive poller, in another one. The only shared state is the SQLite database.
The driver is synchronous, so code between two awaits is atomic with respect to
its own process, and a single statement with respect to any other. A watch
poller tick **reads every active row once, at its start**, and works on those
copies while it awaits up to four HTTP calls per row (warning, poll, start and
first poll, webhook). What it writes back are absolute values computed from the
copies. The receive poller calls `topupWatchById`, which is a SELECT and an
UPDATE in two statements.

What is hard here, and what correctness means:

* *watch poller and store*: lost updates between a tick and a payer, two ticks
  that overlap (the example server's timer does not wait for the previous tick),
  webhooks that arrive without being acknowledged, a scanner that restarts and
  reports less than it knew, a crash between any two awaits. Money paid must
  stay credit or become billing; billing must be for elapsed time and
  acknowledged deliveries; receivers adding up the deltas must arrive at the
  balance; one warning per crossing of the threshold; dead only after enough
  failures in a row.
* *receive poller and quote store*: two workers with the same payment, a claim
  that goes stale because its holder died or is slow, a crash between crediting
  and recording, quotes that expire, are cancelled or are settled by another
  payment meanwhile, amounts that are quoted again. Every confirmed payment
  must be credited once, for one quote, and reported as credited only if it was.
  Databases from before the payment table are completed whenever they are opened.
* *prices*: every request that finds the cache old sends a fetch of its own, so
  replies overtake each other; a reply may lack a coin and still replaces the
  prices of all; a watch is priced by a count that is old when the row is written.
  What is called current must be recent, a customer must be asked for what the
  cents cost and be credited what the coins are worth however they split them,
  and nobody's two rates may drift apart.
* *scans*: a receiving scan is several requests to a job that may fail, vanish or
  outlast the wait; the Dash scan is a walk over chunks with a cursor that its
  caller saves later, served by nodes that lag. A result must hold what it claims,
  and no payment may be skipped for ever.
* *diffing, meter*: integer floors and clamps; "no balance" against "zero".

`PROJECT.json` lists each of these hazards at the line where it bites.

## 2. Modules

```
CreditMeter <- WatchPoller -> PrepaidAccounts        TopUpQuotes -> CreditLedger
                    ^                                     ^
              MCWatchPoller                          MCTopUpQuotes

WatchPoller <- WatchPollerProofs <- OneTickProofs <- BillProofs, ReceiverProofs

MCDashScan -> DashScan <- DashScanProofs              ScanJob <- ScanJobProofs

TopUpQuotes <- TopUpQuotesProofs

PriceOracle, CoinValue, SurgePricing <- Checkout <- MCCheckout
                                           ^
                                     CheckoutProofs
```

An arrow points to the module that is extended or instantiated.

**CreditMeter** — what creating, charging and topping up do to the billing
columns. Floors and clamps are the code's: `DayCharged` moves neither the credit
nor the day clock while less than one unit is due, and otherwise bills the whole
charge although the credit stops at zero; `ExpiryAfterCharge` is not capped,
`ExpiryAfterPayment` is. Rates are constants because nothing writes them once
the row exists. Cents-per-day and milliseconds become small integers.

**WatchPoller** — the table (`db`), the ticks (`tick`), the upstream jobs
(`jobs`), the chain (`tip`), time, and what each receiver has seen (`seen`, for
the properties only). One action runs from one await to the next:

| action | code |
|---|---|
| `CreateWatch`, `CancelWatch` | `createWatch`, `cancelWatch` |
| `TopUp` | `topupWatch(ById)` + `creditWatchRow`, in one process |
| `TopUpRead`, `TopUpWrite` | the same from another process: SELECT, then UPDATE |
| `TickBegin` | `runPollerTick` up to `listActiveWatches` |
| `TakeRow` | `pollOne`: day charge, written if anything changed; then the low-credit condition, the empty-meter exit, poll or start |
| `WarningArrives`, `WarningAcknowledged`, `WarningFails` | `maybeFireLowCredit` |
| `PollFound`, `PollNotFound`, `FirstPollNotFound` | `pollJobForRow`, `clearNfptJob`, and `Judge`: premature?, store `last_known`, news? |
| `StartReply` | `startJobForRow` and the write of the job id |
| `WebhookArrives`, `WebhookAcknowledged`, `WebhookFails` | `deliverWebhook` and the write after it |
| `CallThrows` | the `catch` of the tick's loop |
| `TickEnd` | `purgeExpired` with the clock of the tick's start |
| `Crash` | the process restarts; nothing but the table survives |
| `Mine`, `JobScans`, `JobFails`, `JobLost`, `JobEvicted`, `Advance` | external: the chain, the scanner, the clock |

A webhook's arrival and its acknowledgement are separate steps, so a reply that
is lost after the receiver acted is a behaviour of the model.

From the listing of the rows (`private-watch-poller.js:117`) to the first call (157-164
and on), and from the end of one row to the first call of the next, there is no await
that lets another task of the process in: only microtasks run. A tick in stage `next`
therefore keeps the thread. `ThreadFree` and `HasThread` say so: no other tick, no REST
call and no top-up of the same process comes in before the tick has reached a call, so
that listing and taking the first row are one turn of the event loop. The statements of
the other process (`TopUpRead`, `TopUpWrite`), the chain, the scanner and the clock may
move at any time. `TopUpWhen` says how payers behave:

* `"quiet"`: top-ups only while no tick runs;
* `"anytime"`: also while a tick awaits a call;
* `"split"`: besides those, the receive poller's process pays in too, by a SELECT and an
  UPDATE with anything in between, be it a step of a tick or a whole REST top-up. One such
  process, so one such top-up at a time.

`seen` also counts, per watch, what was really paid (`paid`), which the column
`credit_topups_atomic` is meant to hold and may not. Abstracted: rows
are taken in any order (the code's order depends on a column nothing else
reads); all watches follow the same balance history; a scan error is a Boolean.
A watch's id never becomes free again (`AbsenceAssumption`; the code draws
`randomUUID`s).

**PrepaidAccounts** — what the payer is promised: an account is opened with
credit, charged, credited and closed; a charge takes at most what is there and
never bills less than it takes. `WatchPoller!ImplementsAccounts` maps every row to
such an account.

**TopUpQuotes** — quotes, claims (`payment`), our wallet's history (`chain`) and
the workers that run `runCryptoRecvTick`. One action runs to the next await or
to the next statement another worker could come in before: `ScanReply` (list and
match), `MarkSeen`, `ClaimRefused`, `Claim`, `Credit`, `CreditRefused`, `CreditThrows`,
`Settle` and `Rollup` (the two UPDATEs of `settlePayment`), `TickEnd` (the expiry sweep),
`ScanFails`, `Crash`. An `applyCredit` that throws takes the path of a refusal
(`crypto-recv-poller.js:212`): before it has landed that is `CreditRefused` on a watch
that is alive, afterwards it is `CreditThrows`, which releases the claim of a payment the
watch has been credited for; `CreditFaults` says which of them may happen. A crash ends with the process opening the database again, and
so with the backfill of `ensureCryptoTopupSchema` (`Backfilled`): the last payment of
a settled quote is recorded as credited unless it is on record. The initial database
is new or holds a quote settled before the payment table existed (`Legacy`), just
opened. Memos and amounts are keys; `MemoKeys` says whether a key is
ever reused. `applied` counts how often a watch was credited for a payment: the
effect of the callback, which no table records. `Prompt` says that a live worker
never takes longer than `CLAIM_STALE_MS` to credit; the code relies on it without
enforcing it.

**CreditLedger** — the promise of the receive side: what was confirmed is owed, is
paid once, and is told as paid only then. `TopUpQuotes!ImplementsLedger` is the
refinement.

**ScanJob** — `scanReceiving` and `scanHistorical`: `StartScan`, `StartReplyLost`,
`Poll`, `StopWaiting` (the deadline may pass after any poll), `FetchRaw`, `Cancel`,
`RequestFails`, one action per request. The scanner is external and behaves as the
comments of the code tell it: `Advance`, `Finish` (which writes the wallet's result
cache), `Expire`, `JobBreaks`; a cancelled job's progress is discarded. One caller
scans one wallet again and again, by either function. The wallet is paid in every
block, so "the payments of a raw job" are a height. The scanner may also answer in ways
the code takes for good (`Oddities`): a raw reply without a job, which
`fetchRawJob` turns into null and `extractIncoming` into no payments at all
(`FetchNothing`, `private-watch-nfpt.js:555`, 482); a progress without one of the heights,
for which the normalisers put the next one there is or 0 (`SnapshotsWithoutHeights`, 646,
671); and a progress that is a number of its own and does not follow from the heights
(`SnapshotsOutOfStep`, 648, 673). `LastMille` is what 0.1% of a
scan amounts to in blocks, since a progress of 0.999 counts as complete. A failed
job is taken to keep in its raw form what it had found.

**DashScan** — `scanDashReceiving`, one action per page (`ReadPage`), with `StartScan`
and `QueryFails`. External are the growing stream (`Arrive`), the nodes, which give
whole chunks and may lag behind the stream, and the caller, which deals with the
payments (`Deal`) and then saves `nextIndex` (`SaveCursor`) or dies in between
(`CallerDies`). That order is an assumption: `runCryptoRecvTick` does not hand
`nextIndex` on, and a caller that saved it inside its scan callback would lose the
payments of a tick that dies. Initial cursors need not be aligned, as the comment
about older builds says.

ScanJob, DashScan and TopUpQuotes meet in `runCryptoRecvTick`: what a scan
returns is what `TopUpQuotes!ScanReply` lists.

**PriceOracle** — `getUsdPrice`, called by several requests. `Ask` runs to the await:
a fresh cached price answers at once, else a fetch goes out, however many are out
already. `SourceAnswers` is the moment the market quotes (external), `ReplyArrives`
the moment the reply replaces the cache, `FetchFails` any failure including the abort
timer, `Collect` the caller's continuation. A set of prices is identified by when it
was quoted; a reply may lack coins. `Advance` lets no fetch outlive the abort timer.

**CoinValue** — `AmountsFor` (`usdCentsToCoinAtomic`), `CentsFor` (`coinAtomicToUsdCents`,
which only tests call) and `CreditCents` (`creditCentsFor`). The code computes the first
two in doubles. What it rounds is therefore within one part in `Sliver` of the exact
quotient (2^50 is a safe figure for the four operations it takes), and both are the set
of outcomes which that allows. The 29 cents that ask for 29000000 units at $1 and read back
as 28, and the 7 cents that ask for 7000001, are among them. `CreditCents` is in integers,
as in the code, with its branch for an amount that is no number (`Unreadable`): the whole
quote is credited (`crypto-recv-poller.js:106`, pinned by
`test/crypto-recv-poller.test.js:114`). Its other branch there, for an expected amount
that is no positive number, cannot be reached: `createQuote` refuses those.

**SurgePricing** — `ComputeWatchRate` from the number of active watches, with the
rounding, the common factor and the common cap.

**Checkout** — the three composed: a customer's watch is priced (`OrderWatch`) and, other
requests later, created at those rates (`CreateWatch`); the customer asks the oracle
(`AskPrice`), gets a quote at what it came back with (`CreateQuote`, `NoPrice`) and
pays it in instalments (`PayInstalment`), until the quote leaves its window
(`QuoteEnds`). The order of these calls is the embedding server's, which the
repository only describes; each call's effect is the library's. Crediting is one step
here, since TopUpQuotes has its workers and WatchPoller what becomes of the credit;
`Others` stands for the watches of other customers.

**MCWatchPoller, MCTopUpQuotes, MCDashScan, MCCheckout** — balance histories, price
histories, symmetry sets, an old database and the values of notes for TLC.

Definitions commented "Slip:" are the plausible bugs used to show that a property
can fail: the run of a property fails when the slip replaces the operator it
stands next to.

## 3. Runs

Passing:

| run | instance | properties |
|---|---|---|
| WatchPollerSerial | one watch, one ticker, two faults of five kinds, top-ups between ticks | TypeOK, Conserved, DeltasAddUp, RestartsMoveNoMoney, OneWarningPerCrossing, DeadOnlyAfterMaxInARow, ImplementsAccounts |
| WatchPollerAnytime | one ticker, top-ups between any two awaits, one fault including a crash and a lost reply, a lifetime cap that bites | NeverOverbilled, PaidTimeKept, PurgeSparesPaidTime |
| WatchPollerTwoTicks | two overlapping tickers, two processes that pay in | NeverGrantsUnpaidCredit |
| WatchPollerFair | two watches in one tick, one fault of any of seven kinds, fairness | TickTerminates, CancelTakesEffect, BalanceEventuallyDelivered |
| TopUpMemo | two workers, two payments of one quote, prompt credits that may throw before they land, a new database or an old one | TypeOK, CreditedOnce, RollupAgrees, StatusMovesForward, ImplementsLedger |
| TopUpFair | one worker, a crash and a restart or a credit that throws late, credits that throw early, three payments of which one is dust and one has no hash, fairness | CreditedIsConfirmed, ClaimsAreResolved, ConfirmingGetsCredited |
| DashScan | chunks of 2, a stream of 6 notes, pages clamped to one or two chunks, nodes that lag by 3, a cap of 3 notes, one fault, fairness | TypeOK, NothingSkipped, QueriesAligned, ReportsOnlyNewPayments, FallsBackLessThanAChunk, EveryPaymentDealtWith |
| ScanJob | two job slots, a chain of 2 blocks, two faults, `cancelOnTimeout` off, every odd reply, fairness | TypeOK, ReachIsCovered, CompletedMissesLittle, NoJobLeftBehind, PaymentsAreSeen |
| Checkout | two customers, two coins of which one has a hard fallback, prices that move every moment, replies that overtake each other or lack a coin | TypeOK, CurrentPricesAreRecent, QuoteIsCovered, InstalmentsKeepTheirWorth, RatesShareOneFactor, CacheFallsBackLittle |

Each safety property is stated where the code keeps it. `Conserved` needs top-ups
to stay outside ticks; `PaidTimeKept` survives top-ups between awaits but not split ones;
`NeverOverbilled` survives split ones (the theorem `BillIsFair`) but not two ticks;
`NeverGrantsUnpaidCredit`, which compares the credit with what was really paid, survives
all of it. It does not survive if stated of the column `credit_topups_atomic`: a
racing top-up takes a payment out of that column while a tick's stale copy still holds
its credit. `RestartsMoveNoMoney` is about scans without an error; of those with one the
code does announce amounts that are not there (below). `PurgeSparesPaidTime` says
what the purge at the end of a tick, which uses the clock of the tick's start, must not
do: delete a row whose paid time is not over, be it paid for during the tick.
`OneWarningPerCrossing` includes that a payment that lifts the credit re-arms the warning.
`ClaimsAreResolved` says that, without crashes and late throws, no claim is left behind
and every payment recorded as credited ends in a settled quote. `ReachIsCovered` and
`CompletedMissesLittle` speak of results whose own replies said everything (`odd`, which
the model keeps with each result and the code does not): a result whose raw reply had no
job may reach its height, and be called completed, with nothing in it, and one whose
progress left out a height may name the end of the scan as the height reached. The
`scannedHeight` of such a result is no promise; the callers in the repository do not
resume from it, and `PaymentsAreSeen` says that later scans find what one has missed,
whatever was odd. `QuoteIsCovered` says that the amount asked for is at most a unit away from the exact one and reads back
as the cents it is for when the spread is worth more than the sliver, and else as a cent
less at worst; it speaks of the quotes whose units and cents doubles tell apart
(`Sensible`). `InstalmentsKeepTheirWorth` counts an unreadable payment as one quote.

Violated, each by the code as it is, with the line it contradicts in
`PROJECT.json` under `findings`:

| run | property | what TLC shows |
|---|---|---|
| WatchPollerLostTopUp | Conserved | a top-up during an await is overwritten by the absolute credit written after it |
| TopUpDoubleCredit | CreditedOnce | a crash between `applyCredit` and `settlePayment`: the stale claim is credited again |
| TopUpReusedAmount | NoFalseAttribution | an amount quoted again while the settled quote is still matchable: one payment credits both |

Other disagreements that came up while modelling and are not runs of their own:

* Two processes that pay in lose payments to each other: a REST top-up between the receive
  poller's SELECT and UPDATE is taken back by the UPDATE, credit and total alike, although
  `private-watch-store.js:345` calls a top-up an "atomic UPDATE". WatchPollerTwoTicks has
  these behaviours; what it shows is that nothing is made up in them.
* A Monero job that fails without a balance is announced as a fall to zero, and the next
  one as a deposit of it all: `isPrematureSnapshot` lets an error through, `diffBalance`
  puts '0' for the missing balance (`private-watch.js:594`). Of a scan that has not looked
  yet the comment at 535 says that the absence of a balance is no balance of zero.
  WatchPollerSerial has these behaviours: the deltas still add up (`DeltasAddUp`), and
  `RestartsMoveNoMoney` leaves them out by name.
* An `applyCredit` that throws after its UPDATE has its claim released at once
  (`crypto-recv-poller.js:212`), so that the next tick credits the payment again without
  any crash. With `CreditFaults = {"after"}` and `Stale = 4`, so that no claim goes stale in
  time, TLC finds `CreditedOnce` violated on the instance of TopUpDoubleCredit by that;
  TopUpFair has these behaviours, and `NoCrash` excludes them where a claim must be paid once.
* A reply with a price for one coin drops the cached prices of all others
  (`crypto-price.js:144`), so that the hard fallback or an error follows although
  line 170 would "serve a still-warm cache" first. Checkout has these behaviours; no
  property of it forbids them.
* A claim left by a crash is never retried once its quote is no longer listed, though
  `crypto-topup-store.js:196` says "After staleMs it is ours to retry":
  `ClaimsSurviveCrashes` fails when a crash is allowed, hence the premise `NoCrash` of
  `ClaimsAreResolved`.
* `crypto-price.js:39` says that rounding up means "a payer can never under-fund the quoted
  USD value by a rounding sliver". Doubles round too: without a spread 29 cents of
  Zcash at $1 read back as 28, and 7 cents ask for a unit too many, which
  `test/crypto-price.test.js:22` knows. There is no run of its own, since what a double
  comes to in a given case is below the model.
* A raw reply without a job is taken for a job that found nothing
  (`private-watch-nfpt.js:482`).
* A stale price is served however old it is; only `source` tells the caller.
* `scanHistorical` returns the sums of a partial scan when its wait is over, and
  nothing in the result says so (its doc says it polls until completion). It then
  cancels the job as if it were complete.
* A job at 99.9% counts as completed and is cancelled while it runs, although
  `private-watch-nfpt.js:464` says a completed job is "always safe to cancel"; hence
  `LastMille` in two properties of ScanJob.
* With top-ups between awaits `OneWarningPerCrossing` fails too: the acknowledgement
  of a warning sets the latch a top-up has just re-armed.
* With two ticks `OneWarningPerCrossing` fails: both read the unset latch.
* `purgeExpired` deletes a watch as soon as a tick leaves it without credit,
  since the expiry of no credit is now; the low-credit warning is the only notice.
* Charges recompute the expiry without the lifetime cap that payments apply.
* The charge that empties a meter is billed in full although less was deducted;
  `PrepaidAccounts` therefore says "at least".
* `settlePayment` settles a quote in any state, so a cancelled quote whose payment
  is being credited ends up settled. `StatusMovesForward` allows exactly that.
* A crash between `settlePayment`'s statements leaves a credited payment on an
  unsettled quote; hence, again, the premise of `ClaimsAreResolved`.
* A second payment first seen after its quote left the grace window is dropped;
  hence the disjunct `settled` in `ConfirmingGetsCredited`.

### Bounds

* Units: a day is 2 ticks of the clock at 3 units a day, so that charges are
  floored (1 tick is worth 1, 2 are worth 3); a call costs 2, the threshold is 2,
  a watch starts with 6 (4 with two tickers). That is enough to run dry within the
  three clock steps of the safety runs by days and calls alike, to cross the
  threshold, to top up once (`MaxPaid` = start + 3) and cross it again. Lifetime
  cap: 2 where it should bite, 100 where it should not.
* What may be paid (`MaxPaid`) leaves room for two top-ups where two processes pay in.
* Balances: a deposit and a spend (`<<0, 2, 1>>`), so a restarted scan can report
  zero and an older height while a lower balance is legitimate; one deposit where
  the balances are not the point.
* `MaxAttempts` 2 with two faults: dead-lettering and a reset between failures.
* The fair run stops the clock (`MaxTime` 0): payable watches stay payable, which
  is the premise of `BalanceEventuallyDelivered` anyway, and liveness checking stays
  feasible with two watches.
* Quotes: lifetime 1, grace 1, stale after 2, two
  confirmations, a chain of 3 blocks, 3 clock steps: a quote can expire while
  confirming, leave its grace window, and a claim can go stale once. `Pay` leaves
  room on the chain to bury the payment and `Crash` leaves time for the claim to go
  stale, so that a bound is never what prevents a retry.
* Dash: three chunks, a cap that is no multiple of a chunk (as 50,000 is none of
  2,048), a page size of two and a half, a lag of more than a chunk, notes worth a
  fraction more than whole duffs.
* Checkout: a cache lifetime and an abort timer of one step and two steps of time: a
  price can go stale, a fetch can be overtaken, and a reply can be as late as it gets.
  A coin is 100 units and a whole 50 basis points (tolerance 1, spread 2), so that the
  rounding of every division shows; instalments are a quarter, about half and just
  above the amount of a quote, or unreadable, two per quote. `Sliver` is 200 there, so that
  with a price of 40 a double can be a unit off in either direction; the last of 2^50 is
  for the theorem. The entry tier is 20 and 5 with caps 40
  and 6, no common multiple, so that the call rate caps first; 0 or 10 other watches.
* Scan jobs: with `LastMille` 1 and two blocks a job can be early, nearly done or done,
  and a height that is left out can be taken for another one. A reply without a job, or
  with a progress at odds with its heights, costs a fault; two faults let one reply be odd
  and another be lost. Two slots let an abandoned job run beside the next one.

Deadlock is checked in every run; no configuration switches it off.

### Fairness

* `SF(TickBegin)`, `SF(TickStep)`: the timer keeps firing, and each of a tick's
  HTTP calls returns, because `deliverWebhook` and the scanner client abort theirs
  after a timeout. Strong, because the reply is handled when the thread is free, which
  another tick may keep from it again and again but not for ever: the event loop takes
  its tasks in turn. Whether it returns well is not assumed; faults are bounded, as
  the property says "with finitely many faults".
* `WF(JobScans)`, `WF(JobEvicted)`: external. The scanner makes progress and does
  not keep a failed job for ever. Without the latter `BalanceEventuallyDelivered`
  fails, since the poller polls a failed job until the scanner forgets it.
* `SF(ScanReply)`, `SF(Credit)`, `WF(WorkerStep)`: wallet scans may fail and credits may
  throw, but not all of them; a tick that has begun goes on. `WF(Mine)`, `WF(Advance)`: blocks and time.
* ScanJob: `WF` of the scanner's progress and of its clearing away (external), of
  each request's return, and `SF(StartScan("receiving"))`, as the timer scans in
  every tick. A wait may always end after the first poll.
* DashScan: `WF` of the scan's and the caller's steps, and `SF(ReadCurrentPage)`: of
  infinitely many queries some reach a node that has the whole stream.
* Nothing is assumed of the faults, the crashes or the REST calls.

## 4. Theorems

TLAPS proves, for all constants that satisfy the named assumptions of the modules:

* `WatchPollerProofs!TypeCorrect`: `Spec => []TypeOK`. `TypeOK` is not inductive: a tick
  that awaits an answer uses the watch, the row and the job in its locals, and
  `TypeOK` allows them to be absent. `TypeInv` adds `Busy` (they are there when a
  call is out) and the same for a split top-up. The proof has one lemma per action.
* `WatchPollerProofs!CreditIsPaidFor`: `Spec => []NeverGrantsUnpaidCredit`, for any number
  of overlapping ticks and all three ways a top-up can interleave, a REST top-up between
  the two statements of the other process included. It bounds the credit by what was
  really paid, a count the model keeps, not by the column of the row, which a racing
  top-up can set back. Ticks write back credits computed from stale copies, so the
  invariant speaks of the copies: `TicksPaid` says each copy's credit is at most what has
  been paid for its watch by now; `TopUpPaid` says the same of a split top-up's copy once
  its own amount is added, and that it is another process's. It is preserved because
  payments only raise what was paid (`PaysNothing`, `OnlyPays`) and charges only lower
  a credit (`ChargesLower`). The two new conjuncts were checked with TLC on the instance
  of WatchPollerTwoTicks before they were proved.
  The first part of the module has the facts about floors, clamps and expiries.
* `OneTickProofs!CopiesStayInStep`, the core of what follows: while no two ticks overlap
  (`OneTicker`), a copy a tick holds of a row, in its hands or still in its list, has
  the row's bill, day clock, deliveries, delivered snapshot, failures and job
  (`TickColumns`, which only ticks write), and, when top-ups keep out of ticks, its
  credit and its latch too. A cancelled row still matches; a purge only follows a tick's
  last row. The module also says, action by action, which columns of which row a step
  writes (`RowSteps`, `Writes`), so that the proofs that use it look at a few steps each.
* `BillProofs`, about the payer's side. With `OneTicker`:
  `BillIsFair` (`NeverOverbilled`) for every way a top-up can interleave, because the
  bill and the day clock are among the columns in step;
  `ExpiryCoversTheCredit` (`PaidTimeKept`) and `PurgeComesAfterThePaidTime`
  (`PurgeSparesPaidTime`) when a top-up is one transaction (`TopUpWhen # "split"`): the
  invariant dates each copy's day clock no later than now, and each charge and payment
  recomputes the expiry from the credit it writes;
  `PollerIsPrepaidAccounts` (the refinement of PrepaidAccounts, by the action a step maps
  to: open, charge, credit, close, stutter) when top-ups keep out of ticks
  (`TopUpWhen = "quiet"`). With quiet top-ups only, and any number of ticks:
  `NoPaymentIsLost` (`Conserved`). Copies may be stale then, but every write of the poller
  writes the credit and the bill of one copy, and each copy's credit and bill make up
  what was paid into its row (`Accounted`), since no payment comes in while a copy exists.
* `ReceiverProofs`, about what the receiver is told, with `OneTicker` throughout, each by
  an invariant that says what a call that is out has already done to the receiver:
  `DeadAfterARow` (`StreakInv`: the counter of the row is at most the streak of failures, and only a full one gives up);
  `ReceiversArriveAtTheBalance` (`SumInv`: the sum is the delivered balance, or that of
  the snapshot in the call that has arrived), `WarnedOncePerCrossing` (`WarnInv`: who was
  warned has the latch set or is about to; the latter with quiet top-ups), both when no
  answer is lost after the receiver acted (`NoLostReplies`);
  `ScansStartedOverMoveNoMoney` (`RestartsMoveNoMoney`; `ScanInv`: balances go with
  heights, and a job, a stored snapshot and one being judged never show a balance from
  where the job has not been), which is about snapshots without an error: those with one
  do announce money that did not move. The four were checked with TLC on the one-ticker
  instances first.
* `DashScanProofs`: all safety properties of DashScan, under `ScanAssumption` only. The
  strengthening `PassCovers` says that whatever a scan has walked over from the
  saved cursor on is in its result, and after `Deal` among the payments dealt with;
  `CursorInReach` bounds its cursor from both sides. The arithmetic of aligning is in
  `DivFacts`.
* `ScanJobProofs`, whatever odd replies the scanner gives: `ScanTypeCorrect`,
  `ResultsCoverTheirReach` (`ReachIsCovered`) and `CompletedIsNearlyAll`
  (`CompletedMissesLittle`). The invariant carries what they say of a result back to the
  locals of the scan (`FoundIsCovered`, `FoundIsNearTheEnd`). The strengthening
  `JobKeepsUp` says the polled job, while it exists, has scanned at least what it
  reported, so the later request cannot return less; `JobsInStep` that a job that is
  done has reached its target. `HistoricalScansCleanUp` (`NoJobLeftBehind`): `LeftInv`
  adds that the polled job is of the kind of the scan that polls it and that an idle scan
  polls none; every step either leaves no further job behind, or one and counts a fault
  (`LeavesNone`, `LeavesOne`), so the cardinality is bounded by the faults.
* `TopUpQuotesProofs`, for any number of quotes, payments, workers, ticks, blocks and
  crashes: `QuotesTypeCorrect`, `CreditIsForConfirmedPayments`, `QuotesMoveForward`. The
  invariant (`WorkersSound`, `MoneySound`) says that what a tick took from the tables
  is still known and, once claimed, confirmed, and that a settled quote's last seen
  payment was applied, which is what makes the backfill after a restart sound. It is
  preserved because matches, confirmations and credits only grow (`Grows`).
* `TopUpQuotesProofs`, while no worker crashes (`NoCrash`) and no credit outlasts its
  claim (`Prompt`): `CreditsOnce`, `SettledQuotesAgree` and `QuotesAreALedger`, the
  refinement of CreditLedger. `NoCrash` also excludes credits that throw after they have
  landed, which leave the tables as a crash and a release would; those that throw before
  are covered. The invariant `OnceInv` says that a worker between claim
  and settlement holds a claim that is on record, uncredited and fresh
  (`HeldIsFresh`), that no two hold the same (`HeldByOne`), that nothing was paid
  before (`UnpaidBefore`) and that what was paid is on record or about to be
  (`PaidIsOnRecord`). Both premises are needed: TopUpDoubleCredit
  drops the first.
  For the refinement, `KeysAreKnown` makes everything that is owed a payment of an
  existing quote, `Credit` maps to `PayOut`, `Settle` to `Report`, and every other
  step to `Confirm` (`MoneySteps`).
* `CheckoutProofs`, of the oracle alone: `CurrentIsRecent`, `CacheKeepsUp`. The
  invariant dates things: a reply was quoted after its fetch went out and before now
  (`CallsAreTimed`), and a cached price was quoted at most one abort timer before it was
  cached (`CacheIsDated`).
* `CheckoutProofs`, of the composition: `UsesTheOracle` (every behaviour of Checkout is one of the oracle, so
  its theorems carry over, `CheckoutPrices`), `QuotesAreCovered`, `InstalmentsAreWorthIt`,
  `RatesAreInStep`. They rest on lemmas about the ceiling, the floor, the tolerance
  band and the rounding of a surged rate, for all amounts and prices. `QuotesAreCovered`
  holds of every amount within the sliver of a double: `AmountBounds` puts it between two
  rationals, `OneUnitOff` and `ReadBackBounds` bound what the second rounding makes of it,
  and `TwoSlivers` says when the spread outweighs both.

The premises are needed, and each says where the code is exposed. The example server's
timer starts a tick while the last one still runs, and then two ticks write from the
same copies: one takes back the bill of a delivery the other has made, writes back
an expiry or a count of failures from before, sends the delta or the warning a second time, or
judges a snapshot by a baseline that has moved. A top-up during a tick (`"anytime"`) loses
its money or its latch to a write from a copy, which WatchPollerLostTopUp shows; one in
two statements (`"split"`) also writes an expiry from before a charge that moved the day
clock. A lost reply, or a crash before the acknowledgement, makes the next delivery repeat
what the receiver has added already. Without its premises TLC finds each of these
properties violated on the instance of WatchPollerTwoTicks (with two steps of time and, for
failures, faults) or of WatchPollerAnytime. `CreditIsPaidFor` alone has no premise: the
races lose payments and bills, but with one other process that pays in they never leave
a watch with more credit than was paid for it. The premises are constraints on the constants, and the
passing runs satisfy those of the properties they check.

Every invariant of a passing run is a theorem, under the premises its run satisfies, and
so is every action property and refinement. Only model-checked is liveness: `TickTerminates`, `CancelTakesEffect`,
`BalanceEventuallyDelivered`, `ClaimsAreResolved`, `ConfirmingGetsCredited`,
`EveryPaymentDealtWith`, `PaymentsAreSeen`. It needs `ENABLED`, which the prover does not
handle. `CreditedOnce` and what follows from it are proved under the premises of section
3, outside of which TLC shows them violated.

## 5. Not modelled

Request validation, the webhook URL guard, encryption, signing and scan tickets
are functions of their arguments without state. Summaries format rows. Schema
migration creates tables and columns; its one effect on data, the backfill of
payments, is in TopUpQuotes. The Orchard bindings are generated code. The
example server is wiring. Amounts are in Checkout and "dust or not" in
TopUpQuotes; rates are computed in Checkout and constant in WatchPoller, since
nothing writes them once a row exists. Of doubles only the size of their error is
modelled, not what they come to in a given case.

## 6. Plan

*Done*: CreditMeter, WatchPoller, PrepaidAccounts; TopUpQuotes, CreditLedger; ScanJob,
DashScan; PriceOracle, CoinValue, SurgePricing and their composition Checkout;
the theorems of section 4.

What a continuation would take up, in this order:

1. **WatchService**: WatchPoller and TopUpQuotes composed over one table, so that
   `applied` becomes a top-up of a row and `alive` the row's existence. Their product is
   beyond TLC on instances where either is interesting; the way is to compose the two
   abstract specifications, PrepaidAccounts and CreditLedger, which both components are
   proved to implement.
2. What of the one-ticker theorems survives overlapping ticks, as `Conserved` and
   `NeverGrantsUnpaidCredit` do. A bill may be off in either direction then: a tick may
   put back the count of deliveries as well as the bill.
