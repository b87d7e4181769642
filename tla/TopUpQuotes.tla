----------------------------- MODULE TopUpQuotes -----------------------------
(***************************************************************************)
(* Crediting watches from on-chain payments: the quote and payment tables  *)
(* (crypto-topup-store.js) and the receive poller that scans our wallet,   *)
(* matches what came in, claims each payment, credits the watch and        *)
(* settles the quote (crypto-recv-poller.js).                              *)
(*                                                                         *)
(* Several workers share the tables: overlapping ticks of one process, or  *)
(* the second poller that claimPayment arbitrates for.  A worker matches   *)
(* against the scan and the quote list it took at the start of its tick;   *)
(* one action runs up to the next await or up to the next statement whose  *)
(* interleaving with another worker can be told apart.                     *)
(*                                                                         *)
(* Abstracted: amounts and memos (a key per quote and payment; dust is     *)
(* what values at zero cents), tokens, one chain per instance, the order   *)
(* in which a tick takes its matches (any order here), the columns that    *)
(* only record the last sighting.                                          *)
(***************************************************************************)
EXTENDS Integers

CONSTANTS
  Quotes,      \* quote ids createQuote may hand out
  Txs,         \* payments to our wallet
  Keys,        \* what matches a payment to a quote
  MemoKeys,    \* TRUE: keys are random memos, never reused (zcash); FALSE:
               \* keys are amounts, unique among open quotes only (monero)
  Hashless,    \* payments the scanner reports without a transaction hash
  Dust,        \* payments worth less than a cent at the quoted rate
  Legacy,      \* a quote, with its payment, that was settled before the table of
               \* payments existed: a database may come with one of these
  Workers,
  Required,    \* confirmations before crediting
  QuoteTtl,    \* how long a quote may be paid
  Grace,       \* matchGraceMs
  Stale,       \* CLAIM_STALE_MS
  Prompt,      \* TRUE: no credit application outlasts Stale
  CreditFaults,   \* how an application may throw: "before" or "after" it lands
  MaxCrashes, MaxTip, MaxTime,   \* bounds of the exploration only
  NoTx, NoClaim, NoPair

ASSUME QuotesAssumption ==
  /\ Hashless \subseteq Txs /\ Dust \subseteq Txs
  /\ Legacy \subseteq Quotes \X (Txs \ Hashless)
  /\ MemoKeys \in BOOLEAN /\ Prompt \in BOOLEAN
  /\ CreditFaults \subseteq {"before", "after"}
  /\ Required \in Nat /\ QuoteTtl \in Nat \ {0}
  /\ Grace \in Nat /\ Stale \in Nat \ {0}
  /\ MaxCrashes \in Nat /\ MaxTip \in Nat /\ MaxTime \in Nat

Statuses == {"none", "pending", "confirming", "settled", "expired", "cancelled"}
Stages   == {"idle", "work", "credit", "settle", "rollup"}

VARIABLES
  quote,    \* [Quotes -> row], crypto_topup_quotes; status "none" is no row
  payment,  \* [Quotes \X Txs -> claim or NoClaim], crypto_topup_payments
  chain,    \* [Txs -> key and height, or NoTx], our wallet's history
  tip,
  worker,   \* [Workers -> the local state of a tick]
  alive,    \* quotes whose watch can still be credited
  applied,  \* how often each payment was credited to each quote's watch
  clock,
  crashes   \* workers that died, and credits that threw after they had landed

vars == <<quote, payment, chain, tip, worker, alive, applied, clock, crashes>>

Pairs == Quotes \X Txs

ASSUME QuotesAbsenceAssumption ==
  /\ NoTx \notin Txs \cup Keys /\ NoPair \notin Pairs
  /\ NoTx \notin [key: Keys \cup {NoTx}, height: Nat]
  /\ NoClaim \notin [at: Nat, credited: BOOLEAN]

NoQuote == [status |-> "none", key |-> NoTx, expires |-> 0, seen |-> NoTx, earned |-> {}]

\* What markSettled left behind.
LegacyQuote(x, k) ==
  [status |-> "settled", key |-> k, expires |-> QuoteTtl, seen |-> x, earned |-> {x}]

\* The payment is on record with credited_at_ms.
IsCredited(p) == payment[p] # NoClaim /\ payment[p].credited

IdleWorker == [stage |-> "idle", tip |-> 0, todo |-> {}, pair |-> NoPair]

\* Slip: databases are opened as they are.
BackfilledNothing(quotes, payments) == payments

\* Slip: a sighting is taken for a settlement.
BackfilledSeen(quotes, payments) ==
  [p \in Pairs |-> IF quotes[p[1]].seen = p[2] /\ payments[p] = NoClaim
                   THEN [at |-> 0, credited |-> TRUE] ELSE payments[p]]

\* ensureCryptoTopupSchema, whenever a process opens the database: the last
\* payment of a settled quote is recorded as credited, unless it is on record.
Backfilled(quotes, payments) ==
  [p \in Pairs |-> IF /\ quotes[p[1]].status = "settled" /\ quotes[p[1]].seen = p[2]
                      /\ payments[p] = NoClaim
                   THEN [at |-> 0, credited |-> TRUE] ELSE payments[p]]

\* A new database, or one with a quote settled in earlier times, just opened.
Init ==
  \E old \in Legacy \cup {NoPair}, k \in Keys :
    /\ quote   = [q \in Quotes |-> IF old # NoPair /\ q = old[1]
                                   THEN LegacyQuote(old[2], k) ELSE NoQuote]
    /\ payment = Backfilled(quote, [p \in Pairs |-> NoClaim])
    /\ chain   = [x \in Txs |-> IF old # NoPair /\ x = old[2]
                                THEN [key |-> k, height |-> 1] ELSE NoTx]
    /\ tip     = IF old = NoPair THEN 0 ELSE Required
    /\ worker  = [v \in Workers |-> IdleWorker]
    /\ alive   = Quotes
    /\ applied = [p \in Pairs |-> IF p = old THEN 1 ELSE 0]
    /\ clock   = 0
    /\ crashes = 0

-----------------------------------------------------------------------------
(* Quotes: REST calls *)

\* hasOpenQuoteWithAmount
OpenQuoteWithKey(k) ==
  \E q \in Quotes : quote[q].status \in {"pending", "confirming"} /\ quote[q].key = k

\* createQuote, behind the collision guard of its caller.
CreateQuote(q, k) ==
  /\ quote[q].status = "none"
  /\ IF MemoKeys THEN \A r \in Quotes : quote[r].key # k ELSE ~OpenQuoteWithKey(k)
  /\ quote' = [quote EXCEPT ![q] = [status |-> "pending", key |-> k,
                                    expires |-> clock + QuoteTtl, seen |-> NoTx,
                                    earned |-> {}]]
  /\ UNCHANGED <<payment, chain, tip, worker, alive, applied, clock, crashes>>

CancelQuote(q) ==
  /\ quote[q].status = "pending"
  /\ quote' = [quote EXCEPT ![q].status = "cancelled"]
  /\ UNCHANGED <<payment, chain, tip, worker, alive, applied, clock, crashes>>

\* The watch behind a quote is cancelled or purged: topupWatchById refuses.
LoseWatch(q) ==
  /\ q \in alive
  /\ alive' = alive \ {q}
  /\ UNCHANGED <<quote, payment, chain, tip, worker, applied, clock, crashes>>

-----------------------------------------------------------------------------
(* The chain and time, outside the repository. *)

\* Somebody pays a quote they were given, in the next block, while the bound
\* on the chain leaves room to bury it.
Pay(x, q) ==
  /\ chain[x] = NoTx
  /\ quote[q].status # "none"
  /\ tip < MaxTip /\ tip + Required <= MaxTip
  /\ tip' = tip + 1
  /\ chain' = [chain EXCEPT ![x] = [key |-> quote[q].key, height |-> tip + 1]]
  /\ UNCHANGED <<quote, payment, worker, alive, applied, clock, crashes>>

Mine ==
  /\ tip < MaxTip
  /\ tip' = tip + 1
  /\ UNCHANGED <<quote, payment, chain, worker, alive, applied, clock, crashes>>

\* Under Prompt, time does not pass a live worker's claim by.
Advance ==
  /\ clock < MaxTime
  /\ Prompt => \A v \in Workers :
       worker[v].stage \in {"credit", "settle"} /\ payment[worker[v].pair] # NoClaim
         => clock + 1 < payment[worker[v].pair].at + Stale
  /\ clock' = clock + 1
  /\ UNCHANGED <<quote, payment, chain, tip, worker, alive, applied, crashes>>

-----------------------------------------------------------------------------
(* One tick of the receive poller *)

\* Slip: a confirming quote is dropped at its deadline.
MatchableByDeadline(q) ==
  /\ quote[q].status \in {"pending", "confirming", "expired", "settled"}
  /\ quote[q].expires > clock - Grace

\* listMatchable
Matchable(q) ==
  \/ quote[q].status = "pending" /\ quote[q].expires > clock
  \/ quote[q].status = "confirming"
  \/ quote[q].status \in {"expired", "settled"} /\ quote[q].expires > clock - Grace

\* matchIncomingAll
Matches(x, q) == chain[x] # NoTx /\ chain[x].key = quote[q].key

\* computeConfirmations
Confirmations(x, height) ==
  IF height < chain[x].height THEN 0 ELSE height - chain[x].height + 1

\* The scan answers: the tick lists the quotes and matches them at once.
ScanReply(v) ==
  /\ worker[v].stage = "idle"
  /\ worker' = [worker EXCEPT ![v] =
       [stage |-> "work", tip |-> tip, pair |-> NoPair,
        todo |-> {p \in Pairs : Matchable(p[1]) /\ Matches(p[2], p[1])}]]
  /\ UNCHANGED <<quote, payment, chain, tip, alive, applied, clock, crashes>>

\* The scan throws: the tick has nothing to match, and still sweeps.
ScanFails(v) ==
  /\ worker[v].stage = "idle"
  /\ worker' = [worker EXCEPT ![v] = [IdleWorker EXCEPT !.stage = "work"]]
  /\ UNCHANGED <<quote, payment, chain, tip, alive, applied, clock, crashes>>

HashOf(x) == IF x \in Hashless THEN NoTx ELSE x

\* Slip: the status guard is missing.
SeenInAnyState(p) ==
  [quote EXCEPT ![p[1]].status = "confirming", ![p[1]].seen = HashOf(p[2])]

\* markSeen
Seen(p) ==
  IF quote[p[1]].status \in {"pending", "confirming", "expired"}
  THEN [quote EXCEPT ![p[1]].status = "confirming", ![p[1]].seen = HashOf(p[2])]
  ELSE quote

Taken(v, p) == [worker EXCEPT ![v].todo = @ \ {p}]

\* A match that is not buried deep enough is only recorded as seen.
MarkSeen(v, p) ==
  /\ worker[v].stage = "work" /\ p \in worker[v].todo
  /\ Confirmations(p[2], worker[v].tip) < Required
  /\ quote' = Seen(p)
  /\ worker' = Taken(v, p)
  /\ UNCHANGED <<payment, chain, tip, alive, applied, clock, crashes>>

\* Slip: an uncredited claim is retried without waiting for it to go stale.
ClaimableWhileUncredited(p) ==
  p[2] \notin Hashless /\ (payment[p] # NoClaim => ~payment[p].credited)

\* claimPayment: the key is free, or its claim is stale and uncredited.
Claimable(p) ==
  /\ p[2] \notin Hashless
  /\ \/ payment[p] = NoClaim
     \/ payment[p] # NoClaim /\ ~payment[p].credited /\ payment[p].at + Stale <= clock

\* The claim is refused: someone has it, it is credited, or it has no hash.
ClaimRefused(v, p) ==
  /\ worker[v].stage = "work" /\ p \in worker[v].todo
  /\ Confirmations(p[2], worker[v].tip) >= Required
  /\ ~Claimable(p)
  /\ worker' = Taken(v, p)
  /\ UNCHANGED <<quote, payment, chain, tip, alive, applied, clock, crashes>>

\* Slip: dust is skipped without being released.
ClaimKeepsDust(v, p) ==
  /\ worker[v].stage = "work" /\ p \in worker[v].todo
  /\ Confirmations(p[2], worker[v].tip) >= Required
  /\ Claimable(p)
  /\ payment' = [payment EXCEPT ![p] = [at |-> clock, credited |-> FALSE]]
  /\ worker' = IF p[2] \in Dust THEN Taken(v, p)
               ELSE [Taken(v, p) EXCEPT ![v].stage = "credit", ![v].pair = p]
  /\ UNCHANGED <<quote, chain, tip, alive, applied, clock, crashes>>

\* Slip: the claim is stamped with the retry deadline, in the past.
ClaimBackdated(v, p) ==
  /\ worker[v].stage = "work" /\ p \in worker[v].todo
  /\ Confirmations(p[2], worker[v].tip) >= Required
  /\ Claimable(p)
  /\ payment' = [payment EXCEPT ![p] = [at |-> clock - Stale, credited |-> FALSE]]
  /\ worker' = [Taken(v, p) EXCEPT ![v].stage = "credit", ![v].pair = p]
  /\ UNCHANGED <<quote, chain, tip, alive, applied, clock, crashes>>

\* The claim is granted; dust is released in the same breath.
Claim(v, p) ==
  /\ worker[v].stage = "work" /\ p \in worker[v].todo
  /\ Confirmations(p[2], worker[v].tip) >= Required
  /\ Claimable(p)
  /\ IF p[2] \in Dust
     THEN /\ payment' = [payment EXCEPT ![p] = NoClaim]
          /\ worker' = Taken(v, p)
     ELSE /\ payment' = [payment EXCEPT ![p] = [at |-> clock, credited |-> FALSE]]
          /\ worker' = [Taken(v, p) EXCEPT ![v].stage = "credit", ![v].pair = p]
  /\ UNCHANGED <<quote, chain, tip, alive, applied, clock, crashes>>

\* `await applyCredit' lands on the watch.
Credit(v) ==
  LET p == worker[v].pair
  IN  /\ worker[v].stage = "credit"
      /\ p[1] \in alive
      /\ applied' = [applied EXCEPT ![p] = @ + 1]
      /\ worker' = [worker EXCEPT ![v].stage = "settle"]
      /\ UNCHANGED <<quote, payment, chain, tip, alive, clock, crashes>>

\* releasePayment deletes an uncredited claim, whoever holds it.
Released(p) ==
  IF payment[p] # NoClaim /\ ~payment[p].credited
  THEN [payment EXCEPT ![p] = NoClaim] ELSE payment

\* The watch is gone, or the application throws before it lands: release the
\* claim for a later tick, record the sighting.
CreditRefused(v) ==
  LET p == worker[v].pair
  IN  /\ worker[v].stage = "credit"
      /\ p[1] \notin alive \/ "before" \in CreditFaults
      /\ payment' = Released(p)
      /\ quote' = Seen(p)
      /\ worker' = [worker EXCEPT ![v].stage = "work", ![v].pair = NoPair]
      /\ UNCHANGED <<chain, tip, alive, applied, clock, crashes>>

\* The application throws once the watch has its credit: to the tick that is a
\* refusal like any other.
CreditThrows(v) ==
  LET p == worker[v].pair
  IN  /\ worker[v].stage = "credit"
      /\ p[1] \in alive
      /\ "after" \in CreditFaults /\ crashes < MaxCrashes
      /\ crashes' = crashes + 1
      /\ applied' = [applied EXCEPT ![p] = @ + 1]
      /\ payment' = Released(p)
      /\ quote' = Seen(p)
      /\ worker' = [worker EXCEPT ![v].stage = "work", ![v].pair = NoPair]
      /\ UNCHANGED <<chain, tip, alive, clock>>

\* settlePayment, first statement: the payment is marked credited.
Settle(v) ==
  LET p == worker[v].pair
  IN  /\ worker[v].stage = "settle"
      /\ payment' = IF payment[p] = NoClaim THEN payment
                    ELSE [payment EXCEPT ![p].credited = TRUE]
      /\ worker' = [worker EXCEPT ![v].stage = "rollup"]
      /\ UNCHANGED <<quote, chain, tip, alive, applied, clock, crashes>>

\* Slip: the quote reports the last payment instead of the total.
RollupLatest(v) ==
  LET p == worker[v].pair
  IN  /\ worker[v].stage = "rollup"
      /\ quote' = [quote EXCEPT ![p[1]].status = "settled", ![p[1]].earned = {p[2]},
                                 ![p[1]].seen = p[2]]
      /\ worker' = [worker EXCEPT ![v].stage = "work", ![v].pair = NoPair]
      /\ UNCHANGED <<payment, chain, tip, alive, applied, clock, crashes>>

\* settlePayment, second statement: the quote is settled, whatever state it
\* is in, with the total over its credited payments.
Rollup(v) ==
  LET q == worker[v].pair[1]
      x == worker[v].pair[2]
      credited == {y \in Txs : IsCredited(<<q, y>>)}
  IN  /\ worker[v].stage = "rollup"
      /\ quote' = [quote EXCEPT ![q].status = "settled", ![q].earned = credited,
                                 ![q].seen = x]
      /\ worker' = [worker EXCEPT ![v].stage = "work", ![v].pair = NoPair]
      /\ UNCHANGED <<payment, chain, tip, alive, applied, clock, crashes>>

\* expireStalePending, the sweep that ends a tick.
TickEnd(v) ==
  /\ worker[v].stage = "work"
  /\ worker[v].todo = {}
  /\ quote' = [q \in Quotes |->
       IF quote[q].status = "pending" /\ quote[q].expires <= clock
       THEN [quote[q] EXCEPT !.status = "expired"] ELSE quote[q]]
  /\ worker' = [worker EXCEPT ![v] = IdleWorker]
  /\ UNCHANGED <<payment, chain, tip, alive, applied, clock, crashes>>

\* A worker's process dies between two of its steps, starts again and opens
\* the database, while the bound on time leaves room for its claim to go stale.
Crash(v) ==
  /\ crashes < MaxCrashes
  /\ clock + Stale <= MaxTime
  /\ worker[v].stage # "idle"
  /\ crashes' = crashes + 1
  /\ worker' = [worker EXCEPT ![v] = IdleWorker]
  /\ payment' = Backfilled(quote, payment)
  /\ UNCHANGED <<quote, chain, tip, alive, applied, clock>>

-----------------------------------------------------------------------------
Rest ==
  \E q \in Quotes : (\E k \in Keys : CreateQuote(q, k)) \/ CancelQuote(q) \/ LoseWatch(q)

\* What a tick does once its scan has answered.
WorkerStep(v) ==
  \/ \E p \in Pairs : MarkSeen(v, p) \/ ClaimRefused(v, p) \/ Claim(v, p)
  \/ Credit(v) \/ CreditRefused(v) \/ CreditThrows(v) \/ Settle(v) \/ Rollup(v)
  \/ TickEnd(v)

Next ==
  \/ Rest
  \/ \E x \in Txs, q \in Quotes : Pay(x, q)
  \/ Mine \/ Advance
  \/ \E v \in Workers : ScanReply(v) \/ ScanFails(v) \/ WorkerStep(v) \/ Crash(v)

Spec == Init /\ [][Next]_vars

\* The timer keeps firing, scans keep answering and credits keep landing, a
\* tick that has begun goes on, blocks keep coming and time passes.
Fairness ==
  /\ \A v \in Workers : SF_vars(ScanReply(v)) /\ SF_vars(Credit(v)) /\ WF_vars(WorkerStep(v))
  /\ WF_vars(Mine) /\ WF_vars(Advance)

FairSpec == Spec /\ Fairness

-----------------------------------------------------------------------------
(* Properties *)

TypeOK ==
  /\ quote \in [Quotes -> [status: Statuses, key: Keys \cup {NoTx}, expires: Nat,
                           seen: Txs \cup {NoTx}, earned: SUBSET Txs]]
  /\ payment \in [Pairs -> [at: Nat, credited: BOOLEAN] \cup {NoClaim}]
  /\ chain \in [Txs -> [key: Keys \cup {NoTx}, height: Nat] \cup {NoTx}]
  /\ tip \in Nat
  /\ worker \in [Workers -> [stage: Stages, tip: Nat, todo: SUBSET Pairs,
                             pair: Pairs \cup {NoPair}]]
  /\ alive \in SUBSET Quotes
  /\ applied \in [Pairs -> Nat]
  /\ clock \in Nat
  /\ crashes \in Nat

\* A payment credits the watch of a quote at most once, however many workers
\* see it, in however many ticks.
CreditedOnce == \A p \in Pairs : applied[p] <= 1

\* What the payment table calls credited really was, and only a payment of
\* this quote, buried deep enough, ever is.
CreditedIsConfirmed ==
  \A p \in Pairs :
    /\ IsCredited(p) => applied[p] >= 1
    /\ applied[p] > 0 => Matches(p[2], p[1]) /\ Confirmations(p[2], tip) >= Required

\* A settled quote reports exactly the payments that were credited to it,
\* unless a worker is between settlePayment's two statements.
RollupAgrees ==
  \A q \in Quotes :
    quote[q].status = "settled" /\ (\A v \in Workers : worker[v].stage = "rollup" =>
                                                         worker[v].pair[1] # q)
      => quote[q].earned # {} /\ quote[q].earned =
           {x \in Txs : IsCredited(<<q, x>>)}

\* Settling is final, and an open quote never goes back to pending.
StatusMovesForward ==
  [][\A q \in Quotes :
       /\ quote[q].status = "settled" => quote'[q].status = "settled"
       /\ quote[q].status \in {"confirming", "expired"} => quote'[q].status # "pending"]_vars

\* One transaction is credited for one quote only.
NoFalseAttribution ==
  \A x \in Txs : \A q, r \in Quotes : applied[<<q, x>>] > 0 /\ applied[<<r, x>>] > 0 => q = r

\* The owner or the watch has withdrawn.
Withdrawn(q) == q \notin alive \/ quote[q].status = "cancelled"

NoCrash == [](crashes = 0)

Resolved(p) == payment[p] = NoClaim \/ payment[p].credited

\* crypto-topup-store.js:196 "After staleMs it is ours to retry": a claim is
\* never left behind, it ends up credited or released.
ClaimsSurviveCrashes ==
  \A p \in Pairs : ~Resolved(p) ~> (Resolved(p) \/ Withdrawn(p[1]))

\* While no worker crashes and no credit throws late that is so, and a quote whose
\* payment is recorded as credited is reported as settled.
ClaimsAreResolved ==
  NoCrash =>
    /\ ClaimsSurviveCrashes
    /\ \A p \in Pairs :
         IsCredited(p) ~> quote[p[1]].status = "settled"

\* Once a quote is confirming, a payment of it is credited, unless the watch
\* is gone, the quote settles on another payment, or this one is worthless.
ConfirmingGetsCredited ==
  \A p \in Pairs :
    (quote[p[1]].status = "confirming" /\ Matches(p[2], p[1]) /\ p[2] \notin Dust \cup Hashless)
      ~> (applied[p] > 0 \/ p[1] \notin alive \/ quote[p[1]].status = "settled")

Ledger == INSTANCE CreditLedger WITH
  Claims <- Pairs,
  paid   <- applied,
  owed   <- {p \in Pairs : Matches(p[2], p[1]) /\ Confirmations(p[2], tip) >= Required},
  told   <- {p \in Pairs : IsCredited(p)}

\* For the payer the whole protocol is a ledger that pays each confirmed
\* payment once and reports only what it has paid.
ImplementsLedger == Ledger!Spec
=============================================================================
