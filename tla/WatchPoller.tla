----------------------------- MODULE WatchPoller -----------------------------
(***************************************************************************)
(* The watch poller (private-watch-poller.js) against everything it shares *)
(* state with: the private_watches table (private-watch-store.js), the     *)
(* REST calls that create, cancel and top up a watch, the upstream scanner *)
(* whose jobs it starts and polls, and the webhook receivers.              *)
(*                                                                         *)
(* A tick reads every active row once, at its start, and then works on     *)
(* those local copies.  Each HTTP call is an await: other ticks and REST   *)
(* calls run while it is out.  Between two awaits the code is synchronous  *)
(* (one JavaScript thread, a synchronous SQLite driver).  From the listing *)
(* of the rows to the first call, and from the end of one row to the first *)
(* call of the next, a tick keeps the thread (stage "next"): nothing else  *)
(* of its process runs, though the receive poller's process may.           *)
(*                                                                         *)
(* Abstracted: secrets, tokens and view keys; the wording of bodies; the   *)
(* order in which a tick takes its rows (any order here; the code sorts by *)
(* last_polled_at_ms, which nothing else reads); all watches follow the    *)
(* same balance history; one kind of scan error.                           *)
(***************************************************************************)
EXTENDS Integers, Sequences, CreditMeter

CONSTANTS
  Watches,      \* ids createWatch may hand out
  Tickers,      \* concurrent invocations of runPollerTick: one, or two when
                \* a timer fires while the previous tick is still awaiting
  JobIds,       \* upstream scan jobs
  Starter,      \* the credit a watch is created with
  TopUpAmounts, \* what a top-up may pay
  MaxAttempts,  \* MAX_DELIVERY_ATTEMPTS
  BalanceAt,    \* BalanceAt[h + 1]: the balance once the scan reached height h
  Chain,        \* "monero" or "zcash": they report a bare failure differently
  TopUpWhen,    \* "quiet": only while no tick runs; "anytime": whenever no tick
                \* keeps the thread; "split": from another process as well,
                \* between any two statements
  FaultKinds,   \* which faults the environment may inject
  MaxFaults, MaxTime, MaxPaid,  \* bounds of the exploration only
  Unborn, Purged, NoJob, NoSnap, NoRow, Gone   \* absent values

MaxHeight == Len(BalanceAt) - 1
NoBalance == -1     \* balanceAtomic: null

AllFaults == {"poll_error", "start_error", "job_lost", "job_failed",
              "refused", "reply_lost", "crash"}

ASSUME PollerAssumption ==
  /\ Starter \in Nat \ {0}
  /\ TopUpAmounts \subseteq Nat \ {0}
  /\ MaxAttempts \in Nat \ {0}
  /\ BalanceAt \in Seq(Nat) /\ Len(BalanceAt) > 0
  /\ BalanceAt[1] = 0
  /\ Chain \in {"monero", "zcash"}
  /\ TopUpWhen \in {"quiet", "anytime", "split"}
  /\ FaultKinds \subseteq AllFaults
  /\ MaxFaults \in Nat /\ MaxTime \in Nat /\ MaxPaid \in Nat

\* What normaliseMonero and normaliseOrchard reduce a job to.
Snapshot == [status: {"running", "completed", "failed"},
             height: 0 .. MaxHeight, balance: Nat \cup {NoBalance}, error: BOOLEAN]

\* The columns of private_watches the poller and the meter read or write.
Row == [credit: Nat, topups: Nat, billed: Nat, lastBilled: Nat, expires: Nat,
        created: Nat, warned: BOOLEAN, job: JobIds \cup {NoJob},
        known: Snapshot \cup {NoSnap}, delivered: Snapshot \cup {NoSnap},
        attempts: Nat, deliveries: Nat, dead: BOOLEAN, cancelled: BOOLEAN]

\* The absent values are not rows, accounts, jobs or snapshots.  The id of a
\* purged watch is not free again: createWatch draws random ids.
ASSUME AbsenceAssumption ==
  /\ Unborn # Purged /\ Unborn \notin Row /\ Purged \notin Row
  /\ NoRow \notin [credit: Nat, topups: Nat, billed: Nat]
  /\ NoJob \notin JobIds
  /\ NoSnap \notin Snapshot

\* Where an invocation of runPollerTick is: idle, between two rows, or
\* awaiting one of its HTTP calls.
Stages == {"idle", "next", "warn", "poll", "start", "first", "post"}

\* The local state of an invocation: the rows it has listed and not yet taken,
\* and what it holds of the row it is working on.
Tick == [stage: Stages, startMs: Nat, todo: [Watches -> Row \cup {NoRow}],
         watch: Watches \cup {NoRow}, row: Row \cup {NoRow}, nowMs: Nat,
         snap: Snapshot \cup {NoSnap}, heard: BOOLEAN]

VARIABLES
  db,      \* [Watches -> Row or Unborn or Purged], the table
  tick,    \* [Tickers -> the local state of a tick]
  topup,   \* the row a split top-up has read, with its watch and amount
  jobs,    \* [JobIds -> Snapshot or Gone], the upstream scanner
  tip,     \* the height of the chain
  clock,
  faults,  \* faults injected so far
  seen     \* what each receiver has seen and each payer paid, for the
           \* properties only

vars == <<db, tick, topup, jobs, tip, clock, faults, seen>>

Exists(w) == db[w] \notin {Unborn, Purged}

\* The poller's process is in its event loop: no tick is between two awaits.
ThreadFree == \A t \in Tickers : tick[t].stage # "next"

\* A reply for tick t is handled when no other tick keeps the thread.
HasThread(t) == \A u \in Tickers \ {t} : tick[u].stage # "next"

IdleTick == [stage |-> "idle", startMs |-> 0, todo |-> [w \in Watches |-> NoRow],
             watch |-> NoRow, row |-> NoRow, nowMs |-> 0, snap |-> NoSnap,
             heard |-> FALSE]

NoTopUp == [watch |-> NoRow, row |-> NoRow, amount |-> 0]

Init ==
  /\ db     = [w \in Watches |-> Unborn]
  /\ tick   = [t \in Tickers |-> IdleTick]
  /\ topup  = NoTopUp
  /\ jobs   = [j \in JobIds |-> Gone]
  /\ tip    = 0
  /\ clock  = 0
  /\ faults = 0
  /\ seen   = [w \in Watches |-> [sum |-> 0, streak |-> 0, warnings |-> 0, paid |-> 0]]

-----------------------------------------------------------------------------
(* Pure helpers *)

\* pickBetterKnown: of two stored snapshots, the one that got further.
PickBetterKnown(known, delivered) ==
  IF known = NoSnap THEN delivered
  ELSE IF delivered = NoSnap \/ known.height >= delivered.height THEN known
  ELSE delivered

\* Slip: only a scan at height zero is recognised as restarted.
IsPrematureAtZeroOnly(baseline, snap) ==
  snap # NoSnap /\ ~snap.error /\ snap.status # "completed" /\ snap.height = 0

\* isPrematureSnapshot: an unfinished, error-free scan that has seen nothing
\* yet, or less than what was already known.
IsPremature(baseline, snap) ==
  /\ snap # NoSnap
  /\ ~snap.error
  /\ snap.status # "completed"
  /\ \/ snap.height = 0
     \/ baseline # NoSnap /\ snap.height < baseline.height

BalanceChanged(before, snap) ==
  /\ snap.balance # NoBalance
  /\ before = NoSnap \/ snap.balance # before.balance

\* diffBalance returns something: news worth a webhook.
IsNews(before, snap) ==
  /\ snap # NoSnap
  /\ \/ BalanceChanged(before, snap)
     \/ snap.error # (before # NoSnap /\ before.error)
     \/ before = NoSnap /\ snap.status = "completed"

\* diffBalance's amounts: an unknown balance counts as zero.
Amount(snap) ==
  IF snap = NoSnap \/ snap.balance = NoBalance THEN 0 ELSE snap.balance

Delta(before, snap) == Amount(snap) - Amount(before)

\* startMoneroJob / startOrchardJob: a new job has not looked at the chain.
FreshJob == [status |-> "running", height |-> 0, balance |-> 0, error |-> FALSE]

\* A failed job that reports neither progress nor balance: normaliseMonero
\* leaves the balance null, normaliseOrchard sums no notes to zero.
BareFailure == [status |-> "failed", height |-> 0, error |-> TRUE,
                balance |-> IF Chain = "monero" THEN NoBalance ELSE 0]

-----------------------------------------------------------------------------
(* REST calls *)

NewRow(now) ==
  [credit |-> Starter, topups |-> Starter, billed |-> 0, lastBilled |-> now,
   expires |-> ExpiryAfterPayment(Starter, now), created |-> now,
   warned |-> FALSE, job |-> NoJob, known |-> NoSnap, delivered |-> NoSnap,
   attempts |-> 0, deliveries |-> 0, dead |-> FALSE, cancelled |-> FALSE]

CreateWatch(w) ==
  /\ ThreadFree
  /\ db[w] = Unborn
  /\ db' = [db EXCEPT ![w] = NewRow(clock)]
  /\ seen' = [seen EXCEPT ![w].paid = @ + Starter]
  /\ UNCHANGED <<tick, topup, jobs, tip, clock, faults>>

CancelWatch(w) ==
  /\ ThreadFree
  /\ Exists(w)
  /\ ~db[w].cancelled
  /\ db' = [db EXCEPT ![w].cancelled = TRUE]
  /\ UNCHANGED <<tick, topup, jobs, tip, clock, faults, seen>>

\* MaxPaid bounds what is paid, the top-up in flight included.
TopUpAllowed(w, amount) ==
  /\ Exists(w)
  /\ ~db[w].cancelled
  /\ seen[w].paid + topup.amount + amount <= MaxPaid

\* The payer has paid.  A payment that clears the threshold starts a new
\* crossing to warn about.
SeenToppedUp(w, amount, credit) ==
  [seen EXCEPT ![w].paid     = @ + amount,
               ![w].warnings = IF credit > LowThreshold THEN 0 ELSE @]

\* topupWatch / topupWatchById in the poller's own process: the SELECT and
\* the UPDATE of creditWatchRow run without an await between them.  They may
\* still fall between the two statements of the other process.
TopUp(w, amount) ==
  /\ ThreadFree
  /\ TopUpWhen = "quiet" => \A t \in Tickers : tick[t].stage = "idle"
  /\ TopUpAllowed(w, amount)
  /\ db' = [db EXCEPT ![w] = ToppedUp(db[w], amount, clock)]
  /\ seen' = SeenToppedUp(w, amount, db[w].credit + amount)
  /\ UNCHANGED <<tick, topup, jobs, tip, clock, faults>>

\* The same call in the one other process, the receive poller: the SELECT ...
TopUpRead(w, amount) ==
  /\ TopUpWhen = "split"
  /\ topup = NoTopUp
  /\ TopUpAllowed(w, amount)
  /\ topup' = [watch |-> w, row |-> ToppedUp(db[w], amount, clock), amount |-> amount]
  /\ UNCHANGED <<db, tick, jobs, tip, clock, faults, seen>>

\* Slip: the UPDATE adds, as an atomic one would, but adds the new credit.
TopUpWriteAddsTwice ==
  LET w == topup.watch
      new == topup.row
  IN  /\ topup # NoTopUp
      /\ db' = IF ~Exists(w) THEN db
               ELSE [db EXCEPT ![w].credit  = @ + new.credit,
                               ![w].topups  = new.topups,
                               ![w].expires = new.expires,
                               ![w].warned  = new.warned,
                               ![w].dead    = FALSE]
      /\ topup' = NoTopUp
      /\ seen' = SeenToppedUp(w, topup.amount, new.credit)
      /\ UNCHANGED <<tick, jobs, tip, clock, faults>>

\* ... and the UPDATE, with the values computed from what was selected.  On a
\* row purged in between it changes nothing.
TopUpWrite ==
  LET w == topup.watch
      new == topup.row
  IN  /\ topup # NoTopUp
      /\ db' = IF ~Exists(w) THEN db
               ELSE [db EXCEPT ![w].credit  = new.credit,
                               ![w].topups  = new.topups,
                               ![w].expires = new.expires,
                               ![w].warned  = new.warned,
                               ![w].dead    = FALSE]
      /\ topup' = NoTopUp
      /\ seen' = SeenToppedUp(w, topup.amount, new.credit)
      /\ UNCHANGED <<tick, jobs, tip, clock, faults>>

-----------------------------------------------------------------------------
(* One tick *)

\* Slip: the cancelled predicate is missing.
ActiveThoughCancelled(w, now) ==
  Exists(w) /\ ~db[w].dead /\ db[w].credit > 0 /\ db[w].expires > now

\* listActiveWatches
Active(w, now) ==
  /\ Exists(w)
  /\ ~db[w].cancelled /\ ~db[w].dead
  /\ db[w].credit > 0 /\ db[w].expires > now

\* updateWatchState: an UPDATE that finds no row changes nothing.
Stored(w, new) == IF Exists(w) THEN [db EXCEPT ![w] = new] ELSE db

RowDone(k) == [k EXCEPT !.stage = "next", !.watch = NoRow, !.row = NoRow,
                        !.nowMs = 0, !.snap = NoSnap, !.heard = FALSE]

\* After the warning step: an empty meter skips the scanner (pollOne only
\* stamps last_polled_at_ms), a known job is polled, otherwise one is started.
Proceed(k) ==
  IF k.row.credit = 0 THEN RowDone(k)
  ELSE [k EXCEPT !.stage = IF k.row.job # NoJob THEN "poll" ELSE "start",
                 !.heard = FALSE]

\* listActiveWatches, at the start of a tick.
TickBegin(t) ==
  /\ ThreadFree
  /\ tick[t].stage = "idle"
  /\ tick' = [tick EXCEPT ![t] = [IdleTick EXCEPT
                !.stage   = "next",
                !.startMs = clock,
                !.todo    = [w \in Watches |-> IF Active(w, clock) THEN db[w] ELSE NoRow]]]
  /\ UNCHANGED <<db, topup, jobs, tip, clock, faults, seen>>

\* Slip: the row is not removed from the tick's list.
TakeRowAgain(t, w) ==
  LET old == tick[t].todo[w]
      row == DayCharged(old, clock)
      k   == [tick[t] EXCEPT !.watch = w, !.row = row]
  IN  /\ tick[t].stage = "next"
      /\ old # NoRow
      /\ db' = db
      /\ tick' = [tick EXCEPT ![t] =
                    IF LowCreditDue(row) THEN [k EXCEPT !.stage = "warn"] ELSE Proceed(k)]
      /\ UNCHANGED <<topup, jobs, tip, clock, faults, seen>>

\* pollOne up to its first await: the day charge is written to the table and
\* to the local row.
TakeRow(t, w) ==
  LET old == tick[t].todo[w]
      row == DayCharged(old, clock)
      k   == [tick[t] EXCEPT !.watch = w, !.row = row, !.todo[w] = NoRow]
  IN  /\ tick[t].stage = "next"
      /\ old # NoRow
      /\ db' = IF row = old THEN db
               ELSE Stored(w, [db[w] EXCEPT !.credit     = row.credit,
                                            !.billed     = row.billed,
                                            !.lastBilled = row.lastBilled,
                                            !.expires    = row.expires])
      /\ tick' = [tick EXCEPT ![t] =
                    IF LowCreditDue(row) THEN [k EXCEPT !.stage = "warn"] ELSE Proceed(k)]
      /\ UNCHANGED <<topup, jobs, tip, clock, faults, seen>>

\* maybeFireLowCredit: the receiver gets the warning ...
WarningArrives(t) ==
  LET w == tick[t].watch
  IN  /\ tick[t].stage = "warn"
      /\ ~tick[t].heard
      /\ tick' = [tick EXCEPT ![t].heard = TRUE]
      /\ seen' = [seen EXCEPT ![w].warnings = Least(2, @ + 1)]
      /\ UNCHANGED <<db, topup, jobs, tip, clock, faults>>

\* Slip: the latch is only set locally.
WarningAcknowledgedLocally(t) ==
  /\ HasThread(t)
  /\ tick[t].stage = "warn"
  /\ tick[t].heard
  /\ tick' = [tick EXCEPT ![t] = Proceed([tick[t] EXCEPT !.row.warned = TRUE])]
  /\ UNCHANGED <<db, topup, jobs, tip, clock, faults, seen>>

\* ... and its 2xx sets the latch, in the table and locally.
WarningAcknowledged(t) ==
  LET w == tick[t].watch
  IN  /\ HasThread(t)
      /\ tick[t].stage = "warn"
      /\ tick[t].heard
      /\ db' = Stored(w, [db[w] EXCEPT !.warned = TRUE])
      /\ tick' = [tick EXCEPT ![t] = Proceed([tick[t] EXCEPT !.row.warned = TRUE])]
      /\ UNCHANGED <<topup, jobs, tip, clock, faults, seen>>

\* What pollOne does with a poll result, up to the delivery's await.
\* NoSnap is the `snapshot = null' of a new job that was already gone.
Judge(t, snap) ==
  LET w        == tick[t].watch
      row      == tick[t].row
      baseline == PickBetterKnown(row.known, row.delivered)
  IN  IF IsPremature(baseline, snap)
      THEN /\ tick' = [tick EXCEPT ![t] = RowDone(tick[t])]
           /\ UNCHANGED db
      ELSE /\ db' = Stored(w, [db[w] EXCEPT !.known = snap])
           /\ tick' = [tick EXCEPT ![t] =
                IF IsNews(row.delivered, snap)
                THEN [tick[t] EXCEPT !.stage = "post", !.nowMs = clock, !.snap = snap]
                ELSE RowDone(tick[t])]

PollFound(t) ==
  /\ HasThread(t)
  /\ tick[t].stage \in {"poll", "first"}
  /\ jobs[tick[t].row.job] # Gone
  /\ Judge(t, jobs[tick[t].row.job])
  /\ UNCHANGED <<topup, jobs, tip, clock, faults, seen>>

\* Slip: a lost job ends the row's turn without being forgotten.
PollNotFoundGivesUp(t) ==
  /\ HasThread(t)
  /\ tick[t].stage = "poll"
  /\ jobs[tick[t].row.job] = Gone
  /\ tick' = [tick EXCEPT ![t] = RowDone(tick[t])]
  /\ UNCHANGED <<db, topup, jobs, tip, clock, faults, seen>>

\* 404 on the stored job: forget it and start another (the local job id is
\* not read again).
PollNotFound(t) ==
  /\ HasThread(t)
  /\ tick[t].stage = "poll"
  /\ jobs[tick[t].row.job] = Gone
  /\ db' = Stored(tick[t].watch, [db[tick[t].watch] EXCEPT !.job = NoJob])
  /\ tick' = [tick EXCEPT ![t].stage = "start", ![t].row.job = NoJob]
  /\ UNCHANGED <<topup, jobs, tip, clock, faults, seen>>

\* 404 on the job just started: `polled.snapshot ?? null'.
FirstPollNotFound(t) ==
  /\ HasThread(t)
  /\ tick[t].stage = "first"
  /\ jobs[tick[t].row.job] = Gone
  /\ Judge(t, NoSnap)
  /\ UNCHANGED <<topup, jobs, tip, clock, faults, seen>>

\* Nobody holds this job id: upstream may reuse or evict it.
Unreferenced(j) ==
  /\ \A w \in Watches : Exists(w) => db[w].job # j
  /\ \A t \in Tickers :
       /\ tick[t].row # NoRow => tick[t].row.job # j
       /\ \A w \in Watches : tick[t].todo[w] # NoRow => tick[t].todo[w].job # j

StartReply(t, j) ==
  /\ HasThread(t)
  /\ tick[t].stage = "start"
  /\ jobs[j] = Gone
  /\ Unreferenced(j)
  /\ jobs' = [jobs EXCEPT ![j] = FreshJob]
  /\ db' = Stored(tick[t].watch, [db[tick[t].watch] EXCEPT !.job = j])
  /\ tick' = [tick EXCEPT ![t].stage = "first", ![t].row.job = j]
  /\ UNCHANGED <<topup, tip, clock, faults, seen>>

\* deliverWebhook: the receiver gets the change and applies its delta ...
WebhookArrives(t) ==
  LET k == tick[t]
  IN  /\ k.stage = "post"
      /\ ~k.heard
      /\ tick' = [tick EXCEPT ![t].heard = TRUE]
      /\ seen' = [seen EXCEPT ![k.watch].sum = @ + Delta(k.row.delivered, k.snap)]
      /\ UNCHANGED <<db, topup, jobs, tip, clock, faults>>

\* Slip: the delivered baseline is not moved.
WebhookAcknowledgedForgets(t) ==
  LET k   == tick[t]
      w   == k.watch
      row == CallCharged(k.row, k.nowMs)
  IN  /\ HasThread(t)
      /\ k.stage = "post"
      /\ k.heard
      /\ db' = Stored(w, [db[w] EXCEPT !.attempts = 0, !.deliveries = row.deliveries + 1,
                                       !.credit = row.credit, !.billed = row.billed,
                                       !.expires = row.expires])
      /\ tick' = [tick EXCEPT ![t] = RowDone(k)]
      /\ seen' = [seen EXCEPT ![w].streak = 0]
      /\ UNCHANGED <<topup, jobs, tip, clock, faults>>

\* Slip: the failure counter is not reset.
WebhookAcknowledgedKeepsCount(t) ==
  LET k   == tick[t]
      w   == k.watch
      row == CallCharged(k.row, k.nowMs)
  IN  /\ HasThread(t)
      /\ k.stage = "post"
      /\ k.heard
      /\ db' = Stored(w, [db[w] EXCEPT !.delivered = k.snap, !.deliveries = row.deliveries + 1,
                                       !.credit = row.credit, !.billed = row.billed,
                                       !.expires = row.expires])
      /\ tick' = [tick EXCEPT ![t] = RowDone(k)]
      /\ seen' = [seen EXCEPT ![w].streak = 0]
      /\ UNCHANGED <<topup, jobs, tip, clock, faults>>

\* ... and its 2xx bills the call and moves the delivered baseline, all of it
\* computed from the local row.
WebhookAcknowledged(t) ==
  LET k   == tick[t]
      w   == k.watch
      row == CallCharged(k.row, k.nowMs)
  IN  /\ HasThread(t)
      /\ k.stage = "post"
      /\ k.heard
      /\ db' = Stored(w, [db[w] EXCEPT !.delivered  = k.snap,
                                       !.attempts   = 0,
                                       !.deliveries = row.deliveries + 1,
                                       !.credit     = row.credit,
                                       !.billed     = row.billed,
                                       !.expires    = row.expires])
      /\ tick' = [tick EXCEPT ![t] = RowDone(k)]
      /\ seen' = [seen EXCEPT ![w].streak = 0]
      /\ UNCHANGED <<topup, jobs, tip, clock, faults>>

\* Slip: whatever is not polled any more is deleted.
TickEndPurgesInactive(t) ==
  /\ tick[t].stage = "next"
  /\ \A w \in Watches : tick[t].todo[w] = NoRow
  /\ db' = [w \in Watches |->
              IF Exists(w) /\ ~Active(w, tick[t].startMs) THEN Purged ELSE db[w]]
  /\ tick' = [tick EXCEPT ![t] = IdleTick]
  /\ UNCHANGED <<topup, jobs, tip, clock, faults, seen>>

\* purgeExpired, with the clock read at the start of the tick.
TickEnd(t) ==
  /\ tick[t].stage = "next"
  /\ \A w \in Watches : tick[t].todo[w] = NoRow
  /\ db' = [w \in Watches |->
              IF Exists(w) /\ db[w].expires <= tick[t].startMs THEN Purged ELSE db[w]]
  /\ tick' = [tick EXCEPT ![t] = IdleTick]
  /\ UNCHANGED <<topup, jobs, tip, clock, faults, seen>>

-----------------------------------------------------------------------------
(* Faults: each one spends the fault budget. *)

Fault(kind) ==
  /\ kind \in FaultKinds
  /\ faults < MaxFaults
  /\ faults' = faults + 1

\* A scanner call throws (network, timeout, 5xx): the tick skips the row.
CallThrows(t) ==
  /\ HasThread(t)
  /\ \/ tick[t].stage \in {"poll", "first"} /\ Fault("poll_error")
     \/ tick[t].stage = "start" /\ Fault("start_error")
  /\ tick' = [tick EXCEPT ![t] = RowDone(tick[t])]
  /\ UNCHANGED <<db, topup, jobs, tip, clock, seen>>

\* A webhook is not acknowledged: it never arrived, or the reply got lost
\* (a timeout, a non-2xx after the receiver had acted on it).
NotAcknowledged(t) ==
  IF tick[t].heard THEN Fault("reply_lost") ELSE Fault("refused")

WarningFails(t) ==
  /\ HasThread(t)
  /\ tick[t].stage = "warn"
  /\ NotAcknowledged(t)
  /\ tick' = [tick EXCEPT ![t] = Proceed(tick[t])]
  /\ UNCHANGED <<db, topup, jobs, tip, clock, seen>>

WebhookFails(t) ==
  LET k        == tick[t]
      attempts == k.row.attempts + 1
  IN  /\ HasThread(t)
      /\ k.stage = "post"
      /\ NotAcknowledged(t)
      /\ db' = Stored(k.watch, [db[k.watch] EXCEPT !.attempts = attempts,
                                                   !.dead = attempts >= MaxAttempts])
      /\ tick' = [tick EXCEPT ![t] = RowDone(k)]
      /\ seen' = [seen EXCEPT ![k.watch].streak = @ + 1]
      /\ UNCHANGED <<topup, jobs, tip, clock>>

\* The process stops and restarts: every tick in flight is forgotten.
Crash ==
  /\ \E t \in Tickers : tick[t].stage # "idle"
  /\ Fault("crash")
  /\ tick' = [t \in Tickers |-> IdleTick]
  /\ UNCHANGED <<db, topup, jobs, tip, clock, seen>>

-----------------------------------------------------------------------------
(* The upstream scanner, the chain and time: outside the repository, modelled *)
(* from how the poller uses them.                                             *)

Mine ==
  /\ tip < MaxHeight
  /\ tip' = tip + 1
  /\ UNCHANGED <<db, tick, topup, jobs, clock, faults, seen>>

\* A job scans one block further; it reports completion at the tip, and goes
\* on when the chain grows.
JobScans(j) ==
  /\ jobs[j] # Gone
  /\ ~jobs[j].error
  /\ jobs[j].height < tip
  /\ jobs' = [jobs EXCEPT ![j] =
       [status  |-> IF jobs[j].height + 1 = tip THEN "completed" ELSE "running",
        height  |-> jobs[j].height + 1,
        balance |-> BalanceAt[jobs[j].height + 2],
        error   |-> FALSE]]
  /\ UNCHANGED <<db, tick, topup, tip, clock, faults, seen>>

JobFails(j) ==
  /\ jobs[j] # Gone
  /\ ~jobs[j].error
  /\ Fault("job_failed")
  /\ \E failure \in {BareFailure, [jobs[j] EXCEPT !.status = "failed", !.error = TRUE]} :
       jobs' = [jobs EXCEPT ![j] = failure]
  /\ UNCHANGED <<db, tick, topup, tip, clock, seen>>

\* Upstream forgets a working job: an API restart, or its idle window.
JobLost(j) ==
  /\ jobs[j] # Gone
  /\ ~jobs[j].error
  /\ ~Unreferenced(j)
  /\ Fault("job_lost")
  /\ jobs' = [jobs EXCEPT ![j] = Gone]
  /\ UNCHANGED <<db, tick, topup, tip, clock, seen>>

\* Upstream forgets a failed job, or one that nobody polls any more.
JobEvicted(j) ==
  /\ jobs[j] # Gone
  /\ jobs[j].error \/ Unreferenced(j)
  /\ jobs' = [jobs EXCEPT ![j] = Gone]
  /\ UNCHANGED <<db, tick, topup, tip, clock, faults, seen>>

Advance ==
  /\ clock < MaxTime
  /\ clock' = clock + 1
  /\ UNCHANGED <<db, tick, topup, jobs, tip, faults, seen>>

-----------------------------------------------------------------------------
Rest ==
  \/ \E w \in Watches : CreateWatch(w) \/ CancelWatch(w)
  \/ \E w \in Watches, amount \in TopUpAmounts : TopUp(w, amount) \/ TopUpRead(w, amount)
  \/ TopUpWrite

\* Everything an invocation of runPollerTick does once it has begun, when no
\* fault interferes.
TickStep(t) ==
  \/ \E w \in Watches : TakeRow(t, w)
  \/ WarningArrives(t) \/ WarningAcknowledged(t)
  \/ PollFound(t) \/ PollNotFound(t) \/ FirstPollNotFound(t)
  \/ \E j \in JobIds : StartReply(t, j)
  \/ WebhookArrives(t) \/ WebhookAcknowledged(t)
  \/ TickEnd(t)

TickFault(t) == CallThrows(t) \/ WarningFails(t) \/ WebhookFails(t)

Upstream ==
  \E j \in JobIds : JobScans(j) \/ JobFails(j) \/ JobLost(j) \/ JobEvicted(j)

Next ==
  \/ Rest
  \/ \E t \in Tickers : TickBegin(t) \/ TickStep(t) \/ TickFault(t)
  \/ Crash
  \/ Upstream
  \/ Mine \/ Advance

Spec == Init /\ [][Next]_vars

\* The timer keeps firing; every HTTP call of a tick returns (deliverWebhook
\* and nfptFetch abort theirs on a timeout), and the event loop handles every
\* reply though other ticks take their turns (strong fairness); a job makes
\* progress, and upstream does not keep a failed one for ever.
Fairness ==
  /\ \A t \in Tickers : SF_vars(TickBegin(t)) /\ SF_vars(TickStep(t))
  /\ \A j \in JobIds : WF_vars(JobScans(j)) /\ WF_vars(JobEvicted(j))

FairSpec == Spec /\ Fairness

-----------------------------------------------------------------------------
(* Properties *)

TypeOK ==
  /\ db \in [Watches -> Row \cup {Unborn, Purged}]
  /\ tick \in [Tickers -> Tick]
  /\ topup \in [watch: Watches \cup {NoRow}, row: Row \cup {NoRow},
                amount: TopUpAmounts \cup {0}]
  /\ jobs \in [JobIds -> Snapshot \cup {Gone}]
  /\ tip \in 0 .. MaxHeight
  /\ clock \in Nat
  /\ faults \in Nat
  /\ seen \in [Watches -> [sum: Int, streak: Nat, warnings: 0 .. 2, paid: Nat]]

\* The poller's writes and the payer's top-ups never lose each other's money:
\* what was paid in is still credit or has been billed.
Conserved ==
  \A w \in Watches : Exists(w) => db[w].credit + db[w].billed >= db[w].topups

\* A watch is billed for the webhooks it was delivered and for the time that
\* has passed since it was created, and for nothing more.
NeverOverbilled ==
  \A w \in Watches : Exists(w) =>
    LET days == db[w].billed - CallRate * db[w].deliveries
    IN  0 <= days * DayMs /\ days * DayMs <= (db[w].lastBilled - db[w].created) * DayRate

\* Nobody ever holds more credit than was really paid: a stale copy that is
\* written back may lose a payment, never make one up.  The row's own total of
\* top-ups is no measure of it: two processes that pay in may lose one there too.
NeverGrantsUnpaidCredit ==
  \A w \in Watches : Exists(w) => db[w].credit <= seen[w].paid

\* The expiry, which decides listing and purging, never falls short of the
\* idle time the credit has paid for, up to the lifetime cap.
PaidTimeKept ==
  \A w \in Watches : Exists(w) =>
    db[w].expires >= db[w].lastBilled + Least(IdleTime(db[w].credit), MaxLifetime)

\* A watch is only deleted once the time that its credit pays for is over: no
\* top-up that got in before the end of the tick is purged with the row.
PurgeSparesPaidTime ==
  [][\A w \in Watches : Exists(w) /\ db'[w] = Purged =>
       clock >= db[w].lastBilled + Least(IdleTime(db[w].credit), MaxLifetime)]_vars

\* A receiver that adds up the deltas it was sent arrives at the balance the
\* table says was delivered to it, unless a delivery is between its arrival
\* and its acknowledgement.
DeltasAddUp ==
  \A w \in Watches :
    Exists(w) /\ (\A t \in Tickers : ~(tick[t].watch = w /\ tick[t].heard))
      => seen[w].sum = Amount(db[w].delivered)

\* Of a scan that reports no error, a change of balance is only announced when
\* it got further than the one last delivered: a job that was lost and started
\* over never makes the receiver see money leave or come back.  It says nothing
\* of a scan that failed: the code announces one without a balance as a fall to
\* zero (isPrematureSnapshot lets errors through, diffBalance takes null for '0').
RestartsMoveNoMoney ==
  \A t \in Tickers :
    LET before == tick[t].row.delivered
    IN  tick[t].stage = "post" /\ ~tick[t].snap.error /\ Delta(before, tick[t].snap) # 0
          => before = NoSnap \/ tick[t].snap.height > before.height

\* One acknowledged low-credit warning per crossing of the threshold, and a
\* watch above the threshold can be warned again.
OneWarningPerCrossing ==
  \A w \in Watches :
    /\ seen[w].warnings <= 1
    /\ Exists(w) /\ db[w].credit > LowThreshold => ~db[w].warned

\* A watch is only declared dead after that many failures in a row.
DeadOnlyAfterMaxInARow ==
  \A w \in Watches : Exists(w) /\ db[w].dead => seen[w].streak >= MaxAttempts

\* Every tick comes to its end, so one slow watch cannot hold up the others
\* for ever.
TickTerminates ==
  \A t \in Tickers : tick[t].stage # "idle" ~> tick[t].stage = "idle"

\* After a cancellation the watch is let go of.
CancelTakesEffect ==
  \A w \in Watches :
    (Exists(w) /\ db[w].cancelled) ~>
      [](\A t \in Tickers : tick[t].watch # w /\ tick[t].todo[w] = NoRow)

\* With finitely many faults, every watch that stays payable ends up having
\* been told the balance at the tip, and stays so.
Informed(w) ==
  \/ db[w].cancelled \/ db[w].dead \/ db[w].credit = 0 \/ db[w].expires <= clock
  \/ Amount(db[w].delivered) = BalanceAt[tip + 1]

BalanceEventuallyDelivered ==
  <>[](\A w \in Watches : Exists(w) => Informed(w))

\* The rows of the table, seen as the accounts of PrepaidAccounts.
Accounts == INSTANCE PrepaidAccounts WITH
  NoAccount <- NoRow,
  account   <- [w \in Watches |->
                  IF Exists(w) THEN [credit |-> db[w].credit, topups |-> db[w].topups,
                                     billed |-> db[w].billed]
                  ELSE NoRow]

\* Every step of the poller and of the REST calls is, for the payer, one of
\* the account's own operations, or nothing.
ImplementsAccounts == Accounts!Spec
=============================================================================
