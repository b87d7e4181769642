--------------------------- MODULE WatchPollerProofs ---------------------------
(***************************************************************************)
(* Theorems about WatchPoller, for every set of watches, tickers and jobs, *)
(* every rate and every balance history: all interleavings of ticks, REST  *)
(* calls, split top-ups, faults and crashes.                               *)
(*                                                                         *)
(* The types come first.  Then: nobody is granted credit that was not paid *)
(* for.  The ticks write credits they computed from old copies of the      *)
(* rows, so that property is not inductive.  What is: every copy was paid  *)
(* for, and nothing but a payment touches the total that was paid.         *)
(***************************************************************************)
EXTENDS WatchPoller, TLAPS

-----------------------------------------------------------------------------
(* The arithmetic of the meter, for every rate and every day length *)

\* The floor of a non-negative quotient is a natural number, and multiplying
\* back never exceeds the dividend: Math.floor only ever rounds down.
LEMMA FloorFacts ==
  ASSUME NEW a \in Nat, NEW b \in Nat \ {0}
  PROVE  a \div b \in Nat /\ (a \div b) * b <= a
OBVIOUS

\* A product of naturals is a natural.
LEMMA ProductType ==
  ASSUME NEW a \in Nat, NEW b \in Nat
  PROVE  a * b \in Nat
OBVIOUS

\* Clamping yields a natural number, never more than the unclamped value
\* when that is one.
LEMMA ClampFacts ==
  ASSUME NEW n \in Int
  PROVE  /\ AtLeastZero(n) \in Nat
         /\ AtLeastZero(n) >= n
         /\ n >= 0 => AtLeastZero(n) = n
         /\ n < 0 => AtLeastZero(n) = 0
BY DEF AtLeastZero

\* The smaller of two naturals is one, and at most either.
LEMMA LeastFacts ==
  ASSUME NEW a \in Nat, NEW b \in Nat
  PROVE  Least(a, b) \in Nat /\ Least(a, b) <= a /\ Least(a, b) <= b
BY DEF Least

\* Any credit keeps a watch alive for a natural number of milliseconds.
LEMMA IdleTimeType ==
  ASSUME NEW credit \in Nat
  PROVE  IdleTime(credit) \in Nat
<1>1. DayMs \in Nat /\ DayRate \in Nat \ {0}
  BY MeterAssumption
<1>2. credit * DayMs \in Nat
  BY <1>1, ProductType
<1>3. QED
  BY <1>1, <1>2, FloorFacts DEF IdleTime

\* Both forms of the expiry, capped and not, are times.
LEMMA ExpiryType ==
  ASSUME NEW credit \in Nat, NEW now \in Nat
  PROVE  ExpiryAfterCharge(credit, now) \in Nat /\ ExpiryAfterPayment(credit, now) \in Nat
<1>1. IdleTime(credit) \in Nat /\ MaxLifetime \in Nat
  BY IdleTimeType, MeterAssumption
<1>2. Least(IdleTime(credit), MaxLifetime) \in Nat
  BY <1>1, LeastFacts
<1>3. QED
  BY <1>1, <1>2 DEF ExpiryAfterCharge, ExpiryAfterPayment

\* The day charge is a natural number, and never worth more than the time
\* that has passed since the last one.
LEMMA DayChargeFacts ==
  ASSUME NEW row, row.lastBilled \in Nat, NEW now \in Nat
  PROVE  /\ DayChargeDue(row, now) \in Nat
         /\ DayChargeDue(row, now) * DayMs <= AtLeastZero(now - row.lastBilled) * DayRate
<1> DEFINE elapsed == AtLeastZero(now - row.lastBilled)
<1>1. elapsed \in Nat
  BY ClampFacts
<1>2. DayRate \in Nat /\ DayMs \in Nat \ {0}
  BY MeterAssumption
<1> HIDE DEF elapsed
<1>3. elapsed * DayRate \in Nat
  BY <1>1, <1>2, ProductType
<1>4. /\ (elapsed * DayRate) \div DayMs \in Nat
      /\ ((elapsed * DayRate) \div DayMs) * DayMs <= elapsed * DayRate
  BY <1>2, <1>3, FloorFacts
<1>5. QED
  BY <1>4 DEF DayChargeDue, elapsed

-----------------------------------------------------------------------------
(* Types *)

\* A tick that awaits a call has a row in hand, and one that awaits a poll
\* has a job.
Busy(k) ==
  /\ k.stage \in Stages \ {"idle", "next"} => k.watch \in Watches /\ k.row \in Row
  /\ k.stage \in {"poll", "first"} => k.row.job \in JobIds

DbType    == db \in [Watches -> Row \cup {Unborn, Purged}]
TicksType == tick \in [Tickers -> Tick] /\ \A t \in Tickers : Busy(tick[t])
TopUpType ==
  /\ topup \in [watch: Watches \cup {NoRow}, row: Row \cup {NoRow}, amount: TopUpAmounts \cup {0}]
  /\ topup # NoTopUp => topup.watch \in Watches /\ topup.row \in Row
JobsType  == jobs \in [JobIds -> Snapshot \cup {Gone}]
CountType == tip \in 0 .. MaxHeight /\ clock \in Nat /\ faults \in Nat
SeenType  == seen \in [Watches -> [sum: Int, streak: Nat, warnings: 0 .. 2, paid: Nat]]

\* TypeOK, strengthened by what the awaits rely on.
TypeInv == DbType /\ TicksType /\ TopUpType /\ JobsType /\ CountType /\ SeenType

\* What a charge rewrites of a row.
LEMMA RowCharged ==
  ASSUME NEW row \in Row, NEW c \in Nat, NEW b \in Nat, NEW l \in Nat, NEW e \in Nat
  PROVE  [row EXCEPT !.credit = c, !.billed = b, !.lastBilled = l, !.expires = e] \in Row
BY Zenon DEF Row

\* What a top-up rewrites of a row.
LEMMA RowPaid ==
  ASSUME NEW row \in Row, NEW c \in Nat, NEW p \in Nat, NEW e \in Nat,
         NEW u \in BOOLEAN, NEW d \in BOOLEAN
  PROVE  [row EXCEPT !.credit = c, !.topups = p, !.expires = e, !.warned = u, !.dead = d] \in Row
BY Zenon DEF Row

\* What an acknowledged webhook rewrites of a row.
LEMMA RowAcknowledged ==
  ASSUME NEW row \in Row, NEW s \in Snapshot \cup {NoSnap}, NEW a \in Nat, NEW n \in Nat,
         NEW c \in Nat, NEW b \in Nat, NEW e \in Nat
  PROVE  [row EXCEPT !.delivered = s, !.attempts = a, !.deliveries = n,
                     !.credit = c, !.billed = b, !.expires = e] \in Row
BY Zenon DEF Row

\* What a failed webhook rewrites of a row.
LEMMA RowFailed ==
  ASSUME NEW row \in Row, NEW a \in Nat, NEW d \in BOOLEAN
  PROVE  [row EXCEPT !.attempts = a, !.dead = d] \in Row
BY Zenon DEF Row

\* What a judged snapshot rewrites of a row.
LEMMA RowKnown ==
  ASSUME NEW row \in Row, NEW s \in Snapshot \cup {NoSnap}
  PROVE  [row EXCEPT !.known = s] \in Row
BY Zenon DEF Row

\* What a started or forgotten scan job rewrites of a row.
LEMMA RowJob ==
  ASSUME NEW row \in Row, NEW j \in JobIds \cup {NoJob}
  PROVE  [row EXCEPT !.job = j] \in Row /\ [row EXCEPT !.job = j].job = j
BY Zenon DEF Row

\* What an acknowledged warning and a cancellation rewrite of a row.
LEMMA RowFlagged ==
  ASSUME NEW row \in Row, NEW f \in BOOLEAN
  PROVE  [row EXCEPT !.warned = f] \in Row /\ [row EXCEPT !.cancelled = f] \in Row
BY Zenon DEF Row

\* The types of the columns, one by one.
LEMMA RowFields ==
  ASSUME NEW row \in Row
  PROVE  /\ row.credit \in Nat /\ row.topups \in Nat /\ row.billed \in Nat
         /\ row.lastBilled \in Nat /\ row.expires \in Nat /\ row.created \in Nat
         /\ row.warned \in BOOLEAN /\ row.job \in JobIds \cup {NoJob}
         /\ row.known \in Snapshot \cup {NoSnap} /\ row.delivered \in Snapshot \cup {NoSnap}
         /\ row.attempts \in Nat /\ row.deliveries \in Nat
         /\ row.dead \in BOOLEAN /\ row.cancelled \in BOOLEAN
BY Zenon DEF Row

\* The meter's operators map rows to rows.
LEMMA DayChargedType ==
  ASSUME NEW row \in Row, NEW now \in Nat
  PROVE  DayCharged(row, now) \in Row
<1> DEFINE charge == DayChargeDue(row, now)
           credit == AtLeastZero(row.credit - charge)
           expiry == ExpiryAfterCharge(credit, now)
<1>1. charge \in Nat
  BY DayChargeFacts, RowFields
<1>2. credit \in Nat
  BY <1>1, ClampFacts, RowFields
<1>3. expiry \in Nat
  BY <1>2, ExpiryType
<1>4. row.billed + charge \in Nat
  BY <1>1, RowFields
<1> HIDE DEF charge, credit, expiry
<1>5. [row EXCEPT !.credit = credit, !.billed = row.billed + charge,
                  !.lastBilled = now, !.expires = expiry] \in Row
  BY <1>2, <1>3, <1>4, RowCharged
<1>6. QED
  BY <1>5, Zenon DEF DayCharged, charge, credit, expiry

\* A top-up maps rows to rows.
LEMMA ToppedUpType ==
  ASSUME NEW row \in Row, NEW amount \in Nat, NEW now \in Nat
  PROVE  ToppedUp(row, amount, now) \in Row
<1> DEFINE credit == row.credit + amount
           topups == row.topups + amount
           expiry == ExpiryAfterPayment(credit, now)
           warned == row.warned /\ credit <= LowThreshold
<1>1. credit \in Nat /\ topups \in Nat
  BY RowFields
<1>2. expiry \in Nat
  BY <1>1, ExpiryType
<1>3. warned \in BOOLEAN
  OBVIOUS
<1> HIDE DEF credit, topups, expiry, warned
<1>4. [row EXCEPT !.credit = credit, !.topups = topups, !.expires = expiry,
                  !.warned = warned, !.dead = FALSE] \in Row
  BY <1>1, <1>2, <1>3, RowPaid
<1>5. QED
  BY <1>4, Zenon DEF ToppedUp, credit, topups, expiry, warned

\* CallCharged rewrites credit, billed and expires, by naturals.
LEMMA CallChargedFields ==
  ASSUME NEW row \in Row, NEW now \in Nat
  PROVE  /\ CallCharged(row, now).credit = AtLeastZero(row.credit - CallRate)
         /\ CallCharged(row, now).billed = row.billed + CallRate
         /\ CallCharged(row, now).credit \in Nat
         /\ CallCharged(row, now).billed \in Nat
         /\ CallCharged(row, now).expires \in Nat
         /\ CallCharged(row, now).deliveries = row.deliveries
<1> DEFINE credit == AtLeastZero(row.credit - CallRate)
           billed == row.billed + CallRate
           expiry == ExpiryAfterCharge(credit, now)
<1>1. CallRate \in Nat
  BY MeterAssumption
<1>2. credit \in Nat /\ billed \in Nat
  BY <1>1, ClampFacts, RowFields
<1>3. expiry \in Nat
  BY <1>2, ExpiryType
<1> HIDE DEF credit, billed, expiry
<1> DEFINE new == [row EXCEPT !.credit = credit, !.billed = billed, !.expires = expiry]
<1>4. /\ new.credit = credit /\ new.billed = billed /\ new.expires = expiry
      /\ new.deliveries = row.deliveries
  BY Zenon DEF Row
<1>5. CallCharged(row, now) = new
  BY Zenon DEF CallCharged, credit, billed, expiry
<1>6. QED
  BY <1>2, <1>3, <1>4, <1>5 DEF credit, billed

\* What exists in the table is a row.
LEMMA RowIn ==
  ASSUME DbType, NEW w \in Watches, Exists(w)
  PROVE  db[w] \in Row
BY DEF DbType, Exists

\* A write to one row of the table, if it is still there.
LEMMA StoredType ==
  ASSUME DbType, NEW w \in Watches, NEW new, Exists(w) => new \in Row, db' = Stored(w, new)
  PROVE  DbType'
BY DEF DbType, Stored

-----------------------------------------------------------------------------
(* The local state of a tick *)

\* The types of the local variables, one by one.
LEMMA TickFields ==
  ASSUME NEW k \in Tick
  PROVE  /\ k.stage \in Stages /\ k.startMs \in Nat
         /\ k.todo \in [Watches -> Row \cup {NoRow}]
         /\ k.watch \in Watches \cup {NoRow} /\ k.row \in Row \cup {NoRow}
         /\ k.nowMs \in Nat /\ k.snap \in Snapshot \cup {NoSnap} /\ k.heard \in BOOLEAN
BY Zenon DEF Tick

\* One tick moves to a local state of the right type.
LEMMA TickSet ==
  ASSUME TicksType, NEW t \in Tickers, NEW k \in Tick, Busy(k),
         tick' = [tick EXCEPT ![t] = k]
  PROVE  TicksType'
BY DEF TicksType

\* An idle tick has the right type, and is not busy.
LEMMA IdleTickType == IdleTick \in Tick /\ Busy(IdleTick)
<1>1. "idle" \in Stages /\ 0 \in Nat /\ [w \in Watches |-> NoRow] \in [Watches -> Row \cup {NoRow}]
  BY DEF Stages
<1>2. IdleTick \in Tick
  BY <1>1, Zenon DEF IdleTick, Tick
<1>3. QED
  BY <1>2 DEF IdleTick, Busy

\* So has one that has finished with a row.
LEMMA RowDoneType ==
  ASSUME NEW k \in Tick
  PROVE  RowDone(k) \in Tick /\ Busy(RowDone(k))
<1>1. "next" \in Stages /\ 0 \in Nat
  BY DEF Stages
<1>2. RowDone(k) \in Tick
  BY <1>1, Zenon DEF RowDone, Tick
<1>3. RowDone(k).stage = "next"
  BY Zenon DEF RowDone, Tick
<1>4. QED
  BY <1>2, <1>3 DEF Busy

\* So has one that goes on from the warning to the scanner: it only polls if it has a job to poll.
LEMMA ProceedType ==
  ASSUME NEW k \in Tick, k.watch \in Watches, k.row \in Row
  PROVE  Proceed(k) \in Tick /\ Busy(Proceed(k))
<1>1. CASE k.row.credit = 0
  BY <1>1, RowDoneType DEF Proceed
<1>2. CASE k.row.credit # 0
  <2> DEFINE s == IF k.row.job # NoJob THEN "poll" ELSE "start"
             n == [k EXCEPT !.stage = s, !.heard = FALSE]
  <2>1. s \in Stages
    BY DEF Stages
  <2>2. Proceed(k) = n
    BY <1>2, Zenon DEF Proceed
  <2> HIDE DEF s
  <2>3. n \in Tick
    BY <2>1, Zenon DEF Tick
  <2>4. n.stage = s /\ n.watch = k.watch /\ n.row = k.row
    BY Zenon DEF Tick
  <2>5. s = "poll" => k.row.job \in JobIds
    BY RowFields DEF s
  <2>6. s # "first"
    BY DEF s
  <2>7. QED
    BY <2>2, <2>3, <2>4, <2>5, <2>6 DEF Busy
<1>3. QED
  BY <1>1, <1>2

-----------------------------------------------------------------------------
(* REST calls *)

\* createWatch inserts a row.
LEMMA NewRowType == ASSUME NEW now \in Nat PROVE NewRow(now) \in Row
<1>1. Starter \in Nat /\ 0 \in Nat
  BY PollerAssumption
<1>2. ExpiryAfterPayment(Starter, now) \in Nat
  BY <1>1, ExpiryType
<1>3. QED
  BY <1>1, <1>2, Zenon DEF NewRow, Row

\* createWatch leaves the types alone.
LEMMA CreateWatchType ==
  ASSUME TypeInv, NEW w \in Watches, CreateWatch(w)
  PROVE  TypeInv'
<1>1. DbType'
  BY NewRowType DEF TypeInv, CreateWatch, DbType, CountType
<1>2. SeenType'
  <2>1. seen[w].paid + Starter \in Nat
    BY PollerAssumption DEF TypeInv, SeenType
  <2> DEFINE n == seen[w].paid + Starter
             e == [seen[w] EXCEPT !.paid = n]
  <2>2. seen' = [seen EXCEPT ![w] = e]
    BY DEF CreateWatch
  <2> HIDE DEF n
  <2>3. e \in [sum: Int, streak: Nat, warnings: 0 .. 2, paid: Nat]
    BY <2>1 DEF TypeInv, SeenType, n
  <2>4. QED
    BY <2>2, <2>3 DEF TypeInv, SeenType
<1>3. QED
  BY <1>1, <1>2 DEF TypeInv, CreateWatch, TicksType, TopUpType, JobsType, CountType

\* cancelWatch leaves the types alone.
LEMMA CancelWatchType ==
  ASSUME TypeInv, NEW w \in Watches, CancelWatch(w)
  PROVE  TypeInv'
<1>1. [db[w] EXCEPT !.cancelled = TRUE] \in Row
  BY RowIn, RowFlagged DEF TypeInv, CancelWatch
<1>2. db' = [db EXCEPT ![w] = [db[w] EXCEPT !.cancelled = TRUE]]
  BY DEF CancelWatch
<1>3. DbType'
  BY <1>1, <1>2 DEF TypeInv, DbType
<1>4. QED
  BY <1>3 DEF TypeInv, CancelWatch, TicksType, TopUpType, JobsType, CountType, SeenType

\* What the properties remember keeps its type over a top-up.
LEMMA SeenToppedUpType ==
  ASSUME SeenType, NEW w \in Watches, NEW amount \in Nat, NEW credit,
         seen' = SeenToppedUp(w, amount, credit)
  PROVE  SeenType'
<1> DEFINE p == seen[w].paid + amount
           n == IF credit > LowThreshold THEN 0 ELSE seen[w].warnings
           e == [seen[w] EXCEPT !.paid = p, !.warnings = n]
<1>1. p \in Nat /\ n \in 0 .. 2
  BY DEF SeenType
<1>2. seen' = [seen EXCEPT ![w] = e]
  BY DEF SeenToppedUp, SeenType
<1> HIDE DEF p, n
<1>3. e \in [sum: Int, streak: Nat, warnings: 0 .. 2, paid: Nat]
  BY <1>1 DEF SeenType
<1>4. QED
  BY <1>2, <1>3 DEF SeenType

\* A top-up in one piece leaves the types alone.
LEMMA TopUpStepType ==
  ASSUME TypeInv, NEW w \in Watches, NEW amount \in TopUpAmounts, TopUp(w, amount)
  PROVE  TypeInv'
<1>1. amount \in Nat /\ clock \in Nat
  BY PollerAssumption DEF TypeInv, CountType
<1>2. ToppedUp(db[w], amount, clock) \in Row
  BY <1>1, RowIn, ToppedUpType DEF TypeInv, TopUp, TopUpAllowed
<1>3. DbType'
  BY <1>2 DEF TypeInv, TopUp, DbType
<1>4. SeenType'
  BY <1>1, SeenToppedUpType DEF TypeInv, TopUp
<1>5. QED
  BY <1>3, <1>4 DEF TypeInv, TopUp, TicksType, TopUpType, JobsType, CountType

\* The SELECT of a split top-up leaves the types alone.
LEMMA TopUpReadType ==
  ASSUME TypeInv, NEW w \in Watches, NEW amount \in TopUpAmounts, TopUpRead(w, amount)
  PROVE  TypeInv'
<1>1. amount \in Nat /\ clock \in Nat
  BY PollerAssumption DEF TypeInv, CountType
<1>2. ToppedUp(db[w], amount, clock) \in Row
  BY <1>1, RowIn, ToppedUpType DEF TypeInv, TopUpRead, TopUpAllowed
<1> DEFINE new == ToppedUp(db[w], amount, clock)
<1>3. topup' = [watch |-> w, row |-> new, amount |-> amount]
  BY DEF TopUpRead
<1> HIDE DEF new
<1>4. TopUpType'
  BY <1>2, <1>3 DEF TopUpType, new
<1>5. QED
  BY <1>4 DEF TypeInv, TopUpRead, DbType, TicksType, JobsType, CountType, SeenType

\* Its UPDATE does too, also when the row was purged in between.
LEMMA TopUpWriteType ==
  ASSUME TypeInv, TopUpWrite
  PROVE  TypeInv'
<1> DEFINE w == topup.watch
           new == topup.row
           paid == [db[w] EXCEPT !.credit = new.credit, !.topups = new.topups,
                                 !.expires = new.expires, !.warned = new.warned,
                                 !.dead = FALSE]
<1>1. w \in Watches /\ new \in Row
  BY DEF TypeInv, TopUpType, TopUpWrite
<1>2. Exists(w) => paid \in Row
  BY <1>1, RowIn, RowFields, RowPaid DEF TypeInv
<1>3. db' = IF ~Exists(w) THEN db ELSE [db EXCEPT ![w] = paid]
  BY DEF TopUpWrite
<1>4. seen' = SeenToppedUp(w, topup.amount, new.credit) /\ topup.amount \in Nat
  BY PollerAssumption DEF TopUpWrite, TypeInv, TopUpType
<1> HIDE DEF w, new, paid
<1>5. DbType'
  BY <1>1, <1>2, <1>3 DEF TypeInv, DbType
<1>6. SeenType'
  BY <1>1, <1>4, SeenToppedUpType DEF TypeInv
<1>7. TopUpType'
  <2>1. NoTopUp \in [watch: Watches \cup {NoRow}, row: Row \cup {NoRow}, amount: TopUpAmounts \cup {0}]
    BY DEF NoTopUp
  <2>2. topup' = NoTopUp
    BY DEF TopUpWrite
  <2>3. QED
    BY <2>1, <2>2 DEF TopUpType
<1>8. QED
  BY <1>5, <1>6, <1>7 DEF TypeInv, TopUpWrite, TicksType, JobsType, CountType

-----------------------------------------------------------------------------
(* Steps of a tick *)

\* A tick starts with nothing but rows it has read.
LEMMA TickBeginType ==
  ASSUME TypeInv, NEW t \in Tickers, TickBegin(t)
  PROVE  TypeInv'
<1> DEFINE rows == [w \in Watches |-> IF Active(w, clock) THEN db[w] ELSE NoRow]
           k == [IdleTick EXCEPT !.stage = "next", !.startMs = clock, !.todo = rows]
<1>1. rows \in [Watches -> Row \cup {NoRow}]
  BY RowIn DEF TypeInv, Active
<1>2. "next" \in Stages /\ clock \in Nat
  BY DEF TypeInv, CountType, Stages
<1>3. tick' = [tick EXCEPT ![t] = k]
  BY DEF TickBegin
<1> HIDE DEF rows
<1>4. k \in Tick
  BY <1>1, <1>2, IdleTickType, Zenon DEF Tick
<1>5. k.stage = "next"
  BY IdleTickType, Zenon DEF Tick
<1>6. Busy(k)
  BY <1>5 DEF Busy
<1> HIDE DEF k
<1>7. TicksType'
  BY <1>3, <1>4, <1>6, TickSet DEF TypeInv
<1>8. QED
  BY <1>7 DEF TypeInv, TickBegin, DbType, TopUpType, JobsType, CountType, SeenType

\* Taking a row hands a charged row to the warning or the scanner.
LEMMA TakeRowType ==
  ASSUME TypeInv, NEW t \in Tickers, NEW w \in Watches, TakeRow(t, w)
  PROVE  TypeInv'
<1> DEFINE old == tick[t].todo[w]
           row == DayCharged(old, clock)
           todo == [tick[t].todo EXCEPT ![w] = NoRow]
           k == [tick[t] EXCEPT !.watch = w, !.row = row, !.todo = todo]
           kw == [k EXCEPT !.stage = "warn"]
           new == [db[w] EXCEPT !.credit = row.credit, !.billed = row.billed,
                                !.lastBilled = row.lastBilled, !.expires = row.expires]
<1>1. tick[t] \in Tick
  BY DEF TypeInv, TicksType
<1>2. old \in Row /\ clock \in Nat
  BY <1>1, TickFields DEF TypeInv, CountType, TakeRow
<1>3. row \in Row
  BY <1>2, DayChargedType
<1>4. todo \in [Watches -> Row \cup {NoRow}]
  BY <1>1, TickFields
<1>5. /\ db' = IF row = old THEN db ELSE Stored(w, new)
      /\ tick' = [tick EXCEPT ![t] = IF LowCreditDue(row) THEN kw ELSE Proceed(k)]
  BY DEF TakeRow
<1>6. Exists(w) => new \in Row
  BY <1>3, RowIn, RowFields, RowCharged DEF TypeInv
<1> HIDE DEF old, row, todo, new
<1>7. DbType'
  BY <1>5, <1>6, StoredType DEF TypeInv, DbType
<1>8. k \in Tick /\ k.watch = w /\ k.row = row
  BY <1>1, <1>3, <1>4, Zenon DEF Tick
<1> HIDE DEF k
<1>9. Proceed(k) \in Tick /\ Busy(Proceed(k))
  BY <1>3, <1>8, ProceedType
<1>10. "warn" \in Stages
  BY DEF Stages
<1>11. kw \in Tick /\ kw.watch = w /\ kw.row = row /\ kw.stage = "warn"
  BY <1>8, <1>10, Zenon DEF Tick
<1> HIDE DEF kw
<1>12. Busy(kw)
  BY <1>3, <1>11 DEF Busy
<1>13. TicksType'
  <2>1. CASE LowCreditDue(row)
    BY <1>5, <1>11, <1>12, <2>1, TickSet DEF TypeInv
  <2>2. CASE ~LowCreditDue(row)
    BY <1>5, <1>9, <2>2, TickSet DEF TypeInv
  <2>3. QED
    BY <2>1, <2>2
<1>14. QED
  BY <1>7, <1>13 DEF TypeInv, TakeRow, TopUpType, JobsType, CountType, SeenType

\* One entry of `seen' at a time.
LEMMA SeenSet ==
  ASSUME SeenType, NEW w \in Watches,
         NEW e \in [sum: Int, streak: Nat, warnings: 0 .. 2, paid: Nat], seen' = [seen EXCEPT ![w] = e]
  PROVE  SeenType'
BY DEF SeenType

\* The types of what is remembered of one receiver.
LEMMA SeenFields ==
  ASSUME SeenType, NEW w \in Watches
  PROVE  /\ seen[w] \in [sum: Int, streak: Nat, warnings: 0 .. 2, paid: Nat]
         /\ seen[w].sum \in Int /\ seen[w].streak \in Nat /\ seen[w].warnings \in 0 .. 2
         /\ seen[w].paid \in Nat
BY DEF SeenType

\* A tick that has heard of an arrival, or changes nothing but its snapshot.
LEMMA HeardType ==
  ASSUME NEW k \in Tick, Busy(k)
  PROVE  [k EXCEPT !.heard = TRUE] \in Tick /\ Busy([k EXCEPT !.heard = TRUE])
<1> DEFINE n == [k EXCEPT !.heard = TRUE]
<1>1. n \in Tick /\ n.stage = k.stage /\ n.watch = k.watch /\ n.row = k.row
  BY Zenon DEF Tick
<1>2. QED
  BY <1>1 DEF Busy

\* A tick that awaits a call has a watch and a row in hand.
LEMMA InHand ==
  ASSUME TypeInv, NEW t \in Tickers, tick[t].stage \in Stages \ {"idle", "next"}
  PROVE  tick[t] \in Tick /\ Busy(tick[t]) /\ tick[t].watch \in Watches /\ tick[t].row \in Row
BY DEF TypeInv, TicksType, Busy

\* The arrival of a warning leaves the types alone.
LEMMA WarningArrivesType ==
  ASSUME TypeInv, NEW t \in Tickers, WarningArrives(t)
  PROVE  TypeInv'
<1> DEFINE w == tick[t].watch
<1>1. tick[t] \in Tick /\ Busy(tick[t]) /\ w \in Watches
  BY InHand DEF WarningArrives, Stages
<1>2. TicksType'
  <2>1. tick' = [tick EXCEPT ![t] = [tick[t] EXCEPT !.heard = TRUE]]
    BY DEF WarningArrives
  <2>2. QED
    BY <1>1, <2>1, HeardType, TickSet DEF TypeInv
<1>3. SeenType'
  <2> DEFINE n == Least(2, seen[w].warnings + 1)
             e == [seen[w] EXCEPT !.warnings = n]
  <2>1. n \in 0 .. 2
    BY <1>1, SeenFields DEF TypeInv, Least
  <2>2. seen' = [seen EXCEPT ![w] = e]
    BY DEF WarningArrives
  <2> HIDE DEF w, n
  <2>3. e \in [sum: Int, streak: Nat, warnings: 0 .. 2, paid: Nat]
    BY <1>1, <2>1, SeenFields DEF TypeInv
  <2>4. QED
    BY <1>1, <2>2, <2>3, SeenSet DEF TypeInv
<1>4. QED
  BY <1>2, <1>3 DEF TypeInv, WarningArrives, DbType, TopUpType, JobsType, CountType

\* Its acknowledgement does too.
LEMMA WarningAcknowledgedType ==
  ASSUME TypeInv, NEW t \in Tickers, WarningAcknowledged(t)
  PROVE  TypeInv'
<1> DEFINE w == tick[t].watch
           row == [tick[t].row EXCEPT !.warned = TRUE]
           k == [tick[t] EXCEPT !.row = row]
           new == [db[w] EXCEPT !.warned = TRUE]
<1>1. tick[t] \in Tick /\ w \in Watches /\ tick[t].row \in Row
  BY InHand DEF WarningAcknowledged, Stages
<1>2. row \in Row
  BY <1>1, RowFlagged
<1>3. Exists(w) => new \in Row
  BY <1>1, RowIn, RowFlagged DEF TypeInv
<1>4. db' = Stored(w, new) /\ tick' = [tick EXCEPT ![t] = Proceed(k)]
  BY <1>1 DEF WarningAcknowledged, Tick
<1> HIDE DEF row, new
<1>5. k \in Tick /\ k.watch = w /\ k.row = row
  BY <1>1, <1>2, Zenon DEF Tick
<1> HIDE DEF k, w
<1>6. Proceed(k) \in Tick /\ Busy(Proceed(k))
  BY <1>1, <1>2, <1>5, ProceedType
<1>7. DbType'
  BY <1>1, <1>3, <1>4, StoredType DEF TypeInv
<1>8. TicksType'
  BY <1>4, <1>6, TickSet DEF TypeInv
<1>9. QED
  BY <1>7, <1>8 DEF TypeInv, WarningAcknowledged, TopUpType, JobsType, CountType, SeenType

\* A row's turn is over: only the table and the tick change.
LEMMA TurnOverType ==
  ASSUME TypeInv, NEW t \in Tickers, tick[t] \in Tick, DbType',
         tick' = [tick EXCEPT ![t] = RowDone(tick[t])]
  PROVE  DbType' /\ TicksType'
BY RowDoneType, TickSet DEF TypeInv

\* Whatever the scanner answered, its judgement leaves the types alone.
LEMMA JudgeType ==
  ASSUME TypeInv, NEW t \in Tickers, NEW snap \in Snapshot \cup {NoSnap},
         tick[t] \in Tick, tick[t].watch \in Watches, tick[t].row \in Row, Judge(t, snap)
  PROVE  DbType' /\ TicksType'
<1> DEFINE w == tick[t].watch
           baseline == PickBetterKnown(tick[t].row.known, tick[t].row.delivered)
           new == [db[w] EXCEPT !.known = snap]
           k == [tick[t] EXCEPT !.stage = "post", !.nowMs = clock, !.snap = snap]
           news == IsNews(tick[t].row.delivered, snap)
<1>1. CASE IsPremature(baseline, snap)
  <2>1. db' = db /\ tick' = [tick EXCEPT ![t] = RowDone(tick[t])]
    BY <1>1 DEF Judge
  <2>2. DbType'
    BY <2>1 DEF TypeInv, DbType
  <2>3. QED
    BY <2>1, <2>2, TurnOverType
<1>2. CASE ~IsPremature(baseline, snap)
  <2>1. db' = Stored(w, new) /\ tick' = [tick EXCEPT ![t] = IF news THEN k ELSE RowDone(tick[t])]
    BY <1>2, Zenon DEF Judge
  <2>2. Exists(w) => new \in Row
    BY RowIn, RowKnown DEF TypeInv
  <2>3. DbType'
    <3> HIDE DEF new
    <3>1. QED
      BY <2>1, <2>2, StoredType DEF TypeInv
  <2>4. "post" \in Stages /\ clock \in Nat
    BY DEF TypeInv, CountType, Stages
  <2>5. k \in Tick /\ k.stage = "post" /\ k.watch = w /\ k.row = tick[t].row
    BY <2>4, Zenon DEF Tick
  <2> HIDE DEF k, news
  <2>6. Busy(k)
    BY <2>5 DEF Busy
  <2>7. CASE news
    BY <2>1, <2>3, <2>5, <2>6, <2>7, TickSet DEF TypeInv
  <2>8. CASE ~news
    BY <2>1, <2>3, <2>8, TurnOverType
  <2>9. QED
    BY <2>7, <2>8
<1>3. QED
  BY <1>1, <1>2

\* A poll that finds its job leaves the types alone.
LEMMA PollFoundType ==
  ASSUME TypeInv, NEW t \in Tickers, PollFound(t)
  PROVE  TypeInv'
<1>1. tick[t] \in Tick /\ Busy(tick[t]) /\ tick[t].watch \in Watches /\ tick[t].row \in Row
  BY InHand DEF PollFound, Stages
<1>2. tick[t].row.job \in JobIds
  BY <1>1 DEF PollFound, Busy
<1>3. jobs[tick[t].row.job] \in Snapshot
  BY <1>2 DEF TypeInv, JobsType, PollFound
<1>4. DbType' /\ TicksType'
  BY <1>1, <1>3, JudgeType DEF PollFound
<1>5. QED
  BY <1>4 DEF TypeInv, PollFound, TopUpType, JobsType, CountType, SeenType

\* So does the first poll of a job that is gone already.
LEMMA FirstPollNotFoundType ==
  ASSUME TypeInv, NEW t \in Tickers, FirstPollNotFound(t)
  PROVE  TypeInv'
<1>1. tick[t] \in Tick /\ tick[t].watch \in Watches /\ tick[t].row \in Row
  BY InHand DEF FirstPollNotFound, Stages
<1>2. DbType' /\ TicksType'
  BY <1>1, JudgeType DEF FirstPollNotFound
<1>3. QED
  BY <1>2 DEF TypeInv, FirstPollNotFound, TopUpType, JobsType, CountType, SeenType

\* The scan job of the row in hand is replaced, here and in the table.
LEMMA NewJobType ==
  ASSUME TypeInv, NEW t \in Tickers, NEW j \in JobIds \cup {NoJob}, NEW s \in {"start", "first"},
         tick[t].stage \in Stages \ {"idle", "next"}, s = "first" => j \in JobIds,
         db' = Stored(tick[t].watch, [db[tick[t].watch] EXCEPT !.job = j]),
         tick' = [tick EXCEPT ![t].stage = s, ![t].row.job = j]
  PROVE  DbType' /\ TicksType'
<1> DEFINE w == tick[t].watch
           row == [tick[t].row EXCEPT !.job = j]
           k == [tick[t] EXCEPT !.stage = s, !.row = row]
           new == [db[w] EXCEPT !.job = j]
<1>1. tick[t] \in Tick /\ w \in Watches /\ tick[t].row \in Row
  BY InHand
<1>2. row \in Row /\ row.job = j
  BY <1>1, RowJob
<1>3. Exists(w) => new \in Row
  BY <1>1, RowIn, RowJob DEF TypeInv
<1>4. tick' = [tick EXCEPT ![t] = k]
  BY <1>1, Zenon DEF TypeInv, TicksType, Tick
<1>5. s \in Stages
  BY DEF Stages
<1> HIDE DEF row, new
<1>6. k \in Tick /\ k.stage = s /\ k.watch = w /\ k.row = row
  BY <1>1, <1>2, <1>5, Zenon DEF Tick
<1>7. Busy(k)
  BY <1>1, <1>2, <1>6 DEF Busy
<1>8. DbType'
  BY <1>1, <1>3, StoredType DEF TypeInv, new
<1> HIDE DEF k
<1>9. TicksType'
  BY <1>4, <1>6, <1>7, TickSet DEF TypeInv
<1>10. QED
  BY <1>8, <1>9

\* So does the poll of a lost job.
LEMMA PollNotFoundType ==
  ASSUME TypeInv, NEW t \in Tickers, PollNotFound(t)
  PROVE  TypeInv'
<1>1. DbType' /\ TicksType'
  BY NewJobType DEF PollNotFound, Stages
<1>2. QED
  BY <1>1 DEF TypeInv, PollNotFound, TopUpType, JobsType, CountType, SeenType

\* A new job reports a snapshot, because a chain has at least one block.
LEMMA FreshJobType == FreshJob \in Snapshot
<1>1. 0 \in 0 .. MaxHeight
  BY PollerAssumption DEF MaxHeight
<1>2. QED
  BY <1>1 DEF FreshJob, Snapshot

\* A started job leaves the types alone.
LEMMA StartReplyType ==
  ASSUME TypeInv, NEW t \in Tickers, NEW j \in JobIds, StartReply(t, j)
  PROVE  TypeInv'
<1>1. DbType' /\ TicksType'
  BY NewJobType DEF StartReply, Stages
<1>2. JobsType'
  BY FreshJobType DEF TypeInv, JobsType, StartReply
<1>3. QED
  BY <1>1, <1>2 DEF TypeInv, StartReply, TopUpType, CountType, SeenType

\* The amounts of an announcement are numbers, also where a balance is absent.
LEMMA DeltaType ==
  ASSUME NEW before \in Snapshot \cup {NoSnap}, NEW snap \in Snapshot \cup {NoSnap}
  PROVE  Delta(before, snap) \in Int
<1>1. \A s \in Snapshot \cup {NoSnap} : Amount(s) \in Nat
  BY DEF Snapshot, Amount, NoBalance
<1>2. QED
  BY <1>1 DEF Delta

\* The arrival of a webhook leaves the types alone.
LEMMA WebhookArrivesType ==
  ASSUME TypeInv, NEW t \in Tickers, WebhookArrives(t)
  PROVE  TypeInv'
<1> DEFINE w == tick[t].watch
           delta == Delta(tick[t].row.delivered, tick[t].snap)
<1>1. tick[t] \in Tick /\ Busy(tick[t]) /\ w \in Watches /\ tick[t].row \in Row
  BY InHand DEF WebhookArrives, Stages
<1>2. TicksType'
  <2>1. tick' = [tick EXCEPT ![t] = [tick[t] EXCEPT !.heard = TRUE]]
    BY DEF WebhookArrives
  <2>2. QED
    BY <1>1, <2>1, HeardType, TickSet DEF TypeInv
<1>3. SeenType'
  <2> DEFINE n == seen[w].sum + delta
             e == [seen[w] EXCEPT !.sum = n]
  <2>1. delta \in Int
    BY <1>1, DeltaType, TickFields, RowFields
  <2>2. seen' = [seen EXCEPT ![w] = e]
    BY DEF WebhookArrives
  <2> HIDE DEF w, delta
  <2>3. n \in Int
    BY <1>1, <2>1, SeenFields DEF TypeInv
  <2> HIDE DEF n
  <2>4. e \in [sum: Int, streak: Nat, warnings: 0 .. 2, paid: Nat]
    BY <1>1, <2>3, SeenFields DEF TypeInv
  <2>5. QED
    BY <1>1, <2>2, <2>4, SeenSet DEF TypeInv
<1>4. QED
  BY <1>2, <1>3 DEF TypeInv, WebhookArrives, DbType, TopUpType, JobsType, CountType

\* So does its acknowledgement, which bills the call.
LEMMA WebhookAcknowledgedType ==
  ASSUME TypeInv, NEW t \in Tickers, WebhookAcknowledged(t)
  PROVE  TypeInv'
<1> DEFINE w == tick[t].watch
           row == CallCharged(tick[t].row, tick[t].nowMs)
           new == [db[w] EXCEPT !.delivered = tick[t].snap, !.attempts = 0,
                                !.deliveries = row.deliveries + 1, !.credit = row.credit,
                                !.billed = row.billed, !.expires = row.expires]
           e == [seen[w] EXCEPT !.streak = 0]
<1>1. tick[t] \in Tick /\ w \in Watches /\ tick[t].row \in Row
  BY InHand DEF WebhookAcknowledged, Stages
<1>2. tick[t].snap \in Snapshot \cup {NoSnap} /\ tick[t].nowMs \in Nat
  BY <1>1, TickFields
<1>3. /\ row.credit \in Nat /\ row.billed \in Nat /\ row.expires \in Nat
      /\ row.deliveries + 1 \in Nat
  BY <1>1, <1>2, CallChargedFields, RowFields
<1>4. /\ db' = Stored(w, new) /\ tick' = [tick EXCEPT ![t] = RowDone(tick[t])]
      /\ seen' = [seen EXCEPT ![w] = e]
  BY Zenon DEF WebhookAcknowledged
<1>5. Exists(w) => new \in Row
  <2> HIDE DEF row
  <2>1. 0 \in Nat
    OBVIOUS
  <2>2. QED
    BY <1>1, <1>2, <1>3, <2>1, RowIn, RowAcknowledged DEF TypeInv
<1>6. e \in [sum: Int, streak: Nat, warnings: 0 .. 2, paid: Nat]
  BY <1>1, SeenFields DEF TypeInv
<1> HIDE DEF new, e
<1>7. DbType'
  BY <1>1, <1>4, <1>5, StoredType DEF TypeInv
<1>8. TicksType'
  BY <1>1, <1>4, <1>7, TurnOverType
<1>9. SeenType'
  BY <1>1, <1>4, <1>6, SeenSet DEF TypeInv
<1>10. QED
  BY <1>7, <1>8, <1>9 DEF TypeInv, WebhookAcknowledged, TopUpType, JobsType, CountType

\* The purge at the end of a tick leaves the types alone.
LEMMA TickEndType ==
  ASSUME TypeInv, NEW t \in Tickers, TickEnd(t)
  PROVE  TypeInv'
<1>1. DbType'
  BY DEF TypeInv, TickEnd, DbType
<1>2. TicksType'
  BY IdleTickType, TickSet DEF TypeInv, TickEnd
<1>3. QED
  BY <1>1, <1>2 DEF TypeInv, TickEnd, TopUpType, JobsType, CountType, SeenType

-----------------------------------------------------------------------------
(* Faults and the environment *)

\* Faults are counted by a natural number.
LEMMA FaultType ==
  ASSUME CountType, NEW kind, Fault(kind), UNCHANGED <<tip, clock>>
  PROVE  CountType'
BY DEF CountType, Fault

\* A scanner call that throws leaves the types alone.
LEMMA CallThrowsType ==
  ASSUME TypeInv, NEW t \in Tickers, CallThrows(t)
  PROVE  TypeInv'
<1>1. tick[t] \in Tick
  BY DEF TypeInv, TicksType
<1>2. DbType'
  BY DEF TypeInv, CallThrows, DbType
<1>3. TicksType'
  BY <1>1, <1>2, TurnOverType DEF CallThrows
<1>4. CountType'
  BY FaultType DEF TypeInv, CallThrows
<1>5. QED
  BY <1>2, <1>3, <1>4 DEF TypeInv, CallThrows, TopUpType, JobsType, SeenType

\* A missing acknowledgement is one fault.
LEMMA NotAcknowledgedType ==
  ASSUME CountType, NEW t \in Tickers, NotAcknowledged(t), UNCHANGED <<tip, clock>>
  PROVE  CountType'
BY FaultType DEF NotAcknowledged

\* A failed warning leaves the types alone.
LEMMA WarningFailsType ==
  ASSUME TypeInv, NEW t \in Tickers, WarningFails(t)
  PROVE  TypeInv'
<1>1. tick[t] \in Tick /\ tick[t].watch \in Watches /\ tick[t].row \in Row
  BY InHand DEF WarningFails, Stages
<1>2. TicksType'
  BY <1>1, ProceedType, TickSet DEF TypeInv, WarningFails
<1>3. CountType'
  BY NotAcknowledgedType DEF TypeInv, WarningFails
<1>4. QED
  BY <1>2, <1>3 DEF TypeInv, WarningFails, DbType, TopUpType, JobsType, SeenType

\* So does a failed webhook.
LEMMA WebhookFailsType ==
  ASSUME TypeInv, NEW t \in Tickers, WebhookFails(t)
  PROVE  TypeInv'
<1> DEFINE w == tick[t].watch
           attempts == tick[t].row.attempts + 1
           dead == attempts >= MaxAttempts
           new == [db[w] EXCEPT !.attempts = attempts, !.dead = dead]
           n == seen[w].streak + 1
           e == [seen[w] EXCEPT !.streak = n]
<1>1. tick[t] \in Tick /\ w \in Watches /\ tick[t].row \in Row
  BY InHand DEF WebhookFails, Stages
<1>2. attempts \in Nat /\ dead \in BOOLEAN /\ n \in Nat
  BY <1>1, RowFields, SeenFields DEF TypeInv
<1>3. /\ db' = Stored(w, new) /\ tick' = [tick EXCEPT ![t] = RowDone(tick[t])]
      /\ seen' = [seen EXCEPT ![w] = e]
  BY Zenon DEF WebhookFails
<1> HIDE DEF attempts, dead, n
<1>4. Exists(w) => new \in Row
  BY <1>1, <1>2, RowIn, RowFailed DEF TypeInv
<1>5. e \in [sum: Int, streak: Nat, warnings: 0 .. 2, paid: Nat]
  BY <1>1, <1>2, SeenFields DEF TypeInv
<1> HIDE DEF new, e
<1>6. DbType'
  BY <1>1, <1>3, <1>4, StoredType DEF TypeInv
<1>7. TicksType'
  BY <1>1, <1>3, <1>6, TurnOverType
<1>8. SeenType'
  BY <1>1, <1>3, <1>5, SeenSet DEF TypeInv
<1>9. CountType'
  BY NotAcknowledgedType DEF TypeInv, WebhookFails
<1>10. QED
  BY <1>6, <1>7, <1>8, <1>9 DEF TypeInv, WebhookFails, TopUpType, JobsType

\* After a crash every tick is idle.
LEMMA CrashType ==
  ASSUME TypeInv, Crash
  PROVE  TypeInv'
<1>1. TicksType'
  BY IdleTickType DEF Crash, TicksType
<1>2. CountType'
  BY FaultType DEF TypeInv, Crash
<1>3. QED
  BY <1>1, <1>2 DEF TypeInv, Crash, DbType, TopUpType, JobsType, SeenType

\* A job that scans one block further stays within the chain.
LEMMA JobScansType ==
  ASSUME TypeInv, NEW j \in JobIds, JobScans(j)
  PROVE  TypeInv'
<1> DEFINE h == jobs[j].height + 1
           s == IF h = tip THEN "completed" ELSE "running"
           b == BalanceAt[jobs[j].height + 2]
           new == [status |-> s, height |-> h, balance |-> b, error |-> FALSE]
<1>1. jobs[j].height \in 0 .. MaxHeight /\ jobs[j].height < tip /\ tip \in 0 .. MaxHeight
  BY DEF TypeInv, JobsType, CountType, JobScans, Snapshot
<1>2. h \in 0 .. MaxHeight /\ jobs[j].height + 2 \in 1 .. Len(BalanceAt)
  <2>1. Len(BalanceAt) \in Nat /\ MaxHeight = Len(BalanceAt) - 1
    BY PollerAssumption DEF MaxHeight
  <2>2. QED
    BY <1>1, <2>1
<1>3. b \in Nat
  BY <1>2, PollerAssumption
<1>4. jobs' = [jobs EXCEPT ![j] = new]
  BY DEF JobScans
<1>5. s \in {"running", "completed", "failed"}
  OBVIOUS
<1> HIDE DEF h, s, b
<1>6. new \in Snapshot
  BY <1>2, <1>3, <1>5 DEF Snapshot
<1> HIDE DEF new
<1>7. JobsType'
  BY <1>4, <1>6 DEF TypeInv, JobsType
<1>8. QED
  BY <1>7 DEF TypeInv, JobScans, DbType, TicksType, TopUpType, CountType, SeenType

\* Both forms of a failure are snapshots.
LEMMA JobFailsType ==
  ASSUME TypeInv, NEW j \in JobIds, JobFails(j)
  PROVE  TypeInv'
<1>1. 0 \in 0 .. MaxHeight
  BY PollerAssumption DEF MaxHeight
<1>2. BareFailure \in Snapshot
  BY <1>1 DEF BareFailure, Snapshot, NoBalance
<1>3. jobs[j] \in Snapshot
  BY DEF TypeInv, JobsType, JobFails
<1>4. [jobs[j] EXCEPT !.status = "failed", !.error = TRUE] \in Snapshot
  BY <1>3 DEF Snapshot
<1>5. PICK f \in Snapshot : jobs' = [jobs EXCEPT ![j] = f]
  BY <1>2, <1>4 DEF JobFails
<1>6. JobsType'
  BY <1>5 DEF TypeInv, JobsType
<1>7. CountType'
  BY FaultType DEF TypeInv, JobFails
<1>8. QED
  BY <1>6, <1>7 DEF TypeInv, JobFails, DbType, TicksType, TopUpType, SeenType

\* A job that is lost or evicted leaves the types alone.
LEMMA JobGoneType ==
  ASSUME TypeInv, NEW j \in JobIds, JobLost(j) \/ JobEvicted(j)
  PROVE  TypeInv'
<1>1. JobsType'
  BY DEF TypeInv, JobsType, JobLost, JobEvicted
<1>2. CountType'
  BY FaultType DEF TypeInv, CountType, JobLost, JobEvicted
<1>3. QED
  BY <1>1, <1>2 DEF TypeInv, JobLost, JobEvicted, DbType, TicksType, TopUpType, SeenType

\* So do a new block and the clock.
LEMMA TimePassesType ==
  ASSUME TypeInv, Mine \/ Advance
  PROVE  TypeInv'
<1>1. CountType'
  BY PollerAssumption DEF TypeInv, CountType, Mine, Advance, MaxHeight
<1>2. QED
  BY <1>1 DEF TypeInv, Mine, Advance, DbType, TicksType, TopUpType, JobsType, SeenType

-----------------------------------------------------------------------------
(* Type correctness *)

\* The strengthened types hold in an empty database with no tick running.
LEMMA InitType == Init => TypeInv
<1> SUFFICES ASSUME Init PROVE TypeInv
  OBVIOUS
<1>1. DbType
  BY DEF Init, DbType
<1>2. TicksType
  BY IdleTickType DEF Init, TicksType
<1>3. TopUpType
  BY DEF Init, TopUpType, NoTopUp
<1>4. JobsType
  BY DEF Init, JobsType
<1>5. CountType
  BY PollerAssumption DEF Init, CountType, MaxHeight
<1>6. SeenType
  BY DEF Init, SeenType
<1>7. QED
  BY <1>1, <1>2, <1>3, <1>4, <1>5, <1>6 DEF TypeInv

\* Every step of the specification preserves them.
LEMMA TypeStep == TypeInv /\ [Next]_vars => TypeInv'
<1> SUFFICES ASSUME TypeInv, [Next]_vars PROVE TypeInv'
  OBVIOUS
<1>1. ASSUME NEW w \in Watches, CreateWatch(w) \/ CancelWatch(w) PROVE TypeInv'
  BY <1>1, CreateWatchType, CancelWatchType
<1>2. ASSUME NEW w \in Watches, NEW amount \in TopUpAmounts,
             TopUp(w, amount) \/ TopUpRead(w, amount)
      PROVE  TypeInv'
  BY <1>2, TopUpStepType, TopUpReadType
<1>3. CASE TopUpWrite
  BY <1>3, TopUpWriteType
<1>4. ASSUME NEW t \in Tickers, TickBegin(t) \/ TickStep(t) PROVE TypeInv'
  <2>1. CASE TickBegin(t)
    BY <2>1, TickBeginType
  <2>2. ASSUME NEW w \in Watches, TakeRow(t, w) PROVE TypeInv'
    BY <2>2, TakeRowType
  <2>3. CASE WarningArrives(t) \/ WarningAcknowledged(t)
    BY <2>3, WarningArrivesType, WarningAcknowledgedType
  <2>4. CASE PollFound(t) \/ PollNotFound(t) \/ FirstPollNotFound(t)
    BY <2>4, PollFoundType, PollNotFoundType, FirstPollNotFoundType
  <2>5. ASSUME NEW j \in JobIds, StartReply(t, j) PROVE TypeInv'
    BY <2>5, StartReplyType
  <2>6. CASE WebhookArrives(t) \/ WebhookAcknowledged(t)
    BY <2>6, WebhookArrivesType, WebhookAcknowledgedType
  <2>7. CASE TickEnd(t)
    BY <2>7, TickEndType
  <2>8. QED
    BY <1>4, <2>1, <2>2, <2>3, <2>4, <2>5, <2>6, <2>7 DEF TickStep
<1>5. ASSUME NEW t \in Tickers, TickFault(t) PROVE TypeInv'
  BY <1>5, CallThrowsType, WarningFailsType, WebhookFailsType DEF TickFault
<1>6. CASE Crash
  BY <1>6, CrashType
<1>7. CASE Upstream
  BY <1>7, JobScansType, JobFailsType, JobGoneType DEF Upstream
<1>8. CASE Mine \/ Advance
  BY <1>8, TimePassesType
<1>9. CASE UNCHANGED vars
  BY <1>9 DEF vars, TypeInv, DbType, TicksType, TopUpType, JobsType, CountType, SeenType
<1>10. QED
  BY <1>1, <1>2, <1>3, <1>4, <1>5, <1>6, <1>7, <1>8, <1>9 DEF Next, Rest

\* Every variable keeps its type, and a tick that awaits a call always has
\* the row it needs when the answer comes, in every reachable state.
THEOREM TypeCorrect == Spec => []TypeOK
<1>1. TypeInv => TypeOK
  BY DEF TypeInv, TypeOK, DbType, TicksType, TopUpType, JobsType, CountType, SeenType
<1>2. QED
  BY <1>1, InitType, TypeStep, PTL DEF Spec

-----------------------------------------------------------------------------
(* Credit is paid for: the inductive invariant *)

\* A copy of a row of watch w with that much credit is paid for.
Covered(s, w, credit) == credit <= s[w].paid

\* The copies a tick holds: those it has still to take, and the one in hand.
TickPaid(s, k) ==
  /\ \A w \in Watches : k.todo[w] # NoRow => Covered(s, w, k.todo[w].credit)
  /\ k.stage \in Stages \ {"idle", "next"} => Covered(s, k.watch, k.row.credit)

TicksPaid == \A t \in Tickers : TickPaid(seen, tick[t])

\* A top-up between its SELECT and its UPDATE is another process's, and holds
\* a copy that its own payment is already part of.
TopUpPaid ==
  topup # NoTopUp =>
    /\ TopUpWhen = "split"
    /\ topup.row.credit <= seen[topup.watch].paid + topup.amount

PaidInv == TypeInv /\ NeverGrantsUnpaidCredit /\ TicksPaid /\ TopUpPaid

\* A step in which nobody pays, and one in which somebody may.
PaysNothing == \A w \in Watches : seen'[w].paid = seen[w].paid
OnlyPays    == \A w \in Watches : seen[w].paid <= seen'[w].paid

-----------------------------------------------------------------------------
(* What steps preserve of it *)

\* Copies stay covered whoever pays.
LEMMA CoveredKept ==
  ASSUME TypeInv, TypeInv', OnlyPays, NEW w \in Watches, NEW credit \in Nat,
         Covered(seen, w, credit)
  PROVE  Covered(seen', w, credit)
<1>1. seen[w].paid \in Nat /\ seen'[w].paid \in Nat /\ seen[w].paid <= seen'[w].paid
  BY DEF OnlyPays, TypeInv, SeenType
<1>2. QED
  BY <1>1 DEF Covered

\* So do all the copies a tick holds.
LEMMA TickPaidKept ==
  ASSUME TypeInv, TypeInv', OnlyPays, NEW k \in Tick, Busy(k), TickPaid(seen, k)
  PROVE  TickPaid(seen', k)
<1>1. ASSUME NEW w \in Watches, k.todo[w] # NoRow
      PROVE  Covered(seen', w, k.todo[w].credit)
  <2>1. k.todo[w] \in Row
    BY <1>1, TickFields
  <2>2. k.todo[w].credit \in Nat
    BY <2>1, RowFields
  <2>3. QED
    BY <1>1, <2>2, CoveredKept DEF TickPaid
<1>2. ASSUME k.stage \in Stages \ {"idle", "next"}
      PROVE  Covered(seen', k.watch, k.row.credit)
  <2>1. k.watch \in Watches /\ k.row.credit \in Nat
    BY <1>2, RowFields DEF Busy
  <2>2. QED
    BY <1>2, <2>1, CoveredKept DEF TickPaid
<1>3. QED
  BY <1>1, <1>2 DEF TickPaid

\* A step in which nobody pays is one in which somebody may.
LEMMA NothingIsOnly ==
  ASSUME TypeInv, PaysNothing
  PROVE  OnlyPays
BY DEF TypeInv, SeenType, PaysNothing, OnlyPays

\* What is remembered of a receiver changes, its payments do not.
LEMMA NothingPaid ==
  ASSUME TypeInv, NEW w \in Watches, NEW e, e.paid = seen[w].paid,
         seen' = [seen EXCEPT ![w] = e]
  PROVE  PaysNothing
BY DEF TypeInv, SeenType, PaysNothing

\* The whole invariant after a step in which nobody pays, once the new local
\* states are known to be covered by what was paid before.
LEMMA PaysNothingKeeps ==
  ASSUME PaidInv, TypeInv', PaysNothing, NeverGrantsUnpaidCredit',
         \A t \in Tickers : TickPaid(seen, tick'[t]), UNCHANGED topup
  PROVE  PaidInv'
<1>1. OnlyPays
  BY NothingIsOnly DEF PaidInv
<1>2. TicksPaid'
  <2> SUFFICES ASSUME NEW t \in Tickers PROVE TickPaid(seen', tick'[t])
    BY DEF TicksPaid
  <2>1. tick'[t] \in Tick /\ Busy(tick'[t])
    BY DEF TypeInv, TicksType
  <2>2. QED
    BY <1>1, <2>1, TickPaidKept DEF PaidInv
<1>3. TopUpPaid'
  BY DEF TopUpPaid, PaysNothing, PaidInv, TypeInv, TopUpType
<1>4. QED
  BY <1>2, <1>3 DEF PaidInv

\* One tick moves on; the others stay as they were.
LEMMA OneTickPaid ==
  ASSUME PaidInv, NEW t \in Tickers, NEW k, TickPaid(seen, k), tick' = [tick EXCEPT ![t] = k]
  PROVE  \A u \in Tickers : TickPaid(seen, tick'[u])
BY DEF PaidInv, TicksPaid, TypeInv, TicksType

\* Ticks that do not move stay covered.
LEMMA TicksUnmoved ==
  ASSUME PaidInv, UNCHANGED tick
  PROVE  \A u \in Tickers : TickPaid(seen, tick'[u])
BY DEF PaidInv, TicksPaid

\* A write of the poller that grants no more credit than was paid.
LEMMA StoredPaid ==
  ASSUME PaidInv, NEW w \in Watches, NEW new, db' = Stored(w, new), PaysNothing,
         Exists(w) => new.credit <= seen[w].paid
  PROVE  NeverGrantsUnpaidCredit'
<1>1. CASE ~Exists(w)
  BY <1>1 DEF Stored, PaysNothing, PaidInv, NeverGrantsUnpaidCredit, Exists
<1>2. CASE Exists(w)
  <2>1. db' = [db EXCEPT ![w] = new] /\ db \in [Watches -> Row \cup {Unborn, Purged}]
    BY <1>2 DEF Stored, PaidInv, TypeInv, DbType
  <2>2. QED
    BY <1>2, <2>1 DEF PaysNothing, PaidInv, NeverGrantsUnpaidCredit, Exists
<1>3. QED
  BY <1>1, <1>2

\* A table that is not written grants nothing.
LEMMA TableUnmoved ==
  ASSUME PaidInv, UNCHANGED db, PaysNothing
  PROVE  NeverGrantsUnpaidCredit'
BY DEF PaidInv, PaysNothing, NeverGrantsUnpaidCredit, Exists

\* Nobody pays when nothing is remembered.
LEMMA SeenUnmoved == ASSUME UNCHANGED seen PROVE PaysNothing
BY DEF PaysNothing

\* Charges only lower the credit.
LEMMA ChargesLower ==
  ASSUME NEW row \in Row, NEW now \in Nat
  PROVE  /\ DayCharged(row, now).credit <= row.credit
         /\ CallCharged(row, now).credit <= row.credit
<1>1. row.credit \in Nat /\ CallRate \in Nat /\ DayChargeDue(row, now) \in Nat
  BY RowFields, DayChargeFacts, MeterAssumption
<1>2. DayCharged(row, now).credit \in {row.credit, AtLeastZero(row.credit - DayChargeDue(row, now))}
  <2> DEFINE c == AtLeastZero(row.credit - DayChargeDue(row, now))
  <2>1. \A b, l, e : [row EXCEPT !.credit = c, !.billed = b, !.lastBilled = l, !.expires = e].credit = c
    BY Zenon DEF Row
  <2>2. QED
    BY <2>1, Zenon DEF DayCharged
<1>3. CallCharged(row, now).credit = AtLeastZero(row.credit - CallRate)
  BY CallChargedFields
<1>4. QED
  BY <1>1, <1>2, <1>3 DEF AtLeastZero

-----------------------------------------------------------------------------
(* REST calls leave it paid for *)

\* A payment that reaches the table: all that was held is still covered, and
\* the row that is written is covered by what is paid now.
LEMMA PaymentKeeps ==
  ASSUME PaidInv, TypeInv', OnlyPays, NEW w \in Watches, NEW new,
         new.credit <= seen'[w].paid, db' = [db EXCEPT ![w] = new],
         UNCHANGED tick, TopUpPaid'
  PROVE  PaidInv'
<1>1. db \in [Watches -> Row \cup {Unborn, Purged}]
  BY DEF PaidInv, TypeInv, DbType
<1>2. NeverGrantsUnpaidCredit'
  <2> SUFFICES ASSUME NEW v \in Watches, db'[v] \notin {Unborn, Purged}
               PROVE  db'[v].credit <= seen'[v].paid
    BY DEF NeverGrantsUnpaidCredit, Exists
  <2>1. CASE v = w
    BY <1>1, <2>1
  <2>2. CASE v # w
    <3>1. db'[v] = db[v] /\ Exists(v)
      BY <1>1, <2>2 DEF Exists
    <3>2. db[v].credit \in Nat /\ seen[v].paid \in Nat /\ seen'[v].paid \in Nat
      BY <3>1, RowIn, RowFields DEF PaidInv, TypeInv, SeenType
    <3>3. db[v].credit <= seen[v].paid /\ seen[v].paid <= seen'[v].paid
      BY <3>1 DEF PaidInv, NeverGrantsUnpaidCredit, OnlyPays
    <3>4. QED
      BY <3>1, <3>2, <3>3
  <2>3. QED
    BY <2>1, <2>2
<1>3. TicksPaid'
  <2> SUFFICES ASSUME NEW t \in Tickers PROVE TickPaid(seen', tick'[t])
    BY DEF TicksPaid
  <2>1. tick[t] \in Tick /\ Busy(tick[t]) /\ TickPaid(seen, tick[t]) /\ tick'[t] = tick[t]
    BY DEF PaidInv, TypeInv, TicksType, TicksPaid
  <2>2. TickPaid(seen', tick[t])
    BY <2>1, TickPaidKept DEF PaidInv
  <2>3. QED
    BY <2>1, <2>2
<1>4. QED
  BY <1>2, <1>3 DEF PaidInv

\* A top-up in flight stays covered whoever else pays.
LEMMA TopUpCovered ==
  ASSUME PaidInv, TypeInv', OnlyPays, UNCHANGED topup
  PROVE  TopUpPaid'
<1> SUFFICES ASSUME topup # NoTopUp
             PROVE  topup.row.credit <= seen'[topup.watch].paid + topup.amount
  BY DEF PaidInv, TopUpPaid
<1>1. topup.watch \in Watches /\ topup.row \in Row /\ topup.amount \in Nat
  <2>1. topup.watch \in Watches /\ topup.row \in Row
    BY DEF PaidInv, TypeInv, TopUpType
  <2>2. topup.amount \in TopUpAmounts \cup {0}
    BY DEF PaidInv, TypeInv, TopUpType
  <2>3. TopUpAmounts \cup {0} \subseteq Nat
    BY PollerAssumption
  <2>4. QED
    BY <2>1, <2>2, <2>3
<1>2. /\ topup.row.credit \in Nat
      /\ seen[topup.watch].paid \in Nat /\ seen'[topup.watch].paid \in Nat
  BY <1>1, RowFields DEF PaidInv, TypeInv, SeenType
<1>3. /\ topup.row.credit <= seen[topup.watch].paid + topup.amount
      /\ seen[topup.watch].paid <= seen'[topup.watch].paid
  BY <1>1 DEF PaidInv, TopUpPaid, OnlyPays
<1>4. QED
  BY <1>1, <1>2, <1>3

\* What a payment adds to what was paid.
LEMMA PaymentAdds ==
  ASSUME TypeInv, NEW w \in Watches, NEW amount \in Nat, NEW e,
         e.paid = seen[w].paid + amount, seen' = [seen EXCEPT ![w] = e]
  PROVE  OnlyPays /\ seen'[w].paid = seen[w].paid + amount
<1>1. \A v \in Watches : seen[v].paid \in Nat
  BY DEF TypeInv, SeenType
<1>2. \A v \in Watches : seen'[v] = IF v = w THEN e ELSE seen[v]
  BY DEF TypeInv, SeenType
<1>3. QED
  BY <1>1, <1>2 DEF OnlyPays

\* The same, of a top-up.
LEMMA SeenToppedUpAdds ==
  ASSUME TypeInv, NEW w \in Watches, NEW amount \in Nat, NEW credit,
         seen' = SeenToppedUp(w, amount, credit)
  PROVE  OnlyPays /\ seen'[w].paid = seen[w].paid + amount
<1> DEFINE p == seen[w].paid + amount
           n == IF credit > LowThreshold THEN 0 ELSE seen[w].warnings
           e == [seen[w] EXCEPT !.paid = p, !.warnings = n]
<1>1. seen' = [seen EXCEPT ![w] = e]
  BY DEF SeenToppedUp, TypeInv, SeenType
<1>2. e.paid = p
  BY DEF TypeInv, SeenType
<1>3. QED
  BY <1>1, <1>2, PaymentAdds

\* A new watch starts with the credit that was paid for it.
LEMMA CreateWatchPaid ==
  ASSUME PaidInv, TypeInv', NEW w \in Watches, CreateWatch(w)
  PROVE  PaidInv'
<1> DEFINE p == seen[w].paid + Starter
           e == [seen[w] EXCEPT !.paid = p]
<1>1. db' = [db EXCEPT ![w] = NewRow(clock)] /\ UNCHANGED <<tick, topup>>
  BY DEF CreateWatch
<1>2. NewRow(clock).credit = Starter
  BY Zenon DEF NewRow
<1>3. seen' = [seen EXCEPT ![w] = e] /\ e.paid = p
  BY DEF CreateWatch, PaidInv, TypeInv, SeenType
<1>4. Starter \in Nat /\ seen[w].paid \in Nat
  BY PollerAssumption DEF PaidInv, TypeInv, SeenType
<1>5. OnlyPays /\ seen'[w].paid = p
  BY <1>3, <1>4, PaymentAdds DEF PaidInv
<1>6. TopUpPaid'
  BY <1>1, <1>5, TopUpCovered
<1>7. NewRow(clock).credit <= seen'[w].paid
  BY <1>2, <1>4, <1>5
<1>8. QED
  BY <1>1, <1>5, <1>6, <1>7, PaymentKeeps

\* A cancellation touches no money.
LEMMA CancelWatchPaid ==
  ASSUME PaidInv, TypeInv', NEW w \in Watches, CancelWatch(w)
  PROVE  PaidInv'
<1> DEFINE new == [db[w] EXCEPT !.cancelled = TRUE]
<1>1. db[w] \in Row /\ Exists(w)
  BY RowIn DEF PaidInv, TypeInv, CancelWatch
<1>2. new.credit = db[w].credit
  BY <1>1, Zenon DEF Row
<1>3. db' = Stored(w, new) /\ PaysNothing
  BY <1>1, SeenUnmoved DEF CancelWatch, Stored
<1>4. db[w].credit <= seen[w].paid
  BY <1>1 DEF PaidInv, NeverGrantsUnpaidCredit
<1> HIDE DEF new
<1>5. NeverGrantsUnpaidCredit'
  BY <1>2, <1>3, <1>4, StoredPaid
<1>6. \A u \in Tickers : TickPaid(seen, tick'[u])
  BY TicksUnmoved DEF CancelWatch
<1>7. QED
  BY <1>3, <1>5, <1>6, PaysNothingKeeps DEF CancelWatch

\* A top-up adds the same amount to the credit and to the total.
LEMMA ToppedUpAdds ==
  ASSUME NEW row \in Row, NEW amount \in Nat, NEW now \in Nat
  PROVE  /\ ToppedUp(row, amount, now) \in Row
         /\ ToppedUp(row, amount, now).credit = row.credit + amount
         /\ ToppedUp(row, amount, now).topups = row.topups + amount
<1> DEFINE c == row.credit + amount
           p == row.topups + amount
           e == ExpiryAfterPayment(c, now)
           u == row.warned /\ c <= LowThreshold
<1>1. ToppedUp(row, amount, now) =
        [row EXCEPT !.credit = c, !.topups = p, !.expires = e, !.warned = u, !.dead = FALSE]
  BY Zenon DEF ToppedUp
<1> HIDE DEF c, p, e, u
<1> DEFINE new == [row EXCEPT !.credit = c, !.topups = p, !.expires = e, !.warned = u, !.dead = FALSE]
<1>2. new.credit = c /\ new.topups = p
  BY Zenon DEF Row
<1> HIDE DEF new
<1>3. ToppedUp(row, amount, now).credit = c /\ ToppedUp(row, amount, now).topups = p
  BY <1>1, <1>2 DEF new
<1>4. QED
  BY <1>3, ToppedUpType DEF c, p

\* What a top-up would leave of a row is paid for, the top-up included.
LEMMA ToppedUpCovered ==
  ASSUME PaidInv, NEW w \in Watches, Exists(w), NEW amount \in Nat
  PROVE  ToppedUp(db[w], amount, clock).credit <= seen[w].paid + amount
<1>1. db[w] \in Row /\ clock \in Nat
  BY RowIn DEF PaidInv, TypeInv, CountType
<1>2. ToppedUp(db[w], amount, clock).credit = db[w].credit + amount
  BY <1>1, ToppedUpAdds
<1>3. db[w].credit \in Nat /\ seen[w].paid \in Nat
  BY <1>1, RowFields DEF PaidInv, TypeInv, SeenType
<1>4. db[w].credit <= seen[w].paid
  BY DEF PaidInv, NeverGrantsUnpaidCredit
<1>5. QED
  BY <1>2, <1>3, <1>4

\* A top-up in one piece keeps the invariant, also in the middle of one of
\* the other process.
LEMMA TopUpPaidStep ==
  ASSUME PaidInv, TypeInv', NEW w \in Watches, NEW amount \in TopUpAmounts, TopUp(w, amount)
  PROVE  PaidInv'
<1> DEFINE new == ToppedUp(db[w], amount, clock)
<1>1. Exists(w) /\ amount \in Nat
  BY PollerAssumption DEF TopUp, TopUpAllowed
<1>2. db' = [db EXCEPT ![w] = new] /\ UNCHANGED <<tick, topup>>
  BY DEF TopUp
<1>3. OnlyPays /\ seen'[w].paid = seen[w].paid + amount
  BY <1>1, SeenToppedUpAdds DEF TopUp, PaidInv
<1>4. new.credit <= seen'[w].paid
  BY <1>1, <1>3, ToppedUpCovered
<1>5. TopUpPaid'
  BY <1>2, <1>3, TopUpCovered
<1> HIDE DEF new
<1>6. QED
  BY <1>2, <1>3, <1>4, <1>5, PaymentKeeps

\* The SELECT of a split top-up keeps it: the copy it will write is paid for.
LEMMA TopUpReadPaid ==
  ASSUME PaidInv, TypeInv', NEW w \in Watches, NEW amount \in TopUpAmounts,
         TopUpRead(w, amount)
  PROVE  PaidInv'
<1> DEFINE new == ToppedUp(db[w], amount, clock)
<1>1. Exists(w) /\ amount \in Nat
  BY PollerAssumption DEF TopUpRead, TopUpAllowed
<1>2. topup' = [watch |-> w, row |-> new, amount |-> amount] /\ UNCHANGED <<db, tick, seen>>
  BY DEF TopUpRead
<1>3. new.credit <= seen[w].paid + amount
  BY <1>1, ToppedUpCovered
<1> HIDE DEF new
<1>4. TopUpPaid'
  BY <1>2, <1>3 DEF TopUpPaid, TopUpRead
<1>5. NeverGrantsUnpaidCredit' /\ TicksPaid'
  BY <1>2 DEF PaidInv, NeverGrantsUnpaidCredit, Exists, TicksPaid
<1>6. QED
  BY <1>4, <1>5 DEF PaidInv

\* Its UPDATE keeps it, whatever was written in between.
LEMMA TopUpWritePaid ==
  ASSUME PaidInv, TypeInv', TopUpWrite
  PROVE  PaidInv'
<1> DEFINE w == topup.watch
           row == topup.row
           new == [db[w] EXCEPT !.credit = row.credit, !.topups = row.topups,
                                !.expires = row.expires, !.warned = row.warned, !.dead = FALSE]
<1>1. topup # NoTopUp /\ w \in Watches /\ row \in Row /\ topup.amount \in Nat
  BY PollerAssumption DEF PaidInv, TypeInv, TopUpType, TopUpWrite
<1>2. row.credit <= seen[w].paid + topup.amount
  BY <1>1 DEF PaidInv, TopUpPaid
<1>3. /\ db' = IF ~Exists(w) THEN db ELSE [db EXCEPT ![w] = new]
      /\ seen' = SeenToppedUp(w, topup.amount, row.credit)
      /\ topup' = NoTopUp /\ UNCHANGED tick
  BY DEF TopUpWrite
<1>4. OnlyPays /\ seen'[w].paid = seen[w].paid + topup.amount
  BY <1>1, <1>3, SeenToppedUpAdds DEF PaidInv
<1>5. TopUpPaid'
  BY <1>3 DEF TopUpPaid
<1>6. CASE ~Exists(w)
  <2>1. db' = [db EXCEPT ![w] = db[w]] /\ db[w] \in {Unborn, Purged}
    BY <1>1, <1>3, <1>6 DEF Exists, PaidInv, TypeInv, DbType
  <2>2. NeverGrantsUnpaidCredit'
    <3> SUFFICES ASSUME NEW v \in Watches, Exists(v) PROVE db[v].credit <= seen'[v].paid
      BY <1>3, <1>6 DEF NeverGrantsUnpaidCredit, Exists
    <3>1. db[v].credit \in Nat /\ seen[v].paid \in Nat /\ seen'[v].paid \in Nat
      BY RowIn, RowFields DEF PaidInv, TypeInv, SeenType
    <3>2. db[v].credit <= seen[v].paid /\ seen[v].paid <= seen'[v].paid
      BY <1>4 DEF PaidInv, NeverGrantsUnpaidCredit, OnlyPays
    <3>3. QED
      BY <3>1, <3>2
  <2>3. TicksPaid'
    <3> SUFFICES ASSUME NEW t \in Tickers PROVE TickPaid(seen', tick[t])
      BY <1>3 DEF TicksPaid
    <3>1. tick[t] \in Tick /\ Busy(tick[t]) /\ TickPaid(seen, tick[t])
      BY DEF PaidInv, TypeInv, TicksType, TicksPaid
    <3>2. QED
      BY <1>4, <3>1, TickPaidKept DEF PaidInv
  <2>4. QED
    BY <1>5, <2>2, <2>3 DEF PaidInv
<1>7. CASE Exists(w)
  <2>1. db[w] \in Row
    BY <1>1, <1>7, RowIn DEF PaidInv, TypeInv
  <2>2. new.credit = row.credit
    BY <2>1, Zenon DEF Row
  <2>3. db' = [db EXCEPT ![w] = new]
    BY <1>3, <1>7
  <2> HIDE DEF new, w, row
  <2>4. QED
    BY <1>1, <1>2, <1>3, <1>4, <1>5, <2>2, <2>3, PaymentKeeps
<1>8. QED
  BY <1>6, <1>7

-----------------------------------------------------------------------------
(* Local states of a tick that stay covered *)

\* Letting go of a row keeps the others covered.
LEMMA RowDonePaid ==
  ASSUME NEW d, NEW k \in Tick, TickPaid(d, k)
  PROVE  TickPaid(d, RowDone(k))
<1>1. RowDone(k).stage = "next" /\ RowDone(k).todo = k.todo
  BY Zenon DEF RowDone, Tick
<1>2. QED
  BY <1>1 DEF TickPaid

\* Going on to the scanner keeps the row in hand.
LEMMA ProceedPaid ==
  ASSUME NEW d, NEW k \in Tick, TickPaid(d, RowDone(k)), Covered(d, k.watch, k.row.credit)
  PROVE  TickPaid(d, Proceed(k))
<1>1. CASE k.row.credit = 0
  BY <1>1 DEF Proceed
<1>2. CASE k.row.credit # 0
  <2> DEFINE s == IF k.row.job # NoJob THEN "poll" ELSE "start"
             n == [k EXCEPT !.stage = s, !.heard = FALSE]
  <2>1. Proceed(k) = n
    BY <1>2, Zenon DEF Proceed
  <2> HIDE DEF s
  <2>2. n.todo = k.todo /\ n.watch = k.watch /\ n.row = k.row
    BY Zenon DEF Tick
  <2>3. RowDone(k).todo = k.todo
    BY Zenon DEF RowDone, Tick
  <2>4. QED
    BY <2>1, <2>2, <2>3 DEF TickPaid
<1>3. QED
  BY <1>1, <1>2

\* An idle tick holds no copies.
LEMMA IdleTickPaid == ASSUME NEW d PROVE TickPaid(d, IdleTick)
BY DEF TickPaid, IdleTick

\* The row in hand of a tick that awaits a call is covered.
LEMMA InHandPaid ==
  ASSUME PaidInv, NEW t \in Tickers, tick[t].stage \in Stages \ {"idle", "next"}
  PROVE  /\ tick[t] \in Tick /\ tick[t].watch \in Watches /\ tick[t].row \in Row
         /\ TickPaid(seen, tick[t]) /\ Covered(seen, tick[t].watch, tick[t].row.credit)
BY InHand DEF PaidInv, TicksPaid, TickPaid

-----------------------------------------------------------------------------
(* So do the steps of a tick *)

\* The rows a tick reads are covered by the rows it reads them from.
LEMMA TickBeginPaid ==
  ASSUME PaidInv, TypeInv', NEW t \in Tickers, TickBegin(t)
  PROVE  PaidInv'
<1> DEFINE rows == [w \in Watches |-> IF Active(w, clock) THEN db[w] ELSE NoRow]
           k == [IdleTick EXCEPT !.stage = "next", !.startMs = clock, !.todo = rows]
<1>1. ASSUME NEW w \in Watches, rows[w] # NoRow
      PROVE  Covered(seen, w, rows[w].credit)
  <2>1. rows[w] = db[w] /\ Exists(w)
    BY <1>1 DEF Active
  <2>2. QED
    BY <2>1 DEF PaidInv, NeverGrantsUnpaidCredit, Covered, Exists
<1>2. tick' = [tick EXCEPT ![t] = k]
  BY DEF TickBegin
<1> HIDE DEF rows
<1>3. k.stage = "next" /\ k.todo = rows
  BY IdleTickType, Zenon DEF Tick
<1>4. TickPaid(seen, k)
  BY <1>1, <1>3 DEF TickPaid
<1> HIDE DEF k
<1>5. \A u \in Tickers : TickPaid(seen, tick'[u])
  BY <1>2, <1>4, OneTickPaid
<1>6. PaysNothing /\ NeverGrantsUnpaidCredit'
  BY SeenUnmoved, TableUnmoved DEF TickBegin
<1>7. QED
  BY <1>5, <1>6, PaysNothingKeeps DEF TickBegin

\* The day charge is taken from a stale copy, but that copy was paid for.
LEMMA TakeRowPaid ==
  ASSUME PaidInv, TypeInv', NEW t \in Tickers, NEW w \in Watches, TakeRow(t, w)
  PROVE  PaidInv'
<1> DEFINE old == tick[t].todo[w]
           row == DayCharged(old, clock)
           todo == [tick[t].todo EXCEPT ![w] = NoRow]
           k == [tick[t] EXCEPT !.watch = w, !.row = row, !.todo = todo]
           kw == [k EXCEPT !.stage = "warn"]
           new == [db[w] EXCEPT !.credit = row.credit, !.billed = row.billed,
                                !.lastBilled = row.lastBilled, !.expires = row.expires]
<1>1. tick[t] \in Tick /\ TickPaid(seen, tick[t])
  BY DEF PaidInv, TypeInv, TicksType, TicksPaid
<1>2. old \in Row /\ clock \in Nat /\ old # NoRow
  BY <1>1, TickFields DEF PaidInv, TypeInv, CountType, TakeRow
<1>3. row \in Row /\ row.credit <= old.credit
  BY <1>2, DayChargedType, ChargesLower
<1>4. Covered(seen, w, row.credit)
  <2>1. Covered(seen, w, old.credit)
    BY <1>1, <1>2 DEF TickPaid
  <2>2. seen[w].paid \in Nat
    BY DEF PaidInv, TypeInv, SeenType
  <2>3. old.credit \in Nat /\ row.credit \in Nat
    BY <1>2, <1>3, RowFields
  <2> HIDE DEF old, row
  <2>4. QED
    BY <1>3, <2>1, <2>2, <2>3 DEF Covered
<1>5. todo \in [Watches -> Row \cup {NoRow}]
  BY <1>1, TickFields
<1>6. /\ db' = IF row = old THEN db ELSE Stored(w, new)
      /\ tick' = [tick EXCEPT ![t] = IF LowCreditDue(row) THEN kw ELSE Proceed(k)]
      /\ PaysNothing /\ UNCHANGED topup
  BY SeenUnmoved DEF TakeRow
<1>7. Exists(w) => new.credit = row.credit
  <2> SUFFICES ASSUME Exists(w) PROVE new.credit = row.credit
    OBVIOUS
  <2>1. db[w] \in Row
    BY RowIn DEF PaidInv, TypeInv
  <2> HIDE DEF row
  <2>2. QED
    BY <2>1, Zenon DEF Row
<1>8. \A v \in Watches : todo[v] # NoRow => Covered(seen, v, todo[v].credit)
  <2> SUFFICES ASSUME NEW v \in Watches, todo[v] # NoRow
               PROVE  Covered(seen, v, todo[v].credit)
    OBVIOUS
  <2>1. todo[v] = tick[t].todo[v]
    BY <1>1, TickFields
  <2>2. QED
    BY <1>1, <2>1 DEF TickPaid
<1> HIDE DEF old, row, todo, new
<1>9. NeverGrantsUnpaidCredit'
  <2>1. CASE row = old
    BY <1>6, <2>1, TableUnmoved
  <2>2. CASE row # old
    <3>1. Exists(w) => new.credit <= seen[w].paid
      BY <1>4, <1>7 DEF Covered
    <3>2. db' = Stored(w, new)
      BY <1>6, <2>2
    <3>3. QED
      BY <1>6, <3>1, <3>2, StoredPaid
  <2>3. QED
    BY <2>1, <2>2
<1>10. k \in Tick /\ k.watch = w /\ k.row = row /\ k.todo = todo
  BY <1>1, <1>3, <1>5, Zenon DEF Tick
<1> HIDE DEF k
<1>11. RowDone(k).stage = "next" /\ RowDone(k).todo = todo
  BY <1>10, Zenon DEF RowDone, Tick
<1>12. TickPaid(seen, Proceed(k))
  <2>1. TickPaid(seen, RowDone(k))
    BY <1>8, <1>11 DEF TickPaid
  <2>2. QED
    BY <1>4, <1>10, <2>1, ProceedPaid
<1>13. kw.watch = w /\ kw.row = row /\ kw.todo = todo
  BY <1>10, Zenon DEF Tick
<1>14. TickPaid(seen, kw)
  BY <1>4, <1>8, <1>13 DEF TickPaid
<1> HIDE DEF kw
<1>15. \A u \in Tickers : TickPaid(seen, tick'[u])
  <2>1. CASE LowCreditDue(row)
    BY <1>6, <1>14, <2>1, OneTickPaid
  <2>2. CASE ~LowCreditDue(row)
    BY <1>6, <1>12, <2>2, OneTickPaid
  <2>3. QED
    BY <2>1, <2>2
<1>16. QED
  BY <1>6, <1>9, <1>15, PaysNothingKeeps

\* A change of a local state that is neither of its stage's kind, its rows nor
\* their credit.
LEMMA SameRowsPaid ==
  ASSUME PaidInv, NEW t \in Tickers, NEW k, tick[t].stage \in Stages \ {"idle", "next"},
         k.todo = tick[t].todo, k.watch = tick[t].watch, k.row.credit = tick[t].row.credit
  PROVE  TickPaid(seen, k)
BY InHandPaid DEF TickPaid

\* An arrival touches no money.
LEMMA ArrivesPaid ==
  ASSUME PaidInv, TypeInv', NEW t \in Tickers, WarningArrives(t) \/ WebhookArrives(t)
  PROVE  PaidInv'
<1> DEFINE k == [tick[t] EXCEPT !.heard = TRUE]
<1>1. tick[t].stage \in Stages \ {"idle", "next"}
  BY DEF WarningArrives, WebhookArrives, Stages
<1>2. tick[t] \in Tick
  BY <1>1, InHandPaid
<1>3. k.todo = tick[t].todo /\ k.watch = tick[t].watch /\ k.row = tick[t].row
  BY <1>2, Zenon DEF Tick
<1>4. tick' = [tick EXCEPT ![t] = k] /\ UNCHANGED <<db, topup>>
  BY DEF WarningArrives, WebhookArrives
<1> DEFINE w == tick[t].watch
           d == Delta(tick[t].row.delivered, tick[t].snap)
           a == seen[w].sum + d
           m == Least(2, seen[w].warnings + 1)
           told == [seen[w] EXCEPT !.sum = a]
           warned == [seen[w] EXCEPT !.warnings = m]
<1>5. w \in Watches /\ told.paid = seen[w].paid /\ warned.paid = seen[w].paid
  <2>1. w \in Watches
    BY <1>1, InHandPaid
  <2> HIDE DEF w, d, a, m
  <2>2. QED
    BY <2>1 DEF PaidInv, TypeInv, SeenType
<1>6. PaysNothing
  <2>1. seen' = [seen EXCEPT ![w] = told] \/ seen' = [seen EXCEPT ![w] = warned]
    BY DEF WarningArrives, WebhookArrives
  <2> HIDE DEF w, told, warned
  <2>2. QED
    BY <1>5, <2>1, NothingPaid DEF PaidInv
<1> HIDE DEF k
<1>7. TickPaid(seen, k)
  BY <1>1, <1>3, SameRowsPaid
<1>8. \A u \in Tickers : TickPaid(seen, tick'[u])
  BY <1>4, <1>7, OneTickPaid
<1>9. NeverGrantsUnpaidCredit'
  BY <1>4, <1>6, TableUnmoved
<1>10. QED
  BY <1>4, <1>8, <1>9, <1>6, PaysNothingKeeps

\* A write that leaves the credit alone.
LEMMA OtherColumnsPaid ==
  ASSUME PaidInv, NEW w \in Watches, NEW new, db' = Stored(w, new), PaysNothing,
         Exists(w) => new.credit = db[w].credit
  PROVE  NeverGrantsUnpaidCredit'
<1>1. Exists(w) => db[w].credit <= seen[w].paid
  BY DEF PaidInv, NeverGrantsUnpaidCredit
<1>2. QED
  BY <1>1, StoredPaid

\* Nor does the acknowledgement of a warning.
LEMMA WarningAcknowledgedPaid ==
  ASSUME PaidInv, TypeInv', NEW t \in Tickers, WarningAcknowledged(t)
  PROVE  PaidInv'
<1> DEFINE w == tick[t].watch
           row == [tick[t].row EXCEPT !.warned = TRUE]
           k == [tick[t] EXCEPT !.row = row]
           new == [db[w] EXCEPT !.warned = TRUE]
<1>1. tick[t].stage \in Stages \ {"idle", "next"}
  BY DEF WarningAcknowledged, Stages
<1>2. /\ tick[t] \in Tick /\ w \in Watches /\ tick[t].row \in Row
      /\ TickPaid(seen, tick[t]) /\ Covered(seen, w, tick[t].row.credit)
  BY <1>1, InHandPaid
<1>3. row \in Row /\ row.credit = tick[t].row.credit
  BY <1>2, RowFlagged, Zenon DEF Row
<1>4. Exists(w) => new.credit = db[w].credit
  <2> SUFFICES ASSUME Exists(w) PROVE new.credit = db[w].credit
    OBVIOUS
  <2>1. db[w] \in Row
    BY <1>2, RowIn DEF PaidInv, TypeInv
  <2>2. QED
    BY <2>1, Zenon DEF Row
<1>5. /\ db' = Stored(w, new) /\ tick' = [tick EXCEPT ![t] = Proceed(k)]
      /\ PaysNothing /\ UNCHANGED topup
  BY <1>2, SeenUnmoved DEF WarningAcknowledged, Tick
<1> HIDE DEF row, new
<1>6. k \in Tick /\ k.watch = w /\ k.row = row /\ k.todo = tick[t].todo
  BY <1>2, <1>3, Zenon DEF Tick
<1> HIDE DEF k
<1>7. RowDone(k).stage = "next" /\ RowDone(k).todo = tick[t].todo
  BY <1>6, Zenon DEF RowDone, Tick
<1>8. TickPaid(seen, RowDone(k))
  BY <1>2, <1>7 DEF TickPaid
<1>9. TickPaid(seen, Proceed(k))
  BY <1>2, <1>3, <1>6, <1>8, ProceedPaid
<1>10. \A u \in Tickers : TickPaid(seen, tick'[u])
  BY <1>5, <1>9, OneTickPaid
<1>11. NeverGrantsUnpaidCredit'
  BY <1>2, <1>4, <1>5, OtherColumnsPaid
<1>12. QED
  BY <1>5, <1>10, <1>11, PaysNothingKeeps

\* Nor does the verdict on a snapshot.
LEMMA JudgePaid ==
  ASSUME PaidInv, TypeInv', NEW t \in Tickers, NEW snap \in Snapshot \cup {NoSnap},
         tick[t].stage \in Stages \ {"idle", "next"}, Judge(t, snap), UNCHANGED <<topup, seen>>
  PROVE  PaidInv'
<1> DEFINE w == tick[t].watch
           baseline == PickBetterKnown(tick[t].row.known, tick[t].row.delivered)
           new == [db[w] EXCEPT !.known = snap]
           k == [tick[t] EXCEPT !.stage = "post", !.nowMs = clock, !.snap = snap]
           news == IsNews(tick[t].row.delivered, snap)
<1>1. /\ tick[t] \in Tick /\ w \in Watches /\ tick[t].row \in Row /\ TickPaid(seen, tick[t])
      /\ PaysNothing
  BY InHandPaid, SeenUnmoved
<1>2. TickPaid(seen, RowDone(tick[t]))
  BY <1>1, RowDonePaid
<1>3. CASE IsPremature(baseline, snap)
  <2>1. UNCHANGED db /\ tick' = [tick EXCEPT ![t] = RowDone(tick[t])]
    BY <1>3 DEF Judge
  <2>2. \A u \in Tickers : TickPaid(seen, tick'[u])
    BY <1>2, <2>1, OneTickPaid
  <2>3. QED
    BY <1>1, <2>1, <2>2, TableUnmoved, PaysNothingKeeps
<1>4. CASE ~IsPremature(baseline, snap)
  <2>1. db' = Stored(w, new) /\ tick' = [tick EXCEPT ![t] = IF news THEN k ELSE RowDone(tick[t])]
    BY <1>4, Zenon DEF Judge
  <2>2. Exists(w) => new.credit = db[w].credit
    <3> SUFFICES ASSUME Exists(w) PROVE new.credit = db[w].credit
      OBVIOUS
    <3>1. db[w] \in Row
      BY <1>1, RowIn DEF PaidInv, TypeInv
    <3>2. QED
      BY <3>1, Zenon DEF Row
  <2>3. k.todo = tick[t].todo /\ k.watch = w /\ k.row = tick[t].row
    BY <1>1, Zenon DEF Tick
  <2> HIDE DEF new, k, news
  <2>4. TickPaid(seen, k)
    BY <2>3, SameRowsPaid
  <2>5. \A u \in Tickers : TickPaid(seen, tick'[u])
    <3>1. CASE news
      BY <2>1, <2>4, <3>1, OneTickPaid
    <3>2. CASE ~news
      BY <1>2, <2>1, <3>2, OneTickPaid
    <3>3. QED
      BY <3>1, <3>2
  <2>6. NeverGrantsUnpaidCredit'
    BY <1>1, <2>1, <2>2, OtherColumnsPaid
  <2>7. QED
    BY <1>1, <2>5, <2>6, PaysNothingKeeps
<1>5. QED
  BY <1>3, <1>4

\* A poll that ends in a verdict keeps the invariant.
LEMMA PollPaid ==
  ASSUME PaidInv, TypeInv', NEW t \in Tickers, PollFound(t) \/ FirstPollNotFound(t)
  PROVE  PaidInv'
<1>1. tick[t].stage \in Stages \ {"idle", "next"}
  BY DEF PollFound, FirstPollNotFound, Stages
<1>2. CASE PollFound(t)
  <2>1. tick[t].row.job \in JobIds
    BY <1>2 DEF PaidInv, TypeInv, TicksType, Busy, PollFound
  <2>2. jobs[tick[t].row.job] \in Snapshot
    BY <1>2, <2>1 DEF PaidInv, TypeInv, JobsType, PollFound
  <2>3. QED
    BY <1>1, <1>2, <2>2, JudgePaid DEF PollFound
<1>3. CASE FirstPollNotFound(t)
  BY <1>1, <1>3, JudgePaid DEF FirstPollNotFound
<1>4. QED
  BY <1>2, <1>3

\* A row that changes its job keeps its money.
LEMMA NewJobPaid ==
  ASSUME PaidInv, TypeInv', NEW t \in Tickers, NEW j \in JobIds \cup {NoJob}, NEW s,
         tick[t].stage \in Stages \ {"idle", "next"}, UNCHANGED <<topup, seen>>,
         db' = Stored(tick[t].watch, [db[tick[t].watch] EXCEPT !.job = j]),
         tick' = [tick EXCEPT ![t].stage = s, ![t].row.job = j]
  PROVE  PaidInv'
<1> DEFINE w == tick[t].watch
           row == [tick[t].row EXCEPT !.job = j]
           k == [tick[t] EXCEPT !.stage = s, !.row = row]
           new == [db[w] EXCEPT !.job = j]
<1>1. tick[t] \in Tick /\ w \in Watches /\ tick[t].row \in Row /\ PaysNothing
  BY InHandPaid, SeenUnmoved
<1>2. row.credit = tick[t].row.credit
  BY <1>1, Zenon DEF Row
<1>3. Exists(w) => new.credit = db[w].credit
  <2> SUFFICES ASSUME Exists(w) PROVE new.credit = db[w].credit
    OBVIOUS
  <2>1. db[w] \in Row
    BY <1>1, RowIn DEF PaidInv, TypeInv
  <2>2. QED
    BY <2>1, Zenon DEF Row
<1>4. tick' = [tick EXCEPT ![t] = k]
  BY <1>1, Zenon DEF PaidInv, TypeInv, TicksType, Tick
<1> HIDE DEF row
<1>5. k.todo = tick[t].todo /\ k.watch = w /\ k.row = row
  BY <1>1, Zenon DEF Tick
<1> HIDE DEF k
<1>6. TickPaid(seen, k)
  BY <1>2, <1>5, SameRowsPaid
<1>7. \A u \in Tickers : TickPaid(seen, tick'[u])
  BY <1>4, <1>6, OneTickPaid
<1>8. NeverGrantsUnpaidCredit'
  BY <1>1, <1>3, OtherColumnsPaid
<1>9. QED
  BY <1>1, <1>7, <1>8, PaysNothingKeeps

\* So a lost job and a started one keep the invariant.
LEMMA JobChangePaid ==
  ASSUME PaidInv, TypeInv', NEW t \in Tickers,
         PollNotFound(t) \/ \E j \in JobIds : StartReply(t, j)
  PROVE  PaidInv'
<1>1. tick[t].stage \in Stages \ {"idle", "next"}
  BY DEF PollNotFound, StartReply, Stages
<1>2. QED
  BY <1>1, NewJobPaid DEF PollNotFound, StartReply

\* The call charge writes the credit of a stale copy back, but that copy was paid for.
LEMMA WebhookAcknowledgedPaid ==
  ASSUME PaidInv, TypeInv', NEW t \in Tickers, WebhookAcknowledged(t)
  PROVE  PaidInv'
<1> DEFINE w == tick[t].watch
           old == tick[t].row
           row == CallCharged(tick[t].row, tick[t].nowMs)
           new == [db[w] EXCEPT !.delivered = tick[t].snap, !.attempts = 0,
                                !.deliveries = row.deliveries + 1, !.credit = row.credit,
                                !.billed = row.billed, !.expires = row.expires]
<1>1. tick[t].stage \in Stages \ {"idle", "next"}
  BY DEF WebhookAcknowledged, Stages
<1>2. /\ tick[t] \in Tick /\ w \in Watches /\ old \in Row
      /\ TickPaid(seen, tick[t]) /\ Covered(seen, w, old.credit)
  BY <1>1, InHandPaid
<1>3. tick[t].snap \in Snapshot \cup {NoSnap} /\ tick[t].nowMs \in Nat
  BY <1>2, TickFields
<1>4. row.credit \in Nat /\ row.credit <= old.credit
  BY <1>2, <1>3, CallChargedFields, ChargesLower
<1>5. /\ db' = Stored(w, new) /\ tick' = [tick EXCEPT ![t] = RowDone(tick[t])]
      /\ seen' = [seen EXCEPT ![w] = [seen[w] EXCEPT !.streak = 0]]
      /\ UNCHANGED topup
  BY Zenon DEF WebhookAcknowledged
<1> HIDE DEF row
<1>6. PaysNothing
  <2> DEFINE e == [seen[w] EXCEPT !.streak = 0]
  <2>1. e.paid = seen[w].paid
    BY <1>2 DEF PaidInv, TypeInv, SeenType
  <2> HIDE DEF w
  <2>2. QED
    BY <1>2, <1>5, <2>1, NothingPaid DEF PaidInv
<1>7. Exists(w) => new.credit <= seen[w].paid
  <2> SUFFICES ASSUME Exists(w) PROVE new.credit <= seen[w].paid
    OBVIOUS
  <2>1. db[w] \in Row
    BY <1>2, RowIn DEF PaidInv, TypeInv
  <2>2. new.credit = row.credit
    BY <2>1, Zenon DEF Row
  <2>3. old.credit \in Nat /\ seen[w].paid \in Nat
    BY <1>2, RowFields DEF PaidInv, TypeInv, SeenType
  <2>4. old.credit <= seen[w].paid
    BY <1>2 DEF Covered
  <2> HIDE DEF new, old
  <2>5. QED
    BY <1>4, <2>2, <2>3, <2>4
<1> HIDE DEF new
<1>8. TickPaid(seen, RowDone(tick[t]))
  BY <1>2, RowDonePaid
<1>9. \A u \in Tickers : TickPaid(seen, tick'[u])
  BY <1>5, <1>8, OneTickPaid
<1>10. NeverGrantsUnpaidCredit'
  BY <1>2, <1>5, <1>6, <1>7, StoredPaid
<1>11. QED
  BY <1>5, <1>6, <1>9, <1>10, PaysNothingKeeps

\* A purged row grants nothing.
LEMMA TickEndPaid ==
  ASSUME PaidInv, TypeInv', NEW t \in Tickers, TickEnd(t)
  PROVE  PaidInv'
<1>1. \A u \in Tickers : TickPaid(seen, tick'[u])
  BY IdleTickPaid, OneTickPaid DEF TickEnd
<1>2. PaysNothing
  BY SeenUnmoved DEF TickEnd
<1>3. NeverGrantsUnpaidCredit'
  BY DEF TickEnd, PaidInv, NeverGrantsUnpaidCredit, Exists
<1>4. QED
  BY <1>1, <1>2, <1>3, PaysNothingKeeps DEF TickEnd

-----------------------------------------------------------------------------
(* And faults and the environment *)

\* A failed call touches no money.
LEMMA TickFaultPaid ==
  ASSUME PaidInv, TypeInv', NEW t \in Tickers, TickFault(t)
  PROVE  PaidInv'
<1>1. tick[t].stage \in Stages \ {"idle", "next"}
  BY DEF TickFault, CallThrows, WarningFails, WebhookFails, Stages
<1>2. /\ tick[t] \in Tick /\ tick[t].watch \in Watches /\ tick[t].row \in Row
      /\ TickPaid(seen, tick[t]) /\ Covered(seen, tick[t].watch, tick[t].row.credit)
  BY <1>1, InHandPaid
<1>3. TickPaid(seen, RowDone(tick[t])) /\ TickPaid(seen, Proceed(tick[t]))
  BY <1>2, RowDonePaid, ProceedPaid
<1>4. CASE CallThrows(t)
  <2>1. \A u \in Tickers : TickPaid(seen, tick'[u])
    BY <1>3, <1>4, OneTickPaid DEF CallThrows
  <2>2. QED
    BY <1>4, <2>1, SeenUnmoved, TableUnmoved, PaysNothingKeeps DEF CallThrows
<1>5. CASE WarningFails(t)
  <2>1. \A u \in Tickers : TickPaid(seen, tick'[u])
    BY <1>3, <1>5, OneTickPaid DEF WarningFails
  <2>2. QED
    BY <1>5, <2>1, SeenUnmoved, TableUnmoved, PaysNothingKeeps DEF WarningFails
<1>6. CASE WebhookFails(t)
  <2> DEFINE w == tick[t].watch
             attempts == tick[t].row.attempts + 1
             dead == attempts >= MaxAttempts
             new == [db[w] EXCEPT !.attempts = attempts, !.dead = dead]
             n == seen[w].streak + 1
             e == [seen[w] EXCEPT !.streak = n]
  <2>1. /\ db' = Stored(w, new) /\ tick' = [tick EXCEPT ![t] = RowDone(tick[t])]
        /\ seen' = [seen EXCEPT ![w] = e] /\ UNCHANGED topup
    BY <1>6, Zenon DEF WebhookFails
  <2> HIDE DEF attempts, dead, n
  <2>2. PaysNothing
    <3>1. e.paid = seen[w].paid
      BY <1>2 DEF PaidInv, TypeInv, SeenType
    <3> HIDE DEF e
    <3>2. QED
      BY <1>2, <2>1, <3>1, NothingPaid DEF PaidInv
  <2>3. Exists(w) => new.credit = db[w].credit
    <3> SUFFICES ASSUME Exists(w) PROVE new.credit = db[w].credit
      OBVIOUS
    <3>1. db[w] \in Row
      BY <1>2, RowIn DEF PaidInv, TypeInv
    <3>2. QED
      BY <3>1, Zenon DEF Row
  <2> HIDE DEF new
  <2>4. \A u \in Tickers : TickPaid(seen, tick'[u])
    BY <1>3, <2>1, OneTickPaid
  <2>5. QED
    BY <1>2, <2>1, <2>2, <2>3, <2>4, OtherColumnsPaid, PaysNothingKeeps
<1>7. QED
  BY <1>4, <1>5, <1>6 DEF TickFault

\* A crash forgets the copies and touches no row.
LEMMA CrashPaid ==
  ASSUME PaidInv, TypeInv', Crash
  PROVE  PaidInv'
<1>1. \A u \in Tickers : TickPaid(seen, tick'[u])
  BY IdleTickPaid DEF Crash
<1>2. QED
  BY <1>1, SeenUnmoved, TableUnmoved, PaysNothingKeeps DEF Crash

\* Steps of the scanner, the chain and the clock keep the invariant.
LEMMA ElsewherePaid ==
  ASSUME PaidInv, TypeInv', UNCHANGED <<db, tick, topup, seen>>
  PROVE  PaidInv'
BY TicksUnmoved, SeenUnmoved, TableUnmoved, PaysNothingKeeps

-----------------------------------------------------------------------------
(* Credit is paid for *)

\* Nothing is owed in an empty database.
LEMMA PaidInit == Init => PaidInv
<1> SUFFICES ASSUME Init PROVE PaidInv
  OBVIOUS
<1>1. TicksPaid
  BY IdleTickPaid DEF Init, TicksPaid
<1>2. NeverGrantsUnpaidCredit /\ TopUpPaid
  BY DEF Init, NeverGrantsUnpaidCredit, Exists, TopUpPaid
<1>3. QED
  BY <1>1, <1>2, InitType DEF PaidInv

\* Every step of the specification preserves the invariant.
LEMMA PaidStep == PaidInv /\ [Next]_vars => PaidInv'
<1> SUFFICES ASSUME PaidInv, [Next]_vars PROVE PaidInv'
  OBVIOUS
<1>1. TypeInv'
  BY TypeStep DEF PaidInv
<1>2. CASE Rest
  BY <1>1, <1>2, CreateWatchPaid, CancelWatchPaid, TopUpPaidStep, TopUpReadPaid, TopUpWritePaid
     DEF Rest
<1>3. ASSUME NEW t \in Tickers, TickBegin(t) PROVE PaidInv'
  BY <1>1, <1>3, TickBeginPaid
<1>4. ASSUME NEW t \in Tickers, TickStep(t) PROVE PaidInv'
  <2>1. CASE \E w \in Watches : TakeRow(t, w)
    BY <1>1, <2>1, TakeRowPaid
  <2>2. CASE WarningArrives(t) \/ WebhookArrives(t)
    BY <1>1, <2>2, ArrivesPaid
  <2>3. CASE WarningAcknowledged(t)
    BY <1>1, <2>3, WarningAcknowledgedPaid
  <2>4. CASE PollFound(t) \/ FirstPollNotFound(t)
    BY <1>1, <2>4, PollPaid
  <2>5. CASE PollNotFound(t) \/ \E j \in JobIds : StartReply(t, j)
    BY <1>1, <2>5, JobChangePaid
  <2>6. CASE WebhookAcknowledged(t)
    BY <1>1, <2>6, WebhookAcknowledgedPaid
  <2>7. CASE TickEnd(t)
    BY <1>1, <2>7, TickEndPaid
  <2>8. QED
    BY <1>4, <2>1, <2>2, <2>3, <2>4, <2>5, <2>6, <2>7 DEF TickStep
<1>5. ASSUME NEW t \in Tickers, TickFault(t) PROVE PaidInv'
  BY <1>1, <1>5, TickFaultPaid
<1>6. CASE Crash
  BY <1>1, <1>6, CrashPaid
<1>7. CASE Upstream \/ Mine \/ Advance \/ UNCHANGED vars
  <2>1. UNCHANGED <<db, tick, topup, seen>>
    BY <1>7 DEF Upstream, JobScans, JobFails, JobLost, JobEvicted, Mine, Advance, vars
  <2>2. QED
    BY <1>1, <2>1, ElsewherePaid
<1>8. QED
  BY <1>2, <1>3, <1>4, <1>5, <1>6, <1>7 DEF Next

\* The credit of a row never exceeds what was really paid for its watch: ticks
\* that write back credits computed from stale copies, a crash between two
\* awaits, top-ups of the poller's process and, of any number in turn, those of
\* the one other process with statements in between, however they interleave,
\* grant no time and no calls nobody paid for.  (They may lose a payment.)
THEOREM CreditIsPaidFor == Spec => []NeverGrantsUnpaidCredit
<1>1. PaidInv => NeverGrantsUnpaidCredit
  BY DEF PaidInv
<1>2. QED
  BY <1>1, PaidInit, PaidStep, PTL DEF Spec

=============================================================================
