---------------------------- MODULE OneTickProofs ----------------------------
(***************************************************************************)
(* What holds of WatchPoller while no two ticks overlap: a tick's copies   *)
(* of the rows then stay in step with the table, whatever REST calls,      *)
(* faults and crashes come between its awaits, so that what it writes back *)
(* is computed from what is there.                                         *)
(***************************************************************************)
EXTENDS WatchPollerProofs

\* runPollerTick is not called again before it has returned.
OneTicker == \A s, t \in Tickers : s = t

\* No answer of a receiver is lost after it acted, and the process does not
\* stop in between either.
NoLostReplies == {"reply_lost", "crash"} \cap FaultKinds = {}

-----------------------------------------------------------------------------
(* Copies stay in step *)

Columns == {"credit", "topups", "billed", "lastBilled", "expires", "created", "warned",
            "job", "known", "delivered", "attempts", "deliveries", "dead", "cancelled"}

\* Two rows that differ in the columns `but' at most.
Alike(a, b, but) == \A c \in Columns \ but : a[c] = b[c]

\* The columns only ticks write.
TickColumns == {"billed", "lastBilled", "created", "attempts", "deliveries", "delivered", "job"}

\* A copy that is still as good as the row it was read from.  While top-ups
\* keep out of ticks, so are its credit and its latch.
Same(copy, row) ==
  /\ \A c \in TickColumns : copy[c] = row[c]
  /\ ~row.dead
  /\ TopUpWhen = "quiet" => copy.credit = row.credit /\ copy.warned = row.warned

CopyOf(d, w, copy) == d[w] \notin {Unborn, Purged} /\ Same(copy, d[w])

Working(k) == k.stage \in Stages \ {"idle", "next"}

TickInStep(d, k) ==
  /\ k.heard => k.stage \in {"warn", "post"}
  /\ \A w \in Watches : k.todo[w] # NoRow => k.stage # "idle" /\ CopyOf(d, w, k.todo[w])
  /\ Working(k) => CopyOf(d, k.watch, k.row) /\ k.todo[k.watch] = NoRow

InStep == \A t \in Tickers : TickInStep(db, tick[t])

StepInv == PaidInv /\ InStep

-----------------------------------------------------------------------------
(* What an update of a row changes *)

\* A judged snapshot, a started or forgotten job, an acknowledged warning, a
\* cancellation.
LEMMA OneColumn ==
  ASSUME NEW row \in Row, NEW x
  PROVE  /\ Alike([row EXCEPT !.known = x], row, {"known"})
         /\ Alike([row EXCEPT !.job = x], row, {"job"}) /\ [row EXCEPT !.job = x].job = x
         /\ Alike([row EXCEPT !.warned = x], row, {"warned"})
         /\ [row EXCEPT !.warned = x].warned = x
         /\ Alike([row EXCEPT !.cancelled = x], row, {"cancelled"})
BY Zenon DEF Row, Alike, Columns

\* The whole of a day charge: nothing, or the four columns.
LEMMA DayChargedColumns ==
  ASSUME NEW row \in Row, NEW now \in Nat
  PROVE  LET charge == DayChargeDue(row, now)
             new    == DayCharged(row, now)
         IN  /\ charge \in Nat /\ new \in Row
             /\ charge = 0 => new = row
             /\ charge # 0 =>
                  /\ Alike(new, row, {"credit", "billed", "lastBilled", "expires"})
                  /\ new.credit = AtLeastZero(row.credit - charge)
                  /\ new.billed = row.billed + charge /\ new.lastBilled = now
                  /\ new.expires = ExpiryAfterCharge(new.credit, now)
<1> DEFINE charge == DayChargeDue(row, now)
           c == AtLeastZero(row.credit - charge)
           b == row.billed + charge
           e == ExpiryAfterCharge(c, now)
           charged == [row EXCEPT !.credit = c, !.billed = b, !.lastBilled = now, !.expires = e]
<1>1. charge \in Nat /\ DayCharged(row, now) \in Row
  BY DayChargeFacts, RowFields, DayChargedType
<1>2. DayCharged(row, now) = IF charge = 0 THEN row ELSE charged
  BY Zenon DEF DayCharged
<1> HIDE DEF c, b, e
<1>3. /\ Alike(charged, row, {"credit", "billed", "lastBilled", "expires"})
      /\ charged.credit = c /\ charged.billed = b /\ charged.lastBilled = now
      /\ charged.expires = e
  BY Zenon DEF Row, Alike, Columns
<1> HIDE DEF charged
<1>4. ASSUME charge # 0
      PROVE  /\ Alike(DayCharged(row, now), row, {"credit", "billed", "lastBilled", "expires"})
             /\ DayCharged(row, now).credit = c /\ DayCharged(row, now).billed = b
             /\ DayCharged(row, now).lastBilled = now /\ DayCharged(row, now).expires = e
  BY <1>2, <1>3, <1>4, Zenon
<1>5. charge = 0 => DayCharged(row, now) = row
  BY <1>2, Zenon
<1>6. QED
  BY <1>1, <1>4, <1>5, Zenon DEF c, b, e

-----------------------------------------------------------------------------
(* What the steps of a tick do to its own state *)

\* A tick goes on with the rows it has still to take.
Turns(t) ==
  /\ tick' = [tick EXCEPT ![t] = tick'[t]]
  /\ tick'[t].todo = tick[t].todo /\ tick'[t].startMs = tick[t].startMs
  /\ tick'[t].stage # "idle"

\* It lets go of the row, or keeps it in hand and changes those columns.
Holds(t, but) ==
  Working(tick'[t]) => tick'[t].watch = tick[t].watch /\ Alike(tick'[t].row, tick[t].row, but)

\* One row of the table changes, in those columns.
Writes(w, but) ==
  /\ Exists(w) /\ db[w] \in Row
  /\ db' = [db EXCEPT ![w] = db'[w]] /\ db'[w] \in Row
  /\ Alike(db'[w], db[w], but)

\* What a tick in the middle of a row has.
LEMMA AtWork ==
  ASSUME StepInv, NEW t \in Tickers, Working(tick[t])
  PROVE  /\ tick[t] \in Tick /\ Busy(tick[t])
         /\ tick[t].watch \in Watches /\ tick[t].row \in Row
         /\ Exists(tick[t].watch) /\ db[tick[t].watch] \in Row
         /\ Same(tick[t].row, db[tick[t].watch]) /\ tick[t].todo[tick[t].watch] = NoRow
<1>1. TypeInv /\ TickInStep(db, tick[t])
  BY DEF StepInv, PaidInv, InStep
<1>2. /\ tick[t] \in Tick /\ Busy(tick[t])
      /\ tick[t].watch \in Watches /\ tick[t].row \in Row
  BY <1>1, InHand DEF Working
<1>3. /\ Exists(tick[t].watch) /\ Same(tick[t].row, db[tick[t].watch])
      /\ tick[t].todo[tick[t].watch] = NoRow
  BY <1>1 DEF TickInStep, CopyOf, Exists
<1>4. QED
  BY <1>1, <1>2, <1>3, RowIn DEF TypeInv

\* A write of the poller finds its row.
LEMMA StoredWrites ==
  ASSUME TypeInv, NEW w \in Watches, Exists(w), NEW new \in Row, NEW but,
         Alike(new, db[w], but), db' = Stored(w, new)
  PROVE  Writes(w, but) /\ db'[w] = new
<1>1. db \in [Watches -> Row \cup {Unborn, Purged}] /\ db[w] \in Row
  BY RowIn DEF TypeInv, DbType
<1>2. db' = [db EXCEPT ![w] = new]
  BY DEF Stored
<1>3. db'[w] = new
  BY <1>1, <1>2
<1>4. QED
  BY <1>1, <1>2, <1>3 DEF Writes

\* The turn of a row is over.
LEMMA RowDoneFields ==
  ASSUME NEW k \in Tick
  PROVE  /\ RowDone(k).stage = "next" /\ RowDone(k).todo = k.todo
         /\ RowDone(k).startMs = k.startMs /\ RowDone(k).heard = FALSE
         /\ RowDone(k).nowMs = 0
BY Zenon DEF RowDone, Tick

\* It is over, or the scanner comes next.
LEMMA ProceedFields ==
  ASSUME NEW k \in Tick
  PROVE  LET next == Proceed(k)
         IN  /\ next.stage \in {"next", "poll", "start"}
             /\ next.todo = k.todo /\ next.startMs = k.startMs /\ next.heard = FALSE
             /\ next.stage # "next" => next.watch = k.watch /\ next.row = k.row
<1> DEFINE s == IF k.row.job # NoJob THEN "poll" ELSE "start"
           on == [k EXCEPT !.stage = s, !.heard = FALSE]
<1>1. Proceed(k) = IF k.row.credit = 0 THEN RowDone(k) ELSE on
  BY Zenon DEF Proceed
<1>2. s \in {"poll", "start"}
  OBVIOUS
<1> HIDE DEF s
<1>3. /\ on.stage = s /\ on.todo = k.todo /\ on.startMs = k.startMs /\ on.heard = FALSE
      /\ on.watch = k.watch /\ on.row = k.row
  BY Zenon DEF Tick
<1> HIDE DEF on
<1>4. QED
  BY <1>1, <1>2, <1>3, RowDoneFields

\* One tick changes; nothing is said of the others.
LEMMA TickIs ==
  ASSUME TypeInv, NEW t \in Tickers, NEW k, tick' = [tick EXCEPT ![t] = k]
  PROVE  tick'[t] = k /\ tick' = [tick EXCEPT ![t] = tick'[t]]
BY DEF TypeInv, TicksType

-----------------------------------------------------------------------------
(* What each action does *)

\* CancelWatch sets a flag.
LEMMA CancelWatchDoes ==
  ASSUME StepInv, NEW w \in Watches, CancelWatch(w)
  PROVE  Writes(w, {"cancelled"})
<1>1. TypeInv /\ Exists(w) /\ db[w] \in Row
  BY RowIn DEF StepInv, PaidInv, TypeInv, CancelWatch
<1>2. [db[w] EXCEPT !.cancelled = TRUE] \in Row
  BY <1>1, RowFlagged
<1>3. Alike([db[w] EXCEPT !.cancelled = TRUE], db[w], {"cancelled"})
  BY <1>1, OneColumn
<1>4. db' = Stored(w, [db[w] EXCEPT !.cancelled = TRUE])
  BY <1>1 DEF CancelWatch, Stored
<1>5. QED
  BY <1>1, <1>2, <1>3, <1>4, StoredWrites

\* TopUp adds to the credit and to the total, moves the expiry, re-arms the
\* latch and revives.
LEMMA TopUpDoes ==
  ASSUME StepInv, NEW w \in Watches, NEW amount \in TopUpAmounts, TopUp(w, amount)
  PROVE  /\ Writes(w, {"credit", "topups", "expires", "warned", "dead"})
         /\ db'[w].credit = db[w].credit + amount
         /\ db'[w].topups = db[w].topups + amount
         /\ db'[w].expires = ExpiryAfterPayment(db'[w].credit, clock)
         /\ db'[w].warned = (db[w].warned /\ db'[w].credit <= LowThreshold)
         /\ ~db'[w].dead
<1> DEFINE c == db[w].credit + amount
           p == db[w].topups + amount
           e == ExpiryAfterPayment(c, clock)
           u == db[w].warned /\ c <= LowThreshold
           new == [db[w] EXCEPT !.credit = c, !.topups = p, !.expires = e, !.warned = u,
                                !.dead = FALSE]
<1>1. /\ TypeInv /\ Exists(w) /\ db[w] \in Row /\ amount \in Nat /\ clock \in Nat
  BY RowIn, PollerAssumption DEF StepInv, PaidInv, TypeInv, CountType, TopUp, TopUpAllowed
<1>2. ToppedUp(db[w], amount, clock) = new
  BY Zenon DEF ToppedUp
<1>3. new \in Row
  BY <1>1, <1>2, ToppedUpType
<1>4. db' = Stored(w, new)
  BY <1>1, <1>2 DEF TopUp, Stored
<1> HIDE DEF c, p, e, u
<1>5. /\ Alike(new, db[w], {"credit", "topups", "expires", "warned", "dead"})
      /\ new.credit = c /\ new.topups = p /\ new.expires = e /\ new.warned = u
      /\ new.dead = FALSE
  BY <1>1, Zenon DEF Row, Alike, Columns
<1> HIDE DEF new
<1>6. Writes(w, {"credit", "topups", "expires", "warned", "dead"}) /\ db'[w] = new
  BY <1>1, <1>3, <1>4, <1>5, StoredWrites
<1>7. QED
  BY <1>5, <1>6, Zenon DEF c, p, e, u

\* The UPDATE of a split top-up writes the same columns.
LEMMA TopUpWriteDoes ==
  ASSUME StepInv, TopUpWrite
  PROVE  /\ TopUpWhen = "split"
         /\ \/ UNCHANGED db
            \/ /\ topup.watch \in Watches
               /\ Writes(topup.watch, {"credit", "topups", "expires", "warned", "dead"})
               /\ ~db'[topup.watch].dead
<1> DEFINE w == topup.watch
           row == topup.row
           new == [db[w] EXCEPT !.credit = row.credit, !.topups = row.topups,
                                !.expires = row.expires, !.warned = row.warned, !.dead = FALSE]
<1>1. topup # NoTopUp /\ w \in Watches /\ row \in Row /\ TypeInv /\ TopUpWhen = "split"
  BY DEF StepInv, PaidInv, TypeInv, TopUpType, TopUpPaid, TopUpWrite
<1>2. db' = IF ~Exists(w) THEN db ELSE [db EXCEPT ![w] = new]
  BY DEF TopUpWrite
<1>3. CASE ~Exists(w)
  BY <1>1, <1>2, <1>3
<1>4. CASE Exists(w)
  <2>1. db[w] \in Row
    BY <1>1, <1>4, RowIn DEF TypeInv
  <2>2. new \in Row
    BY <1>1, <2>1, RowFields, RowPaid
  <2>3. Alike(new, db[w], {"credit", "topups", "expires", "warned", "dead"}) /\ ~new.dead
    BY <2>1, Zenon DEF Row, Alike, Columns
  <2>4. db' = Stored(w, new)
    BY <1>2, <1>4 DEF Stored
  <2> HIDE DEF new, w
  <2>5. Writes(w, {"credit", "topups", "expires", "warned", "dead"}) /\ db'[w] = new
    BY <1>1, <1>4, <2>2, <2>3, <2>4, StoredWrites
  <2>6. QED
    BY <1>1, <2>3, <2>5 DEF w
<1>5. QED
  BY <1>3, <1>4

\* TakeRow: the copy leaves the list, and a charge that is due is written to
\* it and to the table.
LEMMA TakeRowDoes ==
  ASSUME StepInv, NEW t \in Tickers, NEW w \in Watches, TakeRow(t, w)
  PROVE  LET old    == tick[t].todo[w]
             charge == DayChargeDue(db[w], clock)
             row    == DayCharged(old, clock)
         IN  /\ tick[t].stage = "next" /\ old \in Row /\ CopyOf(db, w, old)
             /\ db[w] \in Row /\ charge \in Nat
             /\ tick' = [tick EXCEPT ![t] = tick'[t]]
             /\ tick'[t].todo = [tick[t].todo EXCEPT ![w] = NoRow]
             /\ tick'[t].startMs = tick[t].startMs /\ tick'[t].heard = FALSE
             /\ tick'[t].stage \in {"next", "warn", "poll", "start"}
             /\ tick'[t].stage = "warn" => LowCreditDue(tick'[t].row)
             /\ Working(tick'[t]) => tick'[t].watch = w /\ tick'[t].row = row
             /\ row \in Row
             /\ charge = 0 => UNCHANGED db /\ row = old
             /\ charge # 0 =>
                  /\ Writes(w, {"credit", "billed", "lastBilled", "expires"})
                  /\ Alike(row, old, {"credit", "billed", "lastBilled", "expires"})
                  /\ row.credit = AtLeastZero(old.credit - charge)
                  /\ row.billed = old.billed + charge /\ row.lastBilled = clock
                  /\ row.expires = ExpiryAfterCharge(row.credit, clock)
                  /\ db'[w].credit = row.credit /\ db'[w].billed = row.billed
                  /\ db'[w].lastBilled = clock /\ db'[w].expires = row.expires
<1> DEFINE k == tick[t]
           old == k.todo[w]
           charge == DayChargeDue(db[w], clock)
           row == DayCharged(old, clock)
           todo == [k.todo EXCEPT ![w] = NoRow]
           held == [k EXCEPT !.watch = w, !.row = row, !.todo = todo]
           warned == [held EXCEPT !.stage = "warn"]
           asked == IF LowCreditDue(row) THEN warned ELSE Proceed(held)
           new == [db[w] EXCEPT !.credit = row.credit, !.billed = row.billed,
                                !.lastBilled = row.lastBilled, !.expires = row.expires]
<1>1. TypeInv /\ clock \in Nat /\ k \in Tick /\ TickInStep(db, k)
  BY DEF StepInv, PaidInv, TypeInv, CountType, TicksType, InStep
<1>2. k.stage = "next" /\ old # NoRow /\ old \in Row
  BY <1>1, TickFields DEF TakeRow
<1>3. CopyOf(db, w, old) /\ Exists(w) /\ k.heard = FALSE
  BY <1>1, <1>2, TickFields DEF TickInStep, CopyOf, Exists
<1>4. db[w] \in Row
  BY <1>1, <1>3, RowIn DEF TypeInv
<1>5. old.lastBilled = db[w].lastBilled /\ old.billed = db[w].billed
  BY <1>3 DEF CopyOf, Same, TickColumns
<1>6. DayChargeDue(old, clock) = charge
  BY <1>5 DEF DayChargeDue
<1>7. /\ charge \in Nat /\ row \in Row
      /\ charge = 0 => row = old
      /\ charge # 0 =>
           /\ Alike(row, old, {"credit", "billed", "lastBilled", "expires"})
           /\ row.credit = AtLeastZero(old.credit - charge)
           /\ row.billed = old.billed + charge /\ row.lastBilled = clock
           /\ row.expires = ExpiryAfterCharge(row.credit, clock)
  BY <1>1, <1>2, <1>6, DayChargedColumns
<1>8. tick' = [tick EXCEPT ![t] = asked] /\ db' = IF row = old THEN db ELSE Stored(w, new)
  BY DEF TakeRow
<1> HIDE DEF row, charge
<1>9. /\ held.stage = "next" /\ held.watch = w /\ held.row = row /\ held.todo = todo
      /\ held.startMs = k.startMs /\ held.heard = FALSE /\ held \in Tick
  <2>1. todo \in [Watches -> Row \cup {NoRow}] /\ w \in Watches \cup {NoRow} /\ row \in Row \cup {NoRow}
    BY <1>1, <1>7, TickFields
  <2> HIDE DEF todo
  <2>2. QED
    BY <1>1, <1>2, <1>3, <2>1, Zenon DEF Tick
<1> HIDE DEF held
<1>10. /\ asked.todo = todo /\ asked.startMs = k.startMs /\ asked.heard = FALSE
       /\ asked.stage \in {"next", "warn", "poll", "start"}
       /\ asked.stage # "next" => asked.watch = w /\ asked.row = row
       /\ asked.stage = "warn" => LowCreditDue(row)
  <2>1. /\ warned.todo = todo /\ warned.startMs = k.startMs /\ warned.heard = FALSE
        /\ warned.stage = "warn" /\ warned.watch = w /\ warned.row = row
    BY <1>9, Zenon DEF Tick
  <2> HIDE DEF warned
  <2>2. CASE LowCreditDue(row)
    <3>1. asked = warned
      BY <2>2
    <3>2. QED
      BY <2>1, <2>2, <3>1
  <2>3. CASE ~LowCreditDue(row)
    <3>1. asked = Proceed(held)
      BY <2>3
    <3>2. QED
      BY <1>9, <3>1, ProceedFields
  <2>4. QED
    BY <2>2, <2>3
<1> HIDE DEF asked
<1>11. tick'[t] = asked /\ tick' = [tick EXCEPT ![t] = tick'[t]]
  BY <1>1, <1>8, TickIs
<1>12. charge = 0 => UNCHANGED db
  BY <1>7, <1>8
<1>13. ASSUME charge # 0
       PROVE  /\ Writes(w, {"credit", "billed", "lastBilled", "expires"})
              /\ db'[w].credit = row.credit /\ db'[w].billed = row.billed
              /\ db'[w].lastBilled = row.lastBilled /\ db'[w].expires = row.expires
  <2>1. /\ row.credit \in Nat /\ row.billed \in Nat /\ row.lastBilled \in Nat
        /\ row.expires \in Nat /\ old.billed \in Nat
    BY <1>2, <1>7, RowFields
  <2>2. new \in Row
    BY <1>4, <2>1, RowCharged
  <2>3. /\ Alike(new, db[w], {"credit", "billed", "lastBilled", "expires"})
        /\ new.credit = row.credit /\ new.billed = row.billed
        /\ new.lastBilled = row.lastBilled /\ new.expires = row.expires
    BY <1>4, Zenon DEF Row, Alike, Columns
  <2>4. row.billed # old.billed
    BY <1>7, <1>13, <2>1
  <2>5. db' = Stored(w, new)
    BY <1>8, <2>4
  <2> HIDE DEF new
  <2>6. Writes(w, {"credit", "billed", "lastBilled", "expires"}) /\ db'[w] = new
    BY <1>1, <1>3, <2>2, <2>3, <2>5, StoredWrites
  <2>7. QED
    BY <2>3, <2>6
<1>14. Working(tick'[t]) => tick'[t].watch = w /\ tick'[t].row = row
  BY <1>10, <1>11 DEF Working
<1>15. tick'[t].stage = "warn" => LowCreditDue(tick'[t].row)
  BY <1>10, <1>11
<1>16. charge # 0 => db'[w].lastBilled = clock
  BY <1>7, <1>13
<1> HIDE DEF todo
<1>17. /\ tick'[t].todo = todo /\ tick'[t].startMs = k.startMs /\ tick'[t].heard = FALSE
       /\ tick'[t].stage \in {"next", "warn", "poll", "start"}
  BY <1>10, <1>11
<1>18. QED
  BY <1>2, <1>3, <1>4, <1>7, <1>11, <1>12, <1>13, <1>14, <1>15, <1>16, <1>17, Zenon
     DEF row, charge, todo

\* A tick that lets go of its row.
LEMMA Releases ==
  ASSUME StepInv, NEW t \in Tickers, tick' = [tick EXCEPT ![t] = RowDone(tick[t])]
  PROVE  Turns(t) /\ tick'[t].stage = "next" /\ ~tick'[t].heard /\ ~Working(tick'[t])
<1>1. TypeInv /\ tick[t] \in Tick
  BY DEF StepInv, PaidInv, TypeInv, TicksType
<1>2. tick'[t] = RowDone(tick[t]) /\ tick' = [tick EXCEPT ![t] = tick'[t]]
  BY <1>1, TickIs
<1>3. QED
  BY <1>1, <1>2, RowDoneFields DEF Turns, Working

\* WarningAcknowledged sets the latch, in the table and in the copy.
LEMMA WarningAcknowledgedDoes ==
  ASSUME StepInv, NEW t \in Tickers, WarningAcknowledged(t)
  PROVE  /\ Working(tick[t]) /\ tick[t].stage = "warn" /\ tick[t].heard
         /\ Turns(t) /\ Holds(t, {"warned"})
         /\ tick'[t].stage \in {"next", "poll", "start"} /\ ~tick'[t].heard
         /\ Working(tick'[t]) => tick'[t].row.warned = TRUE
         /\ Writes(tick[t].watch, {"warned"}) /\ db'[tick[t].watch].warned = TRUE
<1> DEFINE w == tick[t].watch
           row == [tick[t].row EXCEPT !.warned = TRUE]
           k == [tick[t] EXCEPT !.row = row]
           new == [db[w] EXCEPT !.warned = TRUE]
<1>1. Working(tick[t]) /\ tick[t].stage = "warn" /\ tick[t].heard
  BY DEF WarningAcknowledged, Working, Stages
<1>2. /\ TypeInv /\ tick[t] \in Tick /\ w \in Watches /\ tick[t].row \in Row
      /\ Exists(w) /\ db[w] \in Row
  BY <1>1, AtWork DEF StepInv, PaidInv
<1>3. /\ row \in Row /\ Alike(row, tick[t].row, {"warned"}) /\ row.warned = TRUE
      /\ new \in Row /\ Alike(new, db[w], {"warned"}) /\ new.warned = TRUE
  BY <1>2, RowFlagged, OneColumn
<1>4. db' = Stored(w, new) /\ tick' = [tick EXCEPT ![t] = Proceed(k)]
  BY <1>2 DEF WarningAcknowledged, Tick
<1> HIDE DEF row, new
<1>5. k \in Tick /\ k.watch = w /\ k.row = row /\ k.todo = tick[t].todo /\ k.startMs = tick[t].startMs
  BY <1>2, <1>3, Zenon DEF Tick
<1> HIDE DEF k
<1>6. Writes(w, {"warned"}) /\ db'[w] = new
  BY <1>2, <1>3, <1>4, StoredWrites
<1>7. tick'[t] = Proceed(k) /\ tick' = [tick EXCEPT ![t] = tick'[t]]
  BY <1>2, <1>4, TickIs
<1>8. QED
  BY <1>1, <1>3, <1>5, <1>6, <1>7, ProceedFields DEF Turns, Holds, Working

\* Judge stores the snapshot or drops it; with news, a delivery is next.
LEMMA JudgeDoes ==
  ASSUME StepInv, NEW t \in Tickers, Working(tick[t]), tick[t].stage \notin {"warn", "post"},
         NEW snap \in Snapshot \cup {NoSnap}, Judge(t, snap)
  PROVE  /\ Turns(t) /\ Holds(t, {})
         /\ tick'[t].stage \in {"next", "post"} /\ ~tick'[t].heard
         /\ tick'[t].stage = "post" =>
              /\ tick'[t].row = tick[t].row
              /\ snap # NoSnap /\ tick'[t].snap = snap /\ tick'[t].nowMs = clock
              /\ ~IsPremature(PickBetterKnown(tick[t].row.known, tick[t].row.delivered), snap)
         /\ UNCHANGED db \/ Writes(tick[t].watch, {"known"})
<1> DEFINE w == tick[t].watch
           baseline == PickBetterKnown(tick[t].row.known, tick[t].row.delivered)
           new == [db[w] EXCEPT !.known = snap]
           k == [tick[t] EXCEPT !.stage = "post", !.nowMs = clock, !.snap = snap]
           news == IsNews(tick[t].row.delivered, snap)
<1>1. /\ TypeInv /\ tick[t] \in Tick /\ w \in Watches /\ tick[t].row \in Row
      /\ Exists(w) /\ db[w] \in Row /\ ~tick[t].heard
  BY AtWork DEF StepInv, PaidInv, InStep, TickInStep
<1>2. CASE IsPremature(baseline, snap)
  <2>1. UNCHANGED db /\ tick' = [tick EXCEPT ![t] = RowDone(tick[t])]
    BY <1>2 DEF Judge
  <2>2. QED
    BY <2>1, Releases DEF Holds
<1>3. CASE ~IsPremature(baseline, snap)
  <2>1. db' = Stored(w, new) /\ tick' = [tick EXCEPT ![t] = IF news THEN k ELSE RowDone(tick[t])]
    BY <1>3, Zenon DEF Judge
  <2>2. new \in Row /\ Alike(new, db[w], {"known"})
    BY <1>1, RowKnown, OneColumn
  <2> HIDE DEF new
  <2>3. Writes(w, {"known"})
    BY <1>1, <2>1, <2>2, StoredWrites
  <2>4. CASE news
    <3>1. snap # NoSnap
      BY <2>4 DEF IsNews
    <3>2. /\ k.stage = "post" /\ k.nowMs = clock /\ k.snap = snap /\ k.todo = tick[t].todo
          /\ k.startMs = tick[t].startMs /\ k.watch = w /\ k.row = tick[t].row
          /\ k.heard = tick[t].heard
      BY <1>1, Zenon DEF Tick
    <3> HIDE DEF k
    <3>3. tick' = [tick EXCEPT ![t] = k]
      BY <2>1, <2>4
    <3>4. tick'[t] = k /\ tick' = [tick EXCEPT ![t] = tick'[t]]
      BY <1>1, <3>3, TickIs
    <3>5. Turns(t) /\ Holds(t, {})
      BY <3>2, <3>4 DEF Turns, Holds, Alike
    <3> HIDE DEF baseline
    <3>6. QED
      BY <1>1, <1>3, <2>3, <3>1, <3>2, <3>4, <3>5 DEF baseline
  <2>5. CASE ~news
    <3>1. tick' = [tick EXCEPT ![t] = RowDone(tick[t])]
      BY <2>1, <2>5
    <3>2. QED
      BY <2>3, <3>1, Releases DEF Holds
  <2>6. QED
    BY <2>4, <2>5
<1>4. QED
  BY <1>2, <1>3

\* A poll that is answered ends in a verdict on the job's snapshot, or on none.
LEMMA PollDoes ==
  ASSUME StepInv, NEW t \in Tickers, PollFound(t) \/ FirstPollNotFound(t)
  PROVE  /\ Working(tick[t]) /\ tick[t].stage \in {"poll", "first"}
         /\ tick[t].row.job \in JobIds
         /\ Judge(t, IF PollFound(t) THEN jobs[tick[t].row.job] ELSE NoSnap)
         /\ PollFound(t) => jobs[tick[t].row.job] \in Snapshot /\ jobs[tick[t].row.job] # Gone
<1>1. Working(tick[t]) /\ tick[t].stage \in {"poll", "first"}
  BY DEF PollFound, FirstPollNotFound, Working, Stages
<1>2. tick[t].row.job \in JobIds
  BY <1>1, AtWork DEF Busy
<1>3. QED
  BY <1>1, <1>2 DEF PollFound, FirstPollNotFound, StepInv, PaidInv, TypeInv, JobsType

\* A job is forgotten or started, in the table and in the copy.
LEMMA NewJobDoes ==
  ASSUME StepInv, NEW t \in Tickers, PollNotFound(t) \/ \E j \in JobIds : StartReply(t, j)
  PROVE  /\ Working(tick[t]) /\ tick[t].stage \notin {"warn", "post"}
         /\ Turns(t) /\ Holds(t, {"job"})
         /\ tick'[t].stage \in {"start", "first"} /\ ~tick'[t].heard
         /\ Writes(tick[t].watch, {"job"})
         /\ db'[tick[t].watch].job = tick'[t].row.job
         /\ \/ db'[tick[t].watch].job = NoJob /\ UNCHANGED jobs
            \/ \E j \in JobIds : /\ jobs[j] = Gone /\ jobs' = [jobs EXCEPT ![j] = FreshJob]
                                 /\ db'[tick[t].watch].job = j
<1>1. PICK j \in JobIds \cup {NoJob}, s \in {"start", "first"} :
        /\ db' = Stored(tick[t].watch, [db[tick[t].watch] EXCEPT !.job = j])
        /\ tick' = [tick EXCEPT ![t].stage = s, ![t].row.job = j]
        /\ \/ j = NoJob /\ UNCHANGED jobs
           \/ j \in JobIds /\ jobs[j] = Gone /\ jobs' = [jobs EXCEPT ![j] = FreshJob]
  BY DEF PollNotFound, StartReply
<1> DEFINE w == tick[t].watch
           row == [tick[t].row EXCEPT !.job = j]
           k == [tick[t] EXCEPT !.stage = s, !.row = row]
           new == [db[w] EXCEPT !.job = j]
<1>2. Working(tick[t]) /\ tick[t].stage \notin {"warn", "post"}
  BY DEF PollNotFound, StartReply, Working, Stages
<1>3. /\ TypeInv /\ tick[t] \in Tick /\ w \in Watches /\ tick[t].row \in Row
      /\ Exists(w) /\ db[w] \in Row /\ ~tick[t].heard
  BY <1>2, AtWork DEF StepInv, PaidInv, InStep, TickInStep
<1>4. /\ row \in Row /\ Alike(row, tick[t].row, {"job"}) /\ row.job = j
      /\ new \in Row /\ Alike(new, db[w], {"job"}) /\ new.job = j
  BY <1>3, RowJob, OneColumn
<1>5. tick' = [tick EXCEPT ![t] = k]
  BY <1>1, <1>3, Zenon DEF TypeInv, TicksType, Tick
<1>6. Writes(w, {"job"}) /\ db'[w] = new
  BY <1>1, <1>3, <1>4, StoredWrites
<1> HIDE DEF row, new
<1>7. /\ k.stage = s /\ k.watch = w /\ k.row = row /\ k.todo = tick[t].todo
      /\ k.startMs = tick[t].startMs /\ k.heard = tick[t].heard
  BY <1>3, Zenon DEF Tick
<1> HIDE DEF k
<1>8. tick'[t] = k /\ tick' = [tick EXCEPT ![t] = tick'[t]]
  BY <1>3, <1>5, TickIs
<1>9. Turns(t) /\ Holds(t, {"job"})
  BY <1>4, <1>7, <1>8 DEF Turns, Holds
<1>10. db'[w].job = j /\ tick'[t].row.job = j /\ tick'[t].stage = s /\ ~tick'[t].heard
  BY <1>3, <1>4, <1>6, <1>7, <1>8
<1>11. QED
  BY <1>1, <1>2, <1>6, <1>9, <1>10

\* WebhookAcknowledged bills the call and moves the delivered baseline.
LEMMA WebhookAcknowledgedDoes ==
  ASSUME StepInv, NEW t \in Tickers, WebhookAcknowledged(t)
  PROVE  LET w   == tick[t].watch
             row == tick[t].row
         IN  /\ Working(tick[t]) /\ tick[t].stage = "post" /\ tick[t].heard
             /\ Turns(t) /\ tick'[t].stage = "next" /\ ~tick'[t].heard
             /\ Writes(w, {"delivered", "attempts", "deliveries", "credit", "billed", "expires"})
             /\ db'[w].delivered = tick[t].snap /\ db'[w].attempts = 0
             /\ db'[w].deliveries = row.deliveries + 1
             /\ db'[w].credit = AtLeastZero(row.credit - CallRate)
             /\ db'[w].billed = row.billed + CallRate
             /\ db'[w].expires = ExpiryAfterCharge(db'[w].credit, tick[t].nowMs)
<1> DEFINE w == tick[t].watch
           row == tick[t].row
           c == AtLeastZero(row.credit - CallRate)
           b == row.billed + CallRate
           e == ExpiryAfterCharge(c, tick[t].nowMs)
           charged == CallCharged(row, tick[t].nowMs)
           n == charged.deliveries + 1
           new == [db[w] EXCEPT !.delivered = tick[t].snap, !.attempts = 0, !.deliveries = n,
                                !.credit = charged.credit, !.billed = charged.billed,
                                !.expires = charged.expires]
<1>1. Working(tick[t]) /\ tick[t].stage = "post" /\ tick[t].heard
  BY DEF WebhookAcknowledged, Working, Stages
<1>2. /\ TypeInv /\ tick[t] \in Tick /\ w \in Watches /\ row \in Row
      /\ Exists(w) /\ db[w] \in Row
  BY <1>1, AtWork DEF StepInv, PaidInv
<1>3. tick[t].snap \in Snapshot \cup {NoSnap} /\ tick[t].nowMs \in Nat /\ 0 \in Nat
  BY <1>2, TickFields
<1>4. charged.credit = c /\ charged.billed = b /\ charged.expires = e
      /\ charged.deliveries = row.deliveries
  <2> DEFINE called == [row EXCEPT !.credit = c, !.billed = b, !.expires = e]
  <2>1. charged = called
    BY Zenon DEF CallCharged
  <2> HIDE DEF charged, c, b, e
  <2>2. called.credit = c /\ called.billed = b /\ called.expires = e
        /\ called.deliveries = row.deliveries
    BY <1>2, Zenon DEF Row
  <2>3. QED
    BY <2>1, <2>2, Zenon
<1>5. charged.credit \in Nat /\ charged.billed \in Nat /\ charged.expires \in Nat /\ n \in Nat
  BY <1>2, <1>3, <1>4, CallChargedFields, RowFields
<1>6. db' = Stored(w, new) /\ tick' = [tick EXCEPT ![t] = RowDone(tick[t])]
  BY Zenon DEF WebhookAcknowledged
<1> HIDE DEF charged, n, c, b, e
<1>7. new \in Row
  BY <1>2, <1>3, <1>5, RowAcknowledged
<1>8. /\ Alike(new, db[w], {"delivered", "attempts", "deliveries", "credit", "billed", "expires"})
      /\ new.delivered = tick[t].snap /\ new.attempts = 0 /\ new.deliveries = n
      /\ new.credit = charged.credit /\ new.billed = charged.billed
      /\ new.expires = charged.expires
  BY <1>2, Zenon DEF Row, Alike, Columns
<1> HIDE DEF new
<1>9. /\ Writes(w, {"delivered", "attempts", "deliveries", "credit", "billed", "expires"})
      /\ db'[w] = new
  BY <1>2, <1>6, <1>7, <1>8, StoredWrites
<1>10. Turns(t) /\ tick'[t].stage = "next" /\ ~tick'[t].heard
  BY <1>6, Releases
<1>11. n = row.deliveries + 1
  BY <1>4 DEF n
<1>12. QED
  BY <1>1, <1>4, <1>8, <1>9, <1>10, <1>11, Zenon DEF c, b, e

\* WebhookFails counts a failure, and gives up on the watch after so many.
LEMMA WebhookFailsDoes ==
  ASSUME StepInv, NEW t \in Tickers, WebhookFails(t)
  PROVE  LET w == tick[t].watch
         IN  /\ Working(tick[t]) /\ tick[t].stage = "post"
             /\ Turns(t) /\ tick'[t].stage = "next" /\ ~tick'[t].heard
             /\ Writes(w, {"attempts", "dead"})
             /\ db'[w].attempts = tick[t].row.attempts + 1
             /\ db'[w].dead = (db'[w].attempts >= MaxAttempts)
<1> DEFINE w == tick[t].watch
           attempts == tick[t].row.attempts + 1
           dead == attempts >= MaxAttempts
           new == [db[w] EXCEPT !.attempts = attempts, !.dead = dead]
<1>1. Working(tick[t]) /\ tick[t].stage = "post"
  BY DEF WebhookFails, Working, Stages
<1>2. /\ TypeInv /\ tick[t] \in Tick /\ w \in Watches /\ tick[t].row \in Row
      /\ Exists(w) /\ db[w] \in Row
  BY <1>1, AtWork DEF StepInv, PaidInv
<1>3. attempts \in Nat /\ dead \in BOOLEAN
  BY <1>2, RowFields
<1>4. db' = Stored(w, new) /\ tick' = [tick EXCEPT ![t] = RowDone(tick[t])]
  BY Zenon DEF WebhookFails
<1> HIDE DEF attempts, dead
<1>5. new \in Row
  BY <1>2, <1>3, RowFailed
<1>6. Alike(new, db[w], {"attempts", "dead"}) /\ new.attempts = attempts /\ new.dead = dead
  BY <1>2, Zenon DEF Row, Alike, Columns
<1> HIDE DEF new
<1>7. Writes(w, {"attempts", "dead"}) /\ db'[w] = new
  BY <1>2, <1>4, <1>5, <1>6, StoredWrites
<1>8. Turns(t) /\ tick'[t].stage = "next" /\ ~tick'[t].heard
  BY <1>4, Releases
<1>9. QED
  BY <1>1, <1>6, <1>7, <1>8, Zenon DEF attempts, dead

\* The receiver hears of something: nothing else happens.
LEMMA ArrivesDoes ==
  ASSUME StepInv, NEW t \in Tickers, WarningArrives(t) \/ WebhookArrives(t)
  PROVE  /\ Working(tick[t]) /\ tick[t].stage \in {"warn", "post"} /\ ~tick[t].heard
         /\ Turns(t) /\ tick'[t].stage = tick[t].stage /\ tick'[t].watch = tick[t].watch
         /\ tick'[t].row = tick[t].row /\ tick'[t].snap = tick[t].snap
         /\ tick'[t].nowMs = tick[t].nowMs /\ tick'[t].heard = TRUE /\ UNCHANGED db
<1>1. /\ Working(tick[t]) /\ tick[t].stage \in {"warn", "post"} /\ ~tick[t].heard
      /\ tick' = [tick EXCEPT ![t].heard = TRUE] /\ UNCHANGED db
  BY DEF WarningArrives, WebhookArrives, Working, Stages
<1>2. TypeInv /\ tick[t] \in Tick
  BY <1>1, AtWork DEF StepInv, PaidInv
<1> DEFINE k == [tick[t] EXCEPT !.heard = TRUE]
<1>3. tick' = [tick EXCEPT ![t] = k]
  BY <1>1, Zenon
<1>4. /\ k.stage = tick[t].stage /\ k.watch = tick[t].watch /\ k.row = tick[t].row
      /\ k.snap = tick[t].snap /\ k.nowMs = tick[t].nowMs /\ k.heard = TRUE
      /\ k.todo = tick[t].todo /\ k.startMs = tick[t].startMs
  BY <1>2, Zenon DEF Tick
<1> HIDE DEF k
<1>5. tick'[t] = k /\ tick' = [tick EXCEPT ![t] = tick'[t]]
  BY <1>2, <1>3, TickIs
<1>6. QED
  BY <1>1, <1>4, <1>5 DEF Turns

\* A warning that fails is over: the row's turn goes on.
LEMMA WarningFailsDoes ==
  ASSUME StepInv, NEW t \in Tickers, WarningFails(t)
  PROVE  /\ Working(tick[t]) /\ tick[t].stage = "warn"
         /\ Turns(t) /\ Holds(t, {})
         /\ tick'[t].stage \in {"next", "poll", "start"} /\ ~tick'[t].heard /\ UNCHANGED db
<1>1. /\ Working(tick[t]) /\ tick[t].stage = "warn"
      /\ tick' = [tick EXCEPT ![t] = Proceed(tick[t])] /\ UNCHANGED db
  BY DEF WarningFails, Working, Stages
<1>2. TypeInv /\ tick[t] \in Tick
  BY <1>1, AtWork DEF StepInv, PaidInv
<1>3. tick'[t] = Proceed(tick[t]) /\ tick' = [tick EXCEPT ![t] = tick'[t]]
  BY <1>1, <1>2, TickIs
<1>4. QED
  BY <1>1, <1>2, <1>3, ProceedFields DEF Turns, Holds, Working, Alike

-----------------------------------------------------------------------------
(* The copies stay in step *)

\* A row is written: it differs from before, and is the only one that does.
LEMMA WrittenRow ==
  ASSUME TypeInv, NEW w \in Watches, NEW but, Writes(w, but)
  PROVE  /\ db'[w] \notin {Unborn, Purged}
         /\ \A v \in Watches : v # w => db'[v] = db[v]
BY AbsenceAssumption DEF TypeInv, DbType, Writes

\* A tick at work has written the row in hand, and keeps that in its copy.
LEMMA WorkInStep ==
  ASSUME OneTicker, StepInv, NEW t \in Tickers, Working(tick[t]), Turns(t),
         tick'[t].heard => tick'[t].stage \in {"warn", "post"},
         Working(tick'[t]) =>
           tick'[t].watch = tick[t].watch /\ Same(tick'[t].row, db'[tick[t].watch]),
         UNCHANGED db \/ \E but : Writes(tick[t].watch, but)
  PROVE  InStep'
<1> DEFINE w == tick[t].watch
<1>1. /\ TypeInv /\ w \in Watches /\ Exists(w) /\ tick[t].todo[w] = NoRow
      /\ TickInStep(db, tick[t])
  BY AtWork DEF StepInv, PaidInv, InStep
<1>2. db'[w] \notin {Unborn, Purged} /\ \A v \in Watches : v # w => db'[v] = db[v]
  BY <1>1, WrittenRow DEF Exists
<1>3. TickInStep(db', tick'[t])
  <2>1. ASSUME NEW v \in Watches, tick'[t].todo[v] # NoRow
        PROVE  tick'[t].stage # "idle" /\ CopyOf(db', v, tick'[t].todo[v])
    <3>1. tick[t].todo[v] # NoRow /\ tick'[t].todo[v] = tick[t].todo[v] /\ v # w
      BY <1>1, <2>1 DEF Turns
    <3>2. CopyOf(db, v, tick[t].todo[v]) /\ db'[v] = db[v]
      BY <1>1, <1>2, <3>1 DEF TickInStep
    <3>3. QED
      BY <3>1, <3>2 DEF CopyOf, Turns
  <2>2. ASSUME Working(tick'[t])
        PROVE  CopyOf(db', tick'[t].watch, tick'[t].row) /\ tick'[t].todo[tick'[t].watch] = NoRow
    BY <1>1, <1>2, <2>2 DEF CopyOf, Turns
  <2>3. QED
    BY <2>1, <2>2 DEF TickInStep
<1>4. QED
  BY <1>3 DEF InStep, OneTicker

\* A tick that lets go of its row has nothing left to be in step.
LEMMA ReleaseInStep ==
  ASSUME OneTicker, StepInv, NEW t \in Tickers, Working(tick[t]), Turns(t),
         tick'[t].stage = "next", ~tick'[t].heard,
         UNCHANGED db \/ \E but : Writes(tick[t].watch, but)
  PROVE  InStep'
<1>1. ~Working(tick'[t])
  BY DEF Working
<1>2. QED
  BY <1>1, WorkInStep

\* A row is written that ticks may hold copies of: the columns of ticks stay,
\* and so do, while top-ups are quiet, the credit and the latch.
LEMMA RestInStep ==
  ASSUME StepInv, UNCHANGED tick, NEW w \in Watches,
         \/ Writes(w, {"cancelled"})
         \/ /\ Writes(w, {"credit", "topups", "expires", "warned", "dead"})
            /\ ~db'[w].dead /\ TopUpWhen # "quiet"
  PROVE  InStep'
<1>1. /\ db'[w] \notin {Unborn, Purged} /\ \A v \in Watches : v # w => db'[v] = db[v]
      /\ TypeInv
  BY WrittenRow DEF StepInv, PaidInv
<1>2. ASSUME NEW v \in Watches, NEW copy, CopyOf(db, v, copy)
      PROVE  CopyOf(db', v, copy)
  <2>1. CASE v # w
    BY <1>1, <1>2, <2>1 DEF CopyOf
  <2>2. CASE v = w
    BY <1>1, <1>2, <2>2 DEF CopyOf, Same, Writes, Alike, Columns, TickColumns
  <2>3. QED
    BY <2>1, <2>2
<1>3. ASSUME NEW t \in Tickers
      PROVE  TickInStep(db', tick[t])
  <2>1. TickInStep(db, tick[t]) /\ (Working(tick[t]) => tick[t].watch \in Watches)
    BY AtWork DEF StepInv, InStep
  <2>2. QED
    BY <1>2, <2>1 DEF TickInStep
<1>4. QED
  BY <1>3 DEF InStep

\* Where no tick has a copy, none is out of step.
LEMMA NoCopiesInStep ==
  ASSUME \A t \in Tickers : tick'[t].stage = "idle" /\ ~tick'[t].heard
                            /\ \A w \in Watches : tick'[t].todo[w] = NoRow
  PROVE  InStep'
BY DEF InStep, TickInStep, Working

\* An idle tick has none.
LEMMA IdleHasNone ==
  IdleTick.stage = "idle" /\ ~IdleTick.heard /\ \A w \in Watches : IdleTick.todo[w] = NoRow
BY DEF IdleTick

\* CreateWatch makes a row nobody has a copy of.
LEMMA CreateWatchInStep ==
  ASSUME StepInv, NEW w \in Watches, CreateWatch(w)
  PROVE  InStep'
<1>1. /\ UNCHANGED tick /\ db[w] = Unborn
      /\ \A v \in Watches : v # w => db'[v] = db[v]
  BY DEF StepInv, PaidInv, TypeInv, DbType, CreateWatch
<1>2. ASSUME NEW v \in Watches, NEW copy, CopyOf(db, v, copy)
      PROVE  CopyOf(db', v, copy)
  BY <1>1, <1>2 DEF CopyOf
<1>3. ASSUME NEW t \in Tickers
      PROVE  TickInStep(db', tick[t])
  <2>1. TickInStep(db, tick[t]) /\ (Working(tick[t]) => tick[t].watch \in Watches)
    BY AtWork DEF StepInv, InStep
  <2>2. QED
    BY <1>2, <2>1 DEF TickInStep
<1>4. QED
  BY <1>1, <1>3 DEF InStep

\* A quiet top-up finds every tick idle.
LEMMA TopUpInStep ==
  ASSUME StepInv, NEW w \in Watches, NEW amount \in TopUpAmounts, TopUp(w, amount)
  PROVE  InStep'
<1>1. Writes(w, {"credit", "topups", "expires", "warned", "dead"}) /\ ~db'[w].dead
  BY TopUpDoes
<1>2. UNCHANGED tick
  BY DEF TopUp
<1>3. CASE TopUpWhen # "quiet"
  BY <1>1, <1>2, <1>3, RestInStep
<1>4. CASE TopUpWhen = "quiet"
  <2>1. \A t \in Tickers : tick[t].stage = "idle"
    BY <1>4 DEF TopUp
  <2>2. \A t \in Tickers : TickInStep(db, tick[t]) /\ tick[t].heard \in BOOLEAN
    BY TickFields DEF StepInv, PaidInv, TypeInv, TicksType, InStep
  <2>3. \A t \in Tickers : ~tick[t].heard /\ \A v \in Watches : tick[t].todo[v] = NoRow
    BY <2>1, <2>2 DEF TickInStep
  <2>4. QED
    BY <1>2, <2>1, <2>3, NoCopiesInStep
<1>5. QED
  BY <1>3, <1>4

\* The other REST calls keep the copies in step.
LEMMA OtherRestInStep ==
  ASSUME StepInv,
         \/ \E w \in Watches : CancelWatch(w)
         \/ \E w \in Watches, amount \in TopUpAmounts : TopUpRead(w, amount)
         \/ TopUpWrite
  PROVE  InStep'
<1>1. CASE \E w \in Watches : CancelWatch(w)
  BY <1>1, CancelWatchDoes, RestInStep DEF CancelWatch
<1>2. CASE \E w \in Watches, amount \in TopUpAmounts : TopUpRead(w, amount)
  BY <1>2 DEF TopUpRead, StepInv, InStep
<1>3. CASE TopUpWrite
  <2>1. UNCHANGED tick
    BY <1>3 DEF TopUpWrite
  <2>2. CASE UNCHANGED db
    BY <2>1, <2>2 DEF StepInv, InStep
  <2>3. CASE ~UNCHANGED db
    BY <1>3, <2>1, <2>3, TopUpWriteDoes, RestInStep
  <2>4. QED
    BY <2>2, <2>3
<1>4. QED
  BY <1>1, <1>2, <1>3

\* TickBegin copies rows that are there, and not dead.
LEMMA TickBeginInStep ==
  ASSUME OneTicker, StepInv, NEW t \in Tickers, TickBegin(t)
  PROVE  InStep'
<1> DEFINE rows == [w \in Watches |-> IF Active(w, clock) THEN db[w] ELSE NoRow]
           k == [IdleTick EXCEPT !.stage = "next", !.startMs = clock, !.todo = rows]
<1>1. TypeInv /\ tick' = [tick EXCEPT ![t] = k] /\ UNCHANGED db
  BY DEF StepInv, PaidInv, TickBegin
<1>2. tick'[t] = k
  BY <1>1, TickIs
<1>3. \A w \in Watches : rows[w] # NoRow => CopyOf(db, w, rows[w])
  BY DEF Active, Exists, CopyOf, Same
<1> HIDE DEF rows
<1>4. k.stage = "next" /\ k.todo = rows /\ k.heard = FALSE
  BY Zenon DEF IdleTick
<1> HIDE DEF k
<1>5. TickInStep(db', tick'[t])
  BY <1>1, <1>2, <1>3, <1>4 DEF TickInStep, Working
<1>6. QED
  BY <1>5 DEF InStep, OneTicker

\* TakeRow charges the copy and the row alike.
LEMMA TakeRowInStep ==
  ASSUME OneTicker, StepInv, NEW t \in Tickers, NEW w \in Watches, TakeRow(t, w)
  PROVE  InStep'
<1> DEFINE old == tick[t].todo[w]
           charge == DayChargeDue(db[w], clock)
           row == DayCharged(old, clock)
<1>1. /\ tick[t].stage = "next" /\ old \in Row /\ CopyOf(db, w, old) /\ charge \in Nat
      /\ tick'[t].todo = [tick[t].todo EXCEPT ![w] = NoRow] /\ tick'[t].heard = FALSE
      /\ tick'[t].stage \in {"next", "warn", "poll", "start"}
      /\ Working(tick'[t]) => tick'[t].watch = w /\ tick'[t].row = row
      /\ charge = 0 => UNCHANGED db /\ row = old
      /\ charge # 0 =>
           /\ Writes(w, {"credit", "billed", "lastBilled", "expires"})
           /\ Alike(row, old, {"credit", "billed", "lastBilled", "expires"})
           /\ row.billed = old.billed + charge /\ row.lastBilled = clock
           /\ db'[w].credit = row.credit /\ db'[w].billed = row.billed
           /\ db'[w].lastBilled = clock
  BY TakeRowDoes, Zenon
<1>2. TypeInv /\ TickInStep(db, tick[t]) /\ tick[t].todo \in [Watches -> Row \cup {NoRow}]
  BY TickFields DEF StepInv, PaidInv, InStep, TypeInv, TicksType
<1> HIDE DEF charge, row
<1>3. CopyOf(db', w, row)
  <2>1. CASE charge = 0
    BY <1>1, <2>1
  <2>2. CASE charge # 0
    <3>1. db'[w] \notin {Unborn, Purged}
      BY <1>1, <1>2, <2>2, WrittenRow
    <3>2. Same(row, db'[w])
      BY <1>1, <2>2 DEF CopyOf, Same, Writes, Alike, Columns, TickColumns
    <3>3. QED
      BY <3>1, <3>2 DEF CopyOf
  <2>3. QED
    BY <2>1, <2>2
<1>4. \A v \in Watches : v # w => db'[v] = db[v]
  BY <1>1, <1>2, WrittenRow
<1>5. ASSUME NEW v \in Watches, tick'[t].todo[v] # NoRow
      PROVE  CopyOf(db', v, tick'[t].todo[v])
  <2>1. v # w /\ tick'[t].todo[v] = tick[t].todo[v]
    BY <1>1, <1>2, <1>5
  <2>2. QED
    BY <1>2, <1>4, <1>5, <2>1 DEF TickInStep, CopyOf
<1>6. Working(tick'[t]) => CopyOf(db', tick'[t].watch, tick'[t].row)
                           /\ tick'[t].todo[tick'[t].watch] = NoRow
  BY <1>1, <1>2, <1>3
<1>7. TickInStep(db', tick'[t])
  BY <1>1, <1>5, <1>6 DEF TickInStep
<1>8. QED
  BY <1>7 DEF InStep, OneTicker

\* A latch set in both stays the same in both.
LEMMA SameLatch ==
  ASSUME NEW copy, NEW row, NEW latched, NEW stored, Same(copy, row),
         Alike(latched, copy, {"warned"}), Alike(stored, row, {"warned"}),
         latched.warned = stored.warned
  PROVE  Same(latched, stored)
<1>1. \A c \in TickColumns : latched[c] = stored[c]
  BY DEF Same, Alike, Columns, TickColumns
<1>2. ~stored.dead
  BY DEF Same, Alike, Columns
<1>3. TopUpWhen = "quiet" => latched.credit = stored.credit
  BY DEF Same, Alike, Columns
<1>4. QED
  BY <1>1, <1>2, <1>3 DEF Same

\* The steps of a tick at work keep it in step.
LEMMA TickWorkInStep ==
  ASSUME OneTicker, StepInv, NEW t \in Tickers,
         \/ WarningArrives(t) \/ WarningAcknowledged(t) \/ WarningFails(t)
         \/ PollFound(t) \/ FirstPollNotFound(t) \/ PollNotFound(t)
         \/ \E j \in JobIds : StartReply(t, j)
         \/ WebhookArrives(t) \/ WebhookAcknowledged(t) \/ WebhookFails(t) \/ CallThrows(t)
  PROVE  InStep'
<1> DEFINE w == tick[t].watch
<1>1. CASE WarningArrives(t) \/ WebhookArrives(t)
  <2>1. /\ Working(tick[t]) /\ Turns(t) /\ tick'[t].stage \in {"warn", "post"}
        /\ tick'[t].watch = w /\ tick'[t].row = tick[t].row /\ UNCHANGED db
    BY <1>1, ArrivesDoes
  <2>2. QED
    BY <2>1, AtWork, WorkInStep
<1>2. CASE WarningAcknowledged(t)
  <2>1. /\ Working(tick[t]) /\ Turns(t) /\ Holds(t, {"warned"}) /\ ~tick'[t].heard
        /\ Working(tick'[t]) => tick'[t].row.warned = TRUE
        /\ Writes(w, {"warned"}) /\ db'[w].warned = TRUE
    BY <1>2, WarningAcknowledgedDoes
  <2>2. Same(tick[t].row, db[w])
    BY <2>1, AtWork
  <2>3. Working(tick'[t]) => tick'[t].watch = w /\ Same(tick'[t].row, db'[w])
    BY <2>1, <2>2, SameLatch DEF Holds, Writes
  <2>4. QED
    BY <2>1, <2>3, WorkInStep
<1>3. CASE WarningFails(t)
  <2>1. /\ Working(tick[t]) /\ Turns(t) /\ Holds(t, {}) /\ ~tick'[t].heard /\ UNCHANGED db
    BY <1>3, WarningFailsDoes
  <2>2. Same(tick[t].row, db[w])
    BY <2>1, AtWork
  <2>3. Working(tick'[t]) => tick'[t].watch = w /\ Same(tick'[t].row, db'[w])
    BY <2>1, <2>2 DEF Same, Holds, Alike, Columns, TickColumns
  <2>4. QED
    BY <2>1, <2>3, WorkInStep
<1>4. CASE PollFound(t) \/ FirstPollNotFound(t)
  <2>1. Working(tick[t]) /\ tick[t].stage \in {"poll", "first"}
    BY <1>4, PollDoes
  <2>2. PICK snap \in Snapshot \cup {NoSnap} : Judge(t, snap)
    BY <1>4, PollDoes
  <2>3. /\ Turns(t) /\ Holds(t, {}) /\ ~tick'[t].heard
        /\ UNCHANGED db \/ Writes(w, {"known"})
    BY <2>1, <2>2, JudgeDoes
  <2>4. Same(tick[t].row, db[w])
    BY <2>1, AtWork
  <2>5. Working(tick'[t]) => tick'[t].watch = w /\ Same(tick'[t].row, db'[w])
    BY <2>3, <2>4 DEF Same, Holds, Writes, Alike, Columns, TickColumns
  <2>6. QED
    BY <2>1, <2>3, <2>5, WorkInStep
<1>5. CASE PollNotFound(t) \/ \E j \in JobIds : StartReply(t, j)
  <2>1. /\ Working(tick[t]) /\ Turns(t) /\ Holds(t, {"job"}) /\ ~tick'[t].heard
        /\ Writes(w, {"job"}) /\ db'[w].job = tick'[t].row.job
    BY <1>5, NewJobDoes
  <2>2. Same(tick[t].row, db[w])
    BY <2>1, AtWork
  <2>3. Working(tick'[t]) => tick'[t].watch = w /\ Same(tick'[t].row, db'[w])
    BY <2>1, <2>2 DEF Same, Holds, Writes, Alike, Columns, TickColumns
  <2>4. QED
    BY <2>1, <2>3, WorkInStep
<1>6. CASE WebhookAcknowledged(t)
  BY <1>6, WebhookAcknowledgedDoes, ReleaseInStep, Zenon
<1>7. CASE WebhookFails(t)
  BY <1>7, WebhookFailsDoes, ReleaseInStep, Zenon
<1>8. CASE CallThrows(t)
  <2>1. Working(tick[t]) /\ tick' = [tick EXCEPT ![t] = RowDone(tick[t])] /\ UNCHANGED db
    BY <1>8 DEF CallThrows, Working, Stages
  <2>2. QED
    BY <2>1, Releases, ReleaseInStep
<1>9. QED
  BY <1>1, <1>2, <1>3, <1>4, <1>5, <1>6, <1>7, <1>8

\* The end of a tick and a crash leave no copies.
LEMMA ForgetsInStep ==
  ASSUME OneTicker, StepInv, Crash \/ \E t \in Tickers : TickEnd(t)
  PROVE  InStep'
<1>1. \A t \in Tickers : tick'[t] = IdleTick
  BY DEF OneTicker, StepInv, PaidInv, TypeInv, TicksType, TickEnd, Crash
<1>2. QED
  BY <1>1, IdleHasNone, NoCopiesInStep

\* Every step keeps the copies in step.
LEMMA InStepKept ==
  ASSUME OneTicker, StepInv, [Next]_vars
  PROVE  StepInv'
<1>1. PaidInv'
  BY PaidStep DEF StepInv
<1> SUFFICES InStep'
  BY <1>1 DEF StepInv
<1>2. CASE Rest
  BY <1>2, CreateWatchInStep, TopUpInStep, OtherRestInStep DEF Rest
<1>3. ASSUME NEW t \in Tickers, TickBegin(t) \/ TickStep(t) \/ TickFault(t)
      PROVE  InStep'
  BY <1>3, TickBeginInStep, TakeRowInStep, TickWorkInStep, ForgetsInStep
     DEF TickStep, TickFault
<1>4. CASE Crash
  BY <1>4, ForgetsInStep
<1>5. CASE Upstream \/ Mine \/ Advance \/ UNCHANGED vars
  <2>1. UNCHANGED <<db, tick>>
    BY <1>5 DEF Upstream, JobScans, JobFails, JobLost, JobEvicted, Mine, Advance, vars
  <2>2. QED
    BY <2>1 DEF StepInv, InStep
<1>6. QED
  BY <1>2, <1>3, <1>4, <1>5 DEF Next

\* They start in step.
LEMMA InStepInit == Init => StepInv
<1> SUFFICES ASSUME Init PROVE StepInv
  OBVIOUS
<1>1. InStep
  BY IdleHasNone DEF Init, InStep, TickInStep, Working
<1>2. QED
  BY <1>1, PaidInit DEF StepInv

\* A tick's copies are as good as the rows: without a second tick nothing that
\* the poller writes back is computed from what another write has overtaken,
\* but for the money of top-ups that come in between.
THEOREM CopiesStayInStep ==
  ASSUME OneTicker
  PROVE  Spec => []StepInv
<1>1. StepInv /\ [Next]_vars => StepInv'
  BY InStepKept
<1>2. QED
  BY <1>1, InStepInit, PTL DEF Spec

-----------------------------------------------------------------------------
(* What a step does to the table, as the payer sees it *)

Opens(w) == db[w] = Unborn /\ db' = [db EXCEPT ![w] = NewRow(clock)]

Pays(w) ==
  /\ Writes(w, {"credit", "topups", "expires", "warned", "dead"})
  /\ \E amount \in Nat \ {0} :
       db'[w].credit = db[w].credit + amount /\ db'[w].topups = db[w].topups + amount
  /\ db'[w].expires = ExpiryAfterPayment(db'[w].credit, clock)

\* A top-up whose SELECT may be overtaken by charges.
PaysSplit(w) ==
  TopUpWhen = "split" /\ Writes(w, {"credit", "topups", "expires", "warned", "dead"})

ChargesDay(w) ==
  LET charge == DayChargeDue(db[w], clock)
  IN  /\ Writes(w, {"credit", "billed", "lastBilled", "expires"})
      /\ charge \in Nat \ {0}
      /\ TopUpWhen = "quiet" => db'[w].credit = AtLeastZero(db[w].credit - charge)
      /\ db'[w].billed = db[w].billed + charge /\ db'[w].lastBilled = clock
      /\ db'[w].expires = ExpiryAfterCharge(db'[w].credit, clock)

ChargesCall(w) ==
  /\ Writes(w, {"delivered", "attempts", "deliveries", "credit", "billed", "expires"})
  /\ TopUpWhen = "quiet" => db'[w].credit = AtLeastZero(db[w].credit - CallRate)
  /\ db'[w].billed = db[w].billed + CallRate
  /\ db'[w].deliveries = db[w].deliveries + 1
  /\ \E t \in Tickers :
       /\ tick[t].stage = "post" /\ tick[t].watch = w
       /\ db'[w].expires = ExpiryAfterCharge(db'[w].credit, tick[t].nowMs)

\* No money moves.
Notes(w) == Writes(w, {"cancelled", "warned", "known", "job", "attempts", "dead"})

Purges ==
  \E t \in Tickers :
    db' = [w \in Watches |->
             IF Exists(w) /\ db[w].expires <= tick[t].startMs THEN Purged ELSE db[w]]

\* A write of few columns is a write of more.
LEMMA WritesMore ==
  ASSUME NEW w, NEW few, NEW more, Writes(w, few), few \subseteq more
  PROVE  Writes(w, more)
BY DEF Writes, Alike

\* TakeRow charges for the days or leaves the table alone.
LEMMA TakeRowTable ==
  ASSUME StepInv, NEW t \in Tickers, NEW w \in Watches, TakeRow(t, w)
  PROVE  ChargesDay(w) \/ UNCHANGED db
<1> DEFINE old == tick[t].todo[w]
           charge == DayChargeDue(db[w], clock)
           row == DayCharged(old, clock)
<1>1. /\ CopyOf(db, w, old) /\ charge \in Nat
      /\ charge = 0 => UNCHANGED db
      /\ charge # 0 =>
           /\ Writes(w, {"credit", "billed", "lastBilled", "expires"})
           /\ row.credit = AtLeastZero(old.credit - charge)
           /\ row.billed = old.billed + charge
           /\ row.expires = ExpiryAfterCharge(row.credit, clock)
           /\ db'[w].credit = row.credit /\ db'[w].billed = row.billed
           /\ db'[w].lastBilled = clock /\ db'[w].expires = row.expires
  BY TakeRowDoes, Zenon
<1>2. old.billed = db[w].billed /\ (TopUpWhen = "quiet" => old.credit = db[w].credit)
  BY <1>1 DEF CopyOf, Same, TickColumns
<1> HIDE DEF charge, row, old
<1>3. CASE charge = 0
  BY <1>1, <1>3
<1>4. CASE charge # 0
  <2>1. charge \in Nat \ {0}
    BY <1>1, <1>4
  <2>2. TopUpWhen = "quiet" => db'[w].credit = AtLeastZero(db[w].credit - charge)
    BY <1>1, <1>2, <1>4
  <2>3. db'[w].billed = db[w].billed + charge
    BY <1>1, <1>2, <1>4
  <2>4. db'[w].expires = ExpiryAfterCharge(db'[w].credit, clock)
    BY <1>1, <1>4
  <2>5. QED
    BY <1>1, <1>4, <2>1, <2>2, <2>3, <2>4, Zenon DEF ChargesDay, charge
<1>5. QED
  BY <1>3, <1>4

\* WebhookAcknowledged charges for the call.
LEMMA WebhookAcknowledgedTable ==
  ASSUME StepInv, NEW t \in Tickers, WebhookAcknowledged(t)
  PROVE  ChargesCall(tick[t].watch)
<1> DEFINE w == tick[t].watch
           row == tick[t].row
<1>1. /\ Working(tick[t]) /\ tick[t].stage = "post"
      /\ Writes(w, {"delivered", "attempts", "deliveries", "credit", "billed", "expires"})
      /\ db'[w].deliveries = row.deliveries + 1
      /\ db'[w].credit = AtLeastZero(row.credit - CallRate)
      /\ db'[w].billed = row.billed + CallRate
      /\ db'[w].expires = ExpiryAfterCharge(db'[w].credit, tick[t].nowMs)
  BY WebhookAcknowledgedDoes, Zenon
<1>2. Same(row, db[w])
  BY <1>1, AtWork
<1>3. /\ row.billed = db[w].billed /\ row.deliveries = db[w].deliveries
      /\ TopUpWhen = "quiet" => row.credit = db[w].credit
  BY <1>2 DEF Same, TickColumns
<1>4. QED
  BY <1>1, <1>3 DEF ChargesCall

\* Every step opens a watch, pays or charges for one, purges some, or moves no
\* money.
LEMMA TableSteps ==
  ASSUME StepInv, [Next]_vars
  PROVE  \/ \E w \in Watches : \/ Opens(w) \/ Pays(w) \/ PaysSplit(w)
                               \/ ChargesDay(w) \/ ChargesCall(w) \/ Notes(w)
         \/ Purges
         \/ UNCHANGED db
<1> DEFINE Goal == \/ \E w \in Watches : \/ Opens(w) \/ Pays(w) \/ PaysSplit(w)
                                         \/ ChargesDay(w) \/ ChargesCall(w) \/ Notes(w)
                   \/ Purges
                   \/ UNCHANGED db
<1> SUFFICES Goal
  OBVIOUS
<1>1. \A t \in Tickers : Working(tick[t]) => tick[t].watch \in Watches
  BY AtWork
<1>2. ASSUME NEW w \in Watches, Writes(w, {"cancelled"}) \/ Writes(w, {"warned"})
                                \/ Writes(w, {"known"}) \/ Writes(w, {"job"})
                                \/ Writes(w, {"attempts", "dead"})
      PROVE  Goal
  <2>1. Notes(w)
    BY <1>2, WritesMore DEF Notes
  <2>2. QED
    BY <2>1
<1>3. ASSUME NEW w \in Watches, CreateWatch(w) \/ CancelWatch(w) PROVE Goal
  <2>1. CASE CreateWatch(w)
    BY <2>1 DEF CreateWatch, Opens
  <2>2. CASE CancelWatch(w)
    BY <1>2, <2>2, CancelWatchDoes
  <2>3. QED
    BY <1>3, <2>1, <2>2
<1>4. ASSUME NEW w \in Watches, NEW amount \in TopUpAmounts,
             TopUp(w, amount) \/ TopUpRead(w, amount)
      PROVE  Goal
  <2>1. CASE TopUp(w, amount)
    <3>1. amount \in Nat \ {0}
      BY PollerAssumption
    <3>2. Pays(w)
      BY <2>1, <3>1, TopUpDoes DEF Pays
    <3>3. QED
      BY <3>2
  <2>2. CASE TopUpRead(w, amount)
    BY <2>2 DEF TopUpRead
  <2>3. QED
    BY <1>4, <2>1, <2>2
<1>5. CASE TopUpWrite
  BY <1>5, TopUpWriteDoes DEF PaysSplit
<1>6. ASSUME NEW t \in Tickers, TickBegin(t) \/ TickStep(t) \/ TickFault(t)
      PROVE  Goal
  <2>1. ASSUME NEW w \in Watches, TakeRow(t, w) PROVE Goal
    BY <2>1, TakeRowTable
  <2>2. CASE WarningAcknowledged(t)
    <3>1. Working(tick[t]) /\ Writes(tick[t].watch, {"warned"})
      BY <2>2, WarningAcknowledgedDoes
    <3>2. QED
      BY <1>1, <1>2, <3>1
  <2>3. CASE PollFound(t) \/ FirstPollNotFound(t)
    <3>1. Working(tick[t]) /\ tick[t].stage \in {"poll", "first"}
      BY <2>3, PollDoes
    <3>2. PICK snap \in Snapshot \cup {NoSnap} : Judge(t, snap)
      BY <2>3, PollDoes
    <3>3. UNCHANGED db \/ Writes(tick[t].watch, {"known"})
      BY <3>1, <3>2, JudgeDoes
    <3>4. QED
      BY <1>1, <1>2, <3>1, <3>3
  <2>4. CASE PollNotFound(t) \/ \E j \in JobIds : StartReply(t, j)
    <3>1. Working(tick[t]) /\ Writes(tick[t].watch, {"job"})
      BY <2>4, NewJobDoes
    <3>2. QED
      BY <1>1, <1>2, <3>1
  <2>5. CASE WebhookAcknowledged(t)
    <3>1. ChargesCall(tick[t].watch) /\ Working(tick[t])
      BY <2>5, WebhookAcknowledgedTable, WebhookAcknowledgedDoes, Zenon
    <3>2. QED
      BY <1>1, <3>1
  <2>6. CASE WebhookFails(t)
    <3>1. Working(tick[t]) /\ Writes(tick[t].watch, {"attempts", "dead"})
      BY <2>6, WebhookFailsDoes, Zenon
    <3>2. QED
      BY <1>1, <1>2, <3>1
  <2>7. CASE TickEnd(t)
    BY <2>7 DEF TickEnd, Purges
  <2>8. CASE \/ TickBegin(t) \/ WarningArrives(t) \/ WebhookArrives(t) \/ CallThrows(t)
             \/ WarningFails(t)
    BY <2>8 DEF TickBegin, WarningArrives, WebhookArrives, CallThrows, WarningFails
  <2>9. QED
    BY <1>6, <2>1, <2>2, <2>3, <2>4, <2>5, <2>6, <2>7, <2>8 DEF TickStep, TickFault
<1>7. CASE Crash \/ Upstream \/ Mine \/ Advance \/ UNCHANGED vars
  BY <1>7 DEF Crash, Upstream, JobScans, JobFails, JobLost, JobEvicted, Mine, Advance, vars
<1> HIDE DEF Goal
<1>8. QED
  BY <1>3, <1>4, <1>5, <1>6, <1>7 DEF Next, Rest

\* So a row that is there after a step was there and unchanged, or was changed
\* in one of these ways.
LEMMA RowSteps ==
  ASSUME StepInv, [Next]_vars, NEW w \in Watches, Exists(w)'
  PROVE  \/ Exists(w) /\ db'[w] = db[w]
         \/ db'[w] = NewRow(clock)
         \/ Pays(w) \/ PaysSplit(w) \/ ChargesDay(w) \/ ChargesCall(w) \/ Notes(w)
<1>1. TypeInv /\ db \in [Watches -> Row \cup {Unborn, Purged}]
  BY DEF StepInv, PaidInv, TypeInv, DbType
<1>2. ASSUME NEW v \in Watches, v # w, NEW but, Writes(v, but)
      PROVE  Exists(w) /\ db'[w] = db[w]
  BY <1>1, <1>2, WrittenRow DEF Exists
<1>3. ASSUME NEW v \in Watches, \/ Pays(v) \/ PaysSplit(v) \/ ChargesDay(v)
                                \/ ChargesCall(v) \/ Notes(v)
      PROVE  \/ Exists(w) /\ db'[w] = db[w]
             \/ Pays(w) \/ PaysSplit(w) \/ ChargesDay(w) \/ ChargesCall(w) \/ Notes(w)
  <2>1. \E but : Writes(v, but)
    BY <1>3 DEF Pays, PaysSplit, ChargesDay, ChargesCall, Notes
  <2>2. QED
    BY <1>2, <1>3, <2>1
<1>4. ASSUME NEW v \in Watches, Opens(v)
      PROVE  db'[w] = NewRow(clock) \/ (Exists(w) /\ db'[w] = db[w])
  BY <1>1, <1>4 DEF Opens, Exists
<1>5. CASE Purges
  BY <1>1, <1>5 DEF Purges, Exists
<1>6. CASE UNCHANGED db
  BY <1>6 DEF Exists
<1>7. QED
  BY <1>3, <1>4, <1>5, <1>6, TableSteps

-----------------------------------------------------------------------------
(* Time *)

\* Nothing is dated in the future, and a call is charged for at a time the day
\* clock of its row has not passed.
RowsDated ==
  \A w \in Watches : Exists(w) =>
    db[w].created <= db[w].lastBilled /\ db[w].lastBilled <= clock

TickDated(k, now) ==
  /\ k.startMs <= now
  /\ k.stage = "post" => k.row.lastBilled <= k.nowMs /\ k.nowMs <= now

TimeInv == StepInv /\ RowsDated /\ \A t \in Tickers : TickDated(tick[t], clock)

\* The columns of a new row that the payer cares about.
LEMMA NewRowColumns ==
  ASSUME NEW now \in Nat
  PROVE  /\ NewRow(now).credit = Starter /\ NewRow(now).topups = Starter
         /\ NewRow(now).billed = 0 /\ NewRow(now).deliveries = 0
         /\ NewRow(now).created = now /\ NewRow(now).lastBilled = now
         /\ NewRow(now).expires = ExpiryAfterPayment(Starter, now)
BY Zenon DEF NewRow

\* The clock never goes back.
LEMMA ClockSteps ==
  ASSUME TypeInv, [Next]_vars
  PROVE  clock \in Nat /\ clock' \in Nat /\ clock <= clock'
<1>1. clock \in Nat
  BY DEF TypeInv, CountType
<1>2. clock' = clock \/ clock' = clock + 1
  BY DEF Next, vars, Rest, CreateWatch, CancelWatch, TopUp, TopUpRead, TopUpWrite, TickBegin,
     TickStep, TakeRow, WarningArrives, WarningAcknowledged, PollFound, PollNotFound,
     FirstPollNotFound, StartReply, WebhookArrives, WebhookAcknowledged, TickEnd, TickFault,
     CallThrows, WarningFails, WebhookFails, Crash, Upstream, JobScans, JobFails, JobLost,
     JobEvicted, Mine, Advance
<1>3. QED
  BY <1>1, <1>2

\* A row that is there has dates and money.
LEMMA RowNumbers ==
  ASSUME TypeInv, NEW w \in Watches, Exists(w)
  PROVE  /\ db[w] \in Row
         /\ db[w].credit \in Nat /\ db[w].topups \in Nat /\ db[w].billed \in Nat
         /\ db[w].lastBilled \in Nat /\ db[w].expires \in Nat /\ db[w].created \in Nat
         /\ db[w].deliveries \in Nat /\ db[w].attempts \in Nat
BY RowIn, RowFields DEF TypeInv

\* The rows stay dated.
LEMMA RowsDatedKept ==
  ASSUME TimeInv, [Next]_vars
  PROVE  RowsDated'
<1> SUFFICES ASSUME NEW w \in Watches, Exists(w)'
             PROVE  db'[w].created <= db'[w].lastBilled /\ db'[w].lastBilled <= clock'
  BY DEF RowsDated
<1>1. TypeInv /\ StepInv /\ RowsDated
  BY DEF TimeInv, StepInv, PaidInv
<1>2. clock \in Nat /\ clock' \in Nat /\ clock <= clock'
  BY <1>1, ClockSteps
<1>3. ASSUME Exists(w), db'[w].created = db[w].created, db'[w].lastBilled = db[w].lastBilled
      PROVE  db'[w].created <= db'[w].lastBilled /\ db'[w].lastBilled <= clock'
  BY <1>1, <1>2, <1>3, RowNumbers DEF RowsDated
<1>4. CASE Exists(w) /\ db'[w] = db[w]
  BY <1>3, <1>4
<1>5. CASE db'[w] = NewRow(clock)
  BY <1>2, <1>5, NewRowColumns
<1>6. CASE Pays(w) \/ PaysSplit(w) \/ ChargesCall(w) \/ Notes(w)
  <2>1. /\ Exists(w)
        /\ db'[w].created = db[w].created /\ db'[w].lastBilled = db[w].lastBilled
    BY <1>6 DEF Pays, PaysSplit, ChargesCall, Notes, Writes, Alike, Columns
  <2>2. QED
    BY <1>3, <2>1
<1>7. CASE ChargesDay(w)
  <2>1. Exists(w) /\ db'[w].created = db[w].created /\ db'[w].lastBilled = clock
    BY <1>7 DEF ChargesDay, Writes, Alike, Columns
  <2>2. QED
    BY <1>1, <1>2, <2>1, RowNumbers DEF RowsDated
<1>8. QED
  BY <1>1, <1>4, <1>5, <1>6, <1>7, RowSteps

\* A tick at work, or one that has let go of its row, stays dated.
LEMMA TickDatedKept ==
  ASSUME TimeInv, [Next]_vars, NEW t \in Tickers, Turns(t),
         \/ tick'[t].stage # "post"
         \/ /\ tick[t].stage = "post" /\ tick'[t].row = tick[t].row
            /\ tick'[t].nowMs = tick[t].nowMs
         \/ /\ Working(tick[t]) /\ tick'[t].row = tick[t].row
            /\ tick'[t].nowMs = clock
  PROVE  TickDated(tick'[t], clock')
<1>1. TypeInv /\ StepInv /\ RowsDated /\ TickDated(tick[t], clock) /\ tick[t] \in Tick
  BY DEF TimeInv, StepInv, PaidInv, TypeInv, TicksType
<1>2. clock \in Nat /\ clock' \in Nat /\ clock <= clock'
  BY <1>1, ClockSteps
<1>3. tick[t].startMs \in Nat /\ tick[t].nowMs \in Nat
  BY <1>1, TickFields
<1>4. tick'[t].startMs <= clock'
  BY <1>1, <1>2, <1>3 DEF Turns, TickDated
<1>5. CASE tick'[t].stage # "post"
  BY <1>4, <1>5 DEF TickDated
<1>6. CASE tick[t].stage = "post" /\ tick'[t].row = tick[t].row /\ tick'[t].nowMs = tick[t].nowMs
  BY <1>1, <1>2, <1>3, <1>4, <1>6 DEF TickDated
<1>7. CASE Working(tick[t]) /\ tick'[t].row = tick[t].row /\ tick'[t].nowMs = clock
  <2>1. Exists(tick[t].watch) /\ tick[t].watch \in Watches /\ Same(tick[t].row, db[tick[t].watch])
    BY <1>1, <1>7, AtWork
  <2>2. tick[t].row.lastBilled <= clock
    BY <1>1, <2>1 DEF RowsDated, Same, TickColumns
  <2>3. QED
    BY <1>2, <1>4, <1>7, <2>2 DEF TickDated
<1>8. QED
  BY <1>5, <1>6, <1>7

\* A step of one tick keeps it dated, and with it every tick.
LEMMA TicksDatedKept ==
  ASSUME OneTicker, TimeInv, [Next]_vars, NEW u \in Tickers
  PROVE  TickDated(tick'[u], clock')
<1>1. TypeInv /\ StepInv /\ TickDated(tick[u], clock) /\ tick[u] \in Tick
  BY DEF TimeInv, StepInv, PaidInv, TypeInv, TicksType
<1>2. clock \in Nat /\ clock' \in Nat /\ clock <= clock'
  BY <1>1, ClockSteps
<1>3. tick[u].startMs \in Nat /\ tick[u].nowMs \in Nat
  BY <1>1, TickFields
<1>4. CASE tick'[u] = tick[u]
  BY <1>1, <1>2, <1>3, <1>4 DEF TickDated
<1>5. CASE tick'[u] = IdleTick
  <2>1. IdleTick.startMs = 0 /\ IdleTick.stage = "idle"
    BY DEF IdleTick
  <2>2. QED
    BY <1>2, <1>5, <2>1 DEF TickDated
<1>6. ASSUME NEW t \in Tickers, TickBegin(t) PROVE TickDated(tick'[u], clock')
  <2> DEFINE rows == [w \in Watches |-> IF Active(w, clock) THEN db[w] ELSE NoRow]
             k == [IdleTick EXCEPT !.stage = "next", !.startMs = clock, !.todo = rows]
  <2>1. t = u /\ tick' = [tick EXCEPT ![t] = k]
    BY <1>6 DEF OneTicker, TickBegin
  <2>2. tick'[u] = k
    BY <1>1, <2>1, TickIs
  <2> HIDE DEF rows
  <2>3. k.stage = "next" /\ k.startMs = clock
    BY Zenon DEF IdleTick
  <2> HIDE DEF k
  <2>4. QED
    BY <1>2, <2>2, <2>3 DEF TickDated
<1>7. ASSUME NEW t \in Tickers, TickStep(t) PROVE TickDated(tick'[u], clock')
  <2>1. t = u
    BY DEF OneTicker
  <2>2. ASSUME NEW w \in Watches, TakeRow(t, w) PROVE TickDated(tick'[u], clock')
    <3>1. /\ tick'[t].startMs = tick[t].startMs
          /\ tick'[t].stage \in {"next", "warn", "poll", "start"}
      BY <1>1, <2>2, TakeRowDoes, Zenon
    <3>2. QED
      BY <1>1, <1>2, <1>3, <2>1, <3>1 DEF TickDated
  <2>3. CASE WarningArrives(t) \/ WebhookArrives(t)
    BY <1>1, <2>1, <2>3, ArrivesDoes, TickDatedKept
  <2>4. CASE WarningAcknowledged(t)
    BY <1>1, <2>1, <2>4, WarningAcknowledgedDoes, TickDatedKept
  <2>5. CASE PollFound(t) \/ FirstPollNotFound(t)
    <3>1. Working(tick[t]) /\ tick[t].stage \in {"poll", "first"}
      BY <1>1, <2>5, PollDoes
    <3>2. PICK snap \in Snapshot \cup {NoSnap} : Judge(t, snap)
      BY <1>1, <2>5, PollDoes
    <3>3. /\ Turns(t)
          /\ tick'[t].stage = "post" => tick'[t].row = tick[t].row /\ tick'[t].nowMs = clock
      BY <1>1, <3>1, <3>2, JudgeDoes
    <3>4. QED
      BY <2>1, <3>1, <3>3, TickDatedKept
  <2>6. CASE PollNotFound(t) \/ \E j \in JobIds : StartReply(t, j)
    BY <1>1, <2>1, <2>6, NewJobDoes, TickDatedKept
  <2>7. CASE WebhookAcknowledged(t)
    <3>1. Turns(t) /\ tick'[t].stage = "next"
      BY <1>1, <2>7, WebhookAcknowledgedDoes, Zenon
    <3>2. QED
      BY <2>1, <3>1, TickDatedKept
  <2>8. CASE TickEnd(t)
    BY <1>1, <1>5, <2>1, <2>8, TickIs DEF TickEnd
  <2>9. QED
    BY <1>7, <2>2, <2>3, <2>4, <2>5, <2>6, <2>7, <2>8 DEF TickStep
<1>8. ASSUME NEW t \in Tickers, TickFault(t) PROVE TickDated(tick'[u], clock')
  <2>1. t = u
    BY DEF OneTicker
  <2>2. CASE WarningFails(t)
    BY <1>1, <2>1, <2>2, WarningFailsDoes, TickDatedKept
  <2>3. CASE WebhookFails(t) \/ CallThrows(t)
    <3>1. tick' = [tick EXCEPT ![t] = RowDone(tick[t])]
      BY <2>3, Zenon DEF WebhookFails, CallThrows
    <3>2. QED
      BY <1>1, <2>1, <3>1, Releases, TickDatedKept
  <2>4. QED
    BY <1>8, <2>2, <2>3 DEF TickFault
<1>9. CASE Crash
  BY <1>5, <1>9 DEF Crash
<1>10. CASE Rest \/ Upstream \/ Mine \/ Advance \/ UNCHANGED vars
  <2>1. UNCHANGED tick
    BY <1>10 DEF Rest, CreateWatch, CancelWatch, TopUp, TopUpRead, TopUpWrite, Upstream,
       JobScans, JobFails, JobLost, JobEvicted, Mine, Advance, vars
  <2>2. QED
    BY <1>4, <2>1
<1>11. QED
  BY <1>6, <1>7, <1>8, <1>9, <1>10 DEF Next

\* Every step keeps everything dated.
LEMMA TimeStep ==
  ASSUME OneTicker, TimeInv, [Next]_vars
  PROVE  TimeInv'
<1>1. StepInv'
  BY InStepKept DEF TimeInv
<1>2. RowsDated'
  BY RowsDatedKept
<1>3. \A t \in Tickers : TickDated(tick'[t], clock')
  BY TicksDatedKept
<1>4. QED
  BY <1>1, <1>2, <1>3 DEF TimeInv, TickDated

\* At first nothing is dated at all.
LEMMA TimeInit == Init => TimeInv
<1> SUFFICES ASSUME Init PROVE TimeInv
  OBVIOUS
<1>1. RowsDated
  BY DEF Init, RowsDated, Exists
<1>2. \A t \in Tickers : TickDated(tick[t], clock)
  BY DEF Init, TickDated, IdleTick
<1>3. QED
  BY <1>1, <1>2, InStepInit DEF TimeInv

=============================================================================
