------------------------------ MODULE BillProofs ------------------------------
(***************************************************************************)
(* What the payer of a watch gets for the money.  While no two ticks       *)
(* overlap: the bill is the deliveries and the days, the paid time is      *)
(* kept, a purge comes after it, and the whole poller is a set of prepaid  *)
(* accounts.  However many overlap: no payment is lost.                    *)
(***************************************************************************)
EXTENDS OneTickProofs

-----------------------------------------------------------------------------
(* Arithmetic *)

\* The two linear facts about products that the bill needs.
LEMMA Distributes ==
  ASSUME NEW a \in Int, NEW b \in Int, NEW c \in Int
  PROVE  (a + b) * c = a * c + b * c /\ a * c \in Int /\ b * c \in Int
OBVIOUS

LEMMA DistributesBack ==
  ASSUME NEW a \in Int, NEW b \in Int, NEW c \in Int
  PROVE  c * (a + b) = c * a + c * b /\ c * a \in Int /\ c * b \in Int
OBVIOUS

\* What has been billed for days, in a row with that bill and that many calls.
Days(billed, deliveries) == billed - CallRate * deliveries

\* A bill for days is covered by the time from the creation to the day clock.
Fair(days, created, lastBilled) ==
  0 <= days * DayMs /\ days * DayMs <= (lastBilled - created) * DayRate

\* A day charge for no more than the time since the last one stays fair.
LEMMA DayStaysFair ==
  ASSUME NEW days \in Int, NEW created \in Nat, NEW last \in Nat, NEW now \in Nat,
         NEW charge \in Nat, last <= now, Fair(days, created, last),
         charge * DayMs <= (now - last) * DayRate
  PROVE  Fair(days + charge, created, now)
<1>1. DayMs \in Nat /\ DayRate \in Nat
  BY MeterAssumption
<1>2. (days + charge) * DayMs = days * DayMs + charge * DayMs
      /\ days * DayMs \in Int /\ charge * DayMs \in Nat
  BY <1>1, Distributes, ProductType
<1>3. (now - created) * DayRate = (last - created) * DayRate + (now - last) * DayRate
  <2>1. now - created = (last - created) + (now - last)
    OBVIOUS
  <2>2. last - created \in Int /\ now - last \in Int
    OBVIOUS
  <2>3. QED
    BY <1>1, <2>1, <2>2, Distributes
<1>4. (last - created) * DayRate \in Int /\ (now - last) * DayRate \in Int
  BY <1>1, Distributes
<1>5. QED
  BY <1>2, <1>3, <1>4 DEF Fair

\* A call is billed to the calls.
LEMMA CallBillsNoDays ==
  ASSUME NEW billed \in Nat, NEW deliveries \in Nat
  PROVE  Days(billed + CallRate, deliveries + 1) = Days(billed, deliveries)
<1>1. CallRate \in Nat
  BY MeterAssumption
<1>2. CallRate * (deliveries + 1) = CallRate * deliveries + CallRate
      /\ CallRate * deliveries \in Int
  BY <1>1, DistributesBack
<1>3. QED
  BY <1>1, <1>2 DEF Days

\* The days of a bill are a number.
LEMMA DaysType ==
  ASSUME NEW billed \in Nat, NEW deliveries \in Nat
  PROVE  Days(billed, deliveries) \in Int
BY MeterAssumption, DistributesBack DEF Days

\* A day charge that is due is worth no more than the time since the last one.
LEMMA ChargeIsDue ==
  ASSUME NEW row, row.lastBilled \in Nat, NEW now \in Nat, row.lastBilled <= now
  PROVE  DayChargeDue(row, now) * DayMs <= (now - row.lastBilled) * DayRate
<1>1. AtLeastZero(now - row.lastBilled) = now - row.lastBilled
  BY DEF AtLeastZero
<1>2. QED
  BY <1>1, DayChargeFacts

-----------------------------------------------------------------------------
(* The bill *)

FairRow(row) == Fair(Days(row.billed, row.deliveries), row.created, row.lastBilled)

\* A new watch owes nothing.
LEMMA NewIsFair ==
  ASSUME NEW now \in Nat PROVE FairRow(NewRow(now))
<1>1. /\ NewRow(now).billed = 0 /\ NewRow(now).deliveries = 0
      /\ NewRow(now).created = now /\ NewRow(now).lastBilled = now
  BY NewRowColumns
<1>2. Days(0, 0) = 0
  BY MeterAssumption DEF Days
<1>3. 0 * DayMs = 0 /\ 0 * DayRate = 0 /\ now - now = 0
  BY MeterAssumption
<1>4. Fair(0, now, now)
  BY <1>3 DEF Fair
<1>5. QED
  BY <1>1, <1>2, <1>4 DEF FairRow

\* Every way a row changes keeps its bill fair.
LEMMA FairKept ==
  ASSUME TimeInv, NeverOverbilled, [Next]_vars
  PROVE  NeverOverbilled'
<1> SUFFICES ASSUME NEW w \in Watches, Exists(w)' PROVE FairRow(db'[w])
  BY DEF NeverOverbilled, FairRow, Fair, Days
<1>1. TypeInv /\ StepInv /\ RowsDated /\ clock \in Nat
  BY ClockSteps DEF TimeInv, StepInv, PaidInv
<1>2. Exists(w) =>
        /\ FairRow(db[w]) /\ db[w].lastBilled <= clock
        /\ db[w].billed \in Nat /\ db[w].deliveries \in Nat
        /\ db[w].created \in Nat /\ db[w].lastBilled \in Nat
  BY <1>1, RowNumbers DEF NeverOverbilled, FairRow, Fair, Days, RowsDated
<1>3. CASE Exists(w) /\ db'[w] = db[w]
  BY <1>2, <1>3
<1>4. CASE db'[w] = NewRow(clock)
  BY <1>1, <1>4, NewIsFair
<1>5. CASE Pays(w) \/ PaysSplit(w) \/ Notes(w)
  <2>1. /\ Exists(w)
        /\ db'[w].created = db[w].created /\ db'[w].lastBilled = db[w].lastBilled
        /\ db'[w].billed = db[w].billed /\ db'[w].deliveries = db[w].deliveries
    BY <1>5 DEF Pays, PaysSplit, Notes, Writes, Alike, Columns
  <2>2. QED
    BY <1>2, <2>1 DEF FairRow
<1>6. CASE ChargesDay(w)
  <2> DEFINE charge == DayChargeDue(db[w], clock)
             days == Days(db[w].billed, db[w].deliveries)
  <2>1. /\ Exists(w) /\ charge \in Nat
        /\ db'[w].created = db[w].created /\ db'[w].lastBilled = clock
        /\ db'[w].billed = db[w].billed + charge /\ db'[w].deliveries = db[w].deliveries
    BY <1>6 DEF ChargesDay, Writes, Alike, Columns
  <2>2. charge * DayMs <= (clock - db[w].lastBilled) * DayRate
    BY <1>1, <1>2, <2>1, ChargeIsDue
  <2> HIDE DEF charge
  <2>3. days \in Int /\ Fair(days, db[w].created, db[w].lastBilled)
    BY <1>2, <2>1, DaysType DEF FairRow
  <2>4. Fair(days + charge, db[w].created, clock)
    <3> HIDE DEF days
    <3>1. QED
      BY <1>1, <1>2, <2>1, <2>2, <2>3, DayStaysFair
  <2>5. Days(db[w].billed + charge, db[w].deliveries) = days + charge
    <3>1. CallRate * db[w].deliveries \in Int
      BY <1>2, <2>1, MeterAssumption, DistributesBack
    <3>2. QED
      BY <1>2, <2>1, <3>1 DEF Days
  <2>6. QED
    BY <2>1, <2>4, <2>5 DEF FairRow
<1>7. CASE ChargesCall(w)
  <2>1. /\ Exists(w)
        /\ db'[w].created = db[w].created /\ db'[w].lastBilled = db[w].lastBilled
        /\ db'[w].billed = db[w].billed + CallRate
        /\ db'[w].deliveries = db[w].deliveries + 1
    BY <1>7 DEF ChargesCall, Writes, Alike, Columns
  <2>2. QED
    BY <1>2, <2>1, CallBillsNoDays DEF FairRow
<1>8. QED
  BY <1>1, <1>3, <1>4, <1>5, <1>6, <1>7, RowSteps

\* A watch is billed for its deliveries and for days that have passed: without a second
\* tick, no call and no day is billed twice, in any order of polls, top-ups and crashes.
THEOREM BillIsFair ==
  ASSUME OneTicker
  PROVE  Spec => []NeverOverbilled
<1> DEFINE Inv == TimeInv /\ NeverOverbilled
<1>1. Init => Inv
  <2>1. Init => NeverOverbilled
    BY DEF Init, NeverOverbilled, Exists
  <2>2. QED
    BY <2>1, TimeInit
<1>2. Inv /\ [Next]_vars => Inv'
  BY TimeStep, FairKept
<1>3. QED
  BY <1>1, <1>2, PTL DEF Spec

-----------------------------------------------------------------------------
(* The time that is paid for *)

PaidTime(row) == Least(IdleTime(row.credit), MaxLifetime)

\* The cap only ever shortens it.
LEMMA PaidTimeFacts ==
  ASSUME NEW credit \in Nat
  PROVE  /\ Least(IdleTime(credit), MaxLifetime) \in Nat
         /\ Least(IdleTime(credit), MaxLifetime) <= IdleTime(credit)
         /\ IdleTime(credit) \in Nat
<1>1. IdleTime(credit) \in Nat /\ MaxLifetime \in Nat
  BY IdleTimeType, MeterAssumption
<1>2. QED
  BY <1>1, LeastFacts

\* The time a call is charged for: the day clock of the row has not passed it.
LEMMA CallsAreDated ==
  ASSUME TimeInv, NEW t \in Tickers, tick[t].stage = "post"
  PROVE  tick[t].nowMs \in Nat /\ db[tick[t].watch].lastBilled <= tick[t].nowMs
<1>1. StepInv /\ Working(tick[t]) /\ TickDated(tick[t], clock)
  BY DEF TimeInv, Working, Stages
<1>2. tick[t] \in Tick /\ Same(tick[t].row, db[tick[t].watch])
  BY <1>1, AtWork
<1>3. tick[t].nowMs \in Nat
  BY <1>2, TickFields
<1>4. tick[t].row.lastBilled = db[tick[t].watch].lastBilled
  BY <1>2 DEF Same, TickColumns
<1>5. QED
  BY <1>1, <1>3, <1>4 DEF TickDated

\* Every way a row changes keeps its paid time, as long as no top-up writes an expiry
\* that a charge between its two statements has overtaken.
LEMMA PaidTimeStays ==
  ASSUME TopUpWhen # "split", TimeInv, PaidTimeKept, [Next]_vars
  PROVE  PaidTimeKept'
<1> SUFFICES ASSUME NEW w \in Watches, Exists(w)'
             PROVE  db'[w].expires >= db'[w].lastBilled + PaidTime(db'[w])
  BY DEF PaidTimeKept, PaidTime
<1>1. TypeInv /\ StepInv /\ RowsDated /\ clock \in Nat /\ clock' \in Nat
  BY ClockSteps DEF TimeInv, StepInv, PaidInv
<1>2. Exists(w) =>
        /\ db[w].expires >= db[w].lastBilled + PaidTime(db[w])
        /\ db[w].lastBilled <= clock /\ db[w].lastBilled \in Nat
  BY <1>1, RowNumbers DEF PaidTimeKept, PaidTime, RowsDated
<1>3. CASE Exists(w) /\ db'[w] = db[w]
  BY <1>2, <1>3
<1>4. CASE db'[w] = NewRow(clock)
  <2>1. /\ db'[w].lastBilled = clock /\ db'[w].credit = Starter
        /\ db'[w].expires = clock + Least(IdleTime(Starter), MaxLifetime)
    BY <1>1, <1>4, NewRowColumns DEF ExpiryAfterPayment
  <2>2. Least(IdleTime(Starter), MaxLifetime) \in Nat
    BY PollerAssumption, PaidTimeFacts
  <2>3. QED
    BY <1>1, <2>1, <2>2 DEF PaidTime
<1>5. ASSUME Exists(w), db'[w].credit \in Nat,
             NEW now \in Nat, db'[w].lastBilled \in Nat, db'[w].lastBilled <= now,
             \/ db'[w].expires = ExpiryAfterPayment(db'[w].credit, now)
             \/ db'[w].expires = ExpiryAfterCharge(db'[w].credit, now)
      PROVE  db'[w].expires >= db'[w].lastBilled + PaidTime(db'[w])
  <2> DEFINE time == IdleTime(db'[w].credit)
             capped == Least(time, MaxLifetime)
  <2>1. capped \in Nat /\ capped <= time /\ time \in Nat
    BY <1>5, PaidTimeFacts
  <2>2. db'[w].expires = now + capped \/ db'[w].expires = now + time
    BY <1>5 DEF ExpiryAfterPayment, ExpiryAfterCharge
  <2> HIDE DEF time, capped
  <2>3. db'[w].expires >= db'[w].lastBilled + capped
    BY <1>5, <2>1, <2>2
  <2>4. QED
    BY <2>3 DEF PaidTime, time, capped
<1>6. CASE Pays(w)
  <2>1. /\ Exists(w) /\ db'[w] \in Row /\ db'[w].lastBilled = db[w].lastBilled
        /\ db'[w].expires = ExpiryAfterPayment(db'[w].credit, clock)
    BY <1>6 DEF Pays, Writes, Alike, Columns
  <2>2. QED
    BY <1>1, <1>2, <1>5, <2>1, RowFields
<1>7. CASE ChargesDay(w)
  <2>1. /\ Exists(w) /\ db'[w] \in Row /\ db'[w].lastBilled = clock
        /\ db'[w].expires = ExpiryAfterCharge(db'[w].credit, clock)
    BY <1>7 DEF ChargesDay, Writes
  <2>2. QED
    BY <1>1, <1>5, <2>1, RowFields
<1>8. CASE ChargesCall(w)
  <2>1. PICK t \in Tickers :
          /\ Exists(w) /\ db'[w] \in Row /\ db'[w].lastBilled = db[w].lastBilled
          /\ tick[t].stage = "post" /\ tick[t].watch = w
          /\ db'[w].expires = ExpiryAfterCharge(db'[w].credit, tick[t].nowMs)
    BY <1>8 DEF ChargesCall, Writes, Alike, Columns
  <2>2. tick[t].nowMs \in Nat /\ db'[w].lastBilled <= tick[t].nowMs
    BY <2>1, CallsAreDated
  <2>3. QED
    BY <1>5, <2>1, <2>2, RowFields
<1>9. CASE Notes(w)
  <2>1. /\ Exists(w) /\ db'[w].lastBilled = db[w].lastBilled
        /\ db'[w].expires = db[w].expires /\ db'[w].credit = db[w].credit
    BY <1>9 DEF Notes, Writes, Alike, Columns
  <2>2. QED
    BY <1>2, <2>1 DEF PaidTime
<1>10. ~PaysSplit(w)
  BY DEF PaysSplit
<1>11. QED
  BY <1>1, <1>3, <1>4, <1>6, <1>7, <1>8, <1>9, <1>10, RowSteps

\* Both hold together.
LEMMA PaidTimeAlways ==
  ASSUME OneTicker, TopUpWhen # "split"
  PROVE  Spec => [](TimeInv /\ PaidTimeKept)
<1>1. Init => PaidTimeKept
  BY DEF Init, PaidTimeKept, Exists
<1>2. TimeInv /\ PaidTimeKept /\ [Next]_vars => (TimeInv /\ PaidTimeKept)'
  BY TimeStep, PaidTimeStays
<1>3. QED
  BY <1>1, <1>2, TimeInit, PTL DEF Spec

\* The expiry never falls short of what the credit has paid for: not when a charge and a
\* top-up recompute it at different times and with different caps.
THEOREM ExpiryCoversTheCredit ==
  ASSUME OneTicker, TopUpWhen # "split"
  PROVE  Spec => []PaidTimeKept
BY PaidTimeAlways, PTL

\* Only the purge at the end of a tick deletes a row, with the clock of its start.
LEMMA OnlyPurges ==
  ASSUME TimeInv, [Next]_vars, NEW w \in Watches, Exists(w), db'[w] = Purged
  PROVE  db[w].expires <= clock
<1>1. /\ TypeInv /\ StepInv /\ clock \in Nat /\ db \in [Watches -> Row \cup {Unborn, Purged}]
      /\ db[w].expires \in Nat
  BY ClockSteps, RowNumbers DEF TimeInv, StepInv, PaidInv, TypeInv, DbType
<1>2. db[w] # Purged /\ Purged \notin Row
  BY AbsenceAssumption DEF Exists
<1>3. ASSUME NEW v \in Watches, Opens(v) PROVE FALSE
  <2>1. v # w /\ db' = [db EXCEPT ![v] = NewRow(clock)]
    BY <1>3 DEF Opens, Exists
  <2>2. QED
    BY <1>1, <1>2, <2>1
<1>4. ASSUME NEW v \in Watches, NEW but, Writes(v, but) PROVE FALSE
  BY <1>1, <1>2, <1>4, WrittenRow
<1>5. ASSUME NEW v \in Watches, \/ Pays(v) \/ PaysSplit(v) \/ ChargesDay(v)
                                \/ ChargesCall(v) \/ Notes(v)
      PROVE  FALSE
  BY <1>4, <1>5 DEF Pays, PaysSplit, ChargesDay, ChargesCall, Notes
<1>6. PICK t \in Tickers :
        db' = [v \in Watches |->
                 IF Exists(v) /\ db[v].expires <= tick[t].startMs THEN Purged ELSE db[v]]
  BY <1>1, <1>2, <1>3, <1>5, TableSteps DEF Purges
<1>7. db[w].expires <= tick[t].startMs
  BY <1>2, <1>6
<1>8. tick[t].startMs <= clock /\ tick[t].startMs \in Nat
  BY <1>1, TickFields DEF TimeInv, TickDated, TypeInv, TicksType
<1>9. QED
  BY <1>1, <1>7, <1>8

\* No watch is deleted before the time that was paid for is over, though the purge uses
\* the clock of the start of a tick that may have run for long.
THEOREM PurgeComesAfterThePaidTime ==
  ASSUME OneTicker, TopUpWhen # "split"
  PROVE  Spec => PurgeSparesPaidTime
<1>1. ASSUME TimeInv, PaidTimeKept, [Next]_vars, NEW w \in Watches, Exists(w), db'[w] = Purged
      PROVE  clock >= db[w].lastBilled + PaidTime(db[w])
  <2>1. db[w].expires <= clock
    BY <1>1, OnlyPurges
  <2>2. db[w].expires >= db[w].lastBilled + PaidTime(db[w])
    BY <1>1 DEF PaidTimeKept, PaidTime
  <2>3. clock \in Nat /\ db[w].expires \in Nat /\ db[w].lastBilled \in Nat /\ PaidTime(db[w]) \in Nat
    BY <1>1, ClockSteps, RowNumbers, PaidTimeFacts DEF TimeInv, StepInv, PaidInv, PaidTime
  <2>4. QED
    BY <2>1, <2>2, <2>3
<1>2. TimeInv /\ PaidTimeKept /\ [Next]_vars =>
        [\A w \in Watches : Exists(w) /\ db'[w] = Purged =>
           clock >= db[w].lastBilled + Least(IdleTime(db[w].credit), MaxLifetime)]_vars
  BY <1>1 DEF PaidTime
<1>3. QED
  BY <1>2, PaidTimeAlways, PTL DEF Spec, PurgeSparesPaidTime

-----------------------------------------------------------------------------
(* No payment is lost, however many ticks overlap *)

\* A charge bills at least what it takes.
LEMMA ChargeConserves ==
  ASSUME NEW credit \in Nat, NEW billed \in Nat, NEW topups \in Nat, NEW charge \in Nat,
         credit + billed >= topups
  PROVE  AtLeastZero(credit - charge) + (billed + charge) >= topups
BY DEF AtLeastZero

\* A copy of a row, be it stale, that accounts for all that was paid into the row.
Accounted(w, row) == db[w] # Unborn /\ (db[w] # Purged => row.credit + row.billed >= db[w].topups)

\* All the copies a tick holds do; an idle one holds none.
TickAccounts(k) ==
  /\ k.stage = "idle" => \A w \in Watches : k.todo[w] = NoRow
  /\ \A w \in Watches : k.todo[w] # NoRow => Accounted(w, k.todo[w])
  /\ Working(k) => Accounted(k.watch, k.row)

AccountInv == PaidInv /\ Conserved /\ \A t \in Tickers : TickAccounts(tick[t])

\* A step that adds nothing to a total: rows may appear and disappear, none
\* comes back, and the totals of the others stay as they are.
TotalsStay ==
  \A w \in Watches : db[w] # Unborn =>
    /\ db'[w] # Unborn
    /\ db'[w] # Purged => db[w] # Purged /\ db'[w].topups = db[w].topups

\* Such a step, once the new local states are seen to account for the old table.
LEMMA AccountsKept ==
  ASSUME AccountInv, PaidInv', TotalsStay, Conserved', \A t \in Tickers : TickAccounts(tick'[t])
  PROVE  AccountInv'
<1>1. ASSUME NEW w \in Watches, NEW row, Accounted(w, row)
      PROVE  db'[w] # Unborn /\ (db'[w] # Purged => row.credit + row.billed >= db'[w].topups)
  BY <1>1 DEF TotalsStay, Accounted
<1>2. ASSUME NEW t \in Tickers PROVE TickAccounts(tick[t])'
  <2>1. TickAccounts(tick'[t]) /\ (Working(tick'[t]) => tick'[t].watch \in Watches)
    BY DEF PaidInv, TypeInv, TicksType, Busy, Working
  <2>2. QED
    BY <1>1, <2>1 DEF TickAccounts, Accounted
<1>3. QED
  BY <1>2 DEF AccountInv

\* The same for a step of one tick.
LEMMA OneTickAccounts ==
  ASSUME AccountInv, PaidInv', TotalsStay, Conserved', NEW t \in Tickers, NEW k, TickAccounts(k),
         tick' = [tick EXCEPT ![t] = k]
  PROVE  AccountInv'
<1>1. \A u \in Tickers : TickAccounts(tick'[u])
  BY DEF AccountInv, PaidInv, TypeInv, TicksType
<1>2. QED
  BY <1>1, AccountsKept

\* A write of the poller that accounts for the money of its row.
LEMMA StoredAccounts ==
  ASSUME AccountInv, NEW w \in Watches, NEW new, db' = Stored(w, new),
         Exists(w) => new \in Row /\ new.topups = db[w].topups
                      /\ new.credit + new.billed >= db[w].topups
  PROVE  TotalsStay /\ Conserved'
<1>1. CASE ~Exists(w)
  BY <1>1 DEF Stored, TotalsStay, AccountInv, Conserved, Exists
<1>2. CASE Exists(w)
  <2>1. db' = [db EXCEPT ![w] = new] /\ db \in [Watches -> Row \cup {Unborn, Purged}]
    BY <1>2 DEF Stored, AccountInv, PaidInv, TypeInv, DbType
  <2>2. new # Unborn
    BY <1>2, AbsenceAssumption
  <2>3. TotalsStay
    BY <1>2, <2>1, <2>2 DEF TotalsStay, Exists
  <2>4. Conserved'
    BY <1>2, <2>1 DEF AccountInv, Conserved, Exists
  <2>5. QED
    BY <2>3, <2>4
<1>3. QED
  BY <1>1, <1>2

\* The columns with money in them are the same.
SameMoney(a, b) == a.credit = b.credit /\ a.billed = b.billed /\ a.topups = b.topups

\* A write of other columns.
LEMMA NotesAccount ==
  ASSUME AccountInv, NEW w \in Watches, NEW new, db' = Stored(w, new),
         Exists(w) => new \in Row /\ SameMoney(new, db[w])
  PROVE  TotalsStay /\ Conserved'
<1>1. Exists(w) => db[w].credit + db[w].billed >= db[w].topups
  BY DEF AccountInv, Conserved
<1>2. QED
  BY <1>1, StoredAccounts DEF SameMoney

LEMMA TableAccounts ==
  ASSUME AccountInv, UNCHANGED db
  PROVE  TotalsStay /\ Conserved'
BY DEF AccountInv, TotalsStay, Conserved, Exists

\* The copy in the hands of a tick that awaits a call.
LEMMA InHandAccounts ==
  ASSUME AccountInv, NEW t \in Tickers, Working(tick[t])
  PROVE  /\ tick[t] \in Tick /\ tick[t].watch \in Watches /\ tick[t].row \in Row
         /\ Accounted(tick[t].watch, tick[t].row)
         /\ Exists(tick[t].watch) => db[tick[t].watch] \in Row
         /\ \A w \in Watches : tick[t].todo[w] # NoRow => Accounted(w, tick[t].todo[w])
<1>1. TypeInv /\ TickAccounts(tick[t])
  BY DEF AccountInv, PaidInv
<1>2. tick[t] \in Tick /\ tick[t].watch \in Watches /\ tick[t].row \in Row
  BY <1>1, InHand DEF Working
<1>3. QED
  BY <1>1, <1>2, RowIn DEF TickAccounts, TypeInv

\* A tick that lets go of its row.
LEMMA RowDoneAccounts ==
  ASSUME NEW k \in Tick, \A w \in Watches : k.todo[w] # NoRow => Accounted(w, k.todo[w])
  PROVE  TickAccounts(RowDone(k))
BY RowDoneFields DEF TickAccounts, Working

\* One that may go on to the scanner with it.
LEMMA ProceedAccounts ==
  ASSUME NEW k \in Tick, \A w \in Watches : k.todo[w] # NoRow => Accounted(w, k.todo[w]),
         Accounted(k.watch, k.row)
  PROVE  TickAccounts(Proceed(k))
<1> DEFINE next == Proceed(k)
<1>1. /\ next.stage \in {"next", "poll", "start"} /\ next.todo = k.todo
      /\ next.stage # "next" => next.watch = k.watch /\ next.row = k.row
  BY ProceedFields, Zenon
<1> HIDE DEF next
<1>2. TickAccounts(next)
  BY <1>1 DEF TickAccounts, Working
<1>3. QED
  BY <1>2 DEF next

\* One that goes on with the same money in its hands.
LEMMA SameMoneyAccounts ==
  ASSUME AccountInv, NEW t \in Tickers, Working(tick[t]), NEW k, k.stage \in Stages \ {"idle"},
         k.todo = tick[t].todo, k.watch = tick[t].watch,
         k.row.credit = tick[t].row.credit, k.row.billed = tick[t].row.billed
  PROVE  TickAccounts(k)
BY InHandAccounts DEF TickAccounts, Accounted

\* A new watch has its starting credit, an old one nothing else.
LEMMA CreateWatchAccounts ==
  ASSUME AccountInv, PaidInv', NEW w \in Watches, CreateWatch(w)
  PROVE  AccountInv'
<1>1. /\ db' = [db EXCEPT ![w] = NewRow(clock)] /\ db[w] = Unborn /\ UNCHANGED tick
      /\ db \in [Watches -> Row \cup {Unborn, Purged}] /\ clock \in Nat
  BY DEF CreateWatch, AccountInv, PaidInv, TypeInv, DbType, CountType
<1>2. NewRow(clock).credit + NewRow(clock).billed >= NewRow(clock).topups
  BY <1>1, NewRowColumns, PollerAssumption
<1>3. TotalsStay
  BY <1>1, NewRowType, AbsenceAssumption DEF TotalsStay
<1>4. Conserved'
  BY <1>1, <1>2 DEF AccountInv, Conserved, Exists
<1>5. QED
  BY <1>1, <1>3, <1>4, AccountsKept DEF AccountInv

\* A cancellation moves no money.
LEMMA CancelWatchAccounts ==
  ASSUME AccountInv, PaidInv', NEW w \in Watches, CancelWatch(w)
  PROVE  AccountInv'
<1> DEFINE new == [db[w] EXCEPT !.cancelled = TRUE]
<1>1. Exists(w) /\ db[w] \in Row /\ UNCHANGED tick
  BY RowIn DEF AccountInv, PaidInv, TypeInv, CancelWatch
<1>2. new \in Row /\ db' = Stored(w, new)
  BY <1>1, RowFlagged DEF CancelWatch, Stored
<1>3. SameMoney(new, db[w])
  BY <1>1, Zenon DEF Row, SameMoney
<1> HIDE DEF new
<1>4. TotalsStay /\ Conserved'
  BY <1>2, <1>3, NotesAccount
<1>5. QED
  BY <1>1, <1>4, AccountsKept DEF AccountInv

\* A top-up that keeps out of ticks finds no copies of its row.
LEMMA TopUpAccounts ==
  ASSUME TopUpWhen = "quiet", AccountInv, PaidInv', NEW w \in Watches,
         NEW amount \in TopUpAmounts, TopUp(w, amount)
  PROVE  AccountInv'
<1>1. /\ \A t \in Tickers : tick[t].stage = "idle"
      /\ Exists(w) /\ db[w] \in Row /\ amount \in Nat /\ UNCHANGED tick
      /\ db' = [db EXCEPT ![w] = ToppedUp(db[w], amount, clock)]
      /\ db \in [Watches -> Row \cup {Unborn, Purged}]
  BY RowIn, PollerAssumption
     DEF AccountInv, PaidInv, TypeInv, DbType, TopUp, TopUpAllowed
<1> DEFINE new == ToppedUp(db[w], amount, clock)
<1>2. /\ new.credit = db[w].credit + amount /\ new.topups = db[w].topups + amount
      /\ new.billed = db[w].billed
  <2> DEFINE c == db[w].credit + amount
             p == db[w].topups + amount
             e == ExpiryAfterPayment(c, clock)
             u == db[w].warned /\ c <= LowThreshold
  <2>1. new = [db[w] EXCEPT !.credit = c, !.topups = p, !.expires = e, !.warned = u, !.dead = FALSE]
    BY Zenon DEF ToppedUp
  <2> HIDE DEF new, c, p, e, u
  <2>2. new.credit = c /\ new.topups = p /\ new.billed = db[w].billed
    BY <1>1, <2>1, Zenon DEF Row
  <2>3. QED
    BY <2>2 DEF c, p
<1> HIDE DEF new
<1>3. new.credit + new.billed >= new.topups
  BY <1>1, <1>2, RowFields DEF AccountInv, Conserved
<1>4. db'[w] = new /\ \A v \in Watches : v # w => db'[v] = db[v]
  BY <1>1 DEF new
<1>5. Conserved'
  BY <1>1, <1>3, <1>4 DEF AccountInv, Conserved, Exists
<1>6. ASSUME NEW t \in Tickers PROVE TickAccounts(tick[t])'
  <2>1. TickAccounts(tick[t]) /\ tick[t].stage = "idle" /\ tick'[t] = tick[t]
    BY <1>1 DEF AccountInv
  <2>2. QED
    BY <2>1 DEF TickAccounts, Working
<1>7. QED
  BY <1>5, <1>6 DEF AccountInv

\* What a tick reads accounts for what it is read from.
LEMMA TickBeginAccounts ==
  ASSUME AccountInv, PaidInv', NEW t \in Tickers, TickBegin(t)
  PROVE  AccountInv'
<1> DEFINE rows == [w \in Watches |-> IF Active(w, clock) THEN db[w] ELSE NoRow]
           k == [IdleTick EXCEPT !.stage = "next", !.startMs = clock, !.todo = rows]
<1>1. ASSUME NEW w \in Watches, rows[w] # NoRow
      PROVE  Accounted(w, rows[w])
  <2>1. rows[w] = db[w] /\ Exists(w)
    BY <1>1 DEF Active
  <2>2. QED
    BY <2>1 DEF AccountInv, Conserved, Accounted, Exists
<1>2. tick' = [tick EXCEPT ![t] = k] /\ UNCHANGED db
  BY DEF TickBegin
<1> HIDE DEF rows
<1>3. k.stage = "next" /\ k.todo = rows
  BY IdleTickType, Zenon DEF Tick
<1>4. TickAccounts(k)
  BY <1>1, <1>3 DEF TickAccounts, Working
<1> HIDE DEF k
<1>5. QED
  BY <1>2, <1>4, TableAccounts, OneTickAccounts

\* A day charge writes the credit and the bill of the same copy, which stay in balance.
LEMMA TakeRowAccounts ==
  ASSUME AccountInv, PaidInv', NEW t \in Tickers, NEW w \in Watches, TakeRow(t, w)
  PROVE  AccountInv'
<1> DEFINE old == tick[t].todo[w]
           row == DayCharged(old, clock)
           todo == [tick[t].todo EXCEPT ![w] = NoRow]
           k == [tick[t] EXCEPT !.watch = w, !.row = row, !.todo = todo]
           kw == [k EXCEPT !.stage = "warn"]
           new == [db[w] EXCEPT !.credit = row.credit, !.billed = row.billed,
                                !.lastBilled = row.lastBilled, !.expires = row.expires]
<1>1. tick[t] \in Tick /\ TickAccounts(tick[t])
  BY DEF AccountInv, PaidInv, TypeInv, TicksType
<1>2. old \in Row /\ clock \in Nat /\ old # NoRow /\ tick[t].stage = "next"
  BY <1>1, TickFields DEF AccountInv, PaidInv, TypeInv, CountType, TakeRow
<1>3. row \in Row /\ Accounted(w, row)
  <2> DEFINE charge == DayChargeDue(old, clock)
  <2>1. /\ charge \in Nat /\ row \in Row
        /\ charge = 0 => row = old
        /\ charge # 0 => /\ row.credit = AtLeastZero(old.credit - charge)
                         /\ row.billed = old.billed + charge
    BY <1>2, DayChargedColumns, Zenon
  <2>2. Accounted(w, old)
    BY <1>1, <1>2 DEF TickAccounts
  <2>3. old.credit \in Nat /\ old.billed \in Nat
    BY <1>2, RowFields
  <2>4. db[w] \notin {Unborn, Purged} => db[w].topups \in Nat
    BY RowNumbers DEF AccountInv, PaidInv, Exists
  <2> HIDE DEF row, charge, old
  <2>5. QED
    BY <2>1, <2>2, <2>3, <2>4, ChargeConserves DEF Accounted
<1>4. todo \in [Watches -> Row \cup {NoRow}]
  BY <1>1, TickFields
<1>5. /\ db' = IF row = old THEN db ELSE Stored(w, new)
      /\ tick' = [tick EXCEPT ![t] = IF LowCreditDue(row) THEN kw ELSE Proceed(k)]
  BY DEF TakeRow
<1>6. \A v \in Watches : todo[v] # NoRow => Accounted(v, todo[v])
  <2> SUFFICES ASSUME NEW v \in Watches, todo[v] # NoRow PROVE Accounted(v, todo[v])
    OBVIOUS
  <2>1. todo[v] = tick[t].todo[v]
    BY <1>1, TickFields
  <2>2. QED
    BY <1>1, <2>1 DEF TickAccounts
<1>7. row.credit \in Nat /\ row.billed \in Nat /\ row.lastBilled \in Nat /\ row.expires \in Nat
  BY <1>3, RowFields
<1> HIDE DEF old, row, todo
<1>8. Exists(w) => new \in Row /\ new.topups = db[w].topups
                   /\ new.credit + new.billed >= db[w].topups
  <2> SUFFICES ASSUME Exists(w)
               PROVE  new \in Row /\ new.topups = db[w].topups
                      /\ new.credit + new.billed >= db[w].topups
    OBVIOUS
  <2>1. db[w] \in Row
    BY RowIn DEF AccountInv, PaidInv, TypeInv
  <2>2. new \in Row
    BY <1>7, <2>1, RowCharged
  <2>3. new.topups = db[w].topups /\ new.credit = row.credit /\ new.billed = row.billed
    BY <2>1, Zenon DEF Row
  <2> HIDE DEF new
  <2>4. QED
    BY <1>3, <2>2, <2>3 DEF Accounted, Exists
<1> HIDE DEF new
<1>9. TotalsStay /\ Conserved'
  <2>1. CASE row = old
    BY <1>5, <2>1, TableAccounts
  <2>2. CASE row # old
    <3>1. db' = Stored(w, new)
      BY <1>5, <2>2
    <3>2. QED
      BY <1>8, <3>1, StoredAccounts
  <2>3. QED
    BY <2>1, <2>2
<1>10. k \in Tick /\ k.watch = w /\ k.row = row /\ k.todo = todo
  BY <1>1, <1>3, <1>4, Zenon DEF Tick
<1> HIDE DEF k
<1>11. kw.watch = w /\ kw.row = row /\ kw.todo = todo /\ kw.stage = "warn"
  BY <1>10, Zenon DEF Tick
<1> HIDE DEF kw
<1>12. TickAccounts(kw)
  BY <1>3, <1>6, <1>11 DEF TickAccounts
<1>13. TickAccounts(Proceed(k))
  BY <1>3, <1>6, <1>10, ProceedAccounts
<1>14. CASE LowCreditDue(row)
  <2>1. tick' = [tick EXCEPT ![t] = kw]
    BY <1>5, <1>14
  <2>2. QED
    BY <1>9, <1>12, <2>1, OneTickAccounts
<1>15. CASE ~LowCreditDue(row)
  <2>1. tick' = [tick EXCEPT ![t] = Proceed(k)]
    BY <1>5, <1>15
  <2>2. QED
    BY <1>9, <1>13, <2>1, OneTickAccounts
<1>16. QED
  BY <1>14, <1>15

\* An arrival moves no money of the table.
LEMMA ArrivesAccounts ==
  ASSUME AccountInv, PaidInv', NEW t \in Tickers, WarningArrives(t) \/ WebhookArrives(t)
  PROVE  AccountInv'
<1> DEFINE k == [tick[t] EXCEPT !.heard = TRUE]
<1>1. Working(tick[t])
  BY DEF WarningArrives, WebhookArrives, Working, Stages
<1>2. tick[t] \in Tick
  BY <1>1, InHandAccounts
<1>3. k.stage = tick[t].stage /\ k.todo = tick[t].todo /\ k.watch = tick[t].watch
      /\ k.row = tick[t].row
  BY <1>2, Zenon DEF Tick
<1>4. tick' = [tick EXCEPT ![t] = k] /\ UNCHANGED db
  BY DEF WarningArrives, WebhookArrives
<1> HIDE DEF k
<1>5. TickAccounts(k)
  BY <1>1, <1>3, SameMoneyAccounts DEF Working
<1>6. QED
  BY <1>4, <1>5, TableAccounts, OneTickAccounts

\* Nor does the latch.
LEMMA WarningAcknowledgedAccounts ==
  ASSUME AccountInv, PaidInv', NEW t \in Tickers, WarningAcknowledged(t)
  PROVE  AccountInv'
<1> DEFINE w == tick[t].watch
           row == [tick[t].row EXCEPT !.warned = TRUE]
           k == [tick[t] EXCEPT !.row = row]
           new == [db[w] EXCEPT !.warned = TRUE]
<1>1. Working(tick[t])
  BY DEF WarningAcknowledged, Working, Stages
<1>2. /\ tick[t] \in Tick /\ w \in Watches /\ tick[t].row \in Row
      /\ Accounted(w, tick[t].row) /\ (Exists(w) => db[w] \in Row)
      /\ \A v \in Watches : tick[t].todo[v] # NoRow => Accounted(v, tick[t].todo[v])
  BY <1>1, InHandAccounts
<1>3. row \in Row /\ row.credit = tick[t].row.credit /\ row.billed = tick[t].row.billed
  BY <1>2, RowFlagged, Zenon DEF Row
<1>4. Exists(w) => new \in Row /\ SameMoney(new, db[w])
  <2> SUFFICES ASSUME Exists(w) PROVE new \in Row /\ SameMoney(new, db[w])
    OBVIOUS
  <2>1. db[w] \in Row /\ new \in Row
    BY <1>2, RowFlagged
  <2>2. SameMoney(new, db[w])
    BY <2>1, Zenon DEF Row, SameMoney
  <2>3. QED
    BY <2>1, <2>2
<1>5. db' = Stored(w, new) /\ tick' = [tick EXCEPT ![t] = Proceed(k)]
  BY <1>2 DEF WarningAcknowledged, Tick
<1> HIDE DEF row, new
<1>6. k \in Tick /\ k.watch = w /\ k.row = row /\ k.todo = tick[t].todo
  BY <1>2, <1>3, Zenon DEF Tick
<1> HIDE DEF k
<1>7. Accounted(k.watch, k.row)
  BY <1>2, <1>3, <1>6 DEF Accounted
<1>8. TickAccounts(Proceed(k))
  BY <1>2, <1>6, <1>7, ProceedAccounts
<1>9. TotalsStay /\ Conserved'
  BY <1>2, <1>4, <1>5, NotesAccount
<1>10. QED
  BY <1>5, <1>8, <1>9, OneTickAccounts

\* Nor a verdict on a snapshot.
LEMMA JudgeAccounts ==
  ASSUME AccountInv, PaidInv', NEW t \in Tickers, NEW snap \in Snapshot \cup {NoSnap},
         Working(tick[t]), Judge(t, snap)
  PROVE  AccountInv'
<1> DEFINE w == tick[t].watch
           baseline == PickBetterKnown(tick[t].row.known, tick[t].row.delivered)
           new == [db[w] EXCEPT !.known = snap]
           k == [tick[t] EXCEPT !.stage = "post", !.nowMs = clock, !.snap = snap]
           news == IsNews(tick[t].row.delivered, snap)
<1>1. /\ tick[t] \in Tick /\ w \in Watches /\ (Exists(w) => db[w] \in Row)
      /\ TickAccounts(RowDone(tick[t]))
  BY InHandAccounts, RowDoneAccounts
<1>2. CASE IsPremature(baseline, snap)
  <2>1. UNCHANGED db /\ tick' = [tick EXCEPT ![t] = RowDone(tick[t])]
    BY <1>2 DEF Judge
  <2>2. QED
    BY <1>1, <2>1, TableAccounts, OneTickAccounts
<1>3. CASE ~IsPremature(baseline, snap)
  <2>1. db' = Stored(w, new) /\ tick' = [tick EXCEPT ![t] = IF news THEN k ELSE RowDone(tick[t])]
    BY <1>3, Zenon DEF Judge
  <2>2. Exists(w) => new \in Row /\ SameMoney(new, db[w])
    <3> SUFFICES ASSUME Exists(w) PROVE new \in Row /\ SameMoney(new, db[w])
      OBVIOUS
    <3>1. db[w] \in Row /\ new \in Row
      BY <1>1, RowKnown
    <3>2. SameMoney(new, db[w])
      BY <3>1, Zenon DEF Row, SameMoney
    <3>3. QED
      BY <3>1, <3>2
  <2>3. k.stage = "post" /\ k.todo = tick[t].todo /\ k.watch = w /\ k.row = tick[t].row
    BY <1>1, Zenon DEF Tick
  <2> HIDE DEF new, k, news
  <2>4. TickAccounts(k)
    BY <2>3, SameMoneyAccounts DEF Stages
  <2>5. TotalsStay /\ Conserved'
    BY <1>1, <2>1, <2>2, NotesAccount
  <2>6. CASE news
    BY <2>1, <2>4, <2>5, <2>6, OneTickAccounts
  <2>7. CASE ~news
    BY <1>1, <2>1, <2>5, <2>7, OneTickAccounts
  <2>8. QED
    BY <2>6, <2>7
<1>4. QED
  BY <1>2, <1>3

\* A poll that is answered ends in one.
LEMMA PollAccounts ==
  ASSUME AccountInv, PaidInv', NEW t \in Tickers, PollFound(t) \/ FirstPollNotFound(t)
  PROVE  AccountInv'
<1>1. Working(tick[t])
  BY DEF PollFound, FirstPollNotFound, Working, Stages
<1>2. CASE PollFound(t)
  <2>1. tick[t].row.job \in JobIds
    BY <1>2 DEF AccountInv, PaidInv, TypeInv, TicksType, Busy, PollFound
  <2>2. jobs[tick[t].row.job] \in Snapshot
    BY <1>2, <2>1 DEF AccountInv, PaidInv, TypeInv, JobsType, PollFound
  <2>3. QED
    BY <1>1, <1>2, <2>2, JudgeAccounts DEF PollFound
<1>3. CASE FirstPollNotFound(t)
  BY <1>1, <1>3, JudgeAccounts DEF FirstPollNotFound
<1>4. QED
  BY <1>2, <1>3

\* Nor a job that is forgotten or started.
LEMMA NewJobAccounts ==
  ASSUME AccountInv, PaidInv', NEW t \in Tickers,
         PollNotFound(t) \/ \E j \in JobIds : StartReply(t, j)
  PROVE  AccountInv'
<1>1. PICK j \in JobIds \cup {NoJob}, s \in {"start", "first"} :
        /\ db' = Stored(tick[t].watch, [db[tick[t].watch] EXCEPT !.job = j])
        /\ tick' = [tick EXCEPT ![t].stage = s, ![t].row.job = j]
  BY DEF PollNotFound, StartReply
<1> DEFINE w == tick[t].watch
           row == [tick[t].row EXCEPT !.job = j]
           k == [tick[t] EXCEPT !.stage = s, !.row = row]
           new == [db[w] EXCEPT !.job = j]
<1>2. Working(tick[t])
  BY DEF PollNotFound, StartReply, Working, Stages
<1>3. /\ tick[t] \in Tick /\ w \in Watches /\ tick[t].row \in Row
      /\ Exists(w) => db[w] \in Row
  BY <1>2, InHandAccounts
<1>4. row.credit = tick[t].row.credit /\ row.billed = tick[t].row.billed
  BY <1>3, Zenon DEF Row
<1>5. Exists(w) => new \in Row /\ SameMoney(new, db[w])
  <2> SUFFICES ASSUME Exists(w) PROVE new \in Row /\ SameMoney(new, db[w])
    OBVIOUS
  <2>1. db[w] \in Row /\ new \in Row
    BY <1>3, RowJob
  <2>2. SameMoney(new, db[w])
    BY <2>1, Zenon DEF Row, SameMoney
  <2>3. QED
    BY <2>1, <2>2
<1>6. tick' = [tick EXCEPT ![t] = k]
  BY <1>1, <1>3, Zenon DEF AccountInv, PaidInv, TypeInv, TicksType, Tick
<1> HIDE DEF row, new
<1>7. k.stage = s /\ k.todo = tick[t].todo /\ k.watch = w /\ k.row = row
  BY <1>3, Zenon DEF Tick
<1> HIDE DEF k
<1>8. TickAccounts(k)
  BY <1>2, <1>4, <1>7, SameMoneyAccounts DEF Stages
<1>9. TotalsStay /\ Conserved'
  BY <1>1, <1>3, <1>5, NotesAccount DEF new
<1>10. QED
  BY <1>6, <1>8, <1>9, OneTickAccounts

\* A call charge, too, writes the credit and the bill of the same copy.
LEMMA WebhookAcknowledgedAccounts ==
  ASSUME AccountInv, PaidInv', NEW t \in Tickers, WebhookAcknowledged(t)
  PROVE  AccountInv'
<1> DEFINE w == tick[t].watch
           old == tick[t].row
           row == CallCharged(tick[t].row, tick[t].nowMs)
           n == row.deliveries + 1
           new == [db[w] EXCEPT !.delivered = tick[t].snap, !.attempts = 0,
                                !.deliveries = n, !.credit = row.credit,
                                !.billed = row.billed, !.expires = row.expires]
<1>1. Working(tick[t])
  BY DEF WebhookAcknowledged, Working, Stages
<1>2. /\ tick[t] \in Tick /\ w \in Watches /\ old \in Row /\ Accounted(w, old)
      /\ Exists(w) => db[w] \in Row
      /\ TickAccounts(RowDone(tick[t]))
  BY <1>1, InHandAccounts, RowDoneAccounts
<1>3. tick[t].snap \in Snapshot \cup {NoSnap} /\ tick[t].nowMs \in Nat /\ 0 \in Nat
  BY <1>2, TickFields
<1>4. /\ row.credit \in Nat /\ row.billed \in Nat /\ row.expires \in Nat /\ n \in Nat
      /\ row.credit = AtLeastZero(old.credit - CallRate) /\ row.billed = old.billed + CallRate
  BY <1>2, <1>3, CallChargedFields, RowFields
<1>5. db' = Stored(w, new) /\ tick' = [tick EXCEPT ![t] = RowDone(tick[t])]
  BY Zenon DEF WebhookAcknowledged
<1> HIDE DEF row, n, old
<1>6. Exists(w) => new \in Row /\ new.topups = db[w].topups
                   /\ new.credit + new.billed >= db[w].topups
  <2> SUFFICES ASSUME Exists(w)
               PROVE  new \in Row /\ new.topups = db[w].topups
                      /\ new.credit + new.billed >= db[w].topups
    OBVIOUS
  <2>1. db[w] \in Row /\ db[w].topups \in Nat /\ old.credit \in Nat /\ old.billed \in Nat
    BY <1>2, RowFields
  <2>2. new \in Row
    BY <1>3, <1>4, <2>1, RowAcknowledged
  <2>3. new.topups = db[w].topups /\ new.credit = row.credit /\ new.billed = row.billed
    BY <2>1, Zenon DEF Row
  <2>4. old.credit + old.billed >= db[w].topups
    BY <1>2 DEF Accounted, Exists
  <2> HIDE DEF new
  <2>5. QED
    BY <1>4, <2>1, <2>2, <2>3, <2>4, MeterAssumption, ChargeConserves
<1> HIDE DEF new
<1>7. TotalsStay /\ Conserved'
  BY <1>2, <1>5, <1>6, StoredAccounts
<1>8. QED
  BY <1>2, <1>5, <1>7, OneTickAccounts

\* A purged row owes nothing.
LEMMA TickEndAccounts ==
  ASSUME AccountInv, PaidInv', NEW t \in Tickers, TickEnd(t)
  PROVE  AccountInv'
<1>1. TotalsStay /\ Conserved'
  BY AbsenceAssumption DEF TickEnd, TotalsStay, AccountInv, Conserved, Exists
<1>2. TickAccounts(IdleTick)
  BY IdleHasNone DEF TickAccounts, Working
<1>3. QED
  BY <1>1, <1>2, OneTickAccounts DEF TickEnd

\* A call that fails moves no money.
LEMMA TickFaultAccounts ==
  ASSUME AccountInv, PaidInv', NEW t \in Tickers, TickFault(t)
  PROVE  AccountInv'
<1>1. Working(tick[t])
  BY DEF TickFault, CallThrows, WarningFails, WebhookFails, Working, Stages
<1>2. /\ tick[t] \in Tick /\ tick[t].watch \in Watches /\ tick[t].row \in Row
      /\ Exists(tick[t].watch) => db[tick[t].watch] \in Row
      /\ TickAccounts(RowDone(tick[t])) /\ TickAccounts(Proceed(tick[t]))
  BY <1>1, InHandAccounts, RowDoneAccounts, ProceedAccounts
<1>3. CASE CallThrows(t)
  BY <1>2, <1>3, TableAccounts, OneTickAccounts DEF CallThrows
<1>4. CASE WarningFails(t)
  BY <1>2, <1>4, TableAccounts, OneTickAccounts DEF WarningFails
<1>5. CASE WebhookFails(t)
  <2> DEFINE w == tick[t].watch
             attempts == tick[t].row.attempts + 1
             dead == attempts >= MaxAttempts
             new == [db[w] EXCEPT !.attempts = attempts, !.dead = dead]
  <2>1. attempts \in Nat /\ dead \in BOOLEAN
    BY <1>2, RowFields
  <2>2. db' = Stored(w, new) /\ tick' = [tick EXCEPT ![t] = RowDone(tick[t])]
    BY <1>5, Zenon DEF WebhookFails
  <2> HIDE DEF attempts, dead
  <2>3. Exists(w) => new \in Row /\ SameMoney(new, db[w])
    <3> SUFFICES ASSUME Exists(w) PROVE new \in Row /\ SameMoney(new, db[w])
      OBVIOUS
    <3>1. db[w] \in Row
      BY <1>2
    <3>2. new \in Row
      BY <2>1, <3>1, RowFailed
    <3>3. SameMoney(new, db[w])
      BY <3>1, Zenon DEF Row, SameMoney
    <3>4. QED
      BY <3>2, <3>3
  <2> HIDE DEF new
  <2>4. TotalsStay /\ Conserved'
    BY <1>2, <2>2, <2>3, NotesAccount
  <2>5. QED
    BY <1>2, <2>2, <2>4, OneTickAccounts
<1>6. QED
  BY <1>3, <1>4, <1>5 DEF TickFault

\* Every step keeps the accounts.
LEMMA AccountStep ==
  ASSUME TopUpWhen = "quiet", AccountInv, [Next]_vars
  PROVE  AccountInv'
<1>1. PaidInv'
  BY PaidStep DEF AccountInv
<1>2. CASE Rest
  <2>1. CASE \E w \in Watches : CreateWatch(w) \/ CancelWatch(w)
    BY <1>1, <2>1, CreateWatchAccounts, CancelWatchAccounts
  <2>2. CASE \E w \in Watches, amount \in TopUpAmounts : TopUp(w, amount)
    BY <1>1, <2>2, TopUpAccounts
  <2>3. ~TopUpWrite /\ \A w \in Watches, amount \in TopUpAmounts : ~TopUpRead(w, amount)
    BY DEF AccountInv, PaidInv, TopUpPaid, TopUpWrite, TopUpRead
  <2>4. QED
    BY <1>2, <2>1, <2>2, <2>3 DEF Rest
<1>3. ASSUME NEW t \in Tickers, TickBegin(t) PROVE AccountInv'
  BY <1>1, <1>3, TickBeginAccounts
<1>4. ASSUME NEW t \in Tickers, TickStep(t) PROVE AccountInv'
  BY <1>1, <1>4, TakeRowAccounts, ArrivesAccounts, WarningAcknowledgedAccounts, PollAccounts,
     NewJobAccounts, WebhookAcknowledgedAccounts, TickEndAccounts DEF TickStep
<1>5. ASSUME NEW t \in Tickers, TickFault(t) PROVE AccountInv'
  BY <1>1, <1>5, TickFaultAccounts
<1>6. CASE Crash
  <2>1. \A t \in Tickers : tick'[t] = IdleTick
    BY <1>6 DEF Crash
  <2>2. TickAccounts(IdleTick)
    BY IdleHasNone DEF TickAccounts, Working
  <2>3. QED
    BY <1>1, <1>6, <2>1, <2>2, TableAccounts, AccountsKept DEF Crash
<1>7. CASE Upstream \/ Mine \/ Advance \/ UNCHANGED vars
  <2>1. UNCHANGED <<db, tick>>
    BY <1>7 DEF Upstream, JobScans, JobFails, JobLost, JobEvicted, Mine, Advance, vars
  <2>2. QED
    BY <1>1, <2>1, TableAccounts, AccountsKept DEF AccountInv
<1>8. QED
  BY <1>2, <1>3, <1>4, <1>5, <1>6, <1>7 DEF Next

\* What was paid in is still credit or has been billed, whatever the faults and however
\* many ticks overlap: the poller's writes, from copies, take nothing from a payment that
\* came in while no tick was running.
THEOREM NoPaymentIsLost ==
  ASSUME TopUpWhen = "quiet"
  PROVE  Spec => []Conserved
<1>1. Init => AccountInv
  <2> SUFFICES ASSUME Init PROVE AccountInv
    OBVIOUS
  <2>1. \A t \in Tickers : TickAccounts(tick[t])
    BY IdleHasNone DEF Init, TickAccounts, Working
  <2>2. QED
    BY <2>1, PaidInit DEF Init, AccountInv, Conserved, Exists
<1>2. AccountInv /\ [Next]_vars => AccountInv'
  BY AccountStep
<1>3. AccountInv => Conserved
  BY DEF AccountInv
<1>4. QED
  BY <1>1, <1>2, <1>3, PTL DEF Spec

-----------------------------------------------------------------------------
(* The poller is a set of prepaid accounts *)

Balance(row) == [credit |-> row.credit, topups |-> row.topups, billed |-> row.billed]

AccountOf(w) == IF Exists(w) THEN Balance(db[w]) ELSE NoRow

account == [w \in Watches |-> AccountOf(w)]

Account == [credit: Nat, topups: Nat, billed: Nat]

\* An account is no more than its three numbers.
LEMMA SameAccount ==
  ASSUME NEW a \in Account, NEW b \in Account,
         a.credit = b.credit, a.topups = b.topups, a.billed = b.billed
  PROVE  a = b
BY DEF Account

\* The billing columns of a row are one.
LEMMA BalanceType ==
  ASSUME NEW row \in Row
  PROVE  /\ Balance(row) \in Account /\ Balance(row).credit = row.credit
         /\ Balance(row).topups = row.topups /\ Balance(row).billed = row.billed
BY RowFields DEF Balance, Account

\* A row in the table is an account.
LEMMA OpenAccount ==
  ASSUME TypeInv, NEW w \in Watches, Exists(w)
  PROVE  account[w] = Balance(db[w]) /\ account[w] # NoRow
<1>1. Balance(db[w]) \in Account
  BY RowNumbers, BalanceType
<1>2. QED
  BY <1>1, AbsenceAssumption DEF account, AccountOf, Account

\* A write of one row is a write of one account.
LEMMA WritesAccount ==
  ASSUME StepInv, StepInv', NEW w \in Watches, NEW but, Writes(w, but)
  PROVE  /\ account[w] = Balance(db[w]) /\ account[w] # NoRow
         /\ account'[w] = Balance(db'[w]) /\ account'[w] # NoRow
         /\ account' = [account EXCEPT ![w] = Balance(db'[w])]
<1>1. TypeInv /\ TypeInv'
  BY DEF StepInv, PaidInv
<1>2. Exists(w) /\ Exists(w)' /\ \A v \in Watches : v # w => db'[v] = db[v]
  BY <1>1, WrittenRow DEF Writes, Exists
<1>3. \A v \in Watches : v # w => AccountOf(v)' = AccountOf(v)
  BY <1>2 DEF AccountOf, Exists
<1>4. AccountOf(w)' = Balance(db'[w])
  BY <1>2 DEF AccountOf
<1>5. account' = [account EXCEPT ![w] = Balance(db'[w])]
  BY <1>3, <1>4 DEF account
<1>6. account[w] = Balance(db[w]) /\ account[w] # NoRow
  BY <1>1, <1>2, OpenAccount
<1>7. account'[w] = Balance(db'[w]) /\ account'[w] # NoRow
  <2>1. Balance(db'[w]) \in Account
    BY BalanceType DEF Writes
  <2>2. QED
    BY <1>4, <2>1, AbsenceAssumption DEF account, Account
<1>8. QED
  BY <1>5, <1>6, <1>7

\* createWatch opens an account.
LEMMA OpensAccount ==
  ASSUME StepInv, NEW w \in Watches, Opens(w)
  PROVE  Accounts!Open(w)
<1> DEFINE new == [credit |-> Starter, topups |-> Starter, billed |-> 0]
<1>1. TypeInv /\ clock \in Nat /\ Starter \in Nat \ {0}
  BY PollerAssumption DEF StepInv, PaidInv, TypeInv, CountType
<1>2. db[w] = Unborn /\ db' = [db EXCEPT ![w] = NewRow(clock)]
      /\ db \in [Watches -> Row \cup {Unborn, Purged}]
  BY <1>1 DEF Opens, TypeInv, DbType
<1>3. NewRow(clock) \in Row /\ NewRow(clock) # Unborn /\ NewRow(clock) # Purged
  BY <1>1, NewRowType, AbsenceAssumption
<1>4. Balance(NewRow(clock)) = new /\ new # NoRow /\ new.credit = Starter
  BY <1>1, NewRowColumns, AbsenceAssumption DEF Balance
<1>5. account[w] = NoRow
  BY <1>2 DEF account, AccountOf, Exists
<1>6. \A v \in Watches : v # w => AccountOf(v)' = AccountOf(v)
  BY <1>2 DEF AccountOf, Exists
<1>7. AccountOf(w)' = new
  BY <1>2, <1>3, <1>4 DEF AccountOf, Exists
<1>8. account' = [account EXCEPT ![w] = new]
  BY <1>6, <1>7 DEF account
<1>9. account'[w] = new
  BY <1>7 DEF account
<1>10. new = [credit |-> account'[w].credit, topups |-> account'[w].credit, billed |-> 0]
  BY <1>9
<1> HIDE DEF new
<1>11. account'[w] # NoRow /\ account'[w].credit > 0
  BY <1>1, <1>4, <1>9
<1>12. account' = [account EXCEPT ![w] = [credit |-> account'[w].credit,
                                         topups |-> account'[w].credit, billed |-> 0]]
  BY <1>8, <1>10, Zenon
<1>13. QED
  BY <1>5, <1>11, <1>12, Zenon DEF Accounts!Open, account, AccountOf, Balance

\* A top-up pays into one.
LEMMA PaysAccount ==
  ASSUME StepInv, StepInv', NEW w \in Watches, Pays(w)
  PROVE  Accounts!TopUp(w)
<1>1. PICK amount \in Nat \ {0} :
        /\ Writes(w, {"credit", "topups", "expires", "warned", "dead"})
        /\ db'[w].credit = db[w].credit + amount /\ db'[w].topups = db[w].topups + amount
  BY DEF Pays
<1>2. /\ account[w] = Balance(db[w]) /\ account[w] # NoRow
      /\ account'[w] = Balance(db'[w]) /\ account'[w] # NoRow
      /\ account' = [account EXCEPT ![w] = Balance(db'[w])]
  BY <1>1, WritesAccount
<1>3. db'[w].billed = db[w].billed
  BY <1>1 DEF Writes, Alike, Columns
<1>4. db[w].credit \in Nat /\ db[w].topups \in Nat /\ db[w].billed \in Nat
  BY <1>1, RowFields DEF Writes
<1>5. account'[w].topups - account[w].topups = amount /\ amount > 0
  BY <1>1, <1>2, <1>4 DEF Balance
<1> DEFINE c == db'[w].credit
           p == db'[w].topups
<1>6. account[w].credit + amount = c /\ account[w].topups + amount = p
  BY <1>1, <1>2 DEF Balance
<1>7. [account[w] EXCEPT !.credit = c, !.topups = p] = Balance(db'[w])
  <2> DEFINE new == [account[w] EXCEPT !.credit = c, !.topups = p]
  <2>1. /\ account[w] \in Account /\ account[w].billed = db[w].billed
        /\ Balance(db'[w]) \in Account /\ Balance(db'[w]).credit = c
        /\ Balance(db'[w]).topups = p /\ Balance(db'[w]).billed = db[w].billed
        /\ c \in Nat /\ p \in Nat
    BY <1>1, <1>2, <1>3, BalanceType, RowFields DEF Writes
  <2> HIDE DEF c, p
  <2>2. new \in Account /\ new.credit = c /\ new.topups = p /\ new.billed = account[w].billed
    BY <2>1, Zenon DEF Account
  <2> HIDE DEF new
  <2>3. new = Balance(db'[w])
    BY <2>1, <2>2, SameAccount
  <2>4. QED
    BY <2>3 DEF new
<1>8. account' = [account EXCEPT ![w].credit = @ + amount, ![w].topups = @ + amount]
  <2>1. account' = [account EXCEPT ![w] = [account[w] EXCEPT !.credit = c, !.topups = p]]
    BY <1>2, <1>7
  <2> HIDE DEF c, p
  <2>2. account' = [account EXCEPT ![w].credit = c, ![w].topups = p]
    BY <2>1, Zenon DEF account
  <2>3. QED
    BY <1>6, <2>2
<1>9. QED
  BY <1>2, <1>5, <1>8 DEF Accounts!TopUp, account, AccountOf, Balance

\* A charge takes from one at most what is there.
LEMMA ChargesAccount ==
  ASSUME StepInv, StepInv', NEW w \in Watches, NEW but, Writes(w, but), NEW cost \in Nat \ {0},
         db'[w].credit = AtLeastZero(db[w].credit - cost), db'[w].billed = db[w].billed + cost,
         db'[w].topups = db[w].topups
  PROVE  Accounts!Charge(w)
<1>1. /\ account[w] = Balance(db[w]) /\ account[w] # NoRow
      /\ account'[w] = Balance(db'[w]) /\ account'[w] # NoRow
      /\ account' = [account EXCEPT ![w] = Balance(db'[w])]
  BY WritesAccount
<1>2. db[w].credit \in Nat /\ db[w].topups \in Nat /\ db[w].billed \in Nat
  BY RowFields DEF Writes
<1>3. account'[w].billed - account[w].billed = cost /\ cost > 0
  BY <1>1, <1>2 DEF Balance
<1>4. db'[w].credit = IF db[w].credit < cost THEN 0 ELSE db[w].credit - cost
  BY <1>2 DEF AtLeastZero
<1> DEFINE c == db'[w].credit
           b == db'[w].billed
<1>5. /\ c = IF account[w].credit < cost THEN 0 ELSE account[w].credit - cost
      /\ b = account[w].billed + cost
  BY <1>1, <1>4 DEF Balance
<1>6. [account[w] EXCEPT !.credit = c, !.billed = b] = Balance(db'[w])
  <2> DEFINE new == [account[w] EXCEPT !.credit = c, !.billed = b]
  <2>1. /\ account[w] \in Account /\ account[w].topups = db[w].topups
        /\ Balance(db'[w]) \in Account /\ Balance(db'[w]).credit = c
        /\ Balance(db'[w]).topups = db[w].topups /\ Balance(db'[w]).billed = b
        /\ c \in Nat /\ b \in Nat
    BY <1>1, BalanceType, RowFields DEF Writes
  <2> HIDE DEF c, b
  <2>2. new \in Account /\ new.credit = c /\ new.billed = b /\ new.topups = account[w].topups
    BY <2>1, Zenon DEF Account
  <2> HIDE DEF new
  <2>3. new = Balance(db'[w])
    BY <2>1, <2>2, SameAccount
  <2>4. QED
    BY <2>3 DEF new
<1>7. account' = [account EXCEPT ![w].credit = IF @ < cost THEN 0 ELSE @ - cost,
                                 ![w].billed = @ + cost]
  <2>1. account' = [account EXCEPT ![w] = [account[w] EXCEPT !.credit = c, !.billed = b]]
    BY <1>1, <1>6
  <2> HIDE DEF c, b
  <2>2. account' = [account EXCEPT ![w].credit = c, ![w].billed = b]
    BY <2>1, Zenon DEF account
  <2>3. QED
    BY <1>5, <2>2
<1>8. QED
  BY <1>1, <1>3, <1>7 DEF Accounts!Charge, account, AccountOf, Balance

\* The purge closes some.
LEMMA PurgesAccounts ==
  ASSUME StepInv, Purges
  PROVE  \E gone \in SUBSET Watches : Accounts!Close(gone)
<1>1. PICK t \in Tickers :
        db' = [w \in Watches |->
                 IF Exists(w) /\ db[w].expires <= tick[t].startMs THEN Purged ELSE db[w]]
  BY DEF Purges
<1> DEFINE gone == {w \in Watches : Exists(w) /\ db[w].expires <= tick[t].startMs}
<1>2. \A w \in Watches : AccountOf(w)' = IF w \in gone THEN NoRow ELSE AccountOf(w)
  BY <1>1 DEF AccountOf, Exists
<1>3. Accounts!Close(gone)
  BY <1>2 DEF Accounts!Close, AccountOf, Balance
<1>4. gone \in SUBSET Watches
  OBVIOUS
<1> HIDE DEF gone
<1>5. QED
  BY <1>3, <1>4 DEF Accounts!Close

\* Every step of the poller is an operation on accounts, or none.
LEMMA AccountSteps ==
  ASSUME TopUpWhen = "quiet", StepInv, StepInv', [Next]_vars
  PROVE  Accounts!Next \/ UNCHANGED account
<1>1. ASSUME NEW w \in Watches, ChargesDay(w) PROVE Accounts!Charge(w)
  <2>1. PICK charge \in Nat \ {0} :
          /\ Writes(w, {"credit", "billed", "lastBilled", "expires"})
          /\ db'[w].credit = AtLeastZero(db[w].credit - charge)
          /\ db'[w].billed = db[w].billed + charge
    BY <1>1 DEF ChargesDay
  <2>2. db'[w].topups = db[w].topups
    BY <2>1 DEF Writes, Alike, Columns
  <2>3. QED
    BY <2>1, <2>2, ChargesAccount
<1>2. ASSUME NEW w \in Watches, ChargesCall(w) PROVE Accounts!Charge(w)
  <2>1. /\ Writes(w, {"delivered", "attempts", "deliveries", "credit", "billed", "expires"})
        /\ db'[w].credit = AtLeastZero(db[w].credit - CallRate)
        /\ db'[w].billed = db[w].billed + CallRate
    BY <1>2 DEF ChargesCall
  <2>2. db'[w].topups = db[w].topups
    BY <2>1 DEF Writes, Alike, Columns
  <2>3. QED
    BY <2>1, <2>2, MeterAssumption, ChargesAccount
<1>3. ASSUME NEW w \in Watches, Notes(w) PROVE UNCHANGED account
  <2>1. Writes(w, {"cancelled", "warned", "known", "job", "attempts", "dead"})
    BY <1>3 DEF Notes
  <2>2. Balance(db'[w]) = Balance(db[w])
    BY <2>1 DEF Writes, Alike, Columns, Balance
  <2>3. account[w] = Balance(db[w]) /\ account' = [account EXCEPT ![w] = Balance(db'[w])]
    BY <2>1, WritesAccount
  <2>4. QED
    BY <2>2, <2>3 DEF account
<1>4. CASE UNCHANGED db
  BY <1>4 DEF account, AccountOf, Exists
<1>5. \A w \in Watches : ~PaysSplit(w)
  BY DEF PaysSplit
<1>6. QED
  BY <1>1, <1>2, <1>3, <1>4, <1>5, OpensAccount, PaysAccount, PurgesAccounts, TableSteps
     DEF Accounts!Next

\* At first no account is open.
LEMMA AccountsInit == Init => Accounts!Init
BY DEF Init, Accounts!Init, Exists

\* For the payer the poller, the REST calls and all their faults are a set of prepaid
\* accounts: a payment adds what was paid, a charge takes at most what is there and is
\* billed, and nothing else moves the credit.
THEOREM PollerIsPrepaidAccounts ==
  ASSUME OneTicker, TopUpWhen = "quiet"
  PROVE  Spec => ImplementsAccounts
<1>1. StepInv /\ StepInv' /\ [Next]_vars =>
        [Accounts!Next]_[w \in Watches |->
                           IF Exists(w) THEN [credit |-> db[w].credit, topups |-> db[w].topups,
                                              billed |-> db[w].billed]
                           ELSE NoRow]
  BY AccountSteps DEF account, AccountOf, Balance
<1>2. QED
  BY <1>1, AccountsInit, CopiesStayInStep, PTL DEF Spec, ImplementsAccounts, Accounts!Spec

=============================================================================
