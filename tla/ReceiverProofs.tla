----------------------------- MODULE ReceiverProofs -----------------------------
(***************************************************************************)
(* What the receiver of a watch is told, while no two ticks overlap: the   *)
(* deltas add up to the balance the table says was delivered, no scan that *)
(* was started over makes money move, a crossing of the threshold is       *)
(* announced once, and only failures in a row end the deliveries.          *)
(***************************************************************************)
EXTENDS OneTickProofs

-----------------------------------------------------------------------------
(* What changes what *)

\* The steps that write a row which stays in the table.
LEMMA RowCauses ==
  ASSUME StepInv, [Next]_vars, NEW w \in Watches, Exists(w)'
  PROVE  \/ Exists(w) /\ db'[w] = db[w]
         \/ db[w] = Unborn /\ db'[w] = NewRow(clock)
         \/ Writes(w, {"cancelled"}) \/ Writes(w, {"known"})
         \/ \E amount \in TopUpAmounts : TopUp(w, amount)
         \/ TopUpWrite /\ Writes(w, {"credit", "topups", "expires", "warned", "dead"})
                       /\ ~db'[w].dead
         \/ \E t \in Tickers : TakeRow(t, w)
         \/ \E t \in Tickers :
              /\ tick[t].watch = w
              /\ \/ WarningAcknowledged(t) \/ WebhookAcknowledged(t) \/ WebhookFails(t)
                 \/ PollNotFound(t) \/ \E j \in JobIds : StartReply(t, j)
<1> DEFINE Goal ==
         \/ Exists(w) /\ db'[w] = db[w]
         \/ db[w] = Unborn /\ db'[w] = NewRow(clock)
         \/ Writes(w, {"cancelled"}) \/ Writes(w, {"known"})
         \/ \E amount \in TopUpAmounts : TopUp(w, amount)
         \/ TopUpWrite /\ Writes(w, {"credit", "topups", "expires", "warned", "dead"})
                       /\ ~db'[w].dead
         \/ \E t \in Tickers : TakeRow(t, w)
         \/ \E t \in Tickers :
              /\ tick[t].watch = w
              /\ \/ WarningAcknowledged(t) \/ WebhookAcknowledged(t) \/ WebhookFails(t)
                 \/ PollNotFound(t) \/ \E j \in JobIds : StartReply(t, j)
<1> SUFFICES Goal
  OBVIOUS
<1>1. /\ TypeInv /\ db \in [Watches -> Row \cup {Unborn, Purged}]
      /\ \A t \in Tickers : Working(tick[t]) => tick[t].watch \in Watches
  BY AtWork DEF StepInv, PaidInv, TypeInv, DbType
<1>2. CASE db'[w] = db[w]
  BY <1>2 DEF Exists
<1>3. ASSUME NEW v \in Watches, v # w, NEW but, Writes(v, but)
      PROVE  db'[w] = db[w]
  BY <1>1, <1>3, WrittenRow
<1>4. ASSUME NEW v \in Watches, CreateWatch(v) PROVE Goal
  BY <1>1, <1>2, <1>4 DEF CreateWatch
<1>5. ASSUME NEW v \in Watches, CancelWatch(v) PROVE Goal
  <2>1. Writes(v, {"cancelled"})
    BY <1>5, CancelWatchDoes
  <2>2. QED
    BY <1>2, <1>3, <2>1
<1>6. ASSUME NEW v \in Watches, NEW amount \in TopUpAmounts,
             TopUp(v, amount) \/ TopUpRead(v, amount)
      PROVE  Goal
  <2>1. CASE TopUp(v, amount)
    <3>1. Writes(v, {"credit", "topups", "expires", "warned", "dead"})
      BY <2>1, TopUpDoes
    <3>2. QED
      BY <1>2, <1>3, <2>1, <3>1
  <2>2. CASE TopUpRead(v, amount)
    BY <1>2, <2>2 DEF TopUpRead
  <2>3. QED
    BY <1>6, <2>1, <2>2
<1>7. CASE TopUpWrite
  BY <1>2, <1>3, <1>7, TopUpWriteDoes
<1>8. ASSUME NEW t \in Tickers, TickBegin(t) \/ TickStep(t) \/ TickFault(t)
      PROVE  Goal
  <2>1. ASSUME NEW v \in Watches, TakeRow(t, v) PROVE Goal
    <3>1. (\E but : Writes(v, but)) \/ UNCHANGED db
      BY <2>1, TakeRowTable DEF ChargesDay
    <3>2. QED
      BY <1>2, <1>3, <2>1, <3>1
  <2>2. CASE PollFound(t) \/ FirstPollNotFound(t)
    <3>1. Working(tick[t]) /\ tick[t].stage \in {"poll", "first"}
      BY <2>2, PollDoes
    <3>2. PICK snap \in Snapshot \cup {NoSnap} : Judge(t, snap)
      BY <2>2, PollDoes
    <3>3. UNCHANGED db \/ Writes(tick[t].watch, {"known"})
      BY <3>1, <3>2, JudgeDoes
    <3>4. QED
      BY <1>1, <1>2, <1>3, <3>1, <3>3
  <2>3. CASE \/ WarningAcknowledged(t) \/ WebhookAcknowledged(t) \/ WebhookFails(t)
             \/ PollNotFound(t) \/ \E j \in JobIds : StartReply(t, j)
    <3>1. Working(tick[t]) /\ \E but : Writes(tick[t].watch, but)
      <4>1. CASE WarningAcknowledged(t)
        BY <4>1, WarningAcknowledgedDoes
      <4>2. CASE WebhookAcknowledged(t)
        BY <4>2, WebhookAcknowledgedDoes, Zenon
      <4>3. CASE WebhookFails(t)
        BY <4>3, WebhookFailsDoes, Zenon
      <4>4. CASE PollNotFound(t) \/ \E j \in JobIds : StartReply(t, j)
        BY <4>4, NewJobDoes
      <4>5. QED
        BY <2>3, <4>1, <4>2, <4>3, <4>4
    <3>2. QED
      BY <1>1, <1>2, <1>3, <2>3, <3>1
  <2>4. CASE TickEnd(t)
    BY <1>1, <1>2, <2>4 DEF TickEnd, Exists
  <2>5. CASE \/ TickBegin(t) \/ WarningArrives(t) \/ WebhookArrives(t) \/ CallThrows(t)
             \/ WarningFails(t)
    BY <1>2, <2>5 DEF TickBegin, WarningArrives, WebhookArrives, CallThrows, WarningFails
  <2>6. QED
    BY <1>8, <2>1, <2>2, <2>3, <2>4, <2>5 DEF TickStep, TickFault
<1>9. CASE Crash \/ Upstream \/ Mine \/ Advance \/ UNCHANGED vars
  BY <1>2, <1>9
     DEF Crash, Upstream, JobScans, JobFails, JobLost, JobEvicted, Mine, Advance, vars
<1> HIDE DEF Goal
<1>10. QED
  BY <1>4, <1>5, <1>6, <1>7, <1>8, <1>9 DEF Next, Rest

\* The steps that leave a tick in the middle of a delivery.
LEMMA TickCauses ==
  ASSUME OneTicker, StepInv, [Next]_vars, NEW t \in Tickers
  PROVE  \/ tick'[t] = tick[t]
         \/ tick'[t].stage \notin {"warn", "post"} /\ ~tick'[t].heard
         \/ \E w \in Watches : TakeRow(t, w)
         \/ WarningArrives(t) \/ WebhookArrives(t)
         \/ PollFound(t) \/ FirstPollNotFound(t)
<1>1. TypeInv
  BY DEF StepInv, PaidInv
<1>2. ASSUME NEW u \in Tickers, TickBegin(u)
      PROVE  tick'[t].stage \notin {"warn", "post"} /\ ~tick'[t].heard
  <2> DEFINE rows == [w \in Watches |-> IF Active(w, clock) THEN db[w] ELSE NoRow]
             k == [IdleTick EXCEPT !.stage = "next", !.startMs = clock, !.todo = rows]
  <2>1. t = u /\ tick' = [tick EXCEPT ![t] = k]
    BY <1>2 DEF OneTicker, TickBegin
  <2>2. tick'[t] = k
    BY <1>1, <2>1, TickIs
  <2> HIDE DEF rows
  <2>3. k.stage = "next" /\ ~k.heard
    BY Zenon DEF IdleTick
  <2> HIDE DEF k
  <2>4. QED
    BY <2>2, <2>3
<1>3. CASE WarningAcknowledged(t)
  BY <1>3, WarningAcknowledgedDoes
<1>4. CASE WebhookAcknowledged(t)
  <2>1. tick'[t].stage = "next" /\ ~tick'[t].heard
    BY <1>4, WebhookAcknowledgedDoes, Zenon
  <2>2. QED
    BY <2>1
<1>5. CASE PollNotFound(t) \/ \E j \in JobIds : StartReply(t, j)
  BY <1>5, NewJobDoes
<1>6. CASE WarningFails(t)
  BY <1>6, WarningFailsDoes
<1>7. CASE WebhookFails(t)
  <2>1. tick'[t].stage = "next" /\ ~tick'[t].heard
    BY <1>7, WebhookFailsDoes, Zenon
  <2>2. QED
    BY <2>1
<1>8. CASE CallThrows(t)
  <2>1. tick' = [tick EXCEPT ![t] = RowDone(tick[t])]
    BY <1>8 DEF CallThrows
  <2>2. QED
    BY <2>1, Releases
<1>9. CASE TickEnd(t) \/ Crash
  <2>1. tick'[t] = IdleTick
    BY <1>1, <1>9, TickIs DEF TickEnd, Crash
  <2>2. QED
    BY <2>1, IdleHasNone
<1>10. CASE Rest \/ Upstream \/ Mine \/ Advance \/ UNCHANGED vars
  BY <1>10 DEF Rest, CreateWatch, CancelWatch, TopUp, TopUpRead, TopUpWrite, Upstream,
     JobScans, JobFails, JobLost, JobEvicted, Mine, Advance, vars
<1>11. ASSUME NEW u \in Tickers PROVE u = t
  BY DEF OneTicker
<1>12. CASE \E u \in Tickers : TickStep(u) \/ TickFault(u)
  <2>1. TickStep(t) \/ TickFault(t)
    BY <1>11, <1>12
  <2>2. QED
    BY <1>3, <1>4, <1>5, <1>6, <1>7, <1>8, <1>9, <2>1 DEF TickStep, TickFault
<1>13. QED
  BY <1>2, <1>9, <1>10, <1>12 DEF Next

\* One receiver hears of something.
LEMMA SeenIs ==
  ASSUME TypeInv, NEW w \in Watches, NEW e, seen' = [seen EXCEPT ![w] = e]
  PROVE  seen'[w] = e /\ \A v \in Watches : v # w => seen'[v] = seen[v]
BY DEF TypeInv, SeenType

\* The arrival of a delivery adds its delta to the sum of its receiver.
LEMMA WebhookArrivesSeen ==
  ASSUME StepInv, NEW t \in Tickers, WebhookArrives(t)
  PROVE  LET w == tick[t].watch
         IN  /\ seen'[w].sum = seen[w].sum + Delta(tick[t].row.delivered, tick[t].snap)
             /\ seen'[w].streak = seen[w].streak /\ seen'[w].warnings = seen[w].warnings
             /\ \A v \in Watches : v # w => seen'[v] = seen[v]
<1> DEFINE w == tick[t].watch
           x == seen[w].sum + Delta(tick[t].row.delivered, tick[t].snap)
           e == [seen[w] EXCEPT !.sum = x]
<1>1. Working(tick[t]) /\ seen' = [seen EXCEPT ![w].sum = x]
  BY DEF WebhookArrives, Working, Stages
<1>2. TypeInv /\ w \in Watches /\ seen[w] \in [sum: Int, streak: Nat, warnings: 0 .. 2, paid: Nat]
  BY <1>1, AtWork, SeenFields DEF StepInv, PaidInv, TypeInv
<1>3. seen' = [seen EXCEPT ![w] = e]
  BY <1>1, Zenon
<1>4. e.sum = x /\ e.streak = seen[w].streak /\ e.warnings = seen[w].warnings
  <2> HIDE DEF x, w
  <2>1. QED
    BY <1>2, Zenon
<1> HIDE DEF e, x
<1>5. seen'[w] = e /\ \A v \in Watches : v # w => seen'[v] = seen[v]
  BY <1>2, <1>3, SeenIs
<1>6. QED
  BY <1>4, <1>5, Zenon DEF x

\* A delivery that ends tells the streak of failures.
LEMMA WebhookEndsSeen ==
  ASSUME StepInv, NEW t \in Tickers, WebhookAcknowledged(t) \/ WebhookFails(t)
  PROVE  LET w == tick[t].watch
         IN  /\ WebhookAcknowledged(t) => seen'[w].streak \in Nat
             /\ WebhookFails(t) => seen'[w].streak = seen[w].streak + 1
             /\ seen'[w].sum = seen[w].sum /\ seen'[w].warnings = seen[w].warnings
             /\ \A v \in Watches : v # w => seen'[v] = seen[v]
<1>1. PICK x \in Nat : /\ seen' = [seen EXCEPT ![tick[t].watch].streak = x]
                       /\ WebhookFails(t) => x = seen[tick[t].watch].streak + 1
                       /\ Working(tick[t])
  <2>1. tick[t].stage = "post"
    BY DEF WebhookAcknowledged, WebhookFails
  <2>2. Working(tick[t])
    BY <2>1 DEF Working, Stages
  <2>3. seen[tick[t].watch].streak \in Nat
    BY <2>2, AtWork, SeenFields DEF StepInv, PaidInv, TypeInv
  <2>4. CASE WebhookFails(t)
    <3> DEFINE n == seen[tick[t].watch].streak + 1
    <3>1. seen' = [seen EXCEPT ![tick[t].watch].streak = n]
      BY <2>4, Zenon DEF WebhookFails
    <3>2. n \in Nat /\ n = seen[tick[t].watch].streak + 1
      BY <2>3
    <3> HIDE DEF n
    <3>3. QED
      BY <2>2, <3>1, <3>2
  <2>5. CASE ~WebhookFails(t)
    <3>1. seen' = [seen EXCEPT ![tick[t].watch].streak = 0]
      BY <2>5 DEF WebhookAcknowledged
    <3>2. QED
      BY <2>2, <2>5, <3>1
  <2>6. QED
    BY <2>4, <2>5
<1> DEFINE w == tick[t].watch
           e == [seen[w] EXCEPT !.streak = x]
<1>2. TypeInv /\ w \in Watches /\ seen[w] \in [sum: Int, streak: Nat, warnings: 0 .. 2, paid: Nat]
  BY <1>1, AtWork, SeenFields DEF StepInv, PaidInv, TypeInv
<1>3. seen' = [seen EXCEPT ![w] = e]
  BY <1>1, Zenon
<1>4. e.streak = x /\ e.sum = seen[w].sum /\ e.warnings = seen[w].warnings
  <2> HIDE DEF w
  <2>1. QED
    BY <1>2, Zenon
<1> HIDE DEF e
<1>5. seen'[w] = e /\ \A v \in Watches : v # w => seen'[v] = seen[v]
  BY <1>2, <1>3, SeenIs
<1>6. QED
  BY <1>1, <1>4, <1>5, Zenon

\* The arrival of a warning counts.
LEMMA WarningArrivesSeen ==
  ASSUME StepInv, NEW t \in Tickers, WarningArrives(t)
  PROVE  LET w == tick[t].watch
         IN  /\ seen'[w].warnings = Least(2, seen[w].warnings + 1)
             /\ seen'[w].streak = seen[w].streak /\ seen'[w].sum = seen[w].sum
             /\ \A v \in Watches : v # w => seen'[v] = seen[v]
<1> DEFINE w == tick[t].watch
           x == Least(2, seen[w].warnings + 1)
           e == [seen[w] EXCEPT !.warnings = x]
<1>1. Working(tick[t]) /\ seen' = [seen EXCEPT ![w].warnings = x]
  BY DEF WarningArrives, Working, Stages
<1>2. TypeInv /\ w \in Watches /\ seen[w] \in [sum: Int, streak: Nat, warnings: 0 .. 2, paid: Nat]
  BY <1>1, AtWork, SeenFields DEF StepInv, PaidInv, TypeInv
<1>3. seen' = [seen EXCEPT ![w] = e]
  BY <1>1, Zenon
<1>4. e.warnings = x /\ e.streak = seen[w].streak /\ e.sum = seen[w].sum
  <2> HIDE DEF x, w
  <2>1. QED
    BY <1>2, Zenon
<1> HIDE DEF e, x
<1>5. seen'[w] = e /\ \A v \in Watches : v # w => seen'[v] = seen[v]
  BY <1>2, <1>3, SeenIs
<1>6. QED
  BY <1>4, <1>5, Zenon DEF x

\* A payment that clears the threshold forgets the warnings.
LEMMA ToppedUpSeen ==
  ASSUME StepInv, NEW w \in Watches, NEW amount, NEW credit,
         seen' = SeenToppedUp(w, amount, credit)
  PROVE  /\ seen'[w].warnings = IF credit > LowThreshold THEN 0 ELSE seen[w].warnings
         /\ \A v \in Watches : /\ seen'[v].streak = seen[v].streak /\ seen'[v].sum = seen[v].sum
                               /\ v # w => seen'[v] = seen[v]
<1> DEFINE p == seen[w].paid + amount
           n == IF credit > LowThreshold THEN 0 ELSE seen[w].warnings
           e == [seen[w] EXCEPT !.paid = p, !.warnings = n]
<1>1. TypeInv /\ seen[w] \in [sum: Int, streak: Nat, warnings: 0 .. 2, paid: Nat]
  BY SeenFields DEF StepInv, PaidInv, TypeInv
<1>2. seen' = [seen EXCEPT ![w] = e]
  BY <1>1 DEF SeenToppedUp, TypeInv, SeenType
<1>3. e.warnings = n /\ e.streak = seen[w].streak /\ e.sum = seen[w].sum
  <2> HIDE DEF p, n
  <2>1. QED
    BY <1>1, Zenon
<1> HIDE DEF e
<1>4. seen'[w] = e /\ \A v \in Watches : v # w => seen'[v] = seen[v]
  BY <1>1, <1>2, SeenIs
<1>5. QED
  BY <1>3, <1>4

\* A new watch has been told nothing, and warned of nothing.
LEMMA CreateWatchSeen ==
  ASSUME StepInv, NEW w \in Watches, CreateWatch(w), NEW v \in Watches
  PROVE  /\ seen'[v].streak = seen[v].streak /\ seen'[v].sum = seen[v].sum
         /\ seen'[v].warnings = seen[v].warnings
<1> DEFINE p == seen[w].paid + Starter
           e == [seen[w] EXCEPT !.paid = p]
<1>1. TypeInv /\ seen[w] \in [sum: Int, streak: Nat, warnings: 0 .. 2, paid: Nat]
  BY SeenFields DEF StepInv, PaidInv, TypeInv
<1>2. seen' = [seen EXCEPT ![w] = e]
  BY DEF CreateWatch
<1>3. e.warnings = seen[w].warnings /\ e.streak = seen[w].streak /\ e.sum = seen[w].sum
  <2> HIDE DEF p
  <2>1. QED
    BY <1>1, Zenon
<1> HIDE DEF e
<1>4. seen'[w] = e /\ \A u \in Watches : u # w => seen'[u] = seen[u]
  BY <1>1, <1>2, SeenIs
<1>5. QED
  BY <1>3, <1>4

\* The sum of a receiver changes with the arrival of a delivery, the streak with its end,
\* and the warnings with the arrival of one or a payment.
LEMMA SeenCauses ==
  ASSUME StepInv, [Next]_vars, NEW w \in Watches
  PROVE  /\ \/ seen'[w].sum = seen[w].sum
            \/ \E t \in Tickers : tick[t].watch = w /\ WebhookArrives(t)
         /\ \/ seen'[w].streak = seen[w].streak
            \/ \E t \in Tickers : /\ tick[t].watch = w
                                  /\ WebhookAcknowledged(t) \/ WebhookFails(t)
         /\ \/ seen'[w].warnings = seen[w].warnings
            \/ \E t \in Tickers : tick[t].watch = w /\ WarningArrives(t)
            \/ \E amount \in TopUpAmounts : TopUp(w, amount)
            \/ TopUpWrite
<1> DEFINE Goal ==
         /\ \/ seen'[w].sum = seen[w].sum
            \/ \E t \in Tickers : tick[t].watch = w /\ WebhookArrives(t)
         /\ \/ seen'[w].streak = seen[w].streak
            \/ \E t \in Tickers : /\ tick[t].watch = w
                                  /\ WebhookAcknowledged(t) \/ WebhookFails(t)
         /\ \/ seen'[w].warnings = seen[w].warnings
            \/ \E t \in Tickers : tick[t].watch = w /\ WarningArrives(t)
            \/ \E amount \in TopUpAmounts : TopUp(w, amount)
            \/ TopUpWrite
<1> SUFFICES Goal
  OBVIOUS
<1>1. CASE seen'[w] = seen[w]
  BY <1>1
<1>2. ASSUME NEW t \in Tickers, WebhookArrives(t) PROVE Goal
  <2>1. CASE tick[t].watch = w
    <3>1. seen'[w].streak = seen[w].streak /\ seen'[w].warnings = seen[w].warnings
      BY <1>2, <2>1, WebhookArrivesSeen, Zenon
    <3>2. QED
      BY <1>2, <2>1, <3>1
  <2>2. CASE tick[t].watch # w
    <3>1. seen'[w] = seen[w]
      BY <1>2, <2>2, WebhookArrivesSeen, Zenon
    <3>2. QED
      BY <1>1, <3>1
  <2>3. QED
    BY <2>1, <2>2
<1>3. ASSUME NEW t \in Tickers, WebhookAcknowledged(t) \/ WebhookFails(t) PROVE Goal
  <2>1. CASE tick[t].watch = w
    <3>1. seen'[w].sum = seen[w].sum /\ seen'[w].warnings = seen[w].warnings
      BY <1>3, <2>1, WebhookEndsSeen, Zenon
    <3>2. QED
      BY <1>3, <2>1, <3>1
  <2>2. CASE tick[t].watch # w
    <3>1. seen'[w] = seen[w]
      BY <1>3, <2>2, WebhookEndsSeen, Zenon
    <3>2. QED
      BY <1>1, <3>1
  <2>3. QED
    BY <2>1, <2>2
<1>4. ASSUME NEW t \in Tickers, WarningArrives(t) PROVE Goal
  <2>1. CASE tick[t].watch = w
    <3>1. seen'[w].streak = seen[w].streak /\ seen'[w].sum = seen[w].sum
      BY <1>4, <2>1, WarningArrivesSeen, Zenon
    <3>2. QED
      BY <1>4, <2>1, <3>1
  <2>2. CASE tick[t].watch # w
    <3>1. seen'[w] = seen[w]
      BY <1>4, <2>2, WarningArrivesSeen, Zenon
    <3>2. QED
      BY <1>1, <3>1
  <2>3. QED
    BY <2>1, <2>2
<1>5. ASSUME NEW v \in Watches, NEW amount \in TopUpAmounts,
             TopUp(v, amount) \/ TopUpRead(v, amount)
      PROVE  Goal
  <2>1. CASE TopUp(v, amount)
    <3>1. seen' = SeenToppedUp(v, amount, db[v].credit + amount)
      BY <2>1 DEF TopUp
    <3>2. /\ seen'[w].streak = seen[w].streak /\ seen'[w].sum = seen[w].sum
          /\ w # v => seen'[w] = seen[w]
      BY <3>1, ToppedUpSeen
    <3>3. QED
      BY <2>1, <3>2
  <2>2. CASE TopUpRead(v, amount)
    BY <1>1, <2>2 DEF TopUpRead
  <2>3. QED
    BY <1>5, <2>1, <2>2
<1>6. CASE TopUpWrite
  <2>1. topup.watch \in Watches
    BY <1>6 DEF StepInv, PaidInv, TypeInv, TopUpType, TopUpWrite
  <2>2. seen' = SeenToppedUp(topup.watch, topup.amount, topup.row.credit)
    BY <1>6 DEF TopUpWrite
  <2>3. seen'[w].streak = seen[w].streak /\ seen'[w].sum = seen[w].sum
    BY <2>1, <2>2, ToppedUpSeen
  <2>4. QED
    BY <1>6, <2>3
<1>7. CASE \/ \E v \in Watches : CreateWatch(v) \/ CancelWatch(v)
           \/ Crash \/ Upstream \/ Mine \/ Advance \/ UNCHANGED vars
  <2>1. CASE \E v \in Watches : CreateWatch(v)
    BY <2>1, CreateWatchSeen
  <2>2. CASE ~\E v \in Watches : CreateWatch(v)
    BY <1>1, <1>7, <2>2 DEF CancelWatch, Crash, Upstream, JobScans, JobFails, JobLost,
       JobEvicted, Mine, Advance, vars
  <2>3. QED
    BY <2>1, <2>2
<1>8. ASSUME NEW t \in Tickers, TickBegin(t) \/ TickStep(t) \/ TickFault(t)
      PROVE  Goal
  <2>1. CASE \/ TickBegin(t) \/ \E v \in Watches : TakeRow(t, v)
             \/ WarningAcknowledged(t) \/ WarningFails(t) \/ CallThrows(t)
             \/ PollFound(t) \/ FirstPollNotFound(t) \/ PollNotFound(t)
             \/ (\E j \in JobIds : StartReply(t, j)) \/ TickEnd(t)
    BY <1>1, <2>1 DEF TickBegin, TakeRow, WarningAcknowledged, WarningFails, CallThrows,
       PollFound, FirstPollNotFound, PollNotFound, StartReply, TickEnd
  <2> HIDE DEF Goal
  <2>2. QED
    BY <1>2, <1>3, <1>4, <1>8, <2>1 DEF TickStep, TickFault
<1> HIDE DEF Goal
<1>9. QED
  BY <1>5, <1>6, <1>7, <1>8 DEF Next, Rest

-----------------------------------------------------------------------------
(* A watch is only given up after failures in a row *)

\* The counter of a row is no more than what the receiver knows of, and only a full one
\* gives up.
StreakInv ==
  \A w \in Watches : Exists(w) =>
    /\ db[w].attempts <= seen[w].streak
    /\ db[w].dead => MaxAttempts <= db[w].attempts

\* The columns of a new row that receivers care about.
LEMMA NewRowForReceivers ==
  ASSUME NEW now \in Nat
  PROVE  /\ NewRow(now).attempts = 0 /\ NewRow(now).dead = FALSE
         /\ NewRow(now).delivered = NoSnap /\ NewRow(now).job = NoJob
         /\ NewRow(now).warned = FALSE
BY Zenon DEF NewRow

\* Only the end of a delivery writes the delivered baseline and the counter, and only a
\* failure gives up on the watch.
LEMMA DeliveryColumns ==
  ASSUME StepInv, [Next]_vars, NEW w \in Watches, Exists(w)',
         ~\E t \in Tickers : tick[t].watch = w /\ (WebhookAcknowledged(t) \/ WebhookFails(t))
  PROVE  \/ db[w] = Unborn /\ db'[w] = NewRow(clock)
         \/ /\ Exists(w) /\ db'[w].attempts = db[w].attempts
            /\ db'[w].delivered = db[w].delivered
            /\ db'[w].dead => db[w].dead
<1> DEFINE Kept == /\ Exists(w) /\ db'[w].attempts = db[w].attempts
                   /\ db'[w].delivered = db[w].delivered
                   /\ db'[w].dead => db[w].dead
<1>1. ASSUME NEW but, Writes(w, but), but \cap {"attempts", "delivered"} = {},
             "dead" \notin but \/ ~db'[w].dead
      PROVE  Kept
  BY <1>1 DEF Writes, Alike, Columns
<1> HIDE DEF Kept
<1>2. CASE Exists(w) /\ db'[w] = db[w]
  BY <1>2 DEF Kept
<1>3. CASE Writes(w, {"cancelled"}) \/ Writes(w, {"known"})
  BY <1>1, <1>3 DEF Kept
<1>4. CASE \/ \E amount \in TopUpAmounts : TopUp(w, amount)
           \/ TopUpWrite /\ Writes(w, {"credit", "topups", "expires", "warned", "dead"})
                         /\ ~db'[w].dead
  <2>1. Writes(w, {"credit", "topups", "expires", "warned", "dead"}) /\ ~db'[w].dead
    BY <1>4, TopUpDoes
  <2>2. Kept
    BY <1>1, <2>1
  <2>3. QED
    BY <2>2 DEF Kept
<1>5. ASSUME NEW t \in Tickers, TakeRow(t, w) PROVE Kept
  <2>1. Writes(w, {"credit", "billed", "lastBilled", "expires"}) \/ UNCHANGED db
    BY <1>5, TakeRowTable DEF ChargesDay
  <2>2. Exists(w)
    BY <2>1 DEF Writes, Exists
  <2>3. QED
    BY <1>1, <2>1, <2>2 DEF Kept
<1>6. ASSUME NEW t \in Tickers, tick[t].watch = w, WarningAcknowledged(t) PROVE Kept
  <2>1. Writes(w, {"warned"})
    BY <1>6, WarningAcknowledgedDoes
  <2>2. QED
    BY <1>1, <2>1
<1>7. ASSUME NEW t \in Tickers, tick[t].watch = w,
             PollNotFound(t) \/ \E j \in JobIds : StartReply(t, j)
      PROVE  Kept
  <2>1. Writes(w, {"job"})
    BY <1>7, NewJobDoes
  <2>2. QED
    BY <1>1, <2>1
<1>8. QED
  BY <1>2, <1>3, <1>4, <1>5, <1>6, <1>7, RowCauses DEF Kept

\* The end of a delivery keeps it.
LEMMA StreakKept ==
  ASSUME StepInv, StreakInv, [Next]_vars
  PROVE  StreakInv'
<1> SUFFICES ASSUME NEW w \in Watches, Exists(w)'
             PROVE  /\ db'[w].attempts <= seen'[w].streak
                    /\ db'[w].dead => MaxAttempts <= db'[w].attempts
  BY DEF StreakInv
<1>1. TypeInv /\ TypeInv' /\ clock \in Nat
  <2>1. TypeInv'
    BY PaidStep DEF StepInv, PaidInv
  <2>2. QED
    BY <2>1 DEF StepInv, PaidInv, TypeInv, CountType
<1>2. seen[w].streak \in Nat /\ seen'[w].streak \in Nat
  BY <1>1, SeenFields DEF TypeInv, SeenType
<1>3. CASE \E t \in Tickers : tick[t].watch = w /\ WebhookAcknowledged(t)
  <2>1. PICK t \in Tickers : tick[t].watch = w /\ WebhookAcknowledged(t)
    BY <1>3
  <2>2. /\ Working(tick[t]) /\ db'[w].attempts = 0
        /\ Writes(w, {"delivered", "attempts", "deliveries", "credit", "billed", "expires"})
    BY <2>1, WebhookAcknowledgedDoes, Zenon
  <2>3. ~db[w].dead
    BY <2>1, <2>2, AtWork DEF Same
  <2>4. ~db'[w].dead
    BY <2>2, <2>3 DEF Writes, Alike, Columns
  <2>5. QED
    BY <1>2, <2>2, <2>4
<1>4. CASE \E t \in Tickers : tick[t].watch = w /\ WebhookFails(t)
  <2>1. PICK t \in Tickers : tick[t].watch = w /\ WebhookFails(t)
    BY <1>4
  <2>2. /\ Working(tick[t]) /\ Exists(w)
        /\ db'[w].attempts = tick[t].row.attempts + 1
        /\ db'[w].dead = (db'[w].attempts >= MaxAttempts)
    BY <2>1, WebhookFailsDoes, Zenon DEF Writes
  <2>3. tick[t].row.attempts = db[w].attempts
    BY <2>1, <2>2, AtWork DEF Same, TickColumns
  <2>4. seen'[w].streak = seen[w].streak + 1
    BY <2>1, WebhookEndsSeen, Zenon
  <2>5. db[w].attempts \in Nat /\ db[w].attempts <= seen[w].streak
    BY <1>1, <2>2, RowNumbers DEF StreakInv
  <2>6. db'[w].attempts = db[w].attempts + 1
    BY <2>2, <2>3
  <2>7. db'[w].attempts <= seen'[w].streak
    BY <1>2, <2>4, <2>5, <2>6
  <2>8. db'[w].dead => db'[w].attempts >= MaxAttempts
    BY <2>2, Zenon
  <2>9. db'[w].attempts >= MaxAttempts => MaxAttempts <= db'[w].attempts
    BY <2>5, <2>6, PollerAssumption
  <2>10. QED
    BY <2>7, <2>8, <2>9
<1>5. CASE ~\E t \in Tickers : tick[t].watch = w /\ (WebhookAcknowledged(t) \/ WebhookFails(t))
  <2>1. seen'[w].streak = seen[w].streak
    BY <1>5, SeenCauses
  <2>2. CASE db'[w] = NewRow(clock)
    <3>1. db'[w].attempts = 0 /\ db'[w].dead = FALSE
      <4>1. NewRow(clock).attempts = 0 /\ NewRow(clock).dead = FALSE
        BY <1>1, NewRowForReceivers
      <4>2. QED
        BY <2>2, <4>1, Zenon
    <3>2. QED
      BY <1>2, <3>1
  <2>3. CASE /\ Exists(w) /\ db'[w].attempts = db[w].attempts
             /\ db'[w].dead => db[w].dead
    BY <2>1, <2>3 DEF StreakInv
  <2>4. QED
    BY <1>5, <2>2, <2>3, DeliveryColumns
<1>6. QED
  BY <1>3, <1>4, <1>5

\* A watch is declared dead after that many failures in a row, of which an answer in
\* between clears all, and not sooner: not through a counter that another tick, or an
\* earlier life of the watch, has left.
THEOREM DeadAfterARow ==
  ASSUME OneTicker
  PROVE  Spec => []DeadOnlyAfterMaxInARow
<1>1. Init => StreakInv
  BY DEF Init, StreakInv, Exists
<1>2. StepInv /\ StreakInv /\ [Next]_vars => (StepInv /\ StreakInv)'
  BY InStepKept, StreakKept
<1>3. StepInv /\ StreakInv => DeadOnlyAfterMaxInARow
  <2> SUFFICES ASSUME StepInv, StreakInv, NEW w \in Watches, Exists(w), db[w].dead
               PROVE  seen[w].streak >= MaxAttempts
    BY DEF DeadOnlyAfterMaxInARow
  <2>1. TypeInv
    BY DEF StepInv, PaidInv
  <2>2. db[w].attempts \in Nat /\ seen[w].streak \in Nat /\ MaxAttempts \in Nat
    BY <2>1, RowNumbers, SeenFields, PollerAssumption DEF TypeInv
  <2>3. QED
    BY <2>2 DEF StreakInv
<1>4. QED
  BY <1>1, <1>2, <1>3, InStepInit, PTL DEF Spec

-----------------------------------------------------------------------------
(* The deltas add up *)

\* A receiver has heard of a delivery that the tick does not know the answer of.
HeardAt(w, stage) == \E t \in Tickers : /\ tick[t].stage = stage /\ tick[t].heard
                                        /\ tick[t].watch = w

\* While no replies are lost, what a receiver has heard is acknowledged next.
LEMMA HeardEnds ==
  ASSUME OneTicker, NoLostReplies, StepInv, [Next]_vars,
         NEW t \in Tickers, tick[t].stage \in {"warn", "post"}, tick[t].heard
  PROVE  \/ tick'[t] = tick[t]
         \/ tick[t].stage = "warn" /\ WarningAcknowledged(t)
         \/ tick[t].stage = "post" /\ WebhookAcknowledged(t)
<1>1. ASSUME NEW u \in Tickers PROVE u = t
  BY DEF OneTicker
<1>2. CASE Rest \/ Upstream \/ Mine \/ Advance \/ UNCHANGED vars
  BY <1>2 DEF Rest, CreateWatch, CancelWatch, TopUp, TopUpRead, TopUpWrite, Upstream,
     JobScans, JobFails, JobLost, JobEvicted, Mine, Advance, vars
<1>3. ~Crash
  BY DEF Crash, Fault, NoLostReplies
<1>4. ~TickBegin(t) /\ ~TickEnd(t) /\ ~\E w \in Watches : TakeRow(t, w)
  BY DEF TickBegin, TickEnd, TakeRow
<1>5. ~TickFault(t)
  BY DEF TickFault, CallThrows, WarningFails, WebhookFails, NotAcknowledged, Fault,
     NoLostReplies
<1>6. /\ ~PollFound(t) /\ ~FirstPollNotFound(t) /\ ~PollNotFound(t)
      /\ ~\E j \in JobIds : StartReply(t, j)
  BY DEF PollFound, FirstPollNotFound, PollNotFound, StartReply
<1>7. ~WarningArrives(t) /\ ~WebhookArrives(t)
  BY DEF WarningArrives, WebhookArrives
<1>8. CASE TickStep(t)
  BY <1>4, <1>6, <1>7, <1>8 DEF TickStep, WarningAcknowledged, WebhookAcknowledged
<1>9. QED
  BY <1>1, <1>2, <1>3, <1>4, <1>5, <1>8 DEF Next

\* No watch is unmade.
LEMMA UnbornBefore ==
  ASSUME StepInv, [Next]_vars, NEW w \in Watches, db'[w] = Unborn
  PROVE  db[w] = Unborn
<1>1. TypeInv /\ db \in [Watches -> Row \cup {Unborn, Purged}]
  BY DEF StepInv, PaidInv, TypeInv, DbType
<1>2. ASSUME NEW v \in Watches, NEW but, Writes(v, but) PROVE db[w] = Unborn
  BY <1>1, <1>2, WrittenRow
<1>3. ASSUME NEW v \in Watches, \/ Pays(v) \/ PaysSplit(v) \/ ChargesDay(v)
                                \/ ChargesCall(v) \/ Notes(v)
      PROVE  db[w] = Unborn
  BY <1>2, <1>3 DEF Pays, PaysSplit, ChargesDay, ChargesCall, Notes
<1>4. ASSUME NEW v \in Watches, Opens(v) PROVE db[w] = Unborn
  BY <1>1, <1>4 DEF Opens
<1>5. CASE Purges
  BY <1>1, <1>5, AbsenceAssumption DEF Purges
<1>6. QED
  BY <1>3, <1>4, <1>5, TableSteps

\* The sum is that of the delivered baseline, and of the snapshot on its way once the
\* receiver has it.
SumInv ==
  /\ \A w \in Watches : db[w] = Unborn => seen[w].sum = 0
  /\ \A t \in Tickers :
       tick[t].stage = "post" /\ tick[t].heard => seen[tick[t].watch].sum = Amount(tick[t].snap)
  /\ \A w \in Watches :
       Exists(w) /\ ~HeardAt(w, "post") => seen[w].sum = Amount(db[w].delivered)

\* What a snapshot amounts to is a number.
LEMMA AmountType ==
  ASSUME NEW snap \in Snapshot \cup {NoSnap}
  PROVE  Amount(snap) \in Int
BY DEF Amount, Snapshot

\* The sum of a watch that is not made yet stays at nothing.
LEMMA SumUnborn ==
  ASSUME StepInv, SumInv, [Next]_vars, NEW w \in Watches, db[w] = Unborn
  PROVE  seen'[w].sum = 0
<1>1. ~\E t \in Tickers : tick[t].watch = w /\ WebhookArrives(t)
  BY ArrivesDoes, AtWork DEF Exists
<1>2. seen'[w].sum = seen[w].sum
  BY <1>1, SeenCauses
<1>3. QED
  BY <1>2 DEF SumInv

\* What has arrived is in the sum.
LEMMA SumHeard ==
  ASSUME OneTicker, StepInv, SumInv, [Next]_vars, NEW t \in Tickers,
         tick'[t].stage = "post", tick'[t].heard
  PROVE  seen'[tick'[t].watch].sum = Amount(tick'[t].snap)
<1>1. ~(PollFound(t) \/ FirstPollNotFound(t))
  <2>1. SUFFICES ASSUME PollFound(t) \/ FirstPollNotFound(t) PROVE ~tick'[t].heard
    OBVIOUS
  <2>2. Working(tick[t]) /\ tick[t].stage \notin {"warn", "post"}
    BY <2>1, PollDoes
  <2>3. PICK snap \in Snapshot \cup {NoSnap} : Judge(t, snap)
    BY <2>1, PollDoes
  <2>4. QED
    BY <2>2, <2>3, JudgeDoes
<1>2. ~\E w \in Watches : TakeRow(t, w)
  <2>1. SUFFICES ASSUME NEW w \in Watches, TakeRow(t, w) PROVE tick'[t].heard = FALSE
    OBVIOUS
  <2>2. QED
    BY <2>1, TakeRowDoes, Zenon
<1>3. ~WarningArrives(t)
  BY ArrivesDoes DEF WarningArrives
<1>4. CASE WebhookArrives(t)
  <2> DEFINE w == tick[t].watch
  <2>1. /\ Working(tick[t]) /\ tick[t].stage = "post" /\ ~tick[t].heard
        /\ tick'[t].watch = w /\ tick'[t].snap = tick[t].snap
    BY <1>4, ArrivesDoes DEF WebhookArrives
  <2>2. /\ w \in Watches /\ Exists(w) /\ Same(tick[t].row, db[w])
        /\ tick[t].row \in Row /\ tick[t].snap \in Snapshot \cup {NoSnap}
    BY <2>1, AtWork DEF Tick
  <2>3. tick[t].row.delivered = db[w].delivered
    BY <2>2 DEF Same, TickColumns
  <2>4. ~HeardAt(w, "post")
    BY <2>1 DEF HeardAt, OneTicker
  <2>5. seen[w].sum = Amount(tick[t].row.delivered)
    BY <2>2, <2>3, <2>4 DEF SumInv
  <2>6. seen'[w].sum = seen[w].sum + Delta(tick[t].row.delivered, tick[t].snap)
    BY <1>4, WebhookArrivesSeen, Zenon
  <2>7. Amount(tick[t].row.delivered) \in Int /\ Amount(tick[t].snap) \in Int
    BY <2>2, AmountType, RowFields
  <2>8. QED
    BY <2>1, <2>5, <2>6, <2>7 DEF Delta
<1>5. CASE tick'[t] = tick[t]
  <2>1. Working(tick[t]) /\ tick[t].stage = "post" /\ tick[t].heard
    BY <1>5 DEF Working, Stages
  <2>2. ~\E u \in Tickers : WebhookArrives(u)
    BY <2>1 DEF OneTicker, WebhookArrives
  <2>3. seen'[tick[t].watch].sum = seen[tick[t].watch].sum
    BY <2>1, <2>2, AtWork, SeenCauses
  <2>4. QED
    BY <1>5, <2>1, <2>3 DEF SumInv
<1>6. QED
  BY <1>1, <1>2, <1>3, <1>4, <1>5, TickCauses

\* Nothing on its way: the sum is what was delivered.
LEMMA SumDelivered ==
  ASSUME OneTicker, NoLostReplies, StepInv, SumInv, [Next]_vars,
         NEW w \in Watches, Exists(w)', ~HeardAt(w, "post")'
  PROVE  seen'[w].sum = Amount(db'[w].delivered)
<1>1. TypeInv /\ clock \in Nat
  BY DEF StepInv, PaidInv, TypeInv, CountType
<1>2. seen'[w].sum = seen[w].sum
  <2>1. SUFFICES ASSUME NEW t \in Tickers, tick[t].watch = w, WebhookArrives(t)
                 PROVE  FALSE
    BY SeenCauses
  <2>2. tick'[t].stage = "post" /\ tick'[t].heard /\ tick'[t].watch = w
    BY <2>1, ArrivesDoes DEF WebhookArrives
  <2>3. QED
    BY <2>2 DEF HeardAt
<1>3. CASE \E t \in Tickers : tick[t].watch = w /\ WebhookAcknowledged(t)
  <2>1. PICK t \in Tickers : tick[t].watch = w /\ WebhookAcknowledged(t)
    BY <1>3
  <2>2. tick[t].stage = "post" /\ tick[t].heard /\ db'[w].delivered = tick[t].snap
    BY <2>1, WebhookAcknowledgedDoes, Zenon
  <2>3. seen[w].sum = Amount(tick[t].snap)
    BY <2>1, <2>2 DEF SumInv
  <2>4. QED
    BY <1>2, <2>2, <2>3
<1>4. CASE ~\E t \in Tickers : tick[t].watch = w /\ WebhookAcknowledged(t)
  <2>1. ~HeardAt(w, "post")
    <3>1. SUFFICES ASSUME NEW t \in Tickers, tick[t].stage = "post", tick[t].heard,
                          tick[t].watch = w
                   PROVE  FALSE
      BY DEF HeardAt
    <3>2. tick'[t] = tick[t]
      BY <1>4, <3>1, HeardEnds
    <3>3. QED
      BY <3>1, <3>2 DEF HeardAt
  <2>2. CASE \E t \in Tickers : tick[t].watch = w /\ WebhookFails(t)
    <3>1. PICK t \in Tickers : tick[t].watch = w /\ WebhookFails(t)
      BY <2>2
    <3>2. Writes(w, {"attempts", "dead"})
      BY <3>1, WebhookFailsDoes, Zenon
    <3>3. Exists(w) /\ db'[w].delivered = db[w].delivered
      BY <3>2 DEF Writes, Alike, Columns
    <3>4. QED
      BY <1>2, <2>1, <3>3 DEF SumInv
  <2>3. CASE db[w] = Unborn /\ db'[w] = NewRow(clock)
    <3>1. db'[w].delivered = NoSnap
      BY <1>1, <2>3, NewRowForReceivers
    <3>2. seen[w].sum = 0
      BY <2>3 DEF SumInv
    <3>3. QED
      BY <1>2, <3>1, <3>2 DEF Amount
  <2>4. CASE Exists(w) /\ db'[w].delivered = db[w].delivered
    BY <1>2, <2>1, <2>4 DEF SumInv
  <2>5. QED
    BY <1>4, <2>2, <2>3, <2>4, DeliveryColumns
<1>5. QED
  BY <1>3, <1>4

\* While no answer is lost after the receiver acted, a receiver that adds up the deltas
\* it is sent arrives at the balance the table says was delivered to it.
THEOREM ReceiversArriveAtTheBalance ==
  ASSUME OneTicker, NoLostReplies
  PROVE  Spec => []DeltasAddUp
<1>1. Init => SumInv
  BY DEF Init, SumInv, Exists, IdleTick
<1>2. StepInv /\ SumInv /\ [Next]_vars => (StepInv /\ SumInv)'
  <2> SUFFICES ASSUME StepInv, SumInv, [Next]_vars PROVE SumInv'
    BY InStepKept
  <2>1. ASSUME NEW w \in Watches, db'[w] = Unborn PROVE seen'[w].sum = 0
    BY <2>1, UnbornBefore, SumUnborn
  <2>2. ASSUME NEW t \in Tickers, tick'[t].stage = "post", tick'[t].heard
        PROVE  seen'[tick'[t].watch].sum = Amount(tick'[t].snap)
    BY <2>2, SumHeard
  <2>3. ASSUME NEW w \in Watches, Exists(w)', ~HeardAt(w, "post")'
        PROVE  seen'[w].sum = Amount(db'[w].delivered)
    BY <2>3, SumDelivered
  <2>4. QED
    BY <2>1, <2>2, <2>3 DEF SumInv
<1>3. SumInv => DeltasAddUp
  BY DEF SumInv, DeltasAddUp, HeardAt
<1>4. QED
  BY <1>1, <1>2, <1>3, InStepInit, PTL DEF Spec

-----------------------------------------------------------------------------
(* One warning per crossing *)

\* A latch that is not set means that no warning was acknowledged, and a tick only warns
\* of a watch below the threshold whose latch is not set.
WarnInv ==
  /\ \A w \in Watches : seen[w].warnings <= 1
  /\ \A w \in Watches : db[w] = Unborn => seen[w].warnings = 0
  /\ \A w \in Watches : Exists(w) /\ ~db[w].warned /\ ~HeardAt(w, "warn")
                          => seen[w].warnings = 0
  /\ \A w \in Watches : Exists(w) /\ db[w].credit > LowThreshold => ~db[w].warned
  /\ \A t \in Tickers : tick[t].stage = "warn"
                          => ~tick[t].row.warned /\ tick[t].row.credit <= LowThreshold

\* Charging for something leaves no more than there was.
LEMMA LessIsLeft ==
  ASSUME NEW credit \in Nat, NEW charge \in Nat
  PROVE  AtLeastZero(credit - charge) <= credit
BY DEF AtLeastZero

\* A tick warns of what it has in hand.
LEMMA WarnsLow ==
  ASSUME OneTicker, StepInv, WarnInv, [Next]_vars, NEW t \in Tickers,
         tick'[t].stage = "warn"
  PROVE  ~tick'[t].row.warned /\ tick'[t].row.credit <= LowThreshold
<1>1. ~(PollFound(t) \/ FirstPollNotFound(t))
  <2>1. SUFFICES ASSUME PollFound(t) \/ FirstPollNotFound(t) PROVE tick'[t].stage # "warn"
    OBVIOUS
  <2>2. Working(tick[t]) /\ tick[t].stage \notin {"warn", "post"}
    BY <2>1, PollDoes
  <2>3. PICK snap \in Snapshot \cup {NoSnap} : Judge(t, snap)
    BY <2>1, PollDoes
  <2>4. QED
    BY <2>2, <2>3, JudgeDoes
<1>2. ASSUME NEW w \in Watches, TakeRow(t, w)
      PROVE  ~tick'[t].row.warned /\ tick'[t].row.credit <= LowThreshold
  <2>1. LowCreditDue(tick'[t].row)
    BY <1>2, TakeRowDoes, Zenon
  <2>2. QED
    BY <2>1 DEF LowCreditDue
<1>3. CASE WarningArrives(t) \/ WebhookArrives(t)
  <2>1. tick[t].stage = "warn" /\ tick'[t].row = tick[t].row
    BY <1>3, ArrivesDoes
  <2>2. QED
    BY <2>1 DEF WarnInv
<1>4. CASE tick'[t] = tick[t]
  BY <1>4 DEF WarnInv
<1>5. QED
  BY <1>1, <1>2, <1>3, <1>4, TickCauses

\* The warning columns of a row change with a payment, the acknowledgement of a warning
\* and, the credit downwards, with a charge.
LEMMA WarnColumns ==
  ASSUME TopUpWhen = "quiet", StepInv, [Next]_vars, NEW w \in Watches, Exists(w)',
         ~\E amount \in TopUpAmounts : TopUp(w, amount),
         ~\E t \in Tickers : tick[t].watch = w /\ WarningAcknowledged(t)
  PROVE  \/ db[w] = Unborn /\ db'[w] = NewRow(clock)
         \/ Exists(w) /\ db'[w].warned = db[w].warned /\ db'[w].credit <= db[w].credit
<1> DEFINE Kept == /\ Exists(w) /\ db'[w].warned = db[w].warned
                   /\ db'[w].credit <= db[w].credit
<1>1. TypeInv
  BY DEF StepInv, PaidInv
<1>2. CASE Exists(w) /\ db'[w] = db[w]
  BY <1>1, <1>2, RowNumbers
<1>3. ASSUME NEW but, Writes(w, but), "warned" \notin but, "credit" \notin but
      PROVE  Kept
  <2>1. Exists(w) /\ db'[w].warned = db[w].warned
    BY <1>3 DEF Writes, Alike, Columns
  <2>2. db'[w].credit = db[w].credit
    BY <1>3 DEF Writes, Alike, Columns
  <2>3. db[w].credit \in Nat
    BY <1>1, <2>1, RowNumbers
  <2>4. QED
    BY <2>1, <2>2, <2>3
<1>4. ASSUME NEW but, Writes(w, but), "warned" \notin but,
             NEW charge \in Nat, db'[w].credit = AtLeastZero(db[w].credit - charge)
      PROVE  Kept
  <2>1. Exists(w) /\ db'[w].warned = db[w].warned
    BY <1>4 DEF Writes, Alike, Columns
  <2>2. db[w].credit \in Nat
    BY <1>1, <2>1, RowNumbers
  <2>3. AtLeastZero(db[w].credit - charge) <= db[w].credit
    BY <2>2, LessIsLeft
  <2>4. db'[w].credit <= db[w].credit
    BY <1>4, <2>3, Zenon
  <2>5. QED
    BY <2>1, <2>4
<1>5. ASSUME ChargesDay(w) PROVE Kept
  <2>1. /\ Writes(w, {"credit", "billed", "lastBilled", "expires"})
        /\ DayChargeDue(db[w], clock) \in Nat
        /\ db'[w].credit = AtLeastZero(db[w].credit - DayChargeDue(db[w], clock))
    BY <1>5 DEF ChargesDay
  <2>2. QED
    BY <1>4, <2>1
<1>6. ASSUME ChargesCall(w) PROVE Kept
  <2>1. /\ Writes(w, {"delivered", "attempts", "deliveries", "credit", "billed", "expires"})
        /\ CallRate \in Nat
        /\ db'[w].credit = AtLeastZero(db[w].credit - CallRate)
    BY <1>6, MeterAssumption DEF ChargesCall
  <2>2. QED
    BY <1>4, <2>1
<1> HIDE DEF Kept
<1>7. ASSUME NEW t \in Tickers, TakeRow(t, w) PROVE Kept \/ (Exists(w) /\ db'[w] = db[w])
  <2>1. ChargesDay(w) \/ UNCHANGED db
    BY <1>7, TakeRowTable
  <2>2. Exists(w)
    BY <2>1 DEF ChargesDay, Writes, Exists
  <2>3. QED
    BY <1>5, <2>1, <2>2
<1>8. ASSUME NEW t \in Tickers, tick[t].watch = w,
             \/ WebhookAcknowledged(t) \/ WebhookFails(t)
             \/ PollNotFound(t) \/ \E j \in JobIds : StartReply(t, j)
      PROVE  Kept
  <2>1. CASE WebhookAcknowledged(t)
    BY <1>6, <1>8, <2>1, WebhookAcknowledgedTable
  <2>2. CASE WebhookFails(t)
    <3>1. Writes(w, {"attempts", "dead"})
      BY <1>8, <2>2, WebhookFailsDoes, Zenon
    <3>2. QED
      BY <1>3, <3>1
  <2>3. CASE PollNotFound(t) \/ \E j \in JobIds : StartReply(t, j)
    <3>1. Writes(w, {"job"})
      BY <1>8, <2>3, NewJobDoes
    <3>2. QED
      BY <1>3, <3>1
  <2>4. QED
    BY <1>8, <2>1, <2>2, <2>3
<1>9. CASE Writes(w, {"cancelled"}) \/ Writes(w, {"known"})
  BY <1>3, <1>9 DEF Kept
<1>10. ~TopUpWrite
  BY TopUpWriteDoes
<1>11. CASE db[w] = Unborn /\ db'[w] = NewRow(clock)
  BY <1>11
<1>12. CASE Kept
  BY <1>12 DEF Kept
<1>13. QED
  BY <1>2, <1>7, <1>8, <1>9, <1>10, <1>11, <1>12, RowCauses

\* The count of the warnings keeps step with the latch.
LEMMA WarningsKept ==
  ASSUME OneTicker, TopUpWhen = "quiet", NoLostReplies, StepInv, WarnInv, [Next]_vars,
         NEW w \in Watches
  PROVE  /\ seen'[w].warnings <= 1
         /\ db'[w] = Unborn => seen'[w].warnings = 0
         /\ Exists(w)' /\ ~db'[w].warned /\ ~HeardAt(w, "warn")' => seen'[w].warnings = 0
         /\ Exists(w)' /\ db'[w].credit > LowThreshold => ~db'[w].warned
<1>1. TypeInv /\ TypeInv' /\ clock \in Nat /\ LowThreshold \in Nat
  BY PaidStep, MeterAssumption DEF StepInv, PaidInv, TypeInv, CountType
<1>2. ~TopUpWrite
  BY TopUpWriteDoes
<1>3. CASE \E amount \in TopUpAmounts : TopUp(w, amount)
  <2>1. PICK amount \in TopUpAmounts : TopUp(w, amount)
    BY <1>3
  <2>2. /\ Writes(w, {"credit", "topups", "expires", "warned", "dead"})
        /\ db'[w].credit = db[w].credit + amount
        /\ db'[w].warned = (db[w].warned /\ db'[w].credit <= LowThreshold)
    BY <2>1, TopUpDoes
  <2>3. Exists(w) /\ db'[w] # Unborn
    BY <1>1, <2>2, WrittenRow DEF Writes
  <2>4. db'[w].credit \in Nat
    BY <1>1, <2>2, RowFields DEF Writes
  <2>5. /\ seen' = SeenToppedUp(w, amount, db[w].credit + amount)
        /\ \A t \in Tickers : tick[t].stage = "idle"
    BY <2>1 DEF TopUp
  <2>6. seen'[w].warnings = IF db'[w].credit > LowThreshold THEN 0 ELSE seen[w].warnings
    BY <2>2, <2>5, ToppedUpSeen
  <2>7. ~HeardAt(w, "warn")
    BY <2>5 DEF HeardAt
  <2>8. CASE db'[w].credit > LowThreshold
    <3>1. ~(db'[w].credit <= LowThreshold)
      BY <1>1, <2>4, <2>8
    <3>2. ~db'[w].warned
      BY <2>2, <3>1, Zenon
    <3>3. seen'[w].warnings = 0
      BY <2>6, <2>8
    <3>4. QED
      BY <3>2, <3>3
  <2>9. CASE ~(db'[w].credit > LowThreshold)
    <3>1. db'[w].credit <= LowThreshold
      BY <1>1, <2>4, <2>9
    <3>2. ~db'[w].warned => ~db[w].warned
      BY <2>2, <3>1, Zenon
    <3>3. seen'[w].warnings = seen[w].warnings
      BY <2>6, <2>9
    <3>4. QED
      BY <2>3, <2>7, <2>9, <3>2, <3>3 DEF WarnInv
  <2>10. QED
    BY <2>8, <2>9
<1>4. CASE \E t \in Tickers : tick[t].watch = w /\ WarningAcknowledged(t)
  <2>1. PICK t \in Tickers : tick[t].watch = w /\ WarningAcknowledged(t)
    BY <1>4
  <2>2. /\ Working(tick[t]) /\ tick[t].stage = "warn" /\ Writes(w, {"warned"})
        /\ db'[w].warned = TRUE
    BY <2>1, WarningAcknowledgedDoes
  <2>3. seen'[w].warnings = seen[w].warnings
    BY <2>1 DEF WarningAcknowledged
  <2>4. db'[w] # Unborn
    BY <1>1, <2>2, WrittenRow
  <2>5. db'[w].credit = tick[t].row.credit
    <3>1. db'[w].credit = db[w].credit
      BY <2>2 DEF Writes, Alike, Columns
    <3>2. tick[t].row.credit = db[w].credit
      BY <2>1, <2>2, AtWork DEF Same
    <3>3. QED
      BY <3>1, <3>2
  <2>6. ~(db'[w].credit > LowThreshold)
    <3>1. tick[t].row.credit <= LowThreshold
      BY <2>2 DEF WarnInv
    <3>2. tick[t].row.credit \in Nat
      BY <2>2, AtWork, RowFields
    <3>3. QED
      BY <1>1, <2>5, <3>1, <3>2
  <2>7. QED
    BY <2>2, <2>3, <2>4, <2>6 DEF WarnInv
<1>5. CASE /\ ~\E amount \in TopUpAmounts : TopUp(w, amount)
           /\ ~\E t \in Tickers : tick[t].watch = w /\ WarningAcknowledged(t)
  <2>1. Exists(w)' => \/ db[w] = Unborn /\ db'[w] = NewRow(clock)
                      \/ /\ Exists(w) /\ db'[w].warned = db[w].warned
                         /\ db'[w].credit <= db[w].credit
    BY <1>5, WarnColumns
  <2>2. ASSUME Exists(w)', db'[w].credit > LowThreshold PROVE ~db'[w].warned
    <3>1. CASE db'[w] = NewRow(clock)
      <4>1. NewRow(clock).warned = FALSE
        BY <1>1, NewRowForReceivers
      <4>2. QED
        BY <3>1, <4>1
    <3>2. CASE Exists(w) /\ db'[w].warned = db[w].warned /\ db'[w].credit <= db[w].credit
      <4>1. db[w].credit \in Nat /\ db'[w].credit \in Nat
        <5>1. db[w].credit \in Nat
          BY <1>1, <3>2, RowNumbers
        <5>2. db'[w] \in Row
          BY <1>1, <2>2, RowIn DEF TypeInv, DbType, Exists
        <5>3. QED
          BY <5>1, <5>2, RowFields
      <4>2. db[w].credit > LowThreshold
        BY <1>1, <2>2, <3>2, <4>1
      <4>3. QED
        BY <3>2, <4>2 DEF WarnInv
    <3>3. QED
      BY <2>1, <2>2, <3>1, <3>2
  <2>3. CASE \E t \in Tickers : tick[t].watch = w /\ WarningArrives(t)
    <3>1. PICK t \in Tickers : tick[t].watch = w /\ WarningArrives(t)
      BY <2>3
    <3>2. /\ Working(tick[t]) /\ tick[t].stage = "warn" /\ ~tick[t].heard /\ UNCHANGED db
          /\ tick'[t].stage = "warn" /\ tick'[t].heard /\ tick'[t].watch = w
      BY <3>1, ArrivesDoes DEF WarningArrives
    <3>3. Exists(w) /\ ~db[w].warned
      <4>1. Exists(w) /\ tick[t].row.warned = db[w].warned
        BY <3>1, <3>2, AtWork DEF Same
      <4>2. QED
        BY <3>2, <4>1 DEF WarnInv
    <3>4. ~HeardAt(w, "warn") /\ HeardAt(w, "warn")'
      BY <3>2 DEF HeardAt, OneTicker
    <3>5. seen[w].warnings = 0
      BY <3>3, <3>4 DEF WarnInv
    <3>6. seen'[w].warnings = Least(2, seen[w].warnings + 1)
      BY <3>1, WarningArrivesSeen, Zenon
    <3>7. seen'[w].warnings <= 1
      BY <3>5, <3>6 DEF Least
    <3>8. db'[w] # Unborn
      BY <3>2, <3>3 DEF Exists
    <3>9. QED
      BY <2>2, <3>4, <3>7, <3>8
  <2>4. CASE ~\E t \in Tickers : tick[t].watch = w /\ WarningArrives(t)
    <3>1. seen'[w].warnings = seen[w].warnings
      BY <1>2, <1>5, <2>4, SeenCauses
    <3>2. db'[w] = Unborn => db[w] = Unborn
      BY UnbornBefore
    <3>3. ASSUME ~HeardAt(w, "warn")' PROVE ~HeardAt(w, "warn")
      <4>1. SUFFICES ASSUME NEW t \in Tickers, tick[t].stage = "warn", tick[t].heard,
                            tick[t].watch = w
                     PROVE  FALSE
        BY DEF HeardAt
      <4>2. tick'[t] = tick[t]
        BY <1>5, <4>1, HeardEnds
      <4>3. QED
        BY <3>3, <4>1, <4>2 DEF HeardAt
    <3>4. ASSUME Exists(w)', ~db'[w].warned, ~HeardAt(w, "warn")'
          PROVE  seen[w].warnings = 0
      BY <2>1, <3>3, <3>4 DEF WarnInv
    <3>5. QED
      BY <2>2, <3>1, <3>2, <3>4 DEF WarnInv
  <2>5. QED
    BY <2>3, <2>4
<1>6. QED
  BY <1>3, <1>4, <1>5

\* While top-ups keep out of ticks and no answer is lost after the receiver acted, a
\* crossing of the threshold is announced once, and a watch back above it can be warned
\* again.
THEOREM WarnedOncePerCrossing ==
  ASSUME OneTicker, TopUpWhen = "quiet", NoLostReplies
  PROVE  Spec => []OneWarningPerCrossing
<1>1. Init => WarnInv
  BY DEF Init, WarnInv, Exists, IdleTick
<1>2. StepInv /\ WarnInv /\ [Next]_vars => (StepInv /\ WarnInv)'
  <2> SUFFICES ASSUME StepInv, WarnInv, [Next]_vars PROVE WarnInv'
    BY InStepKept
  <2>1. ASSUME NEW w \in Watches
        PROVE  /\ seen'[w].warnings <= 1
               /\ db'[w] = Unborn => seen'[w].warnings = 0
               /\ Exists(w)' /\ ~db'[w].warned /\ ~HeardAt(w, "warn")'
                    => seen'[w].warnings = 0
               /\ Exists(w)' /\ db'[w].credit > LowThreshold => ~db'[w].warned
    BY WarningsKept
  <2>2. ASSUME NEW t \in Tickers, tick'[t].stage = "warn"
        PROVE  ~tick'[t].row.warned /\ tick'[t].row.credit <= LowThreshold
    BY <2>2, WarnsLow
  <2>3. QED
    BY <2>1, <2>2 DEF WarnInv
<1>3. WarnInv => OneWarningPerCrossing
  BY DEF WarnInv, OneWarningPerCrossing
<1>4. QED
  BY <1>1, <1>2, <1>3, InStepInit, PTL DEF Spec

-----------------------------------------------------------------------------
(* A scan that starts over moves no money *)

\* A snapshot tells the balance at its height, and the chain has that height.
Truthful(snap, top) == Amount(snap) = BalanceAt[snap.height + 1] /\ snap.height <= top

\* Scans tell the truth; a completed one has got as far as what was delivered to a watch
\* it works for, and is at least as far as the snapshot of it a tick is about to announce.
ScanInv ==
  /\ \A j \in JobIds : jobs[j] # Gone =>
       Truthful(jobs[j], tip) /\ (jobs[j].status = "completed" => ~jobs[j].error)
  /\ \A w \in Watches : Exists(w) /\ db[w].delivered # NoSnap =>
       /\ Truthful(db[w].delivered, tip)
       /\ \A j \in JobIds : db[w].job = j /\ jobs[j] # Gone /\ jobs[j].status = "completed"
            => db[w].delivered.height <= jobs[j].height
  /\ \A t \in Tickers : tick[t].stage = "post" =>
       /\ tick[t].snap # NoSnap /\ Truthful(tick[t].snap, tip)
       /\ tick[t].row.job \in JobIds
       /\ jobs[tick[t].row.job] # Gone /\ ~jobs[tick[t].row.job].error
            => tick[t].snap.height <= jobs[tick[t].row.job].height
  /\ RestartsMoveNoMoney

\* What a snapshot is made of.
LEMMA SnapshotFields ==
  ASSUME NEW snap \in Snapshot
  PROVE  /\ snap # NoSnap /\ snap.height \in Nat /\ snap.height <= MaxHeight
         /\ snap.error \in BOOLEAN /\ MaxHeight \in Nat
<1>1. MaxHeight \in Nat
  BY PollerAssumption DEF MaxHeight
<1>2. QED
  BY <1>1, AbsenceAssumption DEF Snapshot

\* The chain only grows.
LEMMA TipSteps ==
  ASSUME TypeInv, [Next]_vars
  PROVE  tip \in Nat /\ tip' \in Nat /\ tip <= tip'
<1>1. tip \in Nat
  BY DEF TypeInv, CountType
<1>2. Mine \/ tip' = tip
  BY Zenon DEF Next, vars, Rest, CreateWatch, CancelWatch, TopUp, TopUpRead, TopUpWrite,
     TickBegin, TickStep, TakeRow, WarningArrives, WarningAcknowledged, PollFound,
     PollNotFound, FirstPollNotFound, StartReply, WebhookArrives, WebhookAcknowledged,
     TickEnd, TickFault, CallThrows, WarningFails, WebhookFails, Crash, Upstream, JobScans,
     JobFails, JobLost, JobEvicted, Advance
<1>3. QED
  BY <1>1, <1>2 DEF Mine

\* A truth stays true.
LEMMA TrueLater ==
  ASSUME NEW snap \in Snapshot, NEW top \in Nat, NEW later \in Nat, top <= later,
         Truthful(snap, top)
  PROVE  Truthful(snap, later)
<1>1. snap.height <= later
  BY SnapshotFields DEF Truthful
<1>2. QED
  BY <1>1 DEF Truthful

\* What one step makes of a job that is there afterwards.
LEMMA JobCauses ==
  ASSUME StepInv, [Next]_vars, NEW j \in JobIds, jobs'[j] # Gone
  PROVE  \/ jobs'[j] = jobs[j]
         \/ jobs'[j] = FreshJob /\ \E t \in Tickers : StartReply(t, j)
         \/ JobScans(j) \/ JobFails(j)
<1>1. jobs \in [JobIds -> Snapshot \cup {Gone}]
  BY DEF StepInv, PaidInv, TypeInv, JobsType
<1>2. CASE UNCHANGED jobs
  BY <1>2
<1>3. ASSUME NEW t \in Tickers, NEW i \in JobIds, StartReply(t, i)
      PROVE  jobs'[j] = jobs[j] \/ (jobs'[j] = FreshJob /\ StartReply(t, j))
  BY <1>1, <1>3 DEF StartReply
<1>4. ASSUME NEW i \in JobIds, JobScans(i) \/ JobFails(i) \/ JobLost(i) \/ JobEvicted(i)
      PROVE  jobs'[j] = jobs[j] \/ JobScans(j) \/ JobFails(j)
  <2>1. CASE i = j
    BY <1>1, <1>4, <2>1 DEF JobLost, JobEvicted
  <2>2. CASE i # j
    BY <1>1, <1>4, <2>2 DEF JobScans, JobFails, JobLost, JobEvicted
  <2>3. QED
    BY <2>1, <2>2
<1>5. UNCHANGED jobs \/ (\E t \in Tickers, i \in JobIds : StartReply(t, i)) \/ Upstream
  BY DEF Next, vars, Rest, CreateWatch, CancelWatch, TopUp, TopUpRead, TopUpWrite, TickBegin,
     TickStep, TakeRow, WarningArrives, WarningAcknowledged, PollFound, PollNotFound,
     FirstPollNotFound, WebhookArrives, WebhookAcknowledged, TickEnd, TickFault,
     CallThrows, WarningFails, WebhookFails, Crash, Mine, Advance
<1>6. QED
  BY <1>2, <1>3, <1>4, <1>5 DEF Upstream

\* A job that has just been started is at the bottom of the chain, where there is nothing.
LEMMA FreshJobTrue ==
  ASSUME NEW top \in Nat
  PROVE  /\ FreshJob \in Snapshot /\ Truthful(FreshJob, top)
         /\ FreshJob.status # "completed" /\ FreshJob.height = 0
<1>1. MaxHeight \in Nat
  BY PollerAssumption DEF MaxHeight
<1>2. /\ FreshJob.height = 0 /\ FreshJob.balance = 0 /\ FreshJob.status = "running"
  BY DEF FreshJob
<1>3. FreshJob \in Snapshot
  BY <1>1 DEF FreshJob, Snapshot
<1>4. Amount(FreshJob) = 0
  BY <1>2 DEF Amount
<1>5. QED
  BY <1>2, <1>3, <1>4, PollerAssumption DEF Truthful

\* A job that scans one block sees the balance at that block, and has completed only if
\* that block is the last.
LEMMA JobScansDoes ==
  ASSUME StepInv, NEW j \in JobIds, JobScans(j)
  PROVE  /\ jobs[j] \in Snapshot /\ jobs[j] # Gone /\ ~jobs[j].error /\ UNCHANGED tip
         /\ Truthful(jobs'[j], tip) /\ ~jobs'[j].error
         /\ jobs'[j].height = jobs[j].height + 1
         /\ jobs'[j].status = "completed" => jobs'[j].height = tip
<1> DEFINE h == jobs[j].height
           b == BalanceAt[h + 2]
           s == IF h + 1 = tip THEN "completed" ELSE "running"
           new == [status |-> s, height |-> h + 1, balance |-> b, error |-> FALSE]
<1>1. jobs \in [JobIds -> Snapshot \cup {Gone}] /\ tip \in 0 .. MaxHeight
  BY DEF StepInv, PaidInv, TypeInv, JobsType, CountType
<1>2. /\ jobs[j] \in Snapshot /\ jobs[j] # Gone /\ ~jobs[j].error /\ h < tip /\ UNCHANGED tip
      /\ jobs' = [jobs EXCEPT ![j] = new]
  BY <1>1 DEF JobScans
<1>3. jobs'[j] = new
  BY <1>1, <1>2
<1>4. h \in Nat /\ MaxHeight \in Nat /\ tip \in Nat /\ tip <= MaxHeight
  BY <1>1, <1>2, SnapshotFields
<1>5. b \in Nat
  <2>1. h < tip
    BY <1>2
  <2>2. BalanceAt \in Seq(Nat) /\ MaxHeight = Len(BalanceAt) - 1 /\ Len(BalanceAt) \in Nat
    BY PollerAssumption DEF MaxHeight
  <2> HIDE DEF h
  <2>3. h + 2 \in 1 .. Len(BalanceAt)
    BY <1>4, <2>1, <2>2
  <2>4. QED
    BY <2>2, <2>3
<1>6. s \in {"running", "completed"} /\ (s = "completed" => h + 1 = tip)
  OBVIOUS
<1> HIDE DEF b, s
<1>7. /\ new.status = s /\ new.height = h + 1 /\ new.balance = b /\ new.error = FALSE
      /\ new \in Snapshot
  BY <1>2, <1>4, <1>5, <1>6 DEF Snapshot
<1> HIDE DEF new
<1>8. Amount(new) = b
  <2>1. new # NoSnap /\ new.balance # NoBalance
    BY <1>5, <1>7, SnapshotFields DEF NoBalance
  <2>2. QED
    BY <1>7, <2>1 DEF Amount
<1>9. new.height + 1 = h + 2 /\ new.height <= tip
  BY <1>2, <1>4, <1>7
<1>10. Truthful(new, tip)
  BY <1>8, <1>9 DEF Truthful, b
<1>11. QED
  BY <1>2, <1>3, <1>6, <1>7, <1>10

\* A job that fails says so, and tells nothing new.
LEMMA JobFailsDoes ==
  ASSUME StepInv, ScanInv, NEW j \in JobIds, JobFails(j)
  PROVE  /\ Truthful(jobs'[j], tip) /\ jobs'[j].error /\ jobs'[j].status # "completed"
         /\ UNCHANGED tip
<1>1. jobs \in [JobIds -> Snapshot \cup {Gone}] /\ tip \in Nat
  BY DEF StepInv, PaidInv, TypeInv, JobsType, CountType
<1>2. jobs[j] \in Snapshot /\ jobs[j] # Gone /\ UNCHANGED tip
  BY <1>1 DEF JobFails
<1> DEFINE new == [jobs[j] EXCEPT !.status = "failed", !.error = TRUE]
<1>3. jobs'[j] = BareFailure \/ jobs'[j] = new
  BY <1>1 DEF JobFails
<1>4. CASE jobs'[j] = BareFailure
  <2>1. /\ BareFailure.height = 0 /\ BareFailure.error = TRUE /\ BareFailure.status = "failed"
        /\ BareFailure.balance \in {0, NoBalance}
    BY DEF BareFailure
  <2>2. Amount(BareFailure) = 0
    BY <2>1 DEF Amount
  <2>3. QED
    BY <1>1, <1>2, <1>4, <2>1, <2>2, PollerAssumption DEF Truthful
<1>5. CASE jobs'[j] = new
  <2>1. /\ new.height = jobs[j].height /\ new.balance = jobs[j].balance
        /\ new.error = TRUE /\ new.status = "failed"
    BY <1>2, Zenon DEF Snapshot
  <2>2. new \in Snapshot
    BY <1>2 DEF Snapshot
  <2> HIDE DEF new
  <2>3. Amount(new) = Amount(jobs[j])
    BY <1>2, <2>1, <2>2, SnapshotFields DEF Amount
  <2>4. Truthful(jobs[j], tip)
    BY <1>2 DEF ScanInv
  <2>5. QED
    BY <1>2, <1>5, <2>1, <2>3, <2>4 DEF Truthful
<1>6. QED
  BY <1>3, <1>4, <1>5

\* Scans go on telling the truth.
LEMMA JobsTrue ==
  ASSUME StepInv, ScanInv, [Next]_vars, NEW j \in JobIds, jobs'[j] # Gone
  PROVE  /\ Truthful(jobs'[j], tip')
         /\ jobs'[j].status = "completed" =>
              ~jobs'[j].error /\ (jobs'[j] = jobs[j] \/ jobs'[j].height = tip')
<1>1. /\ TypeInv /\ jobs \in [JobIds -> Snapshot \cup {Gone}]
      /\ tip \in Nat /\ tip' \in Nat /\ tip <= tip'
  BY TipSteps DEF StepInv, PaidInv, TypeInv, JobsType
<1>2. CASE jobs'[j] = jobs[j]
  <2>1. jobs[j] \in Snapshot /\ Truthful(jobs[j], tip)
    BY <1>1, <1>2 DEF ScanInv
  <2>2. Truthful(jobs[j], tip')
    BY <1>1, <2>1, TrueLater
  <2>3. QED
    BY <1>2, <2>2 DEF ScanInv
<1>3. CASE jobs'[j] = FreshJob
  BY <1>1, <1>3, FreshJobTrue
<1>4. CASE JobScans(j)
  BY <1>4, JobScansDoes
<1>5. CASE JobFails(j)
  BY <1>5, JobFailsDoes
<1>6. QED
  BY <1>2, <1>3, <1>4, <1>5, JobCauses

\* The job of a row is there for as long as nobody forgets or starts one for it.
LEMMA JobColumn ==
  ASSUME StepInv, [Next]_vars, NEW w \in Watches, Exists(w)'
  PROVE  \/ db'[w] = NewRow(clock)
         \/ Exists(w) /\ db'[w].job = db[w].job
         \/ db'[w].job = NoJob
         \/ db'[w].job \in JobIds /\ jobs'[db'[w].job] = FreshJob
<1> DEFINE Kept == Exists(w) /\ db'[w].job = db[w].job
<1>1. ASSUME NEW but, Writes(w, but), "job" \notin but PROVE Kept
  BY <1>1 DEF Writes, Alike, Columns
<1>2. CASE Exists(w) /\ db'[w] = db[w]
  BY <1>2
<1> HIDE DEF Kept
<1>3. CASE Writes(w, {"cancelled"}) \/ Writes(w, {"known"})
  BY <1>1, <1>3 DEF Kept
<1>4. ASSUME \/ \E amount \in TopUpAmounts : TopUp(w, amount)
             \/ TopUpWrite /\ Writes(w, {"credit", "topups", "expires", "warned", "dead"})
      PROVE  Kept
  <2>1. Writes(w, {"credit", "topups", "expires", "warned", "dead"})
    BY <1>4, TopUpDoes
  <2>2. QED
    BY <1>1, <2>1
<1>5. ASSUME NEW t \in Tickers, TakeRow(t, w) PROVE Kept \/ (Exists(w) /\ db'[w] = db[w])
  <2>1. Writes(w, {"credit", "billed", "lastBilled", "expires"}) \/ UNCHANGED db
    BY <1>5, TakeRowTable DEF ChargesDay
  <2>2. Exists(w)
    BY <2>1 DEF Writes, Exists
  <2>3. QED
    BY <1>1, <2>1, <2>2
<1>6. ASSUME NEW t \in Tickers, tick[t].watch = w,
             WarningAcknowledged(t) \/ WebhookAcknowledged(t) \/ WebhookFails(t)
      PROVE  Kept
  <2>1. \/ Writes(w, {"warned"}) \/ Writes(w, {"attempts", "dead"})
        \/ Writes(w, {"delivered", "attempts", "deliveries", "credit", "billed", "expires"})
    <3>1. CASE WarningAcknowledged(t)
      BY <1>6, <3>1, WarningAcknowledgedDoes
    <3>2. CASE WebhookAcknowledged(t)
      BY <1>6, <3>2, WebhookAcknowledgedDoes, Zenon
    <3>3. CASE WebhookFails(t)
      BY <1>6, <3>3, WebhookFailsDoes, Zenon
    <3>4. QED
      BY <1>6, <3>1, <3>2, <3>3
  <2>2. QED
    BY <1>1, <2>1
<1>7. ASSUME NEW t \in Tickers, tick[t].watch = w,
             PollNotFound(t) \/ \E j \in JobIds : StartReply(t, j)
      PROVE  db'[w].job = NoJob \/ (db'[w].job \in JobIds /\ jobs'[db'[w].job] = FreshJob)
  <2>1. \/ db'[w].job = NoJob
        \/ \E j \in JobIds : jobs' = [jobs EXCEPT ![j] = FreshJob] /\ db'[w].job = j
    BY <1>7, NewJobDoes
  <2>2. jobs \in [JobIds -> Snapshot \cup {Gone}]
    BY DEF StepInv, PaidInv, TypeInv, JobsType
  <2>3. QED
    BY <2>1, <2>2
<1>8. QED
  BY <1>2, <1>3, <1>4, <1>5, <1>6, <1>7, RowCauses DEF Kept

\* What a tick is about to announce is true and no further than its job, and what is
\* delivered is true.
LEMMA AnnouncedIs ==
  ASSUME StepInv, ScanInv, NEW t \in Tickers, WebhookAcknowledged(t)
  PROVE  LET w == tick[t].watch
         IN  /\ tick[t].snap \in Snapshot /\ Truthful(tick[t].snap, tip)
             /\ db'[w].delivered = tick[t].snap
             /\ db[w].job \in JobIds
             /\ jobs[db[w].job] # Gone /\ ~jobs[db[w].job].error
                  => tick[t].snap.height <= jobs[db[w].job].height
             /\ UNCHANGED jobs
<1>1. /\ Working(tick[t]) /\ tick[t].stage = "post"
      /\ db'[tick[t].watch].delivered = tick[t].snap
  BY WebhookAcknowledgedDoes, Zenon
<1>2. tick[t] \in Tick /\ tick[t].row.job = db[tick[t].watch].job
  BY <1>1, AtWork DEF Same, TickColumns
<1>3. tick[t].snap \in Snapshot
  BY <1>1, <1>2 DEF Tick, ScanInv
<1>4. UNCHANGED jobs
  BY DEF WebhookAcknowledged
<1>5. QED
  BY <1>1, <1>2, <1>3, <1>4 DEF ScanInv

\* What is delivered stays true.
LEMMA DeliveredTrue ==
  ASSUME StepInv, ScanInv, [Next]_vars, NEW w \in Watches, Exists(w)',
         db'[w].delivered # NoSnap
  PROVE  db'[w].delivered \in Snapshot /\ Truthful(db'[w].delivered, tip')
<1>1. TypeInv /\ tip \in Nat /\ tip' \in Nat /\ tip <= tip' /\ clock \in Nat
  BY TipSteps DEF StepInv, PaidInv, TypeInv, CountType
<1>2. CASE \E t \in Tickers : tick[t].watch = w /\ WebhookAcknowledged(t)
  <2>1. PICK t \in Tickers : tick[t].watch = w /\ WebhookAcknowledged(t)
    BY <1>2
  <2>2. /\ tick[t].snap \in Snapshot /\ Truthful(tick[t].snap, tip)
        /\ db'[w].delivered = tick[t].snap
    BY <2>1, AnnouncedIs, Zenon
  <2>3. QED
    BY <1>1, <2>2, TrueLater
<1>3. ASSUME Exists(w), db'[w].delivered = db[w].delivered
      PROVE  db'[w].delivered \in Snapshot /\ Truthful(db'[w].delivered, tip')
  <2>1. db[w].delivered \in Snapshot
    BY <1>1, <1>3, RowNumbers, RowFields
  <2>2. Truthful(db[w].delivered, tip)
    BY <1>3 DEF ScanInv
  <2>3. QED
    BY <1>1, <1>3, <2>1, <2>2, TrueLater
<1>4. CASE \E t \in Tickers : tick[t].watch = w /\ WebhookFails(t)
  <2>1. Writes(w, {"attempts", "dead"})
    BY <1>4, WebhookFailsDoes, Zenon
  <2>2. Exists(w) /\ db'[w].delivered = db[w].delivered
    BY <2>1 DEF Writes, Alike, Columns
  <2>3. QED
    BY <1>3, <2>2
<1>5. CASE db'[w] = NewRow(clock)
  BY <1>1, <1>5, NewRowForReceivers
<1>6. QED
  BY <1>2, <1>3, <1>4, <1>5, DeliveryColumns

\* A completed job has got as far as what was delivered.
LEMMA CompletedFar ==
  ASSUME StepInv, ScanInv, [Next]_vars, NEW w \in Watches, Exists(w)',
         db'[w].delivered # NoSnap, NEW j \in JobIds, db'[w].job = j, jobs'[j] # Gone,
         jobs'[j].status = "completed"
  PROVE  db'[w].delivered.height <= jobs'[j].height
<1>1. TypeInv /\ clock \in Nat
  BY DEF StepInv, PaidInv, TypeInv, CountType
<1>2. CASE jobs'[j].height = tip'
  BY <1>2, DeliveredTrue DEF Truthful
<1>3. ASSUME jobs'[j] = jobs[j]
      PROVE  db'[w].delivered.height <= jobs'[j].height
  <2>1. ~jobs[j].error
    BY <1>3 DEF ScanInv
  <2>2. jobs'[j] # FreshJob
    BY FreshJobTrue, TipSteps, <1>1
  <2>3. db'[w] # NewRow(clock)
    BY <1>1, NewRowForReceivers
  <2>4. Exists(w) /\ db[w].job = j
    BY <2>2, <2>3, JobColumn, AbsenceAssumption
  <2>5. CASE \E t \in Tickers : tick[t].watch = w /\ WebhookAcknowledged(t)
    <3>1. PICK t \in Tickers : tick[t].watch = w /\ WebhookAcknowledged(t)
      BY <2>5
    <3>2. /\ db'[w].delivered = tick[t].snap
          /\ jobs[db[w].job] # Gone /\ ~jobs[db[w].job].error
                  => tick[t].snap.height <= jobs[db[w].job].height
      BY <3>1, AnnouncedIs, Zenon
    <3>3. QED
      BY <1>3, <2>1, <2>4, <3>2
  <2>6. CASE db'[w].delivered = db[w].delivered
    BY <1>3, <2>4, <2>6 DEF ScanInv
  <2>7. CASE \E t \in Tickers : tick[t].watch = w /\ WebhookFails(t)
    <3>1. Writes(w, {"attempts", "dead"})
      BY <2>7, WebhookFailsDoes, Zenon
    <3>2. db'[w].delivered = db[w].delivered
      BY <3>1 DEF Writes, Alike, Columns
    <3>3. QED
      BY <2>6, <3>2
  <2>8. QED
    BY <2>3, <2>5, <2>6, <2>7, DeliveryColumns
<1>4. QED
  BY <1>2, <1>3, JobsTrue

\* Of two snapshots known, the one a scan is measured by is no worse than the delivered one.
LEMMA BetterKnown ==
  ASSUME NEW known \in Snapshot \cup {NoSnap}, NEW delivered \in Snapshot
  PROVE  /\ PickBetterKnown(known, delivered) \in Snapshot
         /\ delivered.height <= PickBetterKnown(known, delivered).height
<1>1. delivered # NoSnap /\ delivered.height \in Nat
  BY SnapshotFields
<1>2. CASE known = NoSnap
  BY <1>1, <1>2 DEF PickBetterKnown
<1>3. CASE known # NoSnap
  <2>1. known \in Snapshot /\ known.height \in Nat
    BY <1>3, SnapshotFields
  <2>2. CASE known.height >= delivered.height
    BY <1>1, <1>3, <2>1, <2>2 DEF PickBetterKnown
  <2>3. CASE ~(known.height >= delivered.height)
    BY <1>1, <1>3, <2>1, <2>3 DEF PickBetterKnown
  <2>4. QED
    BY <2>2, <2>3
<1>4. QED
  BY <1>2, <1>3

\* A true snapshot that is not premature and changes the balance is from further up.
LEMMA NoPhantom ==
  ASSUME NEW known \in Snapshot \cup {NoSnap}, NEW before \in Snapshot, NEW snap \in Snapshot,
         NEW top, Truthful(before, top), Truthful(snap, top), ~snap.error,
         ~IsPremature(PickBetterKnown(known, before), snap),
         snap.status = "completed" => before.height <= snap.height,
         Delta(before, snap) # 0
  PROVE  snap.height > before.height
<1> DEFINE baseline == PickBetterKnown(known, before)
<1>1. /\ baseline \in Snapshot /\ before.height <= baseline.height
      /\ before.height \in Nat /\ snap.height \in Nat /\ baseline.height \in Nat
      /\ snap # NoSnap /\ baseline # NoSnap
  BY BetterKnown, SnapshotFields
<1>2. snap.height # before.height
  <2>1. SUFFICES ASSUME snap.height = before.height PROVE FALSE
    OBVIOUS
  <2>2. Amount(snap) = Amount(before)
    BY <2>1 DEF Truthful
  <2>3. Amount(snap) \in Int
    BY AmountType
  <2>4. QED
    BY <2>2, <2>3 DEF Delta
<1> HIDE DEF baseline
<1>3. CASE snap.status = "completed"
  BY <1>1, <1>2, <1>3
<1>4. CASE snap.status # "completed"
  <2>1. ~(snap.height < baseline.height)
    BY <1>1, <1>4 DEF IsPremature, baseline
  <2>2. QED
    BY <1>1, <1>2, <2>1
<1>5. QED
  BY <1>3, <1>4

\* What a tick in a delivery holds.
Announcing(k, j, top) ==
  /\ k.snap # NoSnap /\ Truthful(k.snap, top)
  /\ k.row.job \in JobIds
  /\ j[k.row.job] # Gone /\ ~j[k.row.job].error => k.snap.height <= j[k.row.job].height
  /\ ~k.snap.error /\ Delta(k.row.delivered, k.snap) # 0
       => k.row.delivered = NoSnap \/ k.snap.height > k.row.delivered.height

\* A judged snapshot is announced only if it holds.
LEMMA JudgedHolds ==
  ASSUME StepInv, ScanInv, NEW t \in Tickers, PollFound(t) \/ FirstPollNotFound(t),
         tick'[t].stage = "post"
  PROVE  Announcing(tick'[t], jobs', tip')
<1> DEFINE row == tick[t].row
           j == tick[t].row.job
           snap == IF PollFound(t) THEN jobs[j] ELSE NoSnap
           before == tick[t].row.delivered
<1>1. /\ Working(tick[t]) /\ tick[t].stage \in {"poll", "first"} /\ j \in JobIds
      /\ Judge(t, snap) /\ UNCHANGED <<jobs, tip>>
      /\ PollFound(t) => jobs[j] \in Snapshot /\ jobs[j] # Gone
  BY PollDoes DEF PollFound, FirstPollNotFound
<1>2. snap \in Snapshot \cup {NoSnap}
  BY <1>1
<1> HIDE DEF snap
<1>3. /\ tick'[t].row = row /\ snap # NoSnap /\ tick'[t].snap = snap
      /\ ~IsPremature(PickBetterKnown(row.known, row.delivered), snap)
  BY <1>1, <1>2, JudgeDoes
<1>4. snap = jobs[j] /\ jobs[j] \in Snapshot /\ jobs[j] # Gone
  BY <1>1, <1>3 DEF snap
<1>5. Truthful(snap, tip) /\ snap.height \in Nat
  BY <1>1, <1>4, SnapshotFields DEF ScanInv
<1>6. /\ tick[t].watch \in Watches /\ Exists(tick[t].watch) /\ row \in Row
      /\ before = db[tick[t].watch].delivered /\ j = db[tick[t].watch].job
  BY <1>1, AtWork DEF Same, TickColumns
<1>7. ASSUME ~snap.error, Delta(before, snap) # 0, before # NoSnap
      PROVE  snap.height > before.height
  <2>1. row.known \in Snapshot \cup {NoSnap} /\ before \in Snapshot
    BY <1>6, <1>7, RowFields
  <2>2. Truthful(before, tip)
    BY <1>6, <1>7 DEF ScanInv
  <2>3. snap.status = "completed" => before.height <= snap.height
    BY <1>1, <1>4, <1>6, <1>7 DEF ScanInv
  <2>4. ~IsPremature(PickBetterKnown(row.known, before), snap)
    BY <1>3
  <2> HIDE DEF before, row
  <2>5. QED
    BY <1>4, <1>5, <1>7, <2>1, <2>2, <2>3, <2>4, NoPhantom
<1>8. QED
  BY <1>1, <1>3, <1>4, <1>5, <1>7 DEF Announcing

\* A delivery on its way goes on holding, whatever the scanner does in the meantime.
LEMMA AnnouncingKept ==
  ASSUME OneTicker, StepInv, ScanInv, [Next]_vars, NEW t \in Tickers,
         tick[t].stage = "post", tick'[t].row = tick[t].row, tick'[t].snap = tick[t].snap
  PROVE  Announcing(tick'[t], jobs', tip')
<1> DEFINE j == tick[t].row.job
           snap == tick[t].snap
           before == tick[t].row.delivered
<1>1. /\ TypeInv /\ tip \in Nat /\ tip' \in Nat /\ tip <= tip'
      /\ jobs \in [JobIds -> Snapshot \cup {Gone}]
  BY TipSteps DEF StepInv, PaidInv, TypeInv, JobsType
<1>2. /\ snap # NoSnap /\ Truthful(snap, tip) /\ j \in JobIds
      /\ jobs[j] # Gone /\ ~jobs[j].error => snap.height <= jobs[j].height
      /\ ~snap.error /\ Delta(before, snap) # 0
           => before = NoSnap \/ snap.height > before.height
  BY DEF ScanInv, RestartsMoveNoMoney
<1>3. snap \in Snapshot /\ snap.height \in Nat
  <2>1. Working(tick[t])
    BY DEF Working, Stages
  <2>2. snap \in Snapshot
    BY <1>2, <2>1, AtWork DEF Tick
  <2>3. QED
    BY <2>2, SnapshotFields
<1>4. Truthful(snap, tip')
  BY <1>1, <1>2, <1>3, TrueLater
<1>5. ASSUME jobs'[j] # Gone, ~jobs'[j].error PROVE snap.height <= jobs'[j].height
  <2>1. ~\E u \in Tickers : StartReply(u, j)
    BY DEF OneTicker, StartReply
  <2>2. CASE jobs'[j] = jobs[j]
    BY <1>2, <1>5, <2>2
  <2>3. CASE JobScans(j)
    <3>1. /\ jobs[j] \in Snapshot /\ jobs[j] # Gone /\ ~jobs[j].error
          /\ jobs'[j].height = jobs[j].height + 1
      BY <1>2, <2>3, JobScansDoes
    <3>2. jobs[j].height \in Nat
      BY <3>1, SnapshotFields
    <3>3. QED
      BY <1>2, <1>3, <3>1, <3>2
  <2>4. ~JobFails(j)
    BY <1>2, <1>5, JobFailsDoes
  <2>5. QED
    BY <1>2, <1>5, <2>1, <2>2, <2>3, <2>4, JobCauses
<1>6. QED
  BY <1>2, <1>4, <1>5 DEF Announcing

\* So the announcements of every step hold.
LEMMA AnnouncementsHold ==
  ASSUME OneTicker, StepInv, ScanInv, [Next]_vars, NEW t \in Tickers,
         tick'[t].stage = "post"
  PROVE  Announcing(tick'[t], jobs', tip')
<1>1. CASE tick'[t] = tick[t]
  BY <1>1, AnnouncingKept
<1>2. ~\E w \in Watches : TakeRow(t, w)
  <2>1. SUFFICES ASSUME NEW w \in Watches, TakeRow(t, w) PROVE FALSE
    OBVIOUS
  <2>2. tick'[t].stage \in {"next", "warn", "poll", "start"}
    BY <2>1, TakeRowDoes, Zenon
  <2>3. QED
    BY <2>2
<1>3. CASE WarningArrives(t) \/ WebhookArrives(t)
  BY <1>3, ArrivesDoes, AnnouncingKept
<1>4. CASE PollFound(t) \/ FirstPollNotFound(t)
  BY <1>4, JudgedHolds
<1>5. QED
  BY <1>1, <1>2, <1>3, <1>4, TickCauses

\* A scan job that was lost and started over never makes the receiver see money leave or
\* come back: a change that a scan announces without an error comes from further up the
\* chain than what was delivered.  Of scans that fail it says nothing: one that reports no
\* balance is announced as a fall to zero.
THEOREM ScansStartedOverMoveNoMoney ==
  ASSUME OneTicker
  PROVE  Spec => []RestartsMoveNoMoney
<1>1. Init => ScanInv
  BY DEF Init, ScanInv, RestartsMoveNoMoney, Exists, IdleTick
<1>2. StepInv /\ ScanInv /\ [Next]_vars => (StepInv /\ ScanInv)'
  <2> SUFFICES ASSUME StepInv, ScanInv, [Next]_vars PROVE ScanInv'
    BY InStepKept
  <2>1. ASSUME NEW j \in JobIds, jobs'[j] # Gone
        PROVE  Truthful(jobs'[j], tip') /\ (jobs'[j].status = "completed" => ~jobs'[j].error)
    BY <2>1, JobsTrue
  <2>2. ASSUME NEW w \in Watches, Exists(w)', db'[w].delivered # NoSnap
        PROVE  /\ Truthful(db'[w].delivered, tip')
               /\ \A j \in JobIds : /\ db'[w].job = j /\ jobs'[j] # Gone
                                    /\ jobs'[j].status = "completed"
                    => db'[w].delivered.height <= jobs'[j].height
    BY <2>2, DeliveredTrue, CompletedFar
  <2>3. \A t \in Tickers : tick'[t].stage = "post" => Announcing(tick'[t], jobs', tip')
    BY AnnouncementsHold
  <2>4. RestartsMoveNoMoney'
    BY <2>3 DEF RestartsMoveNoMoney, Announcing
  <2>5. QED
    BY <2>1, <2>2, <2>3, <2>4 DEF ScanInv, Announcing, Truthful
<1>3. ScanInv => RestartsMoveNoMoney
  BY DEF ScanInv
<1>4. QED
  BY <1>1, <1>2, <1>3, InStepInit, PTL DEF Spec

=============================================================================
