--------------------------- MODULE TopUpQuotesProofs ---------------------------
(***************************************************************************)
(* What payers are promised, for any number of quotes, payments, workers,  *)
(* ticks and blocks.                                                       *)
(***************************************************************************)
EXTENDS TopUpQuotes, TLAPS

-----------------------------------------------------------------------------
(* With crashes and slow credits *)

Row == [status: Statuses, key: Keys \cup {NoTx}, expires: Nat, seen: Txs \cup {NoTx},
        earned: SUBSET Txs]

Claim0 == [at: Nat, credited: BOOLEAN]

Spot == [key: Keys \cup {NoTx}, height: Nat]

Local == [stage: Stages, tip: Nat, todo: SUBSET Pairs, pair: Pairs \cup {NoPair}]

\* The quote exists, and the payment matches it ...
Known(p) == quote[p[1]].status # "none" /\ Matches(p[2], p[1])

\* ... and is buried deep enough.
Confirmed(p) == Known(p) /\ Confirmations(p[2], tip) >= Required

\* A tick takes its matches from the tables, and what it credits is confirmed.
Sound(w) ==
  /\ w.tip <= tip
  /\ \A p \in w.todo : Known(p)
  /\ w.stage \in {"credit", "settle", "rollup"} => w.pair \in Pairs /\ Confirmed(w.pair)
  /\ w.stage \in {"settle", "rollup"} => applied[w.pair] >= 1

WorkersSound == \A v \in Workers : Sound(worker[v])

\* What was credited is confirmed, what is recorded as credited was, and so was the
\* payment that a settled quote has seen last, which a restart records as credited.
MoneySound ==
  \A p \in Pairs :
    /\ applied[p] > 0 => Confirmed(p)
    /\ IsCredited(p) => applied[p] >= 1
    /\ quote[p[1]].status = "settled" /\ quote[p[1]].seen = p[2] => applied[p] >= 1

QuotesInv == TypeOK /\ WorkersSound /\ MoneySound

\* What the steps of the model never take back.
Grows ==
  /\ tip \in Nat /\ tip' \in Nat /\ tip <= tip'
  /\ \A x \in Txs : chain[x] # NoTx => chain'[x] = chain[x]
  /\ \A q \in Quotes : quote[q].status # "none" =>
       quote'[q].status # "none" /\ quote'[q].key = quote[q].key
  /\ \A p \in Pairs : applied[p] \in Nat /\ applied'[p] \in Nat /\ applied[p] <= applied'[p]

\* The types, under their names.
LEMMA Typed ==
  TypeOK <=> /\ quote \in [Quotes -> Row]
             /\ payment \in [Pairs -> Claim0 \cup {NoClaim}]
             /\ chain \in [Txs -> Spot \cup {NoTx}]
             /\ tip \in Nat
             /\ worker \in [Workers -> Local]
             /\ alive \in SUBSET Quotes
             /\ applied \in [Pairs -> Nat]
             /\ clock \in Nat
             /\ crashes \in Nat
  BY DEF TypeOK, Row, Claim0, Spot, Local

LEMMA TypedNext ==
  TypeOK' <=> /\ quote' \in [Quotes -> Row]
              /\ payment' \in [Pairs -> Claim0 \cup {NoClaim}]
              /\ chain' \in [Txs -> Spot \cup {NoTx}]
              /\ tip' \in Nat
              /\ worker' \in [Workers -> Local]
              /\ alive' \in SUBSET Quotes
              /\ applied' \in [Pairs -> Nat]
              /\ clock' \in Nat
              /\ crashes' \in Nat
  BY DEF TypeOK, Row, Claim0, Spot, Local

\* A pair has a quote and a payment.
LEMMA PairFacts ==
  ASSUME NEW p \in Pairs
  PROVE  p[1] \in Quotes /\ p[2] \in Txs /\ p = <<p[1], p[2]>>
  BY DEF Pairs

\* What is known stays known, and what is confirmed stays confirmed.
LEMMA GrowthKeeps ==
  ASSUME TypeOK, TypeOK', Grows, NEW p \in Pairs
  PROVE  /\ Known(p) => Known(p)'
         /\ Confirmed(p) => Confirmed(p)'
<1> USE Typed, TypedNext, PairFacts
<1>1. Known(p) => Known(p)' /\ chain'[p[2]] = chain[p[2]]
  BY DEF Grows, Known, Matches
<1>2. ASSUME Confirmed(p) PROVE Confirmed(p)'
  <2>1. Known(p)' /\ chain'[p[2]] = chain[p[2]] /\ chain[p[2]] # NoTx
    BY <1>1, <1>2 DEF Confirmed, Known, Matches
  <2>2. chain[p[2]].height \in Nat /\ chain[p[2]].height = chain'[p[2]].height
    BY <2>1 DEF Spot
  <2>3. Confirmations(p[2], tip) >= Required
    BY <1>2 DEF Confirmed
  <2>4. Confirmations(p[2], tip)' >= Required
    BY <2>2, <2>3, QuotesAssumption DEF Confirmations, Grows
  <2> QED  BY <2>1, <2>4 DEF Confirmed
<1> QED  BY <1>1, <1>2

\* Confirmations counted from an older scan are confirmations.
LEMMA OldScanConfirms ==
  ASSUME TypeOK, NEW p \in Pairs, NEW height \in Nat, height <= tip, Known(p),
         Confirmations(p[2], height) >= Required
  PROVE  Confirmed(p)
<1>1. chain[p[2]].height \in Nat
  BY Typed, PairFacts DEF Known, Matches, Spot
<1>2. Confirmations(p[2], tip) >= Required
  BY <1>1, Typed, QuotesAssumption DEF Confirmations
<1> QED  BY <1>2 DEF Confirmed

\* A tick that does not move stays sound while the tables grow.
LEMMA SoundStays ==
  ASSUME TypeOK, TypeOK', Grows, NEW w \in Local, Sound(w)
  PROVE  Sound(w)'
<1>1. w.tip <= tip'
  BY Typed DEF Sound, Grows, Local
<1>2. \A p \in w.todo : Known(p)'
  BY GrowthKeeps DEF Sound, Local
<1>3. w.stage \in {"credit", "settle", "rollup"} => w.pair \in Pairs /\ Confirmed(w.pair)'
  BY GrowthKeeps DEF Sound
<1>4. w.stage \in {"settle", "rollup"} => applied'[w.pair] >= 1
  <2> SUFFICES ASSUME w.stage \in {"settle", "rollup"} PROVE applied'[w.pair] >= 1
    OBVIOUS
  <2>1. w.pair \in Pairs /\ applied[w.pair] >= 1
    BY DEF Sound
  <2> QED  BY <2>1 DEF Grows
<1> QED  BY <1>1, <1>2, <1>3, <1>4 DEF Sound

\* A step in which one tick moves, or none.
LEMMA WorkersStaySound ==
  ASSUME QuotesInv, TypeOK', Grows, NEW v \in Workers, NEW w \in Local,
         worker' = [worker EXCEPT ![v] = w], Sound(w)'
  PROVE  WorkersSound'
<1> SUFFICES ASSUME NEW u \in Workers PROVE Sound(worker[u])'
  BY DEF WorkersSound
<1>1. worker \in [Workers -> Local]
  BY Typed DEF QuotesInv
<1>2. CASE u = v
  <2>1. worker'[u] = w
    BY <1>1, <1>2
  <2> QED  BY <2>1 DEF Sound
<1>3. CASE u # v
  <2>1. worker'[u] = worker[u] /\ worker[u] \in Local /\ Sound(worker[u])
    BY <1>1, <1>3 DEF QuotesInv, WorkersSound
  <2>2. PICK x \in Local : x = worker[u]
    BY <2>1
  <2>3. Sound(x)'
    BY <2>1, <2>2, SoundStays DEF QuotesInv
  <2> QED  BY <2>1, <2>2, <2>3 DEF Sound
<1> QED  BY <1>2, <1>3

\* A step in which no tick moves.
LEMMA WorkersRest ==
  ASSUME QuotesInv, TypeOK', Grows, worker' = worker
  PROVE  WorkersSound'
<1> SUFFICES ASSUME NEW u \in Workers PROVE Sound(worker[u])'
  BY DEF WorkersSound
<1>1. worker[u] \in Local /\ Sound(worker[u])
  BY Typed DEF QuotesInv, WorkersSound
<1>2. PICK x \in Local : x = worker[u]
  BY <1>1
<1>3. Sound(x)'
  BY <1>1, <1>2, SoundStays DEF QuotesInv
<1> QED  BY <1>2, <1>3 DEF Sound

\* The money stays sound when only what is confirmed is credited, and only what was
\* credited is recorded as such, here or in a quote.
LEMMA MoneyStaysSound ==
  ASSUME QuotesInv, TypeOK', Grows,
         \A p \in Pairs : applied'[p] > 0 => applied[p] > 0 \/ Confirmed(p),
         \A p \in Pairs : IsCredited(p)' => IsCredited(p) \/ applied[p] >= 1,
         \A p \in Pairs : quote'[p[1]].status = "settled" /\ quote'[p[1]].seen = p[2]
           => \/ quote[p[1]].status = "settled" /\ quote[p[1]].seen = p[2]
              \/ applied[p] >= 1
  PROVE  MoneySound'
<1> SUFFICES ASSUME NEW p \in Pairs
             PROVE  /\ applied'[p] > 0 => Confirmed(p)'
                    /\ IsCredited(p)' => applied'[p] >= 1
                    /\ quote'[p[1]].status = "settled" /\ quote'[p[1]].seen = p[2]
                         => applied'[p] >= 1
  BY DEF MoneySound
<1>1. applied[p] \in Nat /\ applied'[p] \in Nat /\ applied[p] <= applied'[p]
  BY DEF Grows
<1>2. applied'[p] > 0 => Confirmed(p)'
  BY GrowthKeeps DEF QuotesInv, MoneySound
<1>3. IsCredited(p)' => applied[p] >= 1
  BY DEF QuotesInv, MoneySound
<1>4. quote'[p[1]].status = "settled" /\ quote'[p[1]].seen = p[2] => applied[p] >= 1
  BY DEF QuotesInv, MoneySound
<1> QED  BY <1>1, <1>2, <1>3, <1>4

\* What a restart records is a claim.
LEMMA OldClaim == [at |-> 0, credited |-> TRUE] \in Claim0
  BY DEF Claim0

\* What a restart puts on record was credited.
LEMMA BackfillFacts ==
  ASSUME TypeOK, MoneySound
  PROVE  /\ Backfilled(quote, payment) \in [Pairs -> Claim0 \cup {NoClaim}]
         /\ \A p \in Pairs : Backfilled(quote, payment)[p] # payment[p] => applied[p] >= 1
<1> DEFINE b == Backfilled(quote, payment)
<1>1. \A p \in Pairs : \/ b[p] = payment[p]
                       \/ /\ b[p] = [at |-> 0, credited |-> TRUE]
                          /\ quote[p[1]].status = "settled" /\ quote[p[1]].seen = p[2]
  BY DEF Backfilled
<1>2. b = [p \in Pairs |-> b[p]]
  BY DEF Backfilled
<1> HIDE DEF b
<1>3. \A p \in Pairs : b[p] \in Claim0 \cup {NoClaim}
  BY <1>1, Typed, OldClaim
<1>4. \A p \in Pairs : b[p] # payment[p] => applied[p] >= 1
  BY <1>1 DEF MoneySound
<1>5. b \in [Pairs -> Claim0 \cup {NoClaim}]
  <2> DEFINE C == Claim0 \cup {NoClaim}
  <2>1. \A p \in Pairs : b[p] \in C
    BY <1>3
  <2> HIDE DEF C
  <2>2. b \in [Pairs -> C]
    BY <1>2, <2>1
  <2> QED  BY <2>2 DEF C
<1> QED  BY <1>4, <1>5 DEF b

\* A new database, or one with a quote from earlier times.
LEMMA InitInv == Init => QuotesInv
<1> SUFFICES ASSUME Init PROVE QuotesInv
  OBVIOUS
<1>1. PICK old \in Legacy \cup {NoPair}, k \in Keys :
        /\ quote   = [q \in Quotes |-> IF old # NoPair /\ q = old[1]
                                       THEN LegacyQuote(old[2], k) ELSE NoQuote]
        /\ payment = Backfilled(quote, [p \in Pairs |-> NoClaim])
        /\ chain   = [x \in Txs |-> IF old # NoPair /\ x = old[2]
                                    THEN [key |-> k, height |-> 1] ELSE NoTx]
        /\ tip     = IF old = NoPair THEN 0 ELSE Required
        /\ worker  = [v \in Workers |-> IdleWorker]
        /\ alive   = Quotes
        /\ applied = [p \in Pairs |-> IF p = old THEN 1 ELSE 0]
        /\ clock   = 0
        /\ crashes = 0
  BY DEF Init
<1>2. old # NoPair => old \in Pairs /\ old[1] \in Quotes /\ old[2] \in Txs
  BY QuotesAssumption DEF Pairs
<1>3. NoQuote \in Row /\ NoQuote.status = "none"
  BY DEF NoQuote, Row, Statuses
<1>4. old # NoPair => /\ LegacyQuote(old[2], k) \in Row
                      /\ LegacyQuote(old[2], k).status = "settled"
                      /\ LegacyQuote(old[2], k).key = k
                      /\ LegacyQuote(old[2], k).seen = old[2]
  BY <1>2, QuotesAssumption DEF LegacyQuote, Row, Statuses
<1>5. quote \in [Quotes -> Row]
  BY <1>1, <1>3, <1>4
<1>6. \A p \in Pairs : /\ quote[p[1]].status = "settled" => old # NoPair /\ p[1] = old[1]
                       /\ quote[p[1]].status = "settled" /\ quote[p[1]].seen = p[2] => p = old
  <2> SUFFICES ASSUME NEW p \in Pairs, quote[p[1]].status = "settled"
               PROVE  /\ old # NoPair /\ p[1] = old[1]
                      /\ quote[p[1]].seen = p[2] => p = old
    OBVIOUS
  <2>1. old # NoPair /\ p[1] = old[1]
    BY <1>1, <1>3, PairFacts
  <2>2. quote[p[1]].seen = old[2]
    BY <1>1, <1>4, <2>1, PairFacts
  <2>3. old = <<old[1], old[2]>>
    BY <1>2, <2>1, PairFacts
  <2> QED  BY <2>1, <2>2, <2>3, PairFacts
<1>7. \A p \in Pairs : \/ payment[p] = [at |-> 0, credited |-> TRUE] /\ p = old
                       \/ payment[p] = NoClaim
  BY <1>1, <1>6 DEF Backfilled
<1>8. payment \in [Pairs -> Claim0 \cup {NoClaim}]
  <2>1. payment = [p \in Pairs |-> payment[p]]
    BY <1>1 DEF Backfilled
  <2> DEFINE C == Claim0 \cup {NoClaim}
  <2>2. \A p \in Pairs : payment[p] \in C
    BY <1>7, OldClaim
  <2> HIDE DEF C
  <2>3. payment \in [Pairs -> C]
    BY <2>1, <2>2
  <2> QED  BY <2>3 DEF C
<1>9. chain \in [Txs -> Spot \cup {NoTx}]
  BY <1>1 DEF Spot
<1>10. IdleWorker \in Local /\ IdleWorker.stage = "idle" /\ IdleWorker.tip = 0
       /\ IdleWorker.todo = {}
  BY DEF IdleWorker, Local, Stages
<1>11. tip \in Nat /\ applied \in [Pairs -> Nat]
  BY <1>1, QuotesAssumption
<1>12. TypeOK
  BY <1>1, <1>5, <1>8, <1>9, <1>10, <1>11, Typed
<1>13. WorkersSound
  BY <1>1, <1>10, <1>11 DEF WorkersSound, Sound
<1>14. MoneySound
  <2> SUFFICES ASSUME NEW p \in Pairs
               PROVE  /\ applied[p] > 0 => Confirmed(p)
                      /\ IsCredited(p) => applied[p] >= 1
                      /\ quote[p[1]].status = "settled" /\ quote[p[1]].seen = p[2]
                           => applied[p] >= 1
    BY DEF MoneySound
  <2>1. p = old => applied[p] = 1
    BY <1>1
  <2>2. applied[p] > 0 => Confirmed(p)
    <3> SUFFICES ASSUME p = old PROVE Confirmed(p)
      BY <1>1
    <3>1. old # NoPair
      BY QuotesAbsenceAssumption
    <3>2. quote[p[1]].status = "settled" /\ quote[p[1]].key = k
      BY <1>1, <1>4, <3>1, PairFacts
    <3>3. chain[p[2]] = [key |-> k, height |-> 1]
      BY <1>1, <3>1, PairFacts
    <3>4. chain[p[2]] # NoTx
      BY <3>3, QuotesAbsenceAssumption
    <3>5. Confirmations(p[2], tip) >= Required
      BY <1>1, <3>1, <3>3, QuotesAssumption DEF Confirmations
    <3> QED  BY <3>2, <3>3, <3>4, <3>5 DEF Confirmed, Known, Matches
  <2>3. IsCredited(p) => p = old
    BY <1>7 DEF IsCredited
  <2> QED  BY <1>6, <2>1, <2>2, <2>3
<1> QED  BY <1>12, <1>13, <1>14 DEF QuotesInv

-----------------------------------------------------------------------------
(* The steps of the model *)

\* The tables in their types, before a step.
LEMMA Before ==
  QuotesInv => /\ TypeOK /\ WorkersSound /\ MoneySound
               /\ \A q \in Quotes : quote[q] \in Row
               /\ \A v \in Workers : worker[v] \in Local /\ Sound(worker[v])
               /\ \A p \in Pairs : applied[p] \in Nat
  BY Typed DEF QuotesInv, WorkersSound

\* A step that leaves payments and credits alone, and settles nothing.
LEMMA MoneyRests ==
  ASSUME QuotesInv, TypeOK', Grows, UNCHANGED <<payment, applied>>,
         \A q \in Quotes : quote'[q].status = "settled" => quote'[q] = quote[q]
  PROVE  MoneySound'
<1>1. \A p \in Pairs : applied'[p] > 0 => applied[p] > 0 \/ Confirmed(p)
  OBVIOUS
<1>2. \A p \in Pairs : IsCredited(p)' => IsCredited(p) \/ applied[p] >= 1
  BY DEF IsCredited
<1>3. \A p \in Pairs : quote'[p[1]].status = "settled" /\ quote'[p[1]].seen = p[2]
        => \/ quote[p[1]].status = "settled" /\ quote[p[1]].seen = p[2]
           \/ applied[p] >= 1
  BY PairFacts
<1> QED  BY <1>1, <1>2, <1>3, MoneyStaysSound

\* A quote is created on a row that did not exist.
LEMMA CreateInv ==
  ASSUME QuotesInv, NEW q \in Quotes, NEW k \in Keys, CreateQuote(q, k)
  PROVE  QuotesInv' /\ Grows
<1> DEFINE row == [status |-> "pending", key |-> k, expires |-> clock + QuoteTtl,
                   seen |-> NoTx, earned |-> {}]
<1>1. row \in Row /\ row.status = "pending"
  BY Before, Typed, QuotesAssumption DEF Row, Statuses
<1>2. quote' = [quote EXCEPT ![q] = row] /\ quote[q].status = "none"
  BY DEF CreateQuote
<1> HIDE DEF row
<1>3. UNCHANGED <<payment, chain, tip, worker, alive, applied, clock, crashes>>
  BY DEF CreateQuote
<1>4. quote \in [Quotes -> Row]
  BY Before, Typed
<1>5. TypeOK'
  BY <1>1, <1>2, <1>3, <1>4, Before, Typed, TypedNext
<1>6. Grows
  BY <1>1, <1>2, <1>3, <1>4, Before, Typed DEF Grows
<1>7. WorkersSound'
  BY <1>3, <1>5, <1>6, WorkersRest
<1>8. MoneySound'
  BY <1>1, <1>2, <1>3, <1>4, <1>5, <1>6, MoneyRests
<1> QED  BY <1>5, <1>6, <1>7, <1>8 DEF QuotesInv

\* A quote is cancelled.
LEMMA CancelInv ==
  ASSUME QuotesInv, NEW q \in Quotes, CancelQuote(q)
  PROVE  QuotesInv' /\ Grows
<1> DEFINE row == [quote[q] EXCEPT !.status = "cancelled"]
<1>1. row \in Row /\ row.status = "cancelled" /\ row.key = quote[q].key
  BY Before DEF Row, Statuses
<1>2. quote' = [quote EXCEPT ![q] = row]
  BY DEF CancelQuote
<1> HIDE DEF row
<1>3. UNCHANGED <<payment, chain, tip, worker, alive, applied, clock, crashes>>
  BY DEF CancelQuote
<1>4. quote \in [Quotes -> Row]
  BY Before, Typed
<1>5. TypeOK'
  BY <1>1, <1>2, <1>3, <1>4, Before, Typed, TypedNext
<1>6. Grows
  BY <1>1, <1>2, <1>3, <1>4, Before, Typed DEF Grows
<1>7. WorkersSound'
  BY <1>3, <1>5, <1>6, WorkersRest
<1>8. MoneySound'
  BY <1>1, <1>2, <1>3, <1>4, <1>5, <1>6, MoneyRests
<1> QED  BY <1>5, <1>6, <1>7, <1>8 DEF QuotesInv

\* A watch is lost, a block is mined, time passes.
LEMMA OutsideInv ==
  ASSUME QuotesInv, (\E q \in Quotes : LoseWatch(q)) \/ Mine \/ Advance
  PROVE  QuotesInv' /\ Grows
<1>1. UNCHANGED <<quote, payment, chain, worker, applied, crashes>>
  BY DEF LoseWatch, Mine, Advance
<1>2. alive' \in SUBSET Quotes /\ tip' \in Nat /\ tip <= tip' /\ clock' \in Nat
  BY Before, Typed DEF LoseWatch, Mine, Advance
<1>3. TypeOK'
  BY <1>1, <1>2, Before, Typed, TypedNext
<1>4. Grows
  BY <1>1, <1>2, Before, Typed DEF Grows
<1>5. WorkersSound'
  BY <1>1, <1>3, <1>4, WorkersRest
<1>6. MoneySound'
  BY <1>1, <1>3, <1>4, MoneyRests
<1> QED  BY <1>3, <1>4, <1>5, <1>6 DEF QuotesInv

\* A quote is paid.
LEMMA PayInv ==
  ASSUME QuotesInv, NEW x \in Txs, NEW q \in Quotes, Pay(x, q)
  PROVE  QuotesInv' /\ Grows
<1> DEFINE spot == [key |-> quote[q].key, height |-> tip + 1]
<1>1. spot \in Spot
  BY Before, Typed DEF Spot, Row
<1>2. chain' = [chain EXCEPT ![x] = spot] /\ chain[x] = NoTx
  BY DEF Pay
<1> HIDE DEF spot
<1>3. UNCHANGED <<quote, payment, worker, alive, applied, clock, crashes>>
  BY DEF Pay
<1>4. tip' \in Nat /\ tip <= tip' /\ tip \in Nat
  BY Before, Typed DEF Pay
<1>5. chain \in [Txs -> Spot \cup {NoTx}]
  BY Before, Typed
<1>6. TypeOK'
  BY <1>1, <1>2, <1>3, <1>4, <1>5, Before, Typed, TypedNext
<1>7. Grows
  BY <1>2, <1>3, <1>4, <1>5, Before DEF Grows
<1>8. WorkersSound'
  BY <1>3, <1>6, <1>7, WorkersRest
<1>9. MoneySound'
  BY <1>3, <1>6, <1>7, MoneyRests
<1> QED  BY <1>6, <1>7, <1>8, <1>9 DEF QuotesInv

\* A step of one tick that credits nothing: it leaves its worker sound, records as
\* credited, and settles for, only what was credited before.
LEMMA TickMoves ==
  ASSUME QuotesInv, NEW v \in Workers, NEW w \in Local, Sound(w),
         worker' = [worker EXCEPT ![v] = w],
         UNCHANGED <<chain, tip, alive, applied, clock>>, crashes' \in Nat,
         payment' \in [Pairs -> Claim0 \cup {NoClaim}],
         quote' \in [Quotes -> Row],
         \A q \in Quotes : quote[q].status # "none" =>
           quote'[q].status # "none" /\ quote'[q].key = quote[q].key,
         \A p \in Pairs : IsCredited(p)' => IsCredited(p) \/ applied[p] >= 1,
         \A p \in Pairs : quote'[p[1]].status = "settled" /\ quote'[p[1]].seen = p[2]
           => \/ quote[p[1]].status = "settled" /\ quote[p[1]].seen = p[2]
              \/ applied[p] >= 1
  PROVE  QuotesInv' /\ Grows
<1>1. TypeOK'
  BY Before, Typed, TypedNext
<1>2. Grows
  BY Before, Typed DEF Grows
<1>3. Sound(w)'
  BY <1>1, <1>2, SoundStays, Before
<1>4. WorkersSound'
  BY <1>1, <1>2, <1>3, WorkersStaySound
<1>5. \A p \in Pairs : applied'[p] > 0 => applied[p] > 0 \/ Confirmed(p)
  OBVIOUS
<1>6. MoneySound'
  BY <1>1, <1>2, <1>5, MoneyStaysSound
<1> QED  BY <1>1, <1>2, <1>4, <1>6 DEF QuotesInv

\* The idle worker, and one whose tick is under way with matches of the tables.
LEMMA IdleIsSound ==
  ASSUME QuotesInv
  PROVE  /\ IdleWorker \in Local /\ Sound(IdleWorker)
         /\ [IdleWorker EXCEPT !.stage = "work"] \in Local
         /\ Sound([IdleWorker EXCEPT !.stage = "work"])
<1>1. tip \in Nat
  BY Before, Typed
<1>2. IdleWorker \in Local /\ [IdleWorker EXCEPT !.stage = "work"] \in Local
  BY DEF IdleWorker, Local, Stages
<1> QED  BY <1>1, <1>2 DEF IdleWorker, Sound

\* A scan answers.
LEMMA ScanReplyInv ==
  ASSUME QuotesInv, NEW v \in Workers, ScanReply(v)
  PROVE  QuotesInv' /\ Grows
<1> DEFINE todo == {p \in Pairs : Matchable(p[1]) /\ Matches(p[2], p[1])}
           w == [stage |-> "work", tip |-> tip, pair |-> NoPair, todo |-> todo]
<1>1. w \in Local
  BY Before, Typed DEF Local, Stages
<1>2. \A p \in todo : Known(p)
  BY DEF Known, Matchable
<1>3. Sound(w)
  BY <1>2, Before, Typed DEF Sound
<1>4. worker' = [worker EXCEPT ![v] = w]
        /\ UNCHANGED <<quote, payment, chain, tip, alive, applied, clock, crashes>>
  BY DEF ScanReply
<1> HIDE DEF w
<1> QED  BY <1>1, <1>3, <1>4, TickMoves, Before, Typed DEF IsCredited

\* A scan fails.
LEMMA ScanFailsInv ==
  ASSUME QuotesInv, NEW v \in Workers, ScanFails(v)
  PROVE  QuotesInv' /\ Grows
<1> DEFINE w == [IdleWorker EXCEPT !.stage = "work"]
<1>1. w \in Local /\ Sound(w)
  BY IdleIsSound
<1>2. worker' = [worker EXCEPT ![v] = w]
        /\ UNCHANGED <<quote, payment, chain, tip, alive, applied, clock, crashes>>
  BY DEF ScanFails
<1> HIDE DEF w
<1> QED  BY <1>1, <1>2, TickMoves, Before, Typed DEF IsCredited

\* A tick takes a match off its list.
LEMMA TakenIsSound ==
  ASSUME QuotesInv, NEW v \in Workers, NEW p \in Pairs, worker[v].stage = "work",
         NEW w, w = [worker[v] EXCEPT !.todo = @ \ {p}]
  PROVE  w \in Local /\ Sound(w) /\ Taken(v, p) = [worker EXCEPT ![v] = w]
<1>1. worker[v] \in Local /\ Sound(worker[v]) /\ worker \in [Workers -> Local]
  BY Before, Typed
<1>2. w \in Local
  BY <1>1 DEF Local
<1>3. Sound(w)
  BY <1>1 DEF Local, Sound
<1>4. Taken(v, p) = [worker EXCEPT ![v] = w]
  BY <1>1 DEF Taken
<1> QED  BY <1>2, <1>3, <1>4

\* A sighting settles nothing and keeps the quote.
LEMMA SeenFacts ==
  ASSUME QuotesInv, NEW p \in Pairs
  PROVE  /\ Seen(p) \in [Quotes -> Row]
         /\ \A q \in Quotes : /\ quote[q].status # "none" =>
                                   Seen(p)[q].status # "none" /\ Seen(p)[q].key = quote[q].key
                              /\ Seen(p)[q].status = "settled" => Seen(p)[q] = quote[q]
<1>1. p[1] \in Quotes /\ p[2] \in Txs
  BY PairFacts
<1>2. quote \in [Quotes -> Row] /\ HashOf(p[2]) \in Txs \cup {NoTx}
  BY <1>1, Before, Typed DEF HashOf
<1> DEFINE row == [quote[p[1]] EXCEPT !.status = "confirming", !.seen = HashOf(p[2])]
<1>3. row \in Row /\ row.status = "confirming" /\ row.key = quote[p[1]].key
  BY <1>1, <1>2 DEF Row, Statuses
<1>4. \/ Seen(p) = quote
      \/ Seen(p) = [quote EXCEPT ![p[1]] = row]
  BY <1>1, <1>2 DEF Seen
<1> HIDE DEF row
<1> QED  BY <1>1, <1>2, <1>3, <1>4

\* A match is recorded as seen.
LEMMA MarkSeenInv ==
  ASSUME QuotesInv, NEW v \in Workers, NEW p \in Pairs, MarkSeen(v, p)
  PROVE  QuotesInv' /\ Grows
<1> DEFINE w == [worker[v] EXCEPT !.todo = @ \ {p}]
<1>1. w \in Local /\ Sound(w) /\ worker' = [worker EXCEPT ![v] = w]
  BY TakenIsSound DEF MarkSeen
<1>2. quote' = Seen(p) /\ UNCHANGED <<payment, chain, tip, alive, applied, clock, crashes>>
  BY DEF MarkSeen
<1>3. /\ quote' \in [Quotes -> Row]
      /\ \A q \in Quotes : /\ quote[q].status # "none" =>
                                quote'[q].status # "none" /\ quote'[q].key = quote[q].key
                           /\ quote'[q].status = "settled" => quote'[q] = quote[q]
  BY <1>2, SeenFacts
<1> HIDE DEF w
<1>4. \A r \in Pairs : quote'[r[1]].status = "settled" /\ quote'[r[1]].seen = r[2]
        => quote[r[1]].status = "settled" /\ quote[r[1]].seen = r[2]
  BY <1>3, PairFacts
<1> QED  BY <1>1, <1>2, <1>3, <1>4, TickMoves, Before, Typed DEF IsCredited

\* A claim is refused.
LEMMA ClaimRefusedInv ==
  ASSUME QuotesInv, NEW v \in Workers, NEW p \in Pairs, ClaimRefused(v, p)
  PROVE  QuotesInv' /\ Grows
<1> DEFINE w == [worker[v] EXCEPT !.todo = @ \ {p}]
<1>1. w \in Local /\ Sound(w) /\ worker' = [worker EXCEPT ![v] = w]
  BY TakenIsSound DEF ClaimRefused
<1>2. UNCHANGED <<quote, payment, chain, tip, alive, applied, clock, crashes>>
  BY DEF ClaimRefused
<1> HIDE DEF w
<1> QED  BY <1>1, <1>2, TickMoves, Before, Typed DEF IsCredited

\* A claim is granted: what it covers is confirmed.
LEMMA ClaimInv ==
  ASSUME QuotesInv, NEW v \in Workers, NEW p \in Pairs, Claim(v, p)
  PROVE  QuotesInv' /\ Grows
<1> DEFINE t == [worker[v] EXCEPT !.todo = @ \ {p}]
           w == [t EXCEPT !.stage = "credit", !.pair = p]
           c == [at |-> clock, credited |-> FALSE]
<1>1. t \in Local /\ Sound(t) /\ Taken(v, p) = [worker EXCEPT ![v] = t]
  BY TakenIsSound DEF Claim
<1>2. UNCHANGED <<quote, chain, tip, alive, applied, clock, crashes>>
  BY DEF Claim
<1>3. worker[v] \in Local /\ Sound(worker[v]) /\ p \in worker[v].todo
      /\ worker \in [Workers -> Local] /\ clock \in Nat
  BY Before, Typed DEF Claim
<1>4. Confirmed(p)
  BY <1>3, OldScanConfirms, Before DEF Claim, Sound, Local
<1>5. w \in Local
  BY <1>1 DEF Local, Stages
<1>6. Sound(w)
  BY <1>1, <1>4 DEF Sound, Local
<1>7. c \in Claim0 /\ ~c.credited
  BY <1>3 DEF Claim0
<1>8. payment \in [Pairs -> Claim0 \cup {NoClaim}]
  BY Before, Typed
<1>9. CASE p[2] \in Dust
  <2>1. payment' = [payment EXCEPT ![p] = NoClaim] /\ worker' = [worker EXCEPT ![v] = t]
    BY <1>1, <1>9 DEF Claim
  <2> HIDE DEF t
  <2>2. payment' \in [Pairs -> Claim0 \cup {NoClaim}]
    BY <2>1, <1>8
  <2>3. \A r \in Pairs : IsCredited(r)' => IsCredited(r)
    BY <2>1, <1>8 DEF IsCredited
  <2> QED  BY <1>1, <1>2, <2>1, <2>2, <2>3, TickMoves, Before, Typed
<1>10. CASE p[2] \notin Dust
  <2>1. payment' = [payment EXCEPT ![p] = c]
        /\ worker' = [Taken(v, p) EXCEPT ![v].stage = "credit", ![v].pair = p]
    BY <1>10 DEF Claim
  <2>2. worker' = [worker EXCEPT ![v] = w]
    BY <1>1, <1>3, <2>1
  <2> HIDE DEF t, w, c
  <2>3. payment' \in [Pairs -> Claim0 \cup {NoClaim}]
    BY <2>1, <1>7, <1>8
  <2>4. \A r \in Pairs : IsCredited(r)' => IsCredited(r)
    BY <2>1, <1>7, <1>8 DEF IsCredited
  <2> QED  BY <1>2, <1>5, <1>6, <2>2, <2>3, <2>4, TickMoves, Before, Typed
<1> QED  BY <1>9, <1>10

\* A worker past its claim holds a confirmed pair.
LEMMA Holding ==
  ASSUME QuotesInv, NEW v \in Workers, worker[v].stage \in {"credit", "settle", "rollup"}
  PROVE  /\ worker[v].pair \in Pairs /\ Confirmed(worker[v].pair)
         /\ worker[v].pair[1] \in Quotes /\ worker[v].pair[2] \in Txs
         /\ worker[v].stage # "credit" => applied[worker[v].pair] >= 1
  BY Before, PairFacts DEF Sound

\* A worker is done with its pair and goes on with its list.
LEMMA DoneIsSound ==
  ASSUME QuotesInv, NEW v \in Workers, NEW w,
         w = [worker[v] EXCEPT !.stage = "work", !.pair = NoPair]
  PROVE  /\ w \in Local /\ Sound(w)
         /\ [worker EXCEPT ![v].stage = "work", ![v].pair = NoPair] = [worker EXCEPT ![v] = w]
<1>1. worker[v] \in Local /\ Sound(worker[v]) /\ worker \in [Workers -> Local]
  BY Before, Typed
<1>2. w \in Local
  BY <1>1 DEF Local, Stages
<1>3. Sound(w)
  BY <1>1 DEF Local, Sound
<1>4. [worker EXCEPT ![v].stage = "work", ![v].pair = NoPair] = [worker EXCEPT ![v] = w]
  BY <1>1
<1> QED  BY <1>2, <1>3, <1>4

\* A watch is credited.
LEMMA CreditInv ==
  ASSUME QuotesInv, NEW v \in Workers, Credit(v)
  PROVE  QuotesInv' /\ Grows
<1>1. PICK p \in Pairs : p = worker[v].pair /\ Confirmed(p)
  BY Holding DEF Credit
<1>2. worker[v] \in Local /\ Sound(worker[v]) /\ worker \in [Workers -> Local]
      /\ applied \in [Pairs -> Nat]
  BY Before, Typed
<1>3. PICK w \in Local : w = [worker[v] EXCEPT !.stage = "settle"]
  BY <1>2 DEF Local, Stages
<1>4. w.stage = "settle" /\ w.pair = p /\ w.tip = worker[v].tip /\ w.todo = worker[v].todo
  BY <1>1, <1>2, <1>3 DEF Local
<1>5. worker' = [worker EXCEPT ![v] = w] /\ applied' = [applied EXCEPT ![p] = applied[p] + 1]
      /\ UNCHANGED <<quote, payment, chain, tip, alive, clock, crashes>>
  BY <1>1, <1>2, <1>3 DEF Credit
<1>6. TypeOK'
  BY <1>1, <1>2, <1>5, Before, Typed, TypedNext
<1>7. Grows
  BY <1>1, <1>2, <1>5, Before, Typed DEF Grows
<1>8. Sound(w)'
  <2>1. w.tip <= tip' /\ \A r \in w.todo : Known(r)'
    BY <1>2, <1>4, <1>5 DEF Sound, Known, Matches
  <2>2. Confirmed(p)'
    BY <1>1, <1>6, <1>7, GrowthKeeps, Before
  <2>3. applied'[p] >= 1
    BY <1>1, <1>2, <1>5
  <2> QED  BY <1>1, <1>4, <2>1, <2>2, <2>3 DEF Sound
<1>9. WorkersSound'
  BY <1>3, <1>5, <1>6, <1>7, <1>8, WorkersStaySound
<1>10. \A r \in Pairs : applied'[r] > 0 => applied[r] > 0 \/ Confirmed(r)
  BY <1>1, <1>2, <1>5
<1>11. MoneySound'
  BY <1>5, <1>6, <1>7, <1>10, MoneyStaysSound DEF IsCredited
<1> QED  BY <1>6, <1>7, <1>9, <1>11 DEF QuotesInv

\* The watch is gone, or the application throws: the claim is released.
LEMMA CreditRefusedInv ==
  ASSUME QuotesInv, NEW v \in Workers, CreditRefused(v)
  PROVE  QuotesInv' /\ Grows
<1> DEFINE p == worker[v].pair
           w == [worker[v] EXCEPT !.stage = "work", !.pair = NoPair]
<1>1. w \in Local /\ Sound(w) /\ worker' = [worker EXCEPT ![v] = w]
  BY DoneIsSound DEF CreditRefused
<1>2. p \in Pairs
  BY Holding DEF CreditRefused
<1>3. payment' = Released(p) /\ quote' = Seen(p)
        /\ UNCHANGED <<chain, tip, alive, applied, clock, crashes>>
  BY DEF CreditRefused
<1> HIDE DEF p, w
<1>4. payment \in [Pairs -> Claim0 \cup {NoClaim}]
  BY Before, Typed
<1>5. /\ payment' \in [Pairs -> Claim0 \cup {NoClaim}]
      /\ \A r \in Pairs : IsCredited(r)' => IsCredited(r)
  BY <1>2, <1>3, <1>4 DEF Released, IsCredited
<1>6. /\ quote' \in [Quotes -> Row]
      /\ \A q \in Quotes : /\ quote[q].status # "none" =>
                                quote'[q].status # "none" /\ quote'[q].key = quote[q].key
                           /\ quote'[q].status = "settled" => quote'[q] = quote[q]
  BY <1>2, <1>3, SeenFacts
<1>7. \A r \in Pairs : quote'[r[1]].status = "settled" /\ quote'[r[1]].seen = r[2]
        => quote[r[1]].status = "settled" /\ quote[r[1]].seen = r[2]
  BY <1>6, PairFacts
<1> QED  BY <1>1, <1>3, <1>5, <1>6, <1>7, TickMoves, Before, Typed

\* The watch is credited, and the claim is released all the same.
LEMMA CreditThrowsInv ==
  ASSUME QuotesInv, NEW v \in Workers, CreditThrows(v)
  PROVE  QuotesInv' /\ Grows
<1> DEFINE w == [worker[v] EXCEPT !.stage = "work", !.pair = NoPair]
<1>1. w \in Local /\ Sound(w) /\ worker' = [worker EXCEPT ![v] = w]
  BY DoneIsSound DEF CreditThrows
<1>2. PICK p \in Pairs : p = worker[v].pair /\ Confirmed(p)
  BY Holding DEF CreditThrows
<1>3. /\ payment' = Released(p) /\ quote' = Seen(p)
      /\ applied' = [applied EXCEPT ![p] = applied[p] + 1] /\ crashes' = crashes + 1
      /\ UNCHANGED <<chain, tip, alive, clock>>
  BY <1>2 DEF CreditThrows
<1> HIDE DEF w
<1>4. payment \in [Pairs -> Claim0 \cup {NoClaim}] /\ applied \in [Pairs -> Nat]
  BY Before, Typed
<1>5. /\ payment' \in [Pairs -> Claim0 \cup {NoClaim}]
      /\ \A r \in Pairs : IsCredited(r)' => IsCredited(r)
  BY <1>2, <1>3, <1>4 DEF Released, IsCredited
<1>6. /\ quote' \in [Quotes -> Row]
      /\ \A q \in Quotes : /\ quote[q].status # "none" =>
                                quote'[q].status # "none" /\ quote'[q].key = quote[q].key
                           /\ quote'[q].status = "settled" => quote'[q] = quote[q]
  BY <1>2, <1>3, SeenFacts
<1>7. \A r \in Pairs : quote'[r[1]].status = "settled" /\ quote'[r[1]].seen = r[2]
        => quote[r[1]].status = "settled" /\ quote[r[1]].seen = r[2]
  BY <1>6, PairFacts
<1>8. TypeOK'
  BY <1>1, <1>3, <1>4, <1>5, <1>6, Before, Typed, TypedNext
<1>9. Grows
  BY <1>3, <1>4, <1>6, Before, Typed DEF Grows
<1>10. WorkersSound'
  <2>1. PICK x \in Local : x = w
    BY <1>1
  <2>2. Sound(x)'
    BY <1>1, <1>8, <1>9, <2>1, SoundStays, Before
  <2> QED  BY <1>1, <1>8, <1>9, <2>1, <2>2, WorkersStaySound
<1>11. \A r \in Pairs : applied'[r] > 0 => applied[r] > 0 \/ Confirmed(r)
  BY <1>2, <1>3, <1>4
<1>12. MoneySound'
  BY <1>5, <1>7, <1>8, <1>9, <1>11, MoneyStaysSound
<1> QED  BY <1>8, <1>9, <1>10, <1>12 DEF QuotesInv

\* A payment that was applied is marked credited.
LEMMA SettleInv ==
  ASSUME QuotesInv, NEW v \in Workers, Settle(v)
  PROVE  QuotesInv' /\ Grows
<1> DEFINE p == worker[v].pair
           w == [worker[v] EXCEPT !.stage = "rollup"]
<1>1. p \in Pairs /\ Confirmed(p) /\ applied[p] >= 1
  BY Holding DEF Settle
<1>2. worker[v] \in Local /\ Sound(worker[v]) /\ worker \in [Workers -> Local]
  BY Before, Typed
<1>3. w \in Local /\ w.stage = "rollup" /\ w.pair = p /\ w.tip = worker[v].tip
      /\ w.todo = worker[v].todo
  BY <1>2 DEF Local, Stages
<1>4. /\ worker' = [worker EXCEPT ![v] = w]
      /\ payment' = IF payment[p] = NoClaim THEN payment
                    ELSE [payment EXCEPT ![p].credited = TRUE]
      /\ UNCHANGED <<quote, chain, tip, alive, applied, clock, crashes>>
  BY <1>2 DEF Settle
<1> HIDE DEF p, w
<1>5. Sound(w)
  BY <1>1, <1>2, <1>3 DEF Sound
<1>6. payment \in [Pairs -> Claim0 \cup {NoClaim}]
  BY Before, Typed
<1>7. /\ payment' \in [Pairs -> Claim0 \cup {NoClaim}]
      /\ \A r \in Pairs : r # p => payment'[r] = payment[r]
  <2>1. CASE payment[p] = NoClaim
    BY <2>1, <1>4, <1>6
  <2>2. CASE payment[p] # NoClaim
    <3> DEFINE c == [payment[p] EXCEPT !.credited = TRUE]
    <3>1. c \in Claim0
      BY <1>1, <1>6, <2>2 DEF Claim0
    <3>2. payment' = [payment EXCEPT ![p] = c]
      BY <1>4, <2>2
    <3> HIDE DEF c
    <3> QED  BY <3>1, <3>2, <1>1, <1>6
  <2> QED  BY <2>1, <2>2
<1>8. \A r \in Pairs : IsCredited(r)' => IsCredited(r) \/ applied[r] >= 1
  BY <1>1, <1>7 DEF IsCredited
<1> QED  BY <1>3, <1>4, <1>5, <1>7, <1>8, TickMoves, Before, Typed

\* A quote is settled on a payment that was applied.
LEMMA RollupInv ==
  ASSUME QuotesInv, NEW v \in Workers, Rollup(v)
  PROVE  QuotesInv' /\ Grows
<1> DEFINE q == worker[v].pair[1]
           x == worker[v].pair[2]
           credited == {y \in Txs : IsCredited(<<q, y>>)}
           row == [quote[q] EXCEPT !.status = "settled", !.earned = credited, !.seen = x]
           w == [worker[v] EXCEPT !.stage = "work", !.pair = NoPair]
<1>1. w \in Local /\ Sound(w) /\ worker' = [worker EXCEPT ![v] = w]
  BY DoneIsSound DEF Rollup
<1>2. /\ q \in Quotes /\ x \in Txs /\ worker[v].pair \in Pairs /\ applied[worker[v].pair] >= 1
      /\ quote[q].status # "none"
  BY Holding DEF Rollup, Confirmed, Known
<1>3. worker[v].pair = <<q, x>>
  BY <1>2, PairFacts
<1>4. quote \in [Quotes -> Row]
  BY Before, Typed
<1>5. row \in Row /\ row.status = "settled" /\ row.key = quote[q].key /\ row.seen = x
  <2>1. credited \in SUBSET Txs /\ quote[q] \in Row
    BY <1>2, <1>4
  <2> HIDE DEF credited, q, x
  <2> QED  BY <1>2, <2>1 DEF Row, Statuses
<1>6. quote' = [quote EXCEPT ![q] = row]
        /\ UNCHANGED <<payment, chain, tip, alive, applied, clock, crashes>>
  BY <1>2, <1>4 DEF Rollup
<1> HIDE DEF w, row
<1>7. \A p \in Pairs : quote'[p[1]].status = "settled" /\ quote'[p[1]].seen = p[2]
        => \/ quote[p[1]].status = "settled" /\ quote[p[1]].seen = p[2]
           \/ applied[p] >= 1
  <2> SUFFICES ASSUME NEW p \in Pairs, p[1] = q, p[2] = x PROVE applied[p] >= 1
    BY <1>2, <1>4, <1>5, <1>6, PairFacts
  <2> QED  BY <1>2, <1>3, PairFacts
<1>8. quote' \in [Quotes -> Row] /\ \A r \in Quotes : quote[r].status # "none" =>
        quote'[r].status # "none" /\ quote'[r].key = quote[r].key
  BY <1>2, <1>4, <1>5, <1>6
<1> QED  BY <1>1, <1>6, <1>7, <1>8, TickMoves, Before, Typed DEF IsCredited

\* The tick ends with the sweep.
LEMMA TickEndInv ==
  ASSUME QuotesInv, NEW v \in Workers, TickEnd(v)
  PROVE  QuotesInv' /\ Grows
<1>1. worker' = [worker EXCEPT ![v] = IdleWorker]
        /\ UNCHANGED <<payment, chain, tip, alive, applied, clock, crashes>>
  BY DEF TickEnd
<1>2. quote \in [Quotes -> Row]
  BY Before, Typed
<1>3. quote' = [q \in Quotes |-> quote'[q]]
  BY DEF TickEnd
<1>4. \A q \in Quotes : \/ quote'[q] = quote[q]
                        \/ /\ quote[q].status # "none"
                           /\ quote'[q] = [quote[q] EXCEPT !.status = "expired"]
  BY DEF TickEnd
<1>5. \A q \in Quotes :
        /\ quote'[q] \in Row
        /\ quote[q].status # "none" =>
             quote'[q].status # "none" /\ quote'[q].key = quote[q].key
        /\ quote'[q].status = "settled" => quote'[q] = quote[q]
  <2> SUFFICES ASSUME NEW q \in Quotes, quote[q].status # "none",
                      quote'[q] = [quote[q] EXCEPT !.status = "expired"]
               PROVE  /\ quote'[q] \in Row /\ quote'[q].key = quote[q].key
                      /\ quote'[q].status = "expired"
    BY <1>2, <1>4
  <2>1. PICK row \in Row : row = quote[q]
    BY <1>2
  <2> QED  BY <2>1 DEF Row, Statuses
<1>6. quote' \in [Quotes -> Row]
  BY <1>3, <1>5
<1>7. \A p \in Pairs : quote'[p[1]].status = "settled" /\ quote'[p[1]].seen = p[2]
        => quote[p[1]].status = "settled" /\ quote[p[1]].seen = p[2]
  BY <1>5, PairFacts
<1> QED  BY <1>1, <1>5, <1>6, <1>7, IdleIsSound, TickMoves, Before, Typed DEF IsCredited

\* A process dies, starts again and opens the database.
LEMMA CrashInv ==
  ASSUME QuotesInv, NEW v \in Workers, Crash(v)
  PROVE  QuotesInv' /\ Grows
<1>1. /\ worker' = [worker EXCEPT ![v] = IdleWorker] /\ crashes' = crashes + 1
      /\ payment' = Backfilled(quote, payment)
      /\ UNCHANGED <<quote, chain, tip, alive, applied, clock>>
  BY DEF Crash
<1>2. payment' \in [Pairs -> Claim0 \cup {NoClaim}]
  BY <1>1, BackfillFacts, Before
<1>3. \A p \in Pairs : IsCredited(p)' => IsCredited(p) \/ applied[p] >= 1
  BY <1>1, BackfillFacts, Before DEF IsCredited
<1>4. crashes' \in Nat
  BY <1>1, Before, Typed
<1> QED  BY <1>1, <1>2, <1>3, <1>4, IdleIsSound, TickMoves, Before, Typed

\* Every step.
LEMMA StepInv == QuotesInv /\ [Next]_vars => QuotesInv' /\ Grows
<1> SUFFICES ASSUME QuotesInv, [Next]_vars PROVE QuotesInv' /\ Grows
  OBVIOUS
<1>1. CASE Rest
  BY <1>1, CreateInv, CancelInv, OutsideInv DEF Rest
<1>2. CASE \E x \in Txs, q \in Quotes : Pay(x, q)
  BY <1>2, PayInv
<1>3. CASE Mine \/ Advance
  BY <1>3, OutsideInv
<1>4. CASE \E v \in Workers : ScanReply(v) \/ ScanFails(v) \/ Crash(v)
  BY <1>4, ScanReplyInv, ScanFailsInv, CrashInv
<1>5. CASE \E v \in Workers : WorkerStep(v)
  <2> PICK v \in Workers : WorkerStep(v)
    BY <1>5
  <2>1. CASE \E p \in Pairs : MarkSeen(v, p) \/ ClaimRefused(v, p) \/ Claim(v, p)
    BY <2>1, MarkSeenInv, ClaimRefusedInv, ClaimInv
  <2>2. CASE Credit(v) \/ CreditRefused(v) \/ CreditThrows(v)
    BY <2>2, CreditInv, CreditRefusedInv, CreditThrowsInv
  <2>3. CASE Settle(v) \/ Rollup(v) \/ TickEnd(v)
    BY <2>3, SettleInv, RollupInv, TickEndInv
  <2> QED  BY <2>1, <2>2, <2>3 DEF WorkerStep
<1>6. CASE UNCHANGED vars
  <2>1. QuotesInv'
    BY <1>6 DEF vars, QuotesInv, TypeOK, WorkersSound, MoneySound, Sound, Confirmed, Known,
                Matches, Confirmations, IsCredited
  <2>2. Grows
    BY <1>6, Before, Typed DEF vars, Grows
  <2> QED  BY <2>1, <2>2
<1> QED  BY <1>1, <1>2, <1>3, <1>4, <1>5, <1>6 DEF Next

LEMMA QuotesInvAlways == Spec => []QuotesInv
<1> QED  BY InitInv, StepInv, PTL DEF Spec

\* The tables and the workers always have their types.
THEOREM QuotesTypeCorrect == Spec => []TypeOK
<1>1. QuotesInv => TypeOK
  BY DEF QuotesInv
<1> QED  BY <1>1, QuotesInvAlways, PTL

\* Whatever crashes, expires, is cancelled or credited twice: what a quote's watch is
\* credited for is a payment of that quote buried deep enough, and what the payment
\* table calls credited really was, after a restart has filled it in too.
THEOREM CreditIsForConfirmedPayments == Spec => []CreditedIsConfirmed
<1>1. QuotesInv => CreditedIsConfirmed
  BY DEF QuotesInv, MoneySound, CreditedIsConfirmed, Confirmed, Known
<1> QED  BY <1>1, QuotesInvAlways, PTL

-----------------------------------------------------------------------------
(* Without crashes, and while no credit outlasts its claim *)

\* A worker is between the claim of a payment and its settlement.
Holds(v, p) == worker[v].stage \in {"credit", "settle"} /\ worker[v].pair = p

\* A worker holds a claim that is on record, uncredited and too fresh to be retried.
HeldIsFresh ==
  \A v \in Workers, p \in Pairs : Holds(v, p) =>
    payment[p] # NoClaim /\ ~payment[p].credited /\ clock < payment[p].at + Stale

HeldByOne == \A u, v \in Workers, p \in Pairs : Holds(u, p) /\ Holds(v, p) => u = v

UnpaidBefore ==
  \A v \in Workers, p \in Pairs : worker[v].stage = "credit" /\ Holds(v, p) => applied[p] = 0

\* What was paid, once, is on record, or a worker is about to record it.
PaidIsOnRecord ==
  \A p \in Pairs :
    \/ applied[p] = 0
    \/ applied[p] = 1 /\ IsCredited(p)
    \/ applied[p] = 1 /\ \E v \in Workers : worker[v].stage = "settle" /\ Holds(v, p)

\* A quote is settled on a payment that is on record.
RollupIsOnRecord ==
  \A v \in Workers, p \in Pairs :
    worker[v].stage = "rollup" /\ worker[v].pair = p => IsCredited(p)

OnceInv ==
  HeldIsFresh /\ HeldByOne /\ UnpaidBefore /\ PaidIsOnRecord /\ RollupIsOnRecord /\ RollupAgrees

\* A step between claims.
LEMMA OnceRests ==
  ASSUME QuotesInv, OnceInv, UNCHANGED <<payment, applied, clock>>,
         \A q \in Quotes : quote'[q].status = "settled" => quote'[q] = quote[q],
         \A u \in Workers :
           \/ worker'[u] = worker[u]
           \/ /\ worker[u].stage \notin {"credit", "settle", "rollup"}
              /\ worker'[u].stage \notin {"credit", "settle", "rollup"}
  PROVE  OnceInv'
<1>1. \A u \in Workers, p \in Pairs : Holds(u, p)' => Holds(u, p) /\ worker'[u] = worker[u]
  BY DEF Holds
<1>2. \A u \in Workers, p \in Pairs : Holds(u, p) => Holds(u, p)' /\ worker'[u] = worker[u]
  BY DEF Holds
<1>3. HeldIsFresh'
  BY <1>1 DEF OnceInv, HeldIsFresh
<1>4. HeldByOne'
  BY <1>1 DEF OnceInv, HeldByOne
<1>5. UnpaidBefore'
  BY <1>1 DEF OnceInv, UnpaidBefore
<1>6. PaidIsOnRecord'
  BY <1>2 DEF OnceInv, PaidIsOnRecord, IsCredited
<1>7. RollupIsOnRecord'
  BY DEF OnceInv, RollupIsOnRecord, IsCredited
<1>8. RollupAgrees'
  <2> SUFFICES ASSUME NEW q \in Quotes, quote'[q].status = "settled",
                      \A u \in Workers : worker'[u].stage = "rollup" => worker'[u].pair[1] # q
               PROVE  quote'[q].earned # {} /\ quote'[q].earned =
                        {x \in Txs : IsCredited(<<q, x>>)'}
    BY DEF RollupAgrees
  <2>1. quote'[q] = quote[q]
    OBVIOUS
  <2>2. \A u \in Workers : worker[u].stage = "rollup" => worker[u].pair[1] # q
    OBVIOUS
  <2>3. \A x \in Txs : IsCredited(<<q, x>>)' <=> IsCredited(<<q, x>>)
    BY DEF IsCredited
  <2> QED  BY <2>1, <2>2, <2>3 DEF OnceInv, RollupAgrees
<1> QED  BY <1>3, <1>4, <1>5, <1>6, <1>7, <1>8 DEF OnceInv

\* Time does not pass a claim by that a worker holds.
LEMMA AdvanceOnce ==
  ASSUME QuotesInv, OnceInv, Prompt, Advance
  PROVE  OnceInv'
<1>1. UNCHANGED <<quote, payment, worker, applied>> /\ clock' = clock + 1
  BY DEF Advance
<1>2. HeldIsFresh'
  <2> SUFFICES ASSUME NEW v \in Workers, NEW p \in Pairs, Holds(v, p)'
               PROVE  payment'[p] # NoClaim /\ ~payment'[p].credited
                      /\ clock' < payment'[p].at + Stale
    BY DEF HeldIsFresh
  <2>1. Holds(v, p)
    BY <1>1 DEF Holds
  <2>2. payment[p] # NoClaim /\ ~payment[p].credited
    BY <2>1 DEF OnceInv, HeldIsFresh
  <2>3. clock + 1 < payment[p].at + Stale
    BY <2>1, <2>2 DEF Advance, Holds
  <2> QED  BY <1>1, <2>2, <2>3
<1>3. HeldByOne' /\ UnpaidBefore' /\ PaidIsOnRecord' /\ RollupIsOnRecord' /\ RollupAgrees'
  BY <1>1 DEF OnceInv, HeldByOne, UnpaidBefore, PaidIsOnRecord, RollupIsOnRecord, RollupAgrees,
              Holds, IsCredited
<1> QED  BY <1>2, <1>3 DEF OnceInv

\* What can be claimed, no worker holds and nobody was paid for.
LEMMA ClaimableIsFree ==
  ASSUME QuotesInv, OnceInv, NEW p \in Pairs, Claimable(p)
  PROVE  (\A u \in Workers : ~Holds(u, p)) /\ applied[p] = 0 /\ ~IsCredited(p)
<1>1. payment[p] = NoClaim \/ payment[p] \in Claim0
  BY Before, Typed
<1>2. ASSUME NEW u \in Workers PROVE ~Holds(u, p)
  <2> SUFFICES ASSUME Holds(u, p) PROVE FALSE
    OBVIOUS
  <2>1. payment[p] # NoClaim /\ clock < payment[p].at + Stale
    BY DEF OnceInv, HeldIsFresh
  <2>2. payment[p].at + Stale <= clock
    BY <2>1 DEF Claimable
  <2>3. payment[p].at \in Nat /\ Stale \in Nat /\ clock \in Nat
    BY <1>1, <2>1, Before, Typed, QuotesAssumption DEF Claim0
  <2> QED  BY <2>1, <2>2, <2>3
<1>3. ~IsCredited(p)
  BY DEF Claimable, IsCredited
<1>4. applied[p] = 0
  BY <1>2, <1>3 DEF OnceInv, PaidIsOnRecord
<1> QED  BY <1>2, <1>3, <1>4

\* A step that settles nothing and leaves what is on record as credited.
LEMMA RollupRests ==
  ASSUME QuotesInv, OnceInv,
         \A q \in Quotes : quote'[q].status = "settled" => quote'[q] = quote[q],
         \A u \in Workers : worker[u].stage = "rollup" => worker'[u] = worker[u],
         \A p \in Pairs : IsCredited(p)' <=> IsCredited(p)
  PROVE  RollupAgrees'
<1> SUFFICES ASSUME NEW q \in Quotes, quote'[q].status = "settled",
                    \A u \in Workers : worker'[u].stage = "rollup" => worker'[u].pair[1] # q
             PROVE  quote'[q].earned # {} /\ quote'[q].earned =
                      {x \in Txs : IsCredited(<<q, x>>)'}
  BY DEF RollupAgrees
<1>1. quote'[q] = quote[q]
  OBVIOUS
<1>2. \A u \in Workers : worker[u].stage = "rollup" => worker[u].pair[1] # q
  OBVIOUS
<1>3. \A x \in Txs : IsCredited(<<q, x>>)' <=> IsCredited(<<q, x>>)
  BY DEF Pairs
<1> QED  BY <1>1, <1>2, <1>3 DEF OnceInv, RollupAgrees

\* A claim is granted.
LEMMA ClaimOnce ==
  ASSUME QuotesInv, OnceInv, NEW v \in Workers, NEW p \in Pairs, Claim(v, p)
  PROVE  OnceInv'
<1>1. (\A u \in Workers : ~Holds(u, p)) /\ applied[p] = 0 /\ ~IsCredited(p)
  BY ClaimableIsFree DEF Claim
<1>2. /\ worker[v].stage = "work" /\ UNCHANGED <<quote, applied, clock>>
      /\ worker[v] \in Local /\ worker \in [Workers -> Local]
      /\ payment \in [Pairs -> Claim0 \cup {NoClaim}]
      /\ clock \in Nat /\ Stale \in Nat \ {0}
  BY Before, Typed, QuotesAssumption DEF Claim
<1>3. \E c \in Claim0 \cup {NoClaim} :
        /\ payment' = [payment EXCEPT ![p] = c]
        /\ c # NoClaim => ~c.credited
        /\ worker'[v].stage = "credit" /\ worker'[v].pair = p
             => c # NoClaim /\ ~c.credited /\ clock < c.at + Stale
  <2>1. CASE p[2] \in Dust
    <3>1. payment' = [payment EXCEPT ![p] = NoClaim] /\ worker' = Taken(v, p)
      BY <2>1 DEF Claim
    <3>2. worker'[v].stage = "work"
      BY <1>2, <3>1 DEF Taken
    <3> QED  BY <3>1, <3>2
  <2>2. CASE p[2] \notin Dust
    <3> DEFINE c == [at |-> clock, credited |-> FALSE]
    <3>1. payment' = [payment EXCEPT ![p] = c]
      BY <2>2 DEF Claim
    <3>2. c \in Claim0 /\ ~c.credited /\ clock < c.at + Stale
      BY <1>2 DEF Claim0
    <3>3. c # NoClaim
      BY <3>2, QuotesAbsenceAssumption DEF Claim0
    <3> HIDE DEF c
    <3> QED  BY <3>1, <3>2, <3>3
  <2> QED  BY <2>1, <2>2
<1>4. PICK c \in Claim0 \cup {NoClaim} :
        /\ payment' = [payment EXCEPT ![p] = c]
        /\ c # NoClaim => ~c.credited
        /\ worker'[v].stage = "credit" /\ worker'[v].pair = p
             => c # NoClaim /\ ~c.credited /\ clock < c.at + Stale
  BY <1>3
<1>5. payment'[p] = c /\ \A r \in Pairs : r # p => payment'[r] = payment[r]
  BY <1>2, <1>4
<1>6. /\ \A u \in Workers : u # v => worker'[u] = worker[u]
      /\ worker'[v].stage \in {"work", "credit"}
      /\ worker'[v].stage = "credit" => worker'[v].pair = p
  <2>1. CASE p[2] \in Dust
    BY <1>2, <2>1 DEF Claim, Taken, Local
  <2>2. CASE p[2] \notin Dust
    <3>1. worker' = [Taken(v, p) EXCEPT ![v].stage = "credit", ![v].pair = p]
      BY <2>2 DEF Claim
    <3> QED  BY <1>2, <3>1 DEF Taken, Local
  <2> QED  BY <2>1, <2>2
<1>7. \A u \in Workers, r \in Pairs :
        Holds(u, r)' => \/ u # v /\ r # p /\ Holds(u, r) /\ worker'[u] = worker[u]
                        \/ u = v /\ r = p /\ worker'[v].stage = "credit"
  BY <1>1, <1>6 DEF Holds
<1>8. \A u \in Workers, r \in Pairs : Holds(u, r) => u # v /\ Holds(u, r)' /\ worker'[u] = worker[u]
  BY <1>2, <1>6 DEF Holds
<1>9. \A r \in Pairs : IsCredited(r)' <=> IsCredited(r)
  BY <1>1, <1>4, <1>5 DEF IsCredited
<1>10. HeldIsFresh'
  <2> SUFFICES ASSUME NEW u \in Workers, NEW r \in Pairs, Holds(u, r)'
               PROVE  payment'[r] # NoClaim /\ ~payment'[r].credited
                      /\ clock' < payment'[r].at + Stale
    BY DEF HeldIsFresh
  <2>1. CASE r # p /\ Holds(u, r)
    BY <1>2, <1>5, <2>1 DEF OnceInv, HeldIsFresh
  <2>2. CASE u = v /\ r = p /\ worker'[v].stage = "credit"
    BY <1>2, <1>4, <1>5, <1>6, <2>2
  <2> QED  BY <1>7, <2>1, <2>2
<1>11. HeldByOne'
  BY <1>7 DEF OnceInv, HeldByOne
<1>12. UnpaidBefore'
  BY <1>1, <1>2, <1>7 DEF OnceInv, UnpaidBefore
<1>13. PaidIsOnRecord'
  BY <1>2, <1>8, <1>9 DEF OnceInv, PaidIsOnRecord
<1>14. RollupIsOnRecord'
  BY <1>6, <1>9 DEF OnceInv, RollupIsOnRecord
<1>15. RollupAgrees'
  BY <1>2, <1>6, <1>9, RollupRests
<1> QED  BY <1>10, <1>11, <1>12, <1>13, <1>14, <1>15 DEF OnceInv

\* A watch is credited, for the first time.
LEMMA CreditOnce ==
  ASSUME QuotesInv, OnceInv, NEW v \in Workers, Credit(v)
  PROVE  OnceInv'
<1>1. PICK p \in Pairs : p = worker[v].pair
  BY Holding DEF Credit
<1>2. Holds(v, p) /\ worker[v].stage = "credit"
  BY <1>1 DEF Credit, Holds
<1>3. applied[p] = 0
  BY <1>2 DEF OnceInv, UnpaidBefore
<1>4. UNCHANGED <<quote, payment, clock>>
      /\ applied' = [applied EXCEPT ![p] = applied[p] + 1]
      /\ worker' = [worker EXCEPT ![v].stage = "settle"]
      /\ worker \in [Workers -> Local] /\ applied \in [Pairs -> Nat]
  BY <1>1, Before, Typed DEF Credit
<1>5. applied'[p] = 1 /\ \A r \in Pairs : r # p => applied'[r] = applied[r]
  BY <1>3, <1>4
<1>6. /\ \A u \in Workers : u # v => worker'[u] = worker[u]
      /\ worker'[v].stage = "settle" /\ worker'[v].pair = p
  BY <1>1, <1>4 DEF Local
<1>7. \A u \in Workers, r \in Pairs : Holds(u, r)' <=> Holds(u, r)
  BY <1>1, <1>2, <1>6 DEF Holds
<1>8. \A u \in Workers, r \in Pairs : u # v /\ Holds(u, r) => r # p
  BY <1>2 DEF OnceInv, HeldByOne
<1>9. HeldIsFresh'
  BY <1>4, <1>7 DEF OnceInv, HeldIsFresh
<1>10. HeldByOne'
  BY <1>7 DEF OnceInv, HeldByOne
<1>11. UnpaidBefore'
  BY <1>5, <1>6, <1>7, <1>8 DEF OnceInv, UnpaidBefore
<1>12. PaidIsOnRecord'
  <2> SUFFICES ASSUME NEW r \in Pairs
               PROVE  \/ applied'[r] = 0
                      \/ applied'[r] = 1 /\ IsCredited(r)'
                      \/ /\ applied'[r] = 1
                         /\ \E u \in Workers : worker'[u].stage = "settle" /\ Holds(u, r)'
    BY DEF PaidIsOnRecord
  <2>1. CASE r = p
    BY <1>2, <1>5, <1>6, <1>7, <2>1
  <2>2. CASE r # p
    BY <1>2, <1>4, <1>5, <1>6, <1>7, <2>2 DEF OnceInv, PaidIsOnRecord, IsCredited
  <2> QED  BY <2>1, <2>2
<1>13. RollupIsOnRecord'
  BY <1>4, <1>6 DEF OnceInv, RollupIsOnRecord, IsCredited
<1>14. RollupAgrees'
  BY <1>2, <1>4, <1>6, RollupRests DEF IsCredited
<1> QED  BY <1>9, <1>10, <1>11, <1>12, <1>13, <1>14 DEF OnceInv

\* The watch is gone, and the claim is nobody else's.
LEMMA CreditRefusedOnce ==
  ASSUME QuotesInv, OnceInv, NEW v \in Workers, CreditRefused(v)
  PROVE  OnceInv'
<1>1. PICK p \in Pairs : p = worker[v].pair
  BY Holding DEF CreditRefused
<1>2. Holds(v, p) /\ worker[v].stage = "credit"
  BY <1>1 DEF CreditRefused, Holds
<1>3. applied[p] = 0 /\ payment[p] # NoClaim /\ ~payment[p].credited
  BY <1>2 DEF OnceInv, UnpaidBefore, HeldIsFresh
<1>4. UNCHANGED <<applied, clock>> /\ quote' = Seen(p)
      /\ payment' = [payment EXCEPT ![p] = NoClaim]
      /\ worker' = [worker EXCEPT ![v].stage = "work", ![v].pair = NoPair]
      /\ worker \in [Workers -> Local] /\ payment \in [Pairs -> Claim0 \cup {NoClaim}]
  BY <1>1, <1>3, Before, Typed DEF CreditRefused, Released
<1>5. payment'[p] = NoClaim /\ \A r \in Pairs : r # p => payment'[r] = payment[r]
  BY <1>4
<1>6. (\A u \in Workers : u # v => worker'[u] = worker[u]) /\ worker'[v].stage = "work"
  BY <1>4 DEF Local
<1>7. \A u \in Workers, r \in Pairs :
        Holds(u, r)' => u # v /\ r # p /\ Holds(u, r) /\ worker'[u] = worker[u]
  BY <1>2, <1>6 DEF Holds, OnceInv, HeldByOne
<1>8. \A u \in Workers, r \in Pairs :
        Holds(u, r) /\ worker[u].stage = "settle" => Holds(u, r)' /\ worker'[u] = worker[u]
  BY <1>2, <1>6 DEF Holds
<1>9. \A r \in Pairs : IsCredited(r)' <=> IsCredited(r)
  BY <1>3, <1>5 DEF IsCredited
<1>10. HeldIsFresh'
  BY <1>4, <1>5, <1>7 DEF OnceInv, HeldIsFresh
<1>11. HeldByOne'
  BY <1>7 DEF OnceInv, HeldByOne
<1>12. UnpaidBefore'
  BY <1>4, <1>7 DEF OnceInv, UnpaidBefore
<1>13. PaidIsOnRecord'
  BY <1>4, <1>8, <1>9 DEF OnceInv, PaidIsOnRecord
<1>14. RollupIsOnRecord'
  BY <1>6, <1>9 DEF OnceInv, RollupIsOnRecord
<1>15. \A q \in Quotes : quote'[q].status = "settled" => quote'[q] = quote[q]
  BY <1>4, SeenFacts
<1>16. RollupAgrees'
  BY <1>2, <1>6, <1>9, <1>15, RollupRests
<1> QED  BY <1>10, <1>11, <1>12, <1>13, <1>14, <1>16 DEF OnceInv

\* The payment is put on record as credited.
LEMMA SettleOnce ==
  ASSUME QuotesInv, OnceInv, NEW v \in Workers, Settle(v)
  PROVE  OnceInv'
<1>1. PICK p \in Pairs : p = worker[v].pair
  BY Holding DEF Settle
<1>2. Holds(v, p) /\ worker[v].stage = "settle"
  BY <1>1 DEF Settle, Holds
<1>3. payment[p] # NoClaim
  BY <1>2 DEF OnceInv, HeldIsFresh
<1>4. UNCHANGED <<quote, applied, clock>>
      /\ payment' = [payment EXCEPT ![p].credited = TRUE]
      /\ worker' = [worker EXCEPT ![v].stage = "rollup"]
      /\ worker \in [Workers -> Local] /\ payment \in [Pairs -> Claim0 \cup {NoClaim}]
  BY <1>1, <1>3, Before, Typed DEF Settle
<1>5. payment[p] \in Claim0 /\ payment'[p] = [payment[p] EXCEPT !.credited = TRUE]
      /\ \A r \in Pairs : r # p => payment'[r] = payment[r]
  BY <1>3, <1>4
<1>6. IsCredited(p)'
  <2>1. payment'[p] \in Claim0 /\ payment'[p].credited
    BY <1>5 DEF Claim0
  <2> QED  BY <2>1, QuotesAbsenceAssumption DEF IsCredited, Claim0
<1>7. /\ \A u \in Workers : u # v => worker'[u] = worker[u]
      /\ worker'[v].stage = "rollup" /\ worker'[v].pair = p
  BY <1>1, <1>4 DEF Local
<1>8. \A u \in Workers, r \in Pairs :
        Holds(u, r)' => u # v /\ r # p /\ Holds(u, r) /\ worker'[u] = worker[u]
  BY <1>2, <1>7 DEF Holds, OnceInv, HeldByOne
<1>9. \A u \in Workers, r \in Pairs :
        r # p /\ Holds(u, r) => Holds(u, r)' /\ worker'[u] = worker[u]
  BY <1>2, <1>7 DEF Holds
<1>10. \A r \in Pairs : r # p => (IsCredited(r)' <=> IsCredited(r))
  BY <1>5 DEF IsCredited
<1>11. HeldIsFresh'
  BY <1>4, <1>5, <1>8 DEF OnceInv, HeldIsFresh
<1>12. HeldByOne'
  BY <1>8 DEF OnceInv, HeldByOne
<1>13. UnpaidBefore'
  BY <1>4, <1>8 DEF OnceInv, UnpaidBefore
<1>14. PaidIsOnRecord'
  <2> SUFFICES ASSUME NEW r \in Pairs
               PROVE  \/ applied'[r] = 0
                      \/ applied'[r] = 1 /\ IsCredited(r)'
                      \/ /\ applied'[r] = 1
                         /\ \E u \in Workers : worker'[u].stage = "settle" /\ Holds(u, r)'
    BY DEF PaidIsOnRecord
  <2>1. CASE r = p
    BY <1>4, <1>6, <2>1 DEF OnceInv, PaidIsOnRecord
  <2>2. CASE r # p
    BY <1>4, <1>9, <1>10, <2>2 DEF OnceInv, PaidIsOnRecord
  <2> QED  BY <2>1, <2>2
<1>15. RollupIsOnRecord'
  BY <1>6, <1>7, <1>10 DEF OnceInv, RollupIsOnRecord
<1>16. RollupAgrees'
  <2> SUFFICES ASSUME NEW q \in Quotes, quote'[q].status = "settled",
                      \A u \in Workers : worker'[u].stage = "rollup" => worker'[u].pair[1] # q
               PROVE  quote'[q].earned # {} /\ quote'[q].earned =
                        {x \in Txs : IsCredited(<<q, x>>)'}
    BY DEF RollupAgrees
  <2>1. p[1] # q
    BY <1>7
  <2>2. \A u \in Workers : worker[u].stage = "rollup" => worker[u].pair[1] # q
    BY <1>2, <1>7
  <2>3. \A x \in Txs : IsCredited(<<q, x>>)' <=> IsCredited(<<q, x>>)
    BY <1>10, <2>1 DEF Pairs
  <2> QED  BY <1>4, <2>2, <2>3 DEF OnceInv, RollupAgrees
<1> QED  BY <1>11, <1>12, <1>13, <1>14, <1>15, <1>16 DEF OnceInv

\* The quote is settled with the total of what is on record.
LEMMA RollupOnce ==
  ASSUME QuotesInv, OnceInv, NEW v \in Workers, Rollup(v)
  PROVE  OnceInv'
<1>1. PICK p \in Pairs : p = worker[v].pair
  BY Holding DEF Rollup
<1>2. p[1] \in Quotes /\ p[2] \in Txs /\ p = <<p[1], p[2]>>
  BY PairFacts
<1>3. worker[v].stage = "rollup" /\ IsCredited(p)
  BY <1>1 DEF Rollup, OnceInv, RollupIsOnRecord
<1>4. UNCHANGED <<payment, applied, clock>>
      /\ worker' = [worker EXCEPT ![v].stage = "work", ![v].pair = NoPair]
      /\ worker \in [Workers -> Local] /\ quote \in [Quotes -> Row]
  BY Before, Typed DEF Rollup
<1> DEFINE credited == {y \in Txs : IsCredited(<<p[1], y>>)}
<1>5. quote' = [quote EXCEPT ![p[1]].status = "settled", ![p[1]].earned = credited,
                             ![p[1]].seen = p[2]]
  BY <1>1 DEF Rollup
<1> HIDE DEF credited
<1>6. /\ quote'[p[1]].earned = credited
      /\ \A q \in Quotes : q # p[1] => quote'[q] = quote[q]
  BY <1>2, <1>4, <1>5 DEF Row
<1>7. (\A u \in Workers : u # v => worker'[u] = worker[u]) /\ worker'[v].stage = "work"
  BY <1>4 DEF Local
<1>8. \A u \in Workers, r \in Pairs :
        (Holds(u, r)' <=> Holds(u, r)) /\ (Holds(u, r) => worker'[u] = worker[u])
  BY <1>3, <1>7 DEF Holds
<1>9. HeldIsFresh'
  BY <1>4, <1>8 DEF OnceInv, HeldIsFresh
<1>10. HeldByOne'
  BY <1>8 DEF OnceInv, HeldByOne
<1>11. UnpaidBefore'
  BY <1>4, <1>8 DEF OnceInv, UnpaidBefore
<1>12. PaidIsOnRecord'
  BY <1>4, <1>8 DEF OnceInv, PaidIsOnRecord, IsCredited
<1>13. RollupIsOnRecord'
  BY <1>4, <1>7 DEF OnceInv, RollupIsOnRecord, IsCredited
<1>14. RollupAgrees'
  <2> SUFFICES ASSUME NEW q \in Quotes, quote'[q].status = "settled",
                      \A u \in Workers : worker'[u].stage = "rollup" => worker'[u].pair[1] # q
               PROVE  quote'[q].earned # {} /\ quote'[q].earned =
                        {x \in Txs : IsCredited(<<q, x>>)'}
    BY DEF RollupAgrees
  <2>1. \A x \in Txs : IsCredited(<<q, x>>)' <=> IsCredited(<<q, x>>)
    BY <1>4 DEF IsCredited
  <2>2. CASE q = p[1]
    BY <1>2, <1>3, <1>6, <2>1, <2>2 DEF credited
  <2>3. CASE q # p[1]
    <3>1. \A u \in Workers : worker[u].stage = "rollup" => worker[u].pair[1] # q
      BY <1>1, <1>7, <2>3
    <3> QED  BY <1>6, <2>1, <2>3, <3>1 DEF OnceInv, RollupAgrees
  <2> QED  BY <2>2, <2>3
<1> QED  BY <1>9, <1>10, <1>11, <1>12, <1>13, <1>14 DEF OnceInv

\* Every step but a crash.
LEMMA StepOnce == Prompt /\ QuotesInv /\ OnceInv /\ crashes' = 0 /\ [Next]_vars => OnceInv'
<1> SUFFICES ASSUME Prompt, QuotesInv, OnceInv, crashes' = 0, [Next]_vars PROVE OnceInv'
  OBVIOUS
<1>1. CASE Rest
  <2> PICK q \in Quotes : (\E k \in Keys : CreateQuote(q, k)) \/ CancelQuote(q) \/ LoseWatch(q)
    BY <1>1 DEF Rest
  <2>1. UNCHANGED <<payment, applied, clock, worker>>
    BY DEF CreateQuote, CancelQuote, LoseWatch
  <2>2. \A r \in Quotes : quote'[r].status = "settled" => quote'[r] = quote[r]
    <3>1. quote \in [Quotes -> Row]
      BY Before, Typed
    <3>2. \/ quote' = quote
          \/ \E row : /\ quote' = [quote EXCEPT ![q] = row]
                      /\ row.status # "settled"
      BY <3>1 DEF CreateQuote, CancelQuote, LoseWatch, Row
    <3> QED  BY <3>1, <3>2
  <2> QED  BY <2>1, <2>2, OnceRests
<1>2. CASE (\E x \in Txs, q \in Quotes : Pay(x, q)) \/ Mine
  <2>1. UNCHANGED <<quote, payment, applied, clock, worker>>
    BY <1>2 DEF Pay, Mine
  <2> QED  BY <2>1, OnceRests
<1>3. CASE Advance
  BY <1>3, AdvanceOnce
<1>4. CASE \E v \in Workers : ScanReply(v) \/ ScanFails(v)
  <2> PICK v \in Workers : ScanReply(v) \/ ScanFails(v)
    BY <1>4
  <2>1. UNCHANGED <<quote, payment, applied, clock>>
    BY DEF ScanReply, ScanFails
  <2>2. /\ \A u \in Workers : u # v => worker'[u] = worker[u]
        /\ worker[v].stage = "idle" /\ worker'[v].stage = "work"
    BY Before, Typed DEF ScanReply, ScanFails, IdleWorker
  <2> QED  BY <2>1, <2>2, OnceRests
<1>5. CASE \E v \in Workers : Crash(v)
  BY <1>5, Before, Typed DEF Crash
<1>6. CASE \E v \in Workers : WorkerStep(v)
  <2> PICK v \in Workers : WorkerStep(v)
    BY <1>6
  <2>1. CASE \E p \in Pairs : MarkSeen(v, p) \/ ClaimRefused(v, p)
    <3> PICK p \in Pairs : MarkSeen(v, p) \/ ClaimRefused(v, p)
      BY <2>1
    <3>1. UNCHANGED <<payment, applied, clock>> /\ (quote' = Seen(p) \/ quote' = quote)
          /\ worker' = Taken(v, p) /\ worker[v].stage = "work"
      BY DEF MarkSeen, ClaimRefused
    <3>2. \A q \in Quotes : quote'[q].status = "settled" => quote'[q] = quote[q]
      BY <3>1, SeenFacts
    <3>3. (\A u \in Workers : u # v => worker'[u] = worker[u]) /\ worker'[v].stage = "work"
      BY <3>1, Before, Typed DEF Taken, Local
    <3> QED  BY <3>1, <3>2, <3>3, OnceRests
  <2>2. CASE TickEnd(v)
    <3>1. UNCHANGED <<payment, applied, clock>> /\ worker' = [worker EXCEPT ![v] = IdleWorker]
          /\ worker[v].stage = "work"
      BY <2>2 DEF TickEnd
    <3>2. \A q \in Quotes : quote'[q].status = "settled" => quote'[q] = quote[q]
      <4>1. quote \in [Quotes -> Row]
        BY Before, Typed
      <4> QED  BY <2>2, <4>1 DEF TickEnd, Row
    <3>3. (\A u \in Workers : u # v => worker'[u] = worker[u]) /\ worker'[v].stage = "idle"
      BY <3>1, Before, Typed DEF IdleWorker
    <3> QED  BY <3>1, <3>2, <3>3, OnceRests
  <2>3. CASE \E p \in Pairs : Claim(v, p)
    BY <2>3, ClaimOnce
  <2>4. CASE Credit(v) \/ CreditRefused(v) \/ Settle(v) \/ Rollup(v)
    BY <2>4, CreditOnce, CreditRefusedOnce, SettleOnce, RollupOnce
  <2>5. CASE CreditThrows(v)
    BY <2>5, Before, Typed DEF CreditThrows
  <2> QED  BY <2>1, <2>2, <2>3, <2>4, <2>5 DEF WorkerStep
<1>7. CASE UNCHANGED vars
  BY <1>7, OnceRests DEF vars
<1> QED  BY <1>1, <1>2, <1>3, <1>4, <1>5, <1>6, <1>7 DEF Next

\* The database at the start: nothing, or one settled quote and its payment, which
\* opening the database has put on record.
LEMMA OldFacts ==
  ASSUME Init
  PROVE  \E old \in Legacy \cup {NoPair} :
           /\ \A p \in Pairs : /\ applied[p] = IF p = old THEN 1 ELSE 0
                               /\ IsCredited(p) <=> p = old
                               /\ p = old => quote[p[1]].earned = {p[2]}
                               /\ quote[p[1]].status = "settled" => <<p[1], old[2]>> = old
                               /\ Known(p) => p = old
           /\ \A q \in Quotes : quote[q].status = "settled" => old # NoPair /\ q = old[1]
           /\ \A v \in Workers : worker[v] = IdleWorker
<1>1. PICK old \in Legacy \cup {NoPair}, k \in Keys :
        /\ quote   = [q \in Quotes |-> IF old # NoPair /\ q = old[1]
                                       THEN LegacyQuote(old[2], k) ELSE NoQuote]
        /\ payment = Backfilled(quote, [p \in Pairs |-> NoClaim])
        /\ chain   = [x \in Txs |-> IF old # NoPair /\ x = old[2]
                                    THEN [key |-> k, height |-> 1] ELSE NoTx]
        /\ worker  = [v \in Workers |-> IdleWorker]
        /\ applied = [p \in Pairs |-> IF p = old THEN 1 ELSE 0]
  BY DEF Init
<1>2. old # NoPair => old \in Pairs /\ old = <<old[1], old[2]>>
  BY QuotesAssumption DEF Pairs
<1>3. \A q \in Quotes : quote[q].status = "settled" => old # NoPair /\ q = old[1]
  BY <1>1 DEF NoQuote
<1>4. old # NoPair => /\ quote[old[1]].status = "settled" /\ quote[old[1]].seen = old[2]
                      /\ quote[old[1]].earned = {old[2]}
  BY <1>1, <1>2, PairFacts DEF LegacyQuote
<1>5. ASSUME NEW p \in Pairs
      PROVE  /\ applied[p] = IF p = old THEN 1 ELSE 0
             /\ IsCredited(p) <=> p = old
             /\ p = old => quote[p[1]].earned = {p[2]}
             /\ quote[p[1]].status = "settled" => <<p[1], old[2]>> = old
             /\ Known(p) => p = old
  <2>1. p # NoPair /\ p[1] \in Quotes /\ p[2] \in Txs /\ p = <<p[1], p[2]>>
    BY PairFacts, QuotesAbsenceAssumption
  <2>2. quote[p[1]].status = "settled" /\ quote[p[1]].seen = p[2] <=> p = old
    BY <1>2, <1>3, <1>4, <2>1
  <2>3. payment[p] = IF quote[p[1]].status = "settled" /\ quote[p[1]].seen = p[2]
                     THEN [at |-> 0, credited |-> TRUE] ELSE NoClaim
    BY <1>1 DEF Backfilled
  <2>4. [at |-> 0, credited |-> TRUE] # NoClaim
    BY OldClaim, QuotesAbsenceAssumption DEF Claim0
  <2>5. IsCredited(p) <=> p = old
    BY <2>2, <2>3, <2>4 DEF IsCredited
  <2>6. ASSUME Known(p) PROVE p = old
    <3>1. chain[p[2]] # NoTx /\ quote[p[1]].status # "none"
      BY <2>6 DEF Known, Matches
    <3>2. old # NoPair /\ p[2] = old[2]
      BY <1>1, <2>1, <3>1
    <3>3. p[1] = old[1]
      BY <1>1, <2>1, <3>1 DEF NoQuote
    <3> QED  BY <1>2, <2>1, <3>2, <3>3
  <2> QED  BY <1>1, <1>2, <1>3, <1>4, <2>1, <2>5, <2>6
<1> QED  BY <1>1, <1>3, <1>5

LEMMA InitOnce == Init => OnceInv
<1> SUFFICES ASSUME Init PROVE OnceInv
  OBVIOUS
<1>1. PICK old \in Legacy \cup {NoPair} :
        /\ \A p \in Pairs : /\ applied[p] = IF p = old THEN 1 ELSE 0
                            /\ IsCredited(p) <=> p = old
                            /\ p = old => quote[p[1]].earned = {p[2]}
                            /\ quote[p[1]].status = "settled" => <<p[1], old[2]>> = old
        /\ \A q \in Quotes : quote[q].status = "settled" => old # NoPair /\ q = old[1]
        /\ \A v \in Workers : worker[v] = IdleWorker
  BY OldFacts
<1>2. \A v \in Workers : worker[v].stage = "idle"
  BY <1>1 DEF IdleWorker
<1>3. HeldIsFresh /\ HeldByOne /\ UnpaidBefore /\ RollupIsOnRecord
  BY <1>2 DEF Holds, HeldIsFresh, HeldByOne, UnpaidBefore, RollupIsOnRecord
<1>4. PaidIsOnRecord
  BY <1>1 DEF PaidIsOnRecord
<1>5. RollupAgrees
  <2> SUFFICES ASSUME NEW q \in Quotes, quote[q].status = "settled"
               PROVE  quote[q].earned # {} /\ quote[q].earned = {x \in Txs : IsCredited(<<q, x>>)}
    BY DEF RollupAgrees
  <2>1. old \in Pairs /\ q = old[1]
    BY <1>1, QuotesAssumption DEF Pairs
  <2>2. quote[q].earned = {old[2]} /\ old[2] \in Txs /\ old = <<q, old[2]>>
    BY <1>1, <2>1, PairFacts
  <2>3. \A x \in Txs : IsCredited(<<q, x>>) <=> x = old[2]
    BY <1>1, <2>2 DEF Pairs
  <2> QED  BY <2>2, <2>3
<1> QED  BY <1>3, <1>4, <1>5 DEF OnceInv

LEMMA OnceInvAlways == ASSUME Prompt PROVE Spec /\ NoCrash => []OnceInv
<1>1. QuotesInv /\ OnceInv /\ (crashes = 0)' /\ [Next]_vars => OnceInv'
  BY StepOnce
<1> QED  BY InitOnce, QuotesInvAlways, <1>1, PTL DEF Spec, NoCrash

\* While no worker crashes and no credit throws late or outlasts its claim, a payment
\* credits the watch of a quote at most once, however many workers see it, in however
\* many ticks.
THEOREM CreditsOnce == ASSUME Prompt PROVE Spec /\ NoCrash => []CreditedOnce
<1>1. OnceInv => CreditedOnce
  BY DEF OnceInv, PaidIsOnRecord, CreditedOnce
<1> QED  BY <1>1, OnceInvAlways, PTL

\* Under the same conditions a settled quote reports exactly the payments credited to it.
THEOREM SettledQuotesAgree == ASSUME Prompt PROVE Spec /\ NoCrash => []RollupAgrees
<1>1. OnceInv => RollupAgrees
  BY DEF OnceInv
<1> QED  BY <1>1, OnceInvAlways, PTL

-----------------------------------------------------------------------------
(* The life of a quote *)

\* What may become of a row.
Forward(old, new) ==
  /\ old.status = "settled" => new.status = "settled"
  /\ old.status \in {"confirming", "expired"} => new.status # "pending"

\* The steps that touch the table of quotes.
LEMMA QuoteSteps ==
  ASSUME [Next]_vars
  PROVE  \/ quote' = quote
         \/ \E r \in Quotes : (\E k \in Keys : CreateQuote(r, k)) \/ CancelQuote(r)
         \/ \E p \in Pairs : quote' = Seen(p)
         \/ \E v \in Workers : TickEnd(v) \/ Rollup(v) \/ CreditRefused(v) \/ CreditThrows(v)
<1>1. CASE Rest
  BY <1>1 DEF Rest, LoseWatch
<1>2. CASE (\E x \in Txs, r \in Quotes : Pay(x, r)) \/ Mine \/ Advance \/ UNCHANGED vars
  BY <1>2 DEF Pay, Mine, Advance, vars
<1>3. CASE \E v \in Workers : ScanReply(v) \/ ScanFails(v) \/ Crash(v)
  BY <1>3 DEF ScanReply, ScanFails, Crash
<1>4. CASE \E v \in Workers : WorkerStep(v)
  <2> PICK v \in Workers : WorkerStep(v)
    BY <1>4
  <2>1. CASE \E p \in Pairs : MarkSeen(v, p) \/ ClaimRefused(v, p) \/ Claim(v, p)
    BY <2>1 DEF MarkSeen, ClaimRefused, Claim
  <2>2. CASE Credit(v) \/ Settle(v)
    BY <2>2 DEF Credit, Settle
  <2> QED  BY <2>1, <2>2 DEF WorkerStep
<1> QED  BY <1>1, <1>2, <1>3, <1>4 DEF Next

LEMMA StepForward ==
  QuotesInv /\ [Next]_vars => \A q \in Quotes : Forward(quote[q], quote'[q])
<1> SUFFICES ASSUME QuotesInv, [Next]_vars, NEW q \in Quotes
             PROVE  Forward(quote[q], quote'[q])
  OBVIOUS
<1>1. quote \in [Quotes -> Row]
  BY Before, Typed
<1>2. CASE quote' = quote
  BY <1>2 DEF Forward
<1>3. CASE \E r \in Quotes : (\E k \in Keys : CreateQuote(r, k)) \/ CancelQuote(r)
  BY <1>1, <1>3 DEF CreateQuote, CancelQuote, Forward, Row
<1>4. CASE \E p \in Pairs : quote' = Seen(p)
  <2> PICK p \in Pairs : quote' = Seen(p)
    BY <1>4
  <2> QED  BY <1>1, PairFacts DEF Seen, Forward, Row
<1>5. CASE \E v \in Workers : TickEnd(v)
  BY <1>1, <1>5 DEF TickEnd, Forward, Row
<1>6. CASE \E v \in Workers : Rollup(v)
  <2> PICK v \in Workers : Rollup(v)
    BY <1>6
  <2>1. worker[v].pair[1] \in Quotes
    BY Holding DEF Rollup
  <2>2. quote'[q] = quote[q] \/ quote'[q].status = "settled"
    BY <1>1, <2>1 DEF Rollup, Row
  <2> QED  BY <2>2 DEF Forward
<1>7. CASE \E v \in Workers : CreditRefused(v) \/ CreditThrows(v)
  <2> PICK v \in Workers : CreditRefused(v) \/ CreditThrows(v)
    BY <1>7
  <2>1. worker[v].pair \in Pairs /\ quote' = Seen(worker[v].pair)
    BY Holding DEF CreditRefused, CreditThrows
  <2> QED  BY <1>4, <2>1
<1> QED  BY QuoteSteps, <1>2, <1>3, <1>4, <1>5, <1>6, <1>7

\* Whatever is swept, seen late or paid again: settling is final, and no open quote goes
\* back to pending.
THEOREM QuotesMoveForward == Spec => StatusMovesForward
<1>1. QuotesInv /\ [Next]_vars =>
        [\A q \in Quotes :
           /\ quote[q].status = "settled" => quote'[q].status = "settled"
           /\ quote[q].status \in {"confirming", "expired"} => quote'[q].status # "pending"]_vars
  BY StepForward DEF Forward
<1> QED  BY <1>1, QuotesInvAlways, PTL DEF Spec, StatusMovesForward

-----------------------------------------------------------------------------
(* The ledger behind the quotes *)

Owed == {p \in Pairs : Matches(p[2], p[1]) /\ Confirmations(p[2], tip) >= Required}

Told == {p \in Pairs : IsCredited(p)}

\* What matches at all matches a quote that exists.
KeysAreKnown ==
  /\ \A q \in Quotes : quote[q].status = "none" => quote[q].key = NoTx
  /\ \A x \in Txs : chain[x] # NoTx => chain[x].key \in Keys
  /\ \A q \in Quotes : quote[q].status # "none" => quote[q].key \in Keys

LEMMA KeysInit == Init => KeysAreKnown
  BY QuotesAbsenceAssumption DEF Init, KeysAreKnown, LegacyQuote, NoQuote

LEMMA KeysStep == QuotesInv /\ KeysAreKnown /\ [Next]_vars => KeysAreKnown'
<1> SUFFICES ASSUME QuotesInv, KeysAreKnown, [Next]_vars PROVE KeysAreKnown'
  OBVIOUS
<1>1. quote \in [Quotes -> Row] /\ chain \in [Txs -> Spot \cup {NoTx}]
  BY Before, Typed
<1> DEFINE Kept(q) == quote'[q].key = quote[q].key
                      /\ (quote'[q].status = "none" <=> quote[q].status = "none")
           Made(q) == quote'[q].status # "none" /\ quote'[q].key \in Keys
<1>2. ASSUME NEW q \in Quotes PROVE Kept(q) \/ Made(q)
  <2>1. CASE quote' = quote
    BY <2>1
  <2>2. CASE \E r \in Quotes : (\E k \in Keys : CreateQuote(r, k)) \/ CancelQuote(r)
    BY <1>1, <2>2 DEF CreateQuote, CancelQuote, Row
  <2>3. ASSUME NEW p \in Pairs, quote' = Seen(p) PROVE Kept(q)
    BY <1>1, <2>3, PairFacts DEF Seen, Row
  <2>4. CASE \E v \in Workers : TickEnd(v)
    BY <1>1, <2>4 DEF TickEnd, Row
  <2>5. ASSUME NEW v \in Workers, Rollup(v) PROVE Kept(q)
    <3>1. worker[v].pair[1] \in Quotes /\ quote[worker[v].pair[1]].status # "none"
      BY <2>5, Holding DEF Rollup, Confirmed, Known
    <3> QED  BY <1>1, <2>5, <3>1 DEF Rollup, Row
  <2>6. ASSUME NEW v \in Workers, CreditRefused(v) \/ CreditThrows(v) PROVE Kept(q)
    BY <2>3, <2>6, Holding DEF CreditRefused, CreditThrows
  <2> QED  BY QuoteSteps, <2>1, <2>2, <2>3, <2>4, <2>5, <2>6
<1>3. \/ chain' = chain
      \/ \E x \in Txs, q \in Quotes : Pay(x, q)
  BY DEF Next, vars, Rest, CreateQuote, CancelQuote, LoseWatch, Mine, Advance, ScanReply, ScanFails,
         Crash, WorkerStep, MarkSeen, ClaimRefused, Claim, Credit, CreditRefused, CreditThrows,
         Settle, Rollup, TickEnd
<1>4. \A x \in Txs : chain'[x] # NoTx => chain'[x].key \in Keys
  <2>1. CASE chain' = chain
    BY <2>1 DEF KeysAreKnown
  <2>2. CASE \E x \in Txs, q \in Quotes : Pay(x, q)
    BY <1>1, <2>2 DEF Pay, KeysAreKnown
  <2> QED  BY <1>3, <2>1, <2>2
<1> QED  BY <1>2, <1>4 DEF KeysAreKnown

\* So what matches is known, and what is owed stays owed.
LEMMA OwedIsConfirmed == TypeOK /\ KeysAreKnown => Owed = {p \in Pairs : Confirmed(p)}
<1> SUFFICES ASSUME TypeOK, KeysAreKnown, NEW p \in Pairs, Matches(p[2], p[1]) PROVE Known(p)
  BY DEF Owed, Confirmed, Known
<1> QED  BY PairFacts, QuotesAbsenceAssumption DEF KeysAreKnown, Known, Matches

LEMMA OwedStays ==
  QuotesInv /\ QuotesInv' /\ KeysAreKnown /\ KeysAreKnown' /\ Grows
    => Owed \subseteq Owed' /\ Owed' \subseteq Pairs
<1>1. QuotesInv /\ QuotesInv' /\ Grows => \A p \in Pairs : Confirmed(p) => Confirmed(p)'
  BY GrowthKeeps DEF QuotesInv
<1>2. QuotesInv /\ KeysAreKnown => Owed = {p \in Pairs : Confirmed(p)}
  BY OwedIsConfirmed DEF QuotesInv
<1>3. QuotesInv' /\ KeysAreKnown' => (Owed = {p \in Pairs : Confirmed(p)})'
  BY <1>2, PTL
<1> QED  BY <1>1, <1>2, <1>3

\* Claims and their release leave what is on record as credited.
LEMMA RecordKept ==
  ASSUME QuotesInv, NEW v \in Workers,
         (\E p \in Pairs : Claim(v, p)) \/ CreditRefused(v)
  PROVE  \A r \in Pairs : IsCredited(r)' <=> IsCredited(r)
<1>1. payment \in [Pairs -> Claim0 \cup {NoClaim}]
  BY Before, Typed
<1>2. ASSUME NEW p \in Pairs, Claim(v, p)
      PROVE  \A r \in Pairs : IsCredited(r)' <=> IsCredited(r)
  <2>1. ~IsCredited(p)
    BY <1>2 DEF Claim, Claimable, IsCredited
  <2>2. \E c : /\ payment' = [payment EXCEPT ![p] = c]
               /\ c # NoClaim => ~c.credited
    <3>1. CASE p[2] \in Dust
      BY <1>2, <3>1 DEF Claim
    <3>2. CASE p[2] \notin Dust
      BY <1>2, <3>2 DEF Claim
    <3> QED  BY <3>1, <3>2
  <2> QED  BY <1>1, <2>1, <2>2 DEF IsCredited
<1>3. ASSUME CreditRefused(v)
      PROVE  \A r \in Pairs : IsCredited(r)' <=> IsCredited(r)
  <2>1. worker[v].pair \in Pairs
    BY <1>3, Holding DEF CreditRefused
  <2> QED  BY <1>1, <1>3, <2>1 DEF CreditRefused, Released, IsCredited
<1> QED  BY <1>2, <1>3

\* Every step but a crash, a late throw, a credit and its settlement leaves the money alone.
LEMMA MoneySteps ==
  ASSUME QuotesInv, [Next]_vars, crashes' = 0
  PROVE  \/ applied' = applied /\ Told' = Told
         \/ \E v \in Workers : Credit(v) \/ Settle(v)
<1> DEFINE Still == applied' = applied /\ Told' = Told
<1>1. CASE applied' = applied /\ payment' = payment
  BY <1>1 DEF Told, IsCredited
<1>2. ASSUME NEW v \in Workers, (\E p \in Pairs : Claim(v, p)) \/ CreditRefused(v)
      PROVE  Still
  <2>1. applied' = applied
    BY <1>2 DEF Claim, CreditRefused
  <2>2. \A r \in Pairs : IsCredited(r)' <=> IsCredited(r)
    BY <1>2, RecordKept
  <2> QED  BY <2>1, <2>2 DEF Told
<1> HIDE DEF Still
<1>3. CASE Rest
  BY <1>1, <1>3 DEF Rest, CreateQuote, CancelQuote, LoseWatch, Still
<1>4. CASE (\E x \in Txs, q \in Quotes : Pay(x, q)) \/ Mine \/ Advance \/ UNCHANGED vars
  BY <1>1, <1>4 DEF Pay, Mine, Advance, vars
<1>5. CASE \E v \in Workers : ScanReply(v) \/ ScanFails(v)
  BY <1>1, <1>5 DEF ScanReply, ScanFails
<1>6. CASE \E v \in Workers : Crash(v)
  BY <1>6, Before, Typed DEF Crash
<1>7. CASE \E v \in Workers : WorkerStep(v)
  <2> PICK v \in Workers : WorkerStep(v)
    BY <1>7
  <2>1. CASE (\E p \in Pairs : MarkSeen(v, p) \/ ClaimRefused(v, p)) \/ Rollup(v) \/ TickEnd(v)
    BY <1>1, <2>1 DEF MarkSeen, ClaimRefused, Rollup, TickEnd
  <2>2. CASE (\E p \in Pairs : Claim(v, p)) \/ CreditRefused(v)
    BY <1>2, <2>2 DEF Still
  <2>3. CASE Credit(v) \/ Settle(v)
    BY <2>3
  <2>4. CASE CreditThrows(v)
    BY <2>4, Before, Typed DEF CreditThrows
  <2> QED  BY <2>1, <2>2, <2>3, <2>4 DEF WorkerStep
<1> QED  BY <1>3, <1>4, <1>5, <1>6, <1>7 DEF Next

\* A step of the quotes is a step of the ledger, or leaves it alone.
LEMMA LedgerStep ==
  Prompt /\ QuotesInv /\ OnceInv /\ crashes' = 0 /\ Owed \subseteq Owed' /\ Owed' \subseteq Pairs
    /\ Owed = {p \in Pairs : Confirmed(p)} /\ [Next]_vars
    => [Ledger!Next]_(Ledger!ledger)
<1> SUFFICES ASSUME Prompt, QuotesInv, OnceInv, crashes' = 0, Owed \subseteq Owed',
                    Owed' \subseteq Pairs, Owed = {p \in Pairs : Confirmed(p)}, [Next]_vars
             PROVE  Ledger!Next
  OBVIOUS
<1>1. CASE applied' = applied /\ Told' = Told
  <2>1. Ledger!Confirm
    BY <1>1 DEF Ledger!Confirm, Owed, Told
  <2> QED  BY <2>1 DEF Ledger!Next
<1>2. ASSUME NEW v \in Workers, Credit(v) PROVE Ledger!Next
  <2>1. PICK p \in Pairs : p = worker[v].pair /\ Confirmed(p)
    BY <1>2, Holding DEF Credit
  <2>2. applied[p] = 0 /\ p \in Owed
    BY <1>2, <2>1 DEF OnceInv, UnpaidBefore, Holds, Credit
  <2>3. applied' = [applied EXCEPT ![p] = 1]
    BY <1>2, <2>1, <2>2, Before, Typed DEF Credit
  <2>4. Owed' = Owed /\ Told' = Told
    BY <1>2 DEF Credit, Owed, Told, IsCredited, Matches, Confirmations
  <2>5. Ledger!PayOut(p)
    BY <2>2, <2>3, <2>4 DEF Ledger!PayOut, Owed, Told
  <2> QED  BY <2>1, <2>5 DEF Ledger!Next
<1>3. ASSUME NEW v \in Workers, Settle(v) PROVE Ledger!Next
  <2>1. PICK p \in Pairs : p = worker[v].pair /\ applied[p] >= 1
    BY <1>3, Holding DEF Settle
  <2>2. applied[p] = 1 /\ payment[p] # NoClaim
    BY <1>3, <2>1 DEF OnceInv, PaidIsOnRecord, HeldIsFresh, Holds, Settle
  <2>3. payment' = [payment EXCEPT ![p].credited = TRUE]
        /\ payment \in [Pairs -> Claim0 \cup {NoClaim}]
    BY <1>3, <2>1, <2>2, Before, Typed DEF Settle
  <2>4. payment'[p].credited /\ payment'[p] # NoClaim
    <3>1. payment'[p] \in Claim0 /\ payment'[p].credited
      BY <2>2, <2>3 DEF Claim0
    <3> QED  BY <3>1, QuotesAbsenceAssumption DEF Claim0
  <2>5. \A r \in Pairs : IsCredited(r)' <=> IsCredited(r) \/ r = p
    BY <2>3, <2>4 DEF IsCredited
  <2>6. Told' = Told \cup {p}
    BY <2>5 DEF Told
  <2>7. Owed' = Owed /\ applied' = applied
    BY <1>3 DEF Settle, Owed, Matches, Confirmations
  <2>8. Ledger!Report(p)
    BY <2>2, <2>6, <2>7 DEF Ledger!Report, Owed, Told
  <2> QED  BY <2>1, <2>8 DEF Ledger!Next
<1> QED  BY <1>1, <1>2, <1>3, MoneySteps

\* What a database from earlier times holds is owed, paid and told.
LEMMA LedgerInit == Init => Ledger!Init
<1> SUFFICES ASSUME Init PROVE Ledger!Init
  OBVIOUS
<1>1. PICK old \in Legacy \cup {NoPair} :
        \A p \in Pairs : /\ applied[p] = IF p = old THEN 1 ELSE 0
                         /\ IsCredited(p) <=> p = old
                         /\ Known(p) => p = old
  BY OldFacts
<1>2. QuotesInv /\ KeysAreKnown
  BY InitInv, KeysInit
<1> DEFINE paid == {p \in Pairs : p = old}
<1>3. Told = paid
  BY <1>1 DEF Told
<1>4. applied = [c \in Pairs |-> IF c \in paid THEN 1 ELSE 0]
  BY <1>1, <1>2, Before, Typed
<1>5. Owed = paid
  <2>1. \A p \in Pairs : applied[p] > 0 => Confirmed(p)
    BY <1>2 DEF QuotesInv, MoneySound
  <2>2. Owed = {p \in Pairs : Confirmed(p)}
    BY <1>2, OwedIsConfirmed, Before
  <2>3. paid \subseteq Owed
    BY <1>1, <2>1, <2>2
  <2> QED  BY <1>1, <2>2, <2>3 DEF Confirmed
<1> HIDE DEF paid
<1> QED  BY <1>3, <1>4, <1>5 DEF Ledger!Init, Owed, Told

\* For the payer the whole protocol, with its workers, claims, ticks and sweeps, is a
\* ledger that pays every confirmed payment once and reports only what it has paid.
THEOREM QuotesAreALedger == ASSUME Prompt PROVE Spec /\ NoCrash => ImplementsLedger
<1>1. QuotesInv /\ KeysAreKnown => Owed = {p \in Pairs : Confirmed(p)}
  BY OwedIsConfirmed DEF QuotesInv
<1>2. QuotesInv /\ QuotesInv' /\ KeysAreKnown /\ KeysAreKnown' /\ OnceInv
        /\ (crashes = 0)' /\ [Next]_vars
        => [Ledger!Next]_(Ledger!ledger)
  BY <1>1, StepInv, OwedStays, LedgerStep
<1>3. Spec => []KeysAreKnown
  <2>1. KeysAreKnown /\ QuotesInv /\ [Next]_vars => KeysAreKnown'
    BY KeysStep
  <2> QED  BY KeysInit, QuotesInvAlways, <2>1, PTL DEF Spec
<1> QED  BY LedgerInit, QuotesInvAlways, OnceInvAlways, <1>2, <1>3, PTL
            DEF Spec, NoCrash, ImplementsLedger, Ledger!Spec
=============================================================================
