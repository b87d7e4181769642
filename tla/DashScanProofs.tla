-------------------------- MODULE DashScanProofs --------------------------
(***************************************************************************)
(* The safety of the Dash scan for every chunk and page size, every cap on *)
(* a scan, every stream and every lag of the nodes.                        *)
(***************************************************************************)
EXTENDS DashScan, TLAPS

-----------------------------------------------------------------------------
(* Arithmetic. *)

\* Integer division rounds down, by less than the divisor.
LEMMA DivFacts ==
    ASSUME NEW a \in Nat, NEW b \in Nat \ {0}
    PROVE  /\ a \div b \in Nat
           /\ (a \div b) * b \in Nat
           /\ (a \div b) * b <= a
           /\ (a \div b) * b > a - b
           /\ ((a \div b) * b) % b = 0
<1>1. a \div b \in Nat  BY SMT
<1>2. (a \div b) * b \in Nat  BY SMT
<1>3. (a \div b) * b <= a  BY SMT
<1>4. (a \div b) * b > a - b  BY SMT
<1>5. ((a \div b) * b) % b = 0  BY SMT
<1> QED  BY <1>1, <1>2, <1>3, <1>4, <1>5

\* A scan begins on the chunk boundary at or just below its cursor (line 163).
LEMMA FirstCursorFacts ==
    ASSUME NEW from \in Nat
    PROVE  /\ FirstCursor(from) \in 0 .. from
           /\ FirstCursor(from) > from - Chunk
           /\ FirstCursor(from) % Chunk = 0
<1> DEFINE aligned == (from \div Chunk) * Chunk
<1>1. Chunk \in Nat \ {0}
  BY ScanAssumption
<1>2. aligned \in Nat /\ aligned <= from /\ aligned > from - Chunk /\ aligned % Chunk = 0
  BY <1>1, DivFacts
<1>3. FirstCursor(from) = aligned
  BY DEF FirstCursor, AlignedDown
<1> HIDE DEF aligned
<1> QED  BY <1>2, <1>3

\* A page never reaches past the notes its node has seen.
LEMMA PageLengthFacts ==
    ASSUME NEW cursor \in Nat, NEW seen \in Nat, NEW chunks \in NodeChunks,
           NEW last \in Nat, seen <= last, cursor <= last
    PROVE  /\ PageLength(cursor, seen, chunks) \in Nat
           /\ cursor + PageLength(cursor, seen, chunks) <= last
<1>1. Chunk \in Nat \ {0} /\ PageSize \in Nat /\ chunks \in Nat
  BY ScanAssumption
<1>2. Span \in Int
  BY <1>1, DivFacts, SMT DEF Span, Greater, AlignedDown
<1>3. chunks * Chunk \in Int
  BY <1>1, SMT
<1> QED
  BY <1>2, <1>3, SMT DEF PageLength, Greater, Lesser

\* A payment has the index of its note and a value rounded down (lines 98-101).
LEMMA PaymentFacts ==
    ASSUME NEW i \in Indexes
    PROVE  /\ PaymentAt(i) \in Payment
           /\ PaymentAt(i).noteIndex = i
           /\ PaymentAt(i).amountAtomic * CreditsPerDuff <= Credits[i]
<1>1. Credits[i] \in Nat /\ CreditsPerDuff \in Nat \ {0}
  BY ScanAssumption
<1>2. creditsToDuffs(Credits[i]) \in Nat
  BY <1>1, DivFacts DEF creditsToDuffs
<1>3. creditsToDuffs(Credits[i]) * CreditsPerDuff <= Credits[i]
  BY <1>1, DivFacts DEF creditsToDuffs
<1> QED
  BY <1>2, <1>3 DEF PaymentAt, Payment

-----------------------------------------------------------------------------
(* The inductive invariant. *)

\* Payments that cover what a scan has walked over.
Covers(payments) ==
    \A i \in mine : cursorFrom <= i /\ i < pass.cursor => PaymentAt(i) \in payments

\* What the scan has walked over is in its result until that is dealt with, and
\* then among the payments dealt with.
PassCovers ==
    /\ pass.stage \in {"paging", "returned"} => Covers(pass.incoming)
    /\ pass.stage = "saving" => Covers(credited)

\* The cursor of a scan stays within the stream and close to where it began.
CursorInReach ==
    /\ pass.cursor <= stream
    /\ pass.stage # "idle" => pass.cursor > cursorFrom - Chunk

ScanInv ==
    /\ TypeOK
    /\ CursorInReach
    /\ QueriesAligned
    /\ PassCovers
    /\ NothingSkipped
    /\ ReportsOnlyNewPayments

\* What the invariant says of the numbers, as the steps below need it.
LEMMA Ranges ==
    ASSUME ScanInv
    PROVE  /\ MaxStream \in Nat /\ Chunk \in Nat /\ MaxFaults \in Nat
           /\ stream \in Nat /\ stream <= MaxStream
           /\ cursorFrom \in Nat /\ cursorFrom <= stream
           /\ start \in Nat /\ start <= stream
           /\ pass.cursor \in Nat /\ pass.cursor <= stream
           /\ \A i \in mine : i \in Indexes /\ i \in Int /\ 0 <= i /\ i < stream
  BY ScanAssumption DEF ScanInv, TypeOK, CursorInReach, Pass, Indexes

\* The invariant holds before the first scan.
LEMMA InitInv == Init => ScanInv
<1> SUFFICES ASSUME Init PROVE ScanInv
  OBVIOUS
<1> USE ScanAssumption DEF Init, Idle
<1>1. stream \in 0 .. MaxStream
  <2>1. MaxStream \div 2 \in Nat /\ MaxStream \div 2 <= MaxStream
    BY SMT
  <2> QED  BY <2>1
<1>2. TypeOK
  BY <1>1 DEF TypeOK, Pass
<1>3. CursorInReach /\ QueriesAligned /\ PassCovers /\ ReportsOnlyNewPayments
  BY <1>1 DEF CursorInReach, QueriesAligned, PassCovers, ReportsOnlyNewPayments
<1>4. NothingSkipped
  BY <1>1 DEF NothingSkipped
<1> QED  BY <1>2, <1>3, <1>4 DEF ScanInv

\* A new note lies past every cursor.
LEMMA ArriveInv == ScanInv /\ Arrive => ScanInv'
<1> SUFFICES ASSUME ScanInv, Arrive PROVE ScanInv'
  OBVIOUS
<1> USE DEF Arrive
<1>1. \A i \in mine' : i \in mine \/ i = stream
  OBVIOUS
<1>2. TypeOK'
  <2>1. mine' \subseteq 0 .. stream' - 1
    BY <1>1, Ranges
  <2>2. stream' \in 0 .. MaxStream /\ {cursorFrom', start'} \subseteq 0 .. stream'
    BY Ranges
  <2> QED
    BY <2>1, <2>2 DEF ScanInv, TypeOK
<1>3. CursorInReach' /\ QueriesAligned'
  BY Ranges DEF ScanInv, CursorInReach, QueriesAligned, QueryAccepted
<1>4. PassCovers'
  BY <1>1, Ranges DEF ScanInv, PassCovers, Covers, PaymentAt
<1>5. NothingSkipped'
  BY <1>1, Ranges DEF ScanInv, NothingSkipped, PaymentAt
<1>6. ReportsOnlyNewPayments'
  BY DEF ScanInv, ReportsOnlyNewPayments
<1> QED  BY <1>2, <1>3, <1>4, <1>5, <1>6 DEF ScanInv

\* A scan that begins has walked over nothing past the saved cursor.
LEMMA StartScanInv == ScanInv /\ StartScan => ScanInv'
<1> SUFFICES ASSUME ScanInv, StartScan PROVE ScanInv'
  OBVIOUS
<1> USE DEF ScanInv, TypeOK, StartScan
<1>1. cursorFrom \in Nat /\ stream \in Nat
  BY ScanAssumption
<1>2. /\ FirstCursor(cursorFrom) \in 0 .. cursorFrom
      /\ FirstCursor(cursorFrom) > cursorFrom - Chunk
      /\ FirstCursor(cursorFrom) % Chunk = 0
  BY <1>1, FirstCursorFacts
<1>3. TypeOK'
  BY <1>1, <1>2 DEF Pass
<1>4. CursorInReach' /\ QueriesAligned'
  BY <1>1, <1>2 DEF CursorInReach, QueriesAligned, QueryAccepted
<1>5. PassCovers'
  BY <1>1, <1>2, ScanAssumption DEF PassCovers, Covers
<1>6. NothingSkipped' /\ ReportsOnlyNewPayments'
  BY DEF NothingSkipped, ReportsOnlyNewPayments, PaymentAt
<1> QED  BY <1>3, <1>4, <1>5, <1>6

\* A page extends what is covered by exactly what the cursor moves.
LEMMA ReadPageInv == ScanInv /\ ReadPage => ScanInv'
<1> SUFFICES ASSUME ScanInv, ReadPage PROVE ScanInv'
  OBVIOUS
<1> PICK seen \in Greater(0, stream - MaxLag) .. stream, chunks \in NodeChunks :
         Page(seen, chunks)
  BY DEF ReadPage
<1> DEFINE length == PageLength(pass.cursor, seen, chunks)
           found == Hits(Wanted(pass.cursor, length, cursorFrom))
<1>1. /\ stream \in Nat /\ cursorFrom \in Nat /\ seen \in Nat /\ seen <= stream
      /\ pass.cursor \in Nat /\ pass.cursor <= stream /\ pass.scanned \in Nat
      /\ mine \subseteq Indexes
  <2>1. seen \in Nat /\ seen <= stream
    BY Ranges, ScanAssumption DEF Greater
  <2>2. pass.scanned \in Nat
    BY DEF ScanInv, TypeOK, Pass
  <2> QED  BY <2>1, <2>2, Ranges
<1>2. length \in Nat /\ pass.cursor + length <= stream
  BY <1>1, PageLengthFacts
<1> HIDE DEF length
<1>3. /\ pass'.cursor = pass.cursor + length
      /\ pass'.scanned = pass.scanned + length
      /\ pass'.incoming = pass.incoming \cup found
      /\ pass'.stage \in {"paging", "returned"}
      /\ pass'.stage = "paging" => (pass.cursor + length) % Chunk = 0
      /\ pass' = [stage |-> pass'.stage, cursor |-> pass'.cursor,
                  scanned |-> pass'.scanned, incoming |-> pass'.incoming]
  BY DEF Page, NextCursor, MorePages, length
<1>4. /\ pass.stage = "paging"
      /\ UNCHANGED <<stream, mine, cursorFrom, credited, start, faults>>
  BY DEF ReadPage
<1>5. \A p \in found : \E i \in mine : p = PaymentAt(i) /\ cursorFrom <= i
  BY DEF Hits, Wanted
<1>6. \A i \in mine : pass.cursor <= i /\ i < pass.cursor + length /\ cursorFrom <= i
                      => PaymentAt(i) \in found
  <2> SUFFICES ASSUME NEW i \in mine, pass.cursor <= i, i < pass.cursor + length,
                      cursorFrom <= i
               PROVE  i \in Wanted(pass.cursor, length, cursorFrom)
    BY DEF Hits
  <2> i \in Int  BY <1>1 DEF Indexes
  <2> QED  BY <1>1, <1>2 DEF Wanted
<1> HIDE DEF found
<1>7. TypeOK'
  <2>1. found \subseteq Payment
    BY <1>1, <1>5, PaymentFacts
  <2>2. pass' \in Pass
    BY <1>1, <1>2, <1>3, <2>1 DEF ScanInv, TypeOK, Pass
  <2> QED
    BY <1>4, <2>2 DEF ScanInv, TypeOK
<1>8. CursorInReach'
  BY <1>1, <1>2, <1>3, <1>4, ScanAssumption DEF ScanInv, CursorInReach
<1>9. QueriesAligned'
  BY <1>3 DEF QueriesAligned, QueryAccepted
<1>10. PassCovers'
  <2> SUFFICES ASSUME NEW i \in mine, cursorFrom <= i, i < pass.cursor + length
               PROVE  PaymentAt(i) \in pass.incoming \cup found
    BY <1>3, <1>4 DEF PassCovers, Covers, PaymentAt
  <2>1. i \in Int
    BY <1>1 DEF Indexes
  <2>2. CASE i < pass.cursor
    BY <1>4, <2>2 DEF ScanInv, PassCovers, Covers
  <2>3. CASE pass.cursor <= i
    BY <1>6, <2>3
  <2> QED  BY <1>1, <2>1, <2>2, <2>3
<1>11. NothingSkipped'
  BY <1>4 DEF ScanInv, NothingSkipped, PaymentAt
<1>12. ReportsOnlyNewPayments'
  <2> SUFFICES ASSUME NEW p \in pass.incoming \cup found
               PROVE  /\ p.noteIndex \in mine
                      /\ p.noteIndex >= cursorFrom
                      /\ p.amountAtomic * CreditsPerDuff <= Credits[p.noteIndex]
    BY <1>3, <1>4 DEF ReportsOnlyNewPayments
  <2>1. CASE p \in pass.incoming
    BY <2>1 DEF ScanInv, ReportsOnlyNewPayments
  <2>2. CASE p \in found
    <3>1. PICK i \in mine : p = PaymentAt(i) /\ cursorFrom <= i
      BY <1>5, <2>2
    <3>2. i \in Indexes /\ i \in Int
      BY Ranges
    <3>3. /\ PaymentAt(i).noteIndex = i
          /\ PaymentAt(i).amountAtomic * CreditsPerDuff <= Credits[i]
      BY <3>2, PaymentFacts
    <3> HIDE DEF found
    <3>4. p.noteIndex = i /\ p.amountAtomic * CreditsPerDuff <= Credits[i]
      BY <3>1, <3>3
    <3> QED  BY <1>1, <3>1, <3>2, <3>4
  <2> QED  BY <2>1, <2>2
<1> QED  BY <1>7, <1>8, <1>9, <1>10, <1>11, <1>12 DEF ScanInv

\* A scan that fails, or whose caller dies, leaves the saved cursor alone.
LEMMA GiveUpInv == ScanInv /\ (QueryFails \/ CallerDies) => ScanInv'
<1> SUFFICES ASSUME ScanInv, QueryFails \/ CallerDies PROVE ScanInv'
  OBVIOUS
<1>1. /\ pass' = Idle
      /\ faults < MaxFaults /\ faults' = faults + 1
      /\ UNCHANGED <<stream, mine, cursorFrom, credited, start>>
  BY DEF QueryFails, CallerDies
<1>2. TypeOK'
  BY <1>1, Ranges DEF ScanInv, TypeOK, Idle, Pass
<1>3. CursorInReach' /\ QueriesAligned' /\ PassCovers' /\ ReportsOnlyNewPayments'
  BY <1>1, Ranges
  DEF Idle, CursorInReach, QueriesAligned, PassCovers, ReportsOnlyNewPayments
<1>4. NothingSkipped'
  BY <1>1 DEF ScanInv, NothingSkipped, PaymentAt
<1> QED  BY <1>2, <1>3, <1>4 DEF ScanInv

\* Dealing with a result moves its cover to the payments dealt with.
LEMMA DealInv == ScanInv /\ Deal => ScanInv'
<1> SUFFICES ASSUME ScanInv, Deal PROVE ScanInv'
  OBVIOUS
<1> USE DEF ScanInv, TypeOK, Deal, Pass
<1>1. TypeOK'
  OBVIOUS
<1>2. CursorInReach' /\ QueriesAligned' /\ ReportsOnlyNewPayments'
  BY DEF CursorInReach, QueriesAligned, ReportsOnlyNewPayments
<1>3. PassCovers' /\ NothingSkipped'
  BY DEF PassCovers, Covers, NothingSkipped, PaymentAt
<1> QED  BY <1>1, <1>2, <1>3

\* The cursor is saved over notes that have been dealt with.
LEMMA SaveCursorInv == ScanInv /\ SaveCursor => ScanInv'
<1> SUFFICES ASSUME ScanInv, SaveCursor PROVE ScanInv'
  OBVIOUS
<1> USE ScanAssumption DEF ScanInv, SaveCursor, Idle
<1>1. /\ pass.cursor \in 0 .. stream /\ cursorFrom \in Nat /\ stream \in Nat
      /\ mine \subseteq Int
  BY DEF TypeOK, CursorInReach, Pass
<1>2. TypeOK'
  BY <1>1 DEF TypeOK, Pass
<1>3. CursorInReach' /\ QueriesAligned' /\ PassCovers' /\ ReportsOnlyNewPayments'
  BY <1>1 DEF CursorInReach, QueriesAligned, PassCovers, ReportsOnlyNewPayments
<1>4. NothingSkipped'
  <2> SUFFICES ASSUME NEW i \in mine, start <= i, i < pass.cursor
               PROVE  PaymentAt(i) \in credited
    BY DEF NothingSkipped, PaymentAt
  <2>1. CASE i < cursorFrom
    BY <2>1 DEF NothingSkipped
  <2>2. CASE cursorFrom <= i
    BY <2>2 DEF PassCovers, Covers
  <2> QED  BY <1>1, <2>1, <2>2
<1> QED  BY <1>2, <1>3, <1>4

\* A stuttering step changes nothing the invariant speaks of.
LEMMA StutterInv == ScanInv /\ UNCHANGED vars => ScanInv'
  BY DEF ScanInv, TypeOK, CursorInReach, QueriesAligned, QueryAccepted, PassCovers,
         Covers, NothingSkipped, ReportsOnlyNewPayments, PaymentAt, vars

\* The invariant holds in every reachable state.
LEMMA ScanInvariant == Spec => []ScanInv
<1>1. Init => ScanInv
  BY InitInv
<1>2. ScanInv /\ [Next]_vars => ScanInv'
  BY ArriveInv, StartScanInv, ReadPageInv, GiveUpInv, DealInv, SaveCursorInv,
     StutterInv DEF Next
<1> QED  BY <1>1, <1>2, PTL DEF Spec

-----------------------------------------------------------------------------
(* Theorems. *)

\* Every variable keeps its type, and a cursor never passes the end of the stream.
THEOREM DashTypeCorrect == Spec => []TypeOK
<1>1. ScanInv => TypeOK
  BY DEF ScanInv
<1> QED  BY <1>1, ScanInvariant, PTL

\* No note of ours below the saved cursor is missing from the payments dealt with,
\* whatever failed, died or lagged: aligning the cursor down never skips one.
THEOREM NoPaymentSkipped == Spec => []NothingSkipped
<1>1. ScanInv => NothingSkipped
  BY DEF ScanInv
<1> QED  BY <1>1, ScanInvariant, PTL

\* Every query of every scan starts on a chunk boundary, whatever the nodes give.
THEOREM QueriesAreAligned == Spec => []QueriesAligned
<1>1. ScanInv => QueriesAligned
  BY DEF ScanInv
<1> QED  BY <1>1, ScanInvariant, PTL

\* What is reported is ours, at or past the saved cursor, and rounded down.
THEOREM ReportsAreNew == Spec => []ReportsOnlyNewPayments
<1>1. ScanInv => ReportsOnlyNewPayments
  BY DEF ScanInv
<1> QED  BY <1>1, ScanInvariant, PTL

\* A lagging node never makes the saved cursor fall back by a chunk or more.
THEOREM FallBackIsBounded == Spec => FallsBackLessThanAChunk
<1>1. ScanInv /\ [Next]_vars => [cursorFrom' > cursorFrom - Chunk]_vars
  <2> SUFFICES ASSUME ScanInv, Next PROVE cursorFrom' > cursorFrom - Chunk
    OBVIOUS
  <2>1. Chunk \in Nat \ {0} /\ cursorFrom \in Int
    BY ScanAssumption DEF ScanInv, TypeOK
  <2>2. CASE SaveCursor
    BY <2>2 DEF SaveCursor, ScanInv, CursorInReach
  <2>3. CASE ~SaveCursor
    <3>1. cursorFrom' = cursorFrom
      BY <2>3 DEF Next, Arrive, StartScan, ReadPage, QueryFails, Deal, CallerDies
    <3> QED  BY <2>1, <3>1
  <2> QED  BY <2>2, <2>3
<1> QED  BY <1>1, ScanInvariant, PTL DEF Spec, FallsBackLessThanAChunk
=============================================================================
