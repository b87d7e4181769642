------------------------------ MODULE DashScan ------------------------------
(***************************************************************************)
(* scanDashReceiving (src/src/dash-orchard-scan.js): reads the Platform    *)
(* stream of shielded notes page by page from a saved cursor and returns   *)
(* the notes of our own viewing key, with the cursor to resume from.       *)
(*                                                                         *)
(* The stream and the nodes that serve it are external: a node refuses an  *)
(* index that is not on a chunk boundary, gives at most NodeChunks chunks  *)
(* per query, and may lag behind the stream by up to MaxLag notes.         *)
(* The caller is external too: it credits the notes it was given, then     *)
(* saves the cursor, and may die in between.                               *)
(*                                                                         *)
(* Left out: the shape check of the key, the loading of the decryption     *)
(* module and of the SDK, memos and nullifiers (a note is its index).      *)
(***************************************************************************)
EXTENDS Integers, FiniteSets

CONSTANTS
    Chunk,          \* DASH_NOTES_CHUNK_SIZE
    PageSize,       \* the pageSize option
    MaxNotes,       \* the maxNotes option
    CreditsPerDuff, \* CREDITS_PER_DUFF
    Credits,        \* what the note at each index of the stream is worth
    NodeChunks,     \* the chunks a node may be willing to give per query
    MaxStream,      \* bound: notes the stream ever holds
    MaxLag,         \* bound: notes a node may not have seen yet
    MaxFaults       \* bound: failed queries and deaths of the caller

Indexes == 0 .. MaxStream - 1

ASSUME ScanAssumption ==
    /\ {Chunk, MaxNotes, CreditsPerDuff} \subseteq Nat \ {0}
    /\ {PageSize, MaxStream, MaxLag, MaxFaults} \subseteq Nat
    /\ NodeChunks \subseteq Nat \ {0} /\ NodeChunks # {}
    /\ Credits \in [Indexes -> Nat]

VARIABLES
    stream,     \* how many notes the stream holds
    mine,       \* the indexes of those that pay our address
    cursorFrom, \* the cursor the caller has saved, passed as startIndex
    pass,       \* the locals of the scan that is running
    credited,   \* the payments the caller was given and has dealt with
    start,      \* the cursor of the first scan: what was read before it
    faults

vars == <<stream, mine, cursorFrom, pass, credited, start, faults>>

Lesser(a, b) == IF a < b THEN a ELSE b
Greater(a, b) == IF a < b THEN b ELSE a

AlignedDown(index) == (index \div Chunk) * Chunk

\* A page size below one chunk is raised to one, above it cut to whole chunks.
Span == Greater(Chunk, AlignedDown(PageSize))

creditsToDuffs(credits) == credits \div CreditsPerDuff

Payment == [noteIndex : Indexes, amountAtomic : Nat]

PaymentAt(index) ==
    [noteIndex |-> index, amountAtomic |-> creditsToDuffs(Credits[index])]

\* "paging": between two queries; "returned": the caller has the result and
\* has yet to deal with it; "saving": it has yet to save the cursor.
Idle == [stage |-> "idle", cursor |-> 0, scanned |-> 0, incoming |-> {}]

Pass == [stage : {"idle", "paging", "returned", "saving"},
         cursor : Nat, scanned : Nat, incoming : SUBSET Payment]

Init ==
    /\ stream \in {0, MaxStream \div 2}
    /\ mine \in SUBSET (0 .. stream - 1)
    /\ cursorFrom \in 0 .. stream
    /\ start = cursorFrom
    /\ pass = Idle
    /\ credited = {}
    /\ faults = 0

-----------------------------------------------------------------------------
(* The stream. *)

Arrive ==
    /\ stream < MaxStream
    /\ stream' = stream + 1
    /\ \/ mine' = mine
       \/ mine' = mine \cup {stream}
    /\ UNCHANGED <<cursorFrom, pass, credited, start, faults>>

\* The notes a node that has seen `seen` notes gives from `cursor` on.
PageLength(cursor, seen, chunks) ==
    Greater(0, Lesser(seen - cursor, Lesser(Span, chunks * Chunk)))

-----------------------------------------------------------------------------
(* The scan. *)

\* Slip: the cursor is rounded up.
FirstCursorUp(from) == AlignedDown(from + Chunk - 1)

\* Slip: one chunk more is read again, to be safe.
FirstCursorChunkBack(from) == Greater(0, AlignedDown(from) - Chunk)

FirstCursor(from) == AlignedDown(from)

StartScan ==
    /\ pass.stage = "idle"
    /\ pass' = [stage |-> "paging", cursor |-> FirstCursor(cursorFrom),
                scanned |-> 0, incoming |-> {}]
    /\ UNCHANGED <<stream, mine, cursorFrom, credited, start, faults>>

\* Slip: the notes below the cursor are not dropped.
WantedAll(cursor, length, from) == cursor .. cursor + length - 1

\* Slip: off by one at the cursor.
WantedAfter(cursor, length, from) == {i \in cursor .. cursor + length - 1 : i > from}

\* The notes of the page that are handed to trial_decrypt, and those it finds.
Wanted(cursor, length, from) == {i \in cursor .. cursor + length - 1 : i >= from}

Hits(indexes) == {PaymentAt(i) : i \in indexes \cap mine}

\* Slip: the walk goes on until a page is empty.
MorePagesUntilEmpty(cursor, scanned) == scanned < MaxNotes

\* Whether the walk goes on after a page that ends at `cursor`.
MorePages(cursor, scanned) == scanned < MaxNotes /\ cursor % Chunk = 0

\* Slip: the cursor moves by what was asked for.
NextCursorBySpan(cursor, length) == IF length > 0 THEN cursor + Span ELSE cursor

\* Where the next page begins.
NextCursor(cursor, length) == cursor + length

QueryAccepted == pass.cursor % Chunk = 0

Page(seen, chunks) ==
    LET length == PageLength(pass.cursor, seen, chunks)
        cursor == NextCursor(pass.cursor, length)
        scanned == pass.scanned + length
    IN  pass' = [stage |-> IF length > 0 /\ MorePages(cursor, scanned)
                           THEN "paging" ELSE "returned",
                 cursor |-> cursor,
                 scanned |-> scanned,
                 incoming |-> pass.incoming
                     \cup Hits(Wanted(pass.cursor, length, cursorFrom))]

ReadPage ==
    /\ pass.stage = "paging"
    /\ QueryAccepted
    /\ \E seen \in Greater(0, stream - MaxLag) .. stream, chunks \in NodeChunks :
           Page(seen, chunks)
    /\ UNCHANGED <<stream, mine, cursorFrom, credited, start, faults>>

\* The query throws, and with it the scan: what it had found is gone.
QueryFails ==
    /\ pass.stage = "paging"
    /\ faults < MaxFaults
    /\ faults' = faults + 1
    /\ pass' = Idle
    /\ UNCHANGED <<stream, mine, cursorFrom, credited, start>>

-----------------------------------------------------------------------------
(* The caller. *)

Deal ==
    /\ pass.stage = "returned"
    /\ credited' = credited \cup pass.incoming
    /\ pass' = [pass EXCEPT !.stage = "saving"]
    /\ UNCHANGED <<stream, mine, cursorFrom, start, faults>>

SaveCursor ==
    /\ pass.stage = "saving"
    /\ cursorFrom' = pass.cursor
    /\ pass' = Idle
    /\ UNCHANGED <<stream, mine, credited, start, faults>>

CallerDies ==
    /\ pass.stage \in {"returned", "saving"}
    /\ faults < MaxFaults
    /\ faults' = faults + 1
    /\ pass' = Idle
    /\ UNCHANGED <<stream, mine, cursorFrom, credited, start>>

Next ==
    \/ Arrive
    \/ StartScan
    \/ ReadPage
    \/ QueryFails
    \/ Deal
    \/ SaveCursor
    \/ CallerDies

Spec == Init /\ [][Next]_vars

\* The caller scans again and again. Sooner or later a query is answered by a
\* node that has the whole stream.
ReadCurrentPage ==
    /\ pass.stage = "paging"
    /\ QueryAccepted
    /\ \E chunks \in NodeChunks : Page(stream, chunks)
    /\ UNCHANGED <<stream, mine, cursorFrom, credited, start, faults>>

Fairness ==
    /\ WF_vars(StartScan)
    /\ WF_vars(ReadPage)
    /\ SF_vars(ReadCurrentPage)
    /\ WF_vars(Deal)
    /\ WF_vars(SaveCursor)

FairSpec == Spec /\ Fairness

-----------------------------------------------------------------------------
(* Properties. *)

\* Every variable keeps its type (lines 150-209: cursors and counts are numbers
\* of notes, incoming holds decrypted notes of the stream).
TypeOK ==
    /\ stream \in 0 .. MaxStream
    /\ mine \subseteq 0 .. stream - 1
    /\ {cursorFrom, start} \subseteq 0 .. stream
    /\ pass \in Pass
    /\ credited \subseteq Payment
    /\ faults \in 0 .. MaxFaults

\* No payment is lost between two scans: whatever died, failed or lagged, a note
\* of ours below the saved cursor was dealt with (or precedes the first scan).
\* "Rounding up would skip payments" (line 155).
NothingSkipped ==
    \A i \in mine : start <= i /\ i < cursorFrom => PaymentAt(i) \in credited

\* Every query starts on a chunk boundary, also after a clamped, short or empty
\* page and from an unaligned saved cursor (lines 163-205): any other is refused
\* by the node and the scan, which would start there each time, never works again.
QueriesAligned == pass.stage = "paging" => QueryAccepted

\* What is reported is ours, was not below the saved cursor, and is never worth
\* more than was received (lines 96-101, 175, 188: rounded down to whole duffs).
ReportsOnlyNewPayments ==
    \A p \in pass.incoming :
        /\ p.noteIndex \in mine
        /\ p.noteIndex >= cursorFrom
        /\ p.amountAtomic * CreditsPerDuff <= Credits[p.noteIndex]

\* A scan never re-reads much: the saved cursor may fall back when a node lags
\* (an empty page returns the aligned cursor), but by less than a chunk.
FallsBackLessThanAChunk == [][cursorFrom' > cursorFrom - Chunk]_vars

\* Every payment in the stream is dealt with in the end, although a scan stops
\* after maxNotes, nodes lag and clamp pages, queries fail and the caller dies.
EveryPaymentDealtWith ==
    \A i \in Indexes :
        (i \in mine /\ i >= start) ~> (PaymentAt(i) \in credited)
=============================================================================
