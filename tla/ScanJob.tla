------------------------------ MODULE ScanJob ------------------------------
(***************************************************************************)
(* scanReceiving and scanHistorical (src/src/private-watch-nfpt.js): start *)
(* a job at the scanner, poll it until it is complete or the wait is over, *)
(* fetch its raw findings with one more request, and cancel it.            *)
(*                                                                         *)
(* The scanner is external. As the comments of the code tell it, a job     *)
(* starts from the wallet's result cache, the cache is written when a job  *)
(* finishes, and a cancelled job's progress is discarded. A finished or    *)
(* failed job that nobody polls expires.                                   *)
(*                                                                         *)
(* One caller scans one wallet again and again, by either function. The    *)
(* wallet is paid in every block, so a height stands for the payments up   *)
(* to it. The deadline of the wait may pass after any poll. The scanner may*)
(* give odd replies, which the code takes for good. Left out: which of the *)
(* two chains it is, tickets, the shape of notes and their sums.           *)
(***************************************************************************)
EXTENDS Integers, FiniteSets

CONSTANTS
    Jobs,             \* the job slots of the scanner
    CancelOnTimeout,  \* the cancelOnTimeout option of scanReceiving
    LastMille,        \* the blocks in the last 0.1% of a scan
    NoJob,            \* no job
    Oddities,         \* the odd replies the scanner gives, out of OddReplies
    MaxTip, MaxFaults \* bounds

\* scanReceiving and scanHistorical.
Kinds == {"receiving", "historical"}

Heights == 0 .. MaxTip

\* A reply to the last request that is fine but has no job in it (lines 555, 482), a
\* progress that leaves out heights (671, 672, 646, 647), and one that is a number of
\* its own and does not follow from them (648, 673).
OddReplies == {"no_job", "no_height", "own_progress"}

ASSUME JobAssumption ==
    /\ CancelOnTimeout \in BOOLEAN
    /\ {LastMille, MaxTip, MaxFaults} \subseteq Nat
    /\ NoJob \notin Jobs
    /\ Oddities \subseteq OddReplies

VARIABLES
    tip,    \* the height of the chain
    job,    \* the scanner's jobs
    cached, \* the height the scanner's result cache reaches
    scan,   \* the locals of the scan that is under way
    result, \* what the last scan returned, until the next begins
    seen,   \* the payments any receiving scan returned
    faults

vars == <<tip, job, cached, scan, result, seen, faults>>

Job == [state : {"free", "running", "done", "failed"},
        by : Kinds, scanned : Heights, target : Heights]

FreeSlot == [state |-> "free", by |-> "receiving", scanned |-> 0, target |-> 0]

\* What a scan returns; "odd" records which of the replies it was made of were odd.
Result == [incoming : Heights, scannedHeight : Heights,
           chainHeight : Heights, completed : BOOLEAN, odd : SUBSET OddReplies]

Scan == [kind : Kinds, stage : {"idle", "polling", "fetching", "cancelling"},
         job : Jobs \cup {NoJob}, polled : BOOLEAN, found : Result]

NoResult == [incoming |-> 0, scannedHeight |-> 0, chainHeight |-> 0,
             completed |-> FALSE, odd |-> {}]

IdleScan == [kind |-> "receiving", stage |-> "idle", job |-> NoJob,
             polled |-> FALSE, found |-> NoResult]

Init ==
    /\ tip = 0
    /\ job = [j \in Jobs |-> FreeSlot]
    /\ cached = 0
    /\ scan = IdleScan
    /\ result = NoResult
    /\ seen = 0
    /\ faults = 0

-----------------------------------------------------------------------------
(* The chain and the scanner. *)

Higher(a, b) == IF a < b THEN b ELSE a

Polled(j) == scan.job = j

Block ==
    /\ tip < MaxTip
    /\ tip' = tip + 1
    /\ UNCHANGED <<job, cached, scan, result, seen, faults>>

\* A running job scans a block, and may notice that the chain has grown.
Advance(j) ==
    /\ job[j].state = "running" /\ job[j].scanned < job[j].target
    /\ \E target \in {job[j].target, tip} :
           job' = [job EXCEPT ![j].scanned = @ + 1, ![j].target = target]
    /\ UNCHANGED <<tip, cached, scan, result, seen, faults>>

Finish(j) ==
    /\ job[j].state = "running" /\ job[j].scanned = job[j].target
    /\ job' = [job EXCEPT ![j].state = "done"]
    /\ cached' = Higher(cached, job[j].scanned)
    /\ UNCHANGED <<tip, scan, result, seen, faults>>

Expire(j) ==
    /\ job[j].state \in {"done", "failed"} /\ ~Polled(j)
    /\ job' = [job EXCEPT ![j] = FreeSlot]
    /\ UNCHANGED <<tip, cached, scan, result, seen, faults>>

\* A job ends in an error, or the scanner restarts and forgets it.
JobBreaks(j) ==
    /\ faults < MaxFaults /\ faults' = faults + 1
    /\ \/ job[j].state = "running" /\ job' = [job EXCEPT ![j].state = "failed"]
       \/ job[j].state # "free" /\ job' = [job EXCEPT ![j] = FreeSlot]
    /\ UNCHANGED <<tip, cached, scan, result, seen>>

-----------------------------------------------------------------------------
(* The scan, one action per request. *)

\* Slip: the loop goes on without the job it has lost.
ThrowNothing ==
    /\ scan' = [scan EXCEPT !.job = NoJob]
    /\ UNCHANGED <<tip, job, cached, result, seen>>

\* The scan throws: its caller gets no result, and no cancel is sent.
Throw ==
    /\ scan' = IdleScan
    /\ UNCHANGED <<tip, job, cached, result, seen>>

Started(kind, j) ==
    job' = [job EXCEPT ![j] = [state |-> "running", by |-> kind,
                               scanned |-> cached, target |-> Higher(tip, cached)]]

StartScan(kind) ==
    /\ scan.stage = "idle"
    /\ \E j \in Jobs :
        /\ job[j].state = "free" /\ ~Polled(j)
        /\ Started(kind, j)
        /\ scan' = [IdleScan EXCEPT !.kind = kind, !.stage = "polling", !.job = j]
    /\ result' = NoResult
    /\ UNCHANGED <<tip, cached, seen, faults>>

\* The job was started, but the reply that names it is lost.
StartReplyLost(kind) ==
    /\ scan.stage = "idle"
    /\ faults < MaxFaults /\ faults' = faults + 1
    /\ \E j \in Jobs : job[j].state = "free" /\ ~Polled(j) /\ Started(kind, j)
    /\ UNCHANGED <<tip, cached, scan, result, seen>>

\* Slip: a progress of 99% is enough.
IsCompleteAtPercent(j) ==
    \/ job[j].state = "done"
    \/ job[j].scanned + 10 * LastMille >= job[j].target

\* Either signal counts: the status, or a progress of at least 99.9%.
IsComplete(j) ==
    \/ job[j].state = "done"
    \/ job[j].scanned + LastMille >= job[j].target

\* Slip: the end of the scan is taken for the height it has reached.
SnapshotOfEnd(j) ==
    [incoming |-> 0, scannedHeight |-> job[j].target, chainHeight |-> job[j].target,
     completed |-> IsComplete(j), odd |-> {}]

\* What the normalisers make of a reply that says everything.
Snapshot(j) ==
    [incoming |-> 0, scannedHeight |-> job[j].scanned, chainHeight |-> job[j].target,
     completed |-> IsComplete(j), odd |-> {}]

\* What stands in for a height that is left out.
NextBest(j) == IF "no_height" \in Oddities THEN {0, job[j].scanned, job[j].target} ELSE {}

\* A height that is left out is replaced by the next one there is, and by 0 if there
\* is none: the end of the scan may pass for the height reached.
SnapshotsWithoutHeights(j) ==
    {[Snapshot(j) EXCEPT !.scannedHeight = h[1], !.chainHeight = h[2],
                         !.odd = {"no_height"}] :
        h \in (NextBest(j) \X NextBest(j)) \ {<<job[j].scanned, job[j].target>>}}

\* A progress that is ahead of the heights, or behind them. The status still counts.
SnapshotsOutOfStep(j) ==
    IF "own_progress" \in Oddities /\ job[j].state # "done"
    THEN {[Snapshot(j) EXCEPT !.completed = ~IsComplete(j), !.odd = {"own_progress"}]}
    ELSE {}

Poll ==
    LET j == scan.job
    IN  /\ scan.stage = "polling"
        /\ \/ /\ job[j].state \in {"free", "failed"}
              /\ Throw /\ UNCHANGED faults
           \/ /\ job[j].state \notin {"free", "failed"}
              /\ \E found \in {Snapshot(j)} \cup SnapshotsWithoutHeights(j)
                                        \cup SnapshotsOutOfStep(j) :
                    /\ scan' = [scan EXCEPT
                           !.stage = IF found.completed THEN "fetching" ELSE "polling",
                           !.polled = TRUE,
                           !.found = found]
                    /\ faults' = IF found.completed = IsComplete(j)
                                 THEN faults ELSE faults + 1
                    /\ faults' <= MaxFaults
              /\ UNCHANGED <<tip, job, cached, result, seen>>

\* maxWaitMs is over: the loop ends with the last snapshot.
StopWaiting ==
    /\ scan.stage = "polling" /\ scan.polled
    /\ scan' = [scan EXCEPT !.stage = "fetching"]
    /\ UNCHANGED <<tip, job, cached, result, seen, faults>>

\* Slip: only a completed job is cancelled.
MustCancelCompleted == scan.found.completed

\* Slip: cancelOnTimeout is not looked at.
MustCancelAlways == scan.kind \in Kinds

MustCancel ==
    \/ scan.kind = "historical"
    \/ scan.found.completed
    \/ CancelOnTimeout

Return(found) ==
    /\ result' = found
    /\ seen' = IF scan.kind = "receiving" THEN Higher(seen, found.incoming) ELSE seen
    /\ scan' = IdleScan

\* The payments the raw job lists: those up to the height it has scanned.
Incoming(j) == job[j].scanned

Fetched(incoming, odd) ==
    LET found == [scan.found EXCEPT !.incoming = incoming, !.odd = @ \cup odd]
    IN  /\ \/ /\ MustCancel
              /\ scan' = [scan EXCEPT !.stage = "cancelling", !.found = found]
              /\ UNCHANGED <<result, seen>>
           \/ ~MustCancel /\ Return(found)
        /\ UNCHANGED <<tip, job, cached>>

\* The raw job, of a later moment than the last snapshot.
FetchRaw ==
    LET j == scan.job
    IN  /\ scan.stage = "fetching"
        /\ \/ job[j].state = "free" /\ Throw
           \/ job[j].state # "free" /\ Fetched(Incoming(j), {})
        /\ UNCHANGED faults

\* A raw reply without a job counts as a job that found nothing.
FetchNothing ==
    /\ scan.stage = "fetching"
    /\ "no_job" \in Oddities
    /\ faults < MaxFaults /\ faults' = faults + 1
    /\ Fetched(0, {"no_job"})

\* A cancel that fails is swallowed.
Cancel ==
    LET j == scan.job
    IN  /\ scan.stage = "cancelling"
        /\ \/ /\ IF job[j].state = "running"
                 THEN job' = [job EXCEPT ![j] = FreeSlot]
                 ELSE UNCHANGED job
              /\ UNCHANGED faults
           \/ /\ faults < MaxFaults /\ faults' = faults + 1
              /\ UNCHANGED job
        /\ Return(scan.found)
        /\ UNCHANGED <<tip, cached>>

\* A poll or the fetch times out or gets an unexpected status, or a poll gets no job.
RequestFails ==
    /\ scan.stage \in {"polling", "fetching"}
    /\ faults < MaxFaults /\ faults' = faults + 1
    /\ Throw

Next ==
    \/ Block
    \/ \E j \in Jobs : Advance(j) \/ Finish(j) \/ Expire(j) \/ JobBreaks(j)
    \/ \E kind \in Kinds : StartScan(kind) \/ StartReplyLost(kind)
    \/ Poll
    \/ StopWaiting
    \/ FetchRaw
    \/ FetchNothing
    \/ Cancel
    \/ RequestFails

Spec == Init /\ [][Next]_vars

\* The scanner works on its jobs, and a receiving wallet is scanned in every tick.
\* Nothing promises that a wait lasts until the job is complete.
Fairness ==
    /\ \A j \in Jobs : WF_vars(Advance(j) \/ Finish(j)) /\ WF_vars(Expire(j))
    /\ WF_vars(Poll \/ StopWaiting)
    /\ WF_vars(FetchRaw)
    /\ WF_vars(Cancel)
    /\ SF_vars(StartScan("receiving"))

FairSpec == Spec /\ Fairness

-----------------------------------------------------------------------------
(* Properties. *)

\* Every variable keeps its type: the shapes of lines 165-172 and 330-472, and a
\* scan that is under way has the id of a job.
TypeOK ==
    /\ tip \in Heights
    /\ job \in [Jobs -> Job]
    /\ cached \in Heights
    /\ scan \in Scan
    /\ result \in Result
    /\ seen \in Heights
    /\ faults \in 0 .. MaxFaults
    /\ scan.stage # "idle" => scan.job \in Jobs

\* A result whose progress named the scanned height and whose raw reply had its job
\* holds every payment up to that height, although the height is of the last poll and
\* the payments are of a later request between which the job may go on, finish, fail or
\* vanish (lines 454-473, 376-396). Of a reply without a job or a height it is not true:
\* the code then returns fewer payments than the height says.
ReachIsCovered ==
    result.odd \subseteq {"own_progress"} => result.incoming >= result.scannedHeight

\* A result made of replies that were not odd and called completed misses no more than
\* the last 0.1% of the blocks up to the chain height it is counted against (lines
\* 449-452). One without the job in its raw reply may be completed with nothing in it.
CompletedMissesLittle ==
    result.completed /\ result.odd = {} => result.incoming + LastMille >= result.chainHeight

\* scanHistorical, which cancels whatever its job has reached, leaves no more jobs
\* running behind its back than requests have failed (lines 383-388), whatever odd
\* replies it takes for good.
NoJobLeftBehind ==
    Cardinality({j \in Jobs : /\ job[j].state = "running" /\ job[j].by = "historical"
                              /\ ~Polled(j)}) <= faults

\* A scan that is too long for any one wait still gets there: the abandoned job
\* finishes and the next tick starts from its result (lines 459-464, for callers
\* that say cancelOnTimeout: false). All payments but those in the last 0.1% are
\* returned in the end, however a bounded number of replies was odd.
PaymentsAreSeen ==
    \A h \in Heights : (h + LastMille <= tip) ~> (seen >= h)
=============================================================================
