--------------------------- MODULE ScanJobProofs ---------------------------
(***************************************************************************)
(* What a scan returns, for any number of jobs, any chain and any faults.  *)
(* That it holds what it says takes replies that were not odd.             *)
(***************************************************************************)
EXTENDS ScanJob, FiniteSetTheorems, TLAPS

\* The scanner has not scanned past the tip it knows, and a job that is done has
\* reached its target.
JobsInStep ==
    /\ cached <= tip
    /\ \A j \in Jobs :
        /\ job[j].scanned <= job[j].target /\ job[j].target <= tip
        /\ job[j].state = "done" => job[j].scanned = job[j].target

\* The progress named the height it had reached, and the raw reply had its job.
HeightAndJob(found) == found.odd \subseteq {"own_progress"}

\* None of the replies was odd.
Plain(found) == found.odd = {}

\* The polled job, while it exists, has scanned at least what it reported.
JobKeepsUp ==
    /\ scan.stage \in {"polling", "fetching"} /\ job[scan.job].state # "free"
    /\ HeightAndJob(scan.found)
    => scan.found.scannedHeight <= job[scan.job].scanned

\* The locals of a scan that will be called completed are near the end of the chain.
FoundIsNearTheEnd ==
    scan.found.completed /\ Plain(scan.found) =>
        scan.found.scannedHeight + LastMille >= scan.found.chainHeight

\* A scan that is about to return has the payments up to the height it reports.
FoundIsCovered ==
    scan.stage = "cancelling" /\ HeightAndJob(scan.found) =>
        scan.found.incoming >= scan.found.scannedHeight

ScanInv ==
    /\ TypeOK
    /\ JobsInStep
    /\ JobKeepsUp /\ FoundIsNearTheEnd /\ FoundIsCovered
    /\ ReachIsCovered /\ CompletedMissesLittle

\* The numbers of the model.
LEMMA Numbers ==
    /\ MaxTip \in Nat /\ LastMille \in Nat /\ MaxFaults \in Nat
    /\ \A h \in Heights : h \in Nat /\ h <= MaxTip
    /\ 0 \in Heights
BY JobAssumption DEF Heights

\* A scan that is not under way promises nothing.
LEMMA IdleIsHarmless ==
    /\ IdleScan \in Scan
    /\ IdleScan.stage = "idle"
    /\ NoResult \in Result
    /\ IdleScan.found = NoResult
    /\ NoResult.incoming = 0 /\ NoResult.scannedHeight = 0 /\ ~NoResult.completed
    /\ NoResult.odd = {}
BY Numbers DEF IdleScan, Scan, NoResult, Result, Kinds

\* The invariant holds before the first scan.
LEMMA InitInv == Init => ScanInv
<1> SUFFICES ASSUME Init PROVE ScanInv
  OBVIOUS
<1> USE Numbers, IdleIsHarmless DEF Init
<1>1. FreeSlot \in Job
  BY DEF FreeSlot, Job, Kinds
<1>2. TypeOK
  BY <1>1 DEF TypeOK
<1>3. JobsInStep
  BY DEF JobsInStep, FreeSlot
<1>4. JobKeepsUp /\ FoundIsNearTheEnd /\ FoundIsCovered
  BY DEF JobKeepsUp, FoundIsNearTheEnd, FoundIsCovered
<1>5. ReachIsCovered /\ CompletedMissesLittle
  BY DEF ReachIsCovered, CompletedMissesLittle
<1> QED  BY <1>2, <1>3, <1>4, <1>5 DEF ScanInv

\* A step of the scanner that gives slot j new contents.
SlotStep(j, slot) ==
    /\ job' = [job EXCEPT ![j] = slot]
    /\ cached' \in Heights /\ cached' <= tip
    /\ faults' \in 0 .. MaxFaults
    /\ UNCHANGED <<tip, scan, result, seen>>
    /\ slot.scanned <= slot.target /\ slot.target <= tip
    /\ slot.state = "done" => slot.scanned = slot.target
    /\ Polled(j) => slot.state = "free"
                    \/ (job[j].state # "free" /\ job[j].scanned <= slot.scanned)

\* The polled job does not fall behind in such a step.
LEMMA JobStep ==
    ASSUME ScanInv, NEW j \in Jobs, NEW slot \in Job, SlotStep(j, slot)
    PROVE  ScanInv'
<1> USE DEF ScanInv, SlotStep
<1>1. \A i \in Jobs : job'[i] = IF i = j THEN slot ELSE job[i]
  BY DEF TypeOK
<1>2. TypeOK'
  BY DEF TypeOK
<1>3. JobsInStep'
  <2> SUFFICES ASSUME NEW i \in Jobs
               PROVE  /\ job'[i].scanned <= job'[i].target /\ job'[i].target <= tip'
                      /\ job'[i].state = "done" => job'[i].scanned = job'[i].target
    BY DEF JobsInStep
  <2>1. CASE i = j
    BY <1>1, <2>1
  <2>2. CASE i # j
    <3>1. job'[i] = job[i]
      BY <1>1, <2>2
    <3>2. job[i].target \in Nat /\ tip \in Nat
      BY Numbers DEF TypeOK, Job
    <3> QED  BY <3>1, <3>2 DEF JobsInStep
  <2> QED  BY <2>1, <2>2
<1>4. JobKeepsUp'
  <2> SUFFICES ASSUME scan.stage \in {"polling", "fetching"},
                      job'[scan.job].state # "free", HeightAndJob(scan.found)
               PROVE  scan.found.scannedHeight <= job'[scan.job].scanned
    BY DEF JobKeepsUp, HeightAndJob
  <2>1. scan.job \in Jobs
    BY DEF TypeOK
  <2>2. CASE scan.job = j
    <3>1. job'[scan.job] = slot /\ slot.state # "free"
      BY <1>1, <2>2
    <3>2. scan.found.scannedHeight <= job[j].scanned
      BY <3>1, <2>2 DEF Polled, JobKeepsUp
    <3>3. scan.found.scannedHeight \in Nat /\ job[j].scanned \in Nat /\ slot.scanned \in Nat
      BY Numbers DEF TypeOK, Job, Scan, Result
    <3>4. job[j].scanned <= slot.scanned
      BY <3>1, <2>2 DEF Polled
    <3> QED  BY <3>1, <3>2, <3>3, <3>4
  <2>3. CASE scan.job # j
    BY <1>1, <2>1, <2>3 DEF JobKeepsUp
  <2> QED  BY <2>2, <2>3
<1>5. FoundIsCovered' /\ ReachIsCovered' /\ FoundIsNearTheEnd' /\ CompletedMissesLittle'
  BY DEF FoundIsNearTheEnd, FoundIsCovered, ReachIsCovered, CompletedMissesLittle,
         HeightAndJob, Plain
<1> QED  BY <1>2, <1>3, <1>4, <1>5

\* The chain grows.
LEMMA BlockInv == ScanInv /\ Block => ScanInv'
<1> SUFFICES ASSUME ScanInv, Block PROVE ScanInv'
  OBVIOUS
<1> USE DEF ScanInv, Block
<1>1. tip \in Nat /\ tip' \in Heights /\ tip' = tip + 1
  BY Numbers DEF TypeOK, Heights
<1>2. TypeOK'
  BY <1>1 DEF TypeOK
<1>3. JobsInStep'
  <2>1. cached \in Nat /\ \A j \in Jobs : job[j].target \in Nat
    BY Numbers DEF TypeOK, Job
  <2> QED  BY <1>1, <2>1 DEF JobsInStep
<1>4. /\ JobKeepsUp' /\ FoundIsCovered' /\ ReachIsCovered'
      /\ FoundIsNearTheEnd' /\ CompletedMissesLittle'
  BY DEF JobKeepsUp, FoundIsNearTheEnd, FoundIsCovered, ReachIsCovered,
         CompletedMissesLittle, HeightAndJob, Plain
<1> QED  BY <1>2, <1>3, <1>4

\* A slot of the scanner and its numbers.
LEMMA SlotFacts ==
    ASSUME ScanInv, NEW j \in Jobs
    PROVE  /\ job[j] \in Job
           /\ job[j].scanned \in Nat /\ job[j].target \in Nat
           /\ job[j].scanned <= job[j].target /\ job[j].target <= tip
           /\ tip \in Heights /\ tip \in Nat /\ tip <= MaxTip
           /\ cached \in Heights /\ cached \in Nat /\ cached <= tip
           /\ faults \in 0 .. MaxFaults
           /\ FreeSlot \in Job
           /\ FreeSlot.state = "free" /\ FreeSlot.scanned = 0 /\ FreeSlot.target = 0
<1>1. job[j] \in Job
  BY DEF ScanInv, TypeOK
<1>2. job[j].scanned \in Nat /\ job[j].target \in Nat
  BY <1>1, Numbers DEF Job
<1>3. FreeSlot \in Job
  BY Numbers DEF FreeSlot, Job, Kinds
<1> QED
  BY <1>1, <1>2, <1>3, Numbers DEF ScanInv, TypeOK, JobsInStep, FreeSlot

\* A job that advances or finishes.
LEMMA ScannerInv ==
    ASSUME ScanInv, NEW j \in Jobs, Advance(j) \/ Finish(j)
    PROVE  ScanInv'
<1>1. CASE Advance(j)
  <2> PICK target \in {job[j].target, tip} :
           job' = [job EXCEPT ![j].scanned = @ + 1, ![j].target = target]
    BY <1>1 DEF Advance
  <2> DEFINE slot == [job[j] EXCEPT !.scanned = @ + 1, !.target = target]
  <2>1. job[j].state = "running" /\ job[j].scanned < job[j].target
    BY <1>1 DEF Advance
  <2>2. target \in Nat /\ job[j].target <= target /\ target <= tip /\ target \in Heights
    BY SlotFacts, Numbers DEF Heights
  <2>3. /\ slot.scanned = job[j].scanned + 1 /\ slot.target = target
        /\ slot.state = "running" /\ slot.by = job[j].by
    BY <2>1, SlotFacts DEF Job
  <2>4. job[j].scanned + 1 \in Heights
    BY <2>1, SlotFacts, Numbers DEF Heights
  <2>5. slot \in Job
    BY <2>2, <2>4, SlotFacts DEF Job
  <2>6. job' = [job EXCEPT ![j] = slot]
    BY DEF ScanInv, TypeOK
  <2> HIDE DEF slot
  <2>7. SlotStep(j, slot)
    <3>1. /\ cached' \in Heights /\ cached' <= tip /\ faults' \in 0 .. MaxFaults
          /\ UNCHANGED <<tip, scan, result, seen>>
      BY <1>1, SlotFacts DEF Advance
    <3>2. slot.scanned <= slot.target /\ job[j].scanned <= slot.scanned
      BY <2>1, <2>2, <2>3, SlotFacts
    <3> QED  BY <2>1, <2>2, <2>3, <2>6, <3>1, <3>2 DEF SlotStep
  <2> QED  BY <2>5, <2>7, JobStep
<1>2. CASE Finish(j)
  <2> DEFINE slot == [job[j] EXCEPT !.state = "done"]
  <2>1. job[j].state = "running" /\ job[j].scanned = job[j].target
    BY <1>2 DEF Finish
  <2>2. /\ slot.scanned = job[j].scanned /\ slot.target = job[j].target
        /\ slot.state = "done" /\ slot \in Job
    BY SlotFacts DEF Job
  <2>3. cached' \in Heights /\ cached' <= tip
    BY <1>2, SlotFacts, Numbers DEF Finish, Higher, Heights
  <2>4. job' = [job EXCEPT ![j] = slot]
    BY <1>2 DEF Finish, ScanInv, TypeOK
  <2> HIDE DEF slot
  <2>5. SlotStep(j, slot)
    BY <1>2, <2>1, <2>2, <2>3, <2>4, SlotFacts DEF Finish, SlotStep
  <2> QED  BY <2>2, <2>5, JobStep
<1> QED  BY <1>1, <1>2

\* A job that expires, fails or is forgotten.
LEMMA JobEndsInv ==
    ASSUME ScanInv, NEW j \in Jobs, Expire(j) \/ JobBreaks(j)
    PROVE  ScanInv'
<1>1. /\ UNCHANGED <<tip, cached, scan, result, seen>>
      /\ faults' \in 0 .. MaxFaults
  BY SlotFacts, Numbers DEF Expire, JobBreaks
<1>2. CASE job' = [job EXCEPT ![j] = FreeSlot]
  <2>1. SlotStep(j, FreeSlot)
    BY <1>1, <1>2, SlotFacts DEF SlotStep
  <2> QED  BY <2>1, SlotFacts, JobStep
<1>3. CASE job[j].state = "running" /\ job' = [job EXCEPT ![j].state = "failed"]
  <2> DEFINE slot == [job[j] EXCEPT !.state = "failed"]
  <2>1. /\ slot.scanned = job[j].scanned /\ slot.target = job[j].target
        /\ slot.state = "failed" /\ slot \in Job
    BY SlotFacts DEF Job
  <2>2. job' = [job EXCEPT ![j] = slot]
    BY <1>3 DEF ScanInv, TypeOK
  <2> HIDE DEF slot
  <2>3. SlotStep(j, slot)
    <3>1. /\ cached' \in Heights /\ cached' <= tip
          /\ slot.scanned <= slot.target /\ slot.target <= tip
          /\ job[j].scanned <= slot.scanned
      BY <1>1, <2>1, SlotFacts
    <3> QED  BY <1>1, <1>3, <2>1, <2>2, <3>1 DEF SlotStep
  <2> QED  BY <2>1, <2>3, JobStep
<1> QED  BY <1>2, <1>3 DEF Expire, JobBreaks

\* A scan that throws.
LEMMA ThrowInv ==
    ASSUME ScanInv, Throw, faults' \in 0 .. MaxFaults
    PROVE  ScanInv'
<1> USE IdleIsHarmless DEF ScanInv, Throw
<1>1. TypeOK'
  BY DEF TypeOK
<1>2. JobsInStep'
  BY DEF JobsInStep
<1>3. JobKeepsUp' /\ FoundIsNearTheEnd' /\ FoundIsCovered'
  BY DEF JobKeepsUp, FoundIsNearTheEnd, FoundIsCovered
<1>4. ReachIsCovered' /\ CompletedMissesLittle'
  BY DEF ReachIsCovered, CompletedMissesLittle
<1> QED  BY <1>1, <1>2, <1>3, <1>4

\* A scan that starts has a job that began at the cache, and has reported nothing.
LEMMA StartInv ==
    ASSUME ScanInv, NEW kind \in Kinds, StartScan(kind) \/ StartReplyLost(kind)
    PROVE  ScanInv'
<1>1. PICK j \in Jobs : job[j].state = "free" /\ ~Polled(j) /\ Started(kind, j)
  BY DEF StartScan, StartReplyLost
<1> DEFINE slot == [state |-> "running", by |-> kind,
                    scanned |-> cached, target |-> Higher(tip, cached)]
<1>2. /\ slot \in Job /\ slot.state = "running" /\ slot.scanned = cached
      /\ slot.target = tip
  <2>1. Higher(tip, cached) = tip
    BY SlotFacts DEF Higher
  <2> QED  BY <2>1, SlotFacts DEF Job
<1>3. job' = [job EXCEPT ![j] = slot]
  BY <1>1 DEF Started
<1> HIDE DEF slot
<1>4. CASE StartReplyLost(kind)
  <2>1. SlotStep(j, slot)
    BY <1>1, <1>2, <1>3, <1>4, SlotFacts, Numbers DEF StartReplyLost, SlotStep
  <2> QED  BY <1>2, <2>1, JobStep
<1>5. CASE StartScan(kind)
  <2>1. PICK i \in Jobs : /\ job[i].state = "free" /\ Started(kind, i)
                          /\ scan' = [IdleScan EXCEPT !.kind = kind,
                                                      !.stage = "polling", !.job = i]
    BY <1>5 DEF StartScan
  <2>2. /\ scan' \in Scan /\ scan'.stage = "polling" /\ scan'.job = i
        /\ scan'.found = NoResult
    BY <2>1, IdleIsHarmless DEF IdleScan, Scan
  <2>3. /\ result' = NoResult
        /\ UNCHANGED <<tip, cached, seen, faults>>
    BY <1>5 DEF StartScan
  <2>4. \A n \in Jobs : job'[n] = IF n = j THEN slot ELSE job[n]
    BY <1>3 DEF ScanInv, TypeOK
  <2>5. TypeOK'
    BY <1>2, <1>3, <2>2, <2>3, IdleIsHarmless DEF ScanInv, TypeOK
  <2>6. JobsInStep'
    BY <1>2, <2>3, <2>4, SlotFacts DEF ScanInv, JobsInStep
  <2>7. JobKeepsUp'
    <3>1. job'[i].scanned \in Nat
      BY <2>1, <2>4, <1>2, SlotFacts
    <3> QED  BY <2>2, <3>1, IdleIsHarmless DEF JobKeepsUp
  <2>8. /\ FoundIsNearTheEnd' /\ FoundIsCovered'
        /\ ReachIsCovered' /\ CompletedMissesLittle'
    BY <2>2, <2>3, IdleIsHarmless
    DEF FoundIsNearTheEnd, FoundIsCovered, ReachIsCovered, CompletedMissesLittle
  <2> QED  BY <2>5, <2>6, <2>7, <2>8 DEF ScanInv
<1> QED  BY <1>4, <1>5

\* A job that is complete is near the end of the chain.
LEMMA CompleteIsNear ==
    ASSUME ScanInv, NEW j \in Jobs, IsComplete(j)
    PROVE  job[j].scanned + LastMille >= job[j].target
<1>1. job[j].state = "done" => job[j].scanned = job[j].target
  BY DEF ScanInv, JobsInStep
<1> QED  BY <1>1, SlotFacts, Numbers DEF IsComplete

\* What a poll may bring: heights of the chain, and unless it is odd those of the job.
LEMMA PolledFacts ==
    ASSUME ScanInv, NEW j \in Jobs,
           NEW found \in {Snapshot(j)} \cup SnapshotsWithoutHeights(j)
                                      \cup SnapshotsOutOfStep(j)
    PROVE  /\ found \in Result
           /\ HeightAndJob(found) => found.scannedHeight = job[j].scanned
           /\ Plain(found) => found = Snapshot(j)
<1>1. /\ IsComplete(j) \in BOOLEAN
      /\ job[j].scanned \in Heights /\ job[j].target \in Heights
  BY SlotFacts DEF IsComplete, Job
<1>2. Snapshot(j) \in Result /\ Snapshot(j).scannedHeight = job[j].scanned
  BY <1>1, Numbers DEF Snapshot, Result
<1>3. CASE found = Snapshot(j)
  BY <1>2, <1>3
<1>4. CASE found \in SnapshotsWithoutHeights(j)
  <2>1. PICK h \in (NextBest(j) \X NextBest(j)) \ {<<job[j].scanned, job[j].target>>} :
            found = [Snapshot(j) EXCEPT !.scannedHeight = h[1], !.chainHeight = h[2],
                                        !.odd = {"no_height"}]
    BY <1>4 DEF SnapshotsWithoutHeights
  <2>2. h[1] \in Heights /\ h[2] \in Heights
    BY <1>1, Numbers DEF NextBest
  <2>3. found \in Result /\ found.odd = {"no_height"}
    BY <1>2, <2>1, <2>2 DEF Result, OddReplies
  <2> QED  BY <2>3 DEF HeightAndJob, Plain
<1>5. CASE found \in SnapshotsOutOfStep(j)
  <2>1. found = [Snapshot(j) EXCEPT !.completed = ~IsComplete(j), !.odd = {"own_progress"}]
    BY <1>5 DEF SnapshotsOutOfStep
  <2>2. /\ found \in Result /\ found.scannedHeight = job[j].scanned
        /\ found.odd = {"own_progress"}
    BY <1>2, <2>1 DEF Result, OddReplies
  <2> QED  BY <2>2 DEF Plain
<1> QED  BY <1>3, <1>4, <1>5

\* A poll takes over the heights of the job as it is.
LEMMA PollInv == ScanInv /\ Poll => ScanInv'
<1> SUFFICES ASSUME ScanInv, Poll PROVE ScanInv'
  OBVIOUS
<1> DEFINE j == scan.job
<1>1. scan.stage = "polling" /\ j \in Jobs
  BY DEF ScanInv, TypeOK, Poll
<1>2. CASE job[j].state \in {"free", "failed"}
  BY <1>1, <1>2, ThrowInv, SlotFacts DEF Poll
<1>3. CASE job[j].state \notin {"free", "failed"}
  <2>1. PICK found \in {Snapshot(j)} \cup SnapshotsWithoutHeights(j)
                                     \cup SnapshotsOutOfStep(j) :
          /\ scan' = [scan EXCEPT
                 !.stage = IF found.completed THEN "fetching" ELSE "polling",
                 !.polled = TRUE,
                 !.found = found]
          /\ faults' = IF found.completed = IsComplete(j) THEN faults ELSE faults + 1
          /\ faults' <= MaxFaults
          /\ UNCHANGED <<tip, job, cached, result, seen>>
    BY <1>3 DEF Poll
  <2>2. /\ found \in Result
        /\ HeightAndJob(found) => found.scannedHeight = job[j].scanned
        /\ Plain(found) => found = Snapshot(j)
    BY <1>1, PolledFacts
  <2>3. faults' \in 0 .. MaxFaults
    BY <1>1, <2>1, SlotFacts, Numbers
  <2>4. /\ scan' \in Scan /\ scan'.job = j /\ scan'.found = found
        /\ scan'.stage \in {"fetching", "polling"}
    BY <1>1, <2>1, <2>2 DEF ScanInv, TypeOK, Scan
  <2>5. FoundIsNearTheEnd'
    <3> SUFFICES ASSUME Plain(found), found.completed
                 PROVE  found.scannedHeight + LastMille >= found.chainHeight
      BY <2>4 DEF FoundIsNearTheEnd, Plain
    <3>1. /\ IsComplete(j) /\ found.scannedHeight = job[j].scanned
          /\ found.chainHeight = job[j].target
      BY <2>2 DEF Snapshot
    <3> QED  BY <1>1, <3>1, CompleteIsNear
  <2>6. TypeOK' /\ JobsInStep'
    BY <1>1, <2>1, <2>3, <2>4 DEF ScanInv, TypeOK, JobsInStep
  <2>7. JobKeepsUp' /\ FoundIsCovered'
    BY <1>1, <2>1, <2>2, <2>4, SlotFacts DEF JobKeepsUp, FoundIsCovered, HeightAndJob
  <2>8. ReachIsCovered' /\ CompletedMissesLittle'
    BY <2>1 DEF ScanInv, ReachIsCovered, CompletedMissesLittle
  <2> QED  BY <2>5, <2>6, <2>7, <2>8 DEF ScanInv
<1> QED  BY <1>2, <1>3

\* The wait is over.
LEMMA StopWaitingInv == ScanInv /\ StopWaiting => ScanInv'
<1> SUFFICES ASSUME ScanInv, StopWaiting PROVE ScanInv'
  OBVIOUS
<1>1. /\ scan.stage = "polling"
      /\ scan' = [scan EXCEPT !.stage = "fetching"]
      /\ UNCHANGED <<tip, job, cached, result, seen, faults>>
  BY DEF StopWaiting
<1>2. /\ scan' \in Scan /\ scan'.stage = "fetching" /\ scan'.job = scan.job
      /\ scan'.found = scan.found
  BY <1>1 DEF ScanInv, TypeOK, Scan
<1>3. TypeOK' /\ JobsInStep' /\ JobKeepsUp' /\ FoundIsCovered' /\ FoundIsNearTheEnd'
  BY <1>1, <1>2
  DEF ScanInv, TypeOK, JobsInStep, JobKeepsUp, FoundIsNearTheEnd, FoundIsCovered,
      HeightAndJob, Plain
<1>4. ReachIsCovered' /\ CompletedMissesLittle'
  BY <1>1 DEF ScanInv, ReachIsCovered, CompletedMissesLittle
<1> QED  BY <1>3, <1>4 DEF ScanInv

\* What a scan returns when its locals hold what they promise.
LEMMA ReturnInv ==
    ASSUME ScanInv, NEW found \in Result, Return(found),
           HeightAndJob(found) => found.incoming >= found.scannedHeight,
           Plain(found) /\ found.completed =>
               found.scannedHeight + LastMille >= found.chainHeight,
           JobsInStep', job' \in [Jobs -> Job], tip' = tip, cached' = cached,
           faults' \in 0 .. MaxFaults
    PROVE  ScanInv'
<1>1. /\ result' = found /\ scan' = IdleScan /\ seen' \in Heights
  BY DEF Return, Higher, Result, ScanInv, TypeOK
<1>2. TypeOK'
  BY <1>1, IdleIsHarmless DEF ScanInv, TypeOK
<1>3. JobKeepsUp' /\ FoundIsNearTheEnd' /\ FoundIsCovered'
  BY <1>1, IdleIsHarmless DEF JobKeepsUp, FoundIsNearTheEnd, FoundIsCovered
<1>4. ReachIsCovered' /\ CompletedMissesLittle'
  <2>1. /\ found.incoming \in Nat /\ found.scannedHeight \in Nat
        /\ found.chainHeight \in Nat
    BY Numbers DEF Result
  <2> QED
    BY <1>1, <2>1, Numbers
    DEF ScanInv, ReachIsCovered, CompletedMissesLittle, HeightAndJob, Plain
<1> QED  BY <1>2, <1>3, <1>4 DEF ScanInv

\* What the last reply brings is kept for the cancel or returned at once. It has to
\* cover the reported height if no height or job was missing.
LEMMA FetchedInv ==
    ASSUME ScanInv, scan.stage = "fetching", NEW incoming \in Heights,
           NEW odd \in SUBSET OddReplies, Fetched(incoming, odd),
           faults' \in 0 .. MaxFaults,
           HeightAndJob(scan.found) /\ odd = {} => incoming >= scan.found.scannedHeight,
           odd \in {{}, {"no_job"}}
    PROVE  ScanInv'
<1> DEFINE found == [scan.found EXCEPT !.incoming = incoming, !.odd = @ \cup odd]
<1>1. /\ scan \in Scan /\ scan.job \in Jobs
      /\ UNCHANGED <<tip, job, cached>>
  BY DEF ScanInv, TypeOK, Fetched
<1>2. /\ found \in Result /\ found.incoming = incoming
      /\ found.scannedHeight = scan.found.scannedHeight
      /\ found.completed = scan.found.completed
      /\ found.chainHeight = scan.found.chainHeight
      /\ found.odd = scan.found.odd \cup odd
  BY <1>1 DEF Scan, Result
<1> HIDE DEF found
<1>3. /\ HeightAndJob(found) => HeightAndJob(scan.found) /\ odd = {}
      /\ Plain(found) => HeightAndJob(found) /\ Plain(scan.found)
  BY <1>2 DEF HeightAndJob, Plain
<1>7. /\ HeightAndJob(found) => found.incoming >= found.scannedHeight
      /\ Plain(found) /\ found.completed =>
             found.scannedHeight + LastMille >= found.chainHeight
  BY <1>2, <1>3 DEF ScanInv, FoundIsNearTheEnd
<1>4. JobsInStep' /\ job' \in [Jobs -> Job]
  BY <1>1 DEF ScanInv, JobsInStep, TypeOK
<1>5. CASE Return(found)
  BY <1>1, <1>2, <1>3, <1>4, <1>5, <1>7, ReturnInv DEF HeightAndJob, Plain
<1>6. CASE /\ scan' = [scan EXCEPT !.stage = "cancelling", !.found = found]
           /\ UNCHANGED <<result, seen>>
  <2>1. /\ scan' \in Scan /\ scan'.stage = "cancelling" /\ scan'.job = scan.job
        /\ scan'.found = found
    BY <1>1, <1>2, <1>6 DEF Scan
  <2>2. TypeOK'
    BY <1>1, <1>6, <2>1 DEF ScanInv, TypeOK
  <2>3. JobKeepsUp' /\ FoundIsCovered' /\ FoundIsNearTheEnd'
    BY <1>7, <2>1 DEF JobKeepsUp, FoundIsNearTheEnd, FoundIsCovered, HeightAndJob, Plain
  <2>4. ReachIsCovered' /\ CompletedMissesLittle'
    BY <1>6 DEF ScanInv, ReachIsCovered, CompletedMissesLittle
  <2> QED  BY <1>4, <2>2, <2>3, <2>4 DEF ScanInv
<1> QED  BY <1>5, <1>6 DEF Fetched, found

\* The raw job holds at least what the last poll reported.
LEMMA FetchRawInv == ScanInv /\ FetchRaw => ScanInv'
<1> SUFFICES ASSUME ScanInv, FetchRaw PROVE ScanInv'
  OBVIOUS
<1> DEFINE j == scan.job
<1>1. scan.stage = "fetching" /\ j \in Jobs /\ faults' = faults
  BY DEF ScanInv, TypeOK, FetchRaw
<1>2. faults' \in 0 .. MaxFaults
  BY <1>1, SlotFacts
<1>3. CASE job[j].state = "free" /\ Throw
  BY <1>2, <1>3, ThrowInv
<1>4. CASE job[j].state # "free" /\ Fetched(Incoming(j), {})
  <2>1. Incoming(j) \in Heights /\ Incoming(j) = job[j].scanned /\ job[j].scanned \in Nat
    BY <1>1, SlotFacts DEF Incoming, Job
  <2>2. scan.found.scannedHeight \in Nat
    BY Numbers DEF ScanInv, TypeOK, Scan, Result
  <2>3. HeightAndJob(scan.found) => Incoming(j) >= scan.found.scannedHeight
    BY <1>1, <1>4, <2>1, <2>2 DEF ScanInv, JobKeepsUp
  <2> QED  BY <1>1, <1>2, <1>4, <2>1, <2>3, FetchedInv
<1> QED  BY <1>3, <1>4 DEF FetchRaw

\* A reply without a job is odd.
LEMMA FetchNothingInv == ScanInv /\ FetchNothing => ScanInv'
<1> SUFFICES ASSUME ScanInv, FetchNothing PROVE ScanInv'
  OBVIOUS
<1>1. /\ scan.stage = "fetching" /\ Fetched(0, {"no_job"}) /\ 0 \in Heights
      /\ {"no_job"} \in SUBSET OddReplies /\ {"no_job"} # {}
  BY Numbers DEF FetchNothing, OddReplies
<1>2. faults' \in 0 .. MaxFaults
  BY Numbers DEF FetchNothing, ScanInv, TypeOK
<1> QED  BY <1>1, <1>2, FetchedInv

\* A cancel frees the slot of a running job, if it gets through.
LEMMA CancelInv == ScanInv /\ Cancel => ScanInv'
<1> SUFFICES ASSUME ScanInv, Cancel PROVE ScanInv'
  OBVIOUS
<1> DEFINE j == scan.job
<1>1. scan.stage = "cancelling" /\ j \in Jobs /\ Return(scan.found)
  BY DEF ScanInv, TypeOK, Cancel
<1>2. /\ job' = [job EXCEPT ![j] = FreeSlot] \/ job' = job
      /\ tip' = tip /\ cached' = cached
  BY DEF Cancel
<1>3. faults' \in 0 .. MaxFaults
  BY <1>1, SlotFacts, Numbers DEF Cancel
<1>4. job' \in [Jobs -> Job]
  BY <1>1, <1>2, SlotFacts DEF ScanInv, TypeOK
<1>5. JobsInStep'
  <2>1. \A n \in Jobs : job'[n] = job[n] \/ job'[n] = FreeSlot
    BY <1>1, <1>2 DEF ScanInv, TypeOK
  <2> QED  BY <1>1, <1>2, <2>1, SlotFacts DEF ScanInv, JobsInStep
<1>6. /\ scan.found \in Result
      /\ HeightAndJob(scan.found) => scan.found.incoming >= scan.found.scannedHeight
      /\ Plain(scan.found) /\ scan.found.completed =>
             scan.found.scannedHeight + LastMille >= scan.found.chainHeight
  BY <1>1 DEF ScanInv, TypeOK, Scan, FoundIsNearTheEnd, FoundIsCovered
<1> QED  BY <1>1, <1>2, <1>3, <1>4, <1>5, <1>6, ReturnInv

\* A request that fails.
LEMMA RequestFailsInv == ScanInv /\ RequestFails => ScanInv'
<1> SUFFICES ASSUME ScanInv, RequestFails PROVE ScanInv'
  OBVIOUS
<1>1. Throw /\ faults' \in 0 .. MaxFaults
  BY Numbers DEF RequestFails, ScanInv, TypeOK
<1> QED  BY <1>1, ThrowInv

\* A stuttering step changes nothing the invariant speaks of.
LEMMA StutterInv == ScanInv /\ UNCHANGED vars => ScanInv'
  BY DEF ScanInv, TypeOK, JobsInStep, JobKeepsUp, FoundIsNearTheEnd, FoundIsCovered,
         ReachIsCovered, CompletedMissesLittle, vars

\* Every step keeps the invariant.
LEMMA ScanStep == ScanInv /\ [Next]_vars => ScanInv'
<1> SUFFICES ASSUME ScanInv, [Next]_vars PROVE ScanInv'
  OBVIOUS
<1>1. CASE Block
  BY <1>1, BlockInv
<1>2. CASE \E j \in Jobs : Advance(j) \/ Finish(j) \/ Expire(j) \/ JobBreaks(j)
  BY <1>2, ScannerInv, JobEndsInv
<1>3. CASE \E kind \in Kinds : StartScan(kind) \/ StartReplyLost(kind)
  BY <1>3, StartInv
<1>4. CASE Poll \/ StopWaiting \/ FetchRaw \/ FetchNothing \/ Cancel \/ RequestFails
  BY <1>4, PollInv, StopWaitingInv, FetchRawInv, FetchNothingInv, CancelInv,
     RequestFailsInv
<1>5. CASE UNCHANGED vars
  BY <1>5, StutterInv
<1> QED  BY <1>1, <1>2, <1>3, <1>4, <1>5 DEF Next

\* The invariant holds in every reachable state.
LEMMA ScanInvariant == Spec => []ScanInv
BY InitInv, ScanStep, PTL DEF Spec

\* Every variable keeps its type, and a scan under way has a job.
THEOREM ScanTypeCorrect == Spec => []TypeOK
<1>1. ScanInv => TypeOK
  BY DEF ScanInv
<1> QED  BY <1>1, ScanInvariant, PTL

\* A result whose progress named its height and whose raw reply had its job holds every
\* payment up to the height it claims, although the two come from different requests,
\* the job may fail or be forgotten between them, and other replies, of this scan or
\* another, were odd. A progress out of step with the heights does no harm here.
THEOREM ResultsCoverTheirReach == Spec => []ReachIsCovered
<1>1. ScanInv => ReachIsCovered
  BY DEF ScanInv
<1> QED  BY <1>1, ScanInvariant, PTL

\* A result made of replies that were not odd and called completed misses at most the
\* last 0.1% of the blocks.
THEOREM CompletedIsNearlyAll == Spec => []CompletedMissesLittle
<1>1. ScanInv => CompletedMissesLittle
  BY DEF ScanInv
<1> QED  BY <1>1, ScanInvariant, PTL

-----------------------------------------------------------------------------
(* No job is left behind *)

\* The jobs of historical scans that run with nobody waiting for them.
Left == {j \in Jobs : /\ job[j].state = "running" /\ job[j].by = "historical"
                      /\ ~Polled(j)}

\* A scan that is over has no job, the slot of one under way is its own, and every
\* job left behind cost a fault.
LeftInv ==
    /\ ScanInv
    /\ scan.stage = "idle" => scan.job = NoJob
    /\ scan.stage # "idle" /\ job[scan.job].state # "free" => job[scan.job].by = scan.kind
    /\ IsFiniteSet(Left) /\ Cardinality(Left) <= faults

\* A step that leaves no job behind, or one with a fault.
LeavesNone == Left' \subseteq Left /\ faults' >= faults
LeavesOne  == faults' = faults + 1 /\ \E j \in Jobs : Left' \subseteq Left \cup {j}

\* The count keeps up with such steps.
LEMMA LeftCounted ==
    ASSUME LeftInv, LeavesNone \/ LeavesOne, faults' \in Nat
    PROVE  IsFiniteSet(Left') /\ Cardinality(Left') <= faults'
<1> DEFINE before == Left
           after == Left'
<1>1. /\ IsFiniteSet(before) /\ Cardinality(before) \in Nat
      /\ Cardinality(before) <= faults /\ faults \in Nat
  BY FS_CardinalityType, Numbers DEF LeftInv, ScanInv, TypeOK
<1> HIDE DEF before
<1>2. CASE LeavesNone
  <2>1. after \subseteq before /\ faults' >= faults
    BY <1>2 DEF LeavesNone, before
  <2> HIDE DEF after
  <2>2. IsFiniteSet(after) /\ Cardinality(after) <= Cardinality(before)
    BY <1>1, <2>1, FS_Subset
  <2>3. Cardinality(after) \in Nat
    BY <2>2, FS_CardinalityType
  <2>4. IsFiniteSet(after) /\ Cardinality(after) <= faults'
    BY <1>1, <2>1, <2>2, <2>3
  <2> QED  BY <2>4 DEF after
<1>3. CASE LeavesOne
  <2>1. PICK j \in Jobs : after \subseteq before \cup {j}
    BY <1>3 DEF LeavesOne, before
  <2>2. faults' = faults + 1
    BY <1>3 DEF LeavesOne
  <2> DEFINE both == before \cup {j}
  <2> HIDE DEF after
  <2>3. /\ IsFiniteSet(both) /\ Cardinality(both) \in Nat
        /\ Cardinality(both) <= Cardinality(before) + 1
    <3>1. /\ IsFiniteSet(both)
          /\ Cardinality(both) = Cardinality(before)
             \/ Cardinality(both) = Cardinality(before) + 1
      BY <1>1, FS_AddElement
    <3>2. Cardinality(both) \in Nat
      BY <3>1, FS_CardinalityType
    <3> HIDE DEF both
    <3> QED  BY <1>1, <3>1, <3>2
  <2>4. IsFiniteSet(after) /\ Cardinality(after) <= Cardinality(both)
    BY <2>1, <2>3, FS_Subset
  <2>5. Cardinality(after) \in Nat
    BY <2>4, FS_CardinalityType
  <2> HIDE DEF both
  <2>6. IsFiniteSet(after) /\ Cardinality(after) <= faults'
    BY <1>1, <2>2, <2>3, <2>4, <2>5
  <2> QED  BY <2>6 DEF after
<1> QED  BY <1>2, <1>3

\* A job of the scanner that goes on, ends or is forgotten is not left behind by that.
LEMMA SlotLeaves ==
    ASSUME LeftInv, NEW j \in Jobs, NEW slot, job' = [job EXCEPT ![j] = slot],
           UNCHANGED scan, faults' \in Nat, faults' >= faults,
           slot.state # "free" => job[j].state # "free" /\ slot.by = job[j].by,
           slot.state = "running" => job[j].state = "running"
    PROVE  /\ LeavesNone /\ (scan'.stage = "idle" => scan'.job = NoJob)
           /\ scan'.stage # "idle" /\ job'[scan'.job].state # "free"
                => job'[scan'.job].by = scan'.kind
<1>1. \A i \in Jobs : job'[i] = IF i = j THEN slot ELSE job[i]
  BY DEF LeftInv, ScanInv, TypeOK
<1>2. scan.stage # "idle" => scan.job \in Jobs
  BY DEF LeftInv, ScanInv, TypeOK
<1>3. LeavesNone
  BY <1>1 DEF LeavesNone, Left, Polled
<1> QED  BY <1>1, <1>2, <1>3 DEF LeftInv

\* What the scanner does to a slot.
LEMMA ScannerLeaves ==
    ASSUME LeftInv, NEW j \in Jobs, Advance(j) \/ Finish(j) \/ Expire(j) \/ JobBreaks(j)
    PROVE  /\ LeavesNone /\ (scan'.stage = "idle" => scan'.job = NoJob)
           /\ scan'.stage # "idle" /\ job'[scan'.job].state # "free"
                => job'[scan'.job].by = scan'.kind
<1>1. /\ job[j] \in Job /\ faults \in Nat /\ faults' \in Nat /\ faults' >= faults
      /\ UNCHANGED scan
  BY Numbers DEF LeftInv, ScanInv, TypeOK, Advance, Finish, Expire, JobBreaks
<1>2. PICK slot : /\ job' = [job EXCEPT ![j] = slot]
                  /\ slot.state # "free" => job[j].state # "free" /\ slot.by = job[j].by
                  /\ slot.state = "running" => job[j].state = "running"
  <2>1. CASE Advance(j)
    <3>1. PICK target : job' = [job EXCEPT ![j].scanned = @ + 1, ![j].target = target]
      BY <2>1 DEF Advance
    <3> DEFINE n == job[j].scanned + 1
               slot == [job[j] EXCEPT !.scanned = n, !.target = target]
    <3>2. job' = [job EXCEPT ![j] = slot]
      BY <3>1 DEF LeftInv, ScanInv, TypeOK
    <3>3. slot.state = job[j].state /\ slot.by = job[j].by
      BY <1>1, Zenon DEF Job
    <3> HIDE DEF slot
    <3> QED  BY <3>2, <3>3
  <2>2. CASE Finish(j)
    <3> DEFINE slot == [job[j] EXCEPT !.state = "done"]
    <3>1. job' = [job EXCEPT ![j] = slot] /\ job[j].state = "running"
      BY <2>2 DEF Finish
    <3>2. slot.state = "done" /\ slot.by = job[j].by
      BY <1>1 DEF Job
    <3> HIDE DEF slot
    <3> QED  BY <3>1, <3>2
  <2>3. CASE job' = [job EXCEPT ![j] = FreeSlot]
    <3>1. FreeSlot.state = "free"
      BY DEF FreeSlot
    <3> QED  BY <2>3, <3>1
  <2>4. CASE job[j].state = "running" /\ job' = [job EXCEPT ![j].state = "failed"]
    <3> DEFINE slot == [job[j] EXCEPT !.state = "failed"]
    <3>1. job' = [job EXCEPT ![j] = slot] /\ job[j].state = "running"
      BY <2>4
    <3>2. slot.state = "failed" /\ slot.by = job[j].by
      BY <1>1 DEF Job
    <3> HIDE DEF slot
    <3> QED  BY <3>1, <3>2
  <2> QED  BY <2>1, <2>2, <2>3, <2>4 DEF Expire, JobBreaks
<1> QED  BY <1>1, <1>2, SlotLeaves

\* A scan that throws leaves its job behind, if it is running.
LEMMA ThrowLeaves ==
    ASSUME LeftInv, Throw, scan.stage # "idle",
           \/ faults' = faults + 1
           \/ faults' = faults /\ job[scan.job].state # "running"
    PROVE  /\ LeavesNone \/ LeavesOne
           /\ scan'.stage = "idle" /\ scan'.job = NoJob
<1>1. /\ scan.job \in Jobs /\ job' = job /\ faults \in Nat
      /\ scan'.stage = "idle" /\ scan'.job = NoJob
  BY Numbers DEF Throw, IdleScan, LeftInv, ScanInv, TypeOK
<1>2. Left' \subseteq Left \cup {scan.job}
  BY <1>1 DEF Left, Polled
<1>3. CASE faults' = faults + 1
  BY <1>1, <1>2, <1>3 DEF LeavesOne
<1>4. CASE faults' = faults /\ job[scan.job].state # "running"
  <2>1. scan.job \notin Left'
    BY <1>1, <1>4 DEF Left
  <2>2. faults' >= faults
    BY <1>1, <1>4
  <2> QED  BY <1>1, <1>2, <2>1, <2>2 DEF LeavesNone
<1> QED  BY <1>1, <1>3, <1>4

\* A scan that starts has a slot nobody used; only a lost reply leaves its job behind.
LEMMA StartLeaves ==
    ASSUME LeftInv, NEW kind \in Kinds, StartScan(kind) \/ StartReplyLost(kind)
    PROVE  /\ LeavesNone \/ LeavesOne
           /\ scan'.stage = "idle" => scan'.job = NoJob
           /\ scan'.stage # "idle" /\ job'[scan'.job].state # "free"
                => job'[scan'.job].by = scan'.kind
<1>1. scan.stage = "idle" /\ scan.job = NoJob /\ faults \in Nat
  <2>1. scan.stage = "idle"
    BY DEF StartScan, StartReplyLost
  <2>2. faults \in Nat
    BY Numbers DEF LeftInv, ScanInv, TypeOK
  <2> QED  BY <2>1, <2>2 DEF LeftInv
<1>2. PICK j \in Jobs :
        /\ Started(kind, j)
        /\ \/ UNCHANGED scan /\ faults' = faults + 1
           \/ /\ scan' = [IdleScan EXCEPT !.kind = kind, !.stage = "polling", !.job = j]
              /\ faults' = faults
  BY DEF StartScan, StartReplyLost
<1> DEFINE slot == [state |-> "running", by |-> kind,
                    scanned |-> cached, target |-> Higher(tip, cached)]
<1>3. slot.by = kind /\ job' = [job EXCEPT ![j] = slot]
  BY <1>2 DEF Started
<1> HIDE DEF slot
<1>4. \A i \in Jobs : job'[i] = IF i = j THEN slot ELSE job[i]
  BY <1>3 DEF LeftInv, ScanInv, TypeOK
<1>5. CASE UNCHANGED scan /\ faults' = faults + 1
  <2>1. Left' \subseteq Left \cup {j}
    BY <1>4, <1>5 DEF Left, Polled
  <2> QED  BY <1>1, <1>5, <2>1 DEF LeavesOne
<1>6. CASE /\ scan' = [IdleScan EXCEPT !.kind = kind, !.stage = "polling", !.job = j]
           /\ faults' = faults
  <2>1. scan'.stage = "polling" /\ scan'.job = j /\ scan'.kind = kind
    BY <1>6 DEF IdleScan
  <2>2. Left' \subseteq Left
    BY <1>1, <1>4, <2>1, JobAssumption DEF Left, Polled
  <2>3. faults' >= faults
    BY <1>1, <1>6
  <2> QED  BY <1>3, <1>4, <2>1, <2>2, <2>3 DEF LeavesNone
<1> QED  BY <1>2, <1>5, <1>6


\* The requests of a scan under way leave its kind and its job alone.
LEMMA SameScanLeaves ==
    ASSUME LeftInv, UNCHANGED job, faults' \in {faults, faults + 1}, scan'.stage # "idle", scan.stage # "idle",
           scan'.job = scan.job, scan'.kind = scan.kind
    PROVE  /\ LeavesNone
           /\ job'[scan'.job].state # "free" => job'[scan'.job].by = scan'.kind
<1>1. Left' \subseteq Left
  BY DEF Left, Polled
<1>2. faults' >= faults
  BY Numbers DEF LeftInv, ScanInv, TypeOK
<1> QED  BY <1>1, <1>2 DEF LeftInv, LeavesNone

\* A scan that returns without a cancel has a job that is not historical; one whose
\* cancel got through has none that runs.
LEMMA ReturnLeaves ==
    ASSUME LeftInv, scan.stage # "idle", scan' = IdleScan,
           \/ UNCHANGED <<job, faults>> /\ scan.kind # "historical"
           \/ UNCHANGED faults /\ job' = [job EXCEPT ![scan.job] = FreeSlot]
           \/ UNCHANGED <<job, faults>> /\ job[scan.job].state # "running"
           \/ UNCHANGED job /\ faults' = faults + 1
    PROVE  /\ LeavesNone \/ LeavesOne
           /\ scan'.stage = "idle" /\ scan'.job = NoJob
<1>1. /\ scan.job \in Jobs /\ faults \in Nat /\ job \in [Jobs -> Job]
      /\ scan'.stage = "idle" /\ scan'.job = NoJob
  BY Numbers DEF IdleScan, LeftInv, ScanInv, TypeOK
<1>2. CASE UNCHANGED job /\ faults' = faults + 1
  <2>1. Left' \subseteq Left \cup {scan.job}
    BY <1>2 DEF Left, Polled
  <2> QED  BY <1>1, <1>2, <2>1 DEF LeavesOne
<1>3. ASSUME UNCHANGED faults, scan.job \notin Left',
             \A j \in Jobs : j # scan.job => job'[j] = job[j]
      PROVE  LeavesNone
  <2>1. Left' \subseteq Left
    BY <1>3 DEF Left, Polled
  <2>2. faults' >= faults
    BY <1>1, <1>3
  <2> QED  BY <2>1, <2>2 DEF LeavesNone
<1>4. CASE UNCHANGED <<job, faults>> /\ scan.kind # "historical"
  <2>1. scan.job \notin Left'
    BY <1>1, <1>4 DEF Left, LeftInv
  <2> QED  BY <1>1, <1>3, <1>4, <2>1
<1>5. CASE UNCHANGED faults /\ job' = [job EXCEPT ![scan.job] = FreeSlot]
  <2>1. FreeSlot.state = "free"
    BY DEF FreeSlot
  <2>2. scan.job \notin Left'
    BY <1>1, <1>5, <2>1 DEF Left
  <2> QED  BY <1>1, <1>3, <1>5, <2>2
<1>6. CASE UNCHANGED <<job, faults>> /\ job[scan.job].state # "running"
  <2>1. scan.job \notin Left'
    BY <1>6 DEF Left
  <2> QED  BY <1>1, <1>3, <1>6, <2>1
<1> QED  BY <1>1, <1>2, <1>4, <1>5, <1>6

\* What the requests of a scan leave behind.
LEMMA RequestLeaves ==
    ASSUME LeftInv,
           Poll \/ StopWaiting \/ FetchRaw \/ FetchNothing \/ Cancel \/ RequestFails
    PROVE  /\ LeavesNone \/ LeavesOne
           /\ scan'.stage = "idle" => scan'.job = NoJob
           /\ scan'.stage # "idle" /\ job'[scan'.job].state # "free"
                => job'[scan'.job].by = scan'.kind
<1>1. scan.stage # "idle" /\ scan \in Scan
  BY DEF Poll, StopWaiting, FetchRaw, FetchNothing, Cancel, RequestFails,
         LeftInv, ScanInv, TypeOK
<1>2. CASE Throw /\ (faults' = faults + 1 \/ (faults' = faults /\ job[scan.job].state # "running"))
  BY <1>1, <1>2, ThrowLeaves
<1>3. ASSUME UNCHANGED job, faults' \in {faults, faults + 1}, scan'.stage # "idle",
             scan'.job = scan.job, scan'.kind = scan.kind
      PROVE  /\ LeavesNone
             /\ job'[scan'.job].state # "free" => job'[scan'.job].by = scan'.kind
  BY <1>1, <1>3, SameScanLeaves
<1>4. CASE Poll
  <2>1. CASE job[scan.job].state \in {"free", "failed"}
    <3>1. Throw /\ UNCHANGED faults
      BY <1>4, <2>1 DEF Poll
    <3> QED  BY <1>2, <2>1, <3>1
  <2>2. CASE job[scan.job].state \notin {"free", "failed"}
    <3>1. PICK found :
            /\ scan' = [scan EXCEPT
                   !.stage = IF found.completed THEN "fetching" ELSE "polling",
                   !.polled = TRUE,
                   !.found = found]
            /\ UNCHANGED job /\ faults' \in {faults, faults + 1}
      BY <1>4, <2>2 DEF Poll
    <3>2. /\ scan'.stage \in {"fetching", "polling"}
          /\ scan'.job = scan.job /\ scan'.kind = scan.kind
      BY <1>1, <3>1 DEF Scan
    <3> QED  BY <1>3, <3>1, <3>2
  <2> QED  BY <2>1, <2>2
<1>5. CASE StopWaiting
  <2>1. /\ scan' = [scan EXCEPT !.stage = "fetching"] /\ UNCHANGED <<job, faults>>
    BY <1>5 DEF StopWaiting
  <2>2. scan'.stage = "fetching" /\ scan'.job = scan.job /\ scan'.kind = scan.kind
    BY <1>1, <2>1 DEF Scan
  <2> QED  BY <1>3, <2>1, <2>2
<1>6. ASSUME NEW incoming, NEW odd, Fetched(incoming, odd), faults' \in {faults, faults + 1}
      PROVE  /\ LeavesNone \/ LeavesOne
             /\ scan'.stage = "idle" => scan'.job = NoJob
             /\ scan'.stage # "idle" /\ job'[scan'.job].state # "free"
                  => job'[scan'.job].by = scan'.kind
  <2>1. PICK found :
          /\ UNCHANGED job
          /\ \/ scan' = [scan EXCEPT !.stage = "cancelling", !.found = found]
             \/ scan.kind # "historical" /\ scan' = IdleScan
    BY <1>6 DEF Fetched, MustCancel, Return
  <2>2. CASE scan' = [scan EXCEPT !.stage = "cancelling", !.found = found]
    <3>1. scan'.stage = "cancelling" /\ scan'.job = scan.job /\ scan'.kind = scan.kind
      BY <1>1, <2>2 DEF Scan
    <3> QED  BY <1>3, <1>6, <2>1, <3>1
  <2>3. CASE scan.kind # "historical" /\ scan' = IdleScan
    BY <1>1, <1>6, <2>1, <2>3, ReturnLeaves
  <2> QED  BY <2>1, <2>2, <2>3
<1>7. CASE FetchRaw
  <2>1. CASE Throw /\ job[scan.job].state = "free"
    <3>1. UNCHANGED faults
      BY <1>7 DEF FetchRaw
    <3> QED  BY <1>2, <2>1, <3>1
  <2>2. CASE Fetched(Incoming(scan.job), {})
    <3>1. UNCHANGED faults
      BY <1>7 DEF FetchRaw
    <3> QED  BY <1>6, <2>2, <3>1
  <2> QED  BY <1>7, <2>1, <2>2 DEF FetchRaw
<1>8. CASE FetchNothing
  BY <1>6, <1>8 DEF FetchNothing
<1>9. CASE Cancel
  <2>1. /\ scan' = IdleScan
        /\ \/ UNCHANGED faults /\ job' = [job EXCEPT ![scan.job] = FreeSlot]
           \/ UNCHANGED <<job, faults>> /\ job[scan.job].state # "running"
           \/ UNCHANGED job /\ faults' = faults + 1
    BY <1>9 DEF Cancel, Return
  <2> QED  BY <1>1, <2>1, ReturnLeaves
<1>10. CASE RequestFails
  BY <1>2, <1>10 DEF RequestFails
<1> QED
  BY <1>4, <1>5, <1>7, <1>8, <1>9, <1>10

\* Every step keeps the count.
LEMMA LeftKept == LeftInv /\ [Next]_vars => LeftInv'
<1> SUFFICES ASSUME LeftInv, [Next]_vars PROVE LeftInv'
  OBVIOUS
<1>1. ScanInv' /\ faults' \in Nat
  <2>1. ScanInv'
    BY ScanStep DEF LeftInv
  <2> QED  BY <2>1, Numbers DEF ScanInv, TypeOK
<1>2. SUFFICES /\ LeavesNone \/ LeavesOne
               /\ scan'.stage = "idle" => scan'.job = NoJob
               /\ scan'.stage # "idle" /\ job'[scan'.job].state # "free"
                    => job'[scan'.job].by = scan'.kind
  BY <1>1, LeftCounted DEF LeftInv
<1>3. CASE Block \/ UNCHANGED vars
  <2>1. UNCHANGED <<job, scan, faults>>
    BY <1>3 DEF Block, vars
  <2>2. Left' \subseteq Left
    BY <2>1 DEF Left, Polled
  <2>3. faults' >= faults
    BY <1>1, <2>1
  <2> QED  BY <2>1, <2>2, <2>3 DEF LeavesNone, LeftInv
<1>4. CASE \E j \in Jobs : Advance(j) \/ Finish(j) \/ Expire(j) \/ JobBreaks(j)
  BY <1>4, ScannerLeaves
<1>5. CASE \E kind \in Kinds : StartScan(kind) \/ StartReplyLost(kind)
  BY <1>5, StartLeaves
<1>6. CASE Poll \/ StopWaiting \/ FetchRaw \/ FetchNothing \/ Cancel \/ RequestFails
  BY <1>6, RequestLeaves
<1> QED  BY <1>3, <1>4, <1>5, <1>6 DEF Next

\* scanHistorical leaves no more jobs running behind its back than requests have
\* failed, for any number of job slots and any course of the scanner.
THEOREM HistoricalScansCleanUp == Spec => []NoJobLeftBehind
<1>1. Init => LeftInv
  <2> SUFFICES ASSUME Init PROVE LeftInv
    OBVIOUS
  <2>1. ScanInv
    BY InitInv
  <2>2. scan.stage = "idle" /\ scan.job = NoJob
    BY DEF Init, IdleScan
  <2>3. Left = {}
    BY DEF Init, Left, FreeSlot
  <2>4. IsFiniteSet(Left) /\ Cardinality(Left) <= faults
    BY <2>3, FS_EmptySet DEF Init
  <2> QED  BY <2>1, <2>2, <2>4 DEF LeftInv
<1>2. LeftInv => NoJobLeftBehind
  BY DEF LeftInv, Left, NoJobLeftBehind
<1> QED  BY <1>1, <1>2, LeftKept, PTL DEF Spec

=============================================================================
