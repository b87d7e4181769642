SPECIFICATION FairSpec
CONSTANTS
    Jobs = {j1, j2}
    CancelOnTimeout = FALSE
    LastMille = 1
    NoJob = NoJob
    Oddities = {"no_job", "no_height", "own_progress"}
    MaxTip = 2
    MaxFaults = 2
INVARIANTS
    TypeOK
    ReachIsCovered
    CompletedMissesLittle
    NoJobLeftBehind
PROPERTIES
    PaymentsAreSeen
