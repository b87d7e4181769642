SPECIFICATION FairSpec
CONSTANTS
    Chunk = 2
    PageSize = 5
    MaxNotes = 3
    CreditsPerDuff = 2
    Credits <- MCCredits
    NodeChunks = {1, 2}
    MaxStream = 6
    MaxLag = 3
    MaxFaults = 1
INVARIANTS
    TypeOK
    NothingSkipped
    QueriesAligned
    ReportsOnlyNewPayments
PROPERTIES
    FallsBackLessThanAChunk
    EveryPaymentDealtWith
