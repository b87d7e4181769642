\* Two ticks overlap, and top-ups come from another process.
CONSTANTS
  w1 = w1
  t1 = t1
  t2 = t2
  j1 = j1
  j2 = j2
  Watches = {w1}
  Tickers = {t1, t2}
  JobIds = {j1, j2}
  DayMs = 2
  DayRate = 3
  CallRate = 2
  LowThreshold = 2
  MaxLifetime = 100
  Starter = 4
  TopUpAmounts = {3}
  MaxAttempts = 2
  BalanceAt <- OneDeposit
  Chain = "monero"
  TopUpWhen = "split"
  FaultKinds = {}
  MaxFaults = 0
  MaxTime = 1
  MaxPaid = 10
  Unborn = Unborn
  Purged = Purged
  NoJob = NoJob
  NoSnap = NoSnap
  NoRow = NoRow
  Gone = Gone
SYMMETRY TickerSymmetry
SPECIFICATION Spec
INVARIANTS
  NeverGrantsUnpaidCredit
