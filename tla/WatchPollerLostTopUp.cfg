\* A top-up lands while a tick is awaiting.
CONSTANTS
  w1 = w1
  t1 = t1
  j1 = j1
  Watches = {w1}
  Tickers = {t1}
  JobIds = {j1}
  DayMs = 2
  DayRate = 3
  CallRate = 2
  LowThreshold = 2
  MaxLifetime = 100
  Starter = 6
  TopUpAmounts = {3}
  MaxAttempts = 2
  BalanceAt <- DepositAndSpend
  Chain = "monero"
  TopUpWhen = "anytime"
  FaultKinds = {}
  MaxFaults = 0
  MaxTime = 3
  MaxPaid = 9
  Unborn = Unborn
  Purged = Purged
  NoJob = NoJob
  NoSnap = NoSnap
  NoRow = NoRow
  Gone = Gone
SPECIFICATION Spec
INVARIANTS
  Conserved
