\* Two watches share one tick, and one fault of any kind happens.
CONSTANTS
  w1 = w1
  w2 = w2
  t1 = t1
  j1 = j1
  j2 = j2
  Watches = {w1, w2}
  Tickers = {t1}
  JobIds = {j1, j2}
  DayMs = 2
  DayRate = 3
  CallRate = 2
  LowThreshold = 2
  MaxLifetime = 100
  Starter = 6
  TopUpAmounts = {3}
  MaxAttempts = 2
  BalanceAt <- OneDeposit
  Chain = "monero"
  TopUpWhen = "quiet"
  FaultKinds = {"poll_error", "start_error", "job_lost", "job_failed", "refused", "reply_lost", "crash"}
  MaxFaults = 1
  MaxTime = 0
  MaxPaid = 6
  Unborn = Unborn
  Purged = Purged
  NoJob = NoJob
  NoSnap = NoSnap
  NoRow = NoRow
  Gone = Gone
SPECIFICATION FairSpec
PROPERTIES
  TickTerminates
  CancelTakesEffect
  BalanceEventuallyDelivered
