\* One tick at a time, top-ups between ticks: the payer's view.
CONSTANTS
  w1 = w1
  t1 = t1
  j1 = j1
  Watches = {w1}
  Tickers = {t1}
  JobIds = {j1}
  DayMs = 2
  DayRate = 3
  CallRate = 2
  LowThreshold = 2
  MaxLifetime = 100
  Starter = 6
  TopUpAmounts = {3}
  MaxAttempts = 2
  BalanceAt <- DepositAndSpend
  Chain = "monero"
  TopUpWhen = "quiet"
  FaultKinds = {"poll_error", "start_error", "job_lost", "job_failed", "refused"}
  MaxFaults = 2
  MaxTime = 3
  MaxPaid = 9
  Unborn = Unborn
  Purged = Purged
  NoJob = NoJob
  NoSnap = NoSnap
  NoRow = NoRow
  Gone = Gone
SPECIFICATION Spec
INVARIANTS
  TypeOK
  Conserved
  DeltasAddUp
  RestartsMoveNoMoney
  OneWarningPerCrossing
  DeadOnlyAfterMaxInARow
PROPERTIES
  ImplementsAccounts
