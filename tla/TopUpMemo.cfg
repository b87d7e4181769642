\* Two workers, one memo per quote, no crash: every payment once.
CONSTANTS
  q1 = q1
  x1 = x1
  x2 = x2
  k1 = k1
  k2 = k2
  v1 = v1
  v2 = v2
  Quotes = {q1}
  Txs = {x1, x2}
  Keys = {k1}
  MemoKeys = TRUE
  Hashless = {}
  Dust = {}
  Legacy <- OldPair
  Workers = {v1, v2}
  Required = 2
  QuoteTtl = 1
  Grace = 1
  Stale = 2
  Prompt = TRUE
  CreditFaults = {"before"}
  MaxCrashes = 0
  MaxTip = 4
  MaxTime = 3
  NoTx = NoTx
  NoClaim = NoClaim
  NoPair = NoPair
SYMMETRY WorkerSymmetry
SPECIFICATION Spec
INVARIANTS
  TypeOK
  CreditedOnce
  RollupAgrees
PROPERTIES
  StatusMovesForward
  ImplementsLedger
