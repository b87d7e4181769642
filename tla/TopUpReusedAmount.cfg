\* An amount that is quoted again after the first quote settled.
CONSTANTS
  q1 = q1
  q2 = q2
  x1 = x1
  x2 = x2
  k1 = k1
  k2 = k2
  v1 = v1
  v2 = v2
  Quotes = {q1, q2}
  Txs = {x1}
  Keys = {k1}
  MemoKeys = FALSE
  Hashless = {}
  Dust = {}
  Legacy = {}
  Workers = {v1}
  Required = 2
  QuoteTtl = 1
  Grace = 1
  Stale = 2
  Prompt = TRUE
  CreditFaults = {}
  MaxCrashes = 0
  MaxTip = 3
  MaxTime = 3
  NoTx = NoTx
  NoClaim = NoClaim
  NoPair = NoPair
SYMMETRY WorkerSymmetry
SPECIFICATION Spec
INVARIANTS
  NoFalseAttribution
