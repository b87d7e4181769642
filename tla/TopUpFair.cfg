\* One worker, one crash; one of three payments is dust, one has no hash.
CONSTANTS
  q1 = q1
  q2 = q2
  x1 = x1
  x2 = x2
  x3 = x3
  k1 = k1
  k2 = k2
  v1 = v1
  v2 = v2
  Quotes = {q1}
  Txs = {x1, x2, x3}
  Keys = {k1}
  MemoKeys = TRUE
  Hashless = {x3}
  Dust = {x2}
  Legacy = {}
  Workers = {v1}
  Required = 2
  QuoteTtl = 1
  Grace = 1
  Stale = 2
  Prompt = FALSE
  CreditFaults = {"before", "after"}
  MaxCrashes = 1
  MaxTip = 3
  MaxTime = 3
  NoTx = NoTx
  NoClaim = NoClaim
  NoPair = NoPair
SPECIFICATION FairSpec
INVARIANTS
  CreditedIsConfirmed
PROPERTIES
  ClaimsAreResolved
  ConfirmingGetsCredited
