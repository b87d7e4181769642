\* Two customers share the oracle; the market moves with every step of time.
CONSTANTS
  a = a
  b = b
  xmr = xmr
  zec = zec
  Coins = {xmr, zec}
  Callers = {a, b}
  PriceAt <- MovingPrices
  Fallback <- OneFallback
  Ttl = 1
  Timeout = 1
  MaxTime = 2
  Unit = 100
  Bps = 50
  Tolerance = 1
  Spread = 2
  Cents = {20}
  Amounts = {26, 50, 103, Unreadable}
  Unreadable = Unreadable
  Sliver = 200
  MaxPayments = 2
  Base = 20
  CallBase = 5
  Max = 40
  CallMax = 6
  Divisor = 20
  LowRatio = 12
  Others = {0, 10}
  NoCache = NoCache
  NoBody = NoBody
  NoCoin = NoCoin
  NoOrder = NoOrder
  NoWatch = NoWatch
  NoQuote = NoQuote
SYMMETRY CustomerSymmetry
SPECIFICATION Spec
INVARIANTS
  TypeOK
  CurrentPricesAreRecent
  QuoteIsCovered
  InstalmentsKeepTheirWorth
  RatesShareOneFactor
PROPERTIES
  CacheFallsBackLittle
