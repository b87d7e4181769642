---------------------------- MODULE CheckoutProofs -----------------------------
(***************************************************************************)
(* What the oracle hands out, for any number of callers and coins, any     *)
(* prices, and replies that are partial, late or lost; and what customers  *)
(* are held to, for any number of them, any amounts paid in any number of  *)
(* instalments, and any tiers and caps.                                    *)
(***************************************************************************)
EXTENDS Checkout, FiniteSetTheorems, TLAPS

-----------------------------------------------------------------------------
(* The oracle *)

\* The cache was quoted less than a fetch before it was dated.
CacheIsDated ==
  cache # NoCache => /\ cache.at <= cache.asOf /\ cache.asOf <= cache.at + Timeout
                     /\ cache.asOf <= clock

\* A fetch is out no longer than its timer allows, and was answered since.
CallIsTimed(c) ==
  c.stage # "idle" =>
    /\ c.coin \in Coins
    /\ c.since <= clock /\ clock <= c.since + Timeout
    /\ c.stage = "answered" => c.body \in Body /\ c.since <= c.body.at /\ c.body.at <= clock

CallsAreTimed == \A u \in Callers : CallIsTimed(call[u])

\* What is handed out as a price is one.
PricesArePositive ==
  \A u \in Callers : got[u].source \notin {"none", "failed"} => got[u].usd > 0

OracleInv ==
  /\ OracleTypeOK
  /\ PricesArePositive
  /\ CacheIsDated
  /\ CallsAreTimed
  /\ CurrentPricesAreRecent

Call == [stage: {"idle", "asked", "answered"}, coin: Coins \cup {NoCoin},
         since: 0 .. MaxTime, body: Body \cup {NoBody}]

Got == [source: Sources, coin: Coins \cup {NoCoin}, usd: Nat, at: 0 .. MaxTime,
        when: 0 .. MaxTime]

\* Nothing asked, nothing got.
LEMMA AtRest ==
  /\ IdleCall \in Call /\ IdleCall.stage = "idle"
  /\ NothingGot \in Got /\ NothingGot.source = "none"
BY OracleAssumption DEF IdleCall, NothingGot, Call, Got, Sources

\* A price taken from a set of prices.
LEMMA PriceFromFacts ==
  ASSUME OracleInv, NEW c \in Cached, NEW coin \in Coins,
         NEW source \in {"coingecko", "coingecko-stale"}
  PROVE  LET p == PriceFrom(c, coin, source)
         IN  p \in Got /\ p.source = source /\ p.coin = coin /\ p.at = c.at /\ p.when = clock
             /\ p.usd > 0
<1>1. clock \in 0 .. MaxTime /\ c.at \in 0 .. MaxTime
  BY DEF OracleInv, OracleTypeOK, Cached
<1>2. PriceAt[coin][c.at] \in Nat \ {0}
  BY <1>1, OracleAssumption
<1> QED  BY <1>1, <1>2 DEF PriceFrom, Got, Sources

\* The second best is never handed out as current, and never worse than it has
\* to be.
LEMMA SecondBestFacts ==
  ASSUME OracleInv, NEW c \in Cached \cup {NoCache}, NEW coin \in Coins
  PROVE  LET p == SecondBest(c, coin)
         IN  /\ p \in Got /\ p.source # "coingecko" /\ p.coin = coin
             /\ p.source \in {"fallback", "failed"} => ~HasPrice(c, coin)
             /\ p.source # "failed" => p.usd > 0
<1>1. CASE HasPrice(c, coin)
  <2>1. c \in Cached
    BY <1>1 DEF HasPrice
  <2> QED  BY <1>1, <2>1, PriceFromFacts DEF SecondBest
<1>2. CASE ~HasPrice(c, coin)
  BY <1>2, OracleAssumption DEF SecondBest, OracleInv, OracleTypeOK, Got, Sources
<1> QED  BY <1>1, <1>2

\* Before the first request.
LEMMA OracleInitInv == OracleInit => OracleInv
<1> SUFFICES ASSUME OracleInit PROVE OracleInv
  OBVIOUS
<1>1. OracleTypeOK
  BY AtRest, OracleAssumption DEF OracleInit, OracleTypeOK, Call, Got
<1> QED
  BY <1>1, AtRest DEF OracleInit, OracleInv, CacheIsDated, CallsAreTimed, CallIsTimed,
                      CurrentPricesAreRecent, PricesArePositive

\* What a step has to show: it changes the call and the answer of one caller.
LEMMA CallerStepInv ==
  ASSUME OracleInv, NEW u \in Callers, NEW c \in Call, NEW g \in Got,
         call' = [call EXCEPT ![u] = c], got' = [got EXCEPT ![u] = g], clock' = clock,
         cache' \in Cached \cup {NoCache}, CacheIsDated', CallIsTimed(c),
         g.source = "coingecko" => g.when - g.at < Ttl + Timeout,
         g.source \notin {"none", "failed"} => g.usd > 0
  PROVE  OracleInv'
<1>1. call \in [Callers -> Call] /\ got \in [Callers -> Got]
  BY DEF OracleInv, OracleTypeOK, Call, Got
<1>2. OracleTypeOK'
  BY <1>1 DEF OracleInv, OracleTypeOK, Call, Got
<1>3. CallsAreTimed'
  BY <1>1 DEF OracleInv, CallsAreTimed, CallIsTimed
<1>4. CurrentPricesAreRecent'
  BY <1>1 DEF OracleInv, CurrentPricesAreRecent
<1>5. PricesArePositive'
  BY <1>1 DEF OracleInv, PricesArePositive
<1> QED  BY <1>2, <1>3, <1>4, <1>5 DEF OracleInv

\* A request answered from the cache, or a fetch sent.
LEMMA AskInv ==
  ASSUME OracleInv, NEW u \in Callers, NEW coin \in Coins, Ask(u, coin)
  PROVE  OracleInv'
<1>1. call \in [Callers -> Call] /\ got \in [Callers -> Got] /\ clock \in 0 .. MaxTime
  BY DEF OracleInv, OracleTypeOK, Call, Got
<1>2. cache' = cache /\ clock' = clock /\ CacheIsDated' /\ cache' \in Cached \cup {NoCache}
  BY DEF Ask, OracleInv, CacheIsDated, OracleTypeOK
<1>3. CASE HasPrice(cache, coin) /\ Fresh(cache)
  <2> DEFINE g == PriceFrom(cache, coin, "coingecko")
  <2>1. cache \in Cached
    BY <1>3 DEF HasPrice, OracleInv, OracleTypeOK
  <2>2. g \in Got /\ g.at = cache.at /\ g.when = clock /\ g.usd > 0
    BY <2>1, PriceFromFacts
  <2>3. g.when - g.at < Ttl + Timeout
    BY <1>1, <1>3, <2>1, <2>2, OracleAssumption DEF Fresh, HasPrice, OracleInv, CacheIsDated,
                                                    Cached
  <2>4. call' = [call EXCEPT ![u] = call[u]] /\ got' = [got EXCEPT ![u] = g]
    BY <1>1, <1>3 DEF Ask
  <2>5. call[u] \in Call /\ CallIsTimed(call[u])
    BY <1>1 DEF OracleInv, CallsAreTimed
  <2> HIDE DEF g
  <2> QED  BY <1>2, <2>2, <2>3, <2>4, <2>5, CallerStepInv
<1>4. CASE ~(HasPrice(cache, coin) /\ Fresh(cache))
  <2> DEFINE c == [stage |-> "asked", coin |-> coin, since |-> clock, body |-> NoBody]
  <2>1. c \in Call /\ CallIsTimed(c)
    BY <1>1, OracleAssumption DEF Call, CallIsTimed
  <2>2. call' = [call EXCEPT ![u] = c] /\ got' = [got EXCEPT ![u] = got[u]]
    BY <1>1, <1>4 DEF Ask
  <2>3. /\ got[u] \in Got
        /\ got[u].source = "coingecko" => got[u].when - got[u].at < Ttl + Timeout
        /\ got[u].source \notin {"none", "failed"} => got[u].usd > 0
    BY <1>1 DEF OracleInv, CurrentPricesAreRecent, PricesArePositive
  <2> HIDE DEF c
  <2> QED  BY <1>2, <2>1, <2>2, <2>3, CallerStepInv
<1> QED  BY <1>3, <1>4

\* A reply sets out.
LEMMA SourceAnswersInv ==
  ASSUME OracleInv, NEW u \in Callers, NEW coins \in SUBSET Coins, SourceAnswers(u, coins)
  PROVE  OracleInv'
<1> DEFINE c == [call[u] EXCEPT !.stage = "answered", !.body = [at |-> clock, coins |-> coins]]
<1>1. call \in [Callers -> Call] /\ got \in [Callers -> Got] /\ clock \in 0 .. MaxTime
  BY DEF OracleInv, OracleTypeOK, Call, Got
<1>2. cache' = cache /\ clock' = clock /\ CacheIsDated' /\ cache' \in Cached \cup {NoCache}
  BY DEF SourceAnswers, OracleInv, CacheIsDated, OracleTypeOK
<1>3. /\ c \in Call /\ c.stage = "answered" /\ c.coin = call[u].coin /\ c.since = call[u].since
      /\ c.body = [at |-> clock, coins |-> coins] /\ c.body \in Body
  BY <1>1 DEF Call, Body
<1>4. call[u].stage = "asked" /\ call' = [call EXCEPT ![u] = c] /\ got' = [got EXCEPT ![u] = got[u]]
  BY <1>1 DEF SourceAnswers
<1>5. CallIsTimed(c)
  <2>1. call[u].coin \in Coins /\ call[u].since <= clock /\ clock <= call[u].since + Timeout
    BY <1>4 DEF OracleInv, CallsAreTimed, CallIsTimed
  <2> HIDE DEF c
  <2> QED  BY <1>1, <1>3, <2>1 DEF CallIsTimed
<1>6. /\ got[u] \in Got
      /\ got[u].source = "coingecko" => got[u].when - got[u].at < Ttl + Timeout
      /\ got[u].source \notin {"none", "failed"} => got[u].usd > 0
  BY <1>1 DEF OracleInv, CurrentPricesAreRecent, PricesArePositive
<1> HIDE DEF c
<1> QED  BY <1>2, <1>3, <1>4, <1>5, <1>6, CallerStepInv

\* A reply about to be cached, and the bounds that make its date mean something.
LEMMA ReplyFacts ==
  ASSUME OracleInv, NEW u \in Callers, call[u].stage = "answered"
  PROVE  LET body  == call[u].body
             fresh == [at |-> body.at, coins |-> body.coins, asOf |-> clock]
         IN  /\ call[u].coin \in Coins
             /\ fresh \in Cached /\ fresh # NoCache
             /\ fresh.at = body.at /\ fresh.asOf = clock
             /\ clock \in Nat /\ body.at \in Nat
             /\ body.at <= clock /\ clock <= body.at + Timeout
<1>1. call[u] \in Call /\ clock \in 0 .. MaxTime
  BY DEF OracleInv, OracleTypeOK, Call
<1>2. /\ call[u].coin \in Coins /\ call[u].body \in Body
      /\ clock <= call[u].since + Timeout
      /\ call[u].since <= call[u].body.at /\ call[u].body.at <= clock
  BY DEF OracleInv, CallsAreTimed, CallIsTimed
<1>3. call[u].since \in 0 .. MaxTime /\ call[u].body.at \in 0 .. MaxTime
  BY <1>1, <1>2 DEF Call, Body
<1>4. clock <= call[u].body.at + Timeout
  BY <1>1, <1>2, <1>3, OracleAssumption
<1> QED  BY <1>1, <1>2, <1>3, <1>4, OracleAbsenceAssumption DEF Body, Cached

\* A reply replaces the cache.
LEMMA ReplyArrivesInv ==
  ASSUME OracleInv, NEW u \in Callers, ReplyArrives(u)
  PROVE  OracleInv'
<1> DEFINE coin  == call[u].coin
           fresh == [at |-> call[u].body.at, coins |-> call[u].body.coins, asOf |-> clock]
           g     == IF HasPrice(fresh, coin) THEN PriceFrom(fresh, coin, "coingecko")
                    ELSE SecondBest(fresh, coin)
<1>1. call \in [Callers -> Call] /\ got \in [Callers -> Got] /\ call[u].stage = "answered"
  BY DEF ReplyArrives, OracleInv, OracleTypeOK, Call, Got
<1>2. /\ coin \in Coins /\ fresh \in Cached /\ fresh # NoCache
      /\ fresh.at = call[u].body.at /\ fresh.asOf = clock
      /\ clock \in Nat /\ fresh.at \in Nat
      /\ fresh.at <= clock /\ clock <= fresh.at + Timeout
  BY <1>1, ReplyFacts
<1>3. /\ cache' = fresh /\ clock' = clock
      /\ call' = [call EXCEPT ![u] = IdleCall] /\ got' = [got EXCEPT ![u] = g]
  BY DEF ReplyArrives
<1> HIDE DEF coin, fresh
<1>4. /\ g \in Got
      /\ g.source = "coingecko" => g.when - g.at < Ttl + Timeout
      /\ g.source \notin {"none", "failed"} => g.usd > 0
  <2>1. CASE HasPrice(fresh, coin)
    BY <1>2, <2>1, PriceFromFacts, OracleAssumption
  <2>2. CASE ~HasPrice(fresh, coin)
    BY <1>2, <2>2, SecondBestFacts
  <2> QED  BY <2>1, <2>2
<1>5. CacheIsDated' /\ CallIsTimed(IdleCall)
  BY <1>2, <1>3, AtRest DEF CacheIsDated, CallIsTimed
<1> HIDE DEF g
<1> QED  BY <1>2, <1>3, <1>4, <1>5, AtRest, CallerStepInv

\* A fetch that fails, and an answer that is used.
LEMMA FetchEndsInv ==
  ASSUME OracleInv, NEW u \in Callers, FetchFails(u) \/ Collect(u)
  PROVE  OracleInv'
<1>1. call \in [Callers -> Call] /\ got \in [Callers -> Got]
  BY DEF OracleInv, OracleTypeOK, Call, Got
<1>2. cache' = cache /\ clock' = clock /\ CacheIsDated' /\ cache' \in Cached \cup {NoCache}
  BY DEF FetchFails, Collect, OracleInv, CacheIsDated, OracleTypeOK
<1>3. CASE FetchFails(u)
  <2> DEFINE g == SecondBest(cache, call[u].coin)
  <2>1. call[u].coin \in Coins
    BY <1>3 DEF FetchFails, OracleInv, CallsAreTimed, CallIsTimed
  <2>2. g \in Got /\ g.source # "coingecko" /\ (g.source # "failed" => g.usd > 0)
    BY <1>2, <2>1, SecondBestFacts
  <2>3. call' = [call EXCEPT ![u] = IdleCall] /\ got' = [got EXCEPT ![u] = g]
    BY <1>3 DEF FetchFails
  <2>4. CallIsTimed(IdleCall)
    BY AtRest DEF CallIsTimed
  <2> HIDE DEF g
  <2> QED  BY <1>2, <2>2, <2>3, <2>4, AtRest, CallerStepInv
<1>4. CASE Collect(u)
  <2>1. call' = [call EXCEPT ![u] = call[u]] /\ got' = [got EXCEPT ![u] = NothingGot]
    BY <1>1, <1>4 DEF Collect
  <2>2. call[u] \in Call /\ CallIsTimed(call[u])
    BY <1>1 DEF OracleInv, CallsAreTimed
  <2> QED  BY <1>2, <2>1, <2>2, AtRest, CallerStepInv
<1> QED  BY <1>3, <1>4

\* Time passes: the abort timer keeps the calls young.
LEMMA AdvanceInv == OracleInv /\ Advance => OracleInv'
<1> SUFFICES ASSUME OracleInv, Advance PROVE OracleInv'
  OBVIOUS
<1>1. clock \in 0 .. MaxTime /\ clock' = clock + 1 /\ clock' \in 0 .. MaxTime
  BY OracleAssumption DEF OracleInv, OracleTypeOK, Advance
<1>2. UNCHANGED <<cache, call, got>>
  BY DEF Advance
<1>3. OracleTypeOK'
  BY <1>1, <1>2 DEF OracleInv, OracleTypeOK
<1>4. CacheIsDated'
  <2> SUFFICES ASSUME cache # NoCache PROVE cache.asOf <= clock'
    BY <1>2 DEF OracleInv, CacheIsDated
  <2> QED  BY <1>1 DEF OracleInv, CacheIsDated, OracleTypeOK, Cached
<1>5. CallsAreTimed'
  <2> SUFFICES ASSUME NEW u \in Callers, call[u].stage # "idle" PROVE CallIsTimed(call[u])'
    BY <1>2 DEF CallsAreTimed, CallIsTimed
  <2>1. CallIsTimed(call[u]) /\ call[u] \in Call
    BY DEF OracleInv, CallsAreTimed, OracleTypeOK, Call
  <2>2. clock < call[u].since + Timeout
    BY DEF Advance
  <2>3. call[u].since \in Nat /\ (call[u].stage = "answered" => call[u].body.at \in Nat)
    BY <2>1 DEF Call, Body, CallIsTimed
  <2> QED  BY <1>1, <1>2, <2>1, <2>2, <2>3, OracleAssumption DEF CallIsTimed
<1>6. CurrentPricesAreRecent' /\ PricesArePositive'
  BY <1>2 DEF OracleInv, CurrentPricesAreRecent, PricesArePositive
<1> QED  BY <1>3, <1>4, <1>5, <1>6 DEF OracleInv

\* The invariant holds in every reachable state.
LEMMA OracleInvariant == OracleSpec => []OracleInv
<1>1. OracleInv /\ [OracleNext]_oracle => OracleInv'
  <2> SUFFICES ASSUME OracleInv, [OracleNext]_oracle PROVE OracleInv'
    OBVIOUS
  <2>1. CASE \E u \in Callers, coin \in Coins : Ask(u, coin)
    BY <2>1, AskInv
  <2>2. CASE \E u \in Callers, coins \in SUBSET Coins : SourceAnswers(u, coins)
    BY <2>2, SourceAnswersInv
  <2>3. CASE \E u \in Callers : ReplyArrives(u) \/ FetchFails(u) \/ Collect(u)
    BY <2>3, ReplyArrivesInv, FetchEndsInv
  <2>4. CASE Advance
    BY <2>4, AdvanceInv
  <2>5. CASE UNCHANGED oracle
    BY <2>5 DEF oracle, OracleInv, OracleTypeOK, CacheIsDated, CallsAreTimed, CallIsTimed,
                CurrentPricesAreRecent, PricesArePositive
  <2> QED  BY <2>1, <2>2, <2>3, <2>4, <2>5 DEF OracleNext, Fetch
<1> QED  BY OracleInitInv, <1>1, PTL DEF OracleSpec

\* Every variable of the oracle keeps its type.
THEOREM OracleTypeCorrect == OracleSpec => []OracleTypeOK
<1>1. OracleInv => OracleTypeOK
  BY DEF OracleInv
<1> QED  BY <1>1, OracleInvariant, PTL

\* A price handed out as current was quoted less than a cache lifetime and a fetch
\* ago, whichever replies came late.
THEOREM CurrentIsRecent == OracleSpec => []CurrentPricesAreRecent
<1>1. OracleInv => CurrentPricesAreRecent
  BY DEF OracleInv
<1> QED  BY <1>1, OracleInvariant, PTL

\* Replies that overtake each other set the cache back by less than a fetch.
THEOREM CacheKeepsUp == OracleSpec => CacheFallsBackLittle
<1>1. OracleInv /\ [OracleNext]_oracle
        => [cache # NoCache => cache' # NoCache /\ cache'.at >= cache.at - Timeout]_oracle
  <2> SUFFICES ASSUME OracleInv, OracleNext, cache # NoCache
               PROVE  cache' # NoCache /\ cache'.at >= cache.at - Timeout
    OBVIOUS
  <2>1. /\ cache.at \in Nat /\ cache.asOf \in Nat /\ clock \in Nat
        /\ cache.at <= cache.asOf /\ cache.asOf <= clock
    BY DEF OracleInv, OracleTypeOK, CacheIsDated, Cached
  <2>2. CASE \E u \in Callers : ReplyArrives(u)
    <3>1. PICK u \in Callers : ReplyArrives(u)
      BY <2>2
    <3> DEFINE fresh == [at |-> call[u].body.at, coins |-> call[u].body.coins, asOf |-> clock]
    <3>2. cache' = fresh /\ call[u].stage = "answered"
      BY <3>1 DEF ReplyArrives
    <3>3. fresh # NoCache /\ fresh.at \in Nat /\ clock <= fresh.at + Timeout
      BY <3>2, ReplyFacts
    <3> QED  BY <2>1, <3>2, <3>3, OracleAssumption
  <2>3. CASE cache' = cache
    BY <2>1, <2>3, OracleAssumption
  <2> QED
    BY <2>2, <2>3 DEF OracleNext, Fetch, Ask, SourceAnswers, FetchFails, Collect, Advance
<1> QED  BY <1>1, OracleInvariant, PTL DEF OracleSpec, CacheFallsBackLittle

-----------------------------------------------------------------------------
(* Arithmetic *)

\* A product of naturals is a natural, and grows with each of its factors.
LEMMA ProductFacts ==
  ASSUME NEW a \in Nat, NEW b \in Nat, NEW c \in Nat
  PROVE  /\ a * b \in Nat
         /\ a <= b => a * c <= b * c /\ c * a <= c * b
         /\ a > 0 /\ b > 0 => a * b > 0
<1>1. a * b \in Nat  OBVIOUS
<1>2. a <= b => a * c <= b * c  BY SMT
<1>3. a <= b => c * a <= c * b  BY SMT
<1>4. a > 0 /\ b > 0 => a * b > 0  BY SMT
<1> QED  BY <1>1, <1>2, <1>3, <1>4

\* A factor can be taken from both sides of an inequality.
LEMMA CancelFactor ==
  ASSUME NEW a \in Int, NEW b \in Int, NEW c \in Nat \ {0}
  PROVE  /\ a * c <= b * c => a <= b
         /\ a * c < b * c => a < b
<1>1. a * c <= b * c => a <= b  BY SMT
<1>2. a * c < b * c => a < b  BY SMT
<1> QED  BY <1>1, <1>2

\* A quotient rounded down.
LEMMA FloorBounds ==
  ASSUME NEW a \in Nat, NEW b \in Nat \ {0}
  PROVE  /\ a \div b \in Nat
         /\ (a \div b) * b <= a
         /\ a < (a \div b) * b + b
<1>1. a \div b \in Nat  BY SMT
<1>2. (a \div b) * b <= a  BY SMT
<1>3. a < (a \div b) * b + b  BY SMT
<1> QED  BY <1>1, <1>2, <1>3

\* A quotient rounded up.
LEMMA CeilingBounds ==
  ASSUME NEW a \in Nat \ {0}, NEW b \in Nat \ {0}
  PROVE  /\ Ceiling(a, b) \in Nat \ {0}
         /\ Ceiling(a, b) * b >= a
         /\ (Ceiling(a, b) - 1) * b < a
<1> DEFINE q == (a + b - 1) \div b
<1>1. q \in Nat /\ q * b <= a + b - 1 /\ a + b - 1 < q * b + b
  BY FloorBounds
<1>2. q * b \in Nat /\ (q - 1) * b = q * b - b
  BY <1>1
<1>3. q # 0
  <2>1. 0 * b = 0  OBVIOUS
  <2> QED  BY <1>1, <2>1
<1> HIDE DEF q
<1>4. q \in Nat \ {0} /\ q * b >= a /\ (q - 1) * b < a
  BY <1>1, <1>2, <1>3
<1> QED  BY <1>4 DEF Ceiling, q

\* A quotient rounded to the nearest integer is within a half of it.
LEMMA RoundBounds ==
  ASSUME NEW a \in Nat, NEW b \in Nat \ {0}
  PROVE  /\ Round(a, b) \in Nat
         /\ Round(a, b) * (2 * b) <= 2 * a + b
         /\ 2 * a - b < Round(a, b) * (2 * b)
<1> DEFINE q == (2 * a + b) \div (2 * b)
<1>1. q \in Nat /\ q * (2 * b) <= 2 * a + b /\ 2 * a + b < q * (2 * b) + 2 * b
  <2>1. 2 * a + b \in Nat /\ 2 * b \in Nat \ {0}
    OBVIOUS
  <2> HIDE DEF q
  <2> QED  BY <2>1, FloorBounds DEF q
<1>2. q * (2 * b) \in Nat
  BY <1>1
<1> HIDE DEF q
<1>3. 2 * a - b < q * (2 * b)
  BY <1>1, <1>2
<1> QED  BY <1>1, <1>3 DEF Round, q

-----------------------------------------------------------------------------
(* The price locked into a quote *)

\* The amounts a quote may ask for, a sliver off on either side.
LEMMA AmountBounds ==
  ASSUME NEW cents \in Nat \ {0}, NEW price \in Nat \ {0}, Spread \in Nat,
         NEW e \in AmountsFor(cents, price, Spread)
  PROVE  LET A == cents * (Bps + Spread) * Unit
             B == price * Bps
         IN  /\ A \in Nat \ {0} /\ B \in Nat \ {0} /\ e \in Nat \ {0}
             /\ e * (B * Sliver) >= A * (Sliver - 1)
             /\ (e - 1) * (B * Sliver) < A * (Sliver + 1)
<1> DEFINE A == cents * (Bps + Spread) * Unit
           B == price * Bps
           D == B * Sliver
           lo == Ceiling(A * (Sliver - 1), D)
           hi == Ceiling(A * (Sliver + 1), D)
<1>1. /\ Unit \in Nat \ {0} /\ Bps \in Nat \ {0}
      /\ Sliver \in Nat \ {0} /\ Sliver - 1 \in Nat \ {0} /\ Sliver + 1 \in Nat \ {0}
  BY ValueAssumption
<1>2. B \in Nat \ {0}
  BY <1>1, ProductFacts
<1>3. cents * (Bps + Spread) \in Nat \ {0}
  BY <1>1, ProductFacts
<1>4. A \in Nat \ {0}
  BY <1>1, <1>3, ProductFacts
<1>5. e \in lo .. hi
  BY DEF AmountsFor
<1> HIDE DEF A, B
<1>6. /\ D \in Nat \ {0}
      /\ A * (Sliver - 1) \in Nat \ {0} /\ A * (Sliver + 1) \in Nat \ {0}
  BY <1>1, <1>2, <1>4, ProductFacts
<1> HIDE DEF D
<1>7. lo \in Nat \ {0} /\ lo * D >= A * (Sliver - 1)
  BY <1>6, CeilingBounds
<1>8. hi \in Nat \ {0} /\ (hi - 1) * D < A * (Sliver + 1)
  BY <1>6, CeilingBounds
<1> HIDE DEF lo, hi
<1>9. e \in Nat \ {0} /\ lo <= e /\ e - 1 \in Nat /\ hi - 1 \in Nat /\ e - 1 <= hi - 1
  BY <1>5, <1>7, <1>8
<1>10. lo * D <= e * D /\ (e - 1) * D <= (hi - 1) * D
  BY <1>6, <1>7, <1>9, ProductFacts
<1>11. /\ lo * D \in Nat /\ e * D \in Nat
       /\ (e - 1) * D \in Nat /\ (hi - 1) * D \in Nat
  BY <1>6, <1>7, <1>9, ProductFacts
<1>12. e * D >= A * (Sliver - 1) /\ (e - 1) * D < A * (Sliver + 1)
  BY <1>6, <1>7, <1>8, <1>10, <1>11
<1> QED  BY <1>2, <1>4, <1>9, <1>12 DEF A, B, D

\* Below the sliver, that is at most one unit off.
LEMMA OneUnitOff ==
  ASSUME NEW A \in Nat \ {0}, NEW B \in Nat \ {0}, NEW S \in Nat \ {0},
         NEW e \in Nat \ {0}, A < B * S,
         e * (B * S) >= A * (S - 1), (e - 1) * (B * S) < A * (S + 1)
  PROVE  (e + 1) * B > A /\ (e - 2) * B < A
<1> DEFINE D == B * S
<1>1. D \in Nat /\ e * D \in Nat /\ A * S \in Nat
  BY ProductFacts
<1>2. A * (S - 1) = A * S - A /\ A * (S + 1) = A * S + A
  BY SMT
<1>3. (e + 1) * D = e * D + D /\ (e - 1) * D = e * D - D /\ (e - 2) * D = e * D - D - D
  <2> HIDE DEF D
  <2> QED  BY <1>1, SMT
<1>4. A * S < (e + 1) * D /\ (e - 2) * D < A * S
  <2> HIDE DEF D
  <2>1. A < D /\ e * D >= A * (S - 1) /\ (e - 1) * D < A * (S + 1)
    BY DEF D
  <2> QED  BY <1>1, <1>2, <1>3, <2>1
<1>5. (e + 1) * D = ((e + 1) * B) * S /\ (e - 2) * D = ((e - 2) * B) * S
  BY SMT
<1>6. (e + 1) * B \in Int /\ (e - 2) * B \in Int
  OBVIOUS
<1>7. A * S < ((e + 1) * B) * S => A < (e + 1) * B
  BY <1>6, CancelFactor
<1>8. ((e - 2) * B) * S < A * S => (e - 2) * B < A
  BY <1>6, CancelFactor
<1> HIDE DEF D
<1> QED  BY <1>4, <1>5, <1>7, <1>8

\* What an amount reads back as, a sliver off once more.
LEMMA ReadBackBounds ==
  ASSUME NEW e \in Nat, NEW price \in Nat, NEW c \in CentsFor(e, price),
         NEW k \in Nat, e * price * (Sliver - 1) >= k * (Unit * Sliver)
  PROVE  c >= k
<1> DEFINE X == e * price * (Sliver - 1)
           D == Unit * Sliver
           w == X \div D
           v == (e * price * (Sliver + 1)) \div D
<1>1. Unit \in Nat \ {0} /\ Sliver \in Nat \ {0} /\ Sliver - 1 \in Nat
  BY ValueAssumption
<1>2. D \in Nat \ {0} /\ e * price \in Nat /\ e * price * (Sliver + 1) \in Nat
  BY <1>1, ProductFacts
<1>3. X \in Nat
  BY <1>1, <1>2, ProductFacts
<1>4. c \in w .. v
  BY DEF CentsFor
<1>5. k * D <= X
  OBVIOUS
<1> HIDE DEF X, D
<1>6. w \in Nat /\ X < w * D + D /\ v \in Int
  <2>1. w \in Nat /\ X < w * D + D
    BY <1>2, <1>3, FloorBounds
  <2>2. v \in Nat
    BY <1>2, FloorBounds
  <2> QED  BY <2>1, <2>2
<1> HIDE DEF w, v
<1>7. w * D + D = (w + 1) * D /\ (w + 1) * D \in Nat /\ k * D \in Nat
  BY <1>2, <1>6, ProductFacts
<1>8. k * D < (w + 1) * D
  BY <1>3, <1>5, <1>6, <1>7
<1>9. k < w + 1
  BY <1>2, <1>6, <1>8, CancelFactor
<1> QED  BY <1>4, <1>6, <1>9

\* Two slivers down from the amount, and a factor that makes up for them.
LEMMA TwoSlivers ==
  ASSUME NEW e \in Nat, NEW price \in Nat, NEW U \in Nat \ {0}, NEW b \in Nat \ {0},
         NEW more \in Nat, NEW S \in Nat \ {0}, NEW T \in Nat,
         NEW cents \in Nat, NEW k \in Nat,
         e * (price * b * S) >= cents * more * U * T,
         k * b * (S * S) <= cents * more * (T * T)
  PROVE  e * price * T >= k * (U * S)
<1>1. /\ price * b * S \in Nat /\ cents * more \in Nat /\ T * T \in Nat /\ S * S \in Nat
      /\ k * b \in Nat /\ b * S \in Nat \ {0} /\ U * S \in Nat /\ e * price \in Nat
  <2>1. price * b \in Nat
    BY ProductFacts
  <2> QED  BY <2>1, ProductFacts
<1>2. /\ e * (price * b * S) \in Nat /\ cents * more * U \in Nat
      /\ k * b * (S * S) \in Nat /\ cents * more * (T * T) \in Nat
      /\ e * price * T \in Nat /\ k * (U * S) \in Nat
  BY <1>1, ProductFacts
<1>3. cents * more * U * T \in Nat
  BY <1>2, ProductFacts
<1>4. (e * (price * b * S)) * T >= (cents * more * U * T) * T
  BY <1>2, <1>3, ProductFacts
<1>5. (cents * more * (T * T)) * U >= (k * b * (S * S)) * U
  BY <1>2, ProductFacts
<1>6. (e * price * T) * (b * S) = (e * (price * b * S)) * T
  BY SMT
<1>7. (cents * more * U * T) * T = (cents * more * (T * T)) * U
  BY SMT
<1>8. (k * b * (S * S)) * U = (k * (U * S)) * (b * S)
  BY SMT
<1>9. /\ (e * (price * b * S)) * T \in Nat /\ (cents * more * U * T) * T \in Nat
      /\ (k * b * (S * S)) * U \in Nat
  BY <1>2, <1>3, ProductFacts
<1>10. (k * (U * S)) * (b * S) <= (e * price * T) * (b * S)
  BY <1>4, <1>5, <1>6, <1>7, <1>8, <1>9
<1> QED  BY <1>1, <1>2, <1>10, CancelFactor

\* A cent makes up for two slivers.
LEMMA CentOutweighsSlivers ==
  ASSUME NEW cents \in Nat \ {0}, NEW S \in Nat \ {0}, 2 * cents <= S
  PROVE  (cents - 1) * (S * S) <= cents * ((S - 1) * (S - 1))
<1>1. S * (S - 2 * cents) \in Nat
  <2>1. S - 2 * cents \in Nat
    OBVIOUS
  <2> QED  BY <2>1, ProductFacts
<1>2. S * (S - 2 * cents) = S * S - 2 * (cents * S)
  BY SMT
<1>3. (cents - 1) * (S * S) = cents * (S * S) - S * S
  BY SMT
<1>4. cents * ((S - 1) * (S - 1)) = cents * (S * S) - 2 * (cents * S) + cents
  BY SMT
<1>5. cents * (S * S) \in Int /\ S * S \in Int /\ cents * S \in Int
  OBVIOUS
<1> QED  BY <1>1, <1>2, <1>3, <1>4, <1>5

\* A quote asks for what covers it.
LEMMA AmountCovers ==
  ASSUME NEW cents \in Nat \ {0}, NEW price \in Nat \ {0}, Spread \in Nat,
         NEW e \in AmountsFor(cents, price, Spread),
         2 * cents <= Sliver, cents * (Bps + Spread) * Unit < price * Bps * Sliver
  PROVE  /\ (e + 1) * (price * Bps) > cents * (Bps + Spread) * Unit
         /\ (e - 2) * (price * Bps) < cents * (Bps + Spread) * Unit
         /\ \A c \in CentsFor(e, price) :
              c >= IF SpreadOutweighsSliver THEN cents ELSE cents - 1
<1> DEFINE A == cents * (Bps + Spread) * Unit
           B == price * Bps
           T == Sliver - 1
<1>1. /\ Unit \in Nat \ {0} /\ Bps \in Nat \ {0} /\ Bps + Spread \in Nat
      /\ Sliver \in Nat \ {0} /\ T \in Nat
  BY ValueAssumption
<1>2. /\ A \in Nat \ {0} /\ B \in Nat \ {0} /\ e \in Nat \ {0}
      /\ e * (B * Sliver) >= A * T
      /\ (e - 1) * (B * Sliver) < A * (Sliver + 1)
  BY AmountBounds
<1>3. A < B * Sliver
  OBVIOUS
<1>4. (e + 1) * B > A /\ (e - 2) * B < A
  <2> HIDE DEF A, B
  <2>1. e * (B * Sliver) >= A * (Sliver - 1)
    BY <1>2
  <2> QED  BY <1>1, <1>2, <1>3, <2>1, OneUnitOff
<1>5. ASSUME NEW k \in Nat, k * Bps * (Sliver * Sliver) <= cents * (Bps + Spread) * (T * T),
             NEW c \in CentsFor(e, price)
      PROVE  c >= k
  <2>1. e * (price * Bps * Sliver) >= cents * (Bps + Spread) * Unit * T
    BY <1>2
  <2> HIDE DEF A, B, T
  <2>2. e * price * T >= k * (Unit * Sliver)
    BY <1>1, <1>2, <1>5, <2>1, TwoSlivers
  <2>3. e * price * (Sliver - 1) >= k * (Unit * Sliver)
    BY <2>2 DEF T
  <2> QED  BY <1>2, <1>5, <2>3, ReadBackBounds
<1>6. SpreadOutweighsSliver =>
        cents * Bps * (Sliver * Sliver) <= cents * (Bps + Spread) * (T * T)
  <2> SUFFICES ASSUME SpreadOutweighsSliver
               PROVE  cents * Bps * (Sliver * Sliver) <= cents * (Bps + Spread) * (T * T)
    OBVIOUS
  <2>1. Bps * (Sliver * Sliver) <= (Bps + Spread) * (T * T)
    BY DEF SpreadOutweighsSliver
  <2> HIDE DEF T
  <2>2. /\ Sliver * Sliver \in Nat /\ T * T \in Nat
    BY <1>1, ProductFacts
  <2>3. Bps * (Sliver * Sliver) \in Nat /\ (Bps + Spread) * (T * T) \in Nat
    BY <1>1, <2>2, ProductFacts
  <2>4. cents * (Bps * (Sliver * Sliver)) <= cents * ((Bps + Spread) * (T * T))
    BY <2>1, <2>3, ProductFacts
  <2>5. cents * (Bps * (Sliver * Sliver)) = cents * Bps * (Sliver * Sliver)
    BY <1>1, SMT
  <2>6. cents * ((Bps + Spread) * (T * T)) = cents * (Bps + Spread) * (T * T)
    BY <1>1, SMT
  <2> QED  BY <2>4, <2>5, <2>6
<1>7. (cents - 1) * Bps * (Sliver * Sliver) <= cents * (Bps + Spread) * (T * T)
  <2>1. (cents - 1) * (Sliver * Sliver) <= cents * (T * T)
    BY <1>1, CentOutweighsSlivers
  <2> HIDE DEF T
  <2>2. /\ Sliver * Sliver \in Nat /\ T * T \in Nat /\ cents - 1 \in Nat
    BY <1>1, ProductFacts
  <2>3. (cents - 1) * (Sliver * Sliver) \in Nat /\ cents * (T * T) \in Nat
    BY <2>2, ProductFacts
  <2>4. ((cents - 1) * (Sliver * Sliver)) * Bps <= (cents * (T * T)) * Bps
    BY <1>1, <2>1, <2>3, ProductFacts
  <2>5. (cents * (T * T)) * Bps <= (cents * (T * T)) * (Bps + Spread)
    BY <1>1, <2>3, ProductFacts
  <2>6. ((cents - 1) * (Sliver * Sliver)) * Bps = (cents - 1) * Bps * (Sliver * Sliver)
    BY <1>1, SMT
  <2>7. (cents * (T * T)) * (Bps + Spread) = cents * (Bps + Spread) * (T * T)
    BY <1>1, SMT
  <2>8. /\ ((cents - 1) * (Sliver * Sliver)) * Bps \in Nat
        /\ (cents * (T * T)) * Bps \in Nat /\ (cents * (T * T)) * (Bps + Spread) \in Nat
    BY <1>1, <2>3, ProductFacts
  <2> QED  BY <2>4, <2>5, <2>6, <2>7, <2>8
<1>8. ASSUME NEW c \in CentsFor(e, price)
      PROVE  c >= IF SpreadOutweighsSliver THEN cents ELSE cents - 1
  <2> HIDE DEF A, B, T
  <2>1. CASE SpreadOutweighsSliver
    BY <1>5, <1>6, <1>8, <2>1
  <2>2. CASE ~SpreadOutweighsSliver
    BY <1>5, <1>7, <1>8, <2>2
  <2> QED  BY <2>1, <2>2
<1> QED  BY <1>4, <1>8 DEF A, B

\* What a payment of a readable amount is credited with, against what it is worth.
LEMMA CreditBounds ==
  ASSUME NEW cents \in Nat \ {0}, NEW expected \in Nat \ {0}, NEW amount \in Nat
  PROVE  LET c == CreditCents(cents, expected, amount)
         IN  /\ c \in Nat
             /\ cents * amount <= (c + 1) * expected
             /\ c * expected * (Bps - Tolerance) <= cents * (amount + 1) * Bps
<1> DEFINE c == CreditCents(cents, expected, amount)
           part == Bps - Tolerance
<1>1. Bps \in Nat \ {0} /\ part \in Nat /\ part <= Bps
  BY ValueAssumption
<1> HIDE DEF part
<1>2. /\ cents * amount \in Nat /\ cents * expected \in Nat /\ expected * part \in Nat
      /\ cents * amount * Bps \in Nat /\ cents * (amount + 1) \in Nat
      /\ cents * (amount + 1) * Bps \in Nat
  BY <1>1, ProductFacts
<1>3. CASE NearlyPaid(expected, amount)
  <2> DEFINE band == (expected * part) \div Bps
  <2>1. c = cents
    BY <1>3 DEF CreditCents
  <2>2. amount >= band /\ amount < expected
    BY <1>3 DEF NearlyPaid, part
  <2>3. band \in Nat /\ expected * part < band * Bps + Bps
    BY <1>1, <1>2, FloorBounds
  <2>4. cents * amount <= (cents + 1) * expected
    <3>1. cents * amount <= cents * expected
      BY <2>2, ProductFacts
    <3>2. (cents + 1) * expected = cents * expected + expected
      OBVIOUS
    <3> QED  BY <1>2, <3>1, <3>2
  <2>5. expected * part <= (amount + 1) * Bps
    <3> HIDE DEF band
    <3>1. (band + 1) * Bps <= (amount + 1) * Bps /\ (amount + 1) * Bps \in Nat
      BY <1>1, <2>2, <2>3, ProductFacts
    <3>2. (band + 1) * Bps = band * Bps + Bps /\ band * Bps \in Nat
      BY <1>1, <2>3
    <3> QED  BY <1>1, <1>2, <2>3, <3>1, <3>2
  <2>6. cents * expected * part <= cents * (amount + 1) * Bps
    <3>1. (amount + 1) * Bps \in Nat
      BY <1>1, ProductFacts
    <3>2. cents * (expected * part) <= cents * ((amount + 1) * Bps)
      BY <1>2, <2>5, <3>1, ProductFacts
    <3>3. cents * (expected * part) = cents * expected * part
      BY <1>1, SMT
    <3>4. cents * ((amount + 1) * Bps) = cents * (amount + 1) * Bps
      BY <1>1, SMT
    <3> QED  BY <3>2, <3>3, <3>4
  <2> HIDE DEF c
  <2>7. c \in Nat /\ cents * amount <= (c + 1) * expected
        /\ c * expected * part <= cents * (amount + 1) * Bps
    BY <2>1, <2>4, <2>6
  <2> QED  BY <2>7 DEF c, part
<1>4. CASE ~NearlyPaid(expected, amount)
  <2>1. c = (cents * amount) \div expected
    BY <1>4, ValueAssumption DEF CreditCents
  <2> HIDE DEF c
  <2>2. c \in Nat /\ c * expected <= cents * amount /\ cents * amount < c * expected + expected
    BY <1>2, <2>1, FloorBounds
  <2>3. c * expected \in Nat
    BY <2>2, ProductFacts
  <2>4. cents * amount <= (c + 1) * expected
    <3>1. (c + 1) * expected = c * expected + expected
      BY <2>2
    <3> QED  BY <1>2, <2>2, <2>3, <3>1
  <2>5. c * expected * part <= cents * (amount + 1) * Bps
    <3>1. c * expected * part <= c * expected * Bps
      BY <1>1, <2>3, ProductFacts
    <3>2. c * expected * Bps <= cents * (amount + 1) * Bps
      <4>1. cents * amount <= cents * (amount + 1)
        BY ProductFacts
      <4>2. c * expected <= cents * (amount + 1)
        BY <1>2, <2>2, <2>3, <4>1
      <4> QED  BY <1>1, <1>2, <2>3, <4>2, ProductFacts
    <3>3. c * expected * part \in Nat /\ c * expected * Bps \in Nat
      BY <1>1, <2>3, ProductFacts
    <3> QED  BY <1>2, <3>1, <3>2, <3>3
  <2> QED  BY <2>2, <2>4, <2>5 DEF c, part
<1> QED  BY <1>3, <1>4

-----------------------------------------------------------------------------
(* The rates locked into a watch *)

\* A surged rate is no less than its base, and within half a unit of the factor.
LEMMA SurgedBounds ==
  ASSUME NEW rate \in Nat \ {0}, NEW n \in Nat
  PROVE  LET s == Surged(rate, n)
         IN  /\ s \in Nat /\ s >= rate
             /\ s * (2 * Divisor) <= 2 * (rate * (Divisor + n)) + Divisor
             /\ 2 * (rate * (Divisor + n)) - Divisor < s * (2 * Divisor)
<1> DEFINE s == Surged(rate, n)
           a == rate * (Divisor + n)
<1>1. Divisor \in Nat \ {0}
  BY PricingAssumption
<1>2. a \in Nat /\ rate * Divisor \in Nat /\ rate * Divisor <= a
  BY <1>1, ProductFacts
<1>3. s \in Nat /\ s * (2 * Divisor) <= 2 * a + Divisor /\ 2 * a - Divisor < s * (2 * Divisor)
  <2> HIDE DEF a
  <2>1. s = Round(a, Divisor)
    BY DEF Surged, a
  <2> HIDE DEF s
  <2> QED  BY <1>1, <1>2, <2>1, RoundBounds
<1>4. s >= rate
  <2> HIDE DEF s, a
  <2>1. s * (2 * Divisor) = 2 * (s * Divisor) /\ s * Divisor \in Nat
    BY <1>1, <1>3, SMT
  <2>2. 2 * (rate * Divisor) - Divisor < 2 * (s * Divisor)
    BY <1>1, <1>2, <1>3, <2>1
  <2>3. (2 * rate - 1) * Divisor = 2 * (rate * Divisor) - Divisor
        /\ (2 * s) * Divisor = 2 * (s * Divisor)
    BY <1>1, <1>3, SMT
  <2>4. 2 * rate - 1 < 2 * s
    BY <1>1, <1>3, <2>2, <2>3, CancelFactor
  <2> QED  BY <1>3, <2>4
<1> QED  BY <1>3, <1>4

\* Two surged rates are in the ratio of their bases but for the rounding of each.
LEMMA SkewBounds ==
  ASSUME NEW n \in Nat
  PROVE  LET skew == 2 * (Surged(Base, n) * CallBase - Surged(CallBase, n) * Base)
         IN  -(Base + CallBase) <= skew /\ skew <= Base + CallBase
<1> DEFINE d == Surged(Base, n)
           c == Surged(CallBase, n)
           D == Divisor
           x == Base * (D + n)
           y == CallBase * (D + n)
           skew == 2 * (d * CallBase - c * Base)
<1>1. Base \in Nat \ {0} /\ CallBase \in Nat \ {0} /\ D \in Nat \ {0}
  BY PricingAssumption
<1>2. /\ d \in Nat /\ d * (2 * D) <= 2 * x + D /\ 2 * x - D < d * (2 * D)
      /\ c \in Nat /\ c * (2 * D) <= 2 * y + D /\ 2 * y - D < c * (2 * D)
  BY <1>1, SurgedBounds
<1>3. x \in Nat /\ y \in Nat /\ x * CallBase = y * Base /\ x * CallBase \in Nat
  BY <1>1, SMT
<1> HIDE DEF d, c, D, x, y
<1>4. /\ d * (2 * D) \in Nat /\ c * (2 * D) \in Nat
  BY <1>1, <1>2, ProductFacts
<1>5. /\ (d * (2 * D)) * CallBase <= (2 * x + D) * CallBase
      /\ (2 * x - D) * CallBase <= (d * (2 * D)) * CallBase
      /\ (c * (2 * D)) * Base <= (2 * y + D) * Base
      /\ (2 * y - D) * Base <= (c * (2 * D)) * Base
  <2>1. (d * (2 * D)) * CallBase <= (2 * x + D) * CallBase
    BY <1>1, <1>2, <1>3, <1>4, ProductFacts
  <2>2. (c * (2 * D)) * Base <= (2 * y + D) * Base
    BY <1>1, <1>2, <1>3, <1>4, ProductFacts
  <2>3. 2 * x * CallBase <= (d * (2 * D) + D) * CallBase
    BY <1>1, <1>2, <1>3, <1>4, ProductFacts
  <2>4. 2 * y * Base <= (c * (2 * D) + D) * Base
    BY <1>1, <1>2, <1>3, <1>4, ProductFacts
  <2>5. /\ (2 * x - D) * CallBase = 2 * x * CallBase - D * CallBase
        /\ (d * (2 * D) + D) * CallBase = (d * (2 * D)) * CallBase + D * CallBase
    BY <1>1, <1>3, <1>4
  <2>6. /\ (2 * y - D) * Base = 2 * y * Base - D * Base
        /\ (c * (2 * D) + D) * Base = (c * (2 * D)) * Base + D * Base
    BY <1>1, <1>3, <1>4
  <2>7. /\ 2 * x * CallBase \in Nat /\ 2 * y * Base \in Nat /\ D * CallBase \in Nat
        /\ D * Base \in Nat /\ (d * (2 * D)) * CallBase \in Nat /\ (c * (2 * D)) * Base \in Nat
    BY <1>1, <1>3, <1>4, ProductFacts
  <2> QED  BY <2>1, <2>2, <2>3, <2>4, <2>5, <2>6, <2>7
<1>6. /\ (2 * x + D) * CallBase = 2 * (x * CallBase) + D * CallBase
      /\ (2 * x - D) * CallBase = 2 * (x * CallBase) - D * CallBase
      /\ (2 * y + D) * Base = 2 * (x * CallBase) + D * Base
      /\ (2 * y - D) * Base = 2 * (x * CallBase) - D * Base
  <2>1. (2 * y) * Base = 2 * (y * Base) /\ (2 * x) * CallBase = 2 * (x * CallBase)
    BY <1>1, <1>3
  <2>2. /\ (2 * x + D) * CallBase = (2 * x) * CallBase + D * CallBase
        /\ (2 * x - D) * CallBase = (2 * x) * CallBase - D * CallBase
        /\ (2 * y + D) * Base = (2 * y) * Base + D * Base
        /\ (2 * y - D) * Base = (2 * y) * Base - D * Base
    BY <1>1, <1>3
  <2> QED  BY <1>3, <2>1, <2>2
<1>7. /\ skew * D = (d * (2 * D)) * CallBase - (c * (2 * D)) * Base
      /\ (Base + CallBase) * D = D * Base + D * CallBase
      /\ (-(Base + CallBase)) * D = -(D * Base + D * CallBase)
  <2>1. /\ d * CallBase \in Nat /\ c * Base \in Nat
        /\ (d * (2 * D)) * CallBase = 2 * (d * CallBase) * D
        /\ (c * (2 * D)) * Base = 2 * (c * Base) * D
    BY <1>1, <1>2, SMT
  <2>2. skew * D = 2 * (d * CallBase) * D - 2 * (c * Base) * D
    BY <1>1, <2>1
  <2> QED  BY <1>1, <2>1, <2>2
<1>8. /\ D * CallBase \in Nat /\ D * Base \in Nat
      /\ (d * (2 * D)) * CallBase \in Nat /\ (c * (2 * D)) * Base \in Nat
  BY <1>1, <1>4, ProductFacts
<1>9. skew \in Int
  <2>1. d * CallBase \in Nat /\ c * Base \in Nat
    BY <1>1, <1>2, ProductFacts
  <2> QED  BY <2>1
<1> HIDE DEF skew
<1>10. skew * D <= (Base + CallBase) * D /\ (-(Base + CallBase)) * D <= skew * D
  BY <1>3, <1>5, <1>6, <1>7, <1>8
<1>11. skew <= Base + CallBase /\ -(Base + CallBase) <= skew
  <2>1. Base + CallBase \in Int /\ -(Base + CallBase) \in Int
    BY <1>1
  <2> QED  BY <1>1, <1>9, <1>10, <2>1, CancelFactor
<1> QED  BY <1>11 DEF skew, d, c

\* The rates of a new watch, however many are active.
LEMMA RateFacts ==
  ASSUME NEW n \in Nat
  PROVE  ComputeWatchRate(n) \in Rates /\ InStep(ComputeWatchRate(n))
<1> DEFINE d == Surged(Base, n)
           c == Surged(CallBase, n)
           r == ComputeWatchRate(n)
<1>1. d \in Nat /\ c \in Nat /\ d >= Base /\ c >= CallBase
  BY SurgedBounds, PricingAssumption
<1>2. CASE Capped(d, c)
  <2>1. r = [day |-> Max, callRate |-> CallMax, low |-> Max * LowRatio]
    BY <1>2 DEF ComputeWatchRate
  <2>2. Max * LowRatio \in Nat
    BY PricingAssumption, ProductFacts
  <2> QED  BY <2>1, <2>2, PricingAssumption DEF Rates, InStep
<1>3. CASE ~Capped(d, c)
  <2>1. r = [day |-> d, callRate |-> c, low |-> d * LowRatio]
    BY <1>3 DEF ComputeWatchRate
  <2>2. d * LowRatio \in Nat
    BY <1>1, PricingAssumption, ProductFacts
  <2>3. d < Max /\ c < CallMax
    BY <1>1, <1>3, PricingAssumption DEF Capped
  <2>4. -(Base + CallBase) <= 2 * (d * CallBase - c * Base)
        /\ 2 * (d * CallBase - c * Base) <= Base + CallBase
    BY SkewBounds
  <2> HIDE DEF d, c, r
  <2>5. r \in Rates
    BY <1>1, <2>1, <2>2 DEF Rates
  <2>6. d \in Base .. Max /\ c \in CallBase .. CallMax
    BY <1>1, <2>3, PricingAssumption
  <2> QED  BY <2>1, <2>4, <2>5, <2>6 DEF InStep, r
<1> QED  BY <1>2, <1>3

-----------------------------------------------------------------------------
(* The state *)

\* Requests of customers use the oracle as it is meant to be used.
THEOREM UsesTheOracle == Spec => OracleSpec
<1>1. Init => OracleInit
  BY DEF Init
<1>2. [Next]_vars => [OracleNext]_oracle
  <2> SUFFICES ASSUME [Next]_vars PROVE [OracleNext]_oracle
    OBVIOUS
  <2>1. CASE \E u \in Callers : Serve(u)
    <3>1. PICK u \in Callers : Serve(u)
      BY <2>1
    <3>2. CASE \E coin \in Coins : AskPrice(u, coin)
      BY <3>2 DEF AskPrice, OracleNext
    <3>3. CASE (\E cents \in Cents : CreateQuote(u, cents)) \/ NoPrice(u)
      BY <3>3 DEF CreateQuote, NoPrice, OracleNext
    <3>4. CASE \/ \E others \in Others : OrderWatch(u, others)
               \/ CreateWatch(u) \/ CancelWatch(u) \/ QuoteEnds(u)
               \/ \E amount \in Amounts : PayInstalment(u, amount)
      BY <3>4 DEF OrderWatch, CreateWatch, CancelWatch, QuoteEnds, PayInstalment
    <3> QED  BY <3>1, <3>2, <3>3, <3>4 DEF Serve
  <2>2. CASE (\E u \in Callers : Fetch(u)) \/ Advance
    BY <2>2 DEF OracleNext
  <2>3. CASE UNCHANGED vars
    BY <2>3 DEF vars
  <2> QED  BY <2>1, <2>2, <2>3 DEF Next
<1> QED  BY <1>1, <1>2, PTL DEF Spec, OracleSpec

\* What a row, an order and a quote promise.
GoodOrder(o) == o # NoOrder => o \in Rates /\ InStep(o)

GoodWatch(w) == w # NoWatch => w \in Watch /\ InStep(w.rates)

GoodQuote(q) ==
  q # NoQuote => /\ q \in Quote /\ q.expected > 0
                 /\ q.unread * q.cents <= q.credited
                 /\ Sensible(q) => IsCovered(q)
                 /\ KeepsItsWorth(q) /\ WithinTolerance(q)

DeskInv ==
  /\ order = [u \in Callers |-> order[u]] /\ \A u \in Callers : GoodOrder(order[u])
  /\ watch = [u \in Callers |-> watch[u]] /\ \A u \in Callers : GoodWatch(watch[u])
  /\ quote = [u \in Callers |-> quote[u]] /\ \A u \in Callers : GoodQuote(quote[u])

\* Whoever else has watches, their number is a natural number.
LEMMA ActiveIsNat ==
  ASSUME NEW others \in Others
  PROVE  ActiveWatches(others) \in Nat
<1> DEFINE S == {u \in Callers : watch[u] # NoWatch /\ ~watch[u].cancelled}
<1>1. IsFiniteSet(S)
  BY CheckoutAssumption, FS_Subset
<1>2. Cardinality(S) \in Nat
  BY <1>1, FS_CardinalityType
<1>3. others \in Nat
  BY CheckoutAssumption
<1> HIDE DEF S
<1>4. others + Cardinality(S) \in Nat
  BY <1>2, <1>3
<1> QED  BY <1>4 DEF ActiveWatches, S

\* Nothing is promised before the first request.
LEMMA DeskInitInv == Init => DeskInv
  BY DEF Init, DeskInv, GoodOrder, GoodWatch, GoodQuote

\* A watch is ordered, created or cancelled.
LEMMA WatchStepInv ==
  ASSUME DeskInv, NEW u \in Callers,
         (\E others \in Others : OrderWatch(u, others)) \/ CreateWatch(u) \/ CancelWatch(u)
  PROVE  DeskInv'
<1>1. CASE \E others \in Others : OrderWatch(u, others)
  <2>1. PICK others \in Others : OrderWatch(u, others)
    BY <1>1
  <2> DEFINE r == ComputeWatchRate(ActiveWatches(others))
  <2>2. order' = [order EXCEPT ![u] = r] /\ UNCHANGED <<watch, quote>>
    BY <2>1 DEF OrderWatch
  <2>3. GoodOrder(r)
    BY ActiveIsNat, RateFacts DEF GoodOrder
  <2> HIDE DEF r
  <2> QED  BY <2>2, <2>3 DEF DeskInv
<1>2. CASE CreateWatch(u)
  <2> DEFINE w == [rates |-> order[u], cancelled |-> FALSE]
  <2>1. order[u] \in Rates /\ InStep(order[u])
    BY <1>2 DEF CreateWatch, DeskInv, GoodOrder
  <2>2. w \in Watch /\ w.rates = order[u]
    BY <2>1 DEF Watch
  <2>3. GoodWatch(w) /\ GoodOrder(NoOrder)
    BY <2>1, <2>2 DEF GoodWatch, GoodOrder
  <2>4. /\ watch' = [watch EXCEPT ![u] = w] /\ order' = [order EXCEPT ![u] = NoOrder]
        /\ quote' = quote
    BY <1>2 DEF CreateWatch
  <2> HIDE DEF w
  <2> QED  BY <2>3, <2>4 DEF DeskInv
<1>3. CASE CancelWatch(u)
  <2> DEFINE w == [watch[u] EXCEPT !.cancelled = TRUE]
  <2>1. watch[u] \in Watch /\ InStep(watch[u].rates)
    BY <1>3 DEF CancelWatch, DeskInv, GoodWatch
  <2>2. w \in Watch /\ w.rates = watch[u].rates
    BY <2>1 DEF Watch
  <2>3. GoodWatch(w)
    BY <2>1, <2>2 DEF GoodWatch
  <2>4. watch' = [watch EXCEPT ![u] = w] /\ order' = order /\ quote' = quote
    BY <1>3 DEF CancelWatch, DeskInv
  <2> HIDE DEF w
  <2> QED  BY <2>3, <2>4 DEF DeskInv
<1> QED  BY <1>1, <1>2, <1>3

\* A quote at a price the oracle gave.
LEMMA CreateQuoteInv ==
  ASSUME DeskInv, OracleInv, NEW u \in Callers, NEW cents \in Cents, CreateQuote(u, cents)
  PROVE  DeskInv'
<1> DEFINE price == got[u].usd
<1>1. PICK e \in AmountsFor(cents, price, Spread) :
        quote' = [quote EXCEPT ![u] =
          [cents |-> cents, price |-> price, expected |-> e,
           received |-> 0, credited |-> 0, payments |-> 0, unread |-> 0]]
  BY DEF CreateQuote
<1> DEFINE q == [cents |-> cents, price |-> price, expected |-> e,
                 received |-> 0, credited |-> 0, payments |-> 0, unread |-> 0]
<1>2. price \in Nat \ {0}
  BY DEF CreateQuote, Collect, OracleInv, OracleTypeOK, PricesArePositive
<1>3. cents \in Nat \ {0} /\ Spread \in Nat
  BY CheckoutAssumption
<1>4. quote' = [quote EXCEPT ![u] = q] /\ order' = order /\ watch' = watch
  BY <1>1 DEF CreateQuote
<1> HIDE DEF price
<1>5. e \in Nat \ {0}
  BY <1>2, <1>3, AmountBounds
<1>6. q \in Quote /\ q.expected > 0
  BY <1>2, <1>3, <1>5 DEF Quote
<1>7. Sensible(q) => IsCovered(q)
  <2> SUFFICES ASSUME 2 * cents <= Sliver,
                      cents * (Bps + Spread) * Unit < price * Bps * Sliver
               PROVE  IsCovered(q)
    BY DEF Sensible
  <2>1. /\ (e + 1) * (price * Bps) > cents * (Bps + Spread) * Unit
        /\ (e - 2) * (price * Bps) < cents * (Bps + Spread) * Unit
        /\ \A c \in CentsFor(e, price) :
             c >= IF SpreadOutweighsSliver THEN cents ELSE cents - 1
    BY <1>2, <1>3, AmountCovers
  <2> QED  BY <2>1 DEF IsCovered
<1>8. KeepsItsWorth(q)
  <2>1. cents * 0 = 0 /\ 0 * e = 0
    BY <1>3, <1>5
  <2> QED  BY <2>1 DEF KeepsItsWorth
<1>9. WithinTolerance(q) /\ q.unread * q.cents <= q.credited
  <2>1. 0 * e = 0 /\ cents * 0 = 0 /\ 0 * cents = 0 /\ 0 - 0 = 0
    BY <1>3, <1>5
  <2>2. 0 * (Bps - Tolerance) = 0 /\ 0 * Bps = 0
    BY ValueAssumption
  <2> QED  BY <2>1, <2>2 DEF WithinTolerance
<1> HIDE DEF q
<1>10. GoodQuote(q)
  BY <1>6, <1>7, <1>8, <1>9 DEF GoodQuote
<1> QED  BY <1>4, <1>10 DEF DeskInv

\* One more payment adds to both sides of each balance: g received, c credited, of
\* which x for an amount that could be read.
LEMMA BalancesAdd ==
  ASSUME NEW k \in Nat, NEW e \in Nat, NEW part \in Nat, NEW r \in Nat, NEW n \in Nat,
         NEW d \in Nat, NEW y \in Nat, NEW g \in Nat, NEW c \in Nat, NEW x \in Nat,
         Bps \in Nat,
         k * r <= (d + n) * e, y * e * part <= k * (r + n) * Bps,
         k * g <= (c + 1) * e, x * e * part <= k * (g + 1) * Bps
  PROVE  /\ k * (r + g) <= ((d + c) + (n + 1)) * e
         /\ (y + x) * e * part <= k * ((r + g) + (n + 1)) * Bps
<1>1. k * (r + g) <= ((d + c) + (n + 1)) * e
  <2>1. /\ k * (r + g) = k * r + k * g
        /\ ((d + c) + (n + 1)) * e = (d + n) * e + (c + 1) * e
    OBVIOUS
  <2>2. /\ k * r \in Nat /\ k * g \in Nat /\ (d + n) * e \in Nat /\ (c + 1) * e \in Nat
    BY ProductFacts
  <2> QED  BY <2>1, <2>2
<1>2. (y + x) * e * part <= k * ((r + g) + (n + 1)) * Bps
  <2>1. /\ y * e \in Nat /\ x * e \in Nat /\ k * (r + n) \in Nat /\ k * (g + 1) \in Nat
        /\ (y + x) * e = y * e + x * e
        /\ k * ((r + g) + (n + 1)) = k * (r + n) + k * (g + 1)
    BY ProductFacts
  <2>2. /\ (y * e + x * e) * part = y * e * part + x * e * part
        /\ (k * (r + n) + k * (g + 1)) * Bps = k * (r + n) * Bps + k * (g + 1) * Bps
    BY <2>1
  <2>3. /\ y * e * part \in Nat /\ x * e * part \in Nat
        /\ k * (r + n) * Bps \in Nat /\ k * (g + 1) * Bps \in Nat
    BY <2>1, ProductFacts
  <2> QED  BY <2>1, <2>2, <2>3
<1> QED  BY <1>1, <1>2

\* What a payment is credited with, whether or not its amount can be read.
LEMMA PaymentBounds ==
  ASSUME NEW k \in Nat \ {0}, NEW e \in Nat \ {0}, NEW amount \in (Nat \ {0}) \cup {Unreadable}
  PROVE  LET c == CreditCents(k, e, amount)
             g == IF amount = Unreadable THEN 0 ELSE amount
             x == IF amount = Unreadable THEN 0 ELSE c
         IN  /\ c \in Nat /\ g \in Nat /\ x \in Nat
             /\ amount = Unreadable => c = k
             /\ k * g <= (c + 1) * e
             /\ x * e * (Bps - Tolerance) <= k * (g + 1) * Bps
<1>1. CASE amount = Unreadable
  <2>1. CreditCents(k, e, amount) = k
    BY <1>1 DEF CreditCents
  <2>2. k * 0 = 0 /\ (k + 1) * e \in Nat
    BY ProductFacts
  <2>3. Bps \in Nat /\ Bps - Tolerance \in Nat
    BY ValueAssumption
  <2>4. 0 * e * (Bps - Tolerance) = 0 /\ k * (0 + 1) * Bps \in Nat
    BY <2>3, ProductFacts
  <2> QED  BY <1>1, <2>1, <2>2, <2>4
<1>2. CASE amount # Unreadable
  <2>1. amount \in Nat
    BY <1>2
  <2> QED  BY <1>2, <2>1, CreditBounds
<1> QED  BY <1>1, <1>2

\* A payment adds to both sides of each balance.
LEMMA PayInstalmentInv ==
  ASSUME DeskInv, NEW u \in Callers, NEW amount \in Amounts, PayInstalment(u, amount)
  PROVE  DeskInv'
<1> DEFINE o == quote[u]
           c == CreditCents(o.cents, o.expected, amount)
           g == IF amount = Unreadable THEN 0 ELSE amount
           b == IF amount = Unreadable THEN 1 ELSE 0
           x == IF amount = Unreadable THEN 0 ELSE c
           q == [o EXCEPT !.received = @ + g, !.payments = @ + 1, !.credited = @ + c,
                          !.unread = @ + b]
           part == Bps - Tolerance
           k == o.cents
           e == o.expected
           r == o.received
           d == o.credited
           n == o.payments
           m == o.unread
<1>1. /\ o \in Quote /\ o.expected > 0 /\ m * k <= d
      /\ Sensible(o) => IsCovered(o)
      /\ KeepsItsWorth(o) /\ WithinTolerance(o)
  BY DEF PayInstalment, DeskInv, GoodQuote
<1>2. amount \in (Nat \ {0}) \cup {Unreadable} /\ Cents \subseteq Nat \ {0}
  BY CheckoutAssumption
<1>3. /\ k \in Nat \ {0} /\ e \in Nat \ {0} /\ r \in Nat /\ d \in Nat /\ n \in Nat
      /\ m \in Nat
  <2>1. o \in Quote /\ o.expected > 0
    BY <1>1
  <2> HIDE DEF o
  <2>2. /\ o.cents \in Cents /\ o.expected \in Nat /\ o.received \in Nat
        /\ o.credited \in Nat /\ o.payments \in Nat /\ o.unread \in Nat
    BY <2>1 DEF Quote
  <2>3. o.expected \in Nat \ {0}
    BY <2>1, <2>2
  <2>4. o.cents \in Nat \ {0}
    BY <1>2, <2>2
  <2> QED  BY <2>2, <2>3, <2>4
<1>4. /\ c \in Nat /\ g \in Nat /\ x \in Nat
      /\ amount = Unreadable => c = k
      /\ k * g <= (c + 1) * e /\ x * e * part <= k * (g + 1) * Bps
  <2> HIDE DEF o
  <2> QED  BY <1>2, <1>3, PaymentBounds
<1>5. quote' = [quote EXCEPT ![u] = q] /\ order' = order /\ watch' = watch
  BY DEF PayInstalment, DeskInv
<1>6. b \in {0, 1}
  OBVIOUS
<1> DEFINE y == d - m * k
<1>7. y \in Nat /\ k * r <= (d + n) * e /\ y * e * part <= k * (r + n) * Bps
  <2>1. m * k \in Nat
    BY <1>3, ProductFacts
  <2>2. y \in Nat
    BY <1>1, <1>3, <2>1
  <2> QED  BY <1>1, <2>2 DEF KeepsItsWorth, WithinTolerance
<1>8. Bps \in Nat /\ part \in Nat
  BY ValueAssumption
<1>9. (d + c) - (m + b) * k = y + x /\ (m + b) * k <= d + c
  <2> HIDE DEF c, o
  <2>1. CASE amount = Unreadable
    <3>1. b = 1 /\ x = 0 /\ c = k
      BY <1>4, <2>1
    <3>2. (m + 1) * k = m * k + k /\ m * k \in Nat
      BY <1>3, ProductFacts
    <3> HIDE DEF b, x, k, d, m
    <3> QED  BY <1>1, <1>3, <3>1, <3>2
  <2>2. CASE amount # Unreadable
    <3>1. b = 0 /\ x = c /\ m + 0 = m
      BY <1>3, <2>2
    <3>2. m * k \in Nat
      BY <1>3, ProductFacts
    <3> HIDE DEF b, x, k, d, m
    <3> QED  BY <1>1, <1>3, <1>4, <3>1, <3>2
  <2> QED  BY <2>1, <2>2
<1> HIDE DEF c, g, x, b
<1>10. /\ q \in Quote /\ q.cents = k /\ q.expected = e /\ q.price = o.price
       /\ q.received = r + g /\ q.payments = n + 1 /\ q.credited = d + c
       /\ q.unread = m + b
  <2>1. r + g \in Nat /\ n + 1 \in Nat /\ d + c \in Nat /\ m + b \in Nat
    BY <1>3, <1>4, <1>6
  <2>2. o \in Quote
    BY <1>1
  <2> HIDE DEF o
  <2>3. /\ q.cents = k /\ q.expected = e /\ q.price = o.price
        /\ q.received = r + g /\ q.payments = n + 1 /\ q.credited = d + c
        /\ q.unread = m + b
    BY <2>2 DEF Quote
  <2>4. q \in Quote
    BY <2>1, <2>2 DEF Quote
  <2> QED  BY <2>3, <2>4
<1>11. Sensible(q) => IsCovered(q)
  <2>1. q.cents = o.cents /\ q.expected = o.expected /\ q.price = o.price
    BY <1>10
  <2>2. Sensible(o) => IsCovered(o)
    BY <1>1
  <2> HIDE DEF q, o
  <2> QED  BY <2>1, <2>2, Zenon DEF Sensible, IsCovered
<1> HIDE DEF part, q, k, e, r, d, n, m, y
<1>12. /\ k * (r + g) <= ((d + c) + (n + 1)) * e
       /\ (y + x) * e * part <= k * ((r + g) + (n + 1)) * Bps
  BY <1>3, <1>4, <1>7, <1>8, BalancesAdd
<1>13. KeepsItsWorth(q) /\ WithinTolerance(q)
  BY <1>9, <1>10, <1>12 DEF KeepsItsWorth, WithinTolerance, part
<1>14. GoodQuote(q)
  BY <1>3, <1>9, <1>10, <1>11, <1>13 DEF GoodQuote
<1> QED  BY <1>5, <1>14 DEF DeskInv

\* A quote leaves its window.
LEMMA QuoteEndsInv ==
  ASSUME DeskInv, NEW u \in Callers, QuoteEnds(u)
  PROVE  DeskInv'
  BY DEF QuoteEnds, DeskInv, GoodQuote

\* The invariant holds in every reachable state.
LEMMA DeskInvariant == Spec => [](OracleInv /\ DeskInv)
<1>1. OracleInv /\ DeskInv /\ [Next]_vars => DeskInv'
  <2> SUFFICES ASSUME OracleInv, DeskInv, [Next]_vars PROVE DeskInv'
    OBVIOUS
  <2>1. CASE \E u \in Callers : Serve(u)
    <3>1. PICK u \in Callers : Serve(u)
      BY <2>1
    <3>2. CASE (\E others \in Others : OrderWatch(u, others)) \/ CreateWatch(u) \/ CancelWatch(u)
      BY <3>2, WatchStepInv
    <3>3. CASE \E cents \in Cents : CreateQuote(u, cents)
      BY <3>3, CreateQuoteInv
    <3>4. CASE \E amount \in Amounts : PayInstalment(u, amount)
      BY <3>4, PayInstalmentInv
    <3>5. CASE QuoteEnds(u)
      BY <3>5, QuoteEndsInv
    <3>6. CASE (\E coin \in Coins : AskPrice(u, coin)) \/ NoPrice(u)
      BY <3>6 DEF AskPrice, NoPrice, desk, DeskInv
    <3> QED  BY <3>1, <3>2, <3>3, <3>4, <3>5, <3>6 DEF Serve
  <2>2. CASE UNCHANGED desk
    BY <2>2 DEF desk, DeskInv
  <2> QED  BY <2>1, <2>2 DEF Next, vars
<1> QED  BY DeskInitInv, <1>1, UsesTheOracle, OracleInvariant, PTL DEF Spec

\* Every variable keeps its type.
THEOREM CheckoutTypeCorrect == Spec => []TypeOK
<1>1. OracleInv /\ DeskInv => TypeOK
  BY DEF OracleInv, DeskInv, TypeOK, GoodOrder, GoodWatch, GoodQuote
<1> QED  BY <1>1, DeskInvariant, PTL

\* Whatever the doubles make of it, every quote of a sensible size asks for the exact
\* amount rounded up, or for one unit more or less. It reads back as its cents when
\* the spread outweighs the sliver that doubles may be off, and a cent less at worst.
THEOREM QuotesAreCovered == Spec => []QuoteIsCovered
<1>1. DeskInv => QuoteIsCovered
  BY DEF DeskInv, GoodQuote, QuoteIsCovered
<1> QED  BY <1>1, DeskInvariant, PTL

\* In however many instalments a quote is paid, the credit is what they are worth,
\* but for less than a cent each and for the tolerance. Instalments that cannot be
\* read are credited as the whole quote each, and no more than that.
THEOREM InstalmentsAreWorthIt == Spec => []InstalmentsKeepTheirWorth
<1>1. DeskInv => InstalmentsKeepTheirWorth
  BY DEF DeskInv, GoodQuote, InstalmentsKeepTheirWorth
<1> QED  BY <1>1, DeskInvariant, PTL

\* Every locked pair of rates is between the entry tier and the cap, and in the
\* ratio of the entry tier but for rounding, or at the cap.
THEOREM RatesAreInStep == Spec => []RatesShareOneFactor
<1>1. DeskInv => RatesShareOneFactor
  BY DEF DeskInv, GoodWatch, RatesShareOneFactor
<1> QED  BY <1>1, DeskInvariant, PTL

\* The promises of the oracle hold for the customers that share it.
THEOREM CheckoutPrices ==
  Spec => []CurrentPricesAreRecent /\ CacheFallsBackLittle
  BY UsesTheOracle, CurrentIsRecent, CacheKeepsUp, PTL

=============================================================================
