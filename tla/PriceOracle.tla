------------------------------ MODULE PriceOracle ------------------------------
(***************************************************************************)
(* The cached price oracle (createPriceOracle in crypto-price.js), called  *)
(* by several requests at once.                                            *)
(*                                                                         *)
(* A request is one asynchronous call of getUsdPrice: it either answers    *)
(* from the cache at once or sends a request of its own, however many are  *)
(* already out.  The moment the source quotes its prices and the moment    *)
(* the reply arrives are separate steps, so replies may overtake each      *)
(* other.  A reply may lack some coins.                                    *)
(*                                                                         *)
(* A set of prices is identified by when the source quoted it; PriceAt     *)
(* says what it quotes when.  Abstracted: the wording of the error.        *)
(***************************************************************************)
EXTENDS Integers

CONSTANTS
  Coins,
  Callers,
  PriceAt,    \* PriceAt[coin][t]: cents per coin the source quotes at time t
  Fallback,   \* the configured hard fallback, 0 for none
  Ttl,        \* cacheTtlMs
  Timeout,    \* timeoutMs
  MaxTime,    \* bound of the exploration only
  NoCache, NoBody, NoCoin

ASSUME OracleAssumption ==
  /\ MaxTime \in Nat /\ Ttl \in Nat \ {0} /\ Timeout \in Nat
  /\ PriceAt \in [Coins -> [0 .. MaxTime -> Nat \ {0}]]
  /\ Fallback \in [Coins -> Nat]

Sources == {"none", "coingecko", "coingecko-stale", "fallback", "failed"}

Body == [at: 0 .. MaxTime, coins: SUBSET Coins]
Cached == [at: 0 .. MaxTime, coins: SUBSET Coins, asOf: 0 .. MaxTime]

ASSUME OracleAbsenceAssumption ==
  NoCache \notin Cached /\ NoBody \notin Body

VARIABLES
  cache,   \* the last usable reply, or NoCache
  call,    \* [Callers -> the fetch a call of getUsdPrice awaits]
  got,     \* [Callers -> what getUsdPrice came back with, until it is used]
  clock

oracle == <<cache, call, got, clock>>

IdleCall == [stage |-> "idle", coin |-> NoCoin, since |-> 0, body |-> NoBody]

NothingGot == [source |-> "none", coin |-> NoCoin, usd |-> 0, at |-> 0, when |-> 0]

OracleInit ==
  /\ cache = NoCache
  /\ call  = [u \in Callers |-> IdleCall]
  /\ got   = [u \in Callers |-> NothingGot]
  /\ clock = 0

-----------------------------------------------------------------------------
\* hasPrice
HasPrice(c, coin) == c # NoCache /\ coin \in c.coins

\* Slip: good for one more instant than the ttl.
FreshAtTtl(c) == clock - c.asOf <= Ttl

Fresh(c) == clock - c.asOf < Ttl

PriceFrom(c, coin, source) ==
  [source |-> source, coin |-> coin, usd |-> PriceAt[coin][c.at], at |-> c.at, when |-> clock]

\* After a fetch that brought nothing for the coin: what the cache has by
\* now, however old; else the hard fallback; else getUsdPrice throws.
SecondBest(c, coin) ==
  IF HasPrice(c, coin) THEN PriceFrom(c, coin, "coingecko-stale")
  ELSE IF Fallback[coin] > 0
    THEN [source |-> "fallback", coin |-> coin, usd |-> Fallback[coin], at |-> clock,
          when |-> clock]
    ELSE [source |-> "failed", coin |-> coin, usd |-> 0, at |-> clock, when |-> clock]

\* getUsdPrice up to its await: a fresh cache answers, else a fetch goes out.
Ask(u, coin) ==
  /\ call[u].stage = "idle" /\ got[u].source = "none"
  /\ IF HasPrice(cache, coin) /\ Fresh(cache)
     THEN /\ got' = [got EXCEPT ![u] = PriceFrom(cache, coin, "coingecko")]
          /\ UNCHANGED call
     ELSE /\ call' = [call EXCEPT ![u] = [stage |-> "asked", coin |-> coin, since |-> clock,
                                          body |-> NoBody]]
          /\ UNCHANGED got
  /\ UNCHANGED <<cache, clock>>

\* The source quotes its prices; the reply is on its way.
SourceAnswers(u, coins) ==
  /\ call[u].stage = "asked"
  /\ call' = [call EXCEPT ![u].stage = "answered",
                          ![u].body = [at |-> clock, coins |-> coins]]
  /\ UNCHANGED <<cache, got, clock>>

\* Slip: the reply is cached as it is, without the time it came in.
ReplyArrivesUndated(u) ==
  LET body  == call[u].body
      coin  == call[u].coin
  IN  /\ call[u].stage = "answered"
      /\ body.coins # {}
      /\ cache' = body
      /\ got' = [got EXCEPT ![u] = IF HasPrice(body, coin)
                                   THEN PriceFrom(body, coin, "coingecko")
                                   ELSE SecondBest(body, coin)]
      /\ call' = [call EXCEPT ![u] = IdleCall]
      /\ UNCHANGED clock

\* A usable reply replaces the whole cache, older prices and other coins too.
ReplyArrives(u) ==
  LET body  == call[u].body
      coin  == call[u].coin
      fresh == [at |-> body.at, coins |-> body.coins, asOf |-> clock]
  IN  /\ call[u].stage = "answered"
      /\ body.coins # {}
      /\ cache' = fresh
      /\ got' = [got EXCEPT ![u] = IF HasPrice(fresh, coin)
                                   THEN PriceFrom(fresh, coin, "coingecko")
                                   ELSE SecondBest(fresh, coin)]
      /\ call' = [call EXCEPT ![u] = IdleCall]
      /\ UNCHANGED clock

\* The fetch throws: no connection, an error status, a reply without a usable
\* price, or the abort timer.
FetchFails(u) ==
  /\ call[u].stage # "idle"
  /\ got' = [got EXCEPT ![u] = SecondBest(cache, call[u].coin)]
  /\ call' = [call EXCEPT ![u] = IdleCall]
  /\ UNCHANGED <<cache, clock>>

\* The caller has what it asked for, or handles the error.
Collect(u) ==
  /\ got[u].source # "none"
  /\ got' = [got EXCEPT ![u] = NothingGot]
  /\ UNCHANGED <<cache, call, clock>>

\* Slip: nothing aborts a fetch.
AdvanceUnaborted ==
  /\ clock < MaxTime
  /\ clock' = clock + 1
  /\ UNCHANGED <<cache, call, got>>

\* No fetch is out longer than the abort timer allows.
Advance ==
  /\ clock < MaxTime
  /\ \A u \in Callers : call[u].stage # "idle" => clock < call[u].since + Timeout
  /\ clock' = clock + 1
  /\ UNCHANGED <<cache, call, got>>

-----------------------------------------------------------------------------
Fetch(u) ==
  (\E coins \in SUBSET Coins : SourceAnswers(u, coins)) \/ ReplyArrives(u) \/ FetchFails(u)

OracleNext ==
  \/ \E u \in Callers : (\E coin \in Coins : Ask(u, coin)) \/ Fetch(u) \/ Collect(u)
  \/ Advance

OracleSpec == OracleInit /\ [][OracleNext]_oracle

-----------------------------------------------------------------------------
(* Properties *)

OracleTypeOK ==
  /\ cache \in Cached \cup {NoCache}
  /\ call \in [Callers -> [stage: {"idle", "asked", "answered"}, coin: Coins \cup {NoCoin},
                           since: 0 .. MaxTime, body: Body \cup {NoBody}]]
  /\ got \in [Callers -> [source: Sources, coin: Coins \cup {NoCoin}, usd: Nat,
                          at: 0 .. MaxTime, when: 0 .. MaxTime]]
  /\ clock \in 0 .. MaxTime

\* What is handed out as current ("coingecko") was quoted by the source
\* less than a cache lifetime and a fetch ago, whichever replies came late.
CurrentPricesAreRecent ==
  \A u \in Callers : got[u].source = "coingecko" => got[u].when - got[u].at < Ttl + Timeout

\* Replies that overtake each other set the cache back by less than a fetch,
\* and nothing ever empties it.
CacheFallsBackLittle ==
  [][cache # NoCache => cache' # NoCache /\ cache'.at >= cache.at - Timeout]_oracle
=============================================================================
