------------------------------- MODULE Quotes -------------------------------
(***************************************************************************)
(* Market quotes and exchange rates, each behind a read-through cache      *)
(* (internal/platform/market/cached_quote.go,                              *)
(* internal/service/exchange_rate_service.go).  Prices are in hundredths,  *)
(* so that the rounding of values to two decimals is exact.                *)
(***************************************************************************)
EXTENDS HttpRequests, Integers

CONSTANTS
  Tickers,    \* normalised symbols
  Listed(_),  \* those the market quotes, by workload
  Prices,     \* what it may say of one; 0 stands for no price
  Pairs,      \* pairs of currencies that may be asked for
  PairTicker, \* the ticker of a pair of two currencies
  RateScale   \* rates are multiples of 1 / RateScale: 10^8 in the code

ASSUME QuotesAssumption ==
  /\ Prices \subseteq Nat /\ 0 \in Prices
  /\ RateScale \in Nat \ {0}
  /\ \A p \in Pairs : p[1] # p[2] => {p, <<p[2], p[1]>>} \subseteq DOMAIN PairTicker
  /\ \A p \in DOMAIN PairTicker : PairTicker[p] \in Tickers
  /\ \A w \in Workloads : Listed(w) \subseteq Tickers

VARIABLES
  market,     \* the price of each ticker that is listed (external)
  quoteCache, \* the cached price of some tickers
  rateCache   \* the cached rate of some pairs of currencies

quoteVars == <<market, quoteCache, rateCache>>

QuotesTypeOK ==
  /\ market \in [Listed(asks) -> Prices]
  /\ DOMAIN quoteCache \subseteq Tickers
  /\ \A t \in DOMAIN quoteCache : quoteCache[t] \in Prices \ {0}
  /\ DOMAIN rateCache \subseteq Pairs
  /\ \A p \in DOMAIN rateCache : rateCache[p] \in Nat

QuotesInit ==
  /\ market = [t \in Listed(asks) |-> 0]
  /\ quoteCache = [t \in {} |-> 0]
  /\ rateCache = [p \in {} |-> 0]

\* What happens by itself is part of a workload too.
Happens(event) == \E r \in Requests : event \in asks[r]

Trade == \E t \in DOMAIN market, p \in Prices :
  /\ Happens("trade")
  /\ p # market[t]
  /\ market' = [market EXCEPT ![t] = p]
  /\ UNCHANGED <<requestVars, quoteCache, rateCache>>

\* An entry's time is up.
ExpireQuote == \E t \in DOMAIN quoteCache :
  /\ Happens("trade")
  /\ quoteCache' = [s \in DOMAIN quoteCache \ {t} |-> quoteCache[s]]
  /\ UNCHANGED <<requestVars, market, rateCache>>

ExpireRate == \E p \in DOMAIN rateCache :
  /\ Happens("trade")
  /\ rateCache' = [q \in DOMAIN rateCache \ {p} |-> rateCache[q]]
  /\ UNCHANGED <<requestVars, market, quoteCache>>

-----------------------------------------------------------------------------
(* GetQuotes.  call[r].wanted are the tickers asked for, call[r].quotes    *)
(* the prices found so far.                                                *)

\* The tickers asked for, less those without a name.
NormalizeSymbols(ts) == ts \ {None}

Quoting == <<"cachedQuotes", "fetchQuotes">>

\* A cache that cannot be read has nothing.
CachedQuotes(r) ==
  /\ At(r, "cachedQuotes")
  /\ \E hits \in {call[r].wanted \cap DOMAIN quoteCache, {}} :
       LET c == [call[r] EXCEPT !.quotes = [t \in hits |-> quoteCache[t]]] IN
       IF hits = call[r].wanted THEN Go(r, Tail(Tail(todo[r])), c) ELSE AdvanceWith(r, c)
  /\ UNCHANGED quoteVars

\* Without an answer of the market, those found in the cache must do.
FetchQuotes(r) ==
  LET found == call[r].quotes
      missing == call[r].wanted \ DOMAIN found
      fetched == [t \in {m \in missing \cap DOMAIN market : market[m] > 0} |-> market[t]]
  IN
  /\ At(r, "fetchQuotes")
  /\ \/ /\ AdvanceWith(r, [call[r] EXCEPT !.quotes = Put(found, fetched)])
        /\ quoteCache' \in {Put(quoteCache, fetched), quoteCache}
     \/ /\ Check(r, found # <<>>)
        /\ UNCHANGED quoteCache
  /\ UNCHANGED <<market, rateCache>>

-----------------------------------------------------------------------------
(* Exchange rates.                                                         *)

\* A cached rate is the answer, if the cache can be read.
GetRate(r, pair) ==
  LET inverse == <<pair[2], pair[1]>> IN
  /\ \/ /\ pair \in DOMAIN rateCache \/ pair[1] = pair[2]
        /\ AtOnce(r, "rate")
     \/ /\ pair[1] # pair[2]
        /\ Enter(r, "rate", [op |-> "rate", pair |-> pair, quotes |-> <<>>,
                             wanted |-> NormalizeSymbols({PairTicker[pair], PairTicker[inverse]})],
                 Quoting \o <<"quoteRate">>)
  /\ rateCache' \in {rateCache} \cup
       (IF pair[1] = pair[2] THEN {Put(rateCache, [p \in {pair} |-> RateScale])} ELSE {})
  /\ UNCHANGED <<market, quoteCache>>

\* 1 / rate, rounded.
Inverted(rate) == (2 * RateScale * RateScale + rate) \div (2 * rate)

\* The pair as quoted, or else the other way round.
Rates(pair, quotes) ==
  LET direct == PairTicker[pair]
      inverse == PairTicker[<<pair[2], pair[1]>>]
  IN IF direct \in DOMAIN quotes THEN {quotes[direct]}
     ELSE IF inverse \in DOMAIN quotes THEN {Inverted(quotes[inverse])}
     ELSE {}

QuoteRate(r) ==
  LET pair == call[r].pair IN
  /\ At(r, "quoteRate")
  /\ rateCache' \in {rateCache} \cup {Put(rateCache, [p \in {pair} |-> rate]) : rate \in Rates(pair, call[r].quotes)}
  /\ Quit(r)
  /\ UNCHANGED <<market, quoteCache>>

QuotesStep(r) == CachedQuotes(r) \/ FetchQuotes(r) \/ QuoteRate(r)
=============================================================================
