-------------------------- MODULE ProviderMethods --------------------------
(***************************************************************************)
(* The methods of the provider adapters (src/providers): for each, how it  *)
(* reaches its upstream, how many requests a call makes one after another, *)
(* which outcomes it writes to the cache, and what the caller gets when    *)
(* the upstream has nothing or fails.  The modules about calls, caches and *)
(* probes run these descriptions.                                          *)
(***************************************************************************)
EXTENDS Naturals, Sequences

(* via     "http"    the adapter's own ResilientHttpClient, or S3         *)
(*         "threads" yfinance in worker threads, with Yahoo's own loop     *)
(*         "broken"  an HTTP method that the client does not have          *)
(*         "refused" NotImplementedError       "stub" a fixed empty answer *)
(* lazy    the thread only makes an object, and the request is made when   *)
(*         its value is read: on the event loop, past the retries          *)
(* asks    how many requests a call that misses the cache may make         *)
(* keeps   the outcomes that are written to the cache                      *)
(* json    whether json.dumps takes the value: no dates, no timestamps     *)
(* empty   what becomes of an upstream answer with nothing in it           *)
(* failed  what becomes of a failure: "raise" the client's error, "raw"    *)
(*         the library's, "notfound" or "down" a finpipe error made of it, *)
(*         "empty" an empty result                                         *)
(* parts   the sources a call gathers, each a method with its own cache    *)

Outcomes == {"data", "empty", "failed"}

Fetch == [via |-> "http", lazy |-> FALSE, asks |-> {1}, keeps |-> {}, json |-> TRUE,
          empty |-> "answer", failed |-> "raise", parts |-> << >>]

Stub == [Fetch EXCEPT !.via = "stub", !.asks = {0}]

\* What the caller gets.
Answer(m, outcome) ==
  IF m.via = "stub" THEN "empty"
  ELSE IF m.via \in {"refused", "broken"} THEN "error"
  ELSE CASE outcome = "failed" -> IF m.failed = "empty" THEN "empty" ELSE "error"
         [] outcome = "empty"  -> IF m.empty = "answer" THEN "empty" ELSE "error"
         [] OTHER              -> "data"

\* Mutant: whatever came of the request is cached.
StoresAnything(m, outcome, kind) ==
  kind = "memory" \/ (kind = "sqlite" /\ m.json)

\* Whether the outcome is found in the cache by the next call.  A value that is not
\* JSON never gets into SQLite: set() logs the TypeError and goes on.
Stores(m, outcome, kind) ==
  /\ outcome \in m.keeps
  /\ kind = "memory" \/ (kind = "sqlite" /\ m.json)

-----------------------------------------------------------------------------
\* yahoo.py

Threaded(kept) == [Fetch EXCEPT !.via = "threads", !.keeps = kept, !.failed = "raw"]

YahooHistoricalPrices == Threaded({"data", "empty"})
\* The attributes of fast_info are fetched when they are read.
YahooSpotPrice        == [Threaded({"data"}) EXCEPT !.lazy = TRUE]
YahooMetadata         == Threaded({"data", "empty"})
YahooStatements       == [Threaded({"data", "empty"}) EXCEPT !.asks = {3}, !.json = FALSE]
YahooChain            == Threaded({})
YahooSnapshot         == YahooChain
\* The expirations, then a chain for each of the first six.
YahooContracts        == [YahooChain EXCEPT !.asks = 1..7]
YahooChainRows        == YahooChain
YahooSingleRow        == YahooChainRows
YahooAggs             == Stub
YahooSync             == Stub
YahooFiles            == Stub

Yahoo ==
  [get_historical_prices        |-> YahooHistoricalPrices,
   get_live_spot_price          |-> YahooSpotPrice,
   get_metadata                 |-> YahooMetadata,
   get_financial_statements     |-> YahooStatements,
   get_options_chain            |-> YahooChain,
   get_options_snapshot         |-> YahooSnapshot,
   fetch_options_contracts      |-> YahooContracts,
   fetch_options_snapshot       |-> YahooChainRows,
   fetch_single_option_snapshot |-> YahooSingleRow,
   fetch_historical_aggs        |-> YahooAggs,
   sync_flatfile_from_s3        |-> YahooSync,
   list_s3_files                |-> YahooFiles]

-----------------------------------------------------------------------------
\* alpha_vantage.py: an error told in an answer of status 200 is a failure too

AlphaHistoricalPrices == [Fetch EXCEPT !.keeps = {"data", "empty"}, !.json = FALSE]
AlphaSpotPrice        == [Fetch EXCEPT !.keeps = {"data"}]
\* OVERVIEW, and ETF_PROFILE when that has nothing.
AlphaMetadata         == [Fetch EXCEPT !.keeps = {"data"}, !.asks = {1, 2}, !.empty = "notfound"]
AlphaStatements       == [Fetch EXCEPT !.via = "refused", !.asks = {0}]

AlphaVantage ==
  [get_historical_prices    |-> AlphaHistoricalPrices,
   get_live_spot_price      |-> AlphaSpotPrice,
   get_metadata             |-> AlphaMetadata,
   get_financial_statements |-> AlphaStatements]

-----------------------------------------------------------------------------
\* schwab.py: _get_access_token calls client.post, which ResilientHttpClient does not
\* have; the AttributeError becomes "Schwab OAuth failed".

SchwabToken == [Fetch EXCEPT !.via = "broken", !.asks = {0}, !.keeps = {"data"}, !.failed = "down"]

SchwabGet == [SchwabToken EXCEPT !.empty = "notfound"]

SchwabHistoricalPrices == [SchwabGet EXCEPT !.json = FALSE]
SchwabSpotPrice        == [SchwabGet EXCEPT !.empty = "answer"]
SchwabMetadata         == SchwabGet
SchwabChain            == [SchwabGet EXCEPT !.json = FALSE]
SchwabSnapshot         == [SchwabChain EXCEPT !.keeps = {}]
SchwabContracts        == [SchwabChain EXCEPT !.keeps = {}]
SchwabChainRows        == [SchwabChain EXCEPT !.keeps = {}]
\* Not written in the adapter: the body "..." it inherits from the protocol returns None.
SchwabStatements       == Stub

Schwab ==
  [get_historical_prices    |-> SchwabHistoricalPrices,
   get_live_spot_price      |-> SchwabSpotPrice,
   get_metadata             |-> SchwabMetadata,
   get_financial_statements |-> SchwabStatements,
   get_options_chain        |-> SchwabChain,
   get_options_snapshot     |-> SchwabSnapshot,
   fetch_options_contracts  |-> SchwabContracts,
   fetch_options_snapshot   |-> SchwabChainRows]

-----------------------------------------------------------------------------
\* massive.py

\* Without a key the answer is empty, as if Massive had nothing.
MassiveJson      == Fetch
MassiveContracts == MassiveJson
MassiveRows      == MassiveJson
MassiveSingleRow == MassiveJson
MassiveAggs      == MassiveJson
\* Without credentials there is no session and no request.
MassiveSession   == [Fetch EXCEPT !.asks = {0, 1}, !.failed = "empty"]
MassiveSync      == MassiveSession
MassiveFiles     == MassiveSession
MassiveChain     == [MassiveRows EXCEPT !.keeps = {"data"}, !.json = FALSE,
                                        !.empty = "notfound", !.failed = "notfound"]
MassiveSnapshot  == [MassiveRows EXCEPT !.keeps = {"data", "empty"}, !.failed = "notfound"]

Massive ==
  [get_options_chain            |-> MassiveChain,
   get_options_snapshot         |-> MassiveSnapshot,
   fetch_options_contracts      |-> MassiveContracts,
   fetch_options_snapshot       |-> MassiveRows,
   fetch_single_option_snapshot |-> MassiveSingleRow,
   fetch_historical_aggs        |-> MassiveAggs,
   sync_flatfile_from_s3        |-> MassiveSync,
   list_s3_files                |-> MassiveFiles]

-----------------------------------------------------------------------------
\* fred.py and the language models

FredSeries == [Fetch EXCEPT !.keeps = {"data"}, !.json = FALSE]

\* A choice with an empty text is an answer.  No choices at all are a failure, as is a
\* text that is no string.
Completion     == [Fetch EXCEPT !.keeps = {"data", "empty"}]
GroqResponse   == Completion
GeminiResponse == Completion
NvidiaResponse == Completion

-----------------------------------------------------------------------------
\* screener.py and tradingview.py

Shielded == [Fetch EXCEPT !.keeps = {"data", "empty"}, !.failed = "empty"]

Trending    == Shielded
Predefined  == Shielded
Fundamental == Shielded
TradingView == [Shielded EXCEPT !.failed = "down"]

Screener ==
  [yahoo_trending   |-> Trending,
   yahoo_predefined |-> Predefined,
   finviz           |-> Fundamental,
   tradingview      |-> TradingView]

-----------------------------------------------------------------------------
\* sentiment.py: each source turns its own failures into empty results

GoogleNews          == [Shielded EXCEPT !.json = FALSE]
StocktwitsStream    == [Shielded EXCEPT !.keeps = {}]
StocktwitsSentiment == [StocktwitsStream EXCEPT !.keeps = {"data", "empty"}]
StocktwitsPosts     == [StocktwitsStream EXCEPT !.keeps = {"data", "empty"}]
\* A token unless one is cached or there are no credentials, then three subreddits.
RedditToken         == [Shielded EXCEPT !.asks = {0, 1}, !.keeps = {"data"}]
RedditEntries       == [Shielded EXCEPT !.asks = {0, 1, 3, 4}, !.keeps = {}]
RedditSentiment     == [RedditEntries EXCEPT !.keeps = Outcomes]
RedditPosts         == [RedditEntries EXCEPT !.keeps = Outcomes]

Gathered(sources) == [Fetch EXCEPT !.keeps = Outcomes, !.failed = "empty", !.parts = sources]

News           == [Gathered([google_news |-> GoogleNews]) EXCEPT !.json = FALSE]
SocialPosts    == Gathered([stocktwits |-> StocktwitsPosts, reddit |-> RedditPosts])
SentimentScore == [Gathered([stocktwits |-> StocktwitsSentiment, reddit |-> RedditSentiment])
                     EXCEPT !.json = FALSE]

Intel ==
  [get_news            |-> News,
   get_social_posts    |-> SocialPosts,
   get_sentiment_score |-> SentimentScore]

-----------------------------------------------------------------------------
\* Routing: adapter_registry.py and providers/composite

EquityAdapters  == [yahoo |-> Yahoo, alpha_vantage |-> AlphaVantage, schwab |-> Schwab]
OptionsAdapters == [massive |-> Massive, yahoo |-> Yahoo, schwab |-> Schwab]

OrderedProviderNames(primary, fallback) ==
  IF fallback \in {"", primary} THEN <<primary>> ELSE <<primary, fallback>>

\* The candidates call_with_fallback tries: a name without an adapter, or an adapter
\* without the method, is passed over.
Plan(adapters, names, method) ==
  LET has(name) == name \in DOMAIN adapters /\ method \in DOMAIN adapters[name]
      able      == SelectSeq(names, has)
  IN  [i \in 1..Len(able) |-> adapters[able[i]][method]]

\* What each composite service calls: the equity and options services by their routes,
\* the others on their one adapter.
EquityPlans(primary, fallback) ==
  {Plan(EquityAdapters, OrderedProviderNames(primary, fallback), method) : method \in
     {"get_metadata", "get_historical_prices", "get_live_spot_price", "get_financial_statements"}}

OptionsPlans(primary, fallback) ==
  {Plan(OptionsAdapters, OrderedProviderNames(primary, fallback), method) : method \in
     {"fetch_options_contracts", "fetch_options_snapshot", "fetch_single_option_snapshot",
      "fetch_historical_aggs", "sync_flatfile_from_s3", "list_s3_files",
      "get_options_chain", "get_options_snapshot"}}

MacroPlans    == {<<FredSeries>>}
IntelPlans    == {<<Intel[method]>> : method \in DOMAIN Intel}
ScreenerPlans == {<<Screener[source]>> : source \in DOMAIN Screener}

=============================================================================
