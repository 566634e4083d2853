--------------------------- MODULE MCMarketCalls ---------------------------
(* Every method of every composite service, with every route the settings   *)
(* can name: no fallback, the same twice, an adapter that does not exist.   *)
EXTENDS MarketCalls

EquityNames  == {"yahoo", "alpha_vantage", "schwab", "unknown"}
OptionsNames == {"massive", "yahoo", "schwab", "unknown"}

MCPlans ==
  UNION {EquityPlans(p, f) : p \in EquityNames, f \in EquityNames \cup {""}}
    \cup UNION {OptionsPlans(p, f) : p \in OptionsNames, f \in OptionsNames \cup {""}}
    \cup MacroPlans \cup IntelPlans \cup ScreenerPlans

=============================================================================
