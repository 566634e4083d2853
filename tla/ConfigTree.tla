----------------------------- MODULE ConfigTree -----------------------------
(***************************************************************************)
(* Settings as a tree (core/config.py): a function from names to subtrees, *)
(* where a value is a Leaf; the defaults, and what the rest of the program *)
(* asks of a tree.  How a tree comes about is in ConfigMerge.              *)
(***************************************************************************)
EXTENDS Integers, Sequences, SequencesExt

CONSTANT
  MaxNesting  (* bound: how deep dictionaries are nested in each other     *)

\* The defaults are nested five deep.
ASSUME NestingUnits == MaxNesting \in Nat /\ MaxNesting >= 5

Leaf(v) == [leaf |-> v]

\* A value that is one of several words.
Choice(word) == [leaf |-> TRUE, choice |-> word]

IsDict(t) == "leaf" \notin DOMAIN t

At(t, path) == FoldLeft(LAMBDA sub, name : sub[name], t, path)

Absent == [absent |-> TRUE]

Has(t, path) == FoldLeft(
  LAMBDA sub, name : IF IsDict(sub) /\ name \in DOMAIN sub THEN sub[name] ELSE Absent,
  t, path) # Absent

Is(t, path) == Has(t, path) /\ At(t, path) = Leaf(TRUE)

\* The subtrees of the subtrees in nodes, each with its path from the root.
Deeper(nodes) ==
  UNION {{<<Append(n[1], name), n[2][name]>> : name \in DOMAIN n[2]} : n \in {m \in nodes : IsDict(m[2])}}

NodesAt(t) ==
  LET level[depth \in 0..MaxNesting] == IF depth = 0 THEN {<< << >>, t>>} ELSE Deeper(level[depth - 1])
  IN  level

Nodes(t) == UNION {NodesAt(t)[depth] : depth \in 0..MaxNesting}

Dicts(t) == {s \in {n[2] : n \in Nodes(t)} : IsDict(s)}

\* What a settings file says: values, each with its path.
Values(t) == {n \in Nodes(t) : ~IsDict(n[2])}

\* At most so many dictionaries are in each other.
Nested(t, depth) == \A n \in NodesAt(t)[depth] : ~IsDict(n[2])

\* A place where there is no settings file.
NoFile == Leaf("no file")

-----------------------------------------------------------------------------
\* Providers

FredKeys         == {"api_key"}
AlphaVantageKeys == {"api_key"}
GroqKeys         == {"api_key"}
GeminiKeys       == {"api_key"}
NvidiaKeys       == {"api_key"}
MassiveKeys      == {"api_key", "access_key_id", "secret_access_key", "s3_endpoint", "s3_bucket"}
SchwabKeys       == {"app_key", "app_secret", "refresh_token"}

SentimentSources == {"google_news", "stocktwits", "reddit"}
ScreenerSources  == {"yahoo_trending", "yahoo_predefined", "finviz", "tradingview"}

Keyed == [fred |-> FredKeys, alpha_vantage |-> AlphaVantageKeys, groq |-> GroqKeys,
          gemini |-> GeminiKeys, nvidia |-> NvidiaKeys, massive |-> MassiveKeys,
          schwab |-> SchwabKeys]

On == [enabled |-> Leaf(TRUE)]

\* Keys come from the environment if it has them.
OnWithKeys(p, env) == [k \in {"enabled"} \cup Keyed[p] |-> Leaf(k = "enabled" \/ p \in env)]

OnWithSources(names) == [enabled |-> Leaf(TRUE), sources |-> [s \in names |-> On]]

\* Everything is enabled.
Defaults(env) ==
  [providers |->
     [p \in DOMAIN Keyed \cup {"yahoo", "tradingview", "sentiment", "screener"} |->
        CASE p \in DOMAIN Keyed -> OnWithKeys(p, env)
          [] p = "sentiment"    -> OnWithSources(SentimentSources)
          [] p = "screener"     -> OnWithSources(ScreenerSources)
          [] OTHER              -> On],
   llm_prompt |-> [compression |-> [enabled |-> Leaf(TRUE), endpoint_url |-> Leaf(FALSE)]],
   health |-> On,
   cache |-> [cache_type |-> Choice("memory")]]

ProviderOn(config, p) == Is(config, <<"providers", p, "enabled">>)

SourceOn(config, p, s) ==
  ProviderOn(config, p) /\ Is(config, <<"providers", p, "sources", s, "enabled">>)

\* ensure_configured does not raise.
Configured(config, p) ==
  ProviderOn(config, p) => \A k \in Keyed[p] : Is(config, <<"providers", p, k>>)

=============================================================================
