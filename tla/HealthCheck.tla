---------------------------- MODULE HealthCheck ----------------------------
(***************************************************************************)
(* One run_health_check: settings are loaded (ConfigMerge), a client is    *)
(* built, every probe of the settings runs the methods of its adapter      *)
(* (ProviderMethods; prompts are cut by PromptChunks), the results become  *)
(* a report and the client is closed.  health/service.py, registry.py,     *)
(* probes.py, models.py and api.py.                                        *)
(***************************************************************************)
EXTENDS ConfigMerge, PromptChunks, ProviderMethods, FiniteSets

CONSTANTS
  Setups,     (* what a check may find, see the variable setup             *)
  MaxWords,   (* max_words of a chunk                                      *)
  MinWords    (* llm_prompt.compression.min_chars, counted in words        *)

ASSUME HealthUnits == MaxWords \in Nat \ {0} /\ MinWords \in Nat

\* A text is a sequence of paragraphs, a paragraph one of words.
ASSUME TextsAreWords == \A s \in Setups : s.text \in Seq(Seq(STRING))

\* A file that is not a dictionary cannot be merged, and the settings' schema refuses a
\* value in the place of the section llm_prompt (but for null beside the deprecated
\* place, which is left out here).
IsSettings(t) ==
  /\ IsDict(t) /\ Nested(t, MaxNesting)
  /\ "llm_prompt" \in DOMAIN t => IsDict(t.llm_prompt)

\* A local file is read beside an explicit one.
ASSUME SettingsAreTrees == \A s \in Setups :
  /\ \A file \in {s.given, s.explicit, s.local} : file = NoFile \/ IsSettings(file)
  /\ DOMAIN s.places \subseteq Nat
  /\ \A i \in DOMAIN s.places : s.places[i] = NoFile \/ IsSettings(s.places[i])
  /\ s.local # NoFile => s.given = NoFile /\ s.explicit # NoFile

VARIABLES
  setup,    (* env: providers whose keys are in the environment; explicit, *)
            (* local, places, given, backend: the sources of the settings; *)
            (* text: the sanitized prompt; asked: probe_keys or {}         *)
  phase,    (* "loading", "building", "probing", "closing", "raised"       *)
  config,   (* the settings tree                                           *)
  at,       (* at[k]: the step probe k is about to take                    *)
  noted,    (* probes with something in their list errors                  *)
  posted,   (* posted[k]: chunks of the prompt that are dealt with         *)
  status,   (* status[k]: "none", or the status of the ProbeResult         *)
  trouble,  (* history: probes that met a failure, nothing, or a source    *)
            (* that is switched off                                        *)
  faults,   (* history: probes in which a method raised                    *)
  usable    (* history: probes whose own source gave data                  *)

vars == <<setup, phase, config, at, noted, posted, status, trouble, faults, usable>>

-----------------------------------------------------------------------------
\* Which probes run

Probe(adapter, source, group) == [adapter |-> adapter, source |-> source, group |-> group]

ProbeKeys ==
  {Probe("yahoo", "yahoo", "equity"), Probe("alpha_vantage", "alpha_vantage", "equity"),
   Probe("massive", "massive", "options"), Probe("yahoo", "yahoo", "options"),
   Probe("fred", "fred", "macro"), Probe("tradingview", "tradingview", "screener"),
   Probe("compression", "huggingface", "compression")}
    \cup {Probe("sentiment", s, "intel") : s \in SentimentSources}
    \cup {Probe("screener", s, "screener") : s \in ScreenerSources \ {"tradingview"}}
    \cup {Probe(p, p, "llm") : p \in {"groq", "gemini", "nvidia"}}

Name(k) == k.group \o "." \o k.source

ProbeEnabled(c, k) ==
  CASE k.group = "compression" -> Is(c, <<"llm_prompt", "compression", "enabled">>)
    [] k.group = "intel"       -> SourceOn(c, "sentiment", k.source)
    [] k.group = "screener"    -> SourceOn(c, "screener", k.source)
    [] OTHER                   -> ProviderOn(c, k.adapter)

SwitchedOff(c, k) ==
  /\ Has(c, <<"health", "probes", Name(k), "enabled">>)
  /\ ~Is(c, <<"health", "probes", Name(k), "enabled">>)

\* A probe that health.probes does not name runs, whatever others it names.
ResolveProbeKeys(c) ==
  IF ~Is(c, <<"health", "enabled">>) THEN {}
  ELSE {k \in ProbeKeys : ProbeEnabled(c, k) /\ ~SwitchedOff(c, k)}

Asked(c) == IF setup.asked = {} THEN ResolveProbeKeys(c) ELSE setup.asked

-----------------------------------------------------------------------------
\* What a probe does: the methods its adapter has the protocols for, in this order

\* checked: an empty result is noted; optional: NotImplementedError is passed over.
Step(method, checked, optional) == [m |-> method, checked |-> checked, optional |-> optional]

HistorySteps(a) ==
  IF "get_historical_prices" \in DOMAIN a
  THEN <<Step(a.get_historical_prices, TRUE, FALSE)>> ELSE << >>

MetadataSteps(a) ==
  IF "get_metadata" \in DOMAIN a
  THEN <<Step(a.get_metadata, FALSE, FALSE), Step(a.get_financial_statements, FALSE, TRUE)>>
  ELSE << >>

OptionsSteps(a) ==
  IF {"get_options_chain", "get_options_snapshot"} \subseteq DOMAIN a
  THEN <<Step(a.get_options_chain, FALSE, FALSE), Step(a.get_options_snapshot, TRUE, FALSE)>>
  ELSE << >>

MacroSteps(a) ==
  IF "get_macro_series" \in DOMAIN a THEN <<Step(a.get_macro_series, TRUE, FALSE)>> ELSE << >>

PostsOf(a, kind) == [a.get_social_posts EXCEPT !.parts = [s \in {kind} |-> @[s]]]

IntelSteps(a) ==
  IF "get_news" \in DOMAIN a
  THEN <<Step(a.get_news, TRUE, FALSE), Step(PostsOf(a, "stocktwits"), FALSE, TRUE),
         Step(PostsOf(a, "reddit"), FALSE, TRUE), Step(a.get_sentiment_score, FALSE, TRUE)>>
  ELSE << >>

\* The protocol asks for run_screener, which the unified screener adapter does not have.
ScreenerSteps(a) ==
  IF "run_screener" \in DOMAIN a THEN <<Step(a.run_screener, FALSE, FALSE)>> ELSE << >>

LlmSteps(a) ==
  IF "generate_response" \in DOMAIN a THEN <<Step(a.generate_response, TRUE, FALSE)>> ELSE << >>

Adapters ==
  [yahoo |-> Yahoo, alpha_vantage |-> AlphaVantage, massive |-> Massive,
   fred |-> [get_macro_series |-> FredSeries], sentiment |-> Intel, screener |-> Screener,
   tradingview |-> [run_screener |-> TradingView],
   groq |-> [generate_response |-> GroqResponse], gemini |-> [generate_response |-> GeminiResponse],
   nvidia |-> [generate_response |-> NvidiaResponse]]

UniversalSteps(a) ==
  HistorySteps(a) \o MetadataSteps(a) \o OptionsSteps(a) \o MacroSteps(a) \o IntelSteps(a)
    \o ScreenerSteps(a) \o LlmSteps(a)

Steps(k) == IF k.adapter = "compression" THEN << >> ELSE UniversalSteps(Adapters[k.adapter])

IsLlm(k) == k.group = "llm"

\* The sources a step reads: those of a gathering method that are switched on.
SourcesOf(k, step) ==
  IF step.m.parts = << >> THEN {k.source}
  ELSE {s \in DOMAIN step.m.parts : SourceOn(config, "sentiment", s)}

\* Mutant: an unexpected exception is logged and not noted.
EffectsLogged(step, outcome) ==
  CASE Answer(step.m, outcome) = "data"  -> {"fine"}
    [] Answer(step.m, outcome) = "empty" -> {IF step.checked THEN "note" ELSE "fine"}
    [] OTHER -> {IF outcome = "failed" /\ step.m.failed \in {"raise", "down"} THEN "abort" ELSE "fine"}

ErrorEffects(step, outcome) ==
  IF step.m.via = "refused" THEN {IF step.optional THEN "fine" ELSE "note"}
  ELSE IF outcome = "empty" THEN {"note"}
  ELSE CASE step.m.failed = "raise" -> {"abort", "note"}
         [] step.m.failed = "down"  -> {"abort"}
         [] OTHER                   -> {"note"}

\* What the runner makes of an outcome: nothing, a note, or the end of the probe.
Effects(step, outcome) ==
  CASE Answer(step.m, outcome) = "data"  -> {"fine"}
    [] Answer(step.m, outcome) = "empty" -> {IF step.checked THEN "note" ELSE "fine"}
    [] OTHER                             -> ErrorEffects(step, outcome)

-----------------------------------------------------------------------------
\* The prompt of a language model

Chunks == ChunkText(setup.text, MaxWords)

\* The prompt reaches the compressor.
Compresses ==
  /\ Is(config, <<"llm_prompt", "compression", "enabled">>)
  /\ Len(FlattenSeq(setup.text)) >= MinWords
  /\ Is(config, <<"llm_prompt", "compression", "endpoint_url">>)

Prepared(k) == ~(IsLlm(k) /\ Compresses) \/ Len(posted[k]) = Len(Chunks)

-----------------------------------------------------------------------------
\* A health check

Init ==
  /\ setup \in Setups
  /\ phase = "loading"
  /\ config = Defaults(setup.env)
  /\ at = [k \in ProbeKeys |-> 1]
  /\ noted = {}
  /\ posted = [k \in ProbeKeys |-> << >>]
  /\ status = [k \in ProbeKeys |-> "none"]
  /\ trouble = {} /\ faults = {} /\ usable = {}

LoadSettings ==
  /\ phase = "loading"
  /\ config' = LoadedSettings(setup)
  /\ phase' = "building"
  /\ UNCHANGED <<setup, at, noted, posted, status, trouble, faults, usable>>

\* One provider that is on and lacks a key fails the construction of the client.
FailToBuild ==
  /\ phase = "building"
  /\ \E p \in DOMAIN Keyed : ~Configured(config, p)
  /\ phase' = "raised"
  /\ UNCHANGED <<setup, config, at, noted, posted, status, trouble, faults, usable>>

FirstStatus(k) ==
  IF ~Is(config, <<"health", "enabled">>) THEN "disabled"
  ELSE IF k \in ResolveProbeKeys(config) THEN "pending" ELSE "skipped"

BuildClient ==
  /\ phase = "building"
  /\ \A p \in DOMAIN Keyed : Configured(config, p)
  /\ phase' = "probing"
  /\ status' = [k \in ProbeKeys |-> IF k \in Asked(config) THEN FirstStatus(k) ELSE "none"]
  /\ UNCHANGED <<setup, config, at, noted, posted, trouble, faults, usable>>

\* A chunk the compressor does not shorten is kept as it is.
PostChunk(k) ==
  /\ status[k] = "pending" /\ ~Prepared(k)
  /\ \E short \in BOOLEAN :
       posted' = [posted EXCEPT ![k] =
                    Append(@, [words |-> Chunks[Len(@) + 1], short |-> short])]
  /\ UNCHANGED <<setup, phase, config, at, noted, status, trouble, faults, usable>>

\* Mutant: a probe whose provider is down starts over.
AdvanceOver(k, effect) ==
  /\ at' = [at EXCEPT ![k] = IF effect = "abort" THEN 1 ELSE @ + 1]
  /\ UNCHANGED status

Advance(k, effect) ==
  /\ at' = [at EXCEPT ![k] = @ + 1]
  /\ status' = IF effect = "abort" THEN [status EXCEPT ![k] = "error"] ELSE status

\* The step of probe k: good are the sources that have data for it.  Probes share
\* adapters, caches and limiters; what one of them finds there on account of another, an
\* answer or a longer wait, is among the outcomes it may have alone.
Ask(k) ==
  /\ status[k] = "pending" /\ Prepared(k) /\ at[k] <= Len(Steps(k))
  /\ LET step == Steps(k)[at[k]]
     IN  \E good \in SUBSET SourcesOf(k, step), bad \in {"empty", "failed"} :
           LET outcome == IF good # {} THEN "data" ELSE bad
               answer  == Answer(step.m, outcome)
               passed  == step.optional /\ step.m.via = "refused"
           IN  \E effect \in Effects(step, outcome) :
                 /\ Advance(k, effect)
                 /\ noted' = IF effect = "note" THEN noted \cup {k} ELSE noted
                 /\ trouble' = IF answer = "data" \/ passed THEN trouble ELSE trouble \cup {k}
                 /\ faults' = IF answer = "error" /\ ~passed THEN faults \cup {k} ELSE faults
                 /\ usable' = IF answer = "data" /\ k.source \in good THEN usable \cup {k} ELSE usable
  /\ UNCHANGED <<setup, phase, config, posted>>

\* The compressor's own probe cannot tell a failure from an answer: a chunk that fails
\* is kept.  It only misses an address.
Unaddressed(k) ==
  k.group = "compression" /\ ~Is(config, <<"llm_prompt", "compression", "endpoint_url">>)

\* Mutant: one list of errors for all probes.
ConcludeByAny(k) ==
  /\ status[k] = "pending" /\ at[k] > Len(Steps(k))
  /\ status' = [status EXCEPT ![k] =
                  IF noted # {} \/ Unaddressed(k) THEN "degraded" ELSE "connected"]
  /\ trouble' = IF Unaddressed(k) THEN trouble \cup {k} ELSE trouble
  /\ UNCHANGED <<setup, phase, config, at, noted, posted, faults, usable>>

Conclude(k) ==
  /\ status[k] = "pending" /\ at[k] > Len(Steps(k))
  /\ status' = [status EXCEPT ![k] =
                  IF k \in noted \/ Unaddressed(k) THEN "degraded" ELSE "connected"]
  /\ trouble' = IF Unaddressed(k) THEN trouble \cup {k} ELSE trouble
  /\ UNCHANGED <<setup, phase, config, at, noted, posted, faults, usable>>

\* gather waits for every probe.
Report ==
  /\ phase = "probing"
  /\ \A k \in ProbeKeys : status[k] # "pending"
  /\ phase' = "closing"
  /\ UNCHANGED <<setup, config, at, noted, posted, status, trouble, faults, usable>>

\* Closing the client raises in SchwabAdapter.close: the caller gets no report.
Close ==
  /\ phase = "closing"
  /\ phase' = "raised"
  /\ UNCHANGED <<setup, config, at, noted, posted, status, trouble, faults, usable>>

ProbeStep(k) == PostChunk(k) \/ Ask(k) \/ Conclude(k)

Next ==
  \/ LoadSettings \/ FailToBuild \/ BuildClient \/ Report \/ Close
  \/ \E k \in ProbeKeys : ProbeStep(k)

\* Requests end: every client has a timeout, every retry a limit.
Fairness ==
  /\ WF_vars(LoadSettings) /\ WF_vars(FailToBuild \/ BuildClient)
  /\ WF_vars(Report) /\ WF_vars(Close)
  /\ \A k \in ProbeKeys : WF_vars(ProbeStep(k))

Spec == Init /\ [][Next]_vars /\ Fairness

-----------------------------------------------------------------------------
\* The report

ReportOk ==
  \A k \in ProbeKeys : status[k] \in {"none", "skipped", "disabled", "unconfigured", "connected"}

-----------------------------------------------------------------------------
\* Properties

\* Once settings are loaded, they are the chosen source laid over the defaults and the
\* environment: no value of the source is lost, none it does not mention is changed, and
\* what is at a deprecated place is moved in a dictionary and dropped in a file.
\* (config.py, load, from_file, from_dict, _deep_merge.)
SettingsCompose ==
  phase = "building" =>
    LET found   == Discovered(setup.places)
        source  == IF setup.given # NoFile THEN Migrated(setup.given)
                   ELSE IF setup.explicit # NoFile THEN WithLocal(setup.explicit, setup.local)
                   ELSE IF found # NoFile THEN found ELSE Defaults(setup.env)
        placed  == IF HasLegacy(source) THEN WithoutLegacy(source) ELSE source
        \* The part of a tree the environment has no say in.
        kept(t) == IF setup.backend = "" THEN t ELSE [name \in DOMAIN t \ {"cache"} |-> t[name]]
    IN  /\ IsOverlay(kept(config), kept(Defaults(setup.env)), kept(placed))
        /\ setup.given # NoFile /\ HasLegacy(setup.given) /\ ~HasCurrent(setup.given) =>
             IsOverlay(source, WithoutLegacy(setup.given), AtNewPlace(setup.given))
        /\ setup.local # NoFile => IsOverlay(source, setup.explicit, setup.local)
        /\ setup.backend # "" => config.cache.cache_type = Choice(setup.backend)

\* A probe is reported as degraded or failed only if something it asked for did not come:
\* what happens to the other probes that run at the same time does not spoil it.
\* (health/probes.py, universal_probe_runner; health/service.py, check_all.)
NoFalseAlarm ==
  \A k \in ProbeKeys : status[k] \in {"error", "degraded"} => k \in trouble

\* A report that says ok hides no probe in which a method raised, at whatever step of
\* the probe that was.  (health/models.py, HealthReport.ok.)
FaultsAreReported == ReportOk => faults = {}

\* Chunks of a prompt are small enough for the compressor, and together they are the
\* prompt: no word is lost, doubled or moved.  (core/llm_compress.py, _chunk_text.)
ChunksKeepWords ==
  \A k \in ProbeKeys :
    /\ \A i \in 1..Len(posted[k]) : Len(posted[k][i].words) \in 1..MaxWords
    /\ IsPrefix(FlattenSeq([i \in 1..Len(posted[k]) |-> posted[k][i].words]),
                FlattenSeq(setup.text))
    /\ at[k] > 1 /\ posted[k] # << >> =>
         FlattenSeq([i \in 1..Len(posted[k]) |-> posted[k][i].words]) = FlattenSeq(setup.text)

\* A health check ends, with every probe it started concluded.
EveryCheckEnds == <>[](phase = "raised" /\ \A k \in ProbeKeys : status[k] # "pending")

\* What health/models.py says of ProbeResult.ok.  Not so: a probe of a screener calls
\* nothing, one of a gathering adapter asks for all sources and not for its own.
ConnectedMeansUsableData ==
  \A k \in ProbeKeys : status[k] = "connected" => k \in usable

=============================================================================
