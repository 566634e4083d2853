--------------------------- MODULE MCHealthCheck ----------------------------
(***************************************************************************)
(* Thirteen set-ups for HealthCheck.  Each leaves few probes on, so that   *)
(* every outcome of every method meets every other.                        *)
(***************************************************************************)
EXTENDS HealthCheck

Providers == DOMAIN Keyed \cup {"yahoo", "tradingview", "sentiment", "screener"}

Off == [enabled |-> Leaf(FALSE)]

Only(on) == [p \in Providers \ on |-> Off]

Addressed == [llm_prompt |-> [compression |-> [endpoint_url |-> Leaf(TRUE)]]]

Base ==
  [env |-> DOMAIN Keyed, explicit |-> NoFile, local |-> NoFile, places |-> <<NoFile, NoFile>>,
   given |-> NoFile, backend |-> "", text |-> << <<"a">>, <<"b", "c", "d", "e", "f">>, <<"g">>, <<"h", "i">> >>,
   asked |-> {}]

\* The old place of the compressor's settings.
OldPlace == [gemini |-> [prompt_compression |-> [endpoint_url |-> Leaf(TRUE)]]]

SettingsOf(on) == [providers |-> Only(on)]

Yahoo1     == [Base EXCEPT !.explicit = SettingsOf({"yahoo"}), !.places = <<Addressed, NoFile>>]
News1      == [Base EXCEPT !.places = <<NoFile, [providers |-> Only({"sentiment"}) @@
                 [sentiment |-> [sources |-> [google_news |-> Off]]]]>>]
News2      == [News1 EXCEPT !.places = <<SettingsOf({"sentiment"}), Addressed>>,
                            !.asked = {Probe("sentiment", "google_news", "intel")}]
Screeners1 == [Base EXCEPT !.explicit = SettingsOf({"screener"}) @@
                 [cache |-> [cache_type |-> Choice("none")]], !.backend = "sqlite"]
Gemini1    == [Base EXCEPT !.given = [providers |-> Only({"gemini"}) @@ OldPlace]]
Gemini2    == [Base EXCEPT !.explicit = [providers |-> Only({"gemini"}) @@ OldPlace]]
Gemini3    == [Base EXCEPT !.given = [providers |-> Only({"gemini"}) @@ OldPlace] @@ Addressed]
Groq1      == [Base EXCEPT !.given = SettingsOf({"groq", "massive"}) @@ Addressed,
                           !.text = << <<"a", "b">> >>]
Keyless    == [Base EXCEPT !.env = {"groq"}]
EnvOnly    == [Base EXCEPT !.backend = "memory",
                           !.asked = {Probe("alpha_vantage", "alpha_vantage", "equity"),
                                      Probe("fred", "fred", "macro")}]
Disabled   == [EnvOnly EXCEPT !.given = [health |-> Off]]
Skipped    == [EnvOnly EXCEPT !.explicit = SettingsOf({"fred"}), !.local = [health |-> On] @@ Addressed]
Unnamed    == [Base EXCEPT !.explicit = SettingsOf({"fred", "groq"}) @@
                 [health |-> [probes |-> [k \in {"macro.fred"} |-> Off]]]]

MCSetups ==
  {Yahoo1, News1, News2, Screeners1, Gemini1, Gemini2, Gemini3, Groq1, Keyless, EnvOnly,
   Disabled, Skipped, Unnamed}

=============================================================================
