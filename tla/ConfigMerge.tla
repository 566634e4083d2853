---------------------------- MODULE ConfigMerge ----------------------------
(***************************************************************************)
(* How settings come about (core/config.py): where they are looked for,    *)
(* what they are merged onto, what is moved and what the environment       *)
(* overrides.                                                              *)
(***************************************************************************)
EXTENDS ConfigTree

-----------------------------------------------------------------------------
\* Merging

\* Mutant: a section of the override replaces the one of the base.
Replaced(base, override) ==
  [k \in DOMAIN base \cup DOMAIN override |-> IF k \in DOMAIN override THEN override[k] ELSE base[k]]

\* A dictionary onto a dictionary is merged, anything else replaces what is there.
DeepMerge(base, override) ==
  LET merge[pair \in Dicts(base) \X Dicts(override)] ==
        LET b == pair[1]
            o == pair[2]
        IN  [k \in DOMAIN b \cup DOMAIN o |->
               IF k \notin DOMAIN o THEN b[k]
               ELSE IF k \in DOMAIN b /\ IsDict(b[k]) /\ IsDict(o[k]) THEN merge[<<b[k], o[k]>>]
               ELSE o[k]]
  IN  merge[<<base, override>>]

\* t has something of its own at path, or a value where path goes on.
Covers(t, path) == \E n \in Nodes(t) :
  n[1] = path \/ (~IsDict(n[2]) /\ IsPrefix(n[1], path))

\* The same by paths: what the reader of a settings file expects.
IsOverlay(merged, base, override) ==
  Values(merged) = Values(override) \cup {v \in Values(base) : ~Covers(override, v[1])}

-----------------------------------------------------------------------------
\* The deprecated place of the compression's settings

\* t has a dictionary called name.
HasSection(t, name) == name \in DOMAIN t /\ IsDict(t[name])

HasLegacy(data) ==
  /\ HasSection(data, "providers") /\ HasSection(data.providers, "gemini")
  /\ "prompt_compression" \in DOMAIN data.providers.gemini

HasCurrent(data) == HasSection(data, "llm_prompt") /\ "compression" \in DOMAIN data.llm_prompt

WithoutLegacy(data) ==
  [data EXCEPT !.providers.gemini =
     [name \in DOMAIN @ \ {"prompt_compression"} |-> @[name]]]

AtNewPlace(data) == [llm_prompt |-> [compression |-> data.providers.gemini.prompt_compression]]

\* Moved unless the new place is taken.
Migrated(data) ==
  IF ~HasLegacy(data) THEN data
  ELSE IF HasCurrent(data) THEN WithoutLegacy(data)
  ELSE DeepMerge(WithoutLegacy(data), AtNewPlace(data))

-----------------------------------------------------------------------------
\* Sources

\* finpipe.settings.json, .finpipe, the user's configuration directory, APPDATA.
Discovered(places) ==
  LET found == {i \in DOMAIN places : places[i] # NoFile}
  IN  IF found = {} THEN NoFile ELSE places[CHOOSE i \in found : \A j \in found : i <= j]

\* The validator that runs before the model is built.
EnvOverrides(data, backend) ==
  IF backend = "" THEN Migrated(data)
  ELSE DeepMerge(Migrated(data), [cache |-> [cache_type |-> Choice(backend)]])

\* defaults is what from_env().model_dump() gives.
FromEnv(defaults, backend) == EnvOverrides(defaults, backend)

\* local_path: settings of one machine, onto the file.
WithLocal(file, local) == IF local = NoFile THEN file ELSE DeepMerge(file, local)

\* The file is merged onto the full defaults before anything is moved, so the new place
\* is always taken and what is at the old one is dropped.
FromFile(file, defaults, backend) == EnvOverrides(DeepMerge(defaults, file), backend)

FromDict(data, defaults, backend) == EnvOverrides(DeepMerge(defaults, Migrated(data)), backend)

\* explicit is FINPIPE_CONFIG.
Load(explicit, places, defaults, backend) ==
  LET file == IF explicit # NoFile THEN explicit ELSE Discovered(places)
  IN  IF file = NoFile THEN FromEnv(defaults, backend) ELSE FromFile(file, defaults, backend)

\* What a client is built with: the settings it was given, and then no file is looked
\* for, or a file with the machine's own laid over it, or what load() finds.
LoadedSettings(s) ==
  LET defaults == Defaults(s.env)
  IN  IF s.given # NoFile THEN FromDict(s.given, defaults, s.backend)
      ELSE IF s.local # NoFile
           THEN FromFile(WithLocal(s.explicit, s.local), defaults, s.backend)
           ELSE Load(s.explicit, s.places, defaults, s.backend)

=============================================================================
