---------------------------- MODULE ClientCaches ----------------------------
(***************************************************************************)
(* Clients, the cache backends they share through CacheManager, and calls  *)
(* of one cached method: client.py, catalog/adapter_registry.py,           *)
(* network/cache_manager.py, network/cache.py and the cache-aside code of  *)
(* the adapters.  Time is what time.monotonic and time.time measure; every *)
(* client makes one call at a time, for the same arguments.                *)
(***************************************************************************)
EXTENDS Integers, FiniteSets, ProviderMethods

CONSTANTS
  Clients,    (* the clients, each made once                               *)
  Processes,  (* the operating system's processes they live in             *)
  Setups,     (* what may be configured, see the variable setup            *)
  NewsSec, ScoreSec,  (* ttls of news, which stands for any data, and of   *)
              (* scores                                                    *)
  MaxShutdowns, (* bound: shutdowns by the application, per process        *)
  MaxFetch,   (* bound: how long a call that asks its upstream may take    *)
  MaxNow      (* bound on the clock                                        *)

Unset == -1
Never == -1

ASSUME CacheUnits ==
  /\ NewsSec \in Nat /\ ScoreSec \in Nat
  /\ MaxFetch \in Nat /\ MaxNow \in Nat /\ MaxShutdowns \in Nat
  /\ IsFiniteSet(Clients)
  /\ \A s \in Setups :
       /\ s.kind \in {"memory", "sqlite", "none"} /\ s.singleton \in BOOLEAN
       /\ s.fetch_sec \in Nat \cup {Unset}
       /\ s.clients \subseteq Clients /\ s.home \in [Clients -> Processes]

ASSUME MethodsHaveSources == \A s \in Setups :
  s.method.parts # << >> => DOMAIN s.method.parts # {} /\ "whole" \notin DOMAIN s.method.parts

VARIABLES
  now,
  setup,    (* cache.cache_type, cache.singleton, the sources' own         *)
            (* ttls.fetch_sec or Unset, the method that is called, the     *)
            (* clients that are made and the process each of them lives in *)
  manager,  (* manager[s]: CacheManager._instances of process s            *)
  made,     (* cache backends made so far                                  *)
  life,     (* life[c]: "new", "failed", "open", "closing", "closed"       *)
  backend,  (* backend[c]: the cache backend of the adapter that is called *)
  entries,  (* entries[b][k]: what backend b's storage has under key k     *)
  stage,    (* stage[c]: the call is "idle", "purging" the expired whole,  *)
            (* or "working"                                                *)
  legs,     (* legs[c][k]: how far the call is with source k               *)
  since,    (* since[c]: when the call of c began                          *)
  served,   (* history: what c was answered since the last tick            *)
  shutdowns, (* shutdowns[s]: how often CacheManager of s was shut down    *)
  born      (* history: born[c], shutdowns of the process before c         *)

caches  == <<manager, made, shutdowns, entries>>
clients == <<life, backend, born>>
calls   == <<stage, legs, since, served>>
vars    == <<now, setup, caches, clients, calls>>

NoBackend == 0

NoValue == [asOf |-> Never, hidden |-> Never]
Todo    == [place |-> "todo", got |-> NoValue]

-----------------------------------------------------------------------------
\* The method: one request cached as it is, or several sources gathered.

Gathers == setup.method.parts # << >>

Sources == IF Gathers THEN DOMAIN setup.method.parts ELSE {"self"}

SourceMethod(k) == IF Gathers THEN setup.method.parts[k] ELSE setup.method

Keys == Sources \cup {"whole"}

\* resolve_source_fetch_ttl: its own time, or that of the data it serves.
FetchTTL(k) ==
  IF setup.fetch_sec # Unset THEN setup.fetch_sec
  ELSE IF k = "google_news" THEN NewsSec ELSE ScoreSec

TTL(k) ==
  IF k \in {"whole", "self"}
  THEN IF setup.method = SentimentScore THEN ScoreSec ELSE NewsSec
  ELSE FetchTTL(k)

-----------------------------------------------------------------------------
\* Backends: one dictionary each, or connections to the one SQLite file.

Storage(b) == IF setup.kind = "sqlite" THEN 1 ELSE b

NoEntry == [asOf |-> Never, hidden |-> Never, expires |-> Never]

Found(c, k) == entries[Storage(backend[c])][k]

\* Mutant: an entry is good for one more unit of time.
ExpiredLate(e) == e # NoEntry /\ now > e.expires + 1

Expired(e) == e # NoEntry /\ now > e.expires

Hits(c, k)   == Found(c, k) # NoEntry /\ ~Expired(Found(c, k))
Misses(c, k) == Found(c, k) = NoEntry

ValueOf(e) == [asOf |-> e.asOf, hidden |-> e.hidden]

Put(c, k, value) ==
  entries' = [entries EXCEPT ![Storage(backend[c])][k] =
                [asOf |-> value.asOf, hidden |-> value.hidden, expires |-> now + TTL(k)]]

\* Whatever is there under the key by now goes.
Delete(c, k) == entries' = [entries EXCEPT ![Storage(backend[c])][k] = NoEntry]

-----------------------------------------------------------------------------
\* CacheManager

Home(c) == setup.home[c]

\* Mutant: every client registers a backend of its own.
GetSharedAnew(c) ==
  /\ made' = made + 1
  /\ backend' = [backend EXCEPT ![c] = made + 1]
  /\ manager' = IF setup.singleton THEN [manager EXCEPT ![Home(c)] = made + 1] ELSE manager

\* The self-test of a SQLite backend cannot fail: it writes through set(), which
\* swallows every error.
GetShared(c) ==
  IF setup.singleton /\ manager[Home(c)] # NoBackend
  THEN /\ backend' = [backend EXCEPT ![c] = manager[Home(c)]]
       /\ UNCHANGED <<manager, made>>
  ELSE /\ made' = made + 1
       /\ backend' = [backend EXCEPT ![c] = made + 1]
       /\ manager' = IF setup.singleton THEN [manager EXCEPT ![Home(c)] = made + 1] ELSE manager

\* The storage of the backends stays: clients that hold one go on with it, and a SQLite
\* backend opens its file again.
ShutDown(s) ==
  /\ manager' = [manager EXCEPT ![s] = NoBackend]
  /\ shutdowns' = [shutdowns EXCEPT ![s] = @ + 1]

-----------------------------------------------------------------------------
\* Clients

Init ==
  /\ now = 0
  /\ setup \in Setups
  /\ manager = [s \in Processes |-> NoBackend] /\ made = 0
  /\ shutdowns = [s \in Processes |-> 0]
  /\ life = [c \in Clients |-> "new"]
  /\ backend = [c \in Clients |-> NoBackend]
  /\ born = [c \in Clients |-> 0]
  /\ entries = [b \in 1..Cardinality(Clients) |-> [k \in Keys |-> NoEntry]]
  /\ stage = [c \in Clients |-> "idle"]
  /\ legs = [c \in Clients |-> [k \in Sources |-> Todo]]
  /\ since = [c \in Clients |-> 0]
  /\ served = [c \in Clients |-> NoValue]

\* While one of its calls deletes an expired row, the event loop of a process waits.
Blocked(s) == \E c \in Clients :
  Home(c) = s /\ (stage[c] = "purging" \/ \E k \in Sources : legs[c][k].place = "purging")

\* Yahoo's adapter comes first and has its cache when a later one finds that it is not
\* configured.
Construct(c) ==
  /\ life[c] = "new" /\ c \in setup.clients /\ ~Blocked(Home(c))
  /\ \E outcome \in {"open", "failed"} : life' = [life EXCEPT ![c] = outcome]
  /\ GetShared(c)
  /\ born' = [born EXCEPT ![c] = shutdowns[Home(c)]]
  /\ UNCHANGED <<now, setup, shutdowns, entries, calls>>

\* The application may call CacheManager.shutdown itself; when the manager has nothing,
\* that does nothing.
Shutdown(s) ==
  /\ manager[s] # NoBackend
  /\ shutdowns[s] < MaxShutdowns /\ ~Blocked(s)
  /\ ShutDown(s)
  /\ UNCHANGED <<now, setup, made, entries, clients, calls>>

CloseOrder ==
  <<"alpha_vantage", "massive", "fred", "screener", "sentiment", "groq", "gemini", "nvidia",
    "schwab", "tradingview">>

\* ResilientHttpClient has no aclose.
CloseRaises == {"schwab"}

Unclosed == {CloseOrder[i] : i \in {i \in 1..Len(CloseOrder) :
               \E j \in 1..i : CloseOrder[j] \in CloseRaises}}

\* close() goes through the adapters and waits for each; other tasks run meanwhile, and
\* may still call the client.  A dedicated cache is closed first: that takes nothing out
\* of its storage.
BeginClose(c) ==
  /\ life[c] = "open" /\ ~Blocked(Home(c))
  /\ life' = [life EXCEPT ![c] = "closing"]
  /\ UNCHANGED <<now, setup, caches, backend, born, calls>>

\* Only if every adapter has closed does it come to the manager.
EndClose(c) ==
  /\ life[c] = "closing" /\ ~Blocked(Home(c))
  /\ life' = [life EXCEPT ![c] = "closed"]
  /\ IF Unclosed = {} /\ setup.singleton THEN ShutDown(Home(c)) ELSE UNCHANGED <<manager, shutdowns>>
  /\ UNCHANGED <<now, setup, made, entries, backend, born, calls>>

-----------------------------------------------------------------------------
\* Calls

Serve(c, value) ==
  /\ stage' = [stage EXCEPT ![c] = "idle"]
  /\ legs' = [legs EXCEPT ![c] = [k \in Sources |-> Todo]]
  /\ since' = [since EXCEPT ![c] = 0]
  /\ served' = [served EXCEPT ![c] = value]

\* get() of the whole; a method with one source is its own whole.  Nobody calls a client
\* that is closed.
Begin(c) ==
  /\ life[c] \in {"open", "closing"} /\ ~Blocked(Home(c))
  /\ stage[c] = "idle"
  /\ IF Gathers /\ Hits(c, "whole")
     THEN Serve(c, ValueOf(Found(c, "whole")))
     ELSE /\ since' = [since EXCEPT ![c] = now]
          /\ stage' = [stage EXCEPT ![c] =
                         IF Gathers /\ ~Misses(c, "whole") THEN "purging" ELSE "working"]
          /\ UNCHANGED <<legs, served>>
  /\ UNCHANGED <<now, setup, caches, clients>>

PurgeWhole(c) ==
  /\ stage[c] = "purging"
  /\ stage' = [stage EXCEPT ![c] = "working"]
  /\ Delete(c, "whole")
  /\ UNCHANGED <<now, setup, manager, made, shutdowns, clients, legs, since, served>>

Place(c, k, place, got) ==
  /\ legs' = [legs EXCEPT ![c][k] = [place |-> place, got |-> got]]
  /\ UNCHANGED <<stage, since, served>>

\* The answer of a source, which is the call's if there is no other.
Got(c, k, value) ==
  IF Gathers THEN Place(c, k, "done", value) ELSE Serve(c, value)

\* get() for one source.
LookUp(c, k) ==
  /\ stage[c] = "working" /\ legs[c][k].place = "todo" /\ ~Blocked(Home(c))
  /\ IF Hits(c, k) THEN Got(c, k, ValueOf(Found(c, k)))
     ELSE Place(c, k, IF Misses(c, k) THEN "asking" ELSE "purging", NoValue)
  /\ UNCHANGED <<now, setup, caches, clients>>

Purge(c, k) ==
  /\ legs[c][k].place = "purging"
  /\ Delete(c, k)
  /\ Place(c, k, "asking", NoValue)
  /\ UNCHANGED <<now, setup, manager, made, shutdowns, clients>>

\* What came of the request, and set(): no step of another call comes between.
Answered(c, k, outcome) ==
  LET m     == SourceMethod(k)
      value == [asOf |-> since[c], hidden |-> IF outcome = "failed" THEN now ELSE Never]
  IN  /\ legs[c][k].place = "asking" /\ ~Blocked(Home(c))
      /\ IF Stores(m, outcome, setup.kind) THEN Put(c, k, value) ELSE UNCHANGED entries
      /\ IF Answer(m, outcome) = "error" THEN Serve(c, NoValue) ELSE Got(c, k, value)
      /\ UNCHANGED <<now, setup, manager, made, shutdowns, clients>>

\* The answer is as old as the oldest of its sources, and so is a failure it hides.
Merged(values) ==
  LET stamps == {v.asOf : v \in values}
      faults == {v.hidden : v \in values} \ {Never}
  IN  [asOf   |-> CHOOSE t \in stamps : \A u \in stamps : t <= u,
       hidden |-> IF faults = {} THEN Never
                  ELSE CHOOSE t \in faults : \A u \in faults : t <= u]

\* asyncio.gather is over.
Collect(c) ==
  LET value == Merged({legs[c][k].got : k \in Sources})
  IN  /\ stage[c] = "working" /\ Gathers /\ ~Blocked(Home(c))
      /\ \A k \in Sources : legs[c][k].place = "done"
      /\ IF Stores(setup.method, "data", setup.kind) THEN Put(c, "whole", value)
         ELSE UNCHANGED entries
      /\ Serve(c, value)
      /\ UNCHANGED <<now, setup, manager, made, shutdowns, clients>>

\* Other keys push an entry out of a full LRUCache.
Evict(b, k) ==
  /\ setup.kind = "memory" /\ entries[b][k] # NoEntry
  /\ entries' = [entries EXCEPT ![b][k] = NoEntry]
  /\ UNCHANGED <<now, setup, manager, made, shutdowns, clients, calls>>

\* The upstreams' timeouts and their retries come to an end.
Tick ==
  /\ now < MaxNow
  /\ \A c \in Clients : stage[c] # "idle" => now < since[c] + MaxFetch
  /\ now' = now + 1
  /\ served' = [c \in Clients |-> NoValue]
  /\ UNCHANGED <<setup, caches, clients, stage, legs, since>>

Next ==
  \/ Tick
  \/ \E s \in Processes : Shutdown(s)
  \/ \E b \in 1..Cardinality(Clients), k \in Keys : Evict(b, k)
  \/ \E c \in Clients :
       \/ Construct(c) \/ BeginClose(c) \/ EndClose(c)
       \/ Begin(c) \/ PurgeWhole(c) \/ Collect(c)
       \/ \E k \in Sources : LookUp(c, k) \/ Purge(c, k)
                             \/ \E outcome \in Outcomes : Answered(c, k, outcome)

Spec == Init /\ [][Next]_vars

-----------------------------------------------------------------------------

LongestSource == CHOOSE t \in {TTL(k) : k \in Sources} : \A k \in Sources : TTL(k) <= t

\* No answer is older than what it may be: the age of the whole adds to the age its
\* sources had when they were gathered, and both to the time the requests took.
AgeIsBounded == \A c \in Clients :
  served[c] # NoValue =>
    now - served[c].asOf
      <= (IF Gathers THEN TTL("whole") + LongestSource + 2 * MaxFetch
          ELSE TTL("self") + MaxFetch)

\* A failure that was turned into an empty answer is hidden from callers no longer than
\* the whole is kept, unless a source caches its own failure.
OutagesAreForgotten == \A c \in Clients :
  served[c].hidden # Never =>
    now - served[c].hidden
      <= TTL("whole") + MaxFetch
           + (IF \E k \in Sources : "failed" \in SourceMethod(k).keeps THEN LongestSource ELSE 0)

\* docs/architecture.md, consistency of the SQLite cache: the last committed write wins,
\* and a delete does not interleave with a read.  A row that has not expired is not
\* taken out, whichever process finds an expired one there.
LastWriteStays ==
  [][\A b \in 1..Cardinality(Clients), k \in Keys :
       LET row == entries[b][k]
       IN  setup.kind = "sqlite" /\ row # NoEntry /\ now <= row.expires
             => entries'[b][k].expires >= row.expires]_vars

Built(c) == life[c] \in {"open", "closing", "closed"}

\* Clients built in one process between two shutdowns share the backend the manager
\* had, also when it was left behind by one that could not be built, and while others
\* close.  (Clients with a shutdown between them do not.)
OneEraOneBackend ==
  setup.singleton => \A c, d \in Clients :
    Built(c) /\ Built(d) /\ Home(c) = Home(d) /\ born[c] = born[d]
      => backend[c] = backend[d]

\* tests/test_client.py: after `async with Client(cfg)` no backend is left in the manager.
ClosedClientLeavesNoCache ==
  (\A c \in Clients : life[c] \in {"new", "closed"}) =>
    \A s \in Processes : manager[s] = NoBackend

=============================================================================
