# A TLA+ model of finpipe

finpipe is an asyncio Python client for market data and language-model
providers: adapters per provider, routed by a catalog, over one resilient HTTP
client with adaptive rate limits, a concurrency limit, retries and caches. This
directory holds TLA+ modules translated from its source, the configurations
with which TLC checks them on small instances, and proofs TLAPS checks for all
instances. Line numbers below are of the files under `src/`.

- `tlc -config X.cfg M` checks a run (the table in "Runs" pairs them).
- `tlapm M.tla` checks the proofs of a module `*Proofs`.

## Inventory

Everything runs on one event loop per process, so a step is a stretch of code
between two awaits that really suspend; real concurrency comes from several
tasks on that loop, from worker threads (`asyncio.to_thread` in the Yahoo
adapter), from several processes that share SQLite files, and from the end of a
process at any moment.

### Network core (`src/src/network`)

| component | state | operations | what is hard | what makes it correct |
|---|---|---|---|---|
| learned rate (`limiter.py` 136-240, `_internal/aimd.py`, `_internal/limits.py`) | `rate`, `learned_max`, `consecutive_successes`; a row of `api_rate_limits` per namespace | construction (load, write back), `record_success`, `record_429` | the row is shared by every client of a namespace, in this process and in others; writes may raise half-way through an update; restarts | rates stay between floor and hard cap; a restart resumes at the learned rate, or at the one before the last change; increases are earned by streaks; the rate recovers |
| token bucket (`limiter.py` 206-220) | `tokens`, `last_refill` | `acquire` | it books the future: the sleep is not followed by a second look, later calls and rate changes happen meanwhile; negative elapsed time | no stretch of calls exceeds burst plus cap; calls keep their order; nobody waits for bookings that do not exist |
| RPM/TPM buckets (`limiter.py` 22-133) | tokens of requests and of LLM tokens | `acquire(estimate)`, `update_actual_tokens` | re-check loop after each sleep; estimate and actual use differ; refund is clamped | use within a window stays within capacity plus rate; every estimate that fits is served |
| concurrency limiter (`concurrency.py`) | `active_tasks`, waiters of a condition | `acquire`, `release`, `limit()` | the limit follows a rate that moves; waiters are woken together, race newcomers, are cancelled | slots are counted exactly; none is idle while someone sleeps; the limit holds at entry |
| HTTP client (`resilience.py`) | retry loop per call, circuit breaker, the transport | `request`, `close`, `reconcile_token_usage` | every attempt crosses breaker, buckets, gate, transport and limiter; cancellation and `close()` at any await | each send is paid for; slots are held only while sending; the caller's error is what happened; `close()` ends the retrying |
| caches (`cache.py`) | map from key to value and expiry, in memory or in SQLite | `get`, `set`, `close`, self-test | expired entries are deleted in a second statement; failures are swallowed; a closed SQLite backend reopens | a hit is no older than its time to live; the last committed write stays |
| cache manager (`cache_manager.py`) | class-level map of shared backends | `get_shared`, `shutdown` | process-wide state shared by clients with separate lives | one backend between two shutdowns, also after a construction that failed |

### Above it

| component | state | operations | what is hard | what makes it correct |
|---|---|---|---|---|
| client and adapter registry (`client.py`, `catalog/adapter_registry.py`) | adapters built on demand | construction, `close` | one adapter's failing close; closing one of several clients | clients made between two shutdowns share a backend; a close leaves nothing behind |
| composite services (`providers/composite`) | ordered lists of providers | `call_with_fallback` and the routed calls | which failures move on to the next provider, what is raised at the end | the first provider that answers wins; the last error is reported |
| LLM providers (`groq`, `gemini`, `nvidia`, `llm_base`) | cache of completions | `generate_response` | estimate, retries and reconciliation; several calls for one key | the quota of a window is kept; what fits is served |
| market data providers (`alpha_vantage`, `fred`, `massive`, `screener`, `schwab`, `tradingview`) | cache entries | cache-aside fetches | misses that overlap; keys; what is cached on failure | an answer is fetched or younger than the times to live it passed |
| Yahoo (`yahoo.py`) | its own limiter, breaker and retry loop | `_execute_with_resilience` | threads outlive cancelled callers; retries outside the bucket | a thread without a slot is that of a cancelled call; retries are bounded by tokens |
| sentiment (`sentiment.py`) | a client per source, caches on two levels, a token | aggregations | sources fail separately and turn into empty lists that are cached | an outage is hidden for a bounded time |
| health (`health`) | none | `ping` | probes run together, each with failures and timeouts of its own | the report blames nobody without a cause and hides no exception |
| configuration (`core/config.py`, `core/settings_dump.py`) | none | discovery, migration, merge | precedence of sources, nested merges | what a later source sets wins, the rest is kept |
| prompt preparation (`core/llm_*.py`) | none | sanitize, chunk, compress | chunk boundaries, failing compressor | nothing of the prompt is lost |
| catalog (`catalog/service.py`, `handles.py`, `registry.py`, `models.py`) | none | lookups, forwarding | - | - |

Call flow: a handle of the catalog resolves an adapter through the registry; a
composite service tries several; an adapter looks into its cache, calls
`ResilientHttpClient.request` on a miss and stores the result. `request` runs
its attempts through breaker, token bucket, (for LLMs) RPM/TPM buckets and
concurrency gate, and reports 200 and 429 to the learned rate, which is what the
bucket refills with and what the gate's limit is computed from. That loop of
feedback is the core of the program; the rest is built around it.

## Modules

| module | models | relation to the others |
|---|---|---|
| `LearnedRate` | AIMD and its persistence | `MCLearnedRate` gives it values |
| `TokenSchedule` | `AdaptiveRateLimiter.acquire` | takes from `LearnedRate` only that the rate moves in its band |
| `ConcurrencyGate` | the abstract gate: what the concurrency limiter promises | - |
| `DynamicConcurrency` | the condition variable, down to the event loop's ready queue | implements `ConcurrencyGate` |
| `RequestPipeline` | `ResilientHttpClient.request` and `close` | uses `ConcurrencyGate` for its gate |
| `LlmQuota` | the RPM and TPM buckets and the language-model adapters' use of them | details what `RequestPipeline` calls taking tokens; `MCLlmQuota` gives it values |
| `ProviderMethods` | every method of every adapter as a record: how it reaches its upstream, how often it asks, what it caches, what becomes of nothing and of a failure | constant definitions used by the four below |
| `RoutedCall` | the abstract routed call: candidates in order, the first answer, an error only when all raised | - |
| `MarketCalls` | the fallback loop of the composite services over both ways of asking, Yahoo's threads in detail | uses `ConcurrencyGate`, `ProviderMethods`; implements `RoutedCall`; `MCMarketCalls` builds its routes |
| `ClientCaches` | clients, cache manager, cache backends and cache-aside calls | runs one method of `ProviderMethods`; `MCClientCaches` gives it set-ups |
| `ConfigTree` | settings as a tree, its nodes and values, the defaults, and what the program asks of a tree | extended by `ConfigMerge` |
| `ConfigMerge` | how settings come about: sources, migration, merge, environment | extended by `HealthCheck`; its recursion is a function over the dictionaries of the two trees, so that it can be proved about |
| `PromptChunks` | how a prompt is cut for the compressor | operators used by `HealthCheck` |
| `HealthCheck` | a health check from the search for settings to the close of its client | composes `ConfigMerge`, `PromptChunks`, `ProviderMethods`; `MCHealthCheck` gives it set-ups |
| `LearnedRateProofs`, `TokenScheduleProofs`, `DynamicConcurrencyProofs`, `RequestPipelineProofs`, `LlmQuotaProofs`, `MarketCallsProofs`, `ClientCachesProofs`, `HealthCheckProofs` | - | theorems about the eight |

Each component also holds, marked `Mutant`, definitions with a plausible mistake
in them (a dropped guard, a forgotten booking). They are not part of any
specification; put in place of the definition that follows them, they make the
property violated that is meant to catch the mistake.

### LearnedRate

One action per statement group of the limiter. `__init__` is two actions,
`Load` and `Start`, because the read and the write back are two SQLite
transactions; `record_success` is `CountSuccess` or `RaiseRate` by its own
conditions; `record_429` is `Record429`. A change of the rate and the write of it are
two steps: `RaiseRate` and `Record429` run up to the call of `_save_rate`, then comes
`Written`, with what is left of the caller, or, where SQLite refuses, `Refused`, which
leaves the row and the streak as they were, since the reset comes after the write.
`Stop` is the end of a process, between any two of these. The variable `setup` is which
limiters are built, with which caps, and whether SQLite may refuse writes. Rates are
integers in a fixed unit; the multiplication by 0.75 is rounded down to it, which
keeps the order of floor, rate and cap that the properties are about. The history
variable `sinceProbe` counts what the limiter's own counter is meant to count.
Counters saturate at `Streak`, above which no guard distinguishes them.

### TokenSchedule

Time is integer ticks, a token is `One` units. `AcquireAtOnce` and
`AcquireAhead` are the two branches of `acquire`; the second moves `lastRefill`
ahead of the clock. Since nothing is looked at after the sleep, the send time is
decided at the booking, and `booked` records it; a sleeper that is cancelled
leaves its booking, so cancellation is not a step. A sleep is rounded up to a
tick. `Restart` is another process with a full bucket.

### DynamicConcurrency and ConcurrencyGate

A step is one run of the task at the head of the event loop's queue. The
condition's lock is not a variable: no task suspends with it in hand, so it is
never found taken. `release` wakes all waiters, which are appended to the queue
in their order and test the limit again. Cancellation reaches a task in each of
its states; `LeaveCancelled` allows both what older and newer versions of
`asyncio.Condition.wait` do with the wake-up of a cancelled waiter. The
refinement maps `inside` to the tasks between their entry and their release and
hides everything else.

### RequestPipeline

Each request runs through `metering`, `gated`, `sending` and `backoff`. Taking a
token and sleeping are one step each, whose timing is `TokenSchedule`'s matter;
the rate moves within its band, and how far is `LearnedRate`'s. The outcomes of
the transport are a good answer, a 429, another error answer, a network error
and a timeout; only httpx's network errors are in the retry filter, so whether
network errors are retried is a constant (the stealth transport raises its own).
`BreakerCall` is what pybreaker does when its synchronous `__call__` wraps a
coroutine function: it sees a coroutine object, and counts a success. `close()` awaits
the transport: `BeginClose` is the part up to there, `EndClose` the rest, and between
them attempts under way end in any way and others find the transport refusing.

### LlmQuota

`Buckets` chooses the limiter: both buckets, or tokens only, for
`RpmTpmRateLimiter`, and requests only for `TokenBucketRateLimiter`. `acquire`
is `Grant` or `Sleep`, again after each sleep, and takes from all buckets or from
none; a sleeper wakes when its own computation said, not when a refund comes.
`Reconcile` is the answer with its report of use, in one run of the task down to
`update_actual_tokens`; everything else that ends a call, `End`, gives nothing
back; `Retry` asks again for the whole estimate. The history variables keep the
books of one window, which may be opened at any moment.

### ProviderMethods

No state: for each adapter a record from method names to descriptions. `via`
tells the adapter's own HTTP client from Yahoo's threads, from the methods that
call something the client does not have (`schwab`), from those that raise
`NotImplementedError` and from the stubs, which return a fixed empty answer
without having asked (Schwab inherits one from its protocol). `keeps` is the set of outcomes that a method writes to its
cache, `json` whether SQLite's `json.dumps` takes the value at all, `parts` the
sources a method gathers, `lazy` that a method's thread does not make the request
(`yahoo.py` 142: `fast_info` fetches its attributes when they are read). `Plan` is `get_ordered_provider_names` together with the
test for adapter and method in `call_with_fallback`.

### MarketCalls and RoutedCall

Each call goes through the candidates of its route. `Start` finds a cached answer,
or begins to ask; `HttpAnswers` is one request of an adapter with an HTTP client;
for Yahoo the stages are those of `_execute_with_resilience`: `TakeToken`
(outside the retry loop), `SubmitThread` (a slot of the gate, and a place in
the executor's queue), `RunThread`, then `ThreadFails` or `ThreadSucceeds`, which
may lose its answer to an error of `record_success`, and `Retry`. A lazy method asks
when its thread is done and its slot given back, so its request may fail in
`ThreadSucceeds`, with no further attempt. `Proceed` goes
on to the method's next request, `Settle` ends a candidate, `TryNext` is the
`except` of the fallback loop. `Cancel` may come at any await; a thread that runs
by then goes on without its caller (`OrphanEnds`), and one that is still queued is
withdrawn. The refinement maps `at` and `result` to the verdict of `RoutedCall`
and hides tokens, threads and retries.

### ClientCaches

`Construct` is the part of a client's construction that asks the cache manager for
its backend; it may fail afterwards, and the backend stays with the manager.
A close waits for the adapters in the order of their registration, from `BeginClose` to
`EndClose`, while calls of this client and others go on; it comes to the manager only if
no adapter's close raises (`Unclosed`). `Shutdown` is the application's own call of the manager. A call of the
method is `Begin` (look for the whole), `LookUp` per source, `Answered` (the
request and the write to the cache, between which nothing is awaited) and
`Collect`. `get` of the SQLite backend reads and deletes an expired row in two
statements: `PurgeWhole` and `Purge` are the second one, before which another
process may run but no task of the same one. Values are the time their request
began and the oldest failure they hide, which is all the properties tell apart.

### HealthCheck, ConfigTree, ConfigMerge and PromptChunks

`LoadSettings` is `LoadedSettings` of `ConfigMerge`: an explicit file with its `local`
companion, the places that are searched, a dictionary, or the environment alone,
migrated and merged key by key onto the defaults. The constant `MaxNesting` bounds how
deep dictionaries are in each other, in the definitions that walk through a tree.
`BuildClient` resolves the probes that
the settings leave on, `FailToBuild` is a refused key. From then on the probes run at
once: `PostChunk` sends one chunk of a prompt to the compressor, `Ask` takes the
next method of the probe's protocol list, `Conclude` turns what was noted into a
status. Probes share adapters, caches and limiters; since every outcome is open at every
`Ask`, what a probe gets because another has filled a cache or drained a bucket is among
the behaviours it has here: the properties hold with the sharing as without.
`Report` waits for all, `Close` closes the client. `DeepMerge` is compared with
what it is for by `SettingsCompose`: `IsOverlay` speaks of the values of a tree and
their paths, without recursion over both trees. `ChunkText` is a recursive function over the
paragraphs, held against the concatenation of its chunks by `ChunksKeepWords`.

## Runs

| run | module, cfg | shows |
|---|---|---|
| `learned_rate` | `MCLearnedRate`, `LearnedRate.cfg` | one limiter that owns its row, two that share it, two whose writes may be refused, ended at any statement: rates and row stay in the band, the row of an owner is at most one change behind and rises only by successes, probes are earned, and the rates recover to the cap once 429s stop |
| `token_schedule` | `TokenSchedule`, `TokenSchedule_bound.cfg` | burst bound, order, spread, and an honest backlog, under rate changes and a restart |
| `dynamic_concurrency` | `DynamicConcurrency`, `DynamicConcurrency.cfg` | slot accounting, no idle slot, refinement of the gate, order of waiters, draining |
| `request_pipeline` | `RequestPipeline`, `RequestPipeline.cfg` | metering, slots, verdicts, that `close()` ends the retrying, and that every request ends |
| `request_pipeline_failfast` | `RequestPipeline`, `RequestPipeline_failfast.cfg` | violation: the breaker never stops an attempt |
| `llm_quota` | `MCLlmQuota`, `LlmQuota.cfg` | the quota of every window, all-or-nothing grants, service of all that fits |
| `market_calls` | `MCMarketCalls`, `MarketCalls.cfg` | slots and threads are accounted for, tokens bound the retries, an end is final, the fallback loop implements `RoutedCall`, every call ends |
| `client_caches` | `MCClientCaches`, `ClientCaches.cfg` | how old an answer and how long a hidden outage may get, and who shares a backend |
| `client_last_write` | `MCClientCaches`, `ClientCaches_lastwrite.cfg` | violation: the delete of an expired row takes a row that another process has just committed |
| `client_close` | `MCClientCaches`, `ClientCaches_close.cfg` | violation: a closed client leaves its backend with the manager |
| `health_check` | `MCHealthCheck`, `HealthCheck.cfg` | settings compose, no probe is blamed for another's trouble, no exception is hidden by the report, chunks keep the prompt, the check ends |
| `health_masked` | `MCHealthCheck`, `HealthCheck_masked.cfg` | violation: a probe is connected although its source gave nothing |

Bounds, and why they suffice:

- `LearnedRate`: the state is finite without a bound. A unit of 0.25 rps, a cap
  of 10 clamped to the documented 8 or a cap of 1 below the floor of 2, and an increase
  of 2 make a reduced rate fall between grid points and below a probe; a streak of 3 can
  be interrupted in its middle. Two limiters are enough for a row changed between the read and the
  write of a third party's construction: each is that party for the other.
- `TokenSchedule`: `MaxCalls` 5 with a bucket of two tokens gives up to three
  sleepers at once, `MaxTime` 5 lets the bucket refill entirely at the highest
  rate, `MaxRuns` one restart. A rate of 2 to 4 units against a token of 6 makes
  sleeps with and without rounding.
- `DynamicConcurrency`: four tasks against a limit between 1 and 2 give two
  inside, two waiters and a newcomer at once, the least with which waking one,
  waking all and overtaking differ.
- `RequestPipeline`: two requests, up to three attempts each, a limit between 1
  and 2, so that a request finds the gate full or not. `CHECK_DEADLOCK FALSE`
  because the system stops when all requests have ended and the client is
  closed.
- `LlmQuota`: two callers, because a refund of one must meet the grant of the
  other; buckets of two requests and four tokens with estimates of 1, 4 (exactly
  a bucket) and 5 (more than one), and reports of 1 and 5, so that answers stay
  below, meet and overrun their estimates; windows of up to two ticks, in which
  the buckets refill entirely.
- `MarketCalls`: two callers, one worker thread and a limit between 1 and 2, so
  that a thread waits in the executor behind another call's, orphaned or not; two
  attempts, so that the last one and one before it differ; methods that ask more
  than twice (`MaxAsks`) ask twice; the routes are all that the composite
  services and the settings can form, the same name twice and unknown names
  included. `CHECK_DEADLOCK FALSE` because it stops when both calls have ended.
- `ClientCaches`: two clients in one process or two, times to live of one tick,
  requests of up to one tick (`MaxFetch`) and a clock of five (`MaxNow`), which is above
  the largest bound in question, the four ticks of a gathered answer: values of that age
  are served in the run, after having been cached in a source, gathered late, cached in
  the whole and served late, and an older one would have the time to be. The gathering
  methods in memory, to which only time matters, and clients that share nothing run
  alone, all others in pairs. One shutdown by the application per process.
  `ClientCaches_lastwrite.cfg` has two processes and a clock of two, enough for a row to
  expire. The set-ups have one
  method for each way to cache: everything, only data, failures kept or not,
  values that are not JSON. Clients and processes are symmetric: no definition
  chooses among them. `CHECK_DEADLOCK FALSE` because the clock ends. The
  proofs have no such bounds.
- `HealthCheck`: thirteen set-ups that leave few probes on, each the place of a
  question (`MCHealthCheck` names them): sources of settings that overlay each
  other, legacy keys on both ways in, disabled, unnamed and unconfigured
  probes, two language models, a prompt whose paragraphs are smaller than, equal
  to and larger than a chunk of two words. `MaxNesting` is five, which is what the
  defaults need. `CHECK_DEADLOCK FALSE` because a check ends.

## Fairness

- `LearnedRate`: a program that is left running goes on making calls that
  succeed (`WF` of `RecordSuccess`), constructions come to their end, and a write is
  committed or refused (`WF` of `Written \/ Refused`), never forced to be committed. `Recovers`
  supposes that 429s and restarts stop; nothing is fair about those.
- `DynamicConcurrency`: the event loop keeps running what is ready, and the
  transport's timeouts end every call. Calls need not arrive. `WaitersDrain`
  supposes that they cease: while they keep coming a newcomer may run before a
  woken waiter and take its slot for ever.
- `LlmQuota`: time passes, a caller whose sleep is over runs, the transport ends
  every attempt. `FitsIsServed` supposes that no new calls come: small ones may
  starve a large one for ever, for each look of a waiter is a fresh one.
- `RequestPipeline`: sleeps end, the bucket refills (its rate is at least the
  floor), estimates fit the quota (one that does not waits for ever, see below),
  the gate's waiters get in (`WaitersDrain`, the requests of the instance
  being finitely many), the transport times out. Nobody has to make a call, to
  cancel one or to close the client.
- `MarketCalls`: the bucket refills and its sleeps end, the gate's waiters get
  in, the executor works through its queue, the timeouts of yfinance and of the
  transport end every request. Nobody has to call or to cancel, and a failing
  write is never forced to succeed.
- `HealthCheck`: requests end, by their timeouts and the retry limits, and the
  event loop runs what is ready. Which outcome a request has is free.
- `ClientCaches` and `TokenSchedule` make no liveness claim and assume no fairness.

## Proofs

The theorems hold for every value of the constants under the named assumptions
in the modules (`RateUnits`, `ScheduleUnits`, `GateUnits`, `PipelineUnits`,
`QuotaUnits`, `CallUnits`, `MethodUnits`, `CacheUnits`, `MethodsHaveSources`,
`HealthUnits`, `TextsAreWords`, `NestingUnits`, `SettingsAreTrees`). They say that units are positive integers, the cap is
not below the floor, a bucket holds at least one token, tasks and clients are finitely
many, methods are described in the terms of `ProviderMethods`, a prompt is a
sequence of paragraphs of words, and settings are trees of dictionaries that end
somewhere. `SettingsAreTrees` also says that `llm_prompt` is a section where it is
given at all: with a value there the code refuses the settings, except for null
beside the deprecated key, when it moves the deprecated settings after all. Every safety
property of the passing runs is a theorem; so is the refinement each abstract
module is there for.

- `LearnedRateProofs`: `TypeCorrect`, `RateStaysInBand`, `RowStaysInBand` hold
  without further assumptions; one lemma per operator says that clamping, loading
  and reducing end in the band, and the row is in a band because only a limiter's
  own rate is ever saved. Where writes are not refused (`~setup.refuses`),
  `ProbesAreEarned` follows from the invariant `Streaks`: the limiter's counter
  is the number of successes since its last 429 or probe. Where a limiter is also
  alone with its row (`Owned`), `Current` ties rate, row and what a
  construction has read, with the change still to be written in between, and gives
  `RowLagsByOneChange` and `RestartsDoNotRaise`.
  `RatesMoveTheirWay` is what the models of the calls build on without repeating it:
  a success never lowers the rate nor lifts it over the cap, a 429 lowers it or finds
  it at the floor (three quarters, rounded, of a positive rate is less than the rate),
  and neither touches another limiter's.
- `TokenScheduleProofs`: `TypeCorrect`, `BurstIsBounded`, `OrderIsKept`,
  `SpreadIsKept`, `BacklogIsReal`. `BurstBound` alone is not inductive: a step has
  to know how full the bucket is. The invariant adds, for each earlier booking of
  the run, that the level of the bucket at `lastRefill` is at most what capacity
  and hard cap leave after the calls booked since. Order follows from the same
  invariant, spread with `LastSleeps`: while the last call sleeps the bucket is
  empty up to its send time. For the backlog each sleeper is `Near`: due one
  slowest token from now or after its predecessor; a first sleeper that were later
  than the sleepers up to it explain would contradict that.
- `DynamicConcurrencyProofs`: `SlotsAreCounted`, `NobodySleepsForNothing`,
  `ConditionIsAGate`, `NobodyOvertakesASleeper`. The invariant adds `Sleepers`: the
  queue of the condition holds each parked task once and nobody else, which is what
  makes `notify_all` and cancellation account for every task. The refinement follows
  step by step: entries and releases are the gate's steps, all else stutters.
  That waiters come in by the order in which they went to sleep needs
  `WaitInv`, which says how a waiter can be `Behind` another that slept first. Both
  sleep, in this order in the condition's queue (`Before`); both are woken, and only
  woken waiters are between them in the loop's queue (`InRow`), so that the first runs
  first; or the first has looked, found the gate full and sleeps again, and nobody but
  woken waiters runs before the second (`Foremost`): a woken waiter only takes slots,
  so the gate is full for the second as well. The case that breaks weaker
  invariants is a task with something to give back, a release, between the two.
  `NobodyIsForgotten`: every task that is to run is in the loop's queue (`Queued`),
  every sleeper in the condition's. A waiter that sleeps found the gate full, so
  somebody is inside or about to leave: no wake-up is lost to a cancellation, and tasks
  never wait for each other.
- `RequestPipelineProofs`: `EverySendIsPaidFor`, `SlotsFollowSends`,
  `VerdictsAreEarned`, `CloseEndsRetries`. The invariant ties `tokens` and `sends` to
  the number of attempts and the stage of each request; `Lateness` ties the attempts
  begun since `close()` to the stage: one that is under way then is the last. `GateIsKept`: the pipeline
  enters and leaves the gate by the rules of `ConcurrencyGate` and in no other
  way. With `ConditionIsAGate` this closes the composition: what one module uses is
  what the other promises. `CallsInFlightAreBounded`: the limit may fall below the
  number inside, so `|InFlight|` is not bounded by the limit of the moment; it is
  by the limit at the hard cap, because an entry adds one to a number below
  a limit that never exceeds it.
- `LlmQuotaProofs`: `TypeCorrect`, `QuotaIsKept`, `NothingIsHeld`. `QuotaKept`
  speaks of the moments a call is let through; the invariant `Books` holds always:
  the window's use plus what is left in the bucket is at most capacity, inflow
  and returns. A grant leaves every level at zero or more, so there the use alone
  is bounded. `SleepIsLongEnough`: a sleep is the least number of ticks after which the
  buckets hold what the call needs; for a call that fits they then do (`Assured`), a
  tick keeps that true, and only another call's grant or overrun can spoil it.
  `OversizedNeverPass`: a call that does not fit is never let through, so the
  premise of `FitsIsServed` cannot be spared.
- `MarketCallsProofs`: `TypeCorrect`, `ThreadsAreAccountedFor`, `TokensPay`,
  `EndsAreFinal`, `RouteIsKept`, `GateIsKept`, `CallCostIsBounded`. `Coherent` ties the
  stage of a call to its position in the route and to the candidates that have raised;
  `Budget` says that the threads that ran and the attempts that may still come are
  within what the tokens taken pay for. With `Coherent` each step is a step of
  `RoutedCall` or a stutter: `TryNext` raises the next candidate, `Finish` by an answer
  or with the last candidate's error ends the call. `CallCostIsBounded` puts a number on
  a whole call: `Metered` adds to the tokens it has taken those its candidate may
  still ask for (`Owed`) and holds them against the candidates `Tried`, so a
  call takes at most `MaxAsks` tokens per candidate and by `Budget` at most
  `MaxAttempts` threads per token.
- `ClientCachesProofs`: `AgesAreBounded`, `OutagesEnd`, `ErasShareBackends`. `Base` says what calls and backends may be at all and that no
  call lasts longer than `MaxFetch`. `Ages` follows a value from the cache
  of a source through the legs of a call and the cache of the whole to the answer:
  every stop adds its time to live or the time of a request. `Eras` says whose
  backend the manager has in the present era.
- `HealthCheckProofs`: `ChunksAreTheText`, `PromptIsKept`, `NobodyIsBlamed`,
  `OkHidesNoFault`, `MergeIsOverlay`, `SettingsAreComposed`. `ChunksAreTheText` is about the algorithm, for every text: the
  invariant of its loop is that the finished chunks followed by the current one are the
  words read so far (`Held`) and fit the limit (`Fits`). It is an induction over data,
  which the library's rules cannot give here; `RangeInduction` and `RangeRecursion`
  derive one over a range of numbers from the well-foundedness of `<`, with a set in
  place of the predicate. `HInv` does the rest: a note is about trouble of
  the probe's own (`Blame`), what raised has ended its probe or left a note that stays
  (`FaultsShow`), and what was posted is the beginning of the chunks (`Posting`).
  `MergeIsOverlay` is the law of `_deep_merge` for trees of every shape, by induction on
  their nesting. TLA+ gives a recursive function by CHOOSE, so `MergingExists` and
  `MergingIsUnique` come first: a function that merges each pair of dictionaries of two
  trees exists, and two of them agree where both are defined, which makes the one of a
  subtree the one of the whole. From there `MergeByNames` says what the code says, one
  name at a time. Nodes are defined from the root down, level by level, and the
  induction needs them from the children up: `NodesFromTheRoot` is the bridge, and
  `ValuesOfADict` and `CoversFromTheRoot` follow. `SettingsAreComposed` adds what
  surrounds the merge: taking names out commutes with it (`MergeWithout`), so does
  replacing a section (`MergeExcept`), so the deprecated key is dropped from the merged
  settings as if it had been dropped from the file (`LegacyDropped`); the defaults have
  nothing at the deprecated place (`DefaultsAreStock`).

Liveness itself is out of the prover's reach, but a good part of each such claim is a
safety property: that every step leads on. Six theorems prove that part, most with
a measure that decreases. `RequestsGetOn`: a step of a request lowers its `StepsLeft`, at most
`4 * MaxAttempts + 1`. `CallsGetOn`: a step of a routed call lowers, in this order,
candidates, requests, attempts, stages. `ProbesGetOn`: a step of a pending probe
leaves it fewer chunks and methods. `SuccessesLeadUp`: a success below the cap raises
the rate or the streak. Steps of others never undo any of these. `WakeUpsArePaidFor`: a
step of a task of the concurrency gate lowers its `Rank`; a waiter's rank rises again only
when another task leaves, so it is woken in vain at most once for each of the
others. `SleepIsLongEnough` says the same of quotas: a call that fits sleeps in vain
only when another was let through or overran its estimate in the meantime. What
TLC adds on its instances is that a next step stays possible and fairness takes it.

Only model-checked is liveness (`Recovers`, `WaitersDrain`, `EveryRequestEnds`,
`FitsIsServed`, `EveryCallEnds`, `EveryCheckEnds`), which needs fairness and ENABLED.

## What the code does otherwise than it says

Shown by a run:

- `resilience.py` 202: the circuit breaker cannot trip, since it wraps a
  coroutine function and sees only its creation
  (`docs/finpipe_architecture.md:126`).
- `schwab.py` 312: `close` awaits a method that `ResilientHttpClient` does not
  have. The rest of the client's close is skipped, its backend stays with the cache manager
  (`tests/test_client.py:35`), the TradingView adapter is not closed, and
  `run_health_check` raises after its work is done (`health/api.py` 28).
- `cache.py` 97: `get` reads a row and deletes it when expired in two statements, and the
  delete names only the key. Another process of the file may commit a new row in between,
  and loses it (`docs/architecture.md:1496`, "Does not interleave with partial reads", and
  `:1507`, "Last committed write wins"). Within a process the lock of the backend and the
  single loop keep the two together.
- `health/probes.py` 146: "connected" does not mean that data came
  (`health/models.py:30`). Screener adapters lack the protocol the runner looks
  for and are asked nothing; the probe of one sentiment source passes on the data
  of another; a compressor whose every request fails returns the prompt.

Seen while modelling; the models contain the behaviour, no run is spent on it:

- `limiter.py` 231: the streak is reset after the row is written. When SQLite
  refuses the write, the rate is already up and every further success raises it
  again, where `docs/architecture.md:1200` promises 50 successes between two.
  `ProbeNeedsStreak` is therefore stated where writes succeed.
- `limiter.py` 238: a 429 lowers the rate and then writes it. A process that dies between
  the two resumes above the rate it learned (`docs/architecture.md:1250`), by that one
  reduction; `RowLagsOneChange` is what holds.
- `resilience.py` 217: only answers, network errors and the library's own errors become
  errors of finpipe. A timeout, a refused write of the rate and a closed transport reach
  the caller as they are, httpx.ReadTimeout among them, which
  `docs/finpipe_architecture.md:130` says nobody needs to catch. `VerdictIsEarned` is
  about the finpipe errors, and calls the others `raw`.
- `client.py` 68: clients that outlive a shutdown or another's close keep their backend
  while later ones get another, where `docs/architecture.md:1412` and `:1506` promise one
  for every client of a process. `OneEraOneBackend` is stated for clients without a
  shutdown between them.
- `yahoo.py` 143: the spot price is fetched when `lastPrice` is read: on the event loop,
  which stands still meanwhile, outside the slot, and past the retries.
- `_internal/limits.py` 49 with `providers/sentiment.py` 66: the sentiment
  sources' namespaces are not in the table of documented limits, so an inflated
  configuration does bypass them (`docs/architecture.md:1161`).
- `limiter.py` 160: a restart comes with a full bucket
  (`docs/architecture.md:1250`, "no cold-start quota spike"). `BurstBound` is a
  statement about one life of a process.
- `limiter.py` 97: a call whose estimate exceeds `max_tokens_per_minute` waits for
  ever (`docs/architecture.md:1271`, "Hard stop"), by theorem `OversizedNeverPass`;
  `FitsIsServed` speaks of the others.
- `core/config.py` 733: the deprecated place of the compressor's settings is
  migrated in a dictionary but not in a file, whose values there are lost.
- `health/registry.py` 79: naming some probes under `health.probes` does not restrict
  the check to them; the others run too (`core/config.py` 613).
- `core/interfaces.py` 32: Schwab inherits the protocol's ellipsis body as its
  `get_financial_statements`, which returns `None`; a fallback takes that for an answer.
- `yahoo.py` 74: an error of SQLite in `record_success` discards an answer that has
  arrived, and the retry asks again.

## Plan

All steps of the original plan are done: the network core, `ClientCaches`,
fallback routing and threads (`MarketCalls`, which took the place of two separate
modules), aggregations (in `ProviderMethods` and `ClientCaches`, where they meet
the caches), `ConfigMerge`, `PromptChunks` and the health check that composes them,
with proofs for every component that has state. Left:

1. That `RequestPipeline` is what `MarketCalls` abstracts as `HttpAnswers`: a
   refinement with several adapters.
2. Windows of the burst bound over restarts, once the code keeps the bucket's
   level somewhere.

## Not modelled

Parsing of payloads, S3 listings, data frames, word-list scores, logging and
layout of reports: conversions and I/O without state of their own. The prompt
sanitizer and the redacted dump of settings: functions of text that no other part
depends on. Pydantic schemas, the catalog's tables and handles, provider
interfaces and models: declarations and forwarding. `network/http.py` and
`network/sync_bridge.py`: no module of the package calls them. The time a
synchronous SQLite call blocks the event loop is not part of any model, nor is
what a caller does to an answer it shares with the memory cache
(`screener.py` 118).
