-------------------------- MODULE RequestPipeline --------------------------
(***************************************************************************)
(* ResilientHttpClient.request (src/network/resilience.py): the requests   *)
(* of one client, each a loop of attempts.  An attempt takes its tokens,   *)
(* passes the concurrency gate, calls the transport, reports the answer to *)
(* the rate limiter, and backs off outside the gate before the next one.   *)
(*                                                                         *)
(* The gate is ConcurrencyGate, which DynamicConcurrency implements; when  *)
(* tokens are handed out is the matter of TokenSchedule and LlmQuota, and  *)
(* how the rate moves of LearnedRate: here taking a token ends sooner or   *)
(* later, and an outcome moves the rate its way within the band.           *)
(***************************************************************************)
EXTENDS Integers

CONSTANTS
  Requests,       (* calls of request(), each made once                    *)
  RateUnit, MinRate, HardCap,  (* see ConcurrencyGate                      *)
  MaxRetries,     (* max_retries of the provider's configuration           *)
  FailMax,        (* circuit_breaker_failure_threshold                     *)
  NetworkRetried, (* whether the transport's network errors are httpx's:   *)
                  (* those of curl_cffi are not in the retry filter        *)
  SaveCanFail     (* whether SQLite may refuse a write (locked database)   *)

ASSUME PipelineUnits ==
  /\ RateUnit \in Nat \ {0}
  /\ MinRate \in Nat \ {0}
  /\ HardCap \in Nat /\ HardCap >= MinRate
  /\ MaxRetries \in Int
  /\ FailMax \in Nat \ {0}
  /\ NetworkRetried \in BOOLEAN /\ SaveCanFail \in BOOLEAN

VARIABLES
  rate, inside, (* the gate                                                *)
  stage,        (* stage[r]: "idle", "metering" (_acquire_limits),         *)
                (* "gated" (limit()), "sending", "backoff", "done"         *)
  attempts,     (* attempts[r]: attempt_number of the retry loop           *)
  outcome,      (* outcome[r]: what request() ended with, or "none"        *)
  transport,    (* "open", "closing" from the first step of close(), which *)
                (* makes it refuse calls, to its last; then "gone"         *)
  failCounter,  (* the circuit breaker's fail_counter                      *)
  tokens,       (* history: tokens[r], acquire calls that r got through    *)
  sends,        (* history: sends[r], transport calls made for r           *)
  last,         (* history: last[r], how its last transport call ended     *)
  late,         (* history: late[r], attempts of r begun after close()     *)
  trouble       (* history: error answers in a row over all requests, up   *)
                (* to FailMax; 0 again when the recovery timeout elapses   *)

loop    == <<stage, attempts, outcome>>
history == <<tokens, sends, last, late, trouble>>
vars    == <<rate, inside, loop, transport, failCounter, history>>

Gate == INSTANCE ConcurrencyGate WITH Tasks <- Requests

-----------------------------------------------------------------------------

Larger(a, b)  == IF a >= b THEN a ELSE b
Smaller(a, b) == IF a <= b THEN a ELSE b

\* stop_after_attempt looks at the count after an attempt: the first is always made.
MaxAttempts == Larger(1, MaxRetries)

Failures == {"429", "error", "network", "timeout"}

Retried(kind) == kind \in {"429", "error"} \/ (kind = "network" /\ NetworkRetried)

\* The except clauses of request(): whatever is not retried escapes as it is.
Verdict(kind) ==
  CASE kind = "429"    -> "RateLimitExceeded"
    [] ~Retried(kind)  -> "raw"
    [] OTHER           -> "ProviderDown"

\* Mutant: one attempt too few.
MayRetryTooRarely(r, kind) == Retried(kind) /\ attempts[r] < MaxAttempts - 1

MayRetry(r, kind) == Retried(kind) /\ attempts[r] < MaxAttempts

Finish(r, result) ==
  /\ stage' = [stage EXCEPT ![r] = "done"]
  /\ outcome' = [outcome EXCEPT ![r] = result]
  /\ UNCHANGED attempts

-----------------------------------------------------------------------------

Init ==
  /\ Gate!Init
  /\ stage = [r \in Requests |-> "idle"]
  /\ attempts = [r \in Requests |-> 0]
  /\ outcome = [r \in Requests |-> "none"]
  /\ transport = "open"
  /\ failCounter = 0
  /\ tokens = [r \in Requests |-> 0]
  /\ sends = [r \in Requests |-> 0]
  /\ last = [r \in Requests |-> "none"]
  /\ late = [r \in Requests |-> 0]
  /\ trouble = 0

\* The breaker calls the coroutine function, gets a coroutine and counts a success,
\* before anything of the attempt has run.
BreakerCall ==
  /\ failCounter < FailMax
  /\ failCounter' = 0

\* Mutant: the tokens are taken once, before the loop.
AttemptUnmetered(r) ==
  /\ stage[r] \in {"idle", "backoff"}
  /\ BreakerCall
  /\ stage' = [stage EXCEPT ![r] = IF @ = "idle" THEN "metering" ELSE "gated"]
  /\ attempts' = [attempts EXCEPT ![r] = @ + 1]
  /\ late' = [late EXCEPT ![r] = IF transport = "open" THEN @ ELSE @ + 1]
  /\ UNCHANGED <<rate, inside, outcome, transport, tokens, sends, last, trouble>>

\* The first attempt, or the next one when the backoff sleep is over.
Attempt(r) ==
  /\ stage[r] \in {"idle", "backoff"}
  /\ BreakerCall
  /\ stage' = [stage EXCEPT ![r] = "metering"]
  /\ attempts' = [attempts EXCEPT ![r] = @ + 1]
  /\ late' = [late EXCEPT ![r] = IF transport = "open" THEN @ ELSE @ + 1]
  /\ UNCHANGED <<rate, inside, outcome, transport, tokens, sends, last, trouble>>

TakeTokens(r) ==
  /\ stage[r] = "metering"
  /\ stage' = [stage EXCEPT ![r] = "gated"]
  /\ tokens' = [tokens EXCEPT ![r] = @ + 1]
  /\ UNCHANGED <<rate, inside, attempts, outcome, transport, failCounter, sends, last, late, trouble>>

Send(r) ==
  /\ stage[r] = "gated" /\ transport = "open"
  /\ Gate!Enter(r)
  /\ stage' = [stage EXCEPT ![r] = "sending"]
  /\ sends' = [sends EXCEPT ![r] = @ + 1]
  /\ UNCHANGED <<attempts, outcome, transport, failCounter, tokens, last, late, trouble>>

\* Mutant: a closed client is retried like an error of the network.
RetryClosed(r) ==
  /\ stage[r] = "gated" /\ transport # "open"
  /\ Gate!HasRoom
  /\ IF attempts[r] < MaxAttempts
     THEN stage' = [stage EXCEPT ![r] = "backoff"] /\ UNCHANGED <<attempts, outcome>>
     ELSE Finish(r, "raw")
  /\ UNCHANGED <<rate, inside, transport, failCounter, history>>

\* The transport refuses the call: RuntimeError, and the slot is given back at once.
FindClosed(r) ==
  /\ stage[r] = "gated" /\ transport # "open"
  /\ Gate!HasRoom
  /\ Finish(r, "raw")
  /\ UNCHANGED <<rate, inside, transport, failCounter, history>>

\* record_success and record_429 move the rate before they save it: when the save
\* raises, the error of SQLite is all the caller gets, of a good response too.
Succeed(r) ==
  /\ stage[r] = "sending"
  /\ Gate!Leave(r)
  /\ rate' >= rate
  /\ Finish(r, "response") \/ (SaveCanFail /\ rate' > rate /\ Finish(r, "raw"))
  /\ last' = [last EXCEPT ![r] = "ok"]
  /\ trouble' = 0
  /\ UNCHANGED <<transport, failCounter, tokens, sends, late>>

RateAfter(kind) == IF kind = "429" THEN MinRate..rate ELSE {rate}

BackOff(r) ==
  /\ stage' = [stage EXCEPT ![r] = "backoff"]
  /\ UNCHANGED <<attempts, outcome>>

Fail(r, kind) ==
  /\ stage[r] = "sending"
  /\ Gate!Leave(r)
  /\ rate' \in RateAfter(kind)
  /\ \/ MayRetry(r, kind) /\ BackOff(r)
     \/ ~MayRetry(r, kind) /\ Finish(r, Verdict(kind))
     \/ SaveCanFail /\ rate' < rate /\ Finish(r, "raw")
  /\ last' = [last EXCEPT ![r] = kind]
  /\ trouble' = IF kind = "error" THEN Smaller(trouble + 1, FailMax) ELSE 0
  /\ UNCHANGED <<transport, failCounter, tokens, sends, late>>

\* Mutant: the slot is not given back in a finally clause.
CancelHolding(r) ==
  /\ stage[r] \notin {"idle", "done"}
  /\ Finish(r, "cancelled")
  /\ UNCHANGED <<rate, inside, transport, failCounter, history>>

\* The caller cancels the task that waits anywhere in request(); tokens it took
\* stay taken, its slot is released on the way out.
Cancel(r) ==
  /\ stage[r] \notin {"idle", "done"}
  /\ Finish(r, "cancelled")
  /\ inside' = inside \ {r}
  /\ UNCHANGED <<rate, transport, failCounter, history>>

\* close(), at any moment, up to where it first waits: a curl session is forgotten and
\* an httpx client refuses calls from here on.  Attempts under way may still end any
\* way at all.
BeginClose ==
  /\ transport = "open"
  /\ transport' = "closing"
  /\ UNCHANGED <<rate, inside, loop, failCounter, history>>

\* The connections are closed, and an httpx client is forgotten too.
EndClose ==
  /\ transport = "closing"
  /\ transport' = "gone"
  /\ UNCHANGED <<rate, inside, loop, failCounter, history>>

\* circuit_breaker_recovery_timeout_sec after the last failure.
RecoveryTimeout ==
  /\ trouble = FailMax
  /\ trouble' = 0
  /\ UNCHANGED <<rate, inside, loop, transport, failCounter, tokens, sends, last, late>>

Respond(r) == Succeed(r) \/ \E kind \in Failures : Fail(r, kind)

Next ==
  \/ \E r \in Requests :
       Attempt(r) \/ TakeTokens(r) \/ Send(r) \/ FindClosed(r) \/ Respond(r) \/ Cancel(r)
  \/ BeginClose \/ EndClose
  \/ RecoveryTimeout

Spec == Init /\ [][Next]_vars

\* Sleeps end, the buckets refill and grant what fits them (TokenSchedule, and
\* LlmQuota for estimates of tokens), a woken waiter of the gate runs, and the
\* transport's timeouts end every call.  Nobody has to call, cancel or close.
FairSpec ==
  /\ Spec
  /\ \A r \in Requests :
       /\ WF_vars(attempts[r] > 0 /\ Attempt(r))
       /\ WF_vars(TakeTokens(r))
       /\ WF_vars(Send(r) \/ FindClosed(r))
       /\ WF_vars(Respond(r))

-----------------------------------------------------------------------------

\* The attributes, and the loop variables of each request, hold what they can hold.
TypeOK ==
  /\ rate \in MinRate..HardCap /\ inside \in SUBSET Requests
  /\ stage \in [Requests -> {"idle", "metering", "gated", "sending", "backoff", "done"}]
  /\ attempts \in [Requests -> 0..MaxAttempts]
  /\ outcome \in [Requests ->
       {"none", "response", "RateLimitExceeded", "ProviderDown", "raw", "cancelled"}]
  /\ transport \in {"open", "closing", "gone"} /\ failCounter \in 0..FailMax
  /\ tokens \in [Requests -> Nat] /\ sends \in [Requests -> Nat]
  /\ last \in [Requests -> Failures \cup {"none", "ok"}]
  /\ late \in [Requests -> Nat] /\ trouble \in 0..FailMax

\* Every transport call, of a retry as of a first attempt, is paid for by an acquire
\* of its own, so what TokenSchedule bounds is what the provider sees.
NoSendWithoutToken == \A r \in Requests :
  sends[r] <= tokens[r] /\ tokens[r] <= MaxAttempts

\* A request holds a slot exactly while its transport call is under way: nobody
\* backs off, waits for tokens, fails or is cancelled with the slot in hand.
SlotsOnlyWhileSending == inside = {r \in Requests : stage[r] = "sending"}

\* What request() returns or raises is what happened: a response only for a good
\* answer, and a finpipe error only when every attempt allowed was made and the last
\* one failed that way.
VerdictIsEarned == \A r \in Requests :
  /\ outcome[r] = "response" => last[r] = "ok"
  /\ outcome[r] = "RateLimitExceeded" => last[r] = "429" /\ sends[r] = MaxAttempts
  /\ outcome[r] = "ProviderDown" =>
       last[r] \in {"error", "network"} /\ sends[r] = MaxAttempts

\* close() ends the retrying, while it waits as well as after it: a request that it
\* meets anywhere in its loop, or that is made later, begins one more attempt at most,
\* pays for that one and ends with it, however many attempts it has left.
ClosedEndsRetries == \A r \in Requests : late[r] <= 1

\* A request that is made ends, however the others fare: neither lost answers nor a
\* closed client nor a falling rate leave it waiting.
EveryRequestEnds == \A r \in Requests : stage[r] = "metering" ~> stage[r] = "done"

\* The documented circuit breaker: after FailMax error answers in a row no attempt starts
\* until the recovery timeout has elapsed.
FailsFast ==
  [][trouble = FailMax => \A r \in Requests : ~Attempt(r)]_vars

=============================================================================
