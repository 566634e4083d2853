---------------------------- MODULE MarketCalls ----------------------------
(***************************************************************************)
(* Calls of one routed method by concurrent callers of one client: the     *)
(* fallback loop of providers/composite, and under it the two ways an      *)
(* adapter reaches its upstream.  An adapter with an HTTP client makes its *)
(* requests through it (RequestPipeline).  Yahoo's _execute_with_resilience *)
(* takes one token, then retries a function in a worker thread, in a slot  *)
(* of the concurrency gate; the thread cannot be cancelled.                *)
(***************************************************************************)
EXTENDS Integers, FiniteSets, ProviderMethods

CONSTANTS
  Calls,        (* the callers, each with one call                         *)
  RateUnit, MinRate, HardCap,  (* see ConcurrencyGate                      *)
  MaxRetries,   (* max_retries of Yahoo's configuration                    *)
  Workers,      (* threads of the event loop's default executor            *)
  MaxAsks,      (* bound: a method makes at most so many requests          *)
  SaveCanFail,  (* whether record_success may raise an error of SQLite     *)
  Plans         (* the candidates a call may find, in order                *)

ASSUME CallUnits ==
  /\ RateUnit \in Nat \ {0} /\ MinRate \in Nat \ {0}
  /\ HardCap \in Nat /\ HardCap >= MinRate
  /\ MaxRetries \in Int
  /\ Workers \in Nat \ {0} /\ MaxAsks \in Nat \ {0}
  /\ SaveCanFail \in BOOLEAN
  /\ \A p \in Plans : Len(p) \in Nat

ASSUME MethodUnits ==
  \A p \in Plans : \A i \in 1..Len(p) : p[i].asks \subseteq Nat /\ p[i].keeps \subseteq Outcomes

VARIABLES
  rate, inside,  (* the gate of Yahoo's limiter                            *)
  plan,     (* the methods of the candidates that have one, in order       *)
  stage,    (* stage[c]: "idle", "metering", "gated", "waiting" (for its   *)
            (* thread), "backoff", "asking" (over HTTP), "done"            *)
  at,       (* at[c]: the candidate whose turn it is                       *)
  left,     (* left[c]: requests the method has still to make              *)
  tries,    (* tries[c]: attempt_number of Yahoo's retry loop              *)
  thread,   (* thread[c]: "none", "queued" in the executor, "running"      *)
  result,   (* result[c]: "none", "data", "empty", "error", "cancelled"    *)
  raised,   (* history: raised[c], the candidates that raised              *)
  tokens,   (* history: tokens[c], acquire calls of Yahoo's limiter for c  *)
  sends     (* history: sends[c], threads that ran for c                   *)

gate    == <<rate, inside>>
call    == <<stage, at, left, tries, result, raised>>
history == <<tokens, sends>>
vars    == <<gate, plan, call, thread, history>>

Gate == INSTANCE ConcurrencyGate WITH Tasks <- Calls

-----------------------------------------------------------------------------

\* stop_after_attempt(0) lets the first attempt through.
MaxAttempts == IF MaxRetries > 1 THEN MaxRetries ELSE 1

Running == {c \in Calls : thread[c] = "running"}

RequestsOf(m) == {IF n > MaxAsks THEN MaxAsks ELSE n : n \in m.asks}

Finish(c, outcome) ==
  /\ stage' = [stage EXCEPT ![c] = "done"]
  /\ result' = [result EXCEPT ![c] = outcome]
  /\ UNCHANGED <<left, tries>>

\* The adapter finds its answer in the cache; one of an outage looks like an empty one.
Hit(c, m) == \E outcome \in m.keeps :
  Finish(c, IF outcome = "failed" THEN "empty" ELSE outcome)

Ask(c, m) == \E n \in RequestsOf(m) \ {0} :
  /\ stage' = [stage EXCEPT ![c] = IF m.via = "threads" THEN "metering" ELSE "asking"]
  /\ left' = [left EXCEPT ![c] = n]
  /\ UNCHANGED <<tries, result>>

\* A stub, or a method that finds it has nothing to ask.
AnswerUnasked(c, m) ==
  /\ 0 \in m.asks
  /\ Finish(c, "empty")

\* A method that raises before anything is awaited.
RaisesAtOnce(m) == m.via \in {"refused", "broken"}

\* The loop of call_with_fallback after the first n candidates have raised, up to its
\* next await or its end.
TryNext(c, n) ==
  \E j \in (n + 1)..(Len(plan) + 1) :
    /\ \A k \in (n + 1)..(j - 1) : RaisesAtOnce(plan[k])
    /\ at' = [at EXCEPT ![c] = j]
    /\ raised' = [raised EXCEPT ![c] = @ \cup ((n..(j - 1)) \ {0})]
    /\ \/ j = Len(plan) + 1 /\ Finish(c, "error")
       \/ /\ j <= Len(plan) /\ ~RaisesAtOnce(plan[j])
          /\ Hit(c, plan[j]) \/ Ask(c, plan[j]) \/ AnswerUnasked(c, plan[j])

\* Mutant: the next candidate is tried when an answer is empty, too.
SettleEmptyOn(c, outcome) ==
  IF Answer(plan[at[c]], outcome) = "data" \/ at[c] = Len(plan)
  THEN Finish(c, Answer(plan[at[c]], outcome)) /\ UNCHANGED <<at, raised>>
  ELSE at' = [at EXCEPT ![c] = @ + 1] /\ Ask(c, plan[at[c] + 1]) /\ UNCHANGED raised

\* The method of the candidate has returned or raised.
Settle(c, outcome) ==
  IF Answer(plan[at[c]], outcome) = "error"
  THEN TryNext(c, at[c])
  ELSE Finish(c, Answer(plan[at[c]], outcome)) /\ UNCHANGED <<at, raised>>

\* One request of the method has ended: it goes on to its next one unless it raises.
Proceed(c, outcome) ==
  IF left[c] > 1 /\ (outcome # "failed" \/ plan[at[c]].failed = "empty")
  THEN /\ left' = [left EXCEPT ![c] = @ - 1]
       /\ stage' = [stage EXCEPT ![c] = IF @ = "asking" THEN @ ELSE "metering"]
       /\ UNCHANGED <<at, tries, result, raised>>
  ELSE Settle(c, outcome)

-----------------------------------------------------------------------------

Init ==
  /\ Gate!Init
  /\ plan \in Plans
  /\ stage = [c \in Calls |-> "idle"]
  /\ at = [c \in Calls |-> 0]
  /\ left = [c \in Calls |-> 0]
  /\ tries = [c \in Calls |-> 0]
  /\ thread = [c \in Calls |-> "none"]
  /\ result = [c \in Calls |-> "none"]
  /\ raised = [c \in Calls |-> {}]
  /\ tokens = [c \in Calls |-> 0]
  /\ sends = [c \in Calls |-> 0]

Start(c) ==
  /\ stage[c] = "idle"
  /\ TryNext(c, 0)
  /\ UNCHANGED <<gate, plan, thread, history>>

HttpAnswers(c, outcome) ==
  /\ stage[c] = "asking"
  /\ Proceed(c, outcome)
  /\ UNCHANGED <<gate, plan, thread, history>>

\* Once for all attempts of this request; the breaker only sees a coroutine made.
TakeToken(c) ==
  /\ stage[c] = "metering"
  /\ stage' = [stage EXCEPT ![c] = "gated"]
  /\ tries' = [tries EXCEPT ![c] = 1]
  /\ tokens' = [tokens EXCEPT ![c] = @ + 1]
  /\ UNCHANGED <<gate, plan, at, left, result, raised, thread, sends>>

\* Through the gate, and the function goes to the executor.
SubmitThread(c) ==
  /\ stage[c] = "gated"
  /\ Gate!Enter(c)
  /\ stage' = [stage EXCEPT ![c] = "waiting"]
  /\ thread' = [thread EXCEPT ![c] = "queued"]
  /\ UNCHANGED <<plan, at, left, tries, result, raised, history>>

RunThread(c) ==
  /\ thread[c] = "queued"
  /\ Cardinality(Running) < Workers
  /\ thread' = [thread EXCEPT ![c] = "running"]
  /\ sends' = [sends EXCEPT ![c] = @ + 1]
  /\ UNCHANGED <<gate, plan, call, tokens>>

\* Mutant: one attempt too many.
RetryOrRaiseLate(c) ==
  IF tries[c] <= MaxAttempts
  THEN stage' = [stage EXCEPT ![c] = "backoff"] /\ UNCHANGED <<at, left, tries, result, raised>>
  ELSE Settle(c, "failed")

RetryOrRaise(c) ==
  IF tries[c] < MaxAttempts
  THEN stage' = [stage EXCEPT ![c] = "backoff"] /\ UNCHANGED <<at, left, tries, result, raised>>
  ELSE Settle(c, "failed")

\* Mutant: a slot is given back only after an answer.
ThreadFailsHolding(c) ==
  /\ thread[c] = "running" /\ stage[c] = "waiting" /\ ~plan[at[c]].lazy
  /\ thread' = [thread EXCEPT ![c] = "none"]
  /\ UNCHANGED gate
  /\ RetryOrRaise(c)
  /\ UNCHANGED <<plan, history>>

\* The slot is given back on the way out; a 429 is not told to the limiter.
ThreadFails(c) ==
  /\ thread[c] = "running" /\ stage[c] = "waiting" /\ ~plan[at[c]].lazy
  /\ thread' = [thread EXCEPT ![c] = "none"]
  /\ rate' = rate /\ Gate!Leave(c)
  /\ RetryOrRaise(c)
  /\ UNCHANGED <<plan, history>>

\* record_success moves the rate before it saves it: when the save raises, the good
\* answer is thrown away and asked for again.  A lazy method makes its request now, out
\* of the slot and out of the retry loop, and a failure goes straight to its caller.
ThreadSucceeds(c, outcome) ==
  /\ thread[c] = "running" /\ stage[c] = "waiting"
  /\ outcome = "failed" => plan[at[c]].lazy
  /\ thread' = [thread EXCEPT ![c] = "none"]
  /\ Gate!Leave(c) /\ rate' >= rate
  /\ Proceed(c, outcome) \/ (SaveCanFail /\ rate' > rate /\ RetryOrRaise(c))
  /\ UNCHANGED <<plan, history>>

\* Nobody waits for this thread any more.
OrphanEnds(c) ==
  /\ thread[c] = "running" /\ stage[c] # "waiting"
  /\ thread' = [thread EXCEPT ![c] = "none"]
  /\ UNCHANGED <<gate, plan, call, history>>

Retry(c) ==
  /\ stage[c] = "backoff"
  /\ stage' = [stage EXCEPT ![c] = "gated"]
  /\ tries' = [tries EXCEPT ![c] = @ + 1]
  /\ UNCHANGED <<gate, plan, at, left, result, raised, thread, history>>

\* Mutant: the work stays in the executor's queue.
CancelKeepingWork(c) ==
  /\ stage[c] \notin {"idle", "done"}
  /\ Finish(c, "cancelled")
  /\ inside' = inside \ {c}
  /\ UNCHANGED <<rate, plan, at, raised, thread, history>>

\* CancelledError is no Exception: neither retried nor a reason to fall back.  The slot
\* is given back at once, a queued thread is dropped, a running one runs on.
Cancel(c) ==
  /\ stage[c] \notin {"idle", "done"}
  /\ Finish(c, "cancelled")
  /\ inside' = inside \ {c}
  /\ thread' = [thread EXCEPT ![c] = IF @ = "queued" THEN "none" ELSE @]
  /\ UNCHANGED <<rate, plan, at, raised, history>>

ThreadEnds(c) ==
  ThreadFails(c) \/ OrphanEnds(c) \/ \E outcome \in Outcomes : ThreadSucceeds(c, outcome)

Next == \E c \in Calls :
  \/ Start(c) \/ (\E outcome \in Outcomes : HttpAnswers(c, outcome))
  \/ TakeToken(c) \/ SubmitThread(c) \/ RunThread(c) \/ ThreadEnds(c) \/ Retry(c)
  \/ Cancel(c)

Spec == Init /\ [][Next]_vars

\* The bucket refills, sleeps end, the executor works through its queue, yfinance's and
\* the transport's timeouts end every request.  Nobody has to call or to cancel.
FairSpec ==
  /\ Spec
  /\ \A c \in Calls :
       /\ WF_vars(\E outcome \in Outcomes : HttpAnswers(c, outcome))
       /\ WF_vars(TakeToken(c))
       /\ WF_vars(SubmitThread(c))
       /\ WF_vars(RunThread(c))
       /\ WF_vars(ThreadEnds(c))
       /\ WF_vars(Retry(c))

-----------------------------------------------------------------------------

\* The loop variables of each call hold what they can hold.
TypeOK ==
  /\ rate \in MinRate..HardCap /\ inside \in SUBSET Calls
  /\ plan \in Plans
  /\ stage \in [Calls ->
       {"idle", "metering", "gated", "waiting", "backoff", "asking", "done"}]
  /\ at \in [Calls -> 0..(Len(plan) + 1)]
  /\ left \in [Calls -> Nat] /\ tries \in [Calls -> 0..MaxAttempts]
  /\ thread \in [Calls -> {"none", "queued", "running"}]
  /\ result \in [Calls -> {"none", "data", "empty", "error", "cancelled"}]
  /\ raised \in [Calls -> SUBSET (1..Len(plan))]
  /\ tokens \in [Calls -> Nat] /\ sends \in [Calls -> Nat]

\* A slot of Yahoo's gate is held exactly by the calls that wait for their thread.  A
\* thread without a waiting call is the one that was running when its call was
\* cancelled: so many more requests than slots may be in flight, and no others.
ThreadsAccountedFor ==
  /\ inside = {c \in Calls : stage[c] = "waiting"}
  /\ \A c \in Calls :
       /\ stage[c] = "waiting" => thread[c] # "none"
       /\ thread[c] = "queued" => stage[c] = "waiting"
       /\ thread[c] = "running" => stage[c] = "waiting" \/ result[c] = "cancelled"

\* Retries take no token, so the bucket's bound on requests holds for Yahoo only times
\* the attempts: no call gets more threads than that out of its tokens.
TokensPayRetries == \A c \in Calls : sends[c] <= MaxAttempts * tokens[c]

\* A call that has ended has ended: no thread starts for it any more, no fallback runs,
\* and what came of it stays.
EndIsFinal ==
  [][\A c \in Calls : stage[c] = "done" =>
       /\ sends'[c] = sends[c] /\ tokens'[c] = tokens[c]
       /\ result'[c] = result[c] /\ raised'[c] = raised[c]]_vars

\* What RoutedCall promises: in order, the first answer wins, an error only when all raised.
Routed == INSTANCE RoutedCall WITH
  width <- Len(plan),
  verdict <- [c \in Calls |->
    CASE result[c] = "none"              -> [kind |-> "pending", by |-> 0]
      [] result[c] \in {"data", "empty"} -> [kind |-> "answer", by |-> at[c]]
      [] OTHER                           -> [kind |-> result[c], by |-> 0]]

RouteIsImplemented == Routed!Spec

\* A call that is made ends, whatever the others' orphaned threads do to the executor.
EveryCallEnds == \A c \in Calls : stage[c] # "idle" ~> stage[c] = "done"

=============================================================================
