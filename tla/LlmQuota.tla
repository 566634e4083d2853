------------------------------ MODULE LlmQuota ------------------------------
(***************************************************************************)
(* The per-minute quotas of a client (src/network/limiter.py):             *)
(* RpmTpmRateLimiter with its two buckets, one of requests and one of LLM  *)
(* tokens, or only the second; TokenBucketRateLimiter, which is the first  *)
(* alone (its congestion backoff is never called).  The callers are the    *)
(* language-model adapters: an estimate is taken from the buckets before   *)
(* each attempt, and when the answer reports its use, the difference goes  *)
(* back or is taken too.                                                   *)
(*                                                                         *)
(* Refilling lazily by the time elapsed, as the code does, or by every     *)
(* tick, as here, comes to the same level.  The lock is never contended:   *)
(* nobody suspends with it in hand.                                        *)
(***************************************************************************)
EXTENDS Integers

CONSTANTS
  Calls,      (* the callers, each making one call at a time               *)
  Buckets,    (* the buckets in force: of "requests", of "tokens" or both  *)
  Capacity,   (* Capacity[b]: rpm or tpm, in the units of b                *)
  Rate,       (* Rate[b]: what flows in per tick                           *)
  OneRequest, (* units of the bucket of requests in one request            *)
  Estimates,  (* estimates the adapters may make                           *)
  Usages,     (* uses the answers may report                               *)
  MaxAttempts,(* attempts of a request, see RequestPipeline                *)
  Window      (* bound: ticks in the longest window looked at              *)

ASSUME QuotaUnits ==
  /\ Buckets \subseteq {"requests", "tokens"}
  /\ Capacity \in [Buckets -> Nat \ {0}]
  /\ Rate \in [Buckets -> Nat \ {0}]
  /\ OneRequest \in Nat \ {0}
  /\ Estimates \subseteq Nat \ {0}
  /\ Usages \subseteq Nat
  /\ MaxAttempts \in Nat \ {0}
  /\ Window \in Nat

VARIABLES
  level,    (* level[b]: req_tokens, tok_tokens (below 0 after an overrun) *)
  status,   (* status[c]: "idle", "waiting" (in acquire) or "sending"      *)
  estimate, (* estimate[c]: token_estimate of the call, 0 when idle         *)
  attempt,  (* attempt[c]: attempt_number of the call, 0 when idle          *)
  sleep,    (* sleep[c]: ticks c still sleeps before it looks again        *)
  elapsed,  (* history: ticks since the window looked at was opened        *)
  counted,  (* history: counted[c], c is sending by a grant in the window  *)
  used,     (* history: used[b], what the grants in the window have used,  *)
            (* as far as reported, and what they were granted otherwise    *)
  returned  (* history: returned[b], what grants before it gave back in it *)

window == <<elapsed, counted, used, returned>>
vars   == <<level, status, estimate, attempt, sleep, window>>

-----------------------------------------------------------------------------

Smaller(a, b) == IF a <= b THEN a ELSE b
RoundedUp(a, b) == (a + b - 1) \div b

Demand(c, b) == IF b = "requests" THEN OneRequest ELSE estimate[c]

\* Mutants: one bucket will do; a bucket must keep something back.
EnoughInOne(c) == \E b \in Buckets : level[b] >= Demand(c, b)
EnoughAndMore(c) == \A b \in Buckets : level[b] > Demand(c, b)

Enough(c) == \A b \in Buckets : level[b] >= Demand(c, b)

Shortfall(c, b) == RoundedUp(Demand(c, b) - level[b], Rate[b])

\* The longest of the waits for the buckets that lack something.
Waits(c) == {n \in {Shortfall(c, b) : b \in Buckets} : \A b \in Buckets : Shortfall(c, b) <= n}

\* Mutant: a refund may overfill the bucket.
SettledWithoutBound(c, use) == level["tokens"] + estimate[c] - use

Settled(c, use) == Smaller(Capacity["tokens"], level["tokens"] + estimate[c] - use)

-----------------------------------------------------------------------------

\* The call returns or raises: what it kept in local variables is gone.
Leave(c) ==
  /\ status' = [status EXCEPT ![c] = "idle"]
  /\ estimate' = [estimate EXCEPT ![c] = 0]
  /\ attempt' = [attempt EXCEPT ![c] = 0]
  /\ sleep' = [sleep EXCEPT ![c] = 0]
  /\ counted' = [counted EXCEPT ![c] = FALSE]

Init ==
  /\ level = Capacity
  /\ status = [c \in Calls |-> "idle"]
  /\ estimate = [c \in Calls |-> 0]
  /\ attempt = [c \in Calls |-> 0]
  /\ sleep = [c \in Calls |-> 0]
  /\ elapsed = 0
  /\ counted = [c \in Calls |-> FALSE]
  /\ used = [b \in Buckets |-> 0]
  /\ returned = [b \in Buckets |-> 0]

\* generate_response after a miss of its cache, down to acquire().
Ask(c) ==
  /\ status[c] = "idle"
  /\ status' = [status EXCEPT ![c] = "waiting"]
  /\ \E n \in Estimates : estimate' = [estimate EXCEPT ![c] = n]
  /\ attempt' = [attempt EXCEPT ![c] = 1]
  /\ UNCHANGED <<level, sleep, window>>

\* acquire(), from its start or after a sleep, finds all it needs.
Grant(c) ==
  /\ status[c] = "waiting" /\ sleep[c] = 0
  /\ Enough(c)
  /\ status' = [status EXCEPT ![c] = "sending"]
  /\ level' = [b \in Buckets |-> level[b] - Demand(c, b)]
  /\ counted' = [counted EXCEPT ![c] = TRUE]
  /\ used' = [b \in Buckets |-> used[b] + Demand(c, b)]
  /\ UNCHANGED <<estimate, attempt, sleep, elapsed, returned>>

\* Mutant: the request is taken while the tokens are still missing.
SleepHolding(c) ==
  /\ status[c] = "waiting" /\ sleep[c] = 0
  /\ ~Enough(c)
  /\ \E n \in Waits(c) : sleep' = [sleep EXCEPT ![c] = n]
  /\ level' = [b \in Buckets |-> IF b = "requests" /\ level[b] >= OneRequest
                                 THEN level[b] - OneRequest ELSE level[b]]
  /\ UNCHANGED <<status, estimate, attempt, window>>

\* acquire() lacks something: it takes nothing and sleeps until it should be there.
Sleep(c) ==
  /\ status[c] = "waiting" /\ sleep[c] = 0
  /\ ~Enough(c)
  /\ \E n \in Waits(c) : sleep' = [sleep EXCEPT ![c] = n]
  /\ UNCHANGED <<level, status, estimate, attempt, window>>

\* An answer that reports its use: reconcile_token_usage, in the same run of the
\* task.  Only the last attempt's estimate is put right, the earlier ones stay taken.
Reconcile(c) == \E use \in Usages :
  /\ status[c] = "sending"
  /\ Leave(c)
  /\ level' = [b \in Buckets |-> IF b = "tokens" THEN Settled(c, use) ELSE level[b]]
  /\ used' = [b \in Buckets |-> IF b = "tokens" /\ counted[c]
                                THEN used[b] + use - estimate[c] ELSE used[b]]
  /\ returned' = [b \in Buckets |-> IF b = "tokens" /\ ~counted[c] /\ use < estimate[c]
                                    THEN returned[b] + estimate[c] - use ELSE returned[b]]
  /\ UNCHANGED elapsed

\* An answer without a report, an empty one, the last failure, or a cancellation
\* (also of a waiter): nothing is given back.
End(c) ==
  /\ status[c] # "idle"
  /\ Leave(c)
  /\ UNCHANGED <<level, elapsed, used, returned>>

\* The attempt failed; after the backoff the next one asks for the whole estimate again.
Retry(c) ==
  /\ status[c] = "sending" /\ attempt[c] < MaxAttempts
  /\ status' = [status EXCEPT ![c] = "waiting"]
  /\ attempt' = [attempt EXCEPT ![c] = @ + 1]
  /\ counted' = [counted EXCEPT ![c] = FALSE]
  /\ UNCHANGED <<level, estimate, sleep, elapsed, used, returned>>

OpenWindow ==
  /\ elapsed' = 0
  /\ counted' = [c \in Calls |-> FALSE]
  /\ used' = [b \in Buckets |-> 0]
  /\ returned' = [b \in Buckets |-> 0]

\* A new window may be looked at any time, and is when the old one is over.
LookElsewhere ==
  /\ OpenWindow
  /\ UNCHANGED <<level, status, estimate, attempt, sleep>>

Refill == level' = [b \in Buckets |-> Smaller(Capacity[b], level[b] + Rate[b])]

Tick ==
  /\ Refill
  /\ sleep' = [c \in Calls |-> IF sleep[c] = 0 THEN 0 ELSE sleep[c] - 1]
  /\ \/ elapsed < Window /\ elapsed' = elapsed + 1 /\ UNCHANGED <<counted, used, returned>>
     \/ elapsed = Window /\ OpenWindow
  /\ UNCHANGED <<status, estimate, attempt>>

Next ==
  \/ \E c \in Calls :
       Ask(c) \/ Grant(c) \/ Sleep(c) \/ Reconcile(c) \/ End(c) \/ Retry(c)
  \/ LookElsewhere
  \/ Tick

Spec == Init /\ [][Next]_vars

\* Time passes, a caller whose sleep is over runs, and the transport ends every
\* attempt.  Nobody has to ask, to answer well or to fail.
FairSpec ==
  /\ Spec
  /\ WF_vars(Tick)
  /\ \A c \in Calls :
       /\ WF_vars(Grant(c) \/ Sleep(c))
       /\ WF_vars(status[c] = "sending" /\ (Reconcile(c) \/ End(c) \/ Retry(c)))

-----------------------------------------------------------------------------

\* The buckets are never overfull, by refills or by refunds.
TypeOK ==
  /\ level \in [Buckets -> Int]
  /\ \A b \in Buckets : level[b] <= Capacity[b]
  /\ status \in [Calls -> {"idle", "waiting", "sending"}]
  /\ estimate \in [Calls -> Estimates \cup {0}]
  /\ attempt \in [Calls -> 0..MaxAttempts]
  /\ sleep \in [Calls -> Nat]
  /\ elapsed \in 0..Window
  /\ counted \in [Calls -> BOOLEAN]
  /\ used \in [Buckets -> Int] /\ returned \in [Buckets -> Nat]

Granted(c) == status[c] = "waiting" /\ status'[c] = "sending"

\* Whichever window is looked at: when a call is let through, the calls let through in
\* the window have used, as far as they have reported and by their estimates otherwise,
\* no more than a full bucket, what flowed in and what earlier calls gave back.  An
\* answer that overran its estimate is made up for before the next call goes.
QuotaKept ==
  [][\A c \in Calls : Granted(c) =>
       \A b \in Buckets : used'[b] <= Capacity[b] + Rate[b] * elapsed + returned[b]]_vars

\* A bucket only loses what a call takes with it as it is let through, or an answer
\* that overran its estimate: who lacks tokens does not sit on a request meanwhile.
WaitersHoldNothing ==
  [][\A b \in Buckets : level'[b] < level[b] => \E c \in Calls :
       \/ Granted(c) /\ level'[b] = level[b] - Demand(c, b)
       \/ b = "tokens" /\ status[c] = "sending" /\ status'[c] = "idle"]_vars

Fits(c) == \A b \in Buckets : Demand(c, b) <= Capacity[b]

\* When no new calls come in, every call that fits the buckets at all is let through
\* or cancelled, however much the others take first, overrun and retry, and also
\* beside a call that does not fit.
FitsIsServed ==
  <>[][\A c \in Calls : ~Ask(c)]_vars =>
    \A c \in Calls : []<>~(status[c] = "waiting" /\ Fits(c))

=============================================================================
