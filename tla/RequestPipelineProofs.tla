----------------------- MODULE RequestPipelineProofs -----------------------
(***************************************************************************)
(* For any number of requests and any configuration of retries: every      *)
(* transport call is paid for, slots are held only while sending, verdicts *)
(* are earned, and a closed client ends the retrying.                      *)
(*                                                                         *)
(* None of these invariants is inductive: how many tokens a request has    *)
(* used, and how many attempts it began after close(), says something only *)
(* together with where in the loop it stands.  Ledger and Lateness say it. *)
(***************************************************************************)
EXTENDS RequestPipeline, FiniteSets, FiniteSetTheorems, TLAPS

\* The books of a request at each point of the loop.
Ledger == \A r \in Requests :
  /\ stage[r] = "idle" => attempts[r] = 0 /\ tokens[r] = 0 /\ sends[r] = 0
  /\ stage[r] = "metering" => tokens[r] = attempts[r] - 1 /\ sends[r] = tokens[r]
  /\ stage[r] = "gated" => tokens[r] = attempts[r] /\ sends[r] = tokens[r] - 1
  /\ stage[r] \in {"sending", "backoff"} =>
       tokens[r] = attempts[r] /\ sends[r] = tokens[r] /\ sends[r] >= 1
  /\ stage[r] = "backoff" => attempts[r] < MaxAttempts
  /\ stage[r] # "done" => outcome[r] = "none"

\* An attempt begun after close() is on its way to the refusal, or there.
Lateness == \A r \in Requests :
  /\ late[r] <= 1
  /\ transport = "open" => late[r] = 0
  /\ late[r] = 1 => stage[r] \in {"metering", "gated", "done"}

Inv ==
  /\ TypeOK /\ SlotsOnlyWhileSending /\ Ledger /\ NoSendWithoutToken /\ VerdictIsEarned
  /\ Lateness

LEMMA AttemptsArePositive == MaxAttempts \in Nat /\ MaxAttempts >= 1
BY PipelineUnits DEF MaxAttempts, Larger

LEMMA InvInit == Init => Inv
<1> SUFFICES ASSUME Init PROVE Inv
  OBVIOUS
<1>1. TypeOK
  <2>1. 0 \in 0..MaxAttempts /\ 0 \in 0..FailMax
    BY AttemptsArePositive, PipelineUnits
  <2>2. rate \in MinRate..HardCap /\ inside \in SUBSET Requests
    BY DEF Init, Gate!Init
  <2>3. QED
    BY <2>1, <2>2 DEF Init, TypeOK
<1>2. SlotsOnlyWhileSending
  BY DEF Init, Gate!Init, SlotsOnlyWhileSending
<1>3. Ledger /\ NoSendWithoutToken /\ VerdictIsEarned /\ Lateness
  BY AttemptsArePositive DEF Init, Ledger, NoSendWithoutToken, VerdictIsEarned, Lateness
<1>4. QED
  BY <1>1, <1>2, <1>3 DEF Inv

LEMMA AttemptKeepsInv ==
  ASSUME Inv, NEW r \in Requests, Attempt(r) PROVE Inv'
<1>1. attempts[r] + 1 \in 0..MaxAttempts
  <2>1. attempts[r] \in 0..MaxAttempts /\ MaxAttempts \in Nat /\ MaxAttempts >= 1
    BY AttemptsArePositive DEF Inv, TypeOK
  <2>2. attempts[r] = 0 \/ attempts[r] < MaxAttempts
    BY DEF Inv, Ledger, Attempt
  <2>3. QED
    BY <2>1, <2>2
<1>2. TypeOK'
  <2>1. attempts' \in [Requests -> 0..MaxAttempts]
    BY <1>1 DEF Inv, TypeOK, Attempt
  <2>2. failCounter' \in 0..FailMax
    BY PipelineUnits DEF Attempt, BreakerCall
  <2>3. QED
    BY <2>1, <2>2 DEF Inv, TypeOK, Attempt, history
<1>3. SlotsOnlyWhileSending'
  BY DEF Inv, TypeOK, SlotsOnlyWhileSending, Attempt
<1>4. Ledger' /\ NoSendWithoutToken' /\ VerdictIsEarned' /\ Lateness'
  BY DEF Inv, TypeOK, Ledger, NoSendWithoutToken, VerdictIsEarned, Lateness, Attempt, history
<1>5. QED
  BY <1>2, <1>3, <1>4 DEF Inv

LEMMA TakeTokensKeepsInv ==
  ASSUME Inv, NEW r \in Requests, TakeTokens(r) PROVE Inv'
<1>1. TypeOK'
  BY DEF Inv, TypeOK, TakeTokens
<1>2. SlotsOnlyWhileSending'
  BY DEF Inv, TypeOK, SlotsOnlyWhileSending, TakeTokens
<1>3. Ledger' /\ NoSendWithoutToken' /\ VerdictIsEarned' /\ Lateness'
  BY AttemptsArePositive
     DEF Inv, TypeOK, Ledger, NoSendWithoutToken, VerdictIsEarned, Lateness, TakeTokens
<1>4. QED
  BY <1>1, <1>2, <1>3 DEF Inv

LEMMA SendKeepsInv ==
  ASSUME Inv, NEW r \in Requests, Send(r) PROVE Inv'
<1>1. TypeOK'
  BY DEF Inv, TypeOK, Send, Gate!Enter
<1>2. SlotsOnlyWhileSending'
  BY DEF Inv, TypeOK, SlotsOnlyWhileSending, Send, Gate!Enter
<1>3. Ledger' /\ NoSendWithoutToken' /\ VerdictIsEarned' /\ Lateness'
  BY AttemptsArePositive
     DEF Inv, TypeOK, Ledger, NoSendWithoutToken, VerdictIsEarned, Lateness, Send, Gate!Enter
<1>4. QED
  BY <1>1, <1>2, <1>3 DEF Inv

\* A request that ends with an error of its own, or is cancelled, earns no verdict.
LEMMA AbandonKeepsInv ==
  ASSUME Inv, NEW r \in Requests, FindClosed(r) \/ Cancel(r) PROVE Inv'
<1>1. \E result \in {"raw", "cancelled"} : Finish(r, result)
  BY DEF FindClosed, Cancel
<1>2. /\ UNCHANGED <<rate, transport, failCounter, history>> /\ inside' = inside \ {r}
  BY DEF Inv, SlotsOnlyWhileSending, FindClosed, Cancel
<1>3. TypeOK'
  BY <1>1, <1>2 DEF Inv, TypeOK, Finish, history
<1>4. SlotsOnlyWhileSending'
  BY <1>1, <1>2 DEF Inv, TypeOK, SlotsOnlyWhileSending, Finish
<1>5. Ledger' /\ NoSendWithoutToken' /\ VerdictIsEarned' /\ Lateness'
  BY <1>1, <1>2
     DEF Inv, TypeOK, Ledger, NoSendWithoutToken, VerdictIsEarned, Lateness, Finish, history
<1>6. QED
  BY <1>3, <1>4, <1>5 DEF Inv

LEMMA SucceedKeepsInv ==
  ASSUME Inv, NEW r \in Requests, Succeed(r) PROVE Inv'
<1>1. \E result \in {"response", "raw"} : Finish(r, result)
  BY DEF Succeed
<1>2. /\ UNCHANGED <<transport, failCounter, tokens, sends, late>> /\ inside' = inside \ {r}
      /\ rate' \in MinRate..HardCap /\ stage[r] = "sending" /\ trouble' = 0
      /\ last' = [last EXCEPT ![r] = "ok"]
  BY DEF Succeed, Gate!Leave
<1>3. TypeOK'
  BY <1>1, <1>2, PipelineUnits DEF Inv, TypeOK, Finish
<1>4. SlotsOnlyWhileSending'
  BY <1>1, <1>2 DEF Inv, TypeOK, SlotsOnlyWhileSending, Finish
<1>5. Ledger' /\ NoSendWithoutToken' /\ VerdictIsEarned' /\ Lateness'
  BY <1>1, <1>2
     DEF Inv, TypeOK, Ledger, NoSendWithoutToken, VerdictIsEarned, Lateness, Finish
<1>6. QED
  BY <1>3, <1>4, <1>5 DEF Inv

LEMMA FailKeepsInv ==
  ASSUME Inv, NEW r \in Requests, NEW kind \in Failures, Fail(r, kind) PROVE Inv'
<1>1. /\ UNCHANGED <<transport, failCounter, tokens, sends, late>> /\ inside' = inside \ {r}
      /\ rate' \in MinRate..HardCap /\ stage[r] = "sending"
      /\ last' = [last EXCEPT ![r] = kind]
      /\ trouble' \in 0..FailMax
  BY PipelineUnits DEF Inv, TypeOK, Fail, Gate!Leave, Smaller
<1>2. CASE BackOff(r) /\ MayRetry(r, kind)
  <2>1. TypeOK'
    BY <1>1, <1>2 DEF Inv, TypeOK, BackOff
  <2>2. SlotsOnlyWhileSending'
    BY <1>1, <1>2 DEF Inv, TypeOK, SlotsOnlyWhileSending, BackOff
  <2>3. Ledger' /\ NoSendWithoutToken' /\ VerdictIsEarned' /\ Lateness'
    BY <1>1, <1>2
       DEF Inv, TypeOK, Ledger, NoSendWithoutToken, VerdictIsEarned, Lateness, BackOff, MayRetry
  <2>4. QED
    BY <2>1, <2>2, <2>3 DEF Inv
<1>3. ASSUME NEW result \in {"raw", "RateLimitExceeded", "ProviderDown"}, Finish(r, result),
             result = "RateLimitExceeded" => kind = "429" /\ sends[r] = MaxAttempts,
             result = "ProviderDown" =>
               kind \in {"error", "network"} /\ sends[r] = MaxAttempts
      PROVE  Inv'
  <2>1. TypeOK'
    BY <1>1, <1>3 DEF Inv, TypeOK, Finish
  <2>2. SlotsOnlyWhileSending'
    BY <1>1, <1>3 DEF Inv, TypeOK, SlotsOnlyWhileSending, Finish
  <2>3. Ledger' /\ NoSendWithoutToken' /\ Lateness'
    BY <1>1, <1>3 DEF Inv, TypeOK, Ledger, NoSendWithoutToken, Lateness, Finish
  <2>4. VerdictIsEarned'
    BY <1>1, <1>3 DEF Inv, TypeOK, VerdictIsEarned, Finish
  <2>5. QED
    BY <2>1, <2>2, <2>3, <2>4 DEF Inv
<1>4. CASE Finish(r, "raw")
  BY <1>3, <1>4
<1>5. CASE Finish(r, Verdict(kind)) /\ ~MayRetry(r, kind)
  <2>1. sends[r] = attempts[r] /\ attempts[r] \in 0..MaxAttempts
    BY <1>1 DEF Inv, TypeOK, Ledger
  <2>2. Retried(kind) => sends[r] = MaxAttempts
    BY <2>1, <1>5, AttemptsArePositive DEF MayRetry
  <2>3. CASE kind = "429"
    BY <1>3, <1>5, <2>2, <2>3 DEF Verdict, Retried
  <2>4. CASE kind # "429" /\ Retried(kind)
    BY <1>3, <1>5, <2>2, <2>4 DEF Verdict, Retried
  <2>5. CASE ~Retried(kind)
    BY <1>3, <1>5, <2>5 DEF Verdict, Retried
  <2>6. QED
    BY <2>3, <2>4, <2>5
<1>6. QED
  BY <1>2, <1>4, <1>5 DEF Fail

LEMMA InvStep == Inv /\ [Next]_vars => Inv'
<1> SUFFICES ASSUME Inv, [Next]_vars PROVE Inv'
  OBVIOUS
<1>1. CASE UNCHANGED vars \/ BeginClose \/ EndClose \/ RecoveryTimeout
  <2>1. /\ UNCHANGED <<rate, inside, stage, attempts, outcome, failCounter, tokens, sends, last, late>>
        /\ transport' = transport \/ transport' \in {"closing", "gone"}
        /\ trouble' \in {trouble, 0}
    BY <1>1 DEF vars, loop, history, BeginClose, EndClose, RecoveryTimeout
  <2>2. TypeOK'
    BY <2>1, PipelineUnits DEF Inv, TypeOK
  <2>3. Lateness'
    BY <2>1 DEF Inv, Lateness
  <2>4. QED
    BY <2>1, <2>2, <2>3
       DEF Inv, SlotsOnlyWhileSending, Ledger, NoSendWithoutToken, VerdictIsEarned
<1>2. CASE \E r \in Requests :
        Attempt(r) \/ TakeTokens(r) \/ Send(r) \/ FindClosed(r) \/ Respond(r) \/ Cancel(r)
  BY <1>2, AttemptKeepsInv, TakeTokensKeepsInv, SendKeepsInv, AbandonKeepsInv,
     SucceedKeepsInv, FailKeepsInv DEF Respond
<1>3. QED
  BY <1>1, <1>2 DEF Next

LEMMA InvAlways == Spec => []Inv
BY InvInit, InvStep, PTL DEF Spec

\* No interleaving of requests, retries and cancellations sends without a token, or
\* takes more of them than there are attempts.
THEOREM EverySendIsPaidFor == Spec => []NoSendWithoutToken
<1>1. Inv => NoSendWithoutToken
  BY DEF Inv
<1>2. QED
  BY <1>1, InvAlways, PTL

\* The slots of the gate are those of the transport calls under way.
THEOREM SlotsFollowSends == Spec => []SlotsOnlyWhileSending
<1>1. Inv => SlotsOnlyWhileSending
  BY DEF Inv
<1>2. QED
  BY <1>1, InvAlways, PTL

\* Whatever the retry configuration, a finpipe error means that all attempts failed.
THEOREM VerdictsAreEarned == Spec => []VerdictIsEarned
<1>1. Inv => VerdictIsEarned
  BY DEF Inv
<1>2. QED
  BY <1>1, InvAlways, PTL

\* Whatever the retry configuration, and wherever in its loop a request is met by
\* close(), it begins one more attempt at most.  (resilience.py, close, request.)
THEOREM CloseEndsRetries == Spec => []ClosedEndsRetries
<1>1. Inv => ClosedEndsRetries
  BY DEF Inv, Lateness, ClosedEndsRetries
<1>2. QED
  BY <1>1, InvAlways, PTL

-----------------------------------------------------------------------------
\* The gate

\* A step of the pipeline is a step of the gate, or the gate does not see it.
LEMMA StepIsGateStep == Inv /\ [Next]_vars => [Gate!Next]_<<rate, inside>>
<1> SUFFICES ASSUME Inv, Next PROVE Gate!Next \/ UNCHANGED <<rate, inside>>
  BY DEF vars
<1>1. ASSUME NEW r \in Requests, Send(r) PROVE Gate!Next
  BY <1>1 DEF Send, Gate!Next
<1>2. ASSUME NEW r \in Requests, Respond(r) PROVE Gate!Next
  BY <1>2 DEF Respond, Succeed, Fail, Gate!Next
<1>3. ASSUME NEW r \in Requests, Cancel(r) PROVE Gate!Next \/ UNCHANGED <<rate, inside>>
  <2>1. inside' = inside \ {r} /\ rate' = rate /\ rate \in MinRate..HardCap
    BY <1>3 DEF Inv, TypeOK, Cancel
  <2>2. CASE r \in inside
    BY <2>1, <2>2 DEF Gate!Leave, Gate!Next
  <2>3. CASE r \notin inside
    BY <2>1, <2>3
  <2>4. QED
    BY <2>2, <2>3
<1>4. ASSUME NEW r \in Requests, Attempt(r) \/ TakeTokens(r) \/ FindClosed(r)
      PROVE  UNCHANGED <<rate, inside>>
  BY <1>4 DEF Attempt, TakeTokens, FindClosed
<1>5. CASE BeginClose \/ EndClose \/ RecoveryTimeout
  BY <1>5 DEF BeginClose, EndClose, RecoveryTimeout
<1>6. QED
  BY <1>1, <1>2, <1>3, <1>4, <1>5 DEF Next

\* The pipeline keeps to the gate's rules, whatever becomes of its requests: it moves
\* the rate only as a request leaves, and lets none in but one that finds room.  So what
\* DynamicConcurrency implements is what request() is run on.
THEOREM GateIsKept == Spec => Gate!Spec
<1>1. Init => Gate!Init
  BY DEF Init
<1>2. QED
  BY <1>1, StepIsGateStep, InvAlways, PTL DEF Spec, Gate!Spec

\* What the gate lets in at the highest rate there is.
MostInFlight == Larger(1, HardCap \div RateUnit)

InFlight == {r \in Requests : stage[r] = "sending"}

LEMMA LimitsAreOrdered ==
  ASSUME rate \in MinRate..HardCap
  PROVE  Gate!DynamicLimit \in Nat /\ MostInFlight \in Nat /\ Gate!DynamicLimit <= MostInFlight
<1> DEFINE low  == rate \div RateUnit
           high == HardCap \div RateUnit
<1>1. /\ low \in Nat /\ high \in Nat /\ low <= high
  BY PipelineUnits
<1> HIDE DEF low, high
<1>2. Larger(1, low) <= Larger(1, high) /\ Larger(1, low) \in Nat /\ Larger(1, high) \in Nat
  BY <1>1 DEF Larger
<1>3. Gate!DynamicLimit = Larger(1, low) /\ MostInFlight = Larger(1, high)
  BY DEF Gate!DynamicLimit, Gate!Larger, Larger, MostInFlight, low, high
<1>4. QED
  BY <1>2, <1>3

Ceiling == IsFiniteSet(inside) /\ Cardinality(inside) <= MostInFlight

LEMMA CeilingStep == Inv /\ Ceiling /\ [Next]_vars => Ceiling'
<1> SUFFICES ASSUME Inv, Ceiling, [Next]_vars PROVE Ceiling'
  OBVIOUS
<1>0. Cardinality(inside) \in Nat /\ IsFiniteSet(inside) /\ Cardinality(inside) <= MostInFlight
  BY FS_CardinalityType DEF Ceiling
<1>1. ASSUME NEW r \in Requests, Gate!Enter(r) PROVE Ceiling'
  <2>1. inside' = inside \cup {r} /\ r \notin inside
    BY <1>1 DEF Gate!Enter
  <2>2. IsFiniteSet(inside') /\ Cardinality(inside') = Cardinality(inside) + 1
    BY <1>0, <2>1, FS_AddElement
  <2>3. Cardinality(inside) < Gate!DynamicLimit
    <3>1. Gate!Cardinality(inside) = Cardinality(inside)
      BY DEF Gate!Cardinality, Cardinality
    <3>2. QED
      BY <1>1, <3>1 DEF Gate!Enter, Gate!HasRoom
  <2>4. Gate!DynamicLimit \in Nat /\ MostInFlight \in Nat /\ Gate!DynamicLimit <= MostInFlight
    BY LimitsAreOrdered DEF Inv, TypeOK
  <2>5. Cardinality(inside') <= MostInFlight
    BY <1>0, <2>2, <2>3, <2>4
  <2>6. QED
    BY <2>2, <2>5 DEF Ceiling, MostInFlight
<1>2. ASSUME NEW r \in Requests, Gate!Leave(r) PROVE Ceiling'
  <2>1. inside' = inside \ {r} /\ r \in inside
    BY <1>2 DEF Gate!Leave
  <2>2. IsFiniteSet(inside') /\ Cardinality(inside') = Cardinality(inside) - 1
    BY <1>0, <2>1, FS_RemoveElement
  <2>3. MostInFlight \in Nat
    BY LimitsAreOrdered DEF Inv, TypeOK
  <2>4. QED
    BY <1>0, <2>2, <2>3 DEF Ceiling, MostInFlight
<1>3. CASE UNCHANGED <<rate, inside>>
  BY <1>3 DEF Ceiling, MostInFlight
<1>4. QED
  BY <1>1, <1>2, <1>3, StepIsGateStep DEF Gate!Next

\* However many requests wait and however the rate moves, no more transport calls are
\* under way than the hard cap allows, cancelled and closed ones included.
THEOREM CallsInFlightAreBounded == Spec => [](Cardinality(InFlight) <= MostInFlight)
<1>1. Init => Ceiling
  <2> SUFFICES ASSUME Init PROVE Ceiling
    OBVIOUS
  <2>1. inside = {} /\ rate \in MinRate..HardCap
    BY DEF Init, Gate!Init
  <2>2. MostInFlight \in Nat
    BY <2>1, LimitsAreOrdered
  <2>3. QED
    BY <2>1, <2>2, FS_EmptySet DEF Ceiling
<1>2. Inv /\ Ceiling => Cardinality(InFlight) <= MostInFlight
  BY DEF Inv, SlotsOnlyWhileSending, Ceiling, InFlight
<1>3. QED
  BY <1>1, <1>2, CeilingStep, InvAlways, PTL DEF Spec

-----------------------------------------------------------------------------
\* Termination

\* An upper bound of the steps a request can still take.
StepsLeft(r) ==
  IF stage[r] = "done" THEN 0
  ELSE 4 * (MaxAttempts - attempts[r])
         + CASE stage[r] = "metering" -> 4
             [] stage[r] = "gated"    -> 3
             [] stage[r] = "sending"  -> 2
             [] OTHER                 -> 1

Books(r) == <<stage[r], attempts[r], outcome[r], tokens[r], sends[r], last[r]>>

LEMMA StepsLeftIsNatural ==
  ASSUME Inv, NEW r \in Requests PROVE StepsLeft(r) \in 0..(4 * MaxAttempts + 1)
<1>1. MaxAttempts \in Nat /\ attempts[r] \in 0..MaxAttempts
  BY AttemptsArePositive DEF Inv, TypeOK
<1>2. stage[r] \in {"metering", "gated", "sending"} => attempts[r] >= 1
  BY <1>1 DEF Inv, TypeOK, Ledger, NoSendWithoutToken
<1>3. QED
  BY <1>1, <1>2 DEF StepsLeft

LEMMA StepIsSpent ==
  ASSUME Inv, Inv', NEW r \in Requests,
         Attempt(r) \/ TakeTokens(r) \/ Send(r) \/ FindClosed(r) \/ Respond(r) \/ Cancel(r)
  PROVE  StepsLeft(r)' < StepsLeft(r)
<1>1. /\ MaxAttempts \in Nat /\ attempts[r] \in 0..MaxAttempts /\ attempts'[r] \in 0..MaxAttempts
      /\ stage \in [Requests -> {"idle", "metering", "gated", "sending", "backoff", "done"}]
      /\ attempts \in [Requests -> 0..MaxAttempts]
  BY AttemptsArePositive DEF Inv, TypeOK
<1>2. CASE Attempt(r)
  <2>1. /\ stage[r] \in {"idle", "backoff"} /\ stage'[r] = "metering"
        /\ attempts'[r] = attempts[r] + 1
    BY <1>1, <1>2 DEF Attempt
  <2>2. QED
    BY <1>1, <2>1 DEF StepsLeft
<1>3. CASE TakeTokens(r)
  <2>1. stage[r] = "metering" /\ stage'[r] = "gated" /\ attempts'[r] = attempts[r]
    BY <1>1, <1>3 DEF TakeTokens
  <2>2. QED
    BY <1>1, <2>1 DEF StepsLeft
<1>4. CASE Send(r)
  <2>1. stage[r] = "gated" /\ stage'[r] = "sending" /\ attempts'[r] = attempts[r]
    BY <1>1, <1>4 DEF Send
  <2>2. QED
    BY <1>1, <2>1 DEF StepsLeft
<1>5. ASSUME stage[r] # "done", stage'[r] = "done" PROVE StepsLeft(r)' < StepsLeft(r)
  BY <1>1, <1>5 DEF StepsLeft
<1>6. CASE FindClosed(r) \/ Cancel(r)
  BY <1>1, <1>5, <1>6 DEF FindClosed, Cancel, Finish
<1>7. CASE Respond(r)
  <2>1. /\ stage[r] = "sending"
        /\ stage'[r] = "done" \/ (stage'[r] = "backoff" /\ attempts'[r] = attempts[r])
    BY <1>1, <1>7 DEF Respond, Succeed, Fail, Finish, BackOff
  <2>2. CASE stage'[r] = "done"
    BY <1>5, <2>1, <2>2
  <2>3. CASE stage'[r] = "backoff" /\ attempts'[r] = attempts[r]
    BY <1>1, <2>1, <2>3 DEF StepsLeft
  <2>4. QED
    BY <2>1, <2>2, <2>3
<1>8. QED
  BY <1>2, <1>3, <1>4, <1>6, <1>7

\* No request goes on for ever: whatever answers it gets and whoever runs beside it, each
\* step it takes uses one up of at most four per attempt, and nobody gives it one back.
\* With TLC's EveryRequestEnds this is why the retry loop of request() is left.
THEOREM RequestsGetOn ==
  Spec => /\ [](\A r \in Requests : StepsLeft(r) \in 0..(4 * MaxAttempts + 1))
          /\ [][\A r \in Requests : UNCHANGED Books(r) \/ StepsLeft(r)' < StepsLeft(r)]_vars
<1>1. Inv /\ [Next]_vars
        => [\A r \in Requests : UNCHANGED Books(r) \/ StepsLeft(r)' < StepsLeft(r)]_vars
  <2> SUFFICES ASSUME Inv, Next, NEW r \in Requests
               PROVE  UNCHANGED Books(r) \/ StepsLeft(r)' < StepsLeft(r)
    OBVIOUS
  <2>1. Inv'
    BY InvStep
  <2>2. ASSUME NEW q \in Requests,
               Attempt(q) \/ TakeTokens(q) \/ Send(q) \/ FindClosed(q) \/ Respond(q) \/ Cancel(q)
        PROVE  UNCHANGED Books(r) \/ StepsLeft(r)' < StepsLeft(r)
    <3>1. CASE q = r
      BY <2>1, <2>2, <3>1, StepIsSpent
    <3>2. CASE q # r
      BY <2>2, <3>2 DEF Inv, TypeOK, Attempt, TakeTokens, Send, FindClosed, Respond, Succeed,
                        Fail, Finish, BackOff, Cancel, history, Books
    <3>3. QED
      BY <3>1, <3>2
  <2>3. CASE BeginClose \/ EndClose \/ RecoveryTimeout
    BY <2>3 DEF BeginClose, EndClose, RecoveryTimeout, loop, history, Books
  <2>4. QED
    BY <2>2, <2>3 DEF Next
<1>2. Inv => \A r \in Requests : StepsLeft(r) \in 0..(4 * MaxAttempts + 1)
  BY StepsLeftIsNatural
<1>3. QED
  BY <1>1, <1>2, InvAlways, PTL DEF Spec

=============================================================================
