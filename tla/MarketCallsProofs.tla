------------------------- MODULE MarketCallsProofs -------------------------
(***************************************************************************)
(* For any number of callers, workers, retries and candidates: threads and *)
(* slots are accounted for, tokens pay for the threads, a call that has    *)
(* ended stays as it is, and the loop keeps what RoutedCall promises.      *)
(***************************************************************************)
EXTENDS MarketCalls, TLAPS

Active == {"metering", "gated", "waiting", "backoff", "asking"}

\* Where the loop of a call is, and what it has behind it.
Coherent == \A c \in Calls :
  /\ stage[c] = "done" <=> result[c] # "none"
  /\ stage[c] = "idle" => at[c] = 0
  /\ stage[c] \in Active => at[c] \in 1..Len(plan)
  /\ stage[c] # "done" => raised[c] = 1..(at[c] - 1)
  /\ stage[c] = "backoff" => tries[c] < MaxAttempts

\* The threads a call has run, and those its last token may still pay for.
Due(c) ==
  IF stage[c] = "gated" \/ (stage[c] = "waiting" /\ thread[c] = "queued")
  THEN MaxAttempts - tries[c] + 1
  ELSE IF stage[c] \in {"waiting", "backoff"} THEN MaxAttempts - tries[c] ELSE 0

Budget == \A c \in Calls : sends[c] + Due(c) <= MaxAttempts * tokens[c]

Inv == TypeOK /\ ThreadsAccountedFor /\ Coherent /\ Budget

-----------------------------------------------------------------------------
\* What the loop of a call does in one step

Ends(c, r) ==
  /\ stage' = [stage EXCEPT ![c] = "done"]
  /\ result' = [result EXCEPT ![c] = r]
  /\ UNCHANGED <<left, tries>>

AsksOn(c) == \E s \in {"metering", "asking"}, k \in Nat :
  /\ stage' = [stage EXCEPT ![c] = s]
  /\ left' = [left EXCEPT ![c] = k]
  /\ UNCHANGED <<tries, result>>

\* It goes on with candidate j, or comes to its end there.
PassesTo(c, j) ==
  /\ at[c] <= j
  /\ at' = [at EXCEPT ![c] = j]
  /\ raised' = [raised EXCEPT ![c] = 1..(j - 1)]
  /\ \/ j = Len(plan) + 1 /\ Ends(c, "error")
     \/ j \in 1..Len(plan) /\ (Ends(c, "data") \/ Ends(c, "empty") \/ AsksOn(c))

Passes(c) == \E j \in 1..(Len(plan) + 1) : PassesTo(c, j)

BacksOff(c) ==
  /\ tries[c] < MaxAttempts
  /\ stage' = [stage EXCEPT ![c] = "backoff"]
  /\ UNCHANGED <<at, left, tries, result, raised>>

LEMMA AttemptsArePositive == MaxAttempts \in Nat /\ MaxAttempts >= 1
BY CallUnits DEF MaxAttempts

LEMMA PlansHaveLengths == ASSUME TypeOK PROVE Len(plan) \in Nat
BY CallUnits DEF TypeOK

LEMMA AnswersAreKnown ==
  ASSUME NEW m, NEW outcome PROVE Answer(m, outcome) \in {"data", "empty", "error"}
BY DEF Answer

LEMMA TryNextPasses ==
  ASSUME TypeOK, Coherent, NEW c \in Calls, stage[c] # "done", at[c] \in 0..Len(plan),
         TryNext(c, at[c])
  PROVE  Passes(c)
<1>0. Len(plan) \in Nat
  BY PlansHaveLengths
<1>1. PICK j \in (at[c] + 1)..(Len(plan) + 1) :
        /\ at' = [at EXCEPT ![c] = j]
        /\ raised' = [raised EXCEPT ![c] = @ \cup ((at[c]..(j - 1)) \ {0})]
        /\ \/ j = Len(plan) + 1 /\ Finish(c, "error")
           \/ /\ j <= Len(plan)
              /\ Hit(c, plan[j]) \/ Ask(c, plan[j]) \/ AnswerUnasked(c, plan[j])
  BY DEF TryNext
<1>2. j \in 1..(Len(plan) + 1) /\ at[c] <= j
  BY <1>0, <1>1
<1>3. raised' = [raised EXCEPT ![c] = 1..(j - 1)]
  <2>1. raised[c] = 1..(at[c] - 1)
    BY DEF Coherent
  <2>2. raised[c] \cup ((at[c]..(j - 1)) \ {0}) = 1..(j - 1)
    BY <2>1, <1>0, <1>1, <1>2
  <2>3. QED
    BY <1>1, <2>2
<1>4. CASE j = Len(plan) + 1 /\ Finish(c, "error")
  BY <1>1, <1>2, <1>3, <1>4 DEF Passes, PassesTo, Ends, Finish
<1>5. CASE j <= Len(plan) /\ Hit(c, plan[j])
  <2>1. j \in 1..Len(plan)
    BY <1>0, <1>2, <1>5
  <2>2. PICK outcome \in plan[j].keeps : Finish(c, IF outcome = "failed" THEN "empty" ELSE outcome)
    BY <1>5 DEF Hit
  <2>3. outcome \in Outcomes
    BY <2>1, <2>2, MethodUnits DEF TypeOK
  <2>4. Ends(c, "data") \/ Ends(c, "empty")
    BY <2>2, <2>3 DEF Outcomes, Finish, Ends
  <2>5. QED
    BY <1>1, <1>2, <1>3, <2>1, <2>4 DEF Passes, PassesTo
<1>6. CASE j <= Len(plan) /\ Ask(c, plan[j])
  <2>1. j \in 1..Len(plan)
    BY <1>0, <1>2, <1>6
  <2>2. PICK n \in RequestsOf(plan[j]) \ {0} :
          /\ stage' = [stage EXCEPT ![c] = IF plan[j].via = "threads" THEN "metering" ELSE "asking"]
          /\ left' = [left EXCEPT ![c] = n]
          /\ UNCHANGED <<tries, result>>
    BY <1>6 DEF Ask
  <2>3. n \in Nat
    BY <2>1, <2>2, MethodUnits, CallUnits DEF RequestsOf, TypeOK
  <2>4. AsksOn(c)
    BY <2>2, <2>3 DEF AsksOn
  <2>5. QED
    BY <1>1, <1>2, <1>3, <2>1, <2>4 DEF Passes, PassesTo
<1>7. CASE j <= Len(plan) /\ AnswerUnasked(c, plan[j])
  <2>1. j \in 1..Len(plan)
    BY <1>0, <1>2, <1>7
  <2>2. Ends(c, "empty")
    BY <1>7 DEF AnswerUnasked, Finish, Ends
  <2>3. QED
    BY <1>1, <1>2, <1>3, <2>1, <2>2 DEF Passes, PassesTo
<1>8. QED
  BY <1>1, <1>4, <1>5, <1>6, <1>7

LEMMA SettlePasses ==
  ASSUME TypeOK, Coherent, NEW c \in Calls, stage[c] \in Active, NEW outcome, Settle(c, outcome)
  PROVE  Passes(c)
<1>0. Len(plan) \in Nat /\ at[c] \in 1..Len(plan) /\ raised[c] = 1..(at[c] - 1) /\ stage[c] # "done"
  BY PlansHaveLengths DEF Coherent, Active
<1>1. CASE Answer(plan[at[c]], outcome) = "error"
  BY <1>0, <1>1, TryNextPasses DEF Settle
<1>2. CASE Answer(plan[at[c]], outcome) # "error"
  <2>1. Ends(c, "data") \/ Ends(c, "empty")
    BY <1>2, AnswersAreKnown DEF Settle, Finish, Ends
  <2>2. at' = [at EXCEPT ![c] = at[c]] /\ raised' = [raised EXCEPT ![c] = 1..(at[c] - 1)]
    BY <1>0, <1>2 DEF Settle, TypeOK
  <2>3. PassesTo(c, at[c])
    BY <1>0, <2>1, <2>2 DEF PassesTo
  <2>4. QED
    BY <1>0, <2>3 DEF Passes
<1>3. QED
  BY <1>1, <1>2

LEMMA ProceedPasses ==
  ASSUME TypeOK, Coherent, NEW c \in Calls, stage[c] \in Active, NEW outcome, Proceed(c, outcome)
  PROVE  Passes(c)
<1>0. Len(plan) \in Nat /\ at[c] \in 1..Len(plan) /\ raised[c] = 1..(at[c] - 1)
  BY PlansHaveLengths DEF Coherent, Active
<1>1. CASE Settle(c, outcome)
  BY <1>1, SettlePasses
<1>2. CASE ~Settle(c, outcome)
  <2>1. /\ left[c] > 1
        /\ left' = [left EXCEPT ![c] = @ - 1]
        /\ stage' = [stage EXCEPT ![c] = IF @ = "asking" THEN @ ELSE "metering"]
        /\ UNCHANGED <<at, tries, result, raised>>
    BY <1>2 DEF Proceed
  <2>2. left[c] - 1 \in Nat
    BY <2>1 DEF TypeOK
  <2>3. AsksOn(c)
    <3>1. CASE stage[c] = "asking"
      BY <2>1, <2>2, <3>1 DEF AsksOn
    <3>2. CASE stage[c] # "asking"
      BY <2>1, <2>2, <3>2 DEF AsksOn
    <3>3. QED
      BY <3>1, <3>2
  <2>4. at' = [at EXCEPT ![c] = at[c]] /\ raised' = [raised EXCEPT ![c] = 1..(at[c] - 1)]
    BY <1>0, <2>1 DEF TypeOK
  <2>5. PassesTo(c, at[c])
    BY <1>0, <2>3, <2>4 DEF PassesTo
  <2>6. QED
    BY <1>0, <2>5 DEF Passes
<1>3. QED
  BY <1>1, <1>2

LEMMA RetryOrRaisePasses ==
  ASSUME TypeOK, Coherent, NEW c \in Calls, stage[c] \in Active, RetryOrRaise(c)
  PROVE  BacksOff(c) \/ Passes(c)
BY SettlePasses DEF RetryOrRaise, BacksOff

-----------------------------------------------------------------------------
\* What a step keeps

CallTypes ==
  /\ stage \in [Calls -> Active \cup {"idle", "done"}]
  /\ at \in [Calls -> 0..(Len(plan) + 1)]
  /\ left \in [Calls -> Nat] /\ tries \in [Calls -> 0..MaxAttempts]
  /\ result \in [Calls -> {"none", "data", "empty", "error", "cancelled"}]
  /\ raised \in [Calls -> SUBSET (1..Len(plan))]

LEMMA TypesOfCalls == TypeOK => CallTypes
BY DEF TypeOK, CallTypes, Active

LEMMA PassesKeepCalls ==
  ASSUME TypeOK, Coherent, NEW c \in Calls, stage[c] # "done", Passes(c), UNCHANGED plan
  PROVE  /\ CallTypes' /\ Coherent'
         /\ stage'[c] \in {"done", "metering", "asking"}
         /\ \A d \in Calls \ {c} : /\ stage'[d] = stage[d] /\ result'[d] = result[d]
                                  /\ at'[d] = at[d] /\ raised'[d] = raised[d]
         /\ UNCHANGED tries
<1>0. Len(plan) \in Nat /\ CallTypes
  BY PlansHaveLengths, TypesOfCalls
<1>1. PICK j \in 1..(Len(plan) + 1) : PassesTo(c, j)
  BY DEF Passes
<1>2. result[c] = "none"
  BY DEF Coherent, TypeOK
<1>3. CASE Ends(c, "data") \/ Ends(c, "empty") \/ Ends(c, "error")
  <2>1. PICK r \in {"data", "empty", "error"} : Ends(c, r)
    BY <1>3
  <2>2. CallTypes'
    BY <1>0, <1>1, <2>1 DEF CallTypes, PassesTo, Ends
  <2>3. Coherent'
    BY <1>0, <1>1, <2>1 DEF CallTypes, Coherent, PassesTo, Ends, Active
  <2>4. QED
    BY <1>0, <1>1, <2>1, <2>2, <2>3 DEF CallTypes, PassesTo, Ends
<1>4. CASE j \in 1..Len(plan) /\ AsksOn(c)
  <2>1. PICK s \in {"metering", "asking"}, k \in Nat :
          /\ stage' = [stage EXCEPT ![c] = s]
          /\ left' = [left EXCEPT ![c] = k]
          /\ UNCHANGED <<tries, result>>
    BY <1>4 DEF AsksOn
  <2>2. CallTypes'
    BY <1>0, <1>1, <1>4, <2>1 DEF CallTypes, PassesTo, Active
  <2>3. Coherent'
    BY <1>0, <1>1, <1>2, <1>4, <2>1 DEF CallTypes, Coherent, PassesTo, Active
  <2>4. QED
    BY <1>0, <1>1, <2>1, <2>2, <2>3 DEF CallTypes, PassesTo
<1>5. QED
  BY <1>1, <1>3, <1>4 DEF PassesTo

LEMMA DueIsNatural ==
  ASSUME TypeOK, NEW c \in Calls PROVE Due(c) \in Nat /\ sends[c] \in Nat
BY AttemptsArePositive DEF TypeOK, Due

\* A step of one call is to be paid for by its own tokens only.
LEMMA OthersStayPaid ==
  ASSUME Budget, NEW c \in Calls,
         \A d \in Calls \ {c} : /\ stage'[d] = stage[d] /\ thread'[d] = thread[d]
                                /\ tries'[d] = tries[d] /\ sends'[d] = sends[d]
                                /\ tokens'[d] = tokens[d],
         sends'[c] + Due(c)' <= MaxAttempts * tokens'[c]
  PROVE  Budget'
<1> SUFFICES ASSUME NEW d \in Calls PROVE (sends[d] + Due(d) <= MaxAttempts * tokens[d])'
  BY DEF Budget
<1>1. CASE d = c
  BY <1>1
<1>2. CASE d # c
  <2>1. /\ stage'[d] = stage[d] /\ thread'[d] = thread[d] /\ tries'[d] = tries[d]
        /\ sends'[d] = sends[d] /\ tokens'[d] = tokens[d]
    BY <1>2
  <2>2. Due(d)' = Due(d)
    BY <2>1 DEF Due
  <2>3. QED
    BY <2>1, <2>2 DEF Budget
<1>3. QED
  BY <1>1, <1>2

\* The loop of a call goes on, and its thread and slot are no longer its own.
LEMMA LoopGoesOn ==
  ASSUME Inv, NEW c \in Calls, stage[c] # "done",
         Passes(c) \/ (BacksOff(c) /\ stage[c] = "waiting"),
         rate' \in MinRate..HardCap, inside' = inside \ {c},
         thread' = [thread EXCEPT ![c] = "none"], UNCHANGED <<plan, tokens, sends>>
  PROVE  Inv'
<1>0. TypeOK /\ Coherent /\ Budget /\ ThreadsAccountedFor /\ CallTypes
  BY TypesOfCalls DEF Inv
<1>1. /\ CallTypes' /\ Coherent'
      /\ stage'[c] \in {"done", "metering", "asking"}
           \/ (stage'[c] = "backoff" /\ stage[c] = "waiting")
      /\ \A d \in Calls \ {c} : stage'[d] = stage[d] /\ result'[d] = result[d]
      /\ UNCHANGED tries
  <2>1. CASE Passes(c)
    BY <1>0, <2>1, PassesKeepCalls
  <2>2. CASE BacksOff(c) /\ stage[c] = "waiting"
    BY <1>0, <2>2 DEF BacksOff, CallTypes, Coherent, Active
  <2>3. QED
    BY <2>1, <2>2
<1>2. TypeOK'
  BY <1>0, <1>1 DEF TypeOK, CallTypes, Active
<1>3. ThreadsAccountedFor'
  BY <1>0, <1>1 DEF TypeOK, ThreadsAccountedFor
<1>4. Budget'
  <2>1. Due(c)' <= Due(c) /\ Due(c)' \in Int /\ Due(c) \in Int
    BY <1>0, <1>1, AttemptsArePositive DEF Due, TypeOK
  <2> DEFINE paid == MaxAttempts * tokens[c]
  <2>2. paid \in Int /\ sends[c] + Due(c) <= paid /\ sends[c] \in Int
    BY <1>0, AttemptsArePositive DEF Budget, TypeOK
  <2>3. sends'[c] = sends[c] /\ paid' = paid
    OBVIOUS
  <2> HIDE DEF paid
  <2>4. sends'[c] + Due(c)' <= paid'
    BY <2>1, <2>2, <2>3
  <2>5. QED
    BY <1>0, <1>1, <2>4, OthersStayPaid DEF TypeOK, paid
<1>5. QED
  BY <1>1, <1>2, <1>3, <1>4 DEF Inv

-----------------------------------------------------------------------------
\* Each step keeps the invariant.

LEMMA InvInit == Init => Inv
<1> SUFFICES ASSUME Init PROVE Inv
  OBVIOUS
<1>0. Len(plan) \in Nat
  BY CallUnits DEF Init
<1>1. TypeOK
  BY <1>0, AttemptsArePositive DEF Init, TypeOK, Gate!Init
<1>2. ThreadsAccountedFor /\ Coherent
  BY DEF Init, ThreadsAccountedFor, Coherent, Active, Gate!Init
<1>3. Budget
  <2> SUFFICES ASSUME NEW c \in Calls PROVE sends[c] + Due(c) <= MaxAttempts * tokens[c]
    BY DEF Budget
  <2>1. Due(c) = 0 /\ sends[c] = 0 /\ tokens[c] = 0
    BY DEF Init, Due
  <2>2. MaxAttempts * 0 = 0
    BY AttemptsArePositive
  <2>3. QED
    BY <2>1, <2>2
<1>4. QED
  BY <1>1, <1>2, <1>3 DEF Inv

\* The thread of a call that does not wait is an orphan, or there is none.
LEMMA NoThreadOfItsOwn ==
  ASSUME Inv, NEW c \in Calls, stage[c] \notin {"waiting", "done"}
  PROVE  thread[c] = "none" /\ c \notin inside
BY DEF Inv, TypeOK, ThreadsAccountedFor, Coherent

LEMMA StartKeepsInv ==
  ASSUME Inv, NEW c \in Calls, Start(c) PROVE Inv'
<1>1. stage[c] = "idle" /\ at[c] = 0 /\ Len(plan) \in Nat
  BY PlansHaveLengths DEF Inv, Start, Coherent
<1>2. Passes(c)
  BY <1>1, TryNextPasses DEF Inv, Start
<1>3. thread' = [thread EXCEPT ![c] = "none"] /\ inside' = inside \ {c}
  BY <1>1, NoThreadOfItsOwn DEF Inv, TypeOK, Start, gate
<1>4. rate' \in MinRate..HardCap /\ UNCHANGED <<plan, tokens, sends>>
  BY DEF Inv, TypeOK, Start, gate, history
<1>5. QED
  BY <1>1, <1>2, <1>3, <1>4, LoopGoesOn

LEMMA HttpAnswersKeepsInv ==
  ASSUME Inv, NEW c \in Calls, NEW outcome, HttpAnswers(c, outcome) PROVE Inv'
<1>1. stage[c] = "asking" /\ stage[c] \in Active
  BY DEF HttpAnswers, Active
<1>2. Passes(c)
  BY <1>1, ProceedPasses DEF Inv, HttpAnswers
<1>3. thread' = [thread EXCEPT ![c] = "none"] /\ inside' = inside \ {c}
  BY <1>1, NoThreadOfItsOwn DEF Inv, TypeOK, HttpAnswers, gate
<1>4. rate' \in MinRate..HardCap /\ UNCHANGED <<plan, tokens, sends>>
  BY DEF Inv, TypeOK, HttpAnswers, gate, history
<1>5. QED
  BY <1>1, <1>2, <1>3, <1>4, LoopGoesOn

LEMMA ThreadFailsKeepsInv ==
  ASSUME Inv, NEW c \in Calls, ThreadFails(c) PROVE Inv'
<1>1. stage[c] = "waiting" /\ stage[c] \in Active
  BY DEF ThreadFails, Active
<1>2. BacksOff(c) \/ Passes(c)
  BY <1>1, RetryOrRaisePasses DEF Inv, ThreadFails
<1>3. rate' \in MinRate..HardCap /\ inside' = inside \ {c}
      /\ thread' = [thread EXCEPT ![c] = "none"] /\ UNCHANGED <<plan, tokens, sends>>
  BY DEF ThreadFails, Gate!Leave, history
<1>4. QED
  BY <1>1, <1>2, <1>3, LoopGoesOn

LEMMA ThreadSucceedsKeepsInv ==
  ASSUME Inv, NEW c \in Calls, NEW outcome, ThreadSucceeds(c, outcome) PROVE Inv'
<1>1. stage[c] = "waiting" /\ stage[c] \in Active
  BY DEF ThreadSucceeds, Active
<1>2. BacksOff(c) \/ Passes(c)
  BY <1>1, RetryOrRaisePasses, ProceedPasses DEF Inv, ThreadSucceeds
<1>3. rate' \in MinRate..HardCap /\ inside' = inside \ {c}
      /\ thread' = [thread EXCEPT ![c] = "none"] /\ UNCHANGED <<plan, tokens, sends>>
  BY DEF ThreadSucceeds, Gate!Leave, history
<1>4. QED
  BY <1>1, <1>2, <1>3, LoopGoesOn

LEMMA OrphanEndsKeepsInv ==
  ASSUME Inv, NEW c \in Calls, OrphanEnds(c) PROVE Inv'
<1>1. TypeOK'
  BY DEF Inv, TypeOK, OrphanEnds, gate, call, history
<1>2. ThreadsAccountedFor'
  BY DEF Inv, TypeOK, ThreadsAccountedFor, OrphanEnds, gate, call
<1>3. Coherent'
  BY DEF Inv, Coherent, OrphanEnds, call
<1>4. Budget'
  <2>1. \A d \in Calls : Due(d)' = Due(d)
    BY DEF Inv, TypeOK, OrphanEnds, call, Due
  <2>2. QED
    BY <2>1 DEF Inv, Budget, OrphanEnds, history
<1>5. QED
  BY <1>1, <1>2, <1>3, <1>4 DEF Inv

LEMMA TakeTokenKeepsInv ==
  ASSUME Inv, NEW c \in Calls, TakeToken(c) PROVE Inv'
<1>1. TypeOK'
  BY AttemptsArePositive DEF Inv, TypeOK, TakeToken, gate
<1>2. ThreadsAccountedFor'
  BY DEF Inv, TypeOK, ThreadsAccountedFor, TakeToken, gate
<1>3. Coherent'
  BY DEF Inv, TypeOK, Coherent, Active, TakeToken
<1>4. Budget'
  <2> DEFINE paid == MaxAttempts * tokens[c]
             next == MaxAttempts * (tokens[c] + 1)
  <2>1. next = paid + MaxAttempts /\ paid \in Int
    BY AttemptsArePositive DEF Inv, TypeOK
  <2>2. sends[c] + Due(c) <= paid /\ Due(c) \in Nat /\ sends[c] \in Nat
    BY DueIsNatural DEF Inv, Budget
  <2>3. Due(c)' = MaxAttempts /\ sends'[c] = sends[c] /\ tokens'[c] = tokens[c] + 1
    BY AttemptsArePositive DEF Inv, TypeOK, TakeToken, Due
  <2> HIDE DEF paid, next
  <2>4. sends'[c] + Due(c)' <= next
    BY <2>1, <2>2, <2>3, AttemptsArePositive
  <2>5. \A d \in Calls \ {c} : /\ stage'[d] = stage[d] /\ thread'[d] = thread[d]
                               /\ tries'[d] = tries[d] /\ sends'[d] = sends[d]
                               /\ tokens'[d] = tokens[d]
    BY DEF Inv, TypeOK, TakeToken
  <2>6. sends'[c] + Due(c)' <= MaxAttempts * tokens'[c]
    BY <2>3, <2>4 DEF next
  <2>7. QED
    BY <2>5, <2>6, OthersStayPaid DEF Inv
<1>5. QED
  BY <1>1, <1>2, <1>3, <1>4 DEF Inv

\* What is due and what was sent changes sum to no more than it was.
LEMMA SumStaysPaid ==
  ASSUME Inv, NEW c \in Calls,
         \A d \in Calls \ {c} : /\ stage'[d] = stage[d] /\ thread'[d] = thread[d]
                                /\ tries'[d] = tries[d] /\ sends'[d] = sends[d],
         UNCHANGED tokens, sends'[c] + Due(c)' \in Int, sends'[c] + Due(c)' <= sends[c] + Due(c)
  PROVE  Budget'
<1> DEFINE paid == MaxAttempts * tokens[c]
<1>1. paid \in Int /\ sends[c] + Due(c) <= paid /\ sends[c] + Due(c) \in Int
  BY DueIsNatural, AttemptsArePositive, SMTT(30) DEF Inv, TypeOK, Budget
<1>2. tokens'[c] = tokens[c]
  OBVIOUS
<1> HIDE DEF paid
<1>3. sends'[c] + Due(c)' <= paid
  BY <1>1
<1>4. sends'[c] + Due(c)' <= MaxAttempts * tokens'[c]
  BY <1>2, <1>3 DEF paid
<1>5. \A d \in Calls \ {c} : /\ stage'[d] = stage[d] /\ thread'[d] = thread[d]
                             /\ tries'[d] = tries[d] /\ sends'[d] = sends[d]
                             /\ tokens'[d] = tokens[d]
  OBVIOUS
<1>6. QED
  BY <1>4, <1>5, OthersStayPaid DEF Inv

LEMMA SubmitThreadKeepsInv ==
  ASSUME Inv, NEW c \in Calls, SubmitThread(c) PROVE Inv'
<1>1. TypeOK'
  BY DEF Inv, TypeOK, SubmitThread, Gate!Enter, history
<1>2. ThreadsAccountedFor'
  BY DEF Inv, TypeOK, ThreadsAccountedFor, SubmitThread, Gate!Enter
<1>3. Coherent'
  BY DEF Inv, TypeOK, Coherent, Active, SubmitThread
<1>4. Budget'
  <2>1. Due(c)' = Due(c) /\ sends' = sends /\ tokens' = tokens
    BY DEF Inv, TypeOK, SubmitThread, Due, history
  <2>2. sends[c] + Due(c) \in Int
    BY DueIsNatural DEF Inv
  <2>3. QED
    BY <2>1, <2>2, SumStaysPaid DEF Inv, TypeOK, SubmitThread
<1>5. QED
  BY <1>1, <1>2, <1>3, <1>4 DEF Inv

LEMMA RunThreadKeepsInv ==
  ASSUME Inv, NEW c \in Calls, RunThread(c) PROVE Inv'
<1>1. TypeOK'
  BY DEF Inv, TypeOK, RunThread, gate, call
<1>2. ThreadsAccountedFor'
  BY DEF Inv, TypeOK, ThreadsAccountedFor, RunThread, gate, call
<1>3. Coherent'
  BY DEF Inv, Coherent, RunThread, call
<1>4. Budget'
  <2>1. stage[c] = "waiting" /\ thread[c] = "queued"
    BY DEF Inv, ThreadsAccountedFor, RunThread
  <2>2. Due(c) = MaxAttempts - tries[c] + 1 /\ Due(c)' = MaxAttempts - tries[c]
        /\ sends'[c] = sends[c] + 1
    BY <2>1 DEF Inv, TypeOK, RunThread, call, Due
  <2>3. sends[c] \in Nat /\ tries[c] \in Int /\ MaxAttempts \in Int
    BY AttemptsArePositive DEF Inv, TypeOK
  <2>4. sends'[c] + Due(c)' = sends[c] + Due(c) /\ sends[c] + Due(c) \in Int
    BY <2>2, <2>3
  <2>5. \A d \in Calls \ {c} : /\ stage'[d] = stage[d] /\ thread'[d] = thread[d]
                               /\ tries'[d] = tries[d] /\ sends'[d] = sends[d]
    BY DEF Inv, TypeOK, RunThread, call
  <2>6. sends'[c] + Due(c)' <= sends[c] + Due(c)
    BY <2>4
  <2>7. QED
    BY <2>4, <2>5, <2>6, SumStaysPaid DEF RunThread
<1>5. QED
  BY <1>1, <1>2, <1>3, <1>4 DEF Inv

LEMMA RetryKeepsInv ==
  ASSUME Inv, NEW c \in Calls, Retry(c) PROVE Inv'
<1>0. tries[c] < MaxAttempts /\ tries[c] \in Nat /\ MaxAttempts \in Nat
  BY AttemptsArePositive DEF Inv, TypeOK, Coherent, Retry
<1>1. TypeOK'
  BY <1>0 DEF Inv, TypeOK, Retry, gate, history
<1>2. ThreadsAccountedFor'
  BY DEF Inv, TypeOK, ThreadsAccountedFor, Retry, gate
<1>3. Coherent'
  BY DEF Inv, TypeOK, Coherent, Active, Retry
<1>4. Budget'
  <2>1. Due(c)' = Due(c) /\ sends' = sends /\ tokens' = tokens
    BY <1>0 DEF Inv, TypeOK, Retry, Due, history
  <2>2. sends[c] + Due(c) \in Int
    BY DueIsNatural DEF Inv
  <2>3. QED
    BY <2>1, <2>2, SumStaysPaid DEF Inv, TypeOK, Retry
<1>5. QED
  BY <1>1, <1>2, <1>3, <1>4 DEF Inv

LEMMA CancelKeepsInv ==
  ASSUME Inv, NEW c \in Calls, Cancel(c) PROVE Inv'
<1>1. TypeOK'
  BY DEF Inv, TypeOK, Cancel, Finish, history
<1>2. ThreadsAccountedFor'
  BY DEF Inv, TypeOK, ThreadsAccountedFor, Cancel, Finish
<1>3. Coherent'
  BY DEF Inv, TypeOK, Coherent, Active, Cancel, Finish
<1>4. Budget'
  <2>1. Due(c)' = 0 /\ sends' = sends /\ tokens' = tokens
    BY DEF Inv, TypeOK, Cancel, Finish, Due, history
  <2>2. sends[c] \in Nat /\ Due(c) \in Nat
    BY DueIsNatural DEF Inv
  <2>3. \A d \in Calls \ {c} : /\ stage'[d] = stage[d] /\ thread'[d] = thread[d]
                               /\ tries'[d] = tries[d] /\ sends'[d] = sends[d]
    BY <2>1 DEF Inv, TypeOK, Cancel, Finish
  <2>4. sends'[c] + Due(c)' \in Int /\ sends'[c] + Due(c)' <= sends[c] + Due(c)
    BY <2>1, <2>2
  <2>5. QED
    BY <2>1, <2>3, <2>4, SumStaysPaid
<1>5. QED
  BY <1>1, <1>2, <1>3, <1>4 DEF Inv

LEMMA InvStep == Inv /\ [Next]_vars => Inv'
<1> SUFFICES ASSUME Inv, [Next]_vars PROVE Inv'
  OBVIOUS
<1>1. ASSUME NEW c \in Calls, Start(c) PROVE Inv'
  BY <1>1, StartKeepsInv
<1>2. ASSUME NEW c \in Calls, NEW outcome \in Outcomes, HttpAnswers(c, outcome) PROVE Inv'
  BY <1>2, HttpAnswersKeepsInv
<1>3. ASSUME NEW c \in Calls, TakeToken(c) PROVE Inv'
  BY <1>3, TakeTokenKeepsInv
<1>4. ASSUME NEW c \in Calls, SubmitThread(c) PROVE Inv'
  BY <1>4, SubmitThreadKeepsInv
<1>5. ASSUME NEW c \in Calls, RunThread(c) PROVE Inv'
  BY <1>5, RunThreadKeepsInv
<1>6. ASSUME NEW c \in Calls, ThreadEnds(c) PROVE Inv'
  BY <1>6, ThreadFailsKeepsInv, ThreadSucceedsKeepsInv, OrphanEndsKeepsInv DEF ThreadEnds
<1>7. ASSUME NEW c \in Calls, Retry(c) PROVE Inv'
  BY <1>7, RetryKeepsInv
<1>8. ASSUME NEW c \in Calls, Cancel(c) PROVE Inv'
  BY <1>8, CancelKeepsInv
<1>9. CASE UNCHANGED vars
  <2>1. TypeOK' /\ ThreadsAccountedFor' /\ Coherent'
    BY <1>9 DEF Inv, TypeOK, ThreadsAccountedFor, Coherent, vars, gate, call, history
  <2>2. \A c \in Calls : Due(c)' = Due(c)
    BY <1>9 DEF Due, vars, call
  <2>3. Budget'
    BY <1>9, <2>2 DEF Inv, Budget, vars, history
  <2>4. QED
    BY <2>1, <2>3 DEF Inv
<1>10. QED
  BY <1>1, <1>2, <1>3, <1>4, <1>5, <1>6, <1>7, <1>8, <1>9 DEF Next

\* The inductive invariant: what the properties below rest on.
LEMMA SpecKeepsInv == Spec => []Inv
BY InvInit, InvStep, PTL DEF Spec

\* Types of the loop variables of a call, its threads and its history.
THEOREM TypeCorrect == Spec => []TypeOK
<1>1. Inv => TypeOK
  BY DEF Inv
<1>2. QED
  BY <1>1, SpecKeepsInv, PTL

\* Yahoo's slots are held by the calls that wait for a thread, and a thread nobody
\* waits for is that of a cancelled call, however many callers and workers there are.
THEOREM ThreadsAreAccountedFor == Spec => []ThreadsAccountedFor
<1>1. Inv => ThreadsAccountedFor
  BY DEF Inv
<1>2. QED
  BY <1>1, SpecKeepsInv, PTL

\* A call never runs more threads than the attempts its tokens pay for: a thread is
\* paid for in advance by the token of the request it belongs to.
THEOREM TokensPay == Spec => []TokensPayRetries
<1>1. Inv => TokensPayRetries
  <2> SUFFICES ASSUME Inv, NEW c \in Calls PROVE sends[c] <= MaxAttempts * tokens[c]
    BY DEF TokensPayRetries
  <2> DEFINE paid == MaxAttempts * tokens[c]
  <2>1. sends[c] \in Nat /\ Due(c) \in Nat /\ sends[c] + Due(c) <= paid
    BY DueIsNatural DEF Inv, Budget
  <2>2. paid \in Int
    BY AttemptsArePositive DEF Inv, TypeOK
  <2> HIDE DEF paid
  <2>3. sends[c] <= paid
    BY <2>1, <2>2
  <2>4. QED
    BY <2>3 DEF paid
<1>2. QED
  BY <1>1, SpecKeepsInv, PTL

-----------------------------------------------------------------------------
\* What a step never does

\* Every step of the loop of a call.
Looping(c) ==
  Start(c) \/ (\E outcome : HttpAnswers(c, outcome)) \/ ThreadFails(c)
    \/ (\E outcome : ThreadSucceeds(c, outcome))

\* Every step besides it and a cancellation.
Underneath(c) == TakeToken(c) \/ SubmitThread(c) \/ RunThread(c) \/ OrphanEnds(c) \/ Retry(c)

LEMMA NextIsSplit ==
  ASSUME Next PROVE \E c \in Calls : Looping(c) \/ Underneath(c) \/ Cancel(c)
BY DEF Next, ThreadEnds, Looping, Underneath

LEMMA LoopingPasses ==
  ASSUME Inv, NEW c \in Calls, Looping(c)
  PROVE  /\ stage[c] # "done"
         /\ Passes(c) \/ BacksOff(c)
         /\ UNCHANGED <<plan, tokens, sends>>
<1>1. CASE Start(c)
  <2>1. stage[c] = "idle" /\ at[c] = 0 /\ Len(plan) \in Nat
    BY <1>1, PlansHaveLengths DEF Inv, Start, Coherent
  <2>2. QED
    BY <1>1, <2>1, TryNextPasses DEF Inv, Start, history
<1>2. CASE \E outcome : HttpAnswers(c, outcome)
  BY <1>2, ProceedPasses DEF Inv, HttpAnswers, Active, history
<1>3. CASE ThreadFails(c)
  BY <1>3, RetryOrRaisePasses DEF Inv, ThreadFails, Active, history
<1>4. CASE \E outcome : ThreadSucceeds(c, outcome)
  BY <1>4, RetryOrRaisePasses, ProceedPasses DEF Inv, ThreadSucceeds, Active, history
<1>5. QED
  BY <1>1, <1>2, <1>3, <1>4 DEF Looping

LEMMA UnderneathKeepsCalls ==
  ASSUME Inv, NEW c \in Calls, Underneath(c)
  PROVE  UNCHANGED <<plan, at, result, raised>>
BY DEF Underneath, TakeToken, SubmitThread, RunThread, OrphanEnds, Retry, call

\* A call that has ended gets nothing more and stays as it is, whichever call moves:
\* its thread, if one runs on, can only end.
THEOREM EndsAreFinal == Spec => EndIsFinal
<1> DEFINE Fixed(c) == /\ sends'[c] = sends[c] /\ tokens'[c] = tokens[c]
                       /\ result'[c] = result[c] /\ raised'[c] = raised[c]
<1>1. Inv /\ [Next]_vars => \A c \in Calls : stage[c] = "done" => Fixed(c)
  <2> SUFFICES ASSUME Inv, Next, NEW c \in Calls, stage[c] = "done" PROVE Fixed(c)
    BY DEF vars, call, history
  <2>1. PICK d \in Calls : Looping(d) \/ Underneath(d) \/ Cancel(d)
    BY NextIsSplit
  <2>2. CASE Looping(d)
    <3>1. /\ stage[d] # "done"
          /\ Passes(d) \/ BacksOff(d)
          /\ UNCHANGED <<plan, tokens, sends>>
      BY <2>2, LoopingPasses
    <3>2. result'[c] = result[c] /\ raised'[c] = raised[c]
      BY <3>1, PassesKeepCalls DEF Inv, BacksOff
    <3>3. QED
      BY <3>1, <3>2
  <2>3. CASE Underneath(d)
    <3>1. d = c => ~TakeToken(d) /\ ~SubmitThread(d) /\ ~Retry(d) /\ ~RunThread(d)
      BY DEF Inv, ThreadsAccountedFor, TakeToken, SubmitThread, Retry, RunThread
    <3>2. sends'[c] = sends[c] /\ tokens'[c] = tokens[c]
      BY <2>3, <3>1 DEF Inv, TypeOK, Underneath, TakeToken, SubmitThread, Retry, RunThread,
                        OrphanEnds, history
    <3>3. QED
      BY <2>3, <3>2, UnderneathKeepsCalls
  <2>4. CASE Cancel(d)
    BY <2>4 DEF Inv, TypeOK, Cancel, Finish, history
  <2>5. QED
    BY <2>1, <2>2, <2>3, <2>4
<1>2. QED
  BY <1>1, SpecKeepsInv, PTL DEF Spec, EndIsFinal

-----------------------------------------------------------------------------
\* The abstract specification

VerdictOf(c) ==
  CASE result[c] = "none"              -> [kind |-> "pending", by |-> 0]
    [] result[c] \in {"data", "empty"} -> [kind |-> "answer", by |-> at[c]]
    [] OTHER                           -> [kind |-> result[c], by |-> 0]

Verdicts == [c \in Calls |-> VerdictOf(c)]

LEMMA PassesIsRouted ==
  ASSUME Inv, NEW c \in Calls, stage[c] # "done", Passes(c), UNCHANGED plan
  PROVE  Routed!FallBack(c) \/ Routed!AnswerFrom(c) \/ Routed!GiveUp(c)
<1>0. Len(plan) \in Nat /\ CallTypes
  BY PlansHaveLengths, TypesOfCalls DEF Inv
<1>1. PICK j \in 1..(Len(plan) + 1) : PassesTo(c, j)
  BY DEF Passes
<1>2. result[c] = "none" /\ raised[c] = 1..(at[c] - 1) /\ at[c] \in 0..(Len(plan) + 1)
  BY <1>0 DEF Inv, Coherent, CallTypes
<1>3. Routed!Open(c)
  BY <1>2 DEF Routed!Open
<1>4. Routed!RaisedUpTo(c, j - 1)
  BY <1>0, <1>1, <1>2 DEF PassesTo, Routed!RaisedUpTo
<1>5. \A d \in Calls \ {c} : VerdictOf(d)' = VerdictOf(d)
  BY PassesKeepCalls DEF Inv, VerdictOf
<1>6. CASE j = Len(plan) + 1 /\ Ends(c, "error")
  <2>1. VerdictOf(c)' = [kind |-> "error", by |-> 0]
    BY <1>0, <1>6 DEF Ends, VerdictOf, CallTypes
  <2>2. Verdicts' = [Verdicts EXCEPT ![c] = [kind |-> "error", by |-> 0]]
    BY <1>5, <2>1 DEF Verdicts
  <2>3. Routed!RaisedUpTo(c, Len(plan))
    BY <1>0, <1>4, <1>6
  <2>4. QED
    BY <1>3, <2>2, <2>3 DEF Routed!GiveUp, Routed!Verdict, Verdicts, VerdictOf
<1>7. CASE j \in 1..Len(plan) /\ (Ends(c, "data") \/ Ends(c, "empty"))
  <2>1. VerdictOf(c)' = [kind |-> "answer", by |-> j]
    BY <1>0, <1>1, <1>7 DEF Ends, PassesTo, VerdictOf, CallTypes
  <2>2. Verdicts' = [Verdicts EXCEPT ![c] = [kind |-> "answer", by |-> j]]
    BY <1>5, <2>1 DEF Verdicts
  <2>3. j - 1 \in 0..Len(plan) /\ j - 1 < Len(plan) /\ (j - 1) + 1 = j
    BY <1>0, <1>7
  <2>4. QED
    BY <1>3, <1>4, <2>2, <2>3 DEF Routed!AnswerFrom, Routed!Verdict, Verdicts, VerdictOf
<1>8. CASE j \in 1..Len(plan) /\ AsksOn(c)
  <2>1. VerdictOf(c)' = VerdictOf(c)
    BY <1>2, <1>8 DEF AsksOn, VerdictOf
  <2>2. Verdicts' = Verdicts
    BY <1>5, <2>1 DEF Verdicts
  <2>3. j - 1 \in 0..Len(plan) /\ j - 1 < Len(plan)
    BY <1>0, <1>8
  <2>4. QED
    BY <1>3, <1>4, <2>2, <2>3 DEF Routed!FallBack, Verdicts, VerdictOf
<1>9. QED
  BY <1>1, <1>6, <1>7, <1>8 DEF PassesTo

LEMMA CancelIsRouted ==
  ASSUME Inv, NEW c \in Calls, Cancel(c) PROVE Routed!Cancel(c)
<1>0. CallTypes
  BY TypesOfCalls DEF Inv
<1>1. result[c] = "none"
  BY <1>0 DEF Inv, Coherent, Cancel, CallTypes
<1>2. VerdictOf(c)' = [kind |-> "cancelled", by |-> 0]
  BY <1>0 DEF Cancel, Finish, VerdictOf, CallTypes
<1>3. \A d \in Calls \ {c} : VerdictOf(d)' = VerdictOf(d)
  BY <1>0 DEF Cancel, Finish, VerdictOf, CallTypes
<1>4. Verdicts' = [Verdicts EXCEPT ![c] = [kind |-> "cancelled", by |-> 0]]
  BY <1>2, <1>3 DEF Verdicts
<1>5. Routed!Open(c)
  BY <1>1 DEF Routed!Open
<1>6. QED
  BY <1>4, <1>5 DEF Cancel, Routed!Cancel, Routed!Verdict, Verdicts, VerdictOf

\* Whatever goes on in the loops, threads and gate underneath, every call keeps what
\* RoutedCall promises: candidates in order, the first answer, an error only at the end.
THEOREM RouteIsKept == Spec => RouteIsImplemented
<1>1. Init => Routed!Init
  <2> SUFFICES ASSUME Init PROVE Routed!Init
    OBVIOUS
  <2>1. Len(plan) \in Nat
    BY CallUnits DEF Init
  <2>2. QED
    BY <2>1 DEF Init, Routed!Init, Routed!Verdict
<1>2. Inv /\ [Next]_vars => [Routed!Next]_(Routed!vars)
  <2> SUFFICES ASSUME Inv, [Next]_vars PROVE Routed!Next \/ UNCHANGED Routed!vars
    OBVIOUS
  <2>1. UNCHANGED <<plan, at, result, raised>> => UNCHANGED Routed!vars
    BY DEF Routed!vars
  <2>2. ASSUME NEW c \in Calls, Looping(c) PROVE Routed!Next \/ UNCHANGED Routed!vars
    <3>1. CASE Passes(c)
      BY <2>2, <3>1, LoopingPasses, PassesIsRouted DEF Routed!Next
    <3>2. CASE BacksOff(c)
      BY <2>1, <2>2, <3>2, LoopingPasses DEF BacksOff
    <3>3. QED
      BY <2>2, <3>1, <3>2, LoopingPasses
  <2>3. ASSUME NEW c \in Calls, Underneath(c) PROVE UNCHANGED Routed!vars
    BY <2>1, <2>3, UnderneathKeepsCalls
  <2>4. ASSUME NEW c \in Calls, Cancel(c) PROVE Routed!Next
    BY <2>4, CancelIsRouted DEF Routed!Next
  <2>5. CASE UNCHANGED vars
    BY <2>1, <2>5 DEF vars, call
  <2>6. QED
    BY <2>2, <2>3, <2>4, <2>5, NextIsSplit
<1>3. QED
  BY <1>1, <1>2, SpecKeepsInv, PTL DEF Spec, RouteIsImplemented, Routed!Spec

-----------------------------------------------------------------------------
\* The gate

LEMMA StepIsGateStep == Inv /\ [Next]_vars => [Gate!Next]_<<rate, inside>>
<1> SUFFICES ASSUME Inv, Next PROVE Gate!Next \/ UNCHANGED <<rate, inside>>
  BY DEF vars, gate
<1>1. ASSUME NEW c \in Calls, SubmitThread(c) PROVE Gate!Next
  BY <1>1 DEF SubmitThread, Gate!Next
<1>2. ASSUME NEW c \in Calls, ThreadEnds(c) PROVE Gate!Next \/ UNCHANGED <<rate, inside>>
  BY <1>2 DEF ThreadEnds, ThreadFails, ThreadSucceeds, OrphanEnds, gate, Gate!Next
<1>3. ASSUME NEW c \in Calls, Cancel(c) PROVE Gate!Next \/ UNCHANGED <<rate, inside>>
  <2>1. inside' = inside \ {c} /\ rate' = rate /\ rate \in MinRate..HardCap
    BY <1>3 DEF Inv, TypeOK, Cancel
  <2>2. CASE c \in inside
    BY <2>1, <2>2 DEF Gate!Leave, Gate!Next
  <2>3. CASE c \notin inside
    BY <2>1, <2>3
  <2>4. QED
    BY <2>2, <2>3
<1>4. ASSUME NEW c \in Calls,
             Start(c) \/ (\E outcome \in Outcomes : HttpAnswers(c, outcome))
               \/ TakeToken(c) \/ RunThread(c) \/ Retry(c)
      PROVE  UNCHANGED <<rate, inside>>
  BY <1>4 DEF Start, HttpAnswers, TakeToken, RunThread, Retry, gate
<1>5. QED
  BY <1>1, <1>2, <1>3, <1>4 DEF Next

\* Yahoo's calls keep to the rules of the gate that DynamicConcurrency implements: its
\* own retry loop enters and leaves it as the HTTP client's does, threads or not.
THEOREM GateIsKept == Spec => Gate!Spec
<1>1. Init => Gate!Init
  BY DEF Init
<1>2. QED
  BY <1>1, StepIsGateStep, SpecKeepsInv, PTL DEF Spec, Gate!Spec

-----------------------------------------------------------------------------
\* What a call costs

\* The tokens its method has still to take.
Owed(c) ==
  IF stage[c] = "metering" THEN left[c]
  ELSE IF stage[c] \in {"gated", "waiting", "backoff"} THEN left[c] - 1 ELSE 0

\* The candidates whose turn it has been.
Tried(c) == IF at[c] <= Len(plan) THEN at[c] ELSE Len(plan)

Metered(c) ==
  /\ stage[c] \in Active => left[c] \in 1..MaxAsks
  /\ tokens[c] + Owed(c) <= MaxAsks * Tried(c)

Costs == \A c \in Calls : Metered(c)

\* What every call costs at most: each candidate its requests, each of Yahoo's requests
\* a token, and each token the attempts it pays for.
CallsAreAffordable == \A c \in Calls :
  /\ tokens[c] <= MaxAsks * Len(plan)
  /\ sends[c] <= MaxAttempts * (MaxAsks * Len(plan))

\* The loop of a call, looked at for what it will ask: its end, a candidate with all its
\* requests, the next request of the same one, or the next attempt.
EndsAt(c, j) == at[c] <= j /\ stage'[c] = "done" /\ at'[c] = j

AsksAfresh(c, j) ==
  /\ at[c] < j /\ j <= Len(plan) /\ at'[c] = j
  /\ stage'[c] \in {"metering", "asking"} /\ left'[c] \in 1..MaxAsks

AsksAgain(c) ==
  /\ at'[c] = at[c] /\ left[c] > 1 /\ left'[c] = left[c] - 1
  /\ stage'[c] = IF stage[c] = "asking" THEN "asking" ELSE "metering"

WaitsAgain(c) == stage'[c] = "backoff" /\ at'[c] = at[c] /\ left'[c] = left[c]

MovesOn(c) == \E j \in 1..(Len(plan) + 1) : EndsAt(c, j) \/ AsksAfresh(c, j)

Spends(c) ==
  \/ MovesOn(c)
  \/ stage[c] \in {"asking", "waiting"} /\ AsksAgain(c)
  \/ stage[c] = "waiting" /\ WaitsAgain(c)

LEMMA ProductsGrow ==
  ASSUME NEW m \in Nat, NEW a \in Nat, NEW b \in Nat, a <= b
  PROVE  /\ m * a \in Nat /\ m * b \in Nat /\ m * (a + 1) \in Nat
         /\ m * a <= m * b /\ m * (a + 1) = m * a + m
<1> DEFINE d == b - a
<1>1. d \in Nat /\ b = a + d
  OBVIOUS
<1> HIDE DEF d
<1>2. m * d \in Nat /\ m * a \in Nat /\ m * (a + d) = m * a + m * d /\ m * (a + 1) = m * a + m
  BY <1>1
<1>3. m * a <= m * a + m * d
  <2> DEFINE x == m * a
             y == m * d
  <2>1. x \in Nat /\ y \in Nat
    BY <1>2
  <2> HIDE DEF x, y
  <2>2. x <= x + y
    BY <2>1
  <2>3. QED
    BY <2>2 DEF x, y
<1>4. QED
  BY <1>1, <1>2, <1>3

LEMMA TryNextMovesOn ==
  ASSUME TypeOK, Coherent, NEW c \in Calls, at[c] \in 0..Len(plan), TryNext(c, at[c])
  PROVE  MovesOn(c)
<1>0. Len(plan) \in Nat
  BY PlansHaveLengths
<1>1. PICK j \in (at[c] + 1)..(Len(plan) + 1) :
        /\ at' = [at EXCEPT ![c] = j]
        /\ \/ j = Len(plan) + 1 /\ Finish(c, "error")
           \/ /\ j <= Len(plan)
              /\ Hit(c, plan[j]) \/ Ask(c, plan[j]) \/ AnswerUnasked(c, plan[j])
  BY DEF TryNext
<1>2. j \in 1..(Len(plan) + 1) /\ at[c] < j /\ at[c] <= j /\ at'[c] = j
  BY <1>0, <1>1 DEF TypeOK
<1>3. CASE Finish(c, "error") \/ Hit(c, plan[j]) \/ AnswerUnasked(c, plan[j])
  <2>1. stage'[c] = "done"
    BY <1>3 DEF Hit, AnswerUnasked, Finish, TypeOK
  <2>2. EndsAt(c, j)
    BY <1>2, <2>1 DEF EndsAt
  <2>3. QED
    BY <1>2, <2>2 DEF MovesOn
<1>4. CASE j <= Len(plan) /\ Ask(c, plan[j])
  <2>1. j \in 1..Len(plan)
    BY <1>0, <1>2, <1>4
  <2>2. PICK n \in RequestsOf(plan[j]) \ {0} :
          /\ stage' = [stage EXCEPT ![c] = IF plan[j].via = "threads" THEN "metering" ELSE "asking"]
          /\ left' = [left EXCEPT ![c] = n]
    BY <1>4 DEF Ask
  <2>3. n \in 1..MaxAsks
    BY <2>1, <2>2, MethodUnits, CallUnits, SMTT(30) DEF RequestsOf, TypeOK
  <2>4. AsksAfresh(c, j)
    BY <1>2, <1>4, <2>2, <2>3 DEF AsksAfresh, TypeOK
  <2>5. QED
    BY <1>2, <2>4 DEF MovesOn
<1>5. QED
  BY <1>1, <1>3, <1>4

LEMMA SettleMovesOn ==
  ASSUME TypeOK, Coherent, NEW c \in Calls, stage[c] \in Active, NEW outcome, Settle(c, outcome)
  PROVE  MovesOn(c)
<1>1. Len(plan) \in Nat /\ at[c] \in 1..Len(plan)
  BY PlansHaveLengths DEF Coherent
<1>2. CASE Answer(plan[at[c]], outcome) = "error"
  BY <1>1, <1>2, TryNextMovesOn DEF Settle
<1>3. CASE Answer(plan[at[c]], outcome) # "error"
  <2>1. stage'[c] = "done" /\ at'[c] = at[c] /\ at[c] <= at[c] /\ at[c] \in 1..(Len(plan) + 1)
    BY <1>1, <1>3 DEF Settle, Finish, TypeOK
  <2>2. EndsAt(c, at[c])
    BY <2>1 DEF EndsAt
  <2>3. QED
    BY <2>1, <2>2 DEF MovesOn
<1>4. QED
  BY <1>2, <1>3

LEMMA ProceedSpends ==
  ASSUME TypeOK, Coherent, NEW c \in Calls, stage[c] \in {"asking", "waiting"}, NEW outcome,
         Proceed(c, outcome)
  PROVE  Spends(c)
<1>1. CASE Settle(c, outcome)
  BY <1>1, SettleMovesOn DEF Spends, Active
<1>2. CASE ~Settle(c, outcome)
  <2>1. /\ left[c] > 1
        /\ left' = [left EXCEPT ![c] = @ - 1]
        /\ stage' = [stage EXCEPT ![c] = IF @ = "asking" THEN @ ELSE "metering"]
        /\ UNCHANGED at
    BY <1>2 DEF Proceed
  <2>2. AsksAgain(c)
    BY <2>1 DEF AsksAgain, TypeOK
  <2>3. QED
    BY <2>2 DEF Spends
<1>3. QED
  BY <1>1, <1>2

LEMMA RetryOrRaiseSpends ==
  ASSUME TypeOK, Coherent, NEW c \in Calls, stage[c] = "waiting", RetryOrRaise(c)
  PROVE  Spends(c)
<1>1. CASE tries[c] < MaxAttempts
  <2>1. WaitsAgain(c)
    BY <1>1 DEF RetryOrRaise, WaitsAgain, TypeOK
  <2>2. QED
    BY <2>1 DEF Spends
<1>2. CASE ~(tries[c] < MaxAttempts)
  BY <1>2, SettleMovesOn DEF RetryOrRaise, Spends, Active
<1>3. QED
  BY <1>1, <1>2

\* What a call may still spend does not grow but with the next candidate.
LEMMA SpendsStaysMetered ==
  ASSUME Inv, TypeOK', NEW c \in Calls, Metered(c), Spends(c), UNCHANGED <<plan, tokens>>
  PROVE  Metered(c)'
<1> DEFINE n    == Len(plan)
           spent == tokens[c]
           debt == MaxAsks * Tried(c)
           next == MaxAsks * Tried(c)'
<1>1. /\ n \in Nat /\ spent \in Nat /\ MaxAsks \in Nat /\ at[c] \in 0..(n + 1) /\ at'[c] \in 0..(n + 1)
      /\ Tried(c) \in Nat /\ Tried(c)' \in Nat /\ Owed(c) \in Nat
  <2>1. n \in Nat /\ spent \in Nat /\ MaxAsks \in Nat /\ at[c] \in 0..(n + 1) /\ at'[c] \in 0..(n + 1)
        /\ left[c] \in Nat
    BY PlansHaveLengths, CallUnits DEF Inv, TypeOK
  <2>2. Owed(c) \in Nat
    BY <2>1 DEF Metered, Owed, Active
  <2>3. QED
    BY <2>1, <2>2 DEF Tried
<1>2. spent + Owed(c) <= debt
  BY DEF Metered
<1>3. tokens'[c] = spent
  OBVIOUS
<1> HIDE DEF n, spent
<1>4. CASE \E j \in 1..(Len(plan) + 1) : EndsAt(c, j)
  <2>1. Tried(c) <= Tried(c)' /\ Owed(c)' = 0 /\ stage'[c] = "done"
    BY <1>1, <1>4 DEF EndsAt, Tried, Owed, n
  <2>2. debt <= next /\ debt \in Nat /\ next \in Nat
    BY <1>1, <2>1, ProductsGrow
  <2> HIDE DEF debt, next
  <2>3. spent + 0 <= next
    BY <1>1, <1>2, <2>2
  <2>4. QED
    BY <1>3, <2>1, <2>3 DEF Metered, Active, next
<1>5. CASE \E j \in 1..(Len(plan) + 1) : AsksAfresh(c, j)
  <2>1. /\ Tried(c) + 1 <= Tried(c)' /\ left'[c] \in 1..MaxAsks
        /\ Owed(c)' \in 0..MaxAsks
    BY <1>1, <1>5 DEF AsksAfresh, Tried, Owed, n
  <2>2. /\ MaxAsks * (Tried(c) + 1) <= next /\ MaxAsks * (Tried(c) + 1) \in Nat /\ next \in Nat
        /\ MaxAsks * (Tried(c) + 1) = debt + MaxAsks /\ debt \in Nat
    <3>1. Tried(c) + 1 \in Nat /\ Tried(c) <= Tried(c)
      BY <1>1
    <3>2. MaxAsks * (Tried(c) + 1) <= next /\ MaxAsks * (Tried(c) + 1) \in Nat /\ next \in Nat
      BY <1>1, <2>1, <3>1, ProductsGrow
    <3>3. MaxAsks * (Tried(c) + 1) = debt + MaxAsks /\ debt \in Nat
      BY <1>1, <3>1, ProductsGrow
    <3>4. QED
      BY <3>2, <3>3
  <2> HIDE DEF debt, next
  <2>3. debt + MaxAsks <= next
    BY <2>2
  <2>4. spent + Owed(c)' <= next
    BY <1>1, <1>2, <2>1, <2>2, <2>3
  <2>5. QED
    BY <1>3, <2>1, <2>4 DEF Metered, next
<1>6. CASE (stage[c] \in {"asking", "waiting"} /\ AsksAgain(c)) \/ (stage[c] = "waiting" /\ WaitsAgain(c))
  <2>1. stage[c] \in {"asking", "waiting"} /\ left[c] \in 1..MaxAsks
    BY <1>6 DEF Metered, Active
  <2>2. Owed(c)' = Owed(c) /\ left'[c] \in 1..MaxAsks /\ Tried(c)' = Tried(c)
    BY <1>1, <1>6, <2>1 DEF AsksAgain, WaitsAgain, Owed, Tried
  <2>3. QED
    BY <1>2, <1>3, <2>2 DEF Metered, spent
<1>7. QED
  <2>1. CASE MovesOn(c)
    BY <1>4, <1>5, <2>1 DEF MovesOn
  <2>2. QED
    BY <1>6, <2>1 DEF Spends

LEMMA LoopingSpends ==
  ASSUME Inv, NEW c \in Calls, Looping(c) PROVE Spends(c)
<1>1. CASE Start(c)
  <2>1. at[c] = 0 /\ Len(plan) \in Nat
    BY <1>1, PlansHaveLengths DEF Inv, Start, Coherent
  <2>2. QED
    BY <1>1, <2>1, TryNextMovesOn DEF Inv, Start, Spends
<1>2. CASE \E outcome : HttpAnswers(c, outcome)
  BY <1>2, ProceedSpends DEF Inv, HttpAnswers
<1>3. CASE ThreadFails(c)
  BY <1>3, RetryOrRaiseSpends DEF Inv, ThreadFails
<1>4. CASE \E outcome : ThreadSucceeds(c, outcome)
  BY <1>4, RetryOrRaiseSpends, ProceedSpends DEF Inv, ThreadSucceeds
<1>5. QED
  BY <1>1, <1>2, <1>3, <1>4 DEF Looping

\* What lies under the loop turns a request owed into a token taken, and no more.
LEMMA UnderneathStaysMetered ==
  ASSUME Inv, NEW c \in Calls, Metered(c), Underneath(c) PROVE Metered(c)'
<1>0. tokens[c] \in Nat /\ left[c] \in Nat /\ UNCHANGED <<plan, at, left>>
  BY DEF Inv, TypeOK, Underneath, TakeToken, SubmitThread, RunThread, OrphanEnds, Retry, call
<1>1. Tried(c)' = Tried(c)
  BY <1>0 DEF Tried
<1>2. CASE TakeToken(c)
  <2>1. stage[c] = "metering" /\ stage'[c] = "gated" /\ tokens'[c] = tokens[c] + 1
    BY <1>2 DEF Inv, TypeOK, TakeToken
  <2>2. Owed(c) = left[c] /\ Owed(c)' = left[c] - 1
    BY <1>0, <2>1 DEF Owed
  <2>3. tokens'[c] + Owed(c)' = tokens[c] + Owed(c)
    BY <1>0, <2>1, <2>2
  <2>4. QED
    BY <1>0, <1>1, <2>1, <2>3 DEF Metered, Active
<1>3. CASE SubmitThread(c) \/ Retry(c)
  <2>1. /\ stage[c] \in {"gated", "backoff"} /\ stage'[c] \in {"waiting", "gated"}
        /\ tokens'[c] = tokens[c]
    BY <1>3 DEF Inv, TypeOK, SubmitThread, Retry, history
  <2>2. Owed(c)' = Owed(c)
    BY <1>0, <2>1 DEF Owed
  <2>3. QED
    BY <1>0, <1>1, <2>1, <2>2 DEF Metered, Active
<1>4. CASE RunThread(c) \/ OrphanEnds(c)
  <2>1. UNCHANGED <<stage, tokens>>
    BY <1>4 DEF RunThread, OrphanEnds, call, history
  <2>2. Owed(c)' = Owed(c)
    BY <1>0, <2>1 DEF Owed
  <2>3. QED
    BY <1>0, <1>1, <2>1, <2>2 DEF Metered
<1>5. QED
  BY <1>2, <1>3, <1>4 DEF Underneath

LEMMA CancelStaysMetered ==
  ASSUME Inv, NEW c \in Calls, Metered(c), Cancel(c) PROVE Metered(c)'
<1>1. stage'[c] = "done" /\ UNCHANGED <<plan, at, tokens>>
  BY DEF Inv, TypeOK, Cancel, Finish, history
<1>2. Owed(c) \in Nat /\ Owed(c)' = 0 /\ tokens[c] \in Nat
  BY <1>1 DEF Inv, TypeOK, Metered, Owed, Active
<1>3. Tried(c)' = Tried(c)
  BY <1>1 DEF Tried
<1> DEFINE debt == MaxAsks * Tried(c)
<1>4. tokens[c] + Owed(c) <= debt /\ debt \in Int
  BY PlansHaveLengths, CallUnits DEF Inv, TypeOK, Metered, Tried
<1> HIDE DEF debt
<1>5. tokens[c] + 0 <= debt
  BY <1>2, <1>4
<1>6. QED
  BY <1>1, <1>2, <1>3, <1>5 DEF Metered, Active, debt

\* The loop variables of the calls that do not move.
LEMMA OthersDoNotSpend ==
  ASSUME Inv, NEW c \in Calls, Looping(c) \/ Underneath(c) \/ Cancel(c)
  PROVE  \A d \in Calls \ {c} : /\ stage'[d] = stage[d] /\ at'[d] = at[d]
                                 /\ left'[d] = left[d] /\ tokens'[d] = tokens[d]
<1>1. CASE Looping(c)
  <2>1. /\ stage[c] # "done" /\ UNCHANGED <<plan, tokens>>
        /\ Passes(c) \/ BacksOff(c)
    BY <1>1, LoopingPasses
  <2>2. CASE Passes(c)
    BY <2>1, <2>2 DEF Inv, TypeOK, Passes, PassesTo, Ends, AsksOn
  <2>3. CASE BacksOff(c)
    BY <2>1, <2>3 DEF Inv, TypeOK, BacksOff
  <2>4. QED
    BY <2>1, <2>2, <2>3
<1>2. CASE Underneath(c)
  BY <1>2 DEF Inv, TypeOK, Underneath, TakeToken, SubmitThread, RunThread, OrphanEnds, Retry,
              call, history
<1>3. CASE Cancel(c)
  BY <1>3 DEF Inv, TypeOK, Cancel, Finish, history
<1>4. QED
  BY <1>1, <1>2, <1>3

LEMMA CostsInit == Init => Costs
<1> SUFFICES ASSUME Init, NEW c \in Calls PROVE Metered(c)
  BY DEF Costs
<1>1. Len(plan) \in Nat /\ stage[c] = "idle" /\ at[c] = 0 /\ tokens[c] = 0
  BY CallUnits DEF Init
<1>2. Owed(c) = 0 /\ Tried(c) = 0 /\ MaxAsks * 0 = 0
  BY <1>1, CallUnits DEF Owed, Tried
<1>3. QED
  BY <1>1, <1>2 DEF Metered, Active

LEMMA CostsStep == Inv /\ Costs /\ [Next]_vars => Costs'
<1> SUFFICES ASSUME Inv, Costs, [Next]_vars, NEW d \in Calls PROVE Metered(d)'
  BY DEF Costs
<1>1. Metered(d) /\ TypeOK'
  BY InvStep DEF Costs, Inv
<1>2. ASSUME UNCHANGED <<plan, stage[d], at[d], left[d], tokens[d]>> PROVE Metered(d)'
  BY <1>1, <1>2 DEF Metered, Owed, Tried
<1>3. CASE UNCHANGED vars
  BY <1>2, <1>3 DEF vars, call, history
<1>4. ASSUME NEW c \in Calls, Looping(c) \/ Underneath(c) \/ Cancel(c) PROVE Metered(d)'
  <2>1. UNCHANGED plan
    BY <1>4, LoopingPasses, UnderneathKeepsCalls DEF Cancel
  <2>2. CASE d # c
    BY <1>2, <1>4, <2>1, <2>2, OthersDoNotSpend
  <2>3. CASE d = c
    <3>1. CASE Looping(c)
      BY <1>1, <2>3, <3>1, LoopingPasses, LoopingSpends, SpendsStaysMetered
    <3>2. CASE Underneath(c) \/ Cancel(c)
      BY <1>1, <2>3, <3>2, UnderneathStaysMetered, CancelStaysMetered
    <3>3. QED
      BY <1>4, <3>1, <3>2
  <2>4. QED
    BY <2>2, <2>3
<1>5. QED
  BY <1>3, <1>4, NextIsSplit

\* Nothing a call meets makes it cost more: neither fallbacks, retries, failed writes,
\* nor what the other calls do.  The bucket's share of a call is known beforehand.
THEOREM CallCostIsBounded == Spec => []CallsAreAffordable
<1>1. Inv /\ Costs => CallsAreAffordable
  <2> SUFFICES ASSUME Inv, Costs, NEW c \in Calls
               PROVE  /\ tokens[c] <= MaxAsks * Len(plan)
                      /\ sends[c] <= MaxAttempts * (MaxAsks * Len(plan))
    BY DEF CallsAreAffordable
  <2> DEFINE most  == MaxAsks * Len(plan)
             debt  == MaxAsks * Tried(c)
             spent == tokens[c]
             paid  == MaxAttempts * spent
             all   == MaxAttempts * most
  <2>1. /\ Len(plan) \in Nat /\ MaxAsks \in Nat /\ at[c] \in Nat /\ left[c] \in Nat
        /\ spent \in Nat /\ sends[c] \in Nat /\ MaxAttempts \in Nat
    BY PlansHaveLengths, CallUnits, AttemptsArePositive DEF Inv, TypeOK
  <2>2. Tried(c) \in Nat /\ Tried(c) <= Len(plan)
    BY <2>1 DEF Tried
  <2>3. Owed(c) \in Nat /\ spent + Owed(c) <= debt
    BY <2>1 DEF Costs, Metered, Owed, Active
  <2>4. debt \in Nat /\ most \in Nat /\ debt <= most
    BY <2>1, <2>2, ProductsGrow
  <2> HIDE DEF most, debt, spent
  <2>5. spent <= most
    BY <2>1, <2>3, <2>4
  <2>6. paid \in Nat /\ all \in Nat /\ paid <= all
    BY <2>1, <2>4, <2>5, ProductsGrow
  <2>7. sends[c] <= paid
    <3>1. Due(c) \in Nat /\ sends[c] + Due(c) <= paid
      BY DueIsNatural DEF Inv, Budget, spent
    <3> HIDE DEF paid
    <3>2. QED
      BY <2>1, <2>6, <3>1
  <2> HIDE DEF paid, all
  <2>8. sends[c] <= all
    BY <2>1, <2>6, <2>7
  <2>9. QED
    BY <2>5, <2>8 DEF most, spent, all
<1>2. QED
  BY <1>1, CostsInit, CostsStep, SpecKeepsInv, PTL DEF Spec

-----------------------------------------------------------------------------
\* Termination

\* The steps the present request of a call can still take.
StepsLeft(c) ==
  CASE stage[c] = "metering" -> 4 * MaxAttempts + 1
    [] stage[c] = "gated"    -> 4 * (MaxAttempts - tries[c]) + 4
    [] stage[c] = "waiting"  -> 4 * (MaxAttempts - tries[c]) + IF thread[c] = "queued" THEN 3 ELSE 2
    [] stage[c] = "backoff"  -> 4 * (MaxAttempts - tries[c]) + 1
    [] OTHER                 -> 0

\* It ends, or its orphan does; the next candidate, the next request, the next step.
GetsOn(c) ==
  \/ stage[c] # "done" /\ stage'[c] = "done"
  \/ stage[c] = "done" /\ stage'[c] = "done" /\ thread[c] = "running" /\ thread'[c] = "none"
  \/ at[c] < at'[c]
  \/ at[c] = at'[c] /\ left'[c] < left[c]
  \/ at[c] = at'[c] /\ left'[c] = left[c] /\ StepsLeft(c)' < StepsLeft(c)

Books(c) ==
  <<stage[c], at[c], left[c], tries[c], thread[c], result[c], raised[c], tokens[c], sends[c]>>

\* The three measures are bounded below, and none starts anew without bound.
Bounded(c) ==
  /\ at[c] \in 0..(Len(plan) + 1)
  /\ stage[c] \in Active => left[c] \in 1..MaxAsks
  /\ StepsLeft(c) \in 0..(4 * MaxAttempts + 4)

LEMMA StepsLeftIsNatural ==
  ASSUME Inv, NEW c \in Calls PROVE StepsLeft(c) \in 0..(4 * MaxAttempts + 4)
<1>1. MaxAttempts \in Nat /\ MaxAttempts >= 1 /\ tries[c] \in 0..MaxAttempts
  BY AttemptsArePositive DEF Inv, TypeOK
<1>3. CASE stage[c] \in {"waiting", "backoff", "gated"} /\ tries[c] >= 1
  BY <1>1, <1>3 DEF StepsLeft
<1>4. CASE stage[c] \in {"waiting", "backoff", "gated"} /\ tries[c] = 0
  BY <1>1, <1>4 DEF StepsLeft
<1>5. CASE stage[c] \notin {"waiting", "backoff", "gated"}
  BY <1>1, <1>5 DEF StepsLeft
<1>6. QED
  BY <1>1, <1>3, <1>4, <1>5

LEMMA LoopingGetsOn ==
  ASSUME Inv, NEW c \in Calls, Looping(c) PROVE GetsOn(c)
<1>1. Spends(c) /\ stage[c] # "done" /\ (Passes(c) \/ BacksOff(c)) /\ UNCHANGED plan
  BY LoopingSpends, LoopingPasses
<1>2. at[c] \in Nat /\ left[c] \in Nat /\ tries[c] \in 0..MaxAttempts /\ MaxAttempts \in Nat
  BY AttemptsArePositive DEF Inv, TypeOK
<1>3. CASE \E j \in 1..(Len(plan) + 1) : EndsAt(c, j)
  BY <1>1, <1>3 DEF EndsAt, GetsOn
<1>4. CASE \E j \in 1..(Len(plan) + 1) : AsksAfresh(c, j)
  BY <1>4 DEF AsksAfresh, GetsOn
<1>5. CASE AsksAgain(c)
  BY <1>2, <1>5 DEF AsksAgain, GetsOn
<1>6. CASE stage[c] = "waiting" /\ WaitsAgain(c)
  <2>1. tries'[c] = tries[c]
    BY <1>1, PassesKeepCalls DEF Inv, BacksOff
  <2>2. StepsLeft(c)' = 4 * (MaxAttempts - tries[c]) + 1
    BY <1>6, <2>1 DEF WaitsAgain, StepsLeft
  <2>3. StepsLeft(c) = 4 * (MaxAttempts - tries[c]) + IF thread[c] = "queued" THEN 3 ELSE 2
    BY <1>6 DEF StepsLeft
  <2>4. StepsLeft(c)' < StepsLeft(c)
    BY <1>2, <2>2, <2>3
  <2>5. QED
    BY <1>6, <2>4 DEF WaitsAgain, GetsOn
<1>7. QED
  BY <1>1, <1>3, <1>4, <1>5, <1>6 DEF Spends, MovesOn

LEMMA UnderneathGetsOn ==
  ASSUME Inv, NEW c \in Calls, Underneath(c) PROVE GetsOn(c)
<1>0. /\ tries[c] \in 0..MaxAttempts /\ MaxAttempts \in Nat /\ at'[c] = at[c] /\ left'[c] = left[c]
      /\ MaxAttempts >= 1
  BY AttemptsArePositive
     DEF Inv, TypeOK, Underneath, TakeToken, SubmitThread, RunThread, OrphanEnds, Retry, call
<1>1. CASE TakeToken(c)
  <2>1. stage[c] = "metering" /\ stage'[c] = "gated" /\ tries'[c] = 1
    BY <1>1 DEF Inv, TypeOK, TakeToken
  <2>2. StepsLeft(c)' < StepsLeft(c)
    BY <1>0, <2>1 DEF StepsLeft
  <2>3. QED
    BY <1>0, <2>2 DEF GetsOn
<1>2. CASE SubmitThread(c)
  <2>1. stage[c] = "gated" /\ stage'[c] = "waiting" /\ tries'[c] = tries[c] /\ thread'[c] = "queued"
    BY <1>2 DEF Inv, TypeOK, SubmitThread
  <2>2. StepsLeft(c)' < StepsLeft(c)
    BY <1>0, <2>1 DEF StepsLeft
  <2>3. QED
    BY <1>0, <2>2 DEF GetsOn
<1>3. CASE RunThread(c)
  <2>1. /\ stage[c] = "waiting" /\ stage'[c] = "waiting" /\ tries'[c] = tries[c]
        /\ thread[c] = "queued" /\ thread'[c] = "running"
    BY <1>3 DEF Inv, TypeOK, ThreadsAccountedFor, RunThread, call
  <2>2. StepsLeft(c)' < StepsLeft(c)
    BY <1>0, <2>1 DEF StepsLeft
  <2>3. QED
    BY <1>0, <2>2 DEF GetsOn
<1>4. CASE OrphanEnds(c)
  <2>1. result[c] = "cancelled"
    BY <1>4 DEF Inv, ThreadsAccountedFor, OrphanEnds
  <2>2. stage[c] = "done"
    BY <2>1 DEF Inv, Coherent
  <2>3. QED
    BY <1>4, <2>2 DEF Inv, TypeOK, OrphanEnds, call, GetsOn
<1>5. CASE Retry(c)
  <2>1. /\ stage[c] = "backoff" /\ stage'[c] = "gated" /\ tries'[c] = tries[c] + 1
    BY <1>5 DEF Inv, TypeOK, Retry
  <2>2. StepsLeft(c)' < StepsLeft(c)
    BY <1>0, <2>1 DEF StepsLeft
  <2>3. QED
    BY <1>0, <2>2 DEF GetsOn
<1>6. QED
  BY <1>1, <1>2, <1>3, <1>4, <1>5 DEF Underneath

\* No call goes on for ever, whatever its candidates answer and the others do: every step
\* it takes ends it, passes to the next candidate, to the method's next request, or uses
\* up a step of the present one.  With TLC's EveryCallEnds this is why it ends.
THEOREM CallsGetOn ==
  Spec => /\ [](\A c \in Calls : Bounded(c))
          /\ [][\A c \in Calls : UNCHANGED Books(c) \/ GetsOn(c)]_vars
<1>1. Inv /\ Costs => \A c \in Calls : Bounded(c)
  BY StepsLeftIsNatural DEF Inv, TypeOK, Costs, Metered, Bounded
<1>2. Inv /\ [Next]_vars => [\A c \in Calls : UNCHANGED Books(c) \/ GetsOn(c)]_vars
  <2> SUFFICES ASSUME Inv, Next, NEW c \in Calls PROVE UNCHANGED Books(c) \/ GetsOn(c)
    OBVIOUS
  <2>1. PICK d \in Calls : Looping(d) \/ Underneath(d) \/ Cancel(d)
    BY NextIsSplit
  <2>2. CASE d = c
    <3>1. CASE Looping(d) \/ Underneath(d)
      BY <2>2, <3>1, LoopingGetsOn, UnderneathGetsOn
    <3>2. CASE Cancel(d)
      BY <2>2, <3>2 DEF Inv, TypeOK, Cancel, Finish, GetsOn
    <3>3. QED
      BY <2>1, <3>1, <3>2
  <2>3. CASE d # c
    <3>1. CASE Looping(d)
      <4>1. /\ stage[d] # "done" /\ UNCHANGED <<plan, tokens, sends>> /\ (Passes(d) \/ BacksOff(d))
        BY <3>1, LoopingPasses
      <4>2. thread'[c] = thread[c]
        BY <2>3, <3>1 DEF Inv, TypeOK, Looping, Start, HttpAnswers, ThreadFails, ThreadSucceeds
      <4>3. left'[c] = left[c] /\ stage'[c] = stage[c] /\ at'[c] = at[c]
        BY <2>3, <3>1, OthersDoNotSpend
      <4>4. result'[c] = result[c] /\ raised'[c] = raised[c] /\ tries'[c] = tries[c]
        BY <2>3, <4>1, PassesKeepCalls DEF Inv, BacksOff
      <4>5. QED
        BY <4>1, <4>2, <4>3, <4>4 DEF Books
    <3>2. CASE Underneath(d)
      BY <2>3, <3>2 DEF Inv, TypeOK, Underneath, TakeToken, SubmitThread, RunThread, OrphanEnds,
                        Retry, call, history, Books
    <3>3. CASE Cancel(d)
      BY <2>3, <3>3 DEF Inv, TypeOK, Cancel, Finish, history, Books
    <3>4. QED
      BY <2>1, <3>1, <3>2, <3>3
  <2>4. QED
    BY <2>2, <2>3
<1>3. QED
  BY <1>1, <1>2, CostsInit, CostsStep, SpecKeepsInv, PTL DEF Spec

=============================================================================
