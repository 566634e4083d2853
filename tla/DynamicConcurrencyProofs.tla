---------------------- MODULE DynamicConcurrencyProofs ----------------------
(***************************************************************************)
(* For any number of tasks and any band of rates: the slot counter counts  *)
(* the tasks that hold a slot, no task sleeps while a slot is free, and    *)
(* the condition variable implements the abstract gate.                    *)
(***************************************************************************)
EXTENDS DynamicConcurrency, FiniteSetTheorems, SequenceTheorems, TLAPS

Holders == {t \in Tasks : Holding(t)}

\* Each sleeper is in the condition's queue once, so waking one never disturbs a
\* task that holds a slot.
Sleepers ==
  /\ \A i \in DOMAIN parked : pc[parked[i]] = "parked"
  /\ \A i, j \in DOMAIN parked : parked[i] = parked[j] => i = j

Inv == TypeOK /\ Sleepers /\ SlotAccounting /\ NoIdleSlot

LEMMA LimitIsPositive ==
  ASSUME rate \in MinRate..HardCap
  PROVE  DynamicLimit \in Nat /\ DynamicLimit >= 1
<1>1. rate \div RateUnit \in Int
  BY GateUnits
<1>2. QED
  BY <1>1 DEF DynamicLimit, Larger

LEMMA InvInit == Init => Inv
<1> SUFFICES ASSUME Init PROVE Inv
  OBVIOUS
<1>1. Holders = {}
  BY DEF Init, Holders, Holding
<1>2. QED
  BY <1>1, FS_EmptySet DEF Init, Inv, TypeOK, Sleepers, SlotAccounting, NoIdleSlot, Holders

\* A step that moves no task in or out of a slot leaves the counter right.
LEMMA SameHolders ==
  ASSUME SlotAccounting, UNCHANGED activeTasks,
         \A t \in Tasks : Holding(t)' <=> Holding(t)
  PROVE  SlotAccounting'
<1>1. {t \in Tasks : Holding(t)}' = {t \in Tasks : Holding(t)}
  OBVIOUS
<1>2. QED
  BY <1>1 DEF SlotAccounting

LEMMA EnterKeepsInv ==
  ASSUME Inv, NEW t \in Tasks, Enter(t) PROVE Inv'
<1>1. TypeOK'
  BY DEF Inv, TypeOK, Enter, Runs, NoLongerAhead
<1>2. Holders' = Holders \cup {t} /\ t \notin Holders
  BY DEF Inv, TypeOK, Enter, Holders, Holding
<1>3. SlotAccounting'
  <2>1. IsFiniteSet(Holders)
    BY GateUnits, FS_Subset DEF Holders
  <2>2. Cardinality(Holders') = Cardinality(Holders) + 1
    BY <1>2, <2>1, FS_AddElement
  <2>3. QED
    BY <2>2 DEF Inv, SlotAccounting, Enter, Holders
<1>4. NoIdleSlot'
  BY LimitIsPositive DEF Inv, TypeOK, NoIdleSlot, Enter, DynamicLimit
<1>5. Sleepers'
  BY DEF Inv, TypeOK, Sleepers, Enter
<1>6. QED
  BY <1>1, <1>3, <1>4, <1>5 DEF Inv

LEMMA FinishKeepsInv ==
  ASSUME Inv, NEW t \in Tasks, Finish(t) PROVE Inv'
<1>1. TypeOK'
  BY GateUnits DEF Inv, TypeOK, Finish, Release, Runs, Risen
<1>2. Holders' = Holders \ {t} /\ t \in Holders
  BY DEF Inv, TypeOK, Finish, Release, Holders, Holding
<1>3. SlotAccounting'
  <2>1. IsFiniteSet(Holders)
    BY GateUnits, FS_Subset DEF Holders
  <2>2. Cardinality(Holders') = Cardinality(Holders) - 1
    BY <1>2, <2>1, FS_RemoveElement
  <2>3. QED
    BY <2>2 DEF Inv, SlotAccounting, Finish, Release, Holders
<1>4. NoIdleSlot'
  BY DEF NoIdleSlot, Finish, Release
<1>5. Sleepers'
  BY DEF Sleepers, Finish, Release
<1>6. QED
  BY <1>1, <1>3, <1>4, <1>5 DEF Inv

LEMMA ParkKeepsInv ==
  ASSUME Inv, NEW t \in Tasks, Park(t) PROVE Inv'
<1>1. TypeOK'
  BY DEF Inv, TypeOK, Park, Runs
<1>2. SlotAccounting'
  BY SameHolders DEF Inv, TypeOK, Park, Holding
<1>3. NoIdleSlot'
  BY DEF NoIdleSlot, Park, DynamicLimit
<1>4. Sleepers'
  <2>1. /\ Len(parked') = Len(parked) + 1 /\ parked'[Len(parked) + 1] = t
        /\ \A i \in DOMAIN parked : parked'[i] = parked[i]
        /\ DOMAIN parked = 1..Len(parked) /\ DOMAIN parked' = 1..(Len(parked) + 1)
    BY DEF Inv, TypeOK, Park
  <2>2. pc[t] # "parked" /\ pc' = [pc EXCEPT ![t] = "parked"]
    BY DEF Park
  <2>3. \A i \in DOMAIN parked : parked[i] \in Tasks
    BY DEF Inv, TypeOK
  <2>4. QED
    BY <2>1, <2>2, <2>3 DEF Inv, TypeOK, Sleepers
<1>5. QED
  BY <1>1, <1>2, <1>3, <1>4 DEF Inv

\* A cancelled task leaves without a slot and wakes nobody ...
LEMMA LeaveAloneKeepsInv ==
  ASSUME Inv, NEW t \in Tasks, Runs(t), pc[t] \in {"arriving", "woken"},
         cancelled' = [cancelled EXCEPT ![t] = FALSE],
         pc' = [pc EXCEPT ![t] = "away"], ready' = Tail(ready),
         UNCHANGED <<rate, activeTasks, parked, ahead>>
  PROVE  Inv'
<1>1. TypeOK'
  BY DEF Inv, TypeOK, Runs
<1>2. SlotAccounting'
  BY SameHolders DEF Inv, TypeOK, Holding
<1>3. NoIdleSlot'
  BY DEF Inv, NoIdleSlot, DynamicLimit
<1>4. Sleepers'
  BY DEF Inv, TypeOK, Sleepers
<1>5. QED
  BY <1>1, <1>2, <1>3, <1>4 DEF Inv

\* ... or it wakes the first sleeper.
LEMMA HandOverKeepsInv ==
  ASSUME Inv, NEW t \in Tasks, Runs(t), pc[t] = "woken", parked # <<>>,
         cancelled' = [cancelled EXCEPT ![t] = FALSE],
         pc' = [pc EXCEPT ![t] = "away", ![Head(parked)] = "woken"],
         ready' = Append(Tail(ready), Head(parked)), parked' = Tail(parked),
         ahead' = [u \in Tasks |-> ahead[u] \ {Head(parked)}],
         UNCHANGED <<rate, activeTasks>>
  PROVE  Inv'
<1> DEFINE next == Head(parked)
<1>1. /\ next \in Tasks /\ next = parked[1] /\ 1 \in DOMAIN parked
      /\ Tail(parked) \in Seq(Tasks)
      /\ DOMAIN Tail(parked) = 1..(Len(parked) - 1) /\ DOMAIN parked = 1..Len(parked)
      /\ \A i \in DOMAIN Tail(parked) : Tail(parked)[i] = parked[i + 1]
  BY DEF Inv, TypeOK
<1>2. pc[next] = "parked" /\ next # t
  BY <1>1 DEF Inv, Sleepers
<1> HIDE DEF next
<1>3. pc' = [pc EXCEPT ![t] = "away", ![next] = "woken"] /\ ready' = Append(Tail(ready), next)
  BY DEF next
<1>4. TypeOK'
  <2>1. ready' \in Seq(Tasks)
    BY <1>1, <1>3 DEF Inv, TypeOK, Runs
  <2>2. ahead' \in [Tasks -> SUBSET Tasks]
    BY DEF Inv, TypeOK
  <2>3. QED
    BY <1>1, <1>3, <2>1, <2>2 DEF Inv, TypeOK
<1>5. SlotAccounting'
  <2>1. ASSUME NEW u \in Tasks PROVE Holding(u)' <=> Holding(u)
    BY <1>1, <1>2, <1>3 DEF Inv, TypeOK, Holding
  <2>2. QED
    BY <2>1, SameHolders DEF Inv
<1>6. NoIdleSlot'
  BY DEF Inv, NoIdleSlot, DynamicLimit
<1>7. Sleepers'
  <2>1. ASSUME NEW i \in 1..(Len(parked) - 1)
        PROVE  parked[i + 1] # next /\ parked[i + 1] # t
    <3>1. i + 1 \in DOMAIN parked /\ i + 1 # 1
      BY <1>1 DEF Inv, TypeOK
    <3>2. parked[i + 1] # parked[1] /\ pc[parked[i + 1]] = "parked"
      BY <1>1, <3>1 DEF Inv, Sleepers
    <3>3. QED
      BY <1>1, <3>2
  <2>2. QED
    BY <1>1, <1>3, <2>1, SMTT(30) DEF Inv, TypeOK, Sleepers
<1>8. QED
  BY <1>4, <1>5, <1>6, <1>7 DEF Inv

LEMMA ScheduleKeepsInv ==
  ASSUME Inv, NEW t \in Tasks, Arrive(t) \/ Respond(t) PROVE Inv'
<1>1. TypeOK'
  <2>1. ready' = Append(ready, t) /\ ready' \in Seq(Tasks)
    <3>1. ready \in Seq(Tasks) /\ Append(ready, t) \in Seq(Tasks)
      BY AppendProperties DEF Inv, TypeOK
    <3>2. QED
      BY <3>1 DEF Arrive, Respond
  <2>2. pc' \in [Tasks -> {"away", "arriving", "parked", "woken", "inside", "returning"}]
    BY DEF Inv, TypeOK, Arrive, Respond
  <2>3. UNCHANGED <<rate, activeTasks, cancelled, parked, ahead>>
    BY DEF Arrive, Respond
  <2>4. QED
    BY <2>1, <2>2, <2>3 DEF Inv, TypeOK
<1>2. SlotAccounting'
  BY SameHolders DEF Inv, TypeOK, Arrive, Respond, Holding
<1>3. NoIdleSlot'
  BY DEF Inv, NoIdleSlot, Arrive, Respond, DynamicLimit
<1>4. Sleepers'
  BY DEF Inv, TypeOK, Sleepers, Arrive, Respond
<1>5. QED
  BY <1>1, <1>2, <1>3, <1>4 DEF Inv

\* The condition's queue without the task at position i.
LEMMA RemovedAt ==
  ASSUME TypeOK, NEW i \in DOMAIN parked,
         parked' = SubSeq(parked, 1, i - 1) \o SubSeq(parked, i + 1, Len(parked))
  PROVE  /\ DOMAIN parked = 1..Len(parked) /\ Len(parked) \in Nat
         /\ parked' \in Seq(Tasks) /\ DOMAIN parked' = 1..(Len(parked) - 1)
         /\ \A k \in DOMAIN parked' : parked'[k] = parked[IF k < i THEN k ELSE k + 1]
<1> DEFINE front == SubSeq(parked, 1, i - 1)
           back == SubSeq(parked, i + 1, Len(parked))
<1>1. parked \in Seq(Tasks) /\ Len(parked) \in Nat /\ DOMAIN parked = 1..Len(parked)
      /\ i \in 1..Len(parked)
  BY DEF TypeOK
<1>2. front \in Seq(Tasks) /\ Len(front) = i - 1
      /\ \A k \in 1..(i - 1) : front[k] = parked[k]
  BY <1>1, SubSeqProperties
<1>3. back \in Seq(Tasks) /\ Len(back) = Len(parked) - i
      /\ \A k \in 1..(Len(parked) - i) : back[k] = parked[i + k]
  <2>1. /\ i + 1 \in Int /\ Len(parked) \in Int
        /\ \A j \in (i + 1)..Len(parked) : parked[j] \in Tasks
    BY <1>1
  <2>2. /\ back \in Seq(Tasks)
        /\ Len(back) = IF i + 1 <= Len(parked) THEN Len(parked) - (i + 1) + 1 ELSE 0
        /\ \A k \in 1..(Len(parked) - (i + 1) + 1) : back[k] = parked[(i + 1) + k - 1]
    BY <2>1, SubSeqProperties
  <2> HIDE DEF back
  <2>3. Len(back) = Len(parked) - i
    BY <1>1, <2>2
  <2>4. ASSUME NEW k \in 1..(Len(parked) - i) PROVE back[k] = parked[i + k]
    <3>1. k \in 1..(Len(parked) - (i + 1) + 1) /\ (i + 1) + k - 1 = i + k
      BY <1>1, SMTT(30)
    <3>2. QED
      BY <2>2, <3>1
  <2>5. QED
    BY <2>2, <2>3, <2>4
<1> HIDE DEF front, back
<1>4. parked' = front \o back
  BY DEF front, back
<1>5. /\ parked' \in Seq(Tasks) /\ Len(parked') = Len(parked) - 1
      /\ \A k \in 1..(Len(parked) - 1) :
           parked'[k] = IF k <= i - 1 THEN front[k] ELSE back[k - (i - 1)]
  <2>1. /\ front \o back \in Seq(Tasks)
        /\ Len(front \o back) = Len(front) + Len(back)
        /\ \A k \in 1..(Len(front) + Len(back)) :
             (front \o back)[k] = IF k <= Len(front) THEN front[k] ELSE back[k - Len(front)]
    BY <1>2, <1>3, ConcatProperties, Zenon
  <2>2. Len(front) + Len(back) = Len(parked) - 1
    BY <1>1, <1>2, <1>3
  <2>3. QED
    BY <1>2, <1>4, <2>1, <2>2
<1>6. DOMAIN parked' = 1..(Len(parked) - 1)
  BY <1>5
<1>7. ASSUME NEW k \in DOMAIN parked'
      PROVE  parked'[k] = parked[IF k < i THEN k ELSE k + 1]
  <2>1. k \in 1..(Len(parked) - 1)
    BY <1>6
  <2>2. CASE k < i
    BY <1>1, <1>2, <1>5, <2>1, <2>2
  <2>3. CASE ~(k < i)
    <3> DEFINE m == k - (i - 1)
    <3>1. m \in 1..(Len(parked) - i) /\ i + m = k + 1 /\ ~(k <= i - 1)
      BY <1>1, <2>1, <2>3, SMTT(30)
    <3>2. parked'[k] = back[m]
      BY <1>5, <2>1, <3>1
    <3> HIDE DEF m
    <3>3. QED
      BY <1>3, <2>3, <3>1, <3>2
  <2>4. QED
    BY <2>2, <2>3
<1>8. QED
  BY <1>1, <1>5, <1>6, <1>7

LEMMA CancelKeepsInv ==
  ASSUME Inv, NEW t \in Tasks, Cancel(t) PROVE Inv'
<1>1. CASE CancelRunnable(t)
  <2>1. TypeOK'
    BY <1>1 DEF Inv, TypeOK, CancelRunnable, NoLongerAhead
  <2>2. SlotAccounting'
    BY <1>1, SameHolders DEF Inv, CancelRunnable, Holding
  <2>3. QED
    BY <1>1, <2>1, <2>2 DEF Inv, NoIdleSlot, Sleepers, CancelRunnable, DynamicLimit
<1>2. CASE CancelInside(t)
  <2>1. TypeOK'
    BY <1>2 DEF Inv, TypeOK, CancelInside
  <2>2. SlotAccounting'
    BY <1>2, SameHolders DEF Inv, TypeOK, CancelInside, Holding
  <2>3. Sleepers'
    BY <1>2 DEF Inv, TypeOK, Sleepers, CancelInside
  <2>4. QED
    BY <1>2, <2>1, <2>2, <2>3 DEF Inv, NoIdleSlot, CancelInside, DynamicLimit
<1>3. CASE CancelParked(t)
  <2>1. PICK i \in DOMAIN parked :
          /\ parked[i] = t
          /\ parked' = SubSeq(parked, 1, i - 1) \o SubSeq(parked, i + 1, Len(parked))
    BY <1>3 DEF CancelParked
  <2>2. /\ DOMAIN parked = 1..Len(parked) /\ Len(parked) \in Nat
        /\ parked' \in Seq(Tasks) /\ DOMAIN parked' = 1..(Len(parked) - 1)
        /\ \A k \in DOMAIN parked' : parked'[k] = parked[IF k < i THEN k ELSE k + 1]
    BY <2>1, RemovedAt DEF Inv
  <2>3. TypeOK'
    BY <1>3, <2>2, SMTT(30) DEF Inv, TypeOK, CancelParked, NoLongerAhead
  <2>4. pc[t] = "parked" /\ pc' = [pc EXCEPT ![t] = "woken"]
    BY <1>3, <2>1 DEF Inv, Sleepers, CancelParked
  <2>5. SlotAccounting'
    <3>1. ASSUME NEW u \in Tasks PROVE Holding(u)' <=> Holding(u)
      BY <2>4 DEF Inv, TypeOK, Holding
    <3>2. QED
      BY <1>3, <3>1, SameHolders DEF Inv, CancelParked
  <2>6. NoIdleSlot'
    BY <1>3, <2>1 DEF Inv, TypeOK, NoIdleSlot, CancelParked, DynamicLimit
  <2>7. Sleepers'
    <3> DEFINE old(k) == IF k < i THEN k ELSE k + 1
    <3>1. \A k \in DOMAIN parked' : old(k) \in DOMAIN parked /\ old(k) # i
      BY <2>2
    <3>2. \A k \in DOMAIN parked' : parked[old(k)] \in Tasks /\ parked[old(k)] # t
      BY <2>1, <3>1 DEF Inv, TypeOK, Sleepers
    <3>3. \A k, m \in DOMAIN parked' : old(k) = old(m) => k = m
      BY <2>2
    <3>4. \A k \in DOMAIN parked' : parked'[k] = parked[old(k)]
      BY <2>2
    <3> HIDE DEF old
    <3>5. \A k \in DOMAIN parked' : pc'[parked'[k]] = "parked"
      BY <2>4, <3>1, <3>2, <3>4 DEF Inv, TypeOK, Sleepers
    <3>6. \A k, m \in DOMAIN parked' : parked'[k] = parked'[m] => k = m
      BY <3>1, <3>3, <3>4 DEF Inv, Sleepers
    <3>7. QED
      BY <3>5, <3>6 DEF Sleepers
  <2>8. QED
    BY <2>3, <2>5, <2>6, <2>7 DEF Inv
<1>4. QED
  BY <1>1, <1>2, <1>3 DEF Cancel

LEMMA InvStep == Inv /\ [Next]_vars => Inv'
<1> SUFFICES ASSUME Inv, [Next]_vars PROVE Inv'
  OBVIOUS
<1>1. CASE UNCHANGED vars
  <2>1. SlotAccounting'
    BY <1>1, SameHolders DEF Inv, vars, Holding
  <2>2. QED
    BY <1>1, <2>1 DEF vars, Inv, TypeOK, Sleepers, NoIdleSlot, DynamicLimit
<1>2. CASE Run
  <2>1. ASSUME NEW t \in Tasks, LeaveCancelled(t) PROVE Inv'
    BY <2>1, LeaveAloneKeepsInv, HandOverKeepsInv DEF LeaveCancelled
  <2>2. QED
    BY <1>2, <2>1, EnterKeepsInv, ParkKeepsInv, FinishKeepsInv DEF Run
<1>3. CASE \E t \in Tasks : Arrive(t) \/ Respond(t) \/ Cancel(t)
  BY <1>3, ScheduleKeepsInv, CancelKeepsInv
<1>4. QED
  BY <1>1, <1>2, <1>3 DEF Next

LEMMA InvAlways == Spec => []Inv
BY InvInit, InvStep, PTL DEF Spec

\* No error, cancellation or lost race leaks a slot or gives one back twice.
THEOREM SlotsAreCounted == Spec => []SlotAccounting
<1>1. Inv => SlotAccounting
  BY DEF Inv
<1>2. QED
  BY <1>1, InvAlways, PTL

\* No wake-up is lost: whoever sleeps in the condition sleeps for a full gate.
THEOREM NobodySleepsForNothing == Spec => []NoIdleSlot
<1>1. Inv => NoIdleSlot
  BY DEF Inv
<1>2. QED
  BY <1>1, InvAlways, PTL

\* Enter is the gate's Enter, because the counter is the number inside; Finish is
\* its Leave; no other step shows.
LEMMA StepIsGateStep ==
  ASSUME Inv, [Next]_vars
  PROVE  [Abstract!Next]_<<rate, Holders>>
<1>1. Abstract!DynamicLimit = DynamicLimit
  BY DEF Abstract!DynamicLimit, Abstract!Larger, DynamicLimit, Larger
<1>2. ASSUME NEW t \in Tasks, Enter(t) PROVE Abstract!Enter(t)
  <2>1. Holders' = Holders \cup {t} /\ t \notin Holders
    BY <1>2 DEF Inv, TypeOK, Enter, Holders, Holding
  <2>2. Cardinality(Holders) < DynamicLimit /\ UNCHANGED rate
    BY <1>2 DEF Inv, SlotAccounting, Enter, Holders
  <2>3. Abstract!Cardinality(Holders) = Cardinality(Holders)
    BY DEF Abstract!Cardinality, Cardinality
  <2>4. Abstract!HasRoom
    BY <1>1, <2>2, <2>3 DEF Abstract!HasRoom, Holders
  <2>5. QED
    BY <2>1, <2>2, <2>4 DEF Abstract!Enter, Holders
<1>3. ASSUME NEW t \in Tasks, Finish(t) PROVE Abstract!Leave(t)
  <2>1. Holders' = Holders \ {t} /\ t \in Holders
    BY <1>3 DEF Inv, TypeOK, Finish, Release, Holders, Holding
  <2>2. rate' \in MinRate..HardCap
    BY <1>3, GateUnits DEF Inv, TypeOK, Finish, Risen
  <2>3. QED
    BY <2>1, <2>2 DEF Abstract!Leave, Holders
<1>4. ASSUME NEW t \in Tasks, Park(t) \/ Arrive(t) \/ Respond(t)
      PROVE  UNCHANGED <<rate, Holders>>
  BY <1>4 DEF Inv, TypeOK, Park, Arrive, Respond, Holders, Holding
<1>5. ASSUME NEW t \in Tasks, Cancel(t) PROVE UNCHANGED <<rate, Holders>>
  <2>1. CASE CancelRunnable(t) \/ CancelInside(t)
    BY <2>1 DEF Inv, TypeOK, CancelRunnable, CancelInside, Holders, Holding
  <2>2. CASE CancelParked(t)
    <3>1. pc[t] = "parked" /\ pc' = [pc EXCEPT ![t] = "woken"] /\ UNCHANGED rate
      BY <2>2 DEF Inv, Sleepers, CancelParked
    <3>2. QED
      BY <3>1 DEF Inv, TypeOK, Holders, Holding
  <2>3. QED
    BY <1>5, <2>1, <2>2 DEF Cancel
<1>6. ASSUME NEW t \in Tasks, LeaveCancelled(t) PROVE UNCHANGED <<rate, Holders>>
  <2>1. PICK u \in Tasks :
          /\ u = t \/ pc[u] = "parked"
          /\ pc' = [pc EXCEPT ![t] = "away"] \/ pc' = [pc EXCEPT ![t] = "away", ![u] = "woken"]
    <3>1. parked # <<>> => Head(parked) \in Tasks /\ pc[Head(parked)] = "parked"
      BY DEF Inv, TypeOK, Sleepers
    <3>2. QED
      BY <1>6, <3>1 DEF LeaveCancelled
  <2>2. pc[t] \in {"arriving", "woken"} /\ UNCHANGED rate
    BY <1>6 DEF LeaveCancelled
  <2>3. QED
    BY <2>1, <2>2 DEF Inv, TypeOK, Holders, Holding
<1>7. CASE UNCHANGED vars
  BY <1>7 DEF vars, Holders, Holding
<1>8. QED
  BY <1>2, <1>3, <1>4, <1>5, <1>6, <1>7 DEF Next, Run, Abstract!Next, Holders

\* The condition variable, with its wake-ups, races and cancellations, implements
\* the gate that the request pipeline is built on.
THEOREM ConditionIsAGate == Spec => GateIsImplemented
<1>1. Init => Abstract!Init
  BY DEF Init, Abstract!Init, Holding
<1>2. Inv /\ [Next]_vars => [Abstract!Next]_<<rate, {t \in Tasks : Holding(t)}>>
  BY StepIsGateStep DEF Holders
<1>3. QED
  BY <1>1, <1>2, InvAlways, PTL DEF Spec, GateIsImplemented, Abstract!Spec

-----------------------------------------------------------------------------
\* The order of the waiters

Runnable == {"arriving", "woken", "returning"}

\* Whoever is in the loop's queue is runnable, and is in it once.
QueueOnce ==
  /\ \A i \in DOMAIN ready : pc[ready[i]] \in Runnable
  /\ \A i, j \in DOMAIN ready : ready[i] = ready[j] => i = j

\* Whoever sleeps is in the condition's queue; who is cancelled does not sleep.
SleepersQueued ==
  \A t \in Tasks : pc[t] = "parked" => ~cancelled[t] /\ \E i \in DOMAIN parked : parked[i] = t

\* t comes after u in the loop's queue and only woken waiters are between them.
InRow(u, t) ==
  \E i, j \in DOMAIN ready :
    i < j /\ ready[i] = u /\ ready[j] = t /\ \A k \in i..j : pc[ready[k]] = "woken"

\* Only woken waiters are before t in the loop's queue.
Foremost(t) ==
  \E j \in DOMAIN ready : ready[j] = t /\ \A k \in 1..j : pc[ready[k]] = "woken"

Before(u, t) == \E i, j \in DOMAIN parked : i < j /\ parked[i] = u /\ parked[j] = t

\* u, asleep before t was, still waits.  When u has been sent back to sleep and t has not
\* run yet, nobody but woken waiters runs before t: the gate that was full for u is full
\* for t.
Behind(u, t) ==
  /\ ~cancelled[u] /\ ~cancelled[t]
  /\ \/ pc[u] = "parked" /\ pc[t] = "parked" /\ Before(u, t)
     \/ pc[u] = "woken" /\ pc[t] = "woken" /\ InRow(u, t)
     \/ pc[u] = "parked" /\ pc[t] = "woken" /\ Foremost(t)

Order == \A t \in Tasks : \A u \in ahead[t] : Behind(u, t)

WaitInv == Inv /\ QueueOnce /\ SleepersQueued /\ Order

\* The tasks of the loop's queue move up d places, and those that are woken stay so.
Slides(d) ==
  \A k \in DOMAIN ready : k > d =>
    /\ k - d \in DOMAIN ready' /\ ready'[k - d] = ready[k]
    /\ pc[ready[k]] = "woken" => pc'[ready[k]] = "woken"

LEMMA RowKept ==
  ASSUME ready \in Seq(Tasks), ready' \in Seq(Tasks), NEW d \in {0, 1}, Slides(d),
         NEW u, NEW t, InRow(u, t), d = 1 => u # ready[1]
  PROVE  InRow(u, t)'
<1>1. PICK i \in DOMAIN ready, j \in DOMAIN ready :
        i < j /\ ready[i] = u /\ ready[j] = t /\ \A k \in i..j : pc[ready[k]] = "woken"
  BY DEF InRow
<1>2. DOMAIN ready = 1..Len(ready) /\ Len(ready) \in Nat
  OBVIOUS
<1>3. i > d /\ j > d /\ i \in Int /\ j \in Int
  BY <1>1, <1>2
<1>4. i - d \in DOMAIN ready' /\ j - d \in DOMAIN ready' /\ ready'[i - d] = u /\ ready'[j - d] = t
  BY <1>1, <1>3 DEF Slides
<1>5. ASSUME NEW k \in (i - d)..(j - d) PROVE pc'[ready'[k]] = "woken"
  <2> DEFINE m == k + d
  <2>1. m \in i..j /\ m \in DOMAIN ready /\ m > d /\ m - d = k
    BY <1>2, <1>3
  <2> HIDE DEF m
  <2>2. QED
    BY <1>1, <2>1 DEF Slides
<1>6. i - d < j - d
  BY <1>1, <1>3
<1>7. QED
  BY <1>4, <1>5, <1>6 DEF InRow

LEMMA ForemostKept ==
  ASSUME ready \in Seq(Tasks), ready' \in Seq(Tasks), NEW d \in {0, 1}, Slides(d),
         NEW t, Foremost(t), d = 1 => t # ready[1]
  PROVE  Foremost(t)'
<1>1. PICK j \in DOMAIN ready : ready[j] = t /\ \A k \in 1..j : pc[ready[k]] = "woken"
  BY DEF Foremost
<1>2. DOMAIN ready = 1..Len(ready) /\ Len(ready) \in Nat /\ j > d /\ j \in Int
  BY <1>1
<1>3. j - d \in DOMAIN ready' /\ ready'[j - d] = t
  BY <1>1, <1>2 DEF Slides
<1>4. ASSUME NEW k \in 1..(j - d) PROVE pc'[ready'[k]] = "woken"
  <2> DEFINE m == k + d
  <2>1. m \in 1..j /\ m \in DOMAIN ready /\ m > d /\ m - d = k
    BY <1>2
  <2> HIDE DEF m
  <2>2. QED
    BY <1>1, <2>1 DEF Slides
<1>5. QED
  BY <1>3, <1>4 DEF Foremost

\* When the first of a row leaves, the second is foremost.
LEMMA NextIsForemost ==
  ASSUME ready \in Seq(Tasks), ready' \in Seq(Tasks), QueueOnce, Slides(1), ready # << >>,
         NEW t, InRow(ready[1], t)
  PROVE  Foremost(t)'
<1>1. PICK i \in DOMAIN ready, j \in DOMAIN ready :
        i < j /\ ready[i] = ready[1] /\ ready[j] = t /\ \A k \in i..j : pc[ready[k]] = "woken"
  BY DEF InRow
<1>2. DOMAIN ready = 1..Len(ready) /\ Len(ready) \in Nat /\ 1 \in DOMAIN ready
  OBVIOUS
<1>3. i = 1 /\ j > 1 /\ j \in Int
  BY <1>1, <1>2 DEF QueueOnce
<1>4. j - 1 \in DOMAIN ready' /\ ready'[j - 1] = t
  BY <1>1, <1>3 DEF Slides
<1>5. ASSUME NEW k \in 1..(j - 1) PROVE pc'[ready'[k]] = "woken"
  <2> DEFINE m == k + 1
  <2>1. m \in i..j /\ m \in DOMAIN ready /\ m > 1 /\ m - 1 = k
    BY <1>2, <1>3
  <2> HIDE DEF m
  <2>2. QED
    BY <1>1, <2>1 DEF Slides
<1>6. QED
  BY <1>4, <1>5 DEF Foremost

\* What a step does not move keeps its order.
LEMMA OthersKept ==
  ASSUME ready \in Seq(Tasks), ready' \in Seq(Tasks), NEW d \in {0, 1}, Slides(d),
         NEW u \in Tasks, NEW t \in Tasks, Behind(u, t),
         pc'[u] = pc[u], pc'[t] = pc[t], cancelled'[u] = cancelled[u], cancelled'[t] = cancelled[t],
         d = 1 => u # ready[1] /\ t # ready[1],
         Before(u, t) => Before(u, t)'
  PROVE  Behind(u, t)'
<1>1. InRow(u, t) => InRow(u, t)'
  BY RowKept
<1>2. Foremost(t) => Foremost(t)'
  BY ForemostKept
<1>3. QED
  BY <1>1, <1>2 DEF Behind

\* A task joins the loop's queue ...
LEMMA JoinQueue ==
  ASSUME TypeOK, QueueOnce, NEW t \in Tasks, pc[t] \notin Runnable, NEW s \in Runnable,
         ready' = Append(ready, t), pc' = [pc EXCEPT ![t] = s]
  PROVE  ready' \in Seq(Tasks) /\ QueueOnce' /\ Slides(0)
<1>1. /\ ready \in Seq(Tasks) /\ DOMAIN ready = 1..Len(ready) /\ Len(ready) \in Nat
      /\ ready' \in Seq(Tasks) /\ DOMAIN ready' = 1..(Len(ready) + 1)
      /\ \A k \in DOMAIN ready : ready'[k] = ready[k]
      /\ ready'[Len(ready) + 1] = t
  BY AppendProperties DEF TypeOK
<1>2. \A k \in DOMAIN ready : ready[k] \in Tasks /\ ready[k] # t /\ pc'[ready[k]] = pc[ready[k]]
  BY <1>1 DEF TypeOK, QueueOnce
<1>3. QueueOnce'
  <2>1. \A i \in DOMAIN ready' : i = Len(ready) + 1 \/ i \in DOMAIN ready
    BY <1>1
  <2>2. pc'[t] = s
    BY DEF TypeOK
  <2>3. QED
    BY <1>1, <1>2, <2>1, <2>2 DEF QueueOnce
<1>4. Slides(0)
  BY <1>1, <1>2 DEF Slides
<1>5. QED
  BY <1>1, <1>3, <1>4

\* ... and the first one leaves it.
LEMMA LeaveQueue ==
  ASSUME TypeOK, QueueOnce, NEW t \in Tasks, Runs(t), NEW s,
         ready' = Tail(ready), pc' = [pc EXCEPT ![t] = s]
  PROVE  ready # << >> /\ ready[1] = t /\ ready' \in Seq(Tasks) /\ QueueOnce' /\ Slides(1)
<1>1. /\ ready \in Seq(Tasks) /\ DOMAIN ready = 1..Len(ready) /\ Len(ready) \in Nat
      /\ ready # << >> /\ ready[1] = t /\ 1 \in DOMAIN ready
      /\ ready' \in Seq(Tasks) /\ DOMAIN ready' = 1..(Len(ready) - 1)
      /\ \A k \in 1..(Len(ready) - 1) : ready'[k] = ready[k + 1]
  BY DEF TypeOK, Runs
<1>2. \A k \in DOMAIN ready : k > 1 =>
        /\ k - 1 \in DOMAIN ready' /\ ready'[k - 1] = ready[k]
        /\ ready[k] \in Tasks /\ ready[k] # t /\ pc'[ready[k]] = pc[ready[k]]
  <2> SUFFICES ASSUME NEW k \in DOMAIN ready, k > 1
               PROVE  /\ k - 1 \in DOMAIN ready' /\ ready'[k - 1] = ready[k]
                      /\ ready[k] \in Tasks /\ ready[k] # t /\ pc'[ready[k]] = pc[ready[k]]
    OBVIOUS
  <2>1. k - 1 \in 1..(Len(ready) - 1) /\ k - 1 + 1 = k
    BY <1>1
  <2>2. ready'[k - 1] = ready[k]
    BY <1>1, <2>1
  <2>3. ready[k] # t
    BY <1>1 DEF QueueOnce
  <2>4. QED
    BY <1>1, <2>1, <2>2, <2>3 DEF TypeOK
<1>3. QueueOnce'
  <2>1. ASSUME NEW i \in DOMAIN ready'
        PROVE  /\ i + 1 \in DOMAIN ready /\ i + 1 > 1
               /\ ready'[i] = ready[i + 1] /\ pc'[ready'[i]] = pc[ready[i + 1]]
    <3> DEFINE m == i + 1
    <3>1. m \in DOMAIN ready /\ m > 1 /\ ready'[i] = ready[m]
      BY <1>1
    <3> HIDE DEF m
    <3>2. pc'[ready[m]] = pc[ready[m]]
      BY <1>2, <3>1
    <3>3. QED
      BY <3>1, <3>2 DEF m
  <2>2. \A i, j \in DOMAIN ready' : i + 1 = j + 1 => i = j
    BY <1>1
  <2>3. QED
    BY <2>1, <2>2 DEF QueueOnce
<1>4. Slides(1)
  BY <1>2 DEF Slides
<1>5. QED
  BY <1>1, <1>3, <1>4

\* A task that is behind another waits, and so does the other, in another place.
LEMMA BehindWaits ==
  ASSUME TypeOK, QueueOnce, Sleepers, NEW u, NEW t, Behind(u, t)
  PROVE  u # t /\ Waiting(u) /\ Waiting(t) /\ ~cancelled[u] /\ ~cancelled[t]
<1>1. Waiting(u) /\ Waiting(t) /\ ~cancelled[u] /\ ~cancelled[t]
  BY DEF Behind, Waiting
<1>2. ASSUME u = t PROVE FALSE
  <2>1. CASE Before(u, t)
    <3>1. PICK i, j \in DOMAIN parked : i < j /\ parked[i] = u /\ parked[j] = t
      BY <2>1 DEF Before
    <3>2. i = j /\ i \in Int
      BY <1>2, <3>1 DEF Sleepers, TypeOK
    <3>3. QED
      BY <3>1, <3>2
  <2>2. CASE InRow(u, t)
    <3>1. PICK i, j \in DOMAIN ready : i < j /\ ready[i] = u /\ ready[j] = t
      BY <2>2 DEF InRow
    <3>2. i = j /\ i \in Int
      BY <1>2, <3>1 DEF QueueOnce, TypeOK
    <3>3. QED
      BY <3>1, <3>2
  <2>3. QED
    BY <1>2, <2>1, <2>2 DEF Behind
<1>3. QED
  BY <1>1, <1>2

\* The first waiter the loop runs follows no other woken one.
LEMMA FirstIsNotBehind ==
  ASSUME TypeOK, QueueOnce, ready # << >>, NEW u
  PROVE  ~InRow(u, ready[1])
<1> SUFFICES ASSUME InRow(u, ready[1]) PROVE FALSE
  OBVIOUS
<1>1. PICK i, j \in DOMAIN ready : i < j /\ ready[j] = ready[1]
  BY DEF InRow
<1>2. DOMAIN ready = 1..Len(ready) /\ Len(ready) \in Nat /\ 1 \in DOMAIN ready
  BY DEF TypeOK
<1>3. j = 1
  BY <1>1, <1>2 DEF QueueOnce
<1>4. QED
  BY <1>1, <1>2, <1>3

LEMMA JoinKeepsOrder ==
  ASSUME WaitInv, NEW t \in Tasks, Arrive(t) \/ Respond(t) \/ CancelInside(t)
  PROVE  QueueOnce' /\ SleepersQueued' /\ Order'
<1>1. PICK s \in {"arriving", "returning"} :
        /\ ready' = Append(ready, t) /\ pc' = [pc EXCEPT ![t] = s]
        /\ pc[t] \in {"away", "inside"} /\ UNCHANGED <<parked, ahead>>
        /\ cancelled' = cancelled \/ cancelled' = [cancelled EXCEPT ![t] = TRUE]
  BY DEF Arrive, Respond, CancelInside
<1>2. ready' \in Seq(Tasks) /\ QueueOnce' /\ Slides(0)
  BY <1>1, JoinQueue DEF WaitInv, Inv, Runnable
<1>3. \A u \in Tasks \ {t} : pc'[u] = pc[u] /\ cancelled'[u] = cancelled[u]
  BY <1>1 DEF WaitInv, Inv, TypeOK
<1>4. SleepersQueued'
  BY <1>1, <1>3 DEF WaitInv, Inv, TypeOK, SleepersQueued
<1>5. ASSUME NEW x \in Tasks, NEW u \in ahead'[x] PROVE Behind(u, x)'
  <2>1. u \in Tasks /\ Behind(u, x)
    BY <1>1, <1>5 DEF WaitInv, Inv, TypeOK, Order
  <2>2. u # t /\ x # t
    BY <1>1, <2>1, BehindWaits DEF WaitInv, Inv, Waiting
  <2>3. Before(u, x) => Before(u, x)'
    BY <1>1 DEF Before
  <2>4. QED
    BY <1>2, <1>3, <2>1, <2>2, <2>3, OthersKept DEF WaitInv, Inv, TypeOK
<1>6. QED
  BY <1>2, <1>4, <1>5 DEF Order

LEMMA CancelRunnableKeepsOrder ==
  ASSUME WaitInv, NEW t \in Tasks, CancelRunnable(t)
  PROVE  QueueOnce' /\ SleepersQueued' /\ Order'
<1>1. /\ pc[t] # "parked" /\ UNCHANGED <<pc, ready, parked>>
      /\ cancelled' = [cancelled EXCEPT ![t] = TRUE] /\ ahead' = NoLongerAhead(t)
  BY DEF CancelRunnable
<1>2. QueueOnce' /\ SleepersQueued'
  BY <1>1 DEF WaitInv, Inv, TypeOK, QueueOnce, SleepersQueued
<1>3. ASSUME NEW x \in Tasks, NEW u \in ahead'[x] PROVE Behind(u, x)'
  <2>1. u \in ahead[x] /\ u \in Tasks /\ x # t /\ u # t
    BY <1>1, <1>3 DEF WaitInv, Inv, TypeOK, NoLongerAhead
  <2>2. Behind(u, x) /\ cancelled'[u] = cancelled[u] /\ cancelled'[x] = cancelled[x]
    BY <1>1, <2>1 DEF WaitInv, Inv, TypeOK, Order
  <2>3. QED
    BY <1>1, <2>2 DEF Behind, Before, InRow, Foremost
<1>4. QED
  BY <1>2, <1>3 DEF Order

LEMMA CancelParkedKeepsOrder ==
  ASSUME WaitInv, NEW t \in Tasks, CancelParked(t)
  PROVE  QueueOnce' /\ SleepersQueued' /\ Order'
<1>1. PICK i \in DOMAIN parked :
        /\ parked[i] = t
        /\ parked' = SubSeq(parked, 1, i - 1) \o SubSeq(parked, i + 1, Len(parked))
        /\ cancelled' = [cancelled EXCEPT ![t] = TRUE] /\ pc' = [pc EXCEPT ![t] = "woken"]
        /\ ready' = Append(ready, t) /\ ahead' = NoLongerAhead(t)
  BY DEF CancelParked
<1>2. pc[t] = "parked"
  BY <1>1 DEF WaitInv, Inv, Sleepers
<1>3. ready' \in Seq(Tasks) /\ QueueOnce' /\ Slides(0)
  BY <1>1, <1>2, JoinQueue DEF WaitInv, Inv, Runnable
<1>4. \A u \in Tasks \ {t} : pc'[u] = pc[u] /\ cancelled'[u] = cancelled[u]
  BY <1>1 DEF WaitInv, Inv, TypeOK
<1>5. /\ DOMAIN parked = 1..Len(parked) /\ Len(parked) \in Nat /\ DOMAIN parked' = 1..(Len(parked) - 1)
      /\ \A k \in DOMAIN parked' : parked'[k] = parked[IF k < i THEN k ELSE k + 1]
  BY <1>1, RemovedAt DEF WaitInv, Inv
<1> DEFINE place(k) == IF k < i THEN k ELSE k - 1
<1>6. ASSUME NEW k \in DOMAIN parked, k # i
      PROVE  place(k) \in DOMAIN parked' /\ parked'[place(k)] = parked[k]
  <2>1. CASE k < i
    <3>1. k \in 1..(Len(parked) - 1)
      BY <1>5, <2>1
    <3>2. QED
      BY <1>5, <2>1, <3>1
  <2>2. CASE ~(k < i)
    <3> DEFINE m == k - 1
    <3>1. m \in 1..(Len(parked) - 1) /\ ~(m < i) /\ m + 1 = k
      BY <1>5, <1>6, <2>2
    <3> HIDE DEF m
    <3>2. parked'[m] = parked[k]
      BY <1>5, <3>1
    <3>3. QED
      BY <1>5, <2>2, <3>1, <3>2 DEF m
  <2>3. QED
    BY <2>1, <2>2
<1>7. \A j, k \in DOMAIN parked : j < k /\ j # i /\ k # i => place(j) < place(k)
  BY <1>5
<1> HIDE DEF place
<1>8. ASSUME NEW u \in Tasks \ {t}, NEW x \in Tasks \ {t}, Before(u, x) PROVE Before(u, x)'
  <2>1. PICK j, k \in DOMAIN parked : j < k /\ parked[j] = u /\ parked[k] = x
    BY <1>8 DEF Before
  <2>2. j # i /\ k # i
    BY <1>1, <2>1
  <2>3. /\ place(j) \in DOMAIN parked' /\ place(k) \in DOMAIN parked' /\ place(j) < place(k)
        /\ parked'[place(j)] = u /\ parked'[place(k)] = x
    BY <1>6, <1>7, <2>1, <2>2
  <2>4. QED
    BY <2>3 DEF Before
<1>9. SleepersQueued'
  <2>1. ASSUME NEW u \in Tasks, pc'[u] = "parked"
        PROVE  ~cancelled'[u] /\ \E k \in DOMAIN parked' : parked'[k] = u
    <3>1. u # t
      BY <1>1, <2>1 DEF WaitInv, Inv, TypeOK
    <3>2. PICK k \in DOMAIN parked : parked[k] = u
      BY <1>4, <2>1, <3>1 DEF WaitInv, SleepersQueued
    <3>3. k # i
      BY <1>1, <3>1, <3>2
    <3>4. QED
      BY <1>4, <1>6, <2>1, <3>1, <3>2, <3>3 DEF WaitInv, SleepersQueued
  <2>2. QED
    BY <2>1 DEF SleepersQueued
<1>10. ASSUME NEW x \in Tasks, NEW u \in ahead'[x] PROVE Behind(u, x)'
  <2>1. u \in ahead[x] /\ u \in Tasks /\ x # t /\ u # t
    BY <1>1, <1>10 DEF WaitInv, Inv, TypeOK, NoLongerAhead
  <2>2. Behind(u, x)
    BY <2>1 DEF WaitInv, Order
  <2>3. QED
    BY <1>3, <1>4, <1>8, <2>1, <2>2, OthersKept DEF WaitInv, Inv, TypeOK
<1>11. QED
  BY <1>3, <1>9, <1>10 DEF Order

LEMMA EnterKeepsOrder ==
  ASSUME WaitInv, NEW t \in Tasks, Enter(t)
  PROVE  QueueOnce' /\ SleepersQueued' /\ Order'
<1>1. /\ Runs(t) /\ pc' = [pc EXCEPT ![t] = "inside"] /\ ready' = Tail(ready)
      /\ ahead' = NoLongerAhead(t) /\ UNCHANGED <<cancelled, parked>>
  BY DEF Enter
<1>2. ready # << >> /\ ready[1] = t /\ ready' \in Seq(Tasks) /\ QueueOnce' /\ Slides(1)
  BY <1>1, LeaveQueue DEF WaitInv, Inv
<1>3. \A u \in Tasks \ {t} : pc'[u] = pc[u]
  BY <1>1 DEF WaitInv, Inv, TypeOK
<1>4. SleepersQueued'
  BY <1>1 DEF WaitInv, Inv, TypeOK, SleepersQueued
<1>5. ASSUME NEW x \in Tasks, NEW u \in ahead'[x] PROVE Behind(u, x)'
  <2>1. u \in ahead[x] /\ u \in Tasks /\ x # t /\ u # t
    BY <1>1, <1>5 DEF WaitInv, Inv, TypeOK, NoLongerAhead
  <2>2. Behind(u, x)
    BY <2>1 DEF WaitInv, Order
  <2>3. Before(u, x) => Before(u, x)'
    BY <1>1 DEF Before
  <2>4. QED
    BY <1>1, <1>2, <1>3, <2>1, <2>2, <2>3, OthersKept DEF WaitInv, Inv, TypeOK
<1>6. QED
  BY <1>2, <1>4, <1>5 DEF Order

LEMMA ParkKeepsOrder ==
  ASSUME WaitInv, NEW t \in Tasks, Park(t)
  PROVE  QueueOnce' /\ SleepersQueued' /\ Order'
<1>1. /\ Runs(t) /\ pc[t] \in {"arriving", "woken"} /\ ~cancelled[t]
      /\ pc' = [pc EXCEPT ![t] = "parked"] /\ ready' = Tail(ready)
      /\ parked' = Append(parked, t) /\ UNCHANGED cancelled
  BY DEF Park
<1>2. ready # << >> /\ ready[1] = t /\ ready' \in Seq(Tasks) /\ QueueOnce' /\ Slides(1)
  BY <1>1, LeaveQueue DEF WaitInv, Inv
<1>3. pc'[t] = "parked" /\ \A u \in Tasks \ {t} : pc'[u] = pc[u]
  BY <1>1 DEF WaitInv, Inv, TypeOK
<1>4. /\ DOMAIN parked = 1..Len(parked) /\ Len(parked) \in Nat /\ DOMAIN parked' = 1..(Len(parked) + 1)
      /\ \A k \in DOMAIN parked : k \in DOMAIN parked' /\ k < Len(parked) + 1 /\ parked'[k] = parked[k]
      /\ Len(parked) + 1 \in DOMAIN parked' /\ parked'[Len(parked) + 1] = t
  BY <1>1, AppendProperties DEF WaitInv, Inv, TypeOK
<1>5. SleepersQueued'
  BY <1>1, <1>3, <1>4 DEF WaitInv, SleepersQueued
<1>6. ASSUME NEW u \in Tasks, pc[u] = "parked" PROVE Behind(u, t)'
  <2>1. PICK i \in DOMAIN parked : parked[i] = u
    BY <1>6 DEF WaitInv, SleepersQueued
  <2>2. u # t /\ ~cancelled[u]
    BY <1>1, <1>6 DEF WaitInv, SleepersQueued
  <2>3. Before(u, t)'
    BY <1>4, <2>1 DEF Before
  <2>4. QED
    BY <1>1, <1>3, <1>6, <2>2, <2>3 DEF Behind
<1>7. ASSUME NEW x \in Tasks \ {t}, NEW u \in ahead[x] PROVE Behind(u, x)'
  <2>1. u \in Tasks /\ Behind(u, x)
    BY <1>7 DEF WaitInv, Inv, TypeOK, Order
  <2>2. CASE u # t
    <3>1. Before(u, x) => Before(u, x)'
      BY <1>4 DEF Before
    <3>2. QED
      BY <1>1, <1>2, <1>3, <2>1, <2>2, <3>1, OthersKept DEF WaitInv, Inv, TypeOK
  <2>3. CASE u = t
    <3>1. pc[x] = "woken" /\ InRow(ready[1], x) /\ ~cancelled[x]
      BY <1>1, <1>2, <2>1, <2>3 DEF Behind
    <3>2. Foremost(x)'
      BY <1>2, <3>1, NextIsForemost DEF WaitInv, Inv, TypeOK
    <3>3. QED
      BY <1>1, <1>3, <2>3, <3>1, <3>2 DEF Behind
  <2>4. QED
    BY <2>2, <2>3
<1>8. ASSUME NEW u \in ahead'[t] PROVE Behind(u, t)'
  <2>1. u \in Tasks /\ pc[u] = "parked"
    <3>1. CASE pc[t] = "arriving"
      BY <1>8, <3>1 DEF Park, WaitInv, Inv, TypeOK
    <3>2. CASE pc[t] = "woken"
      <4>1. u \in ahead[t] /\ u \in Tasks
        BY <1>8, <3>2 DEF Park, WaitInv, Inv, TypeOK
      <4>2. Behind(u, t)
        BY <4>1 DEF WaitInv, Order
      <4>3. ~InRow(u, t)
        BY <1>2, FirstIsNotBehind DEF WaitInv, Inv
      <4>4. QED
        BY <3>2, <4>1, <4>2, <4>3 DEF Behind
    <3>3. QED
      BY <1>1, <3>1, <3>2
  <2>2. QED
    BY <1>6, <2>1
<1>9. \A x \in Tasks \ {t} : ahead'[x] = ahead[x]
  BY DEF Park, WaitInv, Inv, TypeOK
<1>10. QED
  BY <1>2, <1>5, <1>7, <1>8, <1>9 DEF Order

LEMMA LeaveAloneKeepsOrder ==
  ASSUME WaitInv, NEW t \in Tasks, Runs(t), cancelled[t],
         cancelled' = [cancelled EXCEPT ![t] = FALSE],
         pc' = [pc EXCEPT ![t] = "away"], ready' = Tail(ready), UNCHANGED <<parked, ahead>>
  PROVE  QueueOnce' /\ SleepersQueued' /\ Order'
<1>1. ready # << >> /\ ready[1] = t /\ ready' \in Seq(Tasks) /\ QueueOnce' /\ Slides(1)
  BY LeaveQueue DEF WaitInv, Inv
<1>2. \A u \in Tasks \ {t} : pc'[u] = pc[u] /\ cancelled'[u] = cancelled[u]
  BY DEF WaitInv, Inv, TypeOK
<1>3. SleepersQueued'
  BY DEF WaitInv, Inv, TypeOK, SleepersQueued
<1>4. ASSUME NEW x \in Tasks, NEW u \in ahead'[x] PROVE Behind(u, x)'
  <2>1. u \in Tasks /\ Behind(u, x)
    BY <1>4 DEF WaitInv, Inv, TypeOK, Order
  <2>2. x # t /\ u # t
    BY <2>1, BehindWaits DEF WaitInv, Inv
  <2>3. Before(u, x) => Before(u, x)'
    BY DEF Before
  <2>4. QED
    BY <1>1, <1>2, <2>1, <2>2, <2>3, OthersKept DEF WaitInv, Inv, TypeOK
<1>5. QED
  BY <1>1, <1>3, <1>4 DEF Order

\* The loop's queue when its first task leaves and others join at the end.
LEMMA QueueTurns ==
  ASSUME TypeOK, QueueOnce, NEW t \in Tasks, Runs(t), NEW joining \in Seq(Tasks),
         ready' = Tail(ready) \o joining,
         \A k \in DOMAIN joining : pc[joining[k]] = "parked" /\ pc'[joining[k]] = "woken",
         \A j, k \in DOMAIN joining : joining[j] = joining[k] => j = k,
         \A u \in Tasks : u # t /\ pc[u] # "parked" => pc'[u] = pc[u]
  PROVE  /\ ready # << >> /\ ready[1] = t /\ ready' \in Seq(Tasks) /\ QueueOnce' /\ Slides(1)
         /\ \A k \in DOMAIN joining : /\ Len(ready) - 1 + k \in DOMAIN ready'
                                     /\ ready'[Len(ready) - 1 + k] = joining[k]
<1> DEFINE n == Len(ready) - 1
           rest == Tail(ready)
<1>1. /\ DOMAIN ready = 1..(n + 1) /\ n \in Nat /\ ready # << >> /\ ready[1] = t /\ 1 \in DOMAIN ready
      /\ rest \in Seq(Tasks) /\ Len(rest) = n /\ \A k \in 1..n : rest[k] = ready[k + 1]
      /\ \A k \in DOMAIN ready : ready[k] \in Tasks
  BY DEF TypeOK, Runs
<1>2. DOMAIN joining = 1..Len(joining) /\ Len(joining) \in Nat /\ \A k \in DOMAIN joining : joining[k] \in Tasks
  OBVIOUS
<1>3. ready' = rest \o joining
  OBVIOUS
<1> HIDE DEF rest
<1>4. /\ ready' \in Seq(Tasks) /\ DOMAIN ready' = 1..(n + Len(joining))
      /\ \A k \in 1..(n + Len(joining)) : ready'[k] = IF k <= n THEN rest[k] ELSE joining[k - n]
  <2>1. /\ rest \o joining \in Seq(Tasks) /\ Len(rest \o joining) = Len(rest) + Len(joining)
        /\ \A k \in 1..(Len(rest) + Len(joining)) :
             (rest \o joining)[k] = IF k <= Len(rest) THEN rest[k] ELSE joining[k - Len(rest)]
    <3>1. rest \in Seq(Tasks) /\ joining \in Seq(Tasks)
      BY <1>1
    <3>2. QED
      BY ONLY <3>1, ConcatProperties
  <2> HIDE DEF n
  <2> DEFINE l == Len(joining)
             both == rest \o joining
  <2>2. Len(rest) = n /\ n \in Nat /\ l \in Nat
    BY <1>1, <1>2
  <2>3. /\ both \in Seq(Tasks) /\ Len(both) = n + l
        /\ \A k \in 1..(n + l) : both[k] = IF k <= n THEN rest[k] ELSE joining[k - n]
    BY ONLY <2>1, <2>2
  <2>4. DOMAIN both = 1..Len(both)
    BY ONLY <2>3
  <2>5. ready' = both
    BY <1>3
  <2> HIDE DEF both, l
  <2>6. /\ ready' \in Seq(Tasks) /\ DOMAIN ready' = 1..(n + l)
        /\ \A k \in 1..(n + l) : ready'[k] = IF k <= n THEN rest[k] ELSE joining[k - n]
    BY ONLY <2>3, <2>4, <2>5
  <2>7. QED
    BY <2>6 DEF l
<1> HIDE DEF n
<1>5. \A k \in 1..n : k \in DOMAIN ready' /\ k + 1 \in DOMAIN ready /\ ready'[k] = ready[k + 1]
  BY <1>1, <1>2, <1>4
<1>6. ASSUME NEW k \in DOMAIN joining PROVE n + k \in DOMAIN ready' /\ ready'[n + k] = joining[k]
  <2> DEFINE m == n + k
  <2>1. m \in 1..(n + Len(joining)) /\ ~(m <= n) /\ m - n = k
    BY <1>1, <1>2
  <2> HIDE DEF m
  <2>2. m \in DOMAIN ready' /\ ready'[m] = joining[k]
    BY <1>4, <2>1
  <2>3. QED
    BY <2>2 DEF m
<1>7. \A k \in DOMAIN ready : k > 1 => ready[k] # t
  <2> SUFFICES ASSUME NEW k \in DOMAIN ready, k > 1, ready[k] = t PROVE FALSE
    OBVIOUS
  <2>1. ready[k] = ready[1] /\ k # 1
    BY <1>1
  <2>2. QED
    BY <1>1, <2>1 DEF QueueOnce
<1>8. \A k \in DOMAIN ready : pc[ready[k]] \in Runnable /\ (k > 1 => pc'[ready[k]] = pc[ready[k]])
  BY <1>1, <1>7 DEF QueueOnce, Runnable
<1>9. Slides(1)
  <2>1. ASSUME NEW k \in DOMAIN ready, k > 1
        PROVE  k - 1 \in DOMAIN ready' /\ ready'[k - 1] = ready[k]
    <3> DEFINE m == k - 1
    <3>1. m \in 1..n /\ m + 1 = k
      BY <1>1, <2>1
    <3> HIDE DEF m
    <3>2. m \in DOMAIN ready' /\ ready'[m] = ready[k]
      BY <1>5, <3>1
    <3>3. QED
      BY <3>2 DEF m
  <2>2. QED
    BY <1>8, <2>1 DEF Slides
<1>10. QueueOnce'
  <2> DEFINE Old(m) == m \in 1..n
             New(m) == \E k \in DOMAIN joining : m = n + k
  <2>1. ASSUME NEW m \in DOMAIN ready' PROVE Old(m) \/ New(m)
    <3>1. m \in 1..(n + Len(joining))
      BY <1>4
    <3>2. CASE m <= n
      BY <1>1, <3>1, <3>2
    <3>3. CASE ~(m <= n)
      <4>1. m - n \in DOMAIN joining /\ m = n + (m - n)
        BY <1>1, <1>2, <3>1, <3>3
      <4>2. QED
        BY <4>1
    <3>4. QED
      BY <3>2, <3>3
  <2>2. ASSUME NEW m \in DOMAIN ready', Old(m)
        PROVE  /\ m + 1 \in DOMAIN ready /\ ready'[m] = ready[m + 1] /\ m \in Int
               /\ pc[ready'[m]] \in Runnable /\ pc'[ready'[m]] = pc[ready'[m]]
    <3>1. m + 1 \in DOMAIN ready /\ ready'[m] = ready[m + 1] /\ m + 1 > 1 /\ m \in Int
      BY <1>5, <2>2
    <3>2. QED
      BY <1>8, <3>1
  <2>3. ASSUME NEW m \in DOMAIN ready', New(m)
        PROVE  pc[ready'[m]] = "parked" /\ pc'[ready'[m]] = "woken"
    BY <1>6, <2>3
  <2>4. ASSUME NEW l \in DOMAIN ready', NEW m \in DOMAIN ready', ready'[l] = ready'[m]
        PROVE  l = m
    <3>1. CASE Old(l) /\ Old(m)
      <4>1. l + 1 = m + 1
        BY <2>2, <2>4, <3>1 DEF QueueOnce
      <4>2. QED
        BY <2>2, <3>1, <4>1
    <3>2. CASE New(l) /\ New(m)
      <4>1. PICK j \in DOMAIN joining, k \in DOMAIN joining : l = n + j /\ m = n + k
        BY <3>2
      <4>2. joining[j] = joining[k]
        BY <1>6, <2>4, <4>1
      <4>3. j = k
        BY <4>2
      <4>4. QED
        BY <4>1, <4>3
    <3>3. CASE (Old(l) /\ New(m)) \/ (New(l) /\ Old(m))
      BY <2>2, <2>3, <2>4, <3>3 DEF Runnable
    <3>4. QED
      BY <2>1, <3>1, <3>2, <3>3
  <2>5. \A m \in DOMAIN ready' : pc'[ready'[m]] \in Runnable
    BY <2>1, <2>2, <2>3 DEF Runnable
  <2>6. QED
    BY <2>4, <2>5 DEF QueueOnce
<1>11. QED
  BY <1>1, <1>4, <1>6, <1>9, <1>10 DEF n

LEMMA HandOverKeepsOrder ==
  ASSUME WaitInv, NEW t \in Tasks, Runs(t), pc[t] = "woken", cancelled[t], parked # <<>>,
         cancelled' = [cancelled EXCEPT ![t] = FALSE],
         pc' = [pc EXCEPT ![t] = "away", ![Head(parked)] = "woken"],
         ready' = Append(Tail(ready), Head(parked)), parked' = Tail(parked),
         ahead' = [u \in Tasks |-> ahead[u] \ {Head(parked)}]
  PROVE  QueueOnce' /\ SleepersQueued' /\ Order'
<1> DEFINE next == Head(parked)
<1>1. /\ next \in Tasks /\ next = parked[1] /\ 1 \in DOMAIN parked
      /\ DOMAIN Tail(parked) = 1..(Len(parked) - 1) /\ DOMAIN parked = 1..Len(parked)
      /\ Len(parked) \in Nat
      /\ \A i \in DOMAIN Tail(parked) : Tail(parked)[i] = parked[i + 1]
  BY DEF WaitInv, Inv, TypeOK
<1>2. pc[next] = "parked" /\ next # t /\ ~cancelled[next]
  BY <1>1 DEF WaitInv, Inv, Sleepers, SleepersQueued
<1>3. Tail(ready) \in Seq(Tasks)
  BY DEF WaitInv, Inv, TypeOK, Runs
<1> HIDE DEF next
<1>4. /\ pc' = [pc EXCEPT ![t] = "away", ![next] = "woken"]
      /\ ahead' = [u \in Tasks |-> ahead[u] \ {next}]
      /\ ready' = Append(Tail(ready), next)
  BY DEF next
<1>5. ready' = Tail(ready) \o <<next>>
  BY <1>1, <1>3, <1>4, AppendIsConcat
<1>6. /\ pc'[next] = "woken" /\ pc'[t] = "away"
      /\ \A u \in Tasks \ {t} : cancelled'[u] = cancelled[u] /\ (u # next => pc'[u] = pc[u])
  BY <1>1, <1>2, <1>4 DEF WaitInv, Inv, TypeOK
<1>7. ready # << >> /\ ready[1] = t /\ ready' \in Seq(Tasks) /\ QueueOnce' /\ Slides(1)
  <2> DEFINE joining == <<next>>
  <2>1. /\ joining \in Seq(Tasks) /\ DOMAIN joining = {1} /\ joining[1] = next
        /\ ready' = Tail(ready) \o joining
    BY <1>1, <1>5
  <2> HIDE DEF joining
  <2>2. \A k \in DOMAIN joining : pc[joining[k]] = "parked" /\ pc'[joining[k]] = "woken"
    BY <1>2, <1>6, <2>1
  <2>3. \A j, k \in DOMAIN joining : joining[j] = joining[k] => j = k
    BY <2>1
  <2>4. \A u \in Tasks : u # t /\ pc[u] # "parked" => pc'[u] = pc[u]
    BY <1>2, <1>6
  <2>5. QED
    BY <2>1, <2>2, <2>3, <2>4, QueueTurns DEF WaitInv, Inv
<1>8. ASSUME NEW k \in DOMAIN parked, k # 1
      PROVE  k - 1 \in DOMAIN parked' /\ parked'[k - 1] = parked[k]
  <2> DEFINE m == k - 1
  <2>1. m \in DOMAIN Tail(parked) /\ m + 1 = k
    BY <1>1, <1>8
  <2> HIDE DEF m
  <2>2. m \in DOMAIN parked' /\ parked'[m] = parked[k]
    BY <1>1, <2>1
  <2>3. QED
    BY <2>2 DEF m
<1>9. SleepersQueued'
  <2>1. ASSUME NEW u \in Tasks, pc'[u] = "parked"
        PROVE  ~cancelled'[u] /\ \E k \in DOMAIN parked' : parked'[k] = u
    <3>1. u # t /\ u # next /\ pc[u] = "parked"
      BY <1>6, <2>1
    <3>2. PICK k \in DOMAIN parked : parked[k] = u /\ ~cancelled[u]
      BY <3>1 DEF WaitInv, SleepersQueued
    <3>3. k # 1
      BY <1>1, <3>1, <3>2
    <3>4. QED
      BY <1>6, <1>8, <3>1, <3>2, <3>3, SMTT(30)
  <2>2. QED
    BY <2>1 DEF SleepersQueued
<1>10. ASSUME NEW x \in Tasks, NEW u \in ahead'[x] PROVE Behind(u, x)'
  <2>1. u \in Tasks /\ u # next /\ Behind(u, x)
    BY <1>4, <1>10 DEF WaitInv, Inv, TypeOK, Order
  <2>2. x # t /\ u # t
    BY <2>1, BehindWaits DEF WaitInv, Inv
  <2>3. ASSUME Before(u, x)
        PROVE  \E i, j \in DOMAIN parked : i < j /\ i # 1 /\ j # 1 /\ parked[i] = u /\ parked[j] = x
    <3>1. PICK i, j \in DOMAIN parked : i < j /\ parked[i] = u /\ parked[j] = x
      BY <2>3 DEF Before
    <3>2. i # 1 /\ j # 1
      BY <1>1, <2>1, <3>1
    <3>3. QED
      BY <3>1, <3>2
  <2>4. x # next
    <3>1. ASSUME x = next PROVE FALSE
      <4>1. Before(u, x)
        BY <1>2, <2>1, <3>1 DEF Behind
      <4>2. PICK j \in DOMAIN parked : j # 1 /\ parked[j] = x
        BY <2>3, <4>1
      <4>3. QED
        BY <1>1, <3>1, <4>2 DEF WaitInv, Inv, Sleepers
    <3>2. QED
      BY <3>1
  <2>5. ASSUME Before(u, x) PROVE Before(u, x)'
    <3>1. PICK i, j \in DOMAIN parked : i < j /\ i # 1 /\ j # 1 /\ parked[i] = u /\ parked[j] = x
      BY <2>3, <2>5
    <3>2. i - 1 < j - 1
      BY <1>1, <3>1
    <3>3. QED
      BY <1>8, <3>1, <3>2 DEF Before
  <2>6. QED
    BY <1>6, <1>7, <2>1, <2>2, <2>4, <2>5, OthersKept DEF WaitInv, Inv, TypeOK
<1>11. QED
  BY <1>7, <1>9, <1>10 DEF Order

LEMMA FinishKeepsOrder ==
  ASSUME WaitInv, NEW t \in Tasks, Finish(t)
  PROVE  QueueOnce' /\ SleepersQueued' /\ Order'
<1>1. /\ Runs(t) /\ pc[t] = "returning" /\ ready' = Tail(ready) \o parked /\ parked' = << >>
      /\ pc' = [u \in Tasks |-> IF u = t THEN "away" ELSE IF pc[u] = "parked" THEN "woken" ELSE pc[u]]
      /\ cancelled' = [cancelled EXCEPT ![t] = FALSE] /\ UNCHANGED ahead
  BY DEF Finish, Release
<1>2. /\ parked \in Seq(Tasks) /\ DOMAIN parked = 1..Len(parked) /\ Len(parked) \in Nat
      /\ \A k \in DOMAIN parked : parked[k] \in Tasks /\ pc[parked[k]] = "parked" /\ pc'[parked[k]] = "woken"
  <2>1. /\ parked \in Seq(Tasks) /\ DOMAIN parked = 1..Len(parked) /\ Len(parked) \in Nat
        /\ \A k \in DOMAIN parked : parked[k] \in Tasks /\ pc[parked[k]] = "parked"
    BY DEF WaitInv, Inv, TypeOK, Sleepers
  <2>2. QED
    BY <1>1, <2>1
<1>3. /\ ready # << >> /\ ready[1] = t /\ ready' \in Seq(Tasks) /\ QueueOnce' /\ Slides(1)
      /\ \A k \in DOMAIN parked : /\ Len(ready) - 1 + k \in DOMAIN ready'
                                 /\ ready'[Len(ready) - 1 + k] = parked[k]
  <2>1. \A j, k \in DOMAIN parked : parked[j] = parked[k] => j = k
    BY DEF WaitInv, Inv, Sleepers
  <2>2. \A u \in Tasks : u # t /\ pc[u] # "parked" => pc'[u] = pc[u]
    BY <1>1
  <2> DEFINE joining == parked
  <2>3. /\ TypeOK /\ QueueOnce /\ Runs(t) /\ joining \in Seq(Tasks)
        /\ ready' = Tail(ready) \o joining
        /\ \A k \in DOMAIN joining : pc[joining[k]] = "parked" /\ pc'[joining[k]] = "woken"
        /\ \A j, k \in DOMAIN joining : joining[j] = joining[k] => j = k
    BY <1>1, <1>2, <2>1 DEF WaitInv, Inv
  <2> HIDE DEF joining
  <2>4. /\ ready # << >> /\ ready[1] = t /\ ready' \in Seq(Tasks) /\ QueueOnce' /\ Slides(1)
        /\ \A k \in DOMAIN joining : /\ Len(ready) - 1 + k \in DOMAIN ready'
                                     /\ ready'[Len(ready) - 1 + k] = joining[k]
    BY ONLY <2>2, <2>3, QueueTurns
  <2>5. QED
    BY <2>4 DEF joining
<1>4. SleepersQueued'
  BY <1>1 DEF SleepersQueued
<1>5. \A u \in Tasks \ {t} : cancelled'[u] = cancelled[u] /\ (pc[u] # "parked" => pc'[u] = pc[u])
                            /\ (pc[u] = "parked" => pc'[u] = "woken")
  BY <1>1 DEF WaitInv, Inv, TypeOK
<1>6. \A x \in Tasks : ~Foremost(x)
  <2>1. ASSUME NEW x \in Tasks, Foremost(x) PROVE FALSE
    <3>1. PICK j \in DOMAIN ready : \A k \in 1..j : pc[ready[k]] = "woken"
      BY <2>1 DEF Foremost
    <3>2. 1 \in 1..j
      BY DEF WaitInv, Inv, TypeOK
    <3>3. QED
      BY <1>1, <1>3, <3>1, <3>2
  <2>2. QED
    BY <2>1
<1>7. ASSUME NEW u \in Tasks, NEW x \in Tasks, Before(u, x) PROVE InRow(u, x)'
  <2>1. PICK i, j \in DOMAIN parked : i < j /\ parked[i] = u /\ parked[j] = x
    BY <1>7 DEF Before
  <2> DEFINE n == Len(ready) - 1
  <2>2. n \in Int /\ n + i < n + j
    BY <1>2, <2>1 DEF WaitInv, Inv, TypeOK
  <2>3. \A k \in DOMAIN parked : n + k \in DOMAIN ready' /\ ready'[n + k] = parked[k]
    BY <1>3
  <2> HIDE DEF n
  <2>4. ASSUME NEW m \in (n + i)..(n + j) PROVE pc'[ready'[m]] = "woken"
    <3> DEFINE k == m - n
    <3>1. k \in DOMAIN parked /\ n + k = m
      BY <1>2, <2>1, <2>2
    <3> HIDE DEF k
    <3>2. QED
      BY <1>2, <2>3, <3>1
  <2>5. QED
    BY <2>1, <2>2, <2>3, <2>4 DEF InRow
<1>8. ASSUME NEW x \in Tasks, NEW u \in ahead'[x] PROVE Behind(u, x)'
  <2>1. u \in Tasks /\ Behind(u, x)
    BY <1>1, <1>8 DEF WaitInv, Inv, TypeOK, Order
  <2>2. x # t /\ u # t
    BY <1>1, <2>1, BehindWaits DEF WaitInv, Inv, Waiting
  <2>3. CASE pc[u] = "parked"
    <3>1. pc[x] = "parked" /\ Before(u, x)
      BY <1>6, <2>1, <2>3 DEF Behind
    <3>2. InRow(u, x)'
      BY <1>7, <2>1, <3>1
    <3>3. QED
      BY <1>5, <2>1, <2>2, <2>3, <3>1, <3>2 DEF Behind
  <2>4. CASE pc[u] # "parked"
    <3>1. pc[u] = "woken" /\ pc[x] = "woken" /\ InRow(u, x)
      BY <2>1, <2>4 DEF Behind
    <3>2. InRow(u, x)'
      BY <1>3, <2>2, <3>1, RowKept DEF WaitInv, Inv, TypeOK
    <3>3. QED
      BY <1>5, <2>1, <2>2, <3>1, <3>2 DEF Behind
  <2>5. QED
    BY <2>3, <2>4
<1>9. QED
  BY <1>3, <1>4, <1>8 DEF Order

LEMMA WaitInvInit == Init => WaitInv
<1> SUFFICES ASSUME Init PROVE WaitInv
  OBVIOUS
<1>1. QueueOnce /\ SleepersQueued /\ Order
  BY DEF Init, QueueOnce, SleepersQueued, Order
<1>2. QED
  BY <1>1, InvInit DEF WaitInv

LEMMA WaitInvStep == WaitInv /\ [Next]_vars => WaitInv'
<1> SUFFICES ASSUME WaitInv, [Next]_vars PROVE WaitInv'
  OBVIOUS
<1> DEFINE Kept == QueueOnce' /\ SleepersQueued' /\ Order'
<1>1. ASSUME UNCHANGED vars PROVE Kept
  BY <1>1 DEF vars, WaitInv, QueueOnce, SleepersQueued, Order, Behind, Before, InRow, Foremost
<1>2. ASSUME Run PROVE Kept
  <2>1. ASSUME NEW t \in Tasks, LeaveCancelled(t) PROVE Kept
    <3>1. /\ Runs(t) /\ cancelled[t] /\ cancelled' = [cancelled EXCEPT ![t] = FALSE]
          /\ \/ /\ pc' = [pc EXCEPT ![t] = "away"]
                /\ ready' = Tail(ready)
                /\ UNCHANGED <<parked, ahead>>
             \/ /\ pc[t] = "woken" /\ parked # <<>>
                /\ pc' = [pc EXCEPT ![t] = "away", ![Head(parked)] = "woken"]
                /\ ready' = Append(Tail(ready), Head(parked))
                /\ parked' = Tail(parked)
                /\ ahead' = [u \in Tasks |-> ahead[u] \ {Head(parked)}]
      BY <2>1 DEF LeaveCancelled
    <3>2. QED
      BY <3>1, LeaveAloneKeepsOrder, HandOverKeepsOrder
  <2>2. QED
    BY <1>2, <2>1, EnterKeepsOrder, ParkKeepsOrder, FinishKeepsOrder DEF Run
<1>3. ASSUME NEW t \in Tasks, Arrive(t) \/ Respond(t) \/ Cancel(t) PROVE Kept
  BY <1>3, JoinKeepsOrder, CancelRunnableKeepsOrder, CancelParkedKeepsOrder DEF Cancel
<1>4. Inv'
  BY InvStep DEF WaitInv
<1>5. QED
  BY <1>1, <1>2, <1>3, <1>4 DEF Next, WaitInv

LEMMA WaitInvAlways == Spec => []WaitInv
BY WaitInvInit, WaitInvStep, PTL DEF Spec

\* A waiter that gets in is the first of the loop's queue: whoever slept before it and
\* still waits would be woken ahead of it there, or sleep, and then the gate is full.
LEMMA EnterIsInOrder ==
  ASSUME WaitInv, NEW t \in Tasks, pc[t] = "woken", Enter(t)
  PROVE  ahead[t] = {}
<1> SUFFICES ASSUME NEW u \in ahead[t] PROVE FALSE
  OBVIOUS
<1>1. u \in Tasks /\ Behind(u, t)
  BY DEF WaitInv, Inv, TypeOK, Order
<1>2. ready # << >> /\ ready[1] = t /\ activeTasks < DynamicLimit
  BY DEF Enter, Runs, WaitInv, Inv, TypeOK
<1>3. ~InRow(u, t)
  BY <1>2, FirstIsNotBehind DEF WaitInv, Inv
<1>4. pc[u] = "parked"
  BY <1>1, <1>3 DEF Behind
<1>5. parked # << >>
  BY <1>1, <1>4 DEF WaitInv, SleepersQueued
<1>6. activeTasks >= DynamicLimit
  BY <1>5 DEF WaitInv, Inv, NoIdleSlot
<1>7. DynamicLimit \in Nat /\ activeTasks \in Int
  BY LimitIsPositive DEF WaitInv, Inv, TypeOK
<1>8. QED
  BY <1>2, <1>6, <1>7

\* Whatever wakes, is cancelled and goes back to sleep, no waiter gets in before one that
\* was asleep when it came.
THEOREM NobodyOvertakesASleeper == Spec => WaitersInOrder
<1>1. WaitInv /\ [Next]_vars
        => [\A t \in Tasks : pc[t] = "woken" /\ pc'[t] = "inside" => ahead[t] = {}]_vars
  <2> SUFFICES ASSUME WaitInv, Next, NEW t \in Tasks, pc[t] = "woken", pc'[t] = "inside"
               PROVE  ahead[t] = {}
    BY DEF vars
  <2>1. PICK x \in Tasks : Enter(x) \/ Park(x) \/ LeaveCancelled(x) \/ Finish(x)
                           \/ Arrive(x) \/ Respond(x) \/ Cancel(x)
    BY DEF Next, Run
  <2>2. CASE Enter(x)
    <3>1. x = t
      BY <2>2 DEF Enter, WaitInv, Inv, TypeOK
    <3>2. QED
      BY <2>2, <3>1, EnterIsInOrder
  <2>3. CASE LeaveCancelled(x)
    <3>1. pc' = [pc EXCEPT ![x] = "away"]
            \/ pc' = [pc EXCEPT ![x] = "away", ![Head(parked)] = "woken"]
      BY <2>3 DEF LeaveCancelled
    <3>2. QED
      BY <3>1 DEF WaitInv, Inv, TypeOK
  <2>4. CASE Park(x) \/ Finish(x) \/ Arrive(x) \/ Respond(x) \/ Cancel(x)
    BY <2>4 DEF WaitInv, Inv, TypeOK, Park, Finish, Release, Arrive, Respond, Cancel,
                CancelRunnable, CancelInside, CancelParked
  <2>5. QED
    BY <2>1, <2>2, <2>3, <2>4
<1>2. QED
  BY <1>1, WaitInvAlways, PTL DEF Spec, WaitersInOrder

-----------------------------------------------------------------------------
\* Nobody is forgotten

Queues(s, u) == \E i \in DOMAIN s : s[i] = u

\* Whoever is to run is in the loop's queue: no wake-up is lost.
Queued == \A t \in Tasks : pc[t] \in Runnable => Queues(ready, t)

LEMMA QueuesAppended ==
  ASSUME NEW S, NEW s \in Seq(S), NEW x \in S
  PROVE  Queues(Append(s, x), x) /\ \A u : Queues(s, u) => Queues(Append(s, x), u)
<1>1. /\ DOMAIN s = 1..Len(s) /\ Len(s) \in Nat /\ DOMAIN Append(s, x) = 1..(Len(s) + 1)
      /\ \A k \in 1..Len(s) : Append(s, x)[k] = s[k]
      /\ Append(s, x)[Len(s) + 1] = x
  BY AppendProperties
<1> DEFINE n == Len(s)
           longer == Append(s, x)
<1>2. /\ DOMAIN s = 1..n /\ n \in Nat /\ DOMAIN longer = 1..(n + 1)
      /\ \A k \in 1..n : longer[k] = s[k]
      /\ longer[n + 1] = x
  BY <1>1
<1> HIDE DEF n, longer
<1>3. n + 1 \in DOMAIN longer /\ \A k \in DOMAIN s : k \in DOMAIN longer
  BY <1>2
<1>4. Queues(longer, x) /\ \A u : Queues(s, u) => Queues(longer, u)
  BY <1>2, <1>3 DEF Queues
<1>5. QED
  BY <1>4 DEF longer

LEMMA QueuesInTail ==
  ASSUME NEW S, NEW s \in Seq(S), s # << >>
  PROVE  /\ Tail(s) \in Seq(S) /\ Head(s) \in S
         /\ \A u : Queues(s, u) => u = Head(s) \/ Queues(Tail(s), u)
<1> DEFINE rest == Tail(s)
           n == Len(s)
<1>1. /\ rest \in Seq(S) /\ Head(s) = s[1] /\ Head(s) \in S /\ n \in Nat /\ DOMAIN s = 1..n
      /\ DOMAIN rest = 1..(n - 1) /\ \A k \in 1..(n - 1) : rest[k] = s[k + 1]
  OBVIOUS
<1> HIDE DEF rest, n
<1>2. ASSUME NEW u, NEW k \in DOMAIN s, s[k] = u, u # s[1] PROVE Queues(rest, u)
  <2> DEFINE m == k - 1
  <2>1. k # 1
    BY <1>2
  <2>2. m \in 1..(n - 1) /\ m + 1 = k
    BY <1>1, <2>1
  <2> HIDE DEF m
  <2>3. m \in DOMAIN rest /\ rest[m] = u
    BY <1>1, <1>2, <2>2
  <2>4. QED
    BY <2>3 DEF Queues
<1>3. \A u : Queues(s, u) => u = Head(s) \/ Queues(rest, u)
  BY <1>1, <1>2 DEF Queues
<1>4. QED
  BY <1>1, <1>3 DEF rest

LEMMA QueuesJoined ==
  ASSUME NEW S, NEW s \in Seq(S), NEW t \in Seq(S)
  PROVE  \A u : Queues(s, u) \/ Queues(t, u) => Queues(s \o t, u)
<1> DEFINE both == s \o t
           m == Len(s)
           n == Len(t)
<1>1. /\ DOMAIN s = 1..m /\ DOMAIN t = 1..n /\ m \in Nat /\ n \in Nat /\ DOMAIN both = 1..(m + n)
      /\ \A k \in 1..(m + n) : both[k] = IF k <= m THEN s[k] ELSE t[k - m]
  BY ConcatProperties
<1> HIDE DEF both, m, n
<1>2. ASSUME NEW k \in DOMAIN s PROVE k \in DOMAIN both /\ both[k] = s[k]
  BY <1>1
<1>3. ASSUME NEW k \in DOMAIN t PROVE m + k \in DOMAIN both /\ both[m + k] = t[k]
  <2> DEFINE j == m + k
  <2>1. j \in 1..(m + n) /\ ~(j <= m) /\ j - m = k
    BY <1>1
  <2> HIDE DEF j
  <2>2. j \in DOMAIN both /\ both[j] = t[k]
    BY <1>1, <2>1
  <2>3. QED
    BY <2>2 DEF j
<1>4. \A u : Queues(s, u) \/ Queues(t, u) => Queues(both, u)
  BY <1>2, <1>3 DEF Queues
<1>5. QED
  BY <1>4 DEF both

LEMMA QueuedStep == ASSUME WaitInv, Queued, [Next]_vars PROVE Queued'
<1>1. /\ ready \in Seq(Tasks) /\ parked \in Seq(Tasks)
      /\ pc \in [Tasks -> {"away", "arriving", "parked", "woken", "inside", "returning"}]
      /\ \A u \in Tasks : pc[u] = "parked" => Queues(parked, u)
  BY DEF WaitInv, Inv, TypeOK, SleepersQueued, Queues
<1>2. CASE UNCHANGED vars
  BY <1>2 DEF vars, Queued
<1>3. ASSUME NEW t \in Tasks, Arrive(t) \/ Respond(t) \/ CancelInside(t) \/ CancelParked(t)
      PROVE  Queued'
  <2>1. PICK s : pc' = [pc EXCEPT ![t] = s] /\ ready' = Append(ready, t)
    BY <1>3 DEF Arrive, Respond, CancelInside, CancelParked
  <2>2. QED
    BY <1>1, <2>1, QueuesAppended DEF Queued
<1>4. ASSUME NEW t \in Tasks, CancelRunnable(t) PROVE Queued'
  BY <1>4 DEF CancelRunnable, Queued
<1>5. ASSUME NEW t \in Tasks, Runs(t), NEW s \in {"inside", "parked", "away"},
             pc' = [pc EXCEPT ![t] = s], ready' = Tail(ready)
      PROVE  Queued'
  BY <1>1, <1>5, QueuesInTail DEF Queued, Runs, Runnable
<1>6. ASSUME NEW t \in Tasks, Runs(t), parked # << >>,
             pc' = [pc EXCEPT ![t] = "away", ![Head(parked)] = "woken"],
             ready' = Append(Tail(ready), Head(parked))
      PROVE  Queued'
  <2>1. Head(parked) \in Tasks /\ Tail(ready) \in Seq(Tasks)
    BY <1>1, <1>6, QueuesInTail DEF Runs
  <2> DEFINE next == Head(parked)
             rest == Tail(ready)
  <2>2. /\ next \in Tasks /\ rest \in Seq(Tasks) /\ ready' = Append(rest, next)
        /\ pc' = [pc EXCEPT ![t] = "away", ![next] = "woken"]
    BY <1>6, <2>1
  <2>3. \A u : Queues(ready, u) => u = t \/ Queues(rest, u)
    BY <1>1, <1>6, QueuesInTail DEF Runs
  <2> HIDE DEF next, rest
  <2>4. Queues(ready', next) /\ \A u : Queues(rest, u) => Queues(ready', u)
    BY <2>2, QueuesAppended
  <2>5. ASSUME NEW u \in Tasks, pc'[u] \in Runnable PROVE Queues(ready', u)
    <3>1. CASE u = next
      BY <2>4, <3>1
    <3>2. CASE u # next
      <4>1. u # t /\ pc'[u] = pc[u]
        BY <1>1, <2>2, <2>5, <3>2 DEF Runnable
      <4>2. QED
        BY <2>3, <2>4, <2>5, <4>1 DEF Queued
    <3>3. QED
      BY <3>1, <3>2
  <2>6. QED
    BY <2>5 DEF Queued
<1>7. ASSUME NEW t \in Tasks, Finish(t) PROVE Queued'
  <2>1. /\ Runs(t) /\ ready' = Tail(ready) \o parked
        /\ pc' = [u \in Tasks |-> IF u = t THEN "away"
                                  ELSE IF pc[u] = "parked" THEN "woken" ELSE pc[u]]
    BY <1>7 DEF Finish, Release
  <2>2. Tail(ready) \in Seq(Tasks) /\ \A u : Queues(ready, u) => u = t \/ Queues(Tail(ready), u)
    BY <1>1, <2>1, QueuesInTail DEF Runs
  <2>3. \A u : Queues(Tail(ready), u) \/ Queues(parked, u) => Queues(ready', u)
    BY <1>1, <2>1, <2>2, QueuesJoined
  <2>4. ASSUME NEW u \in Tasks, pc'[u] \in Runnable PROVE Queues(ready', u)
    <3>1. u # t /\ (pc[u] = "parked" \/ pc[u] \in Runnable)
      BY <2>1, <2>4 DEF Runnable
    <3>2. QED
      BY <1>1, <2>2, <2>3, <3>1 DEF Queued
  <2>5. QED
    BY <2>4 DEF Queued
<1>8. ASSUME NEW t \in Tasks, Enter(t) \/ Park(t) \/ LeaveCancelled(t) PROVE Queued'
  <2>1. CASE Enter(t) \/ Park(t)
    BY <1>5, <2>1 DEF Enter, Park
  <2>2. CASE LeaveCancelled(t)
    BY <1>5, <1>6, <2>2 DEF LeaveCancelled
  <2>3. QED
    BY <1>8, <2>1, <2>2
<1>9. QED
  BY <1>2, <1>3, <1>4, <1>7, <1>8 DEF Next, Run, Cancel

LEMMA QueuedAlways == Spec => [](WaitInv /\ Queued)
<1>1. Init => WaitInv /\ Queued
  BY WaitInvInit DEF Init, Queued, Runnable
<1>2. WaitInv /\ Queued /\ [Next]_vars => (WaitInv /\ Queued)'
  BY WaitInvStep, QueuedStep
<1>3. QED
  BY <1>1, <1>2, PTL DEF Spec

\* A waiter is in one of the two queues, and the loop has a task to run or the transport
\* has one to end: whatever is cancelled and whoever loses a race, the wake-up of a waiter
\* is not lost and no set of tasks waits for each other.
WaitersHaveAWayOn ==
  \A t \in Tasks : Waiting(t) =>
    /\ Queues(ready, t) \/ Queues(parked, t)
    /\ ready # << >> \/ \E u \in Tasks : pc[u] = "inside"

THEOREM NobodyIsForgotten == Spec => []WaitersHaveAWayOn
<1>1. ASSUME WaitInv, Queued, NEW t \in Tasks, Waiting(t)
      PROVE  /\ Queues(ready, t) \/ Queues(parked, t)
             /\ ready # << >> \/ \E u \in Tasks : pc[u] = "inside"
  <2>1. Queues(ready, t) \/ Queues(parked, t)
    BY <1>1 DEF Waiting, Queued, Runnable, WaitInv, SleepersQueued, Queues
  <2>2. \A u : Queues(ready, u) => ready # << >>
    BY DEF Queues
  <2>3. CASE Queues(ready, t)
    BY <2>1, <2>2, <2>3
  <2>4. CASE Queues(parked, t)
    <3>1. parked # << >>
      BY <2>4 DEF Queues
    <3>2. activeTasks >= DynamicLimit /\ DynamicLimit >= 1 /\ DynamicLimit \in Nat
      BY <1>1, <3>1, LimitIsPositive DEF WaitInv, Inv, NoIdleSlot, TypeOK
    <3>3. Cardinality(Holders) = activeTasks /\ activeTasks \in Int
      BY <1>1 DEF WaitInv, Inv, SlotAccounting, Holders, TypeOK
    <3>4. Holders # {}
      BY <3>2, <3>3, FS_EmptySet
    <3>5. PICK u \in Tasks : pc[u] \in {"inside", "returning"}
      BY <3>4 DEF Holders, Holding
    <3>6. QED
      BY <1>1, <2>1, <2>2, <3>5 DEF Queued, Runnable
  <2>5. QED
    BY <2>1, <2>3, <2>4
<1>2. WaitInv /\ Queued => WaitersHaveAWayOn
  BY <1>1 DEF WaitersHaveAWayOn
<1>3. QED
  BY <1>2, QueuedAlways, PTL

\* How far a task is from having left: a cancellation is a short cut.
Rank(t) ==
  IF pc[t] \in Runnable /\ cancelled[t] THEN 1
  ELSE CASE pc[t] = "away"      -> 0
         [] pc[t] = "returning" -> 2
         [] pc[t] = "inside"    -> 3
         [] pc[t] = "parked"    -> 4
         [] pc[t] = "woken"     -> 5
         [] OTHER               -> 6

\* A step takes one task on, and wakes others only if that one leaves.
LeadsOn(t) ==
  /\ Rank(t)' < Rank(t)
  /\ \A u \in Tasks \ {t} :
       \/ Rank(u)' = Rank(u)
       \/ pc'[t] = "away" /\ pc[u] = "parked" /\ pc'[u] = "woken"

LEMMA RunLeadsOn ==
  ASSUME WaitInv, NEW t \in Tasks, Enter(t) \/ Park(t) \/ LeaveCancelled(t) \/ Finish(t)
  PROVE  LeadsOn(t)
<1>1. CASE Enter(t)
  BY <1>1 DEF Enter, LeadsOn, Rank, Runnable, WaitInv, Inv, TypeOK
<1>2. CASE Park(t)
  <2>1. /\ pc' = [pc EXCEPT ![t] = "parked"] /\ pc[t] \in {"arriving", "woken"} /\ ~cancelled[t]
        /\ cancelled' = cancelled
    BY <1>2 DEF Park
  <2>2. QED
    BY <2>1 DEF LeadsOn, Rank, Runnable, WaitInv, Inv, TypeOK
<1>3. CASE LeaveCancelled(t)
  <2>1. /\ pc[t] \in {"arriving", "woken"} /\ cancelled[t] /\ cancelled' = [cancelled EXCEPT ![t] = FALSE]
        /\ \/ pc' = [pc EXCEPT ![t] = "away"]
           \/ parked # << >> /\ pc' = [pc EXCEPT ![t] = "away", ![Head(parked)] = "woken"]
    BY <1>3 DEF LeaveCancelled
  <2>2. parked # << >> => Head(parked) \in Tasks /\ pc[Head(parked)] = "parked"
    BY DEF WaitInv, Inv, TypeOK, Sleepers
  <2> DEFINE next == Head(parked)
  <2> HIDE DEF next
  <2>3. \/ pc' = [pc EXCEPT ![t] = "away"]
        \/ next \in Tasks /\ pc[next] = "parked" /\ pc' = [pc EXCEPT ![t] = "away", ![next] = "woken"]
    BY <2>1, <2>2 DEF next
  <2>4. QED
    BY <2>1, <2>3 DEF LeadsOn, Rank, Runnable, WaitInv, Inv, TypeOK
<1>4. CASE Finish(t)
  <2>1. /\ pc[t] = "returning" /\ cancelled' = [cancelled EXCEPT ![t] = FALSE]
        /\ pc' = [u \in Tasks |-> IF u = t THEN "away"
                                  ELSE IF pc[u] = "parked" THEN "woken" ELSE pc[u]]
    BY <1>4 DEF Finish, Release
  <2>2. QED
    BY <2>1 DEF LeadsOn, Rank, Runnable, WaitInv, Inv, TypeOK
<1>5. QED
  BY <1>1, <1>2, <1>3, <1>4

LEMMA OutsideLeadsOn ==
  ASSUME WaitInv, NEW t \in Tasks, Respond(t) \/ Cancel(t) PROVE LeadsOn(t)
<1>1. CASE Respond(t)
  BY <1>1 DEF Respond, LeadsOn, Rank, Runnable, WaitInv, Inv, TypeOK
<1>2. CASE CancelRunnable(t)
  BY <1>2 DEF CancelRunnable, LeadsOn, Rank, Runnable, WaitInv, Inv, TypeOK
<1>3. CASE CancelInside(t)
  BY <1>3 DEF CancelInside, LeadsOn, Rank, Runnable, WaitInv, Inv, TypeOK
<1>4. CASE CancelParked(t)
  <2>1. /\ pc[t] = "parked" /\ cancelled' = [cancelled EXCEPT ![t] = TRUE]
        /\ pc' = [pc EXCEPT ![t] = "woken"]
    BY <1>4 DEF CancelParked, WaitInv, Inv, Sleepers
  <2>2. QED
    BY <2>1 DEF LeadsOn, Rank, Runnable, WaitInv, Inv, TypeOK
<1>5. QED
  BY <1>1, <1>2, <1>3, <1>4 DEF Cancel

\* The part of WaitersDrain that needs no fairness.  While no calls arrive, every step
\* brings one task nearer to its end, and a waiter is only sent round again by a task that
\* has left: woken in vain at most once for each of the others.
THEOREM WakeUpsArePaidFor ==
  Spec => [][\E t \in Tasks : Arrive(t) \/ LeadsOn(t)]_vars
<1>1. WaitInv /\ [Next]_vars => [\E t \in Tasks : Arrive(t) \/ LeadsOn(t)]_vars
  BY RunLeadsOn, OutsideLeadsOn DEF Next, Run
<1>2. QED
  BY <1>1, WaitInvAlways, PTL DEF Spec

=============================================================================
