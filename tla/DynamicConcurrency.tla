------------------------- MODULE DynamicConcurrency -------------------------
(***************************************************************************)
(* DynamicConcurrencyLimiter (src/network/concurrency.py): at most         *)
(* max(1, int(rate)) requests of a provider in flight, on an               *)
(* asyncio.Condition, with a rate that the requests themselves change.     *)
(*                                                                         *)
(* asyncio runs one task at a time, from one await that really suspends to *)
(* the next, in the order of the event loop's ready queue.  No task ever   *)
(* suspends while it holds the condition's lock (only wait() suspends, and *)
(* it gives the lock up), so the lock is never contended and does not      *)
(* appear: a step of this module is one run of the task at the head of     *)
(* ready.                                                                  *)
(***************************************************************************)
EXTENDS Integers, Sequences, FiniteSets

CONSTANTS
  Tasks,     (* the tasks that call the provider                           *)
  RateUnit,  (* one request per second, in units of rate                   *)
  MinRate,   (* min_rate of the adaptive limiter                           *)
  HardCap    (* hard_cap of the adaptive limiter                           *)

ASSUME GateUnits ==
  /\ IsFiniteSet(Tasks)
  /\ RateUnit \in Nat \ {0}
  /\ MinRate \in Nat \ {0}
  /\ HardCap \in Nat /\ HardCap >= MinRate

VARIABLES
  rate,        (* self.rate_limiter.rate                                   *)
  activeTasks, (* self.active_tasks                                        *)
  pc,          (* pc[t]: "away" (elsewhere, or asleep in the rate limiter),*)
               (* "arriving" (about to call acquire), "parked" (in wait()),*)
               (* "woken", "inside" (awaiting the transport), "returning"  *)
  cancelled,   (* cancelled[t]: a CancelledError awaits t's next run       *)
  ready,       (* the event loop's queue of runnable tasks                 *)
  parked,      (* self.condition._waiters                                  *)
  ahead        (* history: ahead[t], the tasks already asleep in wait()    *)
               (* when t began to wait, and still waiting                  *)

vars == <<rate, activeTasks, pc, cancelled, ready, parked, ahead>>

-----------------------------------------------------------------------------

Larger(a, b) == IF a >= b THEN a ELSE b

DynamicLimit == Larger(1, rate \div RateUnit)

NoLongerAhead(t) == [u \in Tasks |-> IF u = t THEN {} ELSE ahead[u] \ {t}]

Waiting(t) == pc[t] \in {"parked", "woken"}
Holding(t) == pc[t] \in {"inside", "returning"}

-----------------------------------------------------------------------------

Init ==
  /\ rate \in MinRate..HardCap
  /\ activeTasks = 0
  /\ pc = [t \in Tasks |-> "away"]
  /\ cancelled = [t \in Tasks |-> FALSE]
  /\ ready = <<>>
  /\ parked = <<>>
  /\ ahead = [t \in Tasks |-> {}]

\* A timer, a caller or a retry makes the task runnable, before acquire().
Arrive(t) ==
  /\ pc[t] = "away"
  /\ pc' = [pc EXCEPT ![t] = "arriving"]
  /\ ready' = Append(ready, t)
  /\ UNCHANGED <<rate, activeTasks, cancelled, parked, ahead>>

\* The transport has the response, or an error, for t.
Respond(t) ==
  /\ pc[t] = "inside"
  /\ pc' = [pc EXCEPT ![t] = "returning"]
  /\ ready' = Append(ready, t)
  /\ UNCHANGED <<rate, activeTasks, cancelled, parked, ahead>>

\* Task.cancel().  A task that waits for a future is made runnable, one that is
\* runnable already keeps its place.
CancelRunnable(t) ==
  /\ pc[t] \in {"arriving", "woken", "returning"} /\ ~cancelled[t]
  /\ cancelled' = [cancelled EXCEPT ![t] = TRUE]
  /\ ahead' = NoLongerAhead(t)
  /\ UNCHANGED <<rate, activeTasks, pc, ready, parked>>

CancelInside(t) ==
  /\ pc[t] = "inside"
  /\ cancelled' = [cancelled EXCEPT ![t] = TRUE]
  /\ pc' = [pc EXCEPT ![t] = "returning"]
  /\ ready' = Append(ready, t)
  /\ UNCHANGED <<rate, activeTasks, parked, ahead>>

CancelParked(t) == \E i \in DOMAIN parked :
  /\ parked[i] = t
  /\ cancelled' = [cancelled EXCEPT ![t] = TRUE]
  /\ pc' = [pc EXCEPT ![t] = "woken"]
  /\ ready' = Append(ready, t)
  /\ parked' = SubSeq(parked, 1, i - 1) \o SubSeq(parked, i + 1, Len(parked))
  /\ ahead' = NoLongerAhead(t)
  /\ UNCHANGED <<rate, activeTasks>>

Cancel(t) == CancelRunnable(t) \/ CancelInside(t) \/ CancelParked(t)

Runs(t) == ready # <<>> /\ t = Head(ready)

\* Mutant: a woken waiter does not test the condition again.
EnterUnchecked(t) ==
  /\ Runs(t) /\ pc[t] \in {"arriving", "woken"} /\ ~cancelled[t]
  /\ pc[t] = "arriving" => activeTasks < DynamicLimit
  /\ activeTasks' = activeTasks + 1
  /\ pc' = [pc EXCEPT ![t] = "inside"]
  /\ ready' = Tail(ready)
  /\ ahead' = NoLongerAhead(t)
  /\ UNCHANGED <<rate, cancelled, parked>>

\* acquire(), from its start or from the return of wait(), finds a free slot.
Enter(t) ==
  /\ Runs(t) /\ pc[t] \in {"arriving", "woken"} /\ ~cancelled[t]
  /\ activeTasks < DynamicLimit
  /\ activeTasks' = activeTasks + 1
  /\ pc' = [pc EXCEPT ![t] = "inside"]
  /\ ready' = Tail(ready)
  /\ ahead' = NoLongerAhead(t)
  /\ UNCHANGED <<rate, cancelled, parked>>

Park(t) ==
  /\ Runs(t) /\ pc[t] \in {"arriving", "woken"} /\ ~cancelled[t]
  /\ activeTasks >= DynamicLimit
  /\ pc' = [pc EXCEPT ![t] = "parked"]
  /\ ready' = Tail(ready)
  /\ parked' = Append(parked, t)
  /\ ahead' = IF pc[t] = "arriving"
              THEN [ahead EXCEPT ![t] = {u \in Tasks : pc[u] = "parked"}]
              ELSE ahead
  /\ UNCHANGED <<rate, activeTasks, cancelled>>

\* Mutant: a task that is cancelled before it got in releases a slot too.
LeaveReleasing(t) ==
  /\ Runs(t) /\ pc[t] \in {"arriving", "woken"} /\ cancelled[t]
  /\ cancelled' = [cancelled EXCEPT ![t] = FALSE]
  /\ pc' = [pc EXCEPT ![t] = "away"]
  /\ ready' = Tail(ready)
  /\ activeTasks' = activeTasks - 1
  /\ UNCHANGED <<rate, parked, ahead>>

\* Some versions of asyncio pass a cancelled waiter's wake-up on to the first that
\* sleeps; when it finds no slot it goes back to wait behind the others.
LeaveCancelled(t) ==
  /\ Runs(t) /\ pc[t] \in {"arriving", "woken"} /\ cancelled[t]
  /\ cancelled' = [cancelled EXCEPT ![t] = FALSE]
  /\ \/ /\ pc' = [pc EXCEPT ![t] = "away"]
        /\ ready' = Tail(ready)
        /\ UNCHANGED <<parked, ahead>>
     \/ /\ pc[t] = "woken" /\ parked # <<>>
        /\ pc' = [pc EXCEPT ![t] = "away", ![Head(parked)] = "woken"]
        /\ ready' = Append(Tail(ready), Head(parked))
        /\ parked' = Tail(parked)
        /\ ahead' = [u \in Tasks |-> ahead[u] \ {Head(parked)}]
  /\ UNCHANGED <<rate, activeTasks>>

\* Mutants: nobody is notified; one waiter is; all are, the last one first.
ReleaseSilently(t) ==
  /\ activeTasks' = activeTasks - 1
  /\ pc' = [pc EXCEPT ![t] = "away"]
  /\ ready' = Tail(ready)
  /\ UNCHANGED parked

ReleaseNotifyingOne(t) ==
  /\ activeTasks' = activeTasks - 1
  /\ IF parked = <<>>
     THEN pc' = [pc EXCEPT ![t] = "away"] /\ ready' = Tail(ready) /\ UNCHANGED parked
     ELSE /\ pc' = [pc EXCEPT ![t] = "away", ![Head(parked)] = "woken"]
          /\ ready' = Append(Tail(ready), Head(parked))
          /\ parked' = Tail(parked)

ReleaseLastFirst(t) ==
  /\ activeTasks' = activeTasks - 1
  /\ pc' = [u \in Tasks |-> IF u = t THEN "away"
                            ELSE IF pc[u] = "parked" THEN "woken" ELSE pc[u]]
  /\ ready' = Tail(ready) \o [k \in DOMAIN parked |-> parked[Len(parked) + 1 - k]]
  /\ parked' = <<>>

\* release(): one slot less, notify_all.
Release(t) ==
  /\ activeTasks' = activeTasks - 1
  /\ pc' = [u \in Tasks |-> IF u = t THEN "away"
                            ELSE IF pc[u] = "parked" THEN "woken" ELSE pc[u]]
  /\ ready' = Tail(ready) \o parked
  /\ parked' = <<>>

Risen == rate..HardCap

\* The body of limit() ends: the outcome moves the rate, then the slot is given
\* back, in one run of the task.
Finish(t) ==
  /\ Runs(t) /\ pc[t] = "returning"
  /\ \/ ~cancelled[t] /\ rate' \in Risen           \* record_success
     \/ ~cancelled[t] /\ rate' \in MinRate..rate   \* record_429
     \/ UNCHANGED rate                             \* any other error
  /\ Release(t)
  /\ cancelled' = [cancelled EXCEPT ![t] = FALSE]
  /\ UNCHANGED ahead

Run == \E t \in Tasks : Enter(t) \/ Park(t) \/ LeaveCancelled(t) \/ Finish(t)

Next == Run \/ \E t \in Tasks : Arrive(t) \/ Respond(t) \/ Cancel(t)

Spec == Init /\ [][Next]_vars

\* The event loop keeps running, and the transport's timeouts end every request.
FairSpec == Spec /\ WF_vars(Run) /\ \A t \in Tasks : WF_vars(Respond(t))

-----------------------------------------------------------------------------

TypeOK ==
  /\ rate \in MinRate..HardCap
  /\ activeTasks \in Int
  /\ pc \in [Tasks -> {"away", "arriving", "parked", "woken", "inside", "returning"}]
  /\ cancelled \in [Tasks -> BOOLEAN]
  /\ ready \in Seq(Tasks) /\ parked \in Seq(Tasks)
  /\ ahead \in [Tasks -> SUBSET Tasks]

\* Through errors, cancellations and lost races the counter is the number of
\* tasks that hold a slot: no slot is leaked, none is given back twice.
SlotAccounting == activeTasks = Cardinality({t \in Tasks : Holding(t)})

\* Nobody sleeps while a slot is free: a task waits in the condition only as long
\* as the slots in use reach the limit of the moment.
NoIdleSlot == parked # <<>> => activeTasks >= DynamicLimit

Abstract == INSTANCE ConcurrencyGate WITH inside <- {t \in Tasks : Holding(t)}

\* Whatever order tasks arrive, wake up, are cancelled and fail in, the condition
\* variable is a gate: a task gets in only below the limit of the moment, also when
\* a 429 has just lowered it under the number inside, and moves the rate only as it
\* leaves.
GateIsImplemented == Abstract!Spec

\* A waiter never overtakes one that was asleep in wait() before it, though each
\* release wakes all of them and sends most back to wait.  (It may overtake one
\* that was awake when it began to wait, or that a cancellation woke.)
WaitersInOrder ==
  [][\A t \in Tasks : pc[t] = "woken" /\ pc'[t] = "inside" => ahead[t] = {}]_vars

\* When no more calls come in, every waiter gets a slot or is cancelled.  While
\* calls keep coming it may not: a newcomer that the loop runs first takes the slot.
WaitersDrain ==
  <>[][\A t \in Tasks : ~Arrive(t)]_vars => \A t \in Tasks : []<>~Waiting(t)

=============================================================================
