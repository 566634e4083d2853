--------------------------- MODULE TokenSchedule ---------------------------
(***************************************************************************)
(* AdaptiveRateLimiter.acquire (src/network/limiter.py): a token bucket    *)
(* that books.  A call that finds no token takes the next future one: it   *)
(* moves last_refill ahead of the clock and sleeps until then, once, with  *)
(* no second look at the bucket.  So what the limiter hands out is a       *)
(* schedule of send times, and it cannot be taken back: a 429 lowers the   *)
(* rate of later bookings only, and a cancelled sleeper leaves its booking *)
(* in place.                                                               *)
(*                                                                         *)
(* Time is counted in ticks, a token is One units, the rate is units per   *)
(* tick; a sleep is rounded up to a whole tick.                            *)
(***************************************************************************)
EXTENDS Integers, Sequences, FiniteSets

CONSTANTS
  One,       (* units in one token                                         *)
  Capacity,  (* units in a full bucket: AIMD_BURST_CAPACITY tokens         *)
  MinRate,   (* min_rate                                                   *)
  HardCap,   (* hard_cap                                                   *)
  MaxTime,   (* bound: the clock stops here                                *)
  MaxCalls,  (* bound: calls booked                                        *)
  MaxRuns    (* bound: processes started                                   *)

ASSUME ScheduleUnits ==
  /\ One \in Nat \ {0}
  /\ Capacity \in Nat /\ Capacity >= One
  /\ MinRate \in Nat \ {0}
  /\ HardCap \in Nat /\ HardCap >= MinRate
  /\ MaxTime \in Nat /\ MaxCalls \in Nat /\ MaxRuns \in Nat

VARIABLES
  now,        (* time.monotonic()                                          *)
  rate,       (* self.rate                                                 *)
  tokens,     (* self.tokens                                               *)
  lastRefill, (* self.last_refill                                          *)
  run,        (* number of restarts so far                                 *)
  booked      (* history: the send times handed out, in the order of the   *)
              (* acquire calls, with the rate and the run they were booked *)
              (* in and whether the call had to sleep                      *)

vars == <<now, rate, tokens, lastRefill, run, booked>>

-----------------------------------------------------------------------------

Smaller(a, b) == IF a <= b THEN a ELSE b
RoundedUp(a, b) == (a + b - 1) \div b

\* Mutant: a refill that overfills.
RefilledWithoutBound == tokens + (now - lastRefill) * rate

\* The bucket brought up to date.  Ahead of the clock, while bookings are
\* outstanding, the elapsed time is negative and so is the level.
Refilled == Smaller(Capacity, tokens + (now - lastRefill) * rate)

\* Mutant: a level below zero, where callers are asleep, is taken for zero.
WaitFromEmpty == RoundedUp(One - (IF Refilled < 0 THEN 0 ELSE Refilled), rate)

Wait == RoundedUp(One - Refilled, rate)

Bookings == [at : Nat, rate : MinRate..HardCap, run : Nat, slept : BOOLEAN]

Booking(t, slept) == [at |-> t, rate |-> rate, run |-> run, slept |-> slept]

-----------------------------------------------------------------------------

Init ==
  /\ now = 0
  /\ rate \in MinRate..HardCap
  /\ tokens = Capacity
  /\ lastRefill = 0
  /\ run = 0
  /\ booked = <<>>

AcquireAtOnce ==
  /\ Len(booked) < MaxCalls
  /\ Refilled >= One
  /\ tokens' = Refilled - One
  /\ lastRefill' = now
  /\ booked' = Append(booked, Booking(now, FALSE))
  /\ UNCHANGED <<now, rate, run>>

\* Mutants: the caller sleeps but books nothing; it is charged twice.
AcquireWithoutBooking ==
  /\ Len(booked) < MaxCalls
  /\ Refilled < One
  /\ tokens' = 0
  /\ lastRefill' = now
  /\ booked' = Append(booked, Booking(now + Wait, TRUE))
  /\ UNCHANGED <<now, rate, run>>

AcquireChargedTwice ==
  /\ Len(booked) < MaxCalls
  /\ Refilled < One
  /\ tokens' = Refilled - One
  /\ lastRefill' = now + Wait
  /\ booked' = Append(booked, Booking(now + Wait, TRUE))
  /\ UNCHANGED <<now, rate, run>>

AcquireAhead ==
  /\ Len(booked) < MaxCalls
  /\ Refilled < One
  /\ tokens' = 0
  /\ lastRefill' = now + Wait
  /\ booked' = Append(booked, Booking(now + Wait, TRUE))
  /\ UNCHANGED <<now, rate, run>>

\* record_success or record_429 of some call (see LearnedRate).
ChangeRate ==
  /\ rate' \in MinRate..HardCap \ {rate}
  /\ UNCHANGED <<now, tokens, lastRefill, run, booked>>

Tick ==
  /\ now < MaxTime
  /\ now' = now + 1
  /\ UNCHANGED <<rate, tokens, lastRefill, run, booked>>

\* The process ends and another builds its limiter: the rate is read back from
\* the database, the bucket starts full, the sleepers are gone.
Restart ==
  /\ run < MaxRuns
  /\ run' = run + 1
  /\ tokens' = Capacity
  /\ lastRefill' = now
  /\ UNCHANGED <<now, rate, booked>>

Next == AcquireAtOnce \/ AcquireAhead \/ ChangeRate \/ Tick \/ Restart

Spec == Init /\ [][Next]_vars

-----------------------------------------------------------------------------

\* The bucket is never overfull nor, between calls, overdrawn.
TypeOK ==
  /\ now \in Nat
  /\ rate \in MinRate..HardCap
  /\ tokens \in 0..Capacity
  /\ lastRefill \in Nat
  /\ run \in Nat
  /\ booked \in Seq(Bookings)

\* The calls from the i-th to the j-th fit a bucket of Capacity that refills at
\* the hard cap between their send times.
FitsBucket(i, j) ==
  (j - i + 1) * One <= Capacity + HardCap * (booked[j].at - booked[i].at)

\* However calls, rate changes and sleeps interleave, no stretch of the schedule
\* of one process holds more calls than a full burst plus the hard cap allows.
BurstBound == \A j \in DOMAIN booked : \A i \in 1..j :
  booked[i].run = booked[j].run => FitsBucket(i, j)

\* Calls are sent in the order they asked, also when the rate changes while
\* earlier ones are still asleep.
BookedInOrder == \A j \in DOMAIN booked : \A i \in 1..j :
  booked[i].run = booked[j].run => booked[i].at <= booked[j].at

\* Two sleeping calls in a row are a full token apart at the rate in force when
\* the second one asked: from its first booking on, a lowered rate spreads calls.
SleepersAreSpread == \A j \in DOMAIN booked \ {1} :
  (booked[j-1].run = booked[j].run /\ booked[j-1].slept /\ booked[j].slept)
    => (booked[j].at - booked[j-1].at) * booked[j].rate >= One

\* The bucket is ahead of the clock only by calls that are really booked: the
\* next caller waits for the outstanding bookings, at worst at the lowest rate,
\* and for nothing else.
BacklogIsBooked ==
  lastRefill - now <= RoundedUp(One, MinRate) *
    Cardinality({k \in DOMAIN booked : booked[k].run = run /\ booked[k].at > now})

=============================================================================
