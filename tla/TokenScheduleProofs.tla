------------------------ MODULE TokenScheduleProofs ------------------------
(***************************************************************************)
(* No stretch of one process's schedule holds more calls than a full burst *)
(* plus the hard cap, for every bucket, every token size and every pair of *)
(* rates, and however the rate moves between bookings; the schedule is in  *)
(* the order of the calls, its sleepers are spread, and the bucket is no   *)
(* further ahead of the clock than by what is booked.                      *)
(***************************************************************************)
EXTENDS TokenSchedule, FiniteSetTheorems, WellFoundedInduction, TLAPS

\* Facts of arithmetic that the solver does not find inside larger goals.
LEMMA ProductMonotone ==
  ASSUME NEW a \in Int, NEW b \in Int, NEW d \in Nat, a <= b
  PROVE  a * d <= b * d
<1>1. (b - a) * d >= 0
  OBVIOUS
<1>2. QED
  BY <1>1

LEMMA PositiveFactor ==
  ASSUME NEW r \in Nat, NEW d \in Int, r * d > 0
  PROVE  d > 0
OBVIOUS

\* A sleep lasts whole ticks, and long enough for what is missing to flow in.
LEMMA SleepIsEnough ==
  ASSUME NEW a \in Int, NEW r \in Nat \ {0}
  PROVE  /\ RoundedUp(a, r) \in Int
         /\ r * RoundedUp(a, r) >= a
BY DEF RoundedUp

-----------------------------------------------------------------------------

\* What is booked since call k, with what is left in the bucket, fits a bucket
\* that refills at the hard cap up to last_refill.
Covered(k) ==
  /\ booked[k].at <= lastRefill
  /\ (Len(booked) - k + 1) * One + tokens
        <= Capacity + HardCap * (lastRefill - booked[k].at)

\* BurstBound talks of pairs of past calls.  To be kept by the next booking it
\* needs the bucket: what each call of this run has left of it (Covered), and
\* that a bucket that runs ahead of the clock is empty.
Inv ==
  /\ TypeOK
  /\ lastRefill > now => tokens = 0
  /\ \A k \in DOMAIN booked : booked[k].run <= run
  /\ \A k \in DOMAIN booked : booked[k].run = run => Covered(k)
  /\ BurstBound

LEMMA PastBooking ==
  ASSUME TypeOK, NEW k \in DOMAIN booked
  PROVE  booked[k].at \in Nat /\ booked[k].run \in Nat
<1>1. booked[k] \in Bookings
  BY DEF TypeOK
<1>2. QED
  BY <1>1 DEF Bookings

LEMMA InvInit == Init => Inv
BY ScheduleUnits DEF Init, Inv, TypeOK, BurstBound

\* One booking at time t that leaves the bucket at level u at time t is covered,
\* and keeps everything booked before covered, when the tokens it took flowed in
\* at no more than the hard cap.
LEMMA BookingKeepsInv ==
  ASSUME Inv,
         NEW t \in Nat, NEW u \in 0..Capacity, NEW slept \in BOOLEAN,
         lastRefill <= t,
         u + One <= tokens + HardCap * (t - lastRefill),
         u + One <= Capacity,
         t > now => u = 0,
         booked' = Append(booked, Booking(t, slept)),
         tokens' = u, lastRefill' = t,
         UNCHANGED <<now, rate, run>>
  PROVE  Inv'
<1> DEFINE n == Len(booked)
<1>0. n \in Nat /\ DOMAIN booked = 1..n /\ One \in Nat /\ Capacity \in Nat
      /\ HardCap \in Nat /\ tokens \in Nat /\ lastRefill \in Nat
  BY ScheduleUnits DEF Inv, TypeOK
<1>1. /\ booked' \in Seq(Bookings)
      /\ Len(booked') = n + 1 /\ DOMAIN booked' = 1..(n + 1)
      /\ booked'[n + 1] = Booking(t, slept)
      /\ \A k \in 1..n : booked'[k] = booked[k]
  <2>1. Booking(t, slept) \in Bookings
    BY DEF Booking, Bookings, Inv, TypeOK
  <2>2. booked \in Seq(Bookings)
    BY DEF Inv, TypeOK
  <2>3. QED
    BY <2>1, <2>2, <1>0
<1>2. /\ booked'[n + 1].at = t /\ booked'[n + 1].run = run
  BY <1>1 DEF Booking
<1>3. \A k \in 1..n : booked[k].at \in Nat /\ booked[k].run \in Nat
  BY PastBooking, <1>0 DEF Inv
<1>4. TypeOK'
  BY <1>1, ScheduleUnits DEF Inv, TypeOK
<1>5. \A k \in DOMAIN booked' : booked'[k].run <= run'
  BY <1>0, <1>1, <1>2 DEF Inv, TypeOK
<1>6. ASSUME NEW k \in DOMAIN booked', booked'[k].run = run'
      PROVE  Covered(k)'
  <2>1. CASE k = n + 1
    <3>1. (Len(booked') - k + 1) * One = One
      BY <2>1, <1>0, <1>1
    <3>2. HardCap * (t - t) = 0
      BY <1>0
    <3>3. QED
      BY <2>1, <3>1, <3>2, <1>0, <1>1, <1>2 DEF Covered
  <2>2. CASE k \in 1..n
    <3>1. Covered(k)
      BY <2>2, <1>0, <1>1, <1>6 DEF Inv
    <3>2. (n - k + 1) * One + tokens <= Capacity + HardCap * (lastRefill - booked[k].at)
      BY <3>1 DEF Covered
    <3>3. (n + 1 - k + 1) * One = (n - k + 1) * One + One
      BY <2>2, <1>0
    <3>4. HardCap * (t - booked[k].at)
            = HardCap * (lastRefill - booked[k].at) + HardCap * (t - lastRefill)
      BY <2>2, <1>0, <1>3
    <3>5. /\ (n - k + 1) * One \in Int /\ HardCap * (t - lastRefill) \in Int
          /\ HardCap * (lastRefill - booked[k].at) \in Int
      BY <2>2, <1>0, <1>3
    <3>6. (n + 1 - k + 1) * One + u <= Capacity + HardCap * (t - booked[k].at)
      <4> DEFINE calls == (n - k + 1) * One
                 flown == HardCap * (lastRefill - booked[k].at)
                 inflow == HardCap * (t - lastRefill)
                 allCalls == (n + 1 - k + 1) * One
                 allFlown == HardCap * (t - booked[k].at)
      <4>1. /\ calls \in Int /\ flown \in Int /\ inflow \in Int /\ u \in Int
            /\ calls + tokens <= Capacity + flown /\ u + One <= tokens + inflow
        BY <3>2, <3>5, <1>0
      <4>2. allCalls = calls + One /\ allFlown = flown + inflow
        BY <3>3, <3>4
      <4> HIDE DEF calls, flown, inflow, allCalls, allFlown
      <4>3. allCalls + u <= Capacity + allFlown
        BY <4>1, <4>2, <1>0
      <4>4. QED
        BY <4>3 DEF allCalls, allFlown
    <3>7. booked'[k].at <= lastRefill'
      BY <2>2, <3>1, <1>0, <1>1, <1>3 DEF Covered
    <3>8. QED
      BY <2>2, <3>6, <3>7, <1>1 DEF Covered
  <2>3. QED
    BY <2>1, <2>2, <1>0, <1>1
<1>7. BurstBound'
  <2> SUFFICES ASSUME NEW j \in DOMAIN booked', NEW i \in 1..j,
                      booked'[i].run = booked'[j].run
               PROVE  FitsBucket(i, j)'
    BY DEF BurstBound
  <2>1. CASE j \in 1..n
    <3>1. i \in 1..n /\ booked'[i] = booked[i] /\ booked'[j] = booked[j]
      BY <2>1, <1>0, <1>1
    <3>2. FitsBucket(i, j)
      BY <2>1, <3>1, <1>0 DEF Inv, BurstBound
    <3>3. QED
      BY <3>1, <3>2 DEF FitsBucket
  <2>2. CASE j = n + 1
    <3>1. Covered(i)'
      BY <2>2, <1>0, <1>1, <1>2, <1>6
    <3>2. (n + 1 - i + 1) * One + u <= Capacity + HardCap * (t - booked'[i].at)
      BY <3>1, <1>1 DEF Covered
    <3>3. (n + 1 - i + 1) * One \in Int /\ HardCap * (t - booked'[i].at) \in Int
      BY <2>2, <1>0, <1>1, <1>2, <1>3
    <3>4. (j - i + 1) * One <= Capacity + HardCap * (booked'[j].at - booked'[i].at)
      <4> DEFINE calls == (n + 1 - i + 1) * One
                 inflow == HardCap * (t - booked'[i].at)
      <4>1. /\ calls \in Int /\ inflow \in Int /\ u \in Nat
            /\ calls + u <= Capacity + inflow
        BY <3>2, <3>3, <1>0
      <4>2. (j - i + 1) * One = calls /\ HardCap * (booked'[j].at - booked'[i].at) = inflow
        BY <2>2, <1>2
      <4> HIDE DEF calls, inflow
      <4>3. QED
        BY <4>1, <4>2, <1>0, SMTT(30)
    <3>5. QED
      BY <3>4 DEF FitsBucket
  <2>3. QED
    BY <2>1, <2>2, <1>0, <1>1
<1>8. QED
  BY <1>0, <1>4, <1>5, <1>6, <1>7 DEF Inv

\* How the level of the bucket relates to what flowed in since last_refill.
LEMMA RefilledIsInflow ==
  ASSUME TypeOK
  PROVE  /\ Refilled \in Int /\ Refilled <= Capacity
         /\ Refilled <= tokens + (now - lastRefill) * rate
         /\ Refilled < One => Refilled = tokens + (now - lastRefill) * rate
<1>1. (now - lastRefill) * rate \in Int
  BY ScheduleUnits DEF TypeOK
<1>2. QED
  BY <1>1, ScheduleUnits DEF TypeOK, Refilled, Smaller

LEMMA AtOnceKeepsInv == Inv /\ AcquireAtOnce => Inv'
<1> SUFFICES ASSUME Inv, AcquireAtOnce PROVE Inv'
  OBVIOUS
<1>0. /\ now \in Nat /\ lastRefill \in Nat /\ rate \in Nat /\ rate <= HardCap
      /\ tokens \in Nat /\ One \in Nat \ {0} /\ HardCap \in Nat /\ Capacity \in Nat
  BY ScheduleUnits DEF Inv, TypeOK
<1>1. Refilled \in Int /\ Refilled <= Capacity /\ One <= Refilled
  BY RefilledIsInflow DEF Inv, AcquireAtOnce
<1>2. Refilled <= tokens + (now - lastRefill) * rate
  BY RefilledIsInflow DEF Inv
<1>3. lastRefill <= now
  <2> SUFFICES ASSUME lastRefill > now PROVE FALSE
    BY <1>0
  <2>1. tokens = 0
    BY DEF Inv
  <2>2. (now - lastRefill) * rate <= 0
    BY <1>0
  <2>3. (now - lastRefill) * rate \in Int
    BY <1>0
  <2>4. QED
    BY <1>0, <1>1, <1>2, <2>1, <2>2, <2>3
<1>4. rate * (now - lastRefill) <= HardCap * (now - lastRefill)
  BY <1>0, <1>3, ProductMonotone
<1>5. (now - lastRefill) * rate = rate * (now - lastRefill)
  BY <1>0
<1>6. rate * (now - lastRefill) \in Int /\ HardCap * (now - lastRefill) \in Int
  BY <1>0
<1>7. Refilled <= tokens + HardCap * (now - lastRefill)
  BY <1>0, <1>1, <1>2, <1>4, <1>5, <1>6
<1>8. QED
  <2>1. /\ Refilled - One \in 0..Capacity
        /\ Refilled - One + One <= tokens + HardCap * (now - lastRefill)
        /\ Refilled - One + One <= Capacity
    BY <1>0, <1>1, <1>6, <1>7
  <2>2. ~(now > now)
    BY <1>0
  <2>3. QED
    BY <2>1, <2>2, <1>0, <1>3, BookingKeepsInv DEF AcquireAtOnce

\* A sleep of the length acquire computes lets at least the token it books flow in.
LEMMA SleepCoversToken ==
  ASSUME Inv, AcquireAhead
  PROVE  Wait \in Int /\ One <= tokens + rate * (now + Wait - lastRefill)
<1>0. /\ now \in Nat /\ lastRefill \in Nat /\ rate \in Nat \ {0}
      /\ tokens \in Nat /\ One \in Nat \ {0}
  BY ScheduleUnits DEF Inv, TypeOK
<1>1. /\ Refilled \in Int /\ Refilled < One
      /\ Refilled = tokens + (now - lastRefill) * rate
  BY RefilledIsInflow DEF Inv, AcquireAhead
<1>2. Wait \in Int /\ rate * Wait >= One - Refilled
  BY <1>0, <1>1, SleepIsEnough DEF Wait
<1>3. rate * (now + Wait - lastRefill) = rate * Wait + (now - lastRefill) * rate
  BY <1>0, <1>2
<1>4. rate * Wait \in Int /\ (now - lastRefill) * rate \in Int
  BY <1>0, <1>2
<1>5. QED
  BY <1>0, <1>1, <1>2, <1>3, <1>4

LEMMA AheadKeepsInv == Inv /\ AcquireAhead => Inv'
<1> SUFFICES ASSUME Inv, AcquireAhead PROVE Inv'
  OBVIOUS
<1> DEFINE ahead == now + Wait - lastRefill
<1>0. /\ now \in Nat /\ lastRefill \in Nat /\ rate \in Nat \ {0} /\ rate <= HardCap
      /\ tokens \in Nat /\ One \in Nat \ {0} /\ HardCap \in Nat
      /\ Capacity \in Nat /\ One <= Capacity
  BY ScheduleUnits DEF Inv, TypeOK
<1>1. /\ Refilled \in Int /\ Refilled < One
      /\ Refilled = tokens + (now - lastRefill) * rate
  BY RefilledIsInflow DEF Inv, AcquireAhead
<1>2. Wait \in Int /\ rate * Wait >= One - Refilled
  <2>1. One - Refilled \in Int
    BY <1>0, <1>1
  <2>2. QED
    BY <2>1, <1>0, SleepIsEnough DEF Wait
<1>3. One <= tokens + rate * ahead
  BY SleepCoversToken
<1>4. Wait > 0
  <2>1. rate * Wait \in Int /\ rate * Wait > 0
    BY <1>0, <1>1, <1>2
  <2>2. QED
    BY <1>0, <1>2, <2>1, PositiveFactor
<1>5. ahead \in Nat
  <2>1. CASE lastRefill <= now
    BY <2>1, <1>0, <1>2, <1>4
  <2>2. CASE lastRefill > now
    <3>1. tokens = 0
      BY <2>2 DEF Inv
    <3>2. rate * ahead > 0
      BY <3>1, <1>0, <1>2, <1>3
    <3>3. ahead \in Int
      BY <1>0, <1>2
    <3> HIDE DEF ahead
    <3>4. QED
      BY <3>2, <3>3, <1>0, PositiveFactor
  <2>3. QED
    BY <2>1, <2>2, <1>0
<1>6. rate * ahead <= HardCap * ahead
  <2> HIDE DEF ahead
  <2>1. QED
    BY <1>0, <1>5, ProductMonotone
<1>7. One <= tokens + HardCap * ahead
  <2> HIDE DEF ahead
  <2>1. rate * ahead \in Int /\ HardCap * ahead \in Int
    BY <1>0, <1>5
  <2>2. QED
    BY <2>1, <1>0, <1>3, <1>6
<1>8. QED
  <2> DEFINE due == now + Wait
  <2>1. /\ due \in Nat /\ 0 \in 0..Capacity /\ lastRefill <= due
        /\ 0 + One <= Capacity
        /\ 0 + One <= tokens + HardCap * (due - lastRefill)
    BY <1>0, <1>2, <1>4, <1>5, <1>7
  <2>2. /\ booked' = Append(booked, Booking(due, TRUE))
        /\ tokens' = 0 /\ lastRefill' = due
        /\ UNCHANGED <<now, rate, run>>
    BY DEF AcquireAhead
  <2> HIDE DEF due
  <2>3. QED
    BY <2>1, <2>2, BookingKeepsInv

LEMMA InvStep == Inv /\ [Next]_vars => Inv'
<1> SUFFICES ASSUME Inv, [Next]_vars PROVE Inv'
  OBVIOUS
<1>0. \A k \in DOMAIN booked : booked[k].run \in Nat
  BY PastBooking DEF Inv
<1> USE ScheduleUnits DEF Inv, TypeOK, BurstBound, FitsBucket, Covered
<1>1. CASE AcquireAtOnce
  BY <1>1, AtOnceKeepsInv
<1>2. CASE AcquireAhead
  BY <1>2, AheadKeepsInv
<1>3. CASE ChangeRate
  BY <1>3 DEF ChangeRate
<1>4. CASE Tick
  BY <1>4 DEF Tick
<1>5. CASE Restart
  BY <1>0, <1>5 DEF Restart
<1>6. CASE UNCHANGED vars
  BY <1>6 DEF vars
<1>7. QED
  BY <1>1, <1>2, <1>3, <1>4, <1>5, <1>6 DEF Next

LEMMA InvAlways == Spec => []Inv
BY InvInit, InvStep, PTL DEF Spec

\* The bucket is never overfull nor overdrawn, and every booking has a time and a
\* rate of the band.
THEOREM TypeCorrect == Spec => []TypeOK
<1>1. Inv => TypeOK
  BY DEF Inv
<1>2. QED
  BY <1>1, InvAlways, PTL

\* The limiter's promise: a full burst plus the hard cap, over every stretch of
\* the schedule of a process, whatever the calls and the rate changes.
THEOREM BurstIsBounded == Spec => []BurstBound
<1>1. Inv => BurstBound
  BY DEF Inv
<1>2. QED
  BY <1>1, InvAlways, PTL

-----------------------------------------------------------------------------
\* The order of the schedule, and how its sleepers are spread

\* While the last call sleeps, the bucket is empty up to its send time.
LastSleeps ==
  LET n == Len(booked)
  IN  n > 0 /\ booked[n].run = run /\ booked[n].slept => tokens = 0 /\ lastRefill = booked[n].at

Schedule == Inv /\ BookedInOrder /\ SleepersAreSpread /\ LastSleeps

LEMMA ScheduleInit == Init => Schedule
<1> SUFFICES ASSUME Init PROVE Schedule
  OBVIOUS
<1>1. Inv /\ booked = << >>
  BY InvInit DEF Init
<1>2. QED
  BY <1>1 DEF Schedule, BookedInOrder, SleepersAreSpread, LastSleeps

\* What a call that is booked adds to the schedule.
LEMMA Appended ==
  ASSUME TypeOK, NEW t \in Nat, NEW slept \in BOOLEAN, booked' = Append(booked, Booking(t, slept))
  PROVE  /\ Len(booked) \in Nat /\ Len(booked') = Len(booked) + 1
         /\ DOMAIN booked = 1..Len(booked) /\ DOMAIN booked' = 1..(Len(booked) + 1)
         /\ \A k \in 1..Len(booked) : booked'[k] = booked[k]
         /\ LET last == booked'[Len(booked) + 1]
            IN  last.at = t /\ last.slept = slept /\ last.run = run /\ last.rate = rate
<1>1. booked \in Seq(Bookings) /\ Booking(t, slept) \in Bookings
  BY DEF TypeOK, Booking, Bookings
<1>2. booked'[Len(booked) + 1] = Booking(t, slept)
  BY <1>1
<1>3. QED
  BY <1>1, <1>2 DEF Booking

\* It keeps the order, because every earlier call of the run is sent by last_refill, and
\* the spread, if it keeps the distance to a sleeper right before it.
LEMMA BookingKeepsSchedule ==
  ASSUME Schedule, Inv', NEW t \in Nat, NEW slept \in BOOLEAN,
         booked' = Append(booked, Booking(t, slept)), lastRefill' = t, UNCHANGED run,
         slept => tokens' = 0,
         slept /\ tokens = 0 => (t - lastRefill) * rate >= One
  PROVE  Schedule'
<1> DEFINE n == Len(booked)
<1>1. /\ n \in Nat /\ Len(booked') = n + 1
      /\ DOMAIN booked = 1..n /\ DOMAIN booked' = 1..(n + 1)
      /\ \A k \in 1..n : booked'[k] = booked[k]
      /\ booked'[n + 1].at = t /\ booked'[n + 1].slept = slept
      /\ booked'[n + 1].run = run /\ booked'[n + 1].rate = rate
  BY Appended DEF Schedule, Inv
<1> HIDE DEF n
<1>2. BookedInOrder'
  <2> SUFFICES ASSUME NEW j \in DOMAIN booked', NEW i \in 1..j, booked'[i].run = booked'[j].run
      PROVE  booked'[i].at <= booked'[j].at
    BY DEF BookedInOrder
  <2>1. CASE j \in 1..n
    <3>1. i \in 1..n /\ booked'[i] = booked[i] /\ booked'[j] = booked[j]
      BY <1>1, <2>1
    <3>2. QED
      BY <1>1, <2>1, <3>1 DEF Schedule, BookedInOrder
  <2>2. CASE j = n + 1
    <3>1. i \in DOMAIN booked' /\ booked'[i].run = run'
      BY <1>1, <2>2
    <3>2. Covered(i)'
      BY <3>1 DEF Inv
    <3>3. QED
      BY <1>1, <2>2, <3>2 DEF Covered
  <2>3. QED
    BY <1>1, <2>1, <2>2
<1>3. SleepersAreSpread'
  <2> SUFFICES ASSUME NEW j \in DOMAIN booked' \ {1}, booked'[j-1].run = booked'[j].run,
                      booked'[j-1].slept, booked'[j].slept
      PROVE  (booked'[j].at - booked'[j-1].at) * booked'[j].rate >= One
    BY DEF SleepersAreSpread
  <2>1. CASE j \in 1..n
    <3>1. j - 1 \in 1..n /\ booked'[j-1] = booked[j-1] /\ booked'[j] = booked[j]
      BY <1>1, <2>1
    <3>2. QED
      BY <1>1, <2>1, <3>1 DEF Schedule, SleepersAreSpread
  <2>2. CASE j = n + 1
    <3>0. j # 1
      OBVIOUS
    <3>1. n > 0 /\ j - 1 = n
      BY <1>1, <2>2, <3>0
    <3>2. booked'[n] = booked[n]
      <4>1. n \in 1..n
        BY <1>1, <3>1
      <4>2. QED
        BY <1>1, <4>1
    <3>3. booked[n].run = run /\ booked[n].slept /\ slept
      BY <1>1, <2>2, <3>1, <3>2
    <3>4. tokens = 0 /\ lastRefill = booked[n].at
      BY <3>1, <3>3 DEF Schedule, LastSleeps, n
    <3>5. booked'[j].at = t /\ booked'[j-1].at = lastRefill /\ booked'[j].rate = rate
      BY <1>1, <2>2, <3>1, <3>2, <3>4
    <3>6. (t - lastRefill) * rate >= One
      BY <3>3, <3>4
    <3>7. QED
      BY <3>5, <3>6
  <2>3. QED
    BY <1>1, <2>1, <2>2
<1>4. LastSleeps'
  BY <1>1 DEF LastSleeps, n
<1>5. QED
  BY <1>2, <1>3, <1>4 DEF Schedule

LEMMA ScheduleStep == Schedule /\ [Next]_vars => Schedule'
<1> SUFFICES ASSUME Schedule, [Next]_vars PROVE Schedule'
  OBVIOUS
<1>0. Inv /\ Inv'
  BY InvStep DEF Schedule
<1>1. CASE AcquireAtOnce
  <2>1. /\ now \in Nat /\ booked' = Append(booked, Booking(now, FALSE))
        /\ lastRefill' = now /\ UNCHANGED run
    BY <1>0, <1>1 DEF AcquireAtOnce, Inv, TypeOK
  <2>2. QED
    BY <1>0, <2>1, BookingKeepsSchedule
<1>2. CASE AcquireAhead
  <2> DEFINE t == now + Wait
  <2>1. /\ booked' = Append(booked, Booking(t, TRUE))
        /\ lastRefill' = t /\ tokens' = 0 /\ UNCHANGED run
    BY <1>2 DEF AcquireAhead
  <2>2. t \in Nat
    BY <1>0, <2>1 DEF Inv, TypeOK
  <2>3. tokens = 0 => (t - lastRefill) * rate >= One
    <3>1. Wait \in Int /\ One <= tokens + rate * (now + Wait - lastRefill)
      BY <1>0, <1>2, SleepCoversToken
    <3>2. /\ now \in Nat /\ rate \in Nat /\ lastRefill \in Nat
          /\ tokens \in Nat /\ One \in Nat
      BY <1>0, ScheduleUnits DEF Inv, TypeOK
    <3> DEFINE inflow == rate * (t - lastRefill)
    <3>3. inflow \in Int /\ inflow = (t - lastRefill) * rate
      BY <2>2, <3>2
    <3>4. One <= tokens + inflow
      <4>1. now + Wait - lastRefill = t - lastRefill
        BY <3>1, <3>2
      <4> HIDE DEF t
      <4>2. rate * (now + Wait - lastRefill) = inflow
        BY ONLY <4>1, Zenon DEF inflow
      <4> HIDE DEF inflow
      <4>3. QED
        BY <3>1, <4>2, Zenon
    <3> HIDE DEF inflow
    <3>5. tokens = 0 => inflow >= One
      BY <3>2, <3>3, <3>4
    <3>6. QED
      BY <3>3, <3>5
  <2> HIDE DEF t
  <2>4. QED
    BY <1>0, <2>1, <2>2, <2>3, BookingKeepsSchedule
<1>3. CASE ChangeRate \/ Tick \/ UNCHANGED vars
  <2>1. UNCHANGED <<booked, run, tokens, lastRefill>>
    BY <1>3 DEF ChangeRate, Tick, vars
  <2>2. QED
    BY <1>0, <2>1 DEF Schedule, BookedInOrder, SleepersAreSpread, LastSleeps
<1>4. CASE Restart
  <2>1. UNCHANGED booked /\ run' = run + 1 /\ run \in Nat
    BY <1>0, <1>4 DEF Restart, Inv, TypeOK
  <2>2. LastSleeps'
    <3>1. \A k \in DOMAIN booked : booked[k].run <= run /\ booked[k].run \in Nat
      BY <1>0, PastBooking DEF Inv
    <3>2. Len(booked) \in Nat /\ DOMAIN booked = 1..Len(booked)
      BY <1>0 DEF Inv, TypeOK
    <3>3. Len(booked) > 0 => booked[Len(booked)].run # run'
      BY <2>1, <3>1, <3>2
    <3>4. QED
      BY <2>1, <3>3 DEF LastSleeps
  <2>3. QED
    BY <1>0, <2>1, <2>2 DEF Schedule, BookedInOrder, SleepersAreSpread
<1>5. QED
  BY <1>1, <1>2, <1>3, <1>4 DEF Next

LEMMA ScheduleAlways == Spec => []Schedule
BY ScheduleInit, ScheduleStep, PTL DEF Spec

\* Calls are sent in the order they asked, for every bucket and every history of the rate,
\* because what a call books is never before what is booked already.  (limiter.py, acquire.)
THEOREM OrderIsKept == Spec => []BookedInOrder
<1>1. Schedule => BookedInOrder
  BY DEF Schedule
<1>2. QED
  BY <1>1, ScheduleAlways, PTL

\* Callers that sleep one after the other are a token's time apart, at the rate the later
\* one found, whatever the rate was when the earlier one went to sleep.
THEOREM SpreadIsKept == Spec => []SleepersAreSpread
<1>1. Schedule => SleepersAreSpread
  BY DEF Schedule
<1>2. QED
  BY <1>1, ScheduleAlways, PTL

-----------------------------------------------------------------------------
\* What the bucket is ahead of the clock is booked

\* The most ticks that one missing token costs.
Longest == RoundedUp(One, MinRate)

\* The bookings that are still asleep.
Outstanding == {k \in DOMAIN booked : booked[k].run = run /\ booked[k].at > now}

\* A sleeper is due one token from now, or one token after the call booked before it.
Near(k) ==
  \/ booked[k].at <= now + Longest
  \/ /\ k - 1 \in DOMAIN booked
     /\ booked[k-1].run = run
     /\ booked[k].at <= booked[k-1].at + Longest

\* A bucket ahead of the clock got there by the last call.
LeadIsBooked == LET n == Len(booked)
                IN  lastRefill > now => /\ n \in DOMAIN booked
                                        /\ booked[n].run = run /\ booked[n].at = lastRefill

Backlog == Inv /\ LeadIsBooked /\ \A k \in Outstanding : Near(k)

LEMMA LongestCovers == Longest \in Nat \ {0} /\ MinRate * Longest >= One
<1>1. Longest \in Int /\ MinRate * Longest >= One
  BY ScheduleUnits, SleepIsEnough DEF Longest
<1>2. Longest > 0
  <2> DEFINE l == Longest
  <2>1. l \in Int /\ MinRate * l > 0 /\ MinRate \in Nat
    BY <1>1, ScheduleUnits
  <2> HIDE DEF l
  <2>2. l > 0
    BY <2>1, PositiveFactor
  <2>3. QED
    BY <2>2 DEF l
<1>3. QED
  BY <1>1, <1>2

\* A sleep is not longer than what is missing needs, but for the last tick.
LEMMA SleepIsShort ==
  ASSUME NEW a \in Int, NEW r \in Nat \ {0}
  PROVE  r * (RoundedUp(a, r) - 1) < a
BY DEF RoundedUp

LEMMA SmallerFactor ==
  ASSUME NEW r \in Nat \ {0}, NEW d \in Int, NEW e \in Int, r * (d - 1) < r * e
  PROVE  d <= e
<1>1. r * (e - (d - 1)) > 0
  OBVIOUS
<1>2. e - (d - 1) > 0
  <2> DEFINE gap == e - (d - 1)
  <2>1. gap \in Int /\ r * gap > 0
    BY <1>1
  <2> HIDE DEF gap
  <2>2. gap > 0
    BY <2>1, PositiveFactor
  <2>3. QED
    BY <2>2 DEF gap
<1>3. QED
  BY <1>2

\* The send time of a call that sleeps is a token from now, or from last_refill when that
\* is ahead of the clock.
LEMMA SleepIsOneToken ==
  ASSUME Inv, AcquireAhead
  PROVE  /\ Wait \in Int
         /\ lastRefill <= now => now + Wait <= now + Longest
         /\ lastRefill > now => now + Wait <= lastRefill + Longest
<1> DEFINE lead == lastRefill - now
           inflow == rate * lead
           need == One - Refilled
           token == rate * Longest
<1>0. /\ now \in Nat /\ lastRefill \in Nat /\ rate \in Nat \ {0} /\ MinRate \in Nat
      /\ MinRate <= rate /\ tokens \in Nat /\ One \in Nat \ {0} /\ lead \in Int
      /\ Longest \in Nat
  BY ScheduleUnits, LongestCovers DEF Inv, TypeOK
<1>1. /\ Refilled \in Int /\ Refilled < One
      /\ Refilled = tokens + (now - lastRefill) * rate
  BY RefilledIsInflow DEF Inv, AcquireAhead
<1>2. inflow \in Int /\ (now - lastRefill) * rate = 0 - inflow
  BY <1>0
<1>3. need \in Int /\ need = One - tokens + inflow
  <2>1. need = One - (tokens + (0 - inflow))
    BY <1>1, <1>2
  <2> HIDE DEF inflow, need
  <2>2. QED
    BY <2>1, <1>0, <1>2
<1>4. token \in Int /\ One <= token
  <2>1. MinRate * Longest <= rate * Longest
    BY <1>0, ProductMonotone
  <2>2. MinRate * Longest \in Int /\ rate * Longest \in Int
    BY <1>0
  <2>3. QED
    BY <2>1, <2>2, <1>0, LongestCovers
<1>5. Wait \in Int /\ rate * (Wait - 1) < need
  BY <1>0, <1>3, SleepIsEnough, SleepIsShort DEF Wait
<1>6. rate * (Wait - 1) \in Int
  BY <1>0, <1>5
<1>7. CASE lead <= 0
  <2>1. inflow <= 0
    BY <1>0, <1>7
  <2>2. rate * (Wait - 1) < rate * Longest
    <3> HIDE DEF need, inflow
    <3>1. need <= One
      BY <1>0, <1>2, <1>3, <2>1
    <3>2. QED
      BY <3>1, <1>0, <1>3, <1>4, <1>5, <1>6
  <2>3. Wait <= Longest
    BY <1>0, <1>5, <2>2, SmallerFactor
  <2>4. QED
    BY <1>0, <1>5, <1>7, <2>3
<1>8. CASE lead > 0
  <2>1. tokens = 0
    BY <1>0, <1>8 DEF Inv
  <2>2. rate * (Longest + lead) = token + inflow
    BY <1>0
  <2>3. rate * (Wait - 1) < rate * (Longest + lead)
    <3> HIDE DEF need, inflow, token
    <3>1. need <= token + inflow
      BY <1>0, <1>2, <1>3, <1>4, <2>1
    <3>2. token + inflow \in Int
      BY <1>2, <1>4
    <3>3. QED
      BY <3>1, <3>2, <1>3, <1>5, <1>6, <2>2
  <2>4. Wait <= Longest + lead
    <3> DEFINE far == Longest + lead
    <3>1. far \in Int /\ rate * (Wait - 1) < rate * far
      BY <1>0, <2>3
    <3> HIDE DEF far
    <3>2. Wait <= far
      BY <1>0, <1>5, <3>1, SmallerFactor
    <3>3. QED
      BY <3>2 DEF far
  <2>5. QED
    BY <1>0, <1>5, <1>8, <2>4
<1>9. QED
  BY <1>0, <1>5, <1>7, <1>8

LEMMA BacklogInit == Init => Backlog
<1> SUFFICES ASSUME Init PROVE Backlog
  OBVIOUS
<1>1. Inv /\ booked = << >> /\ lastRefill = 0 /\ now = 0
  BY InvInit DEF Init
<1>2. QED
  BY <1>1 DEF Backlog, LeadIsBooked, Outstanding

LEMMA BookingKeepsBacklog ==
  ASSUME Backlog, Inv', NEW t \in Nat, NEW slept \in BOOLEAN,
         booked' = Append(booked, Booking(t, slept)), lastRefill' = t, UNCHANGED <<now, run>>,
         \/ t <= now + Longest
         \/ lastRefill > now /\ t <= lastRefill + Longest
  PROVE  Backlog'
<1> DEFINE n == Len(booked)
<1>0. now \in Nat /\ lastRefill \in Nat /\ Longest \in Nat
  BY LongestCovers DEF Backlog, Inv, TypeOK
<1>1. /\ n \in Nat /\ Len(booked') = n + 1
      /\ DOMAIN booked = 1..n /\ DOMAIN booked' = 1..(n + 1)
      /\ \A k \in 1..n : booked'[k] = booked[k]
      /\ booked'[n + 1].at = t /\ booked'[n + 1].run = run
  BY Appended DEF Backlog, Inv
<1>2. LeadIsBooked'
  BY <1>1 DEF LeadIsBooked
<1>3. lastRefill > now => n \in 1..n /\ booked[n].run = run /\ booked[n].at = lastRefill
  BY <1>1 DEF Backlog, LeadIsBooked
<1> HIDE DEF n
<1>4. ASSUME NEW k \in Outstanding' PROVE Near(k)'
  <2>1. CASE k \in 1..n
    <3>1. booked'[k] = booked[k] /\ k \in DOMAIN booked /\ k \in DOMAIN booked'
      BY <1>1, <2>1
    <3>2. k \in Outstanding
      BY <1>4, <3>1 DEF Outstanding
    <3>3. Near(k)
      BY <3>2 DEF Backlog
    <3>4. k - 1 \in DOMAIN booked => booked'[k-1] = booked[k-1] /\ k - 1 \in DOMAIN booked'
      BY <1>1, <2>1
    <3>5. QED
      BY <3>1, <3>3, <3>4 DEF Near
  <2>2. CASE k = n + 1
    <3>1. CASE t <= now + Longest
      BY <3>1, <2>2, <1>1 DEF Near
    <3>2. CASE lastRefill > now /\ t <= lastRefill + Longest
      <4>1. k - 1 = n
        BY <2>2, <1>1
      <4>2. n \in 1..n /\ booked'[n] = booked[n]
        BY <1>1, <1>3, <3>2
      <4>3. n \in DOMAIN booked' /\ booked'[n].run = run /\ booked'[n].at = lastRefill
        BY <1>1, <1>3, <3>2, <4>2
      <4>4. booked'[k].at <= booked'[k-1].at + Longest
        BY <1>1, <2>2, <3>2, <4>1, <4>3
      <4>5. QED
        BY <4>1, <4>3, <4>4 DEF Near
    <3>3. QED
      BY <3>1, <3>2
  <2>3. QED
    BY <1>1, <1>4, <2>1, <2>2 DEF Outstanding
<1>5. QED
  BY <1>2, <1>4 DEF Backlog

LEMMA BacklogStep == Backlog /\ [Next]_vars => Backlog'
<1> SUFFICES ASSUME Backlog, [Next]_vars PROVE Backlog'
  OBVIOUS
<1>0. Inv /\ Inv' /\ now \in Nat /\ Longest \in Nat /\ run \in Nat /\ lastRefill \in Nat
  BY InvStep, LongestCovers DEF Backlog, Inv, TypeOK
<1>1. CASE AcquireAtOnce
  <2>1. /\ booked' = Append(booked, Booking(now, FALSE))
        /\ lastRefill' = now /\ UNCHANGED <<now, run>> /\ now <= now + Longest
    BY <1>0, <1>1 DEF AcquireAtOnce
  <2>2. QED
    BY <1>0, <2>1, BookingKeepsBacklog
<1>2. CASE AcquireAhead
  <2> DEFINE t == now + Wait
  <2>1. /\ booked' = Append(booked, Booking(t, TRUE))
        /\ lastRefill' = t /\ UNCHANGED <<now, run>>
    BY <1>2 DEF AcquireAhead
  <2>2. t \in Nat
    BY <1>0, <2>1 DEF Inv, TypeOK
  <2>3. t <= now + Longest \/ (lastRefill > now /\ t <= lastRefill + Longest)
    BY <1>0, <1>2, SleepIsOneToken
  <2> HIDE DEF t
  <2>4. QED
    BY <1>0, <2>1, <2>2, <2>3, BookingKeepsBacklog
<1>3. CASE ChangeRate \/ UNCHANGED vars
  <2>1. UNCHANGED <<booked, run, now, lastRefill>>
    BY <1>3 DEF ChangeRate, vars
  <2>2. LeadIsBooked' /\ \A k \in Outstanding' : Near(k)'
    BY <2>1 DEF Backlog, LeadIsBooked, Outstanding, Near
  <2>3. QED
    BY <1>0, <2>2 DEF Backlog
<1>4. CASE Tick
  <2>1. UNCHANGED <<booked, run, lastRefill>> /\ now' = now + 1
    BY <1>4 DEF Tick
  <2>2. LeadIsBooked'
    BY <1>0, <2>1 DEF Backlog, LeadIsBooked
  <2>3. ASSUME NEW k \in Outstanding' PROVE Near(k)'
    <3>1. k \in DOMAIN booked /\ booked[k].run = run /\ booked[k].at > now + 1
      BY <2>1, <2>3 DEF Outstanding
    <3>2. booked[k].at \in Nat
      BY <1>0, <3>1, PastBooking DEF Inv
    <3>3. k \in Outstanding
      BY <1>0, <3>1, <3>2 DEF Outstanding
    <3>4. Near(k)
      BY <3>3 DEF Backlog
    <3>5. QED
      BY <1>0, <2>1, <3>2, <3>4 DEF Near
  <2>4. QED
    BY <1>0, <2>2, <2>3 DEF Backlog
<1>5. CASE Restart
  <2>1. UNCHANGED <<booked, now>> /\ lastRefill' = now /\ run' = run + 1
    BY <1>5 DEF Restart
  <2>2. LeadIsBooked'
    BY <1>0, <2>1 DEF LeadIsBooked
  <2>3. ASSUME NEW k \in Outstanding' PROVE FALSE
    <3>1. k \in DOMAIN booked /\ booked[k].run = run + 1
      BY <2>1, <2>3 DEF Outstanding
    <3>2. booked[k].run <= run
      BY <1>0, <3>1 DEF Inv
    <3>3. QED
      BY <1>0, <3>1, <3>2
  <2>4. QED
    BY <1>0, <2>2, <2>3 DEF Backlog
<1>6. QED
  BY <1>1, <1>2, <1>3, <1>4, <1>5 DEF Next

LEMMA BacklogAlways == Spec => []Backlog
BY BacklogInit, BacklogStep, PTL DEF Spec

\* The bookings up to call k that are still asleep.
UpTo(k) == {i \in Outstanding : i <= k}

LEMMA UpToIsFinite ==
  ASSUME TypeOK, NEW k \in Nat
  PROVE  IsFiniteSet(UpTo(k)) /\ Cardinality(UpTo(k)) \in Nat
<1>1. Len(booked) \in Nat /\ DOMAIN booked = 1..Len(booked)
  BY DEF TypeOK
<1>2. IsFiniteSet(1..Len(booked))
  BY <1>1, FS_Interval
<1>3. UpTo(k) \subseteq 1..Len(booked)
  BY <1>1 DEF UpTo, Outstanding
<1>4. QED
  BY <1>2, <1>3, FS_Subset, FS_CardinalityType

LEMMA LeastOfNaturals ==
  ASSUME NEW S, S \subseteq Nat, S # {}
  PROVE  \E t \in S : \A u \in S : t <= u
<1> DEFINE before == OpToRel(<, Nat)
<1>1. IsWellFoundedOn(before, Nat)
  BY NatLessThanWellFounded
<1> HIDE DEF before
<1>2. PICK t \in S : \A u \in S : ~(<<u, t>> \in before)
  BY <1>1, WFMin
<1>3. \A u \in S : ~(u < t)
  BY <1>2 DEF before, OpToRel
<1>4. QED
  BY <1>3

\* Call k is due after at most one token's time for every sleeper up to it: the first call
\* that were later would be late after a call that is not.
LEMMA SleepersWaitForSleepers ==
  ASSUME Backlog, NEW k \in Outstanding
  PROVE  booked[k].at <= now + Longest * Cardinality(UpTo(k))
<1> DEFINE Late(i) == booked[i].at > now + Longest * Cardinality(UpTo(i))
           late == {i \in Outstanding : Late(i)}
<1>0. /\ TypeOK /\ now \in Nat /\ Longest \in Nat \ {0}
      /\ Len(booked) \in Nat /\ DOMAIN booked = 1..Len(booked)
      /\ \A i \in DOMAIN booked : booked[i].at \in Nat
  BY LongestCovers, PastBooking DEF Backlog, Inv, TypeOK
<1>1. \A i \in Outstanding : i \in Nat /\ i \in DOMAIN booked
  BY <1>0 DEF Outstanding
<1>2. SUFFICES ASSUME late # {} PROVE FALSE
  <2>1. booked[k].at \in Nat /\ Cardinality(UpTo(k)) \in Nat
    BY <1>0, <1>1, UpToIsFinite
  <2> DEFINE wait == Longest * Cardinality(UpTo(k))
  <2>2. wait \in Nat /\ ~(booked[k].at > now + wait)
    BY <1>0, <1>2, <2>1
  <2> HIDE DEF wait
  <2>3. booked[k].at <= now + wait
    BY <1>0, <2>1, <2>2
  <2>4. QED
    BY <2>3 DEF wait
<1>3. PICK first \in late : \A i \in late : first <= i
  <2>1. late \subseteq Nat
    BY <1>1
  <2> HIDE DEF late
  <2>2. QED
    BY <1>2, <2>1, LeastOfNaturals
<1> DEFINE before == Cardinality(UpTo(first - 1))
           waiting == Cardinality(UpTo(first))
<1>4. first \in Outstanding /\ first \in Nat \ {0} /\ first \in DOMAIN booked
      /\ first - 1 \in Nat /\ booked[first].at \in Nat /\ Late(first)
  BY <1>0, <1>1, <1>3
<1>5. before \in Nat /\ waiting = before + 1
  <2>1. UpTo(first) = UpTo(first - 1) \cup {first} /\ first \notin UpTo(first - 1)
    <3>1. \A i \in Outstanding : i <= first <=> i <= first - 1 \/ i = first
      BY <1>1, <1>4
    <3>2. first \in Outstanding /\ ~(first <= first - 1)
      BY <1>4
    <3>3. QED
      BY ONLY <3>1, <3>2 DEF UpTo
  <2>2. IsFiniteSet(UpTo(first - 1)) /\ before \in Nat
    BY <1>0, <1>4, UpToIsFinite
  <2>3. QED
    BY <2>1, <2>2, FS_AddElement
<1>6. Longest * waiting = Longest * before + Longest /\ Longest * before \in Nat
  <2> HIDE DEF before, waiting
  <2>1. QED
    BY <1>0, <1>5
<1>7. booked[first].at > now + Longest * waiting
  BY <1>4
<1>8. booked[first].at > now + Longest
  <2> DEFINE earlier == Longest * before
             all == Longest * waiting
  <2>1. earlier \in Nat /\ all = earlier + Longest /\ booked[first].at > now + all
    BY <1>6, <1>7
  <2> HIDE DEF earlier, all
  <2>2. QED
    BY <1>0, <1>4, <2>1
<1>9. /\ first - 1 \in DOMAIN booked /\ booked[first - 1].run = run
      /\ booked[first].at <= booked[first - 1].at + Longest
  <2>1. Near(first)
    BY <1>4 DEF Backlog
  <2>2. QED
    BY <1>0, <1>4, <1>8, <2>1 DEF Near
<1>10. booked[first - 1].at > now
  BY <1>0, <1>4, <1>8, <1>9
<1>11. first - 1 \in Outstanding
  BY <1>9, <1>10 DEF Outstanding
<1>12. Late(first - 1)
  <2> DEFINE earlier == Longest * before
             all == Longest * waiting
  <2>1. earlier \in Nat /\ all = earlier + Longest /\ booked[first].at > now + all
    BY <1>6, <1>7
  <2> HIDE DEF earlier, all
  <2>2. booked[first - 1].at > now + earlier
    BY <1>0, <1>4, <1>9, <2>1, SMTT(30)
  <2>3. QED
    BY <2>2 DEF earlier
<1>13. QED
  BY <1>3, <1>4, <1>11, <1>12

LEMMA BacklogCounts == Backlog => BacklogIsBooked
<1> SUFFICES ASSUME Backlog PROVE BacklogIsBooked
  OBVIOUS
<1> DEFINE n == Len(booked)
<1>0. /\ TypeOK /\ now \in Nat /\ lastRefill \in Nat /\ Longest \in Nat
      /\ n \in Nat /\ DOMAIN booked = 1..n
  BY LongestCovers DEF Backlog, Inv, TypeOK
<1>1. UpTo(n) = Outstanding
  BY <1>0 DEF UpTo, Outstanding
<1> DEFINE wait == Longest * Cardinality(UpTo(n))
<1>2. wait \in Nat
  BY <1>0, UpToIsFinite
<1>3. lastRefill <= now + wait
  <2>1. CASE lastRefill > now
    <3>1. n \in DOMAIN booked /\ booked[n].run = run /\ booked[n].at = lastRefill
      BY <2>1 DEF Backlog, LeadIsBooked
    <3>2. n \in Outstanding
      BY <2>1, <3>1 DEF Outstanding
    <3>3. QED
      BY <3>1, <3>2, SleepersWaitForSleepers
  <2>2. CASE lastRefill <= now
    <3> HIDE DEF wait
    <3>1. QED
      BY <2>2, <1>0, <1>2
  <2>3. QED
    BY <1>0, <2>1, <2>2
<1>4. lastRefill - now <= wait
  <2> HIDE DEF wait
  <2>1. QED
    BY <1>0, <1>2, <1>3
<1>5. QED
  BY <1>1, <1>4 DEF BacklogIsBooked, Longest, Outstanding

\* The bucket runs ahead of the clock by no more than the calls that are asleep cost at the
\* lowest rate: a refused answer, a change of the rate or a restart adds nothing a caller
\* has to wait for.
THEOREM BacklogIsReal == Spec => []BacklogIsBooked
BY BacklogCounts, BacklogAlways, PTL

=============================================================================
