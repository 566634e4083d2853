-------------------------- MODULE LearnedRateProofs --------------------------
(***************************************************************************)
(* Type correctness of LearnedRate, and that no history of calls, restarts *)
(* and foreign rows takes a limiter, or the persisted row, out of band.    *)
(* Where writes succeed, probes are earned; and where a limiter has its    *)
(* namespace to itself, the row is one change behind its rate at most.     *)
(***************************************************************************)
EXTENDS LearnedRate, TLAPS

\* The ceiling and the floor of a limiter are rates, the floor not above it.
LEMMA BandIsRates ==
  ASSUME setup \in Setups, NEW l \in Limiters
  PROVE  /\ HardCap(l) \in Nat /\ MinRate(l) \in Nat
         /\ 0 < MinRate(l) /\ MinRate(l) <= HardCap(l)
<1>1. setup.cap[l] \in Nat \ {0}
  BY RateUnits
<1>2. QED
  BY <1>1, RateUnits DEF HardCap, MinRate, Smaller

\* They are fixed with the set-up.
LEMMA BandIsFixed ==
  ASSUME UNCHANGED setup, NEW l \in Limiters
  PROVE  HardCap(l)' = HardCap(l) /\ MinRate(l)' = MinRate(l)
BY DEF HardCap, MinRate

\* Clamping returns a rate of the band, whatever it is given.
LEMMA ClampIsInBand ==
  ASSUME setup \in Setups, NEW l \in Limiters, NEW r \in Int
  PROVE  /\ Clamp(l, r) \in Nat
         /\ MinRate(l) <= Clamp(l, r) /\ Clamp(l, r) <= HardCap(l)
BY BandIsRates DEF Clamp, Smaller, Larger

\* So does reading the row, also when another limiter wrote it.
LEMMA LoadedIsInBand ==
  ASSUME setup \in Setups, NEW l \in Limiters, row \in Nat \cup {NoRow}
  PROVE  /\ LoadedRate(l) \in Nat
         /\ MinRate(l) <= LoadedRate(l) /\ LoadedRate(l) <= HardCap(l)
<1>1. InitialRate(l) \in Nat
  BY BandIsRates, RateUnits DEF InitialRate, Smaller, Larger
<1>2. (IF row = NoRow THEN InitialRate(l) ELSE row) \in Int
  BY <1>1
<1>3. QED
  BY <1>2, ClampIsInBand DEF LoadedRate

LEMMA ReducedIsInBand ==
  ASSUME setup \in Setups, NEW l \in Limiters, NEW r \in Nat
  PROVE  /\ Reduced(l, r) \in Nat
         /\ MinRate(l) <= Reduced(l, r) /\ Reduced(l, r) <= HardCap(l)
<1>1. Larger(MinRate(l), (3 * r) \div 4) \in Int
  <2>1. (3 * r) \div 4 \in Int
    OBVIOUS
  <2>2. QED
    BY <2>1, BandIsRates DEF Larger
<1>2. QED
  BY <1>1, ClampIsInBand DEF Reduced

LEMMA OneMoreIsCount ==
  ASSUME NEW n \in 0..Streak
  PROVE  OneMore(n) \in 0..Streak
BY RateUnits DEF OneMore, Smaller

-----------------------------------------------------------------------------

Phases == {"down", "loading", "up", "raising", "lowering"}

\* The inductive invariant: the types and the two bands, which need each other
\* (a loaded rate comes from the row, a saved row from a rate).
Inv == TypeOK /\ RateInBand /\ RowInBand

LEMMA InvInit == Init => Inv
BY BandIsRates, RateUnits DEF Init, Inv, TypeOK, RateInBand, RowInBand

\* Every action of a limiter but Load's and Stop's leaves the others alone and what it
\* gives the limiter, or the row, is a rate of the limiter's band.
LEMMA BandKeepsInv ==
  ASSUME Inv, UNCHANGED setup, NEW l \in Limiters, NEW r \in Nat, NEW t \in Nat,
         MinRate(l) <= r, r <= HardCap(l), MinRate(l) <= t, t <= HardCap(l),
         rate' = [rate EXCEPT ![l] = r], row' \in {row, r},
         learnedMax' = [learnedMax EXCEPT ![l] = t],
         phase' \in [Limiters -> Phases],
         successes' \in [Limiters -> 0..Streak],
         sinceProbe' \in [Limiters -> 0..Streak]
  PROVE  Inv'
<1>1. \A m \in Limiters : HardCap(m)' = HardCap(m) /\ MinRate(m)' = MinRate(m)
  BY BandIsFixed
<1>2. TypeOK'
  BY DEF Inv, TypeOK, Phases
<1>3. RateInBand'
  BY <1>1 DEF Inv, TypeOK, RateInBand
<1>4. RowInBand'
  BY <1>1, RateUnits DEF Inv, TypeOK, RowInBand
<1>5. QED
  BY <1>2, <1>3, <1>4 DEF Inv

LEMMA InvStep == Inv /\ [Next]_vars => Inv'
<1> SUFFICES ASSUME Inv, [Next]_vars PROVE Inv'
  OBVIOUS
<1>0. setup \in Setups /\ Streak \in Nat \ {0}
  BY RateUnits DEF Inv, TypeOK
<1>1. CASE UNCHANGED vars
  BY <1>1 DEF vars, Inv, TypeOK, RateInBand, RowInBand, HardCap, MinRate
<1>2. ASSUME NEW l \in Limiters PROVE /\ rate[l] \in Nat /\ MinRate(l) <= rate[l] /\ rate[l] <= HardCap(l)
                                     /\ learnedMax[l] \in Nat
                                     /\ MinRate(l) <= learnedMax[l] /\ learnedMax[l] <= HardCap(l)
                                     /\ rate = [rate EXCEPT ![l] = rate[l]]
                                     /\ learnedMax = [learnedMax EXCEPT ![l] = learnedMax[l]]
  BY DEF Inv, TypeOK, RateInBand
<1>3. ASSUME NEW l \in Limiters, Load(l) PROVE Inv'
  <2>1. /\ LoadedRate(l) \in Nat
        /\ MinRate(l) <= LoadedRate(l) /\ LoadedRate(l) <= HardCap(l)
    BY <1>0, LoadedIsInBand DEF Inv, TypeOK
  <2>2. phase' \in [Limiters -> Phases]
    BY <1>3 DEF Load, Inv, TypeOK, Phases
  <2>3. /\ successes' \in [Limiters -> 0..Streak]
        /\ sinceProbe' \in [Limiters -> 0..Streak]
    BY <1>3 DEF Load, Inv, TypeOK
  <2>4. QED
    BY <1>2, <1>3, <2>1, <2>2, <2>3, BandKeepsInv DEF Load
<1>4. ASSUME NEW l \in Limiters, Start(l) PROVE Inv'
  <2>1. Clamp(l, rate[l]) = rate[l]
    BY <1>0, <1>2, BandIsRates DEF Clamp, Smaller, Larger
  <2>2. phase' \in [Limiters -> Phases]
    BY <1>4 DEF Start, Inv, TypeOK, Phases
  <2>3. /\ successes' \in [Limiters -> 0..Streak]
        /\ sinceProbe' \in [Limiters -> 0..Streak]
    BY <1>0, <1>4 DEF Start, Inv, TypeOK
  <2>4. QED
    BY <1>2, <1>4, <2>1, <2>2, <2>3, BandKeepsInv DEF Start, Save
<1>5. ASSUME NEW l \in Limiters, Stop(l) PROVE Inv'
  <2>1. phase' \in [Limiters -> Phases]
    BY <1>5 DEF Stop, Inv, TypeOK, Phases
  <2>2. /\ successes' \in [Limiters -> 0..Streak]
        /\ sinceProbe' \in [Limiters -> 0..Streak]
    BY <1>0, <1>5 DEF Stop, Inv, TypeOK
  <2>3. MinRate(l) \in Nat /\ MinRate(l) <= MinRate(l) /\ MinRate(l) <= HardCap(l)
    BY <1>0, BandIsRates
  <2>4. QED
    BY <1>5, <2>1, <2>2, <2>3, BandKeepsInv DEF Stop
<1>6. ASSUME NEW l \in Limiters, CountSuccess(l) PROVE Inv'
  <2>1. /\ successes' \in [Limiters -> 0..Streak]
        /\ sinceProbe' \in [Limiters -> 0..Streak]
    BY <1>6, OneMoreIsCount DEF CountSuccess, Inv, TypeOK
  <2>2. phase' \in [Limiters -> Phases]
    BY <1>6 DEF CountSuccess, Inv, TypeOK, Phases
  <2>3. QED
    BY <1>2, <1>6, <2>1, <2>2, BandKeepsInv DEF CountSuccess
<1>7. ASSUME NEW l \in Limiters, RaiseRate(l) PROVE Inv'
  <2>1. /\ Raised(l, rate[l]) \in Nat
        /\ MinRate(l) <= Raised(l, rate[l]) /\ Raised(l, rate[l]) <= HardCap(l)
    BY <1>0, <1>2, ClampIsInBand, RateUnits DEF Raised
  <2>2. /\ successes' \in [Limiters -> 0..Streak]
        /\ sinceProbe' \in [Limiters -> 0..Streak]
    BY <1>0, <1>7, OneMoreIsCount DEF RaiseRate, Inv, TypeOK
  <2>3. phase' \in [Limiters -> Phases]
    BY <1>7 DEF RaiseRate, Inv, TypeOK, Phases
  <2>4. QED
    BY <1>2, <1>7, <2>1, <2>2, <2>3, BandKeepsInv DEF RaiseRate
<1>8. ASSUME NEW l \in Limiters, Record429(l) PROVE Inv'
  <2>1. /\ Reduced(l, rate[l]) \in Nat
        /\ MinRate(l) <= Reduced(l, rate[l]) /\ Reduced(l, rate[l]) <= HardCap(l)
    BY <1>0, <1>2, ReducedIsInBand
  <2>2. /\ successes' \in [Limiters -> 0..Streak]
        /\ sinceProbe' \in [Limiters -> 0..Streak]
    BY <1>0, <1>8 DEF Record429, Inv, TypeOK
  <2>3. phase' \in [Limiters -> Phases]
    BY <1>8 DEF Record429, Inv, TypeOK, Phases
  <2>4. QED
    BY <1>2, <1>8, <2>1, <2>2, <2>3, BandKeepsInv DEF Record429
<1>9. ASSUME NEW l \in Limiters, Written(l) \/ Refused(l) PROVE Inv'
  <2>1. /\ successes' \in [Limiters -> 0..Streak]
        /\ sinceProbe' \in [Limiters -> 0..Streak]
    BY <1>0, <1>9 DEF Written, Refused, StreakAfterIncrease, Inv, TypeOK
  <2>2. phase' \in [Limiters -> Phases]
    BY <1>9 DEF Written, Refused, Inv, TypeOK, Phases
  <2>3. UNCHANGED <<setup, rate, learnedMax>> /\ row' \in {row, rate[l]}
    BY <1>9 DEF Written, Refused, Save
  <2>4. QED
    BY <1>2, <2>1, <2>2, <2>3, BandKeepsInv
<1>10. QED
  BY <1>1, <1>3, <1>4, <1>5, <1>6, <1>7, <1>8, <1>9 DEF Next, RecordSuccess

LEMMA InvAlways == Spec => []Inv
BY InvInit, InvStep, PTL DEF Spec

\* Every attribute and the row keep their types, for any set of limiters, any
\* caps and any tuning constants.
THEOREM TypeCorrect == Spec => []TypeOK
<1>1. Inv => TypeOK
  BY DEF Inv
<1>2. QED
  BY <1>1, InvAlways, PTL

\* No limiter ever runs outside its band, nor does its recovery target leave it.
THEOREM RateStaysInBand == Spec => []RateInBand
<1>1. Inv => RateInBand
  BY DEF Inv
<1>2. QED
  BY <1>1, InvAlways, PTL

\* The persisted row never carries a rate that no limiter of the namespace could
\* have run at.
THEOREM RowStaysInBand == Spec => []RowInBand
<1>1. Inv => RowInBand
  BY DEF Inv
<1>2. QED
  BY <1>1, InvAlways, PTL

-----------------------------------------------------------------------------
\* A streak is made of successes since the last probe, or the probe it has earned is
\* being written: true as long as the streak is reset with every increase, which a write
\* that is refused prevents.

Streaks == \A l \in Limiters :
  \/ successes[l] <= sinceProbe[l]
  \/ phase[l] = "raising" /\ successes[l] >= Streak

LEMMA ReducedIsLower ==
  ASSUME setup \in Setups, NEW l \in Limiters, NEW r \in Nat,
         MinRate(l) <= r, r <= HardCap(l)
  PROVE  /\ Reduced(l, r) \in Nat /\ MinRate(l) <= Reduced(l, r) /\ Reduced(l, r) <= r
         /\ Reduced(l, r) < r \/ Reduced(l, r) = MinRate(l)
<1>1. 0 < r
  BY BandIsRates
<1>2. (3 * r) \div 4 \in Int /\ (3 * r) \div 4 < r
  BY <1>1
<1>3. QED
  BY <1>1, <1>2, BandIsRates DEF Reduced, Clamp, Larger, Smaller

LEMMA RaisedIsHigher ==
  ASSUME Inv, NEW l \in Limiters, Recovering(l) \/ Probing(l)
  PROVE  /\ Raised(l, rate[l]) \in Nat
         /\ rate[l] < Raised(l, rate[l]) /\ Raised(l, rate[l]) <= HardCap(l)
<1>1. /\ setup \in Setups /\ rate[l] \in Nat /\ learnedMax[l] \in Nat
      /\ MinRate(l) <= rate[l] /\ learnedMax[l] <= HardCap(l)
  BY DEF Inv, TypeOK, RateInBand
<1>2. rate[l] < HardCap(l)
  BY <1>1, BandIsRates DEF Recovering, Probing
<1>3. QED
  BY <1>1, <1>2, BandIsRates, RateUnits DEF Raised, Clamp, Larger, Smaller

LEMMA StreaksStep ==
  ASSUME ~setup.refuses, Inv, Streaks, [Next]_vars
  PROVE  Streaks'
<1>0. /\ Streak \in Nat \ {0}
      /\ \A l \in Limiters : successes[l] \in 0..Streak /\ sinceProbe[l] \in 0..Streak
  BY RateUnits DEF Inv, TypeOK
<1>1. ASSUME NEW l \in Limiters, Load(l) \/ Start(l) \/ Stop(l) \/ Record429(l) PROVE Streaks'
  BY <1>0, <1>1 DEF Load, Start, Stop, Record429, Streaks, Inv, TypeOK
<1>2. ASSUME NEW l \in Limiters, CountSuccess(l) PROVE Streaks'
  BY <1>0, <1>2 DEF CountSuccess, OneMore, Smaller, Streaks, Inv, TypeOK
<1>3. ASSUME NEW l \in Limiters, RaiseRate(l) PROVE Streaks'
  <2>1. successes[l] <= sinceProbe[l]
    BY <1>3 DEF RaiseRate, Streaks
  <2>2. CASE Recovering(l)
    <3>1. OneMore(successes[l]) <= OneMore(sinceProbe[l])
      BY <1>0, <2>1 DEF OneMore, Smaller
    <3>2. QED
      BY <1>0, <1>3, <2>2, <3>1 DEF RaiseRate, Streaks, Inv, TypeOK
  <2>3. CASE ~Recovering(l)
    <3>1. OneMore(successes[l]) >= Streak
      BY <1>0, <1>3, <2>3 DEF RaiseRate, Probing, OneMore, Smaller
    <3>2. QED
      BY <1>0, <1>3, <3>1 DEF RaiseRate, Streaks, Inv, TypeOK
  <2>4. QED
    BY <2>2, <2>3
<1>4. ASSUME NEW l \in Limiters, Written(l) PROVE Streaks'
  <2>1. (IF phase[l] = "raising" THEN StreakAfterIncrease(successes[l]) ELSE successes[l])
          <= sinceProbe[l]
    BY <1>0, <1>4 DEF Written, StreakAfterIncrease, Streaks
  <2>2. QED
    BY <1>0, <1>4, <2>1 DEF Written, Streaks, Inv, TypeOK
<1>5. ASSUME NEW l \in Limiters, Refused(l) PROVE Streaks'
  BY <1>5 DEF Refused
<1>6. CASE UNCHANGED vars
  BY <1>6 DEF vars, Streaks
<1>7. QED
  BY <1>1, <1>2, <1>3, <1>4, <1>5, <1>6 DEF Next, RecordSuccess

\* A step that raises a rate above what is known to work has a whole streak behind it.
LEMMA ProbeHasStreak ==
  ASSUME Inv, Streaks, [Next]_vars, NEW l \in Limiters,
         ~Recovering(l), phase[l] = "up", rate'[l] > rate[l]
  PROVE  sinceProbe[l] + 1 >= Streak
<1>0. /\ setup \in Setups /\ rate \in [Limiters -> Nat]
      /\ rate[l] \in Nat /\ MinRate(l) <= rate[l] /\ rate[l] <= HardCap(l)
      /\ successes[l] \in Int /\ sinceProbe[l] \in Int
  BY DEF Inv, TypeOK, RateInBand
<1>1. PICK m \in Limiters : \/ Load(m) \/ Start(m) \/ Stop(m)
                            \/ RecordSuccess(m) \/ Record429(m)
                            \/ Written(m) \/ Refused(m)
  BY <1>0 DEF Next, vars
<1>2. m = l /\ ~Written(m) /\ ~Refused(m)
  BY <1>0, <1>1 DEF Load, Start, Stop, RecordSuccess, CountSuccess, RaiseRate, Record429,
                    Written, Refused
<1>3. ~Load(l) /\ ~Start(l) /\ ~CountSuccess(l)
  BY <1>0 DEF Load, Start, CountSuccess
<1>4. ~Stop(l)
  BY <1>0, BandIsRates DEF Stop
<1>5. ~Record429(l)
  <2>1. Reduced(l, rate[l]) <= rate[l] /\ Reduced(l, rate[l]) \in Nat
    BY <1>0, ReducedIsLower
  <2>2. QED
    BY <1>0, <2>1 DEF Record429
<1>6. Probing(l)
  BY <1>1, <1>2, <1>3, <1>4, <1>5 DEF RecordSuccess, RaiseRate
<1>7. QED
  BY <1>0, <1>6, RateUnits DEF Probing, Streaks

\* Nothing changes the set-up.
LEMMA SetupStays == [Next]_vars => UNCHANGED setup
BY DEF Next, vars, Load, Start, Stop, RecordSuccess, CountSuccess, RaiseRate, Record429, Written, Refused

\* Where SQLite takes every write, no limiter probes above its learned rate without a
\* whole streak of successes since its last 429 and its last probe, however many others
\* share the row.  (limiter.py, record_success.)
THEOREM ProbesAreEarned == Spec => ProbeNeedsStreak
<1> DEFINE Earned == Inv /\ (~setup.refuses => Streaks)
<1>1. Init => Earned
  BY InvInit, RateUnits DEF Init, Streaks
<1>2. Earned /\ [Next]_vars => Earned'
  BY InvStep, StreaksStep, SetupStays
<1>3. Earned /\ [Next]_vars =>
        [\A l \in Limiters :
           ~setup.refuses /\ ~Recovering(l) /\ phase[l] = "up" /\ rate'[l] > rate[l]
             => sinceProbe[l] + 1 >= Streak]_vars
  BY ProbeHasStreak
<1>4. QED
  BY <1>1, <1>2, <1>3, PTL DEF Spec, ProbeNeedsStreak

-----------------------------------------------------------------------------
\* A limiter that has its namespace to itself

\* The row is the rate, or one change behind it while that change is written; a loaded
\* rate is the row, and the row a rate of the one limiter there is.
Current ==
  /\ \A l \in Limiters : phase[l] # "down" => l \in setup.built
  /\ row # NoRow => \A l \in setup.built : MinRate(l) <= row /\ row <= HardCap(l)
  /\ \A l \in Limiters :
       /\ phase[l] = "up" => row = rate[l]
       /\ phase[l] = "raising" => row \in Nat /\ rate[l] = Raised(l, row)
       /\ phase[l] = "lowering" => row \in Nat /\ rate[l] = Reduced(l, row)
       /\ phase[l] = "loading" /\ row # NoRow => row = rate[l]

LEMMA CurrentStep ==
  ASSUME Owned, Inv, Current, [Next]_vars
  PROVE  Current'
<1>0. /\ setup \in Setups /\ setup.built \subseteq Limiters
      /\ row \in Nat \cup {NoRow} /\ NoRow \notin Nat
      /\ rate \in [Limiters -> Nat] /\ phase \in [Limiters -> Phases]
      /\ \A l \in Limiters : MinRate(l) <= rate[l] /\ rate[l] <= HardCap(l)
  BY RateUnits DEF Inv, TypeOK, RateInBand, Phases
<1>1. /\ setup' = setup
      /\ \A l \in Limiters : HardCap(l)' = HardCap(l) /\ MinRate(l)' = MinRate(l)
  BY SetupStays, BandIsFixed
<1>2. \A l \in Limiters : /\ Raised(l, row)' = Raised(l, row')
                          /\ Reduced(l, row)' = Reduced(l, row')
  BY <1>1 DEF Raised, Reduced, Clamp
<1>3. \A l, m \in setup.built : l = m
  BY DEF Owned
<1>4. CASE UNCHANGED vars
  <2>1. row' = row /\ rate' = rate /\ phase' = phase
    BY <1>4 DEF vars
  <2>2. QED
    BY <1>0, <1>1, <1>2, <2>1 DEF Current
<1>5. ASSUME NEW l \in Limiters,
             Load(l) \/ Start(l) \/ Stop(l) \/ CountSuccess(l) \/ RaiseRate(l) \/ Record429(l) \/ Written(l)
      PROVE  Current'
  <2>1. l \in setup.built /\ \A m \in Limiters \ {l} : phase[m] = "down" /\ m \notin setup.built
    BY <1>0, <1>3, <1>5 DEF Current, Load, Start, Stop, CountSuccess, RaiseRate, Record429, Written
  <2>2. /\ phase' \in [Limiters -> Phases]
        /\ \A m \in Limiters \ {l} : phase'[m] = "down"
    BY <1>0, <1>5, <2>1 DEF Load, Start, Stop, CountSuccess, RaiseRate, Record429, Written, Phases
  <2>3. /\ row' # NoRow => MinRate(l) <= row' /\ row' <= HardCap(l)
        /\ phase'[l] = "up" => row' = rate'[l]
        /\ phase'[l] = "raising" => row' \in Nat /\ rate'[l] = Raised(l, row')
        /\ phase'[l] = "lowering" => row' \in Nat /\ rate'[l] = Reduced(l, row')
        /\ phase'[l] = "loading" /\ row' # NoRow => row' = rate'[l]
    <3>1. CASE Load(l)
      <4>1. row # NoRow => LoadedRate(l) = row
        BY <1>0, <2>1, BandIsRates DEF Current, LoadedRate, Clamp, Smaller, Larger
      <4>2. QED
        BY <1>0, <2>1, <3>1, <4>1 DEF Load, Current
    <3>2. CASE Start(l) \/ Written(l)
      BY <1>0, <3>2 DEF Start, Written, Save
    <3>3. CASE Stop(l)
      BY <1>0, <2>1, <3>3 DEF Stop, Current
    <3>4. CASE CountSuccess(l)
      BY <1>0, <2>1, <3>4 DEF CountSuccess, Current
    <3>5. CASE RaiseRate(l)
      BY <1>0, <2>1, <3>5 DEF RaiseRate, Current
    <3>6. CASE Record429(l)
      BY <1>0, <2>1, <3>6 DEF Record429, Current
    <3>7. QED
      BY <1>5, <3>1, <3>2, <3>3, <3>4, <3>5, <3>6
  <2>4. row' # NoRow => \A m \in setup'.built : MinRate(m)' <= row' /\ row' <= HardCap(m)'
    BY <1>0, <1>1, <2>1, <2>3
  <2>5. ASSUME NEW m \in Limiters
        PROVE  /\ phase'[m] # "down" => m \in setup'.built
               /\ phase'[m] = "up" => row' = rate'[m]
               /\ phase'[m] = "raising" => row' \in Nat /\ rate'[m] = Raised(m, row)'
               /\ phase'[m] = "lowering" => row' \in Nat /\ rate'[m] = Reduced(m, row)'
               /\ phase'[m] = "loading" /\ row' # NoRow => row' = rate'[m]
    <3>1. CASE m = l
      BY <1>1, <1>2, <2>1, <2>3, <3>1
    <3>2. CASE m # l
      BY <2>2, <3>2
    <3>3. QED
      BY <3>1, <3>2
  <2>6. QED
    BY <2>4, <2>5 DEF Current
<1>6. ASSUME NEW l \in Limiters, Refused(l) PROVE Current'
  BY <1>6 DEF Refused, Owned
<1>7. QED
  BY <1>4, <1>5, <1>6 DEF Next, RecordSuccess

LEMMA CurrentAlways == Spec => [](Inv /\ (Owned => Current))
<1>1. Init => Inv /\ (Owned => Current)
  BY InvInit DEF Init, Current
<1>2. (Inv /\ (Owned => Current)) /\ [Next]_vars => (Inv /\ (Owned => Current))'
  BY InvStep, CurrentStep, SetupStays DEF Owned
<1>3. QED
  BY <1>1, <1>2, PTL DEF Spec

\* A limiter that owns its namespace and whose writes succeed may die at any statement,
\* also between a change of its rate and the write of it: what the next process reads is
\* the rate it ran at or the one before its last change.  (limiter.py, record_success,
\* record_429, _save_rate.)
THEOREM RowLagsByOneChange == Spec => []RowLagsOneChange
<1>1. Inv /\ (Owned => Current) => RowLagsOneChange
  BY DEF Current, RowLagsOneChange
<1>2. QED
  BY <1>1, CurrentAlways, PTL

\* And restarting it, at whatever moment and however often, never makes the row rise:
\* only the write of an increase that a success has made does.  (limiter.py, __init__.)
THEOREM RestartsDoNotRaise == Spec => RowRisesOnSuccess
<1>1. ASSUME Inv, Owned, Current, [Next]_vars, row # NoRow, row' > row
      PROVE  \E l \in Limiters : phase[l] = "raising"
  <2>1. row \in Nat /\ setup \in Setups
    BY <1>1 DEF Inv, TypeOK
  <2>2. PICK l \in Limiters : \/ Load(l) \/ Start(l) \/ Stop(l)
                              \/ RecordSuccess(l) \/ Record429(l)
                              \/ Written(l) \/ Refused(l)
    BY <1>1, <2>1 DEF Next, vars
  <2>3. Start(l) \/ Written(l)
    BY <1>1, <2>1, <2>2 DEF Load, Stop, RecordSuccess, CountSuccess, RaiseRate, Record429, Refused
  <2>4. ~Start(l)
    BY <1>1, <2>1 DEF Start, Save, Current
  <2>5. phase[l] # "lowering"
    <3>1. SUFFICES ASSUME phase[l] = "lowering" PROVE FALSE
      OBVIOUS
    <3>2. row' = Reduced(l, row) /\ MinRate(l) <= row /\ row <= HardCap(l)
      BY <1>1, <2>3, <2>4, <3>1 DEF Written, Save, Current
    <3>3. QED
      BY <1>1, <2>1, <3>2, ReducedIsLower
  <2>6. QED
    BY <2>3, <2>4, <2>5 DEF Written
<1>2. Inv /\ (Owned => Current) /\ [Next]_vars =>
        [Owned /\ row # NoRow /\ row' > row => \E l \in Limiters : phase[l] = "raising"]_vars
  BY <1>1
<1>3. QED
  BY <1>2, CurrentAlways, PTL DEF Spec, RowRisesOnSuccess

-----------------------------------------------------------------------------
\* What the modules of the calls assume of the rate

Running == {"up", "raising", "lowering"}

\* An answer moves the rate of its limiter its way within the band: a success never down
\* and, when it counts as an increase, up; a 429 down, or it is at the floor already.
\* Nothing else moves the rate of a running limiter, a write of it no more than one that
\* is refused, and nothing that of another.
MovesItsWay(l) ==
  /\ RecordSuccess(l) => rate[l] <= rate'[l] /\ rate'[l] <= HardCap(l)
  /\ RaiseRate(l) => rate[l] < rate'[l]
  /\ Record429(l) => /\ MinRate(l) <= rate'[l]
                     /\ rate'[l] < rate[l] \/ rate'[l] = MinRate(l)
                     /\ rate'[l] <= rate[l]
  /\ phase[l] \in Running /\ phase'[l] \in Running /\ ~RecordSuccess(l) /\ ~Record429(l)
       => rate'[l] = rate[l]

LEMMA StepMovesItsWay ==
  ASSUME Inv, Next, NEW l \in Limiters PROVE MovesItsWay(l)
<1>0. /\ setup \in Setups /\ rate \in [Limiters -> Nat] /\ phase \in [Limiters -> Phases]
      /\ rate[l] \in Nat /\ MinRate(l) <= rate[l] /\ rate[l] <= HardCap(l)
  BY DEF Inv, TypeOK, RateInBand, Phases
<1>1. ASSUME RaiseRate(l) PROVE rate[l] < rate'[l] /\ rate'[l] <= HardCap(l)
  <2>1. rate'[l] = Raised(l, rate[l]) /\ (Recovering(l) \/ Probing(l))
    BY <1>0, <1>1 DEF RaiseRate
  <2>2. QED
    BY <2>1, RaisedIsHigher
<1>2. ASSUME CountSuccess(l) PROVE rate'[l] = rate[l]
  BY <1>2 DEF CountSuccess
<1>3. ASSUME Record429(l)
      PROVE  /\ MinRate(l) <= rate'[l] /\ rate'[l] <= rate[l]
             /\ rate'[l] < rate[l] \/ rate'[l] = MinRate(l)
  <2>1. rate'[l] = Reduced(l, rate[l])
    BY <1>0, <1>3 DEF Record429
  <2>2. QED
    BY <1>0, <2>1, ReducedIsLower
<1>4. ASSUME phase[l] \in Running, phase'[l] \in Running, ~RecordSuccess(l), ~Record429(l)
      PROVE  rate'[l] = rate[l]
  <2>1. PICK m \in Limiters : \/ Load(m) \/ Start(m) \/ Stop(m)
                              \/ RecordSuccess(m) \/ Record429(m)
                              \/ Written(m) \/ Refused(m)
    BY DEF Next
  <2>2. CASE m = l
    <3>1. ~Load(l) /\ ~Start(l) /\ ~Stop(l)
      BY <1>0, <1>4 DEF Load, Start, Stop, Running
    <3>2. QED
      BY <1>4, <2>1, <2>2, <3>1 DEF Written, Refused
  <2>3. CASE m # l
    BY <1>0, <2>1, <2>3 DEF Load, Start, Stop, RecordSuccess, CountSuccess, RaiseRate, Record429,
                            Written, Refused
  <2>4. QED
    BY <2>2, <2>3
<1>5. RecordSuccess(l) => rate[l] <= rate'[l] /\ rate'[l] <= HardCap(l)
  <2>1. CASE RaiseRate(l)
    <3>1. rate'[l] \in Nat
      BY InvStep DEF Inv, TypeOK
    <3>2. QED
      BY <1>0, <1>1, <2>1, <3>1
  <2>2. CASE CountSuccess(l)
    BY <1>0, <1>2, <2>2
  <2>3. QED
    BY <2>1, <2>2 DEF RecordSuccess
<1>6. QED
  BY <1>1, <1>3, <1>4, <1>5 DEF MovesItsWay

\* RequestPipeline and MarketCalls let an answer move the rate its way within the band,
\* DynamicConcurrency lets it move only when a request ends: this is what they rest on,
\* with any limiters on the row and any writes refused.
THEOREM RatesMoveTheirWay == Spec => [][\A l \in Limiters : MovesItsWay(l)]_vars
<1>1. Inv /\ [Next]_vars => [\A l \in Limiters : MovesItsWay(l)]_vars
  BY StepMovesItsWay
<1>2. QED
  BY <1>1, InvAlways, PTL DEF Spec

\* Below its cap, a success of l brings the rate up, or the streak one on at the same rate;
\* at the cap it leaves the rate there.
LeadsUp(l) == RecordSuccess(l) =>
  \/ rate[l] < rate'[l]
  \/ rate'[l] = rate[l] /\ successes'[l] = successes[l] + 1
  \/ rate'[l] = rate[l] /\ rate[l] = HardCap(l)

LEMMA CountLeadsUp ==
  ASSUME Inv, NEW l \in Limiters, CountSuccess(l), rate[l] # HardCap(l)
  PROVE  rate'[l] = rate[l] /\ successes'[l] = successes[l] + 1
<1>1. rate[l] \in Nat /\ rate[l] < HardCap(l) /\ HardCap(l) \in Nat
  BY BandIsRates DEF Inv, TypeOK, RateInBand
<1>2. successes[l] \in 0..Streak /\ successes \in [Limiters -> 0..Streak] /\ Streak \in Nat
  BY RateUnits DEF Inv, TypeOK
<1>3. successes[l] + 1 < Streak
  BY <1>1, <1>2 DEF CountSuccess, Probing
<1>4. successes'[l] = OneMore(successes[l])
  BY <1>2 DEF CountSuccess
<1>5. QED
  BY <1>2, <1>3, <1>4 DEF CountSuccess, OneMore, Smaller

LEMMA StepLeadsUp ==
  ASSUME Inv, Next, NEW l \in Limiters PROVE LeadsUp(l)
<1>1. ASSUME RaiseRate(l) PROVE rate[l] < rate'[l]
  BY <1>1, StepMovesItsWay DEF MovesItsWay
<1>2. ASSUME CountSuccess(l) PROVE rate'[l] = rate[l]
  BY <1>2 DEF CountSuccess
<1>3. QED
  BY <1>1, <1>2, CountLeadsUp DEF LeadsUp, RecordSuccess

\* The measure behind Recovers: while successes come and nothing else does, the rate
\* rises within HardCap(l) - rate[l] streaks of at most Streak, whether or not the
\* writes succeed, and then stays.
THEOREM SuccessesLeadUp == Spec => [][\A l \in Limiters : LeadsUp(l)]_vars
<1>1. Inv /\ [Next]_vars => [\A l \in Limiters : LeadsUp(l)]_vars
  BY StepLeadsUp
<1>2. QED
  BY <1>1, InvAlways, PTL DEF Spec

=============================================================================
