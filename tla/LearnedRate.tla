---------------------------- MODULE LearnedRate ----------------------------
(***************************************************************************)
(* The rate an AdaptiveRateLimiter learns (src/network/limiter.py): AIMD   *)
(* in memory, one row of api_rate_limits per namespace in SQLite.  Every   *)
(* ResilientHttpClient builds a limiter of its own, so several limiters,   *)
(* of one process or of several, share the row of one namespace.           *)
(*                                                                         *)
(* A change in memory and the SQLite write that follows it are two steps:  *)
(* a process may die between them, or another write first.  The limiters   *)
(* of one process cannot interleave there (no await), those of several     *)
(* can; letting all of them do so only adds behaviours.                    *)
(*                                                                         *)
(* Rates are counted in a fixed unit of requests per second; the product   *)
(* with 0.75 is rounded down to that unit.                                 *)
(***************************************************************************)
EXTENDS Integers

CONSTANTS
  Limiters,       (* the limiters that share the namespace                 *)
  Setups,         (* cap[l]: max_requests_per_second of l; built: the      *)
                  (* limiters that are ever built; refuses: whether SQLite *)
                  (* may refuse a write (locked database)                  *)
  Documented,     (* DEFAULT_PROVIDER_HARD_LIMITS: namespace -> its limit  *)
  Namespace,      (* the namespace these limiters are built with           *)
  Floor,          (* AIMD_MIN_RATE_RPS                                     *)
  DefaultRate,    (* AIMD_DEFAULT_INITIAL_RATE_RPS                         *)
  Increase,       (* AIMD_ADDITIVE_INCREASE_RPS                            *)
  Streak,         (* AIMD_SUCCESSES_BEFORE_INCREASE                        *)
  NoRow           (* the namespace has no row yet                          *)

ASSUME RateUnits ==
  /\ Setups \subseteq [cap : [Limiters -> Nat \ {0}], built : SUBSET Limiters, refuses : BOOLEAN]
  /\ \A n \in DOMAIN Documented : Documented[n] \in Nat \ {0}
  /\ Floor \in Nat \ {0}
  /\ DefaultRate \in Nat \ {0}
  /\ Increase \in Nat \ {0}
  /\ Streak \in Nat \ {0}
  /\ NoRow \notin Nat

VARIABLES
  setup,      (* the member of Setups that holds: nothing changes it       *)
  row,        (* current_rate in the namespace's row, or NoRow             *)
  phase,      (* phase[l]: "down", "loading" (in __init__), "up", and from *)
              (* a change of the rate to its write "raising", "lowering"   *)
  rate,       (* rate[l]                                                   *)
  learnedMax, (* learned_max[l]                                            *)
  successes,  (* consecutive_successes[l], counted up to Streak            *)
  sinceProbe  (* history: successes of l since its start, its last 429 or  *)
              (* its last probe above learnedMax, counted up to Streak     *)

vars == <<setup, row, phase, rate, learnedMax, successes, sinceProbe>>

-----------------------------------------------------------------------------

Smaller(a, b) == IF a <= b THEN a ELSE b
Larger(a, b)  == IF a >= b THEN a ELSE b

\* get_hard_cap_rps: a namespace that is in the table cannot be configured above
\* its entry; any other takes the configuration as it is.
HardCap(l) == IF Namespace \in DOMAIN Documented
              THEN Smaller(setup.cap[l], Documented[Namespace])
              ELSE setup.cap[l]
MinRate(l) == Smaller(Floor, HardCap(l))

\* Mutants: only one end of the band is applied.
ClampAbove(l, r) == Smaller(HardCap(l), r)
ClampBelow(l, r) == Larger(MinRate(l), r)

Clamp(l, r) == Larger(MinRate(l), Smaller(HardCap(l), r))

InitialRate(l) == Smaller(HardCap(l), Larger(Floor, DefaultRate))

\* Mutant: what was learned is forgotten at a restart.
FreshRate(l) == Clamp(l, InitialRate(l))

LoadedRate(l) == Clamp(l, IF row = NoRow THEN InitialRate(l) ELSE row)

\* The counter is only ever compared with Streak: saturating it loses nothing.
OneMore(n) == Smaller(n + 1, Streak)

\* Mutant: the streak outlives the increase it earned.
StreakKept(n) == n

StreakAfterIncrease(n) == IF n >= Streak THEN 0 ELSE n

\* Mutant: the row keeps the best rate seen.
SaveBest(r) == row' = IF row = NoRow THEN r ELSE Larger(row, r)

Save(r) == row' = r

Raised(l, r) == Clamp(l, r + Increase)

\* Mutant: the decrease is a step down, and not clamped.
Subtracted(l, r) == r - Increase

Reduced(l, r) == Clamp(l, Larger(MinRate(l), (3 * r) \div 4))

-----------------------------------------------------------------------------

Init ==
  /\ setup \in Setups
  /\ row = NoRow
  /\ phase = [l \in Limiters |-> "down"]
  /\ rate = [l \in Limiters |-> MinRate(l)]
  /\ learnedMax = [l \in Limiters |-> MinRate(l)]
  /\ successes = [l \in Limiters |-> 0]
  /\ sinceProbe = [l \in Limiters |-> 0]

\* First half of __init__: one SQLite transaction reads the row.
Load(l) ==
  /\ phase[l] = "down" /\ l \in setup.built
  /\ phase' = [phase EXCEPT ![l] = "loading"]
  /\ rate' = [rate EXCEPT ![l] = LoadedRate(l)]
  /\ UNCHANGED <<setup, row, learnedMax, successes, sinceProbe>>

\* Second half: another transaction writes it back; other processes may have
\* written in between.  If the write is refused, __init__ raises: Stop.
Start(l) ==
  /\ phase[l] = "loading"
  /\ phase' = [phase EXCEPT ![l] = "up"]
  /\ Save(rate[l])
  /\ learnedMax' = [learnedMax EXCEPT ![l] = Clamp(l, rate[l])]
  /\ successes' = [successes EXCEPT ![l] = 0]
  /\ sinceProbe' = [sinceProbe EXCEPT ![l] = 0]
  /\ UNCHANGED <<setup, rate>>

\* The process ends or dies, also between a change and its write: only the row is
\* left of what it learned.
Stop(l) ==
  /\ phase[l] # "down"
  /\ phase' = [phase EXCEPT ![l] = "down"]
  /\ rate' = [rate EXCEPT ![l] = MinRate(l)]
  /\ learnedMax' = [learnedMax EXCEPT ![l] = MinRate(l)]
  /\ successes' = [successes EXCEPT ![l] = 0]
  /\ sinceProbe' = [sinceProbe EXCEPT ![l] = 0]
  /\ UNCHANGED <<setup, row>>

Recovering(l) == rate[l] < learnedMax[l]

\* Mutant: a probe that stops at the learned rate.
ProbingBelowLearned(l) == successes[l] + 1 >= Streak /\ rate[l] < learnedMax[l]

Probing(l) == successes[l] + 1 >= Streak /\ rate[l] < HardCap(l)

\* record_success that leaves the rate alone.
CountSuccess(l) ==
  /\ phase[l] = "up"
  /\ ~Recovering(l) /\ ~Probing(l)
  /\ successes' = [successes EXCEPT ![l] = OneMore(@)]
  /\ sinceProbe' = [sinceProbe EXCEPT ![l] = OneMore(@)]
  /\ UNCHANGED <<setup, row, phase, rate, learnedMax>>

\* record_success that raises the rate, up to its call of _save_rate.
RaiseRate(l) ==
  /\ phase[l] = "up"
  /\ Recovering(l) \/ Probing(l)
  /\ phase' = [phase EXCEPT ![l] = "raising"]
  /\ rate' = [rate EXCEPT ![l] = Raised(l, @)]
  /\ successes' = [successes EXCEPT ![l] = OneMore(@)]
  /\ sinceProbe' = [sinceProbe EXCEPT ![l] = IF Recovering(l) THEN OneMore(@) ELSE 0]
  /\ UNCHANGED <<setup, row, learnedMax>>

\* record_429, up to its call of _save_rate; at the floor there is nothing to save.
Record429(l) ==
  /\ phase[l] = "up"
  /\ phase' = [phase EXCEPT ![l] = IF Reduced(l, rate[l]) # rate[l] THEN "lowering" ELSE "up"]
  /\ rate' = [rate EXCEPT ![l] = Reduced(l, @)]
  /\ successes' = [successes EXCEPT ![l] = 0]
  /\ sinceProbe' = [sinceProbe EXCEPT ![l] = 0]
  /\ UNCHANGED <<setup, row, learnedMax>>

\* _save_rate commits, and what is left of its caller runs: the streak that earned an
\* increase is reset only now.
Written(l) ==
  /\ phase[l] \in {"raising", "lowering"}
  /\ phase' = [phase EXCEPT ![l] = "up"]
  /\ Save(rate[l])
  /\ successes' = [successes EXCEPT ![l] = IF phase[l] = "raising" THEN StreakAfterIncrease(@) ELSE @]
  /\ UNCHANGED <<setup, rate, learnedMax, sinceProbe>>

\* _save_rate raises, and its caller with it: the new rate stays, the row does not have
\* it, and a streak still counts.
Refused(l) ==
  /\ phase[l] \in {"raising", "lowering"}
  /\ setup.refuses
  /\ phase' = [phase EXCEPT ![l] = "up"]
  /\ UNCHANGED <<setup, row, rate, learnedMax, successes, sinceProbe>>

RecordSuccess(l) == CountSuccess(l) \/ RaiseRate(l)

Next == \E l \in Limiters :
  \/ Load(l) \/ Start(l) \/ Stop(l)
  \/ RecordSuccess(l) \/ Record429(l)
  \/ Written(l) \/ Refused(l)

Spec == Init /\ [][Next]_vars

\* A running program keeps making calls that succeed.
FairSpec ==
  /\ Spec
  /\ \A l \in Limiters : /\ WF_vars(Load(l)) /\ WF_vars(Start(l))
                         /\ WF_vars(RecordSuccess(l)) /\ WF_vars(Written(l) \/ Refused(l))

-----------------------------------------------------------------------------

\* The variables hold what the attributes and the row can hold.
TypeOK ==
  /\ setup \in Setups
  /\ row \in Nat \cup {NoRow}
  /\ phase \in [Limiters -> {"down", "loading", "up", "raising", "lowering"}]
  /\ rate \in [Limiters -> Nat]
  /\ learnedMax \in [Limiters -> Nat]
  /\ successes \in [Limiters -> 0..Streak]
  /\ sinceProbe \in [Limiters -> 0..Streak]

\* However many successes, 429s, restarts and foreign rows a limiter goes
\* through, its rate and its recovery target stay between its floor and its
\* hard cap: configured, and lowered to the documented one when there is one.
RateInBand == \A l \in Limiters :
  /\ MinRate(l) <= rate[l] /\ rate[l] <= HardCap(l)
  /\ MinRate(l) <= learnedMax[l] /\ learnedMax[l] <= HardCap(l)

\* The persisted rate is one that some limiter of the namespace may run at: a
\* row never carries a rate from outside every band into the next process.
RowInBand ==
  row # NoRow => \E l \in Limiters : MinRate(l) <= row /\ row <= HardCap(l)

\* One limiter has the namespace to itself, and SQLite takes its writes.
Owned == ~setup.refuses /\ \A l, m \in setup.built : l = m

\* Then the row is its rate whenever a call begins or ends, and in between, with the
\* rate changed and not yet written, it is one change behind: a process that dies at
\* any statement leaves the rate it ran at, the one before the last increase, or the
\* one before the last 429.
RowLagsOneChange == Owned => \A l \in Limiters :
  /\ phase[l] = "up" => row = rate[l]
  /\ phase[l] = "raising" => rate[l] = Raised(l, row)
  /\ phase[l] = "lowering" => rate[l] = Reduced(l, row)

\* A restart is no way to a higher rate: where one limiter owns the namespace, the
\* persisted rate rises only by the write of an increase that a success has made, from
\* whatever rates, restarts and deaths between change and write went before.
RowRisesOnSuccess ==
  [][Owned /\ row # NoRow /\ row' > row => \E l \in Limiters : phase[l] = "raising"]_vars

\* Above the rate known to work, the limiter probes 0.5 higher only after a whole
\* streak of successes without a 429 or an earlier probe, where SQLite takes every
\* write, whoever else shares the row.
ProbeNeedsStreak ==
  [][\A l \in Limiters :
       ~setup.refuses /\ ~Recovering(l) /\ phase[l] = "up" /\ rate'[l] > rate[l]
         => sinceProbe[l] + 1 >= Streak]_vars

\* Once the provider stops answering 429 and the limiter is left running, its rate
\* comes back all the way to the hard cap and stays there, also when writes are
\* refused and others share the row.
Recovers == \A l \in Limiters :
  <>[][~Record429(l) /\ ~Stop(l)]_vars
    => <>[](l \in setup.built => rate[l] = HardCap(l))

=============================================================================
