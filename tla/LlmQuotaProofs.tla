--------------------------- MODULE LlmQuotaProofs ---------------------------
(***************************************************************************)
(* For any callers, buckets, estimates and reported uses, and for windows  *)
(* of any length: the buckets are never overfull, the quota of a window is *)
(* kept by each call that is let through, and waiters hold nothing.        *)
(*                                                                         *)
(* QuotaKept speaks of the moments at which a call is let through.  What   *)
(* holds at all times, and makes it true there, is Books: what the window  *)
(* has used together with what is left in the bucket is accounted for.     *)
(***************************************************************************)
EXTENDS LlmQuota, TLAPS

Accounted(b) == used[b] + level[b] <= Capacity[b] + Rate[b] * elapsed + returned[b]

Books == \A b \in Buckets : Accounted(b)

Inv == TypeOK /\ Books

\* The sizes of one bucket, for the solver to see.
LEMMA BucketTypes ==
  ASSUME TypeOK, NEW b \in Buckets
  PROVE  /\ Capacity[b] \in Nat /\ Capacity[b] > 0
         /\ Rate[b] \in Nat /\ Rate[b] > 0
         /\ level[b] \in Int /\ level[b] <= Capacity[b]
         /\ used[b] \in Int /\ returned[b] \in Nat
         /\ elapsed \in Nat
         /\ Rate[b] * elapsed \in Nat
<1>1. /\ Capacity[b] \in Nat /\ Capacity[b] > 0
      /\ Rate[b] \in Nat /\ Rate[b] > 0
  BY QuotaUnits
<1>2. elapsed \in Nat
  BY QuotaUnits DEF TypeOK
<1>3. Rate[b] * elapsed \in Nat
  BY <1>1, <1>2
<1>4. QED
  BY <1>1, <1>2, <1>3 DEF TypeOK

LEMMA DemandIsNat ==
  ASSUME TypeOK, NEW c \in Calls, NEW b \in Buckets
  PROVE  Demand(c, b) \in Nat /\ estimate[c] \in Nat
<1>1. estimate[c] \in Estimates \cup {0}
  BY DEF TypeOK
<1>2. estimate[c] \in Nat
  <2>1. \A n \in Estimates : n \in Nat
    BY QuotaUnits
  <2>2. QED
    BY <1>1, <2>1
<1>3. QED
  BY <1>2, QuotaUnits DEF Demand

LEMMA InvInit == Init => Inv
<1> SUFFICES ASSUME Init PROVE Inv
  OBVIOUS
<1>1. TypeOK
  BY QuotaUnits DEF Init, TypeOK
<1>2. ASSUME NEW b \in Buckets PROVE Accounted(b)
  BY <1>1, BucketTypes DEF Init, Accounted
<1>3. QED
  BY <1>1, <1>2 DEF Inv, Books

-----------------------------------------------------------------------------

\* What is let through leaves the bucket as it enters the books.
LEMMA GrantKeepsInv ==
  ASSUME Inv, NEW c \in Calls, Grant(c)
  PROVE  Inv' /\ \A b \in Buckets : level'[b] >= 0
<1> USE DEF Inv
<1>1. ASSUME NEW b \in Buckets
      PROVE  /\ level'[b] = level[b] - Demand(c, b) /\ level'[b] >= 0
             /\ used'[b] = used[b] + Demand(c, b)
             /\ level'[b] \in Int /\ level'[b] <= Capacity[b] /\ used'[b] \in Int
  <2>1. level'[b] = level[b] - Demand(c, b) /\ used'[b] = used[b] + Demand(c, b)
    BY DEF Grant
  <2>2. level[b] >= Demand(c, b)
    BY DEF Grant, Enough
  <2>3. QED
    BY <2>1, <2>2, BucketTypes, DemandIsNat
<1>2. level' \in [Buckets -> Int] /\ used' \in [Buckets -> Int]
  BY <1>1 DEF Grant
<1>3. TypeOK'
  BY <1>1, <1>2 DEF Grant, TypeOK
<1>4. ASSUME NEW b \in Buckets PROVE Accounted(b)'
  <2> DEFINE inflow == Rate[b] * elapsed
  <2>1. used[b] + level[b] <= Capacity[b] + inflow + returned[b] /\ inflow \in Nat
    BY BucketTypes DEF Books, Accounted
  <2>2. Accounted(b)' <=> used'[b] + level'[b] <= Capacity[b] + inflow + returned[b]
    BY DEF Grant, Accounted
  <2> HIDE DEF inflow
  <2>3. QED
    BY <1>1, <2>1, <2>2, BucketTypes, DemandIsNat
<1>5. QED
  BY <1>1, <1>3, <1>4 DEF Books

\* Whether the answer belongs to the window or not, its difference enters the books and
\* the bucket alike, except for what a full bucket loses.
LEMMA ReconcileKeepsInv ==
  ASSUME Inv, NEW c \in Calls, Reconcile(c)
  PROVE  Inv'
<1> USE DEF Inv
<1>1. PICK use \in Usages :
        /\ level' = [b \in Buckets |-> IF b = "tokens" THEN Settled(c, use) ELSE level[b]]
        /\ used' = [b \in Buckets |-> IF b = "tokens" /\ counted[c]
                                      THEN used[b] + use - estimate[c] ELSE used[b]]
        /\ returned' = [b \in Buckets |->
                          IF b = "tokens" /\ ~counted[c] /\ use < estimate[c]
                          THEN returned[b] + estimate[c] - use ELSE returned[b]]
  BY DEF Reconcile
<1>2. use \in Nat
  BY QuotaUnits
<1>3. ASSUME NEW b \in Buckets
      PROVE  /\ level'[b] \in Int /\ level'[b] <= Capacity[b]
             /\ used'[b] \in Int /\ returned'[b] \in Nat
             /\ used'[b] + level'[b] - returned'[b] <= used[b] + level[b] - returned[b]
  <2>1. CASE b = "tokens"
    <3>1. estimate[c] \in Nat
      BY DemandIsNat
    <3>2. level'[b] = Smaller(Capacity[b], level[b] + estimate[c] - use)
      BY <1>1, <2>1 DEF Settled
    <3>3. level'[b] <= level[b] + estimate[c] - use
          /\ level'[b] \in Int /\ level'[b] <= Capacity[b]
      BY <3>1, <3>2, <1>2, BucketTypes DEF Smaller
    <3>4. CASE counted[c]
      BY <3>1, <3>3, <3>4, <1>1, <1>2, <2>1, BucketTypes
    <3>5. CASE ~counted[c]
      BY <3>1, <3>3, <3>5, <1>1, <1>2, <2>1, BucketTypes
    <3>6. QED
      BY <3>4, <3>5
  <2>2. CASE b # "tokens"
    BY <1>1, <2>2, BucketTypes
  <2>3. QED
    BY <2>1, <2>2
<1>4. /\ level' \in [Buckets -> Int] /\ used' \in [Buckets -> Int]
      /\ returned' \in [Buckets -> Nat]
  BY <1>1, <1>3
<1>5. TypeOK'
  BY <1>3, <1>4, QuotaUnits DEF Reconcile, Leave, TypeOK
<1>6. ASSUME NEW b \in Buckets PROVE Accounted(b)'
  <2> DEFINE inflow == Rate[b] * elapsed
  <2>1. used[b] + level[b] <= Capacity[b] + inflow + returned[b] /\ inflow \in Nat
    BY BucketTypes DEF Books, Accounted
  <2>2. Accounted(b)' <=> used'[b] + level'[b] <= Capacity[b] + inflow + returned'[b]
    BY DEF Reconcile, Accounted
  <2> HIDE DEF inflow
  <2>3. QED
    BY <1>3, <2>1, <2>2, BucketTypes
<1>7. QED
  BY <1>5, <1>6 DEF Books

\* A window that is opened has used nothing yet.
LEMMA OpenKeepsBooks ==
  ASSUME QuotaUnits, OpenWindow,
         \A b \in Buckets : level'[b] \in Int /\ level'[b] <= Capacity[b]
  PROVE  Books'
<1> SUFFICES ASSUME NEW b \in Buckets PROVE Accounted(b)'
  BY DEF Books
<1>1. used'[b] = 0 /\ returned'[b] = 0 /\ elapsed' = 0
  BY DEF OpenWindow
<1>2. Capacity[b] \in Nat /\ Rate[b] \in Nat
  BY QuotaUnits
<1>3. Rate[b] * elapsed' = 0
  BY <1>1, <1>2
<1>4. QED
  BY <1>1, <1>2, <1>3 DEF Accounted

\* What flows in enters the books as time passes, except for what a full bucket loses.
LEMMA TickKeepsInv ==
  ASSUME Inv, Tick
  PROVE  Inv'
<1> USE DEF Inv
<1>1. ASSUME NEW b \in Buckets
      PROVE  /\ level'[b] \in Int /\ level'[b] <= Capacity[b]
             /\ level'[b] <= level[b] + Rate[b] /\ level'[b] >= level[b]
  <2>1. level'[b] = Smaller(Capacity[b], level[b] + Rate[b])
    BY DEF Tick, Refill
  <2>2. QED
    BY <2>1, BucketTypes DEF Smaller
<1>2. level' \in [Buckets -> Int]
  BY <1>1 DEF Tick, Refill
<1>3. sleep' \in [Calls -> Nat]
  BY DEF Tick, TypeOK
<1>4. CASE elapsed = Window /\ OpenWindow
  <2>1. Books'
    BY <1>1, <1>4, OpenKeepsBooks, QuotaUnits
  <2>2. TypeOK'
    BY <1>1, <1>2, <1>3, <1>4, QuotaUnits DEF Tick, OpenWindow, TypeOK
  <2>3. QED
    BY <2>1, <2>2
<1>5. CASE elapsed < Window /\ elapsed' = elapsed + 1 /\ UNCHANGED <<counted, used, returned>>
  <2>1. TypeOK'
    BY <1>1, <1>2, <1>3, <1>5, QuotaUnits DEF Tick, TypeOK
  <2>2. ASSUME NEW b \in Buckets PROVE Accounted(b)'
    <3> DEFINE inflow == Rate[b] * elapsed
    <3>1. used[b] + level[b] <= Capacity[b] + inflow + returned[b] /\ inflow \in Nat
      BY BucketTypes DEF Books, Accounted
    <3>2. Rate[b] * elapsed' = inflow + Rate[b]
      BY <1>5, BucketTypes
    <3>3. Accounted(b)' <=>
            used[b] + level'[b] <= Capacity[b] + (inflow + Rate[b]) + returned[b]
      BY <1>5, <3>2 DEF Accounted
    <3> HIDE DEF inflow
    <3>4. QED
      BY <1>1, <3>1, <3>3, BucketTypes
  <2>3. QED
    BY <2>1, <2>2 DEF Books
<1>6. QED
  BY <1>4, <1>5 DEF Tick

-----------------------------------------------------------------------------

LEMMA InvStep == Inv /\ [Next]_vars => Inv'
<1> SUFFICES ASSUME Inv, [Next]_vars PROVE Inv'
  OBVIOUS
<1>1. ASSUME NEW c \in Calls, Ask(c) PROVE Inv'
  <2>1. TypeOK'
    BY <1>1, QuotaUnits DEF Inv, TypeOK, Ask, window
  <2>2. QED
    BY <1>1, <2>1 DEF Inv, Books, Accounted, Ask, window
<1>2. ASSUME NEW c \in Calls, Grant(c) PROVE Inv'
  BY <1>2, GrantKeepsInv
<1>3. ASSUME NEW c \in Calls, Sleep(c) PROVE Inv'
  <2>1. PICK n \in Waits(c) : sleep' = [sleep EXCEPT ![c] = n]
    BY <1>3 DEF Sleep
  <2>2. n \in Nat
    <3>1. PICK b \in Buckets : level[b] < Demand(c, b)
      BY <1>3, BucketTypes, DemandIsNat DEF Sleep, Enough, Inv
    <3>2. n \in Int
      <4>1. PICK d \in Buckets : n = Shortfall(c, d)
        BY DEF Waits
      <4>2. QED
        BY <4>1, BucketTypes, DemandIsNat DEF Inv, Shortfall, RoundedUp
    <3>3. Shortfall(c, b) >= 0 /\ Shortfall(c, b) \in Int
      BY <3>1, BucketTypes, DemandIsNat DEF Inv, Shortfall, RoundedUp
    <3>4. Shortfall(c, b) <= n
      BY DEF Waits
    <3>5. QED
      BY <3>2, <3>3, <3>4
  <2>3. TypeOK'
    BY <1>3, <2>1, <2>2 DEF Inv, TypeOK, Sleep, window
  <2>4. QED
    BY <1>3, <2>3 DEF Inv, Books, Accounted, Sleep, window
<1>4. ASSUME NEW c \in Calls, Reconcile(c) PROVE Inv'
  BY <1>4, ReconcileKeepsInv
<1>5. ASSUME NEW c \in Calls, End(c) PROVE Inv'
  <2>1. TypeOK'
    BY <1>5, QuotaUnits DEF Inv, TypeOK, End, Leave
  <2>2. QED
    BY <1>5, <2>1 DEF Inv, Books, Accounted, End
<1>6. ASSUME NEW c \in Calls, Retry(c) PROVE Inv'
  <2>1. TypeOK'
    BY <1>6, QuotaUnits DEF Inv, TypeOK, Retry
  <2>2. QED
    BY <1>6, <2>1 DEF Inv, Books, Accounted, Retry
<1>7. CASE LookElsewhere
  <2>1. TypeOK'
    BY <1>7, QuotaUnits DEF Inv, TypeOK, LookElsewhere, OpenWindow
  <2>2. Books'
    BY <1>7, <2>1, OpenKeepsBooks, QuotaUnits DEF TypeOK, LookElsewhere
  <2>3. QED
    BY <2>1, <2>2 DEF Inv
<1>8. CASE Tick
  BY <1>8, TickKeepsInv
<1>9. CASE UNCHANGED vars
  BY <1>9 DEF Inv, TypeOK, Books, Accounted, vars, window
<1>10. QED
  BY <1>1, <1>2, <1>3, <1>4, <1>5, <1>6, <1>7, <1>8, <1>9 DEF Next

LEMMA InvAlways == Spec => []Inv
<1>1. QED
  BY InvInit, InvStep, PTL DEF Spec

\* No refill and no refund takes a bucket above rpm or tpm.
THEOREM TypeCorrect == Spec => []TypeOK
<1>1. Inv => TypeOK
  BY DEF Inv
<1>2. QED
  BY <1>1, InvAlways, PTL

\* A step that lets a call through is a Grant of that call.
LEMMA GrantedIsGrant ==
  ASSUME Inv, [Next]_vars, NEW c \in Calls, Granted(c)
  PROVE  Grant(c)
<1> USE DEF Inv, TypeOK, Granted
<1>1. ASSUME NEW d \in Calls, Ask(d) PROVE FALSE
  BY <1>1 DEF Ask
<1>2. ASSUME NEW d \in Calls, Grant(d) PROVE d = c
  BY <1>2 DEF Grant
<1>3. ASSUME NEW d \in Calls, Sleep(d) PROVE FALSE
  BY <1>3 DEF Sleep
<1>4. ASSUME NEW d \in Calls, Reconcile(d) \/ End(d) PROVE FALSE
  BY <1>4 DEF Reconcile, End, Leave
<1>5. ASSUME NEW d \in Calls, Retry(d) PROVE FALSE
  BY <1>5 DEF Retry
<1>6. CASE LookElsewhere
  BY <1>6 DEF LookElsewhere
<1>7. CASE Tick
  BY <1>7 DEF Tick
<1>8. CASE UNCHANGED vars
  BY <1>8 DEF vars
<1>9. QED
  BY <1>1, <1>2, <1>3, <1>4, <1>5, <1>6, <1>7, <1>8 DEF Next

\* The quota of every window is kept by every call that RpmTpmRateLimiter.acquire or
\* TokenBucketRateLimiter.acquire lets through, late refunds and overruns included.
THEOREM QuotaIsKept == Spec => QuotaKept
<1>1. ASSUME Inv, [Next]_vars, NEW c \in Calls, Granted(c), NEW b \in Buckets
      PROVE  used'[b] <= Capacity[b] + Rate[b] * elapsed + returned[b]
  <2>1. Grant(c)
    BY <1>1, GrantedIsGrant
  <2>2. Inv' /\ level'[b] >= 0
    BY <1>1, <2>1, GrantKeepsInv
  <2>3. elapsed' = elapsed /\ returned' = returned
    BY <2>1 DEF Grant
  <2> DEFINE inflow == Rate[b] * elapsed
  <2>4. used'[b] + level'[b] <= Capacity[b] + inflow + returned[b]
    BY <2>2, <2>3 DEF Inv, Books, Accounted
  <2>5. used'[b] \in Int /\ level'[b] \in Int
    BY <2>2 DEF Inv, TypeOK
  <2>6. inflow \in Nat /\ Capacity[b] \in Nat /\ returned[b] \in Nat
    BY <1>1, BucketTypes DEF Inv
  <2> HIDE DEF inflow
  <2>7. used'[b] <= Capacity[b] + inflow + returned[b]
    BY <2>2, <2>4, <2>5, <2>6
  <2>8. QED
    BY <2>7 DEF inflow
<1>2. Inv /\ [Next]_vars =>
        [\A c \in Calls : Granted(c) =>
           \A b \in Buckets : used'[b] <= Capacity[b] + Rate[b] * elapsed + returned[b]]_vars
  BY <1>1
<1>3. QED
  BY <1>2, InvAlways, PTL DEF Spec, QuotaKept

\* A caller that sleeps in acquire has taken nothing from either bucket: only a call
\* let through, or an answer that overran its estimate, lowers a level.
THEOREM NothingIsHeld == Spec => WaitersHoldNothing
<1> DEFINE Payer(c, b) ==
      \/ Granted(c) /\ level'[b] = level[b] - Demand(c, b)
      \/ b = "tokens" /\ status[c] = "sending" /\ status'[c] = "idle"
<1>1. ASSUME Inv, [Next]_vars, NEW b \in Buckets, level'[b] < level[b]
      PROVE  \E c \in Calls : Payer(c, b)
  <2> USE <1>1 DEF Inv
  <2>1. level[b] \in Int /\ ~(level[b] < level[b])
    BY BucketTypes
  <2>2. ASSUME NEW c \in Calls, Grant(c) PROVE Payer(c, b)
    BY <2>2 DEF Grant, Granted, TypeOK
  <2>3. ASSUME NEW c \in Calls, Reconcile(c) PROVE Payer(c, b)
    BY <2>1, <2>3 DEF Reconcile, Leave, TypeOK
  <2>4. ASSUME NEW c \in Calls, Ask(c) \/ Sleep(c) \/ End(c) \/ Retry(c) PROVE FALSE
    BY <2>1, <2>4 DEF Ask, Sleep, End, Retry
  <2>5. ASSUME LookElsewhere \/ UNCHANGED vars PROVE FALSE
    BY <2>1, <2>5 DEF LookElsewhere, vars
  <2>6. ASSUME Tick PROVE FALSE
    <3>1. level'[b] = Smaller(Capacity[b], level[b] + Rate[b])
      BY <2>6 DEF Tick, Refill
    <3>2. QED
      BY <3>1, <1>1, BucketTypes DEF Smaller
  <2>7. QED
    BY <2>2, <2>3, <2>4, <2>5, <2>6 DEF Next
<1>2. Inv /\ [Next]_vars =>
        [\A b \in Buckets : level'[b] < level[b] => \E c \in Calls : Payer(c, b)]_vars
  BY <1>1
<1>3. QED
  BY <1>2, InvAlways, PTL DEF Spec, WaitersHoldNothing

-----------------------------------------------------------------------------
\* How long acquire sleeps

\* What bucket b holds in n ticks if nobody takes from it.
Filled(b, n) == Smaller(Capacity[b], level[b] + Rate[b] * n)

\* When c has slept, the buckets will hold what it needs.
Assured(c) == \A b \in Buckets : Filled(b, sleep[c]) >= Demand(c, b)

\* acquire sleeps at all when it lacks something, not a tick too long, and long enough
\* for what fits the buckets; only a caller that is let through first, or an answer that
\* overran its estimate, can spoil that.
WaitsRightly(c) ==
  /\ Sleep(c) =>
       /\ sleep'[c] > 0
       /\ \E b \in Buckets : level[b] + Rate[b] * (sleep'[c] - 1) < Demand(c, b)
       /\ Fits(c) => Assured(c)'
  /\ status[c] = "waiting" /\ Assured(c) =>
       \/ Assured(c)' \/ status'[c] # "waiting" \/ \E b \in Buckets : level'[b] < level[b]

\* A caller that looks into the buckets passes or knows how long to sleep; and it passes
\* if it was assured of that.
LooksRightly(c) == status[c] = "waiting" /\ sleep[c] = 0 =>
  /\ Assured(c) => Enough(c)
  /\ Enough(c) \/ Waits(c) # {}

LEMMA RoundsUp ==
  ASSUME NEW a \in Int, NEW r \in Nat, r > 0
  PROVE  /\ RoundedUp(a, r) \in Int
         /\ r * RoundedUp(a, r) >= a /\ r * (RoundedUp(a, r) - 1) < a
         /\ a > 0 => RoundedUp(a, r) > 0
<1> DEFINE q == (a + r - 1) \div r
           p == r * q
<1>1. q \in Int /\ p \in Int /\ p <= a + r - 1 /\ a + r - 1 < p + r
  OBVIOUS
<1>2. r * (q - 1) = p - r
  BY <1>1
<1>3. a > 0 => q > 0
  <2>1. q <= 0 => p <= 0
    <3> HIDE DEF q
    <3>1. QED
      BY <1>1
  <2> HIDE DEF p, q
  <2>2. QED
    BY <1>1, <2>1
<1> HIDE DEF p, q
<1>4. p >= a /\ p - r < a
  BY <1>1
<1>5. QED
  BY <1>1, <1>2, <1>3, <1>4 DEF RoundedUp, p, q

LEMMA ShortfallFits ==
  ASSUME TypeOK, NEW c \in Calls, NEW b \in Buckets
  PROVE  /\ Shortfall(c, b) \in Int
         /\ level[b] + Rate[b] * Shortfall(c, b) >= Demand(c, b)
         /\ level[b] + Rate[b] * (Shortfall(c, b) - 1) < Demand(c, b)
         /\ level[b] < Demand(c, b) => Shortfall(c, b) > 0
<1> DEFINE lack == Demand(c, b) - level[b]
           n == Shortfall(c, b)
           flow == Rate[b] * n
           less == Rate[b] * (n - 1)
<1>1. /\ Demand(c, b) \in Nat /\ level[b] \in Int /\ Rate[b] \in Nat /\ Rate[b] > 0 /\ lack \in Int
  BY DemandIsNat, BucketTypes
<1>2. n = RoundedUp(lack, Rate[b])
  BY DEF Shortfall
<1> HIDE DEF n
<1>3. n \in Int /\ flow >= lack /\ less < lack /\ (lack > 0 => n > 0)
  <2> HIDE DEF lack
  <2>1. QED
    BY <1>1, <1>2, RoundsUp
<1>4. flow \in Int /\ less \in Int
  BY <1>1, <1>3
<1> HIDE DEF flow, less
<1>5. level[b] + flow >= Demand(c, b) /\ level[b] + less < Demand(c, b)
  BY <1>1, <1>3, <1>4 DEF lack
<1>6. level[b] < Demand(c, b) => n > 0
  BY <1>1, <1>3 DEF lack
<1>7. QED
  BY <1>3, <1>5, <1>6 DEF flow, less, n

LEMMA WaitsExist ==
  ASSUME TypeOK, NEW c \in Calls, ~Enough(c) PROVE Waits(c) # {}
<1>1. PICK b \in Buckets : TRUE
  BY DEF Enough
<1>2. \A d \in Buckets : Shortfall(c, d) \in Int
  BY ShortfallFits
<1>3. Buckets \subseteq {"requests", "tokens"}
  BY QuotaUnits
<1>4. CASE Buckets = {b}
  <2>1. Shortfall(c, b) \in Waits(c)
    BY <1>2, <1>4 DEF Waits
  <2>2. QED
    BY <2>1
<1>5. CASE Buckets # {b}
  <2>1. PICK d \in Buckets : Buckets = {b, d}
    BY <1>1, <1>3, <1>5
  <2>2. CASE Shortfall(c, b) <= Shortfall(c, d)
    <3>1. Shortfall(c, d) \in Waits(c)
      BY <1>2, <2>1, <2>2 DEF Waits
    <3>2. QED
      BY <3>1
  <2>3. CASE Shortfall(c, d) <= Shortfall(c, b)
    <3>1. Shortfall(c, b) \in Waits(c)
      BY <1>2, <2>1, <2>3 DEF Waits
    <3>2. QED
      BY <3>1
  <2>4. QED
    BY <1>2, <2>2, <2>3
<1>6. QED
  BY <1>4, <1>5

\* Flowing for longer, more is there.
LEMMA FlowGrows ==
  ASSUME NEW r \in Nat, NEW m \in Int, NEW n \in Int, m <= n
  PROVE  r * m <= r * n /\ r * m \in Int /\ r * n \in Int
<1>1. (n - m) * r >= 0
  OBVIOUS
<1>2. QED
  BY <1>1

LEMMA SleepsRightly ==
  ASSUME Inv, Inv', NEW c \in Calls, Sleep(c)
  PROVE  /\ sleep'[c] > 0
         /\ \E b \in Buckets : level[b] + Rate[b] * (sleep'[c] - 1) < Demand(c, b)
         /\ Fits(c) => Assured(c)'
<1>1. PICK n \in Waits(c) : sleep' = [sleep EXCEPT ![c] = n]
  BY DEF Sleep
<1>2. sleep'[c] = n /\ level' = level /\ estimate' = estimate
  BY <1>1 DEF Sleep, Inv, TypeOK
<1>3. /\ \E b \in Buckets : n = Shortfall(c, b)
      /\ \A b \in Buckets : Shortfall(c, b) <= n
  BY <1>1 DEF Waits
<1>4. n \in Int /\ n > 0
  <2>1. PICK b \in Buckets : level[b] < Demand(c, b)
    BY DemandIsNat, BucketTypes DEF Sleep, Enough, Inv
  <2>2. Shortfall(c, b) \in Int /\ Shortfall(c, b) > 0
    BY <2>1, ShortfallFits DEF Inv
  <2>3. n \in Int
    BY <1>3, ShortfallFits DEF Inv
  <2>4. QED
    BY <1>3, <2>2, <2>3
<1>5. \E b \in Buckets : level[b] + Rate[b] * (n - 1) < Demand(c, b)
  BY <1>3, ShortfallFits DEF Inv
<1>6. ASSUME Fits(c), NEW b \in Buckets PROVE Filled(b, n) >= Demand(c, b)
  <2> DEFINE s == Shortfall(c, b)
             flow == Rate[b] * n
             part == Rate[b] * s
  <2>1. s \in Int /\ s <= n /\ level[b] + part >= Demand(c, b)
    BY <1>3, ShortfallFits DEF Inv
  <2>2. /\ Demand(c, b) \in Nat /\ level[b] \in Int /\ Rate[b] \in Nat /\ Capacity[b] \in Nat
        /\ Demand(c, b) <= Capacity[b]
    BY <1>6, DemandIsNat, BucketTypes DEF Inv, Fits
  <2> HIDE DEF s
  <2>3. part <= flow /\ part \in Int /\ flow \in Int
    BY <1>4, <2>1, <2>2, FlowGrows
  <2> HIDE DEF part, flow
  <2>4. level[b] + flow >= Demand(c, b)
    BY <2>1, <2>2, <2>3
  <2>5. QED
    BY <2>2, <2>4 DEF Filled, Smaller, flow
<1>7. Fits(c) => Assured(c)'
  BY <1>2, <1>6 DEF Assured, Filled, Demand
<1>8. QED
  BY <1>2, <1>4, <1>5, <1>7

\* A tick shortens the sleep by what it fills in.
LEMMA TickAssures ==
  ASSUME Inv, Inv', NEW c \in Calls, Tick, Assured(c), NEW b \in Buckets
  PROVE  Filled(b, sleep[c])' >= Demand(c, b)'
<1> DEFINE r == Rate[b]
           most == Capacity[b]
           n == sleep[c]
           m == sleep'[c]
           flow == r * n
           rest == r * m
           need == Demand(c, b)
<1>1. /\ most \in Nat /\ r \in Nat /\ level[b] \in Int /\ level[b] <= most /\ need \in Nat
      /\ n \in Nat /\ m \in Nat
  BY DemandIsNat, BucketTypes DEF Inv, TypeOK
<1>2. level'[b] = Smaller(most, level[b] + r) /\ m = (IF n = 0 THEN 0 ELSE n - 1) /\ need' = need
  BY DEF Tick, Refill, Demand
<1>3. Smaller(most, level[b] + flow) >= need
  BY DEF Assured, Filled
<1>4. Filled(b, sleep[c])' = Smaller(most, level'[b] + rest)
  BY DEF Filled
<1> HIDE DEF n, m, r, most, need
<1>5. flow \in Int /\ rest \in Nat /\ (n = 0 => flow = 0) /\ (n # 0 => flow = rest + r)
  BY <1>1, <1>2
<1> HIDE DEF flow, rest
<1>6. Smaller(most, level'[b] + rest) >= need
  <2>1. most >= need /\ level[b] + flow >= need
    BY <1>1, <1>3, <1>5 DEF Smaller
  <2>2. CASE n = 0
    BY <1>1, <1>2, <1>5, <2>1, <2>2 DEF Smaller
  <2>3. CASE n # 0
    BY <1>1, <1>2, <1>5, <2>1, <2>3 DEF Smaller
  <2>4. QED
    BY <2>2, <2>3
<1>7. QED
  BY <1>2, <1>4, <1>6 DEF need

LEMMA EnoughIfAssured ==
  ASSUME Inv, NEW c \in Calls, sleep[c] = 0, Assured(c) PROVE Enough(c)
<1> SUFFICES ASSUME NEW b \in Buckets PROVE level[b] >= Demand(c, b)
  BY DEF Enough
<1>1. Filled(b, 0) >= Demand(c, b)
  BY DEF Assured
<1>2. Rate[b] * 0 = 0 /\ level[b] \in Int /\ Capacity[b] \in Nat /\ Demand(c, b) \in Nat
  BY DemandIsNat, BucketTypes DEF Inv
<1>3. QED
  BY <1>1, <1>2 DEF Filled, Smaller

LEMMA AssuranceStays ==
  ASSUME Inv, Inv', Next, NEW c \in Calls, status[c] = "waiting", Assured(c)
  PROVE  \/ Assured(c)' \/ status'[c] # "waiting" \/ \E b \in Buckets : level'[b] < level[b]
<1> SUFFICES ASSUME status'[c] = "waiting", \A b \in Buckets : ~(level'[b] < level[b])
             PROVE  Assured(c)'
  OBVIOUS
<1>1. \A b \in Buckets : level'[b] \in Int /\ level[b] \in Int /\ level'[b] >= level[b]
  BY DEF Inv, TypeOK
<1>2. CASE Tick
  BY <1>2, TickAssures DEF Assured
<1>3. CASE sleep'[c] = sleep[c] /\ estimate'[c] = estimate[c]
  <2>1. ASSUME NEW b \in Buckets PROVE Filled(b, sleep[c])' >= Demand(c, b)'
    <3> DEFINE flow == Rate[b] * sleep[c]
    <3>1. /\ flow \in Int /\ Capacity[b] \in Nat /\ Demand(c, b) \in Nat
          /\ level[b] \in Int /\ level'[b] \in Int /\ level[b] <= level'[b]
      <4>1. Rate[b] \in Nat /\ sleep[c] \in Nat
        BY BucketTypes DEF Inv, TypeOK
      <4>2. QED
        BY <1>1, <4>1, DemandIsNat, BucketTypes DEF Inv
    <3>2. Smaller(Capacity[b], level[b] + flow) >= Demand(c, b)
      BY DEF Assured, Filled
    <3> HIDE DEF flow
    <3>3. Smaller(Capacity[b], level'[b] + flow) >= Demand(c, b)
      BY <3>1, <3>2 DEF Smaller
    <3>4. Filled(b, sleep[c])' = Smaller(Capacity[b], level'[b] + flow) /\ Demand(c, b)' = Demand(c, b)
      BY <1>3 DEF Filled, Demand, flow
    <3>5. QED
      BY <3>3, <3>4
  <2>2. QED
    BY <2>1 DEF Assured
<1>4. ~Sleep(c)
  BY EnoughIfAssured DEF Sleep
<1>5. ASSUME NEW d \in Calls, Ask(d) \/ Grant(d) \/ Sleep(d) \/ Reconcile(d) \/ End(d) \/ Retry(d)
      PROVE  sleep'[c] = sleep[c] /\ estimate'[c] = estimate[c]
  BY <1>4, <1>5 DEF Inv, TypeOK, Ask, Grant, Sleep, Reconcile, End, Retry, Leave
<1>6. CASE LookElsewhere
  BY <1>3, <1>6 DEF LookElsewhere
<1>7. QED
  BY <1>2, <1>3, <1>5, <1>6 DEF Next

\* The part of FitsIsServed that needs no fairness.  A call that fits sleeps exactly as
\* long as the buckets take to fill, and gets in when it wakes, unless others were let
\* through or overran their estimates in the meantime; then it sleeps again, again for
\* as long as needed, and never looks into the buckets without a way on.
THEOREM SleepIsLongEnough ==
  Spec => /\ [](\A c \in Calls : LooksRightly(c))
          /\ [][\A c \in Calls : WaitsRightly(c)]_vars
<1>1. Inv => \A c \in Calls : LooksRightly(c)
  BY WaitsExist, EnoughIfAssured DEF Inv, LooksRightly
<1>2. Inv /\ [Next]_vars => [\A c \in Calls : WaitsRightly(c)]_vars
  <2> SUFFICES ASSUME Inv, Next, NEW c \in Calls PROVE WaitsRightly(c)
    OBVIOUS
  <2>1. Inv'
    BY InvStep
  <2>2. QED
    BY <2>1, SleepsRightly, AssuranceStays DEF WaitsRightly
<1>3. QED
  BY <1>1, <1>2, InvAlways, PTL DEF Spec

\* FitsIsServed speaks of calls that fit because no other is ever let through: a call
\* whose estimate exceeds max_tokens_per_minute sleeps and looks again in acquire until
\* it is cancelled, however full the bucket is and whatever the answers give back.
THEOREM OversizedNeverPass == Spec => [][\A c \in Calls : Granted(c) => Fits(c)]_vars
<1>1. ASSUME Inv, [Next]_vars, NEW c \in Calls, Granted(c), NEW b \in Buckets
      PROVE  Demand(c, b) <= Capacity[b]
  <2>1. level[b] >= Demand(c, b)
    BY <1>1, GrantedIsGrant DEF Grant, Enough
  <2>2. level[b] <= Capacity[b] /\ level[b] \in Int /\ Capacity[b] \in Int
    BY <1>1, BucketTypes DEF Inv, TypeOK
  <2>3. Demand(c, b) \in Int
    BY <1>1, DemandIsNat DEF Inv
  <2>4. QED
    BY <2>1, <2>2, <2>3
<1>2. Inv /\ [Next]_vars => [\A c \in Calls : Granted(c) => Fits(c)]_vars
  BY <1>1 DEF Fits
<1>3. QED
  BY <1>2, InvAlways, PTL DEF Spec

=============================================================================
