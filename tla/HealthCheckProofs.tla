------------------------- MODULE HealthCheckProofs -------------------------
(***************************************************************************)
(* For any set-up, any settings and any prompt: a probe is not blamed for  *)
(* another's trouble, an ok report hides no probe in which a method        *)
(* raised, the chunks of a prompt are the prompt, and the settings are     *)
(* their sources laid over the defaults, whatever the shapes of the trees. *)
(***************************************************************************)
EXTENDS HealthCheck, SequenceTheorems, WellFoundedInduction, TLAPS

-----------------------------------------------------------------------------
\* Induction over a bounded range, and functions defined by recursion over one.  (The
\* library's induction rules have an operator as a parameter; these have a set and a
\* function.)

LEMMA LeastOfNaturals ==
  ASSUME NEW S, S \subseteq Nat, S # {}
  PROVE  \E t \in S : \A u \in S : t <= u
<1> DEFINE before == OpToRel(<, Nat)
<1>1. IsWellFoundedOn(before, Nat)
  BY NatLessThanWellFounded
<1> HIDE DEF before
<1>2. PICK t \in S : \A u \in S : ~(<<u, t>> \in before)
  BY <1>1, WFMin
<1>3. \A u \in S : ~(u < t)
  BY <1>2 DEF before, OpToRel
<1>4. QED
  BY <1>3

LEMMA RangeInduction ==
  ASSUME NEW N \in Nat, NEW P, 0 \in P,
         \A n \in 0..(N - 1) : n \in P => n + 1 \in P
  PROVE  0..N \subseteq P
<1> DEFINE outside == {n \in 0..N : n \notin P}
<1>1. SUFFICES ASSUME outside # {} PROVE FALSE
  OBVIOUS
<1>2. PICK n \in outside : \A m \in outside : n <= m
  <2>1. outside \subseteq Nat
    OBVIOUS
  <2> HIDE DEF outside
  <2>2. QED
    BY <1>1, <2>1, LeastOfNaturals
<1>3. n - 1 \in 0..(N - 1) /\ n - 1 \in P
  BY <1>2
<1>4. n - 1 + 1 = n
  BY <1>2
<1>5. QED
  BY <1>2, <1>3, <1>4

\* f starts at base and follows step for n steps.
Follows(f, base, step, n) == f[0] = base /\ \A k \in 1..n : f[k] = step[<<k, f[k - 1]>>]

LEMMA RangeRecursion ==
  ASSUME NEW N \in Nat, NEW S, NEW base \in S, NEW step \in [(1..N) \X S -> S]
  PROVE  \E f \in [0..N -> S] : Follows(f, base, step, N)
<1> DEFINE P == {n \in 0..N : \E f \in [0..n -> S] : Follows(f, base, step, n)}
<1>1. 0 \in P
  <2>1. [k \in 0..0 |-> base] \in [0..0 -> S] /\ Follows([k \in 0..0 |-> base], base, step, 0)
    BY DEF Follows
  <2>2. \E f \in [0..0 -> S] : Follows(f, base, step, 0)
    BY <2>1
  <2>3. QED
    BY <2>2
<1>2. ASSUME NEW n \in 0..(N - 1), n \in P PROVE n + 1 \in P
  <2>1. PICK f \in [0..n -> S] : Follows(f, base, step, n)
    BY <1>2
  <2> DEFINE g == [k \in 0..(n + 1) |-> IF k = n + 1 THEN step[<<n + 1, f[n]>>] ELSE f[k]]
  <2>2. f[n] \in S /\ step[<<n + 1, f[n]>>] \in S
    BY <1>2
  <2>3. g \in [0..(n + 1) -> S]
    BY <1>2, <2>2
  <2>4. ASSUME NEW k \in 1..(n + 1) PROVE g[k] = step[<<k, g[k - 1]>>]
    <3>1. CASE k = n + 1
      <4>1. k \in 0..(n + 1) /\ k - 1 \in 0..(n + 1) /\ k - 1 # n + 1 /\ k - 1 = n
        BY <1>2, <3>1
      <4>2. QED
        BY <3>1, <4>1
    <3>2. CASE k # n + 1
      <4>1. k \in 1..n /\ k - 1 \in 0..n /\ k \in 0..(n + 1) /\ k - 1 \in 0..(n + 1) /\ k - 1 # n + 1
        BY <1>2, <3>2
      <4>2. QED
        BY <2>1, <3>2, <4>1 DEF Follows
    <3>3. QED
      BY <3>1, <3>2
  <2>5. Follows(g, base, step, n + 1)
    <3>1. 0 \in 0..(n + 1) /\ 0 # n + 1
      BY <1>2
    <3>2. g[0] = base
      BY <2>1, <3>1 DEF Follows
    <3> HIDE DEF g
    <3>3. QED
      BY <2>4, <3>2 DEF Follows
  <2>6. n + 1 \in 0..N
    BY <1>2
  <2>7. QED
    BY <2>3, <2>5, <2>6
<1>3. 0..N \subseteq P
  BY <1>1, <1>2, RangeInduction
<1>4. N \in P
  <2>1. N \in 0..N
    OBVIOUS
  <2> HIDE DEF P
  <2>2. QED
    BY <1>3, <2>1
<1>5. QED
  BY <1>4

-----------------------------------------------------------------------------
\* Sequences laid end to end

\* gathered[k] is the first k sequences of ss, laid end to end.
Gathers(gathered, ss) ==
  /\ gathered[0] = << >>
  /\ \A k \in 1..Len(ss) : gathered[k] = gathered[k - 1] \o ss[k]

LEMMA GatheredExists ==
  ASSUME NEW W, NEW ss \in Seq(Seq(W))
  PROVE  \E g \in [0..Len(ss) -> Seq(W)] : Gathers(g, ss)
<1> DEFINE step == [x \in (1..Len(ss)) \X Seq(W) |-> x[2] \o ss[x[1]]]
<1>1. \A k \in 1..Len(ss) : ss[k] \in Seq(W)
  OBVIOUS
<1>2. step \in [(1..Len(ss)) \X Seq(W) -> Seq(W)]
  <2>1. ASSUME NEW x \in (1..Len(ss)) \X Seq(W) PROVE x[2] \o ss[x[1]] \in Seq(W)
    BY <1>1, ConcatProperties
  <2>2. QED
    BY <2>1
<1>3. \A k \in 1..Len(ss), s \in Seq(W) : step[<<k, s>>] = s \o ss[k]
  OBVIOUS
<1> HIDE DEF step
<1>4. Len(ss) \in Nat /\ << >> \in Seq(W)
  OBVIOUS
<1>5. PICK g \in [0..Len(ss) -> Seq(W)] : Follows(g, << >>, step, Len(ss))
  BY <1>2, <1>4, RangeRecursion
<1>6. \A k \in 1..Len(ss) : g[k - 1] \in Seq(W)
  <2>1. \A k \in 1..Len(ss) : k - 1 \in 0..Len(ss)
    BY <1>4
  <2>2. QED
    BY <2>1
<1>7. QED
  BY <1>3, <1>5, <1>6 DEF Gathers, Follows

LEMMA FlattenIsGathered ==
  ASSUME NEW W, NEW ss \in Seq(Seq(W)), NEW g \in [0..Len(ss) -> Seq(W)], Gathers(g, ss)
  PROVE  FlattenSeq(ss) = g[Len(ss)]
<1>1. CASE Len(ss) = 0
  <2>1. ss = << >>
    BY <1>1
  <2>2. QED
    BY <1>1, <2>1 DEF FlattenSeq, Gathers
<1>2. CASE Len(ss) # 0
  <2> DEFINE Rule(f) == [i \in 1..Len(ss) |-> IF i = 1 THEN ss[i] ELSE f[i - 1] \o ss[i]]
             flatten == CHOOSE f : f = Rule(f)
             front == [i \in 1..Len(ss) |-> g[i]]
  <2>1. Len(ss) \in Nat \ {0} /\ \A k \in 1..Len(ss) : ss[k] \in Seq(W)
    BY <1>2
  <2>2. front = Rule(front)
    <3>1. ASSUME NEW i \in 1..Len(ss)
          PROVE  g[i] = IF i = 1 THEN ss[i] ELSE front[i - 1] \o ss[i]
      <4>1. CASE i = 1
        <5>1. g[i] = g[i - 1] \o ss[i] /\ g[0] = << >> /\ ss[i] \in Seq(W)
          BY <2>1 DEF Gathers
        <5>2. << >> \o ss[i] = ss[i]
          BY <5>1, ConcatEmptySeq
        <5>3. QED
          BY <4>1, <5>1, <5>2, i - 1 = 0
      <4>2. CASE i # 1
        <5>1. i - 1 \in 1..Len(ss)
          BY <2>1, <4>2
        <5>2. QED
          BY <4>2, <5>1 DEF Gathers
      <4>3. QED
        BY <4>1, <4>2
    <3>2. QED
      BY <3>1
  <2>3. flatten = Rule(flatten)
    <3> HIDE DEF front
    <3>1. QED
      BY <2>2
  <2>4. FlattenSeq(ss) = flatten[Len(ss)]
    BY <1>2 DEF FlattenSeq
  <2> HIDE DEF flatten
  <2> DEFINE P == {n \in 0..Len(ss) : n = 0 \/ flatten[n] = g[n]}
  <2>5. 0 \in P
    BY <2>1
  <2>6. ASSUME NEW n \in 0..(Len(ss) - 1), n \in P PROVE n + 1 \in P
    <3> DEFINE m == n + 1
    <3>1. m \in 1..Len(ss) /\ m - 1 = n /\ (m = 1 <=> n = 0)
      BY <2>1
    <3> HIDE DEF m
    <3>2. flatten[m] = IF m = 1 THEN ss[m] ELSE flatten[n] \o ss[m]
      <4> HIDE DEF Rule
      <4>1. flatten[m] = Rule(flatten)[m]
        BY <2>3
      <4>2. Rule(flatten)[m] = IF m = 1 THEN ss[m] ELSE flatten[m - 1] \o ss[m]
        BY <3>1 DEF Rule
      <4>3. QED
        BY <3>1, <4>1, <4>2
    <3>3. g[m] = g[n] \o ss[m]
      BY <3>1 DEF Gathers
    <3>4. flatten[m] = g[m]
      <4>1. CASE n = 0
        <5>1. g[0] = << >> /\ ss[m] \in Seq(W)
          BY <2>1, <3>1 DEF Gathers
        <5>2. << >> \o ss[m] = ss[m]
          BY <5>1, ConcatEmptySeq
        <5>3. QED
          BY <3>1, <3>2, <3>3, <4>1, <5>1, <5>2
      <4>2. CASE n # 0
        <5>1. flatten[n] = g[n]
          BY <2>6, <4>2
        <5>2. QED
          BY <3>1, <3>2, <3>3, <4>2, <5>1
      <4>3. QED
        BY <4>1, <4>2
    <3>5. m \in P
      BY <3>1, <3>4
    <3>6. QED
      BY <3>5 DEF m
  <2>7. Len(ss) \in P
    <3>1. Len(ss) \in Nat /\ Len(ss) \in 0..Len(ss)
      BY <2>1
    <3> HIDE DEF P
    <3>2. QED
      BY <2>5, <2>6, <3>1, RangeInduction
  <2>8. QED
    BY <2>1, <2>4, <2>7
<1>3. QED
  BY <1>1, <1>2

LEMMA FlattenType ==
  ASSUME NEW W, NEW ss \in Seq(Seq(W))
  PROVE  FlattenSeq(ss) \in Seq(W)
<1>1. Len(ss) \in 0..Len(ss)
  OBVIOUS
<1>2. QED
  BY <1>1, GatheredExists, FlattenIsGathered

LEMMA FlattenEmpty == FlattenSeq(<< >>) = << >>
BY DEF FlattenSeq

LEMMA FlattenAppend ==
  ASSUME NEW W, NEW ss \in Seq(Seq(W)), NEW s \in Seq(W)
  PROVE  FlattenSeq(Append(ss, s)) = FlattenSeq(ss) \o s
<1> DEFINE n == Len(ss)
           more == Append(ss, s)
<1>1. PICK g \in [0..n -> Seq(W)] : Gathers(g, ss)
  BY GatheredExists
<1>2. /\ more \in Seq(Seq(W)) /\ Len(more) = n + 1 /\ n \in Nat
      /\ \A k \in 1..n : more[k] = ss[k]
      /\ more[n + 1] = s
  BY AppendProperties
<1> DEFINE h == [k \in 0..(n + 1) |-> IF k = n + 1 THEN g[n] \o s ELSE g[k]]
<1>3. g[n] \in Seq(W) /\ g[n] \o s \in Seq(W)
  BY <1>2, ConcatProperties, SMTT(30)
<1> HIDE DEF n, more
<1>4. h \in [0..(n + 1) -> Seq(W)]
  BY <1>2, <1>3
<1>5. h[0] = << >> /\ h[n + 1] = g[n] \o s
  BY <1>1, <1>2, SMTT(30) DEF Gathers
<1>6. ASSUME NEW k \in 1..(n + 1) PROVE h[k] = h[k - 1] \o more[k]
  <2>1. k - 1 \in 0..n /\ k - 1 # n + 1 /\ k - 1 \in 0..(n + 1)
    BY <1>2
  <2>2. CASE k = n + 1
    <3>1. k - 1 = n /\ n # n + 1 /\ n \in 0..(n + 1)
      <4>1. n \in Nat
        BY <1>2
      <4>2. QED
        BY ONLY <4>1, <2>2
    <3>2. h[n] = g[n]
      BY <3>1
    <3> HIDE DEF h
    <3>3. QED
      BY <1>2, <1>5, <2>2, <3>1, <3>2
  <2>3. CASE k # n + 1
    <3>1. k \in 1..n
      BY <1>2, <2>3
    <3>2. g[k] = g[k - 1] \o ss[k]
      BY <1>1, <3>1 DEF Gathers, n
    <3>3. h[k] = g[k] /\ h[k - 1] = g[k - 1] /\ more[k] = ss[k]
      BY <1>2, <2>1, <2>3, <3>1
    <3> HIDE DEF h
    <3>4. QED
      BY <3>2, <3>3
  <2>4. QED
    BY <2>2, <2>3
<1> HIDE DEF h
<1>7. Gathers(h, more)
  BY <1>2, <1>5, <1>6 DEF Gathers
<1>8. FlattenSeq(more) = h[n + 1]
  BY <1>2, <1>4, <1>7, FlattenIsGathered
<1>9. FlattenSeq(ss) = g[n]
  BY <1>1, FlattenIsGathered DEF n
<1>10. QED
  BY <1>5, <1>8, <1>9 DEF more

LEMMA PrefixGrows ==
  ASSUME NEW S, NEW s \in Seq(S), NEW n \in 0..(Len(s) - 1)
  PROVE  /\ s[n + 1] \in S /\ SubSeq(s, 1, n) \in Seq(S)
         /\ SubSeq(s, 1, n + 1) = Append(SubSeq(s, 1, n), s[n + 1])
<1> DEFINE m == n + 1
<1>1. m \in 1..Len(s) /\ m - 1 = n /\ n \in Int /\ \A i \in 1..n : i \in 1..Len(s)
  OBVIOUS
<1>2. s[m] \in S /\ \A i \in 1..n : s[i] \in S
  BY <1>1
<1>3. SubSeq(s, 1, n) \in Seq(S)
  BY <1>1, <1>2, SubSeqProperties
<1> HIDE DEF m
<1>4. SubSeq(s, 1, m) = SubSeq(s, 1, m - 1) \o <<s[m]>>
  <2>1. 1 \in 1..Len(s) /\ m \in 1..Len(s)
    BY <1>1
  <2>2. QED
    BY <2>1, SubSeqRecursiveSecond
<1>5. Append(SubSeq(s, 1, n), s[m]) = SubSeq(s, 1, n) \o <<s[m]>>
  BY <1>2, <1>3, AppendIsConcat
<1>6. QED
  BY <1>1, <1>2, <1>3, <1>4, <1>5 DEF m

\* An equation the provers would apply to its own result for ever; named, it is applied once.
Associate(a, b, c) == (a \o b) \o c = a \o (b \o c)

LEMMA ConcatAssociates ==
  ASSUME NEW S, NEW a \in Seq(S), NEW b \in Seq(S), NEW c \in Seq(S)
  PROVE  Associate(a, b, c)
<1>1. (a \o b) \o c = a \o (b \o c)
  BY ONLY ConcatAssociative, a \in Seq(S), b \in Seq(S), c \in Seq(S)
<1>2. QED
  BY ONLY <1>1 DEF Associate

LEMMA AppendAssociative ==
  ASSUME NEW S, NEW s \in Seq(S), NEW t \in Seq(S), NEW x \in S
  PROVE  s \o Append(t, x) = Append(s \o t, x)
<1>1. <<x>> \in Seq(S) /\ s \o t \in Seq(S)
  BY ConcatProperties
<1>2. Append(t, x) = t \o <<x>> /\ Append(s \o t, x) = (s \o t) \o <<x>>
  BY <1>1, AppendIsConcat
<1>3. Associate(s, t, <<x>>)
  BY <1>1, ConcatAssociates
<1>4. QED
  BY <1>2, <1>3 DEF Associate

LEMMA FlattenConcat ==
  ASSUME NEW W, NEW ss \in Seq(Seq(W)), NEW tt \in Seq(Seq(W))
  PROVE  FlattenSeq(ss \o tt) = FlattenSeq(ss) \o FlattenSeq(tt)
<1> DEFINE first(k) == SubSeq(tt, 1, k)
           Holds(k) == FlattenSeq(ss \o first(k)) = FlattenSeq(ss) \o FlattenSeq(first(k))
           P == {k \in 0..Len(tt) : Holds(k)}
<1>1. Holds(0)
  <2>1. first(0) = << >>
    BY SubSeqEmpty
  <2>2. ss \o << >> = ss /\ FlattenSeq(ss) \o << >> = FlattenSeq(ss)
    BY FlattenType, ConcatEmptySeq
  <2>3. QED
    BY <2>1, <2>2, FlattenEmpty
<1>2. ASSUME NEW k \in 0..(Len(tt) - 1), Holds(k) PROVE Holds(k + 1)
  <2> DEFINE u == first(k)
             x == tt[k + 1]
  <2>1. x \in Seq(W) /\ u \in Seq(Seq(W)) /\ first(k + 1) = Append(u, x)
    BY PrefixGrows
  <2>2. FlattenSeq(ss \o u) = FlattenSeq(ss) \o FlattenSeq(u)
    BY <1>2
  <2> HIDE DEF u, x, first
  <2>3. ss \o u \in Seq(Seq(W)) /\ ss \o Append(u, x) = Append(ss \o u, x)
    <3> DEFINE V == Seq(W)
    <3>1. ss \in Seq(V) /\ u \in Seq(V) /\ x \in V
      BY <2>1
    <3> HIDE DEF V
    <3>2. ss \o u \in Seq(V)
      BY <3>1, ConcatProperties
    <3>3. ss \o Append(u, x) = Append(ss \o u, x)
      BY <3>1, AppendAssociative
    <3>4. QED
      BY <3>2, <3>3 DEF V
  <2>4. /\ FlattenSeq(Append(ss \o u, x)) = FlattenSeq(ss \o u) \o x
        /\ FlattenSeq(Append(u, x)) = FlattenSeq(u) \o x
    BY <2>1, <2>3, FlattenAppend
  <2>5. (FlattenSeq(ss) \o FlattenSeq(u)) \o x = FlattenSeq(ss) \o (FlattenSeq(u) \o x)
    <3> DEFINE a == FlattenSeq(ss)
               b == FlattenSeq(u)
    <3>1. a \in Seq(W) /\ b \in Seq(W) /\ x \in Seq(W)
      BY <2>1, FlattenType
    <3> HIDE DEF a, b
    <3>2. Associate(a, b, x)
      BY <3>1, ConcatAssociates
    <3>3. QED
      BY ONLY <3>2 DEF Associate, a, b
  <2>6. QED
    BY <2>1, <2>2, <2>3, <2>4, <2>5
<1>3. Holds(Len(tt))
  <2>1. Len(tt) \in Nat /\ Len(tt) \in 0..Len(tt)
    OBVIOUS
  <2>2. 0 \in P /\ \A k \in 0..(Len(tt) - 1) : k \in P => k + 1 \in P
    <3>1. 0 \in 0..Len(tt) /\ \A k \in 0..(Len(tt) - 1) : k + 1 \in 0..Len(tt)
      BY <2>1
    <3> HIDE DEF Holds
    <3>2. QED
      BY <1>1, <1>2, <3>1
  <2>3. Len(tt) \in P
    <3> HIDE DEF P
    <3>1. QED
      BY <2>1, <2>2, RangeInduction
  <2>4. QED
    BY <2>3
<1>4. first(Len(tt)) = tt
  BY SubSeqFull
<1>5. QED
  BY <1>3, <1>4

-----------------------------------------------------------------------------
\* A long paragraph

LEMMA ProductMonotone ==
  ASSUME NEW a \in Int, NEW b \in Int, NEW d \in Nat, a <= b
  PROVE  a * d <= b * d
<1>1. (b - a) * d >= 0
  OBVIOUS
<1>2. QED
  BY <1>1

\* Slices start before the end, and the last one ends there.
LEMMA SliceBounds ==
  ASSUME NEW len \in Nat, NEW max \in Nat \ {0}
  PROVE  LET n == (len + max - 1) \div max
         IN  /\ n \in Nat /\ n * max >= len
             /\ \A i \in 1..n : (i - 1) * max \in Nat /\ (i - 1) * max < len
<1> DEFINE n == (len + max - 1) \div max
<1>1. n \in Nat /\ n * max <= len + max - 1 /\ len + max - 1 < n * max + max
  OBVIOUS
<1> HIDE DEF n
<1>2. ASSUME NEW i \in 1..n PROVE (i - 1) * max \in Nat /\ (i - 1) * max < len
  <2>1. i * max <= n * max
    BY <1>1, ProductMonotone
  <2>2. (i - 1) * max = i * max - max /\ (i - 1) * max \in Nat
    BY <1>1
  <2> DEFINE a == i * max
             b == n * max
  <2>3. a \in Int /\ b \in Int
    BY <1>1
  <2> HIDE DEF a, b
  <2>4. a - max < len
    BY <1>1, <2>1, <2>3 DEF a, b
  <2>5. QED
    BY <2>2, <2>4 DEF a
<1>3. QED
  BY <1>1, <1>2 DEF n

LEMMA SlicesAreTheWords ==
  ASSUME NEW W, NEW words \in Seq(W), NEW max \in Nat \ {0}
  PROVE  /\ Slices(words, max) \in Seq(Seq(W))
         /\ \A i \in 1..Len(Slices(words, max)) : Len(Slices(words, max)[i]) \in 1..max
         /\ FlattenSeq(Slices(words, max)) = words
<1> DEFINE len == Len(words)
           n == (len + max - 1) \div max
           End(i) == IF i * max < len THEN i * max ELSE len
           c == Slices(words, max)
<1>1. /\ len \in Nat /\ n \in Nat /\ n * max >= len
      /\ \A i \in 1..n : (i - 1) * max \in Nat /\ (i - 1) * max < len
  BY SliceBounds, SMTT(30)
<1>2. c = [i \in 1..n |-> SubSeq(words, (i - 1) * max + 1, End(i))]
  BY DEF Slices
<1>3. ASSUME NEW i \in 1..n
      PROVE  /\ End(i) \in 1..len /\ End(i - 1) = (i - 1) * max
             /\ (i - 1) * max < End(i) /\ End(i) <= (i - 1) * max + max
  <2>1. i * max = (i - 1) * max + max /\ (i - 1) * max \in Nat /\ (i - 1) * max < len
    BY <1>1
  <2> DEFINE a == (i - 1) * max
             b == i * max
  <2>2. b = a + max /\ a \in Nat /\ a < len
    BY <2>1
  <2>3. End(i) = (IF b < len THEN b ELSE len) /\ End(i - 1) = (IF a < len THEN a ELSE len)
    OBVIOUS
  <2> HIDE DEF a, b, End
  <2>4. QED
    BY <1>1, <2>2, <2>3 DEF a
<1> HIDE DEF n, c, End
<1>4. ASSUME NEW i \in 1..n
      PROVE  c[i] \in Seq(W) /\ Len(c[i]) \in 1..max
  <2> DEFINE a == (i - 1) * max
             e == End(i)
  <2>1. c[i] = SubSeq(words, a + 1, e)
    BY <1>2
  <2>2. a \in Nat /\ e \in 1..len /\ a < e /\ e <= a + max
    BY <1>1, <1>3
  <2> HIDE DEF a, e
  <2>3. \A j \in (a + 1)..e : words[j] \in W
    BY <1>1, <2>2
  <2>4. SubSeq(words, a + 1, e) \in Seq(W) /\ Len(SubSeq(words, a + 1, e)) = e - (a + 1) + 1
    <3>1. a + 1 \in Int /\ e \in Int /\ a + 1 <= e
      BY <1>1, <2>2
    <3>2. QED
      BY <2>3, <3>1, SubSeqProperties
  <2>5. QED
    BY <1>1, <2>1, <2>2, <2>4
<1>5. c \in Seq(Seq(W)) /\ Len(c) = n
  BY <1>1, <1>2, <1>4
<1> DEFINE Holds(k) == FlattenSeq(SubSeq(c, 1, k)) = SubSeq(words, 1, End(k))
           P == {k \in 0..n : Holds(k)}
<1>6. Holds(0)
  <2>1. End(0) = 0
    BY <1>1 DEF End
  <2>2. SubSeq(c, 1, 0) = << >> /\ SubSeq(words, 1, 0) = << >>
    BY SubSeqEmpty
  <2>3. QED
    BY <2>1, <2>2, FlattenEmpty
<1>7. ASSUME NEW k \in 0..(n - 1), Holds(k) PROVE Holds(k + 1)
  <2> DEFINE i == k + 1
             a == (i - 1) * max
             e == End(i)
  <2>1. i \in 1..n /\ i - 1 = k
    BY <1>1
  <2>2. c[i] \in Seq(W) /\ SubSeq(c, 1, k) \in Seq(Seq(W)) /\ SubSeq(c, 1, i) = Append(SubSeq(c, 1, k), c[i])
    BY <1>5, PrefixGrows
  <2> HIDE DEF i
  <2>3. FlattenSeq(SubSeq(c, 1, i)) = FlattenSeq(SubSeq(c, 1, k)) \o c[i]
    BY <2>2, FlattenAppend
  <2>4. FlattenSeq(SubSeq(c, 1, k)) = SubSeq(words, 1, a)
    BY <1>3, <1>7, <2>1
  <2>5. c[i] = SubSeq(words, a + 1, e)
    BY <1>2, <2>1
  <2>6. a \in 0..len /\ e \in a..len /\ len = Len(words)
    BY <1>1, <1>3, <2>1
  <2> HIDE DEF a, e, len
  <2>7. SubSeq(words, 1, a) \o SubSeq(words, a + 1, e) = SubSeq(words, 1, e)
    <3>1. 1 \in 1..(Len(words) + 1) /\ a \in (1 - 1)..Len(words) /\ e \in a..Len(words)
      BY <2>6
    <3>2. QED
      BY <3>1, ConcatAdjacentSubSeq
  <2>8. FlattenSeq(SubSeq(c, 1, i)) = SubSeq(words, 1, e)
    BY <2>3, <2>4, <2>5, <2>7
  <2>9. QED
    BY <2>8 DEF i, e
<1>8. Holds(n)
  <2>1. n \in 0..n
    BY <1>1
  <2>2. 0 \in P /\ \A k \in 0..(n - 1) : k \in P => k + 1 \in P
    <3>1. 0 \in 0..n /\ \A k \in 0..(n - 1) : k + 1 \in 0..n
      BY <1>1
    <3> HIDE DEF Holds
    <3>2. QED
      BY <1>6, <1>7, <3>1
  <2>3. n \in P
    <3> HIDE DEF P
    <3>1. QED
      BY <1>1, <2>1, <2>2, RangeInduction
  <2>4. QED
    BY <2>3
<1>9. End(n) = len /\ SubSeq(c, 1, n) = c /\ SubSeq(words, 1, len) = words
  BY <1>1, <1>5, SubSeqFull DEF End
<1>10. QED
  BY <1>4, <1>5, <1>8, <1>9 DEF c

-----------------------------------------------------------------------------
\* A text

\* What the words of a text have become after some paragraphs.
Held(acc) == FlattenSeq(acc.chunks) \o acc.current

Gathering(W) == [chunks : Seq(Seq(W)), current : Seq(W)]

Fits(acc, max) ==
  /\ Len(acc.current) <= max
  /\ \A i \in 1..Len(acc.chunks) : Len(acc.chunks[i]) \in 1..max

LEMMA FlushKeeps ==
  ASSUME NEW W, NEW max \in Nat \ {0}, NEW acc \in Gathering(W), Fits(acc, max)
  PROVE  /\ Flush(acc) \in Gathering(W) /\ Fits(Flush(acc), max)
         /\ Flush(acc).current = << >> /\ Held(Flush(acc)) = Held(acc)
<1> DEFINE ss == acc.chunks
           s == acc.current
<1>1. ss \in Seq(Seq(W)) /\ s \in Seq(W) /\ acc = [chunks |-> ss, current |-> s]
  BY DEF Gathering
<1>2. CASE s = << >>
  BY <1>2 DEF Flush
<1>3. CASE s # << >>
  <2>1. Flush(acc) = [chunks |-> Append(ss, s), current |-> << >>]
    BY <1>3 DEF Flush
  <2>2. /\ Append(ss, s) \in Seq(Seq(W)) /\ Len(Append(ss, s)) = Len(ss) + 1
        /\ \A i \in 1..Len(ss) : Append(ss, s)[i] = ss[i]
        /\ Append(ss, s)[Len(ss) + 1] = s
    BY <1>1, AppendProperties
  <2>3. Len(s) \in 1..max
    BY <1>1, <1>3 DEF Fits
  <2>4. \A i \in 1..Len(ss) : Len(ss[i]) \in 1..max
    BY DEF Fits
  <2>5. FlattenSeq(Append(ss, s)) = FlattenSeq(ss) \o s /\ FlattenSeq(Append(ss, s)) \in Seq(W)
    BY <1>1, <2>2, FlattenAppend, FlattenType
  <2> HIDE DEF ss, s
  <2>6. FlattenSeq(Append(ss, s)) \o << >> = FlattenSeq(Append(ss, s))
    BY <2>5, ConcatEmptySeq
  <2>7. Held(Flush(acc)) = FlattenSeq(ss) \o s
    BY <2>1, <2>5, <2>6 DEF Held
  <2>8. \A i \in 1..(Len(ss) + 1) : Len(Append(ss, s)[i]) \in 1..max
    <3>1. ASSUME NEW i \in 1..(Len(ss) + 1) PROVE i = Len(ss) + 1 \/ i \in 1..Len(ss)
      BY <1>1
    <3>2. QED
      BY <2>2, <2>3, <2>4, <3>1
  <2>9. Len(<< >>) <= max /\ << >> \in Seq(W)
    OBVIOUS
  <2>10. QED
    BY <2>1, <2>2, <2>7, <2>8, <2>9 DEF Gathering, Fits, Held, ss, s
<1>4. QED
  BY <1>2, <1>3

LEMMA TakeKeeps ==
  ASSUME NEW W, NEW max \in Nat \ {0}, NEW acc \in Gathering(W), Fits(acc, max), NEW p \in Seq(W)
  PROVE  /\ Take(acc, p, max) \in Gathering(W) /\ Fits(Take(acc, p, max), max)
         /\ Held(Take(acc, p, max)) = Held(acc) \o p
<1> DEFINE full == Len(acc.current) + Len(p) > max
           base == IF full THEN Flush(acc) ELSE acc
<1>1. /\ base \in Gathering(W) /\ Fits(base, max) /\ Held(base) = Held(acc)
      /\ full => base.current = << >>
  BY FlushKeeps
<1>2. /\ Take(acc, p, max) = IF Len(p) > max
                              THEN [base EXCEPT !.chunks = @ \o Slices(p, max)]
                              ELSE [base EXCEPT !.current = @ \o p]
      /\ Len(p) \in Nat /\ Len(acc.current) \in Nat
      /\ Len(p) > max => full
      /\ ~full => Len(base.current) + Len(p) <= max
  <2>1. Take(acc, p, max) = IF Len(p) > max
                            THEN [base EXCEPT !.chunks = @ \o Slices(p, max)]
                            ELSE [base EXCEPT !.current = @ \o p]
    BY DEF Take
  <2>2. acc.current \in Seq(W)
    BY DEF Gathering
  <2>3. QED
    BY <2>1, <2>2
<1> HIDE DEF base, full
<1> DEFINE ss == base.chunks
           s == base.current
<1>3. ss \in Seq(Seq(W)) /\ s \in Seq(W) /\ base = [chunks |-> ss, current |-> s]
      /\ base.chunks = ss /\ base.current = s
      /\ Held(base) = FlattenSeq(ss) \o s /\ FlattenSeq(ss) \in Seq(W)
      /\ Len(s) <= max /\ \A i \in 1..Len(ss) : Len(ss[i]) \in 1..max
  BY <1>1, FlattenType DEF Gathering, Held, Fits
<1> HIDE DEF ss, s
<1>4. CASE Len(p) > max
  <2> DEFINE cc == Slices(p, max)
  <2>1. cc \in Seq(Seq(W)) /\ FlattenSeq(cc) = p /\ \A i \in 1..Len(cc) : Len(cc[i]) \in 1..max
    BY SlicesAreTheWords
  <2> HIDE DEF cc
  <2>2. s = << >> /\ Take(acc, p, max) = [chunks |-> ss \o cc, current |-> s]
    <3>1. s = << >>
      BY <1>1, <1>2, <1>3, <1>4
    <3>2. Take(acc, p, max) = [base EXCEPT !.chunks = @ \o cc]
      BY <1>2, <1>4 DEF cc
    <3>3. [base EXCEPT !.chunks = @ \o cc] = [chunks |-> ss \o cc, current |-> s]
      <4> DEFINE new == ss \o cc
      <4>1. base.chunks \o cc = new /\ base = [chunks |-> ss, current |-> s]
        BY <1>3
      <4> HIDE DEF new
      <4>2. [base EXCEPT !.chunks = new] = [chunks |-> new, current |-> s]
        BY <4>1
      <4>3. QED
        BY <4>1, <4>2 DEF new
    <3>4. QED
      BY <3>1, <3>2, <3>3
  <2>3. /\ ss \o cc \in Seq(Seq(W)) /\ Len(ss \o cc) = Len(ss) + Len(cc)
        /\ \A i \in 1..(Len(ss) + Len(cc)) :
             (ss \o cc)[i] = IF i <= Len(ss) THEN ss[i] ELSE cc[i - Len(ss)]
    <3> DEFINE V == Seq(W)
    <3>1. ss \in Seq(V) /\ cc \in Seq(V)
      BY <1>3, <2>1
    <3> HIDE DEF V
    <3>2. QED
      BY <3>1, ConcatProperties DEF V
  <2>4. ASSUME NEW i \in 1..(Len(ss) + Len(cc)) PROVE Len((ss \o cc)[i]) \in 1..max
    <3>1. Len(ss) \in Nat /\ Len(cc) \in Nat
      BY <1>3, <2>1
    <3>2. i \in 1..Len(ss) \/ (i - Len(ss) \in 1..Len(cc) /\ ~(i <= Len(ss)))
      BY <3>1
    <3>3. QED
      BY <1>3, <2>1, <2>3, <3>1, <3>2
  <2>5. FlattenSeq(ss \o cc) = FlattenSeq(ss) \o p /\ FlattenSeq(ss \o cc) \in Seq(W)
    BY <1>3, <2>1, <2>3, FlattenConcat, FlattenType
  <2>6. FlattenSeq(ss) \o << >> = FlattenSeq(ss) /\ FlattenSeq(ss \o cc) \o << >> = FlattenSeq(ss \o cc)
    BY <1>3, <2>5, ConcatEmptySeq
  <2> DEFINE xx == ss \o cc
  <2>7. /\ Take(acc, p, max).chunks = xx /\ Take(acc, p, max).current = << >>
        /\ Take(acc, p, max) \in Gathering(W)
    <3> HIDE DEF xx
    <3>1. Take(acc, p, max) = [chunks |-> xx, current |-> << >>] /\ xx \in Seq(Seq(W)) /\ << >> \in Seq(W)
      BY <2>2, <2>3 DEF xx
    <3>2. QED
      BY <3>1 DEF Gathering
  <2>8. Held(Take(acc, p, max)) = FlattenSeq(xx) /\ Held(acc) = FlattenSeq(ss)
    BY <1>1, <1>3, <2>2, <2>6, <2>7 DEF Held
  <2>9. Fits(Take(acc, p, max), max)
    BY <2>3, <2>4, <2>7 DEF Fits
  <2>10. QED
    BY <2>5, <2>7, <2>8, <2>9
<1>5. CASE ~(Len(p) > max)
  <2>1. Take(acc, p, max) = [chunks |-> ss, current |-> s \o p]
    <3>1. Take(acc, p, max) = [base EXCEPT !.current = @ \o p]
      BY <1>2, <1>5
    <3>2. [base EXCEPT !.current = @ \o p] = [chunks |-> ss, current |-> s \o p]
      <4> DEFINE new == s \o p
      <4>1. base.current \o p = new /\ base = [chunks |-> ss, current |-> s]
        BY <1>3
      <4> HIDE DEF new
      <4>2. [base EXCEPT !.current = new] = [chunks |-> ss, current |-> new]
        BY <4>1
      <4>3. QED
        BY <4>1, <4>2 DEF new
    <3>3. QED
      BY <3>1, <3>2
  <2>2. s \o p \in Seq(W) /\ Len(s \o p) = Len(s) + Len(p)
    BY <1>3, ConcatProperties
  <2>3. Len(s \o p) <= max
    <3>1. CASE full
      <4>1. s = << >>
        BY <1>1, <3>1 DEF s
      <4>2. QED
        BY <1>2, <1>5, <2>2, <4>1
    <3>2. CASE ~full
      BY <1>2, <2>2, <3>2 DEF s
    <3>3. QED
      BY <3>1, <3>2
  <2>4. FlattenSeq(ss) \o (s \o p) = (FlattenSeq(ss) \o s) \o p
    <3>1. Associate(FlattenSeq(ss), s, p)
      BY <1>3, ConcatAssociates
    <3>2. QED
      BY ONLY <3>1 DEF Associate
  <2> DEFINE t == s \o p
  <2>5. /\ Take(acc, p, max).chunks = ss /\ Take(acc, p, max).current = t
        /\ Take(acc, p, max) \in Gathering(W)
    <3> HIDE DEF t
    <3>1. Take(acc, p, max) = [chunks |-> ss, current |-> t] /\ t \in Seq(W)
      BY <2>1, <2>2 DEF t
    <3>2. QED
      BY <1>3, <3>1 DEF Gathering
  <2>6. Held(Take(acc, p, max)) = FlattenSeq(ss) \o t /\ Held(acc) = FlattenSeq(ss) \o s
    BY <1>1, <1>3, <2>5 DEF Held
  <2>7. Held(Take(acc, p, max)) = Held(acc) \o p
    BY <2>4, <2>6
  <2>8. Fits(Take(acc, p, max), max)
    BY <1>3, <2>3, <2>5 DEF Fits
  <2>9. QED
    BY <2>5, <2>7, <2>8
<1>6. QED
  BY <1>4, <1>5

\* No chunk is empty or too long, and end to end they are the text's paragraphs: no word
\* is lost, doubled or moved, however long words, paragraphs and text are.
\* (core/llm_compress.py, _chunk_text.)
THEOREM ChunksAreTheText ==
  ASSUME NEW W, NEW text \in Seq(Seq(W)), NEW max \in Nat \ {0}
  PROVE  /\ ChunkText(text, max) \in Seq(Seq(W))
         /\ \A i \in 1..Len(ChunkText(text, max)) : Len(ChunkText(text, max)[i]) \in 1..max
         /\ FlattenSeq(ChunkText(text, max)) = FlattenSeq(text)
<1> DEFINE N == Len(text)
           none == [chunks |-> << >>, current |-> << >>]
           Rule(f) == [n \in 0..N |-> IF n = 0 THEN none ELSE Take(f[n - 1], text[n], max)]
           after == CHOOSE f : f = Rule(f)
           A == {acc \in Gathering(W) : Fits(acc, max)}
           step == [x \in (1..N) \X A |-> Take(x[2], text[x[1]], max)]
<1>1. N \in Nat /\ \A n \in 1..N : text[n] \in Seq(W)
  OBVIOUS
<1>2. none \in A /\ Held(none) = << >>
  BY FlattenEmpty, ConcatEmptySeq DEF Gathering, Fits, Held
<1>3. step \in [(1..N) \X A -> A] /\ \A n \in 1..N, acc \in A : step[<<n, acc>>] = Take(acc, text[n], max)
  <2>1. ASSUME NEW x \in (1..N) \X A PROVE Take(x[2], text[x[1]], max) \in A
    BY <1>1, TakeKeeps
  <2>2. QED
    BY <2>1
<1> HIDE DEF N, A, step, none
<1>4. PICK f \in [0..N -> A] : Follows(f, none, step, N)
  BY <1>1, <1>2, <1>3, RangeRecursion
<1>5. f = Rule(f)
  <2>1. ASSUME NEW n \in 0..N
        PROVE  f[n] = IF n = 0 THEN none ELSE Take(f[n - 1], text[n], max)
    <3>1. n # 0 => n \in 1..N /\ n - 1 \in 0..N
      BY <1>1
    <3>2. QED
      BY <1>3, <1>4, <3>1 DEF Follows
  <2>2. QED
    BY <2>1
<1>6. after = Rule(after)
  <2> HIDE DEF Rule
  <2>1. QED
    BY <1>5
<1>7. ChunkText(text, max) = Flush(after[N]).chunks
  BY DEF ChunkText, N, none
<1> HIDE DEF after
<1> DEFINE Holds(n) == after[n] \in A /\ Held(after[n]) = FlattenSeq(SubSeq(text, 1, n))
           P == {n \in 0..N : Holds(n)}
<1>8. Holds(0)
  <2>1. 0 \in 0..N /\ SubSeq(text, 1, 0) = << >>
    BY <1>1, SubSeqEmpty
  <2>2. after[0] = none
    BY <1>6, <2>1
  <2>3. QED
    BY <1>2, <2>1, <2>2, FlattenEmpty
<1>9. ASSUME NEW n \in 0..(N - 1), Holds(n) PROVE Holds(n + 1)
  <2> DEFINE m == n + 1
  <2>1. m \in 0..N /\ m \in 1..N /\ m # 0 /\ m - 1 = n
    BY <1>1
  <2>2. /\ text[m] \in Seq(W) /\ SubSeq(text, 1, n) \in Seq(Seq(W))
        /\ SubSeq(text, 1, m) = Append(SubSeq(text, 1, n), text[m])
    BY PrefixGrows DEF N
  <2> HIDE DEF m
  <2>3. after[m] = Take(after[n], text[m], max)
    <3>1. after[m] = Rule(after)[m]
      BY <1>6
    <3>2. Rule(after)[m] = IF m = 0 THEN none ELSE Take(after[m - 1], text[m], max)
      BY <2>1
    <3> HIDE DEF Rule
    <3>3. QED
      BY <2>1, <3>1, <3>2
  <2>4. after[m] \in A /\ Held(after[m]) = Held(after[n]) \o text[m]
    <3> DEFINE acc == after[n]
               p == text[m]
    <3>1. acc \in Gathering(W) /\ Fits(acc, max) /\ after[m] = Take(acc, p, max) /\ p \in Seq(W)
      BY <1>9, <2>2, <2>3 DEF A
    <3> HIDE DEF acc, p
    <3>2. /\ Take(acc, p, max) \in Gathering(W) /\ Fits(Take(acc, p, max), max)
          /\ Held(Take(acc, p, max)) = Held(acc) \o p
      BY <3>1, TakeKeeps
    <3>3. after[m] \in A /\ Held(after[m]) = Held(acc) \o p
      BY <3>1, <3>2 DEF A
    <3>4. QED
      BY <3>3 DEF acc, p
  <2>5. FlattenSeq(SubSeq(text, 1, m)) = FlattenSeq(SubSeq(text, 1, n)) \o text[m]
    BY <2>2, FlattenAppend
  <2>6. Holds(m)
    BY <1>9, <2>4, <2>5
  <2>7. QED
    BY <2>6 DEF m
<1>10. Holds(N)
  <2>1. N \in 0..N
    BY <1>1
  <2>2. 0 \in P /\ \A k \in 0..(N - 1) : k \in P => k + 1 \in P
    <3>1. 0 \in 0..N /\ \A k \in 0..(N - 1) : k + 1 \in 0..N
      BY <1>1
    <3> HIDE DEF Holds
    <3>2. QED
      BY <1>8, <1>9, <3>1
  <2>3. N \in P
    <3> HIDE DEF P
    <3>1. QED
      BY <1>1, <2>1, <2>2, RangeInduction
  <2>4. QED
    BY <2>3
<1>11. Held(after[N]) = FlattenSeq(text)
  BY <1>10, SubSeqFull DEF N
<1> DEFINE last == Flush(after[N])
<1>12. last \in Gathering(W) /\ Fits(last, max) /\ last.current = << >> /\ Held(last) = FlattenSeq(text)
  BY <1>10, <1>11, FlushKeeps DEF A
<1> HIDE DEF last
<1>13. last.chunks \in Seq(Seq(W)) /\ FlattenSeq(last.chunks) \in Seq(W)
  BY <1>12, FlattenType DEF Gathering
<1>14. Held(last) = FlattenSeq(last.chunks)
  BY <1>12, <1>13, ConcatEmptySeq DEF Held
<1>15. QED
  BY <1>7, <1>12, <1>13, <1>14 DEF Fits, last

-----------------------------------------------------------------------------
\* What the runner makes of an outcome

\* Only an outcome that is trouble is noted or ends the probe ...
LEMMA EffectIsTrouble ==
  ASSUME NEW step, NEW outcome, NEW effect \in Effects(step, outcome), effect # "fine"
  PROVE  /\ Answer(step.m, outcome) # "data"
         /\ ~(step.optional /\ step.m.via = "refused")
<1>1. Answer(step.m, outcome) # "data"
  BY DEF Effects
<1>2. step.m.via = "refused" => Answer(step.m, outcome) = "error"
  BY DEF Answer
<1>3. step.m.via = "refused" => Effects(step, outcome) = {IF step.optional THEN "fine" ELSE "note"}
  BY <1>2 DEF Effects, ErrorEffects
<1>4. QED
  BY <1>1, <1>3

\* ... and a method that raised always is, unless the probe can do without it.
LEMMA ErrorHasEffect ==
  ASSUME NEW step, NEW outcome, NEW effect \in Effects(step, outcome),
         Answer(step.m, outcome) = "error", ~(step.optional /\ step.m.via = "refused")
  PROVE  effect \in {"abort", "note"}
<1>1. Effects(step, outcome) = ErrorEffects(step, outcome)
  BY DEF Effects
<1>2. CASE step.m.via = "refused"
  BY <1>1, <1>2 DEF ErrorEffects
<1>3. CASE step.m.via # "refused"
  BY <1>1, <1>3 DEF ErrorEffects
<1>4. QED
  BY <1>2, <1>3

-----------------------------------------------------------------------------
\* The inductive invariant

Ends == {"none", "skipped", "disabled", "connected", "degraded", "error"}

PostedChunk == [words : Seq(STRING), short : BOOLEAN]

Typed ==
  /\ setup \in Setups
  /\ phase \in {"loading", "building", "probing", "closing", "raised"}
  /\ at \in [ProbeKeys -> Nat]
  /\ noted \subseteq ProbeKeys
  /\ posted \in [ProbeKeys -> Seq(PostedChunk)]
  /\ status \in [ProbeKeys -> Ends \cup {"pending"}]

\* Nothing is asked before there is a client.
NothingYet ==
  phase \in {"loading", "building"} =>
    /\ noted = {} /\ faults = {}
    /\ \A k \in ProbeKeys : status[k] = "none" /\ at[k] = 1 /\ posted[k] = << >>

\* A note is one about the probe's own trouble.
Blame == noted \subseteq trouble /\ NoFalseAlarm

\* A method that raised has ended its probe with an error or left a note, and a note
\* stays until the probe is concluded.
FaultsShow ==
  /\ faults \subseteq ProbeKeys
  /\ \A k \in faults : status[k] = "error" \/ (k \in noted /\ status[k] \in {"pending", "degraded"})

\* What a probe has posted is the beginning of the chunks, and it has posted all of them
\* before it asks its provider.
PostsInOrder(k) ==
  /\ Len(posted[k]) <= Len(Chunks)
  /\ \A i \in 1..Len(posted[k]) : posted[k][i].words = Chunks[i]
  /\ posted[k] # << >> => IsLlm(k) /\ Compresses
  /\ at[k] > 1 /\ IsLlm(k) /\ Compresses => Len(posted[k]) = Len(Chunks)

Posting == \A k \in ProbeKeys : PostsInOrder(k)

HInv == Typed /\ NothingYet /\ Blame /\ FaultsShow /\ Posting

\* Chunks is the cut of the set-up's text, whoever posts it.
LEMMA ChunksType ==
  ASSUME Typed
  PROVE  /\ Chunks \in Seq(Seq(STRING))
         /\ \A i \in 1..Len(Chunks) : Len(Chunks[i]) \in 1..MaxWords
         /\ FlattenSeq(Chunks) = FlattenSeq(setup.text)
<1>1. setup.text \in Seq(Seq(STRING)) /\ MaxWords \in Nat \ {0}
  BY TextsAreWords, HealthUnits DEF Typed
<1>2. QED
  BY <1>1, ChunksAreTheText DEF Chunks

LEMMA HInvInit == Init => HInv
<1> SUFFICES ASSUME Init PROVE HInv
  OBVIOUS
<1>1. Typed
  BY DEF Init, Typed, Ends
<1>2. NothingYet /\ Blame /\ FaultsShow
  BY DEF Init, NothingYet, Blame, NoFalseAlarm, FaultsShow
<1>3. Posting
  <2>1. Len(Chunks) \in Nat
    BY <1>1, ChunksType
  <2>2. \A k \in ProbeKeys : at[k] = 1 /\ posted[k] = << >>
    BY DEF Init
  <2>3. QED
    BY <2>1, <2>2 DEF Posting, PostsInOrder
<1>4. QED
  BY <1>1, <1>2, <1>3 DEF HInv

\* What a step that posts nothing must leave alone.
LEMMA PostingKept ==
  ASSUME Posting, UNCHANGED <<setup, config, posted>>,
         \A k \in ProbeKeys : at'[k] = at[k] \/ Prepared(k)
  PROVE  Posting'
<1>1. Chunks' = Chunks /\ Compresses' = Compresses
  BY DEF Chunks, Compresses
<1>2. ASSUME NEW k \in ProbeKeys PROVE PostsInOrder(k)'
  BY <1>1 DEF Posting, PostsInOrder, Prepared
<1>3. QED
  BY <1>2 DEF Posting

LEMMA LoadKeeps == ASSUME HInv, LoadSettings PROVE HInv'
<1>1. Typed' /\ NothingYet' /\ Blame' /\ FaultsShow'
  BY DEF HInv, LoadSettings, Typed, NothingYet, Blame, NoFalseAlarm, FaultsShow
<1>2. Posting'
  <2>1. \A k \in ProbeKeys : at'[k] = 1 /\ posted'[k] = << >>
    BY DEF HInv, LoadSettings, NothingYet
  <2>2. Len(Chunks') \in Nat
    BY ChunksType DEF HInv, LoadSettings, Chunks
  <2>3. QED
    BY <2>1, <2>2 DEF Posting, PostsInOrder
<1>3. QED
  BY <1>1, <1>2 DEF HInv

LEMMA BuildKeeps == ASSUME HInv, FailToBuild \/ BuildClient PROVE HInv'
<1>1. Typed'
  BY DEF HInv, FailToBuild, BuildClient, Typed, FirstStatus, Ends
<1>2. NothingYet' /\ Blame' /\ FaultsShow'
  BY DEF HInv, FailToBuild, BuildClient, NothingYet, Blame, NoFalseAlarm, FaultsShow, FirstStatus
<1>3. Posting'
  BY PostingKept DEF HInv, FailToBuild, BuildClient
<1>4. QED
  BY <1>1, <1>2, <1>3 DEF HInv

LEMMA EndKeeps == ASSUME HInv, Report \/ Close PROVE HInv'
<1>1. Typed' /\ NothingYet' /\ Blame' /\ FaultsShow'
  BY DEF HInv, Report, Close, Typed, NothingYet, Blame, NoFalseAlarm, FaultsShow
<1>2. Posting'
  BY PostingKept DEF HInv, Report, Close
<1>3. QED
  BY <1>1, <1>2 DEF HInv

LEMMA PostKeeps == ASSUME HInv, NEW k \in ProbeKeys, PostChunk(k) PROVE HInv'
<1>1. PICK short \in BOOLEAN :
        posted' = [posted EXCEPT ![k] = Append(@, [words |-> Chunks[Len(@) + 1], short |-> short])]
  BY DEF PostChunk
<1> DEFINE n == Len(posted[k])
           piece == [words |-> Chunks[n + 1], short |-> short]
<1>2. posted[k] \in Seq(PostedChunk) /\ n \in Nat /\ n < Len(Chunks) /\ IsLlm(k) /\ Compresses
      /\ Len(Chunks) \in Nat
  BY ChunksType DEF HInv, Typed, Posting, PostsInOrder, PostChunk, Prepared
<1>3. piece \in PostedChunk
  <2>1. n + 1 \in 1..Len(Chunks)
    BY <1>2
  <2>2. Chunks[n + 1] \in Seq(STRING)
    BY <2>1, ChunksType DEF HInv
  <2>3. QED
    BY <2>2 DEF PostedChunk
<1>4. posted' = [posted EXCEPT ![k] = Append(posted[k], piece)]
  BY <1>1
<1> HIDE DEF piece, n
<1>5. /\ Append(posted[k], piece) \in Seq(PostedChunk) /\ Len(Append(posted[k], piece)) = n + 1
      /\ \A i \in 1..n : Append(posted[k], piece)[i] = posted[k][i]
      /\ Append(posted[k], piece)[n + 1] = piece /\ Append(posted[k], piece) # << >>
  BY <1>2, <1>3, AppendProperties DEF n
<1>6. /\ posted'[k] = Append(posted[k], piece) /\ posted' \in [ProbeKeys -> Seq(PostedChunk)]
      /\ \A j \in ProbeKeys \ {k} : posted'[j] = posted[j]
  BY <1>4, <1>5 DEF HInv, Typed
<1>7. phase \notin {"loading", "building"}
  BY DEF HInv, NothingYet, PostChunk
<1>8. Typed' /\ NothingYet' /\ Blame' /\ FaultsShow'
  BY <1>6, <1>7 DEF HInv, PostChunk, Typed, NothingYet, Blame, NoFalseAlarm, FaultsShow
<1>9. Chunks' = Chunks /\ Compresses' = Compresses /\ UNCHANGED at
  BY DEF PostChunk, Chunks, Compresses
<1>10. PostsInOrder(k)'
  <2>1. ASSUME NEW i \in 1..(n + 1) PROVE Append(posted[k], piece)[i].words = Chunks[i]
    <3>1. CASE i = n + 1
      BY <1>5, <3>1 DEF piece
    <3>2. CASE i # n + 1
      <4>1. i \in 1..n
        BY <1>2, <3>2
      <4>2. QED
        BY <1>5, <4>1 DEF HInv, Posting, PostsInOrder, n
    <3>3. QED
      BY <3>1, <3>2
  <2>2. at[k] > 1 => n = Len(Chunks)
    BY <1>2 DEF HInv, Posting, PostsInOrder, n
  <2>3. QED
    BY <1>2, <1>5, <1>6, <1>9, <2>1, <2>2 DEF PostsInOrder
<1>11. ASSUME NEW j \in ProbeKeys \ {k} PROVE PostsInOrder(j)'
  BY <1>6, <1>9 DEF HInv, Posting, PostsInOrder
<1>12. QED
  BY <1>8, <1>10, <1>11 DEF HInv, Posting

LEMMA AskKeeps == ASSUME HInv, NEW k \in ProbeKeys, Ask(k) PROVE HInv'
<1> DEFINE step == Steps(k)[at[k]]
<1>1. PICK good \in SUBSET SourcesOf(k, step), bad \in {"empty", "failed"} :
        LET outcome == IF good # {} THEN "data" ELSE bad
            answer  == Answer(step.m, outcome)
            passed  == step.optional /\ step.m.via = "refused"
        IN  \E effect \in Effects(step, outcome) :
              /\ Advance(k, effect)
              /\ noted' = IF effect = "note" THEN noted \cup {k} ELSE noted
              /\ trouble' = IF answer = "data" \/ passed THEN trouble ELSE trouble \cup {k}
              /\ faults' = IF answer = "error" /\ ~passed THEN faults \cup {k} ELSE faults
  BY ZenonT(60) DEF Ask
<1> HIDE DEF step
<1> DEFINE outcome == IF good # {} THEN "data" ELSE bad
           answer == Answer(step.m, outcome)
           passed == step.optional /\ step.m.via = "refused"
<1>2. PICK effect \in Effects(step, outcome) :
        /\ Advance(k, effect)
        /\ noted' = IF effect = "note" THEN noted \cup {k} ELSE noted
        /\ trouble' = IF answer = "data" \/ passed THEN trouble ELSE trouble \cup {k}
        /\ faults' = IF answer = "error" /\ ~passed THEN faults \cup {k} ELSE faults
  BY <1>1
<1>3. effect # "fine" => answer # "data" /\ ~passed
  BY EffectIsTrouble
<1>4. answer = "error" /\ ~passed => effect \in {"abort", "note"}
  BY ErrorHasEffect
<1> HIDE DEF outcome, answer, passed
<1>5. /\ status[k] = "pending" /\ Prepared(k) /\ phase \notin {"loading", "building"}
      /\ UNCHANGED <<setup, phase, config, posted>>
  BY DEF Ask, HInv, NothingYet
<1>6. /\ at' = [at EXCEPT ![k] = @ + 1]
      /\ status' = IF effect = "abort" THEN [status EXCEPT ![k] = "error"] ELSE status
  BY <1>2 DEF Advance
<1>7. Typed'
  BY <1>2, <1>5, <1>6 DEF HInv, Typed, Ends
<1>8. NothingYet'
  BY <1>5 DEF NothingYet
<1>9. Blame'
  <2>1. noted' \subseteq trouble'
    BY <1>2, <1>3 DEF HInv, Blame
  <2>2. ASSUME NEW j \in ProbeKeys, status'[j] \in {"error", "degraded"} PROVE j \in trouble'
    BY <1>2, <1>3, <1>5, <1>6, <2>2 DEF HInv, Typed, Blame, NoFalseAlarm
  <2>3. QED
    BY <2>1, <2>2 DEF Blame, NoFalseAlarm
<1>10. FaultsShow'
  <2>1. faults' \subseteq ProbeKeys
    BY <1>2 DEF HInv, FaultsShow
  <2>2. ASSUME NEW j \in faults'
        PROVE  status'[j] = "error" \/ (j \in noted' /\ status'[j] \in {"pending", "degraded"})
    <3>1. CASE j = k
      <4>1. effect \in {"abort", "note"} \/ k \in faults
        BY <1>2, <1>4, <2>2, <3>1
      <4>2. k \in faults => k \in noted
        BY <1>5 DEF HInv, FaultsShow
      <4>3. effect = "abort" => status'[k] = "error"
        BY <1>6 DEF HInv, Typed
      <4>4. effect # "abort" => status'[k] = "pending"
        BY <1>5, <1>6
      <4>5. QED
        BY <1>2, <3>1, <4>1, <4>2, <4>3, <4>4
    <3>2. CASE j # k
      <4>1. j \in faults /\ j \in ProbeKeys /\ status'[j] = status[j] /\ noted \subseteq noted'
        BY <1>2, <1>6, <2>1, <2>2, <3>2 DEF HInv, Typed
      <4>2. QED
        BY <4>1 DEF HInv, FaultsShow
    <3>3. QED
      BY <3>1, <3>2
  <2>3. QED
    BY <2>1, <2>2 DEF FaultsShow
<1>11. Posting'
  <2>1. \A j \in ProbeKeys : at'[j] = at[j] \/ Prepared(j)
    BY <1>5, <1>6 DEF HInv, Typed
  <2>2. QED
    BY <1>5, <2>1, PostingKept DEF HInv
<1>12. QED
  BY <1>7, <1>8, <1>9, <1>10, <1>11 DEF HInv

LEMMA ConcludeKeeps == ASSUME HInv, NEW k \in ProbeKeys, Conclude(k) PROVE HInv'
<1>1. /\ status[k] = "pending" /\ phase \notin {"loading", "building"}
      /\ UNCHANGED <<setup, phase, config, at, noted, posted, faults>>
      /\ trouble' = IF Unaddressed(k) THEN trouble \cup {k} ELSE trouble
      /\ status' = [status EXCEPT ![k] =
                      IF k \in noted \/ Unaddressed(k) THEN "degraded" ELSE "connected"]
  BY DEF Conclude, HInv, NothingYet
<1>2. Typed'
  BY <1>1 DEF HInv, Typed, Ends
<1>3. NothingYet'
  BY <1>1 DEF NothingYet
<1>4. Blame'
  BY <1>1 DEF HInv, Typed, Blame, NoFalseAlarm
<1>5. FaultsShow'
  BY <1>1 DEF HInv, Typed, FaultsShow
<1>6. Posting'
  BY <1>1, PostingKept DEF HInv
<1>7. QED
  BY <1>2, <1>3, <1>4, <1>5, <1>6 DEF HInv

LEMMA HInvStep == HInv /\ [Next]_vars => HInv'
<1> SUFFICES ASSUME HInv, [Next]_vars PROVE HInv'
  OBVIOUS
<1>1. CASE UNCHANGED vars
  <2>1. Typed' /\ NothingYet' /\ Blame' /\ FaultsShow'
    BY <1>1 DEF vars, HInv, Typed, NothingYet, Blame, NoFalseAlarm, FaultsShow
  <2>2. Posting'
    BY <1>1, PostingKept DEF vars, HInv
  <2>3. QED
    BY <2>1, <2>2 DEF HInv
<1>2. CASE Next
  BY <1>2, LoadKeeps, BuildKeeps, EndKeeps, PostKeeps, AskKeeps, ConcludeKeeps DEF Next, ProbeStep
<1>3. QED
  BY <1>1, <1>2

LEMMA HInvAlways == Spec => []HInv
BY HInvInit, HInvStep, PTL DEF Spec

-----------------------------------------------------------------------------

\* Whatever runs beside it, a probe is reported as degraded or failed only for trouble of
\* its own.
THEOREM NobodyIsBlamed == Spec => []NoFalseAlarm
<1>1. HInv => NoFalseAlarm
  BY DEF HInv, Blame
<1>2. QED
  BY <1>1, HInvAlways, PTL

\* A report that says ok hides no probe in which a method raised.
THEOREM OkHidesNoFault == Spec => []FaultsAreReported
<1>1. HInv => FaultsAreReported
  BY DEF HInv, FaultsShow, FaultsAreReported, ReportOk
<1>2. QED
  BY <1>1, HInvAlways, PTL

\* The chunks that were posted are a beginning of the prompt, each fit for the compressor,
\* and the whole prompt before the model is asked, for every text and every chunk size.
THEOREM PromptIsKept == Spec => []ChunksKeepWords
<1>1. ASSUME HInv PROVE ChunksKeepWords
  <2> SUFFICES ASSUME NEW k \in ProbeKeys
               PROVE  /\ \A i \in 1..Len(posted[k]) : Len(posted[k][i].words) \in 1..MaxWords
                      /\ IsPrefix(FlattenSeq([i \in 1..Len(posted[k]) |-> posted[k][i].words]),
                                  FlattenSeq(setup.text))
                      /\ at[k] > 1 /\ posted[k] # << >> =>
                           FlattenSeq([i \in 1..Len(posted[k]) |-> posted[k][i].words])
                             = FlattenSeq(setup.text)
    BY DEF ChunksKeepWords
  <2> DEFINE n == Len(posted[k])
             done == [i \in 1..n |-> posted[k][i].words]
             rest == SubSeq(Chunks, n + 1, Len(Chunks))
  <2>1. /\ Chunks \in Seq(Seq(STRING)) /\ FlattenSeq(Chunks) = FlattenSeq(setup.text)
        /\ \A i \in 1..Len(Chunks) : Len(Chunks[i]) \in 1..MaxWords
    BY <1>1, ChunksType DEF HInv
  <2>2. /\ n \in 0..Len(Chunks) /\ \A i \in 1..n : posted[k][i].words = Chunks[i]
        /\ at[k] > 1 /\ posted[k] # << >> => n = Len(Chunks)
    <3>1. n \in Nat /\ Len(Chunks) \in Nat
      BY <1>1, <2>1 DEF HInv, Typed
    <3>2. QED
      BY <1>1, <3>1 DEF HInv, Posting, PostsInOrder
  <2> HIDE DEF n
  <2>3. done = SubSeq(Chunks, 1, n) /\ done \in Seq(Seq(STRING))
    <3>1. SubSeq(Chunks, 1, n) = [i \in 1..n |-> Chunks[i]]
      BY <2>1, <2>2
    <3>2. done = [i \in 1..n |-> Chunks[i]]
      BY <2>2
    <3>3. \A i \in 1..n : Chunks[i] \in Seq(STRING)
      BY <2>1, <2>2
    <3>4. QED
      BY <2>2, <3>1, <3>2, <3>3
  <2>4. rest \in Seq(Seq(STRING)) /\ done \o rest = Chunks
    <3>1. \A i \in (n + 1)..Len(Chunks) : Chunks[i] \in Seq(STRING)
      BY <2>1, <2>2
    <3>2. rest \in Seq(Seq(STRING))
      BY <2>2, <3>1, SubSeqProperties
    <3>3. SubSeq(Chunks, 1, n) \o rest = SubSeq(Chunks, 1, Len(Chunks))
      <4>1. 1 \in 1..(Len(Chunks) + 1) /\ n \in (1 - 1)..Len(Chunks) /\ Len(Chunks) \in n..Len(Chunks)
        BY <2>1, <2>2
      <4>2. QED
        BY <2>1, <4>1, ConcatAdjacentSubSeq
    <3>4. QED
      BY <2>1, <2>3, <3>2, <3>3, SubSeqFull
  <2> HIDE DEF done, rest
  <2> DEFINE a == FlattenSeq(done)
             b == FlattenSeq(rest)
  <2>5. a \in Seq(STRING) /\ b \in Seq(STRING) /\ a \o b = FlattenSeq(setup.text)
    BY <2>1, <2>3, <2>4, FlattenConcat, FlattenType
  <2>6. IsPrefix(a, a \o b)
    <3> HIDE DEF a, b
    <3>1. Len(a \o b) = Len(a) + Len(b) /\ Len(a) \in Nat /\ Len(b) \in Nat
      BY <2>5
    <3>2. SubSeq(a \o b, 1, Len(a)) = SubSeq(a, 1, Len(a))
      BY <2>5
    <3>3. QED
      BY <3>1, <3>2 DEF IsPrefix
  <2>7. n = Len(Chunks) => a = FlattenSeq(setup.text)
    <3>1. n = Len(Chunks) => done = Chunks
      BY <2>1, <2>3, SubSeqFull
    <3>2. QED
      BY <2>1, <3>1
  <2>8. \A i \in 1..n : Len(posted[k][i].words) \in 1..MaxWords
    <3>1. \A i \in 1..n : i \in 1..Len(Chunks)
      BY <2>1, <2>2
    <3>2. QED
      BY <2>1, <2>2, <3>1
  <2>9. QED
    BY <2>2, <2>5, <2>6, <2>7, <2>8 DEF n, done
<1>2. HInv => ChunksKeepWords
  BY <1>1
<1>3. QED
  BY <1>2, HInvAlways, PTL

-----------------------------------------------------------------------------
\* The measure behind EveryCheckEnds

\* What a pending probe has still to do: chunks to post, methods to ask, its conclusion.
ToDo(k) == Len(Chunks) - Len(posted[k]) + Len(Steps(k)) + 1 - at[k]

\* A step of a pending probe ends it or leaves less to do, and only its own steps
\* touch it.
GetsOn(k) ==
  \/ /\ ProbeStep(k)
     /\ \/ status'[k] \in Ends
        \/ ToDo(k) \in Nat /\ ToDo(k)' \in Nat /\ ToDo(k)' < ToDo(k)
  \/ at'[k] = at[k] /\ posted'[k] = posted[k] /\ status'[k] = status[k]

IsList(s) == \E S : s \in Seq(S)

LEMMA ConcatIsList == ASSUME NEW s, NEW t, IsList(s), IsList(t) PROVE IsList(s \o t)
<1>1. PICK S : s \in Seq(S)
  BY DEF IsList
<1>2. PICK T : t \in Seq(T)
  BY DEF IsList
<1>3. s \in Seq(S \cup T) /\ t \in Seq(S \cup T)
  <2> DEFINE U == S \cup T
  <2>1. \A x \in S : x \in U
    OBVIOUS
  <2>2. \A x \in T : x \in U
    OBVIOUS
  <2> HIDE DEF U
  <2>3. s \in Seq(U)
    BY <1>1, <2>1, ElementOfSeq, Len(s) \in Nat, s = [i \in 1..Len(s) |-> s[i]]
  <2>4. t \in Seq(U)
    BY <1>2, <2>2, ElementOfSeq, Len(t) \in Nat, t = [i \in 1..Len(t) |-> t[i]]
  <2>5. QED
    BY <2>3, <2>4 DEF U
<1>4. s \o t \in Seq(S \cup T)
  BY <1>3
<1>5. QED
  BY <1>4 DEF IsList

LEMMA ShortListsAreLists ==
  /\ IsList(<< >>)
  /\ \A x : IsList(<<x>>)
  /\ \A x, y : IsList(<<x, y>>)
  /\ \A x, y, z, u : IsList(<<x, y, z, u>>)
<1>1. IsList(<< >>)
  <2>1. << >> \in Seq({})
    OBVIOUS
  <2>2. QED
    BY <2>1 DEF IsList
<1>2. ASSUME NEW x PROVE IsList(<<x>>)
  <2>1. <<x>> \in Seq({x})
    OBVIOUS
  <2>2. QED
    BY <2>1 DEF IsList
<1>3. ASSUME NEW x, NEW y PROVE IsList(<<x, y>>)
  <2>1. <<x, y>> \in Seq({x, y})
    OBVIOUS
  <2>2. QED
    BY <2>1 DEF IsList
<1>4. ASSUME NEW x, NEW y, NEW z, NEW u PROVE IsList(<<x, y, z, u>>)
  <2>1. <<x, y, z, u>> \in Seq({x, y, z, u})
    OBVIOUS
  <2>2. QED
    BY <2>1 DEF IsList
<1>5. QED
  BY <1>1, <1>2, <1>3, <1>4

LEMMA StepsType == ASSUME NEW k \in ProbeKeys PROVE Len(Steps(k)) \in Nat
<1> DEFINE a == Adapters[k.adapter]
<1> HIDE DEF a
<1>1. IsList(HistorySteps(a))
  BY ShortListsAreLists DEF HistorySteps
<1>2. IsList(MetadataSteps(a))
  BY ShortListsAreLists DEF MetadataSteps
<1>3. IsList(OptionsSteps(a))
  BY ShortListsAreLists DEF OptionsSteps
<1>4. IsList(MacroSteps(a))
  BY ShortListsAreLists DEF MacroSteps
<1>5. IsList(IntelSteps(a))
  BY ShortListsAreLists DEF IntelSteps
<1>6. IsList(ScreenerSteps(a))
  BY ShortListsAreLists DEF ScreenerSteps
<1>7. IsList(LlmSteps(a))
  BY ShortListsAreLists DEF LlmSteps
<1>8. IsList(UniversalSteps(a))
  BY <1>1, <1>2, <1>3, <1>4, <1>5, <1>6, <1>7, ConcatIsList DEF UniversalSteps
<1>9. IsList(Steps(k))
  BY <1>8, ShortListsAreLists DEF Steps, a
<1>10. PICK S : Steps(k) \in Seq(S)
  BY <1>9 DEF IsList
<1>11. QED
  BY <1>10

LEMMA PostGetsOn == ASSUME HInv, NEW k \in ProbeKeys, PostChunk(k) PROVE GetsOn(k)
<1>1. PICK piece : posted' = [posted EXCEPT ![k] = Append(posted[k], piece)]
  BY DEF PostChunk
<1>2. posted[k] \in Seq(PostedChunk) /\ posted'[k] = Append(posted[k], piece)
  BY <1>1 DEF HInv, Typed
<1>3. Len(posted'[k]) = Len(posted[k]) + 1 /\ Len(posted[k]) \in Nat
  BY <1>2
<1>4. at'[k] = at[k] /\ Chunks' = Chunks /\ at[k] \in Nat
  BY DEF PostChunk, Chunks, HInv, Typed
<1>5. Len(posted'[k]) <= Len(Chunks) /\ Len(Chunks) \in Nat
  BY <1>4, PostKeeps, ChunksType DEF HInv, Posting, PostsInOrder
<1>6. at[k] <= 1
  BY <1>3, <1>4, <1>5, ChunksType DEF HInv, Posting, PostsInOrder, PostChunk, Prepared
<1>7. Len(Steps(k)) \in Nat
  BY StepsType
<1> DEFINE c == Len(Chunks)
           p == Len(posted[k])
           q == Len(posted'[k])
           n == Len(Steps(k))
<1>8. ToDo(k) = c - p + n + 1 - at[k] /\ ToDo(k)' = c - q + n + 1 - at[k]
  BY <1>4 DEF ToDo
<1> HIDE DEF c, p, q, n
<1>9. c \in Nat /\ p \in Nat /\ q = p + 1 /\ q <= c /\ n \in Nat /\ at[k] \in Nat /\ at[k] <= 1
  BY <1>3, <1>4, <1>5, <1>6, <1>7 DEF c, p, q, n
<1>10. ToDo(k) \in Nat /\ ToDo(k)' \in Nat /\ ToDo(k)' < ToDo(k)
  BY <1>8, <1>9
<1>11. QED
  BY <1>10 DEF GetsOn, ProbeStep

LEMMA AskGetsOn == ASSUME HInv, NEW k \in ProbeKeys, Ask(k) PROVE GetsOn(k)
<1>1. PICK effect : Advance(k, effect)
  BY DEF Ask
<1>2. CASE effect = "abort"
  BY <1>1, <1>2 DEF Advance, GetsOn, ProbeStep, Ends, HInv, Typed
<1>3. CASE effect # "abort"
  <2>1. at'[k] = at[k] + 1 /\ at[k] \in Nat /\ at[k] <= Len(Steps(k))
    BY <1>1 DEF Advance, HInv, Typed, Ask
  <2>2. posted'[k] = posted[k] /\ Chunks' = Chunks
    BY DEF Ask, Chunks
  <2>3. Len(posted[k]) <= Len(Chunks) /\ Len(posted[k]) \in Nat /\ Len(Chunks) \in Nat
    BY ChunksType DEF HInv, Typed, Posting, PostsInOrder
  <2>4. Len(Steps(k)) \in Nat
    BY StepsType
  <2> DEFINE c == Len(Chunks)
             p == Len(posted[k])
             n == Len(Steps(k))
  <2>5. ToDo(k) = c - p + n + 1 - at[k] /\ ToDo(k)' = c - p + n + 1 - (at[k] + 1)
    BY <2>1, <2>2 DEF ToDo
  <2> HIDE DEF c, p, n
  <2>6. c \in Nat /\ p \in Nat /\ p <= c /\ n \in Nat /\ at[k] \in Nat /\ at[k] <= n
    BY <2>1, <2>3, <2>4 DEF c, p, n
  <2>7. ToDo(k) \in Nat /\ ToDo(k)' \in Nat /\ ToDo(k)' < ToDo(k)
    BY <2>5, <2>6
  <2>8. QED
    BY <2>7 DEF GetsOn, ProbeStep
<1>4. QED
  BY <1>2, <1>3

LEMMA ProbeGetsOn == ASSUME HInv, Next, NEW k \in ProbeKeys, status[k] = "pending" PROVE GetsOn(k)
<1>1. phase \notin {"loading", "building"}
  BY DEF HInv, NothingYet
<1>2. CASE Report \/ Close
  BY <1>2 DEF Report, Close, GetsOn
<1>3. ASSUME NEW j \in ProbeKeys, ProbeStep(j), j # k PROVE GetsOn(k)
  <2>1. CASE PostChunk(j)
    BY <1>3, <2>1 DEF PostChunk, GetsOn, HInv, Typed
  <2>2. CASE Ask(j)
    <3>1. PICK effect : Advance(j, effect)
      BY <2>2 DEF Ask
    <3>2. posted' = posted
      BY <2>2 DEF Ask
    <3>3. QED
      BY <1>3, <3>1, <3>2 DEF Advance, GetsOn, HInv, Typed
  <2>3. CASE Conclude(j)
    BY <1>3, <2>3 DEF Conclude, GetsOn, HInv, Typed
  <2>4. QED
    BY <1>3, <2>1, <2>2, <2>3 DEF ProbeStep
<1>4. CASE Conclude(k)
  BY <1>4 DEF Conclude, GetsOn, ProbeStep, Ends, HInv, Typed
<1>5. QED
  BY <1>1, <1>2, <1>3, <1>4, PostGetsOn, AskGetsOn
     DEF Next, ProbeStep, LoadSettings, FailToBuild, BuildClient

\* A pending probe ends after at most as many steps of its own as there are chunks of the
\* prompt and methods of its adapter, and no other probe undoes or repeats one of them.
THEOREM ProbesGetOn ==
  Spec => [][\A k \in ProbeKeys : status[k] = "pending" => GetsOn(k)]_vars
<1>1. HInv /\ [Next]_vars => [\A k \in ProbeKeys : status[k] = "pending" => GetsOn(k)]_vars
  BY ProbeGetsOn
<1>2. QED
  BY <1>1, HInvAlways, PTL DEF Spec
-----------------------------------------------------------------------------
\* Settings trees: their nodes, level by level

\* NodesAt is what its recursion says, for trees of any depth: TLA+ has the function by
\* CHOOSE, so that there is one must be shown first.
LEMMA NodesByDepth ==
  ASSUME NEW t
  PROVE  /\ NodesAt(t)[0] = {<< << >>, t>>}
         /\ \A d \in 0..(MaxNesting - 1) : NodesAt(t)[d + 1] = Deeper(NodesAt(t)[d])
<1> DEFINE N == MaxNesting
           root == {<< << >>, t>>}
           Level(f, d) == IF d = 0 THEN root ELSE Deeper(f[d - 1])
           Part(f, n) == [d \in 0..n |-> Level(f, d)]
           P == {n \in 0..N : \E f : f = Part(f, n)}
           chosen == CHOOSE f : f = Part(f, N)
<1>1. N \in Nat
  BY NestingUnits
<1>2. NodesAt(t) = chosen
  BY DEF NodesAt
<1> HIDE DEF N, root
<1>3. 0 \in P
  <2> DEFINE g == [d \in 0..0 |-> root]
  <2>1. g = Part(g, 0)
    OBVIOUS
  <2>2. 0 \in 0..N
    BY <1>1
  <2> HIDE DEF Part, g
  <2>3. QED
    BY <2>1, <2>2
<1>4. ASSUME NEW n \in 0..(N - 1), n \in P PROVE n + 1 \in P
  <2>1. PICK f : f = Part(f, n)
    BY <1>4
  <2> DEFINE g == Part(f, n + 1)
  <2>2. ASSUME NEW d \in 0..(n + 1) PROVE Level(f, d) = Level(g, d)
    <3>1. CASE d = 0
      BY <3>1
    <3>2. CASE d # 0
      <4> DEFINE e == d - 1
      <4>1. e \in 0..n /\ e \in 0..(n + 1)
        BY <1>1, <3>2
      <4> HIDE DEF e
      <4>2. f[e] = Level(f, e)
        <5>1. Part(f, n)[e] = Level(f, e)
          BY <4>1
        <5> HIDE DEF Part
        <5>2. QED
          BY <2>1, <5>1
      <4>3. g[e] = Level(f, e)
        BY <4>1
      <4> HIDE DEF g
      <4>4. f[d - 1] = g[d - 1]
        BY <4>2, <4>3 DEF e
      <4>5. QED
        BY <3>2, <4>4
    <3>3. QED
      BY <3>1, <3>2
  <2>3. g = Part(g, n + 1)
    <3> HIDE DEF Level
    <3>1. QED
      BY <2>2
  <2>4. n + 1 \in 0..N
    BY <1>1
  <2> HIDE DEF g, Part
  <2>5. QED
    BY <2>3, <2>4
<1>5. N \in P
  <2>1. N \in 0..N
    BY <1>1
  <2> HIDE DEF P
  <2>2. QED
    BY <1>1, <1>3, <1>4, <2>1, RangeInduction
<1>6. chosen = Part(chosen, N)
  BY <1>5
<1> HIDE DEF chosen
<1>7. \A d \in 0..N : chosen[d] = Level(chosen, d)
  BY <1>6
<1>8. chosen[0] = root
  BY <1>1, <1>7
<1>9. ASSUME NEW d \in 0..(N - 1) PROVE chosen[d + 1] = Deeper(chosen[d])
  <2> DEFINE e == d + 1
  <2>1. e \in 0..N /\ e # 0 /\ e - 1 = d
    BY <1>1
  <2> HIDE DEF e
  <2>2. chosen[e] = Deeper(chosen[e - 1])
    BY <1>7, <2>1
  <2>3. chosen[e] = Deeper(chosen[d])
    BY <2>1, <2>2
  <2>4. QED
    BY <2>3 DEF e
<1>10. QED
  BY <1>2, <1>8, <1>9 DEF root, N

\* A sequence, of whatever it may be.
IsPath(p) == \E S : p \in Seq(S)

\* The subtree called k of a node.
Child(n, k) == <<Append(n[1], k), n[2][k]>>

\* A node one level down is the child of one that is a dictionary.
LEMMA InDeeper ==
  ASSUME NEW nodes, NEW m
  PROVE  m \in Deeper(nodes) <=>
           \E n \in nodes : IsDict(n[2]) /\ \E k \in DOMAIN n[2] : m = Child(n, k)
BY DEF Deeper, Child

\* A path can be extended at either end.
LEMMA PathsAppended ==
  ASSUME NEW p, NEW k, NEW j, IsPath(p)
  PROVE  /\ IsPath(Append(p, j)) /\ IsPath(Cons(k, p))
         /\ Append(Cons(k, p), j) = Cons(k, Append(p, j))
<1>1. PICK S : p \in Seq(S)
  BY DEF IsPath
<1> DEFINE T == S \cup {k, j}
<1>2. p \in Seq(T) /\ <<k>> \in Seq(T) /\ k \in T /\ j \in T
  <2>1. S \subseteq T
    OBVIOUS
  <2> HIDE DEF T
  <2>2. p \in Seq(T)
    BY <1>1, <2>1
  <2>3. k \in T /\ j \in T
    BY DEF T
  <2>4. QED
    BY <2>2, <2>3
<1> HIDE DEF T
<1>3. Append(p, j) \in Seq(T) /\ <<k>> \o p \in Seq(T)
  BY <1>2
<1>4. Append(<<k>> \o p, j) = <<k>> \o Append(p, j)
  BY <1>2
<1>5. QED
  BY <1>3, <1>4 DEF IsPath, Cons

\* A node is a pair of a path and a subtree.
IsNode(m) == m = <<m[1], m[2]>> /\ IsPath(m[1])

\* Every node is a path with a subtree.
LEMMA NodesArePairs ==
  ASSUME NEW t, NEW d \in 0..MaxNesting, NEW m \in NodesAt(t)[d]
  PROVE  IsNode(m)
<1> DEFINE P == {n \in 0..MaxNesting : \A x \in NodesAt(t)[n] : IsNode(x)}
<1>1. 0 \in P
  <2>1. << >> \in Seq({})
    OBVIOUS
  <2>2. IsNode(<< << >>, t>>)
    BY <2>1 DEF IsNode, IsPath
  <2>3. QED
    BY <2>2, NodesByDepth, NestingUnits
<1>2. ASSUME NEW n \in 0..(MaxNesting - 1), n \in P PROVE n + 1 \in P
  <2>1. ASSUME NEW x \in NodesAt(t)[n + 1] PROVE IsNode(x)
    <3>1. PICK y \in NodesAt(t)[n] : \E k \in DOMAIN y[2] : x = Child(y, k)
      BY <2>1, NodesByDepth, InDeeper
    <3>2. PICK k \in DOMAIN y[2] : x = Child(y, k)
      BY <3>1
    <3>3. IsPath(Append(y[1], k))
      BY <1>2, PathsAppended DEF IsNode
    <3>4. QED
      BY <3>2, <3>3 DEF IsNode, Child
  <2>2. n + 1 \in 0..MaxNesting
    BY NestingUnits
  <2>3. QED
    BY <2>1, <2>2
<1> HIDE DEF P
<1>3. d \in P
  BY <1>1, <1>2, NestingUnits, RangeInduction
<1>4. QED
  BY <1>3 DEF P

-----------------------------------------------------------------------------
\* Settings trees from the root

\* The node n of the subtree called k, as a node of the tree.
Below(k, n) == <<Cons(k, n[1]), n[2]>>

\* A path that begins with a name has one beginning and one rest.
LEMMA ConsIsInjective ==
  ASSUME NEW p, NEW q, IsPath(p), IsPath(q), NEW k, NEW j, Cons(k, p) = Cons(j, q)
  PROVE  k = j /\ p = q
<1>1. PICK S : p \in Seq(S)
  BY DEF IsPath
<1>2. PICK T : q \in Seq(T)
  BY DEF IsPath
<1> DEFINE U == S \cup T \cup {k, j}
<1>3. p \in Seq(U) /\ q \in Seq(U) /\ k \in U /\ j \in U
  <2>1. S \subseteq U /\ T \subseteq U
    OBVIOUS
  <2>2. k \in U /\ j \in U
    OBVIOUS
  <2> HIDE DEF U
  <2>3. QED
    BY <1>1, <1>2, <2>1, <2>2
<1> HIDE DEF U
<1>4. <<k>> \o p = <<j>> \o q
  BY DEF Cons
<1>5. /\ (<<k>> \o p)[1] = k /\ (<<j>> \o q)[1] = j
      /\ Tail(<<k>> \o p) = p /\ Tail(<<j>> \o q) = q
  BY <1>3
<1>6. QED
  BY <1>4, <1>5

\* Levels are built downwards from the root, and so are those of its children: a node of
\* a dictionary one level down is a node of one of its subtrees.
LEMMA NodesFromTheRoot ==
  ASSUME NEW t, IsDict(t), NEW d \in 0..(MaxNesting - 1), NEW m
  PROVE  m \in NodesAt(t)[d + 1] <=>
           \E k \in DOMAIN t : \E n \in NodesAt(t[k])[d] : m = Below(k, n)
<1> DEFINE From(e, x) == \E k \in DOMAIN t : \E n \in NodesAt(t[k])[e] : x = Below(k, n)
           N == MaxNesting - 1
           P == {e \in 0..N : \A x : x \in NodesAt(t)[e + 1] <=> From(e, x)}
<1>1. N \in Nat /\ MaxNesting \in Nat /\ N + 1 = MaxNesting
  BY NestingUnits
<1>2. 0 \in P
  <2>1. ASSUME NEW x PROVE x \in NodesAt(t)[0 + 1] <=> From(0, x)
    <3> DEFINE root == << << >>, t>>
    <3>1. x \in NodesAt(t)[0 + 1] <=> \E k \in DOMAIN t : x = Child(root, k)
      <4>1. 0 \in 0..(MaxNesting - 1) /\ NodesAt(t)[0] = {root}
        BY <1>1, NodesByDepth
      <4>2. root[2] = t
        OBVIOUS
      <4> HIDE DEF root
      <4>3. NodesAt(t)[0 + 1] = Deeper({root})
        BY <4>1, NodesByDepth
      <4>4. QED
        BY <4>2, <4>3, InDeeper
    <3>2. \A k \in DOMAIN t : Below(k, << << >>, t[k]>>) = Child(root, k)
      <4>1. \A k : <<k>> \o << >> = Append(<< >>, k)
        OBVIOUS
      <4>2. QED
        BY <4>1 DEF Below, Child, Cons
    <3> HIDE DEF root
    <3>3. \A k : NodesAt(t[k])[0] = {<< << >>, t[k]>>}
      BY NodesByDepth
    <3>4. QED
      BY <3>1, <3>2, <3>3
  <2> HIDE DEF From
  <2>2. QED
    BY <1>1, <2>1
<1>3. ASSUME NEW e \in 0..(N - 1), e \in P PROVE e + 1 \in P
  <2> DEFINE f == e + 1
  <2>1. f \in 0..N /\ e \in 0..(MaxNesting - 1) /\ f \in 0..(MaxNesting - 1) /\ e \in 0..MaxNesting
    BY <1>1
  <2>2. \A x : x \in NodesAt(t)[f] <=> From(e, x)
    BY <1>3
  <2>3. \A s : NodesAt(s)[f] = Deeper(NodesAt(s)[e])
    BY <2>1, NodesByDepth
  <2> HIDE DEF f
  <2>4. NodesAt(t)[f + 1] = Deeper(NodesAt(t)[f])
    BY <2>1, NodesByDepth
  <2>5. ASSUME NEW k, NEW n, IsNode(n), NEW j
        PROVE  Below(k, Child(n, j)) = Child(Below(k, n), j)
    BY <2>5, PathsAppended DEF Below, Child, IsNode
  <2>6. ASSUME NEW k, NEW n \in NodesAt(t[k])[e] PROVE IsNode(n)
    BY <2>1, <2>6, NodesArePairs
  <2>7. ASSUME NEW x, x \in NodesAt(t)[f + 1] PROVE From(f, x)
    <3>0. PICK y \in NodesAt(t)[f] :
            IsDict(y[2]) /\ \E j \in DOMAIN y[2] : x = Child(y, j)
      BY <2>4, <2>7, InDeeper
    <3>1. PICK j \in DOMAIN y[2] : x = Child(y, j)
      BY <3>0
    <3>a. PICK k \in DOMAIN t : \E n \in NodesAt(t[k])[e] : y = Below(k, n)
      BY <2>2, <3>0
    <3>2. PICK n \in NodesAt(t[k])[e] : y = Below(k, n)
      BY <3>a
    <3>3. y[2] = n[2]
      BY <3>2 DEF Below
    <3>4. Child(n, j) \in NodesAt(t[k])[f]
      BY <2>3, <3>0, <3>1, <3>3, InDeeper
    <3>5. x = Below(k, Child(n, j))
      BY <2>5, <2>6, <3>1, <3>2
    <3>6. QED
      BY <3>4, <3>5
  <2>8. ASSUME NEW x, From(f, x) PROVE x \in NodesAt(t)[f + 1]
    <3>0. PICK k \in DOMAIN t : \E y \in NodesAt(t[k])[f] : x = Below(k, y)
      BY <2>8
    <3>1. PICK y \in NodesAt(t[k])[f] : x = Below(k, y)
      BY <3>0
    <3>a. PICK n \in NodesAt(t[k])[e] :
            IsDict(n[2]) /\ \E j \in DOMAIN n[2] : y = Child(n, j)
      BY <2>3, <3>1, InDeeper
    <3>2. PICK j \in DOMAIN n[2] : y = Child(n, j)
      BY <3>a
    <3>3. x = Child(Below(k, n), j)
      BY <2>5, <2>6, <3>1, <3>2
    <3>4. Below(k, n) \in NodesAt(t)[f] /\ Below(k, n)[2] = n[2]
      BY <2>2, <3>1, <3>2 DEF Below
    <3>5. QED
      BY <2>4, <3>a, <3>2, <3>3, <3>4, InDeeper
  <2>9. f \in P
    <3> HIDE DEF From
    <3>1. QED
      BY <2>1, <2>7, <2>8
  <2>10. QED
    BY <2>9 DEF f
<1> HIDE DEF P
<1>4. d \in P
  BY <1>1, <1>2, <1>3, RangeInduction
<1>5. QED
  BY <1>4 DEF P

\* A value has no nodes below its own.
LEMMA NothingInALeaf ==
  ASSUME NEW t, ~IsDict(t), NEW d \in 0..MaxNesting
  PROVE  NodesAt(t)[d] = IF d = 0 THEN {<< << >>, t>>} ELSE {}
<1> DEFINE root == << << >>, t>>
           P == {e \in 0..MaxNesting : NodesAt(t)[e] = IF e = 0 THEN {root} ELSE {}}
<1>1. root[2] = t
  OBVIOUS
<1>2. NodesAt(t)[0] = {root}
  BY NodesByDepth
<1> HIDE DEF root
<1>3. Deeper({root}) = {} /\ Deeper({}) = {}
  BY <1>1 DEF Deeper
<1>4. 0 \in P
  BY <1>2, NestingUnits
<1>5. ASSUME NEW e \in 0..(MaxNesting - 1), e \in P PROVE e + 1 \in P
  <2> DEFINE f == e + 1
  <2>1. f \in 0..MaxNesting /\ f # 0 /\ NodesAt(t)[f] = Deeper(NodesAt(t)[e])
    BY NodesByDepth, NestingUnits
  <2>2. NodesAt(t)[e] = {root} \/ NodesAt(t)[e] = {}
    BY <1>5
  <2> HIDE DEF f
  <2>3. QED
    BY <1>3, <2>1, <2>2 DEF f
<1> HIDE DEF P
<1>6. d \in P
  BY <1>4, <1>5, NestingUnits, RangeInduction
<1>7. QED
  BY <1>6 DEF P, root

\* Below a level without dictionaries there is nothing.
LEMMA NothingTooDeep ==
  ASSUME NEW t, NEW d \in 0..(MaxNesting - 1), Nested(t, d)
  PROVE  NodesAt(t)[d + 1] = {} /\ Nested(t, d + 1)
<1>1. NodesAt(t)[d + 1] = Deeper(NodesAt(t)[d])
  BY NodesByDepth
<1>2. \A m : m \notin Deeper(NodesAt(t)[d])
  BY InDeeper DEF Nested
<1>3. QED
  BY <1>1, <1>2 DEF Nested

\* A value is nested to any depth, a tree that is nested to none is a value ...
LEMMA LeavesAreNested ==
  ASSUME NEW t, ~IsDict(t), NEW d \in 0..MaxNesting
  PROVE  Nested(t, d)
<1> DEFINE root == << << >>, t>>
<1>1. root[2] = t
  OBVIOUS
<1>2. NodesAt(t)[d] = IF d = 0 THEN {root} ELSE {}
  BY NothingInALeaf
<1> HIDE DEF root
<1>3. QED
  BY <1>1, <1>2 DEF Nested

LEMMA FlatIsALeaf ==
  ASSUME NEW t
  PROVE  Nested(t, 0) <=> ~IsDict(t)
<1> DEFINE root == << << >>, t>>
<1>1. root[2] = t /\ NodesAt(t)[0] = {root}
  BY NodesByDepth
<1> HIDE DEF root
<1>2. QED
  BY <1>1 DEF Nested

\* ... and a dictionary is nested one deeper than what it holds.
LEMMA NestedFromTheRoot ==
  ASSUME NEW t, IsDict(t), NEW d \in 0..(MaxNesting - 1)
  PROVE  Nested(t, d + 1) <=> \A k \in DOMAIN t : Nested(t[k], d)
<1>1. \A k, n : Below(k, n)[2] = n[2]
  BY DEF Below
<1>2. QED
  BY <1>1, NodesFromTheRoot DEF Nested

\* What ends by some depth ends by any greater one.
LEMMA NestedGrows ==
  ASSUME NEW t, NEW d \in 0..MaxNesting, NEW e \in 0..MaxNesting, d <= e, Nested(t, d)
  PROVE  Nested(t, e)
<1> DEFINE P == {i \in 0..(e - d) : Nested(t, d + i)}
<1>1. e - d \in Nat /\ MaxNesting \in Nat
  BY NestingUnits
<1>2. 0 \in P
  BY <1>1
<1>3. ASSUME NEW i \in 0..((e - d) - 1), i \in P PROVE i + 1 \in P
  <2> DEFINE j == d + i
  <2>1. j \in 0..(MaxNesting - 1) /\ j + 1 = d + (i + 1) /\ i + 1 \in 0..(e - d) /\ Nested(t, j)
    BY <1>1, <1>3
  <2> HIDE DEF j
  <2>2. Nested(t, j + 1)
    BY <2>1, NothingTooDeep
  <2>3. QED
    BY <2>1, <2>2
<1>4. e - d \in 0..(e - d) /\ d + (e - d) = e
  BY <1>1
<1> HIDE DEF P
<1>5. e - d \in P
  BY <1>1, <1>2, <1>3, <1>4, RangeInduction
<1>6. QED
  BY <1>4, <1>5 DEF P

\* The deepest level of a settings tree holds nothing more.
LEMMA SubtreesEndSooner ==
  ASSUME NEW t, IsDict(t), Nested(t, MaxNesting), NEW k \in DOMAIN t
  PROVE  /\ NodesAt(t[k])[MaxNesting] = {}
         /\ Nested(t[k], MaxNesting - 1) /\ Nested(t[k], MaxNesting)
<1> DEFINE d == MaxNesting - 1
<1>1. d \in 0..(MaxNesting - 1) /\ d + 1 = MaxNesting
  BY NestingUnits
<1> HIDE DEF d
<1>2. Nested(t[k], d)
  BY <1>1, NestedFromTheRoot
<1>3. QED
  BY <1>1, <1>2, NothingTooDeep DEF d

\* The nodes of a dictionary are its root and those of its subtrees, of a value its root.
LEMMA NodesOfADict ==
  ASSUME NEW t, IsDict(t), Nested(t, MaxNesting), NEW m
  PROVE  m \in Nodes(t) <=>
           m = << << >>, t>> \/ \E k \in DOMAIN t : \E n \in Nodes(t[k]) : m = Below(k, n)
<1>1. MaxNesting \in Nat /\ MaxNesting >= 1
  BY NestingUnits
<1>2. \A s, x : x \in Nodes(s) <=> \E d \in 0..MaxNesting : x \in NodesAt(s)[d]
  BY DEF Nodes
<1>3. m \in NodesAt(t)[0] <=> m = << << >>, t>>
  BY NodesByDepth
<1>4. ASSUME NEW d \in 0..MaxNesting, d # 0, m \in NodesAt(t)[d]
      PROVE  \E k \in DOMAIN t : \E n \in Nodes(t[k]) : m = Below(k, n)
  <2> DEFINE e == d - 1
  <2>1. e \in 0..(MaxNesting - 1) /\ e + 1 = d /\ e \in 0..MaxNesting
    BY <1>1, <1>4
  <2> HIDE DEF e
  <2>2. \E k \in DOMAIN t : \E n \in NodesAt(t[k])[e] : m = Below(k, n)
    BY <1>4, <2>1, NodesFromTheRoot
  <2>3. QED
    BY <1>2, <2>1, <2>2
<1>5. ASSUME NEW k \in DOMAIN t, NEW n \in Nodes(t[k]), m = Below(k, n)
      PROVE  m \in Nodes(t)
  <2>1. PICK d \in 0..MaxNesting : n \in NodesAt(t[k])[d]
    BY <1>2
  <2>2. d # MaxNesting
    BY <2>1, SubtreesEndSooner
  <2> DEFINE e == d + 1
  <2>3. d \in 0..(MaxNesting - 1) /\ e \in 0..MaxNesting
    BY <1>1, <2>2
  <2>4. m \in NodesAt(t)[e]
    BY <1>5, <2>1, <2>3, NodesFromTheRoot
  <2> HIDE DEF e
  <2>5. QED
    BY <1>2, <2>3, <2>4
<1>6. 0 \in 0..MaxNesting
  BY <1>1
<1>7. QED
  BY <1>2, <1>3, <1>4, <1>5, <1>6

LEMMA NodesOfALeaf ==
  ASSUME NEW t, ~IsDict(t)
  PROVE  Nodes(t) = {<< << >>, t>>}
<1>1. 0 \in 0..MaxNesting
  BY NestingUnits
<1>2. \A d \in 0..MaxNesting : NodesAt(t)[d] = IF d = 0 THEN {<< << >>, t>>} ELSE {}
  BY NothingInALeaf
<1> DEFINE root == << << >>, t>>
<1> HIDE DEF root
<1>3. \A d \in 0..MaxNesting : NodesAt(t)[d] = IF d = 0 THEN {root} ELSE {}
  BY <1>2 DEF root
<1>4. Nodes(t) = {root}
  BY <1>1, <1>3 DEF Nodes
<1>5. QED
  BY <1>4 DEF root

LEMMA NodesAreNodes ==
  ASSUME NEW t, NEW m \in Nodes(t)
  PROVE  IsNode(m)
BY NodesArePairs DEF Nodes

LEMMA ValuesOfALeaf ==
  ASSUME NEW t, ~IsDict(t)
  PROVE  Values(t) = {<< << >>, t>>}
<1> DEFINE root == << << >>, t>>
<1>1. root[2] = t /\ Nodes(t) = {root}
  BY NodesOfALeaf
<1> HIDE DEF root
<1>2. Values(t) = {root}
  BY <1>1 DEF Values
<1>3. QED
  BY <1>2 DEF root

\* What a dictionary says is what its subtrees say, under their names.
LEMMA ValuesOfADict ==
  ASSUME NEW t, IsDict(t), Nested(t, MaxNesting), NEW m
  PROVE  m \in Values(t) <=> \E k \in DOMAIN t : \E n \in Values(t[k]) : m = Below(k, n)
<1> DEFINE root == << << >>, t>>
<1>1. root[2] = t
  OBVIOUS
<1>2. \A k, n : Below(k, n)[2] = n[2]
  BY DEF Below
<1>3. \A x : x \in Nodes(t) <=>
        x = root \/ \E k \in DOMAIN t : \E n \in Nodes(t[k]) : x = Below(k, n)
  BY NodesOfADict
<1> HIDE DEF root
<1>4. QED
  BY <1>1, <1>2, <1>3 DEF Values

-----------------------------------------------------------------------------
\* What covers a path

\* A prefix agrees with the sequence element by element.
LEMMA PrefixByElements ==
  ASSUME NEW S, NEW p \in Seq(S), NEW q \in Seq(S)
  PROVE  IsPrefix(p, q) <=> Len(p) <= Len(q) /\ \A i \in 1..Len(p) : p[i] = q[i]
<1>1. Len(p) \in Nat /\ Len(q) \in Nat
  OBVIOUS
<1>2. SubSeq(p, 1, Len(p)) = [i \in 1..Len(p) |-> p[i]]
  OBVIOUS
<1>3. CASE Len(p) <= Len(q)
  <2>1. SubSeq(q, 1, Len(p)) = [i \in 1..Len(p) |-> q[i]]
    <3>1. \A i : 1 + i - 1 = i \/ i \notin Int
      OBVIOUS
    <3>2. QED
      BY <1>1, <1>3
  <2>2. QED
    BY <1>2, <1>3, <2>1 DEF IsPrefix
<1>4. CASE ~(Len(p) <= Len(q))
  BY <1>4 DEF IsPrefix
<1>5. QED
  BY <1>3, <1>4

LEMMA NothingIsAPrefix ==
  ASSUME NEW S, NEW p \in Seq(S)
  PROVE  IsPrefix(<< >>, p)
<1>1. << >> \in Seq(S) /\ Len(<< >>) = 0 /\ Len(p) \in Nat
  OBVIOUS
<1>2. ASSUME NEW none \in Seq(S), Len(none) = 0 PROVE IsPrefix(none, p)
  <2>1. IsPrefix(none, p) <=> Len(none) <= Len(p) /\ \A i \in 1..Len(none) : none[i] = p[i]
    BY PrefixByElements
  <2>2. QED
    BY <1>1, <1>2, <2>1
<1>3. QED
  BY <1>1, <1>2

\* Nothing is a prefix of every path; a name put before two paths keeps prefixes.
LEMMA PrefixesBelow ==
  ASSUME NEW p, NEW q, IsPath(p), IsPath(q), NEW k, NEW j
  PROVE  /\ IsPrefix(<< >>, p)
         /\ << >> # Cons(k, p)
         /\ IsPrefix(Cons(k, p), Cons(j, q)) <=> k = j /\ IsPrefix(p, q)
<1>1. PICK S : p \in Seq(S)
  BY DEF IsPath
<1>2. PICK T : q \in Seq(T)
  BY DEF IsPath
<1> DEFINE U == S \cup T \cup {k, j}
<1>3. p \in Seq(U) /\ q \in Seq(U) /\ k \in U /\ j \in U
  <2>1. S \subseteq U /\ T \subseteq U
    OBVIOUS
  <2>2. k \in U /\ j \in U
    OBVIOUS
  <2> HIDE DEF U
  <2>3. QED
    BY <1>1, <1>2, <2>1, <2>2
<1> HIDE DEF U
<1> DEFINE kp == <<k>> \o p
           jq == <<j>> \o q
           m == Len(p)
           n == Len(q)
<1>4. /\ kp \in Seq(U) /\ jq \in Seq(U) /\ m \in Nat /\ n \in Nat
      /\ Len(kp) = m + 1 /\ Len(jq) = n + 1
      /\ kp[1] = k /\ jq[1] = j /\ Tail(kp) = p /\ Tail(jq) = q
  BY <1>3
<1>5. /\ \A i \in 1..m : kp[i + 1] = p[i]
      /\ \A i \in 1..n : jq[i + 1] = q[i]
  BY <1>3, <1>4
<1> DEFINE none == << >>
<1>6. none \in Seq(U) /\ Len(none) = 0
  OBVIOUS
<1>7. IsPrefix(none, p)
  BY <1>3, NothingIsAPrefix
<1>8. none # kp
  <2> HIDE DEF none, kp, m
  <2>1. m + 1 # 0
    BY <1>4
  <2>2. QED
    BY <1>4, <1>6, <2>1
<1>9. IsPrefix(p, q) <=> m <= n /\ \A i \in 1..m : p[i] = q[i]
  BY <1>3, PrefixByElements
<1> HIDE DEF kp, jq, m, n
<1>10. IsPrefix(kp, jq) <=> Len(kp) <= Len(jq) /\ \A i \in 1..Len(kp) : kp[i] = jq[i]
  BY <1>4, PrefixByElements
<1>11. ASSUME IsPrefix(kp, jq) PROVE k = j /\ IsPrefix(p, q)
  <2>1. m <= n /\ \A i \in 1..(m + 1) : kp[i] = jq[i]
    BY <1>4, <1>10, <1>11
  <2>2. 1 \in 1..(m + 1)
    BY <1>4
  <2>3. ASSUME NEW i \in 1..m PROVE p[i] = q[i]
    <3>1. i + 1 \in 1..(m + 1) /\ i \in 1..n
      BY <1>4, <2>1
    <3>2. kp[i + 1] = jq[i + 1] /\ kp[i + 1] = p[i] /\ jq[i + 1] = q[i]
      BY <1>5, <2>1, <3>1
    <3>3. QED
      BY <3>2
  <2>4. QED
    BY <1>4, <1>9, <2>1, <2>2, <2>3
<1>12. ASSUME k = j, IsPrefix(p, q) PROVE IsPrefix(kp, jq)
  <2>1. m <= n /\ \A i \in 1..m : p[i] = q[i]
    BY <1>9, <1>12
  <2>2. ASSUME NEW i \in 1..(m + 1) PROVE kp[i] = jq[i]
    <3>1. CASE i = 1
      BY <1>4, <1>12, <3>1
    <3>2. CASE i # 1
      <4> DEFINE h == i - 1
      <4>1. h \in 1..m /\ h \in 1..n /\ h + 1 = i
        BY <1>4, <2>1, <3>2
      <4> HIDE DEF h
      <4>2. kp[h + 1] = p[h] /\ jq[h + 1] = q[h] /\ p[h] = q[h]
        BY <1>5, <2>1, <4>1
      <4>3. QED
        BY <4>1, <4>2
    <3>3. QED
      BY <3>1, <3>2
  <2>3. Len(kp) <= Len(jq) /\ Len(kp) = m + 1
    BY <1>4, <2>1
  <2>4. \A i \in 1..(m + 1) : kp[i] = jq[i]
    BY <2>2
  <2>5. \A i \in 1..Len(kp) : kp[i] = jq[i]
    BY ONLY <2>3, <2>4
  <2>6. QED
    BY <1>10, <2>3, <2>5
<1>13. QED
  BY <1>7, <1>8, <1>11, <1>12 DEF kp, jq, Cons

\* A value covers every path, every tree covers its root, and a dictionary covers what its
\* subtrees cover.
LEMMA LeavesCoverAll ==
  ASSUME NEW t, ~IsDict(t), NEW p, IsPath(p)
  PROVE  Covers(t, p)
<1> DEFINE root == << << >>, t>>
<1>1. root \in Nodes(t) /\ root[1] = << >> /\ root[2] = t
  BY NodesOfALeaf
<1>2. IsPrefix(<< >>, p)
  BY PrefixesBelow
<1> HIDE DEF root
<1>3. IsPrefix(root[1], p)
  BY <1>1, <1>2
<1>4. QED
  BY <1>1, <1>3 DEF Covers

LEMMA RootIsCovered ==
  ASSUME NEW t, Nested(t, MaxNesting)
  PROVE  Covers(t, << >>)
<1> DEFINE root == << << >>, t>>
<1>1. root \in Nodes(t)
  BY NodesOfALeaf, NodesOfADict
<1>2. root[1] = << >>
  OBVIOUS
<1> HIDE DEF root
<1>3. QED
  BY <1>1, <1>2 DEF Covers

LEMMA CoversFromTheRoot ==
  ASSUME NEW t, IsDict(t), Nested(t, MaxNesting), NEW k, NEW p, IsPath(p)
  PROVE  Covers(t, Cons(k, p)) <=> k \in DOMAIN t /\ Covers(t[k], p)
<1> DEFINE root == << << >>, t>>
           Hits(n, path) == n[1] = path \/ (~IsDict(n[2]) /\ IsPrefix(n[1], path))
<1>1. root[2] = t /\ root[1] = << >>
  OBVIOUS
<1>2. \A x : x \in Nodes(t) <=>
        x = root \/ \E j \in DOMAIN t : \E n \in Nodes(t[j]) : x = Below(j, n)
  BY NodesOfADict
<1> HIDE DEF root
<1>3. ~Hits(root, Cons(k, p))
  BY <1>1, PrefixesBelow
<1>4. ASSUME NEW j \in DOMAIN t, NEW n \in Nodes(t[j])
      PROVE  Hits(Below(j, n), Cons(k, p)) <=> j = k /\ Hits(n, p)
  <2>1. IsPath(n[1])
    BY NodesAreNodes DEF IsNode
  <2>2. Below(j, n)[1] = Cons(j, n[1]) /\ Below(j, n)[2] = n[2]
    BY DEF Below
  <2>3. Cons(j, n[1]) = Cons(k, p) => j = k /\ n[1] = p
    BY <2>1, ConsIsInjective
  <2>4. IsPrefix(Cons(j, n[1]), Cons(k, p)) <=> j = k /\ IsPrefix(n[1], p)
    BY <2>1, PrefixesBelow
  <2>5. QED
    BY <2>2, <2>3, <2>4
<1>5. \A s, path : Covers(s, path) <=> \E n \in Nodes(s) : Hits(n, path)
  BY DEF Covers
<1> HIDE DEF Hits
<1>6. QED
  BY <1>2, <1>3, <1>4, <1>5

-----------------------------------------------------------------------------
\* Merging, by recursion over the pairs of dictionaries

\* A subtree is nested no deeper than the tree.
LEMMA SubtreesAreNested ==
  ASSUME NEW t, Nested(t, MaxNesting), NEW d \in 0..MaxNesting
  PROVE  \A n \in NodesAt(t)[d] : Nested(n[2], MaxNesting)
<1> DEFINE P == {e \in 0..MaxNesting :
                   \A s : Nested(s, MaxNesting) => \A n \in NodesAt(s)[e] : Nested(n[2], MaxNesting)}
<1>1. 0 \in P
  <2>1. \A s : \A n \in NodesAt(s)[0] : n[2] = s
    BY NodesByDepth
  <2>2. QED
    BY <2>1, NestingUnits
<1>2. ASSUME NEW e \in 0..(MaxNesting - 1), e \in P PROVE e + 1 \in P
  <2>1. \A k, n : Below(k, n)[2] = n[2]
    BY DEF Below
  <2>2. ASSUME NEW s, Nested(s, MaxNesting), NEW m \in NodesAt(s)[e + 1]
        PROVE  Nested(m[2], MaxNesting)
    <3>1. IsDict(s)
      <4>1. e + 1 \in 0..MaxNesting /\ e + 1 # 0
        BY NestingUnits
      <4>2. QED
        BY <2>2, <4>1, NothingInALeaf
    <3>2. PICK k \in DOMAIN s : \E n \in NodesAt(s[k])[e] : m = Below(k, n)
      BY <2>2, <3>1, NodesFromTheRoot
    <3>3. PICK n \in NodesAt(s[k])[e] : m = Below(k, n)
      BY <3>2
    <3>4. Nested(s[k], MaxNesting)
      BY <2>2, <3>1, <3>2, SubtreesEndSooner
    <3>5. Nested(n[2], MaxNesting)
      BY <1>2, <3>3, <3>4
    <3>6. QED
      BY <2>1, <3>3, <3>5
  <2>3. QED
    BY <2>2, NestingUnits
<1> HIDE DEF P
<1>3. d \in P
  BY <1>1, <1>2, NestingUnits, RangeInduction
<1>4. QED
  BY <1>3 DEF P

\* A set of settings trees that has the dictionaries in each of them.
Closed(U) == \A s \in U :
  IsDict(s) /\ Nested(s, MaxNesting) /\ \A k \in DOMAIN s : IsDict(s[k]) => s[k] \in U

\* The dictionaries of a tree have their own among them.
LEMMA DictsAreClosed ==
  ASSUME NEW t, IsDict(t), Nested(t, MaxNesting)
  PROVE  t \in Dicts(t) /\ Closed(Dicts(t))
<1>1. \A s : s \in Dicts(t) <=> IsDict(s) /\ \E d \in 0..MaxNesting : \E n \in NodesAt(t)[d] : s = n[2]
  BY DEF Dicts, Nodes
<1>2. t \in Dicts(t)
  <2> DEFINE root == << << >>, t>>
  <2>1. NodesAt(t)[0] = {root} /\ root[2] = t
    BY NodesByDepth
  <2> HIDE DEF root
  <2>2. QED
    BY <1>1, <2>1, NestingUnits
<1>3. ASSUME NEW s \in Dicts(t)
      PROVE  Nested(s, MaxNesting) /\ \A k \in DOMAIN s : IsDict(s[k]) => s[k] \in Dicts(t)
  <2>1. PICK d \in 0..MaxNesting : \E n \in NodesAt(t)[d] : s = n[2]
    BY <1>1
  <2>2. PICK n \in NodesAt(t)[d] : s = n[2]
    BY <2>1
  <2>3. Nested(s, MaxNesting)
    BY <2>2, SubtreesAreNested
  <2>4. IsDict(s)
    BY <1>1
  <2>5. d # MaxNesting
    BY <2>2, <2>4 DEF Nested
  <2>6. d \in 0..(MaxNesting - 1) /\ d + 1 \in 0..MaxNesting
    BY <2>5, NestingUnits
  <2>7. ASSUME NEW k \in DOMAIN s PROVE Child(n, k) \in NodesAt(t)[d + 1] /\ Child(n, k)[2] = s[k]
    <3>1. NodesAt(t)[d + 1] = Deeper(NodesAt(t)[d])
      BY <2>6, NodesByDepth
    <3>2. Child(n, k)[2] = n[2][k]
      BY DEF Child
    <3>3. QED
      BY <2>2, <2>4, <3>1, <3>2, InDeeper
  <2>8. QED
    BY <1>1, <2>3, <2>6, <2>7
<1>4. QED
  BY <1>1, <1>2, <1>3 DEF Closed

MergeRule(f, b, o) ==
  [k \in DOMAIN b \cup DOMAIN o |->
     IF k \notin DOMAIN o THEN b[k]
     ELSE IF k \in DOMAIN b /\ IsDict(b[k]) /\ IsDict(o[k]) THEN f[<<b[k], o[k]>>]
     ELSE o[k]]

\* f merges every dictionary of U with every one of V.
Merges(f, U, V) == f = [x \in U \X V |-> MergeRule(f, x[1], x[2])]

\* f merges each pair by the rule, and what it makes of one depends only on what it makes
\* of the dictionaries under a common name.
LEMMA MergesByRule ==
  ASSUME NEW f, NEW U, NEW V, Merges(f, U, V), NEW b \in U, NEW o \in V
  PROVE  f[<<b, o>>] = MergeRule(f, b, o)
BY DEF Merges

LEMMA SameRule ==
  ASSUME NEW f, NEW g, NEW b, NEW o,
         \A k \in DOMAIN b \cap DOMAIN o :
           IsDict(b[k]) /\ IsDict(o[k]) => f[<<b[k], o[k]>>] = g[<<b[k], o[k]>>]
  PROVE  MergeRule(f, b, o) = MergeRule(g, b, o)
<1> DEFINE same(h, k) ==
       IF k \notin DOMAIN o THEN b[k]
       ELSE IF k \in DOMAIN b /\ IsDict(b[k]) /\ IsDict(o[k]) THEN h[<<b[k], o[k]>>]
       ELSE o[k]
<1>1. \A k \in DOMAIN b \cup DOMAIN o : same(f, k) = same(g, k)
  OBVIOUS
<1>2. /\ MergeRule(f, b, o) = [k \in DOMAIN b \cup DOMAIN o |-> same(f, k)]
      /\ MergeRule(g, b, o) = [k \in DOMAIN b \cup DOMAIN o |-> same(g, k)]
  BY DEF MergeRule
<1> HIDE DEF same
<1>3. QED
  BY <1>1, <1>2

\* There is a function that merges, by induction on how deep the first tree is nested ...
LEMMA MergingExists ==
  ASSUME NEW U, NEW V, Closed(U), Closed(V)
  PROVE  \E f : Merges(f, U, V)
<1> DEFINE upto(n) == {s \in U : Nested(s, n)}
           P == {n \in 0..MaxNesting : \E f : Merges(f, upto(n), V)}
<1>1. MaxNesting \in Nat
  BY NestingUnits
<1>2. 0 \in P
  <2>1. upto(0) = {}
    BY FlatIsALeaf DEF Closed
  <2> DEFINE f == [x \in {} \X V |-> x]
  <2>2. Merges(f, {}, V)
    BY DEF Merges
  <2> HIDE DEF f, upto
  <2>3. QED
    BY <1>1, <2>1, <2>2
<1>3. ASSUME NEW n \in 0..(MaxNesting - 1), n \in P PROVE n + 1 \in P
  <2>1. PICK f : Merges(f, upto(n), V)
    BY <1>3
  <2> DEFINE W == upto(n + 1)
             g == [x \in W \X V |-> MergeRule(f, x[1], x[2])]
  <2>2. upto(n) \subseteq W
    <3>1. n \in 0..MaxNesting /\ n + 1 \in 0..MaxNesting /\ n <= n + 1
      BY <1>1
    <3>2. QED
      BY <3>1, NestedGrows
  <2>3. ASSUME NEW s \in W, NEW k \in DOMAIN s, IsDict(s[k]) PROVE s[k] \in upto(n)
    <3>1. s \in U /\ Nested(s, n + 1) /\ IsDict(s)
      BY DEF Closed
    <3>2. Nested(s[k], n)
      BY <3>1, NestedFromTheRoot
    <3>3. QED
      BY <2>3, <3>1, <3>2 DEF Closed
  <2>4. ASSUME NEW b \in W, NEW o \in V PROVE g[<<b, o>>] = MergeRule(f, b, o)
    OBVIOUS
  <2> HIDE DEF upto
  <2>5. ASSUME NEW b \in W, NEW o \in V PROVE MergeRule(g, b, o) = MergeRule(f, b, o)
    <3>1. ASSUME NEW k \in DOMAIN b \cap DOMAIN o, IsDict(b[k]), IsDict(o[k])
          PROVE  g[<<b[k], o[k]>>] = f[<<b[k], o[k]>>]
      <4>1. b[k] \in upto(n) /\ o[k] \in V
        BY <2>3, <3>1 DEF Closed
      <4>2. f[<<b[k], o[k]>>] = MergeRule(f, b[k], o[k])
        BY <2>1, <4>1, MergesByRule
      <4>3. b[k] \in W
        BY <2>2, <4>1
      <4>4. QED
        BY <2>4, <4>1, <4>2, <4>3
    <3> HIDE DEF g
    <3>2. QED
      BY <3>1, SameRule
  <2>6. Merges(g, W, V)
    <3>1. \A x \in W \X V : MergeRule(g, x[1], x[2]) = MergeRule(f, x[1], x[2])
      BY <2>5
    <3>2. QED
      BY <3>1 DEF Merges
  <2>7. n + 1 \in 0..MaxNesting
    BY <1>1
  <2> HIDE DEF g
  <2>8. QED
    BY <2>6, <2>7
<1>4. MaxNesting \in P
  <2>1. MaxNesting \in 0..MaxNesting
    BY <1>1
  <2> HIDE DEF P
  <2>2. QED
    BY <1>1, <1>2, <1>3, <2>1, RangeInduction
<1>5. upto(MaxNesting) = U
  BY DEF Closed
<1> HIDE DEF upto
<1>6. QED
  BY <1>4, <1>5

\* ... and two of them agree wherever both are defined.
LEMMA MergingIsUnique ==
  ASSUME NEW U, NEW V, Closed(U), Closed(V), NEW T, NEW W, Closed(T), Closed(W),
         NEW f, NEW g, Merges(f, U, V), Merges(g, T, W),
         NEW b \in U \cap T, NEW o \in V \cap W
  PROVE  f[<<b, o>>] = g[<<b, o>>]
<1> DEFINE P == {n \in 0..MaxNesting : \A s \in U \cap T, r \in V \cap W :
                   Nested(s, n) => f[<<s, r>>] = g[<<s, r>>]}
<1>1. MaxNesting \in Nat /\ MaxNesting \in 0..MaxNesting
  BY NestingUnits
<1>2. 0 \in P
  BY <1>1, FlatIsALeaf DEF Closed
<1>3. ASSUME NEW n \in 0..(MaxNesting - 1), n \in P PROVE n + 1 \in P
  <2>1. ASSUME NEW s \in U \cap T, NEW r \in V \cap W, Nested(s, n + 1)
        PROVE  f[<<s, r>>] = g[<<s, r>>]
    <3>1. ASSUME NEW k \in DOMAIN s \cap DOMAIN r, IsDict(s[k]), IsDict(r[k])
          PROVE  f[<<s[k], r[k]>>] = g[<<s[k], r[k]>>]
      <4>1. s[k] \in U \cap T /\ r[k] \in V \cap W /\ IsDict(s)
        BY <3>1 DEF Closed
      <4>2. Nested(s[k], n)
        BY <2>1, <4>1, NestedFromTheRoot
      <4>3. QED
        BY <1>3, <4>1, <4>2
    <3>2. MergeRule(f, s, r) = MergeRule(g, s, r)
      BY <3>1, SameRule
    <3>3. f[<<s, r>>] = MergeRule(f, s, r) /\ g[<<s, r>>] = MergeRule(g, s, r)
      BY MergesByRule
    <3>4. QED
      BY <3>2, <3>3
  <2>2. n + 1 \in 0..MaxNesting
    BY <1>1
  <2>3. QED
    BY <2>1, <2>2
<1> HIDE DEF P
<1>4. MaxNesting \in P
  BY <1>1, <1>2, <1>3, RangeInduction
<1>5. Nested(b, MaxNesting)
  BY DEF Closed
<1>6. QED
  BY <1>4, <1>5 DEF P

\* DeepMerge is defined by one of them.
LEMMA MergeIsChosen ==
  ASSUME NEW base, NEW override
  PROVE  DeepMerge(base, override) =
           (CHOOSE f : Merges(f, Dicts(base), Dicts(override)))[<<base, override>>]
BY DEF DeepMerge, Merges, MergeRule

\* Settings are trees of dictionaries.
IsTree(t) == IsDict(t) /\ Nested(t, MaxNesting)

\* What _deep_merge puts under each name.
MergedByNames(b, o) ==
  [k \in DOMAIN b \cup DOMAIN o |->
     IF k \notin DOMAIN o THEN b[k]
     ELSE IF k \in DOMAIN b /\ IsDict(b[k]) /\ IsDict(o[k]) THEN DeepMerge(b[k], o[k])
     ELSE o[k]]

\* DeepMerge does what _deep_merge says, name by name, whatever the trees.
LEMMA MergeByNames ==
  ASSUME NEW b, NEW o, IsTree(b), IsTree(o)
  PROVE  DeepMerge(b, o) = MergedByNames(b, o)
<1> DEFINE merging(s, r) == CHOOSE f : Merges(f, Dicts(s), Dicts(r))
<1>1. ASSUME NEW s, NEW r, IsTree(s), IsTree(r)
      PROVE  /\ Merges(merging(s, r), Dicts(s), Dicts(r))
             /\ DeepMerge(s, r) = merging(s, r)[<<s, r>>]
             /\ s \in Dicts(s) /\ Closed(Dicts(s)) /\ r \in Dicts(r) /\ Closed(Dicts(r))
  <2>1. s \in Dicts(s) /\ Closed(Dicts(s)) /\ r \in Dicts(r) /\ Closed(Dicts(r))
    BY <1>1, DictsAreClosed DEF IsTree
  <2>2. \E f : Merges(f, Dicts(s), Dicts(r))
    BY <2>1, MergingExists
  <2>3. Merges(merging(s, r), Dicts(s), Dicts(r))
    BY <2>2
  <2>4. QED
    BY <2>1, <2>3, MergeIsChosen
<1> DEFINE f == merging(b, o)
<1>2. /\ Merges(f, Dicts(b), Dicts(o)) /\ DeepMerge(b, o) = f[<<b, o>>]
      /\ b \in Dicts(b) /\ Closed(Dicts(b)) /\ o \in Dicts(o) /\ Closed(Dicts(o))
  BY <1>1
<1>3. ASSUME NEW k \in DOMAIN b \cap DOMAIN o, IsDict(b[k]), IsDict(o[k])
      PROVE  f[<<b[k], o[k]>>] = DeepMerge(b[k], o[k])
  <2>1. IsTree(b[k]) /\ IsTree(o[k])
    BY <1>3, SubtreesEndSooner DEF IsTree
  <2>2. b[k] \in Dicts(b) /\ o[k] \in Dicts(o)
    BY <1>2, <1>3 DEF Closed
  <2> DEFINE g == merging(b[k], o[k])
  <2>3. /\ Merges(g, Dicts(b[k]), Dicts(o[k])) /\ DeepMerge(b[k], o[k]) = g[<<b[k], o[k]>>]
        /\ b[k] \in Dicts(b[k]) /\ Closed(Dicts(b[k])) /\ o[k] \in Dicts(o[k]) /\ Closed(Dicts(o[k]))
    BY <1>1, <2>1
  <2> HIDE DEF f, g
  <2>4. b[k] \in Dicts(b) \cap Dicts(b[k]) /\ o[k] \in Dicts(o) \cap Dicts(o[k])
    BY <2>2, <2>3
  <2>5. f[<<b[k], o[k]>>] = g[<<b[k], o[k]>>]
    BY <1>2, <2>3, <2>4, MergingIsUnique
  <2>6. QED
    BY <2>3, <2>5
<1> HIDE DEF f
<1>4. DeepMerge(b, o) = MergeRule(f, b, o)
  BY <1>2, MergesByRule
<1>5. QED
  BY <1>3, <1>4 DEF MergeRule, MergedByNames

\* The same without a function constructor, for reasoning about one name.
LEMMA NamesMerged ==
  ASSUME NEW b, NEW o, IsTree(b), IsTree(o)
  PROVE  /\ DOMAIN DeepMerge(b, o) = DOMAIN b \cup DOMAIN o
         /\ \A k \in DOMAIN b \cup DOMAIN o : DeepMerge(b, o)[k] =
              IF k \notin DOMAIN o THEN b[k]
              ELSE IF k \in DOMAIN b /\ IsDict(b[k]) /\ IsDict(o[k]) THEN DeepMerge(b[k], o[k])
              ELSE o[k]
<1>1. DeepMerge(b, o) = MergedByNames(b, o)
  BY MergeByNames
<1> DEFINE m == DeepMerge(b, o)
<1> HIDE DEF m
<1>2. /\ DOMAIN m = DOMAIN b \cup DOMAIN o
      /\ \A k \in DOMAIN b \cup DOMAIN o : m[k] =
           IF k \notin DOMAIN o THEN b[k]
           ELSE IF k \in DOMAIN b /\ IsDict(b[k]) /\ IsDict(o[k]) THEN DeepMerge(b[k], o[k])
           ELSE o[k]
  BY <1>1 DEF MergedByNames, m
<1>3. QED
  BY <1>2 DEF m

-----------------------------------------------------------------------------
\* What is merged is an overlay

\* A value is at a path.
LEMMA ValuesAreNodes ==
  ASSUME NEW t, NEW v \in Values(t)
  PROVE  IsPath(v[1]) /\ ~IsDict(v[2])
BY NodesAreNodes DEF Values, IsNode

\* The overlay law under one name, when it holds for what is under it.
LEMMA OverlayUnder ==
  ASSUME NEW b, NEW o, IsTree(b), IsTree(o), NEW k \in DOMAIN b \cup DOMAIN o,
         k \in DOMAIN b /\ k \in DOMAIN o /\ IsDict(b[k]) /\ IsDict(o[k]) =>
           IsOverlay(DeepMerge(b[k], o[k]), b[k], o[k]),
         NEW v
  PROVE  v \in Values(DeepMerge(b, o)[k]) <=>
           \/ k \in DOMAIN o /\ v \in Values(o[k])
           \/ k \in DOMAIN b /\ v \in Values(b[k]) /\ ~Covers(o, Cons(k, v[1]))
<1> DEFINE m == DeepMerge(b, o)
<1>1. m[k] = IF k \notin DOMAIN o THEN b[k]
             ELSE IF k \in DOMAIN b /\ IsDict(b[k]) /\ IsDict(o[k]) THEN DeepMerge(b[k], o[k])
             ELSE o[k]
  BY NamesMerged
<1>2. ASSUME NEW p, IsPath(p) PROVE Covers(o, Cons(k, p)) <=> k \in DOMAIN o /\ Covers(o[k], p)
  BY <1>2, CoversFromTheRoot DEF IsTree
<1>3. \A t : v \in Values(t) => IsPath(v[1])
  BY ValuesAreNodes
<1> HIDE DEF m
<1>4. CASE k \notin DOMAIN o
  BY <1>1, <1>2, <1>3, <1>4 DEF m
<1>5. CASE k \in DOMAIN o /\ k \in DOMAIN b /\ IsDict(b[k]) /\ IsDict(o[k])
  <2>1. v \in Values(m[k]) <=> v \in Values(o[k]) \/ (v \in Values(b[k]) /\ ~Covers(o[k], v[1]))
    BY <1>1, <1>5 DEF IsOverlay
  <2>2. QED
    BY <1>2, <1>3, <1>5, <2>1 DEF m
<1>6. CASE k \in DOMAIN o /\ ~(k \in DOMAIN b /\ IsDict(b[k]) /\ IsDict(o[k]))
  <2>1. m[k] = o[k]
    BY <1>1, <1>6
  <2>2. ASSUME k \in DOMAIN b, v \in Values(b[k]) PROVE Covers(o[k], v[1])
    <3>1. IsPath(v[1])
      BY <1>3, <2>2
    <3>2. CASE ~IsDict(o[k])
      BY <3>1, <3>2, LeavesCoverAll
    <3>3. CASE IsDict(o[k])
      <4>1. ~IsDict(b[k])
        BY <1>6, <2>2, <3>3
      <4> DEFINE none == << >>
                 root == <<none, b[k]>>
      <4>2. root[1] = none
        OBVIOUS
      <4>3. v = root
        BY <2>2, <4>1, ValuesOfALeaf
      <4>4. Nested(o[k], MaxNesting)
        BY <1>6, SubtreesEndSooner DEF IsTree
      <4>5. Covers(o[k], none)
        BY <4>4, RootIsCovered
      <4> HIDE DEF root, none
      <4>6. QED
        BY <4>2, <4>3, <4>5
    <3>4. QED
      BY <3>2, <3>3
  <2>3. QED
    BY <1>2, <1>3, <1>6, <2>1, <2>2 DEF m
<1>7. QED
  BY <1>4, <1>5, <1>6

\* Two trees of dictionaries merge to a tree of dictionaries that says what the second
\* says and, where the second says nothing, what the first says: no value of the second
\* is lost and none it does not mention is changed, whatever the shapes of the two.
\* (config.py, _deep_merge.)
THEOREM MergeIsOverlay ==
  ASSUME NEW base, NEW override, IsTree(base), IsTree(override)
  PROVE  IsTree(DeepMerge(base, override)) /\ IsOverlay(DeepMerge(base, override), base, override)
<1> DEFINE good(b, o, n) == Nested(DeepMerge(b, o), n) /\ IsOverlay(DeepMerge(b, o), b, o)
           P == {n \in 0..MaxNesting : \A b, o :
                   IsDict(b) /\ IsDict(o) /\ Nested(b, n) /\ Nested(o, n) => good(b, o, n)}
<1>1. MaxNesting \in Nat /\ MaxNesting \in 0..MaxNesting /\ 0 \in 0..MaxNesting
  BY NestingUnits
<1>2. 0 \in P
  BY <1>1, FlatIsALeaf
<1>3. ASSUME NEW n \in 0..(MaxNesting - 1), n \in P PROVE n + 1 \in P
  <2>1. n \in 0..MaxNesting /\ n + 1 \in 0..MaxNesting /\ n <= MaxNesting /\ n + 1 <= MaxNesting
    BY <1>1
  <2>2. ASSUME NEW b, NEW o, IsDict(b), IsDict(o), Nested(b, n + 1), Nested(o, n + 1)
        PROVE  good(b, o, n + 1)
    <3> DEFINE m == DeepMerge(b, o)
    <3>1. IsTree(b) /\ IsTree(o)
      BY <1>1, <2>1, <2>2, NestedGrows DEF IsTree
    <3>2. /\ DOMAIN m = DOMAIN b \cup DOMAIN o
          /\ \A k \in DOMAIN b \cup DOMAIN o : m[k] =
               IF k \notin DOMAIN o THEN b[k]
               ELSE IF k \in DOMAIN b /\ IsDict(b[k]) /\ IsDict(o[k]) THEN DeepMerge(b[k], o[k])
               ELSE o[k]
      BY <3>1, NamesMerged
    <3> HIDE DEF m
    <3>3. DOMAIN m = DOMAIN b \cup DOMAIN o /\ IsDict(m)
      BY <2>2, <3>2 DEF IsDict
    <3>4. /\ \A k \in DOMAIN b : Nested(b[k], n)
          /\ \A k \in DOMAIN o : Nested(o[k], n)
      BY <2>2, NestedFromTheRoot
    <3>5. ASSUME NEW k \in DOMAIN b \cap DOMAIN o, IsDict(b[k]), IsDict(o[k])
          PROVE  good(b[k], o[k], n)
      BY <1>3, <3>4, <3>5
    <3>6. Nested(m, n + 1)
      <4>1. ASSUME NEW k \in DOMAIN m PROVE Nested(m[k], n)
        <5>1. m[k] = IF k \notin DOMAIN o THEN b[k]
                     ELSE IF k \in DOMAIN b /\ IsDict(b[k]) /\ IsDict(o[k]) THEN DeepMerge(b[k], o[k])
                     ELSE o[k]
          BY <3>2, <3>3
        <5>2. QED
          BY <3>3, <3>4, <3>5, <5>1
      <4>2. QED
        BY <3>3, <4>1, NestedFromTheRoot
    <3>7. Nested(m, MaxNesting)
      BY <1>1, <2>1, <3>6, NestedGrows
    <3>8. IsOverlay(m, b, o)
      <4>1. \A k, w : Below(k, w)[1] = Cons(k, w[1])
        BY DEF Below
      <4>2. ASSUME NEW k \in DOMAIN m, NEW w
            PROVE  w \in Values(m[k]) <=>
                     \/ k \in DOMAIN o /\ w \in Values(o[k])
                     \/ k \in DOMAIN b /\ w \in Values(b[k]) /\ ~Covers(o, Cons(k, w[1]))
        BY <3>1, <3>3, <3>5, OverlayUnder DEF m
      <4>3. \A x : x \in Values(m) <=> \E k \in DOMAIN m : \E w \in Values(m[k]) : x = Below(k, w)
        BY <3>3, <3>7, ValuesOfADict
      <4>4. \A x : x \in Values(b) <=> \E k \in DOMAIN b : \E w \in Values(b[k]) : x = Below(k, w)
        BY <3>1, ValuesOfADict DEF IsTree
      <4>5. \A x : x \in Values(o) <=> \E k \in DOMAIN o : \E w \in Values(o[k]) : x = Below(k, w)
        BY <3>1, ValuesOfADict DEF IsTree
      <4>6. ASSUME NEW x
            PROVE  x \in Values(m) <=> x \in Values(o) \/ (x \in Values(b) /\ ~Covers(o, x[1]))
        <5>1. ASSUME x \in Values(m) PROVE x \in Values(o) \/ (x \in Values(b) /\ ~Covers(o, x[1]))
          <6>1. PICK k \in DOMAIN m : \E w \in Values(m[k]) : x = Below(k, w)
            BY <4>3, <5>1
          <6>2. PICK w \in Values(m[k]) : x = Below(k, w)
            BY <6>1
          <6>3. \/ k \in DOMAIN o /\ w \in Values(o[k])
                \/ k \in DOMAIN b /\ w \in Values(b[k]) /\ ~Covers(o, Cons(k, w[1]))
            BY <4>2, <6>2
          <6>4. QED
            BY <4>1, <4>4, <4>5, <6>2, <6>3
        <5>2. ASSUME x \in Values(o) PROVE x \in Values(m)
          <6>1. PICK k \in DOMAIN o : \E w \in Values(o[k]) : x = Below(k, w)
            BY <4>5, <5>2
          <6>2. PICK w \in Values(o[k]) : x = Below(k, w)
            BY <6>1
          <6>3. QED
            BY <3>3, <4>2, <4>3, <6>2
        <5>3. ASSUME x \in Values(b), ~Covers(o, x[1]) PROVE x \in Values(m)
          <6>1. PICK k \in DOMAIN b : \E w \in Values(b[k]) : x = Below(k, w)
            BY <4>4, <5>3
          <6>2. PICK w \in Values(b[k]) : x = Below(k, w)
            BY <6>1
          <6>3. QED
            BY <3>3, <4>1, <4>2, <4>3, <5>3, <6>2
        <5>4. QED
          BY <5>1, <5>2, <5>3
      <4>7. QED
        BY <4>6 DEF IsOverlay
    <3>9. QED
      BY <3>6, <3>8 DEF m
  <2>3. QED
    BY <2>1, <2>2
<1> HIDE DEF P
<1>4. MaxNesting \in P
  BY <1>1, <1>2, <1>3, RangeInduction
<1>5. good(base, override, MaxNesting)
  BY <1>4 DEF P, IsTree
<1>6. IsDict(DeepMerge(base, override))
  <2>1. DOMAIN DeepMerge(base, override) = DOMAIN base \cup DOMAIN override
    BY NamesMerged
  <2>2. QED
    BY <2>1 DEF IsDict, IsTree
<1>7. QED
  BY <1>5, <1>6 DEF IsTree

-----------------------------------------------------------------------------
\* Names taken out of a tree, and a subtree put in another's place

Without(t, names) == [k \in DOMAIN t \ names |-> t[k]]

\* Neither makes a tree deeper.
LEMMA WithoutIsNested ==
  ASSUME NEW t, IsDict(t), NEW d \in 0..(MaxNesting - 1), Nested(t, d + 1), NEW names
  PROVE  IsDict(Without(t, names)) /\ Nested(Without(t, names), d + 1)
<1> DEFINE w == Without(t, names)
<1>1. DOMAIN w = DOMAIN t \ names /\ \A k \in DOMAIN w : w[k] = t[k]
  BY DEF Without
<1> HIDE DEF w
<1>2. IsDict(w)
  BY <1>1 DEF IsDict
<1>3. \A k \in DOMAIN w : Nested(w[k], d)
  BY <1>1, NestedFromTheRoot
<1>4. Nested(w, d + 1)
  BY <1>2, <1>3, NestedFromTheRoot
<1>5. QED
  BY <1>2, <1>4 DEF w

LEMMA ExceptIsNested ==
  ASSUME NEW t, IsDict(t), NEW d \in 0..(MaxNesting - 1), Nested(t, d + 1), NEW k,
         NEW w, Nested(w, d)
  PROVE  IsDict([t EXCEPT ![k] = w]) /\ Nested([t EXCEPT ![k] = w], d + 1)
<1> DEFINE e == [t EXCEPT ![k] = w]
<1>1. DOMAIN e = DOMAIN t /\ \A j \in DOMAIN e : e[j] = IF j = k THEN w ELSE t[j]
  OBVIOUS
<1> HIDE DEF e
<1>2. IsDict(e)
  BY <1>1 DEF IsDict
<1>3. \A j \in DOMAIN e : Nested(e[j], d)
  BY <1>1, NestedFromTheRoot
<1>4. Nested(e, d + 1)
  BY <1>2, <1>3, NestedFromTheRoot
<1>5. QED
  BY <1>2, <1>4 DEF e

\* Three levels below the root are within the bound.
LEMMA DepthsOfTrees ==
  /\ MaxNesting - 1 \in 0..(MaxNesting - 1) /\ (MaxNesting - 1) + 1 = MaxNesting
  /\ MaxNesting - 2 \in 0..(MaxNesting - 1) /\ (MaxNesting - 2) + 1 = MaxNesting - 1
  /\ MaxNesting - 3 \in 0..(MaxNesting - 1) /\ (MaxNesting - 3) + 1 = MaxNesting - 2
  /\ MaxNesting \in 0..MaxNesting
BY NestingUnits

LEMMA WithoutIsTree ==
  ASSUME NEW t, IsTree(t), NEW names
  PROVE  IsTree(Without(t, names))
<1> DEFINE d == MaxNesting - 1
<1>1. d \in 0..(MaxNesting - 1) /\ d + 1 = MaxNesting
  BY DepthsOfTrees
<1> HIDE DEF d
<1>2. QED
  BY <1>1, WithoutIsNested DEF IsTree

\* Taking names out commutes with merging.
LEMMA MergeWithout ==
  ASSUME NEW b, NEW o, IsTree(b), IsTree(o), NEW names
  PROVE  /\ Without(DeepMerge(b, o), names) = DeepMerge(Without(b, names), Without(o, names))
         /\ names \cap DOMAIN b = {} =>
              Without(DeepMerge(b, o), names) = DeepMerge(b, Without(o, names))
<1> DEFINE bare(t) == Without(t, names)
           rule(s, r, k) ==
             IF k \notin DOMAIN r THEN s[k]
             ELSE IF k \in DOMAIN s /\ IsDict(s[k]) /\ IsDict(r[k]) THEN DeepMerge(s[k], r[k])
             ELSE r[k]
           all == DOMAIN b \cup DOMAIN o
           rest == all \ names
<1>1. \A t : DOMAIN bare(t) = DOMAIN t \ names /\ \A k \in DOMAIN t \ names : bare(t)[k] = t[k]
  BY DEF Without
<1>2. IsTree(bare(b)) /\ IsTree(bare(o))
  BY WithoutIsTree
<1>3. DOMAIN DeepMerge(b, o) = all /\ \A k \in all : DeepMerge(b, o)[k] = rule(b, o, k)
  BY NamesMerged
<1>4. ASSUME NEW s, NEW r PROVE MergedByNames(s, r) = [k \in DOMAIN s \cup DOMAIN r |-> rule(s, r, k)]
  BY DEF MergedByNames
<1>5. bare(DeepMerge(b, o)) = [k \in rest |-> rule(b, o, k)]
  <2>1. bare(DeepMerge(b, o)) = [k \in DOMAIN DeepMerge(b, o) \ names |-> DeepMerge(b, o)[k]]
    BY DEF Without
  <2> HIDE DEF bare, rule
  <2>2. QED
    BY <1>3, <2>1
<1>6. DeepMerge(bare(b), bare(o)) = [k \in rest |-> rule(b, o, k)]
  <2>1. DeepMerge(bare(b), bare(o)) = [k \in DOMAIN bare(b) \cup DOMAIN bare(o) |-> rule(bare(b), bare(o), k)]
    <3>1. DeepMerge(bare(b), bare(o)) = MergedByNames(bare(b), bare(o))
      BY <1>2, MergeByNames
    <3>2. MergedByNames(bare(b), bare(o)) =
            [k \in DOMAIN bare(b) \cup DOMAIN bare(o) |-> rule(bare(b), bare(o), k)]
      BY <1>4
    <3> HIDE DEF bare, rule
    <3>3. QED
      BY <3>1, <3>2
  <2>2. DOMAIN bare(b) \cup DOMAIN bare(o) = rest
    BY <1>1
  <2>3. \A k \in rest : rule(bare(b), bare(o), k) = rule(b, o, k)
    <3> HIDE DEF bare
    <3>1. QED
      BY <1>1
  <2> HIDE DEF bare, rule, rest
  <2>4. QED
    BY <2>1, <2>2, <2>3
<1>7. ASSUME names \cap DOMAIN b = {} PROVE DeepMerge(b, bare(o)) = [k \in rest |-> rule(b, o, k)]
  <2>1. DeepMerge(b, bare(o)) = [k \in DOMAIN b \cup DOMAIN bare(o) |-> rule(b, bare(o), k)]
    BY <1>2, <1>4, MergeByNames
  <2>2. DOMAIN b \cup DOMAIN bare(o) = rest
    BY <1>1, <1>7
  <2>3. \A k \in rest : rule(b, bare(o), k) = rule(b, o, k)
    <3> HIDE DEF bare
    <3>1. QED
      BY <1>1
  <2> HIDE DEF bare, rule, rest
  <2>4. QED
    BY <2>1, <2>2, <2>3
<1>8. QED
  BY <1>5, <1>6, <1>7

\* So does replacing one section.
LEMMA MergeExcept ==
  ASSUME NEW b, NEW o, IsTree(b), IsTree(o), NEW k \in DOMAIN b \cap DOMAIN o, IsDict(b[k]),
         NEW w, IsDict(w), IsDict(o[k]), IsTree([o EXCEPT ![k] = w])
  PROVE  DeepMerge(b, [o EXCEPT ![k] = w]) = [DeepMerge(b, o) EXCEPT ![k] = DeepMerge(b[k], w)]
<1> DEFINE rule(s, r, j) ==
             IF j \notin DOMAIN r THEN s[j]
             ELSE IF j \in DOMAIN s /\ IsDict(s[j]) /\ IsDict(r[j]) THEN DeepMerge(s[j], r[j])
             ELSE r[j]
           e == [o EXCEPT ![k] = w]
           all == DOMAIN b \cup DOMAIN o
<1>1. DOMAIN e = DOMAIN o /\ e[k] = w /\ \A j \in DOMAIN o : j # k => e[j] = o[j]
  OBVIOUS
<1>2. DeepMerge(b, e) = [j \in DOMAIN b \cup DOMAIN e |-> rule(b, e, j)]
  BY MergeByNames DEF MergedByNames
<1>3. DOMAIN DeepMerge(b, o) = all /\ \A j \in all : DeepMerge(b, o)[j] = rule(b, o, j)
  BY NamesMerged
<1> HIDE DEF e
<1>4. \A j \in all : rule(b, e, j) = IF j = k THEN DeepMerge(b[k], w) ELSE rule(b, o, j)
  BY <1>1
<1> HIDE DEF rule
<1>5. [DeepMerge(b, o) EXCEPT ![k] = DeepMerge(b[k], w)] =
        [j \in all |-> IF j = k THEN DeepMerge(b[k], w) ELSE rule(b, o, j)]
  BY <1>3
<1>6. DeepMerge(b, e) = [j \in all |-> IF j = k THEN DeepMerge(b[k], w) ELSE rule(b, o, j)]
  <2> DEFINE other(j) == IF j = k THEN DeepMerge(b[k], w) ELSE rule(b, o, j)
  <2>1. DeepMerge(b, e) = [j \in all |-> rule(b, e, j)]
    BY <1>1, <1>2
  <2>2. \A j \in all : rule(b, e, j) = other(j)
    BY <1>4
  <2> HIDE DEF other, all
  <2>3. DeepMerge(b, e) = [j \in all |-> other(j)]
    BY <2>1, <2>2
  <2>4. QED
    BY <2>3 DEF other
<1>7. QED
  BY <1>5, <1>6 DEF e

-----------------------------------------------------------------------------
\* The deprecated place

\* A section of a tree is a tree.
LEMMA SectionsOfTrees ==
  ASSUME NEW t, IsTree(t), NEW k, HasSection(t, k)
  PROVE  k \in DOMAIN t /\ IsTree(t[k])
BY SubtreesEndSooner DEF IsTree, HasSection

\* WithoutLegacy takes one name out of a section of a section.
LEMMA WithoutLegacyByParts ==
  ASSUME NEW t
  PROVE  WithoutLegacy(t) =
           [t EXCEPT !["providers"] =
              [t["providers"] EXCEPT !["gemini"] =
                 Without(t["providers"]["gemini"], {"prompt_compression"})]]
BY DEF WithoutLegacy, Without

\* What is on the way to the deprecated place, and how deep it may be nested.
LEMMA LegacyParts ==
  ASSUME NEW t, IsTree(t), HasLegacy(t)
  PROVE  /\ "providers" \in DOMAIN t /\ IsTree(t["providers"])
         /\ Nested(t["providers"], MaxNesting - 1)
         /\ "gemini" \in DOMAIN t["providers"] /\ IsTree(t["providers"]["gemini"])
         /\ Nested(t["providers"]["gemini"], MaxNesting - 2)
         /\ "prompt_compression" \in DOMAIN t["providers"]["gemini"]
         /\ Nested(t["providers"]["gemini"]["prompt_compression"], MaxNesting - 3)
<1>1. HasSection(t, "providers") /\ HasSection(t["providers"], "gemini")
      /\ "prompt_compression" \in DOMAIN t["providers"]["gemini"]
  BY DEF HasLegacy
<1>2. "providers" \in DOMAIN t /\ IsTree(t["providers"])
  BY <1>1, SectionsOfTrees
<1>3. "gemini" \in DOMAIN t["providers"] /\ IsTree(t["providers"]["gemini"])
  BY <1>1, <1>2, SectionsOfTrees
<1> DEFINE p == t["providers"]
           g == p["gemini"]
           d == MaxNesting - 1
           e == MaxNesting - 2
           f == MaxNesting - 3
<1>4. d \in 0..(MaxNesting - 1) /\ d + 1 = MaxNesting /\ e \in 0..(MaxNesting - 1) /\ e + 1 = d
      /\ f \in 0..(MaxNesting - 1) /\ f + 1 = e
  BY DepthsOfTrees
<1> HIDE DEF d, e, f
<1>5. Nested(p, d)
  BY <1>2, <1>4, NestedFromTheRoot DEF IsTree
<1>6. Nested(g, e)
  BY <1>2, <1>3, <1>4, <1>5, NestedFromTheRoot DEF IsTree
<1>7. Nested(g["prompt_compression"], f)
  BY <1>1, <1>3, <1>4, <1>6, NestedFromTheRoot DEF IsTree
<1>8. QED
  BY <1>1, <1>2, <1>3, <1>5, <1>6, <1>7 DEF d, e, f

\* It leaves a tree with nothing at the deprecated place.
LEMMA LegacyIsTakenOut ==
  ASSUME NEW t, IsTree(t), HasLegacy(t)
  PROVE  /\ IsTree(WithoutLegacy(t)) /\ ~HasLegacy(WithoutLegacy(t))
         /\ IsTree([t["providers"] EXCEPT !["gemini"] =
                      Without(t["providers"]["gemini"], {"prompt_compression"})])
         /\ IsTree(Without(t["providers"]["gemini"], {"prompt_compression"}))
<1> DEFINE p == t["providers"]
           g == p["gemini"]
           d == MaxNesting - 1
           e == MaxNesting - 2
           f == MaxNesting - 3
           bare == Without(g, {"prompt_compression"})
           q == [p EXCEPT !["gemini"] = bare]
           r == [t EXCEPT !["providers"] = q]
<1>1. d \in 0..(MaxNesting - 1) /\ d + 1 = MaxNesting /\ e \in 0..(MaxNesting - 1) /\ e + 1 = d
      /\ f \in 0..(MaxNesting - 1) /\ f + 1 = e
  BY DepthsOfTrees
<1>2. IsDict(t) /\ Nested(t, MaxNesting) /\ IsDict(p) /\ Nested(p, d) /\ IsDict(g) /\ Nested(g, e)
      /\ "providers" \in DOMAIN t /\ "gemini" \in DOMAIN p
  BY LegacyParts DEF IsTree
<1> HIDE DEF d, e, f
<1>3. IsDict(bare) /\ Nested(bare, e)
  BY <1>1, <1>2, WithoutIsNested
<1>4. "prompt_compression" \notin DOMAIN bare
  BY DEF Without
<1> HIDE DEF bare
<1>5. IsDict(q) /\ Nested(q, d) /\ "gemini" \in DOMAIN q /\ q["gemini"] = bare
  BY <1>1, <1>2, <1>3, ExceptIsNested
<1> HIDE DEF q
<1>6. IsDict(r) /\ Nested(r, MaxNesting) /\ r["providers"] = q
  BY <1>1, <1>2, <1>5, ExceptIsNested
<1>7. WithoutLegacy(t) = r
  BY WithoutLegacyByParts DEF q, bare
<1> HIDE DEF r
<1>8. ~HasLegacy(r)
  BY <1>4, <1>5, <1>6 DEF HasLegacy
<1>9. IsTree(bare) /\ IsTree(q)
  <2>1. MaxNesting \in Nat /\ d \in 0..MaxNesting /\ e \in 0..MaxNesting /\ MaxNesting \in 0..MaxNesting
        /\ d <= MaxNesting /\ e <= MaxNesting
    BY NestingUnits DEF d, e
  <2>2. QED
    BY <1>3, <1>5, <2>1, NestedGrows DEF IsTree
<1>10. QED
  BY <1>6, <1>7, <1>8, <1>9 DEF IsTree, q, bare

\* What is moved makes a tree at the new place: it is nested no deeper there.
LEMMA NewPlaceIsATree ==
  ASSUME NEW t, IsTree(t), HasLegacy(t)
  PROVE  IsTree(AtNewPlace(t))
<1> DEFINE pc == t["providers"]["gemini"]["prompt_compression"]
           d == MaxNesting - 1
           e == MaxNesting - 2
           f == MaxNesting - 3
           section == [compression |-> pc]
           all == [llm_prompt |-> section]
<1>1. d \in 0..(MaxNesting - 1) /\ d + 1 = MaxNesting /\ e \in 0..(MaxNesting - 1) /\ e + 1 = d
      /\ f \in 0..(MaxNesting - 1) /\ f + 1 = e
  BY DepthsOfTrees
<1>2. f \in 0..MaxNesting /\ e \in 0..MaxNesting /\ d \in 0..MaxNesting /\ f <= e
      /\ e <= d
  BY NestingUnits
<1>3. Nested(pc, f)
  BY LegacyParts
<1> HIDE DEF pc, d, e, f
<1>4. DOMAIN section = {"compression"} /\ section["compression"] = pc
  OBVIOUS
<1> HIDE DEF section
<1>5. DOMAIN all = {"llm_prompt"} /\ all["llm_prompt"] = section
  OBVIOUS
<1> HIDE DEF all
<1>6. IsDict(section) /\ IsDict(all)
  BY <1>4, <1>5 DEF IsDict
<1>7. Nested(section, e)
  BY <1>1, <1>3, <1>4, <1>6, NestedFromTheRoot
<1>8. Nested(section, d)
  BY <1>2, <1>7, NestedGrows
<1>9. Nested(all, MaxNesting)
  BY <1>1, <1>5, <1>6, <1>8, NestedFromTheRoot
<1>10. AtNewPlace(t) = all
  BY DEF AtNewPlace, all, section, pc
<1>11. QED
  BY <1>6, <1>9, <1>10 DEF IsTree

\* Settings nobody has put anything at the deprecated place of.
Stock(b) ==
  /\ IsTree(b) /\ HasSection(b, "providers") /\ HasSection(b["providers"], "gemini")
  /\ "prompt_compression" \notin DOMAIN b["providers"]["gemini"]
  /\ HasCurrent(b)

\* What a section of the first tree becomes.
LEMMA MergedSection ==
  ASSUME NEW b, NEW o, IsTree(b), IsTree(o), NEW k, HasSection(b, k)
  PROVE  /\ k \in DOMAIN DeepMerge(b, o)
         /\ k \notin DOMAIN o => DeepMerge(b, o)[k] = b[k]
         /\ k \in DOMAIN o /\ ~IsDict(o[k]) => DeepMerge(b, o)[k] = o[k]
         /\ HasSection(o, k) => DeepMerge(b, o)[k] = DeepMerge(b[k], o[k])
<1> DEFINE m == DeepMerge(b, o)
<1>1. /\ DOMAIN m = DOMAIN b \cup DOMAIN o
      /\ \A j \in DOMAIN b \cup DOMAIN o : m[j] =
           IF j \notin DOMAIN o THEN b[j]
           ELSE IF j \in DOMAIN b /\ IsDict(b[j]) /\ IsDict(o[j]) THEN DeepMerge(b[j], o[j])
           ELSE o[j]
  BY NamesMerged
<1>2. k \in DOMAIN b /\ IsDict(b[k])
  BY DEF HasSection
<1> HIDE DEF m
<1>3. /\ k \in DOMAIN m
      /\ m[k] = IF k \notin DOMAIN o THEN b[k]
                ELSE IF k \in DOMAIN b /\ IsDict(b[k]) /\ IsDict(o[k]) THEN DeepMerge(b[k], o[k])
                ELSE o[k]
  BY <1>1, <1>2
<1>4. /\ k \notin DOMAIN o => m[k] = b[k]
      /\ k \in DOMAIN o /\ ~IsDict(o[k]) => m[k] = o[k]
  BY <1>2, <1>3
<1>5. HasSection(o, k) => m[k] = DeepMerge(b[k], o[k])
  BY <1>2, <1>3 DEF HasSection
<1>6. QED
  BY <1>3, <1>4, <1>5 DEF m

\* What is at the deprecated place of the merged settings was there in the override.
LEMMA LegacyOfMerged ==
  ASSUME NEW b, NEW o, Stock(b), IsTree(o)
  PROVE  HasLegacy(DeepMerge(b, o)) <=> HasLegacy(o)
<1> DEFINE m == DeepMerge(b, o)
           bp == b["providers"]
           bg == bp["gemini"]
           op == o["providers"]
           og == op["gemini"]
           mp == m["providers"]
           mg == mp["gemini"]
<1>1. IsTree(b) /\ HasSection(b, "providers") /\ IsTree(bp) /\ HasSection(bp, "gemini") /\ IsTree(bg)
      /\ "prompt_compression" \notin DOMAIN bg
  BY SectionsOfTrees DEF Stock
<1>2. HasLegacy(m) <=> /\ "providers" \in DOMAIN m /\ IsDict(mp)
                       /\ "gemini" \in DOMAIN mp /\ IsDict(mg)
                       /\ "prompt_compression" \in DOMAIN mg
  BY DEF HasLegacy, HasSection
<1>3. HasLegacy(o) <=> /\ "providers" \in DOMAIN o /\ IsDict(op)
                       /\ "gemini" \in DOMAIN op /\ IsDict(og)
                       /\ "prompt_compression" \in DOMAIN og
  BY DEF HasLegacy, HasSection
<1>4. CASE "providers" \notin DOMAIN o
  <2>1. mp = bp
    BY <1>1, <1>4, MergedSection
  <2> HIDE DEF m
  <2>2. QED
    BY <1>1, <1>2, <1>3, <1>4, <2>1 DEF m
<1>5. CASE "providers" \in DOMAIN o /\ ~IsDict(op)
  <2>1. mp = op
    BY <1>1, <1>5, MergedSection
  <2> HIDE DEF m
  <2>2. QED
    BY <1>2, <1>3, <1>5, <2>1 DEF m
<1>6. CASE HasSection(o, "providers")
  <2>1. "providers" \in DOMAIN m /\ mp = DeepMerge(bp, op) /\ IsTree(op) /\ IsTree(mp)
    BY <1>1, <1>6, MergedSection, SectionsOfTrees, MergeIsOverlay
  <2> HIDE DEF m, mp
  <2>2. CASE "gemini" \notin DOMAIN op
    <3>1. mg = bg
      BY <1>1, <2>1, <2>2, MergedSection
    <3>2. QED
      BY <1>1, <1>2, <1>3, <2>2, <3>1 DEF m
  <2>3. CASE "gemini" \in DOMAIN op /\ ~IsDict(og)
    <3>1. mg = og
      BY <1>1, <2>1, <2>3, MergedSection
    <3>2. QED
      BY <1>2, <1>3, <2>3, <3>1 DEF m
  <2>4. CASE HasSection(op, "gemini")
    <3>1. "gemini" \in DOMAIN mp /\ mg = DeepMerge(bg, og) /\ IsTree(og) /\ IsTree(mg)
      BY <1>1, <2>1, <2>4, MergedSection, SectionsOfTrees, MergeIsOverlay
    <3>2. DOMAIN mg = DOMAIN bg \cup DOMAIN og
      <4> HIDE DEF mg, bg, og
      <4>1. IsTree(bg) /\ IsTree(og) /\ mg = DeepMerge(bg, og)
        BY <1>1, <3>1
      <4>2. DOMAIN DeepMerge(bg, og) = DOMAIN bg \cup DOMAIN og
        BY <4>1, NamesMerged
      <4>3. QED
        BY <4>1, <4>2
    <3> HIDE DEF mg
    <3>3. IsDict(mg) /\ IsDict(og) /\ IsDict(mp) /\ IsDict(op) /\ "providers" \in DOMAIN o /\ "gemini" \in DOMAIN op
      BY <1>6, <2>1, <2>4, <3>1 DEF IsTree, HasSection
    <3>4. QED
      BY <1>1, <1>2, <1>3, <2>1, <3>1, <3>2, <3>3 DEF m
  <2>5. QED
    BY <2>2, <2>3, <2>4 DEF HasSection
<1>7. QED
  BY <1>4, <1>5, <1>6 DEF HasSection

\* It is dropped from the merged settings as if it had been dropped from the override.
LEMMA LegacyDropped ==
  ASSUME NEW b, NEW o, Stock(b), IsTree(o), HasLegacy(o)
  PROVE  WithoutLegacy(DeepMerge(b, o)) = DeepMerge(b, WithoutLegacy(o))
<1> DEFINE gone == {"prompt_compression"}
           m == DeepMerge(b, o)
           bp == b["providers"]
           bg == bp["gemini"]
           op == o["providers"]
           og == op["gemini"]
           bare == Without(og, gone)
           oq == [op EXCEPT !["gemini"] = bare]
<1>1. /\ IsTree(b) /\ HasSection(b, "providers") /\ IsTree(bp) /\ HasSection(bp, "gemini") /\ IsTree(bg)
      /\ gone \cap DOMAIN bg = {}
      /\ "providers" \in DOMAIN b /\ "gemini" \in DOMAIN bp
  BY SectionsOfTrees DEF Stock
<1>2. /\ HasSection(o, "providers") /\ IsTree(op) /\ HasSection(op, "gemini") /\ IsTree(og)
      /\ "providers" \in DOMAIN o /\ "gemini" \in DOMAIN op
  BY SectionsOfTrees DEF HasLegacy
<1>3. /\ IsTree(bare) /\ IsTree(oq) /\ IsTree(WithoutLegacy(o))
      /\ WithoutLegacy(o) = [o EXCEPT !["providers"] = oq]
  BY LegacyIsTakenOut, WithoutLegacyByParts
<1>4. m["providers"] = DeepMerge(bp, op)
  BY <1>1, <1>2, MergedSection
<1>5. DeepMerge(bp, op)["gemini"] = DeepMerge(bg, og)
  BY <1>1, <1>2, MergedSection
<1>6. WithoutLegacy(m) =
        [m EXCEPT !["providers"] =
           [m["providers"] EXCEPT !["gemini"] = Without(m["providers"]["gemini"], gone)]]
  BY WithoutLegacyByParts
<1>7. Without(DeepMerge(bg, og), gone) = DeepMerge(bg, bare)
  BY <1>1, <1>2, MergeWithout
<1>8. DeepMerge(bp, oq) = [DeepMerge(bp, op) EXCEPT !["gemini"] = DeepMerge(bg, bare)]
  <2> HIDE DEF bare
  <2>1. "gemini" \in DOMAIN bp \cap DOMAIN op
    BY <1>1, <1>2
  <2>2. QED
    BY <1>1, <1>2, <1>3, <2>1, MergeExcept DEF IsTree
<1>9. DeepMerge(b, WithoutLegacy(o)) = [m EXCEPT !["providers"] = DeepMerge(bp, oq)]
  <2> HIDE DEF oq
  <2>1. "providers" \in DOMAIN b \cap DOMAIN o
    BY <1>1, <1>2
  <2>2. IsTree([o EXCEPT !["providers"] = oq])
    BY <1>3
  <2>3. QED
    <3>1. IsDict(bp) /\ IsDict(op) /\ IsDict(oq)
      BY <1>1, <1>2, <1>3 DEF IsTree
    <3>2. DeepMerge(b, [o EXCEPT !["providers"] = oq]) =
            [DeepMerge(b, o) EXCEPT !["providers"] = DeepMerge(b["providers"], oq)]
      BY <1>1, <2>1, <2>2, <3>1, MergeExcept
    <3>3. QED
      BY <1>3, <3>2
<1>10. QED
  <2> DEFINE x == DeepMerge(bp, op)
             y == DeepMerge(bg, og)
             z == DeepMerge(bg, bare)
  <2>1. /\ m["providers"] = x /\ x["gemini"] = y /\ Without(y, gone) = z
        /\ WithoutLegacy(m) =
             [m EXCEPT !["providers"] =
                [m["providers"] EXCEPT !["gemini"] = Without(m["providers"]["gemini"], gone)]]
        /\ DeepMerge(b, WithoutLegacy(o)) = [m EXCEPT !["providers"] = [x EXCEPT !["gemini"] = z]]
    BY <1>4, <1>5, <1>6, <1>7, <1>8, <1>9
  <2> HIDE DEF x, y, z, m
  <2>2. WithoutLegacy(m) = DeepMerge(b, WithoutLegacy(o))
    BY <2>1
  <2>3. QED
    BY <2>2 DEF m

\* The new place is always taken in settings merged onto the defaults.
LEMMA CurrentOfMerged ==
  ASSUME NEW b, NEW o, Stock(b), IsTree(o), "llm_prompt" \in DOMAIN o => IsDict(o["llm_prompt"])
  PROVE  HasCurrent(DeepMerge(b, o))
<1> DEFINE m == DeepMerge(b, o)
           l == "llm_prompt"
<1>1. IsTree(b) /\ HasSection(b, l) /\ IsTree(b[l]) /\ "compression" \in DOMAIN b[l]
  BY SectionsOfTrees DEF Stock, HasCurrent
<1>2. CASE l \notin DOMAIN o
  <2>1. l \in DOMAIN m /\ m[l] = b[l]
    BY <1>1, <1>2, MergedSection
  <2>2. QED
    BY <1>1, <2>1 DEF HasCurrent, HasSection
<1>3. CASE HasSection(o, l)
  <2>1. l \in DOMAIN m /\ m[l] = DeepMerge(b[l], o[l]) /\ IsTree(o[l])
    BY <1>1, <1>3, MergedSection, SectionsOfTrees
  <2>2. IsTree(m[l]) /\ DOMAIN m[l] = DOMAIN b[l] \cup DOMAIN o[l]
    <3> DEFINE c == b[l]
               r == o[l]
    <3>1. IsTree(c) /\ IsTree(r) /\ m[l] = DeepMerge(c, r)
      BY <1>1, <2>1
    <3> HIDE DEF c, r, m
    <3>2. IsTree(DeepMerge(c, r)) /\ DOMAIN DeepMerge(c, r) = DOMAIN c \cup DOMAIN r
      BY <3>1, MergeIsOverlay, NamesMerged
    <3>3. QED
      BY <3>1, <3>2 DEF c, r
  <2>3. QED
    BY <1>1, <2>1, <2>2 DEF HasCurrent, HasSection, IsTree
<1>4. QED
  BY <1>2, <1>3 DEF HasSection

-----------------------------------------------------------------------------
\* The defaults

\* A dictionary of trees that are nested less deep.
LEMMA NestedDict ==
  ASSUME NEW t, IsDict(t), NEW d \in 1..MaxNesting,
         \A k \in DOMAIN t : \E e \in 0..(d - 1) : Nested(t[k], e)
  PROVE  Nested(t, d)
<1> DEFINE c == d - 1
<1>1. c \in 0..(MaxNesting - 1) /\ c + 1 = d /\ c \in 0..MaxNesting
      /\ \A e \in 0..c : e \in 0..MaxNesting /\ e <= c
  BY NestingUnits
<1>2. \A k \in DOMAIN t : \E e \in 0..c : Nested(t[k], e)
  OBVIOUS
<1> HIDE DEF c
<1>3. \A k \in DOMAIN t : Nested(t[k], c)
  BY <1>1, <1>2, NestedGrows
<1>4. QED
  BY <1>1, <1>3, NestedFromTheRoot

\* Values are no dictionaries.
LEMMA LeavesAreFlat ==
  ASSUME NEW v
  PROVE  ~IsDict(Leaf(v)) /\ Nested(Leaf(v), 0) /\ ~IsDict(Choice(v)) /\ Nested(Choice(v), 0)
<1>1. ~IsDict(Leaf(v)) /\ ~IsDict(Choice(v))
  BY DEF Leaf, Choice, IsDict
<1>2. QED
  BY <1>1, FlatIsALeaf

LEMMA DictOfLeaves ==
  ASSUME NEW t, IsDict(t), \A k \in DOMAIN t : ~IsDict(t[k])
  PROVE  Nested(t, 1)
<1> DEFINE one == 1
           none == 0
<1>1. one \in 1..MaxNesting /\ none \in 0..(one - 1)
  BY NestingUnits
<1>2. \A k \in DOMAIN t : Nested(t[k], none)
  BY FlatIsALeaf
<1> HIDE DEF one, none
<1>3. Nested(t, one)
  BY <1>1, <1>2, NestedDict
<1>4. QED
  BY <1>3 DEF one

LEMMA OnIsFlat == IsDict(On) /\ Nested(On, 1) /\ DOMAIN On = {"enabled"}
<1>1. DOMAIN On = {"enabled"} /\ On["enabled"] = Leaf(TRUE)
  BY DEF On
<1>2. IsDict(On)
  BY <1>1 DEF IsDict
<1>3. QED
  BY <1>1, <1>2, DictOfLeaves, LeavesAreFlat

LEMMA SourcesAreNested ==
  ASSUME NEW S, "leaf" \notin S
  PROVE  IsDict(OnWithSources(S)) /\ Nested(OnWithSources(S), 3)
<1> DEFINE t == [s \in S |-> On]
           u == [enabled |-> Leaf(TRUE), sources |-> t]
<1>1. DOMAIN t = S /\ \A k \in S : t[k] = On
  OBVIOUS
<1> HIDE DEF t
<1>2. IsDict(t)
  BY <1>1 DEF IsDict
<1>3. Nested(t, 2)
  <2>1. 2 \in 1..MaxNesting /\ 1 \in 0..(2 - 1)
    BY NestingUnits
  <2>2. \A k \in DOMAIN t : Nested(t[k], 1)
    BY <1>1, OnIsFlat
  <2>3. \A k \in DOMAIN t : \E e \in 0..(2 - 1) : Nested(t[k], e)
    BY <2>1, <2>2
  <2>4. QED
    BY <1>2, <2>1, <2>3, NestedDict
<1>4. DOMAIN u = {"enabled", "sources"} /\ u["enabled"] = Leaf(TRUE) /\ u["sources"] = t
  OBVIOUS
<1> HIDE DEF u
<1>5. IsDict(u)
  BY <1>4 DEF IsDict
<1>6. Nested(u, 3)
  <2>1. 3 \in 1..MaxNesting /\ 2 \in 0..(3 - 1) /\ 0 \in 0..(3 - 1)
    BY NestingUnits
  <2>2. Nested(u["enabled"], 0) /\ Nested(u["sources"], 2)
    BY <1>3, <1>4, LeavesAreFlat
  <2>3. \A k \in DOMAIN u : \E e \in 0..(3 - 1) : Nested(u[k], e)
    BY <1>4, <2>1, <2>2
  <2>4. QED
    BY <1>5, <2>1, <2>3, NestedDict
<1>7. QED
  BY <1>5, <1>6 DEF OnWithSources, u, t

LEMMA KeysAreFlat ==
  ASSUME NEW p \in DOMAIN Keyed, NEW env
  PROVE  IsDict(OnWithKeys(p, env)) /\ Nested(OnWithKeys(p, env), 1)
<1> DEFINE t == OnWithKeys(p, env)
<1>1. DOMAIN t = {"enabled"} \cup Keyed[p] /\ \A k \in DOMAIN t : \E v : t[k] = Leaf(v)
  BY DEF OnWithKeys
<1>2. "leaf" \notin Keyed[p]
  BY DEF Keyed, FredKeys, AlphaVantageKeys, GroqKeys, GeminiKeys, NvidiaKeys, MassiveKeys, SchwabKeys
<1> HIDE DEF t
<1>3. IsDict(t)
  BY <1>1, <1>2 DEF IsDict
<1>4. Nested(t, 1)
  BY <1>1, <1>3, DictOfLeaves, LeavesAreFlat
<1>5. QED
  BY <1>3, <1>4 DEF t

\* The defaults are a tree with every section that is needed and nothing at the deprecated
\* place, whatever keys the environment has.
LEMMA DefaultsAreStock ==
  ASSUME NEW env
  PROVE  Stock(Defaults(env)) /\ HasSection(Defaults(env), "cache")
<1> DEFINE D == Defaults(env)
           P == D["providers"]
           C == [enabled |-> Leaf(TRUE), endpoint_url |-> Leaf(FALSE)]
           L == [compression |-> C]
           H == [cache_type |-> Choice("memory")]
<1>1. /\ DOMAIN D = {"providers", "llm_prompt", "health", "cache"}
      /\ D["llm_prompt"] = L /\ D["health"] = On /\ D["cache"] = H
  BY DEF Defaults
<1>2. /\ DOMAIN P = DOMAIN Keyed \cup {"yahoo", "tradingview", "sentiment", "screener"}
      /\ \A p \in DOMAIN P : P[p] =
           CASE p \in DOMAIN Keyed -> OnWithKeys(p, env)
             [] p = "sentiment"    -> OnWithSources(SentimentSources)
             [] p = "screener"     -> OnWithSources(ScreenerSources)
             [] OTHER              -> On
  BY DEF Defaults
<1>3. DOMAIN C = {"enabled", "endpoint_url"} /\ C["enabled"] = Leaf(TRUE) /\ C["endpoint_url"] = Leaf(FALSE)
      /\ DOMAIN L = {"compression"} /\ L["compression"] = C
      /\ DOMAIN H = {"cache_type"} /\ H["cache_type"] = Choice("memory")
  OBVIOUS
<1> HIDE DEF D, C, L, H
<1>4. IsDict(C) /\ IsDict(L) /\ IsDict(H)
  BY <1>3 DEF IsDict
<1>5. Nested(C, 1) /\ Nested(H, 1)
  BY <1>3, <1>4, DictOfLeaves, LeavesAreFlat
<1>6. Nested(L, 2)
  <2>1. 2 \in 1..MaxNesting /\ 1 \in 0..(2 - 1)
    BY NestingUnits
  <2>2. QED
    BY <1>3, <1>4, <1>5, <2>1, NestedDict
<1>7. DOMAIN Keyed = {"fred", "alpha_vantage", "groq", "gemini", "nvidia", "massive", "schwab"}
  BY DEF Keyed
<1>8. IsDict(P)
  <2> HIDE DEF P
  <2>1. QED
    BY <1>2, <1>7 DEF IsDict
<1>9. Nested(P, 4)
  <2> HIDE DEF P
  <2>1. 4 \in 1..MaxNesting /\ 1 \in 0..(4 - 1) /\ 3 \in 0..(4 - 1)
    BY NestingUnits
  <2>2. "leaf" \notin SentimentSources /\ "leaf" \notin ScreenerSources
    BY DEF SentimentSources, ScreenerSources
  <2>3. ASSUME NEW p \in DOMAIN P PROVE \E e \in 0..(4 - 1) : Nested(P[p], e)
    <3>1. CASE p \in DOMAIN Keyed
      <4>1. P[p] = OnWithKeys(p, env)
        BY <1>2, <1>7, <3>1
      <4>2. Nested(P[p], 1)
        BY <3>1, <4>1, KeysAreFlat
      <4>3. QED
        BY <2>1, <4>2
    <3>2. CASE p \notin DOMAIN Keyed
      <4>1. P[p] = OnWithSources(SentimentSources) \/ P[p] = OnWithSources(ScreenerSources) \/ P[p] = On
        BY <1>2, <1>7, <3>2
      <4>2. QED
        BY <2>1, <2>2, <4>1, SourcesAreNested, OnIsFlat
    <3>3. QED
      BY <3>1, <3>2
  <2>4. QED
    BY <1>8, <2>1, <2>3, NestedDict
<1>10. IsDict(D)
  BY <1>1 DEF IsDict
<1>11. Nested(D, 5)
  <2>1. 5 \in 1..MaxNesting /\ 1 \in 0..(5 - 1) /\ 2 \in 0..(5 - 1) /\ 4 \in 0..(5 - 1)
    BY NestingUnits
  <2>2. \A k \in DOMAIN D : \E e \in 0..(5 - 1) : Nested(D[k], e)
    BY <1>1, <1>5, <1>6, <1>9, <2>1, OnIsFlat
  <2>3. QED
    BY <1>10, <2>1, <2>2, NestedDict
<1>12. IsTree(D)
  <2>1. 5 \in 0..MaxNesting /\ MaxNesting \in 0..MaxNesting /\ 5 <= MaxNesting
    BY NestingUnits
  <2>2. QED
    BY <1>10, <1>11, <2>1, NestedGrows DEF IsTree
<1>13. HasSection(P, "gemini") /\ "prompt_compression" \notin DOMAIN P["gemini"]
  <2>1. "gemini" \in DOMAIN P /\ P["gemini"] = OnWithKeys("gemini", env)
    <3> HIDE DEF P
    <3>1. QED
      BY <1>2, <1>7
  <2>2. DOMAIN OnWithKeys("gemini", env) = {"enabled", "api_key"}
    BY DEF OnWithKeys, Keyed, GeminiKeys
  <2> HIDE DEF P
  <2>3. QED
    BY <1>7, <2>1, <2>2, KeysAreFlat DEF HasSection
<1>14. QED
  BY <1>1, <1>3, <1>4, <1>8, <1>12, <1>13 DEF Stock, HasSection, HasCurrent, D

-----------------------------------------------------------------------------
\* What is loaded

Placed(t) == IF HasLegacy(t) THEN WithoutLegacy(t) ELSE t

Kept(t, backend) == IF backend = "" THEN t ELSE Without(t, {"cache"})

SourceOf(s) ==
  IF s.given # NoFile THEN Migrated(s.given)
  ELSE IF s.explicit # NoFile THEN WithLocal(s.explicit, s.local)
  ELSE IF Discovered(s.places) # NoFile THEN Discovered(s.places) ELSE Defaults(s.env)

\* Settings are trees, and not the sign for no file.
LEMMA SettingsAreTree ==
  ASSUME NEW t, IsSettings(t)
  PROVE  IsTree(t) /\ ("llm_prompt" \in DOMAIN t => IsDict(t["llm_prompt"])) /\ t # NoFile
BY LeavesAreFlat DEF IsSettings, IsTree, NoFile

\* A settings file that is found is one that is there.
LEMMA DiscoveredIsRead ==
  ASSUME NEW places, DOMAIN places \subseteq Nat,
         \A i \in DOMAIN places : places[i] = NoFile \/ IsSettings(places[i])
  PROVE  Discovered(places) = NoFile \/ IsSettings(Discovered(places))
<1> DEFINE found == {i \in DOMAIN places : places[i] # NoFile}
<1>1. CASE found = {}
  BY <1>1 DEF Discovered
<1>2. CASE found # {}
  <2> DEFINE first == CHOOSE i \in found : \A j \in found : i <= j
  <2>1. found \subseteq Nat
    OBVIOUS
  <2>2. Discovered(places) = places[first]
    BY <1>2 DEF Discovered
  <2>3. first \in found
    <3> HIDE DEF found
    <3>1. \E i \in found : \A j \in found : i <= j
      BY <1>2, <2>1, LeastOfNaturals
    <3>2. QED
      BY <3>1
  <2> HIDE DEF first
  <2>4. QED
    BY <2>2, <2>3
<1>3. QED
  BY <1>1, <1>2

\* A machine's own settings over a file are settings.
LEMMA LocalIsSettings ==
  ASSUME NEW file, NEW local, IsSettings(file), IsSettings(local)
  PROVE  IsSettings(DeepMerge(file, local))
<1> DEFINE m == DeepMerge(file, local)
           l == "llm_prompt"
<1>1. /\ IsTree(file) /\ IsTree(local)
      /\ l \in DOMAIN file => IsDict(file[l])
      /\ l \in DOMAIN local => IsDict(local[l])
  BY SettingsAreTree
<1>2. IsTree(m)
  BY <1>1, MergeIsOverlay
<1>3. l \in DOMAIN m => IsDict(m[l])
  <2>1. CASE HasSection(file, l) /\ HasSection(local, l)
    <3>1. m[l] = DeepMerge(file[l], local[l]) /\ IsTree(file[l]) /\ IsTree(local[l])
      BY <1>1, <2>1, MergedSection, SectionsOfTrees
    <3> DEFINE x == file[l]
               y == local[l]
    <3>2. m[l] = DeepMerge(x, y) /\ IsTree(x) /\ IsTree(y)
      BY <3>1
    <3> HIDE DEF x, y
    <3>3. IsTree(DeepMerge(x, y))
      BY <3>2, MergeIsOverlay
    <3>4. QED
      BY <3>2, <3>3 DEF IsTree
  <2>2. CASE ~(l \in DOMAIN file /\ l \in DOMAIN local)
    <3>1. /\ DOMAIN m = DOMAIN file \cup DOMAIN local
          /\ \A k \in DOMAIN file \cup DOMAIN local : m[k] =
               IF k \notin DOMAIN local THEN file[k]
               ELSE IF k \in DOMAIN file /\ IsDict(file[k]) /\ IsDict(local[k])
                    THEN DeepMerge(file[k], local[k])
               ELSE local[k]
      BY <1>1, NamesMerged
    <3> HIDE DEF m, l
    <3>2. QED
      BY <1>1, <2>2, <3>1
  <2>3. QED
    BY <1>1, <2>1, <2>2 DEF HasSection
<1>4. QED
  BY <1>2, <1>3 DEF IsSettings, IsTree

\* Without the deprecated place a tree is a tree.
LEMMA PlacedIsTree ==
  ASSUME NEW t, IsTree(t)
  PROVE  IsTree(Placed(t))
BY LegacyIsTakenOut DEF Placed

\* A file: what is at the deprecated place is dropped, for the new one is taken.
LEMMA FileComposes ==
  ASSUME NEW b, Stock(b), NEW file, IsSettings(file)
  PROVE  Migrated(DeepMerge(b, file)) = DeepMerge(b, Placed(file))
<1>1. IsTree(file) /\ HasCurrent(DeepMerge(b, file))
  BY SettingsAreTree, CurrentOfMerged
<1>2. HasLegacy(DeepMerge(b, file)) <=> HasLegacy(file)
  BY <1>1, LegacyOfMerged
<1>3. CASE HasLegacy(file)
  <2>1. Migrated(DeepMerge(b, file)) = WithoutLegacy(DeepMerge(b, file))
    BY <1>1, <1>2, <1>3 DEF Migrated
  <2>2. QED
    BY <1>1, <1>3, <2>1, LegacyDropped DEF Placed
<1>4. CASE ~HasLegacy(file)
  BY <1>2, <1>4 DEF Migrated, Placed
<1>5. QED
  BY <1>3, <1>4

\* A dictionary: it is moved before it is merged, and not again.
LEMMA MigratedIsPlaced ==
  ASSUME NEW t, IsTree(t)
  PROVE  /\ IsTree(Migrated(t)) /\ ~HasLegacy(Migrated(t))
         /\ HasLegacy(t) /\ ~HasCurrent(t) =>
              IsOverlay(Migrated(t), WithoutLegacy(t), AtNewPlace(t))
<1>1. CASE ~HasLegacy(t)
  BY <1>1 DEF Migrated
<1>2. CASE HasLegacy(t) /\ HasCurrent(t)
  BY <1>2, LegacyIsTakenOut DEF Migrated
<1>3. CASE HasLegacy(t) /\ ~HasCurrent(t)
  <2> DEFINE w == WithoutLegacy(t)
             a == AtNewPlace(t)
             m == DeepMerge(w, a)
  <2>1. IsTree(w) /\ ~HasLegacy(w) /\ IsTree(a)
    BY <1>3, LegacyIsTakenOut, NewPlaceIsATree
  <2>2. DOMAIN a = {"llm_prompt"}
    BY DEF AtNewPlace
  <2>3. Migrated(t) = m
    BY <1>3 DEF Migrated
  <2> HIDE DEF w, a
  <2>4. IsTree(m) /\ IsOverlay(m, w, a)
    BY <2>1, MergeIsOverlay
  <2>5. "providers" \in DOMAIN m => "providers" \in DOMAIN w /\ m["providers"] = w["providers"]
    <3>1. /\ DOMAIN m = DOMAIN w \cup DOMAIN a
          /\ \A k \in DOMAIN w \cup DOMAIN a : m[k] =
               IF k \notin DOMAIN a THEN w[k]
               ELSE IF k \in DOMAIN w /\ IsDict(w[k]) /\ IsDict(a[k]) THEN DeepMerge(w[k], a[k])
               ELSE a[k]
      BY <2>1, NamesMerged
    <3> HIDE DEF m
    <3>2. QED
      BY <2>2, <3>1
  <2> HIDE DEF m
  <2>6. ~HasLegacy(m)
    BY <2>1, <2>5 DEF HasLegacy, HasSection
  <2>7. QED
    BY <2>3, <2>4, <2>6 DEF w, a
<1>4. QED
  BY <1>1, <1>2, <1>3

LEMMA DictComposes ==
  ASSUME NEW b, Stock(b), NEW t, IsTree(t)
  PROVE  Migrated(DeepMerge(b, Migrated(t))) = DeepMerge(b, Placed(Migrated(t)))
<1>1. IsTree(Migrated(t)) /\ ~HasLegacy(Migrated(t))
  BY MigratedIsPlaced
<1>2. ~HasLegacy(DeepMerge(b, Migrated(t)))
  BY <1>1, LegacyOfMerged
<1> DEFINE m == DeepMerge(b, Migrated(t))
           u == Migrated(t)
<1>3. Placed(u) = u
  BY <1>1 DEF Placed
<1>4. Migrated(m) = m
  BY ONLY <1>2 DEF Migrated
<1>5. QED
  BY <1>3, <1>4

\* Two levels are within the bound.
LEMMA SmallDepths ==
  /\ 2 \in 1..MaxNesting /\ 1 \in 0..(2 - 1) /\ MaxNesting \in 0..MaxNesting
  /\ 1 \in 0..MaxNesting /\ 1 <= MaxNesting
  /\ 2 \in 0..MaxNesting /\ 2 <= MaxNesting
BY NestingUnits

\* The environment has a say in the cache's type and in nothing else.
LEMMA BackendOverrides ==
  ASSUME NEW t, IsTree(t), NEW backend, backend # ""
  PROVE  /\ Without(DeepMerge(t, [cache |-> [cache_type |-> Choice(backend)]]), {"cache"})
              = Without(t, {"cache"})
         /\ DeepMerge(t, [cache |-> [cache_type |-> Choice(backend)]])["cache"]["cache_type"]
              = Choice(backend)
<1> DEFINE H == [cache_type |-> Choice(backend)]
           C == [cache |-> H]
           m == DeepMerge(t, C)
<1>1. DOMAIN H = {"cache_type"} /\ H["cache_type"] = Choice(backend)
      /\ DOMAIN C = {"cache"} /\ C["cache"] = H
  OBVIOUS
<1> HIDE DEF H, C
<1>2. IsDict(H) /\ IsDict(C)
  BY <1>1 DEF IsDict
<1>3. Nested(H, 1)
  BY <1>1, <1>2, DictOfLeaves, LeavesAreFlat
<1>4. IsTree(C) /\ IsTree(H)
  <2>1. Nested(C, 2)
    BY <1>1, <1>2, <1>3, SmallDepths, NestedDict
  <2>2. QED
    BY <1>2, <1>3, <2>1, SmallDepths, NestedGrows DEF IsTree
<1>5. /\ DOMAIN m = DOMAIN t \cup DOMAIN C
      /\ \A k \in DOMAIN t \cup DOMAIN C : m[k] =
           IF k \notin DOMAIN C THEN t[k]
           ELSE IF k \in DOMAIN t /\ IsDict(t[k]) /\ IsDict(C[k]) THEN DeepMerge(t[k], C[k])
           ELSE C[k]
  BY <1>4, NamesMerged
<1> HIDE DEF m
<1>6. Without(m, {"cache"}) = Without(t, {"cache"})
  <2>1. DOMAIN m \ {"cache"} = DOMAIN t \ {"cache"}
    BY <1>1, <1>5
  <2>2. \A k \in DOMAIN t \ {"cache"} : m[k] = t[k]
    BY <1>1, <1>5
  <2>3. QED
    BY <2>1, <2>2 DEF Without
<1>7. m["cache"]["cache_type"] = Choice(backend)
  <2>1. CASE HasSection(t, "cache")
    <3> DEFINE c == t["cache"]
               x == DeepMerge(c, H)
    <3>1. IsTree(c)
      BY <2>1, SectionsOfTrees
    <3>2. m["cache"] = x
      BY <1>1, <1>2, <1>5, <2>1 DEF HasSection
    <3> HIDE DEF c
    <3>3. /\ DOMAIN x = DOMAIN c \cup DOMAIN H
          /\ \A k \in DOMAIN c \cup DOMAIN H : x[k] =
               IF k \notin DOMAIN H THEN c[k]
               ELSE IF k \in DOMAIN c /\ IsDict(c[k]) /\ IsDict(H[k]) THEN DeepMerge(c[k], H[k])
               ELSE H[k]
      BY <1>4, <3>1, NamesMerged
    <3> HIDE DEF x
    <3>4. x["cache_type"] = Choice(backend)
      <4>1. ~IsDict(H["cache_type"])
        BY <1>1, LeavesAreFlat
      <4>2. QED
        BY <1>1, <3>3, <4>1
    <3>5. QED
      BY <3>2, <3>4
  <2>2. CASE ~HasSection(t, "cache")
    <3>1. m["cache"] = H
      BY <1>1, <1>5, <2>2 DEF HasSection
    <3>2. QED
      BY <1>1, <3>1
  <2>3. QED
    BY <2>1, <2>2
<1>8. QED
  BY <1>6, <1>7 DEF m, C, H

\* Settings merged onto the defaults, then what the environment says.
LEMMA OverlayKept ==
  ASSUME NEW b, NEW o, IsTree(b), IsTree(o), NEW backend
  PROVE  IsOverlay(Kept(DeepMerge(b, o), backend), Kept(b, backend), Kept(o, backend))
<1>1. CASE backend = ""
  BY <1>1, MergeIsOverlay DEF Kept
<1>2. CASE backend # ""
  <2> DEFINE x == Without(b, {"cache"})
             y == Without(o, {"cache"})
  <2>1. IsTree(x) /\ IsTree(y)
    BY WithoutIsTree
  <2>2. Without(DeepMerge(b, o), {"cache"}) = DeepMerge(x, y)
    BY MergeWithout
  <2>3. Kept(DeepMerge(b, o), backend) = DeepMerge(x, y) /\ Kept(b, backend) = x /\ Kept(o, backend) = y
    BY <1>2, <2>2 DEF Kept
  <2> HIDE DEF x, y
  <2>4. IsOverlay(DeepMerge(x, y), x, y)
    BY <2>1, MergeIsOverlay
  <2>5. QED
    BY <2>3, <2>4
<1>3. QED
  BY <1>1, <1>2

\* Every source a set-up names holds settings.
LEMMA SetupsAreRead ==
  ASSUME NEW s \in Setups
  PROVE  /\ s.given # NoFile => IsSettings(s.given)
         /\ s.explicit # NoFile => IsSettings(s.explicit)
         /\ s.local # NoFile => s.given = NoFile /\ s.explicit # NoFile /\ IsSettings(s.local)
         /\ Discovered(s.places) # NoFile => IsSettings(Discovered(s.places))
<1>1. \A file \in {s.given, s.explicit, s.local} : file = NoFile \/ IsSettings(file)
  BY SettingsAreTrees
<1>2. s.local # NoFile => s.given = NoFile /\ s.explicit # NoFile
  BY SettingsAreTrees
<1>3. Discovered(s.places) = NoFile \/ IsSettings(Discovered(s.places))
  BY SettingsAreTrees, DiscoveredIsRead
<1>4. QED
  BY <1>1, <1>2, <1>3

\* Whatever the source, what is loaded is the source laid over the defaults, with nothing
\* at the deprecated place, and the environment over both.
LEMMA LoadedByParts ==
  ASSUME NEW s \in Setups
  PROVE  \E m : /\ LoadedSettings(s) =
                     IF s.backend = "" THEN m
                     ELSE DeepMerge(m, [cache |-> [cache_type |-> Choice(s.backend)]])
                /\ IsTree(m)
                /\ IsOverlay(Kept(m, s.backend), Kept(Defaults(s.env), s.backend),
                             Kept(Placed(SourceOf(s)), s.backend))
<1> DEFINE D == Defaults(s.env)
           E(m) == IF s.backend = "" THEN m
                   ELSE DeepMerge(m, [cache |-> [cache_type |-> Choice(s.backend)]])
           found == Discovered(s.places)
<1>1. Stock(D) /\ IsTree(D)
  BY DefaultsAreStock DEF Stock
<1>2. \A t : EnvOverrides(t, s.backend) = E(Migrated(t))
  BY DEF EnvOverrides
<1>3. ASSUME NEW t, IsTree(t)
      PROVE  /\ IsTree(DeepMerge(D, t))
             /\ IsOverlay(Kept(DeepMerge(D, t), s.backend), Kept(D, s.backend), Kept(t, s.backend))
  <2> HIDE DEF D
  <2>1. QED
    BY <1>1, <1>3, MergeIsOverlay, OverlayKept
<1> DEFINE good(m, source) ==
             /\ LoadedSettings(s) = E(m) /\ IsTree(m)
             /\ IsOverlay(Kept(m, s.backend), Kept(D, s.backend), Kept(Placed(source), s.backend))
<1>4. ASSUME NEW file, IsSettings(file), LoadedSettings(s) = FromFile(file, D, s.backend)
      PROVE  good(DeepMerge(D, Placed(file)), file)
  <2> HIDE DEF D, E
  <2>1. IsTree(Placed(file))
    BY <1>4, SettingsAreTree, PlacedIsTree
  <2>2. LoadedSettings(s) = E(Migrated(DeepMerge(D, file)))
    BY <1>2, <1>4 DEF FromFile
  <2>3. Migrated(DeepMerge(D, file)) = DeepMerge(D, Placed(file))
    BY <1>1, <1>4, FileComposes
  <2>4. QED
    BY <1>3, <2>1, <2>2, <2>3
<1>5. CASE s.given # NoFile
  <2> DEFINE g == Migrated(s.given)
  <2>1. IsTree(s.given)
    BY <1>5, SetupsAreRead, SettingsAreTree
  <2>2. IsTree(g) /\ IsTree(Placed(g))
    BY <2>1, MigratedIsPlaced, PlacedIsTree
  <2>3. LoadedSettings(s) = E(Migrated(DeepMerge(D, g)))
    <3>1. LoadedSettings(s) = EnvOverrides(DeepMerge(D, g), s.backend)
      BY <1>5 DEF LoadedSettings, FromDict
    <3> HIDE DEF D, E, g
    <3>2. QED
      BY <1>2, <3>1
  <2> HIDE DEF D, E
  <2>4. Migrated(DeepMerge(D, g)) = DeepMerge(D, Placed(g))
    BY <1>1, <2>1, DictComposes
  <2>5. SourceOf(s) = g
    BY <1>5 DEF SourceOf
  <2> HIDE DEF g
  <2>6. good(DeepMerge(D, Placed(g)), SourceOf(s))
    BY <1>3, <2>2, <2>3, <2>4, <2>5
  <2>7. QED
    BY <2>6 DEF D, E
<1>6. CASE s.given = NoFile /\ s.explicit # NoFile
  <2> DEFINE file == WithLocal(s.explicit, s.local)
  <2>1. IsSettings(file)
    BY <1>6, SetupsAreRead, LocalIsSettings DEF WithLocal
  <2>2. LoadedSettings(s) = FromFile(file, D, s.backend)
    BY <1>6 DEF LoadedSettings, Load, WithLocal
  <2>3. SourceOf(s) = file
    BY <1>6 DEF SourceOf
  <2> HIDE DEF file
  <2>4. good(DeepMerge(D, Placed(file)), SourceOf(s))
    BY <1>4, <2>1, <2>2, <2>3
  <2>5. QED
    BY <2>4
<1>7. CASE s.given = NoFile /\ s.explicit = NoFile /\ found # NoFile
  <2>1. IsSettings(found) /\ s.local = NoFile
    BY <1>7, SetupsAreRead
  <2>2. LoadedSettings(s) = FromFile(found, D, s.backend)
    BY <1>7, <2>1 DEF LoadedSettings, Load
  <2>3. SourceOf(s) = found
    BY <1>7 DEF SourceOf
  <2> HIDE DEF found
  <2>4. good(DeepMerge(D, Placed(found)), SourceOf(s))
    BY <1>4, <2>1, <2>2, <2>3
  <2>5. QED
    BY <2>4
<1>8. CASE s.given = NoFile /\ s.explicit = NoFile /\ found = NoFile
  <2>1. s.local = NoFile
    BY <1>8, SetupsAreRead
  <2>2. LoadedSettings(s) = EnvOverrides(D, s.backend) /\ SourceOf(s) = D
    BY <1>8, <2>1 DEF LoadedSettings, Load, FromEnv, SourceOf
  <2>3. ~HasLegacy(D)
    BY <1>1 DEF Stock, HasLegacy
  <2> HIDE DEF D
  <2>4. Migrated(D) = D /\ Placed(D) = D
    BY <2>3 DEF Migrated, Placed
  <2>5. \A t : IsOverlay(t, t, t)
    BY DEF IsOverlay
  <2>6. LoadedSettings(s) = E(D)
    <3> HIDE DEF E
    <3>1. QED
      BY <1>2, <2>2, <2>4
  <2>7. good(D, SourceOf(s))
    <3> HIDE DEF E
    <3>1. QED
      BY <1>1, <2>2, <2>4, <2>5, <2>6
  <2>8. QED
    BY <2>7 DEF D
<1>9. QED
  BY <1>5, <1>6, <1>7, <1>8

\* What SettingsCompose says of settings c loaded for the set-up s.
Composed(s, c) ==
  /\ IsOverlay(Kept(c, s.backend), Kept(Defaults(s.env), s.backend),
               Kept(Placed(SourceOf(s)), s.backend))
  /\ s.given # NoFile /\ HasLegacy(s.given) /\ ~HasCurrent(s.given) =>
       IsOverlay(SourceOf(s), WithoutLegacy(s.given), AtNewPlace(s.given))
  /\ s.local # NoFile => IsOverlay(SourceOf(s), s.explicit, s.local)
  /\ s.backend # "" => c.cache.cache_type = Choice(s.backend)

\* What is loaded for a set-up composes as SettingsCompose says.
LEMMA LoadedIsComposed ==
  ASSUME NEW s \in Setups
  PROVE  Composed(s, LoadedSettings(s))
<1> DEFINE c == LoadedSettings(s)
<1>1. PICK m : /\ c = IF s.backend = "" THEN m
                     ELSE DeepMerge(m, [cache |-> [cache_type |-> Choice(s.backend)]])
               /\ IsTree(m)
               /\ IsOverlay(Kept(m, s.backend), Kept(Defaults(s.env), s.backend),
                            Kept(Placed(SourceOf(s)), s.backend))
  BY LoadedByParts
<1> HIDE DEF c
<1>2. Kept(c, s.backend) = Kept(m, s.backend)
  <2>1. CASE s.backend = ""
    BY <1>1, <2>1
  <2>2. CASE s.backend # ""
    BY <1>1, <2>2, BackendOverrides DEF Kept
  <2>3. QED
    BY <2>1, <2>2
<1>3. s.backend # "" => c["cache"]["cache_type"] = Choice(s.backend)
  BY <1>1, BackendOverrides
<1>4. s.given # NoFile /\ HasLegacy(s.given) /\ ~HasCurrent(s.given) =>
        IsOverlay(SourceOf(s), WithoutLegacy(s.given), AtNewPlace(s.given))
  BY SetupsAreRead, SettingsAreTree, MigratedIsPlaced DEF SourceOf
<1>5. s.local # NoFile => IsOverlay(SourceOf(s), s.explicit, s.local)
  <2>1. SUFFICES ASSUME s.local # NoFile PROVE IsOverlay(SourceOf(s), s.explicit, s.local)
    OBVIOUS
  <2>2. s.given = NoFile /\ s.explicit # NoFile /\ IsTree(s.explicit) /\ IsTree(s.local)
    BY <2>1, SetupsAreRead, SettingsAreTree
  <2>3. SourceOf(s) = DeepMerge(s.explicit, s.local)
    BY <2>1, <2>2 DEF SourceOf, WithLocal
  <2>4. QED
    BY <2>2, <2>3, MergeIsOverlay
<1>6. QED
  BY <1>1, <1>2, <1>3, <1>4, <1>5 DEF Composed, c

SettingsLoaded == setup \in Setups /\ (phase = "building" => config = LoadedSettings(setup))

\* Only LoadSettings changes the settings.
LEMMA LoadedKeeps ==
  SettingsLoaded /\ [Next]_vars => SettingsLoaded'
<1> SUFFICES ASSUME SettingsLoaded, [Next]_vars PROVE SettingsLoaded'
  OBVIOUS
<1>1. CASE LoadSettings
  BY <1>1 DEF SettingsLoaded, LoadSettings
<1>2. CASE FailToBuild \/ BuildClient \/ Report \/ Close
  BY <1>2 DEF SettingsLoaded, FailToBuild, BuildClient, Report, Close
<1>3. ASSUME NEW k \in ProbeKeys, ProbeStep(k) PROVE SettingsLoaded'
  <2>1. UNCHANGED <<setup, phase, config>>
    BY <1>3 DEF ProbeStep, PostChunk, Ask, Conclude
  <2>2. QED
    BY <2>1 DEF SettingsLoaded
<1>4. CASE UNCHANGED vars
  BY <1>4 DEF SettingsLoaded, vars
<1>5. QED
  BY <1>1, <1>2, <1>3, <1>4 DEF Next

\* Whatever the files, the settings that are given and the environment say: what is loaded
\* is the chosen source laid over the defaults, the deprecated place moved or dropped, and
\* the environment over both.  (config.py, load, from_file, from_dict, apply_env_overrides.)
THEOREM SettingsAreComposed == Spec => []SettingsCompose
<1>1. Init => SettingsLoaded
  BY DEF Init, SettingsLoaded
<1>2. SettingsLoaded => SettingsCompose
  <2>1. SUFFICES ASSUME setup \in Setups, phase = "building", config = LoadedSettings(setup)
                 PROVE  SettingsCompose
    BY DEF SettingsLoaded, SettingsCompose
  <2>2. Composed(setup, config)
    BY <2>1, LoadedIsComposed
  <2>3. QED
    BY <2>2 DEF Composed, SettingsCompose, SourceOf, Placed, Kept, Without
<1>3. QED
  BY <1>1, <1>2, LoadedKeeps, PTL DEF Spec

=============================================================================
