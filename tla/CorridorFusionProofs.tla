-------------------------- MODULE CorridorFusionProofs -------------------------
(***************************************************************************)
(* What fusion and the plan compiler promise, for any reports, objectives  *)
(* and mitigation actions, and what the threat, supply and certification   *)
(* engines promise, for any scale of readings.  The engines add up values  *)
(* over finite sets and sequences, so the proofs rest on lemmas about such *)
(* sums.                                                                   *)
(***************************************************************************)
EXTENDS CorridorFusion, FiniteSetTheorems, WellFoundedInduction, TLAPS

-----------------------------------------------------------------------------
(* The policy about sources.                                               *)

LiveAssertions == {"live_capacity", "live_availability", "cyber_health", "insurance_access"}

\* The registry: only the operator's telemetry may assert a live state.
LEMMA OnlyOperatorIsLive ==
    ASSUME NEW s \in DOMAIN SOURCES, NEW x \in SOURCES[s].allowed, x \in LiveAssertions
    PROVE  s = "operator-telemetry"
BY DEF SOURCES, SourceIds, Public, Context, LiveAssertions

\* The policy: a live metric needs an assertion about a live state.
LEMMA LiveMetricsNeedLive ==
    ASSUME NEW m \in LiveMetrics
    PROVE  METRIC_ASSERTIONS[m] \subseteq LiveAssertions
BY DEF LiveMetrics, METRIC_ASSERTIONS, LiveAssertions

\* validate_observation_source before assess: no live state is ever scored on the word of
\* another source than the operator's telemetry, whatever is reported or relayed.
THEOREM LiveClaimsAlwaysAuthenticated == Spec => []LiveClaimsAuthenticated
<1>1. LiveClaimsAuthenticated
  <2> SUFFICES ASSUME Accepted(feed, clock), NEW o \in Scored(feed, clock), o.metric \in LiveMetrics
               PROVE  o.source = "operator-telemetry"
    BY DEF LiveClaimsAuthenticated
  <2>1. Admissible(o)
    BY DEF Accepted, Scored
  <2>2. /\ o.source \in DOMAIN SOURCES /\ o.assertion \in SOURCES[o.source].allowed
        /\ o.assertion \in METRIC_ASSERTIONS[o.metric]
    BY <2>1 DEF Admissible
  <2> QED
    BY <2>2, OnlyOperatorIsLive, LiveMetricsNeedLive
<1> QED
  BY <1>1, PTL

-----------------------------------------------------------------------------
(* Sums.                                                                   *)

\* A set of numbers that is not empty has a least element: induction as the provers
\* can use it.
LEMMA LeastNumber ==
    ASSUME NEW T, T \subseteq Nat, T # {}
    PROVE  \E x \in T : \A y \in T : x <= y
<1> DEFINE less == {ss \in Nat \X Nat : ss[1] < ss[2]}
<1>1. OpToRel(<, Nat) = less
  BY Zenon DEF OpToRel
<1>2. IsWellFoundedOn(less, Nat)
  BY <1>1, NatLessThanWellFounded, Zenon
<1>3. PICK x \in T : \A y \in T : <<y, x>> \notin less
  <2> HIDE DEF less
  <2> QED BY <1>2, WFMin
<1>4. ASSUME NEW y \in T PROVE x <= y
  <2>1. x \in Nat /\ y \in Nat
    OBVIOUS
  <2>2. <<y, x>> \in Nat \X Nat /\ <<y, x>>[1] = y /\ <<y, x>>[2] = x
    BY <2>1
  <2>3. ~(y < x)
    BY <1>3, <2>2, Zenon
  <2> QED
    BY <2>1, <2>3
<1> QED
  BY <1>4

\* The sum as the fold computes it: an element is taken out, and the rest summed.
Pick(s) == CHOOSE x \in s : TRUE
Rest(s) == s \ {Pick(s)}
SumStep(g, h) == [s \in SUBSET (DOMAIN g) |-> IF s = {} THEN 0 ELSE g[Pick(s)] + h[Rest(s)]]
Sums(g) == CHOOSE h : h = SumStep(g, h)

LEMMA SumOfIsSums ==
    ASSUME NEW g
    PROVE  SumOf(g) = Sums(g)[DOMAIN g]
BY DEF SumOf, MapThenSumSet, MapThenFoldSet, Sums, SumStep, Pick, Rest
\* What is summed here: numbers, over a finite set.
Summable(g) == IsFiniteSet(DOMAIN g) /\ \A x \in DOMAIN g : g[x] \in Nat

\* A part that is not empty has one element more than without any of them.
LEMMA OneLess ==
    ASSUME NEW S, IsFiniteSet(S), NEW s \in SUBSET S, NEW x \in s
    PROVE  /\ s \ {x} \in SUBSET S
           /\ Cardinality(s) \in Nat /\ Cardinality(s \ {x}) \in Nat
           /\ Cardinality(s) = Cardinality(s \ {x}) + 1
<1>1. IsFiniteSet(s)
  BY FS_Subset
<1>2. Cardinality(s \ {x}) = Cardinality(s) - 1 /\ IsFiniteSet(s \ {x})
  BY <1>1, FS_RemoveElement
<1>3. Cardinality(s) \in Nat /\ Cardinality(s \ {x}) \in Nat
  BY <1>1, <1>2, FS_CardinalityType
<1> QED
  BY <1>2, <1>3

LEMMA RestSmaller ==
    ASSUME NEW S, IsFiniteSet(S), NEW s \in SUBSET S, s # {}
    PROVE  /\ Pick(s) \in s /\ Rest(s) \in SUBSET S /\ Rest(s) \subseteq s
           /\ Cardinality(s) \in Nat /\ Cardinality(Rest(s)) \in Nat
           /\ Cardinality(s) = Cardinality(Rest(s)) + 1
<1>1. Pick(s) \in s
  BY DEF Pick
<1> QED
  BY <1>1, OneLess DEF Rest

\* The parts of S with at most n elements.
Small(S, n) == {s \in SUBSET S : Cardinality(s) <= n}

\* h is the sum of g on the sets with at most n elements.
SumsUpTo(g, n, h) ==
    \A s \in Small(DOMAIN g, n) : h[s] = IF s = {} THEN 0 ELSE g[Pick(s)] + h[Rest(s)]

\* There is a function that the recursion describes, so the fold is one.
LEMMA SumsExist ==
    ASSUME NEW g, Summable(g)
    PROVE  Sums(g) = SumStep(g, Sums(g))
<1> DEFINE S == DOMAIN g
           Wrong == {n \in Nat : \A h : ~SumsUpTo(g, n, h)}
<1>1. IsFiniteSet(S)
  BY DEF Summable
<1>2. Wrong = {}
  <2> SUFFICES ASSUME Wrong # {} PROVE FALSE
    OBVIOUS
  <2>1. PICK n \in Wrong : \A m \in Wrong : n <= m
    <3>1. Wrong \subseteq Nat
      OBVIOUS
    <3> HIDE DEF Wrong
    <3> QED
      BY <3>1, LeastNumber
  <2>2. n \in Nat /\ \A h : ~SumsUpTo(g, n, h)
    OBVIOUS
  <2>3. n # 0
    <3> SUFFICES ASSUME n = 0 PROVE FALSE
      OBVIOUS
    <3> DEFINE h == [s \in SUBSET S |-> 0]
    <3>1. ASSUME NEW s \in Small(S, 0) PROVE s = {}
      <4>1. IsFiniteSet(s) /\ Cardinality(s) <= 0 /\ s \in SUBSET S
        BY <1>1, FS_Subset DEF Small
      <4> QED
        BY <4>1, FS_CardinalityType, FS_EmptySet
    <3>2. SumsUpTo(g, 0, h)
      BY <3>1 DEF SumsUpTo, Small
    <3> QED
      BY <2>2, <3>2
  <2>4. PICK h : SumsUpTo(g, n - 1, h)
    <3>1. n - 1 \in Nat /\ ~(n <= n - 1)
      BY <2>2, <2>3
    <3>2. n - 1 \notin Wrong
      <4> HIDE DEF Wrong
      <4> QED
        BY <2>1, <3>1
    <3> QED
      BY <3>1, <3>2
  <2> DEFINE value(s) == IF s = {} THEN 0 ELSE g[Pick(s)] + h[Rest(s)]
             more == [s \in SUBSET S |-> IF s \in Small(S, n - 1) THEN h[s] ELSE value(s)]
  <2>5. ASSUME NEW s \in Small(S, n)
        PROVE  more[s] = IF s = {} THEN 0 ELSE g[Pick(s)] + more[Rest(s)]
    <3>1. s \in SUBSET S /\ Cardinality(s) <= n
      BY DEF Small
    <3>2. s # {} => Rest(s) \in Small(S, n - 1)
      <4> SUFFICES ASSUME s # {} PROVE Rest(s) \in Small(S, n - 1)
        OBVIOUS
      <4>1. /\ Rest(s) \in SUBSET S /\ Cardinality(Rest(s)) \in Nat
            /\ Cardinality(s) = Cardinality(Rest(s)) + 1
        BY <1>1, <3>1, RestSmaller
      <4>2. Cardinality(Rest(s)) <= n - 1
        BY <2>2, <3>1, <4>1
      <4> QED
        BY <4>1, <4>2 DEF Small
    <3>3. s # {} => more[Rest(s)] = h[Rest(s)]
      BY <3>2 DEF Small
    <3>4. more[s] = value(s)
      <4>1. CASE s \in Small(S, n - 1)
        <5>1. h[s] = value(s)
          BY <2>4, <4>1 DEF SumsUpTo
        <5> QED
          BY <3>1, <4>1, <5>1
      <4>2. CASE s \notin Small(S, n - 1)
        BY <3>1, <4>2
      <4> QED
        BY <4>1, <4>2
    <3> HIDE DEF more
    <3> QED
      BY <3>3, <3>4
  <2>6. SumsUpTo(g, n, more)
    <3> HIDE DEF more
    <3> QED
      BY <2>5 DEF SumsUpTo
  <2> QED
    BY <2>2, <2>6
<1>3. Cardinality(S) \in Nat
  BY <1>1, FS_CardinalityType
<1>4. PICK h : SumsUpTo(g, Cardinality(S), h)
  BY <1>2, <1>3
<1>5. \A s \in SUBSET S : s \in Small(S, Cardinality(S))
  BY <1>1, FS_Subset DEF Small
<1> DEFINE f == [s \in SUBSET S |-> h[s]]
<1>6. f = SumStep(g, f)
  <2>1. ASSUME NEW s \in SUBSET S PROVE f[s] = IF s = {} THEN 0 ELSE g[Pick(s)] + f[Rest(s)]
    <3>1. h[s] = IF s = {} THEN 0 ELSE g[Pick(s)] + h[Rest(s)]
      BY <1>4, <1>5 DEF SumsUpTo
    <3>2. f[s] = h[s] /\ (f[Rest(s)] = h[Rest(s)])
      BY DEF Rest
    <3> QED
      BY <3>1, <3>2
  <2> QED
    BY <2>1 DEF SumStep
<1> QED
  <2> HIDE DEF f
  <2> QED
    BY <1>6 DEF Sums
\* Induction on the parts of a finite set: of any parts that there are, one is smallest.
LEMMA SmallestPart ==
    ASSUME NEW S, IsFiniteSet(S), NEW B, B \subseteq SUBSET S, B # {}
    PROVE  \E s \in B : \A x \in s : s \ {x} \notin B
<1> DEFINE sizes == {Cardinality(s) : s \in B}
<1>1. \A s \in B : Cardinality(s) \in Nat
  BY FS_Subset, FS_CardinalityType
<1>2. sizes \subseteq Nat /\ sizes # {}
  BY <1>1
<1>3. PICK n \in sizes : \A m \in sizes : n <= m
  <2> HIDE DEF sizes
  <2> QED BY <1>2, LeastNumber
<1>4. PICK s \in B : n = Cardinality(s)
  OBVIOUS
<1>5. ASSUME NEW x \in s, s \ {x} \in B PROVE FALSE
  <2>1. Cardinality(s \ {x}) \in Nat /\ Cardinality(s) = Cardinality(s \ {x}) + 1
    BY OneLess
  <2>2. Cardinality(s \ {x}) \in sizes
    BY <1>5
  <2>3. Cardinality(s) <= Cardinality(s \ {x})
    BY <1>3, <1>4, <2>2
  <2> QED
    BY <2>1, <2>3
<1> QED
  BY <1>5

\* A part's sum, opened up once.
LEMMA SumsUnfold ==
    ASSUME NEW g, Summable(g), NEW s \in SUBSET DOMAIN g
    PROVE  Sums(g)[s] = IF s = {} THEN 0 ELSE g[Pick(s)] + Sums(g)[Rest(s)]
<1> DEFINE h == Sums(g)
<1>1. h = SumStep(g, h)
  BY SumsExist
<1> HIDE DEF h
<1>2. h[s] = IF s = {} THEN 0 ELSE g[Pick(s)] + h[Rest(s)]
  BY <1>1 DEF SumStep
<1> QED
  BY <1>2 DEF h

\* A sum of numbers is one.
LEMMA SumsNat ==
    ASSUME NEW g, Summable(g)
    PROVE  \A s \in SUBSET DOMAIN g : Sums(g)[s] \in Nat
<1> DEFINE S == DOMAIN g
           B == {s \in SUBSET S : Sums(g)[s] \notin Nat}
<1> SUFFICES ASSUME B # {} PROVE FALSE
  OBVIOUS
<1>1. IsFiniteSet(S)
  BY DEF Summable
<1>2. PICK s \in B : \A x \in s : s \ {x} \notin B
  <2>1. B \subseteq SUBSET S
    OBVIOUS
  <2> HIDE DEF B
  <2> QED BY <1>1, <2>1, SmallestPart
<1>3. s # {}
  BY SumsUnfold
<1>4. Pick(s) \in s /\ Rest(s) \in SUBSET S /\ Rest(s) \notin B
  BY <1>1, <1>2, <1>3, RestSmaller DEF Rest
<1>5. Sums(g)[Rest(s)] \in Nat /\ g[Pick(s)] \in Nat
  BY <1>4 DEF Summable
<1> QED
  BY <1>3, <1>5, SumsUnfold

\* Whichever element is taken out, the rest is summed.
LEMMA SumsTake ==
    ASSUME NEW g, Summable(g)
    PROVE  \A s \in SUBSET DOMAIN g : \A x \in s : Sums(g)[s] = g[x] + Sums(g)[s \ {x}]
<1> DEFINE S == DOMAIN g
           B == {s \in SUBSET S : \E x \in s : Sums(g)[s] # g[x] + Sums(g)[s \ {x}]}
<1> SUFFICES ASSUME B # {} PROVE FALSE
  OBVIOUS
<1>1. IsFiniteSet(S)
  BY DEF Summable
<1>2. PICK s \in B : \A x \in s : s \ {x} \notin B
  <2>1. B \subseteq SUBSET S
    OBVIOUS
  <2> HIDE DEF B
  <2> QED BY <1>1, <2>1, SmallestPart
<1>3. PICK x \in s : Sums(g)[s] # g[x] + Sums(g)[s \ {x}]
  OBVIOUS
<1> DEFINE p == Pick(s)
           rest == (s \ {p}) \ {x}
<1>4. p \in s /\ Sums(g)[s] = g[p] + Sums(g)[s \ {p}]
  BY <1>1, <1>3, RestSmaller, SumsUnfold DEF Rest
<1>5. p # x
  BY <1>3, <1>4
<1>6. Sums(g)[s \ {p}] = g[x] + Sums(g)[rest]
  <2>1. s \ {p} \in SUBSET S /\ s \ {p} \notin B /\ x \in s \ {p}
    BY <1>2, <1>4, <1>5
  <2> HIDE DEF p
  <2> QED BY <2>1
<1>7. Sums(g)[s \ {x}] = g[p] + Sums(g)[rest]
  <2>1. s \ {x} \in SUBSET S /\ s \ {x} \notin B /\ p \in s \ {x}
    BY <1>2, <1>4, <1>5
  <2>2. (s \ {x}) \ {p} = rest
    OBVIOUS
  <2> HIDE DEF p, rest
  <2> QED BY <2>1, <2>2
<1>8. g[x] \in Nat /\ g[p] \in Nat /\ Sums(g)[rest] \in Nat
  <2>1. rest \in SUBSET S /\ p \in S /\ x \in S
    BY <1>4
  <2> HIDE DEF p, rest
  <2> QED BY <2>1, SumsNat DEF Summable
<1> HIDE DEF p, rest
<1> QED
  BY <1>3, <1>4, <1>6, <1>7, <1>8

\* Functions that agree on a part have the same sum there.
LEMMA SumsAgree ==
    ASSUME NEW g, Summable(g), NEW h, Summable(h),
           NEW S, S \subseteq DOMAIN g, S \subseteq DOMAIN h, \A x \in S : g[x] = h[x]
    PROVE  \A s \in SUBSET S : Sums(g)[s] = Sums(h)[s]
<1> DEFINE B == {s \in SUBSET S : Sums(g)[s] # Sums(h)[s]}
<1> SUFFICES ASSUME B # {} PROVE FALSE
  OBVIOUS
<1>1. IsFiniteSet(S)
  BY FS_Subset DEF Summable
<1>2. PICK s \in B : \A x \in s : s \ {x} \notin B
  <2>1. B \subseteq SUBSET S
    OBVIOUS
  <2> HIDE DEF B
  <2> QED BY <1>1, <2>1, SmallestPart
<1>3. s \in SUBSET DOMAIN g /\ s \in SUBSET DOMAIN h
  OBVIOUS
<1>4. s # {}
  BY <1>3, SumsUnfold
<1>5. Pick(s) \in s /\ Rest(s) \in SUBSET S /\ Rest(s) \notin B
  BY <1>1, <1>2, <1>4, RestSmaller DEF Rest
<1>6. Sums(g)[Rest(s)] = Sums(h)[Rest(s)] /\ g[Pick(s)] = h[Pick(s)]
  BY <1>5
<1>7. Sums(g)[s] = g[Pick(s)] + Sums(g)[Rest(s)] /\ Sums(h)[s] = h[Pick(s)] + Sums(h)[Rest(s)]
  BY <1>3, <1>4, SumsUnfold
<1> QED
  BY <1>6, <1>7

\* Bounds add up: term by term below k times another sum plus c.
LEMMA SumsBelow ==
    ASSUME NEW g, Summable(g), NEW h, Summable(h), DOMAIN g = DOMAIN h,
           NEW k \in Nat, NEW c \in Nat, \A x \in DOMAIN g : g[x] <= k * h[x] + c
    PROVE  \A s \in SUBSET DOMAIN g : Sums(g)[s] <= k * Sums(h)[s] + c * Cardinality(s)
<1> DEFINE S == DOMAIN g
           B == {s \in SUBSET S : ~(Sums(g)[s] <= k * Sums(h)[s] + c * Cardinality(s))}
<1> SUFFICES ASSUME B # {} PROVE FALSE
  OBVIOUS
<1>1. IsFiniteSet(S)
  BY DEF Summable
<1>2. PICK s \in B : \A x \in s : s \ {x} \notin B
  <2>1. B \subseteq SUBSET S
    OBVIOUS
  <2> HIDE DEF B
  <2> QED BY <1>1, <2>1, SmallestPart
<1>3. s # {}
  <2> SUFFICES ASSUME s = {} PROVE FALSE
    OBVIOUS
  <2>1. Sums(g)[s] = 0 /\ Sums(h)[s] = 0 /\ Cardinality(s) = 0
    BY SumsUnfold, FS_EmptySet
  <2> QED
    BY <2>1
<1> DEFINE p == Pick(s)
           r == Rest(s)
           n == Cardinality(r)
           G == Sums(g)[r]
           H == Sums(h)[r]
<1>4. p \in s /\ r \in SUBSET S /\ r \notin B /\ n \in Nat /\ Cardinality(s) = n + 1
  BY <1>1, <1>2, <1>3, RestSmaller DEF Rest
<1>5. Sums(g)[s] = g[p] + G /\ Sums(h)[s] = h[p] + H
  BY <1>3, SumsUnfold
<1>6. G \in Nat /\ H \in Nat /\ g[p] \in Nat /\ h[p] \in Nat
  <2>1. p \in DOMAIN g /\ p \in DOMAIN h /\ r \in SUBSET DOMAIN g /\ r \in SUBSET DOMAIN h
    BY <1>4
  <2> HIDE DEF p, r, B
  <2> QED BY <2>1, SumsNat DEF Summable
<1>7. G <= k * H + c * n /\ g[p] <= k * h[p] + c
  <2> HIDE DEF p, r
  <2> QED BY <1>4
<1>8. k * (h[p] + H) + c * (n + 1) = (k * h[p] + c) + (k * H + c * n)
  <2> HIDE DEF p, H, n
  <2> QED BY <1>4, <1>6
<1>9. k * h[p] \in Nat /\ k * H \in Nat /\ c * n \in Nat
  <2> HIDE DEF p, H, n
  <2> QED BY <1>4, <1>6
<1>10. g[p] + G <= k * (h[p] + H) + c * (n + 1)
  <2> DEFINE a == k * h[p]  b == k * H  d == c * n
  <2>1. G <= b + d /\ g[p] <= a + c /\ a \in Nat /\ b \in Nat /\ d \in Nat
    BY <1>7, <1>9
  <2> HIDE DEF a, b, d, p, G
  <2>2. g[p] + G <= (a + c) + (b + d)
    BY <1>6, <2>1
  <2> QED
    BY <1>8, <2>2 DEF a, b, d
<1> QED
  BY <1>4, <1>5, <1>10
\* The sum of a whole function is a number, and no term is above it.
LEMMA SumOfNat ==
    ASSUME NEW g, Summable(g)
    PROVE  SumOf(g) \in Nat /\ \A x \in DOMAIN g : g[x] <= SumOf(g)
<1>1. SumOf(g) = Sums(g)[DOMAIN g] /\ SumOf(g) \in Nat
  BY SumOfIsSums, SumsNat
<1>2. ASSUME NEW x \in DOMAIN g PROVE g[x] <= SumOf(g)
  <2> DEFINE t == Sums(g)[DOMAIN g \ {x}]
  <2>1. SumOf(g) = g[x] + t
    <3>1. DOMAIN g \in SUBSET DOMAIN g
      OBVIOUS
    <3>2. Sums(g)[DOMAIN g] = g[x] + Sums(g)[DOMAIN g \ {x}]
      BY <3>1, SumsTake, Zenon
    <3> QED
      BY <1>1, <3>2
  <2>2. t \in Nat /\ g[x] \in Nat
    BY SumsNat DEF Summable
  <2> HIDE DEF t
  <2> QED
    BY <2>1, <2>2
<1> QED
  BY <1>1, <1>2

\* Bounds on the terms bound the sum.
LEMMA SumOfBelow ==
    ASSUME NEW g, Summable(g), NEW h, Summable(h), DOMAIN g = DOMAIN h,
           NEW k \in Nat, NEW c \in Nat, \A x \in DOMAIN g : g[x] <= k * h[x] + c
    PROVE  SumOf(g) <= k * SumOf(h) + c * Cardinality(DOMAIN g)
BY SumsBelow, SumOfIsSums

-----------------------------------------------------------------------------
(* Quotients.                                                              *)

\* What division leaves.
LEMMA Quotient ==
    ASSUME NEW x \in Nat, NEW w \in Nat, w > 0
    PROVE  x \div w \in Nat /\ w * (x \div w) <= x /\ x < w * (x \div w) + w
OBVIOUS

\* A quotient is below what its dividend is below.
LEMMA QuotientBelow ==
    ASSUME NEW x \in Nat, NEW w \in Nat, w > 0, NEW k \in Nat, x <= k * w
    PROVE  x \div w \in 0..k
<1> DEFINE q == x \div w
<1>1. q \in Nat /\ w * q <= x
  BY Quotient
<1> HIDE DEF q
<1>2. q <= k
  <2> SUFFICES ASSUME q >= k + 1 PROVE FALSE
    BY <1>1
  <2>1. w * q >= w * (k + 1)
    BY <1>1
  <2>2. w * (k + 1) = k * w + w
    OBVIOUS
  <2>3. w * q \in Int /\ k * w \in Int
    BY <1>1
  <2> QED
    BY <1>1, <2>1, <2>2, <2>3
<1> QED
  BY <1>1, <1>2 DEF q

\* Division by the same number keeps the order.
LEMMA QuotientMonotone ==
    ASSUME NEW x \in Nat, NEW y \in Nat, NEW w \in Nat, w > 0, x <= y
    PROVE  x \div w <= y \div w
<1> DEFINE q == x \div w
           r == y \div w
<1>1. q \in Nat /\ w * q <= x /\ r \in Nat /\ y < w * r + w
  BY Quotient
<1> HIDE DEF q, r
<1> SUFFICES ASSUME q >= r + 1 PROVE FALSE
  BY <1>1 DEF q, r
<1>2. w * q >= w * (r + 1)
  BY <1>1
<1>3. w * (r + 1) = w * r + w /\ w * r \in Int /\ w * q \in Int
  BY <1>1
<1> QED
  BY <1>1, <1>2, <1>3
-----------------------------------------------------------------------------
(* What several reductions leave.                                          *)

\* What is left of a risk as the fold computes it: of the reductions one is taken out, and
\* applied after the rest.
LeftStep(v, g, h) ==
    [s \in SUBSET (DOMAIN g) |-> IF s = {} THEN v ELSE Reduced(h[Rest(s)], g[Pick(s)])]
Left(v, g) == CHOOSE h : h = LeftStep(v, g, h)

LEMMA RemainingIsLeft ==
    ASSUME NEW v, NEW g
    PROVE  Remaining(v, g) = Left(v, g)[DOMAIN g]
BY DEF Remaining, FoldSet, MapThenFoldSet, Left, LeftStep, Pick, Rest

\* h is what is left, on the sets with at most n elements.
LeftUpTo(v, g, n, h) ==
    \A s \in Small(DOMAIN g, n) : h[s] = IF s = {} THEN v ELSE Reduced(h[Rest(s)], g[Pick(s)])

\* There is a function that the recursion describes, so the fold is one.
LEMMA LeftExists ==
    ASSUME NEW v, NEW g, IsFiniteSet(DOMAIN g)
    PROVE  Left(v, g) = LeftStep(v, g, Left(v, g))
<1> DEFINE S == DOMAIN g
           Wrong == {n \in Nat : \A h : ~LeftUpTo(v, g, n, h)}
<1>1. IsFiniteSet(S)
  OBVIOUS
<1>2. Wrong = {}
  <2> SUFFICES ASSUME Wrong # {} PROVE FALSE
    OBVIOUS
  <2>1. PICK n \in Wrong : \A m \in Wrong : n <= m
    <3>1. Wrong \subseteq Nat
      OBVIOUS
    <3> HIDE DEF Wrong
    <3> QED
      BY <3>1, LeastNumber
  <2>2. n \in Nat /\ \A h : ~LeftUpTo(v, g, n, h)
    OBVIOUS
  <2>3. n # 0
    <3> SUFFICES ASSUME n = 0 PROVE FALSE
      OBVIOUS
    <3> DEFINE h == [s \in SUBSET S |-> v]
    <3>1. ASSUME NEW s \in Small(S, 0) PROVE s = {}
      <4>1. IsFiniteSet(s) /\ Cardinality(s) <= 0 /\ s \in SUBSET S
        BY <1>1, FS_Subset DEF Small
      <4> QED
        BY <4>1, FS_CardinalityType, FS_EmptySet
    <3>2. LeftUpTo(v, g, 0, h)
      BY <3>1 DEF LeftUpTo, Small
    <3> QED
      BY <2>2, <3>2
  <2>4. PICK h : LeftUpTo(v, g, n - 1, h)
    <3>1. n - 1 \in Nat /\ ~(n <= n - 1)
      BY <2>2, <2>3
    <3>2. n - 1 \notin Wrong
      <4> HIDE DEF Wrong
      <4> QED
        BY <2>1, <3>1
    <3> QED
      BY <3>1, <3>2
  <2> DEFINE value(s) == IF s = {} THEN v ELSE Reduced(h[Rest(s)], g[Pick(s)])
             more == [s \in SUBSET S |-> IF s \in Small(S, n - 1) THEN h[s] ELSE value(s)]
  <2>5. ASSUME NEW s \in Small(S, n)
        PROVE  more[s] = IF s = {} THEN v ELSE Reduced(more[Rest(s)], g[Pick(s)])
    <3>1. s \in SUBSET S /\ Cardinality(s) <= n
      BY DEF Small
    <3>2. s # {} => Rest(s) \in Small(S, n - 1)
      <4> SUFFICES ASSUME s # {} PROVE Rest(s) \in Small(S, n - 1)
        OBVIOUS
      <4>1. /\ Rest(s) \in SUBSET S /\ Cardinality(Rest(s)) \in Nat
            /\ Cardinality(s) = Cardinality(Rest(s)) + 1
        BY <1>1, <3>1, RestSmaller
      <4>2. Cardinality(Rest(s)) <= n - 1
        BY <2>2, <3>1, <4>1
      <4> QED
        BY <4>1, <4>2 DEF Small
    <3>3. s # {} => more[Rest(s)] = h[Rest(s)]
      BY <3>2 DEF Small
    <3>4. more[s] = value(s)
      <4>1. CASE s \in Small(S, n - 1)
        <5>1. h[s] = value(s)
          BY <2>4, <4>1 DEF LeftUpTo
        <5> QED
          BY <3>1, <4>1, <5>1
      <4>2. CASE s \notin Small(S, n - 1)
        BY <3>1, <4>2
      <4> QED
        BY <4>1, <4>2
    <3> HIDE DEF more
    <3> QED
      BY <3>3, <3>4
  <2>6. LeftUpTo(v, g, n, more)
    <3> HIDE DEF more
    <3> QED
      BY <2>5 DEF LeftUpTo
  <2> QED
    BY <2>2, <2>6
<1>3. Cardinality(S) \in Nat
  BY <1>1, FS_CardinalityType
<1>4. PICK h : LeftUpTo(v, g, Cardinality(S), h)
  BY <1>2, <1>3
<1>5. \A s \in SUBSET S : s \in Small(S, Cardinality(S))
  BY <1>1, FS_Subset DEF Small
<1> DEFINE f == [s \in SUBSET S |-> h[s]]
<1>6. f = LeftStep(v, g, f)
  <2>1. ASSUME NEW s \in SUBSET S PROVE f[s] = IF s = {} THEN v ELSE Reduced(f[Rest(s)], g[Pick(s)])
    <3>1. h[s] = IF s = {} THEN v ELSE Reduced(h[Rest(s)], g[Pick(s)])
      BY <1>4, <1>5 DEF LeftUpTo
    <3>2. f[s] = h[s] /\ (f[Rest(s)] = h[Rest(s)])
      BY DEF Rest
    <3> QED
      BY <3>1, <3>2
  <2> QED
    BY <2>1 DEF LeftStep
<1> QED
  <2> HIDE DEF f
  <2> QED
    BY <1>6 DEF Left

\* A reduction takes from a risk and leaves it a number.
LEMMA ReducedBelow ==
    ASSUME NEW r \in Nat, NEW p \in 0..100
    PROVE  Reduced(r, p) \in 0..r
<1> DEFINE m == Min({95, p})
<1>1. m \in 0..95
  BY DEF Min
<1> HIDE DEF m
<1> DEFINE x == r * (100 - m)
<1>2. x \in Nat /\ x <= r * 100
  BY <1>1
<1> HIDE DEF x
<1>3. x \div 100 \in 0..r
  BY <1>2, QuotientBelow
<1> QED
  BY <1>3 DEF Reduced, m, x

\* Reductions never leave more than there was.
LEMMA RemainingBelow ==
    ASSUME NEW v \in Nat, NEW g, IsFiniteSet(DOMAIN g), \A x \in DOMAIN g : g[x] \in 0..100
    PROVE  Remaining(v, g) \in 0..v
<1> DEFINE S == DOMAIN g
           B == {s \in SUBSET S : Left(v, g)[s] \notin 0..v}
<1>1. ASSUME NEW s \in SUBSET S
      PROVE  Left(v, g)[s] = IF s = {} THEN v ELSE Reduced(Left(v, g)[Rest(s)], g[Pick(s)])
  <2> DEFINE h == Left(v, g)
  <2>1. h = LeftStep(v, g, h)
    BY LeftExists
  <2> HIDE DEF h
  <2>2. h[s] = IF s = {} THEN v ELSE Reduced(h[Rest(s)], g[Pick(s)])
    BY <2>1 DEF LeftStep
  <2> QED
    BY <2>2 DEF h
<1>2. B = {}
  <2> SUFFICES ASSUME B # {} PROVE FALSE
    OBVIOUS
  <2>1. PICK s \in B : \A x \in s : s \ {x} \notin B
    <3>1. B \subseteq SUBSET S
      OBVIOUS
    <3> HIDE DEF B
    <3> QED BY <3>1, SmallestPart
  <2>2. s # {}
    BY <1>1
  <2>3. Pick(s) \in s /\ Rest(s) \in SUBSET S /\ Rest(s) \notin B
    BY <2>1, <2>2, RestSmaller DEF Rest
  <2> DEFINE r == Left(v, g)[Rest(s)]
             p == g[Pick(s)]
  <2>4. r \in 0..v /\ p \in 0..100
    BY <2>3
  <2>5. Left(v, g)[s] = Reduced(r, p)
    BY <1>1, <2>2
  <2>6. Reduced(r, p) \in 0..v
    <3> HIDE DEF r, p
    <3>0. r \in Nat /\ r <= v
      BY <2>4
    <3>1. Reduced(r, p) \in 0..r
      BY <2>4, <3>0, ReducedBelow
    <3> QED
      BY <2>4, <3>1
  <2> QED
    BY <2>5, <2>6
<1>3. S \notin B
  BY <1>2
<1> QED
  BY <1>3, RemainingIsLeft
-----------------------------------------------------------------------------
(* The choice of the compiler.                                             *)

LEMMA MinIs ==
    ASSUME NEW S, S \subseteq Nat, S # {}
    PROVE  Min(S) \in S /\ \A y \in S : Min(S) <= y
BY LeastNumber DEF Min

\* Two tuples of ids differ first at m, and the first of them is the smaller.
SplitAt(A, B, m) ==
    /\ \A i \in Nat : i < m => (i \in A <=> i \in B)
    /\ \/ m \in A /\ m \notin B /\ \E i \in B : i > m
       \/ m \notin A /\ m \in B /\ \A i \in A : ~(i > m)

Ids(U) == {x.id : x \in U}

\* The tie-break as one position decides it.
LEMMA BeforeIsSplit ==
    ASSUME NEW S, NEW T, Ids(S) \subseteq Nat, Ids(T) \subseteq Nat
    PROVE  Before(S, T) <=> \E m \in Nat : SplitAt(Ids(S), Ids(T), m)
<1> DEFINE A == Ids(S)
           B == Ids(T)
           differ == (A \ B) \cup (B \ A)
           first == Min(differ)
<1>1. Before(S, T) <=> /\ differ # {}
                       /\ IF first \in A THEN \E i \in B : i > first
                          ELSE ~ \E i \in A : i > first
  BY DEF Before, Ids
<1>2. A \subseteq Nat /\ B \subseteq Nat /\ differ \subseteq Nat
  OBVIOUS
<1>3. differ # {} => first \in differ /\ \A y \in differ : first <= y
  <2> HIDE DEF differ
  <2> QED BY <1>2, MinIs
<1> HIDE DEF A, B, first
<1>4. ASSUME Before(S, T) PROVE SplitAt(A, B, first) /\ first \in Nat
  <2>1. first \in differ /\ \A y \in differ : first <= y
    BY <1>1, <1>3, <1>4
  <2>2. first \in Nat
    BY <1>2, <2>1
  <2>3. ASSUME NEW i \in Nat, i < first PROVE i \in A <=> i \in B
    <3>1. ~(first <= i)
      BY <2>2, <2>3
    <3>2. i \notin differ
      BY <2>1, <3>1
    <3> QED
      BY <3>2
  <2> QED
    BY <1>1, <1>4, <2>1, <2>2, <2>3 DEF SplitAt
<1>5. ASSUME NEW m \in Nat, SplitAt(A, B, m) PROVE Before(S, T)
  <2>1. m \in differ
    BY <1>5 DEF SplitAt
  <2>2. first \in differ /\ first <= m /\ first \in Nat
    BY <1>2, <1>3, <2>1
  <2>3. first = m
    <3> SUFFICES ASSUME first < m PROVE FALSE
      BY <2>2
    <3>1. first \in A <=> first \in B
      BY <1>5, <2>2 DEF SplitAt
    <3> QED
      BY <2>2, <3>1
  <2> QED
    BY <1>1, <1>5, <2>1, <2>3 DEF SplitAt
<1> QED
  BY <1>4, <1>5 DEF A, B

\* The order of the tuples: nothing comes before itself, and what comes before a
\* predecessor comes before.
LEMMA BeforeIsOrder ==
    ASSUME NEW S, NEW T, NEW U,
           Ids(S) \subseteq Nat, Ids(T) \subseteq Nat, Ids(U) \subseteq Nat
    PROVE  ~Before(S, S) /\ (Before(S, T) /\ Before(T, U) => Before(S, U))
<1> DEFINE A == Ids(S)
           B == Ids(T)
           C == Ids(U)
<1>1. ~Before(S, S)
  BY DEF Before
<1> SUFFICES ASSUME Before(S, T), Before(T, U) PROVE Before(S, U)
  BY <1>1
<1>2. PICK m \in Nat : SplitAt(A, B, m)
  BY BeforeIsSplit
<1>3. PICK n \in Nat : SplitAt(B, C, n)
  BY BeforeIsSplit
<1>4. A \subseteq Nat /\ B \subseteq Nat /\ C \subseteq Nat
  OBVIOUS
<1> SUFFICES \E k \in Nat : SplitAt(A, C, k)
  BY BeforeIsSplit
<1> HIDE DEF A, B, C
<1>5. /\ \A i \in Nat : i < m => (i \in A <=> i \in B)
      /\ \A i \in Nat : i < n => (i \in B <=> i \in C)
  BY <1>2, <1>3 DEF SplitAt
<1>6. CASE m < n
  <2>1. \A i \in Nat : i < m => (i \in A <=> i \in C)
    BY <1>5, <1>6
  <2>2. m \in B <=> m \in C
    BY <1>5, <1>6
  <2>3. CASE m \in A
    <3>1. m \notin C
      BY <1>2, <2>2, <2>3 DEF SplitAt
    <3>2. \E i \in C : i > m
      <4>1. CASE n \in C
        BY <1>6, <4>1
      <4>2. CASE n \notin C
        <5>1. PICK i \in C : i > n
          BY <1>3, <4>2 DEF SplitAt
        <5>2. i \in Nat /\ i > m
          BY <1>4, <1>6, <5>1
        <5> QED
          BY <5>2
      <4> QED
        BY <4>1, <4>2
    <3> QED
      BY <2>1, <2>3, <3>1, <3>2 DEF SplitAt
  <2>4. CASE m \notin A
    BY <1>2, <2>1, <2>2, <2>4 DEF SplitAt
  <2> QED
    BY <2>3, <2>4
<1>7. CASE n < m
  <2>1. \A i \in Nat : i < n => (i \in A <=> i \in C)
    BY <1>5, <1>7
  <2>2. n \in A <=> n \in B
    BY <1>5, <1>7
  <2>3. CASE n \in B
    BY <1>3, <2>1, <2>2, <2>3 DEF SplitAt
  <2>4. CASE n \notin B
    <3>1. n \in C /\ \A i \in B : ~(i > n)
      BY <1>3, <2>4 DEF SplitAt
    <3>2. m \notin B
      BY <1>7, <3>1
    <3>3. PICK i \in B : i > m
      BY <1>2, <3>2 DEF SplitAt
    <3>4. i \in Nat /\ i > n
      BY <1>4, <1>7, <3>3
    <3> QED
      BY <3>1, <3>3, <3>4
  <2> QED
    BY <2>3, <2>4
<1>8. CASE m = n
  <2>1. m \notin A /\ m \in B /\ (\A i \in A : ~(i > m)) /\ m \notin C /\ \E i \in C : i > m
    BY <1>2, <1>3, <1>8 DEF SplitAt
  <2> DEFINE above == {i \in C : i > m}
             k == Min(above)
  <2>2. k \in above /\ \A y \in above : k <= y
    <3>1. above \subseteq Nat /\ above # {}
      BY <1>4, <2>1
    <3> HIDE DEF above
    <3> QED BY <3>1, MinIs
  <2>3. k \in Nat /\ k > m /\ k \in C
    BY <1>4, <2>2
  <2> HIDE DEF k
  <2>4. k \notin A
    BY <2>1, <2>3
  <2>5. ASSUME NEW i \in A PROVE ~(i > k)
    <3>1. i \in Nat /\ ~(i > m)
      BY <1>4, <2>1
    <3> QED
      BY <2>3, <3>1
  <2>6. ASSUME NEW i \in Nat, i < k PROVE i \in A <=> i \in C
    <3>1. CASE i < m
      BY <1>5, <1>8, <3>1
    <3>2. CASE i = m
      BY <2>1, <3>2
    <3>3. CASE i > m
      <4>1. i \notin A
        BY <2>1, <3>3
      <4>2. i \notin C
        BY <2>2, <2>3, <2>6, <3>3
      <4> QED
        BY <4>1, <4>2
    <3> QED
      BY <3>1, <3>2, <3>3
  <2> QED
    BY <2>3, <2>4, <2>5, <2>6 DEF SplitAt
<1> QED
  BY <1>6, <1>7, <1>8

\* A candidate as the compiler compares it.
Comparable(c) == c.cost \in Nat /\ c.continuity \in Int /\ Ids(c.actions) \subseteq Nat

\* _better(): an order of the candidates, so that the incumbent only improves.
LEMMA BetterIsOrder ==
    ASSUME NEW t \in Int, NEW c, NEW d, NEW e, Comparable(c), Comparable(d), Comparable(e)
    PROVE  /\ ~Better(t, c, c)
           /\ Better(t, c, d) /\ Better(t, d, e) => Better(t, c, e)
<1>1. ~Before(c.actions, c.actions)
  BY BeforeIsOrder DEF Comparable
<1>2. Before(c.actions, d.actions) /\ Before(d.actions, e.actions) => Before(c.actions, e.actions)
  BY BeforeIsOrder DEF Comparable
<1>3. /\ c.cost \in Nat /\ d.cost \in Nat /\ e.cost \in Nat
      /\ c.continuity \in Int /\ d.continuity \in Int /\ e.continuity \in Int
  BY DEF Comparable
<1>4. ~Better(t, c, c)
  BY <1>1, <1>3 DEF Better
<1>5. ASSUME Better(t, c, d), Better(t, d, e) PROVE Better(t, c, e)
  <2>1. CASE c.continuity >= t /\ d.continuity >= t /\ e.continuity >= t
    BY <1>2, <1>3, <1>5, <2>1 DEF Better
  <2>2. CASE ~(c.continuity >= t) /\ ~(d.continuity >= t) /\ ~(e.continuity >= t)
    BY <1>2, <1>3, <1>5, <2>2 DEF Better
  <2>3. CASE c.continuity >= t /\ ~(e.continuity >= t)
    BY <2>3 DEF Better
  <2>4. c.continuity >= t \/ ~(d.continuity >= t)
    BY <1>3, <1>5 DEF Better
  <2>5. d.continuity >= t \/ ~(e.continuity >= t)
    BY <1>3, <1>5 DEF Better
  <2> QED
    BY <2>1, <2>2, <2>3, <2>4, <2>5
<1> QED
  BY <1>4, <1>5

\* Of finitely many candidates one is beaten by none.
LEMMA BestExists ==
    ASSUME NEW t \in Int, NEW C, IsFiniteSet(C), C # {}, \A c \in C : Comparable(c)
    PROVE  \E c \in C : \A d \in C : ~Better(t, d, c)
<1> DEFINE B == {X \in SUBSET C : X # {} /\ \A c \in X : \E d \in X : Better(t, d, c)}
<1> SUFFICES ASSUME B # {} PROVE FALSE
  OBVIOUS
<1>1. PICK X \in B : \A x \in X : X \ {x} \notin B
  <2>1. B \subseteq SUBSET C
    OBVIOUS
  <2> HIDE DEF B
  <2> QED BY <2>1, SmallestPart
<1>2. PICK x \in X : TRUE
  OBVIOUS
<1>3. PICK y \in X : Better(t, y, x)
  OBVIOUS
<1>4. Comparable(x) /\ Comparable(y) /\ y # x
  BY <1>3, BetterIsOrder
<1>5. PICK b \in X \ {x} : \A d \in X \ {x} : ~Better(t, d, b)
  BY <1>1, <1>4
<1>6. PICK d \in X : Better(t, d, b)
  OBVIOUS
<1>7. d = x
  BY <1>5, <1>6
<1>8. Comparable(b)
  OBVIOUS
<1>9. Better(t, y, b)
  BY <1>3, <1>4, <1>6, <1>7, <1>8, BetterIsOrder
<1> QED
  BY <1>4, <1>5, <1>9
-----------------------------------------------------------------------------
(* The assessment.                                                         *)

\* An observation as it is kept: it was constructed, and its fields are what the
\* observation model makes of them.
Fields == {"source", "trust", "assertion", "metric", "unit", "value", "confidence", "judged",
           "at", "until"}
Typed(o) == DOMAIN o = Fields /\ o.confidence \in 0..100 /\ o.at \in Int
Kept(o) == WellFormed(o) /\ Typed(o)

FactorMetrics == (DOMAIN METRIC_ASSERTIONS) \ CONTEXT_ONLY_METRICS

\* A metric that is scored has a factor with a weight, and a maximum age.
LEMMA MetricTables ==
    ASSUME NEW m \in FactorMetrics
    PROVE  /\ METRIC_TO_FACTOR[m] \in DOMAIN FACTOR_WEIGHTS
           /\ MAX_AGE[m] \in Nat
           /\ m \in RATIO_METRICS \cup {"sea_ice_concentration", "inventory_days"}
BY DEF FactorMetrics, METRIC_ASSERTIONS, CONTEXT_ONLY_METRICS, METRIC_TO_FACTOR,
       FACTOR_WEIGHTS, MAX_AGE, RATIO_METRICS, Hour, Day

LEMMA WeightsPositive ==
    ASSUME NEW f \in DOMAIN FACTOR_WEIGHTS
    PROVE  FACTOR_WEIGHTS[f] \in 1..100
BY DEF FACTOR_WEIGHTS

\* The bounds of a clamped number.
LEMMA Clamped ==
    ASSUME NEW x \in Int, NEW k \in Nat
    PROVE  /\ Min({k, x}) = (IF x < k THEN x ELSE k)
           /\ Max({0, x}) = (IF x > 0 THEN x ELSE 0)
           /\ Max({0, Min({k, x})}) \in 0..k
<1>1. Min({k, x}) = (IF x < k THEN x ELSE k)
  BY DEF Min
<1>2. \A y \in Int : Max({0, y}) = (IF y > 0 THEN y ELSE 0)
  BY DEF Max
<1>3. Min({k, x}) \in Int
  BY <1>1
<1> QED
  BY <1>1, <1>2, <1>3

\* validate_metric_value: a reading that is scored has a number as its value.
LEMMA ValueIsNumber ==
    ASSUME NEW o, Kept(o), o.metric \in FactorMetrics
    PROVE  o.value \in Nat
<1> DEFINE m == o.metric
           v == o.value
           highest == IF o.unit = "percent" THEN FullPercent ELSE 100
<1>1. m \in RATIO_METRICS \/ m = "sea_ice_concentration" \/ m = "inventory_days"
  BY MetricTables
<1>2. /\ m \in RATIO_METRICS => v \in 0..100
      /\ m = "sea_ice_concentration" => v \in 0..highest
      /\ m = "inventory_days" => v \in 0..LongestStock
  BY Zenon DEF Kept, WellFormed
<1>3. highest \in Nat /\ LongestStock \in Nat
  BY DEF FullPercent, LongestStock
<1> HIDE DEF m, highest
<1> QED
  BY <1>1, <1>2, <1>3

LEMMA WholeNat == Whole \in Nat
BY DEF Whole

LEMMA WholeIsNumber == Whole = 10000
BY DEF Whole

\* metric_risk(): a ratio.
LEMMA MetricRiskRatio ==
    ASSUME NEW o, Kept(o), o.metric \in FactorMetrics
    PROVE  MetricRisk(o) \in 0..Whole
<1>1. o.value \in Nat
  BY ValueIsNumber
<1> DEFINE percent == CASE o.metric = "sea_ice_concentration" ->
                            (IF o.value > 100 THEN o.value ELSE 100 * o.value)
                     [] o.metric \in {"wind_severity", "wave_severity",
                                      "geopolitical_pressure", "trade_dependency"} ->
                            100 * o.value
                     [] o.metric = "inventory_days" -> Whole - (o.value * 100) \div 45
                     [] OTHER -> Whole - 100 * o.value
<1>2. percent \in Int
  <2>1. CASE o.metric = "sea_ice_concentration"
    BY <1>1, <2>1
  <2>2. CASE o.metric \in {"wind_severity", "wave_severity", "geopolitical_pressure", "trade_dependency"}
    BY <1>1, <2>2
  <2>3. CASE o.metric = "inventory_days"
    <3>1. (o.value * 100) \div 45 \in Int
      BY <1>1
    <3> QED
      BY <2>3, <3>1 DEF Whole
  <2>4. CASE o.metric \notin {"sea_ice_concentration", "wind_severity", "wave_severity",
                              "geopolitical_pressure", "trade_dependency", "inventory_days"}
    BY <1>1, <2>4 DEF Whole
  <2> QED
    BY <2>1, <2>2, <2>3, <2>4
<1> HIDE DEF percent
<1>3. Max({0, Min({Whole, percent})}) \in 0..Whole
  BY <1>2, Clamped, WholeNat, Zenon
<1>4. MetricRisk(o) = Max({0, Min({Whole, percent})})
  BY Zenon DEF MetricRisk, percent
<1> QED
  BY <1>3, <1>4

\* _freshness() and the effective confidence: ratios while the observation counts.
LEMMA EffectiveRatio ==
    ASSUME NEW o, Kept(o), o.metric \in FactorMetrics, NEW now \in Int, Current(o, now)
    PROVE  Effective(o, now) \in 0..Whole
<1> DEFINE halfLife == Max({1, MAX_AGE[o.metric] \div 2})
           age == now - o.at
           steps == (4 * age) \div halfLife
<1>1. age \in Nat
  BY DEF Kept, Typed, Current
<1>2. halfLife \in Nat /\ halfLife > 0
  <2>1. MAX_AGE[o.metric] \div 2 \in Int
    BY MetricTables
  <2>2. \A y \in Int : Max({1, y}) \in Nat /\ Max({1, y}) > 0
    BY DEF Max
  <2> QED
    BY <2>1, <2>2
<1>3. steps \in Nat
  <2> HIDE DEF halfLife, age
  <2> QED BY <1>1, <1>2, Quotient
<1>4. 1 + Min({8, steps}) \in 1..9
  <2> HIDE DEF steps
  <2>1. Min({8, steps}) = (IF steps < 8 THEN steps ELSE 8)
    BY <1>3 DEF Min
  <2> QED
    BY <1>3, <2>1
<1>5. \A i \in 1..9 : Decay[i] \in Nat /\ Decay[i] <= 10000
  BY DEF Decay
<1>6. Freshness(o, now) \in Nat /\ Freshness(o, now) <= 10000
  <2>1. Decay[1 + Min({8, steps})] \in Nat /\ Decay[1 + Min({8, steps})] <= 10000
    <3> HIDE DEF steps
    <3> QED BY <1>4, <1>5
  <2>2. Freshness(o, now) = Decay[1 + Min({8, steps})]
    BY Zenon DEF Freshness
  <2> QED
    BY <2>1, <2>2
<1> DEFINE c == o.confidence
           u == Freshness(o, now)
<1>7. c \in 0..100
  BY DEF Kept, Typed
<1> HIDE DEF c, u
<1>8. u \in Nat /\ u <= 10000
  BY <1>6 DEF u
<1>9. c * u \in Nat /\ c * u <= Whole * 100
  BY <1>7, <1>8, WholeIsNumber
<1>10. (c * u) \div 100 \in 0..Whole
  <2> DEFINE x == c * u
  <2>1. x \in Nat /\ x <= Whole * 100
    BY <1>9
  <2> HIDE DEF x
  <2>2. x \div 100 \in 0..Whole
    BY <2>1, QuotientBelow, WholeNat
  <2> QED
    BY <2>2 DEF x
<1>11. Effective(o, now) = (c * u) \div 100
  BY Zenon DEF Effective, c, u
<1> QED
  BY <1>10, <1>11
\* The observations that an assessment scores.
Scorable(items, now) ==
    /\ IsFiniteSet(items)
    /\ \A o \in items : Kept(o) /\ o.metric \in FactorMetrics /\ Current(o, now)

\* The weights of a factor's readings, and what they make of their risks.
LEMMA WeightsOfReadings ==
    ASSUME NEW items, NEW now \in Int, Scorable(items, now)
    PROVE  LET weight == [o \in items |-> Effective(o, now)]
               risk == [o \in items |-> MetricRisk(o) * weight[o]]
           IN /\ Summable(weight) /\ Summable(risk)
              /\ \A o \in items : weight[o] <= Whole /\ risk[o] <= Whole * weight[o]
<1> DEFINE weight == [o \in items |-> Effective(o, now)]
           risk == [o \in items |-> MetricRisk(o) * weight[o]]
<1>1. ASSUME NEW o \in items
      PROVE  /\ weight[o] \in Nat /\ weight[o] <= Whole
             /\ risk[o] \in Nat /\ risk[o] <= Whole * weight[o]
  <2> DEFINE w == Effective(o, now)
             r == MetricRisk(o)
  <2>1. w \in 0..Whole /\ r \in 0..Whole
    BY MetricRiskRatio, EffectiveRatio DEF Scorable
  <2>2. weight[o] = w /\ risk[o] = r * w
    OBVIOUS
  <2> HIDE DEF w, r
  <2>3. w \in Nat /\ r \in Nat /\ w <= Whole /\ r <= Whole
    BY <2>1, WholeNat
  <2>4. r * w \in Nat /\ r * w <= Whole * w
    BY <2>3, WholeNat
  <2> HIDE DEF weight, risk
  <2> QED
    BY <2>2, <2>3, <2>4
<1>2. DOMAIN weight = items /\ DOMAIN risk = items /\ IsFiniteSet(items)
  BY DEF Scorable
<1> HIDE DEF weight, risk
<1>3. Summable(weight) /\ Summable(risk)
  BY <1>1, <1>2 DEF Summable
<1> QED
  BY <1>1, <1>3 DEF weight, risk

\* The risk of a factor is a ratio.
LEMMA FactorRiskRatio ==
    ASSUME NEW items, NEW now \in Int, Scorable(items, now)
    PROVE  FactorRisk(items, now) \in 0..Whole
<1> DEFINE weight == [o \in items |-> Effective(o, now)]
           risk == [o \in items |-> MetricRisk(o) * weight[o]]
           sum == SumOf(weight)
           top == SumOf(risk)
<1>1. /\ Summable(weight) /\ Summable(risk)
      /\ \A o \in items : risk[o] <= Whole * weight[o]
  BY WeightsOfReadings
<1>2. DOMAIN weight = items /\ DOMAIN risk = items
  OBVIOUS
<1>3. FactorRisk(items, now) = IF sum = 0 THEN Whole \div 2 ELSE top \div sum
  BY Zenon DEF FactorRisk
<1> HIDE DEF weight, risk
<1>4. sum \in Nat /\ top \in Nat
  BY <1>1, SumOfNat
<1>5. top <= Whole * sum
  <2> DEFINE n == Cardinality(items)
  <2>1. \A o \in DOMAIN risk : risk[o] <= Whole * weight[o] + 0
    BY <1>1, <1>2, WholeNat DEF Summable
  <2>2. top <= Whole * sum + 0 * n
    BY <1>1, <1>2, <2>1, WholeNat, SumOfBelow
  <2>3. n \in Nat
    BY <1>1, <1>2, FS_CardinalityType DEF Summable
  <2> HIDE DEF n, sum, top
  <2>4. 0 * n = 0 /\ Whole * sum \in Nat
    BY <1>4, <2>3, WholeNat
  <2> QED
    BY <2>2, <2>4
<1> HIDE DEF sum, top
<1>6. CASE sum = 0
  <2>1. Whole \div 2 \in 0..Whole
    BY WholeIsNumber
  <2> QED
    BY <1>3, <1>6, <2>1
<1>7. CASE sum # 0
  <2>1. sum > 0
    BY <1>4, <1>7
  <2>2. top \div sum \in 0..Whole
    BY <1>4, <1>5, <2>1, QuotientBelow, WholeNat
  <2> QED
    BY <1>3, <1>7, <2>2
<1> QED
  BY <1>6, <1>7

\* So is its confidence.
LEMMA FactorConfidenceRatio ==
    ASSUME NEW items, NEW now \in Int, Scorable(items, now), items # {}
    PROVE  FactorConfidence(items, now) \in 0..Whole
<1> DEFINE weight == [o \in items |-> Effective(o, now)]
           x == SumOf(weight) \div Cardinality(items)
<1>1. Summable(weight)
  BY WeightsOfReadings
<1>2. Cardinality(items) \in Nat /\ Cardinality(items) > 0
  <2>1. Cardinality(items) \in Nat /\ Cardinality(items) # 0
    BY FS_CardinalityType, FS_EmptySet DEF Scorable
  <2> QED
    BY <2>1
<1>3. SumOf(weight) \in Nat
  BY <1>1, SumOfNat
<1>4. x \in Nat
  <2> HIDE DEF weight
  <2> QED BY <1>2, <1>3, Quotient
<1>5. FactorConfidence(items, now) = Min({Whole, x})
  BY Zenon DEF FactorConfidence
<1> HIDE DEF x
<1>6. Min({Whole, x}) = (IF x < Whole THEN x ELSE Whole)
  BY <1>4, WholeNat DEF Min
<1> QED
  BY <1>4, <1>5, <1>6, WholeNat

-----------------------------------------------------------------------------
(* The weighted mean of the factors.                                       *)

\* The risks of some factors.
RiskTable(risks) ==
    /\ IsFiniteSet(DOMAIN risks) /\ DOMAIN risks # {}
    /\ DOMAIN risks \subseteq DOMAIN FACTOR_WEIGHTS
    /\ \A f \in DOMAIN risks : risks[f] \in 0..Whole

\* The sums that the mean divides.
LEMMA MeanParts ==
    ASSUME NEW risks, RiskTable(risks)
    PROVE  LET top == [f \in DOMAIN risks |-> risks[f] * FACTOR_WEIGHTS[f]]
               bottom == [f \in DOMAIN risks |-> FACTOR_WEIGHTS[f]]
           IN /\ Summable(top) /\ Summable(bottom)
              /\ SumOf(bottom) > 0 /\ SumOf(bottom) \in Nat /\ SumOf(top) \in Nat
              /\ \A f \in DOMAIN risks : top[f] <= Whole * bottom[f] + 0
<1> DEFINE top == [f \in DOMAIN risks |-> risks[f] * FACTOR_WEIGHTS[f]]
           bottom == [f \in DOMAIN risks |-> FACTOR_WEIGHTS[f]]
<1>1. ASSUME NEW f \in DOMAIN risks
      PROVE  /\ bottom[f] \in Nat /\ bottom[f] > 0
             /\ top[f] \in Nat /\ top[f] <= Whole * bottom[f] + 0
  <2> DEFINE w == FACTOR_WEIGHTS[f]
             r == risks[f]
  <2>1. w \in 1..100 /\ r \in 0..Whole
    BY WeightsPositive DEF RiskTable
  <2>2. bottom[f] = w /\ top[f] = r * w
    OBVIOUS
  <2> HIDE DEF w, r
  <2>3. w \in Nat /\ w > 0 /\ r \in Nat /\ r <= Whole
    BY <2>1, WholeNat
  <2>4. r * w \in Nat /\ r * w <= Whole * w + 0
    BY <2>3, WholeNat
  <2> HIDE DEF top, bottom
  <2> QED
    BY <2>2, <2>3, <2>4
<1>2. DOMAIN top = DOMAIN risks /\ DOMAIN bottom = DOMAIN risks
  OBVIOUS
<1> HIDE DEF top, bottom
<1>3. Summable(top) /\ Summable(bottom)
  BY <1>1, <1>2 DEF Summable, RiskTable
<1>4. SumOf(bottom) > 0 /\ SumOf(bottom) \in Nat /\ SumOf(top) \in Nat
  <2>1. PICK f \in DOMAIN bottom : bottom[f] \in Nat /\ bottom[f] > 0
    BY <1>1, <1>2 DEF RiskTable
  <2>2. SumOf(bottom) \in Nat /\ bottom[f] <= SumOf(bottom) /\ SumOf(top) \in Nat
    BY <1>3, SumOfNat
  <2> QED
    BY <2>1, <2>2
<1> QED
  BY <1>1, <1>3, <1>4 DEF top, bottom

\* The mean is a ratio.
LEMMA MeanRatio ==
    ASSUME NEW risks, RiskTable(risks)
    PROVE  WeightedMean(risks) \in 0..Whole
<1> DEFINE top == [f \in DOMAIN risks |-> risks[f] * FACTOR_WEIGHTS[f]]
           bottom == [f \in DOMAIN risks |-> FACTOR_WEIGHTS[f]]
           t == SumOf(top)
           b == SumOf(bottom)
           n == Cardinality(DOMAIN risks)
<1>1. /\ Summable(top) /\ Summable(bottom) /\ b > 0 /\ b \in Nat /\ t \in Nat
      /\ \A f \in DOMAIN risks : top[f] <= Whole * bottom[f] + 0
  BY MeanParts
<1>2. DOMAIN top = DOMAIN risks /\ DOMAIN bottom = DOMAIN risks
  OBVIOUS
<1>3. WeightedMean(risks) = t \div b
  BY Zenon DEF WeightedMean
<1> HIDE DEF top, bottom
<1>4. t <= Whole * b + 0 * n
  BY <1>1, <1>2, SumOfBelow, WholeNat
<1>5. n \in Nat
  BY FS_CardinalityType DEF RiskTable
<1> HIDE DEF t, b, n
<1>6. 0 * n = 0 /\ Whole * b \in Nat
  BY <1>1, <1>5, WholeNat
<1>7. t <= Whole * b
  BY <1>4, <1>6
<1>8. t \div b \in 0..Whole
  BY <1>1, <1>7, QuotientBelow, WholeNat
<1> QED
  BY <1>3, <1>8

\* The mean follows the risks.
LEMMA MeanMonotone ==
    ASSUME NEW risks, RiskTable(risks), NEW others, RiskTable(others),
           DOMAIN others = DOMAIN risks, \A f \in DOMAIN risks : others[f] <= risks[f]
    PROVE  WeightedMean(others) <= WeightedMean(risks)
<1> DEFINE top == [f \in DOMAIN risks |-> risks[f] * FACTOR_WEIGHTS[f]]
           less == [f \in DOMAIN others |-> others[f] * FACTOR_WEIGHTS[f]]
           bottom == [f \in DOMAIN risks |-> FACTOR_WEIGHTS[f]]
           t == SumOf(top)
           l == SumOf(less)
           b == SumOf(bottom)
           n == Cardinality(DOMAIN less)
<1>1. Summable(top) /\ b > 0 /\ b \in Nat /\ t \in Nat
  BY MeanParts
<1>2. Summable(less) /\ l \in Nat
  BY MeanParts
<1>3. WeightedMean(risks) = t \div b
  BY Zenon DEF WeightedMean
<1>4. WeightedMean(others) = l \div b
  <2>1. WeightedMean(others) = SumOf(less) \div SumOf([f \in DOMAIN others |-> FACTOR_WEIGHTS[f]])
    BY Zenon DEF WeightedMean
  <2>2. [f \in DOMAIN others |-> FACTOR_WEIGHTS[f]] = bottom
    OBVIOUS
  <2> HIDE DEF less, bottom
  <2> QED
    BY <2>1, <2>2
<1>5. ASSUME NEW f \in DOMAIN less PROVE less[f] <= 1 * top[f] + 0
  <2> DEFINE w == FACTOR_WEIGHTS[f]
             r == risks[f]
             s == others[f]
  <2>1. w \in 1..100 /\ r \in 0..Whole /\ s \in 0..Whole /\ s <= r
    BY WeightsPositive DEF RiskTable
  <2>2. less[f] = s * w /\ top[f] = r * w
    OBVIOUS
  <2> HIDE DEF w, r, s
  <2>3. w \in Nat /\ r \in Nat /\ s \in Nat
    BY <2>1, WholeNat
  <2>4. s * w \in Nat /\ r * w \in Nat /\ s * w <= r * w
    BY <2>1, <2>3
  <2> HIDE DEF less, top
  <2> QED
    BY <2>2, <2>4
<1>6. DOMAIN less = DOMAIN top
  OBVIOUS
<1> HIDE DEF top, less, bottom
<1>7. l <= 1 * t + 0 * n
  BY <1>1, <1>2, <1>5, <1>6, SumOfBelow
<1>8. n \in Nat
  BY <1>2, FS_CardinalityType DEF Summable
<1> HIDE DEF t, l, b, n
<1>9. l <= t
  BY <1>1, <1>2, <1>7, <1>8
<1>10. l \div b <= t \div b
  BY <1>1, <1>2, <1>9, QuotientMonotone
<1> QED
  BY <1>3, <1>4, <1>10
-----------------------------------------------------------------------------
(* From the observations to the assessment.                                *)

LEMMA RequiredFinite == IsFiniteSet(REQUIRED_METRICS)
<1> DEFINE A == {"sea_ice_concentration", "wind_severity", "port_availability"}
           B == {"satcom_availability", "cyber_control_health", "data_integrity"}
           C == {"insurance_availability", "escort_capacity", "inventory_days"}
<1>1. ASSUME NEW x, NEW y, NEW z PROVE IsFiniteSet({x, y, z})
  <2>1. IsFiniteSet({x}) /\ IsFiniteSet({y}) /\ IsFiniteSet({z})
    BY FS_Singleton
  <2>2. IsFiniteSet({x} \cup {y})
    BY <2>1, FS_Union
  <2>3. IsFiniteSet(({x} \cup {y}) \cup {z})
    BY <2>1, <2>2, FS_Union
  <2>4. ({x} \cup {y}) \cup {z} = {x, y, z}
    OBVIOUS
  <2> QED
    BY <2>3, <2>4
<1>2. IsFiniteSet(A) /\ IsFiniteSet(B) /\ IsFiniteSet(C)
  BY <1>1, Zenon
<1>3. REQUIRED_METRICS = (A \cup B) \cup C
  BY DEF REQUIRED_METRICS
<1> HIDE DEF A, B, C
<1>4. IsFiniteSet(A \cup B)
  BY <1>2, FS_Union
<1> QED
  BY <1>2, <1>3, <1>4, FS_Union

\* What an accepted request scores.
LEMMA ScoredIsScorable ==
    ASSUME NEW F, IsFiniteSet(F), \A o \in F : Kept(o), NEW now \in Int, Accepted(F, now)
    PROVE  Scorable(Scored(F, now), now)
<1>1. IsFiniteSet(Scored(F, now))
  BY FS_Subset DEF Scored
<1>2. ASSUME NEW o \in Scored(F, now) PROVE Kept(o) /\ o.metric \in FactorMetrics /\ Current(o, now)
  <2>1. o \in F /\ Current(o, now) /\ o.metric \notin CONTEXT_ONLY_METRICS
    BY DEF Scored
  <2>2. o.metric \in DOMAIN METRIC_ASSERTIONS
    BY <2>1, Zenon DEF Accepted, Admissible
  <2> QED
    BY <2>1, <2>2 DEF FactorMetrics
<1> QED
  BY <1>1, <1>2 DEF Scorable

\* The readings by their factors.
Factors(items) == {FactorOf(o) : o \in items}
Readings(items, f) == {o \in items : FactorOf(o) = f}
Risks(items, now) == [f \in Factors(items) |-> FactorRisk(Readings(items, f), now)]
Confidences(items, now) == [f \in Factors(items) |-> FactorConfidence(Readings(items, f), now)]

LEMMA FactorTables ==
    ASSUME NEW items, NEW now \in Int, Scorable(items, now)
    PROVE  /\ IsFiniteSet(Factors(items))
           /\ items # {} => RiskTable(Risks(items, now)) /\ Factors(items) # {}
           /\ Summable(Confidences(items, now))
           /\ \A f \in Factors(items) : Confidences(items, now)[f] <= Whole
<1>1. IsFiniteSet(Factors(items))
  <2> DEFINE g == [o \in items |-> FactorOf(o)]
  <2>1. g \in Surjection(items, Factors(items))
    BY DEF Surjection, Factors
  <2> HIDE DEF g
  <2> QED
    BY <2>1, FS_Surjection DEF Scorable
<1>2. Factors(items) \subseteq DOMAIN FACTOR_WEIGHTS
  BY MetricTables DEF Factors, FactorOf, Scorable
<1>3. ASSUME NEW f \in Factors(items)
      PROVE  Scorable(Readings(items, f), now) /\ Readings(items, f) # {}
  BY FS_Subset DEF Factors, Readings, Scorable
<1>4. \A f \in Factors(items) : FactorRisk(Readings(items, f), now) \in 0..Whole
  BY <1>3, FactorRiskRatio
<1>5. \A f \in Factors(items) : FactorConfidence(Readings(items, f), now) \in 0..Whole
  BY <1>3, FactorConfidenceRatio
<1>6. items # {} => Factors(items) # {}
  BY DEF Factors
<1>7. items # {} => RiskTable(Risks(items, now))
  BY <1>1, <1>2, <1>4, <1>6 DEF RiskTable, Risks
<1>8. ASSUME NEW f \in Factors(items)
      PROVE  Confidences(items, now)[f] \in Nat /\ Confidences(items, now)[f] <= Whole
  <2>1. Confidences(items, now)[f] \in 0..Whole
    BY <1>5 DEF Confidences
  <2> QED
    BY <2>1, WholeNat
<1>9. DOMAIN Confidences(items, now) = Factors(items)
  BY DEF Confidences
<1>10. Summable(Confidences(items, now))
  BY <1>1, <1>8, <1>9 DEF Summable
<1> QED
  BY <1>1, <1>6, <1>7, <1>8, <1>10

\* The parts of an assessment.
Base(items, now) == IF Factors(items) = {} THEN Whole \div 2 ELSE WeightedMean(Risks(items, now))
MeanConfidence(items, now) ==
    IF Factors(items) = {} THEN 0 ELSE SumOf(Confidences(items, now)) \div Cardinality(Factors(items))
Metrics(items) == {o.metric : o \in items}
Gap(items) == Min({2500, 250 * Cardinality(REQUIRED_METRICS \ Metrics(items))})
Charged(items, now) ==
    Base(items, now) + Gap(items) + (Whole - MeanConfidence(items, now)) \div 10

LEMMA AssessedParts ==
    ASSUME NEW F, NEW now
    PROVE  /\ Assess(F, now).factors = Risks(Scored(F, now), now)
           /\ Assess(F, now).risk = Min({Whole, Charged(Scored(F, now), now)})
           /\ Assess(F, now).state =
                Classify(Min({Whole, Charged(Scored(F, now), now)}), Scored(F, now))
BY DEF Assess, Base, MeanConfidence, Gap, Metrics, Charged, Risks, Confidences, Factors, Readings

\* assess(): the risk is a ratio, and never below what the factors make of it.
AssessmentOK(a) ==
    /\ a.risk \in 0..Whole
    /\ DOMAIN a.factors # {} => RiskTable(a.factors) /\ WeightedMean(a.factors) <= a.risk

\* What an assessment adds up are numbers.
LEMMA ChargesAreNumbers ==
    ASSUME NEW items, NEW now \in Int, Scorable(items, now)
    PROVE  /\ Base(items, now) \in 0..Whole /\ MeanConfidence(items, now) \in 0..Whole
           /\ Gap(items) \in Nat /\ (Whole - MeanConfidence(items, now)) \div 10 \in Nat
<1> DEFINE factors == Factors(items)
           risks == Risks(items, now)
           table == Confidences(items, now)
           base == IF factors = {} THEN Whole \div 2 ELSE WeightedMean(risks)
           mean == IF factors = {} THEN 0 ELSE SumOf(table) \div Cardinality(factors)
           missing == REQUIRED_METRICS \ Metrics(items)
           gap == Min({2500, 250 * Cardinality(missing)})
<1>2. /\ IsFiniteSet(factors) /\ Summable(table) /\ (\A f \in factors : table[f] <= Whole)
      /\ items # {} => RiskTable(risks) /\ factors # {}
  BY FactorTables
<1>3. factors # {} => RiskTable(risks)
  <2>1. factors # {} => items # {}
    BY DEF Factors
  <2> QED
    BY <1>2, <2>1
<1>4. DOMAIN table = factors
  BY DEF Confidences
<1>5. base = Base(items, now) /\ mean = MeanConfidence(items, now) /\ gap = Gap(items)
  BY Zenon DEF Base, MeanConfidence, Gap
<1> HIDE DEF factors, risks, table
<1>6. base \in 0..Whole
  <2>1. Whole \div 2 \in 0..Whole
    BY WholeIsNumber
  <2> QED
    BY <1>3, <2>1, MeanRatio
<1>7. mean \in 0..Whole
  <2>1. CASE factors = {}
    BY <2>1, WholeNat
  <2>2. CASE factors # {}
    <3> DEFINE sum == SumOf(table)
               n == Cardinality(factors)
               zero == [f \in factors |-> 0]
    <3>1. n \in Nat /\ n # 0
      BY <1>2, <2>2, FS_CardinalityType, FS_EmptySet
    <3>2. sum \in Nat
      BY <1>2, SumOfNat
    <3>3. Summable(zero) /\ DOMAIN zero = factors
      BY <1>2 DEF Summable
    <3>4. ASSUME NEW f \in factors PROVE table[f] <= 0 * zero[f] + Whole
      <4>1. zero[f] = 0 /\ table[f] \in Nat /\ table[f] <= Whole
        BY <1>2, <1>4 DEF Summable
      <4> QED
        BY <4>1, WholeNat
    <3> HIDE DEF zero
    <3>5. SumOf(zero) \in Nat
      BY <3>3, SumOfNat
    <3>6. sum <= 0 * SumOf(zero) + Whole * n
      BY <1>2, <1>4, <3>3, <3>4, SumOfBelow, WholeNat
    <3>7. mean = sum \div n
      BY <2>2
    <3> HIDE DEF sum, n
    <3>8. n > 0 /\ sum <= Whole * n
      <4>1. Whole * n \in Nat /\ 0 * SumOf(zero) = 0
        BY <3>1, <3>5, WholeNat
      <4> QED
        BY <3>1, <3>2, <3>6, <4>1
    <3>9. sum \div n \in 0..Whole
      BY <3>1, <3>2, <3>8, QuotientBelow, WholeNat
    <3> QED
      BY <3>7, <3>9
  <2> QED
    BY <2>1, <2>2
<1>8. gap \in Nat
  <2> DEFINE x == 250 * Cardinality(missing)
  <2>1. x \in Nat
    <3>1. Cardinality(missing) \in Nat
      <4>1. IsFiniteSet(missing)
        BY RequiredFinite, FS_Subset
      <4> QED
        BY <4>1, FS_CardinalityType
    <3> HIDE DEF missing
    <3> QED
      BY <3>1
  <2> HIDE DEF x
  <2>2. Min({2500, x}) \in Nat
    BY <2>1 DEF Min
  <2> QED
    BY <2>2 DEF x
<1> HIDE DEF base, mean, gap
<1>9. (Whole - mean) \div 10 \in Nat
  <2>1. Whole - mean \in Nat
    BY <1>7, WholeNat
  <2> QED
    BY <2>1
<1> QED
  BY <1>5, <1>6, <1>7, <1>8, <1>9

LEMMA AssessmentBounds ==
    ASSUME NEW F, IsFiniteSet(F), \A o \in F : Kept(o), NEW now \in Int, Accepted(F, now)
    PROVE  AssessmentOK(Assess(F, now))
<1> DEFINE items == Scored(F, now)
           factors == Factors(items)
           risks == Risks(items, now)
           base == Base(items, now)
           gap == Gap(items)
           rest == (Whole - MeanConfidence(items, now)) \div 10
           charged == Charged(items, now)
           a == Assess(F, now)
<1>1. Scorable(items, now)
  BY ScoredIsScorable
<1>2. a.risk = Min({Whole, charged}) /\ a.factors = risks
  BY AssessedParts
<1>3. charged = base + gap + rest
  BY Zenon DEF Charged
<1> HIDE DEF items
<1>4. factors # {} => RiskTable(risks) /\ base = WeightedMean(risks)
  <2>1. factors # {} => items # {}
    BY DEF Factors
  <2> QED
    BY <1>1, <2>1, FactorTables DEF Base
<1>5. DOMAIN risks = factors
  BY DEF Risks
<1>6. base \in 0..Whole /\ gap \in Nat /\ rest \in Nat
  BY <1>1, ChargesAreNumbers
<1> HIDE DEF factors, risks, a, base, gap, rest, charged
<1>7. charged \in Int /\ base <= charged /\ charged >= 0
  BY <1>3, <1>6, WholeNat
<1>8. Min({Whole, charged}) = IF charged < Whole THEN charged ELSE Whole
  BY <1>7, WholeNat DEF Min
<1>9. a.risk \in 0..Whole /\ base <= a.risk
  BY <1>2, <1>6, <1>7, <1>8, WholeNat
<1>10. AssessmentOK(a)
  BY <1>2, <1>4, <1>5, <1>9 DEF AssessmentOK
<1> QED
  BY <1>10 DEF a
-----------------------------------------------------------------------------
(* The plan.                                                               *)

\* _project_risk(): what a set of actions leaves is never more than was assessed.
LEMMA ProjectRiskBelow ==
    ASSUME NEW a, AssessmentOK(a), NEW S \in SUBSET Available
    PROVE  ProjectRisk(a, S) \in 0..a.risk
<1> DEFINE on(f) == [x \in {y \in S : f \in DOMAIN y.reductions} |-> x.reductions[f]]
           left == [f \in DOMAIN a.factors |-> Remaining(a.factors[f], on(f))]
           over == a.risk - WeightedMean(a.factors)
           projected == IF DOMAIN a.factors = {} THEN a.risk
                        ELSE Min({Whole, WeightedMean(left) + Max({0, over})})
           scaling == [x \in {y \in S : DOMAIN y.reductions = {}} |-> x.gain]
<1>1. IsFiniteSet(S)
  BY PlanningAssumption, FS_Subset
<1>2. ProjectRisk(a, S) = Remaining(projected, scaling)
  BY Zenon DEF ProjectRisk
<1>3. a.risk \in Nat /\ a.risk <= Whole
  BY WholeNat DEF AssessmentOK
<1>4. projected \in 0..a.risk
  <2>1. CASE DOMAIN a.factors = {}
    BY <1>3, <2>1
  <2>2. CASE DOMAIN a.factors # {}
    <3>1. RiskTable(a.factors) /\ WeightedMean(a.factors) <= a.risk
      BY <2>2 DEF AssessmentOK
    <3>2. ASSUME NEW f \in DOMAIN a.factors
          PROVE  left[f] \in 0..a.factors[f] /\ a.factors[f] \in 0..Whole
      <4>1. a.factors[f] \in 0..Whole
        BY <3>1 DEF RiskTable
      <4>2. a.factors[f] \in Nat
        BY <4>1, WholeNat
      <4>3. IsFiniteSet(DOMAIN on(f))
        BY <1>1, FS_Subset
      <4>4. \A x \in DOMAIN on(f) : on(f)[x] \in 0..100
        BY PlanningAssumption
      <4>5. Remaining(a.factors[f], on(f)) \in 0..a.factors[f]
        <5> HIDE DEF on
        <5> QED BY <4>2, <4>3, <4>4, RemainingBelow
      <4> QED
        BY <4>1, <4>5
    <3>3. ASSUME NEW f \in DOMAIN a.factors PROVE left[f] \in 0..Whole /\ left[f] <= a.factors[f]
      <4> DEFINE l == left[f]
                 r == a.factors[f]
      <4>1. l \in 0..r /\ r \in 0..Whole
        BY <3>2
      <4> HIDE DEF l, r
      <4>2. l \in 0..Whole /\ l <= r
        BY <4>1, WholeNat
      <4> QED
        BY <4>2 DEF l, r
    <3>4. DOMAIN left = DOMAIN a.factors
      OBVIOUS
    <3> HIDE DEF left
    <3>5. RiskTable(left)
      BY <3>1, <3>3, <3>4 DEF RiskTable
    <3>6. WeightedMean(left) <= WeightedMean(a.factors)
      BY <3>1, <3>3, <3>4, <3>5, MeanMonotone
    <3>7. WeightedMean(left) \in 0..Whole /\ WeightedMean(a.factors) \in 0..Whole
      BY <3>1, <3>5, MeanRatio
    <3> DEFINE m == WeightedMean(left)
               n == WeightedMean(a.factors)
               r == a.risk
    <3>8. projected = Min({Whole, m + Max({0, r - n})})
      BY <2>2
    <3>9. m \in Nat /\ n \in Nat /\ r \in Nat /\ m <= n /\ n <= r /\ r <= Whole
      BY <1>3, <3>1, <3>6, <3>7, WholeNat
    <3> HIDE DEF projected, m, n, r
    <3>10. Max({0, r - n}) = r - n
      BY <3>9 DEF Max
    <3>11. m + (r - n) \in 0..r
      BY <3>9
    <3>12. Min({Whole, m + (r - n)}) = m + (r - n)
      BY <3>9, <3>11, WholeNat DEF Min
    <3> QED
      BY <3>8, <3>10, <3>11, <3>12 DEF r
  <2> QED
    BY <2>1, <2>2
<1>5. IsFiniteSet(DOMAIN scaling)
  BY <1>1, FS_Subset
<1>6. \A x \in DOMAIN scaling : scaling[x] \in 0..100
  BY PlanningAssumption
<1> HIDE DEF projected, scaling
<1>7. projected \in Nat /\ projected <= a.risk
  BY <1>3, <1>4
<1>8. Remaining(projected, scaling) \in 0..projected
  BY <1>5, <1>6, <1>7, RemainingBelow
<1>9. \A x \in 0..projected : x \in 0..a.risk
  BY <1>3, <1>7
<1> QED
  BY <1>2, <1>8, <1>9

\* The cost of a set of actions is a number, of none it is nothing.
LEMMA CostNat ==
    ASSUME NEW S \in SUBSET Available
    PROVE  Cost(S) \in Nat /\ (S = {} => Cost(S) = 0)
<1> DEFINE g == [x \in S |-> x.cost]
<1>1. Summable(g) /\ DOMAIN g = S
  BY PlanningAssumption, FS_Subset DEF Summable
<1>2. Cost(S) = SumOf(g)
  BY Zenon DEF Cost
<1> HIDE DEF g
<1>3. SumOf(g) \in Nat
  BY <1>1, SumOfNat
<1>4. S = {} => SumOf(g) = 0
  BY <1>1, SumOfIsSums, SumsUnfold
<1> QED
  BY <1>2, <1>3, <1>4

\* The feasible candidates of a request.
Candidates(a, objective) ==
    {Candidate(a, S) : S \in {U \in SUBSET Available : Feasible(U, objective)}}

LEMMA CandidatesComparable ==
    ASSUME NEW a, AssessmentOK(a), NEW objective \in Objectives
    PROVE  /\ IsFiniteSet(Candidates(a, objective)) /\ Candidates(a, objective) # {}
           /\ \A c \in Candidates(a, objective) : Comparable(c)
<1> DEFINE sets == {U \in SUBSET Available : Feasible(U, objective)}
           g == [S \in sets |-> Candidate(a, S)]
<1>1. IsFiniteSet(sets)
  <2>1. IsFiniteSet(SUBSET Available)
    BY PlanningAssumption, FS_SUBSET
  <2> QED
    BY <2>1, FS_Subset
<1>2. {} \in sets
  <2>1. Cost({}) = 0 /\ objective.budget \in Nat
    BY CostNat, PlanningAssumption
  <2> QED
    BY <2>1 DEF Feasible
<1>3. Candidates(a, objective) = {Candidate(a, S) : S \in sets}
  BY Zenon DEF Candidates
<1>4. ASSUME NEW S \in sets PROVE Comparable(Candidate(a, S))
  <2>1. S \in SUBSET Available
    OBVIOUS
  <2> DEFINE r == ProjectRisk(a, S)
  <2>2. r \in Int
    BY <2>1, ProjectRiskBelow DEF AssessmentOK
  <2>3. /\ Candidate(a, S).cost = Cost(S) /\ Candidate(a, S).continuity = Whole - r
        /\ Candidate(a, S).actions = S
    BY DEF Candidate
  <2> HIDE DEF r
  <2>4. Whole - r \in Int
    BY <2>2, WholeNat
  <2>5. Ids(S) \subseteq Nat
    BY <2>1, PlanningAssumption DEF Ids
  <2> QED
    BY <2>1, <2>3, <2>4, <2>5, CostNat DEF Comparable
<1> HIDE DEF sets
<1>5. g \in Surjection(sets, Candidates(a, objective))
  BY <1>3 DEF Surjection
<1>6. IsFiniteSet(Candidates(a, objective))
  <2> HIDE DEF g
  <2> QED BY <1>1, <1>5, FS_Surjection
<1> QED
  BY <1>2, <1>3, <1>4, <1>6

\* What a compiled plan promises.
SoundPlan(p) ==
    LET c == p.compiled
        a == p.assessment
        S == c.selected
        feasible == {U \in SUBSET Available : Feasible(U, p.objective)}
    IN /\ Cost(S) <= p.objective.budget
       /\ \A x \in S : x.needs \subseteq {y.id : y \in S}
       /\ \A x, y \in S : y.id \notin x.excludes
       /\ c.risk <= a.risk
       /\ \A U \in feasible :
            LET left == Whole - ProjectRisk(a, U)
            IN IF c.met THEN left >= p.objective.target => Cost(U) >= c.cost
               ELSE left <= c.continuity
       /\ (\E x \in S : x.approval) => c.approval

\* compile(): the plan it returns keeps its promises.
LEMMA CompiledIsSound ==
    ASSUME NEW a, AssessmentOK(a), NEW o \in Objectives,
           NEW p, p = [objective |-> o, assessment |-> a, compiled |-> Compile(a, o, Available)]
    PROVE  SoundPlan(p)
<1> DEFINE C == Candidates(a, o)
           t == o.target
           best == CHOOSE c \in C : \A d \in C : ~Better(t, d, c)
           S == best.actions
           k == Compile(a, o, Available)
<1>1. t \in Int
  BY PlanningAssumption, WholeNat
<1>2. best \in C /\ \A d \in C : ~Better(t, d, best)
  <2> HIDE DEF C, t
  <2>1. \E c \in C : \A d \in C : ~Better(t, d, c)
    BY <1>1, CandidatesComparable, BestExists DEF C
  <2> QED
    BY <2>1
<1>3. k = [selected |-> best.actions, cost |-> best.cost, risk |-> best.risk,
           continuity |-> best.continuity, met |-> best.continuity >= o.target,
           approval |-> o.approval \/ \E x \in best.actions : x.approval]
  BY Zenon DEF Compile, Candidates
<1> HIDE DEF best, t
<1>4. PICK T \in SUBSET Available : best = Candidate(a, T) /\ Feasible(T, o)
  BY <1>2 DEF Candidates
<1>5. /\ best.actions = T /\ best.cost = Cost(T) /\ best.risk = ProjectRisk(a, T)
      /\ best.continuity = Whole - ProjectRisk(a, T)
  BY <1>4 DEF Candidate
<1> HIDE DEF C
<1>6. /\ k.selected = T /\ k.cost = Cost(T) /\ k.risk = ProjectRisk(a, T)
      /\ k.continuity = Whole - ProjectRisk(a, T) /\ k.met = (k.continuity >= t)
      /\ k.approval = (o.approval \/ \E x \in T : x.approval)
  BY <1>3, <1>5 DEF t
<1>7. Cost(T) <= o.budget /\ (\A x \in T : x.needs \subseteq {y.id : y \in T})
  BY <1>4 DEF Feasible
<1>8. \A x, y \in T : y.id \notin x.excludes
  BY <1>4 DEF Feasible
<1>9. k.risk <= a.risk
  <2>1. ProjectRisk(a, T) \in 0..a.risk
    BY ProjectRiskBelow
  <2> QED
    BY <1>6, <2>1 DEF AssessmentOK
<1>10. ASSUME NEW U \in SUBSET Available, Feasible(U, o)
       PROVE  LET left == Whole - ProjectRisk(a, U)
              IN IF k.met THEN left >= t => Cost(U) >= k.cost ELSE left <= k.continuity
  <2> DEFINE d == Candidate(a, U)
             left == Whole - ProjectRisk(a, U)
             kept == Whole - ProjectRisk(a, T)
  <2>1. d \in C
    BY <1>10 DEF C, Candidates
  <2>2. ~Better(t, d, best)
    BY <1>2, <2>1
  <2>3. d.cost = Cost(U) /\ d.continuity = left
    BY DEF Candidate
  <2>4. left \in Int /\ kept \in Int
    <3>1. ProjectRisk(a, U) \in 0..a.risk /\ ProjectRisk(a, T) \in 0..a.risk
      BY ProjectRiskBelow
    <3> QED
      BY <3>1, WholeNat
  <2>5. Cost(U) \in Nat /\ Cost(T) \in Nat
    BY CostNat
  <2> HIDE DEF d, left, kept
  <2>6. best.continuity = kept /\ best.cost = Cost(T)
    BY <1>5 DEF kept
  <2>7. CASE kept >= t
    <3>1. left >= t => Cost(U) >= Cost(T)
      BY <1>1, <2>2, <2>3, <2>4, <2>5, <2>6, <2>7 DEF Better
    <3>2. k.met = TRUE /\ k.cost = Cost(T)
      BY <1>6, <2>7 DEF kept
    <3> QED
      BY <3>1, <3>2 DEF left
  <2>8. CASE ~(kept >= t)
    <3>1. left <= kept
      BY <1>1, <2>2, <2>3, <2>4, <2>5, <2>6, <2>8 DEF Better
    <3>2. k.met = (k.continuity >= t) /\ k.continuity = kept
      BY <1>6 DEF kept
    <3>3. ~k.met
      BY <2>8, <3>2
    <3> QED
      BY <3>1, <3>2, <3>3 DEF left
  <2> QED
    BY <2>7, <2>8
<1>11. (\E x \in T : x.approval) => k.approval
  BY <1>6
<1>12. p.compiled = k /\ p.assessment = a /\ p.objective = o
  OBVIOUS
<1> HIDE DEF k
<1> QED
  BY <1>6, <1>7, <1>8, <1>9, <1>10, <1>11, <1>12 DEF SoundPlan, t
\* The feed of a request: finitely many observations that were constructed.
FeedInv ==
    /\ clock \in Int
    /\ IsFiniteSet(feed)
    /\ \A o \in feed : Kept(o)

\* What is given at once, and typed.
Given(observations) == IsFiniteSet(observations) /\ \A o \in observations : Typed(o)

LEMMA ReceiveKeeps ==
    ASSUME FeedInv, NEW observations, Given(observations), Receive(observations)
    PROVE  FeedInv'
<1>1. feed' = feed \cup observations /\ clock' = clock /\ \A o \in observations : WellFormed(o)
  BY DEF Receive
<1>2. IsFiniteSet(feed \cup observations)
  BY FS_Union DEF FeedInv, Given
<1> QED
  BY <1>1, <1>2 DEF FeedInv, Given, Kept

\* Reports, messages of the feeds and what the bridge makes are typed.
LEMMA ReportGiven ==
    ASSUME FeedInv, NEW t \in Reports
    PROVE  Given({Stamped(t)})
<1>1. Typed(Stamped(t))
  BY ReportAssumption DEF Typed, Fields, Stamped, FeedInv
<1> QED
  BY <1>1, FS_Singleton DEF Given

LEMMA RelayGiven ==
    ASSUME FeedInv, NEW m \in Messages
    PROVE  Given({Parse(m, clock)})
<1>1. m.feed \in {"ais", "swpc", "usgs", "scada"} /\ clock \in Int
  BY ReportAssumption DEF FeedInv
<1>2. ASSUME NEW a, NEW b, NEW c, NEW d, NEW v, NEW n \in 0..100
      PROVE  Typed(Adapted(a, b, c, d, v, n, clock))
  BY <1>1 DEF Typed, Fields, Adapted
<1>3. Typed(ParseAis(m, clock))
  <2>1. (IF m.spoofed THEN 20 ELSE 85) \in 0..100
    OBVIOUS
  <2> QED
    BY <1>2, <2>1 DEF ParseAis
<1>4. Typed(ParseSpaceWeather(m, clock))
  <2>1. (IF m.kp >= 70 THEN 95 ELSE IF m.kp >= 50 THEN 85 ELSE 90) \in 0..100
    OBVIOUS
  <2> QED
    BY <1>2, <2>1 DEF ParseSpaceWeather
<1>5. Typed(ParseEarthquake(m, clock)) /\ Typed(ParseScada(m, clock))
  BY <1>2 DEF ParseEarthquake, ParseScada
<1>6. Parse(m, clock) \in {ParseAis(m, clock), ParseSpaceWeather(m, clock),
                           ParseEarthquake(m, clock), ParseScada(m, clock)}
  BY <1>1 DEF Parse
<1>7. Typed(Parse(m, clock))
  BY <1>3, <1>4, <1>5, <1>6
<1> QED
  BY <1>7, FS_Singleton DEF Given

LEMMA BridgeGiven ==
    ASSUME FeedInv, NEW o, o = [value |-> 90, at |-> clock, until |-> clock + Day]
    PROVE  /\ Given(UavToObservations(o)) /\ Given(StarlinkToObservations(o))
           /\ Given(CuasToObservations(o))
<1>1. o.at \in Int
  BY DEF FeedInv
<1>2. ASSUME NEW a, NEW b, NEW m PROVE Typed(Tactical(a, b, m, o))
  BY <1>1 DEF Typed, Fields, Tactical
<1>3. ASSUME NEW x, NEW y, NEW z PROVE IsFiniteSet({x, y, z}) /\ IsFiniteSet({x, y})
  <2>1. IsFiniteSet({x}) /\ IsFiniteSet({y}) /\ IsFiniteSet({z})
    BY FS_Singleton
  <2>2. IsFiniteSet({x} \cup {y})
    BY <2>1, FS_Union
  <2>3. IsFiniteSet(({x} \cup {y}) \cup {z})
    BY <2>1, <2>2, FS_Union
  <2>4. {x} \cup {y} = {x, y} /\ ({x} \cup {y}) \cup {z} = {x, y, z}
    OBVIOUS
  <2> QED
    BY <2>2, <2>3, <2>4
<1>4. Given(UavToObservations(o))
  <2> DEFINE tac(m) == Tactical("tactical-uav-fleet", "tactical_surveillance", m, o)
  <2>1. UavToObservations(o) = {tac("uav_link_margin"), tac("uav_swarm_cohesion")}
    BY DEF UavToObservations
  <2>2. Typed(tac("uav_link_margin")) /\ Typed(tac("uav_swarm_cohesion"))
    BY <1>2
  <2> HIDE DEF tac
  <2> QED
    BY <1>3, <2>1, <2>2 DEF Given
<1>5. Given(StarlinkToObservations(o))
  <2> DEFINE tac(m) == Tactical("starlink-leo-network", "leo_satcom", m, o)
  <2>1. StarlinkToObservations(o) = {tac("starlink_latency_ms"), tac("starlink_downlink_mbps"),
                                     tac("starlink_obstruction_rate")}
    BY DEF StarlinkToObservations
  <2>2. /\ Typed(tac("starlink_latency_ms")) /\ Typed(tac("starlink_downlink_mbps"))
        /\ Typed(tac("starlink_obstruction_rate"))
    BY <1>2
  <2> HIDE DEF tac
  <2>3. IsFiniteSet({tac("starlink_latency_ms"), tac("starlink_downlink_mbps"),
                     tac("starlink_obstruction_rate")})
    BY <1>3, Zenon
  <2> QED
    BY <2>1, <2>2, <2>3 DEF Given
<1>6. Given(CuasToObservations(o))
  <2> DEFINE tac(m) == Tactical("cuas-air-defense-sensor", "counter_uas", m, o)
  <2>1. CuasToObservations(o) = {tac("cuas_threat_density"), tac("cuas_jamming_active")}
    BY DEF CuasToObservations
  <2>2. Typed(tac("cuas_threat_density")) /\ Typed(tac("cuas_jamming_active"))
    BY <1>2
  <2> HIDE DEF tac
  <2> QED
    BY <1>3, <2>1, <2>2 DEF Given
<1> QED
  BY <1>4, <1>5, <1>6

\* A revision is a value of its metric.
LEMMA ReviseKeeps ==
    ASSUME FeedInv, NEW o \in feed, Revise(o)
    PROVE  FeedInv'
<1>1. PICK i \in 1..(Len(Worse[o.metric]) - 1) :
          feed' = (feed \ {o}) \cup {[o EXCEPT !.value = Worse[o.metric][i + 1]]}
  BY DEF Revise
<1> DEFINE m == o.metric
           v == Worse[m][i + 1]
           w == [o EXCEPT !.value = v]
           top == IF m = "inventory_days" THEN LongestStock ELSE 100
<1>2. m \in DOMAIN Worse /\ clock' = clock
  BY DEF Revise
<1>3. v \in 0..top
  <2>1. Worse[m] \in Seq(0..top)
    BY <1>2, WorseAssumption
  <2>2. i + 1 \in 1..Len(Worse[m])
    <3>1. Len(Worse[m]) \in Nat
      BY <2>1
    <3> QED
      BY <3>1
  <2> DEFINE V == 0..top
  <2>3. Worse[m] \in Seq(V)
    BY <2>1
  <2> HIDE DEF m, V
  <2>4. Worse[m][i + 1] \in V
    BY <2>2, <2>3
  <2> QED
    BY <2>4 DEF V
<1>4. Kept(o)
  BY DEF FeedInv
<1>5. /\ w.value = v /\ w.metric = m /\ w.unit = o.unit /\ w.at = o.at /\ w.until = o.until
      /\ w.confidence = o.confidence /\ DOMAIN w = DOMAIN o
  <2>1. DOMAIN o = Fields
    BY <1>4 DEF Kept, Typed
  <2> HIDE DEF v
  <2> QED
    BY <2>1 DEF Fields
<1> HIDE DEF v, w
<1>6. Typed(w)
  BY <1>4, <1>5 DEF Kept, Typed
<1>7. WellFormed(w)
  <2>1. m # "inventory_days" => v \in 0..100
    BY <1>3
  <2>2. v \in Nat
    <3>1. top \in Nat
      BY DEF LongestStock
    <3> HIDE DEF top
    <3> QED
      BY <1>3, <3>1
  <2>3. m \in RATIO_METRICS => m # "inventory_days"
    BY DEF RATIO_METRICS
  <2>4. m = "sea_ice_concentration" =>
           v \in 0..(IF w.unit = "percent" THEN FullPercent ELSE 100)
    <3> SUFFICES ASSUME m = "sea_ice_concentration"
                 PROVE  v \in 0..(IF w.unit = "percent" THEN FullPercent ELSE 100)
      OBVIOUS
    <3>1. v \in 0..100
      BY <2>1
    <3>2. v <= FullPercent
      BY <3>1 DEF FullPercent
    <3>3. v \in 0..FullPercent
      BY <2>2, <3>2 DEF FullPercent
    <3> QED
      BY <3>1, <3>3
  <2>5. m = "inventory_days" => v \in 0..LongestStock
    BY <1>3
  <2>6. w.until >= w.at
    BY <1>4, <1>5 DEF Kept, WellFormed
  <2> HIDE DEF m
  <2> QED
    BY <1>5, <2>1, <2>2, <2>3, <2>4, <2>5, <2>6 DEF WellFormed
<1>8. IsFiniteSet(feed')
  <2>1. feed' = (feed \ {o}) \cup {w}
    BY <1>1 DEF w, v
  <2>2. IsFiniteSet(feed \ {o}) /\ IsFiniteSet({w})
    BY FS_Subset, FS_Singleton DEF FeedInv
  <2> QED
    BY <2>1, <2>2, FS_Union
<1>9. \A x \in feed' : x \in feed \/ x = w
  BY <1>1 DEF w, v
<1> QED
  BY <1>2, <1>6, <1>7, <1>8, <1>9 DEF FeedInv, Kept

\* The feed is well formed at every step.
LEMMA FeedAlwaysKept == Spec => []FeedInv
<1>1. Init => FeedInv
  BY FS_EmptySet DEF Init, FusionInit, FeedInv
<1>2. FeedInv /\ [Next]_vars => FeedInv'
  <2> SUFFICES ASSUME FeedInv, [Next]_vars PROVE FeedInv'
    OBVIOUS
  <2>1. ASSUME NEW t \in Reports, Report(t) PROVE FeedInv'
    BY <2>1, ReportGiven, ReceiveKeeps DEF Report
  <2>2. ASSUME NEW m \in Messages, Relay(m) PROVE FeedInv'
    BY <2>2, RelayGiven, ReceiveKeeps DEF Relay
  <2>3. CASE Bridge
    <3> DEFINE o == [value |-> 90, at |-> clock, until |-> clock + Day]
    <3>1. \/ Receive(UavToObservations(o)) \/ Receive(StarlinkToObservations(o))
          \/ Receive(CuasToObservations(o))
      BY <2>3 DEF Bridge
    <3> HIDE DEF o
    <3>2. /\ Given(UavToObservations(o)) /\ Given(StarlinkToObservations(o))
          /\ Given(CuasToObservations(o))
      BY BridgeGiven DEF o
    <3> QED
      BY <3>1, <3>2, ReceiveKeeps
  <2>4. ASSUME NEW o \in feed, Revise(o) PROVE FeedInv'
    BY <2>4, ReviseKeeps
  <2>5. CASE Tick
    BY <2>5, ReportAssumption DEF Tick, FeedInv
  <2>6. ASSUME NEW o \in Objectives, BuildDecisionPacket(o) PROVE FeedInv'
    BY <2>6 DEF BuildDecisionPacket, FeedInv
  <2>7. ASSUME NEW p, Sense(p) PROVE FeedInv'
    BY <2>7 DEF Sense, fusionVars, FeedInv
  <2>8. CASE UNCHANGED vars
    BY <2>8 DEF vars, fusionVars, FeedInv
  <2> QED
    BY <2>1, <2>2, <2>3, <2>4, <2>5, <2>6, <2>7, <2>8 DEF Next
<1> QED
  BY <1>1, <1>2, PTL DEF Spec

\* compile(), _evaluate, _better and _project_risk: a plan that was compiled is
\* affordable, complete and free of conflicts, leaves no more risk than was assessed, and
\* no feasible plan is better, for any actions and objectives and whatever was observed.
THEOREM PlanAlwaysSound == Spec => []PlanSound
<1>1. Init => PlanSound
  BY DEF Init, FusionInit, PlanSound
<1>2. FeedInv /\ PlanSound /\ [Next]_vars => PlanSound'
  <2> SUFFICES ASSUME FeedInv, PlanSound, [Next]_vars PROVE PlanSound'
    OBVIOUS
  <2>1. CASE plan' = plan
    BY <2>1 DEF PlanSound
  <2>2. ASSUME NEW o \in Objectives, BuildDecisionPacket(o) PROVE PlanSound'
    <3> DEFINE a == Assess(feed, clock)
    <3>1. AssessmentOK(a)
      BY <2>2, AssessmentBounds DEF BuildDecisionPacket, FeedInv
    <3>2. plan' = [objective |-> o, assessment |-> a, compiled |-> Compile(a, o, Available)]
      BY <2>2 DEF BuildDecisionPacket
    <3> HIDE DEF a
    <3>3. SoundPlan(plan')
      BY <3>1, <3>2, CompiledIsSound
    <3> QED
      BY <3>3 DEF PlanSound, SoundPlan
  <2>3. plan' = plan \/ \E o \in Objectives : BuildDecisionPacket(o)
    BY DEF Next, Report, Relay, Bridge, Receive, Revise, Tick, Sense, vars, fusionVars
  <2> QED
    BY <2>1, <2>2, <2>3
<1> QED
  BY <1>1, <1>2, FeedAlwaysKept, PTL DEF Spec
-----------------------------------------------------------------------------
(* The engines that rate a reading.                                        *)

\* A reading is along the scale of its engine.
PictureInv ==
    \/ engine = "none" /\ DOMAIN severity = {}
    \/ /\ engine \in DOMAIN Scale /\ DOMAIN severity = DOMAIN Scale[engine]
       /\ \A p \in DOMAIN severity : severity[p] \in 1..Len(Scale[engine][p])

LEMMA PictureAlwaysOnScale == Spec => []PictureInv
<1>1. Init => PictureInv
  <2> SUFFICES ASSUME PictureInit PROVE PictureInv
    BY DEF Init, PictureInv
  <2>1. engine \in DOMAIN Scale /\ severity = [p \in DOMAIN Scale[engine] |-> 1]
    BY DEF PictureInit
  <2>2. \A p \in DOMAIN Scale[engine] : 1 \in 1..Len(Scale[engine][p])
    BY <2>1, ScaleAssumption
  <2> QED
    BY <2>1, <2>2 DEF PictureInv
<1>2. PictureInv /\ [Next]_vars => PictureInv'
  <2> SUFFICES ASSUME PictureInv, [Next]_vars PROVE PictureInv'
    OBVIOUS
  <2>1. CASE UNCHANGED pictureVars
    BY <2>1 DEF pictureVars, PictureInv
  <2>2. ASSUME NEW p \in DOMAIN severity, Worsen(p) PROVE PictureInv'
    <3>0. PICK k \in 1..Len(Scale[engine][p]) :
             severity[p] < k /\ severity' = [severity EXCEPT ![p] = k]
      BY <2>2 DEF Worsen
    <3>1. severity' = [severity EXCEPT ![p] = k] /\ engine' = engine
      BY <2>2, <3>0 DEF Worsen
    <3>2. CASE engine = "none"
      BY <3>1, <3>2 DEF PictureInv
    <3>3. CASE engine # "none"
      <4>1. /\ engine \in DOMAIN Scale /\ DOMAIN severity = DOMAIN Scale[engine]
            /\ \A q \in DOMAIN severity : severity[q] \in 1..Len(Scale[engine][q])
        BY <3>3 DEF PictureInv
      <4>4. ASSUME NEW q \in DOMAIN severity' PROVE severity'[q] \in 1..Len(Scale[engine][q])
        BY <3>0, <3>1, <4>1
      <4> QED
        BY <3>1, <4>1, <4>4 DEF PictureInv
    <3> QED
      BY <3>2, <3>3
  <2>3. UNCHANGED pictureVars \/ \E p \in DOMAIN severity : Worsen(p)
    BY DEF Next, Report, Relay, Bridge, Receive, Revise, Tick, BuildDecisionPacket, Sense, vars
  <2> QED
    BY <2>1, <2>2, <2>3
<1> QED
  BY <1>1, <1>2, PTL DEF Spec

\* A part of a reading is a value of its scale.
LEMMA ReadingOnScale ==
    ASSUME PictureInv, engine # "none", NEW p \in DOMAIN Scale[engine]
    PROVE  /\ engine \in DOMAIN Scale
           /\ \E i \in 1..Len(Scale[engine][p]) : Reading(engine, severity)[p] = Scale[engine][p][i]
BY DEF PictureInv, Reading

\* run_full_scan(): the highest score decides, so a part that is critical on its own
\* shows.
LEMMA CriticalPartShows ==
    ASSUME NEW r, r.cno \in Int, r.variance \in Int, r.drift \in Int, r.untrusted \in Int,
           "CRITICAL" \in {GnssLevel(r), ScadaLevel(r), AisLevel(r)}
    PROVE  ScanLevel(r) \in {"HIGH", "CRITICAL"}
<1> DEFINE g == GnssScore(r)
           s == ScadaScore(r)
           a == AisScore(r)
<1>1. g \in Int
  <2> DEFINE drop == GnssDrop(r)
             drift == IF r.drift < 0 THEN -r.drift ELSE r.drift
             noise == Min({50, r.variance})
             shift == Min({100, drift})
             sum == (drop * 400) \div 25 + (noise * 400) \div 50 + (shift * 200) \div 100
  <2>1. drop \in Int
    <3> DEFINE below == 42 - r.cno
    <3>1. below \in Int /\ drop = Max({0, below})
      BY DEF GnssDrop
    <3> HIDE DEF below, drop
    <3> QED
      BY <3>1 DEF Max
  <2>2. noise \in Int
    BY DEF Min
  <2>3. drift \in Int
    OBVIOUS
  <2>4. shift \in Int
    <3> HIDE DEF drift
    <3> QED BY <2>3 DEF Min
  <2>5. g = Min({1000, sum})
    BY Zenon DEF GnssScore
  <2> HIDE DEF drop, noise, shift
  <2>6. sum \in Int
    BY <2>1, <2>2, <2>4
  <2> HIDE DEF sum
  <2>7. Min({1000, sum}) \in Int
    BY <2>6 DEF Min
  <2> QED
    BY <2>5, <2>7
<1>2. s \in Int
  <2> DEFINE sites == Min({5, r.untrusted})
             sum == (IF r.tampered THEN 500 ELSE 0) + (IF r.commands > 100 THEN 300 ELSE 0) + sites * 40
  <2>1. sites \in Int
    BY DEF Min
  <2>2. s = Min({1000, sum})
    BY Zenon DEF ScadaScore
  <2> HIDE DEF sites
  <2>3. sum \in Int
    BY <2>1
  <2> HIDE DEF sum
  <2>4. Min({1000, sum}) \in Int
    BY <2>3 DEF Min
  <2> QED
    BY <2>2, <2>4
<1>3. a \in Int
  BY DEF AisScore
<1>4. g >= 800 \/ s >= 700 \/ a = 950
  BY DEF GnssLevel, ScadaLevel, AisLevel, AisScore
<1>5. ScanScore(r) = Max({g, s, a})
  BY Zenon DEF ScanScore
<1> HIDE DEF g, s, a
<1>6. Max({g, s, a}) \in {g, s, a} /\ Max({g, s, a}) >= g /\ Max({g, s, a}) >= s /\ Max({g, s, a}) >= a
  BY <1>1, <1>2, <1>3 DEF Max
<1>7. ScanScore(r) >= 450
  BY <1>1, <1>2, <1>3, <1>4, <1>5, <1>6
<1> QED
  BY <1>7 DEF ScanLevel

\* The score of one detection.
Detected(x) == (IF x.distance < 500 THEN 400 ELSE IF x.distance < 2000 THEN 200 ELSE 100)
                   + Sometimes(x.spread, 250)

\* analyze_events(): the detections add up, so none is rated below on its own.
LEMMA DetectionsAddUp ==
    ASSUME NEW S, NEW events \in Seq(S), NEW k \in DOMAIN events
    PROVE  AirspaceThreat(events) >= AirspaceThreat(<<events[k]>>)
<1> DEFINE x == events[k]
           all == [i \in DOMAIN events |-> Detected(events[i])]
           one == [i \in DOMAIN <<x>> |-> Detected(<<x>>[i])]
           many == Sometimes(IsSwarm(events), 350)
           alone == Sometimes(IsSwarm(<<x>>), 350)
<1>1. \A y : Detected(y) \in Nat
  BY DEF Detected, Sometimes
<1>2. Summable(all) /\ DOMAIN all = DOMAIN events
  <2>1. IsFiniteSet(DOMAIN events)
    BY FS_Interval
  <2> QED
    BY <1>1, <2>1 DEF Summable
<1>3. SumOf(one) = Detected(x)
  <2>1. DOMAIN one = {1} /\ one[1] = Detected(x)
    OBVIOUS
  <2> HIDE DEF one
  <2>2. Summable(one)
    <3>1. IsFiniteSet({1})
      BY FS_Singleton, Zenon
    <3>2. \A i \in {1} : one[i] \in Nat
      BY <1>1, <2>1
    <3> QED
      BY <2>1, <3>1, <3>2 DEF Summable
  <2>3. Sums(one)[{1}] = one[1] + Sums(one)[{1} \ {1}]
    BY <2>1, <2>2, SumsTake
  <2>4. {1} \ {1} = {} /\ Sums(one)[{}] = 0
    BY <2>2, SumsUnfold
  <2>5. SumOf(one) = Sums(one)[{1}]
    BY <2>1, SumOfIsSums
  <2>6. Sums(one)[{1}] = Detected(x) + 0
    BY <2>1, <2>3, <2>4
  <2> HIDE DEF x
  <2>7. Detected(x) + 0 = Detected(x)
    BY <1>1
  <2> QED
    BY <2>5, <2>6, <2>7
<1>4. Detected(x) <= SumOf(all) /\ SumOf(all) \in Nat
  <2>1. all[k] = Detected(x)
    OBVIOUS
  <2> HIDE DEF all
  <2> QED
    BY <1>2, <2>1, SumOfNat
<1>5. alone <= many /\ alone \in Nat /\ many \in Nat
  <2>1. IsSwarm(<<x>>) => IsSwarm(events)
    BY DEF IsSwarm
  <2> QED
    BY <2>1 DEF Sometimes
<1>6. AirspaceThreat(events) = Min({1000, SumOf(all) + many})
  <2>1. events # << >>
    OBVIOUS
  <2> QED
    BY <2>1, Zenon DEF AirspaceThreat, Detected
<1>7. AirspaceThreat(<<x>>) = Min({1000, SumOf(one) + alone})
  <2>1. <<x>> # << >>
    OBVIOUS
  <2> QED
    BY <2>1, Zenon DEF AirspaceThreat, Detected
<1> DEFINE u == SumOf(all) + many
           v == SumOf(one) + alone
<1>8. u \in Nat /\ v \in Nat /\ v <= u
  <2> HIDE DEF all, one, many, alone
  <2>1. SumOf(one) \in Nat
    BY <1>1, <1>3
  <2> QED
    BY <1>3, <1>4, <1>5, <2>1
<1> HIDE DEF u, v
<1>9. Min({1000, u}) >= Min({1000, v})
  <2>1. Min({1000, u}) = (IF u < 1000 THEN u ELSE 1000) /\ Min({1000, v}) = (IF v < 1000 THEN v ELSE 1000)
    BY <1>8 DEF Min
  <2> QED
    BY <1>8, <2>1
<1> QED
  BY <1>6, <1>7, <1>9 DEF u, v

\* The detections that are there are listed.
LEMMA PresentIsListed ==
    ASSUME NEW r, DOMAIN r = {"first", "second", "third"}, NEW x \in Present(r)
    PROVE  \E S : Listed(r) \in Seq(S) /\ \E k \in DOMAIN Listed(r) : Listed(r)[k] = x
<1> DEFINE a == Once(r.first)
           b == Once(r.second)
           c == Once(r.third)
           S == {r.first, r.second, r.third}
<1>1. a \in Seq(S) /\ b \in Seq(S) /\ c \in Seq(S)
  <2>1. ASSUME NEW y \in S PROVE Once(y) \in Seq(S)
    <3> HIDE DEF S
    <3>1. << >> \in Seq(S) /\ <<y>> \in Seq(S)
      OBVIOUS
    <3> QED
      BY <3>1 DEF Once
  <2> QED
    BY <2>1
<1>2. x # Absent /\ (x = r.first \/ x = r.second \/ x = r.third)
  BY DEF Present
<1>3. (x = r.first => a = <<x>>) /\ (x = r.second => b = <<x>>) /\ (x = r.third => c = <<x>>)
  BY <1>2 DEF Once
<1>4. Listed(r) = (a \o b) \o c
  BY DEF Listed
<1> HIDE DEF a, b, c, S
<1> DEFINE l == (a \o b) \o c
<1> DEFINE ab == a \o b
<1>5. /\ ab \in Seq(S) /\ Len(ab) = Len(a) + Len(b)
      /\ \A i \in 1..Len(a) : ab[i] = a[i]
      /\ \A i \in 1..Len(b) : ab[Len(a) + i] = b[i]
  BY <1>1
<1> HIDE DEF ab
<1>6. l = ab \o c
  BY DEF ab
<1> HIDE DEF l
<1>7. /\ l \in Seq(S) /\ Len(l) = Len(ab) + Len(c)
      /\ \A i \in 1..Len(ab) : l[i] = ab[i]
      /\ \A i \in 1..Len(c) : l[Len(ab) + i] = c[i]
  <2>1. ab \in Seq(S) /\ c \in Seq(S)
    BY <1>1, <1>5
  <2>2. /\ ab \o c \in Seq(S) /\ Len(ab \o c) = Len(ab) + Len(c)
        /\ \A i \in 1..Len(ab) : (ab \o c)[i] = ab[i]
        /\ \A i \in 1..Len(c) : (ab \o c)[Len(ab) + i] = c[i]
    BY <2>1
  <2> QED
    BY <1>6, <2>2
<1>8. Len(a) \in Nat /\ Len(b) \in Nat /\ Len(c) \in Nat /\ DOMAIN l = 1..Len(l)
  BY <1>1, <1>7
<1>9. \E k \in 1..Len(l) : l[k] = x
  <2>1. CASE x = r.first
    <3>1. Len(a) = 1 /\ a[1] = x
      BY <1>3, <2>1
    <3>2. 1 \in 1..Len(ab) /\ 1 \in 1..Len(l)
      BY <1>5, <1>7, <1>8, <3>1
    <3>3. l[1] = x
      BY <1>5, <1>7, <3>1, <3>2
    <3> QED
      BY <3>2, <3>3
  <2>2. CASE x = r.second
    <3>1. Len(b) = 1 /\ b[1] = x
      BY <1>3, <2>2
    <3>2. Len(a) + 1 \in 1..Len(ab) /\ Len(a) + 1 \in 1..Len(l)
      BY <1>5, <1>7, <1>8, <3>1
    <3>3. l[Len(a) + 1] = x
      BY <1>5, <1>7, <3>1, <3>2
    <3> QED
      BY <3>2, <3>3
  <2>3. CASE x = r.third
    <3>1. Len(c) = 1 /\ c[1] = x
      BY <1>3, <2>3
    <3>2. Len(ab) + 1 \in 1..Len(l)
      BY <1>5, <1>7, <1>8, <3>1
    <3>3. l[Len(ab) + 1] = x
      BY <1>7, <3>1
    <3> QED
      BY <3>2, <3>3
  <2> QED
    BY <1>2, <2>1, <2>2, <2>3
<1>10. Listed(r) = l
  BY <1>4 DEF l
<1> QED
  BY <1>7, <1>8, <1>9, <1>10

\* The sum over a first part of the numbers, one more at a time.
LEMMA NextTerm ==
    ASSUME NEW g, Summable(g), NEW n \in Nat, n > 0, 1..n \subseteq DOMAIN g
    PROVE  Sums(g)[1..n] = g[n] + Sums(g)[1..(n - 1)]
<1>1. n \in 1..n /\ (1..n) \ {n} = 1..(n - 1)
  OBVIOUS
<1>2. \A u \in SUBSET DOMAIN g : \A y \in u : Sums(g)[u] = g[y] + Sums(g)[u \ {y}]
  BY SumsTake, Zenon
<1>3. 1..n \in SUBSET DOMAIN g
  BY Zenon
<1>4. \A y \in 1..n : Sums(g)[1..n] = g[y] + Sums(g)[(1..n) \ {y}]
  BY <1>2, <1>3, Zenon
<1>5. Sums(g)[1..n] = g[n] + Sums(g)[(1..n) \ {n}]
  BY <1>1, <1>4, Zenon
<1> QED
  BY <1>1, <1>5, Zenon

\* The nine terms of a sum over the dimensions of trust.
LEMMA NineTerms ==
    ASSUME NEW g, Summable(g), DOMAIN g = 1..9
    PROVE  SumOf(g) = g[1] + g[2] + g[3] + g[4] + g[5] + g[6] + g[7] + g[8] + g[9]
<1> DEFINE s(n) == Sums(g)[1..n]
<1>0. s(0) = 0
  <2>1. 1..0 = {} /\ {} \in SUBSET DOMAIN g
    OBVIOUS
  <2>2. Sums(g)[{}] = 0
    BY <2>1, SumsUnfold
  <2> QED
    BY <2>1, <2>2
<1>1. ASSUME NEW n \in 1..9 PROVE s(n) = g[n] + s(n - 1)
  <2>1. n \in Nat /\ n > 0 /\ 1..n \subseteq DOMAIN g
    OBVIOUS
  <2> QED
    BY <2>1, NextTerm
<1>2. SumOf(g) = s(9)
  BY SumOfIsSums
<1>3. /\ g[1] \in Nat /\ g[2] \in Nat /\ g[3] \in Nat /\ g[4] \in Nat /\ g[5] \in Nat
      /\ g[6] \in Nat /\ g[7] \in Nat /\ g[8] \in Nat /\ g[9] \in Nat
  BY DEF Summable
<1> HIDE DEF s
<1>4. /\ s(1) = g[1] + s(0) /\ s(2) = g[2] + s(1) /\ s(3) = g[3] + s(2)
      /\ s(4) = g[4] + s(3) /\ s(5) = g[5] + s(4) /\ s(6) = g[6] + s(5)
      /\ s(7) = g[7] + s(6) /\ s(8) = g[8] + s(7) /\ s(9) = g[9] + s(8)
  <2>1. /\ s(1) = g[1] + s(1 - 1) /\ s(2) = g[2] + s(2 - 1) /\ s(3) = g[3] + s(3 - 1)
        /\ s(4) = g[4] + s(4 - 1) /\ s(5) = g[5] + s(5 - 1) /\ s(6) = g[6] + s(6 - 1)
        /\ s(7) = g[7] + s(7 - 1) /\ s(8) = g[8] + s(8 - 1) /\ s(9) = g[9] + s(9 - 1)
    BY <1>1
  <2> QED
    BY <2>1
<1> QED
  BY <1>0, <1>2, <1>3, <1>4

LEMMA NineFinite == IsFiniteSet(1..9)
<1> DEFINE n == 9
<1>1. n \in Nat
  OBVIOUS
<1> HIDE DEF n
<1>2. IsFiniteSet(1..n)
  BY <1>1, FS_Interval
<1> QED
  BY <1>2, Zenon DEF n

LEMMA NineDimensions == DOMAIN Dimensions = 1..9 /\ Len(Dimensions) = 9
BY DEF Dimensions

LEMMA LeastValue ==
    ASSUME NEW trust, \A i \in 1..9 : trust[i] \in Nat
    PROVE  LET V == {trust[i] : i \in 1..9}
           IN Min(V) \in V /\ \A v \in V : Min(V) <= v
<1> DEFINE V == {trust[i] : i \in 1..9}
<1>1. V \subseteq Nat /\ V # {}
  OBVIOUS
<1> HIDE DEF V
<1>2. Min(V) \in V /\ \A v \in V : Min(V) <= v
  BY <1>1, MinIs
<1> QED
  BY <1>2 DEF V

LEMMA LeastTrust ==
    ASSUME NEW trust, \A i \in 1..9 : trust[i] \in 0..100
    PROVE  \E i \in 1..9 : Min({trust[j] : j \in 1..9}) = trust[i]
<1>1. \A i \in 1..9 : trust[i] \in Nat
  OBVIOUS
<1>2. Min({trust[j] : j \in 1..9}) \in {trust[j] : j \in 1..9}
  BY <1>1, LeastValue, Zenon
<1> QED
  BY <1>2, Zenon

\* aggregate_score(): trust below one half has a dimension below one half, however it is
\* aggregated.
LEMMA LowTrustHasCause ==
    ASSUME NEW trust, DOMAIN trust = 1..9, \A i \in 1..9 : trust[i] \in 0..100,
           NEW aggregation \in {"minimum", "mean", "weighted"},
           AggregateScore(trust, aggregation) < 5000
    PROVE  \E i \in 1..9 : trust[i] < 50
<1> SUFFICES ASSUME \A i \in 1..9 : trust[i] >= 50 PROVE FALSE
  OBVIOUS
<1>1. ASSUME NEW i \in 1..9 PROVE trust[i] \in Nat /\ trust[i] >= 50
  OBVIOUS
<1>2. CASE aggregation = "minimum"
  <2> DEFINE low == Min({trust[i] : i \in 1..9})
  <2>1. AggregateScore(trust, aggregation) = 100 * low
    BY <1>2, NineDimensions DEF AggregateScore
  <2>2. PICK i \in 1..9 : low = trust[i]
    BY LeastTrust
  <2> HIDE DEF low
  <2> QED
    BY <1>1, <2>1, <2>2
<1>3. CASE aggregation = "mean"
  <2> DEFINE g == [i \in 1..9 |-> trust[i]]
             sum == SumOf(g)
  <2>1. AggregateScore(trust, aggregation) = (100 * sum) \div 9
    BY <1>3, NineDimensions DEF AggregateScore
  <2>2. DOMAIN g = 1..9 /\ \A i \in 1..9 : g[i] \in Nat /\ g[i] >= 50
    BY <1>1
  <2> HIDE DEF g
  <2>3. Summable(g)
    <3>1. IsFiniteSet(1..9)
      BY NineFinite
    <3> QED
      BY <2>2, <3>1 DEF Summable
  <2>4. sum = g[1] + g[2] + g[3] + g[4] + g[5] + g[6] + g[7] + g[8] + g[9]
    BY <2>2, <2>3, NineTerms
  <2>5. sum \in Nat /\ sum >= 450
    <3>1. /\ g[1] \in Nat /\ g[2] \in Nat /\ g[3] \in Nat /\ g[4] \in Nat /\ g[5] \in Nat
          /\ g[6] \in Nat /\ g[7] \in Nat /\ g[8] \in Nat /\ g[9] \in Nat
      BY <2>2
    <3>2. /\ g[1] >= 50 /\ g[2] >= 50 /\ g[3] >= 50 /\ g[4] >= 50 /\ g[5] >= 50
          /\ g[6] >= 50 /\ g[7] >= 50 /\ g[8] >= 50 /\ g[9] >= 50
      BY <2>2
    <3> HIDE DEF sum
    <3> QED
      BY <2>4, <3>1, <3>2
  <2> HIDE DEF sum
  <2>6. (100 * sum) \div 9 >= 5000
    BY <2>5
  <2> QED
    BY <2>1, <2>5, <2>6
<1>4. CASE aggregation = "weighted"
  <2> DEFINE g == [i \in 1..9 |-> trust[i] * Weight(i)]
             sum == SumOf(g)
  <2>1. AggregateScore(trust, aggregation) = sum
    BY <1>4, NineDimensions DEF AggregateScore
  <2>2. ASSUME NEW i \in 1..9 PROVE g[i] \in Nat /\ g[i] >= (IF i <= 2 THEN 750 ELSE 500)
    <3>1. g[i] = trust[i] * Weight(i) /\ trust[i] \in Nat /\ trust[i] >= 50
      BY <1>1
    <3> DEFINE t == trust[i]
    <3> HIDE DEF t
    <3>2. t \in Nat /\ t >= 50
      BY <3>1 DEF t
    <3>3. CASE i <= 2
      <4>1. g[i] = t * 15
        BY <3>1, <3>3 DEF Weight, t
      <4> HIDE DEF g
      <4> QED
        BY <3>2, <3>3, <4>1
    <3>4. CASE ~(i <= 2)
      <4>1. g[i] = t * 10
        BY <3>1, <3>4 DEF Weight, t
      <4> HIDE DEF g
      <4> QED
        BY <3>2, <3>4, <4>1
    <3> QED
      BY <3>3, <3>4
  <2>3. DOMAIN g = 1..9
    OBVIOUS
  <2> HIDE DEF g
  <2>4. Summable(g)
    <3>1. IsFiniteSet(1..9)
      BY NineFinite
    <3> QED
      BY <2>2, <2>3, <3>1 DEF Summable
  <2>5. sum = g[1] + g[2] + g[3] + g[4] + g[5] + g[6] + g[7] + g[8] + g[9]
    BY <2>3, <2>4, NineTerms
  <2>6. sum \in Nat /\ sum >= 5000
    <3>1. /\ g[1] \in Nat /\ g[2] \in Nat /\ g[3] \in Nat /\ g[4] \in Nat /\ g[5] \in Nat
          /\ g[6] \in Nat /\ g[7] \in Nat /\ g[8] \in Nat /\ g[9] \in Nat
      BY <2>2
    <3>2. /\ g[1] >= 750 /\ g[2] >= 750 /\ g[3] >= 500 /\ g[4] >= 500 /\ g[5] >= 500
          /\ g[6] >= 500 /\ g[7] >= 500 /\ g[8] >= 500 /\ g[9] >= 500
      BY <2>2
    <3> HIDE DEF sum
    <3> QED
      BY <2>5, <3>1, <3>2
  <2> HIDE DEF sum
  <2> QED
    BY <2>1, <2>6
<1> QED
  BY <1>2, <1>3, <1>4

\* lowest_dimensions(): the first of the weakest is among the three that are looked at.
LEMMA WeakestIsLooked ==
    ASSUME NEW trust, \A i \in 1..9 : trust[i] \in 0..100
    PROVE  \E k \in LowestDimensions(trust) : k \in 1..9 /\ \A i \in 1..9 : trust[k] <= trust[i]
<1> DEFINE V == {trust[i] : i \in 1..9}
           low == Min(V)
           at == {i \in 1..9 : trust[i] = low}
           k == Min(at)
<1>1. \A i \in 1..9 : trust[i] \in Nat
  OBVIOUS
<1>2. low \in V /\ \A v \in V : low <= v
  BY <1>1, LeastValue, Zenon
<1>3. low \in Nat /\ \A i \in 1..9 : low <= trust[i]
  BY <1>1, <1>2
<1>4. k \in at /\ \A j \in at : k <= j
  <2>1. at \subseteq Nat /\ at # {}
    <3> HIDE DEF low
    <3>1. PICK i \in 1..9 : trust[i] = low
      BY <1>2
    <3> QED
      BY <3>1
  <2> HIDE DEF at
  <2> QED BY <2>1, MinIs
<1> HIDE DEF low, V
<1>5. k \in 1..9 /\ trust[k] = low
  BY <1>4
<1> DEFINE ahead == {j \in DOMAIN Dimensions : trust[j] < trust[k] \/ (trust[j] = trust[k] /\ j < k)}
<1> HIDE DEF k
<1>6. ASSUME NEW j \in ahead PROVE FALSE
  <2>1. j \in 1..9 /\ (trust[j] < low \/ (trust[j] = low /\ j < k))
    BY <1>5, <1>6, NineDimensions
  <2>2. trust[j] \in Nat /\ low <= trust[j]
    BY <1>1, <1>3, <2>1
  <2>3. trust[j] = low /\ j < k
    BY <1>3, <2>1, <2>2
  <2>4. k <= j
    BY <1>4, <2>1, <2>3
  <2> QED
    BY <1>5, <2>1, <2>3, <2>4
<1>7. ahead = {}
  BY <1>6
<1>8. Cardinality(ahead) = 0
  BY <1>7, FS_EmptySet
<1>9. k \in LowestDimensions(trust)
  <2>1. k \in DOMAIN Dimensions
    BY <1>5, NineDimensions
  <2>2. Cardinality(ahead) < 3
    BY <1>8
  <2> QED
    BY <2>1, <2>2 DEF LowestDimensions
<1> QED
  BY <1>3, <1>5, <1>9
\* evaluate_trust(): the weakest dimension is below one half when the trust is, and it is
\* named.
LEMMA TrustHasReason ==
    ASSUME NEW r, DOMAIN r.trust = 1..9, \A i \in 1..9 : r.trust[i] \in 0..100,
           r.aggregation \in {"minimum", "mean", "weighted"},
           TrustScore(r) < 5000 \/ ~ProvenanceMet(r)
    PROVE  TrustReasons(r) # {}
<1>1. CASE ~ProvenanceMet(r)
  BY <1>1 DEF TrustReasons
<1>2. CASE ProvenanceMet(r)
  <2>1. AggregateScore(r.trust, r.aggregation) < 5000
    BY <1>2 DEF TrustScore
  <2>2. PICK i \in 1..9 : r.trust[i] < 50
    BY <2>1, LowTrustHasCause
  <2>3. PICK k \in LowestDimensions(r.trust) : k \in 1..9 /\ \A j \in 1..9 : r.trust[k] <= r.trust[j]
    BY WeakestIsLooked
  <2>4. r.trust[k] < 50
    <3>1. r.trust[k] \in Int /\ r.trust[i] \in Int /\ r.trust[k] <= r.trust[i]
      BY <2>3
    <3> QED
      BY <2>2, <3>1
  <2>5. Dimensions[k] \in TrustReasons(r)
    BY <2>3, <2>4, Zenon DEF TrustReasons
  <2> QED
    BY <2>5
<1> QED
  BY <1>1, <1>2

\* The trust of a reading on the scale has its nine dimensions, in hundredths.
LEMMA TrustIsRead ==
    ASSUME PictureInv, engine # "none", engine \in Aggregations
    PROVE  LET r == TrustReading(Reading(engine, severity), engine)
           IN /\ DOMAIN r.trust = 1..9 /\ \A i \in 1..9 : r.trust[i] \in 0..100
              /\ r.aggregation \in {"minimum", "mean", "weighted"}
<1> DEFINE reading == Reading(engine, severity)
           r == TrustReading(reading, engine)
<1>1. r.aggregation = engine /\ engine \in {"minimum", "mean", "weighted"}
  BY ScaleAssumption DEF TrustReading
<1>2. DOMAIN r.trust = 1..9 /\ \A i \in 1..9 : r.trust[i] = reading[Dimensions[i]]
  BY NineDimensions DEF TrustReading
<1>3. ASSUME NEW i \in 1..9 PROVE reading[Dimensions[i]] \in 0..100
  <2>1. engine \in DOMAIN Scale
    BY DEF PictureInv
  <2>2. /\ Dimensions[i] \in DOMAIN Scale[engine]
        /\ \A n \in 1..Len(Scale[engine][Dimensions[i]]) : Scale[engine][Dimensions[i]][n] \in 0..100
    <3>1. i \in 1..Len(Dimensions)
      BY NineDimensions
    <3> QED
      BY <2>1, <3>1, ScaleAssumption, Zenon
  <2>3. PICK n \in 1..Len(Scale[engine][Dimensions[i]]) :
           reading[Dimensions[i]] = Scale[engine][Dimensions[i]][n]
    BY <2>2, ReadingOnScale
  <2> QED
    BY <2>2, <2>3
<1> QED
  BY <1>1, <1>2, <1>3

\* solve_rerouting(): over five kilometres or more no other mode ties with the aircraft after
\* the rounding.
LEMMA UrgentGoesByAir ==
    ASSUME NEW km \in Nat, km >= 5
    PROVE  RecommendedMode(km, TRUE, FALSE) = "air_cargo"
<1>1. /\ Transit("maritime", km) = (20 * km + 25) \div 50
      /\ Transit("rail_cpkc", km) = (20 * km + 45) \div 90
      /\ Transit("rail_cn", km) = (20 * km + 45) \div 90
      /\ Transit("long_haul_truck", km) = (20 * km + 85) \div 170
      /\ Transit("air_cargo", km) = (20 * km + 650) \div 1300
  BY DEF Transit, Speed
<1>2. /\ (20 * km + 650) \div 1300 < (20 * km + 25) \div 50
      /\ (20 * km + 650) \div 1300 < (20 * km + 45) \div 90
      /\ (20 * km + 650) \div 1300 < (20 * km + 85) \div 170
  OBVIOUS
<1>3. /\ Modes[1] = "maritime" /\ Modes[2] = "rail_cpkc" /\ Modes[3] = "rail_cn"
      /\ Modes[4] = "long_haul_truck" /\ Modes[5] = "air_cargo" /\ DOMAIN Modes = 1..5
  BY DEF Modes
<1>4. ASSUME NEW i \in 1..5, i # 5
      PROVE  Transit(Modes[5], km) < Transit(Modes[i], km) /\ ~(Transit(Modes[i], km) < Transit(Modes[5], km))
  <2> DEFINE t == (20 * km + 650) \div 1300
             u == (20 * km + 25) \div 50
             v == (20 * km + 45) \div 90
             w == (20 * km + 85) \div 170
  <2>1. i = 1 \/ i = 2 \/ i = 3 \/ i = 4
    BY <1>4
  <2>2. t \in Int /\ u \in Int /\ v \in Int /\ w \in Int /\ t < u /\ t < v /\ t < w
    BY <1>2
  <2>3. Transit(Modes[5], km) = t
    BY <1>1, <1>3
  <2>4. Transit(Modes[i], km) = u \/ Transit(Modes[i], km) = v \/ Transit(Modes[i], km) = w
    BY <1>1, <1>3, <2>1
  <2> HIDE DEF t, u, v, w
  <2> QED
    BY <2>2, <2>3, <2>4
<1>5. ~(Transit(Modes[5], km) < Transit(Modes[5], km))
  BY <1>1, <1>3
<1> DEFINE first == {i \in DOMAIN Modes :
                       \A j \in DOMAIN Modes : ~Preferred(Modes[j], Modes[i], km, TRUE, FALSE)}
<1>6. first = {5}
  <2>1. \A i, j \in 1..5 : Preferred(Modes[j], Modes[i], km, TRUE, FALSE)
                              <=> Transit(Modes[j], km) < Transit(Modes[i], km)
    BY DEF Preferred
  <2>2. ASSUME NEW i \in 1..5, i # 5 PROVE i \notin first
    <3>1. Preferred(Modes[5], Modes[i], km, TRUE, FALSE)
      <4>1. Transit(Modes[5], km) < Transit(Modes[i], km)
        BY <1>4, <2>2, Zenon
      <4>2. 5 \in 1..5
        OBVIOUS
      <4> QED
        BY <2>1, <4>1, <4>2, Zenon
    <3>2. 5 \in DOMAIN Modes
      BY <1>3
    <3> QED
      BY <3>1, <3>2
  <2>3. 5 \in first
    <3>1. 5 \in 1..5
      OBVIOUS
    <3>2. ASSUME NEW j \in 1..5 PROVE ~Preferred(Modes[j], Modes[5], km, TRUE, FALSE)
      <4>1. ~(Transit(Modes[j], km) < Transit(Modes[5], km))
        <5>1. CASE j = 5
          BY <1>5, <5>1, Zenon
        <5>2. CASE j # 5
          BY <1>4, <5>2, Zenon
        <5> QED
          BY <5>1, <5>2
      <4> QED
        BY <2>1, <3>1, <4>1, Zenon
    <3>3. DOMAIN Modes = 1..5
      BY <1>3
    <3> QED
      BY <3>1, <3>2, <3>3, Zenon
  <2>4. first \subseteq 1..5
    BY <1>3
  <2> HIDE DEF first
  <2> QED
    BY <2>2, <2>3, <2>4
<1>7. Min(first) = 5
  <2> HIDE DEF first
  <2>1. first \subseteq Nat /\ first # {}
    BY <1>6
  <2> QED
    BY <1>6, <2>1, MinIs
<1> QED
  BY <1>3, <1>7 DEF RecommendedMode

LEMMA AirIsFastest ==
    \A i \in DOMAIN Modes : Speed("air_cargo") >= Speed(Modes[i])
<1>1. \A m : Speed(m) \in {25, 85, 650, 45}
  BY DEF Speed
<1>2. Speed("air_cargo") = 650
  BY DEF Speed
<1> QED
  BY <1>1, <1>2

\* The tracks of allied_defense.py: what is hostile on one display is closed, and closed on all.
LEMMA HostileIsClosed ==
    ASSUME NEW state, "hostile" \in {CotType(state), TrackIdentity(state)}
    PROVE  "friend" \notin {CotType(state), CotJson(state), TrackIdentity(state)}
<1>1. state \in Closed
  BY DEF CotType, TrackIdentity
<1>2. state # "open"
  BY <1>1 DEF Closed
<1> QED
  BY <1>1, <1>2 DEF CotType, CotJson, TrackIdentity

\* Every verdict an engine gives is borne out by its parts, whatever the readings and their
\* scales.
THEOREM VerdictsAlwaysJustified == Spec => []VerdictsJustified
<1>1. PictureInv => VerdictsJustified
  <2> SUFFICES ASSUME PictureInv, engine # "none" PROVE VerdictsJustified
    BY ScaleAssumption DEF VerdictsJustified, WorstPartDecides, TrustExplained, DisplaysAgree
  <2> DEFINE r == Reading(engine, severity)
  <2>0. engine \in DOMAIN Scale
    BY DEF PictureInv
  <2>1. (engine = "scan" /\ "CRITICAL" \in {GnssLevel(r), ScadaLevel(r), AisLevel(r)}) =>
             ScanLevel(r) \in {"HIGH", "CRITICAL"}
    <3> SUFFICES ASSUME engine = "scan", "CRITICAL" \in {GnssLevel(r), ScadaLevel(r), AisLevel(r)}
                 PROVE  ScanLevel(r) \in {"HIGH", "CRITICAL"}
      OBVIOUS
    <3>1. ASSUME NEW p \in {"cno", "variance", "drift", "untrusted"} PROVE r[p] \in Int
      <4>1. p \in DOMAIN Scale[engine] /\ \A i \in 1..Len(Scale[engine][p]) : Scale[engine][p][i] \in Int
        BY <2>0, ScaleAssumption, Zenon
      <4>2. PICK n \in 1..Len(Scale[engine][p]) : r[p] = Scale[engine][p][n]
        BY <4>1, ReadingOnScale
      <4> QED
        BY <4>1, <4>2
    <3>2. r.cno \in Int /\ r.variance \in Int /\ r.drift \in Int /\ r.untrusted \in Int
      BY <3>1
    <3> HIDE DEF r
    <3> QED
      BY <3>2, CriticalPartShows
  <2>2. engine = "cuas" => \A x \in Present(r) : AirspaceThreat(Listed(r)) >= AirspaceThreat(<<x>>)
    <3> SUFFICES ASSUME engine = "cuas", NEW x \in Present(r)
                 PROVE  AirspaceThreat(Listed(r)) >= AirspaceThreat(<<x>>)
      OBVIOUS
    <3>1. DOMAIN r = {"first", "second", "third"}
      BY <2>0, ScaleAssumption DEF Reading
    <3> HIDE DEF r
    <3>2. PICK S : Listed(r) \in Seq(S) /\ \E k \in DOMAIN Listed(r) : Listed(r)[k] = x
      BY <3>1, PresentIsListed
    <3> QED
      BY <3>2, DetectionsAddUp
  <2>3. TrustExplained
    <3> SUFFICES ASSUME engine \in Aggregations
                 PROVE  LET t == TrustReading(Reading(engine, severity), engine)
                        IN (TrustScore(t) < 5000 \/ ~ProvenanceMet(t)) => TrustReasons(t) # {}
      BY DEF TrustExplained
    <3> DEFINE t == TrustReading(Reading(engine, severity), engine)
    <3>1. /\ DOMAIN t.trust = 1..9 /\ \A i \in 1..9 : t.trust[i] \in 0..100
          /\ t.aggregation \in {"minimum", "mean", "weighted"}
      BY TrustIsRead
    <3> HIDE DEF t
    <3>2. (TrustScore(t) < 5000 \/ ~ProvenanceMet(t)) => TrustReasons(t) # {}
      BY <3>1, TrustHasReason
    <3> QED
      BY <3>2 DEF t
  <2>4. (engine = "display" /\ "hostile" \in {CotType(r.state), TrackIdentity(r.state)}) =>
             "friend" \notin {CotType(r.state), CotJson(r.state), TrackIdentity(r.state)}
    BY HostileIsClosed
  <2>5. engine = "reroute" =>
             \A i \in DOMAIN Modes : Speed(RecommendedMode(r.km, TRUE, FALSE)) >= Speed(Modes[i])
    <3> SUFFICES ASSUME engine = "reroute"
                 PROVE  \A i \in DOMAIN Modes : Speed(RecommendedMode(r.km, TRUE, FALSE)) >= Speed(Modes[i])
      OBVIOUS
    <3>1. "km" \in DOMAIN Scale[engine] /\ \A i \in 1..Len(Scale[engine].km) :
               Scale[engine].km[i] \in Nat /\ Scale[engine].km[i] >= 5
      BY <2>0, ScaleAssumption, Zenon
    <3>2. PICK n \in 1..Len(Scale[engine]["km"]) : r["km"] = Scale[engine]["km"][n]
      BY <3>1, ReadingOnScale
    <3>3. r.km \in Nat /\ r.km >= 5
      BY <3>1, <3>2
    <3> HIDE DEF r
    <3>4. RecommendedMode(r.km, TRUE, FALSE) = "air_cargo"
      BY <3>3, UrgentGoesByAir
    <3> QED
      BY <3>4, AirIsFastest
  <2>6. WorstPartDecides
    BY <2>1, <2>2 DEF WorstPartDecides
  <2>7. DisplaysAgree
    BY <2>4, <2>5 DEF DisplaysAgree
  <2> QED
    BY <2>3, <2>6, <2>7 DEF VerdictsJustified
<1> QED
  BY <1>1, PictureAlwaysOnScale, PTL
-----------------------------------------------------------------------------
(* A reading that is revised for the worse.                                *)

\* Two functions that agree but for one argument of each.
Alike(g, h, R, o, w) ==
    /\ Summable(g) /\ Summable(h) /\ o \notin R /\ w \notin R
    /\ DOMAIN g = R \cup {o} /\ DOMAIN h = R \cup {w} /\ \A x \in R : g[x] = h[x]

\* Their sums differ in one term.
LEMMA SumsOfAlike ==
    ASSUME NEW g, NEW h, NEW R, NEW o, NEW w, Alike(g, h, R, o, w)
    PROVE  Sums(g)[R] \in Nat /\ SumOf(g) = g[o] + Sums(g)[R] /\ SumOf(h) = h[w] + Sums(g)[R]
<1> USE DEF Alike
<1> DEFINE t == Sums(g)[R]
<1>1. R \in SUBSET DOMAIN g /\ R \in SUBSET DOMAIN h /\ R \in SUBSET R
  OBVIOUS
<1>2. t \in Nat
  BY <1>1, SumsNat
<1>3. t = Sums(h)[R]
  BY <1>1, SumsAgree
<1>4. ASSUME NEW k, Summable(k), NEW x, x \notin R, DOMAIN k = R \cup {x}
      PROVE  SumOf(k) = k[x] + Sums(k)[R]
  <2>1. DOMAIN k \in SUBSET DOMAIN k /\ x \in DOMAIN k /\ DOMAIN k \ {x} = R
    BY <1>4
  <2>2. \A u \in SUBSET DOMAIN k : \A y \in u : Sums(k)[u] = k[y] + Sums(k)[u \ {y}]
    BY <1>4, SumsTake, Zenon
  <2>3. Sums(k)[DOMAIN k] = k[x] + Sums(k)[DOMAIN k \ {x}]
    BY <2>1, <2>2, Zenon
  <2> QED
    BY <2>1, <2>3, SumOfIsSums
<1>5. SumOf(g) = g[o] + t /\ SumOf(h) = h[w] + Sums(h)[R]
  BY <1>4
<1> QED
  BY <1>2, <1>3, <1>5

\* One reading in place of another one, of the same metric, time and confidence.
Swapped(items, o, w, others) ==
    /\ o \in items /\ w \notin items /\ others = (items \ {o}) \cup {w}
    /\ w.metric = o.metric /\ w.confidence = o.confidence /\ w.at = o.at /\ w.until = o.until

\* The value of w is at least as bad as the one of o.
AsBad(o, w) ==
    /\ IF o.metric \in Rising THEN o.value <= w.value ELSE o.value >= w.value
    /\ o.metric # "inventory_days" => o.value \in 0..100 /\ w.value \in 0..100

\* metric_risk(): a worse value carries no less risk.
LEMMA WorseIsRiskier ==
    ASSUME NEW o, Kept(o), o.metric \in FactorMetrics, NEW w, Kept(w), w.metric = o.metric,
           AsBad(o, w)
    PROVE  MetricRisk(o) <= MetricRisk(w)
<1> DEFINE m == o.metric
           percent(x) == CASE m = "sea_ice_concentration" ->
                                (IF x > 100 THEN x ELSE 100 * x)
                           [] m \in {"wind_severity", "wave_severity",
                                     "geopolitical_pressure", "trade_dependency"} -> 100 * x
                           [] m = "inventory_days" -> Whole - (x * 100) \div 45
                           [] OTHER -> Whole - 100 * x
           p == percent(o.value)
           q == percent(w.value)
<1>1. o.value \in Nat /\ w.value \in Nat
  BY ValueIsNumber
<1>2. p \in Int /\ q \in Int /\ p <= q
  <2> DEFINE x == o.value
             y == w.value
  <2>1. x \in Nat /\ y \in Nat
    BY <1>1
  <2>2. CASE m = "sea_ice_concentration"
    <3>1. x \in 0..100 /\ y \in 0..100 /\ x <= y
      BY <2>2 DEF AsBad, Rising
    <3>2. p = 100 * x /\ q = 100 * y
      BY <2>2, <3>1
    <3> HIDE DEF p, q, x, y
    <3> QED
      BY <3>1, <3>2
  <2>3. CASE m \in {"wind_severity", "wave_severity", "geopolitical_pressure", "trade_dependency"}
    <3>1. x <= y
      BY <2>3 DEF AsBad, Rising
    <3>2. p = 100 * x /\ q = 100 * y
      BY <2>3
    <3> HIDE DEF p, q, x, y
    <3> QED
      BY <2>1, <3>1, <3>2
  <2>4. CASE m = "inventory_days"
    <3>1. y <= x
      BY <1>1, <2>4 DEF AsBad, Rising
    <3>2. p = Whole - (x * 100) \div 45 /\ q = Whole - (y * 100) \div 45
      BY <2>4
    <3> HIDE DEF p, q, x, y
    <3>3. /\ (y * 100) \div 45 <= (x * 100) \div 45
          /\ (y * 100) \div 45 \in Int /\ (x * 100) \div 45 \in Int
      BY <2>1, <3>1
    <3> QED
      BY <3>2, <3>3, WholeNat
  <2>5. CASE m \notin {"sea_ice_concentration", "wind_severity", "wave_severity",
                       "geopolitical_pressure", "trade_dependency", "inventory_days"}
    <3>1. y <= x
      BY <1>1, <2>5 DEF AsBad, Rising
    <3>2. p = Whole - 100 * x /\ q = Whole - 100 * y
      BY <2>5
    <3> HIDE DEF p, q, x, y
    <3> QED
      BY <2>1, <3>1, <3>2, WholeNat
  <2> QED
    BY <2>2, <2>3, <2>4, <2>5
<1>3. MetricRisk(o) = Max({0, Min({Whole, p})}) /\ MetricRisk(w) = Max({0, Min({Whole, q})})
  BY Zenon DEF MetricRisk
<1> HIDE DEF p, q
<1>4. \A z \in Int : Max({0, Min({Whole, z})}) =
           (IF z > 0 THEN IF z < Whole THEN z ELSE Whole ELSE 0)
  <2> SUFFICES ASSUME NEW z \in Int
               PROVE  Max({0, Min({Whole, z})}) = (IF z > 0 THEN IF z < Whole THEN z ELSE Whole ELSE 0)
    OBVIOUS
  <2>1. Min({Whole, z}) = (IF z < Whole THEN z ELSE Whole)
    BY WholeNat, Clamped
  <2> DEFINE y == Min({Whole, z})
  <2>2. y \in Int
    BY <2>1, WholeNat
  <2> HIDE DEF y
  <2>3. Max({0, y}) = (IF y > 0 THEN y ELSE 0)
    BY <2>2, WholeNat, Clamped
  <2> QED
    BY <2>1, <2>3, WholeIsNumber DEF y
<1> QED
  BY <1>2, <1>3, <1>4, WholeNat
\* The weight of a reading does not depend on its value.
LEMMA SameWeight ==
    ASSUME NEW items, NEW o, NEW w, NEW others, Swapped(items, o, w, others), NEW now
    PROVE  /\ Effective(w, now) = Effective(o, now) /\ FactorOf(w) = FactorOf(o)
           /\ Current(w, now) <=> Current(o, now)
BY DEF Swapped, Effective, Freshness, FactorOf, Current

\* A factor whose readings get worse: its risk does not fall, its confidence stays.
LEMMA FactorFollows ==
    ASSUME NEW items, NEW now \in Int, Scorable(items, now), NEW o, NEW w, NEW others,
           Scorable(others, now), Swapped(items, o, w, others), MetricRisk(o) <= MetricRisk(w)
    PROVE  /\ FactorRisk(items, now) <= FactorRisk(others, now)
           /\ FactorConfidence(items, now) = FactorConfidence(others, now)
<1> DEFINE R == items \ {o}
           g == [x \in items |-> Effective(x, now)]
           h == [x \in others |-> Effective(x, now)]
           rg == [x \in items |-> MetricRisk(x) * g[x]]
           rh == [x \in others |-> MetricRisk(x) * h[x]]
<1>1. o \in items /\ w \in others /\ items = R \cup {o} /\ others = R \cup {w} /\ o \notin R /\ w \notin R
  BY DEF Swapped
<1>2. g[o] = Effective(o, now) /\ h[w] = g[o]
  BY <1>1, SameWeight
<1>3. Summable(g) /\ Summable(rg)
  BY WeightsOfReadings
<1>4. Summable(h) /\ Summable(rh)
  BY WeightsOfReadings
<1>5. DOMAIN g = R \cup {o} /\ DOMAIN h = R \cup {w} /\ DOMAIN rg = R \cup {o} /\ DOMAIN rh = R \cup {w}
  BY <1>1
<1>6. \A x \in R : g[x] = h[x] /\ rg[x] = rh[x]
  BY <1>1
<1>7. rg[o] = MetricRisk(o) * g[o] /\ rh[w] = MetricRisk(w) * g[o]
  BY <1>1, <1>2
<1>8. FactorRisk(items, now) = IF SumOf(g) = 0 THEN Whole \div 2 ELSE SumOf(rg) \div SumOf(g)
  BY Zenon DEF FactorRisk
<1>9. FactorRisk(others, now) = IF SumOf(h) = 0 THEN Whole \div 2 ELSE SumOf(rh) \div SumOf(h)
  BY Zenon DEF FactorRisk
<1>10. /\ FactorConfidence(items, now) = Min({Whole, SumOf(g) \div Cardinality(items)})
       /\ FactorConfidence(others, now) = Min({Whole, SumOf(h) \div Cardinality(others)})
  BY Zenon DEF FactorConfidence
<1>11. MetricRisk(o) \in Nat /\ MetricRisk(w) \in Nat
  <2>1. MetricRisk(o) \in 0..Whole /\ MetricRisk(w) \in 0..Whole
    BY <1>1, MetricRiskRatio DEF Scorable
  <2> QED
    BY <2>1, WholeNat
<1> HIDE DEF R, g, h, rg, rh
<1> DEFINE t == Sums(g)[R]
           u == Sums(rg)[R]
<1>12. t \in Nat /\ SumOf(g) = g[o] + t /\ SumOf(h) = h[w] + t
  <2>1. Alike(g, h, R, o, w)
    BY <1>1, <1>3, <1>4, <1>5, <1>6 DEF Alike
  <2> QED
    BY <2>1, SumsOfAlike
<1>13. u \in Nat /\ SumOf(rg) = rg[o] + u /\ SumOf(rh) = rh[w] + u
  <2>1. Alike(rg, rh, R, o, w)
    BY <1>1, <1>3, <1>4, <1>5, <1>6 DEF Alike
  <2> QED
    BY <2>1, SumsOfAlike
<1> HIDE DEF t, u
<1>14. SumOf(g) = SumOf(h) /\ SumOf(g) \in Nat /\ SumOf(rg) \in Nat /\ SumOf(rh) \in Nat
  BY <1>2, <1>3, <1>4, <1>12, SumOfNat
<1>15. SumOf(rg) <= SumOf(rh)
  <2> DEFINE a == MetricRisk(o)
             b == MetricRisk(w)
             k == g[o]
  <2>1. k \in Nat
    BY <1>1, <1>3, <1>5 DEF Summable
  <2>2. a \in Nat /\ b \in Nat /\ a <= b
    BY <1>11
  <2>3. SumOf(rg) = a * k + u /\ SumOf(rh) = b * k + u /\ u \in Nat
    BY <1>7, <1>13
  <2> HIDE DEF a, b, k
  <2>4. a * k <= b * k /\ a * k \in Nat /\ b * k \in Nat
    BY <2>1, <2>2
  <2> QED
    BY <2>3, <2>4
<1>16. FactorRisk(items, now) <= FactorRisk(others, now)
  <2>1. CASE SumOf(g) = 0
    <3>1. Whole \div 2 <= Whole \div 2
      BY WholeIsNumber
    <3> QED
      BY <1>8, <1>9, <1>14, <2>1, <3>1
  <2>2. CASE SumOf(g) # 0
    <3>1. SumOf(g) > 0
      BY <1>14, <2>2
    <3>2. SumOf(rg) \div SumOf(g) <= SumOf(rh) \div SumOf(g)
      BY <1>14, <1>15, <3>1, QuotientMonotone
    <3> QED
      BY <1>8, <1>9, <1>14, <2>2, <3>2
  <2> QED
    BY <2>1, <2>2
<1>17. Cardinality(items) = Cardinality(others)
  <2>1. IsFiniteSet(R)
    BY FS_Subset DEF Scorable, R
  <2>2. Cardinality(R \cup {o}) = Cardinality(R) + 1 /\ Cardinality(R \cup {w}) = Cardinality(R) + 1
    BY <1>1, <2>1, FS_AddElement
  <2> QED
    BY <1>1, <2>2
<1> QED
  BY <1>10, <1>14, <1>16, <1>17

\* The factors of the readings: the same, none with less risk, with the same confidence.
LEMMA TablesFollow ==
    ASSUME NEW items, NEW now \in Int, Scorable(items, now), NEW o, NEW w, NEW others,
           Scorable(others, now), Swapped(items, o, w, others), MetricRisk(o) <= MetricRisk(w)
    PROVE  /\ Factors(others) = Factors(items)
           /\ Confidences(others, now) = Confidences(items, now)
           /\ \A f \in Factors(items) : Risks(items, now)[f] <= Risks(others, now)[f]
           /\ Metrics(others) = Metrics(items)
<1>1. o \in items /\ w \in others /\ w \notin items /\ others = (items \ {o}) \cup {w}
  BY DEF Swapped
<1>2. FactorOf(w) = FactorOf(o) /\ w.metric = o.metric
  BY SameWeight DEF Swapped
<1>3. Factors(others) = Factors(items)
  BY <1>1, <1>2 DEF Factors
<1>4. Metrics(others) = Metrics(items)
  BY <1>1, <1>2 DEF Metrics
<1>5. ASSUME NEW f \in Factors(items)
      PROVE  /\ FactorRisk(Readings(items, f), now) <= FactorRisk(Readings(others, f), now)
             /\ FactorConfidence(Readings(items, f), now) = FactorConfidence(Readings(others, f), now)
  <2>1. Scorable(Readings(items, f), now) /\ Scorable(Readings(others, f), now)
    BY FS_Subset DEF Readings, Scorable
  <2>2. CASE f = FactorOf(o)
    <3>1. Swapped(Readings(items, f), o, w, Readings(others, f))
      BY <1>1, <1>2, <2>2 DEF Swapped, Readings
    <3> QED
      BY <2>1, <3>1, FactorFollows
  <2>3. CASE f # FactorOf(o)
    <3>1. Readings(items, f) = Readings(others, f)
      BY <1>1, <1>2, <2>3 DEF Readings
    <3>2. FactorRisk(Readings(items, f), now) \in 0..Whole
      BY <2>1, FactorRiskRatio
    <3> QED
      BY <3>1, <3>2, WholeNat
  <2> QED
    BY <2>2, <2>3
<1> QED
  BY <1>3, <1>4, <1>5 DEF Confidences, Risks

\* The largest of some bounded numbers.
LEMMA MaxWithin ==
    ASSUME NEW bound \in Nat, NEW S, S \subseteq 0..bound, S # {}
    PROVE  Max(S) \in S /\ \A y \in S : y <= Max(S)
<1>0. ASSUME NEW x \in S PROVE x \in Nat /\ bound - x \in Nat
  <2>1. x \in 0..bound
    OBVIOUS
  <2> QED
    BY <2>1
<1> DEFINE T == {bound - x : x \in S}
<1>1. T \subseteq Nat /\ T # {}
  <2>1. ASSUME NEW t \in T PROVE t \in Nat
    <3>1. PICK x \in S : t = bound - x
      BY Zenon
    <3> QED
      BY <1>0, <3>1
  <2>2. T # {}
    BY Zenon
  <2> QED
    BY <2>1, <2>2, Zenon
<1>2. PICK n \in T : \A k \in T : n <= k
  <2> HIDE DEF T
  <2> QED BY <1>1, LeastNumber
<1>3. PICK x \in S : n = bound - x
  BY Zenon
<1>4. ASSUME NEW y \in S PROVE x >= y
  <2>1. n <= bound - y
    BY <1>2, Zenon
  <2> QED
    BY <1>0, <1>3, <2>1
<1>5. Max(S) = CHOOSE z \in S : \A y \in S : z >= y
  BY Zenon DEF Max
<1>6. Max(S) \in S /\ \A y \in S : Max(S) >= y
  BY <1>3, <1>4, <1>5, Zenon
<1>7. ASSUME NEW y \in S PROVE y <= Max(S)
  BY <1>0, <1>6
<1> QED
  BY <1>6, <1>7

\* The largest of some ratios.
LEMMA MaxIs ==
    ASSUME NEW S, S \subseteq 0..100, S # {}
    PROVE  Max(S) \in S /\ \A y \in S : y <= Max(S)
BY MaxWithin

\* There are readings of a metric, and they are all low.
Low(items, m, v) ==
    /\ \E x \in items : x.metric = m
    /\ \A x \in items : x.metric = m => x.value <= v

LowMetrics == {"port_availability", "insurance_availability", "satcom_availability", "port_capacity"}

\* _classify() looks at the largest reading of a metric, so at all of them.
LEMMA AtMostIsLow ==
    ASSUME NEW items, NEW now, Scorable(items, now), NEW m \in LowMetrics, NEW v \in Nat
    PROVE  LET values == {o.value : o \in {x \in items : x.metric = m}}
           IN (values # {} /\ Max(values) <= v) <=> Low(items, m, v)
<1> DEFINE values == {o.value : o \in {x \in items : x.metric = m}}
<1>1. ASSUME NEW x \in items, x.metric = m PROVE x.value \in 0..100
  <2>1. m \in RATIO_METRICS
    BY DEF LowMetrics, RATIO_METRICS
  <2> QED
    BY <1>1, <2>1 DEF Scorable, Kept, WellFormed
<1>2. values \subseteq 0..100
  BY <1>1
<1>3. values # {} <=> \E x \in items : x.metric = m
  OBVIOUS
<1>4. \A x \in items : x.metric = m => x.value \in values
  OBVIOUS
<1>5. \A z \in values : \E x \in items : x.metric = m /\ x.value = z
  OBVIOUS
<1> HIDE DEF values
<1>6. ASSUME values # {} PROVE Max(values) <= v <=> \A x \in items : x.metric = m => x.value <= v
  <2>1. Max(values) \in values /\ \A y \in values : y <= Max(values)
    BY <1>2, <1>6, MaxIs
  <2>2. Max(values) \in Int
    <3>1. \A z \in values : z \in Int
      BY <1>2
    <3> QED
      BY <2>1, <3>1, Zenon
  <2>3. ASSUME Max(values) <= v, NEW x \in items, x.metric = m PROVE x.value <= v
    <3>1. x.value \in Int /\ x.value <= Max(values)
      BY <1>1, <1>4, <2>1, <2>3
    <3> QED
      BY <2>2, <2>3, <3>1
  <2>4. ASSUME \A x \in items : x.metric = m => x.value <= v PROVE Max(values) <= v
    BY <1>5, <2>1, <2>4
  <2> QED
    BY <2>3, <2>4
<1>7. (values # {} /\ Max(values) <= v) <=> Low(items, m, v)
  BY <1>3, <1>6 DEF Low
<1> QED
  BY <1>7 DEF values
\* The state by the readings that are low.
StateOf(risk, items) ==
    IF Low(items, "port_availability", 1) THEN "physically_closed"
    ELSE IF risk >= 7200 THEN "functionally_closed"
    ELSE IF Low(items, "insurance_availability", 10) THEN "open_but_uninsurable"
    ELSE IF Low(items, "satcom_availability", 20) THEN "open_but_communications_degraded"
    ELSE IF Low(items, "port_capacity", 15) THEN "open_capacity_constrained"
    ELSE IF risk >= 3800 THEN "open_degraded" ELSE "open"

LEMMA ClassifyIsState ==
    ASSUME NEW items, NEW now, Scorable(items, now), NEW risk
    PROVE  Classify(risk, items) = StateOf(risk, items)
<1> DEFINE values(m) == {o.value : o \in {x \in items : x.metric = m}}
           atMost(m, v) == values(m) # {} /\ Max(values(m)) <= v
<1>1. Classify(risk, items) =
        IF atMost("port_availability", 1) THEN "physically_closed"
        ELSE IF risk >= 7200 THEN "functionally_closed"
        ELSE IF atMost("insurance_availability", 10) THEN "open_but_uninsurable"
        ELSE IF atMost("satcom_availability", 20) THEN "open_but_communications_degraded"
        ELSE IF atMost("port_capacity", 15) THEN "open_capacity_constrained"
        ELSE IF risk >= 3800 THEN "open_degraded" ELSE "open"
  BY Zenon DEF Classify
<1>2. ASSUME NEW m \in LowMetrics, NEW v \in Nat PROVE atMost(m, v) <=> Low(items, m, v)
  BY AtMostIsLow
<1>3. /\ "port_availability" \in LowMetrics /\ "insurance_availability" \in LowMetrics
      /\ "satcom_availability" \in LowMetrics /\ "port_capacity" \in LowMetrics
  BY DEF LowMetrics
<1> HIDE DEF atMost
<1>4. /\ atMost("port_availability", 1) <=> Low(items, "port_availability", 1)
      /\ atMost("insurance_availability", 10) <=> Low(items, "insurance_availability", 10)
      /\ atMost("satcom_availability", 20) <=> Low(items, "satcom_availability", 20)
      /\ atMost("port_capacity", 15) <=> Low(items, "port_capacity", 15)
  BY <1>2, <1>3
<1> QED
  BY <1>1, <1>4 DEF StateOf

\* What is low stays low when a reading gets worse.
LEMMA LowStays ==
    ASSUME NEW items, NEW now, Scorable(items, now), NEW o, NEW w, NEW others,
           Scorable(others, now), Swapped(items, o, w, others), AsBad(o, w),
           NEW m \in LowMetrics, NEW v \in Nat, Low(items, m, v)
    PROVE  Low(others, m, v)
<1>1. o \in items /\ w.metric = o.metric /\ others = (items \ {o}) \cup {w}
  BY DEF Swapped
<1>2. \E x \in others : x.metric = m
  BY <1>1 DEF Low
<1>3. ASSUME NEW x \in others, x.metric = m PROVE x.value <= v
  <2>1. CASE x \in items
    BY <1>3, <2>1 DEF Low
  <2>2. CASE x \notin items
    <3>1. x = w /\ o.metric = m /\ o.value <= v
      BY <1>1, <1>3, <2>2 DEF Low
    <3>2. m \notin Rising /\ m # "inventory_days"
      BY DEF LowMetrics, Rising
    <3>3. w.value \in Int /\ o.value \in Int /\ w.value <= o.value
      BY <3>1, <3>2 DEF AsBad
    <3> QED
      BY <3>1, <3>3
  <2> QED
    BY <2>1, <2>2
<1> QED
  BY <1>2, <1>3 DEF Low

LEMMA StateRanks ==
    /\ StateRank("open") = 1 /\ StateRank("open_degraded") = 2
    /\ StateRank("open_capacity_constrained") = 3
    /\ StateRank("open_but_communications_degraded") = 4
    /\ StateRank("open_but_uninsurable") = 5 /\ StateRank("functionally_closed") = 6
    /\ StateRank("physically_closed") = 7
<1>1. ASSUME NEW i \in DOMAIN States PROVE StateRank(States[i]) = i
  <2>1. \A j \in DOMAIN States : States[j] = States[i] => j = i
    BY DEF States
  <2> QED
    BY <2>1 DEF StateRank
<1>2. /\ States[1] = "open" /\ States[2] = "open_degraded"
      /\ States[3] = "open_capacity_constrained"
      /\ States[4] = "open_but_communications_degraded"
      /\ States[5] = "open_but_uninsurable" /\ States[6] = "functionally_closed"
      /\ States[7] = "physically_closed" /\ DOMAIN States = 1..7
  BY DEF States
<1> QED
  BY <1>1, <1>2

\* _classify(): neither more risk nor a worse reading improves the state.
LEMMA StateFollows ==
    ASSUME NEW items, NEW now, Scorable(items, now), NEW o, NEW w, NEW others,
           Scorable(others, now), Swapped(items, o, w, others), AsBad(o, w),
           NEW risk \in Int, NEW more \in Int, risk <= more
    PROVE  StateRank(Classify(more, others)) >= StateRank(Classify(risk, items))
<1> DEFINE p(x) == Low(x, "port_availability", 1)
           i(x) == Low(x, "insurance_availability", 10)
           s(x) == Low(x, "satcom_availability", 20)
           c(x) == Low(x, "port_capacity", 15)
<1>1. (p(items) => p(others)) /\ (i(items) => i(others)) /\ (s(items) => s(others)) /\ (c(items) => c(others))
  <2>1. ASSUME NEW m \in LowMetrics, NEW v \in Nat PROVE Low(items, m, v) => Low(others, m, v)
    BY LowStays
  <2>2. /\ "port_availability" \in LowMetrics /\ "insurance_availability" \in LowMetrics
        /\ "satcom_availability" \in LowMetrics /\ "port_capacity" \in LowMetrics
    BY DEF LowMetrics
  <2> QED
    BY <2>1, <2>2
<1>2. Classify(more, others) = StateOf(more, others) /\ Classify(risk, items) = StateOf(risk, items)
  BY ClassifyIsState
<1> DEFINE rank(x, r) == IF p(x) THEN 7 ELSE IF r >= 7200 THEN 6 ELSE IF i(x) THEN 5
                         ELSE IF s(x) THEN 4 ELSE IF c(x) THEN 3 ELSE IF r >= 3800 THEN 2 ELSE 1
<1>3. StateRank(StateOf(more, others)) = rank(others, more) /\ StateRank(StateOf(risk, items)) = rank(items, risk)
  BY StateRanks DEF StateOf
<1> HIDE DEF p, i, s, c
<1>4. rank(others, more) >= rank(items, risk)
  BY <1>1
<1> HIDE DEF rank
<1> QED
  BY <1>2, <1>3, <1>4
\* assess(): with a reading in place of a milder one the risk does not fall, the state does
\* not improve and no factor leaves those that raise the risk.
LEMMA AssessmentFollows ==
    ASSUME NEW F, IsFiniteSet(F), \A x \in F : Kept(x), NEW now \in Int, Accepted(F, now),
           NEW G, IsFiniteSet(G), \A x \in G : Kept(x), Accepted(G, now),
           NEW o, NEW w, Swapped(F, o, w, G), AsBad(o, w)
    PROVE  /\ Assess(G, now).risk >= Assess(F, now).risk
           /\ StateRank(Assess(G, now).state) >= StateRank(Assess(F, now).state)
           /\ Attribution(Assess(F, now)).raising \subseteq Attribution(Assess(G, now)).raising
<1> DEFINE items == Scored(F, now)
           others == Scored(G, now)
           a == Assess(F, now)
           b == Assess(G, now)
           risk == Min({Whole, Charged(items, now)})
           more == Min({Whole, Charged(others, now)})
<1>1. Scorable(items, now) /\ Scorable(others, now)
  BY ScoredIsScorable
<1>2. /\ a.factors = Risks(items, now) /\ a.risk = risk /\ a.state = Classify(risk, items)
      /\ b.factors = Risks(others, now) /\ b.risk = more /\ b.state = Classify(more, others)
  BY AssessedParts
<1>3. a.risk \in 0..Whole /\ b.risk \in 0..Whole
  BY AssessmentBounds DEF AssessmentOK
<1>4. /\ Attribution(a).raising = {f \in DOMAIN a.factors : a.factors[f] >= Whole \div 2}
      /\ Attribution(b).raising = {f \in DOMAIN b.factors : b.factors[f] >= Whole \div 2}
  BY DEF Attribution
<1>5. Current(w, now) <=> Current(o, now)
  BY SameWeight
<1>6. o \in F /\ w \notin F /\ G = (F \ {o}) \cup {w} /\ w.metric = o.metric
  BY DEF Swapped
<1>7. CASE o \notin items
  <2>1. others = items
    BY <1>5, <1>6, <1>7 DEF Scored
  <2>2. a.risk = b.risk /\ a.state = b.state /\ a.factors = b.factors
    BY <1>2, <2>1
  <2>3. StateRank(b.state) >= StateRank(a.state)
    <3>1. Classify(risk, items) = StateOf(risk, items)
      BY <1>1, ClassifyIsState
    <3>2. StateRank(StateOf(risk, items)) \in Int
      BY StateRanks DEF StateOf
    <3> HIDE DEF a, b, risk, items
    <3> QED
      BY <1>2, <2>2, <3>1, <3>2
  <2>4. Attribution(a).raising = Attribution(b).raising
    BY <1>4, <2>2
  <2> HIDE DEF a, b
  <2>5. b.risk >= a.risk
    BY <1>3, <2>2, WholeNat
  <2> QED
    BY <2>3, <2>4, <2>5 DEF a, b
<1>8. CASE o \in items
  <2>1. Swapped(items, o, w, others)
    BY <1>5, <1>6, <1>8 DEF Swapped, Scored
  <2>2. o.metric \in FactorMetrics /\ Kept(o) /\ Kept(w)
    BY <1>1, <1>6, <1>8 DEF Scorable
  <2>3. MetricRisk(o) <= MetricRisk(w)
    BY <1>6, <2>2, WorseIsRiskier
  <2> HIDE DEF items, others
  <2>4. /\ Factors(others) = Factors(items) /\ Confidences(others, now) = Confidences(items, now)
        /\ \A f \in Factors(items) : Risks(items, now)[f] <= Risks(others, now)[f]
        /\ Metrics(others) = Metrics(items)
    BY <1>1, <2>1, <2>3, TablesFollow
  <2>5. DOMAIN Risks(items, now) = Factors(items) /\ DOMAIN Risks(others, now) = Factors(items)
    BY <2>4 DEF Risks
  <2>6. RiskTable(Risks(items, now)) /\ RiskTable(Risks(others, now)) /\ Factors(items) # {}
    <3>1. items # {} /\ others # {}
      BY <2>1 DEF Swapped
    <3> QED
      BY <1>1, <3>1, FactorTables
  <2>7. Base(items, now) <= Base(others, now)
    <3>1. WeightedMean(Risks(items, now)) <= WeightedMean(Risks(others, now))
      BY <2>4, <2>5, <2>6, MeanMonotone
    <3> QED
      BY <2>4, <2>6, <3>1 DEF Base
  <2>8. MeanConfidence(others, now) = MeanConfidence(items, now) /\ Gap(others) = Gap(items)
    BY <2>4 DEF MeanConfidence, Gap
  <2>9. risk \in Int /\ more \in Int /\ risk <= more
    <3> DEFINE x == Base(items, now)
               y == Base(others, now)
               k == Gap(items)
               r == (Whole - MeanConfidence(items, now)) \div 10
    <3>1. x \in 0..Whole /\ y \in 0..Whole /\ k \in Nat /\ r \in Nat
      BY <1>1, ChargesAreNumbers
    <3>2. Charged(items, now) = x + k + r /\ Charged(others, now) = y + k + r
      BY <2>8 DEF Charged
    <3>3. x <= y
      BY <2>7
    <3> HIDE DEF x, y, k, r
    <3>4. x + k + r \in Int /\ y + k + r \in Int /\ x + k + r <= y + k + r
      BY <3>1, <3>3, WholeNat
    <3>5. \A z \in Int : Min({Whole, z}) = IF z < Whole THEN z ELSE Whole
      BY WholeNat, Clamped
    <3> QED
      BY <3>2, <3>4, <3>5, WholeNat
  <2> HIDE DEF risk, more
  <2>10. StateRank(Classify(more, others)) >= StateRank(Classify(risk, items))
    BY <1>1, <2>1, <2>9, StateFollows
  <2>11. Attribution(a).raising \subseteq Attribution(b).raising
    <3> SUFFICES ASSUME NEW f \in DOMAIN a.factors, a.factors[f] >= Whole \div 2
                 PROVE  f \in DOMAIN b.factors /\ b.factors[f] >= Whole \div 2
      BY <1>4
    <3>1. /\ f \in Factors(items) /\ f \in DOMAIN b.factors
          /\ a.factors[f] = Risks(items, now)[f] /\ b.factors[f] = Risks(others, now)[f]
      BY <1>2, <2>5
    <3>2. a.factors[f] <= b.factors[f]
      BY <2>4, <3>1
    <3>3. a.factors[f] \in Int /\ b.factors[f] \in Int
      <4>1. a.factors[f] \in 0..Whole /\ b.factors[f] \in 0..Whole
        BY <2>5, <2>6, <3>1 DEF RiskTable
      <4> QED
        BY <4>1, WholeNat
    <3>4. Whole \div 2 \in Int
      BY WholeIsNumber
    <3> HIDE DEF a, b
    <3> QED
      BY <3>1, <3>2, <3>3, <3>4
  <2> HIDE DEF a, b
  <2>12. b.risk >= a.risk /\ StateRank(b.state) >= StateRank(a.state)
    BY <1>2, <2>9, <2>10
  <2> QED
    BY <2>11, <2>12 DEF a, b
<1> QED
  BY <1>7, <1>8
\* Of the steps that leave the clock and the number of observations alone only a revision
\* changes the feed, and it puts a worse reading in the place of another.
LEMMA OnlyRevisionsReplace ==
    ASSUME FeedInv, FeedInv', [Next]_vars, feed' # feed, Cardinality(feed') = Cardinality(feed)
    PROVE  \E o \in feed : Revise(o)
<1>1. ASSUME NEW observations, Receive(observations) PROVE FALSE
  <2>1. feed \in SUBSET feed' /\ IsFiniteSet(feed')
    BY <1>1 DEF Receive, FeedInv
  <2> QED
    BY <2>1, FS_Subset
<1>2. ~(\E t \in Reports : Report(t)) /\ ~(\E m \in Messages : Relay(m)) /\ ~Bridge
  BY <1>1 DEF Report, Relay, Bridge
<1> QED
  BY <1>2 DEF Next, Tick, BuildDecisionPacket, Sense, vars, fusionVars

LEMMA RevisionIsWorse ==
    ASSUME FeedInv, FeedInv', feed' # feed, Cardinality(feed') = Cardinality(feed),
           NEW o \in feed, Revise(o)
    PROVE  \E w : /\ Swapped(feed, o, w, feed') /\ AsBad(o, w)
                  /\ (Admissible(o) => Admissible(w))
<1> DEFINE m == o.metric
<1>1. PICK i \in 1..(Len(Worse[m]) - 1) :
          o.value = Worse[m][i] /\ feed' = (feed \ {o}) \cup {[o EXCEPT !.value = Worse[m][i + 1]]}
  BY DEF Revise
<1> DEFINE top == IF m = "inventory_days" THEN LongestStock ELSE 100
           v == Worse[m][i + 1]
           w == [o EXCEPT !.value = v]
<1>2. m \in DOMAIN Worse
  BY DEF Revise
<1>3. Worse[m] \in Seq(0..top) /\ (IF m \in Rising THEN Worse[m][i] <= v ELSE Worse[m][i] >= v)
  BY <1>1, <1>2, WorseAssumption
<1>4. o.value \in 0..top /\ v \in 0..top
  <2> DEFINE V == 0..top
  <2>1. Worse[m] \in Seq(V)
    BY <1>3
  <2> HIDE DEF m, V
  <2>2. Len(Worse[m]) \in Nat
    BY <2>1
  <2>3. i \in 1..Len(Worse[m]) /\ i + 1 \in 1..Len(Worse[m])
    BY <2>2
  <2>4. Worse[m][i] \in V /\ Worse[m][i + 1] \in V
    BY <2>1, <2>3
  <2> QED
    BY <1>1, <2>4 DEF V
<1>5. DOMAIN o = Fields
  BY DEF FeedInv, Kept, Typed
<1>6. /\ w.value = v /\ w.metric = m /\ w.at = o.at /\ w.until = o.until
      /\ w.confidence = o.confidence /\ w.source = o.source /\ w.trust = o.trust
      /\ w.assertion = o.assertion /\ w.judged = o.judged
  <2> HIDE DEF v
  <2> QED
    BY <1>5 DEF Fields
<1>7. feed' = (feed \ {o}) \cup {w}
  BY <1>1
<1>8. AsBad(o, w)
  <2>1. IF m \in Rising THEN o.value <= w.value ELSE o.value >= w.value
    BY <1>1, <1>3, <1>6
  <2>2. m # "inventory_days" => o.value \in 0..100 /\ w.value \in 0..100
    BY <1>4, <1>6
  <2> HIDE DEF w
  <2> QED
    BY <2>1, <2>2 DEF AsBad
<1>9. Admissible(o) => Admissible(w)
  BY <1>6, Zenon DEF Admissible
<1> HIDE DEF w
<1>10. w \notin feed
  <2> SUFFICES ASSUME w \in feed PROVE FALSE
    OBVIOUS
  <2>1. CASE w = o
    BY <1>7, <2>1
  <2>2. CASE w # o
    <3>1. feed' = feed \ {o}
      BY <1>7, <2>2
    <3>2. Cardinality(feed \ {o}) = Cardinality(feed) - 1 /\ Cardinality(feed) \in Nat
      BY FS_RemoveElement, FS_CardinalityType DEF FeedInv
    <3> QED
      BY <3>1, <3>2
  <2> QED
    BY <2>1, <2>2
<1>11. Swapped(feed, o, w, feed')
  BY <1>6, <1>7, <1>10 DEF Swapped
<1> QED
  BY <1>8, <1>9, <1>11

\* A reading that is revised for the worse never helps a corridor, whatever the reports and
\* their number, the times and the scales (metric_risk, assess, _classify and explain).
THEOREM RevisionNeverHelps == Spec => WorseReadingNeverHelps
<1> DEFINE Worsened ==
        (feed' # feed /\ Cardinality(feed') = Cardinality(feed) /\ clock' = clock
            /\ Accepted(feed, clock)) =>
        LET before == Assess(feed, clock)
            after == Assess(feed', clock)
        IN /\ Accepted(feed', clock)
           /\ after.risk >= before.risk
           /\ StateRank(after.state) >= StateRank(before.state)
           /\ Attribution(before).raising \subseteq Attribution(after).raising
<1>1. FeedInv /\ FeedInv' /\ [Next]_vars => Worsened
  <2> SUFFICES ASSUME FeedInv, FeedInv', [Next]_vars, feed' # feed,
                      Cardinality(feed') = Cardinality(feed), Accepted(feed, clock)
               PROVE  /\ Accepted(feed', clock)
                      /\ Assess(feed', clock).risk >= Assess(feed, clock).risk
                      /\ StateRank(Assess(feed', clock).state) >= StateRank(Assess(feed, clock).state)
                      /\ Attribution(Assess(feed, clock)).raising
                           \subseteq Attribution(Assess(feed', clock)).raising
    OBVIOUS
  <2>1. PICK o \in feed : Revise(o)
    BY OnlyRevisionsReplace
  <2>2. PICK w : Swapped(feed, o, w, feed') /\ AsBad(o, w) /\ (Admissible(o) => Admissible(w))
    BY <2>1, RevisionIsWorse
  <2> DEFINE F == feed
             G == feed'
             now == clock
  <2>3. /\ IsFiniteSet(F) /\ (\A x \in F : Kept(x)) /\ now \in Int
        /\ IsFiniteSet(G) /\ (\A x \in G : Kept(x))
    BY DEF FeedInv
  <2>4. Swapped(F, o, w, G) /\ Accepted(F, now)
    BY <2>2
  <2> HIDE DEF F, G, now
  <2>5. Accepted(G, now)
    <3>1. o \in F /\ G = (F \ {o}) \cup {w}
      BY <2>4 DEF Swapped
    <3>2. \A x \in G : Admissible(x)
      BY <2>2, <2>4, <3>1 DEF Accepted
    <3>3. Current(w, now) <=> Current(o, now)
      BY <2>4, SameWeight
    <3>4. \E x \in G : Current(x, now)
      BY <2>4, <3>1, <3>3 DEF Accepted
    <3> QED
      BY <3>2, <3>4 DEF Accepted
  <2>6. /\ Assess(G, now).risk >= Assess(F, now).risk
        /\ StateRank(Assess(G, now).state) >= StateRank(Assess(F, now).state)
        /\ Attribution(Assess(F, now)).raising \subseteq Attribution(Assess(G, now)).raising
    BY <2>2, <2>3, <2>4, <2>5, AssessmentFollows
  <2> QED
    BY <2>5, <2>6 DEF F, G, now
<1>2. WorseReadingNeverHelps <=> [][Worsened]_vars
  BY DEF WorseReadingNeverHelps
<1> HIDE DEF Worsened
<1> QED
  BY <1>1, <1>2, FeedAlwaysKept, PTL DEF Spec
-----------------------------------------------------------------------------
(* A reading that gets worse.                                              *)

\* One reading is nowhere better than another, and both are readings of the engine.
Worsens(e, r, s) ==
    \A p \in PartsOf[e] :
        /\ NoBetter(e, p, r[p], s[p])
        /\ p \in Amount => r[p] >= 0 /\ s[p] >= 0
        /\ p = "health" => r[p] > 0 /\ s[p] > 0
        /\ p = "cushion" => r[p] <= 100 /\ s[p] <= 100
        /\ p = "km" => r[p] >= 5 /\ s[p] >= 5
        /\ p = "value" => /\ Len(History) * r[p] >= SumOf(History)
                         /\ Len(History) * s[p] >= SumOf(History)

Falls(r, s, p) == r[p] \in Int /\ s[p] \in Int /\ s[p] <= r[p]
Rises(r, s, p) == r[p] \in Int /\ s[p] \in Int /\ r[p] <= s[p]
Grows(r, s, p) == r[p] \in Nat /\ s[p] \in Nat /\ r[p] <= s[p]
Set(r, s, p) == r[p] \in BOOLEAN /\ s[p] \in BOOLEAN /\ (r[p] => s[p])
Lost(r, s, p) == r[p] \in BOOLEAN /\ s[p] \in BOOLEAN /\ (s[p] => r[p])

\* The engine sees at least as much threat, and its verdict is no milder.
SeesWorse(e, r, s) ==
    /\ Threat(e, s) >= Threat(e, r)
    /\ Rank(e, Verdict(e, s)) >= Rank(e, Verdict(e, r))

\* A number that gets worse by rising.
Upward(p) == p \notin BadFlag \cup GoodFlag \cup FallingPart \cup Items \cup Named

LEMMA PartFalls ==
    ASSUME NEW e, NEW r, NEW s, Worsens(e, r, s), NEW p \in PartsOf[e],
           p \in FallingPart, p \notin BadFlag, p \notin GoodFlag
    PROVE  Falls(r, s, p)
BY DEF Worsens, NoBetter, Falls

LEMMA PartRises ==
    ASSUME NEW e, NEW r, NEW s, Worsens(e, r, s), NEW p \in PartsOf[e],
           Upward(p)
    PROVE  Rises(r, s, p) /\ (p \in Amount => Grows(r, s, p))
BY DEF Worsens, NoBetter, Rises, Grows, Upward

LEMMA FlagSet ==
    ASSUME NEW e, NEW r, NEW s, Worsens(e, r, s), NEW p \in PartsOf[e], p \in BadFlag
    PROVE  Set(r, s, p)
BY DEF Worsens, NoBetter, Set

LEMMA FlagLost ==
    ASSUME NEW e, NEW r, NEW s, Worsens(e, r, s), NEW p \in PartsOf[e], p \in GoodFlag,
           p \notin BadFlag
    PROVE  Lost(r, s, p)
BY DEF Worsens, NoBetter, Lost

\* The position of a verdict in a list of different ones.
LEMMA RankAt ==
    ASSUME NEW e, NEW i \in DOMAIN Verdicts(e),
           \A j \in DOMAIN Verdicts(e) : Verdicts(e)[j] = Verdicts(e)[i] => j = i
    PROVE  Rank(e, Verdicts(e)[i]) = i
BY DEF Rank

\* Min and Max of two numbers.
LEMMA MinTwo ==
    ASSUME NEW k \in Int, NEW x \in Int
    PROVE  Min({k, x}) = (IF x < k THEN x ELSE k)
BY DEF Min

LEMMA MaxTwo ==
    ASSUME NEW k \in Int, NEW x \in Int
    PROVE  Max({k, x}) = (IF x > k THEN x ELSE k)
BY DEF Max

\* evaluate_channel()
LEMMA ChannelFollows ==
    ASSUME NEW r, NEW s, Worsens("starlink", r, s)
    PROVE  SeesWorse("starlink", r, s)
<1> DEFINE e == "starlink"
<1>1. \A p \in {"latency", "jitter", "rain", "obstruction", "loss"} :
          /\ p \in PartsOf[e]
          /\ Upward(p)
  BY DEF PartsOf, FallingPart, BadFlag, GoodFlag, TrustParts, Dimensions, Items, Named, Upward
<1>2. \A p \in {"latency", "jitter", "rain", "obstruction", "loss"} : Rises(r, s, p)
  BY <1>1, PartRises
<1>3. /\ r.latency \in Int /\ s.latency \in Int /\ r.latency <= s.latency
      /\ r.jitter \in Int /\ s.jitter \in Int /\ r.jitter <= s.jitter
      /\ r.rain \in Int /\ s.rain \in Int /\ r.rain <= s.rain
      /\ r.obstruction \in Int /\ s.obstruction \in Int /\ r.obstruction <= s.obstruction
      /\ r.loss \in Int /\ s.loss \in Int /\ r.loss <= s.loss
  BY <1>2 DEF Rises
<1> DEFINE sum(x) == (IF x.latency > 120 THEN 350 ELSE Sometimes(x.latency > 65, 150))
                     + Sometimes(x.jitter > 25, 200) + Sometimes(x.rain > 8, 300)
                     + Sometimes(x.obstruction > 10, 400) + Sometimes(x.loss > 5, 350)
<1>4. sum(r) \in Int /\ sum(s) \in Int /\ sum(r) <= sum(s)
  BY <1>3 DEF Sometimes
<1>5. ChannelThreat(r) = Min({1000, sum(r)}) /\ ChannelThreat(s) = Min({1000, sum(s)})
  BY DEF ChannelThreat
<1> HIDE DEF sum
<1>6. /\ ChannelThreat(r) \in Int /\ ChannelThreat(s) \in Int
      /\ ChannelThreat(r) <= ChannelThreat(s)
  BY <1>4, <1>5, MinTwo
<1>7. Threat(e, r) = ChannelThreat(r) /\ Threat(e, s) = ChannelThreat(s)
  BY ScaleAssumption DEF Threat
<1>8. /\ Rank(e, "OPTIMAL") = 1 /\ Rank(e, "DEGRADED_LATENCY") = 2
      /\ Rank(e, "RAIN_FADE_ATTENUATED") = 3 /\ Rank(e, "OFFLINE") = 4
  <2>1. Verdicts(e) = <<"OPTIMAL", "DEGRADED_LATENCY", "RAIN_FADE_ATTENUATED", "OFFLINE">>
    BY DEF Verdicts
  <2>2. ASSUME NEW i \in 1..4 PROVE Rank(e, Verdicts(e)[i]) = i
    BY <2>1, RankAt
  <2> QED
    BY <2>1, <2>2
<1>9. Verdict(e, r) = ChannelState(r) /\ Verdict(e, s) = ChannelState(s)
  BY DEF Verdict
<1> HIDE DEF e
<1>10. Rank(e, ChannelState(s)) >= Rank(e, ChannelState(r))
  BY <1>3, <1>6, <1>8 DEF ChannelState
<1> QED
  BY <1>6, <1>7, <1>9, <1>10 DEF SeesWorse, e
\* A scaled number keeps its order through division.
LEMMA ScaledMonotone ==
    ASSUME NEW x \in Nat, NEW y \in Nat, x <= y, NEW k \in Nat, NEW w \in Nat, w > 0
    PROVE  /\ (x * k) \div w \in Nat /\ (y * k) \div w \in Nat
           /\ (x * k) \div w <= (y * k) \div w
<1>1. x * k \in Nat /\ y * k \in Nat /\ x * k <= y * k
  <2>1. x * k \in Nat /\ y * k \in Nat /\ (y - x) * k \in Nat
    OBVIOUS
  <2>2. y * k = x * k + (y - x) * k
    OBVIOUS
  <2> QED
    BY <2>1, <2>2
<1> DEFINE a == x * k
           b == y * k
<1> HIDE DEF a, b
<1>2. a \in Nat /\ b \in Nat /\ a <= b
  BY <1>1 DEF a, b
<1>3. a \div w \in Nat /\ b \div w \in Nat /\ a \div w <= b \div w
  BY <1>2, Quotient, QuotientMonotone
<1> QED
  BY <1>3 DEF a, b

\* Two verdicts in order.
LEMMA TwoRanks ==
    ASSUME NEW e, NEW x, NEW y, x # y, Verdicts(e) = <<x, y>>
    PROVE  Rank(e, x) = 1 /\ Rank(e, y) = 2
<1>1. ASSUME NEW i \in 1..2 PROVE Rank(e, Verdicts(e)[i]) = i
  BY RankAt
<1> QED
  BY <1>1

\* The five levels in order.
LEMMA LevelRanks ==
    ASSUME NEW e, Verdicts(e) = <<"NOMINAL", "LOW", "MEDIUM", "HIGH", "CRITICAL">>
    PROVE  /\ Rank(e, "NOMINAL") = 1 /\ Rank(e, "LOW") = 2 /\ Rank(e, "MEDIUM") = 3
           /\ Rank(e, "HIGH") = 4 /\ Rank(e, "CRITICAL") = 5
<1>1. ASSUME NEW i \in 1..5 PROVE Rank(e, Verdicts(e)[i]) = i
  BY RankAt
<1> QED
  BY <1>1

\* Engines that give a score and no verdict.
LEMMA NoVerdict ==
    ASSUME NEW e \in {"minimum", "mean", "weighted", "loss", "warloss", "failure", "reroute", "vessels",
                     "anomaly"},
           NEW r
    PROVE  Rank(e, Verdict(e, r)) = 1
<1>1. Verdict(e, r) = "NOMINAL"
  BY DEF Verdict
<1>2. Verdicts(e) = <<"NOMINAL", "LOW", "MEDIUM", "HIGH", "CRITICAL">>
  BY DEF Verdicts
<1> QED
  BY <1>1, <1>2, LevelRanks

\* evaluate_query_telemetry()
LEMMA InsiderFollows ==
    ASSUME NEW r, NEW s, Worsens("insider", r, s)
    PROVE  SeesWorse("insider", r, s)
<1> DEFINE e == "insider"
<1>1. \A p \in {"queries", "boxes", "escalations"} :
          /\ p \in PartsOf[e]
          /\ Upward(p)
  BY DEF PartsOf, FallingPart, BadFlag, GoodFlag, TrustParts, Dimensions, Items, Named, Upward
<1>2. \A p \in {"queries", "boxes", "escalations"} : Rises(r, s, p)
  BY <1>1, PartRises
<1>3. /\ r.queries \in Int /\ s.queries \in Int /\ r.queries <= s.queries
      /\ r.boxes \in Int /\ s.boxes \in Int /\ r.boxes <= s.boxes
      /\ r.escalations \in Int /\ s.escalations \in Int /\ r.escalations <= s.escalations
  BY <1>2 DEF Rises
<1> DEFINE sum(x) == 100 + (IF x.queries > 500 THEN 350 ELSE 0)
                         + (IF x.boxes > 20 THEN 300 ELSE 0)
                         + (IF x.escalations > 0 THEN 400 ELSE 0)
<1>4. sum(r) \in Int /\ sum(s) \in Int /\ sum(r) <= sum(s)
  BY <1>3
<1>5. InsiderScore(r) = Min({1000, sum(r)}) /\ InsiderScore(s) = Min({1000, sum(s)})
  BY DEF InsiderScore
<1> HIDE DEF sum
<1>6. InsiderScore(r) \in Int /\ InsiderScore(s) \in Int /\ InsiderScore(r) <= InsiderScore(s)
  BY <1>4, <1>5, MinTwo
<1>7. Threat(e, r) = InsiderScore(r) /\ Threat(e, s) = InsiderScore(s)
  BY ScaleAssumption DEF Threat
<1>8. Rank(e, FALSE) = 1 /\ Rank(e, TRUE) = 2
  <2>1. Verdicts(e) = <<FALSE, TRUE>>
    BY DEF Verdicts
  <2> QED
    BY <2>1, TwoRanks, Zenon
<1>9. Verdict(e, r) = InsiderThreat(r) /\ Verdict(e, s) = InsiderThreat(s)
  BY DEF Verdict
<1>10. /\ InsiderThreat(r) = TRUE => InsiderThreat(s) = TRUE
       /\ InsiderThreat(r) \in BOOLEAN /\ InsiderThreat(s) \in BOOLEAN
  BY <1>6 DEF InsiderThreat
<1> HIDE DEF e
<1>11. Rank(e, InsiderThreat(s)) >= Rank(e, InsiderThreat(r))
  <2>1. CASE InsiderThreat(s) = TRUE
    <3>1. Rank(e, InsiderThreat(s)) = 2 /\ Rank(e, InsiderThreat(r)) \in {1, 2}
      BY <1>8, <1>10, <2>1
    <3> QED
      BY <3>1
  <2>2. CASE InsiderThreat(s) = FALSE
    <3>1. Rank(e, InsiderThreat(s)) = 1 /\ Rank(e, InsiderThreat(r)) = 1
      BY <1>8, <1>10, <2>2
    <3> QED
      BY <3>1
  <2> QED
    BY <1>10, <2>1, <2>2
<1> QED
  BY <1>6, <1>7, <1>9, <1>11 DEF SeesWorse, e

\* run_full_scan()
LEMMA ScanFollows ==
    ASSUME NEW r, NEW s, Worsens("scan", r, s)
    PROVE  SeesWorse("scan", r, s)
<1> DEFINE e == "scan"
<1>1. /\ \A p \in {"variance", "drift", "commands", "untrusted", "jump"} :
            /\ p \in PartsOf[e]
            /\ Upward(p)
      /\ \A p \in {"cno", "elapsed"} :
            /\ p \in PartsOf[e]
            /\ p \in FallingPart /\ p \notin BadFlag /\ p \notin GoodFlag
      /\ "tampered" \in PartsOf[e] /\ "tampered" \in BadFlag
      /\ "variance" \in Amount /\ "drift" \in Amount
  BY DEF PartsOf, FallingPart, BadFlag, GoodFlag, TrustParts, Dimensions, Items, Named, Amount,
         Upward
<1>2. /\ Grows(r, s, "variance") /\ Grows(r, s, "drift") /\ Rises(r, s, "commands")
      /\ Rises(r, s, "untrusted") /\ Rises(r, s, "jump")
  BY <1>1, PartRises
<1>3. Falls(r, s, "cno") /\ Falls(r, s, "elapsed")
  BY <1>1, PartFalls
<1>4. Set(r, s, "tampered")
  BY <1>1, FlagSet
<1>5. /\ r.variance \in Nat /\ s.variance \in Nat /\ r.variance <= s.variance
      /\ r.drift \in Nat /\ s.drift \in Nat /\ r.drift <= s.drift
      /\ r.commands \in Int /\ s.commands \in Int /\ r.commands <= s.commands
      /\ r.untrusted \in Int /\ s.untrusted \in Int /\ r.untrusted <= s.untrusted
      /\ r.jump \in Int /\ s.jump \in Int /\ r.jump <= s.jump
      /\ r.cno \in Int /\ s.cno \in Int /\ s.cno <= r.cno
      /\ r.elapsed \in Int /\ s.elapsed \in Int /\ s.elapsed <= r.elapsed
  BY <1>2, <1>3 DEF Grows, Rises, Falls
<1>6. /\ GnssScore(r) \in Int /\ GnssScore(s) \in Int /\ GnssScore(r) <= GnssScore(s)
  <2> DEFINE drop(x) == Max({0, 42 - x.cno})
             residual(x) == Min({50, x.variance})
             clock_(x) == Min({100, x.drift})
             sum(x) == (drop(x) * 400) \div 25 + (residual(x) * 400) \div 50
                       + (clock_(x) * 200) \div 100
  <2>1. drop(r) \in Nat /\ drop(s) \in Nat /\ drop(r) <= drop(s)
    BY <1>5, MaxTwo
  <2>2. residual(r) \in Nat /\ residual(s) \in Nat /\ residual(r) <= residual(s)
    BY <1>5, MinTwo
  <2>3. clock_(r) \in Nat /\ clock_(s) \in Nat /\ clock_(r) <= clock_(s)
    BY <1>5, MinTwo
  <2>4. GnssScore(r) = Min({1000, sum(r)}) /\ GnssScore(s) = Min({1000, sum(s)})
    <3> DEFINE d(x) == IF x.drift < 0 THEN -x.drift ELSE x.drift
               whole(x, y) == Min({1000, (drop(x) * 400) \div 25 + (residual(x) * 400) \div 50
                                         + (Min({100, y}) * 200) \div 100})
    <3>1. d(r) = r.drift /\ d(s) = s.drift
      BY <1>5
    <3>2. GnssScore(r) = whole(r, d(r)) /\ GnssScore(s) = whole(s, d(s))
      BY DEF GnssScore, GnssDrop
    <3>3. /\ whole(r, r.drift) = Min({1000, sum(r)})
          /\ whole(s, s.drift) = Min({1000, sum(s)})
      OBVIOUS
    <3> HIDE DEF d, whole, sum
    <3> QED
      BY <3>1, <3>2, <3>3
  <2> HIDE DEF drop, residual, clock_
  <2>5. /\ (drop(r) * 400) \div 25 \in Nat /\ (drop(s) * 400) \div 25 \in Nat
        /\ (drop(r) * 400) \div 25 <= (drop(s) * 400) \div 25
    BY <2>1, ScaledMonotone
  <2>6. /\ (residual(r) * 400) \div 50 \in Nat /\ (residual(s) * 400) \div 50 \in Nat
        /\ (residual(r) * 400) \div 50 <= (residual(s) * 400) \div 50
    BY <2>2, ScaledMonotone
  <2>7. /\ (clock_(r) * 200) \div 100 \in Nat /\ (clock_(s) * 200) \div 100 \in Nat
        /\ (clock_(r) * 200) \div 100 <= (clock_(s) * 200) \div 100
    BY <2>3, ScaledMonotone
  <2>8. sum(r) \in Int /\ sum(s) \in Int /\ sum(r) <= sum(s)
    BY <2>5, <2>6, <2>7
  <2> HIDE DEF sum
  <2> QED
    BY <2>4, <2>8, MinTwo
<1>7. ScadaScore(r) \in Int /\ ScadaScore(s) \in Int /\ ScadaScore(r) <= ScadaScore(s)
  <2> DEFINE t(x) == IF x.tampered THEN 500 ELSE 0
             u(x) == Min({5, x.untrusted})
             sum(x) == t(x) + (IF x.commands > 100 THEN 300 ELSE 0) + u(x) * 40
  <2>1. t(r) \in Nat /\ t(s) \in Nat /\ t(r) <= t(s)
    <3>1. r.tampered \in BOOLEAN /\ s.tampered \in BOOLEAN /\ (r.tampered => s.tampered)
      BY <1>4 DEF Set
    <3> QED
      BY <3>1
  <2>2. u(r) \in Int /\ u(s) \in Int /\ u(r) <= u(s)
    BY <1>5, MinTwo
  <2>3. ScadaScore(r) = Min({1000, sum(r)}) /\ ScadaScore(s) = Min({1000, sum(s)})
    BY DEF ScadaScore
  <2> HIDE DEF t, u
  <2>4. sum(r) \in Int /\ sum(s) \in Int /\ sum(r) <= sum(s)
    BY <1>5, <2>1, <2>2
  <2> HIDE DEF sum
  <2> QED
    BY <2>3, <2>4, MinTwo
<1>8. AisScore(r) \in Int /\ AisScore(s) \in Int /\ AisScore(r) <= AisScore(s)
  <2> DEFINE t(x) == Max({1, x.elapsed})
  <2>1. t(r) \in Int /\ t(s) \in Int /\ t(s) <= t(r)
    BY <1>5, MaxTwo
  <2>2. /\ Impossible(r) <=> \/ r.jump * 36000 > 833 * t(r)
                             \/ r.jump > 50 /\ r.elapsed < 120
        /\ Impossible(s) <=> \/ s.jump * 36000 > 833 * t(s)
                             \/ s.jump > 50 /\ s.elapsed < 120
    BY DEF Impossible
  <2> HIDE DEF t
  <2>3. Impossible(r) => Impossible(s)
    BY <1>5, <2>1, <2>2
  <2> QED
    BY <2>3 DEF AisScore
<1>9. ScanScore(r) \in Int /\ ScanScore(s) \in Int /\ ScanScore(r) <= ScanScore(s)
  <2>1. \A a, b, c \in Int :
            Max({a, b, c}) = IF a >= b /\ a >= c THEN a ELSE IF b >= c THEN b ELSE c
    BY DEF Max
  <2> QED
    BY <1>6, <1>7, <1>8, <2>1 DEF ScanScore
<1>10. Threat(e, r) = ScanScore(r) /\ Threat(e, s) = ScanScore(s)
  BY ScaleAssumption DEF Threat
<1>11. Rank(e, "NOMINAL") = 1 /\ Rank(e, "HIGH") = 4 /\ Rank(e, "CRITICAL") = 5
  <2>1. Verdicts(e) = <<"NOMINAL", "LOW", "MEDIUM", "HIGH", "CRITICAL">>
    BY DEF Verdicts
  <2> QED
    BY <2>1, LevelRanks
<1>12. Verdict(e, r) = ScanLevel(r) /\ Verdict(e, s) = ScanLevel(s)
  BY DEF Verdict
<1> HIDE DEF e
<1>13. Rank(e, ScanLevel(s)) >= Rank(e, ScanLevel(r))
  BY <1>9, <1>11 DEF ScanLevel
<1> QED
  BY <1>9, <1>10, <1>12, <1>13 DEF SeesWorse, e
\* Products and quotients keep the order of their parts.
LEMMA ProductMonotone ==
    ASSUME NEW x \in Nat, NEW y \in Nat, x <= y, NEW v \in Nat, NEW w \in Nat, v <= w
    PROVE  x * v \in Nat /\ y * w \in Nat /\ x * v <= y * w
<1>1. x * v \in Nat /\ y * w \in Nat /\ (y - x) * w \in Nat /\ x * (w - v) \in Nat
  OBVIOUS
<1>2. y * w = x * v + (y - x) * w + x * (w - v)
  OBVIOUS
<1> QED
  BY <1>1, <1>2

LEMMA QuotientFollows ==
    ASSUME NEW x \in Nat, NEW y \in Nat, x <= y, NEW v \in Nat, NEW w \in Nat, w <= v, w > 0
    PROVE  x \div v \in Nat /\ y \div w \in Nat /\ x \div v <= y \div w
<1> DEFINE q == x \div v
           t == y \div w
<1>1. /\ q \in Nat /\ v * q <= x
      /\ t \in Nat /\ y < w * t + w
  BY Quotient
<1> HIDE DEF q, t
<1>2. w * q \in Nat /\ v * q \in Nat /\ w * q <= v * q
  BY <1>1, ProductMonotone
<1>3. q <= t
  <2> SUFFICES ASSUME q >= t + 1 PROVE FALSE
    BY <1>1
  <2>1. w * (t + 1) \in Nat /\ w * (t + 1) <= w * q
    BY <1>1, ProductMonotone
  <2>2. w * (t + 1) = w * t + w /\ w * t \in Nat
    BY <1>1
  <2> QED
    BY <1>1, <1>2, <2>1, <2>2
<1> QED
  BY <1>1, <1>3 DEF q, t

\* Three verdicts in order.
LEMMA ThreeRanks ==
    ASSUME NEW e, NEW x, NEW y, NEW z, x # y, x # z, y # z, Verdicts(e) = <<x, y, z>>
    PROVE  Rank(e, x) = 1 /\ Rank(e, y) = 2 /\ Rank(e, z) = 3
<1>1. ASSUME NEW i \in 1..3 PROVE Rank(e, Verdicts(e)[i]) = i
  BY RankAt
<1> QED
  BY <1>1

\* More degree-days thaw at least as deep.
LEMMA ThawFollows ==
    ASSUME NEW x \in Nat, NEW y \in Nat, x <= y
    PROVE  ThawDepth(x) \in Nat /\ ThawDepth(y) \in Nat /\ ThawDepth(x) <= ThawDepth(y)
<1> DEFINE D(n) == {d \in 0..250 : 100 * d * d <= 1344 * n}
<1>1. ASSUME NEW n \in Nat
      PROVE  ThawDepth(n) \in D(n) /\ \A d \in D(n) : d <= ThawDepth(n)
  <2>1. 0 \in D(n)
    OBVIOUS
  <2> DEFINE T == {250 - d : d \in D(n)}
  <2>2. T \subseteq Nat /\ T # {}
    BY <2>1
  <2>3. PICK t \in T : \A k \in T : t <= k
    <3> HIDE DEF T
    <3> QED
      BY <2>2, LeastNumber
  <2>4. PICK m \in D(n) : t = 250 - m
    OBVIOUS
  <2>5. \A d \in D(n) : m >= d
    <3> SUFFICES ASSUME NEW d \in D(n) PROVE m >= d
      OBVIOUS
    <3>1. 250 - d \in T
      OBVIOUS
    <3>2. d \in 0..250 /\ m \in 0..250
      OBVIOUS
    <3> HIDE DEF T, D
    <3> QED
      BY <2>3, <2>4, <3>1, <3>2
  <2>6. D(n) \subseteq Int
    OBVIOUS
  <2>7. ThawDepth(n) = Max(D(n))
    BY DEF ThawDepth
  <2> HIDE DEF D, T
  <2>8. Max(D(n)) \in D(n) /\ \A d \in D(n) : Max(D(n)) >= d
    BY <2>5 DEF Max
  <2> QED
    BY <2>6, <2>7, <2>8
<1>2. D(x) \subseteq D(y)
  <2> SUFFICES ASSUME NEW d \in D(x) PROVE d \in D(y)
    OBVIOUS
  <2>1. d \in 0..250 /\ 100 * d * d <= 1344 * x
    OBVIOUS
  <2> DEFINE q == 100 * d * d
  <2>2. q \in Int
    BY <2>1
  <2> HIDE DEF q
  <2>3. q <= 1344 * y
    BY <2>1, <2>2 DEF q
  <2> QED
    BY <2>1, <2>3 DEF q
<1>3. D(x) \subseteq Nat /\ D(y) \subseteq Nat
  OBVIOUS
<1> HIDE DEF D
<1> QED
  BY <1>1, <1>2, <1>3

\* evaluate_corridor_thaw()
LEMMA ThawingFollows ==
    ASSUME NEW r, NEW s, Worsens("permafrost", r, s)
    PROVE  SeesWorse("permafrost", r, s)
<1> DEFINE e == "permafrost"
<1>1. /\ "degreeDays" \in PartsOf[e] /\ "degreeDays" \in Amount
      /\ Upward("degreeDays")
      /\ "peat" \in PartsOf[e] /\ "peat" \in FallingPart /\ "peat" \notin BadFlag
      /\ "peat" \notin GoodFlag
  BY DEF PartsOf, FallingPart, BadFlag, GoodFlag, TrustParts, Dimensions, Items, Named, Amount,
         Upward
<1>2. Grows(r, s, "degreeDays") /\ Falls(r, s, "peat")
  BY <1>1, PartRises, PartFalls
<1>3. /\ r.degreeDays \in Nat /\ s.degreeDays \in Nat /\ r.degreeDays <= s.degreeDays
      /\ r.peat \in Int /\ s.peat \in Int /\ s.peat <= r.peat
  BY <1>2 DEF Grows, Falls
<1> DEFINE net(x) == Max({0, 100 * ThawDepth(x.degreeDays) - 45 * x.peat})
           scaled(x) == (net(x) * 10) \div 120
<1>4. net(r) \in Nat /\ net(s) \in Nat /\ net(r) <= net(s)
  <2> DEFINE a == ThawDepth(r.degreeDays)
             b == ThawDepth(s.degreeDays)
  <2>1. a \in Nat /\ b \in Nat /\ a <= b
    BY <1>3, ThawFollows
  <2> HIDE DEF a, b
  <2>2. /\ Max({0, 100 * a - 45 * r.peat}) \in Nat /\ Max({0, 100 * b - 45 * s.peat}) \in Nat
        /\ Max({0, 100 * a - 45 * r.peat}) <= Max({0, 100 * b - 45 * s.peat})
    BY <1>3, <2>1, MaxTwo
  <2> QED
    BY <2>2 DEF a, b
<1>5. SettlementRisk(r) = Min({1000, scaled(r)}) /\ SettlementRisk(s) = Min({1000, scaled(s)})
  BY DEF SettlementRisk
<1> HIDE DEF net
<1>6. scaled(r) \in Nat /\ scaled(s) \in Nat /\ scaled(r) <= scaled(s)
  BY <1>4, ScaledMonotone
<1> HIDE DEF scaled
<1>7. /\ SettlementRisk(r) \in Int /\ SettlementRisk(s) \in Int
      /\ SettlementRisk(r) <= SettlementRisk(s)
  BY <1>5, <1>6, MinTwo
<1>8. Threat(e, r) = SettlementRisk(r) /\ Threat(e, s) = SettlementRisk(s)
  BY ScaleAssumption DEF Threat
<1>9. Rank(e, 45) = 1 /\ Rank(e, 15) = 2 /\ Rank(e, 0) = 3
  <2>1. Verdicts(e) = <<45, 15, 0>>
    BY DEF Verdicts
  <2> QED
    BY <2>1, ThreeRanks
<1>10. Verdict(e, r) = TrackSpeed(r) /\ Verdict(e, s) = TrackSpeed(s)
  BY DEF Verdict
<1> HIDE DEF e
<1>11. Rank(e, TrackSpeed(s)) >= Rank(e, TrackSpeed(r))
  BY <1>7, <1>9 DEF TrackSpeed
<1> QED
  BY <1>7, <1>8, <1>10, <1>11 DEF SeesWorse, e

\* evaluate_wildfire_risk()
LEMMA FireFollows ==
    ASSUME NEW r, NEW s, Worsens("wildfire", r, s)
    PROVE  SeesWorse("wildfire", r, s)
<1> DEFINE e == "wildfire"
<1>1. /\ \A p \in {"fwi", "wind"} :
            /\ p \in PartsOf[e]
            /\ Upward(p)
      /\ "distance" \in PartsOf[e] /\ "distance" \in FallingPart
      /\ "distance" \notin BadFlag /\ "distance" \notin GoodFlag
      /\ "towards" \in PartsOf[e] /\ "towards" \in BadFlag /\ "fwi" \in Amount
  BY DEF PartsOf, FallingPart, BadFlag, GoodFlag, TrustParts, Dimensions, Items, Named, Amount,
         Upward
<1>2. Grows(r, s, "fwi") /\ Rises(r, s, "wind") /\ Falls(r, s, "distance")
  BY <1>1, PartRises, PartFalls
<1>3. Set(r, s, "towards")
  BY <1>1, FlagSet
<1>4. /\ r.fwi \in Nat /\ s.fwi \in Nat /\ r.fwi <= s.fwi
      /\ r.wind \in Int /\ s.wind \in Int /\ r.wind <= s.wind
      /\ r.distance \in Int /\ s.distance \in Int /\ s.distance <= r.distance
  BY <1>2 DEF Grows, Rises, Falls
<1>5. r.towards \in BOOLEAN /\ s.towards \in BOOLEAN /\ (r.towards => s.towards)
  BY <1>3 DEF Set
<1> DEFINE a(x) == Min({40, x.fwi})
           b(x) == Max({0, 30 - x.distance})
           fuel(x) == (a(x) * 400) \div 40
           near(x) == (b(x) * 600) \div 30
           wind(x) == IF x.towards /\ x.wind > 20 THEN 13 ELSE 8
           all(x) == ((fuel(x) + near(x)) * wind(x)) \div 10
<1>6. a(r) \in Nat /\ a(s) \in Nat /\ a(r) <= a(s) /\ b(r) \in Nat /\ b(s) \in Nat /\ b(r) <= b(s)
  BY <1>4, MinTwo, MaxTwo
<1>7. wind(r) \in Nat /\ wind(s) \in Nat /\ wind(r) <= wind(s)
  BY <1>4, <1>5
<1>8. /\ ClosureProbability(r) = Min({1000, all(r)})
      /\ ClosureProbability(s) = Min({1000, all(s)})
  BY DEF ClosureProbability
<1> HIDE DEF a, b, wind
<1>9. fuel(r) \in Nat /\ fuel(s) \in Nat /\ fuel(r) <= fuel(s)
  BY <1>6, ScaledMonotone
<1>10. near(r) \in Nat /\ near(s) \in Nat /\ near(r) <= near(s)
  BY <1>6, ScaledMonotone
<1> HIDE DEF fuel, near
<1>11. all(r) \in Nat /\ all(s) \in Nat /\ all(r) <= all(s)
  <2> DEFINE x == fuel(r) + near(r)
             y == fuel(s) + near(s)
             v == wind(r)
             w == wind(s)
  <2>1. x \in Nat /\ y \in Nat /\ x <= y /\ v \in Nat /\ w \in Nat /\ v <= w
    BY <1>7, <1>9, <1>10
  <2> HIDE DEF x, y, v, w
  <2>2. x * v \in Nat /\ y * w \in Nat /\ x * v <= y * w
    BY <2>1, ProductMonotone
  <2> DEFINE m == x * v
             n == y * w
  <2> HIDE DEF m, n
  <2>3. m \div 10 \in Nat /\ n \div 10 \in Nat /\ m \div 10 <= n \div 10
    BY <2>2, Quotient, QuotientMonotone DEF m, n
  <2> QED
    BY <2>3 DEF m, n, x, y, v, w
<1> HIDE DEF all
<1>12. /\ ClosureProbability(r) \in Int /\ ClosureProbability(s) \in Int
       /\ ClosureProbability(r) <= ClosureProbability(s)
  BY <1>8, <1>11, MinTwo
<1>13. Threat(e, r) = ClosureProbability(r) /\ Threat(e, s) = ClosureProbability(s)
  BY ScaleAssumption DEF Threat
<1>14. Rank(e, "LOW") = 1 /\ Rank(e, "ELEVATED") = 2 /\ Rank(e, "CRITICAL") = 3
  <2>1. Verdicts(e) = <<"LOW", "ELEVATED", "CRITICAL">>
    BY DEF Verdicts
  <2> QED
    BY <2>1, ThreeRanks
<1>15. Verdict(e, r) = FireLevel(r) /\ Verdict(e, s) = FireLevel(s)
  BY DEF Verdict
<1> HIDE DEF e
<1>16. Rank(e, FireLevel(s)) >= Rank(e, FireLevel(r))
  BY <1>12, <1>14 DEF FireLevel
<1> QED
  BY <1>12, <1>13, <1>15, <1>16 DEF SeesWorse, e

\* evaluate_subsea_risk()
LEMMA SeabedFollows ==
    ASSUME NEW r, NEW s, Worsens("subsea", r, s)
    PROVE  SeesWorse("subsea", r, s)
<1> DEFINE e == "subsea"
<1>1. /\ "decibels" \in PartsOf[e] /\ Upward("decibels")
      /\ \A p \in {"distance", "health"} :
            /\ p \in PartsOf[e]
            /\ p \in FallingPart /\ p \notin BadFlag /\ p \notin GoodFlag
  BY DEF PartsOf, FallingPart, BadFlag, GoodFlag, TrustParts, Dimensions, Items, Named, Upward
<1>2. Rises(r, s, "decibels") /\ Falls(r, s, "distance") /\ Falls(r, s, "health")
  BY <1>1, PartRises, PartFalls
<1>3. /\ r.decibels \in Int /\ s.decibels \in Int /\ r.decibels <= s.decibels
      /\ r.distance \in Int /\ s.distance \in Int /\ s.distance <= r.distance
      /\ r.health \in Int /\ s.health \in Int /\ s.health <= r.health
      /\ r.health > 0 /\ s.health > 0
  <2>1. r["health"] > 0 /\ s["health"] > 0
    BY <1>1 DEF Worsens
  <2> QED
    BY <1>2, <2>1 DEF Rises, Falls
<1> DEFINE a(x) == Max({0, Min({25, x.decibels - 5})})
           b(x) == Max({0, 10 - x.distance})
           sound(x) == (a(x) * 550) \div 25
           anchor(x) == (b(x) * 450) \div 10
           all(x) == ((sound(x) + anchor(x)) * 100) \div x.health
<1>4. a(r) \in Nat /\ a(s) \in Nat /\ a(r) <= a(s)
  <2> DEFINE c(x) == Min({25, x.decibels - 5})
  <2>1. c(r) \in Int /\ c(s) \in Int /\ c(r) <= c(s)
    BY <1>3, MinTwo
  <2> HIDE DEF c
  <2>2. Max({0, c(r)}) \in Nat /\ Max({0, c(s)}) \in Nat /\ Max({0, c(r)}) <= Max({0, c(s)})
    BY <2>1, MaxTwo
  <2> QED
    BY <2>2 DEF c
<1>5. b(r) \in Nat /\ b(s) \in Nat /\ b(r) <= b(s)
  BY <1>3, MaxTwo
<1>6. SeabedRisk(r) = Min({1000, all(r)}) /\ SeabedRisk(s) = Min({1000, all(s)})
  BY DEF SeabedRisk
<1> HIDE DEF a, b
<1>7. sound(r) \in Nat /\ sound(s) \in Nat /\ sound(r) <= sound(s)
  BY <1>4, ScaledMonotone
<1>8. anchor(r) \in Nat /\ anchor(s) \in Nat /\ anchor(r) <= anchor(s)
  BY <1>5, ScaledMonotone
<1> HIDE DEF sound, anchor
<1>9. all(r) \in Nat /\ all(s) \in Nat /\ all(r) <= all(s)
  <2> DEFINE x == (sound(r) + anchor(r)) * 100
             y == (sound(s) + anchor(s)) * 100
             v == r.health
             w == s.health
  <2>1. x \in Nat /\ y \in Nat /\ x <= y /\ v \in Nat /\ w \in Nat /\ w <= v /\ w > 0 /\ v > 0
    BY <1>3, <1>7, <1>8
  <2> HIDE DEF x, y, v, w
  <2>2. x \div v \in Nat /\ y \div w \in Nat /\ x \div v <= y \div w
    BY <2>1, QuotientFollows
  <2> QED
    BY <2>2 DEF x, y, v, w
<1> HIDE DEF all
<1>10. SeabedRisk(r) \in Int /\ SeabedRisk(s) \in Int /\ SeabedRisk(r) <= SeabedRisk(s)
  BY <1>6, <1>9, MinTwo
<1>11. Threat(e, r) = SeabedRisk(r) /\ Threat(e, s) = SeabedRisk(s)
  BY ScaleAssumption DEF Threat
<1>12. /\ Rank(e, "NOMINAL_SEABED_INTEGRITY") = 1
       /\ Rank(e, "SUSPICIOUS_SEABED_ACTIVITY") = 2
       /\ Rank(e, "HIGH_THREAT_ANOMALY") = 3
  <2>1. Verdicts(e) = <<"NOMINAL_SEABED_INTEGRITY", "SUSPICIOUS_SEABED_ACTIVITY",
                        "HIGH_THREAT_ANOMALY">>
    BY DEF Verdicts
  <2> QED
    BY <2>1, ThreeRanks
<1>13. Verdict(e, r) = SeabedStatus(r) /\ Verdict(e, s) = SeabedStatus(s)
  BY DEF Verdict
<1> HIDE DEF e
<1>14. Rank(e, SeabedStatus(s)) >= Rank(e, SeabedStatus(r))
  BY <1>10, <1>12 DEF SeabedStatus
<1> QED
  BY <1>10, <1>11, <1>13, <1>14 DEF SeesWorse, e
\* calculate_losses()
LEMMA LossFollows ==
    ASSUME NEW r, NEW s, Worsens("loss", r, s)
    PROVE  SeesWorse("loss", r, s)
<1> DEFINE e == "loss"
<1>1. \A p \in {"days", "inventory", "vessels", "burn"} :
          /\ p \in PartsOf[e] /\ p \in Amount
          /\ Upward(p)
  BY DEF PartsOf, FallingPart, BadFlag, GoodFlag, TrustParts, Dimensions, Items, Named, Amount,
         Upward
<1>2. \A p \in {"days", "inventory", "vessels", "burn"} : Grows(r, s, p)
  BY <1>1, PartRises
<1>3. /\ r.days \in Nat /\ s.days \in Nat /\ r.days <= s.days
      /\ r.inventory \in Nat /\ s.inventory \in Nat /\ r.inventory <= s.inventory
      /\ r.vessels \in Nat /\ s.vessels \in Nat /\ r.vessels <= s.vessels
      /\ r.burn \in Nat /\ s.burn \in Nat /\ r.burn <= s.burn
  BY <1>2 DEF Grows
<1> DEFINE daily(x) == x.inventory * 18 + 36500 * (x.vessels * 25 + x.burn)
<1>4. daily(r) \in Nat /\ daily(s) \in Nat /\ daily(r) <= daily(s)
  BY <1>3
<1>5. Threat(e, r) = r.days * daily(r) /\ Threat(e, s) = s.days * daily(s)
  BY ScaleAssumption DEF Threat, TotalLoss
<1> HIDE DEF daily
<1>6. /\ r.days * daily(r) \in Nat /\ s.days * daily(s) \in Nat
      /\ r.days * daily(r) <= s.days * daily(s)
  BY <1>3, <1>4, ProductMonotone
<1>7. Rank(e, Verdict(e, r)) = 1 /\ Rank(e, Verdict(e, s)) = 1
  BY NoVerdict
<1> HIDE DEF e
<1> QED
  BY <1>5, <1>6, <1>7 DEF SeesWorse, e

\* evaluate_entity()
LEMMA RatingFollows ==
    ASSUME NEW r, NEW s, Worsens("rating", r, s)
    PROVE  SeesWorse("rating", r, s)
<1> DEFINE e == "rating"
<1>1. /\ "lag" \in PartsOf[e] /\ Upward("lag")
      /\ \A p \in {"paths", "stock", "confidence"} :
            /\ p \in PartsOf[e]
            /\ p \in FallingPart /\ p \notin BadFlag /\ p \notin GoodFlag
      /\ "shared" \in PartsOf[e] /\ "shared" \in BadFlag
  BY DEF PartsOf, FallingPart, BadFlag, GoodFlag, TrustParts, Dimensions, Items, Named, Upward
<1>2. /\ Rises(r, s, "lag") /\ Falls(r, s, "paths") /\ Falls(r, s, "stock")
      /\ Falls(r, s, "confidence")
  BY <1>1, PartRises, PartFalls
<1>3. Set(r, s, "shared")
  BY <1>1, FlagSet
<1>4. /\ r.lag \in Int /\ s.lag \in Int /\ r.lag <= s.lag
      /\ r.paths \in Int /\ s.paths \in Int /\ s.paths <= r.paths
      /\ r.stock \in Int /\ s.stock \in Int /\ s.stock <= r.stock
      /\ r.confidence \in Int /\ s.confidence \in Int /\ s.confidence <= r.confidence
  BY <1>2 DEF Rises, Falls
<1>5. r.shared \in BOOLEAN /\ s.shared \in BOOLEAN /\ (r.shared => s.shared)
  BY <1>3 DEF Set
<1>6. /\ RedundancyScore(r.paths) \in Int /\ RedundancyScore(s.paths) \in Int
      /\ RedundancyScore(s.paths) <= RedundancyScore(r.paths)
  BY <1>4 DEF RedundancyScore
<1>7. /\ StockScore(r.stock) \in Int /\ StockScore(s.stock) \in Int
      /\ StockScore(s.stock) <= StockScore(r.stock)
  BY <1>4 DEF StockScore
<1>8. /\ LagScore(r.lag) \in Int /\ LagScore(s.lag) \in Int
      /\ LagScore(s.lag) <= LagScore(r.lag)
  BY <1>4 DEF LagScore
<1>9. /\ IndependenceScore(r.shared) \in Int /\ IndependenceScore(s.shared) \in Int
      /\ IndependenceScore(s.shared) <= IndependenceScore(r.shared)
  BY <1>5 DEF IndependenceScore
<1>10. Composite(r) \in Int /\ Composite(s) \in Int /\ Composite(s) <= Composite(r)
  BY <1>4, <1>6, <1>7, <1>8, <1>9 DEF Composite
<1>11. Threat(e, r) = 10000 - Composite(r) /\ Threat(e, s) = 10000 - Composite(s)
  BY ScaleAssumption DEF Threat
<1>12. /\ Rank(e, "AAA") = 1 /\ Rank(e, "AA") = 2 /\ Rank(e, "A") = 3 /\ Rank(e, "BBB") = 4
       /\ Rank(e, "BB") = 5 /\ Rank(e, "B") = 6 /\ Rank(e, "CCC") = 7 /\ Rank(e, "D") = 8
  <2>1. Verdicts(e) = <<"AAA", "AA", "A", "BBB", "BB", "B", "CCC", "D">>
    BY DEF Verdicts
  <2>2. ASSUME NEW i \in 1..8 PROVE Rank(e, Verdicts(e)[i]) = i
    BY <2>1, RankAt
  <2> QED
    BY <2>1, <2>2
<1>13. Verdict(e, r) = LetterGrade(r) /\ Verdict(e, s) = LetterGrade(s)
  BY DEF Verdict
<1> HIDE DEF e
<1>14. Rank(e, LetterGrade(s)) >= Rank(e, LetterGrade(r))
  BY <1>10, <1>12 DEF LetterGrade
<1> QED
  BY <1>10, <1>11, <1>13, <1>14 DEF SeesWorse, e

\* A certificate that is lost with any of its conditions.
LEMMA CertificateFollows ==
    ASSUME NEW e \in {"attestation", "pbmm", "airgap"}, NEW x \in BOOLEAN, NEW y \in BOOLEAN,
           y => x
    PROVE  Rank(e, y) >= Rank(e, x)
<1>1. Verdicts(e) = <<TRUE, FALSE>>
  BY DEF Verdicts
<1>2. Rank(e, TRUE) = 1 /\ Rank(e, FALSE) = 2
  BY <1>1, TwoRanks, Zenon
<1>3. CASE y = FALSE
  <2>1. Rank(e, y) = 2 /\ Rank(e, x) \in {1, 2}
    BY <1>2, <1>3
  <2> QED
    BY <2>1
<1>4. CASE y = TRUE
  <2>1. Rank(e, y) = 1 /\ Rank(e, x) = 1
    BY <1>2, <1>4
  <2> QED
    BY <2>1
<1> QED
  BY <1>3, <1>4

\* perform_attestation()
LEMMA AttestationFollows ==
    ASSUME NEW r, NEW s, Worsens("attestation", r, s)
    PROVE  SeesWorse("attestation", r, s)
<1> DEFINE e == "attestation"
<1>1. /\ "interfaces" \in PartsOf[e] /\ "interfaces" \in Amount
      /\ Upward("interfaces")
      /\ "entropy" \in PartsOf[e] /\ "entropy" \in FallingPart
      /\ "entropy" \notin BadFlag /\ "entropy" \notin GoodFlag
      /\ \A p \in {"boot", "zeroize"} :
            p \in PartsOf[e] /\ p \in GoodFlag /\ p \notin BadFlag
  BY DEF PartsOf, FallingPart, BadFlag, GoodFlag, TrustParts, Dimensions, Items, Named, Amount,
         Upward
<1>2. Grows(r, s, "interfaces") /\ Falls(r, s, "entropy")
  BY <1>1, PartRises, PartFalls
<1>3. Lost(r, s, "boot") /\ Lost(r, s, "zeroize")
  BY <1>1, FlagLost
<1>4. /\ r.interfaces \in Nat /\ s.interfaces \in Nat /\ r.interfaces <= s.interfaces
      /\ r.entropy \in Int /\ s.entropy \in Int /\ s.entropy <= r.entropy
  BY <1>2 DEF Grows, Falls
<1>5. /\ r.boot \in BOOLEAN /\ s.boot \in BOOLEAN /\ (s.boot => r.boot)
      /\ r.zeroize \in BOOLEAN /\ s.zeroize \in BOOLEAN /\ (s.zeroize => r.zeroize)
  BY <1>3 DEF Lost
<1> DEFINE a(x) == IF x.interfaces = 0 THEN 2 ELSE 0
           b(x) == IF x.boot THEN 2 ELSE 0
           z(x) == IF x.zeroize THEN 2 ELSE 0
           n(x) == IF x.entropy >= 65536 THEN 2 ELSE 1
<1>6. /\ a(r) \in {0, 2} /\ a(s) \in {0, 2} /\ a(s) <= a(r)
      /\ n(r) \in {1, 2} /\ n(s) \in {1, 2} /\ n(s) <= n(r)
  BY <1>4
<1>7. /\ b(r) \in {0, 2} /\ b(s) \in {0, 2} /\ b(s) <= b(r)
      /\ z(r) \in {0, 2} /\ z(s) \in {0, 2} /\ z(s) <= z(r)
  BY <1>5
<1>8. /\ ControlScores(r) = [tpm |-> 2, airgap |-> a(r), boot |-> b(r), zeroize |-> z(r),
                             entropy |-> n(r)]
      /\ ControlScores(s) = [tpm |-> 2, airgap |-> a(s), boot |-> b(s), zeroize |-> z(s),
                             entropy |-> n(s)]
  BY DEF ControlScores
<1> HIDE DEF a, b, z, n
<1>9. /\ ScifShortfall(r) = 8 - a(r) - b(r) - z(r) - n(r)
      /\ ScifShortfall(s) = 8 - a(s) - b(s) - z(s) - n(s)
  BY <1>6, <1>7, <1>8 DEF ScifShortfall
<1>10. /\ ScifCertified(r) <=> (a(r) = 2 /\ b(r) = 2 /\ z(r) = 2 /\ n(r) = 2)
       /\ ScifCertified(s) <=> (a(s) = 2 /\ b(s) = 2 /\ z(s) = 2 /\ n(s) = 2)
       /\ ScifCertified(r) \in BOOLEAN /\ ScifCertified(s) \in BOOLEAN
  <2>1. ASSUME NEW x \in {r, s} 
        PROVE  (Failing(x) = {}) <=> (a(x) = 2 /\ b(x) = 2 /\ z(x) = 2 /\ n(x) = 2)
    BY <1>6, <1>7, <1>8 DEF Failing
  <2> QED
    BY <2>1 DEF ScifCertified
<1>11. ScifCertified(s) => ScifCertified(r)
  BY <1>6, <1>7, <1>10
<1>12. /\ Threat(e, r) = ScifShortfall(r) /\ Threat(e, s) = ScifShortfall(s)
       /\ Verdict(e, r) = ScifCertified(r) /\ Verdict(e, s) = ScifCertified(s)
  BY ScaleAssumption DEF Threat, Verdict
<1>13. Rank(e, ScifCertified(s)) >= Rank(e, ScifCertified(r))
  BY <1>10, <1>11, CertificateFollows
<1>14. ScifShortfall(s) >= ScifShortfall(r)
  BY <1>6, <1>7, <1>9
<1> HIDE DEF e
<1> QED
  BY <1>12, <1>13, <1>14 DEF SeesWorse, e

\* audit()
LEMMA AirGapFollows ==
    ASSUME NEW r, NEW s, Worsens("airgap", r, s)
    PROVE  SeesWorse("airgap", r, s)
<1> DEFINE e == "airgap"
<1>1. \A p \in {"outbound", "offline", "keys"} :
          p \in PartsOf[e] /\ p \in GoodFlag /\ p \notin BadFlag
  BY DEF PartsOf, BadFlag, GoodFlag
<1>2. \A p \in {"outbound", "offline", "keys"} : Lost(r, s, p)
  BY <1>1, FlagLost
<1>3. AirGapOpen(r) \subseteq AirGapOpen(s)
  BY <1>2 DEF AirGapOpen, Lost
<1>4. IsFiniteSet({"outbound", "offline", "keys"})
  <2>1. IsFiniteSet({"outbound"})
    BY FS_Singleton
  <2>2. IsFiniteSet({"outbound"} \cup {"offline"})
    BY <2>1, FS_AddElement
  <2>3. IsFiniteSet({"outbound"} \cup {"offline"} \cup {"keys"})
    BY <2>2, FS_AddElement
  <2>4. {"outbound", "offline", "keys"} = {"outbound"} \cup {"offline"} \cup {"keys"}
    OBVIOUS
  <2> QED
    BY <2>3, <2>4
<1>5. IsFiniteSet(AirGapOpen(s)) /\ IsFiniteSet(AirGapOpen(r))
  BY <1>4, FS_Subset DEF AirGapOpen
<1>6. /\ Cardinality(AirGapOpen(r)) \in Nat /\ Cardinality(AirGapOpen(s)) \in Nat
      /\ Cardinality(AirGapOpen(r)) <= Cardinality(AirGapOpen(s))
  BY <1>3, <1>5, FS_Subset, FS_CardinalityType
<1>7. /\ AirGapCompliant(s) => AirGapCompliant(r)
      /\ AirGapCompliant(r) \in BOOLEAN /\ AirGapCompliant(s) \in BOOLEAN
  BY <1>3 DEF AirGapCompliant
<1>8. /\ Threat(e, r) = Cardinality(AirGapOpen(r)) /\ Threat(e, s) = Cardinality(AirGapOpen(s))
      /\ Verdict(e, r) = AirGapCompliant(r) /\ Verdict(e, s) = AirGapCompliant(s)
  BY ScaleAssumption DEF Threat, Verdict
<1>9. Rank(e, AirGapCompliant(s)) >= Rank(e, AirGapCompliant(r))
  BY <1>7, CertificateFollows
<1> HIDE DEF e
<1> QED
  BY <1>6, <1>8, <1>9 DEF SeesWorse, e
\* The minerals exhausted: later, under more pressure and with less cushion there are
\* no fewer.
LEMMA ExhaustedGrows ==
    ASSUME NEW d \in Nat, NEW d2 \in Nat, d <= d2, NEW p \in Nat, NEW p2 \in Nat, p <= p2,
           NEW c \in Int, NEW c2 \in Int, c2 <= c, c <= 100
    PROVE  Exhausted(d, p, c) \subseteq Exhausted(d2, p2, c2)
<1> DEFINE b == BurnRate(p, c)
           b2 == BurnRate(p2, c2)
<1>1. b \in Nat /\ b2 \in Nat /\ b <= b2
  BY DEF BurnRate
<1> HIDE DEF b, b2
<1> DEFINE u == d * b
           v == d2 * b2
<1>2. u \in Nat /\ v \in Nat /\ u <= v
  BY <1>1, ProductMonotone
<1> HIDE DEF u, v
<1>3. 2 * d * b = 2 * u /\ 2 * d2 * b2 = 2 * v
  BY <1>1 DEF u, v
<1>4. ASSUME NEW m \in DOMAIN Baselines
      PROVE  (2 * u + Baselines[m]) \div (2 * Baselines[m])
                 <= (2 * v + Baselines[m]) \div (2 * Baselines[m])
  <2>1. Baselines[m] \in Nat /\ Baselines[m] > 0
    BY DEF Baselines
  <2> DEFINE k == Baselines[m]
             x == 2 * u + k
             y == 2 * v + k
             w == 2 * k
  <2>2. x \in Nat /\ y \in Nat /\ x <= y /\ w \in Nat /\ w > 0
    BY <1>2, <2>1
  <2>3. x \div w <= y \div w
    <3> HIDE DEF x, y, w
    <3> QED
      BY <2>2, QuotientMonotone
  <2> QED
    BY <2>3
<1>5. ASSUME NEW m \in DOMAIN Baselines
      PROVE  /\ (2 * u + Baselines[m]) \div (2 * Baselines[m]) \in Int
             /\ (2 * v + Baselines[m]) \div (2 * Baselines[m]) \in Int
  <2>1. Baselines[m] \in Nat /\ Baselines[m] > 0
    BY DEF Baselines
  <2> DEFINE k == Baselines[m]
  <2> HIDE DEF k
  <2>2. k \in Nat /\ k > 0 /\ 2 * k > 0
    BY <2>1 DEF k
  <2>3. (2 * u + k) \div (2 * k) \in Int /\ (2 * v + k) \div (2 * k) \in Int
    BY <1>2, <2>2
  <2> QED
    BY <2>3 DEF k
<1>6. /\ Exhausted(d, p, c) = {m \in DOMAIN Baselines :
             (2 * d * b + Baselines[m]) \div (2 * Baselines[m]) >= 950}
      /\ Exhausted(d2, p2, c2) = {m \in DOMAIN Baselines :
             (2 * d2 * b2 + Baselines[m]) \div (2 * Baselines[m]) >= 950}
  BY Zenon DEF Exhausted, b, b2
<1>7. ASSUME NEW m \in Exhausted(d, p, c) PROVE m \in Exhausted(d2, p2, c2)
  <2>1. m \in DOMAIN Baselines
    BY <1>6
  <2> DEFINE x == (2 * u + Baselines[m]) \div (2 * Baselines[m])
             y == (2 * v + Baselines[m]) \div (2 * Baselines[m])
  <2>2. x \in Int /\ y \in Int /\ x <= y
    BY <1>4, <1>5, <2>1
  <2>3. x >= 950
    BY <1>3, <1>6, Zenon
  <2>4. y >= 950
    <3> HIDE DEF x, y
    <3> QED
      BY <2>2, <2>3
  <2>5. (2 * d2 * b2 + Baselines[m]) \div (2 * Baselines[m]) >= 950
    BY <1>3, <2>4, Zenon
  <2>6. m \in {n \in DOMAIN Baselines :
               (2 * d2 * b2 + Baselines[n]) \div (2 * Baselines[n]) >= 950}
    BY <2>1, <2>5, Zenon
  <2> QED
    BY <1>6, <2>6, Zenon
<1> QED
  BY <1>7

LEMMA ExhaustedFinite ==
    ASSUME NEW d, NEW p, NEW c
    PROVE  IsFiniteSet(Exhausted(d, p, c))
<1>1. DOMAIN Baselines = {"nickel", "lithium", "cobalt", "rare_earths", "uranium", "chromite",
                          "niobium", "titanium"}
  BY DEF Baselines
<1>2. IsFiniteSet({"nickel"} \cup {"lithium"} \cup {"cobalt"} \cup {"rare_earths"})
  BY FS_Singleton, FS_Union, Zenon
<1>3. IsFiniteSet({"uranium"} \cup {"chromite"} \cup {"niobium"} \cup {"titanium"})
  BY FS_Singleton, FS_Union, Zenon
<1>4. IsFiniteSet(({"nickel"} \cup {"lithium"} \cup {"cobalt"} \cup {"rare_earths"})
                  \cup ({"uranium"} \cup {"chromite"} \cup {"niobium"} \cup {"titanium"}))
  BY <1>2, <1>3, FS_Union, Zenon
<1>5. Exhausted(d, p, c) \subseteq
          ({"nickel"} \cup {"lithium"} \cup {"cobalt"} \cup {"rare_earths"})
          \cup ({"uranium"} \cup {"chromite"} \cup {"niobium"} \cup {"titanium"})
  BY <1>1 DEF Exhausted
<1> QED
  BY <1>4, <1>5, FS_Subset, Zenon

\* The parts of a wargame.
LEMMA WarParts ==
    ASSUME NEW e \in {"wargame", "warloss", "failure"}, NEW r, NEW s, Worsens(e, r, s)
    PROVE  /\ r.pressure \in Nat /\ s.pressure \in Nat /\ r.pressure <= s.pressure
           /\ r.cushion \in Int /\ s.cushion \in Int /\ s.cushion <= r.cushion
           /\ r.cushion <= 100
           /\ e # "failure" => r.day \in Nat /\ s.day \in Nat /\ r.day <= s.day
<1>1. /\ "cushion" \in PartsOf[e] /\ "cushion" \in FallingPart
      /\ "cushion" \notin BadFlag /\ "cushion" \notin GoodFlag
      /\ "pressure" \in PartsOf[e] /\ (e # "failure" => "day" \in PartsOf[e])
      /\ \A p \in {"pressure", "day"} :
            p \in Amount /\ Upward(p)
  BY DEF PartsOf, FallingPart, BadFlag, GoodFlag, TrustParts, Dimensions, Items, Named, Amount,
         Upward
<1>2. Falls(r, s, "cushion") /\ Grows(r, s, "pressure") /\ (e # "failure" => Grows(r, s, "day"))
  BY <1>1, PartFalls, PartRises
<1>3. r.cushion <= 100
  BY <1>1 DEF Worsens
<1> QED
  BY <1>2, <1>3 DEF Falls, Grows

LEMMA ExhaustedCount ==
    ASSUME NEW e \in {"wargame", "warloss"}, NEW r, NEW s, Worsens(e, r, s)
    PROVE  LET x == Cardinality(Exhausted(r.day, r.pressure, r.cushion))
               y == Cardinality(Exhausted(s.day, s.pressure, s.cushion))
           IN x \in Nat /\ y \in Nat /\ x <= y
<1> DEFINE E == Exhausted(r.day, r.pressure, r.cushion)
           F == Exhausted(s.day, s.pressure, s.cushion)
<1>1. E \subseteq F
  BY WarParts, ExhaustedGrows
<1>2. IsFiniteSet(E) /\ IsFiniteSet(F)
  BY ExhaustedFinite
<1> HIDE DEF E, F
<1>3. Cardinality(E) \in Nat /\ Cardinality(F) \in Nat /\ Cardinality(E) <= Cardinality(F)
  BY <1>1, <1>2, FS_Subset, FS_CardinalityType
<1> QED
  BY <1>3 DEF E, F

\* run_simulation(): the readiness and the state it stands for.
LEMMA WargameFollows ==
    ASSUME NEW r, NEW s, Worsens("wargame", r, s)
    PROVE  SeesWorse("wargame", r, s)
<1> DEFINE e == "wargame"
           n(x) == Cardinality(Exhausted(x.day, x.pressure, x.cushion))
           ready(x) == WarReadiness(x.day, x.pressure, x.cushion)
<1>1. /\ r.pressure \in Nat /\ s.pressure \in Nat /\ r.pressure <= s.pressure
      /\ r.day \in Nat /\ s.day \in Nat /\ r.day <= s.day
  BY WarParts
<1>2. n(r) \in Nat /\ n(s) \in Nat /\ n(r) <= n(s)
  BY ExhaustedCount
<1>3. /\ ready(r) = Max({18000, 180000 - r.day * r.pressure * (10 + n(r))})
      /\ ready(s) = Max({18000, 180000 - s.day * s.pressure * (10 + n(s))})
  BY DEF WarReadiness
<1> HIDE DEF n
<1> DEFINE x == r.day * r.pressure
           y == s.day * s.pressure
<1>4. x \in Nat /\ y \in Nat /\ x <= y
  BY <1>1, ProductMonotone
<1> HIDE DEF x, y
<1> DEFINE k == 10 + n(r)
           l == 10 + n(s)
<1>5. k \in Nat /\ l \in Nat /\ k <= l
  BY <1>2
<1>6. ready(r) = Max({18000, 180000 - x * k}) /\ ready(s) = Max({18000, 180000 - y * l})
  BY <1>3 DEF x, y
<1> HIDE DEF k, l, ready
<1> DEFINE u == x * k
           v == y * l
<1>7. u \in Nat /\ v \in Nat /\ u <= v
  BY <1>4, <1>5, ProductMonotone
<1>8. ready(r) = Max({18000, 180000 - u}) /\ ready(s) = Max({18000, 180000 - v})
  BY <1>6
<1> HIDE DEF u, v
<1>9. ready(r) \in Int /\ ready(s) \in Int /\ ready(s) <= ready(r)
  BY <1>7, <1>8, MaxTwo
<1>10. Threat(e, r) = 180000 - ready(r) /\ Threat(e, s) = 180000 - ready(s)
  BY ScaleAssumption DEF Threat, ready
<1>11. /\ Rank(e, "OPERATIONAL_STABLE") = 1 /\ Rank(e, "SEVERE_DEGRADATION") = 2
       /\ Rank(e, "FUNCTIONAL_COLLAPSE") = 3
  <2>1. Verdicts(e) = <<"OPERATIONAL_STABLE", "SEVERE_DEGRADATION", "FUNCTIONAL_COLLAPSE">>
    BY DEF Verdicts
  <2> QED
    BY <2>1, ThreeRanks
<1> DEFINE state(m) == IF m < 54000 THEN "FUNCTIONAL_COLLAPSE"
                       ELSE IF m < 108000 THEN "SEVERE_DEGRADATION" ELSE "OPERATIONAL_STABLE"
<1>12. Verdict(e, r) = state(ready(r)) /\ Verdict(e, s) = state(ready(s))
  BY DEF Verdict, WarState, ready
<1> HIDE DEF e
<1>13. Rank(e, state(ready(s))) >= Rank(e, state(ready(r)))
  BY <1>9, <1>11
<1> QED
  BY <1>9, <1>10, <1>12, <1>13 DEF SeesWorse, e

\* run_simulation(): the loss.
LEMMA WarLossFollows ==
    ASSUME NEW r, NEW s, Worsens("warloss", r, s)
    PROVE  SeesWorse("warloss", r, s)
<1> DEFINE e == "warloss"
           n(x) == 4 + Cardinality(Exhausted(x.day, x.pressure, x.cushion))
<1>1. r.day \in Nat /\ s.day \in Nat /\ r.day <= s.day
  BY WarParts
<1>2. n(r) \in Nat /\ n(s) \in Nat /\ n(r) <= n(s)
  BY ExhaustedCount
<1>3. Threat(e, r) = r.day * n(r) /\ Threat(e, s) = s.day * n(s)
  BY ScaleAssumption DEF Threat, WarLoss
<1> HIDE DEF n
<1>4. /\ r.day * n(r) \in Nat /\ s.day * n(s) \in Nat /\ r.day * n(r) <= s.day * n(s)
  BY <1>1, <1>2, ProductMonotone
<1>5. Rank(e, Verdict(e, r)) = 1 /\ Rank(e, Verdict(e, s)) = 1
  BY NoVerdict
<1> HIDE DEF e
<1> QED
  BY <1>3, <1>4, <1>5 DEF SeesWorse, e

\* run_simulation(): the first day with an exhausted mineral.
LEMMA FailureFollows ==
    ASSUME NEW r, NEW s, Worsens("failure", r, s)
    PROVE  SeesWorse("failure", r, s)
<1> DEFINE e == "failure"
           D(x) == {181} \cup {d \in Horizons : Exhausted(d, x.pressure, x.cushion) # {}}
<1>1. /\ r.pressure \in Nat /\ s.pressure \in Nat /\ r.pressure <= s.pressure
      /\ r.cushion \in Int /\ s.cushion \in Int /\ s.cushion <= r.cushion /\ r.cushion <= 100
  BY WarParts
<1>2. Horizons \subseteq Nat
  BY GradeAssumption
<1>3. ASSUME NEW d \in Horizons
      PROVE  Exhausted(d, r.pressure, r.cushion) \subseteq Exhausted(d, s.pressure, s.cushion)
  BY <1>1, <1>2, ExhaustedGrows
<1>4. D(r) \subseteq D(s) /\ D(r) \subseteq Nat /\ D(s) \subseteq Nat /\ D(r) # {} /\ D(s) # {}
  <2>1. ASSUME NEW d \in D(r) PROVE d \in D(s)
    <3>1. CASE d = 181
      BY <3>1
    <3>2. CASE d \in Horizons /\ Exhausted(d, r.pressure, r.cushion) # {}
      <4>1. Exhausted(d, s.pressure, s.cushion) # {}
        BY <1>3, <3>2
      <4> QED
        BY <3>2, <4>1
    <3> QED
      BY <3>1, <3>2, Zenon
  <2>2. 181 \in D(r) /\ 181 \in D(s)
    BY Zenon
  <2>3. D(r) \subseteq Nat /\ D(s) \subseteq Nat
    <3>1. D(r) \subseteq {181} \cup Horizons /\ D(s) \subseteq {181} \cup Horizons
      BY Zenon
    <3>2. {181} \cup Horizons \subseteq Nat
      BY <1>2
    <3> QED
      BY <3>1, <3>2, Zenon
  <2> QED
    BY <2>1, <2>2, <2>3, Zenon
<1>5. /\ Threat(e, r) = 181 - Min(D(r)) /\ Threat(e, s) = 181 - Min(D(s))
  BY ScaleAssumption DEF Threat, FailureDay
<1> HIDE DEF D
<1>6. Min(D(r)) \in Nat /\ Min(D(s)) \in Nat /\ Min(D(s)) <= Min(D(r))
  BY <1>4, MinIs
<1>7. Rank(e, Verdict(e, r)) = 1 /\ Rank(e, Verdict(e, s)) = 1
  BY NoVerdict
<1> HIDE DEF e
<1> QED
  BY <1>5, <1>6, <1>7 DEF SeesWorse, e
\* Terms that are no larger add up to no more.
LEMMA SumOfFollows ==
    ASSUME NEW g, Summable(g), NEW h, Summable(h), DOMAIN g = DOMAIN h,
           \A x \in DOMAIN g : g[x] <= h[x]
    PROVE  SumOf(g) \in Nat /\ SumOf(h) \in Nat /\ SumOf(g) <= SumOf(h)
<1>1. SumOf(g) \in Nat /\ SumOf(h) \in Nat
  BY SumOfNat
<1>2. \A x \in DOMAIN g : g[x] <= 1 * h[x] + 0
  BY DEF Summable
<1>3. Cardinality(DOMAIN g) \in Nat
  BY FS_CardinalityType DEF Summable
<1>4. SumOf(g) <= 1 * SumOf(h) + 0 * Cardinality(DOMAIN g)
  BY <1>2, SumOfBelow
<1> HIDE DEF SumOf
<1> QED
  BY <1>1, <1>3, <1>4

\* aggregate_score(): dimensions that are trusted no more give no higher score.
LEMMA AggregateFollows ==
    ASSUME NEW t, NEW u, \A i \in 1..9 : t[i] \in 0..100 /\ u[i] \in 0..100 /\ u[i] <= t[i],
           NEW aggregation \in {"minimum", "mean", "weighted"}
    PROVE  /\ AggregateScore(t, aggregation) \in Nat /\ AggregateScore(u, aggregation) \in Nat
           /\ AggregateScore(u, aggregation) <= AggregateScore(t, aggregation)
<1>1. ASSUME NEW i \in 1..9 PROVE t[i] \in Nat /\ u[i] \in Nat /\ u[i] <= t[i]
  <2>1. t[i] \in 0..100 /\ u[i] \in 0..100 /\ u[i] <= t[i]
    BY Zenon
  <2> QED
    BY <2>1
<1>2. CASE aggregation = "minimum"
  <2> DEFINE low(x) == Min({x[i] : i \in 1..9})
  <2>1. /\ AggregateScore(t, aggregation) = 100 * low(t)
        /\ AggregateScore(u, aggregation) = 100 * low(u)
    BY <1>2, NineDimensions DEF AggregateScore
  <2>2. PICK i \in 1..9 : low(t) = t[i]
    BY LeastTrust
  <2>3. PICK j \in 1..9 : low(u) = u[j]
    BY LeastTrust
  <2>4. \A v \in {u[k] : k \in 1..9} : low(u) <= v
    BY <1>1, LeastValue, Zenon
  <2>5. low(u) <= u[i]
    BY <2>4, Zenon
  <2> HIDE DEF low
  <2> QED
    BY <1>1, <2>1, <2>2, <2>3, <2>5
<1>3. CASE aggregation = "mean"
  <2> DEFINE g(x) == [i \in 1..9 |-> x[i]]
  <2>1. /\ AggregateScore(t, aggregation) = (100 * SumOf(g(t))) \div 9
        /\ AggregateScore(u, aggregation) = (100 * SumOf(g(u))) \div 9
    BY <1>3, NineDimensions DEF AggregateScore
  <2>2. Summable(g(t)) /\ Summable(g(u))
    BY <1>1, NineFinite DEF Summable
  <2>3. DOMAIN g(u) = DOMAIN g(t) /\ \A i \in DOMAIN g(u) : g(u)[i] <= g(t)[i]
    BY <1>1
  <2> HIDE DEF g
  <2>4. SumOf(g(u)) \in Nat /\ SumOf(g(t)) \in Nat /\ SumOf(g(u)) <= SumOf(g(t))
    BY <2>2, <2>3, SumOfFollows
  <2> DEFINE x == 100 * SumOf(g(u))
             y == 100 * SumOf(g(t))
  <2>5. x \in Nat /\ y \in Nat /\ x <= y
    BY <2>4
  <2> HIDE DEF x, y
  <2>6. x \div 9 \in Nat /\ y \div 9 \in Nat /\ x \div 9 <= y \div 9
    BY <2>5, Quotient, QuotientMonotone
  <2> QED
    BY <2>1, <2>6 DEF x, y
<1>4. CASE aggregation = "weighted"
  <2> DEFINE g(x) == [i \in 1..9 |-> x[i] * Weight(i)]
  <2>1. /\ AggregateScore(t, aggregation) = SumOf(g(t))
        /\ AggregateScore(u, aggregation) = SumOf(g(u))
    BY <1>4, NineDimensions DEF AggregateScore
  <2>2. ASSUME NEW i \in 1..9
        PROVE  /\ u[i] * Weight(i) \in Nat /\ t[i] * Weight(i) \in Nat
               /\ u[i] * Weight(i) <= t[i] * Weight(i)
    <3>1. Weight(i) \in Nat /\ Weight(i) <= Weight(i)
      BY DEF Weight
    <3> QED
      BY <1>1, <3>1, ProductMonotone
  <2>3. Summable(g(t)) /\ Summable(g(u))
    BY <2>2, NineFinite DEF Summable
  <2>4. DOMAIN g(u) = DOMAIN g(t) /\ \A i \in DOMAIN g(u) : g(u)[i] <= g(t)[i]
    BY <2>2
  <2> HIDE DEF g
  <2> QED
    BY <2>1, <2>3, <2>4, SumOfFollows
<1> QED
  BY <1>2, <1>3, <1>4

\* evaluate_trust()
LEMMA TrustFollows ==
    ASSUME NEW e \in Aggregations, NEW r, NEW s, Worsens(e, r, s),
           \A i \in 1..9 : r[Dimensions[i]] \in 0..100 /\ s[Dimensions[i]] \in 0..100
    PROVE  SeesWorse(e, r, s)
<1>1. e \in {"minimum", "mean", "weighted"}
  BY ScaleAssumption
<1>2. \A p \in TrustParts :
          p \in PartsOf[e] /\ p \in FallingPart /\ p \notin BadFlag /\ p \notin GoodFlag
  BY <1>1 DEF PartsOf, FallingPart, BadFlag, GoodFlag, TrustParts, Dimensions, Items, Named, Upward
<1>3. ASSUME NEW p \in TrustParts PROVE Falls(r, s, p)
  BY <1>2, PartFalls
<1>4. "sources" \in TrustParts /\ \A i \in 1..9 : Dimensions[i] \in TrustParts
  BY NineDimensions DEF TrustParts
<1>5. r.sources \in Int /\ s.sources \in Int /\ s.sources <= r.sources
  BY <1>3, <1>4 DEF Falls
<1>6. \A i \in 1..9 : s[Dimensions[i]] <= r[Dimensions[i]]
  BY <1>3, <1>4 DEF Falls
<1> DEFINE t(x) == [i \in DOMAIN Dimensions |-> x[Dimensions[i]]]
           a(x) == AggregateScore(t(x), e)
           score(x) == IF x.sources >= 2 THEN a(x) ELSE (a(x) * 8) \div 10
<1>7. /\ TrustScore(TrustReading(r, e)) = score(r) /\ TrustScore(TrustReading(s, e)) = score(s)
  BY Zenon DEF TrustScore, TrustReading, ProvenanceMet
<1>8. a(r) \in Nat /\ a(s) \in Nat /\ a(s) <= a(r)
  <2>1. \A i \in 1..9 : t(r)[i] \in 0..100 /\ t(s)[i] \in 0..100 /\ t(s)[i] <= t(r)[i]
    BY <1>6, NineDimensions
  <2> HIDE DEF t
  <2> QED
    BY <1>1, <2>1, AggregateFollows
<1>9. /\ Threat(e, r) = 10000 - TrustScore(TrustReading(r, e))
      /\ Threat(e, s) = 10000 - TrustScore(TrustReading(s, e))
  <2>1. CASE e = "minimum"
    BY <2>1 DEF Threat
  <2>2. CASE e = "mean"
    BY <2>2 DEF Threat
  <2>3. CASE e = "weighted"
    BY <2>3 DEF Threat
  <2> QED
    BY <1>1, <2>1, <2>2, <2>3
<1> HIDE DEF a
<1>10. score(r) \in Int /\ score(s) \in Int /\ score(s) <= score(r)
  BY <1>5, <1>8
<1> HIDE DEF score
<1>11. Rank(e, Verdict(e, r)) = 1 /\ Rank(e, Verdict(e, s)) = 1
  BY <1>1, NoVerdict
<1> QED
  BY <1>7, <1>9, <1>10, <1>11 DEF SeesWorse

\* Lists of one length, one of them nowhere greater, and the same end put to both.
NowhereGreater(g, h) ==
    /\ g \in Seq(Nat) /\ h \in Seq(Nat) /\ Len(g) = Len(h)
    /\ \A i \in 1..Len(g) : g[i] <= h[i]

LEMMA JoinedNumbers ==
    ASSUME NEW g \in Seq(Nat), NEW end \in Seq(Nat)
    PROVE  g \o end \in Seq(Nat) /\ Len(g \o end) = Len(g) + Len(end)
OBVIOUS

LEMMA SameEnd ==
    ASSUME NEW g, NEW h, NowhereGreater(g, h), NEW end \in Seq(Nat)
    PROVE  NowhereGreater(g \o end, h \o end) /\ Len(g \o end) = Len(g) + Len(end)
<1>1. /\ g \o end \in Seq(Nat) /\ h \o end \in Seq(Nat)
      /\ Len(g \o end) = Len(g) + Len(end) /\ Len(h \o end) = Len(g) + Len(end)
  <2>1. g \in Seq(Nat) /\ h \in Seq(Nat) /\ Len(h) = Len(g)
    BY DEF NowhereGreater
  <2>2. g \o end \in Seq(Nat) /\ Len(g \o end) = Len(g) + Len(end)
    BY <2>1, JoinedNumbers
  <2>3. h \o end \in Seq(Nat) /\ Len(h \o end) = Len(h) + Len(end)
    BY <2>1, JoinedNumbers
  <2> QED
    BY <2>1, <2>2, <2>3, Zenon
<1>2. ASSUME NEW i \in 1..(Len(g) + Len(end)) PROVE (g \o end)[i] <= (h \o end)[i]
  <2>1. /\ (g \o end)[i] = IF i <= Len(g) THEN g[i] ELSE end[i - Len(g)]
        /\ (h \o end)[i] = IF i <= Len(g) THEN h[i] ELSE end[i - Len(g)]
    BY DEF NowhereGreater
  <2>2. CASE i <= Len(g)
    <3>1. i \in 1..Len(g)
      BY <2>2 DEF NowhereGreater
    <3> QED
      BY <2>1, <2>2, <3>1 DEF NowhereGreater
  <2>3. CASE ~(i <= Len(g))
    <3>1. i - Len(g) \in 1..Len(end)
      BY <2>3 DEF NowhereGreater
    <3>2. end[i - Len(g)] \in Nat
      BY <3>1
    <3> QED
      BY <2>1, <2>3, <3>2
  <2> QED
    BY <2>2, <2>3
<1> QED
  BY <1>1, <1>2 DEF NowhereGreater

\* analyze_frame(), the battery and the attitude being the same.
LEMMA DroneFollows ==
    ASSUME NEW r, NEW s, Worsens("uav", r, s), s.battery = r.battery, s.stalling = r.stalling
    PROVE  SeesWorse("uav", r, s)
<1> DEFINE e == "uav"
<1>1. /\ \A p \in {"margin", "flow", "battery"} :
            p \in PartsOf[e] /\ p \in FallingPart /\ p \notin BadFlag /\ p \notin GoodFlag
      /\ "denied" \in PartsOf[e] /\ "denied" \in BadFlag
  BY DEF PartsOf, FallingPart, BadFlag, GoodFlag, TrustParts, Dimensions, Items, Named, Upward
<1>2. Falls(r, s, "margin") /\ Falls(r, s, "flow") /\ Set(r, s, "denied")
  BY <1>1, PartFalls, FlagSet
<1>3. /\ r.margin \in Int /\ s.margin \in Int /\ s.margin <= r.margin
      /\ r.flow \in Int /\ s.flow \in Int /\ s.flow <= r.flow
  BY <1>2 DEF Falls
<1>4. r.denied \in BOOLEAN /\ s.denied \in BOOLEAN /\ (r.denied => s.denied)
  BY <1>2 DEF Set
<1> DEFINE link(x) == IF x.margin < 6 THEN 800 ELSE IF x.margin < 12 THEN 400 ELSE 50
           nav(x) == IF ~x.denied THEN 20 ELSE IF x.flow < 40 THEN 900 ELSE 350
           power(x) == IF x.battery < 15 THEN <<950>>
                       ELSE IF x.battery < 25 THEN <<400>> ELSE << >>
           level(x) == IF x.stalling THEN <<700>> ELSE << >>
           more(x) == power(x) \o level(x)
<1>5. link(r) \in Nat /\ link(s) \in Nat /\ link(r) <= link(s)
  BY <1>3
<1>6. nav(r) \in Nat /\ nav(s) \in Nat /\ nav(r) <= nav(s)
  BY <1>3, <1>4
<1>7. more(s) = more(r)
  OBVIOUS
<1>8. power(r) \in Seq(Nat) /\ level(r) \in Seq(Nat)
  OBVIOUS
<1>9. /\ UavParts(r) = (<<link(r), nav(r)>> \o power(r)) \o level(r)
      /\ UavParts(s) = (<<link(s), nav(s)>> \o power(s)) \o level(s)
  BY Zenon DEF UavParts
<1>10. power(s) = power(r) /\ level(s) = level(r)
  OBVIOUS
<1> HIDE DEF link, nav, power, level
<1> DEFINE g == UavParts(r)
           h == UavParts(s)
<1>11. /\ g \in Seq(Nat) /\ h \in Seq(Nat) /\ Len(g) = Len(h) /\ Len(g) >= 2
       /\ \A i \in 1..Len(g) : g[i] <= h[i]
  <2>1. NowhereGreater(<<link(r), nav(r)>>, <<link(s), nav(s)>>)
    BY <1>5, <1>6 DEF NowhereGreater
  <2> DEFINE a == <<link(r), nav(r)>>
             b == <<link(s), nav(s)>>
  <2>2. Len(a) = 2
    OBVIOUS
  <2>3. NowhereGreater(a, b)
    BY <2>1
  <2> HIDE DEF a, b
  <2>4. NowhereGreater(a \o power(r), b \o power(r)) /\ Len(a \o power(r)) = 2 + Len(power(r))
    BY <1>8, <2>2, <2>3, SameEnd
  <2> DEFINE c == a \o power(r)
             d == b \o power(r)
  <2>5. NowhereGreater(c, d) /\ Len(c) = 2 + Len(power(r))
    BY <2>4
  <2> HIDE DEF c, d
  <2>6. NowhereGreater(c \o level(r), d \o level(r)) /\ Len(c \o level(r)) = Len(c) + Len(level(r))
    BY <1>8, <2>5, SameEnd
  <2>7. g = c \o level(r) /\ h = d \o level(r)
    BY <1>9, <1>10 DEF a, b, c, d
  <2>8. NowhereGreater(g, h) /\ Len(g) = Len(c) + Len(level(r))
    BY <2>6, <2>7
  <2>9. Len(power(r)) \in Nat /\ Len(level(r)) \in Nat
    BY <1>8
  <2> HIDE DEF g, h
  <2> QED
    BY <2>5, <2>8, <2>9 DEF NowhereGreater
<1> HIDE DEF g, h
<1>12. Summable(g) /\ Summable(h) /\ DOMAIN g = DOMAIN h /\ \A i \in DOMAIN g : g[i] <= h[i]
  <2>1. DOMAIN g = 1..Len(g) /\ DOMAIN h = 1..Len(g) /\ Len(g) \in Nat
    BY <1>11
  <2>2. IsFiniteSet(1..Len(g))
    BY <2>1, FS_Interval
  <2> QED
    BY <1>11, <2>1, <2>2 DEF Summable
<1>13. SumOf(g) \in Nat /\ SumOf(h) \in Nat /\ SumOf(g) <= SumOf(h)
  BY <1>12, SumOfFollows
<1>14. UavRisk(r) = SumOf(g) \div Len(g) /\ UavRisk(s) = SumOf(h) \div Len(g)
  BY <1>11 DEF UavRisk, g, h
<1>15. UavRisk(r) \in Nat /\ UavRisk(s) \in Nat /\ UavRisk(r) <= UavRisk(s)
  <2>1. Len(g) \in Nat /\ Len(g) > 0
    BY <1>11
  <2> QED
    BY <1>13, <1>14, <2>1, Quotient, QuotientMonotone
<1>16. Threat(e, r) = UavRisk(r) /\ Threat(e, s) = UavRisk(s)
  BY ScaleAssumption DEF Threat
<1>17. /\ Rank(e, "NOMINAL") = 1 /\ Rank(e, "DEGRADED") = 2
       /\ Rank(e, "CRITICAL_RETURN_TO_BASE") = 3
  <2>1. Verdicts(e) = <<"NOMINAL", "DEGRADED", "CRITICAL_RETURN_TO_BASE">>
    BY DEF Verdicts
  <2> QED
    BY <2>1, ThreeRanks
<1>18. Verdict(e, r) = UavStatus(r) /\ Verdict(e, s) = UavStatus(s)
  BY DEF Verdict
<1> HIDE DEF e
<1>19. Rank(e, UavStatus(s)) >= Rank(e, UavStatus(r))
  BY <1>15, <1>17 DEF UavStatus
<1> QED
  BY <1>15, <1>16, <1>18, <1>19 DEF SeesWorse, e
\* solve_rerouting(): the urgent shipment of a longer way takes no less time.
LEMMA RerouteFollows ==
    ASSUME NEW r, NEW s, Worsens("reroute", r, s)
    PROVE  SeesWorse("reroute", r, s)
<1> DEFINE e == "reroute"
<1>1. "km" \in PartsOf[e] /\ Upward("km")
  BY DEF PartsOf, FallingPart, BadFlag, GoodFlag, TrustParts, Dimensions, Items, Named, Upward
<1>2. Rises(r, s, "km")
  BY <1>1, PartRises
<1>3. r.km >= 5 /\ s.km >= 5
  BY <1>1 DEF Worsens
<1>4. r.km \in Nat /\ s.km \in Nat /\ r.km <= s.km
  BY <1>2, <1>3 DEF Rises
<1>5. /\ RecommendedMode(r.km, TRUE, FALSE) = "air_cargo"
      /\ RecommendedMode(s.km, TRUE, FALSE) = "air_cargo"
  BY <1>3, <1>4, UrgentGoesByAir
<1> DEFINE x == 20 * r.km + 650
           y == 20 * s.km + 650
<1>6. Threat(e, r) = x \div 1300 /\ Threat(e, s) = y \div 1300
  BY <1>5, ScaleAssumption DEF Threat, Transit, Speed
<1>7. x \in Nat /\ y \in Nat /\ x <= y
  BY <1>4
<1> HIDE DEF x, y
<1>8. x \div 1300 \in Nat /\ y \div 1300 \in Nat /\ x \div 1300 <= y \div 1300
  BY <1>7, Quotient, QuotientMonotone
<1>9. Rank(e, Verdict(e, r)) = 1 /\ Rank(e, Verdict(e, s)) = 1
  BY NoVerdict
<1> HIDE DEF e
<1> QED
  BY <1>6, <1>8, <1>9 DEF SeesWorse, e

\* The states of two readings: the same, or one that scores less with the readiness engine.
StateFalls(r, s) == r.state = s.state \/ StateScore(s.state) < StateScore(r.state)

\* What the four scores of a state say of it.
LEMMA ScoresOfStates ==
    ASSUME NEW x
    PROVE  /\ StateScore(x) \in {0, 50, 80, 100}
           /\ StateScore(x) = 0 <=> x \in {"physically_closed", "functionally_closed"}
           /\ StateScore(x) = 50 <=> x \in {"open_but_uninsurable", "open_but_no_carrier_capacity",
                                           "open_but_navigation_untrusted",
                                           "open_but_communications_degraded"}
           /\ StateScore(x) = 80 <=> x \in {"open_degraded", "open_capacity_constrained"}
BY DEF StateScore, Readiness!CorridorScore

\* export_cot_xml() and generate_track_report()
LEMMA DisplayFollows ==
    ASSUME NEW r, NEW s, StateFalls(r, s)
    PROVE  /\ Threat("display", s) >= Threat("display", r)
           /\ \/ s.state \in {"open_but_no_carrier_capacity", "open_but_communications_degraded"}
              \/ Rank("display", Verdict("display", s)) >= Rank("display", Verdict("display", r))
<1> DEFINE e == "display"
           x == r.state
           y == s.state
           track(z) == IF TrackIdentity(z) = "hostile" THEN 2
                       ELSE IF TrackIdentity(z) = "unknown" THEN 1 ELSE 0
<1>1. Threat(e, r) = track(x) /\ Threat(e, s) = track(y)
  BY ScaleAssumption DEF Threat
<1>2. Verdict(e, r) = CotType(x) /\ Verdict(e, s) = CotType(y)
  BY DEF Verdict
<1>3. Rank(e, "friend") = 1 /\ Rank(e, "unknown") = 2 /\ Rank(e, "hostile") = 3
  <2>1. Verdicts(e) = <<"friend", "unknown", "hostile">>
    BY DEF Verdicts
  <2> QED
    BY <2>1, ThreeRanks
<1>4. x = y \/ StateScore(y) < StateScore(x)
  BY DEF StateFalls
<1>5. /\ CotType(y) = IF StateScore(y) = 0 THEN "hostile"
                      ELSE IF y \in {"open_degraded", "open_but_navigation_untrusted",
                                     "open_but_uninsurable"} THEN "unknown" ELSE "friend"
      /\ CotType(x) = IF StateScore(x) = 0 THEN "hostile"
                      ELSE IF x \in {"open_degraded", "open_but_navigation_untrusted",
                                     "open_but_uninsurable"} THEN "unknown" ELSE "friend"
  BY ScoresOfStates DEF CotType, Closed
<1>6. /\ track(y) = IF StateScore(y) = 0 THEN 2 ELSE IF y = "open" THEN 0 ELSE 1
      /\ track(x) = IF StateScore(x) = 0 THEN 2 ELSE IF x = "open" THEN 0 ELSE 1
  BY ScoresOfStates DEF TrackIdentity, Closed
<1>7. StateScore("open") = 100
  BY ScoresOfStates DEF StateScore, Readiness!CorridorScore
<1> HIDE DEF e, x, y
<1>8. track(y) >= track(x)
  <2> HIDE DEF track
  <2>1. StateScore(x) \in {0, 50, 80, 100} /\ StateScore(y) \in {0, 50, 80, 100}
    BY ScoresOfStates
  <2> QED
    BY <1>4, <1>6, <1>7, <2>1
<1>9. \/ y \in {"open_but_no_carrier_capacity", "open_but_communications_degraded"}
      \/ Rank(e, CotType(y)) >= Rank(e, CotType(x))
  <2>1. CASE x = y
    BY <1>3, <1>5, <2>1
  <2>2. CASE StateScore(y) < StateScore(x)
    <3>1. StateScore(y) = 0 => CotType(y) = "hostile"
      BY <1>5
    <3>2. StateScore(y) = 50 => \/ y \in {"open_but_no_carrier_capacity",
                                         "open_but_communications_degraded"}
                               \/ CotType(y) = "unknown"
      BY <1>5, ScoresOfStates
    <3>3. StateScore(x) = 100 => CotType(x) = "friend"
      BY <1>5, ScoresOfStates
    <3>4. StateScore(x) # 0 => CotType(x) \in {"friend", "unknown"}
      BY <1>5
    <3>5. CotType(y) \in {"friend", "unknown", "hostile"}
      BY <1>5
    <3>6. StateScore(x) \in {0, 50, 80, 100} /\ StateScore(y) \in {0, 50, 80, 100}
      BY ScoresOfStates
    <3> QED
      BY <1>3, <2>2, <3>1, <3>2, <3>3, <3>4, <3>5, <3>6
  <2> QED
    BY <1>4, <2>1, <2>2
<1> QED
  BY <1>1, <1>2, <1>8, <1>9 DEF e, x, y

\* evaluate_marine_risk() and issue_certificate()
LEMMA InsuranceFollows ==
    ASSUME NEW r, NEW s, Lost(r, s, "alternate"), StateFalls(r, s)
    PROVE  /\ \/ s.state = "functionally_closed" /\ r.state # s.state
              \/ Threat("insurance", s) >= Threat("insurance", r)
           /\ Rank("insurance", Verdict("insurance", s)) >= Rank("insurance", Verdict("insurance", r))
<1> DEFINE e == "insurance"
           x == r.state
           y == s.state
           a == r.alternate
           b == s.alternate
           off(z, has) == IF has /\ z # "physically_closed" THEN 285 ELSE 0
           grade(z, has) == IF off(z, has) >= 250 THEN "PREFERRED_RISK"
                            ELSE IF z = "physically_closed" THEN "UNINSURABLE" ELSE "STANDARD_RISK"
<1>1. a \in BOOLEAN /\ b \in BOOLEAN /\ (b => a)
  BY DEF Lost
<1>2. x = y \/ StateScore(y) < StateScore(x)
  BY DEF StateFalls
<1>3. /\ Threat(e, r) = BaselineRate(x) * (1000 - off(x, a))
      /\ Threat(e, s) = BaselineRate(y) * (1000 - off(y, b))
  BY ScaleAssumption DEF Threat, MitigatedRate, Discount
<1>4. Verdict(e, r) = grade(x, a) /\ Verdict(e, s) = grade(y, b)
  BY DEF Verdict, UnderwritingGrade, Discount, Approved
<1>5. /\ Rank(e, "PREFERRED_RISK") = 1 /\ Rank(e, "STANDARD_RISK") = 2
      /\ Rank(e, "UNINSURABLE") = 3
  <2>1. Verdicts(e) = <<"PREFERRED_RISK", "STANDARD_RISK", "UNINSURABLE">>
    BY DEF Verdicts
  <2> QED
    BY <2>1, ThreeRanks
<1> HIDE DEF e, x, y, a, b
<1>6. /\ BaselineRate(x) \in {85, 140, 250} /\ BaselineRate(y) \in {85, 140, 250}
      /\ StateScore(x) >= 80 => BaselineRate(x) = 85
      /\ y = "physically_closed" => BaselineRate(y) = 250
  BY ScoresOfStates DEF BaselineRate
<1>7. x = "physically_closed" => y = x
  <2>1. x = "physically_closed" => StateScore(x) = 0
    BY ScoresOfStates
  <2>2. StateScore(y) \in {0, 50, 80, 100}
    BY ScoresOfStates
  <2> QED
    BY <1>2, <2>1, <2>2
<1>8. off(x, a) \in {0, 285} /\ off(y, b) \in {0, 285} /\ off(y, b) <= off(x, a)
  BY <1>1, <1>7
<1>9. x = y \/ y = "functionally_closed" \/ BaselineRate(x) <= BaselineRate(y)
  <2>1. StateScore(x) \in {0, 50, 80, 100} /\ StateScore(y) \in {0, 50, 80, 100}
    BY ScoresOfStates
  <2>2. StateScore(y) = 0 => y \in {"physically_closed", "functionally_closed"}
    BY ScoresOfStates
  <2> QED
    BY <1>2, <1>6, <2>1, <2>2
<1>10. \/ y = "functionally_closed" /\ x # y
       \/ BaselineRate(y) * (1000 - off(y, b)) >= BaselineRate(x) * (1000 - off(x, a))
  <2> HIDE DEF off
  <2> QED
    BY <1>6, <1>8, <1>9
<1>11. Rank(e, grade(y, b)) >= Rank(e, grade(x, a))
  BY <1>1, <1>5, <1>7
<1> QED
  BY <1>3, <1>4, <1>10, <1>11 DEF e, x, y

\* validate_deployment()
LEMMA PbmmFollows ==
    ASSUME NEW r, NEW s, Worsens("pbmm", r, s), DOMAIN r = PartsOf["pbmm"],
           DOMAIN s = PartsOf["pbmm"]
    PROVE  SeesWorse("pbmm", r, s)
<1> DEFINE e == "pbmm"
           flags == {"rbac", "cmk", "immutable", "airgap"}
<1>1. /\ PartsOf[e] = flags \cup {"tls", "region"}
      /\ \A p \in flags : p \in GoodFlag /\ p \notin BadFlag
  BY DEF PartsOf, GoodFlag, BadFlag
<1>2. \A p \in flags : Lost(r, s, p)
  BY <1>1, FlagLost
<1>3. s.tls \in {"1.3", "1.2"} => r.tls \in {"1.3", "1.2"}
  <2>1. NoBetter(e, "tls", r["tls"], s["tls"])
    BY <1>1 DEF Worsens
  <2> QED
    BY <2>1, Zenon DEF NoBetter
<1>4. s.region = "canada" => r.region = "canada"
  <2>1. NoBetter(e, "region", r["region"], s["region"])
    BY <1>1 DEF Worsens
  <2> QED
    BY <2>1, Zenon DEF NoBetter
<1>5. ASSUME NEW c \in Unsatisfied(r) PROVE c \in Unsatisfied(s)
  <2>1. c \in flags \/ c = "tls" \/ c = "region"
    BY <1>1 DEF Unsatisfied
  <2>2. CASE c \in flags
    <3>1. ~r[c]
      BY <2>2 DEF Unsatisfied
    <3>2. ~s[c]
      BY <1>2, <2>2, <3>1 DEF Lost
    <3> QED
      BY <1>1, <2>2, <3>2 DEF Unsatisfied
  <2>3. CASE c = "tls"
    BY <1>1, <1>3, <2>3 DEF Unsatisfied
  <2>4. CASE c = "region"
    BY <1>1, <1>4, <2>4 DEF Unsatisfied
  <2> QED
    BY <2>1, <2>2, <2>3, <2>4
<1>6. IsFiniteSet(PartsOf[e])
  <2>1. IsFiniteSet({"rbac"} \cup {"cmk"} \cup {"immutable"} \cup {"airgap"} \cup {"tls"}
                    \cup {"region"})
    BY FS_Singleton, FS_Union, Zenon
  <2>2. PartsOf[e] = {"rbac"} \cup {"cmk"} \cup {"immutable"} \cup {"airgap"} \cup {"tls"}
                     \cup {"region"}
    BY <1>1
  <2> QED
    BY <2>1, <2>2, Zenon
<1>7. IsFiniteSet(Unsatisfied(r)) /\ IsFiniteSet(Unsatisfied(s))
  BY <1>6, FS_Subset DEF Unsatisfied
<1>8. /\ Cardinality(Unsatisfied(r)) \in Nat /\ Cardinality(Unsatisfied(s)) \in Nat
      /\ Cardinality(Unsatisfied(r)) <= Cardinality(Unsatisfied(s))
  BY <1>5, <1>7, FS_Subset, FS_CardinalityType
<1>9. /\ PbmmCompliant(s) => PbmmCompliant(r)
      /\ PbmmCompliant(r) \in BOOLEAN /\ PbmmCompliant(s) \in BOOLEAN
  BY <1>5 DEF PbmmCompliant
<1>10. /\ Threat(e, r) = Cardinality(Unsatisfied(r)) /\ Threat(e, s) = Cardinality(Unsatisfied(s))
       /\ Verdict(e, r) = PbmmCompliant(r) /\ Verdict(e, s) = PbmmCompliant(s)
  BY ScaleAssumption DEF Threat, Verdict
<1>11. Rank(e, PbmmCompliant(s)) >= Rank(e, PbmmCompliant(r))
  BY <1>9, CertificateFollows
<1> HIDE DEF e
<1> QED
  BY <1>8, <1>10, <1>11 DEF SeesWorse, e

\* analyze_stream(): a reading further above the mean of the history.
LEMMA AnomalyFollows ==
    ASSUME NEW r, NEW s, Worsens("anomaly", r, s)
    PROVE  SeesWorse("anomaly", r, s)
<1> DEFINE e == "anomaly"
           n == Len(History)
           sum == SumOf(History)
           squared == [i \in DOMAIN History |-> History[i] * History[i]]
           spread == n * SumOf(squared) - sum * sum
           d(x) == n * x.value - sum
<1>1. "value" \in PartsOf[e] /\ Upward("value")
  BY DEF PartsOf, FallingPart, BadFlag, GoodFlag, TrustParts, Dimensions, Items, Named, Upward
<1>2. r.value \in Int /\ s.value \in Int /\ r.value <= s.value
  BY <1>1, PartRises DEF Rises
<1>3. n * r.value >= sum /\ n * s.value >= sum
  BY <1>1 DEF Worsens
<1>4. History \in Seq(Nat) /\ n \in Nat
  BY GradeAssumption
<1>5. sum \in Nat /\ SumOf(squared) \in Nat
  <2>1. IsFiniteSet(DOMAIN History)
    BY <1>4, FS_Interval
  <2>2. Summable(History)
    BY <1>4, <2>1 DEF Summable
  <2>3. \A i \in DOMAIN History : History[i] * History[i] \in Nat
    BY <1>4
  <2>4. Summable(squared)
    BY <2>1, <2>3 DEF Summable
  <2> QED
    BY <2>2, <2>4, SumOfNat
<1> HIDE DEF n, sum, squared
<1>6. spread \in Int
  BY <1>4, <1>5
<1>7. d(r) \in Nat /\ d(s) \in Nat /\ d(r) <= d(s)
  <2>1. n * (s.value - r.value) \in Nat
    BY <1>2, <1>4
  <2>2. n * s.value = n * r.value + n * (s.value - r.value)
    BY <1>2, <1>4
  <2>3. n * r.value \in Int /\ n * s.value \in Int
    BY <1>2, <1>4
  <2> QED
    BY <1>3, <1>5, <2>1, <2>2, <2>3
<1>8. ASSUME NEW x \in {r, s}
      PROVE  Anomalous(History, x.value) <=>
                 /\ n >= 3
                 /\ IF spread = 0 THEN d(x) # 0 ELSE 4 * d(x) * d(x) >= 25 * spread
  BY Zenon DEF Anomalous, n, sum, squared
<1> HIDE DEF d, spread
<1>9. /\ d(r) * d(r) \in Nat /\ d(s) * d(s) \in Nat /\ d(r) * d(r) <= d(s) * d(s)
      /\ 4 * d(r) * d(r) = 4 * (d(r) * d(r)) /\ 4 * d(s) * d(s) = 4 * (d(s) * d(s))
  BY <1>7, ProductMonotone
<1>10. Anomalous(History, r.value) => Anomalous(History, s.value)
  <2> DEFINE p == d(r) * d(r)
             q == d(s) * d(s)
  <2>1. p \in Nat /\ q \in Nat /\ p <= q /\ 4 * d(r) * d(r) = 4 * p /\ 4 * d(s) * d(s) = 4 * q
    BY <1>9
  <2> HIDE DEF p, q
  <2>2. 4 * d(r) * d(r) >= 25 * spread => 4 * d(s) * d(s) >= 25 * spread
    BY <1>6, <2>1
  <2>3. d(r) # 0 => d(s) # 0
    BY <1>7
  <2> QED
    BY <1>8, <2>2, <2>3
<1>11. /\ Threat(e, r) = (IF Anomalous(History, r.value) THEN 1 ELSE 0)
       /\ Threat(e, s) = (IF Anomalous(History, s.value) THEN 1 ELSE 0)
  BY ScaleAssumption DEF Threat
<1>12. Rank(e, Verdict(e, r)) = 1 /\ Rank(e, Verdict(e, s)) = 1
  BY NoVerdict
<1> HIDE DEF e
<1> QED
  BY <1>10, <1>11, <1>12 DEF SeesWorse, e
\* A detection, contact, pass or component before and after.
LEMMA ItemWorsens ==
    ASSUME NEW e \in {"cuas", "vessels", "overflight", "bom"}, NEW r, NEW s, Worsens(e, r, s),
           NEW p \in Items
    PROVE  /\ r[p] # Absent => IsItem(e, r[p]) /\ s[p] # Absent /\ NoBetterItem(e, r[p], s[p])
           /\ s[p] # Absent => IsItem(e, s[p])
           /\ e = "bom" => r[p] # Absent
<1>1. p \in PartsOf[e]
  BY DEF PartsOf
<1>2. NoBetter(e, p, r[p], s[p])
  BY <1>1 DEF Worsens
<1> QED
  BY <1>2, Zenon DEF NoBetter

\* The largest of some numbers, each of which something in the other set is no less than.
LEMMA MaxFollows ==
    ASSUME NEW bound \in Nat, NEW S, S \subseteq 0..bound, S # {}, NEW T, T \subseteq 0..bound,
           T # {}, \A x \in S : \E y \in T : x <= y
    PROVE  Max(S) \in Nat /\ Max(T) \in Nat /\ Max(S) <= Max(T)
<1>1. Max(S) \in S /\ Max(T) \in T /\ \A y \in T : y <= Max(T)
  BY MaxWithin
<1>2. PICK y \in T : Max(S) <= y
  BY <1>1
<1>3. y <= Max(T) /\ y \in 0..bound /\ Max(S) \in 0..bound /\ Max(T) \in 0..bound
  BY <1>1
<1> HIDE DEF Max
<1> QED
  BY <1>2, <1>3

\* correlate_contacts(): the most threatening contact decides.
LEMMA VesselsFollow ==
    ASSUME NEW r, NEW s, Worsens("vessels", r, s), DOMAIN r = Items, DOMAIN s = Items
    PROVE  SeesWorse("vessels", r, s)
<1> DEFINE e == "vessels"
           v(x) == VesselThreat(x, OnAir)
           S(x) == {0} \cup {v(y) : y \in Present(x)}
<1>1. ASSUME NEW x, IsItem(e, x) PROVE v(x) \in 0..1000
  <2> DEFINE sum == 200 + (IF IsDark(x, OnAir) THEN 400 ELSE 0)
                       + (IF x.distance < 25 THEN 250 ELSE 0)
                       + (IF x.speed < 2 /\ x.distance < 50 THEN 150 ELSE 0)
  <2>1. sum \in Nat /\ v(x) = Min({1000, sum})
    BY DEF VesselThreat
  <2> HIDE DEF sum, v
  <2>2. v(x) = (IF sum < 1000 THEN sum ELSE 1000)
    BY <2>1, MinTwo
  <2> QED
    BY <2>1, <2>2
<1>2. ASSUME NEW x, NEW y, IsItem(e, x), IsItem(e, y), NoBetterItem(e, x, y) PROVE v(x) <= v(y)
  <2> DEFINE sum(z) == 200 + (IF IsDark(z, OnAir) THEN 400 ELSE 0)
                           + (IF z.distance < 25 THEN 250 ELSE 0)
                           + (IF z.speed < 2 /\ z.distance < 50 THEN 150 ELSE 0)
  <2>1. v(x) = Min({1000, sum(x)}) /\ v(y) = Min({1000, sum(y)})
    BY DEF VesselThreat
  <2>2. /\ x.distance \in Int /\ y.distance \in Int /\ y.distance <= x.distance
        /\ x.speed \in Int /\ y.speed \in Int /\ y.speed <= x.speed
        /\ IsDark(x, OnAir) => IsDark(y, OnAir)
    BY <1>2 DEF IsItem, NoBetterItem
  <2>3. sum(x) \in Nat /\ sum(y) \in Nat /\ sum(x) <= sum(y)
    BY <2>2
  <2> HIDE DEF sum, v
  <2> QED
    BY <2>1, <2>3, MinTwo
<1> HIDE DEF v
<1>3. ASSUME NEW x \in {r, s} PROVE S(x) \subseteq 0..1000 /\ S(x) # {}
  <2>1. ASSUME NEW y \in Present(x) PROVE v(y) \in 0..1000
    <3>1. PICK p \in Items : y = x[p] /\ x[p] # Absent
      BY DEF Present
    <3>2. IsItem(e, y)
      BY <3>1, ItemWorsens
    <3> QED
      BY <1>1, <3>2
  <2> QED
    BY <2>1
<1>4. ASSUME NEW x \in S(r) PROVE \E y \in S(s) : x <= y
  <2>1. CASE x = 0
    BY <2>1
  <2>2. CASE x # 0
    <3>1. PICK z \in Present(r) : x = v(z)
      BY <2>2
    <3>2. PICK p \in Items : z = r[p] /\ r[p] # Absent
      BY DEF Present
    <3>3. /\ IsItem(e, z) /\ s[p] # Absent /\ IsItem(e, s[p]) /\ NoBetterItem(e, z, s[p])
      BY <3>2, ItemWorsens
    <3>4. s[p] \in Present(s)
      BY <3>3 DEF Present
    <3>5. v(s[p]) \in S(s) /\ x <= v(s[p])
      BY <1>2, <3>1, <3>3, <3>4
    <3> QED
      BY <3>5
  <2> QED
    BY <2>1, <2>2
<1>5. Threat(e, r) = Max(S(r)) /\ Threat(e, s) = Max(S(s))
  BY ScaleAssumption DEF Threat, HighestThreat, v
<1> HIDE DEF S
<1>6. Max(S(r)) \in Nat /\ Max(S(s)) \in Nat /\ Max(S(r)) <= Max(S(s))
  <2>1. 1000 \in Nat /\ S(r) \subseteq 0..1000 /\ S(r) # {} /\ S(s) \subseteq 0..1000 /\ S(s) # {}
    BY <1>3
  <2>2. \A x \in S(r) : \E y \in S(s) : x <= y
    BY <1>4
  <2> DEFINE A == S(r)
             B == S(s)
             bound == 1000
  <2>3. /\ bound \in Nat /\ A \subseteq 0..bound /\ A # {} /\ B \subseteq 0..bound /\ B # {}
        /\ \A x \in A : \E y \in B : x <= y
    BY <2>1, <2>2
  <2> HIDE DEF A, B, bound
  <2>4. Max(A) \in Nat /\ Max(B) \in Nat /\ Max(A) <= Max(B)
    BY <2>3, MaxFollows
  <2> QED
    BY <2>4 DEF A, B
<1>7. Rank(e, Verdict(e, r)) = 1 /\ Rank(e, Verdict(e, s)) = 1
  BY NoVerdict
<1> HIDE DEF e
<1> QED
  BY <1>5, <1>6, <1>7 DEF SeesWorse, e

\* evaluate_exposure(): the worst pass decides.
LEMMA OverflightFollows ==
    ASSUME NEW r, NEW s, Worsens("overflight", r, s), DOMAIN r = Items, DOMAIN s = Items
    PROVE  SeesWorse("overflight", r, s)
<1> DEFINE e == "overflight"
           high(x) == Min({90, x.elevation})
           gain(x) == IF x.sensor = "SAR_RADAR" THEN 1000 ELSE 800
           S(x) == {0} \cup {Exposure(y) : y \in Present(x)}
<1>1. ASSUME NEW x, IsItem(e, x)
      PROVE  /\ x.elevation \in Nat /\ high(x) \in 0..90 /\ gain(x) \in {800, 1000}
             /\ Exposure(x) = (high(x) * gain(x)) \div 90
  <2>1. x.elevation \in Nat
    BY <1>1 DEF IsItem
  <2>2. high(x) \in 0..90
    <3>1. high(x) = (IF x.elevation < 90 THEN x.elevation ELSE 90)
      BY <2>1, MinTwo
    <3> QED
      BY <2>1, <3>1
  <2> QED
    BY <2>1, <2>2 DEF Exposure
<1>2. ASSUME NEW x, NEW y, IsItem(e, x), IsItem(e, y), NoBetterItem(e, x, y)
      PROVE  high(x) <= high(y) /\ gain(x) <= gain(y)
  <2>1. x.elevation <= y.elevation /\ (x.sensor = "SAR_RADAR" => y.sensor = "SAR_RADAR")
    BY <1>2 DEF NoBetterItem
  <2>2. x.elevation \in Nat /\ y.elevation \in Nat
    BY <1>2 DEF IsItem
  <2> QED
    BY <2>1, <2>2, MinTwo
<1> HIDE DEF high, gain
<1>3. ASSUME NEW x, IsItem(e, x) PROVE Exposure(x) \in 0..1000
  <2> DEFINE a == high(x)
             b == gain(x)
             c == a * b
  <2>1. a \in 0..90 /\ b \in {800, 1000} /\ Exposure(x) = c \div 90
    BY <1>1, <1>3
  <2> HIDE DEF a, b
  <2>2. c \in Nat /\ c <= 1000 * 90
    BY <2>1
  <2> HIDE DEF c
  <2> QED
    BY <2>1, <2>2, QuotientBelow
<1>4. ASSUME NEW x, NEW y, IsItem(e, x), IsItem(e, y), NoBetterItem(e, x, y)
      PROVE  Exposure(x) <= Exposure(y)
  <2>1. /\ high(x) \in Nat /\ high(y) \in Nat /\ gain(x) \in Nat /\ gain(y) \in Nat
        /\ high(x) <= high(y) /\ gain(x) <= gain(y)
    BY <1>1, <1>2, <1>4
  <2> DEFINE a == high(x) * gain(x)
             b == high(y) * gain(y)
  <2>2. a \in Nat /\ b \in Nat /\ a <= b
    BY <2>1, ProductMonotone
  <2>3. Exposure(x) = a \div 90 /\ Exposure(y) = b \div 90
    BY <1>1, <1>4
  <2> HIDE DEF a, b
  <2> QED
    BY <2>2, <2>3, QuotientMonotone
<1>5. ASSUME NEW x \in {r, s} PROVE S(x) \subseteq 0..1000 /\ S(x) # {}
  <2>1. ASSUME NEW y \in Present(x) PROVE Exposure(y) \in 0..1000
    <3>1. PICK p \in Items : y = x[p] /\ x[p] # Absent
      BY DEF Present
    <3>2. IsItem(e, y)
      BY <3>1, ItemWorsens
    <3> QED
      BY <1>3, <3>2
  <2> QED
    BY <2>1
<1>6. ASSUME NEW x \in S(r) PROVE \E y \in S(s) : x <= y
  <2>1. CASE x = 0
    BY <2>1
  <2>2. CASE x # 0
    <3>1. PICK z \in Present(r) : x = Exposure(z)
      BY <2>2
    <3>2. PICK p \in Items : z = r[p] /\ r[p] # Absent
      BY DEF Present
    <3>3. /\ IsItem(e, z) /\ s[p] # Absent /\ IsItem(e, s[p]) /\ NoBetterItem(e, z, s[p])
      BY <3>2, ItemWorsens
    <3>4. s[p] \in Present(s)
      BY <3>3 DEF Present
    <3>5. Exposure(s[p]) \in S(s) /\ x <= Exposure(s[p])
      BY <1>4, <3>1, <3>3, <3>4
    <3> QED
      BY <3>5
  <2> QED
    BY <2>1, <2>2
<1>7. /\ PeakExposure(Present(r)) = Max(S(r)) /\ PeakExposure(Present(s)) = Max(S(s))
  BY DEF PeakExposure
<1> HIDE DEF S
<1>8. Max(S(r)) \in Nat /\ Max(S(s)) \in Nat /\ Max(S(r)) <= Max(S(s))
  <2>1. 1000 \in Nat /\ S(r) \subseteq 0..1000 /\ S(r) # {} /\ S(s) \subseteq 0..1000 /\ S(s) # {}
    BY <1>5
  <2>2. \A x \in S(r) : \E y \in S(s) : x <= y
    BY <1>6
  <2> DEFINE A == S(r)
             B == S(s)
             bound == 1000
  <2>3. /\ bound \in Nat /\ A \subseteq 0..bound /\ A # {} /\ B \subseteq 0..bound /\ B # {}
        /\ \A x \in A : \E y \in B : x <= y
    BY <2>1, <2>2
  <2> HIDE DEF A, B, bound
  <2>4. Max(A) \in Nat /\ Max(B) \in Nat /\ Max(A) <= Max(B)
    BY <2>3, MaxFollows
  <2> QED
    BY <2>4 DEF A, B
<1> DEFINE peak(x) == PeakExposure(Present(x))
<1>9. peak(r) \in Nat /\ peak(s) \in Nat /\ peak(r) <= peak(s)
  BY <1>7, <1>8
<1>10. /\ Threat(e, r) = peak(r) /\ Threat(e, s) = peak(s)
       /\ Verdict(e, r) = EmconLevel(Present(r)) /\ Verdict(e, s) = EmconLevel(Present(s))
  BY ScaleAssumption DEF Threat, Verdict
<1>11. /\ Rank(e, "charlie_active") = 1 /\ Rank(e, "bravo_low_probability") = 2
       /\ Rank(e, "alpha_silent") = 3
  <2>1. Verdicts(e) = <<"charlie_active", "bravo_low_probability", "alpha_silent">>
    BY DEF Verdicts
  <2> QED
    BY <2>1, ThreeRanks
<1> HIDE DEF e
<1>12. Rank(e, EmconLevel(Present(s))) >= Rank(e, EmconLevel(Present(r)))
  BY <1>9, <1>11 DEF EmconLevel
<1> QED
  BY <1>9, <1>10, <1>12 DEF SeesWorse, e
\* The three components of a bill of materials.
LEMMA BomListed ==
    ASSUME NEW x, x.first # Absent, x.second # Absent, x.third # Absent
    PROVE  /\ DOMAIN Listed(x) = 1..3
           /\ Listed(x)[1] = x.first /\ Listed(x)[2] = x.second /\ Listed(x)[3] = x.third
<1>1. Listed(x) = (<<x.first>> \o <<x.second>>) \o <<x.third>>
  BY Zenon DEF Listed, Once
<1> DEFINE a == x.first
           b == x.second
           c == x.third
<1> HIDE DEF a, b, c
<1> DEFINE S == {a, b, c}
           u == <<a>>
           v == <<b>>
           w == <<c>>
           l == (u \o v) \o w
<1>0. u \in Seq(S) /\ v \in Seq(S) /\ w \in Seq(S)
  OBVIOUS
<1>2. /\ Len(u) = 1 /\ Len(v) = 1 /\ Len(w) = 1 /\ u[1] = a /\ v[1] = b /\ w[1] = c
  OBVIOUS
<1> HIDE DEF S, u, v, w
<1>3. /\ u \o v \in Seq(S) /\ Len(u \o v) = 2 /\ (u \o v)[1] = a /\ (u \o v)[2] = b
  <2>1. /\ u \o v \in Seq(S) /\ Len(u \o v) = Len(u) + Len(v)
        /\ \A i \in 1..Len(u) : (u \o v)[i] = u[i]
        /\ \A i \in 1..Len(v) : (u \o v)[Len(u) + i] = v[i]
    BY <1>0
  <2>2. 1 \in 1..Len(u) /\ 1 \in 1..Len(v) /\ Len(u) + 1 = 2 /\ Len(u) + Len(v) = 2
    BY <1>2
  <2> QED
    BY <1>2, <2>1, <2>2
<1>4. DOMAIN l = 1..3 /\ l[1] = a /\ l[2] = b /\ l[3] = c
  <2> DEFINE q == u \o v
  <2>1. q \in Seq(S) /\ w \in Seq(S)
    BY <1>0, <1>3
  <2>2. Len(q) = 2 /\ q[1] = a /\ q[2] = b
    BY <1>3
  <2> HIDE DEF q
  <2>3. /\ q \o w \in Seq(S) /\ Len(q \o w) = Len(q) + Len(w)
        /\ \A i \in 1..Len(q) : (q \o w)[i] = q[i]
        /\ \A i \in 1..Len(w) : (q \o w)[Len(q) + i] = w[i]
    BY <2>1
  <2>4. /\ 1 \in 1..Len(q) /\ 2 \in 1..Len(q) /\ 1 \in 1..Len(w) /\ Len(q) + 1 = 3
        /\ Len(q) + Len(w) = 3
    BY <1>2, <2>2
  <2>5. l = q \o w
    BY DEF q
  <2> HIDE DEF l
  <2> QED
    BY <1>2, <2>2, <2>3, <2>4, <2>5
<1>5. Listed(x) = l
  BY <1>1, Zenon DEF a, b, c, u, v, w
<1> HIDE DEF l
<1> QED
  BY <1>4, <1>5 DEF a, b, c

\* The risk of a component that is no better, after no fewer days.
LEMMA ComponentFollows ==
    ASSUME NEW c, IsItem("bom", c), NEW d, IsItem("bom", d), NoBetterItem("bom", c, d),
           NEW m \in Nat, NEW n \in Nat, m <= n
    PROVE  /\ ComponentRisk(c, m) \in Nat /\ ComponentRisk(d, n) \in Nat
           /\ ComponentRisk(c, m) <= ComponentRisk(d, n)
<1>1. /\ c.criticality \in Nat /\ c.lead \in Int /\ c.buffer \in Int
      /\ d.criticality \in Nat /\ d.lead \in Int /\ d.buffer \in Int
      /\ c.criticality <= d.criticality /\ c.lead <= d.lead /\ d.buffer <= c.buffer
  BY DEF IsItem, NoBetterItem
<1>2. /\ c.single \in BOOLEAN /\ d.single \in BOOLEAN /\ (c.single => d.single)
      /\ c.substitutable \in BOOLEAN /\ d.substitutable \in BOOLEAN
      /\ (d.substitutable => c.substitutable)
  BY DEF IsItem, NoBetterItem
<1> DEFINE one(x) == IF x.single THEN 350 ELSE 0
           none(x) == IF x.substitutable THEN 0 ELSE 150
           late(x, k) == IF x.buffer - k <= 0 THEN 200 ELSE IF x.buffer - k < x.lead THEN 100 ELSE 0
           risk(x, k) == 4 * x.criticality + one(x) + none(x) + late(x, k)
<1>3. /\ one(c) \in Nat /\ one(d) \in Nat /\ one(c) <= one(d)
      /\ none(c) \in Nat /\ none(d) \in Nat /\ none(c) <= none(d)
  BY <1>2
<1>4. late(c, m) \in Nat /\ late(d, n) \in Nat /\ late(c, m) <= late(d, n)
  BY <1>1
<1>5. ComponentRisk(c, m) = Min({1000, risk(c, m)}) /\ ComponentRisk(d, n) = Min({1000, risk(d, n)})
  BY DEF ComponentRisk, EffectiveBuffer
<1> HIDE DEF one, none, late
<1>6. risk(c, m) \in Nat /\ risk(d, n) \in Nat /\ risk(c, m) <= risk(d, n)
  BY <1>1, <1>3, <1>4
<1> HIDE DEF risk
<1> QED
  BY <1>5, <1>6, MinTwo

\* Two bills of materials, component by component.
BomWorsens(B, C, m, n) ==
    /\ DOMAIN B = 1..3 /\ DOMAIN C = 1..3
    /\ \A i \in 1..3 : /\ IsItem("bom", B[i]) /\ IsItem("bom", C[i])
                       /\ NoBetterItem("bom", B[i], C[i])
    /\ m \in Nat /\ n \in Nat /\ m <= n

LEMMA ThreeAreFinite == IsFiniteSet(1..3)
<1> DEFINE three == 3
<1>1. three \in Int
  OBVIOUS
<1> HIDE DEF three
<1>2. IsFiniteSet(1..three)
  BY <1>1, FS_Interval
<1> QED
  BY <1>2 DEF three

\* The mean risk of a tier, whose components stay the same ones.
LEMMA TierFollows ==
    ASSUME NEW B, NEW C, NEW m, NEW n, BomWorsens(B, C, m, n), NEW tier
    PROVE  /\ TierRisk(B, m, tier) \in Nat /\ TierRisk(C, n, tier) \in Nat
           /\ TierRisk(B, m, tier) <= TierRisk(C, n, tier)
<1> USE DEF BomWorsens
<1> DEFINE S == {i \in 1..3 : B[i].tier = tier}
           g == [i \in S |-> ComponentRisk(B[i], m)]
           h == [i \in S |-> ComponentRisk(C[i], n)]
<1>1. ASSUME NEW i \in 1..3 PROVE C[i].tier = B[i].tier
  BY DEF NoBetterItem
<1>2. S = {i \in 1..3 : C[i].tier = tier}
  BY <1>1
<1>3. /\ TierRisk(B, m, tier) = IF S = {} THEN 0 ELSE (6 * SumOf(g)) \div Cardinality(S)
      /\ TierRisk(C, n, tier) = IF S = {} THEN 0 ELSE (6 * SumOf(h)) \div Cardinality(S)
  BY <1>2, Zenon DEF TierRisk
<1>4. ASSUME NEW i \in 1..3
      PROVE  /\ ComponentRisk(B[i], m) \in Nat /\ ComponentRisk(C[i], n) \in Nat
             /\ ComponentRisk(B[i], m) <= ComponentRisk(C[i], n)
  BY ComponentFollows
<1>5. IsFiniteSet(S) /\ S \subseteq 1..3
  <2>1. S \subseteq 1..3
    BY Zenon
  <2> HIDE DEF S, BomWorsens
  <2> QED
    BY <2>1, ThreeAreFinite, FS_Subset
<1>6. DOMAIN g = S /\ DOMAIN h = S /\ \A i \in S : g[i] \in Nat /\ h[i] \in Nat /\ g[i] <= h[i]
  BY <1>4, <1>5
<1> HIDE DEF g, h, S, BomWorsens
<1>7. Summable(g) /\ Summable(h)
  BY <1>5, <1>6 DEF Summable
<1>8. SumOf(g) \in Nat /\ SumOf(h) \in Nat /\ SumOf(g) <= SumOf(h)
  BY <1>6, <1>7, SumOfFollows
<1>9. CASE S = {}
  BY <1>3, <1>9
<1>10. CASE S # {}
  <2>1. Cardinality(S) \in Nat /\ Cardinality(S) > 0
    <3>1. Cardinality(S) \in Nat /\ Cardinality(S) # 0
      BY <1>5, <1>10, FS_CardinalityType, FS_EmptySet
    <3> QED
      BY <3>1
  <2> DEFINE a == 6 * SumOf(g)
             b == 6 * SumOf(h)
             w == Cardinality(S)
  <2>2. a \in Nat /\ b \in Nat /\ a <= b
    BY <1>8
  <2>3. TierRisk(B, m, tier) = a \div w /\ TierRisk(C, n, tier) = b \div w
    BY <1>3, <1>10, Zenon
  <2> HIDE DEF a, b, w
  <2>4. a \div w \in Nat /\ b \div w \in Nat /\ a \div w <= b \div w
    BY <2>1, <2>2, Quotient, QuotientMonotone DEF w
  <2> QED
    BY <2>3, <2>4
<1> QED
  BY <1>9, <1>10

\* assess_bom(): the risk over the tiers.
LEMMA BomRiskFollows ==
    ASSUME NEW B, NEW C, NEW m, NEW n, BomWorsens(B, C, m, n)
    PROVE  BomRisk(B, m) \in Int /\ BomRisk(C, n) \in Int /\ BomRisk(B, m) <= BomRisk(C, n)
<1> DEFINE x(t) == TierRisk(B, m, t)
           y(t) == TierRisk(C, n, t)
           a == 5 * x(1) + 3 * x(2) + 2 * x(3)
           b == 5 * y(1) + 3 * y(2) + 2 * y(3)
<1>1. ASSUME NEW t \in 1..3 PROVE x(t) \in Nat /\ y(t) \in Nat /\ x(t) <= y(t)
  BY TierFollows
<1>2. BomRisk(B, m) = Min({60000, a}) /\ BomRisk(C, n) = Min({60000, b})
  BY DEF BomRisk
<1> HIDE DEF x, y
<1>3. /\ x(1) \in Nat /\ x(2) \in Nat /\ x(3) \in Nat /\ y(1) \in Nat /\ y(2) \in Nat
      /\ y(3) \in Nat /\ x(1) <= y(1) /\ x(2) <= y(2) /\ x(3) <= y(3)
  BY <1>1
<1>4. a \in Nat /\ b \in Nat /\ a <= b
  BY <1>3
<1> HIDE DEF a, b
<1> QED
  BY <1>2, <1>4, MinTwo

\* The shortage window closes no later than that of any component.
LEMMA WindowFollows ==
    ASSUME NEW B, NEW C, NEW m, NEW n, BomWorsens(B, C, m, n)
    PROVE  /\ ShortageWindow(B, m) \in Nat /\ ShortageWindow(C, n) \in Nat
           /\ ShortageWindow(C, n) <= ShortageWindow(B, m)
<1> DEFINE left(c, d) == Max({0, EffectiveBuffer(c, d)})
           S == {9999} \cup {left(c, m) : c \in ToSet(B)}
           T == {9999} \cup {left(c, n) : c \in ToSet(C)}
<1>3. ShortageWindow(B, m) = Min(S) /\ ShortageWindow(C, n) = Min(T)
  <2>1. ShortageWindow(B, m) = Min(S)
    BY ZenonT(30) DEF ShortageWindow
  <2>2. ShortageWindow(C, n) = Min(T)
    BY ZenonT(30) DEF ShortageWindow
  <2> QED
    BY <2>1, <2>2
<1> USE DEF BomWorsens
<1>1. ToSet(B) = {B[i] : i \in 1..3} /\ ToSet(C) = {C[i] : i \in 1..3}
  BY Zenon DEF ToSet
<1>2. ASSUME NEW i \in 1..3
      PROVE  left(B[i], m) \in Nat /\ left(C[i], n) \in Nat /\ left(C[i], n) <= left(B[i], m)
  <2>1. B[i].buffer \in Int /\ C[i].buffer \in Int /\ C[i].buffer <= B[i].buffer
    BY DEF IsItem, NoBetterItem
  <2> DEFINE u == B[i].buffer - m
             v == C[i].buffer - n
  <2>2. u \in Int /\ v \in Int /\ v <= u
    BY <2>1
  <2>3. left(B[i], m) = Max({0, u}) /\ left(C[i], n) = Max({0, v})
    BY Zenon DEF EffectiveBuffer
  <2> HIDE DEF u, v, left
  <2>4. Max({0, u}) = (IF u > 0 THEN u ELSE 0) /\ Max({0, v}) = (IF v > 0 THEN v ELSE 0)
    BY <2>2, MaxTwo
  <2> QED
    BY <2>2, <2>3, <2>4
<1> HIDE DEF left, BomWorsens
<1>4. ASSUME NEW x \in S PROVE x \in Nat /\ \E y \in T : y \in Nat /\ y <= x
  <2>1. CASE x = 9999
    BY <2>1
  <2>2. CASE x # 9999
    <3>1. PICK i \in 1..3 : x = left(B[i], m)
      BY <1>1, <2>2
    <3>2. left(C[i], n) \in T
      BY <1>1
    <3> QED
      BY <1>2, <3>1, <3>2
  <2> QED
    BY <2>1, <2>2
<1>5. ASSUME NEW y \in T PROVE y \in Nat
  <2>1. CASE y = 9999
    BY <2>1
  <2>2. CASE y # 9999
    <3>1. PICK i \in 1..3 : y = left(C[i], n)
      BY <1>1, <2>2
    <3> QED
      BY <1>2, <3>1
  <2> QED
    BY <2>1, <2>2
<1>6. 9999 \in S /\ 9999 \in T
  OBVIOUS
<1> HIDE DEF S, T
<1>7. Min(S) \in S /\ Min(T) \in T /\ \A y \in T : Min(T) <= y
  <2>1. S \subseteq Nat /\ S # {} /\ T \subseteq Nat /\ T # {}
    BY <1>4, <1>5, <1>6
  <2> QED
    BY <2>1, MinIs
<1>8. PICK y \in T : y \in Nat /\ y <= Min(S)
  BY <1>4, <1>7
<1>9. Min(S) \in Nat /\ Min(T) \in Nat /\ Min(T) <= y
  BY <1>4, <1>5, <1>7
<1> QED
  BY <1>3, <1>8, <1>9

\* assess_bom()
LEMMA BomFollows ==
    ASSUME NEW r, NEW s, Worsens("bom", r, s)
    PROVE  SeesWorse("bom", r, s)
<1> DEFINE e == "bom"
           B == Listed(r)
           C == Listed(s)
<1>1. "days" \in PartsOf[e] /\ "days" \in Amount /\ Upward("days")
  BY DEF PartsOf, FallingPart, BadFlag, GoodFlag, TrustParts, Dimensions, Items, Named, Amount,
         Upward
<1>2. Grows(r, s, "days")
  BY <1>1, PartRises
<1>3. r.days \in Nat /\ s.days \in Nat /\ r.days <= s.days
  BY <1>2 DEF Grows
<1>4. ASSUME NEW p \in Items
      PROVE  /\ r[p] # Absent /\ s[p] # Absent /\ IsItem(e, r[p]) /\ IsItem(e, s[p])
             /\ NoBetterItem(e, r[p], s[p])
  BY ItemWorsens
<1>5. "first" \in Items /\ "second" \in Items /\ "third" \in Items
  BY DEF Items
<1>6. /\ DOMAIN B = 1..3 /\ B[1] = r["first"] /\ B[2] = r["second"] /\ B[3] = r["third"]
      /\ DOMAIN C = 1..3 /\ C[1] = s["first"] /\ C[2] = s["second"] /\ C[3] = s["third"]
  BY <1>4, <1>5, BomListed
<1> HIDE DEF B, C
<1>7. ASSUME NEW i \in 1..3
      PROVE  IsItem(e, B[i]) /\ IsItem(e, C[i]) /\ NoBetterItem(e, B[i], C[i])
  <2>1. CASE i = 1
    BY <1>4, <1>5, <1>6, <2>1, Zenon
  <2>2. CASE i = 2
    BY <1>4, <1>5, <1>6, <2>2, Zenon
  <2>3. CASE i = 3
    BY <1>4, <1>5, <1>6, <2>3, Zenon
  <2> QED
    BY <2>1, <2>2, <2>3
<1>8. BomWorsens(B, C, r.days, s.days)
  BY <1>3, <1>6, <1>7 DEF BomWorsens
<1>9. /\ BomRisk(B, r.days) \in Int /\ BomRisk(C, s.days) \in Int
      /\ BomRisk(B, r.days) <= BomRisk(C, s.days)
  BY <1>8, BomRiskFollows
<1>10. /\ ShortageWindow(B, r.days) \in Nat /\ ShortageWindow(C, s.days) \in Nat
       /\ ShortageWindow(C, s.days) <= ShortageWindow(B, r.days)
  BY <1>8, WindowFollows
<1>11. (\E c \in ToSet(B) : c.single) => (\E c \in ToSet(C) : c.single)
  <2>1. ToSet(B) = {B[i] : i \in 1..3} /\ ToSet(C) = {C[i] : i \in 1..3}
    BY <1>6, Zenon DEF ToSet
  <2> SUFFICES ASSUME NEW i \in 1..3, B[i].single PROVE \E j \in 1..3 : C[j].single
    BY <2>1, Zenon
  <2>2. C[i].single
    BY <1>7 DEF NoBetterItem
  <2> QED
    BY <2>2
<1> DEFINE sole(X) == \E c \in ToSet(X) : c.single
           short(X, d) == ShortageWindow(X, d) < 14
           advice(X, d) == (IF sole(X) THEN {"dual-source"} ELSE {})
                               \cup (IF short(X, d) THEN {"stockpile"} ELSE {})
<1>12. /\ Threat(e, r) = BomRisk(B, r.days) /\ Threat(e, s) = BomRisk(C, s.days)
       /\ Verdict(e, r) = advice(B, r.days) /\ Verdict(e, s) = advice(C, s.days)
  <2>1. /\ Threat(e, r) = BomRisk(Listed(r), r.days) /\ Threat(e, s) = BomRisk(Listed(s), s.days)
        /\ Verdict(e, r) = Recommended(Listed(r), r.days)
        /\ Verdict(e, s) = Recommended(Listed(s), s.days)
    BY ScaleAssumption DEF Threat, Verdict
  <2> QED
    BY <2>1, Zenon DEF B, C, Recommended
<1>13. (sole(B) => sole(C)) /\ (short(B, r.days) => short(C, s.days))
  BY <1>10, <1>11
<1>14. /\ Rank(e, {}) = 1 /\ Rank(e, {"dual-source"}) = 2 /\ Rank(e, {"stockpile"}) = 3
       /\ Rank(e, {"dual-source", "stockpile"}) = 4
  <2> DEFINE L == <<{}, {"dual-source"}, {"stockpile"}, {"dual-source", "stockpile"}>>
  <2>1. Verdicts(e) = L
    BY DEF Verdicts
  <2>2. /\ {} # {"dual-source"} /\ {} # {"stockpile"} /\ {} # {"dual-source", "stockpile"}
        /\ {"dual-source"} # {"stockpile"} /\ {"dual-source"} # {"dual-source", "stockpile"}
        /\ {"stockpile"} # {"dual-source", "stockpile"}
    OBVIOUS
  <2>3. \A i, j \in 1..4 : L[i] = L[j] => i = j
    BY <2>2
  <2>4. ASSUME NEW i \in 1..4 PROVE Rank(e, L[i]) = i
    <3>1. DOMAIN Verdicts(e) = 1..4
      BY <2>1
    <3> HIDE DEF L, e
    <3> QED
      BY <2>1, <2>3, <3>1, RankAt
  <2> QED
    BY <2>4
<1> HIDE DEF e, sole, short
<1>15. Rank(e, advice(C, s.days)) >= Rank(e, advice(B, r.days))
  <2>1. ASSUME NEW X, NEW d
        PROVE  Rank(e, advice(X, d)) = (IF sole(X) THEN IF short(X, d) THEN 4 ELSE 2
                                        ELSE IF short(X, d) THEN 3 ELSE 1)
    <3>1. advice(X, d) = IF sole(X) THEN IF short(X, d) THEN {"dual-source", "stockpile"}
                                         ELSE {"dual-source"}
                         ELSE IF short(X, d) THEN {"stockpile"} ELSE {}
      BY Zenon
    <3> HIDE DEF advice
    <3> QED
      BY <1>14, <3>1
  <2> HIDE DEF advice
  <2> QED
    BY <1>13, <2>1
<1> QED
  BY <1>9, <1>12, <1>15 DEF SeesWorse, e
\* The scores of listed detections, and what one that may be absent adds.
Scores(events) == [i \in DOMAIN events |-> Detected(events[i])]
Score(x) == IF x = Absent THEN 0 ELSE Detected(x)
Counted(x) == IF x = Absent THEN 0 ELSE 1
Swarming(x) == x # Absent /\ x.swarm = TRUE
SomeSwarm(events) == \E i \in DOMAIN events : events[i].swarm = TRUE

LEMMA ScoresSummable ==
    ASSUME NEW S, NEW events \in Seq(S)
    PROVE  Summable(Scores(events)) /\ DOMAIN Scores(events) = 1..Len(events)
<1>1. \A y : Detected(y) \in Nat
  BY DEF Detected, Sometimes
<1>2. DOMAIN events = 1..Len(events) /\ Len(events) \in Nat
  OBVIOUS
<1>3. IsFiniteSet(1..Len(events))
  BY <1>2, FS_Interval
<1> QED
  BY <1>1, <1>2, <1>3 DEF Summable, Scores

\* A list and one detection more, if it is there.
LEMMA OneMore ==
    ASSUME NEW S, NEW L \in Seq(S), NEW x \in S
    PROVE  /\ L \o Once(x) \in Seq(S) /\ Len(L \o Once(x)) = Len(L) + Counted(x)
           /\ SumOf(Scores(L \o Once(x))) = SumOf(Scores(L)) + Score(x)
           /\ SomeSwarm(L \o Once(x)) <=> SomeSwarm(L) \/ Swarming(x)
<1>0. /\ Len(L) \in Nat /\ DOMAIN L = 1..Len(L) /\ SumOf(Scores(L)) \in Nat
  BY ScoresSummable, SumOfNat
<1>1. CASE x = Absent
  <2>1. Once(x) = << >> /\ Counted(x) = 0 /\ Score(x) = 0 /\ ~Swarming(x)
    BY <1>1 DEF Once, Counted, Score, Swarming
  <2>2. L \o << >> = L
    OBVIOUS
  <2>3. L \o Once(x) = L
    BY <2>1, <2>2
  <2>4. SumOf(Scores(L)) + 0 = SumOf(Scores(L)) /\ Len(L) + 0 = Len(L)
    BY <1>0
  <2> QED
    BY <2>1, <2>3, <2>4
<1>2. CASE x # Absent
  <2> DEFINE o == Once(x)
             M == L \o o
             n == Len(L)
             g == Scores(L)
             h == Scores(M)
  <2>1. o \in Seq(S)
    BY <1>2 DEF Once
  <2>2. Len(o) = 1 /\ o[1] = x
    BY <1>2 DEF Once
  <2> HIDE DEF o
  <2>3. /\ M \in Seq(S) /\ Len(M) = Len(L) + Len(o)
        /\ \A i \in 1..Len(L) : M[i] = L[i]
        /\ \A i \in 1..Len(o) : M[Len(L) + i] = o[i]
    BY <2>1
  <2> HIDE DEF M
  <2>4. Len(M) = n + 1 /\ M[n + 1] = x /\ DOMAIN M = 1..(n + 1) /\ n \in Nat
    <3>1. 1 \in 1..Len(o) /\ DOMAIN M = 1..Len(M)
      BY <2>2, <2>3
    <3> QED
      BY <1>0, <2>2, <2>3, <3>1
  <2>5. \A i \in 1..n : M[i] = L[i]
    BY <2>3
  <2> HIDE DEF n
  <2>6. DOMAIN L = 1..n
    BY <1>0 DEF n
  <2>7. /\ Summable(g) /\ DOMAIN g = 1..n /\ Summable(h) /\ DOMAIN h = 1..(n + 1)
    BY <2>3, <2>4, ScoresSummable DEF n
  <2>8. h[n + 1] = Detected(x) /\ \A i \in 1..n : g[i] = h[i]
    <3>1. n + 1 \in 1..(n + 1) /\ \A i \in 1..n : i \in 1..(n + 1)
      BY <2>4
    <3> QED
      BY <2>4, <2>5, <2>6, <3>1, Zenon DEF Scores
  <2> HIDE DEF g, h
  <2>9. Sums(h)[1..(n + 1)] = h[n + 1] + Sums(h)[1..n]
    <3>1. n + 1 \in Nat /\ n + 1 > 0 /\ 1..(n + 1) \subseteq DOMAIN h /\ (n + 1) - 1 = n
      BY <2>4, <2>7
    <3> QED
      BY <2>7, <3>1, NextTerm
  <2>10. Sums(g)[1..n] = Sums(h)[1..n]
    <3>1. 1..n \subseteq DOMAIN g /\ 1..n \subseteq DOMAIN h /\ 1..n \in SUBSET (1..n)
      BY <2>4, <2>7
    <3> DEFINE R == 1..n
    <3> HIDE DEF R
    <3>2. /\ Summable(g) /\ Summable(h) /\ R \subseteq DOMAIN g /\ R \subseteq DOMAIN h
          /\ R \in SUBSET R /\ \A i \in R : g[i] = h[i]
      BY <2>7, <2>8, <3>1 DEF R
    <3>3. \A u \in SUBSET R : Sums(g)[u] = Sums(h)[u]
      BY <3>2, SumsAgree
    <3> QED
      BY <3>2, <3>3 DEF R
  <2>11. SumOf(h) = Sums(h)[1..(n + 1)] /\ SumOf(g) = Sums(g)[1..n]
    BY <2>7, SumOfIsSums, Zenon
  <2>12. SumOf(g) \in Nat /\ Detected(x) \in Nat
    BY <1>0 DEF g, Detected, Sometimes
  <2>13. SumOf(h) = SumOf(g) + Detected(x)
    BY <2>8, <2>9, <2>10, <2>11, <2>12
  <2>14. SomeSwarm(M) <=> SomeSwarm(L) \/ x.swarm = TRUE
    <3>1. \A i : i \in 1..(n + 1) <=> i \in 1..n \/ i = n + 1
      BY <2>4
    <3> QED
      BY <2>4, <2>5, <2>6, <3>1, Zenon DEF SomeSwarm
  <2>15. Counted(x) = 1 /\ Score(x) = Detected(x) /\ (Swarming(x) <=> x.swarm = TRUE)
    BY <1>2 DEF Counted, Score, Swarming
  <2> QED
    BY <2>3, <2>4, <2>13, <2>14, <2>15 DEF M, o, g, h, n
<1> QED
  BY <1>1, <1>2

\* Three detections, each of which may be absent.
Total(x) == Score(x.first) + Score(x.second) + Score(x.third)
Count(x) == Counted(x.first) + Counted(x.second) + Counted(x.third)
AnySwarm(x) == Swarming(x.first) \/ Swarming(x.second) \/ Swarming(x.third)

LEMMA ListedDetections ==
    ASSUME NEW x
    PROVE  /\ Len(Listed(x)) = Count(x) /\ (Listed(x) = << >> <=> Count(x) = 0)
           /\ SumOf(Scores(Listed(x))) = Total(x)
           /\ SomeSwarm(Listed(x)) <=> AnySwarm(x)
<1> DEFINE a == x.first
           b == x.second
           c == x.third
           S == {a, b, c}
           l0 == << >>
           l1 == l0 \o Once(a)
           l2 == l1 \o Once(b)
           l3 == l2 \o Once(c)
<1>1. a \in S /\ b \in S /\ c \in S
  OBVIOUS
<1>2. Listed(x) = l3
  <2>1. Once(a) = << >> \/ Once(a) = <<a>>
    BY Zenon DEF Once
  <2>2. l0 \o Once(a) = Once(a)
    <3> DEFINE u == <<a>>
    <3>1. u \in Seq({a}) /\ << >> \in Seq({a})
      OBVIOUS
    <3> HIDE DEF u
    <3>2. << >> \o u = u
      BY <3>1
    <3>3. << >> \o << >> = << >>
      OBVIOUS
    <3> QED
      BY <2>1, <3>2, <3>3 DEF u
  <2> QED
    BY <2>2, Zenon DEF Listed
<1> HIDE DEF a, b, c, S
<1>3. l0 \in Seq(S) /\ Len(l0) = 0 /\ ~SomeSwarm(l0)
  BY DEF SomeSwarm
<1>4. SumOf(Scores(l0)) = 0
  <2>1. Summable(Scores(l0)) /\ DOMAIN Scores(l0) = {}
    <3>1. Summable(Scores(l0)) /\ DOMAIN Scores(l0) = 1..Len(l0)
      BY <1>3, ScoresSummable
    <3>2. 1..Len(l0) = {}
      BY <1>3
    <3> QED
      BY <3>1, <3>2
  <2> DEFINE g == Scores(l0)
  <2> HIDE DEF g
  <2>2. {} \in SUBSET DOMAIN g /\ Summable(g) /\ DOMAIN g = {}
    BY <2>1 DEF g
  <2>3. Sums(g)[{}] = 0
    BY <2>2, SumsUnfold
  <2> QED
    BY <2>2, <2>3, SumOfIsSums DEF g
<1> HIDE DEF l0
<1>5. /\ l1 \in Seq(S) /\ Len(l1) = Len(l0) + Counted(a)
      /\ SumOf(Scores(l1)) = SumOf(Scores(l0)) + Score(a)
      /\ SomeSwarm(l1) <=> SomeSwarm(l0) \/ Swarming(a)
  BY <1>1, <1>3, OneMore
<1> HIDE DEF l1
<1>6. /\ l2 \in Seq(S) /\ Len(l2) = Len(l1) + Counted(b)
      /\ SumOf(Scores(l2)) = SumOf(Scores(l1)) + Score(b)
      /\ SomeSwarm(l2) <=> SomeSwarm(l1) \/ Swarming(b)
  BY <1>1, <1>5, OneMore
<1> HIDE DEF l2
<1>7. /\ l3 \in Seq(S) /\ Len(l3) = Len(l2) + Counted(c)
      /\ SumOf(Scores(l3)) = SumOf(Scores(l2)) + Score(c)
      /\ SomeSwarm(l3) <=> SomeSwarm(l2) \/ Swarming(c)
  BY <1>1, <1>6, OneMore
<1> HIDE DEF l3
<1>8. /\ \A y : Counted(y) \in {0, 1}
      /\ \A y : Score(y) \in Nat
  BY DEF Counted, Score, Detected, Sometimes
<1>9. Len(l3) = Counted(a) + Counted(b) + Counted(c)
  BY <1>3, <1>5, <1>6, <1>7, <1>8
<1>10. SumOf(Scores(l3)) = Score(a) + Score(b) + Score(c)
  <2>1. Score(a) \in Nat /\ Score(b) \in Nat /\ Score(c) \in Nat
    BY <1>8
  <2> QED
    BY <1>4, <1>5, <1>6, <1>7, <2>1
<1>11. l3 = << >> <=> Len(l3) = 0
  BY <1>7
<1>12. SomeSwarm(l3) <=> Swarming(a) \/ Swarming(b) \/ Swarming(c)
  BY <1>3, <1>5, <1>6, <1>7
<1> QED
  BY <1>2, <1>9, <1>10, <1>11, <1>12 DEF Count, Total, AnySwarm, a, b, c

\* analyze_events(): no events, or the sum over the events and the swarm.
LEMMA AirspaceIs ==
    ASSUME NEW x, \A p \in Items : x[p] # Absent => x[p].swarm \in BOOLEAN
    PROVE  AirspaceThreat(Listed(x)) =
               IF Count(x) = 0 THEN 50
               ELSE Min({1000, Total(x) + Sometimes(Count(x) >= 3 \/ AnySwarm(x), 350)})
<1> DEFINE L == Listed(x)
           S == {x.first, x.second, x.third}
<1>1. /\ Len(L) = Count(x) /\ (L = << >> <=> Count(x) = 0) /\ SumOf(Scores(L)) = Total(x)
      /\ SomeSwarm(L) <=> AnySwarm(x)
  BY ListedDetections
<1>2. ASSUME NEW i \in DOMAIN L PROVE L[i].swarm \in BOOLEAN
  <2>1. \A y \in {x.first, x.second, x.third} : y # Absent => y.swarm \in BOOLEAN
    BY DEF Items
  <2>2. L \in Seq({y \in S : y # Absent})
    <3> DEFINE T == {y \in S : y # Absent}
    <3>1. ASSUME NEW y \in S PROVE Once(y) \in Seq(T)
      <4>1. y # Absent => y \in T
        OBVIOUS
      <4> HIDE DEF T, S
      <4> QED
        BY <4>1 DEF Once
    <3>2. Once(x.first) \in Seq(T) /\ Once(x.second) \in Seq(T) /\ Once(x.third) \in Seq(T)
      BY <3>1
    <3> HIDE DEF T, S
    <3> DEFINE u == Once(x.first)
               v == Once(x.second)
               w == Once(x.third)
    <3> HIDE DEF u, v, w
    <3>3. u \in Seq(T) /\ v \in Seq(T) /\ w \in Seq(T)
      BY <3>2 DEF u, v, w
    <3>4. (u \o v) \o w \in Seq(T)
      BY <3>3
    <3>5. L = (u \o v) \o w
      BY Zenon DEF Listed, u, v, w
    <3> QED
      BY <3>4, <3>5 DEF T
  <2> HIDE DEF L
  <2>3. L[i] \in {y \in S : y # Absent}
    BY <2>2
  <2> QED
    BY <2>1, <2>3
<1>3. IsSwarm(L) <=> Count(x) >= 3 \/ AnySwarm(x)
  <2>1. (\E i \in DOMAIN L : L[i].swarm) <=> SomeSwarm(L)
    BY <1>2 DEF SomeSwarm
  <2> QED
    BY <1>1, <2>1 DEF IsSwarm
<1>4. AirspaceThreat(L) = IF L = << >> THEN 50
                          ELSE Min({1000, SumOf(Scores(L)) + Sometimes(IsSwarm(L), 350)})
  BY Zenon DEF AirspaceThreat, Scores, Detected
<1>5. Sometimes(IsSwarm(L), 350) = Sometimes(Count(x) >= 3 \/ AnySwarm(x), 350)
  BY <1>3 DEF Sometimes
<1> DEFINE threat == AirspaceThreat(L)
           points == Sometimes(IsSwarm(L), 350)
           empty == L = << >>
           sum == SumOf(Scores(L))
<1>6. threat = IF empty THEN 50 ELSE Min({1000, sum + points})
  BY <1>4
<1>7. (empty <=> Count(x) = 0) /\ sum = Total(x)
  BY <1>1
<1> HIDE DEF L, empty, sum, points, threat
<1>8. threat = IF Count(x) = 0 THEN 50 ELSE Min({1000, Total(x) + points})
  <2>1. CASE Count(x) = 0
    <3>1. empty
      BY <1>7, <2>1
    <3>2. threat = 50
      BY <1>6, <3>1
    <3> QED
      BY <2>1, <3>2
  <2>2. CASE Count(x) # 0
    <3>1. ~empty
      BY <1>7, <2>2
    <3>2. threat = Min({1000, sum + points})
      BY <1>6, <3>1
    <3> QED
      BY <1>7, <2>2, <3>2
  <2> QED
    BY <2>1, <2>2
<1>9. points = Sometimes(Count(x) >= 3 \/ AnySwarm(x), 350)
  BY <1>5 DEF points
<1>10. threat = IF Count(x) = 0 THEN 50
                ELSE Min({1000, Total(x) + Sometimes(Count(x) >= 3 \/ AnySwarm(x), 350)})
  BY <1>8, <1>9
<1>11. AirspaceThreat(Listed(x)) = threat
  BY DEF threat, L
<1> QED
  BY <1>10, <1>11
\* analyze_events()
LEMMA AirspaceFollows ==
    ASSUME NEW r, NEW s, Worsens("cuas", r, s)
    PROVE  SeesWorse("cuas", r, s)
<1> DEFINE e == "cuas"
<1>1. ASSUME NEW p \in Items
      PROVE  /\ Score(r[p]) \in Nat /\ Score(s[p]) \in Nat /\ Score(r[p]) <= Score(s[p])
             /\ Counted(r[p]) \in {0, 1} /\ Counted(s[p]) \in {0, 1}
             /\ Counted(r[p]) <= Counted(s[p])
             /\ Swarming(r[p]) => Swarming(s[p])
             /\ Score(r[p]) >= 100 * Counted(r[p]) /\ Score(s[p]) >= 100 * Counted(s[p])
             /\ r[p] # Absent => r[p].swarm \in BOOLEAN
             /\ s[p] # Absent => s[p].swarm \in BOOLEAN
  <2>1. /\ r[p] # Absent => IsItem(e, r[p]) /\ s[p] # Absent /\ NoBetterItem(e, r[p], s[p])
        /\ s[p] # Absent => IsItem(e, s[p])
    BY ItemWorsens
  <2>2. /\ r[p] # Absent => /\ s[p] # Absent /\ r[p].distance \in Int /\ r[p].swarm \in BOOLEAN
                            /\ r[p].spread \in BOOLEAN /\ s[p].distance <= r[p].distance
                            /\ r[p].spread => s[p].spread
                            /\ r[p].swarm => s[p].swarm
        /\ s[p] # Absent => /\ s[p].distance \in Int /\ s[p].swarm \in BOOLEAN
                            /\ s[p].spread \in BOOLEAN
    BY <2>1 DEF IsItem, NoBetterItem
  <2> DEFINE a == r[p]
             b == s[p]
  <2> HIDE DEF a, b
  <2>3. /\ a # Absent => /\ b # Absent /\ a.distance \in Int /\ a.swarm \in BOOLEAN
                         /\ a.spread \in BOOLEAN /\ b.distance <= a.distance
                         /\ a.spread => b.spread
                         /\ a.swarm => b.swarm
        /\ b # Absent => b.distance \in Int /\ b.swarm \in BOOLEAN /\ b.spread \in BOOLEAN
    BY <2>2 DEF a, b
  <2>4. \A y : Detected(y) \in Nat /\ Detected(y) >= 100
    BY DEF Detected, Sometimes
  <2>5. a # Absent => Detected(a) <= Detected(b)
    <3> SUFFICES ASSUME a # Absent PROVE Detected(a) <= Detected(b)
      OBVIOUS
    <3>1. Sometimes(a.spread, 250) <= Sometimes(b.spread, 250)
          /\ Sometimes(a.spread, 250) \in Nat /\ Sometimes(b.spread, 250) \in Nat
      BY <2>3 DEF Sometimes
    <3> QED
      BY <2>3, <3>1 DEF Detected
  <2>6. /\ Score(a) \in Nat /\ Score(b) \in Nat /\ Score(a) <= Score(b)
        /\ Counted(a) \in {0, 1} /\ Counted(b) \in {0, 1} /\ Counted(a) <= Counted(b)
        /\ Score(a) >= 100 * Counted(a) /\ Score(b) >= 100 * Counted(b)
    BY <2>3, <2>4, <2>5 DEF Score, Counted
  <2>7. Swarming(a) => Swarming(b)
    BY <2>3 DEF Swarming
  <2> QED
    BY <2>3, <2>6, <2>7 DEF a, b
<1>2. "first" \in Items /\ "second" \in Items /\ "third" \in Items
  BY DEF Items
<1>3. /\ Total(r) \in Nat /\ Total(s) \in Nat /\ Total(r) <= Total(s)
      /\ Count(r) \in Nat /\ Count(s) \in Nat /\ Count(r) <= Count(s)
      /\ Total(r) >= 100 * Count(r) /\ Total(s) >= 100 * Count(s)
  BY <1>1, <1>2 DEF Total, Count
<1>4. AnySwarm(r) => AnySwarm(s)
  BY <1>1, <1>2 DEF AnySwarm
<1> DEFINE more(x) == Sometimes(Count(x) >= 3 \/ AnySwarm(x), 350)
           threat(x) == IF Count(x) = 0 THEN 50 ELSE Min({1000, Total(x) + more(x)})
<1>5. more(r) \in Nat /\ more(s) \in Nat /\ more(r) <= more(s)
  BY <1>3, <1>4 DEF Sometimes
<1>6. AirspaceThreat(Listed(r)) = threat(r) /\ AirspaceThreat(Listed(s)) = threat(s)
  BY <1>1, AirspaceIs
<1> HIDE DEF more
<1>7. /\ threat(r) \in Nat /\ threat(s) \in Nat /\ threat(r) <= threat(s)
  <2> DEFINE u == Total(r) + more(r)
             v == Total(s) + more(s)
  <2>1. u \in Nat /\ v \in Nat /\ u <= v /\ (Count(s) # 0 => v >= 100)
    BY <1>3, <1>5
  <2> HIDE DEF u, v
  <2>2. Min({1000, u}) = (IF u < 1000 THEN u ELSE 1000) /\ Min({1000, v}) = (IF v < 1000 THEN v ELSE 1000)
    BY <2>1, MinTwo
  <2>3. /\ threat(r) = (IF Count(r) = 0 THEN 50 ELSE IF u < 1000 THEN u ELSE 1000)
        /\ threat(s) = (IF Count(s) = 0 THEN 50 ELSE IF v < 1000 THEN v ELSE 1000)
    BY <2>2 DEF u, v
  <2> HIDE DEF threat
  <2> QED
    BY <1>3, <2>1, <2>3
<1> HIDE DEF threat
<1>8. /\ Listed(r) = << >> <=> Count(r) = 0
      /\ Listed(s) = << >> <=> Count(s) = 0
  BY ListedDetections
<1> DEFINE level(x) == IF Count(x) = 0 THEN "NOMINAL" ELSE IF threat(x) >= 750 THEN "CRITICAL"
                       ELSE IF threat(x) >= 450 THEN "HIGH" ELSE "MEDIUM"
<1>9. AirspaceLevel(Listed(r)) = level(r) /\ AirspaceLevel(Listed(s)) = level(s)
  BY <1>6, <1>8 DEF AirspaceLevel
<1>10. /\ Threat(e, r) = threat(r) /\ Threat(e, s) = threat(s)
       /\ Verdict(e, r) = level(r) /\ Verdict(e, s) = level(s)
  <2>1. /\ Threat(e, r) = AirspaceThreat(Listed(r)) /\ Threat(e, s) = AirspaceThreat(Listed(s))
        /\ Verdict(e, r) = AirspaceLevel(Listed(r)) /\ Verdict(e, s) = AirspaceLevel(Listed(s))
    BY ScaleAssumption DEF Threat, Verdict
  <2> QED
    BY <1>6, <1>9, <2>1
<1>11. /\ Rank(e, "NOMINAL") = 1 /\ Rank(e, "MEDIUM") = 3 /\ Rank(e, "HIGH") = 4
       /\ Rank(e, "CRITICAL") = 5
  <2>1. Verdicts(e) = <<"NOMINAL", "LOW", "MEDIUM", "HIGH", "CRITICAL">>
    BY DEF Verdicts
  <2> QED
    BY <2>1, LevelRanks
<1> HIDE DEF e
<1>12. Rank(e, level(s)) >= Rank(e, level(r))
  BY <1>3, <1>7, <1>11
<1> HIDE DEF level
<1> QED
  BY <1>7, <1>10, <1>12 DEF SeesWorse, e
\* Every engine.
LEMMA EngineFollows ==
    ASSUME NEW e \in DOMAIN PartsOf \ {"insurance", "display"}, NEW r, NEW s, Worsens(e, r, s),
           DOMAIN r = PartsOf[e], DOMAIN s = PartsOf[e],
           e \in {"minimum", "mean", "weighted"} =>
               /\ e \in Aggregations
               /\ \A i \in 1..9 : r[Dimensions[i]] \in 0..100 /\ s[Dimensions[i]] \in 0..100,
           e = "uav" => s.battery = r.battery /\ s.stalling = r.stalling
    PROVE  SeesWorse(e, r, s)
<1>1. e \in {"minimum", "mean", "weighted"} \/ e \in {"uav", "starlink", "scan", "insider"}
      \/ e \in {"permafrost", "wildfire", "subsea", "loss", "reroute"}
      \/ e \in {"wargame", "warloss", "failure", "rating", "attestation", "airgap"}
      \/ e \in {"cuas", "vessels", "overflight", "bom"}
      \/ e \in {"pbmm", "anomaly"}
  BY DEF PartsOf
<1>2. CASE e \in {"minimum", "mean", "weighted"}
  BY <1>2, TrustFollows
<1>3. CASE e \in {"uav", "starlink", "scan", "insider"}
  BY <1>3, DroneFollows, ChannelFollows, ScanFollows, InsiderFollows
<1>4. CASE e \in {"permafrost", "wildfire", "subsea", "loss", "reroute"}
  BY <1>4, ThawingFollows, FireFollows, SeabedFollows, LossFollows, RerouteFollows
<1>5. CASE e \in {"wargame", "warloss", "failure", "rating", "attestation", "airgap"}
  BY <1>5, WargameFollows, WarLossFollows, FailureFollows, RatingFollows, AttestationFollows,
     AirGapFollows
<1>6. CASE e \in {"cuas", "vessels", "overflight", "bom"}
  <2>1. e \in {"vessels", "overflight"} => PartsOf[e] = Items
    BY DEF PartsOf
  <2> QED
    BY <1>6, <2>1, AirspaceFollows, VesselsFollow, OverflightFollows, BomFollows
<1>7. CASE e \in {"pbmm", "anomaly"}
  BY <1>7, PbmmFollows, AnomalyFollows
<1> QED
  BY <1>1, <1>2, <1>3, <1>4, <1>5, <1>6, <1>7

\* One step moves one part of a reading, to a worse value.
LEMMA OnePartWorse ==
    ASSUME PictureInv, [Next]_vars, engine # "none", NEW p \in DOMAIN severity,
           severity'[p] > severity[p]
    PROVE  /\ engine' = engine /\ DOMAIN severity' = DOMAIN severity
           /\ \A q \in DOMAIN severity : q # p => severity'[q] = severity[q]
<1>1. UNCHANGED pictureVars \/ \E q \in DOMAIN severity : Worsen(q)
  BY DEF Next, Report, Relay, Bridge, Receive, Revise, Tick, BuildDecisionPacket, Sense, vars
<1>2. severity[p] \in Int
  BY DEF PictureInv
<1>3. PICK q \in DOMAIN severity : Worsen(q)
  BY <1>1, <1>2 DEF pictureVars
<1>4. engine' = engine /\ \E k : severity' = [severity EXCEPT ![q] = k]
  BY <1>3 DEF Worsen
<1>5. q = p
  BY <1>2, <1>4
<1> QED
  BY <1>4, <1>5

\* The readings before and after such a step.
LEMMA ReadingWorsens ==
    ASSUME PictureInv, PictureInv', [Next]_vars, engine # "none",
           NEW p \in DOMAIN severity, severity'[p] > severity[p]
    PROVE  /\ Worsens(engine, Reading(engine, severity), Reading(engine, severity'))
           /\ engine \in DOMAIN PartsOf
           /\ DOMAIN Reading(engine, severity) = PartsOf[engine]
           /\ DOMAIN Reading(engine, severity') = PartsOf[engine]
           /\ engine \in {"minimum", "mean", "weighted"} => engine \in Aggregations
<1> DEFINE r == Reading(engine, severity)
           s == Reading(engine, severity')
<1>2. /\ engine' = engine /\ DOMAIN severity' = DOMAIN severity
      /\ \A q \in DOMAIN severity : q # p => severity'[q] = severity[q]
  BY OnePartWorse
<1>3. /\ engine \in DOMAIN Scale /\ DOMAIN severity = DOMAIN Scale[engine]
      /\ \A q \in DOMAIN severity : severity[q] \in 1..Len(Scale[engine][q])
      /\ \A q \in DOMAIN severity : severity'[q] \in 1..Len(Scale[engine][q])
  BY <1>2 DEF PictureInv
<1>4. DOMAIN Scale[engine] = PartsOf[engine] /\ engine \in DOMAIN PartsOf
  BY <1>3, GradeAssumption
<1>5. ASSUME NEW q \in PartsOf[engine]
      PROVE  /\ NoBetter(engine, q, r[q], s[q])
             /\ q \in Amount => r[q] >= 0 /\ s[q] >= 0
             /\ q = "health" => r[q] > 0 /\ s[q] > 0
             /\ q = "cushion" => r[q] <= 100 /\ s[q] <= 100
             /\ q = "km" => r[q] >= 5 /\ s[q] >= 5
             /\ q = "value" => /\ Len(History) * r[q] >= SumOf(History)
                              /\ Len(History) * s[q] >= SumOf(History)
  <2> DEFINE i == severity[q]
             j == severity'[q]
  <2>1. i \in 1..Len(Scale[engine][q]) /\ j \in 1..Len(Scale[engine][q]) /\ i <= j
    BY <1>2, <1>3, <1>4
  <2>2. r[q] = Scale[engine][q][i] /\ s[q] = Scale[engine][q][j]
    BY <1>4 DEF Reading
  <2>3. engine \in DOMAIN Scale
    BY <1>3
  <2> HIDE DEF i, j
  <2>4. \A m, n \in 1..Len(Scale[engine][q]) :
            /\ m <= n => NoBetter(engine, q, Scale[engine][q][m], Scale[engine][q][n])
            /\ q \in Amount => Scale[engine][q][m] >= 0
            /\ q = "health" => Scale[engine][q][m] > 0
            /\ q = "cushion" => Scale[engine][q][m] <= 100
            /\ q = "km" => Scale[engine][q][m] >= 5
            /\ q = "value" => Len(History) * Scale[engine][q][m] >= SumOf(History)
    BY <2>3, GradeAssumption, Zenon
  <2>5. /\ NoBetter(engine, q, Scale[engine][q][i], Scale[engine][q][j])
        /\ q \in Amount => Scale[engine][q][i] >= 0 /\ Scale[engine][q][j] >= 0
        /\ q = "health" => Scale[engine][q][i] > 0 /\ Scale[engine][q][j] > 0
        /\ q = "cushion" => Scale[engine][q][i] <= 100 /\ Scale[engine][q][j] <= 100
        /\ q = "km" => Scale[engine][q][i] >= 5 /\ Scale[engine][q][j] >= 5
        /\ q = "value" => /\ Len(History) * Scale[engine][q][i] >= SumOf(History)
                         /\ Len(History) * Scale[engine][q][j] >= SumOf(History)
    BY <2>1, <2>4, Zenon
  <2> QED
    BY <2>2, <2>5, Zenon
<1>6. Worsens(engine, r, s)
  BY <1>5 DEF Worsens
<1>7. engine \in {"minimum", "mean", "weighted"} => engine \in Aggregations
  BY <1>3, GradeAssumption
<1>8. DOMAIN r = PartsOf[engine] /\ DOMAIN s = PartsOf[engine]
  BY <1>4 DEF Reading
<1> QED
  BY <1>4, <1>6, <1>7, <1>8

\* No engine sees less threat in a reading that got worse in one part, nor gives a milder
\* verdict, for every scale of readings from the mildest to the worst and every step along
\* it, whatever the other parts are; the states of a corridor that underwriting and the
\* Cursor on Target event do not name are the exceptions the property lists.
THEOREM WorseningAlwaysRaisesThreat == Spec => WorseningRaisesThreat
<1> DEFINE Raised == \A p \in DOMAIN severity : NeverMilder(p)
<1>1. PictureInv /\ PictureInv' /\ [Next]_vars => [Raised]_pictureVars
  <2> SUFFICES ASSUME PictureInv, PictureInv', [Next]_vars, NEW p \in DOMAIN severity
               PROVE  NeverMilder(p)
    OBVIOUS
  <2> SUFFICES ASSUME engine' = engine, severity'[p] > severity[p], ~Averaged(p), ~NoWorse(p)
               PROVE  /\ \/ Unpriced(p)
                         \/ Threat(engine, Reading(engine, severity'))
                               >= Threat(engine, Reading(engine, severity))
                      /\ \/ Unmarked(p)
                         \/ Rank(engine, Verdict(engine, Reading(engine, severity')))
                               >= Rank(engine, Verdict(engine, Reading(engine, severity)))
    BY DEF NeverMilder
  <2> DEFINE r == Reading(engine, severity)
             s == Reading(engine, severity')
  <2>0. engine # "none"
    <3>1. "none" \notin DOMAIN PartsOf
      BY DEF PartsOf
    <3>2. engine \in DOMAIN Scale
      BY DEF PictureInv
    <3> QED
      BY <3>1, <3>2, GradeAssumption
  <2>1. /\ Worsens(engine, r, s) /\ engine \in DOMAIN PartsOf
        /\ DOMAIN r = PartsOf[engine] /\ DOMAIN s = PartsOf[engine]
        /\ engine \in {"minimum", "mean", "weighted"} => engine \in Aggregations
    BY <2>0, ReadingWorsens
  <2>3. ASSUME engine \in {"minimum", "mean", "weighted"}, NEW i \in 1..9
        PROVE  r[Dimensions[i]] \in 0..100 /\ s[Dimensions[i]] \in 0..100
    <3>1. engine \in Aggregations
      BY <2>1, <2>3
    <3>2. /\ Dimensions[i] \in DOMAIN Scale[engine]
          /\ \A n \in 1..Len(Scale[engine][Dimensions[i]]) :
                Scale[engine][Dimensions[i]][n] \in 0..100
      <4>1. i \in 1..Len(Dimensions)
        BY NineDimensions
      <4>2. engine \in DOMAIN Scale
        BY <2>0 DEF PictureInv
      <4> QED
        BY <3>1, <4>1, <4>2, ScaleAssumption, Zenon
    <3>3. /\ severity[Dimensions[i]] \in 1..Len(Scale[engine][Dimensions[i]])
          /\ severity'[Dimensions[i]] \in 1..Len(Scale[engine][Dimensions[i]])
      BY <2>0, <3>2 DEF PictureInv
    <3>4. /\ r[Dimensions[i]] = Scale[engine][Dimensions[i]][severity[Dimensions[i]]]
          /\ s[Dimensions[i]] = Scale[engine][Dimensions[i]][severity'[Dimensions[i]]]
      BY <3>2 DEF Reading
    <3> QED
      BY <3>2, <3>3, <3>4
  <2>4. ASSUME engine = "uav" PROVE s.battery = r.battery /\ s.stalling = r.stalling
    <3>1. "battery" # p /\ "stalling" # p
      BY <2>4 DEF Averaged
    <3>2. engine \in DOMAIN Scale /\ DOMAIN severity = DOMAIN Scale[engine]
      BY <2>0 DEF PictureInv
    <3>3. DOMAIN Scale[engine] = PartsOf[engine]
      BY <3>2, GradeAssumption
    <3>4. "battery" \in PartsOf[engine] /\ "stalling" \in PartsOf[engine]
      BY <2>4 DEF PartsOf
    <3>5. severity'["battery"] = severity["battery"] /\ severity'["stalling"] = severity["stalling"]
      BY <2>0, <3>1, <3>2, <3>3, <3>4, OnePartWorse
    <3> QED
      BY <3>3, <3>4, <3>5 DEF Reading
  <2>5. ASSUME engine \in {"insurance", "display"}
        PROVE  /\ StateFalls(r, s)
               /\ r.state # s.state =>
                     /\ s.state = "functionally_closed" /\ engine = "insurance" => Unpriced(p)
               /\ engine = "display" =>
                     (s.state \in {"open_but_no_carrier_capacity",
                                   "open_but_communications_degraded"} => Unmarked(p))
    <3>1. /\ DOMAIN Scale[engine] = PartsOf[engine] /\ "state" \in PartsOf[engine]
          /\ DOMAIN severity = PartsOf[engine]
      <4>1. engine \in DOMAIN Scale /\ DOMAIN severity = DOMAIN Scale[engine]
        BY <2>0 DEF PictureInv
      <4>2. DOMAIN Scale[engine] = PartsOf[engine]
        BY <4>1, GradeAssumption
      <4>3. "state" \in PartsOf[engine]
        BY <2>5 DEF PartsOf
      <4> QED
        BY <4>1, <4>2, <4>3
    <3>2. /\ r.state = Scale[engine]["state"][severity["state"]]
          /\ s.state = Scale[engine]["state"][severity'["state"]]
      BY <3>1 DEF Reading
    <3>3. p # "state" => severity'["state"] = severity["state"]
      BY <2>0, <3>1, OnePartWorse
    <3>4. StateScore(s.state) <= StateScore(r.state)
      <4>1. NoBetter(engine, "state", r["state"], s["state"])
        BY <2>1, <3>1 DEF Worsens
      <4> QED
        BY <4>1, Zenon DEF NoBetter
    <3>5. StateScore(s.state) \in Int /\ StateScore(r.state) \in Int
      BY ScoresOfStates
    <3>6. p = "state" => StateScore(s.state) # StateScore(r.state)
      BY <3>2 DEF NoWorse
    <3>7. StateFalls(r, s)
      BY <3>2, <3>3, <3>4, <3>5, <3>6 DEF StateFalls
    <3>8. engine = "display" => p = "state"
      BY <3>1 DEF PartsOf
    <3> HIDE DEF r, s
    <3> QED
      BY <3>2, <3>3, <3>7, <3>8 DEF Unpriced, Unmarked
  <2>6. ASSUME engine = "insurance" PROVE Lost(r, s, "alternate")
    <3>1. "alternate" \in PartsOf[engine] /\ "alternate" \in GoodFlag /\ "alternate" \notin BadFlag
      BY <2>6 DEF PartsOf, GoodFlag, BadFlag
    <3> QED
      BY <2>1, <3>1, FlagLost
  <2> HIDE DEF r, s
  <2>7. CASE engine \notin {"insurance", "display"}
    <3>1. SeesWorse(engine, r, s)
      BY <2>1, <2>3, <2>4, <2>7, EngineFollows
    <3> QED
      BY <3>1 DEF SeesWorse, r, s
  <2>8. CASE engine = "insurance"
    BY <2>5, <2>6, <2>8, InsuranceFollows DEF r, s
  <2>9. CASE engine = "display"
    BY <2>5, <2>9, DisplayFollows DEF r, s
  <2> QED
    BY <2>7, <2>8, <2>9
<1>2. WorseningRaisesThreat <=> [][Raised]_pictureVars
  BY DEF WorseningRaisesThreat
<1> HIDE DEF Raised
<1> QED
  BY <1>1, <1>2, PictureAlwaysOnScale, PTL DEF Spec
=============================================================================
