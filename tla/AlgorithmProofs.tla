-------------------------- MODULE AlgorithmProofs --------------------------
(***************************************************************************)
(* What Algorithms states, for every input.                                *)
(***************************************************************************)
EXTENDS Algorithms, IdentifiersProofs, NaturalsInduction, WellFoundedInduction, SequenceTheorems

-----------------------------------------------------------------------------
(* Induction and recursion, for sets and functions in place of operators   *)

LEMMA Least ==
    ASSUME NEW S \in SUBSET Nat, S # {}
    PROVE  \E m \in S : \A n \in S : m <= n
<1>1. \E x \in S : \A y \in S : ~(<<y, x>> \in OpToRel(<, Nat))
  BY NatLessThanWellFounded, WFMin, Zenon
<1>2. PICK x \in S : \A y \in S : ~(<<y, x>> \in OpToRel(<, Nat))
  BY <1>1
<1>3. \A y \in S : ~(y < x)
  BY <1>2, Zenon DEF OpToRel
<1> QED
  BY <1>3

LEMMA Induction ==
    ASSUME NEW S \in SUBSET Nat, 0 \in S, \A n \in S : n + 1 \in S
    PROVE  S = Nat
<1> SUFFICES ASSUME Nat \ S # {} PROVE FALSE
  OBVIOUS
<1>1. PICK m \in Nat \ S : \A n \in Nat \ S : m <= n
  BY Least
<1>2. m # 0 /\ m - 1 \in Nat /\ m - 1 \notin Nat \ S
  BY <1>1
<1> QED
  BY <1>1, <1>2

\* f is what a loop does that starts with first, and n times goes on to next.
Iterates(f, first, next, n) ==
    f[0] = first /\ \A i \in 1..n : f[i] = next[<<i - 1, f[i - 1]>>]

LEMMA Recursion ==
    ASSUME NEW V, NEW first \in V, NEW next \in [Nat \X V -> V], NEW n \in Nat
    PROVE  \E f \in [0..n -> V] : Iterates(f, first, next, n)
<1> DEFINE Defines(f, m) == f[0] = first /\ \A i \in 1..m : f[i] = next[<<i - 1, f[i - 1]>>]
           S == {m \in Nat : \E f \in [0..m -> V] : Defines(f, m)}
<1>1. 0 \in S
  <2> DEFINE f == [i \in 0..0 |-> first]
  <2>1. f \in [0..0 -> V] /\ Defines(f, 0)
    OBVIOUS
  <2> QED
    BY <2>1
<1>2. ASSUME NEW m \in S PROVE m + 1 \in S
  <2>1. PICK f \in [0..m -> V] : Defines(f, m)
    OBVIOUS
  <2> DEFINE g == [i \in 0..(m + 1) |-> IF i = m + 1 THEN next[<<m, f[m]>>] ELSE f[i]]
  <2>2. m \in Nat /\ f[m] \in V /\ next[<<m, f[m]>>] \in V
    OBVIOUS
  <2>3. g \in [0..(m + 1) -> V]
    BY <2>2
  <2>4. g[0] = first
    BY <2>1, <2>2
  <2>5. ASSUME NEW i \in 1..(m + 1) PROVE g[i] = next[<<i - 1, g[i - 1]>>]
    <3>1. CASE i = m + 1
      <4>1. g[m + 1] = next[<<m, f[m]>>] /\ g[m] = f[m] /\ i - 1 = m
        BY <2>2, <3>1
      <4> QED
        BY <3>1, <4>1
    <3>2. CASE i # m + 1
      BY <3>2, <2>1, <2>2
    <3> QED
      BY <3>1, <3>2
  <2>6. Defines(g, m + 1) /\ m + 1 \in Nat
    <3> HIDE DEF g
    <3> QED
      BY <2>2, <2>4, <2>5
  <2> HIDE DEF g, Defines
  <2> QED
    BY <2>3, <2>6, Zenon
<1>3. S = Nat
  <2> HIDE DEF S
  <2>1. S \in SUBSET Nat
    BY DEF S
  <2> QED
    BY <1>1, <1>2, <2>1, Induction, Zenon
<1>4. \E f \in [0..n -> V] : Defines(f, n)
  BY <1>3
<1> QED
  BY <1>4 DEF Iterates

-----------------------------------------------------------------------------
(* The curve *)

LEMMA PointTypes ==
    ASSUME NEW curve \in Seq(Point)
    PROVE  /\ Len(curve) \in Nat /\ DOMAIN curve = 1..Len(curve)
           /\ \A i \in 1..Len(curve) :
                 /\ curve[i].temperature \in Int /\ curve[i].factor \in Int
                 /\ curve[i].transitionTime \in Nat /\ curve[i].duration \in Nat
<1>1. Len(curve) \in Nat /\ DOMAIN curve = 1..Len(curve)
  OBVIOUS
<1>2. \A i \in 1..Len(curve) : curve[i] \in Point
  OBVIOUS
<1> QED
  BY <1>1, <1>2 DEF Point

\* ReachedAt is the sum that the loop of evaluate makes.
LEMMA Reached ==
    ASSUME NEW curve \in Seq(Point), Len(curve) # 0
    PROVE  /\ ReachedAt(curve, 1) = curve[1].transitionTime
           /\ \A n \in 2..Len(curve) :
                 ReachedAt(curve, n) = ReachedAt(curve, n - 1) + curve[n - 1].duration
                                         + curve[n].transitionTime
           /\ \A n \in 1..Len(curve) : ReachedAt(curve, n) \in Nat
<1> DEFINE L == Len(curve)
           tt(n) == curve[n].transitionTime
           d(n) == curve[n].duration
           next == [p \in Nat \X Nat |->
                       IF p[1] + 2 <= L THEN p[2] + d(p[1] + 1) + tt(p[1] + 2) ELSE p[2]]
           Def(f) == [n \in DOMAIN curve |->
                         IF n = 1 THEN curve[1].transitionTime
                         ELSE f[n - 1] + curve[n - 1].duration + curve[n].transitionTime]
<1>1. L \in Nat \ {0} /\ DOMAIN curve = 1..L /\ \A n \in 1..L : tt(n) \in Nat /\ d(n) \in Nat
  BY PointTypes
<1> HIDE DEF L, tt, d
<1>2. next \in [Nat \X Nat -> Nat]
  <2> SUFFICES ASSUME NEW p \in Nat \X Nat
               PROVE  (IF p[1] + 2 <= L THEN p[2] + d(p[1] + 1) + tt(p[1] + 2) ELSE p[2]) \in Nat
    OBVIOUS
  <2> QED
    BY <1>1
<1>3. PICK f \in [0..(L - 1) -> Nat] :
          f[0] = tt(1) /\ \A i \in 1..(L - 1) : f[i] = next[<<i - 1, f[i - 1]>>]
  <2> HIDE DEF next
  <2>1. L - 1 \in Nat /\ tt(1) \in Nat
    BY <1>1
  <2> HIDE DEF next
  <2>2. \E f \in [0..(L - 1) -> Nat] : Iterates(f, tt(1), next, L - 1)
    BY <1>2, <2>1, Recursion, Zenon
  <2> QED
    BY <2>2 DEF Iterates
<1> DEFINE g == [n \in 1..L |-> f[n - 1]]
<1>4. \A i \in 1..(L - 1) : f[i] = f[i - 1] + d(i) + tt(i + 1)
  <2> SUFFICES ASSUME NEW i \in 1..(L - 1) PROVE f[i] = f[i - 1] + d(i) + tt(i + 1)
    OBVIOUS
  <2>1. <<i - 1, f[i - 1]>> \in Nat \X Nat /\ i - 1 + 2 <= L /\ i - 1 + 1 = i /\ i - 1 + 2 = i + 1
    BY <1>1
  <2>2. next[<<i - 1, f[i - 1]>>] = f[i - 1] + d(i) + tt(i + 1)
    BY <2>1
  <2> QED
    BY <1>3, <2>2
<1>5. g = Def(g)
  <2>1. \A n \in 1..L : g[n] = IF n = 1 THEN tt(1) ELSE g[n - 1] + d(n - 1) + tt(n)
    <3> SUFFICES ASSUME NEW n \in 1..L
                 PROVE  g[n] = IF n = 1 THEN tt(1) ELSE g[n - 1] + d(n - 1) + tt(n)
      OBVIOUS
    <3>1. CASE n = 1
      BY <1>1, <1>3, <3>1
    <3>2. CASE n # 1
      <4>1. n - 1 \in 1..(L - 1) /\ n - 1 \in 1..L /\ n - 1 + 1 = n
        BY <1>1, <3>2
      <4>2. g[n] = f[n - 1] /\ g[n - 1] = f[n - 1 - 1]
        BY <4>1
      <4> QED
        BY <1>4, <3>2, <4>1, <4>2
    <3> QED
      BY <3>1, <3>2
  <2>2. Def(g) = [n \in 1..L |-> IF n = 1 THEN tt(1) ELSE g[n - 1] + d(n - 1) + tt(n)]
    BY <1>1 DEF tt, d
  <2> QED
    BY <2>1, <2>2
<1> HIDE DEF g
<1> DEFINE h == CHOOSE reached : reached = Def(reached)
<1>6. h = Def(h)
  BY <1>5, Zenon
<1>7. \A i : ReachedAt(curve, i) = h[i]
  BY DEF ReachedAt
<1> HIDE DEF h
<1>8. h[1] = tt(1) /\ \A n \in 2..L : h[n] = h[n - 1] + d(n - 1) + tt(n)
  <2>1. \A n \in 1..L : h[n] = IF n = 1 THEN tt(1) ELSE h[n - 1] + d(n - 1) + tt(n)
    BY <1>1, <1>6, Zenon DEF tt, d
  <2> QED
    BY <1>1, <2>1
<1>9. \A n \in 1..L : h[n] \in Nat
  <2> DEFINE S == {n \in Nat : n + 1 <= L => h[n + 1] \in Nat}
  <2>1. 0 \in S
    BY <1>1, <1>8
  <2>2. ASSUME NEW n \in S, n + 2 <= L PROVE h[n + 2] \in Nat
    <3>1. n \in Nat /\ n + 1 <= L /\ n + 2 \in 2..L /\ n + 2 - 1 = n + 1
      BY <1>1, <2>2
    <3>2. h[n + 1] \in Nat /\ d(n + 1) \in Nat /\ tt(n + 2) \in Nat
      BY <1>1, <3>1
    <3> QED
      BY <1>8, <3>1, <3>2
  <2>3. S = Nat
    <3>1. \A n \in S : n + 1 \in S
      <4> SUFFICES ASSUME NEW n \in S, n + 1 + 1 <= L PROVE h[n + 1 + 1] \in Nat
        OBVIOUS
      <4>1. n \in Nat /\ n + 1 + 1 = n + 2
        OBVIOUS
      <4> QED
        BY <2>2, <4>1
    <3>2. S \in SUBSET Nat
      OBVIOUS
    <3> HIDE DEF S
    <3> QED
      BY <2>1, <3>1, <3>2, Induction, Zenon
  <2> SUFFICES ASSUME NEW n \in 1..L PROVE h[n] \in Nat
    OBVIOUS
  <2>4. n - 1 \in Nat /\ n - 1 + 1 = n /\ n <= L
    BY <1>1
  <2>5. n - 1 \in S
    <3> HIDE DEF S
    <3> QED
      BY <2>3, <2>4
  <2> QED
    BY <2>4, <2>5
<1> QED
  BY <1>7, <1>8, <1>9 DEF L, tt, d


LEMMA ReachedInOrder ==
    ASSUME NEW curve \in Seq(Point)
    PROVE  \A i, j \in 1..Len(curve) : i <= j => ReachedAt(curve, i) <= ReachedAt(curve, j)
<1> DEFINE L == Len(curve)
           R(n) == ReachedAt(curve, n)
           S == {n \in Nat : n + 1 <= L => \A i \in 1..(n + 1) : R(i) <= R(n + 1)}
<1> SUFFICES ASSUME L # 0 PROVE \A i, j \in 1..L : i <= j => R(i) <= R(j)
  OBVIOUS
<1>1. L \in Nat /\ \A n \in 1..L : R(n) \in Nat
  BY Reached, PointTypes
<1>2. \A n \in 2..L : R(n - 1) <= R(n)
  <2> SUFFICES ASSUME NEW n \in 2..L PROVE R(n - 1) <= R(n)
    OBVIOUS
  <2>1. R(n) = R(n - 1) + curve[n - 1].duration + curve[n].transitionTime
    BY Reached
  <2>2. n - 1 \in 1..L /\ n \in 1..L
    BY <1>1
  <2>3. curve[n - 1].duration \in Nat /\ curve[n].transitionTime \in Nat
    BY <2>2, PointTypes
  <2>4. R(n - 1) \in Nat
    BY <1>1, <2>2
  <2> HIDE DEF R, L
  <2> QED
    BY <2>1, <2>3, <2>4
<1> HIDE DEF L, R
<1>3. 0 \in S
  BY <1>1
<1>4. ASSUME NEW n \in S PROVE n + 1 \in S
  <2> SUFFICES ASSUME n + 2 <= L, NEW i \in 1..(n + 2) PROVE R(i) <= R(n + 2)
    OBVIOUS
  <2>1. n + 2 \in 2..L /\ n + 2 - 1 = n + 1 /\ n + 1 \in 1..L /\ i \in 1..L
    BY <1>1
  <2>2. R(n + 1) <= R(n + 2)
    BY <1>2, <2>1
  <2>3. i # n + 2 => R(i) <= R(n + 1)
    BY <1>1
  <2> QED
    BY <1>1, <2>1, <2>2, <2>3
<1>5. S = Nat
  <2>1. S \in SUBSET Nat
    OBVIOUS
  <2> HIDE DEF S
  <2> QED
    BY <1>3, <1>4, <2>1, Induction, Zenon
<1> SUFFICES ASSUME NEW i \in 1..L, NEW j \in 1..L, i <= j PROVE R(i) <= R(j)
  OBVIOUS
<1>6. j - 1 \in S
  <2>1. j - 1 \in Nat
    BY <1>1
  <2> HIDE DEF S
  <2> QED
    BY <1>5, <2>1
<1>7. j - 1 + 1 = j /\ j <= L /\ i \in 1..j
  BY <1>1
<1> QED
  BY <1>6, <1>7

\* A segment of the loop of evaluate lasts until the next point is reached.
LEMMA SegmentsOf ==
    ASSUME NEW curve \in Seq(Point), NEW offset \in Int
    PROVE  Segments(curve, offset) =
              {i \in 1..(Len(curve) - 1) :
                  ReachedAt(curve, i) <= offset /\ offset <= ReachedAt(curve, i + 1)}
<1> SUFFICES ASSUME NEW i \in 1..(Len(curve) - 1)
             PROVE  ReachedAt(curve, i) + curve[i].duration + curve[i + 1].transitionTime
                       = ReachedAt(curve, i + 1)
  BY DEF Segments
<1>1. i + 1 \in 2..Len(curve) /\ i + 1 - 1 = i /\ Len(curve) # 0
  BY PointTypes
<1> QED
  BY <1>1, Reached

\* A curve has a segment exactly from its first to its last point.
LEMMA SegmentsCover ==
    ASSUME NEW curve \in Seq(Point), NEW offset \in Int
    PROVE  Segments(curve, offset) # {} <=>
              /\ Len(curve) >= 2
              /\ offset \in ReachedAt(curve, 1)..ReachedAt(curve, Len(curve))
<1> DEFINE L == Len(curve)
           R(n) == ReachedAt(curve, n)
<1>1. L \in Nat
  BY PointTypes
<1>2. L # 0 => \A n \in 1..L : R(n) \in Nat
  BY Reached
<1>3. \A i, j \in 1..L : i <= j => R(i) <= R(j)
  BY ReachedInOrder
<1>4. Segments(curve, offset) = {i \in 1..(L - 1) : R(i) <= offset /\ offset <= R(i + 1)}
  BY SegmentsOf
<1> HIDE DEF L, R
<1>5. ASSUME NEW i \in Segments(curve, offset) PROVE L >= 2 /\ offset \in R(1)..R(L)
  <2>1. i \in 1..(L - 1) /\ R(i) <= offset /\ offset <= R(i + 1)
    BY <1>4
  <2>2. /\ 1 \in 1..L /\ i \in 1..L /\ i + 1 \in 1..L /\ L \in 1..L
        /\ 1 <= i /\ i + 1 <= L /\ L # 0
    BY <1>1, <2>1
  <2>3. R(1) <= R(i) /\ R(i + 1) <= R(L)
    BY <1>3, <2>2
  <2>4. R(1) \in Nat /\ R(i) \in Nat /\ R(i + 1) \in Nat /\ R(L) \in Nat
    BY <1>2, <2>2
  <2> QED
    BY <1>1, <2>1, <2>3, <2>4
<1>6. ASSUME L >= 2, offset \in R(1)..R(L) PROVE Segments(curve, offset) # {}
  <2> DEFINE S == {n \in Nat : n \in 2..L /\ offset <= R(n)}
  <2>1. L \in S
    BY <1>1, <1>6
  <2>2. PICK n \in S : \A m \in S : n <= m
    <3>1. S \in SUBSET Nat /\ S # {}
      BY <2>1
    <3> HIDE DEF S
    <3> QED
      BY <3>1, Least
  <2>3. n \in 2..L /\ n - 1 \in 1..(L - 1) /\ n - 1 + 1 = n /\ n - 1 \in 1..L /\ n \in 1..L /\ 1 \in 1..L
    BY <1>1
  <2>4. R(n - 1) \in Nat /\ R(1) \in Nat
    BY <1>1, <1>2, <1>6, <2>3
  <2>5. R(n - 1) <= offset
    <3>1. CASE n = 2
      BY <3>1, <1>6, <2>4
    <3>2. CASE n # 2
      <4>1. n - 1 \in Nat /\ n - 1 \in 2..L /\ ~(n <= n - 1)
        BY <1>1, <2>3, <3>2
      <4>2. n - 1 \notin S
        BY <2>2, <4>1
      <4> QED
        BY <2>4, <4>1, <4>2
    <3> QED
      BY <3>1, <3>2
  <2> QED
    BY <1>4, <2>3, <2>5
<1> QED
  BY <1>5, <1>6 DEF L, R

LEMMA CurveCovers ==
    ASSUME NEW curve \in Seq(Point), NEW offset \in Int
    PROVE  Covers(curve, offset)
<1>1. evaluate(curve, offset, 0, <<0, 0>>) # {} <=> Segments(curve, offset) # {}
  <2>1. NaN # {}
    BY SMT DEF NaN
  <2>2. \A lower, upper, since, b : Interpolate(lower, upper, since, b) # {}
    BY <2>1, Zenon DEF Interpolate
  <2> QED
    BY <2>2, Zenon DEF evaluate
<1> QED
  BY <1>1, SegmentsCover, Zenon DEF Covers


-----------------------------------------------------------------------------
(* A curve does not leave the range of its points *)

LEMMA Quotient ==
    ASSUME NEW x \in Int, NEW y \in Nat \ {0}
    PROVE  x \div y \in Int /\ y * (x \div y) <= x /\ x < y * (x \div y) + y
OBVIOUS

LEMMA TimesOrdered ==
    ASSUME NEW x \in Int, NEW z \in Int, NEW y \in Nat \ {0}, x < z
    PROVE  y * x + y <= y * z
OBVIOUS

LEMMA HalfUpBetween ==
    ASSUME NEW n \in Nat, NEW d \in Nat \ {0}, NEW low \in Int, NEW high \in Int,
           d * low <= n, n <= d * high
    PROVE  (2 * n + d) \div (2 * d) \in low..high
<1> DEFINE q == (2 * n + d) \div (2 * d)
<1>1. 2 * d \in Nat \ {0} /\ 2 * n + d \in Int
  OBVIOUS
<1>2. q \in Int /\ 2 * d * q <= 2 * n + d /\ 2 * n + d < 2 * d * q + 2 * d
  BY <1>1, Quotient
<1> HIDE DEF q
<1>3. d * q \in Int /\ 2 * (d * q) <= 2 * n + d /\ 2 * n + d < 2 * (d * q) + 2 * d
  <2>1. 2 * d * q = 2 * (d * q)
    BY <1>2
  <2> QED
    BY <1>2, <2>1
<1>4. d * low \in Int /\ d * high \in Int
  OBVIOUS
<1>5. ~(q < low)
  <2>1. q < low => d * q + d <= d * low
    BY <1>2, TimesOrdered
  <2> QED
    BY <1>3, <1>4, <2>1
<1>6. ~(high < q)
  <2>1. high < q => d * high + d <= d * q
    BY <1>2, TimesOrdered
  <2> QED
    BY <1>3, <1>4, <2>1
<1> QED
  BY <1>2, <1>5, <1>6 DEF q

\* math.Round of n/d stays between the integers that n/d is between.
LEMMA RoundBetween ==
    ASSUME NEW n \in Int, NEW d \in Nat \ {0}, NEW low \in Int, NEW high \in Int,
           d * low <= n, n <= d * high
    PROVE  Round(n, d) \in low..high
<1>1. CASE n >= 0
  BY <1>1, HalfUpBetween DEF Round
<1>2. CASE n < 0
  <2>1. -n \in Nat /\ -low \in Int /\ -high \in Int
    BY <1>2
  <2>2. d * (-high) <= -n /\ -n <= d * (-low)
    <3>1. d * (-high) = -(d * high) /\ d * (-low) = -(d * low)
      OBVIOUS
    <3>2. d * high \in Int /\ d * low \in Int
      OBVIOUS
    <3> QED
      BY <3>1, <3>2
  <2>3. (2 * (-n) + d) \div (2 * d) \in (-high)..(-low)
    BY <2>1, <2>2, HalfUpBetween
  <2>4. Round(n, d) = -((2 * (-n) + d) \div (2 * d))
    BY <1>2 DEF Round
  <2> DEFINE q == (2 * (-n) + d) \div (2 * d)
  <2> HIDE DEF q
  <2>5. q \in (-high)..(-low) /\ Round(n, d) = -q
    BY <2>3, <2>4 DEF q
  <2> QED
    BY <2>5
<1> QED
  BY <1>1, <1>2

\* Interpolation from A to B stays between the two, and ends in B.
LEMMA InterpolateBetween ==
    ASSUME NEW lower \in Point, NEW upper \in Point, NEW since \in Int, NEW b \in Int,
           upper.transitionTime # 0,
           since - lower.duration \in 0..upper.transitionTime,
           NEW low \in Int, NEW high \in Int,
           lower.temperature + lower.factor * b \in low..high,
           upper.temperature + upper.factor * b \in low..high
    PROVE  Interpolate(lower, upper, since, b) \subseteq low..high
<1> DEFINE d == upper.transitionTime
           t == since - lower.duration
           A == lower.temperature + lower.factor * b
           B == upper.temperature + upper.factor * b
           n == (lower.temperature * d + (upper.temperature - lower.temperature) * t)
                  + (lower.factor * d + (upper.factor - lower.factor) * t) * b
<1>1. /\ d \in Nat \ {0} /\ t \in 0..d
      /\ lower.temperature \in Int /\ lower.factor \in Int
      /\ upper.temperature \in Int /\ upper.factor \in Int
  BY DEF Point
<1>2. A \in low..high /\ B \in low..high
  OBVIOUS
<1>3. Interpolate(lower, upper, since, b) = {Round(n, d)}
  BY <1>1, Zenon DEF Interpolate
<1>4. n = A * (d - t) + B * t /\ n \in Int
  <2> HIDE DEF d, t
  <2>1. d \in Int /\ t \in Int
    BY <1>1
  <2> QED
    BY <1>1, <2>1
<1> HIDE DEF A, B, n, d, t
<1>5. A * (d - t) \in Int /\ B * t \in Int /\ d * low \in Int /\ d * high \in Int
  BY <1>1, <1>2
<1>6. d * low <= n
  <2>1. low * (d - t) <= A * (d - t) /\ low * t <= B * t
    BY <1>1, <1>2
  <2>2. d * low = low * (d - t) + low * t
    BY <1>1
  <2> QED
    BY <1>1, <1>4, <1>5, <2>1, <2>2
<1>7. n <= d * high
  <2>1. A * (d - t) <= high * (d - t) /\ B * t <= high * t
    BY <1>1, <1>2
  <2>2. d * high = high * (d - t) + high * t
    BY <1>1
  <2> QED
    BY <1>1, <1>4, <1>5, <2>1, <2>2
<1>8. Round(n, d) \in low..high
  BY <1>1, <1>4, <1>6, <1>7, RoundBetween
<1> QED
  BY <1>3, <1>8, Zenon


LEMMA InterpolateEnds ==
    ASSUME NEW lower \in Point, NEW upper \in Point, NEW since \in Int, NEW b \in Int,
           upper.transitionTime # 0, since - lower.duration = upper.transitionTime
    PROVE  Interpolate(lower, upper, since, b) = {upper.temperature + upper.factor * b}
<1> DEFINE d == upper.transitionTime
           t == since - lower.duration
           B == upper.temperature + upper.factor * b
           n == (lower.temperature * d + (upper.temperature - lower.temperature) * t)
                  + (lower.factor * d + (upper.factor - lower.factor) * t) * b
<1>1. /\ d \in Nat \ {0} /\ t = d
      /\ lower.temperature \in Int /\ lower.factor \in Int
      /\ upper.temperature \in Int /\ upper.factor \in Int
  BY DEF Point
<1>2. Interpolate(lower, upper, since, b) = {Round(n, d)}
  BY <1>1, Zenon DEF Interpolate
<1>3. B \in Int /\ n = d * B /\ n \in Int
  <2> HIDE DEF d, t
  <2>1. d \in Int
    BY <1>1
  <2> QED
    BY <1>1, <2>1
<1> HIDE DEF n, d
<1>4. d * B <= n /\ n <= d * B
  <2> HIDE DEF B
  <2> QED
    BY <1>3
<1>5. Round(n, d) \in B..B
  <2> HIDE DEF B
  <2> QED
    BY <1>1, <1>3, <1>4, RoundBetween
<1>6. Round(n, d) = B
  <2> HIDE DEF B
  <2> QED
    BY <1>3, <1>5
<1> QED
  BY <1>2, <1>6, Zenon

LEMMA Extremes ==
    ASSUME NEW n \in Nat \ {0}, NEW v \in [1..n -> Int]
    PROVE  \E i, j \in 1..n : \A k \in 1..n : v[i] <= v[k] /\ v[k] <= v[j]
<1> DEFINE Has(m) == \E i, j \in 1..m : \A k \in 1..m : v[i] <= v[k] /\ v[k] <= v[j]
           S == {m \in Nat : m + 1 <= n => Has(m + 1)}
<1>1. 0 \in S
  BY SMTT(30)
<1>2. ASSUME NEW m \in S PROVE m + 1 \in S
  <2> SUFFICES ASSUME m + 2 <= n PROVE Has(m + 2)
    OBVIOUS
  <2>1. m + 1 <= n /\ m \in Nat
    OBVIOUS
  <2>2. PICK i \in 1..(m + 1), j \in 1..(m + 1) :
            \A k \in 1..(m + 1) : v[i] <= v[k] /\ v[k] <= v[j]
    BY <2>1
  <2> DEFINE low  == IF v[m + 2] < v[i] THEN m + 2 ELSE i
             high == IF v[m + 2] > v[j] THEN m + 2 ELSE j
  <2>3. low \in 1..(m + 2) /\ high \in 1..(m + 2)
    BY <2>1
  <2>4. ASSUME NEW k \in 1..(m + 2) PROVE v[low] <= v[k] /\ v[k] <= v[high]
    <3>1. v[k] \in Int /\ v[i] \in Int /\ v[j] \in Int /\ v[m + 2] \in Int
      BY <2>1
    <3>2. k # m + 2 => v[i] <= v[k] /\ v[k] <= v[j]
      BY <2>1, <2>2
    <3>3. v[i] <= v[j]
      BY <2>2
    <3> QED
      BY <3>1, <3>2, <3>3
  <2> HIDE DEF low, high
  <2> QED
    BY <2>3, <2>4
<1>3. S = Nat
  <2>1. S \in SUBSET Nat
    OBVIOUS
  <2> HIDE DEF S
  <2> QED
    BY <1>1, <1>2, <2>1, Induction, Zenon
<1>4. n - 1 \in S
  <2>1. n - 1 \in Nat
    OBVIOUS
  <2> HIDE DEF S
  <2> QED
    BY <1>3, <2>1
<1>5. n - 1 + 1 = n
  OBVIOUS
<1> QED
  BY <1>4, <1>5

LEMMA MinMax ==
    ASSUME NEW n \in Nat \ {0}, NEW v \in [1..n -> Int], NEW S, S = {v[k] : k \in 1..n}
    PROVE  Min(S) \in Int /\ Max(S) \in Int /\ \A k \in 1..n : v[k] \in Min(S)..Max(S)
<1>1. PICK i \in 1..n, j \in 1..n : \A k \in 1..n : v[i] <= v[k] /\ v[k] <= v[j]
  BY Extremes
<1>2. v[i] \in S /\ \A y \in S : v[i] <= y
  BY <1>1
<1>3. v[j] \in S /\ \A y \in S : v[j] >= y
  BY <1>1
<1>4. Min(S) \in S /\ \A y \in S : Min(S) <= y
  BY <1>2 DEF Min
<1>5. Max(S) \in S /\ \A y \in S : Max(S) >= y
  BY <1>3 DEF Max
<1>6. S \subseteq Int
  OBVIOUS
<1> QED
  BY <1>4, <1>5, <1>6

\* What evaluate returns, in the segment it chooses.
LEMMA Evaluates ==
    ASSUME NEW curve \in Seq(Point), NEW offset \in Int, NEW brightness, NEW range,
           Segments(curve, offset) # {}
    PROVE  \E i \in Segments(curve, offset) :
              LET since == offset - ReachedAt(curve, i)
                  b == Clamp(brightness, range[1], range[2])
              IN /\ \A j \in Segments(curve, offset) : i <= j
                 /\ i \in 1..(Len(curve) - 1) /\ since \in Nat
                 /\ since <= curve[i].duration + curve[i + 1].transitionTime
                 /\ evaluate(curve, offset, brightness, range) =
                       IF curve[i].duration > 0 /\ since <= curve[i].duration
                       THEN {curve[i].temperature + curve[i].factor * b}
                       ELSE Interpolate(curve[i], curve[i + 1], since, b)
<1> DEFINE S == Segments(curve, offset)
           i == Min(S)
<1>1. S \in SUBSET Nat
  BY DEF Segments
<1> HIDE DEF S
<1>2. PICK l \in S : \A j \in S : l <= j
  BY <1>1, Least DEF S
<1>3. i \in S /\ \A j \in S : i <= j
  BY <1>2 DEF Min
<1> HIDE DEF i
<1>4. /\ i \in 1..(Len(curve) - 1)
      /\ offset >= ReachedAt(curve, i)
      /\ offset <= ReachedAt(curve, i) + curve[i].duration + curve[i + 1].transitionTime
  BY <1>3 DEF S, Segments
<1>5. /\ ReachedAt(curve, i) \in Nat
      /\ curve[i].duration \in Nat /\ curve[i + 1].transitionTime \in Nat
  <2>1. Len(curve) # 0 /\ i \in 1..Len(curve) /\ i + 1 \in 1..Len(curve)
    BY <1>4, PointTypes
  <2> QED
    BY <2>1, Reached, PointTypes
<1> DEFINE since == offset - ReachedAt(curve, i)
<1>6. since \in Nat /\ since <= curve[i].duration + curve[i + 1].transitionTime
  BY <1>4, <1>5
<1> DEFINE b == Clamp(brightness, range[1], range[2])
<1>7. evaluate(curve, offset, brightness, range) =
         IF curve[i].duration > 0 /\ since <= curve[i].duration
         THEN {curve[i].temperature + curve[i].factor * b}
         ELSE Interpolate(curve[i], curve[i + 1], since, b)
  BY Zenon DEF evaluate, S, i
<1> HIDE DEF since
<1> QED
  BY <1>3, <1>4, <1>6, <1>7, Zenon DEF S, since


LEMMA CurveStaysInRange ==
    ASSUME NEW curve \in Seq(Point), NEW offset \in Int, NEW brightness \in Int,
           NEW range \in Int \X Int
    PROVE  Interpolates(curve, offset, brightness, range)
<1> DEFINE L == Len(curve)
           R(n) == ReachedAt(curve, n)
           S == Segments(curve, offset)
           b == Clamp(brightness, range[1], range[2])
           at(i) == curve[i].temperature + curve[i].factor * b
           mired == evaluate(curve, offset, brightness, range)
           low == Min({at(i) : i \in DOMAIN curve})
           high == Max({at(i) : i \in DOMAIN curve})
<1> SUFFICES ASSUME \A i \in 1..(L - 1) : curve[i].duration + curve[i + 1].transitionTime > 0
             PROVE  /\ \A m \in mired : m \in low..high
                    /\ \A i \in 2..L :
                          curve[i].transitionTime > 0 /\ offset = R(i) => mired = {at(i)}
  BY Zenon DEF Interpolates
<1>1. b \in Int
  BY DEF Clamp
<1> HIDE DEF b
<1>2. L \in Nat /\ DOMAIN curve = 1..L /\ \A i \in 1..L : curve[i] \in Point /\ at(i) \in Int
  <2>1. \A i \in 1..L : curve[i] \in Point
    OBVIOUS
  <2> QED
    BY <1>1, <2>1, PointTypes
<1>3. L # 0 => low \in Int /\ high \in Int /\ \A i \in 1..L : at(i) \in low..high
  <2> SUFFICES ASSUME L # 0
               PROVE  low \in Int /\ high \in Int /\ \A i \in 1..L : at(i) \in low..high
    OBVIOUS
  <2> DEFINE v == [i \in 1..L |-> at(i)]
             T == {at(i) : i \in DOMAIN curve}
  <2>1. v \in [1..L -> Int] /\ L \in Nat \ {0}
    BY <1>2
  <2>2. T = {v[k] : k \in 1..L}
    BY <1>2
  <2>3. \A i \in 1..L : v[i] = at(i)
    OBVIOUS
  <2> HIDE DEF v, T, at, L
  <2>4. Min(T) \in Int /\ Max(T) \in Int /\ \A k \in 1..L : v[k] \in Min(T)..Max(T)
    BY <2>1, <2>2, MinMax
  <2> QED
    BY <2>3, <2>4 DEF T
<1>4. S = {} => mired = {}
  BY Zenon DEF evaluate
<1>5. \A i \in 1..(L - 1) :
         /\ i \in 1..L /\ i + 1 \in 1..L /\ L # 0
         /\ curve[i].duration \in Nat /\ curve[i + 1].transitionTime \in Nat
  <2> SUFFICES ASSUME NEW i \in 1..(L - 1)
               PROVE  /\ i \in 1..L /\ i + 1 \in 1..L /\ L # 0
                      /\ curve[i].duration \in Nat /\ curve[i + 1].transitionTime \in Nat
    OBVIOUS
  <2>1. i \in 1..L /\ i + 1 \in 1..L /\ L # 0
    BY <1>2
  <2> QED
    BY <2>1, PointTypes
<1>6. ASSUME S # {} PROVE mired \subseteq low..high
  <2>1. PICK i \in S :
            LET since == offset - R(i)
            IN /\ \A j \in S : i <= j
               /\ i \in 1..(L - 1) /\ since \in Nat
               /\ since <= curve[i].duration + curve[i + 1].transitionTime
               /\ mired = IF curve[i].duration > 0 /\ since <= curve[i].duration
                          THEN {at(i)}
                          ELSE Interpolate(curve[i], curve[i + 1], since, b)
    BY <1>6, Evaluates, Zenon DEF b
  <2> DEFINE since == offset - R(i)
  <2>2. /\ i \in 1..L /\ i + 1 \in 1..L /\ L # 0
        /\ curve[i].duration \in Nat /\ curve[i + 1].transitionTime \in Nat
    BY <1>5, <2>1
  <2>3. curve[i].duration + curve[i + 1].transitionTime > 0
    BY <2>1
  <2>4. low \in Int /\ high \in Int /\ at(i) \in low..high /\ at(i + 1) \in low..high
    BY <1>3, <2>2
  <2>5. CASE curve[i].duration > 0 /\ since <= curve[i].duration
    <3>1. mired = {at(i)}
      BY <2>1, <2>5, Zenon
    <3> QED
      BY <2>4, <3>1, Zenon
  <2>6. CASE ~(curve[i].duration > 0 /\ since <= curve[i].duration)
    <3>1. mired = Interpolate(curve[i], curve[i + 1], since, b)
      BY <2>1, <2>6, Zenon
    <3>2. /\ since \in Nat
          /\ since <= curve[i].duration + curve[i + 1].transitionTime
      BY <2>1
    <3> DEFINE d == curve[i].duration
               t == curve[i + 1].transitionTime
    <3> HIDE DEF since, mired, low, high
    <3>3. t # 0 /\ since - d \in 0..t /\ since \in Int
      <4>1. /\ d \in Nat /\ t \in Nat /\ d + t > 0
            /\ ~(d > 0 /\ since <= d) /\ since \in Nat /\ since <= d + t
        BY <2>2, <2>3, <2>6, <3>2
      <4> HIDE DEF d, t
      <4> QED
        BY <4>1
    <3>4. curve[i] \in Point /\ curve[i + 1] \in Point
      BY <1>2, <2>2
    <3>5. Interpolate(curve[i], curve[i + 1], since, b) \subseteq low..high
      BY <1>1, <2>4, <3>3, <3>4, InterpolateBetween
    <3> QED
      BY <3>1, <3>5, Zenon
  <2> QED
    BY <2>5, <2>6
<1>7. ASSUME NEW k \in 2..L, curve[k].transitionTime > 0, offset = R(k)
      PROVE  mired = {at(k)}
  <2>1. /\ k - 1 \in 1..(L - 1) /\ k - 1 + 1 = k /\ k - 1 \in 1..L /\ k \in 1..L /\ L # 0
    BY <1>2
  <2>2. R(k) = R(k - 1) + curve[k - 1].duration + curve[k].transitionTime
    BY <2>1, Reached
  <2>3. /\ R(k - 1) \in Nat /\ R(k) \in Nat
        /\ curve[k - 1].duration \in Nat /\ curve[k].transitionTime \in Nat
    BY <2>1, Reached, PointTypes
  <2> DEFINE d == curve[k - 1].duration
             t == curve[k].transitionTime
             before == R(k - 1)
  <2>0. /\ before \in Nat /\ d \in Nat /\ t \in Nat /\ t # 0
        /\ offset = before + d + t /\ R(k) = before + d + t
    <3>1. t > 0
      BY <1>7
    <3>2. t # 0
      BY <2>3, <3>1
    <3> QED
      BY <1>7, <2>2, <2>3, <3>2, Zenon
  <2>4. R(k - 1) < R(k)
    <3>1. before < before + d + t
      <4> HIDE DEF before, d, t
      <4> QED
        BY <2>0
    <3> QED
      BY <2>0, <3>1
  <2>5. k - 1 \in S
    <3>1. S = {i \in 1..(L - 1) : R(i) <= offset /\ offset <= R(i + 1)}
      BY SegmentsOf
    <3> HIDE DEF R
    <3> QED
      BY <1>7, <2>1, <2>3, <2>4, <3>1
  <2>6. PICK i \in S :
            LET since == offset - R(i)
            IN /\ \A j \in S : i <= j
               /\ i \in 1..(L - 1) /\ since \in Nat
               /\ since <= curve[i].duration + curve[i + 1].transitionTime
               /\ mired = IF curve[i].duration > 0 /\ since <= curve[i].duration
                          THEN {at(i)}
                          ELSE Interpolate(curve[i], curve[i + 1], since, b)
    BY <2>5, Evaluates, Zenon DEF b
  <2>7. i = k - 1
    <3>1. i <= k - 1 /\ i \in 1..(L - 1)
      BY <2>5, <2>6
    <3>2. ASSUME i < k - 1 PROVE FALSE
      <4>1. i + 1 \in 1..L /\ i + 1 <= k - 1
        BY <2>1, <3>1, <3>2
      <4>2. R(i + 1) <= R(k - 1)
        BY <2>1, <4>1, ReachedInOrder
      <4>3. offset <= R(i + 1)
        <5>1. S = {l \in 1..(L - 1) : R(l) <= offset /\ offset <= R(l + 1)}
          BY SegmentsOf
        <5> QED
          BY <5>1
      <4>4. R(i + 1) \in Nat
        BY <4>1, <2>1, Reached
      <4> HIDE DEF R
      <4> QED
        BY <1>7, <2>3, <2>4, <4>2, <4>3, <4>4
    <3> QED
      BY <3>1, <3>2
  <2> DEFINE since == offset - R(k - 1)
  <2>8. mired = IF curve[k - 1].duration > 0 /\ since <= curve[k - 1].duration
                THEN {at(k - 1)}
                ELSE Interpolate(curve[k - 1], curve[k - 1 + 1], since, b)
    BY <2>6, <2>7, Zenon
  <2>9. since = curve[k - 1].duration + curve[k].transitionTime /\ since \in Int
    <3>1. offset - before = d + t /\ d + t \in Int
      <4> HIDE DEF before, d, t
      <4> QED
        BY <2>0
    <3> QED
      BY <3>1
  <2> HIDE DEF since, mired
  <2>10. /\ ~(since <= curve[k - 1].duration)
         /\ since - curve[k - 1].duration = curve[k].transitionTime
         /\ curve[k].transitionTime # 0
    <3>1. since = d + t
      BY <2>9
    <3>2. ~(since <= d) /\ since - d = t /\ t # 0
      <4> HIDE DEF d, t
      <4> QED
        BY <2>0, <3>1
    <3> QED
      BY <3>2
  <2>11. curve[k - 1] \in Point /\ curve[k] \in Point
    BY <1>2, <2>1
  <2>12. Interpolate(curve[k - 1], curve[k], since, b) = {at(k)}
    BY <1>1, <2>9, <2>10, <2>11, InterpolateEnds
  <2> QED
    BY <2>1, <2>8, <2>10, <2>12
<1>8. \A m \in mired : m \in low..high
  BY <1>4, <1>6, Zenon
<1> QED
  BY <1>7, <1>8, Zenon


-----------------------------------------------------------------------------
(* The items that the reader takes off a stream of bytes *)

Stream == Seq(Byte)

AnItem == [tag : Byte, value : Stream]

Ending == {"none", "EOF", "unexpectedEOF"}

\* The equations of itemsFrom, from the end of the stream on.
LEMMA ItemsFrom ==
    ASSUME NEW b \in Stream
    PROVE  /\ itemsFrom(b, Len(b) + 1) = [err |-> "none", items |-> <<>>]
           /\ \A p \in 1..(Len(b) - 1) : p + 1 + b[p + 1] <= Len(b) =>
                 itemsFrom(b, p) =
                    [err   |-> itemsFrom(b, p + 2 + b[p + 1]).err,
                     items |-> <<[tag |-> b[p], value |-> SubSeq(b, p + 2, p + 1 + b[p + 1])]>>
                                 \o itemsFrom(b, p + 2 + b[p + 1]).items]
           /\ \A p \in 1..(Len(b) + 1) : itemsFrom(b, p) \in [err : Ending, items : Seq(AnItem)]
<1> DEFINE N == Len(b)
           V == [err : Ending, items : Seq(AnItem)]
           End(err) == [err |-> err, items |-> <<>>]
           first(q) == [tag |-> b[q], value |-> SubSeq(b, q + 2, q + 1 + b[q + 1])]
           More(f, q) == [f[q + 2 + b[q + 1]] EXCEPT !.items = <<first(q)>> \o @]
           Turn(f, q) ==
              IF q = N + 1 THEN End("none")
              ELSE IF q = N \/ (q = N - 1 /\ b[q + 1] > 0) THEN End("EOF")
              ELSE IF q + 1 + b[q + 1] > N THEN End("unexpectedEOF")
              ELSE More(f, q)
           Def(f) == [q \in 1..(N + 1) |-> Turn(f, q)]
<1>1. N \in Nat /\ \A q \in 1..N : b[q] \in Nat /\ b[q] \in Byte
  BY LenProperties, ElementOfSeq, BaseAssumption DEF Stream, Byte
<1>2. \A e \in Ending : End(e) \in V
  BY EmptySeq
<1>3. ASSUME NEW q \in 1..(N - 1), q + 1 + b[q + 1] <= N PROVE first(q) \in AnItem
  <2>1. q \in 1..N /\ q + 1 \in 1..N
    BY <1>1
  <2>2. b[q] \in Byte /\ b[q + 1] \in Nat
    BY <1>1, <2>1
  <2>3. \A i \in (q + 2)..(q + 1 + b[q + 1]) : b[i] \in Byte
    BY <1>1, <1>3, <2>2
  <2>4. q + 2 \in Int /\ q + 1 + b[q + 1] \in Int
    BY <2>2
  <2>5. SubSeq(b, q + 2, q + 1 + b[q + 1]) \in Seq(Byte)
    BY <2>3, <2>4, SubSeqProperties
  <2> QED
    BY <2>2, <2>5 DEF AnItem, Stream
<1>4. ASSUME NEW r \in V, NEW x \in AnItem PROVE [r EXCEPT !.items = <<x>> \o @] \in V
  <2>1. r.items \in Seq(AnItem) /\ <<x>> \in Seq(AnItem)
    OBVIOUS
  <2>2. <<x>> \o r.items \in Seq(AnItem)
    BY <2>1, ConcatProperties
  <2> QED
    BY <2>2
<1> HIDE DEF N, V, End, first
\* One turn needs what comes later in the stream only.
<1>5. ASSUME NEW f, NEW q \in 1..(N + 1),
             \A p \in 1..(N + 1) : q < p => f[p] \in V
      PROVE  Turn(f, q) \in V
  <2>1. CASE q = N + 1 \/ q = N \/ (q = N - 1 /\ b[q + 1] > 0) \/ q + 1 + b[q + 1] > N
    BY <1>2, <2>1, Zenon DEF Ending
  <2>2. CASE ~(q = N + 1 \/ q = N \/ (q = N - 1 /\ b[q + 1] > 0) \/ q + 1 + b[q + 1] > N)
    <3>1. q \in 1..(N - 1) /\ q + 1 \in 1..N
      BY <1>1, <2>2
    <3>2. b[q + 1] \in Nat
      BY <1>1, <3>1
    <3>3. q + 1 + b[q + 1] <= N /\ q + 2 + b[q + 1] \in 1..(N + 1) /\ q < q + 2 + b[q + 1]
      BY <1>1, <2>2, <3>1, <3>2
    <3>4. More(f, q) \in V
      BY <1>3, <1>4, <1>5, <3>1, <3>3
    <3>5. Turn(f, q) = More(f, q)
      BY <2>2, Zenon
    <3> QED
      BY <3>4, <3>5, Zenon
  <2> QED
    BY <2>1, <2>2
<1>6. ASSUME NEW f, NEW g, NEW q \in 1..(N + 1),
             \A p \in 1..(N + 1) : q < p => g[p] = f[p]
      PROVE  Turn(g, q) = Turn(f, q)
  <2>1. CASE q = N + 1 \/ q = N \/ (q = N - 1 /\ b[q + 1] > 0) \/ q + 1 + b[q + 1] > N
    BY <2>1, Zenon
  <2>2. CASE ~(q = N + 1 \/ q = N \/ (q = N - 1 /\ b[q + 1] > 0) \/ q + 1 + b[q + 1] > N)
    <3>1. q \in 1..(N - 1) /\ q + 1 \in 1..N
      BY <1>1, <2>2
    <3>2. b[q + 1] \in Nat
      BY <1>1, <3>1
    <3>3. q + 2 + b[q + 1] \in 1..(N + 1) /\ q < q + 2 + b[q + 1]
      BY <1>1, <2>2, <3>1, <3>2
    <3>4. g[q + 2 + b[q + 1]] = f[q + 2 + b[q + 1]]
      BY <1>6, <3>3
    <3> QED
      BY <3>4, Zenon
  <2> QED
    BY <2>1, <2>2
<1> HIDE DEF Turn
<1>7. \E f \in [1..(N + 1) -> V] : f = Def(f)
  <2> DEFINE Has(m) == \E f \in [(N + 1 - m)..(N + 1) -> V] :
                          \A q \in (N + 1 - m)..(N + 1) : f[q] = Turn(f, q)
             S == {m \in Nat : m <= N => Has(m)}
  <2>1. 0 \in S
    <3> DEFINE f == [q \in (N + 1)..(N + 1) |-> Turn(<<>>, N + 1)]
    <3>1. Turn(<<>>, N + 1) \in V
      BY <1>1, <1>5
    <3>2. f \in [(N + 1)..(N + 1) -> V] /\ f[N + 1] = Turn(<<>>, N + 1)
      BY <1>1, <3>1
    <3> HIDE DEF f
    <3>3. Turn(f, N + 1) = Turn(<<>>, N + 1)
      BY <1>1, <1>6
    <3>4. \A q \in (N + 1)..(N + 1) : f[q] = Turn(f, q)
      BY <1>1, <3>2, <3>3
    <3>5. N + 1 - 0 = N + 1
      BY <1>1
    <3>6. Has(0)
      BY <3>2, <3>4, <3>5
    <3> QED
      BY <3>6
  <2>2. ASSUME NEW m \in S PROVE m + 1 \in S
    <3> SUFFICES ASSUME m + 1 <= N PROVE Has(m + 1)
      OBVIOUS
    <3>1. m \in Nat /\ m <= N /\ N - m \in 1..(N + 1) /\ N + 1 - (m + 1) = N - m
      BY <1>1
    <3>2. PICK f \in [(N + 1 - m)..(N + 1) -> V] :
              \A q \in (N + 1 - m)..(N + 1) : f[q] = Turn(f, q)
      BY <3>1
    <3> DEFINE g == [q \in (N - m)..(N + 1) |-> IF q = N - m THEN Turn(f, N - m) ELSE f[q]]
    <3>3. \A q \in 1..(N + 1) : N - m < q => q \in (N + 1 - m)..(N + 1) /\ q \in (N - m)..(N + 1) /\ q # N - m
      BY <1>1, <3>1
    <3>4. \A q \in 1..(N + 1) : N - m < q => f[q] \in V /\ g[q] = f[q]
      BY <3>2, <3>3
    <3>5. Turn(f, N - m) \in V
      BY <1>5, <3>1, <3>4
    <3>6. g[N - m] = Turn(f, N - m)
      BY <1>1, <3>1
    <3>7. g \in [(N - m)..(N + 1) -> V]
      <4> SUFFICES ASSUME NEW q \in (N - m)..(N + 1) PROVE g[q] \in V
        BY Zenon
      <4>1. q = N - m \/ (q \in 1..(N + 1) /\ N - m < q)
        BY <1>1, <3>1
      <4> HIDE DEF g
      <4> QED
        BY <3>4, <3>5, <3>6, <4>1
    <3> HIDE DEF g
    <3>8. \A q \in (N - m)..(N + 1) : g[q] = Turn(g, q)
      <4> SUFFICES ASSUME NEW q \in (N - m)..(N + 1) PROVE g[q] = Turn(g, q)
        OBVIOUS
      <4>1. q \in 1..(N + 1) /\ N - m <= q
        BY <1>1, <3>1
      <4>2. \A p \in 1..(N + 1) : q < p => g[p] = f[p]
        BY <1>1, <3>1, <3>4, <4>1
      <4>3. Turn(g, q) = Turn(f, q)
        BY <1>6, <4>1, <4>2
      <4>4. q # N - m => g[q] = f[q] /\ f[q] = Turn(f, q)
        BY <1>1, <3>1, <3>2, <3>3, <3>4, <4>1
      <4> QED
        BY <3>6, <4>3, <4>4
    <3> QED
      BY <3>1, <3>7, <3>8
  <2>3. S = Nat
    <3>1. S \in SUBSET Nat
      OBVIOUS
    <3> HIDE DEF S
    <3> QED
      BY <2>1, <2>2, <3>1, Induction, Zenon
  <2>4. Has(N)
    <3>1. N \in S
      <4> HIDE DEF S
      <4> QED
        BY <1>1, <2>3
    <3> QED
      BY <1>1, <3>1
  <2>5. N + 1 - N = 1
    BY <1>1
  <2>6. PICK f \in [1..(N + 1) -> V] : \A q \in 1..(N + 1) : f[q] = Turn(f, q)
    BY <2>4, <2>5
  <2>7. f = Def(f)
    BY <2>6
  <2> QED
    BY <2>7
<1> DEFINE h == CHOOSE from : from = Def(from)
<1>8. h = Def(h)
  BY <1>7, Zenon
<1>9. \A p : itemsFrom(b, p) = h[p]
  BY Zenon DEF itemsFrom, Turn, N, End, first
<1> HIDE DEF h
<1>10. \A q \in 1..(N + 1) : h[q] = Turn(h, q)
  BY <1>8, Zenon
<1>11. \A q \in 1..(N + 1) : h[q] \in V
  <2> DEFINE S == {m \in Nat : m <= N => \A q \in (N + 1 - m)..(N + 1) : h[q] \in V}
  <2>1. 0 \in S
    BY <1>1, <1>5, <1>10
  <2>2. ASSUME NEW m \in S PROVE m + 1 \in S
    <3> SUFFICES ASSUME m + 1 <= N, NEW q \in (N - m)..(N + 1) PROVE h[q] \in V
      BY <1>1
    <3>1. m <= N /\ q \in 1..(N + 1) /\ (q = N - m \/ q \in (N + 1 - m)..(N + 1))
      BY <1>1
    <3>2. \A p \in 1..(N + 1) : N - m < p => h[p] \in V
      BY <1>1, <3>1
    <3> QED
      BY <1>5, <1>10, <3>1, <3>2
  <2>3. S = Nat
    <3>1. S \in SUBSET Nat
      OBVIOUS
    <3> HIDE DEF S
    <3> QED
      BY <2>1, <2>2, <3>1, Induction, Zenon
  <2>4. N \in S
    <3> HIDE DEF S
    <3> QED
      BY <1>1, <2>3
  <2>5. N + 1 - N = 1
    BY <1>1
  <2> QED
    BY <1>1, <2>4, <2>5
<1>12. h[N + 1] = End("none")
  <2>1. Turn(h, N + 1) = End("none")
    BY Zenon DEF Turn
  <2>2. N + 1 \in 1..(N + 1)
    BY <1>1
  <2> QED
    BY <1>10, <2>1, <2>2, Zenon
<1>13. ASSUME NEW p \in 1..(N - 1), p + 1 + b[p + 1] <= N
       PROVE  h[p] = [err   |-> h[p + 2 + b[p + 1]].err,
                      items |-> <<first(p)>> \o h[p + 2 + b[p + 1]].items]
  <2>1. p \in 1..(N + 1) /\ p # N + 1 /\ p # N /\ p + 1 \in 1..N
    BY <1>1
  <2>2. b[p + 1] \in Nat
    BY <1>1, <2>1
  <2>3. ~(p = N - 1 /\ b[p + 1] > 0) /\ ~(p + 1 + b[p + 1] > N) /\ p + 2 + b[p + 1] \in 1..(N + 1)
    BY <1>1, <1>13, <2>2
  <2>4. h[p] = More(h, p)
    BY <1>10, <2>1, <2>3, Zenon DEF Turn
  <2>5. h[p + 2 + b[p + 1]] \in V
    BY <1>11, <2>3
  <2> QED
    BY <2>4, <2>5 DEF V
<1> QED
  BY <1>9, <1>11, <1>12, <1>13 DEF N, V, End, first


\* x are the items of the bytes s, wherever these are in a stream.
ItemsOf(s, x) ==
    \A pre, post \in Stream :
        LET b == (pre \o s) \o post
            rest == itemsFrom(b, Len(pre) + Len(s) + 1)
        IN itemsFrom(b, Len(pre) + 1) = [err |-> rest.err, items |-> x \o rest.items]

LEMMA Joined ==
    ASSUME NEW r \in Stream, NEW s \in Stream
    PROVE  r \o s \in Stream /\ Len(r) \in Nat /\ Len(s) \in Nat /\ Len(r \o s) = Len(r) + Len(s)
BY ConcatProperties, LenProperties DEF Stream

LEMMA NoItems == ItemsOf(<<>>, <<>>)
<1> SUFFICES ASSUME NEW pre \in Stream, NEW post \in Stream
             PROVE  LET b == (pre \o <<>>) \o post
                        rest == itemsFrom(b, Len(pre) + Len(<<>>) + 1)
                    IN itemsFrom(b, Len(pre) + 1) = [err |-> rest.err, items |-> <<>> \o rest.items]
  BY Zenon DEF ItemsOf
<1> DEFINE b == (pre \o <<>>) \o post
           rest == itemsFrom(b, Len(pre) + 1)
<1>1. b = pre \o post /\ b \in Stream /\ Len(b) = Len(pre) + Len(post) /\ Len(pre) \in Nat /\ Len(post) \in Nat
  BY ConcatEmptySeq, Joined DEF Stream
<1>2. Len(pre) + 1 \in 1..(Len(b) + 1)
  BY <1>1
<1>3. rest \in [err : Ending, items : Seq(AnItem)]
  BY <1>1, <1>2, ItemsFrom
<1> HIDE DEF rest
<1>4. rest = [err |-> rest.err, items |-> <<>> \o rest.items]
  BY <1>3, ConcatEmptySeq
<1>5. Len(pre) + Len(<<>>) + 1 = Len(pre) + 1
  BY <1>1, EmptySeq
<1> QED
  BY <1>4, <1>5, Zenon DEF rest

LEMMA OneItem ==
    ASSUME NEW t \in Byte, NEW v \in Stream, Len(v) <= Fragment
    PROVE  Item(t, v) \in Stream /\ ItemsOf(Item(t, v), <<[tag |-> t, value |-> v]>>)
<1> DEFINE n == Len(v)
<1>1. n \in Nat /\ n \in Byte /\ \A i \in 1..n : v[i] \in Byte
  BY LenProperties, ElementOfSeq, FragmentAssumption, BaseAssumption DEF Stream, Byte
<1>2. /\ Item(t, v) \in Stream /\ Len(Item(t, v)) = n + 2
      /\ Item(t, v)[1] = t /\ Item(t, v)[2] = n
      /\ \A i \in 1..n : Item(t, v)[i + 2] = v[i]
  <2> DEFINE s == <<t, n>>
  <2>1. s \in Seq(Byte) /\ Len(s) = 2 /\ s[1] = t /\ s[2] = n
    BY <1>1
  <2> HIDE DEF s
  <2>2. /\ s \o v \in Seq(Byte) /\ Len(s \o v) = n + 2
        /\ \A i \in 1..(2 + n) : (s \o v)[i] = IF i <= 2 THEN s[i] ELSE v[i - 2]
    <3>1. /\ s \o v \in Seq(Byte) /\ Len(s \o v) = Len(s) + Len(v)
          /\ \A i \in 1..(Len(s) + Len(v)) : (s \o v)[i] = IF i <= Len(s) THEN s[i] ELSE v[i - Len(s)]
      BY <2>1, ConcatProperties, Zenon DEF Stream
    <3>2. /\ s \o v \in Seq(Byte) /\ Len(s \o v) = 2 + n
          /\ \A i \in 1..(2 + n) : (s \o v)[i] = IF i <= 2 THEN s[i] ELSE v[i - 2]
      BY <2>1, <3>1, Zenon
    <3>3. 2 + n = n + 2
      BY <1>1
    <3> QED
      BY <3>2, <3>3, Zenon
  <2>3. (s \o v)[1] = t /\ (s \o v)[2] = n
    BY <1>1, <2>1, <2>2
  <2>4. ASSUME NEW i \in 1..n PROVE (s \o v)[i + 2] = v[i]
    <3>1. i + 2 \in 1..(2 + n) /\ ~(i + 2 <= 2) /\ i + 2 - 2 = i
      BY <1>1
    <3> QED
      BY <2>2, <3>1
  <2> QED
    BY <2>2, <2>3, <2>4 DEF Item, s, Stream
<1>3. SUFFICES ASSUME NEW pre \in Stream, NEW post \in Stream
               PROVE  LET b == (pre \o Item(t, v)) \o post
                          rest == itemsFrom(b, Len(pre) + Len(Item(t, v)) + 1)
                      IN itemsFrom(b, Len(pre) + 1) =
                            [err |-> rest.err, items |-> <<[tag |-> t, value |-> v]>> \o rest.items]
  BY <1>2, Zenon DEF ItemsOf
<1> DEFINE s == Item(t, v)
           b == (pre \o s) \o post
           l == Len(pre)
           m == Len(post)
           p == l + 1
<1>4. s \in Stream /\ Len(s) = n + 2 /\ s[1] = t /\ s[2] = n /\ \A i \in 1..n : s[i + 2] = v[i]
  BY <1>2
<1> HIDE DEF s
<1>5. /\ l \in Nat /\ m \in Nat /\ pre \o s \in Stream /\ Len(pre \o s) = l + n + 2
      /\ b \in Stream /\ Len(b) = l + n + 2 + m
  <2>1. pre \o s \in Stream /\ Len(pre \o s) = l + Len(s) /\ l \in Nat /\ m \in Nat
    BY <1>4, Joined
  <2>2. b \in Stream /\ Len(b) = Len(pre \o s) + m
    BY <2>1, Joined
  <2> QED
    BY <1>1, <1>4, <2>1, <2>2
<1>6. \A i \in 1..(n + 2) : b[l + i] = s[i]
  <2> SUFFICES ASSUME NEW i \in 1..(n + 2) PROVE b[l + i] = s[i]
    OBVIOUS
  <2>1. l + i \in 1..(Len(pre \o s) + m) /\ l + i <= Len(pre \o s)
    BY <1>1, <1>5
  <2>2. b[l + i] = (pre \o s)[l + i]
    BY <1>5, <2>1, ConcatProperties DEF Stream
  <2>3. l + i \in 1..(l + Len(s)) /\ ~(l + i <= l) /\ l + i - l = i
    BY <1>1, <1>4, <1>5
  <2>4. (pre \o s)[l + i] = s[i]
    BY <1>4, <2>3, ConcatProperties DEF Stream
  <2> QED
    BY <2>2, <2>4
<1> HIDE DEF b, l, m
<1>7. b[p] = t /\ b[p + 1] = n
  <2>1. p + 1 = l + 2 /\ 1 \in 1..(n + 2) /\ 2 \in 1..(n + 2)
    BY <1>1, <1>5
  <2> QED
    BY <1>4, <1>6, <2>1
<1>8. SubSeq(b, p + 2, p + 1 + n) = v
  <2>1. \A i \in 1..n : b[p + 2 + i - 1] = v[i]
    <3> SUFFICES ASSUME NEW i \in 1..n PROVE b[p + 2 + i - 1] = v[i]
      OBVIOUS
    <3>1. p + 2 + i - 1 = l + (i + 2) /\ i + 2 \in 1..(n + 2)
      BY <1>1, <1>5
    <3> QED
      BY <1>4, <1>6, <3>1
  <2>2. \A i \in (p + 2)..(p + 1 + n) : b[i] \in Byte
    BY <1>1, <1>5, ElementOfSeq DEF Stream
  <2>3. /\ p + 2 \in Int /\ p + 1 + n \in Int /\ p + 1 + n - (p + 2) + 1 = n
        /\ (IF p + 2 <= p + 1 + n THEN p + 1 + n - (p + 2) + 1 ELSE 0) = n
    BY <1>1, <1>5
  <2> DEFINE w == SubSeq(b, p + 2, p + 1 + n)
  <2>4. w \in Seq(Byte) /\ Len(w) = n /\ \A i \in 1..n : w[i] = b[p + 2 + i - 1]
    <3> DEFINE from == p + 2
               to == p + 1 + n
    <3> HIDE DEF from, to
    <3>1. from \in Int /\ to \in Int /\ \A i \in from..to : b[i] \in Byte
      BY <2>2, <2>3 DEF from, to
    <3>2. /\ SubSeq(b, from, to) \in Seq(Byte)
          /\ Len(SubSeq(b, from, to)) = IF from <= to THEN to - from + 1 ELSE 0
          /\ \A i \in 1..(to - from + 1) : SubSeq(b, from, to)[i] = b[from + i - 1]
      BY <3>1, SubSeqProperties
    <3>3. (IF from <= to THEN to - from + 1 ELSE 0) = n /\ to - from + 1 = n
      BY <1>1, <1>5 DEF from, to
    <3> QED
      BY <3>2, <3>3, Zenon DEF from, to
  <2> HIDE DEF w
  <2>5. w = v
    BY <2>1, <2>4, SeqEqual DEF Stream
  <2> QED
    BY <2>5 DEF w
<1>9. p \in 1..(Len(b) - 1) /\ p + 1 + n <= Len(b) /\ p + 2 + n = l + (n + 2) + 1
  BY <1>1, <1>5
<1> DEFINE rest == itemsFrom(b, l + (n + 2) + 1)
<1> HIDE DEF p, n
<1>10. itemsFrom(b, p) = [err |-> rest.err, items |-> <<[tag |-> t, value |-> v]>> \o rest.items]
  <2>1. itemsFrom(b, p) =
           [err   |-> itemsFrom(b, p + 2 + b[p + 1]).err,
            items |-> <<[tag |-> b[p], value |-> SubSeq(b, p + 2, p + 1 + b[p + 1])]>>
                        \o itemsFrom(b, p + 2 + b[p + 1]).items]
    BY <1>5, <1>7, <1>9, ItemsFrom
  <2> QED
    BY <1>7, <1>8, <1>9, <2>1, Zenon
<1>11. Len(Item(t, v)) = n + 2
  BY <1>4 DEF s
<1> QED
  BY <1>10, <1>11 DEF b, s, l, p

LEMMA ItemsJoined ==
    ASSUME NEW r \in Stream, NEW s \in Stream, NEW x \in Seq(AnItem), NEW y \in Seq(AnItem),
           ItemsOf(r, x), ItemsOf(s, y)
    PROVE  ItemsOf(r \o s, x \o y)
<1> SUFFICES ASSUME NEW pre \in Stream, NEW post \in Stream
             PROVE  LET b == (pre \o (r \o s)) \o post
                        rest == itemsFrom(b, Len(pre) + Len(r \o s) + 1)
                    IN itemsFrom(b, Len(pre) + 1) =
                          [err |-> rest.err, items |-> (x \o y) \o rest.items]
  BY Zenon DEF ItemsOf
<1> DEFINE b == (pre \o (r \o s)) \o post
           middle == itemsFrom(b, Len(pre) + Len(r) + 1)
           rest == itemsFrom(b, Len(pre) + Len(r \o s) + 1)
<1>1. pre \o r \in Stream /\ s \o post \in Stream
  BY Joined
<1>2. b = (pre \o r) \o (s \o post) /\ b = ((pre \o r) \o s) \o post
  <2>1. pre \o (r \o s) = (pre \o r) \o s
    BY DEF Stream
  <2>2. ((pre \o r) \o s) \o post = (pre \o r) \o (s \o post)
    BY <1>1 DEF Stream
  <2> QED
    BY <2>1, <2>2
<1>3. /\ Len(r \o s) = Len(r) + Len(s) /\ Len(pre \o r) = Len(pre) + Len(r)
      /\ Len(pre) \in Nat /\ Len(r) \in Nat /\ Len(s) \in Nat /\ Len(post) \in Nat
      /\ b \in Stream /\ Len(b) = Len(pre) + (Len(r) + Len(s)) + Len(post)
  <2>1. r \o s \in Stream /\ Len(r \o s) = Len(r) + Len(s)
    BY Joined
  <2>2. pre \o (r \o s) \in Stream /\ Len(pre \o (r \o s)) = Len(pre) + Len(r \o s)
    BY <2>1, Joined
  <2>3. b \in Stream /\ Len(b) = Len(pre \o (r \o s)) + Len(post)
    BY <2>2, Joined
  <2> QED
    BY <2>1, <2>2, <2>3, Joined
<1> HIDE DEF b
<1>4. itemsFrom(b, Len(pre) + 1) = [err |-> middle.err, items |-> x \o middle.items]
  BY <1>1, <1>2, Zenon DEF ItemsOf
<1>5. middle = [err |-> rest.err, items |-> y \o rest.items]
  <2>1. LET last == itemsFrom(b, Len(pre \o r) + Len(s) + 1)
        IN itemsFrom(b, Len(pre \o r) + 1) = [err |-> last.err, items |-> y \o last.items]
    BY <1>1, <1>2, Zenon DEF ItemsOf
  <2>2. Len(pre \o r) + Len(s) + 1 = Len(pre) + Len(r \o s) + 1 /\ Len(pre \o r) + 1 = Len(pre) + Len(r) + 1
    BY <1>3
  <2> QED
    BY <2>1, <2>2, Zenon
<1>6. rest.items \in Seq(AnItem)
  <2>1. Len(pre) + Len(r \o s) + 1 \in 1..(Len(b) + 1)
    BY <1>3
  <2>2. rest \in [err : Ending, items : Seq(AnItem)]
    BY <1>3, <2>1, ItemsFrom
  <2> QED
    BY <2>2
<1> HIDE DEF middle, rest
<1>7. middle.err = rest.err /\ middle.items = y \o rest.items
  BY <1>5
<1>8. (x \o y) \o rest.items = x \o (y \o rest.items)
  <2> DEFINE z == rest.items
  <2> HIDE DEF z
  <2>1. z \in Seq(AnItem)
    BY <1>6 DEF z
  <2>2. (x \o y) \o z = x \o (y \o z)
    BY <2>1
  <2> QED
    BY <2>2 DEF z
<1>9. itemsFrom(b, Len(pre) + 1) = [err |-> rest.err, items |-> (x \o y) \o rest.items]
  BY <1>4, <1>7, <1>8
<1> QED
  BY <1>9 DEF b, rest

LEMMA ItemsOfWhole ==
    ASSUME NEW s \in Stream, NEW x \in Seq(AnItem), ItemsOf(s, x)
    PROVE  itemsFrom(s, 1) = [err |-> "none", items |-> x]
<1>1. <<>> \in Stream /\ Len(<<>>) = 0 /\ (<<>> \o s) \o <<>> = s /\ Len(s) \in Nat
  BY EmptySeq, ConcatEmptySeq, LenProperties DEF Stream
<1>2. LET b == (<<>> \o s) \o <<>>
          rest == itemsFrom(b, Len(<<>>) + Len(s) + 1)
      IN itemsFrom(b, Len(<<>>) + 1) = [err |-> rest.err, items |-> x \o rest.items]
  BY <1>1, Zenon DEF ItemsOf
<1>3. Len(<<>>) + Len(s) + 1 = Len(s) + 1 /\ Len(<<>>) + 1 = 1
  BY <1>1
<1> DEFINE rest == itemsFrom(s, Len(s) + 1)
<1>4. itemsFrom(s, 1) = [err |-> rest.err, items |-> x \o rest.items]
  BY <1>1, <1>2, <1>3, Zenon
<1>5. rest = [err |-> "none", items |-> <<>>]
  BY ItemsFrom
<1> HIDE DEF rest
<1>6. rest.err = "none" /\ rest.items = <<>>
  BY <1>5
<1>7. x \o <<>> = x
  BY ConcatEmptySeq
<1> QED
  BY <1>4, <1>6, <1>7


-----------------------------------------------------------------------------
(* The buckets that items fill *)

Delimits(item) == item.tag = 0 /\ item.value = <<>>

\* f are the buckets that the items x make of h, one after the other.
FillsBy(f, x, h, after, g, last) ==
    /\ f = [i \in 0..Len(x) |-> f[i]]
    /\ f[0] = h /\ f[Len(x)] = g
    /\ \A i \in 1..Len(x) :
          f[i] = Put(f[i - 1], x[i].tag, x[i].value, IF i = 1 THEN after ELSE Delimits(x[i - 1]))
    /\ last = IF x = <<>> THEN after ELSE Delimits(x[Len(x)])

Fills(x, h, after, g, last) == \E f : FillsBy(f, x, h, after, g, last)

LEMMA FillsNothing ==
    ASSUME NEW h, NEW after
    PROVE  Fills(<<>>, h, after, h, after)
<1> DEFINE f == [i \in 0..0 |-> h]
<1>1. Len(<<>>) = 0
  OBVIOUS
<1>2. f = [i \in 0..0 |-> f[i]] /\ f[0] = h
  OBVIOUS
<1> HIDE DEF f
<1>3. FillsBy(f, <<>>, h, after, h, after)
  BY <1>1, <1>2 DEF FillsBy
<1> QED
  BY <1>3, Zenon DEF Fills

LEMMA FillsOne ==
    ASSUME NEW item, NEW h, NEW after
    PROVE  Fills(<<item>>, h, after, Put(h, item.tag, item.value, after), Delimits(item))
<1> DEFINE g == Put(h, item.tag, item.value, after)
           f == [i \in 0..1 |-> IF i = 0 THEN h ELSE g]
           x == <<item>>
<1>1. Len(x) = 1 /\ x[1] = item /\ x # <<>>
  OBVIOUS
<1> HIDE DEF g
<1>2. f = [i \in 0..1 |-> f[i]] /\ f[0] = h /\ f[1] = g
  OBVIOUS
<1> HIDE DEF f, x
<1>3. \A i \in 1..1 : f[i] = Put(f[i - 1], x[i].tag, x[i].value, IF i = 1 THEN after ELSE Delimits(x[i - 1]))
  <2> SUFFICES ASSUME NEW i \in 1..1
               PROVE  f[i] = Put(f[i - 1], x[i].tag, x[i].value, IF i = 1 THEN after ELSE Delimits(x[i - 1]))
    OBVIOUS
  <2>1. i = 1 /\ i - 1 = 0
    OBVIOUS
  <2> QED
    BY <1>1, <1>2, <2>1, Zenon DEF g
<1>4. FillsBy(f, x, h, after, g, Delimits(item))
  BY <1>1, <1>2, <1>3, Zenon DEF FillsBy
<1> QED
  BY <1>4, Zenon DEF Fills, g, x

LEMMA FillsJoined ==
    ASSUME NEW x \in Seq(AnItem), NEW y \in Seq(AnItem),
           NEW h, NEW a, NEW g, NEW b, NEW k, NEW c,
           Fills(x, h, a, g, b), Fills(y, g, b, k, c)
    PROVE  Fills(x \o y, h, a, k, c)
<1>1. PICK d : FillsBy(d, x, h, a, g, b)
  BY Zenon DEF Fills
<1>2. PICK e : FillsBy(e, y, g, b, k, c)
  BY Zenon DEF Fills
<1> DEFINE m == Len(x)
           n == Len(y)
           z == x \o y
           f == [i \in 0..(m + n) |-> IF i <= m THEN d[i] ELSE e[i - m]]
<1>3. m \in Nat /\ n \in Nat /\ Len(z) = m + n
  BY LenProperties, ConcatProperties
<1>4. \A i \in 1..(m + n) : z[i] = IF i <= m THEN x[i] ELSE y[i - m]
  BY ConcatProperties
<1>5. (m = 0 <=> x = <<>>) /\ (n = 0 <=> y = <<>>) /\ (m + n = 0 <=> z = <<>>)
  <2>1. z \in Seq(AnItem)
    BY ConcatProperties
  <2> QED
    BY <1>3, <2>1, EmptySeq
<1>6. d[0] = h /\ d[m] = g /\ e[0] = g /\ e[n] = k
  BY <1>1, <1>2, Zenon DEF FillsBy
<1>7. f = [i \in 0..(m + n) |-> f[i]]
  OBVIOUS
<1>8. \A i \in 0..m : f[i] = d[i]
  BY <1>3
<1>9. \A i \in m..(m + n) : f[i] = e[i - m]
  <2> SUFFICES ASSUME NEW i \in m..(m + n) PROVE f[i] = e[i - m]
    OBVIOUS
  <2>1. CASE i = m
    <3>1. i - m = 0 /\ i \in 0..(m + n) /\ i <= m
      BY <1>3, <2>1
    <3>2. f[i] = d[m]
      BY <2>1, <3>1
    <3> QED
      BY <1>6, <3>1, <3>2
  <2>2. CASE i # m
    BY <1>3, <2>2
  <2> QED
    BY <2>1, <2>2
<1> HIDE DEF f, z, m, n
<1>10. f[0] = h /\ f[m + n] = k
  <2> DEFINE j == m + n
  <2>1. 0 \in 0..m /\ j \in m..(m + n) /\ j - m = n
    BY <1>3
  <2> HIDE DEF j
  <2>2. f[0] = d[0] /\ f[j] = e[n]
    BY <1>8, <1>9, <2>1, Zenon
  <2> QED
    BY <1>6, <2>2, Zenon DEF j
<1>11. ASSUME NEW i \in 1..(m + n)
       PROVE  f[i] = Put(f[i - 1], z[i].tag, z[i].value, IF i = 1 THEN a ELSE Delimits(z[i - 1]))
  <2>1. CASE i <= m
    <3>1. i \in 1..m /\ i \in 0..m /\ i - 1 \in 0..m /\ (i # 1 => i - 1 \in 1..(m + n) /\ i - 1 <= m)
      BY <1>3, <2>1
    <3>2. z[i] = x[i] /\ (i # 1 => z[i - 1] = x[i - 1])
      BY <1>4, <2>1, <3>1
    <3>3. d[i] = Put(d[i - 1], x[i].tag, x[i].value, IF i = 1 THEN a ELSE Delimits(x[i - 1]))
      BY <1>1, <3>1, Zenon DEF FillsBy, m
    <3>4. f[i] = d[i] /\ f[i - 1] = d[i - 1]
      BY <1>8, <3>1, Zenon
    <3> QED
      BY <3>2, <3>3, <3>4, Zenon
  <2>2. CASE i = m + 1
    <3>1. i \in m..(m + n) /\ i - 1 \in m..(m + n) /\ i - m = 1 /\ i - 1 - m = 0 /\ 1 \in 1..n /\ ~(i <= m)
      BY <1>3, <2>2
    <3>2. f[i] = e[1] /\ f[i - 1] = e[0] /\ z[i] = y[1]
      BY <1>4, <1>9, <3>1
    <3>3. e[1] = Put(e[1 - 1], y[1].tag, y[1].value, b)
      BY <1>2, <3>1, Zenon DEF FillsBy, n
    <3>4. b = (IF i = 1 THEN a ELSE Delimits(z[i - 1]))
      <4>1. CASE m = 0
        <5>1. i = 1 /\ x = <<>>
          BY <1>5, <2>2, <4>1
        <5> QED
          BY <1>1, <5>1, Zenon DEF FillsBy
      <4>2. CASE m # 0
        <5>1. i # 1 /\ i - 1 = m /\ m \in 1..(m + n) /\ m <= m /\ x # <<>>
          BY <1>3, <1>5, <2>2, <4>2
        <5>2. z[i - 1] = x[m]
          BY <1>4, <5>1
        <5>3. b = Delimits(x[m])
          BY <1>1, <5>1, Zenon DEF FillsBy, m
        <5> QED
          BY <5>1, <5>2, <5>3, Zenon
      <4> QED
        BY <4>1, <4>2
    <3>5. 1 - 1 = 0
      OBVIOUS
    <3> QED
      BY <3>2, <3>3, <3>4, <3>5, Zenon
  <2>3. CASE i > m + 1
    <3>1. /\ i \in m..(m + n) /\ i - 1 \in m..(m + n) /\ i - 1 - m = i - m - 1
          /\ i - m \in 1..n /\ i - m # 1 /\ i # 1 /\ ~(i <= m) /\ ~(i - 1 <= m) /\ i - 1 \in 1..(m + n)
      BY <1>3, <2>3
    <3>2. f[i] = e[i - m] /\ f[i - 1] = e[i - m - 1]
      BY <1>9, <3>1
    <3>3. z[i] = y[i - m] /\ z[i - 1] = y[i - m - 1]
      BY <1>4, <3>1
    <3>4. e[i - m] = Put(e[i - m - 1], y[i - m].tag, y[i - m].value, Delimits(y[i - m - 1]))
      <4>1. \A j \in 1..n : e[j] = Put(e[j - 1], y[j].tag, y[j].value,
                                      IF j = 1 THEN b ELSE Delimits(y[j - 1]))
        BY <1>2, Zenon DEF FillsBy, n
      <4> QED
        BY <3>1, <4>1, Zenon
    <3> QED
      BY <3>1, <3>2, <3>3, <3>4, Zenon
  <2> QED
    BY <1>3, <2>1, <2>2, <2>3
<1>12. c = IF z = <<>> THEN a ELSE Delimits(z[m + n])
  <2>1. CASE n = 0
    <3>1. c = b /\ b = IF x = <<>> THEN a ELSE Delimits(x[m])
      BY <1>1, <1>2, <1>5, <2>1, Zenon DEF FillsBy, m
    <3>2. m + n = m /\ (z = <<>> <=> x = <<>>)
      BY <1>3, <1>5, <2>1
    <3>3. x # <<>> => z[m] = x[m]
      BY <1>3, <1>4, <1>5, <2>1
    <3> QED
      BY <3>1, <3>2, <3>3, Zenon
  <2>2. CASE n # 0
    <3>1. c = Delimits(y[n])
      BY <1>2, <1>5, <2>2, Zenon DEF FillsBy, n
    <3>2. z # <<>> /\ m + n \in 1..(m + n) /\ ~(m + n <= m) /\ m + n - m = n
      BY <1>3, <1>5, <2>2
    <3>3. z[m + n] = y[n]
      <4> DEFINE j == m + n
      <4>1. j \in 1..(m + n) /\ ~(j <= m) /\ j - m = n
        BY <1>3, <3>2
      <4> HIDE DEF j
      <4>2. z[j] = y[n]
        BY <1>4, <4>1, Zenon
      <4> QED
        BY <4>2 DEF j
    <3> QED
      BY <3>1, <3>2, <3>3, Zenon
  <2> QED
    BY <2>1, <2>2
<1>13. FillsBy(f, z, h, a, k, c)
  BY <1>3, <1>7, <1>10, <1>11, <1>12, Zenon DEF FillsBy
<1> QED
  BY <1>13, Zenon DEF Fills, z

LEMMA BucketsFilled ==
    ASSUME NEW x \in Seq(AnItem), NEW g, NEW last, Fills(x, NoBuckets, FALSE, g, last)
    PROVE  buckets(x) = g
<1> DEFINE n == Len(x)
           after(i) == i > 1 /\ x[i - 1].tag = 0 /\ x[i - 1].value = <<>>
           Def(h) == [i \in 0..n |-> IF i = 0 THEN NoBuckets
                                     ELSE Put(h[i - 1], x[i].tag, x[i].value, after(i))]
           h == CHOOSE k : k = Def(k)
<1>1. n \in Nat
  BY LenProperties
<1>2. PICK f : FillsBy(f, x, NoBuckets, FALSE, g, last)
  BY Zenon DEF Fills
<1>3. /\ f = [i \in 0..n |-> f[i]] /\ f[0] = NoBuckets /\ f[n] = g
      /\ \A i \in 1..n : f[i] = Put(f[i - 1], x[i].tag, x[i].value,
                                    IF i = 1 THEN FALSE ELSE Delimits(x[i - 1]))
  BY <1>2, Zenon DEF FillsBy
<1>4. \A i \in 1..n : after(i) = (IF i = 1 THEN FALSE ELSE Delimits(x[i - 1]))
  <2>1. \A i \in 1..n : i > 1 <=> i # 1
    BY <1>1
  <2> QED
    BY <2>1, Zenon DEF Delimits
<1>5. buckets(x) = h[n]
  BY Zenon DEF buckets
<1> HIDE DEF n, after
<1>6. \A i \in 0..n : f[i] = IF i = 0 THEN NoBuckets
                             ELSE Put(f[i - 1], x[i].tag, x[i].value, after(i))
  <2> SUFFICES ASSUME NEW i \in 1..n PROVE f[i] = Put(f[i - 1], x[i].tag, x[i].value, after(i))
    BY <1>1, <1>3
  <2> QED
    BY <1>3, <1>4, Zenon
<1>7. f = Def(f)
  BY <1>3, <1>6, Zenon
<1>8. h = Def(h)
  BY <1>7, Zenon
<1> HIDE DEF h
<1>9. \A i \in 0..n : h[i] = IF i = 0 THEN NoBuckets
                             ELSE Put(h[i - 1], x[i].tag, x[i].value, after(i))
  BY <1>8, Zenon
<1>10. h[n] = f[n]
  <2> DEFINE S == {i \in Nat : i <= n => h[i] = f[i]}
  <2>1. 0 \in S
    BY <1>1, <1>3, <1>9
  <2>2. ASSUME NEW i \in S PROVE i + 1 \in S
    <3> SUFFICES ASSUME i + 1 <= n PROVE h[i + 1] = f[i + 1]
      OBVIOUS
    <3>1. i + 1 \in 0..n /\ i + 1 # 0 /\ i + 1 - 1 = i /\ h[i] = f[i]
      BY <1>1
    <3> QED
      <4> DEFINE j == i + 1
      <4>1. j \in 0..n /\ j # 0 /\ h[j - 1] = f[j - 1]
        BY <3>1
      <4> HIDE DEF j
      <4>2. h[j] = Put(h[j - 1], x[j].tag, x[j].value, after(j))
        BY <1>9, <4>1, Zenon
      <4>3. f[j] = Put(f[j - 1], x[j].tag, x[j].value, after(j))
        BY <1>6, <4>1, Zenon
      <4>4. h[j] = f[j]
        BY <4>1, <4>2, <4>3, Zenon
      <4> QED
        BY <4>4 DEF j
  <2>3. S = Nat
    <3>1. S \in SUBSET Nat
      OBVIOUS
    <3> HIDE DEF S
    <3> QED
      BY <2>1, <2>2, <3>1, Induction, Zenon
  <2>4. n \in S
    <3> HIDE DEF S
    <3> QED
      BY <1>1, <2>3
  <2> QED
    BY <1>1, <2>4
<1> QED
  BY <1>3, <1>5, <1>10


-----------------------------------------------------------------------------
(* What the reader makes of bytes, in the middle of a stream *)

\* From buckets h, the bytes s make g; after and last tell whether a delimiter
\* comes right before, and whether one is at the end.
Reads(s, h, after, g, last) ==
    \E x \in Seq(AnItem) : ItemsOf(s, x) /\ Fills(x, h, after, g, last)

LEMMA ReadsNothing ==
    ASSUME NEW h, NEW after
    PROVE  Reads(<<>>, h, after, h, after)
<1>1. <<>> \in Seq(AnItem)
  BY EmptySeq
<1> QED
  BY <1>1, NoItems, FillsNothing, Zenon DEF Reads

LEMMA ReadsItem ==
    ASSUME NEW t \in Byte, NEW v \in Stream, Len(v) <= Fragment, NEW h, NEW after
    PROVE  /\ Item(t, v) \in Stream
           /\ Reads(Item(t, v), h, after, Put(h, t, v, after), t = 0 /\ v = <<>>)
<1> DEFINE item == [tag |-> t, value |-> v]
<1>1. item \in AnItem /\ item.tag = t /\ item.value = v
  BY DEF AnItem
<1> HIDE DEF item
<1>2. <<item>> \in Seq(AnItem)
  BY <1>1
<1>3. Item(t, v) \in Stream /\ ItemsOf(Item(t, v), <<item>>)
  BY OneItem DEF item
<1>4. Fills(<<item>>, h, after, Put(h, t, v, after), Delimits(item))
  BY <1>1, FillsOne, Zenon
<1>5. Delimits(item) = (t = 0 /\ v = <<>>)
  BY <1>1, Zenon DEF Delimits
<1> QED
  BY <1>2, <1>3, <1>4, <1>5, Zenon DEF Reads

LEMMA ReadsJoined ==
    ASSUME NEW r \in Stream, NEW s \in Stream,
           NEW h, NEW a, NEW g, NEW b, NEW k, NEW c,
           Reads(r, h, a, g, b), Reads(s, g, b, k, c)
    PROVE  Reads(r \o s, h, a, k, c)
<1>1. PICK x \in Seq(AnItem) : ItemsOf(r, x) /\ Fills(x, h, a, g, b)
  BY Zenon DEF Reads
<1>2. PICK y \in Seq(AnItem) : ItemsOf(s, y) /\ Fills(y, g, b, k, c)
  BY Zenon DEF Reads
<1>3. ItemsOf(r \o s, x \o y)
  BY <1>1, <1>2, ItemsJoined
<1>4. Fills(x \o y, h, a, k, c)
  BY <1>1, <1>2, FillsJoined
<1>5. x \o y \in Seq(AnItem)
  BY ConcatProperties
<1> QED
  BY <1>3, <1>4, <1>5, Zenon DEF Reads

LEMMA ReadWhole ==
    ASSUME NEW s \in Stream, NEW g, NEW last, Reads(s, NoBuckets, FALSE, g, last)
    PROVE  read(s) = [err |-> "none", h |-> g]
<1>1. PICK x \in Seq(AnItem) : ItemsOf(s, x) /\ Fills(x, NoBuckets, FALSE, g, last)
  BY Zenon DEF Reads
<1>2. itemsFrom(s, 1) = [err |-> "none", items |-> x]
  BY <1>1, ItemsOfWhole
<1>3. itemsFrom(s, 1).err = "none" /\ itemsFrom(s, 1).items = x
  BY <1>2
<1>4. buckets(x) = g
  BY <1>1, BucketsFilled
<1>5. CASE s = <<>>
  <2>1. itemsFrom(s, 1) = [err |-> "none", items |-> <<>>]
    <3>1. Len(s) + 1 = 1
      BY <1>5
    <3> QED
      BY <3>1, ItemsFrom
  <2>2. x = <<>>
    BY <1>3, <2>1
  <2>3. Fills(<<>>, NoBuckets, FALSE, NoBuckets, FALSE)
    BY FillsNothing
  <2>4. buckets(<<>>) = NoBuckets
    BY <2>3, BucketsFilled, EmptySeq
  <2>5. read(s) = [err |-> "none", h |-> NoBuckets]
    BY <1>3, <1>5, Zenon DEF read
  <2> QED
    BY <1>4, <2>2, <2>4, <2>5, Zenon
<1>6. CASE s # <<>>
  BY <1>3, <1>4, <1>6, Zenon DEF read
<1> QED
  BY <1>5, <1>6

\* FlattenSeq is what joins one after the other.
LEMMA Flattened ==
    ASSUME NEW T, NEW seqs \in Seq(Seq(T)), Len(seqs) # 0
    PROVE  \E flat \in [1..Len(seqs) -> Seq(T)] :
              /\ flat[1] = seqs[1]
              /\ \A i \in 2..Len(seqs) : flat[i] = flat[i - 1] \o seqs[i]
              /\ FlattenSeq(seqs) = flat[Len(seqs)]
<1> DEFINE n == Len(seqs)
           V == Seq(T)
           next == [p \in Nat \X V |-> IF p[1] + 2 <= n THEN p[2] \o seqs[p[1] + 2] ELSE p[2]]
           Def(f) == [i \in 1..n |-> IF i = 1 THEN seqs[i] ELSE f[i - 1] \o seqs[i]]
<1>1. n \in Nat \ {0} /\ \A i \in 1..n : seqs[i] \in V
  BY LenProperties, ElementOfSeq
<1>2. \A x, y \in V : x \o y \in V
  BY ConcatProperties
<1> HIDE DEF n, V
<1>3. next \in [Nat \X V -> V]
  <2> SUFFICES ASSUME NEW p \in Nat \X V
               PROVE  (IF p[1] + 2 <= n THEN p[2] \o seqs[p[1] + 2] ELSE p[2]) \in V
    OBVIOUS
  <2>1. p[1] \in Nat /\ p[2] \in V /\ (p[1] + 2 <= n => p[1] + 2 \in 1..n)
    BY <1>1
  <2> QED
    BY <1>1, <1>2, <2>1
<1> HIDE DEF next
<1>4. PICK f \in [0..(n - 1) -> V] : Iterates(f, seqs[1], next, n - 1)
  <2>1. n - 1 \in Nat /\ seqs[1] \in V
    BY <1>1
  <2> QED
    BY <1>3, <2>1, Recursion, Zenon
<1>5. f[0] = seqs[1] /\ \A i \in 1..(n - 1) : f[i] = f[i - 1] \o seqs[i + 1]
  <2> SUFFICES ASSUME NEW i \in 1..(n - 1) PROVE f[i] = f[i - 1] \o seqs[i + 1]
    BY <1>4 DEF Iterates
  <2>1. i - 1 \in Nat /\ i - 1 \in 0..(n - 1) /\ i - 1 + 2 = i + 1 /\ i + 1 <= n
    BY <1>1
  <2>2. f[i - 1] \in V
    BY <2>1
  <2>3. next[<<i - 1, f[i - 1]>>] = f[i - 1] \o seqs[i - 1 + 2]
    <3> DEFINE p == <<i - 1, f[i - 1]>>
    <3>1. p \in Nat \X V /\ p[1] = i - 1 /\ p[2] = f[i - 1]
      BY <2>1, <2>2
    <3> HIDE DEF p
    <3>2. p[1] + 2 <= n
      BY <2>1, <3>1
    <3>3. next[p] = p[2] \o seqs[p[1] + 2]
      BY <3>1, <3>2, Zenon DEF next
    <3> QED
      BY <3>1, <3>3, Zenon DEF p
  <2>4. f[i] = next[<<i - 1, f[i - 1]>>]
    BY <1>4 DEF Iterates
  <2> QED
    BY <2>1, <2>3, <2>4, Zenon
<1> DEFINE g == [i \in 1..n |-> f[i - 1]]
<1>6. \A i \in 1..n : g[i] = IF i = 1 THEN seqs[i] ELSE g[i - 1] \o seqs[i]
  <2> SUFFICES ASSUME NEW i \in 1..n PROVE g[i] = IF i = 1 THEN seqs[i] ELSE g[i - 1] \o seqs[i]
    OBVIOUS
  <2>1. CASE i = 1
    BY <1>1, <1>5, <2>1
  <2>2. CASE i # 1
    <3>1. i - 1 \in 1..(n - 1) /\ i - 1 \in 1..n /\ i - 1 + 1 = i
      BY <1>1, <2>2
    <3>2. g[i] = f[i - 1] /\ g[i - 1] = f[i - 1 - 1]
      BY <3>1
    <3>3. f[i - 1] = f[i - 1 - 1] \o seqs[i - 1 + 1]
      BY <1>5, <3>1, Zenon
    <3> HIDE DEF g
    <3> QED
      BY <2>2, <3>1, <3>2, <3>3, Zenon
  <2> QED
    BY <2>1, <2>2
<1>7. g = Def(g)
  BY <1>6, Zenon
<1> HIDE DEF g
<1> DEFINE h == CHOOSE flatten : flatten = Def(flatten)
<1>8. h = Def(h)
  BY <1>7, Zenon
<1>9. FlattenSeq(seqs) = h[n]
  BY <1>1, Zenon DEF FlattenSeq, n
<1> HIDE DEF h
<1>10. \A i \in 1..n : h[i] = IF i = 1 THEN seqs[i] ELSE h[i - 1] \o seqs[i]
  BY <1>8, Zenon
<1>11. h[1] = seqs[1] /\ \A i \in 2..n : h[i] = h[i - 1] \o seqs[i]
  <2>1. 1 \in 1..n /\ \A i \in 2..n : i \in 1..n /\ i # 1
    BY <1>1
  <2> QED
    BY <1>10, <2>1, Zenon
<1>12. \A i \in 1..n : h[i] \in V
  <2> DEFINE S == {i \in Nat : i + 1 <= n => h[i + 1] \in V}
  <2>1. 0 \in S
    BY <1>1, <1>11
  <2>2. ASSUME NEW i \in S PROVE i + 1 \in S
    <3> SUFFICES ASSUME i + 1 + 1 <= n PROVE h[i + 1 + 1] \in V
      OBVIOUS
    <3> DEFINE j == i + 1 + 1
    <3>1. j \in 2..n /\ j - 1 = i + 1 /\ j \in 1..n /\ h[i + 1] \in V
      BY <1>1
    <3> HIDE DEF j
    <3>2. h[j] = h[j - 1] \o seqs[j] /\ h[j - 1] \in V /\ seqs[j] \in V
      BY <1>1, <1>11, <3>1, Zenon
    <3>3. h[j] \in V
      BY <1>2, <3>2, Zenon
    <3> QED
      BY <3>3 DEF j
  <2>3. S = Nat
    <3>1. S \in SUBSET Nat
      OBVIOUS
    <3> HIDE DEF S
    <3> QED
      BY <2>1, <2>2, <3>1, Induction, Zenon
  <2> SUFFICES ASSUME NEW i \in 1..n PROVE h[i] \in V
    OBVIOUS
  <2>4. i - 1 \in Nat /\ i - 1 + 1 = i /\ i <= n
    BY <1>1
  <2>5. i - 1 \in S
    <3> HIDE DEF S
    <3> QED
      BY <2>3, <2>4
  <2> QED
    BY <2>4, <2>5
<1> DEFINE flat == [i \in 1..n |-> h[i]]
<1>13. flat \in [1..n -> V] /\ \A i \in 1..n : flat[i] = h[i]
  BY <1>12
<1> HIDE DEF flat
<1>14. \A i \in 2..n : flat[i] = flat[i - 1] \o seqs[i]
  <2>1. \A i \in 2..n : i \in 1..n /\ i - 1 \in 1..n
    BY <1>1
  <2> QED
    BY <1>11, <1>13, <2>1, Zenon
<1>15. flat[1] = seqs[1] /\ FlattenSeq(seqs) = flat[n]
  <2>1. 1 \in 1..n /\ n \in 1..n
    BY <1>1
  <2> QED
    BY <1>9, <1>11, <1>13, <2>1, Zenon
<1> QED
  BY <1>13, <1>14, <1>15, Zenon DEF n, V

\* Bytes that are read one after the other, with buckets h[i] and last[i] then.
LEMMA ReadsFlattened ==
    ASSUME NEW seqs \in Seq(Stream), NEW h, NEW last,
           \A i \in 1..Len(seqs) : Reads(seqs[i], h[i - 1], last[i - 1], h[i], last[i])
    PROVE  /\ FlattenSeq(seqs) \in Stream
           /\ Reads(FlattenSeq(seqs), h[0], last[0], h[Len(seqs)], last[Len(seqs)])
<1> DEFINE n == Len(seqs)
<1>1. n \in Nat /\ \A i \in 1..n : seqs[i] \in Stream
  BY LenProperties, ElementOfSeq
<1>2. CASE n = 0
  <2>1. seqs = <<>>
    BY <1>2, EmptySeq
  <2>2. FlattenSeq(seqs) = <<>>
    BY <1>2, <2>1, Zenon DEF FlattenSeq
  <2>3. <<>> \in Stream
    BY EmptySeq DEF Stream
  <2> QED
    BY <1>2, <2>2, <2>3, ReadsNothing, Zenon
<1>3. CASE n # 0
  <2>1. PICK flat \in [1..n -> Stream] :
            /\ flat[1] = seqs[1]
            /\ \A i \in 2..n : flat[i] = flat[i - 1] \o seqs[i]
            /\ FlattenSeq(seqs) = flat[n]
    BY <1>3, Flattened DEF Stream
  <2> HIDE DEF n
  <2> DEFINE R(i) == Reads(flat[i], h[0], last[0], h[i], last[i])
             S == {i \in Nat : i + 1 <= n => R(i + 1)}
  <2>2. 0 \in S
    <3>1. 1 \in 1..n /\ 1 - 1 = 0 /\ 0 + 1 = 1
      BY <1>1, <1>3
    <3>2. Reads(seqs[1], h[1 - 1], last[1 - 1], h[1], last[1])
      BY <3>1, Zenon DEF n
    <3>3. R(1)
      BY <2>1, <3>1, <3>2, Zenon
    <3> QED
      BY <3>1, <3>3, Zenon
  <2>3. ASSUME NEW i \in S PROVE i + 1 \in S
    <3> DEFINE j == i + 1
    <3>1. j \in Nat /\ i \in Nat
      OBVIOUS
    <3> SUFFICES ASSUME j + 1 <= n PROVE R(j + 1)
      BY <3>1
    <3>2. R(j)
      BY <1>1, <3>1
    <3> DEFINE k == j + 1
    <3>3. k \in 2..n /\ k \in 1..n /\ j \in 1..n /\ k - 1 = j
      BY <1>1, <3>1
    <3> HIDE DEF j, k, R
    <3>4. flat[k] = flat[j] \o seqs[k] /\ flat[j] \in Stream /\ seqs[k] \in Stream
      BY <1>1, <2>1, <3>3, Zenon
    <3>5. Reads(seqs[k], h[j], last[j], h[k], last[k])
      <4>1. Reads(seqs[k], h[k - 1], last[k - 1], h[k], last[k])
        BY <3>3, Zenon DEF n
      <4> QED
        BY <3>3, <4>1, Zenon
    <3>6. Reads(flat[j] \o seqs[k], h[0], last[0], h[k], last[k])
      BY <3>2, <3>4, <3>5, ReadsJoined, Zenon DEF R
    <3> QED
      BY <3>4, <3>6, Zenon DEF R, k
  <2>4. S = Nat
    <3>1. S \in SUBSET Nat
      OBVIOUS
    <3> HIDE DEF S
    <3> QED
      BY <2>2, <2>3, <3>1, Induction, Zenon
  <2>5. n - 1 \in Nat /\ n - 1 + 1 = n /\ n \in 1..n
    BY <1>1, <1>3
  <2>6. n - 1 \in S
    <3> HIDE DEF S
    <3> QED
      BY <2>4, <2>5
  <2>7. R(n)
    <3> HIDE DEF R
    <3> QED
      BY <2>5, <2>6
  <2>8. flat[n] \in Stream
    BY <2>5
  <2> QED
    BY <2>1, <2>7, <2>8, Zenon DEF n
<1> QED
  BY <1>2, <1>3


-----------------------------------------------------------------------------
(* Values and lists of values *)

\* Buckets h, and the values list in that of tag t.
Added(h, t, list) == [u \in DOMAIN h \cup {t} |-> IF u = t THEN list ELSE h[u]]

LEMMA AddedAgain ==
    ASSUME NEW h, NEW t, NEW x, NEW y
    PROVE  [Added(h, t, x) EXCEPT ![t] = y] = Added(h, t, y)
BY DEF Added

LEMMA PutFirst ==
    ASSUME NEW h, NEW t, NEW v, NEW after, v # <<>>, t \notin DOMAIN h
    PROVE  Put(h, t, v, after) = Added(h, t, <<v>>)
BY Zenon DEF Put, Added

LEMMA PutNext ==
    ASSUME NEW h, NEW t, NEW v, NEW list, v # <<>>
    PROVE  Put(Added(h, t, list), t, v, TRUE) = Added(h, t, Append(list, v))
<1> DEFINE g == Added(h, t, list)
<1>1. t \in DOMAIN g /\ g[t] = list
  BY DEF Added
<1> HIDE DEF g
<1>2. Put(g, t, v, TRUE) = [g EXCEPT ![t] = Append(g[t], v)]
  BY <1>1 DEF Put
<1>3. \A y : [g EXCEPT ![t] = y] = Added(h, t, y)
  BY AddedAgain DEF g
<1> QED
  BY <1>1, <1>2, <1>3, Zenon DEF g

LEMMA PutMore ==
    ASSUME NEW h, NEW t, NEW v, NEW first, v # <<>>
    PROVE  Put(Added(h, t, <<first>>), t, v, FALSE) = Added(h, t, <<first \o v>>)
<1> DEFINE g == Added(h, t, <<first>>)
<1>1. t \in DOMAIN g /\ g[t][1] = first
  BY DEF Added
<1> HIDE DEF g
<1>2. Put(g, t, v, FALSE) = [g EXCEPT ![t] = <<g[t][1] \o v>>]
  BY <1>1 DEF Put
<1>3. \A y : [g EXCEPT ![t] = y] = Added(h, t, y)
  BY AddedAgain DEF g
<1> QED
  BY <1>1, <1>2, <1>3, Zenon DEF g

\* Where the fragments of n bytes begin and end.
Fragments(n) == (n + Fragment - 1) \div Fragment

FragmentEnd(n, i) == IF i = Fragments(n) THEN n ELSE i * Fragment

LEMMA FragmentsCover ==
    ASSUME NEW n \in Nat \ {0}
    PROVE  /\ Fragments(n) \in Nat \ {0}
           /\ FragmentEnd(n, Fragments(n)) = n
           /\ n <= Fragment => Fragments(n) = 1
           /\ \A i \in 1..Fragments(n) :
                 /\ (i - 1) * Fragment \in 0..(n - 1)
                 /\ FragmentEnd(n, i) \in ((i - 1) * Fragment + 1)..n
                 /\ FragmentEnd(n, i) <= (i - 1) * Fragment + Fragment
                 /\ i > 1 => FragmentEnd(n, i - 1) = (i - 1) * Fragment
<1> DEFINE m == Fragments(n)
           F == Fragment
<1>1. F \in Nat \ {0}
  BY FragmentAssumption
<1>2. m \in Int /\ F * m <= n + F - 1 /\ n + F - 1 < F * m + F
  <2>1. n + F - 1 \in Int
    BY <1>1
  <2> QED
    BY <1>1, <2>1, Quotient DEF Fragments
<1> HIDE DEF m, F
<1>3. F * m \in Int
  BY <1>1, <1>2
<1>4. m # 0 /\ ~(m < 0)
  <2>1. m < 0 => F * m + F <= F * 0
    BY <1>1, <1>2, TimesOrdered
  <2>2. F * 0 = 0
    BY <1>1
  <2> QED
    BY <1>1, <1>2, <1>3, <2>1, <2>2
<1>5. m \in Nat \ {0}
  BY <1>2, <1>4
<1>6. FragmentEnd(n, m) = n
  BY DEF FragmentEnd, m
<1>7. n <= F => m = 1
  <2>1. 1 < m => F * 1 + F <= F * m
    BY <1>1, <1>5, TimesOrdered
  <2>2. F * 1 = F
    BY <1>1
  <2> QED
    BY <1>1, <1>2, <1>3, <1>5, <2>1, <2>2
<1>8. ASSUME NEW i \in 1..m
      PROVE  /\ (i - 1) * F \in 0..(n - 1)
             /\ FragmentEnd(n, i) \in ((i - 1) * F + 1)..n
             /\ FragmentEnd(n, i) <= (i - 1) * F + F
             /\ i > 1 => FragmentEnd(n, i - 1) = (i - 1) * F
  <2> DEFINE k == i - 1
             d == k * F
  <2>1. i \in Nat /\ k \in Nat /\ i = k + 1 /\ k < m
    BY <1>5
  <2>2. d \in Nat /\ d = F * k /\ i * F = d + F
    BY <1>1, <2>1
  <2>3. F * k + F <= F * m
    BY <1>1, <1>5, <2>1, TimesOrdered
  <2>4. i # m => i * F <= n
    <3>1. i < m => F * i + F <= F * m
      BY <1>1, <1>5, <2>1, TimesOrdered
    <3>2. F * i = i * F
      BY <1>1, <2>1
    <3> HIDE DEF k, d
    <3> QED
      BY <1>1, <1>2, <1>3, <1>5, <2>1, <2>2, <3>1, <3>2
  <2>5. FragmentEnd(n, i) = IF i = m THEN n ELSE d + F
    BY <2>2, Zenon DEF FragmentEnd, m, F
  <2>6. i > 1 => FragmentEnd(n, i - 1) = d
    <3>1. i - 1 # m
      BY <1>5
    <3> QED
      BY <3>1, Zenon DEF FragmentEnd, m, F
  <2> HIDE DEF k, d
  <2>7. d \in 0..(n - 1)
    BY <1>1, <1>2, <1>3, <2>2, <2>3
  <2>8. n <= d + F \/ i # m
    <3>1. i = m => F * m = F * k + F
      BY <1>1, <2>1
    <3> QED
      BY <1>1, <1>2, <1>3, <2>2, <3>1
  <2>9. FragmentEnd(n, i) \in (d + 1)..n /\ FragmentEnd(n, i) <= d + F
    <3>1. CASE i = m
      BY <1>1, <2>2, <2>5, <2>7, <2>8, <3>1
    <3>2. CASE i # m
      BY <1>1, <2>2, <2>4, <2>5, <2>7, <3>2
    <3> QED
      BY <3>1, <3>2
  <2> QED
    BY <2>6, <2>7, <2>9 DEF k, d
<1> QED
  BY <1>5, <1>6, <1>7, <1>8, Zenon DEF m, F


\* A value that is the first of its tag fills a bucket with all its fragments.
LEMMA ReadsBytes ==
    ASSUME NEW t \in Byte, NEW v \in Stream, v # <<>>, NEW h, NEW after, t \notin DOMAIN h
    PROVE  /\ writeBytes(t, v) \in Stream
           /\ Reads(writeBytes(t, v), h, after, Added(h, t, <<v>>), FALSE)
<1> DEFINE n == Len(v)
           m == Fragments(n)
           End(i) == FragmentEnd(n, i)
           piece(i) == SubSeq(v, (i - 1) * Fragment + 1, End(i))
           seqs == [i \in 1..m |-> Item(t, piece(i))]
           g == [i \in 0..m |-> IF i = 0 THEN h ELSE Added(h, t, <<SubSeq(v, 1, End(i))>>)]
           last == [i \in 0..m |-> IF i = 0 THEN after ELSE FALSE]
<1>1. n \in Nat \ {0} /\ v \in Seq(Byte)
  BY EmptySeq DEF Stream
<1>2. /\ m \in Nat \ {0} /\ End(m) = n
      /\ \A i \in 1..m : /\ (i - 1) * Fragment \in 0..(n - 1)
                         /\ End(i) \in ((i - 1) * Fragment + 1)..n
                         /\ End(i) <= (i - 1) * Fragment + Fragment
                         /\ i > 1 => End(i - 1) = (i - 1) * Fragment
  BY <1>1, FragmentsCover, Zenon
<1>3. writeBytes(t, v) = FlattenSeq(seqs)
  BY Zenon DEF writeBytes, Fragments, FragmentEnd
<1> HIDE DEF n, m, End
<1>4. ASSUME NEW i \in 1..m
      PROVE  piece(i) \in Stream /\ piece(i) # <<>> /\ Len(piece(i)) <= Fragment
  <2> DEFINE d == (i - 1) * Fragment
             from == d + 1
             to == End(i)
  <2>1. d \in 0..(n - 1) /\ to \in (d + 1)..n /\ to <= d + Fragment
    BY <1>2
  <2> HIDE DEF d, to
  <2>2. from \in Int /\ to \in Int /\ from <= to /\ to - from + 1 <= Fragment /\ to - from + 1 # 0
    BY <1>1, <2>1, FragmentAssumption
  <2>3. \A j \in from..to : v[j] \in Byte
    BY <1>1, <2>1, ElementOfSeq DEF n
  <2> HIDE DEF from
  <2>4. /\ SubSeq(v, from, to) \in Seq(Byte)
        /\ Len(SubSeq(v, from, to)) = IF from <= to THEN to - from + 1 ELSE 0
    BY <2>2, <2>3, SubSeqProperties
  <2>5. SubSeq(v, from, to) # <<>>
    BY <2>2, <2>4
  <2>6. piece(i) = SubSeq(v, from, to)
    BY Zenon DEF from, to, d
  <2> HIDE DEF piece
  <2> QED
    BY <2>2, <2>4, <2>5, <2>6 DEF Stream
<1> HIDE DEF piece
<1>5. \A i \in 1..m : seqs[i] = Item(t, piece(i)) /\ seqs[i] \in Stream
  BY <1>4, ReadsItem
<1>6. seqs \in Seq(Stream) /\ Len(seqs) = m
  <2>1. seqs \in [1..m -> Stream]
    BY <1>5
  <2> HIDE DEF seqs
  <2> QED
    BY <1>2, <2>1
<1> HIDE DEF seqs
<1>7. /\ g[0] = h /\ last[0] = after
      /\ \A i \in 1..m : g[i] = Added(h, t, <<SubSeq(v, 1, End(i))>>) /\ last[i] = FALSE
  <2>1. 0 \in 0..m /\ \A i \in 1..m : i \in 0..m /\ i # 0
    BY <1>2
  <2> QED
    BY <2>1, Zenon
<1> HIDE DEF g, last
<1>8. ASSUME NEW i \in 1..m
      PROVE  Reads(seqs[i], g[i - 1], last[i - 1], g[i], last[i])
  <2>1. Reads(seqs[i], g[i - 1], last[i - 1],
              Put(g[i - 1], t, piece(i), last[i - 1]), t = 0 /\ piece(i) = <<>>)
    BY <1>4, <1>5, ReadsItem, Zenon
  <2>2. (t = 0 /\ piece(i) = <<>>) = FALSE
    BY <1>4
  <2>3. Put(g[i - 1], t, piece(i), last[i - 1]) = g[i]
    <3>1. CASE i = 1
      <4>1. i - 1 = 0 /\ (i - 1) * Fragment = 0 /\ (i - 1) * Fragment + 1 = 1
        BY <3>1, FragmentAssumption
      <4>2. piece(i) = SubSeq(v, 1, End(i))
        BY <4>1, Zenon DEF piece
      <4>3. g[i - 1] = h
        BY <1>7, <4>1, Zenon
      <4>4. Put(h, t, piece(i), last[i - 1]) = Added(h, t, <<piece(i)>>)
        BY <1>4, PutFirst
      <4> QED
        BY <1>7, <4>2, <4>3, <4>4, Zenon
    <3>2. CASE i # 1
      <4> DEFINE j == i - 1
                 d == j * Fragment
      <4>1. j \in 1..m /\ i > 1
        BY <1>2, <3>2
      <4>2. d \in 0..(n - 1) /\ End(i) \in (d + 1)..n /\ End(j) = d
        BY <1>2, <4>1
      <4> HIDE DEF j
      <4>3. g[j] = Added(h, t, <<SubSeq(v, 1, d)>>) /\ last[j] = FALSE
        BY <1>7, <4>1, <4>2, Zenon
      <4>4. piece(i) = SubSeq(v, d + 1, End(i))
        BY Zenon DEF piece, j
      <4> HIDE DEF d
      <4>5. SubSeq(v, 1, d) \o SubSeq(v, d + 1, End(i)) = SubSeq(v, 1, End(i))
        <5>1. 1 \in 1..(Len(v) + 1) /\ d \in (1 - 1)..Len(v) /\ End(i) \in d..Len(v)
          BY <1>1, <4>2 DEF n
        <5> QED
          BY <1>1, <5>1, ConcatAdjacentSubSeq, Zenon
      <4>6. Put(g[j], t, piece(i), FALSE) = Added(h, t, <<SubSeq(v, 1, d) \o piece(i)>>)
        <5>1. Put(Added(h, t, <<SubSeq(v, 1, d)>>), t, piece(i), FALSE)
                = Added(h, t, <<SubSeq(v, 1, d) \o piece(i)>>)
          BY <1>4, PutMore, Zenon
        <5> QED
          BY <4>3, <5>1, Zenon
      <4> QED
        BY <1>7, <4>3, <4>4, <4>5, <4>6, Zenon DEF j
    <3> QED
      BY <3>1, <3>2
  <2> QED
    BY <1>7, <2>1, <2>2, <2>3, Zenon
<1>9. /\ FlattenSeq(seqs) \in Stream
      /\ Reads(FlattenSeq(seqs), g[0], last[0], g[m], last[m])
  BY <1>6, <1>8, ReadsFlattened, Zenon
<1>10. m \in 1..m /\ SubSeq(v, 1, End(m)) = v
  <2>1. m \in 1..m
    BY <1>2
  <2>2. SubSeq(v, 1, Len(v)) = v
    BY <1>1, SubSeqFull
  <2> QED
    BY <1>2, <2>1, <2>2, Zenon DEF n
<1> QED
  BY <1>3, <1>7, <1>9, <1>10, Zenon

\* After a delimiter, a value of up to a fragment goes to the end of the list.
LEMMA ReadsNextBytes ==
    ASSUME NEW t \in Byte, NEW v \in Stream, v # <<>>, Len(v) <= Fragment, NEW h, NEW list
    PROVE  /\ writeBytes(t, v) \in Stream
           /\ Reads(writeBytes(t, v), Added(h, t, list), TRUE, Added(h, t, Append(list, v)), FALSE)
<1> DEFINE n == Len(v)
           seqs == [i \in 1..Fragments(n) |-> Item(t, SubSeq(v, (i - 1) * Fragment + 1, FragmentEnd(n, i)))]
<1>1. n \in Nat \ {0} /\ v \in Seq(Byte)
  BY EmptySeq DEF Stream
<1>2. Fragments(n) = 1 /\ FragmentEnd(n, 1) = n
  BY <1>1, FragmentsCover
<1>3. writeBytes(t, v) = FlattenSeq(seqs)
  BY Zenon DEF writeBytes, Fragments, FragmentEnd
<1>4. SubSeq(v, (1 - 1) * Fragment + 1, FragmentEnd(n, 1)) = v
  <2>1. (1 - 1) * Fragment + 1 = 1
    BY FragmentAssumption
  <2>2. SubSeq(v, 1, n) = v
    BY <1>1, SubSeqFull
  <2> QED
    BY <1>2, <2>1, <2>2, Zenon
<1>5. seqs = [i \in 1..1 |-> Item(t, v)]
  <2>1. \A i \in 1..1 : i = 1
    OBVIOUS
  <2> QED
    BY <1>2, <1>4, <2>1, Zenon
<1> DEFINE item == Item(t, v)
<1>6. item \in Stream
  BY ReadsItem
<1> HIDE DEF n, item, seqs
<1>7. seqs = <<item>>
  BY <1>5 DEF item
<1>8. <<item>> \in Seq(Stream) /\ Len(<<item>>) = 1 /\ <<item>>[1] = item
  BY <1>6
<1>9. FlattenSeq(<<item>>) = item
  <2>1. PICK flat \in [1..1 -> Stream] : flat[1] = item /\ FlattenSeq(<<item>>) = flat[1]
    <3> DEFINE one == <<item>>
    <3>1. one \in Seq(Seq(Byte)) /\ Len(one) = 1 /\ one[1] = item /\ Len(one) # 0
      BY <1>8 DEF Stream
    <3> HIDE DEF one
    <3>2. \E flat \in [1..Len(one) -> Seq(Byte)] :
              /\ flat[1] = one[1]
              /\ \A i \in 2..Len(one) : flat[i] = flat[i - 1] \o one[i]
              /\ FlattenSeq(one) = flat[Len(one)]
      BY <3>1, Flattened, Zenon
    <3> QED
      BY <3>1, <3>2 DEF Stream, one
  <2> QED
    BY <2>1
<1>10. /\ Reads(item, Added(h, t, list), TRUE, Put(Added(h, t, list), t, v, TRUE), t = 0 /\ v = <<>>)
  BY ReadsItem, Zenon DEF item
<1>11. Put(Added(h, t, list), t, v, TRUE) = Added(h, t, Append(list, v))
  BY PutNext, Zenon
<1>12. (t = 0 /\ v = <<>>) = FALSE
  OBVIOUS
<1> QED
  BY <1>3, <1>6, <1>7, <1>9, <1>10, <1>11, <1>12, Zenon


LEMMA ReadsDelimiter ==
    ASSUME NEW h, NEW after
    PROVE  Delimiter \in Stream /\ Reads(Delimiter, h, after, h, TRUE)
<1>1. 0 \in Byte /\ <<>> \in Stream /\ Len(<<>>) = 0 /\ Len(<<>>) <= Fragment
  BY BaseAssumption, FragmentAssumption, EmptySeq DEF Byte, Stream
<1>2. Item(0, <<>>) = Delimiter
  <2>1. <<0, 0>> \in Seq(Byte)
    BY <1>1
  <2>2. <<0, 0>> \o <<>> = <<0, 0>>
    BY <2>1, ConcatEmptySeq
  <2> QED
    BY <1>1, <2>2, Zenon DEF Item, Delimiter
<1>3. /\ Item(0, <<>>) \in Stream
      /\ Reads(Item(0, <<>>), h, after, Put(h, 0, <<>>, after), 0 = 0 /\ <<>> = <<>>)
  BY <1>1, ReadsItem, Zenon
<1>4. Put(h, 0, <<>>, after) = h
  BY Zenon DEF Put
<1>5. (0 = 0 /\ <<>> = <<>>) = TRUE
  OBVIOUS
<1> QED
  BY <1>2, <1>3, <1>4, <1>5, Zenon

\* A list that is the first of its tag fills its buckets, one for each value.
LEMMA ReadsList ==
    ASSUME NEW t \in Byte, NEW list \in Seq(Stream), list # <<>>,
           \A i \in 1..Len(list) : list[i] # <<>> /\ (i > 1 => Len(list[i]) <= Fragment),
           NEW h, NEW after, t \notin DOMAIN h
    PROVE  /\ writeList(t, list) \in Stream
           /\ Reads(writeList(t, list), h, after, Added(h, t, list), FALSE)
<1> DEFINE n == Len(list)
           piece(i) == (IF i > 1 THEN Delimiter ELSE <<>>) \o writeBytes(t, list[i])
           seqs == [i \in 1..n |-> piece(i)]
           g == [i \in 0..n |-> IF i = 0 THEN h ELSE Added(h, t, SubSeq(list, 1, i))]
           last == [i \in 0..n |-> IF i = 0 THEN after ELSE FALSE]
<1>1. n \in Nat \ {0} /\ DOMAIN list = 1..n
  BY EmptySeq, LenProperties
<1>2. writeList(t, list) = FlattenSeq(seqs)
  BY <1>1, Zenon DEF writeList
<1>3. \A i \in 1..n : list[i] \in Stream /\ list[i] # <<>> /\ (i > 1 => Len(list[i]) <= Fragment)
  BY ElementOfSeq
<1> HIDE DEF n
<1>4. \A i \in 1..n : piece(i) = IF i = 1 THEN writeBytes(t, list[i]) ELSE Delimiter \o writeBytes(t, list[i])
  <2> SUFFICES ASSUME NEW i \in 1..n
               PROVE  piece(i) = IF i = 1 THEN writeBytes(t, list[i]) ELSE Delimiter \o writeBytes(t, list[i])
    OBVIOUS
  <2>1. CASE i = 1
    <3>1. writeBytes(t, list[i]) \in Seq(Byte)
      <4>1. 1 \notin DOMAIN [u \in {} |-> 0] /\ list[i] \in Stream /\ list[i] # <<>>
        BY <1>3
      <4> QED
        BY <1>3, ReadsBytes DEF Stream
    <3>2. <<>> \o writeBytes(t, list[i]) = writeBytes(t, list[i])
      BY <3>1, ConcatEmptySeq
    <3>3. ~(i > 1)
      BY <2>1
    <3> QED
      BY <2>1, <3>2, <3>3, Zenon
  <2>2. CASE i # 1
    <3>1. i > 1
      BY <1>1, <2>2
    <3> QED
      BY <2>2, <3>1, Zenon
  <2> QED
    BY <2>1, <2>2
<1> HIDE DEF piece
<1>5. /\ g[0] = h /\ last[0] = after
      /\ \A i \in 1..n : g[i] = Added(h, t, SubSeq(list, 1, i)) /\ last[i] = FALSE
  <2>1. 0 \in 0..n /\ \A i \in 1..n : i \in 0..n /\ i # 0
    BY <1>1
  <2> QED
    BY <2>1, Zenon
<1> HIDE DEF g, last
<1>6. ASSUME NEW i \in 1..n
      PROVE  piece(i) \in Stream /\ Reads(piece(i), g[i - 1], last[i - 1], g[i], last[i])
  <2>1. CASE i = 1
    <3>1. i - 1 = 0
      BY <2>1
    <3>2. SubSeq(list, 1, 1) = <<list[1]>>
      <4> DEFINE one == SubSeq(list, 1, 1)
      <4>1. \A k \in 1..1 : list[k] \in Stream
        BY <1>1, <1>3
      <4>2. one \in Seq(Stream) /\ Len(one) = 1 /\ \A k \in 1..1 : one[k] = list[1 + k - 1]
        BY <4>1, SubSeqProperties
      <4>3. one[1] = list[1]
        BY <4>2
      <4> HIDE DEF one
      <4>4. one = <<list[1]>>
        BY <4>2, <4>3
      <4> QED
        BY <4>4, Zenon DEF one
    <3>3. /\ writeBytes(t, list[i]) \in Stream
          /\ Reads(writeBytes(t, list[i]), h, after, Added(h, t, <<list[i]>>), FALSE)
      BY <1>3, ReadsBytes, Zenon
    <3>4. piece(i) = writeBytes(t, list[i]) /\ g[i] = Added(h, t, <<list[i]>>) /\ last[i] = FALSE
      BY <1>4, <1>5, <2>1, <3>2, Zenon
    <3> QED
      BY <1>5, <3>1, <3>3, <3>4, Zenon
  <2>2. CASE i # 1
    <3> DEFINE j == i - 1
               before == SubSeq(list, 1, j)
    <3>1. j \in 1..n /\ i > 1
      BY <1>1, <2>2
    <3>2. SubSeq(list, 1, i) = before \o <<list[i]>>
      <4>1. 1 \in 1..Len(list) /\ i \in 1..Len(list)
        BY <1>1 DEF n
      <4> QED
        BY <4>1, SubSeqRecursiveSecond, Zenon
    <3>3. before \in Seq(Stream)
      <4>1. \A k \in 1..j : list[k] \in Stream
        BY <1>1, <1>3
      <4>2. 1 \in Int /\ j \in Int
        BY <3>1
      <4> QED
        BY <4>1, <4>2, SubSeqProperties
    <3> HIDE DEF j, before
    <3>4. Append(before, list[i]) = before \o <<list[i]>>
      BY <1>3, <3>3, AppendIsConcat
    <3>5. g[j] = Added(h, t, before) /\ last[j] = FALSE
      BY <1>5, <3>1, Zenon DEF before
    <3>6. g[i] = Added(h, t, Append(before, list[i])) /\ last[i] = FALSE
      BY <1>5, <3>2, <3>4, Zenon
    <3>7. Delimiter \in Stream /\ Reads(Delimiter, g[j], last[j], g[j], TRUE)
      BY ReadsDelimiter, Zenon
    <3>8. /\ writeBytes(t, list[i]) \in Stream
          /\ Reads(writeBytes(t, list[i]), Added(h, t, before), TRUE,
                   Added(h, t, Append(before, list[i])), FALSE)
      BY <1>3, <3>1, ReadsNextBytes, Zenon
    <3>9. Reads(Delimiter \o writeBytes(t, list[i]), g[j], last[j], g[i], last[i])
      BY <3>5, <3>6, <3>7, <3>8, ReadsJoined, Zenon
    <3>10. Delimiter \o writeBytes(t, list[i]) \in Stream
      BY <3>7, <3>8, Joined, Zenon
    <3>11. piece(i) = Delimiter \o writeBytes(t, list[i])
      BY <1>4, <2>2, Zenon
    <3> QED
      BY <3>9, <3>10, <3>11, Zenon DEF j
  <2> QED
    BY <2>1, <2>2
<1>7. seqs \in Seq(Stream) /\ Len(seqs) = n /\ \A i \in 1..n : seqs[i] = piece(i)
  <2>1. seqs \in [1..n -> Stream] /\ \A i \in 1..n : seqs[i] = piece(i)
    BY <1>6
  <2> HIDE DEF seqs
  <2> QED
    BY <1>1, <2>1
<1> HIDE DEF seqs
<1>8. /\ FlattenSeq(seqs) \in Stream
      /\ Reads(FlattenSeq(seqs), g[0], last[0], g[n], last[n])
  BY <1>6, <1>7, ReadsFlattened, Zenon
<1>9. n \in 1..n /\ SubSeq(list, 1, n) = list
  BY <1>1, SubSeqFull DEF n
<1> QED
  BY <1>2, <1>5, <1>8, <1>9, Zenon

\* Lists of different tags are read as they were written.
LEMMA ItemsRead ==
    ASSUME NEW lists \in Seq(Seq(Stream)), NEW tags \in Seq(Byte),
           DOMAIN tags = DOMAIN lists, IsInjective(tags),
           \A k \in DOMAIN lists :
              /\ lists[k] # <<>>
              /\ \A j \in DOMAIN lists[k] :
                    lists[k][j] # <<>> /\ (j > 1 => Len(lists[k][j]) <= Fragment)
    PROVE  ReadsItems(lists, tags)
<1> DEFINE n == Len(lists)
           seqs == [i \in 1..n |-> writeList(tags[i], lists[i])]
           Until(i) == {tags[k] : k \in 1..i}
           g == [i \in 0..n |-> [u \in Until(i) |-> lists[CHOOSE k \in 1..i : tags[k] = u]]]
           last == [i \in 0..n |-> FALSE]
<1>1. n \in Nat /\ DOMAIN lists = 1..n /\ DOMAIN tags = 1..n
  BY LenProperties
<1>2. /\ \A i \in 1..n : tags[i] \in Byte /\ lists[i] \in Seq(Stream) /\ lists[i] # <<>>
      /\ \A i, k \in 1..n : tags[i] = tags[k] => i = k
  <2>1. Len(tags) = n
    BY <1>1, LenProperties
  <2> QED
    BY <1>1, <2>1, ElementOfSeq DEF IsInjective
<1>3. \A i \in 1..n : \A j \in 1..Len(lists[i]) :
         lists[i][j] # <<>> /\ (j > 1 => Len(lists[i][j]) <= Fragment)
  <2>1. \A i \in 1..n : DOMAIN lists[i] = 1..Len(lists[i])
    BY <1>2, LenProperties
  <2> QED
    BY <1>1, <2>1
<1> HIDE DEF n
<1>4. \A i \in 0..n : DOMAIN g[i] = Until(i) /\ \A k \in 1..i : g[i][tags[k]] = lists[k]
  <2> SUFFICES ASSUME NEW i \in 0..n
               PROVE  DOMAIN g[i] = Until(i) /\ \A k \in 1..i : g[i][tags[k]] = lists[k]
    OBVIOUS
  <2>1. g[i] = [u \in Until(i) |-> lists[CHOOSE k \in 1..i : tags[k] = u]]
    OBVIOUS
  <2> HIDE DEF g
  <2>2. ASSUME NEW k \in 1..i PROVE g[i][tags[k]] = lists[k]
    <3>1. (CHOOSE l \in 1..i : tags[l] = tags[k]) = k
      <4>1. \A l \in 1..i : l \in 1..n
        BY <1>1
      <4>2. \A l \in 1..i : tags[l] = tags[k] => l = k
        BY <1>2, <4>1
      <4> QED
        BY <4>2
    <3>2. tags[k] \in Until(i)
      OBVIOUS
    <3> DEFINE place(u) == CHOOSE l \in 1..i : tags[l] = u
    <3>3. g[i] = [u \in Until(i) |-> lists[place(u)]]
      BY <2>1
    <3>4. place(tags[k]) = k
      BY <3>1
    <3> HIDE DEF place, Until
    <3> QED
      BY <3>2, <3>3, <3>4, Zenon
  <2> QED
    BY <2>1, <2>2
<1>5. \A i \in 0..n : g[i] = [u \in Until(i) |-> g[i][u]] /\ last[i] = FALSE
  OBVIOUS
<1>6. g[0] = NoBuckets
  <2>1. 0 \in 0..n /\ Until(0) = {}
    BY <1>1
  <2> QED
    BY <2>1 DEF NoBuckets
<1> HIDE DEF g, last
<1>7. \A i \in 1..n : g[i] = Added(g[i - 1], tags[i], lists[i]) /\ tags[i] \notin DOMAIN g[i - 1]
  <2> SUFFICES ASSUME NEW i \in 1..n
               PROVE  g[i] = Added(g[i - 1], tags[i], lists[i]) /\ tags[i] \notin DOMAIN g[i - 1]
    OBVIOUS
  <2> DEFINE j == i - 1
  <2>1. j \in 0..n /\ i \in 0..n /\ 1..i = 1..j \cup {i} /\ i \notin 1..j /\ 1..i \subseteq 1..n
    BY <1>1
  <2> HIDE DEF j
  <2>2. Until(i) = Until(j) \cup {tags[i]} /\ tags[i] \notin Until(j)
    <3> DEFINE I == 1..i
               J == 1..j
    <3>1. I = J \cup {i} /\ i \notin J /\ \A k \in J : k \in 1..n
      BY <2>1
    <3> HIDE DEF I, J
    <3>2. /\ {tags[k] : k \in I} = {tags[k] : k \in J} \cup {tags[i]}
          /\ tags[i] \notin {tags[k] : k \in J}
      BY <1>2, <3>1, Zenon
    <3> QED
      BY <3>2, Zenon DEF I, J
  <2>3. \A k \in 1..j : g[i][tags[k]] = g[j][tags[k]]
    BY <1>4, <2>1
  <2>4. \A u \in Until(j) : g[i][u] = g[j][u]
    BY <2>3
  <2>5. g[i][tags[i]] = lists[i]
    <3>1. i \in 1..i
      BY <1>1
    <3> QED
      BY <1>4, <2>1, <3>1
  <2>6. DOMAIN g[j] = Until(j)
    BY <1>4, <2>1
  <2> HIDE DEF Until
  <2>7. g[i] = [u \in Until(i) |-> g[i][u]]
    BY <1>5, <2>1, Zenon
  <2>8. [u \in Until(i) |-> g[i][u]] = [u \in Until(j) \cup {tags[i]} |-> IF u = tags[i] THEN lists[i] ELSE g[j][u]]
    BY <2>2, <2>4, <2>5
  <2> QED
    BY <2>2, <2>6, <2>7, <2>8, Zenon DEF Added, j
<1> HIDE DEF Until
<1>8. \A i \in 1..n : /\ seqs[i] = writeList(tags[i], lists[i]) /\ seqs[i] \in Stream
                      /\ Reads(seqs[i], g[i - 1], last[i - 1], g[i], last[i])
  <2> SUFFICES ASSUME NEW i \in 1..n
               PROVE  /\ seqs[i] = writeList(tags[i], lists[i]) /\ seqs[i] \in Stream
                      /\ Reads(seqs[i], g[i - 1], last[i - 1], g[i], last[i])
    OBVIOUS
  <2>1. seqs[i] = writeList(tags[i], lists[i])
    OBVIOUS
  <2>2. /\ writeList(tags[i], lists[i]) \in Stream
        /\ Reads(writeList(tags[i], lists[i]), g[i - 1], last[i - 1],
                 Added(g[i - 1], tags[i], lists[i]), FALSE)
    BY <1>2, <1>3, <1>7, ReadsList, Zenon
  <2>3. i \in 0..n
    BY <1>1
  <2> QED
    BY <1>5, <1>7, <2>1, <2>2, <2>3, Zenon
<1>9. seqs \in Seq(Stream) /\ Len(seqs) = n
  <2>1. seqs \in [1..n -> Stream]
    BY <1>8
  <2> HIDE DEF seqs
  <2> QED
    BY <1>1, <2>1
<1> HIDE DEF seqs
<1>10. /\ FlattenSeq(seqs) \in Stream
       /\ Reads(FlattenSeq(seqs), g[0], last[0], g[n], last[n])
  BY <1>8, <1>9, ReadsFlattened, Zenon
<1>11. read(FlattenSeq(seqs)) = [err |-> "none", h |-> g[n]]
  <2>1. last[0] = FALSE
    <3>1. 0 \in 0..n
      BY <1>1
    <3> QED
      BY <1>5, <3>1, Zenon
  <2> QED
    BY <1>6, <1>10, <2>1, ReadWhole, Zenon
<1>12. FlattenSeq([i \in DOMAIN lists |-> writeList(tags[i], lists[i])]) = FlattenSeq(seqs)
  BY <1>1, Zenon DEF seqs
<1>13. DOMAIN g[n] = Range(tags) /\ \A i \in 1..n : g[n][tags[i]] = lists[i]
  <2>1. n \in 0..n
    BY <1>1
  <2>2. Until(n) = Range(tags)
    BY <1>1 DEF Until, Range
  <2> QED
    BY <1>4, <2>1, <2>2
<1> DEFINE r == read(FlattenSeq(seqs))
<1>14. r.err = "none" /\ r.h = g[n]
  BY <1>11
<1> HIDE DEF r
<1>15. /\ r.err = "none" /\ DOMAIN r.h = Range(tags)
       /\ \A i \in DOMAIN lists : r.h[tags[i]] = lists[i]
  BY <1>1, <1>13, <1>14, Zenon
<1> QED
  BY <1>12, <1>15, Zenon DEF ReadsItems, r



-----------------------------------------------------------------------------
(* Numbers and their digits to the base of a byte *)

\* high[i] is what is left of n when i - 1 digits are taken off.
Digits(high, n, w) ==
    high \in [1..w -> Int] /\ high[1] = n /\ \A i \in 2..w : high[i] = high[i - 1] \div Base

LEMMA DigitsOf ==
    ASSUME NEW n \in Int, NEW w \in Nat \ {0}
    PROVE  \E high : Digits(high, n, w) /\ LittleEndian(n, w) = [i \in 1..w |-> high[i] % Base]
<1> DEFINE next == [p \in Nat \X Int |-> p[2] \div Base]
           Def(f) == [i \in 1..w |-> IF i = 1 THEN n ELSE f[i - 1] \div Base]
<1>1. \A x \in Int : x \div Base \in Int
  BY BaseAssumption, FragmentAssumption
<1>2. next \in [Nat \X Int -> Int]
  <2> SUFFICES ASSUME NEW p \in Nat \X Int PROVE p[2] \div Base \in Int
    OBVIOUS
  <2> QED
    BY <1>1
<1> HIDE DEF next
<1>3. PICK f \in [0..(w - 1) -> Int] : Iterates(f, n, next, w - 1)
  <2>1. w - 1 \in Nat
    OBVIOUS
  <2> QED
    BY <1>2, <2>1, Recursion, Zenon
<1>4. f[0] = n /\ \A i \in 1..(w - 1) : f[i] = f[i - 1] \div Base
  <2> SUFFICES ASSUME NEW i \in 1..(w - 1) PROVE f[i] = f[i - 1] \div Base
    BY <1>3 DEF Iterates
  <2>1. i - 1 \in Nat /\ f[i - 1] \in Int
    OBVIOUS
  <2>2. next[<<i - 1, f[i - 1]>>] = f[i - 1] \div Base
    <3> DEFINE p == <<i - 1, f[i - 1]>>
    <3>1. p \in Nat \X Int /\ p[2] = f[i - 1]
      BY <2>1
    <3> HIDE DEF p
    <3>2. next[p] = p[2] \div Base
      BY <3>1, Zenon DEF next
    <3> QED
      BY <3>1, <3>2, Zenon DEF p
  <2>3. f[i] = next[<<i - 1, f[i - 1]>>]
    BY <1>3 DEF Iterates
  <2> QED
    BY <2>2, <2>3, Zenon
<1> DEFINE g == [i \in 1..w |-> f[i - 1]]
<1>5. \A i \in 1..w : g[i] = IF i = 1 THEN n ELSE g[i - 1] \div Base
  <2> SUFFICES ASSUME NEW i \in 1..w PROVE g[i] = IF i = 1 THEN n ELSE g[i - 1] \div Base
    OBVIOUS
  <2>1. CASE i = 1
    BY <1>4, <2>1
  <2>2. CASE i # 1
    <3>1. i - 1 \in 1..(w - 1) /\ i - 1 \in 1..w
      BY <2>2
    <3>2. g[i] = f[i - 1] /\ g[i - 1] = f[i - 1 - 1]
      BY <3>1
    <3>3. f[i - 1] = f[i - 1 - 1] \div Base
      BY <1>4, <3>1, Zenon
    <3> HIDE DEF g
    <3> QED
      BY <2>2, <3>2, <3>3, Zenon
  <2> QED
    BY <2>1, <2>2
<1>6. g = Def(g)
  BY <1>5, Zenon
<1> HIDE DEF g
<1> DEFINE h == CHOOSE high : high = Def(high)
<1>7. h = Def(h)
  BY <1>6, Zenon
<1>8. LittleEndian(n, w) = [i \in 1..w |-> h[i] % Base]
  BY Zenon DEF LittleEndian
<1> HIDE DEF h
<1>9. \A i \in 1..w : h[i] = IF i = 1 THEN n ELSE h[i - 1] \div Base
  BY <1>7, Zenon
<1>10. h[1] = n /\ \A i \in 2..w : h[i] = h[i - 1] \div Base
  <2>1. 1 \in 1..w /\ \A i \in 2..w : i \in 1..w /\ i # 1
    OBVIOUS
  <2> QED
    BY <1>9, <2>1, Zenon
<1>11. \A i \in 1..w : h[i] \in Int
  <2> DEFINE S == {i \in Nat : i + 1 <= w => h[i + 1] \in Int}
  <2>1. 0 \in S
    BY <1>10
  <2>2. ASSUME NEW i \in S PROVE i + 1 \in S
    <3> SUFFICES ASSUME i + 1 + 1 <= w PROVE h[i + 1 + 1] \in Int
      OBVIOUS
    <3> DEFINE j == i + 1 + 1
    <3>1. j \in 2..w /\ j - 1 = i + 1 /\ h[i + 1] \in Int
      OBVIOUS
    <3> HIDE DEF j
    <3>2. h[j] = h[j - 1] \div Base /\ h[j - 1] \in Int
      BY <1>10, <3>1, Zenon
    <3>3. h[j] \in Int
      BY <1>1, <3>2, Zenon
    <3> QED
      BY <3>3 DEF j
  <2>3. S = Nat
    <3>1. S \in SUBSET Nat
      OBVIOUS
    <3> HIDE DEF S
    <3> QED
      BY <2>1, <2>2, <3>1, Induction, Zenon
  <2> SUFFICES ASSUME NEW i \in 1..w PROVE h[i] \in Int
    OBVIOUS
  <2>4. i - 1 \in Nat /\ i - 1 + 1 = i /\ i <= w
    OBVIOUS
  <2>5. i - 1 \in S
    <3> HIDE DEF S
    <3> QED
      BY <2>3, <2>4
  <2> QED
    BY <2>4, <2>5
<1>12. h = [i \in 1..w |-> h[i]]
  BY <1>7, <1>9
<1>13. h \in [1..w -> Int]
  BY <1>11, <1>12
<1> QED
  BY <1>8, <1>10, <1>13, Zenon DEF Digits

\* power[i] is Base to the power of i.
Powers(power) ==
    power \in [0..8 -> Nat \ {0}] /\ power[0] = 1 /\ \A i \in 1..8 : power[i] = Base * power[i - 1]

LEMMA SendableNumbers ==
    \E power :
        /\ Powers(power)
        /\ \A kind \in Number :
              Sendable(kind) =
                  IF kind = "bool" THEN {0, 1}
                  ELSE IF kind \in Signed
                       THEN (-((Base \div 2) * power[Sent(kind) - 1]))..((Base \div 2) * power[Sent(kind) - 1] - 1)
                  ELSE 0..(power[Sent(kind)] - 1)
<1> DEFINE V == Nat \ {0}
           next == [p \in Nat \X V |-> Base * p[2]]
           Def(f) == [i \in 0..8 |-> IF i = 0 THEN 1 ELSE Base * f[i - 1]]
<1>1. \A x \in V : Base * x \in V
  BY BaseAssumption, FragmentAssumption
<1>2. next \in [Nat \X V -> V]
  <2> SUFFICES ASSUME NEW p \in Nat \X V PROVE Base * p[2] \in V
    OBVIOUS
  <2>1. p[2] \in V
    OBVIOUS
  <2> QED
    BY <1>1, <2>1, Zenon
<1> HIDE DEF next, V
<1>3. PICK f \in [0..8 -> V] : Iterates(f, 1, next, 8)
  <2>1. 8 \in Nat /\ 1 \in V
    BY DEF V
  <2> QED
    BY <1>2, <2>1, Recursion, Zenon
<1>4. f[0] = 1 /\ \A i \in 1..8 : f[i] = Base * f[i - 1]
  <2> SUFFICES ASSUME NEW i \in 1..8 PROVE f[i] = Base * f[i - 1]
    BY <1>3 DEF Iterates
  <2>1. i - 1 \in Nat /\ f[i - 1] \in V
    OBVIOUS
  <2>2. next[<<i - 1, f[i - 1]>>] = Base * f[i - 1]
    <3> DEFINE p == <<i - 1, f[i - 1]>>
    <3>1. p \in Nat \X V /\ p[2] = f[i - 1]
      BY <2>1
    <3> HIDE DEF p
    <3>2. next[p] = Base * p[2]
      BY <3>1, Zenon DEF next
    <3> QED
      BY <3>1, <3>2, Zenon DEF p
  <2>3. f[i] = next[<<i - 1, f[i - 1]>>]
    BY <1>3 DEF Iterates
  <2> QED
    BY <2>2, <2>3, Zenon
<1>5. f = Def(f)
  <2>1. f = [i \in 0..8 |-> f[i]]
    OBVIOUS
  <2>2. \A i \in 0..8 : f[i] = IF i = 0 THEN 1 ELSE Base * f[i - 1]
    <3>1. \A i \in 0..8 : i = 0 \/ (i # 0 /\ i \in 1..8)
      OBVIOUS
    <3> QED
      BY <1>4, <3>1, Zenon
  <2> QED
    BY <2>1, <2>2, Zenon
<1> DEFINE power == CHOOSE g : g = Def(g)
<1>6. power = Def(power)
  BY <1>5, Zenon
<1>7. \A kind \in Number :
         Sendable(kind) = CASE kind = "bool"   -> {0, 1}
                            [] kind \in Signed -> (-((Base \div 2) * power[Sent(kind) - 1]))..((Base \div 2) * power[Sent(kind) - 1] - 1)
                            [] OTHER           -> 0..(power[Sent(kind)] - 1)
  BY Zenon DEF Sendable
<1> HIDE DEF power
<1>8. \A i \in 0..8 : power[i] = IF i = 0 THEN 1 ELSE Base * power[i - 1]
  BY <1>6, Zenon
<1>9. power[0] = 1 /\ \A i \in 1..8 : power[i] = Base * power[i - 1]
  <2>1. 0 \in 0..8 /\ \A i \in 1..8 : i \in 0..8 /\ i # 0
    OBVIOUS
  <2> QED
    BY <1>8, <2>1, Zenon
<1>10. \A i \in 0..8 : power[i] \in V
  <2>1. power[0] \in V
    BY <1>9 DEF V
  <2>2. \A i \in 1..8 : power[i - 1] \in V => power[i] \in V
    BY <1>1, <1>9, Zenon
  <2>3. power[1] \in V /\ power[2] \in V
    BY <2>1, <2>2
  <2>4. power[3] \in V /\ power[4] \in V
    BY <2>2, <2>3
  <2>5. power[5] \in V /\ power[6] \in V
    BY <2>2, <2>4
  <2>6. power[7] \in V /\ power[8] \in V
    BY <2>2, <2>5
  <2> QED
    BY <2>1, <2>3, <2>4, <2>5, <2>6
<1>11. power = [i \in 0..8 |-> power[i]]
  BY <1>6, <1>8, Zenon
<1>12. power \in [0..8 -> V]
  BY <1>10, <1>11
<1>13. \A kind \in Number :
          Sendable(kind) =
              IF kind = "bool" THEN {0, 1}
              ELSE IF kind \in Signed
                   THEN (-((Base \div 2) * power[Sent(kind) - 1]))..((Base \div 2) * power[Sent(kind) - 1] - 1)
              ELSE 0..(power[Sent(kind)] - 1)
  <2>1. "bool" \notin Signed
    BY DEF Signed
  <2> QED
    BY <1>7, <2>1
<1> QED
  BY <1>9, <1>12, <1>13, Zenon DEF Powers, V


LEMMA Remainder ==
    ASSUME NEW x \in Int, NEW y \in Nat \ {0}
    PROVE  x % y \in 0..(y - 1) /\ x = (x % y) + y * (x \div y)
OBVIOUS

LEMMA DividedBetween ==
    ASSUME NEW x \in Int, NEW low \in Int, NEW end \in Int,
           Base * low <= x, x < Base * end
    PROVE  low <= x \div Base /\ x \div Base < end
<1> DEFINE q == x \div Base
<1>1. Base \in Nat \ {0}
  BY BaseAssumption, FragmentAssumption
<1>2. q \in Int /\ Base * q <= x /\ x < Base * q + Base
  BY <1>1, Quotient
<1> HIDE DEF q
<1>3. Base * q \in Int /\ Base * low \in Int /\ Base * end \in Int
  BY <1>1, <1>2
<1>4. ~(q < low)
  <2>1. q < low => Base * q + Base <= Base * low
    BY <1>1, <1>2, TimesOrdered
  <2> QED
    BY <1>1, <1>2, <1>3, <2>1
<1>5. ~(end < q)
  <2>1. end < q => Base * end + Base <= Base * q
    BY <1>1, <1>2, TimesOrdered
  <2> QED
    BY <1>1, <1>2, <1>3, <2>1
<1>6. q # end
  BY <1>1, <1>2, <1>3
<1> QED
  BY <1>2, <1>4, <1>5, <1>6 DEF q

\* The highest digit of a number is what its range tells.
LEMMA HighestDigit ==
    ASSUME NEW n \in Int, NEW w \in 1..8, NEW high, Digits(high, n, w),
           NEW power, Powers(power), NEW low \in Int, NEW end \in Int,
           low * power[w - 1] <= n, n < end * power[w - 1]
    PROVE  low <= high[w] /\ high[w] < end
<1> DEFINE R(i) == low * power[w - i] <= high[i] /\ high[i] < end * power[w - i]
           S == {k \in Nat : k + 1 <= w => R(k + 1)}
<1>1. w \in Nat /\ w <= 8 /\ w >= 1
  OBVIOUS
<1>2. Base \in Nat \ {0}
  BY BaseAssumption, FragmentAssumption
<1>3. \A i \in 1..w : high[i] \in Int
  BY DEF Digits
<1>4. 0 \in S
  <2>1. R(1)
    BY DEF Digits
  <2> QED
    BY <2>1
<1>5. ASSUME NEW k \in S PROVE k + 1 \in S
  <2> DEFINE i == k + 1
             j == i + 1
             p == power[w - j]
             x == high[i]
  <2>1. k \in Nat /\ i \in Nat
    OBVIOUS
  <2> SUFFICES ASSUME j <= w PROVE R(j)
    BY <2>1
  <2>2. i \in 1..w /\ j \in 2..w /\ w - i \in 1..8 /\ w - j \in 0..8 /\ w - i - 1 = w - j /\ j - 1 = i
    BY <1>1, <2>1
  <2>3. R(i)
    BY <2>1, <2>2
  <2> HIDE DEF R, i
  <2>4. power[w - i] = Base * p /\ p \in Nat \ {0}
    BY <2>2, Zenon DEF Powers
  <2>5. high[j] = x \div Base /\ x \in Int
    BY <1>3, <2>2, Zenon DEF Digits
  <2>6. low * (Base * p) <= x /\ x < end * (Base * p)
    BY <2>3, <2>4, Zenon DEF R
  <2> HIDE DEF p, x
  <2>7. low * p \in Int /\ end * p \in Int
    BY <2>4
  <2>8. low * (Base * p) = Base * (low * p) /\ end * (Base * p) = Base * (end * p)
    BY <1>2, <2>4
  <2>9. Base * (low * p) <= x /\ x < Base * (end * p)
    BY <2>6, <2>8, Zenon
  <2>10. low * p <= x \div Base /\ x \div Base < end * p
    BY <2>5, <2>7, <2>9, DividedBetween, Zenon
  <2> QED
    BY <2>5, <2>10, Zenon DEF R, p
<1>6. S = Nat
  <2>1. S \in SUBSET Nat
    OBVIOUS
  <2> HIDE DEF S
  <2> QED
    BY <1>4, <1>5, <2>1, Induction, Zenon
<1>7. R(w)
  <2>1. w - 1 \in Nat /\ w - 1 + 1 = w /\ w <= w
    BY <1>1
  <2>2. w - 1 \in S
    <3> HIDE DEF S
    <3> QED
      BY <1>6, <2>1
  <2> HIDE DEF R
  <2> QED
    BY <2>1, <2>2
<1>8. w - w = 0 /\ w \in 1..w
  BY <1>1
<1>9. power[w - w] = 1
  BY <1>8, Zenon DEF Powers
<1>10. high[w] \in Int
  BY <1>3, <1>8
<1> QED
  BY <1>7, <1>9, <1>10

\* The reader puts the digits together to the number again, if the highest one
\* tells what its sign is.
LEMMA NumberOfDigits ==
    ASSUME NEW kind \in Number \ {"bool"}, NEW w \in {1, 2, 4, 8}, w <= Width[kind],
           NEW n \in Int, NEW high, Digits(high, n, w),
           kind \in Signed => w > 1 /\ -(Base \div 2) <= high[w] /\ high[w] < Base \div 2,
           kind \notin Signed => 0 <= high[w] /\ high[w] < Base
    PROVE  number(kind, [i \in 1..w |-> high[i] % Base]) = n
<1> DEFINE b == [i \in 1..w |-> high[i] % Base]
           width == Max({1} \cup {v \in {2, 4, 8} : v <= Width[kind] /\ v <= Len(b)})
           signed == kind \in Signed /\ width > 1 /\ 2 * b[width] >= Base
           Def(f) == [i \in 1..width |-> IF i = width THEN (IF signed THEN b[i] - Base ELSE b[i])
                                         ELSE b[i] + Base * f[i + 1]]
           from == CHOOSE f : f = Def(f)
<1>1. /\ Base \in Nat \ {0} /\ w \in Nat \ {0}
      /\ 2 * (Base \div 2) = Base
  BY BaseAssumption, FragmentAssumption
<1>2. \A i \in 1..w : high[i] \in Int /\ b[i] = high[i] % Base /\ b[i] \in 0..(Base - 1)
                      /\ high[i] = b[i] + Base * (high[i] \div Base)
  <2> SUFFICES ASSUME NEW i \in 1..w
               PROVE  high[i] \in Int /\ b[i] = high[i] % Base /\ b[i] \in 0..(Base - 1)
                      /\ high[i] = b[i] + Base * (high[i] \div Base)
    OBVIOUS
  <2>1. high[i] \in Int /\ b[i] = high[i] % Base
    BY DEF Digits
  <2> QED
    BY <1>1, <2>1, Remainder, Zenon
<1>3. Len(b) = w
  OBVIOUS
<1> HIDE DEF b
<1>4. width = w
  <2> DEFINE W == {1} \cup {v \in {2, 4, 8} : v <= Width[kind] /\ v <= Len(b)}
  <2>1. w \in W /\ \A v \in W : w >= v /\ v \in Nat
    BY <1>3
  <2>2. Max(W) \in W /\ \A v \in W : Max(W) >= v
    BY <2>1 DEF Max
  <2> HIDE DEF W
  <2> DEFINE m == Max(W)
  <2>3. m \in W /\ \A v \in W : m >= v
    BY <2>2
  <2> HIDE DEF m
  <2>4. m = w
    BY <1>1, <2>1, <2>3
  <2> QED
    BY <2>4, Zenon DEF W, m
<1>5. number(kind, b) = from[1]
  BY Zenon DEF number
<1> HIDE DEF width, from
<1>6. high[w] = IF signed THEN b[w] - Base ELSE b[w]
  <2> DEFINE x == high[w]
             d == b[w]
             q == x \div Base
             half == Base \div 2
  <2>1. x \in Int /\ d \in 0..(Base - 1) /\ x = d + Base * q
    BY <1>1, <1>2
  <2>2. q \in Int /\ Base * q \in Int
    BY <1>1, <2>1
  <2>3. signed = (kind \in Signed /\ w > 1 /\ 2 * d >= Base)
    BY <1>4, Zenon
  <2>4. half \in Nat /\ 2 * half = Base
    BY <1>1
  <2>5. kind \in Signed => w > 1 /\ -half <= x /\ x < half
    OBVIOUS
  <2>6. kind \notin Signed => 0 <= x /\ x < Base
    OBVIOUS
  <2> HIDE DEF x, d, q, half, signed
  <2>7. q >= 1 => Base * q >= Base
    <3>1. 0 < q => Base * 0 + Base <= Base * q
      BY <1>1, <2>2, TimesOrdered
    <3> QED
      BY <1>1, <2>2, <3>1
  <2>8. q <= -1 => Base * q <= -Base
    <3>1. q < 0 => Base * q + Base <= Base * 0
      BY <1>1, <2>2, TimesOrdered
    <3> QED
      BY <1>1, <2>2, <3>1
  <2>9. q = 0 => Base * q = 0
    BY <1>1
  <2>10. q < -1 => Base * q + Base <= -Base
    <3>1. q < -1 => Base * q + Base <= Base * (-1)
      BY <1>1, <2>2, TimesOrdered
    <3>2. Base * (-1) = -Base
      BY <1>1
    <3> QED
      BY <1>1, <2>2, <3>1, <3>2
  <2>11. q = -1 => Base * q = -Base
    BY <1>1
  <2>12. CASE kind \in Signed
    <3>1. q = 0 \/ q = -1
      BY <1>1, <2>1, <2>2, <2>4, <2>5, <2>7, <2>10, <2>12
    <3>2. IF 2 * d >= Base THEN x = d - Base ELSE x = d
      BY <1>1, <2>1, <2>2, <2>4, <2>5, <2>9, <2>11, <2>12, <3>1
    <3>3. signed <=> 2 * d >= Base
      BY <2>3, <2>5, <2>12
    <3>4. x = IF signed THEN d - Base ELSE d
      BY <3>2, <3>3
    <3> QED
      BY <3>4, Zenon DEF x, d
  <2>13. CASE kind \notin Signed
    <3>1. q = 0
      BY <1>1, <2>1, <2>2, <2>6, <2>7, <2>8, <2>13
    <3>2. x = d
      BY <2>1, <2>9, <3>1
    <3>3. ~signed
      BY <2>3, <2>13
    <3> QED
      BY <3>2, <3>3, Zenon DEF x, d
  <2> QED
    BY <2>12, <2>13
<1> HIDE DEF signed
<1>7. \A i \in 1..w : i # w => high[i] = b[i] + Base * high[i + 1]
  <2> SUFFICES ASSUME NEW i \in 1..w, i # w PROVE high[i] = b[i] + Base * high[i + 1]
    OBVIOUS
  <2> DEFINE j == i + 1
  <2>1. j \in 2..w /\ j - 1 = i
    BY <1>1
  <2> HIDE DEF j
  <2>2. high[j] = high[i] \div Base
    BY <2>1, Zenon DEF Digits
  <2> QED
    BY <1>2, <2>2, Zenon DEF j
<1>8. high = Def(high)
  <2>1. high = [i \in 1..w |-> high[i]]
    BY DEF Digits
  <2>2. \A i \in 1..w : high[i] = IF i = w THEN (IF signed THEN b[i] - Base ELSE b[i])
                                  ELSE b[i] + Base * high[i + 1]
    BY <1>6, <1>7, Zenon
  <2> QED
    BY <1>4, <2>1, <2>2, Zenon
<1>9. from = Def(from)
  BY <1>8, Zenon DEF from
<1>10. \A i \in 1..w : from[i] = IF i = w THEN (IF signed THEN b[i] - Base ELSE b[i])
                                 ELSE b[i] + Base * from[i + 1]
  BY <1>4, <1>9, Zenon
<1> DEFINE S == {k \in Nat : k < w => from[w - k] = high[w - k]}
<1>11. 0 \in S
  <2>1. w - 0 = w /\ w \in 1..w
    BY <1>1
  <2> QED
    BY <1>6, <1>10, <2>1, Zenon
<1>12. ASSUME NEW k \in S PROVE k + 1 \in S
  <2> SUFFICES ASSUME k + 1 < w PROVE from[w - (k + 1)] = high[w - (k + 1)]
    OBVIOUS
  <2> DEFINE i == w - (k + 1)
  <2>1. i \in 1..w /\ i # w /\ i + 1 = w - k
    BY <1>1
  <2>2. from[w - k] = high[w - k]
    BY <1>1
  <2> HIDE DEF i
  <2>3. from[i] = b[i] + Base * from[i + 1] /\ high[i] = b[i] + Base * high[i + 1]
    BY <1>7, <1>10, <2>1, Zenon
  <2> QED
    BY <2>1, <2>2, <2>3, Zenon DEF i
<1>13. S = Nat
  <2>1. S \in SUBSET Nat
    OBVIOUS
  <2> HIDE DEF S
  <2> QED
    BY <1>11, <1>12, <2>1, Induction, Zenon
<1>14. from[1] = high[1]
  <2>1. w - 1 \in Nat /\ w - 1 < w /\ w - (w - 1) = 1
    BY <1>1
  <2>2. w - 1 \in S
    <3> HIDE DEF S
    <3> QED
      BY <1>13, <2>1
  <2> QED
    BY <2>1, <2>2
<1> QED
  BY <1>5, <1>14, Zenon DEF Digits, b


\* What the types that a number is sent and read as have in common.
LEMMA TypesOfNumbers ==
    ASSUME NEW from, NEW to, <<from, to>> \in NumberTypes
    PROVE  /\ from \in Number /\ to \in Number
           /\ Sent(from) \in {1, 2, 4, 8} /\ Sent(from) <= Width[to]
           /\ from \in Signed <=> to \in Signed
           /\ from \in Signed => Sent(from) > 1
           /\ from = "bool" <=> to = "bool"
           /\ from = "bool" => Sent(from) = 1
<1>1. \A kind \in Number : Width[kind] \in {1, 2, 4, 8}
  BY DEF Number, Width
<1>2. /\ Unsigned \subseteq Number /\ Signed \subseteq Number
      /\ "bool" \in Number /\ "float32" \in Number
      /\ Unsigned \cap Signed = {} /\ "float32" \notin Signed /\ "bool" \notin Signed \cup Unsigned
  BY DEF Number, Width, Unsigned, Signed
<1>3. /\ Sent("bool") = 1 /\ Sent("float32") = 4 /\ Sent("int16") = 2 /\ Sent("int32") = 4 /\ Sent("int64") = 4
      /\ \A kind \in Number : Sent(kind) = IF kind = "int64" THEN 4 ELSE Width[kind]
  BY DEF Sent, Width
<1>4. \/ from \in Unsigned /\ to \in Unsigned
      \/ from \in Signed /\ to \in Signed
      \/ from = "bool" /\ to = "bool"
      \/ from = "float32" /\ to = "float32"
  BY Zenon DEF NumberTypes
<1>5. Sent(from) <= Width[to]
  BY DEF NumberTypes
<1>6. \A kind \in Signed : Sent(kind) \in {2, 4}
  BY <1>3 DEF Signed
<1>7. from \in Number /\ to \in Number
  BY <1>2, <1>4
<1>8. Sent(from) \in {1, 2, 4, 8}
  BY <1>1, <1>3, <1>7
<1>9. from \in Signed => Sent(from) > 1
  BY <1>6
<1> QED
  BY <1>2, <1>3, <1>4, <1>5, <1>7, <1>8, <1>9

\* A number that fits in what is sent of it is read as it was.
LEMMA NumberRead ==
    ASSUME NEW from, NEW to, <<from, to>> \in NumberTypes, NEW n \in Int, n \in Sendable(from)
    PROVE  ReadsNarrow(from, to, n)
<1> DEFINE w == Sent(from)
           b == LittleEndian(n, w)
<1>1. /\ from \in Number /\ to \in Number
      /\ w \in {1, 2, 4, 8} /\ w <= Width[to]
      /\ from \in Signed <=> to \in Signed
      /\ from \in Signed => w > 1
      /\ from = "bool" <=> to = "bool"
      /\ from = "bool" => w = 1
  BY TypesOfNumbers, Zenon
<1> HIDE DEF w
<1>2. w \in Nat \ {0} /\ w \in 1..8 /\ w - 1 \in 0..8
  BY <1>1
<1>3. PICK high : Digits(high, n, w) /\ b = [i \in 1..w |-> high[i] % Base]
  BY <1>2, DigitsOf
<1>4. b \in Stream /\ Len(b) = w
  <2>1. Base \in Nat \ {0}
    BY BaseAssumption, FragmentAssumption
  <2>2. \A i \in 1..w : high[i] % Base \in Byte
    BY <2>1, <1>3, Remainder DEF Digits, Byte
  <2>3. b \in [1..w -> Byte]
    BY <1>3, <2>2
  <2> HIDE DEF b
  <2> QED
    BY <1>2, <2>3 DEF Stream
<1> HIDE DEF b
<1>5. b # <<>> /\ Len(b) <= Fragment
  BY <1>2, <1>4, EmptySeq, FragmentAssumption
<1>6. 1 \in Byte
  BY BaseAssumption, FragmentAssumption DEF Byte
<1> DEFINE g == Added(NoBuckets, 1, <<b>>)
<1>7. 1 \notin DOMAIN NoBuckets /\ readBytes(g, 1) = b
  BY DEF NoBuckets, Added, readBytes
<1>8. Put(NoBuckets, 1, b, FALSE) = g
  BY <1>5, <1>7, PutFirst, Zenon
<1> HIDE DEF g
<1>9. /\ Item(1, b) \in Stream
      /\ Reads(Item(1, b), NoBuckets, FALSE, Put(NoBuckets, 1, b, FALSE), 1 = 0 /\ b = <<>>)
  BY <1>4, <1>5, <1>6, ReadsItem, Zenon
<1>10. read(Item(1, b)) = [err |-> "none", h |-> g]
  BY <1>8, <1>9, ReadWhole
<1>11. number(to, b) = n
  <2>1. CASE from = "bool"
    <3>1. n \in {0, 1}
      BY <1>1, <2>1, SendableNumbers
    <3>2. b[1] = n % Base /\ w = 1
      BY <1>1, <1>3, <2>1 DEF Digits
    <3>3. n % Base = n
      BY <3>1, BaseAssumption, FragmentAssumption
    <3> QED
      BY <1>1, <2>1, <3>1, <3>2, <3>3 DEF number
  <2>2. CASE from # "bool"
    <3>1. PICK power :
             /\ Powers(power)
             /\ \A kind \in Number :
                   Sendable(kind) =
                       IF kind = "bool" THEN {0, 1}
                       ELSE IF kind \in Signed
                            THEN (-((Base \div 2) * power[Sent(kind) - 1]))..((Base \div 2) * power[Sent(kind) - 1] - 1)
                       ELSE 0..(power[Sent(kind)] - 1)
      BY SendableNumbers, Zenon
    <3> DEFINE half == Base \div 2
               p == power[w - 1]
    <3>2. half \in Nat /\ Base \in Nat
      BY BaseAssumption, FragmentAssumption
    <3>3. p \in Nat \ {0} /\ power[w] = Base * p
      BY <1>2, <3>1, Zenon DEF Powers
    <3>4. Sendable(from) = IF from \in Signed THEN (-(half * p))..(half * p - 1) ELSE 0..(power[w] - 1)
      BY <1>1, <2>2, <3>1, Zenon DEF w
    <3> HIDE DEF half, p
    <3>5. half * p \in Int /\ Base * p \in Int /\ (-half) * p = -(half * p) /\ 0 * p = 0
      BY <3>2, <3>3
    <3>6. CASE from \in Signed
      <4>1. (-half) * p <= n /\ n < half * p
        BY <3>4, <3>5, <3>6
      <4>2. -half <= high[w] /\ high[w] < half
        <5>1. -half \in Int /\ half \in Int
          BY <3>2
        <5> QED
          BY <1>2, <1>3, <3>1, <4>1, <5>1, HighestDigit DEF p
      <4>3. number(to, [i \in 1..w |-> high[i] % Base]) = n
        BY <1>1, <1>3, <2>2, <3>6, <4>2, NumberOfDigits DEF half
      <4> QED
        BY <1>3, <4>3, Zenon
    <3>7. CASE from \notin Signed
      <4>1. 0 * p <= n /\ n < Base * p
        BY <3>3, <3>4, <3>5, <3>7
      <4>2. 0 <= high[w] /\ high[w] < Base
        BY <1>2, <1>3, <3>1, <3>2, <4>1, HighestDigit DEF p
      <4>3. to \in Number \ {"bool"} /\ to \notin Signed
        BY <1>1, <2>2, <3>7
      <4>4. number(to, [i \in 1..w |-> high[i] % Base]) = n
        BY <1>1, <1>3, <4>2, <4>3, NumberOfDigits, Zenon
      <4> QED
        BY <1>3, <4>4, Zenon
    <3> QED
      BY <3>6, <3>7
  <2> QED
    BY <2>1, <2>2
<1> DEFINE d == read(Item(1, b))
<1>12. d.err = "none" /\ d.h = g
  BY <1>10
<1> HIDE DEF d
<1>13. writeNumber(1, from, n) = Item(1, b)
  BY Zenon DEF writeNumber, b, w
<1> QED
  BY <1>7, <1>11, <1>12, <1>13, Zenon DEF ReadsNarrow, d



-----------------------------------------------------------------------------
(* For every input *)

\* Whatever curve a controller sends, evaluate has a temperature for it from
\* when its first point is reached until its last one is, ends included.
THEOREM CurveIsCovered ==
    ASSUME input.of = "curve" => input \in CurveInput
    PROVE  CurveCovered
<1> SUFFICES ASSUME input \in CurveInput PROVE Covers(input.curve, input.offset)
  BY Zenon DEF CurveCovered
<1>1. input.curve \in Seq(Point) /\ input.offset \in Int
  BY DEF CurveInput
<1> QED
  BY <1>1, CurveCovers

\* Where no two points are at one time with nothing between them, every
\* temperature of a curve lies between those of its points, and is a point's
\* own when that one is reached.
THEOREM CurveIsInterpolated ==
    ASSUME input.of = "curve" => input \in CurveInput
    PROVE  CurveInterpolates
<1> SUFFICES ASSUME input \in CurveInput
             PROVE  Interpolates(input.curve, input.offset, input.brightness, <<10, 100>>)
  BY Zenon DEF CurveInterpolates
<1>1. input.curve \in Seq(Point) /\ input.offset \in Int /\ input.brightness \in Int
  BY DEF CurveInput
<1>2. <<10, 100>> \in Int \X Int
  OBVIOUS
<1> QED
  BY <1>1, <1>2, CurveStaysInRange

\* Whatever accessories a host adds, with whatever ids of its own, and whatever
\* it adds to them at the end for the next start: they keep their identifiers.
THEOREM IdentifiersAreKept ==
    ASSUME NEW Names,
           input.of = "accessories" =>
              /\ input \in AccessoriesInput(Names)
              /\ Enlarges(input.larger, input.accessories)
    PROVE  IdentifiersKept
<1> SUFFICES ASSUME input \in AccessoriesInput(Names), Enlarges(input.larger, input.accessories)
             PROVE  Identifies(input.accessories, input.larger)
  BY Zenon DEF IdentifiersKept
<1>1. input.accessories \in AccessoryList(Names) /\ input.larger \in AccessoryList(Names)
  BY DEF AccessoriesInput, AccessoryList, Ids
<1> QED
  BY <1>1, IdentifiersStable

\* Whatever values of whatever lengths are written, each tag once, as one value
\* or as a list: the reader has them again, under their tags and in their order.
THEOREM ItemsAreReadBack ==
    ASSUME input.of = "items" => input \in ItemsInput
    PROVE  ItemsReadBack
<1> SUFFICES ASSUME input \in ItemsInput PROVE ReadsItems(input.lists, input.tags)
  BY Zenon DEF ItemsReadBack
<1>1. input \in [of : {"items"}, lists : Seq(Seq(Seq(Byte))), tags : Seq(Byte)]
  BY Zenon DEF ItemsInput
<1>2. input.lists \in Seq(Seq(Stream)) /\ input.tags \in Seq(Byte)
  BY <1>1 DEF Stream
<1>3. /\ DOMAIN input.tags = DOMAIN input.lists /\ IsInjective(input.tags)
      /\ \A k \in DOMAIN input.lists :
            /\ input.lists[k] # <<>>
            /\ \A j \in DOMAIN input.lists[k] :
                  input.lists[k][j] # <<>> /\ (j > 1 => Len(input.lists[k][j]) <= Fragment)
  BY Zenon DEF ItemsInput
<1> QED
  BY <1>2, <1>3, ItemsRead, Zenon

\* Whatever number fits in the bytes that are sent of its type: the reader makes
\* the same number of them, for a field of that type and for a wider one.
THEOREM NumbersAreKept ==
    ASSUME input.of = "number" => input \in NumberInput
    PROVE  NarrowNumbers
<1> SUFFICES ASSUME input \in NumberInput PROVE ReadsNarrow(input.from, input.to, input.number)
  BY Zenon DEF NarrowNumbers
<1>1. /\ input \in [of : {"number"}, from : Number, to : Number, number : Int]
      /\ <<input.from, input.to>> \in NumberTypes /\ input.number \in Sendable(input.from)
  BY Zenon DEF NumberInput
<1>2. input.number \in Int
  BY <1>1
<1> QED
  BY <1>1, <1>2, NumberRead, Zenon

=============================================================================
