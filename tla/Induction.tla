------------------------------ MODULE Induction ------------------------------
(***************************************************************************)
(* Induction over the naturals, for sets instead of predicates, and what   *)
(* follows from it: values computed step by step, counts of indices, and   *)
(* rising sequences.                                                       *)
(***************************************************************************)
EXTENDS Integers, FiniteSetTheorems, SequenceTheorems, WellFoundedInduction, TLAPS

LEMMA LeastNatural ==
  ASSUME NEW T, T \subseteq Nat, T # {}
  PROVE  \E x \in T : \A y \in T : x <= y
  <1> DEFINE R == OpToRel(<, Nat)
  <1>1. IsWellFoundedOn(R, Nat)
    BY NatLessThanWellFounded
  <1>2. \A x, y \in Nat : x < y => <<x, y>> \in R
    BY DEF OpToRel
  <1> HIDE DEF R
  <1>3. PICK x \in T : \A y \in T : ~ (<<y, x>> \in R)
    BY <1>1, WFMin
  <1>4. ASSUME NEW y \in T PROVE x <= y
    <2>1. x \in Nat /\ y \in Nat
      OBVIOUS
    <2>2. ~ (y < x)
      BY <1>2, <1>3, <2>1
    <2> QED BY <2>1, <2>2
  <1> QED BY <1>4

\* A set of numbers that holds the first and with each the next holds all of them.
LEMMA SetInduction ==
  ASSUME NEW n \in Nat, NEW S, 0 \in S, \A i \in 0 .. n - 1 : i \in S => i + 1 \in S
  PROVE  0 .. n \subseteq S
  <1> SUFFICES ASSUME ~(0 .. n \subseteq S) PROVE FALSE
    OBVIOUS
  <1> DEFINE T == (0 .. n) \ S
  <1>1. T \subseteq Nat /\ T # {}
    OBVIOUS
  <1> HIDE DEF T
  <1>2. PICK x \in T : \A y \in T : x <= y
    BY <1>1, LeastNatural
  <1>3. x \in 1 .. n /\ x \notin S
    BY <1>2 DEF T
  <1>4. x - 1 \notin T
    BY <1>2, <1>3
  <1>5. x - 1 \in 0 .. n - 1 /\ x - 1 \in S /\ (x - 1) + 1 = x
    BY <1>3, <1>4 DEF T
  <1> QED BY <1>3, <1>5

\* A function whose every value is a step from the one before exists, and its values
\* are where the steps stay.
StepsFrom(g, first, step, n) == g = [i \in 0 .. n |-> IF i = 0 THEN first ELSE step[<<i, g[i - 1]>>]]

LEMMA StepByStep ==
  ASSUME NEW n \in Nat, NEW V, NEW first \in V, NEW step \in [(1 .. n) \X V -> V]
  PROVE  \E g \in [0 .. n -> V] : StepsFrom(g, first, step, n)
  <1> DEFINE Ok(k, g) == /\ g \in [0 .. k -> V]
                         /\ g = [i \in 0 .. k |-> IF i = 0 THEN first ELSE step[<<i, g[i - 1]>>]]
             S == {k \in 0 .. n : \E g : Ok(k, g)}
  <1>1. 0 \in S
    <2> DEFINE g == [i \in 0 .. 0 |-> first]
    <2>1. g \in [0 .. 0 -> V]
      OBVIOUS
    <2>2. g = [i \in 0 .. 0 |-> IF i = 0 THEN first ELSE step[<<i, g[i - 1]>>]]
      OBVIOUS
    <2>3. Ok(0, g)
      BY <2>1, <2>2
    <2> HIDE DEF g, Ok
    <2> QED BY <2>3
  <1>2. ASSUME NEW k \in 0 .. n - 1, k \in S PROVE k + 1 \in S
    <2>1. PICK g : Ok(k, g)
      BY <1>2
    <2> DEFINE next == step[<<k + 1, g[k]>>]
               h == [i \in 0 .. k + 1 |-> IF i = k + 1 THEN next ELSE g[i]]
    <2>2. k \in 0 .. k /\ k + 1 \in 1 .. n /\ g[k] \in V
      BY <2>1
    <2>3. next \in V
      BY <2>2
    <2>4. h \in [0 .. k + 1 -> V]
      <3> HIDE DEF next
      <3> SUFFICES ASSUME NEW i \in 0 .. k + 1 PROVE h[i] \in V
        OBVIOUS
      <3>1. i # k + 1 => i \in 0 .. k
        OBVIOUS
      <3> QED BY <2>1, <2>3, <3>1
    <2>5. h = [i \in 0 .. k + 1 |-> IF i = 0 THEN first ELSE step[<<i, h[i - 1]>>]]
      <3> SUFFICES ASSUME NEW i \in 0 .. k + 1
                   PROVE  h[i] = IF i = 0 THEN first ELSE step[<<i, h[i - 1]>>]
        OBVIOUS
      <3>1. CASE i = k + 1
        <4>1. i # 0 /\ i - 1 = k /\ k \in 0 .. k + 1 /\ k # k + 1
          BY <3>1
        <4>2. h[k] = g[k]
          BY <4>1
        <4> QED BY <3>1, <4>1, <4>2
      <3>2. CASE i # k + 1
        <4>1. i \in 0 .. k /\ (i # 0 => i - 1 \in 0 .. k + 1 /\ i - 1 # k + 1)
          BY <3>2
        <4>2. h[i] = g[i] /\ (i # 0 => h[i - 1] = g[i - 1])
          BY <3>2, <4>1
        <4>3. g[i] = IF i = 0 THEN first ELSE step[<<i, g[i - 1]>>]
          <5> DEFINE G(f) == [j \in 0 .. k |-> IF j = 0 THEN first ELSE step[<<j, f[j - 1]>>]]
          <5>1. g = G(g)
            BY <2>1
          <5>2. G(g)[i] = IF i = 0 THEN first ELSE step[<<i, g[i - 1]>>]
            BY <4>1
          <5> HIDE DEF G
          <5> QED BY <5>1, <5>2
        <4> QED BY <4>2, <4>3
      <3> QED BY <3>1, <3>2
    <2> HIDE DEF h
    <2>6. k + 1 \in 0 .. n
      OBVIOUS
    <2> QED BY <2>4, <2>5, <2>6
  <1> HIDE DEF S
  <1>3. n \in S
    <2>1. 0 .. n \subseteq S
      BY <1>1, <1>2, SetInduction
    <2> QED BY <2>1
  <1> QED BY <1>3 DEF S, StepsFrom

\* A function that either has a value at once or asks itself at a place of a lower
\* rank exists, and has the values that are there at once.
TailFrom(f, D, base, value, next) == f = [d \in D |-> IF d \in base THEN value[d] ELSE f[next[d]]]

LEMMA TailRecursion ==
  ASSUME NEW D, NEW V, NEW base, NEW value \in [D -> V], NEW next \in [D -> D], NEW n \in Nat,
         NEW rank \in [D -> 0 .. n], \A d \in D \ base : rank[next[d]] < rank[d]
  PROVE  \E f \in [D -> V] : TailFrom(f, D, base, value, next)
  <1> DEFINE T == [D -> V]
             Once(g) == [d \in D |-> IF d \in base THEN value[d] ELSE g[next[d]]]
             step == [x \in (1 .. n + 1) \X T |-> Once(x[2])]
  <1>1. ASSUME NEW g \in T PROVE Once(g) \in T
    OBVIOUS
  <1>2. step \in [(1 .. n + 1) \X T -> T]
    <2> HIDE DEF T, Once
    <2> QED BY <1>1
  <1>3. value \in T /\ n + 1 \in Nat
    OBVIOUS
  <1>4. PICK g \in [0 .. n + 1 -> T] : StepsFrom(g, value, step, n + 1)
    <2> HIDE DEF T, step
    <2> QED BY <1>2, <1>3, StepByStep
  <1>5. ASSUME NEW k \in 0 .. n PROVE g[k] \in T /\ g[k + 1] = Once(g[k])
    <2> HIDE DEF T, Once
    <2>1. /\ k + 1 \in 0 .. n + 1 /\ k + 1 \in 1 .. n + 1 /\ k + 1 # 0 /\ (k + 1) - 1 = k /\ g[k] \in T
      OBVIOUS
    <2>2. g[k + 1] = step[<<k + 1, g[k]>>]
      <3> HIDE DEF step
      <3> QED BY <1>4, <2>1 DEF StepsFrom
    <2> QED BY <2>1, <2>2
  <1>6. g[0] = value
    <2>1. 0 \in 0 .. n + 1
      OBVIOUS
    <2> HIDE DEF step, T
    <2> QED BY <1>4, <2>1 DEF StepsFrom
  <1> DEFINE Stable(k) == \A d \in D : rank[d] <= k => g[k + 1][d] = g[k][d]
             S == {k \in 0 .. n : Stable(k)}
  <1>7. 0 \in S
    <2>1. ASSUME NEW d \in D, rank[d] <= 0 PROVE d \in base
      <3>1. rank[d] \in 0 .. n /\ next[d] \in D
        OBVIOUS
      <3>2. rank[next[d]] \in 0 .. n
        BY <3>1
      <3>3. ~ (rank[next[d]] < rank[d])
        BY <2>1, <3>1, <3>2
      <3> QED BY <3>3
    <2>2. g[0 + 1] = Once(g[0])
      BY <1>5
    <2>3. \A d \in D : rank[d] <= 0 => g[0 + 1][d] = g[0][d]
      BY <1>6, <2>1, <2>2
    <2> QED BY <2>3
  <1>8. ASSUME NEW k \in 0 .. n - 1, k \in S PROVE k + 1 \in S
    <2>1. k \in 0 .. n /\ k + 1 \in 0 .. n /\ Stable(k)
      BY <1>8
    <2>2. g[k + 1] = Once(g[k]) /\ g[(k + 1) + 1] = Once(g[k + 1])
      BY <1>5, <2>1
    <2>3. ASSUME NEW d \in D, rank[d] <= k + 1 PROVE g[(k + 1) + 1][d] = g[k + 1][d]
      <3>1. CASE d \in base
        BY <2>2, <3>1
      <3>2. CASE d \notin base
        <4>1. next[d] \in D /\ rank[next[d]] <= k
          BY <2>3, <3>2
        <4>2. g[k + 1][next[d]] = g[k][next[d]]
          BY <2>1, <4>1
        <4> QED BY <2>2, <3>2, <4>2
      <3> QED BY <3>1, <3>2
    <2> HIDE DEF Once
    <2> QED BY <2>1, <2>3
  <1> DEFINE f == g[n + 1]
  <1>9. Stable(n)
    <2>1. n \in S
      <3> HIDE DEF S
      <3>1. 0 .. n \subseteq S
        BY <1>7, <1>8, SetInduction
      <3> QED BY <3>1
    <2> QED BY <2>1
  <1>10. f = Once(g[n]) /\ f \in T
    <2>1. n \in 0 .. n
      OBVIOUS
    <2> HIDE DEF Once, T
    <2> QED BY <1>1, <1>5, <2>1
  <1>11. \A d \in D : f[next[d]] = g[n][next[d]]
    BY <1>9
  <1>12. f = Once(f)
    BY <1>10, <1>11
  <1> HIDE DEF f
  <1> QED BY <1>10, <1>12 DEF TailFrom

-----------------------------------------------------------------------------
(* Rising sequences of numbers: there is one of each set.                    *)

Rises(s, S) ==
  /\ s \in Seq(Nat) /\ \A j, k \in 1 .. Len(s) : j < k => s[j] < s[k]
  /\ \A k \in 1 .. Len(s) : s[k] \in S
  /\ \A m \in S : \E k \in 1 .. Len(s) : s[k] = m

LEMMA RisesAlike ==
  ASSUME NEW S, NEW s, NEW t, Rises(s, S), Rises(t, S), NEW n \in 0 .. Len(s)
  PROVE  n <= Len(t) /\ \A k \in 1 .. n : s[k] = t[k]
<1>1. PICK a \in Seq(Nat), b \in Seq(Nat), l \in Nat, m \in Nat :
        a = s /\ b = t /\ l = Len(a) /\ m = Len(b)
  BY LenProperties DEF Rises
<1>2. \A k \in 1 .. l : a[k] \in Nat /\ a[k] \in S
  BY <1>1 DEF Rises
<1>3. \A k \in 1 .. m : b[k] \in Nat /\ b[k] \in S
  BY <1>1 DEF Rises
<1>4. /\ \A j, k \in 1 .. l : j < k => a[j] < a[k]
      /\ \A j, k \in 1 .. m : j < k => b[j] < b[k]
      /\ \A x \in S : (\E k \in 1 .. l : a[k] = x) /\ (\E k \in 1 .. m : b[k] = x)
  BY <1>1 DEF Rises
<1> DEFINE Alike(i) == i <= m /\ \A k \in 1 .. i : a[k] = b[k]
           I == {i \in 0 .. l : Alike(i)}
<1>5. 0 \in I
  OBVIOUS
<1>6. ASSUME NEW i \in 0 .. l - 1, i \in I PROVE i + 1 \in I
  <2>1. Alike(i) /\ i + 1 \in 1 .. l
    BY <1>6
  <2>2. PICK j \in 1 .. m : b[j] = a[i + 1]
    BY <1>2, <1>4, <2>1
  <2>3. j >= i + 1
    <3> SUFFICES ASSUME j \in 1 .. i PROVE FALSE
      OBVIOUS
    <3>1. a[j] = b[j] /\ j \in 1 .. l /\ a[j] < a[i + 1]
      BY <1>4, <2>1
    <3> QED
      BY <1>2, <2>1, <2>2, <3>1
  <2>4. i + 1 \in 1 .. m
    BY <2>2, <2>3
  <2>5. PICK k \in 1 .. l : a[k] = b[i + 1]
    BY <1>3, <1>4, <2>4
  <2>6. k >= i + 1
    <3> SUFFICES ASSUME k \in 1 .. i PROVE FALSE
      OBVIOUS
    <3>1. a[k] = b[k] /\ k \in 1 .. m /\ b[k] < b[i + 1]
      BY <1>4, <2>1, <2>4
    <3> QED
      BY <1>3, <2>4, <2>5, <3>1
  <2>7. a[i + 1] = b[i + 1]
    <3>1. a[i + 1] <= a[k]
      BY <1>2, <1>4, <2>1, <2>6
    <3>2. b[i + 1] <= b[j]
      BY <1>3, <1>4, <2>3, <2>4
    <3> QED
      BY <1>2, <1>3, <2>1, <2>2, <2>4, <2>5, <3>1, <3>2
  <2>8. \A x \in 1 .. i + 1 : x \in 1 .. i \/ x = i + 1
    OBVIOUS
  <2> QED
    BY <2>1, <2>4, <2>7, <2>8
<1> HIDE DEF I
<1>7. 0 .. l \subseteq I
  BY <1>5, <1>6, SetInduction
<1> QED
  BY <1>1, <1>7 DEF I

LEMMA RisesOnce ==
  ASSUME NEW S, NEW s, NEW t, Rises(s, S), Rises(t, S)
  PROVE  s = t
<1>1. PICK a \in Seq(Nat), b \in Seq(Nat), l \in Nat, m \in Nat :
        a = s /\ b = t /\ l = Len(a) /\ m = Len(b)
  BY LenProperties DEF Rises
<1>2. l \in 0 .. l /\ m \in 0 .. m
  OBVIOUS
<1>3. l <= m /\ \A k \in 1 .. l : a[k] = b[k]
  BY <1>1, <1>2, RisesAlike
<1>4. m <= l
  BY <1>1, <1>2, RisesAlike
<1>5. Len(a) = Len(b) /\ \A k \in 1 .. Len(a) : a[k] = b[k]
  BY <1>1, <1>3, <1>4
<1>6. a = b
  BY <1>5, SeqEqual
<1> QED
  BY <1>1, <1>6

LEMMA RisesAppended ==
  ASSUME NEW S, NEW s, Rises(s, S), NEW m \in Nat, \A x \in S : x < m
  PROVE  Rises(Append(s, m), S \cup {m})
<1>1. PICK a \in Seq(Nat), l \in Nat : a = s /\ l = Len(a)
  BY LenProperties DEF Rises
<1>2. PICK b \in Seq(Nat) : /\ b = Append(a, m) /\ Len(b) = l + 1 /\ b[l + 1] = m
                            /\ \A k \in 1 .. l : b[k] = a[k]
  <2>1. /\ Append(a, m) \in Seq(Nat) /\ Len(Append(a, m)) = Len(a) + 1
        /\ \A k \in 1 .. Len(a) : Append(a, m)[k] = a[k]
        /\ Append(a, m)[Len(a) + 1] = m
    BY AppendProperties
  <2> QED
    BY <1>1, <2>1
<1>3. \A k \in 1 .. l + 1 : k \in 1 .. l \/ k = l + 1
  OBVIOUS
<1>4. /\ \A j, k \in 1 .. l : j < k => a[j] < a[k]
      /\ \A k \in 1 .. l : a[k] \in S
      /\ \A x \in S : \E k \in 1 .. l : a[k] = x
  BY <1>1 DEF Rises
<1>5. \A j, k \in 1 .. l + 1 : j < k => b[j] < b[k]
  <2> SUFFICES ASSUME NEW j \in 1 .. l + 1, NEW k \in 1 .. l + 1, j < k PROVE b[j] < b[k]
    OBVIOUS
  <2>1. j \in 1 .. l
    OBVIOUS
  <2> QED
    BY <1>2, <1>3, <1>4, <2>1
<1>6. \A k \in 1 .. l + 1 : b[k] \in S \cup {m}
  BY <1>2, <1>3, <1>4
<1>7. \A x \in S \cup {m} : \E k \in 1 .. l + 1 : b[k] = x
  <2>1. ASSUME NEW x \in S PROVE \E k \in 1 .. l + 1 : b[k] = x
    <3>1. PICK k \in 1 .. l : a[k] = x
      BY <1>4
    <3>2. k \in 1 .. l + 1
      OBVIOUS
    <3> QED
      BY <1>2, <3>1, <3>2
  <2>2. l + 1 \in 1 .. l + 1
    OBVIOUS
  <2> QED
    BY <1>2, <2>1, <2>2
<1> QED
  BY <1>1, <1>2, <1>5, <1>6, <1>7 DEF Rises

LEMMA RisesTaken ==
  ASSUME NEW S, NEW s, Rises(s, S), NEW m \in S, \A x \in S : m <= x
  PROVE  s # << >> /\ Head(s) = m /\ Rises(Tail(s), S \ {m})
<1>1. PICK a \in Seq(Nat), l \in Nat : a = s /\ l = Len(a)
  BY LenProperties DEF Rises
<1>2. /\ \A j, k \in 1 .. l : j < k => a[j] < a[k]
      /\ \A k \in 1 .. l : a[k] \in S /\ a[k] \in Nat
      /\ \A x \in S : \E k \in 1 .. l : a[k] = x
  BY <1>1 DEF Rises
<1>3. PICK i \in 1 .. l : a[i] = m
  BY <1>2
<1>4. 1 \in 1 .. l /\ a # << >>
  BY <1>1, <1>3
<1>5. i = 1
  <2> SUFFICES ASSUME 1 < i PROVE FALSE
    BY <1>4
  <2>1. a[1] < a[i] /\ a[1] \in S /\ a[1] \in Nat /\ a[i] \in Nat
    BY <1>2, <1>3, <1>4
  <2>2. m <= a[1]
    BY <2>1
  <2> QED
    BY <1>3, <2>1, <2>2
<1>6. PICK b \in Seq(Nat) : b = Tail(a) /\ Len(b) = l - 1 /\ \A k \in 1 .. Len(b) : b[k] = a[k + 1]
  BY <1>1, <1>4, HeadTailProperties
<1>7. Head(a) = m
  BY <1>1, <1>3, <1>4, <1>5
<1>8. \A k \in 1 .. l - 1 : k + 1 \in 1 .. l /\ 1 < k + 1
  BY <1>4
<1>9. \A k \in 1 .. l - 1 : b[k] \in S \ {m}
  <2> SUFFICES ASSUME NEW k \in 1 .. l - 1 PROVE b[k] \in S \ {m}
    OBVIOUS
  <2>1. b[k] = a[k + 1] /\ k + 1 \in 1 .. l /\ a[1] < a[k + 1]
    BY <1>2, <1>4, <1>6, <1>8
  <2> QED
    BY <1>2, <1>3, <1>4, <1>5, <2>1
<1>10. \A x \in S \ {m} : \E k \in 1 .. l - 1 : b[k] = x
  <2> SUFFICES ASSUME NEW x \in S, x # m PROVE \E k \in 1 .. l - 1 : b[k] = x
    OBVIOUS
  <2>1. PICK k \in 1 .. l : a[k] = x
    BY <1>2
  <2>2. k - 1 \in 1 .. l - 1 /\ (k - 1) + 1 = k
    BY <1>3, <1>5, <2>1
  <2> QED
    BY <1>6, <2>1, <2>2
<1>11. \A j, k \in 1 .. l - 1 : j < k => b[j] < b[k]
  <2> SUFFICES ASSUME NEW j \in 1 .. l - 1, NEW k \in 1 .. l - 1, j < k PROVE b[j] < b[k]
    OBVIOUS
  <2>1. j + 1 \in 1 .. l /\ k + 1 \in 1 .. l /\ j + 1 < k + 1
    OBVIOUS
  <2>2. b[j] = a[j + 1] /\ b[k] = a[k + 1]
    BY <1>6
  <2> QED
    BY <1>2, <2>1, <2>2
<1> QED
  BY <1>1, <1>4, <1>6, <1>7, <1>9, <1>10, <1>11 DEF Rises
=============================================================================
