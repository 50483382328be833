---------------------------------- MODULE Induction ----------------------------------
(***************************************************************************)
(* Induction, recursion and orders, for the proofs about functions on      *)
(* sequences: stated about sets and functions instead of operators, so     *)
(* that they can be cited for what a proof is about.                       *)
(***************************************************************************)
EXTENDS Ordering, Integers, SequencesExt, FiniteSetTheorems, SequenceTheorems, TLAPS

\* A set of numbers that holds 0 and what follows each of its members holds all of
\* them: otherwise the smallest set of the numbers below one that it lacks would not
\* exist, although inclusion of finite sets is well-founded.
LEMMA NatInductionSet ==
  ASSUME NEW S, 0 \in S, \A n \in Nat : n \in S => n + 1 \in S
  PROVE  Nat \subseteq S
  <1> DEFINE below(n) == 0 .. n - 1
             T == {below(n) : n \in Nat \ S}
  <1> SUFFICES ASSUME T # {} PROVE FALSE
    OBVIOUS
  <1>1. T \subseteq FiniteSubsetsOf(Nat)
    <2>1. ASSUME NEW n \in Nat PROVE below(n) \in FiniteSubsetsOf(Nat)
      <3>1. below(n) \subseteq Nat
        OBVIOUS
      <3>2. IsFiniteSet(below(n))
        BY FS_Interval
      <3> QED
        BY <3>1, <3>2 DEF FiniteSubsetsOf
    <2> HIDE DEF below
    <2> QED
      BY <2>1
  <1>2. PICK x \in T : \A y \in T : ~(<<y, x>> \in StrictSubsetOrdering(Nat))
    <2> HIDE DEF T
    <2>1. IsWellFoundedOn(StrictSubsetOrdering(Nat), FiniteSubsetsOf(Nat))
      BY FS_StrictSubsetOrderingWellFounded
    <2> QED
      BY <1>1, <2>1, WFMin
  <1>3. PICK n \in Nat \ S : x = below(n)
    OBVIOUS
  <1>4. n - 1 \in Nat \ S
    OBVIOUS
  <1>5. below(n - 1) \in T
    BY <1>4
  <1>6. /\ below(n - 1) \subseteq below(n) /\ below(n) \subseteq Nat
        /\ n - 1 \in below(n) /\ n - 1 \notin below(n - 1)
    BY <1>4
  <1> QED
    BY <1>2, <1>3, <1>5, <1>6 DEF StrictSubsetOrdering

\* The same for the numbers up to a bound.
LEMMA IntervalInductionSet ==
  ASSUME NEW n \in Nat, NEW S, 0 \in S, \A i \in 1 .. n : i - 1 \in S => i \in S
  PROVE  0 .. n \subseteq S
  <1> DEFINE T == {i \in Nat : i <= n => i \in S}
  <1>1. 0 \in T
    OBVIOUS
  <1>2. ASSUME NEW i \in Nat, i \in T PROVE i + 1 \in T
    <2>1. CASE i + 1 <= n
      <3>1. i + 1 \in 1 .. n /\ (i + 1) - 1 = i /\ i \in S
        BY <1>2, <2>1
      <3> QED
        BY <3>1
    <2> QED
      BY <2>1
  <1>3. Nat \subseteq T
    <2> HIDE DEF T
    <2> QED
      BY <1>1, <1>2, NatInductionSet
  <1> QED
    BY <1>3

\* A set of numbers that are bounded has a largest one.
LEMMA LargestOf ==
  ASSUME NEW N \in Nat, NEW E \in SUBSET Nat, E # {}, \A m \in E : m <= N
  PROVE  \E n \in E : \A m \in E : m <= n
  <1> DEFINE Found == \E n \in E : \A m \in E : m <= n
             S == {k \in Nat : (\E m \in E : N - k <= m) => Found}
  <1>1. 0 \in S
    <2>1. ASSUME NEW m \in E, N - 0 <= m PROVE Found
      BY <2>1
    <2> HIDE DEF Found
    <2> QED
      BY <2>1
  <1>2. ASSUME NEW k \in Nat, k \in S PROVE k + 1 \in S
    <2>1. ASSUME NEW m \in E, N - (k + 1) <= m PROVE Found
      <3>1. CASE \E l \in E : N - k <= l
        BY <1>2, <3>1
      <3>2. CASE ~\E l \in E : N - k <= l
        <4>1. \A l \in E : l <= m
          BY <2>1, <3>2
        <4> QED
          BY <4>1
      <3> QED
        BY <3>1, <3>2
    <2> HIDE DEF Found
    <2> QED
      BY <2>1
  <1> HIDE DEF S, Found
  <1>3. Nat \subseteq S
    BY <1>1, <1>2, NatInductionSet
  <1>4. PICK m \in E : TRUE
    OBVIOUS
  <1>5. N \in S /\ N - N <= m
    BY <1>3, <1>4
  <1>6. Found
    BY <1>5 DEF S
  <1> QED
    BY <1>6 DEF Found

\* A set of numbers has a smallest one.
LEMMA SmallestOf ==
  ASSUME NEW E \in SUBSET Nat, E # {}
  PROVE  \E n \in E : \A m \in E : n <= m
  <1> DEFINE Found == \E n \in E : \A m \in E : n <= m
             S == {k \in Nat : (\E m \in E : m <= k) => Found}
  <1>1. 0 \in S
    <2>1. ASSUME NEW m \in E, m <= 0 PROVE Found
      BY <2>1
    <2> HIDE DEF Found
    <2> QED
      BY <2>1
  <1>2. ASSUME NEW k \in Nat, k \in S PROVE k + 1 \in S
    <2>1. ASSUME NEW m \in E, m <= k + 1 PROVE Found
      <3>1. CASE \E l \in E : l <= k
        BY <1>2, <3>1
      <3>2. CASE ~\E l \in E : l <= k
        <4>1. \A l \in E : m <= l
          BY <2>1, <3>2
        <4> QED
          BY <4>1
      <3> QED
        BY <3>1, <3>2
    <2> HIDE DEF Found
    <2> QED
      BY <2>1
  <1> HIDE DEF S, Found
  <1>3. Nat \subseteq S
    BY <1>1, <1>2, NatInductionSet
  <1>4. PICK m \in E : m \in Nat
    OBVIOUS
  <1>5. Found
    <2>1. m \in S /\ m <= m
      BY <1>3, <1>4
    <2> QED
      BY <2>1 DEF S
  <1> QED
    BY <1>5 DEF Found

\* A recursion that goes through 1 .. n step by step defines a function, whatever the
\* steps do within A.
Recursion(A, base, n, step) ==
  {f \in [0 .. n -> A] : f[0] = base /\ \A i \in 1 .. n : f[i] = step[<<f[i - 1], i>>]}

LEMMA RecursionDefines ==
  ASSUME NEW A, NEW base \in A, NEW n \in Nat, NEW step \in [A \X (1 .. n) -> A]
  PROVE  Recursion(A, base, n, step) # {}
  <1> DEFINE defines(f, m) ==
               /\ f \in [0 .. m -> A]
               /\ f[0] = base /\ \A i \in 1 .. m : f[i] = step[<<f[i - 1], i>>]
             S == {m \in 0 .. n : \E f : defines(f, m)}
  <1>1. 0 \in S
    <2> DEFINE g == [i \in 0 .. 0 |-> base]
    <2>1. g \in [0 .. 0 -> A]
      OBVIOUS
    <2>2. g[0] = base
      OBVIOUS
    <2>3. defines(g, 0)
      <3> HIDE DEF g
      <3> QED
        BY <2>1, <2>2
    <2>4. 0 \in 0 .. n
      OBVIOUS
    <2> HIDE DEF g, defines
    <2> QED
      BY <2>3, <2>4
  <1>2. ASSUME NEW m \in 1 .. n, m - 1 \in S PROVE m \in S
    <2>1. /\ m \in Nat /\ m - 1 \in Nat /\ m \in 0 .. n
          /\ m - 1 \in 0 .. m - 1 /\ m # 0 /\ 0 < m
      OBVIOUS
    <2>2. PICK f : defines(f, m - 1)
      <3> HIDE DEF defines
      <3> QED
        BY <1>2
    <2> DEFINE last == step[<<f[m - 1], m>>]
               g == [i \in 0 .. m |-> IF i < m THEN f[i] ELSE last]
    <2>3. f[m - 1] \in A
      BY <2>1, <2>2
    <2>4. last \in A
      <3>1. <<f[m - 1], m>> \in A \X (1 .. n)
        BY <2>3
      <3> QED
        BY <3>1
    <2>5. \A i \in 0 .. m : i < m => i \in 0 .. m - 1 /\ g[i] = f[i]
      BY <2>1
    <2>6. g[m] = last
      BY <2>1
    <2>7. g \in [0 .. m -> A]
      <3>1. \A i \in 0 .. m : i < m => f[i] \in A
        <4>1. f \in [0 .. m - 1 -> A]
          BY <2>2
        <4> QED
          BY <2>1, <2>5, <4>1
      <3> HIDE DEF last
      <3> QED
        BY <2>4, <3>1
    <2> HIDE DEF g, last
    <2>8. g[0] = base
      BY <2>1, <2>2, <2>5
    <2>9. ASSUME NEW i \in 1 .. m PROVE g[i] = step[<<g[i - 1], i>>]
      <3>1. i - 1 \in 0 .. m /\ i - 1 < m /\ i \in 0 .. m
        BY <2>1
      <3>2. g[i - 1] = f[i - 1]
        BY <2>5, <3>1
      <3>3. CASE i = m
        BY <2>6, <3>2, <3>3 DEF last
      <3>4. CASE i # m
        <4>1. i < m /\ i \in 1 .. m - 1
          BY <2>1, <3>4
        <4>2. g[i] = f[i]
          BY <2>5, <3>1, <4>1
        <4>3. f[i] = step[<<f[i - 1], i>>]
          BY <2>2, <4>1
        <4> QED
          BY <3>2, <4>2, <4>3
      <3> QED
        BY <3>3, <3>4
    <2>10. defines(g, m)
      BY <2>7, <2>8, <2>9
    <2> HIDE DEF defines
    <2> QED
      BY <2>1, <2>10
  <1>3. n \in S
    <2>1. n \in 0 .. n
      OBVIOUS
    <2> HIDE DEF S
    <2> QED
      BY <1>1, <1>2, <2>1, IntervalInductionSet
  <1>4. PICK f : defines(f, n)
    <2> HIDE DEF defines
    <2> QED
      BY <1>3
  <1> QED
    BY <1>4 DEF Recursion

\* So does a recursion that goes from one state to the next until it stops, whether it
\* stops or not: the values it passes on are the least relation that holds those of the
\* states where it stops, and with each value of a next state that of the state before.
TailRecursion(S, A, stop, val, next) ==
  {f \in [S -> A] : \A s \in S : f[s] = IF s \in stop THEN val[s] ELSE f[next[s]]}

LEMMA TailRecursionDefines ==
  ASSUME NEW S, NEW A, NEW c \in A, NEW stop \in SUBSET S, NEW val \in [S -> A],
         NEW next \in [S -> S]
  PROVE  TailRecursion(S, A, stop, val, next) # {}
  <1> DEFINE Closed(R) ==
               /\ \A s \in S : s \in stop => <<s, val[s]>> \in R
               /\ \A s \in S, a \in A : s \notin stop /\ <<next[s], a>> \in R => <<s, a>> \in R
             K == {p \in S \X A : \A R \in SUBSET (S \X A) : Closed(R) => p \in R}
             values(s) == {a \in A : <<s, a>> \in K}
             f == [s \in S |-> IF values(s) = {} THEN c ELSE CHOOSE a \in A : a \in values(s)]
  <1>1. K \in SUBSET (S \X A) /\ Closed(K)
    <2>1. \A s \in S : val[s] \in A /\ next[s] \in S
      OBVIOUS
    <2>2. \A s \in S : s \in stop => <<s, val[s]>> \in K
      BY <2>1
    <2>3. ASSUME NEW s \in S, NEW a \in A, s \notin stop, <<next[s], a>> \in K
          PROVE  <<s, a>> \in K
      <3>1. ASSUME NEW R \in SUBSET (S \X A), Closed(R) PROVE <<s, a>> \in R
        <4>1. <<next[s], a>> \in R
          BY <2>3, <3>1
        <4> QED
          BY <2>3, <3>1, <4>1
      <3> QED
        BY <3>1
    <2> QED
      BY <2>2, <2>3
  <1>2. ASSUME NEW s \in S, NEW a \in A, <<s, a>> \in K,
               (s \in stop /\ a # val[s]) \/ (s \notin stop /\ <<next[s], a>> \notin K)
        PROVE  FALSE
    <2> DEFINE R == K \ {<<s, a>>}
    <2>1. Closed(R)
      <3>1. \A t \in S : t \in stop => <<t, val[t]>> \in R
        BY <1>1, <1>2
      <3>2. \A t \in S, b \in A : t \notin stop /\ <<next[t], b>> \in R => <<t, b>> \in R
        BY <1>1, <1>2
      <3> QED
        BY <3>1, <3>2
    <2>2. R \in SUBSET (S \X A)
      BY <1>1
    <2>3. <<s, a>> \in R
      BY <1>2, <2>1, <2>2
    <2> QED
      BY <2>3
  <1>3. ASSUME NEW s \in S, s \in stop PROVE values(s) = {val[s]}
    <2>1. val[s] \in A
      OBVIOUS
    <2>2. <<s, val[s]>> \in K
      <3> HIDE DEF K
      <3> QED
        BY <1>1, <1>3
    <2>3. ASSUME NEW a \in A, <<s, a>> \in K, a # val[s] PROVE FALSE
      <3>1. (s \in stop /\ a # val[s]) \/ (s \notin stop /\ <<next[s], a>> \notin K)
        BY <1>3, <2>3
      <3> HIDE DEF K
      <3> QED
        BY <1>2, <2>3, <3>1
    <2> QED
      BY <2>1, <2>2, <2>3
  <1>4. \A s \in S : s \notin stop => values(s) = values(next[s])
    BY <1>1, <1>2
  <1> HIDE DEF K
  <1>5. \A s \in S : values(s) \subseteq A
    OBVIOUS
  <1> HIDE DEF values
  <1>6. f \in [S -> A]
    BY <1>5
  <1>7. ASSUME NEW s \in S PROVE f[s] = IF s \in stop THEN val[s] ELSE f[next[s]]
    <2>1. CASE s \in stop
      BY <1>3, <2>1
    <2>2. CASE s \notin stop
      <3>1. next[s] \in S /\ values(s) = values(next[s])
        BY <1>4, <2>2
      <3> QED
        BY <2>2, <3>1
    <2> QED
      BY <2>1, <2>2
  <1> HIDE DEF f
  <1> QED
    BY <1>6, <1>7 DEF TailRecursion
-----------------------------------------------------------------------------
(***************************************************************************)
(* Sequences                                                               *)
(***************************************************************************)
LEMMA ContainsIs ==
  ASSUME NEW T, NEW s \in Seq(T), NEW e
  PROVE  Contains(s, e) <=> e \in ToSet(s)
  BY LenProperties DEF Contains, ToSet

\* The elements of two sequences joined, by their places in each.
LEMMA ConcatIs ==
  ASSUME NEW T, NEW s \in Seq(T), NEW t \in Seq(T)
  PROVE  /\ s \o t \in Seq(T) /\ Len(s \o t) = Len(s) + Len(t)
         /\ \A i \in 1 .. Len(s) : i \in 1 .. Len(s \o t) /\ (s \o t)[i] = s[i]
         /\ \A i \in 1 .. Len(t) : /\ Len(s) + i \in 1 .. Len(s \o t)
                                    /\ (s \o t)[Len(s) + i] = t[i]
         /\ \A i \in 1 .. Len(s \o t) : \/ i \in 1 .. Len(s)
                                          \/ \E j \in 1 .. Len(t) : i = Len(s) + j
  <1> DEFINE m == Len(s)
             n == Len(t)
             r == s \o t
  <1>1. /\ r \in Seq(T) /\ Len(r) = m + n
        /\ \A i \in 1 .. m + n : r[i] = IF i <= m THEN s[i] ELSE t[i - m]
    BY ConcatProperties
  <1>2. m \in Nat /\ n \in Nat
    BY LenProperties
  <1> HIDE DEF m, n, r
  <1>3. ASSUME NEW i \in 1 .. m PROVE i \in 1 .. m + n /\ r[i] = s[i]
    <2>1. i \in 1 .. m + n /\ i <= m
      BY <1>2
    <2> QED
      BY <1>1, <2>1
  <1>4. ASSUME NEW i \in 1 .. n PROVE m + i \in 1 .. m + n /\ r[m + i] = t[i]
    <2>1. m + i \in 1 .. m + n /\ ~(m + i <= m) /\ (m + i) - m = i
      BY <1>2
    <2>2. r[m + i] = t[(m + i) - m]
      BY <1>1, <2>1
    <2> QED
      BY <2>1, <2>2
  <1>5. ASSUME NEW i \in 1 .. m + n, i \notin 1 .. m PROVE \E j \in 1 .. n : i = m + j
    <2>1. i - m \in 1 .. n /\ i = m + (i - m)
      BY <1>2, <1>5
    <2> QED
      BY <2>1
  <1> QED
    BY <1>1, <1>3, <1>4, <1>5 DEF m, n, r

LEMMA ToSetConcat ==
  ASSUME NEW S, NEW s \in Seq(S), NEW t \in Seq(S)
  PROVE  ToSet(s \o t) = ToSet(s) \cup ToSet(t)
  <1>1. s \o t \in Seq(S) /\ Len(s \o t) = Len(s) + Len(t)
        /\ \A i \in 1 .. Len(s) + Len(t) :
             (s \o t)[i] = IF i <= Len(s) THEN s[i] ELSE t[i - Len(s)]
    BY ConcatProperties
  <1>2. Len(s) \in Nat /\ Len(t) \in Nat
    BY LenProperties
  <1>3. /\ DOMAIN s = 1 .. Len(s) /\ DOMAIN t = 1 .. Len(t)
        /\ DOMAIN (s \o t) = 1 .. Len(s) + Len(t)
    BY <1>1, LenProperties
  <1>4. ASSUME NEW i \in DOMAIN (s \o t) PROVE (s \o t)[i] \in ToSet(s) \cup ToSet(t)
    <2>1. CASE i <= Len(s)
      BY <1>1, <1>2, <1>3, <2>1 DEF ToSet
    <2>2. CASE i > Len(s)
      <3>1. i - Len(s) \in DOMAIN t /\ (s \o t)[i] = t[i - Len(s)]
        BY <1>1, <1>2, <1>3, <2>2
      <3> QED
        BY <3>1 DEF ToSet
    <2> QED
      BY <1>2, <1>3, <2>1, <2>2
  <1>5. ASSUME NEW i \in DOMAIN s PROVE s[i] \in ToSet(s \o t)
    <2>1. i \in DOMAIN (s \o t) /\ (s \o t)[i] = s[i]
      BY <1>1, <1>2, <1>3
    <2> QED
      BY <2>1 DEF ToSet
  <1>6. ASSUME NEW i \in DOMAIN t PROVE t[i] \in ToSet(s \o t)
    <2>1. i + Len(s) \in DOMAIN (s \o t) /\ (s \o t)[i + Len(s)] = t[i]
      BY <1>1, <1>2, <1>3
    <2> QED
      BY <2>1 DEF ToSet
  <1> QED
    BY <1>4, <1>5, <1>6 DEF ToSet

LEMMA ToSetAppend ==
  ASSUME NEW T, NEW s \in Seq(T), NEW e \in T
  PROVE  ToSet(Append(s, e)) = ToSet(s) \cup {e}
  <1>1. /\ Append(s, e) \in Seq(T) /\ Len(Append(s, e)) = Len(s) + 1
        /\ \A i \in 1 .. Len(s) : Append(s, e)[i] = s[i]
        /\ Append(s, e)[Len(s) + 1] = e
    BY AppendProperties
  <1>2. /\ DOMAIN s = 1 .. Len(s) /\ DOMAIN Append(s, e) = 1 .. Len(s) + 1 /\ Len(s) \in Nat
    BY <1>1, LenProperties
  <1> QED
    BY <1>1, <1>2 DEF ToSet

\* A sequence without repetitions, and one more element.
LEMMA Distinct ==
  ASSUME NEW T, NEW s \in Seq(T), IsInjective(s), NEW e \in T \ ToSet(s)
  PROVE  IsInjective(Append(s, e))
  <1>1. /\ Append(s, e) \in Seq(T) /\ Len(Append(s, e)) = Len(s) + 1
        /\ \A i \in 1 .. Len(s) : Append(s, e)[i] = s[i]
        /\ Append(s, e)[Len(s) + 1] = e
    BY AppendProperties
  <1>2. /\ DOMAIN s = 1 .. Len(s) /\ DOMAIN Append(s, e) = 1 .. Len(s) + 1 /\ Len(s) \in Nat
    BY <1>1, LenProperties
  <1>3. \A i \in 1 .. Len(s) : s[i] \in ToSet(s)
    BY <1>2 DEF ToSet
  <1>4. \A i \in 1 .. Len(s) + 1 : i \in 1 .. Len(s) \/ i = Len(s) + 1
    BY <1>2
  <1>5. \A i \in 1 .. Len(s) : Append(s, e)[i] # e
    BY <1>1, <1>3
  <1> QED
    BY <1>1, <1>2, <1>4, <1>5 DEF IsInjective
-----------------------------------------------------------------------------
(***************************************************************************)
(* Orders                                                                  *)
(***************************************************************************)
IsOrder(S, order) ==
  /\ \A x \in S : <<x, x>> \notin order
  /\ \A x, y \in S : x = y \/ <<x, y>> \in order \/ <<y, x>> \in order
  /\ \A x, y, z \in S : <<x, y>> \in order /\ <<y, z>> \in order => <<x, z>> \in order

\* Every element has its place in an order, and every place its element.
LEMMA Places ==
  ASSUME NEW S, IsFiniteSet(S), NEW order, IsOrder(S, order)
  PROVE  /\ \A k \in 1 .. Cardinality(S) :
              At(S, order, k) \in S /\ Rank(S, order, At(S, order, k)) = k - 1
         /\ \A j, k \in 1 .. Cardinality(S) :
              j < k => <<At(S, order, j), At(S, order, k)>> \in order
         /\ \A x \in S : \E k \in 1 .. Cardinality(S) : x = At(S, order, k)
  <1> DEFINE n == Cardinality(S)
             before(x) == {y \in S : <<y, x>> \in order}
             rank == [x \in S |-> Rank(S, order, x)]
  <1>1. n \in Nat
    BY FS_CardinalityType
  <1>2. ASSUME NEW x \in S
        PROVE  /\ IsFiniteSet(before(x)) /\ Rank(S, order, x) = Cardinality(before(x))
               /\ Rank(S, order, x) \in 0 .. n - 1
    <2>1. before(x) \in SUBSET (S \ {x})
      BY DEF IsOrder
    <2>2. IsFiniteSet(S \ {x}) /\ Cardinality(S \ {x}) = n - 1
      BY FS_RemoveElement
    <2>4. Rank(S, order, x) = Cardinality(before(x))
      BY DEF Rank
    <2> HIDE DEF before
    <2>3. IsFiniteSet(before(x)) /\ Cardinality(before(x)) <= Cardinality(S \ {x})
      BY <2>1, <2>2, FS_Subset
    <2>5. Cardinality(before(x)) \in Nat
      BY <2>3, FS_CardinalityType
    <2> HIDE DEF n
    <2> QED
      BY <1>1, <2>2, <2>3, <2>4, <2>5
  <1>3. ASSUME NEW x \in S, NEW y \in S, <<x, y>> \in order
        PROVE  Rank(S, order, x) < Rank(S, order, y)
    <2>1. before(x) \in SUBSET (before(y) \ {x}) /\ x \in before(y)
      BY <1>3 DEF IsOrder
    <2> HIDE DEF before
    <2>2. /\ IsFiniteSet(before(y) \ {x})
          /\ Cardinality(before(y) \ {x}) = Cardinality(before(y)) - 1
      BY <1>2, <2>1, FS_RemoveElement
    <2>3. Cardinality(before(x)) <= Cardinality(before(y) \ {x})
      BY <2>1, <2>2, FS_Subset
    <2> HIDE DEF n
    <2> QED
      BY <1>1, <1>2, <2>2, <2>3
  <1>4. rank \in Injection(S, 0 .. n - 1)
    <2>1. rank \in [S -> 0 .. n - 1]
      BY <1>2
    <2>2. ASSUME NEW x \in S, NEW y \in S, rank[x] = rank[y] PROVE x = y
      <3>1. Rank(S, order, x) = Rank(S, order, y)
        BY <2>2
      <3>2. Rank(S, order, x) \in Int /\ Rank(S, order, y) \in Int
        <4> HIDE DEF n, before, rank
        <4> QED
          BY <1>1, <1>2
      <3>3. <<x, y>> \notin order /\ <<y, x>> \notin order
        <4> HIDE DEF n, before, rank
        <4> QED
          BY <1>3, <3>1, <3>2
      <3> QED
        BY <3>3 DEF IsOrder
    <2> HIDE DEF rank, n
    <2> QED
      BY <2>1, <2>2 DEF Injection, IsInjective
  <1>5. rank \in Surjection(S, 0 .. n - 1)
    <2>1. IsFiniteSet(0 .. n - 1) /\ Cardinality(0 .. n - 1) = n
      <3>1. 0 \in Int /\ n - 1 \in Int
        BY <1>1
      <3> QED
        BY <1>1, <3>1, FS_Interval
    <2> HIDE DEF rank
    <2>2. IsFiniteSet(S) /\ Cardinality(S) = Cardinality(0 .. n - 1)
      BY <2>1
    <2> QED
      BY <1>4, <2>1, <2>2, FS_Injection
  <1>6. ASSUME NEW k \in 1 .. n
        PROVE  At(S, order, k) \in S /\ Rank(S, order, At(S, order, k)) = k - 1
    <2>1. k - 1 \in 0 .. n - 1
      BY <1>1
    <2>2. \E x \in S : rank[x] = k - 1
      <3> HIDE DEF rank, n
      <3> QED
        BY <1>5, <2>1 DEF Surjection
    <2>3. \E x \in S : Rank(S, order, x) = k - 1
      BY <2>2
    <2> HIDE DEF rank, n
    <2> QED
      BY <2>3 DEF At
  <1> HIDE DEF n, rank, before
  <1>7. ASSUME NEW j \in 1 .. n, NEW k \in 1 .. n, j < k
        PROVE  <<At(S, order, j), At(S, order, k)>> \in order
    <2> DEFINE x == At(S, order, j)
               y == At(S, order, k)
    <2>1. x \in S /\ y \in S /\ Rank(S, order, x) = j - 1 /\ Rank(S, order, y) = k - 1
      BY <1>6
    <2> HIDE DEF x, y
    <2>2. Rank(S, order, x) < Rank(S, order, y)
      BY <1>1, <1>7, <2>1
    <2>3. x # y /\ ~(Rank(S, order, y) < Rank(S, order, x))
      BY <1>1, <1>7, <2>1
    <2>4. <<x, y>> \in order
      BY <1>3, <2>1, <2>3 DEF IsOrder
    <2> QED
      BY <2>4 DEF x, y
  <1>8. ASSUME NEW x \in S PROVE \E k \in 1 .. n : x = At(S, order, k)
    <2> DEFINE k == Rank(S, order, x) + 1
    <2>1. k \in 1 .. n /\ Rank(S, order, x) = k - 1 /\ Rank(S, order, x) \in Int
      BY <1>1, <1>2
    <2> HIDE DEF k
    <2>2. At(S, order, k) \in S /\ Rank(S, order, At(S, order, k)) = Rank(S, order, x)
      BY <1>6, <2>1
    <2>3. <<x, At(S, order, k)>> \notin order /\ <<At(S, order, k), x>> \notin order
      BY <1>3, <2>1, <2>2
    <2>4. At(S, order, k) = x
      BY <2>2, <2>3 DEF IsOrder
    <2> QED
      BY <2>1, <2>4
  <1> QED
    BY <1>6, <1>7, <1>8 DEF n

\* What sort.Slice asks of the function it is given.
IsLess(n, less) ==
  /\ \A x, y \in 1 .. n : <<x, y>> \in less => <<y, x>> \notin less
  /\ \A x, y, z \in 1 .. n : <<x, z>> \in less => <<x, y>> \in less \/ <<y, z>> \in less

\* Ties settled by position, positions are ordered.
LEMMA InOrderIsOrder ==
  ASSUME NEW n \in Nat, NEW less, IsLess(n, less)
  PROVE  IsOrder(1 .. n, InOrder(n, less))
  <1> DEFINE P == 1 .. n
             order == InOrder(n, less)
  <1>1. \A x, y \in P : <<x, y>> \in order <=> <<x, y>> \in less \/ (<<y, x>> \notin less /\ x < y)
    BY DEF InOrder
  <1>2. P \subseteq Int
    OBVIOUS
  <1>3. /\ \A x, y \in P : <<x, y>> \in less => <<y, x>> \notin less
        /\ \A x, y, z \in P : <<x, z>> \in less => <<x, y>> \in less \/ <<y, z>> \in less
    BY DEF IsLess
  <1> HIDE DEF P, order
  <1>4. \A x \in P : <<x, x>> \notin order
    BY <1>1, <1>2, <1>3
  <1>5. ASSUME NEW x \in P, NEW y \in P
        PROVE  x = y \/ <<x, y>> \in order \/ <<y, x>> \in order
    <2>1. x < y \/ y < x \/ x = y
      BY <1>2
    <2> QED
      BY <1>1, <2>1
  <1>6. ASSUME NEW x \in P, NEW y \in P, NEW z \in P, <<x, y>> \in order, <<y, z>> \in order
        PROVE  <<x, z>> \in order
    <2>1. x \in Int /\ y \in Int /\ z \in Int
      BY <1>2
    <2>2. CASE <<x, y>> \in less
      BY <1>1, <1>3, <1>6, <2>2
    <2>3. CASE <<x, y>> \notin less
      <3>1. <<y, x>> \notin less /\ x < y
        BY <1>1, <1>6, <2>3
      <3>2. CASE <<y, z>> \in less
        BY <1>1, <1>3, <3>1, <3>2
      <3>3. CASE <<y, z>> \notin less
        <4>1. <<z, y>> \notin less /\ y < z
          BY <1>1, <1>6, <3>3
        <4>2. <<z, x>> \notin less
          BY <1>3, <3>1, <4>1
        <4> QED
          BY <1>1, <2>1, <3>1, <4>1, <4>2
      <3> QED
        BY <3>2, <3>3
    <2> QED
      BY <2>2, <2>3
  <1> QED
    BY <1>4, <1>5, <1>6 DEF IsOrder, P, order

\* Evaluating a sequence changes nothing.
LEMMA EvaluatedIs ==
  ASSUME NEW T, NEW s \in Seq(T)
  PROVE  Evaluated(s) = s
  BY SubSeqProperties, LenProperties DEF Evaluated

\* A function on 1 .. n is a sequence, of that length.
LEMMA EvaluatedFunction ==
  ASSUME NEW T, NEW n \in Nat, NEW f \in [1 .. n -> T]
  PROVE  Evaluated(f) = f /\ f \in Seq(T) /\ Len(f) = n
  <1>1. f \in Seq(T)
    BY IsASeq
  <1>2. Len(f) = n
    BY <1>1, LenProperties
  <1> QED
    BY <1>1, <1>2, EvaluatedIs

\* Sorting permutes a sequence, and leaves no element before one that is less.
LEMMA SortedIs ==
  ASSUME NEW T, NEW s \in Seq(T), NEW less, IsLess(Len(s), less)
  PROVE  /\ Sorted(s, less) \in Seq(T) /\ Len(Sorted(s, less)) = Len(s)
         /\ \E place \in [1 .. Len(s) -> 1 .. Len(s)] :
              /\ \A k \in 1 .. Len(s) : Sorted(s, less)[k] = s[place[k]]
              /\ \A k \in 1 .. Len(s) : \E j \in 1 .. Len(s) : place[j] = k
              /\ \A j, k \in 1 .. Len(s) :
                   j < k => place[j] # place[k] /\ <<place[k], place[j]>> \notin less
  <1> DEFINE n == Len(s)
             order == InOrder(n, less)
             place == [k \in 1 .. n |-> At(1 .. n, order, k)]
             t == [k \in 1 .. n |-> s[At(1 .. n, order, k)]]
  <1>1. n \in Nat
    BY LenProperties
  <1>2. IsOrder(1 .. n, order)
    BY <1>1, InOrderIsOrder
  <1>3. IsFiniteSet(1 .. n) /\ Cardinality(1 .. n) = n
    <2>1. 1 \in Int /\ n \in Int /\ n - 1 + 1 = n
      BY <1>1
    <2> QED
      BY <1>1, <2>1, FS_Interval
  <1> HIDE DEF n, order
  <1>4. /\ \A k \in 1 .. n : At(1 .. n, order, k) \in 1 .. n
        /\ \A j, k \in 1 .. n : j < k => <<At(1 .. n, order, j), At(1 .. n, order, k)>> \in order
        /\ \A x \in 1 .. n : \E k \in 1 .. n : x = At(1 .. n, order, k)
    <2> DEFINE P == 1 .. n
    <2>1. IsFiniteSet(P) /\ Cardinality(P) = n /\ IsOrder(P, order)
      BY <1>2, <1>3
    <2> HIDE DEF P
    <2>2. /\ \A k \in 1 .. Cardinality(P) : At(P, order, k) \in P
          /\ \A j, k \in 1 .. Cardinality(P) :
               j < k => <<At(P, order, j), At(P, order, k)>> \in order
          /\ \A x \in P : \E k \in 1 .. Cardinality(P) : x = At(P, order, k)
      BY <2>1, Places
    <2> QED
      BY <2>1, <2>2 DEF P
  <1>5. t \in [1 .. n -> T]
    <2>1. \A i \in 1 .. n : s[i] \in T
      BY ElementOfSeq DEF n
    <2> QED
      BY <1>4, <2>1
  <1>6. SortedBy(s, order) = t /\ t \in Seq(T) /\ Len(t) = n
    BY <1>1, <1>5, EvaluatedFunction DEF SortedBy, n
  <1>7. Sorted(s, less) = SortedBy(s, order)
    BY DEF Sorted, Once, order, n
  <1>8. place \in [1 .. n -> 1 .. n] /\ \A k \in 1 .. n : t[k] = s[place[k]]
    BY <1>4
  <1>9. ASSUME NEW j \in 1 .. n, NEW k \in 1 .. n, j < k
        PROVE  place[j] # place[k] /\ <<place[k], place[j]>> \notin less
    <2>1. <<place[j], place[k]>> \in order /\ place[j] \in 1 .. n /\ place[k] \in 1 .. n
      BY <1>4, <1>9
    <2> HIDE DEF place
    <2>2. <<place[j], place[j]>> \notin order
      BY <1>2, <2>1 DEF IsOrder
    <2>3. <<place[k], place[j]>> \notin less
      BY <2>1 DEF order, InOrder, IsLess, n
    <2> QED
      BY <2>1, <2>2, <2>3
  <1>10. \A k \in 1 .. n : \E j \in 1 .. n : place[j] = k
    BY <1>4
  <1> HIDE DEF place, t
  <1> QED
    BY <1>6, <1>7, <1>8, <1>9, <1>10 DEF n

\* Ascending puts each number of a finite set at its place.
LEMMA AscendingIs ==
  ASSUME NEW S \in SUBSET Nat, IsFiniteSet(S)
  PROVE  /\ Ascending(S) \in Seq(S) /\ Len(Ascending(S)) = Cardinality(S)
         /\ \A j, k \in 1 .. Len(Ascending(S)) : j < k => Ascending(S)[j] < Ascending(S)[k]
         /\ \A x \in S : \E k \in 1 .. Len(Ascending(S)) : Ascending(S)[k] = x
  <1> DEFINE order == {p \in S \X S : p[1] < p[2]}
             n == Cardinality(S)
             t == [k \in 1 .. n |-> At(S, order, k)]
  <1>1. n \in Nat
    BY FS_CardinalityType
  <1>2. \A x, y \in S : <<x, y>> \in order <=> x < y
    OBVIOUS
  <1>3. IsOrder(S, order)
    <2> HIDE DEF order
    <2> QED
      BY <1>2 DEF IsOrder
  <1> HIDE DEF order, n
  <1>4. /\ \A k \in 1 .. n : At(S, order, k) \in S
        /\ \A j, k \in 1 .. n : j < k => <<At(S, order, j), At(S, order, k)>> \in order
        /\ \A x \in S : \E k \in 1 .. n : x = At(S, order, k)
    BY <1>3, Places DEF n
  <1>5. t \in [1 .. n -> S]
    BY <1>4
  <1>6. Evaluated(t) = t /\ t \in Seq(S) /\ Len(t) = n
    BY <1>1, <1>5, EvaluatedFunction
  <1>7. Ascending(S) = Evaluated(t)
    BY DEF Ascending, Once, order, n
  <1>8. \A j, k \in 1 .. n : j < k => t[j] < t[k]
    BY <1>2, <1>4
  <1>9. \A x \in S : \E k \in 1 .. n : t[k] = x
    BY <1>4
  <1> HIDE DEF t
  <1> QED
    BY <1>6, <1>7, <1>8, <1>9 DEF n
======================================================================================
