---------------------------------- MODULE DedupProofs ----------------------------------
(***************************************************************************)
(* What the de-duplication makes of windows of the log that miss no line,  *)
(* for any number of windows of any length, in any order: theorems about   *)
(* the operators of Dedup.  Two such windows never come to                 *)
(* handleIncompleteOverlap.                                                *)
(***************************************************************************)
EXTENDS Dedup, Induction

Increasing(s) == \A j, k \in 1 .. Len(s) : j < k => s[j] < s[k]
-----------------------------------------------------------------------------
(***************************************************************************)
(* Windows                                                                 *)
(***************************************************************************)
LEMMA LogIs ==
  ASSUME NEW first \in Nat, NEW last \in Int, first <= last + 1
  PROVE  /\ Log(first, last) \in Lines /\ Len(Log(first, last)) = last - first + 1
         /\ \A i \in 1 .. last - first + 1 : Log(first, last)[i] = first + i - 1
         /\ Increasing(Log(first, last)) /\ ToSet(Log(first, last)) = first .. last
         /\ first <= last => /\ Log(first, last) # <<>> /\ Head(Log(first, last)) = first
                             /\ Last(Log(first, last)) = last
  <1> DEFINE n == last - first + 1
             w == Log(first, last)
  <1>1. n \in Nat
    OBVIOUS
  <1>2. w \in [1 .. n -> Nat]
    BY DEF Log
  <1>3. w \in Seq(Nat) /\ Len(w) = n
    BY <1>1, <1>2, EvaluatedFunction
  <1>4. \A i \in 1 .. n : w[i] = first + i - 1
    BY DEF Log
  <1> HIDE DEF w
  <1>5. Increasing(w)
    BY <1>3, <1>4 DEF Increasing
  <1>6. ToSet(w) = first .. last
    <2>1. ToSet(w) = {w[i] : i \in 1 .. n}
      BY <1>2, <1>3 DEF ToSet
    <2>2. \A x \in first .. last : x - first + 1 \in 1 .. n /\ w[x - first + 1] = x
      BY <1>4
    <2>3. \A i \in 1 .. n : w[i] \in first .. last
      BY <1>4
    <2> HIDE DEF n
    <2> QED
      BY <2>1, <2>2, <2>3
  <1>7. ASSUME first <= last PROVE w # <<>> /\ Head(w) = first /\ Last(w) = last
    <2>1. 1 \in 1 .. n /\ n \in 1 .. n
      BY <1>7
    <2>2. w # <<>>
      BY <1>3, <2>1
    <2>3. Head(w) = w[1] /\ Last(w) = w[n]
      BY <1>3, <2>2 DEF Last
    <2> QED
      BY <1>4, <2>1, <2>2, <2>3
  <1> QED
    BY <1>3, <1>4, <1>5, <1>6, <1>7 DEF Lines, w

LEMMA IsLog ==
  ASSUME NEW first \in Nat, NEW last \in Int, first <= last + 1,
         NEW s \in Lines, Len(s) = last - first + 1,
         \A i \in 1 .. Len(s) : s[i] = first + i - 1
  PROVE  s = Log(first, last)
  <1> DEFINE w == Log(first, last)
  <1>1. /\ w \in Lines /\ Len(w) = last - first + 1
        /\ \A i \in 1 .. last - first + 1 : w[i] = first + i - 1
    BY LogIs
  <1> HIDE DEF w
  <1>2. s = w
    BY <1>1, SeqEqual DEF Lines
  <1> QED
    BY <1>2 DEF w

LEMMA UptoIs ==
  ASSUME NEW T, NEW s \in Seq(T), NEW k \in 0 .. Len(s)
  PROVE  Upto(s, k) \in Seq(T) /\ Len(Upto(s, k)) = k /\ \A i \in 1 .. k : Upto(s, k)[i] = s[i]
  <1>1. Len(s) \in Nat /\ k \in Int /\ \A i \in 1 .. k : s[i] \in T
    BY LenProperties, ElementOfSeq
  <1>2. /\ Upto(s, k) \in Seq(T) /\ Len(Upto(s, k)) = IF 1 <= k THEN k - 1 + 1 ELSE 0
        /\ \A i \in 1 .. k - 1 + 1 : Upto(s, k)[i] = s[1 + i - 1]
    BY <1>1, SubSeqProperties DEF Upto
  <1>3. k - 1 + 1 = k /\ \A i \in 1 .. k : 1 + i - 1 = i
    BY <1>1
  <1> QED
    BY <1>1, <1>2, <1>3

LEMMA FromIs ==
  ASSUME NEW T, NEW s \in Seq(T), NEW k \in 0 .. Len(s)
  PROVE  /\ From(s, k) \in Seq(T) /\ Len(From(s, k)) = Len(s) - k
         /\ \A i \in 1 .. Len(s) - k : From(s, k)[i] = s[k + i]
  <1>1. Len(s) \in Nat /\ k \in Nat /\ \A i \in k + 1 .. Len(s) : s[i] \in T
    BY LenProperties, ElementOfSeq
  <1>2. /\ From(s, k) \in Seq(T)
        /\ Len(From(s, k)) = IF k + 1 <= Len(s) THEN Len(s) - (k + 1) + 1 ELSE 0
        /\ \A i \in 1 .. Len(s) - (k + 1) + 1 : From(s, k)[i] = s[(k + 1) + i - 1]
    BY <1>1, SubSeqProperties DEF From
  <1>3. /\ Len(s) - (k + 1) + 1 = Len(s) - k /\ \A i \in 1 .. Len(s) - k : (k + 1) + i - 1 = k + i
        /\ Len(From(s, k)) = Len(s) - k
    BY <1>1, <1>2
  <1>4. \A i \in 1 .. Len(s) - k : From(s, k)[i] = s[k + i]
    BY <1>2, <1>3
  <1> QED
    BY <1>2, <1>3, <1>4

LEMMA MinIs ==
  ASSUME NEW x \in Nat
  PROVE  FirstOrNone({x}) = x
  <1>1. Min({x}) = x
    BY DEF Min
  <1> QED
    BY <1>1 DEF FirstOrNone

\* The first line of b is found where it is, and nowhere else.
LEMMA FoundAt ==
  ASSUME NEW s \in Lines, Increasing(s), NEW i \in 1 .. Len(s)
  PROVE  findLineIndex(s[i], s) = i - 1
  <1>1. Len(s) \in Nat /\ \A j \in 1 .. Len(s) : s[j] \in Nat
    BY LenProperties, ElementOfSeq DEF Lines
  <1>2. {j \in 0 .. Len(s) - 1 : s[j + 1] = s[i]} = {i - 1}
    <2>1. i - 1 \in 0 .. Len(s) - 1 /\ s[(i - 1) + 1] = s[i]
      BY <1>1
    <2>2. ASSUME NEW j \in 0 .. Len(s) - 1, s[j + 1] = s[i] PROVE j = i - 1
      <3>1. j + 1 \in 1 .. Len(s)
        BY <1>1
      <3>2. ~(j + 1 < i) /\ ~(i < j + 1)
        BY <1>1, <2>2, <3>1 DEF Increasing
      <3> QED
        BY <3>1, <3>2
    <2> QED
      BY <2>1, <2>2
  <1>3. i - 1 \in Nat
    OBVIOUS
  <1> QED
    BY <1>2, <1>3, MinIs DEF findLineIndex

LEMMA NotFound ==
  ASSUME NEW s \in Lines, NEW x, x \notin ToSet(s)
  PROVE  findLineIndex(x, s) = -1
  <1>1. {j \in 0 .. Len(s) - 1 : s[j + 1] = x} = {}
    <2>1. Len(s) \in Nat /\ \A j \in 1 .. Len(s) : s[j] \in ToSet(s)
      BY LenProperties DEF Lines, ToSet
    <2>2. \A j \in 0 .. Len(s) - 1 : j + 1 \in 1 .. Len(s)
      BY <2>1
    <2> QED
      BY <2>1, <2>2
  <1> QED
    BY <1>1 DEF findLineIndex, FirstOrNone
-----------------------------------------------------------------------------
(***************************************************************************)
(* Two windows                                                             *)
(***************************************************************************)
\* Where a window stops when the lines from h on are held by the slices after it.
Cut(q, h) == IF q < h THEN q ELSE h - 1

\* The lines of a window from the first one of ref on are the first ones of ref.
Agrees(q, ref) ==
  \A l \in Head(ref) .. q : l - Head(ref) + 1 \in 1 .. Len(ref) /\ ref[l - Head(ref) + 1] = l

LEMMA IncreasingFrom ==
  ASSUME NEW ref \in Lines, ref # <<>>, Increasing(ref)
  PROVE  /\ Len(ref) \in Nat \ {0} /\ Head(ref) = ref[1] /\ Head(ref) \in Nat
         /\ \A x \in ToSet(ref) : x \in Nat /\ Head(ref) <= x
         /\ Head(ref) \in ToSet(ref)
  <1>1. /\ Len(ref) \in Nat \ {0} /\ Head(ref) = ref[1] /\ 1 \in 1 .. Len(ref)
        /\ ToSet(ref) = {ref[i] : i \in 1 .. Len(ref)}
    BY LenProperties, EmptySeq DEF ToSet, Lines
  <1>2. \A i \in 1 .. Len(ref) : ref[i] \in Nat
    BY ElementOfSeq DEF Lines
  <1>3. \A i \in 1 .. Len(ref) : ref[1] <= ref[i]
    BY <1>1, <1>2 DEF Increasing
  <1> QED
    BY <1>1, <1>2, <1>3

\* What a window holds that the slices after it do not is left of it, and they are as
\* they were: a handleIncompleteOverlap is never needed.
LEMMA DedupWindow ==
  ASSUME NEW p \in Nat, NEW q \in Nat, p <= q,
         NEW ref \in Lines, ref # <<>>, Increasing(ref), p <= Head(ref), Agrees(q, ref)
  PROVE  DedupAB(Log(p, q), ref) = Pair(Log(p, Cut(q, Head(ref))), ref)
  <1> DEFINE a == Log(p, q)
             h == Head(ref)
  <1>1. /\ a \in Lines /\ Len(a) = q - p + 1 /\ \A i \in 1 .. q - p + 1 : a[i] = p + i - 1
        /\ Increasing(a) /\ ToSet(a) = p .. q /\ a # <<>> /\ Last(a) = q
    <2>1. q \in Int /\ p <= q + 1
      OBVIOUS
    <2> HIDE DEF a
    <2> QED
      BY <2>1, LogIs DEF a
  <1>2. /\ Len(ref) \in Nat \ {0} /\ h = ref[1] /\ h \in Nat /\ p <= h
        /\ \A x \in ToSet(ref) : x \in Nat /\ h <= x
    BY IncreasingFrom
  <1>3. \A l \in h .. q : l - h + 1 \in 1 .. Len(ref) /\ ref[l - h + 1] = l
    BY DEF Agrees
  <1> HIDE DEF a, h
  <1>4. CASE q < h
    <2>1. findLineIndex(ref[1], a) = -1
      BY <1>1, <1>2, <1>4, NotFound
    <2>2. q \notin ToSet(ref)
      BY <1>2, <1>4
    <2>3. findLineIndex(Last(a), ref) = -1
      BY <1>1, <2>2, NotFound
    <2> QED
      BY <1>1, <1>4, <2>1, <2>3 DEF DedupAB, DedupABWith, noOverlap, Cut, a, h
  <1>5. CASE ~(q < h)
    <2> DEFINE d == h - p
               n == q - h + 1
               r == From(a, d)
               u == Upto(a, d)
    <2>1. /\ d \in Nat /\ d # -1 /\ n \in Nat /\ d + n = q - p + 1 /\ h = p + d /\ h \in Nat
          /\ d + 1 - 1 = d /\ q = h + n - 1
      <3>1. h \in Nat /\ p <= h /\ h <= q
        BY <1>2, <1>5
      <3> QED
        BY <3>1
    <2> HIDE DEF d, n
    <2>2. Len(a) = d + n /\ a \in Seq(Nat) /\ d \in 0 .. Len(a) /\ Len(a) - d = n
          /\ d + 1 \in 1 .. Len(a)
      <3>1. Len(a) = d + n /\ a \in Seq(Nat)
        BY <1>1, <2>1 DEF Lines
      <3>2. n > 0
        BY <1>2, <1>5, <2>1
      <3> QED
        BY <2>1, <3>1, <3>2
    <2>3. \A i \in 1 .. d + n : a[i] = p + i - 1
      BY <1>1, <2>1
    <2>4. findLineIndex(ref[1], a) = d
      <3>1. findLineIndex(a[d + 1], a) = (d + 1) - 1
        BY <1>1, <2>2, FoundAt
      <3>2. a[d + 1] = p + (d + 1) - 1
        BY <2>2, <2>3
      <3>3. p + (d + 1) - 1 = h
        BY <2>1
      <3> QED
        BY <1>2, <2>1, <3>1, <3>2, <3>3
    <2>5. findFirstIssueIndex(r, ref) = -1
      <3>1. Len(r) = n /\ \A i \in 1 .. n : r[i] = a[d + i]
        BY <2>2, FromIs
      <3> HIDE DEF r
      <3>2. ASSUME NEW i \in 0 .. n - 1 PROVE r[i + 1] = ref[i + 1]
        <4>1. /\ i \in Nat /\ i + 1 \in 1 .. n /\ d + (i + 1) \in 1 .. d + n /\ h + i \in h .. q
              /\ (h + i) - h + 1 = i + 1 /\ p + (d + (i + 1)) - 1 = h + i
          BY <2>1
        <4>2. r[i + 1] = a[d + (i + 1)]
          BY <3>1, <4>1
        <4>3. a[d + (i + 1)] = h + i
          BY <2>3, <4>1
        <4>4. ref[(h + i) - h + 1] = h + i
          BY <1>3, <4>1
        <4> QED
          BY <4>1, <4>2, <4>3, <4>4
      <3>3. {i \in 0 .. Len(r) - 1 : i < Len(ref) /\ r[i + 1] # ref[i + 1]} = {}
        BY <3>1, <3>2
      <3> QED
        BY <3>3 DEF findFirstIssueIndex, FirstOrNone
    <2>6. u = Log(p, h - 1)
      <3>1. u \in Seq(Nat) /\ Len(u) = d /\ \A i \in 1 .. d : u[i] = a[i]
        BY <2>2, UptoIs
      <3> HIDE DEF u
      <3>2. /\ h - 1 \in Int /\ p <= (h - 1) + 1 /\ d = (h - 1) - p + 1
            /\ \A i \in 1 .. d : i \in 1 .. d + n
        BY <2>1
      <3>3. \A i \in 1 .. Len(u) : u[i] = p + i - 1
        BY <2>3, <3>1, <3>2
      <3> QED
        BY <3>1, <3>2, <3>3, IsLog DEF Lines
    <2> HIDE DEF r, u
    <2>7. ~noOverlap(a, ref) /\ sameToEnd(a, ref)
      BY <1>2, <2>1, <2>4, <2>5 DEF noOverlap, sameToEnd, r
    <2> QED
      BY <1>1, <1>2, <1>5, <2>4, <2>6, <2>7 DEF DedupAB, DedupABWith, Cut, a, h, u
  <1> QED
    BY <1>4, <1>5

LEMMA ConcatIncreasing ==
  ASSUME NEW s \in Lines, NEW t \in Lines, Increasing(s), Increasing(t),
         \A x \in ToSet(s), y \in ToSet(t) : x < y
  PROVE  Increasing(s \o t)
  <1> DEFINE m == Len(s)
             n == Len(t)
             r == s \o t
  <1>1. /\ \A i \in 1 .. m : r[i] = s[i]
        /\ \A i \in 1 .. n : r[m + i] = t[i]
        /\ \A i \in 1 .. Len(r) : i \in 1 .. m \/ \E j \in 1 .. n : i = m + j
    BY ConcatIs DEF Lines
  <1>2. m \in Nat /\ n \in Nat
    BY LenProperties DEF Lines
  <1>3. /\ \A i \in 1 .. m : s[i] \in ToSet(s)
        /\ \A i \in 1 .. n : t[i] \in ToSet(t)
    BY LenProperties DEF Lines, ToSet
  <1> HIDE DEF m, n, r
  <1>4. ASSUME NEW j \in 1 .. Len(r), NEW k \in 1 .. Len(r), j < k PROVE r[j] < r[k]
    <2>1. CASE k \in 1 .. m
      <3>1. j \in 1 .. m
        <4>1. j \in 1 .. m \/ \E l \in 1 .. n : j = m + l
          BY <1>1
        <4> QED
          BY <1>2, <1>4, <2>1, <4>1
      <3> QED
        BY <1>1, <1>4, <2>1, <3>1 DEF Increasing, m
    <2>2. ASSUME NEW l \in 1 .. n, k = m + l PROVE r[j] < r[k]
      <3>1. CASE j \in 1 .. m
        BY <1>1, <1>3, <2>2, <3>1
      <3>2. ASSUME NEW i \in 1 .. n, j = m + i PROVE r[j] < r[k]
        <4>1. i < l
          BY <1>2, <1>4, <2>2, <3>2
        <4> QED
          BY <1>1, <2>2, <3>2, <4>1 DEF Increasing, n
      <3> QED
        BY <1>1, <3>1, <3>2
    <2> QED
      BY <1>1, <2>1, <2>2
  <1> QED
    BY <1>4 DEF Increasing, r

\* The sequences that s has been put together from.
Joined(s, x, y) == s = x \o y

\* Two sequences of lines one after the other.
LEMMA ConcatNumbers ==
  ASSUME NEW v \in Seq(Nat), NEW w \in Seq(Nat)
  PROVE  /\ v \o w \in Seq(Nat) /\ Len(v \o w) = Len(v) + Len(w)
         /\ \A i \in 1 .. Len(v) : i \in 1 .. Len(v \o w) /\ (v \o w)[i] = v[i]
         /\ \A i \in 1 .. Len(w) : /\ Len(v) + i \in 1 .. Len(v \o w)
                                    /\ (v \o w)[Len(v) + i] = w[i]
  BY ConcatIs, SMTT(20)

\* Such a window and the slices after it are one sequence, which the windows before
\* them agree with in turn.
LEMMA StitchedIs ==
  ASSUME NEW p \in Nat, NEW q \in Nat, p <= q,
         NEW ref \in Lines, ref # <<>>, Increasing(ref), p <= Head(ref), Agrees(q, ref),
         NEW a, a = Log(p, Cut(q, Head(ref))), NEW t, Joined(t, a, ref)
  PROVE  /\ a \in Lines /\ t \in Lines /\ t # <<>> /\ Increasing(t) /\ Head(t) = p
         /\ Agrees(q, t) /\ ToSet(t) = (p .. q) \cup ToSet(ref)
  <1> DEFINE h == Head(ref)
             e == Cut(q, h)
             m == e - p + 1
             n == Len(ref)
  <1>1. /\ n \in Nat \ {0} /\ h = ref[1] /\ h \in Nat /\ p <= h
        /\ \A x \in ToSet(ref) : x \in Nat /\ h <= x
    BY IncreasingFrom
  <1>2. e \in Int /\ p <= e + 1 /\ e < h /\ e <= q /\ m \in Nat /\ (e = q \/ e = h - 1)
    BY <1>1 DEF Cut
  <1>3. \A l \in h .. q : l - h + 1 \in 1 .. n /\ ref[l - h + 1] = l
    BY DEF Agrees
  <1> HIDE DEF h, e
  <1>4. /\ a \in Seq(Nat) /\ Len(a) = m /\ \A i \in 1 .. m : a[i] = p + i - 1
        /\ ToSet(a) = p .. e /\ Increasing(a)
    <2>1. a = Log(p, e)
      BY DEF e, h
    <2> QED
      BY <1>2, <2>1, LogIs, ZenonT(30) DEF Lines
  <1>5. ref \in Seq(Nat) /\ \A i \in 1 .. n : ref[i] \in Nat /\ ref[i] \in ToSet(ref)
    BY <1>1, ElementOfSeq, LenProperties DEF Lines, ToSet
  <1>6. t = a \o ref
    BY DEF Joined
  <1>7. /\ t \in Seq(Nat) /\ Len(t) = m + n
        /\ \A i \in 1 .. m : i \in 1 .. m + n /\ t[i] = a[i]
        /\ \A i \in 1 .. n : m + i \in 1 .. m + n /\ t[m + i] = ref[i]
    <2> HIDE DEF m, n
    <2>1. a \in Seq(Nat) /\ ref \in Seq(Nat)
      BY <1>4, <1>5
    <2>2. /\ a \o ref \in Seq(Nat) /\ Len(a \o ref) = Len(a) + Len(ref)
          /\ \A i \in 1 .. Len(a) : i \in 1 .. Len(a \o ref) /\ (a \o ref)[i] = a[i]
          /\ \A i \in 1 .. Len(ref) : /\ Len(a) + i \in 1 .. Len(a \o ref)
                                       /\ (a \o ref)[Len(a) + i] = ref[i]
      BY <2>1, ConcatNumbers
    <2> QED
      BY <1>4, <1>6, <2>2 DEF n
  <1> HIDE DEF n, m
  <1>8. /\ m \in Nat /\ n \in Nat \ {0} /\ m = e - p + 1
    BY <1>1, <1>2 DEF m
  <1>9. t # <<>> /\ Head(t) = t[1]
    <2>1. m + n # 0
      BY <1>8
    <2> QED
      BY <1>7, <2>1, EmptySeq, LenProperties
  <1>10. Increasing(t)
    <2>1. \A x \in ToSet(a), y \in ToSet(ref) : x < y
      BY <1>1, <1>2, <1>4
    <2>2. Increasing(a)
      BY <1>4
    <2>3. a \in Lines
      BY <1>4 DEF Lines
    <2> QED
      BY <1>6, <2>1, <2>2, <2>3, ConcatIncreasing
  <1>11. Head(t) = p
    <2>1. CASE m = 0
      <3>1. p = h /\ m + 1 = 1 /\ 1 \in 1 .. n
        BY <1>1, <1>2, <1>8, <2>1
      <3>2. t[m + 1] = ref[1]
        BY <1>7, <3>1
      <3> QED
        BY <1>1, <1>9, <3>1, <3>2
    <2>2. CASE m # 0
      <3>1. 1 \in 1 .. m /\ p + 1 - 1 = p
        BY <1>8, <2>2
      <3>2. t[1] = p + 1 - 1
        BY <1>4, <1>7, <3>1
      <3> QED
        BY <1>9, <3>1, <3>2
    <2> QED
      BY <2>1, <2>2
  <1>12. ASSUME NEW l \in p .. q PROVE l - p + 1 \in 1 .. m + n /\ t[l - p + 1] = l
    <2>1. CASE l <= e
      <3>1. l - p + 1 \in 1 .. m /\ p + (l - p + 1) - 1 = l
        BY <1>2, <1>8, <2>1
      <3> QED
        BY <1>4, <1>7, <3>1
    <2>2. CASE ~(l <= e)
      <3>1. l \in h .. q /\ e = h - 1 /\ m = h - p
        BY <1>1, <1>2, <1>8, <2>2
      <3>2. l - h + 1 \in 1 .. n /\ ref[l - h + 1] = l
        BY <1>3, <3>1
      <3>3. l - p + 1 = m + (l - h + 1)
        BY <1>1, <3>1
      <3> QED
        BY <1>7, <3>2, <3>3
    <2> QED
      BY <1>2, <2>1, <2>2
  <1>13. Agrees(q, t)
    BY <1>7, <1>11, <1>12 DEF Agrees
  <1>14. ToSet(t) = (p .. q) \cup ToSet(ref)
    <2>1. ToSet(t) = (p .. e) \cup ToSet(ref)
      <3>1. a \in Seq(Nat) /\ ref \in Seq(Nat)
        BY <1>4, <1>5
      <3>2. ToSet(a \o ref) = ToSet(a) \cup ToSet(ref)
        BY <3>1, ToSetConcat
      <3> QED
        BY <1>4, <1>6, <3>2
    <2>2. (p .. e) \subseteq (p .. q)
      BY <1>2
    <2>3. ToSet(t) = {t[i] : i \in 1 .. m + n}
      BY <1>7, LenProperties DEF ToSet
    <2>4. (p .. q) \subseteq ToSet(t)
      BY <1>12, <2>3
    <2> QED
      BY <2>1, <2>2, <2>4
  <1> QED
    BY <1>4, <1>7, <1>9, <1>10, <1>11, <1>13, <1>14 DEF Lines
-----------------------------------------------------------------------------
(***************************************************************************)
(* Any number of windows                                                   *)
(***************************************************************************)
\* A slice that misses no line between its ends.
Unbroken(x) ==
  /\ x \in LineSlice /\ startOf(x) \in Nat /\ endOf(x) \in Nat /\ startOf(x) <= endOf(x)
  /\ x.lines = Log(startOf(x), endOf(x))

\* Slices in order, each of which has also been read as far as those before it.
Ordered(s) ==
  /\ \A i \in 1 .. Len(s) : Unbroken(s[i])
  /\ \A i, j \in 1 .. Len(s) :
       i < j => startOf(s[i]) <= startOf(s[j]) /\ endOf(s[i]) <= endOf(s[j])

\* The lines the slices hold from the i-th on.
Held(s, i) == UNION {startOf(s[j]) .. endOf(s[j]) : j \in i .. Len(s)}

\* What the slices from the i-th on have been made into: kept, and the last slice.
Stitched(r, s, i) ==
  \E kept \in Lines, ref \in Lines :
    /\ r = [ok |-> TRUE, kept |-> kept, reference |-> ref]
    /\ Joined(ref, kept, s[Len(s)].lines)
    /\ ref # <<>> /\ Increasing(ref) /\ Head(ref) = startOf(s[i])
    /\ Agrees(endOf(s[i]), ref)
    /\ ToSet(ref) = Held(s, i)

LEMMA UnbrokenIs ==
  ASSUME NEW x, Unbroken(x)
  PROVE  /\ x.lines \in Lines /\ x.lines # <<>> /\ Increasing(x.lines)
         /\ Head(x.lines) = startOf(x) /\ ToSet(x.lines) = startOf(x) .. endOf(x)
         /\ \A q \in Nat : q <= endOf(x) => Agrees(q, x.lines)
         /\ x.generation \in Nat /\ x = Slice(x.lines, x.generation)
  <1> DEFINE p == startOf(x)
             z == endOf(x)
             w == Log(p, z)
  <1>1. /\ p \in Nat /\ z \in Nat /\ p <= z /\ x.lines = w /\ x.generation \in Nat
        /\ x = Slice(x.lines, x.generation)
    BY DEF Unbroken, LineSlice, Slice
  <1> HIDE DEF p, z, w
  <1>2. z \in Int /\ p <= z + 1
    BY <1>1
  <1>3. /\ w \in Lines /\ Len(w) = z - p + 1 /\ \A i \in 1 .. z - p + 1 : w[i] = p + i - 1
        /\ Increasing(w) /\ ToSet(w) = p .. z /\ w # <<>> /\ Head(w) = p
    BY <1>1, <1>2, LogIs DEF w
  <1>4. ASSUME NEW q \in Nat, q <= z PROVE Agrees(q, w)
    <2>1. ASSUME NEW l \in p .. q PROVE l - p + 1 \in 1 .. Len(w) /\ w[l - p + 1] = l
      <3>1. l - p + 1 \in 1 .. z - p + 1 /\ p + (l - p + 1) - 1 = l
        BY <1>1, <1>4
      <3> QED
        BY <1>3, <3>1
    <2> QED
      BY <1>3, <2>1 DEF Agrees
  <1> QED
    BY <1>1, <1>3, <1>4 DEF p, z

LEMMA LinesAssociative ==
  ASSUME NEW x \in Lines, NEW y \in Lines, NEW z \in Lines
  PROVE  (x \o y) \o z = x \o (y \o z)
  <1>1. x \in Seq(Nat) /\ y \in Seq(Nat) /\ z \in Seq(Nat)
    BY DEF Lines
  <1> QED
    BY <1>1, ConcatAssociative, SMTT(20)

\* One more window, before those that have been stitched.
LEMMA StitchOne ==
  ASSUME NEW s, Len(s) \in Nat, NEW i \in 1 .. Len(s) - 1, Ordered(s),
         NEW kept \in Lines, NEW ref \in Lines, NEW last \in Lines, Joined(ref, kept, last),
         last = s[Len(s)].lines,
         ref # <<>>, Increasing(ref), Head(ref) = startOf(s[i + 1]),
         Agrees(endOf(s[i + 1]), ref), ToSet(ref) = Held(s, i + 1)
  PROVE  \E a \in Lines : /\ DedupAB(s[i].lines, ref) = Pair(a, ref)
                          /\ a \o kept \in Lines /\ a \o ref \in Lines
                          /\ Stitched([ok |-> TRUE, kept |-> a \o kept,
                                       reference |-> a \o ref], s, i)
  <1> DEFINE p == startOf(s[i])
             q == endOf(s[i])
             a == Log(p, Cut(q, Head(ref)))
             t == a \o ref
  <1>1. /\ i \in 1 .. Len(s) /\ i + 1 \in 1 .. Len(s) /\ i < i + 1
        /\ \A j \in i .. Len(s) : j = i \/ j \in i + 1 .. Len(s)
        /\ i \in i .. Len(s) /\ \A j \in i + 1 .. Len(s) : j \in i .. Len(s)
    OBVIOUS
  <1>2. /\ Unbroken(s[i]) /\ Unbroken(s[i + 1])
        /\ p <= startOf(s[i + 1]) /\ q <= endOf(s[i + 1])
    BY <1>1 DEF Ordered
  <1>3. /\ p \in Nat /\ q \in Nat /\ p <= q /\ s[i].lines = Log(p, q)
        /\ endOf(s[i + 1]) \in Nat
    BY <1>2 DEF Unbroken
  <1>4. p <= Head(ref)
    BY <1>2
  <1>5. Agrees(q, ref)
    <2>1. \A l \in Head(ref) .. q : l \in Head(ref) .. endOf(s[i + 1])
      BY <1>2, <1>3, IncreasingFrom
    <2> QED
      BY <2>1 DEF Agrees
  <1> HIDE DEF p, q
  <1> HIDE DEF a, t
  <1>6. DedupAB(s[i].lines, ref) = Pair(a, ref)
    <2>1. p \in Nat /\ q \in Nat /\ p <= q
      BY <1>3
    <2>2. DedupAB(Log(p, q), ref) = Pair(Log(p, Cut(q, Head(ref))), ref)
      BY <2>1, <1>4, <1>5, DedupWindow
    <2> QED
      BY <1>3, <2>2 DEF a
  <1>7. /\ a \in Lines /\ t \in Lines /\ t # <<>> /\ Increasing(t) /\ Head(t) = p
        /\ Agrees(q, t) /\ ToSet(t) = (p .. q) \cup ToSet(ref)
    <2>1. p \in Nat /\ q \in Nat /\ p <= q
      BY <1>3
    <2>2. a = Log(p, Cut(q, Head(ref))) /\ Joined(t, a, ref)
      BY DEF a, t, Joined
    <2> HIDE DEF a, t
    <2> QED
      BY <2>1, <2>2, <1>4, <1>5, StitchedIs
  <1>8. a \o kept \in Lines
    BY <1>7, ConcatProperties DEF Lines
  <1>9. Joined(t, a \o kept, last)
    <2>1. (a \o kept) \o last = a \o (kept \o last)
      BY <1>7, LinesAssociative, ZenonT(30)
    <2> QED
      BY <2>1 DEF t, Joined
  <1>10. Held(s, i) = (p .. q) \cup Held(s, i + 1)
    BY <1>1 DEF Held, p, q
  <1>11. ToSet(t) = Held(s, i)
    BY <1>7, <1>10
  <1> HIDE DEF t
  <1>12. Stitched([ok |-> TRUE, kept |-> a \o kept, reference |-> t], s, i)
    BY <1>7, <1>8, <1>9, <1>11 DEF Stitched, p, q
  <1> QED
    BY <1>6, <1>7, <1>8, <1>12 DEF t

\* The last slice by itself.
LEMMA LastAlone ==
  ASSUME NEW s, Len(s) \in Nat, Len(s) >= 1, Ordered(s), NEW last, last = s[Len(s)].lines
  PROVE  /\ last \in Lines /\ last # <<>> /\ Increasing(last) /\ Head(last) = startOf(s[Len(s)])
         /\ Agrees(endOf(s[Len(s)]), last) /\ ToSet(last) = Held(s, Len(s))
  <1> DEFINE n == Len(s)
  <1>1. n \in 1 .. n /\ n .. n = {n}
    OBVIOUS
  <1>2. Unbroken(s[n])
    BY <1>1 DEF Ordered
  <1>3. ToSet(last) = startOf(s[n]) .. endOf(s[n]) /\ endOf(s[n]) \in Nat
    BY <1>2, UnbrokenIs DEF Unbroken
  <1>4. Held(s, n) = startOf(s[n]) .. endOf(s[n])
    BY <1>1 DEF Held
  <1>5. Agrees(endOf(s[n]), last)
    <2>1. endOf(s[n]) <= endOf(s[n])
      BY <1>3
    <2> QED
      BY <1>2, <1>3, <2>1, UnbrokenIs
  <1> QED
    BY <1>2, <1>3, <1>4, <1>5, UnbrokenIs

\* The last two slices, as dedupLastTwo and keptAfter make them into one.
LEMMA LastTwo ==
  ASSUME NEW s, Len(s) \in Nat, Len(s) >= 2, Ordered(s)
  PROVE  \E a \in Lines :
           /\ DedupAB(s[Len(s) - 1].lines, s[Len(s)].lines) = Pair(a, s[Len(s)].lines)
           /\ Stitched([ok |-> TRUE, kept |-> a, reference |-> a \o s[Len(s)].lines],
                       s, Len(s) - 1)
  <1> DEFINE n == Len(s)
             last == s[n].lines
             none == <<>>
  <1>1. n - 1 \in 1 .. n - 1 /\ (n - 1) + 1 = n /\ n >= 1
    OBVIOUS
  <1>2. /\ last \in Lines /\ last # <<>> /\ Increasing(last) /\ Head(last) = startOf(s[n])
        /\ Agrees(endOf(s[n]), last) /\ ToSet(last) = Held(s, n)
    BY <1>1, LastAlone
  <1>3. none \in Lines /\ Joined(last, none, last)
    <2> HIDE DEF last
    <2> QED
      BY <1>2, ConcatEmptySeq DEF Lines, Joined
  <1> HIDE DEF none
  <1>4. PICK a \in Lines : /\ DedupAB(s[n - 1].lines, last) = Pair(a, last)
                           /\ Stitched([ok |-> TRUE, kept |-> a \o none,
                                        reference |-> a \o last], s, n - 1)
    BY <1>1, <1>2, <1>3, StitchOne
  <1>5. a \o none = a
    BY <1>4, ConcatEmptySeq DEF Lines, none
  <1> QED
    BY <1>4, <1>5

\* What dedupAgainst makes of the slices made so far and the one before them.
LEMMA AgainstIs ==
  ASSUME NEW s, Len(s) \in Nat, NEW i \in 1 .. Len(s) - 1, Ordered(s),
         NEW r, Stitched(r, s, i + 1)
  PROVE  Stitched(dedupAgainst(s[i].lines, r), s, i)
  <1> DEFINE last == s[Len(s)].lines
  <1>1. PICK kept \in Lines, ref \in Lines :
          /\ r = [ok |-> TRUE, kept |-> kept, reference |-> ref] /\ Joined(ref, kept, last)
          /\ ref # <<>> /\ Increasing(ref) /\ Head(ref) = startOf(s[i + 1])
          /\ Agrees(endOf(s[i + 1]), ref) /\ ToSet(ref) = Held(s, i + 1)
    BY DEF Stitched
  <1>2. last \in Lines
    <2>1. Len(s) \in 1 .. Len(s)
      OBVIOUS
    <2>2. Unbroken(s[Len(s)])
      BY <2>1 DEF Ordered
    <2> QED
      BY <2>2, UnbrokenIs
  <1>3. PICK a \in Lines : /\ DedupAB(s[i].lines, ref) = Pair(a, ref)
                           /\ Stitched([ok |-> TRUE, kept |-> a \o kept,
                                        reference |-> a \o ref], s, i)
    BY <1>1, <1>2, StitchOne
  <1> DEFINE d == Pair(a, ref)
  <1>4. dedupAgainst(s[i].lines, r)
          = [ok |-> r.ok /\ d.ok, kept |-> d.a \o r.kept, reference |-> d.a \o d.b]
    BY <1>1, <1>3 DEF dedupAgainst, Once
  <1>5. r.ok /\ d.ok /\ r.kept = kept /\ d.a = a /\ d.b = ref
    BY <1>1 DEF Pair
  <1> QED
    BY <1>3, <1>4, <1>5

\* A function that goes on from the last two slices as keptAfter does has, at k, what the
\* last k + 2 slices have been made into.
LEMMA StitchedAfter ==
  ASSUME NEW s, Len(s) \in Nat, Len(s) >= 2, Ordered(s),
         NEW f, Stitched(f[0], s, Len(s) - 1),
         \A k \in 1 .. Len(s) - 2 :
           Stitched(f[k - 1], s, Len(s) - k)
             => f[k] = dedupAgainst(s[Len(s) - 1 - k].lines, f[k - 1])
  PROVE  \A k \in 0 .. Len(s) - 2 : Stitched(f[k], s, Len(s) - 1 - k)
  <1> DEFINE m == Len(s) - 2
             S == {k \in 0 .. m : Stitched(f[k], s, Len(s) - 1 - k)}
  <1>1. m \in Nat
    OBVIOUS
  <1>2. 0 \in S
    <2>1. Len(s) - 1 - 0 = Len(s) - 1 /\ 0 \in 0 .. m
      BY <1>1
    <2> QED
      BY <2>1
  <1>3. ASSUME NEW k \in 1 .. m, k - 1 \in S PROVE k \in S
    <2> DEFINE i == Len(s) - 1 - k
    <2>1. i \in 1 .. Len(s) - 1 /\ i + 1 = Len(s) - k /\ Len(s) - 1 - (k - 1) = i + 1
          /\ k \in 0 .. m
      BY <1>1
    <2>2. Stitched(f[k - 1], s, Len(s) - 1 - (k - 1))
      BY <1>3
    <2> HIDE DEF m
    <2>3. Stitched(f[k - 1], s, i + 1)
      BY <2>1, <2>2
    <2>4. f[k] = dedupAgainst(s[i].lines, f[k - 1])
      BY <2>1, <2>3 DEF m
    <2> HIDE DEF i
    <2>5. Stitched(f[k], s, i)
      BY <2>1, <2>3, <2>4, AgainstIs
    <2> QED
      BY <2>1, <2>5 DEF i
  <1> HIDE DEF m
  <1>4. 0 .. m \subseteq S
    <2> HIDE DEF S
    <2> QED
      BY <1>1, <1>2, <1>3, IntervalInductionSet
  <1> QED
    BY <1>4 DEF m

LEMMA KeptAfterIs ==
  ASSUME NEW s, Len(s) \in Nat, Len(s) >= 2, Ordered(s),
         NEW a \in Lines, NEW b \in Lines,
         Stitched([ok |-> TRUE, kept |-> a, reference |-> a \o b], s, Len(s) - 1)
  PROVE  \A k \in 0 .. Len(s) - 2 : Stitched(keptAfter(s, Pair(a, b))[k], s, Len(s) - 1 - k)
  <1> DEFINE n == Len(s)
             m == n - 2
             A == [ok : BOOLEAN, kept : Lines, reference : Lines]
             base == [ok |-> TRUE, kept |-> a, reference |-> a \o b]
             last == Pair(a, b)
             next(r, k) == dedupAgainst(s[n - 1 - k].lines, r)
             Is(f) == f = [k \in 0 .. m |->
                             IF k = 0 THEN base
                             ELSE Once(f[k - 1], LAMBDA later :
                                         dedupAgainst(s[n - 1 - k].lines, later))]
             after == CHOOSE f : Is(f)
             step == [p \in A \X (1 .. m) |->
                        IF Stitched(p[1], s, n - p[2]) THEN next(p[1], p[2]) ELSE base]
  <1>1. keptAfter(s, last) = after
    <2>1. last.ok = TRUE /\ last.a = a /\ last.b = b
      BY DEF Pair
    <2> HIDE DEF last
    <2> QED
      BY <2>1 DEF keptAfter
  <1>a. \A f : Is(f) <=> f = [k \in 0 .. m |-> IF k = 0 THEN base ELSE next(f[k - 1], k)]
    <2>1. \A v, k : Once(v, LAMBDA later : dedupAgainst(s[n - 1 - k].lines, later)) = next(v, k)
      BY DEF Once
    <2> QED
      BY <2>1
  <1>2. m \in Nat
    OBVIOUS
  <1>3. \A r, i : Stitched(r, s, i) => r \in A
    BY DEF Stitched
  <1>4. base \in A /\ Stitched(base, s, n - 1)
    <2> HIDE DEF A
    <2> QED
      BY <1>3
  <1>5. ASSUME NEW r \in A, NEW k \in 1 .. m, Stitched(r, s, n - k)
        PROVE  next(r, k) \in A
    <2> DEFINE i == n - 1 - k
    <2>1. i \in 1 .. n - 1 /\ i + 1 = n - k
      OBVIOUS
    <2> HIDE DEF i
    <2>2. Stitched(dedupAgainst(s[i].lines, r), s, i)
      BY <1>5, <2>1, AgainstIs
    <2> HIDE DEF A
    <2> QED
      BY <1>3, <2>2 DEF i
  <1> HIDE DEF A, base, next, last
  <1>6. step \in [A \X (1 .. m) -> A]
    BY <1>4, <1>5
  <1>7. PICK f \in Recursion(A, base, m, step) : TRUE
    <2> HIDE DEF step
    <2> QED
      BY <1>2, <1>4, <1>6, RecursionDefines
  <1>8. /\ f \in [0 .. m -> A] /\ f[0] = base
        /\ \A k \in 1 .. m : f[k] = step[<<f[k - 1], k>>] /\ f[k - 1] \in A
    <2>1. \A k \in 1 .. m : k - 1 \in 0 .. m
      BY <1>2
    <2> HIDE DEF step
    <2> QED
      BY <1>7, <2>1 DEF Recursion
  <1>9. \A k \in 1 .. m : Stitched(f[k - 1], s, n - k) => f[k] = next(f[k - 1], k)
    <2>1. \A k \in 1 .. m : f[k] = step[<<f[k - 1], k>>] /\ f[k - 1] \in A
      BY <1>8
    <2> QED
      BY <2>1
  <1> HIDE DEF step
  <1>10. \A k \in 0 .. m : Stitched(f[k], s, n - 1 - k)
    BY <1>4, <1>8, <1>9, StitchedAfter DEF next
  <1>11. \A k \in 1 .. m : f[k] = next(f[k - 1], k)
    <2>1. \A k \in 1 .. m : k - 1 \in 0 .. m /\ n - 1 - (k - 1) = n - k
      BY <1>2
    <2> QED
      BY <1>9, <1>10, <2>1
  <1>12. Is(f)
    <2>1. \A k \in 0 .. m : k = 0 \/ k \in 1 .. m
      BY <1>2
    <2>2. \A k \in 0 .. m : f[k] = IF k = 0 THEN base ELSE next(f[k - 1], k)
      BY <1>8, <1>11, <2>1
    <2> HIDE DEF m, Is
    <2> QED
      BY <1>8, <1>a, <2>2
  <1>13. Is(after)
    <2> HIDE DEF Is
    <2> QED
      BY <1>12
  <1> HIDE DEF after
  <1>14. after[0] = base /\ \A k \in 1 .. m : after[k] = next(after[k - 1], k)
    <2>1. 0 \in 0 .. m /\ \A k \in 1 .. m : k \in 0 .. m /\ k # 0
      BY <1>2
    <2> HIDE DEF m, Is
    <2>2. after = [k \in 0 .. m |-> IF k = 0 THEN base ELSE next(after[k - 1], k)]
      BY <1>13, <1>a
    <2> QED
      BY <2>1, <2>2
  <1>15. \A k \in 0 .. m : Stitched(after[k], s, n - 1 - k)
    <2>1. Stitched(after[0], s, n - 1)
      BY <1>4, <1>14
    <2> QED
      BY <1>14, <2>1, StitchedAfter DEF next
  <1> QED
    BY <1>1, <1>15 DEF last
-----------------------------------------------------------------------------
(***************************************************************************)
(* Slices in any order                                                     *)
(***************************************************************************)
\* A slice that starts later has been read as far.
ReadInTurn(s) ==
  \A i, j \in 1 .. Len(s) : startOf(s[i]) < startOf(s[j]) => endOf(s[i]) <= endOf(s[j])

LEMMA SlicesSorted ==
  ASSUME NEW slices \in Seq(LineSlice), \A i \in 1 .. Len(slices) : Unbroken(slices[i]),
         ReadInTurn(slices)
  PROVE  LET s == sortedSlices(slices)
         IN  /\ Len(s) = Len(slices) /\ Ordered(s)
             /\ \A k \in 1 .. Len(s) : \E j \in 1 .. Len(s) : s[k] = slices[j]
             /\ \A j \in 1 .. Len(s) : \E k \in 1 .. Len(s) : s[k] = slices[j]
  <1> DEFINE n == Len(slices)
             P == 1 .. n
             from(i) == startOf(slices[i])
             to(i) == endOf(slices[i])
             before(i, j) == from(i) < from(j) \/ (from(i) = from(j) /\ to(i) < to(j))
             less == {p \in P \X P : before(p[1], p[2])}
             s == Sorted(slices, less)
  <1>1. sortedSlices(slices) = s
    BY DEF sortedSlices
  <1>2. n \in Nat
    BY LenProperties
  <1>3. \A i \in P : from(i) \in Int /\ to(i) \in Int
    BY DEF Unbroken
  <1>4. \A i, j \in P : from(i) < from(j) => to(i) <= to(j)
    BY DEF ReadInTurn
  <1> HIDE DEF P, from, to
  <1>5. \A i, j \in P : <<i, j>> \in less <=> before(i, j)
    OBVIOUS
  <1>6. IsLess(n, less)
    <2>1. \A i, j \in P : before(i, j) => ~before(j, i)
      BY <1>3
    <2>2. \A i, j, k \in P : before(i, k) => before(i, j) \/ before(j, k)
      BY <1>3
    <2> HIDE DEF less, before
    <2> QED
      BY <1>5, <2>1, <2>2 DEF IsLess, P
  <1> HIDE DEF less
  <1>7. PICK place \in [P -> P] :
          /\ Len(s) = n
          /\ \A k \in P : s[k] = slices[place[k]]
          /\ \A k \in P : \E j \in P : place[j] = k
          /\ \A j, k \in P : j < k => <<place[k], place[j]>> \notin less
    BY <1>6, SortedIs DEF P
  <1> HIDE DEF s, n
  <1>8. Ordered(s)
    <2>1. \A i \in P : Unbroken(s[i])
      BY <1>7 DEF P, n
    <2>2. ASSUME NEW i \in P, NEW j \in P, i < j
          PROVE  startOf(s[i]) <= startOf(s[j]) /\ endOf(s[i]) <= endOf(s[j])
      <3> DEFINE x == place[i]
                 y == place[j]
      <3>1. x \in P /\ y \in P /\ s[i] = slices[x] /\ s[j] = slices[y]
        BY <1>7
      <3> HIDE DEF x, y
      <3>2. ~before(y, x)
        BY <1>5, <1>7, <2>2, <3>1 DEF x, y
      <3>3. from(x) <= from(y) /\ to(x) <= to(y)
        BY <1>3, <1>4, <3>1, <3>2
      <3> QED
        BY <3>1, <3>3 DEF from, to
    <2> QED
      BY <1>7, <2>1, <2>2 DEF Ordered, P
  <1>9. /\ \A k \in P : \E j \in P : s[k] = slices[j]
        /\ \A j \in P : \E k \in P : s[k] = slices[j]
    BY <1>7
  <1> QED
    BY <1>1, <1>7, <1>8, <1>9 DEF P, n

\* Slices in order: every line is held once and in order, by what is left of those before
\* the last and by the last, which is as it was.
LEMMA SortedMerge ==
  ASSUME NEW s, Len(s) \in Nat, Len(s) >= 2, Ordered(s)
  PROVE  \E kept \in Lines :
           /\ dedupLastTwo(s) = [ok |-> TRUE, result |-> Slice(kept, s[Len(s) - 1].generation),
                                 last |-> s[Len(s)]]
           /\ Increasing(kept \o s[Len(s)].lines)
           /\ ToSet(kept \o s[Len(s)].lines) = Held(s, 1)
  <1> DEFINE n == Len(s)
             b == s[n].lines
  <1>1. PICK a \in Lines :
          /\ DedupAB(s[n - 1].lines, b) = Pair(a, b)
          /\ Stitched([ok |-> TRUE, kept |-> a, reference |-> a \o b], s, n - 1)
    BY LastTwo
  <1>2. b \in Lines /\ s[n] = Slice(b, s[n].generation)
    <2>1. n \in 1 .. Len(s)
      OBVIOUS
    <2>2. Unbroken(s[n])
      BY <2>1 DEF Ordered
    <2> QED
      BY <2>2, UnbrokenIs
  <1> HIDE DEF b
  <1> DEFINE last == Pair(a, b)
             all == keptAfter(s, last)[n - 2]
  <1>3. Stitched(all, s, 1)
    <2>1. n - 2 \in 0 .. n - 2 /\ n - 1 - (n - 2) = 1
      OBVIOUS
    <2>2. \A k \in 0 .. n - 2 : Stitched(keptAfter(s, last)[k], s, n - 1 - k)
      BY <1>1, <1>2, KeptAfterIs DEF b
    <2> HIDE DEF last
    <2> QED
      BY <2>1, <2>2
  <1>4. dedupLastTwo(s) = dedupSorted(s, last)
    BY <1>1 DEF dedupLastTwo, Once, b
  <1> HIDE DEF last, all
  <1>5. dedupSorted(s, last)
          = [ok |-> all.ok, result |-> Slice(all.kept, s[n - 1].generation),
             last |-> Slice(last.b, s[n].generation)]
    BY DEF dedupSorted, Once, all
  <1>6. last.b = b
    BY DEF last, Pair
  <1>7. PICK kept \in Lines, ref \in Lines :
          /\ all = [ok |-> TRUE, kept |-> kept, reference |-> ref] /\ Joined(ref, kept, b)
          /\ Increasing(ref) /\ ToSet(ref) = Held(s, 1)
    BY <1>3 DEF Stitched, b
  <1>8. all.ok = TRUE /\ all.kept = kept /\ ref = kept \o b
    BY <1>7 DEF Joined
  <1> QED
    BY <1>2, <1>4, <1>5, <1>6, <1>7, <1>8 DEF b

\* Slices that miss no line and were read in turn: each line they hold is held once and in
\* order, and the slice that starts last and ends last stays as it is.
Merged(d, slices) ==
  /\ d.ok /\ d.result.lines \in Lines /\ d.last.lines \in Lines
  /\ Increasing(d.result.lines \o d.last.lines)
  /\ ToSet(d.result.lines \o d.last.lines) = Held(slices, 1)
  /\ \E k \in 1 .. Len(slices) :
       /\ d.last = slices[k]
       /\ \A j \in 1 .. Len(slices) : /\ startOf(slices[j]) <= startOf(slices[k])
                                      /\ endOf(slices[j]) <= endOf(slices[k])

LEMMA SlicesMerge ==
  ASSUME NEW slices \in Seq(LineSlice), \A i \in 1 .. Len(slices) : Unbroken(slices[i]),
         ReadInTurn(slices), slices # <<>>
  PROVE  Merged(DedupLineSlices(slices), slices)
  <1> DEFINE n == Len(slices)
             d == DedupLineSlices(slices)
             s == sortedSlices(slices)
             P == 1 .. n
  <1>1. n \in Nat \ {0}
    BY LenProperties, EmptySeq
  <1>2. CASE n = 1
    <2>1. d = [ok |-> TRUE, result |-> Slice(<<>>, 0), last |-> slices[1]]
      BY <1>2 DEF DedupLineSlices
    <2>2. 1 \in 1 .. 1 /\ Unbroken(slices[1])
      BY <1>2
    <2> DEFINE x == slices[1]
               none == <<>>
    <2>3. /\ x.lines \in Lines /\ Increasing(x.lines)
          /\ ToSet(x.lines) = startOf(x) .. endOf(x)
      BY <2>2, UnbrokenIs
    <2>4. d.ok /\ d.result.lines = none /\ d.last = x
      BY <2>1 DEF Slice
    <2> HIDE DEF d
    <2>5. none \in Lines /\ none \o x.lines = x.lines
      BY <2>3, ConcatEmptySeq DEF Lines
    <2>6. Held(slices, 1) = startOf(x) .. endOf(x)
      <3>1. 1 .. n = {1}
        BY <1>2
      <3> QED
        BY <3>1 DEF Held
    <2>7. startOf(x) <= startOf(x) /\ endOf(x) <= endOf(x) /\ \A j \in 1 .. n : j = 1
      BY <1>2, <2>2 DEF Unbroken
    <2> HIDE DEF none
    <2> QED
      BY <1>2, <2>2, <2>3, <2>4, <2>5, <2>6, <2>7 DEF Merged, d
  <1>3. CASE n # 1
    <2>1. d = dedupLastTwo(s) /\ n >= 2
      <3>1. n # 0 /\ n >= 2
        <4> HIDE DEF n
        <4> QED
          BY <1>1, <1>3
      <3>2. d = Once(s, dedupLastTwo)
        BY <1>3, <3>1 DEF DedupLineSlices
      <3> HIDE DEF s, d, n
      <3> QED
        BY <3>1, <3>2 DEF Once
    <2>2. /\ Len(s) = n /\ Ordered(s)
          /\ \A k \in P : \E j \in P : s[k] = slices[j]
          /\ \A j \in P : \E k \in P : s[k] = slices[j]
      BY SlicesSorted
    <2> HIDE DEF s, d, n
    <2>3. PICK kept \in Lines :
            /\ d = [ok |-> TRUE, result |-> Slice(kept, s[n - 1].generation), last |-> s[n]]
            /\ Increasing(kept \o s[n].lines)
            /\ ToSet(kept \o s[n].lines) = Held(s, 1)
      BY <1>1, <2>1, <2>2, SortedMerge
    <2>4. d.ok /\ d.result.lines = kept /\ d.last = s[n]
      BY <2>3 DEF Slice
    <2>5. n \in P /\ \A j \in P : j = n \/ j < n
      BY <1>1
    <2>6. s[n].lines \in Lines
      BY <2>2, <2>5, UnbrokenIs DEF Ordered
    <2>7. Held(s, 1) = Held(slices, 1)
      BY <2>2 DEF Held, n
    <2>8. ASSUME NEW j \in P
          PROVE  startOf(slices[j]) <= startOf(s[n]) /\ endOf(slices[j]) <= endOf(s[n])
      <3>1. PICK k \in P : s[k] = slices[j]
        BY <2>2
      <3>2. startOf(s[n]) \in Int /\ endOf(s[n]) \in Int
        <4>1. Unbroken(s[n])
          BY <2>2, <2>5 DEF Ordered
        <4> QED
          BY <4>1 DEF Unbroken
      <3>3. startOf(s[n]) <= startOf(s[n]) /\ endOf(s[n]) <= endOf(s[n])
        BY <3>2
      <3>4. k < n => startOf(s[k]) <= startOf(s[n]) /\ endOf(s[k]) <= endOf(s[n])
        BY <2>2, <2>5 DEF Ordered
      <3> QED
        BY <2>5, <3>1, <3>3, <3>4
    <2> QED
      BY <2>2, <2>3, <2>4, <2>5, <2>6, <2>7, <2>8 DEF Merged, n, d
  <1> QED
    BY <1>2, <1>3

\* A sequence in order of all the lines between two is the log.
LEMMA IncreasingIsLog ==
  ASSUME NEW p \in Nat, NEW q \in Int, p <= q + 1,
         NEW w \in Lines, Increasing(w), ToSet(w) = p .. q
  PROVE  w = Log(p, q)
  <1> DEFINE n == Len(w)
             S == {i \in 0 .. n : \A j \in 1 .. i : w[j] = p + j - 1}
  <1>1. n \in Nat /\ \A i \in 1 .. n : w[i] \in p .. q
    <2>1. n \in Nat /\ \A i \in 1 .. n : w[i] \in ToSet(w)
      BY LenProperties DEF Lines, ToSet
    <2> QED
      BY <2>1
  <1>2. \A x \in p .. q : \E k \in 1 .. n : w[k] = x
    <2>1. ToSet(w) = {w[k] : k \in 1 .. n}
      BY LenProperties DEF Lines, ToSet
    <2> QED
      BY <2>1
  <1>3. \A j, k \in 1 .. n : j < k => w[j] < w[k]
    BY DEF Increasing
  <1> HIDE DEF n
  <1>4. ASSUME NEW i \in 1 .. n, i - 1 \in S PROVE i \in S
    <2>1. \A j \in 1 .. i - 1 : w[j] = p + j - 1
      BY <1>4
    <2>2. i \in 0 .. n /\ i \in Int /\ 1 <= i
      BY <1>1
    <2>3. w[i] \in p .. q
      BY <1>1
    <2>4. w[i] >= p + i - 1
      <3>1. CASE i = 1
        BY <2>3, <3>1
      <3>2. CASE i # 1
        <4>1. i - 1 \in 1 .. i - 1 /\ i - 1 \in 1 .. n /\ i - 1 < i
          BY <1>1, <2>2, <3>2
        <4>2. w[i - 1] = p + (i - 1) - 1 /\ w[i - 1] < w[i]
          BY <1>3, <2>1, <4>1
        <4> QED
          BY <2>2, <2>3, <4>2
      <3> QED
        BY <3>1, <3>2
    <2>5. w[i] = p + i - 1
      <3> SUFFICES ASSUME w[i] > p + i - 1 PROVE FALSE
        BY <2>2, <2>3, <2>4
      <3>1. p + i - 1 \in p .. q
        BY <2>2, <2>3
      <3>2. PICK k \in 1 .. n : w[k] = p + i - 1
        BY <1>2, <3>1
      <3>3. CASE k < i
        <4>1. k \in 1 .. i - 1
          BY <1>1, <2>2, <3>3
        <4>2. w[k] = p + k - 1
          BY <2>1, <4>1
        <4> QED
          BY <1>1, <2>2, <3>2, <3>3, <4>2
      <3>4. CASE k = i
        BY <2>2, <2>3, <3>2, <3>4
      <3>5. CASE i < k
        <4>1. w[i] < w[k]
          BY <1>3, <3>5
        <4> QED
          BY <2>2, <2>3, <3>2, <4>1
      <3> QED
        BY <1>1, <2>2, <3>3, <3>4, <3>5
    <2>6. \A j \in 1 .. i : j \in 1 .. i - 1 \/ j = i
      BY <2>2
    <2> QED
      BY <2>1, <2>2, <2>5, <2>6
  <1>5. n \in S
    <2>1. 0 \in S
      BY <1>1
    <2> HIDE DEF S
    <2>2. 0 .. n \subseteq S
      BY <1>1, <1>4, <2>1, IntervalInductionSet
    <2> QED
      BY <1>1, <2>2
  <1>6. \A j \in 1 .. n : w[j] = p + j - 1
    BY <1>5
  <1>7. n = q - p + 1
    <2>1. ~(n < q - p + 1)
      <3> SUFFICES ASSUME n < q - p + 1 PROVE FALSE
        OBVIOUS
      <3>1. p + n \in p .. q
        BY <1>1
      <3>2. PICK k \in 1 .. n : w[k] = p + n
        BY <1>2, <3>1
      <3>3. w[k] = p + k - 1
        BY <1>6
      <3> QED
        BY <1>1, <3>2, <3>3
    <2>2. ~(n > q - p + 1)
      <3> SUFFICES ASSUME n > q - p + 1 PROVE FALSE
        OBVIOUS
      <3>1. n \in 1 .. n
        BY <1>1
      <3>2. w[n] = p + n - 1 /\ w[n] \in p .. q
        BY <1>1, <1>6, <3>1
      <3> QED
        BY <1>1, <3>2
    <2> QED
      BY <1>1, <2>1, <2>2
  <1> QED
    BY <1>6, <1>7, IsLog DEF n

LEMMA HeadMoves ==
  ASSUME NEW x \in Lines, NEW y \in Lines, y # <<>>
  PROVE  /\ Append(x, Head(y)) \in Lines /\ Tail(y) \in Lines
         /\ Append(x, Head(y)) \o Tail(y) = x \o y
  <1> DEFINE h == <<Head(y)>>
             t == Tail(y)
  <1>1. x \in Seq(Nat) /\ y \in Seq(Nat)
    BY DEF Lines
  <1>2. /\ Head(y) \in Nat /\ t \in Seq(Nat) /\ Len(t) = Len(y) - 1 /\ Head(y) = y[1]
        /\ \A i \in 1 .. Len(t) : t[i] = y[i + 1]
    BY <1>1, HeadTailProperties
  <1>3. h \in Seq(Nat) /\ Len(h) = 1 /\ h[1] = y[1]
    BY <1>2
  <1>4. Append(x, Head(y)) = x \o h /\ Append(x, Head(y)) \in Seq(Nat)
    BY <1>1, <1>2, AppendIsConcat, AppendProperties
  <1> HIDE DEF h, t
  <1>5. h \o t = y
    <2> DEFINE r == h \o t
               n == Len(y)
    <2>1. /\ r \in Seq(Nat) /\ Len(r) = Len(h) + Len(t)
          /\ \A i \in 1 .. Len(h) + Len(t) : r[i] = IF i <= Len(h) THEN h[i] ELSE t[i - Len(h)]
      <3>1. h \in Seq(Nat) /\ t \in Seq(Nat)
        BY <1>2, <1>3
      <3> QED
        BY <3>1, ConcatProperties
    <2>2. n \in Nat /\ Len(h) = 1 /\ Len(t) = n - 1
      BY <1>1, <1>2, <1>3, LenProperties
    <2> HIDE DEF r, n
    <2>3. ASSUME NEW i \in 1 .. n PROVE r[i] = y[i]
      <3>1. i \in 1 .. Len(h) + Len(t)
        BY <2>2
      <3>2. CASE i = 1
        BY <1>3, <2>1, <2>2, <3>1, <3>2
      <3>3. CASE i # 1
        <4>1. i - 1 \in 1 .. Len(t) /\ (i - 1) + 1 = i /\ ~(i <= 1)
          BY <2>2, <3>3
        <4> QED
          BY <1>2, <2>1, <2>2, <3>1, <4>1
      <3> QED
        BY <3>2, <3>3
    <2>4. Len(r) = n
      BY <2>1, <2>2
    <2> QED
      BY <1>1, <2>1, <2>3, <2>4, SeqEqual DEF n, r
  <1>6. (x \o h) \o t = x \o (h \o t)
    <2>1. h \in Lines /\ t \in Lines
      BY <1>2, <1>3 DEF Lines
    <2> QED
      BY <2>1, LinesAssociative
  <1> QED
    BY <1>2, <1>4, <1>5, <1>6 DEF Lines, t

\* The log is what comes before a line of it and what comes from that line on.
LEMMA LogSplits ==
  ASSUME NEW p \in Nat, NEW m \in Nat, NEW q \in Int, p <= m, m <= q + 1
  PROVE  Log(p, m - 1) \o Log(m, q) = Log(p, q)
  <1> DEFINE a == Log(p, m - 1)
             b == Log(m, q)
  <1>1. /\ m - 1 \in Int /\ p <= (m - 1) + 1 /\ p <= q + 1
    OBVIOUS
  <1>2. /\ a \in Lines /\ Len(a) = m - p /\ \A i \in 1 .. m - p : a[i] = p + i - 1
    <2>1. /\ a \in Lines /\ Len(a) = (m - 1) - p + 1
          /\ \A i \in 1 .. (m - 1) - p + 1 : a[i] = p + i - 1
      BY <1>1, LogIs
    <2>2. (m - 1) - p + 1 = m - p
      OBVIOUS
    <2> HIDE DEF a
    <2> QED
      BY <2>1, <2>2
  <1>3. /\ b \in Lines /\ Len(b) = q - m + 1 /\ \A i \in 1 .. q - m + 1 : b[i] = m + i - 1
    BY LogIs
  <1> HIDE DEF a, b
  <1>4. /\ a \o b \in Seq(Nat) /\ Len(a \o b) = (m - p) + (q - m + 1)
        /\ \A i \in 1 .. (m - p) + (q - m + 1) :
             (a \o b)[i] = IF i <= m - p THEN a[i] ELSE b[i - (m - p)]
    <2>1. a \in Seq(Nat) /\ b \in Seq(Nat)
      BY <1>2, <1>3 DEF Lines
    <2>2. /\ a \o b \in Seq(Nat) /\ Len(a \o b) = Len(a) + Len(b)
          /\ \A i \in 1 .. Len(a) + Len(b) :
               (a \o b)[i] = IF i <= Len(a) THEN a[i] ELSE b[i - Len(a)]
      BY <2>1, ConcatProperties
    <2>3. Len(a) = m - p /\ Len(b) = q - m + 1
      BY <1>2, <1>3
    <2> QED
      BY <2>2, <2>3
  <1> DEFINE c == a \o b
  <1> HIDE DEF c
  <1>5. c \in Lines /\ Len(c) = q - p + 1
    BY <1>4 DEF c, Lines
  <1>6. ASSUME NEW i \in 1 .. Len(c) PROVE c[i] = p + i - 1
    <2>1. i \in 1 .. (m - p) + (q - m + 1)
      BY <1>5
    <2>2. c[i] = IF i <= m - p THEN a[i] ELSE b[i - (m - p)]
      BY <1>4, <2>1 DEF c
    <2>3. CASE i <= m - p
      <3>1. i \in 1 .. m - p
        BY <2>1, <2>3
      <3> QED
        BY <1>2, <2>2, <2>3, <3>1
    <2>4. CASE ~(i <= m - p)
      <3>1. i - (m - p) \in 1 .. q - m + 1 /\ m + (i - (m - p)) - 1 = p + i - 1
        BY <2>1, <2>4
      <3> QED
        BY <1>3, <2>2, <2>4, <3>1
    <2> QED
      BY <2>3, <2>4
  <1>7. c = Log(p, q)
    BY <1>1, <1>5, <1>6, IsLog
  <1> QED
    BY <1>7 DEF a, b, c

\* ... so that what comes before is known from what comes after.
LEMMA LogBefore ==
  ASSUME NEW p \in Nat, NEW m \in Nat, NEW q \in Int, p <= m, m <= q + 1,
         NEW x \in Lines, NEW y \in Lines, y = Log(m, q), x \o y = Log(p, q)
  PROVE  x = Log(p, m - 1)
  <1> DEFINE n == Len(x)
             w == Log(p, q)
  <1>1. p <= q + 1
    OBVIOUS
  <1>2. w \in Lines /\ Len(w) = q - p + 1 /\ \A i \in 1 .. q - p + 1 : w[i] = p + i - 1
    BY <1>1, LogIs
  <1>3. Len(y) = q - m + 1
    BY LogIs
  <1>4. x \o y = w
    OBVIOUS
  <1> HIDE DEF w
  <1>5. /\ Len(w) = n + Len(y) /\ n \in Nat
        /\ \A i \in 1 .. n + Len(y) : w[i] = IF i <= n THEN x[i] ELSE y[i - n]
    <2>1. x \in Seq(Nat) /\ y \in Seq(Nat)
      BY DEF Lines
    <2> QED
      BY <1>4, <2>1, ConcatProperties, LenProperties
  <1> HIDE DEF n
  <1>6. n = m - p
    BY <1>2, <1>3, <1>5
  <1>7. ASSUME NEW i \in 1 .. n PROVE x[i] = p + i - 1
    <2>1. i \in 1 .. n + Len(y) /\ i <= n /\ i \in 1 .. q - p + 1
      BY <1>3, <1>5, <1>6
    <2> QED
      BY <1>2, <1>5, <2>1
  <1>8. m - 1 \in Int /\ p <= (m - 1) + 1 /\ n = (m - 1) - p + 1
    BY <1>6
  <1> QED
    BY <1>7, <1>8, IsLog DEF n
-----------------------------------------------------------------------------
(***************************************************************************)
(* The slices of one generation                                            *)
(***************************************************************************)
\* One slice that holds what all slices of a generation held.
MadeOne(s, slices) ==
  /\ Unbroken(s)
  /\ \E i \in 1 .. Len(slices) : startOf(s) = startOf(slices[i])
  /\ \E k \in 1 .. Len(slices) : endOf(s) = endOf(slices[k])
  /\ \A i \in 1 .. Len(slices) : /\ startOf(s) <= startOf(slices[i])
                                 /\ endOf(slices[i]) <= endOf(s)
  /\ startOf(s) .. endOf(s) = Held(slices, 1)

\* Slices that miss no line, were read in turn and overlap are made one that misses none.
LEMMA GenerationMerges ==
  ASSUME NEW slices \in Seq(LineSlice), slices # <<>>, NEW g \in Nat,
         \A i \in 1 .. Len(slices) : Unbroken(slices[i]) /\ slices[i].generation = g,
         ReadInTurn(slices),
         \A i, j \in 1 .. Len(slices) : startOf(slices[i]) <= endOf(slices[j])
  PROVE  /\ dedupGeneration(slices).ok
         /\ dedupGeneration(slices).slice.generation = g
         /\ MadeOne(dedupGeneration(slices).slice, slices)
  <1> DEFINE d == DedupLineSlices(slices)
             w == d.result.lines \o d.last.lines
             P == 1 .. Len(slices)
             from(i) == startOf(slices[i])
             to(i) == endOf(slices[i])
             s == Slice(w, d.last.generation)
  <1>1. Merged(d, slices)
    BY SlicesMerge
  <1>2. dedupGeneration(slices) = [ok |-> d.ok, slice |-> s]
    BY DEF dedupGeneration, Once
  <1>3. Len(slices) \in Nat \ {0} /\ 1 \in P
    BY LenProperties, EmptySeq
  <1>4. \A i \in P : from(i) \in Nat /\ to(i) \in Nat /\ from(i) <= to(i)
    BY DEF Unbroken
  <1>5. \A i, j \in P : from(i) <= to(j)
    OBVIOUS
  <1>6. /\ d.ok /\ d.result.lines \in Lines /\ d.last.lines \in Lines
        /\ Increasing(w) /\ ToSet(w) = Held(slices, 1)
    BY <1>1 DEF Merged
  <1>7. PICK k \in P : d.last = slices[k] /\ \A i \in P : from(i) <= from(k) /\ to(i) <= to(k)
    BY <1>1 DEF Merged
  <1>8. d.last.generation = g
    BY <1>7
  <1>9. Held(slices, 1) = UNION {from(i) .. to(i) : i \in P}
    BY DEF Held
  <1>10. w \in Lines
    BY <1>6, ConcatProperties DEF Lines
  <1>11. /\ \A i \in P : slices[i] \in LineSlice
         /\ \A i \in P : from(i) \in from(i) .. to(i) /\ to(i) \in from(i) .. to(i)
    BY <1>4 DEF Unbroken
  <1> HIDE DEF d, w, P, from, to
  <1>12. \A x : x \in ToSet(w) <=> \E i \in P : x \in from(i) .. to(i)
    BY <1>6, <1>9
  <1>13. w # <<>>
    <2>1. from(1) \in ToSet(w)
      BY <1>3, <1>11, <1>12
    <2> QED
      BY <2>1 DEF ToSet
  <1>14. /\ Head(w) \in Nat /\ Head(w) \in ToSet(w) /\ \A x \in ToSet(w) : Head(w) <= x
    BY <1>6, <1>10, <1>13, IncreasingFrom
  <1>15. PICK m \in P : Head(w) = from(m)
    <2>1. PICK m \in P : Head(w) \in from(m) .. to(m)
      BY <1>12, <1>14
    <2>2. Head(w) <= from(m)
      BY <1>11, <1>12, <1>14
    <2> QED
      BY <1>4, <2>1, <2>2
  <1>16. \A i \in P : from(m) <= from(i)
    BY <1>11, <1>12, <1>14, <1>15
  <1>17. ToSet(w) = from(m) .. to(k)
    <2>1. ASSUME NEW x \in ToSet(w) PROVE x \in from(m) .. to(k)
      <3>1. PICK i \in P : x \in from(i) .. to(i)
        BY <1>12
      <3>2. from(m) <= from(i) /\ to(i) <= to(k)
        BY <1>7, <1>16
      <3> QED
        BY <1>4, <3>1, <3>2
    <2>2. ASSUME NEW x \in from(m) .. to(k) PROVE x \in ToSet(w)
      <3>1. x \in from(m) .. to(m) \/ x \in from(k) .. to(k)
        <4>1. from(k) <= to(m)
          BY <1>5
        <4> QED
          BY <1>4, <2>2, <4>1
      <3> QED
        BY <1>12, <3>1
    <2> QED
      BY <2>1, <2>2
  <1>18. w = Log(from(m), to(k))
    <2>1. from(m) \in Nat /\ to(k) \in Int /\ from(m) <= to(k) + 1
      <3>1. from(m) <= to(k)
        BY <1>5
      <3> QED
        BY <1>4, <3>1
    <2> QED
      BY <1>6, <1>10, <1>17, <2>1, IncreasingIsLog
  <1>19. startOf(s) = from(m) /\ endOf(s) = to(k)
    <2>1. from(m) \in Nat /\ to(k) \in Int /\ from(m) <= to(k) + 1 /\ from(m) <= to(k)
      <3>1. from(m) <= to(k)
        BY <1>5
      <3> QED
        BY <1>4, <3>1
    <2>2. Head(w) = from(m) /\ Last(w) = to(k)
      BY <1>18, <2>1, LogIs
    <2>3. s.lines = w
      BY DEF Slice
    <2> QED
      BY <1>13, <2>2, <2>3 DEF startOf, endOf
  <1>20. s \in LineSlice /\ s.lines = w /\ s.generation = g
    BY <1>8, <1>10 DEF Slice, LineSlice
  <1> HIDE DEF s
  <1>21. Unbroken(s)
    <2>1. from(m) \in Nat /\ to(k) \in Nat /\ from(m) <= to(k)
      BY <1>4, <1>5
    <2> QED
      BY <1>18, <1>19, <1>20, <2>1 DEF Unbroken
  <1>22. MadeOne(s, slices)
    <2>1. \A i \in P : to(i) <= to(k) /\ from(m) <= from(i)
      BY <1>7, <1>16
    <2> QED
      BY <1>6, <1>17, <1>19, <1>21, <2>1 DEF MadeOne, P, from, to
  <1> QED
    BY <1>2, <1>6, <1>20, <1>22
============================================================================
